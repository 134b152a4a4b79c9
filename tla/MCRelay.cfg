SPECIFICATION FairSpec
CONSTANTS
  Aead = "aes_128_gcm"
  Vip = {v1, v2}
  Endpoint = {e1, e2}
  Long = {v2}
  Expire = 1
  MaxTime = 2
  Absent = Absent
  MaxInFlight = 2
  MaxAnswers = 1
  MaxClients = 1
  NoEndpoint = NoEndpoint
  NoVip = NoVip
CHECK_DEADLOCK FALSE
INVARIANTS ReplyWhereHeard AnswerFindsSession DownOnlyForStrangers
PROPERTIES RelaysGoOn MovedClientIsFound
