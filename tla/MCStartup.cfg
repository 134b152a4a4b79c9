SPECIFICATION StartupSpec
CONSTANTS
  Refused = Refused
  Platform = {"linux", "windows"}
  Texts <- PieceTexts
  Ephemeral = {49152}
  NoAddr = NoAddr
CHECK_DEADLOCK FALSE
INVARIANTS ReadsAddresses RelaysAsAsked ThreadsHaveObjects
