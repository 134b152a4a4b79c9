-------------------------------- MODULE Addr --------------------------------
(***************************************************************************)
(* The texts of addresses (src/addr.h).  A text is a sequence of           *)
(* characters, and a character is its code less that of '0', so that a     *)
(* digit is its value.                                                     *)
(***************************************************************************)
EXTENDS Integers, SequencesExt

CONSTANT Refused  \* an exception

\* An exception is nothing that a parser returns.
ASSUME RefusedAssumption ==
  Refused \notin Seq(Int) /\ Refused \notin [ip : Seq(Int), port : Int]

Dot == -2
Colon == 10
Bracket == 43    \* [
Unbracket == 45  \* ]

\* The position of the first c in s, or 0: find and the loops over an iterator.
Find(s, c) == SelectInSeq(s, LAMBDA x : x = c)

From(s, i) == SubSeq(s, i, Len(s))

Digits(s) == s # <<>> /\ \A i \in DOMAIN s : s[i] \in 0..9
Decimal(s) == FoldLeft(LAMBDA n, c : n * 10 + c, 0, s)

\* inet_pton(AF_INET): four numbers up to 255, without leading zeros.
Octet(s) ==
  Digits(s) /\ Len(s) <= 3 /\ (Len(s) > 1 => s[1] # 0) /\ Decimal(s) <= 255

InetPton(s) ==
  LET Part(i, j) == SubSeq(s, i + 1, j - 1)
      Dots == {i \in DOMAIN s : s[i] = Dot}
      Splits == {d \in Dots \X Dots \X Dots :
                   /\ Octet(Part(0, d[1])) /\ Octet(Part(d[1], d[2]))
                   /\ Octet(Part(d[2], d[3])) /\ Octet(Part(d[3], Len(s) + 1))}
      d == CHOOSE d \in Splits : TRUE
  IN  IF Splits = {} THEN Refused
      ELSE <<Decimal(Part(0, d[1])), Decimal(Part(d[1], d[2])),
             Decimal(Part(d[2], d[3])), Decimal(Part(d[3], Len(s) + 1))>>

\* Variant: the loop stops before the last character.
ReadPortShort(s) ==
  FoldLeft(LAMBDA port, c : (port * 10 + c) % 65536, 0, SubSeq(s, 1, Len(s) - 1))

\* The port is computed in a uint16_t, from characters of any kind.
ReadPort(s) == FoldLeft(LAMBDA port, c : (port * 10 + c) % 65536, 0, s)

\* parse_addr<IPv4>: the text of the address, and the port.
ParseAddr4(s) ==
  LET c == Find(s, Colon)
  IN  IF c = 0 \/ c = Len(s) THEN Refused
      ELSE [ip |-> SubSeq(s, 1, c - 1), port |-> ReadPort(From(s, c + 1))]

\* parse_addr<IPv6>: the text of the address.  The port is computed as above,
\* but there is no return statement, and what the caller gets is undefined.
ParseAddr6(s) ==
  LET close == Find(s, Unbracket)
  IN  IF \/ s = <<>> \/ s[1] # Bracket
         \/ close = 0
         \/ From(s, close + 1) = <<>> \/ s[close + 1] # Colon
         \/ From(s, close + 2) = <<>>
      THEN Refused
      ELSE SubSeq(s, 2, close - 1)

\* address<IPv4>(saddr).
AddrIpv4(s) ==
  LET a == ParseAddr4(s)
  IN  IF a = Refused THEN Refused
      ELSE LET ip == InetPton(a.ip)
           IN  IF ip = Refused THEN Refused ELSE [ip |-> ip, port |-> a.port]

\* address(): what a default-constructed one holds.
ZeroAddr == [ip |-> <<0, 0, 0, 0>>, port |-> 0]
IsZero(a) == a = ZeroAddr

GuessAddrType(s) ==
  IF Len(s) < 7 THEN "unknow"
  ELSE IF s[1] = Bracket THEN "ipv6"
  ELSE IF Find(s, Dot) # 0 THEN "ipv4"
  ELSE "ipv6"
=============================================================================
