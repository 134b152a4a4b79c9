----------------------------- MODULE MCStartup -----------------------------
(* Startup for every text made of up to four pieces of addresses, good and *)
(* bad, and one port that the kernel gives when it is left to choose.      *)
EXTENDS Startup

Zeros == <<0, Dot, 0, Dot, 0, Dot, 0>>
Host == <<1, 0, Dot, 0, Dot, 0, Dot, 2, 5, 5>>
Pieces ==
  {Zeros, Host, <<Colon>>, <<Bracket>>, <<Unbracket>>, <<Dot>>, <<0>>, <<8, 0>>,
   <<6, 5, 5, 3, 6>>}

PieceTexts == {FlattenSeq(p) : p \in UNION {[1..n -> Pieces] : n \in 0..4}}
=============================================================================
