----------------------------- MODULE MCHandles -----------------------------
(* Handles on a small instance: as many resources as two objects can own,  *)
(* and ivs whose counters run over soon.                                   *)
EXTENDS Handles, TLC

ResSymmetry == Permutations(Res) \cup Permutations(Obj)
=============================================================================
