-------------------------------- MODULE MCWpt --------------------------------
(* Small instances of Wpt for TLC. *)
EXTENDS Wpt, TLC

\* No property of these runs is a liveness property, and no definition tells
\* one goroutine, process or drawn jti from another.
WptSymmetry ==
  Permutations(Calls) \cup Permutations(Jtis) \cup Permutations(Stores)
==============================================================================
