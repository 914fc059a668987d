--------------------------- MODULE MCMediaThreads ---------------------------
(* Instances of MediaThreads for TLC. *)
EXTENDS MediaThreads

CONSTANTS p1, p2

TwoPackets == {p1, p2}
============================================================================
