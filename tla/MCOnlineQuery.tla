---------------------------- MODULE MCOnlineQuery ----------------------------
(* Instances of OnlineQuery for TLC. *)
EXTENDS OnlineQuery

CONSTANTS c1, c2, u1, u2

TwoCallers == {c1, c2}
TwoUids    == {u1, u2}
============================================================================
