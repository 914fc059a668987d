----------------------------- MODULE MCConnect -----------------------------
(* Instances of Connect for TLC. *)
EXTENDS Connect

\* The kinds a login asks for, the bits of its connectType.
LanOnly   == {"lan"}
LanAndP2p == {"lan", "p2p"}
AllKinds  == {"lan", "p2p", "relay"}
============================================================================
