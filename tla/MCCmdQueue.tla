---------------------------- MODULE MCCmdQueue ----------------------------
(* Instances of CmdQueue for TLC. *)
EXTENDS CmdQueue

CONSTANTS login, c1, c2

\* The login command and two commands of the application.
AllMsgs == {login, c1, c2}
============================================================================
