----------------------------- MODULE LossyFifo -----------------------------
(***************************************************************************)
(* What a sender promises about the messages handed to it: it delivers     *)
(* them in the order in which it accepted them and none of them twice, and *)
(* it may lose any.  CmdQueue implements this for a client's commands and  *)
(* MediaThreads for its talk packets.                                      *)
(***************************************************************************)
EXTENDS Integers, Sequences

CONSTANT Messages

VARIABLES
  accepted,    \* the messages taken on, in that order
  delivered    \* the messages that reached the wire whole, in that order

fifoVars == <<accepted, delivered>>

Init == accepted = << >> /\ delivered = << >>

\* The place of a message in a sequence that holds it once; 0 if it does not.
Place(s, m) ==
  IF \E i \in DOMAIN s : s[i] = m THEN CHOOSE i \in DOMAIN s : s[i] = m ELSE 0

Accept(m) ==
  /\ Place(accepted, m) = 0
  /\ accepted' = Append(accepted, m)
  /\ UNCHANGED delivered

Deliver(m) ==
  /\ Place(accepted, m) # 0
  /\ delivered # << >> =>
       Place(accepted, delivered[Len(delivered)]) < Place(accepted, m)
  /\ delivered' = Append(delivered, m)
  /\ UNCHANGED accepted

Next == \E m \in Messages : Accept(m) \/ Deliver(m)

Spec == Init /\ [][Next]_fifoVars
============================================================================
