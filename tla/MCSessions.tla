---------------------------- MODULE MCSessions ----------------------------
(* Instances of Sessions for TLC. *)
EXTENDS Sessions

CONSTANTS a1, a2

OneThread  == {a1}
TwoThreads == {a1, a2}

\* The device of the first session may send one login answer too many.
AnswersOnce  == <<0, 0>>
RepeatsFirst == <<1, 0>>
============================================================================
