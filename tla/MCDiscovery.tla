----------------------------- MODULE MCDiscovery -----------------------------
(* Instances of Discovery for TLC. *)
EXTENDS Discovery

CONSTANTS d1, d2

TwoDevices == {d1, d2}

\* As an int, text is more than any buffer holds.
Text      == [Zero EXCEPT !.dataLen = MAX_RECV_BUF_SIZE]
Magic     == [Text EXCEPT !.magic = TRUE]
Length(n) == [Zero EXCEPT !.dataLen = n]
JsonOf(u) == [Text EXCEPT !.reply = TRUE, !.uid = u]

Header(n) == <<Magic, Length(n)>>
Reply(u)  == Header(2) \o <<JsonOf(u), Text>>

\* Replies, one without its uid, the probe of the search itself, a reply with
\* bytes behind it, one that was cut, and what other programs may send: lengths below
\* 0, the last of which counts as more than any buffer holds.
SomeDatagrams ==
  {Reply(d1), Reply(d2), Reply(NoDevice), Header(1) \o <<Text>>,
   Reply(d1) \o Header(2), Header(2) \o <<JsonOf(d2)>>,
   Header(-1) \o <<JsonOf(d1)>>, Header(-2) \o <<Text>>, Header(-3) \o <<Text>>}
============================================================================
