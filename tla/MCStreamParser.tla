--------------------------- MODULE MCStreamParser ---------------------------
(* Instances of StreamParser for TLC: the streams of up to MaxFrames frames. *)
EXTENDS StreamParser, SequencesExt

CONSTANTS Shapes, MaxFrames

Data  == [magic |-> FALSE, dataLen |-> 0, msg |-> "data"]
Magic == [magic |-> TRUE, dataLen |-> 0, msg |-> "data"]
Length(n, m) == [magic |-> FALSE, dataLen |-> n, msg |-> m]

\* A frame with a given message and payload.
Wrap(m, payload) == <<Magic, Length(Len(payload), m)>> \o payload

\* Payloads: none, data, one that contains a header for one cell of data, and
\* headers for more than the buffer holds and for a length that wraps.
ShapeOf(s) ==
  CASE s = "empty" -> Wrap("pir", << >>)
    [] s = "reply" -> Wrap("reply", <<Data, Data>>)
    [] s = "fake"  -> Wrap("pb", <<Magic, Length(1, "video")>>)
    [] s = "huge"  -> Wrap("pb", <<Magic, Length(BufSize, "video")>>)
    [] s = "wraps" -> Wrap("junk", <<Magic, Length(SizeMod - HeadLen, "pb")>>)

Sent(shapes) ==
  LET fs == [i \in DOMAIN shapes |-> ShapeOf(shapes[i])]
  IN [cells  |-> FlattenSeq(fs),
      starts |-> [i \in 1 .. Len(fs) + 1 |->
                    1 + Len(FlattenSeq(SubSeq(fs, 1, i - 1)))]]

AllTraffic == {Sent(s) : s \in SeqOf(Shapes, MaxFrames)}
============================================================================
