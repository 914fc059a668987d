---------------------------- MODULE StreamParser ----------------------------
(***************************************************************************)
(* One receiving thread on its channel of the link: cmdRecvThread (0),     *)
(* avRecvThread (1), pbRecvThread (2), fileDownloadRecvThread (3) or       *)
(* PIRDataRecvThread (4).  LINK_Read returns the next bytes of the channel *)
(* in pieces of any size; the thread appends them to its buffer, hands the *)
(* whole frames to handleMsg, searches byte by byte for the next header    *)
(* where it finds none, and moves the rest to the front.                   *)
(*                                                                         *)
(* A worker can be stopped in the middle of a frame and started again: its *)
(* buffer is lost, the channel is not, and the new thread begins somewhere *)
(* in a frame, where payload may look like a header.                       *)
(*                                                                         *)
(* A cell is a unit of the stream, and a header (20 bytes) two of them:    *)
(* one that holds the magic and one that holds dataLen and msgId.  buf     *)
(* holds for each cell its place in the stream, so that a wrong copy shows.*)
(***************************************************************************)
EXTENDS Integers, Sequences

CONSTANTS
  Traffic,      \* what a device may send, see TrafficAssumption
  ReadMax,      \* what one LINK_Read returns at most (1024 to 20480)
  BufSize,      \* the receive buffer (10240 to 1048576)
  MaxFrame,     \* the longest frame a device sends, header included
  SizeMod,      \* size_t counts modulo this
  Budget,       \* 1000 frames in one pass over the buffer
  MaxRestarts,  \* bound: how often the worker is started again
  TestsRun      \* is the parse loop while(run)?  cmdRecvThread's is while(1)

HeadLen == 2

\* A frame is its header and dataLen cells of payload.  Any cell of a payload
\* may look like a magic and be followed by any dataLen.
Cell == [magic : BOOLEAN, dataLen : Nat, msg : STRING]

\* t.starts are the places of the headers, and the place after the last frame.
WellFormed(t) ==
  /\ t.cells \in Seq(Cell)
  /\ t.starts \in Seq(Nat \ {0}) /\ Len(t.starts) > 0
  /\ t.starts[1] = 1
  /\ t.starts[Len(t.starts)] = Len(t.cells) + 1
  /\ \A i \in 1 .. Len(t.starts) - 1 :
       /\ t.cells[t.starts[i]].magic
       /\ t.starts[i] + 1 \in DOMAIN t.cells
       /\ t.starts[i + 1] =
            t.starts[i] + HeadLen + t.cells[t.starts[i] + 1].dataLen
       /\ t.starts[i + 1] - t.starts[i] <= MaxFrame

\* The longest frame that is sent leaves room for a read.
ASSUME StreamParserAssumption ==
  /\ \A t \in Traffic : WellFormed(t)
  /\ ReadMax \in Nat \ {0}
  /\ MaxFrame \in Nat /\ HeadLen <= MaxFrame
  /\ BufSize \in Nat /\ MaxFrame - 1 + ReadMax <= BufSize
  /\ SizeMod \in Nat /\ MaxFrame < SizeMod
  /\ Budget \in Nat
  /\ MaxRestarts \in Nat
  /\ TestsRun \in BOOLEAN

VARIABLES
  traffic,     \* what this device sends; it never changes
  rd,          \* how many cells LINK_Read has returned
  buf,         \* cmdRecvBuf up to cmdRecvBufSize
  parsedLen, retryCnt,
  pc,          \* where the thread is, "outside" when it has gone outside of
               \* its buffer: from there on it may do anything
  run,         \* its run flag
  restarts,
  handled,     \* the frames handed to handleMsg, each a range of places
  calls,       \* the callbacks made, with the place of their frame
  cut          \* the places whose cells were thrown away with a buffer

vars == <<traffic, rd, buf, parsedLen, retryCnt, pc, run, restarts, handled,
          calls, cut>>

cells  == traffic.cells
starts == traffic.starts

\* The places p + 1 .. p + n in order.
Places(p, n) == [i \in 1 .. n |-> p + i]

Callbacks == {"login", "cmd", "audio", "video", "pbAudio", "pbVideo", "pbEnd",
              "file", "pir"}

TypeOK ==
  /\ traffic \in Traffic
  /\ rd \in 0 .. Len(cells)
  /\ buf \in Seq(DOMAIN cells)
  /\ parsedLen \in 0 .. Len(buf)
  /\ retryCnt \in Nat
  /\ pc \in {"test", "read", "parse", "exited", "outside"}
  /\ run \in BOOLEAN
  /\ restarts \in 0 .. MaxRestarts
  /\ handled \in Seq(Seq(DOMAIN cells))
  /\ calls \in Seq((DOMAIN cells) \X Callbacks)
  /\ cut \subseteq DOMAIN cells

Init ==
  /\ traffic \in Traffic
  /\ rd = 0
  /\ buf = << >> /\ parsedLen = 0 /\ retryCnt = 0
  /\ pc = "test" /\ run = TRUE /\ restarts = 0
  /\ handled = << >> /\ calls = << >> /\ cut = {}

----------------------------------------------------------------------------
(* handleMsg                                                               *)

\* The callbacks for each message.  A reply is JSON, or is decrypted first;
\* one that is neither, or has no cmdId, is dropped.  Audio goes before video.
\* mNeedWaitPlaybackStartFrame is never set.
CallbacksFor(msg) ==
  IF msg \in {"login", "secret login"} THEN <<"login">>
  ELSE IF msg \in {"reply", "secret reply"} THEN <<"cmd">>
  ELSE IF msg = "av" THEN <<"audio", "video">>
  ELSE IF msg = "pb" THEN <<"pbAudio", "pbVideo">>
  ELSE IF msg \in {"audio", "video", "pbAudio", "pbVideo", "pbEnd", "file", "pir"}
    THEN <<msg>>
  ELSE << >>

\* The callbacks for the frame at place p, in order.
CallsAt(p) ==
  LET names == CallbacksFor(cells[p + 1].msg)
  IN [i \in DOMAIN names |-> <<p, names[i]>>]

----------------------------------------------------------------------------
(* The thread                                                              *)

\* The loop condition, behind which the flag is not tested until the next turn.
TestRun ==
  /\ pc = "test"
  /\ IF run
       THEN pc' = "read" /\ UNCHANGED <<buf, parsedLen, cut>>
       ELSE /\ pc' = "exited"
            /\ cut' = cut \cup {buf[i] : i \in DOMAIN buf}
            /\ buf' = << >> /\ parsedLen' = 0
  /\ UNCHANGED <<traffic, rd, retryCnt, run, restarts, handled, calls>>

\* Mutant: the new bytes overwrite the rest of the last pass.
Appended_Anew(s) == s

Appended(s) == buf \o s

\* LINK_Read returned n bytes, after success or after its timeout.
Read(n) ==
  /\ pc = "read" /\ Len(buf) + n <= BufSize
  /\ rd' = rd + n
  /\ IF n = 0
       THEN pc' = "test" /\ UNCHANGED <<buf, parsedLen, retryCnt>>
       ELSE /\ pc' = "parse"
            /\ buf' = Appended(Places(rd, n))
            /\ parsedLen' = 0 /\ retryCnt' = 0
  /\ UNCHANGED <<traffic, run, restarts, handled, calls, cut>>

\* The memcpy that appends them does not ask whether there is room.
ReadOverruns(n) ==
  /\ pc = "read" /\ Len(buf) + n > BufSize
  /\ pc' = "outside"
  /\ UNCHANGED <<traffic, rd, buf, parsedLen, retryCnt, run, restarts, handled,
                 calls, cut>>

\* LINK_Read failed: the connection is broken and the thread ends.
ReadFails ==
  /\ pc = "read" /\ pc' = "exited"
  /\ cut' = cut \cup {buf[i] : i \in DOMAIN buf}
  /\ buf' = << >> /\ parsedLen' = 0
  /\ UNCHANGED <<traffic, rd, retryCnt, run, restarts, handled, calls>>

\* Mutant: a frame that ends where the buffer ends is taken for incomplete.
Complete_Strict(remain, need) == need < remain

Complete(remain, need) == need <= remain

remainLen   == Len(buf) - parsedLen
ParseGoesOn == pc = "parse" /\ (TestsRun => run) /\ remainLen >= HeadLen
AtMagic     == cells[buf[parsedLen + 1]].magic

\* dataLen + sizeof(EasyCamMsgHead), an unsigned sum.
SizeOf(dataLen) == (HeadLen + dataLen) % SizeMod

Need == SizeOf(cells[buf[parsedLen + 2]].dataLen)

\* Mutant: two bytes at a time.
NextByte_Two == parsedLen + 2

NextByte == parsedLen + 1

\* No magic here: try the next byte.
SkipByte ==
  /\ ParseGoesOn /\ ~AtMagic
  /\ parsedLen' = NextByte
  /\ UNCHANGED <<traffic, rd, buf, retryCnt, pc, run, restarts, handled, calls,
                 cut>>

\* Mutants: the parse position stays before the payload, or moves too far.
NextParse_Header == parsedLen + HeadLen
NextParse_Far    == parsedLen + Need + 1

NextParse == parsedLen + Need

\* After more than Budget others of this pass the rest of the buffer is dropped.
Drops == retryCnt > Budget
Rest  == {buf[i] : i \in parsedLen + Need + 1 .. Len(buf)}

\* The frame goes to handleMsg.
HandleFrame ==
  /\ ParseGoesOn /\ AtMagic /\ Complete(remainLen, Need)
  /\ Need >= HeadLen
  /\ handled' = Append(handled, SubSeq(buf, parsedLen + 1, parsedLen + Need))
  /\ calls' = calls \o CallsAt(buf[parsedLen + 1])
  /\ retryCnt' = retryCnt + 1
  /\ IF Drops THEN parsedLen' = Len(buf) /\ cut' = cut \cup Rest
              ELSE parsedLen' = NextParse /\ UNCHANGED cut
  /\ UNCHANGED <<traffic, rd, buf, pc, run, restarts>>

\* A sum that wraps makes a frame shorter than its own header, which handleMsg
\* reads all the same, and payload of the length that the header announces.
HandlesOutside ==
  /\ ParseGoesOn /\ AtMagic /\ Complete(remainLen, Need)
  /\ Need < HeadLen
  /\ pc' = "outside"
  /\ UNCHANGED <<traffic, rd, buf, parsedLen, retryCnt, run, restarts, handled,
                 calls, cut>>

\* Mutant: the buffer is not compacted.
Remaining_All == buf

\* memmove of what was not parsed.
Remaining == SubSeq(buf, parsedLen + 1, Len(buf))

\* No whole frame is left, or the worker is told to stop.
EndPass ==
  /\ pc = "parse"
  /\ ParseGoesOn => AtMagic /\ ~Complete(remainLen, Need)
  /\ pc' = "test"
  /\ buf' = Remaining /\ parsedLen' = 0
  /\ UNCHANGED <<traffic, rd, retryCnt, run, restarts, handled, calls, cut>>

----------------------------------------------------------------------------
(* sendCommand, logOut and joinThreads                                     *)

\* The run flag is reset and the thread joined.
Stop ==
  /\ run
  /\ run' = FALSE
  /\ UNCHANGED <<traffic, rd, buf, parsedLen, retryCnt, pc, restarts, handled,
                 calls, cut>>

\* A new thread, once the old one was joined.
Restart ==
  /\ pc = "exited" /\ ~run /\ restarts < MaxRestarts
  /\ restarts' = restarts + 1
  /\ run' = TRUE /\ pc' = "test"
  /\ UNCHANGED <<traffic, rd, buf, parsedLen, retryCnt, handled, calls, cut>>

----------------------------------------------------------------------------
ReadSome ==
  \E n \in 1 .. ReadMax :
    rd + n <= Len(cells) /\ (Read(n) \/ ReadOverruns(n))

Thread == \/ TestRun \/ ReadSome \/ Read(0)
          \/ SkipByte \/ HandleFrame \/ HandlesOutside \/ EndPass

Next == Thread \/ ReadFails \/ Stop \/ Restart

Spec == Init /\ [][Next]_vars

\* The thread is scheduled, and what the device has sent arrives.  Nothing has
\* to stop the worker, start it again, or break the link.
FairSpec == Spec /\ WF_vars(Thread) /\ SF_vars(ReadSome)

----------------------------------------------------------------------------
(* Properties                                                              *)

Frames   == 1 .. Len(starts) - 1
Frame(i) == Places(starts[i] - 1, starts[i + 1] - starts[i])

\* No place but those of the headers looks like a header.
Unambiguous ==
  \A p \in DOMAIN cells : cells[p].magic => \E i \in Frames : starts[i] = p

\* What looks like a header is one, as far as parsing can come.
Clear == cut = {} \/ Unambiguous

\* The memcpy that appends what was read stays inside the buffer, and no length
\* wraps, though the code tests neither (line 2390); except that once cells were
\* thrown away, by a restart or by the budget, a header that is only payload may
\* be found, and what it announces is not bounded.
NoOverrun == pc = "outside" => ~Clear

\* As long as no cell was thrown away the frames handled are those that were
\* sent, in their order, each once and whole, whatever the payloads contain and
\* however the stream was cut into reads.
HandledAsSent ==
  cut = {} =>
    /\ Len(handled) < Len(starts)
    /\ \A i \in DOMAIN handled : handled[i] = Frame(i)

\* Each frame handled, even one found in a payload after a restart, is a piece
\* of the stream that begins after the end of the one before, and so no two
\* callbacks are made for the same data, and none is made late.
HandledInOrder ==
  /\ \A i \in DOMAIN handled :
       /\ Len(handled[i]) >= HeadLen
       /\ handled[i] = Places(handled[i][1] - 1, Len(handled[i]))
  /\ \A i, j \in DOMAIN handled :
       i < j => handled[i][Len(handled[i])] < handled[j][1]
  /\ \A i, j \in DOMAIN calls :
       i < j => calls[i][1] <= calls[j][1] /\ calls[i] # calls[j]

\* A frame of which everything was read is handled before the next read, unless
\* some of it was thrown away, by a stopped worker or by the budget.
NothingWithheld ==
  pc = "read" /\ run =>
    \A i \in Frames :
      /\ starts[i + 1] <= rd + 1
      /\ Clear
      /\ \A p \in cut : p < starts[i] \/ p >= starts[i + 1]
      => \E j \in DOMAIN handled : handled[j] = Frame(i)

\* A worker that keeps running finds its way back into the stream and handles
\* the last frame, if that began to arrive after the worker was started.
Resynchronises ==
  <>[](/\ run /\ pc # "exited"
       /\ Unambiguous /\ Len(starts) > 1
       /\ \A p \in cut : p < starts[Len(starts) - 1])
    => <>(\E j \in DOMAIN handled : handled[j] = Frame(Len(starts) - 1))
============================================================================
