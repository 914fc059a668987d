------------------------- MODULE StreamParser_proofs -------------------------
(***************************************************************************)
(* The safety properties of StreamParser, proved for every stream of       *)
(* frames, every way to cut it into reads and every size of the buffer     *)
(* that meets StreamParserAssumption, with any number of restarts.         *)
(*                                                                         *)
(* The inductive invariant has these layers on top of TypeOK:              *)
(*   Window   the buffer holds the places of the stream up to rd;          *)
(*   Left     what is left before a read holds no whole frame;             *)
(*   Kept     as long as no part of the stream was thrown away parsing     *)
(*            stands where a frame begins;                                 *)
(*   Settled  a frame behind parsing was handled, or some of it is lost;   *)
(*   FramesInOrder, CallsInOrder   what was handled lies before parsing.   *)
(***************************************************************************)
EXTENDS StreamParser, SequenceTheorems, WellFoundedInduction, TLAPS

\* The places that are parsed or lost: parsing stands behind them.
at == rd - Len(buf) + parsedLen

Window ==
  /\ Len(buf) <= rd
  /\ \A i \in 1 .. Len(buf) : buf[i] = rd - Len(buf) + i
  /\ pc \notin {"parse", "outside"} => parsedLen = 0
  /\ pc = "exited" => buf = << >>

Typed == TypeOK /\ Window

----------------------------------------------------------------------------
\* The stream is a sequence of cells and its starts are places; it stays.
LEMMA Stream ==
  ASSUME TypeOK
  PROVE  /\ cells \in Seq(Cell) /\ Len(cells) \in Nat
         /\ DOMAIN cells = 1 .. Len(cells)
         /\ starts \in Seq(Nat \ {0}) /\ Len(starts) \in Nat \ {0}
         /\ starts[1] = 1
         /\ starts[Len(starts)] = Len(cells) + 1
         /\ \A i \in 1 .. Len(starts) - 1 :
              /\ cells[starts[i]].magic
              /\ starts[i] + 1 \in DOMAIN cells
              /\ starts[i + 1] =
                   starts[i] + HeadLen + cells[starts[i] + 1].dataLen
              /\ starts[i + 1] - starts[i] <= MaxFrame
         /\ \A p \in DOMAIN cells :
              cells[p].dataLen \in Nat /\ cells[p].magic \in BOOLEAN
<1>1. WellFormed(traffic)
  BY StreamParserAssumption DEF TypeOK
<1>2. cells \in Seq(Cell) /\ starts \in Seq(Nat \ {0})
  BY <1>1 DEF WellFormed, cells, starts
<1>3. Len(cells) \in Nat /\ DOMAIN cells = 1 .. Len(cells)
  BY <1>2
<1>4. \A p \in DOMAIN cells : cells[p] \in Cell
  BY <1>2
<1>5. \A p \in DOMAIN cells : cells[p].dataLen \in Nat /\ cells[p].magic \in BOOLEAN
  BY <1>4 DEF Cell
<1> QED
  BY <1>1, <1>2, <1>3, <1>5 DEF WellFormed, cells, starts

LEMMA Consts ==
  /\ ReadMax \in Nat \ {0}
  /\ MaxFrame \in Nat /\ 2 <= MaxFrame
  /\ BufSize \in Nat /\ MaxFrame - 1 + ReadMax <= BufSize
  /\ SizeMod \in Nat /\ MaxFrame < SizeMod
  /\ Budget \in Nat
  /\ MaxRestarts \in Nat
  /\ TestsRun \in BOOLEAN
BY StreamParserAssumption DEF HeadLen

\* An unsigned sum is a number, and is exact if it is small enough.
LEMMA Sum ==
  ASSUME NEW n \in Nat
  PROVE  SizeOf(n) \in Nat /\ (2 + n <= MaxFrame => SizeOf(n) = 2 + n)
<1>1. \A a \in Nat, b \in Nat \ {0} : a % b \in Nat /\ (a < b => a % b = a)
  OBVIOUS
<1>2. 2 + n \in Nat /\ SizeMod \in Nat \ {0} /\ SizeOf(n) = (2 + n) % SizeMod
  BY Consts DEF SizeOf, HeadLen
<1> QED  BY <1>1, <1>2, Consts

LEMMA StreamStays ==
  ASSUME [Next]_vars
  PROVE  traffic' = traffic /\ cells' = cells /\ starts' = starts
<1>1. traffic' = traffic
  BY DEF Next, vars, Thread, TestRun, ReadSome, Read, ReadOverruns, SkipByte,
         HandleFrame, HandlesOutside, EndPass, ReadFails, Stop, Restart
<1> QED  BY <1>1 DEF cells, starts

\* A cell of the buffer where parsing stands is a place behind at.
LEMMA Ahead ==
  ASSUME Typed, NEW j \in 1 .. Len(buf) - parsedLen
  PROVE  /\ buf[parsedLen + j] = at + j
         /\ at + j \in DOMAIN cells
         /\ parsedLen + j \in 1 .. Len(buf)
<1>1. /\ rd \in Nat /\ rd <= Len(cells) /\ Len(cells) \in Nat
      /\ Len(buf) \in Nat /\ parsedLen \in Nat /\ Len(buf) <= rd
      /\ DOMAIN cells = 1 .. Len(cells)
  BY Stream DEF Typed, TypeOK, Window
<1>2. parsedLen + j \in 1 .. Len(buf)
  BY <1>1
<1>3. buf[parsedLen + j] = rd - Len(buf) + (parsedLen + j)
  BY <1>2 DEF Typed, Window
<1> QED  BY <1>1, <1>2, <1>3 DEF at

\* Where a frame is found, its header and length are cells of the stream.
LEMMA Heading ==
  ASSUME Typed, ParseGoesOn
  PROVE  /\ at \in Nat
         /\ at + 1 \in DOMAIN cells /\ at + 2 \in DOMAIN cells
         /\ buf[parsedLen + 1] = at + 1 /\ buf[parsedLen + 2] = at + 2
         /\ AtMagic = cells[at + 1].magic
         /\ Need = SizeOf(cells[at + 2].dataLen) /\ Need \in Nat
         /\ cells[at + 2].dataLen \in Nat
         /\ remainLen = Len(buf) - parsedLen /\ remainLen \in Nat /\ 2 <= remainLen
         /\ Len(buf) \in Nat /\ parsedLen \in Nat /\ parsedLen <= Len(buf)
<1>1. /\ rd \in Nat /\ Len(buf) \in Nat /\ parsedLen \in Nat
      /\ parsedLen <= Len(buf) /\ Len(buf) <= rd
  BY DEF Typed, TypeOK, Window
<1>2. remainLen = Len(buf) - parsedLen /\ remainLen \in Nat /\ 2 <= remainLen
  BY <1>1 DEF ParseGoesOn, HeadLen, remainLen
<1>3. 1 \in 1 .. Len(buf) - parsedLen /\ 2 \in 1 .. Len(buf) - parsedLen
  BY <1>1, <1>2
<1>4. buf[parsedLen + 1] = at + 1 /\ at + 1 \in DOMAIN cells
  BY <1>3, Ahead
<1>5. buf[parsedLen + 2] = at + 2 /\ at + 2 \in DOMAIN cells
  BY <1>3, Ahead
<1>6. at \in Nat
  BY <1>1 DEF at
<1>7. Need = SizeOf(cells[at + 2].dataLen) /\ AtMagic = cells[at + 1].magic
  BY <1>4, <1>5 DEF Need, AtMagic
<1>8. cells[at + 2].dataLen \in Nat /\ Need \in Nat
  BY <1>5, <1>7, Stream, Sum DEF Typed
<1> QED  BY <1>1, <1>2, <1>4, <1>5, <1>6, <1>7, <1>8

----------------------------------------------------------------------------
(* Types and the window                                                    *)

LEMMA CallsTyped ==
  ASSUME Typed, ParseGoesOn
  PROVE  CallsAt(at + 1) \in Seq((DOMAIN cells) \X Callbacks)
<1>1. at + 1 \in DOMAIN cells
  BY Heading
<1>2. ASSUME NEW m PROVE CallbacksFor(m) \in Seq(Callbacks)
  <2>a. CASE m \in {"login", "secret login"}
    <3>1. CallbacksFor(m) = <<"login">>
      BY <2>a DEF CallbacksFor
    <3> QED  BY <3>1 DEF Callbacks
  <2>b. CASE m \in {"reply", "secret reply"}
    <3>1. CallbacksFor(m) = <<"cmd">>
      BY <2>b DEF CallbacksFor
    <3> QED  BY <3>1 DEF Callbacks
  <2>c. CASE m \in {"av"}
    <3>1. CallbacksFor(m) = <<"audio", "video">>
      BY <2>c DEF CallbacksFor
    <3> QED  BY <3>1 DEF Callbacks
  <2>d. CASE m \in {"pb"}
    <3>1. CallbacksFor(m) = <<"pbAudio", "pbVideo">>
      BY <2>d DEF CallbacksFor
    <3> QED  BY <3>1 DEF Callbacks
  <2>3. CASE m \in {"audio", "video", "pbAudio", "pbVideo", "pbEnd", "file", "pir"}
    <3>1. CallbacksFor(m) = <<m>> /\ m \in Callbacks
      BY <2>3 DEF CallbacksFor, Callbacks
    <3> QED  BY <3>1
  <2>4. CASE m \notin {"login", "secret login", "reply", "secret reply", "av", "pb",
                      "audio", "video", "pbAudio", "pbVideo", "pbEnd", "file", "pir"}
    <3>1. CallbacksFor(m) = << >>
      BY <2>4 DEF CallbacksFor
    <3> QED  BY <3>1
  <2> QED  BY <2>a, <2>b, <2>c, <2>d, <2>3, <2>4
<1> DEFINE names == CallbacksFor(cells[at + 2].msg)
<1>3. names \in Seq(Callbacks) /\ CallsAt(at + 1) = [i \in DOMAIN names |-> <<at + 1, names[i]>>]
  BY <1>2, Heading DEF CallsAt
<1> HIDE DEF names
<1>4. Len(names) \in Nat /\ DOMAIN names = 1 .. Len(names)
      /\ \A i \in DOMAIN names : names[i] \in Callbacks
  BY <1>3
<1> QED  BY <1>1, <1>3, <1>4

LEMMA InitTyped == Init => Typed
<1> SUFFICES ASSUME Init PROVE Typed
  OBVIOUS
<1>1. WellFormed(traffic)
  BY StreamParserAssumption DEF Init
<1>2. cells \in Seq(Cell) /\ Len(cells) \in Nat
  BY <1>1 DEF WellFormed, cells
<1>3. TypeOK
  BY <1>2, Consts DEF Init, TypeOK
<1> QED  BY <1>3 DEF Init, Typed, Window

\* What a read appends.
LEMMA ReadAppends ==
  ASSUME Typed, NEW n \in 1 .. ReadMax, rd + n <= Len(cells), Read(n)
  PROVE  /\ Len(buf') = Len(buf) + n
         /\ rd' = rd + n /\ rd' \in 0 .. Len(cells)
         /\ buf' \in Seq(DOMAIN cells)
         /\ \A i \in 1 .. Len(buf) : buf'[i] = buf[i]
         /\ \A i \in 1 .. n : buf'[Len(buf) + i] = rd + i
         /\ pc = "read" /\ pc' = "parse" /\ parsedLen' = 0 /\ retryCnt' = 0
<1>1. n \in Nat /\ n # 0 /\ rd \in Nat /\ Len(cells) \in Nat /\ DOMAIN cells = 1 .. Len(cells)
      /\ buf \in Seq(DOMAIN cells) /\ rd + n <= Len(cells)
  BY Consts, Stream DEF Typed, TypeOK
<1>2. /\ buf' = buf \o Places(rd, n) /\ rd' = rd + n
      /\ pc = "read" /\ pc' = "parse" /\ parsedLen' = 0 /\ retryCnt' = 0
  BY <1>1 DEF Read, Appended
<1>3. Places(rd, n) \in Seq(DOMAIN cells) /\ Len(Places(rd, n)) = n
      /\ \A i \in 1 .. n : Places(rd, n)[i] = rd + i
  BY <1>1 DEF Places
<1> HIDE DEF Places
<1>4. /\ buf \o Places(rd, n) \in Seq(DOMAIN cells)
      /\ Len(buf \o Places(rd, n)) = Len(buf) + n
      /\ \A i \in 1 .. Len(buf) + n : (buf \o Places(rd, n))[i] =
           IF i <= Len(buf) THEN buf[i] ELSE Places(rd, n)[i - Len(buf)]
  <2> DEFINE s == Places(rd, n)
  <2>1. s \in Seq(DOMAIN cells) /\ Len(s) = n
    BY <1>3
  <2> HIDE DEF s
  <2>2. /\ buf \o s \in Seq(DOMAIN cells)
        /\ Len(buf \o s) = Len(buf) + Len(s)
        /\ \A i \in 1 .. Len(buf) + Len(s) : (buf \o s)[i] =
             IF i <= Len(buf) THEN buf[i] ELSE s[i - Len(buf)]
    BY <1>1, <2>1, ConcatProperties
  <2> QED  BY <2>1, <2>2 DEF s
<1>5. Len(buf) \in Nat
  BY <1>1
<1>6. \A i \in 1 .. Len(buf) : buf'[i] = buf[i]
  BY <1>1, <1>2, <1>4, <1>5
<1>7. ASSUME NEW i \in 1 .. n PROVE buf'[Len(buf) + i] = rd + i
  <2>1. Len(buf) + i \in 1 .. Len(buf) + n /\ ~(Len(buf) + i <= Len(buf))
        /\ Len(buf) + i - Len(buf) = i
    BY <1>1, <1>5
  <2> QED  BY <2>1, <1>2, <1>3, <1>4
<1> QED  BY <1>1, <1>2, <1>4, <1>5, <1>6, <1>7

\* What the end of a pass leaves.
LEMMA PassLeaves ==
  ASSUME Typed, EndPass
  PROVE  /\ Len(buf) - parsedLen \in Nat
         /\ buf' \in Seq(DOMAIN cells) /\ Len(buf') = Len(buf) - parsedLen
         /\ \A i \in 1 .. Len(buf) - parsedLen : buf'[i] = buf[parsedLen + i]
         /\ rd' = rd /\ parsedLen' = 0 /\ pc = "parse" /\ pc' = "test"
<1>1. /\ buf \in Seq(DOMAIN cells) /\ parsedLen \in Nat /\ parsedLen <= Len(buf)
      /\ Len(buf) \in Nat
  BY DEF Typed, TypeOK
<1>2. /\ buf' = SubSeq(buf, parsedLen + 1, Len(buf))
      /\ rd' = rd /\ parsedLen' = 0 /\ pc = "parse" /\ pc' = "test"
  BY DEF EndPass, Remaining
<1> QED  BY <1>1, <1>2

\* The frame handed over is a range of places.
LEMMA FrameHandled ==
  ASSUME Typed, HandleFrame
  PROVE  /\ ParseGoesOn /\ AtMagic
         /\ Need \in Nat /\ 2 <= Need /\ parsedLen + Need <= Len(buf)
         /\ SubSeq(buf, parsedLen + 1, parsedLen + Need) = Places(at, Need)
         /\ Places(at, Need) \in Seq(DOMAIN cells)
         /\ handled' = Append(handled, Places(at, Need))
         /\ calls' = calls \o CallsAt(at + 1)
<1>1. ParseGoesOn /\ AtMagic /\ Need <= remainLen /\ 2 <= Need
  BY DEF HandleFrame, Complete, HeadLen
<1>2. /\ Need \in Nat /\ 2 <= Need /\ parsedLen + Need <= Len(buf)
      /\ Len(buf) \in Nat /\ parsedLen \in Nat /\ at \in Nat
      /\ buf[parsedLen + 1] = at + 1
  BY <1>1, Heading, Consts
<1>3. \A j \in 1 .. Need : buf[parsedLen + j] = at + j /\ at + j \in DOMAIN cells
  BY <1>2, Ahead
<1> DEFINE s == SubSeq(buf, parsedLen + 1, parsedLen + Need)
<1>4. /\ s \in Seq(DOMAIN cells) /\ Len(s) = Need
      /\ \A i \in 1 .. Need : s[i] = at + i
  <2>1. /\ parsedLen + 1 \in Int /\ parsedLen + Need \in Int
        /\ parsedLen + 1 <= parsedLen + Need
        /\ (parsedLen + Need) - (parsedLen + 1) + 1 = Need
        /\ \A i \in 1 .. Need : parsedLen + 1 + i - 1 = parsedLen + i
    BY <1>2
  <2>2. ASSUME NEW i \in parsedLen + 1 .. parsedLen + Need
        PROVE  buf[i] \in DOMAIN cells
    <3>1. i - parsedLen \in 1 .. Need /\ parsedLen + (i - parsedLen) = i
      BY <1>2
    <3> QED  BY <3>1, <1>3
  <2>3. /\ s \in Seq(DOMAIN cells) /\ Len(s) = Need
        /\ \A i \in 1 .. Need : s[i] = buf[parsedLen + 1 + i - 1]
    BY <2>1, <2>2, SubSeqProperties
  <2> QED  BY <2>1, <2>3, <1>3
<1> HIDE DEF s
<1>5. s = Places(at, Need)
  <2>1. s = [i \in 1 .. Need |-> s[i]]
    BY <1>4
  <2> QED  BY <2>1, <1>4 DEF Places
<1>6. Places(at, Need) \in Seq(DOMAIN cells)
  BY <1>4, <1>5
<1> QED  BY <1>1, <1>2, <1>5, <1>6 DEF HandleFrame, s

LEMMA StepTyped == Typed /\ [Next]_vars => Typed'
<1> SUFFICES ASSUME Typed, [Next]_vars PROVE Typed'
  OBVIOUS
<1>s. traffic' = traffic /\ cells' = cells /\ starts' = starts
  BY StreamStays
<1>0. /\ rd \in Nat /\ Len(cells) \in Nat /\ rd <= Len(cells)
      /\ buf \in Seq(DOMAIN cells) /\ Len(buf) \in Nat /\ Len(buf) <= rd
      /\ parsedLen \in Nat /\ parsedLen <= Len(buf)
      /\ DOMAIN cells = 1 .. Len(cells)
  BY Stream DEF Typed, TypeOK, Window
<1>1. CASE TestRun
  <2>1. CASE run
    BY <1>0, <1>s, <1>1, <2>1 DEF TestRun, Typed, TypeOK, Window
  <2>2. CASE ~run
    <3>1. /\ buf' = << >> /\ parsedLen' = 0 /\ pc' = "exited" /\ rd' = rd
          /\ cut' = cut \cup {buf[i] : i \in DOMAIN buf}
      BY <1>1, <2>2 DEF TestRun
    <3>2. cut' \subseteq DOMAIN cells
      BY <1>0, <3>1 DEF Typed, TypeOK
    <3>3. TypeOK'
      BY <1>0, <1>s, <1>1, <3>1, <3>2 DEF TestRun, Typed, TypeOK
    <3> QED  BY <1>0, <3>1, <3>3 DEF Typed, Window
  <2> QED  BY <2>1, <2>2
<1>2. ASSUME NEW n \in 1 .. ReadMax, rd + n <= Len(cells), Read(n)
      PROVE  Typed'
  <2>2. n \in Nat
    BY Consts
  <2>3. /\ Len(buf') = Len(buf) + n
        /\ rd' = rd + n /\ rd' \in 0 .. Len(cells)
        /\ buf' \in Seq(DOMAIN cells)
        /\ \A i \in 1 .. Len(buf) : buf'[i] = buf[i]
        /\ \A i \in 1 .. n : buf'[Len(buf) + i] = rd + i
        /\ pc' = "parse" /\ parsedLen' = 0 /\ retryCnt' = 0
    BY <1>2, ReadAppends
  <2>4. UNCHANGED <<traffic, run, restarts, handled, calls, cut>>
    BY <1>2 DEF Read
  <2>5. TypeOK'
    BY <1>0, <1>s, <2>2, <2>3, <2>4 DEF Typed, TypeOK
  <2>6. ASSUME NEW i \in 1 .. Len(buf') PROVE buf'[i] = rd' - Len(buf') + i
    <3>1. CASE i <= Len(buf)
      BY <1>0, <2>2, <2>3, <3>1 DEF Typed, Window
    <3>2. CASE i > Len(buf)
      <4>1. i - Len(buf) \in 1 .. n /\ Len(buf) + (i - Len(buf)) = i
        BY <1>0, <2>2, <2>3, <3>2
      <4>2. buf'[i] = rd + (i - Len(buf))
        BY <2>3, <4>1
      <4> QED  BY <1>0, <2>2, <2>3, <4>2
    <3> QED  BY <1>0, <2>2, <2>3, <3>1, <3>2
  <2> QED  BY <1>0, <2>2, <2>3, <2>5, <2>6 DEF Typed, Window
<1>3. CASE Read(0)
  BY <1>0, <1>s, <1>3 DEF Read, Typed, TypeOK, Window
<1>4. CASE SkipByte
  <2>1. parsedLen' = parsedLen + 1 /\ parsedLen' <= Len(buf) /\ pc = "parse"
    BY <1>0, <1>s, <1>4, Heading DEF SkipByte, NextByte, ParseGoesOn
  <2> QED  BY <1>0, <1>s, <1>4, <2>1 DEF SkipByte, Typed, TypeOK, Window
<1>a. ASSUME NEW n \in 1 .. ReadMax, ReadOverruns(n)
      PROVE  Typed'
  BY <1>0, <1>s, <1>a DEF ReadOverruns, Typed, TypeOK, Window
<1>b. CASE HandlesOutside
  BY <1>0, <1>s, <1>b DEF HandlesOutside, Typed, TypeOK, Window
<1>5. CASE HandleFrame
  <2>0. /\ ParseGoesOn /\ Need \in Nat /\ parsedLen + Need <= Len(buf)
        /\ Places(at, Need) \in Seq(DOMAIN cells)
        /\ handled' = Append(handled, Places(at, Need))
        /\ calls' = calls \o CallsAt(at + 1)
    BY <1>5, FrameHandled
  <2>1. parsedLen' \in Nat /\ parsedLen' <= Len(buf)
    BY <1>0, <1>5, <2>0 DEF HandleFrame, NextParse
  <2>5. cut' \subseteq DOMAIN cells
    <3>1. ASSUME NEW j \in parsedLen + Need + 1 .. Len(buf)
          PROVE  buf[j] \in DOMAIN cells
      <4>1. j \in 1 .. Len(buf)
        BY <1>0, <2>0
      <4> QED  BY <1>0, <4>1
    <3>2. Rest \subseteq DOMAIN cells
      BY <3>1 DEF Rest
    <3>3. cut' = cut \/ cut' = cut \cup Rest
      BY <1>5 DEF HandleFrame
    <3>4. cut \subseteq DOMAIN cells
      BY DEF Typed, TypeOK
    <3> QED  BY <3>2, <3>3, <3>4
  <2>2. handled' \in Seq(Seq(DOMAIN cells))
    BY <2>0, AppendProperties DEF Typed, TypeOK
  <2>3. calls' \in Seq((DOMAIN cells) \X Callbacks)
    <3>1. CallsAt(at + 1) \in Seq((DOMAIN cells) \X Callbacks)
      BY <2>0, CallsTyped
    <3> QED  BY <2>0, <3>1, ConcatProperties DEF Typed, TypeOK
  <2>4. retryCnt' \in Nat /\ pc = "parse"
        /\ UNCHANGED <<traffic, rd, buf, pc, run, restarts>>
    BY <1>5, <2>0 DEF HandleFrame, ParseGoesOn, Typed, TypeOK
  <2> QED  BY <1>0, <1>s, <2>1, <2>2, <2>3, <2>4, <2>5 DEF Typed, TypeOK, Window
<1>6. CASE EndPass
  <2>1. /\ Len(buf) - parsedLen \in Nat
        /\ buf' \in Seq(DOMAIN cells) /\ Len(buf') = Len(buf) - parsedLen
        /\ \A i \in 1 .. Len(buf) - parsedLen : buf'[i] = buf[parsedLen + i]
        /\ rd' = rd /\ parsedLen' = 0 /\ pc' = "test"
    BY <1>6, PassLeaves
  <2>2. UNCHANGED <<traffic, rd, retryCnt, run, restarts, handled, calls, cut>>
    BY <1>6 DEF EndPass
  <2>3. TypeOK'
    BY <1>0, <1>s, <2>1, <2>2 DEF Typed, TypeOK
  <2>4. ASSUME NEW i \in 1 .. Len(buf') PROVE buf'[i] = rd' - Len(buf') + i
    <3>1. i \in 1 .. Len(buf) - parsedLen /\ parsedLen + i \in 1 .. Len(buf)
      BY <1>0, <2>1
    <3>2. buf'[i] = rd - Len(buf) + (parsedLen + i)
      BY <2>1, <3>1 DEF Typed, Window
    <3> QED  BY <1>0, <2>1, <3>1, <3>2
  <2> QED  BY <1>0, <2>1, <2>3, <2>4 DEF Typed, Window
<1>7. CASE ReadFails
  <2>1. \A i \in DOMAIN buf : buf[i] \in DOMAIN cells
    BY <1>0
  <2> QED  BY <1>0, <1>s, <1>7, <2>1 DEF ReadFails, Typed, TypeOK, Window
<1>8. CASE Stop
  BY <1>0, <1>s, <1>8 DEF Stop, Typed, TypeOK, Window
<1>9. CASE Restart
  BY <1>0, <1>s, <1>9, Consts DEF Restart, Typed, TypeOK, Window
<1>10. CASE UNCHANGED vars
  BY <1>0, <1>s, <1>10 DEF vars, Typed, TypeOK, Window
<1> QED
  BY <1>1, <1>2, <1>3, <1>4, <1>5, <1>6, <1>7, <1>8, <1>9, <1>10, <1>a, <1>b
  DEF Next, Thread, ReadSome

\* Every variable of the receiving thread keeps its type; that parsing stays
\* inside the buffer needs to know that a frame's length is read from the stream.
THEOREM TypeCorrect == Spec => []TypeOK
<1>1. Typed => TypeOK
  BY DEF Typed
<1> QED  BY InitTyped, StepTyped, <1>1, PTL DEF Spec

----------------------------------------------------------------------------
(* What a pass leaves                                                      *)

\* The buffer holds no whole frame where it begins.
Unfinished ==
  \/ Len(buf) < HeadLen
  \/ /\ cells[buf[1]].magic
     /\ SizeOf(cells[buf[2]].dataLen) > Len(buf)

Left == pc = "read" \/ (pc = "test" /\ run) => Unfinished

LEMMA InitLeft == Init => Left
BY DEF Init, Left, Unfinished, HeadLen

LEMMA StepLeft == Typed /\ Left /\ [Next]_vars => Left'
<1> SUFFICES ASSUME Typed, Left, [Next]_vars PROVE Left'
  OBVIOUS
<1>s. cells' = cells
  BY StreamStays
<1>0. /\ Len(buf) \in Nat /\ parsedLen \in Nat /\ parsedLen <= Len(buf)
      /\ run \in BOOLEAN
  BY DEF Typed, TypeOK
<1>1. CASE TestRun
  <2>1. CASE run
    <3>1. pc = "test" /\ pc' = "read" /\ buf' = buf
      BY <1>1, <2>1 DEF TestRun
    <3> QED  BY <1>s, <2>1, <3>1 DEF Left, Unfinished
  <2>2. CASE ~run
    BY <1>1, <2>2 DEF TestRun, Left
  <2> QED  BY <2>1, <2>2
<1>2. CASE ReadSome
  <2>1. ASSUME NEW n \in 1 .. ReadMax, Read(n) PROVE pc' = "parse"
    BY <2>1, Consts DEF Read
  <2>2. ASSUME NEW n \in 1 .. ReadMax, ReadOverruns(n) PROVE pc' = "outside"
    BY <2>2 DEF ReadOverruns
  <2> QED  BY <1>2, <2>1, <2>2 DEF ReadSome, Left
<1>3. CASE Read(0)
  <2>1. pc = "read" /\ pc' = "test" /\ buf' = buf
    BY <1>0, <1>3 DEF Read
  <2> QED  BY <1>s, <2>1 DEF Left, Unfinished
<1>4. CASE SkipByte \/ HandleFrame \/ HandlesOutside \/ ReadFails
  BY <1>4 DEF SkipByte, HandleFrame, HandlesOutside, ReadFails, ParseGoesOn, Left
<1>6. CASE EndPass
  <2>1. /\ Len(buf) - parsedLen \in Nat /\ Len(buf') = Len(buf) - parsedLen
        /\ \A i \in 1 .. Len(buf) - parsedLen : buf'[i] = buf[parsedLen + i]
        /\ pc' = "test" /\ run' = run /\ pc = "parse"
    BY <1>6, PassLeaves DEF EndPass
  <2>2. ASSUME run PROVE Unfinished'
    <3>1. CASE ParseGoesOn
      <4>1. AtMagic /\ ~(Need <= remainLen)
        BY <1>6, <3>1 DEF EndPass, Complete
      <4>2. /\ remainLen = Len(buf) - parsedLen /\ 2 <= remainLen /\ Need \in Nat
        BY <3>1, Heading
      <4>3. buf'[1] = buf[parsedLen + 1] /\ buf'[2] = buf[parsedLen + 2]
        BY <2>1, <4>2
      <4>4. /\ cells[buf'[1]].magic
            /\ SizeOf(cells[buf'[2]].dataLen) > Len(buf')
        BY <1>0, <2>1, <4>1, <4>2, <4>3 DEF AtMagic, Need
      <4> QED  BY <1>s, <4>4 DEF Unfinished
    <3>2. CASE ~ParseGoesOn
      <4>1. Len(buf') < HeadLen
        BY <1>0, <2>1, <2>2, <3>2 DEF ParseGoesOn, remainLen, HeadLen
      <4> QED  BY <4>1 DEF Unfinished, HeadLen
    <3> QED  BY <3>1, <3>2
  <2> QED  BY <2>1, <2>2 DEF Left
<1>8. CASE Stop
  <2>1. UNCHANGED <<buf, pc>> /\ run
    BY <1>8 DEF Stop
  <2>2. pc = "read" \/ (pc = "test" /\ run') => Unfinished
    BY <2>1 DEF Left
  <2> QED  BY <1>s, <2>1, <2>2 DEF Left, Unfinished
<1>9. CASE Restart
  <2>1. buf' = << >>
    BY <1>9 DEF Restart, Typed, Window
  <2> QED  BY <2>1 DEF Left, Unfinished, HeadLen
<1>10. CASE UNCHANGED vars
  BY <1>s, <1>10 DEF vars, Left, Unfinished
<1> QED
  BY <1>1, <1>2, <1>3, <1>4, <1>6, <1>8, <1>9, <1>10 DEF Next, Thread

----------------------------------------------------------------------------
(* Where parsing stands                                                    *)

\* Parsing never goes back, and moves only where a byte is skipped, a frame is
\* handled or a buffer is lost.
LEMMA Stands ==
  ASSUME Typed, [Next]_vars
  PROVE  /\ at \in Nat /\ at' \in Int /\ at <= at'
         /\ ~SkipByte /\ ~HandleFrame /\ pc' # "exited" => at' = at
<1>0. /\ rd \in Nat /\ Len(buf) \in Nat /\ parsedLen \in Nat
      /\ parsedLen <= Len(buf) /\ Len(buf) <= rd
  BY DEF Typed, TypeOK, Window
<1>1. CASE TestRun
  BY <1>0, <1>1 DEF TestRun, at
<1>a. CASE HandlesOutside
  BY <1>0, <1>a DEF HandlesOutside, at
<1>b. ASSUME NEW n \in 1 .. ReadMax, ReadOverruns(n)
      PROVE  at' = at
  BY <1>0, <1>b DEF ReadOverruns, at
<1>2. ASSUME NEW n \in 1 .. ReadMax, rd + n <= Len(cells), Read(n)
      PROVE  at' = at
  <2>2. /\ Len(buf') = Len(buf) + n /\ rd' = rd + n /\ n \in Nat
        /\ pc = "read" /\ parsedLen' = 0
    BY <1>2, ReadAppends, Consts
  <2>3. parsedLen = 0
    BY <2>2 DEF Typed, Window
  <2> QED  BY <1>0, <2>2, <2>3 DEF at
<1>3. CASE Read(0)
  BY <1>0, <1>3 DEF Read, at
<1>4. CASE SkipByte
  BY <1>0, <1>4 DEF SkipByte, NextByte, at
<1>5. CASE HandleFrame
  <2>1. Need \in Nat /\ parsedLen + Need <= Len(buf)
    BY <1>5, FrameHandled
  <2> QED  BY <1>0, <1>5, <2>1 DEF HandleFrame, NextParse, at
<1>6. CASE EndPass
  <2>1. Len(buf') = Len(buf) - parsedLen /\ rd' = rd /\ parsedLen' = 0
    BY <1>6, PassLeaves
  <2> QED  BY <1>0, <2>1 DEF at
<1>7. CASE ReadFails
  BY <1>0, <1>7 DEF ReadFails, at
<1>8. CASE Stop
  BY <1>0, <1>8 DEF Stop, at
<1>9. CASE Restart
  BY <1>0, <1>9 DEF Restart, at
<1>10. CASE UNCHANGED vars
  BY <1>0, <1>10 DEF vars, at
<1>11. at \in Nat
  BY <1>0 DEF at
<1> QED
  BY <1>1, <1>2, <1>3, <1>4, <1>5, <1>6, <1>7, <1>8, <1>9, <1>10, <1>11, <1>a, <1>b
  DEF Next, Thread, ReadSome

\* Only HandleFrame hands a frame over.
LEMMA HandledStays ==
  ASSUME [Next]_vars, ~HandleFrame
  PROVE  handled' = handled /\ calls' = calls
BY DEF Next, vars, Thread, TestRun, ReadSome, Read, ReadOverruns, SkipByte,
       HandlesOutside, EndPass, ReadFails, Stop, Restart

\* Behind a frame handled parsing stands, or all the rest was thrown away.
LEMMA HandledMoves ==
  ASSUME Typed, HandleFrame
  PROVE  /\ at \in Nat /\ rd \in Nat /\ Need \in Nat /\ at + Need <= rd
         /\ rd' = rd
         /\ \/ at' = at + Need
            \/ at' = rd /\ \A p \in at + Need + 1 .. rd : p \in cut'
<1>1. /\ rd \in Nat /\ Len(buf) \in Nat /\ parsedLen \in Nat
      /\ Len(buf) <= rd /\ Need \in Nat /\ parsedLen + Need <= Len(buf)
  BY FrameHandled DEF Typed, TypeOK, Window
<1>2. /\ rd' = rd /\ buf' = buf
      /\ parsedLen' = parsedLen + Need \/ (parsedLen' = Len(buf) /\ cut' = cut \cup Rest)
  BY DEF HandleFrame, NextParse
<1>3. ASSUME NEW p \in at + Need + 1 .. rd PROVE p \in Rest
  <2>1. p - (rd - Len(buf)) \in parsedLen + Need + 1 .. Len(buf)
    BY <1>1 DEF at
  <2>2. p - (rd - Len(buf)) \in 1 .. Len(buf)
    BY <1>1, <2>1
  <2>3. buf[p - (rd - Len(buf))] = rd - Len(buf) + (p - (rd - Len(buf)))
    BY <2>2 DEF Typed, Window
  <2>4. buf[p - (rd - Len(buf))] = p
    BY <1>1, <2>3 DEF at
  <2> QED  BY <2>1, <2>4 DEF Rest
<1>4. at \in Nat /\ at + Need <= rd
  BY <1>1 DEF at
<1>5. parsedLen' = parsedLen + Need => at' = at + Need
  BY <1>1, <1>2 DEF at
<1>6. parsedLen' = Len(buf) => at' = rd
  BY <1>1, <1>2 DEF at
<1> QED  BY <1>1, <1>2, <1>3, <1>4, <1>5, <1>6

----------------------------------------------------------------------------
(* In step with the stream                                                 *)

\* What was handled is what was sent first, and parsing stands behind it.
AsSentSoFar ==
  /\ Len(handled) < Len(starts)
  /\ \A i \in DOMAIN handled : handled[i] = Frame(i)

Aligned == AsSentSoFar /\ at + 1 = starts[Len(handled) + 1]

Kept == cut = {} => Aligned

LEMMA InitAligned == Init => Aligned
<1> SUFFICES ASSUME Init PROVE Aligned
  OBVIOUS
<1>1. Typed
  BY InitTyped
<1>2. starts[1] = 1 /\ Len(starts) \in Nat \ {0}
  BY <1>1, Stream DEF Typed
<1> QED  BY <1>2 DEF Init, Aligned, AsSentSoFar, at

\* A header begins a frame, which is its length long.
LEMMA FrameOf ==
  ASSUME Typed, NEW k \in Frames, at + 1 = starts[k]
  PROVE  /\ cells[at + 1].magic /\ cells[at + 2].dataLen \in Nat
         /\ SizeOf(cells[at + 2].dataLen) = 2 + cells[at + 2].dataLen
         /\ 2 + cells[at + 2].dataLen <= MaxFrame
         /\ starts[k + 1] = at + 1 + (2 + cells[at + 2].dataLen)
         /\ Frame(k) = Places(at, 2 + cells[at + 2].dataLen)
<1>1. /\ cells[starts[k]].magic
      /\ starts[k + 1] = starts[k] + HeadLen + cells[starts[k] + 1].dataLen
      /\ starts[k] + 1 \in DOMAIN cells
      /\ starts[k + 1] - starts[k] <= MaxFrame
  BY Stream DEF Typed, Frames
<1>2. at \in Int
  BY DEF Typed, TypeOK, at
<1>3. starts[k] + 1 = at + 2 /\ starts[k] - 1 = at
  BY <1>2
<1>4. cells[at + 2].dataLen \in Nat
  BY <1>1, <1>3, Stream DEF Typed
<1>5. starts[k + 1] = at + 1 + (2 + cells[at + 2].dataLen)
  BY <1>1, <1>2, <1>3, <1>4 DEF HeadLen
<1>6. starts[k + 1] - starts[k] = 2 + cells[at + 2].dataLen
  BY <1>2, <1>4, <1>5
<1>7. Frame(k) = Places(at, 2 + cells[at + 2].dataLen)
  BY <1>3, <1>6 DEF Frame
<1>8. /\ 2 + cells[at + 2].dataLen <= MaxFrame
      /\ SizeOf(cells[at + 2].dataLen) = 2 + cells[at + 2].dataLen
  BY <1>1, <1>4, <1>6, Sum
<1> QED  BY <1>1, <1>4, <1>5, <1>7, <1>8

\* In step, a frame begins where there are cells left.
LEMMA InStep ==
  ASSUME Typed, Aligned, at + 1 \in DOMAIN cells
  PROVE  Len(handled) + 1 \in Frames /\ at + 1 = starts[Len(handled) + 1]
<1>1. /\ at + 1 = starts[Len(handled) + 1] /\ Len(handled) < Len(starts)
      /\ Len(handled) \in Nat /\ Len(starts) \in Nat
  BY Stream DEF Aligned, AsSentSoFar, Typed, TypeOK
<1>2. starts[Len(starts)] = Len(cells) + 1 /\ Len(cells) \in Nat /\ at + 1 <= Len(cells)
  BY Stream DEF Typed
<1>3. Len(handled) + 1 # Len(starts)
  BY <1>1, <1>2
<1> QED  BY <1>1, <1>3 DEF Frames

\* A frame handled in step is the next one sent, and no byte is skipped.
LEMMA StepAligned ==
  ASSUME Typed, Aligned, [Next]_vars, cut' = {},
         HandleFrame \/ pc' # "exited" \/ at' = at
  PROVE  Aligned'
<1>s. starts' = starts /\ cells' = cells
  BY StreamStays
<1>1. \A i : Frame(i)' = Frame(i)
  BY <1>s DEF Frame, Places
<1>2. CASE HandleFrame
  <2> DEFINE k == Len(handled) + 1
  <2>1. /\ ParseGoesOn /\ handled' = Append(handled, Places(at, Need))
        /\ Need \in Nat
    BY <1>2, FrameHandled
  <2>a. /\ k \in Frames /\ at + 1 = starts[k] /\ Need = 2 + cells[at + 2].dataLen
    <3>1. k \in Frames /\ at + 1 = starts[k] /\ Need = SizeOf(cells[at + 2].dataLen)
      BY <2>1, Heading, InStep
    <3> QED  BY <3>1, FrameOf
  <2>b. /\ starts[k + 1] = at + 1 + (2 + cells[at + 2].dataLen)
        /\ Frame(k) = Places(at, 2 + cells[at + 2].dataLen)
    BY <2>a, FrameOf
  <2>2. /\ k \in 1 .. Len(starts) - 1
        /\ starts[k + 1] = at + 1 + Need /\ Places(at, Need) = Frame(k)
    BY <2>a, <2>b DEF Frames
  <2>3. /\ handled \in Seq(Seq(DOMAIN cells)) /\ Len(handled) \in Nat
        /\ Places(at, Need) \in Seq(DOMAIN cells)
        /\ Len(starts) \in Nat /\ DOMAIN handled = 1 .. Len(handled)
    <3>1. Places(at, Need) \in Seq(DOMAIN cells)
      BY <1>2, FrameHandled
    <3>2. handled \in Seq(Seq(DOMAIN cells))
      BY DEF Typed, TypeOK
    <3>3. Len(starts) \in Nat
      BY Stream DEF Typed
    <3> QED  BY <3>1, <3>2, <3>3
  <2>4. /\ Len(handled') = k /\ handled'[k] = Frame(k) /\ DOMAIN handled' = 1 .. k
        /\ \A i \in 1 .. Len(handled) : handled'[i] = handled[i]
    BY <2>1, <2>2, <2>3
  <2>5. at' + 1 = starts[k + 1]
    <3>1. /\ at \in Nat /\ rd \in Nat /\ at + Need <= rd
          /\ \/ at' = at + Need
             \/ at' = rd /\ \A p \in at + Need + 1 .. rd : p \in cut'
      BY <1>2, HandledMoves
    <3>2. at + Need < rd => rd \in at + Need + 1 .. rd
      BY <2>1, <3>1
    <3>3. at' = at + Need
      BY <2>1, <3>1, <3>2
    <3> QED  BY <2>1, <2>2, <3>1, <3>3
  <2>6. \A i \in 1 .. k : handled'[i] = Frame(i)
    <3>1. \A i \in 1 .. Len(handled) : handled[i] = Frame(i)
      BY <2>3 DEF Aligned, AsSentSoFar
    <3> QED  BY <2>3, <2>4, <3>1
  <2> HIDE DEF k
  <2>7. k < Len(starts) /\ starts'[Len(handled') + 1] = starts[k + 1]
    BY <1>s, <2>2, <2>3, <2>4
  <2>8. Len(handled') < Len(starts')
    BY <1>s, <2>4, <2>7
  <2>9. \A i \in DOMAIN handled' : handled'[i] = Frame(i)'
    BY <1>1, <2>4, <2>6
  <2>10. at' + 1 = starts'[Len(handled') + 1]
    BY <2>5, <2>7
  <2> QED  BY <2>8, <2>9, <2>10 DEF Aligned, AsSentSoFar
<1>3. CASE ~HandleFrame
  <2>1. handled' = handled
    BY <1>3, HandledStays
  <2>2. ~SkipByte
    <3>1. SUFFICES ASSUME ParseGoesOn PROVE AtMagic
      BY DEF SkipByte
    <3>2. at + 1 \in DOMAIN cells /\ AtMagic = cells[at + 1].magic
      BY <3>1, Heading
    <3>3. cells[at + 1].magic
      BY <3>2, InStep, FrameOf
    <3> QED  BY <3>2, <3>3
  <2>3. at' = at
    BY <1>3, <2>2, Stands
  <2> QED  BY <1>s, <1>1, <2>1, <2>3 DEF Aligned, AsSentSoFar
<1> QED  BY <1>2, <1>3

----------------------------------------------------------------------------
(* Nothing is kept back                                                    *)

\* A set of natural numbers that is not empty has a least element.
LEMMA Least ==
  ASSUME NEW S \in SUBSET Nat, S # {}
  PROVE  \E i \in S : \A j \in S : i <= j
<1> DEFINE R == OpToRel(<, Nat)
<1>1. IsWellFoundedOn(R, Nat)
  BY NatLessThanWellFounded
<1>2. \A i, j \in Nat : i < j => <<i, j>> \in R
  BY DEF OpToRel
<1>3. \A Q, U : IsWellFoundedOn(Q, U) =>
        \A T : T \subseteq U /\ T # {} => \E i \in T : \A j \in T : <<j, i>> \notin Q
  BY WFMin
<1> HIDE DEF R
<1>4. \E i \in S : \A j \in S : <<j, i>> \notin R
  BY <1>1, <1>3
<1>5. PICK i \in S : \A j \in S : <<j, i>> \notin R
  BY <1>4
<1>6. ASSUME NEW j \in S PROVE i <= j
  <2>1. i \in Nat /\ j \in Nat /\ ~(j < i)
    BY <1>2, <1>5
  <2> QED  BY <2>1
<1> QED  BY <1>6

\* Frames lie one behind the other.
LEMMA Apart ==
  ASSUME Typed
  PROVE  /\ \A i \in Frames : i \in Nat /\ starts[i] \in Nat
                              /\ starts[i + 1] \in Nat /\ starts[i] + 2 <= starts[i + 1]
         /\ \A i, j \in Frames : i < j => starts[i + 1] <= starts[j]
<1>1. ASSUME NEW i \in Frames
      PROVE  /\ i \in Nat /\ i + 1 \in 1 .. Len(starts)
             /\ starts[i] \in Nat /\ starts[i + 1] \in Nat
             /\ starts[i] + 2 <= starts[i + 1]
  <2>1. i \in 1 .. Len(starts) - 1 /\ Len(starts) \in Nat /\ starts \in Seq(Nat \ {0})
    BY Stream DEF Typed, Frames
  <2>2. i \in Nat /\ i + 1 \in 1 .. Len(starts)
        /\ starts[i] \in Nat /\ starts[i + 1] \in Nat
    BY <2>1
  <2>3. /\ starts[i + 1] = starts[i] + HeadLen + cells[starts[i] + 1].dataLen
        /\ cells[starts[i] + 1].dataLen \in Nat
    BY <2>1, Stream DEF Typed
  <2> QED  BY <2>2, <2>3 DEF HeadLen
<1>2. ASSUME NEW i \in Frames, NEW j \in Frames, i < j, ~(starts[i + 1] <= starts[j])
      PROVE  FALSE
  <2> DEFINE S == {n \in Nat : n \in Frames /\ i < n /\ ~(starts[i + 1] <= starts[n])}
  <2>1. S \in SUBSET Nat /\ j \in S
    BY <1>1, <1>2
  <2>2. PICK k \in S : \A n \in S : k <= n
    BY <2>1, Least
  <2>3. /\ k \in Frames /\ k \in Nat /\ i < k /\ ~(starts[i + 1] <= starts[k])
        /\ i \in Nat /\ starts[i + 1] \in Nat /\ starts[k] \in Nat
    BY <1>1, <2>2
  <2>4. k # i + 1
    BY <2>3
  <2>5. k - 1 \in Frames /\ i < k - 1 /\ k - 1 \in Nat /\ ~(k <= k - 1) /\ (k - 1) + 1 = k
    BY <2>3, <2>4, Stream DEF Typed, Frames
  <2>6. k - 1 \notin S
    BY <2>2, <2>5
  <2>7. starts[i + 1] <= starts[k - 1]
    BY <2>5, <2>6
  <2>8. starts[k - 1] \in Nat /\ starts[k - 1] + 2 <= starts[k]
    BY <1>1, <2>5
  <2> QED  BY <2>3, <2>7, <2>8
<1> QED  BY <1>1, <1>2

\* Of frame i some cells were in a buffer that was lost, or it was handled.
Taken(i) == \E p \in cut : starts[i] <= p /\ p < starts[i + 1]
Given(i) == \E j \in DOMAIN handled : handled[j] = Frame(i)

Settled ==
  Clear => \A i \in Frames :
             starts[i] <= at => Taken(i) \/ (Given(i) /\ starts[i + 1] <= at + 1)

LEMMA HeaderFound ==
  ASSUME Typed, Kept, Clear, at + 1 \in DOMAIN cells, cells[at + 1].magic
  PROVE  \E k \in Frames : at + 1 = starts[k]
<1>1. CASE cut = {}
  BY <1>1, InStep DEF Kept
<1>2. CASE Unambiguous
  BY <1>2 DEF Unambiguous
<1> QED  BY <1>1, <1>2 DEF Clear

\* What happens to the place of parsing and the cells lost in the steps that
\* do not parse.
LEMMA Loses ==
  ASSUME Typed, [Next]_vars, ~SkipByte, ~HandleFrame
  PROVE  /\ handled' = handled
         /\ \/ at' = at /\ cut' = cut
            \/ /\ at' = rd /\ rd' = rd
               /\ cut' = cut \cup {buf[i] : i \in DOMAIN buf}
               /\ at = rd - Len(buf)
<1>0. /\ rd \in Nat /\ Len(buf) \in Nat /\ parsedLen \in Nat
  BY DEF Typed, TypeOK
<1>1. handled' = handled
  BY HandledStays
<1>2. CASE pc' # "exited"
  <2>1. at' = at
    BY <1>2, Stands
  <2>2. cut' = cut
    BY <1>2 DEF Next, vars, Thread, TestRun, ReadSome, Read, ReadOverruns,
       HandlesOutside, EndPass, ReadFails, Stop, Restart
  <2> QED  BY <1>1, <2>1, <2>2
<1>3. CASE pc = "exited" /\ pc' = "exited"
  <2>1. Stop \/ UNCHANGED vars
    BY <1>3 DEF Next, Thread, TestRun, ReadSome, Read, ReadOverruns,
       HandlesOutside, ParseGoesOn, EndPass, ReadFails, Restart
  <2>2. at' = at /\ cut' = cut
    BY <2>1 DEF Stop, vars, at
  <2> QED  BY <1>1, <2>2
<1>4. CASE pc # "exited" /\ pc' = "exited"
  <2>1. (TestRun /\ ~run) \/ ReadFails
    BY <1>4 DEF Next, vars, Thread, TestRun, ReadSome, Read, ReadOverruns,
       HandlesOutside, EndPass, Stop, Restart
  <2>2. /\ buf' = << >> /\ parsedLen' = 0 /\ rd' = rd
        /\ pc \notin {"parse", "outside"}
        /\ cut' = cut \cup {buf[i] : i \in DOMAIN buf}
    BY <2>1 DEF TestRun, ReadFails
  <2>3. parsedLen = 0
    BY <2>2 DEF Typed, Window
  <2>4. Len(buf') = 0
    BY <2>2
  <2>5. at' = rd /\ at = rd - Len(buf)
    BY <1>0, <2>2, <2>3, <2>4 DEF at
  <2> QED  BY <1>1, <2>2, <2>5
<1> QED  BY <1>2, <1>3, <1>4

LEMMA CutGrows ==
  ASSUME [Next]_vars
  PROVE  cut \subseteq cut'
BY DEF Next, vars, Thread, TestRun, ReadSome, Read, ReadOverruns, SkipByte,
       HandleFrame, HandlesOutside, EndPass, ReadFails, Stop, Restart

LEMMA StepKept == Typed /\ Kept /\ [Next]_vars => Kept'
<1> SUFFICES ASSUME Typed, Kept, [Next]_vars, cut' = {} PROVE Aligned'
  BY DEF Kept
<1>1. cut = {} /\ Aligned
  BY CutGrows DEF Kept
<1>2. CASE HandleFrame \/ pc' # "exited"
  BY <1>1, <1>2, StepAligned
<1>3. CASE ~HandleFrame /\ pc' = "exited"
  <2>1. ~SkipByte
    BY <1>3 DEF SkipByte, ParseGoesOn
  <2>2. CASE cut' = cut /\ at' = at
    BY <1>1, <2>2, StepAligned
  <2>3. CASE /\ at' = rd /\ cut' = cut \cup {buf[i] : i \in DOMAIN buf}
             /\ at = rd - Len(buf)
    <3>0. buf \in Seq(DOMAIN cells) /\ rd \in Nat
      BY DEF Typed, TypeOK
    <3>1. DOMAIN buf = {}
      BY <2>3
    <3>2. Len(buf) = 0
      BY <3>0, <3>1
    <3> QED  BY <1>1, <2>3, <3>0, <3>1, <3>2, StepAligned
  <2> QED  BY <1>3, <2>1, <2>2, <2>3, Loses
<1> QED  BY <1>2, <1>3

\* As long as nothing was thrown away, by a restart or by the budget, what is
\* handled is what was sent: parsing is in step with the stream.
THEOREM AsSent == Spec => []HandledAsSent
<1>1. Init => Typed /\ Kept
  BY InitTyped, InitAligned DEF Kept
<1>2. Typed /\ Kept /\ [Next]_vars => (Typed /\ Kept)'
  BY StepTyped, StepKept
<1>3. Kept => HandledAsSent
  BY DEF Kept, Aligned, AsSentSoFar, HandledAsSent
<1> QED  BY <1>1, <1>2, <1>3, PTL DEF Spec

LEMMA ClearBefore == [Next]_vars /\ Clear' => Clear
<1> SUFFICES ASSUME [Next]_vars, Clear' PROVE Clear
  OBVIOUS
<1>1. cut' = {} => cut = {}
  BY CutGrows
<1>2. Unambiguous' => Unambiguous
  BY StreamStays DEF Unambiguous, Frames
<1> QED  BY <1>1, <1>2 DEF Clear

LEMMA StepInside ==
  ASSUME Typed, Left, Kept, NoOverrun, [Next]_vars
  PROVE  NoOverrun'
<1> SUFFICES ASSUME pc' = "outside", Clear' PROVE FALSE
  BY DEF NoOverrun
<1>1. Clear
  BY ClearBefore
<1>2. CASE pc = "outside"
  BY <1>1, <1>2 DEF NoOverrun
<1>3. CASE HandlesOutside
  <2>1. ParseGoesOn /\ AtMagic /\ Need < 2
    BY <1>3 DEF HandlesOutside, HeadLen
  <2>2. /\ at + 1 \in DOMAIN cells /\ cells[at + 1].magic
        /\ Need = SizeOf(cells[at + 2].dataLen)
    BY <2>1, Heading
  <2>3. PICK k \in Frames : at + 1 = starts[k]
    BY <1>1, <2>2, HeaderFound
  <2>4. Need = 2 + cells[at + 2].dataLen /\ cells[at + 2].dataLen \in Nat
    BY <2>2, <2>3, FrameOf
  <2> QED  BY <2>1, <2>4
<1>4. ASSUME NEW n \in 1 .. ReadMax, rd + n <= Len(cells), ReadOverruns(n)
      PROVE  FALSE
  <2>1. /\ pc = "read" /\ Len(buf) + n > BufSize /\ n \in Nat /\ n <= ReadMax
        /\ Len(buf) \in Nat /\ rd \in Nat /\ Len(buf) <= rd /\ parsedLen = 0
        /\ Len(cells) \in Nat /\ DOMAIN cells = 1 .. Len(cells)
    BY <1>4, Consts, Stream DEF ReadOverruns, Typed, TypeOK, Window
  <2>2. CASE Len(buf) < 2
    BY <2>1, <2>2, Consts
  <2>3. CASE ~(Len(buf) < 2)
    <3>1. cells[buf[1]].magic /\ SizeOf(cells[buf[2]].dataLen) > Len(buf)
      BY <2>1, <2>3 DEF Left, Unfinished, HeadLen
    <3>2. /\ buf[1] = at + 1 /\ buf[2] = at + 2 /\ at + 1 \in DOMAIN cells
      <4>1. 1 \in 1 .. Len(buf) - parsedLen /\ 2 \in 1 .. Len(buf) - parsedLen
        BY <2>1, <2>3
      <4>2. buf[parsedLen + 1] = at + 1 /\ at + 1 \in DOMAIN cells
        BY <4>1, Ahead
      <4>3. buf[parsedLen + 2] = at + 2
        BY <4>1, Ahead
      <4> QED  BY <2>1, <4>2, <4>3
    <3>3. PICK k \in Frames : at + 1 = starts[k]
      BY <1>1, <3>1, <3>2, HeaderFound
    <3>4. /\ SizeOf(cells[at + 2].dataLen) = 2 + cells[at + 2].dataLen
          /\ 2 + cells[at + 2].dataLen <= MaxFrame /\ cells[at + 2].dataLen \in Nat
      BY <3>3, FrameOf
    <3> QED  BY <2>1, <3>1, <3>2, <3>4, Consts
  <2> QED  BY <2>2, <2>3
<1>5. CASE pc # "outside" /\ ~HandlesOutside
           /\ ~(\E n \in 1 .. ReadMax : rd + n <= Len(cells) /\ ReadOverruns(n))
  <2>1. ASSUME NEW n \in 1 .. ReadMax, Read(n) PROVE FALSE
    BY <2>1 DEF Read
  <2>2. ~ReadSome
    BY <1>5, <2>1 DEF ReadSome
  <2> QED  BY <1>5, <2>2 DEF Next, vars, Thread, TestRun, Read, SkipByte,
              HandleFrame, EndPass, ReadFails, Stop, Restart, ParseGoesOn
<1> QED  BY <1>2, <1>3, <1>4, <1>5

\* Nothing is copied past the end of the buffer and no length wraps, as long as
\* what looks like a header is one: less than a frame that was sent is left
\* before a read.  Payloads may announce any length.
THEOREM Fits == Spec => []NoOverrun
<1>1. Init => Typed /\ Left /\ Kept /\ NoOverrun
  BY InitTyped, InitLeft, InitAligned DEF Kept, Init, NoOverrun
<1>2. Typed /\ Left /\ Kept /\ NoOverrun /\ [Next]_vars
      => (Typed /\ Left /\ Kept /\ NoOverrun)'
  BY StepTyped, StepLeft, StepKept, StepInside
<1> QED  BY <1>1, <1>2, PTL DEF Spec

LEMMA StepSettled == Typed /\ Kept /\ Settled /\ [Next]_vars => Settled'
<1> SUFFICES ASSUME Typed, Kept, Settled, [Next]_vars PROVE Settled'
  OBVIOUS
<1> SUFFICES ASSUME Clear', NEW i \in Frames, starts[i] <= at'
             PROVE  Taken(i)' \/ (Given(i)' /\ starts[i + 1] <= at' + 1)
  BY StreamStays DEF Settled, Frames, Taken, Given
<1>s. starts' = starts /\ cells' = cells /\ Frame(i)' = Frame(i)
  BY StreamStays DEF Frame, Places
<1>1. Clear
  BY ClearBefore
<1>2. /\ at \in Nat /\ at' \in Int /\ at <= at' /\ i \in Nat
      /\ starts[i] \in Nat /\ starts[i + 1] \in Nat /\ starts[i] + 2 <= starts[i + 1]
  BY Stands, Apart
<1>3. Taken(i) => Taken(i)'
  BY <1>s, CutGrows DEF Taken
<1>4. Given(i) => Given(i)'
  <2>1. CASE HandleFrame
    <3>1. handled \in Seq(Seq(DOMAIN cells))
      BY DEF Typed, TypeOK
    <3>2. /\ handled' = Append(handled, Places(at, Need))
      BY <2>1, FrameHandled
    <3>3. \A j \in DOMAIN handled : j \in DOMAIN handled' /\ handled'[j] = handled[j]
      BY <3>1, <3>2
    <3> QED  BY <1>s, <3>3 DEF Given
  <2>2. CASE ~HandleFrame
    BY <1>s, <2>2, HandledStays DEF Given
  <2> QED  BY <2>1, <2>2
<1>5. CASE starts[i] <= at
  <2>1. Taken(i) \/ (Given(i) /\ starts[i + 1] <= at + 1)
    BY <1>1, <1>5 DEF Settled
  <2> QED  BY <1>2, <1>3, <1>4, <2>1
<1>6. CASE ~(starts[i] <= at)
  <2>1. CASE SkipByte
    <3>1. ParseGoesOn /\ ~AtMagic
      BY <2>1 DEF SkipByte
    <3>2. at' = at + 1
      BY <2>1 DEF SkipByte, NextByte, at, Typed, TypeOK
    <3>3. at + 1 = starts[i]
      BY <1>2, <1>6, <3>2
    <3> QED  BY <3>1, <3>3, FrameOf, Heading
  <2>2. CASE HandleFrame
    <3>1. ParseGoesOn /\ AtMagic /\ Need \in Nat
          /\ handled' = Append(handled, Places(at, Need))
      BY <2>2, FrameHandled
    <3>2. at + 1 \in DOMAIN cells /\ cells[at + 1].magic
          /\ Need = SizeOf(cells[at + 2].dataLen)
      BY <3>1, Heading
    <3>3. PICK k \in Frames : at + 1 = starts[k]
      BY <1>1, <3>2, HeaderFound
    <3>4. starts[k + 1] = at + 1 + Need /\ Frame(k) = Places(at, Need)
      BY <3>2, <3>3, FrameOf
    <3>5. /\ rd \in Nat /\ at + Need <= rd
          /\ \/ at' = at + Need
             \/ at' = rd /\ \A p \in at + Need + 1 .. rd : p \in cut'
      BY <2>2, HandledMoves
    <3>6. CASE k # i
      <4>1. k \in Nat /\ starts[k] \in Nat /\ starts[k + 1] \in Nat
        BY Apart
      <4>2. ~(i < k)
        BY <1>2, <1>6, <3>3, Apart
      <4>3. starts[k + 1] <= starts[i]
        BY <1>2, <3>6, <4>1, <4>2, Apart
      <4>4. at' = rd /\ starts[i] \in at + Need + 1 .. rd
        BY <1>2, <3>1, <3>4, <3>5, <4>1, <4>3
      <4>5. starts[i] \in cut'
        BY <1>2, <3>1, <3>4, <3>5, <4>1, <4>3, <4>4
      <4> QED  BY <1>s, <1>2, <4>5 DEF Taken
    <3>7. ASSUME k = i PROVE Given(i)'
      <4>1. handled \in Seq(Seq(DOMAIN cells))
        BY DEF Typed, TypeOK
      <4>2. Len(handled) + 1 \in DOMAIN handled'
            /\ handled'[Len(handled) + 1] = Places(at, Need)
        BY <3>1, <4>1
      <4> QED  BY <1>s, <3>4, <3>7, <4>2 DEF Given
    <3>8. k = i => starts[i + 1] <= at' + 1
      BY <1>2, <3>1, <3>4, <3>5
    <3> QED  BY <3>6, <3>7, <3>8
  <2>3. CASE ~SkipByte /\ ~HandleFrame
    <3>1. at' # at
      BY <1>2, <1>6
    <3>2. /\ at' = rd /\ cut' = cut \cup {buf[j] : j \in DOMAIN buf}
          /\ at = rd - Len(buf)
      BY <2>3, <3>1, Loses
    <3>3. rd \in Nat /\ Len(buf) \in Nat /\ DOMAIN buf = 1 .. Len(buf)
      BY DEF Typed, TypeOK
    <3>4. starts[i] - at \in 1 .. Len(buf)
      BY <1>2, <1>6, <3>2, <3>3
    <3>5. buf[starts[i] - at] = starts[i]
      <4>1. buf[starts[i] - at] = rd - Len(buf) + (starts[i] - at)
        BY <3>4 DEF Typed, Window
      <4> QED  BY <1>2, <3>2, <3>3, <4>1
    <3>6. starts[i] \in cut'
      BY <3>2, <3>3, <3>4, <3>5
    <3> QED  BY <1>s, <1>2, <3>6 DEF Taken
  <2> QED  BY <2>1, <2>2, <2>3
<1> QED  BY <1>5, <1>6

\* Before a read, what is left begins with a header whose frame is not complete.
LEMMA NoneWithheld ==
  ASSUME Typed, Left, Kept, Settled
  PROVE  NothingWithheld
<1> SUFFICES ASSUME pc = "read", run, NEW i \in Frames,
                    starts[i + 1] <= rd + 1, Clear,
                    \A p \in cut : p < starts[i] \/ p >= starts[i + 1]
             PROVE  Given(i)
  BY DEF NothingWithheld, Given
<1>0. /\ rd \in Nat /\ rd <= Len(cells) /\ Len(buf) \in Nat /\ Len(buf) <= rd
      /\ DOMAIN cells = 1 .. Len(cells) /\ Len(cells) \in Nat
      /\ parsedLen = 0 /\ cut \subseteq DOMAIN cells
  BY Stream DEF Typed, TypeOK, Window
<1>1. /\ i \in Nat /\ starts[i] \in Nat /\ starts[i + 1] \in Nat
      /\ starts[i] + 2 <= starts[i + 1]
  BY Apart
<1>2. ~Taken(i)
  BY <1>0, <1>1 DEF Taken
<1>3. CASE starts[i] <= at
  BY <1>2, <1>3 DEF Settled
<1>4. CASE ~(starts[i] <= at)
  <2>1. at = rd - Len(buf) /\ at \in Nat /\ 2 <= Len(buf)
    BY <1>0, <1>1, <1>4 DEF at
  <2>2. Unfinished
    BY DEF Left
  <2>3. cells[buf[1]].magic /\ SizeOf(cells[buf[2]].dataLen) > Len(buf)
    BY <1>0, <2>1, <2>2 DEF Unfinished, HeadLen
  <2>4. 1 \in 1 .. Len(buf) /\ 2 \in 1 .. Len(buf)
    BY <1>0, <2>1
  <2>5. buf[1] = at + 1 /\ buf[2] = at + 2
    BY <1>0, <2>1, <2>4 DEF Typed, Window
  <2>6. at + 1 \in DOMAIN cells
    BY <1>0, <2>1
  <2>7. PICK k \in Frames : at + 1 = starts[k]
    BY <2>3, <2>5, <2>6, HeaderFound
  <2>8. starts[k + 1] = at + 1 + (2 + cells[at + 2].dataLen)
        /\ SizeOf(cells[at + 2].dataLen) = 2 + cells[at + 2].dataLen
        /\ cells[at + 2].dataLen \in Nat
    BY <2>7, FrameOf
  <2>9. starts[k + 1] > rd + 1
    BY <1>0, <2>1, <2>3, <2>5, <2>8
  <2>10. k \in Nat /\ starts[k] \in Nat /\ starts[k + 1] \in Nat
    BY Apart
  <2>11. i < k => starts[i + 1] <= starts[k]
    BY Apart
  <2>12. k < i => starts[k + 1] <= starts[i]
    BY Apart
  <2>13. CASE i = k
    BY <1>0, <2>9, <2>10, <2>13
  <2>14. CASE i < k
    <3>1. starts[i + 1] <= at + 1 /\ at < starts[i]
      BY <1>1, <1>4, <2>1, <2>7, <2>11, <2>14
    <3> QED  BY <1>1, <2>1, <3>1
  <2>15. CASE k < i
    <3>1. starts[k + 1] <= starts[i]
      BY <2>12, <2>15
    <3> QED  BY <1>0, <1>1, <2>9, <2>10, <3>1
  <2> QED  BY <1>1, <2>10, <2>13, <2>14, <2>15
<1> QED  BY <1>3, <1>4

\* A frame read as a whole is handled before the next read, unless some of it was
\* in the buffer of a stopped worker or dropped by the budget; after such a loss
\* this takes a stream in which only headers look like one.
THEOREM NothingKeptBack == Spec => []NothingWithheld
<1>1. Init => Typed /\ Left /\ Kept /\ Settled
  <2>1. Init => Settled
    <3> SUFFICES ASSUME Init, NEW i \in Frames PROVE ~(starts[i] <= at)
      BY DEF Settled
    <3>1. starts[i] \in Nat \ {0}
      BY InitTyped, Stream DEF Typed, Frames
    <3> QED  BY <3>1 DEF Init, at
  <2> QED  BY <2>1, InitTyped, InitLeft, InitAligned DEF Kept
<1>2. /\ Typed /\ Left /\ Kept /\ Settled /\ [Next]_vars
      => (Typed /\ Left /\ Kept /\ Settled)'
  BY StepTyped, StepLeft, StepKept, StepSettled
<1>3. Typed /\ Left /\ Kept /\ Settled => NothingWithheld
  BY NoneWithheld
<1> QED  BY <1>1, <1>2, <1>3, PTL DEF Spec

----------------------------------------------------------------------------
(* Order                                                                   *)

FramesInOrder ==
  /\ \A i \in DOMAIN handled :
       /\ Len(handled[i]) >= HeadLen
       /\ handled[i] = Places(handled[i][1] - 1, Len(handled[i]))
       /\ handled[i][Len(handled[i])] <= at
  /\ \A i, j \in DOMAIN handled :
       i < j => handled[i][Len(handled[i])] < handled[j][1]

CallsInOrder ==
  /\ \A i \in DOMAIN calls : calls[i][1] <= at
  /\ \A i, j \in DOMAIN calls :
       i < j => calls[i][1] <= calls[j][1] /\ calls[i] # calls[j]

LEMMA InitOrder == Init => FramesInOrder /\ CallsInOrder
BY DEF Init, FramesInOrder, CallsInOrder

LEMMA PlacesOf ==
  ASSUME NEW p \in Int, NEW n \in Nat, 2 <= n
  PROVE  /\ Len(Places(p, n)) = n
         /\ Places(p, n)[1] = p + 1 /\ Places(p, n)[n] = p + n
         /\ Places(p, n) = Places(Places(p, n)[1] - 1, Len(Places(p, n)))
<1>1. Len(Places(p, n)) = n
  BY DEF Places
<1>2. Places(p, n)[1] = p + 1 /\ Places(p, n)[n] = p + n
  BY DEF Places
<1> HIDE DEF Places
<1>3. Places(p, n)[1] - 1 = p
  BY <1>2
<1> QED  BY <1>1, <1>2, <1>3

LEMMA StepFrames ==
  ASSUME Typed, FramesInOrder, [Next]_vars
  PROVE  FramesInOrder'
<1>0. at \in Nat /\ at' \in Int /\ at <= at'
  BY Stands
<1>1. CASE HandleFrame
  <2> DEFINE k == Len(handled) + 1
             f == Places(at, Need)
  <2>1. /\ Need \in Nat /\ 2 <= Need /\ handled' = Append(handled, f)
        /\ f \in Seq(DOMAIN cells) /\ parsedLen + Need <= Len(buf)
    BY <1>1, FrameHandled
  <2>2. /\ Len(f) = Need /\ f[1] = at + 1 /\ f[Need] = at + Need
        /\ f = Places(f[1] - 1, Len(f))
    BY <1>0, <2>1, PlacesOf
  <2>3. handled \in Seq(Seq(DOMAIN cells)) /\ Len(handled) \in Nat
        /\ DOMAIN handled = 1 .. Len(handled)
    BY DEF Typed, TypeOK
  <2> HIDE DEF f
  <2>4. /\ DOMAIN handled' = 1 .. k /\ handled'[k] = f
        /\ \A i \in 1 .. Len(handled) : handled'[i] = handled[i]
    BY <2>1, <2>3
  <2>5. at + Need <= at'
    BY <1>1, HandledMoves
  <2>6. ASSUME NEW i \in 1 .. Len(handled)
        PROVE  /\ Len(handled[i]) \in Nat /\ Len(handled[i]) >= HeadLen
               /\ handled[i][Len(handled[i])] \in Int
               /\ handled[i][Len(handled[i])] <= at
               /\ handled[i] = Places(handled[i][1] - 1, Len(handled[i]))
    <3>0. handled[i] \in Seq(DOMAIN cells) /\ i \in DOMAIN handled
      BY ONLY <2>3, i \in 1 .. Len(handled)
    <3>1. handled[i] \in Seq(DOMAIN cells) /\ Len(handled[i]) >= 2
      BY <3>0 DEF FramesInOrder, HeadLen
    <3>2. Len(handled[i]) \in DOMAIN handled[i]
      BY <3>1
    <3>3. handled[i][Len(handled[i])] \in DOMAIN cells
      BY <3>1, <3>2
    <3>4. handled[i][Len(handled[i])] \in Int
      BY <3>3, Stream DEF Typed
    <3> QED  BY <2>3, <3>1, <3>4 DEF FramesInOrder
  <2>7. ASSUME NEW i \in 1 .. k
        PROVE  /\ Len(handled'[i]) >= HeadLen
               /\ handled'[i] = Places(handled'[i][1] - 1, Len(handled'[i]))
               /\ handled'[i][Len(handled'[i])] <= at'
    <3>1. CASE i = k
      BY <2>1, <2>2, <2>4, <2>5, <3>1 DEF HeadLen
    <3>2. CASE i \in 1 .. Len(handled)
      BY <1>0, <2>4, <2>6, <3>2
    <3> QED  BY <2>3, <3>1, <3>2
  <2>8. ASSUME NEW i \in 1 .. k, NEW j \in 1 .. k, i < j
        PROVE  handled'[i][Len(handled'[i])] < handled'[j][1]
    <3>1. i \in 1 .. Len(handled)
      BY <2>3, <2>8
    <3>2. CASE j = k
      <4>1. handled'[j] = f /\ handled'[j][1] = at + 1
        BY <2>2, <2>4, <3>2
      <4>2. /\ handled'[i] = handled[i]
            /\ handled[i][Len(handled[i])] \in Int
            /\ handled[i][Len(handled[i])] <= at
        BY <2>4, <2>6, <3>1
      <4> QED  BY <1>0, <4>1, <4>2
    <3>3. CASE j \in 1 .. Len(handled)
      BY <2>3, <2>4, <2>8, <3>1, <3>3 DEF FramesInOrder
    <3> QED  BY <2>3, <3>2, <3>3
  <2> HIDE DEF k
  <2> QED  BY <2>4, <2>7, <2>8 DEF FramesInOrder, Places
<1>2. CASE ~HandleFrame
  <2>1. handled' = handled
    BY <1>2, HandledStays
  <2>2. ASSUME NEW i \in DOMAIN handled
        PROVE  handled[i][Len(handled[i])] <= at'
    <3>1. handled \in Seq(Seq(DOMAIN cells)) /\ Len(handled[i]) >= 2
      BY DEF Typed, TypeOK, FramesInOrder, HeadLen
    <3>2. handled[i] \in Seq(DOMAIN cells) /\ Len(handled[i]) \in DOMAIN handled[i]
      BY <3>1
    <3>3. handled[i][Len(handled[i])] \in DOMAIN cells
      BY <3>2
    <3>4. handled[i][Len(handled[i])] \in Int
      BY <3>3, Stream DEF Typed
    <3> QED  BY <1>0, <3>4 DEF FramesInOrder
  <2> QED  BY <2>1, <2>2 DEF FramesInOrder, Places
<1> QED  BY <1>1, <1>2

\* The callbacks of one frame differ.
LEMMA CallsOfFrame ==
  ASSUME Typed, ParseGoesOn
  PROVE  LET c == CallsAt(at + 1) IN
         /\ \A i \in DOMAIN c : c[i][1] = at + 1
         /\ \A i, j \in DOMAIN c : i < j => c[i] # c[j]
<1>1. ASSUME NEW m, NEW i \in DOMAIN CallbacksFor(m), NEW j \in DOMAIN CallbacksFor(m),
             i < j
      PROVE  CallbacksFor(m)[i] # CallbacksFor(m)[j]
  <2>1. CASE m = "av"
    <3>1. CallbacksFor(m) = <<"audio", "video">>
      BY <2>1 DEF CallbacksFor
    <3> QED  BY <1>1, <3>1
  <2>2. CASE m = "pb"
    <3>1. CallbacksFor(m) = <<"pbAudio", "pbVideo">>
      BY <2>2 DEF CallbacksFor
    <3> QED  BY <1>1, <3>1
  <2>3. CASE m \notin {"av", "pb"}
    <3>1. \/ CallbacksFor(m) = <<"login">> \/ CallbacksFor(m) = <<"cmd">>
          \/ CallbacksFor(m) = <<m>> \/ CallbacksFor(m) = << >>
      BY <2>3 DEF CallbacksFor
    <3>2. DOMAIN CallbacksFor(m) \subseteq {1}
      BY <3>1
    <3> QED  BY <1>1, <3>2
  <2> QED  BY <2>1, <2>2, <2>3
<1> DEFINE names == CallbacksFor(cells[at + 2].msg)
<1>2. CallsAt(at + 1) = [i \in DOMAIN names |-> <<at + 1, names[i]>>]
  BY Heading DEF CallsAt
<1>3. \A i, j \in DOMAIN names : i < j => names[i] # names[j]
  BY <1>1
<1> HIDE DEF names
<1> QED  BY <1>2, <1>3

LEMMA StepCalls ==
  ASSUME Typed, CallsInOrder, [Next]_vars
  PROVE  CallsInOrder'
<1>0. at \in Nat /\ at' \in Int /\ at <= at'
  BY Stands
<1>1. \A i \in DOMAIN calls : calls[i][1] \in Int
  BY Stream DEF Typed, TypeOK
<1>2. CASE HandleFrame
  <2> DEFINE c == CallsAt(at + 1)
             n == Len(calls)
  <2>1. /\ calls \in Seq((DOMAIN cells) \X Callbacks)
        /\ c \in Seq((DOMAIN cells) \X Callbacks) /\ calls' = calls \o c
    BY <1>2, FrameHandled, CallsTyped DEF Typed, TypeOK
  <2>2. /\ \A i \in DOMAIN c : c[i][1] = at + 1
        /\ \A i, j \in DOMAIN c : i < j => c[i] # c[j]
    BY <1>2, FrameHandled, CallsOfFrame
  <2>3. at + 1 <= at'
    <3>1. 2 <= Need
      BY <1>2, FrameHandled
    <3> QED  BY <1>2, <3>1, HandledMoves
  <2> HIDE DEF c
  <2>4. /\ n \in Nat /\ Len(c) \in Nat /\ DOMAIN calls = 1 .. n
        /\ DOMAIN c = 1 .. Len(c) /\ DOMAIN calls' = 1 .. n + Len(c)
        /\ \A i \in 1 .. n + Len(c) :
             calls'[i] = IF i <= n THEN calls[i] ELSE c[i - n]
    BY <2>1, ConcatProperties
  <2> HIDE DEF n
  <2>5. ASSUME NEW i \in 1 .. n + Len(c)
        PROVE  calls'[i][1] <= at' /\ calls'[i][1] <= at + 1 /\ calls'[i][1] \in Int
    <3>1. CASE i <= n
      BY <1>0, <1>1, <2>4, <3>1 DEF CallsInOrder
    <3>2. CASE ~(i <= n)
      <4>1. i - n \in DOMAIN c /\ calls'[i] = c[i - n]
        BY <2>4, <3>2
      <4> QED  BY <1>0, <2>2, <2>3, <4>1
    <3> QED  BY <3>1, <3>2
  <2>6. ASSUME NEW i \in 1 .. n + Len(c), NEW j \in 1 .. n + Len(c), i < j
        PROVE  calls'[i][1] <= calls'[j][1] /\ calls'[i] # calls'[j]
    <3>1. CASE j <= n
      BY <2>4, <2>6, <3>1 DEF CallsInOrder
    <3>2. CASE ~(j <= n)
      <4>1. j - n \in DOMAIN c /\ calls'[j] = c[j - n] /\ c[j - n][1] = at + 1
        BY <2>2, <2>4, <3>2
      <4>2. CASE i <= n
        <5>1. calls'[i] = calls[i] /\ calls[i][1] <= at
          BY <2>4, <4>2 DEF CallsInOrder
        <5> QED  BY <1>0, <1>1, <2>4, <4>1, <4>2, <5>1
      <4>3. CASE ~(i <= n)
        <5>1. i - n \in DOMAIN c /\ calls'[i] = c[i - n] /\ i - n < j - n
          BY <2>4, <2>6, <4>3
        <5> QED  BY <1>0, <2>2, <4>1, <5>1
      <4> QED  BY <4>2, <4>3
    <3> QED  BY <3>1, <3>2
  <2> QED  BY <2>4, <2>5, <2>6 DEF CallsInOrder
<1>3. CASE ~HandleFrame
  <2>1. calls' = calls
    BY <1>3, HandledStays
  <2> QED  BY <1>0, <1>1, <2>1 DEF CallsInOrder
<1> QED  BY <1>2, <1>3

\* No piece of the stream is handled twice and none late, nor two callbacks made
\* for the same data, whatever the stops and restarts.
THEOREM InOrder == Spec => []HandledInOrder
<1>1. Init => Typed /\ FramesInOrder /\ CallsInOrder
  BY InitTyped, InitOrder
<1>2. /\ Typed /\ FramesInOrder /\ CallsInOrder /\ [Next]_vars
      => (Typed /\ FramesInOrder /\ CallsInOrder)'
  BY StepTyped, StepFrames, StepCalls
<1>3. FramesInOrder /\ CallsInOrder => HandledInOrder
  BY DEF FramesInOrder, CallsInOrder, HandledInOrder
<1> QED  BY <1>1, <1>2, <1>3, PTL DEF Spec
============================================================================
