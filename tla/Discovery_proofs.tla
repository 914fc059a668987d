-------------------------- MODULE Discovery_proofs --------------------------
(***************************************************************************)
(* Proofs about Discovery, for any devices and datagrams, and any sizes of *)
(* the buffer and the list.  The layers of the inductive invariant:        *)
(*   Typed      types, and parsing begins at the front of the buffer;      *)
(*   Filled     the list has each device once and no gap;                  *)
(*   Unspoilt   in a round of whole frames the buffer holds one at most;   *)
(*   Listed     what was answered is in the list or about to be entered.   *)
(***************************************************************************)
EXTENDS Discovery, SequenceTheorems, WellFoundedInduction, TLAPS

Typed == TypeOK /\ (sp # "parse" => parsedLen = 0)

----------------------------------------------------------------------------
(* Sets of numbers                                                         *)

\* A set of natural numbers that is not empty has a least element.
LEMMA Least ==
  ASSUME NEW S \in SUBSET Nat, S # {}
  PROVE  \E i \in S : \A j \in S : i <= j
<1> DEFINE R == OpToRel(<, Nat)
<1>1. IsWellFoundedOn(R, Nat)
  BY NatLessThanWellFounded
<1>2. \A i, j \in Nat : i < j => <<i, j>> \in R
  BY DEF OpToRel
<1>3. \A Q, U : IsWellFoundedOn(Q, U) =>
        \A T : T \subseteq U /\ T # {} => \E i \in T : \A j \in T : <<j, i>> \notin Q
  BY WFMin
<1> HIDE DEF R
<1>4. \E i \in S : \A j \in S : <<j, i>> \notin R
  BY <1>1, <1>3
<1>5. PICK i \in S : \A j \in S : <<j, i>> \notin R
  BY <1>4
<1>6. ASSUME NEW j \in S PROVE i <= j
  <2>1. i \in Nat /\ j \in Nat /\ ~(j < i)
    BY <1>2, <1>5
  <2> QED  BY <2>1
<1> QED  BY <1>6

LEMMA FirstIs ==
  ASSUME NEW S \in SUBSET Nat, S # {}
  PROVE  First(S) \in S /\ \A j \in S : First(S) <= j
BY Least DEF First

----------------------------------------------------------------------------
(* The list                                                                *)

Uids == Devices \cup {NoDevice}

\* Each device once, and no gap.
Filled(list) ==
  \A i, j \in Slots : i # j /\ list[i] # NoDevice =>
    /\ list[i] # list[j]
    /\ i > j => list[j] # NoDevice

In(list) == {list[i] : i \in Slots}

LEMMA Consts ==
  /\ NoDevice \notin Devices
  /\ MAX_RECV_BUF_SIZE \in Nat /\ MAX_DEV_LIST_NUM \in Nat
  /\ Rounds \in Nat /\ MaxReceived \in Nat /\ MaxConfigs \in Nat
  /\ Slots \subseteq Nat
BY DiscoveryAssumption DEF Slots

\* Entering a device keeps the others and the form of the list, and leaves the
\* device in the list if there is room left, or was.
LEMMA EnterFills ==
  ASSUME NEW list \in [Slots -> Uids], NEW u \in Uids, Filled(list)
  PROVE  /\ Enter(list, u) \in [Slots -> Uids]
         /\ Filled(Enter(list, u))
         /\ In(list) \ {NoDevice} \subseteq In(Enter(list, u))
         /\ FreeSlot(Enter(list, u)) # {} => FreeSlot(list) # {}
         /\ FreeSlot(list) # {} => u \in In(Enter(list, u))
<1>0. DOMAIN list = Slots
  OBVIOUS
<1>1. CASE SameSlot(list, u) # {}
  <2>1. SameSlot(list, u) \in SUBSET Nat
    BY <1>0, Consts DEF SameSlot
  <2>2. First(SameSlot(list, u)) \in SameSlot(list, u)
    BY <1>1, <2>1, FirstIs
  <2>3. list[First(SameSlot(list, u))] = u /\ First(SameSlot(list, u)) \in Slots
    BY <1>0, <2>2 DEF SameSlot
  <2>4. Enter(list, u) = list
    BY <1>1, <2>3 DEF Enter
  <2> QED  BY <2>3, <2>4 DEF In
<1>2. CASE SameSlot(list, u) = {} /\ FreeSlot(list) # {}
  <2> DEFINE k == First(FreeSlot(list))
  <2>1. FreeSlot(list) \in SUBSET Nat
    BY <1>0, Consts DEF FreeSlot
  <2>2. k \in FreeSlot(list) /\ \A j \in FreeSlot(list) : k <= j
    BY <1>2, <2>1, FirstIs
  <2>3. k \in Slots /\ k \in Nat /\ list[k] = NoDevice
    BY <1>0, <2>2, Consts DEF FreeSlot
  <2>4. \A j \in Slots : list[j] # u
    BY <1>0, <1>2 DEF SameSlot
  <2>5. u # NoDevice
    BY <2>3, <2>4
  <2>6. Enter(list, u) = [list EXCEPT ![k] = u]
    BY <1>2 DEF Enter
  <2>7. \A j \in Slots : j < k => list[j] # NoDevice
    <3> SUFFICES ASSUME NEW j \in Slots, j < k, list[j] = NoDevice PROVE FALSE
      OBVIOUS
    <3>1. j \in FreeSlot(list) /\ j \in Nat
      BY <1>0, Consts DEF FreeSlot
    <3> QED  BY <2>2, <2>3, <3>1
  <2> HIDE DEF k
  <2> DEFINE new == Enter(list, u)
  <2>8. new \in [Slots -> Uids] /\ new[k] = u /\ \A j \in Slots \ {k} : new[j] = list[j]
    BY <2>3, <2>6
  <2> HIDE DEF new
  <2>9. Filled(new)
    <3> SUFFICES ASSUME NEW i \in Slots, NEW j \in Slots, i # j, new[i] # NoDevice
                 PROVE  new[i] # new[j] /\ (i > j => new[j] # NoDevice)
      BY DEF Filled
    <3>1. CASE i = k
      BY <2>4, <2>7, <2>8, <3>1, <2>3, Consts
    <3>2. CASE i # k /\ j = k
      BY <2>4, <2>5, <2>8, <3>2
    <3>3. CASE i # k /\ j # k
      BY <2>8, <3>3 DEF Filled
    <3> QED  BY <3>1, <3>2, <3>3
  <2>10. In(list) \ {NoDevice} \subseteq In(new)
    BY <2>3, <2>8 DEF In
  <2>11. u \in In(new)
    BY <2>3, <2>8 DEF In
  <2> QED  BY <1>2, <2>8, <2>9, <2>10, <2>11 DEF new
<1>3. CASE SameSlot(list, u) = {} /\ FreeSlot(list) = {}
  BY <1>3 DEF Enter
<1> QED  BY <1>1, <1>2, <1>3

----------------------------------------------------------------------------
(* Types                                                                   *)

LEMMA Cells ==
  /\ Zero \in Cell
  /\ \A d \in Datagrams : /\ d \in Seq(Cell) /\ Len(d) \in Nat \ {0}
                          /\ Len(d) <= MAX_RECV_BUF_SIZE
                          /\ \A i \in 1 .. Len(d) : d[i] \in Cell
<1>1. Zero \in Cell
  BY DEF Zero, Cell
<1>2. ASSUME NEW d \in Datagrams
      PROVE  /\ d \in Seq(Cell) /\ Len(d) \in Nat \ {0}
             /\ Len(d) <= MAX_RECV_BUF_SIZE
             /\ \A i \in 1 .. Len(d) : d[i] \in Cell
  <2>1. d \in Seq(Cell) /\ Len(d) \in 1 .. MAX_RECV_BUF_SIZE
    BY DiscoveryAssumption
  <2>2. Len(d) \in Nat \ {0} /\ Len(d) <= MAX_RECV_BUF_SIZE
    BY <2>1, Consts
  <2>3. \A i \in 1 .. Len(d) : d[i] \in Cell
    BY <2>1
  <2> QED  BY <2>1, <2>2, <2>3
<1> QED  BY <1>1, <1>2

\* The header at which parsing stands and what follows it are in the buffer.
LEMMA Heading ==
  ASSUME TypeOK, ParseGoesOn
  PROVE  /\ parsedLen \in Nat /\ sRecvLen \in Nat /\ parsedLen + 3 <= sRecvLen
         /\ sRecvLen <= MAX_RECV_BUF_SIZE
         /\ remainLen = sRecvLen - parsedLen
         /\ MsgMagic \in BOOLEAN /\ MsgLen \in Int
         /\ sDiscoveryRespBuf[parsedLen + 3] \in Cell
         /\ sDiscoveryRespBuf[parsedLen + 3].uid \in Uids
<1>1. /\ parsedLen \in Nat /\ sRecvLen \in Nat /\ parsedLen + 3 <= sRecvLen
      /\ sRecvLen <= MAX_RECV_BUF_SIZE /\ remainLen = sRecvLen - parsedLen
  BY Consts DEF TypeOK, ParseGoesOn, remainLen, HeadLen
<1>2. /\ parsedLen + 1 \in 1 .. MAX_RECV_BUF_SIZE
      /\ parsedLen + 2 \in 1 .. MAX_RECV_BUF_SIZE
      /\ parsedLen + 3 \in 1 .. MAX_RECV_BUF_SIZE
  BY <1>1, Consts
<1>3. /\ sDiscoveryRespBuf[parsedLen + 1] \in Cell
      /\ sDiscoveryRespBuf[parsedLen + 2] \in Cell
      /\ sDiscoveryRespBuf[parsedLen + 3] \in Cell
  BY <1>2 DEF TypeOK
<1>4. \A c \in Cell : c.magic \in BOOLEAN /\ c.dataLen \in Int /\ c.uid \in Uids
  BY DEF Cell, Uids
<1> QED  BY <1>1, <1>3, <1>4 DEF MsgMagic, MsgLen

\* What a step of the search must not disturb.
SearchTypes ==
  /\ sp \in {"idle", "open", "loop", "recv", "parse", "check"}
  /\ retryCnt \in 0 .. Rounds
  /\ sIsSearchCanceled \in BOOLEAN
  /\ sDiscoveryRespBuf \in [1 .. MAX_RECV_BUF_SIZE -> Cell]
  /\ sRecvLen \in 0 .. MAX_RECV_BUF_SIZE
  /\ parsedLen \in 0 .. sRecvLen
  /\ sDevList \in [Slots -> Devices \cup {NoDevice}]
  /\ received \in 0 .. MaxReceived
  /\ whole \in BOOLEAN
  /\ answered \subseteq Devices
  /\ stopped \in BOOLEAN

ConfigTypes ==
  /\ sIsStationConfigRunning \in BOOLEAN
  /\ sIsStationConfigCanceled \in BOOLEAN
  /\ sStationConfigThread \in 0 .. MaxConfigs
  /\ ct \in [1 .. MaxConfigs -> {"none", "bind", "test", "send", "ended"}]
  /\ cs \in {"idle", "join"}

LEMMA TypeParts == TypeOK <=> SearchTypes /\ ConfigTypes
BY DEF TypeOK, SearchTypes, ConfigTypes

LEMMA InitTyped == Init => Typed
<1> SUFFICES ASSUME Init PROVE Typed
  OBVIOUS
<1>1. /\ sDiscoveryRespBuf \in [1 .. MAX_RECV_BUF_SIZE -> Cell]
      /\ sDevList \in [Slots -> Devices \cup {NoDevice}]
  BY Cells DEF Init, Zeroes, NoList
<1>2. ct \in [1 .. MaxConfigs -> {"none", "bind", "test", "send", "ended"}]
  BY DEF Init
<1>3. /\ retryCnt \in 0 .. Rounds /\ sRecvLen \in 0 .. MAX_RECV_BUF_SIZE
      /\ parsedLen \in 0 .. sRecvLen /\ parsedLen = 0
      /\ received \in 0 .. MaxReceived /\ sStationConfigThread \in 0 .. MaxConfigs
  BY Consts DEF Init
<1>4. SearchTypes /\ ConfigTypes
  BY <1>1, <1>2, <1>3 DEF Init, SearchTypes, ConfigTypes
<1> QED  BY <1>3, <1>4, TypeParts DEF Typed

\* Either the search takes a step, or the configuration does.
LEMMA Cases ==
  ASSUME [Next]_vars
  PROVE  \/ /\ UNCHANGED configVars
            /\ \/ OpenSearch \/ BeginSearch \/ NextRound \/ EndSearch
               \/ SelectTimesOut \/ ReceiveFails \/ SearchChecks \/ RoundTimesOut
               \/ StopDevSearch
               \/ \E d \in Datagrams : Receive(d)
               \/ SkipByte \/ TakeFrame \/ EndParse
         \/ /\ UNCHANGED searchVars
            /\ \/ StartStationConfig \/ StopStationConfig \/ ConfigJoined
               \/ \E i \in 1 .. MaxConfigs : StationConfig(i)
               \/ UNCHANGED configVars
<1>1. OpenSearch \/ SelectTimesOut \/ ReceiveFails \/ SearchChecks \/ RoundTimesOut
        => UNCHANGED configVars
  BY DEF OpenSearch, SelectTimesOut, ReceiveFails, SearchChecks, RoundTimesOut,
         RoundUnchanged, SearchUnchanged
<1>2. BeginSearch \/ NextRound \/ EndSearch \/ StopDevSearch => UNCHANGED configVars
  BY DEF BeginSearch, NextRound, EndSearch, StopDevSearch, SearchUnchanged
<1>3. SkipByte \/ TakeFrame \/ EndParse => UNCHANGED configVars
  BY DEF SkipByte, TakeFrame, EndParse, ParseUnchanged
<1>4. \A d \in Datagrams : Receive(d) => UNCHANGED configVars
  BY DEF Receive
<1>5. StartStationConfig \/ StopStationConfig \/ ConfigJoined => UNCHANGED searchVars
  BY DEF StartStationConfig, StopStationConfig, ConfigJoined
<1>6. \A i \in 1 .. MaxConfigs : StationConfig(i) => UNCHANGED searchVars
  BY DEF StationConfig, ConfigGoto
<1> QED  BY <1>1, <1>2, <1>3, <1>4, <1>5, <1>6 DEF Next, Search, vars

LEMMA ConfigStep ==
  ASSUME ConfigTypes, [Next]_vars
  PROVE  ConfigTypes'
<1>1. CASE UNCHANGED configVars
  BY <1>1 DEF ConfigTypes, configVars
<1>2. CASE StartStationConfig
  <2>1. sStationConfigThread + 1 \in 1 .. MaxConfigs
    BY <1>2, Consts DEF StartStationConfig, ConfigTypes
  <2>2. ct' \in [1 .. MaxConfigs -> {"none", "bind", "test", "send", "ended"}]
    BY <1>2 DEF StartStationConfig, ConfigTypes
  <2>3. sStationConfigThread' \in 0 .. MaxConfigs
    BY <1>2, <2>1, Consts DEF StartStationConfig
  <2> QED  BY <1>2, <2>2, <2>3 DEF StartStationConfig, ConfigTypes
<1>3. CASE StopStationConfig
  BY <1>3 DEF StopStationConfig, CancelConfig, ConfigTypes
<1>4. CASE ConfigJoined
  BY <1>4 DEF ConfigJoined, ConfigTypes
<1>5. ASSUME NEW i \in 1 .. MaxConfigs, StationConfig(i)
      PROVE  ConfigTypes'
  BY <1>5 DEF StationConfig, ConfigGoto, ConfigTypes
<1> QED  BY <1>1, <1>2, <1>3, <1>4, <1>5, Cases

LEMMA Parsing ==
  ASSUME Typed, SkipByte \/ TakeFrame
  PROVE  parsedLen' \in 0 .. sRecvLen
<1>1. TypeOK /\ ParseGoesOn
  BY DEF Typed, SkipByte, TakeFrame
<1>2. CASE SkipByte
  BY <1>1, <1>2, Heading DEF SkipByte
<1>3. CASE TakeFrame
  <2>1. /\ parsedLen' = parsedLen + HeadLen + MsgLen
        /\ MsgLen + HeadLen \in 0 .. remainLen
    BY <1>3 DEF TakeFrame, Complete
  <2> QED  BY <1>1, <2>1, Heading DEF HeadLen
<1> QED  BY <1>2, <1>3

LEMMA Buffer ==
  ASSUME SearchTypes, NEW n \in Nat, NEW rest \in Int
  PROVE  /\ \A d \in Datagrams :
              Appended(sDiscoveryRespBuf, n, d) \in [1 .. MAX_RECV_BUF_SIZE -> Cell]
         /\ Compacted(sDiscoveryRespBuf, rest) \in [1 .. MAX_RECV_BUF_SIZE -> Cell]
<1> DEFINE b == sDiscoveryRespBuf
<1>1. b \in [1 .. MAX_RECV_BUF_SIZE -> Cell] /\ DOMAIN b = 1 .. MAX_RECV_BUF_SIZE
  BY DEF SearchTypes
<1>2. ASSUME NEW d \in Datagrams, NEW i \in DOMAIN b
      PROVE  (IF i \in n + 1 .. n + Len(d) THEN d[i - n] ELSE b[i]) \in Cell
  <2>1. CASE i \in n + 1 .. n + Len(d)
    <3>1. i - n \in 1 .. Len(d)
      BY <1>1, <2>1, Cells
    <3> QED  BY <2>1, <3>1, Cells
  <2>2. CASE i \notin n + 1 .. n + Len(d)
    BY <1>1, <2>2
  <2> QED  BY <2>1, <2>2
<1>3. ASSUME NEW i \in DOMAIN b
      PROVE  (IF i > rest THEN b[i]
              ELSE IF rest + i \in DOMAIN b THEN b[rest + i] ELSE Zero) \in Cell
  BY <1>1, Cells
<1> HIDE DEF b
<1>4. \A d \in Datagrams : Appended(b, n, d) \in [1 .. MAX_RECV_BUF_SIZE -> Cell]
  BY <1>1, <1>2 DEF Appended
<1>5. Compacted(b, rest) \in [1 .. MAX_RECV_BUF_SIZE -> Cell]
  BY <1>1, <1>3 DEF Compacted
<1> QED  BY <1>4, <1>5 DEF b

LEMMA StepTyped == Typed /\ Filled(sDevList) /\ [Next]_vars => Typed'
<1> SUFFICES ASSUME Typed, Filled(sDevList), [Next]_vars PROVE Typed'
  OBVIOUS
<1>0. SearchTypes /\ ConfigTypes /\ (sp # "parse" => parsedLen = 0)
  BY TypeParts DEF Typed
<1> DEFINE Parses == SearchTypes' /\ (sp' # "parse" => parsedLen' = 0)
<1> SUFFICES Parses
  BY <1>0, ConfigStep DEF Typed, TypeOK, SearchTypes, ConfigTypes
<1>1. CASE OpenSearch \/ SelectTimesOut \/ ReceiveFails \/ SearchChecks \/ RoundTimesOut
  BY <1>0, <1>1 DEF OpenSearch, SelectTimesOut, ReceiveFails, SearchChecks,
     RoundTimesOut, RoundUnchanged, SearchUnchanged, SearchTypes
<1>2. CASE BeginSearch
  <2>1. NoList \in [Slots -> Devices \cup {NoDevice}] /\ Rounds \in 0 .. Rounds
    BY Consts DEF NoList
  <2> QED  BY <1>0, <1>2, <2>1 DEF BeginSearch, SearchTypes
<1>3. CASE NextRound
  <2>1. Zeroes \in [1 .. MAX_RECV_BUF_SIZE -> Cell]
    BY Cells DEF Zeroes
  <2>2. /\ retryCnt' \in 0 .. Rounds /\ sRecvLen' \in 0 .. MAX_RECV_BUF_SIZE
        /\ received' \in 0 .. MaxReceived /\ parsedLen' \in 0 .. sRecvLen'
        /\ parsedLen' = 0
    BY <1>0, <1>3, Consts DEF NextRound, RoundsLeft, SearchTypes
  <2> QED  BY <1>0, <1>3, <2>1, <2>2 DEF NextRound, SearchUnchanged, SearchTypes
<1>4. CASE EndSearch \/ StopDevSearch
  BY <1>0, <1>4 DEF EndSearch, StopDevSearch, SearchTypes
<1>5. ASSUME NEW d \in Datagrams, Receive(d)
      PROVE  Parses
  <2>1. received' \in 0 .. MaxReceived /\ whole' \in BOOLEAN /\ parsedLen' = 0
    BY <1>0, <1>5, Consts DEF Receive, SearchTypes
  <2>2. answered' \subseteq Devices
    <3>1. whole' => d[3].uid \in Devices \cup {NoDevice}
      <4>1. whole' => Len(d) > 2
        BY <1>5 DEF Receive, Whole, HeadLen
      <4>2. Len(d) > 2 => 3 \in 1 .. Len(d)
        BY Cells
      <4>3. \A c \in Cell : c.uid \in Devices \cup {NoDevice}
        BY DEF Cell
      <4> QED  BY <4>1, <4>2, <4>3, Cells
    <3> QED  BY <1>0, <1>5, <3>1 DEF Receive, SearchTypes
  <2>3. CASE sRecvLen + Len(d) > MAX_RECV_BUF_SIZE
    BY <1>0, <1>5, <2>1, <2>2, <2>3 DEF Receive, SearchTypes
  <2>4. CASE ~(sRecvLen + Len(d) > MAX_RECV_BUF_SIZE)
    <3>1. sRecvLen \in Nat /\ sRecvLen + Len(d) \in 0 .. MAX_RECV_BUF_SIZE
      BY <1>0, <2>4, Cells, Consts DEF SearchTypes
    <3>2. Appended(sDiscoveryRespBuf, sRecvLen, d) \in [1 .. MAX_RECV_BUF_SIZE -> Cell]
      BY <1>0, <3>1, Buffer
    <3>3. parsedLen' \in 0 .. sRecvLen'
      BY <1>5, <2>1, <2>4, <3>1, Consts DEF Receive
    <3> QED  BY <1>0, <1>5, <2>1, <2>2, <2>4, <3>1, <3>2, <3>3 DEF Receive, SearchTypes
  <2> QED  BY <2>3, <2>4
<1>6. CASE SkipByte
  BY <1>0, <1>6, Parsing DEF SkipByte, ParseUnchanged, ParseGoesOn, SearchTypes
<1>7. CASE TakeFrame
  <2> DEFINE json == sDiscoveryRespBuf[parsedLen + 3]
  <2>1. json.uid \in Uids
    BY <1>7, Heading DEF Typed, TakeFrame
  <2>2. Enter(sDevList, json.uid) \in [Slots -> Devices \cup {NoDevice}]
    BY <1>0, <2>1, EnterFills DEF SearchTypes, Uids
  <2>3. sDevList' \in [Slots -> Devices \cup {NoDevice}]
    BY <1>0, <1>7, <2>2 DEF TakeFrame, HeadLen, SearchTypes
  <2> QED  BY <1>0, <1>7, <2>3, Parsing DEF TakeFrame, ParseUnchanged, ParseGoesOn, SearchTypes
<1>8. CASE EndParse
  <2>1. /\ remainLen \in Int /\ sRecvLen \in Nat /\ parsedLen \in Nat
        /\ remainLen \in 0 .. MAX_RECV_BUF_SIZE
    BY <1>0, Consts DEF remainLen, SearchTypes
  <2>2. Compacted(sDiscoveryRespBuf, remainLen) \in [1 .. MAX_RECV_BUF_SIZE -> Cell]
    BY <1>0, <2>1, Buffer
  <2>3. parsedLen' = 0 /\ sRecvLen' \in 0 .. MAX_RECV_BUF_SIZE /\ parsedLen' \in 0 .. sRecvLen'
    BY <1>0, <1>8, <2>1, Consts DEF EndParse, SearchTypes
  <2> QED  BY <1>0, <1>8, <2>1, <2>2, <2>3 DEF EndParse, ParseUnchanged, SearchTypes
<1>9. CASE UNCHANGED searchVars
  BY <1>0, <1>9 DEF searchVars, SearchTypes
<1> QED  BY <1>1, <1>2, <1>3, <1>4, <1>5, <1>6, <1>7, <1>8, <1>9, Cases

----------------------------------------------------------------------------
(* The list of devices                                                     *)

LEMMA InitFilled == Init => Filled(sDevList)
BY DEF Init, NoList, Filled

LEMMA StepFilled ==
  ASSUME Typed, Filled(sDevList), [Next]_vars
  PROVE  Filled(sDevList')
<1>1. CASE BeginSearch
  BY <1>1 DEF BeginSearch, NoList, Filled
<1>2. CASE TakeFrame
  <2>1. sDiscoveryRespBuf[parsedLen + 3].uid \in Uids
    BY <1>2, Heading DEF Typed, TakeFrame
  <2>2. sDevList \in [Slots -> Uids]
    BY DEF Typed, TypeOK, Uids
  <2>3. Filled(Enter(sDevList, sDiscoveryRespBuf[parsedLen + 3].uid))
    BY <2>1, <2>2, EnterFills
  <2>4. \/ sDevList' = sDevList
        \/ sDevList' = Enter(sDevList, sDiscoveryRespBuf[parsedLen + 3].uid)
    <3>1. parsedLen + HeadLen + 1 = parsedLen + 3
      BY <1>2, Heading DEF Typed, TakeFrame, HeadLen
    <3> QED  BY <1>2, <3>1 DEF TakeFrame
  <2> QED  BY <2>3, <2>4
<1>3. CASE sDevList' = sDevList
  BY <1>3
<1> QED
  BY <1>1, <1>2, <1>3, Cases
     DEF OpenSearch, NextRound, EndSearch, SelectTimesOut, ReceiveFails, SearchChecks,
         RoundTimesOut, StopDevSearch, Receive, SkipByte, EndParse, ParseUnchanged,
         RoundUnchanged, searchVars

\* The variables keep their types: sRecvLen stays within the buffer and parsedLen
\* within sRecvLen, whatever int a header has for its dataLen.
THEOREM TypeCorrect == Spec => []TypeOK
<1>1. Init => Typed /\ Filled(sDevList)
  BY InitTyped, InitFilled
<1>2. Typed /\ Filled(sDevList) /\ [Next]_vars => Typed' /\ Filled(sDevList)'
  BY StepTyped, StepFilled
<1>3. Typed => TypeOK
  BY DEF Typed
<1> QED  BY <1>1, <1>2, <1>3, PTL DEF Spec

----------------------------------------------------------------------------
(* The answers                                                             *)

\* As long as a round has brought whole frames only, each is parsed to its end
\* before the next one arrives, and nothing of it is kept.
Unspoilt ==
  whole =>
    /\ sp \in {"recv", "check"} => sRecvLen = 0
    /\ sp = "parse" =>
         /\ sRecvLen > 2 /\ parsedLen \in {0, sRecvLen}
         /\ sDiscoveryRespBuf[1].magic
         /\ sDiscoveryRespBuf[2].dataLen + 2 = sRecvLen

\* The device whose answer is about to be parsed.
Pending ==
  IF sp = "parse" /\ whole /\ parsedLen = 0 /\ sDiscoveryRespBuf[3].reply
    THEN {sDiscoveryRespBuf[3].uid} ELSE {}

Listed == FreeSlot(sDevList) # {} => answered \subseteq In(sDevList) \cup Pending

LEMMA InitAnswers == Init => Unspoilt /\ Listed
BY DEF Init, Unspoilt, Listed

\* A datagram received in a round of whole frames is all that the buffer holds.
LEMMA Received ==
  ASSUME Typed, Unspoilt, NEW d \in Datagrams, Receive(d), whole'
  PROVE  /\ sp' = "parse" /\ parsedLen' = 0 /\ sRecvLen' = Len(d) /\ Len(d) > 2
         /\ sDiscoveryRespBuf'[1] = d[1] /\ sDiscoveryRespBuf'[2] = d[2]
         /\ sDiscoveryRespBuf'[3] = d[3]
         /\ d[1].magic /\ d[2].dataLen + 2 = Len(d)
<1>1. whole /\ Whole(d) /\ sp = "recv"
  BY DEF Receive, Typed, TypeOK
<1>2. sRecvLen = 0 /\ parsedLen = 0
  BY <1>1 DEF Unspoilt, Typed
<1>3. /\ Len(d) \in Nat /\ Len(d) > 2 /\ Len(d) <= MAX_RECV_BUF_SIZE
      /\ d[1].magic /\ d[2].dataLen + 2 = Len(d)
  BY <1>1, Cells DEF Whole, HeadLen
<1>4. /\ sp' = "parse" /\ parsedLen' = 0 /\ sRecvLen' = Len(d)
      /\ sDiscoveryRespBuf' = Appended(sDiscoveryRespBuf, 0, d)
  BY <1>2, <1>3, Consts DEF Receive
<1>5. DOMAIN sDiscoveryRespBuf = 1 .. MAX_RECV_BUF_SIZE
  BY DEF Typed, TypeOK
<1>6. ASSUME NEW i \in 1 .. Len(d)
      PROVE  Appended(sDiscoveryRespBuf, 0, d)[i] = d[i]
  BY <1>3, <1>5, Consts DEF Appended
<1>7. 1 \in 1 .. Len(d) /\ 2 \in 1 .. Len(d) /\ 3 \in 1 .. Len(d)
  BY <1>3
<1> QED  BY <1>3, <1>4, <1>6, <1>7

\* In such a round one frame is taken and then nothing is left.
LEMMA ParsedWhole ==
  ASSUME Typed, Unspoilt, whole, sp = "parse"
  PROVE  /\ ~SkipByte
         /\ TakeFrame => parsedLen = 0 /\ parsedLen' = sRecvLen
         /\ EndParse => parsedLen = sRecvLen /\ parsedLen # 0
<1>1. /\ sRecvLen \in Nat /\ sRecvLen > 2 /\ parsedLen \in {0, sRecvLen}
      /\ sDiscoveryRespBuf[1].magic /\ sDiscoveryRespBuf[2].dataLen + 2 = sRecvLen
  BY Consts DEF Unspoilt, Typed, TypeOK
<1>2. CASE parsedLen = 0
  <2>1. ParseGoesOn /\ MsgMagic /\ MsgLen + 2 = sRecvLen /\ Complete
    BY <1>1, <1>2 DEF ParseGoesOn, remainLen, MsgMagic, MsgLen, Complete, HeadLen
  <2>2. MsgLen \in Int
    BY <2>1, Heading DEF Typed
  <2>3. TakeFrame => parsedLen' = sRecvLen
    BY <1>1, <1>2, <2>1, <2>2 DEF TakeFrame, HeadLen
  <2> QED  BY <1>2, <2>1, <2>3 DEF SkipByte, EndParse
<1>3. CASE parsedLen = sRecvLen
  BY <1>1, <1>3 DEF SkipByte, TakeFrame, EndParse, ParseGoesOn, remainLen, HeadLen
<1> QED  BY <1>1, <1>2, <1>3

LEMMA StepUnspoilt ==
  ASSUME Typed, Unspoilt, [Next]_vars
  PROVE  Unspoilt'
<1>1. CASE OpenSearch \/ BeginSearch \/ EndSearch \/ ReceiveFails \/ RoundTimesOut
  BY <1>1 DEF OpenSearch, BeginSearch, EndSearch, ReceiveFails, RoundTimesOut, Unspoilt
<1>2. CASE NextRound
  BY <1>2 DEF NextRound, Unspoilt
<1>3. CASE SelectTimesOut \/ SearchChecks
  BY <1>3 DEF SelectTimesOut, SearchChecks, RoundUnchanged, Unspoilt
<1>4. CASE StopDevSearch
  BY <1>4 DEF StopDevSearch, Unspoilt
<1>5. ASSUME NEW d \in Datagrams, Receive(d), whole'
      PROVE  Unspoilt'
  BY <1>5, Received DEF Unspoilt
<1>6. CASE SkipByte
  BY <1>6, ParsedWhole DEF SkipByte, ParseGoesOn, ParseUnchanged, Unspoilt
<1>7. CASE TakeFrame
  BY <1>7, ParsedWhole DEF TakeFrame, ParseGoesOn, ParseUnchanged, Unspoilt
<1>8. CASE EndParse
  <2>1. whole => sRecvLen' = remainLen /\ remainLen = 0
    BY <1>8, ParsedWhole, Consts DEF EndParse, remainLen, Typed, TypeOK
  <2> QED  BY <1>8, <2>1 DEF EndParse, ParseUnchanged, Unspoilt
<1>9. CASE UNCHANGED searchVars
  BY <1>9 DEF searchVars, Unspoilt
<1>10. CASE ~whole'
  BY <1>10 DEF Unspoilt
<1> QED  BY <1>1, <1>2, <1>3, <1>4, <1>5, <1>6, <1>7, <1>8, <1>9, <1>10, Cases

LEMMA StepListed ==
  ASSUME Typed, Filled(sDevList), Unspoilt, Listed, [Next]_vars
  PROVE  Listed'
<1>1. CASE OpenSearch \/ NextRound \/ EndSearch \/ SelectTimesOut \/ ReceiveFails
           \/ SearchChecks \/ RoundTimesOut
  <2>1. sp # "parse" /\ UNCHANGED <<sDevList, answered>>
    BY <1>1 DEF OpenSearch, NextRound, EndSearch, SelectTimesOut, ReceiveFails,
       SearchChecks, RoundTimesOut, RoundUnchanged
  <2> QED  BY <2>1 DEF Listed, Pending, In
<1>2. CASE BeginSearch
  BY <1>2 DEF BeginSearch, Listed
<1>3. CASE StopDevSearch \/ UNCHANGED searchVars
  BY <1>3 DEF StopDevSearch, searchVars, Listed, Pending, In
<1>4. ASSUME NEW d \in Datagrams, Receive(d)
      PROVE  Listed'
  <2>1. sp # "parse" /\ sDevList' = sDevList
    BY <1>4 DEF Receive
  <2>2. FreeSlot(sDevList) # {} => answered \subseteq In(sDevList)
    BY <2>1 DEF Listed, Pending
  <2>3. CASE whole' /\ d[3].reply
    <3>1. Pending' = {d[3].uid}
      BY <1>4, <2>3, Received DEF Pending
    <3>2. answered' \subseteq answered \cup {d[3].uid}
      BY <1>4 DEF Receive
    <3> QED  BY <2>1, <2>2, <3>1, <3>2 DEF Listed, In
  <2>4. CASE ~(whole' /\ d[3].reply)
    <3>1. answered' = answered
      BY <1>4, <2>4 DEF Receive
    <3> QED  BY <2>1, <2>2, <3>1 DEF Listed, In
  <2> QED  BY <2>3, <2>4
<1>5. CASE SkipByte
  <2>1. ~whole /\ sp = "parse"
    BY <1>5, ParsedWhole DEF SkipByte, ParseGoesOn
  <2> QED  BY <1>5, <2>1 DEF SkipByte, ParseUnchanged, Listed, Pending, In
<1>6. CASE TakeFrame
  <2> DEFINE json == sDiscoveryRespBuf[parsedLen + 3]
  <2>1. /\ sp = "parse" /\ answered' = answered
        /\ json.uid \in Uids /\ sDevList \in [Slots -> Uids]
        /\ sDevList' = IF json.reply THEN Enter(sDevList, json.uid) ELSE sDevList
    BY <1>6, Heading DEF TakeFrame, HeadLen, ParseUnchanged, ParseGoesOn, Typed, TypeOK,
       Uids
  <2>2. answered \subseteq Devices /\ NoDevice \notin Devices
    BY Consts DEF Typed, TypeOK
  <2>3. Pending \subseteq IF json.reply THEN {json.uid} ELSE {}
    BY <2>1 DEF Pending
  <2>4. /\ FreeSlot(sDevList') # {} => FreeSlot(sDevList) # {}
        /\ In(sDevList) \ {NoDevice} \subseteq In(sDevList')
        /\ json.reply /\ FreeSlot(sDevList) # {} => json.uid \in In(sDevList')
    <3> HIDE DEF json
    <3> QED  BY <2>1, EnterFills
  <2> HIDE DEF json
  <2>5. ASSUME FreeSlot(sDevList') # {}, NEW u \in answered
        PROVE  u \in In(sDevList')
    <3>1. FreeSlot(sDevList) # {} /\ u # NoDevice
      BY <2>2, <2>4, <2>5
    <3>2. u \in In(sDevList) \/ u \in Pending
      BY <2>5, <3>1 DEF Listed
    <3>3. CASE u \in In(sDevList)
      BY <2>4, <3>1, <3>3
    <3>4. CASE u \in Pending
      BY <2>3, <2>4, <3>1, <3>4
    <3> QED  BY <3>2, <3>3, <3>4
  <2>6. In(sDevList') = In(sDevList)'
    BY DEF In
  <2> QED  BY <2>1, <2>5, <2>6 DEF Listed
<1>7. CASE EndParse
  <2>1. Pending = {}
    BY <1>7, ParsedWhole DEF EndParse, Pending
  <2> QED  BY <1>7, <2>1 DEF EndParse, ParseUnchanged, Listed, In
<1> QED  BY <1>1, <1>2, <1>3, <1>4, <1>5, <1>6, <1>7, Cases

IInv == Typed /\ Filled(sDevList) /\ Unspoilt /\ Listed

\* The invariant is inductive.
THEOREM Inductive == Spec => []IInv
<1>1. Init => IInv
  BY InitTyped, InitFilled, InitAnswers DEF IInv
<1>2. IInv /\ [Next]_vars => IInv'
  BY StepTyped, StepFilled, StepUnspoilt, StepListed DEF IInv
<1> QED  BY <1>1, <1>2, PTL DEF Spec

\* The list has each device once and no gap, and all that answered in an unspoilt
\* round, whatever the datagrams and however they fill the buffer: the wrong
\* offset of the bytes kept does harm only after a datagram that is no frame.
THEOREM EveryAnswerListed == Spec => []AnswersListed
<1>1. IInv => AnswersListed
  BY DEF IInv, Filled, Listed, Pending, In, AnswersListed
<1> QED  BY <1>1, Inductive, PTL
=============================================================================
