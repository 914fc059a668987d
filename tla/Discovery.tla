------------------------------ MODULE Discovery ------------------------------
(***************************************************************************)
(* Discovery.cpp.  startDevSearch asks the LAN for devices once a second,  *)
(* collects the datagrams of each such round in one buffer, parses them    *)
(* into the list of devices, and is stopped by stopDevSearch from another  *)
(* thread.  startStationConfig lets a thread broadcast a configuration     *)
(* until stopStationConfig.  Both talk on a UDP port that other programs,  *)
(* and the probes of this one, reach too.                                  *)
(*                                                                         *)
(* Bytes come in cells of four: the magic of a header, its dataLen (an int *)
(* which anybody may have sent), the JSON text of a device's reply, which  *)
(* is as long as that needs, or anything else.                             *)
(***************************************************************************)
EXTENDS Integers, Sequences

CONSTANTS
  Datagrams,            \* what recv may return, at most 1000 bytes
  Devices,              \* the uids of devices; a reply may also lack its uid
  NoDevice,             \* the empty uid
  MAX_RECV_BUF_SIZE,    \* 4096 bytes in the code
  MAX_DEV_LIST_NUM,     \* 100 in the code
  Rounds,               \* timeoutMS / 1000
  MaxReceived,          \* bound: the datagrams of one round
  MaxConfigs            \* bound: the configuration threads ever created

\* dataLen is what the cell is worth as an int.
Cell == [magic : BOOLEAN, dataLen : Int, reply : BOOLEAN,
         uid : Devices \cup {NoDevice}]

Zero == [magic |-> FALSE, dataLen |-> 0, reply |-> FALSE, uid |-> NoDevice]

HeadLen == 2    \* sizeof(DiscoveryCmdHead)

ASSUME DiscoveryAssumption ==
  /\ NoDevice \notin Devices
  /\ Datagrams \subseteq Seq(Cell)
  /\ \A d \in Datagrams : Len(d) \in 1 .. MAX_RECV_BUF_SIZE
  /\ MAX_RECV_BUF_SIZE \in Nat /\ MAX_DEV_LIST_NUM \in Nat
  /\ Rounds \in Nat /\ MaxReceived \in Nat /\ MaxConfigs \in Nat

VARIABLES
  sp,                  \* where startDevSearch is
  retryCnt,
  sIsSearchCanceled,
  sDiscoveryRespBuf, sRecvLen, parsedLen,
  sDevList,            \* the uid of each entry
  received,            \* the datagrams of this round
  whole,               \* history: was each of them a whole frame?
  answered,            \* history: devices whose reply came in such a round
  stopped,             \* history: was the search stopped after it began?
  sIsStationConfigRunning, sIsStationConfigCanceled,
  sStationConfigThread,   \* the thread created last
  ct,                  \* where each configuration thread is
  cs                   \* where the thread that starts and stops them is

searchVars == <<sp, retryCnt, sIsSearchCanceled, sDiscoveryRespBuf, sRecvLen,
                parsedLen, sDevList, received, whole, answered, stopped>>
configVars == <<sIsStationConfigRunning, sIsStationConfigCanceled,
                sStationConfigThread, ct, cs>>
vars == <<searchVars, configVars>>

Slots == 1 .. MAX_DEV_LIST_NUM

TypeOK ==
  /\ sp \in {"idle", "open", "loop", "recv", "parse", "check"}
  /\ retryCnt \in 0 .. Rounds
  /\ sIsSearchCanceled \in BOOLEAN
  /\ sDiscoveryRespBuf \in [1 .. MAX_RECV_BUF_SIZE -> Cell]
  /\ sRecvLen \in 0 .. MAX_RECV_BUF_SIZE
  /\ parsedLen \in 0 .. sRecvLen
  /\ sDevList \in [Slots -> Devices \cup {NoDevice}]
  /\ received \in 0 .. MaxReceived
  /\ whole \in BOOLEAN
  /\ answered \subseteq Devices
  /\ stopped \in BOOLEAN
  /\ sIsStationConfigRunning \in BOOLEAN
  /\ sIsStationConfigCanceled \in BOOLEAN
  /\ sStationConfigThread \in 0 .. MaxConfigs
  /\ ct \in [1 .. MaxConfigs -> {"none", "bind", "test", "send", "ended"}]
  /\ cs \in {"idle", "join"}

NoList == [i \in Slots |-> NoDevice]
Zeroes == [i \in 1 .. MAX_RECV_BUF_SIZE |-> Zero]

Init ==
  /\ sp = "idle" /\ retryCnt = 0 /\ sIsSearchCanceled = FALSE
  /\ sDiscoveryRespBuf = Zeroes /\ sRecvLen = 0 /\ parsedLen = 0
  /\ sDevList = NoList
  /\ received = 0 /\ whole = TRUE /\ answered = {} /\ stopped = FALSE
  /\ sIsStationConfigRunning = FALSE /\ sIsStationConfigCanceled = FALSE
  /\ sStationConfigThread = 0
  /\ ct = [i \in 1 .. MaxConfigs |-> "none"] /\ cs = "idle"

----------------------------------------------------------------------------
(* parseData                                                               *)

\* The datagram behind the n cells that the buffer holds.
Appended(b, n, d) ==
  [i \in DOMAIN b |-> IF i \in n + 1 .. n + Len(d) THEN d[i - n] ELSE b[i]]

\* Mutant: a device is not looked for before it is entered.
SameSlot_None(list, u) == {}

SameSlot(list, u) == {i \in DOMAIN list : list[i] = u}

FreeSlot(list) == {i \in DOMAIN list : list[i] = NoDevice}

First(S) == CHOOSE i \in S : \A j \in S : i <= j

\* The first entry with this uid is updated; failing that the first free one
\* is taken; failing that the device is dropped.
Enter(list, u) ==
  IF SameSlot(list, u) # {} THEN [list EXCEPT ![First(SameSlot(list, u))] = u]
  ELSE IF FreeSlot(list) # {} THEN [list EXCEPT ![First(FreeSlot(list))] = u]
  ELSE list

\* The rest of n cells goes to the front, taken from the offset of its own length
\* and not from where parsing ended.  That may lie past the end of the buffer, in
\* other static data, which is taken to hold no header.
Compacted(b, rest) ==
  [i \in DOMAIN b |->
     IF i > rest THEN b[i]
     ELSE IF rest + i \in DOMAIN b THEN b[rest + i] ELSE Zero]

\* A datagram that is one whole frame.
Whole(d) == /\ Len(d) > HeadLen
            /\ d[1].magic /\ d[2].dataLen = Len(d) - HeadLen

\* One datagram arrives; the buffer has no room for it, or it is to be parsed.
Receive(d) ==
  /\ sp = "recv" /\ received < MaxReceived
  /\ received' = received + 1
  /\ whole' = (whole /\ Whole(d))
  /\ answered' = IF whole' /\ d[3].reply
                   THEN answered \cup ({d[3].uid} \ {NoDevice}) ELSE answered
  /\ IF sRecvLen + Len(d) > MAX_RECV_BUF_SIZE
       THEN sp' = "loop" /\ UNCHANGED <<sDiscoveryRespBuf, sRecvLen>>
       ELSE /\ sp' = "parse"
            /\ sDiscoveryRespBuf' = Appended(sDiscoveryRespBuf, sRecvLen, d)
            /\ sRecvLen' = sRecvLen + Len(d)
  /\ UNCHANGED <<retryCnt, sIsSearchCanceled, parsedLen, sDevList, stopped,
                 configVars>>

ParseUnchanged ==
  UNCHANGED <<configVars, retryCnt, sIsSearchCanceled, received, whole, answered,
              stopped>>

remainLen   == sRecvLen - parsedLen
ParseGoesOn == sp = "parse" /\ remainLen > HeadLen
MsgMagic    == sDiscoveryRespBuf[parsedLen + 1].magic
MsgLen      == sDiscoveryRespBuf[parsedLen + 2].dataLen

\* The sum is unsigned: below 0 it is more than any buffer holds.  A dataLen of
\* -HeadLen makes a frame of no length, which is complete.
Complete == MsgLen + HeadLen \in 0 .. remainLen

SkipByte ==
  /\ ParseGoesOn /\ ~MsgMagic
  /\ parsedLen' = parsedLen + 1
  /\ ParseUnchanged /\ UNCHANGED <<sp, sDiscoveryRespBuf, sRecvLen, sDevList>>

\* What follows a header is read up to the end of the JSON text, and not up to
\* dataLen.  A frame of no length is taken again and again.
TakeFrame ==
  /\ ParseGoesOn /\ MsgMagic /\ Complete
  /\ parsedLen' = parsedLen + HeadLen + MsgLen
  /\ LET json == sDiscoveryRespBuf[parsedLen + HeadLen + 1]
     IN sDevList' = IF json.reply THEN Enter(sDevList, json.uid) ELSE sDevList
  /\ ParseUnchanged /\ UNCHANGED <<sp, sDiscoveryRespBuf, sRecvLen>>

\* No whole frame is left.
EndParse ==
  /\ sp = "parse" /\ (ParseGoesOn => MsgMagic /\ ~Complete)
  /\ sp' = "check" /\ parsedLen' = 0
  /\ IF parsedLen = 0
       THEN UNCHANGED <<sDiscoveryRespBuf, sRecvLen>>
       ELSE /\ sDiscoveryRespBuf' = Compacted(sDiscoveryRespBuf, remainLen)
            /\ sRecvLen' = remainLen
  /\ ParseUnchanged /\ UNCHANGED sDevList

----------------------------------------------------------------------------
(* startDevSearch and recvResponse                                         *)

SearchUnchanged == UNCHANGED <<configVars, sIsSearchCanceled, stopped>>

RoundUnchanged ==
  /\ SearchUnchanged
  /\ UNCHANGED <<retryCnt, sDiscoveryRespBuf, sRecvLen, parsedLen, sDevList,
                 received, whole, answered>>

\* The socket is bound.  It can be only if no other search has the port; a call
\* that fails before this changes nothing.
OpenSearch ==
  /\ sp = "idle" /\ sp' = "open"
  /\ RoundUnchanged

\* The list is cleared; a stop that was made before this is forgotten.
BeginSearch ==
  /\ sp = "open" /\ sp' = "loop"
  /\ sDevList' = NoList /\ answered' = {}
  /\ sIsSearchCanceled' = FALSE /\ stopped' = FALSE
  /\ retryCnt' = Rounds
  /\ UNCHANGED <<configVars, sDiscoveryRespBuf, sRecvLen, parsedLen, received,
                 whole>>

\* Mutant: one round too many.
RoundsLeft_More == retryCnt >= 0

RoundsLeft == retryCnt > 0

\* The next round: a probe is sent and the buffer cleared.
NextRound ==
  /\ sp = "loop" /\ RoundsLeft /\ ~sIsSearchCanceled
  /\ sp' = "recv" /\ retryCnt' = retryCnt - 1
  /\ sDiscoveryRespBuf' = Zeroes /\ sRecvLen' = 0
  /\ received' = 0 /\ whole' = TRUE
  /\ SearchUnchanged /\ UNCHANGED <<parsedLen, sDevList, answered>>

EndSearch ==
  /\ \/ sp = "loop" /\ (~RoundsLeft \/ sIsSearchCanceled)
     \/ sp = "recv"     \* select failed
  /\ sp' = "idle" /\ stopped' = FALSE
  /\ UNCHANGED <<configVars, sIsSearchCanceled, retryCnt, sDiscoveryRespBuf,
                 sRecvLen, parsedLen, sDevList, received, whole, answered>>

\* 50 ms without a datagram.
SelectTimesOut == sp = "recv" /\ sp' = "check" /\ RoundUnchanged

ReceiveFails == sp = "recv" /\ sp' = "loop" /\ RoundUnchanged

\* Mutant: the flag is tested between two rounds only.
Canceled_Never == FALSE

Canceled == sIsSearchCanceled

SearchChecks ==
  /\ sp = "check"
  /\ sp' = IF Canceled THEN "loop" ELSE "recv"
  /\ RoundUnchanged

\* A second has passed.
RoundTimesOut == sp = "check" /\ ~Canceled /\ sp' = "loop" /\ RoundUnchanged

\* stopDevSearch.
StopDevSearch ==
  /\ sIsSearchCanceled' = TRUE
  /\ stopped' = (stopped \/ sp \in {"loop", "recv", "parse", "check"})
  /\ UNCHANGED <<configVars, sp, retryCnt, sDiscoveryRespBuf, sRecvLen, parsedLen,
                 sDevList, received, whole, answered>>

----------------------------------------------------------------------------
(* The station configuration, started and stopped by one thread.           *)

StartStationConfig ==
  /\ cs = "idle" /\ ~sIsStationConfigRunning
  /\ sStationConfigThread < MaxConfigs
  /\ sIsStationConfigCanceled' = FALSE /\ sIsStationConfigRunning' = TRUE
  /\ sStationConfigThread' = sStationConfigThread + 1
  /\ ct' = [ct EXCEPT ![sStationConfigThread + 1] = "bind"]
  /\ UNCHANGED <<searchVars, cs>>

\* Mutant: the flag is not set.
CancelConfig_Never == UNCHANGED sIsStationConfigCanceled

CancelConfig == sIsStationConfigCanceled' = TRUE

StopStationConfig ==
  /\ cs = "idle"
  /\ CancelConfig
  /\ cs' = IF sIsStationConfigRunning THEN "join" ELSE "idle"
  /\ UNCHANGED <<searchVars, sIsStationConfigRunning, sStationConfigThread, ct>>

ConfigJoined ==
  /\ cs = "join" /\ ct[sStationConfigThread] = "ended"
  /\ cs' = "idle" /\ sIsStationConfigRunning' = FALSE
  /\ UNCHANGED <<searchVars, sIsStationConfigCanceled, sStationConfigThread, ct>>

ConfigGoto(i, from, to) ==
  /\ ct[i] = from /\ ct' = [ct EXCEPT ![i] = to]
  /\ UNCHANGED <<searchVars, sIsStationConfigRunning, sIsStationConfigCanceled,
                 sStationConfigThread, cs>>

\* The thread ends if its socket fails or its data cannot be encrypted; nobody
\* is told.
StationConfig(i) ==
  \/ ConfigGoto(i, "bind", "test") \/ ConfigGoto(i, "bind", "ended")
  \/ ConfigGoto(i, "test", IF sIsStationConfigCanceled THEN "ended" ELSE "send")
  \/ ConfigGoto(i, "send", "test") \/ ConfigGoto(i, "send", "ended")

----------------------------------------------------------------------------
Search ==
  \/ BeginSearch \/ NextRound \/ EndSearch
  \/ SelectTimesOut \/ ReceiveFails \/ SearchChecks
  \/ \E d \in Datagrams : Receive(d)
  \/ SkipByte \/ TakeFrame \/ EndParse

Next ==
  \/ OpenSearch \/ Search \/ RoundTimesOut \/ StopDevSearch
  \/ StartStationConfig \/ StopStationConfig \/ ConfigJoined
  \/ \E i \in 1 .. MaxConfigs : StationConfig(i)

Spec == Init /\ [][Next]_vars

\* The threads are scheduled.  That a search ends is not left to the seconds.
FairSpec ==
  /\ Spec
  /\ WF_vars(Search) /\ WF_vars(ConfigJoined)
  /\ \A i \in 1 .. MaxConfigs : WF_vars(StationConfig(i))

----------------------------------------------------------------------------
(* Properties                                                              *)

\* The list has each device once and no gap, so that getDevList returns the
\* number of entries it has copied; and once parsed it has every device whose
\* reply arrived in a round that no foreign or broken datagram had spoilt before
\* it, unless it is full (line 269).
AnswersListed ==
  /\ \A i, j \in Slots : i # j /\ sDevList[i] # NoDevice =>
       /\ sDevList[i] # sDevList[j]
       /\ i > j => sDevList[j] # NoDevice
  /\ sp # "parse" /\ FreeSlot(sDevList) # {} =>
       answered \subseteq {sDevList[i] : i \in Slots}

\* parseData has come to a frame of no length, and stays there (line 191).
ParsesForEver == ParseGoesOn /\ MsgMagic /\ MsgLen + HeadLen = 0

\* A search that is stopped once it has begun ends without waiting for its
\* second to pass, unless somebody has sent a frame of no length; and
\* stopStationConfig returns.
StopsReturn ==
  /\ stopped ~> sp = "idle" \/ ParsesForEver
  /\ cs = "join" ~> cs = "idle"
============================================================================
