--------------------------- MODULE Sessions_proofs ---------------------------
(***************************************************************************)
(* Proofs about Sessions, for any set of application threads and any       *)
(* number of logins.  The invariant is built up in layers, each inductive  *)
(* given the ones before:                                                  *)
(*   Typed      types, who holds sSessionMutex, who has a client;          *)
(*   Table      the list holds the clients that exist, each once;          *)
(*   Quiet      what was told to stop has ended, or is waited for;         *)
(*   Past       what EC_Logout left behind when it returned;               *)
(*   Told       what is waited for has been created, and told to stop;     *)
(*   Numbered   handles count the logins;                                  *)
(*   Broken, Collected   what is collected has broken, and has ended;      *)
(*   Due        results told and results that may come are at most one,    *)
(*              and one for each answer without a command.                 *)
(* The last four need SerialLogins: with two concurrent logins handles are *)
(* not unique.                                                             *)
(***************************************************************************)
EXTENDS Sessions, SequenceTheorems, TLAPS

\* Who holds sSessionMutex.
Locks ==
  /\ gc \in {"collect", "join", "delete"} <=> sSessionMutex = "gc"
  /\ \A a \in Apps : ap[a] \in {"joinCt", "joinRecv", "deinit"} <=> sSessionMutex = a

\* A call has a client where it uses one, and so has the garbage collection; a
\* client that is being logged out still has its reference.
Calls ==
  /\ \A a \in Apps :
       /\ ap[a] \in {"push", "readIndex", "writeIndex", "joinCt", "joinRecv"} <=>
            cur[a] # NoClient
       /\ ap[a] \in {"joinCt", "joinRecv"} => refCnt[cur[a]] = 1
  /\ gc \in {"join", "delete"} <=> gcClient # NoClient

Typed == TypeOK /\ Locks /\ Calls

\* The parts of TypeOK.
ApiTypes ==
  /\ sSessionIndex \in Nat
  /\ ap \in [Apps -> {"idle", "push", "readIndex", "writeIndex", "joinCt",
                      "joinRecv", "joinGc", "deinit", "over"}]
  /\ cur \in [Apps -> Clients \cup {NoClient}]
  /\ index \in [Apps -> Nat]

GcTypes ==
  /\ sGarbageCollectionThreadRun \in BOOLEAN
  /\ gc \in {"pop", "dec", "scan", "collect", "join", "delete", "exited"}
  /\ gcClient \in Clients \cup {NoClient}
  /\ gcHandle \in Nat

TableTypes ==
  /\ sSessionMutex \in {"free", "gc"} \cup Apps
  /\ sSessionList \in Seq(Clients)
  /\ handle \in [Clients -> Nat]
  /\ refCnt \in [Clients -> {0, 1}]

ClientTypes ==
  /\ client \in [Clients -> {"none", "alive", "deleted"}]
  /\ ct \in [Clients -> {"off", "connecting", "won", "loginQueued", "done"}]
  /\ recv \in [Clients -> {"off", "running", "wantLock", "exited"}]
  /\ mNeedBreakConnect \in [Clients -> BOOLEAN]
  /\ mCmdRecvThreadRun \in [Clients -> BOOLEAN]
  /\ mIsRsaLogin \in [Clients -> BOOLEAN]

CountTypes ==
  /\ asked \in [Clients -> Nat]
  /\ unasked \in [Clients -> Nat]
  /\ results \in [Clients -> Nat]

BrokenTypes ==
  /\ sBrokenSessionQueue \in Seq(Nat)
  /\ mHasBrokenDetected \in [Clients -> BOOLEAN]
  /\ early \in [Clients -> BOOLEAN]

LogoutTypes == logout \in [Clients -> {"none", "joined", "skipped"}]

LEMMA TypeParts ==
  TypeOK <=> /\ ApiTypes /\ GcTypes /\ TableTypes /\ ClientTypes /\ CountTypes
             /\ BrokenTypes /\ LogoutTypes
BY DEF TypeOK, ApiTypes, GcTypes, TableTypes, ClientTypes, CountTypes, BrokenTypes,
   LogoutTypes

----------------------------------------------------------------------------
(* Sequences                                                               *)

LEMMA Listed ==
  ASSUME Typed
  PROVE  /\ sSessionList \in Seq(Clients) /\ Len(sSessionList) \in Nat
         /\ DOMAIN sSessionList = 1 .. Len(sSessionList)
         /\ \A i \in 1 .. Len(sSessionList) : sSessionList[i] \in Clients
         /\ sSessionList # << >> => /\ 1 \in 1 .. Len(sSessionList)
                                    /\ Head(sSessionList) = sSessionList[1]
<1>1. sSessionList \in Seq(Clients)
  BY DEF Typed, TypeOK
<1>2. sSessionList # << >> => Len(sSessionList) \in Nat \ {0}
  BY <1>1, EmptySeq
<1> QED  BY <1>1, <1>2, LenProperties, ElementOfSeq

\* What Erase does, place by place.
LEMMA Erased ==
  ASSUME Typed, NEW i \in 1 .. Len(sSessionList), Erase(i)
  PROVE  /\ sSessionList' \in Seq(Clients)
         /\ Len(sSessionList') = Len(sSessionList) - 1
         /\ \A j \in 1 .. Len(sSessionList') :
              sSessionList'[j] = sSessionList[IF j < i THEN j ELSE j + 1]
<1> DEFINE s == sSessionList
           u == SubSeq(s, 1, i - 1)
           v == SubSeq(s, i + 1, Len(s))
<1>1. Len(s) \in Nat /\ \A j \in 1 .. Len(s) : s[j] \in Clients
  BY Listed
<1>2. s' = u \o v
  BY DEF Erase
<1> HIDE DEF s
<1>3. i \in Nat /\ 1 <= i /\ i <= Len(s)
  BY <1>1 DEF s
<1>4. /\ u \in Seq(Clients) /\ Len(u) = i - 1
      /\ \A j \in 1 .. i - 1 : u[j] = s[j]
  <2>1. \A j \in 1 .. i - 1 : s[j] \in Clients
    BY <1>1, <1>3
  <2>2. /\ SubSeq(s, 1, i - 1) \in Seq(Clients)
        /\ Len(SubSeq(s, 1, i - 1)) = IF 1 <= i - 1 THEN (i - 1) - 1 + 1 ELSE 0
        /\ \A j \in 1 .. (i - 1) - 1 + 1 : SubSeq(s, 1, i - 1)[j] = s[1 + j - 1]
    BY <1>3, <2>1, SubSeqProperties
  <2> QED  BY <1>3, <2>2
<1>5. /\ v \in Seq(Clients) /\ Len(v) = Len(s) - i
      /\ \A j \in 1 .. Len(s) - i : v[j] = s[i + j]
  <2>1. \A j \in i + 1 .. Len(s) : s[j] \in Clients
    BY <1>1, <1>3
  <2>2. /\ SubSeq(s, i + 1, Len(s)) \in Seq(Clients)
        /\ Len(SubSeq(s, i + 1, Len(s))) =
             IF i + 1 <= Len(s) THEN Len(s) - (i + 1) + 1 ELSE 0
        /\ \A j \in 1 .. Len(s) - (i + 1) + 1 :
             SubSeq(s, i + 1, Len(s))[j] = s[(i + 1) + j - 1]
    BY <1>1, <1>3, <2>1, SubSeqProperties
  <2> QED  BY <1>1, <1>3, <2>2
<1> HIDE DEF u, v
<1>6. /\ u \o v \in Seq(Clients) /\ Len(u \o v) = Len(s) - 1
      /\ \A j \in 1 .. Len(s) - 1 : (u \o v)[j] = IF j <= i - 1 THEN u[j] ELSE v[j - (i - 1)]
  <2>1. /\ u \o v \in Seq(Clients) /\ Len(u \o v) = Len(u) + Len(v)
        /\ \A j \in 1 .. Len(u) + Len(v) :
             (u \o v)[j] = IF j <= Len(u) THEN u[j] ELSE v[j - Len(u)]
    BY <1>4, <1>5, ConcatProperties
  <2> QED  BY <1>1, <1>3, <1>4, <1>5, <2>1
<1>7. ASSUME NEW j \in 1 .. Len(s) - 1
      PROVE  (u \o v)[j] = s[IF j < i THEN j ELSE j + 1]
  <2>1. CASE j < i
    BY <1>1, <1>3, <1>4, <1>6, <2>1
  <2>2. CASE ~(j < i)
    <3>1. j - (i - 1) \in 1 .. Len(s) - i /\ i + (j - (i - 1)) = j + 1 /\ ~(j <= i - 1)
      BY <1>1, <1>3, <2>2
    <3> QED  BY <1>5, <1>6, <2>2, <3>1
  <2> QED  BY <2>1, <2>2
<1> QED  BY <1>2, <1>6, <1>7 DEF s

----------------------------------------------------------------------------
(* Types                                                                   *)

LEMMA InitTyped == Init => Typed
<1> SUFFICES ASSUME Init PROVE Typed
  OBVIOUS
<1>1. ApiTypes /\ GcTypes /\ ClientTypes /\ CountTypes /\ LogoutTypes
  BY DEF Init, ApiTypes, GcTypes, ClientTypes, CountTypes, LogoutTypes
<1>2. TableTypes /\ BrokenTypes
  BY EmptySeq DEF Init, TableTypes, BrokenTypes
<1>3. Locks /\ Calls
  BY SessionsAssumption DEF Init, Locks, Calls
<1> QED  BY <1>1, <1>2, <1>3, TypeParts DEF Typed

ApiStep ==
  \/ \E a \in Apps, c \in Clients : Login(a, c) \/ Logout(a, c)
  \/ \E a \in Apps : DeInitialize(a) \/ AppCall(a)

ClientStep == \E c \in Clients : ConnectTime(c) \/ CmdRecv(c) \/ Link(c)

\* An EC_Logout that skips its session changes nothing but the history.
LEMMA Cases ==
  ASSUME [Next]_vars
  PROVE  ApiStep \/ Gc \/ ClientStep \/ UNCHANGED codeVars
BY DEF Next, ApiStep, ClientStep, Over, LogoutSkips, vars

\* The threads of a client leave calls, garbage collection and table alone.
LEMMA ClientLeaves ==
  ASSUME ClientStep
  PROVE  UNCHANGED <<sSessionIndex, apiVars, gcVars, tableVars, client, mNeedBreakConnect,
                     logout>>
BY DEF ClientStep, ConnectTime, ConnectWins, ConnectFails, SendLoginCmd, StartRecv, CmdRecv,
   RetryLogin, RecvExits, Link, LoginAnswer, RecvBroken, SenderBroken, ThreadUnchanged

LEMMA GcLeaves ==
  ASSUME Gc
  PROVE  UNCHANGED <<sSessionIndex, apiVars, handle, ct, recv, mNeedBreakConnect, unasked,
                     results, early, logout>>
BY DEF Gc, GcPop, GcDecrements, GcScans, GcCollects, GcDeletes, GcUnlocks, GcExits,
   GcUnchanged

LEMMA StepApiTypes == Typed /\ [Next]_vars => ApiTypes'
<1> SUFFICES ASSUME Typed, [Next]_vars PROVE ApiTypes'
  OBVIOUS
<1>0. ApiTypes /\ TableTypes
  BY TypeParts DEF Typed
<1> USE DEF Set, ApiTypes, gcVars, tableVars
<1>1. ASSUME NEW a \in Apps, NEW c \in Clients, Login(a, c) \/ Logout(a, c)
      PROVE  ApiTypes'
  BY <1>0, <1>1 DEF Login, Logout
<1>2. ASSUME NEW a \in Apps, DeInitialize(a)
      PROVE  ApiTypes'
  BY <1>0, <1>2 DEF DeInitialize
<1>3. ASSUME NEW a \in Apps, AppCall(a)
      PROVE  ApiTypes'
  <2>1. CASE LoginPush(a) \/ LoginReadIndex(a) \/ LoginWriteIndex(a)
    BY <1>0, <2>1 DEF LoginPush, LoginReadIndex, LoginWriteIndex, Incremented
  <2>2. CASE LogoutJoinsCt(a) \/ LogoutJoinsRecv(a)
    BY <1>0, <2>2 DEF LogoutJoinsCt, LogoutJoinsRecv
  <2>3. CASE DeInitLocks(a) \/ DeInitLogsOut(a) \/ DeInitDeletes(a) \/ DeInitEnds(a)
    BY <1>0, <2>3 DEF DeInitLocks, DeInitLogsOut, DeInitDeletes, DeInitEnds, apiVars
  <2> QED  BY <1>3, <2>1, <2>2, <2>3 DEF AppCall
<1>4. ASSUME UNCHANGED <<sSessionIndex, apiVars>>
      PROVE  ApiTypes'
  BY <1>0, <1>4 DEF apiVars
<1> QED  BY <1>1, <1>2, <1>3, <1>4, Cases, ClientLeaves, GcLeaves DEF ApiStep, codeVars

LEMMA StepGcTypes == Typed /\ [Next]_vars => GcTypes'
<1> SUFFICES ASSUME Typed, [Next]_vars PROVE GcTypes'
  OBVIOUS
<1>0. GcTypes /\ BrokenTypes
  BY TypeParts DEF Typed
<1> USE DEF GcTypes
<1>1. CASE GcPop
  <2>1. sBrokenSessionQueue # << >> => Head(sBrokenSessionQueue) \in Nat
    BY <1>0, HeadTailProperties DEF BrokenTypes
  <2> QED  BY <1>0, <1>1, <2>1 DEF GcPop, GcUnchanged
<1>2. CASE GcCollects
  <2>1. PICK i \in Collectable : gcClient' = sSessionList[i]
    BY <1>2 DEF GcCollects
  <2>2. gcClient' \in Clients
    BY <2>1, Listed DEF Collectable
  <2> QED  BY <1>0, <1>2, <2>2 DEF GcCollects, GcUnchanged
<1>3. CASE GcDecrements \/ GcScans \/ GcDeletes \/ GcUnlocks \/ GcExits
  BY <1>0, <1>3 DEF GcDecrements, GcScans, GcDeletes, GcUnlocks, GcExits, GcUnchanged
<1>4. CASE ApiStep
  BY <1>0, <1>4 DEF ApiStep, Login, Logout, DeInitialize, AppCall, LoginPush,
     LoginReadIndex, LoginWriteIndex, LogoutJoinsCt, LogoutJoinsRecv, DeInitLocks,
     DeInitLogsOut, DeInitDeletes, DeInitEnds, gcVars
<1>5. CASE ClientStep \/ UNCHANGED codeVars
  BY <1>0, <1>5, ClientLeaves DEF codeVars, gcVars
<1> QED  BY <1>1, <1>2, <1>3, <1>4, <1>5, Cases DEF Gc

LEMMA StepTableTypes == Typed /\ [Next]_vars => TableTypes'
<1> SUFFICES ASSUME Typed, [Next]_vars PROVE TableTypes'
  OBVIOUS
<1>0. TableTypes /\ ApiTypes /\ Calls
  BY TypeParts DEF Typed
<1> USE DEF TableTypes
<1>1. ASSUME NEW a \in Apps, NEW c \in Clients, Login(a, c) \/ Logout(a, c)
      PROVE  TableTypes'
  BY <1>0, <1>1 DEF Login, Logout, Set, ApiTypes
<1>2. ASSUME NEW a \in Apps, LoginPush(a)
      PROVE  TableTypes'
  <2>1. /\ sSessionList' = Append(sSessionList, cur[a]) /\ cur[a] \in Clients
        /\ refCnt' = [refCnt EXCEPT ![cur[a]] = 1]
        /\ UNCHANGED <<sSessionMutex, handle>>
    BY <1>0, <1>2 DEF LoginPush, Set, Calls, ApiTypes
  <2>2. sSessionList' \in Seq(Clients)
    BY <1>0, <2>1, AppendProperties
  <2> QED  BY <1>0, <2>1, <2>2
<1>3. ASSUME NEW a \in Apps, LogoutJoinsRecv(a)
      PROVE  TableTypes'
  <2>1. cur[a] \in Clients /\ refCnt[cur[a]] = 1
    BY <1>0, <1>3 DEF LogoutJoinsRecv, Calls, ApiTypes
  <2> QED  BY <1>0, <1>3, <2>1 DEF LogoutJoinsRecv, DropRef, Set
<1>4. ASSUME NEW a \in Apps, DeInitDeletes(a)
      PROVE  TableTypes'
  <2>1. sSessionList' \in Seq(Clients)
    BY <1>0, <1>4, HeadTailProperties DEF DeInitDeletes
  <2> QED  BY <1>0, <1>4, <2>1 DEF DeInitDeletes
<1>5. ASSUME NEW a \in Apps,
             \/ DeInitialize(a) \/ LoginReadIndex(a) \/ LoginWriteIndex(a)
             \/ LogoutJoinsCt(a) \/ DeInitLocks(a) \/ DeInitLogsOut(a) \/ DeInitEnds(a)
      PROVE  TableTypes'
  BY <1>0, <1>5 DEF DeInitialize, LoginReadIndex, LoginWriteIndex, LogoutJoinsCt,
     DeInitLocks, DeInitLogsOut, DeInitEnds, tableVars
<1>6. CASE GcDecrements
  BY <1>0, <1>6 DEF GcDecrements, GcUnchanged, Referenced
<1>7. CASE GcDeletes
  <2>1. sSessionList' \in Seq(Clients)
    BY <1>7, Listed, Erased DEF GcDeletes
  <2> QED  BY <1>0, <1>7, <2>1 DEF GcDeletes, GcUnchanged
<1>8. CASE GcPop \/ GcScans \/ GcCollects \/ GcUnlocks \/ GcExits
  BY <1>0, <1>8 DEF GcPop, GcScans, GcCollects, GcUnlocks, GcExits, GcUnchanged
<1>9. CASE ClientStep \/ UNCHANGED codeVars
  BY <1>0, <1>9, ClientLeaves DEF codeVars, tableVars
<1> QED  BY <1>1, <1>2, <1>3, <1>4, <1>5, <1>6, <1>7, <1>8, <1>9, Cases
            DEF ApiStep, AppCall, Gc

LEMMA StepClientTypes == Typed /\ [Next]_vars => ClientTypes'
<1> SUFFICES ASSUME Typed, [Next]_vars PROVE ClientTypes'
  OBVIOUS
<1>0. ClientTypes /\ ApiTypes /\ GcTypes /\ Calls
  BY TypeParts DEF Typed
<1> USE DEF ClientTypes, Set
<1>1. ASSUME NEW a \in Apps, NEW c \in Clients, Login(a, c) \/ Logout(a, c)
      PROVE  ClientTypes'
  BY <1>0, <1>1 DEF Login, Logout, clientVars
<1>2. ASSUME NEW a \in Apps, LoginPush(a)
      PROVE  ClientTypes'
  BY <1>0, <1>2 DEF LoginPush
<1>3. ASSUME NEW a \in Apps, LogoutJoinsCt(a) \/ DeInitLogsOut(a)
      PROVE  ClientTypes'
  BY <1>0, <1>3 DEF LogoutJoinsCt, DeInitLogsOut, StopRecv
<1>4. ASSUME NEW a \in Apps, DeInitDeletes(a)
      PROVE  ClientTypes'
  BY <1>0, <1>4 DEF DeInitDeletes, Delete
<1>5. ASSUME NEW a \in Apps,
             \/ DeInitialize(a) \/ LoginReadIndex(a) \/ LoginWriteIndex(a)
             \/ LogoutJoinsRecv(a) \/ DeInitLocks(a) \/ DeInitEnds(a)
      PROVE  ClientTypes'
  BY <1>0, <1>5 DEF DeInitialize, LoginReadIndex, LoginWriteIndex, LogoutJoinsRecv,
     DeInitLocks, DeInitEnds, clientVars
<1>6. CASE GcCollects \/ GcDeletes
  BY <1>0, <1>6 DEF GcCollects, GcDeletes, GcUnchanged, FieldsUnchanged, StopRecv, Delete
<1>7. CASE GcPop \/ GcDecrements \/ GcScans \/ GcUnlocks \/ GcExits
  BY <1>0, <1>7 DEF GcPop, GcDecrements, GcScans, GcUnlocks, GcExits, GcUnchanged,
     FieldsUnchanged
<1>8. ASSUME NEW c \in Clients, ConnectTime(c)
      PROVE  ClientTypes'
  BY <1>0, <1>8 DEF ConnectTime, ConnectWins, ConnectFails, SendLoginCmd, StartRecv,
     ThreadUnchanged
<1>9. ASSUME NEW c \in Clients, CmdRecv(c)
      PROVE  ClientTypes'
  <2>1. CASE RetryLogin(c)
    <3>1. mIsRsaLogin' \in [Clients -> BOOLEAN]
      BY <1>0, <2>1 DEF RetryLogin
    <3> QED  BY <1>0, <2>1, <3>1 DEF RetryLogin, ThreadUnchanged
  <2>2. CASE RecvExits(c)
    BY <1>0, <2>2 DEF RecvExits, ThreadUnchanged
  <2> QED  BY <1>9, <2>1, <2>2 DEF CmdRecv
<1>10. ASSUME NEW c \in Clients, Link(c)
       PROVE  ClientTypes'
  BY <1>0, <1>10 DEF Link, LoginAnswer, RecvBroken, SenderBroken, ThreadUnchanged
<1>11. CASE UNCHANGED codeVars
  BY <1>0, <1>11 DEF codeVars, clientVars
<1> QED  BY <1>1, <1>2, <1>3, <1>4, <1>5, <1>6, <1>7, <1>8, <1>9, <1>10, <1>11, Cases
            DEF ApiStep, AppCall, Gc, ClientStep

LEMMA StepCountTypes == Typed /\ [Next]_vars => CountTypes'
<1> SUFFICES ASSUME Typed, [Next]_vars PROVE CountTypes'
  OBVIOUS
<1>0. CountTypes /\ BrokenTypes
  BY TypeParts DEF Typed
<1> USE DEF CountTypes, Set
<1>1. ASSUME UNCHANGED <<asked, unasked, results>>
      PROVE  CountTypes'
  BY <1>0, <1>1
<1>2. ASSUME NEW d, Delete(d), UNCHANGED <<unasked, results>>
      PROVE  CountTypes'
  BY <1>0, <1>2 DEF Delete
<1>3. ASSUME NEW a \in Apps, DeInitDeletes(a)
      PROVE  CountTypes'
  BY <1>2, <1>3 DEF DeInitDeletes
<1>4. ASSUME ApiStep, \A a \in Apps : ~DeInitDeletes(a)
      PROVE  CountTypes'
  BY <1>1, <1>4 DEF ApiStep, Login, Logout, DeInitialize, AppCall, LoginPush,
     LoginReadIndex, LoginWriteIndex, LogoutJoinsCt, LogoutJoinsRecv, DeInitLocks,
     DeInitLogsOut, DeInitEnds, clientVars
<1>5. CASE GcDeletes
  BY <1>2, <1>5 DEF GcDeletes, GcUnchanged
<1>6. CASE GcPop \/ GcDecrements \/ GcScans \/ GcCollects \/ GcUnlocks \/ GcExits
  BY <1>1, <1>6 DEF GcPop, GcDecrements, GcScans, GcCollects, GcUnlocks, GcExits,
     GcUnchanged, FieldsUnchanged
<1>7. ASSUME NEW c \in Clients, ConnectTime(c) \/ RecvExits(c)
      PROVE  CountTypes'
  BY <1>0, <1>7 DEF ConnectTime, ConnectWins, ConnectFails, SendLoginCmd, StartRecv,
     RecvExits
<1>8. ASSUME NEW c \in Clients, RetryLogin(c)
      PROVE  CountTypes'
  <2>1. \E queued : asked' = [d \in Clients |->
                                IF d \in queued THEN asked[d] + 1 ELSE asked[d]]
    BY <1>8 DEF RetryLogin
  <2>2. UNCHANGED results \/ results' = [results EXCEPT ![c] = results[c] + 1]
    BY <1>8 DEF RetryLogin
  <2>3. asked' \in [Clients -> Nat]
    BY <1>0, <2>1
  <2>4. results' \in [Clients -> Nat] /\ unasked' \in [Clients -> Nat]
    BY <1>0, <1>8, <2>2 DEF RetryLogin
  <2> QED  BY <2>3, <2>4
<1>9. ASSUME NEW c \in Clients, LoginAnswer(c)
      PROVE  CountTypes'
  <2>1. results' \in [Clients -> Nat]
    BY <1>0, <1>9 DEF LoginAnswer
  <2>2. asked' \in [Clients -> Nat] /\ unasked' \in [Clients -> Nat]
    BY <1>0, <1>9 DEF LoginAnswer
  <2> QED  BY <2>1, <2>2
<1>10. ASSUME NEW c \in Clients, RecvBroken(c) \/ SenderBroken(c)
       PROVE  CountTypes'
  BY <1>1, <1>10 DEF RecvBroken, SenderBroken
<1>11. CASE UNCHANGED codeVars
  BY <1>1, <1>11 DEF codeVars, clientVars
<1> QED  BY <1>3, <1>4, <1>5, <1>6, <1>7, <1>8, <1>9, <1>10, <1>11, Cases
            DEF ClientStep, CmdRecv, Link, Gc

LEMMA StepBrokenTypes == Typed /\ [Next]_vars => BrokenTypes'
<1> SUFFICES ASSUME Typed, [Next]_vars PROVE BrokenTypes'
  OBVIOUS
<1>0. BrokenTypes /\ TableTypes
  BY TypeParts DEF Typed
<1> USE DEF BrokenTypes, Set
<1>1. CASE ApiStep
  BY <1>0, <1>1 DEF ApiStep, Login, Logout, DeInitialize, AppCall, LoginPush,
     LoginReadIndex, LoginWriteIndex, LogoutJoinsCt, LogoutJoinsRecv, DeInitLocks,
     DeInitLogsOut, DeInitDeletes, Delete, DeInitEnds, brokenVars
<1>2. CASE GcPop
  <2>1. sBrokenSessionQueue' \in Seq(Nat)
    BY <1>0, <1>2, HeadTailProperties DEF GcPop
  <2> QED  BY <1>0, <1>2, <2>1 DEF GcPop, GcUnchanged, FieldsUnchanged
<1>3. CASE GcDecrements \/ GcScans \/ GcCollects \/ GcDeletes \/ GcUnlocks \/ GcExits
  BY <1>0, <1>3 DEF GcDecrements, GcScans, GcCollects, GcDeletes, Delete, GcUnlocks,
     GcExits, GcUnchanged, FieldsUnchanged
<1>4. ASSUME NEW c \in Clients, ConnectTime(c) \/ CmdRecv(c) \/ LoginAnswer(c)
      PROVE  BrokenTypes'
  BY <1>0, <1>4 DEF ConnectTime, ConnectWins, ConnectFails, SendLoginCmd, StartRecv,
     CmdRecv, RetryLogin, RecvExits, LoginAnswer, brokenVars
<1>5. ASSUME NEW c \in Clients, RecvBroken(c) \/ SenderBroken(c)
      PROVE  BrokenTypes'
  <2>1. handle[c] \in Nat
    BY <1>0 DEF TableTypes
  <2>2. Append(sBrokenSessionQueue, handle[c]) \in Seq(Nat)
    BY <1>0, <2>1, AppendProperties
  <2> QED  BY <1>0, <1>5, <2>2 DEF RecvBroken, SenderBroken, ReportBroken, brokenVars
<1>6. CASE UNCHANGED codeVars
  BY <1>0, <1>6 DEF codeVars, brokenVars
<1> QED  BY <1>1, <1>2, <1>3, <1>4, <1>5, <1>6, Cases DEF Gc, ClientStep, Link

\* What an EC_Logout that returns leaves behind.
LEMMA LogoutMoves ==
  ASSUME Typed, [Next]_vars, logout' # logout
  PROVE  \E a \in Apps, c \in Clients :
           \/ LogoutJoinsRecv(a) /\ cur[a] = c /\ logout' = [logout EXCEPT ![c] = "joined"]
           \/ LogoutSkips(a, c) /\ logout' = [logout EXCEPT ![c] = "skipped"]
<1>1. ASSUME NEW a \in Apps, NEW c \in Clients, Login(a, c) \/ Logout(a, c)
      PROVE  FALSE
  BY <1>1 DEF Login, Logout
<1>2. ASSUME NEW a \in Apps, DeInitialize(a) \/ (AppCall(a) /\ ~LogoutJoinsRecv(a))
      PROVE  FALSE
  BY <1>2 DEF DeInitialize, AppCall, LoginPush, LoginReadIndex, LoginWriteIndex,
     LogoutJoinsCt, DeInitLocks, DeInitLogsOut, DeInitDeletes, DeInitEnds
<1>3. ASSUME NEW a \in Apps, NEW c \in Clients, LogoutSkips(a, c)
      PROVE  logout' = [logout EXCEPT ![c] = "skipped"]
  BY <1>3 DEF LogoutSkips, Set
<1>4. ASSUME NEW a \in Apps, LogoutJoinsRecv(a)
      PROVE  /\ logout' = [logout EXCEPT ![cur[a]] = "joined"]
             /\ Typed => cur[a] \in Clients
  BY <1>4 DEF LogoutJoinsRecv, Set, Typed, Calls, TypeOK
<1> QED  BY <1>1, <1>2, <1>3, <1>4, GcLeaves, ClientLeaves DEF Next, Over, vars, ClientStep

LEMMA StepLogoutTypes == Typed /\ [Next]_vars => LogoutTypes'
BY TypeParts, LogoutMoves DEF Typed, LogoutTypes

LEMMA StepLocks == Typed /\ [Next]_vars => Locks'
<1> SUFFICES ASSUME Typed, [Next]_vars PROVE Locks'
  OBVIOUS
<1>0. /\ Locks /\ ApiTypes /\ GcTypes
      /\ \A a \in Apps : a # "free" /\ a # "gc"
  BY TypeParts, SessionsAssumption DEF Typed
<1> USE DEF Locks, Set, ApiTypes, GcTypes, gcVars, tableVars
<1>1. ASSUME NEW a \in Apps, NEW c \in Clients, Login(a, c) \/ Logout(a, c)
      PROVE  Locks'
  BY <1>0, <1>1 DEF Login, Logout
<1>2. ASSUME NEW a \in Apps,
             \/ DeInitialize(a) \/ LoginPush(a) \/ LoginReadIndex(a) \/ LoginWriteIndex(a)
      PROVE  Locks'
  BY <1>0, <1>2 DEF DeInitialize, LoginPush, LoginReadIndex, LoginWriteIndex
<1>3. ASSUME NEW a \in Apps, LogoutJoinsCt(a) \/ LogoutJoinsRecv(a)
      PROVE  Locks'
  BY <1>0, <1>3 DEF LogoutJoinsCt, LogoutJoinsRecv
<1>4. ASSUME NEW a \in Apps, DeInitLocks(a) \/ DeInitEnds(a)
      PROVE  Locks'
  BY <1>0, <1>4 DEF DeInitLocks, DeInitEnds
<1>5. ASSUME UNCHANGED <<ap, gc, sSessionMutex>>
      PROVE  Locks'
  BY <1>0, <1>5
<1>6. ASSUME NEW a \in Apps, DeInitLogsOut(a) \/ DeInitDeletes(a)
      PROVE  Locks'
  BY <1>5, <1>6 DEF DeInitLogsOut, DeInitDeletes, apiVars
<1>7. CASE Gc
  BY <1>0, <1>7, GcLeaves DEF Gc, GcPop, GcDecrements, GcScans, GcCollects, GcDeletes,
     GcUnlocks, GcExits, apiVars
<1>8. CASE ClientStep \/ UNCHANGED codeVars
  BY <1>5, <1>8, ClientLeaves DEF codeVars, apiVars
<1> QED  BY <1>1, <1>2, <1>3, <1>4, <1>6, <1>7, <1>8, Cases DEF ApiStep, AppCall

LEMMA StepCalls == Typed /\ [Next]_vars => Calls'
<1> SUFFICES ASSUME Typed, [Next]_vars PROVE Calls'
  OBVIOUS
<1>0. /\ Calls /\ Locks /\ ApiTypes /\ GcTypes /\ TableTypes
      /\ NoClient \notin Clients
      /\ \A a \in Apps : a # "free" /\ a # "gc"
  BY TypeParts, SessionsAssumption DEF Typed, Clients, NoClient
<1>1. ASSUME UNCHANGED <<gc, gcClient, refCnt>>, NEW a \in Apps,
             ap'[a] \in {"push", "readIndex", "writeIndex", "joinCt", "joinRecv"} <=>
               cur'[a] # NoClient,
             ap'[a] \in {"joinCt", "joinRecv"} => refCnt[cur'[a]] = 1,
             \A b \in Apps \ {a} : ap'[b] = ap[b] /\ cur'[b] = cur[b]
      PROVE  Calls'
  BY <1>0, <1>1 DEF Calls
<1> USE DEF Set, ApiTypes, gcVars, tableVars
<1>2. ASSUME NEW a \in Apps, NEW c \in Clients, Login(a, c)
      PROVE  Calls'
  BY <1>0, <1>1, <1>2 DEF Login
<1>3. ASSUME NEW a \in Apps, NEW c \in Clients, Logout(a, c)
      PROVE  Calls'
  <2>1. refCnt[c] = 1
    BY <1>0, <1>3 DEF Logout, Referenced, TableTypes
  <2> QED  BY <1>0, <1>1, <1>3, <2>1 DEF Logout
<1>4. ASSUME NEW a \in Apps, LoginPush(a)
      PROVE  Calls'
  <2>1. /\ ap' = [ap EXCEPT ![a] = "readIndex"] /\ ap[a] = "push"
        /\ refCnt' = [refCnt EXCEPT ![cur[a]] = 1]
        /\ UNCHANGED <<cur, gc, gcClient>> /\ sSessionMutex = "free"
    BY <1>4 DEF LoginPush
  <2>2. \A b \in Apps : ap[b] \notin {"joinCt", "joinRecv"}
    BY <1>0, <2>1 DEF Locks
  <2> QED  BY <1>0, <2>1, <2>2 DEF Calls
<1>5. ASSUME NEW a \in Apps, DeInitialize(a)
      PROVE  Calls'
  BY <1>0, <1>1, <1>5 DEF DeInitialize, Calls
<1>6. ASSUME NEW a \in Apps,
             \/ LoginReadIndex(a) \/ LoginWriteIndex(a)
             \/ LogoutJoinsCt(a) \/ DeInitLocks(a) \/ DeInitEnds(a)
      PROVE  Calls'
  BY <1>0, <1>1, <1>6 DEF LoginReadIndex, LoginWriteIndex, LogoutJoinsCt, DeInitLocks,
     DeInitEnds, Calls
<1>7. ASSUME NEW a \in Apps, LogoutJoinsRecv(a)
      PROVE  Calls'
  <2>1. /\ ap' = [ap EXCEPT ![a] = "idle"] /\ ap[a] = "joinRecv"
        /\ cur' = [cur EXCEPT ![a] = NoClient] /\ UNCHANGED <<gc, gcClient>>
    BY <1>7 DEF LogoutJoinsRecv
  <2>2. \A b \in Apps \ {a} : ap[b] \notin {"joinCt", "joinRecv"}
    BY <1>0, <2>1 DEF Locks
  <2> QED  BY <1>0, <2>1, <2>2 DEF Calls
<1>8. ASSUME UNCHANGED <<ap, cur, gc, gcClient, refCnt>>
      PROVE  Calls'
  BY <1>0, <1>8 DEF Calls
<1>9. ASSUME NEW a \in Apps, DeInitLogsOut(a) \/ DeInitDeletes(a)
      PROVE  Calls'
  BY <1>8, <1>9 DEF DeInitLogsOut, DeInitDeletes, apiVars
<1>10. CASE Gc
  <2>1. UNCHANGED <<ap, cur>>
    BY <1>10, GcLeaves DEF apiVars
  <2>2. gc' \in {"join", "delete"} <=> gcClient' # NoClient
    <3>1. CASE GcCollects
      <4>1. PICK i \in Collectable : gcClient' = sSessionList[i]
        BY <3>1 DEF GcCollects
      <4>2. gcClient' \in Clients
        BY <4>1, Listed DEF Collectable
      <4> QED  BY <1>0, <3>1, <4>2 DEF GcCollects
    <3>2. CASE GcPop \/ GcDecrements \/ GcScans \/ GcDeletes \/ GcUnlocks \/ GcExits
      BY <1>0, <3>2 DEF GcPop, GcDecrements, GcScans, GcDeletes, GcUnlocks, GcExits, Calls
    <3> QED  BY <1>10, <3>1, <3>2 DEF Gc
  <2>3. UNCHANGED refCnt \/ sSessionMutex = "free"
    BY <1>10 DEF Gc, GcPop, GcDecrements, GcScans, GcCollects, GcDeletes, GcUnlocks, GcExits
  <2>4. sSessionMutex = "free" => \A a \in Apps : ap[a] \notin {"joinCt", "joinRecv"}
    BY <1>0 DEF Locks
  <2> QED  BY <1>0, <2>1, <2>2, <2>3, <2>4 DEF Calls
<1>11. CASE ClientStep \/ UNCHANGED codeVars
  BY <1>8, <1>11, ClientLeaves DEF codeVars, apiVars
<1> QED  BY <1>2, <1>3, <1>4, <1>5, <1>6, <1>7, <1>9, <1>10, <1>11, Cases
            DEF ApiStep, AppCall

LEMMA StepTyped == Typed /\ [Next]_vars => Typed'
<1>1. ASSUME Typed, [Next]_vars PROVE TypeOK'
  BY <1>1, StepApiTypes, StepGcTypes, StepTableTypes, StepClientTypes, StepCountTypes,
     StepBrokenTypes, StepLogoutTypes
     DEF TypeOK, ApiTypes, GcTypes, TableTypes, ClientTypes, CountTypes, BrokenTypes,
         LogoutTypes
<1> QED  BY <1>1, StepLocks, StepCalls DEF Typed

\* Every variable keeps its type; in particular no reference is given up twice.
THEOREM TypeCorrect == Spec => []TypeOK
<1>1. Typed => TypeOK
  BY DEF Typed
<1> QED  BY <1>1, InitTyped, StepTyped, PTL DEF Spec

----------------------------------------------------------------------------
(* The list                                                                *)

InList(c) == \E i \in 1 .. Len(sSessionList) : sSessionList[i] = c

Distinct == \A i, j \in 1 .. Len(sSessionList) : sSessionList[i] = sSessionList[j] => i = j

\* Nothing has happened to the client yet.
Fresh(c) ==
  /\ ct[c] = "off" /\ recv[c] = "off" /\ ~mNeedBreakConnect[c] /\ ~mHasBrokenDetected[c]
  /\ asked[c] = 0 /\ results[c] = 0

Pushing(a, c) == ap[a] = "push" /\ cur[a] = c

\* The list holds the clients that exist, each once, but for those that a login
\* is about to add; what is logged out or collected is in the list.
Table ==
  /\ Distinct
  /\ \A c \in Clients :
       /\ InList(c) => client[c] = "alive"
       /\ client[c] = "alive" => InList(c) \/ \E a \in Apps : Pushing(a, c)
       /\ client[c] = "none" => Fresh(c)
  /\ \A a \in Apps : \A c \in Clients :
       /\ Pushing(a, c) => /\ client[c] = "alive" /\ ~InList(c) /\ Fresh(c)
                           /\ \A b \in Apps : Pushing(b, c) => b = a
       /\ ap[a] \in {"joinCt", "joinRecv"} /\ cur[a] = c => InList(c)
  /\ gcClient # NoClient => InList(gcClient)

\* A client leaves the list when it is deleted.
Leaves(d) ==
  /\ InList(d) /\ Distinct'
  /\ \A c \in Clients : InList(c)' <=> InList(c) /\ c # d
  /\ client' = [client EXCEPT ![d] = "deleted"]
  /\ mHasBrokenDetected' = [mHasBrokenDetected EXCEPT ![d] = FALSE]
  /\ asked' = [asked EXCEPT ![d] = 0]
  /\ UNCHANGED <<sSessionIndex, apiVars, ct, recv, unasked, results, mNeedBreakConnect,
                 early, handle, refCnt, gcHandle, sBrokenSessionQueue>>

LEMMA GcLeave ==
  ASSUME Typed, Table, GcDeletes
  PROVE  Leaves(gcClient) /\ gcClient \in Clients /\ gcClient' = NoClient
<1>0. gcClient \in Clients
  BY DEF GcDeletes, Typed, TypeOK, Calls
<1>1. PICK i \in 1 .. Len(sSessionList) : sSessionList[i] = gcClient /\ Erase(i)
  BY Listed DEF GcDeletes
<1>2. /\ Len(sSessionList') = Len(sSessionList) - 1 /\ Len(sSessionList) \in Nat
      /\ \A j \in 1 .. Len(sSessionList') :
           sSessionList'[j] = sSessionList[IF j < i THEN j ELSE j + 1]
  BY <1>1, Erased, Listed
<1>3. \A j, k \in 1 .. Len(sSessionList) : sSessionList[j] = sSessionList[k] => j = k
  BY DEF Table, Distinct
<1>4. ASSUME NEW j \in 1 .. Len(sSessionList')
      PROVE  /\ (IF j < i THEN j ELSE j + 1) \in 1 .. Len(sSessionList)
             /\ (IF j < i THEN j ELSE j + 1) # i
  BY <1>2
<1>5. Distinct'
  <2> SUFFICES ASSUME NEW j \in 1 .. Len(sSessionList'), NEW k \in 1 .. Len(sSessionList'),
                      sSessionList'[j] = sSessionList'[k]
               PROVE  j = k
    BY DEF Distinct
  <2>1. (IF j < i THEN j ELSE j + 1) = (IF k < i THEN k ELSE k + 1)
    BY <1>2, <1>3, <1>4
  <2> QED  BY <1>2, <2>1
<1>6. ASSUME NEW c \in Clients
      PROVE  InList(c)' <=> InList(c) /\ c # gcClient
  <2>1. ASSUME InList(c)' PROVE InList(c) /\ c # gcClient
    <3>1. PICK j \in 1 .. Len(sSessionList') : sSessionList'[j] = c
      BY <2>1 DEF InList
    <3>2. c = sSessionList[IF j < i THEN j ELSE j + 1]
      BY <1>2, <3>1
    <3> QED  BY <1>1, <1>3, <1>4, <3>2 DEF InList
  <2>2. ASSUME InList(c), c # gcClient PROVE InList(c)'
    <3>1. PICK j \in 1 .. Len(sSessionList) : sSessionList[j] = c
      BY <2>2 DEF InList
    <3>2. j # i
      BY <1>1, <2>2, <3>1
    <3>3. CASE j < i
      <4>1. j \in 1 .. Len(sSessionList') /\ sSessionList'[j] = c
        BY <1>2, <3>1, <3>3
      <4> QED  BY <4>1 DEF InList
    <3>4. CASE j > i
      <4>1. j - 1 \in 1 .. Len(sSessionList') /\ ~(j - 1 < i) /\ (j - 1) + 1 = j
        BY <1>2, <3>4
      <4>2. sSessionList'[j - 1] = c
        BY <1>2, <3>1, <4>1
      <4> QED  BY <4>1, <4>2 DEF InList
    <3> QED  BY <1>2, <3>2, <3>3, <3>4
  <2> QED  BY <2>1, <2>2
<1>7. InList(gcClient)
  BY <1>1 DEF InList
<1> QED  BY <1>0, <1>5, <1>6, <1>7
            DEF Leaves, GcDeletes, GcUnchanged, Delete, Set, apiVars

LEMMA DeInitLeaves ==
  ASSUME Typed, Table, NEW a \in Apps, DeInitDeletes(a)
  PROVE  /\ Leaves(Head(sSessionList)) /\ Head(sSessionList) \in Clients
         /\ UNCHANGED gcClient
<1> DEFINE d == Head(sSessionList)
<1>1. sSessionList # << >> /\ sSessionList' = Tail(sSessionList)
  BY DEF DeInitDeletes
<1>2. /\ d \in Clients /\ d = sSessionList[1] /\ 1 \in 1 .. Len(sSessionList)
      /\ Len(sSessionList) \in Nat /\ Len(sSessionList') = Len(sSessionList) - 1
      /\ \A j \in 1 .. Len(sSessionList') : sSessionList'[j] = sSessionList[j + 1]
  BY <1>1, Listed, HeadTailProperties
<1>3. \A j, k \in 1 .. Len(sSessionList) : sSessionList[j] = sSessionList[k] => j = k
  BY DEF Table, Distinct
<1> HIDE DEF d
<1>4. Distinct'
  <2> SUFFICES ASSUME NEW j \in 1 .. Len(sSessionList'), NEW k \in 1 .. Len(sSessionList'),
                      sSessionList'[j] = sSessionList'[k]
               PROVE  j = k
    BY DEF Distinct
  <2>1. j + 1 = k + 1
    BY <1>2, <1>3
  <2> QED  BY <1>2, <2>1
<1>5. ASSUME NEW c \in Clients
      PROVE  InList(c)' <=> InList(c) /\ c # d
  <2>1. ASSUME InList(c)' PROVE InList(c) /\ c # d
    <3>1. PICK j \in 1 .. Len(sSessionList') : sSessionList'[j] = c
      BY <2>1 DEF InList
    <3>2. j + 1 \in 1 .. Len(sSessionList) /\ j + 1 # 1 /\ c = sSessionList[j + 1]
      BY <1>2, <3>1
    <3> QED  BY <1>2, <1>3, <3>2 DEF InList
  <2>2. ASSUME InList(c), c # d PROVE InList(c)'
    <3>1. PICK j \in 1 .. Len(sSessionList) : sSessionList[j] = c
      BY <2>2 DEF InList
    <3>2. j # 1
      BY <1>2, <2>2, <3>1
    <3>3. j - 1 \in 1 .. Len(sSessionList') /\ (j - 1) + 1 = j
      BY <1>2, <3>2
    <3>4. sSessionList'[j - 1] = c
      BY <1>2, <3>1, <3>3
    <3> QED  BY <3>3, <3>4 DEF InList
  <2> QED  BY <2>1, <2>2
<1>6. InList(d)
  BY <1>2 DEF InList
<1>7. Leaves(d)
  BY <1>4, <1>5, <1>6
     DEF Leaves, DeInitDeletes, Delete, Set, gcVars, apiVars, d
<1> QED  BY <1>2, <1>7 DEF DeInitDeletes, gcVars, d

\* A login adds its client.
LEMMA PushAdds ==
  ASSUME Typed, Table, NEW a \in Apps, LoginPush(a)
  PROVE  /\ cur[a] \in Clients /\ Distinct' /\ ~InList(cur[a])
         /\ \A c \in Clients : InList(c)' <=> InList(c) \/ c = cur[a]
<1>1. cur[a] \in Clients
  BY DEF LoginPush, Typed, TypeOK, Calls
<1>2. ~InList(cur[a])
  BY <1>1 DEF LoginPush, Table, Pushing
<1>3. sSessionList' = Append(sSessionList, cur[a])
  BY DEF LoginPush
<1>4. /\ Len(sSessionList') = Len(sSessionList) + 1 /\ Len(sSessionList) \in Nat
      /\ sSessionList'[Len(sSessionList) + 1] = cur[a]
      /\ \A j \in 1 .. Len(sSessionList) : sSessionList'[j] = sSessionList[j]
  BY <1>1, <1>3, Listed, AppendProperties
<1>5. \A j \in 1 .. Len(sSessionList') : j \in 1 .. Len(sSessionList)
                                         \/ j = Len(sSessionList) + 1
  BY <1>4
<1>6. Distinct'
  BY <1>2, <1>4, <1>5 DEF Table, Distinct, InList
<1>7. ASSUME NEW c \in Clients
      PROVE  InList(c)' <=> InList(c) \/ c = cur[a]
  BY <1>4, <1>5 DEF InList
<1> QED  BY <1>1, <1>2, <1>6, <1>7

\* Looking a handle up finds a session of the list that has it.
LEMMA FirstListed ==
  ASSUME Typed, NEW h, NEW c \in FirstWith(h)
  PROVE  c \in Clients /\ InList(c) /\ handle[c] = h
<1>1. PICK i \in 1 .. Len(sSessionList) : c = sSessionList[i] /\ handle[sSessionList[i]] = h
  BY Listed DEF FirstWith
<1> QED  BY <1>1, Listed DEF InList

LEMMA InitTable == Init => Table
<1> SUFFICES ASSUME Init PROVE Table
  OBVIOUS
<1>1. Len(sSessionList) = 0
  BY EmptySeq DEF Init
<1>2. \A c \in Clients : Fresh(c) /\ client[c] = "none"
  BY DEF Init, Fresh
<1>3. gcClient = NoClient /\ \A a \in Apps : ap[a] = "idle"
  BY DEF Init
<1> QED  BY <1>1, <1>2, <1>3 DEF Table, Distinct, InList, Pushing

\* A client that is in nobody's list is left alone.
LEMMA FreshStays ==
  ASSUME Typed, Table, [Next]_vars, NEW c \in Clients, Fresh(c), ~InList(c),
         \A a \in Apps : LoginPush(a) => cur[a] # c
  PROVE  Fresh(c)'
<1>0. ApiTypes /\ ClientTypes /\ CountTypes /\ BrokenTypes
  BY TypeParts DEF Typed
<1> USE DEF Fresh, Set
<1>1. ASSUME NEW a \in Apps, NEW d \in Clients, Login(a, d) \/ Logout(a, d)
      PROVE  Fresh(c)'
  <2>1. CASE Login(a, d)
    BY <2>1 DEF Login, clientVars, brokenVars
  <2>2. CASE Logout(a, d)
    <3>1. InList(d)
      BY <2>2, FirstListed DEF Logout
    <3> QED  BY <1>0, <2>2, <3>1 DEF Logout, brokenVars, ClientTypes
  <2> QED  BY <1>1, <2>1, <2>2
<1>2. ASSUME NEW a \in Apps, LoginPush(a)
      PROVE  Fresh(c)'
  BY <1>0, <1>2 DEF LoginPush, brokenVars, ClientTypes
<1>3. ASSUME NEW a \in Apps, DeInitLogsOut(a)
      PROVE  Fresh(c)'
  <2>1. InList(Head(sSessionList))
    BY <1>3, Listed DEF DeInitLogsOut, InList
  <2> QED  BY <1>0, <1>3, <2>1 DEF DeInitLogsOut, brokenVars, ClientTypes
<1>4. ASSUME NEW d \in Clients, Leaves(d)
      PROVE  Fresh(c)'
  BY <1>0, <1>4 DEF Leaves, BrokenTypes, CountTypes
<1>5. ASSUME NEW a \in Apps,
             \/ DeInitialize(a) \/ LoginReadIndex(a) \/ LoginWriteIndex(a)
             \/ LogoutJoinsCt(a) \/ LogoutJoinsRecv(a) \/ DeInitLocks(a) \/ DeInitEnds(a)
      PROVE  Fresh(c)'
  BY <1>5 DEF DeInitialize, LoginReadIndex, LoginWriteIndex, LogoutJoinsCt,
     LogoutJoinsRecv, DeInitLocks, DeInitEnds, clientVars, brokenVars
<1>6. CASE GcPop \/ GcDecrements \/ GcScans \/ GcCollects \/ GcUnlocks \/ GcExits
  BY <1>6 DEF GcPop, GcDecrements, GcScans, GcCollects, GcUnlocks, GcExits, GcUnchanged,
     FieldsUnchanged
<1>7. ASSUME NEW d \in Clients, ConnectTime(d) \/ RecvExits(d) \/ Link(d)
      PROVE  Fresh(c)'
  <2>1. UNCHANGED mNeedBreakConnect
    BY <1>7 DEF ConnectTime, ConnectWins, ConnectFails, SendLoginCmd, StartRecv, RecvExits,
       Link, LoginAnswer, RecvBroken, SenderBroken, ThreadUnchanged
  <2>2. CASE d = c
    BY <1>7, <2>2 DEF ConnectTime, ConnectWins, ConnectFails, SendLoginCmd, StartRecv,
       RecvExits, Link, LoginAnswer, RecvBroken, SenderBroken
  <2>3. CASE d # c
    <3>1. ct'[c] = ct[c] /\ recv'[c] = recv[c]
      BY <1>0, <1>7, <2>3 DEF ConnectTime, ConnectWins, ConnectFails, SendLoginCmd,
         StartRecv, RecvExits, Link, LoginAnswer, RecvBroken, SenderBroken, ClientTypes
    <3>2. asked'[c] = asked[c] /\ results'[c] = results[c]
      BY <1>0, <1>7, <2>3 DEF ConnectTime, ConnectWins, ConnectFails, SendLoginCmd,
         StartRecv, RecvExits, Link, LoginAnswer, RecvBroken, SenderBroken, CountTypes
    <3>3. mHasBrokenDetected'[c] = mHasBrokenDetected[c]
      BY <1>0, <1>7, <2>3 DEF ConnectTime, ConnectWins, ConnectFails, SendLoginCmd,
         StartRecv, RecvExits, Link, LoginAnswer, RecvBroken, SenderBroken, ReportBroken,
         brokenVars, BrokenTypes
    <3> QED  BY <2>1, <3>1, <3>2, <3>3
  <2> QED  BY <2>2, <2>3
<1>8. ASSUME NEW d \in Clients, RetryLogin(d)
      PROVE  Fresh(c)'
  <2>1. c \notin FirstWith(handle[d]) /\ c # d
    BY <1>8, FirstListed DEF RetryLogin
  <2>2. asked'[c] = asked[c]
    BY <1>8, <2>1 DEF RetryLogin
  <2> QED  BY <1>0, <1>8, <2>1, <2>2 DEF RetryLogin, ThreadUnchanged, brokenVars, CountTypes,
              ClientTypes
<1>9. CASE UNCHANGED codeVars
  BY <1>9 DEF codeVars, clientVars, brokenVars
<1> QED  BY <1>1, <1>2, <1>3, <1>4, <1>5, <1>6, <1>7, <1>8, <1>9, Cases, GcLeave,
            DeInitLeaves DEF ApiStep, AppCall, Gc, ClientStep, CmdRecv

LEMMA StepTable == Typed /\ Table /\ [Next]_vars => Table'
<1> SUFFICES ASSUME Typed, Table, [Next]_vars PROVE Table'
  OBVIOUS
<1>0. ApiTypes /\ ClientTypes /\ Calls /\ Locks
  BY TypeParts DEF Typed
<1>1. \A c \in Clients : Fresh(c) /\ ~InList(c) /\ (\A a \in Apps : LoginPush(a) => cur[a] # c)
                         => Fresh(c)'
  BY FreshStays
<1>2. \A c \in Clients : client[c] = "none" => Fresh(c) /\ ~InList(c)
                                               /\ \A a \in Apps : ~Pushing(a, c)
  BY DEF Table
<1>3. \A a \in Apps : LoginPush(a) => Pushing(a, cur[a]) /\ cur[a] \in Clients
  BY <1>0, PushAdds DEF LoginPush, Pushing
<1>4. ASSUME UNCHANGED <<sSessionList, client>>,
             \A a \in Apps : ~LoginPush(a),
             \A a \in Apps, c \in Clients : Pushing(a, c)' <=> Pushing(a, c),
             \A a \in Apps, c \in Clients :
               ap'[a] \in {"joinCt", "joinRecv"} /\ cur'[a] = c => InList(c),
             gcClient' # NoClient => InList(gcClient')
      PROVE  Table'
  BY <1>1, <1>2, <1>4 DEF Table, Distinct, InList
<1>5. \A a \in Apps, c \in Clients :
        ap[a] \in {"joinCt", "joinRecv"} /\ cur[a] = c => InList(c)
  BY DEF Table
<1>6. gcClient # NoClient => InList(gcClient)
  BY DEF Table
<1> USE DEF Set
<1>7. ASSUME NEW a \in Apps, NEW c \in Clients, Login(a, c)
      PROVE  Table'
  <2>1. /\ ap' = [ap EXCEPT ![a] = "push"] /\ cur' = [cur EXCEPT ![a] = c]
        /\ client' = [client EXCEPT ![c] = "alive"] /\ client[c] = "none"
        /\ UNCHANGED <<sSessionList, gcClient>> /\ \A b \in Apps : ~LoginPush(b)
    BY <1>0, <1>7 DEF Login, gcVars, LoginPush, ApiTypes
  <2>2. \A b \in Apps, d \in Clients : Pushing(b, d)' <=>
          IF b = a THEN d = c ELSE Pushing(b, d)
    BY <1>0, <2>1 DEF Pushing, ApiTypes
  <2>3. \A d \in Clients : client'[d] = IF d = c THEN "alive" ELSE client[d]
    BY <1>0, <2>1 DEF ClientTypes
  <2>4. \A d \in Clients : InList(d)' <=> InList(d)
    BY <2>1 DEF InList
  <2>5. Fresh(c) /\ ~InList(c) /\ Fresh(c)' /\ \A b \in Apps : ~Pushing(b, c)
    BY <1>1, <1>2, <2>1
  <2>6. Distinct' /\ (gcClient' # NoClient => InList(gcClient)')
    BY <1>6, <2>1 DEF Table, Distinct, InList
  <2>7. \A b \in Apps, d \in Clients :
          ap'[b] \in {"joinCt", "joinRecv"} /\ cur'[b] = d => InList(d)'
    BY <1>0, <1>5, <2>1, <2>4 DEF ApiTypes
  <2>8. ~Pushing(a, cur[a])
    BY <1>7 DEF Login, Pushing
  <2>9. ASSUME NEW d \in Clients
        PROVE  /\ InList(d)' => client'[d] = "alive"
               /\ client'[d] = "alive" => InList(d)' \/ \E b \in Apps : Pushing(b, d)'
               /\ client'[d] = "none" => Fresh(d)'
    <3>1. CASE d = c
      BY <2>2, <2>3, <3>1
    <3>2. CASE d # c
      <4>1. client[d] = "alive" => InList(d) \/ \E b \in Apps : Pushing(b, d) /\ b # a
        BY <1>7 DEF Table, Login, Pushing
      <4> QED  BY <1>1, <1>2, <2>1, <2>2, <2>3, <2>4, <3>2, <4>1 DEF Table
    <3> QED  BY <3>1, <3>2
  <2>10. ASSUME NEW b \in Apps, NEW d \in Clients, Pushing(b, d)'
         PROVE  /\ client'[d] = "alive" /\ ~InList(d)' /\ Fresh(d)'
                /\ \A e \in Apps : Pushing(e, d)' => e = b
    <3>1. CASE b = a
      BY <2>2, <2>3, <2>4, <2>5, <2>10, <3>1
    <3>2. CASE b # a
      <4>1. Pushing(b, d) /\ d # c
        BY <2>2, <2>5, <2>10, <3>2
      <4>2. /\ client[d] = "alive" /\ ~InList(d) /\ Fresh(d)
            /\ \A e \in Apps : Pushing(e, d) => e = b
        BY <4>1 DEF Table
      <4> QED  BY <1>1, <2>1, <2>2, <2>3, <2>4, <4>1, <4>2
    <3> QED  BY <3>1, <3>2
  <2> QED  BY <2>6, <2>7, <2>9, <2>10 DEF Table
<1>8. ASSUME NEW a \in Apps, LoginPush(a)
      PROVE  Table'
  <2> DEFINE d == cur[a]
  <2>1. /\ d \in Clients /\ Distinct' /\ ~InList(d)
        /\ \A c \in Clients : InList(c)' <=> InList(c) \/ c = d
    BY <1>8, PushAdds
  <2>2. /\ ap' = [ap EXCEPT ![a] = "readIndex"] /\ ap[a] = "push"
        /\ UNCHANGED <<cur, client, gcClient>> /\ sSessionMutex = "free"
    BY <1>8 DEF LoginPush, gcVars
  <2>3. Pushing(a, d)
    BY <2>2 DEF Pushing
  <2> HIDE DEF d
  <2>4. \A b \in Apps, c \in Clients : Pushing(b, c)' <=> b # a /\ Pushing(b, c)
    BY <1>0, <2>2 DEF Pushing, ApiTypes
  <2>5. client[d] = "alive" /\ \A b \in Apps : Pushing(b, d) => b = a
    BY <2>1, <2>3 DEF Table
  <2>6. \A b \in Apps : LoginPush(b) => b = a
    BY <1>0, <1>8 DEF LoginPush, ApiTypes
  <2>7. \A c \in Clients : c # d /\ Fresh(c) /\ ~InList(c) => Fresh(c)'
    BY <1>1, <2>6 DEF d
  <2>8. gcClient = NoClient /\ \A b \in Apps : ap'[b] \notin {"joinCt", "joinRecv"}
    BY <1>0, <2>2, SessionsAssumption DEF Calls, Locks, ApiTypes
  <2>9. ASSUME NEW c \in Clients
        PROVE  /\ InList(c)' => client'[c] = "alive"
               /\ client'[c] = "alive" => InList(c)' \/ \E b \in Apps : Pushing(b, c)'
               /\ client'[c] = "none" => Fresh(c)'
    <3>1. client[c] = "alive" => InList(c) \/ c = d \/ \E b \in Apps : Pushing(b, c) /\ b # a
      BY <2>3 DEF Table, Pushing, d
    <3>2. InList(c) => client[c] = "alive"
      BY DEF Table
    <3> QED  BY <1>2, <2>1, <2>2, <2>4, <2>5, <2>7, <3>1, <3>2
  <2>10. ASSUME NEW b \in Apps, NEW c \in Clients, Pushing(b, c)'
         PROVE  /\ client'[c] = "alive" /\ ~InList(c)' /\ Fresh(c)'
                /\ \A e \in Apps : Pushing(e, c)' => e = b
    <3>1. b # a /\ Pushing(b, c) /\ c # d
      BY <2>4, <2>5, <2>10
    <3>2. /\ client[c] = "alive" /\ ~InList(c) /\ Fresh(c)
          /\ \A e \in Apps : Pushing(e, c) => e = b
      BY <3>1 DEF Table
    <3> QED  BY <2>1, <2>2, <2>4, <2>7, <3>1, <3>2
  <2> QED  BY <2>1, <2>2, <2>8, <2>9, <2>10 DEF Table
<1>9. ASSUME NEW d \in Clients, Leaves(d),
             gcClient' # NoClient => gcClient' = gcClient /\ gcClient # d,
             \A a \in Apps : ap[a] \notin {"joinCt", "joinRecv"}
      PROVE  Table'
  <2>1. /\ InList(d) /\ Distinct' /\ \A c \in Clients : InList(c)' <=> InList(c) /\ c # d
        /\ UNCHANGED <<ap, cur>>
    BY <1>9 DEF Leaves, apiVars
  <2>2. \A c \in Clients : client'[c] = IF c = d THEN "deleted" ELSE client[c]
    BY <1>0, <1>9 DEF Leaves, ClientTypes
  <2>3. \A a \in Apps, c \in Clients : Pushing(a, c)' <=> Pushing(a, c)
    BY <2>1 DEF Pushing
  <2>4. \A c \in Clients : Fresh(c) /\ ~InList(c) => Fresh(c)'
    <3>1. \A b \in Apps : ~LoginPush(b)
      BY <1>0, <2>1 DEF LoginPush, ApiTypes
    <3> QED  BY <1>1, <3>1
  <2>5. gcClient' # NoClient => InList(gcClient)' /\ gcClient' = gcClient
    <3>1. gcClient' # NoClient => gcClient \in Clients
      BY <1>9 DEF Typed, TypeOK
    <3> QED  BY <1>6, <1>9, <2>1, <3>1
  <2> QED  BY <1>2, <1>9, <2>1, <2>2, <2>3, <2>4, <2>5 DEF Table, InList
<1>10. CASE GcDeletes
  <2>1. \A a \in Apps : ap[a] \notin {"joinCt", "joinRecv"}
    BY <1>0, <1>10, SessionsAssumption DEF GcDeletes, Locks
  <2> QED  BY <1>9, <1>10, <2>1, GcLeave
<1>11. ASSUME NEW a \in Apps, DeInitDeletes(a)
       PROVE  Table'
  <2>1. sSessionMutex = a /\ a # "gc" /\ \A b \in Apps : ap[b] \notin {"joinCt", "joinRecv"}
    BY <1>0, <1>11, SessionsAssumption DEF DeInitDeletes, Locks
  <2>2. gcClient = NoClient
    BY <1>0, <2>1 DEF Locks, Calls
  <2> QED  BY <1>9, <1>11, <2>1, <2>2, DeInitLeaves
<1>12. ASSUME NEW a \in Apps, NEW c \in Clients, Logout(a, c)
       PROVE  Table'
  <2>1. InList(c)
    BY <1>12, FirstListed DEF Logout
  <2>2. UNCHANGED <<sSessionList, client, gcClient>> /\ \A b \in Apps : ~LoginPush(b)
    BY <1>12, <1>0 DEF Logout, LoginPush, ApiTypes, gcVars
  <2>3. \A b \in Apps, d \in Clients : Pushing(b, d)' <=> Pushing(b, d)
    BY <1>0, <1>12 DEF Logout, Pushing, ApiTypes
  <2>4. \A b \in Apps, d \in Clients :
               ap'[b] \in {"joinCt", "joinRecv"} /\ cur'[b] = d => InList(d)
    BY <1>0, <1>5, <1>12, <2>1 DEF Logout, ApiTypes
  <2> QED  BY <1>4, <1>6, <2>2, <2>3, <2>4
<1>13. ASSUME NEW a \in Apps,
              \/ DeInitialize(a) \/ LoginReadIndex(a) \/ LoginWriteIndex(a)
              \/ LogoutJoinsCt(a) \/ LogoutJoinsRecv(a) \/ DeInitLocks(a) \/ DeInitEnds(a)
              \/ DeInitLogsOut(a)
       PROVE  Table'
  <2>1. UNCHANGED <<sSessionList, client, gcClient>> /\ \A b \in Apps : ~LoginPush(b)
    BY <1>0, <1>13 DEF DeInitialize, LoginReadIndex, LoginWriteIndex, LogoutJoinsCt,
       LogoutJoinsRecv, DeInitLocks, DeInitEnds, DeInitLogsOut, LoginPush, ApiTypes,
       tableVars, gcVars, apiVars
  <2>2. \A b \in Apps, c \in Clients :
          /\ Pushing(b, c)' <=> Pushing(b, c)
          /\ ap'[b] \in {"joinCt", "joinRecv"} /\ cur'[b] = c =>
               ap[b] \in {"joinCt", "joinRecv"} /\ cur[b] = c
    BY <1>0, <1>13 DEF DeInitialize, LoginReadIndex, LoginWriteIndex, LogoutJoinsCt,
       LogoutJoinsRecv, DeInitLocks, DeInitEnds, DeInitLogsOut, Pushing, ApiTypes, apiVars
  <2> QED  BY <1>4, <1>5, <1>6, <2>1, <2>2
<1>14. CASE GcCollects
  <2>1. PICK i \in 1 .. Len(sSessionList) : gcClient' = sSessionList[i]
    BY <1>14, Listed DEF GcCollects, Collectable
  <2>2. InList(gcClient')
    BY <2>1 DEF InList
  <2>3. UNCHANGED <<sSessionList, client, ap, cur>> /\ \A b \in Apps : ~LoginPush(b)
    BY <1>0, <1>14, SessionsAssumption DEF GcCollects, GcUnchanged, LoginPush, Locks, apiVars
  <2> QED  BY <1>4, <1>5, <2>2, <2>3 DEF Pushing
<1>15. CASE GcPop \/ GcDecrements \/ GcScans \/ GcUnlocks \/ GcExits
  <2>1. UNCHANGED <<sSessionList, client, ap, cur, gcClient>>
    BY <1>15 DEF GcPop, GcDecrements, GcScans, GcUnlocks, GcExits, GcUnchanged, apiVars
  <2>2. \A b \in Apps : ~LoginPush(b)
    BY <1>0, <2>1 DEF LoginPush, Set, ApiTypes
  <2> QED  BY <1>4, <1>5, <1>6, <2>1, <2>2 DEF Pushing
<1>16. CASE ClientStep \/ UNCHANGED codeVars
  <2>1. UNCHANGED <<sSessionList, client, ap, cur, gcClient>>
    BY <1>16, ClientLeaves DEF codeVars, apiVars, tableVars, gcVars
  <2>2. \A b \in Apps : ~LoginPush(b)
    BY <1>0, <2>1 DEF LoginPush, Set, ApiTypes
  <2> QED  BY <1>4, <1>5, <1>6, <2>1, <2>2 DEF Pushing
<1> QED  BY <1>7, <1>8, <1>10, <1>11, <1>12, <1>13, <1>14, <1>15, <1>16, Cases
            DEF ApiStep, AppCall, Gc

\* Types, locks and the list, in one.
LEMMA TableHolds == Spec => [](Typed /\ Table)
BY InitTyped, InitTable, StepTyped, StepTable, PTL DEF Spec

----------------------------------------------------------------------------
(* What moves a client's threads                                           *)

\* LoginPush starts connectTimeThread, and only it moves on until it is done.
LEMMA CtMoves ==
  ASSUME Typed, [Next]_vars, NEW c \in Clients, ct'[c] # ct[c]
  PROVE  \/ \E a \in Apps : LoginPush(a) /\ cur[a] = c
         \/ ct[c] # "done" /\ client[c] = "alive" /\ (ct[c] = "loginQueued" <=> StartRecv(c))
<1>0. ClientTypes
  BY TypeParts DEF Typed
<1> USE DEF Set, ClientTypes
<1>1. ASSUME NEW a \in Apps, LoginPush(a)
      PROVE  cur[a] = c
  BY <1>0, <1>1 DEF LoginPush
<1>2. ASSUME NEW d \in Clients, ConnectTime(d)
      PROVE  /\ ct[c] # "done" /\ client[c] = "alive"
             /\ ct[c] = "loginQueued" <=> StartRecv(c)
  <2>1. d = c
    BY <1>0, <1>2 DEF ConnectTime, ConnectWins, ConnectFails, SendLoginCmd, StartRecv
  <2> QED  BY <1>2, <2>1 DEF ConnectTime, ConnectWins, ConnectFails, SendLoginCmd, StartRecv
<1>3. ASSUME NEW d \in Clients, CmdRecv(d) \/ Link(d)
      PROVE  UNCHANGED ct
  BY <1>3 DEF CmdRecv, RetryLogin, RecvExits, Link, LoginAnswer, RecvBroken, SenderBroken
<1>4. ASSUME ApiStep, \A a \in Apps : ~LoginPush(a)
      PROVE  UNCHANGED ct
  BY <1>4 DEF ApiStep, Login, Logout, DeInitialize, AppCall, LoginReadIndex,
     LoginWriteIndex, LogoutJoinsCt, LogoutJoinsRecv, DeInitLocks, DeInitLogsOut,
     DeInitDeletes, DeInitEnds, clientVars
<1> QED  BY <1>1, <1>2, <1>3, <1>4, Cases, GcLeaves DEF ClientStep, codeVars, clientVars

\* cmdRecvThread is started by connectTimeThread, and is over once it has ended.
LEMMA RecvMoves ==
  ASSUME Typed, [Next]_vars, NEW c \in Clients, recv'[c] # recv[c]
  PROVE  client[c] = "alive" /\ (ct[c] = "loginQueued" \/ recv[c] \in {"running", "wantLock"})
<1>0. ClientTypes
  BY TypeParts DEF Typed
<1> USE DEF Set, ClientTypes
<1>1. ASSUME NEW d \in Clients, ConnectTime(d)
      PROVE  client[c] = "alive" /\ ct[c] = "loginQueued"
  BY <1>0, <1>1 DEF ConnectTime, ConnectWins, ConnectFails, SendLoginCmd, StartRecv
<1>2. ASSUME NEW d \in Clients, CmdRecv(d) \/ Link(d)
      PROVE  client[c] = "alive" /\ recv[c] \in {"running", "wantLock"}
  <2>1. d = c
    BY <1>0, <1>2 DEF CmdRecv, RetryLogin, RecvExits, Link, LoginAnswer, RecvBroken,
       SenderBroken
  <2> QED  BY <1>0, <1>2, <2>1 DEF CmdRecv, RetryLogin, RecvExits, Link, LoginAnswer,
              RecvBroken, SenderBroken
<1>3. ASSUME ApiStep
      PROVE  UNCHANGED recv
  BY <1>3 DEF ApiStep, Login, Logout, DeInitialize, AppCall, LoginPush, LoginReadIndex,
     LoginWriteIndex, LogoutJoinsCt, LogoutJoinsRecv, DeInitLocks, DeInitLogsOut,
     DeInitDeletes, DeInitEnds, clientVars
<1> QED  BY <1>1, <1>2, <1>3, Cases, GcLeaves DEF ClientStep, codeVars, clientVars

\* A login result comes from one of the two threads before it has ended.
LEMMA ResultsMove ==
  ASSUME Typed, [Next]_vars, NEW c \in Clients, results'[c] # results[c]
  PROVE  /\ client[c] = "alive"
         /\ ct[c] \in {"connecting", "won"} \/ recv[c] \in {"running", "wantLock"}
<1>0. CountTypes
  BY TypeParts DEF Typed
<1> USE DEF Set, CountTypes
<1>1. ASSUME NEW d \in Clients, ConnectTime(d)
      PROVE  client[c] = "alive" /\ ct[c] \in {"connecting", "won"}
  BY <1>0, <1>1 DEF ConnectTime, ConnectWins, ConnectFails, SendLoginCmd, StartRecv
<1>2. ASSUME NEW d \in Clients, CmdRecv(d) \/ Link(d)
      PROVE  client[c] = "alive" /\ recv[c] \in {"running", "wantLock"}
  <2>1. d = c
    BY <1>0, <1>2 DEF CmdRecv, RetryLogin, RecvExits, Link, LoginAnswer, RecvBroken,
       SenderBroken
  <2> QED  BY <1>0, <1>2, <2>1 DEF CmdRecv, RetryLogin, RecvExits, Link, LoginAnswer,
              RecvBroken, SenderBroken
<1>3. ASSUME ApiStep
      PROVE  UNCHANGED results
  BY <1>3 DEF ApiStep, Login, Logout, DeInitialize, AppCall, LoginPush, LoginReadIndex,
     LoginWriteIndex, LogoutJoinsCt, LogoutJoinsRecv, DeInitLocks, DeInitLogsOut,
     DeInitDeletes, DeInitEnds, clientVars
<1> QED  BY <1>1, <1>2, <1>3, Cases, GcLeaves DEF ClientStep, codeVars, clientVars

\* Both threads of the client have ended.
Ended(c) == ct[c] = "done" /\ RecvEnded(c)

LEMMA DoneStays ==
  ASSUME Typed, Table, [Next]_vars, NEW c \in Clients, ct[c] = "done"
  PROVE  ct'[c] = "done"
<1>1. ASSUME NEW a \in Apps, LoginPush(a), cur[a] = c
      PROVE  FALSE
  BY <1>1 DEF LoginPush, Table, Pushing, Fresh
<1> QED  BY <1>1, CtMoves

LEMMA EndedStays ==
  ASSUME Typed, Table, [Next]_vars, NEW c \in Clients, Ended(c)
  PROVE  Ended(c)' /\ results'[c] = results[c]
<1>1. ct'[c] = "done"
  BY DoneStays DEF Ended
<1>2. recv'[c] = recv[c]
  BY RecvMoves DEF Ended, RecvEnded
<1>3. results'[c] = results[c]
  BY ResultsMove DEF Ended, RecvEnded
<1> QED  BY <1>1, <1>2, <1>3 DEF Ended, RecvEnded

----------------------------------------------------------------------------
(* Logging out                                                             *)

LogsOut(a, c) == ap[a] \in {"joinCt", "joinRecv"} /\ cur[a] = c

\* A client that was told to stop has ended, or a call is waiting for that.
Quiet ==
  /\ \A a \in Apps : ap[a] = "joinRecv" => ct[cur[a]] = "done"
  /\ \A c \in Clients : mNeedBreakConnect[c] =>
       \/ Ended(c)
       \/ \E a \in Apps : LogsOut(a, c)
       \/ InList(c) /\ \E a \in Apps : ap[a] = "deinit"

LEMMA InitQuiet == Init => Quiet
BY DEF Init, Quiet

LEMMA StepQuiet == Typed /\ Table /\ Quiet /\ [Next]_vars => Quiet'
<1> SUFFICES ASSUME Typed, Table, Quiet, [Next]_vars PROVE Quiet'
  OBVIOUS
<1>0. /\ ApiTypes /\ ClientTypes /\ TableTypes /\ Calls /\ Locks
      /\ NoClient \notin Clients
      /\ \A a \in Apps : a # "free" /\ a # "gc"
  BY TypeParts, SessionsAssumption DEF Typed, Clients, NoClient
<1>1. \A c \in Clients : /\ ct[c] = "done" => ct'[c] = "done"
                         /\ Ended(c) => Ended(c)'
  BY DoneStays, EndedStays
<1>2. ASSUME \A c \in Clients : mNeedBreakConnect'[c] => mNeedBreakConnect[c] \/ Ended(c)',
             \A a \in Apps, c \in Clients :
               /\ LogsOut(a, c) => LogsOut(a, c)' \/ Ended(c)'
               /\ ap[a] = "deinit" => (InList(c) => InList(c)' \/ Ended(c)')
                                      /\ ap'[a] = "deinit",
             \A a \in Apps : ap'[a] = "joinRecv" => ap[a] = "joinRecv" /\ cur'[a] = cur[a]
      PROVE  Quiet'
  <2>1. ASSUME NEW a \in Apps, ap'[a] = "joinRecv"
        PROVE  ct'[cur'[a]] = "done"
    <3>1. cur[a] \in Clients /\ ct[cur[a]] = "done"
      BY <1>0, <1>2, <2>1 DEF Quiet, Calls, ApiTypes
    <3> QED  BY <1>1, <1>2, <2>1, <3>1
  <2>2. ASSUME NEW c \in Clients, mNeedBreakConnect'[c]
        PROVE  \/ Ended(c)'
               \/ \E a \in Apps : LogsOut(a, c)'
               \/ InList(c)' /\ \E a \in Apps : ap'[a] = "deinit"
    BY <1>1, <1>2, <2>2 DEF Quiet
  <2> QED  BY <2>1, <2>2 DEF Quiet
<1>3. ASSUME UNCHANGED <<mNeedBreakConnect, ap, cur, sSessionList>>
      PROVE  Quiet'
  BY <1>2, <1>3 DEF LogsOut, InList
<1> USE DEF Set
<1>4. ASSUME NEW a \in Apps, NEW c \in Clients, Login(a, c)
      PROVE  Quiet'
  BY <1>0, <1>2, <1>4 DEF Login, clientVars, LogsOut, InList, ApiTypes
<1>5. ASSUME NEW a \in Apps, NEW c \in Clients, Logout(a, c)
      PROVE  Quiet'
  <2>1. /\ ap' = [ap EXCEPT ![a] = "joinCt"] /\ cur' = [cur EXCEPT ![a] = c]
        /\ mNeedBreakConnect' = [mNeedBreakConnect EXCEPT ![c] = TRUE]
        /\ sSessionMutex = "free" /\ UNCHANGED sSessionList
    BY <1>5 DEF Logout
  <2>2. \A b \in Apps : ap[b] \notin {"joinCt", "joinRecv", "deinit"}
    BY <1>0, <2>1 DEF Locks
  <2>3. \A b \in Apps : ap'[b] # "joinRecv"
    BY <1>0, <2>1, <2>2 DEF ApiTypes
  <2>4. LogsOut(a, c)'
    BY <1>0, <2>1 DEF LogsOut, ApiTypes
  <2>5. \A d \in Clients : mNeedBreakConnect'[d] => d = c \/ Ended(d)'
    BY <1>0, <1>1, <2>1, <2>2 DEF Quiet, LogsOut, ClientTypes
  <2> QED  BY <2>3, <2>4, <2>5 DEF Quiet
<1>6. ASSUME NEW a \in Apps, LoginPush(a)
      PROVE  Quiet'
  <2>1. \A c \in Clients : InList(c) => InList(c)'
    BY <1>6, PushAdds
  <2>2. /\ ap' = [ap EXCEPT ![a] = "readIndex"] /\ ap[a] = "push"
        /\ UNCHANGED <<cur, mNeedBreakConnect>>
    BY <1>6 DEF LoginPush
  <2> QED  BY <1>0, <1>2, <2>1, <2>2 DEF LogsOut, ApiTypes
<1>7. ASSUME NEW a \in Apps, DeInitialize(a) \/ LoginReadIndex(a) \/ LoginWriteIndex(a)
      PROVE  Quiet'
  <2>1. UNCHANGED <<mNeedBreakConnect, sSessionList>>
    BY <1>7 DEF DeInitialize, LoginReadIndex, LoginWriteIndex, clientVars, tableVars
  <2>2. /\ \A b \in Apps \ {a} : ap'[b] = ap[b] /\ cur'[b] = cur[b]
        /\ ap[a] \notin {"joinCt", "joinRecv", "deinit"}
        /\ ap'[a] \notin {"joinCt", "joinRecv", "deinit"}
    BY <1>0, <1>7 DEF DeInitialize, LoginReadIndex, LoginWriteIndex, ApiTypes, tableVars
  <2> QED  BY <1>2, <2>1, <2>2 DEF LogsOut, InList
<1>8. ASSUME NEW a \in Apps, LogoutJoinsCt(a)
      PROVE  Quiet'
  <2>1. /\ ap' = [ap EXCEPT ![a] = "joinRecv"] /\ ap[a] = "joinCt" /\ ct[cur[a]] = "done"
        /\ UNCHANGED <<cur, ct, recv, mNeedBreakConnect, sSessionList>>
    BY <1>8 DEF LogoutJoinsCt, tableVars
  <2>2. \A b \in Apps : ap'[b] = "joinRecv" => ct'[cur'[b]] = "done"
    BY <1>0, <2>1 DEF Quiet, ApiTypes
  <2>3. \A b \in Apps, c \in Clients : /\ LogsOut(b, c) => LogsOut(b, c)'
                                       /\ ap[b] = "deinit" => ap'[b] = "deinit"
    BY <1>0, <2>1 DEF LogsOut, ApiTypes
  <2>4. \A c \in Clients : InList(c)' <=> InList(c)
    BY <2>1 DEF InList
  <2> QED  BY <1>1, <2>1, <2>2, <2>3, <2>4 DEF Quiet
<1>9. ASSUME NEW a \in Apps, LogoutJoinsRecv(a)
      PROVE  Quiet'
  <2>0. PICK d \in Clients : d = cur[a]
    BY <1>0, <1>9 DEF LogoutJoinsRecv, Calls, ApiTypes
  <2>1. /\ ap' = [ap EXCEPT ![a] = "idle"] /\ cur' = [cur EXCEPT ![a] = NoClient]
        /\ ap[a] = "joinRecv" /\ RecvEnded(d) /\ d = cur[a]
        /\ UNCHANGED <<mNeedBreakConnect, sSessionList>>
    BY <1>9, <2>0 DEF LogoutJoinsRecv, clientVars
  <2>2. Ended(d)'
    BY <1>1, <2>1 DEF Quiet, Ended
  <2> QED  BY <1>0, <1>2, <2>1, <2>2 DEF LogsOut, InList, ApiTypes
<1>10. ASSUME NEW a \in Apps, DeInitLocks(a)
       PROVE  Quiet'
  BY <1>0, <1>2, <1>10 DEF DeInitLocks, clientVars, LogsOut, InList, ApiTypes
<1>11. ASSUME NEW a \in Apps, DeInitLogsOut(a)
       PROVE  Quiet'
  <2> DEFINE d == Head(sSessionList)
  <2>1. InList(d)
    BY <1>11, Listed DEF DeInitLogsOut, InList
  <2>2. /\ mNeedBreakConnect' = [mNeedBreakConnect EXCEPT ![d] = TRUE] /\ ap[a] = "deinit"
        /\ UNCHANGED <<ap, cur, sSessionList, ct, recv>>
    BY <1>11 DEF DeInitLogsOut, apiVars, tableVars
  <2> HIDE DEF d
  <2>3. \A c \in Clients : mNeedBreakConnect'[c] => c = d \/ mNeedBreakConnect[c]
    BY <1>0, <2>2 DEF ClientTypes
  <2>4. \A c \in Clients : InList(c)' <=> InList(c)
    BY <2>2 DEF InList
  <2>5. \A b \in Apps, c \in Clients : LogsOut(b, c)' <=> LogsOut(b, c)
    BY <2>2 DEF LogsOut
  <2> QED  BY <1>1, <2>1, <2>2, <2>3, <2>4, <2>5 DEF Quiet
<1>12. ASSUME NEW d \in Clients, Leaves(d), \A a \in Apps : ap[a] = "deinit" => Ended(d)'
       PROVE  Quiet'
  <2>1. UNCHANGED <<mNeedBreakConnect, ap, cur>>
        /\ \A c \in Clients : InList(c)' <=> InList(c) /\ c # d
    BY <1>12 DEF Leaves, apiVars
  <2> QED  BY <1>2, <1>12, <2>1 DEF LogsOut
<1>13. ASSUME NEW a \in Apps, DeInitDeletes(a)
       PROVE  Quiet'
  <2>1. PICK d \in Clients : d = Head(sSessionList) /\ Leaves(d)
    BY <1>13, DeInitLeaves
  <2>2. Ended(d)'
    BY <1>13, <2>1 DEF DeInitDeletes, Ended, RecvEnded
  <2> QED  BY <1>12, <2>1, <2>2
<1>14. ASSUME NEW a \in Apps, DeInitEnds(a)
       PROVE  Quiet'
  <2>1. /\ ap' = [ap EXCEPT ![a] = "over"] /\ sSessionList = << >> /\ ap[a] = "deinit"
        /\ UNCHANGED <<cur, mNeedBreakConnect, sSessionList>>
    BY <1>14 DEF DeInitEnds, clientVars
  <2>2. \A c \in Clients : ~InList(c)
    BY <2>1, EmptySeq DEF InList
  <2>3. \A b \in Apps : b # a => ap[b] \notin {"joinCt", "joinRecv", "deinit"}
    BY <1>0, <2>1 DEF Locks
  <2>4. \A b \in Apps : ap'[b] # "joinRecv"
    BY <1>0, <2>1, <2>3 DEF ApiTypes
  <2>5. \A c \in Clients : mNeedBreakConnect'[c] => Ended(c)'
    BY <1>1, <2>1, <2>2, <2>3 DEF Quiet, LogsOut
  <2> QED  BY <2>4, <2>5 DEF Quiet
<1>15. CASE GcDeletes
  <2>1. \A a \in Apps : ap[a] # "deinit"
    BY <1>0, <1>15 DEF GcDeletes, Locks
  <2> QED  BY <1>12, <1>15, <2>1, GcLeave
<1>16. CASE GcPop \/ GcDecrements \/ GcScans \/ GcCollects \/ GcUnlocks \/ GcExits
  BY <1>3, <1>16 DEF GcPop, GcDecrements, GcScans, GcCollects, GcUnlocks, GcExits,
     GcUnchanged, apiVars
<1>17. CASE ClientStep \/ UNCHANGED codeVars
  BY <1>3, <1>17, ClientLeaves DEF codeVars, apiVars, tableVars, clientVars
<1> QED  BY <1>4, <1>5, <1>6, <1>7, <1>8, <1>9, <1>10, <1>11, <1>13, <1>14, <1>15, <1>16,
            <1>17, Cases DEF ApiStep, AppCall, Gc

\* The history of EC_Logout: what it joined has ended, and what it skipped is in
\* the list, without a reference, until it is deleted.  A session is without a
\* reference only after such a join or in the GC's pass that deletes it.
Past ==
  \A c \in Clients :
    /\ logout[c] = "joined" => Ended(c)
    /\ logout[c] = "skipped" => (InList(c) /\ refCnt[c] = 0) \/ client[c] = "deleted"
    /\ InList(c) /\ refCnt[c] = 0 =>
         gc \in {"scan", "collect", "join", "delete"} \/ logout[c] = "joined"

LEMMA InitPast == Init => Past
<1> SUFFICES ASSUME Init PROVE Past
  OBVIOUS
<1>1. Len(sSessionList) = 0
  BY EmptySeq DEF Init
<1> QED  BY <1>1 DEF Init, Past, InList

\* A session of the list stays there, without a reference if it has none, or is
\* deleted; a deleted one stays deleted.
LEMMA NoReferenceStays ==
  ASSUME Typed, Table, [Next]_vars, NEW c \in Clients
  PROVE  /\ InList(c) /\ refCnt[c] = 0 =>
              (InList(c)' /\ refCnt'[c] = 0) \/ client'[c] = "deleted"
         /\ client[c] = "deleted" => client'[c] = "deleted"
<1>0. ApiTypes /\ ClientTypes /\ TableTypes /\ Calls
  BY TypeParts DEF Typed
<1> USE DEF Set, ClientTypes, TableTypes
<1>1. ASSUME UNCHANGED <<sSessionList, refCnt, client>>
      PROVE  /\ InList(c) /\ refCnt[c] = 0 => InList(c)' /\ refCnt'[c] = 0
             /\ client[c] = "deleted" => client'[c] = "deleted"
  BY <1>1 DEF InList
<1>2. ASSUME NEW a \in Apps, NEW d \in Clients, Login(a, d)
      PROVE  /\ InList(c) /\ refCnt[c] = 0 => InList(c)' /\ refCnt'[c] = 0
             /\ client[c] = "deleted" => client'[c] = "deleted"
  BY <1>0, <1>2 DEF Login, InList
<1>3. ASSUME NEW a \in Apps, LoginPush(a)
      PROVE  /\ InList(c) /\ refCnt[c] = 0 => InList(c)' /\ refCnt'[c] = 0
             /\ client[c] = "deleted" => client'[c] = "deleted"
  <2>1. InList(c) => c # cur[a] /\ InList(c)'
    BY <1>3, PushAdds
  <2> QED  BY <1>0, <1>3, <2>1 DEF LoginPush
<1>4. ASSUME NEW a \in Apps, LogoutJoinsRecv(a)
      PROVE  /\ InList(c) /\ refCnt[c] = 0 => InList(c)' /\ refCnt'[c] = 0
             /\ client[c] = "deleted" => client'[c] = "deleted"
  <2>1. refCnt[cur[a]] = 1 /\ UNCHANGED <<sSessionList, client>>
    BY <1>0, <1>4 DEF LogoutJoinsRecv, Calls
  <2> QED  BY <1>0, <1>4, <2>1 DEF LogoutJoinsRecv, DropRef, InList
<1>5. CASE GcDecrements
  BY <1>0, <1>5 DEF GcDecrements, Referenced, InList
<1>6. ASSUME NEW d \in Clients, Leaves(d)
      PROVE  /\ InList(c) /\ refCnt[c] = 0 =>
                   (InList(c)' /\ refCnt'[c] = 0) \/ client'[c] = "deleted"
             /\ client[c] = "deleted" => client'[c] = "deleted"
  BY <1>0, <1>6 DEF Leaves
<1>7. CASE GcDeletes
  BY <1>6, <1>7, GcLeave
<1>8. ASSUME NEW a \in Apps, DeInitDeletes(a)
      PROVE  /\ InList(c) /\ refCnt[c] = 0 =>
                   (InList(c)' /\ refCnt'[c] = 0) \/ client'[c] = "deleted"
             /\ client[c] = "deleted" => client'[c] = "deleted"
  BY <1>6, <1>8, DeInitLeaves
<1>9. CASE GcPop \/ GcScans \/ GcCollects \/ GcUnlocks \/ GcExits
  BY <1>1, <1>9 DEF GcPop, GcScans, GcCollects, GcUnlocks, GcExits
<1>10. ASSUME NEW a \in Apps,
              \/ DeInitialize(a) \/ LoginReadIndex(a) \/ LoginWriteIndex(a)
              \/ LogoutJoinsCt(a) \/ DeInitLocks(a) \/ DeInitLogsOut(a) \/ DeInitEnds(a)
              \/ \E d \in Clients : Logout(a, d)
       PROVE  UNCHANGED <<sSessionList, refCnt, client>>
  BY <1>10 DEF DeInitialize, LoginReadIndex, LoginWriteIndex, LogoutJoinsCt, DeInitLocks,
     DeInitLogsOut, DeInitEnds, Logout, tableVars
<1>11. CASE ClientStep \/ UNCHANGED codeVars
  BY <1>1, <1>11, ClientLeaves DEF codeVars, tableVars
<1> QED  BY <1>1, <1>2, <1>3, <1>4, <1>5, <1>7, <1>8, <1>9, <1>10, <1>11, Cases
            DEF ApiStep, AppCall, Gc

\* A session loses its reference to EC_Logout, which joined its threads, or to the
\* GC, which does not end its pass before it has deleted the session.
LEMMA LosesReference ==
  ASSUME Typed, Table, Quiet, Past, [Next]_vars, NEW c \in Clients,
         InList(c)', refCnt'[c] = 0
  PROVE  gc' \in {"scan", "collect", "join", "delete"} \/ logout'[c] = "joined"
<1>0. ApiTypes /\ ClientTypes /\ TableTypes /\ GcTypes /\ Calls /\ LogoutTypes
  BY TypeParts DEF Typed
<1> USE DEF Set, TableTypes
<1>1. logout[c] = "joined" => logout'[c] = "joined"
  BY <1>0, LogoutMoves DEF LogoutTypes, LogoutSkips
<1>2. ASSUME InList(c), refCnt[c] = 0, gc' = gc
      PROVE  gc' \in {"scan", "collect", "join", "delete"} \/ logout'[c] = "joined"
  BY <1>1, <1>2 DEF Past
<1>3. ASSUME UNCHANGED <<sSessionList, refCnt>>
      PROVE  InList(c) /\ refCnt[c] = 0
  BY <1>3 DEF InList
<1>4. ASSUME NEW a \in Apps, LoginPush(a)
      PROVE  InList(c) /\ refCnt[c] = 0 /\ gc' = gc
  <2>1. /\ InList(c)' <=> InList(c) \/ c = cur[a]
        /\ refCnt' = [refCnt EXCEPT ![cur[a]] = 1] /\ gc' = gc
    BY <1>4, PushAdds DEF LoginPush, gcVars
  <2> QED  BY <1>0, <2>1
<1>5. ASSUME NEW a \in Apps, LogoutJoinsRecv(a)
      PROVE  (InList(c) /\ refCnt[c] = 0 /\ gc' = gc) \/ logout'[c] = "joined"
  <2>1. CASE cur[a] = c
    BY <1>0, <1>5, <2>1 DEF LogoutJoinsRecv, LogoutTypes
  <2>2. CASE cur[a] # c
    BY <1>0, <1>5, <2>2 DEF LogoutJoinsRecv, DropRef, InList, gcVars
  <2> QED  BY <2>1, <2>2
<1>6. ASSUME NEW d \in Clients, Leaves(d)
      PROVE  InList(c) /\ refCnt[c] = 0
  BY <1>6 DEF Leaves
<1>7. ASSUME NEW a \in Apps, DeInitDeletes(a)
      PROVE  InList(c) /\ refCnt[c] = 0 /\ gc' = gc
  BY <1>6, <1>7, DeInitLeaves DEF DeInitDeletes, gcVars
<1>8. ASSUME NEW a \in Apps,
             \/ DeInitialize(a) \/ LoginReadIndex(a) \/ LoginWriteIndex(a)
             \/ LogoutJoinsCt(a) \/ DeInitLocks(a) \/ DeInitLogsOut(a) \/ DeInitEnds(a)
             \/ \E d \in Clients : Login(a, d) \/ Logout(a, d)
      PROVE  UNCHANGED <<sSessionList, refCnt, gc>>
  BY <1>8 DEF DeInitialize, LoginReadIndex, LoginWriteIndex, LogoutJoinsCt, DeInitLocks,
     DeInitLogsOut, DeInitEnds, Login, Logout, tableVars, gcVars
<1>9. CASE GcDecrements \/ GcCollects \/ GcDeletes
  BY <1>9 DEF GcDecrements, GcCollects, GcDeletes
<1>10. CASE GcPop \/ GcExits
  <2>1. InList(c) /\ refCnt[c] = 0 /\ gc = "pop"
    BY <1>3, <1>10 DEF GcPop, GcExits
  <2> QED  BY <1>1, <2>1 DEF Past
<1>11. CASE GcScans \/ GcUnlocks
  <2>1. InList(c) /\ refCnt[c] = 0
    BY <1>3, <1>11 DEF GcScans, GcUnlocks
  <2>2. Collectable # {}
    BY <2>1, Listed DEF Collectable, InList
  <2> QED  BY <1>11, <2>2 DEF GcScans, GcUnlocks
<1>12. CASE ClientStep \/ UNCHANGED codeVars
  BY <1>2, <1>3, <1>12, ClientLeaves DEF codeVars, tableVars, gcVars
<1> QED  BY <1>2, <1>3, <1>4, <1>5, <1>7, <1>8, <1>9, <1>10, <1>11, <1>12, Cases
            DEF ApiStep, AppCall, Gc

LEMMA StepPast == Typed /\ Table /\ Quiet /\ Past /\ [Next]_vars => Past'
<1> SUFFICES ASSUME Typed, Table, Quiet, Past, [Next]_vars, NEW c \in Clients
             PROVE  /\ logout'[c] = "joined" => Ended(c)'
                    /\ logout'[c] = "skipped" =>
                         (InList(c)' /\ refCnt'[c] = 0) \/ client'[c] = "deleted"
                    /\ InList(c)' /\ refCnt'[c] = 0 =>
                         gc' \in {"scan", "collect", "join", "delete"}
                           \/ logout'[c] = "joined"
  BY DEF Past
<1>0. LogoutTypes /\ TableTypes
  BY TypeParts DEF Typed
<1>1. ASSUME logout'[c] = "joined"
      PROVE  Ended(c)'
  <2>1. CASE logout[c] = "joined"
    BY <2>1, EndedStays DEF Past
  <2>2. CASE logout[c] # "joined"
    <3>1. PICK a \in Apps : LogoutJoinsRecv(a) /\ cur[a] = c
      BY <1>0, <1>1, <2>2, LogoutMoves DEF LogoutTypes
    <3>2. Ended(c)
      BY <3>1 DEF LogoutJoinsRecv, Quiet, Ended
    <3> QED  BY <3>2, EndedStays
  <2> QED  BY <2>1, <2>2
<1>2. ASSUME logout'[c] = "skipped"
      PROVE  (InList(c)' /\ refCnt'[c] = 0) \/ client'[c] = "deleted"
  <2>1. CASE logout[c] = "skipped"
    BY <2>1, NoReferenceStays DEF Past
  <2>2. CASE logout[c] # "skipped"
    <3>1. PICK a \in Apps : LogoutSkips(a, c)
      BY <1>0, <1>2, <2>2, LogoutMoves DEF LogoutTypes
    <3>2. InList(c) /\ refCnt[c] = 0
      BY <1>0, <3>1, FirstListed DEF LogoutSkips, Referenced, TableTypes
    <3> QED  BY <3>2, NoReferenceStays
  <2> QED  BY <2>1, <2>2
<1> QED  BY <1>1, <1>2, LosesReference

\* Once EC_Logout has returned the application hears no more of that login: the
\* calls that join the two threads are the ones that told them to stop.  One that
\* joins nothing finds a session that the GC is just dropping.
THEOREM QuietAfterLogout == Spec => NoResultAfterLogout
<1>1. Typed /\ Table /\ Quiet /\ Past /\ [Next]_vars =>
        [\A c \in Clients : LoggedOut(c) =>
           \/ results'[c] = results[c]
           \/ logout[c] = "skipped" /\ BeingDropped(c)]_vars
  <2> SUFFICES ASSUME Typed, Table, Quiet, Past, [Next]_vars, NEW c \in Clients,
                      LoggedOut(c), results'[c] # results[c]
               PROVE  logout[c] = "skipped" /\ BeingDropped(c)
    OBVIOUS
  <2>1. logout[c] # "joined"
    BY EndedStays DEF Past
  <2>2. logout[c] = "skipped"
    BY <2>1, TypeParts DEF LoggedOut, LogoutTypes, Typed
  <2>3. client[c] = "alive"
    BY ResultsMove
  <2>4. InList(c) /\ refCnt[c] = 0
    BY <2>2, <2>3 DEF Past
  <2> QED  BY <2>1, <2>2, <2>4 DEF Past, BeingDropped
<1> QED  BY <1>1, InitTyped, InitTable, InitQuiet, InitPast, StepTyped, StepTable, StepQuiet,
            StepPast, PTL DEF Spec, NoResultAfterLogout

----------------------------------------------------------------------------
(* Who waits for whom                                                      *)

Holder     == <<"holder", 0>>    \* the thread that holds sSessionMutex
Connect(c) == <<"connect", c>>   \* connectTimeThread of the client
Receive(c) == <<"receive", c>>   \* cmdRecvThread of the client
Parties    == {Holder} \cup {Connect(c) : c \in Clients} \cup {Receive(c) : c \in Clients}

\* EC_DeInitialize is at this client, which it has told to stop.
DeInitAt(c) ==
  /\ \E a \in Apps : ap[a] = "deinit"
  /\ sSessionList # << >> /\ Head(sSessionList) = c
  /\ mNeedBreakConnect[c]

\* The holder of sSessionMutex joins the client's connectTimeThread, or its
\* cmdRecvThread, which it has told to stop.
JoinsConnect(c) ==
  \/ \E a \in Apps : ap[a] = "joinCt" /\ cur[a] = c
  \/ DeInitAt(c)
JoinsReceive(c) ==
  \/ \E a \in Apps : ap[a] = "joinRecv" /\ cur[a] = c
  \/ gc = "join" /\ gcClient = c
  \/ DeInitAt(c) /\ ct[c] = "done" /\ ~mCmdRecvThreadRun[c]

\* t has come to a join or to sSessionMutex, or to a loop that it does not
\* leave, and cannot get past it before u does something; a thread that was
\* not created, or whose client is deleted, does nothing at all.
Awaits(t, u) ==
  \/ \E c \in Clients :
       /\ t = Holder /\ u = Connect(c)
       /\ JoinsConnect(c) /\ ct[c] # "done"
  \/ \E c \in Clients :
       /\ t = Holder /\ u = Receive(c)
       /\ JoinsReceive(c) /\ ~RecvEnded(c)
  \/ \E c \in Clients :
       /\ t = Connect(c) /\ u = Holder
       /\ client[c] # "alive" \/ ct[c] = "off"
  \/ \E c \in Clients :
       /\ t = Receive(c) /\ u = Holder
       /\ \/ client[c] # "alive"
          \/ recv[c] = "wantLock" /\ sSessionMutex # "free"
          \/ recv[c] # "exited" /\ mCmdRecvThreadRun[c]

\* While sSessionMutex is held, its holder or the thread that it waits for
\* waits for nobody, but for a login result that waits for sSessionMutex.
HolderGoesOn ==
  sSessionMutex # "free" /\ ~CallbackDeadlock =>
    \E t \in Parties : /\ t = Holder \/ Awaits(Holder, t)
                       /\ \A u \in Parties : ~Awaits(t, u)

\* A client in the list has had its connectTimeThread created, which creates
\* cmdRecvThread when it ends; who joins cmdRecvThread has told it to stop.
Told ==
  /\ \A c \in Clients : /\ InList(c) => ct[c] # "off"
                        /\ recv[c] # "off" => ct[c] = "done"
  /\ \A a \in Apps : ap[a] = "joinRecv" => ~mCmdRecvThreadRun[cur[a]]
  /\ gc = "join" => recv[gcClient] # "off" /\ ~mCmdRecvThreadRun[gcClient]

\* cmdRecvThread is created, and told to run, when connectTimeThread ends.
LEMMA RecvStarts ==
  ASSUME Typed, Table, Told, [Next]_vars, NEW c \in Clients
  PROVE  /\ recv[c] # "off" => recv'[c] # "off"
         /\ recv'[c] # "off" => ct'[c] = "done"
         /\ mCmdRecvThreadRun'[c] => mCmdRecvThreadRun[c] \/ ct[c] # "done"
<1>0. ClientTypes
  BY TypeParts DEF Typed
<1>1. ct[c] = "done" => ct'[c] = "done"
  BY DoneStays
<1>2. ASSUME UNCHANGED recv, mCmdRecvThreadRun'[c] => mCmdRecvThreadRun[c]
      PROVE  /\ recv[c] # "off" => recv'[c] # "off"
             /\ recv'[c] # "off" => ct'[c] = "done"
             /\ mCmdRecvThreadRun'[c] => mCmdRecvThreadRun[c] \/ ct[c] # "done"
  BY <1>1, <1>2 DEF Told
<1> USE DEF Set
<1>3. CASE ApiStep
  BY <1>0, <1>2, <1>3 DEF ClientTypes, ApiStep, Login, Logout, DeInitialize, AppCall,
     LoginPush, LoginReadIndex, LoginWriteIndex, LogoutJoinsCt, LogoutJoinsRecv,
     DeInitLocks, DeInitLogsOut, DeInitDeletes, DeInitEnds, Delete, StopRecv, clientVars
<1>4. CASE Gc
  BY <1>0, <1>2, <1>4 DEF ClientTypes, Gc, GcPop, GcDecrements, GcScans, GcCollects,
     GcDeletes, GcUnlocks, GcExits, GcUnchanged, Delete, StopRecv
<1>5. ASSUME NEW d \in Clients, ConnectWins(d) \/ ConnectFails(d) \/ SendLoginCmd(d)
      PROVE  UNCHANGED <<recv, mCmdRecvThreadRun>>
  BY <1>5 DEF ConnectWins, ConnectFails, SendLoginCmd
<1>6. ASSUME NEW d \in Clients, StartRecv(d)
      PROVE  /\ recv[c] # "off" => recv'[c] # "off"
             /\ recv'[c] # "off" => ct'[c] = "done"
             /\ mCmdRecvThreadRun'[c] => mCmdRecvThreadRun[c] \/ ct[c] # "done"
  BY <1>0, <1>1, <1>6 DEF ClientTypes, StartRecv, Told
<1>7. ASSUME NEW d \in Clients, CmdRecv(d) \/ Link(d)
      PROVE  /\ recv[c] # "off" => recv'[c] # "off"
             /\ recv'[c] # "off" => recv[c] # "off"
             /\ UNCHANGED mCmdRecvThreadRun
  BY <1>0, <1>7 DEF ClientTypes, CmdRecv, RetryLogin, RecvExits, Link, LoginAnswer,
     RecvBroken, SenderBroken
<1>8. CASE ClientStep
  BY <1>1, <1>2, <1>5, <1>6, <1>7, <1>8 DEF ClientStep, ConnectTime, Told
<1> QED  BY <1>2, <1>3, <1>4, <1>8, Cases DEF codeVars, clientVars

\* Where the calls that join cmdRecvThread come from.
LEMMA JoinMoves ==
  ASSUME Typed, [Next]_vars
  PROVE  /\ \A a \in Apps : ap'[a] = "joinRecv" =>
              \/ ap[a] = "joinRecv" /\ cur'[a] = cur[a]
              \/ LogoutJoinsCt(a)
         /\ gc' = "join" => \/ gc = "join" /\ gcClient' = gcClient
                            \/ GcCollects
<1>0. ApiTypes
  BY TypeParts DEF Typed
<1> USE DEF Set
<1>1. ASSUME NEW a \in Apps, ap'[a] = "joinRecv", ~LogoutJoinsCt(a)
      PROVE  ap[a] = "joinRecv" /\ cur'[a] = cur[a]
  <2>1. CASE ApiStep
    BY <1>0, <1>1, <2>1 DEF ApiTypes, ApiStep, Login, Logout, DeInitialize, AppCall,
       LoginPush, LoginReadIndex, LoginWriteIndex, LogoutJoinsCt, LogoutJoinsRecv,
       DeInitLocks, DeInitLogsOut, DeInitDeletes, DeInitEnds, apiVars
  <2> QED  BY <1>1, <2>1, Cases, GcLeaves, ClientLeaves DEF apiVars, codeVars
<1>2. ASSUME gc' = "join", ~GcCollects
      PROVE  gc = "join" /\ gcClient' = gcClient
  <2>1. CASE ApiStep
    BY <1>2, <2>1 DEF ApiStep, Login, Logout, DeInitialize, AppCall, LoginPush,
       LoginReadIndex, LoginWriteIndex, LogoutJoinsCt, LogoutJoinsRecv, DeInitLocks,
       DeInitLogsOut, DeInitDeletes, DeInitEnds, gcVars
  <2>2. CASE Gc
    BY <1>2, <2>2 DEF Gc, GcPop, GcDecrements, GcScans, GcDeletes, GcUnlocks, GcExits
  <2> QED  BY <1>2, <2>1, <2>2, Cases, ClientLeaves DEF gcVars, codeVars
<1> QED  BY <1>1, <1>2

\* A session comes into the list with its connectTimeThread.
LEMMA ListedStarts ==
  ASSUME Typed, Table, Told, [Next]_vars, NEW c \in Clients, InList(c)'
  PROVE  ct'[c] # "off"
<1>0. ClientTypes /\ ApiTypes
  BY TypeParts DEF Typed
<1>1. ASSUME NEW a \in Apps, LoginPush(a)
      PROVE  ct'[c] # "off"
  <2>1. InList(c) \/ c = cur[a]
    BY <1>1, PushAdds
  <2> QED  BY <1>0, <1>1, <2>1 DEF LoginPush, Set, ClientTypes, Told
<1>2. ASSUME \A a \in Apps : ~LoginPush(a)
      PROVE  InList(c)
  <2>1. ASSUME NEW d \in Clients, Leaves(d)
        PROVE  InList(c)
    BY <2>1 DEF Leaves
  <2>2. ASSUME UNCHANGED sSessionList
        PROVE  InList(c)
    BY <2>2 DEF InList
  <2>3. ASSUME NEW a \in Apps, DeInitDeletes(a)
        PROVE  InList(c)
    BY <2>1, <2>3, DeInitLeaves
  <2>4. CASE GcDeletes
    BY <2>1, <2>4, GcLeave
  <2>5. ASSUME ApiStep, \A a \in Apps : ~DeInitDeletes(a)
        PROVE  UNCHANGED sSessionList
    BY <1>2, <2>5 DEF ApiStep, Login, Logout, DeInitialize, AppCall, LoginReadIndex,
       LoginWriteIndex, LogoutJoinsCt, LogoutJoinsRecv, DeInitLocks, DeInitLogsOut,
       DeInitEnds, tableVars
  <2>6. ASSUME Gc, ~GcDeletes
        PROVE  UNCHANGED sSessionList
    BY <2>6 DEF Gc, GcPop, GcDecrements, GcScans, GcCollects, GcUnlocks, GcExits
  <2> QED  BY <2>2, <2>3, <2>4, <2>5, <2>6, Cases, ClientLeaves DEF tableVars, codeVars
<1>3. ASSUME \A a \in Apps : ~LoginPush(a), ct'[c] = "off"
      PROVE  ct[c] = "off"
  <2>1. CASE ClientStep
    BY <1>0, <1>3, <2>1 DEF ClientStep, ConnectTime, ConnectWins, ConnectFails,
       SendLoginCmd, StartRecv, CmdRecv, RetryLogin, RecvExits, Link, LoginAnswer,
       RecvBroken, SenderBroken, Set, ClientTypes
  <2>2. CASE ApiStep
    BY <1>3, <2>2 DEF ApiStep, Login, Logout, DeInitialize, AppCall, LoginReadIndex,
       LoginWriteIndex, LogoutJoinsCt, LogoutJoinsRecv, DeInitLocks, DeInitLogsOut,
       DeInitDeletes, DeInitEnds, clientVars
  <2> QED  BY <1>3, <2>1, <2>2, Cases, GcLeaves DEF clientVars, codeVars
<1> QED  BY <1>1, <1>2, <1>3 DEF Told

LEMMA StepTold == Typed /\ Table /\ Quiet /\ Told /\ [Next]_vars => Told'
<1> SUFFICES ASSUME Typed, Table, Quiet, Told, [Next]_vars PROVE Told'
  OBVIOUS
<1>0. /\ ApiTypes /\ ClientTypes /\ GcTypes /\ Calls
      /\ NoClient \notin Clients
  BY TypeParts DEF Typed, Clients, NoClient
<1>1. ASSUME NEW c \in Clients
      PROVE  /\ InList(c)' => ct'[c] # "off"
             /\ recv'[c] # "off" => ct'[c] = "done"
  BY RecvStarts, ListedStarts
<1>2. ASSUME NEW a \in Apps, ap'[a] = "joinRecv"
      PROVE  ~mCmdRecvThreadRun'[cur'[a]]
  <2>1. CASE LogoutJoinsCt(a)
    <3>1. cur[a] \in Clients /\ cur'[a] = cur[a]
      BY <1>0, <2>1 DEF LogoutJoinsCt, Calls, ApiTypes
    <3> QED  BY <1>0, <2>1, <3>1 DEF LogoutJoinsCt, StopRecv, Set, ClientTypes
  <2>2. CASE ap[a] = "joinRecv" /\ cur'[a] = cur[a]
    <3>1. cur[a] \in Clients /\ ct[cur[a]] = "done"
      BY <1>0, <2>2 DEF Calls, ApiTypes, Quiet
    <3>2. ~mCmdRecvThreadRun[cur[a]]
      BY <2>2 DEF Told
    <3> QED  BY <2>2, <3>1, <3>2, RecvStarts
  <2> QED  BY <1>2, <2>1, <2>2, JoinMoves
<1>3. ASSUME gc' = "join"
      PROVE  recv'[gcClient'] # "off" /\ ~mCmdRecvThreadRun'[gcClient']
  <2>1. CASE GcCollects
    <3>1. PICK i \in Collectable :
            /\ gcClient' = sSessionList[i]
            /\ MustJoin(sSessionList[i]) /\ StopRecv(sSessionList[i])
      BY <1>3, <2>1 DEF GcCollects
    <3>2. sSessionList[i] \in Clients
      BY Listed DEF Collectable
    <3> QED  BY <1>0, <2>1, <3>1, <3>2
             DEF GcCollects, GcUnchanged, MustJoin, StopRecv, Set, ClientTypes
  <2>2. CASE gc = "join" /\ gcClient' = gcClient
    <3>1. gcClient \in Clients
      BY <1>0, <2>2 DEF Calls, GcTypes
    <3>2. recv[gcClient] # "off" /\ ~mCmdRecvThreadRun[gcClient]
      BY <2>2 DEF Told
    <3>3. ct[gcClient] = "done"
      BY <3>1, <3>2 DEF Told
    <3> QED  BY <2>2, <3>1, <3>2, <3>3, RecvStarts
  <2> QED  BY <1>3, <2>1, <2>2, JoinMoves
<1> QED  BY <1>1, <1>2, <1>3 DEF Told

\* A login result that waits for sSessionMutex is the only way in which the
\* holder of that mutex and the threads that it joins can wait for each other.
THEOREM OnlyCallbacksBlock == Spec => []HolderGoesOn
<1>1. Init => Told
  <2> SUFFICES ASSUME Init PROVE Told
    OBVIOUS
  <2>1. Len(sSessionList) = 0
    BY EmptySeq DEF Init
  <2> QED  BY <2>1 DEF Init, Told, InList
<1>2. Typed /\ Table /\ Quiet /\ Told => HolderGoesOn
  <2> SUFFICES ASSUME Typed, Table, Quiet, Told, ~CallbackDeadlock,
                      NEW u \in Parties, Awaits(Holder, u)
               PROVE  \A v \in Parties : ~Awaits(u, v)
    BY DEF HolderGoesOn, Parties
  <2>0. /\ \A c, d : /\ Connect(c) # Receive(d)
                     /\ Connect(c) = Connect(d) => c = d
                     /\ Receive(c) = Receive(d) => c = d
        /\ \A c : Connect(c) # Holder /\ Receive(c) # Holder
    BY DEF Connect, Receive, Holder
  <2>1. ASSUME NEW c \in Clients, DeInitAt(c)
        PROVE  InList(c)
    BY <2>1, Listed DEF DeInitAt, InList
  <2>2. ASSUME NEW c \in Clients, u = Connect(c), JoinsConnect(c)
        PROVE  \A v \in Parties : ~Awaits(u, v)
    <3>1. InList(c)
      BY <2>1, <2>2 DEF JoinsConnect, Table
    <3>2. client[c] = "alive" /\ ct[c] # "off"
      BY <3>1 DEF Table, Told
    <3> QED  BY <2>0, <2>2, <3>2 DEF Awaits
  <2>3. ASSUME NEW c \in Clients, u = Receive(c), JoinsReceive(c)
        PROVE  \A v \in Parties : ~Awaits(u, v)
    <3>1. InList(c) /\ ~mCmdRecvThreadRun[c]
      <4>1. CASE \E a \in Apps : ap[a] = "joinRecv" /\ cur[a] = c
        BY <4>1 DEF Table, Told
      <4>2. CASE gc = "join" /\ gcClient = c
        BY <4>2 DEF Table, Told, Typed, Calls
      <4>3. CASE DeInitAt(c) /\ ~mCmdRecvThreadRun[c]
        BY <2>1, <4>3
      <4> QED  BY <2>3, <4>1, <4>2, <4>3 DEF JoinsReceive
    <3>2. client[c] = "alive"
      BY <3>1 DEF Table
    <3>3. recv[c] # "wantLock"
      BY <2>3 DEF JoinsReceive, DeInitAt, CallbackDeadlock
    <3> QED  BY <2>0, <2>3, <3>1, <3>2, <3>3 DEF Awaits
  <2> QED  BY <2>0, <2>2, <2>3 DEF Awaits
<1> QED  BY <1>1, <1>2, InitTyped, InitTable, InitQuiet, StepTyped, StepTable, StepQuiet,
            StepTold, PTL DEF Spec

----------------------------------------------------------------------------
(* Handles, if the application calls EC_Login one at a time                *)

Created(c) == client[c] # "none"

\* Handles count the logins.  A client that EC_Login has not returned yet has the
\* value sSessionIndex, every other one a smaller handle.
Numbered ==
  /\ \A a \in Apps : LoggingIn(a) =>
       /\ \A b \in Apps : LoggingIn(b) => a = b
       /\ Created(cur[a]) /\ handle[cur[a]] = sSessionIndex
       /\ ap[a] = "writeIndex" => index[a] = sSessionIndex
  /\ \A c \in Clients : Created(c) =>
       handle[c] < sSessionIndex \/ \E a \in Apps : LoggingIn(a) /\ cur[a] = c
  /\ \A c, d \in Clients : Created(c) /\ Created(d) /\ handle[c] = handle[d] => c = d

LEMMA InitNumbered == Init => Numbered
BY DEF Init, Numbered, LoggingIn, Created

\* A client once created stays so, with its handle.
LEMMA CreatedStays ==
  ASSUME Typed, Table, [Next]_vars
  PROVE  \A c \in Clients : Created(c) => Created(c)' /\ handle'[c] = handle[c]
<1>0. ClientTypes /\ TableTypes
  BY TypeParts DEF Typed
<1>1. ASSUME NEW a \in Apps, NEW d \in Clients, Login(a, d)
      PROVE  \A c \in Clients : Created(c) => Created(c)' /\ handle'[c] = handle[c]
  BY <1>0, <1>1 DEF Login, Set, Created, ClientTypes, TableTypes
<1>2. ASSUME NEW d \in Clients, Leaves(d)
      PROVE  \A c \in Clients : Created(c) => Created(c)' /\ handle'[c] = handle[c]
  BY <1>0, <1>2 DEF Leaves, Created, ClientTypes
<1>3. ASSUME ~GcDeletes, \A a \in Apps : ~DeInitDeletes(a) /\ \A c \in Clients : ~Login(a, c)
      PROVE  UNCHANGED <<client, handle>>
  <2>1. CASE ApiStep
    BY <1>3, <2>1 DEF ApiStep, Logout, DeInitialize, AppCall, LoginPush, LoginReadIndex,
       LoginWriteIndex, LogoutJoinsCt, LogoutJoinsRecv, DeInitLocks, DeInitLogsOut,
       DeInitEnds, tableVars
  <2>2. CASE Gc
    BY <1>3, <2>2 DEF Gc, GcPop, GcDecrements, GcScans, GcCollects, GcUnlocks, GcExits,
       GcUnchanged
  <2> QED  BY <2>1, <2>2, Cases, ClientLeaves DEF codeVars, tableVars
<1>4. CASE GcDeletes
  BY <1>2, <1>4, GcLeave
<1>5. ASSUME NEW a \in Apps, DeInitDeletes(a)
      PROVE  \A c \in Clients : Created(c) => Created(c)' /\ handle'[c] = handle[c]
  BY <1>2, <1>5, DeInitLeaves
<1> QED  BY <1>1, <1>3, <1>4, <1>5 DEF Created

LEMMA StepNumbered == SerialLogins /\ Typed /\ Table /\ Numbered /\ [Next]_vars => Numbered'
<1> SUFFICES ASSUME SerialLogins, Typed, Table, Numbered, [Next]_vars PROVE Numbered'
  OBVIOUS
<1>0. ApiTypes /\ ClientTypes /\ TableTypes /\ Calls /\ NoClient \notin Clients
  BY TypeParts DEF Typed, Clients, NoClient
<1>1. \A c \in Clients : Created(c) => Created(c)' /\ handle'[c] = handle[c]
  BY CreatedStays
<1>2. \A a \in Apps : LoggingIn(a) => cur[a] \in Clients
  BY <1>0 DEF LoggingIn, Calls, ApiTypes
<1>3. ASSUME UNCHANGED <<sSessionIndex, handle>>,
             \A c \in Clients : Created(c)' => Created(c),
             \A a \in Apps : /\ LoggingIn(a)' <=> LoggingIn(a)
                             /\ LoggingIn(a) => cur'[a] = cur[a]
                             /\ ap'[a] = "writeIndex" => index'[a] = sSessionIndex
      PROVE  Numbered'
  <2>1. ASSUME NEW a \in Apps, LoggingIn(a)'
        PROVE  /\ \A b \in Apps : LoggingIn(b)' => a = b
               /\ client'[cur'[a]] # "none" /\ handle'[cur'[a]] = sSessionIndex'
               /\ ap'[a] = "writeIndex" => index'[a] = sSessionIndex'
    BY <1>1, <1>2, <1>3, <2>1 DEF Numbered, Created
  <2>2. \A c \in Clients : Created(c)' =>
          handle'[c] < sSessionIndex' \/ \E a \in Apps : LoggingIn(a)' /\ cur'[a] = c
    BY <1>3 DEF Numbered
  <2>3. \A c, d \in Clients : Created(c)' /\ Created(d)' /\ handle'[c] = handle'[d] => c = d
    BY <1>3 DEF Numbered
  <2> QED  BY <2>1, <2>2, <2>3 DEF Numbered, Created
<1>4. ASSUME UNCHANGED <<sSessionIndex, handle, ap, cur, index>>,
             \A c \in Clients : Created(c)' => Created(c)
      PROVE  Numbered'
  BY <1>3, <1>4 DEF Numbered, LoggingIn
<1> USE DEF Set
<1>5. ASSUME NEW a \in Apps, NEW c \in Clients, Login(a, c)
      PROVE  Numbered'
  <2>1. /\ ap' = [ap EXCEPT ![a] = "push"] /\ cur' = [cur EXCEPT ![a] = c]
        /\ handle' = [handle EXCEPT ![c] = sSessionIndex]
        /\ client' = [client EXCEPT ![c] = "alive"] /\ client[c] = "none"
        /\ UNCHANGED sSessionIndex /\ \A b \in Apps : ~LoggingIn(b)
    BY <1>5 DEF Login
  <2>2. \A b \in Apps : LoggingIn(b)' <=> b = a
    BY <1>0, <2>1 DEF LoggingIn, ApiTypes
  <2>3. \A d \in Clients : handle'[d] = IF d = c THEN sSessionIndex ELSE handle[d]
    BY <1>0, <2>1 DEF TableTypes
  <2>4. \A d \in Clients : Created(d)' <=> Created(d) \/ d = c
    BY <1>0, <2>1 DEF Created, ClientTypes
  <2>5. cur'[a] = c /\ ap'[a] = "push"
    BY <1>0, <2>1 DEF ApiTypes
  <2>6. \A d \in Clients : Created(d) => handle[d] < sSessionIndex /\ d # c
    BY <2>1 DEF Numbered, Created
  <2>7. \A d \in Clients : handle[d] \in Nat /\ sSessionIndex \in Nat
    BY <1>0 DEF TableTypes, ApiTypes
  <2>8. \A b \in Apps : LoggingIn(b)' =>
          /\ \A e \in Apps : LoggingIn(e)' => b = e
          /\ client'[cur'[b]] # "none" /\ handle'[cur'[b]] = sSessionIndex'
          /\ ap'[b] = "writeIndex" => index'[b] = sSessionIndex'
    BY <2>1, <2>2, <2>3, <2>4, <2>5 DEF Created
  <2>9. \A d \in Clients : Created(d)' =>
          handle'[d] < sSessionIndex' \/ \E b \in Apps : LoggingIn(b)' /\ cur'[b] = d
    BY <2>1, <2>2, <2>3, <2>4, <2>5, <2>6
  <2>10. \A d, e \in Clients : Created(d)' /\ Created(e)' /\ handle'[d] = handle'[e] => d = e
    BY <2>3, <2>4, <2>6, <2>7 DEF Numbered
  <2> QED  BY <2>8, <2>9, <2>10 DEF Numbered, Created
<1>6. ASSUME NEW a \in Apps, LoginPush(a) \/ LoginReadIndex(a)
      PROVE  Numbered'
  <2>1. /\ UNCHANGED <<sSessionIndex, handle, cur, client>>
        /\ \A b \in Apps \ {a} : ap'[b] = ap[b] /\ index'[b] = index[b]
        /\ LoggingIn(a) /\ LoggingIn(a)'
        /\ ap'[a] = "writeIndex" => index'[a] = sSessionIndex
    BY <1>0, <1>6 DEF LoginPush, LoginReadIndex, LoggingIn, tableVars, ApiTypes
  <2> QED  BY <1>3, <2>1 DEF Numbered, LoggingIn, Created
<1>7. ASSUME NEW a \in Apps, LoginWriteIndex(a)
      PROVE  Numbered'
  <2>1. /\ ap' = [ap EXCEPT ![a] = "idle"] /\ cur' = [cur EXCEPT ![a] = NoClient]
        /\ LoggingIn(a) /\ sSessionIndex' = sSessionIndex + 1
        /\ UNCHANGED <<handle, client>>
    BY <1>7 DEF LoginWriteIndex, LoggingIn, Incremented, tableVars, Numbered
  <2>2. \A b \in Apps : ~LoggingIn(b)'
    BY <1>0, <2>1 DEF LoggingIn, Numbered, ApiTypes
  <2>3. \A c \in Clients : handle[c] \in Nat /\ sSessionIndex \in Nat
    BY <1>0 DEF TableTypes, ApiTypes
  <2>4. \A c \in Clients : Created(c) => handle[c] < sSessionIndex + 1
    BY <2>1, <2>3 DEF Numbered
  <2> QED  BY <2>1, <2>2, <2>4 DEF Numbered, Created
<1>8. ASSUME NEW a \in Apps,
             \/ \E c \in Clients : Logout(a, c)
             \/ DeInitialize(a) \/ LogoutJoinsCt(a) \/ LogoutJoinsRecv(a) \/ DeInitLocks(a)
             \/ DeInitEnds(a)
      PROVE  Numbered'
  <2>1. UNCHANGED <<sSessionIndex, handle, client, index>>
    BY <1>8 DEF Logout, DeInitialize, LogoutJoinsCt, LogoutJoinsRecv, DeInitLocks, DeInitEnds,
       tableVars
  <2>2. /\ \A b \in Apps \ {a} : ap'[b] = ap[b] /\ cur'[b] = cur[b]
        /\ ~LoggingIn(a) /\ ~LoggingIn(a)'
    BY <1>0, <1>8 DEF Logout, DeInitialize, LogoutJoinsCt, LogoutJoinsRecv, DeInitLocks,
       DeInitEnds, LoggingIn, ApiTypes
  <2> QED  BY <1>3, <2>1, <2>2 DEF Numbered, LoggingIn, Created
<1>9. ASSUME NEW a \in Apps, DeInitLogsOut(a)
      PROVE  Numbered'
  BY <1>4, <1>9 DEF DeInitLogsOut, apiVars, tableVars, Created
<1>10. ASSUME NEW d \in Clients, Leaves(d)
       PROVE  Numbered'
  <2>1. Created(d)
    BY <1>10 DEF Leaves, Table, Created
  <2> QED  BY <1>0, <1>4, <1>10, <2>1 DEF Leaves, Created, apiVars, ClientTypes
<1>11. ASSUME NEW a \in Apps, DeInitDeletes(a)
       PROVE  Numbered'
  BY <1>10, <1>11, DeInitLeaves
<1>12. CASE GcDeletes
  BY <1>10, <1>12, GcLeave
<1>13. CASE GcPop \/ GcDecrements \/ GcScans \/ GcCollects \/ GcUnlocks \/ GcExits
  BY <1>4, <1>13 DEF GcPop, GcDecrements, GcScans, GcCollects, GcUnlocks, GcExits,
     GcUnchanged, apiVars, Created
<1>14. CASE ClientStep \/ UNCHANGED codeVars
  BY <1>4, <1>14, ClientLeaves DEF codeVars, apiVars, tableVars, Created
<1> QED  BY <1>5, <1>6, <1>7, <1>8, <1>9, <1>11, <1>12, <1>13, <1>14, Cases
            DEF ApiStep, AppCall, Gc

LEMMA NumberedHolds == SerialLogins /\ Spec => [](Typed /\ Table /\ Numbered)
<1>1. CASE SerialLogins
  BY <1>1, InitTyped, InitTable, InitNumbered, StepTyped, StepTable, StepNumbered, PTL
     DEF Spec
<1> QED  BY <1>1

\* As long as the application logs in from one thread at a time, no two sessions
\* have the same handle, although sSessionIndex has no lock.
THEOREM UniqueIfSerial == SerialLogins /\ Spec => []HandlesUnique
<1>1. Typed /\ Table /\ Numbered => HandlesUnique
  <2> SUFFICES ASSUME Typed, Table, Numbered,
                      NEW i \in 1 .. Len(sSessionList), NEW j \in 1 .. Len(sSessionList),
                      i # j, handle[sSessionList[i]] = handle[sSessionList[j]]
               PROVE  FALSE
    BY Listed DEF HandlesUnique
  <2>1. /\ sSessionList[i] \in Clients /\ InList(sSessionList[i])
        /\ sSessionList[j] \in Clients /\ InList(sSessionList[j])
    BY Listed DEF InList
  <2>2. Created(sSessionList[i]) /\ Created(sSessionList[j])
    BY <2>1 DEF Table, Created
  <2>3. sSessionList[i] = sSessionList[j]
    BY <2>1, <2>2 DEF Numbered
  <2> QED  BY <2>3 DEF Table, Distinct
<1> QED  BY <1>1, NumberedHolds, PTL

----------------------------------------------------------------------------
(* Deleting clients, if the application calls EC_Login one at a time       *)

\* connectTimeThread has ended, or the break came before.
Settled(c) == early[c] \/ ct[c] = "done"

\* The handle is that of a client whose connection broke.
Reported(h) ==
  \E d \in Clients : /\ Created(d) /\ handle[d] = h
                     /\ client[d] = "alive" => mHasBrokenDetected[d]

\* A broken connection is reported once connectTimeThread has ended, or early;
\* what the garbage collection is told of has broken; and so a client without a
\* reference has no connectTimeThread that is not known to be early.
Broken ==
  /\ \A c \in Clients : client[c] # "deleted" =>
       /\ early[c] => mHasBrokenDetected[c]
       /\ mHasBrokenDetected[c] => Settled(c)
  /\ \A i \in 1 .. Len(sBrokenSessionQueue) : Reported(sBrokenSessionQueue[i])
  /\ gc = "dec" => Reported(gcHandle)

Collected ==
  /\ \A c \in Clients : InList(c) /\ refCnt[c] = 0 => Settled(c)
  /\ gcClient # NoClient =>
       /\ Settled(gcClient)
       /\ gc = "delete" /\ ~early[gcClient] => recv[gcClient] = "off"
  /\ NoThreadOutlivesClient

LEMMA InitCollected == Init => Broken /\ Collected
<1> SUFFICES ASSUME Init PROVE Broken /\ Collected
  OBVIOUS
<1>1. Len(sSessionList) = 0 /\ Len(sBrokenSessionQueue) = 0
  BY EmptySeq DEF Init
<1> QED  BY <1>1 DEF Init, Broken, Collected, InList, NoThreadOutlivesClient

\* What a step does to the marks of a broken connection: they come with a report,
\* and go when the client is deleted.
Marks(c) ==
  \/ UNCHANGED <<mHasBrokenDetected[c], early[c]>>
  \/ /\ client[c] = "alive" /\ client'[c] = "alive" /\ ~mHasBrokenDetected[c]
     /\ mHasBrokenDetected'[c] /\ early'[c] = (ct[c] # "done") /\ ct'[c] = ct[c]
  \/ client'[c] = "deleted" /\ UNCHANGED early[c]

LEMMA MarksMove ==
  ASSUME Typed, Table, [Next]_vars, NEW c \in Clients
  PROVE  Marks(c)
<1>0. ClientTypes /\ BrokenTypes
  BY TypeParts DEF Typed
<1>1. ASSUME NEW d \in Clients, RecvBroken(d) \/ SenderBroken(d), client[d] = "alive"
      PROVE  Marks(c)
  <2>1. UNCHANGED <<client, ct>>
    BY <1>1 DEF RecvBroken, SenderBroken, ThreadUnchanged
  <2>2. ReportBroken(d) \/ UNCHANGED <<mHasBrokenDetected, early>>
    BY <1>1 DEF RecvBroken, SenderBroken
  <2> QED  BY <1>0, <1>1, <2>1, <2>2 DEF Marks, ReportBroken, brokenVars, Set, BrokenTypes
<1>2. ASSUME NEW d \in Clients, Leaves(d)
      PROVE  Marks(c)
  BY <1>0, <1>2 DEF Leaves, Marks, BrokenTypes, ClientTypes
<1>3. ASSUME NEW d \in Clients, ConnectTime(d) \/ CmdRecv(d) \/ LoginAnswer(d)
      PROVE  UNCHANGED <<mHasBrokenDetected, early>>
  BY <1>3 DEF ConnectTime, ConnectWins, ConnectFails, SendLoginCmd, StartRecv, CmdRecv,
     RetryLogin, RecvExits, LoginAnswer, brokenVars
<1>4. ASSUME ApiStep, \A a \in Apps : ~DeInitDeletes(a)
      PROVE  UNCHANGED <<mHasBrokenDetected, early>>
  BY <1>4 DEF ApiStep, Login, Logout, DeInitialize, AppCall, LoginPush, LoginReadIndex,
     LoginWriteIndex, LogoutJoinsCt, LogoutJoinsRecv, DeInitLocks, DeInitLogsOut,
     DeInitEnds, clientVars, brokenVars
<1>5. ASSUME GcPop \/ GcDecrements \/ GcScans \/ GcCollects \/ GcUnlocks \/ GcExits
      PROVE  UNCHANGED <<mHasBrokenDetected, early>>
  BY <1>5 DEF GcPop, GcDecrements, GcScans, GcCollects, GcUnlocks, GcExits, GcUnchanged,
     FieldsUnchanged
<1>6. ASSUME UNCHANGED <<mHasBrokenDetected, early>>
      PROVE  Marks(c)
  BY <1>6 DEF Marks
<1>7. ASSUME GcDeletes
      PROVE  Marks(c)
  BY <1>2, <1>7, GcLeave
<1>8. ASSUME NEW a \in Apps, DeInitDeletes(a)
      PROVE  Marks(c)
  BY <1>2, <1>8, DeInitLeaves
<1> QED  BY <1>1, <1>3, <1>4, <1>5, <1>6, <1>7, <1>8, Cases
            DEF ClientStep, Link, Gc, codeVars, brokenVars

\* Clients are created by Login and deleted by Leaves.
LEMMA ClientMoves ==
  ASSUME Typed, Table, [Next]_vars, NEW c \in Clients, client'[c] # client[c]
  PROVE  \/ client[c] = "none" /\ client'[c] = "alive" /\ Fresh(c)
         \/ client[c] = "alive" /\ client'[c] = "deleted"
<1>0. ClientTypes
  BY TypeParts DEF Typed
<1>1. ASSUME NEW a \in Apps, NEW d \in Clients, Login(a, d)
      PROVE  client[c] = "none" /\ client'[c] = "alive" /\ Fresh(c)
  BY <1>0, <1>1 DEF Login, Set, ClientTypes, Table
<1>2. ASSUME NEW d \in Clients, Leaves(d)
      PROVE  client[c] = "alive" /\ client'[c] = "deleted"
  BY <1>0, <1>2 DEF Leaves, Table, ClientTypes
<1>3. ASSUME ~GcDeletes, \A a \in Apps : ~DeInitDeletes(a) /\ \A d \in Clients : ~Login(a, d)
      PROVE  UNCHANGED client
  <2>1. CASE ApiStep
    BY <1>3, <2>1 DEF ApiStep, Logout, DeInitialize, AppCall, LoginPush, LoginReadIndex,
       LoginWriteIndex, LogoutJoinsCt, LogoutJoinsRecv, DeInitLocks, DeInitLogsOut,
       DeInitEnds, tableVars
  <2>2. CASE Gc
    BY <1>3, <2>2 DEF Gc, GcPop, GcDecrements, GcScans, GcCollects, GcUnlocks, GcExits,
       GcUnchanged
  <2> QED  BY <2>1, <2>2, Cases, ClientLeaves DEF codeVars
<1>4. ASSUME GcDeletes
      PROVE  client[c] = "alive" /\ client'[c] = "deleted"
  BY <1>2, <1>4, GcLeave
<1>5. ASSUME NEW a \in Apps, DeInitDeletes(a)
      PROVE  client[c] = "alive" /\ client'[c] = "deleted"
  BY <1>2, <1>5, DeInitLeaves
<1> QED  BY <1>1, <1>3, <1>4, <1>5

LEMMA SettledStays ==
  ASSUME Typed, Table, Broken, [Next]_vars, NEW c \in Clients
  PROVE  /\ Settled(c) => Settled(c)'
         /\ client[c] = "alive" /\ early[c] => early'[c]
<1>1. Marks(c)
  BY MarksMove
<1>2. ct[c] = "done" => ct'[c] = "done"
  BY DoneStays
<1> QED  BY <1>1, <1>2 DEF Marks, Settled, Broken

LEMMA ReportedStays ==
  ASSUME Typed, Table, [Next]_vars, NEW h, Reported(h)
  PROVE  Reported(h)'
<1>1. PICK d \in Clients : /\ Created(d) /\ handle[d] = h
                           /\ client[d] = "alive" => mHasBrokenDetected[d]
  BY DEF Reported
<1>2. Created(d)' /\ handle'[d] = h
  BY <1>1, CreatedStays
<1>3. client'[d] = "alive" => mHasBrokenDetected'[d]
  <2>1. Marks(d)
    BY MarksMove
  <2>2. client'[d] = "alive" => client[d] = "alive"
    BY <1>1, ClientMoves DEF Created
  <2> QED  BY <1>1, <2>1, <2>2 DEF Marks
<1> QED  BY <1>2, <1>3 DEF Reported

\* A handle in the queue was there before, or its client has just reported.
LEMMA QueueMoves ==
  ASSUME Typed, [Next]_vars, NEW i \in 1 .. Len(sBrokenSessionQueue')
  PROVE  \/ \E j \in 1 .. Len(sBrokenSessionQueue) :
              sBrokenSessionQueue'[i] = sBrokenSessionQueue[j]
         \/ \E c \in Clients : /\ client[c] = "alive" /\ UNCHANGED <<client, handle>>
                               /\ mHasBrokenDetected'[c]
                               /\ sBrokenSessionQueue'[i] = handle[c]
<1>0. ClientTypes /\ BrokenTypes /\ TableTypes
  BY TypeParts DEF Typed
<1>1. sBrokenSessionQueue \in Seq(Nat)
  BY <1>0 DEF BrokenTypes
<1>2. ASSUME UNCHANGED sBrokenSessionQueue
      PROVE  \E j \in 1 .. Len(sBrokenSessionQueue) :
               sBrokenSessionQueue'[i] = sBrokenSessionQueue[j]
  BY <1>2
<1>3. ASSUME NEW c \in Clients,
             sBrokenSessionQueue' = Append(sBrokenSessionQueue, handle[c])
      PROVE  \/ \E j \in 1 .. Len(sBrokenSessionQueue) :
                  sBrokenSessionQueue'[i] = sBrokenSessionQueue[j]
             \/ sBrokenSessionQueue'[i] = handle[c]
  <2>1. handle[c] \in Nat
    BY <1>0 DEF TableTypes
  <2>2. /\ Len(sBrokenSessionQueue') = Len(sBrokenSessionQueue) + 1
        /\ Len(sBrokenSessionQueue) \in Nat
        /\ sBrokenSessionQueue'[Len(sBrokenSessionQueue) + 1] = handle[c]
        /\ \A j \in 1 .. Len(sBrokenSessionQueue) :
             sBrokenSessionQueue'[j] = sBrokenSessionQueue[j]
    BY <1>1, <1>3, <2>1, AppendProperties, LenProperties
  <2>3. i \in 1 .. Len(sBrokenSessionQueue) \/ i = Len(sBrokenSessionQueue) + 1
    BY <2>2
  <2> QED  BY <2>2, <2>3
<1>4. ASSUME NEW c \in Clients, RecvBroken(c) \/ SenderBroken(c), client[c] = "alive",
             ~UNCHANGED sBrokenSessionQueue
      PROVE  /\ UNCHANGED <<client, handle>> /\ mHasBrokenDetected'[c]
             /\ sBrokenSessionQueue' = Append(sBrokenSessionQueue, handle[c])
  BY <1>0, <1>4 DEF RecvBroken, SenderBroken, ReportBroken, brokenVars, ThreadUnchanged,
     tableVars, Set, BrokenTypes
<1>5. CASE GcPop
  <2>1. ASSUME sBrokenSessionQueue # << >>, sBrokenSessionQueue' = Tail(sBrokenSessionQueue)
        PROVE  \E j \in 1 .. Len(sBrokenSessionQueue) :
                 sBrokenSessionQueue'[i] = sBrokenSessionQueue[j]
    <3>1. /\ Len(sBrokenSessionQueue') = Len(sBrokenSessionQueue) - 1
          /\ Len(sBrokenSessionQueue) \in Nat
          /\ \A j \in 1 .. Len(sBrokenSessionQueue') :
               sBrokenSessionQueue'[j] = sBrokenSessionQueue[j + 1]
      BY <1>1, <2>1, HeadTailProperties, LenProperties
    <3>2. i + 1 \in 1 .. Len(sBrokenSessionQueue)
      BY <3>1
    <3> QED  BY <3>1, <3>2
  <2> QED  BY <1>2, <1>5, <2>1 DEF GcPop
<1>6. CASE ApiStep
  <2>1. UNCHANGED sBrokenSessionQueue
    BY <1>6 DEF ApiStep, Login, Logout, DeInitialize, AppCall, LoginPush, LoginReadIndex,
       LoginWriteIndex, LogoutJoinsCt, LogoutJoinsRecv, DeInitLocks, DeInitLogsOut,
       DeInitDeletes, DeInitEnds, brokenVars
  <2> QED  BY <1>2, <2>1
<1>7. CASE GcDecrements \/ GcScans \/ GcCollects \/ GcDeletes \/ GcUnlocks \/ GcExits
  BY <1>2, <1>7 DEF GcDecrements, GcScans, GcCollects, GcDeletes, GcUnlocks, GcExits
<1>8. ASSUME NEW d \in Clients, ConnectTime(d) \/ CmdRecv(d) \/ LoginAnswer(d)
      PROVE  UNCHANGED sBrokenSessionQueue
  BY <1>8 DEF ConnectTime, ConnectWins, ConnectFails, SendLoginCmd, StartRecv, CmdRecv,
     RetryLogin, RecvExits, LoginAnswer, brokenVars
<1>9. CASE ClientStep
  <2>1. PICK d \in Clients : ConnectTime(d) \/ CmdRecv(d) \/ Link(d)
    BY <1>9 DEF ClientStep
  <2>2. CASE UNCHANGED sBrokenSessionQueue
    BY <1>2, <2>2
  <2>3. CASE ~UNCHANGED sBrokenSessionQueue
    <3>1. client[d] = "alive" /\ (RecvBroken(d) \/ SenderBroken(d))
      BY <1>8, <2>1, <2>3 DEF Link
    <3> QED  BY <1>3, <1>4, <2>3, <3>1
  <2> QED  BY <2>2, <2>3
<1>10. CASE UNCHANGED codeVars
  BY <1>2, <1>10 DEF codeVars, brokenVars
<1> QED  BY <1>5, <1>6, <1>7, <1>9, <1>10, Cases DEF Gc

LEMMA StepBroken == Typed /\ Table /\ Broken /\ [Next]_vars => Broken'
<1> SUFFICES ASSUME Typed, Table, Broken, [Next]_vars PROVE Broken'
  OBVIOUS
<1>0. ClientTypes /\ BrokenTypes /\ GcTypes /\ TableTypes
  BY TypeParts DEF Typed
<1>1. ASSUME NEW c \in Clients, client'[c] # "deleted"
      PROVE  /\ early'[c] => mHasBrokenDetected'[c]
             /\ mHasBrokenDetected'[c] => Settled(c)'
  <2>1. client[c] # "deleted"
    BY <1>1, ClientMoves
  <2>2. Marks(c) /\ (Settled(c) => Settled(c)')
    BY MarksMove, SettledStays
  <2> QED  BY <1>1, <2>1, <2>2 DEF Marks, Broken, Settled
<1>2. \A h : Reported(h) => Reported(h)'
  BY ReportedStays
<1>3. ASSUME NEW i \in 1 .. Len(sBrokenSessionQueue'), NEW h, h = sBrokenSessionQueue'[i]
      PROVE  Reported(h)'
  <2>1. CASE \E j \in 1 .. Len(sBrokenSessionQueue) : h = sBrokenSessionQueue[j]
    BY <1>2, <2>1 DEF Broken
  <2>2. CASE \E c \in Clients : /\ client[c] = "alive" /\ UNCHANGED <<client, handle>>
                                /\ mHasBrokenDetected'[c] /\ h = handle[c]
    BY <2>2 DEF Reported, Created
  <2> QED  BY <1>3, <2>1, <2>2, QueueMoves
<1>4. ASSUME gc' = "dec", NEW h, h = gcHandle'
      PROVE  Reported(h)'
  <2>1. CASE GcPop
    <3>1. sBrokenSessionQueue # << >> /\ h = Head(sBrokenSessionQueue)
      BY <1>4, <2>1 DEF GcPop
    <3>2. 1 \in 1 .. Len(sBrokenSessionQueue) /\ h = sBrokenSessionQueue[1]
      BY <1>0, <3>1, HeadTailProperties, EmptySeq, LenProperties DEF BrokenTypes
    <3> QED  BY <1>2, <3>2 DEF Broken
  <2>2. CASE GcDecrements \/ GcScans \/ GcCollects \/ GcDeletes \/ GcUnlocks \/ GcExits
    BY <1>4, <2>2 DEF GcDecrements, GcScans, GcCollects, GcDeletes, GcUnlocks, GcExits
  <2>3. CASE ApiStep \/ ClientStep \/ UNCHANGED codeVars
    <3>1. UNCHANGED <<gc, gcHandle>>
      BY <2>3, ClientLeaves DEF ApiStep, Login, Logout, DeInitialize, AppCall, LoginPush,
         LoginReadIndex, LoginWriteIndex, LogoutJoinsCt, LogoutJoinsRecv, DeInitLocks,
         DeInitLogsOut, DeInitDeletes, DeInitEnds, gcVars, codeVars
    <3> QED  BY <1>2, <1>4, <3>1 DEF Broken
  <2> QED  BY <2>1, <2>2, <2>3, Cases DEF Gc
<1>5. \A i \in 1 .. Len(sBrokenSessionQueue') : Reported(sBrokenSessionQueue[i])'
  BY <1>3 DEF Reported, Created
<1>6. gc' = "dec" => Reported(gcHandle)'
  BY <1>4 DEF Reported, Created
<1> QED  BY <1>1, <1>5, <1>6 DEF Broken

\* A client loses its reference after EC_Logout has joined connectTimeThread, or
\* when the garbage collection is told that its connection broke.
LEMMA ReferenceGoes ==
  ASSUME Typed, Table, Quiet, Numbered, Broken, [Next]_vars, NEW c \in Clients,
         InList(c)', refCnt'[c] = 0
  PROVE  Settled(c) \/ (InList(c) /\ refCnt[c] = 0)
<1>0. TableTypes /\ Calls /\ ApiTypes /\ ClientTypes
  BY TypeParts DEF Typed
<1> USE DEF Set
<1>1. ASSUME NEW a \in Apps, LoginPush(a)
      PROVE  InList(c) /\ refCnt[c] = 0
  <2>1. /\ InList(c)' <=> InList(c) \/ c = cur[a]
        /\ refCnt' = [refCnt EXCEPT ![cur[a]] = 1]
    BY <1>1, PushAdds DEF LoginPush
  <2> QED  BY <1>0, <2>1 DEF TableTypes
<1>2. ASSUME NEW a \in Apps, LogoutJoinsRecv(a)
      PROVE  Settled(c) \/ (InList(c) /\ refCnt[c] = 0)
  <2>1. /\ UNCHANGED sSessionList /\ ap[a] = "joinRecv"
        /\ refCnt' = [refCnt EXCEPT ![cur[a]] = refCnt[cur[a]] - 1]
    BY <1>2 DEF LogoutJoinsRecv, DropRef
  <2>2. InList(c)
    BY <2>1 DEF InList
  <2> QED  BY <1>0, <2>1, <2>2 DEF Quiet, Settled, TableTypes
<1>3. ASSUME NEW d \in Clients, Leaves(d)
      PROVE  InList(c) /\ refCnt[c] = 0
  BY <1>3 DEF Leaves
<1>4. CASE GcDecrements
  <2>1. UNCHANGED sSessionList /\ gc = "dec"
        /\ (refCnt'[c] = refCnt[c] \/ handle[c] = gcHandle)
    BY <1>0, <1>4 DEF GcDecrements, TableTypes
  <2>2. InList(c) /\ client[c] = "alive"
    BY <2>1 DEF InList, Table
  <2>3. ASSUME handle[c] = gcHandle
        PROVE  Settled(c)
    <3>1. PICK d \in Clients : /\ Created(d) /\ handle[d] = gcHandle
                               /\ client[d] = "alive" => mHasBrokenDetected[d]
      BY <2>1 DEF Broken, Reported
    <3>2. c = d
      BY <2>2, <2>3, <3>1 DEF Numbered, Created
    <3> QED  BY <2>2, <3>1, <3>2 DEF Broken
  <2> QED  BY <2>1, <2>2, <2>3
<1>5. ASSUME UNCHANGED <<sSessionList, refCnt>>
      PROVE  InList(c) /\ refCnt[c] = 0
  BY <1>5 DEF InList
<1>6. ASSUME NEW a \in Apps, NEW d \in Clients, Login(a, d) \/ Logout(a, d)
      PROVE  InList(c) /\ refCnt[c] = 0
  BY <1>5, <1>6 DEF Login, Logout
<1>7. ASSUME NEW a \in Apps,
             \/ DeInitialize(a) \/ LoginReadIndex(a) \/ LoginWriteIndex(a)
             \/ LogoutJoinsCt(a) \/ DeInitLocks(a) \/ DeInitLogsOut(a) \/ DeInitEnds(a)
      PROVE  InList(c) /\ refCnt[c] = 0
  BY <1>5, <1>7 DEF DeInitialize, LoginReadIndex, LoginWriteIndex, LogoutJoinsCt,
     DeInitLocks, DeInitLogsOut, DeInitEnds, tableVars
<1>8. CASE GcPop \/ GcScans \/ GcCollects \/ GcUnlocks \/ GcExits
  BY <1>5, <1>8 DEF GcPop, GcScans, GcCollects, GcUnlocks, GcExits
<1>9. CASE ClientStep \/ UNCHANGED codeVars
  BY <1>5, <1>9, ClientLeaves DEF codeVars, tableVars
<1>10. ASSUME NEW a \in Apps, DeInitDeletes(a)
       PROVE  InList(c) /\ refCnt[c] = 0
  BY <1>3, <1>10, DeInitLeaves
<1>11. CASE GcDeletes
  BY <1>3, <1>11, GcLeave
<1> QED  BY <1>1, <1>2, <1>4, <1>6, <1>7, <1>8, <1>9, <1>10, <1>11, Cases
            DEF ApiStep, AppCall, Gc

\* Who deletes a client has seen its threads end, or the break was early.
LEMMA Deleting ==
  ASSUME Typed, Table, Collected, [Next]_vars, NEW c \in Clients,
         client[c] = "alive", client'[c] = "deleted", ~early'[c]
  PROVE  Ended(c)
<1>0. ClientTypes
  BY TypeParts DEF Typed
<1>1. CASE GcDeletes
  <2>1. c = gcClient /\ UNCHANGED early
    BY <1>0, <1>1, GcLeave DEF Leaves, ClientTypes
  <2> QED  BY <1>1, <2>1 DEF GcDeletes, Collected, Settled, Ended, RecvEnded, Typed, Calls
<1>2. ASSUME NEW a \in Apps, DeInitDeletes(a)
      PROVE  Ended(c)
  <2>1. c = Head(sSessionList)
    BY <1>0, <1>2, DeInitLeaves DEF Leaves, ClientTypes
  <2> QED  BY <1>2, <2>1 DEF DeInitDeletes, Ended
<1>3. ASSUME NEW a \in Apps, NEW d \in Clients, Login(a, d)
      PROVE  FALSE
  BY <1>0, <1>3 DEF Login, Set, ClientTypes
<1>4. ASSUME ~GcDeletes, \A a \in Apps : ~DeInitDeletes(a) /\ \A d \in Clients : ~Login(a, d)
      PROVE  FALSE
  <2>1. CASE ApiStep
    BY <1>4, <2>1 DEF ApiStep, Logout, DeInitialize, AppCall, LoginPush, LoginReadIndex,
       LoginWriteIndex, LogoutJoinsCt, LogoutJoinsRecv, DeInitLocks, DeInitLogsOut,
       DeInitEnds, tableVars
  <2>2. CASE Gc
    BY <1>4, <2>2 DEF Gc, GcPop, GcDecrements, GcScans, GcCollects, GcUnlocks, GcExits,
       GcUnchanged
  <2> QED  BY <2>1, <2>2, Cases, ClientLeaves DEF codeVars
<1> QED  BY <1>1, <1>2, <1>3, <1>4

LEMMA StepCollected ==
  ASSUME Typed, Table, Quiet, Numbered, Broken, Collected, [Next]_vars
  PROVE  Collected'
<1>0. ClientTypes /\ TableTypes /\ GcTypes /\ NoClient \notin Clients
  BY TypeParts DEF Typed, Clients, NoClient
<1>1. \A c \in Clients : /\ Settled(c) => Settled(c)'
                         /\ client[c] = "alive" /\ early[c] => early'[c]
  BY SettledStays
<1>2. ASSUME NEW c \in Clients, InList(c)', refCnt'[c] = 0
      PROVE  Settled(c)'
  BY <1>1, <1>2, ReferenceGoes DEF Collected
<1>3. ASSUME gcClient' # NoClient, NEW g, g = gcClient'
      PROVE  Settled(g)' /\ (gc' = "delete" /\ ~early'[g] => recv'[g] = "off")
  <2>1. g \in Clients
    BY <1>3, StepGcTypes, <1>0 DEF GcTypes
  <2>2. CASE GcCollects
    <3>1. PICK i \in Collectable : /\ g = sSessionList[i]
                                   /\ gc' = "delete" => ~MustJoin(sSessionList[i])
      BY <1>3, <2>2 DEF GcCollects
    <3>2. InList(g) /\ refCnt[g] = 0
      BY <3>1, Listed DEF Collectable, InList
    <3>3. recv' = recv /\ (gc' = "delete" => recv[g] = "off")
      BY <2>2, <3>1 DEF GcCollects, GcUnchanged, MustJoin
    <3> QED  BY <1>1, <2>1, <3>2, <3>3 DEF Collected
  <2>3. ASSUME gcClient' = gcClient, gc' = "delete" => gc = "delete"
        PROVE  Settled(g)' /\ (gc' = "delete" /\ ~early'[g] => recv'[g] = "off")
    <3>1. g = gcClient /\ client[g] = "alive" /\ Settled(g)
      BY <1>3, <2>1, <2>3 DEF Table, Collected
    <3>2. ASSUME gc' = "delete", ~early'[g]
          PROVE  recv'[g] = "off"
      <4>1. ct[g] = "done" /\ recv[g] = "off"
        BY <1>1, <1>3, <2>1, <2>3, <3>1, <3>2 DEF Settled, Collected
      <4> QED  BY <2>1, <4>1, RecvMoves
    <3> QED  BY <1>1, <2>1, <3>1, <3>2
  <2>4. CASE GcDeletes
    BY <1>3, <2>4 DEF GcDeletes
  <2>5. CASE GcPop \/ GcDecrements \/ GcScans \/ GcUnlocks \/ GcExits
    BY <2>3, <2>5 DEF GcPop, GcDecrements, GcScans, GcUnlocks, GcExits
  <2>6. CASE ApiStep \/ ClientStep \/ UNCHANGED codeVars
    <3>1. UNCHANGED <<gc, gcClient>>
      BY <2>6, ClientLeaves DEF ApiStep, Login, Logout, DeInitialize, AppCall, LoginPush,
         LoginReadIndex, LoginWriteIndex, LogoutJoinsCt, LogoutJoinsRecv, DeInitLocks,
         DeInitLogsOut, DeInitDeletes, DeInitEnds, gcVars, codeVars
    <3> QED  BY <2>3, <3>1
  <2> QED  BY <2>2, <2>4, <2>5, <2>6, Cases DEF Gc
<1>4. ASSUME NEW c \in Clients, client'[c] = "deleted", ~early'[c]
      PROVE  Ended(c)'
  <2>1. CASE client[c] = "alive"
    <3>1. Ended(c)
      BY <1>4, <2>1, Deleting
    <3> QED  BY <3>1, EndedStays
  <2>2. CASE client[c] = "deleted"
    <3>1. ~early[c]
      <4>1. Marks(c)
        BY MarksMove
      <4> QED  BY <1>4, <2>2, <4>1 DEF Marks
    <3>2. Ended(c)
      BY <2>2, <3>1 DEF Collected, NoThreadOutlivesClient, Ended
    <3> QED  BY <3>2, EndedStays
  <2>3. client[c] # "none"
    BY <1>4, ClientMoves
  <2> QED  BY <1>0, <2>1, <2>2, <2>3 DEF ClientTypes
<1>5. NoThreadOutlivesClient'
  BY <1>4 DEF NoThreadOutlivesClient, Ended
<1>6. gcClient' # NoClient =>
        /\ Settled(gcClient)'
        /\ gc' = "delete" /\ ~early'[gcClient'] => recv'[gcClient'] = "off"
  BY <1>3 DEF Settled
<1> QED  BY <1>2, <1>5, <1>6 DEF Collected

IInv == Typed /\ Table /\ Quiet /\ Numbered /\ Broken /\ Collected

\* The inductive invariant of a process that logs in from one thread at a time.
THEOREM Inductive == SerialLogins /\ Spec => []IInv
<1>1. Init => IInv
  BY InitTyped, InitTable, InitQuiet, InitNumbered, InitCollected DEF IInv
<1>2. SerialLogins /\ IInv /\ [Next]_vars => IInv'
  BY StepTyped, StepTable, StepQuiet, StepNumbered, StepBroken, StepCollected DEF IInv
<1>3. CASE SerialLogins
  BY <1>1, <1>2, <1>3, PTL DEF Spec
<1> QED  BY <1>3

\* A client is deleted after connectTimeThread and cmdRecvThread have ended, unless
\* its connection broke while it was being started: a handle in the queue of
\* broken sessions never stands for another client than the one that reported.
THEOREM ThreadsEndFirst == SerialLogins /\ Spec => []NoThreadOutlivesClient
<1>1. IInv => NoThreadOutlivesClient
  BY DEF IInv, Collected
<1> QED  BY <1>1, Inductive, PTL

----------------------------------------------------------------------------
(* Login results, if the application calls EC_Login one at a time          *)

One(b) == IF b THEN 1 ELSE 0

\* The results that the application was told and those that may still come: one
\* for a login that is being started, one for a command that is not answered, one
\* for a refusal that cmdRecvThread is about to handle.
Pending(c) == results[c] + asked[c] + One(recv[c] = "wantLock")
                + One(ct[c] \in {"off", "connecting", "won"})

Due == \A c \in Clients : Pending(c) <= 1 + unasked[c]

LEMMA InitDue == Init => Due
BY DEF Init, Due, Pending, One

\* A login answer finds the session that it is for and no other.
LEMMA OwnSession ==
  ASSUME Typed, Table, Numbered, NEW c \in Clients, client[c] = "alive"
  PROVE  FirstWith(handle[c]) \subseteq {c}
<1>1. ASSUME NEW d \in FirstWith(handle[c])
      PROVE  d = c
  <2>1. d \in Clients /\ InList(d) /\ handle[d] = handle[c]
    BY FirstListed
  <2> QED  BY <2>1 DEF Numbered, Table, Created
<1> QED  BY <1>1

LEMMA StepDue ==
  ASSUME Typed, Table, Numbered, Due, [Next]_vars
  PROVE  Due'
<1> SUFFICES ASSUME NEW c \in Clients PROVE Pending(c)' <= 1 + unasked'[c]
  BY DEF Due
<1>0. /\ ClientTypes /\ CountTypes
      /\ results[c] \in Nat /\ asked[c] \in Nat /\ unasked[c] \in Nat
      /\ Pending(c) <= 1 + unasked[c]
  BY TypeParts DEF Typed, CountTypes, Due
<1>1. ASSUME UNCHANGED <<results[c], asked[c], unasked[c], recv[c], ct[c]>>
      PROVE  Pending(c)' <= 1 + unasked'[c]
  BY <1>0, <1>1 DEF Pending
<1> USE DEF Set, ClientTypes, CountTypes
<1>2. ASSUME NEW a \in Apps, LoginPush(a)
      PROVE  Pending(c)' <= 1 + unasked'[c]
  <2>1. CASE cur[a] = c
    <3>1. ct[c] = "off"
      BY <1>2, <2>1 DEF LoginPush, Table, Pushing, Fresh
    <3> QED  BY <1>0, <1>2, <2>1, <3>1 DEF LoginPush, Pending, One
  <2>2. CASE cur[a] # c
    BY <1>0, <1>1, <1>2, <2>2 DEF LoginPush
  <2> QED  BY <2>1, <2>2
<1>3. ASSUME NEW d \in Clients, d # c,
             ConnectTime(d) \/ LoginAnswer(d) \/ RecvExits(d) \/ RecvBroken(d)
      PROVE  Pending(c)' <= 1 + unasked'[c]
  BY <1>0, <1>1, <1>3 DEF ConnectTime, ConnectWins, ConnectFails, SendLoginCmd, StartRecv,
     LoginAnswer, RecvExits, RecvBroken
<1>4. CASE ConnectWins(c) \/ ConnectFails(c)
  BY <1>0, <1>4 DEF ConnectWins, ConnectFails, Pending, One
<1>5. CASE SendLoginCmd(c)
  BY <1>0, <1>5 DEF SendLoginCmd, Pending, One
<1>6. CASE StartRecv(c)
  BY <1>0, <1>6 DEF StartRecv, Pending, One
<1>7. CASE LoginAnswer(c)
  BY <1>0, <1>7 DEF LoginAnswer, Pending, One
<1>8. CASE RecvExits(c) \/ RecvBroken(c)
  BY <1>0, <1>8 DEF RecvExits, RecvBroken, Pending, One
<1>9. ASSUME NEW d \in Clients, SenderBroken(d)
      PROVE  Pending(c)' <= 1 + unasked'[c]
  BY <1>1, <1>9 DEF SenderBroken
<1>10. ASSUME NEW d \in Clients, RetryLogin(d), client[d] = "alive"
       PROVE  Pending(c)' <= 1 + unasked'[c]
  <2> DEFINE found == {e \in FirstWith(handle[d]) : Referenced(e)}
             rsa   == {e \in found : mIsRsaLogin[e]}
  <2>1. rsa \subseteq {d}
    BY <1>10, OwnSession
  <2>2. PICK queued \in SUBSET rsa :
          /\ asked' = [e \in Clients |-> IF e \in queued THEN asked[e] + 1 ELSE asked[e]]
          /\ IF TellsRefusal(found, rsa) \/ queued # rsa
               THEN Set(results, d, results[d] + 1)
               ELSE UNCHANGED results
    BY <1>10 DEF RetryLogin
  <2>3. recv[d] = "wantLock" /\ recv' = [recv EXCEPT ![d] = "running"] /\ UNCHANGED <<ct, unasked>>
    BY <1>10 DEF RetryLogin
  <2>4. TellsRefusal(found, rsa) => rsa = {}
    BY DEF TellsRefusal
  <2> HIDE DEF found, rsa
  <2>5. CASE d # c
    <3>1. c \notin queued
      BY <2>1, <2>2, <2>5
    <3> QED  BY <1>0, <1>1, <2>2, <2>3, <2>5, <3>1
  <2>6. CASE d = c
    <3>1. \/ asked'[c] = asked[c] /\ results'[c] \in {results[c], results[c] + 1}
          \/ asked'[c] = asked[c] + 1 /\ results'[c] = results[c]
      <4>1. CASE c \in queued
        <5>1. queued = rsa /\ rsa # {}
          BY <2>1, <2>2, <2>6, <4>1
        <5> QED  BY <2>2, <2>4, <4>1, <5>1
      <4>2. CASE c \notin queued
        BY <1>0, <2>2, <2>6, <4>2
      <4> QED  BY <4>1, <4>2
    <3>2. recv[c] = "wantLock" /\ recv'[c] = "running" /\ ct'[c] = ct[c]
          /\ unasked'[c] = unasked[c]
      BY <1>0, <2>3, <2>6
    <3> QED  BY <1>0, <3>1, <3>2 DEF Pending, One
  <2> QED  BY <2>5, <2>6
<1>11. ASSUME NEW d \in Clients, Leaves(d)
       PROVE  Pending(c)' <= 1 + unasked'[c]
  <2>1. /\ UNCHANGED <<results, unasked, recv, ct>>
        /\ asked'[c] = 0 \/ asked'[c] = asked[c]
    BY <1>0, <1>11 DEF Leaves
  <2> QED  BY <1>0, <2>1 DEF Pending, One
<1>12. ASSUME ApiStep, \A a \in Apps : ~LoginPush(a) /\ ~DeInitDeletes(a)
       PROVE  UNCHANGED <<results, asked, unasked, recv, ct>>
  BY <1>12 DEF ApiStep, Login, Logout, DeInitialize, AppCall, LoginReadIndex,
     LoginWriteIndex, LogoutJoinsCt, LogoutJoinsRecv, DeInitLocks, DeInitLogsOut,
     DeInitEnds, clientVars
<1>13. CASE GcPop \/ GcDecrements \/ GcScans \/ GcCollects \/ GcUnlocks \/ GcExits
  BY <1>1, <1>13 DEF GcPop, GcDecrements, GcScans, GcCollects, GcUnlocks, GcExits,
     GcUnchanged, FieldsUnchanged
<1>14. CASE GcDeletes
  BY <1>11, <1>14, GcLeave
<1>15. ASSUME NEW a \in Apps, DeInitDeletes(a)
       PROVE  Pending(c)' <= 1 + unasked'[c]
  BY <1>11, <1>15, DeInitLeaves
<1>16. CASE ApiStep
  BY <1>1, <1>2, <1>12, <1>15, <1>16
<1>17. CASE ClientStep
  <2>1. PICK d \in Clients : client[d] = "alive" /\ (ConnectTime(d) \/ CmdRecv(d) \/ Link(d))
    BY <1>17 DEF ClientStep, ConnectTime, CmdRecv, Link
  <2>2. \/ ConnectTime(d) \/ RetryLogin(d) \/ RecvExits(d) \/ LoginAnswer(d)
        \/ RecvBroken(d) \/ SenderBroken(d)
    BY <2>1 DEF CmdRecv, Link
  <2>3. CASE d = c
    BY <1>4, <1>5, <1>6, <1>7, <1>8, <1>9, <1>10, <2>1, <2>2, <2>3 DEF ConnectTime
  <2>4. CASE d # c
    BY <1>3, <1>9, <1>10, <2>1, <2>2, <2>4
  <2> QED  BY <2>3, <2>4
<1>18. CASE UNCHANGED codeVars
  BY <1>1, <1>18 DEF codeVars, clientVars
<1> QED  BY <1>13, <1>14, <1>16, <1>17, <1>18, Cases DEF Gc

\* The application hears at most once how a login ended, whether or not the first
\* attempt was refused and repeated without encryption, and once more for each
\* answer that the device sent without being asked.
THEOREM ResultOnce == SerialLogins /\ Spec => []OneResultPerLogin
<1>1. Typed /\ Due => OneResultPerLogin
  <2> SUFFICES ASSUME Typed, Due, NEW c \in Clients PROVE results[c] <= 1 + unasked[c]
    BY DEF OneResultPerLogin
  <2>1. /\ results[c] \in Nat /\ unasked[c] \in Nat /\ asked[c] \in Nat
        /\ Pending(c) <= 1 + unasked[c]
    BY DEF Typed, TypeOK, Due
  <2> QED  BY <2>1 DEF Pending, One
<1>2. CASE SerialLogins
  BY <1>1, <1>2, InitTyped, InitTable, InitNumbered, InitDue, StepTyped, StepTable,
     StepNumbered, StepDue, PTL DEF Spec
<1> QED  BY <1>2
============================================================================
