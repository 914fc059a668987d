--------------------------- MODULE Connect_proofs ---------------------------
(***************************************************************************)
(* Every invariant that the runs of Connect check, proved for any set of   *)
(* connection kinds and any number of attempts, with or without logOut.    *)
(*                                                                         *)
(* IInv has three layers, each inductive on top of the one before:         *)
(*   Typed    TypeOK, and a thread with a session has its handle in ret;   *)
(*   Joins    who joins which thread, and what a join is worth;            *)
(*   Hands    where the handle of every open session is kept.              *)
(***************************************************************************)
EXTENDS Connect, TLAPS

\* The thread of kind k works on the session ret[k].
Working(k) == pc[k] \in {"ack", "reading", "won"}

Typed ==
  /\ TypeOK
  /\ \A k \in Kinds : Working(k) \/ pc[k] = "publish" =>
       ret[k] \in Sessions /\ ret[k][1] = k

\* The place where each of the two joining threads waits for a thread.
CtWait(t) == IF t = "bcast" THEN "waitBcast" ELSE
             IF t = "lan" THEN "waitLan" ELSE
             IF t = "p2p" THEN "waitP2p" ELSE "waitRelay"

\* The places before connectTimeThread, and before logOut, joins a thread.
CtBefore(t) ==
  {"poll", "break", "stopBcast"} \cup
  IF t = "bcast" THEN {} ELSE {"waitBcast", "joinLan"} \cup
  IF t = "lan" THEN {} ELSE {"waitLan", "joinP2p"} \cup
  IF t = "p2p" THEN {} ELSE {"waitP2p", "joinRelay"}

LoBefore(t) ==
  {"idle", "stopBcast"} \cup
  IF t = "bcast" THEN {} ELSE {"waitBcast", "break", "joinLan"} \cup
  IF t = "lan" THEN {} ELSE {"waitLan", "joinP2p"} \cup
  IF t = "p2p" THEN {} ELSE {"waitP2p", "joinRelay"}

\* A join claimed by a thread is either still waited for or has been worth it.
Joins ==
  /\ \A t \in Joinable :
       /\ joiner[t] = "ctime"  => ct = CtWait(t) \/ Exited(t)
       /\ joiner[t] = "logout" => lo # "idle" /\ (lo = CtWait(t) \/ Exited(t))
       /\ ct \notin CtBefore(t) => joiner[t] # "none"
       /\ lo \notin LoBefore(t) => joiner[t] # "none"
  /\ \A k \in Kinds \ ConnectType : pc[k] = "off"
  /\ \A k \in ConnectType : pc[k] # "off"
  /\ outcome = "none" <=> ct # "done"
  /\ lo = "done" => ct = "done"

\* connectTimeThread has closed the losers.
Closed == ct \in {"start", "done"}

\* The session a thread works on is open.
WorksOnOpen == \A k \in Kinds : Working(k) => ret[k] \in open \ ackTimedOut

\* A stored handle is of its kind, is stored for good and is of an open session.
StoredIsOpen ==
  \A k \in Kinds : mKindSockHandle[k] # NoSession =>
    /\ pc[k] \in {"publish", "exited"}
    /\ mKindSockHandle[k][1] = k
    /\ lo # "done" => mKindSockHandle[k] \in open \ ackTimedOut

\* A success is published after its handle.
SuccessHasHandle ==
  \A k \in Kinds :
    /\ mIsConnectSuccess[k] => pc[k] = "exited"
    /\ (pc[k] = "publish" \/ mIsConnectSuccess[k]) /\ ~Closed =>
         mKindSockHandle[k] # NoSession

\* Of the threads it joined, connectTimeThread keeps one handle.
LosersForgotten ==
  Closed => \A k \in ConnectType : joiner[k] = "ctime" =>
    mKindSockHandle[k] \in {NoSession, sockHandle}

\* Sessions are numbered in the order in which they are opened.
Numbered == \A s \in open \cup ackTimedOut : s[2] <= attempts[s[1]]

\* An open session was given up, or one of the two places knows it.
Accounted ==
  \A s \in open :
    \/ s \in ackTimedOut
    \/ Working(s[1]) /\ ret[s[1]] = s
    \/ mKindSockHandle[s[1]] = s

\* The choice of connectTimeThread.
Choice ==
  /\ sockHandle # NoSession =>
       \E k \in Kinds : sockHandle = mKindSockHandle[k] /\ pc[k] = "exited"
  /\ ct = "poll" => sockHandle = NoSession
  /\ ct # "done" => mSockHandle = NoSession
  /\ ct = "done" /\ lo # "done" => mSockHandle = sockHandle
  /\ lo = "done" => sockHandle \notin open

Hands == /\ WorksOnOpen /\ StoredIsOpen /\ SuccessHasHandle /\ LosersForgotten
         /\ Numbered /\ Accounted /\ Choice

IInv == Typed /\ Joins /\ Hands

----------------------------------------------------------------------------
(* What the proofs need of the data.                                       *)

\* A session is of one of the kinds and is numbered.
LEMMA SessionParts ==
  ASSUME NEW s \in Sessions
  PROVE  s[1] \in Kinds /\ s[2] \in 1 .. MaxAttempts
BY DEF Sessions

\* The next session of a kind is one, and is not numbered as any before.
LEMMA NextSessionParts ==
  ASSUME TypeOK, NEW k \in Kinds, attempts[k] < MaxAttempts
  PROVE  /\ NextSession(k) \in Sessions
         /\ NextSession(k)[1] = k /\ NextSession(k)[2] = attempts[k] + 1
         /\ attempts[k] + 1 \in 0 .. MaxAttempts
BY ConnectAssumption DEF TypeOK, NextSession, Sessions

----------------------------------------------------------------------------
(* Typed.                                                                  *)

\* logIn leaves every variable with its type and no thread with a session.
LEMMA InitTyped == Init => Typed
<1> SUFFICES ASSUME Init PROVE Typed OBVIOUS
<1>1. attempts \in [Kinds -> 0 .. MaxAttempts]
  BY ConnectAssumption DEF Init
<1>2. pc \in [Kinds -> ThreadPc] BY DEF Init, ThreadPc
<1>3. \A k \in Kinds : ~Working(k) /\ pc[k] # "publish"
  BY DEF Init, Working
<1> QED BY <1>1, <1>2, <1>3 DEF Init, Typed, TypeOK, Handles, CtPc, LoPc

\* A step of a connect thread.
LEMMA TypedThread ==
  ASSUME Typed, NEW k \in ConnectType, ConnectThread(k) PROVE Typed'
<1> k \in Kinds BY ConnectAssumption
<1> USE DEF Typed, TypeOK, Working, Handles, ThreadPc, CtPc, LoPc, Joinable,
            Goto, clientVars, kindVars, ctVars, linkVars
<1>1. CASE CallConnect(k) BY <1>1 DEF CallConnect
<1>2. CASE ConnectFails(k) BY <1>2 DEF ConnectFails, AfterFailure
<1>3. CASE ConnectSucceeds(k)
  BY <1>3, NextSessionParts DEF ConnectSucceeds
<1>4. CASE AckLoop(k) BY <1>4 DEF AckLoop
<1>5. CASE AckRead(k)
  <2>1. ackTimedOut' \subseteq Sessions BY <1>5 DEF AckRead
  <2>2. pc' \in [Kinds -> ThreadPc] BY <1>5 DEF AckRead
  <2>3. \A j \in Kinds : Working(j)' \/ pc'[j] = "publish" =>
          Working(j) \/ pc[j] = "publish"
    BY <1>5 DEF AckRead
  <2> QED BY <1>5, <2>1, <2>2, <2>3 DEF AckRead
<1>6. CASE StoreHandle(k) BY <1>6 DEF StoreHandle
<1>7. CASE StoreSuccess(k) BY <1>7 DEF StoreSuccess
<1> QED BY <1>1, <1>2, <1>3, <1>4, <1>5, <1>6, <1>7 DEF ConnectThread

\* A step of connectTimeThread keeps the types.
LEMMA TypedConnectTime == ASSUME Typed, ConnectTime PROVE Typed'
<1> USE DEF Typed, TypeOK, Working, Handles, CtPc, CtUnchanged, clientVars,
            kindVars, ctVars, linkVars, Kinds
<1>1. CASE Poll BY <1>1 DEF Poll
<1>2. CASE PollTimesOut BY <1>2 DEF PollTimesOut
<1>3. CASE BreakOthers BY <1>3 DEF BreakOthers, BreakCalls
<1>4. CASE StopBroadcast BY <1>4 DEF StopBroadcast, Claim
<1>5. ASSUME NEW t, NEW at, NEW wait \in CtPc, NEW next \in CtPc,
             CtJoin(t, at, wait, next)
      PROVE  Typed'
  BY <1>5 DEF CtJoin, Claim
<1>6. ASSUME NEW t, NEW wait, NEW next \in CtPc, CtJoined(t, wait, next)
      PROVE  Typed'
  BY <1>6 DEF CtJoined
<1>7. CASE CloseOthers BY <1>7 DEF CloseOthers
<1>8. CASE StartSession BY <1>8 DEF StartSession
<1> QED BY <1>1, <1>2, <1>3, <1>4, <1>5, <1>6, <1>7, <1>8 DEF ConnectTime

\* A step of logOut.
LEMMA TypedLogOut == ASSUME Typed, LogOutThread PROVE Typed'
<1> USE DEF Typed, TypeOK, Working, Handles, LoPc, LoUnchanged, clientVars,
            kindVars, ctVars, linkVars
<1>1. CASE LogOut BY <1>1 DEF LogOut
<1>2. CASE LoBreak BY <1>2 DEF LoBreak, BreakCalls
<1>3. ASSUME NEW t, NEW at, NEW wait \in LoPc, NEW next \in LoPc,
             LoJoin(t, at, wait, next)
      PROVE  Typed'
  BY <1>3 DEF LoJoin, Claim
<1>4. ASSUME NEW t, NEW wait, NEW next \in LoPc, LoJoined(t, wait, next)
      PROVE  Typed'
  BY <1>4 DEF LoJoined
<1>5. CASE LoFinish BY <1>5 DEF LoFinish, BreakCalls, CloseConnection
<1> QED BY <1>1, <1>2, <1>3, <1>4, <1>5 DEF LogOutThread

\* Every step keeps the types.
LEMMA TypedStep == ASSUME Typed, [Next]_vars PROVE Typed'
<1> USE DEF Typed, TypeOK, Working, clientVars, kindVars, ctVars, linkVars
<1>1. ASSUME NEW k \in ConnectType, ConnectThread(k) PROVE Typed'
  BY <1>1, TypedThread
<1>2. CASE BroadcastStart BY <1>2 DEF BroadcastStart
<1>3. CASE BroadcastStops BY <1>3 DEF BroadcastStops
<1>4. CASE ForeignBreak BY <1>4 DEF ForeignBreak, BreakCalls
<1>5. CASE ConnectTime BY <1>5, TypedConnectTime
<1>6. CASE LogOutThread BY <1>6, TypedLogOut
<1>7. CASE UNCHANGED vars BY <1>7 DEF vars
<1> QED
  BY <1>1, <1>2, <1>3, <1>4, <1>5, <1>6, <1>7 DEF Next, BroadcastSends, Finished

\* Every variable keeps its type; in particular no connect thread hands on or
\* gives up a session that it does not have.
THEOREM TypeCorrect == Spec => []TypeOK
<1>1. Init => Typed BY InitTyped
<1>2. Typed /\ [Next]_vars => Typed' BY TypedStep
<1>3. Typed => TypeOK BY DEF Typed
<1> QED BY <1>1, <1>2, <1>3, PTL DEF Spec

----------------------------------------------------------------------------
(* Joins.                                                                  *)

\* When logIn returns nobody has joined a thread.
LEMMA InitJoins == Init => Joins
<1> SUFFICES ASSUME Init PROVE Joins OBVIOUS
<1>1. \A t : "poll" \in CtBefore(t) /\ "idle" \in LoBefore(t)
  BY DEF CtBefore, LoBefore
<1>2. \A k \in ConnectType : pc[k] = "start"
  BY ConnectAssumption DEF Init
<1>3. \A k \in Kinds \ ConnectType : pc[k] = "off" BY DEF Init
<1>4. \A t \in Joinable : joiner[t] = "none" BY DEF Init
<1>5. ct = "poll" /\ lo = "idle" /\ outcome = "none" BY DEF Init
<1> QED BY <1>1, <1>2, <1>3, <1>4, <1>5 DEF Joins

\* A step that ends threads, starts none and joins none.
LEMMA JoinsKept ==
  ASSUME Joins, UNCHANGED <<ct, lo, joiner, outcome>>,
         \A t \in Joinable : Exited(t) => Exited(t)',
         \A k \in Kinds : pc'[k] = "off" <=> pc[k] = "off"
  PROVE  Joins'
BY ConnectAssumption DEF Joins

\* A connect thread moves only towards its end.
LEMMA JoinsThread ==
  ASSUME Typed, Joins, NEW k \in ConnectType, ConnectThread(k) PROVE Joins'
<1> k \in Kinds BY ConnectAssumption
<1> USE DEF Typed, TypeOK
<1>1. /\ pc[k] \notin {"off", "exited"} /\ pc'[k] # "off"
      /\ \A j \in Kinds : j # k => pc'[j] = pc[j]
      /\ UNCHANGED <<bcast, ct, lo, joiner, outcome>>
  <2> USE DEF Goto, ctVars
  <2>1. CASE CallConnect(k) BY <2>1 DEF CallConnect
  <2>2. CASE ConnectFails(k) BY <2>2 DEF ConnectFails, AfterFailure
  <2>3. CASE ConnectSucceeds(k) BY <2>3 DEF ConnectSucceeds
  <2>4. CASE AckLoop(k) BY <2>4 DEF AckLoop
  <2>5. CASE AckRead(k) BY <2>5 DEF AckRead
  <2>6. CASE StoreHandle(k) BY <2>6 DEF StoreHandle
  <2>7. CASE StoreSuccess(k) BY <2>7 DEF StoreSuccess
  <2> QED BY <2>1, <2>2, <2>3, <2>4, <2>5, <2>6, <2>7 DEF ConnectThread
<1>2. \A t \in Joinable : Exited(t) => Exited(t)'
  BY <1>1, ConnectAssumption DEF Joinable, Exited
<1> QED BY <1>1, <1>2, JoinsKept

\* connectTimeThread goes past a join only when the thread has ended.
LEMMA JoinsConnectTime == ASSUME Typed, Joins, ConnectTime PROVE Joins'
<1> USE ConnectAssumption DEF Typed, TypeOK, CtUnchanged, clientVars, linkVars
<1>1. UNCHANGED <<pc, bcast, lo>>
  BY DEF ConnectTime, Poll, PollTimesOut, BreakOthers, StopBroadcast, CtJoin,
         CtJoined, CloseOthers, StartSession
<1>2. \A t \in Joinable : Exited(t) <=> Exited(t)'
  BY <1>1 DEF Exited
<1> USE <1>1, <1>2 DEF Joins, CtWait, CtBefore, LoBefore, Joinable, Kinds
<1>3. CASE Poll \/ PollTimesOut \/ BreakOthers
  BY <1>3 DEF Poll, PollTimesOut, BreakOthers
<1>4. CASE StopBroadcast BY <1>4 DEF StopBroadcast, Claim, CanWait
<1>5. CASE CtJoined("bcast", "waitBcast", "joinLan") BY <1>5 DEF CtJoined
<1>6. CASE CtJoin("lan", "joinLan", "waitLan", "joinP2p")
  BY <1>6 DEF CtJoin, Claim, CanWait
<1>7. CASE CtJoined("lan", "waitLan", "joinP2p") BY <1>7 DEF CtJoined
<1>8. CASE CtJoin("p2p", "joinP2p", "waitP2p", "joinRelay")
  BY <1>8 DEF CtJoin, Claim, CanWait
<1>9. CASE CtJoined("p2p", "waitP2p", "joinRelay") BY <1>9 DEF CtJoined
<1>10. CASE CtJoin("relay", "joinRelay", "waitRelay", "close")
  BY <1>10 DEF CtJoin, Claim, CanWait
<1>11. CASE CtJoined("relay", "waitRelay", "close") BY <1>11 DEF CtJoined
<1>12. CASE CloseOthers BY <1>12 DEF CloseOthers
<1>13. CASE StartSession BY <1>13 DEF StartSession
<1> QED
  BY <1>3, <1>4, <1>5, <1>6, <1>7, <1>8, <1>9, <1>10, <1>11, <1>12, <1>13
     DEF ConnectTime

\* logOut goes past a join only when the thread has ended or is joined by
\* connectTimeThread.
LEMMA JoinsLogOut == ASSUME Typed, Joins, LogOutThread PROVE Joins'
<1> USE ConnectAssumption DEF Typed, TypeOK, LoUnchanged, ctVars
<1>1. UNCHANGED <<pc, bcast, ct, outcome>>
  BY DEF LogOutThread, LogOut, LoJoin, LoJoined, LoBreak, LoFinish
<1>2. \A t \in Joinable : Exited(t) <=> Exited(t)'
  BY <1>1 DEF Exited
<1> USE <1>1, <1>2 DEF Joins, CtWait, CtBefore, LoBefore, Joinable, Kinds
<1>3. CASE LogOut BY <1>3 DEF LogOut
<1>4. CASE LoJoin("bcast", "stopBcast", "waitBcast", "break")
  BY <1>4 DEF LoJoin, Claim, CanWait
<1>5. CASE LoJoined("bcast", "waitBcast", "break") BY <1>5 DEF LoJoined
<1>6. CASE LoBreak BY <1>6 DEF LoBreak
<1>7. CASE LoJoin("lan", "joinLan", "waitLan", "joinP2p")
  BY <1>7 DEF LoJoin, Claim, CanWait
<1>8. CASE LoJoined("lan", "waitLan", "joinP2p") BY <1>8 DEF LoJoined
<1>9. CASE LoJoin("p2p", "joinP2p", "waitP2p", "joinRelay")
  BY <1>9 DEF LoJoin, Claim, CanWait
<1>10. CASE LoJoined("p2p", "waitP2p", "joinRelay") BY <1>10 DEF LoJoined
<1>11. CASE LoJoin("relay", "joinRelay", "waitRelay", "waitTime")
  BY <1>11 DEF LoJoin, Claim, CanWait
<1>12. CASE LoJoined("relay", "waitRelay", "waitTime") BY <1>12 DEF LoJoined
<1>13. CASE LoFinish BY <1>13 DEF LoFinish
<1> QED
  BY <1>3, <1>4, <1>5, <1>6, <1>7, <1>8, <1>9, <1>10, <1>11, <1>12, <1>13
     DEF LogOutThread

\* Every step keeps Joins.
LEMMA JoinsStep == ASSUME Typed, Joins, [Next]_vars PROVE Joins'
<1> USE DEF clientVars, kindVars, ctVars, linkVars
<1>1. ASSUME NEW k \in ConnectType, ConnectThread(k) PROVE Joins'
  BY <1>1, JoinsThread
<1>2. CASE BroadcastStart
  BY <1>2, JoinsKept DEF BroadcastStart, Exited
<1>3. CASE BroadcastStops
  BY <1>3, JoinsKept DEF BroadcastStops, Exited
<1>4. CASE ForeignBreak BY <1>4, JoinsKept DEF ForeignBreak, Exited
<1>5. CASE ConnectTime BY <1>5, JoinsConnectTime
<1>6. CASE LogOutThread BY <1>6, JoinsLogOut
<1>7. CASE UNCHANGED vars BY <1>7, JoinsKept DEF vars, Exited
<1> QED
  BY <1>1, <1>2, <1>3, <1>4, <1>5, <1>6, <1>7 DEF Next, BroadcastSends, Finished

----------------------------------------------------------------------------
(* Hands.                                                                  *)

\* When logIn returns no session is open.
LEMMA InitHands == Init => Hands
<1> SUFFICES ASSUME Init PROVE Hands OBVIOUS
<1> USE DEF Init
<1>1. \A k \in Kinds : ~Working(k) /\ pc[k] # "publish" BY DEF Working
<1>2. WorksOnOpen BY <1>1 DEF WorksOnOpen
<1>3. StoredIsOpen BY DEF StoredIsOpen
<1>4. SuccessHasHandle BY <1>1 DEF SuccessHasHandle
<1>5. LosersForgotten BY DEF LosersForgotten, Closed
<1>6. Numbered /\ Accounted BY DEF Numbered, Accounted
<1>7. Choice BY DEF Choice
<1> QED BY <1>2, <1>3, <1>4, <1>5, <1>6, <1>7 DEF Hands

\* When logOut has joined all every thread has ended, as it or connectTimeThread
\* has waited for it; when the losers are closed those that it joined have.
LEMMA EndedThreads ==
  ASSUME Typed, Joins, NEW k \in ConnectType
  PROVE  /\ lo \in {"waitTime", "done"} /\ ct = "done" => pc[k] = "exited"
         /\ Closed /\ joiner[k] = "ctime" => pc[k] = "exited"
<1> USE DEF Typed, TypeOK
<1>1. k \in Joinable /\ Exited(k) <=> k \in Joinable /\ pc[k] = "exited"
  BY ConnectAssumption DEF Exited, Kinds
<1>2. k \in Joinable /\ k \in {"lan", "p2p", "relay"} /\ k # "bcast"
  BY ConnectAssumption DEF Joinable, Kinds
<1>3. joiner[k] \in {"none", "ctime", "logout"} BY <1>2
<1>4. CtWait(k) \notin {"start", "waitTime", "done"} BY DEF CtWait
<1>5. "waitTime" \notin LoBefore(k) /\ "done" \notin LoBefore(k)
  BY DEF LoBefore
<1> QED BY <1>1, <1>2, <1>3, <1>4, <1>5 DEF Joins, Closed

\* A step that only moves connectTimeThread or logOut on, and joins.
LEMMA HandsKept ==
  ASSUME Hands,
         UNCHANGED <<mKindSockHandle, mIsConnectSuccess, mSockHandle, pc, ret,
                     attempts, sockHandle, linkVars>>,
         Closed' <=> Closed, ct' = "poll" => ct = "poll",
         ct' = "done" <=> ct = "done", lo' = "done" <=> lo = "done",
         Closed => \A k \in ConnectType :
                     joiner'[k] = "ctime" => joiner[k] = "ctime"
  PROVE  Hands'
<1> USE DEF Hands, linkVars
<1>1. \A k \in Kinds : Working(k)' <=> Working(k) BY DEF Working
<1>2. WorksOnOpen' BY <1>1 DEF WorksOnOpen
<1>3. StoredIsOpen' BY DEF StoredIsOpen
<1>4. SuccessHasHandle' BY DEF SuccessHasHandle
<1>5. LosersForgotten' BY DEF LosersForgotten
<1>6. Numbered' BY DEF Numbered
<1>7. Accounted' BY DEF Accounted, Working
<1>8. Choice' BY DEF Choice
<1> QED BY <1>2, <1>3, <1>4, <1>5, <1>6, <1>7, <1>8

\* A connect thread opens, publishes, closes or gives up its own session only.
LEMMA HandsThread ==
  ASSUME Typed, Joins, Hands, NEW k \in ConnectType, ConnectThread(k)
  PROVE  Hands'
<1> k \in Kinds BY ConnectAssumption
<1> USE DEF Typed, TypeOK, Hands, Goto, Working, clientVars, ctVars, linkVars
<1>a. \A s \in open \cup ackTimedOut : s \in Sessions /\ s[1] \in Kinds
  BY SessionParts
<1>b. Closed' <=> Closed
  BY DEF Closed, ConnectThread, CallConnect, ConnectFails, AfterFailure,
       ConnectSucceeds,
         AckLoop, AckRead, StoreHandle, StoreSuccess
<1>1. CASE CallConnect(k)
  <2>1. mKindSockHandle' = mKindSockHandle BY <1>1 DEF CallConnect, StoredIsOpen
  <2> USE <1>1, <1>b, <2>1 DEF CallConnect
  <2>2. WorksOnOpen' /\ StoredIsOpen' BY DEF WorksOnOpen, StoredIsOpen
  <2>3. SuccessHasHandle' BY DEF SuccessHasHandle
  <2>4. LosersForgotten' BY DEF LosersForgotten
  <2>5. Numbered' /\ Accounted' BY <1>a DEF Numbered, Accounted
  <2>6. Choice' BY DEF Choice
  <2> QED BY <2>2, <2>3, <2>4, <2>5, <2>6
<1>2. CASE ConnectFails(k)
  <2> USE <1>2, <1>b DEF ConnectFails, AfterFailure
  <2>2. WorksOnOpen' /\ StoredIsOpen' BY DEF WorksOnOpen, StoredIsOpen
  <2>3. SuccessHasHandle' BY DEF SuccessHasHandle
  <2>4. LosersForgotten' BY DEF LosersForgotten
  <2>5. Numbered' /\ Accounted' BY <1>a DEF Numbered, Accounted
  <2>6. Choice' BY DEF Choice
  <2> QED BY <2>2, <2>3, <2>4, <2>5, <2>6
<1>3. CASE ConnectSucceeds(k)
  <2> USE <1>3, <1>b DEF ConnectSucceeds
  <2> DEFINE new == NextSession(k)
  <2>1. new \in Sessions /\ new[1] = k /\ new[2] = attempts[k] + 1
    BY NextSessionParts
  <2>2. new \notin open \cup ackTimedOut BY <2>1 DEF Numbered
  <2>3. \A j \in Kinds \ {k} : pc'[j] = pc[j] /\ ret'[j] = ret[j]
    OBVIOUS
  <2>4. pc'[k] = "ack" /\ ret'[k] = new OBVIOUS
  <2>5. open' = open \cup {new} /\ ackTimedOut' = ackTimedOut OBVIOUS
  <2> HIDE DEF new
  <2>6. WorksOnOpen' BY <2>2, <2>3, <2>4, <2>5 DEF WorksOnOpen
  <2>7. StoredIsOpen' BY <2>2, <2>3, <2>5 DEF StoredIsOpen
  <2>8. SuccessHasHandle' BY DEF SuccessHasHandle
  <2>9. LosersForgotten' BY DEF LosersForgotten
  <2>10. Numbered'
    <3>1. attempts'[k] = attempts[k] + 1 OBVIOUS
    <3>2. \A j \in Kinds : attempts'[j] >= attempts[j] /\ attempts[j] \in Nat
      OBVIOUS
    <3>3. \A s \in open \cup ackTimedOut : s[2] \in Nat
      BY <1>a, SessionParts
    <3>4. Numbered /\ k \in Kinds OBVIOUS
    <3>5. \A j \in Kinds : attempts'[j] \in Nat OBVIOUS
    <3> QED BY ONLY <1>a, <2>1, <2>5, <3>1, <3>2, <3>3, <3>4, <3>5
       DEF Numbered
  <2>11. Accounted' BY <1>a, <2>1, <2>3, <2>4, <2>5 DEF Accounted
  <2>12. lo = "done" => pc[k] = "exited" BY EndedThreads DEF Joins
  <2>13. Choice' BY <2>12 DEF Choice
  <2> QED BY <2>6, <2>7, <2>8, <2>9, <2>10, <2>11, <2>13
<1>4. CASE AckLoop(k)
  <2> USE <1>4, <1>b DEF AckLoop
  <2>1. pc[k] = "ack" /\ ret[k][1] = k /\ mKindSockHandle[k] = NoSession
    BY DEF StoredIsOpen
  <2>2. open' \subseteq open /\ \A s \in open : s \in open' \/ s = ret[k]
    OBVIOUS
  <2>3. Working(k)' => open' = open OBVIOUS
  <2>4. WorksOnOpen' BY <2>1, <2>2, <2>3 DEF WorksOnOpen
  <2>5. StoredIsOpen' BY <2>1, <2>2 DEF StoredIsOpen
  <2>6. SuccessHasHandle' BY DEF SuccessHasHandle
  <2>7. LosersForgotten' BY DEF LosersForgotten
  <2>8. Numbered' BY <2>2 DEF Numbered
  <2>9. Accounted' BY <1>a, <2>1, <2>2 DEF Accounted
  <2>10. Choice' BY <2>2 DEF Choice
  <2> QED BY <2>4, <2>5, <2>6, <2>7, <2>8, <2>9, <2>10
<1>5. CASE AckRead(k)
  <2> USE <1>5, <1>b DEF AckRead
  <2>1. /\ pc[k] = "reading" /\ ret[k] \in open
        /\ ret[k][1] = k /\ mKindSockHandle[k] = NoSession
    BY DEF StoredIsOpen, WorksOnOpen
  <2>2. /\ ackTimedOut \subseteq ackTimedOut'
        /\ \A s \in ackTimedOut' : s \in ackTimedOut \/ s = ret[k]
    OBVIOUS
  <2>3. Working(k)' \/ ret[k] \in ackTimedOut' OBVIOUS
  <2>4. WorksOnOpen' BY <2>1, <2>2 DEF WorksOnOpen
  <2>5. StoredIsOpen' BY <2>1, <2>2 DEF StoredIsOpen
  <2>6. SuccessHasHandle' BY DEF SuccessHasHandle
  <2>7. LosersForgotten' BY DEF LosersForgotten
  <2>8. Numbered' BY <2>1, <2>2 DEF Numbered
  <2>9. Accounted' BY <1>a, <2>1, <2>2, <2>3 DEF Accounted
  <2>10. Choice' BY <2>2 DEF Choice
  <2> QED BY <2>4, <2>5, <2>6, <2>7, <2>8, <2>9, <2>10
<1>6. CASE StoreHandle(k)
  <2> USE <1>6, <1>b DEF StoreHandle
  <2>1. ret[k] \in Sessions /\ ret[k] # NoSession /\ ret[k][1] = k
    BY ConnectAssumption
  <2>2. WorksOnOpen' BY DEF WorksOnOpen
  <2>3. StoredIsOpen' BY <2>1 DEF StoredIsOpen, WorksOnOpen
  <2>4. SuccessHasHandle' BY <2>1 DEF SuccessHasHandle
  <2>5. Closed /\ joiner[k] = "ctime" => pc[k] = "exited" BY EndedThreads
  <2>6. LosersForgotten' BY <2>5 DEF LosersForgotten
  <2>7. Numbered'
    <3>1. Numbered /\ UNCHANGED <<open, ackTimedOut, attempts>> OBVIOUS
    <3> QED BY ONLY <3>1 DEF Numbered
  <2>8. Accounted'
    <3>1. /\ mKindSockHandle'[k] = ret[k] /\ UNCHANGED <<open, ackTimedOut, ret>>
          /\ \A j \in Kinds \ {k} : /\ mKindSockHandle'[j] = mKindSockHandle[j]
                                   /\ pc'[j] = pc[j]
      OBVIOUS
    <3>2. Accounted OBVIOUS
    <3>3. mKindSockHandle[k] = NoSession /\ NoSession \notin Sessions
      BY ConnectAssumption DEF StoredIsOpen
    <3> QED BY ONLY <1>a, <3>1, <3>2, <3>3 DEF Accounted, Working
  <2>9. Choice' BY DEF Choice
  <2> QED BY <2>2, <2>3, <2>4, <2>6, <2>7, <2>8, <2>9
<1>7. CASE StoreSuccess(k)
  <2> USE <1>7, <1>b DEF StoreSuccess
  <2>1. WorksOnOpen' BY DEF WorksOnOpen
  <2>2. StoredIsOpen' BY DEF StoredIsOpen
  <2>3. SuccessHasHandle' BY DEF SuccessHasHandle
  <2>4. LosersForgotten' BY DEF LosersForgotten
  <2>5. Numbered' BY DEF Numbered
  <2>6. Accounted' BY <1>a DEF Accounted
  <2>7. Choice' BY DEF Choice
  <2> QED BY <2>1, <2>2, <2>3, <2>4, <2>5, <2>6, <2>7
<1> QED BY <1>1, <1>2, <1>3, <1>4, <1>5, <1>6, <1>7 DEF ConnectThread

\* connectTimeThread closes the sessions of the losers and no other.
LEMMA HandsConnectTime ==
  ASSUME Typed, Joins, Hands, ConnectTime PROVE Hands'
<1> USE DEF CtUnchanged, clientVars, linkVars, Closed
<1>1. CASE Poll
  <2>1. /\ ct = "poll" /\ ct' = "break"
        /\ sockHandle' # sockHandle => \E k \in Kinds :
             mIsConnectSuccess[k] /\ sockHandle' = mKindSockHandle[k]
        /\ UNCHANGED <<clientVars, pc, ret, attempts, open, ackTimedOut, lo,
                       joiner>>
    BY <1>1 DEF Poll, Kinds
  <2>2. /\ WorksOnOpen' /\ StoredIsOpen' /\ SuccessHasHandle'
        /\ LosersForgotten' /\ Numbered' /\ Accounted'
    BY <2>1 DEF Hands, WorksOnOpen, StoredIsOpen, SuccessHasHandle,
                LosersForgotten, Numbered, Accounted, Working
  <2>3. lo # "done" BY <2>1 DEF Joins
  <2>4. sockHandle = NoSession BY <2>1 DEF Hands, Choice
  <2>5. Choice'
    BY <2>1, <2>3, <2>4 DEF Hands, Choice, SuccessHasHandle
  <2> QED BY <2>2, <2>5 DEF Hands
<1>2. CASE PollTimesOut BY <1>2, HandsKept DEF PollTimesOut
<1>3. CASE BreakOthers BY <1>3, HandsKept DEF BreakOthers
<1>4. CASE StopBroadcast BY <1>4, HandsKept DEF StopBroadcast
<1>5. ASSUME NEW t, NEW at \in CtPc \ {"poll", "start", "done"},
             NEW wait \in CtPc \ {"poll", "start", "done"},
             NEW next \in CtPc \ {"poll", "start", "done"},
             CtJoin(t, at, wait, next) \/ CtJoined(t, at, next)
      PROVE  Hands'
  BY <1>5, HandsKept DEF CtJoin, CtJoined
<1>6. CASE CloseOthers
  <2> USE <1>6 DEF CloseOthers, Typed, TypeOK, Hands
  <2>a. \A s \in open : s \in Sessions /\ s[1] \in Kinds BY SessionParts
  <2>1. \A k \in Kinds :
          mKindSockHandle'[k] = IF k \in Losers THEN NoSession
                                ELSE mKindSockHandle[k]
    OBVIOUS
  <2>2. \A k \in Kinds \ Losers : mKindSockHandle[k] = sockHandle
    BY DEF Losers
  <2>3. \A k \in Losers : k \in Kinds /\ mKindSockHandle[k] # sockHandle
    BY DEF Losers
  <2>4. \A s \in open : s \in open' \/ \E k \in Losers : s = mKindSockHandle[k]
    OBVIOUS
  <2>5. open' \subseteq open /\ \A k \in Losers : mKindSockHandle[k] \notin open'
    OBVIOUS
  <2>6. /\ UNCHANGED <<pc, ret, attempts, ackTimedOut, sockHandle,
                       mSockHandle, lo, joiner>>
        /\ Closed' /\ ~Closed /\ ct = "close" /\ ct' = "start"
    OBVIOUS
  <2>7. \A k \in Kinds : Working(k)' <=> Working(k) BY <2>6 DEF Working
  <2>8. WorksOnOpen'
    <3>1. ASSUME NEW k \in Kinds, Working(k), ret[k] \notin open' PROVE FALSE
      <4>1. PICK j \in Losers : ret[k] = mKindSockHandle[j]
        BY <2>4, <3>1 DEF WorksOnOpen
      <4>2. ret[k][1] = k /\ ret[k] # NoSession
        BY <3>1, ConnectAssumption
      <4>3. j = k BY <4>1, <4>2, <2>3 DEF StoredIsOpen
      <4> QED BY <4>1, <4>2, <4>3, <3>1 DEF StoredIsOpen, Working
    <3> QED BY <3>1, <2>6, <2>7 DEF WorksOnOpen
  <2>9. StoredIsOpen'
    <3>1. ASSUME NEW k \in Kinds, mKindSockHandle'[k] # NoSession
          PROVE  /\ mKindSockHandle'[k] = mKindSockHandle[k]
                 /\ \A j \in Losers : mKindSockHandle[j] # mKindSockHandle[k]
      BY <3>1, <2>1, <2>2, <2>3
    <3> QED BY <3>1, <2>4, <2>6 DEF StoredIsOpen
  <2>10. SuccessHasHandle' BY <2>6 DEF SuccessHasHandle
  <2>11. LosersForgotten' BY <2>1, <2>2, ConnectAssumption DEF LosersForgotten
  <2>12. Numbered' BY <2>5, <2>6 DEF Numbered
  <2>13. Accounted'
    <3>1. ASSUME NEW s \in open', mKindSockHandle[s[1]] = s
          PROVE  mKindSockHandle'[s[1]] = s
      BY <3>1, <2>a, <2>1, <2>5
    <3> QED BY <3>1, <2>a, <2>5, <2>6 DEF Accounted, Working
  <2>14. Choice'
    <3>1. ASSUME sockHandle # NoSession
          PROVE  \E k \in Kinds : sockHandle = mKindSockHandle'[k] /\ pc[k] = "exited"
      BY <3>1, <2>1, <2>3 DEF Choice
    <3> QED BY <3>1, <2>6, <2>5 DEF Choice
  <2> QED BY <2>8, <2>9, <2>10, <2>11, <2>12, <2>13, <2>14
<1>7. CASE StartSession
  <2> USE <1>7 DEF StartSession, Hands
  <2>1. lo # "done" BY DEF Joins
  <2>2. mSockHandle' = sockHandle BY DEF Choice
  <2>3. /\ WorksOnOpen' /\ StoredIsOpen' /\ SuccessHasHandle'
        /\ LosersForgotten' /\ Numbered' /\ Accounted'
    BY DEF WorksOnOpen, StoredIsOpen, SuccessHasHandle, LosersForgotten,
           Numbered, Accounted, Working
  <2>4. Choice' BY <2>1, <2>2 DEF Choice
  <2> QED BY <2>3, <2>4
<1> QED
  BY <1>1, <1>2, <1>3, <1>4, <1>5, <1>6, <1>7 DEF ConnectTime, CtPc

\* logOut closes the chosen session only.
LEMMA HandsLogOut ==
  ASSUME Typed, Joins, Hands, LogOutThread PROVE Hands'
<1> USE DEF LoUnchanged, ctVars, linkVars, Closed
<1>1. CASE LogOut BY <1>1, HandsKept DEF LogOut
<1>2. CASE LoBreak BY <1>2, HandsKept DEF LoBreak
<1>3. ASSUME NEW t, NEW at \in LoPc \ {"done"}, NEW wait \in LoPc \ {"done"},
             NEW next \in LoPc \ {"done"}, LoJoin(t, at, wait, next)
      PROVE  Hands'
  <2>1. \A k \in ConnectType : joiner'[k] = "ctime" => joiner[k] = "ctime"
    BY <1>3, ConnectAssumption DEF LoJoin, Claim, Typed, TypeOK, Joinable
  <2> QED BY <1>3, <2>1, HandsKept DEF LoJoin
<1>4. ASSUME NEW t, NEW at \in LoPc \ {"done"}, NEW next \in LoPc \ {"done"},
             LoJoined(t, at, next)
      PROVE  Hands'
  BY <1>4, HandsKept DEF LoJoined
<1>5. CASE LoFinish
  <2> USE <1>5 DEF LoFinish, CloseConnection, Typed, TypeOK, Hands
  <2>1. /\ mSockHandle = sockHandle /\ open' = open \ {sockHandle}
        /\ ct = "done" /\ lo' = "done"
    BY DEF Choice
  <2>2. \A k \in Kinds : ~Working(k)
    <3>1. \A k \in ConnectType : pc[k] = "exited" BY EndedThreads
    <3> QED BY <3>1 DEF Joins, Working
  <2>3. WorksOnOpen' BY <2>2 DEF WorksOnOpen, Working
  <2>4. StoredIsOpen' BY DEF StoredIsOpen
  <2>5. SuccessHasHandle' BY DEF SuccessHasHandle
  <2>6. LosersForgotten' BY DEF LosersForgotten
  <2>7. Numbered' BY DEF Numbered
  <2>8. Accounted' BY DEF Accounted, Working
  <2>9. Choice' BY <2>1 DEF Choice
  <2> QED BY <2>3, <2>4, <2>5, <2>6, <2>7, <2>8, <2>9
<1> QED BY <1>1, <1>2, <1>3, <1>4, <1>5 DEF LogOutThread, LoPc

\* Every step keeps Hands.
LEMMA HandsStep == ASSUME Typed, Joins, Hands, [Next]_vars PROVE Hands'
<1> USE DEF clientVars, kindVars, ctVars, linkVars, Closed
<1>1. ASSUME NEW k \in ConnectType, ConnectThread(k) PROVE Hands'
  BY <1>1, HandsThread
<1>2. CASE BroadcastStart BY <1>2, HandsKept DEF BroadcastStart
<1>3. CASE BroadcastStops BY <1>3, HandsKept DEF BroadcastStops
<1>4. CASE ForeignBreak BY <1>4, HandsKept DEF ForeignBreak
<1>5. CASE ConnectTime BY <1>5, HandsConnectTime
<1>6. CASE LogOutThread BY <1>6, HandsLogOut
<1>7. CASE UNCHANGED vars BY <1>7, HandsKept DEF vars
<1> QED
  BY <1>1, <1>2, <1>3, <1>4, <1>5, <1>6, <1>7 DEF Next, BroadcastSends, Finished

----------------------------------------------------------------------------
(* The theorems.                                                           *)

\* What every reachable state satisfies.
THEOREM Inductive == Spec => []IInv
<1>1. Init => IInv BY InitTyped, InitJoins, InitHands DEF IInv
<1>2. IInv /\ [Next]_vars => IInv' BY TypedStep, JoinsStep, HandsStep DEF IInv
<1> QED BY <1>1, <1>2, PTL DEF Spec

\* A login command goes out, or CONNECT_FAIL is reported, only when no connect
\* thread can open or publish a session any more.
THEOREM ThreadsEnd == Spec => []ThreadsEndBeforeOutcome
<1>1. IInv => ThreadsEndBeforeOutcome
  <2> SUFFICES ASSUME Typed, Joins PROVE ThreadsEndBeforeOutcome BY DEF IInv
  <2> USE DEF Typed, TypeOK, Joins
  <2>1. ASSUME ct = "done", lo = "idle", NEW t \in Joinable PROVE Exited(t)
    <3>1. joiner[t] \in {"ctime", "logout"} BY <2>1 DEF CtBefore
    <3> QED BY <2>1, <3>1 DEF CtWait
  <2> QED
    BY <2>1, ConnectAssumption
       DEF ThreadsEndBeforeOutcome, Joined, Joinable, Exited, Kinds
<1> QED BY <1>1, Inductive, PTL

\* A success seen by the poll has its handle, and the chosen session is open
\* and acknowledged until logOut closes it.
THEOREM ChosenLives == Spec => []ChosenSessionLives
<1>1. IInv => ChosenSessionLives
  <2> SUFFICES ASSUME IInv PROVE ChosenSessionLives OBVIOUS
  <2>1. ASSUME ct = "poll", NEW k \in Kinds, mIsConnectSuccess[k]
        PROVE  mKindSockHandle[k] \in open
    <3>1. mKindSockHandle[k] # NoSession
      BY <2>1 DEF IInv, Hands, SuccessHasHandle, Closed
    <3>2. lo # "done" BY <2>1 DEF IInv, Joins
    <3> QED BY <3>1, <3>2 DEF IInv, Hands, StoredIsOpen
  <2>2. sockHandle # NoSession /\ lo # "done" =>
          sockHandle \in open /\ sockHandle \notin ackTimedOut
    BY DEF IInv, Hands, Choice, StoredIsOpen
  <2> QED BY <2>1, <2>2 DEF ChosenSessionLives
<1> QED BY <1>1, Inductive, PTL

\* A login without a logOut closes every session but the chosen one and those
\* that the ACK timeout gave up.
THEOREM NoStray == Spec => []NoStraySession
<1>1. IInv => NoStraySession
  <2> SUFFICES ASSUME IInv, Closed, lo = "idle", NEW s \in open,
                      s \notin ackTimedOut
               PROVE  s = sockHandle
    BY DEF NoStraySession, Closed
  <2> USE DEF IInv, Typed, TypeOK
  <2>1. s \in Sessions /\ s[1] \in Kinds /\ s # NoSession
    BY SessionParts, ConnectAssumption
  <2>2. ASSUME NEW k \in ConnectType
        PROVE  joiner[k] = "ctime" /\ pc[k] = "exited"
    <3>1. k \in Joinable /\ joiner[k] \in {"none", "ctime", "logout"}
      BY DEF Joinable
    <3>2. ct \notin CtBefore(k) BY DEF Closed, CtBefore
    <3>3. joiner[k] = "ctime" BY <3>1, <3>2 DEF Joins
    <3> QED BY <3>3, EndedThreads
  <2>3. \A k \in Kinds : ~Working(k) BY <2>2 DEF Joins, Working
  <2>4. mKindSockHandle[s[1]] = s BY <2>1, <2>3 DEF Hands, Accounted
  <2>5. s[1] \in ConnectType BY <2>1, <2>4 DEF Hands, StoredIsOpen, Joins
  <2> QED BY <2>1, <2>2, <2>4, <2>5 DEF Hands, LosersForgotten
<1> QED BY <1>1, Inductive, PTL

\* logOut leaves no thread and no session but the two known leaks.
THEOREM LogoutLeaves == Spec => []LogoutLeavesNothing
<1>1. IInv => LogoutLeavesNothing
  <2> SUFFICES ASSUME IInv, lo = "done" PROVE LogoutLeavesNothing
    BY DEF LogoutLeavesNothing
  <2> USE DEF IInv, Typed, TypeOK
  <2>1. ct = "done" BY DEF Joins
  <2>2. \A k \in ConnectType : pc[k] = "exited" BY <2>1, EndedThreads
  <2>3. ASSUME NEW s \in open, s \notin ackTimedOut
        PROVE  \E k \in ConnectType :
                 joiner[k] = "logout" /\ s = mKindSockHandle[k]
    <3>1. s \in Sessions /\ s[1] \in Kinds /\ s # NoSession /\ s # sockHandle
      BY SessionParts, ConnectAssumption DEF Hands, Choice
    <3>2. \A k \in Kinds : ~Working(k) BY <2>2 DEF Joins, Working
    <3>3. mKindSockHandle[s[1]] = s
      BY <2>3, <3>1, <3>2 DEF Hands, Accounted
    <3>4. s[1] \in ConnectType BY <3>1, <3>3 DEF Hands, StoredIsOpen, Joins
    <3>5. joiner[s[1]] # "ctime"
      BY <2>1, <3>1, <3>3, <3>4 DEF Hands, LosersForgotten, Closed
    <3>6. s[1] \in Joinable BY <3>4 DEF Joinable
    <3>7. joiner[s[1]] # "none" BY <2>1, <3>6 DEF Joins, CtBefore
    <3> QED BY <3>3, <3>4, <3>5, <3>6, <3>7
  <2> QED BY <2>1, <2>2, <2>3 DEF LogoutLeavesNothing, Joined
<1> QED BY <1>1, Inductive, PTL

----------------------------------------------------------------------------
(* Who waits for whom.                                                     *)

Waitable == Kinds \cup {"bcast"}
Parties  == Waitable \cup {"ctime", "logout"}

\* t has come to a join, or to a loop that it does not leave, and cannot get
\* past it before u does something; a thread not created does nothing at all.
Awaits(t, u) ==
  \/ t = "ctime"  /\ u \in Waitable /\ ct = CtWait(u) /\ ~Exited(u)
  \/ t = "logout" /\ u \in Waitable /\ lo = CtWait(u) /\ ~Exited(u)
  \/ t = "logout" /\ u = "ctime" /\ lo = "waitTime" /\ ct # "done"
  \/ /\ t \in Kinds /\ u = "ctime"
     /\ \/ pc[t] = "off"
        \/ ~mNeedBreakConnect /\ pc[t] \notin {"won", "publish", "exited"}
  \/ t = "bcast" /\ u = "ctime" /\ BroadcastRunsOn

Unblocked(t) == \A u \in Parties : ~Awaits(t, u)

\* t, the thread it waits for, or the one that this thread waits for, can go on.
GoesOn(t) ==
  \/ Unblocked(t)
  \/ \E u \in Parties : /\ Awaits(t, u)
                        /\ \/ Unblocked(u)
                           \/ \E v \in Parties : Awaits(u, v) /\ Unblocked(v)

\* A login, and a logOut, can go on or waits for a thread that can, unless
\* broadcastThread undid the last stop (CEasyCamClient.cpp:1658).
RaceGoesOn ==
  /\ ct # "done" => GoesOn("ctime") \/ (ct = "waitBcast" /\ BroadcastRunsOn)
  /\ lo \notin {"idle", "done"} =>
       \/ GoesOn("logout")
       \/ /\ ct \notin {"poll", "break", "stopBcast"} /\ BroadcastRunsOn
          /\ "waitBcast" \in {lo, ct}

\* Threads are told to stop before they are joined, and only those that logIn
\* created are joined.
Told ==
  /\ \/ ct \in {"poll", "break"} /\ lo \in LoBefore("lan") \ {"joinLan"}
     \/ mNeedBreakConnect
  /\ \A t \in Waitable : ct = CtWait(t) \/ lo = CtWait(t) => t \in Joinable

LEMMA InitTold == Init => Told
BY DEF Init, Told, LoBefore, CtWait

\* Every step keeps Told: nothing takes mNeedBreakConnect back.
LEMMA ToldStep == ASSUME Typed, Told, [Next]_vars PROVE Told'
<1> USE ConnectAssumption
    DEF Typed, TypeOK, Told, CtWait, LoBefore, Waitable, Kinds, Joinable,
        clientVars, kindVars, ctVars, linkVars
<1>1. ASSUME UNCHANGED <<ct, lo, mNeedBreakConnect>> PROVE Told' BY <1>1
<1>2. ASSUME NEW k \in ConnectType, ConnectThread(k) PROVE Told'
  BY <1>1, <1>2 DEF ConnectThread, CallConnect, ConnectFails, AfterFailure,
       ConnectSucceeds,
                    AckLoop, AckRead, StoreHandle, StoreSuccess
<1>3. CASE BroadcastStart BY <1>1, <1>3 DEF BroadcastStart
<1>4. CASE BroadcastStops BY <1>1, <1>4 DEF BroadcastStops
<1>5. CASE ForeignBreak BY <1>1, <1>5 DEF ForeignBreak
<1>6. CASE ConnectTime
  <2> USE DEF CtUnchanged
  <2>1. CASE Poll \/ PollTimesOut BY <2>1 DEF Poll, PollTimesOut
  <2>2. CASE BreakOthers BY <2>2 DEF BreakOthers
  <2>3. CASE StopBroadcast BY <2>3 DEF StopBroadcast, CanWait
  <2>4. CASE \/ CtJoin("lan", "joinLan", "waitLan", "joinP2p")
             \/ CtJoin("p2p", "joinP2p", "waitP2p", "joinRelay")
             \/ CtJoin("relay", "joinRelay", "waitRelay", "close")
    BY <2>4 DEF CtJoin, CanWait
  <2>5. CASE \/ CtJoined("bcast", "waitBcast", "joinLan")
             \/ CtJoined("lan", "waitLan", "joinP2p")
             \/ CtJoined("p2p", "waitP2p", "joinRelay")
             \/ CtJoined("relay", "waitRelay", "close")
    BY <2>5 DEF CtJoined
  <2>6. CASE CloseOthers \/ StartSession
    BY <2>6 DEF CloseOthers, StartSession
  <2> QED  BY <1>6, <2>1, <2>2, <2>3, <2>4, <2>5, <2>6 DEF ConnectTime
<1>7. CASE LogOutThread
  <2> USE DEF LoUnchanged
  <2>1. CASE LogOut \/ LoBreak \/ LoFinish
    BY <2>1 DEF LogOut, LoBreak, LoFinish
  <2>2. CASE \/ LoJoin("bcast", "stopBcast", "waitBcast", "break")
             \/ LoJoin("lan", "joinLan", "waitLan", "joinP2p")
             \/ LoJoin("p2p", "joinP2p", "waitP2p", "joinRelay")
             \/ LoJoin("relay", "joinRelay", "waitRelay", "waitTime")
    BY <2>2 DEF LoJoin, CanWait
  <2>3. CASE \/ LoJoined("bcast", "waitBcast", "break")
             \/ LoJoined("lan", "waitLan", "joinP2p")
             \/ LoJoined("p2p", "waitP2p", "joinRelay")
             \/ LoJoined("relay", "waitRelay", "waitTime")
    BY <2>3 DEF LoJoined
  <2> QED  BY <1>7, <2>1, <2>2, <2>3 DEF LogOutThread
<1>8. CASE UNCHANGED vars BY <1>1, <1>8 DEF vars
<1> QED
  BY <1>2, <1>3, <1>4, <1>5, <1>6, <1>7, <1>8 DEF Next, BroadcastSends, Finished

\* A connect thread that is joined after it was told to stop waits for nobody.
LEMMA JoinedThreadGoesOn ==
  ASSUME Typed, Joins, Told, NEW k \in Kinds, ct = CtWait(k) \/ lo = CtWait(k)
  PROVE  Unblocked(k)
<1> USE ConnectAssumption DEF Kinds
<1>1. k # "bcast" /\ k # "ctime" /\ k # "logout" OBVIOUS
<1>2. k \in ConnectType BY <1>1 DEF Told, Waitable, Joinable
<1>3. pc[k] # "off" BY <1>2 DEF Joins
<1>4. mNeedBreakConnect BY DEF Told, CtWait, LoBefore
<1> QED BY <1>1, <1>3, <1>4 DEF Unblocked, Awaits

\* connectTimeThread goes on, or joins a broadcastThread that runs on.
LEMMA ConnectTimeGoesOn ==
  ASSUME Typed, Joins, Told, ~(ct = "waitBcast" /\ BroadcastRunsOn),
         NEW u \in Parties, Awaits("ctime", u)
  PROVE  Unblocked(u)
<1> USE DEF Kinds
<1>1. u \in Waitable /\ ct = CtWait(u) BY DEF Awaits
<1>2. CASE u = "bcast" BY <1>1, <1>2 DEF CtWait, Unblocked, Awaits
<1>3. CASE u \in Kinds BY <1>1, <1>3, JoinedThreadGoesOn
<1> QED BY <1>1, <1>2, <1>3 DEF Waitable

\* Whatever is done to the threads of a login, by it, by its logOut or by
\* another login, no cycle of joins arises: only broadcastThread, which undoes
\* a stop that comes before its first line, keeps a login or a logOut waiting.
THEOREM OnlyBroadcastBlocks == Spec => []RaceGoesOn
<1>1. Typed /\ Joins /\ Told => RaceGoesOn
  <2> SUFFICES ASSUME Typed, Joins, Told PROVE RaceGoesOn OBVIOUS
  <2>1. GoesOn("ctime") \/ (ct = "waitBcast" /\ BroadcastRunsOn)
    BY ConnectTimeGoesOn DEF GoesOn, Unblocked
  <2>2. ASSUME ~(/\ ct \notin {"poll", "break", "stopBcast"}
                 /\ BroadcastRunsOn /\ "waitBcast" \in {lo, ct}),
               NEW u \in Parties, Awaits("logout", u)
        PROVE  Unblocked(u) \/ \E v \in Parties : Awaits(u, v) /\ Unblocked(v)
    <3>1. CASE u \in Kinds /\ lo = CtWait(u) BY <3>1, JoinedThreadGoesOn
    <3>2. CASE u = "bcast" /\ lo = "waitBcast"
      <4>1. CASE ~BroadcastRunsOn
        BY <3>2, <4>1 DEF Unblocked, Awaits, Kinds
      <4>2. CASE ct \in {"poll", "break", "stopBcast"}
        <5>1. Unblocked("ctime")
          BY <4>2 DEF Unblocked, Awaits, CtWait, Kinds
        <5>2. Unblocked(u) \/ Awaits(u, "ctime")
          BY <3>2 DEF Unblocked, Awaits, Kinds
        <5> QED BY <5>1, <5>2 DEF Parties
      <4> QED BY <2>2, <3>2, <4>1, <4>2
    <3>3. CASE u = "ctime"
      <4>1. ~(ct = "waitBcast" /\ BroadcastRunsOn) BY <2>2
      <4> QED BY <3>3, <4>1, ConnectTimeGoesOn DEF Unblocked
    <3> QED BY <2>2, <3>1, <3>2, <3>3 DEF Awaits, Waitable, CtWait, Kinds
  <2>3. GoesOn("logout") \/ (/\ ct \notin {"poll", "break", "stopBcast"}
                             /\ BroadcastRunsOn /\ "waitBcast" \in {lo, ct})
    BY <2>2 DEF GoesOn, Unblocked
  <2> QED BY <2>1, <2>3 DEF RaceGoesOn
<1> QED
  BY <1>1, InitTyped, InitJoins, InitTold, TypedStep, JoinsStep, ToldStep, PTL
     DEF Spec
=============================================================================
