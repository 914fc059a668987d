------------------------------ MODULE Connect ------------------------------
(***************************************************************************)
(* The connection race of one CEasyCamClient (CEasyCamClient.cpp).         *)
(*                                                                         *)
(* logIn starts one connect thread for each kind of connection asked for   *)
(* (LAN, P2P, relay), a broadcast thread that wakes the device up, and     *)
(* connectTimeThread, which picks the first kind that got the device's     *)
(* "ACK", breaks the others off, joins them, closes the sessions that lost *)
(* and either sends the login command or reports CONNECT_FAIL.  logOut may *)
(* run at any moment on an application thread and joins the same threads.  *)
(*                                                                         *)
(* Threads share plain fields of the client without a lock; every read or  *)
(* write of a shared field that another thread may race with is a step of  *)
(* its own.  The link library (LINK_ConnectByServer, LINK_Connect_Break,   *)
(* LINK_ForceClose) is external: a session is a pair <<kind, attempt>>.    *)
(***************************************************************************)
EXTENDS Integers, FiniteSets

CONSTANTS
  ConnectType,   \* the kinds asked for: the bits of logIn's connectType
  MaxAttempts,   \* bound: sessions the link library opens for one kind
  NoSession,     \* the handle -1
  MayLogout,     \* does the application call EC_Logout?
  OtherLogins    \* do other clients of the process call LINK_Connect_Break?

Kinds    == {"lan", "p2p", "relay"}
Sessions == Kinds \X (1 .. MaxAttempts)

ASSUME ConnectAssumption ==
  /\ ConnectType \subseteq Kinds
  /\ MaxAttempts \in Nat \ {0}
  /\ NoSession \notin Sessions
  /\ MayLogout \in BOOLEAN
  /\ OtherLogins \in BOOLEAN

VARIABLES
  mNeedBreakConnect,
  mBroadcastThreadRun,
  mKindSockHandle,    \* mLanSockHandle, mP2pSockHandle, mRelaySockHandle
  mIsConnectSuccess,  \* mLanIsConnectSuccess, ...
  mSockHandle,        \* the session the client ends up with
  pc,                 \* where each connect thread is
  ret,                \* its local variable ret: the session it is working on
  broken,             \* its LINK_ConnectByServer is told to give up
  attempts,           \* sessions opened so far for a kind
  bcast,              \* where broadcastThread is
  ct,                 \* where connectTimeThread is
  sockHandle,         \* its local variable sockHandle: the chosen session
  lo,                 \* where logOut is
  joiner,             \* the first thread to call pthread_join on a thread
  outcome,            \* what the login phase told the rest of the client
  open,               \* sessions the link library holds open
  ackTimedOut         \* sessions given up after 5 s without an ACK

clientVars == <<mNeedBreakConnect, mBroadcastThreadRun, mKindSockHandle,
                mIsConnectSuccess, mSockHandle>>
kindVars   == <<pc, ret, broken, attempts>>
ctVars     == <<ct, sockHandle, outcome>>
linkVars   == <<open, ackTimedOut>>
vars == <<clientVars, kindVars, ctVars, linkVars, bcast, lo, joiner>>

Handles == Sessions \cup {NoSession}
Joinable == ConnectType \cup {"bcast"}

ThreadPc == {"off", "start", "calling", "ack", "reading", "won", "publish",
             "exited"}
CtPc == {"poll", "break", "stopBcast", "waitBcast", "joinLan", "waitLan",
         "joinP2p", "waitP2p", "joinRelay", "waitRelay", "close", "start",
         "done"}
LoPc == {"idle", "stopBcast", "waitBcast", "break", "joinLan", "waitLan",
         "joinP2p", "waitP2p", "joinRelay", "waitRelay", "waitTime", "done"}

TypeOK ==
  /\ mNeedBreakConnect \in BOOLEAN
  /\ mBroadcastThreadRun \in BOOLEAN
  /\ mKindSockHandle \in [Kinds -> Handles]
  /\ mIsConnectSuccess \in [Kinds -> BOOLEAN]
  /\ mSockHandle \in Handles
  /\ pc \in [Kinds -> ThreadPc]
  /\ ret \in [Kinds -> Handles]
  /\ broken \in [Kinds -> BOOLEAN]
  /\ attempts \in [Kinds -> 0 .. MaxAttempts]
  /\ bcast \in {"init", "loop", "exited"}
  /\ ct \in CtPc
  /\ sockHandle \in Handles
  /\ lo \in LoPc
  /\ joiner \in [Joinable -> {"none", "ctime", "logout"}]
  /\ outcome \in {"none", "loginSent", "connectFail"}
  /\ open \subseteq Sessions
  /\ ackTimedOut \subseteq Sessions

\* logIn has created the threads; it runs under sSessionMutex before any logOut.
Init ==
  /\ mNeedBreakConnect = FALSE
  /\ mBroadcastThreadRun = TRUE
  /\ mKindSockHandle = [k \in Kinds |-> NoSession]
  /\ mIsConnectSuccess = [k \in Kinds |-> FALSE]
  /\ mSockHandle = NoSession
  /\ pc = [k \in Kinds |-> IF k \in ConnectType THEN "start" ELSE "off"]
  /\ ret = [k \in Kinds |-> NoSession]
  /\ broken = [k \in Kinds |-> FALSE]
  /\ attempts = [k \in Kinds |-> 0]
  /\ bcast = "init"
  /\ ct = "poll"
  /\ sockHandle = NoSession
  /\ lo = "idle"
  /\ joiner = [t \in Joinable |-> "none"]
  /\ outcome = "none"
  /\ open = {}
  /\ ackTimedOut = {}

----------------------------------------------------------------------------
(* The connect threads: lanConnectThread, p2pConnectThread and             *)
(* relayConnectThread have one shape.                                      *)

Goto(k, from, to) == pc[k] = from /\ pc' = [pc EXCEPT ![k] = to]

\* The label CONNECT_REMOTE: forget the handle, enter LINK_ConnectByServer.
CallConnect(k) ==
  /\ Goto(k, "start", "calling")
  /\ mKindSockHandle' = [mKindSockHandle EXCEPT ![k] = NoSession]
  /\ broken' = [broken EXCEPT ![k] = FALSE]
  /\ UNCHANGED <<mNeedBreakConnect, mBroadcastThreadRun, mIsConnectSuccess,
                 mSockHandle, ret, attempts, ctVars, linkVars, bcast, lo,
                 joiner>>

\* Mutant: ret is not tested, and the thread waits for an ACK all the same.
AfterFailure_Untested(k) == "ack"

\* ret < 0: retry, unless this login or any other one broke the call off.
AfterFailure(k) == IF mNeedBreakConnect \/ broken[k] THEN "exited" ELSE "start"

ConnectFails(k) ==
  /\ Goto(k, "calling", AfterFailure(k))
  /\ UNCHANGED <<clientVars, ret, broken, attempts, ctVars, linkVars, bcast,
                 lo, joiner>>

\* The session that the link library opens next.
NextSession(k) == <<k, attempts[k] + 1>>

\* ret >= 0: a link session is open.
ConnectSucceeds(k) ==
  /\ Goto(k, "calling", "ack")
  /\ attempts[k] < MaxAttempts
  /\ attempts' = [attempts EXCEPT ![k] = @ + 1]
  /\ ret' = [ret EXCEPT ![k] = NextSession(k)]
  /\ open' = open \cup {NextSession(k)}
  /\ UNCHANGED <<clientVars, broken, ctVars, ackTimedOut, bcast, lo, joiner>>

\* Mutant: the loop waiting for the ACK cannot be broken off.
LeavesLoop_Never == FALSE

\* The test of "while (!mNeedBreakConnect)".
LeavesLoop == mNeedBreakConnect

\* Leaving the loop without an ACK closes the session.
AckLoop(k) ==
  /\ UNCHANGED <<clientVars, ret, broken, attempts, ctVars, ackTimedOut, bcast,
                 lo, joiner>>
  /\ \/ /\ ~LeavesLoop
        /\ Goto(k, "ack", "reading")
        /\ UNCHANGED open
     \/ /\ LeavesLoop
        /\ Goto(k, "ack", "exited")
        /\ open' = open \ {ret[k]}

\* LINK_Read returned: the ACK is complete, or not yet, or 500 reads are over.
\* Anything but "ACK" in the three bytes is never re-read, so it times out too.
AckRead(k) ==
  /\ UNCHANGED <<clientVars, ret, broken, attempts, ctVars, open, bcast, lo,
                 joiner>>
  /\ \/ Goto(k, "reading", "won") /\ UNCHANGED ackTimedOut
     \/ Goto(k, "reading", "ack") /\ UNCHANGED ackTimedOut
     \/ /\ Goto(k, "reading", "start")
        /\ ackTimedOut' = ackTimedOut \cup {ret[k]}

\* m*SockHandle = ret, whatever happened to mNeedBreakConnect meanwhile ...
StoreHandle(k) ==
  /\ Goto(k, "won", "publish")
  /\ mKindSockHandle' = [mKindSockHandle EXCEPT ![k] = ret[k]]
  /\ UNCHANGED <<mNeedBreakConnect, mBroadcastThreadRun, mIsConnectSuccess,
                 mSockHandle, ret, broken, attempts, ctVars, linkVars, bcast,
                 lo, joiner>>

\* ... and then m*IsConnectSuccess = true.
StoreSuccess(k) ==
  /\ Goto(k, "publish", "exited")
  /\ mIsConnectSuccess' = [mIsConnectSuccess EXCEPT ![k] = TRUE]
  /\ UNCHANGED <<mNeedBreakConnect, mBroadcastThreadRun, mKindSockHandle,
                 mSockHandle, ret, broken, attempts, ctVars, linkVars, bcast,
                 lo, joiner>>

ConnectThread(k) ==
  \/ CallConnect(k) \/ ConnectFails(k) \/ ConnectSucceeds(k)
  \/ AckLoop(k) \/ AckRead(k) \/ StoreHandle(k) \/ StoreSuccess(k)

----------------------------------------------------------------------------
(* broadcastThread sets mBroadcastThreadRun itself when it starts, which   *)
(* undoes a stop that came before.  A socket error ends it at once.        *)

BroadcastStart ==
  /\ bcast = "init"
  /\ mBroadcastThreadRun' = TRUE
  /\ bcast' \in {"loop", "exited"}
  /\ UNCHANGED <<mNeedBreakConnect, mKindSockHandle, mIsConnectSuccess,
                 mSockHandle, kindVars, ctVars, linkVars, lo, joiner>>

\* Another datagram, and 100 ms of sleep.
BroadcastSends ==
  /\ bcast = "loop"
  /\ mBroadcastThreadRun
  /\ UNCHANGED vars

BroadcastStops ==
  /\ bcast = "loop"
  /\ ~mBroadcastThreadRun
  /\ bcast' = "exited"
  /\ UNCHANGED <<clientVars, kindVars, ctVars, linkVars, lo, joiner>>

----------------------------------------------------------------------------
(* pthread_join.  The first caller waits for the thread to end.  A second  *)
(* call for the same thread, and a call with an id that is 0, is undefined *)
(* by POSIX; with the C libraries the SDK is built for it returns at once. *)

Exited(t) == IF t = "bcast" THEN bcast = "exited" ELSE pc[t] = "exited"

\* Mutant: nobody is waited for.
CanWait_Never(t) == FALSE

CanWait(t) == t \in Joinable /\ joiner[t] = "none"
Claim(t, who) ==
  joiner' = IF CanWait(t) THEN [joiner EXCEPT ![t] = who] ELSE joiner

\* LINK_Connect_Break: every LINK_ConnectByServer in progress is told.
BreakCalls == broken' = [k \in Kinds |-> broken[k] \/ pc[k] = "calling"]

ForeignBreak ==
  /\ OtherLogins
  /\ BreakCalls
  /\ broken' # broken
  /\ UNCHANGED <<clientVars, pc, ret, attempts, ctVars, linkVars, bcast, lo,
                 joiner>>

----------------------------------------------------------------------------
(* connectTimeThread.                                                      *)

CtUnchanged == UNCHANGED <<pc, ret, attempts, bcast, lo>>

\* One turn of the polling loop: LAN before P2P before relay.
Poll ==
  /\ ct = "poll" /\ ct' = "break"
  /\ \/ /\ mNeedBreakConnect
        /\ UNCHANGED sockHandle
     \/ /\ ~mNeedBreakConnect
        /\ mIsConnectSuccess["lan"]
        /\ sockHandle' = mKindSockHandle["lan"]
     \/ /\ ~mNeedBreakConnect
        /\ ~mIsConnectSuccess["lan"] /\ mIsConnectSuccess["p2p"]
        /\ sockHandle' = mKindSockHandle["p2p"]
     \/ /\ ~mNeedBreakConnect
        /\ ~mIsConnectSuccess["lan"] /\ ~mIsConnectSuccess["p2p"]
        /\ mIsConnectSuccess["relay"]
        /\ sockHandle' = mKindSockHandle["relay"]
  /\ CtUnchanged
  /\ UNCHANGED <<clientVars, broken, outcome, linkVars, joiner>>

\* counts >= sumCounts and nothing has won.
PollTimesOut ==
  /\ ct = "poll" /\ ct' = "break"
  /\ \A k \in Kinds : ~mIsConnectSuccess[k]
  /\ CtUnchanged
  /\ UNCHANGED <<clientVars, broken, sockHandle, outcome, linkVars, joiner>>

BreakOthers ==
  /\ ct = "break" /\ ct' = "stopBcast"
  /\ mNeedBreakConnect' = TRUE
  /\ BreakCalls
  /\ CtUnchanged
  /\ UNCHANGED <<mBroadcastThreadRun, mKindSockHandle, mIsConnectSuccess,
                 mSockHandle, sockHandle, outcome, linkVars, joiner>>

StopBroadcast ==
  /\ ct = "stopBcast"
  /\ mBroadcastThreadRun' = FALSE
  /\ Claim("bcast", "ctime")
  /\ ct' = IF CanWait("bcast") THEN "waitBcast" ELSE "joinLan"
  /\ CtUnchanged
  /\ UNCHANGED <<mNeedBreakConnect, mKindSockHandle, mIsConnectSuccess,
                 mSockHandle, broken, sockHandle, outcome, linkVars>>

CtJoin(t, at, wait, next) ==
  /\ ct = at
  /\ Claim(t, "ctime")
  /\ ct' = IF CanWait(t) THEN wait ELSE next
  /\ CtUnchanged
  /\ UNCHANGED <<clientVars, broken, sockHandle, outcome, linkVars>>

CtJoined(t, wait, next) ==
  /\ ct = wait
  /\ Exited(t)
  /\ ct' = next
  /\ CtUnchanged
  /\ UNCHANGED <<clientVars, broken, sockHandle, outcome, linkVars, joiner>>

\* Mutants: nothing is closed, and the chosen session is closed too.
Losers_None == {}
Losers_All  == Kinds

\* Every handle that is not the chosen one is closed and forgotten.
Losers == {k \in Kinds : mKindSockHandle[k] # sockHandle}

CloseOthers ==
  /\ ct = "close" /\ ct' = "start"
  /\ open' = open \ {mKindSockHandle[k] : k \in Losers}
  /\ mKindSockHandle' = [k \in Kinds |->
        IF k \in Losers THEN NoSession ELSE mKindSockHandle[k]]
  /\ mIsConnectSuccess' = [k \in Kinds |-> FALSE]
  /\ CtUnchanged
  /\ UNCHANGED <<mNeedBreakConnect, mBroadcastThreadRun, mSockHandle, broken,
                 sockHandle, outcome, ackTimedOut, joiner>>

\* Send the login command over the chosen session, or report CONNECT_FAIL.
StartSession ==
  /\ ct = "start" /\ ct' = "done"
  /\ IF sockHandle # NoSession
       THEN mSockHandle' = sockHandle /\ outcome' = "loginSent"
       ELSE outcome' = "connectFail" /\ UNCHANGED mSockHandle
  /\ CtUnchanged
  /\ UNCHANGED <<mNeedBreakConnect, mBroadcastThreadRun, mKindSockHandle,
                 mIsConnectSuccess, broken, sockHandle, linkVars, joiner>>

ConnectTime ==
  \/ Poll \/ PollTimesOut \/ BreakOthers \/ StopBroadcast
  \/ CtJoined("bcast", "waitBcast", "joinLan")
  \/ CtJoin("lan", "joinLan", "waitLan", "joinP2p")
  \/ CtJoined("lan", "waitLan", "joinP2p")
  \/ CtJoin("p2p", "joinP2p", "waitP2p", "joinRelay")
  \/ CtJoined("p2p", "waitP2p", "joinRelay")
  \/ CtJoin("relay", "joinRelay", "waitRelay", "close")
  \/ CtJoined("relay", "waitRelay", "close")
  \/ CloseOthers \/ StartSession

----------------------------------------------------------------------------
(* logOut, on an application thread.                                       *)

LoUnchanged ==
  UNCHANGED <<mKindSockHandle, mIsConnectSuccess, pc, ret, attempts, ctVars,
              bcast, ackTimedOut>>

LogOut ==
  /\ MayLogout
  /\ lo = "idle" /\ lo' = "stopBcast"
  /\ mBroadcastThreadRun' = FALSE
  /\ LoUnchanged
  /\ UNCHANGED <<mNeedBreakConnect, mSockHandle, broken, open, joiner>>

LoBreak ==
  /\ lo = "break" /\ lo' = "joinLan"
  /\ mNeedBreakConnect' = TRUE
  /\ BreakCalls
  /\ LoUnchanged
  /\ UNCHANGED <<mBroadcastThreadRun, mSockHandle, open, joiner>>

LoJoin(t, at, wait, next) ==
  /\ lo = at
  /\ Claim(t, "logout")
  /\ lo' = IF CanWait(t) THEN wait ELSE next
  /\ LoUnchanged
  /\ UNCHANGED <<mNeedBreakConnect, mBroadcastThreadRun, mSockHandle, broken,
                 open>>

LoJoined(t, wait, next) ==
  /\ lo = wait
  /\ Exited(t)
  /\ lo' = next
  /\ LoUnchanged
  /\ UNCHANGED <<mNeedBreakConnect, mBroadcastThreadRun, mSockHandle, broken,
                 open, joiner>>

\* Mutant: the session stays open.
CloseConnection_Forgets == mSockHandle' = NoSession /\ UNCHANGED open

CloseConnection ==
  /\ open' = open \ {mSockHandle}
  /\ mSockHandle' = NoSession

\* connectTimeThread is joined, its workers are stopped, and closeConnection
\* closes the session the client ended up with.
LoFinish ==
  /\ lo = "waitTime" /\ lo' = "done"
  /\ ct = "done"
  /\ mNeedBreakConnect' = TRUE
  /\ BreakCalls
  /\ CloseConnection
  /\ LoUnchanged
  /\ UNCHANGED <<mBroadcastThreadRun, joiner>>

LogOutThread ==
  \/ LogOut
  \/ LoJoin("bcast", "stopBcast", "waitBcast", "break")
  \/ LoJoined("bcast", "waitBcast", "break")
  \/ LoBreak
  \/ LoJoin("lan", "joinLan", "waitLan", "joinP2p")
  \/ LoJoined("lan", "waitLan", "joinP2p")
  \/ LoJoin("p2p", "joinP2p", "waitP2p", "joinRelay")
  \/ LoJoined("p2p", "waitP2p", "joinRelay")
  \/ LoJoin("relay", "joinRelay", "waitRelay", "waitTime")
  \/ LoJoined("relay", "waitRelay", "waitTime")
  \/ LoFinish

----------------------------------------------------------------------------
\* The login is over and, if the application wanted, so is the session.
Finished ==
  /\ ct = "done" /\ lo \in {"idle", "done"} /\ bcast = "exited"
  /\ \A k \in ConnectType : pc[k] = "exited"
  /\ UNCHANGED vars

Next ==
  \/ \E k \in ConnectType : ConnectThread(k)
  \/ BroadcastStart \/ BroadcastSends \/ BroadcastStops
  \/ ForeignBreak
  \/ ConnectTime
  \/ LogOutThread
  \/ Finished

Spec == Init /\ [][Next]_vars

(***************************************************************************)
(* Every thread keeps being scheduled, LINK_ConnectByServer and LINK_Read  *)
(* return, and connectTimeThread counts its 5 ms naps up to the timeout.   *)
(* The application need not call logOut, but a logOut once begun goes on.  *)
(***************************************************************************)
FairSpec ==
  /\ Spec
  /\ \A k \in ConnectType : WF_vars(ConnectThread(k))
  /\ WF_vars(BroadcastStart \/ BroadcastStops)
  /\ WF_vars(ConnectTime)
  /\ WF_vars(lo # "idle" /\ LogOutThread)

----------------------------------------------------------------------------
(* Properties.                                                             *)

Joined == \A k \in ConnectType : pc[k] = "exited"

\* Once connectTimeThread has closed the losers, and unless a logOut joined
\* the same threads, the only open sessions are the one it chose and those
\* the ACK timeout gave up without LINK_ForceClose (CEasyCamClient.cpp:490).
NoStraySession ==
  ct \in {"start", "done"} /\ lo = "idle" =>
    open \subseteq {sockHandle} \cup ackTimedOut

\* While connectTimeThread polls, a success it can see has its handle stored
\* already (CEasyCamClient.cpp:503-504), and the session it chose got its ACK
\* and stays open until logOut closes it: neither closing the losers nor a
\* late connect thread takes it away.
ChosenSessionLives ==
  /\ ct = "poll" =>
       \A k \in Kinds : mIsConnectSuccess[k] => mKindSockHandle[k] \in open
  /\ sockHandle # NoSession /\ lo # "done" =>
       sockHandle \in open /\ sockHandle \notin ackTimedOut

\* When the login command goes out or CONNECT_FAIL is reported, no connect
\* thread is running that could still open or publish a session.
ThreadsEndBeforeOutcome ==
  outcome # "none" /\ lo = "idle" => Joined /\ bcast = "exited"

\* When logOut returns every connect thread has ended and every session is
\* closed, but for those the ACK timeout leaked and a session won by a thread
\* that logOut was joining when connectTimeThread closed the losers.
LogoutLeavesNothing ==
  lo = "done" =>
    /\ Joined /\ ct = "done"
    /\ open \subseteq ackTimedOut \cup
         {mKindSockHandle[k] : k \in {j \in ConnectType : joiner[j] = "logout"}}

\* broadcastThread undid a stop (CEasyCamClient.cpp:1658) and runs on.
BroadcastRunsOn == bcast = "loop" /\ mBroadcastThreadRun

\* Every login gets its outcome, login command or CONNECT_FAIL, unless
\* broadcastThread started after connectTimeThread had stopped it.
LoginResolves == <>(ct = "done" \/ (ct = "waitBcast" /\ BroadcastRunsOn))

\* The same without the exception: a login has a timeout (EasyCamSdk.h:186).
LoginTimesOut == <>(ct = "done")

\* A logOut returns, whatever the connect threads were doing when it came,
\* unless broadcastThread undid the last stop of it and of connectTimeThread.
LogoutReturns ==
  lo # "idle" ~> (lo = "done" \/ (ct \notin {"poll", "break", "stopBcast"}
                                   /\ BroadcastRunsOn))

============================================================================
