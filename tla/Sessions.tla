------------------------------ MODULE Sessions ------------------------------
(***************************************************************************)
(* The session table of the SDK (EasyCamSdk.cpp): EC_Login, EC_Logout and  *)
(* EC_DeInitialize on application threads, the garbage collection thread   *)
(* (GC), and what each client's own threads do to the table: they report   *)
(* broken connections, and EC_OnLoginResult locks it on cmdRecvThread.     *)
(*                                                                         *)
(* sSessionMutex is held over several steps by EC_Logout, EC_DeInitialize  *)
(* and the GC, which join threads under it; every other critical section   *)
(* is one step.  What connecting does is in Connect, what queueing and     *)
(* sending do in CmdQueue; here a connection is won or fails.              *)
(***************************************************************************)
EXTENDS Integers, Sequences

CONSTANTS
  Apps,          \* threads of the application that call the SDK
  MaxLogins,     \* bound: the CEasyCamClient objects ever created
  SerialLogins,  \* does the application call EC_Login one at a time?
  OldDevices,    \* may a device refuse a login and not support encryption?
  Unasked        \* bound: the login answers without a command, of each device

\* The client objects in the order of their creation, and the pointer NULL.
Clients  == 1 .. MaxLogins
NoClient == 0

ASSUME SessionsAssumption ==
  /\ {"free", "gc"} \cap Apps = {}
  /\ MaxLogins \in Nat \ {0}
  /\ SerialLogins \in BOOLEAN
  /\ OldDevices \in BOOLEAN
  /\ Unasked \in [1 .. MaxLogins -> Nat]

VARIABLES
  sSessionIndex,
  sSessionMutex,        \* "free", "gc" or the thread that holds it
  sSessionList,         \* the clients in the list, in list order
  sBrokenSessionQueue,
  sGarbageCollectionThreadRun,
  ap, cur, index,       \* each application thread: where it is, its client,
                        \* and its copy of sSessionIndex
  gc, gcClient,         \* the GC: where it is, the client it collects
  gcHandle,             \* and the broken handle it popped
  handle, refCnt,       \* of the SessionInfo of each client
  client,               \* the client object
  ct,                   \* where its connectTimeThread is
  recv,                 \* where its cmdRecvThread is
  mNeedBreakConnect, mCmdRecvThreadRun, mHasBrokenDetected, mIsRsaLogin,
  asked,                \* login commands the device has not answered
  unasked,              \* history: login answers that answered no command
  results,              \* history: login results the application was told
  early,                \* the break was reported before the login phase ended
  logout                \* history: how an EC_Logout for the client returned,
                        \* if it did: threads joined, or skipped

apiVars    == <<ap, cur, index>>
gcVars     == <<gc, gcClient, gcHandle, sGarbageCollectionThreadRun>>
tableVars  == <<sSessionMutex, sSessionList, handle, refCnt>>
clientVars == <<ct, recv, mNeedBreakConnect, mCmdRecvThreadRun, mIsRsaLogin,
                asked, unasked, results>>
brokenVars == <<sBrokenSessionQueue, mHasBrokenDetected, early>>
codeVars == <<sSessionIndex, apiVars, gcVars, tableVars, client, clientVars,
              brokenVars>>
vars == <<codeVars, logout>>

TypeOK ==
  /\ sSessionIndex \in Nat
  /\ sSessionMutex \in {"free", "gc"} \cup Apps
  /\ sSessionList \in Seq(Clients)
  /\ sBrokenSessionQueue \in Seq(Nat)
  /\ sGarbageCollectionThreadRun \in BOOLEAN
  /\ ap \in [Apps -> {"idle", "push", "readIndex", "writeIndex", "joinCt",
                      "joinRecv", "joinGc", "deinit", "over"}]
  /\ cur \in [Apps -> Clients \cup {NoClient}]
  /\ index \in [Apps -> Nat]
  /\ gc \in {"pop", "dec", "scan", "collect", "join", "delete", "exited"}
  /\ gcClient \in Clients \cup {NoClient}
  /\ gcHandle \in Nat
  /\ handle \in [Clients -> Nat]
  /\ refCnt \in [Clients -> {0, 1}]
  /\ client \in [Clients -> {"none", "alive", "deleted"}]
  /\ ct \in [Clients -> {"off", "connecting", "won", "loginQueued", "done"}]
  /\ recv \in [Clients -> {"off", "running", "wantLock", "exited"}]
  /\ mNeedBreakConnect \in [Clients -> BOOLEAN]
  /\ mCmdRecvThreadRun \in [Clients -> BOOLEAN]
  /\ mHasBrokenDetected \in [Clients -> BOOLEAN]
  /\ mIsRsaLogin \in [Clients -> BOOLEAN]
  /\ asked \in [Clients -> Nat]
  /\ unasked \in [Clients -> Nat]
  /\ results \in [Clients -> Nat]
  /\ early \in [Clients -> BOOLEAN]
  /\ logout \in [Clients -> {"none", "joined", "skipped"}]

\* EC_Initialize has run: the GC is polling and the table is empty.
Init ==
  /\ sSessionIndex = 0
  /\ sSessionMutex = "free"
  /\ sSessionList = << >>
  /\ sBrokenSessionQueue = << >>
  /\ sGarbageCollectionThreadRun = TRUE
  /\ ap = [a \in Apps |-> "idle"]
  /\ cur = [a \in Apps |-> NoClient]
  /\ index = [a \in Apps |-> 0]
  /\ gc = "pop" /\ gcClient = NoClient /\ gcHandle = 0
  /\ handle = [c \in Clients |-> 0]
  /\ refCnt = [c \in Clients |-> 0]
  /\ client = [c \in Clients |-> "none"]
  /\ ct = [c \in Clients |-> "off"]
  /\ recv = [c \in Clients |-> "off"]
  /\ mNeedBreakConnect = [c \in Clients |-> FALSE]
  /\ mCmdRecvThreadRun = [c \in Clients |-> FALSE]
  /\ mHasBrokenDetected = [c \in Clients |-> FALSE]
  /\ mIsRsaLogin = [c \in Clients |-> TRUE]
  /\ asked = [c \in Clients |-> 0]
  /\ unasked = [c \in Clients |-> 0]
  /\ results = [c \in Clients |-> 0]
  /\ early = [c \in Clients |-> FALSE]
  /\ logout = [c \in Clients |-> "none"]

Set(f, x, v) == f' = [f EXCEPT ![x] = v]

\* Mutant: refCnt is not tested, and not decremented.
Referenced_Untested(c) == TRUE
DropRef_Never(c)       == UNCHANGED refCnt

Referenced(c) == refCnt[c] > 0
DropRef(c)    == Set(refCnt, c, refCnt[c] - 1)

\* Mutant: mCmdRecvThreadRun is not reset, and the thread is not joined.
StopRecv_Never(c)  == UNCHANGED mCmdRecvThreadRun
RecvEnded_Never(c) == TRUE
MustJoin_Never(c)  == FALSE

StopRecv(c)  == Set(mCmdRecvThreadRun, c, FALSE)
RecvEnded(c) == recv[c] \in {"off", "exited"}
MustJoin(c)  == recv[c] # "off"

\* std::find_if with CSessionCompare: the first session with the handle, if any.
FirstWith(h) ==
  {sSessionList[i] : i \in
     {j \in DOMAIN sSessionList :
        /\ handle[sSessionList[j]] = h
        /\ \A k \in 1 .. j - 1 : handle[sSessionList[k]] # h}}

\* delete pClient: the fields of the object, but for the flag that says that it
\* was logged out, are gone, here back at their initial values.
Delete(c) ==
  /\ Set(client, c, "deleted")
  /\ Set(mHasBrokenDetected, c, FALSE)
  /\ Set(mIsRsaLogin, c, TRUE)
  /\ Set(mCmdRecvThreadRun, c, FALSE)
  /\ Set(asked, c, 0)

----------------------------------------------------------------------------
(* EC_Login and EC_StationLogin.                                           *)

DeInitializing == \E a \in Apps : ap[a] \in {"joinGc", "deinit", "over"}
LoggingIn(a)   == ap[a] \in {"push", "readIndex", "writeIndex"}

\* Copy the index without a lock and create the client.
Login(a, c) ==
  /\ ap[a] = "idle" /\ ~DeInitializing
  /\ SerialLogins => \A b \in Apps : ~LoggingIn(b)
  /\ client[c] = "none" /\ \A d \in 1 .. c - 1 : client[d] # "none"
  /\ Set(ap, a, "push") /\ Set(cur, a, c)
  /\ Set(handle, c, sSessionIndex)
  /\ Set(client, c, "alive")
  /\ UNCHANGED <<sSessionIndex, index, gcVars, sSessionMutex, sSessionList,
                 refCnt, clientVars, brokenVars, logout>>

\* Under the lock: push_back, and logIn starts the connect threads, unless
\* encrypting the credentials fails; EC_Login ignores what logIn returns.
LoginPush(a) ==
  /\ ap[a] = "push" /\ sSessionMutex = "free"
  /\ Set(ap, a, "readIndex")
  /\ sSessionList' = Append(sSessionList, cur[a])
  /\ Set(refCnt, cur[a], 1)
  /\ \/ Set(ct, cur[a], "connecting")
     \/ Set(ct, cur[a], "done")
  /\ UNCHANGED <<sSessionIndex, cur, index, gcVars, sSessionMutex, handle,
                 client, recv, mNeedBreakConnect, mCmdRecvThreadRun,
                 mIsRsaLogin, asked, unasked, results, brokenVars, logout>>

Incremented(i) == i + 1

\* sSessionIndex++ without a lock is a read and a write.
LoginReadIndex(a) ==
  /\ ap[a] = "readIndex"
  /\ Set(ap, a, "writeIndex")
  /\ Set(index, a, sSessionIndex)
  /\ UNCHANGED <<sSessionIndex, cur, gcVars, tableVars, client, clientVars,
                 brokenVars, logout>>

LoginWriteIndex(a) ==
  /\ ap[a] = "writeIndex"
  /\ Set(ap, a, "idle") /\ Set(cur, a, NoClient) /\ Set(index, a, 0)
  /\ sSessionIndex' = Incremented(index[a])
  /\ UNCHANGED <<gcVars, tableVars, client, clientVars, brokenVars, logout>>

----------------------------------------------------------------------------
(* EC_Logout and EC_StationLogout hold sSessionMutex while logOut joins    *)
(* connectTimeThread and then cmdRecvThread.                               *)

\* The application has been given the handle: EC_Login has returned it.
Returned(h) ==
  \E c \in Clients :
    /\ handle[c] = h /\ client[c] # "none"
    /\ \A a \in Apps : LoggingIn(a) => cur[a] # c

Logout(a, c) ==
  /\ ap[a] = "idle" /\ ~DeInitializing
  /\ Returned(handle[c]) /\ c \in FirstWith(handle[c])
  /\ sSessionMutex = "free"
  /\ Referenced(c)
  /\ sSessionMutex' = a
  /\ Set(ap, a, "joinCt") /\ Set(cur, a, c)
  /\ Set(mNeedBreakConnect, c, TRUE)
  /\ UNCHANGED <<sSessionIndex, index, gcVars, sSessionList, handle, refCnt,
                 client, ct, recv, mCmdRecvThreadRun, mIsRsaLogin, asked,
                 unasked, results, brokenVars, logout>>

LogoutJoinsCt(a) ==
  /\ ap[a] = "joinCt" /\ ct[cur[a]] = "done"
  /\ Set(ap, a, "joinRecv")
  /\ StopRecv(cur[a])
  /\ UNCHANGED <<sSessionIndex, cur, index, gcVars, tableVars, client, ct,
                 recv, mNeedBreakConnect, mIsRsaLogin, asked, unasked, results,
                 brokenVars, logout>>

LogoutJoinsRecv(a) ==
  /\ ap[a] = "joinRecv"
  /\ RecvEnded(cur[a])
  /\ DropRef(cur[a])
  /\ sSessionMutex' = "free"
  /\ Set(ap, a, "idle") /\ Set(cur, a, NoClient)
  /\ Set(logout, cur[a], "joined")
  /\ UNCHANGED <<sSessionIndex, index, gcVars, sSessionList, handle, client,
                 clientVars, brokenVars>>

\* A session whose reference is gone, logged out already or dropped by the GC,
\* is left alone: EC_Logout returns 0 and joins nothing.  Nor does it for a
\* handle that is no longer in the list.
LogoutSkips(a, c) ==
  /\ ap[a] = "idle" /\ ~DeInitializing
  /\ Returned(handle[c]) /\ c \in FirstWith(handle[c])
  /\ sSessionMutex = "free"
  /\ ~Referenced(c)
  /\ logout[c] = "none"
  /\ Set(logout, c, "skipped")
  /\ UNCHANGED codeVars

----------------------------------------------------------------------------
(* EC_DeInitialize, called when no other call is under way or will come.   *)

DeInitialize(a) ==
  /\ \A b \in Apps : ap[b] = "idle"
  /\ Set(ap, a, "joinGc")
  /\ sGarbageCollectionThreadRun' = FALSE
  /\ UNCHANGED <<sSessionIndex, cur, index, gc, gcClient, gcHandle, tableVars,
                 client, clientVars, brokenVars, logout>>

\* The GC is joined; then sSessionMutex is taken for good.
DeInitLocks(a) ==
  /\ ap[a] = "joinGc" /\ gc = "exited" /\ sSessionMutex = "free"
  /\ Set(ap, a, "deinit")
  /\ sSessionMutex' = a
  /\ UNCHANGED <<sSessionIndex, cur, index, gcVars, sSessionList, handle,
                 refCnt, client, clientVars, brokenVars, logout>>

\* logOut of the next client: its connect threads are broken off and joined ...
DeInitLogsOut(a) ==
  /\ ap[a] = "deinit" /\ sSessionList # << >>
  /\ LET c == Head(sSessionList) IN
       /\ Set(mNeedBreakConnect, c, TRUE)
       /\ IF ct[c] = "done" THEN StopRecv(c)
                            ELSE UNCHANGED mCmdRecvThreadRun
  /\ UNCHANGED <<sSessionIndex, apiVars, gcVars, tableVars, client, ct, recv,
                 mIsRsaLogin, asked, unasked, results, brokenVars, logout>>

\* ... its cmdRecvThread too, and the client is deleted.
DeInitDeletes(a) ==
  /\ ap[a] = "deinit" /\ sSessionList # << >>
  /\ LET c == Head(sSessionList) IN
       /\ mNeedBreakConnect[c] /\ ct[c] = "done"
       /\ ~mCmdRecvThreadRun[c] /\ RecvEnded(c)
       /\ Delete(c)
  /\ sSessionList' = Tail(sSessionList)
  /\ UNCHANGED <<sSessionIndex, apiVars, gcVars, sSessionMutex, handle, refCnt,
                 ct, recv, mNeedBreakConnect, unasked, results,
                 sBrokenSessionQueue, early, logout>>

DeInitEnds(a) ==
  /\ ap[a] = "deinit" /\ sSessionList = << >>
  /\ Set(ap, a, "over")
  /\ sSessionMutex' = "free"
  /\ UNCHANGED <<sSessionIndex, cur, index, gcVars, sSessionList, handle,
                 refCnt, client, clientVars, brokenVars, logout>>

----------------------------------------------------------------------------
(* The garbage collection thread.                                          *)

GcUnchanged ==
  UNCHANGED <<sSessionIndex, apiVars, sGarbageCollectionThreadRun, handle, ct,
              recv, mNeedBreakConnect, unasked, results, early, logout>>

FieldsUnchanged == UNCHANGED <<mHasBrokenDetected, mIsRsaLogin, asked>>

\* One turn of the loop pops at most one broken session.
GcPop ==
  /\ gc = "pop" /\ sGarbageCollectionThreadRun
  /\ IF sBrokenSessionQueue = << >>
       THEN gc' = "scan" /\ UNCHANGED <<gcHandle, sBrokenSessionQueue>>
       ELSE /\ gc' = "dec"
            /\ gcHandle' = Head(sBrokenSessionQueue)
            /\ sBrokenSessionQueue' = Tail(sBrokenSessionQueue)
  /\ GcUnchanged /\ FieldsUnchanged
  /\ UNCHANGED <<sSessionMutex, sSessionList, refCnt, gcClient, client,
                 mCmdRecvThreadRun>>

\* Every session with that handle loses its reference, if it has one.
GcDecrements ==
  /\ gc = "dec" /\ gc' = "scan" /\ sSessionMutex = "free"
  /\ refCnt' = [c \in Clients |->
        IF /\ \E i \in DOMAIN sSessionList : sSessionList[i] = c
           /\ handle[c] = gcHandle /\ Referenced(c)
        THEN refCnt[c] - 1 ELSE refCnt[c]]
  /\ gcHandle' = 0
  /\ GcUnchanged /\ FieldsUnchanged
  /\ UNCHANGED <<sSessionMutex, sSessionList, gcClient, client,
                 mCmdRecvThreadRun, sBrokenSessionQueue>>

\* A scan that finds nothing to collect is one step.
Collectable == {i \in DOMAIN sSessionList : refCnt[sSessionList[i]] = 0}

GcScans ==
  /\ gc = "scan" /\ sSessionMutex = "free"
  /\ IF Collectable = {} THEN gc' = "pop" /\ UNCHANGED sSessionMutex
                         ELSE gc' = "collect" /\ sSessionMutex' = "gc"
  /\ GcUnchanged /\ FieldsUnchanged
  /\ UNCHANGED <<sSessionList, refCnt, gcClient, gcHandle, client,
                 mCmdRecvThreadRun, sBrokenSessionQueue>>

\* The next session without a reference: joinThreads joins cmdRecvThread if it
\* was started, and nothing joins connectTimeThread.
GcCollects ==
  /\ gc = "collect"
  /\ \E i \in Collectable :
       /\ \A j \in Collectable : i <= j
       /\ gcClient' = sSessionList[i]
       /\ IF MustJoin(sSessionList[i])
            THEN gc' = "join" /\ StopRecv(sSessionList[i])
            ELSE gc' = "delete" /\ UNCHANGED mCmdRecvThreadRun
  /\ GcUnchanged /\ FieldsUnchanged
  /\ UNCHANGED <<sSessionMutex, sSessionList, refCnt, gcHandle, client,
                 sBrokenSessionQueue>>

\* erase: the list without its i-th session.
Erase(i) == sSessionList' = SubSeq(sSessionList, 1, i - 1)
                              \o SubSeq(sSessionList, i + 1, Len(sSessionList))

\* closeConnection, delete, erase.
GcDeletes ==
  /\ \/ gc = "join" /\ recv[gcClient] = "exited"
     \/ gc = "delete"
  /\ gc' = "collect" /\ gcClient' = NoClient
  /\ Delete(gcClient)
  /\ \E i \in DOMAIN sSessionList : sSessionList[i] = gcClient /\ Erase(i)
  /\ GcUnchanged
  /\ UNCHANGED <<sSessionMutex, refCnt, gcHandle, sBrokenSessionQueue>>

GcUnlocks ==
  /\ gc = "collect" /\ gc' = "pop"
  /\ Collectable = {}
  /\ sSessionMutex' = "free"
  /\ GcUnchanged /\ FieldsUnchanged
  /\ UNCHANGED <<sSessionList, refCnt, gcClient, gcHandle, client,
                 mCmdRecvThreadRun, sBrokenSessionQueue>>

GcExits ==
  /\ gc = "pop" /\ gc' = "exited" /\ ~sGarbageCollectionThreadRun
  /\ GcUnchanged /\ FieldsUnchanged
  /\ UNCHANGED <<sSessionMutex, sSessionList, refCnt, gcClient, gcHandle,
                 client, mCmdRecvThreadRun, sBrokenSessionQueue>>

----------------------------------------------------------------------------
(* The threads of a client, up to the first use of a deleted client.       *)

ThreadUnchanged ==
  UNCHANGED <<sSessionIndex, apiVars, gcVars, tableVars, client,
              mNeedBreakConnect, logout>>

ConnectWins(c) ==
  /\ ct[c] = "connecting" /\ ~mNeedBreakConnect[c]
  /\ Set(ct, c, "won")
  /\ ThreadUnchanged
  /\ UNCHANGED <<recv, mCmdRecvThreadRun, mIsRsaLogin, asked, unasked,
                 results, brokenVars>>

\* CONNECT_FAIL, after the timeout or because logOut broke the login off.
ConnectFails(c) ==
  /\ ct[c] = "connecting"
  /\ Set(ct, c, "done")
  /\ Set(results, c, results[c] + 1)
  /\ ThreadUnchanged
  /\ UNCHANGED <<recv, mCmdRecvThreadRun, mIsRsaLogin, asked, unasked,
                 brokenVars>>

\* sendLoginCmd queues the login command, or the queue is full or disabled and
\* the application is told LOGIN_RESULT_FAIL_UNKOWN.
SendLoginCmd(c) ==
  /\ ct[c] = "won"
  /\ Set(ct, c, "loginQueued")
  /\ \/ Set(asked, c, asked[c] + 1) /\ UNCHANGED results
     \/ Set(results, c, results[c] + 1) /\ UNCHANGED asked
  /\ ThreadUnchanged
  /\ UNCHANGED <<recv, mCmdRecvThreadRun, mIsRsaLogin, unasked, brokenVars>>

StartRecv(c) ==
  /\ ct[c] = "loginQueued"
  /\ Set(ct, c, "done")
  /\ Set(recv, c, "running")
  /\ Set(mCmdRecvThreadRun, c, TRUE)
  /\ ThreadUnchanged
  /\ UNCHANGED <<mIsRsaLogin, asked, unasked, results, brokenVars>>

\* A login answer of the device goes to EC_OnLoginResult: to the application at
\* once, but for AUTH_FAIL without encryption support.  Nothing compares it
\* with the commands that were sent, so the device may also repeat an answer or
\* send one that nobody asked for.
LoginAnswer(c) ==
  /\ recv[c] = "running"
  /\ \/ asked[c] > 0 /\ Set(asked, c, asked[c] - 1) /\ UNCHANGED unasked
     \/ unasked[c] < Unasked[c] /\ Set(unasked, c, unasked[c] + 1)
                                /\ UNCHANGED asked
  /\ \/ Set(results, c, results[c] + 1) /\ UNCHANGED recv
     \/ OldDevices /\ Set(recv, c, "wantLock") /\ UNCHANGED results
  /\ ThreadUnchanged
  /\ UNCHANGED <<ct, mCmdRecvThreadRun, mIsRsaLogin, brokenVars>>

\* Mutant: the application hears of the refusal that is retried too.
TellsRefusal_Always(found, rsa) == found # {}

TellsRefusal(found, rsa) == found # {} /\ rsa = {}

\* EC_OnLoginResult under sSessionMutex: log in once more without RSA, or tell
\* the application; nothing for a session that is gone.  sendLoginCmd may find
\* the queue full, which it tells the application.
RetryLogin(c) ==
  /\ recv[c] = "wantLock" /\ sSessionMutex = "free"
  /\ Set(recv, c, "running")
  /\ LET found == {d \in FirstWith(handle[c]) : Referenced(d)}
         rsa   == {d \in found : mIsRsaLogin[d]}
     IN /\ mIsRsaLogin' = [d \in Clients |-> mIsRsaLogin[d] /\ d \notin rsa]
        /\ \E queued \in SUBSET rsa :
             /\ asked' = [d \in Clients |->
                            IF d \in queued THEN asked[d] + 1 ELSE asked[d]]
             /\ IF TellsRefusal(found, rsa) \/ queued # rsa
                  THEN Set(results, c, results[c] + 1)
                  ELSE UNCHANGED results
  /\ ThreadUnchanged
  /\ UNCHANGED <<ct, mCmdRecvThreadRun, unasked, brokenVars>>

RecvExits(c) ==
  /\ recv[c] = "running" /\ ~mCmdRecvThreadRun[c]
  /\ Set(recv, c, "exited")
  /\ ThreadUnchanged
  /\ UNCHANGED <<ct, mCmdRecvThreadRun, mIsRsaLogin, asked, unasked,
                 results, brokenVars>>

\* EC_OnConnectionBroken, called by the first thread to see the link fail.
ReportBroken(c) ==
  IF mHasBrokenDetected[c]
    THEN UNCHANGED brokenVars
    ELSE /\ Set(mHasBrokenDetected, c, TRUE)
         /\ sBrokenSessionQueue' = Append(sBrokenSessionQueue, handle[c])
         /\ Set(early, c, ct[c] # "done")

\* The test of mHasBrokenDetected and its setting are not atomic: the thread
\* may have tested it before another one set it, and report a second time.
RecvBroken(c) ==
  /\ recv[c] = "running"
  /\ Set(recv, c, "exited")
  /\ \/ ReportBroken(c)
     \/ /\ mHasBrokenDetected[c]
        /\ sBrokenSessionQueue' = Append(sBrokenSessionQueue, handle[c])
        /\ UNCHANGED <<mHasBrokenDetected, early>>
  /\ ThreadUnchanged
  /\ UNCHANGED <<ct, mCmdRecvThreadRun, mIsRsaLogin, asked, unasked,
                 results>>

\* cmdSendThread and audioSendThread run from the constructor on and write as
\* soon as mSockHandle is set, which is before the login command is queued.
SenderBroken(c) ==
  /\ refCnt[c] > 0
  /\ \/ ct[c] \in {"won", "loginQueued"}
     \/ ct[c] = "done" /\ recv[c] # "off"
  /\ ~mHasBrokenDetected[c]
  /\ ReportBroken(c)
  /\ ThreadUnchanged
  /\ UNCHANGED <<ct, recv, mCmdRecvThreadRun, mIsRsaLogin, asked, unasked,
                 results>>

----------------------------------------------------------------------------
AppCall(a) ==
  \/ LoginPush(a) \/ LoginReadIndex(a) \/ LoginWriteIndex(a)
  \/ LogoutJoinsCt(a) \/ LogoutJoinsRecv(a)
  \/ DeInitLocks(a) \/ DeInitLogsOut(a) \/ DeInitDeletes(a) \/ DeInitEnds(a)

Gc == \/ GcPop \/ GcDecrements \/ GcScans \/ GcCollects \/ GcDeletes
      \/ GcUnlocks \/ GcExits

ConnectTime(c) ==
  /\ client[c] = "alive"
  /\ ConnectWins(c) \/ ConnectFails(c) \/ SendLoginCmd(c) \/ StartRecv(c)

CmdRecv(c) ==
  /\ client[c] = "alive"
  /\ RetryLogin(c) \/ RecvExits(c)

\* What the device and the link do, or never do.
Link(c) ==
  /\ client[c] = "alive"
  /\ LoginAnswer(c) \/ RecvBroken(c) \/ SenderBroken(c)

Over == (\E a \in Apps : ap[a] = "over") /\ UNCHANGED vars

Next ==
  \/ \E a \in Apps, c \in Clients :
       Login(a, c) \/ Logout(a, c) \/ LogoutSkips(a, c)
  \/ \E a \in Apps : DeInitialize(a) \/ AppCall(a)
  \/ Gc
  \/ \E c \in Clients : ConnectTime(c) \/ CmdRecv(c) \/ Link(c)
  \/ Over

Spec == Init /\ [][Next]_vars

(***************************************************************************)
(* A call that has begun goes on, the GC polls every 100 ms, every login   *)
(* attempt wins or fails, and cmdRecvThread tests mCmdRecvThreadRun after  *)
(* every read, which waits 20 ms at most.  The application need not call,  *)
(* a device need not answer, and a link need not break.                    *)
(***************************************************************************)
FairSpec ==
  /\ Spec
  /\ \A a \in Apps : WF_vars(AppCall(a))
  /\ WF_vars(Gc)
  /\ \A c \in Clients : WF_vars(ConnectTime(c)) /\ WF_vars(CmdRecv(c))

----------------------------------------------------------------------------
(* Properties.                                                             *)

\* A handle names one session: EC_Logout, EC_SendCommand and the callbacks all
\* look a session up by it and take the first they find.
HandlesUnique ==
  \A i, j \in DOMAIN sSessionList :
    i # j => handle[sSessionList[i]] # handle[sSessionList[j]]

\* When a client is deleted its connectTimeThread and cmdRecvThread have ended,
\* unless its connection broke while connectTimeThread was still starting the
\* session: nothing makes the GC wait for that thread (EasyCamSdk.cpp:157).
NoThreadOutlivesClient ==
  \A c \in Clients : client[c] = "deleted" /\ ~early[c] =>
    ct[c] = "done" /\ RecvEnded(c)

\* The application hears at most once how a login ended, though the first
\* refusal may be answered by a second attempt without RSA, and once more for
\* each answer that the device sent without being asked: handleMsg
\* (CEasyCamClient.cpp:1854-1863) passes every login answer on.
OneResultPerLogin == \A c \in Clients : results[c] <= 1 + unasked[c]

\* EC_Logout for this client has returned.
LoggedOut(c) == logout[c] # "none"

\* The GC took the client's reference, because a link with its handle broke,
\* and has not come to the end of the pass in which it deletes the client.
BeingDropped(c) ==
  refCnt[c] = 0 /\ gc \in {"scan", "collect", "join", "delete"}

\* Once EC_Logout has returned no login result comes for that session, unless
\* it skipped a session that the GC was just dropping (EasyCamSdk.cpp:550):
\* then cmdRecvThread may report until the GC has joined it.
NoResultAfterLogout ==
  [][\A c \in Clients : LoggedOut(c) =>
       \/ results'[c] = results[c]
       \/ logout[c] = "skipped" /\ BeingDropped(c)]_vars

\* cmdRecvThread waits for sSessionMutex in EC_OnLoginResult and the thread
\* that holds sSessionMutex waits for cmdRecvThread to end.
CallbackDeadlock ==
  \E c \in Clients :
    /\ recv[c] = "wantLock"
    /\ \/ gc = "join" /\ gcClient = c
       \/ \E a \in Apps : ap[a] = "joinRecv" /\ cur[a] = c
       \/ \E a \in Apps : ap[a] = "deinit" /\ sSessionList # << >>
                           /\ Head(sSessionList) = c

InLogout(a) == ap[a] \in {"joinCt", "joinRecv"}

\* EC_Logout returns, but for the deadlock with a login result.
LogoutReturnsOrDeadlocks ==
  []<>((\A a \in Apps : ~InLogout(a)) \/ CallbackDeadlock)

\* EC_Logout returns its result (EasyCamSdk.h:195).
LogoutReturns == []<>(\A a \in Apps : ~InLogout(a))

\* A session that was logged out, or whose connection broke, is deleted and
\* leaves the list, but for that deadlock.
Garbage(c) == client[c] = "alive" /\ (LoggedOut(c) \/ mHasBrokenDetected[c])

SessionsCollected == []<>((\A c \in Clients : ~Garbage(c)) \/ CallbackDeadlock)
====
