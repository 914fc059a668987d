------------------------------ MODULE CmdQueue ------------------------------
(***************************************************************************)
(* The command path of one CEasyCamClient: the queue of command messages,  *)
(* cmdSendThread which takes them off and writes them to the link, and the *)
(* two ways in which the client is torn down.                              *)
(*                                                                         *)
(* Messages come from EC_SendCommand, under sSessionMutex, and one, the    *)
(* login command, from connectTimeThread, without it.  A message is a heap *)
(* block that exactly one party must delete.  EC_Logout tears down by      *)
(* logOut; a broken connection makes the garbage collection thread (GC)    *)
(* tear down by joinThreads and the destructor.  Both hold sSessionMutex.  *)
(*                                                                         *)
(* mCmdQueueMutex is held over several steps only by clearCmdQueue and     *)
(* mCmdMsgMutex only by cmdSendThread; the other critical sections are one *)
(* step.  The link library (LINK_Check_Buffer, LINK_Write) is external.    *)
(***************************************************************************)
EXTENDS Integers, Sequences

CONSTANTS
  Msgs,                \* the messages the application and the login build
  LoginMsg,            \* the one sendLoginCmd builds
  NoMsg,               \* the pointer NULL
  MAX_CMD_QUEUE_SIZE,  \* 20 in the code
  MaxRetries,          \* 100 turns of the write loop in the code
  Size                 \* the length of a message, in units of writing

ASSUME CmdQueueAssumption ==
  /\ LoginMsg \in Msgs
  /\ NoMsg \notin Msgs
  /\ MAX_CMD_QUEUE_SIZE \in Nat \ {0}
  /\ MaxRetries \in Nat \ {0}
  /\ Size \in Nat \ {0}

VARIABLES
  mCmdQueue,
  mCmdQueueEnable,
  mCmdQueueMutex,      \* "free", or "teardown" while clearCmdQueue holds it
  mCmdMsgMutex,        \* "free", or "sender" while cmdSendThread holds it
  mCmdSendThreadRun,
  mSockHandle,         \* is mSockHandle >= 0?
  mHasBrokenDetected,  \* set by the first thread that sees the link fail
  block,               \* what became of the heap block of each message
  sp,                  \* where cmdSendThread is
  pCmd,                \* its local variables: the message being written,
  retryCnt,            \* the turns of its write loop,
  isConnectionBroken,  \* and whether the link failed under it
  written,             \* how much of each message was written
  lp,                  \* where connectTimeThread is with the login command
  td,                  \* where the teardown is
  cleared,             \* the messages clearCmdQueue has deleted so far
  link,                \* is the link session alive?
  gaveUp,              \* the messages abandoned after MaxRetries
  accepted, delivered, \* history: the messages queued, and written whole
  wire                 \* history: the messages written in part or whole

queueVars  == <<mCmdQueue, mCmdQueueEnable, mCmdQueueMutex>>
senderVars == <<mCmdMsgMutex, sp, pCmd, retryCnt, isConnectionBroken>>
wireVars   == <<written, gaveUp, delivered, wire>>
vars == <<queueVars, senderVars, wireVars, mCmdSendThreadRun, mSockHandle,
          mHasBrokenDetected, block, lp, td, cleared, link, accepted>>

BlockStates == {"unbuilt", "queued", "sending", "deleted", "refused"}
SenderPc    == {"idle", "fetch", "write", "free", "exited"}
LoginPc     == {"connecting", "connected", "checked", "done"}
LogoutPc    == {"loJoin", "loSender", "loLock", "loClear", "loClose"}
GcPc        == {"gcLock", "gcClear", "gcClose", "gcDelete", "gcSender"}
TeardownPc  == {"none", "loggedOut", "deleted"} \cup LogoutPc \cup GcPc

TypeOK ==
  /\ mCmdQueue \in Seq(Msgs)
  /\ mCmdQueueEnable \in BOOLEAN
  /\ mCmdQueueMutex \in {"free", "teardown"}
  /\ mCmdMsgMutex \in {"free", "sender"}
  /\ mCmdSendThreadRun \in BOOLEAN
  /\ mSockHandle \in BOOLEAN
  /\ mHasBrokenDetected \in BOOLEAN
  /\ block \in [Msgs -> BlockStates]
  /\ sp \in SenderPc
  /\ pCmd \in Msgs \cup {NoMsg}
  /\ retryCnt \in 0 .. MaxRetries
  /\ isConnectionBroken \in BOOLEAN
  /\ written \in [Msgs -> 0 .. Size]
  /\ lp \in LoginPc
  /\ td \in TeardownPc
  /\ cleared \in Nat
  /\ link \in BOOLEAN
  /\ gaveUp \subseteq Msgs
  /\ accepted \in Seq(Msgs)
  /\ delivered \in Seq(Msgs)
  /\ wire \in Seq(Msgs)

Init ==
  /\ mCmdQueue = << >> /\ mCmdQueueEnable = TRUE
  /\ mCmdQueueMutex = "free" /\ mCmdMsgMutex = "free"
  /\ mCmdSendThreadRun = TRUE
  /\ mSockHandle = FALSE
  /\ mHasBrokenDetected = FALSE
  /\ block = [m \in Msgs |-> "unbuilt"]
  /\ sp = "idle" /\ pCmd = NoMsg /\ retryCnt = 0 /\ isConnectionBroken = FALSE
  /\ written = [m \in Msgs |-> 0]
  /\ lp = "connecting"
  /\ td = "none" /\ cleared = 0
  /\ link = TRUE
  /\ gaveUp = {}
  /\ accepted = << >> /\ delivered = << >> /\ wire = << >>

SessionMutexFree == td \in {"none", "loggedOut", "deleted"}

----------------------------------------------------------------------------
(* Producers.                                                              *)

\* Mutant: push_front.
PushBack_Front(m) == mCmdQueue' = <<m>> \o mCmdQueue

PushBack(m) == mCmdQueue' = Append(mCmdQueue, m)

\* addCmdToQueue behind its check of mCmdQueueEnable: a full queue refuses the
\* message, which nobody deletes then.
AddCmdToQueue(m) ==
  IF Len(mCmdQueue) >= MAX_CMD_QUEUE_SIZE
    THEN /\ block' = [block EXCEPT ![m] = "refused"]
         /\ UNCHANGED <<mCmdQueue, accepted>>
    ELSE /\ block' = [block EXCEPT ![m] = "queued"]
         /\ PushBack(m)
         /\ accepted' = Append(accepted, m)

Refuse(m) ==
  /\ block' = [block EXCEPT ![m] = "refused"]
  /\ UNCHANGED <<mCmdQueue, accepted>>

\* EC_SendCommand for this client, from lock to unlock of sSessionMutex, which
\* keeps every teardown out.
SendCommand(m) ==
  /\ m # LoginMsg /\ block[m] = "unbuilt"
  /\ SessionMutexFree /\ td # "deleted"
  /\ IF mCmdQueueEnable THEN AddCmdToQueue(m) ELSE Refuse(m)
  /\ UNCHANGED <<mCmdQueueEnable, mCmdQueueMutex, senderVars, wireVars,
                 mCmdSendThreadRun, mSockHandle, mHasBrokenDetected, lp, td,
                 cleared, link>>

LoginUnchanged ==
  UNCHANGED <<mCmdQueueEnable, mCmdQueueMutex, senderVars, wireVars,
              mCmdSendThreadRun, mHasBrokenDetected, td, cleared>>

\* connectTimeThread: mSockHandle = sockHandle, or CONNECT_FAIL.
Connected ==
  /\ lp = "connecting" /\ td # "deleted"
  /\ \/ lp' = "connected" /\ mSockHandle' = TRUE
     \/ lp' = "done" /\ UNCHANGED mSockHandle
  /\ LoginUnchanged
  /\ UNCHANGED <<mCmdQueue, accepted, block, link>>

\* sendLoginCmd looks at mCmdQueueEnable before it locks mCmdQueueMutex ...
LoginCheck ==
  /\ lp = "connected" /\ td # "deleted"
  /\ IF mCmdQueueEnable
       THEN lp' = "checked" /\ UNCHANGED <<mCmdQueue, accepted, block>>
       ELSE lp' = "done" /\ Refuse(LoginMsg)
  /\ LoginUnchanged
  /\ UNCHANGED <<mSockHandle, link>>

\* ... so the message may go into a queue that was closed meanwhile.
LoginAdd ==
  /\ lp = "checked" /\ td # "deleted"
  /\ mCmdQueueMutex = "free"
  /\ lp' = "done"
  /\ AddCmdToQueue(LoginMsg)
  /\ LoginUnchanged
  /\ UNCHANGED <<mSockHandle, link>>

----------------------------------------------------------------------------
(* cmdSendThread.                                                          *)

SenderUnchanged ==
  UNCHANGED <<mCmdQueueEnable, mCmdQueueMutex, mCmdSendThreadRun, mSockHandle,
              lp, td, cleared, link, accepted>>

SenderLock ==
  /\ sp = "idle" /\ mCmdSendThreadRun /\ mSockHandle
  /\ mCmdMsgMutex = "free"
  /\ mCmdMsgMutex' = "sender" /\ sp' = "fetch"
  /\ SenderUnchanged
  /\ UNCHANGED <<mCmdQueue, pCmd, retryCnt, isConnectionBroken, wireVars,
                 block, mHasBrokenDetected>>

\* Mutant: mCmdMsgMutex stays locked.
UnlockMsg_Never == UNCHANGED mCmdMsgMutex

UnlockMsg == mCmdMsgMutex' = "free"

\* getCmdFromQueue takes mCmdQueueMutex while mCmdMsgMutex is held.
SenderFetch ==
  /\ sp = "fetch"
  /\ mCmdQueueMutex = "free"
  /\ IF mCmdQueue = << >>
       THEN /\ sp' = "idle" /\ UnlockMsg
            /\ UNCHANGED <<mCmdQueue, pCmd, retryCnt, block>>
       ELSE /\ sp' = "write" /\ retryCnt' = 0
            /\ pCmd' = Head(mCmdQueue)
            /\ mCmdQueue' = Tail(mCmdQueue)
            /\ block' = [block EXCEPT ![Head(mCmdQueue)] = "sending"]
            /\ UNCHANGED mCmdMsgMutex
  /\ isConnectionBroken' = FALSE
  /\ SenderUnchanged
  /\ UNCHANGED <<wireVars, mHasBrokenDetected>>

\* Mutant: a short write ends the loop.
Unfinished_Short == written[pCmd] = 0

Unfinished == written[pCmd] < Size

\* Mutant: one turn too many.
TurnsLeft_More == retryCnt <= MaxRetries

\* retryCnt++ < 100
TurnsLeft == retryCnt < MaxRetries

MayWrite == sp = "write" /\ Unfinished /\ mCmdSendThreadRun

\* LINK_Write took n units of the message.
SenderWrites(n) ==
  /\ MayWrite /\ TurnsLeft /\ link /\ mSockHandle
  /\ written[pCmd] + n <= Size
  /\ retryCnt' = retryCnt + 1
  /\ written' = [written EXCEPT ![pCmd] = @ + n]
  /\ wire' = IF written[pCmd] = 0 THEN Append(wire, pCmd) ELSE wire
  /\ delivered' = IF written'[pCmd] = Size THEN Append(delivered, pCmd)
                                           ELSE delivered
  /\ SenderUnchanged
  /\ UNCHANGED <<mCmdQueue, mCmdMsgMutex, sp, pCmd, isConnectionBroken, gaveUp,
                 block, mHasBrokenDetected>>

\* The send buffer holds 256K, or LINK_Write returned 0 or "remote full".
SenderWaits ==
  /\ MayWrite /\ TurnsLeft /\ link /\ mSockHandle
  /\ retryCnt' = retryCnt + 1
  /\ SenderUnchanged
  /\ UNCHANGED <<mCmdQueue, mCmdMsgMutex, sp, pCmd, isConnectionBroken,
                 wireVars, block, mHasBrokenDetected>>

\* The session is closed or its handle is invalid.
SenderFails ==
  /\ MayWrite /\ TurnsLeft /\ ~(link /\ mSockHandle)
  /\ isConnectionBroken' = TRUE
  /\ sp' = "free"
  /\ SenderUnchanged
  /\ UNCHANGED <<mCmdQueue, mCmdMsgMutex, pCmd, retryCnt, wireVars, block,
                 mHasBrokenDetected>>

\* The write loop ends: all written, told to stop, or out of turns.
SenderEndsLoop ==
  /\ sp = "write" /\ sp' = "free"
  /\ \/ ~MayWrite /\ UNCHANGED gaveUp
     \/ MayWrite /\ ~TurnsLeft /\ gaveUp' = gaveUp \cup {pCmd}
  /\ SenderUnchanged
  /\ UNCHANGED <<mCmdQueue, mCmdMsgMutex, pCmd, retryCnt, isConnectionBroken,
                 written, delivered, wire, block, mHasBrokenDetected>>

\* The message is deleted whatever became of it.  The thread ends only if it
\* is the first to report the broken connection.
SenderFrees ==
  /\ sp = "free"
  /\ block' = [block EXCEPT ![pCmd] = "deleted"]
  /\ pCmd' = NoMsg
  /\ UnlockMsg
  /\ IF isConnectionBroken /\ ~mHasBrokenDetected
       THEN sp' = "exited" /\ mHasBrokenDetected' = TRUE
       ELSE sp' = "idle" /\ UNCHANGED mHasBrokenDetected
  /\ SenderUnchanged
  /\ UNCHANGED <<mCmdQueue, retryCnt, isConnectionBroken, wireVars>>

SenderStops ==
  /\ sp = "idle" /\ ~mCmdSendThreadRun
  /\ sp' = "exited"
  /\ SenderUnchanged
  /\ UNCHANGED <<mCmdQueue, mCmdMsgMutex, pCmd, retryCnt, isConnectionBroken,
                 wireVars, block, mHasBrokenDetected>>

Sender ==
  \/ SenderLock \/ SenderFetch
  \/ \E n \in 1 .. Size : SenderWrites(n)
  \/ SenderWaits \/ SenderFails \/ SenderEndsLoop \/ SenderFrees \/ SenderStops

----------------------------------------------------------------------------
(* The link, and the receiving threads that notice when it is gone.        *)

LinkBreaks ==
  /\ mSockHandle /\ link
  /\ link' = FALSE
  /\ UNCHANGED <<queueVars, senderVars, wireVars, mCmdSendThreadRun,
                 mSockHandle, mHasBrokenDetected, block, lp, td, cleared,
                 accepted>>

\* cmdRecvThread or avRecvThread reads an error; connectTimeThread starts them
\* once the login command is queued.
ReceiverDetects ==
  /\ ~link /\ lp = "done" /\ mSockHandle /\ ~mHasBrokenDetected
  /\ mHasBrokenDetected' = TRUE
  /\ UNCHANGED <<queueVars, senderVars, wireVars, mCmdSendThreadRun,
                 mSockHandle, block, lp, td, cleared, link, accepted>>

----------------------------------------------------------------------------
(* Teardown.                                                               *)

TeardownUnchanged == UNCHANGED <<senderVars, wireVars, mHasBrokenDetected, lp,
                                 link, accepted>>

\* Mutant: the run flag, the enable flag and the list stay as they are.
StopSender_Never   == UNCHANGED mCmdSendThreadRun
DisableQueue_Never == UNCHANGED mCmdQueueEnable
EmptyQueue_Never   == UNCHANGED mCmdQueue

StopSender   == mCmdSendThreadRun' = FALSE
DisableQueue == mCmdQueueEnable' = FALSE
EmptyQueue   == mCmdQueue' = << >>

\* Mutant: the loop over the list ends one message early.
AllCleared_Early == cleared >= Len(mCmdQueue) - 1

AllCleared == cleared >= Len(mCmdQueue)

\* EC_Logout calls logOut, which first joins connectTimeThread.
Logout ==
  /\ td = "none" /\ td' = "loJoin"
  /\ TeardownUnchanged
  /\ UNCHANGED <<queueVars, mCmdSendThreadRun, mSockHandle, block, cleared>>

LogoutStopsSender ==
  /\ td = "loJoin" /\ td' = "loSender"
  /\ lp = "done"
  /\ StopSender
  /\ TeardownUnchanged
  /\ UNCHANGED <<queueVars, mSockHandle, block, cleared>>

LogoutDisables ==
  /\ td = "loSender" /\ td' = "loLock"
  /\ sp = "exited"
  /\ DisableQueue
  /\ TeardownUnchanged
  /\ UNCHANGED <<mCmdQueue, mCmdQueueMutex, mCmdSendThreadRun, mSockHandle,
                 block, cleared>>

\* The GC finds the session with refCnt 0, because the connection broke or
\* because it was logged out; joinThreads disables the queue first.
Collect ==
  /\ \/ td = "none" /\ mHasBrokenDetected
     \/ td = "loggedOut"
  /\ td' = "gcLock"
  /\ DisableQueue
  /\ TeardownUnchanged
  /\ UNCHANGED <<mCmdQueue, mCmdQueueMutex, mCmdSendThreadRun, mSockHandle,
                 block, cleared>>

\* clearCmdQueue holds mCmdQueueMutex throughout ...
ClearLock(lock, clear) ==
  /\ td = lock /\ td' = clear
  /\ mCmdQueueMutex' = "teardown"
  /\ cleared' = 0
  /\ TeardownUnchanged
  /\ UNCHANGED <<mCmdQueue, mCmdQueueEnable, mCmdSendThreadRun, mSockHandle,
                 block>>

\* ... and takes mCmdMsgMutex for each message it deletes.
ClearOne(clear) ==
  /\ td = clear
  /\ ~AllCleared
  /\ mCmdMsgMutex = "free"
  /\ block' = [block EXCEPT ![mCmdQueue[cleared + 1]] = "deleted"]
  /\ cleared' = cleared + 1
  /\ TeardownUnchanged
  /\ UNCHANGED <<queueVars, mCmdSendThreadRun, mSockHandle, td>>

ClearUnlock(clear, next) ==
  /\ td = clear /\ td' = next
  /\ AllCleared
  /\ EmptyQueue
  /\ mCmdQueueMutex' = "free"
  /\ TeardownUnchanged
  /\ UNCHANGED <<mCmdQueueEnable, mCmdSendThreadRun, mSockHandle, block,
                 cleared>>

\* closeConnection.
CloseConnection(close, next) ==
  /\ td = close /\ td' = next
  /\ mSockHandle' = FALSE
  /\ TeardownUnchanged
  /\ UNCHANGED <<queueVars, mCmdSendThreadRun, block, cleared>>

\* The destructor stops cmdSendThread and waits for it.
DeleteClient ==
  /\ td = "gcDelete" /\ td' = "gcSender"
  /\ StopSender
  /\ TeardownUnchanged
  /\ UNCHANGED <<queueVars, mSockHandle, block, cleared>>

ClientDeleted ==
  /\ td = "gcSender" /\ td' = "deleted"
  /\ sp = "exited"
  /\ TeardownUnchanged
  /\ UNCHANGED <<queueVars, mCmdSendThreadRun, mSockHandle, block, cleared>>

Teardown ==
  \/ LogoutStopsSender \/ LogoutDisables
  \/ ClearLock("loLock", "loClear") \/ ClearOne("loClear")
  \/ ClearUnlock("loClear", "loClose") \/ CloseConnection("loClose", "loggedOut")
  \/ Collect
  \/ ClearLock("gcLock", "gcClear") \/ ClearOne("gcClear")
  \/ ClearUnlock("gcClear", "gcClose") \/ CloseConnection("gcClose", "gcDelete")
  \/ DeleteClient \/ ClientDeleted

Done == td = "deleted" /\ UNCHANGED vars

Next ==
  \/ \E m \in Msgs : SendCommand(m)
  \/ Connected \/ LoginCheck \/ LoginAdd
  \/ Sender
  \/ LinkBreaks \/ ReceiverDetects
  \/ Logout \/ Teardown
  \/ Done

Spec == Init /\ [][Next]_vars

(***************************************************************************)
(* Every thread keeps being scheduled: connectTimeThread ends its login,   *)
(* cmdSendThread and the receiving threads run on, a teardown once begun   *)
(* goes on and the GC polls every 100 ms.  Nothing forces the application. *)
(***************************************************************************)
FairSpec ==
  /\ Spec
  /\ WF_vars(Connected \/ LoginCheck \/ LoginAdd)
  /\ WF_vars(Sender)
  /\ WF_vars(ReceiverDetects)
  /\ WF_vars(Teardown)

----------------------------------------------------------------------------
(* Properties.                                                             *)

Clearing == td \in {"loClear", "gcClear"}

\* The places of mCmdQueue whose block clearCmdQueue has not deleted yet.
LivePlaces == {i \in 1 .. Len(mCmdQueue) : Clearing => i > cleared}

\* No block is used after it was deleted or deleted twice: the one being
\* written and those still queued are alive and belong to one place only.
NoDanglingMessage ==
  /\ sp \in {"write", "free"} => pCmd \in Msgs /\ block[pCmd] = "sending"
  /\ \A i \in LivePlaces : block[mCmdQueue[i]] = "queued"
  /\ \A i, j \in 1 .. Len(mCmdQueue) :
       i # j => mCmdQueue[i] # mCmdQueue[j]

\* On the wire a message is followed by another only if it was written whole,
\* or given up after MaxRetries turns (CEasyCamClient.cpp:2178).
FramesWhole ==
  \A i \in 1 .. Len(wire) - 1 :
    written[wire[i]] = Size \/ wire[i] \in gaveUp

\* After logOut no accepted message is left undeleted.
LogoutFreesAll ==
  td = "loggedOut" =>
    \A m \in Msgs : block[m] \notin {"queued", "sending"}

\* When the client is gone a block is left undeleted in two cases only.  Either
\* addCmdToQueue refused it, the queue being full or closed, and it was never
\* queued: no caller deletes a refused one (CEasyCamClient.cpp:1199, 1637).
\* Or it is the login command that came between the check of mCmdQueueEnable
\* and the lock (1473-1479), into the queue that was cleared meanwhile.
LeaksRefusedOrLate ==
  td = "deleted" => \A m \in Msgs :
    \/ block[m] \in {"unbuilt", "deleted"}
    \/ block[m] = "refused" /\ \A i \in 1 .. Len(accepted) : accepted[i] # m
    \/ block[m] = "queued" /\ m = LoginMsg

\* The messages written whole are a part of those accepted, in their order.
Fifo == INSTANCE LossyFifo WITH Messages <- Msgs
DeliversInOrder == Fifo!Spec

\* cmdSendThread holds mCmdMsgMutex and wants mCmdQueueMutex, the GC holds
\* mCmdQueueMutex in clearCmdQueue and wants mCmdMsgMutex.
LockOrderDeadlock ==
  /\ sp = "fetch" /\ mCmdMsgMutex = "sender"
  /\ td = "gcClear" /\ mCmdQueueMutex = "teardown"
  /\ cleared < Len(mCmdQueue)

\* logOut joins cmdSendThread before it clears the queue, so it returns.
LogoutReturns == td \in LogoutPc ~> td = "loggedOut"

\* A queued message is taken off while the client has a connection, unless the
\* two locks are taken in opposite orders.
QueuedLeaves ==
  \A m \in Msgs :
    (block[m] = "queued" /\ mSockHandle)
      ~> (block[m] # "queued" \/ ~mSockHandle \/ LockOrderDeadlock)

\* The GC deletes every session it collects, unless the two locks are taken
\* in opposite orders.
CollectedOrDeadlocked == td \in GcPc ~> (td = "deleted" \/ LockOrderDeadlock)

\* The GC deletes every session it collects and lets sSessionMutex go, which
\* EC_Logout needs to return a result (EasyCamSdk.h:195).
GcReleasesSessions == td \in GcPc ~> td = "deleted"

============================================================================
