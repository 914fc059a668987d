-------------------------- MODULE CmdQueue_proofs --------------------------
(***************************************************************************)
(* The safety of a client's command path, proved for any set of messages,  *)
(* any queue size, any number of retries and any message length: every     *)
(* message block has one owner, a teardown leaves none behind, frames are  *)
(* not mixed on the wire, the path implements LossyFifo, and a teardown    *)
(* can be blocked by the lock order alone.                                 *)
(*                                                                         *)
(* IInv has five layers, each inductive on top of the ones before:         *)
(*   Typed    TypeOK, and a sender at work has a message;                  *)
(*   Locks    who holds the two message mutexes;                           *)
(*   Phases   what a teardown has stopped by the time it is so far;        *)
(*   Blocks   where the owner of every message block is;                   *)
(*   Frames   why the wire ends with at most one unfinished frame.         *)
(* Order, on top of IInv, relates queue, sender and wire to the order in   *)
(* which the messages were accepted, and Stopped, beside it, says what a   *)
(* teardown has told cmdSendThread before it joins it.                     *)
(***************************************************************************)
EXTENDS CmdQueue, TLAPS, SequenceTheorems

Typed == TypeOK /\ (sp \in {"write", "free"} => pCmd \in Msgs)

Locks ==
  /\ mCmdMsgMutex = "sender" <=> sp \in {"fetch", "write", "free"}
  /\ mCmdQueueMutex = "teardown" <=> Clearing

\* The places of a teardown after logOut has joined connectTimeThread, ...
LoginOver   == {"loSender", "loLock", "loClear", "loClose", "loggedOut"}
\* ... after it has joined cmdSendThread, ...
SenderOver  == {"loLock", "loClear", "loClose", "loggedOut", "deleted"}
\* ... after it has disabled the queue, and after it has emptied it.
QueueClosed ==
  {"loLock", "loClear", "loClose", "loggedOut", "deleted"} \cup GcPc
Emptied     == {"gcClose", "gcDelete", "gcSender", "deleted"}

Phases ==
  /\ td \in LoginOver => lp = "done"
  /\ td \in SenderOver => sp = "exited"
  /\ td \in QueueClosed => ~mCmdQueueEnable
  /\ td \in {"loClose", "loggedOut"} => mCmdQueue = << >>
  /\ td \in Emptied =>
       \A i \in 1 .. Len(mCmdQueue) : mCmdQueue[i] = LoginMsg

\* clearCmdQueue has deleted the block at place i.
Gone(i) == Clearing /\ i <= cleared

Blocks ==
  /\ \A i \in 1 .. Len(mCmdQueue) :
       block[mCmdQueue[i]] = IF Gone(i) THEN "deleted" ELSE "queued"
  /\ \A i, j \in 1 .. Len(mCmdQueue) : i # j => mCmdQueue[i] # mCmdQueue[j]
  /\ \A m \in Msgs :
       /\ block[m] = "queued" =>
            \E i \in 1 .. Len(mCmdQueue) : mCmdQueue[i] = m
       /\ block[m] = "sending" <=> sp \in {"write", "free"} /\ pCmd = m
  /\ lp # "done" => block[LoginMsg] = "unbuilt"

\* cmdSendThread will never write again.
Silent ==
  /\ lp # "connecting"
  /\ ~mCmdSendThreadRun \/ ~link \/ ~mSockHandle

\* The message at place i of the wire is complete, abandoned, the one being
\* written, or the last one.
Frames ==
  /\ lp = "connecting" => ~mSockHandle /\ sp \in {"idle", "exited"}
                          /\ wire = << >>
  /\ \A i \in 1 .. Len(wire) :
       /\ written[wire[i]] > 0
       /\ \/ written[wire[i]] = Size
          \/ wire[i] \in gaveUp
          \/ i = Len(wire) /\ (Silent \/ (sp = "write" /\ pCmd = wire[i]))

IInv == Typed /\ Locks /\ Phases /\ Blocks /\ Frames

\* m is in the sequence s; m comes before n there, wherever they both are.
In(s, m)        == \E a \in 1 .. Len(s) : s[a] = m
Before(s, m, n) == \A a, b \in 1 .. Len(s) : s[a] = m /\ s[b] = n => a < b

LastDelivered == delivered[Len(delivered)]

\* Messages are queued, sent and delivered in the order of acceptance: those
\* in the queue come after the one being sent, and all of these after the last
\* one delivered.
Order ==
  /\ \A a, b \in 1 .. Len(accepted) : a # b => accepted[a] # accepted[b]
  /\ \A a \in 1 .. Len(accepted) :
       block[accepted[a]] \notin {"unbuilt", "refused"}
  /\ \A i \in 1 .. Len(mCmdQueue) : In(accepted, mCmdQueue[i])
  /\ \A i, j \in 1 .. Len(mCmdQueue) :
       i < j => Before(accepted, mCmdQueue[i], mCmdQueue[j])
  /\ sp = "write" =>
       /\ In(accepted, pCmd)
       /\ \A i \in 1 .. Len(mCmdQueue) : Before(accepted, pCmd, mCmdQueue[i])
  /\ delivered # << >> =>
       /\ In(accepted, LastDelivered)
       /\ \A i \in 1 .. Len(mCmdQueue) :
            Before(accepted, LastDelivered, mCmdQueue[i])
       /\ sp = "write" /\ written[pCmd] < Size =>
            Before(accepted, LastDelivered, pCmd)

----------------------------------------------------------------------------
(* Sequences.                                                              *)

\* What Append does, place by place.
LEMMA AppendPlaces ==
  ASSUME NEW S, NEW s \in Seq(S), NEW e \in S
  PROVE  /\ Append(s, e) \in Seq(S)
         /\ Len(s) \in Nat /\ Len(Append(s, e)) = Len(s) + 1
         /\ \A i \in 1 .. Len(s) : s[i] \in S /\ Append(s, e)[i] = s[i]
         /\ Append(s, e)[Len(s) + 1] = e
<1>1. Len(s) \in Nat /\ s \in [1 .. Len(s) -> S] BY LenProperties
<1> QED BY <1>1

\* What Head and Tail do, place by place.
LEMMA TailPlaces ==
  ASSUME NEW S, NEW s \in Seq(S), s # << >>
  PROVE  /\ Head(s) \in S /\ Head(s) = s[1]
         /\ Len(s) \in Nat \ {0}
         /\ Tail(s) \in Seq(S) /\ Len(Tail(s)) = Len(s) - 1
         /\ \A i \in 1 .. Len(s) - 1 : Tail(s)[i] = s[i + 1]
<1>1. Len(s) \in Nat \ {0} BY EmptySeq
<1>2. Head(s) \in S /\ Tail(s) \in Seq(S) /\ Len(Tail(s)) = Len(s) - 1
      /\ \A i \in 1 .. Len(Tail(s)) : Tail(s)[i] = s[i + 1]
  BY HeadTailProperties
<1> QED BY <1>1, <1>2

----------------------------------------------------------------------------
(* Typed.                                                                  *)

\* The constructor of the client leaves well-typed fields.
LEMMA InitTyped == Init => Typed
<1> SUFFICES ASSUME Init PROVE Typed OBVIOUS
<1> USE DEF Init
<1>1. << >> \in Seq(Msgs) BY EmptySeq
<1>2. 0 \in 0 .. MaxRetries /\ 0 \in 0 .. Size BY CmdQueueAssumption
<1>3. block \in [Msgs -> BlockStates] /\ written \in [Msgs -> 0 .. Size]
  BY <1>2 DEF BlockStates
<1>4. sp \in SenderPc /\ lp \in LoginPc /\ td \in TeardownPc
  BY DEF SenderPc, LoginPc, TeardownPc
<1> QED BY <1>1, <1>2, <1>3, <1>4 DEF Typed, TypeOK

\* What addCmdToQueue does with a message, accepted or not.
LEMMA TypedAdd ==
  ASSUME Typed, NEW m \in Msgs, AddCmdToQueue(m) \/ Refuse(m)
  PROVE  /\ block' \in [Msgs -> BlockStates]
         /\ mCmdQueue' \in Seq(Msgs) /\ accepted' \in Seq(Msgs)
<1> USE DEF Typed, TypeOK, AddCmdToQueue, Refuse, PushBack
<1>1. block' \in [Msgs -> BlockStates] BY DEF BlockStates
<1>2. Append(mCmdQueue, m) \in Seq(Msgs) /\ Append(accepted, m) \in Seq(Msgs)
  BY AppendPlaces
<1> QED BY <1>1, <1>2

\* The steps of the producers keep the types.
LEMMA TypedProducer ==
  ASSUME Typed,
         (\E m \in Msgs : SendCommand(m)) \/ Connected \/ LoginCheck \/ LoginAdd
  PROVE  Typed'
<1> USE DEF Typed, TypeOK, LoginUnchanged, queueVars, senderVars, wireVars,
            LoginPc
<1>1. ASSUME NEW m \in Msgs, SendCommand(m) PROVE Typed'
  <2>1. AddCmdToQueue(m) \/ Refuse(m) BY <1>1 DEF SendCommand
  <2> QED BY <1>1, <2>1, TypedAdd DEF SendCommand
<1>2. CASE Connected BY <1>2 DEF Connected
<1>3. CASE LoginCheck
  <2>1. CASE mCmdQueueEnable BY <1>3, <2>1 DEF LoginCheck
  <2>2. CASE ~mCmdQueueEnable
    <3>1. Refuse(LoginMsg) BY <1>3, <2>2 DEF LoginCheck
    <3> QED BY <1>3, <2>2, <3>1, TypedAdd, CmdQueueAssumption DEF LoginCheck
  <2> QED BY <2>1, <2>2
<1>4. CASE LoginAdd
  BY <1>4, TypedAdd, CmdQueueAssumption DEF LoginAdd
<1> QED BY <1>1, <1>2, <1>3, <1>4

\* The steps of cmdSendThread keep the types.
LEMMA TypedSender == ASSUME Typed, Sender PROVE Typed'
<1> USE CmdQueueAssumption
    DEF Typed, TypeOK, SenderUnchanged, wireVars, SenderPc, BlockStates,
        UnlockMsg
<1>1. CASE SenderLock BY <1>1 DEF SenderLock
<1>2. CASE SenderFetch
  <2>1. CASE mCmdQueue = << >> BY <1>2, <2>1 DEF SenderFetch
  <2>2. CASE mCmdQueue # << >>
    <3>1. Head(mCmdQueue) \in Msgs /\ Tail(mCmdQueue) \in Seq(Msgs)
      BY <2>2, TailPlaces
    <3>2. /\ sp' = "write" /\ retryCnt' = 0 /\ isConnectionBroken' = FALSE
          /\ pCmd' = Head(mCmdQueue) /\ mCmdQueue' = Tail(mCmdQueue)
          /\ block' = [block EXCEPT ![Head(mCmdQueue)] = "sending"]
          /\ UNCHANGED <<mCmdMsgMutex, wireVars, mHasBrokenDetected>>
          /\ SenderUnchanged
      BY <1>2, <2>2 DEF SenderFetch
    <3>3. /\ block' \in [Msgs -> BlockStates]
          /\ pCmd' \in Msgs /\ mCmdQueue' \in Seq(Msgs)
          /\ retryCnt' \in 0 .. MaxRetries /\ sp' \in SenderPc
      BY <3>1, <3>2
    <3>4. /\ isConnectionBroken' \in BOOLEAN
          /\ UNCHANGED <<mCmdMsgMutex, wireVars, mHasBrokenDetected>>
          /\ SenderUnchanged
      BY <3>2
    <3> QED
      BY ONLY Typed, <3>3, <3>4 DEF Typed, TypeOK, SenderUnchanged, wireVars
  <2> QED BY <2>1, <2>2
<1>3. ASSUME NEW n \in 1 .. Size, SenderWrites(n) PROVE Typed'
  <2> USE DEF SenderWrites, MayWrite, TurnsLeft
  <2>1. pCmd \in Msgs BY <1>3
  <2>2. written' \in [Msgs -> 0 .. Size] BY <1>3, <2>1
  <2>3. wire' \in Seq(Msgs) BY <1>3, <2>1, AppendPlaces
  <2>4. delivered' \in Seq(Msgs) BY <1>3, <2>1, AppendPlaces
  <2>5. retryCnt' \in 0 .. MaxRetries BY <1>3
  <2> QED BY <1>3, <2>1, <2>2, <2>3, <2>4, <2>5
<1>4. CASE SenderWaits BY <1>4 DEF SenderWaits, MayWrite, TurnsLeft
<1>5. CASE SenderFails BY <1>5 DEF SenderFails, MayWrite
<1>6. CASE SenderEndsLoop BY <1>6 DEF SenderEndsLoop
<1>7. CASE SenderFrees BY <1>7 DEF SenderFrees
<1>8. CASE SenderStops BY <1>8 DEF SenderStops
<1> QED BY <1>1, <1>2, <1>3, <1>4, <1>5, <1>6, <1>7, <1>8 DEF Sender

\* The steps of a teardown keep the types.
LEMMA TypedTeardown == ASSUME Typed, Logout \/ Teardown PROVE Typed'
<1> USE DEF Typed, TypeOK, TeardownUnchanged, queueVars, senderVars, wireVars,
            StopSender, DisableQueue
<1> DEFINE Pc == {"none", "loggedOut", "deleted", "loJoin", "loSender",
                  "loLock", "loClear", "loClose", "gcLock", "gcClear",
                  "gcClose", "gcDelete", "gcSender"}
<1>0. Pc = TeardownPc BY DEF TeardownPc, LogoutPc, GcPc
<1>1. CASE Logout BY <1>0, <1>1 DEF Logout
<1>2. CASE LogoutStopsSender BY <1>0, <1>2 DEF LogoutStopsSender
<1>3. CASE LogoutDisables BY <1>0, <1>3 DEF LogoutDisables
<1>4. CASE Collect BY <1>0, <1>4 DEF Collect
<1>5. ASSUME NEW lock, NEW clear \in TeardownPc, ClearLock(lock, clear)
      PROVE  Typed'
  BY <1>5 DEF ClearLock
<1>6. ASSUME NEW clear, ClearOne(clear) PROVE Typed'
  <2>1. mCmdQueue[cleared + 1] \in Msgs
    BY <1>6, ElementOfSeq, LenProperties DEF ClearOne, AllCleared
  <2> QED BY <1>6, <2>1 DEF ClearOne, BlockStates
<1>7. ASSUME NEW clear, NEW next \in TeardownPc, ClearUnlock(clear, next)
      PROVE  Typed'
  BY <1>7, EmptySeq DEF ClearUnlock, EmptyQueue
<1>8. ASSUME NEW close, NEW next \in TeardownPc, CloseConnection(close, next)
      PROVE  Typed'
  BY <1>8 DEF CloseConnection
<1>9. CASE DeleteClient BY <1>0, <1>9 DEF DeleteClient
<1>10. CASE ClientDeleted BY <1>0, <1>10 DEF ClientDeleted
<1> QED
  BY <1>0, <1>1, <1>2, <1>3, <1>4, <1>5, <1>6, <1>7, <1>8, <1>9, <1>10
     DEF Teardown

\* Every step keeps the types.
LEMMA TypedStep == ASSUME Typed, [Next]_vars PROVE Typed'
<1> USE DEF Typed, TypeOK, queueVars, senderVars, wireVars
<1>1. CASE LinkBreaks BY <1>1 DEF LinkBreaks
<1>2. CASE ReceiverDetects BY <1>2 DEF ReceiverDetects
<1>3. CASE UNCHANGED vars BY <1>3 DEF vars
<1> QED
  BY <1>1, <1>2, <1>3, TypedProducer, TypedSender, TypedTeardown DEF Next, Done

\* Every variable keeps its type: clearCmdQueue deletes no block beyond the end
\* of the queue, no frame is written beyond its length, and the write loop
\* makes at most MaxRetries turns.
THEOREM TypeCorrect == Spec => []TypeOK
<1>1. Init => Typed BY InitTyped
<1>2. Typed /\ [Next]_vars => Typed' BY TypedStep
<1>3. Typed => TypeOK BY DEF Typed
<1> QED BY <1>1, <1>2, <1>3, PTL DEF Spec

----------------------------------------------------------------------------
(* Locks and phases.                                                       *)

\* cmdSendThread takes and lets go mCmdMsgMutex as its place says, and
\* clearCmdQueue mCmdQueueMutex.
LEMMA LocksStep == ASSUME Typed, Locks, [Next]_vars PROVE Locks'
<1> USE DEF Locks, Clearing, queueVars, senderVars
<1>1. ASSUME NEW m \in Msgs, SendCommand(m) PROVE Locks'
  BY <1>1 DEF SendCommand
<1>2. CASE Connected \/ LoginCheck \/ LoginAdd
  BY <1>2 DEF Connected, LoginCheck, LoginAdd, LoginUnchanged
<1>3. CASE Sender
  <2> USE DEF SenderUnchanged, UnlockMsg
  <2>1. CASE SenderLock BY <2>1 DEF SenderLock
  <2>2. CASE SenderFetch BY <2>2 DEF SenderFetch
  <2>3. CASE SenderFrees BY <2>3 DEF SenderFrees
  <2>4. CASE SenderStops BY <2>4 DEF SenderStops
  <2>5. ASSUME NEW n \in 1 .. Size, SenderWrites(n) PROVE Locks'
    BY <2>5 DEF SenderWrites
  <2>6. CASE SenderWaits BY <2>6 DEF SenderWaits
  <2>7. CASE SenderFails BY <2>7 DEF SenderFails, MayWrite
  <2>8. CASE SenderEndsLoop BY <2>8 DEF SenderEndsLoop
  <2> QED BY <1>3, <2>1, <2>2, <2>3, <2>4, <2>5, <2>6, <2>7, <2>8 DEF Sender
<1>4. CASE LinkBreaks \/ ReceiverDetects
  BY <1>4 DEF LinkBreaks, ReceiverDetects
<1>5. CASE Logout \/ Teardown
  <2> USE DEF TeardownUnchanged
  <2>1. CASE Logout BY <2>1 DEF Logout
  <2>2. CASE LogoutStopsSender BY <2>2 DEF LogoutStopsSender
  <2>3. CASE LogoutDisables BY <2>3 DEF LogoutDisables
  <2>4. CASE Collect BY <2>4 DEF Collect
  <2>5. ASSUME NEW lock, NEW clear \in {"loClear", "gcClear"},
               ClearLock(lock, clear)
        PROVE  Locks'
    BY <2>5 DEF ClearLock
  <2>6. ASSUME NEW clear, ClearOne(clear) PROVE Locks' BY <2>6 DEF ClearOne
  <2>7. ASSUME NEW clear, NEW next \in {"loClose", "gcClose"},
               ClearUnlock(clear, next)
        PROVE  Locks'
    BY <2>7 DEF ClearUnlock
  <2>8. ASSUME NEW close \in {"loClose", "gcClose"},
               NEW next \in {"loggedOut", "gcDelete"},
               CloseConnection(close, next)
        PROVE  Locks'
    BY <2>8 DEF CloseConnection
  <2>9. CASE DeleteClient BY <2>9 DEF DeleteClient
  <2>10. CASE ClientDeleted BY <2>10 DEF ClientDeleted
  <2> QED
    BY <1>5, <2>1, <2>2, <2>3, <2>4, <2>5, <2>6, <2>7, <2>8, <2>9, <2>10
       DEF Teardown
<1>6. CASE UNCHANGED vars BY <1>6 DEF vars
<1> QED BY <1>1, <1>2, <1>3, <1>4, <1>5, <1>6 DEF Next, Done

\* A step that leaves the teardown where it is, enables nothing, restarts
\* nothing and adds nothing to the queue but the login command.
LEMMA PhasesKept ==
  ASSUME Typed, Phases, UNCHANGED td,
         lp = "done" => lp' = "done",
         sp = "exited" => sp' = "exited",
         mCmdQueueEnable' => mCmdQueueEnable,
         UNCHANGED mCmdQueue
  PROVE  Phases'
BY DEF Phases

\* What a message added to the queue does to the phases: it is the login
\* command, or the queue is enabled.
LEMMA PhasesAdd ==
  ASSUME Typed, Phases, NEW m \in Msgs, AddCmdToQueue(m) \/ Refuse(m),
         UNCHANGED <<td, sp, mCmdQueueEnable>>, lp = "done" => lp' = "done",
         (lp # "done" /\ m = LoginMsg) \/ mCmdQueueEnable \/ Refuse(m)
  PROVE  Phases'
<1>1. CASE UNCHANGED mCmdQueue BY <1>1, PhasesKept
<1>2. CASE mCmdQueue' = Append(mCmdQueue, m)
  <2>1. td \notin {"loClose", "loggedOut"} \/ UNCHANGED mCmdQueue
    BY <1>2 DEF Phases, LoginOver, QueueClosed, Refuse
  <2>2. ASSUME td \in Emptied, m = LoginMsg
        PROVE  \A i \in 1 .. Len(mCmdQueue') : mCmdQueue'[i] = LoginMsg
    BY <1>2, <2>2, AppendPlaces DEF Typed, TypeOK, Phases
  <2>3. td \in Emptied => m = LoginMsg \/ UNCHANGED mCmdQueue
    BY DEF Phases, Emptied, QueueClosed, GcPc, Refuse
  <2> QED BY <1>1, <1>2, <2>1, <2>2, <2>3 DEF Phases
<1> QED BY <1>1, <1>2 DEF AddCmdToQueue, Refuse, PushBack

\* The producers keep the phases: EC_SendCommand finds the queue disabled once
\* a teardown has begun, and a login not yet over holds logOut up.
LEMMA PhasesProducer ==
  ASSUME Typed, Phases,
         (\E m \in Msgs : SendCommand(m)) \/ Connected \/ LoginCheck \/ LoginAdd
  PROVE  Phases'
<1> USE DEF LoginUnchanged, senderVars
<1>1. ASSUME NEW m \in Msgs, SendCommand(m) PROVE Phases'
  BY <1>1, PhasesAdd DEF SendCommand
<1>2. CASE Connected BY <1>2, PhasesKept DEF Connected
<1>3. CASE LoginCheck
  <2>1. CASE mCmdQueueEnable BY <1>3, <2>1, PhasesKept DEF LoginCheck
  <2>2. CASE ~mCmdQueueEnable
    BY <1>3, <2>2, PhasesKept DEF LoginCheck, Refuse
  <2> QED BY <2>1, <2>2
<1>4. CASE LoginAdd
  BY <1>4, PhasesAdd, CmdQueueAssumption DEF LoginAdd
<1> QED BY <1>1, <1>2, <1>3, <1>4

\* cmdSendThread keeps the phases: once it has exited it stays so.
LEMMA PhasesSender == ASSUME Typed, Phases, Sender PROVE Phases'
<1> USE DEF SenderUnchanged
<1>1. CASE SenderFetch
  <2>1. mCmdQueue = << >> => mCmdQueue' = << >> BY <1>1 DEF SenderFetch
  <2>2. ASSUME td \in Emptied
        PROVE  \A i \in 1 .. Len(mCmdQueue') : mCmdQueue'[i] = LoginMsg
    <3>1. CASE mCmdQueue = << >> BY <1>1, <2>2, <3>1 DEF SenderFetch, Phases
    <3>2. CASE mCmdQueue # << >>
      <4>1. mCmdQueue' = Tail(mCmdQueue) BY <1>1, <3>2 DEF SenderFetch
      <4>2. \A i \in 1 .. Len(mCmdQueue) : mCmdQueue[i] = LoginMsg
        BY <2>2 DEF Phases
      <4>3. /\ Len(mCmdQueue) \in Nat \ {0}
            /\ Len(mCmdQueue') = Len(mCmdQueue) - 1
            /\ \A i \in 1 .. Len(mCmdQueue) - 1 :
                 mCmdQueue'[i] = mCmdQueue[i + 1]
        BY <3>2, <4>1, TailPlaces DEF Typed, TypeOK
      <4> QED BY ONLY <4>2, <4>3
    <3> QED BY <3>1, <3>2
  <2> QED BY <1>1, <2>1, <2>2 DEF SenderFetch, Phases
<1>2. CASE ~SenderFetch
  <2>1. UNCHANGED mCmdQueue /\ sp # "exited"
    BY <1>2 DEF Sender, SenderLock, SenderWrites, SenderWaits, SenderFails,
                SenderEndsLoop, SenderFrees, SenderStops, MayWrite
  <2>2. UNCHANGED <<td, lp, mCmdQueueEnable>>
    BY DEF Sender, SenderLock, SenderFetch, SenderWrites, SenderWaits,
           SenderFails, SenderEndsLoop, SenderFrees, SenderStops
  <2> QED BY <2>1, <2>2, PhasesKept
<1> QED BY <1>1, <1>2

\* A teardown goes on only when what it waits for has ended.
LEMMA PhasesTeardown == ASSUME Typed, Phases, Logout \/ Teardown PROVE Phases'
<1> USE DEF TeardownUnchanged, queueVars, senderVars, DisableQueue, EmptyQueue,
            Phases, LoginOver, SenderOver, QueueClosed, Emptied, GcPc
<1>1. CASE Logout BY <1>1 DEF Logout
<1>2. CASE LogoutStopsSender BY <1>2 DEF LogoutStopsSender
<1>3. CASE LogoutDisables BY <1>3 DEF LogoutDisables
<1>4. CASE Collect BY <1>4 DEF Collect
<1>5. CASE ClearLock("loLock", "loClear") BY <1>5 DEF ClearLock
<1>6. CASE ClearLock("gcLock", "gcClear") BY <1>6 DEF ClearLock
<1>7. ASSUME NEW clear, ClearOne(clear) PROVE Phases' BY <1>7 DEF ClearOne
<1>8. CASE ClearUnlock("loClear", "loClose") BY <1>8 DEF ClearUnlock
<1>9. CASE ClearUnlock("gcClear", "gcClose")
  <2>1. mCmdQueue' = << >> /\ Len(mCmdQueue') = 0
    BY <1>9, EmptySeq DEF ClearUnlock
  <2> QED BY <1>9, <2>1 DEF ClearUnlock
<1>10. CASE CloseConnection("loClose", "loggedOut")
  BY <1>10 DEF CloseConnection
<1>11. CASE CloseConnection("gcClose", "gcDelete")
  BY <1>11 DEF CloseConnection
<1>12. CASE DeleteClient BY <1>12 DEF DeleteClient
<1>13. CASE ClientDeleted BY <1>13 DEF ClientDeleted
<1> QED
  BY <1>1, <1>2, <1>3, <1>4, <1>5, <1>6, <1>7, <1>8, <1>9, <1>10, <1>11,
     <1>12, <1>13 DEF Teardown

\* Every step keeps the phases.
LEMMA PhasesStep == ASSUME Typed, Phases, [Next]_vars PROVE Phases'
<1> USE DEF queueVars, senderVars
<1>1. CASE LinkBreaks BY <1>1, PhasesKept DEF LinkBreaks
<1>2. CASE ReceiverDetects BY <1>2, PhasesKept DEF ReceiverDetects
<1>3. CASE UNCHANGED vars BY <1>3, PhasesKept DEF vars
<1> QED
  BY <1>1, <1>2, <1>3, PhasesProducer, PhasesSender, PhasesTeardown
     DEF Next, Done

----------------------------------------------------------------------------
(* Blocks.                                                                 *)

\* The client starts without a message.
LEMMA InitBlocks == Init => Locks /\ Phases /\ Blocks
<1> SUFFICES ASSUME Init PROVE Locks /\ Phases /\ Blocks OBVIOUS
<1>1. Len(mCmdQueue) = 0 BY EmptySeq DEF Init
<1>2. Locks BY DEF Init, Locks, Clearing
<1>3. Phases
  BY <1>1 DEF Init, Phases, LoginOver, SenderOver, QueueClosed, Emptied, GcPc
<1>4. Blocks BY <1>1, CmdQueueAssumption DEF Init, Blocks
<1> QED BY <1>2, <1>3, <1>4

\* A step that touches neither queue nor blocks.
LEMMA BlocksKept ==
  ASSUME Typed, Blocks, UNCHANGED <<mCmdQueue, block, cleared, pCmd>>,
         Clearing' <=> Clearing, lp = "done" => lp' = "done",
         sp' \in {"write", "free"} <=> sp \in {"write", "free"}
  PROVE  Blocks'
BY DEF Blocks, Gone

\* A message just built finds its place in the queue, or is left to nobody.
LEMMA BlocksAdd ==
  ASSUME Typed, Blocks, NEW m \in Msgs, block[m] = "unbuilt",
         Refuse(m) \/ (AddCmdToQueue(m) /\ ~Clearing),
         m # LoginMsg \/ lp' = "done", lp = "done" => lp' = "done",
         UNCHANGED <<td, cleared, sp, pCmd>>
  PROVE  Blocks'
<1> USE DEF Typed, TypeOK
<1>0. Clearing' <=> Clearing BY DEF Clearing
<1>1. /\ Len(mCmdQueue) \in Nat
      /\ \A i \in 1 .. Len(mCmdQueue) :
           mCmdQueue[i] \in Msgs /\ mCmdQueue[i] # m
  <2>1. Len(mCmdQueue) \in Nat /\ mCmdQueue \in [1 .. Len(mCmdQueue) -> Msgs]
    BY LenProperties
  <2> QED BY <2>1 DEF Blocks
<1>2. CASE Refuse(m)
  <2>1. block' = [block EXCEPT ![m] = "refused"] /\ UNCHANGED mCmdQueue
    BY <1>2 DEF Refuse
  <2> QED BY <1>0, <1>1, <2>1 DEF Blocks, Gone
<1>3. CASE AddCmdToQueue(m) /\ ~Clearing /\ ~Refuse(m)
  <2>1. /\ block' = [block EXCEPT ![m] = "queued"]
        /\ mCmdQueue' = Append(mCmdQueue, m)
    BY <1>3 DEF AddCmdToQueue, Refuse, PushBack
  <2>2. /\ Len(mCmdQueue') = Len(mCmdQueue) + 1
        /\ mCmdQueue'[Len(mCmdQueue) + 1] = m
        /\ \A i \in 1 .. Len(mCmdQueue) : mCmdQueue'[i] = mCmdQueue[i]
    BY <2>1, AppendPlaces
  <2>3. \A i \in 1 .. Len(mCmdQueue') :
          i \in 1 .. Len(mCmdQueue) \/ i = Len(mCmdQueue) + 1
    BY ONLY <1>1, <2>2
  <2>4. \A i \in 1 .. Len(mCmdQueue') : block'[mCmdQueue'[i]] = "queued"
    <3>1. \A i \in 1 .. Len(mCmdQueue) : block[mCmdQueue[i]] = "queued"
      BY <1>3 DEF Blocks, Gone
    <3>2. block \in [Msgs -> BlockStates] OBVIOUS
    <3> QED BY ONLY <1>1, <2>1, <2>2, <2>3, <3>1, <3>2, m \in Msgs
  <2>5. \A i, j \in 1 .. Len(mCmdQueue') :
          i # j => mCmdQueue'[i] # mCmdQueue'[j]
    <3>1. \A i, j \in 1 .. Len(mCmdQueue) :
            i # j => mCmdQueue[i] # mCmdQueue[j]
      BY DEF Blocks
    <3> QED BY ONLY <1>1, <2>2, <2>3, <3>1
  <2>6. ASSUME NEW n \in Msgs, block'[n] = "queued"
        PROVE  \E i \in 1 .. Len(mCmdQueue') : mCmdQueue'[i] = n
    <3>1. CASE n = m BY ONLY <1>1, <2>2, <3>1
    <3>2. CASE n # m
      <4>1. PICK i \in 1 .. Len(mCmdQueue) : mCmdQueue[i] = n
        BY <2>1, <2>6, <3>2 DEF Blocks
      <4> QED BY ONLY <1>1, <2>2, <4>1
    <3> QED BY <3>1, <3>2
  <2>7. \A n \in Msgs :
          block'[n] = "sending" <=> sp' \in {"write", "free"} /\ pCmd' = n
    BY <2>1 DEF Blocks
  <2>8. lp' # "done" => block'[LoginMsg] = "unbuilt"
    BY <2>1, CmdQueueAssumption DEF Blocks
  <2> QED BY <1>0, <1>3, <2>4, <2>5, <2>6, <2>7, <2>8 DEF Blocks, Gone
<1> QED BY <1>2, <1>3

\* The producers' steps: EC_SendCommand keeps teardowns out by sSessionMutex,
\* and sendLoginCmd keeps clearCmdQueue out by mCmdQueueMutex.
LEMMA BlocksProducer ==
  ASSUME Typed, Locks, Blocks,
         (\E m \in Msgs : SendCommand(m)) \/ Connected \/ LoginCheck \/ LoginAdd
  PROVE  Blocks'
<1> USE DEF LoginUnchanged, senderVars
<1>1. ASSUME NEW m \in Msgs, SendCommand(m) PROVE Blocks'
  <2>1. ~Clearing BY <1>1 DEF SendCommand, SessionMutexFree, Clearing
  <2> QED BY <1>1, <2>1, BlocksAdd DEF SendCommand
<1>2. CASE Connected
  BY <1>2, BlocksKept DEF Connected, Clearing
<1>3. CASE LoginCheck
  <2>1. CASE mCmdQueueEnable
    BY <1>3, <2>1, BlocksKept DEF LoginCheck, Clearing
  <2>2. CASE ~mCmdQueueEnable
    BY <1>3, <2>2, BlocksAdd, CmdQueueAssumption DEF LoginCheck, Blocks
  <2> QED BY <2>1, <2>2
<1>4. CASE LoginAdd
  <2>1. ~Clearing /\ block[LoginMsg] = "unbuilt"
    BY <1>4 DEF LoginAdd, Locks, Blocks
  <2> QED BY <1>4, <2>1, BlocksAdd, CmdQueueAssumption DEF LoginAdd
<1> QED BY <1>1, <1>2, <1>3, <1>4

\* getCmdFromQueue hands the first block of the queue over to cmdSendThread.
LEMMA BlocksFetch == ASSUME Typed, Locks, Blocks, SenderFetch PROVE Blocks'
<1> USE DEF Typed, TypeOK
<1>0. UNCHANGED <<td, cleared, lp>> BY DEF SenderFetch, SenderUnchanged
<1>1. CASE mCmdQueue = << >>
  BY <1>0, <1>1, BlocksKept DEF SenderFetch, Clearing
<1>2. CASE mCmdQueue # << >>
  <2> DEFINE q == mCmdQueue
             h == Head(mCmdQueue)
  <2>1. ~Clearing /\ ~Clearing'
    BY <1>0 DEF SenderFetch, Locks, Clearing
  <2>2. /\ sp = "fetch" /\ sp' = "write" /\ pCmd' = h
        /\ block' = [block EXCEPT ![h] = "sending"] /\ mCmdQueue' = Tail(q)
    BY <1>2 DEF SenderFetch
  <2>3. /\ h \in Msgs /\ h = q[1] /\ Len(q) \in Nat \ {0}
        /\ Len(mCmdQueue') = Len(q) - 1
        /\ \A i \in 1 .. Len(q) - 1 : mCmdQueue'[i] = q[i + 1]
    BY <1>2, <2>2, TailPlaces
  <2>4. \A i \in 1 .. Len(q) : q[i] \in Msgs BY ElementOfSeq
  <2>5. \A i \in 1 .. Len(q) : block[q[i]] = "queued"
    BY <2>1 DEF Blocks, Gone
  <2>6. \A i, j \in 1 .. Len(q) : i # j => q[i] # q[j] BY DEF Blocks
  <2> HIDE DEF q, h
  <2>7. \A i \in 1 .. Len(q) - 1 :
          i + 1 \in 1 .. Len(q) /\ i + 1 # 1 /\ q[i + 1] # h
    BY ONLY <2>3, <2>6
  <2>8. \A i \in 1 .. Len(q) - 1 : block'[mCmdQueue'[i]] = "queued"
    BY <2>2, <2>3, <2>4, <2>5, <2>7
  <2>9. \A i, j \in 1 .. Len(q) - 1 : i # j => mCmdQueue'[i] # mCmdQueue'[j]
    BY ONLY <2>3, <2>6, <2>7
  <2>10. ASSUME NEW m \in Msgs, block'[m] = "queued"
         PROVE  \E i \in 1 .. Len(q) - 1 : mCmdQueue'[i] = m
    <3>1. m # h /\ block[m] = "queued" BY <2>2, <2>3, <2>10
    <3>2. PICK i \in 1 .. Len(q) : q[i] = m BY <3>1 DEF Blocks, q
    <3>3. i - 1 \in 1 .. Len(q) - 1 /\ mCmdQueue'[i - 1] = m
      BY <2>3, <3>1, <3>2
    <3> QED BY <3>3
  <2>11. \A m \in Msgs :
           block'[m] = "sending" <=> sp' \in {"write", "free"} /\ pCmd' = m
    BY <2>2, <2>3 DEF Blocks
  <2>12. lp' # "done" => block'[LoginMsg] = "unbuilt"
    BY <1>0, <2>2, <2>3, <2>5, CmdQueueAssumption DEF Blocks
  <2> QED
    BY <2>1, <2>3, <2>8, <2>9, <2>10, <2>11, <2>12 DEF Blocks, Gone
<1> QED BY <1>1, <1>2

\* cmdSendThread deletes the block that it sends and no other.
LEMMA BlocksSender == ASSUME Typed, Locks, Blocks, Sender PROVE Blocks'
<1> USE DEF SenderUnchanged, Clearing
<1>1. CASE SenderFetch BY <1>1, BlocksFetch
<1>2. CASE SenderFrees
  <2> USE DEF Typed, TypeOK
  <2>1. /\ pCmd \in Msgs /\ block[pCmd] = "sending"
        /\ block' = [block EXCEPT ![pCmd] = "deleted"]
        /\ sp' \notin {"write", "free"}
        /\ UNCHANGED <<mCmdQueue, td, cleared, lp>>
    BY <1>2 DEF SenderFrees, Blocks
  <2>2. \A i \in 1 .. Len(mCmdQueue) :
          mCmdQueue[i] \in Msgs /\ mCmdQueue[i] # pCmd
    BY <2>1, ElementOfSeq DEF Blocks
  <2>3. \A m \in Msgs : m # pCmd => block'[m] # "sending"
    BY <2>1 DEF Blocks
  <2> QED BY <2>1, <2>2, <2>3, CmdQueueAssumption DEF Blocks, Gone
<1>3. CASE SenderLock BY <1>3, BlocksKept DEF SenderLock
<1>4. ASSUME NEW n \in 1 .. Size, SenderWrites(n) PROVE Blocks'
  BY <1>4, BlocksKept DEF SenderWrites
<1>5. CASE SenderWaits BY <1>5, BlocksKept DEF SenderWaits
<1>6. CASE SenderFails BY <1>6, BlocksKept DEF SenderFails, MayWrite
<1>7. CASE SenderEndsLoop BY <1>7, BlocksKept DEF SenderEndsLoop
<1>8. CASE SenderStops BY <1>8, BlocksKept DEF SenderStops
<1> QED BY <1>1, <1>2, <1>3, <1>4, <1>5, <1>6, <1>7, <1>8 DEF Sender

\* clearCmdQueue deletes the blocks of the queue one after the other, none of
\* them the one that cmdSendThread works on.
LEMMA BlocksClearOne ==
  ASSUME Typed, Locks, Blocks, NEW clear \in {"loClear", "gcClear"},
         ClearOne(clear)
  PROVE  Blocks'
<1> USE DEF Typed, TypeOK
<1> DEFINE q == mCmdQueue
           k == cleared + 1
<1>1. Len(q) \in Nat /\ \A i \in 1 .. Len(q) : q[i] \in Msgs
  BY LenProperties, ElementOfSeq
<1>2. /\ Clearing /\ Clearing' /\ k \in 1 .. Len(q) /\ cleared' = k
      /\ block' = [block EXCEPT ![q[k]] = "deleted"]
      /\ sp \notin {"write", "free"}
      /\ UNCHANGED <<mCmdQueue, sp, pCmd, lp>>
  BY <1>1 DEF ClearOne, AllCleared, Clearing, Locks, TeardownUnchanged,
              queueVars, senderVars
<1>3. \A i, j \in 1 .. Len(q) : i # j => q[i] # q[j] BY DEF Blocks
<1>4. \A i \in 1 .. Len(q) :
        block[q[i]] = IF i <= cleared THEN "deleted" ELSE "queued"
  BY <1>2 DEF Blocks, Gone
<1> HIDE DEF q
<1>5. \A i \in 1 .. Len(q) :
        block'[q[i]] = IF i <= cleared' THEN "deleted" ELSE "queued"
  BY <1>1, <1>2, <1>3, <1>4
<1>6. \A m \in Msgs : block'[m] = "queued" => block[m] = "queued"
  BY <1>1, <1>2
<1>7. \A m \in Msgs : block'[m] # "sending" BY <1>1, <1>2 DEF Blocks
<1>8. lp' # "done" => block'[LoginMsg] = "unbuilt"
  BY <1>1, <1>2, <1>4, CmdQueueAssumption DEF Blocks
<1> QED BY <1>2, <1>3, <1>5, <1>6, <1>7, <1>8 DEF Blocks, Gone, q

\* clearCmdQueue empties the queue when all its blocks are deleted.
LEMMA BlocksClearUnlock ==
  ASSUME Typed, Blocks, NEW clear \in {"loClear", "gcClear"},
         NEW next \in {"loClose", "gcClose"}, ClearUnlock(clear, next)
  PROVE  Blocks'
<1> USE DEF Typed, TypeOK
<1>1. /\ Clearing /\ cleared >= Len(mCmdQueue) /\ Len(mCmdQueue) \in Nat
      /\ UNCHANGED <<block, sp, pCmd, lp>>
  BY LenProperties
     DEF ClearUnlock, AllCleared, Clearing, TeardownUnchanged, senderVars
<1>2. Len(mCmdQueue') = 0 BY EmptySeq DEF ClearUnlock, EmptyQueue
<1>3. \A i \in 1 .. Len(mCmdQueue) : block[mCmdQueue[i]] = "deleted"
  BY <1>1 DEF Blocks, Gone
<1>4. \A m \in Msgs : block[m] # "queued" BY <1>3 DEF Blocks
<1> QED BY <1>1, <1>2, <1>4 DEF Blocks

\* The teardown as a whole.
LEMMA BlocksTeardown ==
  ASSUME Typed, Locks, Blocks, Logout \/ Teardown PROVE Blocks'
<1> USE DEF TeardownUnchanged, queueVars, senderVars, DisableQueue, Clearing
<1>1. CASE Logout BY <1>1, BlocksKept DEF Logout
<1>2. CASE LogoutStopsSender BY <1>2, BlocksKept DEF LogoutStopsSender
<1>3. CASE LogoutDisables BY <1>3, BlocksKept DEF LogoutDisables
<1>4. CASE Collect BY <1>4, BlocksKept DEF Collect
<1>5. ASSUME NEW lock \in {"loLock", "gcLock"},
             NEW clear \in {"loClear", "gcClear"}, ClearLock(lock, clear)
      PROVE  Blocks'
  <2>1. ~Clearing /\ Clearing' /\ cleared' = 0
        /\ UNCHANGED <<mCmdQueue, block, sp, pCmd, lp>>
    BY <1>5 DEF ClearLock
  <2>2. \A i \in 1 .. Len(mCmdQueue) : ~Gone(i) /\ ~Gone(i)'
    BY <2>1 DEF Gone
  <2> QED BY ONLY Blocks, <2>1, <2>2 DEF Blocks
<1>6. ASSUME NEW clear \in {"loClear", "gcClear"}, ClearOne(clear)
      PROVE  Blocks'
  BY <1>6, BlocksClearOne
<1>7. ASSUME NEW clear \in {"loClear", "gcClear"},
             NEW next \in {"loClose", "gcClose"}, ClearUnlock(clear, next)
      PROVE  Blocks'
  BY <1>7, BlocksClearUnlock
<1>8. ASSUME NEW close \in {"loClose", "gcClose"},
             NEW next \in {"loggedOut", "gcDelete"},
             CloseConnection(close, next)
      PROVE  Blocks'
  BY <1>8, BlocksKept DEF CloseConnection
<1>9. CASE DeleteClient BY <1>9, BlocksKept DEF DeleteClient
<1>10. CASE ClientDeleted BY <1>10, BlocksKept DEF ClientDeleted
<1> QED
  BY <1>1, <1>2, <1>3, <1>4, <1>5, <1>6, <1>7, <1>8, <1>9, <1>10 DEF Teardown

\* Every step keeps one owner for every block.
LEMMA BlocksStep == ASSUME Typed, Locks, Blocks, [Next]_vars PROVE Blocks'
<1> USE DEF queueVars, senderVars, Clearing
<1>1. CASE LinkBreaks BY <1>1, BlocksKept DEF LinkBreaks
<1>2. CASE ReceiverDetects BY <1>2, BlocksKept DEF ReceiverDetects
<1>3. CASE UNCHANGED vars BY <1>3, BlocksKept DEF vars
<1> QED
  BY <1>1, <1>2, <1>3, BlocksProducer, BlocksSender, BlocksTeardown
     DEF Next, Done

----------------------------------------------------------------------------
(* Frames.                                                                 *)

\* A step that writes nothing, and leaves the write loop only when the frame
\* is complete or given up, or when nothing can be written any more.
LEMMA FramesKept ==
  ASSUME Frames, UNCHANGED <<wire, written>>, gaveUp \subseteq gaveUp',
         Silent => Silent',
         sp = "write" =>
           \/ sp' = "write" /\ pCmd' = pCmd
           \/ Silent' \/ written[pCmd] = Size \/ pCmd \in gaveUp',
         lp' = "connecting" => lp = "connecting" /\ ~mSockHandle'
                               /\ sp' \in {"idle", "exited"}
  PROVE  Frames'
BY DEF Frames

\* LINK_Write adds to the frame on which cmdSendThread works, or starts it: the
\* thread can still write, so the frame before that one is complete or given up.
LEMMA FramesWrites ==
  ASSUME Typed, Frames, NEW n \in 1 .. Size, SenderWrites(n) PROVE Frames'
<1> USE DEF Typed, TypeOK
<1>1. /\ sp = "write" /\ sp' = "write" /\ pCmd \in Msgs /\ pCmd' = pCmd
      /\ written[pCmd] + n <= Size
      /\ written' = [written EXCEPT ![pCmd] = @ + n]
      /\ wire' = IF written[pCmd] = 0 THEN Append(wire, pCmd) ELSE wire
      /\ UNCHANGED <<gaveUp, lp>>
  BY DEF SenderWrites, MayWrite, SenderUnchanged
<1>2. lp # "connecting" /\ ~Silent
  BY <1>1 DEF Frames, SenderWrites, MayWrite, Silent
<1>3. Len(wire) \in Nat /\ \A i \in 1 .. Len(wire) : wire[i] \in Msgs
  BY LenProperties, ElementOfSeq
<1>4. /\ written'[pCmd] = written[pCmd] + n
      /\ \A m \in Msgs : m # pCmd => written'[m] = written[m]
      /\ \A m \in Msgs : written[m] \in 0 .. Size
  BY <1>1
<1>5. \A i \in 1 .. Len(wire) :
        /\ written[wire[i]] > 0
        /\ \/ written[wire[i]] = Size
           \/ wire[i] \in gaveUp
           \/ i = Len(wire) /\ pCmd = wire[i]
  BY <1>2 DEF Frames
<1>6. Size \in Nat \ {0} /\ n \in Nat \ {0} BY CmdQueueAssumption
<1>7. \A i \in 1 .. Len(wire) :
        /\ written'[wire[i]] > 0
        /\ \/ written'[wire[i]] = Size
           \/ wire[i] \in gaveUp
           \/ i = Len(wire) /\ pCmd = wire[i]
  BY ONLY <1>1, <1>3, <1>4, <1>5, <1>6
<1>8. CASE written[pCmd] # 0
  <2>1. wire' = wire BY <1>1, <1>8
  <2> QED BY <1>1, <1>2, <1>7, <2>1 DEF Frames
<1>9. CASE written[pCmd] = 0
  <2>1. wire' = Append(wire, pCmd) BY <1>1, <1>9
  <2>2. /\ Len(wire') = Len(wire) + 1 /\ wire'[Len(wire) + 1] = pCmd
        /\ \A i \in 1 .. Len(wire) : wire'[i] = wire[i]
    BY <1>1, <2>1, AppendPlaces
  <2>3. \A i \in 1 .. Len(wire) :
          written'[wire[i]] = Size \/ wire[i] \in gaveUp
    BY ONLY <1>5, <1>7, <1>9
  <2>4. \A i \in 1 .. Len(wire') :
          i \in 1 .. Len(wire) \/ i = Len(wire) + 1
    BY ONLY <1>3, <2>2
  <2>5. \A i \in 1 .. Len(wire') :
          /\ written'[wire'[i]] > 0
          /\ \/ written'[wire'[i]] = Size
             \/ wire'[i] \in gaveUp
             \/ i = Len(wire') /\ pCmd = wire'[i]
    BY ONLY <1>4, <1>6, <1>7, <1>9, <2>2, <2>3, <2>4
  <2> QED BY <1>1, <1>2, <2>5 DEF Frames
<1> QED BY <1>8, <1>9

\* The steps of cmdSendThread, which works only while there is a connection.
LEMMA FramesSender == ASSUME Typed, Frames, Sender PROVE Frames'
<1> USE DEF SenderUnchanged, wireVars, Silent
<1>1. sp \in {"fetch", "write", "free"} => lp # "connecting" BY DEF Frames
<1>2. CASE SenderLock
  <2>1. lp # "connecting" BY <1>2 DEF SenderLock, Frames
  <2> QED BY <1>2, <2>1, FramesKept DEF SenderLock
<1>3. CASE SenderFetch BY <1>1, <1>3, FramesKept DEF SenderFetch
<1>4. ASSUME NEW n \in 1 .. Size, SenderWrites(n) PROVE Frames'
  BY <1>4, FramesWrites
<1>5. CASE SenderWaits
  BY <1>1, <1>5, FramesKept DEF SenderWaits, MayWrite
<1>6. CASE SenderFails
  BY <1>1, <1>6, FramesKept DEF SenderFails, MayWrite
<1>7. CASE SenderEndsLoop
  <2>1. sp = "write" /\ pCmd \in Msgs BY <1>7 DEF SenderEndsLoop, Typed
  <2>2. MayWrite \/ ~mCmdSendThreadRun \/ written[pCmd] = Size
    <3>1. written[pCmd] \in 0 .. Size BY <2>1 DEF Typed, TypeOK
    <3> QED BY <2>1, <3>1, CmdQueueAssumption DEF MayWrite, Unfinished
  <2>3. CASE ~MayWrite
    BY <1>1, <1>7, <2>1, <2>2, <2>3, FramesKept DEF SenderEndsLoop
  <2>4. CASE MayWrite
    BY <1>1, <1>7, <2>1, <2>4, FramesKept DEF SenderEndsLoop
  <2> QED BY <2>3, <2>4
<1>8. CASE SenderFrees BY <1>1, <1>8, FramesKept DEF SenderFrees
<1>9. CASE SenderStops
  <2>1. lp' = "connecting" => ~mSockHandle' BY <1>9 DEF SenderStops, Frames
  <2> QED BY <1>9, <2>1, FramesKept DEF SenderStops
<1> QED
  BY <1>2, <1>3, <1>4, <1>5, <1>6, <1>7, <1>8, <1>9 DEF Sender

\* A teardown silences cmdSendThread for good, once there was a connection.
LEMMA FramesTeardown == ASSUME Frames, Logout \/ Teardown PROVE Frames'
<1> USE DEF TeardownUnchanged, senderVars, wireVars
<1>1. UNCHANGED <<wire, written, gaveUp, sp, pCmd, lp, link>>
  BY DEF Logout, Teardown, LogoutStopsSender, LogoutDisables, Collect,
         ClearLock, ClearOne, ClearUnlock, CloseConnection, DeleteClient,
         ClientDeleted
<1>2. mSockHandle' => mSockHandle
  BY DEF Logout, Teardown, LogoutStopsSender, LogoutDisables, Collect,
         ClearLock, ClearOne, ClearUnlock, CloseConnection, DeleteClient,
         ClientDeleted
<1>3. mCmdSendThreadRun' => mCmdSendThreadRun
  BY DEF Logout, Teardown, LogoutStopsSender, LogoutDisables, Collect,
         ClearLock, ClearOne, ClearUnlock, CloseConnection, DeleteClient,
         ClientDeleted, StopSender
<1>4. Silent => Silent' BY <1>1, <1>2, <1>3 DEF Silent
<1>5. lp' = "connecting" => lp = "connecting" /\ ~mSockHandle'
                            /\ sp' \in {"idle", "exited"}
  BY <1>1, <1>2 DEF Frames
<1> QED BY <1>1, <1>4, <1>5, FramesKept

\* Every step leaves at most one unfinished frame, at the end of the wire.
LEMMA FramesStep == ASSUME Typed, Frames, [Next]_vars PROVE Frames'
<1> USE DEF queueVars, senderVars, wireVars, LoginUnchanged, Silent
<1>1. ASSUME NEW m \in Msgs, SendCommand(m) PROVE Frames'
  <2>1. lp' = "connecting" => ~mSockHandle' /\ sp' \in {"idle", "exited"}
    BY <1>1 DEF SendCommand, Frames
  <2> QED BY <1>1, <2>1, FramesKept DEF SendCommand
<1>2. CASE Connected
  <2>1. Len(wire) = 0 /\ Len(wire') = 0 BY <1>2, EmptySeq DEF Connected, Frames
  <2>2. lp' # "connecting" BY <1>2 DEF Connected
  <2> QED BY <2>1, <2>2 DEF Frames
<1>3. CASE LoginCheck BY <1>3, FramesKept DEF LoginCheck
<1>4. CASE LoginAdd BY <1>4, FramesKept DEF LoginAdd
<1>5. CASE LinkBreaks
  <2>1. lp # "connecting" BY <1>5 DEF LinkBreaks, Frames
  <2> QED BY <1>5, <2>1, FramesKept DEF LinkBreaks
<1>6. CASE ReceiverDetects BY <1>6, FramesKept DEF ReceiverDetects
<1>7. CASE UNCHANGED vars
  <2>1. lp' = "connecting" => ~mSockHandle' /\ sp' \in {"idle", "exited"}
    BY <1>7 DEF vars, Frames
  <2> QED BY <1>7, <2>1, FramesKept DEF vars
<1> QED
  BY <1>1, <1>2, <1>3, <1>4, <1>5, <1>6, <1>7, FramesSender, FramesTeardown
     DEF Next, Done

----------------------------------------------------------------------------
(* The safety theorems.                                                    *)

\* What every reachable state satisfies.
THEOREM Inductive == Spec => []IInv
<1>1. Init => IInv
  <2>1. Init => Frames BY EmptySeq DEF Init, Frames
  <2> QED BY <2>1, InitTyped, InitBlocks DEF IInv
<1>2. IInv /\ [Next]_vars => IInv'
  BY TypedStep, LocksStep, PhasesStep, BlocksStep, FramesStep DEF IInv
<1> QED BY <1>1, <1>2, PTL DEF Spec

\* No message block is used after it was deleted, or deleted twice.
THEOREM NoDangling == Spec => []NoDanglingMessage
<1>1. IInv => NoDanglingMessage
  <2> SUFFICES ASSUME IInv PROVE NoDanglingMessage OBVIOUS
  <2>1. sp \in {"write", "free"} => pCmd \in Msgs /\ block[pCmd] = "sending"
    BY DEF IInv, Typed, Blocks
  <2>2. \A i \in LivePlaces : ~Gone(i) /\ i \in 1 .. Len(mCmdQueue)
    <3>1. \A i \in 1 .. Len(mCmdQueue) : i > cleared => ~(i <= cleared)
      BY LenProperties DEF IInv, Typed, TypeOK
    <3> QED BY <3>1 DEF LivePlaces, Gone
  <2> QED BY <2>1, <2>2 DEF IInv, Blocks, NoDanglingMessage
<1> QED BY <1>1, Inductive, PTL

\* On the wire no frame is followed by another before it is complete, or given
\* up after MaxRetries turns.
THEOREM FramesComplete == Spec => []FramesWhole
<1>1. IInv => FramesWhole
  <2>1. IInv => Len(wire) \in Nat BY LenProperties DEF IInv, Typed, TypeOK
  <2> QED BY <2>1 DEF IInv, Frames, FramesWhole
<1> QED BY <1>1, Inductive, PTL

\* When logOut is over every message that was ever queued has been deleted.
THEOREM LogoutFrees == Spec => []LogoutFreesAll
<1>1. IInv => LogoutFreesAll
  <2> SUFFICES ASSUME IInv, td = "loggedOut", NEW m \in Msgs
               PROVE  block[m] \notin {"queued", "sending"}
    BY DEF LogoutFreesAll
  <2>1. sp = "exited" /\ Len(mCmdQueue) = 0
    BY EmptySeq DEF IInv, Phases, SenderOver
  <2> QED BY <2>1 DEF IInv, Blocks
<1> QED BY <1>1, Inductive, PTL

----------------------------------------------------------------------------
(* Who waits for whom.                                                     *)

Parties == {"teardown", "sender", "login"}

\* t has come to a join, a mutex or a condition of its loop that it cannot get
\* past before u does something.  cmdSendThread idles on until it is told
\* to stop.
Awaits(t, u) ==
  \/ /\ t = "teardown" /\ u = "login"
     /\ td = "loJoin" /\ lp # "done"
  \/ /\ t = "teardown" /\ u = "sender"
     /\ \/ td \in {"loSender", "gcSender"} /\ sp # "exited"
        \/ Clearing /\ ~AllCleared /\ mCmdMsgMutex = "sender"
  \/ /\ t = "login" /\ u = "teardown"
     /\ lp = "checked" /\ mCmdQueueMutex = "teardown"
  \/ /\ t = "sender" /\ u = "teardown"
     /\ \/ sp = "fetch" /\ mCmdQueueMutex = "teardown"
        \/ sp = "idle" /\ mCmdSendThreadRun

\* While a teardown runs, it or the thread that it waits for waits for nobody,
\* but where the two mutexes are taken in opposite orders.
TeardownGoesOn ==
  td \in LogoutPc \cup GcPc /\ ~LockOrderDeadlock =>
    \E t \in Parties : /\ t = "teardown" \/ Awaits("teardown", t)
                      /\ \A u \in Parties : ~Awaits(t, u)

\* cmdSendThread has been told to stop before it is joined.
Stopped == td \in {"loSender", "gcSender"} => ~mCmdSendThreadRun

LEMMA StoppedStep == ASSUME Stopped, [Next]_vars PROVE Stopped'
<1>1. CASE UNCHANGED <<td, mCmdSendThreadRun>>
  BY <1>1 DEF Stopped
<1>2. CASE Logout \/ Teardown
  BY <1>2
     DEF Stopped, Logout, Teardown, LogoutStopsSender, LogoutDisables, Collect,
         ClearLock, ClearOne, ClearUnlock, CloseConnection, DeleteClient,
         ClientDeleted, StopSender
<1>3. CASE Sender
  BY <1>1, <1>3
     DEF Sender, SenderLock, SenderFetch, SenderWrites, SenderWaits,
         SenderFails, SenderEndsLoop, SenderFrees, SenderStops, SenderUnchanged
<1>4. CASE LinkBreaks \/ ReceiverDetects \/ Connected \/ LoginCheck \/ LoginAdd
  BY <1>1, <1>4
     DEF LinkBreaks, ReceiverDetects, Connected, LoginCheck, LoginAdd,
         LoginUnchanged
<1>5. ASSUME NEW m \in Msgs, SendCommand(m) PROVE Stopped'
  BY <1>1, <1>5 DEF SendCommand
<1>6. CASE UNCHANGED vars
  BY <1>1, <1>6 DEF vars
<1> QED  BY <1>2, <1>3, <1>4, <1>5, <1>6 DEF Next, Done

\* The opposite lock order is the only way in which a teardown and the threads
\* it waits for can wait for each other.
THEOREM OnlyLockOrderBlocks == Spec => []TeardownGoesOn
<1>1. Init => Stopped
  BY DEF Init, Stopped
<1>2. IInv /\ Stopped => TeardownGoesOn
  <2> SUFFICES ASSUME IInv, Stopped, td \in LogoutPc \cup GcPc,
                      ~LockOrderDeadlock
               PROVE  \E t \in Parties :
                        /\ t = "teardown" \/ Awaits("teardown", t)
                        /\ \A u \in Parties : ~Awaits(t, u)
    BY DEF TeardownGoesOn
  <2> USE DEF Parties, Awaits
  <2>1. CASE \A u \in Parties : ~Awaits("teardown", u)
    BY <2>1
  <2>2. CASE Awaits("teardown", "login")
    <3>1. mCmdQueueMutex # "teardown"
      BY <2>2 DEF IInv, Locks, Clearing
    <3>2. \A u \in Parties : ~Awaits("login", u)
      BY <3>1
    <3> QED  BY <2>2, <3>2
  <2>3. CASE td \in {"loSender", "gcSender"} /\ sp # "exited"
    <3>1. mCmdQueueMutex # "teardown" /\ ~mCmdSendThreadRun
      BY <2>3 DEF IInv, Locks, Clearing, Stopped
    <3>2. \A u \in Parties : ~Awaits("sender", u)
      BY <3>1
    <3> QED  BY <2>3, <3>2
  <2>4. CASE Clearing /\ ~AllCleared /\ mCmdMsgMutex = "sender"
    <3>1. sp \in {"fetch", "write", "free"} /\ mCmdQueueMutex = "teardown"
      BY <2>4 DEF IInv, Locks
    <3>2. td = "gcClear"
      BY <2>4, <3>1 DEF IInv, Phases, SenderOver, Clearing
    <3>3. cleared \in Nat /\ Len(mCmdQueue) \in Nat
      BY LenProperties DEF IInv, Typed, TypeOK
    <3>4. cleared < Len(mCmdQueue)
      BY <2>4, <3>3 DEF AllCleared
    <3>5. sp # "fetch"
      BY <2>4, <3>1, <3>2, <3>4 DEF LockOrderDeadlock
    <3>6. \A u \in Parties : ~Awaits("sender", u)
      BY <3>1, <3>5
    <3> QED  BY <2>4, <3>6
  <2> QED  BY <2>1, <2>2, <2>3, <2>4
<1> QED  BY <1>1, <1>2, StoppedStep, Inductive, PTL DEF Spec

----------------------------------------------------------------------------
(* Order.                                                                  *)

\* A step that accepts and delivers nothing, takes nothing new to send, and
\* leaves the queue as it is or empties it.
LEMMA OrderKept ==
  ASSUME Order, UNCHANGED <<accepted, delivered, written>>,
         UNCHANGED mCmdQueue \/ mCmdQueue' = << >>,
         sp' = "write" => sp = "write" /\ pCmd' = pCmd,
         \A a \in 1 .. Len(accepted) :
           block[accepted[a]] \notin {"unbuilt", "refused"} =>
             block'[accepted[a]] \notin {"unbuilt", "refused"}
  PROVE  Order'
<1>1. /\ LastDelivered' = LastDelivered
      /\ \A m : In(accepted, m)' <=> In(accepted, m)
      /\ \A m, n : Before(accepted, m, n)' <=> Before(accepted, m, n)
  BY DEF In, Before, LastDelivered
<1>2. CASE mCmdQueue' = mCmdQueue
  BY <1>1, <1>2 DEF Order, In, Before, LastDelivered
<1>3. CASE mCmdQueue' = << >>
  <2>1. 1 .. Len(mCmdQueue') = {}
    BY <1>3, EmptySeq
  <2> QED  BY <2>1 DEF Order, In, Before, LastDelivered
<1> QED BY <1>2, <1>3

\* A message is accepted once, and comes after all those accepted before.
LEMMA AcceptedLast ==
  ASSUME Typed, Order, NEW m \in Msgs, block[m] = "unbuilt",
         accepted' = Append(accepted, m)
  PROVE  /\ ~In(accepted, m) /\ In(accepted', m)
         /\ \A n \in Msgs : In(accepted, n) =>
              In(accepted', n) /\ Before(accepted', n, m)
         /\ \A n, p \in Msgs :
              In(accepted, n) /\ In(accepted, p) /\ Before(accepted, n, p) =>
                Before(accepted', n, p)
         /\ \A a, b \in 1 .. Len(accepted') :
              a # b => accepted'[a] # accepted'[b]
         /\ \A a \in 1 .. Len(accepted') :
              accepted'[a] = m \/ In(accepted, accepted'[a])
<1>1. /\ Len(accepted) \in Nat /\ Len(accepted') = Len(accepted) + 1
      /\ accepted'[Len(accepted) + 1] = m
      /\ \A a \in 1 .. Len(accepted) : accepted'[a] = accepted[a]
  BY AppendPlaces DEF Typed, TypeOK
<1>2. \A a \in 1 .. Len(accepted) : accepted[a] # m BY DEF Order
<1>3. \A a, b \in 1 .. Len(accepted) : a # b => accepted[a] # accepted[b]
  BY DEF Order
<1>4. \A a \in 1 .. Len(accepted') :
        a \in 1 .. Len(accepted) \/ a = Len(accepted) + 1
  BY ONLY <1>1
<1>5. ~In(accepted, m) BY <1>2 DEF In
<1>6. In(accepted', m) BY ONLY <1>1 DEF In
<1>7. ASSUME NEW n \in Msgs, In(accepted, n)
      PROVE  In(accepted', n) /\ Before(accepted', n, m)
  <2>1. In(accepted', n) BY ONLY <1>1, <1>7 DEF In
  <2>2. n # m BY <1>5, <1>7
  <2>3. \A a, b \in 1 .. Len(accepted') :
          accepted'[a] = n /\ accepted'[b] = m => a < b
    BY ONLY <1>1, <1>2, <1>4, <2>2
  <2> QED BY <2>1, <2>3 DEF Before
<1>8. ASSUME NEW n \in Msgs, NEW p \in Msgs,
             In(accepted, n), In(accepted, p), Before(accepted, n, p)
      PROVE  Before(accepted', n, p)
  <2>1. n # m /\ p # m BY <1>5, <1>8
  <2>2. \A a, b \in 1 .. Len(accepted') :
          accepted'[a] = n /\ accepted'[b] = p => a < b
    BY ONLY <1>1, <1>4, <1>8, <2>1 DEF Before
  <2> QED BY <2>2 DEF Before
<1>9. \A a, b \in 1 .. Len(accepted') : a # b => accepted'[a] # accepted'[b]
  BY ONLY <1>1, <1>2, <1>3, <1>4
<1>10. \A a \in 1 .. Len(accepted') :
         accepted'[a] = m \/ In(accepted, accepted'[a])
  BY ONLY <1>1, <1>4 DEF In
<1> QED BY <1>5, <1>6, <1>7, <1>8, <1>9, <1>10

\* addCmdToQueue keeps the order.
LEMMA OrderAdd ==
  ASSUME Typed, Order, NEW m \in Msgs, block[m] = "unbuilt",
         AddCmdToQueue(m) \/ Refuse(m),
         UNCHANGED <<delivered, written, sp, pCmd>>
  PROVE  Order'
<1> USE DEF Typed, TypeOK
<1>1. CASE Refuse(m)
  <2>1. \A a \in 1 .. Len(accepted) : accepted[a] # m BY DEF Order
  <2>2. /\ block' = [block EXCEPT ![m] = "refused"]
        /\ UNCHANGED <<mCmdQueue, accepted>>
    BY <1>1 DEF Refuse
  <2> QED BY <2>1, <2>2, OrderKept
<1>2. CASE AddCmdToQueue(m) /\ ~Refuse(m)
  <2> DEFINE q == mCmdQueue
  <2>1. /\ block' = [block EXCEPT ![m] = "queued"]
        /\ mCmdQueue' = Append(q, m) /\ accepted' = Append(accepted, m)
    BY <1>2 DEF AddCmdToQueue, Refuse, PushBack
  <2>2. /\ Len(q) \in Nat /\ Len(mCmdQueue') = Len(q) + 1
        /\ mCmdQueue'[Len(q) + 1] = m
        /\ \A i \in 1 .. Len(q) : q[i] \in Msgs /\ mCmdQueue'[i] = q[i]
    BY <2>1, AppendPlaces
  <2>3. \A i \in 1 .. Len(mCmdQueue') : i \in 1 .. Len(q) \/ i = Len(q) + 1
    BY ONLY <2>2
  <2>4. /\ ~In(accepted, m) /\ In(accepted', m)
        /\ \A n \in Msgs : In(accepted, n) =>
             In(accepted', n) /\ Before(accepted', n, m)
        /\ \A n, p \in Msgs :
             In(accepted, n) /\ In(accepted, p) /\ Before(accepted, n, p) =>
               Before(accepted', n, p)
        /\ \A a, b \in 1 .. Len(accepted') :
             a # b => accepted'[a] # accepted'[b]
        /\ \A a \in 1 .. Len(accepted') :
             accepted'[a] = m \/ In(accepted, accepted'[a])
    BY <2>1, AcceptedLast
  <2>5. ASSUME NEW a \in 1 .. Len(accepted')
        PROVE  block'[accepted'[a]] \notin {"unbuilt", "refused"}
    <3>1. CASE accepted'[a] = m BY <2>1, <3>1
    <3>2. CASE accepted'[a] # m
      <4>1. PICK b \in 1 .. Len(accepted) : accepted[b] = accepted'[a]
        BY <2>4, <3>2 DEF In
      <4>2. block[accepted[b]] \notin {"unbuilt", "refused"} BY DEF Order
      <4>3. accepted[b] \in Msgs /\ accepted[b] # m
        BY <3>2, <4>1, ElementOfSeq
      <4> QED BY ONLY <2>1, <4>1, <4>2, <4>3, block \in [Msgs -> BlockStates]
    <3> QED BY <3>1, <3>2
  <2>6. \A i \in 1 .. Len(q) : In(accepted, q[i]) BY DEF Order
  <2>7. \A i, j \in 1 .. Len(q) : i < j => Before(accepted, q[i], q[j])
    BY DEF Order
  <2>8. sp = "write" => pCmd \in Msgs /\ In(accepted, pCmd)
                        /\ \A i \in 1 .. Len(q) : Before(accepted, pCmd, q[i])
    BY DEF Order
  <2>9. delivered # << >> =>
          /\ LastDelivered \in Msgs /\ In(accepted, LastDelivered)
          /\ \A i \in 1 .. Len(q) : Before(accepted, LastDelivered, q[i])
          /\ sp = "write" /\ written[pCmd] < Size =>
               Before(accepted, LastDelivered, pCmd)
    <3>1. delivered # << >> => LastDelivered \in Msgs
      <4>1. delivered # << >> => Len(delivered) \in 1 .. Len(delivered)
        BY EmptySeq
      <4> QED BY <4>1, ElementOfSeq DEF LastDelivered
    <3> QED BY <3>1 DEF Order
  <2> HIDE DEF q
  <2>10. \A i \in 1 .. Len(mCmdQueue') : In(accepted', mCmdQueue'[i])
    BY <2>2, <2>3, <2>4, <2>6
  <2>11. ASSUME NEW i \in 1 .. Len(mCmdQueue'), NEW j \in 1 .. Len(mCmdQueue'),
                i < j
         PROVE  Before(accepted', mCmdQueue'[i], mCmdQueue'[j])
    <3>1. i \in 1 .. Len(q) BY ONLY <2>2, <2>11
    <3>2. j \in 1 .. Len(q) \/ j = Len(q) + 1 BY <2>3
    <3> QED BY <2>2, <2>4, <2>6, <2>7, <2>11, <3>1, <3>2
  <2>12. sp' = "write" =>
           /\ In(accepted', pCmd')
           /\ \A i \in 1 .. Len(mCmdQueue') :
                Before(accepted', pCmd', mCmdQueue'[i])
    BY <2>2, <2>3, <2>4, <2>6, <2>8
  <2>13. delivered' # << >> =>
           /\ In(accepted', LastDelivered')
           /\ \A i \in 1 .. Len(mCmdQueue') :
                Before(accepted', LastDelivered', mCmdQueue'[i])
           /\ sp' = "write" /\ written'[pCmd'] < Size =>
                Before(accepted', LastDelivered', pCmd')
    <3>1. LastDelivered' = LastDelivered BY DEF LastDelivered
    <3> QED BY <2>2, <2>3, <2>4, <2>6, <2>8, <2>9, <3>1
  <2> QED BY <2>4, <2>5, <2>10, <2>11, <2>12, <2>13 DEF Order
<1> QED BY <1>1, <1>2

\* getCmdFromQueue takes the message that was accepted first.
LEMMA OrderFetch ==
  ASSUME Typed, Locks, Blocks, Order, SenderFetch PROVE Order'
<1> USE DEF Typed, TypeOK
<1>1. CASE mCmdQueue = << >>
  <2>1. UNCHANGED <<accepted, delivered, written, mCmdQueue, block>>
        /\ sp' = "idle"
    BY <1>1 DEF SenderFetch, SenderUnchanged, wireVars
  <2> QED BY <2>1, OrderKept
<1>2. CASE mCmdQueue # << >>
  <2> DEFINE q == mCmdQueue
             h == Head(mCmdQueue)
  <2>1. /\ sp' = "write" /\ pCmd' = h /\ mCmdQueue' = Tail(q)
        /\ block' = [block EXCEPT ![h] = "sending"]
        /\ UNCHANGED <<accepted, delivered, written>>
    BY <1>2 DEF SenderFetch, SenderUnchanged, wireVars
  <2>2. /\ h \in Msgs /\ h = q[1] /\ Len(q) \in Nat \ {0}
        /\ Len(mCmdQueue') = Len(q) - 1
        /\ \A i \in 1 .. Len(q) - 1 : mCmdQueue'[i] = q[i + 1]
    BY <1>2, <2>1, TailPlaces
  <2>3. \A i \in 1 .. Len(q) : In(accepted, q[i]) BY DEF Order
  <2>4. \A i, j \in 1 .. Len(q) : i < j => Before(accepted, q[i], q[j])
    BY DEF Order
  <2>5. delivered # << >> =>
          /\ In(accepted, LastDelivered)
          /\ \A i \in 1 .. Len(q) : Before(accepted, LastDelivered, q[i])
    BY DEF Order
  <2>6. \A a \in 1 .. Len(accepted) :
          block'[accepted[a]] \notin {"unbuilt", "refused"}
    <3> SUFFICES ASSUME NEW a \in 1 .. Len(accepted)
                 PROVE  block'[accepted[a]] \notin {"unbuilt", "refused"}
      OBVIOUS
    <3>1. accepted[a] \in Msgs BY ElementOfSeq
    <3>2. block[accepted[a]] \notin {"unbuilt", "refused"} BY DEF Order
    <3> QED
      BY ONLY <2>1, <2>2, <3>1, <3>2, block \in [Msgs -> BlockStates]
  <2> HIDE DEF q, h
  <2>7. 1 \in 1 .. Len(q) /\ \A i \in 1 .. Len(q) - 1 :
                               i + 1 \in 1 .. Len(q) /\ 1 < i + 1
    BY ONLY <2>2
  <2>8. \A i, j \in 1 .. Len(q) - 1 : i < j => i + 1 < j + 1 BY ONLY <2>2
  <2>9. \A i \in 1 .. Len(q) - 1 : In(accepted, mCmdQueue'[i])
    BY ONLY <2>2, <2>3, <2>7
  <2>10. \A i, j \in 1 .. Len(q) - 1 :
           i < j => Before(accepted, mCmdQueue'[i], mCmdQueue'[j])
    BY ONLY <2>2, <2>4, <2>7, <2>8
  <2>11. /\ In(accepted, h)
         /\ \A i \in 1 .. Len(q) - 1 : Before(accepted, h, mCmdQueue'[i])
    BY ONLY <2>2, <2>3, <2>4, <2>7
  <2>12. delivered # << >> =>
           /\ \A i \in 1 .. Len(q) - 1 :
                Before(accepted, LastDelivered, mCmdQueue'[i])
           /\ Before(accepted, LastDelivered, h)
    BY ONLY <2>2, <2>5, <2>7
  <2>13. LastDelivered' = LastDelivered BY <2>1 DEF LastDelivered
  <2>14. \A a, b \in 1 .. Len(accepted) : a # b => accepted[a] # accepted[b]
    BY DEF Order
  <2> QED
    BY ONLY <2>1, <2>2, <2>5, <2>6, <2>9, <2>10, <2>11, <2>12, <2>13, <2>14
       DEF Order
<1> QED BY <1>1, <1>2

\* A message that is complete becomes the last one delivered.
LEMMA OrderWrites ==
  ASSUME Typed, Order, NEW n \in 1 .. Size, SenderWrites(n) PROVE Order'
<1> USE DEF Typed, TypeOK
<1>1. /\ sp = "write" /\ pCmd \in Msgs /\ UNCHANGED <<sp, pCmd>>
      /\ written[pCmd] + n <= Size
      /\ written' = [written EXCEPT ![pCmd] = @ + n]
      /\ delivered' = IF written'[pCmd] = Size THEN Append(delivered, pCmd)
                                               ELSE delivered
      /\ UNCHANGED <<accepted, block, mCmdQueue>>
  BY DEF SenderWrites, MayWrite, SenderUnchanged
<1>2. /\ written[pCmd] < Size /\ written'[pCmd] \in 0 .. Size
  <2>1. Size \in Nat /\ n \in Nat \ {0} /\ written[pCmd] \in Nat
    BY <1>1, CmdQueueAssumption
  <2>2. written'[pCmd] = written[pCmd] + n BY <1>1
  <2> QED BY ONLY <1>1, <2>1, <2>2
<1>3. CASE written'[pCmd] # Size
  <2>1. UNCHANGED <<delivered, LastDelivered>> BY <1>1, <1>3 DEF LastDelivered
  <2> QED BY <1>1, <1>2, <2>1 DEF Order
<1>4. CASE written'[pCmd] = Size
  <2>1. delivered' = Append(delivered, pCmd) BY <1>1, <1>4
  <2>2. LastDelivered' = pCmd
    BY <1>1, <2>1, AppendPlaces DEF LastDelivered
  <2>3. ~(written'[pCmd'] < Size) BY <1>1, <1>4, CmdQueueAssumption
  <2> QED BY <1>1, <2>2, <2>3 DEF Order
<1> QED BY <1>3, <1>4

\* Every step keeps the order.
LEMMA OrderStep == ASSUME IInv, Order, [Next]_vars PROVE Order'
<1> USE DEF queueVars, senderVars, wireVars, LoginUnchanged
<1>1. Typed /\ Locks /\ Blocks BY DEF IInv
<1>2. ASSUME NEW m \in Msgs, SendCommand(m) PROVE Order'
  BY <1>1, <1>2, OrderAdd DEF SendCommand
<1>3. CASE Connected BY <1>3, OrderKept DEF Connected
<1>4. CASE LoginCheck
  <2>1. CASE mCmdQueueEnable BY <1>4, <2>1, OrderKept DEF LoginCheck
  <2>2. CASE ~mCmdQueueEnable
    BY <1>1, <1>4, <2>2, OrderAdd, CmdQueueAssumption DEF LoginCheck, Blocks
  <2> QED BY <2>1, <2>2
<1>5. CASE LoginAdd
  BY <1>1, <1>5, OrderAdd, CmdQueueAssumption DEF LoginAdd, Blocks
<1>6. CASE Sender
  <2> USE DEF SenderUnchanged
  <2>1. CASE SenderLock BY <2>1, OrderKept DEF SenderLock
  <2>2. CASE SenderFetch BY <1>1, <2>2, OrderFetch
  <2>3. ASSUME NEW n \in 1 .. Size, SenderWrites(n) PROVE Order'
    BY <1>1, <2>3, OrderWrites
  <2>4. CASE SenderWaits BY <2>4, OrderKept DEF SenderWaits
  <2>5. CASE SenderFails BY <2>5, OrderKept DEF SenderFails
  <2>6. CASE SenderEndsLoop BY <2>6, OrderKept DEF SenderEndsLoop
  <2>7. CASE SenderFrees
    <3>1. \A m \in Msgs : block'[m] = block[m] \/ block'[m] = "deleted"
      BY <1>1, <2>7 DEF SenderFrees, Typed, TypeOK
    <3>2. \A a \in 1 .. Len(accepted) : accepted[a] \in Msgs
      BY <1>1, ElementOfSeq DEF Typed, TypeOK
    <3>3. /\ sp' # "write"
          /\ UNCHANGED <<accepted, delivered, written, mCmdQueue>>
      BY <2>7 DEF SenderFrees
    <3> QED BY <3>1, <3>2, <3>3, OrderKept
  <2>8. CASE SenderStops BY <2>8, OrderKept DEF SenderStops
  <2> QED BY <1>6, <2>1, <2>2, <2>3, <2>4, <2>5, <2>6, <2>7, <2>8 DEF Sender
<1>7. CASE LinkBreaks BY <1>7, OrderKept DEF LinkBreaks
<1>8. CASE ReceiverDetects BY <1>8, OrderKept DEF ReceiverDetects
<1>9. CASE Logout \/ Teardown
  <2> USE DEF TeardownUnchanged
  <2>1. UNCHANGED <<accepted, delivered, written, sp, pCmd>>
    BY <1>9 DEF Logout, Teardown, LogoutStopsSender, LogoutDisables, Collect,
                ClearLock, ClearOne, ClearUnlock, CloseConnection,
                DeleteClient, ClientDeleted
  <2>2. UNCHANGED mCmdQueue \/ mCmdQueue' = << >>
    BY <1>9 DEF Logout, Teardown, LogoutStopsSender, LogoutDisables, Collect,
                ClearLock, ClearOne, ClearUnlock, CloseConnection,
                DeleteClient, ClientDeleted, EmptyQueue
  <2>3. \A m \in Msgs : block'[m] = block[m] \/ block'[m] = "deleted"
    BY <1>1, <1>9
       DEF Logout, Teardown, LogoutStopsSender, LogoutDisables, Collect,
           ClearLock, ClearOne, ClearUnlock, CloseConnection, DeleteClient,
           ClientDeleted, Typed, TypeOK
  <2>4. \A a \in 1 .. Len(accepted) : accepted[a] \in Msgs
    BY <1>1, ElementOfSeq DEF Typed, TypeOK
  <2> QED BY <2>1, <2>2, <2>3, <2>4, OrderKept
<1>10. CASE UNCHANGED vars BY <1>10, OrderKept DEF vars
<1> QED
  BY <1>2, <1>3, <1>4, <1>5, <1>6, <1>7, <1>8, <1>9, <1>10 DEF Next, Done

----------------------------------------------------------------------------
(* The command path implements LossyFifo.                                  *)

\* The place of a message in a sequence that holds it once.
LEMMA PlaceOf ==
  ASSUME NEW S, NEW s \in Seq(S),
         \A a, b \in 1 .. Len(s) : a # b => s[a] # s[b],
         NEW a \in 1 .. Len(s)
  PROVE  Fifo!Place(s, s[a]) = a
<1>1. DOMAIN s = 1 .. Len(s) BY LenProperties
<1> DEFINE P(i) == s[i] = s[a]
<1>2. \A i \in DOMAIN s : P(i) <=> i = a BY <1>1
<1>3. (CHOOSE i \in DOMAIN s : P(i)) = a BY <1>1, <1>2
<1>4. \E i \in DOMAIN s : s[i] = s[a] BY <1>1
<1> QED BY <1>3, <1>4 DEF Fifo!Place

\* A message that is queued is accepted for the first time.
LEMMA AddAccepts ==
  ASSUME Typed, Order, NEW m \in Msgs, block[m] = "unbuilt",
         AddCmdToQueue(m) \/ Refuse(m), UNCHANGED delivered
  PROVE  [Fifo!Next]_Fifo!fifoVars
<1>1. CASE UNCHANGED accepted BY <1>1 DEF Fifo!fifoVars
<1>2. CASE accepted' = Append(accepted, m)
  <2>1. \A a \in 1 .. Len(accepted) : accepted[a] # m BY DEF Order
  <2>2. DOMAIN accepted = 1 .. Len(accepted)
    BY LenProperties DEF Typed, TypeOK
  <2>3. Fifo!Place(accepted, m) = 0 BY <2>1, <2>2 DEF Fifo!Place
  <2>4. Fifo!Accept(m) BY <1>2, <2>3 DEF Fifo!Accept
  <2> QED BY <2>4 DEF Fifo!Next
<1> QED BY <1>1, <1>2 DEF AddCmdToQueue, Refuse

\* A message that is complete is delivered after all those accepted before it.
LEMMA WriteDelivers ==
  ASSUME Typed, Order, NEW n \in 1 .. Size, SenderWrites(n)
  PROVE  [Fifo!Next]_Fifo!fifoVars
<1> USE DEF Typed, TypeOK
<1>1. /\ sp = "write" /\ pCmd \in Msgs
      /\ written[pCmd] + n <= Size
      /\ delivered' = IF written'[pCmd] = Size THEN Append(delivered, pCmd)
                                               ELSE delivered
      /\ UNCHANGED accepted
  BY DEF SenderWrites, MayWrite, SenderUnchanged
<1>2. written[pCmd] < Size
  <2>1. Size \in Nat /\ n \in Nat \ {0} /\ written[pCmd] \in Nat
    BY <1>1, CmdQueueAssumption
  <2> QED BY ONLY <1>1, <2>1
<1>3. CASE UNCHANGED delivered BY <1>1, <1>3 DEF Fifo!fifoVars
<1>4. CASE delivered' = Append(delivered, pCmd)
  <2>1. \A a, b \in 1 .. Len(accepted) : a # b => accepted[a] # accepted[b]
    BY DEF Order
  <2>2. PICK b \in 1 .. Len(accepted) : accepted[b] = pCmd
    BY <1>1 DEF Order, In
  <2>3. Fifo!Place(accepted, pCmd) = b BY <2>1, <2>2, PlaceOf
  <2>4. ASSUME delivered # << >>
        PROVE  Fifo!Place(accepted, LastDelivered) < b
    <3>1. PICK a \in 1 .. Len(accepted) : accepted[a] = LastDelivered
      BY <2>4 DEF Order, In
    <3>2. Fifo!Place(accepted, LastDelivered) = a BY <2>1, <3>1, PlaceOf
    <3>3. a < b BY <1>1, <1>2, <2>2, <2>4, <3>1 DEF Order, Before
    <3> QED BY <3>2, <3>3
  <2>5. b # 0 OBVIOUS
  <2>6. Fifo!Deliver(pCmd)
    BY <1>1, <1>4, <2>3, <2>4, <2>5 DEF Fifo!Deliver, LastDelivered
  <2> QED BY <1>1, <2>6 DEF Fifo!Next
<1> QED BY <1>1, <1>3, <1>4

\* Every step accepts a message, delivers one, or does neither.
LEMMA FifoStep ==
  ASSUME IInv, Order, [Next]_vars PROVE [Fifo!Next]_Fifo!fifoVars
<1> USE DEF wireVars, LoginUnchanged
<1>1. Typed /\ Blocks BY DEF IInv
<1>2. ASSUME NEW m \in Msgs, SendCommand(m)
      PROVE  [Fifo!Next]_Fifo!fifoVars
  BY <1>1, <1>2, AddAccepts DEF SendCommand
<1>3. CASE LoginCheck \/ LoginAdd
  <2>1. block[LoginMsg] = "unbuilt" /\ UNCHANGED delivered
    BY <1>1, <1>3 DEF LoginCheck, LoginAdd, Blocks
  <2>2. \/ AddCmdToQueue(LoginMsg) \/ Refuse(LoginMsg)
        \/ UNCHANGED <<accepted, delivered>>
    BY <1>3, <2>1 DEF LoginCheck, LoginAdd
  <2> QED
    BY <1>1, <2>1, <2>2, AddAccepts, CmdQueueAssumption DEF Fifo!fifoVars
<1>4. ASSUME NEW n \in 1 .. Size, SenderWrites(n)
      PROVE  [Fifo!Next]_Fifo!fifoVars
  BY <1>1, <1>4, WriteDelivers
<1>5. CASE Sender /\ \A n \in 1 .. Size : ~SenderWrites(n)
  BY <1>5 DEF Sender, SenderLock, SenderFetch, SenderWaits, SenderFails,
              SenderEndsLoop, SenderFrees, SenderStops, SenderUnchanged,
              Fifo!fifoVars
<1>6. CASE Connected \/ LinkBreaks \/ ReceiverDetects \/ UNCHANGED vars
  BY <1>6 DEF Connected, LinkBreaks, ReceiverDetects, vars, Fifo!fifoVars
<1>7. CASE Logout \/ Teardown
  BY <1>7 DEF Logout, Teardown, LogoutStopsSender, LogoutDisables, Collect,
              ClearLock, ClearOne, ClearUnlock, CloseConnection, DeleteClient,
              ClientDeleted, TeardownUnchanged, Fifo!fifoVars
<1> QED
  BY <1>2, <1>3, <1>4, <1>5, <1>6, <1>7 DEF Next, Done

\* Queue, sender and wire agree with the order of acceptance throughout.
LEMMA Ordered == Spec => []Order
<1>1. Init => Order
  <2>1. Init => Len(accepted) = 0 /\ Len(mCmdQueue) = 0 BY EmptySeq DEF Init
  <2> QED BY <2>1 DEF Init, Order
<1>2. IInv /\ Order /\ [Next]_vars => Order' BY OrderStep
<1> QED BY <1>1, <1>2, Inductive, PTL DEF Spec

\* The messages written whole are some of those accepted, in the same order and
\* none of them twice, whatever the sender, the link and the teardowns do.
THEOREM ImplementsFifo == Spec => DeliversInOrder
<1>1. Init => Fifo!Init BY DEF Init, Fifo!Init
<1>2. IInv /\ Order /\ [Next]_vars => [Fifo!Next]_Fifo!fifoVars BY FifoStep
<1> QED
  BY <1>1, <1>2, Ordered, Inductive, PTL DEF Spec, DeliversInOrder, Fifo!Spec

\* When the client is deleted the blocks left are those that the queue refused,
\* which were never queued, and at most the login command.
THEOREM LeaksAre == Spec => []LeaksRefusedOrLate
<1>1. IInv /\ Order => LeaksRefusedOrLate
  <2> SUFFICES ASSUME IInv, Order, td = "deleted", NEW m \in Msgs,
                      block[m] \notin {"unbuilt", "deleted"}
               PROVE  \/ block[m] = "refused"
                         /\ \A i \in 1 .. Len(accepted) : accepted[i] # m
                      \/ block[m] = "queued" /\ m = LoginMsg
    BY DEF LeaksRefusedOrLate
  <2>1. block[m] # "sending" BY DEF IInv, Phases, SenderOver, Blocks
  <2>2. block[m] \in {"queued", "refused"}
    BY <2>1 DEF IInv, Typed, TypeOK, BlockStates
  <2>3. CASE block[m] = "refused" BY <2>3 DEF Order
  <2>4. CASE block[m] = "queued"
    <3>1. \E i \in 1 .. Len(mCmdQueue) : mCmdQueue[i] = m
      BY <2>4 DEF IInv, Blocks
    <3> QED BY <2>4, <3>1 DEF IInv, Phases, Emptied
  <2> QED BY <2>2, <2>3, <2>4
<1> QED BY <1>1, Ordered, Inductive, PTL
============================================================================
