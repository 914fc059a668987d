---------------------------- MODULE MediaThreads ----------------------------
(***************************************************************************)
(* The receiving threads and the talk data path of one client, put         *)
(* together with the three ways in which the client is torn down:          *)
(* EC_Logout (logOut), the garbage collection of a client that was logged  *)
(* out or whose connection broke (joinThreads, closeConnection,            *)
(* destructor), and EC_DeInitialize (logOut, destructor).  None of them    *)
(* stops all of the threads.  The other threads of a client, and the joins *)
(* of them in logOut, are in Connect and CmdQueue.                         *)
(***************************************************************************)
EXTENDS Workers, TalkQueue

VARIABLE gcNext    \* the place in JoinOrder that joinThreads has come to

vars == <<clientVars, workerVars, talkVars, gcNext>>

\* joinThreads joins these and not the PIR thread.
JoinOrder == <<"cmd", "av", "playback", "file">>

TypeOK ==
  /\ ClientTypeOK /\ WorkersTypeOK /\ TalkTypeOK
  /\ gcNext \in 1 .. Len(JoinOrder) + 1

Init == ClientInit /\ WorkersInit /\ TalkInit /\ gcNext = 1

----------------------------------------------------------------------------
(* logOut                                                                  *)

LogoutUnchanged ==
  UNCHANGED <<link, mHasBrokenDetected, mThread, worker, cmd, ap, pData, turns,
              written, accepted, delivered, gcNext>>

\* Mutant: the run flag of the receiver is not reset.
StopReceiver_Never(k) == UNCHANGED mThreadRun

\* A receiver is stopped, and joined, if it was started.
StopReceiver(k) ==
  mThreadRun' = [j \in Kinds |-> mThreadRun[j] /\ ~(j = k /\ MustJoin(j))]

JoinReceiver(k) ==
  IF k \in Kinds /\ MustJoin(k)
    THEN Joined(k) /\ ForgetThread(k)
    ELSE UNCHANGED <<mHasStarted, joined>>

\* EC_Logout, or EC_DeInitialize for every session; logOut stops
\* cmdRecvThread, ...
LogOut(why) ==
  /\ sSessionMutex = "free"
  /\ \/ why = "logout" /\ td = "none"
     \/ why = "deinit" /\ td \in {"none", "loggedOut"}
  /\ sSessionMutex' = why
  /\ td' = "loCmd"
  /\ StopReceiver("cmd")
  /\ LogoutUnchanged
  /\ UNCHANGED <<mSockHandle, mHasStarted, joined, mTalkDataQueue,
                 mTalkDataQueueEnable, mTalkDataSendThreadRun,
                 mHasTalkDataSendThreadStarted, packet>>

\* ... joins it, stops audioSendThread, ...
LogOutJoinsCmd ==
  /\ td = "loCmd" /\ JoinReceiver("cmd")
  /\ td' = "loSender"
  /\ StopSender
  /\ LogoutUnchanged
  /\ UNCHANGED <<sSessionMutex, mSockHandle, mThreadRun, mTalkDataQueue,
                 mTalkDataQueueEnable, mHasTalkDataSendThreadStarted, packet>>

\* Mutant: audioSendThread is not joined.
SenderJoined_Never == TRUE

SenderJoined == SenderGone

\* ... joins it, ...
LogOutJoinsSender ==
  /\ td = "loSender" /\ SenderJoined
  /\ td' = "loClear"
  /\ mHasTalkDataSendThreadStarted' = FALSE
  /\ mTalkDataQueueEnable' = FALSE
  /\ LogoutUnchanged
  /\ UNCHANGED <<sSessionMutex, mSockHandle, mHasStarted, mThreadRun, joined,
                 mTalkDataSendThreadRun, mTalkDataQueue, packet>>

\* ... clears the queue, stops avRecvThread, ...
LogOutClears ==
  /\ td = "loClear" /\ td' = "loAv"
  /\ ClearTalkDataQueue
  /\ StopReceiver("av")
  /\ LogoutUnchanged
  /\ UNCHANGED <<sSessionMutex, mSockHandle, mHasStarted, joined,
                 mTalkDataQueueEnable, mTalkDataSendThreadRun,
                 mHasTalkDataSendThreadStarted>>

\* ... joins it and closes the connection.  EC_DeInitialize goes on to delete
\* the client.
LogOutEnds ==
  /\ td = "loAv" /\ JoinReceiver("av")
  /\ td' = IF sSessionMutex = "deinit" THEN "deleted" ELSE "loggedOut"
  /\ sSessionMutex' = "free"
  /\ mSockHandle' = FALSE
  /\ LogoutUnchanged
  /\ UNCHANGED <<mThreadRun, mTalkDataQueue, mTalkDataQueueEnable,
                 mTalkDataSendThreadRun, mHasTalkDataSendThreadStarted, packet>>

----------------------------------------------------------------------------
(* The garbage collection thread                                           *)

GcUnchanged ==
  UNCHANGED <<link, mHasBrokenDetected, mThread, worker, cmd, mTalkDataQueue,
              mTalkDataQueueEnable, packet, ap, pData, turns, written, accepted,
              delivered>>

\* The client has no reference left.
Collect ==
  /\ Callable /\ (td = "none" => mHasBrokenDetected)
  /\ sSessionMutex' = "gc" /\ td' = "gcJoins"
  /\ GcUnchanged
  /\ UNCHANGED <<mSockHandle, mHasStarted, mThreadRun, joined, gcNext,
                 mTalkDataSendThreadRun, mHasTalkDataSendThreadStarted>>

\* Mutant: joinThreads joins nothing.
MoreToJoin_Never == FALSE

MoreToJoin == gcNext <= Len(JoinOrder)

\* joinThreads: the next thread, if it was started.
GcStops ==
  /\ td = "gcJoins" /\ MoreToJoin
  /\ LET k == JoinOrder[gcNext] IN
       IF k \in Kinds /\ MustJoin(k)
         THEN td' = "gcWaits" /\ StopThread(k) /\ UNCHANGED gcNext
         ELSE gcNext' = gcNext + 1 /\ UNCHANGED <<td, mThreadRun>>
  /\ GcUnchanged
  /\ UNCHANGED <<sSessionMutex, mSockHandle, mHasStarted, joined,
                 mTalkDataSendThreadRun, mHasTalkDataSendThreadStarted>>

GcJoins ==
  /\ td = "gcWaits" /\ td' = "gcJoins"
  /\ Joined(JoinOrder[gcNext]) /\ ForgetThread(JoinOrder[gcNext])
  /\ gcNext' = gcNext + 1
  /\ GcUnchanged
  /\ UNCHANGED <<sSessionMutex, mSockHandle, mThreadRun,
                 mTalkDataSendThreadRun, mHasTalkDataSendThreadStarted>>

\* closeConnection, and the destructor stops audioSendThread ...
GcCloses ==
  /\ td = "gcJoins" /\ ~MoreToJoin
  /\ td' = "gcSender"
  /\ mSockHandle' = FALSE
  /\ StopSender
  /\ GcUnchanged
  /\ UNCHANGED <<sSessionMutex, mHasStarted, mThreadRun, joined, gcNext,
                 mHasTalkDataSendThreadStarted>>

\* ... and joins it; the packets still queued are forgotten with the list.
GcDeletes ==
  /\ td = "gcSender" /\ SenderGone
  /\ td' = "collected" /\ sSessionMutex' = "free"
  /\ mHasTalkDataSendThreadStarted' = FALSE
  /\ GcUnchanged
  /\ UNCHANGED <<mSockHandle, mHasStarted, mThreadRun, joined, gcNext,
                 mTalkDataSendThreadRun>>

----------------------------------------------------------------------------
Teardown == \/ LogOutJoinsCmd \/ LogOutJoinsSender \/ LogOutClears
            \/ LogOutEnds
            \/ GcStops \/ GcJoins \/ GcCloses \/ GcDeletes

Command == \E c \in Commands : SendCommand(c)

Next ==
  \/ StartReceivers /\ UNCHANGED <<talkVars, gcNext>>
  \/ LinkBreaks /\ UNCHANGED <<workerVars, talkVars, gcNext>>
  \/ Command /\ UNCHANGED <<talkVars, gcNext>>
  \/ CommandJoins /\ UNCHANGED <<talkVars, gcNext>>
  \/ (\E t \in Threads : Worker(t)) /\ UNCHANGED <<talkVars, gcNext>>
  \/ (\E p \in Packets : SendTalkData(p)) /\ UNCHANGED <<workerVars, gcNext>>
  \/ AudioSend /\ UNCHANGED <<workerVars, gcNext>>
  \/ \E why \in {"logout", "deinit"} : LogOut(why)
  \/ Collect \/ Teardown

Spec == Init /\ [][Next]_vars

\* Threads are scheduled, a callback that calls an entry point gets the mutex
\* once it is free for good, and a call or a collection that has begun goes on.
FairSpec ==
  /\ Spec
  /\ \A t \in Threads : WF_vars(Worker(t) /\ UNCHANGED <<talkVars, gcNext>>)
  /\ WF_vars(AudioSend /\ UNCHANGED <<workerVars, gcNext>>)
  /\ WF_vars(CommandJoins /\ UNCHANGED <<talkVars, gcNext>>)
  /\ WF_vars(Teardown) /\ WF_vars(Collect)

----------------------------------------------------------------------------
(* Properties                                                              *)

\* A channel is read by one thread at a time, so that no two threads share the
\* bytes of a stream, however often playback is restarted.
OneReaderPerChannel ==
  \A k \in Kinds : \A i, j \in 1 .. MaxThreads :
    Alive(<<k, i>>) /\ Alive(<<k, j>>) => i = j

\* When a client is collected only the PIR thread may still use it, which
\* joinThreads forgets; cmdRecvThread, avRecvThread and audioSendThread never do,
\* whoever deletes the client (line 1413).  The other workers may outlive
\* EC_DeInitialize.
NoWorkerOutlivesCollection ==
  /\ td = "collected" => \A t \in Threads : Alive(t) => t[1] = "pir"
  /\ td \in {"loggedOut", "deleted"} =>
       \A t \in Threads : Alive(t) => t[1] \in OnCommand
  /\ td \in {"collected", "deleted"} => ap = "exited"

\* A packet that is queued or being written has not been deleted, and every
\* packet that the queue has taken on is deleted by the end of logOut.  The
\* collection of a client whose connection broke leaves them to nobody.
PacketsOwned ==
  /\ \A i \in DOMAIN mTalkDataQueue : packet[mTalkDataQueue[i]] = "queued"
  /\ ap = "write" => packet[pData] = "sending"
  /\ td = "loggedOut" =>
       \A p \in Packets : packet[p] \in {"unbuilt", "deleted", "refused"}

\* The audio arrives in the order in which it was sent, each packet at most
\* once.
Talk == INSTANCE LossyFifo WITH Messages <- Packets
TalkInOrder == Talk!Spec

\* The holder of sSessionMutex joins the last thread of kind k, if there is one.
JoinsKind(k) ==
  \/ sSessionMutex = "command" /\ cmd.kind = k
  \/ td = "gcWaits" /\ JoinOrder[gcNext] = k
  \/ td = "loCmd" /\ k = "cmd"
  \/ td = "loAv" /\ k = "av"

\* A callback waits for sSessionMutex and the holder for the callback's thread.
CallbackDeadlock ==
  \E t \in Threads :
    worker[t] = "callback" /\ mThread[t[1]] = t[2] /\ JoinsKind(t[1])

\* sSessionMutex, which every entry point needs, is released again and again,
\* but for that deadlock: every receiving thread, and audioSendThread, that is
\* joined under it does end, by command, by logOut or by the collection.
MutexReleasedOrDeadlock == []<>(sSessionMutex = "free" \/ CallbackDeadlock)
============================================================================
