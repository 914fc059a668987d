------------------------------- MODULE Workers -------------------------------
(***************************************************************************)
(* The threads that receive on one channel each.  connectTimeThread starts *)
(* cmdRecvThread and avRecvThread; EC_SendCommand starts and stops those   *)
(* for playback, file and PIR data by the number of the command, under     *)
(* sSessionMutex: a start joins the thread that is there and creates a     *)
(* new one.  What a thread does with its data is in StreamParser.          *)
(***************************************************************************)
EXTENDS ClientState

CONSTANTS
  Kinds,      \* of "cmd", "av", "playback", "file", "pir"
  MaxThreads  \* bound: the threads of one kind ever created

\* Started with the connection, and by a command.
Receivers == Kinds \cap {"cmd", "av"}
OnCommand == Kinds \cap {"playback", "file", "pir"}

ASSUME WorkersAssumption ==
  /\ Kinds = Receivers \cup OnCommand /\ OnCommand # {}
  /\ MaxThreads \in Nat \ {0}

VARIABLES
  mHasStarted,  \* mHasPBRecvThreadStarted and the like
  mThreadRun,   \* mPBRecvThreadRun and the like
  mThread,      \* the thread id kept for each kind: its last thread, 0 is none
  worker,       \* where each thread is
  joined,       \* the threads that pthread_join was called for
  cmd           \* the command EC_SendCommand is busy with

workerVars == <<mHasStarted, mThreadRun, mThread, worker, joined, cmd>>

Threads  == Kinds \X (1 .. MaxThreads)
Commands == [verb : {"start", "stop", "none"}, kind : OnCommand]
NoCmd    == [verb |-> "none", kind |-> CHOOSE k \in OnCommand : TRUE]

WorkersTypeOK ==
  /\ mHasStarted \in [Kinds -> BOOLEAN]
  /\ mThreadRun \in [Kinds -> BOOLEAN]
  /\ mThread \in [Kinds -> 0 .. MaxThreads]
  /\ worker \in [Threads -> {"none", "test", "read", "callback", "exited"}]
  /\ joined \in [Threads -> 0 .. 1]   \* pthread_join may be called once
  /\ cmd \in Commands

\* msHasPIRDataRecvThreadStarted is not initialised.
WorkersInit ==
  /\ mHasStarted \in {h \in [Kinds -> BOOLEAN] : \A k \in Kinds \ {"pir"} : ~h[k]}
  /\ mThreadRun = [k \in Kinds |-> FALSE]
  /\ mThread = [k \in Kinds |-> 0]
  /\ worker = [t \in Threads |-> "none"]
  /\ joined = [t \in Threads |-> 0]
  /\ cmd = NoCmd

Alive(t) == worker[t] \in {"test", "read", "callback"}

\* pthread_join returns: the thread has ended, or the id is none.
Ended(k) == mThread[k] # 0 => ~Alive(<<k, mThread[k]>>)

----------------------------------------------------------------------------
(* Start, stop and join                                                    *)

\* Mutant: the flag stays set after the join.
ForgetThread_Never(k) == UNCHANGED mHasStarted

ForgetThread(k) == mHasStarted' = [mHasStarted EXCEPT ![k] = FALSE]

\* The flag is reset behind the join.
Joined(k) ==
  /\ Ended(k)
  /\ joined' = [t \in Threads |->
       IF t = <<k, mThread[k]>> THEN joined[t] + 1 ELSE joined[t]]

\* pthread_create, one thread of each kind in ks.
Create(ks) ==
  /\ \A k \in ks : mThread[k] < MaxThreads
  /\ mThread' = [k \in Kinds |-> IF k \in ks THEN mThread[k] + 1 ELSE mThread[k]]
  /\ mThreadRun' = [k \in Kinds |-> k \in ks \/ mThreadRun[k]]
  /\ mHasStarted' = [k \in Kinds |-> k \in ks \/ mHasStarted[k]]
  /\ worker' = [t \in Threads |->
       IF t[1] \in ks /\ t[2] = mThread[t[1]] + 1 THEN "test" ELSE worker[t]]

\* Mutants: a second thread is created without a join of the first, and the
\* flag of the running one is not reset.
MustJoin_Never(k)  == FALSE
StopThread_Never(k) == UNCHANGED mThreadRun

MustJoin(k)   == mHasStarted[k]
StopThread(k) == mThreadRun' = [mThreadRun EXCEPT ![k] = FALSE]

\* connectTimeThread starts the receivers for the session that was chosen.
StartReceivers ==
  /\ Connected /\ Create(Receivers)
  /\ UNCHANGED <<joined, cmd>>

----------------------------------------------------------------------------
(* EC_SendCommand                                                          *)

\* A start or stop command that was queued.  A full or disabled queue refuses
\* it, and EC_STATION_CMD_ID_STOP_PLAY_RECORD is only queued: no thread changes.
SendCommand(c) ==
  /\ Callable /\ td = "none"
  /\ c.verb # "none"
  /\ IF MustJoin(c.kind)
       THEN /\ sSessionMutex' = "command" /\ cmd' = c
            /\ StopThread(c.kind)
            /\ UNCHANGED <<mHasStarted, mThread, worker>>
       ELSE /\ c.verb = "start" /\ Create({c.kind})
            /\ UNCHANGED <<sSessionMutex, cmd>>
  /\ UNCHANGED <<td, mSockHandle, link, mHasBrokenDetected, joined>>

CommandJoins ==
  /\ sSessionMutex = "command"
  /\ Joined(cmd.kind)
  /\ \/ cmd.verb = "stop" /\ ForgetThread(cmd.kind)
        /\ UNCHANGED <<mThreadRun, mThread, worker>>
     \/ cmd.verb = "start" /\ Create({cmd.kind})
     \/ cmd.verb = "start" /\ mThread[cmd.kind] = MaxThreads   \* the bound
        /\ ForgetThread(cmd.kind) /\ UNCHANGED <<mThreadRun, mThread, worker>>
  /\ sSessionMutex' = "free" /\ cmd' = NoCmd
  /\ UNCHANGED <<td, mSockHandle, link, mHasBrokenDetected>>

----------------------------------------------------------------------------
(* The threads, up to the first use of a deleted client.                   *)

WorkerUnchanged == UNCHANGED <<mHasStarted, mThreadRun, mThread, joined, cmd,
                               sSessionMutex, td, mSockHandle, link>>

Goto(t, place) == worker' = [worker EXCEPT ![t] = place]

\* The loop condition.
WorkerTests(t) ==
  /\ worker[t] = "test"
  /\ Goto(t, IF mThreadRun[t[1]] THEN "read" ELSE "exited")
  /\ UNCHANGED mHasBrokenDetected /\ WorkerUnchanged

\* LINK_Read timed out, or there is no session to read from.
WorkerIdles(t) ==
  /\ worker[t] = "read" /\ (mSockHandle => link)
  /\ Goto(t, "test")
  /\ UNCHANGED mHasBrokenDetected /\ WorkerUnchanged

\* A frame is passed to the application.
WorkerReads(t) ==
  /\ worker[t] = "read" /\ mSockHandle /\ link
  /\ Goto(t, "callback")
  /\ UNCHANGED mHasBrokenDetected /\ WorkerUnchanged

\* The callback may itself call an entry point, which takes sSessionMutex.
CallbackReturns(t) ==
  /\ worker[t] = "callback" /\ sSessionMutex = "free"
  /\ Goto(t, "test")
  /\ UNCHANGED mHasBrokenDetected /\ WorkerUnchanged

\* LINK_Read failed.
WorkerFails(t) ==
  /\ worker[t] = "read" /\ mSockHandle /\ ~link
  /\ Goto(t, "exited")
  /\ mHasBrokenDetected' = TRUE
  /\ WorkerUnchanged

Worker(t) ==
  /\ td \notin {"deleted", "collected"}
  /\ \/ WorkerTests(t) \/ WorkerIdles(t) \/ CallbackReturns(t)
     \/ WorkerReads(t) \/ WorkerFails(t)
============================================================================
