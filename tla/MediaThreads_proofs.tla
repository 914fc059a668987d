------------------------- MODULE MediaThreads_proofs -------------------------
(***************************************************************************)
(* Proofs about MediaThreads, for any kinds of receiving threads, any      *)
(* number of threads and packets, and any size of queue and packet.  Typed *)
(* holds types, locks and the pool of threads; Torn, WorkerTold and        *)
(* AudioTold what a teardown has joined and told to stop; Owned and Order  *)
(* are about the packets.                                                  *)
(***************************************************************************)
EXTENDS MediaThreads, SequenceTheorems, TLAPS

\* Who holds sSessionMutex, by how far the teardown has come.
Locks ==
  /\ td \in {"loCmd", "loSender", "loClear", "loAv"}
       <=> sSessionMutex \in {"logout", "deinit"}
  /\ td \in {"gcJoins", "gcWaits", "gcSender"} <=> sSessionMutex = "gc"
  /\ sSessionMutex = "command" => td = "none"

\* Of each kind only the last thread may be alive, and then its flag is set; a
\* thread that was joined is not the last one, or its flag was reset.
Pool ==
  \A k \in Kinds : \A i \in 1 .. MaxThreads :
    /\ i > mThread[k] => worker[<<k, i>>] = "none" /\ joined[<<k, i>>] = 0
    /\ Alive(<<k, i>>) => i = mThread[k] /\ mHasStarted[k]
    /\ joined[<<k, i>>] = 1 => i < mThread[k] \/ ~mHasStarted[k]

\* Only a kind whose flag is set is waited for.
Joining ==
  /\ sSessionMutex = "command" => mHasStarted[cmd.kind]
  /\ td = "gcWaits" => /\ gcNext \in 1 .. 4 /\ JoinOrder[gcNext] \in Kinds
                       /\ mHasStarted[JoinOrder[gcNext]]

Writing == ap = "write" => pData \in Packets

\* The receivers are started with the connection, and once.
Fresh == td = "none" /\ ~mSockHandle => \A k \in Receivers : ~mHasStarted[k]

Typed == TypeOK /\ Locks /\ Pool /\ Joining /\ Writing /\ Fresh

LEMMA JoinOrderIs ==
  /\ JoinOrder[1] = "cmd" /\ JoinOrder[2] = "av"
  /\ JoinOrder[3] = "playback" /\ JoinOrder[4] = "file"
  /\ Len(JoinOrder) = 4
BY DEF JoinOrder

\* The receivers and the threads that a command starts make up the kinds.
LEMMA KindsAre ==
  /\ Receivers \subseteq Kinds /\ OnCommand \subseteq Kinds
  /\ Kinds = Receivers \cup OnCommand
  /\ Receivers \subseteq {"cmd", "av"}
  /\ OnCommand \subseteq {"playback", "file", "pir"}
  /\ \A k \in Receivers : k \notin OnCommand
  /\ (CHOOSE k \in OnCommand : TRUE) \in OnCommand
BY WorkersAssumption DEF Receivers, OnCommand

----------------------------------------------------------------------------
(* What a step can change                                                  *)

TalkStep ==
  \/ \E p \in Packets : SendTalkData(p)
  \/ AudioSend
  \/ \E why \in {"logout", "deinit"} : LogOut(why)
  \/ LogOutJoinsCmd \/ LogOutJoinsSender \/ LogOutClears
  \/ GcCloses \/ GcDeletes

WorkerStep ==
  \/ StartReceivers
  \/ \E c \in Commands : SendCommand(c)
  \/ CommandJoins
  \/ \E t \in Threads : Worker(t)
  \/ \E why \in {"logout", "deinit"} : LogOut(why)
  \/ LogOutJoinsCmd \/ LogOutClears \/ LogOutEnds
  \/ GcStops \/ GcJoins

LEMMA TalkKept ==
  ASSUME [Next]_vars, ~TalkStep
  PROVE  UNCHANGED talkVars
BY DEF Next, vars, talkVars, TalkStep, Teardown, Command, Collect, LogOutEnds,
       LogoutUnchanged, GcStops, GcJoins, GcUnchanged

LEMMA WorkersKept ==
  ASSUME [Next]_vars, ~WorkerStep
  PROVE  UNCHANGED workerVars
<1>1. CASE \E p \in Packets : SendTalkData(p) /\ UNCHANGED workerVars
  BY <1>1
<1>2. CASE LinkBreaks /\ UNCHANGED workerVars
  BY <1>2
<1>3. CASE Collect
  BY <1>3 DEF Collect, GcUnchanged, workerVars
<1>4. CASE LogOutJoinsSender \/ GcCloses \/ GcDeletes
  BY <1>4 DEF LogOutJoinsSender, LogoutUnchanged, GcCloses, GcDeletes,
     GcUnchanged, workerVars
<1>5. CASE UNCHANGED vars
  BY <1>5 DEF vars
<1> QED  BY <1>1, <1>2, <1>3, <1>4, <1>5 DEF Next, Teardown, Command, WorkerStep

----------------------------------------------------------------------------
(* Types                                                                   *)

LEMMA InitTyped == Init => Typed
<1> SUFFICES ASSUME Init PROVE Typed
  OBVIOUS
<1>1. 0 \in 0 .. MaxThreads /\ 0 \in 0 .. MaxTurns /\ 0 \in 0 .. Size
  BY WorkersAssumption, TalkQueueAssumption
<1>2. ClientTypeOK
  BY DEF Init, ClientInit, ClientTypeOK
<1>3. WorkersTypeOK
  <2>1. cmd \in Commands
    BY KindsAre DEF Init, WorkersInit, NoCmd, Commands
  <2>2. mHasStarted \in [Kinds -> BOOLEAN]
    BY DEF Init, WorkersInit
  <2>3. /\ mThreadRun \in [Kinds -> BOOLEAN]
        /\ mThread \in [Kinds -> 0 .. MaxThreads]
        /\ worker \in [Threads -> {"none", "test", "read", "callback", "exited"}]
        /\ joined \in [Threads -> 0 .. 1]
    BY <1>1 DEF Init, WorkersInit
  <2> QED  BY <2>1, <2>2, <2>3 DEF WorkersTypeOK
<1>4. TalkTypeOK
  BY <1>1 DEF Init, TalkInit, TalkTypeOK
<1>5. gcNext \in 1 .. Len(JoinOrder) + 1
  BY JoinOrderIs DEF Init
<1>6. Locks /\ Joining /\ Writing
  BY DEF Init, ClientInit, TalkInit, Locks, Joining, Writing
<1>7. Pool
  BY DEF Init, WorkersInit, Pool, Threads, Alive
<1>8. Fresh
  BY KindsAre DEF Init, WorkersInit, Fresh
<1> QED  BY <1>2, <1>3, <1>4, <1>5, <1>6, <1>7, <1>8 DEF Typed, TypeOK

\* The client's own variables.
LEMMA StepClient ==
  ASSUME Typed, [Next]_vars
  PROVE  ClientTypeOK' /\ Locks'
<1>0. ClientTypeOK /\ Locks
  BY DEF Typed, TypeOK
<1>1. CASE StartReceivers \/ LinkBreaks
  BY <1>0, <1>1 DEF StartReceivers, Connected, LinkBreaks, ClientTypeOK, Locks
<1>2. CASE Command
  BY <1>0, <1>2 DEF Command, SendCommand, Callable, ClientTypeOK, Locks
<1>3. CASE CommandJoins
  BY <1>0, <1>3 DEF CommandJoins, ClientTypeOK, Locks
<1>4. CASE \E t \in Threads : Worker(t)
  BY <1>0, <1>4 DEF Worker, WorkerTests, WorkerIdles, WorkerReads, CallbackReturns,
     WorkerFails, WorkerUnchanged, ClientTypeOK, Locks
<1>5. CASE \E p \in Packets : SendTalkData(p)
  BY <1>0, <1>5 DEF SendTalkData, clientVars, ClientTypeOK, Locks
<1>6. CASE AudioSend
  BY <1>0, <1>6 DEF AudioSend, SenderPops, SenderWrites, SenderEndsLoop, SenderFails,
     SenderStops, SenderDone, SenderUnchanged, ClientTypeOK, Locks
<1>7. CASE \E why \in {"logout", "deinit"} : LogOut(why)
  BY <1>0, <1>7 DEF LogOut, LogoutUnchanged, ClientTypeOK, Locks
<1>8. CASE LogOutJoinsCmd \/ LogOutJoinsSender \/ LogOutClears \/ LogOutEnds
  BY <1>0, <1>8 DEF LogOutJoinsCmd, LogOutJoinsSender, LogOutClears, LogOutEnds,
     LogoutUnchanged, ClientTypeOK, Locks
<1>9. CASE Collect
  BY <1>0, <1>9 DEF Collect, Callable, GcUnchanged, ClientTypeOK, Locks
<1>10. CASE GcStops \/ GcJoins \/ GcCloses \/ GcDeletes
  BY <1>0, <1>10 DEF GcStops, GcJoins, GcCloses, GcDeletes, GcUnchanged,
     ClientTypeOK, Locks
<1>11. CASE UNCHANGED vars
  BY <1>0, <1>11 DEF vars, clientVars, ClientTypeOK, Locks
<1> QED  BY <1>1, <1>2, <1>3, <1>4, <1>5, <1>6, <1>7, <1>8, <1>9, <1>10, <1>11
            DEF Next, Teardown

\* The talk data path.
LEMMA StepTalk ==
  ASSUME Typed, [Next]_vars
  PROVE  TalkTypeOK' /\ Writing'
<1>0. /\ TalkTypeOK /\ Writing /\ MaxTurns \in Nat \ {0} /\ Size \in Nat \ {0}
  BY TalkQueueAssumption DEF Typed, TypeOK
<1>1. ASSUME NEW p \in Packets, SendTalkData(p)
      PROVE  TalkTypeOK' /\ Writing'
  <2>1. /\ mTalkDataQueue' \in Seq(Packets) /\ accepted' \in Seq(Packets)
        /\ packet' \in [Packets -> {"unbuilt", "queued", "sending", "deleted", "refused"}]
    <3>1. \/ /\ mTalkDataQueue' = Append(mTalkDataQueue, p)
             /\ accepted' = Append(accepted, p)
             /\ packet' = [packet EXCEPT ![p] = "queued"]
          \/ /\ mTalkDataQueue' = mTalkDataQueue /\ accepted' = accepted
             /\ packet' = [packet EXCEPT ![p] = "refused"]
      BY <1>1 DEF SendTalkData, PushBack
    <3>2. mTalkDataQueue' \in Seq(Packets) /\ accepted' \in Seq(Packets)
      <4>1. mTalkDataQueue \in Seq(Packets) /\ accepted \in Seq(Packets)
        BY <1>0 DEF TalkTypeOK
      <4>2. CASE mTalkDataQueue' = Append(mTalkDataQueue, p) /\ accepted' = Append(accepted, p)
        BY ONLY <4>1, <4>2, p \in Packets, AppendProperties
      <4> QED  BY <3>1, <4>1, <4>2
    <3>3. packet' \in [Packets -> {"unbuilt", "queued", "sending", "deleted", "refused"}]
      BY <1>0, <3>1 DEF TalkTypeOK
    <3> QED  BY <3>2, <3>3
  <2> QED  BY <1>0, <1>1, <2>1 DEF SendTalkData, TalkTypeOK, Writing
<1>2. CASE SenderPops
  <2>1. /\ Head(mTalkDataQueue) \in Packets
        /\ Tail(mTalkDataQueue) \in Seq(Packets)
    BY <1>0, <1>2 DEF SenderPops, TalkTypeOK
  <2> QED  BY <1>0, <1>2, <2>1 DEF SenderPops, SenderUnchanged, TalkTypeOK, Writing
<1>3. ASSUME NEW n \in 0 .. Size, SenderWrites(n)
      PROVE  TalkTypeOK' /\ Writing'
  <2>1. turns' \in 0 .. MaxTurns /\ written' \in 0 .. Size
    BY <1>0, <1>3 DEF SenderWrites, CanWrite, TalkTypeOK
  <2>2. pData \in Packets
    BY <1>0, <1>3 DEF SenderWrites, CanWrite, InLoop, Writing
  <2>3. delivered' \in Seq(Packets)
    BY <1>0, <1>3, <2>2 DEF SenderWrites, TalkTypeOK
  <2> QED  BY <1>0, <1>3, <2>1, <2>2, <2>3
              DEF SenderWrites, SenderUnchanged, TalkTypeOK, Writing
<1>4. CASE SenderEndsLoop \/ SenderFails
  <2>1. /\ packet' = [packet EXCEPT ![pData] = "deleted"] /\ pData' = NoPacket
        /\ turns' = 0 /\ written' = 0 /\ ap' \in {"idle", "exited"}
        /\ UNCHANGED <<mTalkDataQueue, mTalkDataQueueEnable, mTalkDataSendThreadRun,
                       mHasTalkDataSendThreadStarted, accepted, delivered>>
    BY <1>4 DEF SenderEndsLoop, SenderFails, SenderDone, DeletePacket, SenderUnchanged
  <2>2. 0 \in 0 .. MaxTurns /\ 0 \in 0 .. Size
    BY <1>0
  <2>3. packet' \in [Packets -> {"unbuilt", "queued", "sending", "deleted", "refused"}]
    BY <1>0, <2>1 DEF TalkTypeOK
  <2>4. pData' \in Packets \cup {NoPacket} /\ turns' \in 0 .. MaxTurns
        /\ written' \in 0 .. Size /\ ap' \in {"idle", "write", "exited"} /\ Writing'
    BY <2>1, <2>2 DEF Writing
  <2>5. /\ mTalkDataQueue' \in Seq(Packets) /\ mTalkDataQueueEnable' \in BOOLEAN
        /\ mTalkDataSendThreadRun' \in BOOLEAN
        /\ mHasTalkDataSendThreadStarted' \in BOOLEAN
        /\ accepted' \in Seq(Packets) /\ delivered' \in Seq(Packets)
    BY <1>0, <2>1 DEF TalkTypeOK
  <2> QED  BY <2>3, <2>4, <2>5 DEF TalkTypeOK
<1>5. CASE SenderStops
  BY <1>0, <1>5 DEF SenderStops, SenderUnchanged, TalkTypeOK, Writing
<1>6. CASE \E why \in {"logout", "deinit"} : LogOut(why)
  BY <1>0, <1>6 DEF LogOut, LogoutUnchanged, TalkTypeOK, Writing
<1>7. CASE LogOutJoinsCmd \/ LogOutJoinsSender
  BY <1>0, <1>7 DEF LogOutJoinsCmd, LogOutJoinsSender, LogoutUnchanged, StopSender,
     TalkTypeOK, Writing
<1>8. CASE LogOutClears
  BY <1>0, <1>8 DEF LogOutClears, LogoutUnchanged, ClearTalkDataQueue, EmptyQueue,
     TalkTypeOK, Writing
<1>9. CASE GcCloses \/ GcDeletes
  BY <1>0, <1>9 DEF GcCloses, GcDeletes, GcUnchanged, StopSender, TalkTypeOK, Writing
<1>10. CASE UNCHANGED talkVars
  BY <1>0, <1>10 DEF talkVars, TalkTypeOK, Writing
<1> QED  BY <1>1, <1>2, <1>3, <1>4, <1>5, <1>6, <1>7, <1>8, <1>9, <1>10, TalkKept
            DEF TalkStep, AudioSend

\* One thread of each kind in ks is created; the one before has been joined.
LEMMA Created ==
  ASSUME Typed, NEW ks \in SUBSET Kinds, Create(ks),
         \A t \in Threads : joined'[t] =
           IF t[1] \in ks /\ t[2] = mThread[t[1]] /\ mHasStarted[t[1]]
             THEN joined[t] + 1 ELSE joined[t],
         joined' \in [Threads -> Int],
         \A k \in ks : mThread[k] # 0 => ~Alive(<<k, mThread[k]>>)
  PROVE  /\ Pool' /\ joined' \in [Threads -> 0 .. 1]
         /\ worker' \in [Threads -> {"none", "test", "read", "callback", "exited"}]
         /\ mThread' \in [Kinds -> 0 .. MaxThreads]
         /\ mThreadRun' \in [Kinds -> BOOLEAN] /\ mHasStarted' \in [Kinds -> BOOLEAN]
<1>0. MaxThreads \in Nat /\ WorkersTypeOK /\ Pool
  BY WorkersAssumption DEF Typed, TypeOK
<1>1. \A j \in Kinds : mThread[j] \in Nat /\ mThread[j] <= MaxThreads
  BY <1>0 DEF WorkersTypeOK
<1>2. /\ mThread' = [k \in Kinds |-> IF k \in ks THEN mThread[k] + 1 ELSE mThread[k]]
      /\ mThreadRun' = [k \in Kinds |-> k \in ks \/ mThreadRun[k]]
      /\ mHasStarted' = [k \in Kinds |-> k \in ks \/ mHasStarted[k]]
      /\ worker' = [t \in Threads |->
           IF t[1] \in ks /\ t[2] = mThread[t[1]] + 1 THEN "test" ELSE worker[t]]
      /\ \A k \in ks : mThread[k] < MaxThreads
  BY DEF Create
<1>3. /\ mThread' \in [Kinds -> 0 .. MaxThreads]
      /\ mThreadRun' \in [Kinds -> BOOLEAN] /\ mHasStarted' \in [Kinds -> BOOLEAN]
      /\ worker' \in [Threads -> {"none", "test", "read", "callback", "exited"}]
  <2>1. mThread' \in [Kinds -> 0 .. MaxThreads]
    BY <1>0, <1>1, <1>2
  <2>2. mThreadRun' \in [Kinds -> BOOLEAN] /\ mHasStarted' \in [Kinds -> BOOLEAN]
    BY <1>2 DEF WorkersTypeOK
  <2>3. worker' \in [Threads -> {"none", "test", "read", "callback", "exited"}]
    BY <1>0, <1>2 DEF WorkersTypeOK
  <2> QED  BY <2>1, <2>2, <2>3
<1>4. ASSUME NEW j \in Kinds, NEW i \in 1 .. MaxThreads
      PROVE  /\ joined[<<j, i>>] \in 0 .. 1 /\ <<j, i>> \in Threads
             /\ i > mThread[j] => worker[<<j, i>>] = "none" /\ joined[<<j, i>>] = 0
             /\ Alive(<<j, i>>) => i = mThread[j] /\ mHasStarted[j]
             /\ joined[<<j, i>>] = 1 => i < mThread[j] \/ ~mHasStarted[j]
  <2>1. <<j, i>> \in Threads
    BY DEF Threads
  <2>2. joined[<<j, i>>] \in 0 .. 1
    BY <1>0, <2>1 DEF WorkersTypeOK
  <2> QED  BY <1>0, <2>1, <2>2 DEF Pool
<1>5. ASSUME NEW j \in Kinds, NEW i \in 1 .. MaxThreads
      PROVE  /\ joined'[<<j, i>>] \in 0 .. 1
             /\ i > mThread'[j] => worker'[<<j, i>>] = "none" /\ joined'[<<j, i>>] = 0
             /\ Alive(<<j, i>>)' => i = mThread'[j] /\ mHasStarted'[j]
             /\ joined'[<<j, i>>] = 1 => i < mThread'[j] \/ ~mHasStarted'[j]
  <2> DEFINE t == <<j, i>>
  <2>0. t \in Threads /\ t[1] = j /\ t[2] = i
    BY <1>4
  <2>1. CASE j \notin ks
    <3>1. /\ mThread'[j] = mThread[j] /\ mHasStarted'[j] = mHasStarted[j]
          /\ worker'[t] = worker[t] /\ joined'[t] = joined[t]
      <4>1. mThread'[j] = mThread[j]
        BY <1>2, <2>1
      <4>2. mHasStarted'[j] = mHasStarted[j]
        BY <1>0, <1>2, <2>1 DEF WorkersTypeOK
      <4>3. worker'[t] = worker[t] /\ joined'[t] = joined[t]
        BY <1>2, <2>0, <2>1
      <4> QED  BY <4>1, <4>2, <4>3
    <3> QED  BY <1>4, <3>1 DEF Alive
  <2>2. CASE j \in ks
    <3>1. mThread'[j] = mThread[j] + 1 /\ mHasStarted'[j] = TRUE
      BY <1>2, <2>2
    <3>2. worker'[t] = IF i = mThread[j] + 1 THEN "test" ELSE worker[t]
      BY <1>2, <2>0, <2>2
    <3>3. joined'[t] = IF i = mThread[j] /\ mHasStarted[j]
                         THEN joined[t] + 1 ELSE joined[t]
      BY <2>0, <2>2
    <3>4. joined'[<<j, i>>] \in 0 .. 1
      BY <1>1, <1>4, <3>3
    <3>5. i > mThread'[j] => worker'[<<j, i>>] = "none" /\ joined'[<<j, i>>] = 0
      BY <1>1, <1>4, <3>1, <3>2, <3>3
    <3>6. Alive(<<j, i>>)' => i = mThread'[j] /\ mHasStarted'[j]
      BY <1>1, <1>4, <2>2, <3>1, <3>2 DEF Alive
    <3>7. joined'[<<j, i>>] = 1 => i < mThread'[j]
      BY <1>1, <1>4, <3>1, <3>3
    <3> QED  BY <3>4, <3>5, <3>6, <3>7
  <2> QED  BY <2>1, <2>2
<1>6. joined' \in [Threads -> 0 .. 1]
  BY <1>5 DEF Threads
<1> QED  BY <1>3, <1>5, <1>6 DEF Pool

\* pthread_join has counted one thread.
Counted(k) ==
  /\ joined' \in [Threads -> Int]
  /\ \A t \in Threads :
       joined'[t] = IF t = <<k, mThread[k]>> THEN joined[t] + 1 ELSE joined[t]

LEMMA JoinCounts ==
  ASSUME Typed, NEW k \in Kinds, Joined(k)
  PROVE  Counted(k) /\ (mThread[k] # 0 => ~Alive(<<k, mThread[k]>>))
<1>1. joined \in [Threads -> 0 .. 1]
  BY DEF Typed, TypeOK, WorkersTypeOK
<1>2. joined' = [t \in Threads |->
                   IF t = <<k, mThread[k]>> THEN joined[t] + 1 ELSE joined[t]]
  BY DEF Joined
<1>3. ASSUME NEW t \in Threads PROVE joined'[t] \in Int
  BY <1>1, <1>2
<1>4. Counted(k)
  BY <1>2, <1>3 DEF Counted
<1> QED  BY <1>4 DEF Joined, Ended

\* A thread was joined and its flag is reset.
LEMMA Forgotten ==
  ASSUME Typed, NEW k \in Kinds, mHasStarted[k], Joined(k),
         mHasStarted' = [mHasStarted EXCEPT ![k] = FALSE],
         UNCHANGED <<mThread, worker>>
  PROVE  Pool' /\ joined' \in [Threads -> 0 .. 1] /\ mHasStarted' \in [Kinds -> BOOLEAN]
<1>0. MaxThreads \in Nat /\ WorkersTypeOK /\ Pool
  BY WorkersAssumption DEF Typed, TypeOK
<1>1. Counted(k) /\ (mThread[k] # 0 => ~Alive(<<k, mThread[k]>>))
  BY JoinCounts
<1>2. \A j \in Kinds : mThread[j] \in Nat
  BY <1>0 DEF WorkersTypeOK
<1>3. mHasStarted \in [Kinds -> BOOLEAN]
  BY <1>0 DEF WorkersTypeOK
<1>4. ASSUME NEW j \in Kinds, NEW i \in 1 .. MaxThreads
      PROVE  /\ joined'[<<j, i>>] \in 0 .. 1
             /\ i > mThread[j] => worker[<<j, i>>] = "none" /\ joined'[<<j, i>>] = 0
             /\ Alive(<<j, i>>) => i = mThread[j] /\ mHasStarted'[j]
             /\ joined'[<<j, i>>] = 1 => i < mThread[j] \/ ~mHasStarted'[j]
  <2>1. <<j, i>> \in Threads
    BY DEF Threads
  <2>2. joined[<<j, i>>] \in 0 .. 1
    BY <1>0, <2>1 DEF WorkersTypeOK
  <2>3. /\ i > mThread[j] => worker[<<j, i>>] = "none" /\ joined[<<j, i>>] = 0
        /\ Alive(<<j, i>>) => i = mThread[j] /\ mHasStarted[j]
        /\ joined[<<j, i>>] = 1 => i < mThread[j] \/ ~mHasStarted[j]
    BY <1>0 DEF Pool
  <2>4. joined'[<<j, i>>] = IF j = k /\ i = mThread[k] THEN joined[<<j, i>>] + 1
                                                     ELSE joined[<<j, i>>]
    BY <1>1, <2>1 DEF Counted
  <2>5. CASE j = k
    BY <1>1, <1>2, <1>3, <2>2, <2>3, <2>4, <2>5
  <2>6. CASE j # k
    BY <1>3, <2>2, <2>3, <2>4, <2>6
  <2> QED  BY <2>5, <2>6
<1>5. joined' \in [Threads -> 0 .. 1]
  BY <1>1, <1>4 DEF Threads, Counted
<1> QED  BY <1>3, <1>4, <1>5 DEF Pool, Alive

LEMMA NoCmdIs == NoCmd \in Commands
BY KindsAre DEF NoCmd, Commands

\* A receiver is joined if it was started.
LEMMA ReceiverJoined ==
  ASSUME Typed, NEW k, JoinReceiver(k), UNCHANGED <<mThread, worker>>
  PROVE  /\ Pool' /\ joined' \in [Threads -> 0 .. 1]
         /\ mHasStarted' \in [Kinds -> BOOLEAN]
         /\ \A j \in Kinds : mHasStarted'[j] => mHasStarted[j] /\ j # k
<1>0. WorkersTypeOK /\ Pool
  BY DEF Typed, TypeOK
<1>1. CASE k \in Kinds /\ mHasStarted[k]
  <2>1. Joined(k) /\ mHasStarted' = [mHasStarted EXCEPT ![k] = FALSE]
    BY <1>1 DEF JoinReceiver, MustJoin, ForgetThread
  <2>2. \A j \in Kinds : mHasStarted'[j] => mHasStarted[j] /\ j # k
    BY <1>0, <2>1 DEF WorkersTypeOK
  <2> QED  BY <1>1, <2>1, <2>2, Forgotten
<1>2. CASE ~(k \in Kinds /\ mHasStarted[k])
  <2>1. UNCHANGED <<mHasStarted, joined>>
    BY <1>2 DEF JoinReceiver, MustJoin
  <2> QED  BY <1>0, <1>2, <2>1 DEF WorkersTypeOK, Pool, Alive
<1> QED  BY <1>1, <1>2

\* A receiver is told to stop if it was started.
LEMMA ReceiverStopped ==
  ASSUME Typed, NEW k, StopReceiver(k)
  PROVE  /\ mThreadRun' \in [Kinds -> BOOLEAN]
         /\ k \in Kinds /\ mHasStarted[k] => ~mThreadRun'[k]
BY DEF Typed, TypeOK, WorkersTypeOK, StopReceiver, MustJoin

\* A thread that is alive goes on.
LEMMA WorkerGoes ==
  ASSUME Typed, NEW t \in Threads, Worker(t)
  PROVE  WorkersTypeOK' /\ Pool'
<1>0. WorkersTypeOK /\ Pool
  BY DEF Typed, TypeOK
<1>1. PICK place \in {"test", "read", "callback", "exited"} :
        worker' = [worker EXCEPT ![t] = place]
  BY DEF Worker, WorkerTests, WorkerIdles, WorkerReads, CallbackReturns, WorkerFails, Goto
<1>2. /\ worker[t] \in {"test", "read", "callback"}
      /\ UNCHANGED <<mHasStarted, mThreadRun, mThread, joined, cmd>>
  BY DEF Worker, WorkerTests, WorkerIdles, WorkerReads, CallbackReturns, WorkerFails,
     WorkerUnchanged
<1>3. worker \in [Threads -> {"none", "test", "read", "callback", "exited"}]
  BY <1>0 DEF WorkersTypeOK
<1>4. worker' \in [Threads -> {"none", "test", "read", "callback", "exited"}]
  BY <1>1, <1>3
<1>5. WorkersTypeOK'
  BY <1>0, <1>2, <1>4 DEF WorkersTypeOK
<1>6. ASSUME NEW k \in Kinds, NEW i \in 1 .. MaxThreads
      PROVE  /\ worker[<<k, i>>] = "none" => worker'[<<k, i>>] = "none"
             /\ Alive(<<k, i>>)' => Alive(<<k, i>>)
  <2>1. <<k, i>> \in Threads
    BY DEF Threads
  <2>2. worker'[<<k, i>>] = IF <<k, i>> = t THEN place ELSE worker[<<k, i>>]
    BY <1>1, <1>3, <2>1
  <2> QED  BY <1>1, <1>2, <2>2 DEF Alive
<1>7. Pool'
  BY <1>0, <1>2, <1>6 DEF Pool
<1> QED  BY <1>5, <1>7

LEMMA StepWorkers ==
  ASSUME Typed, [Next]_vars
  PROVE  WorkersTypeOK' /\ Pool'
<1>0. WorkersTypeOK /\ Pool /\ Joining /\ Locks
  BY DEF Typed, TypeOK
<1>f. /\ mHasStarted \in [Kinds -> BOOLEAN] /\ mThreadRun \in [Kinds -> BOOLEAN]
      /\ mThread \in [Kinds -> 0 .. MaxThreads]
      /\ joined \in [Threads -> 0 .. 1] /\ cmd \in Commands
  BY <1>0 DEF WorkersTypeOK
<1>1. ASSUME NEW c \in Commands, SendCommand(c)
      PROVE  WorkersTypeOK' /\ Pool'
  <2>1. c.kind \in Kinds /\ cmd' \in Commands /\ joined' = joined
    BY <1>1, <1>f, KindsAre DEF SendCommand, Commands
  <2>2. CASE mHasStarted[c.kind]
    <3>1. /\ mThreadRun' = [mThreadRun EXCEPT ![c.kind] = FALSE]
          /\ UNCHANGED <<mHasStarted, mThread, worker>>
      BY <1>1, <2>2 DEF SendCommand, MustJoin, StopThread
    <3>2. mThreadRun' \in [Kinds -> BOOLEAN]
      BY <1>f, <3>1
    <3> QED  BY <1>0, <2>1, <3>1, <3>2 DEF WorkersTypeOK, Pool, Alive
  <2>3. CASE ~mHasStarted[c.kind]
    <3> DEFINE ks == {c.kind}
    <3>1. ks \in SUBSET Kinds /\ Create(ks)
      BY <1>1, <2>1, <2>3 DEF SendCommand, MustJoin
    <3>2. \A k \in ks : mThread[k] # 0 => ~Alive(<<k, mThread[k]>>)
      BY <1>0, <1>f, <2>1, <2>3 DEF Pool
    <3>3. \A t \in Threads : joined'[t] =
            IF t[1] \in ks /\ t[2] = mThread[t[1]] /\ mHasStarted[t[1]]
              THEN joined[t] + 1 ELSE joined[t]
      BY <2>1, <2>3
    <3>4. joined' \in [Threads -> Int]
      BY <1>f, <2>1
    <3> HIDE DEF ks
    <3>5. /\ Pool' /\ joined' \in [Threads -> 0 .. 1]
          /\ worker' \in [Threads -> {"none", "test", "read", "callback", "exited"}]
          /\ mThread' \in [Kinds -> 0 .. MaxThreads]
          /\ mThreadRun' \in [Kinds -> BOOLEAN] /\ mHasStarted' \in [Kinds -> BOOLEAN]
      BY <3>1, <3>2, <3>3, <3>4, Created
    <3> QED  BY <2>1, <3>5 DEF WorkersTypeOK
  <2> QED  BY <2>2, <2>3
<1>2. CASE CommandJoins
  <2>1. /\ cmd.kind \in Kinds /\ mHasStarted[cmd.kind] /\ Joined(cmd.kind)
        /\ cmd' \in Commands
    BY <1>0, <1>2, <1>f, NoCmdIs, KindsAre DEF CommandJoins, Commands, Joining
  <2>2. CASE Create({cmd.kind})
    <3> DEFINE ks == {cmd.kind}
    <3>0. ks \in SUBSET Kinds /\ Create(ks)
      BY <2>1, <2>2
    <3>1. Counted(cmd.kind) /\ (mThread[cmd.kind] # 0 => ~Alive(<<cmd.kind, mThread[cmd.kind]>>))
      BY <2>1, JoinCounts
    <3>2. joined' \in [Threads -> Int]
      BY <3>1 DEF Counted
    <3>4. ASSUME NEW t \in Threads
          PROVE  joined'[t] =
                   IF t[1] \in ks /\ t[2] = mThread[t[1]] /\ mHasStarted[t[1]]
                     THEN joined[t] + 1 ELSE joined[t]
      <4>1. t = <<cmd.kind, mThread[cmd.kind]>>
              <=> t[1] = cmd.kind /\ t[2] = mThread[t[1]]
        BY DEF Threads
      <4> QED  BY <2>1, <3>1, <4>1 DEF Counted
    <3>5. \A k \in ks : mThread[k] # 0 => ~Alive(<<k, mThread[k]>>)
      BY <3>1
    <3> HIDE DEF ks
    <3>3. /\ Pool' /\ joined' \in [Threads -> 0 .. 1]
          /\ worker' \in [Threads -> {"none", "test", "read", "callback", "exited"}]
          /\ mThread' \in [Kinds -> 0 .. MaxThreads]
          /\ mThreadRun' \in [Kinds -> BOOLEAN] /\ mHasStarted' \in [Kinds -> BOOLEAN]
      BY <3>0, <3>2, <3>4, <3>5, Created
    <3> QED  BY <2>1, <3>3 DEF WorkersTypeOK
  <2>3. CASE ~Create({cmd.kind})
    <3>1. /\ mHasStarted' = [mHasStarted EXCEPT ![cmd.kind] = FALSE]
          /\ UNCHANGED <<mThreadRun, mThread, worker>>
      BY <1>2, <2>3 DEF CommandJoins, ForgetThread
    <3>2. /\ Pool' /\ joined' \in [Threads -> 0 .. 1]
          /\ mHasStarted' \in [Kinds -> BOOLEAN]
      BY <2>1, <3>1, Forgotten
    <3> QED  BY <1>0, <2>1, <3>1, <3>2 DEF WorkersTypeOK
  <2> QED  BY <2>2, <2>3
<1>3. ASSUME NEW t \in Threads, Worker(t)
      PROVE  WorkersTypeOK' /\ Pool'
  BY <1>3, WorkerGoes
<1>4. CASE GcStops
  <2>1. /\ UNCHANGED <<mHasStarted, mThread, worker, joined, cmd>>
        /\ mThreadRun' \in [Kinds -> BOOLEAN]
    BY <1>4, <1>f DEF GcStops, GcUnchanged, StopThread
  <2> QED  BY <1>0, <2>1 DEF WorkersTypeOK, Pool, Alive
<1>5. CASE GcJoins
  <2> DEFINE k == JoinOrder[gcNext]
  <2>1. k \in Kinds /\ mHasStarted[k] /\ Joined(k)
    BY <1>0, <1>5 DEF GcJoins, Joining
  <2>2. /\ mHasStarted' = [mHasStarted EXCEPT ![k] = FALSE]
        /\ UNCHANGED <<mThread, worker, mThreadRun, cmd>>
    BY <1>5 DEF GcJoins, ForgetThread, GcUnchanged
  <2> HIDE DEF k
  <2>3. /\ Pool' /\ joined' \in [Threads -> 0 .. 1]
        /\ mHasStarted' \in [Kinds -> BOOLEAN]
    BY <2>1, <2>2, Forgotten
  <2> QED  BY <1>0, <2>2, <2>3 DEF WorkersTypeOK
<1>6. CASE UNCHANGED workerVars
  BY <1>0, <1>6 DEF workerVars, WorkersTypeOK, Pool, Alive
<1>7. CASE StartReceivers
  <2>1. /\ Receivers \in SUBSET Kinds /\ Create(Receivers)
        /\ UNCHANGED <<joined, cmd>>
        /\ \A k \in Receivers : ~mHasStarted[k]
    BY <1>7, KindsAre DEF StartReceivers, Connected, Typed, Fresh
  <2>2. \A k \in Receivers : mThread[k] # 0 => ~Alive(<<k, mThread[k]>>)
    BY <1>0, <1>f, <2>1 DEF Pool
  <2>3. /\ joined' \in [Threads -> Int]
        /\ \A t \in Threads : joined'[t] =
             IF t[1] \in Receivers /\ t[2] = mThread[t[1]] /\ mHasStarted[t[1]]
               THEN joined[t] + 1 ELSE joined[t]
    BY <1>f, <2>1
  <2>4. /\ Pool' /\ joined' \in [Threads -> 0 .. 1]
        /\ worker' \in [Threads -> {"none", "test", "read", "callback", "exited"}]
        /\ mThread' \in [Kinds -> 0 .. MaxThreads]
        /\ mThreadRun' \in [Kinds -> BOOLEAN] /\ mHasStarted' \in [Kinds -> BOOLEAN]
    BY <2>1, <2>2, <2>3, Created
  <2> QED  BY <1>f, <2>1, <2>4 DEF WorkersTypeOK
<1>8. CASE LogOutClears \/ \E why \in {"logout", "deinit"} : LogOut(why)
  <2>1. /\ UNCHANGED <<mHasStarted, mThread, worker, joined, cmd>>
        /\ StopReceiver("cmd") \/ StopReceiver("av")
    BY <1>8 DEF LogOut, LogOutClears, LogoutUnchanged
  <2>2. mThreadRun' \in [Kinds -> BOOLEAN]
    BY <2>1, ReceiverStopped
  <2> QED  BY <1>0, <2>1, <2>2 DEF WorkersTypeOK, Pool, Alive
<1>9. CASE LogOutJoinsCmd \/ LogOutEnds
  <2>1. /\ JoinReceiver("cmd") \/ JoinReceiver("av")
        /\ UNCHANGED <<mThread, worker, mThreadRun, cmd>>
    BY <1>9 DEF LogOutJoinsCmd, LogOutEnds, LogoutUnchanged
  <2>2. /\ Pool' /\ joined' \in [Threads -> 0 .. 1]
        /\ mHasStarted' \in [Kinds -> BOOLEAN]
    BY <2>1, ReceiverJoined
  <2> QED  BY <1>0, <2>1, <2>2 DEF WorkersTypeOK
<1> QED  BY <1>1, <1>2, <1>3, <1>4, <1>5, <1>6, <1>7, <1>8, <1>9, WorkersKept
            DEF WorkerStep

LEMMA StepJoining ==
  ASSUME Typed, [Next]_vars
  PROVE  Joining' /\ gcNext' \in 1 .. Len(JoinOrder) + 1
<1>0. /\ Joining /\ Locks /\ gcNext \in 1 .. 5
      /\ mHasStarted \in [Kinds -> BOOLEAN] /\ cmd \in Commands
  BY JoinOrderIs DEF Typed, TypeOK, WorkersTypeOK
<1> SUFFICES Joining' /\ gcNext' \in 1 .. 5
  BY JoinOrderIs
<1>1. ASSUME NEW c \in Commands, SendCommand(c), UNCHANGED gcNext
      PROVE  Joining' /\ gcNext' \in 1 .. 5
  BY <1>0, <1>1 DEF SendCommand, MustJoin, Callable, Joining
<1>2. CASE CommandJoins /\ UNCHANGED gcNext
  BY <1>0, <1>2 DEF CommandJoins, Locks, Joining
<1>3. CASE GcStops
  BY <1>0, <1>3, JoinOrderIs DEF GcStops, GcUnchanged, MustJoin, MoreToJoin, Locks, Joining
<1>4. CASE GcJoins
  BY <1>0, <1>4 DEF GcJoins, GcUnchanged, Locks, Joining
<1>5. CASE Collect \/ GcCloses \/ GcDeletes
  BY <1>0, <1>5 DEF Collect, GcCloses, GcDeletes, GcUnchanged, Locks, Joining
<1>6. CASE \/ LogOutJoinsCmd \/ LogOutJoinsSender \/ LogOutClears \/ LogOutEnds
           \/ \E why \in {"logout", "deinit"} : LogOut(why)
  BY <1>0, <1>6 DEF LogOutJoinsCmd, LogOutJoinsSender, LogOutClears, LogOutEnds, LogOut,
     LogoutUnchanged, Locks, Joining
<1>7. ASSUME UNCHANGED <<workerVars, gcNext, sSessionMutex, td>>
      PROVE  Joining' /\ gcNext' \in 1 .. 5
  BY <1>0, <1>7 DEF workerVars, Joining
<1>8. ASSUME UNCHANGED <<mHasStarted, cmd, gcNext, sSessionMutex, td>>
      PROVE  Joining' /\ gcNext' \in 1 .. 5
  BY <1>0, <1>8 DEF Joining
<1>9. CASE LinkBreaks /\ UNCHANGED <<workerVars, talkVars, gcNext>>
  BY <1>7, <1>9 DEF LinkBreaks
<1>14. CASE StartReceivers /\ UNCHANGED <<talkVars, gcNext>>
  <2>1. /\ \A k \in Kinds : mHasStarted[k] => mHasStarted'[k]
        /\ UNCHANGED <<sSessionMutex, td, cmd, gcNext>> /\ td = "none"
    BY <1>0, <1>14 DEF StartReceivers, Connected, Create
  <2>2. cmd.kind \in Kinds
    BY <1>0, KindsAre DEF Commands
  <2> QED  BY <1>0, <2>1, <2>2 DEF Joining
<1>10. ASSUME NEW t \in Threads, Worker(t), UNCHANGED gcNext
       PROVE  Joining' /\ gcNext' \in 1 .. 5
  BY <1>8, <1>10 DEF Worker, WorkerTests, WorkerIdles, WorkerReads, CallbackReturns,
     WorkerFails, WorkerUnchanged
<1>11. ASSUME NEW p \in Packets, SendTalkData(p), UNCHANGED <<workerVars, gcNext>>
       PROVE  Joining' /\ gcNext' \in 1 .. 5
  BY <1>7, <1>11 DEF SendTalkData, clientVars
<1>12. CASE AudioSend /\ UNCHANGED <<workerVars, gcNext>>
  BY <1>7, <1>12 DEF AudioSend, SenderPops, SenderWrites, SenderEndsLoop, SenderFails,
     SenderStops, SenderDone, SenderUnchanged
<1>13. CASE UNCHANGED vars
  BY <1>7, <1>13 DEF vars, clientVars
<1> QED  BY <1>1, <1>2, <1>3, <1>4, <1>5, <1>6, <1>9, <1>10, <1>11, <1>12, <1>13,
            <1>14 DEF Next, Teardown, Command

LEMMA StepFresh ==
  ASSUME Typed, [Next]_vars
  PROVE  Fresh'
<1>0. Fresh /\ mHasStarted \in [Kinds -> BOOLEAN] /\ cmd \in Commands
  BY DEF Typed, TypeOK, WorkersTypeOK
<1>1. ASSUME td' = "none" /\ ~mSockHandle' => td = "none" /\ ~mSockHandle,
             \A k \in Receivers : mHasStarted'[k] => mHasStarted[k]
      PROVE  Fresh'
  BY <1>0, <1>1 DEF Fresh
<1>2. ASSUME NEW k \in OnCommand, Create({k})
      PROVE  \A j \in Receivers : mHasStarted'[j] => mHasStarted[j]
  BY <1>0, <1>2, KindsAre DEF Create
<1>3. ASSUME NEW c \in Commands, SendCommand(c)
      PROVE  Fresh'
  <2>1. c.kind \in OnCommand /\ UNCHANGED <<td, mSockHandle>>
        /\ (UNCHANGED mHasStarted \/ Create({c.kind}))
    BY <1>3 DEF SendCommand, Commands
  <2> QED  BY <1>1, <1>2, <2>1
<1>4. CASE CommandJoins
  <2>1. cmd.kind \in OnCommand /\ UNCHANGED <<td, mSockHandle>>
        /\ (ForgetThread(cmd.kind) \/ Create({cmd.kind}))
    BY <1>0, <1>4 DEF CommandJoins, Commands
  <2>2. ForgetThread(cmd.kind) => \A j \in Receivers : mHasStarted'[j] => mHasStarted[j]
    BY <1>0, KindsAre DEF ForgetThread
  <2> QED  BY <1>1, <1>2, <2>1, <2>2
<1>5. CASE \/ StartReceivers \/ LogOutJoinsCmd \/ LogOutJoinsSender \/ LogOutClears
           \/ LogOutEnds \/ \E why \in {"logout", "deinit"} : LogOut(why)
  BY <1>5 DEF StartReceivers, Connected, LogOutJoinsCmd, LogOutJoinsSender,
     LogOutClears, LogOutEnds, LogOut, Fresh
<1>6. CASE Collect \/ GcStops \/ GcJoins \/ GcCloses \/ GcDeletes
  BY <1>6 DEF Collect, GcStops, GcJoins, GcCloses, GcDeletes, Fresh
<1>7. CASE LinkBreaks /\ UNCHANGED workerVars
  BY <1>1, <1>7 DEF LinkBreaks, workerVars
<1>8. CASE \E t \in Threads : Worker(t)
  BY <1>1, <1>8 DEF Worker, WorkerTests, WorkerIdles, WorkerReads, CallbackReturns,
     WorkerFails, WorkerUnchanged
<1>9. CASE \E p \in Packets : SendTalkData(p) /\ UNCHANGED workerVars
  BY <1>1, <1>9 DEF SendTalkData, clientVars, workerVars
<1>10. CASE AudioSend /\ UNCHANGED workerVars
  BY <1>1, <1>10 DEF AudioSend, SenderPops, SenderWrites, SenderEndsLoop, SenderFails,
     SenderStops, SenderDone, SenderUnchanged, workerVars
<1>11. CASE UNCHANGED vars
  BY <1>1, <1>11 DEF vars, clientVars, workerVars
<1> QED  BY <1>3, <1>4, <1>5, <1>6, <1>7, <1>8, <1>9, <1>10, <1>11
            DEF Next, Teardown, Command

LEMMA StepTyped == Typed /\ [Next]_vars => Typed'
BY StepClient, StepTalk, StepWorkers, StepJoining, StepFresh DEF Typed, TypeOK

\* Every variable keeps its type; in particular no thread is joined twice.
THEOREM TypeCorrect == Spec => []TypeOK
<1>1. Typed => TypeOK
  BY DEF Typed
<1> QED  BY <1>1, InitTyped, StepTyped, PTL DEF Spec

\* Of each kind one thread at most is alive, and so each channel has one reader.
THEOREM OneReader == Spec => []OneReaderPerChannel
<1>1. Typed => OneReaderPerChannel
  BY DEF Typed, Pool, OneReaderPerChannel
<1> QED  BY <1>1, InitTyped, StepTyped, PTL DEF Spec

----------------------------------------------------------------------------
(* The teardown                                                            *)

\* What the garbage collection or logOut has joined stays joined, and
\* audioSendThread has ended where a teardown has passed its join.
Torn ==
  /\ td \in {"gcJoins", "gcWaits"} => \A j \in 1 .. 4 :
       j < gcNext /\ JoinOrder[j] \in Kinds => ~mHasStarted[JoinOrder[j]]
  /\ td \in {"gcSender", "collected"} => \A k \in Kinds \ {"pir"} : ~mHasStarted[k]
  /\ td \in {"loSender", "loClear", "loAv"} /\ "cmd" \in Kinds => ~mHasStarted["cmd"]
  /\ td \in {"loggedOut", "deleted"} => \A k \in Receivers : ~mHasStarted[k]
  /\ td \notin {"gcJoins", "gcWaits", "gcSender", "collected"} => gcNext = 1
  /\ td \in {"loClear", "loAv", "loggedOut", "deleted", "collected"} => ap = "exited"
  /\ ~mHasTalkDataSendThreadStarted => ap = "exited"

LEMMA InitTorn == Init => Torn
BY DEF Init, ClientInit, TalkInit, Torn

LEMMA StepTorn == Typed /\ Torn /\ [Next]_vars => Torn'
<1> SUFFICES ASSUME Typed, Torn, [Next]_vars PROVE Torn'
  OBVIOUS
<1>0. /\ Joining /\ Locks /\ gcNext \in 1 .. 5
      /\ Kinds \subseteq {"cmd", "av", "playback", "file", "pir"}
      /\ mHasStarted \in [Kinds -> BOOLEAN]
      /\ td # "none" => sSessionMutex # "command"
  BY JoinOrderIs, KindsAre DEF Typed, TypeOK, WorkersTypeOK, Locks
<1>1. ASSUME NEW c \in Commands, SendCommand(c), UNCHANGED <<talkVars, gcNext>>
      PROVE  Torn'
  BY <1>1 DEF SendCommand, talkVars, Torn
<1>2. CASE CommandJoins /\ UNCHANGED <<talkVars, gcNext>>
  BY <1>0, <1>2 DEF CommandJoins, talkVars, Torn
<1>3. CASE GcStops
  <2>1. /\ td = "gcJoins" /\ td' \in {"gcJoins", "gcWaits"}
        /\ UNCHANGED <<mHasStarted, ap, mHasTalkDataSendThreadStarted>>
    BY <1>3 DEF GcStops, GcUnchanged
  <2>2. \/ gcNext' = gcNext
        \/ /\ gcNext' = gcNext + 1
           /\ JoinOrder[gcNext] \in Kinds => ~mHasStarted[JoinOrder[gcNext]]
    BY <1>3 DEF GcStops, MustJoin
  <2>3. \A j \in 1 .. 4 : j < gcNext' /\ JoinOrder[j] \in Kinds
                            => ~mHasStarted[JoinOrder[j]]
    <3> SUFFICES ASSUME NEW j \in 1 .. 4, j < gcNext', JoinOrder[j] \in Kinds
                 PROVE  ~mHasStarted[JoinOrder[j]]
      OBVIOUS
    <3>1. CASE j < gcNext
      BY <2>1, <3>1 DEF Torn
    <3>2. CASE ~(j < gcNext)
      <4>1. j = gcNext
        BY <1>0, <2>2, <3>2
      <4> QED  BY <2>2, <4>1
    <3> QED  BY <3>1, <3>2
  <2>4. ~mHasTalkDataSendThreadStarted' => ap' = "exited"
    BY <2>1 DEF Torn
  <2> QED  BY <2>1, <2>3, <2>4 DEF Torn
<1>4. CASE GcJoins
  <2>1. /\ td = "gcWaits" /\ td' = "gcJoins"
        /\ UNCHANGED <<ap, mHasTalkDataSendThreadStarted>>
        /\ gcNext' = gcNext + 1
        /\ mHasStarted' = [mHasStarted EXCEPT ![JoinOrder[gcNext]] = FALSE]
    BY <1>4 DEF GcJoins, GcUnchanged, ForgetThread
  <2>2. \A k \in Kinds : mHasStarted'[k] => mHasStarted[k] /\ k # JoinOrder[gcNext]
    BY <1>0, <2>1
  <2>3. \A j \in 1 .. 4 : j < gcNext' /\ JoinOrder[j] \in Kinds
                            => ~mHasStarted'[JoinOrder[j]]
    <3> SUFFICES ASSUME NEW j \in 1 .. 4, j < gcNext', JoinOrder[j] \in Kinds
                 PROVE  ~mHasStarted'[JoinOrder[j]]
      OBVIOUS
    <3>1. CASE j < gcNext
      BY <2>1, <2>2, <3>1 DEF Torn
    <3>2. CASE ~(j < gcNext)
      <4>1. j = gcNext
        BY <1>0, <2>1, <3>2
      <4> QED  BY <2>2, <4>1
    <3> QED  BY <3>1, <3>2
  <2>4. ~mHasTalkDataSendThreadStarted' => ap' = "exited"
    BY <2>1 DEF Torn
  <2> QED  BY <2>1, <2>3, <2>4, JoinOrderIs DEF Torn
<1>5. CASE Collect
  BY <1>0, <1>5 DEF Collect, Callable, GcUnchanged, Torn
<1>6. CASE GcCloses
  <2>1. gcNext = 5
    BY <1>0, <1>6, JoinOrderIs DEF GcCloses, MoreToJoin
  <2>2. \A k \in Kinds \ {"pir"} : ~mHasStarted[k]
    BY <1>0, <1>6, <2>1, JoinOrderIs DEF GcCloses, Torn
  <2> QED  BY <1>6, <2>2 DEF GcCloses, GcUnchanged, Torn
<1>7. CASE GcDeletes
  BY <1>7 DEF GcDeletes, SenderGone, GcUnchanged, Torn
<1>8. CASE LogOutJoinsSender \/ LogOutClears \/ \E why \in {"logout", "deinit"} : LogOut(why)
  BY <1>8 DEF LogOutJoinsSender, LogOutClears, LogOut, LogoutUnchanged, SenderJoined,
     SenderGone, Torn
<1>15. CASE LogOutJoinsCmd
  <2>1. /\ td = "loCmd" /\ td' = "loSender"
        /\ JoinReceiver("cmd") /\ UNCHANGED <<mThread, worker>>
        /\ UNCHANGED <<ap, gcNext, mHasTalkDataSendThreadStarted>>
    BY <1>15 DEF LogOutJoinsCmd, LogoutUnchanged
  <2>2. "cmd" \in Kinds => ~mHasStarted'["cmd"]
    BY <2>1, ReceiverJoined
  <2> QED  BY <2>1, <2>2 DEF Torn
<1>16. CASE LogOutEnds
  <2>1. /\ td = "loAv" /\ td' \in {"loggedOut", "deleted"}
        /\ JoinReceiver("av") /\ UNCHANGED <<mThread, worker>>
        /\ UNCHANGED <<ap, gcNext, mHasTalkDataSendThreadStarted>>
    BY <1>16 DEF LogOutEnds, LogoutUnchanged
  <2>2. \A k \in Kinds : mHasStarted'[k] => mHasStarted[k] /\ k # "av"
    BY <2>1, ReceiverJoined
  <2>3. \A k \in Receivers : ~mHasStarted'[k]
    BY <2>1, <2>2, KindsAre DEF Torn
  <2> QED  BY <2>1, <2>3 DEF Torn
<1>9. ASSUME UNCHANGED <<mHasStarted, gcNext, td, mHasTalkDataSendThreadStarted>>,
             ap = "exited" => ap' = "exited"
      PROVE  Torn'
  BY <1>9 DEF Torn
<1>10. CASE LinkBreaks /\ UNCHANGED <<workerVars, talkVars, gcNext>>
  BY <1>9, <1>10 DEF LinkBreaks, workerVars, talkVars
<1>17. CASE StartReceivers /\ UNCHANGED <<talkVars, gcNext>>
  BY <1>17 DEF StartReceivers, Connected, talkVars, Torn
<1>11. ASSUME NEW t \in Threads, Worker(t), UNCHANGED <<talkVars, gcNext>>
       PROVE  Torn'
  BY <1>9, <1>11 DEF Worker, WorkerTests, WorkerIdles, WorkerReads, CallbackReturns,
     WorkerFails, WorkerUnchanged, talkVars
<1>12. ASSUME NEW p \in Packets, SendTalkData(p), UNCHANGED <<workerVars, gcNext>>
       PROVE  Torn'
  BY <1>9, <1>12 DEF SendTalkData, clientVars, workerVars
<1>13. CASE AudioSend /\ UNCHANGED <<workerVars, gcNext>>
  BY <1>9, <1>13 DEF AudioSend, SenderPops, SenderWrites, SenderEndsLoop, SenderFails,
     SenderStops, SenderDone, SenderUnchanged, InLoop, CanWrite, workerVars
<1>14. CASE UNCHANGED vars
  BY <1>9, <1>14 DEF vars, clientVars, workerVars, talkVars
<1> QED  BY <1>1, <1>2, <1>3, <1>4, <1>5, <1>6, <1>7, <1>8, <1>10, <1>11, <1>12, <1>13,
            <1>14, <1>15, <1>16, <1>17 DEF Next, Teardown, Command

\* When a client is collected all its receiving threads but the PIR thread have
\* ended, when logOut is done cmdRecvThread and avRecvThread have, and whoever
\* deletes the client has waited for audioSendThread.
THEOREM WorkersEnd == Spec => []NoWorkerOutlivesCollection
<1>1. Typed /\ Torn => NoWorkerOutlivesCollection
  <2> SUFFICES ASSUME Typed, Torn
               PROVE  NoWorkerOutlivesCollection
    OBVIOUS
  <2>1. ASSUME NEW t \in Threads, Alive(t)
        PROVE  t[1] \in Kinds /\ mHasStarted[t[1]]
    <3>1. PICK k \in Kinds, i \in 1 .. MaxThreads : t = <<k, i>>
      BY DEF Threads
    <3> QED  BY <2>1, <3>1 DEF Typed, Pool
  <2>2. ASSUME NEW t \in Threads, Alive(t), td = "collected"
        PROVE  t[1] = "pir"
    BY <2>1, <2>2 DEF Torn
  <2>3. ASSUME NEW t \in Threads, Alive(t), td \in {"loggedOut", "deleted"}
        PROVE  t[1] \in OnCommand
    BY <2>1, <2>3, KindsAre DEF Torn
  <2>4. td \in {"collected", "deleted"} => ap = "exited"
    BY DEF Torn
  <2> QED  BY <2>2, <2>3, <2>4 DEF NoWorkerOutlivesCollection
<1>2. Init => Typed /\ Torn
  BY InitTyped, InitTorn
<1>3. Typed /\ Torn /\ [Next]_vars => (Typed /\ Torn)'
  BY StepTyped, StepTorn
<1> QED  BY <1>1, <1>2, <1>3, PTL DEF Spec

----------------------------------------------------------------------------
(* Who waits for whom                                                      *)

Holder  == <<"holder", 0>>   \* the thread that holds sSessionMutex
Audio   == <<"audio", 0>>    \* audioSendThread
Parties == Threads \cup {Holder, Audio}

\* t has come to a join or to sSessionMutex, or to a loop that it does not
\* leave, and cannot get past it before u does something.
Awaits(t, u) ==
  \/ /\ t = Holder
     /\ \E k \in Kinds : JoinsKind(k) /\ ~Ended(k) /\ u = <<k, mThread[k]>>
  \/ /\ t = Holder /\ u = Audio
     /\ td \in {"loSender", "gcSender"} /\ ~SenderGone
  \/ /\ t \in Threads /\ u = Holder /\ sSessionMutex # "free"
     /\ worker[t] = "callback" \/ (Alive(t) /\ mThreadRun[t[1]])
  \/ /\ t = Audio /\ u = Holder
     /\ ap # "exited" /\ mTalkDataSendThreadRun

\* While sSessionMutex is held, its holder or the thread that it waits for
\* waits for nobody, but for a callback that waits for sSessionMutex.
HolderGoesOn ==
  sSessionMutex # "free" /\ ~CallbackDeadlock =>
    \E t \in Parties : /\ t = Holder \/ Awaits(Holder, t)
                       /\ \A u \in Parties : ~Awaits(t, u)

\* A thread has been told to stop before it is joined.
WorkerTold == \A k \in Kinds : JoinsKind(k) /\ mHasStarted[k] => ~mThreadRun[k]
AudioTold  == td \in {"loSender", "gcSender"} /\ mHasTalkDataSendThreadStarted =>
                ~mTalkDataSendThreadRun

LEMMA StepWorkerTold ==
  ASSUME Typed, WorkerTold, [Next]_vars
  PROVE  WorkerTold'
<1>0. /\ Locks /\ Joining /\ mThreadRun \in [Kinds -> BOOLEAN]
      /\ cmd \in Commands
  BY DEF Typed, TypeOK, WorkersTypeOK
<1>1. ASSUME NEW c \in Commands, SendCommand(c), UNCHANGED gcNext
      PROVE  WorkerTold'
  <2>1. td' = "none" /\ c.kind \in Kinds
    BY <1>1, KindsAre DEF SendCommand, Commands
  <2>2. sSessionMutex' = "command" => cmd' = c /\ StopThread(c.kind)
    BY <1>1 DEF SendCommand, Callable
  <2> QED  BY <1>0, <2>1, <2>2 DEF WorkerTold, JoinsKind, StopThread
<1>2. CASE CommandJoins /\ UNCHANGED gcNext
  BY <1>0, <1>2 DEF CommandJoins, Locks, WorkerTold, JoinsKind
<1>3. CASE GcStops
  <2>1. /\ td = "gcJoins" /\ td' \in {"gcJoins", "gcWaits"}
        /\ sSessionMutex' = "gc" /\ UNCHANGED mHasStarted
    BY <1>0, <1>3 DEF GcStops, Locks
  <2>2. td' = "gcWaits" => gcNext' = gcNext /\ StopThread(JoinOrder[gcNext])
    BY <1>3, <2>1 DEF GcStops
  <2>3. ASSUME NEW k \in Kinds, JoinsKind(k)'
        PROVE  ~mThreadRun'[k]
    <3>1. td' = "gcWaits" /\ k = JoinOrder[gcNext]
      BY <2>1, <2>2, <2>3 DEF JoinsKind
    <3> QED  BY <1>0, <2>2, <3>1 DEF StopThread
  <2> QED  BY <2>3 DEF WorkerTold
<1>4. CASE Collect \/ GcJoins \/ GcCloses \/ GcDeletes
  BY <1>0, <1>4 DEF Collect, GcJoins, GcCloses, GcDeletes, Locks, WorkerTold, JoinsKind
<1>5. CASE LogOutJoinsCmd \/ LogOutJoinsSender \/ LogOutEnds
  BY <1>0, <1>5 DEF LogOutJoinsCmd, LogOutJoinsSender, LogOutEnds, Locks, WorkerTold,
     JoinsKind
<1>12. CASE LogOutClears
  <2>1. /\ td = "loClear" /\ td' = "loAv" /\ StopReceiver("av")
        /\ UNCHANGED <<mHasStarted, sSessionMutex>>
    BY <1>12 DEF LogOutClears
  <2>2. "av" \in Kinds /\ mHasStarted["av"] => ~mThreadRun'["av"]
    BY <2>1, ReceiverStopped
  <2>3. sSessionMutex # "command"
    BY <1>0, <2>1 DEF Locks
  <2> QED  BY <2>1, <2>2, <2>3 DEF WorkerTold, JoinsKind
<1>13. ASSUME NEW why \in {"logout", "deinit"}, LogOut(why)
       PROVE  WorkerTold'
  <2>1. /\ td' = "loCmd" /\ sSessionMutex' = why /\ StopReceiver("cmd")
        /\ UNCHANGED mHasStarted
    BY <1>13 DEF LogOut
  <2>2. "cmd" \in Kinds /\ mHasStarted["cmd"] => ~mThreadRun'["cmd"]
    BY <2>1, ReceiverStopped
  <2> QED  BY <2>1, <2>2 DEF WorkerTold, JoinsKind
<1>6. ASSUME UNCHANGED <<mHasStarted, mThreadRun, cmd, gcNext, sSessionMutex, td>>
      PROVE  WorkerTold'
  BY <1>6 DEF WorkerTold, JoinsKind
<1>7. CASE LinkBreaks /\ UNCHANGED <<workerVars, talkVars, gcNext>>
  BY <1>6, <1>7 DEF LinkBreaks, workerVars
<1>14. CASE StartReceivers /\ UNCHANGED <<talkVars, gcNext>>
  <2>1. /\ td = "none" /\ UNCHANGED <<td, sSessionMutex, cmd>>
        /\ cmd.kind \in OnCommand
    BY <1>0, <1>14 DEF StartReceivers, Connected, Commands
  <2>2. \A k \in OnCommand : mThreadRun'[k] = mThreadRun[k]
                            /\ (mHasStarted'[k] <=> mHasStarted[k])
    BY <1>0, <1>14, KindsAre DEF StartReceivers, Create, Typed, TypeOK, WorkersTypeOK
  <2> QED  BY <2>1, <2>2, KindsAre DEF WorkerTold, JoinsKind
<1>8. ASSUME NEW t \in Threads, Worker(t), UNCHANGED gcNext
      PROVE  WorkerTold'
  BY <1>6, <1>8 DEF Worker, WorkerTests, WorkerIdles, WorkerReads, CallbackReturns,
     WorkerFails, WorkerUnchanged
<1>9. ASSUME NEW p \in Packets, SendTalkData(p), UNCHANGED <<workerVars, gcNext>>
      PROVE  WorkerTold'
  BY <1>6, <1>9 DEF SendTalkData, clientVars, workerVars
<1>10. CASE AudioSend /\ UNCHANGED <<workerVars, gcNext>>
  BY <1>6, <1>10 DEF AudioSend, SenderPops, SenderWrites, SenderEndsLoop, SenderFails,
     SenderStops, SenderDone, SenderUnchanged, workerVars
<1>11. CASE UNCHANGED vars
  BY <1>6, <1>11 DEF vars, clientVars, workerVars
<1> QED  BY <1>1, <1>2, <1>3, <1>4, <1>5, <1>7, <1>8, <1>9, <1>10, <1>11,
            <1>12, <1>13, <1>14 DEF Next, Teardown, Command

LEMMA StepAudioTold ==
  ASSUME AudioTold, [Next]_vars
  PROVE  AudioTold'
<1>1. ASSUME UNCHANGED <<td, mTalkDataSendThreadRun, mHasTalkDataSendThreadStarted>>
      PROVE  AudioTold'
  BY <1>1 DEF AudioTold
<1>2. CASE (StartReceivers \/ LinkBreaks) /\ UNCHANGED <<talkVars, gcNext>>
  BY <1>1, <1>2 DEF StartReceivers, Connected, LinkBreaks, talkVars
<1>3. CASE Command /\ UNCHANGED <<talkVars, gcNext>>
  BY <1>1, <1>3 DEF Command, SendCommand, talkVars
<1>4. CASE CommandJoins /\ UNCHANGED <<talkVars, gcNext>>
  BY <1>1, <1>4 DEF CommandJoins, talkVars
<1>5. ASSUME NEW t \in Threads, Worker(t), UNCHANGED <<talkVars, gcNext>>
      PROVE  AudioTold'
  BY <1>1, <1>5 DEF Worker, WorkerTests, WorkerIdles, WorkerReads, CallbackReturns,
     WorkerFails, WorkerUnchanged, talkVars
<1>6. ASSUME NEW p \in Packets, SendTalkData(p)
      PROVE  AudioTold'
  BY <1>1, <1>6 DEF SendTalkData, clientVars
<1>7. CASE AudioSend
  BY <1>1, <1>7 DEF AudioSend, SenderPops, SenderWrites, SenderEndsLoop, SenderFails,
     SenderStops, SenderDone, SenderUnchanged
<1>8. CASE \E why \in {"logout", "deinit"} : LogOut(why)
  BY <1>8 DEF LogOut, AudioTold
<1>9. CASE \/ LogOutJoinsSender \/ LogOutClears \/ LogOutEnds
           \/ Collect \/ GcStops \/ GcJoins \/ GcDeletes
  BY <1>9 DEF LogOutJoinsSender, LogOutClears, LogOutEnds, Collect, GcStops, GcJoins,
     GcDeletes, AudioTold
<1>10. CASE LogOutJoinsCmd \/ GcCloses
  BY <1>10 DEF LogOutJoinsCmd, GcCloses, StopSender, AudioTold
<1>11. CASE UNCHANGED vars
  BY <1>1, <1>11 DEF vars, clientVars, talkVars
<1> QED  BY <1>2, <1>3, <1>4, <1>5, <1>6, <1>7, <1>8, <1>9, <1>10, <1>11
            DEF Next, Teardown

\* The parties are told apart.
LEMMA PartiesDiffer ==
  Holder # Audio /\ Holder \notin Threads /\ Audio \notin Threads
BY WorkersAssumption DEF Holder, Audio, Threads

\* A callback that calls the SDK is the only way in which the holder of
\* sSessionMutex - a command, logOut or the collection - and the receiving
\* threads and audioSendThread that it joins can wait for each other.
THEOREM OnlyCallbacksBlock == Spec => []HolderGoesOn
<1>1. Init => Typed /\ WorkerTold /\ AudioTold
  BY InitTyped DEF Init, ClientInit, WorkerTold, AudioTold, JoinsKind
<1>2. Typed /\ WorkerTold /\ AudioTold => HolderGoesOn
  <2> SUFFICES ASSUME Typed, WorkerTold, AudioTold, sSessionMutex # "free",
                      ~CallbackDeadlock, NEW u \in Parties, Awaits(Holder, u)
               PROVE  \A v \in Parties : ~Awaits(u, v)
    BY DEF HolderGoesOn, Parties
  <2>1. CASE u = Audio
    <3>1. td \in {"loSender", "gcSender"} /\ mHasTalkDataSendThreadStarted
      <4>1. Holder # Audio /\ Holder \notin Threads
        BY PartiesDiffer
      <4>2. \A k \in Kinds : u # <<k, mThread[k]>>
        BY <2>1, KindsAre DEF Audio
      <4> QED  BY <2>1, <4>1, <4>2 DEF Awaits, SenderGone
    <3>2. ~mTalkDataSendThreadRun
      BY <3>1 DEF AudioTold
    <3> QED  BY <2>1, <3>2, PartiesDiffer DEF Awaits
  <2>2. ASSUME NEW k \in Kinds, JoinsKind(k), ~Ended(k), u = <<k, mThread[k]>>
        PROVE  \A v \in Parties : ~Awaits(u, v)
    <3>1. mThread[k] \in 1 .. MaxThreads
      BY <2>2 DEF Typed, TypeOK, WorkersTypeOK, Ended
    <3>2. u \in Threads /\ u[1] = k /\ u[2] = mThread[k]
      BY <2>2, <3>1 DEF Threads
    <3>3. ~mThreadRun[u[1]]
      <4>1. mHasStarted[k]
        BY <2>2, <3>1 DEF Typed, Pool, Ended
      <4> QED  BY <2>2, <3>2, <4>1 DEF WorkerTold
    <3>4. worker[u] # "callback"
      BY <2>2, <3>2 DEF CallbackDeadlock, JoinsKind
    <3> QED  BY <3>2, <3>3, <3>4, PartiesDiffer DEF Awaits
  <2> QED  BY <2>1, <2>2, PartiesDiffer DEF Awaits
<1> QED  BY <1>1, <1>2, StepTyped, StepWorkerTold, StepAudioTold, PTL DEF Spec

----------------------------------------------------------------------------
(* The packets                                                             *)

\* The queue holds the queued packets, each of them once, and audioSendThread
\* the one that is being sent.  Once logOut has disabled the queue no packet is
\* added, and logOut leaves it empty.
Owned ==
  /\ \A i \in 1 .. Len(mTalkDataQueue) : packet[mTalkDataQueue[i]] = "queued"
  /\ \A p \in Packets : packet[p] = "queued" =>
       \E i \in 1 .. Len(mTalkDataQueue) : mTalkDataQueue[i] = p
  /\ \A i, j \in 1 .. Len(mTalkDataQueue) :
       mTalkDataQueue[i] = mTalkDataQueue[j] => i = j
  /\ ap = "write" => packet[pData] = "sending"
  /\ \A p \in Packets : packet[p] = "sending" => ap = "write" /\ pData = p
  /\ td \in {"loClear", "loAv", "loggedOut"} => ~mTalkDataQueueEnable
  /\ td \in {"loAv", "loggedOut"} => mTalkDataQueue = << >>

LEMMA Places ==
  ASSUME Typed
  PROVE  /\ mTalkDataQueue \in Seq(Packets) /\ Len(mTalkDataQueue) \in Nat
         /\ \A i \in 1 .. Len(mTalkDataQueue) : mTalkDataQueue[i] \in Packets
         /\ packet \in [Packets -> {"unbuilt", "queued", "sending", "deleted", "refused"}]
<1>1. /\ mTalkDataQueue \in Seq(Packets)
      /\ packet \in [Packets -> {"unbuilt", "queued", "sending", "deleted", "refused"}]
  BY DEF Typed, TypeOK, TalkTypeOK
<1> QED  BY <1>1, LenProperties, ElementOfSeq

LEMMA InitOwned == Init => Owned
BY EmptySeq DEF Init, ClientInit, TalkInit, Owned

\* A step that leaves queue, packets and sender alone.
LEMMA OwnedKept ==
  ASSUME Owned, UNCHANGED <<mTalkDataQueue, packet>>,
         ap = "write" <=> ap' = "write", ap = "write" => pData' = pData,
         td' \in {"loClear", "loAv", "loggedOut"} => ~mTalkDataQueueEnable',
         td' \in {"loAv", "loggedOut"} => mTalkDataQueue = << >>
  PROVE  Owned'
BY DEF Owned

\* EC_SendTalkData queues a new block behind the others, or refuses it.
LEMMA OwnedAdd ==
  ASSUME Typed, Owned, NEW p \in Packets, SendTalkData(p)
  PROVE  Owned'
<1>0. packet[p] = "unbuilt" /\ UNCHANGED <<td, ap, pData, mTalkDataQueueEnable>>
  BY DEF SendTalkData, clientVars
<1>1. CASE mTalkDataQueueEnable /\ Len(mTalkDataQueue) < MAX_TALK_DATA_QUEUE_SIZE
  <2>1. /\ mTalkDataQueue' = Append(mTalkDataQueue, p)
        /\ packet' = [packet EXCEPT ![p] = "queued"]
    BY <1>1 DEF SendTalkData, PushBack
  <2>2. /\ Len(mTalkDataQueue') = Len(mTalkDataQueue) + 1
        /\ mTalkDataQueue'[Len(mTalkDataQueue) + 1] = p
        /\ \A i \in 1 .. Len(mTalkDataQueue) : mTalkDataQueue'[i] = mTalkDataQueue[i]
    BY ONLY <2>1, Places, Typed, p \in Packets, AppendProperties
  <2>3. \A o \in Packets : packet'[o] = IF o = p THEN "queued" ELSE packet[o]
    BY <2>1, Places
  <2>4. \A i \in 1 .. Len(mTalkDataQueue) : mTalkDataQueue[i] # p
    BY <1>0 DEF Owned
  <2>5. \A i \in 1 .. Len(mTalkDataQueue') :
          i \in 1 .. Len(mTalkDataQueue) \/ i = Len(mTalkDataQueue) + 1
    BY <2>2, Places
  <2>6. \A i \in 1 .. Len(mTalkDataQueue') : packet'[mTalkDataQueue'[i]] = "queued"
    BY <2>2, <2>3, <2>5, Places DEF Owned
  <2>7. \A o \in Packets : packet'[o] = "queued" =>
          \E i \in 1 .. Len(mTalkDataQueue') : mTalkDataQueue'[i] = o
    <3> SUFFICES ASSUME NEW o \in Packets, packet'[o] = "queued"
                 PROVE  \E i \in 1 .. Len(mTalkDataQueue') : mTalkDataQueue'[i] = o
      OBVIOUS
    <3>1. CASE o = p
      <4>1. Len(mTalkDataQueue) + 1 \in 1 .. Len(mTalkDataQueue')
        BY <2>2, Places
      <4> QED  BY <2>2, <3>1, <4>1
    <3>2. CASE o # p
      <4>1. PICK i \in 1 .. Len(mTalkDataQueue) : mTalkDataQueue[i] = o
        BY <2>3, <3>2 DEF Owned
      <4>2. i \in 1 .. Len(mTalkDataQueue') /\ mTalkDataQueue'[i] = o
        BY <2>2, <4>1, Places
      <4> QED  BY <4>2
    <3> QED  BY <3>1, <3>2
  <2>8. \A i, j \in 1 .. Len(mTalkDataQueue') :
          mTalkDataQueue'[i] = mTalkDataQueue'[j] => i = j
    BY <2>2, <2>4, <2>5 DEF Owned
  <2>9. /\ ap' = "write" => packet'[pData'] = "sending"
        /\ \A o \in Packets : packet'[o] = "sending" => ap' = "write" /\ pData' = o
    BY <1>0, <2>3 DEF Owned, Typed, Writing
  <2>10. td' \in {"loClear", "loAv", "loggedOut"} => FALSE
    BY <1>0, <1>1 DEF Owned
  <2> QED  BY <2>6, <2>7, <2>8, <2>9, <2>10 DEF Owned
<1>2. CASE ~(mTalkDataQueueEnable /\ Len(mTalkDataQueue) < MAX_TALK_DATA_QUEUE_SIZE)
  <2>1. UNCHANGED mTalkDataQueue /\ packet' = [packet EXCEPT ![p] = "refused"]
    BY <1>2 DEF SendTalkData
  <2>2. \A o \in Packets : packet'[o] = IF o = p THEN "refused" ELSE packet[o]
    BY <2>1, Places
  <2> QED  BY <1>0, <2>1, <2>2, Places DEF Owned, Typed, Writing
<1> QED  BY <1>1, <1>2

\* audioSendThread takes the first packet.
LEMMA OwnedPop ==
  ASSUME Typed, Owned, SenderPops, td \notin {"loAv", "loggedOut"}
  PROVE  Owned'
<1> DEFINE q == mTalkDataQueue  n == Len(q)
<1>1. /\ ap = "idle" /\ ap' = "write" /\ pData' = Head(q) /\ q' = Tail(q)
      /\ packet' = [packet EXCEPT ![Head(q)] = "sending"] /\ q # << >>
      /\ UNCHANGED <<td, mTalkDataQueueEnable>>
  BY DEF SenderPops, SenderUnchanged
<1>2. /\ Head(q) = q[1] /\ Head(q) \in Packets /\ n \in Nat \ {0} /\ Len(q') = n - 1
      /\ \A i \in 1 .. n - 1 : q'[i] = q[i + 1]
  BY ONLY <1>1, Places, Typed, HeadTailProperties, EmptySeq
<1>3. \A o \in Packets : packet'[o] = IF o = q[1] THEN "sending" ELSE packet[o]
  BY <1>1, <1>2, Places
<1>4. \A i \in 1 .. n : /\ q[i] \in Packets /\ packet[q[i]] = "queued"
                        /\ \A j \in 1 .. n : q[i] = q[j] => i = j
  BY Places DEF Owned
<1> HIDE DEF q, n
<1>5. ASSUME NEW i \in 1 .. n - 1
      PROVE  /\ i + 1 \in 1 .. n /\ q'[i] = q[i + 1] /\ q[i + 1] # q[1]
             /\ packet'[q'[i]] = "queued"
  BY <1>2, <1>3, <1>4
<1>6. \A i, j \in 1 .. n - 1 : q'[i] = q'[j] => i = j
  BY <1>2, <1>4, <1>5
<1>7. ASSUME NEW o \in Packets, packet'[o] = "queued"
      PROVE  \E i \in 1 .. n - 1 : q'[i] = o
  <2>1. o # q[1] /\ packet[o] = "queued"
    BY <1>3, <1>7
  <2>2. PICK i \in 1 .. n : q[i] = o
    BY <2>1 DEF Owned, q, n
  <2>3. i - 1 \in 1 .. n - 1 /\ q'[i - 1] = o
    <3>1. i # 1
      BY <2>1, <2>2
    <3>2. i - 1 \in 1 .. n - 1
      BY <1>2, <3>1
    <3>3. (i - 1) + 1 = i
      BY <1>2
    <3> QED  BY <1>2, <2>2, <3>2, <3>3
  <2> QED  BY <2>3
<1>8. /\ packet'[pData'] = "sending"
      /\ \A o \in Packets : packet'[o] = "sending" => pData' = o
  BY <1>1, <1>2, <1>3 DEF Owned
<1>9. /\ \A i \in 1 .. Len(mTalkDataQueue') : packet'[mTalkDataQueue'[i]] = "queued"
      /\ \A p \in Packets : packet'[p] = "queued" =>
           \E i \in 1 .. Len(mTalkDataQueue') : mTalkDataQueue'[i] = p
      /\ \A i, j \in 1 .. Len(mTalkDataQueue') :
           mTalkDataQueue'[i] = mTalkDataQueue'[j] => i = j
  BY <1>2, <1>5, <1>6, <1>7 DEF q
<1>10. /\ td' \in {"loClear", "loAv", "loggedOut"} => ~mTalkDataQueueEnable'
       /\ td' \notin {"loAv", "loggedOut"}
  BY <1>1 DEF Owned
<1> QED  BY <1>1, <1>8, <1>9, <1>10 DEF Owned

\* The packet is deleted behind the write loop.
LEMMA OwnedDone ==
  ASSUME Typed, Owned, ap = "write", ap' # "write", SenderDone
  PROVE  Owned'
<1>1. /\ packet' = [packet EXCEPT ![pData] = "deleted"]
      /\ UNCHANGED <<mTalkDataQueue, mTalkDataQueueEnable, td>>
  BY DEF SenderDone, DeletePacket, SenderUnchanged
<1>2. pData \in Packets /\ packet[pData] = "sending"
  BY DEF Typed, Writing, Owned
<1>3. \A o \in Packets : packet'[o] = IF o = pData THEN "deleted" ELSE packet[o]
  BY <1>1, <1>2, Places
<1>4. \A i \in 1 .. Len(mTalkDataQueue) :
        mTalkDataQueue[i] \in Packets /\ mTalkDataQueue[i] # pData
  BY <1>2, Places DEF Owned
<1> QED  BY <1>1, <1>2, <1>3, <1>4 DEF Owned

\* clearTalkDataQueue deletes what is queued.
LEMMA OwnedClear ==
  ASSUME Typed, Torn, Owned, LogOutClears
  PROVE  Owned'
<1>1. /\ mTalkDataQueue' = << >> /\ UNCHANGED <<mTalkDataQueueEnable, ap, pData>>
      /\ packet' = [p \in Packets |->
           IF \E i \in DOMAIN mTalkDataQueue : mTalkDataQueue[i] = p
             THEN "deleted" ELSE packet[p]]
      /\ td = "loClear"
  BY DEF LogOutClears, LogoutUnchanged, ClearTalkDataQueue, EmptyQueue
<1>2. ap = "exited" /\ ~mTalkDataQueueEnable
  BY <1>1 DEF Torn, Owned
<1>3. DOMAIN mTalkDataQueue = 1 .. Len(mTalkDataQueue)
  BY Places, LenProperties
<1>4. \A p \in Packets : packet'[p] # "queued" /\ packet'[p] # "sending"
  BY <1>1, <1>2, <1>3 DEF Owned
<1>5. Len(mTalkDataQueue') = 0
  BY <1>1, EmptySeq
<1> QED  BY <1>1, <1>2, <1>4, <1>5 DEF Owned

LEMMA StepOwned == Typed /\ Torn /\ Owned /\ [Next]_vars => Owned'
<1> SUFFICES ASSUME Typed, Torn, Owned, [Next]_vars PROVE Owned'
  OBVIOUS
<1>0. /\ td \in {"loClear", "loAv", "loggedOut"} =>
           ~mTalkDataQueueEnable /\ ap = "exited"
      /\ td \in {"loAv", "loggedOut"} => mTalkDataQueue = << >>
  BY DEF Owned, Torn
<1>1. ASSUME UNCHANGED talkVars,
             td' \in {"loClear", "loAv", "loggedOut"} => td' = td
      PROVE  Owned'
  BY <1>0, <1>1, OwnedKept DEF talkVars
<1>2. CASE (StartReceivers \/ LinkBreaks) /\ UNCHANGED <<talkVars, gcNext>>
  BY <1>1, <1>2 DEF StartReceivers, Connected, LinkBreaks
<1>3. CASE (Command \/ CommandJoins) /\ UNCHANGED <<talkVars, gcNext>>
  BY <1>1, <1>3 DEF Command, SendCommand, CommandJoins
<1>4. ASSUME NEW t \in Threads, Worker(t), UNCHANGED <<talkVars, gcNext>>
      PROVE  Owned'
  BY <1>1, <1>4 DEF Worker, WorkerTests, WorkerIdles, WorkerReads, CallbackReturns,
     WorkerFails, WorkerUnchanged
<1>5. ASSUME NEW p \in Packets, SendTalkData(p)
      PROVE  Owned'
  BY <1>5, OwnedAdd
<1>6. CASE SenderPops
  <2>1. td \notin {"loAv", "loggedOut"}
    BY <1>0, <1>6 DEF SenderPops
  <2> QED  BY <1>6, <2>1, OwnedPop
<1>7. CASE SenderEndsLoop \/ SenderFails
  BY <1>7, OwnedDone DEF SenderEndsLoop, SenderFails, InLoop
<1>8. CASE SenderStops \/ \E n \in 0 .. Size : SenderWrites(n)
  BY <1>0, <1>8, OwnedKept DEF SenderStops, SenderWrites, SenderUnchanged
<1>9. CASE \E why \in {"logout", "deinit"} : LogOut(why)
  BY <1>0, <1>9, OwnedKept DEF LogOut, LogoutUnchanged
<1>10. CASE LogOutJoinsCmd \/ LogOutJoinsSender \/ LogOutEnds
  BY <1>0, <1>10, OwnedKept DEF LogOutJoinsCmd, LogOutJoinsSender, LogOutEnds,
     LogoutUnchanged
<1>11. CASE LogOutClears
  BY <1>11, OwnedClear
<1>12. CASE Collect \/ GcStops \/ GcJoins \/ GcCloses \/ GcDeletes
  BY <1>0, <1>12, OwnedKept DEF Collect, GcStops, GcJoins, GcCloses, GcDeletes, GcUnchanged
<1>13. CASE UNCHANGED vars
  BY <1>1, <1>13 DEF vars, clientVars
<1> QED  BY <1>2, <1>3, <1>4, <1>5, <1>6, <1>7, <1>8, <1>9, <1>10, <1>11, <1>12, <1>13
            DEF Next, Teardown, AudioSend

\* Every packet the queue took on has one owner, and none once logOut is done.
THEOREM PacketsKept == Spec => []PacketsOwned
<1>1. Typed /\ Torn /\ Owned => PacketsOwned
  <2> SUFFICES ASSUME Typed, Torn, Owned PROVE PacketsOwned
    OBVIOUS
  <2>1. DOMAIN mTalkDataQueue = 1 .. Len(mTalkDataQueue)
    BY Places, LenProperties
  <2>2. ASSUME td = "loggedOut", NEW p \in Packets
        PROVE  packet[p] \in {"unbuilt", "deleted", "refused"}
    <3>1. ap = "exited" /\ Len(mTalkDataQueue) = 0
      BY <2>2, EmptySeq DEF Torn, Owned
    <3>2. packet[p] # "queued" /\ packet[p] # "sending"
      BY <3>1 DEF Owned
    <3> QED  BY <3>2, Places
  <2> QED  BY <2>1, <2>2 DEF PacketsOwned, Owned
<1>2. Init => Typed /\ Torn /\ Owned
  BY InitTyped, InitTorn, InitOwned
<1>3. Typed /\ Torn /\ Owned /\ [Next]_vars => (Typed /\ Torn /\ Owned)'
  BY StepTyped, StepTorn, StepOwned
<1> QED  BY <1>1, <1>2, <1>3, PTL DEF Spec

----------------------------------------------------------------------------
(* The order of the packets                                                *)

\* p is in the sequence s; p comes before o there, wherever they both are.
In(s, p)        == \E a \in 1 .. Len(s) : s[a] = p
Before(s, p, o) == \A a, b \in 1 .. Len(s) : s[a] = p /\ s[b] = o => a < b

LastDelivered == delivered[Len(delivered)]

\* Packets are queued, written and delivered as they were accepted: those in
\* the queue after the one being written, and these after the last delivered.
Order ==
  /\ \A a, b \in 1 .. Len(accepted) : a # b => accepted[a] # accepted[b]
  /\ \A a \in 1 .. Len(accepted) : packet[accepted[a]] \notin {"unbuilt", "refused"}
  /\ \A i \in 1 .. Len(mTalkDataQueue) : In(accepted, mTalkDataQueue[i])
  /\ \A i, j \in 1 .. Len(mTalkDataQueue) :
       i < j => Before(accepted, mTalkDataQueue[i], mTalkDataQueue[j])
  /\ ap = "write" =>
       /\ In(accepted, pData)
       /\ \A i \in 1 .. Len(mTalkDataQueue) : Before(accepted, pData, mTalkDataQueue[i])
  /\ delivered # << >> =>
       /\ In(accepted, LastDelivered)
       /\ \A i \in 1 .. Len(mTalkDataQueue) :
            Before(accepted, LastDelivered, mTalkDataQueue[i])
       /\ ap = "write" /\ written < Size => Before(accepted, LastDelivered, pData)

LEMMA Accepted ==
  ASSUME Typed
  PROVE  /\ accepted \in Seq(Packets) /\ Len(accepted) \in Nat
         /\ \A a \in 1 .. Len(accepted) : accepted[a] \in Packets
         /\ delivered \in Seq(Packets)
         /\ delivered # << >> => LastDelivered \in Packets
<1>1. accepted \in Seq(Packets) /\ delivered \in Seq(Packets)
  BY DEF Typed, TypeOK, TalkTypeOK
<1>2. delivered # << >> => Len(delivered) \in 1 .. Len(delivered)
  BY <1>1, EmptySeq
<1> QED  BY <1>1, <1>2, LenProperties, ElementOfSeq DEF LastDelivered

LEMMA InitOrder == Init => Order
<1> SUFFICES ASSUME Init PROVE Order
  OBVIOUS
<1>1. Len(accepted) = 0 /\ Len(mTalkDataQueue) = 0 /\ delivered = << >> /\ ap = "idle"
  BY EmptySeq DEF Init, TalkInit
<1> QED  BY <1>1 DEF Order

\* A step that accepts and delivers nothing, takes nothing new to write, and
\* leaves the queue as it is or empties it.
LEMMA OrderKept ==
  ASSUME Order, UNCHANGED <<accepted, delivered>>,
         UNCHANGED mTalkDataQueue \/ mTalkDataQueue' = << >>,
         ap' = "write" => /\ ap = "write" /\ pData' = pData
                          /\ written' < Size => written < Size,
         \A a \in 1 .. Len(accepted) :
           packet[accepted[a]] \notin {"unbuilt", "refused"} =>
             packet'[accepted[a]] \notin {"unbuilt", "refused"}
  PROVE  Order'
<1>1. mTalkDataQueue' = << >> => Len(mTalkDataQueue') = 0
  BY EmptySeq
<1> QED  BY <1>1 DEF Order, In, Before, LastDelivered

\* A packet is accepted once, and comes after all those accepted before.
LEMMA AcceptedLast ==
  ASSUME Typed, Order, NEW p \in Packets, packet[p] = "unbuilt",
         accepted' = Append(accepted, p)
  PROVE  /\ Len(accepted') = Len(accepted) + 1 /\ accepted'[Len(accepted) + 1] = p
         /\ \A a \in 1 .. Len(accepted) : accepted'[a] = accepted[a]
         /\ In(accepted', p)
         /\ \A o \in Packets : In(accepted, o) =>
              In(accepted', o) /\ Before(accepted', o, p)
         /\ \A n, o \in Packets :
              In(accepted, n) /\ In(accepted, o) /\ Before(accepted, n, o) =>
                Before(accepted', n, o)
         /\ \A a, b \in 1 .. Len(accepted') : a # b => accepted'[a] # accepted'[b]
<1>1. /\ Len(accepted) \in Nat /\ Len(accepted') = Len(accepted) + 1
      /\ accepted'[Len(accepted) + 1] = p
      /\ \A a \in 1 .. Len(accepted) : accepted'[a] = accepted[a]
  BY Accepted, AppendProperties
<1>2. \A a \in 1 .. Len(accepted) : accepted[a] # p
  BY DEF Order
<1>3. \A a, b \in 1 .. Len(accepted) : a # b => accepted[a] # accepted[b]
  BY DEF Order
<1>4. \A a \in 1 .. Len(accepted') : a \in 1 .. Len(accepted) \/ a = Len(accepted) + 1
  BY ONLY <1>1
<1>5. ~In(accepted, p) /\ In(accepted', p)
  BY ONLY <1>1, <1>2 DEF In
<1>6. ASSUME NEW o \in Packets, In(accepted, o)
      PROVE  In(accepted', o) /\ Before(accepted', o, p)
  <2>1. In(accepted', o) /\ o # p
    BY ONLY <1>1, <1>2, <1>6 DEF In
  <2>2. Before(accepted', o, p)
    BY ONLY <1>1, <1>2, <1>4, <2>1 DEF Before
  <2> QED  BY <2>1, <2>2
<1>7. ASSUME NEW n \in Packets, NEW o \in Packets,
             In(accepted, n), In(accepted, o), Before(accepted, n, o)
      PROVE  Before(accepted', n, o)
  <2>1. n # p /\ o # p
    BY <1>5, <1>7
  <2> QED  BY ONLY <1>1, <1>4, <1>7, <2>1 DEF Before
<1>8. \A a, b \in 1 .. Len(accepted') : a # b => accepted'[a] # accepted'[b]
  BY ONLY <1>1, <1>2, <1>3, <1>4
<1> QED  BY <1>1, <1>5, <1>6, <1>7, <1>8

\* EC_SendTalkData keeps the order.
LEMMA OrderAdd ==
  ASSUME Typed, Order, NEW p \in Packets, SendTalkData(p)
  PROVE  Order'
<1>0. packet[p] = "unbuilt" /\ UNCHANGED <<ap, pData, written, delivered>>
  BY DEF SendTalkData
<1>1. CASE ~(mTalkDataQueueEnable /\ Len(mTalkDataQueue) < MAX_TALK_DATA_QUEUE_SIZE)
  <2>1. /\ packet' = [packet EXCEPT ![p] = "refused"]
        /\ UNCHANGED <<mTalkDataQueue, accepted>>
    BY <1>1 DEF SendTalkData
  <2>2. \A a \in 1 .. Len(accepted) : packet'[accepted[a]] = packet[accepted[a]]
    BY <1>0, <2>1, Places, Accepted DEF Order
  <2> QED  BY <1>0, <2>1, <2>2, OrderKept
<1>2. CASE mTalkDataQueueEnable /\ Len(mTalkDataQueue) < MAX_TALK_DATA_QUEUE_SIZE
  <2> DEFINE q == mTalkDataQueue
  <2>1. /\ packet' = [packet EXCEPT ![p] = "queued"]
        /\ q' = Append(q, p) /\ accepted' = Append(accepted, p)
    BY <1>2 DEF SendTalkData, PushBack
  <2>2. /\ Len(q) \in Nat /\ Len(q') = Len(q) + 1 /\ q'[Len(q) + 1] = p
        /\ \A i \in 1 .. Len(q) : q[i] \in Packets /\ q'[i] = q[i]
    BY ONLY <2>1, Places, Typed, p \in Packets, AppendProperties
  <2>3. \A i \in 1 .. Len(q') : i \in 1 .. Len(q) \/ i = Len(q) + 1
    BY ONLY <2>2
  <2>4. /\ In(accepted', p)
        /\ \A o \in Packets : In(accepted, o) => In(accepted', o) /\ Before(accepted', o, p)
        /\ \A n, o \in Packets :
             In(accepted, n) /\ In(accepted, o) /\ Before(accepted, n, o) =>
               Before(accepted', n, o)
        /\ \A a, b \in 1 .. Len(accepted') : a # b => accepted'[a] # accepted'[b]
    BY <1>0, <2>1, AcceptedLast
  <2>5. ASSUME NEW a \in 1 .. Len(accepted')
        PROVE  packet'[accepted'[a]] \notin {"unbuilt", "refused"}
    <3>1. /\ Len(accepted) \in Nat /\ Len(accepted') = Len(accepted) + 1
          /\ accepted'[Len(accepted) + 1] = p
          /\ \A b \in 1 .. Len(accepted) : accepted'[b] = accepted[b]
      BY <1>0, <2>1, AcceptedLast, Accepted
    <3>2. CASE a = Len(accepted) + 1
      BY <2>1, <3>1, <3>2, Places
    <3>3. CASE a # Len(accepted) + 1
      <4>1. a \in 1 .. Len(accepted)
        BY ONLY <2>5, <3>1, <3>3
      <4>2. accepted'[a] = accepted[a] /\ accepted[a] \in Packets
            /\ packet[accepted[a]] \notin {"unbuilt", "refused"}
        BY <3>1, <4>1, Accepted DEF Order
      <4> QED  BY <2>1, <4>2, Places
    <3> QED  BY <3>2, <3>3
  <2>6. /\ \A i \in 1 .. Len(q) : In(accepted, q[i])
        /\ \A i, j \in 1 .. Len(q) : i < j => Before(accepted, q[i], q[j])
        /\ ap = "write" => /\ pData \in Packets /\ In(accepted, pData)
                           /\ \A i \in 1 .. Len(q) : Before(accepted, pData, q[i])
        /\ delivered # << >> =>
             /\ LastDelivered \in Packets /\ In(accepted, LastDelivered)
             /\ \A i \in 1 .. Len(q) : Before(accepted, LastDelivered, q[i])
             /\ ap = "write" /\ written < Size => Before(accepted, LastDelivered, pData)
    BY Accepted DEF Order, Typed, Writing
  <2>7. LastDelivered' = LastDelivered
    BY <1>0 DEF LastDelivered
  <2> HIDE DEF q
  <2>8. \A i \in 1 .. Len(q') : In(accepted', q'[i])
    BY <2>2, <2>3, <2>4, <2>6
  <2>9. ASSUME NEW i \in 1 .. Len(q'), NEW j \in 1 .. Len(q'), i < j
        PROVE  Before(accepted', q'[i], q'[j])
    <3>1. i \in 1 .. Len(q) /\ (j \in 1 .. Len(q) \/ j = Len(q) + 1)
      BY ONLY <2>2, <2>9
    <3> QED  BY <2>2, <2>4, <2>6, <2>9, <3>1
  <2>10. ap' = "write" => /\ In(accepted', pData')
                          /\ \A i \in 1 .. Len(q') : Before(accepted', pData', q'[i])
    BY <1>0, <2>2, <2>3, <2>4, <2>6
  <2>11. delivered' # << >> =>
           /\ In(accepted', LastDelivered')
           /\ \A i \in 1 .. Len(q') : Before(accepted', LastDelivered', q'[i])
           /\ ap' = "write" /\ written' < Size => Before(accepted', LastDelivered', pData')
    BY <1>0, <2>2, <2>3, <2>4, <2>6, <2>7
  <2> QED  BY <2>4, <2>5, <2>8, <2>9, <2>10, <2>11 DEF Order, q
<1> QED  BY <1>1, <1>2

\* audioSendThread takes the packet that was accepted first.
LEMMA OrderPop ==
  ASSUME Typed, Order, SenderPops
  PROVE  Order'
<1> DEFINE q == mTalkDataQueue  h == Head(q)  n == Len(q) - 1
<1>1. /\ ap' = "write" /\ pData' = h /\ q' = Tail(q) /\ q # << >>
      /\ packet' = [packet EXCEPT ![h] = "sending"]
      /\ UNCHANGED <<accepted, delivered>>
  BY DEF SenderPops, SenderUnchanged
<1>2. /\ h \in Packets /\ h = q[1] /\ n \in Nat /\ Len(q') = n /\ Len(q) = n + 1
      /\ \A i \in 1 .. n : q'[i] = q[i + 1]
  BY ONLY <1>1, Places, Typed, HeadTailProperties, EmptySeq
<1>3. /\ \A i \in 1 .. Len(q) : In(accepted, q[i])
      /\ \A i, j \in 1 .. Len(q) : i < j => Before(accepted, q[i], q[j])
      /\ delivered # << >> =>
           /\ In(accepted, LastDelivered)
           /\ \A i \in 1 .. Len(q) : Before(accepted, LastDelivered, q[i])
      /\ \A a, b \in 1 .. Len(accepted) : a # b => accepted[a] # accepted[b]
  BY DEF Order
<1>4. ASSUME NEW a \in 1 .. Len(accepted)
      PROVE  packet'[accepted[a]] \notin {"unbuilt", "refused"}
  <2>1. accepted[a] \in Packets /\ packet[accepted[a]] \notin {"unbuilt", "refused"}
    BY Accepted DEF Order
  <2> QED  BY <1>1, <1>2, <2>1, Places
<1>5. LastDelivered' = LastDelivered
  BY <1>1 DEF LastDelivered
<1> HIDE DEF q, h, n
<1>6. /\ 1 \in 1 .. Len(q)
      /\ \A i \in 1 .. n : i + 1 \in 1 .. Len(q) /\ 1 < i + 1
      /\ \A i, j \in 1 .. n : i < j => i + 1 < j + 1
  BY ONLY <1>2
<1>7. \A i \in 1 .. n : In(accepted, q'[i])
  BY ONLY <1>2, <1>3, <1>6
<1>8. \A i, j \in 1 .. n : i < j => Before(accepted, q'[i], q'[j])
  BY ONLY <1>2, <1>3, <1>6
<1>9. In(accepted, h) /\ \A i \in 1 .. n : Before(accepted, h, q'[i])
  BY ONLY <1>2, <1>3, <1>6
<1>10. delivered # << >> =>
         /\ In(accepted, LastDelivered) /\ Before(accepted, LastDelivered, h)
         /\ \A i \in 1 .. n : Before(accepted, LastDelivered, q'[i])
  BY ONLY <1>2, <1>3, <1>6
<1> QED
  BY ONLY <1>1, <1>2, <1>3, <1>4, <1>5, <1>7, <1>8, <1>9, <1>10 DEF Order, q

\* A packet that is complete becomes the last one delivered.
LEMMA OrderWrites ==
  ASSUME Typed, Order, NEW n \in 0 .. Size, SenderWrites(n)
  PROVE  Order'
<1>1. /\ ap = "write" /\ written < Size
      /\ written' = written + n /\ written + n <= Size
      /\ delivered' = IF written + n = Size THEN Append(delivered, pData) ELSE delivered
      /\ UNCHANGED <<accepted, packet, mTalkDataQueue, ap, pData>>
  BY DEF SenderWrites, CanWrite, InLoop, SenderUnchanged
<1>2. CASE written + n # Size
  BY <1>1, <1>2, OrderKept
<1>3. CASE written + n = Size
  <2>1. delivered' = Append(delivered, pData) /\ pData \in Packets
    BY <1>1, <1>3 DEF Typed, Writing
  <2>2. LastDelivered' = pData
    BY <2>1, Accepted, AppendProperties DEF LastDelivered
  <2>3. ~(written' < Size)
    BY <1>1, <1>3, TalkQueueAssumption
  <2> QED  BY <1>1, <2>2, <2>3 DEF Order
<1> QED  BY <1>2, <1>3

LEMMA StepOrder == Typed /\ Order /\ [Next]_vars => Order'
<1> SUFFICES ASSUME Typed, Order, [Next]_vars PROVE Order'
  OBVIOUS
<1>1. CASE UNCHANGED talkVars
  BY <1>1, OrderKept DEF talkVars
<1>2. ASSUME NEW p \in Packets, SendTalkData(p)
      PROVE  Order'
  BY <1>2, OrderAdd
<1>3. CASE SenderPops
  BY <1>3, OrderPop
<1>4. ASSUME NEW n \in 0 .. Size, SenderWrites(n)
      PROVE  Order'
  BY <1>4, OrderWrites
<1>5. CASE SenderEndsLoop \/ SenderFails
  <2>1. /\ packet' = [packet EXCEPT ![pData] = "deleted"] /\ ap' # "write"
        /\ UNCHANGED <<mTalkDataQueue, accepted, delivered>>
    BY <1>5 DEF SenderEndsLoop, SenderFails, SenderDone, DeletePacket, SenderUnchanged
  <2>2. \A p \in Packets : packet'[p] \in {packet[p], "deleted"}
    BY <2>1, Places
  <2> QED  BY <2>1, <2>2, Accepted, OrderKept
<1>6. CASE SenderStops
  BY <1>6, OrderKept DEF SenderStops, SenderUnchanged
<1>7. CASE \/ \E why \in {"logout", "deinit"} : LogOut(why)
           \/ LogOutJoinsCmd \/ LogOutJoinsSender
  BY <1>7, OrderKept DEF LogOut, LogOutJoinsCmd, LogOutJoinsSender, LogoutUnchanged
<1>8. CASE LogOutClears
  <2>1. /\ mTalkDataQueue' = << >>
        /\ UNCHANGED <<accepted, delivered, ap, pData, written>>
    BY <1>8 DEF LogOutClears, LogoutUnchanged, ClearTalkDataQueue, EmptyQueue
  <2>2. \A p \in Packets : packet'[p] \in {packet[p], "deleted"}
    BY <1>8 DEF LogOutClears, ClearTalkDataQueue
  <2> QED  BY <2>1, <2>2, Accepted, OrderKept
<1>9. CASE GcCloses \/ GcDeletes
  BY <1>9, OrderKept DEF GcCloses, GcDeletes, GcUnchanged
<1> QED  BY <1>1, <1>2, <1>3, <1>4, <1>5, <1>6, <1>7, <1>8, <1>9, TalkKept
            DEF TalkStep, AudioSend

\* The place of a packet in a sequence that holds it once.
LEMMA PlaceOf ==
  ASSUME NEW S, NEW s \in Seq(S),
         \A a, b \in 1 .. Len(s) : a # b => s[a] # s[b],
         NEW a \in 1 .. Len(s)
  PROVE  Talk!Place(s, s[a]) = a
<1>1. DOMAIN s = 1 .. Len(s)
  BY LenProperties
<1> DEFINE P(i) == s[i] = s[a]
<1>2. \A i \in DOMAIN s : P(i) <=> i = a
  BY <1>1
<1>3. (CHOOSE i \in DOMAIN s : P(i)) = a
  BY <1>1, <1>2
<1>4. \E i \in DOMAIN s : s[i] = s[a]
  BY <1>1
<1> QED  BY <1>3, <1>4 DEF Talk!Place

\* A step accepts a packet, delivers one, or does neither.
LEMMA StepTalkFifo == Typed /\ Order /\ [Next]_vars => [Talk!Next]_Talk!fifoVars
<1> SUFFICES ASSUME Typed, Order, [Next]_vars PROVE [Talk!Next]_Talk!fifoVars
  OBVIOUS
<1>1. ASSUME NEW p \in Packets, SendTalkData(p)
      PROVE  [Talk!Next]_Talk!fifoVars
  <2>1. packet[p] = "unbuilt" /\ UNCHANGED delivered
        /\ (UNCHANGED accepted \/ accepted' = Append(accepted, p))
    BY <1>1 DEF SendTalkData
  <2>2. CASE accepted' = Append(accepted, p)
    <3>1. \A a \in 1 .. Len(accepted) : accepted[a] # p
      BY <2>1 DEF Order
    <3>2. DOMAIN accepted = 1 .. Len(accepted)
      BY Accepted, LenProperties
    <3>3. Talk!Place(accepted, p) = 0
      BY <3>1, <3>2 DEF Talk!Place
    <3> QED  BY <2>1, <2>2, <3>3 DEF Talk!Accept, Talk!Next
  <2> QED  BY <2>1, <2>2 DEF Talk!fifoVars
<1>2. ASSUME NEW n \in 0 .. Size, SenderWrites(n)
      PROVE  [Talk!Next]_Talk!fifoVars
  <2>1. /\ ap = "write" /\ written < Size /\ UNCHANGED accepted /\ pData \in Packets
        /\ UNCHANGED delivered \/ delivered' = Append(delivered, pData)
    BY <1>2 DEF SenderWrites, CanWrite, InLoop, SenderUnchanged, Typed, Writing
  <2>2. CASE delivered' = Append(delivered, pData)
    <3>1. accepted \in Seq(Packets) /\ Len(accepted) \in Nat
          /\ \A a, b \in 1 .. Len(accepted) : a # b => accepted[a] # accepted[b]
      BY Accepted DEF Order
    <3>2. PICK b \in 1 .. Len(accepted) : accepted[b] = pData
      BY <2>1 DEF Order, In
    <3>3. Talk!Place(accepted, pData) = b
      BY <3>1, <3>2, PlaceOf
    <3>4. ASSUME delivered # << >>
          PROVE  Talk!Place(accepted, LastDelivered) < b
      <4>1. PICK a \in 1 .. Len(accepted) : accepted[a] = LastDelivered
        BY <3>4 DEF Order, In
      <4>2. Talk!Place(accepted, LastDelivered) = a
        BY <3>1, <4>1, PlaceOf
      <4>3. a < b
        BY <2>1, <3>2, <3>4, <4>1 DEF Order, Before
      <4> QED  BY <4>2, <4>3
    <3>5. b # 0
      OBVIOUS
    <3> QED  BY <2>1, <2>2, <3>3, <3>4, <3>5
                DEF Talk!Deliver, Talk!Next, LastDelivered
  <2> QED  BY <2>1, <2>2 DEF Talk!fifoVars
<1>3. CASE SenderPops \/ SenderEndsLoop \/ SenderFails \/ SenderStops
  BY <1>3 DEF SenderPops, SenderEndsLoop, SenderFails, SenderStops, SenderDone,
     SenderUnchanged, Talk!fifoVars
<1>4. CASE \/ \E why \in {"logout", "deinit"} : LogOut(why)
           \/ LogOutJoinsCmd \/ LogOutJoinsSender \/ LogOutClears
           \/ GcCloses \/ GcDeletes
  BY <1>4 DEF LogOut, LogOutJoinsCmd, LogOutJoinsSender, LogOutClears, LogoutUnchanged,
     GcCloses, GcDeletes, GcUnchanged, Talk!fifoVars
<1>5. CASE UNCHANGED talkVars
  BY <1>5 DEF talkVars, Talk!fifoVars
<1> QED  BY <1>1, <1>2, <1>3, <1>4, <1>5, TalkKept DEF TalkStep, AudioSend

\* The talk data path implements LossyFifo: the audio arrives in the order in
\* which it was accepted, each packet at most once, whatever is torn down.
THEOREM TalkImplementsFifo == Spec => TalkInOrder
<1>1. Init => Typed /\ Order
  BY InitTyped, InitOrder
<1>2. Init => Talk!Init
  BY DEF Init, TalkInit, Talk!Init
<1>3. Typed /\ Order /\ [Next]_vars => (Typed /\ Order)'
  BY StepTyped, StepOrder
<1>4. Typed /\ Order /\ [Next]_vars => [Talk!Next]_Talk!fifoVars
  BY StepTalkFifo
<1> QED  BY <1>1, <1>2, <1>3, <1>4, PTL DEF Spec, TalkInOrder, Talk!Spec
============================================================================
