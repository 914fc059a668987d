------------------------------ MODULE TalkQueue ------------------------------
(***************************************************************************)
(* The audio that the application sends: EC_SendTalkData encodes a packet  *)
(* and queues it, under sSessionMutex, and audioSendThread takes packets   *)
(* off and writes them to channel 1.  A packet is a heap block.            *)
(***************************************************************************)
EXTENDS ClientState

CONSTANTS
  Packets,                  \* the packets the application sends
  NoPacket,                 \* the pointer NULL
  MAX_TALK_DATA_QUEUE_SIZE, \* 10 in the code
  MaxTurns,                 \* 100 turns of the write loop in the code
  Size                      \* the length of a packet, in units of writing

ASSUME TalkQueueAssumption ==
  /\ NoPacket \notin Packets
  /\ MAX_TALK_DATA_QUEUE_SIZE \in Nat \ {0}
  /\ MaxTurns \in Nat \ {0}
  /\ Size \in Nat \ {0}

VARIABLES
  mTalkDataQueue, mTalkDataQueueEnable,
  mTalkDataSendThreadRun, mHasTalkDataSendThreadStarted,
  packet,      \* what became of the block of each packet
  ap,          \* where audioSendThread is
  pData,       \* the packet it writes,
  turns,       \* the turns of its write loop,
  written,     \* and how much it has written of that packet
  accepted, delivered   \* history: packets queued, and written whole

talkVars == <<mTalkDataQueue, mTalkDataQueueEnable, mTalkDataSendThreadRun,
              mHasTalkDataSendThreadStarted, packet, ap, pData, turns, written,
              accepted, delivered>>

TalkTypeOK ==
  /\ mTalkDataQueue \in Seq(Packets)
  /\ mTalkDataQueueEnable \in BOOLEAN
  /\ mTalkDataSendThreadRun \in BOOLEAN
  /\ mHasTalkDataSendThreadStarted \in BOOLEAN
  /\ packet \in [Packets -> {"unbuilt", "queued", "sending", "deleted",
                             "refused"}]
  /\ ap \in {"idle", "write", "exited"}
  /\ pData \in Packets \cup {NoPacket}
  /\ turns \in 0 .. MaxTurns
  /\ written \in 0 .. Size
  /\ accepted \in Seq(Packets)
  /\ delivered \in Seq(Packets)

\* The constructor has started the thread.
TalkInit ==
  /\ mTalkDataQueue = << >> /\ mTalkDataQueueEnable = TRUE
  /\ mTalkDataSendThreadRun = TRUE /\ mHasTalkDataSendThreadStarted = TRUE
  /\ packet = [p \in Packets |-> "unbuilt"]
  /\ ap = "idle" /\ pData = NoPacket /\ turns = 0 /\ written = 0
  /\ accepted = << >> /\ delivered = << >>

----------------------------------------------------------------------------
\* Mutant: push_front.
PushBack_Front(p) == mTalkDataQueue' = <<p>> \o mTalkDataQueue

PushBack(p) == mTalkDataQueue' = Append(mTalkDataQueue, p)

\* EC_SendTalkData from lock to unlock of sSessionMutex.  A packet that the
\* queue refuses, because it is full or disabled, is never deleted.
SendTalkData(p) ==
  /\ Callable /\ packet[p] = "unbuilt"
  /\ IF mTalkDataQueueEnable /\ Len(mTalkDataQueue) < MAX_TALK_DATA_QUEUE_SIZE
       THEN /\ PushBack(p)
            /\ packet' = [packet EXCEPT ![p] = "queued"]
            /\ accepted' = Append(accepted, p)
       ELSE /\ packet' = [packet EXCEPT ![p] = "refused"]
            /\ UNCHANGED <<mTalkDataQueue, accepted>>
  /\ UNCHANGED <<clientVars, mTalkDataQueueEnable, mTalkDataSendThreadRun,
                 mHasTalkDataSendThreadStarted, ap, pData, turns, written,
                 delivered>>

----------------------------------------------------------------------------
(* audioSendThread                                                         *)

SenderUnchanged ==
  UNCHANGED <<sSessionMutex, td, mSockHandle, link, mTalkDataQueueEnable,
              mTalkDataSendThreadRun, mHasTalkDataSendThreadStarted, accepted>>

SenderPops ==
  /\ ap = "idle" /\ mTalkDataSendThreadRun /\ mSockHandle
  /\ mTalkDataQueue # << >>
  /\ ap' = "write" /\ turns' = 0 /\ written' = 0
  /\ pData' = Head(mTalkDataQueue)
  /\ mTalkDataQueue' = Tail(mTalkDataQueue)
  /\ packet' = [packet EXCEPT ![Head(mTalkDataQueue)] = "sending"]
  /\ SenderUnchanged
  /\ UNCHANGED <<delivered, mHasBrokenDetected>>

InLoop   == ap = "write" /\ written < Size /\ mTalkDataSendThreadRun
CanWrite == InLoop /\ turns < MaxTurns /\ link /\ mSockHandle

\* LINK_Write took n units, none if its buffer or the peer's is full.
SenderWrites(n) ==
  /\ CanWrite /\ written + n <= Size
  /\ turns' = turns + 1
  /\ written' = written + n
  /\ delivered' = IF written + n = Size THEN Append(delivered, pData)
                                        ELSE delivered
  /\ SenderUnchanged
  /\ UNCHANGED <<mTalkDataQueue, packet, ap, pData, mHasBrokenDetected>>

\* Mutant: the packet is not deleted behind the loop.
DeletePacket_Never == UNCHANGED packet

DeletePacket == packet' = [packet EXCEPT ![pData] = "deleted"]

SenderDone ==
  /\ DeletePacket
  /\ pData' = NoPacket /\ turns' = 0 /\ written' = 0
  /\ SenderUnchanged
  /\ UNCHANGED <<mTalkDataQueue, delivered>>

\* The write loop ends: all written, told to stop, or out of turns.  A frame
\* that was given up in the middle is followed by the next one.
SenderEndsLoop ==
  /\ ap = "write" /\ (InLoop => turns = MaxTurns)
  /\ ap' = "idle" /\ UNCHANGED mHasBrokenDetected
  /\ SenderDone

\* The link failed.  The thread ends if it is the first to see that; otherwise
\* it goes on and empties the queue into the broken link.
SenderFails ==
  /\ InLoop /\ turns < MaxTurns /\ ~(link /\ mSockHandle)
  /\ mHasBrokenDetected' = TRUE
  /\ ap' = IF mHasBrokenDetected THEN "idle" ELSE "exited"
  /\ SenderDone

SenderStops ==
  /\ ap = "idle" /\ ~mTalkDataSendThreadRun
  /\ ap' = "exited"
  /\ SenderUnchanged
  /\ UNCHANGED <<mTalkDataQueue, packet, pData, turns, written, delivered,
                 mHasBrokenDetected>>

AudioSend ==
  \/ SenderPops
  \/ \E n \in 0 .. Size : SenderWrites(n)
  \/ SenderEndsLoop \/ SenderFails \/ SenderStops

----------------------------------------------------------------------------
(* What the teardown does to it.                                           *)

SenderGone == mHasTalkDataSendThreadStarted => ap = "exited"

StopSender ==
  mTalkDataSendThreadRun' =
    IF mHasTalkDataSendThreadStarted THEN FALSE ELSE mTalkDataSendThreadRun

\* Mutant: the packets are deleted and stay in the list.
EmptyQueue_Never == UNCHANGED mTalkDataQueue

EmptyQueue == mTalkDataQueue' = << >>

\* clearTalkDataQueue, when no other thread uses the queue.
ClearTalkDataQueue ==
  /\ EmptyQueue
  /\ packet' = [p \in Packets |->
       IF \E i \in DOMAIN mTalkDataQueue : mTalkDataQueue[i] = p
         THEN "deleted" ELSE packet[p]]
============================================================================
