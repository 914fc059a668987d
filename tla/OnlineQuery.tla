----------------------------- MODULE OnlineQuery -----------------------------
(***************************************************************************)
(* EC_QueryOnlineStatus and the threads that ask the LINK server when a    *)
(* device was last seen.  A table keeps one entry for each device that is  *)
(* asked about; a thread works with a pointer to its entry, and erases it. *)
(* The call looks the device up before it locks the table.                 *)
(***************************************************************************)
EXTENDS Integers

CONSTANTS
  Callers,     \* threads of the application
  Uids,        \* devices
  MaxQueries   \* bound: the query threads ever created

ASSUME OnlineQueryAssumption == Uids # {} /\ MaxQueries \in Nat

VARIABLES
  sWakeupQueryTaskTbl, \* the entry of each device: the query that inserted it,
                       \* or 0
  pc, uid,             \* where each call is, and its device
  disturbed,           \* has the table changed under the look-up of a caller?
  created,             \* the threads created, numbered from 1
  thread,              \* where each thread is,
  about,               \* the device and
  task,                \* the entry it was given
  callback,            \* the call whose callback each entry holds
  answers,             \* for each call that was accepted the threads that
                       \* answered it
  overlap              \* history: did a call run into another change?

vars == <<sWakeupQueryTaskTbl, pc, uid, disturbed, created, thread, about, task,
          callback, answers, overlap>>

Queries == 1 .. MaxQueries
NoUid   == CHOOSE u \in Uids : TRUE

TypeOK ==
  /\ sWakeupQueryTaskTbl \in [Uids -> 0 .. MaxQueries]
  /\ pc \in [Callers -> {"idle", "find", "insert"}]
  /\ uid \in [Callers -> Uids]
  /\ disturbed \in [Callers -> BOOLEAN]
  /\ created \in 0 .. MaxQueries
  /\ thread \in [Queries -> {"none", "query", "callback", "erase", "ended"}]
  /\ about \in [Queries -> Uids]
  /\ task \in [Queries -> 0 .. MaxQueries]
  /\ callback \in [Queries -> 0 .. MaxQueries]
  /\ answers \in [Queries -> SUBSET Queries]
  /\ overlap \in BOOLEAN

Init ==
  /\ sWakeupQueryTaskTbl = [u \in Uids |-> 0]
  /\ pc = [c \in Callers |-> "idle"]
  /\ uid = [c \in Callers |-> NoUid]
  /\ disturbed = [c \in Callers |-> FALSE]
  /\ created = 0
  /\ thread = [q \in Queries |-> "none"]
  /\ about = [q \in Queries |-> NoUid]
  /\ task = [q \in Queries |-> 0]
  /\ callback = [q \in Queries |-> 0]
  /\ answers = [q \in Queries |-> {}]
  /\ overlap = FALSE

Running(q) == thread[q] \in {"query", "callback", "erase"}

\* The table is a tree: a look-up that another thread changes it under may find
\* or miss anything.
TableChanges ==
  disturbed' = [c \in Callers |-> disturbed[c] \/ pc[c] = "find"]

----------------------------------------------------------------------------
(* EC_QueryOnlineStatus                                                    *)

LooksUp(c, u) ==
  /\ pc[c] = "idle" /\ created < MaxQueries
  /\ pc' = [pc EXCEPT ![c] = "find"]
  /\ uid' = [uid EXCEPT ![c] = u]
  /\ disturbed' = [disturbed EXCEPT ![c] = FALSE]
  /\ UNCHANGED <<sWakeupQueryTaskTbl, created, thread, about, task, callback,
                 answers, overlap>>

\* Mutant: the look-up is left out.
Absent_Always(u) == TRUE

Absent(u) == sWakeupQueryTaskTbl[u] = 0

\* The device is in the table: the call is refused.
Found(c) ==
  /\ pc[c] = "find"
  /\ disturbed[c] \/ ~Absent(uid[c])
  /\ pc' = [pc EXCEPT ![c] = "idle"]
  /\ UNCHANGED <<sWakeupQueryTaskTbl, uid, disturbed, created, thread, about,
                 task, callback, answers, overlap>>

Misses(c) ==
  /\ pc[c] = "find"
  /\ disturbed[c] \/ Absent(uid[c])
  /\ pc' = [pc EXCEPT ![c] = "insert"]
  /\ UNCHANGED <<sWakeupQueryTaskTbl, uid, disturbed, created, thread, about,
                 task, callback, answers, overlap>>

\* From lock to unlock: the entry is inserted, or one that has come to be there
\* is overwritten, and a thread created with a pointer to it.
Insert(c) ==
  LET u == uid[c]
      q == created + 1
      e == IF sWakeupQueryTaskTbl[u] = 0 THEN q ELSE sWakeupQueryTaskTbl[u]
  IN /\ pc[c] = "insert" /\ created < MaxQueries
     /\ pc' = [pc EXCEPT ![c] = "idle"]
     /\ created' = q
     /\ sWakeupQueryTaskTbl' = [sWakeupQueryTaskTbl EXCEPT ![u] = e]
     /\ callback' = [callback EXCEPT ![e] = q]
     /\ task' = [task EXCEPT ![q] = e]
     /\ about' = [about EXCEPT ![q] = u]
     /\ thread' = [thread EXCEPT ![q] = "query"]
     /\ TableChanges
     /\ overlap' = (overlap \/ \E d \in Callers \ {c} :
                                 pc[d] = "find" \/ (pc[d] = "insert" /\ uid[d] = u))
     /\ UNCHANGED <<uid, answers>>

----------------------------------------------------------------------------
(* WakeUp_Query_ThreadFunc                                                 *)

\* LINK_WakeUp_Query has answered, after 5 s at the latest.
Queried(q) ==
  /\ thread[q] = "query"
  /\ thread' = [thread EXCEPT ![q] = "callback"]
  /\ UNCHANGED <<sWakeupQueryTaskTbl, pc, uid, disturbed, created, about, task,
                 callback, answers, overlap>>

\* The callback is read from the entry.  An entry that was freed may still hold
\* what it held.
CallbackOf(q) == callback[task[q]]

\* The result, whatever it is, goes to the application.
CallsBack(q) ==
  /\ thread[q] = "callback"
  /\ thread' = [thread EXCEPT ![q] = "erase"]
  /\ answers' = [answers EXCEPT ![CallbackOf(q)] = @ \cup {q}]
  /\ UNCHANGED <<sWakeupQueryTaskTbl, pc, uid, disturbed, created, about, task,
                 callback, overlap>>

\* A call without a callback gets none.
CallsNobody(q) ==
  /\ thread[q] = "callback"
  /\ thread' = [thread EXCEPT ![q] = "erase"]
  /\ UNCHANGED <<sWakeupQueryTaskTbl, pc, uid, disturbed, created, about, task,
                 callback, answers, overlap>>

\* Mutants: the entry stays in the table, or is only marked.
EraseEntry_Never(u) == UNCHANGED sWakeupQueryTaskTbl
EraseEntry_Mark(u) ==
  sWakeupQueryTaskTbl' = [sWakeupQueryTaskTbl EXCEPT ![u] = -1]

EraseEntry(u) == sWakeupQueryTaskTbl' = [sWakeupQueryTaskTbl EXCEPT ![u] = 0]

\* The entry is erased by its device, which frees it.
Erases(q) ==
  /\ thread[q] = "erase"
  /\ thread' = [thread EXCEPT ![q] = "ended"]
  /\ EraseEntry(about[q])
  /\ TableChanges
  /\ overlap' = (overlap \/ \E c \in Callers : pc[c] = "find")
  /\ UNCHANGED <<pc, uid, created, about, task, callback, answers>>

----------------------------------------------------------------------------
Caller(c) == (\E u \in Uids : LooksUp(c, u)) \/ Found(c) \/ Misses(c) \/ Insert(c)

Thread(q) == Queried(q) \/ CallsBack(q)
             \/ CallsNobody(q) \/ Erases(q)

Next == (\E c \in Callers : Caller(c)) \/ (\E q \in Queries : Thread(q))

Spec == Init /\ [][Next]_vars

\* LINK_WakeUp_Query has a timeout and the mutex is held for a few steps only.
FairSpec == Spec /\ \A q \in Queries : WF_vars(Thread(q))

----------------------------------------------------------------------------
(* Properties                                                              *)

\* As long as no call looks up the table while it changes, there is one query
\* for a device at a time, its thread's entry is not freed under it, and each
\* call that was accepted is answered at most once, by its own thread and by no
\* other (lines 456, 468).
OneQueryPerDevice ==
  ~overlap =>
    /\ \A q \in Queries : Running(q) => sWakeupQueryTaskTbl[about[q]] = q
    /\ \A q \in Queries : answers[q] \subseteq {q}

\* Every entry goes away again, so that a device can be asked about once more.
QueriesEnd ==
  \A u \in Uids : \A q \in Queries :
    sWakeupQueryTaskTbl[u] = q ~> sWakeupQueryTaskTbl[u] # q
============================================================================
