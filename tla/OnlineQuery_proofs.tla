------------------------- MODULE OnlineQuery_proofs -------------------------
(***************************************************************************)
(* Proofs about OnlineQuery, for any callers, devices and queries.         *)
(***************************************************************************)
EXTENDS OnlineQuery, TLAPS

\* Threads and entries are numbered by their creation, and the entry of a
\* thread holds the callback of some call.
Numbered ==
  /\ \A u \in Uids : sWakeupQueryTaskTbl[u] <= created
  /\ \A q \in Queries : thread[q] # "none" =>
       /\ q <= created
       /\ task[q] \in 1 .. created
       /\ callback[task[q]] \in Queries

Typed == TypeOK /\ Numbered

LEMMA InitTyped == Init => Typed
<1>1. NoUid \in Uids
  BY OnlineQueryAssumption DEF NoUid
<1>2. MaxQueries \in Nat
  BY OnlineQueryAssumption
<1>3. Init => Numbered
  BY <1>2 DEF Init, Numbered, Queries
<1>4. Init => TypeOK
  <2> SUFFICES ASSUME Init PROVE TypeOK
    OBVIOUS
  <2>1. uid \in [Callers -> Uids] /\ about \in [Queries -> Uids]
    BY <1>1, Zenon DEF Init
  <2>2. /\ sWakeupQueryTaskTbl \in [Uids -> 0 .. MaxQueries]
        /\ created \in 0 .. MaxQueries /\ overlap \in BOOLEAN
        /\ task \in [Queries -> 0 .. MaxQueries]
        /\ callback \in [Queries -> 0 .. MaxQueries]
    <3>1. 0 \in 0 .. MaxQueries
      BY <1>2
    <3> QED  BY <3>1 DEF Init
  <2>3. /\ pc \in [Callers -> {"idle", "find", "insert"}]
        /\ disturbed \in [Callers -> BOOLEAN]
        /\ answers \in [Queries -> SUBSET Queries]
    BY DEF Init
  <2>4. thread \in [Queries -> {"none", "query", "callback", "erase", "ended"}]
    BY DEF Init
  <2> QED  BY <2>1, <2>2, <2>3, <2>4 DEF TypeOK
<1> QED  BY <1>3, <1>4 DEF Typed

\* The entry that a call uses and the query it creates.
EntryOf(c) == IF sWakeupQueryTaskTbl[uid[c]] = 0 THEN created + 1
                                                 ELSE sWakeupQueryTaskTbl[uid[c]]

LEMMA StepInsert ==
  ASSUME Typed, NEW c \in Callers, Insert(c)
  PROVE  Typed'
<1> DEFINE q == created + 1
           e == EntryOf(c)
<1>0. MaxQueries \in Nat /\ created \in Nat
  BY OnlineQueryAssumption DEF Typed, TypeOK
<1>1. q \in Queries /\ q <= MaxQueries
  BY <1>0 DEF Insert, Queries
<1>2. uid[c] \in Uids /\ sWakeupQueryTaskTbl[uid[c]] \in 0 .. MaxQueries
  BY DEF Typed, TypeOK
<1>3. e \in 1 .. q /\ e \in Queries
  BY <1>0, <1>1, <1>2 DEF EntryOf, Queries, Typed, Numbered
<1>4. /\ created' = q
      /\ sWakeupQueryTaskTbl' = [sWakeupQueryTaskTbl EXCEPT ![uid[c]] = e]
      /\ callback' = [callback EXCEPT ![e] = q]
      /\ task' = [task EXCEPT ![q] = e]
      /\ about' = [about EXCEPT ![q] = uid[c]]
      /\ thread' = [thread EXCEPT ![q] = "query"]
      /\ pc' = [pc EXCEPT ![c] = "idle"]
      /\ UNCHANGED <<uid, answers>>
  BY DEF Insert, EntryOf
<1>5. disturbed' \in [Callers -> BOOLEAN] /\ overlap' \in BOOLEAN
  BY DEF Insert, TableChanges, Typed, TypeOK
<1> HIDE DEF q, e
<1>6. q = created + 1 /\ q \in Nat
  BY <1>0 DEF q
<1>7. TypeOK'
  <2>1. q \in 0 .. MaxQueries /\ e \in 0 .. MaxQueries
    BY <1>0, <1>1, <1>3, <1>6 DEF Queries
  <2>2. sWakeupQueryTaskTbl' \in [Uids -> 0 .. MaxQueries]
    BY <1>4, <2>1 DEF Typed, TypeOK
  <2>3. /\ task' \in [Queries -> 0 .. MaxQueries]
        /\ callback' \in [Queries -> 0 .. MaxQueries]
    BY <1>4, <2>1 DEF Typed, TypeOK
  <2>4. about' \in [Queries -> Uids] /\ uid' \in [Callers -> Uids]
    BY <1>2, <1>4 DEF Typed, TypeOK
  <2>5. thread' \in [Queries -> {"none", "query", "callback", "erase", "ended"}]
    BY <1>4 DEF Typed, TypeOK
  <2>6. /\ pc' \in [Callers -> {"idle", "find", "insert"}]
        /\ answers' \in [Queries -> SUBSET Queries] /\ created' \in 0 .. MaxQueries
    BY <1>4, <2>1 DEF Typed, TypeOK
  <2> QED  BY <1>5, <2>2, <2>3, <2>4, <2>5, <2>6 DEF TypeOK
<1>8. ASSUME NEW u \in Uids
      PROVE  sWakeupQueryTaskTbl'[u] <= created'
  BY <1>0, <1>3, <1>4, <1>6 DEF Typed, TypeOK, Numbered
<1>9. ASSUME NEW r \in Queries, thread'[r] # "none"
      PROVE  r <= created' /\ task'[r] \in 1 .. created' /\ callback'[task'[r]] \in Queries
  <2>1. CASE r = q
    BY <1>1, <1>3, <1>4, <1>6, <2>1 DEF Typed, TypeOK, Queries
  <2>2. CASE r # q
    <3>1. thread[r] # "none" /\ task'[r] = task[r]
      BY <1>4, <1>9, <2>2 DEF Typed, TypeOK
    <3>2. /\ r <= created /\ task[r] \in 1 .. created
          /\ callback[task[r]] \in Queries
      BY <3>1 DEF Typed, Numbered
    <3>3. callback'[task[r]] \in {callback[task[r]], q}
      BY <1>3, <1>4, <3>2 DEF Typed, TypeOK, Queries
    <3> QED  BY <1>0, <1>1, <1>4, <1>6, <3>1, <3>2, <3>3 DEF Queries
  <2> QED  BY <2>1, <2>2
<1> QED  BY <1>7, <1>8, <1>9 DEF Typed, Numbered

\* A thread goes on; its entry stays where it is.
LEMMA StepThread ==
  ASSUME Typed, NEW q \in Queries, Thread(q)
  PROVE  Typed'
<1>0. MaxQueries \in Nat /\ created \in Nat
  BY OnlineQueryAssumption DEF Typed, TypeOK
<1>1. /\ thread[q] # "none" /\ UNCHANGED <<created, task, callback, about, uid, pc>>
      /\ thread' \in [Queries -> {"none", "query", "callback", "erase", "ended"}]
      /\ \A r \in Queries : thread'[r] # "none" => thread[r] # "none"
  BY DEF Thread, Queried, CallsBack, CallsNobody, Erases, Typed, TypeOK
<1>2. /\ sWakeupQueryTaskTbl' \in [Uids -> 0 .. MaxQueries]
      /\ \A u \in Uids : sWakeupQueryTaskTbl'[u] <= created
  <2>1. CASE Erases(q)
    BY <1>0, <2>1 DEF Erases, EraseEntry, Typed, TypeOK, Numbered
  <2>2. CASE ~Erases(q)
    BY <2>2 DEF Thread, Queried, CallsBack, CallsNobody, Typed, TypeOK, Numbered
  <2> QED  BY <2>1, <2>2
<1>3. /\ disturbed' \in [Callers -> BOOLEAN] /\ overlap' \in BOOLEAN
  BY DEF Thread, Queried, CallsBack, CallsNobody, Erases, TableChanges, Typed, TypeOK
<1>4. answers' \in [Queries -> SUBSET Queries]
  BY DEF Thread, Queried, CallsBack, CallsNobody, Erases, Typed, TypeOK
<1>5. TypeOK'
  BY <1>1, <1>2, <1>3, <1>4 DEF Typed, TypeOK
<1> QED  BY <1>1, <1>2, <1>5 DEF Typed, Numbered

LEMMA StepTyped == Typed /\ [Next]_vars => Typed'
<1> SUFFICES ASSUME Typed, [Next]_vars PROVE Typed'
  OBVIOUS
<1>1. ASSUME NEW c \in Callers, NEW u \in Uids, LooksUp(c, u) PROVE Typed'
  BY <1>1 DEF LooksUp, Typed, TypeOK, Numbered
<1>2. ASSUME NEW c \in Callers, Found(c) \/ Misses(c) PROVE Typed'
  BY <1>2 DEF Found, Misses, Typed, TypeOK, Numbered
<1>3. ASSUME NEW c \in Callers, Insert(c) PROVE Typed'
  BY <1>3, StepInsert
<1>4. ASSUME NEW q \in Queries, Thread(q) PROVE Typed'
  BY <1>4, StepThread
<1>5. CASE UNCHANGED vars
  BY <1>5 DEF vars, Typed, TypeOK, Numbered
<1> QED  BY <1>1, <1>2, <1>3, <1>4, <1>5 DEF Next, Caller

\* The table, the callers and the threads of the queries keep their types.
THEOREM TypeCorrect == Spec => []TypeOK
<1>1. Typed => TypeOK
  BY DEF Typed
<1> QED  BY <1>1, InitTyped, StepTyped, PTL DEF Spec

----------------------------------------------------------------------------
(* One query for a device                                                  *)

\* As long as no look-up has met a change: a running query has an entry of its
\* own, which is the one in the table, and a call about to insert its device
\* will not find it there.
Apart ==
  ~overlap =>
    /\ \A q \in Queries : Running(q) =>
         /\ sWakeupQueryTaskTbl[about[q]] = q
         /\ task[q] = q /\ callback[q] = q
    /\ \A q \in Queries : answers[q] \subseteq {q}
    /\ \A c \in Callers : pc[c] = "find" => ~disturbed[c]
    /\ \A c \in Callers : pc[c] = "insert" => sWakeupQueryTaskTbl[uid[c]] = 0

LEMMA InitApart == Init => Apart
BY DEF Init, Apart, Running

LEMMA InsertApart ==
  ASSUME Typed, Apart, NEW c \in Callers, Insert(c)
  PROVE  Apart'
<1> DEFINE q == created + 1
<1> SUFFICES ASSUME ~overlap' PROVE Apart'
  BY DEF Apart
<1>0. MaxQueries \in Nat /\ created \in Nat /\ ~overlap
  BY OnlineQueryAssumption DEF Insert, Typed, TypeOK
<1>1. /\ \A r \in Queries : Running(r) =>
           /\ sWakeupQueryTaskTbl[about[r]] = r /\ task[r] = r /\ callback[r] = r
      /\ \A r \in Queries : answers[r] \subseteq {r}
      /\ \A d \in Callers : pc[d] = "insert" => sWakeupQueryTaskTbl[uid[d]] = 0
  BY <1>0 DEF Apart
<1>2. pc[c] = "insert" /\ sWakeupQueryTaskTbl[uid[c]] = 0 /\ uid[c] \in Uids
  BY <1>1 DEF Insert, Typed, TypeOK
<1>3. /\ sWakeupQueryTaskTbl' = [sWakeupQueryTaskTbl EXCEPT ![uid[c]] = q]
      /\ callback' = [callback EXCEPT ![q] = q]
      /\ task' = [task EXCEPT ![q] = q]
      /\ about' = [about EXCEPT ![q] = uid[c]]
      /\ thread' = [thread EXCEPT ![q] = "query"]
      /\ pc' = [pc EXCEPT ![c] = "idle"]
      /\ UNCHANGED <<uid, answers>>
      /\ \A d \in Callers \ {c} :
           pc[d] # "find" /\ ~(pc[d] = "insert" /\ uid[d] = uid[c])
  BY <1>2 DEF Insert
<1>4. q \in Queries /\ q # 0
  BY <1>0 DEF Insert, Queries
<1> HIDE DEF q
<1>5. ASSUME NEW r \in Queries, Running(r)'
      PROVE  /\ sWakeupQueryTaskTbl'[about'[r]] = r
             /\ task'[r] = r /\ callback'[r] = r
  <2>1. CASE r = q
    BY <1>2, <1>3, <1>4, <2>1 DEF Typed, TypeOK
  <2>2. CASE r # q
    <3>1. Running(r) /\ about'[r] = about[r] /\ task'[r] = task[r]
          /\ callback'[r] = callback[r]
      BY <1>3, <1>5, <2>2 DEF Running, Typed, TypeOK
    <3>2. sWakeupQueryTaskTbl[about[r]] = r /\ r # 0
      BY <1>0, <1>1, <3>1 DEF Queries
    <3>3. about[r] # uid[c]
      BY <1>2, <3>2
    <3> QED  BY <1>1, <1>3, <3>1, <3>2, <3>3 DEF Typed, TypeOK
  <2> QED  BY <2>1, <2>2
<1>6. ASSUME NEW d \in Callers, pc'[d] = "insert"
      PROVE  sWakeupQueryTaskTbl'[uid'[d]] = 0
  <2>1. d # c /\ pc[d] = "insert" /\ uid'[d] = uid[d]
    BY <1>3, <1>6 DEF Typed, TypeOK
  <2>2. uid[d] # uid[c]
    BY <1>3, <2>1
  <2> QED  BY <1>1, <1>3, <2>1, <2>2 DEF Typed, TypeOK
<1>7. ASSUME NEW d \in Callers PROVE pc'[d] # "find"
  BY <1>3 DEF Typed, TypeOK
<1> QED  BY <1>1, <1>3, <1>5, <1>6, <1>7 DEF Apart

LEMMA EraseApart ==
  ASSUME Typed, Apart, NEW q \in Queries, Erases(q)
  PROVE  Apart'
<1> SUFFICES ASSUME ~overlap' PROVE Apart'
  BY DEF Apart
<1>0. ~overlap /\ \A c \in Callers : pc[c] # "find"
  BY DEF Erases
<1>1. /\ \A r \in Queries : Running(r) =>
           /\ sWakeupQueryTaskTbl[about[r]] = r /\ task[r] = r /\ callback[r] = r
      /\ \A r \in Queries : answers[r] \subseteq {r}
      /\ \A c \in Callers : pc[c] = "insert" => sWakeupQueryTaskTbl[uid[c]] = 0
  BY <1>0 DEF Apart
<1>2. /\ thread' = [thread EXCEPT ![q] = "ended"] /\ Running(q)
      /\ sWakeupQueryTaskTbl' = [sWakeupQueryTaskTbl EXCEPT ![about[q]] = 0]
      /\ UNCHANGED <<pc, uid, about, task, callback, answers>>
  BY DEF Erases, EraseEntry, Running
<1>3. ASSUME NEW r \in Queries, Running(r)'
      PROVE  sWakeupQueryTaskTbl'[about[r]] = r /\ task[r] = r /\ callback[r] = r
  <2>1. r # q /\ Running(r)
    BY <1>2, <1>3 DEF Running, Typed, TypeOK
  <2>2. about[r] # about[q]
    BY <1>1, <1>2, <2>1
  <2> QED  BY <1>1, <1>2, <2>1, <2>2 DEF Typed, TypeOK
<1>4. ASSUME NEW c \in Callers, pc[c] = "insert"
      PROVE  sWakeupQueryTaskTbl'[uid[c]] = 0
  BY <1>1, <1>2, <1>4 DEF Typed, TypeOK
<1> QED  BY <1>0, <1>1, <1>2, <1>3, <1>4 DEF Apart, Running

LEMMA StepApart == Typed /\ Apart /\ [Next]_vars => Apart'
<1> SUFFICES ASSUME Typed, Apart, [Next]_vars PROVE Apart'
  OBVIOUS
<1>1. ASSUME NEW c \in Callers, NEW u \in Uids, LooksUp(c, u) PROVE Apart'
  BY <1>1 DEF LooksUp, Apart, Running, Typed, TypeOK
<1>2. ASSUME NEW c \in Callers, Found(c) PROVE Apart'
  BY <1>2 DEF Found, Apart, Running, Typed, TypeOK
<1>3. ASSUME NEW c \in Callers, Misses(c) PROVE Apart'
  BY <1>3 DEF Misses, Absent, Apart, Running, Typed, TypeOK
<1>4. ASSUME NEW c \in Callers, Insert(c) PROVE Apart'
  BY <1>4, InsertApart
<1>5. ASSUME NEW q \in Queries, Queried(q) \/ CallsNobody(q) PROVE Apart'
  BY <1>5 DEF Queried, CallsNobody, Apart, Running, Typed, TypeOK
<1>6. ASSUME NEW q \in Queries, CallsBack(q) PROVE Apart'
  <2> SUFFICES ASSUME ~overlap' PROVE Apart'
    BY DEF Apart
  <2>1. ~overlap /\ Running(q)
    BY <1>6 DEF CallsBack, Running
  <2>2. CallbackOf(q) = q
    BY <2>1 DEF Apart, CallbackOf
  <2>3. answers' = [answers EXCEPT ![q] = @ \cup {q}]
    BY <1>6, <2>2 DEF CallsBack
  <2>4. \A r \in Queries : answers'[r] \subseteq {r}
    BY <2>1, <2>3 DEF Apart, Typed, TypeOK
  <2> QED  BY <1>6, <2>1, <2>4 DEF CallsBack, Apart, Running, Typed, TypeOK
<1>7. ASSUME NEW q \in Queries, Erases(q) PROVE Apart'
  BY <1>7, EraseApart
<1>8. CASE UNCHANGED vars
  BY <1>8 DEF vars, Apart, Running
<1> QED  BY <1>1, <1>2, <1>3, <1>4, <1>5, <1>6, <1>7, <1>8 DEF Next, Caller, Thread

\* As long as no look-up meets a change of the table, each device has one query
\* with an entry nobody frees, and an accepted call no answer but its own.
THEOREM OneQuery == Spec => []OneQueryPerDevice
<1>1. Init => Typed /\ Apart
  BY InitTyped, InitApart
<1>2. Typed /\ Apart /\ [Next]_vars => (Typed /\ Apart)'
  BY StepTyped, StepApart
<1>3. Apart => OneQueryPerDevice
  BY DEF Apart, OneQueryPerDevice
<1> QED  BY <1>1, <1>2, <1>3, PTL DEF Spec
============================================================================
