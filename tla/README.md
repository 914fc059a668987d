# WeHomeSDK: a TLA+ model

WeHomeSDK is a C/C++ library that connects an application to battery cameras
and doorbells over a closed P2P library (`LINK_*`, not in the repository).  An
application logs in to a device, sends JSON commands, receives audio, video,
playback and file data through callbacks, and logs out.  The library is heavily
threaded and shares most of its state without locks.  This directory models that
part of it: who may run when, who owns what, and what still ends.

Paths below are relative to `src/WeHomeSDK/src/` unless they say otherwise.

## 1. Inventory

| component | state | operations | correct when | modelled in |
|---|---|---|---|---|
| connection race (`CEasyCamClient.cpp` 292-1145) | run and break flags, a handle and a success flag per kind of connection, `mSockHandle`, thread ids | `logIn`, three connect threads, `broadcastThread`, `connectTimeThread`, `logOut` | one session is kept, every other one is closed, no thread is left behind, the login ends | `Connect` |
| command path (1147-1307, 1413-1647, 2084-2220) | `mCmdQueue`, its enable flag and mutex, `mCmdMsgMutex`, the message being written | `sendCommand`, `sendLoginCmd`, `addCmdToQueue`, `getCmdFromQueue`, `clearCmdQueue`, `cmdSendThread`, `joinThreads`, destructor | each block is deleted once, messages go out in order and whole, the teardown ends | `CmdQueue` |
| session table (`EasyCamSdk.cpp` 91-294, 335-401, 492-565, 738-819) | `sSessionIndex`, `sSessionList` with handle, client and `refCnt`, `sBrokenSessionQueue` and their mutexes | `EC_Login`, `EC_Logout`, station variants, `EC_DeInitialize`, garbage collection (GC), callbacks of the clients | a handle names one session, a client is deleted once and after its threads, a login is answered at most once | `Sessions` |
| stream threads (`CEasyCamClient.cpp` 1795-2082, 2352-3156) | a receive buffer per thread | append, parse whole frames, resynchronise, hand to a callback | what is handled is what was sent, in order, none of it late | `StreamParser` |
| receiving threads (979-993, 1096-1143, 1206-1302, 1413-1453) | run flag, thread and "has started" flag for commands, audio and video, playback, file download, PIR | the first two started with the connection, the others started, stopped and joined by command number; joined by teardowns | one thread of each at a time, none outlives its client, a join ends | `Workers`, `MediaThreads` |
| talk data (1309-1406, 1536-1602, 2222-2350) | queue of audio packets | `sendTalkData`, `audioSendThread`, `clearTalkDataQueue` | as for commands | `TalkQueue`, `MediaThreads` |
| online query (`EasyCamSdk.cpp` 404-490) | table of running queries | `EC_QueryOnlineStatus`, query thread | one query for a device, at most one answer for each, every entry goes away | `OnlineQuery` |
| discovery (`Discovery.cpp`) | device list, receive buffer, cancel flags | search, stop, list; station configuration | each device once, an answer that arrived is listed, a stop returns | `Discovery` |
| login protocol (1716-1785) | `mToken`, `mIsRsaLogin` | mapping of result codes, retry without encryption | a refusal is retried once, or reported | the retry: `Sessions`; the codes: no |
| logs (`ECLog.cpp`) | file, index | print, rotate | | no: nothing in the repository calls `setLogFilePath`, so there is no file to rotate |
| JNI, YUV, platform, ciphers, codecs, cJSON, demos | none of interest | | | no: glue, pure functions, vendored or example code |

How they interact.  `EC_Login` creates a client, appends it to the list and calls
`logIn`, which starts the threads of the connection race.  `connectTimeThread`
queues the login command and starts the receiving threads; `cmdSendThread` runs
since the constructor.  `cmdRecvThread` calls `EC_OnLoginResult`, which takes
`sSessionMutex` and may queue a second login.  Whichever thread sees the link
fail calls `EC_OnConnectionBroken`, which queues the session's handle for the GC.
The GC, `EC_Logout`, `EC_DeInitialize` and `EC_SendCommand` all hold
`sSessionMutex` while they work, and all of them join threads under it:
`EC_SendCommand` those of playback, file download and PIR, which it starts and
stops by the number of the command, the others `cmdRecvThread` and
`avRecvThread`.  The callbacks of these threads may
themselves call the SDK.  Online queries and discovery stand apart: each has its
own threads and its own table.

The hard behaviours are therefore: joins under a mutex that the joined thread
may want, two mutexes taken in two orders, thread ids and flags shared without a
lock, handles that are closed by one thread and published by another, a queue
that is disabled and cleared while others add to it, a byte stream that is cut
into reads anywhere and joined in the middle of a frame, a table looked up
before it is locked, and calls that may come at any moment (a logout during a
login, a break during either).  `PROJECT.json`
lists each at its line, with the properties that watch it.

## 2. Modules

| module | models | state and actions |
|---|---|---|
| `Connect` | the connection race of one client | `pc[k]` is the place of the connect thread of kind `k`, `ct` and `lo` those of `connectTimeThread` and `logOut`; `open` are the sessions that the link library holds |
| `CmdQueue` | the command path of one client | `sp`, `lp`, `td` are the places of `cmdSendThread`, of the login, and of whichever teardown runs; `block[m]` is what became of the heap block of message `m` |
| `Sessions` | the session table with its GC, several clients | `ap`, `gc` are the places of application threads and GC, `ct`, `recv` those of each client's threads; `logout` is what `EC_Logout` did when it returned, joined the threads or skipped the session (`LogoutSkips`) |
| `StreamParser` | one receiving thread and its channel | `buf` holds for each cell its place in the stream, so that a wrong copy shows; one step of the parse loop is one action (`SkipByte`, `HandleFrame`, `EndPass`); `handled` and `calls` record what reached `handleMsg` and the application; `pc` is "outside" once the thread has read or written outside of its buffer (`ReadOverruns`, `HandlesOutside`) |
| `ClientState` | what the next two share | `sSessionMutex` by what it is held for, `td` by how far the teardown has come, the state of the link |
| `Workers` | the receiving threads of one client: `cmdRecvThread`, `avRecvThread`, and those for playback, files and PIR data | `worker[<<k, i>>]` is the place of the `i`-th thread of kind `k`, `mThread[k]` the id kept; `StartReceivers` starts the first two, `SendCommand` and `CommandJoins` are `EC_SendCommand` up to and after its join of one of the others |
| `TalkQueue` | talk packets and `audioSendThread` | `packet[p]` is what became of the heap block of packet `p` |
| `MediaThreads` | `Workers` and `TalkQueue` composed, with the three teardowns | `EC_Logout` and `EC_DeInitialize` go through `LogOut`, `LogOutJoinsCmd`, `LogOutJoinsSender`, `LogOutClears`, `LogOutEnds`; the GC through `Collect`, `GcStops`, `GcJoins`, `GcCloses`, `GcDeletes` |
| `OnlineQuery` | the table of running queries | `pc[c]` is the place of each call, `thread[q]` of each query thread; `task[q]` is the entry it works with |
| `Discovery` | device search and station configuration | `sp` is the place of `startDevSearch`, `ct[i]` that of the `i`-th configuration thread; a cell is four bytes, a header two of them; one step of `parseData`'s loop is one action (`SkipByte`, `TakeFrame`, `EndParse`) |
| `LossyFifo` | what the command path and the talk path promise | messages leave in the order in which they were taken on, none twice, any may be lost |
| `MC...` | instances for TLC | sets for the `.cfg` files; `MCStreamParser` builds the streams of up to three frames |
| `Connect_proofs`, `CmdQueue_proofs`, `Sessions_proofs`, `StreamParser_proofs`, `MediaThreads_proofs`, `OnlineQuery_proofs`, `Discovery_proofs` | theorems | section 5 |

A step is one access to shared state that another thread may race with, or one
critical section if the mutex is held over that section only.  Code that only
logs, formats or copies is left out.  The three connect threads have the same
code up to the kind and share one set of actions; so have the five receiving
threads, up to channel, buffer size and whether the parse loop tests the run
flag (`TestsRun`), and the map names `cmdRecvThread`'s copy.  (`avUdpRecvThread`
is created nowhere.)  A session is a pair of kind and number; a frame is `Size`
units of writing; a message or packet is a model value; in `StreamParser` a
header is two cells, one for the magic and one for length and id.

`Sessions` abstracts what `Connect` and `CmdQueue` model in detail: a connection
"wins" or "fails", and the login command is queued or refused.  `Connect` stops
where `StartSession` hands the chosen session to the command path; `CmdQueue`
and `MediaThreads` start there with `Connected`.  `MediaThreads` leaves to
`StreamParser` what a thread does with its bytes, and to `CmdQueue` what the same
teardowns do to the command path, and to `Connect` what `logOut` does before it
joins `cmdRecvThread`.  `Sessions` has no callback that calls the SDK, and its
`connectTimeThread` ends: the deadlocks of the first are those of `MediaThreads`,
the login that the second holds up for ever is that of `connect_timeout`.

Assumptions about what is outside `src/`:

* `LINK_ConnectByServer` either fails or opens a new session; the call ends when
  `LINK_Connect_Break` is called, which has no argument and ends every such call
  of the process (`BreakCalls`, `ForeignBreak`).
* `LINK_Write` takes any part of what it is given, or nothing, or fails once the
  link is down or the handle closed.
* `LINK_Read` returns the next bytes of its channel, any number up to the length
  asked for, in order and each once, or nothing, or fails.
* A device sends whole frames, none so long that the rest of one and a read do not
  fit into the receive buffer together, which no code tests
  (`StreamParserAssumption`; the hazard is at line 2390).  Only frames that are
  sent are bounded: their payloads hold anything, headers that announce any
  length among it.  Such a header is met only once cells have been thrown away, by
  a restart or by the budget of 1000 frames in a pass; the thread may then wait
  for that length until its buffer is overrun, or, where `size_t` has 32 bits,
  compute a sum that wraps (`SizeMod`).  `NoOverrun` excepts this.  The budget is
  spent for real: a read of 20480 bytes holds more than 1001 frames of 20 bytes,
  so nothing is assumed of how short a frame may be.
* A device answers a login command at most once, but it may repeat an answer or
  send one unasked, up to `Unasked` times: the code passes each on.
* An `int` in a datagram, `dataLen`, has any value, also below 0.
* A second `pthread_join` of a thread, or a join with an id that is 0, is
  undefined; `Connect` takes the outcome of the C libraries this SDK is built
  for, which is to return at once.  It is the interesting one: the caller goes on
  while the thread still runs.  `Workers` shows that no worker is joined twice,
  but an uninitialised flag may have `EC_SendCommand` join id 0.
* Using a client after it was deleted is undefined; `Sessions` and `Workers` model
  a thread up to that point, and say which threads can get there
  (`NoThreadOutlivesClient`, `NoWorkerOutlivesCollection`).
* A look-up in a `std::map` that another thread changes meanwhile may find or
  miss anything; `OnlineQuery` records that it happened in `overlap`.
* `parseData` of `Discovery.cpp` may copy from past its buffer into the static
  data behind it; what it finds there is taken to hold no header.
* A datagram of the search has at least a byte and fits into the receive buffer,
  as `recvfrom` is given less room than `parseData` has (`DiscoveryAssumption`).
* `LINK_WakeUp_Query` returns, as its timeout promises.

## 3. Runs

| run | instance | shows |
|---|---|---|
| `connect_race` | 3 kinds, 1 session each, foreign breaks | one session survives (`ChosenSessionLives`), the others are closed (`NoStraySession`), no thread is running when the outcome is known, and there is an outcome (`LoginResolves`) |
| `connect_logout` | 2 kinds, 2 sessions each, `logOut` at any moment | what a `logOut` may leave open (`LogoutLeavesNothing`) and that it returns |
| `connect_timeout` | 1 kind | **violation**: a `broadcastThread` scheduled late sets `mBroadcastThreadRun` again and `connectTimeThread` joins it for ever |
| `cmd_path` | 3 messages, queue of 2, 2 turns, 2 units | ownership of blocks, whole frames, order of delivery, and that every teardown ends or is in the lock order deadlock |
| `cmd_lock_order` | the same | **violation**: `mCmdQueueMutex` and `mCmdMsgMutex` are taken in opposite orders |
| `session_table` | 1 application thread, 2 sessions, devices with and without encryption, one login answer too many | a client is deleted after its threads, one result per login, none after logout, clients are collected |
| `session_logout` | the same | **violation**: `EC_Logout` deadlocks with a refused login |
| `session_handles` | 2 application threads | **violation**: two concurrent logins share a handle |
| `receiver` | every stream of up to 3 frames of 5 shapes, reads of up to 4 cells, two frames in a pass, one restart | the buffer is never overrun (`NoOverrun`), what was sent is what is handled (`HandledAsSent`), in order and once (`HandledInOrder`), at once (`NothingWithheld`), and a restarted worker finds back into the stream (`Resynchronises`) |
| `media_threads` | `cmdRecvThread`, `avRecvThread` and two PIR threads, two packets, all teardowns | one reader for a channel, who outlives the client, who owns a packet, order of the audio, and that `sSessionMutex` comes free |
| `online_query` | 2 callers, 2 devices, 3 queries | one query for a device (`OneQueryPerDevice`) whose entry goes away again (`QueriesEnd`) |
| `discovery` | 2 devices, 2 rounds of 3 datagrams of 9 kinds, one configuration thread | answers that arrive in an unspoilt round are listed (`AnswersListed`), and a stop is noticed (`StopsReturn`) |

Some things a reader might not expect hold only with an exception that the
property names, and each exception is a weakness of the code:

* Sessions given up by the ACK timeout are never closed (`CEasyCamClient.cpp:490`,
  also 640 and 788), and a session won while `logOut` was the one that joined its
  thread stays open.
* `NoThreadOutlivesClient` excepts clients whose link broke while
  `connectTimeThread` was still starting the session, because `joinThreads` does
  not join that thread.
* `LeaksRefusedOrLate` names the blocks that nobody deletes: those that a full or
  closed queue refused (their callers do not, 1199 and 1637), and a login command
  that passed the test of `mCmdQueueEnable` before the queue was closed.
* `OneResultPerLogin` counts one result more for each answer that the device sent
  unasked: `handleMsg` compares no answer with the commands sent.
* `NoResultAfterLogout` excepts an `EC_Logout` that found no reference
  (`EasyCamSdk.cpp:550`) because the GC had just taken it: the call joins nothing,
  and `cmdRecvThread` may report until the GC has joined it.
* `NoWorkerOutlivesCollection` excepts the PIR thread, which `joinThreads` forgets.
  After `logOut`, and so after `EC_DeInitialize`, it covers `cmdRecvThread` and
  `avRecvThread` only, as `logOut` joins none of the others.
* `PacketsOwned` frees every packet only after `logOut`: packets still queued when
  the GC deletes a client, and packets refused by a full queue, leak.
* `MutexReleasedOrDeadlock` and `LogoutReturnsOrDeadlocks` except a callback that
  waits for `sSessionMutex` while its holder joins the callback's thread.  In
  `MediaThreads` that is any callback that calls the SDK, of a command, a video
  frame or PIR data, while a command, `EC_Logout`, `EC_DeInitialize` or the GC
  joins its thread.
* `OneQueryPerDevice` excepts look-ups that overlap with a change of the table.
* `HandledAsSent` says nothing once cells were thrown away, by a restart in the
  middle of a frame or by the budget.  From there on `NoOverrun`, `NothingWithheld`
  and `Resynchronises` except streams whose payloads look like headers: a phantom
  frame may swallow the next real ones, or announce more than the buffer holds.
  `HandledInOrder` has no exception.
* `AnswersListed` excepts rounds in which a foreign or broken datagram arrived,
  because `parseData` then keeps the wrong bytes (`Discovery.cpp:269`).
* `StopsReturn` excepts a stop that comes before `startDevSearch` resets the flag,
  and a datagram with a `dataLen` of -8: with the header's 8 bytes it makes a frame
  of no length, at which `parseData` stays for ever (`Discovery.cpp:186`, 191).

Runs that check no deadlock of TLC's say so in their `.cfg`: the modelled program
can stop for good there (a deleted client, a finished search or query, one of
the deadlocks above), and the liveness properties say where.

### Bounds

* `ConnectType`, `MaxAttempts`: three kinds with one session each, or two kinds
  with two, so that a retry after an ACK timeout and a race of winners both
  happen.  More sessions repeat the loop; the theorems hold for any number.
* `MAX_CMD_QUEUE_SIZE = 2` (20 in the code) with three messages: the queue gets
  full, the login command may be the one refused.  `MaxRetries = 2` (100 in the
  code), `Size = 2`: a message may be written at once, in two pieces, partly, or
  not at all.
* `MaxLogins = 2`: two sessions, so that a handle, a broken report and a
  collection can be of the wrong one.  The broken queue and the results have no
  bound.
* `Unasked`: one answer too many for the first session, none for the second.
* `receiver`: a payload is empty, data, or a header: for one cell, so that a restart
  can begin anywhere and be misled; for as many as the buffer has; or for so many
  that the sum wraps (`SizeMod = 100`).  `ReadMax = 4` and `BufSize = 7` are the
  smallest that let a read hold two frames and a buffer be full.  `Budget = 0`
  (1000 in the code): the second frame of a pass spends it.  `TestsRun = TRUE` is
  the loop of the workers; `cmdRecvThread` differs in one test and is covered by
  the proofs.
* `media_threads`: `cmdRecvThread` is the thread that `logOut` joins first,
  `avRecvThread` the one it joins last, both are joined by the GC, and the PIR
  thread is started by command and joined by neither.  Playback and file download
  have the code of PIR in `EC_SendCommand` and that of the other two in
  `joinThreads`; the proofs hold for any choice of the five.  Two PIR threads are a
  start, a stop and a start again.  Two packets, `MaxTurns = 1` and `Size = 2`: a
  packet may be given up half written while another is queued.
* `online_query`: three queries, so that a third call meets the end of a first
  query while a second runs.
* `discovery`: a buffer of nine cells and datagrams of up to six, so that two or
  three of them fill or overflow it; `dataLen`s of -1, -2 and -3 cells, which make
  a frame shorter than its header, one of no length, and one that counts as longer
  than any buffer; a list of two slots.

### Fairness

Weak fairness of each thread the operating system schedules: connect threads,
`broadcastThread`, `connectTimeThread`, `cmdSendThread`, `audioSendThread`, the
receiving threads, the query and configuration threads, the GC (which polls every
100 ms) and a call of the application that has begun.  Mutexes are not assumed to
be fair, but for one case: in `MediaThreads` a callback that waits for
`sSessionMutex` gets it if it is free for good.  `LINK_ConnectByServer`,
`LINK_Read` and `LINK_WakeUp_Query` are assumed to return, which the timeouts in
their arguments promise.  `StreamParser` adds that what a device has sent is read
in the end by a thread that keeps reading (strong fairness of `ReadSome`: a read
may time out any number of times in between).  That a device search ends is not
left to its second running out.  Nothing forces the application to call, a device
to answer or a link to break.

## 4. Findings

1. `CEasyCamClient.cpp:1658`: `broadcastThread` sets its own run flag
   (`connect_timeout`).
2. `CEasyCamClient.cpp:1523` against `:2111`: lock order (`cmd_lock_order`).
3. `EasyCamSdk.cpp:258` against `:547`: `EC_OnLoginResult` wants the mutex that
   `EC_Logout` holds while it joins the caller (`session_logout`).
4. `EasyCamSdk.cpp:501` and `:522`: `sSessionIndex` without the lock
   (`session_handles`).

## 5. Proofs

`tlapm` checks seven proof modules to the last leaf, from the assumptions on the
constants alone (`ConnectAssumption`, `CmdQueueAssumption`, `SessionsAssumption`,
`StreamParserAssumption`, `WorkersAssumption`, `TalkQueueAssumption`,
`OnlineQueryAssumption`, `DiscoveryAssumption`).  Most say that a bound is positive and that a name like
"gc" is no application thread; those with content are
`StreamParserAssumption`, about the frames that a device sends, and
`DiscoveryAssumption`, about the length of a datagram (section 2).  The application is assumed to call
`EC_Login` from one thread at a time (`SerialLogins`) where a theorem says so.

`Connect_proofs` holds for every set of kinds, every number of attempts, with or
without `logOut` and foreign breaks.  The five invariants of the two passing
runs of `Connect` follow from one inductive invariant in three layers, each
inductive given the ones before:

* `Typed`: `TypeOK`, and a thread that is past `LINK_ConnectByServer` has a
  session of its kind in `ret`.  `TypeOK` alone is not inductive, as the ACK
  timeout would put the handle -1 among the sessions given up.
* `Joins`: a thread that one of the two joiners has claimed has ended or is
  still being waited for, and a joiner that has gone past a thread knows that
  somebody claimed it.  This is what two `pthread_join`s of one thread are worth,
  and gives `ThreadsEndBeforeOutcome`.
* `Hands`: the handle of every open session is in exactly one place (the thread's
  `ret`, its published handle, or among those given up), published handles are
  open until `logOut` closes them, and after the losers are closed only the
  chosen handle is left among the threads `connectTimeThread` joined.  The
  numbering of sessions shows that a new one was never given up before.  This
  gives `ChosenSessionLives`, `NoStraySession` and `LogoutLeavesNothing`.

`CmdQueue_proofs` holds for every set of messages, queue size, number of retries
and message length.  Its inductive invariant has five layers:

* `Typed`: `TypeOK`, and a sender in its write loop has a message.
* `Locks`: the places at which `cmdSendThread` holds `mCmdMsgMutex` and
  `clearCmdQueue` holds `mCmdQueueMutex`.
* `Phases`: what a teardown that has come so far has stopped: the login, then
  `cmdSendThread`, then the queue.  `EC_SendCommand` finds the queue disabled;
  only the login command can still get into a queue that the GC has emptied.
* `Blocks`: a block is queued if and only if it is at one place of the queue
  that `clearCmdQueue` has not reached, and is being sent if and only if
  `cmdSendThread` has it.  This gives `NoDanglingMessage` and, with `Phases`,
  `LogoutFreesAll` and `LeaksRefusedOrLate`.
* `Frames`: every frame on the wire is complete, given up, the one being
  written, or the last one there will ever be, because what stops the sender
  in the middle of a frame (the run flag, a link that is down, a closed
  handle) is never undone.  This gives `FramesWhole`.

`Order`, on top of these, says that the last message delivered, the one being
sent and those in the queue were accepted in that order; every step is then an
`Accept`, a `Deliver` or a stutter of `LossyFifo`, which is `ImplementsFifo`.

`Sessions_proofs` holds for every set of application threads and every number of
logins.  Its layers, each inductive given the ones before:

* `Typed`: `TypeOK`, the places at which a call or the GC holds `sSessionMutex`,
  and those at which it has a client.
* `Table`: the list holds the clients that exist, each once, but for those that
  an `EC_Login` is about to append; nothing has happened to these yet.
* `Quiet`: a client that was told to stop has ended, or the call that told it is
  about to join its threads.
* `Past`: what `EC_Logout` joined has ended; what it skipped is in the list without
  a reference, which is so only after such a join or in the pass of the GC that
  deletes it.  With `Quiet` this gives `NoResultAfterLogout`, with any number of
  concurrent logins.
* `Numbered`, under `SerialLogins`: handles count the logins, so no two are equal
  (`UniqueIfSerial`).  Without the assumption this fails, as `session_handles`
  shows.
* `Broken` and `Collected`, under `SerialLogins`: a handle in the queue of broken
  sessions is that of a client whose connection broke, and such a client has no
  `connectTimeThread` left unless the break came early; what the GC collects has
  therefore ended.  `Numbered` is needed here: a second client with the same
  handle would lose its reference without having broken.  This gives
  `ThreadsEndFirst`.
* `Due`, under `SerialLogins`: the results told to the application, and those that
  may still come (a login that is being started, a command not answered, a
  refusal about to be handled), are together at most one, and one more for each
  answer sent unasked.  This gives `ResultOnce`.

`StreamParser_proofs` holds for every set of streams of whole frames, every size of
buffer and read that `StreamParserAssumption` admits, every budget, any number of
restarts, and with or without the test of the run flag in the parse loop, so for
`cmdRecvThread` as well as for the workers:

* `Window`: the buffer holds consecutive places of the stream, the last of which
  was read last.
* `Left`: what is left in the buffer before a read holds no whole frame where it
  begins.
* `Kept`: as long as no cell was thrown away, parsing stands where a frame begins.
  This gives `AsSent`.  So every header met is one that was sent, and the same
  holds of streams in which only headers look like headers (`Clear` is that one
  of the two is so).  With `Left`, what precedes a read is then less than one frame
  that was sent, and the read fits: this gives `Fits`.
* `Settled`, given `Clear`: a frame that begins before the place where parsing
  stands was handled, or some of its cells are lost.  With `Left` this gives
  `NothingKeptBack`.  It rests on the frames of a stream lying apart (`Apart`),
  which is shown by a least counterexample, as induction over the frames is out
  of reach.
* `FramesInOrder`, `CallsInOrder`: what was handled lies before the place where
  parsing stands.  This gives `InOrder`, whatever the restarts and the payloads.

Without `Clear` the bound on the buffer fails, and the module says so instead of
assuming it away: the length in a phantom header is arbitrary.

`MediaThreads_proofs` holds for every choice of kinds, packets and bounds:

* `Locks`, `Pool`, `Joining`: who holds `sSessionMutex`; of each kind only the last
  thread may be alive, and then its flag is set; only a kind whose flag is set is
  joined.  `Pool` gives `OneReader`.  `Fresh`: before the connection no receiver
  was started.
* `Torn`: what `logOut` or the GC has joined stays joined, as nobody else gets
  `sSessionMutex` to start a thread.  This gives `WorkersEnd`.
* `Owned`: a packet is queued if and only if it is at one place of the queue, and
  is being sent if and only if `audioSendThread` has it.  This gives `PacketsKept`.
* `Order`, as for the command path, gives `TalkImplementsFifo`: the audio path
  implements `LossyFifo` too.

`OnlineQuery_proofs` holds for every set of callers and devices: entries are numbered
by creation (`Numbered`), and as long as no look-up has met a change of the table a
running query has an entry of its own that is in the table, and a call about to
insert finds none (`Apart`).  This gives `OneQuery`.

`Discovery_proofs` holds for every set of devices, list and buffer size, number of
rounds and set of datagrams that fit:

* `Typed`: `TypeOK`, and `parsedLen` is 0 outside of `parseData`.  `TypeOK` keeps
  lengths apart, `parsedLen` within `sRecvLen` and that within the buffer; the
  bytes that compaction copies may lie behind them (section 2).
* `Filled`: the devices listed fill the list from its first slot, so one that is
  refused found it full.
* `Unspoilt`: in a round with none but whole answers, parsing stands where an
  answer begins.  The wrong offset of line 269 harms only after that has failed.
* `Listed`: every answer of such a round is listed, is refused by a full list, or
  lies in the buffer still to be parsed.  This gives `EveryAnswerListed`.

Four more theorems say what the liveness properties rest on, the absence of other
deadlocks than those of section 4 and their like.  Each defines `Awaits(t, u)`:
`t` has come to a join, a mutex, or a loop that it leaves only if told to, and
cannot go on before `u` does something.  No waits form a circle: a party that
holds a lock or tears down, or one that it waits for in one step or two, waits for
nobody.

* `OnlyBroadcastBlocks` of `Connect_proofs`: `connectTimeThread` and `logOut`, which
  join the same threads and the second of which joins the first, are blocked by
  nothing but a `broadcastThread` that undid the last stop.  Needs `Told`:
  `mNeedBreakConnect` is set, and not taken back, before a connect thread is
  joined, and only created threads are.  `RaceGoesOn` is the safety half of
  `LoginResolves` and `LogoutReturns`, with the same exception.
* `OnlyLockOrderBlocks` of `CmdQueue_proofs`: a teardown of the command path is
  blocked by `LockOrderDeadlock` alone.  Needs `Stopped`: `cmdSendThread` was told
  to stop before it is joined.
* `OnlyCallbacksBlock` of `MediaThreads_proofs`: the holder of `sSessionMutex`, in
  any of the joins of receiving threads and of `audioSendThread` that
  `EC_SendCommand`, `logOut` and the GC make, is blocked by `CallbackDeadlock`
  alone (`WorkerTold`, `AudioTold`).
* `OnlyCallbacksBlock` of `Sessions_proofs`: likewise in `EC_Logout`,
  `EC_DeInitialize` and the GC, with any number of concurrent logins.  Needs
  `Told`: a listed client has its `connectTimeThread`, which has ended when
  `cmdRecvThread` runs, so that nothing sets the run flag again after it was
  reset for the join.

That a thread which waits for nobody has a step to take cannot be said here
without `ENABLED`; the runs `connect_race`, `connect_logout`, `cmd_path`,
`session_table` and `media_threads` check it with their liveness properties.

Every invariant and every action property of a passing run is a theorem,
and so are the two refinements.  What stays with TLC is every liveness property
(the prover does not handle fairness or `ENABLED`) and the violations of
section 4.

## 6. Not modelled

* `EC_Subscribe` and its like, which call the `LINK_*` function of that name.
* The table of result codes in `handleCmdLoginResp` (`CEasyCamClient.cpp:1718`), a
  pure function of one reply.  That an unknown code, or none, counts as success is
  listed as a hazard.  So is the handle under which a refused login command is
  reported (line 983): `Sessions` counts the result, not
  the handle it carries.
* Ciphers, ADPCM, noise suppression, YUV conversion, `platform.c`: functions of
  their arguments that no thread shares.
* `ECLog.cpp`: rotates a file that nobody names.
* JNI and the Java classes copy arguments and forward callbacks; the demos are
  programs on top of the SDK.
* Life after `EC_DeInitialize`: the mutexes are destroyed and the flag
  `sHasSdkInited` stays set, so every later call is refused or undefined.
* `LINK_*`, `pthread`, cJSON, and the headers of OpenSSL and FFmpeg are vendored;
  `LINK_*` and the threads are modelled by how the code uses them.

The map covers most of the three files that are the SDK's own logic
(`CEasyCamClient.cpp`, `EasyCamSdk.cpp`, `Discovery.cpp`) and little of the
repository, nine tenths of whose lines are those vendored headers,
cJSON, the WebRTC audio processing and the demos: none has state or concurrency
that a model of this SDK could say something about.

## 7. Plan

Done: every component above that has state, with the abstract specification
`LossyFifo` and its two implementations, the proofs of every safety property of a
passing run, and the absence of other deadlocks in the four modules whose
threads join each other.

Left:

1. The login protocol: result codes and the handle of line 983.
2. The command path composed with `Sessions`, so that a teardown is one action of
   both; now each models its part of `logOut` and `joinThreads`.
3. The waits of `OnlineQuery` as a theorem of the same form.
