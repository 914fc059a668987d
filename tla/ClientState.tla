----------------------------- MODULE ClientState -----------------------------
(***************************************************************************)
(* What the workers and the talk data path of one CEasyCamClient share     *)
(* with each other and with its teardown (see MediaThreads).               *)
(***************************************************************************)
EXTENDS Integers, Sequences

VARIABLES
  sSessionMutex,       \* "free", or what it is held for
  td,                  \* how far the teardown has come
  mSockHandle,         \* is mSockHandle >= 0?
  link,                \* is the link session alive?
  mHasBrokenDetected

clientVars == <<sSessionMutex, td, mSockHandle, link, mHasBrokenDetected>>

ClientTypeOK ==
  /\ sSessionMutex \in {"free", "command", "logout", "gc", "deinit"}
  /\ td \in {"none", "loCmd", "loSender", "loClear", "loAv", "loggedOut",
             "gcJoins", "gcWaits", "gcSender", "deleted", "collected"}
  /\ mSockHandle \in BOOLEAN
  /\ link \in BOOLEAN
  /\ mHasBrokenDetected \in BOOLEAN

ClientInit ==
  /\ sSessionMutex = "free" /\ td = "none"
  /\ mSockHandle = FALSE /\ link = TRUE
  /\ mHasBrokenDetected = FALSE

\* The client has the session that LINK_ConnectByServer opened.  logOut waits
\* for connectTimeThread, the garbage collection needs a link that broke.
Connected ==
  /\ td = "none"
  /\ ~mSockHandle /\ mSockHandle' = TRUE
  /\ UNCHANGED <<sSessionMutex, td, link, mHasBrokenDetected>>

LinkBreaks ==
  /\ mSockHandle /\ link /\ link' = FALSE
  /\ UNCHANGED <<sSessionMutex, td, mSockHandle, mHasBrokenDetected>>

\* An entry point finds the client in the session list and locks the table.
Callable == sSessionMutex = "free" /\ td \in {"none", "loggedOut"}
============================================================================
