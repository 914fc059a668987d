\* One application thread, two sessions, and devices with and without
\* encryption support.  The system may stop for good: EC_Logout and the
\* garbage collection deadlock with a login result.
CONSTANTS
  a1 = a1
  a2 = a2
  MaxLogins = 2
  Apps <- OneThread
  SerialLogins = TRUE
  OldDevices = TRUE
  Unasked <- RepeatsFirst
SPECIFICATION FairSpec
CHECK_DEADLOCK FALSE
INVARIANTS
  TypeOK
  NoThreadOutlivesClient
  OneResultPerLogin
PROPERTIES
  NoResultAfterLogout
  LogoutReturnsOrDeadlocks
  SessionsCollected
