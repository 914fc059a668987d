\* A login with two kinds and a logOut at any moment.
CONSTANTS
  ConnectType <- LanAndP2p
  MaxAttempts = 2
  NoSession = NoSession
  MayLogout = TRUE
  OtherLogins = FALSE
SPECIFICATION FairSpec
INVARIANTS
  LogoutLeavesNothing
PROPERTIES
  LogoutReturns
