\* One login with a single kind, whose broadcast thread may be slow to start.
CONSTANTS
  ConnectType <- LanOnly
  MaxAttempts = 1
  NoSession = NoSession
  MayLogout = FALSE
  OtherLogins = FALSE
SPECIFICATION FairSpec
PROPERTIES
  LoginTimesOut
