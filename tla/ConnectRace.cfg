\* One login with every kind, other logins of the process breaking its calls.
CONSTANTS
  ConnectType <- AllKinds
  MaxAttempts = 1
  NoSession = NoSession
  MayLogout = FALSE
  OtherLogins = TRUE
SPECIFICATION FairSpec
INVARIANTS
  TypeOK
  NoStraySession
  ChosenSessionLives
  ThreadsEndBeforeOutcome
PROPERTIES
  LoginResolves
