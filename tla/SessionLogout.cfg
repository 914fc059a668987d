\* One application thread and a device that refuses the login.
CONSTANTS
  a1 = a1
  a2 = a2
  MaxLogins = 2
  Apps <- OneThread
  SerialLogins = TRUE
  OldDevices = TRUE
  Unasked <- AnswersOnce
SPECIFICATION FairSpec
CHECK_DEADLOCK FALSE
PROPERTIES
  LogoutReturns
