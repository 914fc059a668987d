\* Two application threads log in at the same time.
CONSTANTS
  a1 = a1
  a2 = a2
  MaxLogins = 2
  Apps <- TwoThreads
  SerialLogins = FALSE
  OldDevices = FALSE
  Unasked <- AnswersOnce
SPECIFICATION Spec
INVARIANTS
  HandlesUnique
