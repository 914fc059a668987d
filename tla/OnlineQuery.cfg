\* Two callers and three queries, for the same device or for two.
\* The process may be done with its queries.
CONSTANTS
  c1 = c1
  c2 = c2
  u1 = u1
  u2 = u2
  Callers <- TwoCallers
  Uids <- TwoUids
  MaxQueries = 3
SPECIFICATION FairSpec
CHECK_DEADLOCK FALSE
INVARIANTS
  TypeOK
  OneQueryPerDevice
PROPERTIES
  QueriesEnd
