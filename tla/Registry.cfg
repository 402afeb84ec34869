SPECIFICATION FairSpec
CONSTANTS
  c2 = c2
  c1 = c1
  h1 = h1
  h2 = h2
  r1 = r1
  r2 = r2
  r3 = r3
  t1 = t1
  t2 = t2
  t3 = t3
  NULL = NULL
  Batch = 1
  Calls <- MCTwoCalls
  Handles <- MCOneHandle
  Recs <- MCTwoRecs
  Threads <- MCTwoThreads
INVARIANTS
  IInv
  ReferencesAreLive
  SoleOwner
  RetiredHasHeir
PROPERTIES
  StartSuccessIsListed
  RetiredIsFreed
  OperationsReturn
  ImplementsOwnership
