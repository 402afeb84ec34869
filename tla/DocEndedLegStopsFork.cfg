SPECIFICATION LSpec
CONSTANTS
  c1 = c1
  h1 = h1
  h2 = h2
  r1 = r1
  r2 = r2
  t1 = t1
  t2 = t2
  u = u
  NULL = NULL
  Batch = 1
  Calls <- MCCalls
  Handles <- MCOneHandle
  Recs <- MCRecs
  Threads <- MCSerialThreads
  ThreadCall <- MCSerialThreadCall
  OwnThread <- MCOwnThread
CHECK_DEADLOCK FALSE
INVARIANT EndedLegStopsFork
