SPECIFICATION Spec
CONSTANTS
  Streams <- MCStreams
  FirstStamp <- MCFirstStamp
  FirstSeq <- MCFirstSeq
  Tick = 2
  ClockMod = 24
  SeqMod = 4
  MaxTime = 24
  MaxBacklog = 1
  MaxPauses = 3
CHECK_DEADLOCK FALSE
INVARIANTS
  StreamsInLockStep
  ClockKeepsTime
PROPERTIES
  PacketsContiguous
