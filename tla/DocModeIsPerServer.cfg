SPECIFICATION Spec
CONSTANTS
  Entries <- MCEntries
  MaxEntries = 2
  Args <- MCArgs
  Calls <- MCCalls
  ChannelNames <- MCChannelNames
  FreshUuid <- Uuid
  NoUri = NoUri
  NoArgs = NoArgs
  NoCall = NoCall
  AorLen <- MCAorLen
  MaxAttempts = 2
  Fragments <- MCFragments
  MinCap = 2
  MaxCap = 18
  SizeMax = 63
INVARIANT
  ModeIsPerServer
