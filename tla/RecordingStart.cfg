SPECIFICATION Spec
CONSTANTS
  Entries <- MCEntries
  MaxEntries = 3
  Args <- MCArgs
  Calls <- MCCalls
  ChannelNames <- MCChannelNames
  FreshUuid <- Uuid
  NoUri = NoUri
  NoArgs = NoArgs
  NoCall = NoCall
  AorLen <- MCAorLen
  MaxAttempts = 2
  Fragments <- MCFragments
  MinCap = 2
  MaxCap = 18
  SizeMax = 63
INVARIANTS
  ChainIsConfig
  WalkFollowsConfig
  WalkReadsLiveMemory
  DialsItsServer
  MetadataMatchesOffer
  FailsForAReason
  OutcomeIsTrue
  NothingLeaks
  NoOverrun
  IdsAreUuids
PROPERTY
  ImplementsDocument
