SPECIFICATION Spec
CONSTANTS
  a1 = a1
  a2 = a2
  name = name
  Addresses <- MCAddresses
  Usable <- MCUsable
  NoAddress = NoAddress
  MaxStreams = 2
  MaxLines = 5
SYMMETRY MCSymmetry
CHECK_DEADLOCK FALSE
INVARIANTS
  TypeOK
  AnswerIsRead
  LabelsMatchOffer
  CodecFollowsAnswer
  NoSocketLeaks
