SPECIFICATION RfSpec
CONSTANTS
  RcvBuckets = 2
  MaxMsg = 3
  MaxFrames = 5
INVARIANTS
  RfTypeOK
  FramesAccounted
PROPERTIES
  CommittedUntouched
  FramesInOrder
  BucketsAreReleased
