SPECIFICATION Spec
CONSTANTS
  SegmentWords = 8
  Erased = 99
  FlashWords = 32
  EepromWords = 16
  File <- MCFile
  NoFile = "no file"
  Job <- MCJob
  FlashPage = 4
  EepromPage = 2
  SerialPage = 2
  SyncRetries = 2
  MaxFaults = 3
INVARIANTS
  TypeOK
  SuccessMeansProgrammed
  WrongChipIsUntouched
  GoodSessionSucceeds
PROPERTIES
  SessionEnds
