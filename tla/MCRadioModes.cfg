SPECIFICATION Spec
CONSTANTS
  Telegram = {0, 6, 10}
  Int8 = 4
  Word = 64
  MaxCredit = 2
  LongSum = 2
  ShortSum = 1
  FifoPackets = 1
  MaxCommands = 4
  MaxFaults = 1
INVARIANTS
  TypeOK
  ZwaveRetries
PROPERTIES
  ModeComesBack
  HearsAgain
CHECK_DEADLOCK FALSE
