SPECIFICATION Spec
CONSTANTS
  Peer = {f1, f2}
  NoPeer = NoPeer
  desired = "desired"
  mode = "mode"
  Command <- MCCommand
  Message <- MCMessage
  BufSize = 10
  RepeatTicks = 1
  WaitTicks = 2
  MaxQueued = 2
  MaxNoise = 2
INVARIANTS
  TypeOK
PROPERTIES
  DeletedOnlyWhenHeard
  HandedOver
