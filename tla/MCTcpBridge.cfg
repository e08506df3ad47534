SPECIFICATION Spec
CONSTANTS
  Client = {c1, c2}
  NoClient = NoClient
  MaxClients = 2
  MaxBuf = 3
  SndBuf = 4
  QueueCap = 3
INVARIANTS
  TypeOK
PROPERTIES
  GapNeedsRace
  BytesGoOn
  ServesAgain
