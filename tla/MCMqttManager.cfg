SPECIFICATION Spec
CONSTANTS
  Host = {broker, other}
  Topic = {busware, knx}
  None = None
  DefaultTopic = busware
  ConnectInterval = 2
  StatusInterval = 2
  Modulus = 4
  MaxSaves = 2
  MaxFaults = 2
INVARIANTS
  TypeOK
  OnlineIsCovered
  ConnectedIsOnline
PROPERTIES
  ConnectPaced
  ComesOnline
