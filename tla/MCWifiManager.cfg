SPECIFICATION WifiSpec
CONSTANTS
  home = home
  office = office
  homeKey = homeKey
  officeKey = officeKey
  None = None
  Ssid <- MCSsid
  Password <- MCPassword
  Secret <- MCSecret
  MaxPowerFails = 2
INVARIANTS
  WifiTypeOK
  StoredPairWasTested
  UnreachableAwaitsStored
PROPERTIES
  BootEndsReachable
  ComesBack
