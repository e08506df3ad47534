SPECIFICATION Spec
CONSTANTS
  Host = {broker}
  Topic = {busware, knx}
  None = None
  DefaultTopic = busware
  ConnectInterval = 2
  StatusInterval = 2
  Modulus = 4
  MaxSaves = 2
  MaxFaults = 0
PROPERTIES
  AvailabilityIsCurrent
