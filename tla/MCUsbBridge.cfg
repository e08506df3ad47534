SPECIFICATION FairSpec
CONSTANTS
  RxCap = 2
  TxCap = 1
  WebStall = 2
  MqttStall = 1
  UsbBlock = 1
  LedHold = 1
  Modulus = 3
  MaxBytes = 4
  Endless = FALSE
INVARIANTS
  TypeOK
  Conservation
PROPERTIES
  LossNeedsLongAbsence
  BothChannels
  QueuesDrain
