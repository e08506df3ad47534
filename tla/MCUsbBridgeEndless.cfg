SPECIFICATION FairSpec
CONSTANTS
  RxCap = 2
  TxCap = 1
  WebStall = 1
  MqttStall = 1
  UsbBlock = 0
  LedHold = 1
  Modulus = 2
  MaxBytes = 1
  Endless = TRUE
PROPERTIES
  WebIsServed
