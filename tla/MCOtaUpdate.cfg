SPECIFICATION OtaSpec
CONSTANTS
  Slot = {app0, app1}
  FirstSlot = app0
  SelectMayFail = TRUE
  MaxUploads = 4
INVARIANTS
  OtaTypeOK
  RunningImageIntact
  NextUploadCanBegin
PROPERTIES
  SuccessRunsUpload
CHECK_DEADLOCK FALSE
