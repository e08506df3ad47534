-------------------------- MODULE WebManager_proofs --------------------------
(***************************************************************************)
(* Proofs about the two parts of WebManager.cpp that keep state: WiFi      *)
(* provisioning, for any set of networks and passwords and any number of   *)
(* power failures, and the firmware update, for any number of uploads,     *)
(* whether or not the explicit selection of the boot slot may fail.        *)
(***************************************************************************)
EXTENDS WifiManager, OtaUpdate, TLAPS

-----------------------------------------------------------------------------
(* WiFi provisioning.                                                      *)

(* The parts of the type invariant, by what disturbs them.                 *)
PairType ==
  /\ nvs \in Credentials /\ request \in Credentials /\ old \in Credentials
  /\ target \in Credentials /\ tested \subseteq Credentials
FlagType == apMode \in BOOLEAN /\ linked \in BOOLEAN /\ torn \in BOOLEAN
StepType ==
  /\ pc \in Step
  /\ mode \in {"off", "AP", "STA", "AP_STA"}
  /\ up \subseteq Ssid
  /\ powerFails \in 0 .. MaxPowerFails
LinkInv == linked => mode \in {"STA", "AP_STA"} /\ Works(target)

LEMMA Parts == WifiTypeOK <=> PairType /\ FlagType /\ StepType /\ LinkInv
BY Zenon DEF WifiTypeOK, PairType, FlagType, StepType, LinkInv

LEMMA Halves ==
  /\ Nobody \in Credentials
  /\ \A a \in Ssid \cup {None}, b \in Password \cup {None} : <<a, b>> \in Credentials
  /\ \A pair \in Credentials :
       pair[1] \in Ssid \cup {None} /\ pair[2] \in Password \cup {None}
BY DEF Credentials, Nobody

LEMMA PairStep ==
  ASSUME PairType, [WifiNext]_wifiVars
  PROVE  PairType'
<1> USE Halves DEF PairType, handlerVars, history
<1>1. CASE Boot \/ SaveTest \/ SaveRestore
  BY <1>1 DEF Boot, SaveTest, SaveRestore, BeginStation, StartAP
<1>2. CASE SavePutSsid \/ SavePutPassword \/ ForgetPassword \/ Forget
  BY <1>2 DEF SavePutSsid, SavePutPassword, ForgetPassword, Forget
<1>3. ASSUME NEW s \in Ssid, NEW p \in Password \cup {None}, Save(s, p) PROVE PairType'
  BY <1>3 DEF Save
<1>4. CASE EspRestart \/ PowerFail
  BY <1>4 DEF EspRestart, PowerFail, Restart
<1>5. CASE RestartRequest \/ Scan \/ (\E s \in Ssid : NetworkChanges(s)) \/ Associate
  BY <1>5 DEF RestartRequest, Scan, NetworkChanges, Associate
<1>6. CASE UNCHANGED wifiVars
  BY <1>6 DEF wifiVars
<1> QED BY <1>1, <1>2, <1>3, <1>4, <1>5, <1>6 DEF WifiNext, Handler, Request, World

LEMMA FlagStep ==
  ASSUME FlagType, [WifiNext]_wifiVars
  PROVE  FlagType'
<1> USE DEF FlagType, handlerVars, history
<1>w. \A pair : Works(pair) \in BOOLEAN
  BY Zenon DEF Works
<1>1. CASE Boot \/ SaveTest \/ SaveRestore
  BY <1>w, <1>1, Zenon DEF Boot, SaveTest, SaveRestore, BeginStation, StartAP
<1>2. CASE SavePutSsid \/ SavePutPassword \/ ForgetPassword \/ Forget
  BY <1>2, Zenon DEF SavePutSsid, SavePutPassword, ForgetPassword, Forget
<1>3. CASE EspRestart \/ PowerFail
  BY <1>3, Zenon DEF EspRestart, PowerFail, Restart
<1>4. CASE (\E s \in Ssid, p \in Password \cup {None} : Save(s, p)) \/ RestartRequest \/ Scan
  BY <1>4, Zenon DEF Save, RestartRequest, Scan
<1>5. CASE (\E s \in Ssid : NetworkChanges(s)) \/ Associate
  BY <1>5, Zenon DEF NetworkChanges, Associate
<1>6. CASE UNCHANGED wifiVars
  BY <1>6, Zenon DEF wifiVars
<1> QED BY <1>1, <1>2, <1>3, <1>4, <1>5, <1>6 DEF WifiNext, Handler, Request, World

LEMMA StepStep ==
  ASSUME StepType, [WifiNext]_wifiVars
  PROVE  StepType'
<1> USE PowerAssumption DEF StepType, Step, handlerVars, history
<1>1. CASE Boot \/ SaveTest \/ SaveRestore
  BY <1>1 DEF Boot, SaveTest, SaveRestore, BeginStation, StartAP
<1>2. CASE SavePutSsid \/ SavePutPassword \/ ForgetPassword \/ EspRestart
  BY <1>2 DEF SavePutSsid, SavePutPassword, ForgetPassword, EspRestart, Restart
<1>3. CASE Request
  BY <1>3 DEF Request, Save, Forget, RestartRequest, Scan
<1>4. CASE World
  BY <1>4 DEF World, NetworkChanges, Associate, PowerFail, Restart
<1>5. CASE UNCHANGED wifiVars
  BY <1>5 DEF wifiVars
<1> QED BY <1>1, <1>2, <1>3, <1>4, <1>5 DEF WifiNext, Handler

LEMMA LinkStep ==
  ASSUME LinkInv, [WifiNext]_wifiVars
  PROVE  LinkInv'
<1> USE DEF LinkInv, Works, handlerVars, history
<1>1. CASE Boot \/ SaveTest \/ SaveRestore
  BY <1>1, Zenon DEF Boot, SaveTest, SaveRestore, BeginStation, StartAP
<1>2. ASSUME UNCHANGED <<target, linked, up>>, mode' = mode \/ mode' \in {"STA", "AP_STA"}
      PROVE  LinkInv'
  <2>1. linked' => linked
    BY <1>2, Zenon
  <2>2. Works(target)' <=> Works(target)
    BY <1>2, Zenon
  <2> QED BY <1>2, <2>1, <2>2, Zenon
<1>3. CASE EspRestart \/ PowerFail
  BY <1>3, Zenon DEF EspRestart, PowerFail, Restart
<1>4. CASE SavePutSsid \/ SavePutPassword \/ ForgetPassword
  BY <1>2, <1>4, Zenon DEF SavePutSsid, SavePutPassword, ForgetPassword
<1>5. CASE Request
  <2>1. UNCHANGED <<target, linked, up>> /\ (mode' = mode \/ Scan)
    BY <1>5, Zenon DEF Request, Save, Forget, RestartRequest, Scan
  <2>2. Scan => mode' \in {"STA", "AP_STA"}
    BY DEF Scan
  <2> QED BY <1>2, <2>1, <2>2, Zenon
<1>6. CASE \E s \in Ssid : NetworkChanges(s)
  <2>1. /\ linked' => linked /\ target[1] \in up'
        /\ mode' = mode /\ target' = target
    BY <1>6, Zenon DEF NetworkChanges
  <2> QED BY <2>1, Zenon
<1>7. CASE Associate
  <2>1. mode' \in {"STA", "AP_STA"} /\ target' = target /\ up' = up /\ Works(target)
    BY <1>7, Zenon DEF Associate
  <2> QED BY <2>1, Zenon
<1>8. CASE UNCHANGED wifiVars
  BY <1>2, <1>8, Zenon DEF wifiVars
<1> QED BY <1>1, <1>3, <1>4, <1>5, <1>6, <1>7, <1>8 DEF WifiNext, Handler, World

-----------------------------------------------------------------------------
(* What is stored was tested.                                              *)

StoredInv ==
  /\ pc \notin {"putPassword", "forgetPassword"} /\ ~torn => nvs[1] = None \/ nvs \in tested
  /\ pc \in {"putSsid", "putPassword"} => request \in tested
  /\ pc = "putPassword" => nvs[1] = request[1]
  /\ pc = "forgetPassword" => nvs[1] = None

LEMMA StoredStep ==
  ASSUME PairType, StoredInv, [WifiNext]_wifiVars
  PROVE  StoredInv'
<1> USE DEF StoredInv, handlerVars, history
<1>1. CASE Boot \/ SaveTest \/ SaveRestore
  BY <1>1 DEF Boot, SaveTest, SaveRestore, BeginStation, StartAP
<1>2. CASE SavePutSsid
  BY <1>2 DEF SavePutSsid
<1>3. CASE SavePutPassword
  <2>1. nvs' = <<request[1], request[2]>> /\ request \in tested
    BY <1>3 DEF SavePutPassword
  <2>2. nvs' = request
    BY <2>1 DEF PairType, Credentials
  <2> QED BY <1>3, <2>1, <2>2 DEF SavePutPassword
<1>4. CASE ForgetPassword \/ EspRestart
  BY <1>4 DEF ForgetPassword, EspRestart, Restart
<1>5. CASE PowerFail
  <2>1. ~torn' => ~torn /\ pc \notin {"putPassword", "forgetPassword"}
    BY <1>5, Zenon DEF PowerFail
  <2>2. pc' = "boot" /\ nvs' = nvs /\ tested' = tested
    BY <1>5, Zenon DEF PowerFail, Restart
  <2> QED BY <2>1, <2>2
<1>6. CASE Request
  BY <1>6 DEF Request, Save, Forget, RestartRequest, Scan
<1>7. CASE (\E s \in Ssid : NetworkChanges(s)) \/ Associate
  BY <1>7 DEF NetworkChanges, Associate
<1>8. CASE UNCHANGED wifiVars
  BY <1>8 DEF wifiVars
<1> QED BY <1>1, <1>2, <1>3, <1>4, <1>5, <1>6, <1>7, <1>8 DEF WifiNext, Handler, World

-----------------------------------------------------------------------------
(* Who is not reachable waits for the stored network.                      *)

(* Between two requests the device is an access point, which apMode knows, *)
(* or a station of the stored network; a save request remembers that one.  *)
ModeInv ==
  /\ pc = "idle" => \/ mode \in {"AP", "AP_STA"} /\ apMode
                    \/ mode = "STA" /\ target = nvs /\ nvs[1] # None
  /\ pc \in {"test", "restore"} => old = nvs

LEMMA ModeStep ==
  ASSUME ModeInv, [WifiNext]_wifiVars
  PROVE  ModeInv'
<1> USE DEF ModeInv, handlerVars, history
<1>1. CASE Boot \/ SaveTest \/ SaveRestore
  BY <1>1 DEF Boot, SaveTest, SaveRestore, BeginStation, StartAP
<1>2. CASE SavePutSsid \/ SavePutPassword \/ ForgetPassword \/ EspRestart \/ PowerFail
  BY <1>2 DEF SavePutSsid, SavePutPassword, ForgetPassword, EspRestart, PowerFail, Restart
<1>3. CASE Request
  BY <1>3 DEF Request, Save, Forget, RestartRequest, Scan
<1>4. CASE (\E s \in Ssid : NetworkChanges(s)) \/ Associate
  BY <1>4 DEF NetworkChanges, Associate
<1>5. CASE UNCHANGED wifiVars
  BY <1>5 DEF wifiVars
<1> QED BY <1>1, <1>2, <1>3, <1>4, <1>5 DEF WifiNext, Handler, World

-----------------------------------------------------------------------------
(* The results.                                                            *)

WifiInv == PairType /\ FlagType /\ StepType /\ LinkInv /\ StoredInv /\ ModeInv

LEMMA WifiInitInv == WifiInit => WifiInv
<1> SUFFICES ASSUME WifiInit PROVE WifiInv
  OBVIOUS
<1>1. PairType
  BY Halves DEF WifiInit, PairType
<1>2. FlagType /\ LinkInv /\ ModeInv
  BY Zenon DEF WifiInit, FlagType, LinkInv, ModeInv
<1>3. StepType
  BY PowerAssumption DEF WifiInit, StepType, Step
<1>4. StoredInv
  BY DEF WifiInit, StoredInv, Nobody
<1> QED BY <1>1, <1>2, <1>3, <1>4 DEF WifiInv

LEMMA WifiInvariance == WifiSpec => []WifiInv
<1>1. WifiInv /\ [WifiNext]_wifiVars => WifiInv'
  BY PairStep, FlagStep, StepStep, LinkStep, StoredStep, ModeStep DEF WifiInv
<1> QED BY <1>1, WifiInitInv, PTL DEF WifiSpec

(* Every variable keeps its type, and a link is with the network the       *)
(* driver was told to join, for any networks and passwords.                *)
THEOREM WifiTypeCorrect == WifiSpec => []WifiTypeOK
<1>1. WifiInv => WifiTypeOK
  BY Parts DEF WifiInv
<1> QED BY <1>1, WifiInvariance, PTL

(* Unless power failed between two writes of a handler, the stored pair    *)
(* has worked.                                                             *)
THEOREM StoredTheorem == WifiSpec => []StoredPairWasTested
<1>1. WifiInv => StoredPairWasTested
  BY DEF WifiInv, StoredInv, StoredPairWasTested
<1> QED BY <1>1, WifiInvariance, PTL

(* A device nobody can reach is trying to join its stored network.         *)
THEOREM AwaitsTheorem == WifiSpec => []UnreachableAwaitsStored
<1>1. WifiInv => UnreachableAwaitsStored
  BY DEF WifiInv, ModeInv, Reachable, UnreachableAwaitsStored
<1> QED BY <1>1, WifiInvariance, PTL

(* Every restart ends with a device somebody can talk to.                  *)
THEOREM BootTheorem == WifiSpec => BootEndsReachable
<1>1. ASSUME [WifiNext]_wifiVars, pc = "boot", pc' = "idle" PROVE Reachable'
  <2>1. Boot \/ (\E s \in Ssid : NetworkChanges(s)) \/ UNCHANGED pc \/ PowerFail
    BY <1>1 DEF WifiNext, Handler, Request, World, SaveTest, SaveRestore, SavePutSsid, SavePutPassword,
       ForgetPassword, EspRestart, Save, Forget, RestartRequest, Scan, Associate, wifiVars
  <2>2. Boot
    BY <1>1, <2>1 DEF NetworkChanges, PowerFail, Restart
  <2> QED BY <1>1, <2>2, Zenon DEF Boot, BeginStation, StartAP, Reachable
<1>2. [WifiNext]_wifiVars => [pc = "boot" /\ pc' = "idle" => Reachable']_wifiVars
  BY <1>1
<1> QED BY <1>2, PTL DEF WifiSpec, BootEndsReachable

-----------------------------------------------------------------------------
(* The firmware update.                                                    *)

(* The two slots: Other is what its name says.                             *)
LEMMA OtherSlot ==
  ASSUME NEW s \in Slot
  PROVE  /\ Other(s) \in Slot /\ Other(s) # s
         /\ Slot = {s, Other(s)}
         /\ Other(Other(s)) = s
<1>1. PICK other \in Slot \ {FirstSlot} : Slot = {FirstSlot, other}
  BY SlotAssumption
<1>2. ASSUME NEW r \in Slot PROVE Other(r) \in Slot /\ Other(r) # r /\ Slot = {r, Other(r)}
  <2>1. \E t \in Slot : Slot = {r, t}
    BY <1>1, <1>2
  <2>2. Other(r) \in Slot /\ Slot = {r, Other(r)}
    BY <2>1 DEF Other
  <2> QED BY <1>1, <2>2
<1> QED BY <1>2

-----------------------------------------------------------------------------
(* The inductive invariant.                                                *)

(* A started upload writes the slot the firmware does not run from.        *)
WritesOther == otaStarted => otaPartition = Other(running)

(* An open update belongs to the file being received, which has not failed.*)
OpenUpdate == updating => http = "file" /\ otaStarted /\ ~otaFailed

(* Behind a file that was taken the new image is verified and selected.    *)
TakenIsSelected ==
  http # "file" /\ otaStarted /\ ~otaFailed =>
    boot = otaPartition /\ image[boot] = "good"

OtaInv == OtaTypeOK /\ RunningImageIntact /\ WritesOther /\ OpenUpdate /\ TakenIsSelected

LEMMA OtaInitInv == OtaInit => OtaInv
<1> SUFFICES ASSUME OtaInit PROVE OtaInv
  OBVIOUS
<1>1. OtaTypeOK
  <2>1. image \in [Slot -> {"good", "partial"}] /\ boot \in Slot /\ running \in Slot
    BY SlotAssumption DEF OtaInit
  <2>2. otaReceived \in 0 .. 1 /\ uploads \in 0 .. MaxUploads
    BY UploadAssumption DEF OtaInit
  <2> QED BY <2>1, <2>2, Zenon DEF OtaInit, OtaTypeOK
<1>2. RunningImageIntact
  BY SlotAssumption DEF OtaInit, RunningImageIntact
<1>3. WritesOther /\ OpenUpdate /\ TakenIsSelected
  BY Zenon DEF OtaInit, WritesOther, OpenUpdate, TakenIsSelected
<1> QED BY <1>1, <1>2, <1>3 DEF OtaInv

(* The boot loader always finds an intact image.                           *)
LEMMA BootChoiceIntact ==
  ASSUME OtaTypeOK, RunningImageIntact
  PROVE  BootChoice \in Slot /\ image[BootChoice] = "good"
<1>1. CASE image[boot] = "good"
  BY <1>1 DEF OtaTypeOK, BootChoice
<1>2. CASE image[boot] # "good"
  <2>1. boot # running
    BY <1>2 DEF RunningImageIntact
  <2>2. Other(boot) = running
    BY <2>1, OtherSlot DEF OtaTypeOK
  <2> QED BY <1>2, <2>2 DEF OtaTypeOK, RunningImageIntact, BootChoice
<1> QED BY <1>1, <1>2

LEMMA BootStep ==
  ASSUME OtaInv, Boots(BootChoice), page' \in {"none", "success", "failed"}
  PROVE  OtaInv'
<1>1. BootChoice \in Slot /\ image[BootChoice] = "good"
  BY BootChoiceIntact DEF OtaInv
<1>2. otaReceived' \in 0 .. 1
  BY DEF Boots, FreshMembers
<1>3. OtaTypeOK'
  BY <1>1, <1>2, Zenon DEF OtaInv, OtaTypeOK, Boots, FreshMembers
<1>4. RunningImageIntact'
  BY <1>1, Zenon DEF Boots, RunningImageIntact
<1>5. WritesOther' /\ OpenUpdate' /\ TakenIsSelected'
  BY Zenon DEF Boots, FreshMembers, WritesOther, OpenUpdate, TakenIsSelected
<1> QED BY <1>3, <1>4, <1>5 DEF OtaInv

LEMMA FileStartStep ==
  ASSUME OtaInv, NEW named \in BOOLEAN, NEW room \in BOOLEAN, FileStart(named, room)
  PROVE  OtaInv'
<1>1. Other(running) \in Slot
  BY OtherSlot DEF OtaInv, OtaTypeOK
<1>2. ~updating
  BY DEF OtaInv, OpenUpdate, FileStart
<1>3. otaReceived' \in 0 .. 1 /\ uploads' \in 0 .. MaxUploads
  BY UploadAssumption DEF OtaInv, OtaTypeOK, FileStart
<1>4. http' = "file" /\ good' \in BOOLEAN /\ UNCHANGED <<image, boot, running, page>>
  BY Zenon DEF FileStart, flash
<1>5. CASE named
  <2>1. /\ otaStarted' = room /\ otaFailed' = ~room
        /\ updating' = room /\ updateError' \in BOOLEAN
        /\ otaPartition' = Other(running)
    BY <1>2, <1>5, Zenon DEF OtaInv, OtaTypeOK, FileStart, NextPartition, UpdateBegin
  <2>2. Other(running) # NoSlot
    BY <1>1, SlotAssumption
  <2> QED BY <1>1, <1>3, <1>4, <2>1, <2>2, Zenon
          DEF OtaInv, OtaTypeOK, RunningImageIntact, WritesOther, OpenUpdate, TakenIsSelected
<1>6. CASE ~named
  BY <1>2, <1>3, <1>4, <1>6, Zenon
  DEF OtaInv, OtaTypeOK, RunningImageIntact, WritesOther, OpenUpdate, TakenIsSelected,
      FileStart, update
<1> QED BY <1>5, <1>6

(* The slot being written is not the one the firmware runs from.           *)
LEMMA WrittenSlot ==
  ASSUME OtaInv, otaStarted
  PROVE  otaPartition \in Slot /\ otaPartition # running
BY OtherSlot DEF OtaInv, OtaTypeOK, WritesOther

LEMMA FileWriteStep ==
  ASSUME OtaInv, NEW ok \in BOOLEAN, FileWrite(ok)
  PROVE  OtaInv'
<1>1. otaPartition \in Slot /\ otaPartition # running
  BY WrittenSlot DEF FileWrite
<1>2. image' \in [Slot -> {"good", "partial"}] /\ image'[running] = image[running]
  BY <1>1 DEF OtaInv, OtaTypeOK, FileWrite
<1>3. otaReceived' \in 0 .. 1
  BY DEF OtaInv, OtaTypeOK, FileWrite
<1>4. CASE ok
  BY <1>2, <1>3, <1>4, Zenon
  DEF OtaInv, OtaTypeOK, RunningImageIntact, WritesOther, OpenUpdate, TakenIsSelected,
      FileWrite, update
<1>5. CASE ~ok
  BY <1>2, <1>3, <1>5, Zenon
  DEF OtaInv, OtaTypeOK, RunningImageIntact, WritesOther, OpenUpdate, TakenIsSelected,
      FileWrite, UpdateAbort
<1> QED BY <1>4, <1>5

LEMMA FileEndStep ==
  ASSUME OtaInv, NEW selected \in BOOLEAN, FileEnd(selected)
  PROVE  OtaInv'
<1> USE DEF OtaInv, OtaTypeOK, RunningImageIntact, WritesOther, OpenUpdate, TakenIsSelected
<1>1. CASE ~otaStarted \/ otaFailed
  BY <1>1 DEF FileEnd, update
<1>2. CASE otaStarted /\ ~otaFailed /\ good /\ otaReceived > 0
  <2>1. otaPartition \in Slot /\ otaPartition # running
    BY <1>2, WrittenSlot
  <2>2. /\ image' \in [Slot -> {"good", "partial"}]
        /\ image'[running] = image[running]
        /\ image'[otaPartition] = "good"
    BY <1>2, <2>1 DEF FileEnd
  <2> QED BY <1>2, <2>1, <2>2 DEF FileEnd
<1>3. CASE otaStarted /\ ~otaFailed /\ ~(good /\ otaReceived > 0)
  BY <1>3 DEF FileEnd, UpdateAbort
<1> QED BY <1>1, <1>2, <1>3

LEMMA ResultStep ==
  ASSUME OtaInv, Result
  PROVE  OtaInv'
<1>1. CASE Succeeded
  BY <1>1, BootStep DEF Result
<1>2. CASE ~Succeeded
  BY <1>2 DEF OtaInv, OtaTypeOK, RunningImageIntact, WritesOther, OpenUpdate, TakenIsSelected,
              Result, members, update, flash
<1> QED BY <1>1, <1>2

LEMMA OtaStep ==
  ASSUME OtaInv, [OtaNext]_otaVars
  PROVE  OtaInv'
<1> USE DEF OtaInv, OtaTypeOK, RunningImageIntact, WritesOther, OpenUpdate, TakenIsSelected
<1>1. ASSUME NEW named \in BOOLEAN, NEW room \in BOOLEAN, FileStart(named, room) PROVE OtaInv'
  BY <1>1, FileStartStep
<1>2. ASSUME NEW ok \in BOOLEAN, FileWrite(ok) PROVE OtaInv'
  BY <1>2, FileWriteStep
<1>3. ASSUME NEW selected \in BOOLEAN, FileEnd(selected) PROVE OtaInv'
  BY <1>3, FileEndStep
<1>4. CASE FileAborted
  BY <1>4 DEF FileAborted, UpdateAbort, update, flash
<1>5. CASE Result
  BY <1>5, ResultStep
<1>6. CASE Vanish
  BY <1>6 DEF Vanish, members, update, flash
<1>7. CASE Reboot
  BY <1>7, BootStep DEF Reboot
<1>8. CASE UNCHANGED otaVars
  BY <1>8 DEF otaVars, members, update, flash
<1> QED BY <1>1, <1>2, <1>3, <1>4, <1>5, <1>6, <1>7, <1>8 DEF OtaNext

LEMMA OtaInvariance == OtaSpec => []OtaInv
BY OtaInitInv, OtaStep, PTL DEF OtaSpec

-----------------------------------------------------------------------------
(* The results.                                                            *)

(* Every variable of the update keeps its type, and an open update belongs *)
(* to the upload in progress, for any number of uploads.                   *)
THEOREM OtaTypeCorrect == OtaSpec => []OtaTypeOK
<1>1. OtaInv => OtaTypeOK
  BY DEF OtaInv
<1> QED BY <1>1, OtaInvariance, PTL

(* However often uploads are repeated, cut short or lose power, the image  *)
(* the device runs from is intact.                                         *)
THEOREM ImageTheorem == OtaSpec => []RunningImageIntact
<1>1. OtaInv => RunningImageIntact
  BY DEF OtaInv
<1> QED BY <1>1, OtaInvariance, PTL

(* No upload leaves an update open that would make Update.begin() refuse   *)
(* the next one.                                                           *)
THEOREM NextUploadTheorem == OtaSpec => []NextUploadCanBegin
<1>1. OtaInv => NextUploadCanBegin
  BY DEF OtaInv, OpenUpdate, NextUploadCanBegin
<1> QED BY <1>1, OtaInvariance, PTL

(* The page that announces success is followed by a restart into the slot  *)
(* the upload wrote.                                                       *)
THEOREM SuccessTheorem == OtaSpec => SuccessRunsUpload
<1>1. ASSUME OtaInv, Result, page' = "success" PROVE running' = Other(running)
  <2>1. Succeeded /\ running' = BootChoice
    BY <1>1 DEF Result, Boots
  <2>2. boot = Other(running) /\ image[boot] = "good"
    BY <1>1, <2>1 DEF OtaInv, WritesOther, TakenIsSelected, Result, Succeeded
  <2> QED BY <2>1, <2>2 DEF BootChoice
<1>2. OtaInv /\ [OtaNext]_otaVars => [page' = "success" /\ Result => running' = Other(running)]_otaVars
  BY <1>1
<1> QED BY <1>2, OtaInvariance, PTL DEF OtaSpec, SuccessRunsUpload
=============================================================================
