----------------------------- MODULE OtaUpdate -----------------------------
(***************************************************************************)
(* Firmware update over the web, /update of                                *)
(* Simple/USBSerial/src/WebManager.cpp: the callback handleUpdateUpload()  *)
(* that the web server calls piece by piece, the handler                   *)
(* handleUpdateResult() that it calls once the whole request has arrived,  *)
(* and the two application slots with the boot selection.                  *)
(*                                                                         *)
(* The web server and the Update library are modelled from how the code    *)
(* calls them: a request carries one or more files, the client may go away *)
(* in a file (the callback then hears of it) or after a file (nobody hears *)
(* of it, and the result handler is never called).                         *)
(***************************************************************************)
EXTENDS Naturals

CONSTANTS
  Slot,         \* the application slots app0 and app1
  FirstSlot,    \* the slot the device is delivered with
  SelectMayFail,\* esp_ota_set_boot_partition() may fail behind Update.end()
  MaxUploads    \* bound: files the users send

NoSlot == "none"

ASSUME SlotAssumption ==
  /\ FirstSlot \in Slot /\ \E other \in Slot \ {FirstSlot} : Slot = {FirstSlot, other}
  /\ NoSlot \notin Slot
ASSUME UploadAssumption == SelectMayFail \in BOOLEAN /\ MaxUploads \in Nat

Other(s) == CHOOSE t \in Slot : Slot = {s, t}

VARIABLES
  http,         \* where the request in progress is: "idle", "file" or "between"
  good,         \* the file being received is an intact image for this chip
  otaStarted, otaFailed,
  otaReceived,  \* 0 or 1: some of the file has been written
  otaPartition, \* the slot being written, NoSlot before the first upload
  updating,     \* Update: begun, neither ended nor aborted
  updateError,  \* Update.hasError()
  image,        \* image[s]: "good", or "partial" once overwritten
  boot,         \* the slot otadata selects
  running,      \* the slot this firmware runs from
  page,         \* the last answer: "none", "success" or "failed"
  uploads       \* files sent so far

members == <<otaStarted, otaFailed, otaReceived, otaPartition>>
update == <<updating, updateError>>
flash == <<image, boot, running>>
otaVars == <<http, good, members, update, flash, page, uploads>>

FreshMembers ==
  /\ otaStarted' = FALSE /\ otaFailed' = FALSE
  /\ otaReceived' = 0 /\ otaPartition' = NoSlot

OtaInit ==
  /\ http = "idle" /\ good = FALSE
  /\ otaStarted = FALSE /\ otaFailed = FALSE
  /\ otaReceived = 0 /\ otaPartition = NoSlot
  /\ updating = FALSE /\ updateError = FALSE
  /\ image = [s \in Slot |-> IF s = FirstSlot THEN "good" ELSE "partial"]
  /\ boot = FirstSlot /\ running = FirstSlot
  /\ page = "none"
  /\ uploads = 0

-----------------------------------------------------------------------------
(* The Update library.                                                     *)

UpdateAbort == updating' = FALSE /\ updateError' = TRUE

(* Update.begin() refuses a second update, and forgets an old error.       *)
UpdateBegin(ok) ==
  /\ updating' = (updating \/ ok)
  /\ updateError' = (updateError /\ ~ok)

-----------------------------------------------------------------------------
(* handleUpdateUpload(), one action per upload status.                     *)

(* esp_ota_get_next_update_partition(NULL)                                 *)
RunningPartition == running  \* mutant
NextPartition == Other(running)

(* UPLOAD_FILE_START.  named: the file name ends in .bin; room: there is   *)
(* memory for Update.begin().                                              *)
FileStart(named, room) ==
  /\ http \in {"idle", "between"}
  /\ uploads < MaxUploads
  /\ uploads' = uploads + 1
  /\ http' = "file"
  /\ good' \in BOOLEAN
  /\ otaReceived' = 0
  /\ IF ~named
     THEN /\ otaStarted' = FALSE /\ otaFailed' = TRUE
          /\ UNCHANGED <<otaPartition, update>>
     ELSE LET ok == room /\ ~updating IN
          /\ otaPartition' = NextPartition
          /\ UpdateBegin(ok)
          /\ otaStarted' = ok
          /\ otaFailed' = ~ok
  /\ UNCHANGED <<flash, page>>

(* UPLOAD_FILE_WRITE.  ok: flash takes the whole piece.                    *)
FileWrite(ok) ==
  /\ http = "file"
  /\ otaStarted /\ ~otaFailed
  /\ image' = [image EXCEPT ![otaPartition] = "partial"]
  /\ IF ok
     THEN /\ otaReceived' = 1
          /\ UNCHANGED <<otaFailed, update>>
     ELSE /\ otaFailed' = TRUE
          /\ UpdateAbort
          /\ UNCHANGED otaReceived
  /\ UNCHANGED <<http, good, otaStarted, otaPartition, boot, running, page, uploads>>

(* Mutant: an image that does not verify is left behind as an open update. *)
FileEndKeepsOpen(selected) ==
  /\ http = "file"
  /\ selected \/ SelectMayFail
  /\ http' = "between"
  /\ IF ~otaStarted \/ otaFailed
     THEN UNCHANGED <<otaFailed, update, image, boot>>
     ELSE IF good /\ otaReceived > 0
     THEN /\ image' = [image EXCEPT ![otaPartition] = "good"]
          /\ boot' = otaPartition
          /\ updating' = FALSE
          /\ otaFailed' = ~selected
          /\ UNCHANGED updateError
     ELSE /\ otaFailed' = TRUE
          /\ UNCHANGED <<update, image, boot>>
  /\ UNCHANGED <<good, otaStarted, otaReceived, otaPartition, running, page, uploads>>

(* UPLOAD_FILE_END.  Update.end(true) verifies what has been written and   *)
(* selects it for the next boot; the explicit selection that follows may   *)
(* fail on its own (selected = FALSE).                                     *)
FileEnd(selected) ==
  /\ http = "file"
  /\ selected \/ SelectMayFail
  /\ http' = "between"
  /\ IF ~otaStarted \/ otaFailed
     THEN UNCHANGED <<otaFailed, update, image, boot>>
     ELSE IF good /\ otaReceived > 0
     THEN /\ image' = [image EXCEPT ![otaPartition] = "good"]
          /\ boot' = otaPartition
          /\ updating' = FALSE
          /\ otaFailed' = ~selected
          /\ UNCHANGED updateError
     ELSE /\ otaFailed' = TRUE
          /\ UpdateAbort
          /\ UNCHANGED <<image, boot>>
  /\ UNCHANGED <<good, otaStarted, otaReceived, otaPartition, running, page, uploads>>

(* Mutant: nothing is abandoned when the client goes away.                 *)
FileAbortedKeepsOpen ==
  /\ http = "file"
  /\ http' = "idle"
  /\ otaFailed' = TRUE
  /\ UNCHANGED <<update, good, otaStarted, otaReceived, otaPartition, flash, page, uploads>>

(* UPLOAD_FILE_ABORTED: the client went away inside a file.                *)
FileAborted ==
  /\ http = "file"
  /\ http' = "idle"
  /\ otaFailed' = TRUE
  /\ IF otaStarted THEN UpdateAbort ELSE UNCHANGED update
  /\ UNCHANGED <<good, otaStarted, otaReceived, otaPartition, flash, page, uploads>>

-----------------------------------------------------------------------------
(* The end of a request.                                                   *)

Boots(s) ==
  /\ http' = "idle" /\ good' = FALSE
  /\ FreshMembers
  /\ updating' = FALSE /\ updateError' = FALSE
  /\ running' = s
  /\ UNCHANGED <<image, boot, uploads>>

(* The boot loader starts the selected slot, or the other one if the       *)
(* selected image does not verify.                                         *)
BootChoice == IF image[boot] = "good" THEN boot ELSE Other(boot)

SucceededOnceStarted == otaStarted  \* mutant
Succeeded == otaStarted /\ ~otaFailed /\ ~updateError

(* handleUpdateResult(); a POST without a file part calls it too.          *)
Result ==
  /\ http \in {"idle", "between"}
  /\ IF Succeeded
     THEN page' = "success" /\ Boots(BootChoice)
     ELSE /\ page' = "failed"
          /\ http' = "idle"
          /\ UNCHANGED <<good, members, update, flash, uploads>>

(* The client goes away behind a complete file.                            *)
Vanish ==
  /\ http = "between"
  /\ http' = "idle"
  /\ UNCHANGED <<good, members, update, flash, page, uploads>>

(* Power fails, or a handler restarts the device.                          *)
Reboot ==
  /\ running # BootChoice \/ otaStarted \/ otaFailed
  /\ page' = "none"
  /\ Boots(BootChoice)

OtaNext ==
  \/ \E named, room \in BOOLEAN : FileStart(named, room)
  \/ \E ok \in BOOLEAN : FileWrite(ok)
  \/ \E selected \in BOOLEAN : FileEnd(selected)
  \/ FileAborted \/ Result \/ Vanish \/ Reboot

OtaSpec == OtaInit /\ [][OtaNext]_otaVars

-----------------------------------------------------------------------------
(* Properties.                                                             *)

(* Every variable keeps its type; an open update belongs to the upload in  *)
(* progress, and writes to a known partition.                              *)
OtaTypeOK ==
  /\ http \in {"idle", "file", "between"} /\ good \in BOOLEAN
  /\ otaStarted \in BOOLEAN /\ otaFailed \in BOOLEAN /\ otaReceived \in 0 .. 1
  /\ otaPartition \in Slot \cup {NoSlot}
  /\ updating \in BOOLEAN /\ updateError \in BOOLEAN
  /\ updating => otaStarted /\ otaPartition # NoSlot
  /\ image \in [Slot -> {"good", "partial"}]
  /\ boot \in Slot /\ running \in Slot
  /\ page \in {"none", "success", "failed"}
  /\ uploads \in 0 .. MaxUploads

(* The device always has an intact image to start, whichever upload is cut *)
(* short or repeated: the one it is running from.                          *)
RunningImageIntact == image[running] = "good"

(* Nothing an upload leaves behind makes Update.begin() refuse the next    *)
(* one: outside a file no update is open.                                  *)
NextUploadCanBegin == http # "file" => ~updating

(* The page "Firmware update successful ... will restart now" is followed  *)
(* by the uploaded image: the restart runs the slot that was written.      *)
SuccessRunsUpload ==
  [][page' = "success" /\ Result => running' = Other(running)]_otaVars
=============================================================================
