---------------------------- MODULE WifiManager ----------------------------
(***************************************************************************)
(* WiFi provisioning of the TUL bridge: startWiFi(), startAP(),            *)
(* connectWiFi() and the handlers /wifi/save, /wifi/forget, /wifi/scan and *)
(* /restart of Simple/USBSerial/src/WebManager.cpp, with the radio, the    *)
(* networks around the device and the NVS keys "ssid" and "password".      *)
(*                                                                         *)
(* A handler runs alone, but not atomically: a connection attempt takes up *)
(* to ten seconds in which networks come and go, and power may fail        *)
(* between any two of its steps.                                           *)
(***************************************************************************)
EXTENDS Naturals

CONSTANTS
  Ssid,          \* the names of the networks
  Password,      \* the passwords a user may type
  None,          \* an absent or empty string
  Secret,        \* Secret[s]: the password network s accepts
  MaxPowerFails  \* bound: how often power fails

ASSUME NoneAssumption == None \notin Ssid \cup Password
ASSUME SecretAssumption == Secret \in [Ssid -> Password]
ASSUME PowerAssumption == MaxPowerFails \in Nat

Credentials == (Ssid \cup {None}) \X (Password \cup {None})
Nobody == <<None, None>>

VARIABLES
  pc,         \* "boot", "idle" or the next step of the handler in progress
  nvs,        \* the stored pair, NVS keys "ssid" and "password"
  request,    \* the pair a save request asks for
  old,        \* the locals oldSsid and oldPassword of handleWiFiSave()
  mode,       \* WiFi.mode()
  apMode,     \* the member of that name
  target,     \* the pair last passed to WiFi.begin(), which the driver retries
  linked,     \* WiFi.status() = WL_CONNECTED
  up,         \* the networks in range
  tested,     \* history: pairs a connection attempt has succeeded with
  torn,       \* history: a handler was interrupted between its two NVS writes
  powerFails

wifiVars == <<pc, nvs, request, old, mode, apMode, target, linked, up, tested, torn, powerFails>>
handlerVars == <<request, old>>
history == <<tested, torn, powerFails>>

Works(pair) == pair[1] \in up /\ Secret[pair[1]] = pair[2]

(* Somebody can send the device a request.                                 *)
Reachable == mode \in {"AP", "AP_STA"} \/ linked

WifiInit ==
  /\ pc = "boot"
  /\ nvs = Nobody
  /\ request = Nobody /\ old = Nobody
  /\ mode = "off" /\ apMode = FALSE
  /\ target = Nobody /\ linked = FALSE
  /\ up \in SUBSET Ssid
  /\ tested = {} /\ torn = FALSE /\ powerFails = 0

-----------------------------------------------------------------------------
(* Helpers of the handlers.                                                *)

StartAP ==
  /\ mode' = "AP"
  /\ apMode' = TRUE
  /\ target' = Nobody
  /\ linked' = FALSE

(* WiFi.begin() with a pair; the outcome is known once the attempt ends.   *)
BeginStation(pair) ==
  /\ mode' = "STA"
  /\ target' = pair
  /\ linked' = Works(pair)
  /\ tested' = IF Works(pair) THEN tested \cup {pair} ELSE tested

Restart ==
  /\ pc' = "boot"
  /\ request' = Nobody /\ old' = Nobody
  /\ mode' = "off" /\ apMode' = FALSE
  /\ target' = Nobody /\ linked' = FALSE

-----------------------------------------------------------------------------
(* startWiFi(): the access point without a stored network, else an attempt *)
(* to join it, and the access point again if the attempt fails.            *)
BootWithoutFallback ==  \* mutant: the access point only without a stored network
  /\ pc = "boot"
  /\ pc' = "idle"
  /\ IF nvs[1] # None
     THEN BeginStation(nvs) /\ apMode' = FALSE
     ELSE StartAP /\ UNCHANGED tested
  /\ UNCHANGED <<nvs, handlerVars, up, torn, powerFails>>

Boot ==
  /\ pc = "boot"
  /\ pc' = "idle"
  /\ IF nvs[1] # None /\ Works(nvs)
     THEN BeginStation(nvs) /\ apMode' = FALSE
     ELSE StartAP /\ UNCHANGED tested
  /\ UNCHANGED <<nvs, handlerVars, up, torn, powerFails>>

(* The request /wifi/save: an empty password stands for the stored one.    *)
Save(ssid, password) ==
  /\ pc = "idle" /\ Reachable
  /\ pc' = "test"
  /\ request' = <<ssid, IF password = None THEN nvs[2] ELSE password>>
  /\ old' = nvs
  /\ UNCHANGED <<nvs, mode, apMode, target, linked, up, history>>

(* connectWiFi(ssid, password), before anything is stored.                 *)
SaveUntested ==  \* mutant: stored whatever the outcome
  /\ pc = "test"
  /\ BeginStation(request)
  /\ pc' = "putSsid"
  /\ UNCHANGED <<nvs, handlerVars, apMode, up, torn, powerFails>>

SaveTest ==
  /\ pc = "test"
  /\ BeginStation(request)
  /\ pc' = IF Works(request) THEN "putSsid" ELSE "restore"
  /\ UNCHANGED <<nvs, handlerVars, apMode, up, torn, powerFails>>

(* The attempt failed: back to the stored network, whose answer is         *)
(* ignored, or to the access point if there is none; then the error page.  *)
SaveGivesUp ==  \* mutant: the error page without going back
  /\ pc = "restore"
  /\ pc' = "idle"
  /\ request' = Nobody /\ old' = Nobody
  /\ UNCHANGED <<nvs, mode, apMode, target, linked, up, history>>

SaveRestore ==
  /\ pc = "restore"
  /\ pc' = "idle"
  /\ request' = Nobody /\ old' = Nobody
  /\ IF old[1] # None
     THEN BeginStation(old) /\ UNCHANGED apMode
     ELSE StartAP /\ UNCHANGED tested
  /\ UNCHANGED <<nvs, up, torn, powerFails>>

SavePutSsid ==
  /\ pc = "putSsid"
  /\ pc' = "putPassword"
  /\ nvs' = <<request[1], nvs[2]>>
  /\ UNCHANGED <<handlerVars, mode, apMode, target, linked, up, history>>

SavePutPassword ==
  /\ pc = "putPassword"
  /\ pc' = "restart"
  /\ nvs' = <<nvs[1], request[2]>>
  /\ torn' = FALSE
  /\ UNCHANGED <<handlerVars, mode, apMode, target, linked, up, tested, powerFails>>

(* The request /wifi/forget.                                               *)
Forget ==
  /\ pc = "idle" /\ Reachable
  /\ pc' = "forgetPassword"
  /\ nvs' = <<None, nvs[2]>>
  /\ UNCHANGED <<handlerVars, mode, apMode, target, linked, up, history>>

ForgetPassword ==
  /\ pc = "forgetPassword"
  /\ pc' = "restart"
  /\ nvs' = <<nvs[1], None>>
  /\ torn' = FALSE
  /\ UNCHANGED <<handlerVars, mode, apMode, target, linked, up, tested, powerFails>>

(* The request /restart.                                                   *)
RestartRequest ==
  /\ pc = "idle" /\ Reachable
  /\ pc' = "restart"
  /\ UNCHANGED <<nvs, handlerVars, mode, apMode, target, linked, up, history>>

(* ESP.restart() at the end of a handler.                                  *)
EspRestart ==
  /\ pc = "restart"
  /\ Restart
  /\ UNCHANGED <<nvs, up, history>>

(* The request /wifi/scan: the radio mode follows apMode.                  *)
ScanAsAP ==  \* mutant: scanning leaves the station mode
  /\ pc = "idle" /\ Reachable
  /\ mode' = "AP"
  /\ UNCHANGED <<pc, nvs, handlerVars, apMode, target, linked, up, history>>

Scan ==
  /\ pc = "idle" /\ Reachable
  /\ mode' = IF apMode THEN "AP_STA" ELSE "STA"
  /\ UNCHANGED <<pc, nvs, handlerVars, apMode, target, linked, up, history>>

-----------------------------------------------------------------------------
(* The world.                                                              *)

NetworkChanges(s) ==
  /\ up' = IF s \in up THEN up \ {s} ELSE up \cup {s}
  /\ linked' = (linked /\ target[1] \in up')
  /\ UNCHANGED <<pc, nvs, handlerVars, mode, apMode, target, history>>

(* The driver joins the network it was told to join as soon as it can.     *)
Associate ==
  /\ mode \in {"STA", "AP_STA"} /\ target # Nobody /\ ~linked /\ Works(target)
  /\ pc \in {"idle", "restart"}
  /\ linked' = TRUE
  /\ UNCHANGED <<pc, nvs, handlerVars, mode, apMode, target, up, history>>

PowerFail ==
  /\ powerFails < MaxPowerFails
  /\ powerFails' = powerFails + 1
  /\ torn' = (torn \/ pc \in {"putPassword", "forgetPassword"})
  /\ Restart
  /\ UNCHANGED <<nvs, up, tested>>

Handler ==
  \/ Boot
  \/ SaveTest \/ SaveRestore \/ SavePutSsid \/ SavePutPassword
  \/ ForgetPassword \/ EspRestart

Request ==
  \/ \E s \in Ssid, p \in Password \cup {None} : Save(s, p)
  \/ Forget \/ RestartRequest \/ Scan

World == (\E s \in Ssid : NetworkChanges(s)) \/ Associate \/ PowerFail

WifiNext == Handler \/ Request \/ World

(* Handlers end and the driver keeps trying; users and networks owe nothing. *)
Fairness == WF_wifiVars(Handler) /\ WF_wifiVars(Associate)

WifiSpec == WifiInit /\ [][WifiNext]_wifiVars /\ Fairness

-----------------------------------------------------------------------------
(* Properties.                                                             *)

Step == {"boot", "idle", "test", "restore", "putSsid", "putPassword",
         "forgetPassword", "restart"}

(* Every variable keeps its type; a link is one of the station mode, with  *)
(* the network the driver was told to join.                                *)
WifiTypeOK ==
  /\ pc \in Step
  /\ nvs \in Credentials /\ request \in Credentials /\ old \in Credentials
  /\ mode \in {"off", "AP", "STA", "AP_STA"} /\ apMode \in BOOLEAN
  /\ target \in Credentials /\ linked \in BOOLEAN
  /\ linked => mode \in {"STA", "AP_STA"} /\ Works(target)
  /\ up \subseteq Ssid
  /\ tested \subseteq Credentials /\ torn \in BOOLEAN
  /\ powerFails \in 0 .. MaxPowerFails

(* Unless power failed between the two writes of a handler, the stored     *)
(* pair is one the device has been connected with ("Test the new           *)
(* connection BEFORE saving it"), however requests, failures and restarts  *)
(* interleave.                                                             *)
StoredPairWasTested ==
  pc \in {"boot", "idle"} /\ ~torn => nvs[1] = None \/ nvs \in tested

(* Whatever a restart finds in the NVS, be it a pair of which only one half *)
(* was written, it ends with a device somebody can talk to.                *)
BootEndsReachable == [][pc = "boot" /\ pc' = "idle" => Reachable']_wifiVars

(* A device nobody can reach is still trying to join its stored network.   *)
UnreachableAwaitsStored ==
  pc = "idle" /\ ~Reachable => nvs[1] # None /\ target = nvs /\ mode = "STA"

(* Hence it comes back when that network does, for ever if that stays.     *)
ComesBack ==
  <>[](Works(nvs)) => (pc = "idle" /\ ~Reachable ~> Reachable \/ pc # "idle")
=============================================================================
