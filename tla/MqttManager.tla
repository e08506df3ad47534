---------------------------- MODULE MqttManager ----------------------------
(***************************************************************************)
(* The MQTT client of the TUL bridge, Simple/USBSerial/src/                *)
(* MQTTManager.cpp, with the handler /mqtt/save that reconfigures it and   *)
(* the broker it talks to.                                                 *)
(*                                                                         *)
(* The device announces itself with a retained "online" and leaves a       *)
(* retained "offline" with the broker as its will.  A will is published    *)
(* when the broker gives up a session, not when the device signs off.      *)
(*                                                                         *)
(* millis() and the two times compared with it only matter by their        *)
(* differences modulo 2^32, which the model keeps.  Port, user name and    *)
(* password share the fate of the host name and are left out, and so are   *)
(* the texts shown on the web page.                                        *)
(***************************************************************************)
EXTENDS Naturals, Sequences

CONSTANTS
  Host,             \* brokers
  Topic,            \* base topics
  None,             \* an empty host name, no session, nothing retained
  DefaultTopic,     \* "busware/TUL"
  ConnectInterval,  \* CONNECT_INTERVAL_MS
  StatusInterval,   \* STATUS_INTERVAL_MS
  Modulus,          \* 2^32, the range of millis()
  MaxSaves,         \* bound: how often the user saves a configuration
  MaxFaults         \* bound: lost connections, refusals and resets

ASSUME NoneAssumption == None \notin Host \cup Topic \cup {"online", "offline"}
ASSUME TopicAssumption == DefaultTopic \in Topic
ASSUME IntervalAssumption ==
  /\ ConnectInterval \in 1 .. Modulus - 1
  /\ StatusInterval \in 1 .. Modulus - 1
  /\ Modulus \in Nat
ASSUME BoundAssumption == MaxSaves \in Nat /\ MaxFaults \in Nat

Config == [enabled : BOOLEAN, host : Host \cup {None}, topic : Topic]

FactoryConfig == [enabled |-> FALSE, host |-> None, topic |-> DefaultTopic]

VARIABLES
  pc,          \* "loop" or the step in progress
  config,      \* the members enabled, host and baseTopic
  nvs,         \* the NVS keys of the same names
  todo,        \* keys saveConfig() still has to write
  conn,        \* the broker mqttClient believes it is connected to
  cut,         \* nothing gets through on that connection any more
  wifi,        \* WiFi.status() = WL_CONNECTED
  connectAge,  \* millis() - lastConnectAttempt
  statusAge,   \* millis() - lastStatusPublish
  session,     \* session[h]: base topic of the will broker h keeps for the device
  retained,    \* retained[h][t]: message retained under t/availability
  signedOff,   \* history: "online" left behind by a DISCONNECT
  sinceDial,   \* history: true time since the last dial, up to ConnectInterval
  saves, faults

deviceVars == <<pc, config, nvs, todo, conn>>
linkVars == <<cut, wifi>>
clockVars == <<connectAge, statusAge, sinceDial>>
brokerVars == <<session, retained, signedOff>>
bounds == <<saves, faults>>
vars == <<deviceVars, linkVars, clockVars, brokerVars, bounds>>

Init ==
  /\ pc = "loop" /\ config = FactoryConfig /\ nvs = FactoryConfig
  /\ todo = <<>> /\ conn = None
  /\ cut = FALSE /\ wifi = FALSE
  /\ connectAge = 0 /\ statusAge = 0 /\ sinceDial = ConnectInterval
  /\ session = [h \in Host |-> None]
  /\ retained = [h \in Host |-> [t \in Topic |-> None]]
  /\ signedOff = {}
  /\ saves = 0 /\ faults = 0

-----------------------------------------------------------------------------
(* Time and the broker.                                                    *)

(* The difference of two uint32_t times grows by one.                      *)
Unwrapped(age) == age + 1  \* mutant
Older(age) == (age + 1) % Modulus

(* A message retained under topic t of broker h.                           *)
Retain(h, t, message) ==
  /\ retained' = [retained EXCEPT ![h][t] = message]
  /\ signedOff' = signedOff \ {<<h, t>>}

(* CONNECT: a session the broker still keeps for this client is ended      *)
(* first, which publishes its will.                                        *)
BrokerAccepts(h, will) ==
  /\ session' = [session EXCEPT ![h] = will]
  /\ IF session[h] # None
     THEN Retain(h, session[h], "offline")
     ELSE UNCHANGED <<retained, signedOff>>

(* The broker gives up a session nothing has been heard of for too long.   *)
Expire(h) ==
  /\ session[h] # None
  /\ conn # h \/ cut
  /\ session' = [session EXCEPT ![h] = None]
  /\ Retain(h, session[h], "offline")
  /\ UNCHANGED <<deviceVars, linkVars, clockVars, bounds>>

-----------------------------------------------------------------------------
(* loop(), connect() and the publishing functions.                         *)

Running == pc = "loop" /\ config.enabled /\ wifi

(* loop() without a connection: the attempt is dated before it is made.    *)
DialUndated ==  \* mutant
  /\ Running /\ conn = None
  /\ connectAge >= ConnectInterval
  /\ sinceDial' = 0
  /\ pc' = IF config.host = None THEN "loop" ELSE "dial"
  /\ UNCHANGED <<config, nvs, todo, conn, linkVars, connectAge, statusAge, brokerVars, bounds>>

Dial ==
  /\ Running /\ conn = None
  /\ connectAge >= ConnectInterval
  /\ connectAge' = 0
  /\ sinceDial' = 0
  /\ pc' = IF config.host = None THEN "loop" ELSE "dial"
  /\ UNCHANGED <<config, nvs, todo, conn, linkVars, statusAge, brokerVars, bounds>>

(* The will is left under the topic the device announces itself under.     *)
DefaultWill == DefaultTopic  \* mutant
WillTopic == config.topic

(* mqttClient.connect() with the will "offline" succeeds.                  *)
Connected ==
  /\ pc = "dial" /\ wifi
  /\ pc' = "announce"
  /\ conn' = config.host
  /\ cut' = FALSE
  /\ BrokerAccepts(config.host, WillTopic)
  /\ UNCHANGED <<config, nvs, todo, wifi, clockVars, bounds>>

(* It fails; reached: only the broker's answer was lost.                   *)
Refused(reached) ==
  /\ pc = "dial"
  /\ pc' = "loop"
  /\ faults < MaxFaults \/ ~wifi
  /\ faults' = IF wifi THEN faults + 1 ELSE faults
  /\ IF reached /\ wifi
     THEN BrokerAccepts(config.host, WillTopic)
     ELSE UNCHANGED brokerVars
  /\ UNCHANGED <<config, nvs, todo, conn, linkVars, clockVars, saves>>

(* publishAvailability("online")                                           *)
AnnounceNothing ==  \* mutant
  /\ pc = "announce"
  /\ pc' = "loop"
  /\ UNCHANGED <<config, nvs, todo, conn, linkVars, clockVars, brokerVars, bounds>>

Announce ==
  /\ pc = "announce"
  /\ pc' = "loop"
  /\ IF cut
     THEN UNCHANGED <<retained, signedOff>>
     ELSE Retain(conn, config.topic, "online")
  /\ UNCHANGED <<config, nvs, todo, conn, linkVars, clockVars, session, bounds>>

(* loop() with a connection: publishStatus() and publishKnxBytes().        *)
PublishStatus ==
  /\ Running /\ conn # None
  /\ statusAge >= StatusInterval
  /\ statusAge' = 0
  /\ UNCHANGED <<deviceVars, linkVars, connectAge, sinceDial, brokerVars, bounds>>

(* mqttClient.connected() or mqttClient.loop() finds the connection dead.  *)
NoticeCut ==
  /\ pc = "loop" /\ conn # None /\ cut
  /\ conn' = None
  /\ cut' = FALSE
  /\ UNCHANGED <<pc, config, nvs, todo, wifi, clockVars, brokerVars, bounds>>

-----------------------------------------------------------------------------
(* handleMQTTSave() and saveConfig().                                      *)

(* A request that enables MQTT without a broker is answered 400.           *)
Save(new) ==
  /\ pc = "loop" /\ saves < MaxSaves
  /\ new.enabled => new.host # None
  /\ saves' = saves + 1
  /\ pc' = "save"
  /\ config' = new
  /\ todo' = <<"enabled", "host", "topic">>
  /\ UNCHANGED <<nvs, conn, linkVars, clockVars, brokerVars, faults>>

PutKey ==
  /\ pc = "save" /\ todo # <<>>
  /\ nvs' = [nvs EXCEPT ![Head(todo)] = config[Head(todo)]]
  /\ todo' = Tail(todo)
  /\ UNCHANGED <<pc, config, conn, linkVars, clockVars, brokerVars, bounds>>

(* mqttClient.disconnect(): the broker forgets the will.                   *)
Disconnect ==
  /\ pc = "save" /\ todo = <<>>
  /\ pc' = "restart"
  /\ conn' = None
  /\ cut' = FALSE
  /\ IF conn # None /\ ~cut
     THEN /\ session' = [session EXCEPT ![conn] = None]
          /\ signedOff' = signedOff \cup {<<conn, session[conn]>>}
     ELSE UNCHANGED <<session, signedOff>>
  /\ UNCHANGED <<config, nvs, todo, wifi, clockVars, retained, bounds>>

(* begin() and loadConfig() after a restart, with millis() at 0.           *)
Boot ==
  /\ pc' = "loop"
  /\ config' = nvs
  /\ todo' = <<>>
  /\ conn' = None /\ cut' = FALSE /\ wifi' = FALSE
  /\ connectAge' = 0 /\ statusAge' = 0
  /\ UNCHANGED <<nvs, sinceDial, brokerVars, saves>>

Restart ==
  /\ pc = "restart"
  /\ Boot
  /\ UNCHANGED faults

-----------------------------------------------------------------------------
(* The world: time, WiFi and faults.                                       *)

Tick ==
  /\ connectAge' = Older(connectAge)
  /\ statusAge' = Older(statusAge)
  /\ sinceDial' = IF sinceDial < ConnectInterval THEN sinceDial + 1 ELSE sinceDial
  /\ UNCHANGED <<deviceVars, linkVars, brokerVars, bounds>>

WifiUp ==
  /\ ~wifi
  /\ wifi' = TRUE
  /\ UNCHANGED <<deviceVars, cut, clockVars, brokerVars, bounds>>

WifiDown ==
  /\ wifi /\ faults < MaxFaults
  /\ wifi' = FALSE
  /\ faults' = faults + 1
  /\ UNCHANGED <<deviceVars, cut, clockVars, brokerVars, saves>>

Cut ==
  /\ conn # None /\ ~cut /\ faults < MaxFaults
  /\ cut' = TRUE
  /\ faults' = faults + 1
  /\ UNCHANGED <<deviceVars, wifi, clockVars, brokerVars, saves>>

(* Power fails, or another handler restarts the device.                    *)
Reset ==
  /\ faults < MaxFaults
  /\ faults' = faults + 1
  /\ Boot

Device ==
  \/ Dial \/ Connected \/ (\E reached \in BOOLEAN : Refused(reached))
  \/ Announce \/ PublishStatus \/ NoticeCut
  \/ PutKey \/ Disconnect \/ Restart

Next ==
  \/ Device
  \/ \E new \in Config : Save(new)
  \/ \E h \in Host : Expire(h)
  \/ Tick \/ WifiUp \/ WifiDown \/ Cut \/ Reset

(* Time passes, the loop runs and is in time for every instant at which it *)
(* has something to do, brokers time sessions out, WiFi comes back.        *)
Fairness ==
  /\ WF_vars(Tick) /\ WF_vars(WifiUp)
  /\ SF_vars(Dial) /\ SF_vars(PublishStatus)
  /\ WF_vars(Connected \/ \E reached \in BOOLEAN : Refused(reached))
  /\ WF_vars(Announce) /\ WF_vars(NoticeCut)
  /\ WF_vars(PutKey \/ Disconnect \/ Restart)
  /\ \A h \in Host : WF_vars(Expire(h))

Spec == Init /\ [][Next]_vars /\ Fairness

-----------------------------------------------------------------------------
(* Properties.                                                             *)

(* Every variable keeps its type, the ages that of a difference modulo     *)
(* 2^32.                                                                   *)
TypeOK ==
  /\ pc \in {"loop", "dial", "announce", "save", "restart"}
  /\ config \in Config /\ nvs \in Config
  /\ todo \in {<<>>, <<"topic">>, <<"host", "topic">>, <<"enabled", "host", "topic">>}
  /\ conn \in Host \cup {None} /\ cut \in BOOLEAN /\ wifi \in BOOLEAN
  /\ connectAge \in 0 .. Modulus - 1 /\ statusAge \in 0 .. Modulus - 1
  /\ session \in [Host -> Topic \cup {None}]
  /\ retained \in [Host -> [Topic -> {None, "online", "offline"}]]
  /\ signedOff \subseteq Host \X Topic
  /\ sinceDial \in 0 .. ConnectInterval
  /\ saves \in 0 .. MaxSaves /\ faults \in 0 .. MaxFaults

(* Every "online" a broker retains is about to be corrected by a will the  *)
(* same broker keeps for the same topic, whatever connections, resets and  *)
(* reconfigurations came in between; only a device that signed off leaves  *)
(* an "online" nobody takes back.                                          *)
OnlineIsCovered ==
  \A h \in Host, t \in Topic :
    retained[h][t] = "online" => session[h] = t \/ <<h, t>> \in signedOff

(* While the connection stands the broker says "online": the will of an    *)
(* earlier session, published late, never overwrites the announcement.     *)
ConnectedIsOnline ==
  conn # None /\ ~cut /\ pc # "announce" =>
    /\ session[conn] # None
    /\ retained[conn][session[conn]] = "online"

(* Two attempts to connect, each of which may block the bridge for         *)
(* seconds, start at least CONNECT_INTERVAL_MS apart: across a wrap of     *)
(* millis() and across restarts, which reset lastConnectAttempt.           *)
ConnectPaced ==
  [][sinceDial' < sinceDial => sinceDial = ConnectInterval]_vars

(* Once the user stops saving, the stored configuration decides: enabled   *)
(* with a broker, the device ends up announced as online for good.         *)
Usable == nvs.enabled /\ nvs.host # None

ComesOnline ==
  <>[](Usable => conn = nvs.host /\ retained[nvs.host][nvs.topic] = "online")

(* README.md:190: availability uses retained online/offline state and the  *)
(* last will.  A retained "online" of a device that is gone is taken back. *)
AvailabilityIsCurrent ==
  \A h \in Host, t \in Topic :
    retained[h][t] = "online" /\ conn # h ~>
      retained[h][t] = "offline" \/ (conn = h /\ session[h] = t)
=============================================================================
