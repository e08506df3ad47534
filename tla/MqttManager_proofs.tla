------------------------- MODULE MqttManager_proofs -------------------------
(***************************************************************************)
(* Proofs about the MQTT client for any set of brokers and base topics,    *)
(* any intervals below the range of millis(), and any number of saved      *)
(* configurations and faults.                                              *)
(***************************************************************************)
EXTENDS MqttManager, TLAPS

(* The parts of the type invariant, by what disturbs them.                 *)
FlagType == cut \in BOOLEAN /\ wifi \in BOOLEAN
BoundType == saves \in 0 .. MaxSaves /\ faults \in 0 .. MaxFaults
ClockType ==
  /\ connectAge \in 0 .. Modulus - 1 /\ statusAge \in 0 .. Modulus - 1
  /\ sinceDial \in 0 .. ConnectInterval
ConfigType ==
  /\ pc \in {"loop", "dial", "announce", "save", "restart"}
  /\ config \in Config /\ nvs \in Config
  /\ todo \in {<<>>, <<"topic">>, <<"host", "topic">>, <<"enabled", "host", "topic">>}
BrokerType ==
  /\ conn \in Host \cup {None}
  /\ session \in [Host -> Topic \cup {None}]
  /\ retained \in [Host -> [Topic -> {None, "online", "offline"}]]
  /\ signedOff \subseteq Host \X Topic

LEMMA Parts == TypeOK <=> FlagType /\ BoundType /\ ClockType /\ ConfigType /\ BrokerType
BY Zenon DEF TypeOK, FlagType, BoundType, ClockType, ConfigType, BrokerType

LEMMA FlagStep ==
  ASSUME FlagType, [Next]_vars
  PROVE  FlagType'
<1> USE DEF FlagType, deviceVars, linkVars
<1>1. CASE Device
  BY <1>1, Zenon DEF Device, Dial, Connected, Refused, Announce, PublishStatus, NoticeCut, PutKey,
                     Disconnect, Restart, Boot
<1>2. CASE (\E new \in Config : Save(new)) \/ (\E h \in Host : Expire(h))
  BY <1>2, Zenon DEF Save, Expire
<1>3. CASE Tick \/ WifiUp \/ WifiDown \/ Cut \/ Reset
  BY <1>3, Zenon DEF Tick, WifiUp, WifiDown, Cut, Reset, Boot
<1>4. CASE UNCHANGED vars
  BY <1>4, Zenon DEF vars
<1> QED BY <1>1, <1>2, <1>3, <1>4 DEF Next

LEMMA BoundStep ==
  ASSUME BoundType, [Next]_vars
  PROVE  BoundType'
<1> USE BoundAssumption DEF BoundType, bounds
<1>1. CASE Device
  BY <1>1 DEF Device, Dial, Connected, Refused, Announce, PublishStatus, NoticeCut, PutKey,
              Disconnect, Restart, Boot
<1>2. CASE (\E new \in Config : Save(new)) \/ (\E h \in Host : Expire(h))
  BY <1>2 DEF Save, Expire
<1>3. CASE Tick \/ WifiUp \/ WifiDown \/ Cut \/ Reset
  BY <1>3 DEF Tick, WifiUp, WifiDown, Cut, Reset, Boot
<1>4. CASE UNCHANGED vars
  BY <1>4 DEF vars
<1> QED BY <1>1, <1>2, <1>3, <1>4 DEF Next

-----------------------------------------------------------------------------
(* The pace of the attempts to connect.                                    *)

LEMMA OlderByOne ==
  ASSUME NEW age \in 0 .. Modulus - 1
  PROVE  /\ Older(age) \in 0 .. Modulus - 1
         /\ Older(age) \in {0, age + 1}
<1>1. CASE age + 1 = Modulus
  BY <1>1, IntervalAssumption DEF Older
<1>2. CASE age + 1 < Modulus
  BY <1>2, IntervalAssumption DEF Older
<1> QED BY <1>1, <1>2, IntervalAssumption

(* The age the device computes may be too small, behind a wrap or a        *)
(* restart, but never lets an attempt begin too early.                     *)
PaceInv == ClockType /\ (sinceDial = ConnectInterval \/ connectAge <= sinceDial)

LEMMA PaceStep ==
  ASSUME PaceInv, [Next]_vars
  PROVE  PaceInv' /\ (sinceDial' < sinceDial => sinceDial = ConnectInterval)
<1> USE IntervalAssumption DEF PaceInv, ClockType, clockVars
<1>1. CASE Tick
  BY <1>1, OlderByOne DEF Tick
<1>2. CASE Dial
  BY <1>2 DEF Dial
<1>3. CASE PublishStatus
  BY <1>3 DEF PublishStatus
<1>4. CASE Restart \/ Reset
  BY <1>4 DEF Restart, Reset, Boot
<1>5. CASE UNCHANGED clockVars
  BY <1>5
<1>6. CASE Connected \/ (\E reached \in BOOLEAN : Refused(reached)) \/ Announce \/ NoticeCut
           \/ PutKey \/ Disconnect
  BY <1>5, <1>6 DEF Connected, Refused, Announce, NoticeCut, PutKey, Disconnect
<1>7. CASE (\E new \in Config : Save(new)) \/ (\E h \in Host : Expire(h))
           \/ WifiUp \/ WifiDown \/ Cut \/ UNCHANGED vars
  BY <1>5, <1>7 DEF Save, Expire, WifiUp, WifiDown, Cut, vars
<1> QED BY <1>1, <1>2, <1>3, <1>4, <1>6, <1>7 DEF Next, Device

LEMMA PaceInit == Init => PaceInv
BY IntervalAssumption DEF Init, PaceInv, ClockType

(* Attempts to connect start at least ConnectInterval apart: for every     *)
(* range of millis() above the interval, across its wrap and restarts.     *)
THEOREM PaceTheorem == Spec => ConnectPaced
<1>1. PaceInv /\ [Next]_vars => [sinceDial' < sinceDial => sinceDial = ConnectInterval]_vars
  BY PaceStep
<1> QED BY <1>1, PaceInit, PaceStep, PTL DEF Spec, ConnectPaced

-----------------------------------------------------------------------------
(* The configuration and its storage.                                      *)

LEMMA ConfigStep ==
  ASSUME ConfigType, [Next]_vars
  PROVE  ConfigType'
<1> USE DEF ConfigType, deviceVars
<1>1. CASE Dial \/ Connected \/ (\E reached \in BOOLEAN : Refused(reached)) \/ Announce
           \/ PublishStatus \/ NoticeCut
  BY <1>1 DEF Dial, Connected, Refused, Announce, PublishStatus, NoticeCut
<1>2. CASE PutKey
  <2>1. Head(todo) \in {"enabled", "host", "topic"}
        /\ Tail(todo) \in {<<>>, <<"topic">>, <<"host", "topic">>}
    <3>1. todo \in {<<"topic">>, <<"host", "topic">>, <<"enabled", "host", "topic">>}
      BY <1>2 DEF PutKey
    <3>2. CASE todo = <<"topic">>
      BY <3>2
    <3>3. CASE todo = <<"host", "topic">>
      BY <3>3
    <3>4. CASE todo = <<"enabled", "host", "topic">>
      BY <3>4
    <3> QED BY <3>1, <3>2, <3>3, <3>4
  <2>2. /\ pc' = pc /\ config' = config /\ todo' = Tail(todo)
        /\ nvs' = [nvs EXCEPT ![Head(todo)] = config[Head(todo)]]
    BY <1>2, Zenon DEF PutKey
  <2>3. nvs' \in Config
    BY <2>1, <2>2 DEF Config
  <2> QED BY <2>1, <2>2, <2>3
<1>3. CASE Disconnect \/ Restart \/ Reset
  BY <1>3 DEF Disconnect, Restart, Reset, Boot
<1>4. ASSUME NEW new \in Config, Save(new) PROVE ConfigType'
  BY <1>4 DEF Save
<1>5. CASE (\E h \in Host : Expire(h)) \/ Tick \/ WifiUp \/ WifiDown \/ Cut \/ UNCHANGED vars
  BY <1>5 DEF Expire, Tick, WifiUp, WifiDown, Cut, vars
<1> QED BY <1>1, <1>2, <1>3, <1>4, <1>5 DEF Next, Device

-----------------------------------------------------------------------------
(* The broker's side: wills and what is retained.                          *)

(* While an attempt is made there is a broker to call and no connection;   *)
(* from CONNECT to the announcement the broker keeps the will for the      *)
(* topic that is about to be announced.                                    *)
DialInv ==
  /\ pc = "dial" => config.host # None /\ conn = None
  /\ pc = "announce" => conn # None /\ (~cut => session[conn] = config.topic)

BrokerInv == BrokerType /\ DialInv /\ OnlineIsCovered /\ ConnectedIsOnline

LEMMA ConfigFields ==
  ASSUME ConfigType
  PROVE  config.host \in Host \cup {None} /\ config.topic \in Topic
BY DEF ConfigType, Config

(* What a step leaves alone when it retains a message under topic t of h.  *)
Others(h, t) ==
  \A g \in Host, u \in Topic :
    g # h \/ u # t =>
      /\ retained'[g][u] = retained[g][u]
      /\ <<g, u>> \in signedOff => <<g, u>> \in signedOff'

(* A retained message replaces the one before it and touches no other.     *)
LEMMA RetainEffect ==
  ASSUME BrokerType, NEW h \in Host, NEW t \in Topic, NEW m \in {"online", "offline"},
         Retain(h, t, m)
  PROVE  /\ retained' \in [Host -> [Topic -> {None, "online", "offline"}]]
         /\ signedOff' \subseteq Host \X Topic
         /\ retained'[h][t] = m
         /\ Others(h, t)
BY DEF BrokerType, Retain, Others

(* A will that is published takes back the "online" it stands for.         *)
LEMMA WillEffect ==
  ASSUME BrokerType, OnlineIsCovered, NEW h \in Host, session[h] # None,
         Retain(h, session[h], "offline"),
         NEW w \in Topic \cup {None}, session' = [session EXCEPT ![h] = w]
  PROVE  /\ retained' \in [Host -> [Topic -> {None, "online", "offline"}]]
         /\ signedOff' \subseteq Host \X Topic
         /\ session' \in [Host -> Topic \cup {None}]
         /\ OnlineIsCovered'
         /\ \A g \in Host \ {h} : retained'[g] = retained[g] /\ session'[g] = session[g]
<1>1. session[h] \in Topic
  BY DEF BrokerType
<1>2. session' \in [Host -> Topic \cup {None}] /\ \A g \in Host \ {h} : session'[g] = session[g]
  BY DEF BrokerType
<1>3. /\ retained' \in [Host -> [Topic -> {None, "online", "offline"}]]
      /\ signedOff' \subseteq Host \X Topic
      /\ retained'[h][session[h]] = "offline"
      /\ Others(h, session[h])
  BY <1>1, RetainEffect
<1>4. \A g \in Host \ {h} : retained'[g] = retained[g]
  BY DEF Retain, BrokerType
<1>5. ASSUME NEW g \in Host, NEW u \in Topic, retained'[g][u] = "online"
      PROVE  session'[g] = u \/ <<g, u>> \in signedOff'
  <2>1. g # h \/ u # session[h]
    BY <1>3, <1>5
  <2>2. /\ retained[g][u] = "online"
        /\ <<g, u>> \in signedOff => <<g, u>> \in signedOff'
    BY <1>3, <1>5, <2>1 DEF Others
  <2>3. session[g] = u \/ <<g, u>> \in signedOff
    BY <2>2 DEF OnlineIsCovered
  <2> QED BY <1>2, <2>1, <2>2, <2>3
<1> QED BY <1>2, <1>3, <1>4, <1>5 DEF OnlineIsCovered

LEMMA AcceptEffect ==
  ASSUME BrokerType, OnlineIsCovered, NEW h \in Host, NEW w \in Topic, BrokerAccepts(h, w)
  PROVE  /\ retained' \in [Host -> [Topic -> {None, "online", "offline"}]]
         /\ signedOff' \subseteq Host \X Topic
         /\ session' \in [Host -> Topic \cup {None}]
         /\ session'[h] = w
         /\ OnlineIsCovered'
<1>1. session' = [session EXCEPT ![h] = w]
  BY DEF BrokerAccepts
<1>2. session'[h] = w /\ session' \in [Host -> Topic \cup {None}]
  BY <1>1 DEF BrokerType
<1>3. CASE session[h] # None
  BY <1>1, <1>2, <1>3, WillEffect DEF BrokerAccepts
<1>4. CASE session[h] = None
  <2>1. retained' = retained /\ signedOff' = signedOff
    BY <1>4 DEF BrokerAccepts
  <2>2. \A g \in Host \ {h} : session'[g] = session[g]
    BY <1>1 DEF BrokerType
  <2>3. OnlineIsCovered'
    BY <1>4, <2>1, <2>2, NoneAssumption DEF OnlineIsCovered
  <2> QED BY <1>2, <2>1, <2>3 DEF BrokerType
<1> QED BY <1>3, <1>4

LEMMA BrokerStep ==
  ASSUME ConfigType, BrokerInv, [Next]_vars
  PROVE  BrokerInv'
<1> USE DEF BrokerInv, DialInv, ConnectedIsOnline
<1>1. CASE Connected
  <2>1. config.host \in Host /\ WillTopic \in Topic
    BY <1>1, ConfigFields DEF Connected, WillTopic
  <2>2. BrokerAccepts(config.host, WillTopic) /\ pc' = "announce" /\ conn' = config.host
        /\ config' = config /\ ~cut'
    BY <1>1 DEF Connected
  <2> QED BY <2>1, <2>2, AcceptEffect, NoneAssumption DEF BrokerType, WillTopic
<1>2. ASSUME NEW reached \in BOOLEAN, Refused(reached) PROVE BrokerInv'
  <2>1. pc' = "loop" /\ conn' = None
    BY <1>2 DEF Refused
  <2>2. CASE reached /\ wifi
    <3>1. config.host \in Host /\ WillTopic \in Topic
      BY <1>2, ConfigFields DEF Refused, WillTopic
    <3>2. BrokerAccepts(config.host, WillTopic)
      BY <1>2, <2>2 DEF Refused
    <3> QED BY <2>1, <3>1, <3>2, AcceptEffect DEF BrokerType
  <2>3. CASE ~(reached /\ wifi)
    BY <1>2, <2>1, <2>3 DEF Refused, brokerVars, BrokerType, OnlineIsCovered
  <2> QED BY <2>2, <2>3
<1>3. CASE Announce
  <2>1. conn \in Host /\ config.topic \in Topic /\ conn' = conn /\ session' = session
        /\ pc' = "loop" /\ cut' = cut
    BY <1>3, ConfigFields DEF Announce, linkVars, BrokerType
  <2>2. CASE cut
    BY <1>3, <2>1, <2>2 DEF Announce, BrokerType, OnlineIsCovered
  <2>3. CASE ~cut
    <3>1. session[conn] = config.topic /\ Retain(conn, config.topic, "online")
      BY <1>3, <2>3 DEF Announce
    <3>2. /\ retained' \in [Host -> [Topic -> {None, "online", "offline"}]]
          /\ signedOff' \subseteq Host \X Topic
          /\ retained'[conn][config.topic] = "online"
          /\ Others(conn, config.topic)
      BY <2>1, <3>1, RetainEffect
    <3>3. OnlineIsCovered'
      BY <2>1, <3>1, <3>2 DEF OnlineIsCovered, Others
    <3> QED BY <2>1, <3>1, <3>2, <3>3, NoneAssumption DEF BrokerType
  <2> QED BY <2>2, <2>3
<1>4. ASSUME NEW h \in Host, Expire(h) PROVE BrokerInv'
  <2>1. /\ retained' \in [Host -> [Topic -> {None, "online", "offline"}]]
        /\ signedOff' \subseteq Host \X Topic
        /\ session' \in [Host -> Topic \cup {None}]
        /\ OnlineIsCovered'
        /\ \A g \in Host \ {h} : retained'[g] = retained[g] /\ session'[g] = session[g]
    BY <1>4, WillEffect DEF Expire
  <2>2. pc' = pc /\ config' = config /\ conn' = conn /\ cut' = cut /\ (conn # h \/ cut)
    BY <1>4 DEF Expire, deviceVars, linkVars
  <2> QED BY <2>1, <2>2 DEF BrokerType
<1>5. CASE Disconnect
  <2>1. pc' = "restart" /\ conn' = None /\ retained' = retained
    BY <1>5 DEF Disconnect
  <2>2. CASE conn # None /\ ~cut
    <3>1. conn \in Host /\ session[conn] \in Topic
      BY <1>5, <2>2 DEF Disconnect, BrokerType
    <3>2. session' = [session EXCEPT ![conn] = None]
          /\ signedOff' = signedOff \cup {<<conn, session[conn]>>}
      BY <1>5, <2>2 DEF Disconnect
    <3>3. OnlineIsCovered'
      BY <2>1, <3>1, <3>2 DEF OnlineIsCovered, BrokerType
    <3> QED BY <2>1, <3>1, <3>2, <3>3 DEF BrokerType
  <2>3. CASE ~(conn # None /\ ~cut)
    BY <1>5, <2>1, <2>3 DEF Disconnect, BrokerType, OnlineIsCovered
  <2> QED BY <2>2, <2>3
<1>6. CASE Dial \/ PublishStatus \/ NoticeCut \/ PutKey
  BY <1>6 DEF Dial, PublishStatus, NoticeCut, PutKey, linkVars, deviceVars, brokerVars, BrokerType,
              OnlineIsCovered
<1>7. CASE Restart \/ Reset
  BY <1>7 DEF Restart, Reset, Boot, brokerVars, BrokerType, OnlineIsCovered
<1>8. CASE (\E new \in Config : Save(new)) \/ Cut
  BY <1>8 DEF Save, Cut, linkVars, deviceVars, brokerVars, BrokerType, OnlineIsCovered
<1>9. CASE Tick \/ WifiUp \/ WifiDown \/ UNCHANGED vars
  BY <1>9 DEF Tick, WifiUp, WifiDown, vars, linkVars, deviceVars, brokerVars, BrokerType,
              OnlineIsCovered
<1> QED BY <1>1, <1>2, <1>3, <1>4, <1>5, <1>6, <1>7, <1>8, <1>9 DEF Next, Device

-----------------------------------------------------------------------------
(* The results.                                                            *)

MqttInv == FlagType /\ BoundType /\ PaceInv /\ ConfigType /\ BrokerInv

LEMMA InitInv == Init => MqttInv
<1> SUFFICES ASSUME Init PROVE MqttInv
  OBVIOUS
<1>1. FlagType /\ pc = "loop" /\ conn = None
  BY Zenon DEF Init, FlagType
<1>2. BoundType
  BY BoundAssumption DEF Init, BoundType
<1>3. ConfigType
  BY TopicAssumption DEF Init, ConfigType, Config, FactoryConfig
<1>4. BrokerType
  BY DEF Init, BrokerType
<1>5. OnlineIsCovered
  <2>1. None # "online"
    BY NoneAssumption
  <2> QED BY <2>1 DEF Init, OnlineIsCovered
<1> QED BY <1>1, <1>2, <1>3, <1>4, <1>5, PaceInit DEF MqttInv, BrokerInv, DialInv, ConnectedIsOnline

LEMMA Invariance == Spec => []MqttInv
<1>1. MqttInv /\ [Next]_vars => MqttInv'
  BY FlagStep, BoundStep, PaceStep, ConfigStep, BrokerStep DEF MqttInv
<1> QED BY <1>1, InitInv, PTL DEF Spec

(* Every variable keeps its type, for any brokers, topics and intervals.   *)
THEOREM TypeCorrect == Spec => []TypeOK
<1>1. MqttInv => TypeOK
  BY Parts DEF MqttInv, PaceInv, BrokerInv
<1> QED BY <1>1, Invariance, PTL

(* Whatever connections, faults and reconfigurations follow each other, a  *)
(* retained "online" has a will behind it or belongs to a device that      *)
(* signed off.                                                             *)
THEOREM CoveredTheorem == Spec => []OnlineIsCovered
<1>1. MqttInv => OnlineIsCovered
  BY DEF MqttInv, BrokerInv
<1> QED BY <1>1, Invariance, PTL

(* As long as a connection stands behind its announcement, no late will    *)
(* overwrites it.                                                          *)
THEOREM OnlineTheorem == Spec => []ConnectedIsOnline
<1>1. MqttInv => ConnectedIsOnline
  BY DEF MqttInv, BrokerInv
<1> QED BY <1>1, Invariance, PTL
=============================================================================
