------------------------- MODULE RadioModes_proofs -------------------------
(***************************************************************************)
(* Proofs about RadioModes, for every size of the FIFO, every credit and   *)
(* every number of commands and failures: the send credit does not wrap,   *)
(* a Z-Wave message is sent three times at most, and one protocol brings   *)
(* back the receiver of another.                                           *)
(*                                                                         *)
(* A state of the stick is a record that goes through many operators in a  *)
(* row.  Each operator has a lemma that says which fields it may change,   *)
(* and what some of them become; the proofs use the lemmas and leave the   *)
(* operator unexpanded.                                                    *)
(***************************************************************************)
EXTENDS RadioModes, TLAPS

Fields ==
  {"cc_on", "asksin_on", "moritz_on", "rwe_on", "zwave_on", "fastrf_on", "kopp_fc_rx_on",
   "intertechno_on", "tx_report", "restore", "autoAck", "credit", "busy", "ackState",
   "zMsgAck", "due", "stray", "tries", "acked", "cfg", "marc", "int", "fifo", "gdo2"}

(* From c to d no field changes but these.                                 *)
Only(c, d, changed) == \A f \in Fields \ changed : d[f] = c[f]

Marc == {"IDLE", "RX", "TX", "OVERFLOW", "UNLOCKED"}

(* A record whose fields of the chip, and the parked modes, are typed.     *)
Stick(c) ==
  /\ DOMAIN c = Fields
  /\ c.cfg \in Cfg /\ c.marc \in Marc /\ c.fifo \in 0..FifoPackets
  /\ c.restore \subseteq {"it", "somfy"} \X {"asksin", "moritz"}

(* The fields a protocol touches while it uses the radio.                  *)
ChipFields == {"cfg", "marc", "int", "fifo", "gdo2"}
RadioFields == ChipFields \cup {"cc_on", "asksin_on", "moritz_on", "restore", "stray"}
Radio(c, d) == Stick(d) /\ Only(c, d, RadioFields)

(* What else changes where the FIFO is read or flushed, and what never     *)
(* changes but to tell fast RF of an edge.                                 *)
FifoFields == {"fifo", "gdo2", "fastrf_on"}
Woken(c, d) == d.fastrf_on = c.fastrf_on \/ (c.fastrf_on > 0 /\ d.fastrf_on = 2)

(* The flags and counters of the protocols.                                *)
Protocols(c) ==
  /\ c.credit \in 0..MaxCredit
  /\ c.zwave_on \in {"no", "r", "m"} /\ c.fastrf_on \in 0..2
  /\ c.busy => c.fastrf_on > 0

(* While a Z-Wave message may be sent again, zwave_ackState counts how     *)
(* often it was sent, and only one that asks for an acknowledgement is.    *)
Message(c) ==
  /\ c.ackState \in 0..2 /\ c.tries \in 0..3
  /\ c.ackState > 0 => c.zMsgAck /\ c.tries = c.ackState /\ ~c.acked

Kind(c) == Stick(c) /\ Protocols(c) /\ Message(c)

(* While the host has switched to InterTechno and done nothing else, no    *)
(* other protocol is on, and what "ix" needs to restore the mode is there. *)
ParkedModes ==
  /\ parked # "no" =>
       /\ cul.intertechno_on
       /\ ~cul.asksin_on /\ ~cul.moritz_on /\ ~cul.rwe_on /\ ~cul.kopp_fc_rx_on
       /\ cul.zwave_on = "no" /\ cul.fastrf_on = 0
  /\ parked = "asksin" => cul.restore = {<<"it", "asksin">>}
  /\ parked = "moritz" => cul.restore = {<<"it", "moritz">>}
  /\ parked = "slow" => cul.restore = {} /\ cul.tx_report /\ cul.cc_on
  /\ parked = "off" => cul.restore = {} /\ ~cul.tx_report

Inv == Kind(cul) /\ parked \in {"no", "off", "slow", "asksin", "moritz"} /\ ParkedModes

-----------------------------------------------------------------------------
(* Fields left alone by one operation, then by the next.                   *)

LEMMA OnlyChain ==
  ASSUME NEW c, NEW d, NEW e, NEW A, Only(c, d, A), Only(d, e, A)
  PROVE  Only(c, e, A)
BY DEF Only

LEMMA RadioChain ==
  ASSUME NEW c, NEW d, NEW e, Radio(c, d), Radio(d, e)
  PROVE  Radio(c, e)
BY OnlyChain DEF Radio

LEMMA FifoType == FifoPackets \in Nat
BY BoundAssumption

LEMMA EmptyFits == 0 \in 0..FifoPackets
BY FifoType

(* The strobes and the driver, each with all it does.                      *)
LEMMA IdleEffect ==
  ASSUME NEW c, Stick(c)
  PROVE  Stick(SIDLE(c)) /\ Only(c, SIDLE(c), {"marc"}) /\ SIDLE(c).marc = "IDLE"
BY DEF Stick, Fields, Only, SIDLE, Marc

LEMMA RxEffect ==
  ASSUME NEW c, Stick(c)
  PROVE  /\ Stick(SRX(c)) /\ Only(c, SRX(c), {"marc"})
         /\ c.marc \in {"IDLE", "TX"} => SRX(c).marc = "RX"
         /\ c.marc \notin {"IDLE", "TX"} => SRX(c).marc = c.marc
BY DEF Stick, Fields, Only, SRX, Marc

LEMMA EdgeEffect ==
  ASSUME NEW c, Stick(c), NEW level
  PROVE  /\ Stick(Edge(c, level)) /\ Only(c, Edge(c, level), {"gdo2", "fastrf_on"})
         /\ Woken(c, Edge(c, level))
         /\ ~c.int => Edge(c, level).fastrf_on = c.fastrf_on
BY DEF Stick, Fields, Only, Woken, Edge

LEMMA FlushEffect ==
  ASSUME NEW c, Stick(c)
  PROVE  /\ Stick(SFRX(c)) /\ Only(c, SFRX(c), FifoFields \cup {"marc"}) /\ Woken(c, SFRX(c))
         /\ SFRX(c).marc = IF c.marc = "OVERFLOW" THEN "IDLE" ELSE c.marc
         /\ ~c.int => SFRX(c).fastrf_on = c.fastrf_on
<1> DEFINE e == Edge(c, c.cfg \in Ook /\ c.gdo2)
           d == SFRX(c)
<1>1. /\ Stick(e) /\ Only(c, e, {"gdo2", "fastrf_on"}) /\ Woken(c, e)
      /\ ~c.int => e.fastrf_on = c.fastrf_on
  BY EdgeEffect
<1>2. d = [e EXCEPT !.fifo = 0, !.marc = IF @ = "OVERFLOW" THEN "IDLE" ELSE @]
  BY DEF SFRX
<1> HIDE DEF d, e
<1>3. /\ DOMAIN d = Fields /\ Only(e, d, {"fifo", "marc"}) /\ d.fifo = 0
      /\ d.marc = IF e.marc = "OVERFLOW" THEN "IDLE" ELSE e.marc
  BY <1>1, <1>2 DEF Stick, Fields, Only
<1>4. Only(c, d, FifoFields \cup {"marc"}) /\ d.fastrf_on = e.fastrf_on /\ e.marc = c.marc
  BY <1>1, <1>3 DEF Only, Fields, FifoFields
<1>5. Stick(d)
  BY <1>1, <1>3, EmptyFits DEF Stick, Fields, Only, Marc
<1> QED BY <1>1, <1>3, <1>4, <1>5 DEF Woken, d

LEMMA LoadEffect ==
  ASSUME NEW c, Stick(c), NEW f \in Cfg
  PROVE  /\ Stick(Load(c, f)) /\ Only(c, Load(c, f), ChipFields)
         /\ Load(c, f).cfg = f /\ Load(c, f).marc = "IDLE" /\ ~Load(c, f).int
<1> DEFINE d == Load(c, f)
<1>1. /\ DOMAIN d = Fields /\ Only(c, d, ChipFields) /\ d.fifo = 0
      /\ d.cfg = f /\ d.marc = "IDLE" /\ ~d.int
  BY DEF Stick, Fields, Only, Load, ChipFields
<1> QED BY <1>1, EmptyFits DEF Stick, Fields, Only, Marc, ChipFields

LEMMA InitChipEffect ==
  ASSUME NEW c, Stick(c), NEW f \in Cfg
  PROVE  /\ Stick(ccInitChip(c, f)) /\ Only(c, ccInitChip(c, f), ChipFields \cup {"moritz_on"})
         /\ ccInitChip(c, f).cfg = f /\ ccInitChip(c, f).marc = "IDLE"
         /\ ~ccInitChip(c, f).moritz_on
<1> DEFINE d == [c EXCEPT !.moritz_on = FALSE]
<1>1. Stick(d) /\ Only(c, d, {"moritz_on"}) /\ ~d.moritz_on
  BY DEF Stick, Fields, Only
<1> HIDE DEF d
<1>2. ccInitChip(c, f) = Load(d, f)
  BY DEF ccInitChip, d
<1> QED BY <1>1, <1>2, LoadEffect DEF Only, Fields, ChipFields

LEMMA TxEffect ==
  ASSUME NEW c, Stick(c)
  PROVE  Stick(ccTX(c)) /\ Only(c, ccTX(c), {"int", "marc"}) /\ ccTX(c).marc = "TX"
BY DEF Stick, Fields, Only, ccTX, Marc

LEMMA ccRxEffect ==
  ASSUME NEW c, Stick(c)
  PROVE  /\ Stick(ccRX(c)) /\ Only(c, ccRX(c), {"int", "marc"}) /\ ccRX(c).int
         /\ c.marc \in {"IDLE", "TX"} => ccRX(c).marc = "RX"
BY DEF Stick, Fields, Only, ccRX, SRX, Marc

LEMMA zccRxEffect ==
  ASSUME NEW c, Stick(c)
  PROVE  Stick(zccRX(c)) /\ Only(c, zccRX(c), {"int", "marc"})
BY DEF Stick, Fields, Only, zccRX, ccRX, SRX, Marc

LEMMA CcOffEffect ==
  ASSUME NEW c, Stick(c)
  PROVE  /\ Stick(set_ccoff(c))
         /\ Only(c, set_ccoff(c), {"marc", "cc_on", "asksin_on", "moritz_on"})
         /\ set_ccoff(c).marc = "IDLE" /\ ~set_ccoff(c).cc_on
         /\ ~set_ccoff(c).asksin_on /\ ~set_ccoff(c).moritz_on
BY DEF Stick, Fields, Only, set_ccoff, SIDLE, Marc

LEMMA CcOnEffect ==
  ASSUME NEW c, Stick(c)
  PROVE  /\ Stick(set_ccon(c))
         /\ Only(c, set_ccon(c), ChipFields \cup {"cc_on", "asksin_on", "moritz_on"})
         /\ set_ccon(c).marc = "IDLE" /\ set_ccon(c).cfg = "slow" /\ set_ccon(c).cc_on
         /\ ~set_ccon(c).asksin_on /\ ~set_ccon(c).moritz_on
<1> DEFINE d == ccInitChip(c, "slow")
<1>1. Stick(d) /\ Only(c, d, ChipFields \cup {"moritz_on"}) /\ d.cfg = "slow" /\ d.marc = "IDLE"
  BY InitChipEffect DEF Cfg, Ook
<1> HIDE DEF d
<1>2. set_ccon(c) = [d EXCEPT !.cc_on = TRUE, !.asksin_on = FALSE, !.moritz_on = FALSE]
  BY DEF set_ccon, d
<1> QED BY <1>1, <1>2 DEF Stick, Only, Fields, ChipFields

LEMMA TxRestoreEffect ==
  ASSUME NEW c, Stick(c)
  PROVE  /\ Stick(set_txrestore(c))
         /\ Only(c, set_txrestore(c), ChipFields \cup {"cc_on", "asksin_on", "moritz_on"})
         /\ ~set_txrestore(c).asksin_on /\ ~set_txrestore(c).moritz_on
         /\ c.tx_report => /\ set_txrestore(c).cc_on /\ set_txrestore(c).cfg = "slow"
                           /\ set_txrestore(c).marc = "RX" /\ set_txrestore(c).int
         /\ ~c.tx_report => ~set_txrestore(c).cc_on /\ set_txrestore(c).marc = "IDLE"
<1>1. CASE c.tx_report
  BY <1>1, CcOnEffect, ccRxEffect DEF set_txrestore, Only, Fields, ChipFields
<1>2. CASE ~c.tx_report
  BY <1>2, CcOffEffect DEF set_txrestore, Only, Fields, ChipFields
<1> QED BY <1>1, <1>2

LEMMA SendBitsEffect ==
  ASSUME NEW c, Stick(c), NEW p
  PROVE  /\ Stick(SendBits(c, p)) /\ Only(c, SendBits(c, p), {"stray"})
         /\ SendBits(c, p).stray = (c.cfg # p)
BY DEF Stick, Fields, Only, SendBits

LEMMA SendPacketEffect ==
  ASSUME NEW c, Stick(c), NEW p
  PROVE  /\ Stick(SendPacket(c, p)) /\ Only(c, SendPacket(c, p), {"stray", "marc"})
         /\ SendPacket(c, p).stray = (c.cfg # p)
         /\ c.cfg \in {"asksin", "moritz"} => SendPacket(c, p).marc = "RX"
BY DEF Stick, Fields, Only, SendPacket, Marc, Ook, TxOffRx

LEMMA ReadFifoEffect ==
  ASSUME NEW c, Stick(c)
  PROVE  Stick(ReadFifo(c)) /\ Only(c, ReadFifo(c), FifoFields) /\ Woken(c, ReadFifo(c))
<1> DEFINE left == IF c.fifo = 0 THEN 0 ELSE c.fifo - 1
           level == (c.cfg \in Ook /\ c.gdo2) \/ (c.cfg \in GdoThreshold /\ left > 0)
           e == Edge(c, level)
<1>1. left \in 0..FifoPackets
  BY FifoType DEF Stick
<1>2. Stick(e) /\ Only(c, e, {"gdo2", "fastrf_on"}) /\ Woken(c, e)
  BY EdgeEffect
<1>3. ReadFifo(c) = [e EXCEPT !.fifo = left]
  BY Zenon DEF ReadFifo
<1> HIDE DEF e, level, left
<1>4. /\ DOMAIN ReadFifo(c) = Fields /\ Only(e, ReadFifo(c), {"fifo"}) /\ ReadFifo(c).fifo = left
  BY <1>2, <1>3 DEF Stick, Fields, Only
<1>5. Only(c, ReadFifo(c), FifoFields) /\ ReadFifo(c).fastrf_on = e.fastrf_on
  BY <1>2, <1>4 DEF Only, Fields, FifoFields
<1>6. Stick(ReadFifo(c))
  BY <1>1, <1>2, <1>4 DEF Stick, Only, Fields
<1> QED BY <1>2, <1>5, <1>6 DEF Woken

LEMMA RamBoot ==
  ASSUME NEW c, Stick(c)
  PROVE  /\ Stick(Boot(c)) /\ Boot(c).marc = c.marc
         /\ Boot(c).credit = MaxCredit \div 2 /\ Boot(c).zwave_on = "no" /\ Boot(c).fastrf_on = 0
         /\ ~Boot(c).busy /\ Boot(c).ackState = 0 /\ Boot(c).tries = 0
BY DEF Stick, Fields, Boot, Ram

(* What a protocol does to the radio.                                      *)
LEMMA ListenEffect ==
  ASSUME NEW c, Stick(c)
  PROVE  /\ Stick(Listen(c)) /\ Only(c, Listen(c), {"int", "marc"})
         /\ c.tx_report /\ c.marc \in {"IDLE", "TX"} => Listen(c).marc = "RX" /\ Listen(c).int
         /\ ~c.tx_report => Listen(c).marc = "IDLE"
BY IdleEffect, ccRxEffect DEF Listen, Only, Fields

LEMMA ReopenEffect ==
  ASSUME NEW c, Stick(c)
  PROVE  /\ Stick(Reopen(c)) /\ Only(c, Reopen(c), FifoFields \cup {"marc"})
         /\ Woken(c, Reopen(c))
<1> DEFINE d == SFRX(c)
           e == SIDLE(d)
<1>1. Stick(d) /\ Only(c, d, FifoFields \cup {"marc"}) /\ Woken(c, d)
  BY FlushEffect
<1>2. Stick(e) /\ Only(d, e, {"marc"})
  BY <1>1, IdleEffect
<1>3. Reopen(c) = SRX(e)
  BY DEF Reopen
<1> HIDE DEF d, e
<1>4. Stick(Reopen(c)) /\ Only(e, Reopen(c), {"marc"})
  BY <1>2, <1>3, RxEffect
<1> QED BY <1>1, <1>2, <1>4 DEF Only, Fields, FifoFields, Woken

LEMMA AsksinInitEffect ==
  ASSUME NEW c, Stick(c)
  PROVE  /\ Stick(rf_asksin_init(c)) /\ Only(c, rf_asksin_init(c), ChipFields)
         /\ rf_asksin_init(c).cfg = "asksin" /\ rf_asksin_init(c).marc = "RX"
<1>1. "asksin" \in Cfg
  BY DEF Cfg, Packet, RxOffIdle
<1> QED BY <1>1, LoadEffect, RxEffect DEF rf_asksin_init, Only, Fields, ChipFields

LEMMA MoritzInitEffect ==
  ASSUME NEW c, Stick(c)
  PROVE  /\ Stick(rf_moritz_init(c)) /\ Only(c, rf_moritz_init(c), ChipFields \cup {"moritz_on"})
         /\ rf_moritz_init(c).cfg = "moritz" /\ rf_moritz_init(c).marc = "RX"
         /\ rf_moritz_init(c).moritz_on
<1> DEFINE d == SRX(Load(c, "moritz"))
<1>1. "moritz" \in Cfg
  BY DEF Cfg, Packet, RxOffRx
<1>2. Stick(d) /\ Only(c, d, ChipFields) /\ d.cfg = "moritz" /\ d.marc = "RX"
  BY <1>1, LoadEffect, RxEffect DEF Only, Fields, ChipFields
<1>3. rf_moritz_init(c) = [d EXCEPT !.moritz_on = TRUE]
  BY DEF rf_moritz_init
<1> HIDE DEF d
<1> QED BY <1>2, <1>3 DEF Stick, Only, Fields, ChipFields

LEMMA RweInitEffect ==
  ASSUME NEW c, Stick(c)
  PROVE  Stick(rf_rwe_init(c)) /\ Only(c, rf_rwe_init(c), ChipFields)
<1>1. "rwe" \in Cfg
  BY DEF Cfg, Packet, RxOffIdle
<1> QED BY <1>1, LoadEffect DEF rf_rwe_init

LEMMA KoppInitEffect ==
  ASSUME NEW c, Stick(c)
  PROVE  Stick(kopp_fc_init(c)) /\ Only(c, kopp_fc_init(c), ChipFields \cup {"cc_on"})
<1> DEFINE d == Load(c, "kopp")
<1>1. "kopp" \in Cfg
  BY DEF Cfg, Packet, RxOffRx
<1>2. Stick(d) /\ Only(c, d, ChipFields)
  BY <1>1, LoadEffect
<1>3. kopp_fc_init(c) = [d EXCEPT !.cc_on = TRUE]
  BY DEF kopp_fc_init
<1> HIDE DEF d
<1> QED BY <1>2, <1>3 DEF Stick, Only, Fields, ChipFields

LEMMA ZwaveInitEffect ==
  ASSUME NEW c, Stick(c)
  PROVE  Stick(rf_zwave_init(c)) /\ Only(c, rf_zwave_init(c), ChipFields)
<1>1. "zwave" \in Cfg
  BY DEF Cfg, Packet, RxOffIdle
<1> QED BY <1>1, LoadEffect, zccRxEffect DEF rf_zwave_init, Only, Fields, ChipFields

(* Slow RF leaves the flags and, if they are slow RF's already, the        *)
(* registers as they were; Moritz, if it was on, listens again.            *)
LEMMA SendSlowEffect ==
  ASSUME NEW c, Stick(c)
  PROVE  /\ Radio(c, SendSlow(c, FALSE))
         /\ Only(c, SendSlow(c, FALSE), ChipFields \cup {"cc_on", "asksin_on", "moritz_on", "stray"})
         /\ ~c.moritz_on /\ c.cc_on /\ c.cfg = "slow" =>
              /\ Only(c, SendSlow(c, FALSE), {"int", "marc", "stray"})
              /\ ~SendSlow(c, FALSE).stray
              /\ c.tx_report => SendSlow(c, FALSE).marc = "RX" /\ SendSlow(c, FALSE).int
              /\ ~c.tx_report => SendSlow(c, FALSE).marc = "IDLE"
         /\ ~c.moritz_on /\ ~c.cc_on =>
              /\ SendSlow(c, FALSE).cfg = "slow" /\ ~SendSlow(c, FALSE).stray
              /\ ~SendSlow(c, FALSE).asksin_on /\ ~SendSlow(c, FALSE).moritz_on
              /\ ~c.tx_report => SendSlow(c, FALSE).marc = "IDLE"
         /\ c.moritz_on =>
              /\ SendSlow(c, FALSE).cfg = "moritz" /\ SendSlow(c, FALSE).moritz_on /\ ~SendSlow(c, FALSE).asksin_on
              /\ SendSlow(c, FALSE).marc = "RX" /\ ~SendSlow(c, FALSE).stray
<1> DEFINE unlocked == IF c.moritz_on THEN set_txrestore([c EXCEPT !.moritz_on = FALSE]) ELSE c
           on == IF unlocked.cc_on THEN unlocked ELSE set_ccon(unlocked)
           sent == SendBits(ccTX(on), "slow")
           back == IF sent.tx_report THEN ccRX(sent) ELSE SIDLE(sent)
           Flags == ChipFields \cup {"cc_on", "asksin_on", "moritz_on"}
<1>1. /\ Stick(unlocked) /\ Only(c, unlocked, Flags)
      /\ ~c.moritz_on => unlocked = c
      /\ c.moritz_on => ~unlocked.asksin_on /\ (unlocked.cc_on => unlocked.cfg = "slow")
  <2>1. CASE c.moritz_on
    <3> DEFINE d == [c EXCEPT !.moritz_on = FALSE]
    <3>1. Stick(d) /\ Only(c, d, {"moritz_on"})
      BY DEF Stick, Fields, Only
    <3> HIDE DEF d
    <3>2. unlocked = set_txrestore(d)
      BY <2>1 DEF d
    <3> HIDE DEF unlocked
    <3> QED BY <2>1, <3>1, <3>2, TxRestoreEffect DEF Only, Fields, ChipFields
  <2>2. CASE ~c.moritz_on
    BY <2>2 DEF Only
  <2> QED BY <2>1, <2>2
<1> HIDE DEF unlocked
<1>2. /\ Stick(on) /\ Only(unlocked, on, Flags) /\ on.cc_on
      /\ unlocked.cc_on => on = unlocked
      /\ ~unlocked.cc_on => on.cfg = "slow" /\ ~on.asksin_on /\ ~on.moritz_on
  <2>1. CASE unlocked.cc_on
    BY <1>1, <2>1 DEF Only
  <2>2. CASE ~unlocked.cc_on
    BY <1>1, <2>2, CcOnEffect
  <2> QED BY <2>1, <2>2
<1> HIDE DEF on
<1>3. /\ Stick(sent) /\ Only(on, sent, {"int", "marc", "stray"}) /\ sent.marc = "TX"
      /\ sent.stray = (on.cfg # "slow")
  BY <1>2, TxEffect, SendBitsEffect DEF Only, Fields
<1> HIDE DEF sent
<1>4. /\ Stick(back) /\ Only(sent, back, {"int", "marc"})
      /\ sent.tx_report => back.marc = "RX" /\ back.int
      /\ ~sent.tx_report => back.marc = "IDLE"
  <2>1. back = Listen(sent)
    BY DEF Listen
  <2> HIDE DEF back
  <2> QED BY <1>3, <2>1, ListenEffect
<1> HIDE DEF back
<1>5. SendSlow(c, FALSE) = IF c.moritz_on THEN rf_moritz_init(back) ELSE back
  BY Zenon DEF SendSlow, back, sent, on, unlocked
<1>6. Only(c, back, Flags \cup {"stray"}) /\ Stick(back)
  BY <1>1, <1>2, <1>3, <1>4 DEF Only, Fields, ChipFields
<1>7. CASE c.moritz_on
  <2>1. ~back.asksin_on /\ ~back.stray
    BY <1>1, <1>2, <1>3, <1>4, <1>7 DEF Only, Fields, ChipFields
  <2>2. SendSlow(c, FALSE) = rf_moritz_init(back)
    BY <1>5, <1>7
  <2> DEFINE d == SendSlow(c, FALSE)
  <2>3. /\ Stick(d) /\ Only(back, d, ChipFields \cup {"moritz_on"})
        /\ d.cfg = "moritz" /\ d.marc = "RX" /\ d.moritz_on
    BY <1>6, <2>2, MoritzInitEffect
  <2> HIDE DEF d
  <2>4. d.asksin_on = back.asksin_on /\ d.stray = back.stray
    BY <2>3 DEF Only, Fields, ChipFields
  <2>5. Only(c, d, Flags \cup {"stray"})
    BY <1>6, <2>3 DEF Only
  <2>6. Radio(c, d)
    BY <2>3, <2>5 DEF Radio, Only, RadioFields
  <2> QED BY <1>7, <2>1, <2>3, <2>4, <2>5, <2>6 DEF d
<1>8. CASE ~c.moritz_on
  <2>1. SendSlow(c, FALSE) = back /\ unlocked = c
    BY <1>1, <1>5, <1>8
  <2>2. Radio(c, back)
    BY <1>6 DEF Only, Fields, Radio, RadioFields, ChipFields
  <2>3. CASE c.cc_on
    BY <1>1, <1>2, <1>3, <1>4, <1>6, <1>8, <2>1, <2>2, <2>3 DEF Only, Fields, ChipFields
  <2>4. CASE ~c.cc_on
    <3>1. unlocked.cc_on = c.cc_on /\ sent.tx_report = c.tx_report
      BY <1>1, <1>2, <1>3, <2>1 DEF Only, Fields, ChipFields
    <3>2. on.cfg = "slow" /\ ~on.asksin_on /\ ~on.moritz_on
      BY <1>2, <2>4, <3>1
    <3>3. back.cfg = "slow" /\ ~back.asksin_on /\ ~back.moritz_on /\ ~back.stray
      BY <1>3, <1>4, <3>2 DEF Only, Fields
    <3> QED BY <1>4, <1>6, <1>8, <2>1, <2>2, <2>4, <3>1, <3>3
  <2> QED BY <2>3, <2>4
<1> QED BY <1>7, <1>8

(* A mode is parked, and comes back.                                       *)
LEMMA ParkEffect ==
  ASSUME NEW c, Stick(c), NEW p \in {"it", "somfy"}
  PROVE  /\ Radio(c, Park(c, p))
         /\ Only(c, Park(c, p), ChipFields \cup {"cc_on", "asksin_on", "moritz_on", "restore"})
         /\ Park(c, p).cfg = p /\ Park(c, p).cc_on /\ ~Park(c, p).int
         /\ ~Park(c, p).asksin_on /\ ~Park(c, p).moritz_on
         /\ Park(c, p).restore = c.restore \cup (IF c.asksin_on THEN {<<p, "asksin">>} ELSE {})
                                           \cup (IF c.moritz_on THEN {<<p, "moritz">>} ELSE {})
<1> DEFINE d == Load(c, p)
           more == c.restore \cup (IF c.asksin_on THEN {<<p, "asksin">>} ELSE {})
                             \cup (IF c.moritz_on THEN {<<p, "moritz">>} ELSE {})
<1>1. "it" \in Cfg /\ "somfy" \in Cfg
  BY DEF Cfg, Ook
<1>2. Stick(d) /\ Only(c, d, ChipFields) /\ d.cfg = p /\ ~d.int
  BY <1>1, LoadEffect
<1>3. d.restore = c.restore
  BY <1>2 DEF Only, Fields, ChipFields
<1>4. more \subseteq {"it", "somfy"} \X {"asksin", "moritz"}
  BY DEF Stick
<1> DEFINE e == [d EXCEPT !.cc_on = TRUE, !.asksin_on = FALSE, !.moritz_on = FALSE]
<1>5. /\ Stick(e) /\ Only(d, e, {"cc_on", "asksin_on", "moritz_on"}) /\ e.cfg = p
      /\ e.cc_on /\ ~e.asksin_on /\ ~e.moritz_on /\ ~e.int /\ e.restore = c.restore
  <2> HIDE DEF d
  <2> QED BY <1>2, <1>3 DEF Stick, Only, Fields
<1>6. Park(c, p) = [e EXCEPT !.restore = e.restore
                                   \cup (IF c.asksin_on THEN {<<p, "asksin">>} ELSE {})
                                   \cup (IF c.moritz_on THEN {<<p, "moritz">>} ELSE {})]
  BY Zenon DEF Park
<1> HIDE DEF d, e
<1>7. Park(c, p) = [e EXCEPT !.restore = more]
  BY <1>5, <1>6
<1> HIDE DEF more
<1>8. /\ Stick(Park(c, p)) /\ Park(c, p).cfg = p /\ Park(c, p).restore = more
      /\ Only(e, Park(c, p), {"restore"})
      /\ Park(c, p).cc_on /\ ~Park(c, p).asksin_on /\ ~Park(c, p).moritz_on /\ ~Park(c, p).int
  BY <1>4, <1>5, <1>7 DEF Stick, Only, Fields
<1>9. Only(c, Park(c, p), ChipFields \cup {"cc_on", "asksin_on", "moritz_on", "restore"})
  BY <1>2, <1>5, <1>8 DEF Only, Fields, ChipFields
<1>10. Radio(c, Park(c, p))
  BY <1>8, <1>9 DEF Radio, RadioFields, Only
<1> QED BY <1>8, <1>9, <1>10 DEF more

AsksinBack(c, p) ==
  ccRX([rf_asksin_init(c) EXCEPT !.restore = @ \ {<<p, "asksin">>}, !.asksin_on = TRUE])
MoritzBack(c, p) == rf_moritz_init([c EXCEPT !.restore = @ \ {<<p, "moritz">>}])

LEMMA AsksinBackEffect ==
  ASSUME NEW c, Stick(c), NEW p
  PROVE  /\ Stick(AsksinBack(c, p))
         /\ Only(c, AsksinBack(c, p), ChipFields \cup {"asksin_on", "restore"})
         /\ AsksinBack(c, p).cfg = "asksin" /\ AsksinBack(c, p).asksin_on
         /\ AsksinBack(c, p).restore = c.restore \ {<<p, "asksin">>}
<1> DEFINE d == rf_asksin_init(c)
           e == [d EXCEPT !.restore = @ \ {<<p, "asksin">>}, !.asksin_on = TRUE]
<1>1. Stick(d) /\ Only(c, d, ChipFields) /\ d.cfg = "asksin"
  BY AsksinInitEffect
<1>2. d.restore = c.restore
  BY <1>1 DEF Only, Fields, ChipFields
<1> HIDE DEF d
<1>3. /\ Stick(e) /\ Only(d, e, {"asksin_on", "restore"}) /\ e.asksin_on /\ e.cfg = "asksin"
      /\ e.restore = d.restore \ {<<p, "asksin">>}
  BY <1>1 DEF Stick, Only, Fields
<1>4. AsksinBack(c, p) = ccRX(e)
  BY DEF AsksinBack, d
<1> HIDE DEF e
<1> QED BY <1>1, <1>2, <1>3, <1>4, ccRxEffect DEF Only, Fields, ChipFields

LEMMA MoritzBackEffect ==
  ASSUME NEW c, Stick(c), NEW p
  PROVE  /\ Stick(MoritzBack(c, p))
         /\ Only(c, MoritzBack(c, p), ChipFields \cup {"moritz_on", "restore"})
         /\ MoritzBack(c, p).cfg = "moritz" /\ MoritzBack(c, p).moritz_on
         /\ MoritzBack(c, p).marc = "RX"
         /\ MoritzBack(c, p).restore = c.restore \ {<<p, "moritz">>}
<1> DEFINE e == [c EXCEPT !.restore = @ \ {<<p, "moritz">>}]
<1>1. Stick(e) /\ Only(c, e, {"restore"}) /\ e.restore = c.restore \ {<<p, "moritz">>}
  BY DEF Stick, Only, Fields
<1>2. MoritzBack(c, p) = rf_moritz_init(e)
  BY DEF MoritzBack
<1> HIDE DEF e
<1> QED BY <1>1, <1>2, MoritzInitEffect DEF Only, Fields, ChipFields

(* The end of a single telegram, and of "ix" and "Yx".                     *)
LEMMA UnparkSent ==
  ASSUME NEW c, NEW p
  PROVE  /\ <<p, "asksin">> \in c.restore => Unpark(c, p, set_txrestore) = AsksinBack(c, p)
         /\ <<p, "asksin">> \notin c.restore /\ <<p, "moritz">> \in c.restore =>
              Unpark(c, p, set_txrestore) = MoritzBack(c, p)
         /\ <<p, "asksin">> \notin c.restore /\ <<p, "moritz">> \notin c.restore =>
              Unpark(c, p, set_txrestore) = set_txrestore(c)
BY Zenon DEF Unpark, AsksinBack, MoritzBack

LEMMA UnparkLeft ==
  ASSUME NEW c, NEW p
  PROVE  /\ <<p, "asksin">> \in c.restore => LeaveOneShot(c, p) = AsksinBack(c, p)
         /\ <<p, "asksin">> \notin c.restore /\ <<p, "moritz">> \in c.restore =>
              LeaveOneShot(c, p) = MoritzBack(c, p)
         /\ <<p, "asksin">> \notin c.restore /\ <<p, "moritz">> \notin c.restore =>
              LeaveOneShot(c, p) = Listen(ccInitChip(c, "slow"))
BY Zenon DEF LeaveOneShot, Unpark, AsksinBack, MoritzBack

LEMMA LeaveEffect ==
  ASSUME NEW c, Stick(c), NEW p
  PROVE  /\ Radio(c, LeaveOneShot(c, p))
         /\ <<p, "asksin">> \notin c.restore /\ <<p, "moritz">> \notin c.restore =>
              /\ Only(c, LeaveOneShot(c, p), ChipFields \cup {"moritz_on"})
              /\ LeaveOneShot(c, p).cfg = "slow" /\ ~LeaveOneShot(c, p).moritz_on
              /\ c.tx_report => LeaveOneShot(c, p).marc = "RX" /\ LeaveOneShot(c, p).int
              /\ ~c.tx_report => LeaveOneShot(c, p).marc = "IDLE"
<1>1. CASE <<p, "asksin">> \in c.restore
  <2>1. LeaveOneShot(c, p) = AsksinBack(c, p)
    BY <1>1, UnparkLeft
  <2>2. Radio(c, AsksinBack(c, p))
    BY AsksinBackEffect DEF Radio, RadioFields, Only
  <2> QED BY <1>1, <2>1, <2>2
<1>2. CASE <<p, "asksin">> \notin c.restore /\ <<p, "moritz">> \in c.restore
  <2>1. LeaveOneShot(c, p) = MoritzBack(c, p)
    BY <1>2, UnparkLeft
  <2>2. Radio(c, MoritzBack(c, p))
    BY MoritzBackEffect DEF Radio, RadioFields, Only
  <2> QED BY <1>2, <2>1, <2>2
<1>3. CASE <<p, "asksin">> \notin c.restore /\ <<p, "moritz">> \notin c.restore
  <2> DEFINE d == ccInitChip(c, "slow")
  <2>1. /\ Stick(d) /\ Only(c, d, ChipFields \cup {"moritz_on"})
        /\ d.cfg = "slow" /\ d.marc = "IDLE" /\ ~d.moritz_on
    BY InitChipEffect DEF Cfg, Ook
  <2>2. LeaveOneShot(c, p) = Listen(d)
    BY <1>3, UnparkLeft
  <2> HIDE DEF d
  <2>3. d.tx_report = c.tx_report
    BY <2>1 DEF Only, Fields, ChipFields
  <2>4. /\ Stick(Listen(d)) /\ Only(d, Listen(d), {"int", "marc"})
        /\ c.tx_report => Listen(d).marc = "RX" /\ Listen(d).int
        /\ ~c.tx_report => Listen(d).marc = "IDLE"
    BY <2>1, <2>3, ListenEffect
  <2>5. /\ Only(c, Listen(d), ChipFields \cup {"moritz_on"})
        /\ Listen(d).cfg = "slow" /\ ~Listen(d).moritz_on
    BY <2>1, <2>4 DEF Only, Fields, ChipFields
  <2>6. Radio(c, Listen(d))
    BY <2>4, <2>5 DEF Radio, RadioFields, Only
  <2> QED BY <1>3, <2>2, <2>4, <2>5, <2>6
<1> QED BY <1>1, <1>2, <1>3

(* A telegram of InterTechno or Somfy, on a chip that is tuned to it, or   *)
(* on one of another protocol, which is parked and comes back.             *)
ShotFields == {"marc", "fifo", "gdo2", "int", "stray"}
Shot(c, p) == SendBits(ccTX(SFRX(SIDLE(c))), p)

LEMMA ShotEffect ==
  ASSUME NEW c, Stick(c), NEW p
  PROVE  /\ Stick(Shot(c, p)) /\ Only(c, Shot(c, p), ShotFields \cup {"fastrf_on"})
         /\ Woken(c, Shot(c, p)) /\ (~c.int => Only(c, Shot(c, p), ShotFields))
         /\ Shot(c, p).marc = "TX" /\ Shot(c, p).stray = (c.cfg # p)
<1> DEFINE d == SIDLE(c)
           e == SFRX(d)
           f == ccTX(e)
<1>1. Stick(d) /\ Only(c, d, {"marc"})
  BY IdleEffect
<1>2. /\ Stick(e) /\ Only(d, e, FifoFields \cup {"marc"}) /\ Woken(d, e)
      /\ ~d.int => e.fastrf_on = d.fastrf_on
  BY <1>1, FlushEffect
<1>3. Stick(f) /\ Only(e, f, {"int", "marc"}) /\ f.marc = "TX"
  BY <1>2, TxEffect
<1>4. Shot(c, p) = SendBits(f, p)
  BY DEF Shot
<1> HIDE DEF d, e, f
<1>5. /\ Stick(Shot(c, p)) /\ Only(f, Shot(c, p), {"stray"})
      /\ Shot(c, p).stray = (f.cfg # p)
  BY <1>3, <1>4, SendBitsEffect
<1>6. /\ Only(c, Shot(c, p), ShotFields \cup {"fastrf_on"})
      /\ Shot(c, p).marc = "TX" /\ Shot(c, p).stray = (c.cfg # p)
  BY <1>1, <1>2, <1>3, <1>5 DEF Only, Fields, ShotFields, FifoFields
<1>7. d.fastrf_on = c.fastrf_on /\ d.int = c.int /\ Shot(c, p).fastrf_on = e.fastrf_on
  BY <1>1, <1>3, <1>5 DEF Only, Fields
<1>8. Woken(c, Shot(c, p)) /\ (~c.int => Shot(c, p).fastrf_on = c.fastrf_on)
  BY <1>2, <1>7 DEF Woken
<1> QED BY <1>5, <1>6, <1>8 DEF Only, Fields, ShotFields

LEMMA TunedShotEffect ==
  ASSUME NEW c, Stick(c), NEW p, NEW d, d = SendOneShot(c, p, TRUE, FALSE)
  PROVE  Stick(d) /\ Only(c, d, ShotFields \cup {"fastrf_on"}) /\ Woken(c, d)
<1> DEFINE e == Shot(c, p)
<1>1. d = Listen(e)
  BY Zenon DEF SendOneShot, Shot
<1>2. Stick(e) /\ Only(c, e, ShotFields \cup {"fastrf_on"}) /\ Woken(c, e)
  BY ShotEffect
<1> HIDE DEF e
<1>3. Stick(d) /\ Only(e, d, {"int", "marc"})
  BY <1>1, <1>2, ListenEffect
<1> QED BY <1>2, <1>3 DEF Only, Fields, ShotFields, Woken

LEMMA OneShotEffect ==
  ASSUME NEW c, Stick(c), NEW p \in {"it", "somfy"}, NEW d, d = SendOneShot(c, p, FALSE, FALSE)
  PROVE  /\ Radio(c, d)
         /\ c.restore = {} /\ c.asksin_on /\ ~c.moritz_on =>
              /\ d.restore = {} /\ d.asksin_on /\ ~d.moritz_on
              /\ d.cfg = "asksin" /\ ~d.stray
         /\ c.restore = {} /\ c.moritz_on /\ ~c.asksin_on =>
              /\ d.restore = {} /\ d.moritz_on /\ ~d.asksin_on
              /\ d.cfg = "moritz" /\ d.marc = "RX" /\ ~d.stray
         /\ c.restore = {} /\ ~c.moritz_on /\ ~c.asksin_on =>
              /\ d.restore = {} /\ ~d.moritz_on /\ ~d.asksin_on /\ ~d.stray
              /\ c.tx_report => d.cc_on /\ d.cfg = "slow" /\ d.marc = "RX" /\ d.int
              /\ ~c.tx_report => ~d.cc_on /\ d.marc = "IDLE"
<1> DEFINE tuned == Park(c, p)
           sent == Shot(tuned, p)
<1>1. d = Unpark(sent, p, set_txrestore)
  BY Zenon DEF SendOneShot, Shot
<1>2. /\ Radio(c, tuned) /\ tuned.cfg = p /\ tuned.cc_on /\ ~tuned.int
      /\ ~tuned.asksin_on /\ ~tuned.moritz_on
      /\ tuned.restore = c.restore \cup (IF c.asksin_on THEN {<<p, "asksin">>} ELSE {})
                                   \cup (IF c.moritz_on THEN {<<p, "moritz">>} ELSE {})
  BY ParkEffect
<1> HIDE DEF tuned
<1>3. /\ Stick(sent) /\ Only(tuned, sent, ShotFields) /\ ~sent.stray
  BY <1>2, ShotEffect DEF Radio
<1>4. sent.restore = tuned.restore /\ ~sent.asksin_on /\ ~sent.moritz_on
  BY <1>2, <1>3 DEF Only, Fields, ShotFields
<1>5. sent.tx_report = c.tx_report /\ Radio(c, sent)
  BY <1>2, <1>3 DEF Only, Fields, ShotFields, Radio, RadioFields, ChipFields
<1> HIDE DEF sent
<1>6. c.restore = {} =>
        /\ <<p, "asksin">> \in sent.restore <=> c.asksin_on
        /\ <<p, "moritz">> \in sent.restore <=> c.moritz_on
        /\ sent.restore \subseteq {<<p, "asksin">>, <<p, "moritz">>}
  <2>1. <<p, "asksin">> # <<p, "moritz">>
    OBVIOUS
  <2> DEFINE a == <<p, "asksin">>
             m == <<p, "moritz">>
  <2>2. sent.restore = c.restore \cup (IF c.asksin_on THEN {a} ELSE {})
                                 \cup (IF c.moritz_on THEN {m} ELSE {})
    BY <1>2, <1>4
  <2> HIDE DEF a, m
  <2>3. a # m /\ (c.restore = {} =>
        (a \in sent.restore <=> c.asksin_on) /\ (m \in sent.restore <=> c.moritz_on)
        /\ sent.restore \subseteq {a, m})
    BY <2>1, <2>2 DEF a, m
  <2> QED BY <2>3 DEF a, m
<1>7. CASE <<p, "asksin">> \in sent.restore
  <2>1. d = AsksinBack(sent, p)
    BY <1>1, <1>7, UnparkSent
  <2>2. /\ Stick(d) /\ Only(sent, d, ChipFields \cup {"asksin_on", "restore"})
        /\ d.cfg = "asksin" /\ d.asksin_on /\ d.restore = sent.restore \ {<<p, "asksin">>}
    <3>1. Stick(sent)
      BY <1>3
    <3>2. /\ Stick(AsksinBack(sent, p))
          /\ Only(sent, AsksinBack(sent, p), ChipFields \cup {"asksin_on", "restore"})
          /\ AsksinBack(sent, p).cfg = "asksin" /\ AsksinBack(sent, p).asksin_on
          /\ AsksinBack(sent, p).restore = sent.restore \ {<<p, "asksin">>}
      BY ONLY <3>1, AsksinBackEffect
    <3> QED BY <2>1, <3>2
  <2>3. d.moritz_on = sent.moritz_on /\ d.stray = sent.stray
    BY <2>2 DEF Only, Fields, ChipFields
  <2>4. Radio(sent, d)
    BY <2>2 DEF Radio, RadioFields, Only
  <2>5. Radio(c, d)
    BY <1>5, <2>4, RadioChain
  <2> QED BY <1>3, <1>4, <1>6, <1>7, <2>2, <2>3, <2>5
<1>8. CASE <<p, "asksin">> \notin sent.restore /\ <<p, "moritz">> \in sent.restore
  <2>1. d = MoritzBack(sent, p)
    BY <1>1, <1>8, UnparkSent
  <2>2. /\ Stick(d) /\ Only(sent, d, ChipFields \cup {"moritz_on", "restore"})
        /\ d.cfg = "moritz" /\ d.moritz_on /\ d.marc = "RX"
        /\ d.restore = sent.restore \ {<<p, "moritz">>}
    <3>1. Stick(sent)
      BY <1>3
    <3>2. /\ Stick(MoritzBack(sent, p))
          /\ Only(sent, MoritzBack(sent, p), ChipFields \cup {"moritz_on", "restore"})
          /\ MoritzBack(sent, p).cfg = "moritz" /\ MoritzBack(sent, p).moritz_on /\ MoritzBack(sent, p).marc = "RX"
          /\ MoritzBack(sent, p).restore = sent.restore \ {<<p, "moritz">>}
      BY ONLY <3>1, MoritzBackEffect
    <3> QED BY <2>1, <3>2
  <2>3. d.asksin_on = sent.asksin_on /\ d.stray = sent.stray
    BY <2>2 DEF Only, Fields, ChipFields
  <2>4. Radio(sent, d)
    BY <2>2 DEF Radio, RadioFields, Only
  <2>5. Radio(c, d)
    BY <1>5, <2>4, RadioChain
  <2> QED BY <1>3, <1>4, <1>6, <1>8, <2>2, <2>3, <2>5
<1>9. CASE <<p, "asksin">> \notin sent.restore /\ <<p, "moritz">> \notin sent.restore
  <2>1. d = set_txrestore(sent)
    BY <1>1, <1>9, UnparkSent
  <2>2. /\ Stick(d) /\ Only(sent, d, ChipFields \cup {"cc_on", "asksin_on", "moritz_on"})
        /\ ~d.asksin_on /\ ~d.moritz_on
        /\ c.tx_report => d.cc_on /\ d.cfg = "slow" /\ d.marc = "RX" /\ d.int
        /\ ~c.tx_report => ~d.cc_on /\ d.marc = "IDLE"
    BY <1>3, <1>5, <2>1, TxRestoreEffect
  <2>3. d.restore = sent.restore /\ d.stray = sent.stray
    BY <2>2 DEF Only, Fields, ChipFields
  <2>4. Radio(sent, d)
    BY <2>2 DEF Radio, RadioFields, Only
  <2>5. Radio(c, d)
    BY <1>5, <2>4, RadioChain
  <2> QED BY <1>3, <1>4, <1>6, <1>9, <2>2, <2>3, <2>5
<1> QED BY <1>7, <1>8, <1>9

(* A task or command that waits for the end of TX may end in a reset, and  *)
(* so does a long telegram.                                                *)
Reset(d) == \E e : Stick(e) /\ d = Boot(e)

LEMMA SendSlowResets ==
  ASSUME NEW c, Stick(c)
  PROVE  Reset(SendSlow(c, TRUE))
<1> DEFINE unlocked == IF c.moritz_on THEN set_txrestore([c EXCEPT !.moritz_on = FALSE]) ELSE c
           on == IF unlocked.cc_on THEN unlocked ELSE set_ccon(unlocked)
           sent == SendBits(ccTX(on), "slow")
<1>1. Stick(unlocked)
  <2>1. Stick([c EXCEPT !.moritz_on = FALSE])
    BY DEF Stick, Fields
  <2> QED BY <2>1, TxRestoreEffect
<1> HIDE DEF unlocked
<1>2. Stick(on)
  BY <1>1, CcOnEffect
<1> HIDE DEF on
<1>3. Stick(sent)
  BY <1>2, TxEffect, SendBitsEffect
<1>4. SendSlow(c, TRUE) = Boot(sent)
  BY Zenon DEF SendSlow, on, unlocked
<1> QED BY <1>3, <1>4 DEF Reset

LEMMA OneShotResets ==
  ASSUME NEW c, Stick(c), NEW p \in {"it", "somfy"}, NEW on \in BOOLEAN
  PROVE  Reset(SendOneShot(c, p, on, TRUE))
<1> DEFINE tuned == IF on THEN c ELSE Park(c, p)
<1>1. Stick(tuned)
  BY ParkEffect DEF Radio
<1>2. SendOneShot(c, p, on, TRUE) = Boot(Shot(tuned, p))
  BY Zenon DEF SendOneShot, Shot
<1> HIDE DEF tuned
<1> QED BY <1>1, <1>2, ShotEffect DEF Reset

LEMMA FastRfEffect ==
  ASSUME NEW c, Stick(c)
  PROVE  Radio(c, fastrf_send(c)) \/ Reset(fastrf_send(c))
<1> DEFINE d == ccTX(c)
           e == SendPacket(d, "fastrf")
<1>1. fastrf_send(c) = IF e.marc = "TX" THEN Boot(e) ELSE ccRX(e)
  BY Zenon DEF fastrf_send, TxEnded
<1>2. Stick(d) /\ Only(c, d, {"int", "marc"})
  BY TxEffect
<1> HIDE DEF d
<1>3. Stick(e) /\ Only(d, e, {"stray", "marc"})
  BY <1>2, SendPacketEffect
<1> HIDE DEF e
<1>4. Stick(ccRX(e)) /\ Only(e, ccRX(e), {"int", "marc"})
  BY <1>3, ccRxEffect
<1>5. Radio(c, ccRX(e))
  BY <1>2, <1>3, <1>4 DEF Radio, RadioFields, ChipFields, Only
<1> QED BY <1>1, <1>3, <1>5 DEF Reset

(* zwave_doSend() counts a try of a message that is to be acknowledged.    *)
Counted(c, d) ==
  /\ Stick(d) /\ Only(c, d, RadioFields \cup {"ackState", "due"})
  /\ d.ackState = IF c.ackState + 1 >= 3 THEN 0 ELSE c.ackState + 1

LEMMA ZwaveSendEffect ==
  ASSUME NEW c, Stick(c), NEW ackReq
  PROVE  \/ Reset(zwave_doSend(c, ackReq))
         \/ ackReq /\ Counted(c, zwave_doSend(c, ackReq))
         \/ ~ackReq /\ Radio(c, zwave_doSend(c, ackReq))
<1> DEFINE d == ccTX(c)
           e == SendPacket(d, "zwave")
           f == zccRX(e)
<1>1. zwave_doSend(c, ackReq) =
        IF e.marc = "TX" THEN Boot(e) ELSE IF ackReq THEN CountTry(f) ELSE f
  BY Zenon DEF zwave_doSend, TxEnded
<1>2. Stick(d) /\ Only(c, d, {"int", "marc"})
  BY TxEffect
<1> HIDE DEF d
<1>3. Stick(e) /\ Only(d, e, {"stray", "marc"})
  BY <1>2, SendPacketEffect
<1> HIDE DEF e
<1>4. Stick(f) /\ Only(e, f, {"int", "marc"})
  BY <1>3, zccRxEffect
<1>5. Radio(c, f)
  BY <1>2, <1>3, <1>4 DEF Radio, RadioFields, ChipFields, Only
<1> HIDE DEF f
<1>6. f.ackState = c.ackState
  BY <1>5 DEF Radio, Only, Fields, RadioFields, ChipFields
<1>7. /\ Stick(CountTry(f)) /\ Only(f, CountTry(f), {"ackState", "due"})
      /\ CountTry(f).ackState = IF f.ackState + 1 >= 3 THEN 0 ELSE f.ackState + 1
  BY <1>4 DEF Stick, Fields, Only, CountTry
<1>8. Counted(c, CountTry(f))
  BY <1>5, <1>6, <1>7 DEF Counted, Radio, Only
<1> QED BY <1>1, <1>3, <1>5, <1>8 DEF Reset

LEMMA KoppTransmitEffect ==
  ASSUME NEW c, Stick(c), NEW good
  PROVE  Radio(c, kopp_fc_transmit(c, good))
<1> DEFINE a == kopp_fc_init(c)
           b == ccTX(a)
           e == SendPacket(b, "kopp")
           sent == IF good THEN e ELSE c
<1>1. kopp_fc_transmit(c, good) = IF c.kopp_fc_rx_on THEN ccRX(sent) ELSE sent
  BY Zenon DEF kopp_fc_transmit
<1>2. Stick(a) /\ Only(c, a, ChipFields \cup {"cc_on"})
  BY KoppInitEffect
<1> HIDE DEF a
<1>3. Stick(b) /\ Only(a, b, {"int", "marc"})
  BY <1>2, TxEffect
<1> HIDE DEF b
<1>4. Stick(e) /\ Only(b, e, {"stray", "marc"})
  BY <1>3, SendPacketEffect
<1> HIDE DEF e
<1>5. Radio(c, sent)
  BY <1>2, <1>3, <1>4 DEF Radio, RadioFields, ChipFields, Only
<1> HIDE DEF sent
<1>6. Stick(ccRX(sent)) /\ Only(sent, ccRX(sent), {"int", "marc"})
  BY <1>5, ccRxEffect DEF Radio
<1>7. Radio(c, ccRX(sent))
  BY <1>5, <1>6 DEF Radio, RadioFields, ChipFields, Only
<1> QED BY <1>1, <1>5, <1>7

(* AskSin sends in its own mode, or borrows the radio from slow RF.        *)
LEMMA AsksinSendEffect ==
  ASSUME NEW c, Stick(c), NEW clear, NEW d, d = asksin_send(c, clear)
  PROVE  /\ Radio(c, d) \/ Reset(d)
         /\ c.asksin_on /\ c.marc # "OVERFLOW" /\ c.cfg = "asksin" =>
              Only(c, d, {"marc", "stray"}) /\ (d.stray => c.stray)
         /\ ~c.asksin_on =>
              /\ Only(c, d, ChipFields \cup {"cc_on", "asksin_on", "moritz_on", "stray"})
              /\ d.stray => c.stray
              /\ ~d.asksin_on /\ ~d.moritz_on
              /\ c.tx_report => d.cc_on /\ d.cfg = "slow" /\ d.marc = "RX" /\ d.int
              /\ ~c.tx_report => ~d.cc_on /\ d.marc = "IDLE"
<1> DEFINE tuned == IF c.asksin_on THEN c ELSE rf_asksin_init(c)
           sent == SendPacket(tuned, "asksin")
           at == IF clear /\ tuned.marc # "OVERFLOW" THEN sent ELSE tuned
           done(x) == IF ~c.asksin_on THEN set_txrestore(x)
                      ELSE IF x.marc = "OVERFLOW" THEN Boot(x) ELSE SRX(x)
<1>1. d = IF clear /\ tuned.marc # "OVERFLOW"
            THEN IF sent.marc = "TX" THEN Boot(sent) ELSE done(sent)
          ELSE done(tuned)
  BY Zenon DEF asksin_send, TxEnded
<1>2. /\ Stick(tuned) /\ Only(c, tuned, ChipFields)
      /\ c.asksin_on => tuned = c
      /\ ~c.asksin_on => tuned.cfg = "asksin" /\ tuned.marc = "RX"
  BY AsksinInitEffect DEF Only
<1> HIDE DEF tuned
<1>3. /\ Stick(sent) /\ Only(tuned, sent, {"stray", "marc"})
      /\ tuned.cfg = "asksin" => ~sent.stray /\ sent.marc = "RX"
  BY <1>2, SendPacketEffect
<1> HIDE DEF sent
<1>4. Radio(c, tuned) /\ Radio(c, sent)
  BY <1>2, <1>3 DEF Radio, RadioFields, ChipFields, Only
<1>5. /\ Stick(at) /\ Radio(c, at) /\ Only(c, at, ChipFields \cup {"stray"})
      /\ tuned.cfg = "asksin" => (at.stray => c.stray)
      /\ c.asksin_on => Only(c, at, {"stray", "marc"})
      /\ c.asksin_on /\ c.marc # "OVERFLOW" /\ c.cfg = "asksin" => at.marc # "OVERFLOW"
  BY <1>2, <1>3, <1>4 DEF Only, Fields, ChipFields
<1>6. \/ at = sent /\ sent.marc = "TX" /\ d = Boot(sent) /\ tuned.cfg # "asksin"
      \/ d = done(at)
  BY <1>1, <1>3
<1> HIDE DEF at
<1>7. CASE at = sent /\ sent.marc = "TX" /\ d = Boot(sent) /\ tuned.cfg # "asksin"
  BY <1>2, <1>3, <1>7 DEF Reset
<1>8. CASE d = done(at) /\ ~c.asksin_on
  <2>1. d = set_txrestore(at)
    BY <1>8
  <2>2. /\ Stick(d) /\ Only(at, d, ChipFields \cup {"cc_on", "asksin_on", "moritz_on"})
        /\ ~d.asksin_on /\ ~d.moritz_on
        /\ at.tx_report => d.cc_on /\ d.cfg = "slow" /\ d.marc = "RX" /\ d.int
        /\ ~at.tx_report => ~d.cc_on /\ d.marc = "IDLE"
    BY <1>5, <2>1, TxRestoreEffect
  <2>3. at.tx_report = c.tx_report /\ d.stray = at.stray
    BY <1>5, <2>2 DEF Only, Fields, ChipFields
  <2>4. Only(c, d, ChipFields \cup {"cc_on", "asksin_on", "moritz_on", "stray"})
    BY <1>5, <2>2 DEF Only
  <2>5. Radio(c, d)
    BY <2>2, <2>4 DEF Radio, RadioFields, Only
  <2> QED BY <1>2, <1>5, <1>8, <2>2, <2>3, <2>4, <2>5
<1>9. CASE d = done(at) /\ c.asksin_on
  <2>1. CASE at.marc = "OVERFLOW"
    BY <1>5, <1>9, <2>1 DEF Reset
  <2>2. CASE at.marc # "OVERFLOW"
    <3>1. d = SRX(at)
      BY <1>9, <2>2
    <3>2. Stick(d) /\ Only(at, d, {"marc"})
      BY <1>5, <3>1, RxEffect
    <3>3. Radio(c, d) /\ d.stray = at.stray
      BY <1>5, <3>2 DEF Radio, RadioFields, ChipFields, Only, Fields
    <3>4. Only(c, d, {"marc", "stray"})
      BY <1>5, <1>9, <3>2 DEF Only
    <3> QED BY <1>2, <1>5, <1>9, <3>3, <3>4
  <2> QED BY <2>1, <2>2
<1> QED BY <1>6, <1>7, <1>8, <1>9

-----------------------------------------------------------------------------
(* The credit: a sum that came out negative as an int8_t is larger, as a   *)
(* uint16_t, than any credit.                                              *)
LEMMA ModBelow == ASSUME NEW x \in Nat, NEW m \in Nat, m > 0 PROVE x % m \in 0..m - 1
OBVIOUS

LEMMA ModOfSmall == ASSUME NEW x \in Nat, NEW w \in Nat, x < w PROVE x % w = x
OBVIOUS

LEMMA ModOfNegative == ASSUME NEW s \in Int, NEW w \in Int, -w <= s, s < 0 PROVE s % w = w + s
OBVIOUS

LEMMA SumPaid ==
  ASSUME NEW t \in Telegram, NEW k \in 0..MaxCredit, ~(k < SumOf(t) % Word)
  PROVE  SumOf(t) \in 0..k
<1>1. /\ t \in Nat /\ Int8 \in Nat /\ Int8 > 0 /\ Word \in Nat /\ Int8 <= Word
      /\ MaxCredit \in Nat /\ MaxCredit < Word - Int8
  <2>1. t \in Nat /\ Int8 \in Nat /\ Int8 > 0 /\ Int8 <= Word
    BY CreditAssumption
  <2>2. MaxCredit \in 0..Word - Int8 - 1
    BY CreditAssumption
  <2>3. Word \in Nat
    BY CreditAssumption
  <2> QED BY <2>1, <2>2, <2>3
<1>2. t + Int8 \in Nat /\ 2 * Int8 \in Nat /\ 2 * Int8 > 0
  BY <1>1
<1>3. (t + Int8) % (2 * Int8) \in 0..2 * Int8 - 1
  BY <1>2, ModBelow
<1>4. SumOf(t) \in Int /\ -Int8 <= SumOf(t) /\ SumOf(t) < Int8
  BY <1>1, <1>3 DEF SumOf
<1>5. CASE SumOf(t) >= 0
  <2>1. SumOf(t) \in Nat /\ SumOf(t) < Word
    BY <1>1, <1>4, <1>5
  <2>2. SumOf(t) % Word = SumOf(t)
    BY <1>1, <2>1, ModOfSmall
  <2> QED BY <1>1, <2>1, <2>2
<1>6. CASE SumOf(t) < 0
  <2>1. -Word <= SumOf(t)
    BY <1>1, <1>4
  <2>2. SumOf(t) % Word = Word + SumOf(t)
    BY <1>1, <1>4, <1>6, <2>1, ModOfNegative
  <2> QED BY <1>1, <1>4, <2>2
<1> QED BY <1>4, <1>5, <1>6

LEMMA Affordable == ASSUME NEW k \in 0..MaxCredit, NEW n \in 0..k PROVE k - n \in 0..MaxCredit
BY CreditAssumption

LEMMA HalfCredit == MaxCredit \div 2 \in 0..MaxCredit
BY CreditAssumption

(* What is sent is paid for, and changes nothing else.                     *)
Paid(c, d) == Stick(d) /\ Only(c, d, RadioFields \cup {"credit"}) /\ d.credit \in 0..MaxCredit

LEMMA SendrawEffect ==
  ASSUME NEW c, Stick(c), c.credit \in 0..MaxCredit, NEW t \in Telegram
  PROVE  /\ Paid(c, sendraw(c, t, FALSE))
         /\ \/ sendraw(c, t, FALSE) = c
            \/ \E d : /\ Stick(d) /\ Only(c, d, {"credit"})
                      /\ sendraw(c, t, FALSE) = SendSlow(d, FALSE)
         /\ sendraw(c, t, TRUE) = c \/ Reset(sendraw(c, t, TRUE))
<1>1. CASE c.credit < SumOf(t) % Word
  BY <1>1 DEF sendraw, Paid, Only
<1>2. CASE ~(c.credit < SumOf(t) % Word)
  <2> DEFINE d == [c EXCEPT !.credit = @ - SumOf(t)]
  <2>1. \A long : sendraw(c, t, long) = SendSlow(d, long)
    BY <1>2, Zenon DEF sendraw
  <2>2. SumOf(t) \in 0..c.credit
    BY <1>2, SumPaid
  <2>3. c.credit - SumOf(t) \in 0..MaxCredit
    BY <2>2, Affordable
  <2>4. Stick(d) /\ Only(c, d, {"credit"}) /\ d.credit = c.credit - SumOf(t)
    BY DEF Stick, Only, Fields
  <2> HIDE DEF d
  <2>5. Radio(d, SendSlow(d, FALSE)) /\ Reset(SendSlow(d, TRUE))
    BY <2>4, SendSlowEffect, SendSlowResets
  <2>6. Paid(c, SendSlow(d, FALSE))
    BY <2>3, <2>4, <2>5 DEF Paid, Radio, Only, Fields, RadioFields, ChipFields
  <2> QED BY <2>1, <2>4, <2>5, <2>6
<1> QED BY <1>1, <1>2

LEMMA MoritzSendEffect ==
  ASSUME NEW c, Stick(c), c.credit \in 0..MaxCredit,
         NEW sum \in {LongSum, ShortSum}, NEW clear, NEW d, d = moritz_sendraw(c, sum, clear)
  PROVE  /\ Paid(c, d)
         /\ c.moritz_on /\ c.cfg = "moritz" =>
              /\ Only(c, d, ChipFields \cup {"credit", "stray", "moritz_on"})
              /\ d.moritz_on /\ d.cfg = "moritz" /\ (d.stray => c.stray)
              /\ d.marc = "RX" \/ d.marc = c.marc
<1>1. CASE c.credit < sum
  BY <1>1 DEF moritz_sendraw, Paid, Only
<1>2. CASE ~(c.credit < sum)
  <2> DEFINE paid == [c EXCEPT !.credit = @ - sum]
             tuned == IF c.moritz_on THEN paid ELSE rf_moritz_init(paid)
             tx == ccTX(tuned)
             sent == SendPacket(tx, "moritz")
  <2>1. d = IF tuned.marc = "RX" /\ clear /\ sent.marc = "RX" THEN sent
            ELSE IF tuned.marc = "RX" /\ clear THEN rf_moritz_init(sent)
            ELSE rf_moritz_init(tuned)
    BY <1>2, Zenon DEF moritz_sendraw
  <2>2. sum \in 0..c.credit
    BY <1>2, CreditAssumption
  <2>3. c.credit - sum \in 0..MaxCredit
    BY <2>2, Affordable
  <2>4. Stick(paid) /\ Only(c, paid, {"credit"}) /\ paid.credit \in 0..MaxCredit
    BY <2>3 DEF Stick, Only, Fields
  <2> HIDE DEF paid
  <2>5. /\ Stick(tuned) /\ Only(paid, tuned, ChipFields \cup {"moritz_on"})
        /\ c.moritz_on => tuned = paid
    BY <2>4, MoritzInitEffect DEF Only
  <2> HIDE DEF tuned
  <2>6. Stick(tx) /\ Only(tuned, tx, {"int", "marc"})
    BY <2>5, TxEffect
  <2> HIDE DEF tx
  <2>7. /\ Stick(sent) /\ Only(tx, sent, {"stray", "marc"})
        /\ sent.stray = (tx.cfg # "moritz")
    BY <2>6, SendPacketEffect
  <2> HIDE DEF sent
  <2>8. PICK e \in {tuned, sent} : d = e \/ d = rf_moritz_init(e)
    BY <2>1
  <2>9. Stick(e) /\ Only(tuned, e, {"int", "marc", "stray"})
    BY <2>5, <2>6, <2>7, <2>8 DEF Only, Fields
  <2>10. Stick(d) /\ Only(e, d, ChipFields \cup {"moritz_on"})
    BY <2>8, <2>9, MoritzInitEffect DEF Only
  <2>11. Paid(c, d)
    BY <2>4, <2>5, <2>9, <2>10 DEF Paid, Only, Fields, RadioFields, ChipFields
  <2>12. ASSUME c.moritz_on, c.cfg = "moritz"
         PROVE  /\ Only(c, d, ChipFields \cup {"credit", "stray", "moritz_on"})
                /\ d.moritz_on /\ d.cfg = "moritz" /\ (d.stray => c.stray)
                /\ d.marc = "RX" \/ d.marc = c.marc
    <3>1. /\ Only(c, tuned, {"credit"}) /\ tuned.cfg = "moritz" /\ tuned.moritz_on
          /\ tuned.stray = c.stray
      BY <2>4, <2>5, <2>12 DEF Only, Fields
    <3>2. ~sent.stray /\ sent.cfg = "moritz" /\ sent.moritz_on
      BY <2>6, <2>7, <3>1 DEF Only, Fields
    <3>3. e.cfg = "moritz" /\ e.moritz_on /\ (e.stray => c.stray)
      BY <2>8, <3>1, <3>2
    <3>4. Only(c, d, ChipFields \cup {"credit", "stray", "moritz_on"})
      BY <2>9, <2>10, <3>1 DEF Only, Fields, ChipFields
    <3>5. d.stray = e.stray
      BY <2>10 DEF Only, Fields, ChipFields
    <3>6. \/ d = sent /\ sent.marc = "RX"
          \/ d = rf_moritz_init(sent) \/ d = rf_moritz_init(tuned)
      BY <2>1
    <3>7. /\ rf_moritz_init(sent).marc = "RX" /\ rf_moritz_init(sent).cfg = "moritz"
          /\ rf_moritz_init(sent).moritz_on
          /\ rf_moritz_init(tuned).marc = "RX" /\ rf_moritz_init(tuned).cfg = "moritz"
          /\ rf_moritz_init(tuned).moritz_on
      BY <2>5, <2>7, MoritzInitEffect
    <3> QED BY <3>2, <3>3, <3>4, <3>5, <3>6, <3>7
  <2> QED BY <2>11, <2>12
<1> QED BY <1>1, <1>2

-----------------------------------------------------------------------------
(* The invariant of the stick itself.                                      *)

KindFields == {"zwave_on", "busy", "credit", "ackState", "zMsgAck", "tries", "acked"}
Tame(c, d) == Stick(d) /\ Only(c, d, Fields \ KindFields) /\ Woken(c, d)

LEMMA TameKind ==
  ASSUME NEW c, NEW d, Kind(c), Tame(c, d)
  PROVE  Kind(d)
<1>1. /\ d.zwave_on = c.zwave_on /\ d.busy = c.busy
      /\ d.credit = c.credit /\ d.ackState = c.ackState /\ d.zMsgAck = c.zMsgAck
      /\ d.tries = c.tries /\ d.acked = c.acked
  BY DEF Tame, Only, Fields, KindFields, Woken
<1> QED BY <1>1 DEF Kind, Tame, Protocols, Message, Woken

LEMMA RadioTame == ASSUME NEW c, NEW d, Radio(c, d) PROVE Tame(c, d)
BY DEF Radio, Tame, Only, Fields, KindFields, Woken, RadioFields, ChipFields

LEMMA RadioKind == ASSUME NEW c, NEW d, Kind(c), Radio(c, d) PROVE Kind(d)
BY RadioTame, TameKind

LEMMA ResetKind == ASSUME NEW d, Reset(d) PROVE Kind(d)
<1>1. PICK e : Stick(e) /\ d = Boot(e)
  BY DEF Reset
<1>2. /\ Stick(d) /\ d.credit = MaxCredit \div 2 /\ d.zwave_on = "no" /\ d.fastrf_on = 0
      /\ ~d.busy /\ d.ackState = 0 /\ d.tries = 0
  BY <1>1, RamBoot
<1>3. d.credit \in 0..MaxCredit
  BY <1>2, HalfCredit
<1> QED BY <1>2, <1>3 DEF Kind, Protocols, Message

LEMMA PaidKind == ASSUME NEW c, NEW d, Kind(c), Paid(c, d) PROVE Kind(d)
<1>1. /\ d.zwave_on = c.zwave_on /\ d.fastrf_on = c.fastrf_on /\ d.busy = c.busy
      /\ d.ackState = c.ackState /\ d.zMsgAck = c.zMsgAck
      /\ d.tries = c.tries /\ d.acked = c.acked
  BY DEF Paid, Only, Fields, RadioFields, ChipFields
<1> QED BY <1>1 DEF Kind, Paid, Protocols, Message

LEMMA InitKind == ASSUME Init PROVE Kind(cul)
<1>1. /\ DOMAIN cul = Fields /\ cul.cfg = "reset" /\ cul.marc = "IDLE" /\ cul.fifo = 0
      /\ cul.restore = {} /\ cul.credit = MaxCredit \div 2 /\ cul.zwave_on = "no"
      /\ cul.fastrf_on = 0 /\ ~cul.busy /\ cul.ackState = 0 /\ cul.tries = 0
  BY DEF Init, Ram, Fields
<1>2. cul.credit \in 0..MaxCredit
  BY <1>1, HalfCredit
<1>3. Stick(cul)
  BY <1>1, EmptyFits DEF Stick, Cfg, Marc
<1> QED BY <1>1, <1>2, <1>3 DEF Kind, Protocols, Message

(* Commands that switch something on or off.                               *)
LEMMA SwitchTame ==
  ASSUME Kind(cul),
         \/ X21 \/ X00 \/ SetPa \/ WriteRegister
         \/ AsksinOn \/ AsksinOff \/ MoritzOn \/ MoritzOff \/ MoritzAutoAck \/ RweOn \/ RweOff
         \/ KoppOn \/ KoppOff
  PROVE  Tame(cul, cul')
<1>0. Stick(cul)
  BY DEF Kind
<1>1. ASSUME NEW on, cul' = set_txreport(cul, on)
      PROVE  Tame(cul, cul')
  <2> DEFINE d == [cul EXCEPT !.tx_report = on]
  <2>1. Stick(d) /\ Only(cul, d, {"tx_report"})
    BY <1>0 DEF Stick, Only, Fields
  <2>2. cul' = set_txrestore(d)
    BY <1>1 DEF set_txreport
  <2> HIDE DEF d
  <2> QED BY <2>1, <2>2, TxRestoreEffect DEF Tame, Only, Fields, KindFields, Woken, ChipFields
<1>2. CASE X21 \/ X00
  BY <1>1, <1>2 DEF X21, X00, Command, Do
<1>3. CASE SetPa
  <2>1. Stick(ccInitChip(cul, "slow"))
        /\ Only(cul, ccInitChip(cul, "slow"), ChipFields \cup {"moritz_on"})
    BY <1>0, InitChipEffect DEF Cfg, Ook
  <2> QED BY <1>3, <2>1 DEF SetPa, ccsetpa, Command, Do, Tame, Only, Fields, KindFields, Woken, ChipFields
<1>4. CASE WriteRegister
  <2>1. Stick(ccRX(cul)) /\ Only(cul, ccRX(cul), {"int", "marc"})
    BY <1>0, ccRxEffect
  <2> QED BY <1>4, <2>1 DEF WriteRegister, ccreg, Command, Do, Tame, Only, Fields, KindFields, Woken
<1>5. CASE AsksinOn
  <2> DEFINE d == rf_asksin_init(cul)
  <2>1. Stick(d) /\ Only(cul, d, ChipFields)
    BY <1>0, AsksinInitEffect
  <2>2. cul' = [d EXCEPT !.asksin_on = TRUE]
    BY <1>5 DEF AsksinOn, Command, Do
  <2> HIDE DEF d
  <2> QED BY <2>1, <2>2 DEF Stick, Tame, Only, Fields, KindFields, Woken, ChipFields
<1>6. CASE MoritzOn
  <2>1. Stick(rf_moritz_init(cul))
        /\ Only(cul, rf_moritz_init(cul), ChipFields \cup {"moritz_on"})
    BY <1>0, MoritzInitEffect
  <2> QED BY <1>6, <2>1 DEF MoritzOn, Command, Do, Tame, Only, Fields, KindFields, Woken, ChipFields
<1>7. CASE RweOn
  <2> DEFINE d == rf_rwe_init(cul)
  <2>1. Stick(d) /\ Only(cul, d, ChipFields)
    BY <1>0, RweInitEffect
  <2>2. cul' = [d EXCEPT !.rwe_on = TRUE]
    BY <1>7 DEF RweOn, Command, Do
  <2> HIDE DEF d
  <2> QED BY <2>1, <2>2 DEF Stick, Tame, Only, Fields, KindFields, Woken, ChipFields
<1>8. CASE KoppOn
  <2> DEFINE d == kopp_fc_init(cul)
             e == ccRX(d)
  <2>1. Stick(d) /\ Only(cul, d, ChipFields \cup {"cc_on"})
    BY <1>0, KoppInitEffect
  <2>2. Stick(e) /\ Only(d, e, {"int", "marc"})
    BY <2>1, ccRxEffect
  <2>3. cul' = [e EXCEPT !.kopp_fc_rx_on = TRUE]
    BY <1>8 DEF KoppOn, Command, Do
  <2> HIDE DEF d, e
  <2> QED BY <2>1, <2>2, <2>3 DEF Stick, Tame, Only, Fields, KindFields, Woken, ChipFields
<1>9. CASE KoppOff
  <2> DEFINE d == SIDLE(cul)
  <2>1. Stick(d) /\ Only(cul, d, {"marc"})
    BY <1>0, IdleEffect
  <2>2. cul' = [d EXCEPT !.kopp_fc_rx_on = FALSE]
    BY <1>9 DEF KoppOff, Command, Do
  <2> HIDE DEF d
  <2> QED BY <2>1, <2>2 DEF Stick, Tame, Only, Fields, KindFields, Woken
<1>10. CASE AsksinOff
  BY <1>0, <1>10 DEF AsksinOff, Command, Do, Stick, Tame, Only, Fields, KindFields, Woken
<1>11. CASE MoritzOff
  BY <1>0, <1>11 DEF MoritzOff, Command, Do, Stick, Tame, Only, Fields, KindFields, Woken
<1>12. CASE RweOff
  BY <1>0, <1>12 DEF RweOff, Command, Do, Stick, Tame, Only, Fields, KindFields, Woken
<1>13. CASE MoritzAutoAck
  <2>1. PICK who : cul' = [cul EXCEPT !.autoAck = @ \cup {who}]
    BY <1>13 DEF MoritzAutoAck, Command, Do
  <2> QED BY <1>0, <2>1 DEF Stick, Tame, Only, Fields, KindFields, Woken
<1> QED BY <1>2, <1>3, <1>4, <1>5, <1>6, <1>7, <1>8, <1>9, <1>10, <1>11, <1>12, <1>13

LEMMA SlowSendKind == ASSUME Kind(cul), NEW long \in BOOLEAN, SlowSend(long) PROVE Kind(cul')
<1>1. PICK t \in Telegram : cul' = sendraw(cul, t, long)
  BY DEF SlowSend, Command, Do
<1>2. Stick(cul) /\ cul.credit \in 0..MaxCredit
  BY DEF Kind, Protocols
<1>3. CASE long = FALSE
  BY <1>1, <1>2, <1>3, SendrawEffect, PaidKind
<1>4. CASE long = TRUE
  BY <1>1, <1>2, <1>4, SendrawEffect, ResetKind
<1> QED BY <1>3, <1>4

LEMMA AsksinSendKind == ASSUME Kind(cul), AsksinSend PROVE Kind(cul')
<1>1. PICK clear \in BOOLEAN : cul' = asksin_send(cul, clear)
  BY DEF AsksinSend, Command, Do
<1>2. Radio(cul, cul') \/ Reset(cul')
  BY <1>1, AsksinSendEffect DEF Kind
<1> QED BY <1>2, RadioKind, ResetKind

LEMMA MoritzSendKind == ASSUME Kind(cul), MoritzSend PROVE Kind(cul')
<1>1. PICK clear \in BOOLEAN, sum \in {LongSum, ShortSum} : cul' = moritz_sendraw(cul, sum, clear)
  BY DEF MoritzSend, Command, Do
<1>2. Stick(cul) /\ cul.credit \in 0..MaxCredit
  BY DEF Kind, Protocols
<1> QED BY <1>1, <1>2, MoritzSendEffect, PaidKind

LEMMA FastRfKind == ASSUME Kind(cul), FastRfOn \/ FastRfOff \/ FastRfSend PROVE Kind(cul')
<1>1. CASE FastRfOn
  <2> DEFINE d == ccInitChip(cul, "fastrf")
             e == ccRX(d)
  <2>1. "fastrf" \in Cfg
    BY DEF Cfg, Packet, RxOffRx
  <2>2. Stick(d) /\ Only(cul, d, ChipFields \cup {"moritz_on"})
    BY <2>1, InitChipEffect DEF Kind
  <2>3. Stick(e) /\ Only(d, e, {"int", "marc"})
    BY <2>2, ccRxEffect
  <2>4. cul' = [e EXCEPT !.fastrf_on = 1]
    BY <1>1 DEF FastRfOn, Command, Do
  <2> HIDE DEF d
  <2>5. Tame(cul, e)
    BY <2>2, <2>3 DEF Tame, Only, Fields, KindFields, Woken, ChipFields
  <2> HIDE DEF e
  <2>6. Kind(e)
    BY <2>5, TameKind
  <2> QED BY <2>4, <2>6 DEF Kind, Stick, Fields, Protocols, Message
<1>2. CASE FastRfOff
  BY <1>2 DEF FastRfOff, Command, Do, Kind, Stick, Fields, Protocols, Message
<1>3. CASE FastRfSend
  <2>1. cul' = fastrf_send(cul)
    BY <1>3 DEF FastRfSend, Command, Do
  <2> QED BY <2>1, FastRfEffect, RadioKind, ResetKind DEF Kind
<1> QED BY <1>1, <1>2, <1>3

(* A try is counted, of a message that was to be sent again.               *)
LEMMA CountedKind ==
  ASSUME NEW c, NEW d, Stick(c), Protocols(c), Counted(c, d),
         c.ackState \in 0..2, c.zMsgAck, ~c.acked, c.tries = c.ackState + 1
  PROVE  Kind(d)
<1>1. /\ d.zwave_on = c.zwave_on /\ d.fastrf_on = c.fastrf_on /\ d.busy = c.busy
      /\ d.credit = c.credit /\ d.zMsgAck = c.zMsgAck
      /\ d.tries = c.tries /\ d.acked = c.acked
  BY DEF Counted, Only, Fields, RadioFields, ChipFields
<1>2. d.ackState = IF c.ackState + 1 >= 3 THEN 0 ELSE c.ackState + 1
  BY DEF Counted
<1>3. Protocols(d)
  BY <1>1 DEF Protocols
<1>4. Message(d)
  BY <1>1, <1>2 DEF Message
<1> QED BY <1>3, <1>4 DEF Kind, Counted

LEMMA ZwaveKind == ASSUME Kind(cul), ZwaveOn \/ ZwaveOff \/ ZwaveSend PROVE Kind(cul')
<1>1. CASE ZwaveOn
  <2>1. PICK m \in {"r", "m"} : cul' = rf_zwave_init([cul EXCEPT !.zwave_on = m])
    BY <1>1 DEF ZwaveOn, Command, Do
  <2> DEFINE d == [cul EXCEPT !.zwave_on = m]
  <2>2. Kind(d)
    BY DEF Kind, Stick, Fields, Protocols, Message
  <2>3. cul' = rf_zwave_init(d)
    BY <2>1
  <2> HIDE DEF d
  <2>4. Stick(cul') /\ Only(d, cul', ChipFields)
    BY <2>2, <2>3, ZwaveInitEffect DEF Kind
  <2>5. Tame(d, cul')
    BY <2>4 DEF Tame, Only, Fields, KindFields, Woken, ChipFields
  <2> QED BY <2>2, <2>5, TameKind
<1>2. CASE ZwaveOff
  BY <1>2 DEF ZwaveOff, Command, Do, Kind, Stick, Fields, Protocols, Message
<1>3. CASE ZwaveSend
  <2>1. PICK ackReq \in BOOLEAN :
          cul' = zwave_doSend([cul EXCEPT !.ackState = 0, !.zMsgAck = ackReq, !.tries = 1,
                                          !.acked = FALSE], ackReq)
    BY <1>3 DEF ZwaveSend, Command, Do
  <2> DEFINE d == [cul EXCEPT !.ackState = 0, !.zMsgAck = ackReq, !.tries = 1, !.acked = FALSE]
  <2>2. /\ Stick(d) /\ Only(cul, d, {"ackState", "zMsgAck", "tries", "acked"})
        /\ d.ackState = 0 /\ d.tries = 1 /\ ~d.acked /\ d.zMsgAck = ackReq
    BY DEF Kind, Stick, Fields, Only
  <2>3. cul' = zwave_doSend(d, ackReq)
    BY <2>1
  <2> HIDE DEF d
  <2>4. Protocols(d)
    BY <2>2 DEF Kind, Protocols, Only, Fields
  <2>5. Kind(d)
    BY <2>2, <2>4 DEF Kind, Message
  <2>6. CASE ackReq /\ Counted(d, cul')
    <3>1. Stick(d) /\ d.ackState \in 0..2 /\ d.zMsgAck /\ ~d.acked /\ d.tries = d.ackState + 1
      BY <2>2, <2>6
    <3> QED BY ONLY <2>4, <2>6, <3>1, CountedKind
  <2> QED BY <2>2, <2>3, <2>5, <2>6, ZwaveSendEffect, ResetKind, RadioKind
<1> QED BY <1>1, <1>2, <1>3

LEMMA SomfySendKind == ASSUME Kind(cul), NEW long \in BOOLEAN, SomfySend(long) PROVE Kind(cul')
<1>0. Stick(cul) /\ cul' = SendOneShot(cul, "somfy", FALSE, long)
  BY DEF Kind, SomfySend, Command, Do
<1>1. CASE long = FALSE
  <2>1. Radio(cul, SendOneShot(cul, "somfy", FALSE, FALSE))
    BY <1>0, OneShotEffect
  <2> QED BY <1>0, <1>1, <2>1, RadioKind
<1>2. CASE long = TRUE
  BY <1>0, <1>2, OneShotResets, ResetKind
<1> QED BY <1>1, <1>2

(* intertechno_on as a flag.                                               *)
LEMMA ItSendIs ==
  ASSUME NEW long \in BOOLEAN, ItSend(long)
  PROVE  \E on \in BOOLEAN :
           (on <=> cul.intertechno_on) /\ cul' = SendOneShot(cul, "it", on, long)
<1>1. cul' = SendOneShot(cul, "it", cul.intertechno_on, long)
  BY DEF ItSend, Do
<1>2. CASE cul.intertechno_on
  <2>1. SendOneShot(cul, "it", cul.intertechno_on, long) = SendOneShot(cul, "it", TRUE, long)
    BY <1>2 DEF SendOneShot
  <2> QED BY <1>1, <1>2, <2>1
<1>3. CASE ~cul.intertechno_on
  <2>1. SendOneShot(cul, "it", cul.intertechno_on, long) = SendOneShot(cul, "it", FALSE, long)
    BY <1>3 DEF SendOneShot
  <2> QED BY <1>1, <1>3, <2>1
<1> QED BY <1>2, <1>3

LEMMA ItSendKind == ASSUME Kind(cul), NEW long \in BOOLEAN, ItSend(long) PROVE Kind(cul')
<1>0. Stick(cul)
  BY DEF Kind
<1>1. PICK on \in BOOLEAN : cul' = SendOneShot(cul, "it", on, long)
  BY ItSendIs
<1>2. CASE long = TRUE
  BY <1>0, <1>1, <1>2, OneShotResets, ResetKind
<1>3. CASE long = FALSE /\ on = TRUE
  <2>1. Stick(cul') /\ Only(cul, cul', ShotFields \cup {"fastrf_on"}) /\ Woken(cul, cul')
    BY <1>0, <1>1, <1>3, TunedShotEffect
  <2>2. Tame(cul, cul')
    BY <2>1 DEF Tame, Only, Fields, KindFields, ShotFields
  <2> QED BY <2>2, TameKind
<1>4. CASE long = FALSE /\ on = FALSE
  <2>1. Radio(cul, cul')
    BY <1>0, <1>1, <1>4, OneShotEffect
  <2> QED BY <2>1, RadioKind
<1> QED BY <1>2, <1>3, <1>4

LEMMA OneShotKind ==
  ASSUME Kind(cul), KoppTransmit \/ SomfyOff \/ ItOn \/ ItOff \/ Reboot
  PROVE  Kind(cul')
<1>0. Stick(cul)
  BY DEF Kind
<1>1. CASE KoppTransmit
  BY <1>0, <1>1, KoppTransmitEffect, RadioKind DEF KoppTransmit, Command, Do
<1>3. CASE SomfyOff
  BY <1>0, <1>3, LeaveEffect, RadioKind DEF SomfyOff, Command, Do
<1>5. CASE ItOn
  <2> DEFINE d == Park(cul, "it")
  <2>1. Radio(cul, d)
    BY <1>0, ParkEffect
  <2>2. cul' = [d EXCEPT !.intertechno_on = TRUE]
    BY <1>5 DEF ItOn, Do
  <2> HIDE DEF d
  <2>3. Kind(d)
    BY <2>1, RadioKind
  <2>4. Tame(d, cul')
    BY <2>1, <2>2 DEF Radio, Stick, Tame, Only, Fields, KindFields, Woken
  <2> QED BY <2>3, <2>4, TameKind
<1>6. CASE ItOff
  <2> DEFINE d == LeaveOneShot(cul, "it")
  <2>1. Radio(cul, d)
    BY <1>0, LeaveEffect
  <2>2. cul' = [d EXCEPT !.intertechno_on = FALSE]
    BY <1>6 DEF ItOff, Command, Do
  <2> HIDE DEF d
  <2>3. Kind(d)
    BY <2>1, RadioKind
  <2>4. Tame(d, cul')
    BY <2>1, <2>2 DEF Radio, Stick, Tame, Only, Fields, KindFields, Woken
  <2> QED BY <2>3, <2>4, TameKind
<1>7. CASE Reboot
  BY <1>0, <1>7, ResetKind DEF Reset, Reboot, Command, Do
<1> QED BY <1>1, <1>3, <1>5, <1>6, <1>7

LEMMA HostKind == ASSUME Kind(cul), Host PROVE Kind(cul')
<1>1. CASE \/ X21 \/ X00 \/ SetPa \/ WriteRegister
           \/ AsksinOn \/ AsksinOff \/ MoritzOn \/ MoritzOff \/ MoritzAutoAck \/ RweOn \/ RweOff
           \/ KoppOn \/ KoppOff
  BY <1>1, SwitchTame, TameKind
<1>2. CASE \E long \in BOOLEAN : SlowSend(long) \/ SomfySend(long) \/ ItSend(long)
  BY <1>2, SlowSendKind, SomfySendKind, ItSendKind
<1> QED BY <1>1, <1>2, AsksinSendKind, MoritzSendKind, FastRfKind, ZwaveKind, OneShotKind DEF Host

(* The tasks.                                                              *)
LEMMA ReceiverKind ==
  ASSUME Kind(cul), AsksinTask \/ RweTask \/ KoppTask
  PROVE  Kind(cul')
<1>0. Stick(cul)
  BY DEF Kind
<1>1. ASSUME NEW d, Stick(d), Only(cul, d, ChipFields \cup {"fastrf_on"}), Woken(cul, d), cul' = d
      PROVE  Kind(cul')
  <2>1. Tame(cul, d)
    BY <1>1 DEF Tame, Only, Fields, KindFields, ChipFields
  <2> QED BY <1>1, <2>1, TameKind
<1>2. CASE cul' = Reopen(cul)
  BY <1>0, <1>1, <1>2, ReopenEffect DEF Only, ChipFields, FifoFields
<1>3. CASE AsksinReads /\ cul' # Reopen(cul)
  <2>1. cul' = IF cul.marc = "OVERFLOW" THEN Boot(cul) ELSE SRX(ReadFifo(cul))
    BY <1>3 DEF AsksinReads, Run
  <2>2. CASE cul.marc = "OVERFLOW"
    BY <1>0, <2>1, <2>2, ResetKind DEF Reset
  <2>3. CASE cul.marc # "OVERFLOW"
    <3>1. Stick(ReadFifo(cul)) /\ Only(cul, ReadFifo(cul), FifoFields)
          /\ Woken(cul, ReadFifo(cul))
      BY <1>0, ReadFifoEffect
    <3>2. Stick(cul') /\ Only(ReadFifo(cul), cul', {"marc"})
      BY <2>1, <2>3, <3>1, RxEffect
    <3>3. Only(cul, cul', ChipFields \cup {"fastrf_on"}) /\ Woken(cul, cul')
      BY <3>1, <3>2 DEF Only, Fields, ChipFields, FifoFields, Woken
    <3> QED BY <1>1, <3>2, <3>3
  <2> QED BY <2>2, <2>3
<1>4. CASE AsksinWakes /\ cul' # Reopen(cul)
  <2>1. cul' = SRX(cul)
    BY <1>4 DEF AsksinWakes, Run
  <2> QED BY <1>0, <1>1, <2>1, RxEffect DEF Only, Fields, ChipFields, Woken
<1>5. CASE Recalibrate
  BY <1>0, <1>1, <1>5 DEF Recalibrate, Stick, Marc, Fields, Only, ChipFields, Woken
<1>6. CASE RweTask
  BY <1>2, <1>6 DEF RweTask, Run
<1>7. CASE KoppTask
  <2>1. cul' = ReadFifo(cul)
    BY <1>7 DEF KoppTask, Run
  <2> QED BY <1>0, <1>1, <2>1, ReadFifoEffect DEF Only, ChipFields, FifoFields
<1> QED BY <1>2, <1>3, <1>4, <1>5, <1>6, <1>7 DEF AsksinTask

LEMMA MoritzTaskKind == ASSUME Kind(cul), MoritzTask PROVE Kind(cul')
<1>0. Stick(cul)
  BY DEF Kind
<1>1. CASE cul' = Reopen(cul)
  <2>1. Tame(cul, cul')
    BY <1>0, <1>1, ReopenEffect DEF Tame, Only, Fields, KindFields, FifoFields
  <2> QED BY <2>1, TameKind
<1>2. CASE MoritzReads
  <2>1. PICK meant \in SUBSET cul.autoAck, clear \in BOOLEAN :
          LET ack(c) == moritz_sendraw(c, ShortSum, clear)
              read == ReadFifo(cul)
          IN cul' = IF meant = {} THEN read
                    ELSE IF Cardinality(meant) = 1 THEN ack(read) ELSE ack(ack(read))
    BY <1>2 DEF MoritzReads, Run
  <2> DEFINE read == ReadFifo(cul)
             once == moritz_sendraw(read, ShortSum, clear)
             twice == moritz_sendraw(once, ShortSum, clear)
  <2>2. cul' \in {read, once, twice}
    BY <2>1
  <2>3. Stick(read) /\ Only(cul, read, FifoFields) /\ Woken(cul, read)
    BY <1>0, ReadFifoEffect
  <2> HIDE DEF read
  <2>4. Tame(cul, read)
    BY <2>3 DEF Tame, Only, Fields, KindFields, FifoFields
  <2>5. Kind(read)
    BY <2>4, TameKind
  <2>6. \A c : Kind(c) => Kind(moritz_sendraw(c, ShortSum, clear))
    <3> TAKE c
    <3> HAVE Kind(c)
    <3>1. Stick(c) /\ c.credit \in 0..MaxCredit
      BY DEF Kind, Protocols
    <3>2. Paid(c, moritz_sendraw(c, ShortSum, clear))
      BY ONLY <3>1, MoritzSendEffect
    <3> QED BY <3>2, PaidKind
  <2>7. Kind(once)
    BY <2>5, <2>6
  <2> HIDE DEF once
  <2>8. Kind(twice)
    BY <2>6, <2>7
  <2> QED BY <2>2, <2>5, <2>7, <2>8
<1> QED BY <1>1, <1>2 DEF MoritzTask, Run

LEMMA FastRfTaskKind == ASSUME Kind(cul), FastRfTask PROVE Kind(cul')
<1>0. Stick(cul)
  BY DEF Kind
<1>1. CASE FastRfReads
  <2> DEFINE d == ReadFifo(cul)
  <2>1. Stick(d) /\ Only(cul, d, FifoFields) /\ Woken(cul, d)
    BY <1>0, ReadFifoEffect
  <2>2. cul' = [d EXCEPT !.busy = TRUE] /\ cul.fastrf_on = 2
    BY <1>1 DEF FastRfReads, Run
  <2> HIDE DEF d
  <2>3. Tame(cul, d) /\ d.fastrf_on = 2
    BY <2>1, <2>2 DEF Tame, Only, Fields, KindFields, FifoFields, Woken
  <2>4. Kind(d)
    BY <2>3, TameKind
  <2> QED BY <2>2, <2>3, <2>4 DEF Kind, Stick, Fields, Protocols, Message
<1>2. CASE FastRfHasRead
  BY <1>2 DEF FastRfHasRead, Kind, Stick, Fields, Protocols, Message
<1>3. CASE FastRfWakes
  <2>1. Stick(SFRX(cul)) /\ Only(cul, SFRX(cul), FifoFields \cup {"marc"})
        /\ Woken(cul, SFRX(cul))
    BY <1>0, FlushEffect
  <2>2. cul' = ccRX(SFRX(cul))
    BY <1>3 DEF FastRfWakes, Run
  <2>3. Stick(cul') /\ Only(SFRX(cul), cul', {"int", "marc"})
    BY <2>1, <2>2, ccRxEffect
  <2>4. Tame(cul, cul')
    BY <2>1, <2>3 DEF Tame, Only, Fields, KindFields, Woken, FifoFields
  <2> QED BY <2>4, TameKind
<1> QED BY <1>1, <1>2, <1>3 DEF FastRfTask

LEMMA ZwaveTaskKind == ASSUME Kind(cul), ZwaveTask PROVE Kind(cul')
<1>0. Stick(cul)
  BY DEF Kind
<1>1. CASE ZwaveResends
  <2> DEFINE d == [cul EXCEPT !.tries = @ + 1]
  <2>1. cul' = zwave_doSend(d, cul.zMsgAck) /\ cul.ackState > 0
    BY <1>1 DEF ZwaveResends, Run
  <2>2. Stick(d) /\ Only(cul, d, {"tries"}) /\ d.tries = cul.tries + 1
    BY <1>0 DEF Stick, Fields, Only
  <2> HIDE DEF d
  <2>3. /\ cul.zMsgAck /\ ~cul.acked /\ cul.tries = cul.ackState
        /\ cul.ackState \in 0..2
    BY <2>1 DEF Kind, Message
  <2>4. d.ackState = cul.ackState /\ d.zMsgAck = cul.zMsgAck /\ d.acked = cul.acked
    BY <2>2 DEF Only, Fields
  <2>5. Protocols(d)
    BY <2>2 DEF Kind, Protocols, Only, Fields
  <2>6. Reset(cul') \/ Counted(d, cul')
    BY <2>1, <2>2, <2>3, ZwaveSendEffect
  <2>7. Stick(d) /\ d.ackState \in 0..2 /\ d.zMsgAck /\ ~d.acked /\ d.tries = d.ackState + 1
    BY <2>2, <2>3, <2>4
  <2>8. CASE Counted(d, cul')
    BY ONLY <2>5, <2>7, <2>8, CountedKind
  <2> QED BY <2>6, <2>8, ResetKind
<1>2. CASE ZwaveReads
  <2>0. Stick(SFRX(cul)) /\ Only(cul, SFRX(cul), FifoFields \cup {"marc"})
        /\ Woken(cul, SFRX(cul))
    BY <1>0, FlushEffect
  <2>1. Kind(SFRX(cul))
    <3>1. Tame(cul, SFRX(cul))
      BY <2>0 DEF Tame, Only, Fields, KindFields, FifoFields
    <3> QED BY <3>1, TameKind
  <2>2. ASSUME NEW c, Kind(c), cul' = zccRX(c)
        PROVE  Kind(cul')
    <3>1. Stick(cul') /\ Only(c, cul', {"int", "marc"})
      BY <2>2, zccRxEffect DEF Kind
    <3>2. Tame(c, cul')
      BY <3>1 DEF Tame, Only, Fields, KindFields, Woken
    <3> QED BY <2>2, <3>2, TameKind
  <2>3. CASE cul' = rf_zwave_init(cul)
    <3>1. Tame(cul, cul')
      BY <1>0, <2>3, ZwaveInitEffect DEF Tame, Only, Fields, KindFields, Woken, ChipFields
    <3> QED BY <3>1, TameKind
  <2>4. CASE cul' = zccRX(SFRX(cul))
    BY <2>1, <2>2, <2>4
  <2>5. ASSUME NEW acks \in BOOLEAN, NEW asks \in BOOLEAN, NEW read,
               read = IF acks /\ cul.ackState > 0
                        THEN [SFRX(cul) EXCEPT !.ackState = 0, !.acked = TRUE] ELSE SFRX(cul),
               cul' = IF asks THEN zwave_doSend(read, FALSE) ELSE zccRX(read)
        PROVE  Kind(cul')
    <3> DEFINE d == SFRX(cul)
    <3>1. /\ Kind(d)
          /\ read = IF acks /\ cul.ackState > 0
                      THEN [d EXCEPT !.ackState = 0, !.acked = TRUE] ELSE d
      BY <2>1, <2>5
    <3> HIDE DEF d
    <3>2. Kind(read)
      BY <3>1 DEF Kind, Stick, Fields, Protocols, Message
    <3>3. CASE ~asks
      BY <2>2, <2>5, <3>2, <3>3
    <3>4. CASE asks
      <4>1. cul' = zwave_doSend(read, FALSE) /\ Stick(read)
        BY <2>5, <3>2, <3>4 DEF Kind
      <4>2. Reset(cul') \/ Radio(read, cul')
        BY <4>1, ZwaveSendEffect
      <4> QED BY <3>2, <4>2, ResetKind, RadioKind
    <3> QED BY <3>3, <3>4
  <2> QED BY <1>2, <2>3, <2>4, <2>5 DEF ZwaveReads, Run
<1> QED BY <1>1, <1>2 DEF ZwaveTask

LEMMA CreditKind == ASSUME Kind(cul), CreditGrows \/ TimePasses PROVE Kind(cul')
<1>1. CASE CreditGrows
  <2>1. cul.credit \in 0..MaxCredit /\ cul.credit < MaxCredit /\ cul' = [cul EXCEPT !.credit = @ + 1]
    BY <1>1 DEF CreditGrows, Run, Kind, Protocols
  <2>2. cul.credit + 1 \in 0..MaxCredit
    BY <2>1, CreditAssumption
  <2> QED BY <2>1, <2>2 DEF Kind, Stick, Fields, Protocols, Message
<1>2. CASE TimePasses
  <2>1. Tame(cul, cul')
    BY <1>2 DEF TimePasses, Kind, Stick, Fields, Tame, Only, KindFields, Woken
  <2> QED BY <2>1, TameKind
<1> QED BY <1>1, <1>2

LEMMA TaskKind == ASSUME Kind(cul), Task PROVE Kind(cul')
BY ReceiverKind, MoritzTaskKind, FastRfTaskKind, ZwaveTaskKind, CreditKind DEF Task

(* The air changes fields of the chip, and may interrupt.                  *)
LEMMA AirEffect ==
  ASSUME Stick(cul), Air
  PROVE  /\ parked' = parked
         /\ Stick(cul') /\ Only(cul, cul', ChipFields \cup {"fastrf_on"}) /\ Woken(cul, cul')
<1>1. parked' = parked
  BY DEF Air, Chip, PacketArrives, FifoOverflows, PacketFlushed, DataLineChanges, PllUnlocks
<1>2. CASE PacketArrives
  <2> DEFINE e == Edge(cul, TRUE)
  <2>1. Stick(e) /\ Only(cul, e, {"gdo2", "fastrf_on"}) /\ Woken(cul, e)
    BY EdgeEffect
  <2>2. cul' = [e EXCEPT !.fifo = @ + 1, !.marc = IF cul.cfg \in RxOffIdle THEN "IDLE" ELSE @]
    BY <1>2 DEF PacketArrives, Chip
  <2>3. cul.fifo + 1 \in 0..FifoPackets
    BY <1>2, FifoType DEF PacketArrives, Stick
  <2> HIDE DEF e
  <2>4. e.fifo = cul.fifo
    BY <2>1 DEF Only, Fields
  <2>5. DOMAIN cul' = Fields /\ Only(e, cul', {"fifo", "marc"}) /\ cul'.fifo = e.fifo + 1
    BY <2>1, <2>2 DEF Stick, Fields, Only
  <2>6. cul'.marc \in Marc /\ cul'.cfg = e.cfg /\ cul'.restore = e.restore
    BY <2>1, <2>2 DEF Stick, Fields, Marc
  <2>7. Stick(cul')
    BY <2>1, <2>3, <2>4, <2>5, <2>6 DEF Stick
  <2>8. Only(cul, cul', ChipFields \cup {"fastrf_on"}) /\ Woken(cul, cul')
    BY <2>1, <2>5 DEF Only, Fields, ChipFields, Woken
  <2> QED BY <1>1, <2>7, <2>8
<1>3. CASE FifoOverflows
  <2> DEFINE e == Edge(cul, cul.gdo2 \/ cul.cfg \in GdoThreshold)
  <2>1. Stick(e) /\ Only(cul, e, {"gdo2", "fastrf_on"}) /\ Woken(cul, e)
    BY EdgeEffect
  <2>2. cul' = [e EXCEPT !.marc = "OVERFLOW"]
    BY <1>3 DEF FifoOverflows, Chip
  <2> HIDE DEF e
  <2>3. Stick(cul') /\ Only(e, cul', {"marc"})
    BY <2>1, <2>2 DEF Stick, Fields, Only, Marc
  <2> QED BY <1>1, <2>1, <2>3 DEF Only, Fields, ChipFields, Woken
<1>4. CASE PacketFlushed
  <2>1. cul' = SIDLE(cul)
    BY <1>4 DEF PacketFlushed, Chip
  <2> QED BY <1>1, <2>1, IdleEffect DEF Only, Fields, ChipFields, Woken
<1>5. CASE DataLineChanges
  <2>1. cul' = Edge(cul, ~cul.gdo2)
    BY <1>5 DEF DataLineChanges, Chip
  <2> QED BY <1>1, <2>1, EdgeEffect DEF Only, Fields, ChipFields
<1>6. CASE PllUnlocks
  <2>1. cul' = [cul EXCEPT !.marc = "UNLOCKED"]
    BY <1>6 DEF PllUnlocks
  <2> QED BY <1>1, <2>1 DEF Stick, Fields, Only, ChipFields, Marc, Woken
<1> QED BY <1>2, <1>3, <1>4, <1>5, <1>6 DEF Air

LEMMA AirKind == ASSUME Kind(cul), Air PROVE Kind(cul')
<1>1. Tame(cul, cul')
  BY AirEffect DEF Kind, Tame, Only, Fields, KindFields, ChipFields
<1> QED BY <1>1, TameKind

LEMMA KindStep == ASSUME Kind(cul), [Next]_vars PROVE Kind(cul')
<1>1. CASE TimePasses
  BY <1>1, CreditKind
<1>2. CASE UNCHANGED vars
  BY <1>2 DEF vars
<1> QED BY <1>1, <1>2, HostKind, TaskKind, AirKind DEF Next

-----------------------------------------------------------------------------
(* The mode of a stick, from its fields.                                   *)

NoOther(c) ==
  ~c.rwe_on /\ c.zwave_on = "no" /\ ~(c.fastrf_on > 0) /\ ~c.kopp_fc_rx_on /\ ~c.intertechno_on

LEMMA OnIs ==
  ASSUME NEW c
  PROVE  /\ On(c) = {"asksin"} <=> c.asksin_on /\ ~c.moritz_on /\ NoOther(c)
         /\ On(c) = {"moritz"} <=> c.moritz_on /\ ~c.asksin_on /\ NoOther(c)
         /\ On(c) = {} <=> ~c.asksin_on /\ ~c.moritz_on /\ NoOther(c)
<1>1. /\ "asksin" \in On(c) <=> c.asksin_on
      /\ "moritz" \in On(c) <=> c.moritz_on
      /\ "rwe" \in On(c) <=> c.rwe_on
      /\ "zwave" \in On(c) <=> c.zwave_on # "no"
      /\ "fastrf" \in On(c) <=> c.fastrf_on > 0
      /\ "kopp" \in On(c) <=> c.kopp_fc_rx_on
      /\ "it" \in On(c) <=> c.intertechno_on
  BY DEF On
<1>2. On(c) \subseteq {"asksin", "moritz", "rwe", "zwave", "fastrf", "kopp", "it"}
  BY DEF On
<1> HIDE DEF On
<1> QED BY <1>1, <1>2 DEF NoOther

AsksinMode(c) ==
  c.restore = {} /\ c.asksin_on /\ ~c.moritz_on /\ NoOther(c) /\ c.cfg = "asksin"
MoritzMode(c) ==
  /\ c.restore = {} /\ c.moritz_on /\ ~c.asksin_on /\ NoOther(c)
  /\ c.cfg = "moritz" /\ c.marc # "IDLE"
Neither(c) == c.restore = {} /\ ~c.asksin_on /\ ~c.moritz_on /\ NoOther(c)
SlowMode(c) ==
  Neither(c) /\ c.tx_report /\ c.cc_on /\ c.cfg = "slow" /\ c.marc = "RX" /\ c.int
OffMode(c) == Neither(c) /\ ~c.tx_report /\ (c.cc_on => c.cfg = "slow") /\ c.marc = "IDLE"

LEMMA ModeIs ==
  ASSUME NEW c
  PROVE  /\ Mode(c) \in {"off", "slow", "asksin", "moritz", "mixed"}
         /\ Mode(c) = "asksin" <=> AsksinMode(c)
         /\ Mode(c) = "moritz" <=> MoritzMode(c)
         /\ Mode(c) = "slow" <=> SlowMode(c)
         /\ Mode(c) = "off" <=> OffMode(c)
BY OnIs DEF Mode, AsksinMode, MoritzMode, SlowMode, OffMode, Neither

(* While InterTechno is on, nothing but a command disturbs what was        *)
(* parked: every other task is off, and no interrupt is for fast RF.       *)
ParkedFields ==
  {"intertechno_on", "asksin_on", "moritz_on", "rwe_on", "kopp_fc_rx_on", "zwave_on",
   "fastrf_on", "restore", "tx_report", "cc_on"}

LEMMA ParkedKept ==
  ASSUME ParkedModes, parked' = parked, Only(cul, cul', Fields \ ParkedFields)
  PROVE  ParkedModes'
<1>1. /\ cul'.intertechno_on = cul.intertechno_on /\ cul'.asksin_on = cul.asksin_on
      /\ cul'.moritz_on = cul.moritz_on /\ cul'.rwe_on = cul.rwe_on
      /\ cul'.kopp_fc_rx_on = cul.kopp_fc_rx_on /\ cul'.zwave_on = cul.zwave_on
      /\ cul'.fastrf_on = cul.fastrf_on /\ cul'.restore = cul.restore
      /\ cul'.tx_report = cul.tx_report /\ cul'.cc_on = cul.cc_on
  BY DEF Only, Fields, ParkedFields
<1> QED BY <1>1 DEF ParkedModes

LEMMA ItOnParks ==
  ASSUME Kind(cul), ItOn
  PROVE  parked' \in {"no", "off", "slow", "asksin", "moritz"} /\ ParkedModes'
<1> DEFINE d == Park(cul, "it")
<1>0. Stick(cul)
  BY DEF Kind
<1>1. /\ Only(cul, d, ChipFields \cup {"cc_on", "asksin_on", "moritz_on", "restore"})
      /\ DOMAIN d = Fields /\ d.cc_on /\ ~d.asksin_on /\ ~d.moritz_on
      /\ d.restore = cul.restore \cup (IF cul.asksin_on THEN {<<"it", "asksin">>} ELSE {})
                                 \cup (IF cul.moritz_on THEN {<<"it", "moritz">>} ELSE {})
  BY <1>0, ParkEffect DEF Radio, Stick
<1>2. cul' = [d EXCEPT !.intertechno_on = TRUE]
  BY DEF ItOn, Do
<1>3. parked' = IF Mode(cul) = "mixed" THEN "no" ELSE Mode(cul)
  BY DEF ItOn
<1> HIDE DEF d
<1>4. /\ cul'.intertechno_on /\ cul'.cc_on /\ ~cul'.asksin_on /\ ~cul'.moritz_on
      /\ cul'.restore = d.restore
      /\ cul'.rwe_on = cul.rwe_on /\ cul'.kopp_fc_rx_on = cul.kopp_fc_rx_on
      /\ cul'.zwave_on = cul.zwave_on /\ cul'.fastrf_on = cul.fastrf_on
      /\ cul'.tx_report = cul.tx_report
  BY <1>1, <1>2 DEF Only, Fields, ChipFields
<1>5. cul.fastrf_on \in 0..2
  BY DEF Kind, Protocols
<1>6. CASE Mode(cul) = "mixed"
  BY <1>3, <1>6 DEF ParkedModes
<1>7. CASE Mode(cul) = "asksin"
  <2>1. AsksinMode(cul) /\ parked' = "asksin"
    BY <1>3, <1>7, ModeIs
  <2>2. cul'.restore = {<<"it", "asksin">>}
    BY <1>1, <1>4, <2>1 DEF AsksinMode
  <2> QED BY <1>4, <1>5, <2>1, <2>2 DEF AsksinMode, NoOther, ParkedModes
<1>8. CASE Mode(cul) = "moritz"
  <2>1. MoritzMode(cul) /\ parked' = "moritz"
    BY <1>3, <1>8, ModeIs
  <2>2. cul'.restore = {<<"it", "moritz">>}
    BY <1>1, <1>4, <2>1 DEF MoritzMode
  <2> QED BY <1>4, <1>5, <2>1, <2>2 DEF MoritzMode, NoOther, ParkedModes
<1>9. CASE Mode(cul) \in {"slow", "off"}
  <2>1. parked' = Mode(cul) /\ Neither(cul)
    BY <1>3, <1>9, ModeIs DEF SlowMode, OffMode
  <2>2. cul'.restore = {}
    BY <1>1, <1>4, <2>1 DEF Neither
  <2>3. Mode(cul) = "slow" => cul.tx_report
    BY ModeIs DEF SlowMode
  <2>4. Mode(cul) = "off" => ~cul.tx_report
    BY ModeIs DEF OffMode
  <2> QED BY <1>4, <1>5, <1>9, <2>1, <2>2, <2>3, <2>4 DEF Neither, NoOther, ParkedModes
<1> QED BY <1>6, <1>7, <1>8, <1>9, ModeIs

LEMMA ParkedStep ==
  ASSUME Inv, [Next]_vars
  PROVE  parked' \in {"no", "off", "slow", "asksin", "moritz"} /\ ParkedModes'
<1>0. Kind(cul) /\ Stick(cul) /\ parked \in {"no", "off", "slow", "asksin", "moritz"} /\ ParkedModes
  BY DEF Inv, Kind
<1>1. CASE parked' = "no"
  BY <1>1 DEF ParkedModes
<1>2. CASE ItOn
  BY <1>0, <1>2, ItOnParks
<1>3. CASE parked' = parked /\ Only(cul, cul', Fields \ ParkedFields)
  BY <1>0, <1>3, ParkedKept
<1>4. CASE Host /\ ~ItOn /\ ~ItSend(FALSE)
  <2>1. parked' = "no"
    <3>1. CASE \E long \in BOOLEAN : SlowSend(long) \/ SomfySend(long)
      BY <3>1 DEF SlowSend, SomfySend, Command
    <3>2. CASE \E long \in BOOLEAN : ItSend(long)
      BY <1>4, <3>2 DEF ItSend
    <3> QED BY <1>4, <3>1, <3>2 DEF Host, Command, X21, X00, SetPa, WriteRegister, Reboot,
      AsksinOn, AsksinOff, AsksinSend, MoritzOn, MoritzOff, MoritzSend, MoritzAutoAck,
      RweOn, RweOff, FastRfOn, FastRfOff, FastRfSend, ZwaveOn, ZwaveOff, ZwaveSend,
      KoppTransmit, KoppOn, KoppOff, SomfyOff, ItOff
  <2> QED BY <1>1, <2>1
<1>5. CASE parked # "no" /\ ItSend(FALSE)
  <2>1. cul.intertechno_on /\ cul.fastrf_on = 0
    BY <1>0, <1>5 DEF ParkedModes
  <2>2. PICK on \in BOOLEAN :
          (on <=> cul.intertechno_on) /\ cul' = SendOneShot(cul, "it", on, FALSE)
    BY <1>5, ItSendIs
  <2>3. cul' = SendOneShot(cul, "it", TRUE, FALSE) /\ parked' = parked
    <3>1. on = TRUE
      BY <2>1, <2>2
    <3> QED BY <1>5, <2>2, <3>1 DEF ItSend
  <2>4. Only(cul, cul', ShotFields \cup {"fastrf_on"}) /\ Woken(cul, cul')
    BY <1>0, <2>3, TunedShotEffect
  <2>5. Only(cul, cul', Fields \ ParkedFields)
    BY <2>1, <2>4 DEF Only, Fields, ParkedFields, ShotFields, Woken
  <2> QED BY <1>3, <2>3, <2>5
<1>6. CASE parked # "no" /\ (Task \/ TimePasses)
  <2>1. /\ ~cul.asksin_on /\ ~cul.moritz_on /\ ~cul.rwe_on /\ ~cul.kopp_fc_rx_on
        /\ cul.zwave_on = "no" /\ cul.fastrf_on = 0 /\ ~cul.busy
    BY <1>0, <1>6 DEF ParkedModes, Kind, Protocols
  <2>2. CreditGrows \/ TimePasses
    BY <1>6, <2>1 DEF Task, AsksinTask, AsksinReads, AsksinWakes, Recalibrate, MoritzTask,
      MoritzReads, RweTask, FastRfTask, FastRfReads, FastRfHasRead, FastRfWakes, KoppTask,
      ZwaveTask, ZwaveResends, ZwaveReads
  <2>3. parked' = parked /\ Only(cul, cul', Fields \ ParkedFields)
    BY <1>0, <2>2 DEF CreditGrows, TimePasses, Run, Stick, Only, Fields, ParkedFields
  <2> QED BY <1>3, <2>3
<1>7. CASE parked # "no" /\ Air
  <2>1. cul.fastrf_on = 0
    BY <1>0, <1>7 DEF ParkedModes
  <2>2. Only(cul, cul', ChipFields \cup {"fastrf_on"}) /\ Woken(cul, cul') /\ parked' = parked
    BY <1>0, <1>7, AirEffect
  <2>3. Only(cul, cul', Fields \ ParkedFields)
    BY <2>1, <2>2 DEF Only, Fields, ParkedFields, ChipFields, Woken
  <2> QED BY <1>3, <2>2, <2>3
<1>8. CASE parked = "no" /\ (ItSend(FALSE) \/ Task \/ TimePasses \/ Air)
  <2>1. parked' = parked
    BY <1>0, <1>8, AirEffect DEF ItSend, TimePasses, Task, AsksinTask, AsksinReads, AsksinWakes,
      Recalibrate, MoritzTask, MoritzReads, RweTask, FastRfTask, FastRfReads, FastRfHasRead,
      FastRfWakes, KoppTask, ZwaveTask, ZwaveResends, ZwaveReads, CreditGrows, Run
  <2> QED BY <1>1, <1>8, <2>1
<1>9. CASE UNCHANGED vars
  BY <1>0, <1>9 DEF vars, ParkedModes
<1> QED BY <1>2, <1>4, <1>5, <1>6, <1>7, <1>8, <1>9 DEF Next

LEMMA Invariance == Spec => []Inv
<1>1. Init => Inv
  BY InitKind DEF Init, Inv, ParkedModes
<1>2. Inv /\ [Next]_vars => Inv'
  <2> SUFFICES ASSUME Inv, [Next]_vars PROVE Inv'
    OBVIOUS
  <2>1. Kind(cul)
    BY DEF Inv
  <2>2. Kind(cul')
    BY <2>1, KindStep
  <2> QED BY <2>2, ParkedStep DEF Inv
<1> QED BY <1>1, <1>2, PTL DEF Spec

-----------------------------------------------------------------------------
(* The flags, counters and the chip keep their types, and the credit stays *)
(* between 0 and MAX_CREDIT although sendraw() squeezes the sum into an    *)
(* int8_t: for every telegram, word size and maximum the assumption allows.*)
THEOREM TypeCorrect == Spec => []TypeOK
<1>1. Inv => TypeOK
  BY DEF Inv, Kind, Stick, Protocols, Marc, TypeOK
<1> QED BY <1>1, Invariance, PTL

(* rf_zwave_task() sends a message three times at most, and no more once   *)
(* it was acknowledged, whatever commands, packets and resets intervene.   *)
THEOREM ZwaveTheorem == Spec => []ZwaveRetries
<1>1. ASSUME Inv PROVE ZwaveRetries
  <2>1. Message(cul)
    BY <1>1 DEF Inv, Kind
  <2> QED BY <2>1 DEF Message, ZwaveRetries
<1> QED BY <1>1, Invariance, PTL

-----------------------------------------------------------------------------
(* A mode comes back: one lemma for each protocol that borrows the radio.  *)

(* What a protocol leaves alone while it uses the radio.                   *)
LEMMA OthersKept ==
  ASSUME NEW c, NEW d, Only(c, d, RadioFields \cup {"credit"})
  PROVE  (NoOther(d) <=> NoOther(c)) /\ d.tx_report = c.tx_report
BY DEF Only, Fields, RadioFields, ChipFields, NoOther

LEMMA SlowSendKeeps ==
  ASSUME Inv, SlowSend(FALSE)
  PROVE  Kept({"off", "slow", "moritz"})
<1>0. Stick(cul) /\ cul.credit \in 0..MaxCredit
  BY DEF Inv, Kind, Protocols
<1>1. PICK t \in Telegram : cul' = sendraw(cul, t, FALSE)
  BY DEF SlowSend, Command, Do
<1>2. CASE cul' = cul
  BY <1>2 DEF Kept
<1>3. CASE cul' # cul
  <2>1. PICK d : Stick(d) /\ Only(cul, d, {"credit"}) /\ cul' = SendSlow(d, FALSE)
    BY <1>0, <1>1, <1>3, SendrawEffect
  <2>2. /\ d.restore = cul.restore /\ d.asksin_on = cul.asksin_on /\ d.moritz_on = cul.moritz_on
        /\ d.cfg = cul.cfg /\ d.cc_on = cul.cc_on /\ d.tx_report = cul.tx_report
        /\ d.stray = cul.stray
    BY <2>1 DEF Only, Fields
  <2>3. Only(d, cul', ChipFields \cup {"cc_on", "asksin_on", "moritz_on", "stray"})
    BY <2>1, SendSlowEffect
  <2>4. cul'.restore = cul.restore
    BY <2>2, <2>3 DEF Only, Fields, ChipFields
  <2>5. Only(cul, cul', RadioFields \cup {"credit"})
    BY <2>1, <2>3 DEF Only, RadioFields
  <2>6. (NoOther(cul') <=> NoOther(cul)) /\ cul'.tx_report = cul.tx_report
    BY <2>5, OthersKept
  <2>7. CASE MoritzMode(cul)
    <3>1. d.moritz_on
      BY <2>2, <2>7 DEF MoritzMode
    <3>2. /\ cul'.cfg = "moritz" /\ cul'.moritz_on /\ ~cul'.asksin_on
          /\ cul'.marc = "RX" /\ ~cul'.stray
      BY <2>1, <3>1, SendSlowEffect
    <3>3. MoritzMode(cul')
      BY <2>4, <2>6, <2>7, <3>2 DEF MoritzMode
    <3> QED BY <2>7, <3>2, <3>3, ModeIs DEF Kept
  <2>8. CASE SlowMode(cul)
    <3>1. ~d.moritz_on /\ d.cc_on /\ d.cfg = "slow" /\ d.tx_report
      BY <2>2, <2>8 DEF SlowMode, Neither
    <3>2. /\ Only(d, cul', {"int", "marc", "stray"})
          /\ ~cul'.stray /\ cul'.marc = "RX" /\ cul'.int
      BY <2>1, <3>1, SendSlowEffect
    <3>3. /\ cul'.cfg = d.cfg /\ cul'.cc_on = d.cc_on
          /\ cul'.asksin_on = d.asksin_on /\ cul'.moritz_on = d.moritz_on
      BY <3>2 DEF Only, Fields
    <3>4. SlowMode(cul')
      BY <2>2, <2>4, <2>6, <2>8, <3>2, <3>3 DEF SlowMode, Neither
    <3> QED BY <2>8, <3>2, <3>4, ModeIs DEF Kept
  <2>9. CASE OffMode(cul)
    <3>1. ~d.moritz_on /\ ~d.tx_report /\ (d.cc_on => d.cfg = "slow")
      BY <2>2, <2>9 DEF OffMode, Neither
    <3>2. CASE d.cc_on
      <4>1. Only(d, cul', {"int", "marc", "stray"}) /\ ~cul'.stray /\ cul'.marc = "IDLE"
        BY <2>1, <3>1, <3>2, SendSlowEffect
      <4>2. /\ cul'.cfg = d.cfg /\ cul'.asksin_on = d.asksin_on /\ cul'.moritz_on = d.moritz_on
        BY <4>1 DEF Only, Fields
      <4>3. OffMode(cul')
        BY <2>2, <2>4, <2>6, <2>9, <3>1, <3>2, <4>1, <4>2 DEF OffMode, Neither
      <4> QED BY <2>9, <4>1, <4>3, ModeIs DEF Kept
    <3>3. CASE ~d.cc_on
      <4>1. /\ cul'.cfg = "slow" /\ ~cul'.stray /\ ~cul'.asksin_on /\ ~cul'.moritz_on
            /\ cul'.marc = "IDLE"
        BY <2>1, <3>1, <3>3, SendSlowEffect
      <4>2. OffMode(cul')
        BY <2>4, <2>6, <2>9, <4>1 DEF OffMode, Neither
      <4> QED BY <2>9, <4>1, <4>2, ModeIs DEF Kept
    <3> QED BY <3>2, <3>3
  <2> QED BY <2>7, <2>8, <2>9, ModeIs DEF Kept
<1> QED BY <1>2, <1>3

LEMMA OneShotKeeps ==
  ASSUME Inv, ItSend(FALSE) \/ SomfySend(FALSE)
  PROVE  Kept({"off", "slow", "asksin", "moritz"})
<1>0. Stick(cul)
  BY DEF Inv, Kind
<1>1. CASE Mode(cul) \in {"off", "slow", "asksin", "moritz"}
  <2>1. ~cul.intertechno_on
    BY <1>1, ModeIs DEF AsksinMode, MoritzMode, SlowMode, OffMode, Neither, NoOther
  <2>2. ItSend(FALSE) => cul' = SendOneShot(cul, "it", FALSE, FALSE)
    <3> SUFFICES ASSUME ItSend(FALSE) PROVE cul' = SendOneShot(cul, "it", FALSE, FALSE)
      OBVIOUS
    <3>1. PICK on \in BOOLEAN :
            (on <=> cul.intertechno_on) /\ cul' = SendOneShot(cul, "it", on, FALSE)
      BY ItSendIs
    <3>2. on = FALSE
      BY <2>1, <3>1
    <3> QED BY <3>1, <3>2
  <2>3. PICK p \in {"it", "somfy"} : cul' = SendOneShot(cul, p, FALSE, FALSE)
    BY <2>2 DEF SomfySend, Command, Do
  <2>4. Radio(cul, cul')
    BY <1>0, <2>3, OneShotEffect
  <2>5. (NoOther(cul') <=> NoOther(cul)) /\ cul'.tx_report = cul.tx_report
    <3>1. Only(cul, cul', RadioFields \cup {"credit"})
      BY <2>4 DEF Radio, Only
    <3> QED BY <3>1, OthersKept
  <2>6. CASE AsksinMode(cul)
    <3>1. cul'.restore = {} /\ cul'.asksin_on /\ ~cul'.moritz_on /\ cul'.cfg = "asksin" /\ ~cul'.stray
      BY <1>0, <2>3, <2>6, OneShotEffect DEF AsksinMode
    <3>2. AsksinMode(cul')
      BY <2>5, <2>6, <3>1 DEF AsksinMode
    <3> QED BY <2>6, <3>1, <3>2, ModeIs DEF Kept
  <2>7. CASE MoritzMode(cul)
    <3>1. /\ cul'.restore = {} /\ cul'.moritz_on /\ ~cul'.asksin_on /\ cul'.cfg = "moritz"
          /\ cul'.marc = "RX" /\ ~cul'.stray
      BY <1>0, <2>3, <2>7, OneShotEffect DEF MoritzMode
    <3>2. MoritzMode(cul')
      BY <2>5, <2>7, <3>1 DEF MoritzMode
    <3> QED BY <2>7, <3>1, <3>2, ModeIs DEF Kept
  <2>8. CASE SlowMode(cul)
    <3>1. /\ cul'.restore = {} /\ ~cul'.moritz_on /\ ~cul'.asksin_on /\ ~cul'.stray
          /\ cul'.cc_on /\ cul'.cfg = "slow" /\ cul'.marc = "RX" /\ cul'.int
      <4>1. cul.restore = {} /\ ~cul.moritz_on /\ ~cul.asksin_on /\ cul.tx_report
        BY <2>8 DEF SlowMode, Neither
      <4> QED BY ONLY <1>0, <2>3, <4>1, OneShotEffect
    <3>2. SlowMode(cul')
      BY <2>5, <2>8, <3>1 DEF SlowMode, Neither
    <3> QED BY <2>8, <3>1, <3>2, ModeIs DEF Kept
  <2>9. CASE OffMode(cul)
    <3>1. /\ cul'.restore = {} /\ ~cul'.moritz_on /\ ~cul'.asksin_on /\ ~cul'.stray
          /\ ~cul'.cc_on /\ cul'.marc = "IDLE"
      <4>1. cul.restore = {} /\ ~cul.moritz_on /\ ~cul.asksin_on /\ ~cul.tx_report
        BY <2>9 DEF OffMode, Neither
      <4> QED BY ONLY <1>0, <2>3, <4>1, OneShotEffect
    <3>2. OffMode(cul')
      BY <2>5, <2>9, <3>1 DEF OffMode, Neither
    <3> QED BY <2>9, <3>1, <3>2, ModeIs DEF Kept
  <2> QED BY <1>1, <2>6, <2>7, <2>8, <2>9, ModeIs
<1>2. CASE Mode(cul) \notin {"off", "slow", "asksin", "moritz"}
  BY <1>2 DEF Kept
<1> QED BY <1>1, <1>2

LEMMA AsksinSendKeeps ==
  ASSUME Inv, AsksinSend, cul.marc # "OVERFLOW"
  PROVE  Kept({"off", "slow", "asksin"})
<1>0. Stick(cul)
  BY DEF Inv, Kind
<1>1. PICK clear \in BOOLEAN : cul' = asksin_send(cul, clear)
  BY DEF AsksinSend, Command, Do
<1>2. CASE AsksinMode(cul)
  <2>1. Only(cul, cul', {"marc", "stray"}) /\ (cul'.stray => cul.stray)
    BY <1>0, <1>1, <1>2, AsksinSendEffect DEF AsksinMode
  <2>2. AsksinMode(cul')
    BY <1>2, <2>1 DEF AsksinMode, NoOther, Only, Fields
  <2> QED BY <1>2, <2>1, <2>2, ModeIs DEF Kept
<1>3. CASE SlowMode(cul) \/ OffMode(cul)
  <2>0. ~cul.asksin_on
    BY <1>3 DEF SlowMode, OffMode, Neither
  <2>1. /\ Only(cul, cul', ChipFields \cup {"cc_on", "asksin_on", "moritz_on", "stray"})
        /\ cul'.stray => cul.stray
        /\ ~cul'.asksin_on /\ ~cul'.moritz_on
        /\ cul.tx_report => cul'.cc_on /\ cul'.cfg = "slow" /\ cul'.marc = "RX" /\ cul'.int
        /\ ~cul.tx_report => ~cul'.cc_on /\ cul'.marc = "IDLE"
    BY <1>0, <1>1, <2>0, AsksinSendEffect
  <2>2. (NoOther(cul') <=> NoOther(cul)) /\ cul'.tx_report = cul.tx_report
    <3>1. Only(cul, cul', RadioFields \cup {"credit"})
      BY <2>1 DEF Only, RadioFields
    <3> QED BY <3>1, OthersKept
  <2>3. cul'.restore = cul.restore
    BY <2>1 DEF Only, Fields, ChipFields
  <2>4. CASE SlowMode(cul)
    <3>1. SlowMode(cul')
      BY <2>1, <2>2, <2>3, <2>4 DEF SlowMode, Neither
    <3> QED BY <2>1, <2>4, <3>1, ModeIs DEF Kept
  <2>5. CASE OffMode(cul)
    <3>1. OffMode(cul')
      BY <2>1, <2>2, <2>3, <2>5 DEF OffMode, Neither
    <3> QED BY <2>1, <2>5, <3>1, ModeIs DEF Kept
  <2> QED BY <1>3, <2>4, <2>5
<1> QED BY <1>2, <1>3, ModeIs DEF Kept

LEMMA MoritzSendKeeps == ASSUME Inv, MoritzSend PROVE Kept({"moritz"})
<1>0. Stick(cul) /\ cul.credit \in 0..MaxCredit
  BY DEF Inv, Kind, Protocols
<1>1. PICK clear \in BOOLEAN, sum \in {LongSum, ShortSum} : cul' = moritz_sendraw(cul, sum, clear)
  BY DEF MoritzSend, Command, Do
<1>2. CASE MoritzMode(cul)
  <2>1. /\ Only(cul, cul', ChipFields \cup {"credit", "stray", "moritz_on"})
        /\ cul'.moritz_on /\ cul'.cfg = "moritz" /\ (cul'.stray => cul.stray)
        /\ cul'.marc = "RX" \/ cul'.marc = cul.marc
    BY <1>0, <1>1, <1>2, MoritzSendEffect DEF MoritzMode
  <2>2. cul'.restore = cul.restore /\ cul'.asksin_on = cul.asksin_on
    BY <2>1 DEF Only, Fields, ChipFields
  <2>3. NoOther(cul') <=> NoOther(cul)
    BY <2>1 DEF NoOther, Only, Fields, ChipFields
  <2>4. MoritzMode(cul')
    BY <1>2, <2>1, <2>2, <2>3 DEF MoritzMode
  <2> QED BY <1>2, <2>1, <2>4, ModeIs DEF Kept
<1> QED BY <1>2, ModeIs DEF Kept

LEMMA ItOffRestores == ASSUME Inv, ItOff, parked # "no" PROVE Mode(cul') = parked
<1> DEFINE d == LeaveOneShot(cul, "it")
<1>0. Stick(cul)
  BY DEF Inv, Kind
<1>1. /\ ~cul.asksin_on /\ ~cul.moritz_on /\ ~cul.rwe_on /\ ~cul.kopp_fc_rx_on
      /\ cul.zwave_on = "no" /\ cul.fastrf_on = 0
  BY DEF Inv, ParkedModes
<1>2. cul' = [d EXCEPT !.intertechno_on = FALSE] /\ Radio(cul, d)
  BY <1>0, LeaveEffect DEF ItOff, Command, Do
<1>3. CASE parked = "asksin"
  <2>1. cul.restore = {<<"it", "asksin">>}
    BY <1>3 DEF Inv, ParkedModes
  <2>2. d = AsksinBack(cul, "it")
    BY <2>1, UnparkLeft
  <2>3. /\ Stick(d) /\ Only(cul, d, ChipFields \cup {"asksin_on", "restore"})
        /\ d.cfg = "asksin" /\ d.asksin_on /\ d.restore = cul.restore \ {<<"it", "asksin">>}
    <3>1. /\ Stick(AsksinBack(cul, "it"))
          /\ Only(cul, AsksinBack(cul, "it"), ChipFields \cup {"asksin_on", "restore"})
          /\ AsksinBack(cul, "it").cfg = "asksin" /\ AsksinBack(cul, "it").asksin_on
          /\ AsksinBack(cul, "it").restore = cul.restore \ {<<"it", "asksin">>}
      BY ONLY <1>0, AsksinBackEffect
    <3> HIDE DEF d
    <3> QED BY <2>2, <3>1
  <2> HIDE DEF d
  <2>4. AsksinMode(cul')
    BY <1>1, <1>2, <2>1, <2>3 DEF AsksinMode, NoOther, Stick, Only, Fields, ChipFields
  <2> QED BY <1>3, <2>4, ModeIs
<1>4. CASE parked = "moritz"
  <2>1. cul.restore = {<<"it", "moritz">>}
    BY <1>4 DEF Inv, ParkedModes
  <2>2. d = MoritzBack(cul, "it")
    BY <2>1, UnparkLeft
  <2>3. /\ Stick(d) /\ Only(cul, d, ChipFields \cup {"moritz_on", "restore"})
        /\ d.cfg = "moritz" /\ d.moritz_on /\ d.marc = "RX"
        /\ d.restore = cul.restore \ {<<"it", "moritz">>}
    <3>1. /\ Stick(MoritzBack(cul, "it"))
          /\ Only(cul, MoritzBack(cul, "it"), ChipFields \cup {"moritz_on", "restore"})
          /\ MoritzBack(cul, "it").cfg = "moritz" /\ MoritzBack(cul, "it").moritz_on
          /\ MoritzBack(cul, "it").marc = "RX"
          /\ MoritzBack(cul, "it").restore = cul.restore \ {<<"it", "moritz">>}
      BY ONLY <1>0, MoritzBackEffect
    <3> HIDE DEF d
    <3> QED BY <2>2, <3>1
  <2> HIDE DEF d
  <2>4. MoritzMode(cul')
    BY <1>1, <1>2, <2>1, <2>3 DEF MoritzMode, NoOther, Stick, Only, Fields, ChipFields
  <2> QED BY <1>4, <2>4, ModeIs
<1>5. CASE parked \in {"slow", "off"}
  <2>1. cul.restore = {}
    BY <1>5 DEF Inv, ParkedModes
  <2>2. /\ Stick(d) /\ Only(cul, d, ChipFields \cup {"moritz_on"}) /\ d.cfg = "slow" /\ ~d.moritz_on
        /\ cul.tx_report => d.marc = "RX" /\ d.int
        /\ ~cul.tx_report => d.marc = "IDLE"
    BY <1>0, <2>1, LeaveEffect DEF Radio
  <2> HIDE DEF d
  <2>3. /\ Neither(cul') /\ cul'.cfg = "slow" /\ cul'.marc = d.marc /\ cul'.int = d.int
        /\ cul'.tx_report = cul.tx_report /\ cul'.cc_on = cul.cc_on
    BY <1>1, <1>2, <2>1, <2>2 DEF Neither, NoOther, Stick, Only, Fields, ChipFields
  <2>4. CASE parked = "slow"
    <3>1. cul.tx_report /\ cul.cc_on
      BY <2>4 DEF Inv, ParkedModes
    <3>2. SlowMode(cul')
      BY <2>2, <2>3, <3>1 DEF SlowMode
    <3> QED BY <2>4, <3>2, ModeIs
  <2>5. CASE parked = "off"
    <3>1. ~cul.tx_report
      BY <2>5 DEF Inv, ParkedModes
    <3>2. OffMode(cul')
      BY <2>2, <2>3, <3>1 DEF OffMode
    <3> QED BY <2>5, <3>2, ModeIs
  <2> QED BY <1>5, <2>4, <2>5
<1> QED BY <1>3, <1>4, <1>5 DEF Inv

(* A protocol that borrows the radio sends with its own registers and      *)
(* brings the receiver back: sendraw() itself, slow RF and Moritz; it_send *)
(* and somfy_rts_send() AskSin and Moritz; asksin_send() slow RF.  And     *)
(* "ix" brings back what "ir" parked, for any number of telegrams, packets *)
(* and overflows in between.  Not meant are telegrams so long that the     *)
(* watchdog resets.                                                        *)
THEOREM ModesTheorem == Spec => ModeComesBack
<1>1. Inv /\ [Next]_vars =>
        [/\ SlowSend(FALSE) => Kept({"off", "slow", "moritz"})
         /\ ItSend(FALSE) \/ SomfySend(FALSE) => Kept({"off", "slow", "asksin", "moritz"})
         /\ AsksinSend /\ cul.marc # "OVERFLOW" => Kept({"off", "slow", "asksin"})
         /\ MoritzSend => Kept({"moritz"})
         /\ ItOff /\ parked # "no" => Mode(cul') = parked]_vars
  BY SlowSendKeeps, OneShotKeeps, AsksinSendKeeps, MoritzSendKeeps, ItOffRestores
<1> QED BY <1>1, Invariance, PTL DEF Spec, ModeComesBack
=============================================================================
