----------------------------- MODULE RadioModes -----------------------------
(***************************************************************************)
(* One CC1101 and the radio protocols of culfw that share it: slow RF      *)
(* (rf_send.c, rf_receive.c), AskSin (rf_asksin.c), Moritz (rf_moritz.c),  *)
(* RWE (rf_rwe.c), fast RF (fastrf.c), Z-Wave (rf_zwave.c), InterTechno    *)
(* (intertechno.c), Somfy (somfy_rts.c) and Kopp (kopp-fc.c), over the     *)
(* driver cc1100.c.  Commands of the host arrive in any order; main()      *)
(* (espCUL.c) calls a task per protocol in turn.                           *)
(*                                                                         *)
(* A state c of the stick is a record: the flags of the protocols, the     *)
(* send credit and what else the firmware keeps in RAM; of the chip, whose *)
(* registers are loaded (cfg), MARCSTATE (marc), packets in its receive    *)
(* FIFO, the level of GDO2 and whether its edges interrupt (EIMSK).        *)
(* Functions of the source are operators from a state to the next one.     *)
(***************************************************************************)
EXTENDS Integers, FiniteSets

CONSTANTS
  Telegram,     \* slow RF: what (nbyte+2)*repeat + addH + addL comes to
  Int8,         \* an int8_t holds -Int8..Int8-1
  Word,         \* a uint16_t holds 0..Word-1
  MaxCredit,    \* MAX_CREDIT, in units of 10 ms
  LongSum,      \* of a Moritz message with its long preamble
  ShortSum,     \* of an acknowledgement
  FifoPackets,  \* packets the receive FIFO holds
  MaxCommands,  \* bound: commands of the host
  MaxFaults     \* bound: failures of the PLL

ASSUME CreditAssumption ==
  /\ Telegram \subseteq Nat /\ {LongSum, ShortSum, Word} \subseteq Nat
  /\ Int8 \in Nat \ {0} /\ MaxCredit \in 0..Word - Int8 - 1 /\ Int8 <= Word
ASSUME BoundAssumption == {FifoPackets, MaxCommands, MaxFaults} \subseteq Nat

VARIABLES
  cul,       \* the stick
  parked,    \* history: the mode in which the host sent "ir"
  commands,  \* left
  faults     \* left

vars == <<cul, parked, commands, faults>>

Ook == {"slow", "it", "somfy"}          \* asynchronous serial data on GDO2
RxOffIdle == {"asksin", "rwe", "zwave"} \* MCSM1: idle behind a packet received
RxOffRx == {"moritz", "fastrf", "kopp"} \*        or ready for the next one
TxOffRx == {"asksin", "moritz", "fastrf"} \*      listening behind a packet sent
GdoThreshold == {"zwave", "kopp"}       \* GDO2 high until the FIFO is empty
Packet == RxOffIdle \cup RxOffRx
Cfg == Ook \cup Packet \cup {"reset"}

(* main() up to its loop, with tx_init(); the chip keeps what it has.      *)
(* busy: FastRF_Task() is behind its reading of the FIFO.  zMsgAck:        *)
(* zwave_sMsg asks for an acknowledgement.  due: ticks > zwave_sStamp.     *)
(* History: stray, the last telegram went out with registers of another    *)
(* protocol; tries and acked, of the message in zwave_sMsg.                *)
Ram ==
  [cc_on |-> FALSE, asksin_on |-> FALSE, moritz_on |-> FALSE, rwe_on |-> FALSE,
   zwave_on |-> "no", fastrf_on |-> 0, kopp_fc_rx_on |-> FALSE, intertechno_on |-> FALSE,
   tx_report |-> FALSE, restore |-> {}, autoAck |-> {}, credit |-> MaxCredit \div 2,
   busy |-> FALSE, ackState |-> 0, zMsgAck |-> FALSE, due |-> FALSE,
   stray |-> FALSE, tries |-> 0, acked |-> FALSE,
   cfg |-> "reset", marc |-> "IDLE", int |-> FALSE, fifo |-> 0, gdo2 |-> FALSE]
Boot(c) == [Ram EXCEPT !.cfg = c.cfg, !.marc = c.marc, !.fifo = c.fifo, !.gdo2 = c.gdo2]

-----------------------------------------------------------------------------
(* cc1100.c and the strobes of the chip.                                   *)

(* GDO2 gets a level.  Either edge is an ISR(CC1100_INTVECT), whoever has  *)
(* read or flushed the FIFO; unless slow RF is the receiver, fast RF is    *)
(* told.  (One in a masked interrupt is not remembered: fast RF would read *)
(* an empty FIFO.)                                                         *)
Edge(c, level) ==
  [c EXCEPT !.gdo2 = level,
            !.fastrf_on = IF c.int /\ level # c.gdo2 /\ @ > 0 THEN 2 ELSE @]

SIDLE(c) == [c EXCEPT !.marc = "IDLE"]
(* From an overflow only SFRX leads out.                                   *)
SRX(c) == [c EXCEPT !.marc = IF @ \in {"IDLE", "TX"} THEN "RX" ELSE @]
SFRX(c) ==
  [Edge(c, c.cfg \in Ook /\ c.gdo2) EXCEPT
     !.fifo = 0, !.marc = IF @ = "OVERFLOW" THEN "IDLE" ELSE @]

(* SRES, the registers of cfg, SCAL; the interrupt is off meanwhile.       *)
Load(c, cfg) ==
  [c EXCEPT !.cfg = cfg, !.marc = "IDLE", !.fifo = 0, !.gdo2 = FALSE, !.int = FALSE]

ccInitChip(c, cfg) == Load([c EXCEPT !.moritz_on = FALSE], cfg)
ccTX(c) == [c EXCEPT !.int = FALSE, !.marc = "TX"]
ccRX(c) == [SRX(c) EXCEPT !.int = TRUE]
ccsetpa(c) == ccInitChip(c, "slow")
ccreg(c) == ccRX(c)

set_ccoff(c) == [SIDLE(c) EXCEPT !.cc_on = FALSE, !.asksin_on = FALSE, !.moritz_on = FALSE]
set_ccon(c) ==
  [ccInitChip(c, "slow") EXCEPT !.cc_on = TRUE, !.asksin_on = FALSE, !.moritz_on = FALSE]
set_txrestore(c) == IF c.tx_report THEN ccRX(set_ccon(c)) ELSE set_ccoff(c)
set_txreport(c, on) == set_txrestore([c EXCEPT !.tx_report = on])

(* Protocol p sends in TX: bits on the data line, or a packet through the  *)
(* FIFO, behind which the chip leaves TX unless its data are asynchronous. *)
SendBits(c, p) == [c EXCEPT !.stray = c.cfg # p]
SendPacket(c, p) ==
  [c EXCEPT !.stray = c.cfg # p,
            !.marc = IF c.cfg \in Ook THEN "TX" ELSE IF c.cfg \in TxOffRx THEN "RX" ELSE "IDLE"]

(* A loop that waits for the end of TX: if it never comes, the watchdog    *)
(* resets the processor.                                                   *)
TxEnded(c, Then(_)) == IF c.marc = "TX" THEN Boot(c) ELSE Then(c)

(* The first packet of the FIFO is read.                                   *)
ReadFifo(c) ==
  LET left == IF c.fifo = 0 THEN 0 ELSE c.fifo - 1
      level == (c.cfg \in Ook /\ c.gdo2) \/ (c.cfg \in GdoThreshold /\ left > 0)
  IN [Edge(c, level) EXCEPT !.fifo = left]

-----------------------------------------------------------------------------
(* The protocols.                                                          *)

rf_asksin_init(c) == SRX(Load(c, "asksin"))
rf_moritz_init(c) == [SRX(Load(c, "moritz")) EXCEPT !.moritz_on = TRUE]
rf_rwe_init(c) == Load(c, "rwe")
kopp_fc_init(c) == [Load(c, "kopp") EXCEPT !.cc_on = TRUE]
zccRX(c) == [ccRX(c) EXCEPT !.int = FALSE]
rf_zwave_init(c) == zccRX(Load(c, "zwave"))

(* Whoever sends bits blocks main(), which feeds the watchdog once per     *)
(* second.  The watchdog resets the processor, with the chip in TX, when a *)
(* telegram is long: slow RF repeats it 256 times for a repeat of 0        *)
(* (do ... while(--repeat > 0)), or more often than its sum, squeezed into *)
(* an int8_t, tells; and where sync, it_repetition or                      *)
(* somfy_rts_repetition passes 127, the int8_t that counts never gets      *)
(* there, or not in time.                                                  *)

(* sendraw().  The credit needed is an int8_t, compared as a uint16_t.     *)
(* set_txreport("21") skips the 2, and a single digit is no number: it     *)
(* leaves tx_report alone.                                                 *)
SumOf(t) == ((t + Int8) % (2 * Int8)) - Int8
SendSlow(c, long) ==
  LET unlocked == IF c.moritz_on THEN set_txrestore([c EXCEPT !.moritz_on = FALSE]) ELSE c
      on == IF unlocked.cc_on THEN unlocked ELSE set_ccon(unlocked)
      sent == SendBits(ccTX(on), "slow")
      back == IF sent.tx_report THEN ccRX(sent) ELSE SIDLE(sent)
  IN IF long THEN Boot(sent) ELSE IF c.moritz_on THEN rf_moritz_init(back) ELSE back
sendrawUnpaid(c, t, long) ==  \* mutant: a sum that is negative is compared as such
  IF c.credit < SumOf(t) THEN c ELSE SendSlow([c EXCEPT !.credit = @ - SumOf(t)], long)
sendraw(c, t, long) ==
  IF c.credit < SumOf(t) % Word THEN c ELSE SendSlow([c EXCEPT !.credit = @ - SumOf(t)], long)

(* it_send() and somfy_rts_send(): p is "it" or "somfy", on whether the    *)
(* chip is tuned to p already.                                             *)
ParkAsksinOnly(c, p) ==  \* mutant: Moritz is switched off for good
  [Load(c, p) EXCEPT !.cc_on = TRUE, !.asksin_on = FALSE, !.moritz_on = FALSE,
                     !.restore = @ \cup IF c.asksin_on THEN {<<p, "asksin">>} ELSE {}]
Park(c, p) ==
  [Load(c, p) EXCEPT !.cc_on = TRUE, !.asksin_on = FALSE, !.moritz_on = FALSE,
                     !.restore = @ \cup (IF c.asksin_on THEN {<<p, "asksin">>} ELSE {})
                                   \cup (IF c.moritz_on THEN {<<p, "moritz">>} ELSE {})]

(* The mode that was parked for p comes back; if none was, Else(c).        *)
Unpark(c, p, Else(_)) ==
  IF <<p, "asksin">> \in c.restore
    THEN ccRX([rf_asksin_init(c) EXCEPT !.restore = @ \ {<<p, "asksin">>}, !.asksin_on = TRUE])
  ELSE IF <<p, "moritz">> \in c.restore
    THEN rf_moritz_init([c EXCEPT !.restore = @ \ {<<p, "moritz">>}])
  ELSE Else(c)

Listen(c) == IF c.tx_report THEN ccRX(c) ELSE SIDLE(c)

SendOneShot(c, p, on, long) ==
  LET tuned == IF on THEN c ELSE Park(c, p)
      sent == SendBits(ccTX(SFRX(SIDLE(tuned))), p)
  IN IF long THEN Boot(sent) ELSE IF on THEN Listen(sent) ELSE Unpark(sent, p, set_txrestore)

LeaveOneShot(c, p) == Unpark(c, p, LAMBDA d : Listen(ccInitChip(d, "slow")))

(* asksin_send(), with the channel clear in time or not.  STX leads        *)
(* nowhere from an overflow, nor does SRX, which is tried without end.     *)
asksin_send(c, clear) ==
  LET tuned == IF c.asksin_on THEN c ELSE rf_asksin_init(c)
      done(d) == IF ~c.asksin_on THEN set_txrestore(d)
                 ELSE IF d.marc = "OVERFLOW" THEN Boot(d) ELSE SRX(d)
  IN IF clear /\ tuned.marc # "OVERFLOW" THEN TxEnded(SendPacket(tuned, "asksin"), done)
     ELSE done(tuned)

(* moritz_sendraw().  It is in Moritz mode at its end, whatever was before.*)
moritz_sendraw(c, sum, clear) ==
  IF c.credit < sum THEN c
  ELSE LET paid == [c EXCEPT !.credit = @ - sum]
           tuned == IF c.moritz_on THEN paid ELSE rf_moritz_init(paid)
           sent == SendPacket(ccTX(tuned), "moritz")
       IN IF tuned.marc = "RX" /\ clear /\ sent.marc = "RX" THEN sent
          ELSE IF tuned.marc = "RX" /\ clear THEN rf_moritz_init(sent)
          ELSE rf_moritz_init(tuned)

fastrf_send(c) == TxEnded(SendPacket(ccTX(c), "fastrf"), ccRX)

(* zwave_doSend() of a message that asks for an acknowledgement or not.    *)
CountTry4(c) ==  \* mutant: gives up one transmission too late
  [c EXCEPT !.ackState = IF @ + 1 > 3 THEN 0 ELSE @ + 1, !.due = FALSE]
CountTry(c) == [c EXCEPT !.ackState = IF @ + 1 >= 3 THEN 0 ELSE @ + 1, !.due = FALSE]
zwave_doSend(c, ackReq) ==
  TxEnded(SendPacket(ccTX(c), "zwave"), LAMBDA d : IF ackReq THEN CountTry(zccRX(d)) ELSE zccRX(d))

(* kopp_fc_func(): 13 blocks, thrice for a long key; or a wrong length.    *)
kopp_fc_transmit(c, good) ==
  LET sent == IF good THEN SendPacket(ccTX(kopp_fc_init(c)), "kopp") ELSE c
  IN IF c.kopp_fc_rx_on THEN ccRX(sent) ELSE sent

-----------------------------------------------------------------------------
(* The commands, by their letters.                                         *)

Do(c) == ~cul.busy /\ commands > 0 /\ commands' = commands - 1 /\ cul' = c /\ UNCHANGED faults
Command(c) == Do(c) /\ parked' = "no"

X21 == Command(set_txreport(cul, TRUE))
X00 == Command(set_txreport(cul, FALSE))
SetPa == Command(ccsetpa(cul))
WriteRegister == Command(ccreg(cul))
Reboot == Command(Boot(cul))

(* F, G, h, K, M, T, U and the timers of FHT.                              *)
SlowSend(long) == \E t \in Telegram : Command(sendraw(cul, t, long))

AsksinOn == Command([rf_asksin_init(cul) EXCEPT !.asksin_on = TRUE])
AsksinOff == Command([cul EXCEPT !.asksin_on = FALSE])
AsksinSend == \E clear \in BOOLEAN : Command(asksin_send(cul, clear))

MoritzOn == Command(rf_moritz_init(cul))
MoritzOff == Command([cul EXCEPT !.moritz_on = FALSE])
MoritzSend ==
  \E clear \in BOOLEAN, sum \in {LongSum, ShortSum} : Command(moritz_sendraw(cul, sum, clear))
(* Za and Zw: the address of a device, or of a wall thermostat to fake.    *)
MoritzAutoAck == \E who \in {"device", "thermostat"} : Command([cul EXCEPT !.autoAck = @ \cup {who}])

RweOn == Command([rf_rwe_init(cul) EXCEPT !.rwe_on = TRUE])
RweOff == Command([cul EXCEPT !.rwe_on = FALSE])

FastRfOn == Command([ccRX(ccInitChip(cul, "fastrf")) EXCEPT !.fastrf_on = 1])
FastRfOff == Command([cul EXCEPT !.fastrf_on = 0])
FastRfSend == Command(fastrf_send(cul))

ZwaveOn == \E m \in {"r", "m"} : Command(rf_zwave_init([cul EXCEPT !.zwave_on = m]))
ZwaveOff == Command([cul EXCEPT !.zwave_on = "no"])
ZwaveSend ==
  \E ackReq \in BOOLEAN :
    Command(zwave_doSend([cul EXCEPT !.ackState = 0, !.zMsgAck = ackReq, !.tries = 1, !.acked = FALSE],
                         ackReq))

KoppTransmit == \E good \in BOOLEAN : Command(kopp_fc_transmit(cul, good))
KoppOn == Command([ccRX(kopp_fc_init(cul)) EXCEPT !.kopp_fc_rx_on = TRUE])
KoppOff == Command([SIDLE(cul) EXCEPT !.kopp_fc_rx_on = FALSE])

SomfySend(long) == Command(SendOneShot(cul, "somfy", FALSE, long))
SomfyOff == Command(LeaveOneShot(cul, "somfy"))

(* The mode of a stick that is in one mode only.                           *)
On(c) ==
  {m \in {"asksin", "moritz", "rwe", "zwave", "fastrf", "kopp", "it"} :
     CASE m = "asksin" -> c.asksin_on [] m = "moritz" -> c.moritz_on [] m = "rwe" -> c.rwe_on
       [] m = "zwave" -> c.zwave_on # "no" [] m = "fastrf" -> c.fastrf_on > 0
       [] m = "kopp" -> c.kopp_fc_rx_on [] m = "it" -> c.intertechno_on}
Mode(c) ==
  IF c.restore # {} THEN "mixed"
  ELSE IF On(c) = {"asksin"} /\ c.cfg = "asksin" THEN "asksin"
  ELSE IF On(c) = {"moritz"} /\ c.cfg = "moritz" /\ c.marc # "IDLE" THEN "moritz"
  ELSE IF On(c) = {} /\ c.tx_report /\ c.cc_on /\ c.cfg = "slow" /\ c.marc = "RX" /\ c.int
    THEN "slow"
  ELSE IF On(c) = {} /\ ~c.tx_report /\ (c.cc_on => c.cfg = "slow") /\ c.marc = "IDLE" THEN "off"
  ELSE "mixed"

ItSend(long) ==
  /\ Do(SendOneShot(cul, "it", cul.intertechno_on, long))
  /\ parked' = IF long THEN "no" ELSE parked
ItOn ==
  /\ Do([Park(cul, "it") EXCEPT !.intertechno_on = TRUE])
  /\ parked' = IF Mode(cul) = "mixed" THEN "no" ELSE Mode(cul)
ItOff == Command([LeaveOneShot(cul, "it") EXCEPT !.intertechno_on = FALSE])

Host ==
  \/ X21 \/ X00 \/ SetPa \/ WriteRegister \/ Reboot
  \/ AsksinOn \/ AsksinOff \/ AsksinSend
  \/ MoritzOn \/ MoritzOff \/ MoritzSend \/ MoritzAutoAck
  \/ RweOn \/ RweOff \/ FastRfOn \/ FastRfOff \/ FastRfSend
  \/ ZwaveOn \/ ZwaveOff \/ ZwaveSend \/ KoppTransmit \/ KoppOn \/ KoppOff
  \/ SomfyOff \/ ItOn \/ ItOff
  \/ \E long \in BOOLEAN : SlowSend(long) \/ SomfySend(long) \/ ItSend(long)

-----------------------------------------------------------------------------
(* The tasks of main().                                                    *)

Run(c) == ~cul.busy /\ cul' = c /\ UNCHANGED <<parked, commands, faults>>

Reopen(c) == SRX(SIDLE(SFRX(c)))

(* cc1101_RX_check_PLL_wait_task(): recalibrate until the PLL locks.       *)
Recalibrate ==
  /\ ~cul.busy /\ cul.asksin_on /\ ~cul.gdo2 /\ cul.marc = "UNLOCKED"
  /\ \/ cul' = [cul EXCEPT !.marc = "RX"] /\ UNCHANGED faults
     \/ faults > 0 /\ faults' = faults - 1 /\ UNCHANGED cul
  /\ UNCHANGED <<parked, commands>>

(* A packet of a length it cannot have; any other is followed by SRX until *)
(* the chip listens.                                                       *)
AsksinReads ==
  /\ cul.asksin_on /\ cul.gdo2
  /\ \/ Run(Reopen(cul))
     \/ Run(IF cul.marc = "OVERFLOW" THEN Boot(cul) ELSE SRX(ReadFifo(cul)))
AsksinWakes ==
  /\ cul.asksin_on /\ ~cul.gdo2
  /\ \/ cul.marc = "OVERFLOW" /\ Run(Reopen(cul))
     \/ cul.marc = "IDLE" /\ Run(SRX(cul))
AsksinTask == AsksinReads \/ AsksinWakes \/ Recalibrate

(* Who of autoAck is meant by the packet gets it acknowledged.             *)
MoritzReads ==
  /\ cul.moritz_on /\ cul.gdo2
  /\ \E meant \in SUBSET cul.autoAck, clear \in BOOLEAN :
       LET ack(c) == moritz_sendraw(c, ShortSum, clear)
           read == ReadFifo(cul)
       IN Run(IF meant = {} THEN read ELSE IF Cardinality(meant) = 1 THEN ack(read) ELSE ack(ack(read)))
MoritzTask ==
  \/ MoritzReads
  \/ cul.moritz_on /\ ~cul.gdo2 /\ cul.marc = "OVERFLOW" /\ Run(Reopen(cul))

RweTaskAwake ==  \* mutant: a chip that went idle behind noise is not woken up
  cul.rwe_on /\ (cul.gdo2 \/ cul.marc = "OVERFLOW") /\ Run(Reopen(cul))
RweTask == cul.rwe_on /\ (cul.gdo2 \/ cul.marc \in {"IDLE", "OVERFLOW"}) /\ Run(Reopen(cul))

(* An interrupt between the two halves of the task is forgotten.           *)
FastRfReads ==
  cul.fastrf_on = 2 /\ Run([ReadFifo(cul) EXCEPT !.busy = TRUE])
FastRfHasRead ==
  /\ cul.busy
  /\ cul' = [cul EXCEPT !.busy = FALSE, !.fastrf_on = 1]
  /\ UNCHANGED <<parked, commands, faults>>
FastRfWakes == cul.fastrf_on = 1 /\ cul.marc = "OVERFLOW" /\ Run(ccRX(SFRX(cul)))
FastRfTask == FastRfReads \/ FastRfHasRead \/ FastRfWakes

KoppTask == cul.kopp_fc_rx_on /\ cul.gdo2 /\ Run(ReadFifo(cul))

ZwaveResends ==
  /\ cul.zwave_on # "no" /\ cul.ackState > 0 /\ cul.due
  /\ Run(zwave_doSend([cul EXCEPT !.tries = @ + 1], cul.zMsgAck))
(* The packet is too long or too short, or it is not ours; one that is may *)
(* acknowledge, or ask for an acknowledgement, or both.                    *)
ZwaveReads ==
  /\ cul.zwave_on # "no" /\ ~(cul.ackState > 0 /\ cul.due) /\ cul.gdo2
  /\ \/ Run(rf_zwave_init(cul))
     \/ cul.marc # "OVERFLOW" /\ Run(zccRX(SFRX(cul)))
     \/ /\ cul.marc # "OVERFLOW" /\ cul.zwave_on = "r" /\ cul.fifo > 0
        /\ \E acks, asks \in BOOLEAN :
             LET read == IF acks /\ cul.ackState > 0
                         THEN [SFRX(cul) EXCEPT !.ackState = 0, !.acked = TRUE] ELSE SFRX(cul)
             IN Run(IF asks THEN zwave_doSend(read, FALSE) ELSE zccRX(read))
ZwaveTask == ZwaveResends \/ ZwaveReads

(* Minute_Task(), once per second.                                         *)
CreditGrows == cul.credit < MaxCredit /\ Run([cul EXCEPT !.credit = @ + 1])

Task ==
  AsksinTask \/ MoritzTask \/ RweTask \/ FastRfTask \/ KoppTask \/ ZwaveTask \/ CreditGrows

-----------------------------------------------------------------------------
(* Time and air.                                                           *)

TimePasses ==
  /\ cul.ackState > 0 /\ ~cul.due
  /\ cul' = [cul EXCEPT !.due = TRUE] /\ UNCHANGED <<parked, commands, faults>>

Chip(c) == cul' = c /\ UNCHANGED <<parked, commands, faults>>

PacketArrives ==
  /\ cul.marc = "RX" /\ cul.cfg \in Packet /\ cul.fifo < FifoPackets
  /\ Chip([Edge(cul, TRUE) EXCEPT
             !.fifo = @ + 1, !.marc = IF cul.cfg \in RxOffIdle THEN "IDLE" ELSE @])
FifoOverflows ==
  /\ cul.marc = "RX" /\ cul.cfg \in Packet
  /\ Chip([Edge(cul, cul.gdo2 \/ cul.cfg \in GdoThreshold) EXCEPT !.marc = "OVERFLOW"])
(* A packet with a wrong checksum is flushed; the chip is behind it.       *)
PacketFlushed ==
  cul.marc = "RX" /\ cul.cfg \in {"asksin", "rwe"} /\ Chip(SIDLE(cul))
DataLineChanges == cul.marc = "RX" /\ cul.cfg \in Ook /\ Chip(Edge(cul, ~cul.gdo2))
PllUnlocks ==
  /\ cul.marc = "RX" /\ cul.cfg = "asksin" /\ faults > 0
  /\ cul' = [cul EXCEPT !.marc = "UNLOCKED"] /\ faults' = faults - 1
  /\ UNCHANGED <<parked, commands>>

Air == PacketArrives \/ FifoOverflows \/ PacketFlushed \/ DataLineChanges \/ PllUnlocks

(* Init: a chip just powered up.                                           *)
Init == cul = Ram /\ parked = "no" /\ commands = MaxCommands /\ faults = MaxFaults
Next == Host \/ Task \/ TimePasses \/ Air

(* Every turn of the loop calls every task.                                *)
Fairness ==
  /\ WF_vars(AsksinTask) /\ WF_vars(MoritzTask) /\ WF_vars(RweTask)
  /\ WF_vars(FastRfTask) /\ WF_vars(KoppTask) /\ WF_vars(ZwaveTask)

Spec == Init /\ [][Next]_vars /\ Fairness

-----------------------------------------------------------------------------
(* Properties.                                                             *)

(* Types; the send credit never wraps, though the sum is squeezed into an  *)
(* int8_t and may come out negative: sendraw() refuses such a message.     *)
TypeOK ==
  /\ cul.credit \in 0..MaxCredit
  /\ cul.zwave_on \in {"no", "r", "m"} /\ cul.fastrf_on \in 0..2
  /\ cul.restore \subseteq {"it", "somfy"} \X {"asksin", "moritz"}
  /\ cul.cfg \in Cfg /\ cul.marc \in {"IDLE", "RX", "TX", "OVERFLOW", "UNLOCKED"}
  /\ cul.fifo \in 0..FifoPackets
  /\ cul.busy => cul.fastrf_on > 0
  /\ parked \in {"no", "off", "slow", "asksin", "moritz"}

Kept(modes) ==
  Mode(cul) \in modes => Mode(cul') = Mode(cul) /\ (cul'.stray => cul.stray)

(* Who looks after whom.  A telegram of another protocol goes out with     *)
(* that protocol's registers and leaves the receiver as it was: slow RF    *)
(* restores itself and Moritz, InterTechno and Somfy also AskSin, AskSin   *)
(* slow RF.  And a receiver switched off by "ir" comes back by "ix",       *)
(* however many InterTechno telegrams were sent meanwhile.  (Two cases are *)
(* excepted, in which the watchdog resets and every receiver is off: a     *)
(* long telegram, and "As" with the receiver in overflow.)                 *)
ModeComesBack ==
  [][/\ SlowSend(FALSE) => Kept({"off", "slow", "moritz"})
     /\ ItSend(FALSE) \/ SomfySend(FALSE) => Kept({"off", "slow", "asksin", "moritz"})
     /\ AsksinSend /\ cul.marc # "OVERFLOW" => Kept({"off", "slow", "asksin"})
     /\ MoritzSend => Kept({"moritz"})
     /\ ItOff /\ parked # "no" => Mode(cul') = parked]_vars

(* A receiver that got stuck: behind an overflow, a packet flushed, or     *)
(* without a PLL.                                                          *)
Deaf(m) ==
  /\ m \in On(cul) /\ cul.cfg = m
  /\ \/ cul.marc = "OVERFLOW"
     \/ m \in {"asksin", "rwe"} /\ cul.marc \in {"IDLE", "UNLOCKED"}
     \/ m = "zwave" /\ cul.marc = "IDLE"
  /\ m = "zwave" => cul.gdo2

(* No receiver stays deaf: the tasks of AskSin, RWE, Moritz, fast RF and   *)
(* Z-Wave find out and listen again, even when other protocols are         *)
(* switched on at the same time.  (kopp_fc_task() does not look, and       *)
(* rf_zwave_task() not before GDO2 is high: if another protocol's task has *)
(* emptied the FIFO of an overflow, Z-Wave stays deaf.)                    *)
HearsAgain == \A m \in {"asksin", "rwe", "moritz", "fastrf", "zwave"} : []<>~Deaf(m)

(* A Z-Wave message is sent three times at most, and not again once it was *)
(* acknowledged, whatever is sent, received or switched in between.        *)
ZwaveRetries ==
  /\ cul.tries <= 3
  /\ cul.acked => cul.ackState = 0
=============================================================================
