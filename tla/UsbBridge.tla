----------------------------- MODULE UsbBridge -----------------------------
(***************************************************************************)
(* The foreground loop of the TUL bridge firmware,                         *)
(* Simple/USBSerial/src/main.ino: one task that serves the web server and  *)
(* the MQTT client, copies bytes from USB to the KNX transceiver, copies   *)
(* bytes from the KNX transceiver to USB and switches the activity LED.    *)
(*                                                                         *)
(* Time is counted in byte times of the KNX UART (11 bits at 38400 baud).  *)
(* It passes only while the task is inside a call that takes long or       *)
(* blocks; KNX delivers at most one byte per byte time.  The two receive   *)
(* queues (UART driver, USB CDC) are filled by interrupts and drop what    *)
(* they cannot hold.                                                       *)
(*                                                                         *)
(* The serial monitor that logByte feeds is a component of its own that    *)
(* the bridge never reads, and is left out.                                *)
(***************************************************************************)
EXTENDS Naturals, Sequences

CONSTANTS
  RxCap,      \* bytes a receive queue holds (256 in the drivers)
  TxCap,      \* bytes the UART's transmit FIFO holds (128)
  WebStall,   \* longest call of webManager.loop(), in byte times
  MqttStall,  \* longest call of mqttManager.loop()
  UsbBlock,   \* longest Serial.write(): the CDC waits for a host that lags
  LedHold,    \* LED_ACTIVITY_MS in byte times
  Modulus,    \* 2^32, the range of the traffic counters
  MaxBytes,   \* bound: bytes each peer sends
  Endless     \* TRUE: peers that never stop; the histories are then left out

ASSUME RxCapAssumption == RxCap \in Nat \ {0}
ASSUME TxCapAssumption == TxCap \in Nat
ASSUME StallAssumption == WebStall \in Nat /\ MqttStall \in Nat /\ UsbBlock \in Nat
ASSUME LedHoldAssumption == LedHold \in Nat
ASSUME ModulusAssumption == Modulus \in Nat \ {0}
ASSUME MaxBytesAssumption == MaxBytes \in Nat /\ Endless \in BOOLEAN

Dir == {"toKnx", "toUsb"}

VARIABLES
  pc,         \* the part of loop() the task is in
  stall,      \* byte times until the call in progress returns
  slot,       \* how many KNX bytes may still arrive in this byte time
  queue,      \* queue[d]: received and not yet read, by label
  txFifo,     \* bytes the UART still has to send, one more while a write waits
  usbRx, usbTx, knxRx, knxTx,   \* the traffic counters
  activity,   \* the local of that name in loop()
  ledActive,
  quiet,      \* byte times since lastActivity, up to LedHold
  sent,       \* history: bytes the peer of direction d has sent
  last,       \* history: label of the byte delivered last
  delivered,  \* history: bytes handed to the other side
  overrun,    \* history: bytes a full receive queue has dropped
  dropped,    \* history: bytes Serial.write() has dropped
  away        \* history: byte times since the UART was last seen empty, up to RxCap

taskVars == <<pc, stall, activity>>
counters == <<usbRx, usbTx, knxRx, knxTx>>
ledVars == <<ledActive, quiet>>
history == <<sent, last, delivered, overrun, dropped>>
vars == <<taskVars, slot, queue, txFifo, counters, ledVars, history, away>>

Init ==
  /\ pc = "web" /\ stall = 0 /\ activity = FALSE
  /\ slot = 1
  /\ queue = [d \in Dir |-> <<>>]
  /\ txFifo = 0
  /\ usbRx = 0 /\ usbTx = 0 /\ knxRx = 0 /\ knxTx = 0
  /\ ledActive = FALSE /\ quiet = 0
  /\ sent = [d \in Dir |-> 0]
  /\ last = [d \in Dir |-> 0]
  /\ delivered = [d \in Dir |-> 0]
  /\ overrun = [d \in Dir |-> 0]
  /\ dropped = [d \in Dir |-> 0]
  /\ away = 0

-----------------------------------------------------------------------------
(* The environment: time, the KNX bus and the USB host.                    *)

(* One byte time passes inside the call the task is in; the UART sends one *)
(* byte of its transmit FIFO.                                              *)
Tick ==
  /\ stall > 0
  /\ stall' = stall - 1
  /\ slot' = 1
  /\ txFifo' = IF txFifo > 0 THEN txFifo - 1 ELSE 0
  /\ quiet' = IF quiet < LedHold THEN quiet + 1 ELSE quiet
  /\ away' = IF away < RxCap THEN away + 1 ELSE away
  /\ UNCHANGED <<pc, activity, queue, counters, ledActive, history>>

(* A history counter of direction d goes up, unless histories are off.     *)
Count(h, d) == IF Endless THEN h ELSE [h EXCEPT ![d] = @ + 1]

(* The receive interrupt of a driver: a byte that finds its queue full is  *)
(* dropped.                                                                *)
Receive(d) ==
  /\ sent[d] < MaxBytes
  /\ sent' = Count(sent, d)
  /\ IF Len(queue[d]) < RxCap
     THEN /\ queue' = [queue EXCEPT ![d] = Append(@, sent'[d])]
          /\ UNCHANGED overrun
     ELSE /\ overrun' = Count(overrun, d)
          /\ UNCHANGED queue
  /\ UNCHANGED <<taskVars, txFifo, counters, ledVars, last, delivered, dropped, away>>

KnxSends ==
  /\ slot = 1
  /\ slot' = 0
  /\ Receive("toUsb")

HostSends ==
  /\ UNCHANGED slot
  /\ Receive("toKnx")

-----------------------------------------------------------------------------
(* The task.                                                               *)

Runs(label) == pc = label /\ stall = 0

(* counter++ of a uint32_t.  Mutant: a counter without end.                *)
UpBeyond(n) == n + 1
Up(n) == (n + 1) % Modulus

(* read() takes the oldest byte out of a queue; peek() would not.          *)
Peek(d) == UNCHANGED queue
Take(d) == queue' = [queue EXCEPT ![d] = Tail(@)]

(* A write to the UART waits one byte time when the transmit FIFO is full. *)
WriteWait == IF txFifo < TxCap THEN 0 ELSE 1

(* webManager.loop(): a request handler may run for long.                  *)
WebLoop ==
  /\ Runs("web")
  /\ pc' = "mqtt"
  /\ stall' \in 0 .. WebStall
  /\ UNCHANGED <<activity, slot, queue, txFifo, counters, ledVars, history, away>>

(* mqttManager.loop(): a connection attempt may run for long.              *)
MqttLoop ==
  /\ Runs("mqtt")
  /\ pc' = "usb"
  /\ stall' \in 0 .. MqttStall
  /\ activity' = FALSE
  /\ UNCHANGED <<slot, queue, txFifo, counters, ledVars, history, away>>

(* One turn of while (Serial.available() > 0)                              *)
UsbByte ==
  /\ Runs("usb")
  /\ queue["toKnx"] # <<>>
  /\ last' = [last EXCEPT !["toKnx"] = Head(queue["toKnx"])]
  /\ delivered' = Count(delivered, "toKnx")
  /\ Take("toKnx")
  /\ knxTx' = Up(knxTx)
  /\ usbRx' = Up(usbRx)
  /\ activity' = TRUE
  /\ txFifo' = txFifo + 1
  /\ stall' = WriteWait
  /\ UNCHANGED <<pc, slot, usbTx, knxRx, ledVars, sent, overrun, dropped, away>>

(* Mutant: the other direction is only served when this one was idle.      *)
UsbEmptyStarvesKnx ==
  /\ Runs("usb")
  /\ queue["toKnx"] = <<>>
  /\ pc' = "led"
  /\ UNCHANGED <<stall, activity, slot, queue, txFifo, counters, ledVars, history, away>>

UsbEmpty ==
  /\ Runs("usb")
  /\ queue["toKnx"] = <<>>
  /\ pc' = "knx"
  /\ UNCHANGED <<stall, activity, slot, queue, txFifo, counters, ledVars, history, away>>

(* One turn of while (Transceiver.available() > 0).  The result of         *)
(* Serial.write() is ignored: a host that is gone costs the byte.          *)
KnxByte(accepted) ==
  /\ Runs("knx")
  /\ queue["toUsb"] # <<>>
  /\ IF accepted
     THEN /\ last' = [last EXCEPT !["toUsb"] = Head(queue["toUsb"])]
          /\ delivered' = Count(delivered, "toUsb")
          /\ UNCHANGED dropped
     ELSE /\ dropped' = Count(dropped, "toUsb")
          /\ UNCHANGED <<last, delivered>>
  /\ Take("toUsb")
  /\ knxRx' = Up(knxRx)
  /\ usbTx' = Up(usbTx)
  /\ activity' = TRUE
  /\ stall' \in 0 .. UsbBlock
  /\ UNCHANGED <<pc, slot, txFifo, usbRx, knxTx, ledVars, sent, overrun, away>>

(* Mutant: the loop is left with bytes still in the queue.                 *)
KnxLeftEarly ==
  /\ Runs("knx")
  /\ pc' = "led"
  /\ away' = 0
  /\ UNCHANGED <<stall, activity, slot, queue, txFifo, counters, ledVars, history>>

KnxEmpty ==
  /\ Runs("knx")
  /\ queue["toUsb"] = <<>>
  /\ pc' = "led"
  /\ away' = 0
  /\ UNCHANGED <<stall, activity, slot, queue, txFifo, counters, ledVars, history>>

Led ==
  /\ Runs("led")
  /\ pc' = "web"
  /\ IF activity
     THEN quiet' = 0 /\ ledActive' = TRUE
     ELSE /\ ledActive' = (ledActive /\ quiet < LedHold)
          /\ UNCHANGED quiet
  /\ UNCHANGED <<stall, activity, slot, queue, txFifo, counters, history, away>>

Task ==
  \/ WebLoop \/ MqttLoop
  \/ UsbByte \/ UsbEmpty
  \/ \E accepted \in BOOLEAN : KnxByte(accepted)
  \/ KnxEmpty \/ Led

Next == Tick \/ KnxSends \/ HostSends \/ Task

(* The task is never suspended for ever and every call returns; neither    *)
(* the bus nor the host has to send anything.                              *)
Fairness == WF_vars(Tick) /\ WF_vars(Task)

Spec == Init /\ [][Next]_vars

FairSpec == Spec /\ Fairness

-----------------------------------------------------------------------------
(* Properties.                                                             *)

Part == {"web", "mqtt", "usb", "knx", "led"}

TaskType ==
  /\ pc \in Part /\ stall \in Nat
  /\ slot \in 0 .. 1
  /\ away \in 0 .. RxCap

QueueType ==
  /\ queue \in [Dir -> Seq(Nat)]
  /\ \A d \in Dir : Len(queue[d]) <= RxCap

FifoType == txFifo \in 0 .. TxCap + 1

CounterType ==
  /\ usbRx \in 0 .. Modulus - 1 /\ usbTx \in 0 .. Modulus - 1
  /\ knxRx \in 0 .. Modulus - 1 /\ knxTx \in 0 .. Modulus - 1

FlagType == activity \in BOOLEAN /\ ledActive \in BOOLEAN

LedType == quiet \in 0 .. LedHold

HistoryType ==
  /\ sent \in [Dir -> Nat] /\ last \in [Dir -> Nat] /\ delivered \in [Dir -> Nat]
  /\ overrun \in [Dir -> Nat] /\ dropped \in [Dir -> Nat]

(* Every variable keeps its type; queues never exceed the driver's memory. *)
TypeOK == TaskType /\ QueueType /\ FifoType /\ CounterType /\ LedType /\ FlagType /\ HistoryType

Lost(d) == overrun[d] + dropped[d]

(* No byte vanishes between interrupt, queue and copy loop: each byte sent *)
(* is delivered, dropped by a queue or by a write, or still queued.        *)
Conservation ==
  \A d \in Dir : sent[d] = delivered[d] + Lost(d) + Len(queue[d])

(* A KNX byte is lost only by a task that stayed away from the UART for as *)
(* many byte times as the receive queue holds bytes: shorter web requests, *)
(* MQTT connects and USB bursts cost nothing.                              *)
LossNeedsLongAbsence ==
  [][overrun'["toUsb"] # overrun["toUsb"] => away = RxCap]_vars

(* Each direction is a LossyChannel: lossy, in order, without duplicates.   *)
ToKnx == INSTANCE LossyChannel WITH
  sent <- sent["toKnx"], last <- last["toKnx"],
  delivered <- delivered["toKnx"], lost <- Lost("toKnx")
ToUsb == INSTANCE LossyChannel WITH
  sent <- sent["toUsb"], last <- last["toUsb"],
  delivered <- delivered["toUsb"], lost <- Lost("toUsb")

(* The bridge implements a byte channel in both directions at once.        *)
BothChannels == ToKnx!Spec /\ ToUsb!Spec

(* Both queues are emptied again and again: whatever a peer sent before it *)
(* paused leaves the bridge.                                               *)
QueuesDrain == \A d \in Dir : queue[d] # <<>> ~> queue[d] = <<>>

(* The comment in the copy loop (main.ino:263): a continuous USB stream    *)
(* does not starve the rest of the firmware.                               *)
WebIsServed == []<>(pc = "web")
=============================================================================
