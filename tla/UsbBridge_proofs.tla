-------------------------- MODULE UsbBridge_proofs --------------------------
(***************************************************************************)
(* Proofs about the bridge loop for every queue size, every length of the  *)
(* web and MQTT calls and every number of bytes.                           *)
(***************************************************************************)
EXTENDS UsbBridge, TLAPS

LEMMA Directions == "toKnx" \in Dir /\ "toUsb" \in Dir /\ Dir = {"toKnx", "toUsb"}
BY DEF Dir

ConstantsOK ==
  /\ RxCap \in Nat \ {0} /\ TxCap \in Nat
  /\ WebStall \in Nat /\ MqttStall \in Nat /\ UsbBlock \in Nat
  /\ LedHold \in Nat /\ Modulus \in Nat \ {0} /\ MaxBytes \in Nat

LEMMA ConstantsAreOK == ConstantsOK
BY RxCapAssumption, TxCapAssumption, StallAssumption, LedHoldAssumption,
   ModulusAssumption, MaxBytesAssumption DEF ConstantsOK

(* A write is in its extra byte time exactly when the FIFO is overfull.    *)
FifoInv == FifoType /\ (stall = 0 => txFifo <= TxCap)

LEMMA TaskTypeStep ==
  ASSUME TaskType, [Next]_vars
  PROVE  TaskType'
<1> USE ConstantsAreOK DEF TaskType, ConstantsOK, Part
<1>1. CASE Tick
  BY <1>1 DEF Tick
<1>2. CASE KnxSends \/ HostSends
  BY <1>2 DEF KnxSends, HostSends, Receive, taskVars
<1>3. CASE WebLoop \/ MqttLoop \/ UsbEmpty \/ KnxEmpty \/ Led
  BY <1>3 DEF WebLoop, MqttLoop, UsbEmpty, KnxEmpty, Led
<1>4. CASE UsbByte
  BY <1>4 DEF UsbByte, Take, Up, WriteWait
<1>5. ASSUME NEW accepted \in BOOLEAN, KnxByte(accepted) PROVE TaskType'
  BY <1>5 DEF KnxByte, Take, Up
<1>6. CASE UNCHANGED vars
  BY <1>6 DEF vars, taskVars
<1> QED BY <1>1, <1>2, <1>3, <1>4, <1>5, <1>6 DEF Next, Task

LEMMA FlagStep ==
  ASSUME FlagType, [Next]_vars
  PROVE  FlagType'
<1> USE DEF FlagType
<1>1. CASE Tick \/ KnxSends \/ HostSends
  BY <1>1, Zenon DEF Tick, KnxSends, HostSends, Receive, taskVars, ledVars
<1>2. CASE WebLoop \/ UsbEmpty \/ KnxEmpty
  BY <1>2, Zenon DEF WebLoop, UsbEmpty, KnxEmpty, ledVars
<1>3. CASE MqttLoop \/ UsbByte
  BY <1>3, Zenon DEF MqttLoop, UsbByte, Take, Up, WriteWait, ledVars
<1>4. ASSUME NEW accepted \in BOOLEAN, KnxByte(accepted) PROVE FlagType'
  BY <1>4, Zenon DEF KnxByte, Take, Up, ledVars
<1>5. CASE Led
  BY <1>5, Zenon DEF Led
<1>6. CASE UNCHANGED vars
  BY <1>6, Zenon DEF vars, taskVars, ledVars
<1> QED BY <1>1, <1>2, <1>3, <1>4, <1>5, <1>6 DEF Next, Task

LEMMA FifoStep ==
  ASSUME TaskType, FifoInv, [Next]_vars
  PROVE  FifoInv'
<1> USE ConstantsAreOK DEF TaskType, FifoInv, FifoType, ConstantsOK
<1>1. CASE Tick
  BY <1>1 DEF Tick
<1>2. CASE KnxSends \/ HostSends
  BY <1>2 DEF KnxSends, HostSends, Receive, taskVars
<1>3. CASE UsbByte
  BY <1>3 DEF UsbByte, Take, Up, WriteWait, Runs
<1>4. CASE WebLoop \/ MqttLoop \/ UsbEmpty \/ KnxEmpty \/ Led
  BY <1>4 DEF WebLoop, MqttLoop, UsbEmpty, KnxEmpty, Led, Runs
<1>5. ASSUME NEW accepted \in BOOLEAN, KnxByte(accepted) PROVE FifoInv'
  BY <1>5 DEF KnxByte, Take, Up, Runs
<1>6. CASE UNCHANGED vars
  BY <1>6 DEF vars, taskVars
<1> QED BY <1>1, <1>2, <1>3, <1>4, <1>5, <1>6 DEF Next, Task

LEMMA CounterStep ==
  ASSUME CounterType, [Next]_vars
  PROVE  CounterType'
<1> USE ConstantsAreOK DEF CounterType, ConstantsOK
<1>1. CASE UsbByte
  BY <1>1 DEF UsbByte, Take, Up, WriteWait
<1>2. ASSUME NEW accepted \in BOOLEAN, KnxByte(accepted) PROVE CounterType'
  BY <1>2 DEF KnxByte, Take, Up
<1>3. CASE ~(UsbByte \/ \E accepted \in BOOLEAN : KnxByte(accepted))
  BY <1>3 DEF Next, Task, Tick, KnxSends, HostSends, Receive, WebLoop, MqttLoop, UsbEmpty,
              KnxEmpty, Led, vars, counters
<1> QED BY <1>1, <1>2, <1>3

LEMMA LedStep ==
  ASSUME LedType, [Next]_vars
  PROVE  LedType'
<1> USE ConstantsAreOK DEF LedType, ConstantsOK
<1>1. CASE Tick
  BY <1>1 DEF Tick
<1>2. CASE Led
  <2>1. quiet' = 0 \/ quiet' = quiet
    BY <1>2, Zenon DEF Led
  <2> QED BY <2>1
<1>3. CASE ~(Tick \/ Led)
  BY <1>3 DEF Next, Task, KnxSends, HostSends, Receive, WebLoop, MqttLoop, UsbByte, UsbEmpty,
              Take, Up, WriteWait, KnxByte, KnxEmpty, vars, ledVars
<1> QED BY <1>1, <1>2, <1>3

(* Counting a byte in direction d keeps the type of a history counter.     *)
LEMMA CountType ==
  ASSUME NEW h \in [Dir -> Nat], NEW d \in Dir
  PROVE  Count(h, d) \in [Dir -> Nat]
BY DEF Count

(* What the task does to the queue it reads.                               *)
LEMMA ReadQueue ==
  ASSUME QueueType, NEW d \in Dir, queue[d] # <<>>
  PROVE  /\ Head(queue[d]) \in Nat
         /\ Tail(queue[d]) \in Seq(Nat)
         /\ Len(Tail(queue[d])) = Len(queue[d]) - 1
BY DEF QueueType

LEMMA QueueHistoryStep ==
  ASSUME QueueType, HistoryType, [Next]_vars
  PROVE  QueueType' /\ HistoryType'
<1> USE ConstantsAreOK, Directions DEF ConstantsOK
<1>1. ASSUME NEW d \in Dir, Receive(d) PROVE QueueType' /\ HistoryType'
  <2>1. sent' \in [Dir -> Nat] /\ sent'[d] \in Nat
    BY <1>1, CountType DEF HistoryType, Receive
  <2>2. overrun' \in [Dir -> Nat]
    BY <1>1, CountType DEF HistoryType, Receive
  <2>3. HistoryType'
    BY <1>1, <2>1, <2>2 DEF HistoryType, Receive
  <2>4. CASE Len(queue[d]) < RxCap
    <3>1. queue' = [queue EXCEPT ![d] = Append(queue[d], sent'[d])]
      BY <1>1, <2>4 DEF Receive
    <3>2. /\ Append(queue[d], sent'[d]) \in Seq(Nat)
          /\ Len(Append(queue[d], sent'[d])) = Len(queue[d]) + 1
      BY <2>1 DEF QueueType
    <3>3. QueueType'
      BY <2>4, <3>1, <3>2 DEF QueueType
    <3> QED BY <2>3, <3>3
  <2>5. CASE ~(Len(queue[d]) < RxCap)
    BY <1>1, <2>3, <2>5 DEF QueueType, Receive
  <2> QED BY <2>4, <2>5
<1>2. CASE UsbByte
  <2>1. queue["toKnx"] # <<>> /\ queue' = [queue EXCEPT !["toKnx"] = Tail(queue["toKnx"])]
    BY <1>2 DEF UsbByte, Take, Up, WriteWait
  <2>2. QueueType'
    BY <2>1, ReadQueue DEF QueueType
  <2>3. delivered' \in [Dir -> Nat] /\ last' \in [Dir -> Nat]
    BY <1>2, ReadQueue, CountType DEF UsbByte, Take, Up, WriteWait, HistoryType
  <2> QED BY <1>2, <2>2, <2>3 DEF UsbByte, Take, Up, WriteWait, HistoryType
<1>3. ASSUME NEW accepted \in BOOLEAN, KnxByte(accepted) PROVE QueueType' /\ HistoryType'
  <2>1. queue["toUsb"] # <<>> /\ queue' = [queue EXCEPT !["toUsb"] = Tail(queue["toUsb"])]
    BY <1>3 DEF KnxByte, Take, Up
  <2>2. QueueType'
    BY <2>1, ReadQueue DEF QueueType
  <2>3. /\ delivered' \in [Dir -> Nat] /\ last' \in [Dir -> Nat]
        /\ dropped' \in [Dir -> Nat]
    <3>1. CASE accepted
      <4>1. Head(queue["toUsb"]) \in Nat
        BY <2>1, ReadQueue
      <4>2. /\ last' = [last EXCEPT !["toUsb"] = Head(queue["toUsb"])]
            /\ delivered' = Count(delivered, "toUsb")
            /\ dropped' = dropped
        BY <1>3, <3>1 DEF KnxByte, Take, Up
      <4> QED BY <4>1, <4>2, CountType DEF HistoryType
    <3>2. CASE ~accepted
      BY <1>3, <3>2, CountType DEF KnxByte, Take, Up, HistoryType
    <3> QED BY <3>1, <3>2
  <2> QED BY <1>3, <2>2, <2>3 DEF KnxByte, Take, Up, HistoryType
<1>4. CASE Tick \/ WebLoop \/ MqttLoop \/ UsbEmpty \/ KnxEmpty \/ Led \/ UNCHANGED vars
  BY <1>4 DEF Tick, WebLoop, MqttLoop, UsbEmpty, KnxEmpty, Led, vars, history, QueueType,
              HistoryType
<1> QED BY <1>1, <1>2, <1>3, <1>4 DEF Next, Task, KnxSends, HostSends

LEMMA InitType == Init => TypeOK /\ FifoInv
<1> SUFFICES ASSUME Init PROVE TypeOK /\ FifoInv
  OBVIOUS
<1> USE ConstantsAreOK DEF ConstantsOK, Init
<1>1. TaskType /\ FifoInv /\ CounterType /\ LedType
  BY DEF TaskType, FifoInv, FifoType, CounterType, LedType, Part
<1>4. FlagType
  BY Zenon DEF FlagType
<1>2. QueueType
  <2>1. \A d \in Dir : queue[d] = <<>>
    OBVIOUS
  <2>2. <<>> \in Seq(Nat) /\ Len(<<>>) = 0
    OBVIOUS
  <2> QED BY <2>1, <2>2 DEF QueueType
<1>3. HistoryType
  BY DEF HistoryType
<1> QED BY <1>1, <1>2, <1>3, <1>4 DEF TypeOK, FifoInv

(* Every reachable state is well typed: no queue grows beyond the driver's *)
(* memory, whatever the peers send and however long a call takes.          *)
THEOREM TypeCorrect == Spec => []TypeOK
<1>1. TypeOK /\ FifoInv /\ [Next]_vars => (TypeOK /\ FifoInv)'
  BY TaskTypeStep, FifoStep, CounterStep, LedStep, FlagStep, QueueHistoryStep DEF TypeOK, FifoInv
<1> QED BY <1>1, InitType, PTL DEF Spec

-----------------------------------------------------------------------------
(* The bytes that wait for the task are at most the byte times it has been *)
(* away, plus the one that may arrive in the current byte time.            *)
AbsenceInv ==
  away < RxCap => Len(queue["toUsb"]) + slot <= away + 1

LEMMA AbsenceInvariant == Spec => []AbsenceInv
<1>1. Init => AbsenceInv
  <2> SUFFICES ASSUME Init PROVE AbsenceInv
    OBVIOUS
  <2>1. queue["toUsb"] = <<>> /\ Len(<<>>) = 0
    BY Directions DEF Init
  <2> QED BY <2>1 DEF Init, AbsenceInv
<1>2. TypeOK /\ AbsenceInv /\ [Next]_vars => AbsenceInv'
  <2> SUFFICES ASSUME TypeOK, AbsenceInv, [Next]_vars PROVE AbsenceInv'
    OBVIOUS
  <2> USE ConstantsAreOK, Directions DEF AbsenceInv, TypeOK, TaskType, ConstantsOK
  <2>1. CASE Tick
    BY <2>1 DEF Tick
  <2>2. CASE KnxSends
    <3>1. sent'["toUsb"] \in Nat
      BY <2>2, CountType DEF KnxSends, Receive, HistoryType
    <3>2. Len(Append(queue["toUsb"], sent'["toUsb"])) = Len(queue["toUsb"]) + 1
      BY <3>1 DEF QueueType
    <3>3. /\ Len(queue'["toUsb"]) \in Nat
          /\ Len(queue'["toUsb"]) <= Len(queue["toUsb"]) + 1
      BY <2>2, <3>2 DEF KnxSends, Receive, QueueType
    <3> QED BY <2>2, <3>3 DEF KnxSends, Receive, QueueType, taskVars
  <2>3. CASE HostSends
    <3>1. queue'["toUsb"] = queue["toUsb"]
      BY <2>3 DEF HostSends, Receive, QueueType
    <3> QED BY <2>3, <3>1 DEF HostSends, Receive
  <2>4. ASSUME NEW accepted \in BOOLEAN, KnxByte(accepted) PROVE AbsenceInv'
    <3>1. Len(Tail(queue["toUsb"])) = Len(queue["toUsb"]) - 1
      BY <2>4, ReadQueue DEF KnxByte, Take, Up
    <3>2. queue'["toUsb"] = Tail(queue["toUsb"])
      BY <2>4 DEF KnxByte, Take, Up, QueueType
    <3> QED BY <2>4, <3>1, <3>2 DEF KnxByte, Take, Up, QueueType
  <2>5. CASE KnxEmpty
    BY <2>5 DEF KnxEmpty
  <2>6. CASE WebLoop \/ MqttLoop \/ UsbEmpty \/ Led \/ UNCHANGED vars
    BY <2>6 DEF WebLoop, MqttLoop, UsbEmpty, Led, vars
  <2>7. CASE UsbByte
    <3>1. queue'["toUsb"] = queue["toUsb"]
      BY <2>7 DEF UsbByte, Take, Up, WriteWait, QueueType
    <3> QED BY <2>7, <3>1 DEF UsbByte, Take, Up, WriteWait
  <2> QED BY <2>1, <2>2, <2>3, <2>4, <2>5, <2>6, <2>7 DEF Next, Task
<1> QED BY <1>1, <1>2, TypeCorrect, PTL DEF Spec

(* For every queue size and every length of the calls: the UART drops a    *)
(* KNX byte only when the task has not seen it empty for RxCap byte times. *)
THEOREM LossTheorem == Spec => LossNeedsLongAbsence
<1>1. TypeOK /\ AbsenceInv /\ [Next]_vars
        => [overrun'["toUsb"] # overrun["toUsb"] => away = RxCap]_vars
  <2> SUFFICES ASSUME TypeOK, AbsenceInv, Next, overrun'["toUsb"] # overrun["toUsb"]
               PROVE  away = RxCap
    BY DEF vars
  <2> USE ConstantsAreOK, Directions DEF AbsenceInv, TypeOK, TaskType, ConstantsOK
  <2>1. CASE KnxSends
    <3>1. ~(Len(queue["toUsb"]) < RxCap) /\ slot = 1
      BY <2>1 DEF KnxSends, Receive
    <3> QED BY <3>1 DEF QueueType
  <2>2. CASE HostSends
    <3>1. overrun' = overrun \/ overrun' = Count(overrun, "toKnx")
      BY <2>2 DEF HostSends, Receive
    <3> QED BY <3>1 DEF Count, HistoryType
  <2>3. CASE Tick \/ Task
    BY <2>3 DEF Tick, Task, WebLoop, MqttLoop, UsbByte, UsbEmpty, KnxByte, KnxEmpty,
                Take, Up, WriteWait,
                Led, history
  <2> QED BY <2>1, <2>2, <2>3 DEF Next
<1> QED BY <1>1, TypeCorrect, AbsenceInvariant, PTL DEF Spec, LossNeedsLongAbsence

-----------------------------------------------------------------------------
(* With the histories on, every byte is accounted for.                     *)
ConservationInv == QueueType /\ HistoryType /\ Conservation

Accounted(d) == sent[d] = delivered[d] + (overrun[d] + dropped[d]) + Len(queue[d])

LEMMA ConservationStep ==
  ASSUME Endless = FALSE, ConservationInv, [Next]_vars
  PROVE  Conservation'
<1> SUFFICES ASSUME NEW e \in Dir PROVE Accounted(e)'
  BY DEF Conservation, Accounted, Lost
<1>0. /\ Accounted(e)
      /\ sent[e] \in Nat /\ delivered[e] \in Nat /\ overrun[e] \in Nat /\ dropped[e] \in Nat
      /\ queue[e] \in Seq(Nat) /\ Len(queue[e]) \in Nat
  BY DEF ConservationInv, Conservation, Accounted, Lost, QueueType, HistoryType
<1>a. /\ sent[e] + 1 = delivered[e] + (overrun[e] + dropped[e]) + (Len(queue[e]) + 1)
      /\ sent[e] + 1 = delivered[e] + ((overrun[e] + 1) + dropped[e]) + Len(queue[e])
      /\ sent[e] = (delivered[e] + 1) + (overrun[e] + dropped[e]) + (Len(queue[e]) - 1)
      /\ sent[e] = delivered[e] + (overrun[e] + (dropped[e] + 1)) + (Len(queue[e]) - 1)
  <2> DEFINE s == sent[e]  m == delivered[e]  o == overrun[e]  r == dropped[e]  q == Len(queue[e])
  <2>1. /\ s \in Nat /\ m \in Nat /\ o \in Nat /\ r \in Nat /\ q \in Nat
        /\ s = m + (o + r) + q
    BY <1>0 DEF Accounted
  <2>2. /\ s + 1 = m + (o + r) + (q + 1)
        /\ s + 1 = m + ((o + 1) + r) + q
        /\ s = (m + 1) + (o + r) + (q - 1)
        /\ s = m + (o + (r + 1)) + (q - 1)
    <3> HIDE DEF s, m, o, r, q
    <3> QED BY <2>1
  <2> QED BY <2>2
<1> USE <1>0, Directions DEF ConservationInv, Accounted, HistoryType, QueueType
<1>1. ASSUME NEW d \in Dir, Receive(d) PROVE Accounted(e)'
  <2>1. sent' = [sent EXCEPT ![d] = sent[d] + 1]
    BY <1>1 DEF Receive, Count
  <2>2. CASE Len(queue[d]) < RxCap
    <3>1. queue' = [queue EXCEPT ![d] = Append(queue[d], sent'[d])] /\ overrun' = overrun
      BY <1>1, <2>2 DEF Receive
    <3>2. Len(Append(queue[d], sent'[d])) = Len(queue[d]) + 1
      BY <2>1
    <3>3. delivered' = delivered /\ dropped' = dropped
      BY <1>1 DEF Receive
    <3>4. CASE e = d
      <4>1. sent'[e] = sent[e] + 1
        BY <2>1, <3>4
      <4>2. queue'[e] = Append(queue[e], sent'[e])
        BY <3>1, <3>4
      <4>3. Len(queue'[e]) = Len(queue[e]) + 1
        BY <3>2, <3>4, <4>2
      <4>4. overrun' = overrun
        BY <3>1
      <4> QED BY <1>a, <4>1, <4>3, <4>4, <3>3
    <3>5. CASE e # d
      BY <2>1, <3>1, <3>3, <3>5
    <3> QED BY <3>4, <3>5
  <2>3. CASE ~(Len(queue[d]) < RxCap)
    <3>1. queue' = queue /\ overrun' = [overrun EXCEPT ![d] = overrun[d] + 1]
      BY <1>1, <2>3 DEF Receive, Count
    <3>3. delivered' = delivered /\ dropped' = dropped
      BY <1>1 DEF Receive
    <3>4. CASE e = d
      <4>1. sent'[e] = sent[e] + 1 /\ overrun'[e] = overrun[e] + 1
        BY <2>1, <3>1, <3>4
      <4>2. queue' = queue
        BY <3>1
      <4> QED BY <1>a, <4>1, <4>2, <3>3
    <3>5. CASE e # d
      BY <2>1, <3>1, <3>3, <3>5
    <3> QED BY <3>4, <3>5
  <2> QED BY <2>2, <2>3
<1>2. CASE UsbByte
  <2>1. /\ queue' = [queue EXCEPT !["toKnx"] = Tail(queue["toKnx"])]
        /\ delivered' = [delivered EXCEPT !["toKnx"] = delivered["toKnx"] + 1]
        /\ queue["toKnx"] # <<>>
    BY <1>2 DEF UsbByte, Take, Up, WriteWait, Count
  <2>2. Len(Tail(queue["toKnx"])) = Len(queue["toKnx"]) - 1
    BY <2>1, ReadQueue
  <2>3. sent' = sent /\ overrun' = overrun /\ dropped' = dropped
    BY <1>2 DEF UsbByte, Take, Up, WriteWait
  <2>4. CASE e = "toKnx"
    BY <2>1, <2>2, <2>3, <2>4
  <2>5. CASE e # "toKnx"
    BY <2>1, <2>3, <2>5
  <2> QED BY <2>4, <2>5
<1>3. ASSUME NEW accepted \in BOOLEAN, KnxByte(accepted) PROVE Accounted(e)'
  <2>1. queue' = [queue EXCEPT !["toUsb"] = Tail(queue["toUsb"])] /\ queue["toUsb"] # <<>>
    BY <1>3 DEF KnxByte, Take, Up
  <2>2. Len(Tail(queue["toUsb"])) = Len(queue["toUsb"]) - 1
    BY <2>1, ReadQueue
  <2>3. \/ /\ delivered' = [delivered EXCEPT !["toUsb"] = delivered["toUsb"] + 1]
           /\ dropped' = dropped
        \/ /\ dropped' = [dropped EXCEPT !["toUsb"] = dropped["toUsb"] + 1]
           /\ delivered' = delivered
    BY <1>3 DEF KnxByte, Take, Up, Count
  <2>4. sent' = sent /\ overrun' = overrun
    BY <1>3 DEF KnxByte, Take, Up
  <2>5. CASE e = "toUsb"
    <3>1. Len(queue'["toUsb"]) = Len(queue["toUsb"]) - 1
      BY <2>1, <2>2
    <3>3. sent' = sent /\ overrun' = overrun
      BY <2>4
    <3>2. \/ delivered'["toUsb"] = delivered["toUsb"] + 1 /\ dropped'["toUsb"] = dropped["toUsb"]
          \/ delivered'["toUsb"] = delivered["toUsb"] /\ dropped'["toUsb"] = dropped["toUsb"] + 1
      BY <2>3
    <3>4. CASE delivered'["toUsb"] = delivered["toUsb"] + 1 /\ dropped'["toUsb"] = dropped["toUsb"]
      BY <1>a, <3>1, <3>3, <3>4, <2>5
    <3>5. CASE delivered'["toUsb"] = delivered["toUsb"] /\ dropped'["toUsb"] = dropped["toUsb"] + 1
      BY <1>a, <3>1, <3>3, <3>5, <2>5
    <3> QED BY <3>2, <3>4, <3>5
  <2>6. CASE e # "toUsb"
    BY <2>1, <2>3, <2>4, <2>6
  <2> QED BY <2>5, <2>6
<1>4. CASE Tick \/ WebLoop \/ MqttLoop \/ UsbEmpty \/ KnxEmpty \/ Led \/ UNCHANGED vars
  BY <1>4 DEF Tick, WebLoop, MqttLoop, UsbEmpty, KnxEmpty, Led, vars, history
<1> QED BY <1>1, <1>2, <1>3, <1>4 DEF Next, Task, KnxSends, HostSends

(* No byte vanishes unaccounted: what a peer has sent is delivered, lost   *)
(* to a full queue, lost to an absent host, or still queued.               *)
THEOREM ConservationTheorem == Endless = FALSE => (Spec => []Conservation)
<1> SUFFICES ASSUME Endless = FALSE PROVE Spec => []Conservation
  OBVIOUS
<1>1. Init => Conservation
  <2> SUFFICES ASSUME Init, NEW d \in Dir
               PROVE  sent[d] = delivered[d] + Lost(d) + Len(queue[d])
    BY DEF Conservation
  <2>1. queue[d] = <<>> /\ Len(<<>>) = 0
    BY DEF Init
  <2> QED BY <2>1 DEF Init, Lost
<1>2. TypeOK /\ Conservation /\ [Next]_vars => Conservation'
  BY ConservationStep DEF TypeOK, ConservationInv
<1> QED BY <1>1, <1>2, TypeCorrect, PTL DEF Spec

-----------------------------------------------------------------------------
(* Labels in a queue increase, and lie above the byte delivered last.      *)
Ordered(q, l, s) ==
  /\ l <= s
  /\ \A i \in 1 .. Len(q) : l < q[i] /\ q[i] <= s
  /\ \A i, j \in 1 .. Len(q) : i < j => q[i] < q[j]

LEMMA AppendOrdered ==
  ASSUME NEW q \in Seq(Nat), NEW l \in Nat, NEW s \in Nat, Ordered(q, l, s)
  PROVE  Ordered(Append(q, s + 1), l, s + 1)
<1> DEFINE p == Append(q, s + 1)
<1>1. /\ p \in Seq(Nat) /\ Len(p) = Len(q) + 1
      /\ p[Len(q) + 1] = s + 1
      /\ \A i \in 1 .. Len(q) : p[i] = q[i]
  OBVIOUS
<1>2. \A i \in 1 .. Len(q) : q[i] \in Nat
  OBVIOUS
<1>3. \A i \in 1 .. Len(p) : i \in 1 .. Len(q) \/ i = Len(q) + 1
  BY <1>1
<1> HIDE DEF p
<1>4. ASSUME NEW i \in 1 .. Len(p) PROVE l < p[i] /\ p[i] <= s + 1
  <2>1. CASE i \in 1 .. Len(q)
    BY <2>1, <1>1, <1>2 DEF Ordered
  <2>2. CASE i = Len(q) + 1
    BY <2>2, <1>1 DEF Ordered
  <2> QED BY <2>1, <2>2, <1>3
<1>5. ASSUME NEW i \in 1 .. Len(p), NEW j \in 1 .. Len(p), i < j PROVE p[i] < p[j]
  <2>1. i \in 1 .. Len(q) /\ p[i] = q[i] /\ q[i] <= s
    BY <1>1, <1>5 DEF Ordered
  <2>2. CASE j \in 1 .. Len(q)
    BY <2>1, <2>2, <1>1, <1>5 DEF Ordered
  <2>3. CASE j = Len(q) + 1
    BY <2>1, <2>3, <1>1, <1>2
  <2> QED BY <2>2, <2>3, <1>3
<1>6. l <= s + 1
  BY DEF Ordered
<1>7. Ordered(p, l, s + 1)
  BY <1>4, <1>5, <1>6 DEF Ordered
<1> QED BY <1>7 DEF p

LEMMA GrowOrdered ==
  ASSUME NEW q \in Seq(Nat), NEW l \in Nat, NEW s \in Nat, Ordered(q, l, s)
  PROVE  Ordered(q, l, s + 1)
<1>1. \A i \in 1 .. Len(q) : q[i] \in Nat
  OBVIOUS
<1> QED BY <1>1 DEF Ordered

LEMMA TailOrdered ==
  ASSUME NEW q \in Seq(Nat), q # <<>>, NEW l \in Nat, NEW s \in Nat, Ordered(q, l, s)
  PROVE  /\ Head(q) \in l + 1 .. s
         /\ Ordered(Tail(q), Head(q), s)
         /\ Ordered(Tail(q), l, s)
<1> DEFINE p == Tail(q)
<1>1. /\ Len(q) \in Nat /\ Len(q) > 0
      /\ p \in Seq(Nat) /\ Len(p) = Len(q) - 1
      /\ \A i \in 1 .. Len(p) : p[i] = q[i + 1]
      /\ Head(q) = q[1]
  OBVIOUS
<1>2. \A i \in 1 .. Len(q) : q[i] \in Nat
  OBVIOUS
<1> HIDE DEF p
<1>3. Head(q) \in Nat /\ l < Head(q) /\ Head(q) <= s
  BY <1>1, <1>2 DEF Ordered
<1>4. ASSUME NEW i \in 1 .. Len(p) PROVE Head(q) < p[i] /\ p[i] <= s /\ l < p[i]
  <2>1. 1 \in 1 .. Len(q) /\ i + 1 \in 1 .. Len(q) /\ 1 < i + 1 /\ p[i] = q[i + 1]
    BY <1>1
  <2> QED BY <2>1, <1>1, <1>2 DEF Ordered
<1>5. ASSUME NEW i \in 1 .. Len(p), NEW j \in 1 .. Len(p), i < j PROVE p[i] < p[j]
  <2>1. /\ i + 1 \in 1 .. Len(q) /\ j + 1 \in 1 .. Len(q) /\ i + 1 < j + 1
        /\ p[i] = q[i + 1] /\ p[j] = q[j + 1]
    BY <1>1, <1>5
  <2> QED BY <2>1 DEF Ordered
<1>6. Ordered(p, Head(q), s) /\ Ordered(p, l, s)
  <2>1. Head(q) <= s /\ l <= s
    BY <1>3 DEF Ordered
  <2> QED BY <2>1, <1>4, <1>5 DEF Ordered
<1>7. Head(q) \in l + 1 .. s
  BY <1>3
<1> QED BY <1>6, <1>7 DEF p

(* What a step can do to direction d.                                      *)
Stays(d) ==
  /\ queue'[d] = queue[d] /\ sent'[d] = sent[d] /\ last'[d] = last[d]
  /\ delivered'[d] = delivered[d] /\ overrun'[d] = overrun[d] /\ dropped'[d] = dropped[d]

Arrives(d) ==
  /\ sent'[d] = sent[d] + 1 /\ last'[d] = last[d]
  /\ delivered'[d] = delivered[d] /\ dropped'[d] = dropped[d]
  /\ \/ queue'[d] = Append(queue[d], sent[d] + 1) /\ overrun'[d] = overrun[d]
     \/ queue'[d] = queue[d] /\ overrun'[d] = overrun[d] + 1

Leaves(d) ==
  /\ queue[d] # <<>> /\ queue'[d] = Tail(queue[d])
  /\ sent'[d] = sent[d] /\ overrun'[d] = overrun[d]
  /\ \/ last'[d] = Head(queue[d]) /\ delivered'[d] = delivered[d] + 1 /\ dropped'[d] = dropped[d]
     \/ last'[d] = last[d] /\ delivered'[d] = delivered[d] /\ dropped'[d] = dropped[d] + 1

LEMMA ReceiveMoves ==
  ASSUME Endless = FALSE, QueueType, HistoryType, NEW c \in Dir, NEW d \in Dir, Receive(c)
  PROVE  Stays(d) \/ Arrives(d)
<1> USE DEF QueueType, HistoryType
<1>1. /\ sent' = [sent EXCEPT ![c] = sent[c] + 1]
      /\ last' = last /\ delivered' = delivered /\ dropped' = dropped
      /\ \/ queue' = [queue EXCEPT ![c] = Append(queue[c], sent'[c])] /\ overrun' = overrun
         \/ queue' = queue /\ overrun' = [overrun EXCEPT ![c] = overrun[c] + 1]
  BY DEF Receive, Count
<1>2. CASE c = d
  <2>1. sent'[d] = sent[d] + 1
    BY <1>1, <1>2
  <2>2. \/ queue'[d] = Append(queue[d], sent[d] + 1) /\ overrun'[d] = overrun[d]
        \/ queue'[d] = queue[d] /\ overrun'[d] = overrun[d] + 1
    BY <1>1, <1>2, <2>1
  <2> QED BY <1>1, <2>1, <2>2 DEF Arrives
<1>3. CASE c # d
  BY <1>1, <1>3 DEF Stays
<1> QED BY <1>2, <1>3

LEMMA Moves ==
  ASSUME Endless = FALSE, QueueType, HistoryType, [Next]_vars, NEW d \in Dir
  PROVE  Stays(d) \/ Arrives(d) \/ Leaves(d)
<1> USE Directions DEF QueueType, HistoryType
<1>1. CASE KnxSends \/ HostSends
  BY <1>1, ReceiveMoves DEF KnxSends, HostSends
<1>2. CASE UsbByte
  <2>1. /\ queue["toKnx"] # <<>>
        /\ last' = [last EXCEPT !["toKnx"] = Head(queue["toKnx"])]
        /\ delivered' = [delivered EXCEPT !["toKnx"] = delivered["toKnx"] + 1]
        /\ queue' = [queue EXCEPT !["toKnx"] = Tail(queue["toKnx"])]
        /\ sent' = sent /\ overrun' = overrun /\ dropped' = dropped
    BY <1>2 DEF UsbByte, Take, Up, WriteWait, Count
  <2>2. CASE d = "toKnx"
    BY <2>1, <2>2 DEF Leaves
  <2>3. CASE d = "toUsb"
    BY <2>1, <2>3 DEF Stays
  <2> QED BY <2>2, <2>3
<1>3. ASSUME NEW accepted \in BOOLEAN, KnxByte(accepted) PROVE Stays(d) \/ Leaves(d)
  <2>1. /\ queue["toUsb"] # <<>>
        /\ queue' = [queue EXCEPT !["toUsb"] = Tail(queue["toUsb"])]
        /\ sent' = sent /\ overrun' = overrun
        /\ \/ /\ last' = [last EXCEPT !["toUsb"] = Head(queue["toUsb"])]
              /\ delivered' = [delivered EXCEPT !["toUsb"] = delivered["toUsb"] + 1]
              /\ dropped' = dropped
           \/ /\ dropped' = [dropped EXCEPT !["toUsb"] = dropped["toUsb"] + 1]
              /\ last' = last /\ delivered' = delivered
    BY <1>3 DEF KnxByte, Take, Up, Count
  <2>2. CASE d = "toKnx"
    BY <2>1, <2>2 DEF Stays
  <2>3. CASE d = "toUsb"
    <3>1. \/ /\ last'[d] = Head(queue[d]) /\ delivered'[d] = delivered[d] + 1
             /\ dropped'[d] = dropped[d]
          \/ /\ last'[d] = last[d] /\ delivered'[d] = delivered[d]
             /\ dropped'[d] = dropped[d] + 1
      BY <2>1, <2>3
    <3> QED BY <2>1, <2>3, <3>1 DEF Leaves
  <2> QED BY <2>2, <2>3
<1>4. CASE Tick \/ WebLoop \/ MqttLoop \/ UsbEmpty \/ KnxEmpty \/ Led \/ UNCHANGED vars
  BY <1>4 DEF Tick, WebLoop, MqttLoop, UsbEmpty, KnxEmpty, Led, vars, history, Stays
<1> QED BY <1>1, <1>2, <1>3, <1>4 DEF Next, Task

OrderInv == \A d \in Dir : Ordered(queue[d], last[d], sent[d])

LEMMA OrderStep ==
  ASSUME Endless = FALSE, QueueType, HistoryType, OrderInv, [Next]_vars
  PROVE  OrderInv'
<1> SUFFICES ASSUME NEW d \in Dir PROVE Ordered(queue'[d], last'[d], sent'[d])
  BY DEF OrderInv
<1>1. /\ queue[d] \in Seq(Nat) /\ last[d] \in Nat /\ sent[d] \in Nat
      /\ Ordered(queue[d], last[d], sent[d])
  BY DEF QueueType, HistoryType, OrderInv
<1>2. CASE Stays(d)
  BY <1>1, <1>2 DEF Stays
<1>3. CASE Arrives(d)
  BY <1>1, <1>3, AppendOrdered, GrowOrdered DEF Arrives
<1>4. CASE Leaves(d)
  BY <1>1, <1>4, TailOrdered DEF Leaves
<1> QED BY <1>2, <1>3, <1>4, Moves

(* A step of the bridge is, in each direction, a step of the channel.      *)
LEMMA ChannelStep ==
  ASSUME Endless = FALSE, QueueType, HistoryType, OrderInv, [Next]_vars
  PROVE  [ToKnx!Next]_(ToKnx!vars) /\ [ToUsb!Next]_(ToUsb!vars)
<1>1. ASSUME NEW d \in Dir
      PROVE  \/ /\ sent'[d] = sent[d] + 1 /\ Lost(d)' \in {Lost(d), Lost(d) + 1}
                /\ last'[d] = last[d] /\ delivered'[d] = delivered[d]
             \/ /\ last'[d] \in last[d] + 1 .. sent[d] /\ delivered'[d] = delivered[d] + 1
                /\ sent'[d] = sent[d] /\ Lost(d)' = Lost(d)
             \/ /\ Lost(d)' = Lost(d) + 1 /\ sent'[d] = sent[d] /\ last'[d] = last[d]
                /\ delivered'[d] = delivered[d]
             \/ /\ Lost(d)' = Lost(d) /\ sent'[d] = sent[d] /\ last'[d] = last[d]
                /\ delivered'[d] = delivered[d]
  <2>1. /\ queue[d] \in Seq(Nat) /\ last[d] \in Nat /\ sent[d] \in Nat
        /\ overrun[d] \in Nat /\ dropped[d] \in Nat
        /\ Ordered(queue[d], last[d], sent[d])
    BY DEF QueueType, HistoryType, OrderInv
  <2>2. CASE Stays(d)
    BY <2>2 DEF Stays, Lost
  <2>3. CASE Arrives(d)
    BY <2>1, <2>3 DEF Arrives, Lost
  <2>4. CASE Leaves(d)
    <3>1. Head(queue[d]) \in last[d] + 1 .. sent[d]
      BY <2>1, <2>4, TailOrdered DEF Leaves
    <3> QED BY <2>1, <2>4, <3>1 DEF Leaves, Lost
  <2> QED BY <2>2, <2>3, <2>4, Moves
<1>2. [ToKnx!Next]_(ToKnx!vars)
  BY <1>1, Directions DEF ToKnx!Next, ToKnx!Send, ToKnx!Deliver, ToKnx!Lose, ToKnx!vars
<1>3. [ToUsb!Next]_(ToUsb!vars)
  BY <1>1, Directions DEF ToUsb!Next, ToUsb!Send, ToUsb!Deliver, ToUsb!Lose, ToUsb!vars
<1> QED BY <1>2, <1>3

(* For every queue size and every timing, both directions of the bridge    *)
(* deliver a subsequence of what was sent: nothing twice, nothing out of   *)
(* order, nothing made up.                                                 *)
THEOREM ChannelTheorem == Endless = FALSE => (Spec => BothChannels)
<1> SUFFICES ASSUME Endless = FALSE PROVE Spec => BothChannels
  OBVIOUS
<1>1. Init => OrderInv /\ ToKnx!Init /\ ToUsb!Init
  <2> SUFFICES ASSUME Init PROVE OrderInv /\ ToKnx!Init /\ ToUsb!Init
    OBVIOUS
  <2>1. ToKnx!Init /\ ToUsb!Init
    BY Directions DEF Init, ToKnx!Init, ToUsb!Init, Lost
  <2>2. \A d \in Dir : queue[d] = <<>> /\ last[d] = 0 /\ sent[d] = 0
    BY DEF Init
  <2>3. Ordered(<<>>, 0, 0)
    BY DEF Ordered
  <2> QED BY <2>1, <2>2, <2>3 DEF OrderInv
<1>2. TypeOK /\ OrderInv /\ [Next]_vars => OrderInv'
  BY OrderStep DEF TypeOK
<1>3. TypeOK /\ OrderInv /\ [Next]_vars => [ToKnx!Next]_(ToKnx!vars) /\ [ToUsb!Next]_(ToUsb!vars)
  BY ChannelStep DEF TypeOK
<1> QED BY <1>1, <1>2, <1>3, TypeCorrect, PTL DEF Spec, BothChannels, ToKnx!Spec, ToUsb!Spec
=============================================================================
