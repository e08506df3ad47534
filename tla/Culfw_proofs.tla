---------------------------- MODULE Culfw_proofs ----------------------------
(***************************************************************************)
(* Proofs about two parts of culfw.                                        *)
(*                                                                         *)
(* The receiver, for buckets of any length and any number of frames: its   *)
(* types for any number of buckets, and what becomes of a frame with the   *)
(* two buckets of board.h.                                                 *)
(*                                                                         *)
(* The conversation with FHTs: the buffer keeps its messages one behind    *)
(* the other and its size, and a message is deleted only when its FHT has  *)
(* heard all of it.                                                        *)
(***************************************************************************)
EXTENDS RfReceive, Fht, TLAPS

-----------------------------------------------------------------------------
(* The receiver: types.                                                    *)

LEMMA TimerStep ==
  ASSUME timsk1 \in BOOLEAN, [RfNext]_rfVars
  PROVE  timsk1' \in BOOLEAN
<1>1. CASE Edge
  BY <1>1, Zenon DEF Edge, SyncBegins, SyncFails, FrameBegins, Bit, BadEdge, ItFails, ResetInput
<1>2. CASE Silence \/ Task
  BY <1>2, Zenon DEF Silence, Task, LookForOne, Analyse, AnalyseFull, ResetInputState, Release, Load,
                     Store, Advance
<1> QED BY <1>1, <1>2, Zenon DEF RfNext, rfVars

(* The interrupts only add to bucket_nrused, so that what the task found   *)
(* or loaded is still there to be taken away.                              *)
CountInv ==
  /\ RfTypeOK
  /\ pc \in {"analyse", "resetInput", "release", "load"} => bucket_nrused # 0
  /\ pc = "store" => loaded # 0

LEMMA NextBucketType == \A b \in Bucket : NextBucket(b) \in Bucket
BY BucketsAssumption DEF Bucket, NextBucket

LEMMA CountInit == RfInit => CountInv
<1> SUFFICES ASSUME RfInit PROVE CountInv
  OBVIOUS
<1>1. timsk1 \in BOOLEAN
  BY Zenon DEF RfInit
<1> QED BY <1>1, BucketsAssumption, MaxMsgAssumption DEF RfInit, CountInv, RfTypeOK, BucketState, Bucket

LEMMA CountStep ==
  ASSUME CountInv, [RfNext]_rfVars
  PROVE  CountInv'
<1> USE BucketsAssumption, MaxMsgAssumption DEF CountInv, RfTypeOK, BucketState
<1>t. timsk1' \in BOOLEAN
  BY TimerStep
<1>1. CASE SyncBegins \/ SyncFails
  BY <1>1, <1>t DEF SyncBegins, SyncFails, rings, task, history
<1>2. CASE FrameBegins
  BY <1>2, <1>t DEF FrameBegins, GiveUp, rings, task
<1>3. CASE Bit
  BY <1>3, <1>t DEF Bit, AddBit, rings, task, history
<1>4. CASE BadEdge \/ ItFails
  BY <1>4, <1>t DEF BadEdge, ItFails, ResetInput, GiveUp, rings, task
<1>5. CASE Silence
  <2>1. CASE FalseAlarm \/ Full
    BY <1>5, <1>t, <2>1 DEF Silence, ResetInput, GiveUp, rings, task
  <2>2. CASE ~(FalseAlarm \/ Full)
    BY <1>5, <1>t, <2>2, NextBucketType DEF Silence, Full, task
  <2> QED BY <2>1, <2>2
<1>6. CASE LookForOne \/ Release \/ Load \/ Store
  BY <1>6, <1>t DEF LookForOne, Release, Load, Store, rings, buckets, history
<1>7. CASE Analyse
  BY <1>7, <1>t DEF Analyse, AddBit, rings
<1>8. CASE AnalyseFull
  BY <1>8, <1>t DEF AnalyseFull, rings
<1>9. CASE ResetInputState
  BY <1>9, <1>t DEF ResetInputState, GiveUp, rings
<1>10. CASE Advance
  BY <1>10, <1>t, NextBucketType DEF Advance, buckets, history
<1>11. CASE UNCHANGED rfVars
  BY <1>11, <1>t DEF rfVars, buckets, rings, task, history
<1> QED BY <1>1, <1>2, <1>3, <1>4, <1>5, <1>6, <1>7, <1>8, <1>9, <1>10, <1>11
        DEF RfNext, Edge, Task

(* Every variable of the receiver keeps its type, for any number of        *)
(* buckets of any length: bucket_nrused-- never wraps, and a bucket is     *)
(* left to collect in.                                                     *)
THEOREM RfTypeCorrect == RfSpec => []RfTypeOK
<1>1. CountInv => RfTypeOK
  BY DEF CountInv
<1> QED BY <1>1, CountInit, CountStep, PTL DEF RfSpec

-----------------------------------------------------------------------------
(* The receiver: two buckets.                                              *)

(* With two buckets, one is collected in and the other one is next.        *)
LEMMA TwoBuckets ==
  ASSUME RcvBuckets = 2
  PROVE  /\ Bucket = {0, 1}
         /\ \A b \in Bucket : NextBucket(b) \in Bucket /\ NextBucket(b) # b
<1>1. Bucket = {0, 1}
  BY DEF Bucket
<1>2. NextBucket(0) = 1 /\ NextBucket(1) = 0
  BY DEF NextBucket
<1> QED BY <1>1, <1>2

NextIn == NextBucket(bucket_in)

-----------------------------------------------------------------------------
(* The inductive invariant.                                                *)

(* The counter and the indexes agree, but between Store and Advance the    *)
(* index lags behind; a bucket the task works on is counted until Store.   *)
IndexInv ==
  /\ pc \in {"analyse", "resetInput", "release", "load", "store"} => bucket_nrused = 1
  /\ pc = "store" => loaded = 1
  /\ pc # "advance" => (bucket_nrused = 1 <=> bucket_in # bucket_out)
  /\ pc = "advance" => (bucket_nrused = 1 <=> bucket_in = bucket_out)

(* The bucket that is not collected in holds a frame still to be decoded.  *)
Waits == bucket_nrused = 1 /\ pc \in {"idle", "analyse", "advance"}

Emptied == bucket_nrused = 0 \/ pc \in {"load", "store"}

(* The frame decoded last, a waiting one and the one being collected are   *)
(* numbered in this order.                                                 *)
OrderInv ==
  /\ last <= sent /\ \A b \in Bucket : frame[b] <= sent
  /\ Waits => bucket_state[NextIn] = "COLLECT" /\ last < frame[NextIn]
  /\ Emptied => bucket_state[NextIn] # "COLLECT"
  /\ bucket_state[bucket_in] = "COLLECT" => /\ last < frame[bucket_in]
                                            /\ Waits => frame[NextIn] < frame[bucket_in]

RingInv == RfTypeOK /\ IndexInv

LEMMA RingInit ==
  ASSUME RcvBuckets = 2, RfInit
  PROVE  RingInv
BY CountInit, TwoBuckets DEF RfInit, CountInv, RingInv, IndexInv

LEMMA RingStep ==
  ASSUME RcvBuckets = 2, RingInv, [RfNext]_rfVars
  PROVE  RingInv'
<1> USE TwoBuckets, MaxMsgAssumption DEF RingInv, RfTypeOK, IndexInv, BucketState
<1>t. timsk1' \in BOOLEAN
  BY TimerStep
<1>1. CASE SyncBegins \/ SyncFails
  BY <1>1, <1>t DEF SyncBegins, SyncFails, rings, task, history
<1>2. CASE FrameBegins
  BY <1>2, <1>t DEF FrameBegins, GiveUp, rings, task
<1>3. CASE Bit
  BY <1>3, <1>t DEF Bit, AddBit, rings, task, history
<1>4. CASE BadEdge \/ ItFails
  BY <1>4, <1>t DEF BadEdge, ItFails, ResetInput, GiveUp, rings, task
<1>5. CASE Silence
  <2>1. CASE FalseAlarm \/ Full
    BY <1>5, <1>t, <2>1 DEF Silence, ResetInput, GiveUp, rings, task
  <2>2. CASE ~(FalseAlarm \/ Full)
    <3>1. bucket_nrused = 0 /\ bucket_nrused' = 1
      BY <1>5, <2>2 DEF Silence, Full
    <3>2. bucket_in' \in Bucket /\ bucket_in' # bucket_in
      BY <1>5, <2>2 DEF Silence
    <3> QED BY <1>5, <1>t, <2>2, <3>1, <3>2 DEF Silence, task
  <2> QED BY <2>1, <2>2
<1>6. CASE LookForOne \/ Release \/ Load \/ Store
  BY <1>6, <1>t DEF LookForOne, Release, Load, Store, rings, buckets, history
<1>7. CASE Analyse
  BY <1>7, <1>t DEF Analyse, AddBit, rings
<1>8. CASE AnalyseFull
  BY <1>8, <1>t DEF AnalyseFull, rings
<1>9. CASE ResetInputState
  BY <1>9, <1>t DEF ResetInputState, GiveUp, rings
<1>10. CASE Advance
  BY <1>10, <1>t DEF Advance, buckets, history
<1>11. CASE UNCHANGED rfVars
  BY <1>11, <1>t DEF rfVars, buckets, rings, task, history
<1> QED BY <1>1, <1>2, <1>3, <1>4, <1>5, <1>6, <1>7, <1>8, <1>9, <1>10, <1>11
        DEF RfNext, Edge, Task

LEMMA RingInvariance ==
  ASSUME RcvBuckets = 2
  PROVE  RfSpec => []RingInv
<1>1. RfInit => RingInv
  BY RingInit
<1>2. RingInv /\ [RfNext]_rfVars => RingInv'
  BY RingStep
<1> QED BY <1>1, <1>2, PTL DEF RfSpec

-----------------------------------------------------------------------------
(* What the interrupts leave alone.                                        *)

LEMMA UnreadIsNext ==
  ASSUME RcvBuckets = 2, RingInv, NEW b \in Unread
  PROVE  b \in Bucket /\ b # bucket_in
<1> DEFINE releasing == pc \in {"load", "store", "advance"}
           first == IF releasing THEN NextBucket(bucket_out) ELSE bucket_out
           number == IF pc \in {"load", "store"} THEN bucket_nrused - 1 ELSE bucket_nrused
<1> USE TwoBuckets DEF RingInv, RfTypeOK, IndexInv
<1>1. PICK k \in 0 .. number - 1 : b = (first + k) % RcvBuckets
  BY Zenon DEF Unread
<1>2. number = 1 /\ bucket_nrused = 1 /\ k = 0 /\ pc \notin {"load", "store"}
  BY <1>1
<1>3. first \in {0, 1}
  OBVIOUS
<1>4. b = first
  BY <1>1, <1>2, <1>3
<1> QED BY <1>2, <1>3, <1>4

(* No edge and no silence changes a committed bucket before the task has   *)
(* released it, with the two buckets of board.h.                           *)
THEOREM CommittedTheorem == RcvBuckets = 2 => (RfSpec => CommittedUntouched)
<1> SUFFICES ASSUME RcvBuckets = 2 PROVE RfSpec => CommittedUntouched
  OBVIOUS
<1>1. ASSUME RingInv, Edge \/ Silence, NEW b \in Unread
      PROVE  bucket_state'[b] = bucket_state[b] /\ frame'[b] = frame[b] /\ byteidx'[b] = byteidx[b]
  <2>1. b \in Bucket /\ b # bucket_in
    BY <1>1, UnreadIsNext
  <2>2. CASE Edge
    BY <1>1, <2>1, <2>2 DEF Edge, SyncBegins, SyncFails, FrameBegins, Bit, AddBit, BadEdge, ItFails,
       ResetInput, RingInv, RfTypeOK
  <2>3. CASE Silence
    BY <1>1, <2>1, <2>3 DEF Silence, ResetInput, RingInv, RfTypeOK
  <2> QED BY <1>1, <2>2, <2>3
<1>2. RingInv /\ [RfNext]_rfVars =>
        [Edge \/ Silence =>
           \A b \in Unread : /\ bucket_state'[b] = bucket_state[b] /\ frame'[b] = frame[b]
                             /\ byteidx'[b] = byteidx[b]]_rfVars
  BY <1>1
<1> QED BY <1>2, RingInvariance, PTL DEF RfSpec, CommittedUntouched

-----------------------------------------------------------------------------
(* Every step is one of four moves on the channel's variables.             *)

LEMMA OrderInit ==
  ASSUME RcvBuckets = 2, RfInit
  PROVE  OrderInv
BY TwoBuckets DEF RfInit, OrderInv, Waits, Emptied, NextIn

Moves == [Air!Next]_(Air!vars)

(* The bucket that is not collected in, before and after a step that does  *)
(* not commit.                                                             *)
LEMMA NextInSame ==
  ASSUME RcvBuckets = 2, RingInv, bucket_in' = bucket_in
  PROVE  NextIn' = NextIn /\ NextIn \in Bucket /\ NextIn # bucket_in
BY TwoBuckets DEF NextIn, NextBucket, RingInv, RfTypeOK

LEMMA OrderStep ==
  ASSUME RcvBuckets = 2, RingInv, OrderInv, [RfNext]_rfVars
  PROVE  OrderInv' /\ Moves
<1> USE TwoBuckets DEF RingInv, RfTypeOK, IndexInv, OrderInv, Waits, Emptied, BucketState, Moves,
                       Air!Next, Air!Send, Air!Deliver, Air!Lose, Air!vars
<1>i. NextIn \in Bucket /\ NextIn # bucket_in /\ NextIn' = NextBucket(bucket_in')
  BY DEF NextIn
<1>n. bucket_in' = bucket_in => NextIn' = NextIn
  BY NextInSame
<1>1. CASE SyncBegins \/ SyncFails
  BY <1>1, <1>i, <1>n DEF SyncBegins, SyncFails, rings, task, history
<1>2. CASE FrameBegins
  BY <1>2, <1>i, <1>n DEF FrameBegins, GiveUp, rings, task
<1>3. CASE Bit
  BY <1>3, <1>i, <1>n DEF Bit, rings, task, history
<1>4. CASE BadEdge \/ ItFails
  BY <1>4, <1>i, <1>n DEF BadEdge, ItFails, ResetInput, GiveUp, rings, task
<1>5. CASE Silence
  <2>1. CASE FalseAlarm \/ Full
    BY <1>5, <1>i, <1>n, <2>1 DEF Silence, ResetInput, GiveUp, rings, task
  <2>2. CASE ~(FalseAlarm \/ Full)
    <3>1. bucket_nrused = 0 /\ bucket_nrused' = 1 /\ bucket_state[bucket_in] = "COLLECT"
      BY <1>5, <2>2 DEF Silence, Full, FalseAlarm
    <3>2. bucket_in' = NextIn /\ NextIn' = bucket_in
      BY <1>5, <1>i, <2>2 DEF Silence, NextIn
    <3> QED BY <1>5, <1>i, <2>2, <3>1, <3>2 DEF Silence, task
  <2> QED BY <2>1, <2>2
<1>6. CASE LookForOne \/ Release \/ Load \/ Store
  BY <1>6, <1>i, <1>n DEF LookForOne, Release, Load, Store, rings, buckets, history
<1>7. CASE Analyse \/ AnalyseFull
  <2>1. bucket_out = NextIn
    BY <1>7, <1>i DEF Analyse, AnalyseFull
  <2> QED BY <1>7, <1>i, <1>n, <2>1 DEF Analyse, AnalyseFull, rings
<1>8. CASE ResetInputState
  BY <1>8, <1>i, <1>n DEF ResetInputState, GiveUp, rings
<1>9. CASE Advance
  BY <1>9, <1>i, <1>n DEF Advance, buckets, history
<1>10. CASE UNCHANGED rfVars
  BY <1>10, <1>i, <1>n DEF rfVars, buckets, rings, task, history
<1> QED BY <1>1, <1>2, <1>3, <1>4, <1>5, <1>6, <1>7, <1>8, <1>9, <1>10 DEF RfNext, Edge, Task

(* For two buckets of any length and any number of frames, what is decoded *)
(* is a subsequence of the frames on the air: the receiver implements the  *)
(* lossy channel.                                                          *)
THEOREM FramesTheorem == RcvBuckets = 2 => (RfSpec => FramesInOrder)
<1> SUFFICES ASSUME RcvBuckets = 2 PROVE RfSpec => FramesInOrder
  OBVIOUS
<1>1. RfInit => Air!Init /\ OrderInv
  BY OrderInit DEF RfInit, Air!Init
<1>2. RingInv /\ OrderInv /\ [RfNext]_rfVars => OrderInv' /\ Moves
  BY OrderStep
<1> QED BY <1>1, <1>2, RingInvariance, PTL DEF RfSpec, FramesInOrder, Air!Spec, Moves

-----------------------------------------------------------------------------
(* The balance of frames.                                                  *)

Collecting == IF bucket_state[bucket_in] = "COLLECT" THEN 1 ELSE 0
Waiting == IF Waits THEN 1 ELSE 0
Balance == sent = delivered + lost + Collecting + Waiting

LEMMA BalanceStep ==
  ASSUME RcvBuckets = 2, RingInv, OrderInv, Balance, [RfNext]_rfVars
  PROVE  Balance'
<1> USE TwoBuckets DEF RingInv, RfTypeOK, IndexInv, OrderInv, Waits, Emptied, BucketState,
                       Balance, Collecting, Waiting
<1>i. NextIn \in Bucket /\ NextIn # bucket_in
  BY DEF NextIn
<1>1. CASE SyncBegins \/ SyncFails
  BY <1>1 DEF SyncBegins, SyncFails, rings, task, history
<1>2. CASE FrameBegins
  BY <1>2 DEF FrameBegins, GiveUp, rings, task
<1>3. CASE Bit
  BY <1>3 DEF Bit, rings, task, history
<1>4. CASE BadEdge \/ ItFails
  BY <1>4 DEF BadEdge, ItFails, ResetInput, GiveUp, rings, task
<1>5. CASE Silence
  <2>1. CASE FalseAlarm \/ Full
    BY <1>5, <2>1 DEF Silence, ResetInput, GiveUp, rings, task
  <2>2. CASE ~(FalseAlarm \/ Full)
    BY <1>5, <1>i, <2>2 DEF Silence, Full, FalseAlarm, NextIn, task
  <2> QED BY <2>1, <2>2
<1>6. CASE LookForOne \/ Load \/ Store
  BY <1>6 DEF LookForOne, Load, Store, rings, buckets, history
<1>7. CASE Release
  BY <1>7 DEF Release, rings, history
<1>8. CASE Analyse \/ AnalyseFull
  BY <1>8 DEF Analyse, AnalyseFull, rings
<1>9. CASE ResetInputState
  BY <1>9 DEF ResetInputState, GiveUp, rings
<1>10. CASE Advance
  BY <1>10 DEF Advance, buckets, history
<1>11. CASE UNCHANGED rfVars
  BY <1>11 DEF rfVars, buckets, rings, task, history
<1> QED BY <1>1, <1>2, <1>3, <1>4, <1>5, <1>6, <1>7, <1>8, <1>9, <1>10, <1>11
        DEF RfNext, Edge, Task

LEMMA BalanceAccounts ==
  ASSUME RcvBuckets = 2, RingInv, OrderInv, Balance
  PROVE  FramesAccounted
<1> USE TwoBuckets DEF RingInv, RfTypeOK, IndexInv, OrderInv, Waits, Emptied
<1>1. NextIn \in Bucket /\ NextIn # bucket_in /\ Bucket = {bucket_in, NextIn}
  BY DEF NextIn
<1>2. Undecoded(bucket_in) <=> bucket_state[bucket_in] = "COLLECT"
  BY DEF Undecoded
<1>3. Undecoded(NextIn) <=> Waits
  BY <1>1 DEF Undecoded
<1>4. /\ (\A b \in Bucket : Undecoded(b)) <=> bucket_state[bucket_in] = "COLLECT" /\ Waits
      /\ (\E b \in Bucket : Undecoded(b)) <=> bucket_state[bucket_in] = "COLLECT" \/ Waits
  BY <1>1, <1>2, <1>3, Zenon
<1> QED BY <1>4 DEF FramesAccounted, Balance, Collecting, Waiting

(* Every frame on the air is decoded, given up or in a bucket, whichever   *)
(* way the interrupts and the accesses of the task interleave, with the    *)
(* two buckets of board.h.                                                 *)
THEOREM AccountTheorem == RcvBuckets = 2 => (RfSpec => []FramesAccounted)
<1> SUFFICES ASSUME RcvBuckets = 2 PROVE RfSpec => []FramesAccounted
  OBVIOUS
<1>1. ASSUME RfInit PROVE OrderInv /\ Balance
  <2>1. Collecting = 0 /\ Waiting = 0
    BY <1>1, TwoBuckets DEF RfInit, Collecting, Waiting, Waits
  <2>2. sent = 0 /\ delivered = 0 /\ lost = 0
    BY <1>1 DEF RfInit
  <2> QED BY <1>1, <2>1, <2>2, OrderInit DEF Balance
<1>2. RingInv /\ OrderInv /\ Balance /\ [RfNext]_rfVars => OrderInv' /\ Balance'
  BY OrderStep, BalanceStep
<1>3. RingInv /\ OrderInv /\ Balance => FramesAccounted
  BY BalanceAccounts
<1> QED BY <1>1, <1>2, <1>3, RingInvariance, PTL DEF RfSpec

-----------------------------------------------------------------------------
(* The FHT conversation: its buffer.                                       *)

Entry == [peer : Peer, items : Message, at : Nat]

(* The operators of Fht about fht80b_buf, of any buffer b.                 *)
Places(b, p) == {k \in DOMAIN b : b[k].peer = p /\ \A j \in 1 .. k - 1 : b[j].peer # p}
Any(b, p) == Places(b, p) # {}
First(b, p) == b[CHOOSE k \in Places(b, p) : TRUE].items
End(b) == IF b = <<>> THEN 0 ELSE b[Len(b)].at + Size(b[Len(b)])

LEMMA AboutBuf ==
  ASSUME NEW p
  PROVE  /\ Look(p) = Places(buf, p) /\ (Awaited(p) <=> Any(buf, p))
         /\ Oldest(p) = First(buf, p)
         /\ Place(p) = CHOOSE k \in Places(buf, p) : TRUE
         /\ Used = End(buf)
  BY DEF Look, IsOldest, Places, Awaited, Any, Oldest, Place, First, Used, End

-----------------------------------------------------------------------------
(* Messages.                                                               *)

(* A message the host may queue is a sequence of items, and never empty.   *)
LEMMA MessageType ==
  ASSUME NEW m \in Message
  PROVE  /\ m \in Seq(Item) /\ Len(m) \in Nat \ {0} /\ DOMAIN m = 1 .. Len(m)
         /\ \A k \in DOMAIN m : m[k] \in Item /\ m[k].cmd \in Command /\ m[k].arg \in Nat
<1>1. m \in Seq(Item) /\ m # <<>>  BY MessageAssumption
<1>2. Len(m) \in Nat \ {0} /\ DOMAIN m = 1 .. Len(m)  BY <1>1
<1>3. \A k \in DOMAIN m : m[k] \in Item  BY <1>1, <1>2
<1> QED  BY <1>1, <1>2, <1>3 DEF Item

LEMMA SizeIsNat ==
  ASSUME NEW e \in Entry
  PROVE  /\ Size(e) \in Nat /\ e.at \in Nat /\ e.items \in Message /\ e.peer \in Peer
         /\ Size(e) > 0
<1>1. e.at \in Nat /\ e.items \in Message /\ e.peer \in Peer  BY DEF Entry
<1>2. Len(e.items) \in Nat  BY <1>1, MessageType
<1> QED  BY <1>1, <1>2 DEF Size

(* At most one place holds the oldest message for p.                       *)
LEMMA FirstIs ==
  ASSUME NEW b \in Seq(Entry), NEW p, NEW k \in Places(b, p)
  PROVE  /\ Any(b, p) /\ First(b, p) = b[k].items
         /\ (CHOOSE i \in Places(b, p) : TRUE) = k
         /\ k \in 1 .. Len(b) /\ b[k] \in Entry /\ b[k].peer = p
<1>1. Any(b, p)  BY DEF Any
<1>2. PICK l : l = CHOOSE i \in Places(b, p) : TRUE  OBVIOUS
<1>3. l \in Places(b, p)  BY <1>2
<1>4. DOMAIN b = 1 .. Len(b) /\ Len(b) \in Nat  OBVIOUS
<1>5. k \in 1 .. Len(b) /\ l \in 1 .. Len(b) /\ b[k].peer = p /\ b[l].peer = p
  BY <1>3, <1>4 DEF Places
<1>6. ~(k < l) /\ ~(l < k)
  BY <1>3, <1>4, <1>5 DEF Places
<1>7. k = l  BY <1>4, <1>5, <1>6
<1> QED  BY <1>1, <1>2, <1>5, <1>7 DEF First

LEMMA FirstType ==
  ASSUME NEW b \in Seq(Entry), NEW p, Any(b, p)
  PROVE  First(b, p) \in Message
<1>1. PICK k : k \in Places(b, p)  BY DEF Any
<1>2. First(b, p) = b[k].items /\ b[k] \in Entry  BY <1>1, FirstIs
<1> QED  BY <1>2, SizeIsNat

-----------------------------------------------------------------------------
(* The buffer.                                                             *)

(* The messages lie one behind the other, and fit.                         *)
Laid(b) ==
  /\ b \in Seq(Entry)
  /\ \A k \in DOMAIN b : b[k].at = IF k = 1 THEN 0 ELSE b[k - 1].at + Size(b[k - 1])
  /\ \A k \in DOMAIN b : \A j \in 1 .. k - 1 : b[j].at + Size(b[j]) <= b[k].at
  /\ End(b) <= BufSize

(* c has the oldest message for p that b has.                              *)
Keeps(b, c, p) == Any(b, p) => Any(c, p) /\ First(c, p) = First(b, p)

LEMMA EndIsNat ==
  ASSUME NEW b, Laid(b)
  PROVE  End(b) \in Nat
<1>1. CASE b = <<>>  BY <1>1 DEF End
<1>2. CASE b # <<>>
  <2>1. Len(b) \in 1 .. Len(b) /\ b[Len(b)] \in Entry  BY <1>2 DEF Laid
  <2> QED  BY <1>2, <2>1, SizeIsNat DEF End
<1> QED  BY <1>1, <1>2

(* fht_addbuf() puts a message behind the last one.                        *)
LEMMA AppendLaid ==
  ASSUME NEW b, Laid(b), NEW p \in Peer, NEW items \in Message,
         NEW m, m = [peer |-> p, items |-> items, at |-> End(b)],
         ~(End(b) + Size(m) > BufSize)
  PROVE  /\ Laid(Append(b, m)) /\ \A q : Keeps(b, Append(b, m), q)
<1> DEFINE c == Append(b, m)
<1>1. m \in Entry /\ m.at = End(b)  BY EndIsNat DEF Entry
<1>2. b \in Seq(Entry)  BY DEF Laid
<1>3. /\ c \in Seq(Entry) /\ Len(b) \in Nat /\ Len(c) = Len(b) + 1
      /\ DOMAIN b = 1 .. Len(b) /\ DOMAIN c = 1 .. Len(b) + 1
      /\ \A k \in 1 .. Len(b) : c[k] = b[k] /\ b[k] \in Entry
      /\ c[Len(b) + 1] = m
  BY <1>1, <1>2
<1>4. \A k \in 1 .. Len(b) + 1 : Size(c[k]) \in Nat /\ c[k].at \in Nat
  BY <1>3, <1>1, SizeIsNat
<1>5. b # <<>> => Len(b) \in 1 .. Len(b) /\ End(b) = b[Len(b)].at + Size(b[Len(b)])
  BY <1>2 DEF End
<1>6. b = <<>> => Len(b) = 0 /\ End(b) = 0  BY DEF End
<1>7. c # <<>> /\ End(c) = c[Len(c)].at + Size(c[Len(c)])
  BY <1>3 DEF End
<1> HIDE DEF c
<1>8. End(c) <= BufSize
  <2>1. End(c) = End(b) + Size(m)  BY <1>1, <1>3, <1>7
  <2> QED  BY <2>1, <1>1, EndIsNat, SizeIsNat, BoundAssumption
<1>9. ASSUME NEW k \in DOMAIN c
      PROVE  c[k].at = IF k = 1 THEN 0 ELSE c[k - 1].at + Size(c[k - 1])
  <2>1. CASE k \in 1 .. Len(b)
    <3>1. k = 1 \/ k - 1 \in 1 .. Len(b)  BY <2>1, <1>3
    <3> QED  BY <2>1, <3>1, <1>3 DEF Laid
  <2>2. CASE k = Len(b) + 1
    <3>1. CASE b = <<>>  BY <3>1, <2>2, <1>1, <1>3, <1>6
    <3>2. CASE b # <<>>
      <4>1. k # 1 /\ k - 1 = Len(b)  BY <3>2, <2>2, <1>3, <1>5
      <4>2. c[k - 1] = b[Len(b)]  BY <3>2, <4>1, <1>3, <1>5
      <4> QED  BY <4>1, <4>2, <3>2, <2>2, <1>1, <1>3, <1>5
    <3> QED  BY <3>1, <3>2
  <2> QED  BY <2>1, <2>2, <1>3
<1>10. ASSUME NEW k \in DOMAIN c, NEW j \in 1 .. k - 1
       PROVE  c[j].at + Size(c[j]) <= c[k].at
  <2>1. j \in 1 .. Len(b) /\ c[j] = b[j]  BY <1>3
  <2>2. CASE k \in 1 .. Len(b)  BY <2>1, <2>2, <1>3 DEF Laid
  <2>3. CASE k = Len(b) + 1
    <3>1. b # <<>> /\ c[k].at = b[Len(b)].at + Size(b[Len(b)])
      BY <2>1, <2>3, <1>1, <1>3, <1>5, <1>6
    <3>2. CASE j = Len(b)
      BY <3>1, <3>2, <2>1, <1>3, <1>4, <1>5
    <3>3. CASE j # Len(b)
      <4>1. j \in 1 .. Len(b) - 1
        <5>1. Len(b) \in Nat  BY <1>3
        <5> QED  BY <3>3, <2>1, <5>1
      <4>2. b[j].at + Size(b[j]) <= b[Len(b)].at
        BY <4>1, <3>1, <1>3, <1>5 DEF Laid
      <4>3. Size(b[Len(b)]) \in Nat /\ b[Len(b)].at \in Nat /\ b[j].at \in Nat /\ Size(b[j]) \in Nat
        BY <1>3, <1>5, <3>1, <2>1, SizeIsNat
      <4> QED  BY <4>2, <4>3, <3>1, <2>1
    <3> QED  BY <3>2, <3>3
  <2> QED  BY <2>2, <2>3, <1>3
<1>11. ASSUME NEW q PROVE Keeps(b, c, q)
  <2>1. SUFFICES ASSUME Any(b, q) PROVE Any(c, q) /\ First(c, q) = First(b, q)
    BY DEF Keeps
  <2>2. PICK k : k \in Places(b, q)  BY <2>1 DEF Any
  <2>3. k \in 1 .. Len(b) /\ First(b, q) = b[k].items  BY <2>2, <1>2, FirstIs
  <2>4. k \in Places(c, q)
    <3>1. b[k].peer = q /\ \A j \in 1 .. k - 1 : b[j].peer # q  BY <2>2 DEF Places
    <3>2. \A j \in 1 .. k - 1 : j \in 1 .. Len(b)  BY <2>3, <1>3
    <3> QED  BY <3>1, <3>2, <2>3, <1>3 DEF Places
  <2>5. Any(c, q) /\ First(c, q) = c[k].items  BY <2>4, <1>3, FirstIs
  <2> QED  BY <2>3, <2>5, <1>3
<1> QED  BY <1>3, <1>8, <1>9, <1>10, <1>11 DEF Laid, c

(* fht_delbuf() closes the gap the message leaves.                         *)
LEMMA DeleteLaid ==
  ASSUME NEW b, Laid(b), NEW p, NEW k \in Places(b, p),
         NEW c, c = [j \in 1 .. Len(b) - 1 |->
                       IF j < k THEN b[j] ELSE Moved(b[j + 1], Size(b[k]))]
  PROVE  Laid(c) /\ Len(c) < Len(b) /\ \A q : q # p => Keeps(b, c, q)
<1>1. b \in Seq(Entry) /\ Len(b) \in Nat /\ DOMAIN b = 1 .. Len(b)  BY DEF Laid
<1>2. k \in 1 .. Len(b) /\ b[k] \in Entry /\ b[k].peer = p  BY <1>1, FirstIs
<1>3. \A j \in 1 .. Len(b) :
        /\ b[j] \in Entry /\ Size(b[j]) \in Nat /\ b[j].at \in Nat
        /\ b[j].items \in Message /\ b[j].peer \in Peer
  BY <1>1, SizeIsNat
<1> DEFINE sz == Size(b[k])
<1>4. sz \in Nat  BY <1>2, <1>3
<1>5. ASSUME NEW j \in 1 .. Len(b) - 1, ~(j < k)
      PROVE  /\ c[j] = Moved(b[j + 1], sz)
             /\ c[j].peer = b[j + 1].peer /\ c[j].items = b[j + 1].items
             /\ c[j].at = b[j + 1].at - sz
             /\ c[j] \in Entry /\ Size(c[j]) = Size(b[j + 1])
  <2>1. c[j] = Moved(b[j + 1], sz)  BY <1>5
  <2>2. j + 1 \in 1 .. Len(b) /\ k \in 1 .. (j + 1) - 1  BY <1>5, <1>1, <1>2
  <2>3. PICK e : e = b[j + 1]  OBVIOUS
  <2>4. e \in Entry /\ e.at \in Nat /\ e.items \in Message /\ e.peer \in Peer
    BY <2>2, <2>3, <1>3
  <2>5. b[k].at + sz <= e.at  BY <2>2, <2>3, <1>1 DEF Laid
  <2>6. b[k].at \in Nat /\ e.at - sz \in Nat  BY <2>4, <2>5, <1>2, <1>3, <1>4
  <2>7. Moved(e, sz) = [peer |-> e.peer, items |-> e.items, at |-> e.at - sz]
    BY <2>4 DEF Moved, Entry
  <2>8. Moved(e, sz) \in Entry  BY <2>4, <2>6, <2>7 DEF Entry
  <2>9. Moved(e, sz).items = e.items /\ Moved(e, sz).peer = e.peer /\ Moved(e, sz).at = e.at - sz
    BY ONLY <2>7
  <2>10. Size(Moved(e, sz)) = Size(e)  BY ONLY <2>9 DEF Size
  <2> HIDE DEF sz
  <2> QED  BY ONLY <2>1, <2>3, <2>8, <2>9, <2>10
<1>6. ASSUME NEW j \in 1 .. Len(b) - 1, j < k  PROVE c[j] = b[j] /\ j \in 1 .. Len(b)
  BY <1>6, <1>1
<1>7. c \in Seq(Entry) /\ Len(c) = Len(b) - 1 /\ DOMAIN c = 1 .. Len(b) - 1
  <2>1. Len(b) - 1 \in Nat  BY <1>1, <1>2
  <2>2. \A j \in 1 .. Len(b) - 1 : c[j] \in Entry  BY <1>3, <1>5, <1>6
  <2>3. c \in [1 .. Len(b) - 1 -> Entry]  BY <2>2
  <2> QED  BY <2>1, <2>3
<1> HIDE DEF sz
<1>8. ASSUME NEW j \in DOMAIN c
      PROVE  c[j].at = IF j = 1 THEN 0 ELSE c[j - 1].at + Size(c[j - 1])
  <2>1. CASE j < k
    <3>1. j = 1 \/ (j - 1 \in 1 .. Len(b) - 1 /\ j - 1 < k)
      <4>1. j \in 1 .. Len(b) - 1 /\ Len(b) \in Nat /\ k \in 1 .. Len(b)  BY <1>1, <1>2, <1>7
      <4> QED  BY ONLY <4>1, <2>1
    <3> QED  BY <2>1, <3>1, <1>1, <1>6, <1>7 DEF Laid
  <2>2. CASE j = k
    <3>1. c[j].at = b[j + 1].at - sz /\ j + 1 \in DOMAIN b /\ j + 1 # 1 /\ (j + 1) - 1 = k
      BY <2>2, <1>1, <1>2, <1>5, <1>7
    <3>2. b[j + 1].at = b[k].at + sz  BY <3>1 DEF Laid, sz
    <3>3. c[j].at = b[k].at  BY <3>1, <3>2, <1>2, <1>3, <1>4
    <3>4. b[k].at = IF k = 1 THEN 0 ELSE b[k - 1].at + Size(b[k - 1])
      BY <1>1, <1>2 DEF Laid
    <3>5. k # 1 => k - 1 \in 1 .. Len(b) - 1 /\ k - 1 < k  BY <1>1, <1>2
    <3>6. CASE k = 1  BY <2>2, <3>3, <3>4, <3>6
    <3>7. CASE k # 1
      <4>1. c[k - 1] = b[k - 1]  BY <3>5, <3>7, <1>6
      <4>2. c[j].at = b[k - 1].at + Size(b[k - 1])  BY ONLY <3>3, <3>4, <3>7
      <4> QED  BY ONLY <2>2, <3>7, <4>1, <4>2
    <3> QED  BY <3>6, <3>7
  <2>3. CASE k < j
    <3>1. /\ j \in 1 .. Len(b) - 1 /\ ~(j < k) /\ j - 1 \in 1 .. Len(b) - 1 /\ ~(j - 1 < k)
          /\ (j - 1) + 1 = j /\ j # 1 /\ j + 1 \in 1 .. Len(b) /\ j \in 1 .. Len(b)
          /\ j + 1 # 1 /\ (j + 1) - 1 = j
      BY <2>3, <1>1, <1>2, <1>7
    <3>2. c[j].at = b[j + 1].at - sz  BY <3>1, <1>5
    <3>3. c[j - 1].at = b[j].at - sz /\ Size(c[j - 1]) = Size(b[j])  BY <3>1, <1>5
    <3>4. b[j + 1].at = b[j].at + Size(b[j])  BY <3>1, <1>1 DEF Laid
    <3>5. b[j].at \in Nat /\ Size(b[j]) \in Nat  BY <3>1, <1>3
    <3> QED  BY <3>1, <3>2, <3>3, <3>4, <3>5, <1>4
  <2> QED  BY <2>1, <2>2, <2>3, <1>2, <1>7
<1>9. ASSUME NEW j \in DOMAIN c, NEW i \in 1 .. j - 1
      PROVE  c[i].at + Size(c[i]) <= c[j].at
  <2>1. j \in 1 .. Len(b) - 1 /\ i \in 1 .. Len(b) - 1 /\ i < j /\ i \in 1 .. Len(b)
        /\ j \in 1 .. Len(b) /\ j + 1 \in 1 .. Len(b) /\ i + 1 \in 1 .. Len(b)
        /\ i \in 1 .. (j + 1) - 1 /\ i + 1 \in 1 .. (j + 1) - 1
    BY <1>1, <1>7
  <2>2. /\ b[i].at + Size(b[i]) <= b[j].at
        /\ b[i + 1].at + Size(b[i + 1]) <= b[j + 1].at
    BY <2>1, <1>1 DEF Laid
  <2>3. CASE j < k  BY <2>1, <2>2, <2>3, <1>2, <1>6
  <2>4. CASE ~(j < k) /\ i < k
    <3>1. c[i] = b[i] /\ c[j].at = b[j + 1].at - sz  BY <2>1, <2>4, <1>5, <1>6
    <3>2. k \in 1 .. (j + 1) - 1 /\ (i \in 1 .. k - 1)  BY <2>1, <2>4, <1>2
    <3>3. b[k].at + sz <= b[j + 1].at  BY <3>2, <2>1, <1>1 DEF Laid, sz
    <3>4. b[i].at + Size(b[i]) <= b[k].at  BY <3>2, <1>1, <1>2 DEF Laid
    <3>5. b[i].at \in Nat /\ Size(b[i]) \in Nat /\ b[k].at \in Nat /\ b[j + 1].at \in Nat
      BY <2>1, <1>2, <1>3
    <3>6. b[i].at + Size(b[i]) <= b[j + 1].at - sz  BY ONLY <3>3, <3>4, <3>5, <1>4
    <3> QED  BY ONLY <3>1, <3>6
  <2>5. CASE ~(j < k) /\ ~(i < k)
    <3>1. /\ c[i].at = b[i + 1].at - sz /\ Size(c[i]) = Size(b[i + 1])
          /\ c[j].at = b[j + 1].at - sz
      BY <2>1, <2>5, <1>5
    <3>2. b[i + 1].at \in Nat /\ Size(b[i + 1]) \in Nat /\ b[j + 1].at \in Nat
      BY <2>1, <1>3
    <3>3. b[i + 1].at - sz + Size(b[i + 1]) <= b[j + 1].at - sz  BY ONLY <3>2, <2>2, <1>4
    <3> QED  BY ONLY <3>1, <3>3
  <2> QED  BY <2>3, <2>4, <2>5
<1>10. End(c) <= BufSize
  <2>1. CASE c = <<>>  BY <2>1, BoundAssumption DEF End
  <2>2. CASE c # <<>>
    <3>1. Len(c) \in 1 .. Len(b) - 1 /\ End(c) = c[Len(c)].at + Size(c[Len(c)])
      BY <2>2, <1>7 DEF End
    <3>2. b # <<>> /\ Len(b) \in 1 .. Len(b) /\ Len(c) + 1 = Len(b) /\ Len(c) \in 1 .. Len(b)
      BY <3>1, <1>1, <1>2, <1>7
    <3>3. b[Len(b)].at + Size(b[Len(b)]) <= BufSize  BY <3>2 DEF Laid, End
    <3>4. /\ b[Len(b)].at \in Nat /\ Size(b[Len(b)]) \in Nat
          /\ b[Len(c)].at \in Nat /\ Size(b[Len(c)]) \in Nat
      BY <3>2, <1>3
    <3>5. CASE Len(c) < k
      <4>1. c[Len(c)] = b[Len(c)]  BY <3>1, <3>5, <1>6
      <4>2. Len(c) \in 1 .. Len(b) - 1  BY <3>1
      <4>3. b[Len(c)].at + Size(b[Len(c)]) <= b[Len(b)].at
        BY <4>2, <3>2, <1>1 DEF Laid
      <4> QED  BY <4>1, <4>3, <3>1, <3>3, <3>4, BoundAssumption, SMTT(30)
    <3>6. CASE ~(Len(c) < k)
      <4>1. c[Len(c)].at = b[Len(b)].at - sz /\ Size(c[Len(c)]) = Size(b[Len(b)])
        BY <3>1, <3>2, <3>6, <1>5
      <4> QED  BY <4>1, <3>1, <3>3, <3>4, <1>4, BoundAssumption, SMTT(30)
    <3> QED  BY <3>5, <3>6
  <2> QED  BY <2>1, <2>2
<1>11. ASSUME NEW q, q # p  PROVE Keeps(b, c, q)
  <2>1. SUFFICES ASSUME Any(b, q) PROVE Any(c, q) /\ First(c, q) = First(b, q)
    BY DEF Keeps
  <2>2. PICK l : l \in Places(b, q)  BY <2>1 DEF Any
  <2>3. l \in 1 .. Len(b) /\ First(b, q) = b[l].items /\ b[l].peer = q
    BY <2>2, <1>1, FirstIs
  <2>4. \A j \in 1 .. l - 1 : b[j].peer # q  BY <2>2 DEF Places
  <2>5. l # k  BY <2>3, <1>2, <1>11
  <2>6. CASE l < k
    <3>1. l \in 1 .. Len(b) - 1 /\ l \in DOMAIN c /\ c[l] = b[l]
      BY <2>3, <2>6, <1>1, <1>2, <1>6, <1>7
    <3>2. ASSUME NEW j \in 1 .. l - 1  PROVE c[j].peer # q
      <4>1. j \in 1 .. Len(b) - 1 /\ j < k  BY <2>3, <2>6, <1>1, <1>2
      <4> QED  BY <4>1, <2>4, <1>6
    <3>3. l \in Places(c, q)  BY <3>1, <3>2, <2>3 DEF Places
    <3>4. Any(c, q) /\ First(c, q) = c[l].items  BY <3>3, <1>7, FirstIs
    <3> QED  BY <3>1, <3>4, <2>3
  <2>7. CASE k < l
    <3> DEFINE i == l - 1
    <3>1. i \in 1 .. Len(b) - 1 /\ ~(i < k) /\ i + 1 = l /\ i \in DOMAIN c
      BY <2>3, <2>7, <1>1, <1>2, <1>7
    <3> HIDE DEF i
    <3>2. c[i].peer = q /\ c[i].items = b[l].items  BY <3>1, <2>3, <1>5
    <3>3. ASSUME NEW j \in 1 .. i - 1  PROVE c[j].peer # q
      <4>1. j \in 1 .. Len(b) - 1 /\ j \in 1 .. l - 1 /\ j + 1 \in 1 .. l - 1
        BY <3>1, <2>3, <1>1
      <4>2. CASE j < k  BY <4>1, <4>2, <2>4, <1>6
      <4>3. CASE ~(j < k)
        <5>1. c[j].peer = b[j + 1].peer  BY <4>1, <4>3, <1>5
        <5> QED  BY <5>1, <4>1, <2>4
      <4> QED  BY <4>2, <4>3
    <3>4. i \in Places(c, q)  BY <3>1, <3>2, <3>3 DEF Places
    <3>5. Any(c, q) /\ First(c, q) = c[i].items  BY <3>4, <1>7, FirstIs
    <3> QED  BY <3>2, <3>5, <2>3
  <2> QED  BY <2>5, <2>6, <2>7, <2>3, <1>1, <1>2
<1>12. Laid(c)  BY <1>7, <1>8, <1>9, <1>10 DEF Laid
<1>13. Len(c) < Len(b)
  <2>1. Len(c) = Len(b) - 1 /\ Len(b) \in Nat  BY <1>1, <1>7
  <2> QED  BY ONLY <2>1
<1> QED  BY <1>11, <1>12, <1>13

-----------------------------------------------------------------------------
(* The inductive invariant.                                                *)

Pair(packet) == [cmd |-> packet.cmd, arg |-> packet.arg]

(* The acknowledgements of p's oldest message can be told apart, and no    *)
(* new house code has come in between.                                     *)
Sure(b, p, br) == p \notin br /\ Distinct(First(b, p))

(* Where a conversation with p is, in state s, awaiting l and at offset n: *)
(* at an item, or, if fht_addbuf() has moved the offset, between two.      *)
Begins(s, l) == s \in {0, 1, 2, Foreign} \/ (s = 3 /\ l = Silent)

InPlace(b, s, l, n, p) ==
  /\ n # 0 /\ l # Junk
  /\ s \in {1, 2, 3} => n <= Len(First(b, p))
  /\ l # Silent => l = First(b, p)[n].cmd
  /\ Begins(s, l) => n = 1

OutOfPlace(b, s, l, n, p) ==
  /\ s \in {1, 2, 3} => n <= Len(First(b, p)) + 1
  /\ Begins(s, l) => n = 0

(* It has a message to hand over, and awaits the answer l to an item.      *)
Talk(b, s, l, n, d, p) ==
  /\ s \in {0, 1, 2, 3, 5, 6, Foreign} /\ d \in BOOLEAN
  /\ l \in Command \cup {Silent, Junk} /\ n \in Nat
  /\ s \notin {0, Foreign} => p \in Peer /\ Any(b, p)
  /\ l # Silent => s = 3
  /\ IF d THEN OutOfPlace(b, s, l, n, p) ELSE InPlace(b, s, l, n, p)

(* A packet with an item has one of the oldest message, and the items      *)
(* before it have been heard.                                              *)
Offered(b, o, g, br) ==
  o.cmd \in Command =>
    /\ Any(b, o.peer)
    /\ \E k \in DOMAIN First(b, o.peer) :
         /\ First(b, o.peer)[k] = Pair(o)
         /\ Sure(b, o.peer, br) => \A j \in 1 .. k - 1 : First(b, o.peer)[j] \in g[o.peer]

Packet(o) == o.talk => o.peer \in Peer /\ o.cmd \in Command \cup Protocol \cup {Junk}

(* What the timer would repeat: the item whose answer is awaited, or, if   *)
(* none is, a packet of the protocol.                                      *)
Repeats(b, l, n, d, g, br, o) ==
  /\ Packet(o)
  /\ o.talk =>
       /\ l = Silent => o.cmd \in Protocol
       /\ l # Silent => o.cmd = l
       /\ Offered(b, o, g, br)
       /\ ~d /\ o.cmd \in Command => Pair(o) = First(b, o.peer)[n]

Running(ticks, count) == ticks # TimerDisabled /\ count > 0

(* The items of p's message before the one the conversation has got to     *)
(* have been heard, and that one too, if it is the last p has heard; all   *)
(* have been heard when the conversation is past them.                     *)
Progress(b, s, l, n, d, p, h, g, br) ==
  ~d /\ Sure(b, p, br) =>
    /\ l # Silent =>
         /\ \A j \in 1 .. n - 1 : First(b, p)[j] \in g[p]
         /\ h[p] = l => First(b, p)[n] \in g[p]
    /\ s \in {5, 6} => Items(First(b, p)) \subseteq g[p]

(* An FHT answers what it has heard last.                                  *)
Answering(h, t) == \A p \in Peer : t[p] \in {Silent, h[p], "CAN_RCV"}

(* An item heard last is one of the oldest message, and the items before   *)
(* it have been heard as well.                                             *)
InOrder(b, h, g, br) ==
  \A p \in Peer : p \notin br /\ h[p] \in Command =>
    /\ Any(b, p)
    /\ Sure(b, p, br) =>
         \E n \in DOMAIN First(b, p) :
           First(b, p)[n].cmd = h[p] /\ \A j \in 1 .. n : First(b, p)[j] \in g[p]

(* The answer to an item comes from an FHT that has heard that item last,  *)
(* and the answer that ends a conversation from one that has heard         *)
(* something else.                                                         *)
Spoken(s, l, p, h, a) ==
  a.peer = p =>
    /\ l # Silent /\ a.cmd = l => h[p] = l
    /\ s = 6 /\ a.cmd = "END_XMIT" => h[p] \notin Command

PeersType(h, t, g, br) ==
  /\ h \in [Peer -> Said] /\ t \in [Peer -> Said]
  /\ g \in [Peer -> SUBSET Item] /\ br \subseteq Peer

TimerType(ticks, count) == ticks \in 0 .. WaitTicks \cup {TimerDisabled} /\ count \in 0 .. 1

Peers(b, h, t, g, br) == PeersType(h, t, g, br) /\ Answering(h, t) /\ InOrder(b, h, g, br)

Inv ==
  /\ on \in BOOLEAN /\ (air # Nothing => air.peer \in Peer)
  /\ queued \in 0 .. MaxQueued /\ noise \in 0 .. MaxNoise
  /\ TimerType(timeout, repeatcnt)
  /\ Laid(buf)
  /\ Talk(buf, state, ldata, bufoff, shifted, out.peer)
  /\ Peers(buf, heard, todo, got, broken)
  /\ Running(timeout, repeatcnt) => Repeats(buf, ldata, bufoff, shifted, got, broken, out)
  /\ Progress(buf, state, ldata, bufoff, shifted, out.peer, heard, got, broken)
  /\ Spoken(state, ldata, out.peer, heard, air)

LEMMA InvType == Inv => TypeOK
<1> SUFFICES ASSUME Inv PROVE TypeOK  OBVIOUS
<1>1. /\ on \in BOOLEAN /\ (air # Nothing => air.peer \in Peer)
      /\ queued \in 0 .. MaxQueued /\ noise \in 0 .. MaxNoise
      /\ timeout \in 0 .. WaitTicks \cup {TimerDisabled} /\ repeatcnt \in 0 .. 1
      /\ heard \in [Peer -> Said] /\ todo \in [Peer -> Said]
      /\ got \in [Peer -> SUBSET Item] /\ broken \subseteq Peer
  BY Zenon DEF Inv, TimerType, Peers, PeersType
<1>2. /\ buf \in Seq([peer : Peer, items : Message, at : Nat])
      /\ \A k \in DOMAIN buf :
           buf[k].at = IF k = 1 THEN 0 ELSE buf[k - 1].at + Size(buf[k - 1])
      /\ Used <= BufSize
  BY AboutBuf DEF Inv, Laid, Entry
<1>3. /\ state \in {0, 1, 2, 3, 5, 6, Foreign} /\ shifted \in BOOLEAN
      /\ ldata \in Command \cup {Silent, Junk} /\ bufoff \in Nat
      /\ state \notin {0, Foreign} => out.peer \in Peer /\ Awaited(out.peer)
      /\ state \in 1 .. 3 => Has(out.peer, bufoff, shifted)
      /\ ldata # Silent => state = 3
      /\ ~shifted => bufoff # 0
      /\ ldata # Silent /\ ~shifted => ldata = Get(out.peer, bufoff, shifted).cmd
  <2>1. Talk(buf, state, ldata, bufoff, shifted, out.peer)  BY DEF Inv
  <2>2. state \in 1 .. 3 => state \in {1, 2, 3} /\ state \notin {0, Foreign}
    BY <2>1 DEF Talk, Foreign
  <2>3. state \in 1 .. 3 =>
          Any(buf, out.peer) /\ bufoff <= Len(First(buf, out.peer)) + (IF shifted THEN 1 ELSE 0)
    <3>1. CASE shifted  BY <3>1, <2>1, <2>2 DEF Talk, OutOfPlace
    <3>2. CASE ~shifted
      <4>1. ASSUME state \in 1 .. 3
            PROVE  Any(buf, out.peer) /\ bufoff <= Len(First(buf, out.peer))
        BY <3>2, <4>1, <2>1, <2>2 DEF Talk, InPlace
      <4>2. Any(buf, out.peer) => Len(First(buf, out.peer)) \in Nat
        BY FirstType, MessageType DEF Inv, Laid
      <4> QED  BY <3>2, <4>1, <4>2
    <3> QED  BY <3>1, <3>2
  <2>4. state \in 1 .. 3 => Has(out.peer, bufoff, shifted)
    BY <2>3, AboutBuf DEF Has
  <2>5. ~shifted => InPlace(buf, state, ldata, bufoff, out.peer)  BY <2>1 DEF Talk
  <2>6. ldata # Silent /\ ~shifted => ldata = Get(out.peer, bufoff, shifted).cmd
    BY <2>5, AboutBuf DEF InPlace, Get
  <2> QED  BY <2>1, <2>4, <2>5, <2>6, AboutBuf DEF Talk, InPlace
<1> QED  BY <1>1, <1>2, <1>3 DEF TypeOK

LEMMA Commands ==
  ASSUME NEW c \in Command
  PROVE  c # Silent /\ c # Junk /\ c \notin Protocol /\ c \notin Report
  BY CommandAssumption

LEMMA JunkIs ==
  /\ Junk # Silent /\ Junk \notin Command /\ Junk \notin Protocol /\ Junk \notin Report
<1>1. Junk # Silent /\ Junk \notin Protocol /\ Junk \notin Report
  BY DEF Junk, Silent, Protocol, Report
<1> QED  BY <1>1, CommandAssumption

(* What keeps the oldest messages keeps what is said of them.              *)
LEMMA KeepsTalk ==
  ASSUME NEW b, NEW c, NEW s, NEW l, NEW n, NEW d, NEW p, Talk(b, s, l, n, d, p), Keeps(b, c, p)
  PROVE  /\ Talk(c, s, l, n, d, p)
         /\ \A h, g, br : Progress(b, s, l, n, d, p, h, g, br) =>
                          Progress(c, s, l, n, d, p, h, g, br)
<1>1. s \notin {0, Foreign} => Any(b, p) /\ Any(c, p) /\ First(c, p) = First(b, p)
  BY DEF Talk, Keeps
<1>2. l # Silent => s = 3  BY DEF Talk
<1>3. s \in {1, 2, 3, 5, 6} => s \notin {0, Foreign}  BY DEF Foreign
<1>4. OutOfPlace(b, s, l, n, p) => OutOfPlace(c, s, l, n, p)
  BY <1>1, <1>3, Zenon DEF OutOfPlace
<1>5. InPlace(b, s, l, n, p) => InPlace(c, s, l, n, p)
  BY <1>1, <1>2, <1>3, Zenon DEF InPlace
<1>6. Talk(c, s, l, n, d, p)  BY <1>1, <1>4, <1>5, Zenon DEF Talk
<1>7. ASSUME NEW h, NEW g, NEW br, Progress(b, s, l, n, d, p, h, g, br)
      PROVE  Progress(c, s, l, n, d, p, h, g, br)
  BY <1>1, <1>2, <1>3, <1>7, Zenon DEF Progress, Sure
<1> QED  BY <1>6, <1>7

LEMMA KeepsRepeats ==
  ASSUME NEW b, NEW c, NEW l, NEW n, NEW d, NEW g, NEW br, NEW o, 
         Keeps(b, c, o.peer), Repeats(b, l, n, d, g, br, o)
  PROVE  Repeats(c, l, n, d, g, br, o)
<1>1. Offered(b, o, g, br) =>
        /\ Offered(c, o, g, br)
        /\ o.cmd \in Command => First(c, o.peer) = First(b, o.peer)
  BY Zenon DEF Offered, Keeps, Sure
<1> QED  BY <1>1, Zenon DEF Repeats

(* What has been heard is not forgotten while a packet is repeated.        *)
LEMMA RepeatsGrows ==
  ASSUME NEW b, NEW l, NEW n, NEW d, NEW g, NEW f, NEW br, NEW o,
         \A p \in Peer : g[p] \subseteq f[p], Repeats(b, l, n, d, g, br, o)
  PROVE  Repeats(b, l, n, d, f, br, o)
<1>1. ASSUME o.peer \in Peer, Offered(b, o, g, br)  PROVE Offered(b, o, f, br)
  <2>1. g[o.peer] \subseteq f[o.peer]  BY <1>1
  <2> QED  BY <2>1, <1>1, Zenon DEF Offered
<1> QED  BY <1>1, Zenon DEF Repeats, Packet

LEMMA KeepsPeers ==
  ASSUME NEW b, NEW c, NEW h, NEW t, NEW g, NEW br, Peers(b, h, t, g, br),
         \A p \in Peer : p \notin br /\ h[p] \in Command => Keeps(b, c, p)
  PROVE  Peers(c, h, t, g, br)
<1>1. InOrder(c, h, g, br)
  <2>1. SUFFICES ASSUME NEW p \in Peer, p \notin br, h[p] \in Command
                 PROVE  /\ Any(c, p)
                        /\ Sure(c, p, br) =>
                             \E n \in DOMAIN First(c, p) :
                               First(c, p)[n].cmd = h[p] /\ \A j \in 1 .. n : First(c, p)[j] \in g[p]
    BY DEF InOrder
  <2>2. Keeps(b, c, p)  BY <2>1
  <2>3. /\ Any(b, p)
        /\ Sure(b, p, br) =>
             \E n \in DOMAIN First(b, p) :
               First(b, p)[n].cmd = h[p] /\ \A j \in 1 .. n : First(b, p)[j] \in g[p]
    BY <2>1 DEF Peers, InOrder
  <2> QED  BY <2>2, <2>3, Zenon DEF Keeps, Sure
<1> QED  BY <1>1 DEF Peers

-----------------------------------------------------------------------------
(* Packets.                                                                *)

(* What the FHTs know when a packet has been transmitted, or lost.         *)
Sent(packet) ==
  /\ Peers(buf, heard', todo', got', broken')
  /\ broken' = broken /\ noise' \in 0 .. MaxNoise
  /\ \A p \in Peer : got[p] \subseteq got'[p]
  /\ \A p \in Peer : heard'[p] # heard[p] \/ packet.peer = p =>
       \/ heard'[p] = heard[p] /\ got'[p] = got[p]
       \/ /\ packet.talk /\ packet.peer = p /\ heard'[p] = packet.cmd
          /\ packet.cmd \in Command => Pair(packet) \in got'[p]

LEMMA TransmitEffect ==
  ASSUME Laid(buf), Peers(buf, heard, todo, got, broken), noise \in 0 .. MaxNoise,
         NEW packet, Transmit(packet), Packet(packet),
         packet.talk => Offered(buf, packet, got, broken)
  PROVE  Sent(packet)
<1>1. CASE UNCHANGED peers /\ (Noise \/ UNCHANGED noise)
  <2>1. heard' = heard /\ todo' = todo /\ got' = got /\ broken' = broken
    BY <1>1 DEF peers
  <2>2. noise' \in 0 .. MaxNoise  BY <1>1, BoundAssumption DEF Noise
  <2> QED  BY <2>1, <2>2, Zenon DEF Sent
<1>2. CASE /\ packet.talk
           /\ heard' = [heard EXCEPT ![packet.peer] = packet.cmd]
           /\ todo' = [todo EXCEPT ![packet.peer] = packet.cmd]
           /\ got' = IF packet.cmd \in Command
                     THEN [got EXCEPT ![packet.peer] = @ \cup {[cmd |-> packet.cmd, arg |-> packet.arg]}]
                     ELSE got
           /\ UNCHANGED <<broken, noise>>
  <2> DEFINE pp == packet.peer
             cc == packet.cmd
  <2>1. pp \in Peer /\ cc \in Said  BY <1>2 DEF Said, Packet
  <2>2. /\ heard \in [Peer -> Said] /\ todo \in [Peer -> Said]
        /\ got \in [Peer -> SUBSET Item] /\ broken \subseteq Peer
    BY Zenon DEF Peers, PeersType
  <2>3. ASSUME cc \in Command
        PROVE  /\ Pair(packet) \in Item /\ Pair(packet).cmd = cc /\ Any(buf, pp)
               /\ \E n \in DOMAIN First(buf, pp) :
                    /\ First(buf, pp)[n] = Pair(packet)
                    /\ DOMAIN First(buf, pp) \subseteq Nat
                    /\ Sure(buf, pp, broken) => \A j \in 1 .. n - 1 : First(buf, pp)[j] \in got[pp]
    <3>1. Any(buf, pp)  BY <1>2, <2>3 DEF Offered
    <3>2. First(buf, pp) \in Message  BY <3>1, FirstType DEF Laid
    <3>3. \A n \in DOMAIN First(buf, pp) : n \in Nat /\ First(buf, pp)[n] \in Item
      BY <3>2, MessageType
    <3>4. \E n \in DOMAIN First(buf, pp) :
            /\ First(buf, pp)[n] = Pair(packet)
            /\ Sure(buf, pp, broken) => \A j \in 1 .. n - 1 : First(buf, pp)[j] \in got[pp]
      BY <1>2, <2>3 DEF Offered
    <3>5. Pair(packet).cmd = cc  BY DEF Pair
    <3> QED  BY <3>1, <3>3, <3>4, <3>5
  <2>4. cc \in Command => got' = [got EXCEPT ![pp] = @ \cup {Pair(packet)}]
    BY <1>2 DEF Pair
  <2>5. cc \notin Command => got' = got  BY <1>2
  <2>6. heard' = [heard EXCEPT ![pp] = cc] /\ todo' = [todo EXCEPT ![pp] = cc]
        /\ broken' = broken /\ noise' = noise /\ packet.talk
    BY <1>2
  <2> HIDE DEF pp, cc
  <2>7. /\ heard' \in [Peer -> Said] /\ todo' \in [Peer -> Said]
        /\ heard'[pp] = cc /\ todo'[pp] = cc
        /\ \A p \in Peer : p # pp => heard'[p] = heard[p] /\ todo'[p] = todo[p]
    BY <2>1, <2>2, <2>6
  <2>8. /\ got' \in [Peer -> SUBSET Item]
        /\ \A p \in Peer : p # pp => got'[p] = got[p]
        /\ \A p \in Peer : got[p] \subseteq got'[p]
        /\ cc \in Command => Pair(packet) \in got'[pp]
    <3>1. CASE cc \in Command
      <4>1. Pair(packet) \in Item  BY <2>3, <3>1
      <4>2. got[pp] \in SUBSET Item  BY <2>1, <2>2
      <4> QED  BY <4>1, <4>2, <2>1, <2>2, <2>4, <3>1
    <3>2. CASE cc \notin Command  BY <3>2, <2>2, <2>5
    <3> QED  BY <3>1, <3>2
  <2>9. Answering(heard', todo')
    <3>1. Answering(heard, todo)  BY DEF Peers
    <3> QED  BY <2>7, <3>1, Zenon DEF Answering
  <2>10. ASSUME NEW p \in Peer, p \notin broken', heard'[p] \in Command
         PROVE  /\ Any(buf, p)
                /\ Sure(buf, p, broken') =>
                     \E n \in DOMAIN First(buf, p) :
                       /\ First(buf, p)[n].cmd = heard'[p]
                       /\ \A j \in 1 .. n : First(buf, p)[j] \in got'[p]
    <3>1. CASE p = pp
      <4>1. cc \in Command  BY <3>1, <2>7, <2>10
      <4>2. PICK n \in DOMAIN First(buf, pp) :
              /\ First(buf, pp)[n] = Pair(packet) /\ n \in Nat
              /\ Sure(buf, pp, broken) => \A j \in 1 .. n - 1 : First(buf, pp)[j] \in got[pp]
        BY <4>1, <2>3
      <4>3. First(buf, pp)[n].cmd = heard'[pp]  BY <4>1, <4>2, <2>3, <2>7
      <4>4. ASSUME Sure(buf, pp, broken'), NEW j \in 1 .. n  PROVE First(buf, pp)[j] \in got'[pp]
        <5>1. j = n \/ j \in 1 .. n - 1  BY <4>2
        <5>2. CASE j = n  BY <5>2, <4>1, <4>2, <2>8
        <5>3. CASE j \in 1 .. n - 1
          <6>1. First(buf, pp)[j] \in got[pp]  BY <5>3, <4>2, <4>4, <2>6
          <6> QED  BY <6>1, <2>1, <2>8
        <5> QED  BY <5>1, <5>2, <5>3
      <4>5. Any(buf, pp)  BY <4>1, <2>3
      <4> QED  BY <3>1, <4>3, <4>4, <4>5
    <3>2. CASE p # pp
      <4>1. InOrder(buf, heard, got, broken)  BY DEF Peers
      <4>2. heard'[p] = heard[p] /\ got'[p] = got[p]  BY <3>2, <2>7, <2>8
      <4> QED  BY <4>1, <4>2, <2>6, <2>10, Zenon DEF InOrder
    <3> QED  BY <3>1, <3>2
  <2>11. Peers(buf, heard', todo', got', broken')
    <3>1. InOrder(buf, heard', got', broken')  BY <2>10, Zenon DEF InOrder
    <3>2. PeersType(heard', todo', got', broken')  BY <2>2, <2>6, <2>7, <2>8, Zenon DEF PeersType
    <3> QED  BY <3>1, <3>2, <2>9 DEF Peers
  <2>12. ASSUME NEW p \in Peer, heard'[p] # heard[p] \/ packet.peer = p
         PROVE  /\ packet.talk /\ packet.peer = p /\ heard'[p] = packet.cmd
                /\ packet.cmd \in Command => Pair(packet) \in got'[p]
    <3>1. p = pp  BY <2>7, <2>12 DEF pp
    <3> QED  BY <3>1, <2>6, <2>7, <2>8 DEF pp, cc
  <2> QED  BY <2>6, <2>8, <2>11, <2>12 DEF Sent
<1> QED  BY <1>1, <1>2, Zenon DEF Transmit

-----------------------------------------------------------------------------
(* fht_hook().                                                             *)

LEMMA Table ==
  /\ Len(StateTable) = 7
  /\ Expected(0) = "ACTUATOR" /\ Expected(1) = "CAN_XMIT" /\ Expected(2) = "CAN_RCV"
  /\ Expected(3) = "START_XMIT" /\ Expected(5) = "ACK" /\ Expected(6) = "END_XMIT"
  /\ Answer(0) = "CAN_XMIT" /\ Answer(1) = Silent /\ Answer(2) = "START_XMIT"
  /\ Answer(3) = Data /\ Answer(4) = "ACK" /\ Answer(5) = "END_XMIT" /\ Answer(6) = Silent
  BY DEF StateTable, Expected, Answer

LEMMA PacketsWithout ==
  ASSUME NEW m
  PROVE  /\ Unanswered(m).peer = m.peer /\ ~Unanswered(m).talk
         /\ Copy(m).peer = m.peer /\ ~Copy(m).talk
<1>1. /\ "peer" \in DOMAIN Nobody /\ "cmd" \in DOMAIN Nobody /\ ~Nobody.talk
  BY DEF Nobody
<1>2. PICK u : u = [Nobody EXCEPT !.peer = m.peer]  OBVIOUS
<1>3. DOMAIN u = DOMAIN Nobody /\ u.peer = m.peer /\ ~u.talk  BY <1>1, <1>2
<1>4. [u EXCEPT !.cmd = m.cmd].peer = m.peer /\ ~[u EXCEPT !.cmd = m.cmd].talk
  BY <1>1, <1>3
<1> QED  BY <1>2, <1>3, <1>4, Zenon DEF Unanswered, Copy

(* Where fht80b_reset_state() leaves a conversation.                       *)
LEMMA NoTalk ==
  ASSUME NEW b, NEW p
  PROVE  /\ Talk(b, 0, Silent, 1, FALSE, p)
         /\ \A h, g, br : Progress(b, 0, Silent, 1, FALSE, p, h, g, br)
         /\ \A h, a : Spoken(0, Silent, p, h, a)
<1>1. InPlace(b, 0, Silent, 1, p)  BY JunkIs DEF InPlace
<1>2. Talk(b, 0, Silent, 1, FALSE, p)  BY <1>1 DEF Talk
<1>3. 0 \notin {5, 6}  OBVIOUS
<1>4. \A h, g, br : Progress(b, 0, Silent, 1, FALSE, p, h, g, br)  BY <1>3, Zenon DEF Progress
<1>5. \A h, a : Spoken(0, Silent, p, h, a)  BY DEF Spoken
<1> QED  BY <1>2, <1>4, <1>5

(* What the handler goes on with is a conversation with the sender.        *)
LEMMA Begun ==
  ASSUME Inv, NEW m, m = air
  PROVE  /\ Talk(buf, State(m), LData(m), Offset(m), Shift(m), m.peer)
         /\ Progress(buf, State(m), LData(m), Offset(m), Shift(m), m.peer, heard, got, broken)
         /\ Spoken(State(m), LData(m), m.peer, heard, m)
         /\ Wait(m) \in 0 .. WaitTicks \cup {TimerDisabled}
<1>1. CASE Same(m)
  <2>1. State(m) = state /\ LData(m) = ldata /\ Offset(m) = bufoff /\ m.peer = out.peer
        /\ Wait(m) = WaitTicks
    BY <1>1 DEF Same, State, LData, Offset, Wait
  <2>2. WaitTicks \in 0 .. WaitTicks  BY TimeAssumption
  <2>3. Shift(m) = shifted
    <3>1. shifted \in BOOLEAN  BY DEF Inv, Talk
    <3> QED  BY <1>1, <3>1 DEF Shift
  <2> QED  BY <2>1, <2>2, <2>3 DEF Inv
<1>2. CASE ~Same(m)
  <2>1. State(m) = 0 /\ LData(m) = Silent /\ Offset(m) = 1 /\ Wait(m) = TimerDisabled
        /\ Shift(m) = FALSE
    BY <1>2 DEF State, LData, Offset, Wait, Shift
  <2>2. /\ Talk(buf, 0, Silent, 1, FALSE, m.peer)
        /\ Progress(buf, 0, Silent, 1, FALSE, m.peer, heard, got, broken)
        /\ Spoken(0, Silent, m.peer, heard, m)
    BY NoTalk
  <2> QED  BY <2>1, <2>2
<1> QED  BY <1>1, <1>2

(* The invariant, but for what only Receive changes.                       *)
Handled ==
  /\ noise' \in 0 .. MaxNoise
  /\ TimerType(timeout', repeatcnt')
  /\ Laid(buf')
  /\ Talk(buf', state', ldata', bufoff', shifted', out'.peer)
  /\ Peers(buf', heard', todo', got', broken')
  /\ Running(timeout', repeatcnt') => Repeats(buf', ldata', bufoff', shifted', got', broken', out')
  /\ Progress(buf', state', ldata', bufoff', shifted', out'.peer, heard', got', broken')

LEMMA SaysNothing ==
  ASSUME Inv, UNCHANGED buf, NEW ticks \in 0 .. WaitTicks \cup {TimerDisabled},
         SendNothing(ticks),
         Talk(buf, state', ldata', bufoff', shifted', out'.peer),
         Progress(buf, state', ldata', bufoff', shifted', out'.peer, heard, got, broken)
  PROVE  Handled
<1>1. /\ repeatcnt' = 0 /\ timeout' = ticks /\ noise' = noise
      /\ heard' = heard /\ todo' = todo /\ got' = got /\ broken' = broken
  BY DEF SendNothing, peers
<1>2. TimerType(timeout', repeatcnt') /\ ~Running(timeout', repeatcnt')
  BY <1>1 DEF TimerType, Running
<1> QED  BY <1>1, <1>2 DEF Handled, Inv

LEMMA SaysPacket ==
  ASSUME Inv, UNCHANGED buf, NEW packet, out' = packet,
         NEW ticks \in 0 .. WaitTicks \cup {TimerDisabled}, SendRepeated(packet, ticks),
         Talk(buf, state', ldata', bufoff', shifted', packet.peer),
         Repeats(buf, ldata', bufoff', shifted', got, broken, packet),
         Sent(packet) =>
           Progress(buf, state', ldata', bufoff', shifted', packet.peer, heard', got', broken')
  PROVE  Handled
<1>1. Transmit(packet)  BY DEF SendRepeated
<1>2. Packet(packet) /\ (packet.talk => Offered(buf, packet, got, broken))  BY DEF Repeats
<1>3. Sent(packet)  BY <1>1, <1>2, TransmitEffect DEF Inv
<1>4. TimerType(timeout', repeatcnt')
  <2>1. RepeatTicks \in 0 .. WaitTicks  BY TimeAssumption
  <2> QED  BY <2>1 DEF SendRepeated, TimerType
<1>5. /\ noise' \in 0 .. MaxNoise /\ Peers(buf, heard', todo', got', broken')
      /\ broken' = broken /\ \A p \in Peer : got[p] \subseteq got'[p]
  BY <1>3 DEF Sent
<1>6. Repeats(buf, ldata', bufoff', shifted', got', broken', packet)
  <2>1. Repeats(buf, ldata', bufoff', shifted', got', broken, packet)  BY <1>5, RepeatsGrows
  <2> QED  BY <2>1, <1>5
<1>7. Laid(buf)  BY DEF Inv
<1> QED  BY <1>3, <1>4, <1>5, <1>6, <1>7 DEF Handled

(* Nothing is said, and the conversation stays where it is.                *)
LEMMA QuietStep ==
  ASSUME Inv, NEW m, m = air, HookOff(m) \/ HookForeign(m)
  PROVE  Handled /\ UNCHANGED buf
<1>1. SendNothing(WaitTicks) /\ UNCHANGED <<buf, talk, out>>  BY DEF HookOff, HookForeign
<1>2. buf' = buf /\ state' = state /\ ldata' = ldata /\ bufoff' = bufoff /\ shifted' = shifted /\ out' = out
  BY <1>1 DEF talk
<1>3. WaitTicks \in 0 .. WaitTicks  BY TimeAssumption
<1>4. /\ Talk(buf, state', ldata', bufoff', shifted', out'.peer)
      /\ Progress(buf, state', ldata', bufoff', shifted', out'.peer, heard, got, broken)
  BY <1>2 DEF Inv
<1> QED  BY <1>1, <1>2, <1>3, <1>4, SaysNothing

LEMMA LeavingStep ==
  ASSUME Inv, NEW m, m = air, HookLeaves(m) \/ HookNothingQueued(m)
  PROVE  Handled /\ UNCHANGED buf
<1>1. /\ state' = State(m) /\ ldata' = LData(m) /\ bufoff' = Offset(m) /\ shifted' = Shift(m)
      /\ out'.peer = m.peer /\ SendNothing(Wait(m)) /\ UNCHANGED buf
  BY PacketsWithout DEF HookLeaves, HookNothingQueued, Quiet, Kept
<1> QED  BY <1>1, Begun, SaysNothing

LEMMA ForeignStep ==
  ASSUME Inv, NEW m, m = air, HookBecomesForeign(m)
  PROVE  Handled /\ UNCHANGED buf
<1>1. /\ state' = Foreign /\ ldata' = LData(m) /\ bufoff' = Offset(m) /\ shifted' = Shift(m) /\ State(m) = 0
      /\ out'.peer = m.peer /\ SendNothing(Wait(m)) /\ UNCHANGED buf
  BY PacketsWithout DEF HookBecomesForeign, Reports, Kept
<1>2. LData(m) = Silent /\ Talk(buf, 0, Silent, Offset(m), Shift(m), m.peer)
  BY <1>1, Begun DEF Talk
<1>3. Talk(buf, Foreign, Silent, Offset(m), Shift(m), m.peer)
  BY <1>2 DEF Talk, InPlace, OutOfPlace, Begins, Foreign
<1>4. Progress(buf, Foreign, Silent, Offset(m), Shift(m), m.peer, heard, got, broken)
  BY DEF Progress, Foreign
<1> QED  BY <1>1, <1>2, <1>3, <1>4, Begun, SaysNothing

LEMMA MismatchStep ==
  ASSUME Inv, NEW m, m = air, HookMismatch(m)
  PROVE  Handled /\ UNCHANGED buf
<1>1. /\ state' = 0 /\ ldata' = Silent /\ bufoff' = 1 /\ shifted' = FALSE
      /\ out'.peer = m.peer /\ SendNothing(TimerDisabled) /\ UNCHANGED buf
  BY PacketsWithout DEF HookMismatch, ResetTalk
<1>2. Talk(buf, 0, Silent, 1, FALSE, m.peer)  BY NoTalk
<1>3. Progress(buf, 0, Silent, 1, FALSE, m.peer, heard, got, broken)  BY NoTalk
<1> QED  BY <1>1, <1>2, <1>3, SaysNothing

LEMMA AcknowledgingStep ==
  ASSUME Inv, NEW m, m = air, HookAcknowledges(m)
  PROVE  Handled /\ UNCHANGED buf
<1>1. /\ state' = 0 /\ ldata' = LData(m) /\ bufoff' = Offset(m) /\ shifted' = Shift(m) /\ State(m) = 0
      /\ out' = Copy(m) /\ SendRepeated(Copy(m), Wait(m)) /\ UNCHANGED buf
  BY DEF HookAcknowledges, Reports, Kept
<1>2. PICK packet : packet = Copy(m)  OBVIOUS
<1>3. packet.peer = m.peer /\ ~packet.talk  BY <1>2, PacketsWithout
<1>4. LData(m) = Silent  BY <1>1, Begun DEF Talk
<1>5. Talk(buf, state', ldata', bufoff', shifted', packet.peer)
  BY <1>1, <1>3, <1>4, Begun
<1>6. Repeats(buf, ldata', bufoff', shifted', got, broken, packet)  BY <1>3 DEF Repeats, Packet
<1>7. Progress(buf, state', ldata', bufoff', shifted', packet.peer, heard', got', broken')
  BY <1>1, <1>4 DEF Progress
<1>8. out' = packet /\ SendRepeated(packet, Wait(m))  BY <1>1, <1>2
<1> QED  BY <1>1, <1>3, <1>5, <1>6, <1>7, <1>8, Begun, SaysPacket

(* An item is sent when those before it have been heard.                   *)
LEMMA SendingItem ==
  ASSUME Inv, NEW m, m = air, NEW p \in Peer, p = m.peer, Any(buf, p), ~Shift(m),
         NEW n \in 1 .. Len(First(buf, p)), SendItem(m, n), state' = 3,
         Sure(buf, p, broken) =>
           /\ \A j \in 1 .. n - 1 : First(buf, p)[j] \in got[p]
           /\ heard[p] = First(buf, p)[n].cmd => First(buf, p)[n] \in got[p]
  PROVE  Handled /\ UNCHANGED buf
<1> DEFINE item == First(buf, p)[n]
           packet == [peer |-> p, cmd |-> item.cmd, arg |-> item.arg, talk |-> TRUE]
<1>1. First(buf, p) \in Message  BY FirstType DEF Inv, Laid
<1>2. /\ n \in DOMAIN First(buf, p) /\ n \in Nat \ {0} /\ Len(First(buf, p)) \in Nat
      /\ item \in Item /\ item.cmd \in Command
  BY <1>1, MessageType
<1>3. Get(m.peer, n, Shift(m)) = item /\ Shift(m) = FALSE
  BY AboutBuf DEF Get, Shift
<1>4. /\ ldata' = item.cmd /\ bufoff' = n /\ shifted' = FALSE /\ out' = packet
      /\ SendRepeated(packet, Wait(m)) /\ UNCHANGED buf
  BY <1>3 DEF SendItem
<1>5. packet.peer = p /\ packet.cmd = item.cmd /\ packet.talk /\ Pair(packet) = item
  BY <1>2 DEF Pair, Item
<1>6. item.cmd # Silent /\ item.cmd # Junk  BY <1>2, Commands
<1> HIDE DEF packet, item
<1>7. Talk(buf, state', ldata', bufoff', shifted', packet.peer)
  <2>1. InPlace(buf, 3, item.cmd, n, p)  BY <1>2, <1>6 DEF InPlace, Begins, item, Foreign
  <2>2. Talk(buf, 3, item.cmd, n, FALSE, p)  BY <2>1, <1>2, <1>6 DEF Talk, Foreign
  <2> QED  BY <2>2, <1>4, <1>5
<1>8. Repeats(buf, ldata', bufoff', shifted', got, broken, packet)
  <2>1. Offered(buf, packet, got, broken)
    <3>1. First(buf, p)[n] = Pair(packet)  BY <1>5 DEF item
    <3> QED  BY <3>1, <1>2, <1>5 DEF Offered
  <2>2. Packet(packet)  BY <1>2, <1>5 DEF Packet
  <2>3. Pair(packet) = First(buf, packet.peer)[bufoff']  BY <1>4, <1>5 DEF item
  <2> QED  BY <2>1, <2>2, <2>3, <1>4, <1>5, <1>6 DEF Repeats
<1>9. ASSUME Sent(packet)
      PROVE  Progress(buf, state', ldata', bufoff', shifted', packet.peer, heard', got', broken')
  <2>1. /\ broken' = broken /\ got[p] \subseteq got'[p]
        /\ \/ heard'[p] = heard[p] /\ got'[p] = got[p]
           \/ item \in got'[p]
    BY <1>2, <1>5, <1>9 DEF Sent
  <2>2. ASSUME Sure(buf, p, broken)
        PROVE  /\ \A j \in 1 .. n - 1 : First(buf, p)[j] \in got'[p]
               /\ heard'[p] = item.cmd => First(buf, p)[n] \in got'[p]
    BY <2>1, <2>2 DEF item
  <2>3. Progress(buf, 3, item.cmd, n, FALSE, p, heard', got', broken')
    <3>1. 3 \notin {5, 6}  OBVIOUS
    <3> QED  BY <2>1, <2>2, <3>1, Zenon DEF Progress
  <2> QED  BY <2>3, <1>4, <1>5
<1> QED  BY <1>4, <1>7, <1>8, <1>9, Begun, SaysPacket

(* From an offset that was moved, junk is sent.                            *)
LEMMA SendingJunk ==
  ASSUME Inv, NEW m, m = air, NEW p \in Peer, p = m.peer, Any(buf, p), Shift(m),
         NEW n \in Nat, n <= Len(First(buf, p)) + 1, SendItem(m, n), state' = 3
  PROVE  Handled /\ UNCHANGED buf
<1> DEFINE packet == [peer |-> p, cmd |-> Junk, arg |-> 0, talk |-> TRUE]
<1>1. Get(m.peer, n, Shift(m)) = [cmd |-> Junk, arg |-> 0] /\ Shift(m) = TRUE
  BY DEF Get, Shift
<1>2. /\ ldata' = Junk /\ bufoff' = n /\ shifted' = TRUE /\ out' = packet
      /\ SendRepeated(packet, Wait(m)) /\ UNCHANGED buf
  <2>1. PICK item : item = [cmd |-> Junk, arg |-> 0]  OBVIOUS
  <2>2. item.cmd = Junk /\ item.arg = 0 /\ Get(m.peer, n, Shift(m)) = item  BY <2>1, <1>1
  <2>3. /\ ldata' = item.cmd /\ bufoff' = n /\ shifted' = Shift(m) /\ UNCHANGED buf
        /\ out' = [peer |-> m.peer, cmd |-> item.cmd, arg |-> item.arg, talk |-> TRUE]
        /\ SendRepeated([peer |-> m.peer, cmd |-> item.cmd, arg |-> item.arg, talk |-> TRUE], Wait(m))
    BY <2>2 DEF SendItem
  <2> QED  BY <2>2, <2>3, <1>1
<1>3. packet.peer = p /\ packet.cmd = Junk /\ packet.talk  OBVIOUS
<1> HIDE DEF packet
<1>4. Talk(buf, state', ldata', bufoff', shifted', packet.peer)
  <2>1. OutOfPlace(buf, 3, Junk, n, p)  BY JunkIs DEF OutOfPlace, Begins, Foreign
  <2>2. Talk(buf, 3, Junk, n, TRUE, p)  BY <2>1 DEF Talk, Foreign
  <2> QED  BY <2>2, <1>2, <1>3
<1>5. Repeats(buf, ldata', bufoff', shifted', got, broken, packet)
  BY <1>2, <1>3, JunkIs DEF Repeats, Packet, Offered
<1>6. Progress(buf, state', ldata', bufoff', shifted', packet.peer, heard', got', broken')
  BY <1>2 DEF Progress
<1> QED  BY <1>2, <1>4, <1>5, <1>6, Begun, SaysPacket

(* The row the handler is at.                                              *)
LEMMA AtRows ==
  ASSUME Inv, NEW m, m = air, Converses(m)
  PROVE  /\ State(m) \in {0, 1, 2, 3, 5, 6}
         /\ LData(m) # Silent => State(m) = 3 /\ AtRow(m) = 3 /\ Row(m) = 4
         /\ LData(m) = Silent => Row(m) = AtRow(m)
         /\ AtRow(m) = State(m) \/ (State(m) = 1 /\ AtRow(m) = 2)
<1>1. State(m) \in {0, 1, 2, 3, 5, 6}
  BY Begun DEF Talk, Converses
<1>2. LData(m) # Silent => State(m) = 3  BY Begun DEF Talk
<1>3. AtRow(m) = State(m) \/ (State(m) = 1 /\ AtRow(m) = 2 /\ LData(m) = Silent)
  <2>1. Skips(m) => State(m) = 1 /\ LData(m) = Silent  BY <1>1, Table DEF Skips
  <2> QED  BY <2>1 DEF AtRow
<1> QED  BY <1>1, <1>2, <1>3 DEF Row

LEMMA ItemStep ==
  ASSUME Inv, NEW m, m = air, m.peer \in Peer, HookItem(m)
  PROVE  Handled /\ UNCHANGED buf
<1> DEFINE p == m.peer
           n == Offset(m)
           d == Shift(m)
<1>1. /\ Converses(m) /\ Fits(m) /\ state' = AtRow(m)
      /\ IF LData(m) # Silent
         THEN Has(p, n + 1, d) /\ SendItem(m, n + 1)
         ELSE Answer(AtRow(m)) = Data /\ SendItem(m, n)
  BY DEF HookItem
<1>2. /\ Talk(buf, State(m), LData(m), n, d, p)
      /\ Progress(buf, State(m), LData(m), n, d, p, heard, got, broken)
      /\ Spoken(State(m), LData(m), p, heard, m)
  BY Begun
<1>3. n \in Nat  BY <1>2 DEF Talk
<1> HIDE DEF n, d
<1>4. CASE LData(m) # Silent
  <2>1. State(m) = 3 /\ state' = 3 /\ m.cmd = LData(m) /\ SendItem(m, n + 1)
    BY <1>1, <1>4, AtRows DEF Fits
  <2>2. Any(buf, p) /\ n + 1 <= Len(First(buf, p)) + (IF d THEN 1 ELSE 0)
    BY <1>1, <1>4, AboutBuf DEF Has
  <2>3. First(buf, p) \in Message /\ Len(First(buf, p)) \in Nat
    BY <2>2, FirstType, MessageType DEF Inv, Laid
  <2>4. CASE d
    <3>1. n + 1 \in Nat /\ n + 1 <= Len(First(buf, p)) + 1  BY <2>2, <2>4, <1>3
    <3> QED  BY <2>1, <2>2, <2>4, <3>1, SendingJunk DEF d
  <2>5. CASE ~d
    <3>1. InPlace(buf, State(m), LData(m), n, p)  BY <1>2, <2>5 DEF Talk
    <3>2. n \in Nat \ {0} /\ LData(m) = First(buf, p)[n].cmd
      BY <1>3, <1>4, <3>1 DEF InPlace
    <3>3. n + 1 \in 1 .. Len(First(buf, p)) /\ n + 1 \in 2 .. Len(First(buf, p)) /\ (n + 1) - 1 = n
      BY <2>2, <2>3, <2>5, <3>2
    <3>4. heard[p] = LData(m)  BY <1>2, <1>4, <2>1 DEF Spoken
    <3>5. ASSUME Sure(buf, p, broken)
          PROVE  /\ \A j \in 1 .. (n + 1) - 1 : First(buf, p)[j] \in got[p]
                 /\ heard[p] # First(buf, p)[n + 1].cmd
      <4>1. /\ \A j \in 1 .. n - 1 : First(buf, p)[j] \in got[p]
            /\ First(buf, p)[n] \in got[p]
        BY <1>2, <1>4, <2>5, <3>4, <3>5 DEF Progress
      <4>2. \A j \in 1 .. (n + 1) - 1 : j = n \/ j \in 1 .. n - 1  BY <3>2
      <4>3. First(buf, p)[n].cmd # First(buf, p)[n + 1].cmd
        BY <3>3, <3>5 DEF Sure, Distinct
      <4> QED  BY <4>1, <4>2, <4>3, <3>2, <3>4
    <3> QED  BY <2>1, <2>2, <2>5, <3>3, <3>5, SendingItem DEF d
  <2> QED  BY <2>4, <2>5
<1>5. CASE LData(m) = Silent
  <2>1. Answer(AtRow(m)) = Data /\ SendItem(m, n)  BY <1>1, <1>5
  <2>2. AtRow(m) = 3 /\ State(m) = 3
    <3>1. AtRow(m) \in {0, 1, 2, 3, 5, 6} /\ (AtRow(m) = 3 => State(m) = 3)
      BY <1>1, AtRows
    <3> QED  BY <3>1, <2>1, Table DEF Data, Silent
  <2>3. Any(buf, p)  BY <1>2, <2>2 DEF Talk, Foreign
  <2>4. First(buf, p) \in Message  BY <2>3, FirstType DEF Inv, Laid
  <2>5. CASE d
    <3>1. n <= Len(First(buf, p)) + 1  BY <1>2, <2>2, <2>5 DEF Talk, OutOfPlace
    <3> QED  BY <1>1, <1>3, <2>1, <2>2, <2>3, <2>5, <3>1, SendingJunk DEF d
  <2>6. CASE ~d
    <3>1. n = 1 /\ n <= Len(First(buf, p))
      BY <1>2, <1>5, <2>2, <2>6 DEF Talk, InPlace, Begins
    <3>2. n \in 1 .. Len(First(buf, p))  BY <3>1, <2>4, MessageType
    <3>3. \A j \in 1 .. n - 1 : FALSE  BY <3>1
    <3>4. ASSUME Sure(buf, p, broken), heard[p] = First(buf, p)[n].cmd
          PROVE  First(buf, p)[n] \in got[p]
      <4>1. heard[p] \in Command  BY <2>4, <3>2, <3>4, MessageType
      <4>2. PICK k \in DOMAIN First(buf, p) : \A j \in 1 .. k : First(buf, p)[j] \in got[p]
        BY <3>4, <4>1 DEF Inv, Peers, InOrder, Sure
      <4>3. n \in 1 .. k  BY <3>1, <2>4, <4>2, MessageType
      <4> QED  BY <4>2, <4>3
    <3> QED  BY <1>1, <2>1, <2>2, <2>3, <2>6, <3>2, <3>3, <3>4, SendingItem DEF d
  <2> QED  BY <2>5, <2>6
<1> QED  BY <1>4, <1>5

LEMMA TalkStep ==
  ASSUME Inv, NEW m, m = air, m.peer \in Peer, HookStep(m)
  PROVE  Handled /\ UNCHANGED buf
<1> DEFINE p == m.peer
           n == Offset(m)
           d == Shift(m)
           packet == [peer |-> p, cmd |-> Answer(Row(m)), arg |-> 0, talk |-> TRUE]
<1>1. /\ Converses(m) /\ Fits(m) /\ ~ItemsLeft(m) /\ Answer(Row(m)) # Data
      /\ Row(m) + 1 < Len(StateTable)
      /\ state' = Row(m) + 1 /\ ldata' = Silent
      /\ bufoff' = IF LData(m) # Silent THEN n + 1 ELSE n
      /\ shifted' = d
      /\ out' = packet /\ UNCHANGED buf
      /\ IF packet.cmd = Silent THEN SendNothing(Wait(m)) ELSE SendRepeated(packet, Wait(m))
  BY DEF HookStep
<1>2. /\ Talk(buf, State(m), LData(m), n, d, p)
      /\ Progress(buf, State(m), LData(m), n, d, p, heard, got, broken)
      /\ Spoken(State(m), LData(m), p, heard, m)
      /\ Wait(m) \in 0 .. WaitTicks \cup {TimerDisabled}
  BY Begun
<1>3. n \in Nat /\ d \in BOOLEAN  BY <1>2 DEF Talk
<1>4. packet.peer = p /\ packet.cmd = Answer(Row(m)) /\ packet.talk  OBVIOUS
<1> HIDE DEF n, d, packet
<1>5. /\ Talk(buf, state', Silent, bufoff', d, p)
      /\ \A h, g : (\A q \in Peer : got[q] \subseteq g[q]) =>
           Progress(buf, state', Silent, bufoff', d, p, h, g, broken)
      /\ Answer(Row(m)) \in Protocol \cup {Silent}
  <2>1. CASE LData(m) # Silent
    <3>1. /\ State(m) = 3 /\ Row(m) = 4 /\ state' = 5 /\ bufoff' = n + 1 /\ Answer(Row(m)) = "ACK"
          /\ m.cmd = LData(m)
      BY <1>1, <2>1, AtRows, Table DEF Fits
    <3>2. Any(buf, p)  BY <1>2, <3>1 DEF Talk, Foreign
    <3>3. Talk(buf, 5, Silent, n + 1, d, p)
      <4>1. OutOfPlace(buf, 5, Silent, n + 1, p)  BY DEF OutOfPlace, Begins, Foreign
      <4>2. InPlace(buf, 5, Silent, n + 1, p)  BY <1>3, JunkIs DEF InPlace, Begins, Foreign
      <4> QED  BY <4>1, <4>2, <1>3, <3>2 DEF Talk, Foreign
    <3>4. ASSUME ~d, Sure(buf, p, broken)  PROVE Items(First(buf, p)) \subseteq got[p]
      <4>1. First(buf, p) \in Message  BY <3>2, FirstType DEF Inv, Laid
      <4>2. ~(n + 1 <= Len(First(buf, p)))
        <5>1. ~(n + 1 <= Len(First(buf, p)) + (IF d THEN 1 ELSE 0))
          BY <1>1, <2>1, <3>2, AboutBuf DEF ItemsLeft, Has, n, d
        <5> QED  BY <5>1, <3>4, <4>1, MessageType
      <4>3. heard[p] = LData(m)  BY <1>2, <2>1, <3>1 DEF Spoken
      <4>4. /\ \A j \in 1 .. n - 1 : First(buf, p)[j] \in got[p]
            /\ First(buf, p)[n] \in got[p]
        BY <1>2, <2>1, <3>4, <4>3 DEF Progress
      <4>5. \A j \in DOMAIN First(buf, p) : j = n \/ j \in 1 .. n - 1
        BY <1>3, <4>1, <4>2, MessageType
      <4> QED  BY <4>4, <4>5 DEF Items
    <3>5. ASSUME NEW h, NEW g, \A q \in Peer : got[q] \subseteq g[q]
          PROVE  Progress(buf, 5, Silent, n + 1, d, p, h, g, broken)
      BY <3>4, <3>5 DEF Progress
    <3> QED  BY <3>1, <3>3, <3>5 DEF Protocol
  <2>2. CASE LData(m) = Silent
    <3>1. /\ State(m) \in {0, 1, 2, 3, 5, 6} /\ Row(m) = AtRow(m) /\ bufoff' = n
          /\ AtRow(m) = State(m) \/ (State(m) = 1 /\ AtRow(m) = 2)
      BY <1>1, <2>2, AtRows
    <3>2. \/ State(m) \in {0, 1} /\ state' \in {1, 2}
          \/ State(m) \in {1, 2} /\ state' = 3
          \/ State(m) = 5 /\ state' = 6
      BY <1>1, <3>1, Table
    <3>3. Answer(Row(m)) \in Protocol \cup {Silent}
      BY <1>1, <3>1, Table DEF Protocol
    <3>4. CASE State(m) \in {0, 1, 2} /\ state' \in {1, 2, 3}
      <4>1. Any(buf, p) /\ (~d => n <= Len(First(buf, p)))
        <5>1. CASE State(m) = 0
          <6>1. Has(p, n, d)  BY <1>1, <5>1 DEF Converses, n, d
          <6>2. Any(buf, p) /\ n <= Len(First(buf, p)) + (IF d THEN 1 ELSE 0)
            BY <6>1, AboutBuf DEF Has
          <6>3. Len(First(buf, p)) \in Nat  BY <6>2, FirstType, MessageType DEF Inv, Laid
          <6> QED  BY <6>2, <6>3
        <5>2. CASE State(m) \in {1, 2}
          BY <1>2, <5>2 DEF Talk, InPlace, Foreign
        <5> QED  BY <5>1, <5>2, <3>4
      <4>2. Len(First(buf, p)) \in Nat  BY <4>1, FirstType, MessageType DEF Inv, Laid
      <4>3. d => OutOfPlace(buf, state', Silent, n, p)
        <5>1. d => n = 0  BY <1>2, <3>4 DEF Talk, OutOfPlace, Begins
        <5> QED  BY <5>1, <4>2 DEF OutOfPlace
      <4>4. ~d => InPlace(buf, state', Silent, n, p)
        <5>1. ~d => n = 1  BY <1>2, <3>4 DEF Talk, InPlace, Begins
        <5> QED  BY <5>1, <4>1, JunkIs DEF InPlace
      <4>5. Talk(buf, state', Silent, n, d, p)
        <5>1. state' \in {0, 1, 2, 3, 5, 6, Foreign}  BY <3>4
        <5> QED  BY <5>1, <1>3, <4>1, <4>3, <4>4, Zenon DEF Talk
      <4>6. \A h, g : Progress(buf, state', Silent, n, d, p, h, g, broken)
        BY <3>4 DEF Progress
      <4> QED  BY <3>1, <3>3, <4>5, <4>6
    <3>5. CASE State(m) = 5 /\ state' = 6
      <4>1. Any(buf, p)  BY <1>2, <3>5 DEF Talk, Foreign
      <4>2. Talk(buf, 6, Silent, n, d, p)
        <5>1. OutOfPlace(buf, 6, Silent, n, p)  BY DEF OutOfPlace, Begins, Foreign
        <5>2. ~d => InPlace(buf, 6, Silent, n, p)
          BY <1>2, <3>5, JunkIs DEF Talk, InPlace, Begins, Foreign
        <5> QED  BY <5>1, <5>2, <1>3, <4>1 DEF Talk, Foreign
      <4>3. ~d /\ Sure(buf, p, broken) => Items(First(buf, p)) \subseteq got[p]
        BY <1>2, <3>5 DEF Progress
      <4>4. ASSUME NEW h, NEW g, \A q \in Peer : got[q] \subseteq g[q]
            PROVE  Progress(buf, 6, Silent, n, d, p, h, g, broken)
        BY <4>3, <4>4 DEF Progress
      <4> QED  BY <3>1, <3>3, <3>5, <4>2, <4>4
    <3> QED  BY <3>2, <3>4, <3>5
  <2> QED  BY <2>1, <2>2
<1>6. CASE packet.cmd = Silent
  <2>1. Progress(buf, state', Silent, bufoff', d, p, heard, got, broken)
    BY <1>5
  <2> QED  BY <1>1, <1>2, <1>4, <1>5, <1>6, <2>1, SaysNothing
<1>7. CASE packet.cmd # Silent
  <2>1. packet.cmd \in Protocol /\ packet.cmd \notin Command
    BY <1>4, <1>5, <1>7, Commands
  <2>2. Repeats(buf, ldata', bufoff', shifted', got, broken, packet)
    BY <1>1, <1>4, <2>1 DEF Repeats, Packet, Offered
  <2>3. ASSUME Sent(packet)
        PROVE  Progress(buf, state', ldata', bufoff', shifted', packet.peer, heard', got', broken')
    BY <1>1, <1>4, <1>5, <2>3 DEF Sent
  <2>4. Talk(buf, state', ldata', bufoff', shifted', packet.peer) /\ SendRepeated(packet, Wait(m))
    BY <1>1, <1>4, <1>5, <1>7
  <2> QED  BY <1>1, <1>2, <2>2, <2>3, <2>4, SaysPacket
<1> QED  BY <1>6, <1>7

(* A message is deleted when all of it has been heard, and by an FHT that  *)
(* has heard something else last.                                          *)
LEMMA EndStep ==
  ASSUME Inv, NEW m, m = air, m.peer \in Peer, HookEnd(m)
  PROVE  /\ Handled
         /\ ~shifted /\ Sure(buf, m.peer, broken) => Items(First(buf, m.peer)) \subseteq got[m.peer]
<1> DEFINE p == m.peer
           k == Place(p)
<1>1. /\ Converses(m) /\ Fits(m) /\ Row(m) + 1 = 7
      /\ buf' = Deleted(p)
      /\ state' = 0 /\ ldata' = Silent /\ bufoff' = 1 /\ shifted' = FALSE
      /\ out'.peer = p
      /\ repeatcnt' = 0 /\ timeout' = TimerDisabled
      /\ got' = [got EXCEPT ![p] = {}] /\ broken' = broken \ {p}
      /\ heard' = heard /\ todo' = todo /\ noise' = noise
  BY Table, PacketsWithout DEF HookEnd, ResetTalk
<1>2. /\ Talk(buf, State(m), LData(m), Offset(m), Shift(m), p)
      /\ Progress(buf, State(m), LData(m), Offset(m), Shift(m), p, heard, got, broken)
      /\ Spoken(State(m), LData(m), p, heard, m)
  BY Begun
<1>3. State(m) = 6 /\ LData(m) = Silent /\ m.cmd = "END_XMIT"
  <2>1. LData(m) = Silent  BY <1>1, AtRows
  <2>2. State(m) = 6 /\ AtRow(m) = 6  BY <1>1, <2>1, AtRows
  <2> QED  BY <1>1, <2>1, <2>2, Table DEF Fits
<1>4. heard[p] \notin Command  BY <1>2, <1>3 DEF Spoken
<1>5. ~shifted /\ Sure(buf, p, broken) => Items(First(buf, p)) \subseteq got[p]
  BY <1>2, <1>3 DEF Progress, Shift
<1>6. k \in Places(buf, p)  BY <1>2, <1>3, AboutBuf DEF Talk, Foreign, Any
<1>7. buf' = [j \in 1 .. Len(buf) - 1 |->
                IF j < k THEN buf[j] ELSE Moved(buf[j + 1], Size(buf[k]))]
  BY <1>1, Zenon DEF Deleted
<1> HIDE DEF k
<1>8. Laid(buf)  BY DEF Inv
<1>9. Laid(buf') /\ \A q : q # p => Keeps(buf, buf', q)
  BY <1>6, <1>7, <1>8, DeleteLaid
<1>10. Peers(buf', heard, todo, got', broken')
  <2>1. /\ PeersType(heard, todo, got, broken) /\ Answering(heard, todo)
        /\ InOrder(buf, heard, got, broken)
    BY DEF Inv, Peers
  <2>2. got' \in [Peer -> SUBSET Item] /\ \A q \in Peer : q # p => got'[q] = got[q]
    BY <1>1, <2>1 DEF PeersType
  <2>3. PeersType(heard, todo, got', broken')
    BY <1>1, <2>1, <2>2 DEF PeersType
  <2>4. ASSUME NEW q \in Peer, q \notin broken', heard[q] \in Command
        PROVE  /\ Any(buf', q)
               /\ Sure(buf', q, broken') =>
                    \E n \in DOMAIN First(buf', q) :
                      First(buf', q)[n].cmd = heard[q] /\ \A j \in 1 .. n : First(buf', q)[j] \in got'[q]
    <3>1. q # p /\ q \notin broken  BY <1>1, <1>4, <2>4
    <3>2. Keeps(buf, buf', q) /\ got'[q] = got[q]  BY <3>1, <1>9, <2>2
    <3> QED  BY <2>1, <2>4, <3>1, <3>2, Zenon DEF InOrder, Keeps, Sure
  <2>5. InOrder(buf', heard, got', broken')  BY <2>4 DEF InOrder
  <2> QED  BY <2>1, <2>3, <2>5 DEF Peers
<1>11. /\ Talk(buf', 0, Silent, 1, FALSE, p)
       /\ Progress(buf', 0, Silent, 1, FALSE, p, heard, got', broken')
  BY NoTalk
<1>12. TimerType(timeout', repeatcnt') /\ ~Running(timeout', repeatcnt')
  BY <1>1 DEF TimerType, Running
<1>13. noise \in 0 .. MaxNoise  BY DEF Inv
<1>14. Handled
  <2>1. /\ Talk(buf', state', ldata', bufoff', shifted', out'.peer)
        /\ Progress(buf', state', ldata', bufoff', shifted', out'.peer, heard', got', broken')
        /\ Peers(buf', heard', todo', got', broken')
        /\ noise' \in 0 .. MaxNoise
    BY <1>1, <1>10, <1>11, <1>13
  <2> QED  BY <2>1, <1>9, <1>12 DEF Handled
<1> QED  BY <1>5, <1>14

-----------------------------------------------------------------------------
(* The other steps.                                                        *)

LEMMA HookStepInv ==
  ASSUME Inv, NEW m, m = air, m.peer \in Peer, Hook(m)
  PROVE  /\ Handled
         /\ Len(buf') < Len(buf) /\ ~shifted /\ Sure(buf, m.peer, broken) =>
              Items(Oldest(m.peer)) \subseteq got[m.peer]
<1>1. ASSUME Handled, UNCHANGED buf  PROVE Handled /\ ~(Len(buf') < Len(buf))
  <2>1. Len(buf) \in Nat  BY DEF Inv, Laid
  <2> QED  BY <1>1, <2>1
<1>2. CASE HookOff(m) \/ HookForeign(m)  BY <1>1, <1>2, QuietStep
<1>3. CASE HookLeaves(m) \/ HookNothingQueued(m)  BY <1>1, <1>3, LeavingStep
<1>4. CASE HookBecomesForeign(m)  BY <1>1, <1>4, ForeignStep
<1>5. CASE HookAcknowledges(m)  BY <1>1, <1>5, AcknowledgingStep
<1>6. CASE HookMismatch(m)  BY <1>1, <1>6, MismatchStep
<1>7. CASE HookItem(m)  BY <1>1, <1>7, ItemStep
<1>8. CASE HookStep(m)  BY <1>1, <1>8, TalkStep
<1>9. CASE HookEnd(m)  BY <1>9, EndStep, AboutBuf
<1> QED  BY <1>2, <1>3, <1>4, <1>5, <1>6, <1>7, <1>8, <1>9 DEF Hook

LEMMA NothingSpoken ==
  \A s, l, p, h : Spoken(s, l, p, h, Nothing)
<1>1. Nothing.cmd = Silent /\ Silent # "END_XMIT"  BY DEF Nothing, Silent
<1> QED  BY <1>1 DEF Spoken

LEMMA ReceiveStep == Inv /\ Receive => Inv'
<1> SUFFICES ASSUME Inv, Receive PROVE Inv'  OBVIOUS
<1>1. PICK m : m = air  OBVIOUS
<1>2. m.peer \in Peer /\ Hook(m)  BY <1>1 DEF Receive, Inv
<1>3. Handled  BY <1>1, <1>2, HookStepInv
<1>4. on' = on /\ queued' = queued /\ air' = Nothing  BY DEF Receive
<1>5. on \in BOOLEAN /\ queued \in 0 .. MaxQueued  BY DEF Inv
<1>6. Spoken(state', ldata', out'.peer, heard', air')  BY <1>4, NothingSpoken
<1> QED  BY <1>3, <1>4, <1>5, <1>6, Zenon DEF Handled, Inv

LEMMA QueueStep ==
  ASSUME Inv, NEW p \in Peer, NEW items \in Message, Queue(p, items)
  PROVE  Inv'
<1>1. /\ on' = on /\ timeout' = timeout /\ out' = out
      /\ heard' = heard /\ todo' = todo /\ got' = got /\ broken' = broken
      /\ air' = air /\ noise' = noise /\ queued < MaxQueued /\ queued' = queued + 1
  BY DEF Queue, peers
<1>2. queued' \in 0 .. MaxQueued  BY <1>1, BoundAssumption DEF Inv
<1>3. PICK m : m = [peer |-> p, items |-> items, at |-> End(buf)]  OBVIOUS
<1>4. /\ state' = state /\ ldata' = ldata
      /\ \/ buf' = buf
         \/ End(buf) + Size(m) <= BufSize /\ buf' = Append(buf, m)
      /\ \/ bufoff' = 0 /\ shifted' = TRUE
         \/ bufoff' = bufoff /\ shifted' = shifted
      /\ repeatcnt' = repeatcnt \/ repeatcnt' = 0
  BY <1>3, AboutBuf DEF Queue, Overruns, talk
<1>5. Laid(buf') /\ \A q : Keeps(buf, buf', q)
  <2>1. Laid(buf) /\ \A q : Keeps(buf, buf, q)  BY DEF Inv, Keeps
  <2>2. End(buf) \in Nat /\ Size(m) \in Nat
    <3>1. m \in Entry  BY <1>3, <2>1, EndIsNat DEF Entry
    <3> QED  BY <3>1, <2>1, EndIsNat, SizeIsNat
  <2>3. CASE buf' = buf  BY <2>1, <2>3
  <2>4. CASE End(buf) + Size(m) <= BufSize /\ buf' = Append(buf, m)
    <3>1. ~(End(buf) + Size(m) > BufSize)  BY <2>2, <2>4, BoundAssumption
    <3> QED  BY <2>1, <2>4, <3>1, <1>3, AppendLaid
  <2> QED  BY <1>4, <2>3, <2>4
<1>6. /\ Talk(buf', state, ldata, bufoff, shifted, out.peer)
      /\ Progress(buf', state, ldata, bufoff, shifted, out.peer, heard, got, broken)
  BY <1>5, KeepsTalk DEF Inv
<1>7. Talk(buf', state', ldata', bufoff', shifted', out'.peer)
  <2>1. CASE bufoff' = bufoff /\ shifted' = shifted  BY <2>1, <1>1, <1>4, <1>6
  <2>2. CASE bufoff' = 0 /\ shifted' = TRUE
    <3>1. Any(buf', out.peer) => Len(First(buf', out.peer)) \in Nat
      BY <1>5, FirstType, MessageType DEF Laid
    <3>2. state \in {1, 2, 3} => Any(buf', out.peer)  BY <1>6 DEF Talk, Foreign
    <3>3. OutOfPlace(buf', state, ldata, 0, out.peer)  BY <3>1, <3>2 DEF OutOfPlace
    <3>4. Talk(buf', state, ldata, 0, TRUE, out.peer)  BY <3>3, <1>6 DEF Talk
    <3> QED  BY <3>4, <2>2, <1>1, <1>4
  <2> QED  BY <1>4, <2>1, <2>2
<1>8. Progress(buf', state', ldata', bufoff', shifted', out'.peer, heard', got', broken')
  <2>1. CASE bufoff' = bufoff /\ shifted' = shifted  BY <2>1, <1>1, <1>4, <1>6
  <2>2. CASE shifted' = TRUE  BY <2>2 DEF Progress
  <2> QED  BY <1>4, <2>1, <2>2
<1>9. /\ TimerType(timeout', repeatcnt')
      /\ Running(timeout', repeatcnt') => Running(timeout, repeatcnt)
  BY <1>1, <1>4 DEF Inv, TimerType, Running
<1>10. Running(timeout', repeatcnt') => Repeats(buf', ldata', bufoff', shifted', got', broken', out')
  <2>1. Running(timeout, repeatcnt) => Repeats(buf', ldata, bufoff, shifted, got, broken, out)
    BY <1>5, KeepsRepeats DEF Inv
  <2>2. Repeats(buf', ldata, bufoff, shifted, got, broken, out) =>
          Repeats(buf', ldata, 0, TRUE, got, broken, out)
    BY DEF Repeats
  <2> QED  BY <2>1, <2>2, <1>1, <1>4, <1>9
<1>11. Peers(buf', heard', todo', got', broken')
  <2>1. Peers(buf', heard, todo, got, broken)  BY <1>5, KeepsPeers DEF Inv
  <2> QED  BY <2>1, <1>1
<1>12. /\ on' \in BOOLEAN /\ (air' # Nothing => air'.peer \in Peer)
       /\ noise' \in 0 .. MaxNoise
       /\ Spoken(state', ldata', out'.peer, heard', air')
  BY <1>1, <1>4 DEF Inv
<1> QED  BY <1>2, <1>5, <1>7, <1>8, <1>9, <1>10, <1>11, <1>12, Zenon DEF Inv

(* The timer repeats what the conversation has got to.                     *)
LEMMA RepeatStep ==
  ASSUME Inv, TimerFires, repeatcnt > 0
  PROVE  Inv'
<1>1. /\ timeout = 0 /\ Transmit(out) /\ timeout' = RepeatTicks /\ repeatcnt' = repeatcnt - 1
      /\ state' = state /\ ldata' = ldata /\ bufoff' = bufoff /\ shifted' = shifted
      /\ on' = on /\ buf' = buf /\ out' = out /\ air' = air /\ queued' = queued
  BY DEF TimerFires, talk
<1>2. TimerType(timeout', repeatcnt')
  <2>1. RepeatTicks \in 0 .. WaitTicks  BY TimeAssumption
  <2>2. repeatcnt \in 0 .. 1  BY DEF Inv, TimerType
  <2> QED  BY <1>1, <2>1, <2>2 DEF TimerType
<1>3. Running(timeout, repeatcnt)  BY <1>1 DEF Running, TimerDisabled
<1>4. Repeats(buf, ldata, bufoff, shifted, got, broken, out)  BY <1>3 DEF Inv
<1>5. /\ Laid(buf) /\ Peers(buf, heard, todo, got, broken) /\ noise \in 0 .. MaxNoise
      /\ Talk(buf, state, ldata, bufoff, shifted, out.peer)
      /\ Progress(buf, state, ldata, bufoff, shifted, out.peer, heard, got, broken)
      /\ Spoken(state, ldata, out.peer, heard, air)
      /\ on \in BOOLEAN /\ (air # Nothing => air.peer \in Peer) /\ queued \in 0 .. MaxQueued
  BY DEF Inv
<1>6. Sent(out)  BY <1>1, <1>4, <1>5, TransmitEffect DEF Repeats
<1>7. ASSUME out.talk
      PROVE  /\ out.peer \in Peer
             /\ ldata # Silent => out.cmd = ldata
             /\ ldata = Silent => out.cmd \in Protocol /\ out.cmd \notin Command
  BY <1>4, <1>7, Commands DEF Repeats, Packet
<1>8. ASSUME out.talk, ldata # Silent, ~shifted
      PROVE  out.cmd \in Command
  BY <1>5, <1>7, <1>8 DEF Talk, InPlace
<1>9. /\ noise' \in 0 .. MaxNoise /\ broken' = broken
      /\ Peers(buf', heard', todo', got', broken')
      /\ \A p \in Peer : got[p] \subseteq got'[p]
  BY <1>1, <1>6 DEF Sent
<1>10. Progress(buf, state, ldata, bufoff, shifted, out.peer, heard', got', broken')
  <2>1. SUFFICES ASSUME ~shifted, Sure(buf, out.peer, broken)
                 PROVE  /\ ldata # Silent =>
                            /\ \A j \in 1 .. bufoff - 1 : First(buf, out.peer)[j] \in got'[out.peer]
                            /\ heard'[out.peer] = ldata => First(buf, out.peer)[bufoff] \in got'[out.peer]
                        /\ state \in {5, 6} => Items(First(buf, out.peer)) \subseteq got'[out.peer]
    BY <1>9, Zenon DEF Progress
  <2>2. ldata # Silent \/ state \in {5, 6} => out.peer \in Peer
    BY <1>5 DEF Talk, Foreign
  <2>3. out.peer \in Peer => got[out.peer] \subseteq got'[out.peer]  BY <1>9
  <2>4. ldata # Silent /\ heard'[out.peer] = ldata => First(buf, out.peer)[bufoff] \in got'[out.peer]
    <3> SUFFICES ASSUME ldata # Silent, heard'[out.peer] = ldata
                 PROVE  First(buf, out.peer)[bufoff] \in got'[out.peer]
      OBVIOUS
    <3>1. CASE heard'[out.peer] = heard[out.peer] /\ got'[out.peer] = got[out.peer]
      BY <3>1, <2>1, <1>5 DEF Progress
    <3>3. ldata # Silent  OBVIOUS
    <3>2. CASE out.talk /\ (out.cmd \in Command => Pair(out) \in got'[out.peer])
      <4>1. out.cmd \in Command  BY <3>2, <2>1, <3>3, <1>8
      <4>2. Pair(out) = First(buf, out.peer)[bufoff]  BY <4>1, <3>2, <2>1, <1>4 DEF Repeats
      <4> QED  BY <4>1, <4>2, <3>2
    <3> QED  BY <3>1, <3>2, <2>2, <1>6 DEF Sent
  <2> QED  BY <2>1, <2>2, <2>3, <2>4, <1>5 DEF Progress
<1>11. Spoken(state, ldata, out.peer, heard', air)
  <2>1. CASE heard'[out.peer] = heard[out.peer]  BY <2>1, <1>5 DEF Spoken
  <2>2. CASE out.talk /\ heard'[out.peer] = out.cmd
    <3>1. state = 6 => ldata = Silent  BY <1>5 DEF Talk
    <3> QED  BY <2>2, <3>1, <1>7 DEF Spoken
  <2>3. ldata # Silent \/ state = 6 => out.peer \in Peer
    BY <1>5 DEF Talk, Foreign
  <2>4. out.peer \in Peer =>
          heard'[out.peer] = heard[out.peer] \/ (out.talk /\ heard'[out.peer] = out.cmd)
    BY <1>6 DEF Sent
  <2>5. CASE ldata = Silent /\ state # 6  BY <2>5 DEF Spoken
  <2> QED  BY <2>1, <2>2, <2>3, <2>4, <2>5
<1>12. /\ Laid(buf') /\ Talk(buf', state', ldata', bufoff', shifted', out'.peer)
       /\ Running(timeout', repeatcnt') => Repeats(buf', ldata', bufoff', shifted', got', broken', out')
       /\ Progress(buf', state', ldata', bufoff', shifted', out'.peer, heard', got', broken')
       /\ Spoken(state', ldata', out'.peer, heard', air')
       /\ on' \in BOOLEAN /\ (air' # Nothing => air'.peer \in Peer) /\ queued' \in 0 .. MaxQueued
  <2>1. Repeats(buf, ldata, bufoff, shifted, got', broken, out)  BY <1>4, <1>9, RepeatsGrows
  <2> QED  BY <2>1, <1>1, <1>5, <1>9, <1>10, <1>11
<1> QED  BY <1>2, <1>9, <1>12, Zenon DEF Inv

LEMMA GiveUpStep ==
  ASSUME Inv, TimerFires, ~(repeatcnt > 0)
  PROVE  Inv'
<1>1. /\ state' = 0 /\ ldata' = Silent /\ bufoff' = 1 /\ shifted' = FALSE /\ timeout' = TimerDisabled
      /\ repeatcnt' = repeatcnt /\ noise' = noise
      /\ heard' = heard /\ todo' = todo /\ got' = got /\ broken' = broken
      /\ on' = on /\ buf' = buf /\ out' = out /\ air' = air /\ queued' = queued
  BY DEF TimerFires, ResetTalk, peers
<1>2. TimerType(timeout', repeatcnt') /\ ~Running(timeout', repeatcnt')
  BY <1>1 DEF Inv, TimerType, Running
<1>3. /\ Talk(buf', state', ldata', bufoff', shifted', out'.peer)
      /\ Progress(buf', state', ldata', bufoff', shifted', out'.peer, heard', got', broken')
      /\ Spoken(state', ldata', out'.peer, heard', air')
  BY <1>1, NoTalk
<1>4. /\ Laid(buf') /\ Peers(buf', heard', todo', got', broken') /\ noise' \in 0 .. MaxNoise
      /\ on' \in BOOLEAN /\ (air' # Nothing => air'.peer \in Peer) /\ queued' \in 0 .. MaxQueued
  BY <1>1 DEF Inv
<1> QED  BY <1>2, <1>3, <1>4, Zenon DEF Inv

LEMMA TickStep == Inv /\ Tick => Inv'
<1> SUFFICES ASSUME Inv, Tick PROVE Inv'  OBVIOUS
<1>1. /\ timeout # TimerDisabled
      /\ timeout' = IF timeout = 0 THEN TimerDisabled ELSE timeout - 1
      /\ (Noise \/ noise' = noise) /\ repeatcnt' = repeatcnt
      /\ state' = state /\ ldata' = ldata /\ bufoff' = bufoff /\ shifted' = shifted
      /\ heard' = heard /\ todo' = todo /\ got' = got /\ broken' = broken
      /\ on' = on /\ buf' = buf /\ out' = out /\ air' = air /\ queued' = queued
  BY DEF Tick, talk, peers
<1>2. TimerType(timeout', repeatcnt')
  <2>1. timeout \in 0 .. WaitTicks /\ repeatcnt \in 0 .. 1
    BY <1>1 DEF Inv, TimerType
  <2>2. WaitTicks \in Nat  BY TimeAssumption
  <2> QED  BY <1>1, <2>1, <2>2 DEF TimerType
<1>3. noise' \in 0 .. MaxNoise  BY <1>1, BoundAssumption DEF Noise, Inv
<1>4. Running(timeout', repeatcnt') => Repeats(buf', ldata', bufoff', shifted', got', broken', out')
  <2>1. Running(timeout', repeatcnt') => Running(timeout, repeatcnt)
    BY <1>1 DEF Running
  <2> QED  BY <1>1, <2>1 DEF Inv
<1>5. /\ Laid(buf') /\ Peers(buf', heard', todo', got', broken')
      /\ Talk(buf', state', ldata', bufoff', shifted', out'.peer)
      /\ Progress(buf', state', ldata', bufoff', shifted', out'.peer, heard', got', broken')
      /\ Spoken(state', ldata', out'.peer, heard', air')
      /\ on' \in BOOLEAN /\ (air' # Nothing => air'.peer \in Peer) /\ queued' \in 0 .. MaxQueued
  BY <1>1 DEF Inv
<1> QED  BY <1>2, <1>3, <1>4, <1>5, Zenon DEF Inv

LEMMA EmptyLaid == Laid(<<>>)
<1>1. <<>> \in Seq(Entry) /\ DOMAIN <<>> = {}  OBVIOUS
<1>2. End(<<>>) <= BufSize  BY BoundAssumption DEF End
<1> QED  BY <1>1, <1>2 DEF Laid

(* Those whose answer to an item may still come are broken off.            *)
LEMMA HousecodeStep == Inv /\ SetHousecode => Inv'
<1> SUFFICES ASSUME Inv, SetHousecode PROVE Inv'  OBVIOUS
<1>1. /\ Noise /\ on' \in BOOLEAN /\ buf' = <<>>
      /\ state' = 0 /\ ldata' = Silent /\ bufoff' = 1 /\ shifted' = FALSE /\ timeout' = TimerDisabled
      /\ got' = [p \in Peer |-> {}]
      /\ broken' = broken \cup {p \in Peer : heard[p] \in Command}
      /\ repeatcnt' = repeatcnt /\ out' = out /\ heard' = heard /\ todo' = todo
      /\ air' = air /\ queued' = queued
  BY DEF SetHousecode, ResetTalk
<1>2. TimerType(timeout', repeatcnt') /\ ~Running(timeout', repeatcnt')
  BY <1>1 DEF Inv, TimerType, Running
<1>3. noise' \in 0 .. MaxNoise  BY <1>1, BoundAssumption DEF Noise, Inv
<1>4. /\ Talk(buf', state', ldata', bufoff', shifted', out'.peer)
      /\ Progress(buf', state', ldata', bufoff', shifted', out'.peer, heard', got', broken')
      /\ Spoken(state', ldata', out'.peer, heard', air')
  BY <1>1, NoTalk
<1>5. Peers(buf', heard', todo', got', broken')
  <2>1. PeersType(heard, todo, got, broken) /\ Answering(heard, todo)
    BY DEF Inv, Peers
  <2>2. PeersType(heard', todo', got', broken')
    BY <1>1, <2>1 DEF PeersType
  <2>3. InOrder(buf', heard', got', broken')
    BY <1>1, Zenon DEF InOrder
  <2> QED  BY <1>1, <2>1, <2>2, <2>3 DEF Peers
<1>6. /\ Laid(buf') /\ (air' # Nothing => air'.peer \in Peer) /\ queued' \in 0 .. MaxQueued
  BY <1>1, EmptyLaid DEF Inv
<1> QED  BY <1>1, <1>2, <1>3, <1>4, <1>5, <1>6, Zenon DEF Inv

(* What an FHT says or forgets disturbs nothing, if it answers what it has *)
(* heard last.                                                             *)
LEMMA FhtStep ==
  ASSUME Inv, FhtOnly, noise' \in 0 .. MaxNoise,
         heard' \in [Peer -> Said], todo' \in [Peer -> Said], Answering(heard', todo'),
         \A q \in Peer : heard'[q] \in {heard[q], Silent},
         air' # Nothing => air'.peer \in Peer,
         Spoken(state, ldata, out.peer, heard', air')
  PROVE  Inv'
<1>1. /\ on' = on /\ buf' = buf /\ state' = state /\ ldata' = ldata /\ bufoff' = bufoff /\ shifted' = shifted
      /\ timeout' = timeout /\ repeatcnt' = repeatcnt /\ out' = out
      /\ got' = got /\ broken' = broken /\ queued' = queued
  BY DEF FhtOnly, talk, timer
<1>2. /\ on \in BOOLEAN /\ queued \in 0 .. MaxQueued /\ TimerType(timeout, repeatcnt)
      /\ Laid(buf) /\ Talk(buf, state, ldata, bufoff, shifted, out.peer)
      /\ Peers(buf, heard, todo, got, broken)
      /\ Running(timeout, repeatcnt) => Repeats(buf, ldata, bufoff, shifted, got, broken, out)
      /\ Progress(buf, state, ldata, bufoff, shifted, out.peer, heard, got, broken)
  BY DEF Inv
<1>3. \A q \in Peer : heard'[q] \in Command => heard'[q] = heard[q]
  BY Commands
<1>4. Peers(buf, heard', todo', got, broken)
  <2>1. PeersType(heard', todo', got, broken)  BY <1>2 DEF Peers, PeersType
  <2>2. InOrder(buf, heard', got, broken)  BY <1>2, <1>3 DEF Peers, InOrder
  <2> QED  BY <2>1, <2>2 DEF Peers
<1>5. Progress(buf, state, ldata, bufoff, shifted, out.peer, heard', got, broken)
  <2>1. ldata # Silent /\ ~shifted => out.peer \in Peer /\ ldata \in Command
    BY <1>2 DEF Talk, InPlace, Foreign
  <2>2. ldata # Silent /\ ~shifted /\ heard'[out.peer] = ldata => heard[out.peer] = ldata
    BY <1>3, <2>1
  <2> QED  BY <1>2, <2>2, Zenon DEF Progress
<1>6. /\ TimerType(timeout', repeatcnt') /\ Laid(buf')
      /\ Talk(buf', state', ldata', bufoff', shifted', out'.peer)
      /\ Peers(buf', heard', todo', got', broken')
      /\ Running(timeout', repeatcnt') => Repeats(buf', ldata', bufoff', shifted', got', broken', out')
      /\ Progress(buf', state', ldata', bufoff', shifted', out'.peer, heard', got', broken')
      /\ Spoken(state', ldata', out'.peer, heard', air')
      /\ on' \in BOOLEAN /\ queued' \in 0 .. MaxQueued
  BY <1>1, <1>2, <1>4, <1>5
<1> QED  BY <1>6, Zenon DEF Inv

LEMMA FhtSteps ==
  ASSUME Inv, NEW p \in Peer,
         Actuator(p) \/ Reported(p) \/ Reply(p) \/ LoseReply(p) \/ RepeatReply(p)
  PROVE  Inv'
<1>1. /\ heard \in [Peer -> Said] /\ todo \in [Peer -> Said] /\ Answering(heard, todo)
      /\ noise \in 0 .. MaxNoise /\ (air # Nothing => air.peer \in Peer)
      /\ Spoken(state, ldata, out.peer, heard, air)
      /\ ldata \in Command \cup {Silent, Junk}
  BY DEF Inv, Peers, PeersType, Talk
<1>2. noise' = noise \/ Noise => noise' \in 0 .. MaxNoise
  BY <1>1, BoundAssumption DEF Noise
<1>3. "ACTUATOR" \in Said /\ Silent \in Said /\ "CAN_RCV" \in Said
  BY DEF Said, Protocol
<1>4. ldata # Silent => ldata \notin Protocol /\ ldata \notin Report
  BY <1>1, Commands, JunkIs
<1>5. "END_XMIT" \in Protocol /\ "ACTUATOR" \in Protocol /\ "CAN_RCV" \in Protocol
      /\ "END_XMIT" \notin Report
  BY DEF Protocol, Report
<1>6. "END_XMIT" \notin Command  BY <1>5, Commands
<1>7. ASSUME Says(p, heard[p]) \/ (Says(p, todo[p]) /\ todo[p] # Silent), heard' = heard
      PROVE  /\ air' # Nothing => air'.peer \in Peer
             /\ Spoken(state, ldata, out.peer, heard', air')
  <2>1. PICK c : /\ air' = [peer |-> p, cmd |-> c, fromFht |-> TRUE, foreign |-> FALSE]
                 /\ c = heard[p] \/ (c = todo[p] /\ todo[p] # Silent)
    BY <1>7 DEF Says
  <2>2. air'.peer = p /\ air'.cmd = c  BY <2>1
  <2>3. c \in {heard[p], "CAN_RCV"}  BY <1>1, <2>1 DEF Answering
  <2>4. ldata # Silent /\ c = ldata => heard[p] = ldata  BY <1>4, <1>5, <2>3
  <2>5. c = "END_XMIT" => heard[p] \notin Command  BY <1>6, <2>3
  <2> QED  BY <1>7, <2>2, <2>4, <2>5 DEF Spoken
<1>8. CASE Actuator(p)
  <2>1. /\ air' = [peer |-> p, cmd |-> "ACTUATOR", fromFht |-> TRUE, foreign |-> FALSE]
        /\ todo[p] = Silent /\ heard' = [heard EXCEPT ![p] = Silent] /\ todo' = todo
        /\ (noise' = noise \/ Noise) /\ FhtOnly
    BY <1>8 DEF Actuator, Says
  <2>2. /\ heard' \in [Peer -> Said] /\ heard'[p] = Silent
        /\ \A q \in Peer : heard'[q] \in {heard[q], Silent}
        /\ \A q \in Peer : q # p => heard'[q] = heard[q]
    BY <2>1, <1>1, <1>3
  <2>3. Answering(heard', todo')  BY <2>1, <2>2, <1>1 DEF Answering
  <2>4. air'.peer = p /\ air'.cmd = "ACTUATOR"  BY <2>1
  <2>5. Spoken(state, ldata, out.peer, heard', air')
    BY <2>4, <1>4, <1>5 DEF Spoken
  <2> QED  BY <2>1, <2>2, <2>3, <2>4, <2>5, <1>1, <1>2, FhtStep
<1>9. CASE Reported(p)
  <2>1. PICK c \in Report, f \in BOOLEAN, g \in BOOLEAN :
          air' = [peer |-> p, cmd |-> c, fromFht |-> f, foreign |-> g]
    BY <1>9 DEF Reported
  <2>2. heard' = heard /\ todo' = todo /\ Noise /\ FhtOnly  BY <1>9 DEF Reported
  <2>3. air'.peer = p /\ air'.cmd = c  BY <2>1
  <2>4. Spoken(state, ldata, out.peer, heard', air')
    BY <2>3, <1>4, <1>5 DEF Spoken
  <2> QED  BY <2>2, <2>3, <2>4, <1>1, <1>2, FhtStep
<1>10. CASE Reply(p) \/ LoseReply(p)
  <2>1. /\ todo' = [todo EXCEPT ![p] = After(todo[p])] /\ heard' = heard
        /\ (noise' = noise \/ Noise) /\ FhtOnly
        /\ (Says(p, todo[p]) /\ todo[p] # Silent) \/ air' = air
    BY <1>10 DEF Reply, LoseReply
  <2>2. After(todo[p]) \in {Silent, "CAN_RCV"}  BY DEF After
  <2>3. todo' \in [Peer -> Said]  BY <2>1, <2>2, <1>1, <1>3
  <2>4. Answering(heard', todo')  BY <2>1, <2>2, <1>1 DEF Answering
  <2>5. /\ air' # Nothing => air'.peer \in Peer
        /\ Spoken(state, ldata, out.peer, heard', air')
    BY <2>1, <1>1, <1>7
  <2> QED  BY <2>1, <2>3, <2>4, <2>5, <1>1, <1>2, FhtStep
<1>11. CASE RepeatReply(p)
  <2>1. heard' = heard /\ todo' = todo /\ Noise /\ FhtOnly /\ Says(p, heard[p])
    BY <1>11 DEF RepeatReply
  <2> QED  BY <2>1, <1>1, <1>2, <1>7, FhtStep
<1> QED  BY <1>8, <1>9, <1>10, <1>11

-----------------------------------------------------------------------------
(* The theorems.                                                           *)

LEMMA InvInit == Init => Inv
<1> SUFFICES ASSUME Init PROVE Inv  OBVIOUS
<1>1. /\ on \in BOOLEAN /\ buf = <<>> /\ state = 0 /\ ldata = Silent /\ bufoff = 1 /\ shifted = FALSE
      /\ timeout = TimerDisabled /\ repeatcnt = 0
      /\ heard = [p \in Peer |-> Silent] /\ todo = [p \in Peer |-> Silent]
      /\ got = [p \in Peer |-> {}] /\ broken = {} /\ air = Nothing
      /\ queued = 0 /\ noise = 0
  BY DEF Init
<1>2. queued \in 0 .. MaxQueued /\ noise \in 0 .. MaxNoise  BY <1>1, BoundAssumption
<1>3. TimerType(timeout, repeatcnt) /\ ~Running(timeout, repeatcnt)
  BY <1>1 DEF TimerType, Running
<1>4. /\ Talk(buf, state, ldata, bufoff, shifted, out.peer)
      /\ Progress(buf, state, ldata, bufoff, shifted, out.peer, heard, got, broken)
      /\ Spoken(state, ldata, out.peer, heard, air)
  BY <1>1, NoTalk
<1>5. Peers(buf, heard, todo, got, broken)
  <2>1. PeersType(heard, todo, got, broken) /\ Answering(heard, todo)
    BY <1>1 DEF PeersType, Answering, Said
  <2>2. InOrder(buf, heard, got, broken)  BY <1>1, Commands DEF InOrder
  <2> QED  BY <2>1, <2>2 DEF Peers
<1> QED  BY <1>1, <1>2, <1>3, <1>4, <1>5, EmptyLaid DEF Inv

LEMMA InvStep == Inv /\ [Next]_vars => Inv'
<1> SUFFICES ASSUME Inv, [Next]_vars PROVE Inv'  OBVIOUS
<1>1. CASE \E p \in Peer, items \in Message : Queue(p, items)  BY <1>1, QueueStep
<1>2. CASE Receive  BY <1>2, ReceiveStep
<1>3. CASE TimerFires  BY <1>3, RepeatStep, GiveUpStep
<1>4. CASE Tick  BY <1>4, TickStep
<1>5. CASE SetHousecode  BY <1>5, HousecodeStep
<1>6. CASE \E p \in Peer :
             Actuator(p) \/ Reported(p) \/ Reply(p) \/ LoseReply(p) \/ RepeatReply(p)
  BY <1>6, FhtSteps
<1>7. CASE UNCHANGED vars
  <2>1. /\ on' = on /\ buf' = buf /\ state' = state /\ ldata' = ldata /\ bufoff' = bufoff /\ shifted' = shifted
        /\ timeout' = timeout /\ repeatcnt' = repeatcnt /\ out' = out
        /\ heard' = heard /\ todo' = todo /\ got' = got /\ broken' = broken
        /\ air' = air /\ queued' = queued /\ noise' = noise
    BY <1>7 DEF vars, talk, timer, peers, bounds
  <2> QED  BY <2>1 DEF Inv
<1> QED  BY <1>1, <1>2, <1>3, <1>4, <1>5, <1>6, <1>7 DEF Next

(* Every variable keeps its type: the messages in fht80b_buf lie one behind *)
(* the other within it, whatever is queued and deleted, and a conversation  *)
(* that is under way has a message to hand over.  The zero that ends the    *)
(* list may be stored behind fht80b_buf; the types hold with what it does   *)
(* there to fht80b_bufoff and to fht80b_repeatcnt.                          *)
THEOREM TypeCorrect == Spec => []TypeOK
<1>1. Spec => []Inv  BY InvInit, InvStep, PTL DEF Spec
<1> QED  BY <1>1, InvType, PTL

(* fht_hook() deletes a message whose neighbouring items have different     *)
(* commands only when its FHT has heard every item of it, for any number of *)
(* FHTs, of messages of any length, those with equal neighbours among them, *)
(* and of faults on the air.  It does not say so of a message that a new    *)
(* house code came just before (broken), nor of one that is handed over     *)
(* from an offset a full buffer has moved (shifted).                        *)
THEOREM DeletedTheorem == Spec => DeletedOnlyWhenHeard
<1>1. Spec => []Inv  BY InvInit, InvStep, PTL DEF Spec
<1>2. ASSUME Inv, NEW p \in Peer, Receive, Len(buf') < Len(buf), air.peer = p,
             Distinct(Oldest(p)), p \notin broken, ~shifted
      PROVE  Items(Oldest(p)) \subseteq got[p]
  <2>1. PICK m : m = air  OBVIOUS
  <2>2. m.peer \in Peer /\ Hook(m)  BY <1>2, <2>1 DEF Receive
  <2>3. Sure(buf, p, broken)  BY <1>2, AboutBuf DEF Sure
  <2> QED  BY <1>2, <2>1, <2>2, <2>3, HookStepInv
<1>3. Inv => [\A p \in Peer :
                /\ Receive /\ Len(buf') < Len(buf) /\ air.peer = p
                /\ Distinct(Oldest(p)) /\ p \notin broken /\ ~shifted
                => Items(Oldest(p)) \subseteq got[p]]_vars
  BY <1>2
<1>4. []Inv => DeletedOnlyWhenHeard  BY <1>3, PTL DEF DeletedOnlyWhenHeard
<1> QED  BY <1>1, <1>4
=============================================================================
