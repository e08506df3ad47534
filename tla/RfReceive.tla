----------------------------- MODULE RfReceive -----------------------------
(***************************************************************************)
(* The receiver of culfw, culfw/lib/clib/rf_receive.c: the edge interrupt  *)
(* collects the bits of a frame in a bucket, the timer interrupt commits   *)
(* the bucket after a silence, and RfAnalyze_Task() in the main loop       *)
(* decodes committed buckets and releases them.                            *)
(*                                                                         *)
(* An interrupt runs alone.  The task can be interrupted between any two   *)
(* accesses to what it shares with them; in particular bucket_nrused-- is  *)
(* a load and a store on the 8-bit processor.                              *)
(*                                                                         *)
(* SYNC and COLLECT stand for the states below and from STATE_COLLECT on;  *)
(* what is in a bucket is told by the number of the frame it was filled    *)
(* with and by byteidx.  Whether edges make a bit, a frame or noise is     *)
(* left open, and so is what a bucket decodes to.                          *)
(***************************************************************************)
EXTENDS Naturals

CONSTANTS
  RcvBuckets,  \* RCV_BUCKETS
  MaxMsg,      \* MAXMSG, the bytes a bucket holds
  MaxFrames    \* bound: frames on the air

ASSUME BucketsAssumption == RcvBuckets \in Nat \ {0}
ASSUME MaxMsgAssumption == MaxMsg \in Nat \ {0, 1}
ASSUME MaxFramesAssumption == MaxFrames \in Nat

Bucket == 0 .. RcvBuckets - 1
BucketState == {"RESET", "SYNC", "COLLECT"}

VARIABLES
  bucket_state, byteidx, \* members of bucket_array[b]
  frame,           \* frame[b]: number of the frame collected in b
  bucket_in, bucket_out, bucket_nrused,
  timsk1,          \* TIMSK1: the timer interrupt is enabled
  pc,              \* the next access of RfAnalyze_Task()
  loaded,          \* bucket_nrused as loaded by bucket_nrused--
  sent,            \* history: frames whose collection has begun
  last, delivered, \* history: frame decoded last, frames decoded
  lost             \* history: frames given up

rings == <<bucket_in, bucket_out, bucket_nrused>>
buckets == <<bucket_state, byteidx, frame>>
task == <<pc, loaded>>
history == <<sent, last, delivered, lost>>
rfVars == <<buckets, rings, timsk1, task, history>>

RfInit ==
  /\ bucket_state = [b \in Bucket |-> "RESET"]
  /\ byteidx = [b \in Bucket |-> 0]
  /\ frame = [b \in Bucket |-> 0]
  /\ bucket_in = 0 /\ bucket_out = 0 /\ bucket_nrused = 0
  /\ timsk1 = FALSE
  /\ pc = "idle" /\ loaded = 0
  /\ sent = 0 /\ last = 0 /\ delivered = 0 /\ lost = 0

-----------------------------------------------------------------------------
(* Operations on buckets.                                                  *)

NextBucket(b) == (b + 1) % RcvBuckets

(* What the loss counter becomes when the frame in bucket b is given up.   *)
GiveUp(b) == IF bucket_state[b] = "COLLECT" THEN lost + 1 ELSE lost

(* reset_input(), in one go inside an interrupt                            *)
ResetInput ==
  /\ timsk1' = FALSE
  /\ bucket_state' = [bucket_state EXCEPT ![bucket_in] = "RESET"]
  /\ lost' = GiveUp(bucket_in)

(* addbit() where the bucket has room: the bit may be the last of a byte.  *)
AddBit(b) ==
  /\ byteidx[b] < MaxMsg
  /\ \E n \in {byteidx[b], byteidx[b] + 1} : byteidx' = [byteidx EXCEPT ![b] = n]

-----------------------------------------------------------------------------
(* ISR(CC1100_INTVECT)                                                     *)

(* A first sync bit, also the retry after too few of them.                 *)
SyncBegins ==
  /\ bucket_state[bucket_in] \in {"RESET", "SYNC"}
  /\ bucket_state' = [bucket_state EXCEPT ![bucket_in] = "SYNC"]
  /\ UNCHANGED <<byteidx, frame, rings, timsk1, task, history>>

(* Too few sync bits, and the edge is too long for a new first one.        *)
SyncFails ==
  /\ bucket_state[bucket_in] = "SYNC"
  /\ bucket_state' = [bucket_state EXCEPT ![bucket_in] = "RESET"]
  /\ UNCHANGED <<byteidx, frame, rings, timsk1, task, history>>

(* Collection begins: behind a sync sequence, at once for the long pulses  *)
(* of IT and TCM97001, and in any state for the start pulse of Revolt.     *)
FrameBegins ==
  /\ sent < MaxFrames
  /\ sent' = sent + 1
  /\ bucket_state' = [bucket_state EXCEPT ![bucket_in] = "COLLECT"]
  /\ byteidx' = [byteidx EXCEPT ![bucket_in] = 0]
  /\ frame' = [frame EXCEPT ![bucket_in] = sent + 1]
  /\ timsk1' = TRUE
  /\ lost' = GiveUp(bucket_in)
  /\ UNCHANGED <<rings, task, last, delivered>>

Bit ==
  /\ bucket_state[bucket_in] = "COLLECT"
  /\ AddBit(bucket_in)
  /\ UNCHANGED <<bucket_state, frame, rings, timsk1, task, history>>

(* A pulse of no known length, or a bit for which there is no room.        *)
BadEdge ==
  /\ bucket_state[bucket_in] = "COLLECT"
  /\ ResetInput
  /\ UNCHANGED <<byteidx, frame, rings, task, sent, last, delivered>>

(* STATE_IT: an edge too close to be a sync bit, before the first bit or   *)
(* behind a long low time, which clears sync; the timer is left running.   *)
ItFails ==
  /\ bucket_state[bucket_in] = "COLLECT"
  /\ bucket_state' = [bucket_state EXCEPT ![bucket_in] = "RESET"]
  /\ lost' = GiveUp(bucket_in)
  /\ UNCHANGED <<byteidx, frame, rings, timsk1, task, sent, last, delivered>>

-----------------------------------------------------------------------------
(* ISR(TIMER1_COMPA_vect)                                                  *)

FalseAlarm == bucket_state[bucket_in] # "COLLECT" \/ byteidx[bucket_in] < 2

NeverFull == FALSE  \* mutant
Full == bucket_nrused + 1 = RcvBuckets

Silence ==
  /\ timsk1
  /\ timsk1' = FALSE
  /\ IF FalseAlarm \/ Full
     THEN ResetInput /\ UNCHANGED rings
     ELSE /\ bucket_nrused' = bucket_nrused + 1
          /\ bucket_in' = NextBucket(bucket_in)
          /\ UNCHANGED <<bucket_out, bucket_state, lost>>
  /\ UNCHANGED <<byteidx, frame, task, sent, last, delivered>>

-----------------------------------------------------------------------------
(* RfAnalyze_Task()                                                        *)

LookForTwo ==  \* mutant: one committed bucket is not enough
  /\ pc = "idle" /\ bucket_nrused > 1
  /\ pc' = "analyse"
  /\ UNCHANGED <<buckets, rings, timsk1, loaded, history>>

LookForOne ==
  /\ pc = "idle" /\ bucket_nrused # 0
  /\ pc' = "analyse"
  /\ UNCHANGED <<buckets, rings, timsk1, loaded, history>>

(* The decoders read the bucket; the one for KS300 appends the last bit by *)
(* hand, and takes it back unless the frame is a KS300 frame.              *)
Analyse ==
  /\ pc = "analyse"
  /\ pc' = "release"
  /\ last' = frame[bucket_out]
  /\ delivered' = delivered + 1
  /\ AddBit(bucket_out) \/ UNCHANGED byteidx
  /\ UNCHANGED <<bucket_state, frame, rings, timsk1, loaded, sent, lost>>

(* The same where the bucket has no room: addbit() then calls              *)
(* reset_input(), which is meant for the bucket the interrupts fill, and a *)
(* bit that was never appended is taken back.                              *)
AnalyseFull ==
  /\ pc = "analyse" /\ byteidx[bucket_out] >= MaxMsg
  /\ pc' = "resetInput"
  /\ last' = frame[bucket_out]
  /\ delivered' = delivered + 1
  /\ timsk1' = FALSE
  /\ byteidx' = [byteidx EXCEPT ![bucket_out] = @ - 1]
  /\ UNCHANGED <<bucket_state, frame, rings, loaded, sent, lost>>

ResetInputState ==
  /\ pc = "resetInput"
  /\ pc' = "release"
  /\ bucket_state' = [bucket_state EXCEPT ![bucket_in] = "RESET"]
  /\ lost' = GiveUp(bucket_in)
  /\ UNCHANGED <<byteidx, frame, rings, timsk1, loaded, sent, last, delivered>>

Release ==
  /\ pc = "release"
  /\ pc' = "load"
  /\ bucket_state' = [bucket_state EXCEPT ![bucket_out] = "RESET"]
  /\ UNCHANGED <<byteidx, frame, rings, timsk1, loaded, history>>

Load ==
  /\ pc = "load"
  /\ pc' = "store"
  /\ loaded' = bucket_nrused
  /\ UNCHANGED <<buckets, rings, timsk1, history>>

Store ==
  /\ pc = "store"
  /\ pc' = "advance"
  /\ bucket_nrused' = loaded - 1
  /\ loaded' = 0
  /\ UNCHANGED <<buckets, bucket_in, bucket_out, timsk1, history>>

AdvanceNot ==  \* mutant: the same bucket next time
  /\ pc = "advance"
  /\ pc' = "idle"
  /\ UNCHANGED <<buckets, rings, timsk1, loaded, history>>

Advance ==
  /\ pc = "advance"
  /\ pc' = "idle"
  /\ bucket_out' = NextBucket(bucket_out)
  /\ UNCHANGED <<buckets, bucket_in, bucket_nrused, timsk1, loaded, history>>

Task ==
  \/ LookForOne \/ Analyse \/ AnalyseFull \/ ResetInputState
  \/ Release \/ Load \/ Store \/ Advance

Edge == SyncBegins \/ SyncFails \/ FrameBegins \/ Bit \/ BadEdge \/ ItFails

RfNext == Edge \/ Silence \/ Task

(* The main loop goes round for ever; the air may never fall silent.       *)
Fairness == WF_rfVars(Task)

RfSpec == RfInit /\ [][RfNext]_rfVars /\ Fairness

-----------------------------------------------------------------------------
(* Properties.  All but the types are for the two buckets of board.h:71,   *)
(* with which the timer interrupt never commits while a bucket is in use:  *)
(* with more, a frame committed between the load and the store of          *)
(* bucket_nrused-- would be forgotten.                                     *)

(* Every variable keeps its type; one bucket is always left to collect in. *)
RfTypeOK ==
  /\ bucket_state \in [Bucket -> BucketState]
  /\ byteidx \in [Bucket -> 0 .. MaxMsg]
  /\ frame \in [Bucket -> Nat]
  /\ bucket_in \in Bucket /\ bucket_out \in Bucket
  /\ bucket_nrused \in 0 .. RcvBuckets - 1
  /\ timsk1 \in BOOLEAN
  /\ pc \in {"idle", "analyse", "resetInput", "release", "load", "store", "advance"}
  /\ loaded \in 0 .. RcvBuckets - 1
  /\ sent \in Nat /\ last \in Nat /\ delivered \in Nat /\ lost \in Nat

(* The committed buckets the task has still to read or is reading; while   *)
(* it releases one, the indexes and the counter lag behind.                *)
Unread ==
  LET first == IF pc \in {"load", "store", "advance"}
               THEN NextBucket(bucket_out) ELSE bucket_out
      number == IF pc \in {"load", "store"} THEN bucket_nrused - 1 ELSE bucket_nrused
  IN {(first + k) % RcvBuckets : k \in 0 .. number - 1}

(* The interrupts never write to such a bucket.                            *)
CommittedUntouched ==
  [][Edge \/ Silence =>
       \A b \in Unread : /\ bucket_state'[b] = bucket_state[b] /\ frame'[b] = frame[b]
                         /\ byteidx'[b] = byteidx[b]]_rfVars

(* Every frame is decoded, given up or in a bucket.                        *)
Undecoded(b) ==
  bucket_state[b] = "COLLECT" /\ ~(b = bucket_out /\ pc \in {"resetInput", "release"})

FramesAccounted ==
  sent = delivered + lost + IF \A b \in Bucket : Undecoded(b) THEN 2
                            ELSE IF \E b \in Bucket : Undecoded(b) THEN 1 ELSE 0

(* The frames decoded are frames from the air, in their order, none twice. *)
Air == INSTANCE LossyChannel
FramesInOrder == Air!Spec

(* A committed frame is decoded and its bucket released; the receiver does *)
(* not stay full.                                                          *)
BucketsAreReleased == bucket_nrused # 0 ~> bucket_nrused = 0
=============================================================================
