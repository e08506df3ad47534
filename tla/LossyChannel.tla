---------------------------- MODULE LossyChannel ----------------------------
(***************************************************************************)
(* What a path through the firmware promises to the peers at its ends: one *)
(* direction of the USB bridge, or the receiver of culfw.                  *)
(*                                                                         *)
(* Items (bytes, frames) are numbered in the order in which the source     *)
(* sends them.  The channel may lose items, but it never duplicates one,   *)
(* never invents one and never delivers two of them out of order: what the *)
(* sink sees is a subsequence of what the source sent.                     *)
(***************************************************************************)
EXTENDS Naturals

VARIABLES
  sent,       \* number of items the source has sent
  last,       \* number of the item delivered last, 0 before the first
  delivered,  \* how many items the sink has seen
  lost        \* how many items are lost for good

vars == <<sent, last, delivered, lost>>

Init ==
  /\ sent = 0
  /\ last = 0
  /\ delivered = 0
  /\ lost = 0

(* The source sends its next item, upon which one may be lost.             *)
Send ==
  /\ sent' = sent + 1
  /\ lost' \in {lost, lost + 1}
  /\ UNCHANGED <<last, delivered>>

(* An item newer than every one delivered so far reaches the sink.        *)
Deliver ==
  /\ \E b \in last + 1 .. sent : last' = b
  /\ delivered' = delivered + 1
  /\ UNCHANGED <<sent, lost>>

Lose ==
  /\ lost' = lost + 1
  /\ UNCHANGED <<sent, last, delivered>>

Next == Send \/ Deliver \/ Lose

Spec == Init /\ [][Next]_vars
=============================================================================
