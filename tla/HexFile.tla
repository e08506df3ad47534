------------------------------ MODULE HexFile ------------------------------
(***************************************************************************)
(* Reading an Intel hex file, CUN/AVRLoader/lib/SDHexLoaderISP:            *)
(* IntelHexFile.cpp, and the two loops SDHexSession.cpp puts on top of it, *)
(* LoadNextDataRecord() and LoadPageFromSD().                              *)
(*                                                                         *)
(* A file is a sequence of records; a line whose checksum or start code is *)
(* wrong is a record of type "bad".  Addresses and lengths are in words,   *)
(* as the session assumes even addresses.  A reader is what IntelHexFile   *)
(* keeps between two calls, with mDataIndex of the session.                *)
(***************************************************************************)
EXTENDS Naturals, Sequences

CONSTANTS
  SegmentWords, \* words in a segment of 64 KB
  Erased        \* 0xFFFF

ASSUME SegmentAssumption == SegmentWords \in Nat \ {0} /\ Erased \in Nat

DataRecord(a, ws) == [type |-> "data", address |-> a, words |-> ws]
ExtRecord(hi) == [type |-> "ext", high |-> hi]
StartRecord == [type |-> "start"]
EofRecord == [type |-> "eof"]
BadRecord == [type |-> "bad"]
(* A data record lies in 64 KB and has data (of one without, NextRecord()  *)
(* takes the checksum for data: it is a bad one); mAddressH has four bits. *)
Record ==
  [type : {"data"}, address : 0..SegmentWords - 1, words : Seq(Nat) \ {<<>>}]
  \cup [type : {"ext"}, high : 0..15] \cup {StartRecord, EofRecord, BadRecord}

(* Body(v), with v computed once.                                          *)
With(v, Body(_)) == CHOOSE r \in {Body(x) : x \in {v}} : TRUE

Rewind == [pos |-> 1, type |-> "invalid", high |-> 0, address |-> 0, words |-> <<>>, index |-> 0]

(* One line.  An extended segment address holds until the next one; the    *)
(* address field of every record that carries no data is 0.                *)
NextRecord(f, h) ==
  IF h.pos > Len(f) \/ f[h.pos].type = "bad"
    THEN [h EXCEPT !.type = "invalid"]
    ELSE LET r == f[h.pos]  data == r.type = "data" IN
         [h EXCEPT !.pos = @ + 1,
                   !.type = r.type,
                   !.high = IF r.type = "ext" THEN r.high ELSE @,
                   !.address = IF data THEN r.address ELSE 0,
                   !.words = IF data THEN r.words ELSE <<>>]

(* The next data or end record.  A reader of type "invalid" stands for the *)
(* error the caller gets.                                                  *)
Skipped(f, h) == IF h.type \in {"ext", "start"} THEN NextRecord(f, h) ELSE h
LoadNextDataRecord(f, h) ==
  LET read[k \in 0..Len(f)] ==
        IF k = 0 THEN NextRecord(f, h) ELSE With(read[k - 1], LAMBDA p : Skipped(f, p))
  IN [read[Len(f)] EXCEPT !.index = 0]

WordAddress(h) == h.high * SegmentWords + h.address + h.index
PageOf(a, n) == a - (a % n)
(* mAddressH >> 1: the upper address byte of the chip selects 64K words.   *)
Bank(h) == h.high \div 2
BankWords == 2 * SegmentWords

Padding(n) == [i \in 1..n |-> Erased]

(* LoadPageFromSD(): the page of n words the reader stands in.  The words  *)
(* of records that follow in the same page are appended, wherever in the   *)
(* page they belong.                                                       *)
Take(s, n) ==
  LET left == Len(s.hex.words) - s.hex.index
      room == n - Len(s.data)
      m == IF left < room THEN left ELSE room
  IN [s EXCEPT !.data = @ \o SubSeq(s.hex.words, s.hex.index + 1, s.hex.index + m),
               !.hex.index = @ + m]
(* s with the next record, from which the page that h stands in goes on.   *)
Continued(s, next, h, n) ==
  IF next.type = "invalid" THEN [s EXCEPT !.hex = next, !.ok = FALSE]
  ELSE IF PageOf(WordAddress(next), n) # PageOf(WordAddress(h), n) \/ Bank(next) # Bank(h)
    THEN [s EXCEPT !.hex = next, !.data = @ \o Padding(n - Len(@))]
  ELSE Take([s EXCEPT !.hex = next], n)
Filled(f, s, h, n) ==
  IF ~s.ok \/ Len(s.data) = n THEN s
  ELSE With(LoadNextDataRecord(f, s.hex), LAMBDA next : Continued(s, next, h, n))
LoadPageFromSD(f, h, n) ==
  LET begun == [hex |-> h, data |-> Padding(WordAddress(h) % n), ok |-> TRUE]
      fill[k \in 0..Len(f) + 1] ==
        IF k = 0 THEN Take(begun, n) ELSE With(fill[k - 1], LAMBDA s : Filled(f, s, h, n))
  IN fill[Len(f) + 1]

-----------------------------------------------------------------------------
(* What a file says, without any reader.                                   *)

DataRecords(f) == {i \in 1..Len(f) : f[i].type = "data"}

HighAt(f, i) ==
  LET before == {j \in 1..i - 1 : f[j].type = "ext"}
  IN IF before = {} THEN 0 ELSE f[CHOOSE j \in before : \A k \in before : k <= j].high

FirstWord(f, i) == HighAt(f, i) * SegmentWords + f[i].address
PastWord(f, i) == FirstWord(f, i) + Len(f[i].words)

(* The pairs of an address and the word that belongs there.                *)
Contents(f) ==
  UNION {{<<FirstWord(f, i) + k - 1, f[i].words[k]>> : k \in 1..Len(f[i].words)} : i \in DataRecords(f)}

(* Neighbours i and j among the data records.                              *)
Follows(f, i, j) == i < j /\ \A k \in DataRecords(f) : k <= i \/ k >= j

(* Within a page of n words data are contiguous.                           *)
GapFree(f, n) ==
  \A i, j \in DataRecords(f) :
    Follows(f, i, j) /\ PageOf(PastWord(f, i) - 1, n) = PageOf(FirstWord(f, j), n)
      => FirstWord(f, j) = PastWord(f, i)

(* The end record is the last one, and no record runs over the end of the  *)
(* bank it begins in: mAddressH is that of its beginning.                  *)
Orderly(f) ==
  /\ \A i \in 1..Len(f) : f[i].type = "eof" => i = Len(f)
  /\ \A i \in DataRecords(f) : PastWord(f, i) <= (HighAt(f, i) \div 2 + 1) * BankWords

InFirstBank(f) == \A i \in DataRecords(f) : HighAt(f, i) < 2

(* Records ascend, so no page is returned to.                              *)
Ascending(f) ==
  \A i, j \in DataRecords(f) : Follows(f, i, j) => PastWord(f, i) <= FirstWord(f, j)

(* The last page is full or is not the first one of the segment in force   *)
(* at the end: the end record, whose address is 0, does not seem to        *)
(* continue it.                                                            *)
LastPageEnds(f, n) ==
  \E i \in DataRecords(f) :
    /\ \A k \in DataRecords(f) : k <= i
    /\ PastWord(f, i) % n = 0
       \/ PageOf(PastWord(f, i) - 1, n) # PageOf(HighAt(f, Len(f)) * SegmentWords, n)

Complete(f) ==
  /\ f # <<>> /\ f[Len(f)].type = "eof"
  /\ \A i \in 1..Len(f) : f[i].type # "bad"
=============================================================================
