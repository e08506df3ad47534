-------------------------- MODULE AvrSession_proofs -------------------------
(***************************************************************************)
(* Proofs about the AVR loader, first part, for every hex file, every job  *)
(* and every size of page and segment: the hex file and the session.       *)
(*                                                                         *)
(* The hex file: each word its reader has passed while a page was loaded   *)
(* is in that page, at its offset, so none is skipped; and a page of a     *)
(* file that suits is loaded in full.  The readers are recursive           *)
(* functions: what holds of each step of theirs is carried to the end by   *)
(* the least number principle, which the well-founded induction library    *)
(* proves of the natural numbers.                                          *)
(*                                                                         *)
(* The session, with any number of faults of the line: types, and a        *)
(* handler is called only when it can be (IInv); a wrong chip is left      *)
(* alone (WrongChip); fuses and lock bits (Configuring).  Then what its    *)
(* handlers make of Checking, the invariant on the words that the second   *)
(* part, AvrLoader_proofs, carries through the steps: the session is       *)
(* before verification, or verifying, and then every word its reader of    *)
(* the file has passed is in its place in the target, or it has read the   *)
(* whole file and writes no memory any more.                               *)
(***************************************************************************)
EXTENDS AvrLoader, TLAPS, WellFoundedInduction, SequenceTheorems

LEMMA Least ==
  ASSUME NEW T, T \subseteq Nat, T # {}
  PROVE  \E n \in T : \A m \in T : n <= m
<1> DEFINE R == OpToRel(<, Nat)
<1>1. IsWellFoundedOn(R, Nat)  BY NatLessThanWellFounded
<1>2. \E x \in T : \A y \in T : ~(<<y, x>> \in R)
  <2> HIDE DEF R
  <2> QED  BY <1>1, WFMin
<1>3. \A x \in Nat, y \in Nat : y < x => <<y, x>> \in R  BY DEF OpToRel
<1> HIDE DEF R
<1>4. PICK x \in T : \A y \in T : ~(<<y, x>> \in R)  BY <1>2
<1>5. ASSUME NEW y \in T PROVE x <= y
  <2>1. x \in Nat /\ y \in Nat  OBVIOUS
  <2>2. ~(y < x)  BY <2>1, <1>3, <1>4
  <2> QED  BY <2>1, <2>2
<1> QED  BY <1>5

(* What holds at 0 and is handed on from each number to the next.          *)
LEMMA Carried ==
  ASSUME NEW n \in Nat, NEW T, 0 \in T, \A k \in 1 .. n : k - 1 \in T => k \in T
  PROVE  \A k \in 0 .. n : k \in T
<1> DEFINE Missing == {k \in 0 .. n : k \notin T}
<1>1. SUFFICES ASSUME Missing # {} PROVE FALSE  OBVIOUS
<1>2. PICK m \in Missing : \A k \in Missing : m <= k
  <2>1. Missing \subseteq Nat  OBVIOUS
  <2> HIDE DEF Missing
  <2> QED  BY <1>1, <2>1, Least
<1>3. m # 0  BY <1>2
<1>4. m - 1 \in 0 .. n /\ m \in 1 .. n /\ ~(m <= m - 1)  BY <1>2, <1>3
<1>5. m - 1 \in T  BY <1>2, <1>4
<1> QED  BY <1>2, <1>4, <1>5

(* r goes from a by n steps of g.                                          *)
Steps(r, a, g, n) == \A k \in 0 .. n : r[k] = IF k = 0 THEN a ELSE g[r[k - 1]]

(* A step on a set can be repeated any number of times.                    *)
LEMMA Iterates ==
  ASSUME NEW S, NEW a \in S, NEW g \in [S -> S], NEW n \in Nat
  PROVE  \E r \in [0 .. n -> S] : Steps(r, a, g, n)
<1> DEFINE T == {m \in Nat : \E r \in [0 .. m -> S] : Steps(r, a, g, m)}
<1>1. 0 \in T
  <2> DEFINE r == [k \in 0 .. 0 |-> a]
  <2>1. r \in [0 .. 0 -> S] /\ Steps(r, a, g, 0)  BY DEF Steps
  <2> QED  BY <2>1
<1>2. ASSUME NEW m \in 1 .. n, m - 1 \in T PROVE m \in T
  <2>1. PICK q \in [0 .. m - 1 -> S] : Steps(q, a, g, m - 1)  BY <1>2
  <2> DEFINE r == [k \in 0 .. m |-> IF k = m THEN g[q[m - 1]] ELSE q[k]]
  <2>2. m - 1 \in 0 .. m - 1 /\ m \in Nat /\ m # 0  OBVIOUS
  <2>3. r \in [0 .. m -> S]
    <3>1. ASSUME NEW k \in 0 .. m, k # m PROVE k \in 0 .. m - 1  BY <3>1
    <3> QED  BY <2>2, <3>1
  <2>4. ASSUME NEW k \in 0 .. m PROVE r[k] = IF k = 0 THEN a ELSE g[r[k - 1]]
    <3>1. CASE k = m
      BY <3>1, <2>2
    <3>2. CASE k # m
      <4>1. k \in 0 .. m - 1  BY <3>2
      <4>2. k # 0 => k - 1 \in 0 .. m /\ k - 1 # m  BY <4>1
      <4>3. q[k] = IF k = 0 THEN a ELSE g[q[k - 1]]  BY <2>1, <4>1 DEF Steps
      <4> QED  BY <3>2, <4>1, <4>2, <4>3
    <3> QED  BY <3>1, <3>2
  <2>5. Steps(r, a, g, m)
    <3> HIDE DEF r
    <3> QED  BY <2>4 DEF Steps
  <2> QED  BY <2>2, <2>3, <2>5
<1>3. n \in T
  <2> HIDE DEF T
  <2> QED  BY <1>1, <1>2, Carried
<1> QED  BY <1>3

(* Whoever follows a step that stays in a set stays in the set.            *)
LEMMA Stays ==
  ASSUME NEW S, NEW r, NEW n \in Nat, r[0] \in S, \A k \in 1 .. n : r[k - 1] \in S => r[k] \in S
  PROVE  \A k \in 0 .. n : r[k] \in S
<1> DEFINE T == {k \in 0 .. n : r[k] \in S}
<1>1. 0 \in T  OBVIOUS
<1>2. ASSUME NEW k \in 1 .. n, k - 1 \in T PROVE k \in T  BY <1>2
<1>3. \A k \in 0 .. n : k \in T
  <2> HIDE DEF T
  <2> QED  BY <1>1, <1>2, Carried
<1> QED  BY <1>3

-----------------------------------------------------------------------------
(* The readers of the hex file.                                            *)

RecordType == {"data", "ext", "start", "eof", "bad", "invalid"}
Reader ==
  [pos : Nat \ {0}, type : RecordType, high : Nat, address : Nat, words : Seq(Nat), index : Nat]

(* A reader that has not got past the words of its record.                 *)
Placed(h) == h \in Reader /\ h.index <= Len(h.words)

LEMMA RewindPlaced == Placed(Rewind)
BY DEF Placed, Rewind, Reader, RecordType

LEMMA NextRecordType ==
  ASSUME NEW f \in Seq(Record), NEW h \in Reader
  PROVE  NextRecord(f, h) \in Reader
<1> DEFINE r == f[h.pos]
<1>1. CASE h.pos > Len(f) \/ r.type = "bad"
  <2>1. NextRecord(f, h) = [h EXCEPT !.type = "invalid"]  BY <1>1 DEF NextRecord
  <2> QED  BY <2>1 DEF Reader, RecordType
<1>2. CASE ~(h.pos > Len(f) \/ r.type = "bad")
  <2>1. h.pos \in 1 .. Len(f)  BY <1>2 DEF Reader
  <2>2. r \in Record  BY <2>1
  <2>3. /\ r.type \in RecordType
        /\ r.type = "data" => r.address \in Nat /\ r.words \in Seq(Nat)
        /\ r.type = "ext" => r.high \in Nat
    <3>1. CASE r \in [type : {"data"}, address : 0 .. SegmentWords - 1, words : Seq(Nat) \ {<<>>}]
      <4> HIDE DEF r
      <4>1. r.type = "data" /\ r.address \in 0 .. SegmentWords - 1 /\ r.words \in Seq(Nat)  BY <3>1
      <4>2. r.address \in Nat  BY <4>1
      <4> QED  BY <4>1, <4>2 DEF RecordType
    <3>2. CASE r \in [type : {"ext"}, high : 0 .. 15]
      <4> HIDE DEF r
      <4>1. r.type = "ext" /\ r.high \in 0 .. 15  BY <3>2
      <4>2. r.high \in Nat  BY <4>1
      <4> QED  BY <4>1, <4>2 DEF RecordType
    <3>3. CASE r \in {StartRecord, EofRecord, BadRecord}
      <4> HIDE DEF r
      <4>1. r.type \in {"start", "eof", "bad"}  BY <3>3 DEF StartRecord, EofRecord, BadRecord
      <4> QED  BY <4>1 DEF RecordType
    <3> HIDE DEF r
    <3> QED  BY <2>2, <3>1, <3>2, <3>3 DEF Record
  <2> DEFINE hi == IF r.type = "ext" THEN r.high ELSE h.high
             ad == IF r.type = "data" THEN r.address ELSE 0
             ws == IF r.type = "data" THEN r.words ELSE <<>>
  <2>4. hi \in Nat /\ ad \in Nat /\ ws \in Seq(Nat)  BY <2>3 DEF Reader
  <2>5. NextRecord(f, h) = [h EXCEPT !.pos = @ + 1, !.type = r.type, !.high = hi, !.address = ad, !.words = ws]
    BY <1>2 DEF NextRecord
  <2>6. h.pos + 1 \in Nat \ {0} /\ h.index \in Nat
        /\ h = [pos |-> h.pos, type |-> h.type, high |-> h.high, address |-> h.address,
                words |-> h.words, index |-> h.index]
    BY DEF Reader
  <2> HIDE DEF hi, ad, ws, r
  <2>7. NextRecord(f, h) = [pos |-> h.pos + 1, type |-> r.type, high |-> hi, address |-> ad,
                            words |-> ws, index |-> h.index]
    BY <2>5, <2>6
  <2> QED  BY <2>3, <2>4, <2>6, <2>7 DEF Reader
<1> QED  BY <1>1, <1>2

LEMMA SkippedType ==
  ASSUME NEW f \in Seq(Record), NEW h \in Reader
  PROVE  Skipped(f, h) \in Reader
BY NextRecordType DEF Skipped

(* LoadNextDataRecord() without its helper With.                           *)
LEMMA Reading ==
  ASSUME NEW f \in Seq(Record), NEW h \in Reader
  PROVE  \E r \in [0 .. Len(f) -> Reader] :
           /\ r[0] = NextRecord(f, h) /\ \A k \in 1 .. Len(f) : r[k] = Skipped(f, r[k - 1])
           /\ LoadNextDataRecord(f, h) = [r[Len(f)] EXCEPT !.index = 0]
<1> DEFINE R(r) == r = [k \in 0 .. Len(f) |->
                          IF k = 0 THEN NextRecord(f, h) ELSE With(r[k - 1], LAMBDA p : Skipped(f, p))]
           g == [p \in Reader |-> Skipped(f, p)]
           read == CHOOSE r : R(r)
<1>1. \A v : With(v, LAMBDA p : Skipped(f, p)) = Skipped(f, v)  BY Zenon DEF With
<1>2. \E r : R(r)
  <2>1. NextRecord(f, h) \in Reader /\ g \in [Reader -> Reader] /\ Len(f) \in Nat
    BY NextRecordType, SkippedType
  <2>2. PICK r \in [0 .. Len(f) -> Reader] : Steps(r, NextRecord(f, h), g, Len(f))
    <3> HIDE DEF g
    <3> QED  BY <2>1, Iterates
  <2>3. ASSUME NEW k \in 0 .. Len(f), k # 0 PROVE g[r[k - 1]] = Skipped(f, r[k - 1])
    <3>1. k - 1 \in 0 .. Len(f)  BY <2>1, <2>3
    <3> QED  BY <2>2, <3>1
  <2>4. R(r)
    <3> HIDE DEF g
    <3>1. \A k \in 0 .. Len(f) : r[k] =
             IF k = 0 THEN NextRecord(f, h) ELSE With(r[k - 1], LAMBDA p : Skipped(f, p))
      BY <1>1, <2>2, <2>3, Zenon DEF Steps
    <3>2. r = [k \in 0 .. Len(f) |-> r[k]]  BY <2>2
    <3> QED  BY <3>1, <3>2, Zenon
  <2> QED  BY <2>4
<1>3. R(read)
  <2> HIDE DEF R
  <2> QED  BY <1>2, Zenon
<1>4. Len(f) \in Nat  OBVIOUS
<1>5. read[0] = NextRecord(f, h) /\ \A k \in 1 .. Len(f) : read[k] = Skipped(f, read[k - 1])
  <2> HIDE DEF read
  <2>1. \A k \in 0 .. Len(f) : read[k] =
           IF k = 0 THEN NextRecord(f, h) ELSE With(read[k - 1], LAMBDA p : Skipped(f, p))
    BY <1>3, Zenon
  <2>2. 0 \in 0 .. Len(f) /\ \A k \in 1 .. Len(f) : k \in 0 .. Len(f) /\ k # 0  BY <1>4
  <2> QED  BY <1>1, <2>1, <2>2, Zenon
<1>6. \A k \in 0 .. Len(f) : read[k] \in Reader
  <2> HIDE DEF read
  <2> QED  BY <1>4, <1>5, NextRecordType, SkippedType, Stays
<1>7. read = [k \in 0 .. Len(f) |-> read[k]]
  <2> HIDE DEF read
  <2> QED  BY <1>3
<1>8. LoadNextDataRecord(f, h) = [read[Len(f)] EXCEPT !.index = 0]  BY DEF LoadNextDataRecord
<1>9. read \in [0 .. Len(f) -> Reader]
  <2> HIDE DEF read
  <2> QED  BY <1>6, <1>7
<1> QED
  <2> HIDE DEF read
  <2> QED  BY <1>5, <1>8, <1>9

LEMMA NextDataType ==
  ASSUME NEW f \in Seq(Record), NEW h \in Reader
  PROVE  Placed(LoadNextDataRecord(f, h))
<1>1. PICK r \in [0 .. Len(f) -> Reader] : LoadNextDataRecord(f, h) = [r[Len(f)] EXCEPT !.index = 0]
  BY Reading
<1>2. r[Len(f)] \in Reader  OBVIOUS
<1> DEFINE q == r[Len(f)]
<1> HIDE DEF q
<1>3. [q EXCEPT !.index = 0] \in Reader /\ [q EXCEPT !.index = 0].index = 0
      /\ [q EXCEPT !.index = 0].words \in Seq(Nat)
  BY <1>2 DEF Reader, q
<1> QED  BY <1>1, <1>3 DEF Placed, q

LEMMA WordAddressType ==
  ASSUME NEW h \in Reader
  PROVE  WordAddress(h) \in Nat
<1>1. h.high \in Nat /\ h.address \in Nat /\ h.index \in Nat /\ SegmentWords \in Nat
  BY SegmentAssumption DEF Reader
<1>2. h.high * SegmentWords \in Nat  BY <1>1
<1>3. \A a, b, c \in Nat : a + b + c \in Nat  OBVIOUS
<1> QED  BY <1>1, <1>2, <1>3 DEF WordAddress

LEMMA PaddingType ==
  ASSUME NEW n \in Nat
  PROVE  Padding(n) \in Seq(Nat) /\ Len(Padding(n)) = n
BY SegmentAssumption DEF Padding

(* A page on its way: LoadPageFromSD() has put together no more than n     *)
(* words.                                                                  *)
Page(n) ==
  {s \in [hex : Reader, data : Seq(Nat), ok : BOOLEAN] : Placed(s.hex) /\ Len(s.data) <= n}

LEMMA TakeType ==
  ASSUME NEW n \in Nat, NEW s \in Page(n)
  PROVE  Take(s, n) \in Page(n)
<1> DEFINE h == s.hex
           left == Len(h.words) - h.index
           room == n - Len(s.data)
           m == IF left < room THEN left ELSE room
           more == SubSeq(h.words, h.index + 1, h.index + m)
           g == [h EXCEPT !.index = @ + m]
<1>1. /\ h \in Reader /\ h.words \in Seq(Nat) /\ h.index \in Nat /\ h.index <= Len(h.words)
      /\ s.data \in Seq(Nat) /\ Len(s.data) <= n /\ s.ok \in BOOLEAN
  BY DEF Page, Placed, Reader
<1>2. /\ m \in Nat /\ m <= left /\ m <= room /\ Len(h.words) \in Nat /\ Len(s.data) \in Nat
      /\ h.index + m \in Nat /\ h.index + m <= Len(h.words)
      /\ Len(s.data) + m <= n
  <2>1. Len(h.words) \in Nat /\ Len(s.data) \in Nat  BY <1>1
  <2>2. ASSUME NEW a \in Nat, NEW e \in Nat, NEW x \in Nat, x <= a, e <= n,
               NEW k, k = IF a - x < n - e THEN a - x ELSE n - e
        PROVE  k \in Nat /\ k <= a - x /\ k <= n - e /\ x + k \in Nat /\ x + k <= a /\ e + k <= n
    BY <2>2
  <2> HIDE DEF h
  <2> QED  BY <1>1, <2>1, <2>2
<1> HIDE DEF left, room
<1>3. more \in Seq(Nat) /\ Len(more) = m
  <2> HIDE DEF h, m
  <2> DEFINE p == h.index + 1
             q == h.index + m
             ws == h.words
  <2>1. p \in Int /\ q \in Int /\ q - p + 1 = m /\ (p <= q <=> m # 0)
    <3>1. \A i, j \in Nat : i + j - (i + 1) + 1 = j /\ (i + 1 <= i + j <=> j # 0)
                             /\ i + 1 \in Int /\ i + j \in Int
      OBVIOUS
    <3>2. h.index \in Nat /\ m \in Nat  BY <1>1, <1>2
    <3> QED  BY ONLY <3>1, <3>2 DEF p, q
  <2>2. \A i \in p .. q : ws[i] \in Nat
    <3>1. \A i \in p .. q : i \in 1 .. Len(h.words)  BY <1>1, <1>2
    <3> QED  BY <1>1, <3>1
  <2>3. more = SubSeq(ws, p, q)  OBVIOUS
  <2> HIDE DEF p, q, ws, more
  <2>4. SubSeq(ws, p, q) \in Seq(Nat) /\ Len(SubSeq(ws, p, q)) = IF p <= q THEN q - p + 1 ELSE 0
    BY <2>1, <2>2, SubSeqProperties
  <2> QED  BY <2>1, <2>3, <2>4
<1>4. s.data \o more \in Seq(Nat) /\ Len(s.data \o more) = Len(s.data) + m
  BY <1>1, <1>3
<1>5. g \in Reader /\ g.words = h.words /\ g.index = h.index + m
  <2> HIDE DEF m, h
  <2> QED  BY <1>1, <1>2 DEF Reader
<1>6. Take(s, n) = [s EXCEPT !.data = @ \o more, !.hex.index = @ + m]
  BY DEF Take, left, room
<1>7. s = [hex |-> h, data |-> s.data, ok |-> s.ok]  BY DEF Page
<1>8. Take(s, n) = [hex |-> g, data |-> s.data \o more, ok |-> s.ok]
  <2> HIDE DEF more, m
  <2> QED  BY <1>6, <1>7
<1> HIDE DEF g, more, m, h
<1> QED  BY <1>1, <1>2, <1>4, <1>5, <1>8 DEF Page, Placed

LEMMA PageExcept ==
  ASSUME NEW n \in Nat, NEW s \in Page(n), NEW h, Placed(h), NEW d \in Seq(Nat), Len(d) <= n,
         NEW o \in BOOLEAN
  PROVE  /\ [s EXCEPT !.hex = h] \in Page(n)
         /\ [s EXCEPT !.hex = h, !.ok = o] \in Page(n)
         /\ [s EXCEPT !.hex = h, !.data = d] \in Page(n)
<1>1. s \in [hex : Reader, data : Seq(Nat), ok : BOOLEAN] /\ Len(s.data) <= n  BY DEF Page
<1>2. h \in Reader  BY DEF Placed
<1>3. [s EXCEPT !.hex = h] \in Page(n)  BY <1>1, <1>2 DEF Page
<1>4. [s EXCEPT !.hex = h, !.ok = o] \in Page(n)  BY <1>1, <1>2 DEF Page
<1>5. [s EXCEPT !.hex = h, !.data = d] \in Page(n)  BY <1>1, <1>2 DEF Page
<1> QED  BY <1>3, <1>4, <1>5

LEMMA ContinuedType ==
  ASSUME NEW n \in Nat \ {0}, NEW s \in Page(n), NEW next, Placed(next), NEW h \in Reader
  PROVE  Continued(s, next, h, n) \in Page(n)
<1>1. /\ next \in Reader /\ s.data \in Seq(Nat) /\ Len(s.data) \in Nat /\ Len(s.data) <= n
      /\ s.ok \in BOOLEAN
  BY DEF Page, Placed
<1>2. [s EXCEPT !.hex = next, !.ok = FALSE] \in Page(n)  BY <1>1, PageExcept
<1>3. [s EXCEPT !.hex = next, !.data = @ \o Padding(n - Len(@))] \in Page(n)
  <2> DEFINE rest == Padding(n - Len(s.data))
             all == s.data \o rest
  <2>1. n - Len(s.data) \in Nat  BY <1>1
  <2>2. rest \in Seq(Nat) /\ Len(rest) = n - Len(s.data)  BY <2>1, PaddingType
  <2>3. all \in Seq(Nat) /\ Len(all) <= n
    <3> HIDE DEF rest
    <3> QED  BY <1>1, <2>1, <2>2
  <2>4. [s EXCEPT !.hex = next, !.data = all] \in Page(n)
    <3> HIDE DEF all
    <3> QED  BY <2>3, PageExcept
  <2> QED  BY <2>4
<1>4. Take([s EXCEPT !.hex = next], n) \in Page(n)
  <2>1. [s EXCEPT !.hex = next] \in Page(n)  BY <1>1, PageExcept
  <2> QED  BY <2>1, TakeType
<1> QED  BY <1>2, <1>3, <1>4 DEF Continued

LEMMA FilledType ==
  ASSUME NEW f \in Seq(Record), NEW n \in Nat \ {0}, NEW s \in Page(n), NEW h \in Reader
  PROVE  Filled(f, s, h, n) \in Page(n)
<1>1. With(LoadNextDataRecord(f, s.hex), LAMBDA next : Continued(s, next, h, n))
        = Continued(s, LoadNextDataRecord(f, s.hex), h, n)
  BY Zenon DEF With
<1>2. Placed(LoadNextDataRecord(f, s.hex))  BY NextDataType DEF Page
<1>3. Continued(s, LoadNextDataRecord(f, s.hex), h, n) \in Page(n)  BY <1>2, ContinuedType
<1>4. Filled(f, s, h, n) = IF ~s.ok \/ Len(s.data) = n THEN s
                           ELSE Continued(s, LoadNextDataRecord(f, s.hex), h, n)
  BY <1>1, Zenon DEF Filled
<1> QED  BY <1>3, <1>4

(* LoadPageFromSD() without its helper With.                               *)
Paged(f, h, n, r) ==
  /\ r \in [0 .. Len(f) + 1 -> Page(n)]
  /\ LET begun == [hex |-> h, data |-> Padding(WordAddress(h) % n), ok |-> TRUE]
     IN begun \in Page(n) /\ r[0] = Take(begun, n)
  /\ \A k \in 1 .. Len(f) + 1 : r[k] = Filled(f, r[k - 1], h, n)
  /\ LoadPageFromSD(f, h, n) = r[Len(f) + 1]

LEMMA PageSteps ==
  ASSUME NEW f \in Seq(Record), NEW h, Placed(h), NEW n \in Nat \ {0}
  PROVE  \E r : Paged(f, h, n, r)
<1> DEFINE begun == [hex |-> h, data |-> Padding(WordAddress(h) % n), ok |-> TRUE]
           a == Take(begun, n)
           N == Len(f) + 1
           R(r) == r = [k \in 0 .. N |->
                          IF k = 0 THEN a ELSE With(r[k - 1], LAMBDA s : Filled(f, s, h, n))]
           g == [s \in Page(n) |-> Filled(f, s, h, n)]
           fill == CHOOSE r : R(r)
<1>1. \A v : With(v, LAMBDA s : Filled(f, s, h, n)) = Filled(f, v, h, n)  BY Zenon DEF With
<1>2. h \in Reader  BY DEF Placed
<1>3. begun \in Page(n)
  <2>1. WordAddress(h) % n \in Nat /\ WordAddress(h) % n <= n  BY <1>2, WordAddressType
  <2>2. Padding(WordAddress(h) % n) \in Seq(Nat) /\ Len(Padding(WordAddress(h) % n)) <= n
    BY <2>1, PaddingType
  <2> QED  BY <1>2, <2>2 DEF Page
<1>4. a \in Page(n)
  <2> HIDE DEF begun
  <2> QED  BY <1>3, TakeType
<1>5. N \in Nat  OBVIOUS
<1>6. g \in [Page(n) -> Page(n)]  BY <1>2, FilledType
<1>7. LoadPageFromSD(f, h, n) = fill[N]  BY DEF LoadPageFromSD
<1> HIDE DEF begun, a, N, g
<1>8. \E r : R(r)
  <2>1. PICK r \in [0 .. N -> Page(n)] : Steps(r, a, g, N)  BY <1>4, <1>5, <1>6, Iterates
  <2>2. ASSUME NEW k \in 0 .. N, k # 0 PROVE g[r[k - 1]] = Filled(f, r[k - 1], h, n)
    <3>1. k - 1 \in 0 .. N  BY <1>5, <2>2
    <3> QED  BY <2>1, <3>1 DEF g
  <2>3. \A k \in 0 .. N : r[k] = IF k = 0 THEN a ELSE With(r[k - 1], LAMBDA s : Filled(f, s, h, n))
    BY <1>1, <2>1, <2>2, Zenon DEF Steps
  <2>4. r = [k \in 0 .. N |-> r[k]]  BY <2>1
  <2> QED  BY <2>3, <2>4, Zenon
<1>9. R(fill)
  <2> HIDE DEF R
  <2> QED  BY <1>8, Zenon
<1> HIDE DEF fill
<1>10. fill[0] = a /\ \A k \in 1 .. N : fill[k] = Filled(f, fill[k - 1], h, n)
  <2>1. \A k \in 0 .. N : fill[k] = IF k = 0 THEN a ELSE With(fill[k - 1], LAMBDA s : Filled(f, s, h, n))
    BY <1>9, Zenon
  <2>2. 0 \in 0 .. N /\ \A k \in 1 .. N : k \in 0 .. N /\ k # 0  BY <1>5
  <2> QED  BY <1>1, <2>1, <2>2, Zenon
<1>11. \A k \in 0 .. N : fill[k] \in Page(n)
  <2>1. fill[0] \in Page(n) /\ \A k \in 1 .. N : fill[k - 1] \in Page(n) => fill[k] \in Page(n)
    BY <1>2, <1>4, <1>10, FilledType
  <2> QED  BY <1>5, <2>1, Stays
<1>12. fill = [k \in 0 .. N |-> fill[k]]  BY <1>9
<1>13. fill \in [0 .. N -> Page(n)]  BY <1>11, <1>12
<1>14. Paged(f, h, n, fill)  BY <1>3, <1>7, <1>10, <1>13 DEF N, a, begun, Paged
<1> QED  BY <1>14, Zenon

LEMMA LoadPageType ==
  ASSUME NEW f \in Seq(Record), NEW h, Placed(h), NEW n \in Nat \ {0}
  PROVE  LoadPageFromSD(f, h, n) \in Page(n)
<1>1. PICK r : Paged(f, h, n, r)  BY PageSteps
<1>2. r \in [0 .. Len(f) + 1 -> Page(n)] /\ LoadPageFromSD(f, h, n) = r[Len(f) + 1]  BY <1>1 DEF Paged
<1>3. Len(f) + 1 \in 0 .. Len(f) + 1  OBVIOUS
<1> QED  BY <1>2, <1>3

-----------------------------------------------------------------------------
(* Arithmetic of pages and banks, and what the readers find in the file.   *)

LEMMA DivMod ==
  ASSUME NEW a \in Nat, NEW n \in Nat \ {0}
  PROVE  a \div n \in Nat /\ a % n \in 0 .. n - 1 /\ a = n * (a \div n) + (a % n)
OBVIOUS

LEMMA Unique ==
  ASSUME NEW n \in Nat \ {0}, NEW q \in Nat, NEW r \in 0 .. n - 1
  PROVE  (n * q + r) % n = r
<1> DEFINE a == n * q + r
           k == a \div n
           m == a % n
<1>1. a \in Nat  OBVIOUS
<1>2. k \in Nat /\ m \in 0 .. n - 1 /\ a = n * k + m  BY <1>1, DivMod
<1> HIDE DEF a, k, m
<1>3. a = n * q + r  BY DEF a
<1>4. n * (q - k) = m - r  BY <1>2, <1>3
<1>5. ASSUME q - k >= 1 PROVE FALSE
  <2>1. n * (q - k) >= n  BY <1>5, <1>2
  <2> QED  BY <2>1, <1>4, <1>2
<1>6. ASSUME k - q >= 1 PROVE FALSE
  <2>1. n * (k - q) >= n  BY <1>6, <1>2
  <2>2. n * (k - q) = r - m  BY <1>4, <1>2
  <2>3. r - m < n  BY <1>2
  <2> QED  BY <2>1, <2>2, <2>3, <1>2
<1>7. q = k  BY <1>5, <1>6, <1>2
<1> QED  BY <1>2, <1>3, <1>7 DEF a, m

LEMMA PageBounds ==
  ASSUME NEW x \in Nat, NEW n \in Nat \ {0}
  PROVE  /\ PageOf(x, n) \in Nat /\ PageOf(x, n) <= x /\ x < PageOf(x, n) + n
         /\ PageOf(x, n) + (x % n) = x /\ x % n \in 0 .. n - 1
<1> DEFINE r == x % n
           k == x \div n
           z == n * k
<1>1. r \in 0 .. n - 1 /\ k \in Nat /\ x = n * k + r  BY DivMod
<1>2. z \in Nat
  <2> HIDE DEF k
  <2> QED  BY <1>1
<1>3. x = z + r  BY <1>1
<1> HIDE DEF r, z
<1>4. PageOf(x, n) = x - r  BY DEF PageOf, r
<1> QED  BY <1>1, <1>2, <1>3, <1>4 DEF r

LEMMA SamePage ==
  ASSUME NEW x \in Nat, NEW n \in Nat \ {0}, NEW y \in PageOf(x, n) .. PageOf(x, n) + n - 1
  PROVE  PageOf(y, n) = PageOf(x, n)
<1> DEFINE q == x \div n
           r == y - PageOf(x, n)
<1>0. q \in Nat /\ x = n * q + (x % n) /\ x % n \in 0 .. n - 1  BY DivMod
<1>1. PageOf(x, n) = n * q /\ q \in Nat
  <2> HIDE DEF q
  <2> QED  BY <1>0 DEF PageOf
<1>2. r \in 0 .. n - 1 /\ y = n * q + r  BY <1>1
<1>3. y % n = r  BY <1>1, <1>2, Unique
<1> QED  BY <1>1, <1>2, <1>3 DEF PageOf

(* A bank of whole pages holds the pages of its words.                     *)
LEMMA PageInBank ==
  ASSUME NEW n \in Nat \ {0}, NEW w \in Nat, w % n = 0, NEW b \in Nat, NEW x \in Nat, b * w <= x
  PROVE  b * w <= PageOf(x, n)
<1> DEFINE m == w \div n
           q == x \div n
<1>1. w = n * m /\ m \in Nat /\ q \in Nat /\ x = n * q + (x % n) /\ x % n \in 0 .. n - 1
  BY DivMod
<1> HIDE DEF m, q
<1>2. b * m \in Nat /\ b * w = n * (b * m)  BY <1>1
<1>3. b * m <= q
  <2> SUFFICES ASSUME b * m - q >= 1 PROVE FALSE  BY <1>1, <1>2
  <2>1. n * (b * m - q) >= n  BY <1>1, <1>2
  <2>2. n * (b * m - q) = n * (b * m) - n * q  BY <1>1, <1>2
  <2>3. n * (b * m) <= x  BY <1>2
  <2> QED  BY <1>1, <2>1, <2>2, <2>3, <1>2
<1>4. n * (b * m) <= n * q  BY <1>1, <1>2, <1>3
<1>5. PageOf(x, n) = n * q  BY <1>1 DEF PageOf
<1> QED  BY <1>2, <1>4, <1>5

LEMMA Divides ==
  ASSUME NEW n \in Nat \ {0}, NEW m \in Nat \ {0}, NEW k \in Nat, m % n = 0, k % m = 0
  PROVE  k % n = 0 /\ (2 * k) % n = 0
<1> DEFINE a == m \div n
           b == k \div m
<1>1. m = n * a /\ k = m * b /\ a \in Nat /\ b \in Nat  BY DivMod
<1> HIDE DEF a, b
<1> DEFINE c == a * b
<1>2. c \in Nat /\ k = n * c  BY <1>1
<1> HIDE DEF c
<1>3. 2 * c \in Nat /\ 0 \in 0 .. n - 1  BY <1>2
<1>4. (n * c + 0) % n = 0 /\ (n * (2 * c) + 0) % n = 0  BY <1>2, <1>3, Unique
<1>5. k = n * c + 0 /\ 2 * k = n * (2 * c) + 0  BY <1>2
<1> QED  BY <1>4, <1>5

LEMMA BankAddress ==
  ASSUME NEW w \in Nat \ {0}, NEW b \in Nat, NEW p \in Nat, b * w <= p, p < b * w + w
  PROVE  b * w + (p % w) = p
<1> DEFINE r == p - b * w
<1>1. r \in 0 .. w - 1  OBVIOUS
<1> HIDE DEF r
<1>2. (w * b + r) % w = r  BY <1>1, Unique
<1>3. w * b + r = p  BY DEF r
<1>4. p % w = r  BY <1>2, <1>3
<1> QED  BY <1>3, <1>4, <1>1
-----------------------------------------------------------------------------
(* Where a reader stands: behind a record of the file.                     *)
Standing(f, h) ==
  \/ h = Rewind
  \/ /\ h.pos \in 2 .. Len(f) + 1 /\ h.type \in {"data", "eof"} /\ f[h.pos - 1].type = h.type
     /\ h.high = HighAt(f, h.pos)
     /\ h.type = "data" => h.words = f[h.pos - 1].words /\ h.address = f[h.pos - 1].address
     /\ h.type = "eof" => h.words = <<>>

LEMMA HighFirst == ASSUME NEW f PROVE HighAt(f, 1) = 0
<1>1. {j \in 1 .. 1 - 1 : f[j].type = "ext"} = {}  OBVIOUS
<1> QED  BY <1>1 DEF HighAt

LEMMA Greatest ==
  ASSUME NEW b, b \subseteq Int, NEW i \in b, \A k \in b : k <= i
  PROVE  (CHOOSE j \in b : \A k \in b : k <= j) = i
<1> DEFINE m == CHOOSE j \in b : \A k \in b : k <= j
<1>1. m \in b /\ \A k \in b : k <= m  OBVIOUS
<1> HIDE DEF m
<1>2. m <= i /\ i <= m /\ m \in Int /\ i \in Int  BY <1>1
<1>3. m = i  BY <1>2
<1> QED  BY <1>3 DEF m

LEMMA HighNext ==
  ASSUME NEW f \in Seq(Record), NEW i \in 1 .. Len(f)
  PROVE  HighAt(f, i + 1) = IF f[i].type = "ext" THEN f[i].high ELSE HighAt(f, i)
<1> DEFINE B(k) == {j \in 1 .. k - 1 : f[j].type = "ext"}
           top == CHOOSE j \in B(i + 1) : \A k \in B(i + 1) : k <= j
<1>1. CASE f[i].type = "ext"
  <2>1. i \in B(i + 1) /\ B(i + 1) \subseteq Int /\ \A k \in B(i + 1) : k <= i  BY <1>1
  <2>2. top = i
    <3> HIDE DEF B
    <3> QED  BY <2>1, Greatest
  <2>3. HighAt(f, i + 1) = IF B(i + 1) = {} THEN 0 ELSE f[top].high  BY Zenon DEF HighAt
  <2> HIDE DEF top, B
  <2> QED  BY <1>1, <2>1, <2>2, <2>3
<1>2. CASE f[i].type # "ext"
  <2>1. B(i + 1) = B(i)  BY <1>2
  <2> DEFINE v(b) == IF b = {} THEN 0 ELSE f[CHOOSE j \in b : \A k \in b : k <= j].high
  <2>2. v(B(i + 1)) = v(B(i))
    <3> HIDE DEF v, B
    <3> QED  BY <2>1
  <2>3. HighAt(f, i + 1) = v(B(i + 1)) /\ HighAt(f, i) = v(B(i))  BY DEF HighAt
  <2> HIDE DEF v, B
  <2> QED  BY <1>2, <2>2, <2>3
<1> QED  BY <1>1, <1>2

(* The reader p has come here from h without passing data.                 *)
Reached(f, h, p) ==
  p.type # "invalid" =>
    /\ p.pos \in h.pos + 1 .. Len(f) + 1 /\ p.type = f[p.pos - 1].type
    /\ p.type \in {"data", "ext", "start", "eof"}
    /\ p.high = HighAt(f, p.pos)
    /\ p.type = "data" => p.words = f[p.pos - 1].words /\ p.address = f[p.pos - 1].address
    /\ p.type = "eof" => p.words = <<>>
    /\ \A i \in DataRecords(f) : i < p.pos - 1 => i < h.pos

LEMMA NextRecordFields ==
  ASSUME NEW f \in Seq(Record), NEW h \in Reader, NEW g, g = NextRecord(f, h), g.type # "invalid"
  PROVE  /\ h.pos \in 1 .. Len(f) /\ g.pos = h.pos + 1 /\ g.type = f[h.pos].type
         /\ g.type \in {"data", "ext", "start", "eof"}
         /\ g.high = IF g.type = "ext" THEN f[h.pos].high ELSE h.high
         /\ g.type = "data" => g.words = f[h.pos].words /\ g.address = f[h.pos].address
         /\ g.type = "eof" => g.words = <<>>
<1> DEFINE r == f[h.pos]
<1>1. h.pos \in Nat \ {0} /\ DOMAIN h = {"pos", "type", "high", "address", "words", "index"}  BY DEF Reader
<1>2. ~(h.pos > Len(f) \/ r.type = "bad")
  <2> SUFFICES ASSUME h.pos > Len(f) \/ r.type = "bad" PROVE FALSE  OBVIOUS
  <2>1. g = [h EXCEPT !.type = "invalid"]  BY DEF NextRecord
  <2> QED  BY <1>1, <2>1
<1>3. h.pos \in 1 .. Len(f)  BY <1>1, <1>2
<1>4. r \in Record  BY <1>3
<1>5. r.type \in {"data", "ext", "start", "eof"}
  BY <1>2, <1>4 DEF Record, StartRecord, EofRecord, BadRecord
<1> DEFINE hi == IF r.type = "ext" THEN r.high ELSE h.high
           ad == IF r.type = "data" THEN r.address ELSE 0
           ws == IF r.type = "data" THEN r.words ELSE <<>>
<1>6. g = [h EXCEPT !.pos = @ + 1, !.type = r.type, !.high = hi, !.address = ad, !.words = ws]
  BY <1>2 DEF NextRecord
<1>7. g.pos = h.pos + 1 /\ g.type = r.type /\ g.high = hi /\ g.address = ad /\ g.words = ws
  <2> HIDE DEF hi, ad, ws, r
  <2> QED  BY <1>1, <1>6
<1> QED  BY <1>3, <1>5, <1>7

LEMMA NextReached ==
  ASSUME NEW f \in Seq(Record), NEW h \in Reader, NEW p \in Reader, p.high = HighAt(f, p.pos),
         h.pos <= p.pos, \A i \in DataRecords(f) : i < p.pos => i < h.pos
  PROVE  Reached(f, h, NextRecord(f, p))
<1> DEFINE g == NextRecord(f, p)
<1> SUFFICES ASSUME g.type # "invalid" PROVE Reached(f, h, g)  BY DEF Reached
<1>1. /\ p.pos \in 1 .. Len(f) /\ g.pos = p.pos + 1 /\ g.type = f[p.pos].type
      /\ g.type \in {"data", "ext", "start", "eof"}
      /\ g.high = IF g.type = "ext" THEN f[p.pos].high ELSE p.high
      /\ g.type = "data" => g.words = f[p.pos].words /\ g.address = f[p.pos].address
      /\ g.type = "eof" => g.words = <<>>
  BY NextRecordFields
<1> HIDE DEF g
<1>2. h.pos \in Nat /\ p.pos \in Nat /\ Len(f) \in Nat  BY DEF Reader
<1>3. HighAt(f, p.pos + 1) = IF f[p.pos].type = "ext" THEN f[p.pos].high ELSE HighAt(f, p.pos)
  BY <1>1, HighNext
<1>4. g.high = HighAt(f, g.pos)  BY <1>1, <1>3
<1>5. g.pos - 1 = p.pos /\ g.pos \in h.pos + 1 .. Len(f) + 1  BY <1>1, <1>2
<1> QED  BY <1>1, <1>4, <1>5 DEF Reached

LEMMA SkippedReached ==
  ASSUME NEW f \in Seq(Record), NEW h \in Reader, NEW p \in Reader, Reached(f, h, p)
  PROVE  Reached(f, h, Skipped(f, p))
<1>1. CASE p.type \in {"ext", "start"}
  <2>1. /\ p.pos \in h.pos + 1 .. Len(f) + 1 /\ p.type = f[p.pos - 1].type /\ p.high = HighAt(f, p.pos)
        /\ \A i \in DataRecords(f) : i < p.pos - 1 => i < h.pos
    BY <1>1 DEF Reached
  <2>2. h.pos \in Nat /\ p.pos \in Nat  BY DEF Reader
  <2>3. \A i \in DataRecords(f) : i # p.pos - 1 /\ i \in Int  BY <1>1, <2>1 DEF DataRecords
  <2>4. \A i \in DataRecords(f) : i < p.pos => i < h.pos  BY <2>1, <2>2, <2>3
  <2>5. h.pos <= p.pos  BY <2>1, <2>2
  <2>6. Reached(f, h, NextRecord(f, p))  BY <2>1, <2>4, <2>5, NextReached
  <2> QED  BY <1>1, <2>6 DEF Skipped
<1>2. CASE p.type \notin {"ext", "start"}  BY <1>2 DEF Skipped
<1> QED  BY <1>1, <1>2

(* What LoadNextDataRecord() finds, the reader having passed no data.      *)
Onward(f, h, g) ==
  /\ g.pos \in h.pos + 1 .. Len(f) + 1 /\ g.type \in {"data", "eof"} /\ g.index = 0
  /\ Standing(f, g)
  /\ \A i \in DataRecords(f) : i < g.pos - 1 => i < h.pos

LEMMA NextDataStands ==
  ASSUME NEW f \in Seq(Record), NEW h \in Reader, h.high = HighAt(f, h.pos),
         NEW g, g = LoadNextDataRecord(f, h), g.type # "invalid"
  PROVE  Onward(f, h, g)
<1> DEFINE n == Len(f)
<1>1. PICK r \in [0 .. n -> Reader] :
        /\ r[0] = NextRecord(f, h) /\ \A k \in 1 .. n : r[k] = Skipped(f, r[k - 1])
        /\ g = [r[n] EXCEPT !.index = 0]
  BY Reading
<1> DEFINE Far(k) == r[k].type \in {"ext", "start"} => r[k].pos >= h.pos + 1 + k
           T == {k \in 0 .. n : Reached(f, h, r[k]) /\ Far(k)}
<1>2. n \in Nat /\ h.pos \in Nat /\ h.pos >= 1  BY DEF Reader
<1>3. 0 \in T
  <2>1. Reached(f, h, r[0])  BY <1>1, <1>2, NextReached
  <2>2. Far(0)  BY <1>2, <2>1 DEF Reached
  <2> QED  BY <1>2, <2>1, <2>2
<1>4. ASSUME NEW k \in 1 .. n, k - 1 \in T PROVE k \in T
  <2> DEFINE p == r[k - 1]
  <2>1. k - 1 \in 0 .. n /\ p \in Reader /\ r[k] = Skipped(f, p)  BY <1>1, <1>2
  <2>2. Reached(f, h, p) /\ Far(k - 1)  BY <1>4
  <2>3. Reached(f, h, r[k])  BY <2>1, <2>2, SkippedReached
  <2>4. ASSUME r[k].type \in {"ext", "start"} PROVE r[k].pos >= h.pos + 1 + k
    <3>1. p.type \in {"ext", "start"}  BY <2>1, <2>4 DEF Skipped
    <3>2. r[k] = NextRecord(f, p)  BY <2>1, <3>1 DEF Skipped
    <3>3. r[k].pos = p.pos + 1  BY <2>1, <2>4, <3>2, NextRecordFields
    <3>4. p.pos >= h.pos + 1 + (k - 1) /\ p.pos \in Nat  BY <2>1, <2>2, <3>1 DEF Reader
    <3> HIDE DEF p
    <3> QED  BY <1>2, <3>3, <3>4
  <2> QED  BY <1>2, <2>3, <2>4
<1>5. n \in T
  <2>1. \A k \in 0 .. n : k \in T
    <3> HIDE DEF T
    <3> QED  BY <1>2, <1>3, <1>4, Carried
  <2> QED  BY <1>2, <2>1
<1> DEFINE q == r[n]
<1>6. q \in Reader /\ Reached(f, h, q) /\ (q.type \in {"ext", "start"} => q.pos >= h.pos + 1 + n)
  BY <1>2, <1>5
<1> HIDE DEF q, T, Far
<1>7. /\ g.pos = q.pos /\ g.type = q.type /\ g.high = q.high /\ g.address = q.address
      /\ g.words = q.words /\ g.index = 0
  BY <1>1, <1>6 DEF Reader, q
<1>8. /\ q.pos \in h.pos + 1 .. n + 1 /\ q.type = f[q.pos - 1].type
      /\ q.type \in {"data", "ext", "start", "eof"}
      /\ q.high = HighAt(f, q.pos)
      /\ q.type = "data" => q.words = f[q.pos - 1].words /\ q.address = f[q.pos - 1].address
      /\ q.type = "eof" => q.words = <<>>
      /\ \A i \in DataRecords(f) : i < q.pos - 1 => i < h.pos
  BY <1>6, <1>7 DEF Reached
<1>9. q.type \in {"data", "eof"}
  <2> SUFFICES ASSUME q.type \in {"ext", "start"} PROVE FALSE  BY <1>8
  <2>1. q.pos >= h.pos + 1 + n /\ q.pos <= n + 1 /\ q.pos \in Int  BY <1>2, <1>6, <1>8
  <2> QED  BY <1>2, <2>1
<1>10. q.pos \in 2 .. n + 1  BY <1>2, <1>8
<1>11. Standing(f, g)  BY <1>7, <1>8, <1>9, <1>10 DEF Standing
<1> QED  BY <1>7, <1>8, <1>9, <1>11 DEF Onward

(* The word k of record i is behind the reader h.                          *)
Passed(h, i, k) == i < h.pos - 1 \/ (i = h.pos - 1 /\ k <= h.index)
InHand(h) == h.type = "data" /\ h.index < Len(h.words)
WordOf(f, i) == 1 .. Len(f[i].words)

LEMMA RecordWords ==
  ASSUME NEW f \in Seq(Record), NEW i \in DataRecords(f)
  PROVE  /\ i \in 1 .. Len(f) /\ f[i].words \in Seq(Nat) /\ Len(f[i].words) \in Nat \ {0}
         /\ f[i].address \in Nat /\ HighAt(f, i) \in 0 .. 15 /\ HighAt(f, i + 1) = HighAt(f, i)
         /\ FirstWord(f, i) \in Nat /\ PastWord(f, i) = FirstWord(f, i) + Len(f[i].words)
<1>1. i \in 1 .. Len(f) /\ f[i].type = "data" /\ f[i] \in Record  BY DEF DataRecords
<1>2. f[i].words \in Seq(Nat) /\ Len(f[i].words) \in Nat \ {0} /\ f[i].address \in Nat
  <2>1. f[i] \in [type : {"data"}, address : 0 .. SegmentWords - 1, words : Seq(Nat) \ {<<>>}]
    BY <1>1 DEF Record, StartRecord, EofRecord, BadRecord
  <2>2. f[i].words \in Seq(Nat) /\ f[i].words # <<>> /\ f[i].address \in Nat
    BY <2>1, SegmentAssumption
  <2> QED  BY <2>2
<1>3. HighAt(f, i + 1) = HighAt(f, i)  BY <1>1, HighNext
<1>4. \A j \in 1 .. Len(f) : f[j].type = "ext" => f[j].high \in 0 .. 15
  <2> SUFFICES ASSUME NEW j \in 1 .. Len(f), f[j].type = "ext" PROVE f[j].high \in 0 .. 15  OBVIOUS
  <2>1. f[j] \in Record  OBVIOUS
  <2> QED  BY <2>1 DEF Record, StartRecord, EofRecord, BadRecord
<1>5. \A j \in 1 .. Len(f) + 1 : HighAt(f, j) \in 0 .. 15
  <2> DEFINE T == {k \in 0 .. Len(f) : HighAt(f, k + 1) \in 0 .. 15}
  <2>1. 0 \in T /\ Len(f) \in Nat  BY HighFirst
  <2>2. ASSUME NEW k \in 1 .. Len(f), k - 1 \in T PROVE k \in T
    <3>1. HighAt(f, k) \in 0 .. 15
      <4>1. (k - 1) + 1 = k  OBVIOUS
      <4> QED  BY <2>2, <4>1
    <3>2. HighAt(f, k + 1) \in 0 .. 15  BY <3>1, <1>4, HighNext
    <3> QED  BY <3>2
  <2>3. \A k \in 0 .. Len(f) : k \in T
    <3> HIDE DEF T
    <3> QED  BY <2>1, <2>2, Carried
  <2>4. ASSUME NEW j \in 1 .. Len(f) + 1 PROVE HighAt(f, j) \in 0 .. 15
    <3>1. j - 1 \in 0 .. Len(f) /\ (j - 1) + 1 = j  BY <2>1
    <3> QED  BY <2>3, <3>1
  <2> QED  BY <2>4
<1>6. HighAt(f, i) \in 0 .. 15  BY <1>1, <1>5
<1>7. HighAt(f, i) * SegmentWords \in Nat
  <2>1. ASSUME NEW a \in Nat, NEW b \in Nat PROVE a * b \in Nat  OBVIOUS
  <2>2. HighAt(f, i) \in Nat /\ SegmentWords \in Nat  BY <1>6, SegmentAssumption
  <2> QED  BY <2>1, <2>2
<1> QED  BY <1>1, <1>2, <1>3, <1>6, <1>7 DEF FirstWord, PastWord

LEMMA StandingData ==
  ASSUME NEW f \in Seq(Record), NEW h \in Reader, Standing(f, h), h.type = "data"
  PROVE  /\ h.pos - 1 \in DataRecords(f) /\ h.words = f[h.pos - 1].words
         /\ h.high = HighAt(f, h.pos - 1) /\ h.high = HighAt(f, h.pos)
         /\ WordAddress(h) = FirstWord(f, h.pos - 1) + h.index
<1>1. h # Rewind  BY DEF Rewind
<1>2. /\ h.pos \in 2 .. Len(f) + 1 /\ f[h.pos - 1].type = "data" /\ h.high = HighAt(f, h.pos)
      /\ h.words = f[h.pos - 1].words /\ h.address = f[h.pos - 1].address
  BY <1>1 DEF Standing
<1> DEFINE i == h.pos - 1
<1>3. i \in DataRecords(f) /\ i + 1 = h.pos
  <2>1. Len(f) \in Nat /\ h.pos \in Nat  BY DEF Reader
  <2>2. i \in 1 .. Len(f) /\ i + 1 = h.pos  BY <1>2, <2>1
  <2> QED  BY <1>2, <2>2 DEF DataRecords
<1>4. h.high = HighAt(f, i)  BY <1>2, <1>3, RecordWords
<1> QED  BY <1>2, <1>3, <1>4 DEF WordAddress, FirstWord

(* From the end of a record to the beginning of the next.                  *)
LEMMA Neighbour ==
  ASSUME NEW f \in Seq(Record), NEW h \in Reader, Standing(f, h),
         h.type = "data" => h.index = Len(h.words),
         NEW g, g = LoadNextDataRecord(f, h), g.type # "invalid"
  PROVE  /\ Placed(g) /\ Onward(f, h, g)
         /\ g.type = "data" => InHand(g)
         /\ \A i \in DataRecords(f) : \A k \in WordOf(f, i) : Passed(g, i, k) => Passed(h, i, k)
         /\ h.type = "data" /\ g.type = "data" => Follows(f, h.pos - 1, g.pos - 1)
<1>1. h.high = HighAt(f, h.pos)  BY HighFirst DEF Standing, Rewind
<1>2. Placed(g) /\ Onward(f, h, g)  BY <1>1, NextDataType, NextDataStands
<1>3. /\ g.pos \in h.pos + 1 .. Len(f) + 1 /\ g.type \in {"data", "eof"} /\ g.index = 0
      /\ Standing(f, g) /\ \A i \in DataRecords(f) : i < g.pos - 1 => i < h.pos
      /\ h.pos \in Nat \ {0} /\ g \in Reader
  BY <1>2 DEF Onward, Placed, Reader
<1>4. g.type = "data" => InHand(g)
  <2> SUFFICES ASSUME g.type = "data" PROVE InHand(g)  OBVIOUS
  <2>1. g.pos - 1 \in DataRecords(f) /\ g.words = f[g.pos - 1].words  BY <1>3, StandingData
  <2>2. Len(g.words) \in Nat \ {0}  BY <2>1, RecordWords
  <2> QED  BY <1>3, <2>2 DEF InHand
<1>5. ASSUME NEW i \in DataRecords(f), NEW k \in WordOf(f, i), Passed(g, i, k) PROVE Passed(h, i, k)
  <2>1. i \in 1 .. Len(f) /\ k \in 1 .. Len(f[i].words)  BY DEF DataRecords, WordOf
  <2>2. i < g.pos - 1  BY <1>3, <1>5, <2>1 DEF Passed
  <2>3. i < h.pos  BY <1>3, <2>2
  <2>4. ASSUME i = h.pos - 1 PROVE k <= h.index
    <3>1. h.type = "data"
      <4>1. h # Rewind  BY <2>1, <2>4 DEF Rewind
      <4> QED  BY <2>4, <4>1 DEF Standing, DataRecords
    <3>2. h.words = f[i].words  BY <3>1, <2>4, StandingData
    <3> QED  BY <2>1, <3>1, <3>2
  <2> QED  BY <1>3, <2>1, <2>3, <2>4 DEF Passed
<1>6. ASSUME h.type = "data", g.type = "data" PROVE Follows(f, h.pos - 1, g.pos - 1)
  <2>1. \A k \in DataRecords(f) : k \in Int  BY DEF DataRecords
  <2>2. \A k \in DataRecords(f) : k <= h.pos - 1 \/ k >= g.pos - 1  BY <1>3, <2>1
  <2> QED  BY <1>3, <2>2 DEF Follows
<1> QED  BY <1>2, <1>4, <1>5, <1>6

(* Take() has turned s into t and taken m words.                           *)
Took(s, t, n, m) ==
  LET h == s.hex  more == SubSeq(h.words, h.index + 1, h.index + m) IN
  /\ m = Len(h.words) - h.index \/ m = n - Len(s.data)
  /\ m <= Len(h.words) - h.index /\ m <= n - Len(s.data)
  /\ t.ok = s.ok /\ t.data = s.data \o more
  /\ Len(more) = m /\ \A j \in 1 .. m : more[j] = h.words[h.index + j]
  /\ t.hex.pos = h.pos /\ t.hex.type = h.type /\ t.hex.high = h.high /\ t.hex.address = h.address
  /\ t.hex.words = h.words /\ t.hex.index = h.index + m

LEMMA TakeParts ==
  ASSUME NEW n \in Nat, NEW s \in Page(n)
  PROVE  \E m \in Nat : Took(s, Take(s, n), n, m)
<1> DEFINE h == s.hex
           ws == h.words
           left == Len(h.words) - h.index
           room == n - Len(s.data)
           m == IF left < room THEN left ELSE room
           more == SubSeq(h.words, h.index + 1, h.index + m)
           g == [h EXCEPT !.index = @ + m]
<1>1. /\ h \in Reader /\ ws \in Seq(Nat) /\ h.index \in Nat /\ h.index <= Len(ws)
      /\ s.data \in Seq(Nat) /\ Len(s.data) <= n /\ s.ok \in BOOLEAN
      /\ Len(ws) \in Nat /\ Len(s.data) \in Nat
  BY DEF Page, Placed, Reader
<1>2. m \in Nat /\ m <= left /\ m <= room /\ (m = left \/ m = room)
  <2> HIDE DEF h, ws
  <2> QED  BY <1>1 DEF ws
<1>3. Take(s, n) = [s EXCEPT !.data = @ \o more, !.hex.index = @ + m]  BY DEF Take
<1>4. s = [hex |-> h, data |-> s.data, ok |-> s.ok]  BY DEF Page
<1>5. Take(s, n) = [hex |-> g, data |-> s.data \o more, ok |-> s.ok]
  <2> HIDE DEF more, m
  <2> QED  BY <1>3, <1>4
<1>6. /\ g.pos = h.pos /\ g.type = h.type /\ g.high = h.high /\ g.address = h.address
      /\ g.words = h.words /\ g.index = h.index + m
  <2> HIDE DEF m, h
  <2> QED  BY <1>1 DEF Reader
<1>7. Len(more) = m /\ \A j \in 1 .. m : more[j] = ws[h.index + j]
  <2> DEFINE x == h.index
             y == h.words
  <2>1. x \in Nat /\ m \in Nat /\ x + m <= Len(y) /\ y \in Seq(Nat)
    <3> HIDE DEF h, m
    <3> QED  BY <1>1, <1>2 DEF ws
  <2>2. \A z \in Nat : x + z <= Len(y) =>
          /\ Len(SubSeq(y, x + 1, x + z)) = z
          /\ \A j \in 1 .. z : SubSeq(y, x + 1, x + z)[j] = y[x + j]
    <3> HIDE DEF x, y
    <3> QED  BY <2>1
  <2> HIDE DEF m
  <2> QED  BY <2>1, <2>2
<1>8. /\ Take(s, n).ok = s.ok /\ Take(s, n).data = s.data \o more /\ Take(s, n).hex = g
  <2> HIDE DEF g, more
  <2> QED  BY <1>5
<1> HIDE DEF m
<1>9. Took(s, Take(s, n), n, m)  BY <1>2, <1>6, <1>7, <1>8 DEF Took
<1> QED  BY <1>2, <1>9

-----------------------------------------------------------------------------
(* What a page that was loaded holds of the file.                          *)

(* d is u with m words of v, behind the first x, at its end.              *)
Lengthened(d, u, v, x, m) ==
  /\ d \in Seq(Nat) /\ Len(d) = Len(u) + m /\ \A a \in 1 .. Len(u) : d[a] = u[a]
  /\ \A j \in 1 .. m : d[Len(u) + j] = v[x + j]

LEMMA Appended ==
  ASSUME NEW u \in Seq(Nat), NEW v \in Seq(Nat), NEW x \in Nat, NEW m \in Nat, x + m <= Len(v)
  PROVE  Lengthened(u \o SubSeq(v, x + 1, x + m), u, v, x, m)
<1> DEFINE w == SubSeq(v, x + 1, x + m)
           d == u \o w
           n == Len(u)
<1>1. w \in Seq(Nat) /\ Len(w) = m /\ \A j \in 1 .. m : w[j] = v[x + j]
  <2> DEFINE a == x + 1
             b == x + m
  <2>1. a \in 1 .. Len(v) + 1 /\ b \in a - 1 .. Len(v) /\ b - a + 1 = m  OBVIOUS
  <2>2. a \in Nat /\ \A j \in 1 .. m : a + j - 1 = x + j  OBVIOUS
  <2> HIDE DEF a, b
  <2>3. SubSeq(v, a, b) \in Seq(Nat)  BY <2>1, SubSeqProperties
  <2>4. Len(SubSeq(v, a, b)) = IF a <= b THEN b - a + 1 ELSE 0  BY <2>1, SubSeqProperties
  <2>5. \A i \in 1 .. b - a + 1 : SubSeq(v, a, b)[i] = v[a + i - 1]  BY <2>1, SubSeqProperties
  <2>6. Len(SubSeq(v, a, b)) = m  BY <2>1, <2>2, <2>4
  <2> QED  BY <2>1, <2>2, <2>3, <2>5, <2>6 DEF a, b
<1>2. n \in Nat  OBVIOUS
<1> HIDE DEF w
<1>3. /\ d \in Seq(Nat) /\ Len(d) = n + Len(w)
      /\ \A i \in 1 .. n + Len(w) : d[i] = IF i <= n THEN u[i] ELSE w[i - n]
  <2>1. w \in Seq(Nat)  BY <1>1
  <2> QED  BY <2>1, ConcatProperties, Zenon
<1> HIDE DEF d, n
<1>4. ASSUME NEW a \in 1 .. n PROVE d[a] = u[a]
  <2>1. a \in 1 .. n + Len(w) /\ a <= n  BY <1>1, <1>2
  <2> QED  BY <1>3, <2>1
<1>5. ASSUME NEW j \in 1 .. m PROVE d[n + j] = v[x + j]
  <2>1. n + j \in 1 .. n + Len(w) /\ ~(n + j <= n) /\ (n + j) - n = j  BY <1>1, <1>2
  <2> QED  BY <1>1, <1>3, <2>1
<1> QED  BY <1>1, <1>3, <1>4, <1>5 DEF Lengthened, n, d, w

(* Between addresses p and p + Len(d) the data d hold word k of record i.  *)
Holds(f, p, d, i, k) ==
  LET a == FirstWord(f, i) + k - p IN a \in 1 .. Len(d) /\ d[a] = f[i].words[k]

(* Take() turns s into t; the data begin at address p.                     *)
TakenOn(f, p, n, s, t) ==
  /\ t.ok = s.ok /\ Standing(f, t.hex) /\ t.hex.type = "data"
  /\ t.data \in Seq(Nat) /\ Len(t.data) \in 1 .. n /\ Len(s.data) <= Len(t.data)
  /\ \A a \in 1 .. Len(s.data) : t.data[a] = s.data[a]
  /\ WordAddress(t.hex) = p + Len(t.data)
  /\ Len(t.data) = n \/ t.hex.index = Len(t.hex.words)
  /\ \A i \in DataRecords(f) : \A k \in WordOf(f, i) :
       Passed(t.hex, i, k) => Passed(s.hex, i, k) \/ Holds(f, p, t.data, i, k)

LEMMA TakeOn ==
  ASSUME NEW f \in Seq(Record), NEW n \in Nat \ {0}, NEW s \in Page(n), NEW p \in Nat,
         Standing(f, s.hex), InHand(s.hex), WordAddress(s.hex) = p + Len(s.data), Len(s.data) < n
  PROVE  TakenOn(f, p, n, s, Take(s, n))
<1> DEFINE t == Take(s, n)
           d == t.data
           h == s.hex
           g == t.hex
           old == s.data
<1>1. t \in Page(n)  BY TakeType
<1>2. PICK m \in Nat : Took(s, t, n, m)  BY TakeParts
<1> DEFINE v == h.words
           x == h.index
           e == Len(old)
<1>3. /\ h \in Reader /\ x \in Nat /\ v \in Seq(Nat) /\ Len(v) \in Nat
      /\ old \in Seq(Nat) /\ e \in Nat /\ g \in Reader /\ e < n /\ x < Len(v)
  <2>1. h \in Reader /\ old \in Seq(Nat)  BY DEF Page
  <2>2. g \in Reader  BY <1>1 DEF Page
  <2>3. x \in Nat /\ v \in Seq(Nat)  BY <2>1 DEF Reader
  <2>4. x < Len(v)  BY DEF InHand
  <2> QED  BY <2>1, <2>2, <2>3, <2>4
<1>4. h.type = "data"  BY DEF InHand
<1>5. /\ m \in Nat /\ (m = Len(v) - x \/ m = n - e)
      /\ m <= Len(v) - x /\ m <= n - e
      /\ t.ok = s.ok /\ d = old \o SubSeq(v, x + 1, x + m)
      /\ g.pos = h.pos /\ g.type = h.type /\ g.high = h.high /\ g.address = h.address
      /\ g.words = v /\ g.index = x + m
  BY <1>2 DEF Took
<1>a. WordAddress(h) = p + e  OBVIOUS
<1> HIDE DEF t, d, h, g, old, v, x, e
<1>6. /\ d \in Seq(Nat) /\ Len(d) = e + m /\ \A a \in 1 .. e : d[a] = old[a]
      /\ \A j \in 1 .. m : d[e + j] = v[x + j]
  <2>1. x + m <= Len(v)  BY <1>3, <1>5
  <2>2. d = old \o SubSeq(v, x + 1, x + m)  BY <1>5
  <2>3. old \in Seq(Nat) /\ v \in Seq(Nat) /\ x \in Nat  BY <1>3
  <2>4. Lengthened(old \o SubSeq(v, x + 1, x + m), old, v, x, m)
    BY <2>1, <2>3, Appended
  <2>5. Lengthened(d, old, v, x, m)  BY <2>2, <2>4
  <2> QED  BY <2>5 DEF Lengthened, e
<1>b. m \in Nat /\ x \in Nat /\ e \in Nat /\ Len(d) = e + m  BY <1>3, <1>5, <1>6
<1>7. Standing(f, g)
  <2>1. h # Rewind  BY <1>4 DEF Rewind
  <2> QED  BY <1>5, <2>1 DEF Standing, h, v
<1>8. WordAddress(g) = p + Len(d)
  <2> DEFINE z == h.high * SegmentWords
             y == h.address
  <2>1. z \in Nat /\ h.address \in Nat
    <3>1. h.high \in Nat /\ h.address \in Nat  BY <1>3 DEF Reader
    <3>2. SegmentWords \in Nat  BY SegmentAssumption
    <3>3. \A a, b \in Nat : a * b \in Nat  OBVIOUS
    <3> QED  BY <3>1, <3>2, <3>3
  <2>2. WordAddress(g) = z + h.address + (x + m) /\ WordAddress(h) = z + h.address + x
    BY <1>5 DEF WordAddress, x
  <2>3. z \in Nat /\ y \in Nat /\ WordAddress(g) = z + y + (x + m) /\ p + e = z + y + x
    BY <1>a, <2>1, <2>2
  <2> HIDE DEF z, y
  <2> QED  BY <1>b, <2>3
<1>9. ASSUME NEW i \in DataRecords(f), NEW k \in WordOf(f, i), Passed(g, i, k), ~Passed(h, i, k)
      PROVE  Holds(f, p, d, i, k)
  <2>1. k \in 1 .. Len(f[i].words) /\ i \in Int /\ Len(f[i].words) \in Nat /\ FirstWord(f, i) \in Nat
    BY RecordWords DEF WordOf
  <2>2. i = h.pos - 1 /\ k <= x + m /\ ~(k <= x)
    <3>1. i < g.pos - 1 \/ (i = g.pos - 1 /\ k <= x + m)  BY <1>5, <1>9 DEF Passed
    <3>2. ~(i < h.pos - 1) /\ ~(i = h.pos - 1 /\ k <= x)  BY <1>9 DEF Passed, x
    <3> QED  BY <1>5, <3>1, <3>2
  <2>3. v = f[i].words /\ WordAddress(h) = FirstWord(f, i) + x
    BY <1>3, <1>4, <2>2, StandingData DEF h, v, x
  <2> DEFINE j == k - x
  <2>4. j \in 1 .. m /\ x + j = k  BY <1>3, <2>1, <2>2
  <2> HIDE DEF j
  <2>5. FirstWord(f, i) + k - p = e + j
    <3> DEFINE y == FirstWord(f, i)
    <3>1. y + x = p + e /\ y \in Nat /\ x \in Nat /\ e \in Nat  BY <1>a, <1>b, <2>1, <2>3
    <3>2. j \in Int /\ k \in Int /\ x + j = k  BY <2>4, <2>1
    <3> HIDE DEF y
    <3>3. y + k - p = e + j  BY <3>1, <3>2
    <3> QED  BY <3>3 DEF y
  <2>6. e + j \in 1 .. Len(d) /\ d[e + j] = f[i].words[k]
    <3>1. e + j \in 1 .. Len(d)  BY <1>b, <2>4
    <3>2. d[e + j] = v[x + j]  BY <1>6, <2>4
    <3> QED  BY <3>1, <3>2, <2>3, <2>4
  <2> QED  BY <2>5, <2>6 DEF Holds
<1>10. Len(d) \in 1 .. n /\ (Len(d) = n \/ g.index = Len(g.words))
  <2> DEFINE z == Len(v)
  <2>1. /\ z \in Nat /\ x \in Nat /\ e \in Nat /\ e < n /\ x < z /\ m \in Nat
        /\ (m = z - x \/ m = n - e) /\ m <= n - e
    BY <1>3, <1>5
  <2> HIDE DEF z
  <2>2. e + m \in 1 .. n /\ (e + m = n \/ x + m = z)  BY <2>1
  <2>3. Len(d) = e + m /\ g.index = x + m /\ Len(g.words) = z  BY <1>5, <1>6 DEF z
  <2> QED  BY <2>2, <2>3
<1>11. e <= Len(d)  BY <1>3, <1>6
<1> QED  BY <1>4, <1>5, <1>6, <1>7, <1>8, <1>9, <1>10, <1>11 DEF TakenOn, t, d, h, g, old, e

(* LoadPageFromSD() on its way, s, through the page in which h stands.     *)
Filling(f, h, n, s) ==
  LET p == PageOf(WordAddress(h), n) IN
  /\ Standing(f, s.hex) /\ s.hex.type \in {"data", "eof"}
  /\ \A i \in DataRecords(f) : \A k \in WordOf(f, i) :
       Passed(s.hex, i, k) => Passed(h, i, k) \/ Holds(f, p, s.data, i, k)
  /\ \/ s.hex.type = "eof"
     \/ /\ s.hex.type = "data" /\ Len(s.data) >= 1 /\ WordAddress(s.hex) = p + Len(s.data)
        /\ Len(s.data) = n \/ s.hex.index = Len(s.hex.words)
     \/ /\ Len(s.data) = n /\ InHand(s.hex)
        /\ PageOf(WordAddress(s.hex), n) # p \/ Bank(s.hex) # Bank(h)

LEMMA FillFirst ==
  ASSUME NEW f \in Seq(Record), NEW h, Placed(h), Standing(f, h), InHand(h), NEW n \in Nat \ {0},
         NEW s \in Page(n), s = [hex |-> h, data |-> Padding(WordAddress(h) % n), ok |-> TRUE]
  PROVE  Filling(f, h, n, Take(s, n))
<1> DEFINE p == PageOf(WordAddress(h), n)
<1>1. WordAddress(h) \in Nat  BY WordAddressType DEF Placed
<1>2. p \in Nat /\ p + (WordAddress(h) % n) = WordAddress(h) /\ WordAddress(h) % n \in 0 .. n - 1
  BY <1>1, PageBounds
<1>3. Len(s.data) = WordAddress(h) % n /\ s.hex = h  BY <1>2, PaddingType
<1>4. WordAddress(s.hex) = p + Len(s.data) /\ Len(s.data) < n  BY <1>2, <1>3
<1>5. Standing(f, s.hex) /\ InHand(s.hex)  BY <1>3
<1> HIDE DEF p
<1> DEFINE t == Take(s, n)
<1>6. TakenOn(f, p, n, s, t)  BY <1>2, <1>4, <1>5, TakeOn
<1> HIDE DEF t
<1>7. Len(t.data) >= 1  BY <1>6 DEF TakenOn
<1> QED  BY <1>3, <1>6, <1>7 DEF TakenOn, Filling, p, t

LEMMA HoldsMore ==
  ASSUME NEW f, NEW p, NEW i, NEW k, NEW d, NEW e, Holds(f, p, d, i, k), Len(d) \in Nat, Len(e) \in Nat,
         Len(d) <= Len(e), \A a \in 1 .. Len(d) : e[a] = d[a]
  PROVE  Holds(f, p, e, i, k)
BY DEF Holds

LEMMA Joined ==
  ASSUME NEW u \in Seq(Nat), NEW v \in Seq(Nat), NEW z, z = u \o v
  PROVE  z \in Seq(Nat) /\ Len(z) = Len(u) + Len(v) /\ \A a \in 1 .. Len(u) : z[a] = u[a]
<1>1. z \in Seq(Nat)  OBVIOUS
<1>2. Len(z) = Len(u) + Len(v)  OBVIOUS
<1>3. \A a \in 1 .. Len(u) : z[a] = u[a]  OBVIOUS
<1> QED  BY <1>1, <1>2, <1>3

PaddedTo(u, n) == u \o Padding(n - Len(u))

LEMMA Padded ==
  ASSUME NEW u \in Seq(Nat), NEW n \in Nat, Len(u) <= n
  PROVE  /\ PaddedTo(u, n) \in Seq(Nat) /\ Len(PaddedTo(u, n)) = n
         /\ \A a \in 1 .. Len(u) : PaddedTo(u, n)[a] = u[a]
<1> DEFINE m == n - Len(u)
           z == Padding(m)
           y == PaddedTo(u, n)
<1>1. m \in Nat /\ Len(u) \in Nat /\ Len(u) + m = n  OBVIOUS
<1>2. y = u \o z  BY DEF PaddedTo
<1> HIDE DEF m, y
<1>3. z \in Seq(Nat) /\ Len(z) = m  BY <1>1, PaddingType
<1> HIDE DEF z
<1>4. y \in Seq(Nat) /\ Len(y) = Len(u) + Len(z) /\ \A a \in 1 .. Len(u) : y[a] = u[a]
  BY <1>2, <1>3, Joined
<1> QED  BY <1>1, <1>3, <1>4 DEF y

LEMMA PageFields ==
  ASSUME NEW n \in Nat, NEW s \in Page(n), NEW x, NEW y
  PROVE  /\ [s EXCEPT !.hex = x] = [hex |-> x, data |-> s.data, ok |-> s.ok]
         /\ [s EXCEPT !.hex = x, !.data = y] = [hex |-> x, data |-> y, ok |-> s.ok]
<1>1. DOMAIN s = {"hex", "data", "ok"}  BY DEF Page
<1>2. /\ [s EXCEPT !.hex = x] = [k \in {"hex", "data", "ok"} |-> IF k = "hex" THEN x ELSE s[k]]
      /\ [s EXCEPT !.hex = x, !.data = y]
           = [k \in {"hex", "data", "ok"} |-> IF k = "data" THEN y ELSE IF k = "hex" THEN x ELSE s[k]]
  BY <1>1
<1> QED  BY <1>2

LEMMA FillNext ==
  ASSUME NEW f \in Seq(Record), NEW h, Placed(h), NEW n \in Nat \ {0},
         GapFree(f, n), Orderly(f), NEW s \in Page(n), s.ok => Filling(f, h, n, s), NEW t, t = Filled(f, s, h, n), t.ok
  PROVE  Filling(f, h, n, t)
<1> DEFINE g == s.hex
           x == LoadNextDataRecord(f, g)
           p == PageOf(WordAddress(h), n)
           e == Len(s.data)
           u == [s EXCEPT !.hex = x]
           Beyond == PageOf(WordAddress(x), n) # p \/ Bank(x) # Bank(h)
<1>1. With(x, LAMBDA next : Continued(s, next, h, n)) = Continued(s, x, h, n)
  BY Zenon DEF With
<1>2. t = IF ~s.ok \/ e = n THEN s ELSE Continued(s, x, h, n)
  BY <1>1, Zenon DEF Filled
<1>3. CASE ~s.ok \/ e = n
  BY <1>2, <1>3
<1>4. CASE s.ok /\ e # n
  <2>1. t = Continued(s, x, h, n) /\ Filling(f, h, n, s)  BY <1>2, <1>4
  <2>2. /\ s = [hex |-> g, data |-> s.data, ok |-> s.ok] /\ g \in Reader /\ Placed(g)
        /\ s.data \in Seq(Nat) /\ e \in Nat /\ e < n /\ h \in Reader
    BY <1>4 DEF Page, Placed
  <2>3. p \in Nat  BY <2>2, WordAddressType, PageBounds
  <2>4. /\ Standing(f, g) /\ g.type \in {"data", "eof"}
        /\ \A i \in DataRecords(f) : \A k \in WordOf(f, i) :
             Passed(g, i, k) => Passed(h, i, k) \/ Holds(f, p, s.data, i, k)
        /\ g.type = "eof" \/ (g.type = "data" /\ e >= 1 /\ WordAddress(g) = p + e
                              /\ g.index = Len(g.words))
    BY <1>4, <2>1, <2>2 DEF Filling
  <2> DEFINE y == s.data \o Padding(n - e)
             w == [hex |-> x, data |-> y, ok |-> s.ok]
             v == [hex |-> x, data |-> s.data, ok |-> s.ok]
  <2>5. x.type # "invalid"
    <3> SUFFICES ASSUME x.type = "invalid" PROVE FALSE  OBVIOUS
    <3>1. t = [s EXCEPT !.hex = x, !.ok = FALSE]  BY <2>1 DEF Continued
    <3> HIDE DEF x, g
    <3> QED  BY <2>2, <3>1
  <2>6. t = IF Beyond THEN w ELSE Take(v, n)
    <3>1. t = IF Beyond THEN [s EXCEPT !.hex = x, !.data = @ \o Padding(n - Len(@))] ELSE Take(u, n)
      BY <2>1, <2>5, Zenon DEF Continued
    <3>2. [s EXCEPT !.hex = x, !.data = @ \o Padding(n - Len(@))] = [s EXCEPT !.hex = x, !.data = y]
      OBVIOUS
    <3> HIDE DEF x, g, y
    <3>3. u = v /\ [s EXCEPT !.hex = x, !.data = y] = w  BY PageFields
    <3> HIDE DEF u, v, w
    <3> QED  BY <3>1, <3>2, <3>3
  <2> HIDE DEF x, u
  <2>7. g.type = "data"
    <3> SUFFICES ASSUME g.type = "eof" PROVE FALSE  BY <2>4
    <3>1. Onward(f, g, x)
      <4>1. g.high = HighAt(f, g.pos)  BY <2>4 DEF Standing, Rewind
      <4> QED  BY <2>2, <2>5, <4>1, NextDataStands DEF x
    <3>2. g.pos \in 2 .. Len(f) + 1 /\ f[g.pos - 1].type = "eof"
      BY <2>4 DEF Standing, Rewind
    <3>3. Len(f) \in Nat  OBVIOUS
    <3>4. g.pos - 1 \in 1 .. Len(f)  BY <3>2, <3>3
    <3>5. g.pos - 1 = Len(f)  BY <3>2, <3>4 DEF Orderly
    <3> QED  BY <3>1, <3>2, <3>3, <3>5 DEF Onward
  <2>8. /\ Placed(x) /\ Onward(f, g, x) /\ (x.type = "data" => InHand(x))
        /\ \A i \in DataRecords(f) : \A k \in WordOf(f, i) : Passed(x, i, k) => Passed(g, i, k)
        /\ x.type = "data" => Follows(f, g.pos - 1, x.pos - 1)
    BY <2>2, <2>4, <2>5, <2>7, Neighbour DEF x
  <2>9. x \in Reader /\ Standing(f, x) /\ x.type \in {"data", "eof"} /\ x.index = 0
    BY <2>8 DEF Placed, Onward
  <2>10. \A i \in DataRecords(f) : \A k \in WordOf(f, i) :
           Passed(x, i, k) => Passed(h, i, k) \/ Holds(f, p, s.data, i, k)
    BY <2>4, <2>8
  <2> HIDE DEF g, p, e
  <2>11. CASE Beyond
    <3>1. y \in Seq(Nat) /\ Len(y) = n /\ \A a \in 1 .. e : y[a] = s.data[a]
      <4>1. s.data \in Seq(Nat) /\ e = Len(s.data) /\ e <= n /\ n \in Nat
        BY <2>2 DEF e
      <4>2. y = PaddedTo(s.data, n)  BY <4>1 DEF PaddedTo
      <4> HIDE DEF y
      <4> QED  BY <4>1, <4>2, Padded
    <3> HIDE DEF y
    <3>2. t.hex = x /\ t.data = y  BY <2>6, <2>11
    <3>3. e <= Len(y)  BY <2>2, <3>1
    <3>4. \A i \in DataRecords(f) : \A k \in WordOf(f, i) :
            Holds(f, p, s.data, i, k) => Holds(f, p, y, i, k)
      BY <2>2, <3>1, <3>3, HoldsMore DEF e
    <3>5. x.type = "data" => InHand(x)  BY <2>8
    <3> QED  BY <2>9, <2>10, <2>11, <3>1, <3>2, <3>4, <3>5 DEF Filling, p
  <2>12. CASE ~Beyond /\ x.type = "data"
    <3> DEFINE i == g.pos - 1
               j == x.pos - 1
    <3>1. /\ i \in DataRecords(f) /\ g.words = f[i].words /\ WordAddress(g) = FirstWord(f, i) + g.index
          /\ j \in DataRecords(f) /\ WordAddress(x) = FirstWord(f, j) + x.index
      BY <2>2, <2>4, <2>7, <2>9, <2>12, StandingData
    <3>2. Follows(f, i, j)  BY <2>8, <2>12
    <3>3. e >= 1 /\ WordAddress(g) = p + e /\ g.index = Len(g.words)  BY <2>4, <2>7
    <3> HIDE DEF i, j
    <3>4. PastWord(f, i) = p + e /\ FirstWord(f, j) \in Nat /\ WordAddress(x) = FirstWord(f, j)
      BY <2>9, <3>1, <3>3, RecordWords
    <3>5. PageOf(PastWord(f, i) - 1, n) = p
      <4>1. p + e - 1 \in p .. p + n - 1  BY <2>2, <2>3, <3>3
      <4>2. WordAddress(h) \in Nat  BY <2>2, WordAddressType
      <4>3. PageOf(p + e - 1, n) = p  BY <4>1, <4>2, SamePage DEF p
      <4>4. PastWord(f, i) - 1 = p + e - 1  BY <2>2, <2>3, <3>4
      <4> QED  BY <4>3, <4>4
    <3>6. PageOf(FirstWord(f, j), n) = p  BY <2>12, <3>4
    <3>7. FirstWord(f, j) = PastWord(f, i)  BY <3>1, <3>2, <3>5, <3>6 DEF GapFree
    <3>8. v \in Page(n) /\ v.hex = x /\ v.data = s.data  BY <2>2, <2>8, <2>9 DEF Page, e
    <3>9. t = Take(v, n)  BY <2>6, <2>12
    <3> HIDE DEF v
    <3>10. TakenOn(f, p, n, v, t)
      <4>1. WordAddress(v.hex) = p + Len(v.data) /\ Len(v.data) < n
        BY <2>2, <3>4, <3>7, <3>8 DEF e
      <4>2. Standing(f, v.hex) /\ InHand(v.hex)  BY <2>8, <2>9, <2>12, <3>8
      <4> QED  BY <2>3, <3>8, <3>9, <4>1, <4>2, TakeOn
    <3>11. \A b \in DataRecords(f) : \A k \in WordOf(f, b) :
             Holds(f, p, s.data, b, k) => Holds(f, p, t.data, b, k)
      <4>1. Len(s.data) \in Nat /\ Len(t.data) \in Nat /\ Len(s.data) <= Len(t.data)
            /\ \A a \in 1 .. Len(s.data) : t.data[a] = s.data[a]
        BY <2>2, <3>8, <3>10 DEF TakenOn
      <4> QED  BY <4>1, HoldsMore
    <3>12. \A b \in DataRecords(f) : \A k \in WordOf(f, b) :
             Passed(t.hex, b, k) => Passed(h, b, k) \/ Holds(f, p, t.data, b, k)
      BY <2>10, <3>8, <3>10, <3>11 DEF TakenOn
    <3>13. Len(t.data) >= 1  BY <3>10 DEF TakenOn
    <3> QED  BY <3>10, <3>12, <3>13 DEF TakenOn, Filling, p
  <2>13. CASE ~Beyond /\ x.type = "eof"
    <3>1. v \in Page(n) /\ v.hex = x /\ v.data = s.data  BY <2>2, <2>8, <2>9 DEF Page, e
    <3>2. t = Take(v, n)  BY <2>6, <2>13
    <3>3. x.words = <<>>  BY <2>9, <2>13 DEF Standing, Rewind
    <3> HIDE DEF v
    <3>4. PICK m \in Nat : Took(v, t, n, m)  BY <3>1, <3>2, TakeParts
    <3>a. /\ m <= Len(x.words) - x.index
          /\ t.data = s.data \o SubSeq(x.words, x.index + 1, x.index + m)
          /\ t.hex.pos = x.pos /\ t.hex.type = x.type /\ t.hex.high = x.high
          /\ t.hex.words = x.words /\ t.hex.index = x.index + m
      BY <3>1, <3>4 DEF Took
    <3>5. m = 0 /\ t.hex.index = 0  BY <2>9, <3>3, <3>4, <3>a
    <3>6. t.data = s.data
      <4>1. SubSeq(x.words, x.index + 1, x.index + m) = <<>>  BY <2>9, <3>3, <3>5
      <4>2. t.data = s.data \o <<>>  BY <3>a, <4>1
      <4> QED  BY <2>2, <4>2
    <3>7. Standing(f, t.hex)
      <4>1. x # Rewind  BY <2>13 DEF Rewind
      <4> QED  BY <2>9, <2>13, <3>3, <3>a, <4>1 DEF Standing
    <3>8. \A b, k : Passed(t.hex, b, k) <=> Passed(x, b, k)  BY <2>9, <3>a, <3>5 DEF Passed
    <3>9. t.hex.type = "eof"  BY <2>13, <3>a
    <3> QED  BY <2>10, <3>6, <3>7, <3>8, <3>9 DEF Filling, p
  <2> QED  BY <2>9, <2>11, <2>12, <2>13
<1> QED  BY <1>3, <1>4

(* LoadPageFromSD() for any file without gaps in a page: if the page could *)
(* be loaded, each word the reader has passed on the way is in the page,   *)
(* at its offset, and the reader is at the end record, behind the words of *)
(* a page that is filled up, or at the first word of another page.         *)
THEOREM Loaded ==
  ASSUME NEW f \in Seq(Record), NEW h, Placed(h), Standing(f, h), InHand(h), NEW n \in Nat \ {0},
         GapFree(f, n), Orderly(f), NEW l, l = LoadPageFromSD(f, h, n), l.ok
  PROVE  l \in Page(n) /\ Filling(f, h, n, l)
<1> DEFINE begun == [hex |-> h, data |-> Padding(WordAddress(h) % n), ok |-> TRUE]
           m == Len(f) + 1
<1>0. PICK r : Paged(f, h, n, r)  BY PageSteps
<1>1. /\ r \in [0 .. m -> Page(n)]
      /\ begun \in Page(n) /\ r[0] = Take(begun, n)
      /\ \A k \in 1 .. m : r[k] = Filled(f, r[k - 1], h, n)
      /\ l = r[m]
  BY <1>0 DEF Paged
<1>2. m \in Nat /\ r \in [0 .. m -> Page(n)]  BY <1>1
<1> HIDE DEF m
<1> DEFINE T == {k \in 0 .. m : r[k].ok => Filling(f, h, n, r[k])}
<1>3. 0 \in T
  <2>1. Filling(f, h, n, Take(begun, n))  BY <1>1, FillFirst
  <2> QED  BY <1>1, <1>2, <2>1
<1>4. ASSUME NEW k \in 1 .. m, k - 1 \in T PROVE k \in T
  <2> DEFINE s == r[k - 1]
             t == r[k]
  <2>1. s \in Page(n) /\ t = Filled(f, s, h, n) /\ (s.ok => Filling(f, h, n, s))
    BY <1>1, <1>2, <1>4
  <2> HIDE DEF s, t, T
  <2>2. t.ok => Filling(f, h, n, t)  BY <2>1, FillNext
  <2> QED  BY <1>2, <2>2 DEF T, t
<1>5. \A k \in 0 .. m : k \in T
  <2> HIDE DEF T
  <2> QED  BY <1>2, <1>3, <1>4, Carried
<1>6. m \in T  BY <1>2, <1>5
<1> QED  BY <1>1, <1>2, <1>6

LEMMA Product ==
  ASSUME NEW x \in Nat, NEW y \in Nat
  PROVE  x * y \in Nat /\ (x + 1) * y = x * y + y
OBVIOUS

(* Page p lies in bank b.                                                  *)
InBank(p, b) == b \in Nat /\ b * BankWords <= p /\ p < b * BankWords + BankWords

LEMMA OneBank ==
  ASSUME NEW p \in Nat, NEW b, NEW c, InBank(p, b), InBank(p, c)
  PROVE  b = c
<1> DEFINE w == BankWords
           x == b * w
           y == c * w
<1>1. w \in Nat \ {0}  BY SegmentAssumption DEF BankWords
<1>2. b \in Nat /\ c \in Nat /\ x <= p /\ p < x + w /\ y <= p /\ p < y + w  BY DEF InBank
<1> HIDE DEF w
<1>3. x \in Nat /\ y \in Nat  BY <1>1, <1>2
<1>4. ASSUME b < c PROVE FALSE
  <2>1. (b + 1) * w <= c * w
    <3>1. PICK k \in Nat : c = (b + 1) + k  BY <1>2, <1>4
    <3>2. k * w \in Nat /\ c * w = (b + 1) * w + k * w  BY <1>1, <1>2, <3>1
    <3>3. (b + 1) * w \in Nat  BY <1>1, <1>2
    <3> QED  BY <3>2, <3>3
  <2>2. (b + 1) * w = x + w  BY <1>1, <1>2
  <2> QED  BY <1>1, <1>2, <1>3, <2>1, <2>2
<1>5. ASSUME c < b PROVE FALSE
  <2>1. (c + 1) * w <= b * w
    <3>1. PICK k \in Nat : b = (c + 1) + k  BY <1>2, <1>5
    <3>2. k * w \in Nat /\ b * w = (c + 1) * w + k * w  BY <1>1, <1>2, <3>1
    <3>3. (c + 1) * w \in Nat  BY <1>1, <1>2
    <3> QED  BY <3>2, <3>3
  <2>2. (c + 1) * w = y + w  BY <1>1, <1>2
  <2> QED  BY <1>1, <1>2, <1>3, <2>1, <2>2
<1> QED  BY <1>2, <1>4, <1>5

-----------------------------------------------------------------------------
(* In a file that ascends any two data records are in order, not only      *)
(* neighbours.                                                             *)
LEMMA Ascends ==
  ASSUME NEW f \in Seq(Record), Ascending(f), NEW i \in DataRecords(f), NEW j \in DataRecords(f), i < j
  PROVE  PastWord(f, i) <= FirstWord(f, j)
<1> DEFINE Lasts(m, l) ==
             /\ l \in DataRecords(f) /\ i <= l /\ l <= m /\ PastWord(f, i) <= PastWord(f, l)
             /\ \A k \in DataRecords(f) : k <= l \/ k > m
           T == {m \in Nat : m >= i => \E l \in DataRecords(f) : Lasts(m, l)}
<1>1. /\ i \in 1 .. Len(f) /\ j \in 1 .. Len(f) /\ Len(f) \in Nat
      /\ \A k \in DataRecords(f) : k \in 1 .. Len(f) /\ FirstWord(f, k) \in Nat /\ PastWord(f, k) \in Nat
                                    /\ FirstWord(f, k) <= PastWord(f, k)
  <2>1. \A k \in DataRecords(f) : k \in 1 .. Len(f)  BY DEF DataRecords
  <2>2. ASSUME NEW k \in DataRecords(f)
        PROVE FirstWord(f, k) \in Nat /\ PastWord(f, k) \in Nat /\ FirstWord(f, k) <= PastWord(f, k)
    <3>1. /\ Len(f[k].words) \in Nat /\ FirstWord(f, k) \in Nat
          /\ PastWord(f, k) = FirstWord(f, k) + Len(f[k].words)
      BY RecordWords
    <3> QED  BY <3>1
  <2> QED  BY <2>1, <2>2
<1>2. 0 \in T  BY <1>1
<1>3. ASSUME NEW m \in 1 .. Len(f), m - 1 \in T PROVE m \in T
  <2> SUFFICES ASSUME m >= i PROVE \E l \in DataRecords(f) : Lasts(m, l)  OBVIOUS
  <2>1. m \in Nat /\ m - 1 \in Nat  OBVIOUS
  <2>2. CASE m = i
    <3>1. Lasts(m, i)  BY <1>1, <2>2
    <3> QED  BY <3>1
  <2>3. CASE m # i
    <3>1. m - 1 >= i  BY <1>1, <2>3
    <3>2. PICK l \in DataRecords(f) : Lasts(m - 1, l)  BY <1>3, <3>1
    <3>3. CASE m \in DataRecords(f)
      <4>1. \A k \in DataRecords(f) : k <= l \/ k >= m  BY <1>1, <2>1, <3>2
      <4>2. l < m  BY <1>1, <2>1, <3>2
      <4>3. PastWord(f, l) <= FirstWord(f, m)  BY <3>2, <3>3, <4>1, <4>2 DEF Ascending, Follows
      <4>4. PastWord(f, i) <= PastWord(f, m)  BY <1>1, <3>2, <3>3, <4>3
      <4>5. Lasts(m, m)  BY <1>1, <3>3, <4>4
      <4> QED  BY <3>3, <4>5
    <3>4. CASE m \notin DataRecords(f)
      <4>1. Lasts(m, l)  BY <1>1, <2>1, <3>2, <3>4
      <4> QED  BY <4>1
    <3> QED  BY <3>3, <3>4
  <2> QED  BY <2>2, <2>3
<1>4. \A k \in 0 .. Len(f) : k \in T
  <2> HIDE DEF T
  <2> QED  BY <1>1, <1>2, <1>3, Carried
<1>5. j - 1 \in T /\ j - 1 >= i /\ j - 1 \in Nat
  <2>1. j - 1 \in 0 .. Len(f) /\ j - 1 >= i  BY <1>1
  <2> HIDE DEF T
  <2> QED  BY <1>4, <2>1
<1>6. PICK l \in DataRecords(f) : Lasts(j - 1, l)  BY <1>5
<1>7. l < j /\ \A k \in DataRecords(f) : k <= l \/ k >= j  BY <1>1, <1>6
<1>8. PastWord(f, l) <= FirstWord(f, j)  BY <1>7 DEF Ascending, Follows
<1> QED  BY <1>1, <1>6, <1>8

(* Word k of record i, and where it belongs.                               *)
Address(f, i, k) == FirstWord(f, i) + k - 1

LEMMA ContentWords ==
  ASSUME NEW f, NEW c
  PROVE  c \in Contents(f) <=>
           \E i \in DataRecords(f) : \E k \in WordOf(f, i) : c = <<Address(f, i, k), f[i].words[k]>>
BY DEF Contents, WordOf, Address

LEMMA WordPlace ==
  ASSUME NEW f \in Seq(Record), NEW i \in DataRecords(f), NEW k \in WordOf(f, i)
  PROVE  /\ k \in Nat \ {0} /\ k <= Len(f[i].words) /\ i \in 1 .. Len(f) /\ FirstWord(f, i) \in Nat
         /\ Address(f, i, k) \in Nat
         /\ FirstWord(f, i) <= Address(f, i, k) /\ Address(f, i, k) < PastWord(f, i)
         /\ f[i].words[k] \in Nat
<1>1. /\ i \in 1 .. Len(f) /\ f[i].words \in Seq(Nat) /\ Len(f[i].words) \in Nat
      /\ FirstWord(f, i) \in Nat /\ PastWord(f, i) = FirstWord(f, i) + Len(f[i].words)
  BY RecordWords
<1>2. k \in 1 .. Len(f[i].words)  BY DEF WordOf
<1>3. f[i].words[k] \in Nat  BY <1>1, <1>2
<1> QED  BY <1>1, <1>2, <1>3 DEF Address

(* The words of a file that ascends are in the order of their addresses.   *)
LEMMA WordOrder ==
  ASSUME NEW f \in Seq(Record), Ascending(f), NEW i \in DataRecords(f), NEW k \in WordOf(f, i),
         NEW j \in DataRecords(f), NEW m \in WordOf(f, j)
  PROVE  Address(f, i, k) < Address(f, j, m) <=> i < j \/ (i = j /\ k < m)
<1>1. /\ k \in Nat \ {0} /\ i \in Nat /\ FirstWord(f, i) \in Nat /\ Address(f, i, k) \in Nat
      /\ FirstWord(f, i) <= Address(f, i, k) /\ Address(f, i, k) < PastWord(f, i)
  BY WordPlace
<1>2. /\ m \in Nat \ {0} /\ j \in Nat /\ FirstWord(f, j) \in Nat /\ Address(f, j, m) \in Nat
      /\ FirstWord(f, j) <= Address(f, j, m) /\ Address(f, j, m) < PastWord(f, j)
  BY WordPlace
<1>3. \A l \in DataRecords(f) : PastWord(f, l) \in Nat
  <2> SUFFICES ASSUME NEW l \in DataRecords(f) PROVE PastWord(f, l) \in Nat  OBVIOUS
  <2>1. FirstWord(f, l) \in Nat /\ Len(f[l].words) \in Nat
        /\ PastWord(f, l) = FirstWord(f, l) + Len(f[l].words)
    BY RecordWords
  <2> QED  BY <2>1
<1>4. CASE i < j
  <2>1. PastWord(f, i) <= FirstWord(f, j)  BY <1>4, Ascends
  <2> QED  BY <1>1, <1>2, <1>3, <1>4, <2>1
<1>5. CASE j < i
  <2>1. PastWord(f, j) <= FirstWord(f, i)  BY <1>5, Ascends
  <2> QED  BY <1>1, <1>2, <1>3, <1>5, <2>1
<1>6. CASE i = j  BY <1>1, <1>2, <1>6 DEF Address
<1> QED  BY <1>1, <1>2, <1>4, <1>5, <1>6

(* w is what the file says of address a: its word, or nothing.             *)
Right(f, a, w) == <<a, w>> \in Contents(f) \/ (w = Erased /\ \A c \in Contents(f) : c[1] # a)

LEMMA RightOnce ==
  ASSUME NEW f \in Seq(Record), Ascending(f), NEW a, NEW v, NEW w, Right(f, a, v), Right(f, a, w)
  PROVE  v = w
<1>1. CASE <<a, v>> \in Contents(f) /\ <<a, w>> \in Contents(f)
  <2>1. PICK i \in DataRecords(f) : \E k \in WordOf(f, i) : <<a, v>> = <<Address(f, i, k), f[i].words[k]>>
    BY <1>1, ContentWords
  <2>1a. PICK k \in WordOf(f, i) : <<a, v>> = <<Address(f, i, k), f[i].words[k]>>
    BY <2>1
  <2>2. PICK j \in DataRecords(f) : \E m \in WordOf(f, j) : <<a, w>> = <<Address(f, j, m), f[j].words[m]>>
    BY <1>1, ContentWords
  <2>2a. PICK m \in WordOf(f, j) : <<a, w>> = <<Address(f, j, m), f[j].words[m]>>
    BY <2>2
  <2>3. Address(f, i, k) = a /\ Address(f, j, m) = a /\ v = f[i].words[k] /\ w = f[j].words[m]
    BY <2>1a, <2>2a
  <2>4. /\ ~(i < j \/ (i = j /\ k < m)) /\ ~(j < i \/ (j = i /\ m < k))
        /\ i \in Nat /\ j \in Nat /\ k \in Nat /\ m \in Nat
    <3>1. i \in Nat /\ k \in Nat /\ Address(f, i, k) \in Nat  BY WordPlace
    <3>2. j \in Nat /\ m \in Nat /\ Address(f, j, m) \in Nat  BY WordPlace
    <3>3. ~(Address(f, i, k) < Address(f, j, m)) /\ ~(Address(f, j, m) < Address(f, i, k))
      BY <2>3, <3>1, <3>2
    <3> QED  BY <3>1, <3>2, <3>3, WordOrder
  <2>5. i = j /\ k = m  BY <2>4
  <2> QED  BY <2>3, <2>5
<1>2. CASE ~(<<a, v>> \in Contents(f) /\ <<a, w>> \in Contents(f))
  <2>1. \A x : <<a, x>>[1] = a  OBVIOUS
  <2> QED  BY <1>2, <2>1 DEF Right
<1> QED  BY <1>1, <1>2

(* Behind a data record, at address WordAddress(h): what is before that    *)
(* address has been passed, what is not is still to come.                  *)
LEMMA PassedAddress ==
  ASSUME NEW f \in Seq(Record), Ascending(f), NEW h, Placed(h), Standing(f, h), h.type = "data",
         NEW i \in DataRecords(f), NEW k \in WordOf(f, i)
  PROVE  Passed(h, i, k) <=> Address(f, i, k) < WordAddress(h)
<1> DEFINE j == h.pos - 1
           a == Address(f, i, k)
           x == h.index
<1>1. /\ j \in DataRecords(f) /\ h.words = f[j].words /\ WordAddress(h) = FirstWord(f, j) + x
      /\ h \in Reader /\ x <= Len(h.words)
  BY StandingData DEF Placed
<1>2. /\ FirstWord(f, j) \in Nat /\ PastWord(f, j) = FirstWord(f, j) + Len(f[j].words)
      /\ Len(f[j].words) \in Nat /\ x \in Nat /\ j \in Nat
  <2>1. j \in 1 .. Len(f)  BY <1>1, RecordWords
  <2>2. x \in Nat  BY <1>1 DEF Reader
  <2> QED  BY <1>1, <2>1, <2>2, RecordWords
<1>3. /\ k \in Nat \ {0} /\ i \in Nat /\ FirstWord(f, i) \in Nat /\ a \in Nat
      /\ FirstWord(f, i) <= a /\ a < PastWord(f, i) /\ a = FirstWord(f, i) + k - 1
  BY WordPlace DEF Address
<1>4. PastWord(f, i) \in Nat
  <2>1. PastWord(f, i) = FirstWord(f, i) + Len(f[i].words) /\ Len(f[i].words) \in Nat  BY RecordWords
  <2> QED  BY <1>3, <2>1
<1>5. i < j => PastWord(f, i) <= FirstWord(f, j)  BY <1>1, Ascends
<1>6. j < i => PastWord(f, j) <= FirstWord(f, i)  BY <1>1, Ascends
<1>7. Passed(h, i, k) <=> i < j \/ (i = j /\ k <= x)  BY DEF Passed
<1>8. x <= Len(f[j].words)  BY <1>1
<1> DEFINE y == FirstWord(f, j)
           z == FirstWord(f, i)
           u == PastWord(f, i)
           v == PastWord(f, j)
           n == Len(f[j].words)
<1>9. /\ y \in Nat /\ z \in Nat /\ u \in Nat /\ x \in Nat /\ a \in Nat /\ k \in Nat /\ n \in Nat
      /\ v = y + n /\ x <= n /\ z <= a /\ a < u /\ a = z + k - 1
      /\ (i < j => u <= y) /\ (j < i => v <= z) /\ i \in Nat /\ j \in Nat /\ (i = j => y = z)
  BY <1>2, <1>3, <1>4, <1>5, <1>6, <1>8
<1> HIDE DEF a, x, j, y, z, u, v, n
<1>10. i < j \/ (i = j /\ k <= x) <=> a < y + x
  <2>1. CASE i < j  BY <1>9, <2>1
  <2>2. CASE j < i  BY <1>9, <2>2
  <2>3. CASE i = j  BY <1>9, <2>3
  <2> QED  BY <1>9, <2>1, <2>2, <2>3
<1>11. WordAddress(h) = y + x  BY <1>1 DEF y
<1> QED  BY <1>7, <1>10, <1>11 DEF a

LEMMA PassedAll ==
  ASSUME NEW f \in Seq(Record), Orderly(f), NEW h \in Reader, Standing(f, h), h.type = "eof",
         NEW i \in DataRecords(f), NEW k
  PROVE  Passed(h, i, k)
<1>1. h # Rewind  BY DEF Rewind
<1>2. h.pos \in 2 .. Len(f) + 1 /\ f[h.pos - 1].type = "eof"  BY <1>1 DEF Standing
<1>3. Len(f) \in Nat /\ i \in 1 .. Len(f) /\ f[i].type = "data"  BY DEF DataRecords
<1>4. h.pos - 1 \in 1 .. Len(f)  BY <1>2, <1>3
<1>5. h.pos - 1 = Len(f)  BY <1>2, <1>4 DEF Orderly
<1>6. i # Len(f)  BY <1>2, <1>3, <1>5
<1> QED  BY <1>3, <1>5, <1>6 DEF Passed

LEMMA PassedNone ==
  ASSUME NEW f \in Seq(Record), NEW i \in DataRecords(f), NEW k
  PROVE  ~Passed(Rewind, i, k)
<1>1. i \in Nat /\ i # 0  BY DEF DataRecords
<1>2. Rewind.pos - 1 = 0  BY DEF Rewind
<1> QED  BY <1>1, <1>2 DEF Passed

-----------------------------------------------------------------------------
(* In a complete file a next record can be read.                           *)

LEMMA NextRecordValid ==
  ASSUME NEW f \in Seq(Record), Complete(f), NEW h \in Reader, h.pos <= Len(f)
  PROVE  NextRecord(f, h).type = f[h.pos].type /\ NextRecord(f, h).type # "invalid"
<1> DEFINE r == f[h.pos]
<1>1. h.pos \in Nat \ {0} /\ Len(f) \in Nat
      /\ h = [pos |-> h.pos, type |-> h.type, high |-> h.high, address |-> h.address,
              words |-> h.words, index |-> h.index]
  BY DEF Reader
<1>2. h.pos \in 1 .. Len(f) /\ ~(h.pos > Len(f))  BY <1>1
<1>3. r.type # "bad" /\ r \in Record  BY <1>2 DEF Complete
<1>4. r.type \in {"data", "ext", "start", "eof"}  BY <1>3 DEF Record, StartRecord, EofRecord, BadRecord
<1> DEFINE hi == IF r.type = "ext" THEN r.high ELSE h.high
           ad == IF r.type = "data" THEN r.address ELSE 0
           ws == IF r.type = "data" THEN r.words ELSE <<>>
           g == [h EXCEPT !.pos = @ + 1, !.type = r.type, !.high = hi, !.address = ad, !.words = ws]
<1>5. NextRecord(f, h) = g  BY <1>2, <1>3 DEF NextRecord
<1>6. g.type = r.type
  <2> HIDE DEF hi, ad, ws, r
  <2> QED  BY <1>1
<1> HIDE DEF g
<1> QED  BY <1>4, <1>5, <1>6

LEMMA NextRecordAddress ==
  ASSUME NEW f, NEW h \in Reader, NextRecord(f, h).type \notin {"data", "invalid"}
  PROVE  NextRecord(f, h).address = 0
<1> DEFINE r == f[h.pos]
           hi == IF r.type = "ext" THEN r.high ELSE h.high
           ad == IF r.type = "data" THEN r.address ELSE 0
           ws == IF r.type = "data" THEN r.words ELSE <<>>
           g == [h EXCEPT !.pos = @ + 1, !.type = r.type, !.high = hi, !.address = ad, !.words = ws]
<1>1. h = [pos |-> h.pos, type |-> h.type, high |-> h.high, address |-> h.address,
           words |-> h.words, index |-> h.index]
  BY DEF Reader
<1>2. ~(h.pos > Len(f) \/ r.type = "bad")
  <2> SUFFICES ASSUME h.pos > Len(f) \/ r.type = "bad" PROVE FALSE  OBVIOUS
  <2>1. NextRecord(f, h) = [h EXCEPT !.type = "invalid"]  BY DEF NextRecord
  <2> QED  BY <1>1, <2>1
<1>3. NextRecord(f, h) = g  BY <1>2 DEF NextRecord
<1>4. g.type = r.type /\ g.address = ad
  <2> HIDE DEF hi, ad, ws, r
  <2> QED  BY <1>1
<1> HIDE DEF g
<1> QED  BY <1>3, <1>4

LEMMA NextDataValid ==
  ASSUME NEW f \in Seq(Record), Complete(f), NEW h \in Reader, h.high = HighAt(f, h.pos), h.pos <= Len(f),
         NEW g, g = LoadNextDataRecord(f, h)
  PROVE  /\ Onward(f, h, g)
         /\ g.type = "eof" => g.address = 0
<1> DEFINE n == Len(f)
<1>1. PICK r \in [0 .. n -> Reader] :
        /\ r[0] = NextRecord(f, h) /\ \A k \in 1 .. n : r[k] = Skipped(f, r[k - 1])
        /\ g = [r[n] EXCEPT !.index = 0]
  BY Reading
<1> DEFINE Sound(p) == /\ p.type # "invalid" /\ Reached(f, h, p)
                       /\ p.type # "data" => p.address = 0
           T == {k \in 0 .. n : Sound(r[k])}
<1>2. n \in Nat /\ h.pos \in Nat /\ h.pos >= 1 /\ f[n].type = "eof"  BY DEF Reader, Complete
<1>3. 0 \in T
  <2>1. Reached(f, h, r[0])  BY <1>1, <1>2, NextReached
  <2>2. r[0].type # "invalid"  BY <1>1, NextRecordValid
  <2>3. r[0].type # "data" => r[0].address = 0  BY <1>1, <2>2, NextRecordAddress
  <2> QED  BY <1>2, <2>1, <2>2, <2>3
<1>4. ASSUME NEW k \in 1 .. n, k - 1 \in T PROVE k \in T
  <2> DEFINE p == r[k - 1]
             q == r[k]
  <2>1. p \in Reader /\ q = Skipped(f, p) /\ Sound(p)
    <3>1. k - 1 \in 0 .. n  BY <1>2
    <3> QED  BY <1>1, <1>4, <3>1
  <2> HIDE DEF p, q
  <2>2. Reached(f, h, q)  BY <2>1, SkippedReached
  <2>3. CASE p.type \in {"ext", "start"}
    <3>1. q = NextRecord(f, p)  BY <2>1, <2>3 DEF Skipped
    <3>2. p.pos \in h.pos + 1 .. n + 1 /\ f[p.pos - 1].type = p.type  BY <2>1 DEF Reached
    <3>3. p.pos - 1 # n  BY <1>2, <2>3, <3>2
    <3>4. p.pos <= n  BY <1>2, <3>2, <3>3
    <3>5. q.type # "invalid"  BY <2>1, <3>1, <3>4, NextRecordValid
    <3>6. q.type # "data" => q.address = 0  BY <2>1, <3>1, <3>5, NextRecordAddress
    <3>7. Sound(q)  BY <2>2, <3>5, <3>6
    <3> QED  BY <3>7 DEF q
  <2>4. CASE p.type \notin {"ext", "start"}
    <3>1. q = p  BY <2>1, <2>4 DEF Skipped
    <3>2. Sound(q)  BY <2>1, <3>1
    <3> QED  BY <3>2 DEF q
  <2> QED  BY <2>3, <2>4
<1>5. \A k \in 0 .. n : k \in T
  <2> HIDE DEF T
  <2> QED  BY <1>2, <1>3, <1>4, Carried
<1>6. Sound(r[n])  BY <1>2, <1>5
<1> DEFINE p == r[n]
<1>7. p \in Reader /\ g = [p EXCEPT !.index = 0] /\ Sound(p)  BY <1>1, <1>2, <1>6
<1> HIDE DEF p, T
<1>8. g.type = p.type /\ g.address = p.address  BY <1>7 DEF Reader
<1>9. Onward(f, h, g)  BY <1>7, <1>8, NextDataStands
<1>10. g.type = "eof" => g.address = 0  BY <1>7, <1>8
<1> QED  BY <1>9, <1>10

(* Data d of a page that begins at address p: padding or words of the file *)
(* that belong there.                                                      *)
Made(f, p, d) == \A j \in 1 .. Len(d) : d[j] = Erased \/ <<p + j - 1, d[j]>> \in Contents(f)

Past(h, g) == g.pos > h.pos \/ (g.pos = h.pos /\ g.index > h.index)

LEMMA TakeMade ==
  ASSUME NEW f \in Seq(Record), NEW n \in Nat \ {0}, NEW s \in Page(n), NEW p \in Nat,
         Standing(f, s.hex), InHand(s.hex), WordAddress(s.hex) = p + Len(s.data), Len(s.data) < n,
         Made(f, p, s.data)
  PROVE  LET t == Take(s, n) IN
         Made(f, p, t.data) /\ t.ok = s.ok /\ t.hex.pos = s.hex.pos /\ t.hex.index > s.hex.index
<1> SUFFICES ASSUME NEW t, t = Take(s, n)
             PROVE  Made(f, p, t.data) /\ t.ok = s.ok /\ t.hex.pos = s.hex.pos /\ t.hex.index > s.hex.index
  OBVIOUS
<1> DEFINE h == s.hex
           i == h.pos - 1
           v == h.words
           x == h.index
           old == s.data
           e == Len(old)
           d == t.data
<1>1. PICK m \in Nat : Took(s, t, n, m)  BY TakeParts
<1>2. /\ h \in Reader /\ x \in Nat /\ v \in Seq(Nat) /\ Len(v) \in Nat
      /\ old \in Seq(Nat) /\ e \in Nat /\ e < n /\ x < Len(v) /\ h.type = "data"
  <2>1. h \in Reader /\ old \in Seq(Nat)  BY DEF Page
  <2>2. x \in Nat /\ v \in Seq(Nat)  BY <2>1 DEF Reader
  <2>3. x < Len(v) /\ h.type = "data"  BY DEF InHand
  <2> QED  BY <2>1, <2>2, <2>3
<1>3. /\ m \in Nat /\ (m = Len(v) - x \/ m = n - e) /\ m <= Len(v) - x /\ m <= n - e
      /\ t.ok = s.ok /\ d = old \o SubSeq(v, x + 1, x + m)
      /\ t.hex.pos = h.pos /\ t.hex.index = x + m
  BY <1>1 DEF Took
<1>4. /\ i \in DataRecords(f) /\ v = f[i].words /\ p + e = FirstWord(f, i) + x /\ FirstWord(f, i) \in Nat
  <2>1. i \in DataRecords(f) /\ v = f[i].words /\ WordAddress(h) = FirstWord(f, i) + x
    BY <1>2, StandingData
  <2> QED  BY <2>1, RecordWords
<1> HIDE DEF h, i, v, x, old, d
<1>5. /\ Len(d) = e + m /\ \A a \in 1 .. e : d[a] = old[a]
      /\ \A j \in 1 .. m : d[e + j] = v[x + j]
  <2>1. x + m <= Len(v)  BY <1>2, <1>3
  <2>2. Lengthened(old \o SubSeq(v, x + 1, x + m), old, v, x, m)  BY <1>2, <1>3, <2>1, Appended
  <2>3. Lengthened(d, old, v, x, m)  BY <1>3, <2>2
  <2> QED  BY <2>3 DEF Lengthened
<1>6. ASSUME NEW j \in 1 .. m PROVE <<p + (e + j) - 1, d[e + j]>> \in Contents(f)
  <2> DEFINE k == x + j
  <2>1. k \in 1 .. Len(v)
    <3> DEFINE z == Len(v)
    <3>1. z \in Nat /\ x \in Nat /\ m <= z - x /\ j \in 1 .. m /\ m \in Nat  BY <1>2, <1>3
    <3> HIDE DEF z
    <3>2. x + j \in 1 .. z  BY <3>1
    <3> QED  BY <3>2 DEF z
  <2>2. k \in WordOf(f, i)  BY <1>4, <2>1 DEF WordOf
  <2>3. Address(f, i, k) = p + (e + j) - 1
    <3> DEFINE y == FirstWord(f, i)
    <3>1. y \in Nat /\ p + e = y + x /\ x \in Nat /\ e \in Nat  BY <1>2, <1>4
    <3> HIDE DEF y, e
    <3>2. y + (x + j) - 1 = p + (e + j) - 1  BY <3>1
    <3> QED  BY <3>2 DEF Address, y
  <2>4. d[e + j] = f[i].words[k]  BY <1>4, <1>5
  <2> HIDE DEF k
  <2>5. <<p + (e + j) - 1, d[e + j]>> = <<Address(f, i, k), f[i].words[k]>>  BY <2>3, <2>4
  <2> QED  BY <1>4, <2>2, <2>5, ContentWords
<1>7. ASSUME NEW a \in 1 .. Len(d) PROVE d[a] = Erased \/ <<p + a - 1, d[a]>> \in Contents(f)
  <2>1. CASE a <= e
    <3>1. a \in 1 .. e /\ d[a] = old[a]  BY <1>2, <1>3, <1>5, <2>1
    <3> QED  BY <3>1 DEF Made, old
  <2>2. CASE a > e
    <3> DEFINE j == a - e
    <3>1. e \in Nat /\ m \in Nat /\ a \in 1 .. e + m  BY <1>2, <1>3, <1>5
    <3> HIDE DEF e
    <3>2. j \in 1 .. m /\ e + j = a  BY <2>2, <3>1
    <3> HIDE DEF j
    <3> QED  BY <1>6, <3>2
  <2> QED  BY <1>2, <2>1, <2>2
<1>8. m >= 1
  <2> DEFINE z == Len(v)
  <2>1. z \in Nat /\ x \in Nat /\ e \in Nat /\ x < z /\ e < n /\ (m = z - x \/ m = n - e)  BY <1>2, <1>3
  <2> HIDE DEF z, e
  <2> QED  BY <2>1
<1>9. t.hex.index > x  BY <1>2, <1>3, <1>8
<1> QED  BY <1>3, <1>7, <1>9 DEF Made, h, x, d

LEMMA PaddedRest ==
  ASSUME NEW u \in Seq(Nat), NEW n \in Nat, Len(u) <= n
  PROVE  \A j \in Len(u) + 1 .. n : PaddedTo(u, n)[j] = Erased
<1> DEFINE m == n - Len(u)
           z == Padding(m)
           l == Len(u)
<1>1. m \in Nat /\ l \in Nat /\ l + m = n  OBVIOUS
<1>2. \A j \in 1 .. m : z[j] = Erased  BY DEF Padding
<1> HIDE DEF m
<1>3. z \in Seq(Nat) /\ Len(z) = m  BY <1>1, PaddingType
<1> HIDE DEF z, l
<1>4. \A i \in 1 .. l + m : (u \o z)[i] = IF i <= l THEN u[i] ELSE z[i - l]
  BY <1>3, ConcatProperties, Zenon DEF l
<1>5. ASSUME NEW j \in l + 1 .. n PROVE (u \o z)[j] = Erased
  <2>1. j \in 1 .. l + m /\ ~(j <= l) /\ j - l \in 1 .. m  BY <1>1
  <2>2. z[j - l] = Erased  BY <1>2, <2>1
  <2> QED  BY <1>4, <2>1, <2>2
<1>6. PaddedTo(u, n) = u \o z  BY DEF PaddedTo, z, m
<1> QED  BY <1>5, <1>6 DEF l

(* A file from which pages of n words can be loaded.                       *)
Loadable(f, n) ==
  /\ f \in Seq(Record) /\ Complete(f) /\ Orderly(f) /\ Ascending(f) /\ GapFree(f, n)
  /\ LastPageEnds(f, n) /\ (BankWords % n = 0 \/ InFirstBank(f))

(* LoadPageFromSD() on its way, as far as a file in order lets it get.     *)
Makes(f, h, n, s) ==
  /\ s.ok /\ Filling(f, h, n, s) /\ Made(f, PageOf(WordAddress(h), n), s.data)
  /\ Len(s.data) = n \/ s.hex.type = "data"
  /\ Past(h, s.hex)

LEMMA MakesMore ==
  ASSUME NEW f \in Seq(Record), NEW n \in Nat \ {0}, NEW s \in Page(n), NEW p \in Nat,
         Standing(f, s.hex), InHand(s.hex), WordAddress(s.hex) = p + Len(s.data), Len(s.data) < n,
         Made(f, p, s.data), s.ok, NEW t, t = Take(s, n),
         NEW h \in Reader, PageOf(WordAddress(h), n) = p, Filling(f, h, n, t),
         s.hex = h \/ Past(h, s.hex)
  PROVE  Makes(f, h, n, t)
<1>1. Made(f, p, t.data) /\ t.ok = s.ok /\ t.hex.pos = s.hex.pos /\ t.hex.index > s.hex.index
  BY TakeMade
<1>2. TakenOn(f, p, n, s, t)  BY TakeOn
<1>3. t.ok /\ t.hex.type = "data"  BY <1>1, <1>2 DEF TakenOn
<1>4. Past(h, t.hex)
  <2>1. /\ s.hex.pos \in Nat /\ s.hex.index \in Nat /\ h.pos \in Nat /\ h.index \in Nat
        /\ t.hex \in Reader
    BY TakeType DEF Page, Reader
  <2>2. t.hex.index \in Nat  BY <2>1 DEF Reader
  <2> QED  BY <1>1, <2>1, <2>2 DEF Past
<1>5. Made(f, PageOf(WordAddress(h), n), t.data)  BY <1>1
<1> QED  BY <1>3, <1>4, <1>5 DEF Makes

LEMMA MakesFirst ==
  ASSUME NEW f \in Seq(Record), NEW h, Placed(h), Standing(f, h), InHand(h), NEW n \in Nat \ {0},
         NEW s \in Page(n), s = [hex |-> h, data |-> Padding(WordAddress(h) % n), ok |-> TRUE]
  PROVE  Makes(f, h, n, Take(s, n))
<1> DEFINE x == WordAddress(h) % n
<1>1. h \in Reader /\ WordAddress(h) \in Nat  BY WordAddressType DEF Placed
<1> SUFFICES ASSUME NEW p, PageOf(WordAddress(h), n) = p PROVE Makes(f, h, n, Take(s, n))
  OBVIOUS
<1>2. p \in Nat /\ p + x = WordAddress(h) /\ x \in 0 .. n - 1  BY <1>1, PageBounds
<1>3. Len(s.data) = x /\ s.hex = h /\ s.data = Padding(x) /\ s.ok  BY <1>2, PaddingType
<1>4. Made(f, p, s.data)
  <2> HIDE DEF x
  <2>1. x \in Nat /\ Len(Padding(x)) = x  BY <1>2, PaddingType
  <2>2. \A j \in 1 .. x : Padding(x)[j] = Erased  BY DEF Padding
  <2> QED  BY <1>3, <2>1, <2>2 DEF Made
<1>5. Filling(f, h, n, Take(s, n))  BY FillFirst
<1>6. WordAddress(s.hex) = p + Len(s.data) /\ Len(s.data) < n /\ Standing(f, s.hex) /\ InHand(s.hex)
  <2> HIDE DEF x
  <2>1. WordAddress(s.hex) = WordAddress(h) /\ Standing(f, s.hex) /\ InHand(s.hex)  BY <1>3
  <2> QED  BY <1>2, <1>3, <2>1
<1>7. \A z \in Page(n) : z = s => Makes(f, h, n, Take(z, n))
  <2> SUFFICES ASSUME NEW z \in Page(n), z = s PROVE Makes(f, h, n, Take(z, n))  OBVIOUS
  <2>1. /\ Standing(f, z.hex) /\ InHand(z.hex) /\ WordAddress(z.hex) = p + Len(z.data) /\ Len(z.data) < n
        /\ Made(f, p, z.data) /\ z.ok /\ z.hex = h /\ Filling(f, h, n, Take(z, n))
    BY <1>3, <1>4, <1>5, <1>6
  <2> QED  BY <1>1, <1>2, <2>1, MakesMore
<1> QED  BY <1>7

(* The next record begins where the page, filled so far, ends.             *)
LEMMA GoesOnAt ==
  ASSUME NEW f \in Seq(Record), NEW n \in Nat \ {0}, GapFree(f, n), NEW g \in Reader, NEW x \in Reader,
         Standing(f, g), g.type = "data", g.index = Len(g.words), NEW p \in Nat, NEW e \in 1 .. n,
         WordAddress(g) = p + e, PageOf(p, n) = p,
         Standing(f, x), x.type = "data", x.index = 0, Follows(f, g.pos - 1, x.pos - 1),
         PageOf(WordAddress(x), n) = p
  PROVE  WordAddress(x) = p + e
<1> DEFINE i == g.pos - 1
           j == x.pos - 1
<1>1. /\ i \in DataRecords(f) /\ g.words = f[i].words /\ WordAddress(g) = FirstWord(f, i) + g.index
      /\ j \in DataRecords(f) /\ WordAddress(x) = FirstWord(f, j) + x.index
  BY StandingData
<1> HIDE DEF i, j
<1>2. PastWord(f, i) = p + e /\ FirstWord(f, j) \in Nat /\ WordAddress(x) = FirstWord(f, j)
  BY <1>1, RecordWords
<1>3. PageOf(PastWord(f, i) - 1, n) = p
  <2>1. p + e - 1 \in p .. p + n - 1  OBVIOUS
  <2>2. PageOf(p + e - 1, n) = p  BY <2>1, SamePage
  <2>3. PastWord(f, i) - 1 = p + e - 1  BY <1>2
  <2> QED  BY <2>2, <2>3
<1>4. PageOf(FirstWord(f, j), n) = p  BY <1>2
<1>5. FirstWord(f, j) = PastWord(f, i)  BY <1>1, <1>3, <1>4 DEF GapFree, i, j
<1> QED  BY <1>2, <1>5

(* The end record does not seem to continue a page.                        *)
LEMMA EndsPage ==
  ASSUME NEW f \in Seq(Record), Complete(f), Orderly(f), NEW n \in Nat \ {0}, LastPageEnds(f, n),
         NEW g \in Reader, NEW x \in Reader,
         Standing(f, g), g.type = "data", g.index = Len(g.words), NEW p \in Nat, NEW e \in 1 .. n - 1,
         WordAddress(g) = p + e, PageOf(p, n) = p,
         Onward(f, g, x), x.type = "eof", x.address = 0
  PROVE  PageOf(WordAddress(x), n) # p
<1> DEFINE m == Len(f)
           j == g.pos - 1
<1>1. PICK i \in DataRecords(f) :
        /\ \A k \in DataRecords(f) : k <= i
        /\ \/ PastWord(f, i) % n = 0
           \/ PageOf(PastWord(f, i) - 1, n) # PageOf(HighAt(f, m) * SegmentWords, n)
  BY DEF LastPageEnds
<1>2. j \in DataRecords(f) /\ g.words = f[j].words /\ WordAddress(g) = FirstWord(f, j) + g.index
  BY StandingData
<1>3. PastWord(f, j) = p + e  BY <1>2, RecordWords
<1>4. /\ x.pos \in g.pos + 1 .. m + 1 /\ x.index = 0 /\ Standing(f, x)
      /\ \A k \in DataRecords(f) : k < x.pos - 1 => k < g.pos
  BY DEF Onward
<1>5. x # Rewind  BY DEF Rewind
<1>6. x.pos \in 2 .. m + 1 /\ f[x.pos - 1].type = "eof" /\ x.high = HighAt(f, x.pos)
  BY <1>4, <1>5 DEF Standing
<1>7. m \in Nat /\ g.pos \in Nat /\ f[m].type = "eof" /\ m \in 1 .. m
  <2>1. m \in Nat /\ g.pos \in Nat  BY DEF Reader
  <2>2. m # 0 /\ f[m].type = "eof"  BY DEF Complete
  <2> QED  BY <2>1, <2>2
<1>8. x.pos = m + 1
  <2>1. x.pos - 1 \in 1 .. m  BY <1>6, <1>7
  <2>2. x.pos - 1 = m  BY <1>6, <2>1 DEF Orderly
  <2> QED  BY <1>6, <1>7, <2>2
<1>9. i = j
  <2>1. i \in 1 .. m /\ f[i].type = "data" /\ j \in Int  BY <1>2 DEF DataRecords
  <2>2. i # m  BY <1>7, <2>1
  <2>3. i < g.pos  BY <1>4, <1>7, <1>8, <2>1, <2>2
  <2>4. j <= i  BY <1>1, <1>2
  <2> QED  BY <1>7, <2>1, <2>3, <2>4
<1>10. ~(PastWord(f, i) % n = 0)
  <2>1. (p + e) % n = e
    <3>1. p % n = 0  BY DivMod DEF PageOf
    <3> DEFINE q == p \div n
    <3>2. q \in Nat /\ p = n * q + (p % n)  BY DivMod
    <3>2a. e \in 0 .. n - 1  OBVIOUS
    <3> HIDE DEF q
    <3>3. (n * q + e) % n = e  BY <3>2, <3>2a, Unique
    <3>4. p + e = n * q + e  BY <3>1, <3>2
    <3> QED  BY <3>3, <3>4
  <2> QED  BY <1>3, <1>9, <2>1
<1>11. PageOf(PastWord(f, i) - 1, n) = p
  <2>1. p + e - 1 \in p .. p + n - 1  OBVIOUS
  <2>2. PageOf(p + e - 1, n) = p  BY <2>1, SamePage
  <2>3. PastWord(f, i) - 1 = p + e - 1  BY <1>3, <1>9
  <2> QED  BY <2>2, <2>3
<1>12. HighAt(f, m + 1) = HighAt(f, m)
  <2>1. f[m].type # "ext"  BY <1>7
  <2> QED  BY <1>7, <2>1, HighNext
<1>13. WordAddress(x) = HighAt(f, m) * SegmentWords
  <2>1. WordAddress(x) = HighAt(f, m) * SegmentWords + 0 + 0  BY <1>4, <1>6, <1>8, <1>12 DEF WordAddress
  <2>2. HighAt(f, m) \in Nat /\ SegmentWords \in Nat
    <3>1. x.high \in Nat  BY DEF Reader
    <3> QED  BY <1>6, <1>8, <1>12, <3>1, SegmentAssumption
  <2>3. HighAt(f, m) * SegmentWords \in Nat  BY <2>2, Product
  <2> QED  BY <2>1, <2>3
<1> QED  BY <1>1, <1>10, <1>11, <1>13

LEMMA FillOn ==
  ASSUME NEW f \in Seq(Record), NEW h \in Reader, NEW n \in Nat \ {0}, Loadable(f, n), Placed(h),
         NEW s \in Page(n), Makes(f, h, n, s), Len(s.data) # n, NEW t, t = Filled(f, s, h, n)
  PROVE  Makes(f, h, n, t) /\ (Len(t.data) = n \/ t.hex.pos >= s.hex.pos + 1)
<1> DEFINE g == s.hex
           x == LoadNextDataRecord(f, g)
           p == PageOf(WordAddress(h), n)
           e == Len(s.data)
           y == s.data \o Padding(n - e)
           w == [hex |-> x, data |-> y, ok |-> s.ok]
           v == [hex |-> x, data |-> s.data, ok |-> s.ok]
           u == [s EXCEPT !.hex = x]
           Beyond == PageOf(WordAddress(x), n) # p \/ Bank(x) # Bank(h)
<1>1. With(x, LAMBDA next : Continued(s, next, h, n)) = Continued(s, x, h, n)
  BY Zenon DEF With
<1>2. s.ok /\ e # n  BY DEF Makes
<1>3. t = Continued(s, x, h, n)
  <2>1. t = IF ~s.ok \/ e = n THEN s ELSE Continued(s, x, h, n)  BY <1>1, Zenon DEF Filled
  <2> QED  BY <1>2, <2>1
<1>4. /\ s = [hex |-> g, data |-> s.data, ok |-> s.ok] /\ g \in Reader /\ Placed(g)
      /\ s.data \in Seq(Nat) /\ e \in Nat /\ e < n
  BY <1>2 DEF Page, Placed
<1>5. p \in Nat /\ WordAddress(h) \in Nat  BY WordAddressType, PageBounds
<1>6. /\ Standing(f, g) /\ g.type = "data" /\ Made(f, p, s.data) /\ Past(h, g)
      /\ e >= 1 /\ WordAddress(g) = p + e /\ g.index = Len(g.words)
  <2>1. g.type = "data"  BY <1>2 DEF Makes
  <2>2. Filling(f, h, n, s) /\ Made(f, p, s.data) /\ Past(h, g)  BY DEF Makes
  <2>3. ~(e = n)  BY <1>2
  <2>4. /\ Standing(f, g)
        /\ e >= 1 /\ WordAddress(g) = p + e /\ g.index = Len(g.words)
    BY <2>1, <2>2, <2>3 DEF Filling
  <2> QED  BY <2>1, <2>2, <2>4
<1>7. /\ Complete(f) /\ Orderly(f) /\ GapFree(f, n) /\ LastPageEnds(f, n)
  BY DEF Loadable
<1>8. g.high = HighAt(f, g.pos) /\ g.pos <= Len(f)
  <2>1. g # Rewind  BY <1>6 DEF Rewind
  <2>2. g.pos \in 2 .. Len(f) + 1 /\ f[g.pos - 1].type = "data" /\ g.high = HighAt(f, g.pos)
    BY <1>6, <2>1 DEF Standing
  <2>3. f[Len(f)].type = "eof" /\ Len(f) \in Nat  BY <1>7 DEF Complete
  <2>4. g.pos - 1 # Len(f)  BY <2>2, <2>3
  <2> QED  BY <2>2, <2>3, <2>4
<1>9. Onward(f, g, x) /\ (x.type = "eof" => x.address = 0)
  BY <1>4, <1>7, <1>8, NextDataValid
<1>10. x.type # "invalid"  BY <1>9 DEF Onward
<1>11. /\ Placed(x) /\ (x.type = "data" => InHand(x))
       /\ x.type = "data" => Follows(f, g.pos - 1, x.pos - 1)
  BY <1>4, <1>6, <1>8, <1>10, Neighbour
<1>12. t = IF Beyond THEN w ELSE Take(v, n)
  <2>1. t = IF Beyond THEN [s EXCEPT !.hex = x, !.data = @ \o Padding(n - Len(@))] ELSE Take(u, n)
    BY <1>3, <1>10, Zenon DEF Continued
  <2>2. [s EXCEPT !.hex = x, !.data = @ \o Padding(n - Len(@))] = [s EXCEPT !.hex = x, !.data = y]
    OBVIOUS
  <2> HIDE DEF x, g, y
  <2>3. u = v /\ [s EXCEPT !.hex = x, !.data = y] = w  BY PageFields
  <2> HIDE DEF u, v, w
  <2> QED  BY <2>1, <2>2, <2>3
<1> HIDE DEF x, u, g, p, e, y
<1>13. x \in Reader /\ Standing(f, x) /\ x.type \in {"data", "eof"} /\ x.index = 0 /\ x.pos >= g.pos + 1
  BY <1>4, <1>9, <1>11 DEF Placed, Onward, Reader
<1>14. Past(h, x)
  <2>1. g.pos \in Nat /\ h.pos \in Nat /\ x.pos \in Nat  BY <1>4, <1>13 DEF Reader
  <2> QED  BY <1>6, <1>13, <2>1 DEF Past
<1>15. PageOf(p, n) = p
  <2>1. p \in p .. p + n - 1  BY <1>5
  <2> QED  BY <1>5, <2>1, SamePage DEF p
<1>16. CASE Beyond
  <2>1. y = PaddedTo(s.data, n)  BY DEF PaddedTo, y, e
  <2>2. s.data \in Seq(Nat) /\ Len(s.data) <= n /\ n \in Nat  BY <1>4 DEF e
  <2>3. y \in Seq(Nat) /\ Len(y) = n /\ \A a \in 1 .. e : y[a] = s.data[a]
    BY <2>1, <2>2, Padded DEF e
  <2>4. \A j \in e + 1 .. n : y[j] = Erased  BY <2>1, <2>2, PaddedRest DEF e
  <2>5. t.hex = x /\ t.data = y /\ t.ok = s.ok  BY <1>12, <1>16
  <2>6. Made(f, p, y)
    <3>1. ASSUME NEW j \in 1 .. n PROVE y[j] = Erased \/ <<p + j - 1, y[j]>> \in Contents(f)
      <4>1. CASE j <= e
        <5>1. j \in 1 .. Len(s.data) /\ y[j] = s.data[j]  BY <1>4, <2>3, <4>1 DEF e
        <5>2. s.data[j] = Erased \/ <<p + j - 1, s.data[j]>> \in Contents(f)  BY <1>6, <5>1 DEF Made
        <5> QED  BY <5>1, <5>2
      <4>2. CASE ~(j <= e)  BY <1>4, <2>4, <4>2
      <4> QED  BY <4>1, <4>2
    <3> QED  BY <2>3, <3>1 DEF Made
  <2>7. Filling(f, h, n, t)
    <3>1. GapFree(f, n) /\ Orderly(f) /\ (s.ok => Filling(f, h, n, s)) /\ t.ok
      BY <1>2, <1>7, <2>5 DEF Makes
    <3> QED  BY <3>1, FillNext
  <2>8. Len(t.data) = n /\ Made(f, PageOf(WordAddress(h), n), t.data) /\ Past(h, t.hex) /\ t.ok
    BY <1>2, <1>14, <2>3, <2>5, <2>6 DEF p
  <2> QED  BY <2>7, <2>8 DEF Makes
<1>17. CASE ~Beyond
  <2>1. PageOf(WordAddress(x), n) = p  BY <1>17
  <2>2. x.type = "data"
    <3> SUFFICES ASSUME x.type = "eof" PROVE FALSE  BY <1>13
    <3>1. e \in 1 .. n - 1  BY <1>4, <1>6
    <3>2. x.address = 0  BY <1>9
    <3>3. PageOf(WordAddress(x), n) # p
      BY <1>4, <1>5, <1>6, <1>7, <1>9, <1>13, <1>15, <3>1, <3>2, EndsPage
    <3> QED  BY <2>1, <3>3
  <2>3. WordAddress(x) = p + e
    <3>1. e \in 1 .. n  BY <1>4, <1>6
    <3>2. Follows(f, g.pos - 1, x.pos - 1)  BY <1>11, <2>2
    <3> QED  BY <1>4, <1>5, <1>6, <1>7, <1>13, <1>15, <2>1, <2>2, <3>1, <3>2, GoesOnAt
  <2>4. /\ v \in Page(n) /\ v.hex = x /\ v.data = s.data /\ v.ok = s.ok
    BY <1>4, <1>11, <1>13 DEF Page, e
  <2>5. t = Take(v, n)  BY <1>12, <1>17
  <2> HIDE DEF v
  <2>6. /\ Standing(f, v.hex) /\ InHand(v.hex) /\ WordAddress(v.hex) = p + Len(v.data) /\ Len(v.data) < n
        /\ Made(f, p, v.data) /\ v.ok /\ Past(h, v.hex)
    BY <1>2, <1>4, <1>6, <1>11, <1>13, <1>14, <2>2, <2>3, <2>4 DEF e
  <2>7. Made(f, p, t.data) /\ t.ok = v.ok /\ t.hex.pos = v.hex.pos
    BY <1>5, <2>4, <2>5, <2>6, TakeMade
  <2>8. Filling(f, h, n, t)
    <3>1. GapFree(f, n) /\ Orderly(f) /\ (s.ok => Filling(f, h, n, s)) /\ t.ok
      BY <1>7, <2>6, <2>7 DEF Makes
    <3> QED  BY <3>1, FillNext
  <2>9. PageOf(WordAddress(h), n) = p  BY DEF p
  <2>10. Makes(f, h, n, t)
    BY <1>5, <2>4, <2>5, <2>6, <2>8, <2>9, MakesMore
  <2>11. t.hex.pos >= s.hex.pos + 1  BY <1>13, <2>4, <2>7 DEF g
  <2> QED  BY <2>10, <2>11
<1> QED  BY <1>16, <1>17

(* How far the loop has got after k records: the page is full, or the      *)
(* reader has gone over as many records.                                   *)
Grown(f, h, n, k, s) ==
  s \in Page(n) /\ Makes(f, h, n, s) /\ (Len(s.data) = n \/ s.hex.pos >= h.pos + k)

LEMMA GrownOn ==
  ASSUME NEW f \in Seq(Record), NEW h \in Reader, NEW n \in Nat \ {0}, Loadable(f, n), Placed(h),
         NEW k \in Nat, NEW s, Grown(f, h, n, k, s), NEW t \in Page(n), t = Filled(f, s, h, n)
  PROVE  Grown(f, h, n, k + 1, t)
<1>1. CASE Len(s.data) = n
  <2>1. t = s  BY <1>1 DEF Filled
  <2> QED  BY <1>1, <2>1 DEF Grown
<1>2. CASE Len(s.data) # n
  <2>1. Makes(f, h, n, t) /\ (Len(t.data) = n \/ t.hex.pos >= s.hex.pos + 1)
    BY <1>2, FillOn DEF Grown
  <2>2. s.hex.pos >= h.pos + k  BY <1>2 DEF Grown
  <2>3. s.hex.pos \in Nat /\ h.pos \in Nat /\ t.hex.pos \in Nat  BY DEF Grown, Page, Reader
  <2>4. t.hex.pos >= s.hex.pos + 1 => t.hex.pos >= h.pos + (k + 1)  BY <2>2, <2>3, SMTT(40)
  <2> QED  BY <2>1, <2>4 DEF Grown
<1> QED  BY <1>1, <1>2

(* LoadPageFromSD() on a loadable file succeeds, with a page that is full  *)
(* and holds nothing but padding and words of the file, each in its place. *)
LEMMA LoadsPage ==
  ASSUME NEW f \in Seq(Record), NEW h, Placed(h), Standing(f, h), InHand(h), NEW n \in Nat \ {0},
         Loadable(f, n), NEW l, l = LoadPageFromSD(f, h, n)
  PROVE  l \in Page(n) /\ Makes(f, h, n, l) /\ Len(l.data) = n
<1> DEFINE begun == [hex |-> h, data |-> Padding(WordAddress(h) % n), ok |-> TRUE]
           m == Len(f) + 1
<1>0. PICK r : Paged(f, h, n, r)  BY PageSteps
<1>1. /\ r \in [0 .. m -> Page(n)]
      /\ begun \in Page(n) /\ r[0] = Take(begun, n)
      /\ \A k \in 1 .. m : r[k] = Filled(f, r[k - 1], h, n)
      /\ l = r[m]
  BY <1>0 DEF Paged
<1>2. m \in Nat /\ r \in [0 .. m -> Page(n)] /\ h \in Reader  BY <1>1 DEF Placed
<1>3. m = Len(f) + 1 /\ Len(f) \in Nat  OBVIOUS
<1> HIDE DEF m
<1> DEFINE T == {k \in 0 .. m : Grown(f, h, n, k, r[k])}
<1>4. 0 \in T
  <2>1. Makes(f, h, n, Take(begun, n))  BY <1>1, MakesFirst
  <2>2. r[0] \in Page(n)  BY <1>2
  <2>3. Makes(f, h, n, r[0])  BY <1>1, <2>1
  <2> HIDE DEF begun
  <2>4. r[0].hex.pos >= h.pos
    <3>1. r[0].hex.pos \in Nat /\ h.pos \in Nat  BY <1>2, <2>2 DEF Page, Reader
    <3> QED  BY <2>3, <3>1 DEF Makes, Past
  <2>5. h.pos + 0 = h.pos  BY <1>2 DEF Reader
  <2>6. Grown(f, h, n, 0, r[0])  BY <2>2, <2>3, <2>4, <2>5 DEF Grown
  <2> QED  BY <1>2, <2>6
<1>5. ASSUME NEW k \in 1 .. m, k - 1 \in T PROVE k \in T
  <2> DEFINE s == r[k - 1]
             t == r[k]
             j == k - 1
  <2>1. t \in Page(n) /\ t = Filled(f, s, h, n) /\ Grown(f, h, n, j, s) /\ j \in Nat /\ j + 1 = k
    BY <1>1, <1>2, <1>5
  <2> HIDE DEF s, t, T, j
  <2>2. Grown(f, h, n, j + 1, t)  BY <1>2, <2>1, GrownOn
  <2>3. Grown(f, h, n, k, t)  BY <2>1, <2>2
  <2> QED  BY <1>2, <2>3 DEF T, t
<1>6. \A k \in 0 .. m : k \in T
  <2> HIDE DEF T
  <2> QED  BY <1>2, <1>4, <1>5, Carried
<1>7. m \in T  BY <1>2, <1>6
<1>8. Grown(f, h, n, m, l)  BY <1>1, <1>7
<1>9. Len(l.data) = n
  <2> SUFFICES ASSUME Len(l.data) # n PROVE FALSE  OBVIOUS
  <2>1. l.hex.pos >= h.pos + m /\ l.hex.type = "data"  BY <1>8 DEF Grown, Makes
  <2>2. Standing(f, l.hex) /\ l.hex \in Reader  BY <1>8 DEF Grown, Makes, Filling, Page
  <2>3. l.hex # Rewind  BY <2>1 DEF Rewind
  <2>4. l.hex.pos \in 2 .. Len(f) + 1  BY <2>2, <2>3 DEF Standing
  <2>5. h.pos \in Nat /\ h.pos >= 1  BY <1>2 DEF Reader
  <2> QED  BY <1>3, <2>1, <2>4, <2>5
<1> QED  BY <1>8, <1>9 DEF Grown

(* The page in which the reader stands lies in the bank of its record.     *)
LEMMA PageStands ==
  ASSUME NEW f \in Seq(Record), Orderly(f), NEW n \in Nat \ {0}, BankWords % n = 0 \/ InFirstBank(f),
         NEW h \in Reader, Standing(f, h), InHand(h), NEW p, p = PageOf(WordAddress(h), n)
  PROVE  p \in Nat /\ PageOf(p, n) = p /\ InBank(p, Bank(h))
<1> DEFINE a == WordAddress(h)
           i == h.pos - 1
           w == BankWords
           s == SegmentWords
           b == Bank(h)
<1>1. n \in Nat \ {0}  OBVIOUS
<1>2. a \in Nat /\ s \in Nat \ {0} /\ w = 2 * s /\ w \in Nat \ {0}
  BY WordAddressType, SegmentAssumption DEF BankWords
<1>3. h.type = "data" /\ h.index < Len(h.words) /\ h.index \in Nat  BY DEF InHand, Reader
<1>4. /\ i \in DataRecords(f) /\ h.words = f[i].words /\ h.high = HighAt(f, i)
      /\ a = FirstWord(f, i) + h.index
  BY <1>3, StandingData
<1>5. /\ FirstWord(f, i) \in Nat /\ PastWord(f, i) = FirstWord(f, i) + Len(f[i].words)
      /\ Len(f[i].words) \in Nat /\ h.high \in Nat /\ f[i].address \in Nat
  <2>1. /\ FirstWord(f, i) \in Nat /\ PastWord(f, i) = FirstWord(f, i) + Len(f[i].words)
        /\ Len(f[i].words) \in Nat /\ f[i].address \in Nat
    BY <1>4, RecordWords
  <2>2. HighAt(f, i) \in 0 .. 15  BY <1>4, RecordWords
  <2>3. h.high \in Nat  BY <1>4, <2>2
  <2> QED  BY <2>1, <2>3
<1>6. b = h.high \div 2 /\ b \in Nat /\ 2 * b <= h.high
  <2> DEFINE y == h.high
  <2>a. y \in Nat  BY <1>5
  <2>1. y \div 2 \in Nat /\ y % 2 \in 0 .. 1 /\ y = 2 * (y \div 2) + (y % 2)
    <3> HIDE DEF y
    <3> QED  BY <2>a
  <2> DEFINE u == h.high \div 2
             v == h.high % 2
  <2>2. b = u /\ u \in Nat /\ v \in 0 .. 1 /\ h.high = 2 * u + v  BY <2>1 DEF Bank
  <2> HIDE DEF u, v
  <2>3. 2 * u <= h.high  BY <2>2
  <2> QED  BY <2>2, <2>3 DEF u
<1>7. a < (b + 1) * w
  <2>1. PastWord(f, i) <= (HighAt(f, i) \div 2 + 1) * BankWords  BY <1>4 DEF Orderly
  <2>2. PastWord(f, i) <= (b + 1) * w  BY <1>4, <1>6, <2>1
  <2>3. (b + 1) * w \in Nat
    <3> HIDE DEF w, b
    <3> QED  BY <1>2, <1>6
  <2> HIDE DEF w, b, a, i
  <2>4. a < PastWord(f, i)  BY <1>2, <1>3, <1>4, <1>5
  <2> QED  BY <1>2, <1>5, <2>2, <2>3, <2>4
<1>8. b * w <= a
  <2>1. a >= h.high * s
    <3>1. FirstWord(f, i) = h.high * s + f[i].address  BY <1>4 DEF FirstWord
    <3>2. h.high * s \in Nat  BY <1>2, <1>5
    <3> DEFINE z == h.high * s
               y == f[i].address
               x == FirstWord(f, i)
    <3>3. z \in Nat /\ y \in Nat /\ h.index \in Nat /\ x = z + y /\ a = x + h.index
      BY <1>3, <1>4, <1>5, <3>1, <3>2
    <3> HIDE DEF z, y, x, a
    <3>4. a >= z  BY <3>3
    <3> QED  BY <3>4 DEF z
  <2>2. b * w = (2 * b) * s
    <3> HIDE DEF b, s, w
    <3> QED  BY <1>2, <1>6
  <2>3. (2 * b) * s <= h.high * s
    <3> DEFINE z == 2 * b
               y == h.high
    <3>1. z \in Nat /\ y \in Nat /\ z <= y  BY <1>5, <1>6
    <3> HIDE DEF z, y, s
    <3>2. PICK k \in Nat : y = z + k  BY <3>1
    <3>3. k * s \in Nat /\ z * s \in Nat /\ y * s = z * s + k * s  BY <1>2, <3>1, <3>2
    <3>4. z * s <= y * s  BY <3>3
    <3> QED  BY <3>4 DEF z, y
  <2>4. b * w \in Nat /\ h.high * s \in Nat
    <3> DEFINE y == h.high
    <3>1. y \in Nat  BY <1>5
    <3> HIDE DEF b, s, w, y
    <3>2. b * w \in Nat  BY <1>2, <1>6, Product
    <3>3. y * s \in Nat  BY <1>2, <3>1, Product
    <3> QED  BY <3>2, <3>3 DEF y
  <2> DEFINE u == h.high * s
             v == b * w
             z == (2 * b) * s
  <2>5. u \in Nat /\ v \in Nat /\ a >= u /\ v = z /\ z <= u  BY <2>1, <2>2, <2>3, <2>4
  <2> HIDE DEF u, v, z, a
  <2>6. v <= a  BY <1>2, <2>5
  <2> QED  BY <2>6 DEF v
<1>9. p \in Nat /\ p <= a /\ a < p + n  BY <1>1, <1>2, PageBounds
<1>10. PageOf(p, n) = p
  <2>1. p \in p .. p + n - 1  BY <1>1, <1>9
  <2> QED  BY <1>1, <1>2, <2>1, SamePage
<1>11. b * w <= p
  <2>1. CASE w % n = 0
    <3>1. w % n = 0  BY <2>1
    <3> HIDE DEF w, a, b
    <3> QED  BY <1>1, <1>2, <1>6, <1>8, <3>1, PageInBank DEF a
  <2>2. CASE InFirstBank(f)
    <3>1. h.high < 2  BY <1>4, <2>2 DEF InFirstBank
    <3>2. b = 0
      <4> HIDE DEF b
      <4> QED  BY <1>5, <1>6, <3>1
    <3>3. b * w = 0
      <4> HIDE DEF w
      <4> QED  BY <1>2, <3>2
    <3> QED  BY <1>9, <3>3
  <2> QED  BY <2>1, <2>2
<1>12. p < b * w + w
  <2>1. (b + 1) * w = b * w + w
    <3> HIDE DEF b, w
    <3> QED  BY <1>2, <1>6, Product
  <2> DEFINE v == b * w
  <2>2. v \in Nat /\ a < v + w
    <3>1. a < v + w  BY <1>7, <2>1
    <3> HIDE DEF b, w
    <3>2. v \in Nat  BY <1>2, <1>6, Product
    <3> QED  BY <3>1, <3>2 DEF w
  <2> HIDE DEF v, w, a
  <2>3. p < v + w  BY <1>2, <1>9, <2>2
  <2> QED  BY <2>3 DEF v
<1> QED  BY <1>6, <1>9, <1>10, <1>11, <1>12 DEF InBank
(* The words the reader has in hand begin with this one.                   *)
LEMMA HandWord ==
  ASSUME NEW f \in Seq(Record), NEW h \in Reader, Standing(f, h), InHand(h)
  PROVE  /\ h.pos - 1 \in DataRecords(f) /\ h.index + 1 \in WordOf(f, h.pos - 1)
         /\ Address(f, h.pos - 1, h.index + 1) = WordAddress(h)
         /\ \A g \in Reader : Past(h, g) => Passed(g, h.pos - 1, h.index + 1)
<1> DEFINE i == h.pos - 1
<1>1. /\ h.type = "data" /\ h.index < Len(h.words) /\ h.index \in Nat /\ h.words \in Seq(Nat)
      /\ h.pos \in Nat
  BY DEF InHand, Reader
<1>2. i \in DataRecords(f) /\ h.words = f[i].words /\ WordAddress(h) = FirstWord(f, i) + h.index
  BY <1>1, StandingData
<1>3. FirstWord(f, i) \in Nat  BY <1>2, RecordWords
<1>4. h.index + 1 \in WordOf(f, i)  BY <1>1, <1>2 DEF WordOf
<1>5. Address(f, i, h.index + 1) = WordAddress(h)  BY <1>1, <1>2, <1>3 DEF Address
<1>6. ASSUME NEW g \in Reader, Past(h, g) PROVE Passed(g, i, h.index + 1)
  <2>1. g.pos \in Nat /\ g.index \in Nat  BY DEF Reader
  <2> QED  BY <1>1, <1>6, <2>1 DEF Past, Passed
<1> QED  BY <1>2, <1>4, <1>5, <1>6

(* A loaded page is what the file says of its addresses, and the reader    *)
(* has passed what is before the end of the page.                          *)
PageRight(f, p, d) == \A j \in 1 .. Len(d) : Right(f, p + j - 1, d[j])
Split(f, h, a) ==
  \A i \in DataRecords(f) : \A k \in WordOf(f, i) : Passed(h, i, k) <=> Address(f, i, k) < a
Fresh(f, h, a) ==
  \A i \in DataRecords(f) : \A k \in WordOf(f, i) : Passed(h, i, k) => Address(f, i, k) < a

(* LoadPageFromSD() on a loadable file succeeds with a full page: each of  *)
(* its words is the one the file has for that address, padding where it    *)
(* has none, and the words of the file that the reader has passed are      *)
(* exactly those below the end of the page.                                *)
THEOREM FullPage ==
  ASSUME NEW f \in Seq(Record), NEW h, Placed(h), Standing(f, h), InHand(h), NEW n \in Nat \ {0},
         Loadable(f, n), NEW p, p = PageOf(WordAddress(h), n), Fresh(f, h, p),
         NEW l, l = LoadPageFromSD(f, h, n)
  PROVE  /\ l \in Page(n) /\ l.ok /\ Len(l.data) = n /\ PageRight(f, p, l.data)
         /\ Filling(f, h, n, l) /\ Past(h, l.hex) /\ Split(f, l.hex, p + n)
<1> DEFINE x == l.hex
           d == l.data
<1>1. l \in Page(n) /\ Makes(f, h, n, l) /\ Len(d) = n  BY LoadsPage
<1>2. l.ok /\ Filling(f, h, n, l) /\ Past(h, x) /\ Made(f, p, d)  BY <1>1 DEF Makes
<1>3. x \in Reader /\ Placed(x) /\ h \in Reader  BY <1>1 DEF Page, Placed
<1>4. WordAddress(h) \in Nat /\ WordAddress(x) \in Nat  BY <1>3, WordAddressType
<1>5. p \in Nat /\ p <= WordAddress(h) /\ WordAddress(h) < p + n  BY <1>4, PageBounds
<1>6. Ascending(f) /\ Orderly(f) /\ (BankWords % n = 0 \/ InFirstBank(f))  BY DEF Loadable
<1>7. Standing(f, x) /\ x.type \in {"data", "eof"}  BY <1>2 DEF Filling
<1>8. ASSUME NEW i \in DataRecords(f), NEW k \in WordOf(f, i), Passed(x, i, k)
      PROVE  /\ Address(f, i, k) < p + n
             /\ Address(f, i, k) >= p => d[Address(f, i, k) - p + 1] = f[i].words[k]
  <2>1. Passed(h, i, k) \/ Holds(f, p, d, i, k)  BY <1>2, <1>8 DEF Filling
  <2>2. Address(f, i, k) \in Nat /\ FirstWord(f, i) \in Nat /\ k \in Nat /\ n \in Nat  BY WordPlace
  <2>3. CASE Passed(h, i, k)
    <3>1. Address(f, i, k) < p  BY <2>3 DEF Fresh
    <3> QED  BY <1>5, <2>2, <3>1
  <2>4. CASE Holds(f, p, d, i, k)
    <3> DEFINE a == FirstWord(f, i) + k - p
    <3>1. a \in 1 .. n /\ d[a] = f[i].words[k]  BY <1>1, <2>4 DEF Holds
    <3>2. a = Address(f, i, k) - p + 1  BY <1>5, <2>2, SMTT(40) DEF Address
    <3>3. Address(f, i, k) < p + n  BY <1>5, <2>2, <3>1, <3>2
    <3> QED  BY <3>1, <3>2, <3>3
  <2> QED  BY <2>1, <2>3, <2>4
<1>9. ASSUME NEW i \in DataRecords(f), NEW k \in WordOf(f, i), Address(f, i, k) < p + n
      PROVE  Passed(x, i, k)
  <2> DEFINE a == Address(f, i, k)
  <2>1. CASE x.type = "eof"  BY <1>3, <1>6, <1>7, <2>1, PassedAll
  <2>2. CASE x.type = "data"
    <3>1. Passed(x, i, k) <=> a < WordAddress(x)  BY <1>3, <1>6, <1>7, <2>2, PassedAddress
    <3>2. \/ WordAddress(x) = p + n
          \/ InHand(x) /\ (PageOf(WordAddress(x), n) # p \/ Bank(x) # Bank(h))
      BY <1>1, <1>2, <2>2 DEF Filling
    <3>3. CASE WordAddress(x) = p + n  BY <1>9, <3>1, <3>3
    <3>4. CASE InHand(x) /\ (PageOf(WordAddress(x), n) # p \/ Bank(x) # Bank(h))
      <4> SUFFICES ASSUME ~(a < WordAddress(x)) PROVE FALSE  BY <3>1
      <4> DEFINE b == h.pos - 1
                 e == h.index + 1
      <4>1. /\ b \in DataRecords(f) /\ e \in WordOf(f, b) /\ Address(f, b, e) = WordAddress(h)
            /\ Passed(x, b, e)
        BY <1>2, <1>3, HandWord
      <4> HIDE DEF b, e
      <4>2. WordAddress(h) < WordAddress(x)
        BY <1>3, <1>6, <1>7, <2>2, <4>1, PassedAddress
      <4>3. a \in Nat  BY WordPlace
      <4>4. WordAddress(x) \in p .. p + n - 1  BY <1>4, <1>5, <1>9, <4>2, <4>3
      <4>5. PageOf(WordAddress(x), n) = p  BY <1>4, <4>4, SamePage
      <4>6. InBank(p, Bank(x))  BY <1>3, <1>6, <1>7, <3>4, <4>5, PageStands
      <4>7. InBank(p, Bank(h))  BY <1>3, <1>6, PageStands
      <4>8. Bank(x) = Bank(h)  BY <1>5, <4>6, <4>7, OneBank
      <4> QED  BY <3>4, <4>5, <4>8
    <3> QED  BY <3>2, <3>3, <3>4
  <2> QED  BY <1>7, <2>1, <2>2
<1>10. ASSUME NEW j \in 1 .. n PROVE Right(f, p + j - 1, d[j])
  <2> DEFINE a == p + j - 1
  <2>1. a \in Nat /\ a < p + n /\ a >= p /\ a - p + 1 = j  BY <1>5
  <2>2. d[j] = Erased \/ <<a, d[j]>> \in Contents(f)  BY <1>1, <1>2 DEF Made
  <2> HIDE DEF a
  <2>3. ASSUME NEW c \in Contents(f), c[1] = a PROVE <<a, d[j]>> \in Contents(f)
    <3>1. PICK i \in DataRecords(f) : \E k \in WordOf(f, i) : c = <<Address(f, i, k), f[i].words[k]>>
      BY ContentWords
    <3>2. PICK k \in WordOf(f, i) : c = <<Address(f, i, k), f[i].words[k]>>  BY <3>1
    <3>3. Address(f, i, k) = a  BY <2>3, <3>2
    <3>4. Passed(x, i, k)  BY <1>9, <2>1, <3>3
    <3>5. d[a - p + 1] = f[i].words[k]  BY <1>8, <2>1, <3>3, <3>4
    <3>6. d[j] = f[i].words[k]  BY <2>1, <3>5
    <3> QED  BY <3>2, <3>3, <3>6
  <2>4. Right(f, a, d[j])  BY <2>2, <2>3 DEF Right
  <2> QED  BY <2>4 DEF a
<1>11. PageRight(f, p, d)  BY <1>1, <1>10 DEF PageRight
<1>12. Split(f, x, p + n)  BY <1>8, <1>9 DEF Split
<1> QED  BY <1>1, <1>2, <1>11, <1>12

-----------------------------------------------------------------------------
(* Before the first record nothing has been passed.                        *)
LEMMA NothingPassed ==
  ASSUME NEW f \in Seq(Record)
  PROVE  Split(f, Rewind, 0)
<1> SUFFICES ASSUME NEW i \in DataRecords(f), NEW k \in WordOf(f, i)
             PROVE  Passed(Rewind, i, k) <=> Address(f, i, k) < 0
  BY DEF Split
<1>1. ~Passed(Rewind, i, k)  BY PassedNone
<1>2. Address(f, i, k) \in Nat  BY WordPlace
<1> QED  BY <1>1, <1>2

(* The record in hand is used up: there is a next one, or the end.         *)
LEMMA NextInHand ==
  ASSUME NEW f \in Seq(Record), Complete(f), NEW g, Placed(g), Standing(f, g),
         g.index = Len(g.words), g.type # "eof", NEW h, h = LoadNextDataRecord(f, g)
  PROVE  /\ Placed(h) /\ Standing(f, h) /\ h.type # "invalid" /\ (InHand(h) \/ h.type = "eof")
         /\ \A b : Split(f, g, b) => Split(f, h, b)
<1>1. g \in Reader /\ g.pos \in Nat /\ Len(f) \in Nat  BY DEF Placed, Reader
<1>2. g.high = HighAt(f, g.pos)  BY HighFirst DEF Standing, Rewind
<1>3. g.pos <= Len(f)
  <2>1. f # <<>> /\ f[Len(f)].type = "eof"  BY DEF Complete
  <2>2. CASE g = Rewind
    <3>1. g.pos = 1  BY <2>2 DEF Rewind
    <3>2. Len(f) # 0  BY <2>1
    <3> QED  BY <1>1, <3>1, <3>2
  <2>3. CASE g # Rewind
    <3>1. g.pos \in 2 .. Len(f) + 1 /\ f[g.pos - 1].type = "data"  BY <2>3 DEF Standing
    <3>2. g.pos - 1 # Len(f)  BY <2>1, <3>1
    <3> QED  BY <1>1, <3>1, <3>2
  <2> QED  BY <2>2, <2>3
<1>4. Onward(f, g, h)  BY <1>1, <1>2, <1>3, NextDataValid
<1>5. h.type \in {"data", "eof"} /\ Standing(f, h) /\ h.pos \in g.pos + 1 .. Len(f) + 1
  BY <1>4 DEF Onward
<1>6. /\ Placed(h) /\ (h.type = "data" => InHand(h))
      /\ \A i \in DataRecords(f) : \A k \in WordOf(f, i) : Passed(h, i, k) => Passed(g, i, k)
  <2>1. h.type # "invalid"  BY <1>5
  <2> QED  BY <1>1, <2>1, Neighbour
<1>7. ASSUME NEW i \in DataRecords(f), NEW k, Passed(g, i, k) PROVE Passed(h, i, k)
  <2>1. i \in Nat  BY DEF DataRecords
  <2> QED  BY <1>1, <1>5, <1>7, <2>1 DEF Passed
<1>8. ASSUME NEW b, Split(f, g, b) PROVE Split(f, h, b)
  BY <1>6, <1>7, <1>8 DEF Split
<1> QED  BY <1>5, <1>6, <1>8

(* The word in hand lies behind what has been passed: so does its page.    *)
LEMMA NextPage ==
  ASSUME NEW f \in Seq(Record), Ascending(f), NEW h, Placed(h), Standing(f, h), InHand(h),
         NEW n \in Nat \ {0}, NEW b \in Nat, PageOf(b, n) = b, Split(f, h, b),
         NEW p, p = PageOf(WordAddress(h), n)
  PROVE  /\ p \in Nat /\ b <= p /\ PageOf(p, n) = p /\ Split(f, h, p)
         /\ \A c \in Contents(f) : c[1] \in Nat /\ (c[1] < b \/ c[1] >= p)
<1> DEFINE w == WordAddress(h)
<1>1. h \in Reader /\ h.type = "data"  BY DEF Placed, InHand
<1>2. w \in Nat  BY <1>1, WordAddressType
<1>3. p \in Nat /\ p <= w /\ w < p + n /\ p = PageOf(w, n)  BY <1>2, PageBounds
<1>4. w >= b
  <2> SUFFICES ASSUME ~(w >= b) PROVE FALSE  OBVIOUS
  <2> DEFINE i == h.pos - 1
             k == h.index + 1
  <2>1. i \in DataRecords(f) /\ k \in WordOf(f, i) /\ Address(f, i, k) = w  BY <1>1, HandWord
  <2> HIDE DEF i, k, w
  <2>2. Passed(h, i, k) <=> Address(f, i, k) < w  BY <1>1, <2>1, PassedAddress DEF w
  <2>3. Passed(h, i, k)  BY <1>2, <2>1 DEF Split
  <2> QED  BY <1>2, <2>1, <2>2, <2>3
<1>5. b <= p /\ PageOf(p, n) = p
  <2> HIDE DEF w
  <2>1. PageOf(p, n) = p
    <3>1. p \in PageOf(w, n) .. PageOf(w, n) + n - 1  BY <1>3
    <3> QED  BY <1>2, <1>3, <3>1, SamePage
  <2>2. b <= p
    <3>1. ASSUME p < b PROVE FALSE
      <4>1. w \in b .. b + n - 1  BY <1>2, <1>3, <1>4, <3>1
      <4>2. PageOf(w, n) = b  BY <1>2, <4>1, SamePage
      <4> QED  BY <1>3, <3>1, <4>2
    <3> QED  BY <1>3, <3>1
  <2> QED  BY <2>1, <2>2
<1>6. ASSUME NEW i \in DataRecords(f), NEW k \in WordOf(f, i)
      PROVE  /\ Address(f, i, k) \in Nat
             /\ Address(f, i, k) < b \/ Address(f, i, k) >= p
             /\ Passed(h, i, k) <=> Address(f, i, k) < p
  <2> DEFINE a == Address(f, i, k)
  <2>1. a \in Nat  BY WordPlace
  <2>2. Passed(h, i, k) <=> a < w  BY <1>1, PassedAddress
  <2>3. Passed(h, i, k) <=> a < b  BY DEF Split
  <2> HIDE DEF a, w
  <2> QED  BY <1>2, <1>3, <1>5, <2>1, <2>2, <2>3 DEF a
<1>7. ASSUME NEW c \in Contents(f) PROVE c[1] \in Nat /\ (c[1] < b \/ c[1] >= p)
  <2>1. PICK i \in DataRecords(f) : \E k \in WordOf(f, i) : c = <<Address(f, i, k), f[i].words[k]>>
    BY ContentWords
  <2>2. PICK k \in WordOf(f, i) : c = <<Address(f, i, k), f[i].words[k]>>  BY <2>1
  <2>3. c[1] = Address(f, i, k)  BY <2>2
  <2> QED  BY <1>6, <2>3
<1>8. Split(f, h, p)  BY <1>6 DEF Split
<1> QED  BY <1>3, <1>5, <1>7, <1>8

(* At the end record all has been passed.                                  *)
LEMMA EndPassed ==
  ASSUME NEW f \in Seq(Record), Orderly(f), NEW h \in Reader, Standing(f, h), h.type = "eof",
         NEW b, Split(f, h, b)
  PROVE  \A c \in Contents(f) : c[1] \in Nat /\ c[1] < b
<1> SUFFICES ASSUME NEW c \in Contents(f) PROVE c[1] \in Nat /\ c[1] < b  OBVIOUS
<1>1. PICK i \in DataRecords(f) : \E k \in WordOf(f, i) : c = <<Address(f, i, k), f[i].words[k]>>
  BY ContentWords
<1>2. PICK k \in WordOf(f, i) : c = <<Address(f, i, k), f[i].words[k]>>  BY <1>1
<1>3. Passed(h, i, k)  BY PassedAll
<1>4. Address(f, i, k) < b  BY <1>3 DEF Split
<1>5. Address(f, i, k) \in Nat  BY WordPlace
<1> QED  BY <1>2, <1>4, <1>5

-----------------------------------------------------------------------------
(* A session.                                                              *)

PageSize == {FlashPage, EepromPage, SerialPage}
Modifier == {"FuseWritten", "FuseWriteResponse", "FuseVerified"}
SessionField ==
  {"stage", "modifier", "error", "handler", "onSync", "retries", "hex", "page", "words", "bank",
   "spi", "out", "in", "timing"}

Session(s) ==
  /\ DOMAIN s = SessionField
  /\ s.stage \in Stage /\ s.error \in Error /\ s.modifier \subseteq Modifier
  /\ s.handler \in Handler /\ s.onSync \in Handler \ {"GetSync"}
  /\ s.retries \in 0 .. SyncRetries
  /\ Placed(s.hex) /\ s.words \in PageSize

(* The handler that is called once in sync.                                *)
Waited(s) == IF s.handler = "GetSync" THEN s.onSync ELSE s.handler

FileStep == {"ProcessPage", "LoadAddress", "LoadExtAddress"}
FuseStage == {"VerifyExtendedFuse", "VerifyHighFuse", "VerifyLowFuse"}
HasFile(j) == j.file \in DOMAIN File

(* That handler has what it needs: a fuse to look at, a file to read.      *)
Fits(s, j) ==
  /\ Waited(s) = "VerifyFuse" => s.stage \in FuseStage
  /\ Waited(s) \in FileStep => HasFile(j)

(* A command both targets know, TruncatedCmd is none.                      *)
Instruction == {"chipErase", "readLock", "writeLock", "readFuse", "writeFuse", "loadExt"}
CommandName ==
  {"GET_SYNC", "SET_DEVICE", "SET_DEVICE_EXT", "ENTER_PROGMODE", "LEAVE_PROGMODE", "LOAD_ADDRESS",
   "UNIVERSAL", "PROG_PAGE", "READ_PAGE", "READ_SIGN"}
Known(c) ==
  /\ c.cmd \in CommandName
  /\ c.cmd = "UNIVERSAL" => c.inst.op \in Instruction
  /\ c.cmd = "PROG_PAGE" => c.mem \in {"flash", "eeprom"} /\ DOMAIN c = {"cmd", "mem", "words"}
Sends(s) == s.out = <<>> \/ \E c : s.out = <<c>> /\ Known(c)

Good(s, j) == Session(s) /\ (s.error = "none" => Fits(s, j) /\ Sends(s))

LEMMA SendGood ==
  ASSUME NEW s, Session(s), NEW j, NEW h \in Handler \ {"GetSync"}, NEW c, Known(c),
         h = "VerifyFuse" => s.stage \in FuseStage, h \in FileStep => HasFile(j)
  PROVE  Good(Send(s, h, c), j)
<1> DEFINE t == Send(s, h, c)
<1>1. /\ DOMAIN t = SessionField /\ t.out = <<c>> /\ t.handler = h
      /\ t.stage = s.stage /\ t.error = s.error /\ t.modifier = s.modifier /\ t.onSync = s.onSync
      /\ t.retries = s.retries /\ t.hex = s.hex /\ t.words = s.words
  BY DEF Session, SessionField, Send
<1> HIDE DEF t
<1> QED  BY <1>1 DEF Session, Good, Fits, Sends, Waited, t

LEMMA SendGetSyncGood ==
  ASSUME NEW s, NEW j, Good(s, j)
  PROVE  Good(SendGetSync(s), j) /\ Waited(SendGetSync(s)) = Waited(s)
         /\ SendGetSync(s).stage = s.stage /\ SendGetSync(s).error = s.error
         /\ SendGetSync(s).out = <<GetSyncCmd>> /\ SendGetSync(s).in = s.in
<1> DEFINE t == SendGetSync(s)
<1>1. /\ DOMAIN t = SessionField /\ t.out = <<GetSyncCmd>> /\ t.handler = "GetSync"
      /\ t.onSync = (IF s.handler = "GetSync" THEN s.onSync ELSE s.handler)
      /\ t.stage = s.stage /\ t.error = s.error /\ t.modifier = s.modifier
      /\ t.retries = s.retries /\ t.hex = s.hex /\ t.words = s.words /\ t.in = s.in
  BY DEF Good, Session, SessionField, Send, SendGetSync
<1>2. Known(GetSyncCmd)  BY DEF Known, GetSyncCmd, CommandName
<1>3. "GetSync" \in Handler  BY DEF Handler
<1> HIDE DEF t
<1>4. Session(t)  BY <1>1, <1>3 DEF Good, Session
<1>5. Waited(t) = Waited(s)  BY <1>1 DEF Waited
<1> QED  BY <1>1, <1>2, <1>4, <1>5 DEF Good, Fits, Sends, t

LEMMA ReadGood ==
  ASSUME NEW s, NEW j, Good(s, j)
  PROVE  Good(Read(s), j) /\ Waited(Read(s)) = Waited(s) /\ Read(s).handler = s.handler
         /\ Read(s).stage = s.stage /\ Read(s).error = s.error /\ Read(s).out = s.out
<1> DEFINE t == Read(s)
<1>1. /\ DOMAIN t = SessionField /\ t.out = s.out /\ t.handler = s.handler
      /\ t.onSync = s.onSync
      /\ t.stage = s.stage /\ t.error = s.error /\ t.modifier = s.modifier
      /\ t.retries = s.retries /\ t.hex = s.hex /\ t.words = s.words
  BY DEF Good, Session, SessionField, Read
<1> HIDE DEF t
<1> QED  BY <1>1 DEF Good, Session, Fits, Sends, Waited, t

LEMMA FailGood ==
  ASSUME NEW s, Session(s), NEW j, NEW e \in Error \ {"none"}
  PROVE  Good(Fail(s, e), j) /\ Fail(s, e).error = e
<1> DEFINE t == Fail(s, e)
<1>1. /\ DOMAIN t = SessionField /\ t.error = e /\ t.handler = s.handler /\ t.onSync = s.onSync
      /\ t.stage = s.stage /\ t.modifier = s.modifier
      /\ t.retries = s.retries /\ t.hex = s.hex /\ t.words = s.words
  BY DEF Session, SessionField, Fail
<1> HIDE DEF t
<1> QED  BY <1>1 DEF Good, Session, t

(* Fields that handlers set before they send.                              *)
LEMMA StageSession ==
  ASSUME NEW s, Session(s), NEW st \in Stage, NEW m, m \subseteq Modifier
  PROVE  /\ Session([s EXCEPT !.stage = st, !.modifier = m])
         /\ Session([s EXCEPT !.modifier = m])
         /\ Session([s EXCEPT !.stage = st])
         /\ [s EXCEPT !.stage = st, !.modifier = m].stage = st
         /\ [s EXCEPT !.modifier = m].stage = s.stage
BY DEF Session, SessionField

LEMMA HexSession ==
  ASSUME NEW s, Session(s), NEW h, Placed(h)
  PROVE  LET t == [s EXCEPT !.hex = h]
         IN /\ Session(t) /\ t.hex = h /\ t.error = s.error /\ t.stage = s.stage
            /\ t.handler = s.handler /\ t.onSync = s.onSync /\ t.out = s.out /\ t.words = s.words
BY DEF Session, SessionField

LEMMA CommandsKnown ==
  /\ \A n : Known(SetDeviceCmd(n)) /\ Known(SetDeviceExtCmd(n)) /\ Known(LoadAddressCmd(n))
  /\ Known(EnterProgModeCmd) /\ Known(LeaveProgModeCmd) /\ Known(ReadSignCmd) /\ Known(GetSyncCmd)
  /\ Known(UniversalCmd([op |-> "chipErase"])) /\ Known(UniversalCmd([op |-> "readLock"]))
  /\ Known(UniversalCmd([op |-> "writeLock"]))
  /\ \A b : Known(UniversalCmd([op |-> "loadExt", bank |-> b]))
  /\ \A x : Known(UniversalCmd([op |-> "readFuse", fuse |-> x]))
            /\ Known(UniversalCmd([op |-> "writeFuse", fuse |-> x]))
  /\ \A m \in {"flash", "eeprom"} : \A n : Known(ProgPageCmd(m, n)) /\ Known(ReadPageCmd(m, n))
<1> USE DEF Known, CommandName, Instruction
<1>1. \A n : Known(SetDeviceCmd(n)) /\ Known(SetDeviceExtCmd(n)) /\ Known(LoadAddressCmd(n))
  BY DEF SetDeviceCmd, SetDeviceExtCmd, LoadAddressCmd
<1>2. Known(EnterProgModeCmd) /\ Known(LeaveProgModeCmd) /\ Known(ReadSignCmd) /\ Known(GetSyncCmd)
  BY DEF EnterProgModeCmd, LeaveProgModeCmd, ReadSignCmd, GetSyncCmd
<1>3. \A i : i.op \in Instruction => Known(UniversalCmd(i))
  BY DEF UniversalCmd
<1>4. \A m \in {"flash", "eeprom"} : \A n : Known(ProgPageCmd(m, n)) /\ Known(ReadPageCmd(m, n))
  BY DEF ProgPageCmd, ReadPageCmd
<1> QED  BY <1>1, <1>2, <1>3, <1>4

(* The handlers called with false that send one command.                   *)
LEMMA SendsGood ==
  ASSUME NEW s, Session(s), NEW j
  PROVE  /\ Good(SendSetDevice(s), j) /\ Good(SendSetDeviceExt(s), j)
         /\ Good(SendEnterProgramMode(s), j) /\ Good(SendLeaveProgramMode(s), j)
         /\ Good(SendReadSignature(s), j) /\ Good(SendChipErase(s), j)
         /\ Good(SendVerifyUnlocked(s), j) /\ Good(SendVerifyLockBits(s), j)
         /\ s.stage \in FuseStage => Good(SendVerifyFuse(s), j)
         /\ HasFile(j) => Good(SendLoadAddress(s), j) /\ Good(SendLoadExtAddress(s), j)
<1> DEFINE Plain == Handler \ ({"GetSync", "VerifyFuse"} \cup FileStep)
<1>1. \A h \in Plain : \A c : Known(c) => Good(Send(s, h, c), j)
  BY SendGood DEF Handler
<1>2. {"SetDevice", "SetDeviceExt", "EnterProgramMode", "LeaveProgramMode", "ReadSignature",
       "ChipErase", "VerifyUnlocked", "VerifyLockBits"} \subseteq Plain
  BY DEF Handler, FileStep
<1>3. \A c : Known(c) /\ s.stage \in FuseStage => Good(Send(s, "VerifyFuse", c), j)
  BY SendGood DEF Handler, FileStep
<1>4. \A h \in FileStep : \A c : Known(c) /\ HasFile(j) => Good(Send(s, h, c), j)
  BY SendGood DEF Handler, FileStep
<1> HIDE DEF Plain
<1>5. Good(SendSetDevice(s), j) /\ Good(SendSetDeviceExt(s), j)
  BY <1>1, <1>2, CommandsKnown DEF SendSetDevice, SendSetDeviceExt
<1>6. Good(SendEnterProgramMode(s), j) /\ Good(SendLeaveProgramMode(s), j) /\ Good(SendReadSignature(s), j)
  BY <1>1, <1>2, CommandsKnown DEF SendEnterProgramMode, SendLeaveProgramMode, SendReadSignature
<1>7. Good(SendChipErase(s), j) /\ Good(SendVerifyUnlocked(s), j) /\ Good(SendVerifyLockBits(s), j)
  BY <1>1, <1>2, CommandsKnown DEF SendChipErase, SendVerifyUnlocked, SendVerifyLockBits
<1>8. s.stage \in FuseStage => Good(SendVerifyFuse(s), j)
  BY <1>3, CommandsKnown DEF SendVerifyFuse
<1>9. HasFile(j) => Good(SendLoadAddress(s), j) /\ Good(SendLoadExtAddress(s), j)
  BY <1>4, CommandsKnown DEF SendLoadAddress, SendLoadExtAddress, FileStep
<1> QED  BY <1>5, <1>6, <1>7, <1>8, <1>9

LEMMA VerifyLocksGood ==
  ASSUME NEW s, Session(s), NEW j
  PROVE  Good(VerifyLocks(s), j)
BY StageSession, SendsGood DEF VerifyLocks, Stage

LEMMA FinishedGood ==
  ASSUME NEW s, Session(s), NEW j
  PROVE  Good(Finished(s), j)
BY VerifyLocksGood, SendsGood DEF Finished

-----------------------------------------------------------------------------
(* ProcessPage().                                                          *)

LEMMA FileType ==
  ASSUME HasFile(job)
  PROVE  TheFile \in Seq(Record)
BY FileAssumption DEF HasFile, TheFile

LEMMA WithRecordGood ==
  ASSUME NEW s, Good(s, job), HasFile(job), s.error = "none"
  PROVE  LET t == WithRecord(s)
         IN /\ Good(t, job) /\ t.error \in {"none", "LoadHexData"}
            /\ t.stage = s.stage /\ t.handler = s.handler /\ t.onSync = s.onSync
<1> DEFINE h == LoadNextDataRecord(TheFile, s.hex)
           u == [s EXCEPT !.hex = h]
           W(x) == IF x.type = "invalid" THEN Fail([s EXCEPT !.hex = x], "LoadHexData")
                   ELSE [s EXCEPT !.hex = x]
<1>1. With(h, W) = W(h)
  <2> HIDE DEF W
  <2> QED  BY Zenon DEF With
<1>2. Session(s)  BY DEF Good
<1>3. Placed(h)  BY <1>2, FileType, NextDataType DEF Session, Placed
<1> HIDE DEF h
<1>4. Session(u) /\ u.error = s.error /\ u.stage = s.stage /\ u.handler = s.handler
      /\ u.onSync = s.onSync /\ u.out = s.out
  BY <1>2, <1>3, HexSession
<1> HIDE DEF u
<1>5. Good(u, job)  BY <1>4 DEF Good, Fits, Sends, Waited
<1>6. Good(Fail(u, "LoadHexData"), job) /\ Fail(u, "LoadHexData").error = "LoadHexData"
  BY <1>4, FailGood DEF Error
<1>7. /\ Fail(u, "LoadHexData").stage = s.stage /\ Fail(u, "LoadHexData").handler = s.handler
      /\ Fail(u, "LoadHexData").onSync = s.onSync
  BY <1>4 DEF Fail
<1>8. W(h) = u \/ W(h) = Fail(u, "LoadHexData")  BY DEF u
<1>9. WithRecord(s) = s \/ WithRecord(s) = W(h)
  <2> HIDE DEF W
  <2>1. WithRecord(s) = s \/ WithRecord(s) = With(h, W)  BY Zenon DEF WithRecord, W, h
  <2> QED  BY <1>1, <2>1
<1> HIDE DEF W
<1> QED  BY <1>4, <1>5, <1>6, <1>7, <1>8, <1>9

LEMMA SendSession ==
  ASSUME NEW s, Session(s), NEW h \in Handler, NEW c
  PROVE  Session(Send(s, h, c))
<1> DEFINE t == Send(s, h, c)
<1>1. /\ DOMAIN t = SessionField /\ t.handler = h
      /\ t.stage = s.stage /\ t.error = s.error /\ t.modifier = s.modifier /\ t.onSync = s.onSync
      /\ t.retries = s.retries /\ t.hex = s.hex /\ t.words = s.words
  BY DEF Session, SessionField, Send
<1> HIDE DEF t
<1> QED  BY <1>1 DEF Session, t

(* LoadPageFromSD() as the session calls it.                               *)
LEMMA LoadedType ==
  ASSUME NEW s, Session(s), HasFile(job)
  PROVE  LET l == LoadPageFromSD(TheFile, s.hex, s.words)
         IN Placed(l.hex) /\ l.ok \in BOOLEAN /\ l.data \in Seq(Nat)
<1> DEFINE l == LoadPageFromSD(TheFile, s.hex, s.words)
<1>1. Placed(s.hex) /\ s.words \in Nat \ {0}  BY PageAssumption DEF Session, PageSize
<1>2. l \in Page(s.words)  BY <1>1, FileType, LoadPageType
<1> HIDE DEF l
<1> QED  BY <1>2 DEF Page, l

LEMMA SendPageGood ==
  ASSUME NEW s, Session(s), HasFile(job)
  PROVE  Good(SendPage(s), job)
<1> DEFINE l == LoadPageFromSD(TheFile, s.hex, s.words)
           t == [s EXCEPT !.hex = l.hex]
           W(x) == LET u == [s EXCEPT !.hex = x.hex] IN
                   IF x.ok THEN Send(u, "ProcessPage", ProgPageCmd(Memory, x.data))
                   ELSE Fail(Send(u, "ProcessPage", TruncatedCmd), "LoadHexData")
<1>1. With(l, W) = W(l)
  <2> HIDE DEF W
  <2> QED  BY Zenon DEF With
<1>2. SendPage(s) = IF Loading(s) THEN With(l, W) ELSE Send(s, "ProcessPage", ReadPageCmd(Memory, s.words))
  BY Zenon DEF SendPage
<1>3. Placed(l.hex)  BY LoadedType
<1>4. /\ "ProcessPage" \in Handler \ {"GetSync"} /\ "ProcessPage" \in FileStep
      /\ "LoadHexData" \in Error \ {"none"} /\ Memory \in {"flash", "eeprom"}
  BY DEF Handler, FileStep, Error, Memory
<1> HIDE DEF l
<1>5. Session(t)  BY <1>3, HexSession
<1>6. W(l) = IF l.ok THEN Send(t, "ProcessPage", ProgPageCmd(Memory, l.data))
             ELSE Fail(Send(t, "ProcessPage", TruncatedCmd), "LoadHexData")
  OBVIOUS
<1> HIDE DEF W, t
<1>7. Good(Send(t, "ProcessPage", ProgPageCmd(Memory, l.data)), job)
  BY <1>4, <1>5, CommandsKnown, SendGood
<1>8. Good(Send(s, "ProcessPage", ReadPageCmd(Memory, s.words)), job)
  BY <1>4, CommandsKnown, SendGood
<1>9. Good(Fail(Send(t, "ProcessPage", TruncatedCmd), "LoadHexData"), job)
  BY <1>4, <1>5, SendSession, FailGood
<1> QED  BY <1>1, <1>2, <1>6, <1>7, <1>8, <1>9

LEMMA SendPageOrAddressGood ==
  ASSUME NEW s, Session(s), HasFile(job)
  PROVE  Good(SendPageOrAddress(s), job)
<1>1. \A b : Session([s EXCEPT !.bank = b]) /\ Session([s EXCEPT !.page = b])
  BY DEF Session, SessionField
<1>2. \A b : Good(SendLoadExtAddress([s EXCEPT !.bank = b]), job) /\ Good(SendLoadAddress([s EXCEPT !.page = b]), job)
  BY <1>1, SendsGood
<1> QED  BY <1>2, SendPageGood DEF SendPageOrAddress

LEMMA FirstVerifiedGood ==
  ASSUME NEW s, Good(s, job), HasFile(job), s.error = "none", Loading(s)
  PROVE  Good(FirstVerified(s), job)
<1> DEFINE u == StartVerifying(s)
           t == WithRecord(u)
           W(x) == IF x.error # "none" THEN x
                   ELSE IF x.hex.type = "eof" THEN Finished(x) ELSE SendPageOrAddress(x)
<1>1. With(t, W) = W(t)
  <2> HIDE DEF W
  <2> QED  BY Zenon DEF With
<1>2. FirstVerified(s) = With(t, W)  BY Zenon DEF FirstVerified
<1>3. Good(u, job) /\ u.error = "none"
  <2>1. Session(s) /\ Waited(s) # "VerifyFuse" /\ Sends(s)
    BY DEF Good, Fits, Loading, FuseStage
  <2>2. /\ DOMAIN u = SessionField /\ u.error = "none" /\ u.hex = Rewind
        /\ u.stage \in {"VerifyingFlash", "VerifyingEEPROM"}
        /\ u.words = (IF job.serial THEN SerialPage ELSE s.words)
        /\ u.modifier = s.modifier /\ u.handler = s.handler /\ u.onSync = s.onSync
        /\ u.retries = s.retries /\ u.out = s.out
    BY <2>1 DEF StartVerifying, Session, SessionField
  <2> HIDE DEF u
  <2>3. Session(u)  BY <2>1, <2>2, RewindPlaced DEF Session, Stage, PageSize
  <2> QED  BY <2>1, <2>2, <2>3 DEF Good, Fits, Sends, Waited
<1> HIDE DEF u
<1>4. Good(t, job)  BY <1>3, WithRecordGood
<1>5. Session(t)  BY <1>4 DEF Good
<1> HIDE DEF t
<1>6. Good(W(t), job)  BY <1>4, <1>5, FinishedGood, SendPageOrAddressGood
<1> QED  BY <1>1, <1>2, <1>6

LEMMA EndOfFileGood ==
  ASSUME NEW s, Good(s, job), HasFile(job), s.error = "none"
  PROVE  Good(EndOfFile(s), job)
<1> DEFINE r == Read(s)
<1>1. With(r, FirstVerified) = FirstVerified(r)  BY Zenon DEF With
<1>2. ResponseStatusOK(s, FirstVerified) = IF StatusOK(s) THEN FirstVerified(r) ELSE SendGetSync(r)
  BY <1>1, Zenon DEF ResponseStatusOK
<1>3. Good(r, job) /\ r.error = "none" /\ r.stage = s.stage  BY ReadGood
<1> HIDE DEF r
<1>4. Good(SendGetSync(r), job)  BY <1>3, SendGetSyncGood
<1>5. Loading(s) => Good(FirstVerified(r), job)  BY <1>3, FirstVerifiedGood DEF Loading
<1>6. Good(Finished(s), job)  BY FinishedGood DEF Good
<1> QED  BY <1>2, <1>4, <1>5, <1>6 DEF EndOfFile

LEMMA SendProcessPageGood ==
  ASSUME NEW s, Good(s, job), HasFile(job), s.error = "none"
  PROVE  Good(SendProcessPage(s), job)
<1> DEFINE t == WithRecord(s)
           W(x) == IF x.error # "none" THEN x
                   ELSE IF x.hex.type = "eof" THEN EndOfFile(x) ELSE SendPageOrAddress(x)
<1>1. With(t, W) = W(t)
  <2> HIDE DEF W
  <2> QED  BY Zenon DEF With
<1>2. SendProcessPage(s) = With(t, W)  BY Zenon DEF SendProcessPage
<1>3. Good(t, job) /\ Session(t)  BY WithRecordGood DEF Good
<1> HIDE DEF t
<1>4. Good(W(t), job)  BY <1>3, EndOfFileGood, SendPageOrAddressGood
<1> QED  BY <1>1, <1>2, <1>4

LEMMA VerifiedPageGood ==
  ASSUME NEW s, Good(s, job), HasFile(job), s.error = "none"
  PROVE  Good(VerifiedPage(s), job)
<1> DEFINE l == LoadPageFromSD(TheFile, s.hex, s.words)
           t == [s EXCEPT !.hex = l.hex]
           W(x) == LET u == [s EXCEPT !.hex = x.hex] IN
                   IF ~x.ok THEN Fail(u, "LoadHexData")
                   ELSE IF Len(u.in) < s.words \/ SubSeq(u.in, 1, s.words) # x.data THEN Fail(u, "Verification")
                   ELSE [u EXCEPT !.in = SubSeq(@, s.words + 1, Len(@))]
<1>1. With(l, W) = W(l)
  <2> HIDE DEF W
  <2> QED  BY Zenon DEF With
<1>2. VerifiedPage(s) = With(l, W)  BY Zenon DEF VerifiedPage
<1>3. Placed(l.hex) /\ Session(s)  BY LoadedType DEF Good
<1> HIDE DEF l
<1>4. /\ Session(t) /\ t.error = s.error /\ t.stage = s.stage /\ t.handler = s.handler
      /\ t.onSync = s.onSync /\ t.out = s.out
  BY <1>3, HexSession
<1> HIDE DEF t
<1>5. Good(Fail(t, "LoadHexData"), job) /\ Good(Fail(t, "Verification"), job)
  BY <1>4, FailGood DEF Error
<1>6. \A v : Good([t EXCEPT !.in = v], job)
  <2> TAKE v
  <2> DEFINE w == [t EXCEPT !.in = v]
  <2>1. /\ DOMAIN w = SessionField /\ w.out = s.out /\ w.handler = s.handler
        /\ w.onSync = s.onSync /\ w.stage = s.stage /\ w.error = s.error
        /\ w.modifier = t.modifier /\ w.retries = t.retries /\ w.hex = t.hex /\ w.words = t.words
    BY <1>4 DEF Session, SessionField
  <2> HIDE DEF w
  <2>2. Session(w)  BY <1>4, <2>1 DEF Session
  <2>3. Good(w, job)  BY <2>1, <2>2 DEF Good, Fits, Sends, Waited
  <2> QED  BY <2>3 DEF w
<1>7. W(l) = Fail(t, "LoadHexData") \/ W(l) = Fail(t, "Verification") \/ \E v : W(l) = [t EXCEPT !.in = v]
  BY DEF t
<1> HIDE DEF W
<1> QED  BY <1>1, <1>2, <1>5, <1>6, <1>7

LEMMA OnProcessPageGood ==
  ASSUME NEW s, Good(s, job), HasFile(job), s.error = "none"
  PROVE  Good(OnProcessPage(s), job)
<1> DEFINE t == WithRecord(s)
           u == IF Verifying(t) THEN VerifiedPage(t) ELSE t
           X(y) == IF y.error # "none" THEN y ELSE ResponseStatusOK(y, SendProcessPage)
           W(x) == IF x.error # "none" THEN x
                   ELSE IF x.hex.type = "eof" THEN EndOfFile(x)
                   ELSE With(IF Verifying(x) THEN VerifiedPage(x) ELSE x, LAMBDA y :
                          IF y.error # "none" THEN y ELSE ResponseStatusOK(y, SendProcessPage))
<1>1. With(t, W) = W(t)
  <2> HIDE DEF W
  <2> QED  BY Zenon DEF With
<1>2. With(u, X) = X(u)
  <2> HIDE DEF X, u
  <2> QED  BY Zenon DEF With
<1>3. OnProcessPage(s) = With(t, W)  BY Zenon DEF OnProcessPage
<1>4. W(t) = IF t.error # "none" THEN t ELSE IF t.hex.type = "eof" THEN EndOfFile(t) ELSE With(u, X)
  BY Zenon
<1>5. Good(t, job)  BY WithRecordGood
<1> HIDE DEF W, t
<1>6. t.error = "none" => Good(u, job) /\ Good(EndOfFile(t), job)
  BY <1>5, VerifiedPageGood, EndOfFileGood
<1> HIDE DEF u
<1>7. t.error = "none" => Good(X(u), job)
  <2> DEFINE r == Read(u)
  <2>1. With(r, SendProcessPage) = SendProcessPage(r)  BY Zenon DEF With
  <2>2. ResponseStatusOK(u, SendProcessPage) = IF StatusOK(u) THEN SendProcessPage(r) ELSE SendGetSync(r)
    BY <2>1, Zenon DEF ResponseStatusOK
  <2>3. SUFFICES ASSUME t.error = "none", u.error = "none"
                 PROVE  Good(ResponseStatusOK(u, SendProcessPage), job)
    BY <1>6
  <2>4. Good(r, job) /\ r.error = "none"  BY <1>6, <2>3, ReadGood
  <2> HIDE DEF r
  <2> QED  BY <2>2, <2>4, SendProcessPageGood, SendGetSyncGood
<1> HIDE DEF X
<1> QED  BY <1>1, <1>2, <1>3, <1>4, <1>5, <1>6, <1>7

-----------------------------------------------------------------------------
(* The other handlers.                                                     *)

LEMMA InSyncGood ==
  ASSUME NEW s, Good(s, job), s.error = "none", s.handler = "GetSync"
  PROVE  Good(InSync(s), job)
<1> DEFINE u == [s EXCEPT !.retries = 0, !.handler = s.onSync]
<1>1. Session(s)  BY DEF Good
<1>2. /\ DOMAIN u = SessionField /\ u.out = s.out /\ u.handler = s.onSync
      /\ u.onSync = s.onSync /\ u.stage = s.stage /\ u.error = "none"
      /\ u.modifier = s.modifier /\ u.retries = 0 /\ u.hex = s.hex /\ u.words = s.words
  BY <1>1 DEF Session, SessionField
<1> HIDE DEF u
<1>3. Session(u)  BY <1>1, <1>2, BoundAssumption DEF Session
<1>4. Good(u, job)  BY <1>2, <1>3 DEF Good, Fits, Sends, Waited
<1>5. /\ u.onSync \in Handler \ {"GetSync"}
      /\ u.onSync = "VerifyFuse" => u.stage \in FuseStage
      /\ u.onSync \in FileStep => HasFile(job)
  BY <1>1, <1>2 DEF Good, Fits, Waited, Session
<1>6. InSync(s) = SendAgain(u)  BY DEF InSync, u
<1>7. Good(SendAgain(u), job)
  BY <1>2, <1>3, <1>4, <1>5, SendsGood, SendProcessPageGood DEF SendAgain, Handler, FileStep
<1> QED  BY <1>6, <1>7

LEMMA BegunHasFile ==
  ASSUME NEW j \in Job, Begins(j), NeedsFile(j)
  PROVE  HasFile(j)
BY JobAssumption DEF JobType, Begins, HasFile

LEMMA InProgramModeGood ==
  ASSUME NEW s, Good(s, job), s.error = "none", job \in Job, Begins(job)
  PROVE  Good(InProgramMode(s), job)
<1>1. Session(s)  BY DEF Good
<1>2. Good(SendVerifyUnlocked([s EXCEPT !.modifier = {}]), job)
  <2>1. Session([s EXCEPT !.modifier = {}])  BY <1>1, StageSession DEF Session
  <2> QED  BY <2>1, SendsGood
<1>3. Operation = "SetFusesAndBootloader" => Good(SendProcessPage([s EXCEPT !.spi = "fast"]), job)
  <2> DEFINE u == [s EXCEPT !.spi = "fast"]
  <2>1. /\ DOMAIN u = SessionField /\ u.out = s.out /\ u.handler = s.handler
        /\ u.onSync = s.onSync /\ u.stage = s.stage /\ u.error = s.error
        /\ u.modifier = s.modifier /\ u.retries = s.retries /\ u.hex = s.hex /\ u.words = s.words
    BY <1>1 DEF Session, SessionField
  <2> HIDE DEF u
  <2>2. Good(u, job)  BY <1>1, <2>1 DEF Good, Session, Fits, Sends, Waited
  <2>3. Operation = "SetFusesAndBootloader" => HasFile(job)
    BY BegunHasFile DEF Operation, NeedsFile
  <2>4. Operation = "SetFusesAndBootloader" => Good(SendProcessPage(u), job)
    BY <2>1, <2>2, <2>3, SendProcessPageGood
  <2> QED  BY <2>4 DEF u
<1>4. Good(SendReadSignature(s), job) /\ Good(VerifyLocks(s), job)  BY <1>1, SendsGood, VerifyLocksGood
<1> QED  BY <1>2, <1>3, <1>4 DEF InProgramMode

LEMMA ErasingGood ==
  ASSUME NEW s, Session(s), s.error = "none", s.handler # "VerifyFuse", Sends(s),
         s.handler # "GetSync", job \in Job, Begins(job)
  PROVE  Good(Erasing(s), job)
<1>1. Good(SendEnterProgramMode([s EXCEPT !.stage = "VerifyUnlocked"]), job)
  <2>1. Session([s EXCEPT !.stage = "VerifyUnlocked"])  BY StageSession DEF Stage, Session
  <2> QED  BY <2>1, SendsGood
<1>2. IsProgramming => HasFile(job)
  BY BegunHasFile DEF IsProgramming, Operation, NeedsFile
<1>3. ASSUME NEW st \in {"LoadingFlash", "LoadingEEPROM"}, IsProgramming
      PROVE  Good(SendProcessPage([s EXCEPT !.stage = st]), job)
  <2> DEFINE u == [s EXCEPT !.stage = st]
  <2>1. /\ DOMAIN u = SessionField /\ u.out = s.out /\ u.handler = s.handler
        /\ u.onSync = s.onSync /\ u.stage = st /\ u.error = s.error
        /\ u.modifier = s.modifier /\ u.retries = s.retries /\ u.hex = s.hex /\ u.words = s.words
    BY DEF Session, SessionField
  <2> HIDE DEF u
  <2>2. Session(u)  BY <2>1 DEF Session, Stage
  <2>3. Good(u, job) /\ HasFile(job)  BY <1>2, <1>3, <2>1, <2>2 DEF Good, Fits, Sends, Waited
  <2>4. Good(SendProcessPage(u), job)  BY <2>1, <2>3, SendProcessPageGood
  <2> QED  BY <2>4 DEF u
<1> QED  BY <1>1, <1>3 DEF Erasing

(* What the sending halves of VerifyFuse() and VerifyLockBits() have in    *)
(* common: they are called again with another modifier.                    *)
LEMMA NextFuseGood ==
  ASSUME NEW s, Session(s), s.stage \in FuseStage
  PROVE  Good(NextFuse(s), job)
<1>1. ASSUME NEW st \in {"VerifyHighFuse", "VerifyLowFuse"}
      PROVE  Good(SendVerifyFuse([s EXCEPT !.stage = st, !.modifier = {}]), job)
  <2>1. st \in Stage /\ st \in FuseStage  BY DEF Stage, FuseStage
  <2>2. Session([s EXCEPT !.stage = st, !.modifier = {}])
        /\ [s EXCEPT !.stage = st, !.modifier = {}].stage = st
    BY <2>1 DEF Session, SessionField
  <2> QED  BY <2>1, <2>2, SendsGood
<1>2. Good(SendEnterProgramMode([s EXCEPT !.stage = "LoadingFlash"]), job)
  <2>1. Session([s EXCEPT !.stage = "LoadingFlash"])  BY StageSession DEF Stage, Session
  <2> QED  BY <2>1, SendsGood
<1> QED  BY <1>1, <1>2 DEF NextFuse, FuseStage

(* What is done with the byte read, t being the session behind it.         *)
LEMMA FuseReadGood ==
  ASSUME NEW t, Session(t), t.handler = "VerifyFuse", t.stage \in FuseStage, NEW same \in BOOLEAN
  PROVE  Good(ReadTwice(t, same, SendVerifyFuse, UniversalCmd([op |-> "writeFuse", fuse |-> FuseOf(t)]),
                        NextFuse, "Fuse"), job)
<1>1. ASSUME NEW m, m \subseteq Modifier
      PROVE  Good(SendVerifyFuse([t EXCEPT !.modifier = m]), job)
  <2>1. Session([t EXCEPT !.modifier = m]) /\ [t EXCEPT !.modifier = m].stage = t.stage
    BY <1>1, StageSession DEF Session
  <2> QED  BY <2>1, SendsGood
<1>2. t.modifier \ {"FuseWriteResponse"} \subseteq Modifier /\ {"FuseVerified"} \subseteq Modifier
      /\ {"FuseWriteResponse", "FuseWritten"} \subseteq Modifier
  BY DEF Session, Modifier
<1>3. Good(Send([t EXCEPT !.modifier = {"FuseWriteResponse", "FuseWritten"}], t.handler,
                UniversalCmd([op |-> "writeFuse", fuse |-> FuseOf(t)])), job)
  <2> DEFINE u == [t EXCEPT !.modifier = {"FuseWriteResponse", "FuseWritten"}]
  <2>1. Session(u) /\ u.stage = t.stage  BY <1>2, StageSession DEF Session
  <2> HIDE DEF u
  <2>2. "VerifyFuse" \in Handler \ {"GetSync"} /\ "VerifyFuse" \notin FileStep  BY DEF Handler, FileStep
  <2>3. Good(Send(u, "VerifyFuse", UniversalCmd([op |-> "writeFuse", fuse |-> FuseOf(t)])), job)
    BY <2>1, <2>2, CommandsKnown, SendGood
  <2> QED  BY <2>3 DEF u
<1>4. Good(Fail(t, "Fuse"), job)  BY FailGood DEF Error
<1>5. Good(NextFuse(t), job)  BY NextFuseGood
<1>6. Good(SendVerifyFuse([t EXCEPT !.modifier = @ \ {"FuseWriteResponse"}]), job)
      /\ Good(SendVerifyFuse([t EXCEPT !.modifier = {"FuseVerified"}]), job)
  BY <1>1, <1>2
<1> QED  BY <1>3, <1>4, <1>5, <1>6 DEF ReadTwice

LEMMA LockReadGood ==
  ASSUME NEW t, Session(t), t.handler = "VerifyLockBits", NEW same \in BOOLEAN
  PROVE  Good(ReadTwice(t, same, SendVerifyLockBits, UniversalCmd([op |-> "writeLock"]),
                        SendLeaveProgramMode, "Lock"), job)
<1>1. ASSUME NEW m, m \subseteq Modifier
      PROVE  Good(SendVerifyLockBits([t EXCEPT !.modifier = m]), job)
  <2>1. Session([t EXCEPT !.modifier = m])  BY <1>1, StageSession DEF Session
  <2> QED  BY <2>1, SendsGood
<1>2. t.modifier \ {"FuseWriteResponse"} \subseteq Modifier /\ {"FuseVerified"} \subseteq Modifier
      /\ {"FuseWriteResponse", "FuseWritten"} \subseteq Modifier
  BY DEF Session, Modifier
<1>3. Good(Send([t EXCEPT !.modifier = {"FuseWriteResponse", "FuseWritten"}], t.handler,
                UniversalCmd([op |-> "writeLock"])), job)
  <2> DEFINE u == [t EXCEPT !.modifier = {"FuseWriteResponse", "FuseWritten"}]
  <2>1. Session(u)  BY <1>2, StageSession DEF Session
  <2> HIDE DEF u
  <2>2. "VerifyLockBits" \in Handler \ {"GetSync"} /\ "VerifyLockBits" \notin FileStep
    BY DEF Handler, FileStep
  <2>3. Good(Send(u, "VerifyLockBits", UniversalCmd([op |-> "writeLock"])), job)
    BY <2>1, <2>2, CommandsKnown, SendGood
  <2> QED  BY <2>3 DEF u
<1>4. Good(Fail(t, "Lock"), job)  BY FailGood DEF Error
<1>5. Good(SendLeaveProgramMode(t), job)  BY SendsGood
<1>6. Good(SendVerifyLockBits([t EXCEPT !.modifier = @ \ {"FuseWriteResponse"}]), job)
      /\ Good(SendVerifyLockBits([t EXCEPT !.modifier = {"FuseVerified"}]), job)
  BY <1>1, <1>2
<1> QED  BY <1>3, <1>4, <1>5, <1>6 DEF ReadTwice

(* The handlers whose answer is a status.                                  *)
LEMMA StatusHandlersGood ==
  ASSUME NEW s, Good(s, job), s.error = "none", job \in Job, Begins(job)
  PROVE  /\ s.handler = "GetSync" => Good(OnGetSync(s), job)
         /\ s.handler = "SetDevice" => Good(OnSetDevice(s), job)
         /\ s.handler = "SetDeviceExt" => Good(OnSetDeviceExt(s), job)
         /\ s.handler = "EnterProgramMode" => Good(OnEnterProgramMode(s), job)
         /\ s.handler = "LeaveProgramMode" => Good(OnLeaveProgramMode(s), job)
         /\ s.handler = "LoadAddress" => Good(OnLoadAddress(s), job)
<1> DEFINE r == Read(s)
           g == SendGetSync(r)
<1>1. Good(r, job) /\ r.error = "none" /\ r.handler = s.handler /\ Waited(r) = Waited(s)
  BY ReadGood
<1>2. Session(r)  BY <1>1 DEF Good
<1> HIDE DEF r
<1>3. Good(g, job)  BY <1>1, SendGetSyncGood
<1> HIDE DEF g
<1>4. s.handler = "GetSync" => Good(OnGetSync(s), job)
  <2>1. OnGetSync(s) = IF StatusOK(s) THEN InSync(r) ELSE g
    BY Zenon DEF OnGetSync, ResponseStatusOK, With, r, g
  <2> QED  BY <1>1, <1>3, <2>1, InSyncGood
<1>5. Good(OnSetDevice(s), job)
  <2>1. OnSetDevice(s) = IF StatusOK(s) THEN SendSetDeviceExt(r) ELSE g
    BY Zenon DEF OnSetDevice, ResponseStatusOK, With, r, g
  <2> QED  BY <1>2, <1>3, <2>1, SendsGood
<1>6. Good(OnSetDeviceExt(s), job)
  <2>1. OnSetDeviceExt(s) = IF StatusOK(s) THEN SendEnterProgramMode(r) ELSE g
    BY Zenon DEF OnSetDeviceExt, ResponseStatusOK, With, r, g
  <2> QED  BY <1>2, <1>3, <2>1, SendsGood
<1>7. Good(OnEnterProgramMode(s), job)
  <2>1. OnEnterProgramMode(s) = IF StatusOK(s) THEN InProgramMode(r) ELSE g
    BY Zenon DEF OnEnterProgramMode, ResponseStatusOK, With, r, g
  <2> QED  BY <1>1, <1>3, <2>1, InProgramModeGood
<1>8. s.handler = "LeaveProgramMode" => Good(OnLeaveProgramMode(s), job)
  <2>1. OnLeaveProgramMode(s) = IF StatusOK(s) THEN Halt(r) ELSE g
    BY Zenon DEF OnLeaveProgramMode, ResponseStatusOK, With, r, g
  <2>2. ASSUME s.handler = "LeaveProgramMode" PROVE Good(Halt(r), job)
    <3> DEFINE u == Halt(r)
    <3>1. /\ DOMAIN u = SessionField /\ u.out = r.out /\ u.handler = "LeaveProgramMode"
          /\ u.onSync = r.onSync /\ u.stage = "SessionCompleted" /\ u.error = r.error
          /\ u.modifier = r.modifier /\ u.retries = r.retries /\ u.hex = r.hex /\ u.words = r.words
      BY <1>1, <1>2, <2>2 DEF Session, SessionField, Halt
    <3> HIDE DEF u
    <3>2. Session(u)  BY <1>2, <3>1, <1>1, <2>2 DEF Session, Stage
    <3>3. Sends(u)  BY <1>1, <3>1 DEF Good, Sends
    <3> QED  BY <3>1, <3>2, <3>3 DEF Good, Fits, Waited, FileStep, u
  <2> QED  BY <1>3, <2>1, <2>2
<1>9. s.handler = "LoadAddress" => Good(OnLoadAddress(s), job)
  <2>1. OnLoadAddress(s) = IF StatusOK(s) THEN SendProcessPage(r) ELSE g
    BY Zenon DEF OnLoadAddress, ResponseStatusOK, With, r, g
  <2>2. s.handler = "LoadAddress" => HasFile(job)  BY DEF Good, Fits, Waited, FileStep
  <2> QED  BY <1>1, <1>3, <2>1, <2>2, SendProcessPageGood
<1> QED  BY <1>4, <1>5, <1>6, <1>7, <1>8, <1>9

(* Those whose answer is a byte or the signature, and a status.            *)
LEMMA ByteHandlersGood ==
  ASSUME NEW s, Good(s, job), s.error = "none", job \in Job, Begins(job)
  PROVE  /\ s.handler = "ReadSignature" => Good(OnReadSignature(s), job)
         /\ s.handler = "ChipErase" => Good(OnChipErase(s), job)
         /\ s.handler = "VerifyUnlocked" => Good(OnVerifyUnlocked(s), job)
         /\ s.handler = "VerifyFuse" => Good(OnVerifyFuse(s), job)
         /\ s.handler = "VerifyLockBits" => Good(OnVerifyLockBits(s), job)
         /\ s.handler = "LoadExtAddress" => Good(OnLoadExtAddress(s), job)
<1> DEFINE r == Read(s)
           q == Read(r)
           g == SendGetSync(q)
<1>1. Good(r, job) /\ r.error = "none" /\ r.handler = s.handler /\ Waited(r) = Waited(s)
      /\ r.stage = s.stage
  BY ReadGood
<1> HIDE DEF r
<1>2. Good(q, job) /\ q.error = "none" /\ q.handler = s.handler /\ Waited(q) = Waited(s)
      /\ q.stage = s.stage
  BY <1>1, ReadGood
<1> HIDE DEF q
<1>3. Session(q) /\ Session(r) /\ Sends(q) /\ Good(g, job)  BY <1>1, <1>2, SendGetSyncGood DEF Good
<1> HIDE DEF g
<1>4. Good(OnReadSignature(s), job)
  <2>1. OnReadSignature(s) = IF Len(s.in) < 2 THEN s
                             ELSE IF Head(s.in) # Signature THEN Fail(r, "Signature")
                             ELSE IF StatusOK(r) THEN SendChipErase(q) ELSE g
    BY Zenon DEF OnReadSignature, ResponseStatusOK, With, r, q, g
  <2>2. Good(Fail(r, "Signature"), job)  BY <1>3, FailGood DEF Error
  <2> QED  BY <1>3, <2>1, <2>2, SendsGood
<1>5. s.handler = "ChipErase" => Good(OnChipErase(s), job)
  <2>1. OnChipErase(s) = IF s.in = <<>> THEN s ELSE IF StatusOK(r) THEN Erasing(q) ELSE g
    BY Zenon DEF OnChipErase, OnByte, ResponseStatusOK, With, r, q, g
  <2> QED  BY <1>2, <1>3, <2>1, ErasingGood
<1>6. s.handler = "VerifyUnlocked" => Good(OnVerifyUnlocked(s), job)
  <2> DEFINE K(t) == IF Head(s.in) # "unlocked" THEN Fail(t, "Unlock")
                     ELSE IF "FuseVerified" \in t.modifier
                       THEN SendVerifyFuse([t EXCEPT !.stage = "VerifyExtendedFuse", !.modifier = {}])
                     ELSE SendVerifyUnlocked([t EXCEPT !.modifier = @ \cup {"FuseVerified"}])
  <2>1. OnVerifyUnlocked(s) = IF s.in = <<>> THEN s ELSE IF StatusOK(r) THEN K(q) ELSE g
    <3>1. With(q, K) = K(q)
      <4> HIDE DEF K
      <4> QED  BY Zenon DEF With
    <3>2. OnVerifyUnlocked(s) = IF s.in = <<>> THEN s ELSE IF StatusOK(r) THEN With(q, K) ELSE g
      BY Zenon DEF OnVerifyUnlocked, OnByte, ResponseStatusOK, r, q, g
    <3> QED  BY <3>1, <3>2
  <2>2. Good(Fail(q, "Unlock"), job)  BY <1>3, FailGood DEF Error
  <2>3. Good(SendVerifyFuse([q EXCEPT !.stage = "VerifyExtendedFuse", !.modifier = {}]), job)
    <3>1. Session([q EXCEPT !.stage = "VerifyExtendedFuse", !.modifier = {}])
          /\ [q EXCEPT !.stage = "VerifyExtendedFuse", !.modifier = {}].stage \in FuseStage
      BY <1>3 DEF Session, SessionField, Stage, FuseStage
    <3> QED  BY <3>1, SendsGood
  <2>4. Good(SendVerifyUnlocked([q EXCEPT !.modifier = @ \cup {"FuseVerified"}]), job)
    <3>1. Session([q EXCEPT !.modifier = @ \cup {"FuseVerified"}])
      BY <1>3 DEF Session, SessionField, Modifier
    <3> QED  BY <3>1, SendsGood
  <2>5. Good(K(q), job)  BY <2>2, <2>3, <2>4
  <2> HIDE DEF K
  <2> QED  BY <1>3, <2>1, <2>5
<1>7. s.handler = "VerifyFuse" => Good(OnVerifyFuse(s), job)
  <2> DEFINE c == ReadTwice(q, Head(s.in) = "configured", SendVerifyFuse,
                            UniversalCmd([op |-> "writeFuse", fuse |-> FuseOf(q)]), NextFuse, "Fuse")
  <2>1. OnVerifyFuse(s) = IF s.in = <<>> THEN s ELSE IF StatusOK(r) THEN c ELSE g
    BY Zenon DEF OnVerifyFuse, OnByte, ResponseStatusOK, With, r, q, g
  <2>2. s.handler = "VerifyFuse" => q.stage \in FuseStage
    BY <1>2 DEF Good, Fits, Waited
  <2>3. s.handler = "VerifyFuse" => Good(c, job)
    <3>1. (Head(s.in) = "configured") \in BOOLEAN  OBVIOUS
    <3> QED  BY <1>2, <1>3, <2>2, <3>1, FuseReadGood
  <2> HIDE DEF c
  <2> QED  BY <1>3, <2>1, <2>3
<1>8. s.handler = "VerifyLockBits" => Good(OnVerifyLockBits(s), job)
  <2> DEFINE c == ReadTwice(q, Head(s.in) = "locked", SendVerifyLockBits,
                            UniversalCmd([op |-> "writeLock"]), SendLeaveProgramMode, "Lock")
  <2>1. OnVerifyLockBits(s) = IF s.in = <<>> THEN s ELSE IF StatusOK(r) THEN c ELSE g
    BY Zenon DEF OnVerifyLockBits, OnByte, ResponseStatusOK, With, r, q, g
  <2>2. s.handler = "VerifyLockBits" => Good(c, job)
    <3>1. (Head(s.in) = "locked") \in BOOLEAN  OBVIOUS
    <3> QED  BY <1>2, <1>3, <3>1, LockReadGood
  <2> HIDE DEF c
  <2> QED  BY <1>3, <2>1, <2>2
<1>9. s.handler = "LoadExtAddress" => Good(OnLoadExtAddress(s), job)
  <2>1. OnLoadExtAddress(s) = IF s.in = <<>> THEN s ELSE IF StatusOK(r) THEN SendProcessPage(q) ELSE g
    BY Zenon DEF OnLoadExtAddress, OnByte, ResponseStatusOK, With, r, q, g
  <2>2. s.handler = "LoadExtAddress" => HasFile(job)  BY DEF Good, Fits, Waited, FileStep
  <2> QED  BY <1>2, <1>3, <2>1, <2>2, SendProcessPageGood
<1> QED  BY <1>4, <1>5, <1>6, <1>7, <1>8, <1>9

-----------------------------------------------------------------------------
(* The target.                                                             *)

ChipField ==
  {"held", "address", "ext", "eepromSize", "eepromPage", "flash", "eeprom", "fuse", "latched",
   "lock", "fault"}
(* d is a target whose chip has fault x, which no command changes.           *)
Chip(d, x) ==
  /\ DOMAIN d = ChipField
  /\ d.fault = x
  /\ d.held \in BOOLEAN /\ d.lock \in LockBits /\ d.fuse \in [Fuse -> Setting]

LEMMA NewTargetType ==
  ASSUME NEW fuse \in Setting, NEW fault
  PROVE  Chip(NewTarget(fuse, fault), fault)
BY DEF Chip, ChipField, NewTarget, LockBits

(* What commands leave of the target, whatever they do to its memories.    *)
LEMMA ChipKept ==
  ASSUME NEW x, NEW d, Chip(d, x)
  PROVE  /\ \A v : /\ Chip([d EXCEPT !.eepromSize = v], x) /\ Chip([d EXCEPT !.eepromPage = v], x)
                   /\ Chip([d EXCEPT !.address = v], x) /\ Chip([d EXCEPT !.ext = v], x)
                   /\ Chip([d EXCEPT !.eeprom = v], x) /\ Chip([d EXCEPT !.flash = v], x)
         /\ \A v, w : Chip([d EXCEPT !.flash = v, !.address = w], x)
         /\ Chip(EnterProgMode(d), x) /\ Chip(LeaveProgMode(d), x) /\ Chip(ChipErase(d), x)
<1>1. \A v : /\ Chip([d EXCEPT !.eepromSize = v], x) /\ Chip([d EXCEPT !.eepromPage = v], x)
             /\ Chip([d EXCEPT !.address = v], x) /\ Chip([d EXCEPT !.ext = v], x)
             /\ Chip([d EXCEPT !.eeprom = v], x) /\ Chip([d EXCEPT !.flash = v], x)
  BY DEF Chip, ChipField
<1>2. \A v, w : Chip([d EXCEPT !.flash = v, !.address = w], x)
  BY DEF Chip, ChipField
<1>3. Chip(EnterProgMode(d), x) /\ Chip(LeaveProgMode(d), x)
  BY DEF Chip, ChipField, EnterProgMode, LeaveProgMode
<1>4. \A v, w : Chip([d EXCEPT !.flash = v, !.eeprom = w, !.lock = IF d.fault = "staysLocked" THEN @ ELSE "unlocked"], x)
  BY DEF Chip, ChipField, LockBits
<1>5. Chip(ChipErase(d), x)  BY <1>4 DEF ChipErase
<1> QED  BY <1>1, <1>2, <1>3, <1>5

LEMMA InstructionType ==
  ASSUME NEW x, NEW d, Chip(d, x), NEW i, i.op \in Instruction
  PROVE  Chip(TransferInstruction(d, i).target, x)
<1>1. Chip([d EXCEPT !.lock = "locked"], x)  BY DEF Chip, ChipField, LockBits
<1>2. Chip([d EXCEPT !.fuse[i.fuse] = "configured"], x)  BY DEF Chip, ChipField, Setting
<1>3. Chip(ChipErase(d), x) /\ Chip([d EXCEPT !.ext = i.bank], x)  BY ChipKept
<1> QED  BY <1>1, <1>2, <1>3 DEF TransferInstruction, Instruction

LEMMA WritesType ==
  ASSUME NEW x, NEW d, Chip(d, x), NEW ws
  PROVE  Chip(WriteProgramPages(d, ws), x) /\ Chip(WriteEeprom(d, ws), x)
BY ChipKept DEF WriteProgramPages, WriteEeprom

LEMMA ReadsType ==
  ASSUME NEW x, NEW d, Chip(d, x), NEW c
  PROVE  Chip(ReadPage(d, c).target, x) /\ Chip(ReadSignature(d).target, x)
BY ChipKept DEF ReadPage, ReadSignature, Answer

LEMMA IspType ==
  ASSUME NEW x, NEW d, Chip(d, x), NEW c, Known(c)
  PROVE  Chip(IspCommand(d, c).target, x)
<1> USE DEF Answer, DoEmptyReply, DoOneByteReply
<1>1. Chip(SetDeviceProgParams(d, c).target, x) /\ Chip(SetExtDeviceProgParams(d, c).target, x)
  BY ChipKept DEF SetDeviceProgParams, SetExtDeviceProgParams
<1>2. Chip(DoEmptyReply(IF d.held THEN d ELSE EnterProgMode(d)).target, x)
      /\ Chip(DoEmptyReply(LeaveProgMode(d)).target, x) /\ Chip(DoEmptyReply(d).target, x)
  BY ChipKept
<1>3. Chip(DoEmptyReply([d EXCEPT !.address = c.address]).target, x)  BY ChipKept
<1>4. c.cmd = "UNIVERSAL" => Chip(Universal(d, c).target, x)
  BY InstructionType DEF Universal, Known
<1>5. Chip(ProgramPage(d, c).target, x)
  BY WritesType DEF ProgramPage
<1>6. Chip(ReadPage(d, c).target, x) /\ Chip(ReadSignature(d).target, x)  BY ReadsType
<1> HIDE DEF Answer, DoEmptyReply, DoOneByteReply
<1> QED  BY <1>1, <1>2, <1>3, <1>4, <1>5, <1>6 DEF IspCommand, Known, CommandName

LEMMA BootloaderType ==
  ASSUME NEW x, NEW d, Chip(d, x), NEW c, Known(c)
  PROVE  Chip(BootloaderCommand(d, c).target, x)
<1> USE DEF Answer, DoEmptyReply, DoOneByteReply
<1>1. Chip(DoEmptyReply(d).target, x) /\ Chip(DoEmptyReply([d EXCEPT !.address = c.address]).target, x)
  BY ChipKept
<1>2. Chip(DoOneByteReply(IF c.inst.op = "loadExt" THEN [d EXCEPT !.ext = c.inst.bank] ELSE d, 0).target, x)
  BY ChipKept
<1>3. Chip(DoEmptyReply([d EXCEPT !.flash = Stored(d, @, c.words, LAMBDA a, w : w)]).target, x)
  BY ChipKept
<1>4. Chip(DoEmptyReply(WriteEeprom(d, c.words)).target, x)  BY WritesType
<1>5. Chip(ReadPage(d, c).target, x) /\ Chip(ReadSignature(d).target, x)  BY ReadsType
<1> HIDE DEF Answer, DoEmptyReply, DoOneByteReply
<1> QED  BY <1>1, <1>2, <1>3, <1>4, <1>5 DEF BootloaderCommand, Known, CommandName

-----------------------------------------------------------------------------
(* The inductive invariant: a session that goes on knows where it is.      *)

Running == Begins(job) /\ CanContinue(ses) /\ Good(ses, job)

IInv ==
  /\ job \in Job /\ mInSession \in BOOLEAN /\ faults \in 0 .. MaxFaults
  /\ Session(ses) /\ Chip(target, job.fault)
  /\ IF mInSession THEN Running ELSE ses.out = <<>>

LEMMA NewSessionGood ==
  ASSUME NEW j \in Job
  PROVE  Session(NewSession(j)) /\ (Begins(j) => CanContinue(NewSession(j)) /\ Good(NewSession(j), j))
<1> DEFINE s == NewSession(j)
<1>1. /\ DOMAIN s = SessionField
      /\ s.stage = (IF Begins(j) THEN "VerifySignature" ELSE "SessionCompleted")
      /\ s.error = (IF LockRefused(j) THEN "Lock" ELSE "none")
      /\ s.modifier = {} /\ s.handler = "GetSync" /\ s.onSync = "SetDevice" /\ s.retries = 0
      /\ s.hex = Rewind /\ s.words \in PageSize
      /\ s.out = IF Begins(j) THEN <<GetSyncCmd>> ELSE <<>>
  BY DEF NewSession, SessionField, PageSize
<1> HIDE DEF s
<1>2. Session(s)
  BY <1>1, RewindPlaced, BoundAssumption DEF Session, Stage, Error, Handler
<1>3. Begins(j) => s.error = "none"  BY <1>1 DEF Begins
<1>4. Begins(j) => CanContinue(s)  BY <1>1, <1>3 DEF CanContinue
<1>5. Begins(j) => Good(s, j)
  BY <1>1, <1>2, CommandsKnown DEF Good, Fits, Sends, Waited, FileStep
<1> QED  BY <1>2, <1>4, <1>5 DEF s

LEMMA InitType ==
  ASSUME Init
  PROVE  IInv
<1>1. PICK j \in Job :
        /\ job = j /\ ses = NewSession(j)
        /\ target = [NewTarget(j.fuse, j.fault) EXCEPT !.held = j.serial /\ Begins(j)]
        /\ mInSession = Begins(j)
        /\ faults = IF j.serial THEN MaxFaults ELSE 0
  BY DEF Init
<1>2. j.fuse \in Setting /\ j.serial \in BOOLEAN  BY JobAssumption DEF JobType
<1>3. Begins(j) \in BOOLEAN  BY DEF Begins
<1>4. Chip(target, job.fault)
  <2>1. Chip(NewTarget(j.fuse, j.fault), j.fault)  BY <1>2, NewTargetType
  <2>2. \A d, b : Chip(d, j.fault) /\ b \in BOOLEAN => Chip([d EXCEPT !.held = b], j.fault)  BY DEF Chip, ChipField
  <2>3. (j.serial /\ Begins(j)) \in BOOLEAN  OBVIOUS
  <2> QED  BY <1>1, <2>1, <2>2, <2>3
<1>5. ~Begins(j) => ses.out = <<>>  BY <1>1 DEF NewSession
<1>6. faults \in 0 .. MaxFaults  BY <1>1, BoundAssumption
<1> QED  BY <1>1, <1>3, <1>4, <1>5, <1>6, NewSessionGood DEF IInv, Running

(* What loop() makes of the session the handler leaves.                    *)
LEMMA LoopType ==
  ASSUME NEW s, IInv, mInSession, Good(s, job), Loop(s)
  PROVE  IInv'
<1>1. /\ mInSession' = CanContinue(s) /\ job' = job /\ faults' = faults
      /\ CanContinue(s) => target' = target
      /\ ~CanContinue(s) => target' = LeaveProgMode(target)
                            /\ ses' = [Halt(s) EXCEPT !.in = <<>>, !.out = <<>>, !.timing = FALSE]
  BY DEF Loop
<1>2. Chip(target', job.fault)  BY <1>1, ChipKept DEF IInv
<1>3. Session(s)  BY DEF Good
<1>4. CASE CanContinue(s)
  <2>1. PICK left : ses' = [s EXCEPT !.in = left]  BY <1>4 DEF Loop
  <2> DEFINE u == [s EXCEPT !.in = left]
  <2>2. /\ DOMAIN u = SessionField /\ u.out = s.out /\ u.handler = s.handler
        /\ u.onSync = s.onSync /\ u.stage = s.stage /\ u.error = s.error
        /\ u.modifier = s.modifier /\ u.retries = s.retries /\ u.hex = s.hex /\ u.words = s.words
    BY <1>3 DEF Session, SessionField
  <2> HIDE DEF u
  <2>3. Session(u) /\ CanContinue(u)  BY <1>3, <1>4, <2>2 DEF Session, CanContinue
  <2>4. Good(u, job)  BY <2>2, <2>3 DEF Good, Fits, Sends, Waited
  <2>5. ses' = u  BY <2>1 DEF u
  <2> QED  BY <1>1, <1>2, <1>4, <2>3, <2>4, <2>5 DEF IInv, Running
<1>5. CASE ~CanContinue(s)
  <2> DEFINE u == [Halt(s) EXCEPT !.in = <<>>, !.out = <<>>, !.timing = FALSE]
  <2>1. /\ DOMAIN u = SessionField /\ u.out = <<>> /\ u.handler = s.handler
        /\ u.onSync = s.onSync /\ u.stage = "SessionCompleted" /\ u.error = s.error
        /\ u.modifier = s.modifier /\ u.retries = s.retries /\ u.hex = s.hex /\ u.words = s.words
    BY <1>3 DEF Session, SessionField, Halt
  <2>2. ses' = u  BY <1>5, Zenon DEF Loop
  <2> HIDE DEF u
  <2>3. Session(u)  BY <1>3, <2>1 DEF Session, Stage
  <2>4. mInSession' = FALSE  BY <1>1, <1>5 DEF CanContinue
  <2> QED  BY <1>1, <1>2, <2>1, <2>2, <2>3, <2>4 DEF IInv
<1> QED  BY <1>4, <1>5

(* The session a handler is called with.                                   *)
LEMMA HeardGood ==
  ASSUME IInv, mInSession
  PROVE  /\ Good(Heard, job) /\ Heard.error = "none" /\ Heard.handler = ses.handler
         /\ Session(Heard) /\ Heard.retries = ses.retries /\ Heard.stage = ses.stage
         /\ Waited(Heard) = Waited(ses) /\ Heard.out = ses.out
<1>1. Session(ses) /\ Good(ses, job) /\ ses.error = "none"  BY DEF IInv, Running, CanContinue
<1> DEFINE u == [Read(ses) EXCEPT !.timing = FALSE]
<1>2. /\ DOMAIN u = SessionField /\ u.out = ses.out /\ u.handler = ses.handler
      /\ u.onSync = ses.onSync /\ u.stage = ses.stage /\ u.error = ses.error
      /\ u.modifier = ses.modifier /\ u.retries = ses.retries /\ u.hex = ses.hex /\ u.words = ses.words
  BY <1>1 DEF Session, SessionField, Read
<1> HIDE DEF u
<1>3. Session(u)  BY <1>1, <1>2 DEF Session
<1>4. Good(u, job) /\ Waited(u) = Waited(ses)  BY <1>1, <1>2, <1>3 DEF Good, Fits, Sends, Waited
<1> QED  BY <1>1, <1>2, <1>3, <1>4 DEF Heard, u

LEMMA UpdateType ==
  ASSUME IInv, Update
  PROVE  IInv'
<1>1. mInSession
  BY DEF Update, HandleGetSync, HandleSetDevice, HandleSetDeviceExt, HandleEnterProgramMode,
         HandleLeaveProgramMode, HandleReadSignature, HandleChipErase, HandleVerifyUnlocked,
         HandleVerifyFuse, HandleVerifyLockBits, HandleLoadAddress, HandleLoadExtAddress,
         HandleProcessPage, HandleNoSync, HandleFrameError, HandleUnknown, StartTimer, TimerPasses,
         Handle, Received, Silent
<1>2. /\ Session(ses) /\ Good(ses, job) /\ ses.error = "none" /\ job \in Job /\ Begins(job)
  BY <1>1 DEF IInv, Running, CanContinue
<1> DEFINE h == Heard
<1>3. /\ Good(h, job) /\ h.error = "none" /\ h.handler = ses.handler
      /\ Session(h) /\ h.retries = ses.retries
  BY <1>1, HeardGood
<1>4. ASSUME \E s : Good(s, job) /\ Loop(s) PROVE IInv'  BY <1>1, <1>4, LoopType
<1>5. ASSUME HandleGetSync \/ HandleSetDevice \/ HandleSetDeviceExt \/ HandleEnterProgramMode
             \/ HandleLeaveProgramMode \/ HandleLoadAddress
      PROVE  \E s : Good(s, job) /\ Loop(s)
  <2> HIDE DEF h
  <2>1. \/ h.handler = "GetSync" /\ Loop(OnGetSync(h))
        \/ h.handler = "SetDevice" /\ Loop(OnSetDevice(h))
        \/ h.handler = "SetDeviceExt" /\ Loop(OnSetDeviceExt(h))
        \/ h.handler = "EnterProgramMode" /\ Loop(OnEnterProgramMode(h))
        \/ h.handler = "LeaveProgramMode" /\ Loop(OnLeaveProgramMode(h))
        \/ h.handler = "LoadAddress" /\ Loop(OnLoadAddress(h))
    BY <1>3, <1>5 DEF HandleGetSync, HandleSetDevice, HandleSetDeviceExt, HandleEnterProgramMode,
           HandleLeaveProgramMode, HandleLoadAddress, Handle, h
  <2> QED  BY <1>2, <1>3, <2>1, StatusHandlersGood
<1>6. ASSUME HandleReadSignature \/ HandleChipErase \/ HandleVerifyUnlocked \/ HandleVerifyFuse
             \/ HandleVerifyLockBits \/ HandleLoadExtAddress
      PROVE  \E s : Good(s, job) /\ Loop(s)
  <2> HIDE DEF h
  <2>1. \/ h.handler = "ReadSignature" /\ Loop(OnReadSignature(h))
        \/ h.handler = "ChipErase" /\ Loop(OnChipErase(h))
        \/ h.handler = "VerifyUnlocked" /\ Loop(OnVerifyUnlocked(h))
        \/ h.handler = "VerifyFuse" /\ Loop(OnVerifyFuse(h))
        \/ h.handler = "VerifyLockBits" /\ Loop(OnVerifyLockBits(h))
        \/ h.handler = "LoadExtAddress" /\ Loop(OnLoadExtAddress(h))
    BY <1>3, <1>6 DEF HandleReadSignature, HandleChipErase, HandleVerifyUnlocked, HandleVerifyFuse,
           HandleVerifyLockBits, HandleLoadExtAddress, Handle, h
  <2> QED  BY <1>2, <1>3, <2>1, ByteHandlersGood
<1>7. ASSUME HandleProcessPage PROVE \E s : Good(s, job) /\ Loop(s)
  <2> HIDE DEF h
  <2>1. h.handler = "ProcessPage" /\ Loop(OnProcessPage(h))
    BY <1>3, <1>7 DEF HandleProcessPage, Handle, h
  <2>2. HasFile(job)  BY <1>3, <2>1 DEF Good, Fits, Waited, FileStep
  <2> QED  BY <1>3, <2>1, <2>2, OnProcessPageGood
<1>8. ASSUME HandleNoSync PROVE \E s : Good(s, job) /\ Loop(s)
  <2> HIDE DEF h
  <2> DEFINE k == [h EXCEPT !.retries = @ + 1]
  <2>1. Loop(IF ses.retries < SyncRetries THEN SendGetSync(k) ELSE Fail(h, "Sync"))
    BY <1>8 DEF HandleNoSync, h
  <2>2. ASSUME ses.retries < SyncRetries PROVE Good(SendGetSync(k), job)
    <3>1. /\ DOMAIN k = SessionField /\ k.out = h.out /\ k.handler = h.handler
          /\ k.onSync = h.onSync /\ k.stage = h.stage /\ k.error = h.error
          /\ k.modifier = h.modifier /\ k.retries = h.retries + 1 /\ k.hex = h.hex /\ k.words = h.words
      BY <1>3 DEF Session, SessionField
    <3> HIDE DEF k
    <3>2. h.retries + 1 \in 0 .. SyncRetries  BY <1>3, <2>2, BoundAssumption DEF Session
    <3>3. Session(k)  BY <1>3, <3>1, <3>2 DEF Session
    <3>4. Good(k, job)  BY <1>3, <3>1, <3>3 DEF Good, Fits, Sends, Waited
    <3> QED  BY <3>4, SendGetSyncGood
  <2>3. Good(Fail(h, "Sync"), job)  BY <1>3, FailGood DEF Error
  <2> HIDE DEF k
  <2> QED  BY <2>1, <2>2, <2>3
<1>9. ASSUME HandleFrameError PROVE \E s : Good(s, job) /\ Loop(s)
  BY <1>3, <1>9 DEF HandleFrameError
<1>10. ASSUME NEW b, Loop([ses EXCEPT !.timing = b]) PROVE \E s : Good(s, job) /\ Loop(s)
  <2> DEFINE u == [ses EXCEPT !.timing = b]
  <2>1. /\ DOMAIN u = SessionField /\ u.out = ses.out /\ u.handler = ses.handler
        /\ u.onSync = ses.onSync /\ u.stage = ses.stage /\ u.error = ses.error
        /\ u.modifier = ses.modifier /\ u.retries = ses.retries /\ u.hex = ses.hex /\ u.words = ses.words
    BY <1>2 DEF Session, SessionField
  <2> HIDE DEF u
  <2>2. Good(u, job)  BY <1>2, <2>1 DEF Session, Good, Fits, Sends, Waited
  <2> QED  BY <1>10, <2>2 DEF u
<1>11. ASSUME HandleUnknown \/ TimerPasses PROVE \E s : Good(s, job) /\ Loop(s)
  <2> HIDE DEF h
  <2>1. Session([h EXCEPT !.in = <<>>])  BY <1>3 DEF Session, SessionField
  <2>2. Good(Fail([h EXCEPT !.in = <<>>], "Unknown"), job) /\ Good(Fail(ses, "Timeout"), job)
    BY <1>2, <2>1, FailGood DEF Error
  <2> QED  BY <1>11, <2>2 DEF HandleUnknown, TimerPasses, h
<1> QED  BY <1>4, <1>5, <1>6, <1>7, <1>8, <1>9, <1>10, <1>11 DEF Update, StartTimer

(* The session behind the other end's turn: the command is gone, and in    *)
(* holds whatever was answered.                                            *)
LEMMA AnsweredGood ==
  ASSUME NEW s, Good(s, job), s.error = "none", CanContinue(s), NEW now
  PROVE  LET u == [s EXCEPT !.out = <<>>, !.in = now]
         IN Session(u) /\ Good(u, job) /\ CanContinue(u)
<1> DEFINE u == [s EXCEPT !.out = <<>>, !.in = now]
<1>1. /\ DOMAIN u = SessionField /\ u.out = <<>> /\ u.handler = s.handler
      /\ u.onSync = s.onSync /\ u.stage = s.stage /\ u.error = s.error
      /\ u.modifier = s.modifier /\ u.retries = s.retries /\ u.hex = s.hex /\ u.words = s.words
  BY DEF Good, Session, SessionField
<1> HIDE DEF u
<1>2. Session(u)  BY <1>1 DEF Good, Session
<1> QED  BY <1>1, <1>2 DEF Good, Fits, Sends, Waited, CanContinue, u

LEMMA CommandKnown ==
  ASSUME IInv, mInSession, ses.out # <<>>
  PROVE  Known(Head(ses.out)) /\ ses.out = <<Head(ses.out)>>
BY DEF IInv, Running, Good, Sends, CanContinue

LEMMA IspUpdateType ==
  ASSUME IInv, IspUpdate
  PROVE  IInv'
<1>1. /\ mInSession /\ ses.out # <<>>
      /\ target' = IspCommand(target, Head(ses.out)).target
      /\ ses' = [ses EXCEPT !.out = <<>>, !.in = IspCommand(target, Head(ses.out)).reply]
      /\ UNCHANGED <<job, late, mInSession, faults>>
  BY DEF IspUpdate
<1>2. Chip(target', job.fault)  BY <1>1, CommandKnown, IspType DEF IInv
<1>3. Session(ses') /\ Good(ses', job) /\ CanContinue(ses')
  BY <1>1, AnsweredGood DEF IInv, Running, CanContinue
<1> QED  BY <1>1, <1>2, <1>3 DEF IInv, Running

LEMMA LineType ==
  ASSUME NEW t, NEW now, NEW later, NEW cost \in {0, 1}, cost = 1 => faults > 0,
         IInv, Pending, Chip(t, job.fault), Line(t, now, later, cost)
  PROVE  IInv'
<1>1. /\ mInSession /\ faults' = faults - cost /\ target' = t
      /\ ses' = [ses EXCEPT !.out = <<>>, !.in = ses.in \o now]
      /\ UNCHANGED <<job, mInSession>>
  BY DEF Line, Pending
<1>2. faults' \in 0 .. MaxFaults
  BY <1>1, BoundAssumption DEF IInv
<1>3. Session(ses') /\ Good(ses', job) /\ CanContinue(ses')
  BY <1>1, AnsweredGood DEF IInv, Running, CanContinue
<1> QED  BY <1>1, <1>2, <1>3 DEF IInv, Running

LEMMA BootloaderStepType ==
  ASSUME IInv, Bootloader \/ LineFault
  PROVE  IInv'
<1>1. ASSUME Pending PROVE Chip(Executed.target, job.fault) /\ Chip(target, job.fault)
  BY <1>1, CommandKnown, BootloaderType DEF Pending, Executed, Command, IInv
<1>2. CASE BootloaderAnswers
  BY <1>1, <1>2, LineType DEF BootloaderAnswers
<1>3. CASE LateBytes
  <2>1. /\ mInSession /\ UNCHANGED <<job, target, mInSession, faults>>
        /\ ses' = [ses EXCEPT !.in = ses.in \o late]
    BY <1>3 DEF LateBytes
  <2> DEFINE now == ses.in \o late
             u == [ses EXCEPT !.in = now]
  <2> HIDE DEF now
  <2>2. Session(ses) /\ Good(ses, job) /\ CanContinue(ses)  BY <2>1 DEF IInv, Running
  <2>3. /\ DOMAIN u = SessionField /\ u.out = ses.out /\ u.handler = ses.handler
        /\ u.onSync = ses.onSync /\ u.stage = ses.stage /\ u.error = ses.error
        /\ u.modifier = ses.modifier /\ u.retries = ses.retries /\ u.hex = ses.hex /\ u.words = ses.words
    BY <2>2 DEF Session, SessionField
  <2>4. ses' = u  BY <2>1 DEF now
  <2> HIDE DEF u
  <2>5. Session(u)  BY <2>2, <2>3 DEF Session
  <2>6. Good(u, job) /\ CanContinue(u)  BY <2>2, <2>3, <2>5 DEF Good, Fits, Sends, Waited, CanContinue
  <2> QED  BY <2>1, <2>4, <2>5, <2>6 DEF IInv, Running
<1>4. CASE CommandLost
  BY <1>1, <1>4, LineType DEF CommandLost
<1>5. CASE AnswerLost
  BY <1>1, <1>5, LineType DEF AnswerLost
<1>6. CASE NotInSync
  BY <1>1, <1>6, LineType DEF NotInSync
<1>7. CASE DataGarbled
  <2> DEFINE c == [Command EXCEPT !.words = [i \in DOMAIN @ |-> Spoilt]]
             e == BootloaderCommand(target, c)
  <2>1. Pending /\ faults > 0 /\ Command.cmd = "PROG_PAGE" /\ Line(e.target, e.reply, <<>>, 1)
    BY <1>7 DEF DataGarbled
  <2>2. Known(Command)  BY <2>1, CommandKnown DEF Pending, Command
  <2>3. Known(c)
    <3> DEFINE d == Command
    <3>1. Known(d) /\ d.cmd = "PROG_PAGE" /\ c = [d EXCEPT !.words = [i \in DOMAIN @ |-> Spoilt]]
      BY <2>1, <2>2
    <3> HIDE DEF d, c
    <3> QED  BY <3>1 DEF Known
  <2> HIDE DEF c
  <2>4. Chip(e.target, job.fault)  BY <2>3, BootloaderType DEF IInv
  <2> HIDE DEF e
  <2> QED  BY <2>1, <2>4, LineType
<1>8. CASE StatusGarbled
  <2>1. \E now : Pending /\ faults > 0 /\ Line(Executed.target, now, <<>>, 1)
    BY <1>8 DEF StatusGarbled
  <2> QED  BY <1>1, <2>1, LineType
<1>9. CASE Glitch
  BY <1>1, <1>9, LineType DEF Glitch
<1>10. CASE AnswerPauses
  <2>1. \E now, later : Pending /\ faults > 0 /\ Line(Executed.target, now, later, 1)
    BY <1>10 DEF AnswerPauses
  <2> QED  BY <1>1, <2>1, LineType
<1> QED  BY <1>2, <1>3, <1>4, <1>5, <1>6, <1>7, <1>8, <1>9, <1>10 DEF Bootloader, LineFault

LEMMA NextType ==
  ASSUME IInv, [Next]_vars
  PROVE  IInv'
<1>1. ASSUME UNCHANGED vars PROVE IInv'
  <2>1. /\ job' = job /\ ses' = ses /\ target' = target /\ mInSession' = mInSession
        /\ faults' = faults
    BY <1>1 DEF vars
  <2> QED  BY <2>1 DEF IInv, Running
<1> QED  BY <1>1, UpdateType, IspUpdateType, BootloaderStepType DEF Next, Over

LEMMA TypeFollows ==
  ASSUME IInv
  PROVE  TypeOK
<1>1. Len(ses.out) <= 1
  <2>1. ses.out = <<>> \/ \E c : ses.out = <<c>>
    BY DEF IInv, Running, Good, Sends, CanContinue
  <2>2. Len(<<>>) = 0 /\ \A c : Len(<<c>>) = 1  OBVIOUS
  <2>3. Len(ses.out) = 0 \/ Len(ses.out) = 1  BY <2>1, <2>2, Zenon
  <2>4. 0 <= 1 /\ 1 <= 1  OBVIOUS
  <2> QED  BY <2>3, <2>4, Zenon
<1>2. /\ ses.hex.index \in 0 .. Len(ses.hex.words) /\ ses.words \in {FlashPage, EepromPage, SerialPage}
  <2>1. Placed(ses.hex) /\ ses.words \in PageSize  BY DEF IInv, Session
  <2> QED  BY <2>1 DEF Placed, Reader, PageSize
<1> QED  BY <1>1, <1>2 DEF IInv, Session, Chip, TypeOK, Modifier

THEOREM Invariance == Spec => []IInv
<1>1. Init => IInv  BY InitType
<1>2. IInv /\ [Next]_vars => IInv'  BY NextType
<1> QED  BY <1>1, <1>2, PTL DEF Spec

(* Whatever hex file is read, wherever it ends or is damaged, and whatever *)
(* arrives or fails to arrive: the reader stays within its record, a       *)
(* handler is only called that can be, retries are limited, one command at *)
(* most waits to be taken, and the target's state is of its type.          *)
THEOREM TypeCorrect == Spec => []TypeOK
<1>1. IInv => TypeOK  BY TypeFollows
<1> QED  BY <1>1, Invariance, PTL

-----------------------------------------------------------------------------
(* A chip with another signature.  The session has come no further than    *)
(* ReadSignature(), no byte on its way can be taken for the signature, and *)
(* the command to come changes nothing on the chip.                        *)

EarlyWait == {"SetDevice", "SetDeviceExt", "EnterProgramMode", "ReadSignature"}
EarlyByte == {STK_OK, STK_FAILED, STK_INSYNC, STK_NOSYNC, FrameError, OtherSignature}
Harmless(c) ==
  c.cmd \in {"GET_SYNC", "SET_DEVICE", "SET_DEVICE_EXT", "ENTER_PROGMODE", "READ_SIGN"}
EarlySends(s) == s.out = <<>> \/ \E c : s.out = <<c>> /\ Harmless(c)

Early(s) ==
  /\ DOMAIN s = SessionField
  /\ s.stage = "VerifySignature" /\ Waited(s) \in EarlyWait
  /\ s.in \in Seq(EarlyByte) /\ EarlySends(s)

AsFound(d, j) ==
  LET found == NewTarget(j.fuse, j.fault) IN
  /\ d.flash = found.flash /\ d.eeprom = found.eeprom
  /\ d.fuse = found.fuse /\ d.lock = found.lock

Unchanged(d, t) ==
  t.flash = d.flash /\ t.eeprom = d.eeprom /\ t.fuse = d.fuse /\ t.lock = d.lock

WrongChip ==
  job.fault = "otherSignature" =>
    /\ AsFound(target, job) /\ late \in Seq(EarlyByte)
    /\ mInSession => Early(ses)

LEMMA EarlyRead ==
  ASSUME NEW s, Early(s)
  PROVE  /\ Early(Read(s)) /\ Read(s).handler = s.handler /\ Read(s).onSync = s.onSync
<1> DEFINE t == Read(s)
<1>1. s.in # <<>> => Tail(s.in) \in Seq(EarlyByte)  BY DEF Early
<1>2. /\ DOMAIN t = SessionField /\ t.out = s.out /\ t.handler = s.handler
      /\ t.onSync = s.onSync /\ t.stage = s.stage
      /\ t.in = IF s.in = <<>> THEN s.in ELSE Tail(s.in)
  BY DEF Early, SessionField, Read
<1> HIDE DEF t
<1> QED  BY <1>1, <1>2 DEF Early, EarlySends, Waited, t

LEMMA EarlySend ==
  ASSUME NEW s, DOMAIN s = SessionField, s.stage = "VerifySignature", s.in \in Seq(EarlyByte),
         NEW h \in EarlyWait, NEW c, Harmless(c)
  PROVE  Early(Send(s, h, c))
<1> DEFINE t == Send(s, h, c)
<1>1. /\ DOMAIN t = SessionField /\ t.out = <<c>> /\ t.handler = h /\ t.stage = s.stage /\ t.in = s.in
  BY DEF SessionField, Send
<1> HIDE DEF t
<1> QED  BY <1>1 DEF Early, EarlySends, Waited, EarlyWait, t

LEMMA EarlySends4 ==
  ASSUME NEW s, DOMAIN s = SessionField, s.stage = "VerifySignature", s.in \in Seq(EarlyByte)
  PROVE  /\ Early(SendSetDevice(s)) /\ Early(SendSetDeviceExt(s))
         /\ Early(SendEnterProgramMode(s)) /\ Early(SendReadSignature(s))
<1>1. \A n : Harmless(SetDeviceCmd(n)) /\ Harmless(SetDeviceExtCmd(n))
             /\ Harmless(EnterProgModeCmd) /\ Harmless(ReadSignCmd)
  BY DEF Harmless, SetDeviceCmd, SetDeviceExtCmd, EnterProgModeCmd, ReadSignCmd
<1>2. \A h \in EarlyWait : \A c : Harmless(c) => Early(Send(s, h, c))  BY EarlySend
<1>3. "SetDevice" \in EarlyWait /\ "SetDeviceExt" \in EarlyWait /\ "EnterProgramMode" \in EarlyWait
      /\ "ReadSignature" \in EarlyWait
  BY DEF EarlyWait
<1> QED
  BY <1>1, <1>2, <1>3, Zenon
  DEF SendSetDevice, SendSetDeviceExt, SendEnterProgramMode, SendReadSignature

LEMMA EarlySync ==
  ASSUME NEW s, Early(s)
  PROVE  Early(SendGetSync(s))
<1> DEFINE t == SendGetSync(s)
<1>1. /\ DOMAIN t = SessionField /\ t.out = <<GetSyncCmd>> /\ t.handler = "GetSync"
      /\ t.onSync = (IF s.handler = "GetSync" THEN s.onSync ELSE s.handler)
      /\ t.stage = s.stage /\ t.in = s.in
  BY DEF Early, SessionField, Send, SendGetSync
<1>2. Harmless(GetSyncCmd)  BY DEF Harmless, GetSyncCmd
<1> HIDE DEF t
<1> QED  BY <1>1, <1>2 DEF Early, EarlySends, Waited, EarlyWait, t

(* Each handler called so early, but for ReadSignature(), leaves the       *)
(* session early.                                                          *)
LEMMA EarlyHandlers ==
  ASSUME NEW s, Early(s)
  PROVE  /\ s.handler = "GetSync" => Early(OnGetSync(s))
         /\ Early(OnSetDevice(s)) /\ Early(OnSetDeviceExt(s)) /\ Early(OnEnterProgramMode(s))
<1> DEFINE r == Read(s)
           g == SendGetSync(r)
<1>1. Early(r) /\ r.handler = s.handler /\ r.onSync = s.onSync  BY EarlyRead
<1> HIDE DEF r
<1>2. DOMAIN r = SessionField /\ r.stage = "VerifySignature" /\ r.in \in Seq(EarlyByte)
  BY <1>1 DEF Early
<1>3. Early(g)  BY <1>1, EarlySync
<1> HIDE DEF g
<1>4. s.handler = "GetSync" => Early(OnGetSync(s))
  <2> DEFINE u == [r EXCEPT !.retries = 0, !.handler = r.onSync]
  <2>1. OnGetSync(s) = IF StatusOK(s) THEN SendAgain(u) ELSE g
    BY Zenon DEF OnGetSync, ResponseStatusOK, With, InSync, r, g
  <2>2. /\ DOMAIN u = SessionField /\ u.onSync = r.onSync /\ u.stage = r.stage /\ u.in = r.in
    BY <1>2 DEF SessionField
  <2> HIDE DEF u
  <2>3. s.handler = "GetSync" => u.onSync \in EarlyWait  BY <1>1, <2>2 DEF Early, Waited
  <2>4. u.onSync \in EarlyWait => Early(SendAgain(u))
    BY <1>2, <2>2, EarlySends4 DEF SendAgain, EarlyWait
  <2> QED  BY <1>3, <2>1, <2>3, <2>4
<1>5. Early(OnSetDevice(s))
  <2>1. OnSetDevice(s) = IF StatusOK(s) THEN SendSetDeviceExt(r) ELSE g
    BY Zenon DEF OnSetDevice, ResponseStatusOK, With, r, g
  <2> QED  BY <1>2, <1>3, <2>1, EarlySends4
<1>6. Early(OnSetDeviceExt(s))
  <2>1. OnSetDeviceExt(s) = IF StatusOK(s) THEN SendEnterProgramMode(r) ELSE g
    BY Zenon DEF OnSetDeviceExt, ResponseStatusOK, With, r, g
  <2> QED  BY <1>2, <1>3, <2>1, EarlySends4
<1>7. Early(OnEnterProgramMode(s))
  <2>1. OnEnterProgramMode(s) = IF StatusOK(s) THEN InProgramMode(r) ELSE g
    BY Zenon DEF OnEnterProgramMode, ResponseStatusOK, With, r, g
  <2>2. InProgramMode(r) = SendReadSignature(r)  BY <1>2 DEF InProgramMode
  <2> QED  BY <1>2, <1>3, <2>1, <2>2, EarlySends4
<1> QED  BY <1>4, <1>5, <1>6, <1>7

(* ReadSignature() itself takes no byte for the signature.                 *)
LEMMA WrongSignature ==
  ASSUME NEW s, Early(s)
  PROVE  OnReadSignature(s) = s \/ OnReadSignature(s) = Fail(Read(s), "Signature")
<1>1. Len(s.in) < 2 \/ Head(s.in) # Signature
  <2>1. s.in \in Seq(EarlyByte)  BY DEF Early
  <2>2. SUFFICES ASSUME ~(Len(s.in) < 2) PROVE Head(s.in) # Signature  OBVIOUS
  <2>3. s.in[1] \in EarlyByte  BY <2>1, <2>2
  <2>4. Signature \notin EarlyByte
    BY DEF EarlyByte, Signature, OtherSignature, STK_OK, STK_FAILED, STK_INSYNC, STK_NOSYNC, FrameError
  <2> QED  BY <2>1, <2>2, <2>3, <2>4
<1> QED  BY <1>1 DEF OnReadSignature

LEMMA StatusReplies ==
  /\ \A d : DoEmptyReply(d).reply \in Seq(EarlyByte)
  /\ \A d : d.fault = "otherSignature" => ReadSignature(d).reply \in Seq(EarlyByte)
<1>1. STK_INSYNC \in EarlyByte /\ STK_OK \in EarlyByte /\ OtherSignature \in EarlyByte
  BY DEF EarlyByte
<1>2. \A a, b, c \in EarlyByte : <<a, b>> \in Seq(EarlyByte) /\ <<a, b, c>> \in Seq(EarlyByte)
  OBVIOUS
<1> QED  BY <1>1, <1>2, Zenon DEF DoEmptyReply, ReadSignature, Answer

LEMMA HarmlessIsp ==
  ASSUME NEW d, Chip(d, "otherSignature"), NEW c, Harmless(c)
  PROVE  /\ Unchanged(d, IspCommand(d, c).target)
         /\ IspCommand(d, c).reply \in Seq(EarlyByte)
<1> DEFINE a == IspCommand(d, c)
<1>1. \A t : DoEmptyReply(t).target = t  BY DEF DoEmptyReply, Answer
<1>2. Unchanged(d, EnterProgMode(d)) /\ Unchanged(d, d)
  BY DEF Chip, ChipField, Unchanged, EnterProgMode
<1>3. d.fault = "otherSignature"  BY DEF Chip
<1>4. CASE c.cmd = "GET_SYNC"
  <2>1. a = DoEmptyReply(d)  BY <1>4 DEF IspCommand
  <2> QED  BY <1>1, <1>2, <2>1, StatusReplies
<1>5. CASE c.cmd = "SET_DEVICE"
  <2> DEFINE t == [d EXCEPT !.eepromSize = c.eepromSize]
  <2>1. a = DoEmptyReply(t)  BY <1>5 DEF IspCommand, SetDeviceProgParams
  <2>2. Unchanged(d, t)  BY DEF Chip, ChipField, Unchanged
  <2> HIDE DEF t
  <2> QED  BY <1>1, <2>1, <2>2, StatusReplies
<1>6. CASE c.cmd = "SET_DEVICE_EXT"
  <2> DEFINE t == [d EXCEPT !.eepromPage = c.eepromPage]
  <2>1. a = DoEmptyReply(t)  BY <1>6 DEF IspCommand, SetExtDeviceProgParams
  <2>2. Unchanged(d, t)  BY DEF Chip, ChipField, Unchanged
  <2> HIDE DEF t
  <2> QED  BY <1>1, <2>1, <2>2, StatusReplies
<1>7. CASE c.cmd = "ENTER_PROGMODE"
  <2>1. a = DoEmptyReply(IF d.held THEN d ELSE EnterProgMode(d))  BY <1>7 DEF IspCommand
  <2> QED  BY <1>1, <1>2, <2>1, StatusReplies
<1>8. CASE c.cmd = "READ_SIGN"
  <2>1. a = ReadSignature(d)  BY <1>8 DEF IspCommand
  <2>2. a.target = d  BY <2>1 DEF ReadSignature, Answer
  <2> QED  BY <1>2, <1>3, <2>1, <2>2, StatusReplies
<1> QED  BY <1>4, <1>5, <1>6, <1>7, <1>8 DEF Harmless

LEMMA HarmlessBootloader ==
  ASSUME NEW d, Chip(d, "otherSignature"), NEW c, Harmless(c)
  PROVE  /\ Unchanged(d, BootloaderCommand(d, c).target)
         /\ BootloaderCommand(d, c).reply \in Seq(EarlyByte)
<1> DEFINE a == BootloaderCommand(d, c)
<1>1. \A t : DoEmptyReply(t).target = t  BY DEF DoEmptyReply, Answer
<1>2. Unchanged(d, d)  BY DEF Unchanged
<1>3. CASE c.cmd # "READ_SIGN"
  <2>1. a = DoEmptyReply(d)  BY <1>3 DEF BootloaderCommand, Harmless
  <2> QED  BY <1>1, <1>2, <2>1, StatusReplies
<1>4. CASE c.cmd = "READ_SIGN"
  <2>1. a = ReadSignature(d)  BY <1>4 DEF BootloaderCommand
  <2>2. a.target = d  BY <2>1 DEF ReadSignature, Answer
  <2> QED  BY <1>2, <2>1, <2>2, StatusReplies DEF Chip
<1> QED  BY <1>3, <1>4

LEMMA StillAsFound ==
  ASSUME NEW d, NEW t, NEW j, AsFound(d, j), Unchanged(d, t)
  PROVE  AsFound(t, j)
BY DEF AsFound, Unchanged

LEMMA InitWrongChip ==
  ASSUME Init
  PROVE  WrongChip
<1>1. PICK j \in Job :
        /\ job = j /\ ses = NewSession(j)
        /\ target = [NewTarget(j.fuse, j.fault) EXCEPT !.held = j.serial /\ Begins(j)]
        /\ mInSession = Begins(j) /\ late = <<>>
  BY DEF Init
<1>2. AsFound(target, job)
  <2> DEFINE d == NewTarget(j.fuse, j.fault)
  <2>1. DOMAIN d = ChipField  BY DEF NewTarget, ChipField
  <2>2. \A b : Unchanged(d, [d EXCEPT !.held = b])  BY <2>1 DEF ChipField, Unchanged
  <2>3. AsFound(d, j)  BY DEF AsFound
  <2> QED  BY <1>1, <2>2, <2>3, StillAsFound
<1>3. Begins(j) => Early(NewSession(j))
  <2> DEFINE s == NewSession(j)
  <2>1. Begins(j) => /\ DOMAIN s = SessionField /\ s.stage = "VerifySignature" /\ s.handler = "GetSync"
                     /\ s.onSync = "SetDevice" /\ s.in = <<>> /\ s.out = <<GetSyncCmd>>
    BY DEF NewSession, SessionField
  <2>2. Harmless(GetSyncCmd) /\ <<>> \in Seq(EarlyByte)  BY DEF Harmless, GetSyncCmd
  <2> HIDE DEF s
  <2>3. Begins(j) => Early(s)  BY <2>1, <2>2 DEF Early, EarlySends, Waited, EarlyWait
  <2> QED  BY <2>3 DEF s
<1>4. <<>> \in Seq(EarlyByte)  OBVIOUS
<1> QED  BY <1>1, <1>2, <1>3, <1>4 DEF WrongChip

LEMMA LoopWrongChip ==
  ASSUME NEW s, IInv, WrongChip, mInSession, Loop(s),
         job.fault = "otherSignature" => Early(s) \/ s.error # "none"
  PROVE  WrongChip'
<1>1. SUFFICES ASSUME job.fault = "otherSignature" PROVE WrongChip'
  BY DEF WrongChip, Loop
<1>2. /\ mInSession' = CanContinue(s) /\ job' = job /\ late' = late
      /\ CanContinue(s) => target' = target
      /\ ~CanContinue(s) => target' = LeaveProgMode(target)
  BY DEF Loop
<1>3. AsFound(target', job)
  <2>1. Unchanged(target, LeaveProgMode(target)) /\ Unchanged(target, target)
    BY DEF IInv, Chip, ChipField, Unchanged, LeaveProgMode
  <2> QED  BY <1>1, <1>2, <2>1, StillAsFound DEF WrongChip
<1>4. CanContinue(s) => Early(ses')
  <2>1. SUFFICES ASSUME CanContinue(s) PROVE Early(ses')  OBVIOUS
  <2>2. Early(s)  BY <1>1, <2>1 DEF CanContinue
  <2> DEFINE left == IF job.serial THEN s.in ELSE <<>>
             u == [s EXCEPT !.in = left]
  <2>3. ses' = u  BY <2>1 DEF Loop
  <2>4. left \in Seq(EarlyByte)  BY <2>2 DEF Early
  <2> HIDE DEF left
  <2>5. /\ DOMAIN u = SessionField /\ u.out = s.out /\ u.handler = s.handler
        /\ u.onSync = s.onSync /\ u.stage = s.stage /\ u.in = left
    BY <2>2 DEF Early, SessionField
  <2> HIDE DEF u
  <2> QED  BY <2>2, <2>3, <2>4, <2>5 DEF Early, EarlySends, Waited
<1> QED  BY <1>1, <1>2, <1>3, <1>4 DEF WrongChip

LEMMA UpdateWrongChip ==
  ASSUME IInv, WrongChip, Update
  PROVE  WrongChip'
<1>1. mInSession /\ \E s : Loop(s)
  BY DEF Update, HandleGetSync, HandleSetDevice, HandleSetDeviceExt, HandleEnterProgramMode,
         HandleLeaveProgramMode, HandleReadSignature, HandleChipErase, HandleVerifyUnlocked,
         HandleVerifyFuse, HandleVerifyLockBits, HandleLoadAddress, HandleLoadExtAddress,
         HandleProcessPage, HandleNoSync, HandleFrameError, HandleUnknown, StartTimer, TimerPasses,
         Handle, Received, Silent
<1>2. job' = job  BY <1>1 DEF Loop
<1>3. SUFFICES ASSUME job.fault = "otherSignature" PROVE WrongChip'
  BY <1>2 DEF WrongChip
<1>4. Early(ses)  BY <1>1, <1>3 DEF WrongChip
<1>5. ASSUME \E s : (Early(s) \/ s.error # "none") /\ Loop(s) PROVE WrongChip'
  BY <1>1, <1>5, LoopWrongChip
<1> DEFINE h == Heard
<1>6. Early(h) /\ h.handler = ses.handler
  <2> DEFINE r == Read(ses)
             u == [r EXCEPT !.timing = FALSE]
  <2>1. Early(r) /\ r.handler = ses.handler  BY <1>4, EarlyRead
  <2> HIDE DEF r
  <2>2. /\ DOMAIN u = SessionField /\ u.out = r.out /\ u.handler = r.handler
        /\ u.onSync = r.onSync /\ u.stage = r.stage /\ u.in = r.in
    BY <2>1 DEF Early, SessionField
  <2>3. h = u  BY DEF Heard, r
  <2> HIDE DEF u, h
  <2> QED  BY <2>1, <2>2, <2>3 DEF Early, EarlySends, Waited
<1>7. ses.handler \in EarlyWait \cup {"GetSync"}  BY <1>4 DEF Early, Waited
<1>8. CASE HandleGetSync
  <2> HIDE DEF h
  <2>1. h.handler = "GetSync" /\ Loop(OnGetSync(h))  BY <1>6, <1>8 DEF HandleGetSync, Handle, h
  <2> QED  BY <1>5, <1>6, <2>1, EarlyHandlers
<1>9. CASE HandleSetDevice
  <2> HIDE DEF h
  <2>1. Loop(OnSetDevice(h))  BY <1>9 DEF HandleSetDevice, Handle, h
  <2> QED  BY <1>5, <1>6, <2>1, EarlyHandlers
<1>10. CASE HandleSetDeviceExt
  <2> HIDE DEF h
  <2>1. Loop(OnSetDeviceExt(h))  BY <1>10 DEF HandleSetDeviceExt, Handle, h
  <2> QED  BY <1>5, <1>6, <2>1, EarlyHandlers
<1>11. CASE HandleEnterProgramMode
  <2> HIDE DEF h
  <2>1. Loop(OnEnterProgramMode(h))  BY <1>11 DEF HandleEnterProgramMode, Handle, h
  <2> QED  BY <1>5, <1>6, <2>1, EarlyHandlers
<1>12. CASE HandleReadSignature
  <2> HIDE DEF h
  <2>1. Loop(OnReadSignature(h))  BY <1>12 DEF HandleReadSignature, Handle, h
  <2> DEFINE r == Read(h)
  <2>2. DOMAIN r = SessionField  BY <1>6, EarlyRead DEF Early
  <2>3. OnReadSignature(h) = h \/ OnReadSignature(h) = Fail(r, "Signature")  BY <1>6, WrongSignature
  <2> HIDE DEF r
  <2>4. Fail(r, "Signature").error # "none"  BY <2>2 DEF Fail, SessionField
  <2> QED  BY <1>5, <1>6, <2>1, <2>3, <2>4
<1>13. CASE HandleLeaveProgramMode \/ HandleChipErase \/ HandleVerifyUnlocked \/ HandleVerifyFuse
            \/ HandleVerifyLockBits \/ HandleLoadAddress \/ HandleLoadExtAddress \/ HandleProcessPage
  BY <1>7, <1>13
  DEF EarlyWait, HandleLeaveProgramMode, HandleChipErase, HandleVerifyUnlocked, HandleVerifyFuse,
      HandleVerifyLockBits, HandleLoadAddress, HandleLoadExtAddress, HandleProcessPage, Handle
<1>14. CASE HandleNoSync
  <2> HIDE DEF h
  <2> DEFINE k == [h EXCEPT !.retries = @ + 1]
  <2>1. Loop(SendGetSync(k)) \/ Loop(Fail(h, "Sync"))
    BY <1>14 DEF HandleNoSync, h
  <2>2. Early(k)
    <3>1. /\ DOMAIN k = SessionField /\ k.out = h.out /\ k.handler = h.handler
          /\ k.onSync = h.onSync /\ k.stage = h.stage /\ k.in = h.in
      BY <1>6 DEF Early, SessionField
    <3> HIDE DEF k
    <3> QED  BY <1>6, <3>1 DEF Early, EarlySends, Waited
  <2> HIDE DEF k
  <2>3. Fail(h, "Sync").error # "none"  BY <1>6 DEF Fail, Early, SessionField
  <2> QED  BY <1>5, <2>1, <2>2, <2>3, EarlySync
<1>15. CASE HandleFrameError
  BY <1>5, <1>6, <1>15 DEF HandleFrameError
<1>16. CASE HandleUnknown \/ TimerPasses
  <2> HIDE DEF h
  <2>1. Loop(Fail([h EXCEPT !.in = <<>>], "Unknown")) \/ Loop(Fail(ses, "Timeout"))
    BY <1>16 DEF HandleUnknown, TimerPasses, h
  <2>2. Fail([h EXCEPT !.in = <<>>], "Unknown").error # "none" /\ Fail(ses, "Timeout").error # "none"
    BY <1>4, <1>6 DEF Fail, Early, SessionField
  <2> QED  BY <1>5, <2>1, <2>2
<1>17. CASE StartTimer
  <2> DEFINE u == [ses EXCEPT !.timing = TRUE]
  <2>1. Loop(u)  BY <1>17 DEF StartTimer
  <2>2. /\ DOMAIN u = SessionField /\ u.out = ses.out /\ u.handler = ses.handler
        /\ u.onSync = ses.onSync /\ u.stage = ses.stage /\ u.in = ses.in
    BY <1>4 DEF Early, SessionField
  <2> HIDE DEF u
  <2>3. Early(u)  BY <1>4, <2>2 DEF Early, EarlySends, Waited
  <2> QED  BY <1>5, <2>1, <2>3
<1> QED
  BY <1>8, <1>9, <1>10, <1>11, <1>12, <1>13, <1>14, <1>15, <1>16, <1>17 DEF Update

(* The other end took the command, if it took it, and the answer, or what  *)
(* is left of it, is now in s.in and later.                                *)
LEMMA AnsweredWrongChip ==
  ASSUME IInv, WrongChip, mInSession, UNCHANGED <<job, mInSession>>,
         NEW now, ses' = [ses EXCEPT !.out = <<>>, !.in = now],
         job.fault = "otherSignature" =>
           now \in Seq(EarlyByte) /\ late' \in Seq(EarlyByte) /\ Unchanged(target, target')
  PROVE  WrongChip'
<1>1. SUFFICES ASSUME job.fault = "otherSignature" PROVE WrongChip'
  BY DEF WrongChip
<1>2. Early(ses) /\ AsFound(target', job)  BY <1>1, StillAsFound DEF WrongChip
<1> DEFINE u == [ses EXCEPT !.out = <<>>, !.in = now]
<1>3. /\ DOMAIN u = SessionField /\ u.out = <<>> /\ u.handler = ses.handler
      /\ u.onSync = ses.onSync /\ u.stage = ses.stage /\ u.in = now
  BY <1>2 DEF Early, SessionField
<1>4. ses' = u  OBVIOUS
<1> HIDE DEF u
<1>5. Early(ses')  BY <1>1, <1>2, <1>3, <1>4 DEF Early, EarlySends, Waited
<1> QED  BY <1>1, <1>2, <1>5 DEF WrongChip

LEMMA CommandHarmless ==
  ASSUME WrongChip, mInSession, job.fault = "otherSignature", ses.out # <<>>
  PROVE  Harmless(Head(ses.out)) /\ ses.in \in Seq(EarlyByte)
BY DEF WrongChip, Early, EarlySends

LEMMA IspUpdateWrongChip ==
  ASSUME IInv, WrongChip, IspUpdate
  PROVE  WrongChip'
<1>1. /\ mInSession /\ ses.out # <<>>
      /\ target' = IspCommand(target, Head(ses.out)).target
      /\ ses' = [ses EXCEPT !.out = <<>>, !.in = IspCommand(target, Head(ses.out)).reply]
      /\ UNCHANGED <<job, late, mInSession, faults>>
  BY DEF IspUpdate
<1>2. job.fault = "otherSignature" =>
        /\ IspCommand(target, Head(ses.out)).reply \in Seq(EarlyByte)
        /\ Unchanged(target, target') /\ late' \in Seq(EarlyByte)
  BY <1>1, CommandHarmless, HarmlessIsp DEF IInv, WrongChip
<1> QED  BY <1>1, <1>2, AnsweredWrongChip

LEMMA LineWrongChip ==
  ASSUME NEW t, NEW now, NEW later, NEW cost, IInv, WrongChip, Pending, Line(t, now, later, cost),
         job.fault = "otherSignature" =>
           now \in Seq(EarlyByte) /\ later \in Seq(EarlyByte) /\ Unchanged(target, t)
  PROVE  WrongChip'
<1> DEFINE all == ses.in \o now
<1>1. /\ mInSession /\ target' = t /\ late' = later /\ ses.out # <<>>
      /\ ses' = [ses EXCEPT !.out = <<>>, !.in = all]
      /\ UNCHANGED <<job, mInSession>>
  BY DEF Line, Pending
<1>2. job.fault = "otherSignature" => all \in Seq(EarlyByte)
  BY <1>1, CommandHarmless
<1> HIDE DEF all
<1> QED  BY <1>1, <1>2, AnsweredWrongChip

LEMMA BootloaderWrongChip ==
  ASSUME IInv, WrongChip, Bootloader \/ LineFault
  PROVE  WrongChip'
<1> DEFINE other == job.fault = "otherSignature"
           r == Executed.reply
<1>1. ASSUME Pending, other
      PROVE  r \in Seq(EarlyByte) /\ Unchanged(target, Executed.target) /\ Unchanged(target, target)
  <2>1. Harmless(Command) /\ Chip(target, "otherSignature")
    BY <1>1, CommandHarmless DEF Pending, Command, IInv
  <2> QED  BY <2>1, HarmlessBootloader DEF Executed, Unchanged
<1> HIDE DEF r
<1>2. /\ <<>> \in Seq(EarlyByte) /\ <<STK_NOSYNC>> \in Seq(EarlyByte)
      /\ <<FrameError>> \in Seq(EarlyByte) /\ STK_FAILED \in EarlyByte
  <2>1. STK_NOSYNC \in EarlyByte /\ FrameError \in EarlyByte /\ STK_FAILED \in EarlyByte
    BY DEF EarlyByte
  <2>2. \A b \in EarlyByte : <<b>> \in Seq(EarlyByte)  OBVIOUS
  <2> QED  BY <2>1, <2>2
<1>3. CASE BootloaderAnswers
  BY <1>1, <1>2, <1>3, LineWrongChip DEF BootloaderAnswers, r
<1>4. CASE LateBytes
  <2> DEFINE all == ses.in \o late
             u == [ses EXCEPT !.in = all]
  <2>1. /\ mInSession /\ UNCHANGED <<job, target, mInSession>> /\ late' = <<>> /\ ses' = u
    BY <1>4 DEF LateBytes
  <2>2. SUFFICES ASSUME other PROVE WrongChip'  BY <2>1 DEF WrongChip
  <2>3. Early(ses) /\ AsFound(target, job)  BY <2>1, <2>2 DEF WrongChip
  <2>4. all \in Seq(EarlyByte)  BY <2>2, <2>3 DEF WrongChip, Early
  <2> HIDE DEF all
  <2>5. /\ DOMAIN u = SessionField /\ u.out = ses.out /\ u.handler = ses.handler
        /\ u.onSync = ses.onSync /\ u.stage = ses.stage /\ u.in = all
    BY <2>3 DEF Early, SessionField
  <2> HIDE DEF u
  <2>6. Early(ses')  BY <2>1, <2>3, <2>4, <2>5 DEF Early, EarlySends, Waited
  <2> QED  BY <1>2, <2>1, <2>3, <2>6 DEF WrongChip
<1>5. CASE CommandLost
  BY <1>1, <1>2, <1>5, LineWrongChip DEF CommandLost
<1>6. CASE AnswerLost
  BY <1>1, <1>2, <1>6, LineWrongChip DEF AnswerLost
<1>7. CASE NotInSync
  BY <1>1, <1>2, <1>7, LineWrongChip DEF NotInSync
<1>8. CASE DataGarbled
  <2>1. \E t, now : Pending /\ Command.cmd = "PROG_PAGE" /\ Line(t, now, <<>>, 1)
    BY <1>8 DEF DataGarbled
  <2>2. ~other  BY <2>1, CommandHarmless DEF Pending, Command, Harmless
  <2> QED  BY <2>1, <2>2, LineWrongChip
<1>9. CASE StatusGarbled
  <2> DEFINE now == [r EXCEPT ![Len(r)] = STK_FAILED]
  <2>1. Pending /\ Line(Executed.target, now, <<>>, 1)
    BY <1>9 DEF StatusGarbled, r
  <2>2. r \in Seq(EarlyByte) => now \in Seq(EarlyByte)
    <3>1. r \in Seq(EarlyByte) => Len(r) \in 1 .. Len(r) \/ DOMAIN r = {}  OBVIOUS
    <3>2. DOMAIN r = {} => now = r  OBVIOUS
    <3> QED  BY <1>2, <3>1, <3>2, ExceptSeq
  <2> HIDE DEF now
  <2> QED  BY <1>1, <1>2, <2>1, <2>2, LineWrongChip
<1>10. CASE Glitch
  <2> DEFINE now == <<FrameError>> \o r
  <2>1. Pending /\ Line(Executed.target, now, <<>>, 1)  BY <1>10 DEF Glitch, r
  <2>2. r \in Seq(EarlyByte) => now \in Seq(EarlyByte)  BY <1>2
  <2> HIDE DEF now
  <2> QED  BY <1>1, <1>2, <2>1, <2>2, LineWrongChip
<1>11. CASE AnswerPauses
  <2>1. Pending  BY <1>11 DEF AnswerPauses
  <2>2. PICK k \in 1 .. Len(r) - 1 :
          Line(Executed.target, SubSeq(r, 1, k), SubSeq(r, k + 1, Len(r)), 1)
    BY <1>11 DEF AnswerPauses, r
  <2> DEFINE now == SubSeq(r, 1, k)
             later == SubSeq(r, k + 1, Len(r))
  <2>3. r \in Seq(EarlyByte) => now \in Seq(EarlyByte) /\ later \in Seq(EarlyByte)
    <3>1. SUFFICES ASSUME r \in Seq(EarlyByte)
                   PROVE  now \in Seq(EarlyByte) /\ later \in Seq(EarlyByte)
      OBVIOUS
    <3> DEFINE n == Len(r)
    <3>2. n \in Nat /\ k \in 1 .. n /\ k + 1 \in 1 .. n /\ \A i \in 1 .. n : r[i] \in EarlyByte
      BY <3>1
    <3> HIDE DEF n
    <3>3. \A i \in 1 .. k : r[i] \in EarlyByte  BY <3>2
    <3>4. \A i \in k + 1 .. n : r[i] \in EarlyByte  BY <3>2
    <3>5. SubSeq(r, 1, k) \in Seq(EarlyByte)  BY <3>2, <3>3, SubSeqProperties
    <3>6. SubSeq(r, k + 1, n) \in Seq(EarlyByte)  BY <3>2, <3>4, SubSeqProperties
    <3> QED  BY <3>5, <3>6 DEF n
  <2> HIDE DEF now, later
  <2>4. Line(Executed.target, now, later, 1)  BY <2>2 DEF now, later
  <2> QED  BY <1>1, <2>1, <2>3, <2>4, LineWrongChip
<1> QED
  BY <1>3, <1>4, <1>5, <1>6, <1>7, <1>8, <1>9, <1>10, <1>11 DEF Bootloader, LineFault

LEMMA NextWrongChip ==
  ASSUME IInv, WrongChip, [Next]_vars
  PROVE  WrongChip'
<1>1. ASSUME UNCHANGED vars PROVE WrongChip'
  <2>1. job' = job /\ ses' = ses /\ target' = target /\ mInSession' = mInSession /\ late' = late
    BY <1>1 DEF vars
  <2> QED  BY <2>1 DEF WrongChip
<1> QED  BY <1>1, UpdateWrongChip, IspUpdateWrongChip, BootloaderWrongChip DEF Next, Over

(* A chip with another signature is left as it was found, whatever job it  *)
(* is and whatever goes wrong on the line: no answer, late, repeated or    *)
(* cut off, is taken for the signature, and the commands sent before it    *)
(* change nothing (ReadSignature() and the handlers before it).            *)
THEOREM WrongChipTheorem == Spec => []WrongChipIsUntouched
<1>1. Init => IInv /\ WrongChip  BY InitType, InitWrongChip
<1>2. IInv /\ WrongChip /\ [Next]_vars => (IInv /\ WrongChip)'  BY NextType, NextWrongChip
<1>3. IInv /\ WrongChip => WrongChipIsUntouched
  BY DEF IInv, Chip, WrongChip, AsFound, WrongChipIsUntouched
<1> QED  BY <1>1, <1>2, <1>3, PTL DEF Spec

-----------------------------------------------------------------------------
(* A session that sets fuses and lock bits.  The fuses of the stages       *)
(* behind it are configured, the handler that waits belongs to its stage,  *)
(* and what VerifyFuse() or VerifyLockBits() takes for a value read from   *)
(* the chip is one.                                                        *)

Done(stage) ==
  CASE stage \in {"VerifySignature", "VerifyUnlocked", "VerifyExtendedFuse"} -> {}
    [] stage = "VerifyHighFuse" -> {"extended"}
    [] stage = "VerifyLowFuse" -> {"extended", "high"}
    [] OTHER -> Fuse
Behind(stage, d) == \A f \in Done(stage) : d.fuse[f] = "configured"

FileStage == {"LoadingFlash", "VerifyingFlash"}
StageOf(h) ==
  CASE h \in {"SetDevice", "SetDeviceExt"} -> {"VerifySignature"}
    [] h = "EnterProgramMode" -> {"VerifySignature", "VerifyUnlocked", "LoadingFlash"}
    [] h \in {"VerifyLockBits", "LeaveProgramMode"} -> {"VerifyLockBits"}
    [] h \in FileStep -> FileStage
    [] h = "VerifyFuse" -> FuseStage
    [] OTHER -> Stage \ {"SessionCompleted"}

(* The command asks for a value, Question(s), which is Fact(s, d).         *)
Reads(s) == s.handler \in {"VerifyFuse", "VerifyLockBits"} /\ "FuseWriteResponse" \notin s.modifier
Question(s) ==
  UniversalCmd(IF s.handler = "VerifyFuse" THEN [op |-> "readFuse", fuse |-> FuseOf(s)]
               ELSE [op |-> "readLock"])
Fact(s, d) == IF s.handler = "VerifyFuse" THEN d.fuse[FuseOf(s)] ELSE d.lock

Careful(s, d) ==
  /\ Behind(s.stage, d)
  /\ s.stage \in StageOf(Waited(s))
  /\ Waited(s) = "LeaveProgramMode" =>
       /\ d.lock = "locked"
       /\ s.out = <<>> \/ \E c : s.out = <<c>> /\ c \in {GetSyncCmd, LeaveProgModeCmd}
  /\ Reads(s) => s.out = <<>> \/ s.out = <<Question(s)>>
Sure(s, d) == s.error = "none" => Careful(s, d)
Answered(s, d) == Reads(s) /\ s.in # <<>> => s.in = <<STK_INSYNC, Fact(s, d), STK_OK>>

Configured(d) == d.lock = "locked" /\ \A f \in Fuse : d.fuse[f] = "configured"

Configuring ==
  /\ ~job.serial => late = <<>>
  /\ job.set /\ Begins(job) =>
       IF mInSession THEN Careful(ses, target) /\ Answered(ses, target)
                     ELSE ses.error = "none" => Configured(target)

LEMMA CarefulSend ==
  ASSUME NEW s, Session(s), NEW d, NEW c,
         NEW h \in Handler \ {"GetSync", "LeaveProgramMode", "VerifyFuse", "VerifyLockBits"},
         Behind(s.stage, d), s.stage \in StageOf(h)
  PROVE  Careful(Send(s, h, c), d)
<1> DEFINE t == Send(s, h, c)
<1>1. t.handler = h /\ t.stage = s.stage  BY DEF Session, SessionField, Send
<1> HIDE DEF t
<1>2. Waited(t) = h /\ ~Reads(t) /\ h # "LeaveProgramMode"  BY <1>1 DEF Waited, Reads
<1> QED  BY <1>1, <1>2 DEF Careful, t

LEMMA CarefulLeave ==
  ASSUME NEW s, Session(s), NEW d, Behind(s.stage, d), s.stage = "VerifyLockBits", d.lock = "locked"
  PROVE  Careful(SendLeaveProgramMode(s), d)
<1> DEFINE t == SendLeaveProgramMode(s)
<1>1. t.handler = "LeaveProgramMode" /\ t.stage = s.stage /\ t.out = <<LeaveProgModeCmd>>
  BY DEF Session, SessionField, Send, SendLeaveProgramMode
<1> HIDE DEF t
<1>2. s.stage \in StageOf("LeaveProgramMode")  BY DEF StageOf, FileStep
<1>3. Waited(t) = "LeaveProgramMode" /\ ~Reads(t)  BY <1>1 DEF Waited, Reads
<1> QED  BY <1>1, <1>2, <1>3 DEF Careful, t

(* A value is asked for, or one is written.                                *)
LEMMA CarefulFuse ==
  ASSUME NEW s, Session(s), NEW d, Behind(s.stage, d), s.stage \in FuseStage
  PROVE  /\ Careful(SendVerifyFuse(s), d)
         /\ \A c : "FuseWriteResponse" \in s.modifier => Careful(Send(s, "VerifyFuse", c), d)
<1> DEFINE t(c) == Send(s, "VerifyFuse", c)
           q == UniversalCmd([op |-> "readFuse", fuse |-> FuseOf(s)])
<1>1. \A c : /\ t(c).handler = "VerifyFuse" /\ t(c).stage = s.stage /\ t(c).out = <<c>>
             /\ t(c).modifier = s.modifier
  BY DEF Session, SessionField, Send
<1>2. SendVerifyFuse(s) = t(q)  BY DEF SendVerifyFuse
<1> HIDE DEF t
<1>3. s.stage \in StageOf("VerifyFuse")  BY DEF StageOf, FileStep
<1>4. \A c : Waited(t(c)) = "VerifyFuse"  BY <1>1 DEF Waited
<1>5. \A c : Question(t(c)) = q  BY <1>1 DEF Question, FuseOf
<1> HIDE DEF q
<1>6. \A c : (c = q \/ "FuseWriteResponse" \in s.modifier) => Careful(t(c), d)
  BY <1>1, <1>3, <1>4, <1>5 DEF Careful, Reads
<1> QED  BY <1>2, <1>6 DEF t

LEMMA CarefulLock ==
  ASSUME NEW s, Session(s), NEW d, Behind(s.stage, d), s.stage = "VerifyLockBits"
  PROVE  /\ Careful(SendVerifyLockBits(s), d)
         /\ \A c : "FuseWriteResponse" \in s.modifier => Careful(Send(s, "VerifyLockBits", c), d)
<1> DEFINE t(c) == Send(s, "VerifyLockBits", c)
           q == UniversalCmd([op |-> "readLock"])
<1>1. \A c : /\ t(c).handler = "VerifyLockBits" /\ t(c).stage = s.stage /\ t(c).out = <<c>>
             /\ t(c).modifier = s.modifier
  BY DEF Session, SessionField, Send
<1>2. SendVerifyLockBits(s) = t(q)  BY DEF SendVerifyLockBits
<1> HIDE DEF t
<1>3. s.stage \in StageOf("VerifyLockBits")  BY DEF StageOf, FileStep
<1>4. \A c : Waited(t(c)) = "VerifyLockBits"  BY <1>1 DEF Waited
<1>5. \A c : Question(t(c)) = q  BY <1>1 DEF Question
<1> HIDE DEF q
<1>6. \A c : (c = q \/ "FuseWriteResponse" \in s.modifier) => Careful(t(c), d)
  BY <1>1, <1>3, <1>4, <1>5 DEF Careful, Reads
<1> QED  BY <1>2, <1>6 DEF t

LEMMA CarefulSync ==
  ASSUME NEW s, Session(s), NEW d, Careful(s, d)
  PROVE  Careful(SendGetSync(s), d)
<1> DEFINE t == SendGetSync(s)
<1>1. /\ t.out = <<GetSyncCmd>> /\ t.handler = "GetSync"
      /\ t.onSync = (IF s.handler = "GetSync" THEN s.onSync ELSE s.handler)
      /\ t.stage = s.stage
  BY DEF Session, SessionField, Send, SendGetSync
<1> HIDE DEF t
<1>2. Waited(t) = Waited(s) /\ ~Reads(t)  BY <1>1 DEF Waited, Reads
<1> QED  BY <1>1, <1>2 DEF Careful, t

LEMMA CarefulRead ==
  ASSUME NEW s, Session(s), NEW d, Careful(s, d)
  PROVE  /\ Careful(Read(s), d) /\ Read(s).modifier = s.modifier
         /\ s.in # <<>> => Read(s).in = Tail(s.in)
<1> DEFINE t == Read(s)
<1>1. /\ t.out = s.out /\ t.handler = s.handler /\ t.onSync = s.onSync /\ t.stage = s.stage
      /\ t.modifier = s.modifier /\ (s.in # <<>> => t.in = Tail(s.in))
  BY DEF Session, SessionField, Read
<1> HIDE DEF t
<1>2. Waited(t) = Waited(s) /\ (Reads(t) <=> Reads(s)) /\ Question(t) = Question(s)
  BY <1>1 DEF Waited, Reads, Question, FuseOf
<1> QED  BY <1>1, <1>2 DEF Careful, t

LEMMA FailSure ==
  ASSUME NEW s, Session(s), NEW d, NEW e \in Error \ {"none"}
  PROVE  Sure(Fail(s, e), d)
BY DEF Session, SessionField, Fail, Sure

LEMMA DoneStages ==
  /\ \A st \in {"VerifySignature", "VerifyUnlocked", "VerifyExtendedFuse"} : Done(st) = {}
  /\ Done("VerifyHighFuse") = {"extended"} /\ Done("VerifyLowFuse") = {"extended", "high"}
  /\ \A st \in FileStage \cup {"VerifyLockBits"} : Done(st) = Fuse
BY DEF Done, FileStage

LEMMA CarefulVerifyLocks ==
  ASSUME NEW s, Session(s), NEW d, Done(s.stage) = Fuse, Behind(s.stage, d)
  PROVE  Careful(VerifyLocks(s), d)
<1> DEFINE t == [s EXCEPT !.stage = "VerifyLockBits", !.modifier = {}]
<1>1. Session(t) /\ t.stage = "VerifyLockBits"  BY DEF Session, SessionField, Stage
<1> HIDE DEF t
<1>2. Behind(t.stage, d)  BY <1>1, DoneStages DEF Behind
<1>3. VerifyLocks(s) = SendVerifyLockBits(t)  BY DEF VerifyLocks, t
<1> QED  BY <1>1, <1>2, <1>3, CarefulLock

LEMMA NotProgramming ==
  ASSUME job.set
  PROVE  ~IsProgramming /\ Memory = "flash" /\ \A s : Finished(s) = VerifyLocks(s)
BY DEF Operation, IsProgramming, Memory, Finished

LEMMA FileSteps ==
  /\ FileStep \subseteq Handler \ {"GetSync", "LeaveProgramMode", "VerifyFuse", "VerifyLockBits"}
  /\ \A h \in FileStep : StageOf(h) = FileStage
  /\ FileStage \subseteq Stage
BY DEF FileStep, Handler, StageOf, FileStage, Stage

LEMMA SureWithRecord ==
  ASSUME NEW s, Good(s, job), HasFile(job), s.error = "none", NEW d, Careful(s, d)
  PROVE  Sure(WithRecord(s), d)
<1> DEFINE W(x) == IF x.type = "invalid" THEN Fail([s EXCEPT !.hex = x], "LoadHexData")
                   ELSE [s EXCEPT !.hex = x]
           h == LoadNextDataRecord(TheFile, s.hex)
           t == [s EXCEPT !.hex = h]
<1>1. WithRecord(s) = s \/ WithRecord(s) = W(h)
  <2>1. With(h, W) = W(h)
    <3> HIDE DEF W
    <3> QED  BY Zenon DEF With
  <2> QED  BY <2>1, Zenon DEF WithRecord
<1>2. Session(s)  BY DEF Good
<1>3. Placed(h)  BY <1>2, FileType, NextDataType DEF Session, Placed
<1> HIDE DEF h
<1>4. Session(t)  BY <1>2, <1>3, HexSession
<1>5. /\ t.out = s.out /\ t.handler = s.handler /\ t.onSync = s.onSync /\ t.stage = s.stage
      /\ t.modifier = s.modifier
  BY <1>2 DEF Session, SessionField
<1>6. W(h) = t \/ W(h) = Fail(t, "LoadHexData")  OBVIOUS
<1> HIDE DEF W, t
<1>7. Waited(t) = Waited(s) /\ (Reads(t) <=> Reads(s)) /\ Question(t) = Question(s)
  BY <1>5 DEF Waited, Reads, Question, FuseOf
<1>8. Careful(t, d)  BY <1>5, <1>7 DEF Careful
<1>9. Sure(Fail(t, "LoadHexData"), d)  BY <1>4, FailSure DEF Error
<1> QED  BY <1>1, <1>6, <1>8, <1>9 DEF Sure

LEMMA SureSendPage ==
  ASSUME NEW s, Session(s), HasFile(job), NEW d, Behind(s.stage, d), s.stage \in FileStage
  PROVE  Sure(SendPage(s), d)
<1> DEFINE l == LoadPageFromSD(TheFile, s.hex, s.words)
           t == [s EXCEPT !.hex = l.hex]
           W(x) == LET u == [s EXCEPT !.hex = x.hex] IN
                   IF x.ok THEN Send(u, "ProcessPage", ProgPageCmd(Memory, x.data))
                   ELSE Fail(Send(u, "ProcessPage", TruncatedCmd), "LoadHexData")
<1>1. With(l, W) = W(l)
  <2> HIDE DEF W
  <2> QED  BY Zenon DEF With
<1>2. SendPage(s) = IF Loading(s) THEN With(l, W) ELSE Send(s, "ProcessPage", ReadPageCmd(Memory, s.words))
  BY Zenon DEF SendPage
<1>3. Placed(l.hex)  BY LoadedType
<1> HIDE DEF l
<1>4. Session(t) /\ t.stage = s.stage  BY <1>3, HexSession
<1>5. W(l) = IF l.ok THEN Send(t, "ProcessPage", ProgPageCmd(Memory, l.data))
             ELSE Fail(Send(t, "ProcessPage", TruncatedCmd), "LoadHexData")
  OBVIOUS
<1> HIDE DEF W, t
<1>6. "ProcessPage" \in FileStep /\ "ProcessPage" \in Handler /\ "LoadHexData" \in Error \ {"none"}
  BY DEF FileStep, Handler, Error
<1>7. \A c : Careful(Send(t, "ProcessPage", c), d) /\ Careful(Send(s, "ProcessPage", c), d)
  BY <1>4, <1>6, FileSteps, CarefulSend
<1>8. Sure(Fail(Send(t, "ProcessPage", TruncatedCmd), "LoadHexData"), d)
  BY <1>4, <1>6, SendSession, FailSure
<1> QED  BY <1>1, <1>2, <1>5, <1>7, <1>8 DEF Sure

LEMMA SureSendPageOrAddress ==
  ASSUME NEW s, Session(s), HasFile(job), NEW d, Behind(s.stage, d), s.stage \in FileStage
  PROVE  Sure(SendPageOrAddress(s), d)
<1>1. \A b : /\ Session([s EXCEPT !.bank = b]) /\ Session([s EXCEPT !.page = b])
             /\ [s EXCEPT !.bank = b].stage = s.stage /\ [s EXCEPT !.page = b].stage = s.stage
  BY DEF Session, SessionField
<1>2. "LoadAddress" \in FileStep /\ "LoadExtAddress" \in FileStep  BY DEF FileStep
<1>3. \A t : Session(t) /\ t.stage = s.stage
               => Careful(SendLoadAddress(t), d) /\ Careful(SendLoadExtAddress(t), d)
  BY <1>2, FileSteps, CarefulSend DEF SendLoadAddress, SendLoadExtAddress
<1>4. \A b : Careful(SendLoadExtAddress([s EXCEPT !.bank = b]), d) /\ Careful(SendLoadAddress([s EXCEPT !.page = b]), d)
  BY <1>1, <1>3
<1> QED  BY <1>4, SureSendPage DEF SendPageOrAddress, Sure

LEMMA SureFirstVerified ==
  ASSUME NEW s, Good(s, job), HasFile(job), s.error = "none", Loading(s), job.set,
         NEW d, Behind(s.stage, d), s.stage \in FileStage
  PROVE  Sure(FirstVerified(s), d)
<1> DEFINE u == StartVerifying(s)
           t == WithRecord(u)
           W(x) == IF x.error # "none" THEN x
                   ELSE IF x.hex.type = "eof" THEN Finished(x) ELSE SendPageOrAddress(x)
<1>1. With(t, W) = W(t)
  <2> HIDE DEF W
  <2> QED  BY Zenon DEF With
<1>2. FirstVerified(s) = With(t, W)  BY Zenon DEF FirstVerified
<1>3. Good(u, job) /\ u.error = "none" /\ u.stage = "VerifyingFlash"
  <2>1. Session(s) /\ Waited(s) # "VerifyFuse" /\ Sends(s) /\ s.stage = "LoadingFlash"
    BY DEF Good, Fits, Loading, FuseStage, FileStage
  <2>2. /\ DOMAIN u = SessionField /\ u.error = "none" /\ u.hex = Rewind
        /\ u.stage = "VerifyingFlash"
        /\ u.words = (IF job.serial THEN SerialPage ELSE s.words)
        /\ u.modifier = s.modifier /\ u.handler = s.handler /\ u.onSync = s.onSync
        /\ u.retries = s.retries /\ u.out = s.out
    BY <2>1 DEF StartVerifying, Session, SessionField
  <2> HIDE DEF u
  <2>3. Session(u)  BY <2>1, <2>2, RewindPlaced DEF Session, Stage, PageSize
  <2> QED  BY <2>1, <2>2, <2>3 DEF Good, Fits, Sends, Waited
<1> HIDE DEF u
<1>4. Good(t, job) /\ t.stage = "VerifyingFlash"  BY <1>3, WithRecordGood
<1>5. Session(t)  BY <1>4 DEF Good
<1> HIDE DEF t
<1>6. Done(t.stage) = Fuse /\ Behind(t.stage, d) /\ t.stage \in FileStage
  BY <1>4, DoneStages DEF Behind, FileStage
<1>7. Careful(Finished(t), d) /\ Sure(SendPageOrAddress(t), d)
  BY <1>5, <1>6, NotProgramming, CarefulVerifyLocks, SureSendPageOrAddress
<1>8. Sure(W(t), d)  BY <1>7 DEF Sure
<1> QED  BY <1>1, <1>2, <1>8

LEMMA SureEndOfFile ==
  ASSUME NEW s, Good(s, job), HasFile(job), s.error = "none", job.set,
         NEW d, Careful(s, d), s.stage \in FileStage
  PROVE  Sure(EndOfFile(s), d)
<1> DEFINE r == Read(s)
<1>1. ResponseStatusOK(s, FirstVerified) = IF StatusOK(s) THEN FirstVerified(r) ELSE SendGetSync(r)
  BY Zenon DEF ResponseStatusOK, With
<1>2. Good(r, job) /\ r.error = "none" /\ r.stage = s.stage  BY ReadGood
<1>3. Careful(r, d) /\ Session(r) /\ Session(s)  BY <1>2, CarefulRead DEF Good
<1> HIDE DEF r
<1>4. Careful(SendGetSync(r), d)  BY <1>3, CarefulSync
<1>5. Loading(s) => Sure(FirstVerified(r), d)
  BY <1>2, <1>3, SureFirstVerified DEF Loading, Careful
<1>6. Careful(Finished(s), d)
  BY <1>3, NotProgramming, CarefulVerifyLocks, DoneStages DEF Careful
<1> QED  BY <1>1, <1>4, <1>5, <1>6 DEF EndOfFile, Sure

LEMMA SureSendProcessPage ==
  ASSUME NEW s, Good(s, job), HasFile(job), s.error = "none", job.set,
         NEW d, Careful(s, d), s.stage \in FileStage
  PROVE  Sure(SendProcessPage(s), d)
<1> DEFINE t == WithRecord(s)
           W(x) == IF x.error # "none" THEN x
                   ELSE IF x.hex.type = "eof" THEN EndOfFile(x) ELSE SendPageOrAddress(x)
<1>1. With(t, W) = W(t)
  <2> HIDE DEF W
  <2> QED  BY Zenon DEF With
<1>2. SendProcessPage(s) = With(t, W)  BY Zenon DEF SendProcessPage
<1>3. Good(t, job) /\ Session(t) /\ t.stage = s.stage  BY WithRecordGood DEF Good
<1>4. Sure(t, d)  BY SureWithRecord
<1> HIDE DEF t
<1>5. t.error = "none" => Sure(EndOfFile(t), d) /\ Sure(SendPageOrAddress(t), d)
  BY <1>3, <1>4, SureEndOfFile, SureSendPageOrAddress DEF Sure, Careful
<1>6. Sure(W(t), d)  BY <1>4, <1>5
<1> QED  BY <1>1, <1>2, <1>6

LEMMA SureVerifiedPage ==
  ASSUME NEW s, Good(s, job), HasFile(job), NEW d, Careful(s, d)
  PROVE  Sure(VerifiedPage(s), d) /\ VerifiedPage(s).stage = s.stage
<1> DEFINE l == LoadPageFromSD(TheFile, s.hex, s.words)
           t == [s EXCEPT !.hex = l.hex]
           w(v) == [t EXCEPT !.in = v]
           W(x) == LET u == [s EXCEPT !.hex = x.hex] IN
                   IF ~x.ok THEN Fail(u, "LoadHexData")
                   ELSE IF Len(u.in) < s.words \/ SubSeq(u.in, 1, s.words) # x.data THEN Fail(u, "Verification")
                   ELSE [u EXCEPT !.in = SubSeq(@, s.words + 1, Len(@))]
<1>1. With(l, W) = W(l)
  <2> HIDE DEF W
  <2> QED  BY Zenon DEF With
<1>2. VerifiedPage(s) = With(l, W)  BY Zenon DEF VerifiedPage
<1>3. Placed(l.hex) /\ Session(s)  BY LoadedType DEF Good
<1> HIDE DEF l
<1>4. Session(t)  BY <1>3, HexSession
<1>5. /\ t.out = s.out /\ t.handler = s.handler /\ t.onSync = s.onSync /\ t.stage = s.stage
      /\ t.modifier = s.modifier /\ DOMAIN t = SessionField
  BY <1>3 DEF Session, SessionField
<1>6. W(l) = Fail(t, "LoadHexData") \/ W(l) = Fail(t, "Verification") \/ \E v : W(l) = w(v)
  OBVIOUS
<1> HIDE DEF W, t
<1>7. Sure(Fail(t, "LoadHexData"), d) /\ Sure(Fail(t, "Verification"), d)
  BY <1>4, FailSure DEF Error
<1>8. Fail(t, "LoadHexData").stage = s.stage /\ Fail(t, "Verification").stage = s.stage
  BY <1>5 DEF Fail
<1>9. \A v : /\ w(v).out = s.out /\ w(v).handler = s.handler /\ w(v).onSync = s.onSync
             /\ w(v).stage = s.stage /\ w(v).modifier = s.modifier
  BY <1>5 DEF SessionField
<1> HIDE DEF w
<1>10. \A v : /\ Waited(w(v)) = Waited(s) /\ (Reads(w(v)) <=> Reads(s))
              /\ Question(w(v)) = Question(s)
  BY <1>9 DEF Waited, Reads, Question, FuseOf
<1>11. \A v : Careful(w(v), d)  BY <1>9, <1>10 DEF Careful
<1> QED  BY <1>1, <1>2, <1>6, <1>7, <1>8, <1>9, <1>11 DEF Sure

LEMMA SureProcessPage ==
  ASSUME NEW s, Good(s, job), HasFile(job), s.error = "none", job.set,
         NEW d, Careful(s, d), s.stage \in FileStage
  PROVE  Sure(OnProcessPage(s), d)
<1> DEFINE t == WithRecord(s)
           u == IF Verifying(t) THEN VerifiedPage(t) ELSE t
           X(y) == IF y.error # "none" THEN y ELSE ResponseStatusOK(y, SendProcessPage)
           W(x) == IF x.error # "none" THEN x
                   ELSE IF x.hex.type = "eof" THEN EndOfFile(x)
                   ELSE With(IF Verifying(x) THEN VerifiedPage(x) ELSE x, LAMBDA y :
                          IF y.error # "none" THEN y ELSE ResponseStatusOK(y, SendProcessPage))
<1>1. With(t, W) = W(t)
  <2> HIDE DEF W
  <2> QED  BY Zenon DEF With
<1>2. With(u, X) = X(u)
  <2> HIDE DEF X, u
  <2> QED  BY Zenon DEF With
<1>3. OnProcessPage(s) = With(t, W)  BY Zenon DEF OnProcessPage
<1>4. W(t) = IF t.error # "none" THEN t ELSE IF t.hex.type = "eof" THEN EndOfFile(t) ELSE With(u, X)
  BY Zenon
<1>5. Good(t, job) /\ Sure(t, d) /\ t.stage = s.stage  BY WithRecordGood, SureWithRecord
<1> HIDE DEF W, t
<1>6. t.error = "none" => /\ Good(u, job) /\ Sure(u, d) /\ u.stage = s.stage
                          /\ Sure(EndOfFile(t), d)
  BY <1>5, VerifiedPageGood, SureVerifiedPage, SureEndOfFile DEF Sure
<1> HIDE DEF u
<1>7. t.error = "none" => Sure(X(u), d)
  <2> DEFINE r == Read(u)
  <2>1. ResponseStatusOK(u, SendProcessPage) = IF StatusOK(u) THEN SendProcessPage(r) ELSE SendGetSync(r)
    BY Zenon DEF ResponseStatusOK, With
  <2>2. SUFFICES ASSUME t.error = "none", u.error = "none"
                 PROVE  Sure(ResponseStatusOK(u, SendProcessPage), d)
    BY <1>6
  <2>3. Good(r, job) /\ r.error = "none" /\ r.stage = s.stage  BY <1>6, <2>2, ReadGood
  <2>4. Session(u) /\ Careful(u, d) /\ Session(r)  BY <1>6, <2>2, <2>3 DEF Sure, Good
  <2>5. Careful(r, d)  BY <2>4, CarefulRead
  <2> HIDE DEF r
  <2>6. Sure(SendProcessPage(r), d) /\ Sure(SendGetSync(r), d)
    BY <2>3, <2>4, <2>5, SureSendProcessPage, CarefulSync DEF Sure
  <2> QED  BY <2>1, <2>6
<1> HIDE DEF X
<1> QED  BY <1>1, <1>2, <1>3, <1>4, <1>5, <1>6, <1>7

LEMMA CarefulSends ==
  ASSUME NEW s, Session(s), NEW d, Behind(s.stage, d)
  PROVE  /\ s.stage = "VerifySignature" => Careful(SendSetDevice(s), d) /\ Careful(SendSetDeviceExt(s), d)
         /\ s.stage \in StageOf("EnterProgramMode") => Careful(SendEnterProgramMode(s), d)
         /\ s.stage # "SessionCompleted" =>
              /\ Careful(SendReadSignature(s), d) /\ Careful(SendChipErase(s), d)
              /\ Careful(SendVerifyUnlocked(s), d)
         /\ s.stage \in FileStage => Careful(SendLoadAddress(s), d) /\ Careful(SendLoadExtAddress(s), d)
<1> DEFINE Plain == Handler \ {"GetSync", "LeaveProgramMode", "VerifyFuse", "VerifyLockBits"}
<1>1. \A h \in Plain : \A c : s.stage \in StageOf(h) => Careful(Send(s, h, c), d)
  BY CarefulSend
<1>2. /\ "SetDevice" \in Plain /\ "SetDeviceExt" \in Plain /\ "EnterProgramMode" \in Plain
      /\ "ReadSignature" \in Plain /\ "ChipErase" \in Plain /\ "VerifyUnlocked" \in Plain
      /\ "LoadAddress" \in Plain /\ "LoadExtAddress" \in Plain
  BY DEF Handler
<1>3. /\ StageOf("SetDevice") = {"VerifySignature"} /\ StageOf("SetDeviceExt") = {"VerifySignature"}
      /\ StageOf("ReadSignature") = Stage \ {"SessionCompleted"}
      /\ StageOf("ChipErase") = Stage \ {"SessionCompleted"}
      /\ StageOf("VerifyUnlocked") = Stage \ {"SessionCompleted"}
      /\ StageOf("LoadAddress") = FileStage /\ StageOf("LoadExtAddress") = FileStage
  BY DEF StageOf, FileStep
<1>4. s.stage \in Stage  BY DEF Session
<1> HIDE DEF Plain
<1>5. s.stage = "VerifySignature" => Careful(SendSetDevice(s), d) /\ Careful(SendSetDeviceExt(s), d)
  BY <1>1, <1>2, <1>3 DEF SendSetDevice, SendSetDeviceExt
<1>6. s.stage \in StageOf("EnterProgramMode") => Careful(SendEnterProgramMode(s), d)
  BY <1>1, <1>2 DEF SendEnterProgramMode
<1>7. s.stage # "SessionCompleted" =>
        /\ Careful(SendReadSignature(s), d) /\ Careful(SendChipErase(s), d)
        /\ Careful(SendVerifyUnlocked(s), d)
  BY <1>1, <1>2, <1>3, <1>4 DEF SendReadSignature, SendChipErase, SendVerifyUnlocked
<1>8. s.stage \in FileStage => Careful(SendLoadAddress(s), d) /\ Careful(SendLoadExtAddress(s), d)
  BY <1>1, <1>2, <1>3 DEF SendLoadAddress, SendLoadExtAddress
<1> QED  BY <1>5, <1>6, <1>7, <1>8

LEMMA SureInSync ==
  ASSUME NEW s, Good(s, job), s.error = "none", s.handler = "GetSync", job.set,
         NEW d, Careful(s, d)
  PROVE  Sure(InSync(s), d)
<1> DEFINE u == [s EXCEPT !.retries = 0, !.handler = s.onSync]
<1>1. Session(s)  BY DEF Good
<1>2. /\ DOMAIN u = SessionField /\ u.out = s.out /\ u.handler = s.onSync
      /\ u.onSync = s.onSync /\ u.stage = s.stage /\ u.error = "none"
      /\ u.modifier = s.modifier /\ u.retries = 0 /\ u.hex = s.hex /\ u.words = s.words
  BY <1>1 DEF Session, SessionField
<1>3. InSync(s) = SendAgain(u)  BY DEF InSync
<1> HIDE DEF u
<1>4. Session(u)  BY <1>1, <1>2, BoundAssumption DEF Session
<1>5. Good(u, job)  BY <1>2, <1>4 DEF Good, Fits, Sends, Waited
<1>6. u.onSync \in Handler \ {"GetSync"}  BY <1>1, <1>2 DEF Session
<1>7. Behind(u.stage, d) /\ u.stage \in StageOf(u.onSync)
  BY <1>2 DEF Careful, Waited
<1>8. u.onSync \in {"ReadSignature", "ChipErase", "VerifyUnlocked"} => u.stage # "SessionCompleted"
  BY <1>7 DEF StageOf, FileStep
<1>9. u.onSync = "LeaveProgramMode" => d.lock = "locked" /\ u.stage = "VerifyLockBits"
  BY <1>2, <1>7 DEF Careful, Waited, StageOf, FileStep
<1>10. u.onSync = "VerifyLockBits" => u.stage = "VerifyLockBits"
  BY <1>7 DEF StageOf, FileStep
<1>11. u.onSync = "VerifyFuse" => u.stage \in FuseStage
  BY <1>7 DEF StageOf, FileStep
<1>12. u.onSync \in {"SetDevice", "SetDeviceExt"} => u.stage = "VerifySignature"
  BY <1>7 DEF StageOf, FileStep
<1>13. u.onSync \in FileStep => u.stage \in FileStage
  BY <1>7, FileSteps
<1>14. u.onSync = "ProcessPage" => Sure(SendProcessPage(u), d)
  <2>1. SUFFICES ASSUME u.onSync = "ProcessPage" PROVE Sure(SendProcessPage(u), d)  OBVIOUS
  <2>2. Waited(u) = "ProcessPage" /\ ~Reads(u)  BY <1>2, <2>1 DEF Waited, Reads
  <2>3. Careful(u, d)  BY <1>2, <1>7, <2>1, <2>2 DEF Careful
  <2>4. HasFile(job) /\ u.stage \in FileStage
    BY <1>5, <1>2, <1>13, <2>1, <2>2 DEF Good, Fits, FileStep
  <2> QED  BY <1>2, <1>5, <2>3, <2>4, SureSendProcessPage
<1>15. ASSUME u.onSync \in {"SetDevice", "SetDeviceExt", "EnterProgramMode", "ReadSignature",
                            "ChipErase", "VerifyUnlocked"}
       PROVE  Careful(SendAgain(u), d)
  <2>1. /\ u.onSync \in {"SetDevice", "SetDeviceExt"}
             => Careful(SendSetDevice(u), d) /\ Careful(SendSetDeviceExt(u), d)
        /\ u.onSync = "EnterProgramMode" => Careful(SendEnterProgramMode(u), d)
        /\ u.onSync \in {"ReadSignature", "ChipErase", "VerifyUnlocked"} =>
             /\ Careful(SendReadSignature(u), d) /\ Careful(SendChipErase(u), d)
             /\ Careful(SendVerifyUnlocked(u), d)
    BY <1>4, <1>7, <1>12, <1>8, CarefulSends
  <2> QED  BY <1>15, <2>1 DEF SendAgain
<1>16. ASSUME u.onSync \in FileStep PROVE Sure(SendAgain(u), d)
  <2>1. Careful(SendLoadAddress(u), d) /\ Careful(SendLoadExtAddress(u), d)
    BY <1>4, <1>7, <1>13, <1>16, CarefulSends
  <2> QED  BY <1>14, <1>16, <2>1 DEF SendAgain, FileStep, Sure
<1>17. ASSUME u.onSync = "LeaveProgramMode" PROVE Careful(SendAgain(u), d)
  <2>1. Careful(SendLeaveProgramMode(u), d)  BY <1>4, <1>7, <1>9, <1>17, CarefulLeave
  <2> QED  BY <1>17, <2>1 DEF SendAgain
<1>18. ASSUME u.onSync \in {"VerifyFuse", "VerifyLockBits"} PROVE Careful(SendAgain(u), d)
  <2>1. u.onSync = "VerifyFuse" => Careful(SendVerifyFuse(u), d)
    BY <1>4, <1>7, <1>11, CarefulFuse
  <2>2. u.onSync = "VerifyLockBits" => Careful(SendVerifyLockBits(u), d)
    BY <1>4, <1>7, <1>10, CarefulLock
  <2> QED  BY <1>18, <2>1, <2>2 DEF SendAgain
<1> QED  BY <1>3, <1>6, <1>15, <1>16, <1>17, <1>18 DEF Handler, FileStep, Sure

LEMMA SureInProgramMode ==
  ASSUME NEW s, Good(s, job), s.error = "none", s.handler = "EnterProgramMode",
         job.set, job \in Job, Begins(job), NEW d, Careful(s, d)
  PROVE  Sure(InProgramMode(s), d)
<1>1. Session(s) /\ Behind(s.stage, d)  BY DEF Good, Careful
<1>2. s.stage \in {"VerifySignature", "VerifyUnlocked", "LoadingFlash"}
  BY DEF Careful, Waited, StageOf, FileStep
<1>3. Careful(SendReadSignature(s), d)  BY <1>1, <1>2, CarefulSends
<1>4. Careful(SendVerifyUnlocked([s EXCEPT !.modifier = {}]), d)
  <2> DEFINE u == [s EXCEPT !.modifier = {}]
  <2>1. Session(u) /\ u.stage = s.stage  BY <1>1 DEF Session, SessionField
  <2> HIDE DEF u
  <2>2. Careful(SendVerifyUnlocked(u), d)  BY <1>1, <1>2, <2>1, CarefulSends
  <2> QED  BY <2>2 DEF u
<1>5. ASSUME s.stage = "LoadingFlash"
      PROVE  /\ Careful(VerifyLocks(s), d)
             /\ Operation = "SetFusesAndBootloader" => Sure(SendProcessPage([s EXCEPT !.spi = "fast"]), d)
  <2>1. Done(s.stage) = Fuse /\ s.stage \in FileStage  BY <1>5, DoneStages DEF FileStage
  <2>2. Careful(VerifyLocks(s), d)  BY <1>1, <2>1, CarefulVerifyLocks
  <2> DEFINE u == [s EXCEPT !.spi = "fast"]
  <2>3. /\ DOMAIN u = SessionField /\ u.out = s.out /\ u.handler = s.handler
        /\ u.onSync = s.onSync /\ u.stage = s.stage /\ u.error = s.error
        /\ u.modifier = s.modifier /\ u.retries = s.retries /\ u.hex = s.hex /\ u.words = s.words
    BY <1>1 DEF Session, SessionField
  <2> HIDE DEF u
  <2>4. Good(u, job)  BY <1>1, <2>3 DEF Good, Session, Fits, Sends, Waited
  <2>5. Waited(u) = "EnterProgramMode" /\ Waited(s) = "EnterProgramMode" /\ ~Reads(u)
    BY <2>3 DEF Waited, Reads
  <2>6. Careful(u, d)  BY <2>3, <2>5 DEF Careful
  <2>7. Operation = "SetFusesAndBootloader" => HasFile(job)
    BY BegunHasFile DEF Operation, NeedsFile
  <2>8. Operation = "SetFusesAndBootloader" => Sure(SendProcessPage(u), d)
    BY <2>1, <2>3, <2>4, <2>6, <2>7, SureSendProcessPage
  <2> QED  BY <2>2, <2>8 DEF u
<1> QED  BY <1>2, <1>3, <1>4, <1>5 DEF InProgramMode, Sure

LEMMA CarefulErasing ==
  ASSUME NEW s, Session(s), job.set, NEW d
  PROVE  Careful(Erasing(s), d)
<1> DEFINE u == [s EXCEPT !.stage = "VerifyUnlocked"]
<1>1. Session(u) /\ u.stage = "VerifyUnlocked"  BY DEF Session, SessionField, Stage
<1>2. Erasing(s) = SendEnterProgramMode(u)  BY NotProgramming DEF Erasing
<1> HIDE DEF u
<1>3. Behind(u.stage, d) /\ u.stage \in StageOf("EnterProgramMode")
  BY <1>1, DoneStages DEF Behind, StageOf, FileStep
<1> QED  BY <1>1, <1>2, <1>3, CarefulSends

(* From one fuse to the next when it is as configured.                     *)
LEMMA CarefulNextFuse ==
  ASSUME NEW s, Session(s), s.stage \in FuseStage,
         NEW d, Behind(s.stage, d), d.fuse[FuseOf(s)] = "configured"
  PROVE  Careful(NextFuse(s), d)
<1>1. ASSUME NEW st \in {"VerifyHighFuse", "VerifyLowFuse"}, Behind(st, d)
      PROVE  Careful(SendVerifyFuse([s EXCEPT !.stage = st, !.modifier = {}]), d)
  <2> DEFINE u == [s EXCEPT !.stage = st, !.modifier = {}]
  <2>1. Session(u) /\ u.stage = st  BY DEF Session, SessionField, Stage
  <2> HIDE DEF u
  <2>2. Careful(SendVerifyFuse(u), d)  BY <1>1, <2>1, CarefulFuse DEF FuseStage
  <2> QED  BY <2>2 DEF u
<1>2. CASE s.stage = "VerifyExtendedFuse"
  <2>1. Behind("VerifyHighFuse", d)  BY <1>2, DoneStages DEF Behind, FuseOf
  <2> QED  BY <1>1, <1>2, <2>1 DEF NextFuse
<1>3. CASE s.stage = "VerifyHighFuse"
  <2>1. Behind("VerifyLowFuse", d)  BY <1>3, DoneStages DEF Behind, FuseOf
  <2> QED  BY <1>1, <1>3, <2>1 DEF NextFuse
<1>4. CASE s.stage = "VerifyLowFuse"
  <2> DEFINE u == [s EXCEPT !.stage = "LoadingFlash"]
  <2>1. Session(u) /\ u.stage = "LoadingFlash"  BY DEF Session, SessionField, Stage
  <2>2. NextFuse(s) = SendEnterProgramMode(u)  BY <1>4 DEF NextFuse
  <2> HIDE DEF u
  <2>3. Done("LoadingFlash") = Fuse  BY DoneStages DEF FileStage
  <2>4. Behind(u.stage, d)  BY <1>4, <2>1, <2>3, DoneStages DEF Behind, FuseOf, Fuse
  <2>5. u.stage \in StageOf("EnterProgramMode")  BY <2>1 DEF StageOf, FileStep
  <2> QED  BY <2>1, <2>2, <2>4, <2>5, CarefulSends
<1> QED  BY <1>2, <1>3, <1>4 DEF FuseStage

(* What is done with the byte read, t being the session behind it.         *)
LEMMA FuseReadSure ==
  ASSUME NEW t, Session(t), t.handler = "VerifyFuse", t.stage \in FuseStage, NEW same \in BOOLEAN,
         NEW d, Behind(t.stage, d),
         same /\ "FuseWriteResponse" \notin t.modifier => d.fuse[FuseOf(t)] = "configured"
  PROVE  Sure(ReadTwice(t, same, SendVerifyFuse, UniversalCmd([op |-> "writeFuse", fuse |-> FuseOf(t)]),
                        NextFuse, "Fuse"), d)
<1> DEFINE u(m) == [t EXCEPT !.modifier = m]
           c == UniversalCmd([op |-> "writeFuse", fuse |-> FuseOf(t)])
           w == {"FuseWriteResponse", "FuseWritten"}
<1>1. \A m : m \subseteq Modifier => Session(u(m)) /\ u(m).stage = t.stage /\ u(m).modifier = m
  BY DEF Session, SessionField
<1>2. t.modifier \ {"FuseWriteResponse"} \subseteq Modifier /\ {"FuseVerified"} \subseteq Modifier
      /\ w \subseteq Modifier
  BY DEF Session, Modifier
<1>3. ReadTwice(t, same, SendVerifyFuse, c, NextFuse, "Fuse")
        \in {SendVerifyFuse(u(t.modifier \ {"FuseWriteResponse"})), SendVerifyFuse(u({"FuseVerified"})),
             Fail(t, "Fuse"), Send(u(w), "VerifyFuse", c)}
      \/ /\ same /\ "FuseWriteResponse" \notin t.modifier
         /\ ReadTwice(t, same, SendVerifyFuse, c, NextFuse, "Fuse") = NextFuse(t)
  BY DEF ReadTwice
<1> HIDE DEF u, c
<1>4. \A m : m \subseteq Modifier => Careful(SendVerifyFuse(u(m)), d)
  BY <1>1, CarefulFuse
<1>5. Careful(Send(u(w), "VerifyFuse", c), d)
  <2>1. Session(u(w)) /\ Behind(u(w).stage, d) /\ u(w).stage \in FuseStage
        /\ "FuseWriteResponse" \in u(w).modifier
    BY <1>1, <1>2
  <2> QED  BY <2>1, CarefulFuse
<1>6. Sure(Fail(t, "Fuse"), d)  BY FailSure DEF Error
<1>7. same /\ "FuseWriteResponse" \notin t.modifier => Careful(NextFuse(t), d)
  BY CarefulNextFuse
<1> QED  BY <1>2, <1>3, <1>4, <1>5, <1>6, <1>7 DEF Sure, c

LEMMA LockReadSure ==
  ASSUME NEW t, Session(t), t.handler = "VerifyLockBits", t.stage = "VerifyLockBits",
         NEW same \in BOOLEAN, NEW d, Behind(t.stage, d),
         same /\ "FuseWriteResponse" \notin t.modifier => d.lock = "locked"
  PROVE  Sure(ReadTwice(t, same, SendVerifyLockBits, UniversalCmd([op |-> "writeLock"]),
                        SendLeaveProgramMode, "Lock"), d)
<1> DEFINE u(m) == [t EXCEPT !.modifier = m]
           c == UniversalCmd([op |-> "writeLock"])
           w == {"FuseWriteResponse", "FuseWritten"}
<1>1. \A m : m \subseteq Modifier => Session(u(m)) /\ u(m).stage = t.stage /\ u(m).modifier = m
  BY DEF Session, SessionField
<1>2. t.modifier \ {"FuseWriteResponse"} \subseteq Modifier /\ {"FuseVerified"} \subseteq Modifier
      /\ w \subseteq Modifier
  BY DEF Session, Modifier
<1>3. ReadTwice(t, same, SendVerifyLockBits, c, SendLeaveProgramMode, "Lock")
        \in {SendVerifyLockBits(u(t.modifier \ {"FuseWriteResponse"})),
             SendVerifyLockBits(u({"FuseVerified"})),
             Fail(t, "Lock"), Send(u(w), "VerifyLockBits", c)}
      \/ /\ same /\ "FuseWriteResponse" \notin t.modifier
         /\ ReadTwice(t, same, SendVerifyLockBits, c, SendLeaveProgramMode, "Lock")
              = SendLeaveProgramMode(t)
  BY DEF ReadTwice
<1> HIDE DEF u, c
<1>4. \A m : m \subseteq Modifier => Careful(SendVerifyLockBits(u(m)), d)
  BY <1>1, CarefulLock
<1>5. Careful(Send(u(w), "VerifyLockBits", c), d)
  <2>1. Session(u(w)) /\ Behind(u(w).stage, d) /\ u(w).stage = "VerifyLockBits"
        /\ "FuseWriteResponse" \in u(w).modifier
    BY <1>1, <1>2
  <2> QED  BY <2>1, CarefulLock
<1>6. Sure(Fail(t, "Lock"), d)  BY FailSure DEF Error
<1>7. same /\ "FuseWriteResponse" \notin t.modifier => Careful(SendLeaveProgramMode(t), d)
  BY CarefulLeave
<1> QED  BY <1>2, <1>3, <1>4, <1>5, <1>6, <1>7 DEF Sure, c

(* The handlers, called with what the target answered.                     *)
Truthful(s, d) == Reads(s) /\ s.in # <<>> => Head(s.in) = Fact(s, d)

LEMMA StatusHandlersSure ==
  ASSUME NEW s, Good(s, job), s.error = "none", job.set, job \in Job, Begins(job),
         NEW d, Careful(s, d)
  PROVE  /\ s.handler = "GetSync" => Sure(OnGetSync(s), d)
         /\ s.handler = "SetDevice" => Sure(OnSetDevice(s), d)
         /\ s.handler = "SetDeviceExt" => Sure(OnSetDeviceExt(s), d)
         /\ s.handler = "EnterProgramMode" => Sure(OnEnterProgramMode(s), d)
         /\ s.handler = "LeaveProgramMode" => Sure(OnLeaveProgramMode(s), d) \/ Configured(d)
         /\ s.handler = "LoadAddress" => Sure(OnLoadAddress(s), d)
<1> DEFINE r == Read(s)
           g == SendGetSync(r)
<1>1. Good(r, job) /\ r.error = "none" /\ r.handler = s.handler /\ Waited(r) = Waited(s)
      /\ r.stage = s.stage
  BY ReadGood
<1>2. Session(s) /\ Session(r) /\ Careful(r, d)  BY <1>1, CarefulRead DEF Good
<1> HIDE DEF r
<1>3. Sure(g, d)  BY <1>2, CarefulSync DEF Sure
<1> HIDE DEF g
<1>4. Behind(r.stage, d) /\ (s.handler # "GetSync" => r.stage \in StageOf(s.handler))
  BY <1>1, <1>2 DEF Careful, Waited
<1>5. s.handler = "GetSync" => Sure(OnGetSync(s), d)
  <2>1. OnGetSync(s) = IF StatusOK(s) THEN InSync(r) ELSE g
    BY Zenon DEF OnGetSync, ResponseStatusOK, With, r, g
  <2> QED  BY <1>1, <1>2, <1>3, <2>1, SureInSync
<1>6. s.handler = "SetDevice" => Sure(OnSetDevice(s), d)
  <2>1. OnSetDevice(s) = IF StatusOK(s) THEN SendSetDeviceExt(r) ELSE g
    BY Zenon DEF OnSetDevice, ResponseStatusOK, With, r, g
  <2>2. s.handler = "SetDevice" => r.stage = "VerifySignature"  BY <1>4 DEF StageOf, FileStep
  <2>3. s.handler = "SetDevice" => Careful(SendSetDeviceExt(r), d)  BY <1>2, <1>4, <2>2, CarefulSends
  <2> QED  BY <1>3, <2>1, <2>3 DEF Sure
<1>7. s.handler = "SetDeviceExt" => Sure(OnSetDeviceExt(s), d)
  <2>1. OnSetDeviceExt(s) = IF StatusOK(s) THEN SendEnterProgramMode(r) ELSE g
    BY Zenon DEF OnSetDeviceExt, ResponseStatusOK, With, r, g
  <2>2. s.handler = "SetDeviceExt" => r.stage \in StageOf("EnterProgramMode")
    BY <1>4 DEF StageOf, FileStep
  <2>3. s.handler = "SetDeviceExt" => Careful(SendEnterProgramMode(r), d)
    BY <1>2, <1>4, <2>2, CarefulSends
  <2> QED  BY <1>3, <2>1, <2>3 DEF Sure
<1>8. s.handler = "EnterProgramMode" => Sure(OnEnterProgramMode(s), d)
  <2>1. OnEnterProgramMode(s) = IF StatusOK(s) THEN InProgramMode(r) ELSE g
    BY Zenon DEF OnEnterProgramMode, ResponseStatusOK, With, r, g
  <2> QED  BY <1>1, <1>2, <1>3, <2>1, SureInProgramMode
<1>9. s.handler = "LeaveProgramMode" => Configured(d)
  <2>1. s.handler = "LeaveProgramMode" => d.lock = "locked" /\ s.stage = "VerifyLockBits" /\ Behind(s.stage, d)
    BY <1>1, <1>4 DEF Careful, Waited, StageOf, FileStep
  <2> QED  BY <2>1, DoneStages DEF Configured, Behind
<1>10. s.handler = "LoadAddress" => Sure(OnLoadAddress(s), d)
  <2>1. OnLoadAddress(s) = IF StatusOK(s) THEN SendProcessPage(r) ELSE g
    BY Zenon DEF OnLoadAddress, ResponseStatusOK, With, r, g
  <2>2. s.handler = "LoadAddress" => HasFile(job) /\ r.stage \in FileStage
    BY <1>4, FileSteps DEF Good, Fits, Waited, FileStep
  <2> QED  BY <1>1, <1>2, <1>3, <2>1, <2>2, SureSendProcessPage
<1> QED  BY <1>5, <1>6, <1>7, <1>8, <1>9, <1>10

LEMMA ByteHandlersSure ==
  ASSUME NEW s, Good(s, job), s.error = "none", job.set, job \in Job, Begins(job),
         NEW d, Careful(s, d), Truthful(s, d)
  PROVE  /\ s.handler = "ReadSignature" => Sure(OnReadSignature(s), d)
         /\ s.handler = "ChipErase" => Sure(OnChipErase(s), d)
         /\ s.handler = "VerifyUnlocked" => Sure(OnVerifyUnlocked(s), d)
         /\ s.handler = "VerifyFuse" => Sure(OnVerifyFuse(s), d)
         /\ s.handler = "VerifyLockBits" => Sure(OnVerifyLockBits(s), d)
         /\ s.handler = "LoadExtAddress" => Sure(OnLoadExtAddress(s), d)
<1> DEFINE r == Read(s)
           q == Read(r)
           g == SendGetSync(q)
<1>1. Good(r, job) /\ r.error = "none" /\ r.handler = s.handler /\ r.stage = s.stage
  BY ReadGood
<1>2. Session(s) /\ Session(r) /\ Careful(r, d) /\ r.modifier = s.modifier
  BY <1>1, CarefulRead DEF Good
<1> HIDE DEF r
<1>3. Good(q, job) /\ q.error = "none" /\ q.handler = s.handler /\ q.stage = s.stage
  BY <1>1, ReadGood
<1>4. Session(q) /\ Careful(q, d) /\ q.modifier = s.modifier
  BY <1>2, <1>3, CarefulRead DEF Good
<1> HIDE DEF q
<1>5. Sure(g, d) /\ Sure(s, d)  BY <1>4, CarefulSync DEF Sure
<1> HIDE DEF g
<1>6. Behind(q.stage, d) /\ (s.handler # "GetSync" => q.stage \in StageOf(s.handler))
  BY <1>3, <1>4 DEF Careful, Waited
<1>7. s.handler = "ReadSignature" => Sure(OnReadSignature(s), d)
  <2>1. OnReadSignature(s) = IF Len(s.in) < 2 THEN s
                             ELSE IF Head(s.in) # Signature THEN Fail(r, "Signature")
                             ELSE IF StatusOK(r) THEN SendChipErase(q) ELSE g
    BY Zenon DEF OnReadSignature, ResponseStatusOK, With, r, q, g
  <2>2. Sure(Fail(r, "Signature"), d)  BY <1>2, FailSure DEF Error
  <2>3. s.handler = "ReadSignature" => q.stage # "SessionCompleted"  BY <1>6 DEF StageOf, FileStep
  <2>4. s.handler = "ReadSignature" => Sure(SendChipErase(q), d)
    BY <1>4, <1>6, <2>3, CarefulSends DEF Sure
  <2> QED  BY <1>5, <2>1, <2>2, <2>4
<1>8. s.handler = "ChipErase" => Sure(OnChipErase(s), d)
  <2>1. OnChipErase(s) = IF s.in = <<>> THEN s ELSE IF StatusOK(r) THEN Erasing(q) ELSE g
    BY Zenon DEF OnChipErase, OnByte, ResponseStatusOK, With, r, q, g
  <2> QED  BY <1>4, <1>5, <2>1, CarefulErasing DEF Sure
<1>9. s.handler = "VerifyUnlocked" => Sure(OnVerifyUnlocked(s), d)
  <2> DEFINE K(t) == IF Head(s.in) # "unlocked" THEN Fail(t, "Unlock")
                     ELSE IF "FuseVerified" \in t.modifier
                       THEN SendVerifyFuse([t EXCEPT !.stage = "VerifyExtendedFuse", !.modifier = {}])
                     ELSE SendVerifyUnlocked([t EXCEPT !.modifier = @ \cup {"FuseVerified"}])
             u == [q EXCEPT !.stage = "VerifyExtendedFuse", !.modifier = {}]
             v == [q EXCEPT !.modifier = @ \cup {"FuseVerified"}]
  <2>1. OnVerifyUnlocked(s) = IF s.in = <<>> THEN s ELSE IF StatusOK(r) THEN K(q) ELSE g
    <3>1. With(q, K) = K(q)
      <4> HIDE DEF K
      <4> QED  BY Zenon DEF With
    <3>2. OnVerifyUnlocked(s) = IF s.in = <<>> THEN s ELSE IF StatusOK(r) THEN With(q, K) ELSE g
      BY Zenon DEF OnVerifyUnlocked, OnByte, ResponseStatusOK, r, q, g
    <3> QED  BY <3>1, <3>2
  <2>2. K(q) \in {Fail(q, "Unlock"), SendVerifyFuse(u), SendVerifyUnlocked(v)}  OBVIOUS
  <2> HIDE DEF K
  <2>3. Sure(Fail(q, "Unlock"), d)  BY <1>4, FailSure DEF Error
  <2>4. Sure(SendVerifyFuse(u), d)
    <3>1. Session(u) /\ u.stage = "VerifyExtendedFuse"  BY <1>4 DEF Session, SessionField, Stage
    <3> HIDE DEF u
    <3>2. Behind(u.stage, d)  BY <3>1, DoneStages DEF Behind
    <3> QED  BY <3>1, <3>2, CarefulFuse DEF Sure, FuseStage
  <2>5. s.handler = "VerifyUnlocked" => Sure(SendVerifyUnlocked(v), d)
    <3>1. Session(v) /\ v.stage = q.stage  BY <1>4 DEF Session, SessionField, Modifier
    <3> HIDE DEF v
    <3>2. s.handler = "VerifyUnlocked" => v.stage # "SessionCompleted"
      BY <1>6, <3>1 DEF StageOf, FileStep
    <3> QED  BY <1>6, <3>1, <3>2, CarefulSends DEF Sure
  <2> QED  BY <1>5, <2>1, <2>2, <2>3, <2>4, <2>5
<1>10. s.handler = "VerifyFuse" => Sure(OnVerifyFuse(s), d)
  <2> DEFINE same == Head(s.in) = "configured"
             c == ReadTwice(q, same, SendVerifyFuse,
                            UniversalCmd([op |-> "writeFuse", fuse |-> FuseOf(q)]), NextFuse, "Fuse")
  <2>1. OnVerifyFuse(s) = IF s.in = <<>> THEN s ELSE IF StatusOK(r) THEN c ELSE g
    BY Zenon DEF OnVerifyFuse, OnByte, ResponseStatusOK, With, r, q, g
  <2>2. ASSUME s.handler = "VerifyFuse", s.in # <<>> PROVE Sure(c, d)
    <3>1. q.stage \in FuseStage  BY <1>6, <2>2 DEF StageOf, FileStep
    <3>2. FuseOf(q) = FuseOf(s)  BY <1>3 DEF FuseOf
    <3>3. same /\ "FuseWriteResponse" \notin q.modifier => d.fuse[FuseOf(q)] = "configured"
      BY <1>4, <2>2, <3>2 DEF Truthful, Reads, Fact
    <3>4. same \in BOOLEAN  OBVIOUS
    <3> HIDE DEF same
    <3> QED  BY <1>3, <1>4, <1>6, <2>2, <3>1, <3>3, <3>4, FuseReadSure
  <2> HIDE DEF c
  <2> QED  BY <1>5, <2>1, <2>2
<1>11. s.handler = "VerifyLockBits" => Sure(OnVerifyLockBits(s), d)
  <2> DEFINE same == Head(s.in) = "locked"
             c == ReadTwice(q, same, SendVerifyLockBits,
                            UniversalCmd([op |-> "writeLock"]), SendLeaveProgramMode, "Lock")
  <2>1. OnVerifyLockBits(s) = IF s.in = <<>> THEN s ELSE IF StatusOK(r) THEN c ELSE g
    BY Zenon DEF OnVerifyLockBits, OnByte, ResponseStatusOK, With, r, q, g
  <2>2. ASSUME s.handler = "VerifyLockBits", s.in # <<>> PROVE Sure(c, d)
    <3>1. q.stage = "VerifyLockBits"  BY <1>6, <2>2 DEF StageOf, FileStep
    <3>2. same /\ "FuseWriteResponse" \notin q.modifier => d.lock = "locked"
      BY <1>4, <2>2 DEF Truthful, Reads, Fact
    <3>3. same \in BOOLEAN  OBVIOUS
    <3> HIDE DEF same
    <3> QED  BY <1>3, <1>4, <1>6, <2>2, <3>1, <3>2, <3>3, LockReadSure
  <2> HIDE DEF c
  <2> QED  BY <1>5, <2>1, <2>2
<1>12. s.handler = "LoadExtAddress" => Sure(OnLoadExtAddress(s), d)
  <2>1. OnLoadExtAddress(s) = IF s.in = <<>> THEN s ELSE IF StatusOK(r) THEN SendProcessPage(q) ELSE g
    BY Zenon DEF OnLoadExtAddress, OnByte, ResponseStatusOK, With, r, q, g
  <2>2. s.handler = "LoadExtAddress" => HasFile(job) /\ q.stage \in FileStage
    BY <1>6, FileSteps DEF Good, Fits, Waited, FileStep
  <2> QED  BY <1>3, <1>4, <1>5, <2>1, <2>2, SureSendProcessPage
<1> QED  BY <1>7, <1>8, <1>9, <1>10, <1>11, <1>12

(* What commands do to fuses and lock bits.                                *)
LEMMA FusesStay ==
  ASSUME NEW x, NEW d, Chip(d, x), NEW c, Known(c), NEW f \in Fuse, d.fuse[f] = "configured"
  PROVE  IspCommand(d, c).target.fuse[f] = "configured"
<1> DEFINE Kept(t) == t.fuse[f] = "configured"
<1>1. /\ \A v : /\ Kept([d EXCEPT !.eepromSize = v]) /\ Kept([d EXCEPT !.eepromPage = v])
                /\ Kept([d EXCEPT !.address = v]) /\ Kept([d EXCEPT !.ext = v])
                /\ Kept([d EXCEPT !.eeprom = v]) /\ Kept([d EXCEPT !.lock = v])
      /\ \A v, w : Kept([d EXCEPT !.flash = v, !.address = w])
      /\ \A v, w, l : Kept([d EXCEPT !.flash = v, !.eeprom = w, !.lock = l])
      /\ Kept(EnterProgMode(d)) /\ Kept(LeaveProgMode(d)) /\ Kept(d)
  BY DEF Chip, ChipField, EnterProgMode, LeaveProgMode
<1>2. \A v : Kept([d EXCEPT !.fuse[v] = "configured"])  BY DEF Chip, ChipField
<1>3. Kept(ChipErase(d))  BY <1>1 DEF ChipErase
<1> HIDE DEF Kept
<1>4. \A i : i.op \in Instruction => Kept(TransferInstruction(d, i).target)
  BY <1>1, <1>2, <1>3 DEF TransferInstruction, Instruction
<1>5. Kept(SetDeviceProgParams(d, c).target) /\ Kept(SetExtDeviceProgParams(d, c).target)
  BY <1>1 DEF SetDeviceProgParams, SetExtDeviceProgParams, Answer, DoEmptyReply
<1>6. Kept(DoEmptyReply(IF d.held THEN d ELSE EnterProgMode(d)).target)
      /\ Kept(DoEmptyReply(LeaveProgMode(d)).target) /\ Kept(DoEmptyReply(d).target)
      /\ Kept(DoEmptyReply([d EXCEPT !.address = c.address]).target)
  BY <1>1 DEF Answer, DoEmptyReply
<1>7. c.cmd = "UNIVERSAL" => Kept(Universal(d, c).target)
  BY <1>4 DEF Universal, Known, Answer, DoOneByteReply
<1>8. Kept(ProgramPage(d, c).target)
  BY <1>1 DEF ProgramPage, WriteProgramPages, WriteEeprom, Answer, DoEmptyReply
<1>9. Kept(ReadPage(d, c).target) /\ Kept(ReadSignature(d).target)
  BY <1>1 DEF ReadPage, ReadSignature, Answer
<1>10. Kept(IspCommand(d, c).target)
  BY <1>5, <1>6, <1>7, <1>8, <1>9 DEF IspCommand, Known, CommandName
<1> QED  BY <1>10 DEF Kept

LEMMA LockStays ==
  ASSUME NEW x, NEW d, Chip(d, x), NEW c \in {GetSyncCmd, LeaveProgModeCmd}
  PROVE  IspCommand(d, c).target.lock = d.lock
<1>1. CASE c = GetSyncCmd
  BY <1>1 DEF IspCommand, GetSyncCmd, DoEmptyReply, Answer
<1>2. CASE c = LeaveProgModeCmd
  <2>1. IspCommand(d, c).target = LeaveProgMode(d)
    BY <1>2 DEF IspCommand, LeaveProgModeCmd, DoEmptyReply, Answer
  <2> QED  BY <2>1 DEF LeaveProgMode, Chip, ChipField
<1> QED  BY <1>1, <1>2

(* A value asked for is answered with what it is.                          *)
LEMMA ValueRead ==
  ASSUME NEW s, NEW d, s.handler \in {"VerifyFuse", "VerifyLockBits"}
  PROVE  LET a == IspCommand(d, Question(s))
         IN a.target = d /\ a.reply = <<STK_INSYNC, Fact(s, d), STK_OK>>
<1>1. \A i : IspCommand(d, UniversalCmd(i)) = Universal(d, UniversalCmd(i)) /\ UniversalCmd(i).inst = i
  BY DEF IspCommand, UniversalCmd
<1>2. \A i : Universal(d, UniversalCmd(i)) =
               Answer(TransferInstruction(d, i).target, <<STK_INSYNC, TransferInstruction(d, i).byte, STK_OK>>)
  BY <1>1, Zenon DEF Universal, DoOneByteReply
<1>3. CASE s.handler = "VerifyFuse"
  <2> DEFINE i == [op |-> "readFuse", fuse |-> FuseOf(s)]
  <2>1. TransferInstruction(d, i) = [target |-> d, byte |-> Fact(s, d)]
    BY <1>3 DEF TransferInstruction, Fact
  <2>2. Question(s) = UniversalCmd(i)  BY <1>3 DEF Question
  <2> HIDE DEF i
  <2> QED  BY <1>1, <1>2, <2>1, <2>2 DEF Answer
<1>4. CASE s.handler = "VerifyLockBits"
  <2> DEFINE i == [op |-> "readLock"]
  <2>1. TransferInstruction(d, i) = [target |-> d, byte |-> Fact(s, d)]
    BY <1>4 DEF TransferInstruction, Fact
  <2>2. Question(s) = UniversalCmd(i)  BY <1>4 DEF Question
  <2> HIDE DEF i
  <2> QED  BY <1>1, <1>2, <2>1, <2>2 DEF Answer
<1> QED  BY <1>3, <1>4

LEMMA BeginsOverSpi ==
  ASSUME job.set, Begins(job)
  PROVE  ~job.serial
BY DEF Begins, LockRefused

LEMMA InitConfiguring ==
  ASSUME Init
  PROVE  Configuring
<1>1. PICK j \in Job : job = j /\ ses = NewSession(j) /\ mInSession = Begins(j) /\ late = <<>>
  BY DEF Init
<1>2. ASSUME Begins(j) PROVE Careful(ses, target) /\ Answered(ses, target)
  <2>1. /\ ses.stage = "VerifySignature" /\ ses.handler = "GetSync" /\ ses.onSync = "SetDevice"
        /\ ses.in = <<>>
    BY <1>1, <1>2 DEF NewSession
  <2>2. Waited(ses) = "SetDevice" /\ ~Reads(ses)  BY <2>1 DEF Waited, Reads
  <2>3. ses.stage \in StageOf("SetDevice")  BY <2>1 DEF StageOf, FileStep
  <2>4. Behind(ses.stage, target)  BY <2>1, DoneStages DEF Behind
  <2> QED  BY <2>1, <2>2, <2>3, <2>4 DEF Careful, Answered
<1> QED  BY <1>1, <1>2 DEF Configuring

LEMMA NotCompleted ==
  ASSUME NEW s, Session(s), NEW d, Careful(s, d)
  PROVE  s.stage # "SessionCompleted"
<1>1. Waited(s) \in Handler  BY DEF Session, Waited
<1>2. \A h \in Handler : "SessionCompleted" \notin StageOf(h)
  BY DEF StageOf, Handler, FileStep, FileStage, FuseStage
<1> QED  BY <1>1, <1>2 DEF Careful

LEMMA LoopConfiguring ==
  ASSUME NEW s, IInv, Configuring, mInSession, Loop(s), Session(s),
         job.set => Sure(s, target) \/ (Configured(target) /\ ~CanContinue(s))
  PROVE  Configuring'
<1>1. /\ mInSession' = CanContinue(s) /\ job' = job /\ late' = late
      /\ CanContinue(s) => target' = target /\ ses' = [s EXCEPT !.in = IF job.serial THEN s.in ELSE <<>>]
      /\ ~CanContinue(s) => target' = LeaveProgMode(target)
                            /\ ses' = [Halt(s) EXCEPT !.in = <<>>, !.out = <<>>, !.timing = FALSE]
  BY DEF Loop
<1>2. SUFFICES ASSUME job.set, Begins(job)
               PROVE  IF mInSession' THEN Careful(ses', target') /\ Answered(ses', target')
                      ELSE ses'.error = "none" => Configured(target')
  BY <1>1 DEF Configuring
<1>3. CASE CanContinue(s)
  <2> DEFINE u == [s EXCEPT !.in = <<>>]
  <2>1. ses' = u /\ target' = target  BY <1>1, <1>2, <1>3, BeginsOverSpi
  <2>2. /\ u.out = s.out /\ u.handler = s.handler /\ u.onSync = s.onSync /\ u.stage = s.stage
        /\ u.modifier = s.modifier /\ u.in = <<>>
    BY DEF Session, SessionField
  <2> HIDE DEF u
  <2>3. Waited(u) = Waited(s) /\ (Reads(u) <=> Reads(s)) /\ Question(u) = Question(s)
    BY <2>2 DEF Waited, Reads, Question, FuseOf
  <2>4. Careful(s, target)  BY <1>2, <1>3 DEF Sure, CanContinue
  <2>5. Careful(u, target) /\ Answered(u, target)  BY <2>2, <2>3, <2>4 DEF Careful, Answered
  <2> QED  BY <1>1, <1>3, <2>1, <2>5
<1>4. CASE ~CanContinue(s)
  <2>1. ses'.error = s.error  BY <1>1, <1>4 DEF Session, SessionField, Halt
  <2>2. ASSUME s.error = "none" PROVE Configured(target)
    <3>1. s.stage = "SessionCompleted"  BY <1>4, <2>2 DEF CanContinue
    <3> QED  BY <1>2, <2>2, <3>1, NotCompleted DEF Sure
  <2>3. Configured(target) => Configured(LeaveProgMode(target))
    BY DEF IInv, Chip, ChipField, LeaveProgMode, Configured
  <2>4. mInSession' = FALSE  BY <1>1, <1>4 DEF CanContinue
  <2> QED  BY <1>1, <1>4, <2>1, <2>2, <2>3, <2>4
<1> QED  BY <1>3, <1>4

(* The session a handler is called with, over SPI.                         *)
LEMMA HeardCareful ==
  ASSUME IInv, Configuring, mInSession, job.set
  PROVE  Careful(Heard, target) /\ (ses.in # <<>> => Truthful(Heard, target))
<1>1. Session(ses) /\ Begins(job)  BY DEF IInv, Running
<1>2. Careful(ses, target) /\ Answered(ses, target)  BY <1>1 DEF Configuring
<1> DEFINE u == [Read(ses) EXCEPT !.timing = FALSE]
<1>3. /\ u.out = ses.out /\ u.handler = ses.handler /\ u.onSync = ses.onSync /\ u.stage = ses.stage
      /\ u.modifier = ses.modifier /\ (ses.in # <<>> => u.in = Tail(ses.in))
  BY <1>1 DEF Session, SessionField, Read
<1>4. Heard = u  BY DEF Heard
<1> HIDE DEF u
<1>5. /\ Waited(u) = Waited(ses) /\ (Reads(u) <=> Reads(ses)) /\ Question(u) = Question(ses)
      /\ Fact(u, target) = Fact(ses, target)
  BY <1>3 DEF Waited, Reads, Question, Fact, FuseOf
<1>6. Careful(u, target)  BY <1>2, <1>3, <1>5 DEF Careful
<1>7. \A a, b, c, x : x = <<a, b, c>> => Head(Tail(x)) = b  OBVIOUS
<1>8. Reads(ses) /\ ses.in # <<>> => Head(Tail(ses.in)) = Fact(ses, target)
  <2>1. Reads(ses) /\ ses.in # <<>> => ses.in = <<STK_INSYNC, Fact(ses, target), STK_OK>>
    BY <1>2 DEF Answered
  <2> QED  BY <1>7, <2>1
<1>9. ses.in # <<>> => Truthful(u, target)
  BY <1>3, <1>5, <1>8 DEF Truthful
<1> QED  BY <1>4, <1>6, <1>9

LEMMA UpdateConfiguring ==
  ASSUME IInv, Configuring, Update
  PROVE  Configuring'
<1>1. mInSession
  BY DEF Update, HandleGetSync, HandleSetDevice, HandleSetDeviceExt, HandleEnterProgramMode,
         HandleLeaveProgramMode, HandleReadSignature, HandleChipErase, HandleVerifyUnlocked,
         HandleVerifyFuse, HandleVerifyLockBits, HandleLoadAddress, HandleLoadExtAddress,
         HandleProcessPage, HandleNoSync, HandleFrameError, HandleUnknown, StartTimer, TimerPasses,
         Handle, Received, Silent
<1>2. /\ Session(ses) /\ Good(ses, job) /\ ses.error = "none" /\ job \in Job /\ Begins(job)
      /\ CanContinue(ses)
  BY <1>1 DEF IInv, Running, CanContinue
<1> DEFINE h == Heard
           d == target
           Fine(s) == Session(s) /\ (job.set => Sure(s, d) \/ (Configured(d) /\ ~CanContinue(s)))
<1>3. /\ Good(h, job) /\ h.error = "none" /\ h.handler = ses.handler
      /\ Session(h) /\ h.retries = ses.retries
  BY <1>1, HeardGood
<1>4. job.set => Careful(h, d) /\ (ses.in # <<>> => Truthful(h, d))  BY <1>1, HeardCareful
<1>5. job.set => Careful(ses, d)  BY <1>1, <1>2 DEF Configuring
<1> HIDE DEF h
<1>6. ASSUME \E s : Fine(s) /\ Loop(s) PROVE Configuring'  BY <1>1, <1>6, LoopConfiguring
<1>7. ASSUME HandleGetSync \/ HandleSetDevice \/ HandleSetDeviceExt \/ HandleEnterProgramMode
             \/ HandleLoadAddress
      PROVE  \E s : Fine(s) /\ Loop(s)
  <2>1. \/ h.handler = "GetSync" /\ Loop(OnGetSync(h))
        \/ h.handler = "SetDevice" /\ Loop(OnSetDevice(h))
        \/ h.handler = "SetDeviceExt" /\ Loop(OnSetDeviceExt(h))
        \/ h.handler = "EnterProgramMode" /\ Loop(OnEnterProgramMode(h))
        \/ h.handler = "LoadAddress" /\ Loop(OnLoadAddress(h))
    BY <1>3, <1>7 DEF HandleGetSync, HandleSetDevice, HandleSetDeviceExt, HandleEnterProgramMode,
           HandleLoadAddress, Handle, h
  <2>2. /\ h.handler = "GetSync" => Good(OnGetSync(h), job) /\ (job.set => Sure(OnGetSync(h), d))
        /\ h.handler = "SetDevice" => Good(OnSetDevice(h), job) /\ (job.set => Sure(OnSetDevice(h), d))
        /\ h.handler = "SetDeviceExt"
             => Good(OnSetDeviceExt(h), job) /\ (job.set => Sure(OnSetDeviceExt(h), d))
        /\ h.handler = "EnterProgramMode"
             => Good(OnEnterProgramMode(h), job) /\ (job.set => Sure(OnEnterProgramMode(h), d))
        /\ h.handler = "LoadAddress"
             => Good(OnLoadAddress(h), job) /\ (job.set => Sure(OnLoadAddress(h), d))
    BY <1>2, <1>3, <1>4, StatusHandlersGood, StatusHandlersSure
  <2> QED  BY <2>1, <2>2 DEF Good
<1>8. ASSUME HandleLeaveProgramMode PROVE \E s : Fine(s) /\ Loop(s)
  <2>1. h.handler = "LeaveProgramMode" /\ Loop(OnLeaveProgramMode(h))
    BY <1>3, <1>8 DEF HandleLeaveProgramMode, Handle, h
  <2>2. Good(OnLeaveProgramMode(h), job)  BY <1>2, <1>3, <2>1, StatusHandlersGood
  <2>3. job.set => Careful(h, d) /\ (Sure(OnLeaveProgramMode(h), d) \/ Configured(d))
    BY <1>2, <1>3, <1>4, <2>1, StatusHandlersSure
  <2>4. job.set => Sure(OnLeaveProgramMode(h), d) \/ ~CanContinue(OnLeaveProgramMode(h))
    <3> DEFINE r == Read(h)
    <3>1. OnLeaveProgramMode(h) = IF StatusOK(h) THEN Halt(r) ELSE SendGetSync(r)
      BY Zenon DEF OnLeaveProgramMode, ResponseStatusOK, With, r
    <3>2. Good(r, job)  BY <1>3, ReadGood
    <3>3. job.set => Careful(r, d)  BY <1>3, <1>4, CarefulRead
    <3> HIDE DEF r
    <3>4. Session(r)  BY <3>2 DEF Good
    <3>5. job.set => Sure(SendGetSync(r), d)  BY <3>3, <3>4, CarefulSync DEF Sure
    <3>6. ~CanContinue(Halt(r))  BY <3>4 DEF Session, SessionField, Halt, CanContinue
    <3> QED  BY <3>1, <3>5, <3>6
  <2> QED  BY <2>1, <2>2, <2>3, <2>4 DEF Good
<1>9. ASSUME HandleReadSignature \/ HandleChipErase \/ HandleVerifyUnlocked \/ HandleVerifyFuse
             \/ HandleVerifyLockBits \/ HandleLoadExtAddress
      PROVE  \E s : Fine(s) /\ Loop(s)
  <2>1. /\ ses.in # <<>>
        /\ \/ h.handler = "ReadSignature" /\ Loop(OnReadSignature(h))
           \/ h.handler = "ChipErase" /\ Loop(OnChipErase(h))
           \/ h.handler = "VerifyUnlocked" /\ Loop(OnVerifyUnlocked(h))
           \/ h.handler = "VerifyFuse" /\ Loop(OnVerifyFuse(h))
           \/ h.handler = "VerifyLockBits" /\ Loop(OnVerifyLockBits(h))
           \/ h.handler = "LoadExtAddress" /\ Loop(OnLoadExtAddress(h))
    BY <1>3, <1>9 DEF HandleReadSignature, HandleChipErase, HandleVerifyUnlocked, HandleVerifyFuse,
           HandleVerifyLockBits, HandleLoadExtAddress, Handle, Received, h
  <2>2. /\ h.handler = "ReadSignature"
             => Good(OnReadSignature(h), job) /\ (job.set => Sure(OnReadSignature(h), d))
        /\ h.handler = "ChipErase" => Good(OnChipErase(h), job) /\ (job.set => Sure(OnChipErase(h), d))
        /\ h.handler = "VerifyUnlocked"
             => Good(OnVerifyUnlocked(h), job) /\ (job.set => Sure(OnVerifyUnlocked(h), d))
        /\ h.handler = "VerifyFuse"
             => Good(OnVerifyFuse(h), job) /\ (job.set => Sure(OnVerifyFuse(h), d))
        /\ h.handler = "VerifyLockBits"
             => Good(OnVerifyLockBits(h), job) /\ (job.set => Sure(OnVerifyLockBits(h), d))
        /\ h.handler = "LoadExtAddress"
             => Good(OnLoadExtAddress(h), job) /\ (job.set => Sure(OnLoadExtAddress(h), d))
    BY <1>2, <1>3, <1>4, <2>1, ByteHandlersGood, ByteHandlersSure
  <2> QED  BY <2>1, <2>2 DEF Good
<1>10. ASSUME HandleProcessPage PROVE \E s : Fine(s) /\ Loop(s)
  <2>1. h.handler = "ProcessPage" /\ Loop(OnProcessPage(h))
    BY <1>3, <1>10 DEF HandleProcessPage, Handle, h
  <2>2. HasFile(job)  BY <1>3, <2>1 DEF Good, Fits, Waited, FileStep
  <2>3. job.set => h.stage \in FileStage  BY <1>4, <2>1, FileSteps DEF Careful, Waited, FileStep
  <2>4. Good(OnProcessPage(h), job) /\ (job.set => Sure(OnProcessPage(h), d))
    BY <1>3, <1>4, <2>2, <2>3, OnProcessPageGood, SureProcessPage
  <2> QED  BY <2>1, <2>4 DEF Good
<1>11. ASSUME HandleNoSync PROVE \E s : Fine(s) /\ Loop(s)
  <2> DEFINE k == [h EXCEPT !.retries = @ + 1]
  <2>1. Loop(IF ses.retries < SyncRetries THEN SendGetSync(k) ELSE Fail(h, "Sync"))
    BY <1>11 DEF HandleNoSync, h
  <2>2. ASSUME ses.retries < SyncRetries
        PROVE  Session(SendGetSync(k)) /\ (job.set => Sure(SendGetSync(k), d))
    <3>1. /\ DOMAIN k = SessionField /\ k.out = h.out /\ k.handler = h.handler
          /\ k.onSync = h.onSync /\ k.stage = h.stage /\ k.error = h.error
          /\ k.modifier = h.modifier /\ k.retries = h.retries + 1 /\ k.hex = h.hex /\ k.words = h.words
      BY <1>3 DEF Session, SessionField
    <3> HIDE DEF k
    <3>2. h.retries + 1 \in 0 .. SyncRetries  BY <1>3, <2>2, BoundAssumption DEF Session
    <3>3. Session(k)  BY <1>3, <3>1, <3>2 DEF Session
    <3>4. Good(k, job)  BY <1>3, <3>1, <3>3 DEF Good, Fits, Sends, Waited
    <3>5. /\ Waited(k) = Waited(h) /\ (Reads(k) <=> Reads(h)) /\ Question(k) = Question(h)
      BY <3>1 DEF Waited, Reads, Question, FuseOf
    <3>6. job.set => Careful(k, d)  BY <1>4, <3>1, <3>5 DEF Careful
    <3> QED  BY <3>3, <3>4, <3>6, SendGetSyncGood, CarefulSync DEF Good, Sure
  <2>3. Good(Fail(h, "Sync"), job) /\ Sure(Fail(h, "Sync"), d)
    BY <1>3, FailGood, FailSure DEF Error
  <2> HIDE DEF k
  <2> QED  BY <2>1, <2>2, <2>3 DEF Good
<1>12. ASSUME HandleFrameError PROVE \E s : Fine(s) /\ Loop(s)
  BY <1>3, <1>4, <1>12 DEF HandleFrameError, Sure, h
<1>13. ASSUME NEW b, Loop([ses EXCEPT !.timing = b]) PROVE \E s : Fine(s) /\ Loop(s)
  <2> DEFINE u == [ses EXCEPT !.timing = b]
  <2>1. /\ DOMAIN u = SessionField /\ u.out = ses.out /\ u.handler = ses.handler
        /\ u.onSync = ses.onSync /\ u.stage = ses.stage /\ u.error = ses.error
        /\ u.modifier = ses.modifier /\ u.retries = ses.retries /\ u.hex = ses.hex /\ u.words = ses.words
    BY <1>2 DEF Session, SessionField
  <2> HIDE DEF u
  <2>2. Session(u)  BY <1>2, <2>1 DEF Session
  <2>3. Waited(u) = Waited(ses) /\ (Reads(u) <=> Reads(ses)) /\ Question(u) = Question(ses)
    BY <2>1 DEF Waited, Reads, Question, FuseOf
  <2>4. job.set => Sure(u, d)  BY <1>5, <2>1, <2>3 DEF Careful, Sure
  <2> QED  BY <1>13, <2>2, <2>4 DEF u
<1>14. ASSUME HandleUnknown \/ TimerPasses PROVE \E s : Fine(s) /\ Loop(s)
  <2> DEFINE e == [h EXCEPT !.in = <<>>]
  <2>1. Session(e)  BY <1>3 DEF Session, SessionField
  <2>2. Loop(Fail(e, "Unknown")) \/ Loop(Fail(ses, "Timeout"))
    BY <1>14 DEF HandleUnknown, TimerPasses, h
  <2> HIDE DEF e
  <2>3. Fine(Fail(e, "Unknown")) /\ Fine(Fail(ses, "Timeout"))
    BY <1>2, <2>1, FailGood, FailSure DEF Error, Good
  <2> QED  BY <2>2, <2>3
<1> HIDE DEF Fine
<1> QED
  BY <1>6, <1>7, <1>8, <1>9, <1>10, <1>11, <1>12, <1>13, <1>14 DEF Update, StartTimer

LEMMA IspUpdateConfiguring ==
  ASSUME IInv, Configuring, IspUpdate
  PROVE  Configuring'
<1> DEFINE c == Head(ses.out)
           a == IspCommand(target, c)
<1>1. /\ mInSession /\ ses.out # <<>> /\ target' = a.target
      /\ ses' = [ses EXCEPT !.out = <<>>, !.in = a.reply]
      /\ UNCHANGED <<job, late, mInSession, faults>>
  BY DEF IspUpdate
<1>2. SUFFICES ASSUME job.set, Begins(job)
               PROVE  Careful(ses', target') /\ Answered(ses', target')
  BY <1>1 DEF Configuring
<1>3. Careful(ses, target)  BY <1>1, <1>2 DEF Configuring
<1>4. Known(c) /\ ses.out = <<c>> /\ Chip(target, job.fault) /\ Session(ses)
  BY <1>1, CommandKnown DEF IInv
<1>5. /\ ses'.out = <<>> /\ ses'.handler = ses.handler /\ ses'.onSync = ses.onSync
      /\ ses'.stage = ses.stage /\ ses'.modifier = ses.modifier /\ ses'.in = a.reply
  BY <1>1, <1>4 DEF Session, SessionField
<1> HIDE DEF c
<1>6. Behind(ses.stage, a.target)
  <2>1. \A f \in Fuse : target.fuse[f] = "configured" => a.target.fuse[f] = "configured"
    BY <1>4, FusesStay
  <2>2. Done(ses.stage) \subseteq Fuse  BY DEF Done, Fuse
  <2> QED  BY <1>3, <2>1, <2>2 DEF Careful, Behind
<1>7. Waited(ses) = "LeaveProgramMode" => a.target.lock = "locked"
  <2>1. \A x, y : <<x>> = <<y>> => x = y  OBVIOUS
  <2>2. Waited(ses) = "LeaveProgramMode"
          => target.lock = "locked" /\ c \in {GetSyncCmd, LeaveProgModeCmd}
    BY <1>1, <1>3, <1>4, <2>1 DEF Careful
  <2> QED  BY <1>4, <2>2, LockStays
<1>8. Reads(ses) => a.target = target /\ a.reply = <<STK_INSYNC, Fact(ses, target), STK_OK>>
  <2>1. \A x, y : <<x>> = <<y>> => x = y  OBVIOUS
  <2>2. Reads(ses) => c = Question(ses)  BY <1>1, <1>3, <1>4, <2>1 DEF Careful
  <2> QED  BY <2>2, ValueRead DEF Reads
<1> HIDE DEF a
<1>9. /\ Waited(ses') = Waited(ses) /\ (Reads(ses') <=> Reads(ses))
      /\ \A d : Fact(ses', d) = Fact(ses, d)
  BY <1>5 DEF Waited, Reads, Fact, FuseOf
<1>10. Careful(ses', target')  BY <1>1, <1>3, <1>5, <1>6, <1>7, <1>9 DEF Careful
<1>11. Answered(ses', target')  BY <1>1, <1>5, <1>8, <1>9 DEF Answered
<1> QED  BY <1>10, <1>11

LEMMA NextConfiguring ==
  ASSUME IInv, Configuring, [Next]_vars
  PROVE  Configuring'
<1>1. ASSUME UNCHANGED vars PROVE Configuring'
  <2>1. job' = job /\ ses' = ses /\ target' = target /\ mInSession' = mInSession /\ late' = late
    BY <1>1 DEF vars
  <2> QED  BY <2>1 DEF Configuring
<1>2. ASSUME LineFault \/ BootloaderAnswers PROVE Configuring'
  <2>1. job.serial /\ job' = job /\ mInSession' = mInSession /\ mInSession
    BY <1>2 DEF LineFault, BootloaderAnswers, CommandLost, AnswerLost, NotInSync, DataGarbled,
           StatusGarbled, Glitch, AnswerPauses, Pending, Line
  <2>2. ~(job.set /\ Begins(job))  BY <2>1, BeginsOverSpi
  <2> QED  BY <2>1, <2>2 DEF Configuring
<1>3. ASSUME LateBytes PROVE Configuring'
  <2>1. late # <<>> /\ late' = <<>> /\ job' = job  BY <1>3 DEF LateBytes
  <2>2. job.serial  BY <2>1 DEF Configuring
  <2>3. ~(job.set /\ Begins(job))  BY <2>2, BeginsOverSpi
  <2> QED  BY <2>1, <2>3 DEF Configuring
<1> QED  BY <1>1, <1>2, <1>3, UpdateConfiguring, IspUpdateConfiguring DEF Next, Over, Bootloader

(* A session that was to set fuses and lock bits and ends without an error *)
(* has: each fuse was found configured in a read that came after every     *)
(* write to it, and the lock bits were found locked and are not unlocked   *)
(* again, whatever fault the chip has and whatever the boot loader's file  *)
(* holds.                                                                  *)
THEOREM ConfiguredTheorem == Spec => []SuccessMeansConfigured
<1>1. Init => Configuring  BY InitConfiguring
<1>2. IInv /\ Configuring /\ [Next]_vars => Configuring'  BY NextConfiguring
<1>3. Configuring => SuccessMeansConfigured
  BY DEF Configuring, SuccessMeansConfigured, Ended, Configured
<1> QED  BY <1>1, <1>2, <1>3, Invariance, PTL DEF Spec

-----------------------------------------------------------------------------
(* The pages that are verified.                                            *)

LEMMA VerifiedPages ==
  VerifiedWords \in Nat \ {0} /\ (Memory = "flash" => BankWords % VerifiedWords = 0)
<1> DEFINE n == VerifiedWords
<1>1. {FlashPage, EepromPage, SerialPage} \subseteq Nat \ {0}  BY PageAssumption
<1>2. n \in {FlashPage, EepromPage, SerialPage} /\ (Memory = "flash" => n \in {FlashPage, SerialPage})
  BY DEF VerifiedWords, PageWords
<1>3. FlashPage \in Nat \ {0} /\ SerialPage \in Nat \ {0} /\ SegmentWords \in Nat \ {0}
  BY <1>1, SegmentAssumption
<1>4. SegmentWords % FlashPage = 0 /\ FlashPage % SerialPage = 0  BY PageAssumption
<1>5. 1 \in Nat \ {0} /\ FlashPage % FlashPage = 0
  <2>1. (FlashPage * 1 + 0) % FlashPage = 0  BY <1>3, Unique
  <2> QED  BY <1>3, <2>1
<1>6. (2 * SegmentWords) % FlashPage = 0 /\ (2 * SegmentWords) % SerialPage = 0
  BY <1>3, <1>4, <1>5, Divides
<1> HIDE DEF n
<1> QED  BY <1>1, <1>2, <1>6 DEF BankWords, n

LEMMA PagePlace ==
  ASSUME NEW f \in Seq(Record), Suits(f), NEW h \in Reader, Standing(f, h), InHand(h),
         NEW p, p = PageOf(WordAddress(h), VerifiedWords)
  PROVE  p \in Nat /\ PageOf(p, VerifiedWords) = p /\ InBank(p, Bank(h))
<1>1. VerifiedWords \in Nat \ {0} /\ (Memory = "flash" => BankWords % VerifiedWords = 0)
  BY VerifiedPages
<1>2. Orderly(f) /\ (BankWords % VerifiedWords = 0 \/ InFirstBank(f))  BY <1>1 DEF Suits
<1> QED  BY <1>1, <1>2, PageStands

-----------------------------------------------------------------------------
(* The invariant of programming.                                           *)

(* Bytes on their way to the session: those that are read as the beginning *)
(* of an answer, none, at most one, or one that is no STK_INSYNC.          *)
SyncByte == {STK_INSYNC, STK_NOSYNC}
Stray(q) == \A i \in 1 .. Len(q) : q[i] \notin SyncByte
Once(q) == \E k \in 0 .. Len(q) : \A i \in 1 .. Len(q) : i # k => q[i] \notin SyncByte
Refused(q) == Once(q) /\ \A i \in 1 .. Len(q) : q[i] # STK_INSYNC

(* Every word the reader h has passed is in its place.                     *)
InPlace(d, f, h) ==
  \A i \in DataRecords(f) : \A k \in WordOf(f, i) :
    Passed(h, i, k) => MemoryOf(d)[FirstWord(f, i) + k - 1] = f[i].words[k]
ProgrammedIn(d) == \A c \in Contents(TheFile) : MemoryOf(d)[c[1]] = c[2]

(* The page in which the reader stands; what of it the target knows.       *)
PageIn(s) == PageOf(WordAddress(s.hex), s.words)
Extended(s, d) == Memory = "flash" => d.ext = s.bank
AtHand(s) == InHand(s.hex) /\ s.bank = Bank(s.hex) /\ s.page = PageIn(s)
Ready(s, d) == AtHand(s) /\ Extended(s, d) /\ d.address = s.page % BankWords
ToExtend(s) == InHand(s.hex) /\ s.bank = Bank(s.hex) /\ s.page # PageIn(s)
Announced(s, d) ==
  /\ s.bank = Bank(s.hex) => Extended(s, d)
  /\ s.bank = Bank(s.hex) /\ s.page = PageIn(s) => d.address = s.page % BankWords
  /\ s.bank # Bank(s.hex) => s.page # PageIn(s)
(* From here SendProcessPage() finds the next page.                        *)
Going(s, d) ==
  \/ s.hex.type = "eof"
  \/ InHand(s.hex) /\ Announced(s, d)
  \/ /\ s.hex.type = "data" /\ s.hex.index = Len(s.hex.words)
     /\ WordAddress(s.hex) = s.page + s.words
     /\ s.page \in Nat /\ PageOf(s.page, s.words) = s.page /\ InBank(s.page, s.bank)
     /\ Extended(s, d)

(* The answer to READ_PAGE, behind some stray bytes.                       *)
PageAnswer(q, s, d) ==
  \E m \in 0 .. Len(q) :
    /\ \A i \in 1 .. m : q[i] \notin SyncByte
    /\ Len(q) = m + s.words + 2 /\ q[m + 1] = STK_INSYNC
    /\ \A i \in 1 .. s.words : q[m + 1 + i] = MemoryOf(d)[s.page + i - 1]
    /\ q[m + s.words + 2] \notin SyncByte

Request(s) ==
  CASE s.handler = "GetSync" -> GetSyncCmd
    [] s.handler = "LoadExtAddress" -> UniversalCmd([op |-> "loadExt", bank |-> s.bank])
    [] s.handler = "LoadAddress" -> LoadAddressCmd(s.page % BankWords)
    [] s.handler = "ProcessPage" -> ReadPageCmd(Memory, s.words)
Sent(s) == s.handler # "GetSync" /\ s.out = <<>>

(* Verifying, with the bytes q on their way.                               *)
Check(s, d, q) ==
  /\ Verifying(s) /\ Waited(s) \in FileStep /\ s.words = VerifiedWords
  /\ Standing(TheFile, s.hex) /\ InPlace(d, TheFile, s.hex)
  /\ s.out = <<>> \/ s.out = <<Request(s)>>
  /\ \/ /\ Waited(s) = "LoadExtAddress" /\ ToExtend(s)
        /\ Sent(s) => Refused(q) \/ Extended(s, d)
     \/ /\ Waited(s) = "LoadAddress" /\ AtHand(s) /\ Extended(s, d)
        /\ Sent(s) => Refused(q) \/ d.address = s.page % BankWords
     \/ Waited(s) = "ProcessPage" /\ s.handler = "GetSync" /\ Going(s, d)
     \/ s.handler = "ProcessPage" /\ s.out # <<>> /\ Ready(s, d)
     \/ /\ s.handler = "ProcessPage" /\ s.out = <<>>
        /\ \/ Stray(q) \/ (Refused(q) /\ Going(s, d))
           \/ AtHand(s) /\ Extended(s, d) /\ PageAnswer(q, s, d)

(* Before: at bank 0 when there is no other to choose.                     *)
Last == {"VerifyLockBits", "LeaveProgramMode"}
Small == Memory = "flash" /\ ~job.large
Plain(c) ==
  /\ c.cmd # "READ_PAGE"
  /\ Small /\ c.cmd = "UNIVERSAL" /\ c.inst.op = "loadExt" => c.inst.bank = 0
Due(h, stage) ==
  /\ stage \notin {"SessionCompleted", "VerifyingFlash", "VerifyingEEPROM"} /\ h \notin Last
  /\ h \in {"SetDevice", "SetDeviceExt"} => stage = "VerifySignature"
  /\ h \in {"VerifyUnlocked", "VerifyFuse"} => job.set
  /\ h = "EnterProgramMode" =>
       stage = "VerifySignature" \/ (job.set /\ stage \in {"VerifyUnlocked", "LoadingFlash"})
  /\ h \in FileStep => stage \in {"LoadingFlash", "LoadingEEPROM"}
Before(s, d) ==
  /\ Due(Waited(s), s.stage) /\ s.words = PageWords /\ Standing(TheFile, s.hex)
  /\ Small => s.bank = 0 /\ d.ext = 0
  /\ s.out # <<>> => Plain(s.out[1])

(* Afterwards: memory is not touched any more.                             *)
Mild ==
  {GetSyncCmd, LeaveProgModeCmd, UniversalCmd([op |-> "readLock"]), UniversalCmd([op |-> "writeLock"])}
Afterwards(s, d) ==
  /\ Waited(s) \in Last /\ s.stage # "SessionCompleted" /\ ProgrammedIn(d)
  /\ s.out # <<>> => s.out[1] \in Mild

Kept(s, d, q) == Before(s, d) \/ Check(s, d, q) \/ Afterwards(s, d)
(* No answer is there to a command that has not been read.                 *)
Calm(s, q) ==
  IF s.out # <<>> THEN Stray(q)
  ELSE job.serial => Once(q) \/ (Verifying(s) /\ s.handler = "ProcessPage")

Suited == Begins(job) /\ NeedsFile(job) /\ Suits(TheFile)

IsSeq(q) == \E S : q \in Seq(S)

LEMMA JoinedSeqs ==
  ASSUME NEW a, IsSeq(a), NEW b, IsSeq(b)
  PROVE  /\ IsSeq(a \o b) /\ Len(a) \in Nat /\ Len(b) \in Nat /\ Len(a \o b) = Len(a) + Len(b)
         /\ \A i \in 1 .. Len(a) : (a \o b)[i] = a[i]
         /\ \A i \in 1 .. Len(b) : (a \o b)[Len(a) + i] = b[i]
<1>1. PICK S : a \in Seq(S)  BY DEF IsSeq
<1>2. PICK T : b \in Seq(T)  BY DEF IsSeq
<1> DEFINE U == S \cup T
<1>3. a \in Seq(U)
  <2>1. Len(a) \in Nat /\ a = [i \in 1 .. Len(a) |-> a[i]] /\ \A i \in 1 .. Len(a) : a[i] \in U  BY <1>1
  <2> QED  BY <2>1
<1>4. b \in Seq(U)
  <2>1. Len(b) \in Nat /\ b = [i \in 1 .. Len(b) |-> b[i]] /\ \A i \in 1 .. Len(b) : b[i] \in U  BY <1>2
  <2> QED  BY <2>1
<1> HIDE DEF U
<1>5. a \o b \in Seq(U) /\ Len(a) \in Nat /\ Len(b) \in Nat  BY <1>3, <1>4
<1>6. Len(a \o b) = Len(a) + Len(b)  BY <1>3, <1>4
<1>7. \A i \in 1 .. Len(a) : (a \o b)[i] = a[i]  BY <1>3, <1>4
<1>8. \A i \in 1 .. Len(b) : (a \o b)[Len(a) + i] = b[i]  BY <1>3, <1>4
<1> QED  BY <1>5, <1>6, <1>7, <1>8 DEF IsSeq

LEMMA TailSeq ==
  ASSUME NEW q, IsSeq(q), q # <<>>
  PROVE  /\ IsSeq(Tail(q)) /\ Len(q) \in Nat \ {0} /\ Len(Tail(q)) = Len(q) - 1 /\ Head(q) = q[1]
         /\ \A i \in 1 .. Len(q) - 1 : Tail(q)[i] = q[i + 1]
<1>1. PICK S : q \in Seq(S)  BY DEF IsSeq
<1>2. Tail(q) \in Seq(S) /\ Len(q) \in Nat \ {0} /\ Len(Tail(q)) = Len(q) - 1 /\ Head(q) = q[1]
  BY <1>1
<1>3. \A i \in 1 .. Len(q) - 1 : Tail(q)[i] = q[i + 1]  BY <1>1
<1> QED  BY <1>2, <1>3 DEF IsSeq

LEMMA TailJoined ==
  ASSUME NEW a, IsSeq(a), a # <<>>, NEW b, IsSeq(b)
  PROVE  Tail(a) \o b = Tail(a \o b) /\ a \o b # <<>> /\ Head(a) = (a \o b)[1]
<1> DEFINE c == a \o b
           u == Tail(a) \o b
           v == Tail(c)
<1>1. /\ IsSeq(c) /\ Len(a) \in Nat \ {0} /\ Len(b) \in Nat /\ Len(c) = Len(a) + Len(b)
      /\ \A i \in 1 .. Len(a) : c[i] = a[i]
      /\ \A i \in 1 .. Len(b) : c[Len(a) + i] = b[i]
  BY JoinedSeqs, TailSeq
<1>2. /\ IsSeq(Tail(a)) /\ Len(Tail(a)) = Len(a) - 1 /\ Head(a) = a[1]
      /\ \A i \in 1 .. Len(a) - 1 : Tail(a)[i] = a[i + 1]
  BY TailSeq
<1> HIDE DEF c
<1>3. c # <<>>  BY <1>1
<1>4. /\ IsSeq(v) /\ Len(v) = Len(c) - 1 /\ \A i \in 1 .. Len(c) - 1 : v[i] = c[i + 1]
  BY <1>1, <1>3, TailSeq
<1>5. /\ IsSeq(u) /\ Len(u) = Len(Tail(a)) + Len(b)
      /\ \A i \in 1 .. Len(Tail(a)) : u[i] = Tail(a)[i]
      /\ \A i \in 1 .. Len(b) : u[Len(Tail(a)) + i] = b[i]
  BY <1>2, JoinedSeqs
<1> HIDE DEF u, v
<1> DEFINE n == Len(a) - 1
           m == Len(b)
           w == Tail(a)
<1>6. /\ n \in Nat /\ m \in Nat /\ Len(u) = n + m /\ Len(v) = n + m
      /\ \A i \in 1 .. n : u[i] = a[i + 1] /\ v[i] = a[i + 1]
      /\ \A i \in 1 .. m : u[n + i] = b[i] /\ v[n + i] = b[i]
  <2>1. n \in Nat /\ m \in Nat /\ Len(u) = n + m /\ Len(v) = n + m  BY <1>1, <1>2, <1>4, <1>5
  <2>2. \A i \in 1 .. n : u[i] = a[i + 1]  BY <1>2, <1>5
  <2>3. \A i \in 1 .. n : v[i] = a[i + 1]
    <3> SUFFICES ASSUME NEW i \in 1 .. n PROVE v[i] = a[i + 1]  OBVIOUS
    <3>1. i + 1 \in 1 .. Len(a) /\ i \in 1 .. Len(c) - 1  BY <1>1
    <3> QED  BY <1>1, <1>4, <3>1
  <2>4. \A i \in 1 .. m : u[n + i] = b[i]  BY <1>2, <1>5
  <2>5. \A i \in 1 .. m : v[n + i] = b[i]
    <3> SUFFICES ASSUME NEW i \in 1 .. m PROVE v[n + i] = b[i]  OBVIOUS
    <3>1. n + i \in 1 .. Len(c) - 1 /\ (n + i) + 1 = Len(a) + i  BY <1>1
    <3> QED  BY <1>1, <1>4, <3>1
  <2> QED  BY <2>1, <2>2, <2>3, <2>4, <2>5
<1> HIDE DEF n, m
<1>7. \A i \in 1 .. n + m : u[i] = v[i]
  <2> SUFFICES ASSUME NEW i \in 1 .. n + m PROVE u[i] = v[i]  OBVIOUS
  <2>1. CASE i <= n  BY <1>6, <2>1
  <2>2. CASE i > n
    <3> DEFINE j == i - n
    <3>1. j \in 1 .. m /\ n + j = i  BY <1>6, <2>2
    <3> HIDE DEF j
    <3> QED  BY <1>6, <3>1
  <2> QED  BY <1>6, <2>1, <2>2
<1>8. u = v
  <2>1. PICK S : u \in Seq(S)  BY <1>5 DEF IsSeq
  <2>2. PICK T : v \in Seq(T)  BY <1>4 DEF IsSeq
  <2>3. u = [i \in 1 .. Len(u) |-> u[i]] /\ v = [i \in 1 .. Len(v) |-> v[i]]  BY <2>1, <2>2
  <2>4. u = [i \in 1 .. n + m |-> u[i]] /\ v = [i \in 1 .. n + m |-> v[i]]  BY <1>6, <2>3
  <2> QED  BY <1>7, <2>4
<1>9. Head(a) = c[1]
  <2>1. 1 \in 1 .. Len(a)  BY <1>1
  <2> QED  BY <1>1, <1>2, <2>1
<1> QED  BY <1>3, <1>8, <1>9 DEF u, v, c

LEMMA SyncBytes ==
  /\ STK_INSYNC \in SyncByte /\ STK_NOSYNC \in SyncByte /\ STK_INSYNC # STK_NOSYNC
  /\ FrameError \notin SyncByte /\ STK_OK \notin SyncByte /\ STK_FAILED \notin SyncByte
  /\ 0 \notin SyncByte /\ Signature \notin SyncByte /\ OtherSignature \notin SyncByte
BY DEF SyncByte, STK_INSYNC, STK_NOSYNC, FrameError, STK_OK, STK_FAILED, Signature, OtherSignature

LEMMA NoBytes == IsSeq(<<>>) /\ Stray(<<>>) /\ Len(<<>>) = 0
<1>1. <<>> \in Seq({}) /\ Len(<<>>) = 0  OBVIOUS
<1> QED  BY <1>1 DEF IsSeq, Stray

LEMMA StrayOnce ==
  ASSUME NEW q, IsSeq(q), Stray(q)
  PROVE  Once(q) /\ Refused(q)
<1>1. Len(q) \in Nat  BY JoinedSeqs
<1>2. Once(q)
  <2>1. 0 \in 0 .. Len(q)  BY <1>1
  <2> QED  BY <2>1 DEF Once, Stray
<1>3. \A i \in 1 .. Len(q) : q[i] # STK_INSYNC  BY SyncBytes DEF Stray
<1> QED  BY <1>2, <1>3 DEF Refused

LEMMA StrayParts ==
  ASSUME NEW a, IsSeq(a), NEW b, IsSeq(b)
  PROVE  Stray(a \o b) <=> Stray(a) /\ Stray(b)
<1> DEFINE c == a \o b
           n == Len(a)
           m == Len(b)
<1>1. /\ n \in Nat /\ m \in Nat /\ Len(c) = n + m
      /\ \A i \in 1 .. n : c[i] = a[i]
      /\ \A i \in 1 .. m : c[n + i] = b[i]
  BY JoinedSeqs
<1> HIDE DEF c, n, m
<1>2. ASSUME Stray(c) PROVE Stray(a) /\ Stray(b)
  <2>1. \A i \in 1 .. n + m : c[i] \notin SyncByte  BY <1>1, <1>2 DEF Stray
  <2>2. \A i \in 1 .. n : a[i] \notin SyncByte  BY <1>1, <2>1
  <2>3. \A i \in 1 .. m : b[i] \notin SyncByte
    <3> SUFFICES ASSUME NEW i \in 1 .. m PROVE b[i] \notin SyncByte  OBVIOUS
    <3>1. n + i \in 1 .. n + m  BY <1>1
    <3> QED  BY <1>1, <2>1, <3>1
  <2> QED  BY <2>2, <2>3 DEF Stray, n, m
<1>3. ASSUME Stray(a), Stray(b) PROVE Stray(c)
  <2>1. (\A i \in 1 .. n : a[i] \notin SyncByte) /\ \A i \in 1 .. m : b[i] \notin SyncByte
    BY <1>3 DEF Stray, n, m
  <2>2. ASSUME NEW i \in 1 .. n + m PROVE c[i] \notin SyncByte
    <3>1. CASE i <= n  BY <1>1, <2>1, <3>1
    <3>2. CASE i > n
      <4> DEFINE j == i - n
      <4>1. j \in 1 .. m /\ n + j = i  BY <1>1, <3>2
      <4> HIDE DEF j
      <4> QED  BY <1>1, <2>1, <4>1
    <3> QED  BY <1>1, <3>1, <3>2
  <2> QED  BY <1>1, <2>2 DEF Stray
<1> QED  BY <1>2, <1>3 DEF c

(* The first byte has been read.                                           *)
LEMMA ByteRead ==
  ASSUME NEW q, IsSeq(q), q # <<>>
  PROVE  /\ Stray(q) => Stray(Tail(q)) /\ q[1] \notin SyncByte
         /\ Once(q) => Once(Tail(q)) /\ (q[1] \in SyncByte => Stray(Tail(q)))
         /\ Refused(q) => Refused(Tail(q)) /\ q[1] # STK_INSYNC
<1> DEFINE n == Len(q)
           t == Tail(q)
<1>1. n \in Nat \ {0} /\ IsSeq(t) /\ Len(t) = n - 1 /\ \A i \in 1 .. n - 1 : t[i] = q[i + 1]
  BY TailSeq
<1> HIDE DEF n, t
<1>2. 1 \in 1 .. n /\ \A i \in 1 .. n - 1 : i + 1 \in 1 .. n  BY <1>1
<1>3. Stray(q) => Stray(t) /\ q[1] \notin SyncByte  BY <1>1, <1>2 DEF Stray, n
<1>4. ASSUME Once(q) PROVE Once(t) /\ (q[1] \in SyncByte => Stray(t))
  <2>1. PICK k \in 0 .. n : \A i \in 1 .. n : i # k => q[i] \notin SyncByte  BY <1>4 DEF Once, n
  <2>2. q[1] \in SyncByte => Stray(t)
    <3> SUFFICES ASSUME q[1] \in SyncByte PROVE Stray(t)  OBVIOUS
    <3>1. k = 1  BY <1>2, <2>1
    <3>2. \A i \in 1 .. n - 1 : i + 1 # k  BY <1>1, <3>1
    <3> QED  BY <1>1, <1>2, <2>1, <3>2 DEF Stray
  <2>3. Once(t)
    <3> DEFINE j == IF k = 0 THEN 0 ELSE k - 1
    <3>1. k \in 0 .. n  BY <2>1
    <3>2. j \in 0 .. n - 1 /\ \A i \in 1 .. n - 1 : i # j => i + 1 # k  BY <1>1, <3>1
    <3> HIDE DEF j
    <3>3. \A i \in 1 .. n - 1 : i # j => t[i] \notin SyncByte  BY <1>1, <1>2, <2>1, <3>2
    <3> QED  BY <1>1, <3>2, <3>3 DEF Once
  <2> QED  BY <2>2, <2>3
<1>5. ASSUME Refused(q) PROVE Refused(t) /\ q[1] # STK_INSYNC
  <2>1. Once(q) /\ \A i \in 1 .. n : q[i] # STK_INSYNC  BY <1>5 DEF Refused, n
  <2>2. \A i \in 1 .. n - 1 : t[i] # STK_INSYNC  BY <1>1, <1>2, <2>1
  <2> QED  BY <1>1, <1>2, <1>4, <2>1, <2>2 DEF Refused
<1> QED  BY <1>3, <1>4, <1>5 DEF t

(* The page of an answer that begins at its STK_INSYNC.                    *)
PageReply(q, s, d) ==
  /\ Len(q) = s.words + 2 /\ q[1] = STK_INSYNC
  /\ \A i \in 1 .. s.words : q[1 + i] = MemoryOf(d)[s.page + i - 1]
  /\ q[s.words + 2] \notin SyncByte

LEMMA PageByteRead ==
  ASSUME NEW q, IsSeq(q), q # <<>>, NEW s, s.words \in Nat, NEW d, PageAnswer(q, s, d)
  PROVE  IF q[1] \in SyncByte THEN PageReply(q, s, d) ELSE PageAnswer(Tail(q), s, d)
<1> DEFINE n == Len(q)
           t == Tail(q)
           w == s.words
<1>1. n \in Nat \ {0} /\ IsSeq(t) /\ Len(t) = n - 1 /\ \A i \in 1 .. n - 1 : t[i] = q[i + 1]
  BY TailSeq
<1>2. w \in Nat  OBVIOUS
<1>3. PICK m \in 0 .. n :
        /\ \A i \in 1 .. m : q[i] \notin SyncByte
        /\ n = m + w + 2 /\ q[m + 1] = STK_INSYNC
        /\ \A i \in 1 .. w : q[m + 1 + i] = MemoryOf(d)[s.page + i - 1]
        /\ q[m + w + 2] \notin SyncByte
  BY DEF PageAnswer
<1>4. m \in 0 .. n  BY <1>3
<1> HIDE DEF n, t, w
<1>5. CASE m = 0
  <2>1. n = w + 2 /\ q[1] = STK_INSYNC /\ q[w + 2] \notin SyncByte
    <3>1. 0 + w + 2 = w + 2 /\ 0 + 1 = 1  BY <1>2
    <3> QED  BY <1>3, <1>5, <3>1
  <2>2. \A i \in 1 .. w : q[1 + i] = MemoryOf(d)[s.page + i - 1]
    <3> SUFFICES ASSUME NEW i \in 1 .. w PROVE q[1 + i] = MemoryOf(d)[s.page + i - 1]  OBVIOUS
    <3>1. m + 1 + i = 1 + i  BY <1>5
    <3> QED  BY <1>3, <3>1
  <2> QED  BY <2>1, <2>2, SyncBytes DEF PageReply, n, w
<1>6. CASE m # 0
  <2> DEFINE k == m - 1
  <2>1. k \in 0 .. n - 1 /\ k + 1 = m  BY <1>1, <1>4, <1>6
  <2> HIDE DEF k
  <2>2. 1 \in 1 .. m  BY <1>4, <1>6
  <2>3. q[1] \notin SyncByte  BY <1>3, <2>2
  <2>4. \A i \in 1 .. k : t[i] \notin SyncByte
    <3> SUFFICES ASSUME NEW i \in 1 .. k PROVE t[i] \notin SyncByte  OBVIOUS
    <3>1. i + 1 \in 1 .. m /\ i \in 1 .. n - 1  BY <1>1, <1>4, <2>1
    <3> QED  BY <1>1, <1>3, <3>1
  <2>5. n - 1 = k + w + 2 /\ k + 1 \in 1 .. n - 1 /\ k + w + 2 \in 1 .. n - 1
        /\ (k + 1) + 1 = m + 1 /\ (k + w + 2) + 1 = m + w + 2
    BY <1>1, <1>2, <1>3, <1>4, <2>1
  <2>6. t[k + 1] = STK_INSYNC /\ t[k + w + 2] \notin SyncByte  BY <1>1, <1>3, <2>5
  <2>7. \A i \in 1 .. w : t[k + 1 + i] = MemoryOf(d)[s.page + i - 1]
    <3> SUFFICES ASSUME NEW i \in 1 .. w PROVE t[k + 1 + i] = MemoryOf(d)[s.page + i - 1]  OBVIOUS
    <3>1. k + 1 + i \in 1 .. n - 1 /\ (k + 1 + i) + 1 = m + 1 + i  BY <1>2, <2>1, <2>5
    <3> QED  BY <1>1, <1>3, <3>1
  <2> QED  BY <1>1, <2>1, <2>3, <2>4, <2>5, <2>6, <2>7 DEF PageAnswer, t, w
<1> QED  BY <1>5, <1>6

(* An answer follows stray bytes.                                          *)
Headed(r) ==
  IsSeq(r) /\ r # <<>> /\ r[1] \in SyncByte /\ \A i \in 2 .. Len(r) : r[i] \notin SyncByte

LEMMA AnswerFollows ==
  ASSUME NEW a, IsSeq(a), Stray(a), NEW r, Headed(r)
  PROVE  /\ IsSeq(a \o r) /\ Once(a \o r)
         /\ r[1] = STK_NOSYNC => Refused(a \o r)
<1> DEFINE c == a \o r
           n == Len(a)
           m == Len(r)
<1>1. /\ IsSeq(c) /\ n \in Nat /\ m \in Nat /\ Len(c) = n + m
      /\ \A i \in 1 .. n : c[i] = a[i]
      /\ \A i \in 1 .. m : c[n + i] = r[i]
  BY JoinedSeqs DEF Headed
<1>2. m \in Nat \ {0} /\ (\A i \in 2 .. m : r[i] \notin SyncByte)
      /\ \A i \in 1 .. n : a[i] \notin SyncByte
  BY TailSeq DEF Headed, Stray
<1> HIDE DEF c, n, m
<1>3. ASSUME NEW i \in 1 .. n + m, i # n + 1 PROVE c[i] \notin SyncByte
  <2>1. CASE i <= n  BY <1>1, <1>2, <2>1
  <2>2. CASE i > n
    <3> DEFINE j == i - n
    <3>1. j \in 2 .. m /\ j \in 1 .. m /\ n + j = i  BY <1>1, <1>3, <2>2
    <3> HIDE DEF j
    <3> QED  BY <1>1, <1>2, <3>1
  <2> QED  BY <1>1, <2>1, <2>2
<1>4. n + 1 \in 0 .. n + m /\ n + 1 \in 1 .. n + m /\ 1 \in 1 .. m  BY <1>1, <1>2
<1>5. Once(c)  BY <1>1, <1>3, <1>4 DEF Once
<1>6. ASSUME r[1] = STK_NOSYNC PROVE Refused(c)
  <2>1. c[n + 1] = STK_NOSYNC  BY <1>1, <1>4, <1>6
  <2>2. \A i \in 1 .. n + m : c[i] # STK_INSYNC  BY <1>3, <2>1, SyncBytes
  <2> QED  BY <1>1, <1>5, <2>2 DEF Refused
<1> QED  BY <1>1, <1>5, <1>6 DEF c

LEMMA PageFollows ==
  ASSUME NEW a, IsSeq(a), Stray(a), NEW s, s.words \in Nat, NEW d, NEW r, IsSeq(r), PageReply(r, s, d)
  PROVE  IsSeq(a \o r) /\ PageAnswer(a \o r, s, d)
<1> DEFINE c == a \o r
           n == Len(a)
           w == s.words
           m == Len(r)
<1>a. /\ IsSeq(c) /\ n \in Nat /\ Len(c) = n + m
      /\ \A i \in 1 .. n : c[i] = a[i]
      /\ \A i \in 1 .. m : c[n + i] = r[i]
  BY JoinedSeqs
<1>b. w \in Nat /\ m = w + 2  BY DEF PageReply
<1>1. /\ IsSeq(c) /\ n \in Nat /\ w \in Nat /\ Len(c) = n + (w + 2)
      /\ \A i \in 1 .. n : c[i] = a[i]
      /\ \A i \in 1 .. w + 2 : c[n + i] = r[i]
  <2> HIDE DEF c, n, w, m
  <2> QED  BY <1>a, <1>b
<1>2. /\ r[1] = STK_INSYNC /\ r[w + 2] \notin SyncByte
      /\ \A i \in 1 .. w : r[1 + i] = MemoryOf(d)[s.page + i - 1]
  BY DEF PageReply
<1> HIDE DEF c, n, w
<1>3. n \in 0 .. Len(c) /\ Len(c) = n + w + 2 /\ 1 \in 1 .. w + 2 /\ w + 2 \in 1 .. w + 2
      /\ n + (w + 2) = n + w + 2
  BY <1>1
<1>4. \A i \in 1 .. n : c[i] \notin SyncByte  BY <1>1 DEF Stray, n
<1>5. c[n + 1] = STK_INSYNC /\ c[n + w + 2] \notin SyncByte  BY <1>1, <1>2, <1>3
<1>6. \A i \in 1 .. w : c[n + 1 + i] = MemoryOf(d)[s.page + i - 1]
  <2> SUFFICES ASSUME NEW i \in 1 .. w PROVE c[n + 1 + i] = MemoryOf(d)[s.page + i - 1]  OBVIOUS
  <2>1. 1 + i \in 1 .. w + 2 /\ n + (1 + i) = n + 1 + i  BY <1>1
  <2> QED  BY <1>1, <1>2, <2>1
<1>7. /\ n \in 0 .. Len(c) /\ Len(c) = n + s.words + 2
      /\ \A i \in 1 .. n : c[i] \notin SyncByte
      /\ c[n + 1] = STK_INSYNC /\ c[n + s.words + 2] \notin SyncByte
      /\ \A i \in 1 .. s.words : c[n + 1 + i] = MemoryOf(d)[s.page + i - 1]
  BY <1>3, <1>4, <1>5, <1>6 DEF w
<1>8. PageAnswer(c, s, d)  BY <1>7 DEF PageAnswer
<1> QED  BY <1>1, <1>8 DEF c

-----------------------------------------------------------------------------
(* Verification: what a page compared, and the move to the next one.       *)

(* What Send() leaves alone.                                               *)
Same(s, t) ==
  /\ t.stage = s.stage /\ t.error = s.error /\ t.modifier = s.modifier
  /\ t.hex = s.hex /\ t.page = s.page /\ t.words = s.words /\ t.bank = s.bank /\ t.in = s.in

LEMMA SendFields ==
  ASSUME NEW s, DOMAIN s = SessionField, NEW h, NEW c
  PROVE  /\ Same(s, Send(s, h, c)) /\ Send(s, h, c).onSync = s.onSync
         /\ Send(s, h, c).out = <<c>> /\ Send(s, h, c).handler = h
BY DEF SessionField, Send, Same

LEMMA SyncFields ==
  ASSUME NEW s, DOMAIN s = SessionField, NEW t, t = SendGetSync(s)
  PROVE  /\ Same(s, t) /\ t.out = <<GetSyncCmd>> /\ t.handler = "GetSync"
         /\ s.handler # "GetSync" => t.onSync = s.handler
         /\ s.handler = "GetSync" => t.onSync = s.onSync
<1> DEFINE u == Send(s, "GetSync", GetSyncCmd)
<1>1. /\ Same(s, u) /\ u.onSync = s.onSync /\ u.out = <<GetSyncCmd>> /\ u.handler = "GetSync"
  BY SendFields
<1>2. DOMAIN u = SessionField  BY DEF Send
<1>3. t = IF s.handler = "GetSync" THEN u ELSE [u EXCEPT !.onSync = s.handler]  BY DEF SendGetSync
<1> HIDE DEF u
<1>4. Same(s, [u EXCEPT !.onSync = s.handler])
  BY <1>1, <1>2 DEF SessionField, Same
<1>5. LET v == [u EXCEPT !.onSync = s.handler]
      IN v.onSync = s.handler /\ v.out = u.out /\ v.handler = u.handler
  BY <1>2 DEF SessionField
<1> QED  BY <1>1, <1>3, <1>4, <1>5

LEMMA ReadFields ==
  ASSUME NEW s, DOMAIN s = SessionField, NEW t, t = Read(s)
  PROVE  /\ t.stage = s.stage /\ t.error = s.error /\ t.modifier = s.modifier
         /\ t.hex = s.hex /\ t.page = s.page /\ t.words = s.words /\ t.bank = s.bank
         /\ t.out = s.out /\ t.handler = s.handler /\ t.onSync = s.onSync
         /\ t.in = IF s.in = <<>> THEN <<>> ELSE Tail(s.in)
BY DEF SessionField, Read

(* What verification has reached, and what it waits for.                   *)
Base(s, d) ==
  /\ Verifying(s) /\ s.words = VerifiedWords
  /\ Standing(TheFile, s.hex) /\ InPlace(d, TheFile, s.hex)
Waits(s, d) ==
  \/ Waited(s) = "LoadExtAddress" /\ ToExtend(s)
  \/ Waited(s) = "LoadAddress" /\ AtHand(s) /\ Extended(s, d)
  \/ Waited(s) = "ProcessPage" /\ Going(s, d)
(* What is still to be read would not be taken for an answer.              *)
Muted(s) == IsSeq(s.in) /\ (job.serial => Stray(s.in))

LEMMA SameBase ==
  ASSUME NEW s, NEW d, Base(s, d), NEW t, t.stage = s.stage, t.words = s.words, t.hex = s.hex
  PROVE  Base(t, d)
BY DEF Base, Verifying

LEMMA SameMuted ==
  ASSUME NEW s, Muted(s), NEW t, t.in = s.in
  PROVE  Muted(t)
BY DEF Muted

LEMMA MutedRead ==
  ASSUME NEW s, DOMAIN s = SessionField, Muted(s)
  PROVE  Muted(Read(s))
<1>1. Read(s).in = IF s.in = <<>> THEN <<>> ELSE Tail(s.in)  BY ReadFields
<1>2. s.in # <<>> => IsSeq(Tail(s.in)) /\ (Stray(s.in) => Stray(Tail(s.in)))
  BY TailSeq, ByteRead DEF Muted
<1> QED  BY <1>1, <1>2, NoBytes DEF Muted

LEMMA SameGoing ==
  ASSUME NEW s, NEW t, Same(s, t), NEW d
  PROVE  /\ Going(s, d) => Going(t, d)
         /\ AtHand(s) => AtHand(t)
         /\ Extended(s, d) => Extended(t, d)
         /\ ToExtend(s) => ToExtend(t)
         /\ Ready(s, d) => Ready(t, d)
BY DEF Same, Going, Announced, AtHand, Extended, ToExtend, Ready, PageIn

LEMMA ReadyGoing ==
  ASSUME NEW s, NEW d, Ready(s, d)
  PROVE  Going(s, d)
BY DEF Ready, Going, AtHand, Announced

LEMMA CheckSync ==
  ASSUME NEW s, DOMAIN s = SessionField, NEW d, Base(s, d), Waits(s, d), Muted(s)
  PROVE  Check(SendGetSync(s), d, <<>>) /\ Muted(SendGetSync(s))
<1> DEFINE t == SendGetSync(s)
<1>1. /\ Same(s, t) /\ t.out = <<GetSyncCmd>> /\ t.handler = "GetSync" /\ Waited(t) = Waited(s)
  BY SyncFields DEF Waited
<1> HIDE DEF t
<1>2. Base(t, d) /\ Muted(t)  BY <1>1, SameBase, SameMuted DEF Same
<1>3. Request(t) = GetSyncCmd  BY <1>1 DEF Request
<1>4. t.out = <<Request(t)>> /\ ~Sent(t)  BY <1>1, <1>3 DEF Sent
<1>5. Waited(t) \in FileStep  BY <1>1 DEF Waits, FileStep
<1>6. \/ Waited(t) = "LoadExtAddress" /\ ToExtend(t)
      \/ Waited(t) = "LoadAddress" /\ AtHand(t) /\ Extended(t, d)
      \/ Waited(t) = "ProcessPage" /\ Going(t, d)
  BY <1>1, SameGoing DEF Waits
<1>7. Check(t, d, <<>>)  BY <1>1, <1>2, <1>4, <1>5, <1>6 DEF Check, Base
<1> QED  BY <1>2, <1>7 DEF t

(* A page is asked for, or its address or bank announced.                  *)
LEMMA CheckPage ==
  ASSUME NEW s, DOMAIN s = SessionField, NEW d, Base(s, d), InHand(s.hex), Announced(s, d), Muted(s)
  PROVE  Check(SendPageOrAddress(s), d, <<>>) /\ Muted(SendPageOrAddress(s))
<1> DEFINE p == PageIn(s)
           b == Bank(s.hex)
           u == [s EXCEPT !.bank = b]
           v == [s EXCEPT !.page = p]
<1>1. SendPageOrAddress(s) = IF b # s.bank THEN SendLoadExtAddress(u)
                             ELSE IF p # s.page THEN SendLoadAddress(v) ELSE SendPage(s)
  BY DEF SendPageOrAddress, PageIn
<1>2. /\ DOMAIN u = SessionField /\ u.stage = s.stage /\ u.hex = s.hex /\ u.page = s.page
      /\ u.words = s.words /\ u.bank = b /\ u.in = s.in
  BY DEF SessionField
<1>3. /\ DOMAIN v = SessionField /\ v.stage = s.stage /\ v.hex = s.hex /\ v.page = p
      /\ v.words = s.words /\ v.bank = s.bank /\ v.in = s.in
  BY DEF SessionField
<1> HIDE DEF u, v
<1>4. CASE b # s.bank
  <2> DEFINE c == UniversalCmd([op |-> "loadExt", bank |-> u.bank])
             t == Send(u, "LoadExtAddress", c)
  <2>1. SendPageOrAddress(s) = t  BY <1>1, <1>4 DEF SendLoadExtAddress
  <2>2. Same(u, t) /\ t.out = <<c>> /\ t.handler = "LoadExtAddress"  BY <1>2, SendFields
  <2> HIDE DEF t
  <2>3. Base(t, d) /\ Muted(t)  BY <1>2, <2>2, SameBase, SameMuted DEF Same
  <2>4. t.out = <<Request(t)>> /\ ~Sent(t) /\ Waited(t) = "LoadExtAddress"
    BY <2>2 DEF Request, Sent, Waited, Same
  <2>5. ToExtend(u)
    <3>1. s.page # p  BY <1>4 DEF Announced
    <3> QED  BY <1>2, <3>1 DEF ToExtend, PageIn
  <2>6. ToExtend(t)  BY <2>2, <2>5, SameGoing
  <2>7. Check(t, d, <<>>)  BY <2>3, <2>4, <2>6 DEF Check, Base, FileStep
  <2> QED  BY <2>1, <2>3, <2>7
<1>5. CASE b = s.bank /\ p # s.page
  <2> DEFINE c == LoadAddressCmd(v.page % BankWords)
             t == Send(v, "LoadAddress", c)
  <2>1. SendPageOrAddress(s) = t  BY <1>1, <1>5 DEF SendLoadAddress
  <2>2. Same(v, t) /\ t.out = <<c>> /\ t.handler = "LoadAddress"  BY <1>3, SendFields
  <2> HIDE DEF t
  <2>3. Base(t, d) /\ Muted(t)  BY <1>3, <2>2, SameBase, SameMuted DEF Same
  <2>4. t.out = <<Request(t)>> /\ ~Sent(t) /\ Waited(t) = "LoadAddress"
    BY <2>2 DEF Request, Sent, Waited, Same
  <2>5. AtHand(v) /\ Extended(v, d)
    <3>1. Extended(s, d)  BY <1>5 DEF Announced
    <3> QED  BY <1>3, <1>5, <3>1 DEF AtHand, PageIn, Extended
  <2>6. AtHand(t) /\ Extended(t, d)  BY <2>2, <2>5, SameGoing
  <2>7. Check(t, d, <<>>)  BY <2>3, <2>4, <2>6 DEF Check, Base, FileStep
  <2> QED  BY <2>1, <2>3, <2>7
<1>6. CASE b = s.bank /\ p = s.page
  <2> DEFINE c == ReadPageCmd(Memory, s.words)
             t == Send(s, "ProcessPage", c)
  <2>1. SendPageOrAddress(s) = t
    <3>1. ~Loading(s)  BY DEF Base, Verifying, Loading
    <3>2. SendPage(s) = t  BY <3>1, Zenon DEF SendPage
    <3> HIDE DEF t
    <3> QED  BY <1>1, <1>6, <3>2
  <2>2. Same(s, t) /\ t.out = <<c>> /\ t.handler = "ProcessPage"  BY SendFields
  <2> HIDE DEF t
  <2>3. Base(t, d) /\ Muted(t)  BY <2>2, SameBase, SameMuted DEF Same
  <2>4. t.out = <<Request(t)>> /\ t.out # <<>> /\ Waited(t) = "ProcessPage"
    BY <2>2 DEF Request, Waited, Same
  <2>5. Ready(s, d)  BY <1>6 DEF Announced, Ready, AtHand
  <2>6. Ready(t, d)  BY <2>2, <2>5, SameGoing
  <2>7. Check(t, d, <<>>)  BY <2>2, <2>3, <2>4, <2>6 DEF Check, Base, FileStep
  <2> QED  BY <2>1, <2>3, <2>7
<1> QED  BY <1>4, <1>5, <1>6

LEMMA SuitedFile ==
  ASSUME job \in Job, Suited
  PROVE  /\ HasFile(job) /\ TheFile \in Seq(Record) /\ Suits(TheFile)
         /\ GapFree(TheFile, VerifiedWords) /\ Orderly(TheFile)
<1>1. HasFile(job)  BY BegunHasFile DEF Suited
<1>2. TheFile \in Seq(Record)  BY <1>1, FileType
<1> QED  BY <1>1, <1>2 DEF Suited, Suits

(* Behind the end record every word has been passed.                       *)
LEMMA EndProgrammed ==
  ASSUME job \in Job, Suited, NEW s, NEW d, Base(s, d), s.hex.type = "eof"
  PROVE  ProgrammedIn(d)
<1> DEFINE f == TheFile
           h == s.hex
<1>1. f \in Seq(Record) /\ Orderly(f)  BY SuitedFile
<1>2. Standing(f, h) /\ InPlace(d, f, h)  BY DEF Base
<1>3. h # Rewind  BY DEF Rewind
<1>4. h.pos \in 2 .. Len(f) + 1 /\ f[h.pos - 1].type = "eof"  BY <1>2, <1>3 DEF Standing
<1> HIDE DEF f, h
<1>5. Len(f) \in Nat  BY <1>1
<1>6. h.pos - 1 \in 1 .. Len(f)  BY <1>4, <1>5
<1>7. h.pos - 1 = Len(f)  BY <1>1, <1>4, <1>6 DEF Orderly
<1>8. ASSUME NEW i \in DataRecords(f), NEW k PROVE Passed(h, i, k)
  <2>1. i \in 1 .. Len(f) /\ f[i].type = "data"  BY DEF DataRecords
  <2>2. i # Len(f)  BY <1>4, <1>7, <2>1
  <2>3. i < h.pos - 1  BY <1>5, <1>7, <2>1, <2>2
  <2> QED  BY <2>3 DEF Passed
<1>9. ASSUME NEW c \in Contents(f) PROVE MemoryOf(d)[c[1]] = c[2]
  <2>1. PICK i \in DataRecords(f) :
          c \in {<<FirstWord(f, i) + k - 1, f[i].words[k]>> : k \in 1 .. Len(f[i].words)}
    BY DEF Contents
  <2>2. PICK k \in 1 .. Len(f[i].words) : c = <<FirstWord(f, i) + k - 1, f[i].words[k]>>  BY <2>1
  <2>3. MemoryOf(d)[FirstWord(f, i) + k - 1] = f[i].words[k]
    BY <1>2, <1>8, <2>2 DEF InPlace, WordOf
  <2> QED  BY <2>2, <2>3
<1> QED  BY <1>9 DEF ProgrammedIn, f

(* The page s.page has been verified, with all of the record in hand.      *)
UsedUp(s, d) ==
  /\ s.hex.type = "data" /\ s.hex.index = Len(s.hex.words)
  /\ WordAddress(s.hex) = s.page + s.words
  /\ s.page \in Nat /\ PageOf(s.page, s.words) = s.page /\ InBank(s.page, s.bank)
  /\ Extended(s, d)

LEMMA NextInPlace ==
  ASSUME NEW f \in Seq(Record), NEW h \in Reader, Standing(f, h),
         h.type = "data" => h.index = Len(h.words), NEW d, InPlace(d, f, h),
         NEW g, g = LoadNextDataRecord(f, h), g.type # "invalid"
  PROVE  InPlace(d, f, g) /\ Standing(f, g) /\ Placed(g) /\ (g.type = "eof" \/ InHand(g)) /\ g.index = 0
<1>1. /\ Placed(g) /\ Onward(f, h, g) /\ (g.type = "data" => InHand(g))
      /\ \A i \in DataRecords(f) : \A k \in WordOf(f, i) : Passed(g, i, k) => Passed(h, i, k)
  BY Neighbour
<1>2. Standing(f, g) /\ g.type \in {"data", "eof"} /\ g.index = 0  BY <1>1 DEF Onward
<1>3. InPlace(d, f, g)  BY <1>1 DEF InPlace
<1> QED  BY <1>1, <1>2, <1>3

(* The next record begins another page, or another bank.                   *)
LEMMA NextAnnounced ==
  ASSUME job \in Job, Suited, NEW s, Session(s), NEW d, Base(s, d), UsedUp(s, d),
         NEW h, h = LoadNextDataRecord(TheFile, s.hex), h.type # "invalid",
         NEW t, t.hex = h, t.stage = s.stage, t.words = s.words, t.page = s.page, t.bank = s.bank
  PROVE  Base(t, d) /\ (h.type = "eof" \/ (InHand(h) /\ Announced(t, d)))
<1> DEFINE f == TheFile
           g == s.hex
           n == VerifiedWords
           p == s.page
           i == g.pos - 1
           j == h.pos - 1
<1>1. f \in Seq(Record) /\ GapFree(f, n) /\ Suits(f)  BY SuitedFile
<1>2. g \in Reader /\ Standing(f, g) /\ InPlace(d, f, g) /\ s.words = n
  BY DEF Session, Placed, Base
<1>3. /\ g.type = "data" /\ g.index = Len(g.words) /\ WordAddress(g) = p + n
      /\ p \in Nat /\ PageOf(p, n) = p /\ InBank(p, s.bank) /\ Extended(s, d)
  BY <1>2 DEF UsedUp
<1> HIDE DEF f, g, n, p
<1>4. /\ InPlace(d, f, h) /\ Standing(f, h) /\ Placed(h) /\ (h.type = "eof" \/ InHand(h))
      /\ h.index = 0
  BY <1>1, <1>2, <1>3, NextInPlace DEF f, g
<1>5. Base(t, d)  BY <1>2, <1>4 DEF Base, Verifying, f
<1>6. ASSUME InHand(h) PROVE Announced(t, d)
  <2> DEFINE q == PageOf(WordAddress(h), n)
  <2>1. h \in Reader /\ h.type = "data"  BY <1>4, <1>6 DEF Placed, InHand
  <2>2. q \in Nat /\ InBank(q, Bank(h))  BY <1>1, <1>4, <1>6, <2>1, PagePlace DEF n
  <2>3. PageIn(t) = q  BY <1>2 DEF PageIn
  <2> HIDE DEF q
  <2>4. s.bank # Bank(h) => p # q  BY <1>3, <2>2, OneBank
  <2>5. p # q
    <3> SUFFICES ASSUME p = q PROVE FALSE  OBVIOUS
    <3>1. /\ i \in DataRecords(f) /\ g.words = f[i].words /\ WordAddress(g) = FirstWord(f, i) + g.index
      BY <1>1, <1>2, <1>3, StandingData
    <3>2. j \in DataRecords(f) /\ WordAddress(h) = FirstWord(f, j) + h.index
      BY <1>1, <1>4, <2>1, StandingData
    <3>3. Follows(f, i, j)  BY <1>1, <1>2, <1>3, <2>1, Neighbour DEF f, g
    <3> HIDE DEF i, j
    <3>4. /\ FirstWord(f, i) \in Nat /\ PastWord(f, i) = FirstWord(f, i) + Len(f[i].words)
          /\ FirstWord(f, j) \in Nat
      BY <1>1, <3>1, <3>2, RecordWords
    <3>5. PastWord(f, i) = p + n /\ WordAddress(h) = FirstWord(f, j)
      BY <1>3, <1>4, <3>1, <3>2, <3>4
    <3>6. n \in Nat \ {0}  BY VerifiedPages DEF n
    <3>7. PageOf(PastWord(f, i) - 1, n) = p
      <4>1. p + n - 1 \in PageOf(p, n) .. PageOf(p, n) + n - 1  BY <1>3, <3>6
      <4>2. PageOf(p + n - 1, n) = PageOf(p, n)  BY <1>3, <3>6, <4>1, SamePage
      <4>3. PastWord(f, i) - 1 = p + n - 1  BY <1>3, <3>5, <3>6
      <4> QED  BY <1>3, <4>2, <4>3
    <3>8. PageOf(FirstWord(f, j), n) = p  BY <3>5 DEF q
    <3>9. FirstWord(f, j) = PastWord(f, i)  BY <1>1, <3>1, <3>2, <3>3, <3>7, <3>8 DEF GapFree
    <3>10. PageOf(p + n, n) = p /\ p + n \in Nat  BY <1>3, <3>5, <3>6, <3>8, <3>9
    <3> DEFINE x == p + n
    <3>11. x \in Nat /\ PageOf(x, n) = p /\ x = p + n  BY <3>10
    <3> HIDE DEF x
    <3>12. x < PageOf(x, n) + n  BY <3>6, <3>11, PageBounds
    <3> QED  BY <1>3, <3>6, <3>11, <3>12
  <2>6. t.bank = Bank(t.hex) => Extended(t, d)  BY <1>3 DEF Extended
  <2>7. t.page # PageIn(t)  BY <2>3, <2>5 DEF p
  <2> QED  BY <2>6, <2>7 DEF Announced
<1> QED  BY <1>4, <1>5, <1>6

(* The end: memory is not touched any more.                                *)
LEMMA AfterSend ==
  ASSUME NEW s, DOMAIN s = SessionField, s.stage # "SessionCompleted", NEW d, ProgrammedIn(d),
         Muted(s), NEW h \in Last, NEW c \in Mild
  PROVE  Afterwards(Send(s, h, c), d) /\ Muted(Send(s, h, c))
<1> DEFINE t == Send(s, h, c)
<1>1. Same(s, t) /\ t.out = <<c>> /\ t.handler = h  BY SendFields
<1> HIDE DEF t
<1>2. Waited(t) \in Last  BY <1>1 DEF Waited, Last
<1>3. Muted(t) /\ t.stage # "SessionCompleted"  BY <1>1, SameMuted DEF Same
<1>4. t.out[1] \in Mild  BY <1>1
<1> QED  BY <1>2, <1>3, <1>4 DEF Afterwards, t

LEMMA MildCommands ==
  /\ GetSyncCmd \in Mild /\ LeaveProgModeCmd \in Mild
  /\ UniversalCmd([op |-> "readLock"]) \in Mild /\ UniversalCmd([op |-> "writeLock"]) \in Mild
  /\ "VerifyLockBits" \in Last /\ "LeaveProgramMode" \in Last
BY DEF Mild, Last

LEMMA AfterFinished ==
  ASSUME NEW s, DOMAIN s = SessionField, s.stage # "SessionCompleted", NEW d, ProgrammedIn(d), Muted(s)
  PROVE  Afterwards(Finished(s), d) /\ Muted(Finished(s))
<1> DEFINE t == [s EXCEPT !.stage = "VerifyLockBits", !.modifier = {}]
<1>1. DOMAIN t = SessionField /\ t.stage = "VerifyLockBits" /\ t.in = s.in  BY DEF SessionField
<1>2. Finished(s) = IF IsProgramming THEN SendLeaveProgramMode(s) ELSE SendVerifyLockBits(t)
  BY DEF Finished, VerifyLocks
<1> HIDE DEF t
<1>3. Muted(t)  BY <1>1, SameMuted
<1>4. Afterwards(SendVerifyLockBits(t), d) /\ Muted(SendVerifyLockBits(t))
  BY <1>1, <1>3, AfterSend, MildCommands DEF SendVerifyLockBits
<1>5. Afterwards(SendLeaveProgramMode(s), d) /\ Muted(SendLeaveProgramMode(s))
  BY AfterSend, MildCommands DEF SendLeaveProgramMode
<1> QED  BY <1>2, <1>4, <1>5

(* What the session may be after a handler, the answer being read.         *)
Sane(t, d) == t.error = "none" => Kept(t, d, <<>>) /\ Muted(t)

LEMMA FailSane ==
  ASSUME NEW s, DOMAIN s = SessionField, NEW e, e # "none", NEW d
  PROVE  Sane(Fail(s, e), d)
BY DEF SessionField, Fail, Sane

LEMMA RecordTaken ==
  ASSUME NEW s, Placed(s.hex), NEW h, h = LoadNextDataRecord(TheFile, s.hex)
  PROVE  /\ InHand(s.hex) \/ s.hex.type = "eof" => WithRecord(s) = s
         /\ s.hex.index = Len(s.hex.words) /\ s.hex.type # "eof" =>
              WithRecord(s) = IF h.type = "invalid" THEN Fail([s EXCEPT !.hex = h], "LoadHexData")
                              ELSE [s EXCEPT !.hex = h]
<1> DEFINE W(x) == IF x.type = "invalid" THEN Fail([s EXCEPT !.hex = x], "LoadHexData")
                   ELSE [s EXCEPT !.hex = x]
           used == s.hex.index = Len(s.hex.words) /\ s.hex.type # "eof"
<1>1. With(h, W) = W(h)
  <2> HIDE DEF W
  <2> QED  BY Zenon DEF With
<1>2. WithRecord(s) = IF used THEN With(h, W) ELSE s  BY Zenon DEF WithRecord
<1>3. InHand(s.hex) => ~used
  <2> DEFINE i == s.hex.index
             v == s.hex.words
  <2>1. i \in Nat /\ Len(v) \in Nat  BY DEF Placed, Reader
  <2>2. i < Len(v) => i # Len(v)
    <3> HIDE DEF i, v
    <3> QED  BY <2>1
  <2> QED  BY <2>2 DEF InHand
<1>4. s.hex.type = "eof" => ~used  OBVIOUS
<1> HIDE DEF used
<1>5. ~used => WithRecord(s) = s  BY <1>2
<1>6. used => WithRecord(s) = W(h)  BY <1>1, <1>2
<1> QED  BY <1>3, <1>4, <1>5, <1>6 DEF used

(* With the next record in hand, or at the end.                            *)
LEMMA CheckRecord ==
  ASSUME job \in Job, Suited, NEW t, DOMAIN t = SessionField, NEW d, Base(t, d), Muted(t),
         t.hex.type = "eof" \/ (InHand(t.hex) /\ Announced(t, d)),
         NEW u, u = IF t.hex.type = "eof" THEN EndOfFile(t) ELSE SendPageOrAddress(t)
  PROVE  Kept(u, d, <<>>) /\ Muted(u)
<1>1. CASE t.hex.type = "eof"
  <2>1. ~Loading(t) /\ t.stage # "SessionCompleted"  BY DEF Base, Verifying, Loading
  <2>2. u = Finished(t)  BY <1>1, <2>1, Zenon DEF EndOfFile
  <2>3. ProgrammedIn(d)  BY <1>1, EndProgrammed
  <2> QED  BY <2>1, <2>2, <2>3, AfterFinished DEF Kept
<1>2. CASE InHand(t.hex) /\ Announced(t, d)
  <2>1. u = SendPageOrAddress(t)  BY <1>2 DEF InHand
  <2> QED  BY <1>2, <2>1, CheckPage DEF Kept
<1> QED  BY <1>1, <1>2

LEMMA CheckNext ==
  ASSUME job \in Job, Suited, NEW s, Session(s), s.error = "none", NEW d, Base(s, d), Going(s, d), Muted(s)
  PROVE  Sane(SendProcessPage(s), d)
<1> DEFINE t == WithRecord(s)
           E(x) == IF x.hex.type = "eof" THEN EndOfFile(x) ELSE SendPageOrAddress(x)
           W(x) == IF x.error # "none" THEN x
                   ELSE IF x.hex.type = "eof" THEN EndOfFile(x) ELSE SendPageOrAddress(x)
           h == LoadNextDataRecord(TheFile, s.hex)
<1>1. SendProcessPage(s) = W(t)
  <2>1. With(t, W) = W(t)
    <3> HIDE DEF W
    <3> QED  BY Zenon DEF With
  <2>2. SendProcessPage(s) = With(t, W)  BY Zenon DEF SendProcessPage
  <2> QED  BY <2>1, <2>2
<1>2. DOMAIN s = SessionField /\ Placed(s.hex)  BY DEF Session
<1>3. /\ InHand(s.hex) \/ s.hex.type = "eof" => t = s
      /\ s.hex.index = Len(s.hex.words) /\ s.hex.type # "eof" =>
           t = IF h.type = "invalid" THEN Fail([s EXCEPT !.hex = h], "LoadHexData")
               ELSE [s EXCEPT !.hex = h]
  BY <1>2, RecordTaken
<1> HIDE DEF t, h
<1>4. W(t) = IF t.error # "none" THEN t ELSE E(t)  OBVIOUS
<1> HIDE DEF W
<1>5. CASE s.hex.type = "eof" \/ (InHand(s.hex) /\ Announced(s, d))
  <2>1. t = s  BY <1>3, <1>5
  <2>2. Kept(E(s), d, <<>>) /\ Muted(E(s))  BY <1>2, <1>5, CheckRecord
  <2> QED  BY <1>1, <1>4, <2>1, <2>2 DEF Sane
<1>6. CASE UsedUp(s, d)
  <2> DEFINE u == [s EXCEPT !.hex = h]
  <2>1. t = IF h.type = "invalid" THEN Fail(u, "LoadHexData") ELSE u  BY <1>3, <1>6 DEF UsedUp
  <2>2. /\ DOMAIN u = SessionField /\ u.hex = h /\ u.stage = s.stage /\ u.words = s.words
        /\ u.page = s.page /\ u.bank = s.bank /\ u.in = s.in /\ u.error = s.error
    BY <1>2 DEF SessionField
  <2> HIDE DEF u
  <2>3. CASE h.type = "invalid"
    <3>1. Sane(t, d) /\ t.error # "none"
      <4>1. Fail(u, "LoadHexData").error = "LoadHexData"  BY <2>2 DEF Fail, SessionField
      <4> QED  BY <2>1, <2>3, <4>1 DEF Sane
    <3> QED  BY <1>1, <1>4, <3>1
  <2>4. CASE h.type # "invalid"
    <3>1. t = u /\ Muted(u)  BY <2>1, <2>2, <2>4, SameMuted
    <3>2. Base(u, d) /\ (h.type = "eof" \/ (InHand(h) /\ Announced(u, d)))
      BY <1>6, <2>2, <2>4, NextAnnounced DEF h
    <3>3. Kept(E(u), d, <<>>) /\ Muted(E(u))  BY <2>2, <3>1, <3>2, CheckRecord
    <3> QED  BY <1>1, <1>4, <2>2, <3>1, <3>3 DEF Sane
  <2> QED  BY <2>3, <2>4
<1> QED  BY <1>5, <1>6 DEF Going, UsedUp

(* Verification begins: no page and no bank is taken for announced.        *)
LEMMA FirstAnnounced ==
  ASSUME job \in Job, Suited, NEW t, NEW d, t.words = VerifiedWords, t.page = NoPage,
         t.bank = IF job.large THEN NoBank ELSE 0, Small => d.ext = 0,
         t.hex \in Reader, Standing(TheFile, t.hex), InHand(t.hex)
  PROVE  Announced(t, d)
<1> DEFINE h == t.hex
           n == VerifiedWords
           q == PageOf(WordAddress(h), n)
<1>1. TheFile \in Seq(Record) /\ Suits(TheFile)  BY SuitedFile
<1>2. q \in Nat /\ PageOf(q, n) = q /\ n \in Nat \ {0}  BY <1>1, PagePlace, VerifiedPages
<1>3. q # NoPage
  <2>1. NoPage % n # 0  BY NoPageAssumption DEF VerifiedWords, PageWords
  <2> HIDE DEF q, n
  <2>2. q % n = 0
    <3>1. PageOf(q, n) + (q % n) = q /\ q % n \in 0 .. n - 1  BY <1>2, PageBounds
    <3> DEFINE r == q % n
    <3>2. r \in Int /\ q + r = q /\ q \in Nat  BY <1>2, <3>1
    <3> HIDE DEF r
    <3>3. r = 0  BY <3>2
    <3> QED  BY <3>3 DEF r
  <2> QED  BY <2>1, <2>2
<1>4. PageIn(t) = q  BY DEF PageIn
<1>5. t.page # PageIn(t)  BY <1>3, <1>4
<1>6. ASSUME t.bank = Bank(h) PROVE Extended(t, d)
  <2>1. CASE ~job.large  BY <2>1 DEF Extended, Small
  <2>2. CASE job.large
    <3>1. h.type = "data"  BY DEF InHand
    <3>2. h.pos - 1 \in DataRecords(TheFile) /\ h.high = HighAt(TheFile, h.pos - 1)
      BY <1>1, <3>1, StandingData
    <3>3. h.high \in 0 .. 15  BY <1>1, <3>2, RecordWords
    <3> DEFINE z == h.high
    <3>4. z \div 2 < 255
      <4>1. z \in 0 .. 15  BY <3>3
      <4> HIDE DEF z
      <4> QED  BY <4>1
    <3> QED  BY <1>6, <2>2, <3>4 DEF Bank, NoBank
  <2> QED  BY <2>1, <2>2
<1> QED  BY <1>5, <1>6 DEF Announced

LEMMA VerifyingFields ==
  ASSUME NEW s, DOMAIN s = SessionField, Loading(s), s.words = PageWords, NEW u, u = StartVerifying(s)
  PROVE  /\ DOMAIN u = SessionField /\ u.hex = Rewind /\ Verifying(u) /\ u.words = VerifiedWords
         /\ u.page = NoPage /\ (u.bank = IF job.large THEN NoBank ELSE 0)
         /\ u.in = s.in /\ u.error = s.error /\ u.out = s.out
BY DEF StartVerifying, SessionField, Loading, Verifying, VerifiedWords

LEMMA CheckFirst ==
  ASSUME job \in Job, Suited, NEW s, DOMAIN s = SessionField, s.error = "none", Loading(s),
         s.words = PageWords, NEW d, Small => d.ext = 0, Muted(s)
  PROVE  Sane(FirstVerified(s), d)
<1> DEFINE v == StartVerifying(s)
           t == WithRecord(v)
           E(x) == IF x.hex.type = "eof" THEN EndOfFile(x) ELSE SendPageOrAddress(x)
           F(x) == IF x.hex.type = "eof" THEN Finished(x) ELSE SendPageOrAddress(x)
           W(x) == IF x.error # "none" THEN x
                   ELSE IF x.hex.type = "eof" THEN Finished(x) ELSE SendPageOrAddress(x)
           h == LoadNextDataRecord(TheFile, Rewind)
           u == [v EXCEPT !.hex = h]
<1>1. FirstVerified(s) = W(t)
  <2>1. With(t, W) = W(t)
    <3> HIDE DEF W
    <3> QED  BY Zenon DEF With
  <2>2. FirstVerified(s) = With(t, W)  BY Zenon DEF FirstVerified
  <2> QED  BY <2>1, <2>2
<1>2. /\ DOMAIN v = SessionField /\ v.hex = Rewind /\ Verifying(v) /\ v.words = VerifiedWords
      /\ v.page = NoPage /\ (v.bank = IF job.large THEN NoBank ELSE 0)
      /\ v.in = s.in /\ v.error = s.error
  BY VerifyingFields
<1> HIDE DEF v
<1>3. t = IF h.type = "invalid" THEN Fail(u, "LoadHexData") ELSE u
  <2>1. Rewind.index = Len(Rewind.words) /\ Rewind.type # "eof"  BY DEF Rewind
  <2> HIDE DEF t, h
  <2> QED  BY <1>2, <2>1, RewindPlaced, RecordTaken DEF t, h
<1>4. /\ DOMAIN u = SessionField /\ u.hex = h /\ u.stage = v.stage /\ u.words = v.words
      /\ u.page = v.page /\ u.bank = v.bank /\ u.in = v.in /\ u.error = v.error
  BY <1>2 DEF SessionField
<1> HIDE DEF t, h, u
<1>5. W(t) = IF t.error # "none" THEN t ELSE F(t)  OBVIOUS
<1> HIDE DEF W
<1>6. CASE h.type = "invalid"
  <2>1. Fail(u, "LoadHexData").error = "LoadHexData"  BY <1>4 DEF Fail, SessionField
  <2> QED  BY <1>1, <1>3, <1>5, <1>6, <2>1 DEF Sane
<1>7. CASE h.type # "invalid"
  <2>1. TheFile \in Seq(Record)  BY SuitedFile
  <2>2. InPlace(d, TheFile, Rewind) /\ Standing(TheFile, Rewind) /\ Rewind \in Reader
        /\ Rewind.type # "data"
    <3>1. \A i \in DataRecords(TheFile) : i \in Nat /\ i >= 1  BY DEF DataRecords
    <3>2. \A i \in DataRecords(TheFile) : \A k : ~Passed(Rewind, i, k)  BY <3>1 DEF Passed, Rewind
    <3> QED  BY <3>2, RewindPlaced DEF InPlace, Standing, Placed, Rewind
  <2>3. /\ InPlace(d, TheFile, h) /\ Standing(TheFile, h) /\ Placed(h)
        /\ (h.type = "eof" \/ InHand(h))
    BY <1>7, <2>1, <2>2, NextInPlace DEF h
  <2>4. Base(u, d) /\ Muted(u)
    <3>1. Muted(u)  BY <1>2, <1>4, SameMuted
    <3> QED  BY <1>2, <1>4, <2>3, <3>1 DEF Base, Verifying
  <2>5. InHand(h) => Announced(u, d)  BY <1>2, <1>4, <2>3, FirstAnnounced DEF Placed
  <2>6. Kept(E(u), d, <<>>) /\ Muted(E(u))  BY <1>4, <2>3, <2>4, <2>5, CheckRecord
  <2>7. F(u) = E(u)
    <3>1. ~Loading(u)  BY <2>4 DEF Base, Verifying, Loading
    <3> QED  BY <3>1, Zenon DEF EndOfFile
  <2> HIDE DEF E, F
  <2> QED  BY <1>1, <1>2, <1>3, <1>4, <1>5, <1>7, <2>6, <2>7 DEF Sane
<1> QED  BY <1>6, <1>7

(* VerifiedPage(s) that is no error: what it compared.                     *)
LEMMA PageCompared ==
  ASSUME HasFile(job), NEW s, Session(s), s.error = "none", IsSeq(s.in),
         NEW l, l = LoadPageFromSD(TheFile, s.hex, s.words),
         NEW u, u = VerifiedPage(s), u.error = "none"
  PROVE  /\ l.ok /\ Len(s.in) >= s.words /\ Len(l.data) = s.words
         /\ \A i \in 1 .. s.words : l.data[i] = s.in[i]
         /\ DOMAIN u = SessionField /\ u.stage = s.stage /\ u.words = s.words /\ u.page = s.page
         /\ u.bank = s.bank /\ u.hex = l.hex /\ Waited(u) = Waited(s)
         /\ u.in = SubSeq(s.in, s.words + 1, Len(s.in))
<1> DEFINE W(x) == LET t == [s EXCEPT !.hex = x.hex] IN
                   IF ~x.ok THEN Fail(t, "LoadHexData")
                   ELSE IF Len(t.in) < s.words \/ SubSeq(t.in, 1, s.words) # x.data THEN Fail(t, "Verification")
                   ELSE [t EXCEPT !.in = SubSeq(@, s.words + 1, Len(@))]
           t == [s EXCEPT !.hex = l.hex]
<1>1. u = W(l)
  <2>1. With(l, W) = W(l)
    <3> HIDE DEF W
    <3> QED  BY Zenon DEF With
  <2>2. VerifiedPage(s) = With(l, W)  BY Zenon DEF VerifiedPage
  <2> QED  BY <2>1, <2>2
<1>2. /\ DOMAIN t = SessionField /\ t.in = s.in /\ t.stage = s.stage /\ t.words = s.words
      /\ t.page = s.page /\ t.bank = s.bank /\ t.hex = l.hex /\ t.handler = s.handler
      /\ t.onSync = s.onSync
  BY DEF Session, SessionField
<1>3. u = IF ~l.ok THEN Fail(t, "LoadHexData")
          ELSE IF Len(t.in) < s.words \/ SubSeq(t.in, 1, s.words) # l.data THEN Fail(t, "Verification")
          ELSE [t EXCEPT !.in = SubSeq(@, s.words + 1, Len(@))]
  BY <1>1
<1> HIDE DEF W, t
<1>4. Fail(t, "LoadHexData").error = "LoadHexData" /\ Fail(t, "Verification").error = "Verification"
  BY <1>2 DEF Fail, SessionField
<1>5. l.ok /\ ~(Len(s.in) < s.words) /\ SubSeq(s.in, 1, s.words) = l.data
      /\ u = [t EXCEPT !.in = SubSeq(@, s.words + 1, Len(@))]
  BY <1>2, <1>3, <1>4
<1>6. /\ DOMAIN u = SessionField /\ u.stage = s.stage /\ u.words = s.words /\ u.page = s.page
      /\ u.bank = s.bank /\ u.hex = l.hex /\ u.handler = s.handler /\ u.onSync = s.onSync
      /\ u.in = SubSeq(s.in, s.words + 1, Len(s.in))
  <2> DEFINE x == SubSeq(s.in, s.words + 1, Len(s.in))
  <2>1. u = [t EXCEPT !.in = x]  BY <1>2, <1>5
  <2> HIDE DEF x
  <2>2. /\ DOMAIN u = SessionField /\ u.stage = t.stage /\ u.words = t.words /\ u.page = t.page
        /\ u.bank = t.bank /\ u.hex = t.hex /\ u.handler = t.handler /\ u.onSync = t.onSync
        /\ u.in = x
    BY <1>2, <2>1 DEF SessionField
  <2> QED  BY <1>2, <2>2 DEF x
<1> DEFINE n == s.words
           q == s.in
<1>7. n \in Nat  BY PageAssumption DEF Session, PageSize
<1>8. PICK S : q \in Seq(S)  BY DEF IsSeq
<1>9. Len(q) \in Nat /\ n <= Len(q)
  <2>1. Len(q) \in Nat /\ ~(Len(q) < n)  BY <1>5, <1>8
  <2> HIDE DEF q, n
  <2> QED  BY <1>7, <2>1
<1>10. Len(SubSeq(q, 1, n)) = n /\ \A i \in 1 .. n : SubSeq(q, 1, n)[i] = q[i]
  <2>1. q \in Seq(S)  BY <1>8
  <2> HIDE DEF q, n
  <2> QED  BY <1>7, <1>9, <2>1
<1>11. Waited(u) = Waited(s)  BY <1>6 DEF Waited
<1>12. Len(l.data) = s.words /\ \A i \in 1 .. s.words : l.data[i] = s.in[i]  BY <1>5, <1>10
<1>13. Len(s.in) >= s.words
  <2> HIDE DEF n, q
  <2>1. Len(q) >= n  BY <1>7, <1>9
  <2> QED  BY <2>1 DEF n, q
<1> QED  BY <1>5, <1>6, <1>11, <1>12, <1>13

(* Bytes behind the page are not taken for an answer.                      *)
LEMMA BehindPage ==
  ASSUME NEW q, IsSeq(q), NEW n \in Nat, n <= Len(q)
  PROVE  /\ IsSeq(SubSeq(q, n + 1, Len(q)))
         /\ (\A i \in 1 .. Len(q) : i > n => q[i] \notin SyncByte) => Stray(SubSeq(q, n + 1, Len(q)))
<1> DEFINE m == Len(q)
           v == SubSeq(q, n + 1, m)
<1>1. PICK S : q \in Seq(S)  BY DEF IsSeq
<1>2. m \in Nat /\ n <= m  BY <1>1
<1>3. v \in Seq(S) /\ Len(v) = m - n /\ \A i \in 1 .. m - n : v[i] = q[n + i]
  <2>1. v \in Seq(S)  BY <1>1, <1>2
  <2>2. Len(v) = m - n
    <3> HIDE DEF m
    <3> QED  BY <1>1, <1>2
  <2>3. ASSUME NEW i \in 1 .. m - n PROVE v[i] = q[n + i]
    <3>1. i \in 1 .. m - (n + 1) + 1 /\ n + 1 + i - 1 = n + i  BY <1>2
    <3>2. v[i] = q[n + 1 + i - 1]  BY <1>1, <1>2, <3>1
    <3> QED  BY <3>1, <3>2
  <2> QED  BY <2>1, <2>2, <2>3
<1>4. ASSUME \A i \in 1 .. m : i > n => q[i] \notin SyncByte PROVE Stray(v)
  <2> HIDE DEF m, v
  <2>1. \A i \in 1 .. m - n : n + i \in 1 .. m /\ n + i > n  BY <1>2
  <2> QED  BY <1>3, <1>4, <2>1 DEF Stray
<1> QED  BY <1>3, <1>4 DEF IsSeq

(* A page is verified, and the next one can be looked for.                 *)
LEMMA PageVerified ==
  ASSUME job \in Job, Suited, NEW s, Session(s), s.error = "none", NEW d,
         Base(s, d), AtHand(s), Extended(s, d), IsSeq(s.in),
         \A i \in 1 .. s.words : i <= Len(s.in) => s.in[i] = MemoryOf(d)[s.page + i - 1],
         job.serial => \A i \in 1 .. Len(s.in) : i > s.words => s.in[i] \notin SyncByte,
         NEW u, u = VerifiedPage(s), u.error = "none"
  PROVE  /\ DOMAIN u = SessionField /\ Waited(u) = Waited(s)
         /\ Base(u, d) /\ Going(u, d) /\ Muted(u)
<1> DEFINE f == TheFile
           h == s.hex
           n == VerifiedWords
           p == s.page
           l == LoadPageFromSD(f, h, n)
           g == l.hex
<1>1. HasFile(job) /\ f \in Seq(Record) /\ GapFree(f, n) /\ Orderly(f) /\ Suits(f)  BY SuitedFile
<1>2. s.words = n /\ Placed(h) /\ Standing(f, h) /\ InPlace(d, f, h)  BY DEF Base, Session
<1>3. InHand(h) /\ s.bank = Bank(h) /\ p = PageOf(WordAddress(h), n)  BY <1>2 DEF AtHand, PageIn
<1>4. n \in Nat \ {0}  BY VerifiedPages
<1>5. p \in Nat /\ PageOf(p, n) = p /\ InBank(p, Bank(h))  BY <1>1, <1>2, <1>3, PagePlace DEF Placed
<1>6. /\ l.ok /\ Len(s.in) >= n /\ Len(l.data) = n
      /\ \A i \in 1 .. n : l.data[i] = s.in[i]
      /\ DOMAIN u = SessionField /\ u.stage = s.stage /\ u.words = n /\ u.page = p
      /\ u.bank = s.bank /\ u.hex = g /\ Waited(u) = Waited(s)
      /\ u.in = SubSeq(s.in, n + 1, Len(s.in))
  <2>1. l = LoadPageFromSD(TheFile, s.hex, s.words)  BY <1>2
  <2> HIDE DEF l
  <2>2. /\ l.ok /\ Len(s.in) >= s.words /\ Len(l.data) = s.words
        /\ \A i \in 1 .. s.words : l.data[i] = s.in[i]
        /\ DOMAIN u = SessionField /\ u.stage = s.stage /\ u.words = s.words /\ u.page = s.page
        /\ u.bank = s.bank /\ u.hex = l.hex /\ Waited(u) = Waited(s)
        /\ u.in = SubSeq(s.in, s.words + 1, Len(s.in))
    BY <1>1, <2>1, PageCompared
  <2> HIDE DEF n
  <2> QED  BY <1>2, <2>2
<1>7. l \in Page(n) /\ Filling(f, h, n, l)  BY <1>1, <1>2, <1>3, <1>4, <1>6, Loaded
<1> HIDE DEF l, f, h, n
<1>8. /\ Standing(f, g) /\ g.type \in {"data", "eof"}
      /\ \A i \in DataRecords(f) : \A k \in WordOf(f, i) :
           Passed(g, i, k) => Passed(h, i, k) \/ Holds(f, p, l.data, i, k)
      /\ \/ g.type = "eof"
         \/ g.type = "data" /\ WordAddress(g) = p + n
         \/ InHand(g) /\ (PageOf(WordAddress(g), n) # p \/ Bank(g) # Bank(h))
  <2>1. PageOf(WordAddress(h), n) = p  BY <1>3 DEF h, n
  <2> HIDE DEF p, g
  <2> QED  BY <1>6, <1>7, <2>1, Zenon DEF Filling, g
<1>9. Placed(g)  BY <1>7 DEF Page
<1> HIDE DEF g
<1>10. InPlace(d, f, g)
  <2> SUFFICES ASSUME NEW i \in DataRecords(f), NEW k \in WordOf(f, i), Holds(f, p, l.data, i, k)
               PROVE  MemoryOf(d)[FirstWord(f, i) + k - 1] = f[i].words[k]
    BY <1>2, <1>8 DEF InPlace
  <2> DEFINE x == FirstWord(f, i)
             a == x + k - p
  <2>1. a \in 1 .. n /\ l.data[a] = f[i].words[k]  BY <1>6 DEF Holds
  <2>2. x \in Nat /\ k \in Nat  BY <1>1, RecordWords DEF WordOf
  <2>3. p \in Nat  BY <1>5
  <2>4. p + a - 1 = x + k - 1
    <3> HIDE DEF x, p
    <3> QED  BY <2>2, <2>3
  <2>5. a <= Len(s.in)
    <3>1. Len(s.in) \in Nat  BY JoinedSeqs
    <3> DEFINE y == Len(s.in)
    <3>2. y \in Nat /\ y >= n  BY <1>6, <3>1
    <3> HIDE DEF y, a
    <3>3. a <= y  BY <1>4, <2>1, <3>2
    <3> QED  BY <3>3 DEF y
  <2> HIDE DEF a, x
  <2>6. s.in[a] = f[i].words[k]  BY <1>6, <2>1
  <2>7. s.in[a] = MemoryOf(d)[p + a - 1]  BY <1>2, <2>1, <2>5
  <2> QED  BY <2>4, <2>6, <2>7 DEF x
<1>11. Base(u, d)  BY <1>2, <1>6, <1>8, <1>10 DEF Base, Verifying, f
<1>12. Extended(u, d)  BY <1>6 DEF Extended
<1>13. ASSUME InHand(g), PageOf(WordAddress(g), n) # p PROVE Announced(u, d)
  BY <1>6, <1>12, <1>13 DEF Announced, PageIn
<1>14. Going(u, d)
  <2>1. CASE g.type = "eof"  BY <1>6, <2>1 DEF Going
  <2>2. CASE g.type = "data" /\ WordAddress(g) = p + n /\ g.index = Len(g.words)
    BY <1>3, <1>5, <1>6, <1>12, <2>2 DEF Going, h
  <2>3. CASE g.type = "data" /\ WordAddress(g) = p + n /\ g.index # Len(g.words)
    <3> DEFINE y == g.index
               z == Len(g.words)
    <3>1. y \in Nat /\ z \in Nat /\ y <= z /\ y # z  BY <1>9, <2>3 DEF Placed, Reader
    <3>2. y < z
      <4> HIDE DEF y, z
      <4> QED  BY <3>1
    <3>3. InHand(g)  BY <2>3, <3>2 DEF InHand
    <3>4. PageOf(WordAddress(g), n) # p
      <4> SUFFICES ASSUME PageOf(p + n, n) = p PROVE FALSE  BY <2>3
      <4> DEFINE x == p + n
      <4>1. x \in Nat /\ PageOf(x, n) = p  BY <1>4, <1>5
      <4>2. p \in Nat /\ x = p + n  BY <1>5
      <4> HIDE DEF x, p
      <4>3. x < PageOf(x, n) + n  BY <1>4, <4>1, PageBounds
      <4> QED  BY <1>4, <4>1, <4>2, <4>3
    <3> QED  BY <1>6, <1>13, <3>3, <3>4 DEF Going
  <2>4. CASE InHand(g) /\ PageOf(WordAddress(g), n) # p  BY <1>6, <1>13, <2>4 DEF Going
  <2>5. CASE InHand(g) /\ PageOf(WordAddress(g), n) = p /\ Bank(g) # Bank(h)
    <3>1. InBank(p, Bank(g))  BY <1>1, <1>8, <1>9, <2>5, PagePlace DEF Placed, n
    <3> QED  BY <1>5, <2>5, <3>1, OneBank
  <2> QED  BY <1>8, <2>1, <2>2, <2>3, <2>4, <2>5
<1>15. Muted(u)
  <2>1. n \in Nat /\ n <= Len(s.in)
    <3>1. Len(s.in) \in Nat  BY JoinedSeqs
    <3> DEFINE y == Len(s.in)
    <3>2. y \in Nat /\ y >= n  BY <1>6, <3>1
    <3> HIDE DEF y
    <3>3. n <= y  BY <1>4, <3>2
    <3> QED  BY <1>4, <3>3 DEF y
  <2>2. IsSeq(u.in)  BY <1>6, <2>1, BehindPage
  <2>3. job.serial => Stray(u.in)  BY <1>2, <1>6, <2>1, BehindPage
  <2> QED  BY <2>2, <2>3 DEF Muted
<1> QED  BY <1>6, <1>11, <1>14, <1>15

(* As far as the place in the file is concerned.                           *)
Alike(s, t) ==
  /\ t.stage = s.stage /\ t.hex = s.hex /\ t.page = s.page /\ t.words = s.words /\ t.bank = s.bank

LEMMA AlikeKeeps ==
  ASSUME NEW s, NEW t, Alike(s, t), NEW d
  PROVE  /\ Base(s, d) => Base(t, d)
         /\ Going(s, d) => Going(t, d)
         /\ AtHand(s) => AtHand(t)
         /\ Extended(s, d) => Extended(t, d)
         /\ ToExtend(s) => ToExtend(t)
         /\ Ready(s, d) => Ready(t, d)
<1>1. Base(s, d) => Base(t, d)  BY DEF Alike, Base, Verifying
<1>2. /\ Going(s, d) => Going(t, d)
      /\ AtHand(s) => AtHand(t)
      /\ Extended(s, d) => Extended(t, d)
      /\ ToExtend(s) => ToExtend(t)
      /\ Ready(s, d) => Ready(t, d)
  BY DEF Alike, Going, Announced, AtHand, Extended, ToExtend, Ready, PageIn
<1> QED  BY <1>1, <1>2

LEMMA ReadAlike ==
  ASSUME NEW s, DOMAIN s = SessionField
  PROVE  /\ Alike(s, Read(s)) /\ DOMAIN Read(s) = SessionField /\ Waited(Read(s)) = Waited(s)
         /\ Read(s).handler = s.handler /\ Read(s).out = s.out /\ Read(s).error = s.error
BY DEF SessionField, Read, Alike, Waited

(* Nothing is on its way that would be taken for an answer.                *)
LEMMA CheckStray ==
  ASSUME NEW s, NEW d, Base(s, d), Waited(s) \in FileStep, NEW q, IsSeq(q), Stray(q),
         s.out = <<>>, Waits(s, d) \/ s.handler = "ProcessPage"
  PROVE  Check(s, d, q)
<1>1. Refused(q)  BY StrayOnce
<1>2. CASE s.handler = "ProcessPage"
  BY <1>2 DEF Check, Base
<1>3. CASE s.handler # "ProcessPage" /\ Waits(s, d)
  <2>1. Waited(s) = "ProcessPage" => s.handler = "GetSync"  BY <1>3 DEF Waited
  <2> QED  BY <1>1, <1>3, <2>1 DEF Check, Base, Waits
<1> QED  BY <1>2, <1>3

LEMMA CheckAnnounce ==
  ASSUME NEW s, DOMAIN s = SessionField, NEW d, Base(s, d), Muted(s)
  PROVE  /\ ToExtend(s) => Check(SendLoadExtAddress(s), d, <<>>) /\ Muted(SendLoadExtAddress(s))
         /\ AtHand(s) /\ Extended(s, d) => Check(SendLoadAddress(s), d, <<>>) /\ Muted(SendLoadAddress(s))
<1>1. ASSUME ToExtend(s) PROVE Check(SendLoadExtAddress(s), d, <<>>) /\ Muted(SendLoadExtAddress(s))
  <2> DEFINE c == UniversalCmd([op |-> "loadExt", bank |-> s.bank])
             t == Send(s, "LoadExtAddress", c)
  <2>1. SendLoadExtAddress(s) = t  BY DEF SendLoadExtAddress
  <2>2. Same(s, t) /\ t.out = <<c>> /\ t.handler = "LoadExtAddress"  BY SendFields
  <2> HIDE DEF t
  <2>3. Base(t, d) /\ Muted(t)  BY <2>2, SameBase, SameMuted DEF Same
  <2>4. t.out = <<Request(t)>> /\ ~Sent(t) /\ Waited(t) = "LoadExtAddress"
    BY <2>2 DEF Request, Sent, Waited, Same
  <2>5. ToExtend(t)  BY <1>1, <2>2, SameGoing
  <2>6. Check(t, d, <<>>)  BY <2>3, <2>4, <2>5 DEF Check, Base, FileStep
  <2> QED  BY <2>1, <2>3, <2>6
<1>2. ASSUME AtHand(s), Extended(s, d)
      PROVE  Check(SendLoadAddress(s), d, <<>>) /\ Muted(SendLoadAddress(s))
  <2> DEFINE c == LoadAddressCmd(s.page % BankWords)
             t == Send(s, "LoadAddress", c)
  <2>1. SendLoadAddress(s) = t  BY DEF SendLoadAddress
  <2>2. Same(s, t) /\ t.out = <<c>> /\ t.handler = "LoadAddress"  BY SendFields
  <2> HIDE DEF t
  <2>3. Base(t, d) /\ Muted(t)  BY <2>2, SameBase, SameMuted DEF Same
  <2>4. t.out = <<Request(t)>> /\ ~Sent(t) /\ Waited(t) = "LoadAddress"
    BY <2>2 DEF Request, Sent, Waited, Same
  <2>5. AtHand(t) /\ Extended(t, d)  BY <1>2, <2>2, SameGoing
  <2>6. Check(t, d, <<>>)  BY <2>3, <2>4, <2>5 DEF Check, Base, FileStep
  <2> QED  BY <2>1, <2>3, <2>6
<1> QED  BY <1>1, <1>2

(* Verifying, behind the STK_INSYNC of an answer.                          *)
Heeded(s, d) ==
  /\ Base(s, d) /\ Waited(s) \in FileStep /\ s.out = <<>> /\ IsSeq(s.in)
  /\ s.handler # "ProcessPage" => Waits(s, d) /\ Muted(s)
  /\ s.handler = "LoadExtAddress" => Extended(s, d)
  /\ s.handler = "LoadAddress" => Ready(s, d)
  /\ s.handler = "ProcessPage" =>
       /\ AtHand(s) /\ Extended(s, d)
       /\ \A i \in 1 .. s.words : i <= Len(s.in) => s.in[i] = MemoryOf(d)[s.page + i - 1]
       /\ job.serial => \A i \in 1 .. Len(s.in) : i > s.words => s.in[i] \notin SyncByte

LEMMA CheckInSync ==
  ASSUME job \in Job, Suited, NEW s, Good(s, job), s.error = "none", s.handler = "GetSync",
         NEW d, Base(s, d), Waits(s, d), Muted(s)
  PROVE  Sane(InSync(s), d)
<1> DEFINE u == [s EXCEPT !.retries = 0, !.handler = s.onSync]
<1>1. Session(s) /\ Waited(s) = s.onSync  BY DEF Good, Waited
<1>2. /\ DOMAIN u = SessionField /\ u.out = s.out /\ u.handler = s.onSync
      /\ u.onSync = s.onSync /\ u.stage = s.stage /\ u.error = "none" /\ u.in = s.in
      /\ u.modifier = s.modifier /\ u.retries = 0 /\ u.hex = s.hex /\ u.words = s.words
      /\ u.page = s.page /\ u.bank = s.bank
  BY <1>1 DEF Session, SessionField
<1>3. InSync(s) = SendAgain(u)  BY DEF InSync
<1> HIDE DEF u
<1>4. Session(u)  BY <1>1, <1>2, BoundAssumption DEF Session
<1>5. Alike(s, u) /\ Base(u, d) /\ Muted(u)
  <2>1. Alike(s, u)  BY <1>2 DEF Alike
  <2> QED  BY <1>2, <2>1, AlikeKeeps, SameMuted
<1>6. CASE u.onSync = "LoadExtAddress"
  <2>1. SendAgain(u) = SendLoadExtAddress(u)  BY <1>6 DEF SendAgain
  <2>2. ToExtend(u)  BY <1>1, <1>2, <1>5, <1>6, AlikeKeeps DEF Waits
  <2> QED  BY <1>2, <1>3, <1>5, <2>1, <2>2, CheckAnnounce DEF Sane, Kept
<1>7. CASE u.onSync = "LoadAddress"
  <2>1. SendAgain(u) = SendLoadAddress(u)  BY <1>7 DEF SendAgain
  <2>2. AtHand(u) /\ Extended(u, d)  BY <1>1, <1>2, <1>5, <1>7, AlikeKeeps DEF Waits
  <2> QED  BY <1>2, <1>3, <1>5, <2>1, <2>2, CheckAnnounce DEF Sane, Kept
<1>8. CASE u.onSync = "ProcessPage"
  <2>1. SendAgain(u) = SendProcessPage(u)  BY <1>8 DEF SendAgain
  <2>2. Going(u, d)  BY <1>1, <1>2, <1>5, <1>8, AlikeKeeps DEF Waits
  <2> QED  BY <1>2, <1>3, <1>4, <1>5, <2>1, <2>2, CheckNext
<1> QED  BY <1>1, <1>2, <1>6, <1>7, <1>8 DEF Waits

LEMMA CheckHandlers ==
  ASSUME job \in Job, Suited, NEW s, Good(s, job), s.error = "none", NEW d, Heeded(s, d)
  PROVE  /\ s.handler = "GetSync" => Sane(OnGetSync(s), d)
         /\ s.handler = "LoadAddress" => Sane(OnLoadAddress(s), d)
         /\ s.handler = "LoadExtAddress" => Sane(OnLoadExtAddress(s), d)
<1> DEFINE r == Read(s)
           q == Read(r)
           g == SendGetSync(r)
           k == SendGetSync(q)
<1>1. DOMAIN s = SessionField /\ Base(s, d) /\ s.out = <<>>  BY DEF Good, Session, Heeded
<1>2. /\ Alike(s, r) /\ DOMAIN r = SessionField /\ Waited(r) = Waited(s)
      /\ r.handler = s.handler /\ r.error = "none" /\ Good(r, job)
  BY <1>1, ReadAlike, ReadGood
<1>3. s.handler # "ProcessPage" => Muted(s) /\ Muted(r) /\ Muted(q)
  <2>1. s.handler # "ProcessPage" => Muted(s)  BY DEF Heeded
  <2>2. s.handler # "ProcessPage" => Muted(r)  BY <1>1, <2>1, MutedRead
  <2> HIDE DEF r
  <2>3. s.handler # "ProcessPage" => Muted(q)  BY <1>2, <2>2, MutedRead
  <2> QED  BY <2>1, <2>2, <2>3
<1> HIDE DEF r
<1>4. /\ Alike(r, q) /\ DOMAIN q = SessionField /\ Waited(q) = Waited(s)
      /\ q.handler = s.handler /\ q.error = "none" /\ Good(q, job)
  BY <1>2, ReadAlike, ReadGood
<1> HIDE DEF q
<1>5. Alike(s, q)  BY <1>2, <1>4 DEF Alike
<1>6. Base(r, d) /\ Base(q, d)  BY <1>1, <1>2, <1>5, AlikeKeeps
<1>7. Waits(s, d) => Waits(r, d) /\ Waits(q, d)
  BY <1>2, <1>4, <1>5, AlikeKeeps DEF Waits
<1>8. s.handler # "ProcessPage" => Waits(s, d)  BY DEF Heeded
<1>9. s.handler # "ProcessPage" => Sane(g, d) /\ Sane(k, d)
  BY <1>2, <1>3, <1>4, <1>6, <1>7, <1>8, CheckSync DEF Sane, Kept
<1> HIDE DEF g, k
<1>10. Session(r) /\ Session(q)  BY <1>2, <1>4 DEF Good
<1>11. s.handler = "GetSync" => Sane(OnGetSync(s), d)
  <2>1. OnGetSync(s) = IF StatusOK(s) THEN InSync(r) ELSE g
    BY Zenon DEF OnGetSync, ResponseStatusOK, With, r, g
  <2>2. s.handler = "GetSync" => Sane(InSync(r), d)
    BY <1>2, <1>3, <1>6, <1>7, <1>8, CheckInSync
  <2> QED  BY <1>9, <2>1, <2>2
<1>12. s.handler = "LoadAddress" => Sane(OnLoadAddress(s), d)
  <2>1. OnLoadAddress(s) = IF StatusOK(s) THEN SendProcessPage(r) ELSE g
    BY Zenon DEF OnLoadAddress, ResponseStatusOK, With, r, g
  <2>2. s.handler = "LoadAddress" => Going(r, d)  BY <1>2, ReadyGoing, AlikeKeeps DEF Heeded
  <2>3. s.handler = "LoadAddress" => Sane(SendProcessPage(r), d)
    BY <1>2, <1>3, <1>6, <1>10, <2>2, CheckNext
  <2> QED  BY <1>9, <2>1, <2>3
<1>13. s.handler = "LoadExtAddress" => Sane(OnLoadExtAddress(s), d)
  <2>1. OnLoadExtAddress(s) = IF s.in = <<>> THEN s ELSE IF StatusOK(r) THEN SendProcessPage(q) ELSE k
    BY Zenon DEF OnLoadExtAddress, OnByte, ResponseStatusOK, With, r, q, k
  <2>2. s.handler = "LoadExtAddress" => Going(s, d)
    <3>1. s.handler = "LoadExtAddress" => ToExtend(s) /\ Extended(s, d)
      BY DEF Heeded, Waits, Waited
    <3> QED  BY <3>1 DEF ToExtend, Going, Announced
  <2>3. s.handler = "LoadExtAddress" => Sane(SendProcessPage(q), d)
    BY <1>3, <1>4, <1>5, <1>6, <1>10, <2>2, AlikeKeeps, CheckNext
  <2>4. s.handler = "LoadExtAddress" => Sane(s, d)
    <3>1. s.handler = "LoadExtAddress" => Check(s, d, <<>>)
      BY <1>1, <1>8, NoBytes, CheckStray DEF Heeded
    <3> QED  BY <1>3, <3>1 DEF Sane, Kept
  <2> QED  BY <1>9, <2>1, <2>3, <2>4
<1> QED  BY <1>11, <1>12, <1>13

LEMMA CheckProcessPage ==
  ASSUME job \in Job, Suited, NEW s, Good(s, job), s.error = "none", NEW d, Heeded(s, d),
         s.handler = "ProcessPage"
  PROVE  Sane(OnProcessPage(s), d)
<1> DEFINE t == WithRecord(s)
           u == VerifiedPage(s)
           X(y) == IF y.error # "none" THEN y ELSE ResponseStatusOK(y, SendProcessPage)
           W(x) == IF x.error # "none" THEN x
                   ELSE IF x.hex.type = "eof" THEN EndOfFile(x)
                   ELSE With(IF Verifying(x) THEN VerifiedPage(x) ELSE x, LAMBDA y :
                          IF y.error # "none" THEN y ELSE ResponseStatusOK(y, SendProcessPage))
<1>1. Session(s) /\ HasFile(job) /\ Verifying(s) /\ InHand(s.hex)
  BY SuitedFile DEF Good, Heeded, Base, AtHand
<1>2. t = s  BY <1>1, RecordTaken DEF Session
<1>3. OnProcessPage(s) = W(t)
  <2>1. With(t, W) = W(t)
    <3> HIDE DEF W
    <3> QED  BY Zenon DEF With
  <2>2. OnProcessPage(s) = With(t, W)  BY Zenon DEF OnProcessPage
  <2> QED  BY <2>1, <2>2
<1>4. W(s) = With(u, X)
  <2>1. s.hex.type # "eof"  BY <1>1 DEF InHand
  <2> QED  BY <1>1, <2>1, Zenon
<1>5. With(u, X) = X(u)
  <2> HIDE DEF X, u
  <2> QED  BY Zenon DEF With
<1>6. OnProcessPage(s) = X(u)
  <2> HIDE DEF W, X, t, u
  <2> QED  BY <1>2, <1>3, <1>4, <1>5
<1>7. Good(u, job)  BY <1>1, VerifiedPageGood
<1> HIDE DEF W, t
<1>8. CASE u.error # "none"
  <2> HIDE DEF u
  <2> QED  BY <1>6, <1>8 DEF Sane
<1>9. CASE u.error = "none"
  <2> DEFINE r == Read(u)
             n == s.words
  <2>1. /\ DOMAIN u = SessionField /\ Waited(u) = Waited(s)
        /\ Base(u, d) /\ Going(u, d) /\ Muted(u)
    <3>1. /\ Base(s, d) /\ AtHand(s) /\ Extended(s, d) /\ IsSeq(s.in)
          /\ \A i \in 1 .. s.words : i <= Len(s.in) => s.in[i] = MemoryOf(d)[s.page + i - 1]
          /\ job.serial => \A i \in 1 .. Len(s.in) : i > s.words => s.in[i] \notin SyncByte
      BY DEF Heeded
    <3> QED  BY <1>1, <1>9, <3>1, PageVerified
  <2> HIDE DEF u
  <2>2. With(r, SendProcessPage) = SendProcessPage(r)  BY Zenon DEF With
  <2>3. X(u) = IF StatusOK(u) THEN SendProcessPage(r) ELSE SendGetSync(r)
    BY <1>9, <2>2, Zenon DEF ResponseStatusOK
  <2>4. Alike(u, r) /\ DOMAIN r = SessionField /\ Waited(r) = Waited(s) /\ r.error = "none" /\ Muted(r)
    BY <1>9, <2>1, ReadAlike, MutedRead
  <2>5. Good(r, job)  BY <1>7, ReadGood
  <2> HIDE DEF r, X
  <2>6. Base(r, d) /\ Going(r, d)  BY <2>1, <2>4, AlikeKeeps
  <2>7. Waits(r, d)
    <3>1. Waited(s) = "ProcessPage"  BY DEF Waited
    <3> QED  BY <2>4, <2>6, <3>1 DEF Waits
  <2>8. Sane(SendProcessPage(r), d)  BY <2>4, <2>5, <2>6, CheckNext DEF Good
  <2>9. Sane(SendGetSync(r), d)  BY <2>4, <2>6, <2>7, CheckSync DEF Sane, Kept
  <2> QED  BY <1>6, <2>3, <2>8, <2>9
<1> QED  BY <1>8, <1>9

-----------------------------------------------------------------------------
(* Before verification: the reader is rewound when it begins.              *)

(* A reader stays a reader of the file while a page is loaded, gaps or not. *)
Lies(f, h) == Standing(f, h) /\ h.type \in {"data", "eof"}

LEMMA TakeLies ==
  ASSUME NEW f, NEW n \in Nat, NEW s \in Page(n), Lies(f, s.hex)
  PROVE  Lies(f, Take(s, n).hex) /\ Take(s, n).ok = s.ok
<1> DEFINE t == Take(s, n)
<1>1. PICK m \in Nat : Took(s, t, n, m)  BY TakeParts
<1> HIDE DEF t
<1>2. /\ t.ok = s.ok /\ t.hex.pos = s.hex.pos /\ t.hex.type = s.hex.type /\ t.hex.high = s.hex.high
      /\ t.hex.address = s.hex.address /\ t.hex.words = s.hex.words
  BY <1>1 DEF Took
<1>3. s.hex # Rewind  BY DEF Lies, Rewind
<1> QED  BY <1>2, <1>3 DEF Lies, Standing, t

LEMMA FilledLies ==
  ASSUME NEW f \in Seq(Record), NEW n \in Nat \ {0}, NEW s \in Page(n), s.ok => Lies(f, s.hex),
         NEW h, NEW t, t = Filled(f, s, h, n), t.ok
  PROVE  Lies(f, t.hex)
<1> DEFINE g == s.hex
           x == LoadNextDataRecord(f, g)
           e == Len(s.data)
           y == s.data \o Padding(n - e)
           u == [s EXCEPT !.hex = x]
           Beyond == PageOf(WordAddress(x), n) # PageOf(WordAddress(h), n) \/ Bank(x) # Bank(h)
<1>1. t = IF ~s.ok \/ e = n THEN s ELSE Continued(s, x, h, n)
  <2>1. With(x, LAMBDA next : Continued(s, next, h, n)) = Continued(s, x, h, n)  BY Zenon DEF With
  <2> QED  BY <2>1, Zenon DEF Filled
<1>2. CASE ~s.ok \/ e = n  BY <1>1, <1>2
<1>3. CASE s.ok /\ e # n
  <2>1. t = Continued(s, x, h, n)  BY <1>1, <1>3
  <2>2. Continued(s, x, h, n) = IF x.type = "invalid" THEN [s EXCEPT !.hex = x, !.ok = FALSE]
                                ELSE IF Beyond THEN [s EXCEPT !.hex = x, !.data = y] ELSE Take(u, n)
    BY Zenon DEF Continued
  <2>3. g \in Reader /\ Placed(g) /\ Lies(f, g)  BY <1>3 DEF Page, Placed
  <2>4. g.high = HighAt(f, g.pos)  BY <2>3 DEF Lies, Standing, Rewind
  <2>5. x.type # "invalid" => Lies(f, x)  BY <2>3, <2>4, NextDataStands DEF Onward, Lies
  <2>6. Placed(x)  BY <2>3, NextDataType
  <2>7. u = [hex |-> x, data |-> s.data, ok |-> s.ok]
        /\ [s EXCEPT !.hex = x, !.data = y] = [hex |-> x, data |-> y, ok |-> s.ok]
    BY PageFields
  <2>11. s \in [hex : Reader, data : Seq(Nat), ok : BOOLEAN] /\ Len(s.data) <= n  BY DEF Page
  <2>12. [hex |-> x, data |-> s.data, ok |-> s.ok] \in Page(n)  BY <2>6, <2>11 DEF Page, Placed
  <2>13. DOMAIN s = {"hex", "data", "ok"}  BY <2>11
  <2> HIDE DEF x, y, u, Beyond
  <2>8. CASE x.type = "invalid"
    <3>1. t = [s EXCEPT !.hex = x, !.ok = FALSE]  BY <2>1, <2>2, <2>8
    <3>2. ~t.ok  BY <2>13, <3>1
    <3> QED  BY <3>2
  <2>9. CASE x.type # "invalid" /\ Beyond
    <3>1. t = [hex |-> x, data |-> y, ok |-> s.ok]  BY <2>1, <2>2, <2>7, <2>9
    <3> QED  BY <2>5, <2>9, <3>1
  <2>10. CASE x.type # "invalid" /\ ~Beyond
    <3>1. t = Take(u, n) /\ u.hex = x  BY <2>1, <2>2, <2>7, <2>10
    <3>2. u \in Page(n)  BY <2>7, <2>12
    <3> QED  BY <2>5, <2>10, <3>1, <3>2, TakeLies
  <2> QED  BY <2>8, <2>9, <2>10
<1> QED  BY <1>2, <1>3

LEMMA LoadedLies ==
  ASSUME NEW f \in Seq(Record), NEW h, Placed(h), Lies(f, h), NEW n \in Nat \ {0},
         NEW l, l = LoadPageFromSD(f, h, n), l.ok
  PROVE  Lies(f, l.hex)
<1> DEFINE begun == [hex |-> h, data |-> Padding(WordAddress(h) % n), ok |-> TRUE]
           m == Len(f) + 1
<1>0. PICK r : Paged(f, h, n, r)  BY PageSteps
<1>1. /\ r \in [0 .. m -> Page(n)]
      /\ begun \in Page(n) /\ r[0] = Take(begun, n)
      /\ \A k \in 1 .. m : r[k] = Filled(f, r[k - 1], h, n)
      /\ l = r[m]
  BY <1>0 DEF Paged
<1>2. m \in Nat /\ r \in [0 .. m -> Page(n)]  BY <1>1
<1> HIDE DEF m
<1> DEFINE T == {k \in 0 .. m : r[k].ok => Lies(f, r[k].hex)}
<1>3. 0 \in T
  <2>1. begun.hex = h  OBVIOUS
  <2> HIDE DEF begun
  <2>2. Lies(f, Take(begun, n).hex)  BY <1>1, <2>1, TakeLies
  <2> QED  BY <1>1, <1>2, <2>2
<1>4. ASSUME NEW k \in 1 .. m, k - 1 \in T PROVE k \in T
  <2> DEFINE s == r[k - 1]
             t == r[k]
  <2>1. s \in Page(n) /\ t = Filled(f, s, h, n) /\ (s.ok => Lies(f, s.hex))
    BY <1>1, <1>2, <1>4
  <2> HIDE DEF s, t, T
  <2>2. t.ok => Lies(f, t.hex)  BY <2>1, FilledLies
  <2> QED  BY <1>2, <2>2 DEF T, t
<1>5. \A k \in 0 .. m : k \in T
  <2> HIDE DEF T
  <2> QED  BY <1>2, <1>3, <1>4, Carried
<1>6. m \in T  BY <1>2, <1>5
<1> QED  BY <1>1, <1>2, <1>6

-----------------------------------------------------------------------------
(* Before verification.                                                    *)

Readies(s, d) ==
  s.words = PageWords /\ Standing(TheFile, s.hex) /\ (Small => s.bank = 0 /\ d.ext = 0)

LEMMA BeforeSend ==
  ASSUME NEW s, DOMAIN s = SessionField, NEW d, Readies(s, d), Muted(s),
         NEW h, h # "GetSync", Due(h, s.stage), NEW c, Plain(c)
  PROVE  Before(Send(s, h, c), d) /\ Muted(Send(s, h, c))
<1> DEFINE t == Send(s, h, c)
<1>1. Same(s, t) /\ t.out = <<c>> /\ t.handler = h  BY SendFields
<1> HIDE DEF t
<1>2. Waited(t) = h  BY <1>1 DEF Waited
<1>3. Muted(t)  BY <1>1, SameMuted DEF Same
<1>4. t.out[1] = c  BY <1>1
<1> QED  BY <1>1, <1>2, <1>3, <1>4 DEF Before, Readies, Same, t

LEMMA BeforeSync ==
  ASSUME NEW s, DOMAIN s = SessionField, NEW d, Readies(s, d), Muted(s), Due(Waited(s), s.stage)
  PROVE  Before(SendGetSync(s), d) /\ Muted(SendGetSync(s))
<1> DEFINE t == SendGetSync(s)
<1>1. /\ Same(s, t) /\ t.out = <<GetSyncCmd>> /\ t.handler = "GetSync" /\ Waited(t) = Waited(s)
  BY SyncFields DEF Waited
<1> HIDE DEF t
<1>2. Muted(t)  BY <1>1, SameMuted DEF Same
<1>3. Plain(t.out[1])
  <2>1. t.out[1] = GetSyncCmd  BY <1>1
  <2> QED  BY <2>1 DEF Plain, GetSyncCmd
<1> QED  BY <1>1, <1>2, <1>3 DEF Before, Readies, Same, t

LEMMA PlainCommands ==
  /\ Plain(GetSyncCmd) /\ Plain(EnterProgModeCmd) /\ Plain(ReadSignCmd)
  /\ \A n : Plain(SetDeviceCmd(n)) /\ Plain(SetDeviceExtCmd(n)) /\ Plain(LoadAddressCmd(n))
  /\ Plain(UniversalCmd([op |-> "chipErase"])) /\ Plain(UniversalCmd([op |-> "readLock"]))
  /\ \A x : Plain(UniversalCmd([op |-> "readFuse", fuse |-> x]))
            /\ Plain(UniversalCmd([op |-> "writeFuse", fuse |-> x]))
  /\ \A b : (Small => b = 0) => Plain(UniversalCmd([op |-> "loadExt", bank |-> b]))
  /\ \A m, w : Plain(ProgPageCmd(m, w))
BY DEF Plain, GetSyncCmd, EnterProgModeCmd, ReadSignCmd, SetDeviceCmd, SetDeviceExtCmd, LoadAddressCmd,
       UniversalCmd, ProgPageCmd

LEMMA FirstBank ==
  ASSUME job \in Job, Suited, NEW h, Placed(h), Standing(TheFile, h), h.type = "data", Small
  PROVE  Bank(h) = 0
<1> DEFINE i == h.pos - 1
           y == h.high
<1>1. TheFile \in Seq(Record) /\ InFirstBank(TheFile)
  BY SuitedFile DEF Suits, Small
<1>2. i \in DataRecords(TheFile) /\ y = HighAt(TheFile, i)  BY <1>1, StandingData DEF Placed
<1>3. y \in Nat /\ y < 2
  <2>1. HighAt(TheFile, i) \in 0 .. 15  BY <1>1, <1>2, RecordWords
  <2>2. HighAt(TheFile, i) < 2  BY <1>1, <1>2 DEF InFirstBank
  <2> HIDE DEF y, i
  <2> QED  BY <1>2, <2>1, <2>2
<1>4. y \div 2 = 0
  <2> HIDE DEF y
  <2> QED  BY <1>3
<1> QED  BY <1>4 DEF Bank

LEMMA LoadPage ==
  ASSUME job \in Job, Suited, NEW s, Session(s), Loading(s), NEW d, Readies(s, d), Muted(s),
         s.hex.type = "data"
  PROVE  Sane(SendPage(s), d)
<1> DEFINE l == LoadPageFromSD(TheFile, s.hex, s.words)
           t == [s EXCEPT !.hex = l.hex]
           c == ProgPageCmd(Memory, l.data)
           W(x) == LET u == [s EXCEPT !.hex = x.hex] IN
                   IF x.ok THEN Send(u, "ProcessPage", ProgPageCmd(Memory, x.data))
                   ELSE Fail(Send(u, "ProcessPage", TruncatedCmd), "LoadHexData")
<1>1. SendPage(s) = W(l)
  <2>1. With(l, W) = W(l)
    <3> HIDE DEF W
    <3> QED  BY Zenon DEF With
  <2>2. SendPage(s) = With(l, W)  BY Zenon DEF SendPage
  <2> QED  BY <2>1, <2>2
<1>2. W(l) = IF l.ok THEN Send(t, "ProcessPage", c)
             ELSE Fail(Send(t, "ProcessPage", TruncatedCmd), "LoadHexData")
  OBVIOUS
<1>3. /\ DOMAIN t = SessionField /\ t.in = s.in /\ t.stage = s.stage /\ t.words = s.words
      /\ t.bank = s.bank /\ t.hex = l.hex
  BY DEF Session, SessionField
<1> HIDE DEF W, t
<1>4. CASE l.ok
  <2>1. s.words \in Nat \ {0}  BY PageAssumption DEF Session, PageSize
  <2>2. TheFile \in Seq(Record) /\ Lies(TheFile, s.hex) /\ Placed(s.hex)
    BY SuitedFile DEF Lies, Readies, Session
  <2>3. Lies(TheFile, l.hex)  BY <1>4, <2>1, <2>2, LoadedLies
  <2> HIDE DEF l, c
  <2>4. Readies(t, d) /\ Muted(t)  BY <1>3, <2>3, SameMuted DEF Readies, Lies
  <2>5. Due("ProcessPage", t.stage)  BY <1>3 DEF Due, Loading, FileStep, Last
  <2>6. Plain(c)  BY PlainCommands DEF c
  <2> QED  BY <1>1, <1>2, <1>3, <1>4, <2>4, <2>5, <2>6, BeforeSend DEF Sane, Kept
<1>5. CASE ~l.ok
  <2> DEFINE v == Send(t, "ProcessPage", TruncatedCmd)
  <2>1. DOMAIN v = SessionField  BY <1>3 DEF Send
  <2> HIDE DEF v, l
  <2> QED  BY <1>1, <1>2, <1>5, <2>1, FailSane DEF v
<1> QED  BY <1>4, <1>5

LEMMA LoadPageOrAddress ==
  ASSUME job \in Job, Suited, NEW s, Session(s), Loading(s), NEW d, Readies(s, d), Muted(s),
         s.hex.type = "data"
  PROVE  Sane(SendPageOrAddress(s), d)
<1> DEFINE p == PageOf(WordAddress(s.hex), s.words)
           b == Bank(s.hex)
           u == [s EXCEPT !.bank = b]
           v == [s EXCEPT !.page = p]
<1>1. SendPageOrAddress(s) = IF b # s.bank THEN SendLoadExtAddress(u)
                             ELSE IF p # s.page THEN SendLoadAddress(v) ELSE SendPage(s)
  BY DEF SendPageOrAddress
<1>2. /\ DOMAIN u = SessionField /\ u.stage = s.stage /\ u.hex = s.hex
      /\ u.words = s.words /\ u.bank = b /\ u.in = s.in
  BY DEF Session, SessionField
<1>3. /\ DOMAIN v = SessionField /\ v.stage = s.stage /\ v.hex = s.hex
      /\ v.words = s.words /\ v.bank = s.bank /\ v.in = s.in
  BY DEF Session, SessionField
<1>4. Small => b = 0  BY FirstBank DEF Session, Readies
<1> HIDE DEF u, v, b
<1>5. Due("LoadExtAddress", s.stage) /\ Due("LoadAddress", s.stage)
  BY DEF Due, Loading, FileStep, Last
<1>6. Before(SendLoadExtAddress(u), d) /\ Muted(SendLoadExtAddress(u))
  <2>1. Readies(u, d) /\ Muted(u)  BY <1>2, <1>4, SameMuted DEF Readies
  <2>2. Plain(UniversalCmd([op |-> "loadExt", bank |-> u.bank]))  BY <1>2, <1>4, PlainCommands
  <2> QED  BY <1>2, <1>5, <2>1, <2>2, BeforeSend DEF SendLoadExtAddress
<1>7. Before(SendLoadAddress(v), d) /\ Muted(SendLoadAddress(v))
  <2>1. Readies(v, d) /\ Muted(v)  BY <1>3, SameMuted DEF Readies
  <2>2. Plain(LoadAddressCmd(v.page % BankWords))  BY PlainCommands
  <2> QED  BY <1>3, <1>5, <2>1, <2>2, BeforeSend DEF SendLoadAddress
<1> QED  BY <1>1, <1>6, <1>7, LoadPage DEF Sane, Kept

(* Before verification, behind the STK_INSYNC of an answer.                *)
Preparing(s, d) ==
  Session(s) /\ s.error = "none" /\ Readies(s, d) /\ Muted(s) /\ Due(Waited(s), s.stage)

LEMMA ReadPreparing ==
  ASSUME NEW s, NEW d, Preparing(s, d)
  PROVE  /\ Preparing(Read(s), d) /\ Sane(SendGetSync(s), d)
         /\ Read(s).stage = s.stage /\ Read(s).handler = s.handler /\ Read(s).onSync = s.onSync
         /\ Read(s).hex = s.hex /\ Waited(Read(s)) = Waited(s)
<1> DEFINE t == Read(s)
<1>1. /\ DOMAIN t = SessionField /\ t.out = s.out /\ t.handler = s.handler
      /\ t.onSync = s.onSync /\ t.stage = s.stage /\ t.error = s.error /\ t.modifier = s.modifier
      /\ t.retries = s.retries /\ t.hex = s.hex /\ t.words = s.words /\ t.bank = s.bank
  BY DEF Preparing, Session, SessionField, Read
<1>2. Muted(t)  BY MutedRead DEF Preparing, Session
<1> HIDE DEF t
<1>3. Waited(t) = Waited(s)  BY <1>1 DEF Waited
<1>4. Preparing(t, d)  BY <1>1, <1>2, <1>3 DEF Preparing, Session, Readies
<1>5. Sane(SendGetSync(s), d)  BY BeforeSync DEF Preparing, Session, Sane, Kept
<1> QED  BY <1>1, <1>3, <1>4, <1>5 DEF t

LEMMA PreparingRecord ==
  ASSUME job \in Job, Suited, NEW s, NEW d, Preparing(s, d), NEW t, t = WithRecord(s), t.error = "none"
  PROVE  /\ Preparing(t, d) /\ t.hex.type \in {"data", "eof"} /\ t.stage = s.stage
         /\ t.handler = s.handler
<1> DEFINE h == LoadNextDataRecord(TheFile, s.hex)
           u == [s EXCEPT !.hex = h]
           i == s.hex.index
           n == Len(s.hex.words)
<1>1. TheFile \in Seq(Record)  BY SuitedFile
<1>2. Session(s) /\ s.error = "none" /\ Placed(s.hex) /\ Standing(TheFile, s.hex)
  BY DEF Preparing, Session, Readies
<1>3. i \in Nat /\ n \in Nat /\ i <= n  BY <1>2 DEF Placed, Reader
<1>4. i # n => i < n
  <2> HIDE DEF i, n
  <2> QED  BY <1>3
<1>5. /\ InHand(s.hex) \/ s.hex.type = "eof" => t = s
      /\ i = n /\ s.hex.type # "eof" => t = IF h.type = "invalid" THEN Fail(u, "LoadHexData") ELSE u
  BY <1>2, RecordTaken
<1>6. Placed(h)  BY <1>1, <1>2, NextDataType DEF Placed
<1>7. i = n /\ h.type # "invalid" => Standing(TheFile, h) /\ h.type \in {"data", "eof"}
  <2>1. i = n /\ h.type # "invalid" => Onward(TheFile, s.hex, h)
    <3> HIDE DEF h
    <3> QED  BY <1>1, <1>2, Neighbour DEF Placed, h
  <2> HIDE DEF h
  <2> QED  BY <2>1 DEF Onward
<1>8. s.hex = Rewind => i = n /\ s.hex.type # "eof"  BY DEF Rewind
<1>9. s.hex # Rewind => s.hex.type \in {"data", "eof"}  BY <1>2 DEF Standing
<1>10. /\ Session(u) /\ u.hex = h /\ u.error = s.error /\ u.stage = s.stage
       /\ u.handler = s.handler /\ u.onSync = s.onSync /\ u.words = s.words /\ u.bank = s.bank
       /\ u.in = s.in
  <2> HIDE DEF h
  <2>1. Session(u) /\ u.error = s.error /\ u.stage = s.stage
       /\ u.handler = s.handler /\ u.onSync = s.onSync /\ u.words = s.words
    BY <1>2, <1>6, HexSession
  <2>2. u.hex = h /\ u.bank = s.bank /\ u.in = s.in  BY <1>2 DEF Session, SessionField
  <2> QED  BY <2>1, <2>2
<1> HIDE DEF i, n, h, u
<1>11. CASE i = n /\ s.hex.type # "eof"
  <2>1. h.type # "invalid" /\ t = u
    <3>1. Fail(u, "LoadHexData").error = "LoadHexData"  BY <1>10 DEF Fail, Session, SessionField
    <3> QED  BY <1>5, <1>11, <3>1
  <2>2. Standing(TheFile, h) /\ h.type \in {"data", "eof"}  BY <1>7, <1>11, <2>1
  <2>3. Waited(u) = Waited(s) /\ Muted(u)  BY <1>10, SameMuted DEF Waited, Preparing
  <2> QED  BY <1>2, <1>10, <2>1, <2>2, <2>3 DEF Preparing, Readies
<1>12. CASE ~(i = n /\ s.hex.type # "eof")
  <2>1. s.hex # Rewind  BY <1>8, <1>12
  <2>2. s.hex.type \in {"data", "eof"}  BY <1>9, <2>1
  <2>3. s.hex.type # "eof" => InHand(s.hex)  BY <1>4, <1>12, <2>2 DEF InHand, i, n
  <2>4. t = s  BY <1>5, <2>3
  <2> QED  BY <2>2, <2>4
<1> QED  BY <1>11, <1>12

LEMMA BeforeEnd ==
  ASSUME job \in Job, Suited, NEW s, NEW d, Preparing(s, d), Loading(s)
  PROVE  Sane(EndOfFile(s), d)
<1> DEFINE r == Read(s)
<1>1. ResponseStatusOK(s, FirstVerified) = IF StatusOK(s) THEN FirstVerified(r) ELSE SendGetSync(r)
  BY Zenon DEF ResponseStatusOK, With
<1>2. EndOfFile(s) = ResponseStatusOK(s, FirstVerified)  BY DEF EndOfFile
<1>3. Preparing(r, d) /\ r.stage = s.stage  BY ReadPreparing
<1> HIDE DEF r
<1>4. Sane(SendGetSync(r), d)  BY <1>3, ReadPreparing
<1>5. Sane(FirstVerified(r), d)
  BY <1>3, CheckFirst DEF Preparing, Readies, Session, Loading
<1> QED  BY <1>1, <1>2, <1>4, <1>5

LEMMA BeforeNext ==
  ASSUME job \in Job, Suited, NEW s, NEW d, Preparing(s, d), Loading(s)
  PROVE  Sane(SendProcessPage(s), d)
<1> DEFINE t == WithRecord(s)
           W(x) == IF x.error # "none" THEN x
                   ELSE IF x.hex.type = "eof" THEN EndOfFile(x) ELSE SendPageOrAddress(x)
<1>1. SendProcessPage(s) = W(t)
  <2>1. With(t, W) = W(t)
    <3> HIDE DEF W
    <3> QED  BY Zenon DEF With
  <2>2. SendProcessPage(s) = With(t, W)  BY Zenon DEF SendProcessPage
  <2> QED  BY <2>1, <2>2
<1>2. W(t) = IF t.error # "none" THEN t
             ELSE IF t.hex.type = "eof" THEN EndOfFile(t) ELSE SendPageOrAddress(t)
  OBVIOUS
<1>3. t.error = "none" => Preparing(t, d) /\ t.hex.type \in {"data", "eof"} /\ Loading(t)
  BY PreparingRecord DEF Loading
<1> HIDE DEF t, W
<1>4. CASE t.error # "none"  BY <1>1, <1>2, <1>4 DEF Sane
<1>5. CASE t.error = "none" /\ t.hex.type = "eof"  BY <1>1, <1>2, <1>3, <1>5, BeforeEnd
<1>6. CASE t.error = "none" /\ t.hex.type # "eof"
  BY <1>1, <1>2, <1>3, <1>6, LoadPageOrAddress DEF Preparing
<1> QED  BY <1>4, <1>5, <1>6

LEMMA BeforeProcessPage ==
  ASSUME job \in Job, Suited, NEW s, NEW d, Preparing(s, d), Loading(s)
  PROVE  Sane(OnProcessPage(s), d)
<1> DEFINE t == WithRecord(s)
           X(y) == IF y.error # "none" THEN y ELSE ResponseStatusOK(y, SendProcessPage)
           W(x) == IF x.error # "none" THEN x
                   ELSE IF x.hex.type = "eof" THEN EndOfFile(x)
                   ELSE With(IF Verifying(x) THEN VerifiedPage(x) ELSE x, LAMBDA y :
                          IF y.error # "none" THEN y ELSE ResponseStatusOK(y, SendProcessPage))
<1>1. OnProcessPage(s) = W(t)
  <2>1. With(t, W) = W(t)
    <3> HIDE DEF W
    <3> QED  BY Zenon DEF With
  <2>2. OnProcessPage(s) = With(t, W)  BY Zenon DEF OnProcessPage
  <2> QED  BY <2>1, <2>2
<1>2. t.error = "none" => Preparing(t, d) /\ t.hex.type \in {"data", "eof"} /\ Loading(t)
  BY PreparingRecord DEF Loading
<1>3. W(t) = IF t.error # "none" THEN t
             ELSE IF t.hex.type = "eof" THEN EndOfFile(t)
             ELSE With(IF Verifying(t) THEN VerifiedPage(t) ELSE t, X)
  BY Zenon
<1>4. With(t, X) = X(t)
  <2> HIDE DEF X, t
  <2> QED  BY Zenon DEF With
<1> HIDE DEF t, W, X
<1>5. CASE t.error # "none"  BY <1>1, <1>3, <1>5 DEF Sane
<1>6. CASE t.error = "none" /\ t.hex.type = "eof"  BY <1>1, <1>2, <1>3, <1>6, BeforeEnd
<1>7. CASE t.error = "none" /\ t.hex.type # "eof"
  <2> DEFINE r == Read(t)
  <2>1. ~Verifying(t)  BY <1>2, <1>7 DEF Verifying, Loading
  <2>2. With(r, SendProcessPage) = SendProcessPage(r)  BY Zenon DEF With
  <2>3. X(t) = IF StatusOK(t) THEN SendProcessPage(r) ELSE SendGetSync(r)
    BY <1>7, <2>2, Zenon DEF ResponseStatusOK, X
  <2>4. OnProcessPage(s) = X(t)  BY <1>1, <1>3, <1>4, <1>7, <2>1
  <2>5. Preparing(r, d) /\ r.stage = t.stage  BY <1>2, <1>7, ReadPreparing
  <2> HIDE DEF r
  <2>6. Loading(r)  BY <1>2, <1>7, <2>5 DEF Loading
  <2>7. Sane(SendProcessPage(r), d) /\ Sane(SendGetSync(r), d)
    BY <2>5, <2>6, BeforeNext, ReadPreparing
  <2> QED  BY <2>3, <2>4, <2>7
<1> QED  BY <1>5, <1>6, <1>7

Steady(s, d) == DOMAIN s = SessionField /\ Readies(s, d) /\ Muted(s)

LEMMA Restaged ==
  ASSUME NEW s, NEW d, Preparing(s, d), NEW st, NEW m
  PROVE  /\ Steady([s EXCEPT !.stage = st, !.modifier = m], d)
         /\ [s EXCEPT !.stage = st, !.modifier = m].stage = st
         /\ Steady([s EXCEPT !.modifier = m], d) /\ [s EXCEPT !.modifier = m].stage = s.stage
         /\ Steady([s EXCEPT !.stage = st], d) /\ [s EXCEPT !.stage = st].stage = st
<1>1. DOMAIN s = SessionField /\ Readies(s, d) /\ Muted(s)  BY DEF Preparing, Session
<1>2. ASSUME NEW u, DOMAIN u = SessionField, u.words = s.words, u.hex = s.hex, u.bank = s.bank, u.in = s.in
      PROVE  Steady(u, d)
  BY <1>1, <1>2, SameMuted DEF Steady, Readies
<1> DEFINE a == [s EXCEPT !.stage = st, !.modifier = m]
           b == [s EXCEPT !.modifier = m]
           c == [s EXCEPT !.stage = st]
<1>3. /\ DOMAIN a = SessionField /\ a.words = s.words /\ a.hex = s.hex /\ a.bank = s.bank /\ a.in = s.in
      /\ a.stage = st
  BY <1>1 DEF SessionField
<1>4. /\ DOMAIN b = SessionField /\ b.words = s.words /\ b.hex = s.hex /\ b.bank = s.bank /\ b.in = s.in
      /\ b.stage = s.stage
  BY <1>1 DEF SessionField
<1>5. /\ DOMAIN c = SessionField /\ c.words = s.words /\ c.hex = s.hex /\ c.bank = s.bank /\ c.in = s.in
      /\ c.stage = st
  BY <1>1 DEF SessionField
<1> HIDE DEF a, b, c
<1>6. Steady(a, d) /\ Steady(b, d) /\ Steady(c, d)  BY <1>2, <1>3, <1>4, <1>5
<1> QED  BY <1>3, <1>4, <1>5, <1>6 DEF a, b, c

LEMMA BeforeSends ==
  ASSUME NEW s, NEW d, Steady(s, d)
  PROVE  /\ Due("SetDevice", s.stage) => Sane(SendSetDevice(s), d)
         /\ Due("SetDeviceExt", s.stage) => Sane(SendSetDeviceExt(s), d)
         /\ Due("EnterProgramMode", s.stage) => Sane(SendEnterProgramMode(s), d)
         /\ Due("ReadSignature", s.stage) => Sane(SendReadSignature(s), d)
         /\ Due("ChipErase", s.stage) => Sane(SendChipErase(s), d)
         /\ Due("VerifyUnlocked", s.stage) => Sane(SendVerifyUnlocked(s), d)
         /\ Due("VerifyFuse", s.stage) =>
              /\ Sane(SendVerifyFuse(s), d)
              /\ \A x : Sane(Send(s, "VerifyFuse", UniversalCmd([op |-> "writeFuse", fuse |-> x])), d)
         /\ Due("LoadAddress", s.stage) => Sane(SendLoadAddress(s), d)
         /\ Due("LoadExtAddress", s.stage) => Sane(SendLoadExtAddress(s), d)
<1>1. ASSUME NEW h, h # "GetSync", Due(h, s.stage), NEW c, Plain(c)
      PROVE  Sane(Send(s, h, c), d)
  BY <1>1, BeforeSend DEF Steady, Sane, Kept
<1>2. Due("SetDevice", s.stage) => Sane(SendSetDevice(s), d)
  BY <1>1, PlainCommands DEF SendSetDevice
<1>3. Due("SetDeviceExt", s.stage) => Sane(SendSetDeviceExt(s), d)
  BY <1>1, PlainCommands DEF SendSetDeviceExt
<1>4. Due("EnterProgramMode", s.stage) => Sane(SendEnterProgramMode(s), d)
  BY <1>1, PlainCommands DEF SendEnterProgramMode
<1>5. Due("ReadSignature", s.stage) => Sane(SendReadSignature(s), d)
  BY <1>1, PlainCommands DEF SendReadSignature
<1>6. Due("ChipErase", s.stage) => Sane(SendChipErase(s), d)
  BY <1>1, PlainCommands DEF SendChipErase
<1>7. Due("VerifyUnlocked", s.stage) => Sane(SendVerifyUnlocked(s), d)
  BY <1>1, PlainCommands DEF SendVerifyUnlocked
<1>8. Due("VerifyFuse", s.stage) =>
              /\ Sane(SendVerifyFuse(s), d)
              /\ \A x : Sane(Send(s, "VerifyFuse", UniversalCmd([op |-> "writeFuse", fuse |-> x])), d)
  BY <1>1, PlainCommands DEF SendVerifyFuse
<1>9. Due("LoadAddress", s.stage) => Sane(SendLoadAddress(s), d)
  BY <1>1, PlainCommands DEF SendLoadAddress
<1>10. Due("LoadExtAddress", s.stage) => Sane(SendLoadExtAddress(s), d)
  <2>1. Small => s.bank = 0  BY DEF Steady, Readies
  <2>2. Plain(UniversalCmd([op |-> "loadExt", bank |-> s.bank]))  BY <2>1, PlainCommands
  <2> QED  BY <1>1, <2>2 DEF SendLoadExtAddress
<1> QED  BY <1>2, <1>3, <1>4, <1>5, <1>6, <1>7, <1>8, <1>9, <1>10

LEMMA PreparingSteady ==
  ASSUME NEW s, NEW d, Preparing(s, d)
  PROVE  Steady(s, d)
BY DEF Preparing, Steady, Session

LEMMA BeforeInSync ==
  ASSUME job \in Job, Suited, NEW s, NEW d, Preparing(s, d), s.handler = "GetSync"
  PROVE  Sane(InSync(s), d)
<1> DEFINE u == [s EXCEPT !.retries = 0, !.handler = s.onSync]
<1>1. Session(s) /\ Waited(s) = s.onSync  BY DEF Preparing, Waited
<1>2. /\ DOMAIN u = SessionField /\ u.out = s.out /\ u.handler = s.onSync
      /\ u.onSync = s.onSync /\ u.stage = s.stage /\ u.error = s.error /\ u.in = s.in
      /\ u.modifier = s.modifier /\ u.retries = 0 /\ u.hex = s.hex /\ u.words = s.words
      /\ u.page = s.page /\ u.bank = s.bank
  BY <1>1 DEF Session, SessionField
<1>3. InSync(s) = SendAgain(u)  BY DEF InSync
<1> HIDE DEF u
<1>4. Session(u)  BY <1>1, <1>2, BoundAssumption DEF Session
<1>5. Preparing(u, d)
  <2>1. Muted(u)  BY <1>2, SameMuted DEF Preparing
  <2>2. Waited(u) = Waited(s)  BY <1>1, <1>2 DEF Waited, Session
  <2> QED  BY <1>2, <1>4, <2>1, <2>2 DEF Preparing, Readies
<1>6. Due(u.onSync, u.stage) /\ Steady(u, d)  BY <1>1, <1>2, PreparingSteady, <1>5 DEF Preparing
<1>7. CASE u.onSync = "ProcessPage"
  <2>1. SendAgain(u) = SendProcessPage(u)  BY <1>7 DEF SendAgain
  <2>2. Loading(u)  BY <1>6, <1>7 DEF Due, FileStep, Loading
  <2> QED  BY <1>3, <1>5, <2>1, <2>2, BeforeNext
<1>8. CASE u.onSync # "ProcessPage"
  <2>1. u.onSync \in Handler \ {"GetSync"} /\ u.onSync \notin Last  BY <1>4, <1>6 DEF Session, Due
  <2>2. Sane(SendAgain(u), d)
    BY <1>6, <1>8, <2>1, BeforeSends DEF SendAgain, Handler, Last
  <2> QED  BY <1>3, <2>2
<1> QED  BY <1>7, <1>8

LEMMA BeforeInProgramMode ==
  ASSUME job \in Job, Suited, NEW s, NEW d, Preparing(s, d), Waited(s) = "EnterProgramMode"
  PROVE  Sane(InProgramMode(s), d)
<1>1. Session(s) /\ Due("EnterProgramMode", s.stage) /\ Steady(s, d)
  BY PreparingSteady DEF Preparing
<1>2. s.stage = "VerifySignature" \/ (job.set /\ s.stage \in {"VerifyUnlocked", "LoadingFlash"})
  BY <1>1 DEF Due
<1>3. CASE s.stage = "VerifySignature"
  <2>1. InProgramMode(s) = SendReadSignature(s)  BY <1>3 DEF InProgramMode
  <2>2. Due("ReadSignature", s.stage)  BY <1>1 DEF Due, Last, FileStep
  <2> QED  BY <1>1, <2>1, <2>2, BeforeSends
<1>4. CASE job.set /\ s.stage = "VerifyUnlocked"
  <2> DEFINE u == [s EXCEPT !.modifier = {}]
  <2>1. InProgramMode(s) = SendVerifyUnlocked(u)  BY <1>4 DEF InProgramMode
  <2>2. Steady(u, d) /\ u.stage = s.stage  BY Restaged
  <2> HIDE DEF u
  <2>3. Due("VerifyUnlocked", u.stage)  BY <1>1, <1>4, <2>2 DEF Due, Last, FileStep
  <2> QED  BY <2>1, <2>2, <2>3, BeforeSends
<1>5. CASE job.set /\ s.stage = "LoadingFlash"
  <2> DEFINE u == [s EXCEPT !.spi = "fast"]
  <2>1. Operation = "SetFusesAndBootloader"  BY <1>5 DEF Suited, NeedsFile, Operation
  <2>2. InProgramMode(s) = SendProcessPage(u)  BY <1>5, <2>1 DEF InProgramMode
  <2>3. /\ DOMAIN u = SessionField /\ u.out = s.out /\ u.handler = s.handler
        /\ u.onSync = s.onSync /\ u.stage = s.stage /\ u.error = s.error
        /\ u.modifier = s.modifier /\ u.retries = s.retries /\ u.hex = s.hex /\ u.words = s.words
        /\ u.bank = s.bank /\ u.in = s.in
    BY <1>1 DEF Session, SessionField
  <2> HIDE DEF u
  <2>4. Session(u) /\ Waited(u) = Waited(s) /\ Muted(u)
    BY <1>1, <2>3, SameMuted DEF Session, Waited, Preparing
  <2>5. Preparing(u, d)  BY <2>3, <2>4 DEF Preparing, Readies
  <2>6. Loading(u)  BY <1>5, <2>3 DEF Loading
  <2> QED  BY <2>2, <2>5, <2>6, BeforeNext
<1> QED  BY <1>2, <1>3, <1>4, <1>5

LEMMA BeforeErasing ==
  ASSUME job \in Job, Suited, NEW s, NEW d, Preparing(s, d), s.handler = "ChipErase"
  PROVE  Sane(Erasing(s), d)
<1>1. Session(s)  BY DEF Preparing
<1>2. CASE IsProgramming
  <2> DEFINE st == IF Operation = "ProgramFlash" THEN "LoadingFlash" ELSE "LoadingEEPROM"
             u == [s EXCEPT !.stage = st]
  <2>1. Erasing(s) = SendProcessPage(u)  BY <1>2 DEF Erasing
  <2>2. /\ DOMAIN u = SessionField /\ u.out = s.out /\ u.handler = s.handler
        /\ u.onSync = s.onSync /\ u.stage = st /\ u.error = s.error
        /\ u.modifier = s.modifier /\ u.retries = s.retries /\ u.hex = s.hex /\ u.words = s.words
        /\ u.bank = s.bank /\ u.in = s.in
    BY <1>1 DEF Session, SessionField
  <2>3. st \in {"LoadingFlash", "LoadingEEPROM"}  OBVIOUS
  <2> HIDE DEF u, st
  <2>4. Session(u) /\ Waited(u) = "ChipErase" /\ Muted(u) /\ Loading(u)
    BY <1>1, <2>2, <2>3, SameMuted DEF Session, Waited, Preparing, Stage, Loading
  <2>5. Due("ChipErase", u.stage)  BY <2>2, <2>3 DEF Due, Last, FileStep
  <2>6. Preparing(u, d)  BY <2>2, <2>4, <2>5 DEF Preparing, Readies
  <2> QED  BY <2>1, <2>4, <2>6, BeforeNext
<1>3. CASE ~IsProgramming
  <2> DEFINE u == [s EXCEPT !.stage = "VerifyUnlocked"]
  <2>1. Erasing(s) = SendEnterProgramMode(u)  BY <1>3 DEF Erasing
  <2>2. Steady(u, d) /\ u.stage = "VerifyUnlocked"  BY Restaged
  <2> HIDE DEF u
  <2>3. job.set  BY <1>3 DEF IsProgramming, Operation
  <2>4. Due("EnterProgramMode", u.stage)  BY <2>2, <2>3 DEF Due, Last, FileStep
  <2> QED  BY <2>1, <2>2, <2>4, BeforeSends
<1> QED  BY <1>2, <1>3

LEMMA BeforeNextFuse ==
  ASSUME NEW s, NEW d, Preparing(s, d), s.stage \in FuseStage, job.set
  PROVE  Sane(NextFuse(s), d)
<1>1. ASSUME NEW st \in {"VerifyHighFuse", "VerifyLowFuse"}
      PROVE  Sane(SendVerifyFuse([s EXCEPT !.stage = st, !.modifier = {}]), d)
  <2> DEFINE u(m) == [s EXCEPT !.stage = st, !.modifier = m]
  <2>1. \A m : Steady(u(m), d) /\ u(m).stage = st
    <3>1. \A x, m : Steady([s EXCEPT !.stage = x, !.modifier = m], d)  BY Restaged
    <3>2. \A m : u(m).stage = st  BY DEF Preparing, Session, SessionField
    <3> QED  BY <3>1, <3>2
  <2> HIDE DEF u
  <2>2. Due("VerifyFuse", u({}).stage)  BY <1>1, <2>1 DEF Due, Last, FileStep
  <2>3. Sane(SendVerifyFuse(u({})), d)  BY <2>1, <2>2, BeforeSends
  <2> QED  BY <2>3 DEF u
<1>2. Sane(SendEnterProgramMode([s EXCEPT !.stage = "LoadingFlash"]), d)
  <2> DEFINE u == [s EXCEPT !.stage = "LoadingFlash"]
  <2>1. u.stage = "LoadingFlash" /\ Steady(u, d)
    <3>1. \A st : Steady([s EXCEPT !.stage = st], d)  BY Restaged
    <3>2. u.stage = "LoadingFlash"  BY DEF Preparing, Session, SessionField
    <3> QED  BY <3>1, <3>2
  <2> HIDE DEF u
  <2>2. Due("EnterProgramMode", u.stage)  BY <2>1 DEF Due, Last, FileStep
  <2>3. Sane(SendEnterProgramMode(u), d)  BY <2>1, <2>2, BeforeSends
  <2> QED  BY <2>3 DEF u
<1> QED  BY <1>1, <1>2 DEF NextFuse, FuseStage

LEMMA BeforeFuseRead ==
  ASSUME NEW t, NEW d, Preparing(t, d), t.handler = "VerifyFuse", t.stage \in FuseStage, NEW same \in BOOLEAN
  PROVE  Sane(ReadTwice(t, same, SendVerifyFuse, UniversalCmd([op |-> "writeFuse", fuse |-> FuseOf(t)]),
                        NextFuse, "Fuse"), d)
<1> DEFINE u(m) == [t EXCEPT !.modifier = m]
           c == UniversalCmd([op |-> "writeFuse", fuse |-> FuseOf(t)])
           w == {"FuseWriteResponse", "FuseWritten"}
<1>1. \A m : Steady(u(m), d) /\ u(m).stage = t.stage  BY Restaged
<1>2. job.set /\ Due("VerifyFuse", t.stage) /\ DOMAIN t = SessionField
  BY DEF Preparing, Due, Waited, Session
<1>3. ReadTwice(t, same, SendVerifyFuse, c, NextFuse, "Fuse")
        \in {SendVerifyFuse(u(t.modifier \ {"FuseWriteResponse"})), SendVerifyFuse(u({"FuseVerified"})),
             Fail(t, "Fuse"), Send(u(w), "VerifyFuse", c), NextFuse(t)}
  BY DEF ReadTwice
<1> HIDE DEF u
<1>4. \A m : Sane(SendVerifyFuse(u(m)), d) /\ Sane(Send(u(m), "VerifyFuse", c), d)
  <2> SUFFICES ASSUME NEW m PROVE Sane(SendVerifyFuse(u(m)), d) /\ Sane(Send(u(m), "VerifyFuse", c), d)
    OBVIOUS
  <2>1. Steady(u(m), d) /\ Due("VerifyFuse", u(m).stage)  BY <1>1, <1>2
  <2> QED  BY <2>1, BeforeSends
<1> HIDE DEF c
<1>5. Sane(Fail(t, "Fuse"), d)  BY <1>2, FailSane
<1>6. Sane(NextFuse(t), d)  BY <1>2, BeforeNextFuse
<1> QED  BY <1>3, <1>4, <1>5, <1>6 DEF c

LEMMA PreparingSane ==
  ASSUME NEW s, NEW d, Preparing(s, d), s.out = <<>>
  PROVE  Sane(s, d)
BY DEF Preparing, Readies, Sane, Kept, Before

LEMMA BeforeHandlers ==
  ASSUME job \in Job, Suited, NEW s, Good(s, job), NEW d, Preparing(s, d), s.out = <<>>
  PROVE  /\ s.handler = "GetSync" => Sane(OnGetSync(s), d)
         /\ s.handler = "SetDevice" => Sane(OnSetDevice(s), d)
         /\ s.handler = "SetDeviceExt" => Sane(OnSetDeviceExt(s), d)
         /\ s.handler = "EnterProgramMode" => Sane(OnEnterProgramMode(s), d)
         /\ s.handler = "LoadAddress" => Sane(OnLoadAddress(s), d)
         /\ s.handler = "ProcessPage" => Sane(OnProcessPage(s), d)
<1> DEFINE r == Read(s)
           g == SendGetSync(r)
<1>1. /\ Preparing(r, d) /\ r.stage = s.stage /\ r.handler = s.handler /\ Waited(r) = Waited(s)
  BY ReadPreparing
<1> HIDE DEF r
<1>2. Sane(g, d) /\ Steady(r, d)  BY <1>1, ReadPreparing, PreparingSteady
<1> HIDE DEF g
<1>3. Due(Waited(s), s.stage)  BY DEF Preparing
<1>4. s.handler = "GetSync" => Sane(OnGetSync(s), d)
  <2>1. OnGetSync(s) = IF StatusOK(s) THEN InSync(r) ELSE g
    BY Zenon DEF OnGetSync, ResponseStatusOK, With, r, g
  <2> QED  BY <1>1, <1>2, <2>1, BeforeInSync
<1>5. s.handler = "SetDevice" => Sane(OnSetDevice(s), d)
  <2>1. OnSetDevice(s) = IF StatusOK(s) THEN SendSetDeviceExt(r) ELSE g
    BY Zenon DEF OnSetDevice, ResponseStatusOK, With, r, g
  <2>2. s.handler = "SetDevice" => Due("SetDeviceExt", r.stage)
    BY <1>1, <1>3 DEF Due, Waited, Last, FileStep
  <2> QED  BY <1>2, <2>1, <2>2, BeforeSends
<1>6. s.handler = "SetDeviceExt" => Sane(OnSetDeviceExt(s), d)
  <2>1. OnSetDeviceExt(s) = IF StatusOK(s) THEN SendEnterProgramMode(r) ELSE g
    BY Zenon DEF OnSetDeviceExt, ResponseStatusOK, With, r, g
  <2>2. s.handler = "SetDeviceExt" => Due("EnterProgramMode", r.stage)
    BY <1>1, <1>3 DEF Due, Waited, Last, FileStep
  <2> QED  BY <1>2, <2>1, <2>2, BeforeSends
<1>7. s.handler = "EnterProgramMode" => Sane(OnEnterProgramMode(s), d)
  <2>1. OnEnterProgramMode(s) = IF StatusOK(s) THEN InProgramMode(r) ELSE g
    BY Zenon DEF OnEnterProgramMode, ResponseStatusOK, With, r, g
  <2>2. s.handler = "EnterProgramMode" => Waited(r) = "EnterProgramMode"  BY <1>1 DEF Waited
  <2> QED  BY <1>1, <1>2, <2>1, <2>2, BeforeInProgramMode
<1>8. s.handler \in FileStep => Loading(s) /\ Loading(r)
  BY <1>1, <1>3 DEF Due, Waited, FileStep, Loading
<1>9. s.handler = "LoadAddress" => Sane(OnLoadAddress(s), d)
  <2>1. OnLoadAddress(s) = IF StatusOK(s) THEN SendProcessPage(r) ELSE g
    BY Zenon DEF OnLoadAddress, ResponseStatusOK, With, r, g
  <2>2. s.handler = "LoadAddress" => Loading(r)  BY <1>8 DEF FileStep
  <2> QED  BY <1>1, <1>2, <2>1, <2>2, BeforeNext
<1>10. s.handler = "ProcessPage" => Sane(OnProcessPage(s), d)
  BY <1>8, BeforeProcessPage DEF FileStep
<1> QED  BY <1>4, <1>5, <1>6, <1>7, <1>9, <1>10

LEMMA BeforeByteHandlers ==
  ASSUME job \in Job, Suited, NEW s, Good(s, job), NEW d, Preparing(s, d), s.out = <<>>
  PROVE  /\ s.handler = "ReadSignature" => Sane(OnReadSignature(s), d)
         /\ s.handler = "ChipErase" => Sane(OnChipErase(s), d)
         /\ s.handler = "VerifyUnlocked" => Sane(OnVerifyUnlocked(s), d)
         /\ s.handler = "VerifyFuse" => Sane(OnVerifyFuse(s), d)
         /\ s.handler = "LoadExtAddress" => Sane(OnLoadExtAddress(s), d)
<1> DEFINE r == Read(s)
           q == Read(r)
           g == SendGetSync(q)
<1>1. Preparing(r, d) /\ r.stage = s.stage /\ r.handler = s.handler  BY ReadPreparing
<1> HIDE DEF r
<1>2. Preparing(q, d) /\ q.stage = s.stage /\ q.handler = s.handler  BY <1>1, ReadPreparing
<1> HIDE DEF q
<1>3. Sane(g, d) /\ Sane(s, d) /\ Steady(q, d) /\ DOMAIN q = SessionField
  BY <1>2, ReadPreparing, PreparingSteady, PreparingSane DEF Steady
<1> HIDE DEF g
<1>4. s.handler # "GetSync" => Due(s.handler, s.stage)  BY DEF Preparing, Waited
<1>5. s.handler = "ReadSignature" => Sane(OnReadSignature(s), d)
  <2>1. OnReadSignature(s) = IF Len(s.in) < 2 THEN s
                             ELSE IF Head(s.in) # Signature THEN Fail(r, "Signature")
                             ELSE IF StatusOK(r) THEN SendChipErase(q) ELSE g
    BY Zenon DEF OnReadSignature, ResponseStatusOK, With, r, q, g
  <2>2. Sane(Fail(r, "Signature"), d)
    <3>1. DOMAIN r = SessionField  BY <1>1 DEF Preparing, Session
    <3> QED  BY <3>1, FailSane
  <2>3. s.handler = "ReadSignature" => Due("ChipErase", q.stage)
    BY <1>2, <1>4 DEF Due, Last, FileStep
  <2> QED  BY <1>3, <2>1, <2>2, <2>3, BeforeSends
<1>6. s.handler = "ChipErase" => Sane(OnChipErase(s), d)
  <2>1. OnChipErase(s) = IF s.in = <<>> THEN s ELSE IF StatusOK(r) THEN Erasing(q) ELSE g
    BY Zenon DEF OnChipErase, OnByte, ResponseStatusOK, With, r, q, g
  <2> QED  BY <1>2, <1>3, <2>1, BeforeErasing
<1>7. s.handler = "VerifyUnlocked" => Sane(OnVerifyUnlocked(s), d)
  <2> DEFINE K(t) == IF Head(s.in) # "unlocked" THEN Fail(t, "Unlock")
                     ELSE IF "FuseVerified" \in t.modifier
                       THEN SendVerifyFuse([t EXCEPT !.stage = "VerifyExtendedFuse", !.modifier = {}])
                     ELSE SendVerifyUnlocked([t EXCEPT !.modifier = @ \cup {"FuseVerified"}])
             u(x) == [q EXCEPT !.stage = "VerifyExtendedFuse", !.modifier = x]
             v(x) == [q EXCEPT !.modifier = x]
             m == q.modifier \cup {"FuseVerified"}
  <2>1. OnVerifyUnlocked(s) = IF s.in = <<>> THEN s ELSE IF StatusOK(r) THEN K(q) ELSE g
    <3>1. With(q, K) = K(q)
      <4> HIDE DEF K
      <4> QED  BY Zenon DEF With
    <3>2. OnVerifyUnlocked(s) = IF s.in = <<>> THEN s ELSE IF StatusOK(r) THEN With(q, K) ELSE g
      BY Zenon DEF OnVerifyUnlocked, OnByte, ResponseStatusOK, r, q, g
    <3> QED  BY <3>1, <3>2
  <2>2. K(q) \in {Fail(q, "Unlock"), SendVerifyFuse(u({})), SendVerifyUnlocked(v(m))}  OBVIOUS
  <2> HIDE DEF K, m
  <2>3. Sane(Fail(q, "Unlock"), d)  BY <1>3, FailSane
  <2>4. \A x : Steady(u(x), d)
    <3>1. \A x, st : Steady([q EXCEPT !.stage = st, !.modifier = x], d)  BY <1>2, Restaged
    <3> QED  BY <3>1
  <2>5. \A x : u(x).stage = "VerifyExtendedFuse"  BY <1>3 DEF SessionField
  <2>6. \A x : Steady(v(x), d)  BY <1>2, Restaged
  <2>7. \A x : v(x).stage = q.stage  BY <1>3 DEF SessionField
  <2> HIDE DEF u, v
  <2>8. s.handler = "VerifyUnlocked" =>
          Due("VerifyFuse", u({}).stage) /\ Due("VerifyUnlocked", v(m).stage)
    BY <1>2, <1>4, <2>5, <2>7 DEF Due, Last, FileStep
  <2>9. s.handler = "VerifyUnlocked" => Sane(SendVerifyFuse(u({})), d) /\ Sane(SendVerifyUnlocked(v(m)), d)
    BY <2>4, <2>6, <2>8, BeforeSends
  <2> QED  BY <1>3, <2>1, <2>2, <2>3, <2>9
<1>8. s.handler = "VerifyFuse" => Sane(OnVerifyFuse(s), d)
  <2> DEFINE same == Head(s.in) = "configured"
             c == ReadTwice(q, same, SendVerifyFuse,
                            UniversalCmd([op |-> "writeFuse", fuse |-> FuseOf(q)]), NextFuse, "Fuse")
  <2>1. OnVerifyFuse(s) = IF s.in = <<>> THEN s ELSE IF StatusOK(r) THEN c ELSE g
    BY Zenon DEF OnVerifyFuse, OnByte, ResponseStatusOK, With, r, q, g
  <2>2. s.handler = "VerifyFuse" => q.stage \in FuseStage
    BY <1>2 DEF Good, Preparing, Fits, Waited
  <2>3. same \in BOOLEAN  OBVIOUS
  <2>4. s.handler = "VerifyFuse" => Sane(c, d)
    <3> HIDE DEF same
    <3> QED  BY <1>2, <2>2, <2>3, BeforeFuseRead
  <2> HIDE DEF c
  <2> QED  BY <1>3, <2>1, <2>4
<1>9. s.handler = "LoadExtAddress" => Sane(OnLoadExtAddress(s), d)
  <2>1. OnLoadExtAddress(s) = IF s.in = <<>> THEN s ELSE IF StatusOK(r) THEN SendProcessPage(q) ELSE g
    BY Zenon DEF OnLoadExtAddress, OnByte, ResponseStatusOK, With, r, q, g
  <2>2. s.handler = "LoadExtAddress" => Loading(q)
    BY <1>2, <1>4 DEF Due, FileStep, Loading
  <2> QED  BY <1>2, <1>3, <2>1, <2>2, BeforeNext
<1> QED  BY <1>5, <1>6, <1>7, <1>8, <1>9

-----------------------------------------------------------------------------
(* Afterwards.                                                             *)

Settled(s, d) ==
  /\ Session(s) /\ s.error = "none" /\ s.stage # "SessionCompleted" /\ Waited(s) \in Last
  /\ ProgrammedIn(d) /\ Muted(s)

LEMMA ReadSettled ==
  ASSUME NEW s, NEW d, Settled(s, d)
  PROVE  /\ Settled(Read(s), d) /\ Sane(SendGetSync(s), d)
         /\ Read(s).handler = s.handler /\ Read(s).onSync = s.onSync
<1> DEFINE t == Read(s)
           k == SendGetSync(s)
<1>1. /\ DOMAIN t = SessionField /\ t.out = s.out /\ t.handler = s.handler
      /\ t.onSync = s.onSync /\ t.stage = s.stage /\ t.error = s.error /\ t.modifier = s.modifier
      /\ t.retries = s.retries /\ t.hex = s.hex /\ t.words = s.words
  BY DEF Settled, Session, SessionField, Read
<1>2. Muted(t)  BY MutedRead DEF Settled, Session
<1> HIDE DEF t
<1>3. Waited(t) = Waited(s)  BY <1>1 DEF Waited
<1>4. Settled(t, d)  BY <1>1, <1>2, <1>3 DEF Settled, Session
<1>5. Same(s, k) /\ k.out = <<GetSyncCmd>> /\ Waited(k) = Waited(s)
  BY SyncFields DEF Waited, Settled, Session
<1> HIDE DEF k
<1>6. Muted(k) /\ k.stage # "SessionCompleted"  BY <1>5, SameMuted DEF Same, Settled
<1>7. k.out[1] \in Mild  BY <1>5, MildCommands
<1>8. Sane(k, d)  BY <1>5, <1>6, <1>7 DEF Settled, Sane, Kept, Afterwards
<1> QED  BY <1>1, <1>4, <1>8 DEF t, k

LEMMA AfterSends ==
  ASSUME NEW s, DOMAIN s = SessionField, s.stage # "SessionCompleted", NEW d, ProgrammedIn(d), Muted(s)
  PROVE  /\ Sane(SendVerifyLockBits(s), d) /\ Sane(SendLeaveProgramMode(s), d)
         /\ Sane(Send(s, "VerifyLockBits", UniversalCmd([op |-> "writeLock"])), d)
<1>1. ASSUME NEW h \in Last, NEW c \in Mild PROVE Sane(Send(s, h, c), d)
  BY <1>1, AfterSend DEF Sane, Kept
<1> QED  BY <1>1, MildCommands DEF SendVerifyLockBits, SendLeaveProgramMode

LEMMA AfterLockRead ==
  ASSUME NEW t, NEW d, Settled(t, d), t.handler = "VerifyLockBits", NEW same \in BOOLEAN
  PROVE  Sane(ReadTwice(t, same, SendVerifyLockBits, UniversalCmd([op |-> "writeLock"]),
                        SendLeaveProgramMode, "Lock"), d)
<1> DEFINE u(m) == [t EXCEPT !.modifier = m]
           c == UniversalCmd([op |-> "writeLock"])
           w == {"FuseWriteResponse", "FuseWritten"}
<1>1. DOMAIN t = SessionField /\ t.stage # "SessionCompleted" /\ ProgrammedIn(d) /\ Muted(t)
  BY DEF Settled, Session
<1>2. \A m : DOMAIN u(m) = SessionField /\ u(m).stage = t.stage /\ u(m).in = t.in
  BY <1>1 DEF SessionField
<1>3. ReadTwice(t, same, SendVerifyLockBits, c, SendLeaveProgramMode, "Lock")
        \in {SendVerifyLockBits(u(t.modifier \ {"FuseWriteResponse"})),
             SendVerifyLockBits(u({"FuseVerified"})),
             Fail(t, "Lock"), Send(u(w), "VerifyLockBits", c), SendLeaveProgramMode(t)}
  BY DEF ReadTwice
<1> HIDE DEF u
<1>4. \A m : Sane(SendVerifyLockBits(u(m)), d) /\ Sane(Send(u(m), "VerifyLockBits", c), d)
  <2> SUFFICES ASSUME NEW m
               PROVE  Sane(SendVerifyLockBits(u(m)), d) /\ Sane(Send(u(m), "VerifyLockBits", c), d)
    OBVIOUS
  <2>1. Muted(u(m)) /\ u(m).stage # "SessionCompleted" /\ DOMAIN u(m) = SessionField
    BY <1>1, <1>2, SameMuted
  <2> QED  BY <1>1, <2>1, AfterSends
<1>5. Sane(Fail(t, "Lock"), d) /\ Sane(SendLeaveProgramMode(t), d)
  BY <1>1, FailSane, AfterSends
<1> HIDE DEF c
<1> QED  BY <1>3, <1>4, <1>5 DEF c

(* Behind the answer to LEAVE_PROGMODE the session is over.                *)
LEMMA AfterHandlers ==
  ASSUME NEW s, NEW d, Settled(s, d), s.out = <<>>
  PROVE  /\ s.handler = "GetSync" => Sane(OnGetSync(s), d)
         /\ s.handler = "VerifyLockBits" => Sane(OnVerifyLockBits(s), d)
         /\ s.handler = "LeaveProgramMode" =>
              Sane(OnLeaveProgramMode(s), d) \/ OnLeaveProgramMode(s).stage = "SessionCompleted"
<1> DEFINE r == Read(s)
           q == Read(r)
           g == SendGetSync(r)
           k == SendGetSync(q)
<1>1. Settled(r, d) /\ r.handler = s.handler /\ r.onSync = s.onSync  BY ReadSettled
<1> HIDE DEF r
<1>2. Settled(q, d) /\ q.handler = s.handler  BY <1>1, ReadSettled
<1> HIDE DEF q
<1>3. Sane(g, d) /\ Sane(k, d)  BY <1>1, <1>2, ReadSettled
<1>4. Sane(s, d)  BY DEF Settled, Sane, Kept, Afterwards
<1> HIDE DEF g, k
<1>5. s.handler = "GetSync" => Sane(OnGetSync(s), d)
  <2> DEFINE u == [r EXCEPT !.retries = 0, !.handler = r.onSync]
  <2>1. OnGetSync(s) = IF StatusOK(s) THEN InSync(r) ELSE g
    BY Zenon DEF OnGetSync, ResponseStatusOK, With, r, g
  <2>2. /\ DOMAIN u = SessionField /\ u.onSync = r.onSync /\ u.stage = r.stage /\ u.in = r.in
    BY <1>1 DEF Settled, Session, SessionField
  <2>3. InSync(r) = SendAgain(u)  BY DEF InSync
  <2> HIDE DEF u
  <2>4. Muted(u) /\ u.stage # "SessionCompleted" /\ ProgrammedIn(d)
    BY <1>1, <2>2, SameMuted DEF Settled
  <2>5. s.handler = "GetSync" => u.onSync \in Last  BY <1>1, <2>2 DEF Settled, Waited
  <2>6. Sane(SendVerifyLockBits(u), d) /\ Sane(SendLeaveProgramMode(u), d)
    BY <2>2, <2>4, AfterSends
  <2>7. u.onSync \in Last => Sane(SendAgain(u), d)  BY <2>6 DEF SendAgain, Last
  <2> QED  BY <1>3, <2>1, <2>3, <2>5, <2>7
<1>6. s.handler = "VerifyLockBits" => Sane(OnVerifyLockBits(s), d)
  <2> DEFINE same == Head(s.in) = "locked"
             c == ReadTwice(q, same, SendVerifyLockBits,
                            UniversalCmd([op |-> "writeLock"]), SendLeaveProgramMode, "Lock")
  <2>1. OnVerifyLockBits(s) = IF s.in = <<>> THEN s ELSE IF StatusOK(r) THEN c ELSE k
    BY Zenon DEF OnVerifyLockBits, OnByte, ResponseStatusOK, With, r, q, k
  <2>2. same \in BOOLEAN  OBVIOUS
  <2>3. s.handler = "VerifyLockBits" => Sane(c, d)
    <3> HIDE DEF same
    <3> QED  BY <1>2, <2>2, AfterLockRead
  <2> HIDE DEF c
  <2> QED  BY <1>3, <1>4, <2>1, <2>3
<1>7. Sane(OnLeaveProgramMode(s), d) \/ OnLeaveProgramMode(s).stage = "SessionCompleted"
  <2>1. OnLeaveProgramMode(s) = IF StatusOK(s) THEN Halt(r) ELSE g
    BY Zenon DEF OnLeaveProgramMode, ResponseStatusOK, With, r, g
  <2>2. Halt(r).stage = "SessionCompleted"  BY <1>1 DEF Settled, Session, SessionField, Halt
  <2> QED  BY <1>3, <2>1, <2>2
<1> QED  BY <1>5, <1>6, <1>7
=============================================================================
