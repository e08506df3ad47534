-------------------------- MODULE AvrLoader_proofs --------------------------
(***************************************************************************)
(* Proofs about the AVR loader, second part: success is true, and no alarm *)
(* is false.                                                               *)
(*                                                                         *)
(* Success, with any number of faults of the serial line.  The inductive   *)
(* invariant is IInv /\ Configuring /\ Checking, of which the first part,  *)
(* AvrSession_proofs, says what the handlers of a session make of it; here *)
(* come loop(), the target and the line.                                   *)
(*                                                                         *)
(* No false alarm, with everything in order.  The inductive invariant is   *)
(* IInv /\ OnCourse: the session has sent a command it may send with the   *)
(* target as it is (Asks), or the target has carried out such a command    *)
(* and its answer is there (Told).  Turn is the step from one command to   *)
(* the next: the answer is the one expected, and its handler ends the      *)
(* session or sends the next command of the kind.                          *)
(***************************************************************************)
EXTENDS AvrSession_proofs

-----------------------------------------------------------------------------
(* loop(): what the session reads, and what that makes of the invariant.   *)

(* What the invariant looks at is the same.                                *)
Like(s, t) == Alike(s, t) /\ t.handler = s.handler /\ t.onSync = s.onSync /\ t.out = s.out

LEMMA LikeKeeps ==
  ASSUME NEW s, NEW t, Like(s, t), NEW d, NEW q
  PROVE  /\ Kept(s, d, q) => Kept(t, d, q)
         /\ Calm(s, q) => Calm(t, q)
<1>1. /\ t.stage = s.stage /\ t.hex = s.hex /\ t.page = s.page /\ t.words = s.words /\ t.bank = s.bank
      /\ t.handler = s.handler /\ t.onSync = s.onSync /\ t.out = s.out
  BY DEF Like, Alike
<1>2. Waited(t) = Waited(s) /\ (Verifying(t) <=> Verifying(s)) /\ (Sent(t) <=> Sent(s))
  BY <1>1 DEF Waited, Verifying, Sent
<1>3. Before(s, d) => Before(t, d)  BY <1>1, <1>2 DEF Before
<1>4. Afterwards(s, d) => Afterwards(t, d)  BY <1>1, <1>2 DEF Afterwards
<1>5. Calm(s, q) => Calm(t, q)  BY <1>1, <1>2 DEF Calm
<1>6. Request(t) = Request(s)  BY <1>1 DEF Request
<1>7. PageAnswer(q, s, d) => PageAnswer(q, t, d)  BY <1>1 DEF PageAnswer
<1>8. /\ Going(s, d) => Going(t, d)
      /\ AtHand(s) => AtHand(t)
      /\ Extended(s, d) => Extended(t, d)
      /\ ToExtend(s) => ToExtend(t)
      /\ Ready(s, d) => Ready(t, d)
  BY AlikeKeeps DEF Like
<1>9. Check(s, d, q) => Check(t, d, q)  BY <1>1, <1>2, <1>6, <1>7, <1>8 DEF Check
<1> QED  BY <1>3, <1>4, <1>5, <1>9 DEF Kept

(* Bytes that are no answer disturb nothing.                               *)
LEMMA StrayKept ==
  ASSUME NEW s, NEW d, NEW p, Kept(s, d, p), NEW q, IsSeq(q), Stray(q)
  PROVE  Kept(s, d, q) /\ Calm(s, q)
<1>1. Once(q) /\ Refused(q)  BY StrayOnce
<1>2. Check(s, d, p) => Check(s, d, q)  BY <1>1 DEF Check
<1> QED  BY <1>1, <1>2 DEF Kept, Calm

LEMMA KeptStage ==
  ASSUME NEW s, NEW d, NEW q, Kept(s, d, q)
  PROVE  s.stage # "SessionCompleted"
BY DEF Kept, Before, Due, Check, Verifying, Afterwards

LEMMA TailKept ==
  ASSUME NEW s, s.words \in Nat, NEW d, NEW q, IsSeq(q), q # <<>>, q[1] \notin SyncByte,
         Kept(s, d, q), Calm(s, q)
  PROVE  Kept(s, d, Tail(q)) /\ Calm(s, Tail(q))
<1>1. /\ Stray(q) => Stray(Tail(q))
      /\ Once(q) => Once(Tail(q))
      /\ Refused(q) => Refused(Tail(q))
      /\ PageAnswer(q, s, d) => PageAnswer(Tail(q), s, d)
  BY ByteRead, PageByteRead
<1>2. Check(s, d, q) => Check(s, d, Tail(q))  BY <1>1 DEF Check
<1> QED  BY <1>1, <1>2 DEF Kept, Calm

(* A session goes on like this, with the bytes that loop() leaves it.      *)
Held(s, d) ==
  LET q == (IF job.serial THEN s.in ELSE <<>>) \o late
  IN IsSeq(s.in) /\ Kept(s, d, q) /\ Calm(s, q)
Checking ==
  Suited =>
    IF mInSession
      THEN /\ IsSeq(ses.in) /\ IsSeq(late)
           /\ Kept(ses, target, ses.in \o late) /\ Calm(ses, ses.in \o late)
      ELSE ses.error = "none" => ProgrammedIn(target)

LEMMA SaneHeld ==
  ASSUME NEW s, NEW d, Sane(s, d), s.error = "none", IsSeq(late), job.serial => Stray(late),
         ~job.serial => late = <<>>
  PROVE  Held(s, d)
<1> DEFINE a == IF job.serial THEN s.in ELSE <<>>
           q == a \o late
<1>1. Kept(s, d, <<>>) /\ IsSeq(s.in) /\ (job.serial => Stray(s.in))  BY DEF Sane, Muted
<1>2. IsSeq(a) /\ Stray(a) /\ Stray(late)  BY <1>1, NoBytes
<1> HIDE DEF a
<1>3. IsSeq(q) /\ Stray(q)  BY <1>2, StrayParts, JoinedSeqs
<1> HIDE DEF q
<1>4. Kept(s, d, q) /\ Calm(s, q)  BY <1>1, <1>3, StrayKept
<1> QED  BY <1>1, <1>4 DEF Held, q, a

LEMMA MemoryKept ==
  ASSUME NEW d, NEW t, t.flash = d.flash, t.eeprom = d.eeprom
  PROVE  MemoryOf(t) = MemoryOf(d) /\ (ProgrammedIn(d) => ProgrammedIn(t))
BY DEF MemoryOf, ProgrammedIn

LEMMA JobSame ==
  ASSUME job' = job
  PROVE  /\ Suited' <=> Suited
         /\ \A s, d, q : Kept(s, d, q)' <=> Kept(s, d, q)
         /\ \A s, q : Calm(s, q)' <=> Calm(s, q)
         /\ \A d : ProgrammedIn(d)' <=> ProgrammedIn(d)
<1>1. Operation' = Operation /\ TheFile' = TheFile  BY DEF Operation, TheFile
<1>2. Memory' = Memory  BY <1>1 DEF Memory
<1>3. PageWords' = PageWords /\ (Small' <=> Small)  BY <1>2 DEF PageWords, Small
<1>4. VerifiedWords' = VerifiedWords  BY <1>3 DEF VerifiedWords
<1>5. \A d : MemoryOf(d)' = MemoryOf(d)  BY <1>2 DEF MemoryOf
<1>6. \A s, d : Extended(s, d)' <=> Extended(s, d)  BY <1>2 DEF Extended
<1>7. \A s, d : /\ Ready(s, d)' <=> Ready(s, d)
                /\ Announced(s, d)' <=> Announced(s, d)
  BY <1>6 DEF Ready, Announced
<1>8. \A s, d : Going(s, d)' <=> Going(s, d)  BY <1>6, <1>7 DEF Going
<1>9. \A s, d, q : PageAnswer(q, s, d)' <=> PageAnswer(q, s, d)
  <2> SUFFICES ASSUME NEW s, NEW d, NEW q PROVE PageAnswer(q, s, d)' <=> PageAnswer(q, s, d)
    OBVIOUS
  <2> DEFINE P(mem) ==
        \E m \in 0 .. Len(q) :
          /\ \A i \in 1 .. m : q[i] \notin SyncByte
          /\ Len(q) = m + s.words + 2 /\ q[m + 1] = STK_INSYNC
          /\ \A i \in 1 .. s.words : q[m + 1 + i] = mem[s.page + i - 1]
          /\ q[m + s.words + 2] \notin SyncByte
  <2>1. PageAnswer(q, s, d) <=> P(MemoryOf(d))  BY DEF PageAnswer
  <2>2. PageAnswer(q, s, d)' <=> P(MemoryOf(d)')  BY DEF PageAnswer
  <2> HIDE DEF P
  <2> QED  BY <1>5, <2>1, <2>2
<1>10. \A s : Request(s)' = Request(s)  BY <1>2 DEF Request
<1>11. \A d, h : InPlace(d, TheFile, h)' <=> InPlace(d, TheFile, h)  BY <1>1, <1>5 DEF InPlace
<1>12. \A h : Standing(TheFile, h)' <=> Standing(TheFile, h)  BY <1>1
<1>13. \A s, d, q : Check(s, d, q)' <=> Check(s, d, q)
  BY <1>4, <1>6, <1>7, <1>8, <1>9, <1>10, <1>11, <1>12 DEF Check
<1>14. \A d : ProgrammedIn(d)' <=> ProgrammedIn(d)  BY <1>1, <1>5 DEF ProgrammedIn
<1>15. \A h, st : Due(h, st)' <=> Due(h, st)  BY DEF Due
<1>16. \A c : Plain(c)' <=> Plain(c)  BY <1>3 DEF Plain
<1>17. \A s, d : Before(s, d)' <=> Before(s, d)
  BY <1>3, <1>12, <1>15, <1>16 DEF Before
<1>18. \A s, d : Afterwards(s, d)' <=> Afterwards(s, d)  BY <1>14 DEF Afterwards
<1>19. \A s, q : Calm(s, q)' <=> Calm(s, q)  BY DEF Calm
<1>20. Suited' <=> Suited
  BY <1>1, <1>2, <1>4 DEF Suited, Suits
<1> QED  BY <1>13, <1>14, <1>17, <1>18, <1>19, <1>20 DEF Kept

LEMMA CheckingSame ==
  ASSUME job' = job,
         Suited => IF mInSession' THEN /\ IsSeq(ses'.in) /\ IsSeq(late')
                                       /\ Kept(ses', target', ses'.in \o late')
                                       /\ Calm(ses', ses'.in \o late')
                   ELSE ses'.error = "none" => ProgrammedIn(target')
  PROVE  Checking'
<1> DEFINE s == ses'
           d == target'
           q == ses'.in \o late'
<1>1. (Kept(ses, target, ses.in \o late))' <=> Kept(s, d, q)  BY JobSame
<1> QED  BY JobSame DEF Checking

LEMMA LoopChecking ==
  ASSUME NEW s, IInv, Configuring, Checking, mInSession, Loop(s), DOMAIN s = SessionField,
         Suited /\ s.error = "none" =>
           Held(s, target) \/ (s.stage = "SessionCompleted" /\ ProgrammedIn(target))
  PROVE  Checking'
<1> DEFINE a == IF job.serial THEN s.in ELSE <<>>
<1>1. /\ mInSession' = CanContinue(s) /\ job' = job /\ late' = late
      /\ CanContinue(s) => target' = target /\ ses' = [s EXCEPT !.in = a]
      /\ ~CanContinue(s) => target' = LeaveProgMode(target)
                            /\ ses' = [Halt(s) EXCEPT !.in = <<>>, !.out = <<>>, !.timing = FALSE]
  BY DEF Loop
<1> SUFFICES ASSUME Suited
             PROVE  IF mInSession' THEN /\ IsSeq(ses'.in) /\ IsSeq(late')
                                        /\ Kept(ses', target', ses'.in \o late')
                                        /\ Calm(ses', ses'.in \o late')
                    ELSE ses'.error = "none" => ProgrammedIn(target')
  BY <1>1, CheckingSame
<1>2. CASE CanContinue(s)
  <2> DEFINE t == [s EXCEPT !.in = a]
             q == a \o late
  <2>1. s.error = "none" /\ s.stage # "SessionCompleted"  BY <1>2 DEF CanContinue
  <2>2. IsSeq(s.in) /\ Kept(s, target, q) /\ Calm(s, q)  BY <2>1 DEF Held
  <2>3. Like(s, t) /\ t.in = a  BY DEF SessionField, Like, Alike
  <2>4. IsSeq(a)  BY <2>2, NoBytes
  <2>5. IsSeq(late)  BY DEF Checking
  <2>6. ses' = t /\ target' = target /\ late' = late /\ mInSession'  BY <1>1, <1>2
  <2> HIDE DEF t, a
  <2>7. Kept(t, target, q) /\ Calm(t, q)  BY <2>2, <2>3, LikeKeeps
  <2> QED  BY <2>3, <2>4, <2>5, <2>6, <2>7
<1>3. CASE ~CanContinue(s)
  <2>1. ses'.error = s.error  BY <1>1, <1>3 DEF SessionField, Halt
  <2>2. s.error = "none" => ProgrammedIn(target)
    <3>1. s.error = "none" => s.stage = "SessionCompleted"  BY <1>3 DEF CanContinue
    <3>2. Held(s, target) => s.stage # "SessionCompleted"  BY KeptStage DEF Held
    <3> QED  BY <3>1, <3>2
  <2>3. ProgrammedIn(target) => ProgrammedIn(LeaveProgMode(target))
    <3>1. LeaveProgMode(target).flash = target.flash /\ LeaveProgMode(target).eeprom = target.eeprom
      BY DEF IInv, Chip, ChipField, LeaveProgMode
    <3> QED  BY <3>1, MemoryKept
  <2>4. ~mInSession' /\ target' = LeaveProgMode(target)  BY <1>1, <1>3 DEF CanContinue
  <2> QED  BY <2>1, <2>2, <2>3, <2>4
<1> QED  BY <1>2, <1>3

LEMMA HeardFields ==
  ASSUME IInv, mInSession
  PROVE  /\ Like(ses, Heard) /\ DOMAIN Heard = SessionField
         /\ Heard.in = IF ses.in = <<>> THEN <<>> ELSE Tail(ses.in)
<1> DEFINE u == [Read(ses) EXCEPT !.timing = FALSE]
<1>1. DOMAIN ses = SessionField  BY DEF IInv, Session
<1>2. Like(ses, u) /\ DOMAIN u = SessionField /\ u.in = IF ses.in = <<>> THEN <<>> ELSE Tail(ses.in)
  BY <1>1 DEF SessionField, Read, Like, Alike
<1> HIDE DEF u
<1> QED  BY <1>2 DEF Heard, u

(* The bytes on their way, and behind the first of them.                   *)
LEMMA FirstByte ==
  ASSUME NEW a, IsSeq(a), a # <<>>, NEW b, IsSeq(b)
  PROVE  /\ IsSeq(a \o b) /\ a \o b # <<>> /\ Head(a) = (a \o b)[1]
         /\ IsSeq(Tail(a)) /\ Tail(a) \o b = Tail(a \o b)
         /\ Stray(a \o b) => Head(a) \notin SyncByte
         /\ Once(a \o b) /\ Head(a) \in SyncByte => Stray(Tail(a)) /\ Stray(b)
<1> DEFINE q == a \o b
<1>1. IsSeq(q) /\ q # <<>> /\ Head(a) = q[1] /\ IsSeq(Tail(a)) /\ Tail(a) \o b = Tail(q)
  <2>1. IsSeq(q)  BY JoinedSeqs, Zenon
  <2>2. IsSeq(Tail(a))  BY TailSeq, Zenon
  <2>3. Tail(a) \o b = Tail(q) /\ q # <<>> /\ Head(a) = q[1]  BY TailJoined, Zenon
  <2> QED  BY <2>1, <2>2, <2>3
<1> HIDE DEF q
<1>2. Stray(q) => q[1] \notin SyncByte  BY <1>1, ByteRead
<1>3. ASSUME Once(q), Head(a) \in SyncByte PROVE Stray(Tail(a)) /\ Stray(b)
  <2>1. Stray(Tail(q))  BY <1>1, <1>3, ByteRead
  <2>2. Stray(Tail(a) \o b)  BY <1>1, <2>1
  <2> QED  BY <1>1, <2>2, StrayParts
<1> QED  BY <1>1, <1>2, <1>3 DEF q

Quiet == job.serial => Stray(late)

(* When an answer begins, its command has been read; and nothing behind    *)
(* this byte will be taken for another one, but in a page.                 *)
LEMMA AnswerBegins ==
  ASSUME IInv, Checking, Suited, mInSession, ses.in # <<>>, Head(ses.in) \in SyncByte
  PROVE  /\ ses.out = <<>> /\ IsSeq(Heard.in)
         /\ (Muted(Heard) /\ Quiet) \/ (Verifying(ses) /\ ses.handler = "ProcessPage")
         /\ Once(ses.in \o late) => Muted(Heard) /\ Quiet
<1> DEFINE q == ses.in \o late
<1>1. IsSeq(ses.in) /\ IsSeq(late) /\ Calm(ses, q)  BY DEF Checking
<1>2. /\ IsSeq(Tail(ses.in)) /\ ~Stray(q)
      /\ Once(q) => Stray(Tail(ses.in)) /\ Stray(late)
  BY <1>1, FirstByte
<1> HIDE DEF q
<1>3. Heard.in = Tail(ses.in)  BY HeardFields
<1>4. ses.out = <<>>  BY <1>1, <1>2 DEF Calm
<1>5. Once(q) => Muted(Heard) /\ Quiet  BY <1>2, <1>3 DEF Muted, Quiet
<1>6. ~job.serial => Muted(Heard) /\ Quiet  BY <1>2, <1>3 DEF Muted, Quiet
<1> QED  BY <1>1, <1>2, <1>3, <1>4, <1>5, <1>6 DEF Calm, q

LEMMA LikeWaits ==
  ASSUME NEW s, NEW t, Like(s, t), NEW d
  PROVE  /\ Waited(t) = Waited(s) /\ (Verifying(t) <=> Verifying(s))
         /\ Base(s, d) => Base(t, d)
         /\ Waits(s, d) => Waits(t, d)
<1>1. Waited(t) = Waited(s) /\ (Verifying(t) <=> Verifying(s))
  BY DEF Like, Alike, Waited, Verifying
<1> QED  BY <1>1, AlikeKeeps DEF Like, Waits

(* Before and after verification.                                          *)
LEMMA OutsideHeard ==
  ASSUME NEW s, NEW d, NEW h, Like(s, h), Session(h), h.error = "none", Muted(h)
  PROVE  /\ Before(s, d) => Preparing(h, d)
         /\ Afterwards(s, d) => Settled(h, d)
BY DEF Like, Alike, Before, Afterwards, Preparing, Readies, Settled, Waited

LEMMA BeforeVerifies ==
  ASSUME NEW s, NEW d
  PROVE  /\ Before(s, d) => ~Verifying(s)
         /\ Afterwards(s, d) => s.handler # "ProcessPage"
         /\ \A q : Check(s, d, q) => Base(s, d)
BY DEF Before, Due, Verifying, Afterwards, Waited, Last, Check, Base

(* The answer to a command of verification begins.                         *)
LEMMA CommandHeeded ==
  ASSUME IInv, NEW s, NEW d, NEW q, Check(s, d, q), IsSeq(q), q # <<>>, q[1] = STK_INSYNC, s.out = <<>>,
         s.handler # "ProcessPage", NEW h, Like(s, h), Muted(h)
  PROVE  Heeded(h, d)
<1>1. ~Refused(q)  BY ByteRead
<1>2. Base(s, d) /\ Waited(s) \in FileStep  BY DEF Check, Base
<1>3. Base(h, d) /\ Waited(h) \in FileStep /\ h.out = <<>> /\ h.handler = s.handler
  BY <1>2, LikeWaits DEF Like
<1>4. Waits(s, d)  BY DEF Check, Waits, Waited
<1>5. Waits(h, d)  BY <1>4, LikeWaits
<1>6. s.handler = "LoadExtAddress" => Extended(s, d)
  BY <1>1 DEF Check, Sent, Waited
<1>7. s.handler = "LoadAddress" => Ready(s, d)
  BY <1>1 DEF Check, Sent, Waited, Ready
<1>8. (h.handler = "LoadExtAddress" => Extended(h, d)) /\ (h.handler = "LoadAddress" => Ready(h, d))
  BY <1>3, <1>6, <1>7, AlikeKeeps DEF Like
<1> QED  BY <1>3, <1>5, <1>8 DEF Heeded, Muted

(* The page asked for arrives, or a part of it.                            *)
LEMMA PageHeeded ==
  ASSUME NEW s, s.words \in Nat, NEW d, NEW a, IsSeq(a), a # <<>>, NEW b, IsSeq(b),
         Check(s, d, a \o b), Head(a) = STK_INSYNC, s.out = <<>>, s.handler = "ProcessPage",
         NEW h, Like(s, h), h.in = Tail(a)
  PROVE  Heeded(h, d) /\ (Len(h.in) >= h.words => Stray(b))
<1> DEFINE q == a \o b
           n == Len(h.in)
           w == s.words
           m == Len(b)
<1>1. /\ IsSeq(q) /\ q # <<>> /\ q[1] = STK_INSYNC /\ IsSeq(h.in)
      /\ ~Stray(q) /\ ~Refused(q)
  <2>1. IsSeq(q) /\ q # <<>> /\ Head(a) = q[1]  BY FirstByte, Zenon
  <2>2. IsSeq(Tail(a))  BY FirstByte, Zenon
  <2> HIDE DEF q
  <2>3. (Stray(q) => q[1] \notin SyncByte) /\ (Refused(q) => q[1] # STK_INSYNC)
    BY <2>1, ByteRead
  <2> QED  BY <2>1, <2>2, <2>3, SyncBytes
<1>2. Check(s, d, q)  OBVIOUS
<1>3. /\ n \in Nat /\ m \in Nat /\ w \in Nat /\ Len(q) = n + 1 + m
      /\ \A i \in 1 .. n : h.in[i] = q[i + 1]
      /\ \A j \in 1 .. m : b[j] = q[n + 1 + j]
  <2>1. /\ Len(a) \in Nat \ {0} /\ n = Len(a) - 1 /\ \A i \in 1 .. Len(a) - 1 : h.in[i] = a[i + 1]
    BY TailSeq
  <2>2. /\ m \in Nat /\ Len(q) = Len(a) + m
        /\ \A i \in 1 .. Len(a) : q[i] = a[i]
        /\ \A i \in 1 .. m : q[Len(a) + i] = b[i]
    BY JoinedSeqs
  <2> HIDE DEF q, n, m
  <2>3. \A i \in 1 .. n : i + 1 \in 1 .. Len(a)  BY <2>1
  <2>4. n \in Nat /\ n + 1 = Len(a)  BY <2>1
  <2>5. \A i \in 1 .. n : h.in[i] = q[i + 1]  BY <2>1, <2>2, <2>3
  <2>6. \A j \in 1 .. m : b[j] = q[n + 1 + j]  BY <2>2, <2>4
  <2> QED  BY <2>2, <2>4, <2>5, <2>6
<1> HIDE DEF q
<1>4. Base(s, d) /\ Waited(s) = "ProcessPage"  BY <1>2 DEF Check, Base, Waited
<1>5. AtHand(s) /\ Extended(s, d) /\ PageAnswer(q, s, d)
  BY <1>1, <1>2, <1>4 DEF Check
<1>6. PageReply(q, s, d)  BY <1>1, <1>5, PageByteRead, SyncBytes
<1> HIDE DEF n, m
<1>7. /\ n + 1 + m = w + 2
      /\ \A i \in 1 .. w : q[1 + i] = MemoryOf(d)[s.page + i - 1]
      /\ q[w + 2] \notin SyncByte
  BY <1>3, <1>6 DEF PageReply, w
<1> HIDE DEF w
<1>8. \A i \in 1 .. w : i <= n => h.in[i] = MemoryOf(d)[s.page + i - 1]
  <2> SUFFICES ASSUME NEW i \in 1 .. w, i <= n PROVE h.in[i] = MemoryOf(d)[s.page + i - 1]  OBVIOUS
  <2>1. i \in 1 .. n /\ i + 1 = 1 + i  BY <1>3
  <2> QED  BY <1>3, <1>7, <2>1
<1>9. \A i \in 1 .. n : i > w => h.in[i] \notin SyncByte
  <2> SUFFICES ASSUME NEW i \in 1 .. n, i > w PROVE h.in[i] \notin SyncByte  OBVIOUS
  <2>1. i + 1 = w + 2  BY <1>3, <1>7
  <2> QED  BY <1>3, <1>7, <2>1
<1>10. n >= w => Stray(b)
  <2> SUFFICES ASSUME n >= w, NEW j \in 1 .. m PROVE b[j] \notin SyncByte  BY DEF Stray, m
  <2>1. n + 1 + j = w + 2  BY <1>3, <1>7
  <2> QED  BY <1>3, <1>7, <2>1
<1>11. /\ Base(h, d) /\ AtHand(h) /\ Extended(h, d) /\ Waited(h) \in FileStep /\ h.out = <<>>
       /\ h.handler = "ProcessPage" /\ h.page = s.page /\ h.words = w
  <2>1. Base(h, d) /\ AtHand(h) /\ Extended(h, d)  BY <1>4, <1>5, AlikeKeeps DEF Like
  <2>2. h.out = <<>> /\ h.handler = "ProcessPage" /\ h.page = s.page /\ h.words = w
    BY DEF Like, Alike, w
  <2> QED  BY <2>1, <2>2 DEF Waited, FileStep
<1>12. Heeded(h, d)  BY <1>1, <1>8, <1>9, <1>11 DEF Heeded, n
<1> QED  BY <1>10, <1>11, <1>12 DEF n

(* The session a handler is called with.                                   *)
LEMMA HeardKept ==
  ASSUME IInv, Configuring, Checking, Suited, Received(STK_INSYNC)
  PROVE  /\ Heard.out = <<>>
         /\ \/ Preparing(Heard, target) /\ Quiet
            \/ Settled(Heard, target) /\ Quiet
            \/ Heeded(Heard, target) /\ (Quiet \/ (Heard.handler = "ProcessPage"
                                                   /\ (Len(Heard.in) >= Heard.words => Quiet)))
<1> DEFINE s == ses
           h == Heard
           d == target
           q == s.in \o late
<1>1. mInSession /\ s.in # <<>> /\ Head(s.in) = STK_INSYNC  BY DEF Received
<1>2. /\ IsSeq(s.in) /\ IsSeq(late) /\ Kept(s, d, q)  BY <1>1 DEF Checking
<1>3. /\ s.out = <<>>
      /\ (Muted(h) /\ Quiet) \/ (Verifying(s) /\ s.handler = "ProcessPage")
  BY <1>1, AnswerBegins, SyncBytes
<1>4. Like(s, h) /\ h.in = Tail(s.in) /\ Session(h) /\ h.error = "none"
  BY <1>1, HeardFields, HeardGood
<1>5. s.words \in Nat
  <2>1. s.words \in PageSize  BY DEF IInv, Session
  <2> QED  BY <2>1, PageAssumption DEF PageSize
<1>6. IsSeq(q) /\ q # <<>> /\ q[1] = STK_INSYNC  BY <1>1, <1>2, FirstByte
<1> HIDE DEF h, q
<1>7. h.out = <<>> /\ h.handler = s.handler  BY <1>3, <1>4 DEF Like
<1>8. Before(s, d) => Preparing(h, d) /\ Quiet  BY <1>3, <1>4, OutsideHeard, BeforeVerifies
<1>9. Afterwards(s, d) => Settled(h, d) /\ Quiet  BY <1>3, <1>4, OutsideHeard, BeforeVerifies
<1>10. ASSUME Check(s, d, q), s.handler # "ProcessPage" PROVE Heeded(h, d) /\ Quiet
  BY <1>3, <1>4, <1>6, <1>10, CommandHeeded
<1>11. ASSUME Check(s, d, q), s.handler = "ProcessPage"
       PROVE  Heeded(h, d) /\ (Len(h.in) >= h.words => Quiet)
  BY <1>1, <1>2, <1>3, <1>4, <1>5, <1>11, PageHeeded DEF Quiet, q
<1> QED  BY <1>2, <1>7, <1>8, <1>9, <1>10, <1>11 DEF Kept, h

(* In one of the three parts of a session an answer is handled.            *)
Informed(s, d) ==
  Good(s, job) /\ s.error = "none" /\ s.out = <<>> /\ (Preparing(s, d) \/ Settled(s, d) \/ Heeded(s, d))

LEMMA HandlersSane ==
  ASSUME job \in Job, Suited, NEW s, NEW d, Informed(s, d)
  PROVE  /\ s.handler = "GetSync" => Sane(OnGetSync(s), d)
         /\ s.handler = "SetDevice" => Sane(OnSetDevice(s), d)
         /\ s.handler = "SetDeviceExt" => Sane(OnSetDeviceExt(s), d)
         /\ s.handler = "EnterProgramMode" => Sane(OnEnterProgramMode(s), d)
         /\ s.handler = "LeaveProgramMode" =>
              Sane(OnLeaveProgramMode(s), d)
              \/ (OnLeaveProgramMode(s).stage = "SessionCompleted" /\ ProgrammedIn(d))
         /\ s.handler = "ReadSignature" => Sane(OnReadSignature(s), d)
         /\ s.handler = "ChipErase" => Sane(OnChipErase(s), d)
         /\ s.handler = "VerifyUnlocked" => Sane(OnVerifyUnlocked(s), d)
         /\ s.handler = "VerifyFuse" => Sane(OnVerifyFuse(s), d)
         /\ s.handler = "VerifyLockBits" => Sane(OnVerifyLockBits(s), d)
         /\ s.handler = "LoadAddress" => Sane(OnLoadAddress(s), d)
         /\ s.handler = "LoadExtAddress" => Sane(OnLoadExtAddress(s), d)
         /\ s.handler = "ProcessPage" => Sane(OnProcessPage(s), d)
<1>1. Good(s, job) /\ s.error = "none" /\ s.out = <<>>  BY DEF Informed
<1>2. CASE Preparing(s, d)
  <2>1. s.handler \notin Last  BY <1>2 DEF Preparing, Due, Waited, Last
  <2>2. s.handler # "LeaveProgramMode" /\ s.handler # "VerifyLockBits"  BY <2>1 DEF Last
  <2>3. /\ s.handler = "GetSync" => Sane(OnGetSync(s), d)
        /\ s.handler = "SetDevice" => Sane(OnSetDevice(s), d)
        /\ s.handler = "SetDeviceExt" => Sane(OnSetDeviceExt(s), d)
        /\ s.handler = "EnterProgramMode" => Sane(OnEnterProgramMode(s), d)
        /\ s.handler = "LoadAddress" => Sane(OnLoadAddress(s), d)
        /\ s.handler = "ProcessPage" => Sane(OnProcessPage(s), d)
    BY <1>1, <1>2, BeforeHandlers
  <2>4. /\ s.handler = "ReadSignature" => Sane(OnReadSignature(s), d)
        /\ s.handler = "ChipErase" => Sane(OnChipErase(s), d)
        /\ s.handler = "VerifyUnlocked" => Sane(OnVerifyUnlocked(s), d)
        /\ s.handler = "VerifyFuse" => Sane(OnVerifyFuse(s), d)
        /\ s.handler = "LoadExtAddress" => Sane(OnLoadExtAddress(s), d)
    BY <1>1, <1>2, BeforeByteHandlers
  <2> QED  BY <2>2, <2>3, <2>4
<1>3. CASE Settled(s, d)
  <2>1. s.handler \in Last \cup {"GetSync"} /\ ProgrammedIn(d)  BY <1>3 DEF Settled, Waited
  <2> QED  BY <1>1, <1>3, <2>1, AfterHandlers DEF Last
<1>4. CASE Heeded(s, d)
  <2>1. s.handler \in FileStep \cup {"GetSync"}  BY <1>4 DEF Heeded, Waited
  <2> QED  BY <1>1, <1>4, <2>1, CheckHandlers, CheckProcessPage DEF FileStep
<1> QED  BY <1>2, <1>3, <1>4 DEF Informed

(* A page is not taken for verified before all of it is there.             *)
LEMMA WholePage ==
  ASSUME job \in Job, Suited, NEW s, Good(s, job), s.error = "none", NEW d, Heeded(s, d),
         s.handler = "ProcessPage", OnProcessPage(s).error = "none"
  PROVE  Len(s.in) >= s.words
<1> DEFINE t == WithRecord(s)
           u == VerifiedPage(s)
           X(y) == IF y.error # "none" THEN y ELSE ResponseStatusOK(y, SendProcessPage)
           W(x) == IF x.error # "none" THEN x
                   ELSE IF x.hex.type = "eof" THEN EndOfFile(x)
                   ELSE With(IF Verifying(x) THEN VerifiedPage(x) ELSE x, LAMBDA y :
                          IF y.error # "none" THEN y ELSE ResponseStatusOK(y, SendProcessPage))
<1>1. Session(s) /\ HasFile(job) /\ Verifying(s) /\ InHand(s.hex) /\ IsSeq(s.in)
  BY SuitedFile DEF Good, Heeded, Base, AtHand
<1>2. t = s  BY <1>1, RecordTaken DEF Session
<1>3. OnProcessPage(s) = W(t)
  <2>1. With(t, W) = W(t)
    <3> HIDE DEF W
    <3> QED  BY Zenon DEF With
  <2>2. OnProcessPage(s) = With(t, W)  BY Zenon DEF OnProcessPage
  <2> QED  BY <2>1, <2>2
<1>4. W(s) = With(u, X)
  <2>1. s.hex.type # "eof"  BY <1>1 DEF InHand
  <2> QED  BY <1>1, <2>1, Zenon
<1>5. With(u, X) = X(u)
  <2> HIDE DEF X, u
  <2> QED  BY Zenon DEF With
<1>6. OnProcessPage(s) = X(u)
  <2> HIDE DEF W, X, t, u
  <2> QED  BY <1>2, <1>3, <1>4, <1>5
<1> HIDE DEF W, t, u
<1>7. u.error = "none"  BY <1>6
<1> QED  BY <1>1, <1>7, PageCompared DEF u

(* What one turn of loop() makes of the session, before it looks whether   *)
(* the session goes on.                                                    *)
Fine(s) ==
  /\ DOMAIN s = SessionField
  /\ Suited /\ s.error = "none" =>
       Held(s, target) \/ (s.stage = "SessionCompleted" /\ ProgrammedIn(target))

LEMMA HandledFine ==
  ASSUME IInv, Configuring, Checking, Received(STK_INSYNC), NEW s, Good(s, job),
         Suited => Sane(s, target) \/ (s.stage = "SessionCompleted" /\ ProgrammedIn(target)),
         Suited => Quiet \/ s.error # "none"
  PROVE  Fine(s)
<1>1. DOMAIN s = SessionField  BY DEF Good, Session
<1>2. ASSUME Suited, s.error = "none", Sane(s, target) PROVE Held(s, target)
  <2>1. IsSeq(late) /\ (~job.serial => late = <<>>) /\ (job.serial => Stray(late))
    BY <1>2 DEF Checking, Configuring, Received, Quiet
  <2> QED  BY <1>2, <2>1, SaneHeld
<1> QED  BY <1>1, <1>2 DEF Fine

LEMMA HeardInformed ==
  ASSUME IInv, Configuring, Checking, Suited, Received(STK_INSYNC)
  PROVE  /\ Informed(Heard, target)
         /\ Heard.handler # "ProcessPage" => Quiet
         /\ Heard.handler = "ProcessPage" => Quiet \/ OnProcessPage(Heard).error # "none"
<1>1. mInSession /\ job \in Job  BY DEF Received, IInv
<1>2. Good(Heard, job) /\ Heard.error = "none"  BY <1>1, HeardGood
<1>3. Informed(Heard, target)  BY <1>2, HeardKept DEF Informed
<1>4. Heard.handler # "ProcessPage" => Quiet  BY HeardKept
<1>5. ASSUME Heard.handler = "ProcessPage", OnProcessPage(Heard).error = "none" PROVE Quiet
  <2>1. Heeded(Heard, target) => Len(Heard.in) >= Heard.words  BY <1>1, <1>2, <1>5, WholePage
  <2> QED  BY <2>1, HeardKept
<1> QED  BY <1>3, <1>4, <1>5

(* STK_NOSYNC: the command is not understood, whatever it was.             *)
LEMMA NoSyncSane ==
  ASSUME IInv, Checking, Suited, Received(STK_NOSYNC),
         NEW k, Like(Heard, k), Session(k), k.error = "none", k.in = Heard.in
  PROVE  Sane(SendGetSync(k), target) /\ Quiet
<1> DEFINE s == ses
           d == target
           q == s.in \o late
<1>1. mInSession /\ s.in # <<>> /\ Head(s.in) = STK_NOSYNC  BY DEF Received
<1>2. IsSeq(s.in) /\ IsSeq(late) /\ Kept(s, d, q)  BY <1>1 DEF Checking
<1>3. /\ s.out = <<>> /\ IsSeq(Heard.in)
      /\ (Muted(Heard) /\ Quiet) \/ (Verifying(s) /\ s.handler = "ProcessPage")
      /\ Once(q) => Muted(Heard) /\ Quiet
  BY <1>1, AnswerBegins, SyncBytes
<1>4. Like(s, k)  BY <1>1, HeardFields DEF Like, Alike
<1>5. Muted(Heard) => Muted(k)  BY DEF Muted
<1>6. IsSeq(q) /\ q # <<>> /\ q[1] = STK_NOSYNC  BY <1>1, <1>2, FirstByte
<1>7. s.words \in Nat
  <2>1. s.words \in PageSize  BY DEF IInv, Session
  <2> QED  BY <2>1, PageAssumption DEF PageSize
<1>8. DOMAIN k = SessionField  BY DEF Session
<1> HIDE DEF q
<1>9. ASSUME Before(s, d) PROVE Sane(SendGetSync(k), d) /\ Quiet
  <2>1. Muted(k) /\ Quiet  BY <1>3, <1>5, <1>9, BeforeVerifies
  <2>2. Preparing(k, d)  BY <1>4, <1>9, <2>1, OutsideHeard
  <2> QED  BY <2>1, <2>2, ReadPreparing
<1>10. ASSUME Afterwards(s, d) PROVE Sane(SendGetSync(k), d) /\ Quiet
  <2>1. Muted(k) /\ Quiet  BY <1>3, <1>5, <1>10, BeforeVerifies
  <2>2. Settled(k, d)  BY <1>4, <1>10, <2>1, OutsideHeard
  <2> QED  BY <2>1, <2>2, ReadSettled
<1>11. ASSUME Check(s, d, q) PROVE Sane(SendGetSync(k), d) /\ Quiet
  <2>1. Base(s, d) /\ Base(k, d)  BY <1>4, <1>11, BeforeVerifies, LikeWaits
  <2>2. s.handler # "ProcessPage" => Waits(s, d)  BY <1>3, <1>11 DEF Check, Waits, Waited
  <2>3. ASSUME s.handler = "ProcessPage" PROVE Waits(s, d) /\ Once(q)
    <3>1. ~Stray(q)  BY <1>6, ByteRead, SyncBytes
    <3>2. ~PageAnswer(q, s, d)
      <4>1. PageAnswer(q, s, d) => PageReply(q, s, d)  BY <1>6, <1>7, PageByteRead, SyncBytes
      <4>2. PageReply(q, s, d) => q[1] = STK_INSYNC  BY DEF PageReply
      <4> QED  BY <1>6, <4>1, <4>2, SyncBytes
    <3>3. Waited(s) = "ProcessPage"  BY <2>3 DEF Waited
    <3>4. Refused(q) /\ Going(s, d)  BY <1>3, <1>11, <2>3, <3>1, <3>2, <3>3 DEF Check
    <3> QED  BY <3>3, <3>4 DEF Waits, Refused
  <2>4. Muted(k) /\ Quiet  BY <1>3, <1>5, <2>3
  <2>5. Waits(k, d)  BY <1>4, <2>2, <2>3, LikeWaits
  <2> QED  BY <1>8, <2>1, <2>4, <2>5, CheckSync DEF Sane, Kept
<1> QED  BY <1>2, <1>9, <1>10, <1>11 DEF Kept

LEMMA FrameErrorFine ==
  ASSUME IInv, Configuring, Checking, Received(FrameError)
  PROVE  Fine(Heard)
<1> DEFINE s == ses
           d == target
           h == Heard
           q == s.in \o late
<1>1. mInSession /\ s.in # <<>> /\ Head(s.in) = FrameError  BY DEF Received
<1>2. Like(s, h) /\ DOMAIN h = SessionField /\ h.in = Tail(s.in)  BY <1>1, HeardFields
<1>3. SUFFICES ASSUME Suited PROVE Held(h, d)  BY <1>2 DEF Fine
<1>4. IsSeq(s.in) /\ IsSeq(late) /\ Kept(s, d, q) /\ Calm(s, q)  BY <1>1, <1>3 DEF Checking
<1>5. /\ IsSeq(q) /\ q # <<>> /\ q[1] \notin SyncByte /\ IsSeq(h.in) /\ h.in \o late = Tail(q)
  BY <1>1, <1>2, <1>4, FirstByte, SyncBytes
<1>6. s.words \in Nat
  <2>1. s.words \in PageSize  BY DEF IInv, Session
  <2> QED  BY <2>1, PageAssumption DEF PageSize
<1> HIDE DEF q, h
<1>7. CASE job.serial
  <2>1. Kept(s, d, Tail(q)) /\ Calm(s, Tail(q))  BY <1>4, <1>5, <1>6, TailKept
  <2>2. Kept(h, d, Tail(q)) /\ Calm(h, Tail(q))  BY <1>2, <2>1, LikeKeeps
  <2> QED  BY <1>5, <1>7, <2>2 DEF Held
<1>8. CASE ~job.serial
  <2>1. <<>> \o late = <<>>
    <3>1. late = <<>>  BY <1>8 DEF Configuring
    <3> QED  BY <3>1
  <2>2. Kept(s, d, <<>>) /\ Calm(s, <<>>)  BY <1>4, NoBytes, StrayKept
  <2>3. Kept(h, d, <<>>) /\ Calm(h, <<>>)  BY <1>2, <2>2, LikeKeeps
  <2> QED  BY <1>5, <1>8, <2>1, <2>3 DEF Held
<1> QED  BY <1>7, <1>8

LEMMA TimerFine ==
  ASSUME IInv, Checking, Silent, NEW b
  PROVE  Fine([ses EXCEPT !.timing = b])
<1> DEFINE u == [ses EXCEPT !.timing = b]
<1>1. mInSession /\ ses.in = <<>> /\ DOMAIN ses = SessionField  BY DEF Silent, IInv, Session
<1>2. Like(ses, u) /\ DOMAIN u = SessionField /\ u.in = <<>>  BY <1>1 DEF SessionField, Like, Alike
<1> HIDE DEF u
<1>3. SUFFICES ASSUME Suited PROVE Held(u, target)  BY <1>2 DEF Fine, u
<1>4. IsSeq(late) /\ Kept(ses, target, ses.in \o late) /\ Calm(ses, ses.in \o late)  BY <1>1, <1>3 DEF Checking
<1>5. Kept(u, target, ses.in \o late) /\ Calm(u, ses.in \o late)  BY <1>2, <1>4, LikeKeeps
<1>6. (IF job.serial THEN u.in ELSE <<>>) \o late = ses.in \o late  BY <1>1, <1>2
<1> QED  BY <1>2, <1>4, <1>5, <1>6, NoBytes DEF Held

LEMMA NoSyncFine ==
  ASSUME IInv, Configuring, Checking, Received(STK_NOSYNC),
         NEW k, k = [Heard EXCEPT !.retries = @ + 1], ses.retries < SyncRetries
  PROVE  Fine(SendGetSync(k))
<1> DEFINE h == Heard
<1>1. mInSession  BY DEF Received
<1>2. Good(h, job) /\ Session(h) /\ h.error = "none" /\ h.retries = ses.retries  BY <1>1, HeardGood
<1>3. /\ DOMAIN k = SessionField /\ k.out = h.out /\ k.handler = h.handler
      /\ k.onSync = h.onSync /\ k.stage = h.stage /\ k.error = h.error /\ k.in = h.in
      /\ k.modifier = h.modifier /\ k.retries = h.retries + 1 /\ k.hex = h.hex /\ k.words = h.words
      /\ k.page = h.page /\ k.bank = h.bank
  BY <1>2 DEF Session, SessionField
<1> HIDE DEF h
<1>4. h.retries + 1 \in 0 .. SyncRetries  BY <1>2, BoundAssumption DEF Session
<1>5. Session(k)  BY <1>2, <1>3, <1>4 DEF Session
<1>6. Good(k, job)  BY <1>2, <1>3, <1>5 DEF Good, Fits, Sends, Waited
<1>7. Like(h, k)  BY <1>3 DEF Like, Alike
<1>8. DOMAIN SendGetSync(k) = SessionField /\ SendGetSync(k).error = "none"
  BY <1>2, <1>3, <1>6, SendGetSyncGood DEF Good, Session
<1>9. ASSUME Suited PROVE Held(SendGetSync(k), target)
  <2>1. Sane(SendGetSync(k), target) /\ Quiet  BY <1>2, <1>3, <1>5, <1>7, <1>9, NoSyncSane DEF h
  <2>2. IsSeq(late) /\ (~job.serial => late = <<>>) /\ (job.serial => Stray(late))
    BY <1>1, <1>9, <2>1 DEF Checking, Configuring, Quiet
  <2> QED  BY <1>8, <2>1, <2>2, SaneHeld
<1> QED  BY <1>8, <1>9 DEF Fine

LEMMA FailFine ==
  ASSUME NEW s, DOMAIN s = SessionField, NEW e \in Error \ {"none"}
  PROVE  Fine(Fail(s, e))
BY DEF SessionField, Fail, Fine

LEMMA UpdateChecking ==
  ASSUME IInv, Configuring, Checking, Update
  PROVE  Checking'
<1>1. mInSession
  BY DEF Update, HandleGetSync, HandleSetDevice, HandleSetDeviceExt, HandleEnterProgramMode,
         HandleLeaveProgramMode, HandleReadSignature, HandleChipErase, HandleVerifyUnlocked,
         HandleVerifyFuse, HandleVerifyLockBits, HandleLoadAddress, HandleLoadExtAddress,
         HandleProcessPage, HandleNoSync, HandleFrameError, HandleUnknown, StartTimer, TimerPasses,
         Handle, Received, Silent
<1>2. job \in Job /\ Begins(job) /\ DOMAIN ses = SessionField  BY <1>1 DEF IInv, Running, Session
<1> DEFINE h == Heard
<1>3. Good(h, job) /\ h.error = "none" /\ h.handler = ses.handler /\ DOMAIN h = SessionField
  BY <1>1, HeardGood, HeardFields
<1> HIDE DEF h
<1>4. ASSUME \E s : Fine(s) /\ Loop(s) PROVE Checking'
  BY <1>1, <1>4, LoopChecking DEF Fine
<1>5. ASSUME NEW s, Good(s, job), Received(STK_INSYNC), Loop(s),
             Suited => Sane(s, target) \/ (s.stage = "SessionCompleted" /\ ProgrammedIn(target)),
             Suited => Quiet \/ s.error # "none"
      PROVE  Checking'
  BY <1>4, <1>5, HandledFine
<1>6. ASSUME Received(STK_INSYNC), Suited
      PROVE  /\ Informed(h, target)
             /\ h.handler # "ProcessPage" => Quiet
             /\ h.handler = "ProcessPage" => Quiet \/ OnProcessPage(h).error # "none"
  BY <1>6, HeardInformed DEF h
<1>7. ASSUME HandleGetSync PROVE Checking'
  <2>1. Received(STK_INSYNC) /\ h.handler = "GetSync" /\ Loop(OnGetSync(h))
    BY <1>3, <1>7 DEF HandleGetSync, Handle, h
  <2> QED  BY <1>2, <1>3, <1>5, <1>6, <2>1, StatusHandlersGood, HandlersSane
<1>8. ASSUME HandleSetDevice PROVE Checking'
  <2>1. Received(STK_INSYNC) /\ h.handler = "SetDevice" /\ Loop(OnSetDevice(h))
    BY <1>3, <1>8 DEF HandleSetDevice, Handle, h
  <2> QED  BY <1>2, <1>3, <1>5, <1>6, <2>1, StatusHandlersGood, HandlersSane
<1>9. ASSUME HandleSetDeviceExt PROVE Checking'
  <2>1. Received(STK_INSYNC) /\ h.handler = "SetDeviceExt" /\ Loop(OnSetDeviceExt(h))
    BY <1>3, <1>9 DEF HandleSetDeviceExt, Handle, h
  <2> QED  BY <1>2, <1>3, <1>5, <1>6, <2>1, StatusHandlersGood, HandlersSane
<1>10. ASSUME HandleEnterProgramMode PROVE Checking'
  <2>1. Received(STK_INSYNC) /\ h.handler = "EnterProgramMode" /\ Loop(OnEnterProgramMode(h))
    BY <1>3, <1>10 DEF HandleEnterProgramMode, Handle, h
  <2> QED  BY <1>2, <1>3, <1>5, <1>6, <2>1, StatusHandlersGood, HandlersSane
<1>11. ASSUME HandleLeaveProgramMode PROVE Checking'
  <2>1. Received(STK_INSYNC) /\ h.handler = "LeaveProgramMode" /\ Loop(OnLeaveProgramMode(h))
    BY <1>3, <1>11 DEF HandleLeaveProgramMode, Handle, h
  <2> QED  BY <1>2, <1>3, <1>5, <1>6, <2>1, StatusHandlersGood, HandlersSane
<1>12. ASSUME HandleReadSignature PROVE Checking'
  <2>1. Received(STK_INSYNC) /\ h.handler = "ReadSignature" /\ Loop(OnReadSignature(h))
    BY <1>3, <1>12 DEF HandleReadSignature, Handle, h
  <2> QED  BY <1>2, <1>3, <1>5, <1>6, <2>1, ByteHandlersGood, HandlersSane
<1>13. ASSUME HandleChipErase PROVE Checking'
  <2>1. Received(STK_INSYNC) /\ h.handler = "ChipErase" /\ Loop(OnChipErase(h))
    BY <1>3, <1>13 DEF HandleChipErase, Handle, h
  <2> QED  BY <1>2, <1>3, <1>5, <1>6, <2>1, ByteHandlersGood, HandlersSane
<1>14. ASSUME HandleVerifyUnlocked PROVE Checking'
  <2>1. Received(STK_INSYNC) /\ h.handler = "VerifyUnlocked" /\ Loop(OnVerifyUnlocked(h))
    BY <1>3, <1>14 DEF HandleVerifyUnlocked, Handle, h
  <2> QED  BY <1>2, <1>3, <1>5, <1>6, <2>1, ByteHandlersGood, HandlersSane
<1>15. ASSUME HandleVerifyFuse PROVE Checking'
  <2>1. Received(STK_INSYNC) /\ h.handler = "VerifyFuse" /\ Loop(OnVerifyFuse(h))
    BY <1>3, <1>15 DEF HandleVerifyFuse, Handle, h
  <2> QED  BY <1>2, <1>3, <1>5, <1>6, <2>1, ByteHandlersGood, HandlersSane
<1>16. ASSUME HandleVerifyLockBits PROVE Checking'
  <2>1. Received(STK_INSYNC) /\ h.handler = "VerifyLockBits" /\ Loop(OnVerifyLockBits(h))
    BY <1>3, <1>16 DEF HandleVerifyLockBits, Handle, h
  <2> QED  BY <1>2, <1>3, <1>5, <1>6, <2>1, ByteHandlersGood, HandlersSane
<1>17. ASSUME HandleLoadAddress PROVE Checking'
  <2>1. Received(STK_INSYNC) /\ h.handler = "LoadAddress" /\ Loop(OnLoadAddress(h))
    BY <1>3, <1>17 DEF HandleLoadAddress, Handle, h
  <2> QED  BY <1>2, <1>3, <1>5, <1>6, <2>1, StatusHandlersGood, HandlersSane
<1>18. ASSUME HandleLoadExtAddress PROVE Checking'
  <2>1. Received(STK_INSYNC) /\ h.handler = "LoadExtAddress" /\ Loop(OnLoadExtAddress(h))
    BY <1>3, <1>18 DEF HandleLoadExtAddress, Handle, h
  <2> QED  BY <1>2, <1>3, <1>5, <1>6, <2>1, ByteHandlersGood, HandlersSane
<1>19. ASSUME HandleProcessPage PROVE Checking'
  <2>1. Received(STK_INSYNC) /\ h.handler = "ProcessPage" /\ Loop(OnProcessPage(h))
    BY <1>3, <1>19 DEF HandleProcessPage, Handle, h
  <2>2. HasFile(job)  BY <1>3, <2>1 DEF Good, Fits, Waited, FileStep
  <2> QED  BY <1>2, <1>3, <1>5, <1>6, <2>1, <2>2, OnProcessPageGood, HandlersSane
<1>20. ASSUME HandleNoSync PROVE Checking'
  <2> DEFINE k == [h EXCEPT !.retries = @ + 1]
  <2>1. /\ Received(STK_NOSYNC)
        /\ Loop(IF ses.retries < SyncRetries THEN SendGetSync(k) ELSE Fail(h, "Sync"))
    BY <1>20 DEF HandleNoSync, h
  <2>2. ses.retries < SyncRetries => Fine(SendGetSync(k))  BY <2>1, NoSyncFine DEF h
  <2>3. Fine(Fail(h, "Sync"))  BY <1>3, FailFine DEF Error
  <2> HIDE DEF k
  <2> QED  BY <1>4, <2>1, <2>2, <2>3
<1>21. ASSUME HandleFrameError PROVE Checking'
  <2>1. Received(FrameError) /\ Loop(Heard)  BY <1>21 DEF HandleFrameError
  <2> QED  BY <1>4, <2>1, FrameErrorFine
<1>22. ASSUME HandleUnknown \/ TimerPasses PROVE Checking'
  <2> DEFINE e == [h EXCEPT !.in = <<>>]
  <2>1. DOMAIN e = SessionField  BY <1>3
  <2>2. Loop(Fail(e, "Unknown")) \/ Loop(Fail(ses, "Timeout"))
    BY <1>22 DEF HandleUnknown, TimerPasses, h
  <2> HIDE DEF e
  <2>3. Fine(Fail(e, "Unknown")) /\ Fine(Fail(ses, "Timeout"))  BY <1>2, <2>1, FailFine DEF Error
  <2> QED  BY <1>4, <2>2, <2>3
<1>23. ASSUME StartTimer PROVE Checking'
  <2>1. Silent /\ Loop([ses EXCEPT !.timing = TRUE])  BY <1>23 DEF StartTimer
  <2>2. Fine([ses EXCEPT !.timing = TRUE])  BY <2>1, TimerFine
  <2> QED  BY <1>4, <2>1, <2>2
<1> QED
  BY <1>7, <1>8, <1>9, <1>10, <1>11, <1>12, <1>13, <1>14, <1>15, <1>16, <1>17, <1>18, <1>19, <1>20,
     <1>21, <1>22, <1>23 DEF Update

-----------------------------------------------------------------------------
(* What the target makes of a command, and what it answers.                *)

(* What a command does to bank, address and memory.                        *)
Selects(c) == c.cmd = "UNIVERSAL" /\ c.inst.op = "loadExt"
Erases(c) == c.cmd = "UNIVERSAL" /\ c.inst.op = "chipErase"
Effect(d, c, t) ==
  /\ t.ext = IF Selects(c) THEN c.inst.bank ELSE d.ext
  /\ c.cmd = "LOAD_ADDRESS" => t.address = c.address
  /\ c.cmd = "GET_SYNC" => t.address = d.address
  /\ c.cmd # "PROG_PAGE" /\ ~Erases(c) => t.flash = d.flash /\ t.eeprom = d.eeprom

LEMMA ChipFields ==
  ASSUME NEW x, NEW d, Chip(d, x)
  PROVE  /\ \A v : /\ LET t == [d EXCEPT !.eepromSize = v]
                      IN t.ext = d.ext /\ t.address = d.address /\ t.flash = d.flash /\ t.eeprom = d.eeprom
                   /\ LET t == [d EXCEPT !.eepromPage = v]
                      IN t.ext = d.ext /\ t.address = d.address /\ t.flash = d.flash /\ t.eeprom = d.eeprom
                   /\ LET t == [d EXCEPT !.address = v]
                      IN t.ext = d.ext /\ t.address = v /\ t.flash = d.flash /\ t.eeprom = d.eeprom
                   /\ LET t == [d EXCEPT !.ext = v]
                      IN t.ext = v /\ t.address = d.address /\ t.flash = d.flash /\ t.eeprom = d.eeprom
                   /\ LET t == [d EXCEPT !.lock = v]
                      IN t.ext = d.ext /\ t.address = d.address /\ t.flash = d.flash /\ t.eeprom = d.eeprom
                   /\ LET t == [d EXCEPT !.fuse[v] = "configured"]
                      IN t.ext = d.ext /\ t.address = d.address /\ t.flash = d.flash /\ t.eeprom = d.eeprom
                   /\ [d EXCEPT !.eeprom = v].ext = d.ext
                   /\ [d EXCEPT !.flash = v].ext = d.ext
         /\ \A v, w : [d EXCEPT !.flash = v, !.address = w].ext = d.ext
         /\ ChipErase(d).ext = d.ext
         /\ LET t == EnterProgMode(d)
            IN t.ext = d.ext /\ t.address = d.address /\ t.flash = d.flash /\ t.eeprom = d.eeprom
         /\ LET t == LeaveProgMode(d)
            IN t.ext = d.ext /\ t.address = d.address /\ t.flash = d.flash /\ t.eeprom = d.eeprom
BY DEF Chip, ChipField, ChipErase, EnterProgMode, LeaveProgMode

LEMMA InstructionEffect ==
  ASSUME NEW x, NEW d, Chip(d, x), NEW i, i.op \in Instruction, NEW t, t = TransferInstruction(d, i).target
  PROVE  /\ t.ext = IF i.op = "loadExt" THEN i.bank ELSE d.ext
         /\ i.op # "chipErase" => t.flash = d.flash /\ t.eeprom = d.eeprom
<1>1. CASE i.op = "chipErase"
  BY <1>1, ChipFields DEF TransferInstruction
<1>2. CASE i.op \in {"readLock", "readFuse"}
  BY <1>2 DEF TransferInstruction
<1>3. CASE i.op = "writeLock"
  <2>1. t = [d EXCEPT !.lock = "locked"]  BY <1>3 DEF TransferInstruction
  <2> QED  BY <1>3, <2>1, ChipFields
<1>4. CASE i.op = "writeFuse"
  <2> DEFINE u == [d EXCEPT !.fuse[i.fuse] = "configured"]
  <2>1. t = d \/ t = u  BY <1>4 DEF TransferInstruction
  <2>2. u.ext = d.ext /\ u.flash = d.flash /\ u.eeprom = d.eeprom  BY DEF Chip, ChipField
  <2> HIDE DEF u
  <2> QED  BY <1>4, <2>1, <2>2
<1>5. CASE i.op = "loadExt"
  <2>1. t = [d EXCEPT !.ext = i.bank]  BY <1>5 DEF TransferInstruction
  <2> QED  BY <1>5, <2>1, ChipFields
<1> QED  BY <1>1, <1>2, <1>3, <1>4, <1>5 DEF Instruction

LEMMA IspEffect ==
  ASSUME NEW x, NEW d, Chip(d, x), NEW c, Known(c)
  PROVE  Effect(d, c, IspCommand(d, c).target)
<1> DEFINE t == IspCommand(d, c).target
<1>1. \A v : DoEmptyReply(v).target = v  BY DEF DoEmptyReply, Answer
<1>2. CASE c.cmd \in {"GET_SYNC", "READ_SIGN"}
  <2>1. t = d  BY <1>1, <1>2 DEF IspCommand, ReadSignature, Answer
  <2> QED  BY <1>2, <2>1 DEF Effect, Selects
<1>3. CASE c.cmd = "SET_DEVICE"
  <2>1. t = [d EXCEPT !.eepromSize = c.eepromSize]  BY <1>1, <1>3 DEF IspCommand, SetDeviceProgParams
  <2> QED  BY <1>3, <2>1, ChipFields DEF Effect, Selects
<1>4. CASE c.cmd = "SET_DEVICE_EXT"
  <2>1. t = [d EXCEPT !.eepromPage = c.eepromPage]  BY <1>1, <1>4 DEF IspCommand, SetExtDeviceProgParams
  <2> QED  BY <1>4, <2>1, ChipFields DEF Effect, Selects
<1>5. CASE c.cmd = "ENTER_PROGMODE"
  <2>1. t = d \/ t = EnterProgMode(d)  BY <1>1, <1>5 DEF IspCommand
  <2> QED  BY <1>5, <2>1, ChipFields DEF Effect, Selects
<1>6. CASE c.cmd = "LEAVE_PROGMODE"
  <2>1. t = LeaveProgMode(d)  BY <1>1, <1>6 DEF IspCommand
  <2> QED  BY <1>6, <2>1, ChipFields DEF Effect, Selects
<1>7. CASE c.cmd = "LOAD_ADDRESS"
  <2> DEFINE u == [d EXCEPT !.address = c.address]
  <2>1. t = u  BY <1>1, <1>7 DEF IspCommand
  <2>2. u.ext = d.ext /\ u.address = c.address /\ u.flash = d.flash /\ u.eeprom = d.eeprom
    BY DEF Chip, ChipField
  <2> HIDE DEF t, u
  <2>3. Effect(d, c, t)  BY <1>7, <2>1, <2>2 DEF Effect, Selects
  <2> QED  BY <2>3 DEF t
<1>8. CASE c.cmd = "UNIVERSAL"
  <2>1. t = TransferInstruction(d, c.inst).target /\ c.inst.op \in Instruction
    BY <1>8 DEF IspCommand, Universal, DoOneByteReply, Answer, Known
  <2> HIDE DEF t
  <2>3. Effect(d, c, t)  BY <1>8, <2>1, InstructionEffect DEF Effect, Selects, Erases
  <2> QED  BY <2>3 DEF t
<1>9. CASE c.cmd = "PROG_PAGE"
  <2>1. t.ext = d.ext
    <3>1. t = d \/ t = WriteProgramPages(d, c.words) \/ t = WriteEeprom(d, c.words)
      BY <1>1, <1>9 DEF IspCommand, ProgramPage, Answer
    <3>2. WriteProgramPages(d, c.words).ext = d.ext /\ WriteEeprom(d, c.words).ext = d.ext
      BY ChipFields DEF WriteProgramPages, WriteEeprom
    <3> HIDE DEF t
    <3> QED  BY <3>1, <3>2
  <2> QED  BY <1>9, <2>1 DEF Effect, Selects
<1>10. CASE c.cmd = "READ_PAGE"
  <2> DEFINE u == [d EXCEPT !.address = @ + c.length]
  <2>1. t = d \/ t = u  BY <1>10 DEF IspCommand, ReadPage, Answer
  <2>2. u.ext = d.ext /\ u.flash = d.flash /\ u.eeprom = d.eeprom  BY DEF Chip, ChipField
  <2> HIDE DEF t, u
  <2>3. Effect(d, c, t)  BY <1>10, <2>1, <2>2 DEF Effect, Selects
  <2> QED  BY <2>3 DEF t
<1> QED
  BY <1>2, <1>3, <1>4, <1>5, <1>6, <1>7, <1>8, <1>9, <1>10 DEF Known, CommandName

LEMMA BootloaderEffect ==
  ASSUME NEW x, NEW d, Chip(d, x), NEW c, Known(c)
  PROVE  Effect(d, c, BootloaderCommand(d, c).target)
<1> DEFINE t == BootloaderCommand(d, c).target
<1>1. \A v : DoEmptyReply(v).target = v  BY DEF DoEmptyReply, Answer
<1>2. CASE c.cmd \in {"GET_SYNC", "SET_DEVICE", "SET_DEVICE_EXT", "ENTER_PROGMODE", "LEAVE_PROGMODE",
                      "READ_SIGN"}
  <2>1. t = d  BY <1>1, <1>2 DEF BootloaderCommand, ReadSignature, Answer
  <2> QED  BY <1>2, <2>1 DEF Effect, Selects
<1>3. CASE c.cmd = "LOAD_ADDRESS"
  <2> DEFINE u == [d EXCEPT !.address = c.address]
  <2>1. t = u  BY <1>1, <1>3 DEF BootloaderCommand
  <2>2. u.ext = d.ext /\ u.address = c.address /\ u.flash = d.flash /\ u.eeprom = d.eeprom
    BY DEF Chip, ChipField
  <2> HIDE DEF t, u
  <2>3. Effect(d, c, t)  BY <1>3, <2>1, <2>2 DEF Effect, Selects
  <2> QED  BY <2>3 DEF t
<1>4. CASE c.cmd = "UNIVERSAL"
  <2> DEFINE u == [d EXCEPT !.ext = c.inst.bank]
  <2>1. t = IF c.inst.op = "loadExt" THEN u ELSE d
    BY <1>4 DEF BootloaderCommand, DoOneByteReply, Answer
  <2>2. u.ext = c.inst.bank /\ u.flash = d.flash /\ u.eeprom = d.eeprom  BY DEF Chip, ChipField
  <2> HIDE DEF t, u
  <2>3. Effect(d, c, t)  BY <1>4, <2>1, <2>2 DEF Effect, Selects
  <2> QED  BY <2>3 DEF t
<1>5. CASE c.cmd = "PROG_PAGE"
  <2>1. t.ext = d.ext
    <3>1. t = [d EXCEPT !.flash = Stored(d, @, c.words, LAMBDA a, w : w)] \/ t = WriteEeprom(d, c.words)
      BY <1>1, <1>5 DEF BootloaderCommand, Known
    <3>2. WriteEeprom(d, c.words).ext = d.ext  BY ChipFields DEF WriteEeprom
    <3>3. \A v : [d EXCEPT !.flash = v].ext = d.ext  BY ChipFields
    <3> QED  BY <3>1, <3>2, <3>3
  <2> QED  BY <1>5, <2>1 DEF Effect, Selects
<1>6. CASE c.cmd = "READ_PAGE"
  <2> DEFINE u == [d EXCEPT !.address = @ + c.length]
  <2>1. t = d \/ t = u  BY <1>6 DEF BootloaderCommand, ReadPage, Answer
  <2>2. u.ext = d.ext /\ u.flash = d.flash /\ u.eeprom = d.eeprom  BY DEF Chip, ChipField
  <2> HIDE DEF t, u
  <2>3. Effect(d, c, t)  BY <1>6, <2>1, <2>2 DEF Effect, Selects
  <2> QED  BY <2>3 DEF t
<1> QED  BY <1>2, <1>3, <1>4, <1>5, <1>6 DEF Known, CommandName

(* The session behind a command that has been taken from it.               *)
Taken(s, t) == Alike(s, t) /\ t.handler = s.handler /\ t.onSync = s.onSync /\ t.out = <<>>

LEMMA TakenFields ==
  ASSUME NEW s, NEW t, Taken(s, t)
  PROVE  Waited(t) = Waited(s) /\ (Verifying(t) <=> Verifying(s)) /\ t.handler = s.handler
         /\ t.onSync = s.onSync /\ t.out = <<>> /\ t.stage = s.stage /\ t.words = s.words
         /\ t.hex = s.hex /\ t.page = s.page /\ t.bank = s.bank
BY DEF Taken, Alike, Waited, Verifying

LEMMA Equal == \A x, y : <<x>> = <<y>> => x = y
OBVIOUS

(* It is lost, or refused.                                                 *)
LEMMA CommandRefused ==
  ASSUME NEW s, NEW d, NEW p, Kept(s, d, p), s.out # <<>>, NEW t, Taken(s, t), NEW q, Refused(q)
  PROVE  Kept(t, d, q)
<1>1. Before(s, d) => Before(t, d)  BY TakenFields DEF Before
<1>2. Afterwards(s, d) => Afterwards(t, d)  BY TakenFields DEF Afterwards
<1>3. ASSUME Check(s, d, p) PROVE Check(t, d, q)
  <2>1. Base(s, d) /\ Base(t, d) /\ Waited(t) \in FileStep /\ t.out = <<>>
    BY <1>3, TakenFields, AlikeKeeps DEF Check, Base, Taken
  <2>2. /\ Going(s, d) => Going(t, d)
        /\ AtHand(s) => AtHand(t)
        /\ Extended(s, d) => Extended(t, d)
        /\ ToExtend(s) => ToExtend(t)
    BY AlikeKeeps DEF Taken
  <2>3. Ready(s, d) => Going(s, d)  BY ReadyGoing
  <2>4. \/ Waited(s) = "LoadExtAddress" /\ ToExtend(s)
        \/ Waited(s) = "LoadAddress" /\ AtHand(s) /\ Extended(s, d)
        \/ Waited(s) = "ProcessPage" /\ s.handler = "GetSync" /\ Going(s, d)
        \/ s.handler = "ProcessPage" /\ Ready(s, d)
    BY <1>3 DEF Check
  <2>5. \/ Waited(t) = "LoadExtAddress" /\ ToExtend(t)
        \/ Waited(t) = "LoadAddress" /\ AtHand(t) /\ Extended(t, d)
        \/ Waited(t) = "ProcessPage" /\ t.handler = "GetSync" /\ Going(t, d)
        \/ t.handler = "ProcessPage" /\ Going(t, d)
    BY <2>2, <2>3, <2>4, TakenFields
  <2> QED  BY <2>1, <2>5 DEF Check, Base
<1> QED  BY <1>1, <1>2, <1>3 DEF Kept

(* It is carried out: the target d becomes e.                              *)
LEMMA BaseBehind ==
  ASSUME NEW s, NEW d, Base(s, d), NEW e, e.flash = d.flash, e.eeprom = d.eeprom
  PROVE  Base(s, e)
BY MemoryKept DEF Base, InPlace

LEMMA Requests ==
  ASSUME NEW s, NEW d, NEW p, Check(s, d, p), NEW c, s.out = <<c>>
  PROVE  /\ s.handler \in FileStep \cup {"GetSync"} /\ c = Request(s)
         /\ c.cmd # "PROG_PAGE" /\ ~Erases(c)
         /\ Selects(c) => s.handler = "LoadExtAddress" /\ c.inst.bank = s.bank
         /\ s.handler = "LoadExtAddress" => Selects(c)
         /\ s.handler = "LoadAddress" => c.cmd = "LOAD_ADDRESS" /\ c.address = s.page % BankWords
         /\ s.handler = "GetSync" => c.cmd = "GET_SYNC"
         /\ s.handler = "ProcessPage" => c = ReadPageCmd(Memory, s.words)
         /\ c.cmd = "READ_PAGE" => s.handler = "ProcessPage"
<1>1. c = Request(s) /\ Waited(s) \in FileStep  BY Equal DEF Check
<1>2. s.handler \in FileStep \cup {"GetSync"}  BY <1>1 DEF Waited
<1>3. CASE s.handler = "GetSync"
  <2>1. c = GetSyncCmd  BY <1>1, <1>3 DEF Request
  <2> QED  BY <1>1, <1>2, <1>3, <2>1 DEF GetSyncCmd, Erases, Selects
<1>4. CASE s.handler = "LoadExtAddress"
  <2>1. c = UniversalCmd([op |-> "loadExt", bank |-> s.bank])  BY <1>1, <1>4 DEF Request
  <2> QED  BY <1>1, <1>2, <1>4, <2>1 DEF UniversalCmd, Erases, Selects
<1>5. CASE s.handler = "LoadAddress"
  <2>1. c = LoadAddressCmd(s.page % BankWords)  BY <1>1, <1>5 DEF Request
  <2> QED  BY <1>1, <1>2, <1>5, <2>1 DEF LoadAddressCmd, Erases, Selects
<1>6. CASE s.handler = "ProcessPage"
  <2>1. c = ReadPageCmd(Memory, s.words)  BY <1>1, <1>6 DEF Request
  <2> QED  BY <1>1, <1>2, <1>6, <2>1 DEF ReadPageCmd, Erases, Selects
<1> QED  BY <1>2, <1>3, <1>4, <1>5, <1>6 DEF FileStep

LEMMA CheckCarriedOut ==
  ASSUME NEW s, NEW d, NEW p, Check(s, d, p), NEW c, s.out = <<c>>, NEW e, Effect(d, c, e),
         NEW t, Taken(s, t), NEW q,
         s.handler = "ProcessPage" => Stray(q) \/ PageAnswer(q, s, e)
  PROVE  Check(t, e, q)
<1>1. /\ s.handler \in FileStep \cup {"GetSync"}
      /\ c.cmd # "PROG_PAGE" /\ ~Erases(c)
      /\ Selects(c) => s.handler = "LoadExtAddress" /\ c.inst.bank = s.bank
      /\ s.handler = "LoadExtAddress" => Selects(c)
      /\ s.handler = "LoadAddress" => c.cmd = "LOAD_ADDRESS" /\ c.address = s.page % BankWords
      /\ s.handler = "GetSync" => c.cmd = "GET_SYNC"
  BY Requests
<1>2. /\ e.flash = d.flash /\ e.eeprom = d.eeprom
      /\ e.ext = IF s.handler = "LoadExtAddress" THEN s.bank ELSE d.ext
      /\ s.handler = "LoadAddress" => e.address = s.page % BankWords
      /\ s.handler = "GetSync" => e.address = d.address
  BY <1>1 DEF Effect
<1>3. Base(s, d) /\ s.out # <<>>  BY DEF Check, Base
<1>4. Base(s, e)  BY <1>2, <1>3, BaseBehind
<1>5. Base(t, e) /\ Waited(t) \in FileStep /\ t.out = <<>>
  <2>1. Waited(s) \in FileStep  BY DEF Check
  <2>2. Base(t, e)  BY <1>4, AlikeKeeps DEF Taken
  <2> QED  BY <2>1, <2>2, TakenFields
<1>6. Extended(s, d) \/ s.handler = "LoadExtAddress" => Extended(s, e)  BY <1>2 DEF Extended
<1>7. ASSUME s.handler = "GetSync"
      PROVE  \/ Waited(s) = "LoadExtAddress" /\ ToExtend(s)
             \/ Waited(s) = "LoadAddress" /\ AtHand(s) /\ Extended(s, e)
             \/ Waited(s) = "ProcessPage" /\ Going(s, e)
  <2>1. e.ext = d.ext /\ e.address = d.address  BY <1>2, <1>7
  <2>2. Going(s, d) => Going(s, e)  BY <2>1 DEF Going, Announced, Extended
  <2> QED  BY <1>3, <1>6, <1>7, <2>2 DEF Check
<1>8. s.handler = "LoadExtAddress" => ToExtend(s) /\ Extended(s, e)
  BY <1>6 DEF Check, Waited
<1>9. s.handler = "LoadAddress" => AtHand(s) /\ Extended(s, e) /\ e.address = s.page % BankWords
  BY <1>2, <1>6 DEF Check, Waited
<1>10. s.handler = "ProcessPage" => AtHand(s) /\ Extended(s, e)
  BY <1>3, <1>6 DEF Check, Waited, Ready
<1>11. /\ Going(s, e) => Going(t, e)
       /\ AtHand(s) => AtHand(t)
       /\ Extended(s, e) => Extended(t, e)
       /\ ToExtend(s) => ToExtend(t)
       /\ PageAnswer(q, s, e) => PageAnswer(q, t, e)
  <2>1. PageAnswer(q, s, e) => PageAnswer(q, t, e)
    <3>1. t.words = s.words /\ t.page = s.page  BY TakenFields
    <3> QED  BY <3>1 DEF PageAnswer
  <2> QED  BY <2>1, AlikeKeeps DEF Taken
<1>12. /\ Waited(t) = Waited(s) /\ t.handler = s.handler /\ t.page = s.page
       /\ s.handler # "GetSync" => Waited(t) = s.handler
  BY TakenFields DEF Waited
<1>13. CASE s.handler = "GetSync"
  <2>1. ~Sent(t)  BY <1>12, <1>13 DEF Sent
  <2> QED  BY <1>5, <1>7, <1>11, <1>12, <1>13, <2>1 DEF Check, Base
<1>14. CASE s.handler = "LoadExtAddress"
  BY <1>5, <1>8, <1>11, <1>12, <1>14 DEF Check, Base
<1>15. CASE s.handler = "LoadAddress"
  BY <1>5, <1>9, <1>11, <1>12, <1>15 DEF Check, Base
<1>16. CASE s.handler = "ProcessPage"
  BY <1>5, <1>10, <1>11, <1>12, <1>16 DEF Check, Base
<1> QED  BY <1>1, <1>13, <1>14, <1>15, <1>16 DEF FileStep

LEMMA MildEffect ==
  ASSUME NEW c \in Mild, NEW d, NEW e, Effect(d, c, e)
  PROVE  e.flash = d.flash /\ e.eeprom = d.eeprom /\ c.cmd # "READ_PAGE" /\ c.cmd # "PROG_PAGE"
BY DEF Mild, GetSyncCmd, LeaveProgModeCmd, UniversalCmd, Effect, Erases

LEMMA CommandCarriedOut ==
  ASSUME NEW s, NEW d, NEW p, Kept(s, d, p), NEW c, s.out = <<c>>, NEW e, Effect(d, c, e),
         NEW t, Taken(s, t), NEW q,
         c.cmd = "READ_PAGE" => Stray(q) \/ PageAnswer(q, s, e)
  PROVE  Kept(t, e, q)
<1>1. s.out # <<>> /\ s.out[1] = c  OBVIOUS
<1>2. ASSUME Before(s, d) PROVE Before(t, e)
  <2>1. Plain(c)  BY <1>1, <1>2 DEF Before
  <2>2. Small => e.ext = 0
    <3>1. Small => d.ext = 0  BY <1>2 DEF Before
    <3>2. Small /\ Selects(c) => c.inst.bank = 0  BY <2>1 DEF Plain, Selects
    <3> QED  BY <3>1, <3>2 DEF Effect
  <2> QED  BY <1>2, <2>2, TakenFields DEF Before
<1>3. ASSUME Check(s, d, p) PROVE Check(t, e, q)
  <2>1. s.handler = "ProcessPage" => c.cmd = "READ_PAGE"
    BY <1>3, Requests DEF ReadPageCmd
  <2> QED  BY <1>3, <2>1, CheckCarriedOut
<1>4. ASSUME Afterwards(s, d) PROVE Afterwards(t, e)
  <2>1. c \in Mild  BY <1>1, <1>4 DEF Afterwards
  <2>2. e.flash = d.flash /\ e.eeprom = d.eeprom  BY <2>1, MildEffect
  <2> QED  BY <1>4, <2>2, TakenFields, MemoryKept DEF Afterwards
<1> QED  BY <1>2, <1>3, <1>4 DEF Kept

(* Nobody asks for a page but verification.                                *)
LEMMA PageAsked ==
  ASSUME NEW s, NEW d, NEW p, Kept(s, d, p), NEW c, s.out = <<c>>, c.cmd = "READ_PAGE"
  PROVE  Check(s, d, p) /\ s.handler = "ProcessPage" /\ c = ReadPageCmd(Memory, s.words) /\ Ready(s, d)
<1>1. s.out # <<>> /\ s.out[1] = c  OBVIOUS
<1>2. ~Before(s, d)  BY <1>1 DEF Before, Plain
<1>3. ~Afterwards(s, d)
  BY <1>1 DEF Afterwards, Mild, GetSyncCmd, LeaveProgModeCmd, UniversalCmd
<1>4. Check(s, d, p)  BY <1>2, <1>3 DEF Kept
<1>5. s.handler = "ProcessPage" /\ c = ReadPageCmd(Memory, s.words)  BY <1>4, Requests
<1>6. Ready(s, d)  BY <1>1, <1>4, <1>5 DEF Check, Waited
<1> QED  BY <1>4, <1>5, <1>6

(* Programming a page comes before verification.                           *)
LEMMA PageProgrammed ==
  ASSUME NEW s, NEW d, NEW p, Kept(s, d, p), NEW c, s.out = <<c>>, c.cmd = "PROG_PAGE"
  PROVE  Before(s, d)
<1>1. s.out # <<>> /\ s.out[1] = c  OBVIOUS
<1>2. ~Afterwards(s, d)
  BY <1>1 DEF Afterwards, Mild, GetSyncCmd, LeaveProgModeCmd, UniversalCmd
<1>3. ~Check(s, d, p)  BY Requests
<1> QED  BY <1>2, <1>3 DEF Kept

(* The address in a bank is the one the target reads at.                   *)
LEMMA PlaceInBank ==
  ASSUME NEW p \in Nat, NEW b, InBank(p, b)
  PROVE  b * BankWords + (p % BankWords) = p
<1>1. BankWords \in Nat \ {0} /\ b \in Nat  BY SegmentAssumption DEF BankWords, InBank
<1>2. b * BankWords <= p /\ p < b * BankWords + BankWords  BY DEF InBank
<1> QED  BY <1>1, <1>2, BankAddress

LEMMA PageAddress ==
  ASSUME job \in Job, Suited, NEW s, Session(s), NEW d, Base(s, d), Ready(s, d)
  PROVE  /\ s.page \in Nat
         /\ IF Memory = "flash" THEN d.ext * BankWords + d.address = s.page ELSE d.address = s.page
<1>1. TheFile \in Seq(Record) /\ Suits(TheFile)  BY SuitedFile
<1>2. s.hex \in Reader /\ Standing(TheFile, s.hex) /\ s.words = VerifiedWords  BY DEF Session, Placed, Base
<1>3. InHand(s.hex) /\ s.bank = Bank(s.hex) /\ s.page = PageOf(WordAddress(s.hex), VerifiedWords)
  BY <1>2 DEF Ready, AtHand, PageIn
<1>4. s.page \in Nat /\ InBank(s.page, s.bank)  BY <1>1, <1>2, <1>3, PagePlace
<1>5. s.bank * BankWords + (s.page % BankWords) = s.page
  <2>1. \A p, b : p \in Nat /\ InBank(p, b) => b * BankWords + (p % BankWords) = p  BY PlaceInBank
  <2> QED  BY <1>4, <2>1
<1>6. d.address = s.page % BankWords  BY DEF Ready
<1>7. CASE Memory = "flash"
  <2>1. d.ext = s.bank  BY <1>7 DEF Ready, Extended
  <2> QED  BY <1>4, <1>5, <1>6, <1>7, <2>1
<1>8. CASE Memory # "flash"
  <2> DEFINE i == s.hex.pos - 1
             y == s.hex.high
  <2>1. InFirstBank(TheFile)  BY <1>1, <1>8 DEF Suits
  <2>2. s.hex.type = "data"  BY <1>3 DEF InHand
  <2>3. i \in DataRecords(TheFile) /\ y = HighAt(TheFile, i)  BY <1>1, <1>2, <2>2, StandingData
  <2>4. y \in Nat /\ y < 2
    <3>1. HighAt(TheFile, i) \in 0 .. 15  BY <1>1, <2>3, RecordWords
    <3>2. HighAt(TheFile, i) < 2  BY <2>1, <2>3 DEF InFirstBank
    <3> HIDE DEF y, i
    <3> QED  BY <2>3, <3>1, <3>2
  <2>5. y \div 2 = 0
    <3> HIDE DEF y
    <3> QED  BY <2>4
  <2>6. s.bank = 0  BY <1>3, <2>5 DEF Bank
  <2> DEFINE w == BankWords
             r == s.page % w
  <2>7. w \in Nat \ {0}  BY SegmentAssumption DEF BankWords
  <2>8. r \in Nat
    <3> HIDE DEF w
    <3> QED  BY <1>4, <2>7
  <2>9. 0 * w + r = s.page  BY <1>5, <2>6
  <2> HIDE DEF w, r
  <2>10. r = s.page  BY <2>7, <2>8, <2>9
  <2> QED  BY <1>4, <1>6, <1>8, <2>10 DEF r, w
<1> QED  BY <1>7, <1>8

Between(a, g, z, r) ==
  Len(a) = 1 /\ Len(z) = 1 =>
    /\ IsSeq(r) /\ Len(r) = Len(g) + 2 /\ r[1] = a[1] /\ r[Len(g) + 2] = z[1]
    /\ \A i \in 1 .. Len(g) : r[1 + i] = g[i]

LEMMA Enclosed ==
  ASSUME NEW a, IsSeq(a), NEW g, IsSeq(g), NEW z, IsSeq(z)
  PROVE  Between(a, g, z, (a \o g) \o z)
<1> DEFINE b == a \o g
           t == b \o z
           n == Len(g)
<1>1. IsSeq(b) /\ Len(b) = Len(a) + Len(g) /\ n \in Nat  BY JoinedSeqs
<1>2. /\ \A i \in 1 .. Len(a) : b[i] = a[i]
      /\ \A i \in 1 .. Len(g) : b[Len(a) + i] = g[i]
  <2>1. \A i \in 1 .. Len(a) : b[i] = a[i]  BY JoinedSeqs
  <2>2. \A i \in 1 .. Len(g) : b[Len(a) + i] = g[i]  BY JoinedSeqs
  <2> QED  BY <2>1, <2>2
<1> HIDE DEF b
<1>3. IsSeq(b)  BY <1>1
<1>4. /\ IsSeq(t) /\ Len(t) = Len(b) + Len(z)
      /\ \A i \in 1 .. Len(b) : t[i] = b[i]
      /\ \A i \in 1 .. Len(z) : t[Len(b) + i] = z[i]
  <2>1. IsSeq(t) /\ Len(t) = Len(b) + Len(z)  BY <1>3, JoinedSeqs
  <2>2. \A i \in 1 .. Len(b) : t[i] = b[i]  BY <1>3, JoinedSeqs
  <2>3. \A i \in 1 .. Len(z) : t[Len(b) + i] = z[i]  BY <1>3, JoinedSeqs
  <2> QED  BY <2>1, <2>2, <2>3
<1> HIDE DEF t, n
<1>5. (a \o g) \o z = t  BY DEF t, b
<1> SUFFICES ASSUME Len(a) = 1, Len(z) = 1
             PROVE  /\ IsSeq(t) /\ Len(t) = n + 2 /\ t[1] = a[1] /\ t[n + 2] = z[1]
                    /\ \A i \in 1 .. n : t[1 + i] = g[i]
  BY <1>5 DEF n, Between
<1>6. n \in Nat /\ Len(b) = 1 + n /\ b[1] = a[1] /\ \A i \in 1 .. n : b[1 + i] = g[i]
  BY <1>1, <1>2 DEF n
<1>7. Len(t) = n + 2 /\ t[n + 2] = z[1]
  <2>1. Len(t) = (1 + n) + 1 /\ t[(1 + n) + 1] = z[1]  BY <1>4, <1>6
  <2>2. (1 + n) + 1 = n + 2  BY <1>6
  <2> QED  BY <2>1, <2>2
<1>8. t[1] = a[1]  BY <1>4, <1>6
<1>9. \A i \in 1 .. n : t[1 + i] = g[i]
  <2> SUFFICES ASSUME NEW i \in 1 .. n PROVE t[1 + i] = g[i]  OBVIOUS
  <2>1. 1 + i \in 1 .. 1 + n  BY <1>6
  <2> QED  BY <1>4, <1>6, <2>1
<1> QED  BY <1>4, <1>7, <1>8, <1>9

Enclosing(g, r) ==
  /\ IsSeq(r) /\ Len(r) = Len(g) + 2 /\ r[1] = STK_INSYNC /\ r[Len(g) + 2] = STK_OK
  /\ \A i \in 1 .. Len(g) : r[1 + i] = g[i]
LEMMA PageBytes ==
  ASSUME NEW g, IsSeq(g)
  PROVE  Enclosing(g, <<STK_INSYNC>> \o g \o <<STK_OK>>)
<1> DEFINE a == <<STK_INSYNC>>
           z == <<STK_OK>>
           r == (a \o g) \o z
<1>1. a \in Seq({STK_INSYNC}) /\ Len(a) = 1 /\ a[1] = STK_INSYNC  OBVIOUS
<1>2. z \in Seq({STK_OK}) /\ Len(z) = 1 /\ z[1] = STK_OK  OBVIOUS
<1>3. <<STK_INSYNC>> \o g \o <<STK_OK>> = r  OBVIOUS
<1> HIDE DEF a, z
<1>4. IsSeq(a) /\ IsSeq(z)  BY <1>1, <1>2 DEF IsSeq
<1> HIDE DEF r
<1>5. /\ IsSeq(r) /\ Len(r) = Len(g) + 2 /\ r[1] = a[1] /\ r[Len(g) + 2] = z[1]
      /\ \A i \in 1 .. Len(g) : r[1 + i] = g[i]
  <2>1. Len(a) = 1 /\ Len(z) = 1  BY <1>1, <1>2
  <2>2. Between(a, g, z, r)  BY <1>4, Enclosed DEF r
  <2> QED  BY <2>1, <2>2 DEF Between
<1>6. Enclosing(g, r)  BY <1>1, <1>2, <1>5 DEF Enclosing
<1> QED  BY <1>3, <1>6

LEMMA ReadsPage ==
  ASSUME job \in Job, Suited, NEW s, Session(s), NEW d, Base(s, d), Ready(s, d),
         NEW c, c = ReadPageCmd(Memory, s.words), NEW r, r = ReadPage(d, c).reply
  PROVE  IsSeq(r) /\ PageReply(r, s, d)
<1> DEFINE n == s.words
           g == IF Memory = "flash" THEN ReadProgramPage(d, n) ELSE ReadEepromPage(d, n)
<1>1. c.mem = Memory /\ c.length = n  BY DEF ReadPageCmd
<1>2. r = <<STK_INSYNC>> \o g \o <<STK_OK>>  BY <1>1 DEF ReadPage, Answer
<1>3. n \in Nat
  <2>1. n \in PageSize  BY DEF Session
  <2> QED  BY <2>1, PageAssumption DEF PageSize
<1>4. /\ s.page \in Nat
      /\ IF Memory = "flash" THEN d.ext * BankWords + d.address = s.page ELSE d.address = s.page
  BY PageAddress
<1>5. MemoryOf(d) = IF Memory = "flash" THEN d.flash ELSE d.eeprom  BY DEF MemoryOf, Memory
<1> HIDE DEF n
<1>6. g = [i \in 1 .. n |-> g[i]] /\ \A i \in 1 .. n : g[i] = MemoryOf(d)[s.page + i - 1]
  <2>1. CASE Memory = "flash"
    <3>1. g = [i \in 1 .. n |-> d.flash[At(d, i)]]  BY <2>1 DEF ReadProgramPage
    <3>2. \A i \in 1 .. n : At(d, i) = s.page + i - 1  BY <1>4, <2>1 DEF At
    <3> HIDE DEF g
    <3> QED  BY <1>5, <2>1, <3>1, <3>2
  <2>2. CASE Memory # "flash"
    <3>1. g = [i \in 1 .. n |-> d.eeprom[d.address + i - 1]]  BY <2>2 DEF ReadEepromPage
    <3> HIDE DEF g
    <3> QED  BY <1>4, <1>5, <2>2, <3>1
  <2> QED  BY <2>1, <2>2
<1> HIDE DEF g
<1>7. /\ IsSeq(r) /\ Len(r) = n + 2 /\ r[1] = STK_INSYNC /\ r[n + 2] = STK_OK
      /\ \A i \in 1 .. n : r[1 + i] = g[i]
  <2>1. g \in Seq({g[i] : i \in 1 .. n}) /\ Len(g) = n  BY <1>3, <1>6
  <2>2. IsSeq(g) /\ Len(g) = n  BY <2>1 DEF IsSeq
  <2> DEFINE v == <<STK_INSYNC>> \o g \o <<STK_OK>>
  <2>3. /\ IsSeq(v) /\ Len(v) = n + 2 /\ v[1] = STK_INSYNC /\ v[n + 2] = STK_OK
        /\ \A i \in 1 .. n : v[1 + i] = g[i]
    <3>1. Enclosing(g, v)  BY <2>2, PageBytes
    <3> HIDE DEF v
    <3> QED  BY <2>2, <3>1 DEF Enclosing
  <2> HIDE DEF v
  <2>4. r = v  BY <1>2 DEF v
  <2> QED  BY <2>3, <2>4
<1> QED  BY <1>6, <1>7, SyncBytes DEF PageReply, n

LEMMA MemorySeen ==
  ASSUME NEW q, NEW s, NEW d, PageReply(q, s, d), NEW e, e.flash = d.flash, e.eeprom = d.eeprom
  PROVE  PageReply(q, s, e)
BY MemoryKept DEF PageReply

(* A status that arrives as another byte.                                  *)
Garbled(r) == [r EXCEPT ![Len(r)] = STK_FAILED]

LEMMA GarbledStatus ==
  ASSUME NEW r, IsSeq(r), r # <<>>, NEW t, t = Garbled(r)
  PROVE  /\ IsSeq(t) /\ Len(t) = Len(r) /\ t[Len(r)] = STK_FAILED
         /\ \A i \in 1 .. Len(r) : i # Len(r) => t[i] = r[i]
<1>1. PICK S : r \in Seq(S)  BY DEF IsSeq
<1> DEFINE n == Len(r)
           T == S \cup {STK_FAILED}
<1>2. n \in Nat \ {0} /\ r \in [1 .. n -> T]  BY <1>1
<1> HIDE DEF n, T
<1>3. t = [r EXCEPT ![n] = STK_FAILED]  BY DEF Garbled, n
<1>4. n \in 1 .. n /\ STK_FAILED \in T  BY <1>2 DEF T
<1>5. t \in [1 .. n -> T] /\ t[n] = STK_FAILED /\ \A i \in 1 .. n : i # n => t[i] = r[i]
  BY <1>2, <1>3, <1>4
<1>6. t \in Seq(T) /\ Len(t) = n  BY <1>2, <1>5
<1> QED  BY <1>5, <1>6 DEF IsSeq, n

LEMMA GarbledHeaded ==
  ASSUME NEW r, Headed(r), Len(r) >= 2
  PROVE  Headed(Garbled(r)) /\ Garbled(r)[1] = r[1]
<1> DEFINE t == Garbled(r)
           n == Len(r)
<1>1. IsSeq(r) /\ r # <<>> /\ n \in Nat /\ n >= 2  BY JoinedSeqs DEF Headed
<1>2. /\ IsSeq(t) /\ Len(t) = n /\ t[n] = STK_FAILED
      /\ \A i \in 1 .. n : i # n => t[i] = r[i]
  BY <1>1, GarbledStatus
<1>3. r[1] \in SyncByte /\ \A i \in 2 .. n : r[i] \notin SyncByte  BY DEF Headed
<1> HIDE DEF t, n
<1>4. t[1] = r[1] /\ t # <<>>  BY <1>1, <1>2
<1>5. \A i \in 2 .. n : t[i] \notin SyncByte
  <2>1. \A i \in 2 .. n : i # n => t[i] = r[i]  BY <1>1, <1>2
  <2> QED  BY <1>2, <1>3, <2>1, SyncBytes
<1>6. Headed(t)  BY <1>2, <1>3, <1>4, <1>5 DEF Headed
<1> QED  BY <1>4, <1>6 DEF t

LEMMA GarbledPage ==
  ASSUME NEW r, IsSeq(r), NEW s, s.words \in Nat, NEW d, PageReply(r, s, d)
  PROVE  IsSeq(Garbled(r)) /\ PageReply(Garbled(r), s, d)
<1> DEFINE t == Garbled(r)
           n == s.words
<1>1. /\ n \in Nat /\ Len(r) = n + 2 /\ r[1] = STK_INSYNC
      /\ \A i \in 1 .. n : r[1 + i] = MemoryOf(d)[s.page + i - 1]
  BY DEF PageReply
<1>2. r # <<>>  BY <1>1
<1>3. /\ IsSeq(t) /\ Len(t) = Len(r) /\ t[Len(r)] = STK_FAILED
      /\ \A i \in 1 .. Len(r) : i # Len(r) => t[i] = r[i]
  BY <1>2, GarbledStatus
<1> HIDE DEF t, n
<1>4. t[1] = r[1] /\ \A i \in 1 .. n : t[1 + i] = r[1 + i]  BY <1>1, <1>3
<1>5. IsSeq(t) /\ PageReply(t, s, d)  BY <1>1, <1>3, <1>4, SyncBytes DEF PageReply, n
<1> QED  BY <1>5 DEF t

(* Replies but those with a page.                                          *)
LEMMA ShortReplies ==
  ASSUME NEW b, b \notin SyncByte
  PROVE  /\ Headed(<<STK_INSYNC, STK_OK>>) /\ Headed(<<STK_INSYNC, b, STK_OK>>)
         /\ Len(<<STK_INSYNC, STK_OK>>) = 2 /\ Len(<<STK_INSYNC, b, STK_OK>>) = 3
<1> DEFINE u == <<STK_INSYNC, STK_OK>>
           v == <<STK_INSYNC, b, STK_OK>>
<1>1. u \in Seq({STK_INSYNC, STK_OK}) /\ Len(u) = 2 /\ u[1] = STK_INSYNC /\ u[2] = STK_OK  OBVIOUS
<1>2. /\ v \in Seq({STK_INSYNC, b, STK_OK}) /\ Len(v) = 3 /\ v[1] = STK_INSYNC /\ v[2] = b
      /\ v[3] = STK_OK
  OBVIOUS
<1> HIDE DEF u, v
<1>3. Headed(u)
  <2>1. \A i \in 2 .. Len(u) : u[i] \notin SyncByte  BY <1>1, SyncBytes
  <2> QED  BY <1>1, <2>1, SyncBytes DEF Headed, IsSeq
<1>4. Headed(v)
  <2>1. \A i \in 2 .. Len(v) : i = 2 \/ i = 3  BY <1>2
  <2>2. \A i \in 2 .. Len(v) : v[i] \notin SyncByte  BY <1>2, <2>1, SyncBytes
  <2> QED  BY <1>2, <2>2, SyncBytes DEF Headed, IsSeq
<1> QED  BY <1>1, <1>2, <1>3, <1>4 DEF u, v

LEMMA BootloaderReplies ==
  ASSUME NEW d, NEW c, Known(c), c.cmd # "READ_PAGE", NEW r, r = BootloaderCommand(d, c).reply
  PROVE  Headed(r) /\ Len(r) >= 2
<1>1. \A v : DoEmptyReply(v).reply = <<STK_INSYNC, STK_OK>>  BY DEF DoEmptyReply, Answer
<1>2. \A v : DoOneByteReply(v, 0).reply = <<STK_INSYNC, 0, STK_OK>>  BY DEF DoOneByteReply, Answer
<1>3. ReadSignature(d).reply \in {<<STK_INSYNC, Signature, STK_OK>>, <<STK_INSYNC, OtherSignature, STK_OK>>}
  BY DEF ReadSignature, Answer
<1>4. r \in {<<STK_INSYNC, STK_OK>>, <<STK_INSYNC, 0, STK_OK>>, <<STK_INSYNC, Signature, STK_OK>>,
             <<STK_INSYNC, OtherSignature, STK_OK>>}
  <2>1. CASE c.cmd = "READ_SIGN"
    <3>1. r = ReadSignature(d).reply  BY <2>1 DEF BootloaderCommand
    <3> QED  BY <1>3, <3>1
  <2>2. CASE c.cmd = "UNIVERSAL"
    <3>1. \E v : r = DoOneByteReply(v, 0).reply  BY <2>2 DEF BootloaderCommand
    <3> QED  BY <1>2, <3>1
  <2>3. CASE c.cmd \notin {"READ_SIGN", "UNIVERSAL"}
    <3>1. \E v : r = DoEmptyReply(v).reply  BY <2>3 DEF BootloaderCommand, Known, CommandName
    <3> QED  BY <1>1, <3>1
  <2> QED  BY <2>1, <2>2, <2>3
<1> DEFINE two == <<STK_INSYNC, STK_OK>>
           three(b) == <<STK_INSYNC, b, STK_OK>>
<1>5. \A b : b \notin SyncByte => Headed(two) /\ Len(two) = 2  BY ShortReplies
<1>6. \A b : b \notin SyncByte => Headed(three(b)) /\ Len(three(b)) = 3  BY ShortReplies
<1>7. r \in {two, three(0), three(Signature), three(OtherSignature)}  BY <1>4
<1> HIDE DEF two, three
<1>8. \A b \in {0, Signature, OtherSignature} : Headed(three(b)) /\ Len(three(b)) >= 2
  BY <1>6, SyncBytes
<1>9. Headed(two) /\ Len(two) >= 2  BY <1>5, SyncBytes
<1> QED  BY <1>7, <1>8, <1>9

LEMMA InUnion ==
  ASSUME NEW S, NEW q \in Seq(S), NEW U, S \subseteq U
  PROVE  q \in Seq(U)
OBVIOUS

LEMMA SeqsAssociate ==
  ASSUME NEW a, IsSeq(a), NEW b, IsSeq(b), NEW c, IsSeq(c)
  PROVE  (a \o b) \o c = a \o (b \o c)
<1>1. PICK S : a \in Seq(S)  BY DEF IsSeq
<1>2. PICK T : b \in Seq(T)  BY DEF IsSeq
<1>3. PICK V : c \in Seq(V)  BY DEF IsSeq
<1> DEFINE U == S \cup T \cup V
<1>4. S \subseteq U /\ T \subseteq U /\ V \subseteq U  OBVIOUS
<1> HIDE DEF U
<1>5. a \in Seq(U) /\ b \in Seq(U) /\ c \in Seq(U)  BY <1>1, <1>2, <1>3, <1>4, InUnion
<1> QED  BY <1>5, ConcatAssociative

LEMMA NothingJoined ==
  ASSUME NEW q, IsSeq(q)
  PROVE  q \o <<>> = q /\ <<>> \o q = q
<1>1. PICK S : q \in Seq(S)  BY DEF IsSeq
<1> QED  BY <1>1, ConcatEmptySeq

LEMMA PartsJoined ==
  ASSUME NEW r, IsSeq(r), NEW k \in 1 .. Len(r) - 1
  PROVE  /\ IsSeq(SubSeq(r, 1, k)) /\ IsSeq(SubSeq(r, k + 1, Len(r)))
         /\ SubSeq(r, 1, k) \o SubSeq(r, k + 1, Len(r)) = r
<1>1. PICK S : r \in Seq(S)  BY DEF IsSeq
<1> DEFINE n == Len(r)
<1>2. n \in Nat /\ k \in 1 .. n /\ k + 1 \in 1 .. n  BY <1>1
<1>3. 1 \in 1 .. Len(r) + 1 /\ k \in 1 - 1 .. Len(r) /\ Len(r) \in k .. Len(r)  BY <1>2
<1>4. SubSeq(r, 1, k) \o SubSeq(r, k + 1, Len(r)) = SubSeq(r, 1, Len(r))
  BY <1>1, <1>3, ConcatAdjacentSubSeq
<1>5. SubSeq(r, 1, Len(r)) = r  BY <1>1, SubSeqFull
<1>6. \A i \in 1 .. n : r[i] \in S  BY <1>1
<1>7. SubSeq(r, 1, k) \in Seq(S)  BY <1>1, <1>2, <1>6, SubSeqProperties
<1>8. SubSeq(r, k + 1, n) \in Seq(S)  BY <1>1, <1>2, <1>6, SubSeqProperties
<1> QED  BY <1>4, <1>5, <1>7, <1>8 DEF IsSeq

LEMMA TakenSession ==
  ASSUME DOMAIN ses = SessionField, NEW v
  PROVE  Taken(ses, [ses EXCEPT !.out = <<>>, !.in = v]) /\ [ses EXCEPT !.out = <<>>, !.in = v].in = v
BY DEF SessionField, Taken, Alike

(* With the bytes q on their way and the target as e, the session that has *)
(* sent a command goes on.                                                 *)
GoesOn(e, q) == \A u : Taken(ses, u) => Kept(u, e, q) /\ Calm(u, q)

LEMMA OnceCalm ==
  ASSUME NEW u, u.out = <<>>, NEW q, Once(q)
  PROVE  Calm(u, q)
BY DEF Calm

LEMMA CommandAnswered ==
  ASSUME job \in Job, Suited, Session(ses), NEW p, Kept(ses, target, p), NEW c, ses.out = <<c>>,
         NEW e, Effect(target, c, e), NEW a, IsSeq(a), Stray(a), NEW r, IsSeq(r),
         IF c.cmd = "READ_PAGE" THEN PageReply(r, ses, target) ELSE job.serial => Headed(r)
  PROVE  IsSeq(a \o r) /\ GoesOn(e, a \o r)
<1> DEFINE q == a \o r
<1>1. IsSeq(q)  BY JoinedSeqs
<1>2. CASE c.cmd = "READ_PAGE"
  <2>1. Check(ses, target, p) /\ ses.handler = "ProcessPage"  BY <1>2, PageAsked
  <2>2. e.flash = target.flash /\ e.eeprom = target.eeprom  BY <1>2 DEF Effect, Erases
  <2>3. PageReply(r, ses, e)  BY <1>2, <2>2, MemorySeen
  <2>4. ses.words \in Nat
    <3>1. ses.words \in PageSize  BY DEF Session
    <3> QED  BY <3>1, PageAssumption DEF PageSize
  <2>5. PageAnswer(q, ses, e)  BY <2>3, <2>4, PageFollows
  <2> HIDE DEF q
  <2>6. ASSUME NEW u, Taken(ses, u) PROVE Kept(u, e, q) /\ Calm(u, q)
    <3>1. Kept(u, e, q)  BY <2>5, <2>6, CommandCarriedOut
    <3>2. Verifying(ses)  BY <2>1 DEF Check
    <3>3. Verifying(u) /\ u.handler = "ProcessPage" /\ u.out = <<>>  BY <2>1, <2>6, <3>2, TakenFields
    <3> QED  BY <3>1, <3>3 DEF Calm
  <2> QED  BY <1>1, <2>6 DEF GoesOn, q
<1>3. CASE c.cmd # "READ_PAGE"
  <2>1. job.serial => Once(q)  BY <1>3, AnswerFollows
  <2> HIDE DEF q
  <2>2. ASSUME NEW u, Taken(ses, u) PROVE Kept(u, e, q) /\ Calm(u, q)
    <3>1. Kept(u, e, q)  BY <1>3, <2>2, CommandCarriedOut
    <3>2. u.out = <<>>  BY <2>2, TakenFields
    <3> QED  BY <2>1, <3>1, <3>2 DEF Calm
  <2> QED  BY <1>1, <2>2 DEF GoesOn, q
<1> QED  BY <1>2, <1>3

LEMMA CommandUnanswered ==
  ASSUME NEW p, Kept(ses, target, p), NEW c, ses.out = <<c>>, NEW q, IsSeq(q)
  PROVE  /\ Refused(q) => GoesOn(target, q)
         /\ Stray(q) => \A e : Effect(target, c, e) => GoesOn(e, q)
<1>1. ASSUME Refused(q), NEW u, Taken(ses, u) PROVE Kept(u, target, q) /\ Calm(u, q)
  <2>1. Kept(u, target, q)
    <3>1. ses.out # <<>>  OBVIOUS
    <3> QED  BY <1>1, <3>1, CommandRefused
  <2>2. Once(q) /\ u.out = <<>>  BY <1>1, TakenFields DEF Refused
  <2> QED  BY <2>1, <2>2, OnceCalm
<1>2. ASSUME Stray(q), NEW e, Effect(target, c, e), NEW u, Taken(ses, u) PROVE Kept(u, e, q) /\ Calm(u, q)
  <2>1. Kept(u, e, q)  BY <1>2, CommandCarriedOut
  <2>2. Once(q) /\ u.out = <<>>  BY <1>2, StrayOnce, TakenFields
  <2> QED  BY <2>1, <2>2, OnceCalm
<1> QED  BY <1>1, <1>2 DEF GoesOn

LEMMA ByteSeqs ==
  /\ IsSeq(<<STK_INSYNC, STK_OK>>) /\ IsSeq(<<STK_NOSYNC>>)
  /\ \A b : IsSeq(<<STK_INSYNC, b, STK_OK>>)
<1>1. <<STK_INSYNC, STK_OK>> \in Seq({STK_INSYNC, STK_OK}) /\ <<STK_NOSYNC>> \in Seq({STK_NOSYNC})  OBVIOUS
<1>2. \A b : <<STK_INSYNC, b, STK_OK>> \in Seq({STK_INSYNC, b, STK_OK})  OBVIOUS
<1> QED  BY <1>1, <1>2 DEF IsSeq

LEMMA IspReplies ==
  ASSUME NEW d, NEW c, Known(c), c.cmd # "READ_PAGE", NEW r, r = IspCommand(d, c).reply
  PROVE  IsSeq(r)
<1>1. \A v : DoEmptyReply(v).reply = <<STK_INSYNC, STK_OK>>  BY DEF DoEmptyReply, Answer
<1>2. \A v, b : DoOneByteReply(v, b).reply = <<STK_INSYNC, b, STK_OK>>  BY DEF DoOneByteReply, Answer
<1>3. \E b : ReadSignature(d).reply = <<STK_INSYNC, b, STK_OK>>  BY DEF ReadSignature, Answer
<1>4. CASE c.cmd = "READ_SIGN"
  <2>1. r = ReadSignature(d).reply  BY <1>4 DEF IspCommand
  <2> QED  BY <1>3, <2>1, ByteSeqs
<1>5. CASE c.cmd = "UNIVERSAL"
  <2>1. \E v, b : r = DoOneByteReply(v, b).reply  BY <1>5 DEF IspCommand, Universal
  <2> QED  BY <1>2, <2>1, ByteSeqs
<1>6. CASE c.cmd = "PROG_PAGE"
  <2>1. r = ProgramPage(d, c).reply  BY <1>6 DEF IspCommand
  <2>2. (\E v : r = DoEmptyReply(v).reply) \/ r = Answer(d, <<STK_NOSYNC>>).reply
    BY <2>1 DEF ProgramPage
  <2>3. Answer(d, <<STK_NOSYNC>>).reply = <<STK_NOSYNC>>  BY DEF Answer
  <2> QED  BY <1>1, <2>2, <2>3, ByteSeqs
<1>7. CASE c.cmd \notin {"READ_SIGN", "UNIVERSAL", "PROG_PAGE"}
  <2>1. \E v : r = DoEmptyReply(v).reply
    BY <1>7 DEF IspCommand, Known, CommandName, SetDeviceProgParams, SetExtDeviceProgParams
  <2> QED  BY <1>1, <2>1, ByteSeqs
<1> QED  BY <1>4, <1>5, <1>6, <1>7

(* The answer to what the session has sent, whoever gives it.              *)
LEMMA PageAnswered ==
  ASSUME job \in Job, Suited, Session(ses), NEW p, Kept(ses, target, p), NEW c, ses.out = <<c>>,
         c.cmd = "READ_PAGE", NEW r, r = ReadPage(target, c).reply
  PROVE  IsSeq(r) /\ PageReply(r, ses, target)
<1>1. Check(ses, target, p) /\ c = ReadPageCmd(Memory, ses.words) /\ Ready(ses, target)
  BY PageAsked
<1>2. Base(ses, target)  BY <1>1 DEF Check, Base
<1> QED  BY <1>1, <1>2, ReadsPage

LEMMA IspUpdateChecking ==
  ASSUME IInv, Configuring, Checking, IspUpdate
  PROVE  Checking'
<1> DEFINE c == Head(ses.out)
           a == IspCommand(target, c)
           r == a.reply
           e == a.target
           u == [ses EXCEPT !.out = <<>>, !.in = r]
<1>1. /\ mInSession /\ ~job.serial /\ ses.out # <<>> /\ target' = e /\ ses' = u
      /\ UNCHANGED <<job, late, mInSession, faults>>
  BY DEF IspUpdate
<1>2. late' = <<>>  BY <1>1 DEF Configuring
<1> SUFFICES ASSUME Suited
             PROVE  /\ IsSeq(ses'.in) /\ IsSeq(late')
                    /\ Kept(ses', target', ses'.in \o late') /\ Calm(ses', ses'.in \o late')
  BY <1>1, CheckingSame
<1>3. /\ Known(c) /\ ses.out = <<c>> /\ Chip(target, job.fault) /\ Session(ses) /\ job \in Job
      /\ DOMAIN ses = SessionField
  BY <1>1, CommandKnown DEF IInv, Session
<1>4. Kept(ses, target, ses.in \o late)  BY <1>1 DEF Checking
<1>5. Taken(ses, u) /\ u.in = r  BY <1>3, TakenSession
<1> HIDE DEF c, u
<1>6. Effect(target, c, e)  BY <1>3, IspEffect
<1>7. IsSeq(r) /\ (c.cmd = "READ_PAGE" => PageReply(r, ses, target))
  <2>1. CASE c.cmd = "READ_PAGE"
    <3>1. r = ReadPage(target, c).reply  BY <2>1 DEF IspCommand
    <3> HIDE DEF r
    <3> QED  BY <1>3, <1>4, <2>1, <3>1, PageAnswered
  <2>2. CASE c.cmd # "READ_PAGE"  BY <1>3, <2>2, IspReplies
  <2> QED  BY <2>1, <2>2
<1> HIDE DEF r, e, a
<1>8. GoesOn(e, <<>> \o r)  BY <1>1, <1>3, <1>4, <1>6, <1>7, NoBytes, CommandAnswered
<1>9. <<>> \o r = r /\ r \o <<>> = r  BY <1>7, NothingJoined
<1>10. Kept(u, e, r) /\ Calm(u, r)  BY <1>5, <1>8, <1>9 DEF GoesOn
<1> QED  BY <1>1, <1>2, <1>5, <1>7, <1>9, <1>10, NoBytes

-----------------------------------------------------------------------------
(* The serial line, and the theorem.                                       *)

(* A command on the serial line, the bytes before its answer, and what the *)
(* target makes of it.                                                     *)
Replied(c, r) == IF c.cmd = "READ_PAGE" THEN PageReply(r, ses, target) ELSE Headed(r)
OnLine ==
  /\ job \in Job /\ job.serial /\ Session(ses) /\ DOMAIN ses = SessionField
  /\ Known(Command) /\ ses.out = <<Command>> /\ Chip(target, job.fault)
  /\ IsSeq(ses.in) /\ Stray(ses.in) /\ late = <<>> /\ Kept(ses, target, ses.in)

LEMMA CommandOnLine ==
  ASSUME IInv, Checking, Suited, Pending
  PROVE  OnLine
<1>1. mInSession /\ job.serial /\ ses.out # <<>> /\ late = <<>>  BY DEF Pending
<1>2. /\ Known(Command) /\ ses.out = <<Command>> /\ Chip(target, job.fault) /\ Session(ses)
      /\ job \in Job /\ DOMAIN ses = SessionField
  BY <1>1, CommandKnown DEF IInv, Session, Command
<1>3. IsSeq(ses.in) /\ Kept(ses, target, ses.in \o late) /\ Calm(ses, ses.in \o late)
  BY <1>1 DEF Checking
<1>4. ses.in \o late = ses.in  BY <1>1, <1>3, NothingJoined
<1>5. Stray(ses.in)  BY <1>1, <1>3, <1>4 DEF Calm
<1> QED  BY <1>1, <1>2, <1>3, <1>4, <1>5 DEF OnLine

LEMMA CommandExecuted ==
  ASSUME OnLine, Suited
  PROVE  /\ Effect(target, Command, Executed.target)
         /\ IsSeq(Executed.reply) /\ Len(Executed.reply) >= 2 /\ Replied(Command, Executed.reply)
<1> DEFINE c == Command
           r == Executed.reply
<1>1. Known(c) /\ ses.out = <<c>> /\ Chip(target, job.fault) /\ Session(ses) /\ job \in Job
      /\ Kept(ses, target, ses.in)
  BY DEF OnLine
<1> HIDE DEF c
<1>2. Effect(target, c, Executed.target)  BY <1>1, BootloaderEffect DEF Executed, c
<1>3. CASE c.cmd = "READ_PAGE"
  <2>1. r = ReadPage(target, c).reply  BY <1>3 DEF Executed, BootloaderCommand, c
  <2> HIDE DEF r
  <2>2. IsSeq(r) /\ PageReply(r, ses, target)  BY <1>1, <1>3, <2>1, PageAnswered
  <2>3. ses.words \in Nat
    <3>1. ses.words \in PageSize  BY <1>1 DEF Session
    <3> QED  BY <3>1, PageAssumption DEF PageSize
  <2>4. Len(r) >= 2  BY <2>2, <2>3 DEF PageReply
  <2> QED  BY <1>2, <1>3, <2>2, <2>4 DEF Replied, c, r
<1>4. CASE c.cmd # "READ_PAGE"
  <2>1. r = BootloaderCommand(target, c).reply  BY DEF Executed, c
  <2> HIDE DEF r
  <2>2. Headed(r) /\ Len(r) >= 2  BY <1>1, <1>4, <2>1, BootloaderReplies
  <2>3. IsSeq(r)  BY <2>2 DEF Headed
  <2> QED  BY <1>2, <1>4, <2>2, <2>3 DEF Replied, c, r
<1> QED  BY <1>3, <1>4

LEMMA LineChecking ==
  ASSUME NEW t, NEW now, NEW later, NEW cost, IInv, Checking, Pending, Line(t, now, later, cost),
         Suited => /\ IsSeq(now) /\ IsSeq(later) /\ IsSeq(ses.in \o now)
                   /\ GoesOn(t, (ses.in \o now) \o later)
  PROVE  Checking'
<1> DEFINE all == ses.in \o now
           u == [ses EXCEPT !.out = <<>>, !.in = all]
<1>1. /\ mInSession' /\ job' = job /\ target' = t /\ late' = later /\ ses' = u
  BY DEF Line, Pending
<1>2. DOMAIN ses = SessionField  BY DEF IInv, Session
<1>3. Taken(ses, u) /\ u.in = all  BY <1>2, TakenSession
<1> HIDE DEF all, u
<1>4. Suited => /\ IsSeq(all) /\ IsSeq(later) /\ Kept(u, t, all \o later) /\ Calm(u, all \o later)
  BY <1>3 DEF GoesOn, all
<1> QED  BY <1>1, <1>3, <1>4, CheckingSame

(* An answer all of which arrives.                                         *)
LEMMA AllArrives ==
  ASSUME NEW t, NEW r, NEW cost, IInv, Checking, Pending, Line(t, r, <<>>, cost),
         Suited => IsSeq(r) /\ GoesOn(t, ses.in \o r)
  PROVE  Checking'
<1> DEFINE all == ses.in \o r
<1>1. Suited => IsSeq(ses.in)  BY DEF Checking, Pending
<1>2. Suited => IsSeq(all)  BY <1>1, JoinedSeqs
<1> HIDE DEF all
<1>3. Suited => all \o <<>> = all  BY <1>2, NothingJoined
<1>4. Suited => /\ IsSeq(r) /\ IsSeq(<<>>) /\ IsSeq(ses.in \o r)
                /\ GoesOn(t, (ses.in \o r) \o <<>>)
  BY <1>2, <1>3, NoBytes DEF all
<1> QED  BY <1>4, LineChecking

LEMMA AnswerGoesOn ==
  ASSUME OnLine, Suited, NEW e, Effect(target, Command, e), NEW r, IsSeq(r), Replied(Command, r),
         NEW a, IsSeq(a), Stray(a)
  PROVE  IsSeq(a \o r) /\ GoesOn(e, a \o r)
<1> DEFINE c == Command
<1>1. /\ job \in Job /\ Session(ses) /\ ses.out = <<c>> /\ Kept(ses, target, ses.in)
      /\ IF c.cmd = "READ_PAGE" THEN PageReply(r, ses, target) ELSE Headed(r)
  BY DEF OnLine, Replied
<1> HIDE DEF c
<1>2. Effect(target, c, e)  BY DEF c
<1> QED  BY <1>1, <1>2, CommandAnswered

LEMMA NothingGoesOn ==
  ASSUME OnLine, Suited
  PROVE  /\ GoesOn(target, ses.in \o <<>>)
         /\ \A e : Effect(target, Command, e) => GoesOn(e, ses.in \o <<>>)
         /\ GoesOn(target, ses.in \o <<STK_NOSYNC>>)
<1> DEFINE c == Command
           a == ses.in
           b == a \o <<STK_NOSYNC>>
<1>1. ses.out = <<c>> /\ Kept(ses, target, a) /\ IsSeq(a) /\ Stray(a)  BY DEF OnLine
<1>2. Refused(a) /\ a \o <<>> = a  BY <1>1, StrayOnce, NothingJoined
<1>3. IsSeq(b) /\ Refused(b)
  <2> DEFINE r == <<STK_NOSYNC>>
  <2>1. IsSeq(r) /\ r # <<>> /\ r[1] = STK_NOSYNC /\ Len(r) = 1  BY ByteSeqs
  <2> HIDE DEF r
  <2>2. Headed(r)  BY <2>1, SyncBytes DEF Headed
  <2>3. IsSeq(a \o r) /\ Refused(a \o r)  BY <1>1, <2>1, <2>2, AnswerFollows
  <2> QED  BY <2>3 DEF r
<1> HIDE DEF c, a, b
<1>4. GoesOn(target, a) /\ \A e : Effect(target, c, e) => GoesOn(e, a)
  BY <1>1, <1>2, CommandUnanswered
<1>5. GoesOn(target, b)  BY <1>1, <1>3, CommandUnanswered
<1> QED  BY <1>2, <1>4, <1>5 DEF a, b, c

LEMMA GlitchGoesOn ==
  ASSUME OnLine, Suited, NEW e, Effect(target, Command, e), NEW r, IsSeq(r), Replied(Command, r)
  PROVE  IsSeq(<<FrameError>> \o r) /\ GoesOn(e, ses.in \o (<<FrameError>> \o r))
<1> DEFINE x == <<FrameError>>
           a == ses.in
           b == a \o x
<1>1. IsSeq(x) /\ Stray(x)
  <2>1. x \in Seq({FrameError}) /\ Len(x) = 1 /\ x[1] = FrameError  OBVIOUS
  <2> HIDE DEF x
  <2> QED  BY <2>1, SyncBytes DEF IsSeq, Stray
<1>2. IsSeq(a) /\ Stray(a)  BY DEF OnLine
<1> HIDE DEF x, a
<1>3. IsSeq(b) /\ Stray(b)  BY <1>1, <1>2, StrayParts, JoinedSeqs
<1>4. IsSeq(x \o r)  BY <1>1, JoinedSeqs
<1>5. b \o r = a \o (x \o r)  BY <1>1, <1>2, SeqsAssociate
<1> HIDE DEF b
<1>6. GoesOn(e, b \o r)  BY <1>3, AnswerGoesOn
<1> QED  BY <1>4, <1>5, <1>6 DEF x, a

LEMMA GarbledGoesOn ==
  ASSUME OnLine, Suited, NEW e, Effect(target, Command, e), NEW r, IsSeq(r), Len(r) >= 2,
         Replied(Command, r)
  PROVE  IsSeq(Garbled(r)) /\ GoesOn(e, ses.in \o Garbled(r))
<1>1. Session(ses) /\ IsSeq(ses.in) /\ Stray(ses.in)  BY DEF OnLine
<1>2. ses.words \in Nat
  <2>1. ses.words \in PageSize  BY <1>1 DEF Session
  <2> QED  BY <2>1, PageAssumption DEF PageSize
<1>3. IsSeq(Garbled(r)) /\ Replied(Command, Garbled(r))
  <2>1. CASE Command.cmd = "READ_PAGE"  BY <1>2, <2>1, GarbledPage DEF Replied
  <2>2. CASE Command.cmd # "READ_PAGE"
    <3>1. Headed(r)  BY <2>2 DEF Replied
    <3>2. Headed(Garbled(r))  BY <3>1, GarbledHeaded
    <3> QED  BY <2>2, <3>2 DEF Replied, Headed
  <2> QED  BY <2>1, <2>2
<1> QED  BY <1>1, <1>3, AnswerGoesOn

(* Data garbled on their way are as good as any: the page will be read.    *)
LEMMA DataGoOn ==
  ASSUME OnLine, Suited, Command.cmd = "PROG_PAGE",
         NEW g, g = [Command EXCEPT !.words = [i \in DOMAIN @ |-> Spoilt]],
         NEW e, e = BootloaderCommand(target, g)
  PROVE  IsSeq(e.reply) /\ GoesOn(e.target, ses.in \o e.reply)
<1> DEFINE c == Command
           r == e.reply
<1>1. /\ Known(c) /\ Chip(target, job.fault) /\ IsSeq(ses.in) /\ Stray(ses.in)
      /\ c.mem \in {"flash", "eeprom"} /\ DOMAIN c = {"cmd", "mem", "words"}
  BY DEF OnLine, Known
<1>2. DOMAIN g = {"cmd", "mem", "words"} /\ g.cmd = "PROG_PAGE" /\ g.mem = c.mem
  BY <1>1
<1>3. Known(g)  BY <1>1, <1>2 DEF Known, CommandName
<1>4. Effect(target, g, e.target)  BY <1>1, <1>3, BootloaderEffect
<1>5. Effect(target, Command, e.target)  BY <1>2, <1>4 DEF Effect, Selects, Erases
<1>6. Headed(r)  BY <1>2, <1>3, BootloaderReplies
<1>7. IsSeq(r) /\ Replied(Command, r)  BY <1>6 DEF Headed, Replied
<1> HIDE DEF r
<1>8. GoesOn(e.target, ses.in \o r)  BY <1>1, <1>5, <1>7, AnswerGoesOn
<1> QED  BY <1>7, <1>8 DEF r

LEMMA LateBytesChecking ==
  ASSUME IInv, Checking, LateBytes
  PROVE  Checking'
<1> DEFINE all == ses.in \o late
           u == [ses EXCEPT !.in = all]
<1>1. /\ mInSession /\ UNCHANGED <<job, target, mInSession>> /\ late' = <<>> /\ ses' = u
  BY DEF LateBytes
<1>2. DOMAIN ses = SessionField  BY DEF IInv, Session
<1>3. Like(ses, u) /\ u.in = all  BY <1>2 DEF SessionField, Like, Alike
<1>4. Suited => /\ IsSeq(ses.in) /\ IsSeq(late) /\ Kept(ses, target, all) /\ Calm(ses, all)
  BY <1>1 DEF Checking
<1>5. Suited => IsSeq(all)  BY <1>4, JoinedSeqs
<1> HIDE DEF all, u
<1>6. Suited => /\ all \o <<>> = all /\ Kept(u, target, all) /\ Calm(u, all)
  BY <1>3, <1>4, <1>5, LikeKeeps, NothingJoined
<1> QED  BY <1>1, <1>3, <1>5, <1>6, NoBytes, CheckingSame

LEMMA PauseChecking ==
  ASSUME IInv, Checking, AnswerPauses
  PROVE  Checking'
<1> DEFINE c == Command
           r == Executed.reply
           e == Executed.target
<1>1. Pending  BY DEF AnswerPauses
<1>2. PICK k : /\ k \in 1 .. Len(r) - 1
               /\ Line(e, SubSeq(r, 1, k), SubSeq(r, k + 1, Len(r)), 1)
  BY DEF AnswerPauses
<1> DEFINE now == SubSeq(r, 1, k)
           later == SubSeq(r, k + 1, Len(r))
<1>3. ASSUME Suited
      PROVE  /\ IsSeq(now) /\ IsSeq(later) /\ IsSeq(ses.in \o now)
             /\ GoesOn(e, (ses.in \o now) \o later)
  <2>1. OnLine  BY <1>1, <1>3, CommandOnLine
  <2>2. IsSeq(r) /\ Effect(target, c, e) /\ Replied(c, r)  BY <1>3, <2>1, CommandExecuted
  <2>3. IsSeq(ses.in) /\ Stray(ses.in)  BY <2>1 DEF OnLine
  <2> HIDE DEF r, e, c
  <2>4. IsSeq(now) /\ IsSeq(later) /\ now \o later = r  BY <1>2, <2>2, PartsJoined
  <2>5. GoesOn(e, ses.in \o r)  BY <1>3, <2>1, <2>2, <2>3, AnswerGoesOn DEF c
  <2> HIDE DEF now, later
  <2>6. IsSeq(ses.in \o now)  BY <2>3, <2>4, JoinedSeqs
  <2>7. (ses.in \o now) \o later = ses.in \o (now \o later)
    <3> DEFINE a == ses.in
    <3>1. IsSeq(a) /\ IsSeq(now) /\ IsSeq(later)  BY <2>3, <2>4
    <3> HIDE DEF a
    <3>2. (a \o now) \o later = a \o (now \o later)  BY <3>1, SeqsAssociate
    <3> QED  BY <3>2 DEF a
  <2> QED  BY <2>4, <2>5, <2>6, <2>7
<1> HIDE DEF now, later, r, e, c
<1>4. Line(e, now, later, 1)  BY <1>2 DEF now, later
<1> QED  BY <1>1, <1>3, <1>4, LineChecking

LEMMA BootloaderChecking ==
  ASSUME IInv, Checking, Bootloader \/ LineFault
  PROVE  Checking'
<1> DEFINE c == Command
           r == Executed.reply
           e == Executed.target
<1>1. ASSUME Pending, Suited
      PROVE  /\ OnLine /\ IsSeq(ses.in) /\ Stray(ses.in)
             /\ Effect(target, c, e) /\ IsSeq(r) /\ Len(r) >= 2 /\ Replied(c, r)
  <2>1. OnLine  BY <1>1, CommandOnLine
  <2>2. Effect(target, c, e) /\ IsSeq(r) /\ Len(r) >= 2 /\ Replied(c, r)
    BY <1>1, <2>1, CommandExecuted
  <2> QED  BY <2>1, <2>2 DEF OnLine
<1> HIDE DEF c, r, e
<1>2. CASE BootloaderAnswers
  <2>1. Pending /\ Line(e, r, <<>>, 0)  BY <1>2 DEF BootloaderAnswers, e, r
  <2>2. Suited => IsSeq(r) /\ GoesOn(e, ses.in \o r)  BY <1>1, <2>1, AnswerGoesOn DEF c
  <2> QED  BY <2>1, <2>2, AllArrives
<1>3. CASE CommandLost
  <2>1. Pending /\ Line(target, <<>>, <<>>, 1)  BY <1>3 DEF CommandLost
  <2>2. Suited => IsSeq(<<>>) /\ GoesOn(target, ses.in \o <<>>)
    BY <1>1, <2>1, NothingGoesOn, NoBytes
  <2> QED  BY <2>1, <2>2, AllArrives
<1>4. CASE AnswerLost
  <2>1. Pending /\ Line(e, <<>>, <<>>, 1)  BY <1>4 DEF AnswerLost, e
  <2>2. Suited => IsSeq(<<>>) /\ GoesOn(e, ses.in \o <<>>)
    BY <1>1, <2>1, NothingGoesOn, NoBytes DEF c
  <2> QED  BY <2>1, <2>2, AllArrives
<1>5. CASE NotInSync
  <2>1. Pending /\ Line(target, <<STK_NOSYNC>>, <<>>, 1)  BY <1>5 DEF NotInSync
  <2>2. Suited => IsSeq(<<STK_NOSYNC>>) /\ GoesOn(target, ses.in \o <<STK_NOSYNC>>)
    BY <1>1, <2>1, NothingGoesOn, ByteSeqs
  <2> QED  BY <2>1, <2>2, AllArrives
<1>6. CASE DataGarbled
  <2> DEFINE g == [Command EXCEPT !.words = [i \in DOMAIN @ |-> Spoilt]]
             b == BootloaderCommand(target, g)
  <2>1. Pending /\ Command.cmd = "PROG_PAGE" /\ Line(b.target, b.reply, <<>>, 1)
    BY <1>6 DEF DataGarbled
  <2> HIDE DEF b
  <2>2. Suited => IsSeq(b.reply) /\ GoesOn(b.target, ses.in \o b.reply)
    BY <1>1, <2>1, DataGoOn DEF b
  <2> QED  BY <2>1, <2>2, AllArrives
<1>7. CASE StatusGarbled
  <2>1. Pending /\ Line(e, Garbled(r), <<>>, 1)  BY <1>7 DEF StatusGarbled, Garbled, e, r
  <2>2. Suited => IsSeq(Garbled(r)) /\ GoesOn(e, ses.in \o Garbled(r))
    BY <1>1, <2>1, GarbledGoesOn DEF c
  <2> QED  BY <2>1, <2>2, AllArrives
<1>8. CASE Glitch
  <2>1. Pending /\ Line(e, <<FrameError>> \o r, <<>>, 1)  BY <1>8 DEF Glitch, e, r
  <2>2. Suited => IsSeq(<<FrameError>> \o r) /\ GoesOn(e, ses.in \o (<<FrameError>> \o r))
    BY <1>1, <2>1, GlitchGoesOn DEF c
  <2> QED  BY <2>1, <2>2, AllArrives
<1> QED
  BY <1>2, <1>3, <1>4, <1>5, <1>6, <1>7, <1>8, LateBytesChecking, PauseChecking
     DEF Bootloader, LineFault

LEMMA InitChecking ==
  ASSUME Init
  PROVE  Checking
<1>1. PICK j \in Job : /\ job = j /\ ses = NewSession(j) /\ mInSession = Begins(j) /\ late = <<>>
                       /\ target = [NewTarget(j.fuse, j.fault) EXCEPT !.held = j.serial /\ Begins(j)]
  BY DEF Init
<1> SUFFICES ASSUME Begins(j)
             PROVE  /\ IsSeq(ses.in) /\ IsSeq(late)
                    /\ Kept(ses, target, ses.in \o late) /\ Calm(ses, ses.in \o late)
  BY <1>1 DEF Checking, Suited
<1>2. /\ ses.stage = "VerifySignature" /\ ses.handler = "GetSync" /\ ses.onSync = "SetDevice"
      /\ ses.in = <<>> /\ ses.out = <<GetSyncCmd>> /\ ses.hex = Rewind
      /\ ses.words = IF j.eep /\ ~j.set THEN EepromPage ELSE FlashPage
      /\ ses.bank = IF j.large /\ (j.set \/ ~j.eep) THEN NoBank ELSE 0
  BY <1>1 DEF NewSession
<1>3. target.ext = 0  BY <1>1 DEF NewTarget
<1>4. Memory = IF j.eep /\ ~j.set THEN "eeprom" ELSE "flash"  BY <1>1 DEF Memory, Operation
<1>5. Before(ses, target)
  <2>1. Waited(ses) = "SetDevice"  BY <1>2 DEF Waited
  <2>2. Due(Waited(ses), ses.stage)  BY <1>2, <2>1 DEF Due, Last, FileStep
  <2>3. ses.words = PageWords  BY <1>2, <1>4 DEF PageWords
  <2>4. Standing(TheFile, ses.hex)  BY <1>2 DEF Standing
  <2>5. Small => ses.bank = 0 /\ target.ext = 0  BY <1>1, <1>2, <1>3 DEF Small
  <2>6. ses.out[1] = GetSyncCmd  BY <1>2
  <2> QED  BY <2>2, <2>3, <2>4, <2>5, <2>6, PlainCommands DEF Before
<1>6. ses.in \o late = <<>>  BY <1>1, <1>2
<1> QED  BY <1>1, <1>2, <1>5, <1>6, NoBytes DEF Kept, Calm

LEMMA NextChecking ==
  ASSUME IInv, Configuring, Checking, [Next]_vars
  PROVE  Checking'
<1>1. ASSUME UNCHANGED vars PROVE Checking'
  <2>1. job' = job /\ ses' = ses /\ target' = target /\ mInSession' = mInSession /\ late' = late
    BY <1>1 DEF vars
  <2>2. Suited => IF mInSession THEN /\ IsSeq(ses.in) /\ IsSeq(late)
                                     /\ Kept(ses, target, ses.in \o late)
                                     /\ Calm(ses, ses.in \o late)
                  ELSE ses.error = "none" => ProgrammedIn(target)
    BY DEF Checking
  <2> QED  BY <2>1, <2>2, CheckingSame
<1> QED
  BY <1>1, UpdateChecking, IspUpdateChecking, BootloaderChecking DEF Next, Over

(* "Success" is true: every word of a file that suits is in its place when *)
(* the session that was to program it ends without an error, whatever      *)
(* fault the chip has, whatever was lost, garbled or late on the line, and *)
(* however often the session fell out of sync; and fuses and lock bits are *)
(* as configured.                                                          *)
THEOREM ProgrammedTheorem == Spec => []SuccessMeansProgrammed
<1>1. Init => Configuring /\ Checking  BY InitConfiguring, InitChecking
<1>2. IInv /\ Configuring /\ Checking /\ [Next]_vars => Configuring' /\ Checking'
  BY NextConfiguring, NextChecking
<1>3. Configuring => SuccessMeansConfigured
  BY DEF Configuring, SuccessMeansConfigured, Ended, Configured
<1>4. Checking => SuccessMeansWords
  BY DEF Checking, Suited, ProgrammedIn, Programmed, SuccessMeansWords, Ended
<1> QED  BY <1>1, <1>2, <1>3, <1>4, Invariance, PTL DEF Spec, SuccessMeansProgrammed

-----------------------------------------------------------------------------
(* No false alarm.  What is assumed of job and file, apart from the state. *)

Words == IF Memory = "eeprom" THEN EepromWords ELSE FlashWords
Sized(d) == DOMAIN d.flash = 0 .. FlashWords - 1 /\ DOMAIN d.eeprom = 0 .. EepromWords - 1

Ordered ==
  /\ job \in Job /\ Begins(job) /\ job.fault = "none"
  /\ Memory = "eeprom" => job.eepromSize >= EepromPage
  /\ NeedsFile(job) =>
       /\ Loadable(TheFile, PageWords) /\ Loadable(TheFile, VerifiedWords) /\ Written(TheFile)
       /\ (job.large /\ Memory = "flash") \/ InFirstBank(TheFile)
       /\ \A c \in Contents(TheFile) : c[1] \in 0 .. Words - 1
Filed == Ordered /\ NeedsFile(job)

(* Memory is as the file says below address b, and erased from there on.   *)
(* With a bootloader, which erases the pages it writes, that goes for them *)
(* only.                                                                   *)
Asked(a) == job.serial => Touched(TheFile, a)
UpTo(d, b) ==
  \A a \in 0 .. Words - 1 :
    /\ a < b /\ Asked(a) => Right(TheFile, a, MemoryOf(d)[a])
    /\ a >= b /\ ~job.serial => MemoryOf(d)[a] = Erased

LEMMA PageSizes ==
  /\ PageWords \in Nat \ {0} /\ VerifiedWords \in Nat \ {0} /\ Words \in Nat
  /\ Words % PageWords = 0 /\ (Memory = "flash" => BankWords % PageWords = 0)
<1>1. PageWords \in Nat \ {0}  BY PageAssumption DEF PageWords
<1>2. Words \in Nat /\ Words % PageWords = 0  BY ChipAssumption DEF Words, PageWords
<1>3. ASSUME Memory = "flash" PROVE BankWords % PageWords = 0
  <2>1. FlashPage \in Nat \ {0} /\ SegmentWords \in Nat \ {0} /\ SegmentWords % FlashPage = 0
    BY PageAssumption, SegmentAssumption
  <2>2. (FlashPage * 1 + 0) % FlashPage = 0
    <3>1. 1 \in Nat /\ 0 \in 0 .. FlashPage - 1  BY <2>1
    <3> QED  BY <2>1, <3>1, Unique
  <2>3. FlashPage % FlashPage = 0  BY <2>1, <2>2
  <2>4. (2 * SegmentWords) % FlashPage = 0  BY <2>1, <2>3, Divides
  <2> QED  BY <1>3, <2>4 DEF PageWords, BankWords
<1> QED  BY <1>1, <1>2, <1>3, VerifiedPages

(* What the run assumes comes to that.                                     *)
LEMMA InOrderOrdered ==
  ASSUME job \in Job, Begins(job), Sized(target), InOrder
  PROVE  Ordered
<1>1. job.fault = "none" /\ (Memory = "eeprom" => job.eepromSize >= EepromPage)  BY DEF InOrder
<1> SUFFICES ASSUME NeedsFile(job)
             PROVE  /\ Loadable(TheFile, PageWords) /\ Loadable(TheFile, VerifiedWords)
                    /\ Written(TheFile)
                    /\ (job.large /\ Memory = "flash") \/ InFirstBank(TheFile)
                    /\ \A c \in Contents(TheFile) : c[1] \in 0 .. Words - 1
  BY <1>1 DEF Ordered
<1> DEFINE f == TheFile
<1>2. SoundFile(f)  BY DEF InOrder
<1>3. TheFile \in Seq(Record)  BY BegunHasFile, FileType
<1>4. /\ GapFree(f, VerifiedWords) /\ Orderly(f) /\ Complete(f) /\ Ascending(f) /\ GapFree(f, PageWords)
      /\ LastPageEnds(f, PageWords) /\ LastPageEnds(f, VerifiedWords) /\ Written(f)
      /\ ((job.large /\ Memory = "flash") \/ InFirstBank(f))
      /\ \A c \in Contents(f) : c[1] \in DOMAIN MemoryOf(target)
  BY <1>2 DEF SoundFile, Suits
<1>5. (Memory = "flash" => BankWords % PageWords = 0 /\ BankWords % VerifiedWords = 0)
  BY PageSizes, VerifiedPages
<1>6. DOMAIN MemoryOf(target) = 0 .. Words - 1  BY DEF MemoryOf, Sized, Words
<1> QED  BY <1>3, <1>4, <1>5, <1>6 DEF Loadable

LEMMA Aligned ==
  ASSUME NEW n \in Nat \ {0}, NEW x \in Nat, NEW b \in Nat, PageOf(b, n) = b
  PROVE  /\ b <= x => b <= PageOf(x, n)
         /\ x < b => PageOf(x, n) + n <= b
<1> DEFINE p == PageOf(x, n)
<1>1. p \in Nat /\ p <= x /\ x < p + n  BY PageBounds
<1>2. b \in p .. p + n - 1 => b = p  BY SamePage
<1> HIDE DEF p
<1>3. b <= x => b <= p  BY <1>1, <1>2
<1>4. x < b => p + n <= b  BY <1>1, <1>2
<1> QED  BY <1>3, <1>4 DEF p

(* Where the file has nothing, what is still erased is right.              *)
LEMMA Bare ==
  ASSUME Filed, NEW d, NEW b \in Nat, UpTo(d, b), PageOf(b, PageWords) = b,
         NEW p \in Nat, PageOf(p, PageWords) = p,
         \A c \in Contents(TheFile) : c[1] \in Nat /\ (c[1] < b \/ c[1] >= p),
         NEW a \in 0 .. Words - 1, b <= a, a < p, Asked(a)
  PROVE  Right(TheFile, a, MemoryOf(d)[a])
<1> DEFINE n == PageWords
<1>1. n \in Nat \ {0} /\ Words \in Nat /\ a \in Nat  BY PageSizes
<1>2. b <= PageOf(a, n) /\ PageOf(a, n) + n <= p  BY <1>1, Aligned
<1>3. ~Touched(TheFile, a)
  <2> SUFFICES ASSUME NEW c \in Contents(TheFile), PageOf(c[1], n) = PageOf(a, n) PROVE FALSE
    BY DEF Touched
  <2> DEFINE x == c[1]
  <2>1. x \in Nat /\ (x < b \/ x >= p)  OBVIOUS
  <2>2. PageOf(x, n) \in Nat /\ PageOf(x, n) <= x /\ x < PageOf(x, n) + n  BY <1>1, <2>1, PageBounds
  <2>3. PageOf(x, n) = PageOf(a, n)  OBVIOUS
  <2> HIDE DEF x, n
  <2> QED  BY <1>1, <1>2, <2>1, <2>2, <2>3
<1>4. ~job.serial  BY <1>3 DEF Asked
<1>5. MemoryOf(d)[a] = Erased  BY <1>1, <1>4 DEF UpTo
<1>6. \A c \in Contents(TheFile) : c[1] # a
  <2> SUFFICES ASSUME NEW c \in Contents(TheFile), c[1] = a PROVE FALSE  OBVIOUS
  <2> QED  BY <1>1
<1> QED  BY <1>5, <1>6 DEF Right

LEMMA Advance ==
  ASSUME Filed, NEW d, NEW b \in Nat, UpTo(d, b), PageOf(b, PageWords) = b,
         NEW p \in Nat, PageOf(p, PageWords) = p, b <= p,
         \A c \in Contents(TheFile) : c[1] \in Nat /\ (c[1] < b \/ c[1] >= p)
  PROVE  UpTo(d, p)
<1> SUFFICES ASSUME NEW a \in 0 .. Words - 1
             PROVE  /\ a < p /\ Asked(a) => Right(TheFile, a, MemoryOf(d)[a])
                    /\ a >= p /\ ~job.serial => MemoryOf(d)[a] = Erased
  BY DEF UpTo
<1>1. a \in Nat  BY PageSizes
<1>2. ASSUME a < p, Asked(a) PROVE Right(TheFile, a, MemoryOf(d)[a])
  <2>1. CASE a < b  BY <1>2, <2>1 DEF UpTo
  <2>2. CASE b <= a  BY <1>2, <2>2, Bare
  <2> QED  BY <1>1, <2>1, <2>2
<1>3. ASSUME a >= p, ~job.serial PROVE MemoryOf(d)[a] = Erased
  <2>1. a >= b  BY <1>1, <1>3
  <2> QED  BY <1>3, <2>1 DEF UpTo
<1> QED  BY <1>2, <1>3

(* Behind the last word of the file everything is in its place.            *)
LEMMA AllThere ==
  ASSUME Filed, NEW d, NEW b \in Nat, UpTo(d, b), PageOf(b, PageWords) = b,
         \A c \in Contents(TheFile) : c[1] \in Nat /\ c[1] < b
  PROVE  UpTo(d, Words)
<1>1. Words \in Nat /\ PageWords \in Nat \ {0} /\ Words % PageWords = 0  BY PageSizes
<1>2. PageOf(Words, PageWords) = Words  BY <1>1 DEF PageOf
<1> SUFFICES ASSUME NEW a \in 0 .. Words - 1
             PROVE  /\ a < Words /\ Asked(a) => Right(TheFile, a, MemoryOf(d)[a])
                    /\ ~(a >= Words)
  BY DEF UpTo
<1>3. a \in Nat /\ a < Words  BY <1>1
<1>4. ASSUME Asked(a) PROVE Right(TheFile, a, MemoryOf(d)[a])
  <2>1. CASE a < b  BY <1>4, <2>1 DEF UpTo
  <2>2. CASE b <= a  BY <1>1, <1>2, <1>3, <1>4, <2>2, Bare
  <2> QED  BY <1>3, <2>1, <2>2
<1> QED  BY <1>1, <1>3, <1>4

(* A page of the right words has been written.                             *)
LEMMA Grows ==
  ASSUME NEW d, NEW p \in Nat, UpTo(d, p), NEW n \in Nat, NEW ws, Len(ws) = n,
         PageRight(TheFile, p, ws), NEW e,
         \A a \in 0 .. Words - 1 :
           MemoryOf(e)[a] = IF a \in p .. p + n - 1 THEN ws[a - p + 1] ELSE MemoryOf(d)[a]
  PROVE  UpTo(e, p + n)
<1> SUFFICES ASSUME NEW a \in 0 .. Words - 1
             PROVE  /\ a < p + n /\ Asked(a) => Right(TheFile, a, MemoryOf(e)[a])
                    /\ a >= p + n /\ ~job.serial => MemoryOf(e)[a] = Erased
  BY DEF UpTo
<1>1. a \in Nat  BY PageSizes
<1>2. ASSUME a < p + n, Asked(a) PROVE Right(TheFile, a, MemoryOf(e)[a])
  <2>1. CASE a < p
    <3>1. MemoryOf(e)[a] = MemoryOf(d)[a]  BY <1>1, <2>1
    <3> QED  BY <1>2, <2>1, <3>1 DEF UpTo
  <2>2. CASE a >= p
    <3> DEFINE j == a - p + 1
    <3>1. j \in 1 .. n /\ p + j - 1 = a /\ a \in p .. p + n - 1  BY <1>1, <1>2, <2>2
    <3>2. MemoryOf(e)[a] = ws[j]  BY <3>1
    <3>3. Right(TheFile, p + j - 1, ws[j])  BY <3>1 DEF PageRight
    <3> HIDE DEF j
    <3> QED  BY <3>1, <3>2, <3>3
  <2> QED  BY <1>1, <2>1, <2>2
<1>3. ASSUME a >= p + n, ~job.serial PROVE MemoryOf(e)[a] = Erased
  <2>1. MemoryOf(e)[a] = MemoryOf(d)[a] /\ a >= p  BY <1>1, <1>3
  <2> QED  BY <1>3, <2>1 DEF UpTo
<1> QED  BY <1>2, <1>3

Reply(d, c) == IF job.serial THEN BootloaderCommand(d, c) ELSE IspCommand(d, c)
(* Where the target reads and writes next.                                 *)
Where(d) == IF Memory = "flash" THEN d.ext * BankWords + d.address ELSE d.address

LEMMA InstructionSized ==
  ASSUME NEW x, NEW d, Chip(d, x), Sized(d), NEW i, i.op \in Instruction
  PROVE  Sized(TransferInstruction(d, i).target)
<1>1. /\ Sized([d EXCEPT !.lock = "locked"]) /\ Sized([d EXCEPT !.fuse[i.fuse] = "configured"])
      /\ Sized([d EXCEPT !.ext = i.bank])
  BY DEF Chip, ChipField, Sized
<1>2. Sized(ChipErase(d))  BY DEF Chip, ChipField, Sized, ChipErase
<1> QED  BY <1>1, <1>2 DEF TransferInstruction, Instruction

LEMMA WritesSized ==
  ASSUME NEW x, NEW d, Chip(d, x), Sized(d), NEW ws
  PROVE  /\ Sized(WriteProgramPages(d, ws)) /\ Sized(WriteEeprom(d, ws))
         /\ Sized([d EXCEPT !.flash = Stored(d, @, ws, LAMBDA a, w : w)])
<1>1. Sized(WriteProgramPages(d, ws))  BY DEF Chip, ChipField, Sized, WriteProgramPages, Stored
<1>2. Sized(WriteEeprom(d, ws))  BY DEF Chip, ChipField, Sized, WriteEeprom
<1>3. Sized([d EXCEPT !.flash = Stored(d, @, ws, LAMBDA a, w : w)])
  BY DEF Chip, ChipField, Sized, Stored
<1> QED  BY <1>1, <1>2, <1>3

LEMMA FieldsSized ==
  ASSUME NEW x, NEW d, Chip(d, x), Sized(d), NEW v
  PROVE  /\ Sized([d EXCEPT !.eepromSize = v]) /\ Sized([d EXCEPT !.eepromPage = v])
         /\ Sized([d EXCEPT !.address = v]) /\ Sized([d EXCEPT !.ext = v])
         /\ Sized(EnterProgMode(d)) /\ Sized(LeaveProgMode(d))
BY DEF Chip, ChipField, Sized, EnterProgMode, LeaveProgMode

LEMMA ReplySized ==
  ASSUME NEW x, NEW d, Chip(d, x), Sized(d), NEW c, Known(c)
  PROVE  Sized(IspCommand(d, c).target) /\ Sized(BootloaderCommand(d, c).target)
<1> USE DEF Answer, DoEmptyReply, DoOneByteReply
<1>1. Sized(SetDeviceProgParams(d, c).target) /\ Sized(SetExtDeviceProgParams(d, c).target)
  BY FieldsSized DEF SetDeviceProgParams, SetExtDeviceProgParams
<1>2. Sized(DoEmptyReply(IF d.held THEN d ELSE EnterProgMode(d)).target)
      /\ Sized(DoEmptyReply(LeaveProgMode(d)).target) /\ Sized(DoEmptyReply(d).target)
  BY FieldsSized
<1>3. Sized(DoEmptyReply([d EXCEPT !.address = c.address]).target)  BY FieldsSized
<1>4. c.cmd = "UNIVERSAL" => Sized(Universal(d, c).target)  BY InstructionSized DEF Universal, Known
<1>5. Sized(ProgramPage(d, c).target)  BY WritesSized DEF ProgramPage
<1>6. Sized(ReadPage(d, c).target) /\ Sized(ReadSignature(d).target)
  BY FieldsSized DEF ReadPage, ReadSignature
<1>7. Sized(DoOneByteReply(IF c.inst.op = "loadExt" THEN [d EXCEPT !.ext = c.inst.bank] ELSE d, 0).target)
  BY FieldsSized
<1>8. Sized(DoEmptyReply([d EXCEPT !.flash = Stored(d, @, c.words, LAMBDA a, w : w)]).target)
      /\ Sized(DoEmptyReply(WriteEeprom(d, c.words)).target)
  BY WritesSized
<1> HIDE DEF Answer, DoEmptyReply, DoOneByteReply
<1>9. Sized(IspCommand(d, c).target)
  BY <1>1, <1>2, <1>3, <1>4, <1>5, <1>6 DEF IspCommand, Known, CommandName
<1>10. Sized(BootloaderCommand(d, c).target)
  BY <1>2, <1>3, <1>6, <1>7, <1>8 DEF BootloaderCommand, Known, CommandName
<1> QED  BY <1>9, <1>10

-----------------------------------------------------------------------------
(* A page is written.                                                      *)

Burnt(d, ws) == Stored(d, d.flash, ws, LAMBDA x, w : Burn(d, x, w))
Copied(d, ws) == Stored(d, d.flash, ws, LAMBDA x, w : w)

LEMMA StoredPage ==
  ASSUME NEW d, NEW n \in Nat, NEW ws, Len(ws) = n, NEW p \in Nat, Where(d) = p, Memory = "flash",
         NEW a \in DOMAIN d.flash, a \in Nat
  PROVE  /\ Burnt(d, ws)[a] = IF a \in p .. p + n - 1 THEN Burn(d, a, ws[a - p + 1]) ELSE d.flash[a]
         /\ Copied(d, ws)[a] = IF a \in p .. p + n - 1 THEN ws[a - p + 1] ELSE d.flash[a]
<1>0. d.ext * BankWords + d.address = p  BY DEF Where
<1>1. \A i \in 1 .. n : At(d, i) = p + i - 1  BY <1>0 DEF At
<1>2. At(d, 1) = p  BY <1>0 DEF At
<1>3. (\E i \in 1 .. Len(ws) : At(d, i) = a) <=> a \in p .. p + n - 1
  <2>1. ASSUME a \in p .. p + n - 1 PROVE \E i \in 1 .. n : At(d, i) = a
    <3>1. a - p + 1 \in 1 .. n /\ p + (a - p + 1) - 1 = a  BY <2>1
    <3> QED  BY <1>1, <3>1
  <2>2. ASSUME NEW i \in 1 .. n, At(d, i) = a PROVE a \in p .. p + n - 1
    <3>1. a = p + i - 1  BY <1>1, <2>2
    <3> QED  BY <3>1
  <2> QED  BY <2>1, <2>2
<1>4. Burnt(d, ws)[a]
        = IF \E i \in 1 .. Len(ws) : At(d, i) = a THEN Burn(d, a, ws[a - At(d, 1) + 1]) ELSE d.flash[a]
  BY DEF Stored, Burnt
<1>5. Copied(d, ws)[a]
        = IF \E i \in 1 .. Len(ws) : At(d, i) = a THEN ws[a - At(d, 1) + 1] ELSE d.flash[a]
  BY DEF Stored, Copied
<1> QED  BY <1>2, <1>3, <1>4, <1>5

(* What PROG_PAGE does, with the programmer or with the bootloader.        *)
LEMMA PageWritten ==
  ASSUME Ordered, NEW d, Chip(d, "none"), Sized(d), NEW n \in Nat, NEW ws, Len(ws) = n,
         NEW p \in Nat, Where(d) = p, UpTo(d, p),
         Memory = "eeprom" /\ ~job.serial => n <= d.eepromSize,
         NEW r, r = Reply(d, ProgPageCmd(Memory, ws))
  PROVE  /\ r.reply = <<STK_INSYNC, STK_OK>>
         /\ r.target.ext = d.ext /\ r.target.eepromSize = d.eepromSize
         /\ \A a \in 0 .. Words - 1 :
              MemoryOf(r.target)[a] = IF a \in p .. p + n - 1 THEN ws[a - p + 1] ELSE MemoryOf(d)[a]
<1> DEFINE c == ProgPageCmd(Memory, ws)
           W(e) == \A a \in 0 .. Words - 1 :
                     MemoryOf(e)[a] = IF a \in p .. p + n - 1 THEN ws[a - p + 1] ELSE MemoryOf(d)[a]
<1>1. c.cmd = "PROG_PAGE" /\ c.mem = Memory /\ c.words = ws  BY DEF ProgPageCmd
<1>2. Memory \in {"flash", "eeprom"}  BY DEF Memory
<1>3. DOMAIN d = ChipField  BY DEF Chip
<1> HIDE DEF c
<1>4. \A e : DoEmptyReply(e).target = e /\ DoEmptyReply(e).reply = <<STK_INSYNC, STK_OK>>
  BY DEF DoEmptyReply, Answer
<1>5. CASE Memory = "flash"
  <2> DEFINE u == Burnt(d, ws)
             v == Copied(d, ws)
             e == [d EXCEPT !.flash = u, !.address = @ + Len(ws)]
             g == [d EXCEPT !.flash = v]
  <2>1. r = DoEmptyReply(IF job.serial THEN g ELSE e)
    BY <1>1, <1>5 DEF Reply, c, BootloaderCommand, IspCommand, ProgramPage, WriteProgramPages, Burnt, Copied
  <2>2. e.flash = u /\ e.ext = d.ext /\ e.eepromSize = d.eepromSize
        /\ g.flash = v /\ g.ext = d.ext /\ g.eepromSize = d.eepromSize
    <3> HIDE DEF u, v
    <3> QED  BY <1>3 DEF ChipField
  <2>4. ASSUME NEW a \in 0 .. Words - 1
        PROVE  /\ a \in DOMAIN d.flash /\ a \in Nat
               /\ v[a] = IF a \in p .. p + n - 1 THEN ws[a - p + 1] ELSE d.flash[a]
               /\ u[a] = IF a \in p .. p + n - 1 THEN Burn(d, a, ws[a - p + 1]) ELSE d.flash[a]
    <3>1. a \in DOMAIN d.flash /\ a \in Nat  BY <1>5, PageSizes DEF Sized, Words
    <3> QED  BY <1>5, <3>1, StoredPage
  <2> HIDE DEF u, v, e, g
  <2>5. \A x : MemoryOf(x) = x.flash  BY <1>5 DEF MemoryOf
  <2>6. job.serial => W(g)  BY <2>2, <2>4, <2>5
  <2>7. ASSUME ~job.serial PROVE W(e)
    <3> SUFFICES ASSUME NEW a \in 0 .. Words - 1, a \in p .. p + n - 1
                 PROVE  Burn(d, a, ws[a - p + 1]) = ws[a - p + 1]
      BY <2>2, <2>4, <2>5
    <3>1. d.flash[a] = Erased  BY <2>5, <2>7 DEF UpTo
    <3>2. d.fault # "deadWord"  BY DEF Chip
    <3> QED  BY <3>1, <3>2 DEF Burn
  <2>8. r.target = (IF job.serial THEN g ELSE e) /\ r.reply = <<STK_INSYNC, STK_OK>>  BY <1>4, <2>1
  <2>9. W(r.target)  BY <2>6, <2>7, <2>8
  <2> QED  BY <2>2, <2>8, <2>9
<1>6. CASE Memory = "eeprom"
  <2> DEFINE u == [a \in DOMAIN d.eeprom |-> IF a \in d.address .. (d.address + Len(ws) - 1)
                                               THEN ws[a - d.address + 1] ELSE d.eeprom[a]]
             e == [d EXCEPT !.eeprom = u]
  <2>1. WriteEeprom(d, ws) = e  BY DEF WriteEeprom
  <2>2. e.eeprom = u /\ e.ext = d.ext /\ e.eepromSize = d.eepromSize
    <3> HIDE DEF u
    <3> QED  BY <1>3 DEF ChipField
  <2> HIDE DEF e
  <2>3. r = DoEmptyReply(e)
    BY <1>1, <1>6, <2>1 DEF Reply, c, BootloaderCommand, IspCommand, ProgramPage
  <2>4. d.address = p  BY <1>6 DEF Where
  <2>5. \A x : MemoryOf(x) = x.eeprom  BY <1>6 DEF MemoryOf
  <2>6. DOMAIN d.eeprom = 0 .. Words - 1  BY <1>6 DEF Sized, Words
  <2>7. \A a \in 0 .. Words - 1 : u[a] = IF a \in p .. p + n - 1 THEN ws[a - p + 1] ELSE d.eeprom[a]
    BY <2>4, <2>6
  <2> HIDE DEF u
  <2>8. r.target = e /\ r.reply = <<STK_INSYNC, STK_OK>>  BY <1>4, <2>3
  <2> QED  BY <2>2, <2>5, <2>7, <2>8
<1> QED  BY <1>2, <1>5, <1>6

(* The page in which the reader stands, when it is verified: all of it has *)
(* been written, so all of it can be relied on.                            *)
LEMMA PageTouched ==
  ASSUME Filed, NEW h, Placed(h), Standing(TheFile, h), InHand(h),
         NEW p, p = PageOf(WordAddress(h), VerifiedWords), NEW a \in p .. p + VerifiedWords - 1
  PROVE  a \in 0 .. Words - 1 /\ Asked(a)
<1> DEFINE n == PageWords
           f == TheFile
<1>1. /\ n \in Nat \ {0} /\ VerifiedWords \in Nat \ {0} /\ Words \in Nat /\ Words % n = 0
  BY PageSizes
<1>2. /\ f \in Seq(Record) /\ Written(f) /\ \A c \in Contents(f) : c[1] \in 0 .. Words - 1
  BY DEF Filed, Ordered, Loadable
<1>3. WordAddress(h) \in Nat  BY WordAddressType DEF Placed
<1>4. p \in Nat  BY <1>1, <1>3, PageBounds
<1>5. PICK c \in Contents(f) : c[1] = WordAddress(h)
  <2> DEFINE i == h.pos - 1
             k == h.index + 1
  <2>1. i \in DataRecords(f) /\ k \in WordOf(f, i) /\ Address(f, i, k) = WordAddress(h)
    BY <1>2, HandWord DEF Placed
  <2> HIDE DEF i, k
  <2> DEFINE c == <<Address(f, i, k), f[i].words[k]>>
  <2>2. c \in Contents(f)  BY <2>1, ContentWords
  <2>3. c[1] = WordAddress(h)  BY <2>1
  <2> QED  BY <2>2, <2>3
<1>6. Touched(f, a)  BY <1>2, <1>5 DEF Written
<1>7. PICK e \in Contents(f) : PageOf(e[1], n) = PageOf(a, n)  BY <1>6 DEF Touched
<1>8. a < Words
  <2> DEFINE x == e[1]
  <2>1. x \in Nat /\ x < Words /\ PageOf(x, n) = PageOf(a, n)  BY <1>1, <1>2, <1>7
  <2> HIDE DEF x, n
  <2>2. PageOf(Words, n) = Words  BY <1>1 DEF PageOf
  <2>3. PageOf(x, n) + n <= Words  BY <1>1, <2>1, <2>2, Aligned
  <2>4. a \in Nat  BY <1>1, <1>4
  <2>5. a < PageOf(a, n) + n /\ PageOf(a, n) \in Nat  BY <1>1, <2>4, PageBounds
  <2> QED  BY <1>1, <2>1, <2>3, <2>4, <2>5
<1> QED  BY <1>1, <1>4, <1>6, <1>8 DEF Asked

(* The page as the file has it, between STK_INSYNC and STK_OK.             *)
LEMMA PageRead ==
  ASSUME Filed, NEW d, Chip(d, "none"), UpTo(d, Words), NEW h, Placed(h), Standing(TheFile, h), InHand(h),
         NEW p, p = PageOf(WordAddress(h), VerifiedWords), Where(d) = p,
         NEW ws \in Seq(Nat), Len(ws) = VerifiedWords, PageRight(TheFile, p, ws),
         NEW r, r = Reply(d, ReadPageCmd(Memory, VerifiedWords))
  PROVE  /\ Enclosing(ws, r.reply)
         /\ r.target.ext = d.ext /\ MemoryOf(r.target) = MemoryOf(d)
<1> DEFINE n == VerifiedWords
           c == ReadPageCmd(Memory, n)
           g == IF Memory = "flash" THEN ReadProgramPage(d, n) ELSE ReadEepromPage(d, n)
<1>1. c.cmd = "READ_PAGE" /\ c.mem = Memory /\ c.length = n  BY DEF ReadPageCmd
<1> HIDE DEF c
<1>2. r = ReadPage(d, c)  BY <1>1 DEF Reply, BootloaderCommand, IspCommand, c
<1>3. r.reply = <<STK_INSYNC>> \o g \o <<STK_OK>>  BY <1>1, <1>2 DEF ReadPage, Answer
<1>4. r.target.ext = d.ext /\ r.target.flash = d.flash /\ r.target.eeprom = d.eeprom
  <2> DEFINE u == [d EXCEPT !.address = @ + c.length]
  <2>1. r.target = d \/ r.target = u  BY <1>2 DEF ReadPage, Answer
  <2>2. u.ext = d.ext /\ u.flash = d.flash /\ u.eeprom = d.eeprom  BY DEF Chip, ChipField
  <2> HIDE DEF u
  <2> QED  BY <2>1, <2>2
<1>5. n \in Nat  BY PageSizes
<1>6. p \in Nat
  <2>1. WordAddress(h) \in Nat  BY WordAddressType DEF Placed
  <2> QED  BY <2>1, PageSizes, PageBounds
<1>7. \A a \in p .. p + n - 1 : a \in 0 .. Words - 1 /\ Asked(a)  BY PageTouched
<1> HIDE DEF n
<1>8. ASSUME NEW i \in 1 .. n PROVE MemoryOf(d)[p + i - 1] = ws[i]
  <2> DEFINE a == p + i - 1
  <2>1. a \in p .. p + n - 1  BY <1>5, <1>6
  <2>2. a \in 0 .. Words - 1 /\ Asked(a)  BY <1>7, <2>1
  <2>3. a < Words  BY <1>5, <1>6, <2>2, PageSizes
  <2>4. Right(TheFile, a, MemoryOf(d)[a])  BY <2>2, <2>3 DEF UpTo
  <2>5. Right(TheFile, p + i - 1, ws[i])  BY DEF PageRight, n
  <2>6. Right(TheFile, a, ws[i])  BY <2>5
  <2> HIDE DEF a
  <2>7. TheFile \in Seq(Record) /\ Ascending(TheFile)  BY DEF Filed, Ordered, Loadable
  <2>8. MemoryOf(d)[a] = ws[i]  BY <2>4, <2>6, <2>7, RightOnce
  <2> QED  BY <2>8 DEF a
<1>9. g = [i \in 1 .. n |-> g[i]] /\ \A i \in 1 .. n : g[i] = ws[i]
  <2>1. CASE Memory = "flash"
    <3>1. g = [i \in 1 .. n |-> d.flash[At(d, i)]]  BY <2>1 DEF ReadProgramPage
    <3>2. d.ext * BankWords + d.address = p  BY <2>1 DEF Where
    <3>3. \A i \in 1 .. n : At(d, i) = p + i - 1  BY <3>2 DEF At
    <3>4. MemoryOf(d) = d.flash  BY <2>1 DEF MemoryOf
    <3> HIDE DEF g
    <3> QED  BY <1>8, <3>1, <3>3, <3>4
  <2>2. CASE Memory # "flash"
    <3>1. g = [i \in 1 .. n |-> d.eeprom[d.address + i - 1]]  BY <2>2 DEF ReadEepromPage
    <3>2. MemoryOf(d) = d.eeprom  BY <2>2 DEF MemoryOf, Memory
    <3>3. d.address = p  BY <2>2 DEF Where
    <3> HIDE DEF g
    <3> QED  BY <1>8, <3>1, <3>2, <3>3
  <2> QED  BY <2>1, <2>2
<1> HIDE DEF g
<1>10. g = ws
  <2>1. Len(ws) = n  BY DEF n
  <2>2. ws = [i \in 1 .. n |-> ws[i]]  BY <2>1
  <2> QED  BY <1>9, <2>2
<1>11. Enclosing(ws, r.reply)
  <2>1. IsSeq(ws)  BY DEF IsSeq
  <2> QED  BY <1>3, <1>10, <2>1, PageBytes
<1> QED  BY <1>4, <1>11, MemoryKept

-----------------------------------------------------------------------------
(* A session in order, which has sent a command and waits for its answer.  *)

Idle(s) ==
  DOMAIN s = SessionField /\ s.error = "none" /\ s.timing = FALSE /\ s.stage # "SessionCompleted"
Clear(s) == Idle(s) /\ s.in = <<>>
Sole(s, h, c) == s.handler = h /\ s.out = <<c>>
(* t goes on from s, whatever it has read or sent since.                   *)
From(s, t) ==
  /\ Idle(t) /\ t.stage = s.stage /\ t.modifier = s.modifier /\ t.hex = s.hex /\ t.page = s.page
  /\ t.words = s.words /\ t.bank = s.bank

(* What the target knows of the session's bank, and of the EEPROM.         *)
Knows(s, d) ==
  Memory = "flash" => (s.bank # NoBank => d.ext = s.bank) /\ (~job.large => d.ext = 0)
Equipped(d) == Memory = "eeprom" /\ ~job.serial => d.eepromSize >= EepromPage

(* Before the first page.                                                  *)
Rewound(s, d) ==
  s.hex = Rewind /\ s.page = NoPage /\ s.words = PageWords /\ Knows(s, d)
Opening(s, d) ==
  /\ Rewound(s, d) /\ s.stage = "VerifySignature"
  /\ \/ Sole(s, "GetSync", GetSyncCmd) /\ s.onSync = "SetDevice"
     \/ Sole(s, "SetDevice", SetDeviceCmd(job.eepromSize))
     \/ /\ Equipped(d)
        /\ \/ Sole(s, "SetDeviceExt", SetDeviceExtCmd(EepromPage))
           \/ Sole(s, "EnterProgramMode", EnterProgModeCmd)
           \/ Sole(s, "ReadSignature", ReadSignCmd)
           \/ Sole(s, "ChipErase", UniversalCmd([op |-> "chipErase"]))

(* Something is read twice by rd, in between it is written by wr unless it *)
(* is as it shall be, which ok says.                                       *)
Asking(s, h, rd, wr, ok) ==
  \/ /\ Sole(s, h, rd)
     /\ s.modifier = {} \/ (ok /\ s.modifier \in {{"FuseVerified"}, {"FuseWritten"}})
  \/ Sole(s, h, wr) /\ s.modifier = {"FuseWritten", "FuseWriteResponse"}
ReadFuseCmd(s) == UniversalCmd([op |-> "readFuse", fuse |-> FuseOf(s)])
WriteFuseCmd(s) == UniversalCmd([op |-> "writeFuse", fuse |-> FuseOf(s)])
ReadLockCmd == UniversalCmd([op |-> "readLock"])
WriteLockCmd == UniversalCmd([op |-> "writeLock"])
Configures(s, d) ==
  /\ job.set /\ Rewound(s, d) /\ UpTo(d, 0)
  /\ \/ /\ s.stage = "VerifyUnlocked" /\ d.lock = "unlocked"
        /\ \/ Sole(s, "EnterProgramMode", EnterProgModeCmd)
           \/ Sole(s, "VerifyUnlocked", ReadLockCmd) /\ s.modifier \subseteq {"FuseVerified"}
     \/ /\ s.stage \in FuseStage
        /\ Asking(s, "VerifyFuse", ReadFuseCmd(s), WriteFuseCmd(s), d.fuse[FuseOf(s)] = "configured")
     \/ s.stage = "LoadingFlash" /\ Sole(s, "EnterProgramMode", EnterProgModeCmd)

(* Pages.  The reader has passed what is below address b; loading, memory  *)
(* has been written so far, verifying, all of it.                          *)
Reaches(s, d, b) ==
  Split(TheFile, s.hex, b) /\ UpTo(d, IF Loading(s) THEN b ELSE Words)
Files(s, d) ==
  /\ NeedsFile(job) /\ Equipped(d) /\ Placed(s.hex) /\ Standing(TheFile, s.hex)
  /\ \/ Loading(s) /\ s.words = PageWords
     \/ Verifying(s) /\ s.words = VerifiedWords
Facing(s, d) == InHand(s.hex) /\ s.bank = Bank(s.hex) /\ Reaches(s, d, PageIn(s))
Announcing(s, d) ==
  /\ Facing(s, d)
  /\ \/ /\ Sole(s, "LoadExtAddress", UniversalCmd([op |-> "loadExt", bank |-> s.bank]))
        /\ s.page # PageIn(s)
     \/ /\ Sole(s, "LoadAddress", LoadAddressCmd(s.page % BankWords))
        /\ s.page = PageIn(s) /\ Knows(s, d)
Comparing(s, d) ==
  /\ Verifying(s) /\ Sole(s, "ProcessPage", ReadPageCmd(Memory, s.words))
  /\ Facing(s, d) /\ s.page = PageIn(s) /\ Knows(s, d) /\ Where(d) = s.page
Writing(s, d) ==
  /\ Loading(s) /\ Knows(s, d) /\ Where(d) = s.page
  /\ s.page \in Nat /\ PageOf(s.page, s.words) = s.page
  /\ s.hex.type \in {"data", "eof"} /\ Split(TheFile, s.hex, s.page + s.words) /\ UpTo(d, s.page)
  /\ \E ws \in Seq(Nat) : /\ Sole(s, "ProcessPage", ProgPageCmd(Memory, ws))
                          /\ Len(ws) = s.words /\ PageRight(TheFile, s.page, ws)
Filing(s, d) == Files(s, d) /\ (Announcing(s, d) \/ Comparing(s, d) \/ Writing(s, d))

Closing(s, d) ==
  \/ /\ job.set /\ s.stage = "VerifyLockBits"
     /\ Asking(s, "VerifyLockBits", ReadLockCmd, WriteLockCmd, d.lock = "locked")
  \/ Sole(s, "LeaveProgramMode", LeaveProgModeCmd)

Asks(s, d) == Clear(s) /\ (Opening(s, d) \/ Configures(s, d) \/ Filing(s, d) \/ Closing(s, d))

-----------------------------------------------------------------------------
(* Sending a page, or what announces it.                                   *)

LEMMA Sending ==
  ASSUME NEW s, Clear(s), NEW h, NEW c
  PROVE  LET t == Send(s, h, c) IN Clear(t) /\ From(s, t) /\ Sole(t, h, c)
BY DEF Clear, Idle, From, Sole, Send, SessionField

LEMMA Forth ==
  ASSUME NEW s, NEW t, From(s, t)
  PROVE  /\ PageIn(t) = PageIn(s) /\ (Loading(t) <=> Loading(s)) /\ (Verifying(t) <=> Verifying(s))
         /\ \A d : /\ Files(t, d) <=> Files(s, d)
                   /\ Facing(t, d) <=> Facing(s, d)
                   /\ Knows(t, d) <=> Knows(s, d)
                   /\ Rewound(t, d) <=> Rewound(s, d)
                   /\ \A b : Reaches(t, d, b) <=> Reaches(s, d, b)
<1>1. /\ t.stage = s.stage /\ t.hex = s.hex /\ t.page = s.page /\ t.words = s.words /\ t.bank = s.bank
  BY DEF From
<1>2. PageIn(t) = PageIn(s) /\ (Loading(t) <=> Loading(s)) /\ (Verifying(t) <=> Verifying(s))
  BY <1>1 DEF PageIn, Loading, Verifying
<1>3. \A d : Files(t, d) <=> Files(s, d)  BY <1>1, <1>2 DEF Files
<1>4. \A d, b : Reaches(t, d, b) <=> Reaches(s, d, b)  BY <1>1, <1>2 DEF Reaches
<1>5. \A d : Facing(t, d) <=> Facing(s, d)  BY <1>1, <1>2, <1>4 DEF Facing
<1>6. \A d : Knows(t, d) <=> Knows(s, d)  BY <1>1 DEF Knows
<1>7. \A d : Rewound(t, d) <=> Rewound(s, d)  BY <1>1, <1>6 DEF Rewound
<1> QED  BY <1>2, <1>3, <1>4, <1>5, <1>6, <1>7

LEMMA AsksPage ==
  ASSUME Filed, NEW s, Clear(s), NEW d, Files(s, d), Facing(s, d), s.page = PageIn(s), Knows(s, d),
         Where(d) = s.page
  PROVE  Asks(SendPage(s), d)
<1> DEFINE n == s.words
           l == LoadPageFromSD(TheFile, s.hex, n)
           t == [s EXCEPT !.hex = l.hex]
<1>1. CASE Verifying(s)
  <2> DEFINE u == Send(s, "ProcessPage", ReadPageCmd(Memory, n))
  <2>1. ~Loading(s)  BY <1>1 DEF Verifying, Loading
  <2>2. SendPage(s) = u  BY <2>1 DEF SendPage
  <2>3. Clear(u) /\ From(s, u) /\ Sole(u, "ProcessPage", ReadPageCmd(Memory, n))  BY Sending
  <2> HIDE DEF u
  <2>4. u.words = n /\ u.page = s.page  BY <2>3 DEF From
  <2>5. Files(u, d) /\ Facing(u, d) /\ PageIn(u) = PageIn(s) /\ Knows(u, d) /\ Verifying(u)
    BY <1>1, <2>3, Forth
  <2>6. Comparing(u, d)  BY <2>3, <2>4, <2>5 DEF Comparing
  <2> QED  BY <2>2, <2>3, <2>5, <2>6 DEF Asks, Filing
<1>2. CASE Loading(s)
  <2>1. n = PageWords  BY <1>2 DEF Files, Loading, Verifying
  <2>2. n \in Nat \ {0} /\ Loadable(TheFile, n) /\ TheFile \in Seq(Record)
    BY <2>1, PageSizes DEF Filed, Ordered, Loadable
  <2>3. Placed(s.hex) /\ Standing(TheFile, s.hex) /\ InHand(s.hex)  BY DEF Files, Facing
  <2>4. Split(TheFile, s.hex, s.page) /\ UpTo(d, s.page)  BY <1>2 DEF Facing, Reaches
  <2>5. s.page = PageOf(WordAddress(s.hex), n)  BY DEF PageIn
  <2>6. Fresh(TheFile, s.hex, s.page)  BY <2>4 DEF Fresh, Split
  <2>7. /\ l \in Page(n) /\ l.ok /\ Len(l.data) = n /\ PageRight(TheFile, s.page, l.data)
        /\ Filling(TheFile, s.hex, n, l) /\ Split(TheFile, l.hex, s.page + n)
    <3> HIDE DEF l, n
    <3> QED  BY <2>2, <2>3, <2>5, <2>6, FullPage DEF l
  <2>8. Placed(l.hex) /\ l.data \in Seq(Nat)
    <3> HIDE DEF l
    <3> QED  BY <2>7 DEF Page
  <2>9. Standing(TheFile, l.hex) /\ l.hex.type \in {"data", "eof"}
    <3> HIDE DEF l
    <3> QED  BY <2>7 DEF Filling
  <2>10. s.page \in Nat /\ PageOf(s.page, n) = s.page
    <3>1. s.hex \in Reader  BY <2>3 DEF Placed
    <3> HIDE DEF n
    <3> QED  BY <2>2, <2>3, <2>5, <3>1, PageStands DEF Loadable
  <2> DEFINE c == ProgPageCmd(Memory, l.data)
             u == Send(t, "ProcessPage", c)
  <2>11. SendPage(s) = u
    <3> DEFINE W(x) == LET y == [s EXCEPT !.hex = x.hex] IN
                       IF x.ok THEN Send(y, "ProcessPage", ProgPageCmd(Memory, x.data))
                       ELSE Fail(Send(y, "ProcessPage", TruncatedCmd), "LoadHexData")
    <3>1. With(l, W) = W(l)
      <4> HIDE DEF W
      <4> QED  BY Zenon DEF With
    <3>2. SendPage(s) = With(l, W)  BY <1>2, Zenon DEF SendPage
    <3>3. W(l) = u  BY <2>7
    <3> QED  BY <3>1, <3>2, <3>3
  <2> HIDE DEF l, c
  <2>12. /\ Clear(t) /\ t.stage = s.stage /\ t.page = s.page /\ t.words = n /\ t.bank = s.bank
         /\ t.hex = l.hex
    BY DEF Clear, Idle, SessionField
  <2> HIDE DEF t
  <2>13. Clear(u) /\ From(t, u) /\ Sole(u, "ProcessPage", c)  BY <2>12, Sending
  <2> HIDE DEF u
  <2>14. u.stage = s.stage /\ u.page = s.page /\ u.words = n /\ u.bank = s.bank /\ u.hex = l.hex
    BY <2>12, <2>13 DEF From
  <2>15. Loading(u) /\ Knows(u, d)  BY <1>2, <2>14 DEF Loading, Knows
  <2>16. Files(u, d)  BY <2>1, <2>8, <2>9, <2>14, <2>15 DEF Files
  <2>17. Writing(u, d)  BY <2>4, <2>7, <2>8, <2>9, <2>10, <2>13, <2>14, <2>15 DEF Writing, c
  <2> QED  BY <2>11, <2>13, <2>16, <2>17 DEF Asks, Filing
<1> QED  BY <1>1, <1>2 DEF Files

LEMMA AsksAddress ==
  ASSUME NEW s, Clear(s), NEW d, Files(s, d), InHand(s.hex), Reaches(s, d, PageIn(s)),
         s.page # PageIn(s), Knows(s, d)
  PROVE  Asks(SendPageOrAddress(s), d)
<1> DEFINE p == PageIn(s)
           b == Bank(s.hex)
<1>1. CASE b # s.bank
  <2> DEFINE t == [s EXCEPT !.bank = b]
             c == UniversalCmd([op |-> "loadExt", bank |-> b])
             u == Send(t, "LoadExtAddress", c)
  <2>1. /\ Clear(t) /\ t.bank = b /\ t.stage = s.stage /\ t.page = s.page /\ t.words = s.words
        /\ t.hex = s.hex
    BY DEF Clear, Idle, SessionField
  <2>2. SendPageOrAddress(s) = u  BY <1>1, <2>1 DEF SendPageOrAddress, SendLoadExtAddress
  <2> HIDE DEF t, b
  <2>3. Clear(u) /\ From(t, u) /\ Sole(u, "LoadExtAddress", c)  BY <2>1, Sending
  <2> HIDE DEF u
  <2>4. PageIn(t) = PageIn(s) /\ Files(t, d) /\ Facing(t, d)
    <3>1. PageIn(t) = PageIn(s) /\ (Loading(t) <=> Loading(s)) /\ (Verifying(t) <=> Verifying(s))
      BY <2>1 DEF PageIn, Loading, Verifying
    <3>2. Files(t, d)  BY <2>1, <3>1 DEF Files
    <3> QED  BY <2>1, <3>1, <3>2 DEF Facing, Reaches, b
  <2>5. PageIn(u) = PageIn(s) /\ Files(u, d) /\ Facing(u, d) /\ u.page = s.page /\ u.bank = b
    BY <2>1, <2>3, <2>4, Forth DEF From
  <2>6. Announcing(u, d)  BY <2>3, <2>5 DEF Announcing
  <2> QED  BY <2>2, <2>3, <2>5, <2>6 DEF Asks, Filing
<1>2. CASE b = s.bank
  <2> DEFINE t == [s EXCEPT !.page = p]
             c == LoadAddressCmd(p % BankWords)
             u == Send(t, "LoadAddress", c)
  <2>1. /\ Clear(t) /\ t.page = p /\ t.stage = s.stage /\ t.bank = s.bank /\ t.words = s.words
        /\ t.hex = s.hex
    BY DEF Clear, Idle, SessionField
  <2>2. SendPageOrAddress(s) = u
    BY <1>2, <2>1 DEF SendPageOrAddress, SendLoadAddress, PageIn
  <2> HIDE DEF t, p
  <2>3. Clear(u) /\ From(t, u) /\ Sole(u, "LoadAddress", c)  BY <2>1, Sending
  <2> HIDE DEF u
  <2>4. PageIn(t) = p /\ Files(t, d) /\ Facing(t, d) /\ Knows(t, d)
    <3>1. PageIn(t) = PageIn(s) /\ (Loading(t) <=> Loading(s)) /\ (Verifying(t) <=> Verifying(s))
      BY <2>1 DEF PageIn, Loading, Verifying
    <3>2. Files(t, d) /\ Knows(t, d)  BY <2>1, <3>1 DEF Files, Knows
    <3> QED  BY <1>2, <2>1, <3>1, <3>2 DEF Facing, Reaches, p
  <2>5. PageIn(u) = p /\ Files(u, d) /\ Facing(u, d) /\ Knows(u, d) /\ u.page = p
    BY <2>1, <2>3, <2>4, Forth DEF From
  <2>6. Announcing(u, d)  BY <2>3, <2>5 DEF Announcing
  <2> QED  BY <2>2, <2>3, <2>5, <2>6 DEF Asks, Filing
<1> QED  BY <1>1, <1>2

-----------------------------------------------------------------------------
(* ProcessPage() in a session in order.                                    *)

LEMMA AsksLocks ==
  ASSUME job.set, NEW s, Clear(s), NEW d
  PROVE  Asks(VerifyLocks(s), d)
<1> DEFINE t == [s EXCEPT !.stage = "VerifyLockBits", !.modifier = {}]
           u == Send(t, "VerifyLockBits", ReadLockCmd)
<1>1. Clear(t) /\ t.stage = "VerifyLockBits" /\ t.modifier = {}  BY DEF Clear, Idle, SessionField
<1>2. VerifyLocks(s) = u  BY DEF VerifyLocks, SendVerifyLockBits, ReadLockCmd
<1> HIDE DEF t
<1>3. Clear(u) /\ From(t, u) /\ Sole(u, "VerifyLockBits", ReadLockCmd)  BY <1>1, Sending
<1> HIDE DEF u
<1>4. u.stage = "VerifyLockBits" /\ u.modifier = {}  BY <1>1, <1>3 DEF From
<1>5. Closing(u, d)  BY <1>3, <1>4 DEF Closing, Asking
<1> QED  BY <1>2, <1>3, <1>5 DEF Asks

LEMMA AsksLeave ==
  ASSUME NEW s, Clear(s), NEW d
  PROVE  Asks(SendLeaveProgramMode(s), d)
<1> DEFINE u == Send(s, "LeaveProgramMode", LeaveProgModeCmd)
<1>1. SendLeaveProgramMode(s) = u  BY DEF SendLeaveProgramMode
<1>2. Clear(u) /\ Sole(u, "LeaveProgramMode", LeaveProgModeCmd)  BY Sending
<1> HIDE DEF u
<1> QED  BY <1>1, <1>2 DEF Asks, Closing

LEMMA AsksFinished ==
  ASSUME NEW s, Clear(s), NEW d
  PROVE  Asks(Finished(s), d)
<1>1. CASE IsProgramming
  <2>1. Finished(s) = SendLeaveProgramMode(s)  BY <1>1 DEF Finished
  <2> QED  BY <2>1, AsksLeave
<1>2. CASE ~IsProgramming
  <2>1. Finished(s) = VerifyLocks(s)  BY <1>2 DEF Finished
  <2>2. job.set  BY <1>2 DEF IsProgramming, Operation
  <2> QED  BY <2>1, <2>2, AsksLocks
<1> QED  BY <1>1, <1>2

(* t goes on from s with another record.                                   *)
Moved(s, t) ==
  /\ Idle(t) /\ t.stage = s.stage /\ t.modifier = s.modifier /\ t.page = s.page
  /\ t.words = s.words /\ t.bank = s.bank /\ t.in = s.in

LEMMA RecordFollows ==
  ASSUME Filed, NEW s, Idle(s), NEW d, Files(s, d), NEW t, t = WithRecord(s)
  PROVE  /\ Moved(s, t) /\ Files(t, d) /\ (InHand(t.hex) \/ t.hex.type = "eof")
         /\ \A b : Split(TheFile, s.hex, b) => Split(TheFile, t.hex, b)
         /\ InHand(s.hex) => InHand(t.hex)
         /\ (Loading(t) <=> Loading(s)) /\ (Verifying(t) <=> Verifying(s))
<1> DEFINE h == LoadNextDataRecord(TheFile, s.hex)
           u == [s EXCEPT !.hex = h]
<1>1. TheFile \in Seq(Record) /\ Complete(TheFile)  BY DEF Filed, Ordered, Loadable
<1>2. Placed(s.hex) /\ Standing(TheFile, s.hex)  BY DEF Files
<1>3. CASE InHand(s.hex) \/ s.hex.type = "eof"
  <2>1. t = s  BY <1>2, <1>3, RecordTaken
  <2> QED  BY <1>3, <2>1 DEF Moved
<1>4. CASE ~(InHand(s.hex) \/ s.hex.type = "eof")
  <2>1. s.hex.index = Len(s.hex.words) /\ s.hex.type # "eof"
    <3>1. s.hex.index \in Nat /\ Len(s.hex.words) \in Nat /\ s.hex.index <= Len(s.hex.words)
      BY <1>2 DEF Placed, Reader
    <3>2. CASE s.hex = Rewind  BY <3>2 DEF Rewind
    <3>3. CASE s.hex.type = "data"  BY <1>4, <3>1, <3>3 DEF InHand
    <3> QED  BY <1>2, <1>4, <3>2, <3>3 DEF Standing
  <2>2. t = IF h.type = "invalid" THEN Fail(u, "LoadHexData") ELSE u  BY <1>2, <2>1, RecordTaken
  <2> HIDE DEF h
  <2>3. /\ Placed(h) /\ Standing(TheFile, h) /\ h.type # "invalid" /\ (InHand(h) \/ h.type = "eof")
        /\ \A b : Split(TheFile, s.hex, b) => Split(TheFile, h, b)
    BY <1>1, <1>2, <2>1, NextInHand DEF h
  <2>4. t = u  BY <2>2, <2>3
  <2>5. Moved(s, u) /\ u.hex = h  BY DEF Moved, Idle, SessionField
  <2> HIDE DEF u
  <2>6. (Loading(u) <=> Loading(s)) /\ (Verifying(u) <=> Verifying(s))
    BY <2>5 DEF Moved, Loading, Verifying
  <2>7. Files(u, d)  BY <2>3, <2>5, <2>6 DEF Files, Moved
  <2> QED  BY <1>4, <2>3, <2>4, <2>5, <2>6, <2>7
<1> QED  BY <1>3, <1>4

(* The next page begins at address b or behind.                            *)
Nears(s, d, b) ==
  /\ b \in Nat /\ PageOf(b, s.words) = b /\ Reaches(s, d, b) /\ Knows(s, d)
  /\ \A p \in Nat : PageOf(p, s.words) = p /\ b <= p => s.page # p

LEMMA AsksNext ==
  ASSUME Filed, NEW s, Clear(s), NEW d, Files(s, d), InHand(s.hex), NEW b, Nears(s, d, b)
  PROVE  Asks(SendPageOrAddress(s), d)
<1> DEFINE n == s.words
           p == PageIn(s)
<1>1. n \in Nat \ {0} /\ (Loading(s) => n = PageWords)
  BY PageSizes DEF Files, Loading, Verifying
<1>2. TheFile \in Seq(Record) /\ Ascending(TheFile)  BY DEF Filed, Ordered, Loadable
<1>3. Placed(s.hex) /\ Standing(TheFile, s.hex)  BY DEF Files
<1>4. b \in Nat /\ PageOf(b, n) = b /\ Split(TheFile, s.hex, b)  BY DEF Nears, Reaches
<1>5. p = PageOf(WordAddress(s.hex), n)  BY DEF PageIn
<1> HIDE DEF n, p
<1>6. /\ p \in Nat /\ b <= p /\ PageOf(p, n) = p /\ Split(TheFile, s.hex, p)
      /\ \A c \in Contents(TheFile) : c[1] \in Nat /\ (c[1] < b \/ c[1] >= p)
  BY <1>1, <1>2, <1>3, <1>4, <1>5, NextPage
<1>7. s.page # p  BY <1>6 DEF Nears, n
<1>8. UpTo(d, IF Loading(s) THEN p ELSE Words)
  <2>1. CASE Loading(s)
    <3>1. UpTo(d, b)  BY <2>1 DEF Nears, Reaches
    <3>2. UpTo(d, p)  BY <1>1, <1>4, <1>6, <2>1, <3>1, Advance
    <3> QED  BY <2>1, <3>2
  <2>2. CASE ~Loading(s)  BY <2>2 DEF Nears, Reaches
  <2> QED  BY <2>1, <2>2
<1>9. Reaches(s, d, p)  BY <1>6, <1>8 DEF Reaches
<1> QED  BY <1>7, <1>9, AsksAddress DEF p, Nears

LEMMA AsksSending ==
  ASSUME Filed, NEW s, Clear(s), NEW d, Files(s, d), NEW b, Nears(s, d, b),
         Loading(s) => InHand(s.hex) \/ b = 0
  PROVE  Asks(SendProcessPage(s), d)
<1> DEFINE t == WithRecord(s)
           W(x) == IF x.error # "none" THEN x
                   ELSE IF x.hex.type = "eof" THEN EndOfFile(x) ELSE SendPageOrAddress(x)
<1>1. SendProcessPage(s) = W(t)
  <2>1. With(t, W) = W(t)
    <3> HIDE DEF W
    <3> QED  BY Zenon DEF With
  <2>2. SendProcessPage(s) = With(t, W)  BY Zenon DEF SendProcessPage
  <2> QED  BY <2>1, <2>2
<1>2. /\ Moved(s, t) /\ Files(t, d) /\ (InHand(t.hex) \/ t.hex.type = "eof")
      /\ \A a : Split(TheFile, s.hex, a) => Split(TheFile, t.hex, a)
      /\ InHand(s.hex) => InHand(t.hex)
      /\ (Loading(t) <=> Loading(s)) /\ (Verifying(t) <=> Verifying(s))
  BY RecordFollows DEF Clear
<1> HIDE DEF t
<1>3. Clear(t) /\ t.error = "none"  BY <1>2 DEF Moved, Clear, Idle
<1>4. Nears(t, d, b)
  <2>1. t.words = s.words /\ t.page = s.page /\ t.bank = s.bank  BY <1>2 DEF Moved
  <2>2. Reaches(t, d, b)  BY <1>2 DEF Nears, Reaches
  <2>3. Knows(t, d)  BY <2>1 DEF Nears, Knows
  <2> QED  BY <2>1, <2>2, <2>3 DEF Nears
<1>5. CASE t.hex.type # "eof"
  <2>1. W(t) = SendPageOrAddress(t)  BY <1>3, <1>5
  <2> HIDE DEF W
  <2> QED  BY <1>1, <1>2, <1>3, <1>4, <1>5, <2>1, AsksNext
<1>6. CASE t.hex.type = "eof"
  <2>1. ~Loading(t)
    <3> SUFFICES ASSUME Loading(t) PROVE FALSE  OBVIOUS
    <3>1. b = 0  BY <1>2, <1>6 DEF InHand
    <3>2. TheFile \in Seq(Record) /\ Orderly(TheFile) /\ LastPageEnds(TheFile, PageWords)
      BY DEF Filed, Ordered, Loadable
    <3>3. t.hex \in Reader /\ Standing(TheFile, t.hex)  BY <1>2 DEF Files, Placed
    <3>4. \A c \in Contents(TheFile) : c[1] \in Nat /\ c[1] < 0
      BY <1>4, <1>6, <3>1, <3>2, <3>3, EndPassed DEF Nears, Reaches
    <3>5. PICK i \in DataRecords(TheFile) : TRUE  BY <3>2 DEF LastPageEnds
    <3>6. 1 \in WordOf(TheFile, i)
      <4>1. Len(TheFile[i].words) \in Nat \ {0}  BY <3>2, RecordWords
      <4> QED  BY <4>1 DEF WordOf
    <3>7. <<Address(TheFile, i, 1), TheFile[i].words[1]>> \in Contents(TheFile)
      BY <3>6, ContentWords
    <3>8. Address(TheFile, i, 1) \in Nat /\ Address(TheFile, i, 1) < 0  BY <3>4, <3>7
    <3> QED  BY <3>8
  <2>2. W(t) = Finished(t)  BY <1>3, <1>6, <2>1, Zenon DEF EndOfFile
  <2> HIDE DEF W
  <2> QED  BY <1>1, <1>3, <2>2, AsksFinished
<1> QED  BY <1>5, <1>6

(* No page begins at NoPage.                                               *)
LEMMA NoPageThere ==
  ASSUME NEW n \in PageSize, NEW p \in Nat, PageOf(p, n) = p
  PROVE  p # NoPage
<1>1. n \in Nat \ {0} /\ NoPage % n # 0  BY PageAssumption, NoPageAssumption DEF PageSize
<1>2. p % n \in Nat  BY <1>1
<1>3. p - (p % n) = p  BY DEF PageOf
<1> DEFINE r == p % n
<1>4. r \in Nat /\ p - r = p  BY <1>2, <1>3
<1>5. r = 0
  <2> HIDE DEF r
  <2> QED  BY <1>4
<1> QED  BY <1>1, <1>5

LEMMA WordsSize == PageWords \in PageSize /\ VerifiedWords \in PageSize
BY DEF PageWords, VerifiedWords, PageSize

(* From loading to verifying, all of the file being in memory.             *)
LEMMA AsksVerifying ==
  ASSUME Filed, NEW s, Clear(s), Loading(s), s.words = PageWords,
         NEW d, UpTo(d, Words), Equipped(d), Knows(s, d)
  PROVE  Asks(FirstVerified(s), d)
<1> DEFINE v == StartVerifying(s)
           t == WithRecord(v)
           W(x) == IF x.error # "none" THEN x
                   ELSE IF x.hex.type = "eof" THEN Finished(x) ELSE SendPageOrAddress(x)
<1>1. FirstVerified(s) = W(t)
  <2>1. With(t, W) = W(t)
    <3> HIDE DEF W
    <3> QED  BY Zenon DEF With
  <2>2. FirstVerified(s) = With(t, W)  BY Zenon DEF FirstVerified
  <2> QED  BY <2>1, <2>2
<1>2. /\ v.hex = Rewind /\ Verifying(v) /\ v.words = VerifiedWords
      /\ v.page = NoPage /\ (v.bank = IF job.large THEN NoBank ELSE 0)
  BY VerifyingFields DEF Clear, Idle
<1>3. Clear(v)
  <2>1. DOMAIN v = SessionField /\ v.in = s.in /\ v.error = s.error
    BY VerifyingFields DEF Clear, Idle
  <2>2. v.timing = s.timing  BY DEF StartVerifying, Clear, Idle, SessionField
  <2> HIDE DEF v
  <2> QED  BY <1>2, <2>1, <2>2 DEF Clear, Idle, Verifying
<1> HIDE DEF v
<1>4. Files(v, d)
  <2>1. Standing(TheFile, Rewind)  BY DEF Standing
  <2> QED  BY <1>2, <2>1, RewindPlaced DEF Files, Filed
<1>5. TheFile \in Seq(Record)  BY DEF Filed, Ordered, Loadable
<1>6. /\ Moved(v, t) /\ Files(t, d) /\ (InHand(t.hex) \/ t.hex.type = "eof")
      /\ \A a : Split(TheFile, v.hex, a) => Split(TheFile, t.hex, a)
      /\ (Loading(t) <=> Loading(v)) /\ (Verifying(t) <=> Verifying(v))
  BY <1>3, <1>4, RecordFollows DEF Clear
<1> HIDE DEF t
<1>7. Clear(t) /\ t.error = "none"  BY <1>3, <1>6 DEF Moved, Clear, Idle
<1>8. CASE t.hex.type = "eof"
  <2>1. W(t) = Finished(t)  BY <1>7, <1>8
  <2> HIDE DEF W
  <2> QED  BY <1>1, <1>7, <2>1, AsksFinished
<1>9. CASE t.hex.type # "eof"
  <2>1. W(t) = SendPageOrAddress(t)  BY <1>7, <1>9
  <2>2. t.words = VerifiedWords /\ t.page = NoPage /\ (t.bank = IF job.large THEN NoBank ELSE 0)
    BY <1>2, <1>6 DEF Moved
  <2>3. Split(TheFile, t.hex, 0)  BY <1>2, <1>5, <1>6, NothingPassed
  <2>4. ~Loading(t)  BY <1>2, <1>6 DEF Loading, Verifying
  <2>5. Reaches(t, d, 0)  BY <2>3, <2>4 DEF Reaches
  <2>6. Knows(t, d)  BY <2>2 DEF Knows, NoBank
  <2>7. PageOf(0, VerifiedWords) = 0
    <3>1. VerifiedWords \in Nat \ {0}  BY PageSizes
    <3>2. PageOf(0, VerifiedWords) \in Nat /\ PageOf(0, VerifiedWords) <= 0  BY <3>1, PageBounds
    <3> QED  BY <3>2
  <2>8. Nears(t, d, 0)  BY <2>2, <2>5, <2>6, <2>7, NoPageThere, WordsSize DEF Nears
  <2> HIDE DEF W
  <2> QED  BY <1>1, <1>6, <1>7, <1>9, <2>1, <2>8, AsksNext
<1> QED  BY <1>8, <1>9

-----------------------------------------------------------------------------
(* A turn: the target carries out the command the session has sent, and    *)
(* the handler of its answer sends the next one.                           *)

(* u is the session s, of the answer to whose command q is left to read.   *)
Hears(s, u, q) == From(s, u) /\ u.handler = s.handler /\ u.onSync = s.onSync /\ u.in = q
Goes(s, v) == Clear(v) /\ From(s, v) /\ v.handler = s.handler /\ v.onSync = s.onSync

Well(v, d) == v.error = "none" /\ (v.stage = "SessionCompleted" \/ Asks(v, d))
Lands(u, d) ==
  /\ u.handler = "GetSync" => Well(OnGetSync(u), d)
  /\ u.handler = "SetDevice" => Well(OnSetDevice(u), d)
  /\ u.handler = "SetDeviceExt" => Well(OnSetDeviceExt(u), d)
  /\ u.handler = "EnterProgramMode" => Well(OnEnterProgramMode(u), d)
  /\ u.handler = "LeaveProgramMode" => Well(OnLeaveProgramMode(u), d)
  /\ u.handler = "ReadSignature" => Well(OnReadSignature(u), d)
  /\ u.handler = "ChipErase" => Well(OnChipErase(u), d)
  /\ u.handler = "VerifyUnlocked" => Well(OnVerifyUnlocked(u), d)
  /\ u.handler = "VerifyFuse" => Well(OnVerifyFuse(u), d)
  /\ u.handler = "VerifyLockBits" => Well(OnVerifyLockBits(u), d)
  /\ u.handler = "LoadAddress" => Well(OnLoadAddress(u), d)
  /\ u.handler = "LoadExtAddress" => Well(OnLoadExtAddress(u), d)
  /\ u.handler = "ProcessPage" => Well(OnProcessPage(u), d)
Turns(s, d) ==
  LET r == Reply(d, Head(s.out)) IN
  /\ IsSeq(r.reply) /\ r.reply # <<>> /\ Head(r.reply) = STK_INSYNC
  /\ \A u : Hears(s, u, Tail(r.reply)) => Lands(u, r.target)

LEMMA AsksWell ==
  ASSUME NEW v, NEW d, Asks(v, d)
  PROVE  Well(v, d)
BY DEF Well, Asks, Clear, Idle

LEMMA StatusHeard ==
  ASSUME NEW s, NEW u, Hears(s, u, <<STK_OK>>)
  PROVE  StatusOK(u) /\ Goes(s, Read(u))
<1>1. u.in = <<STK_OK>> /\ From(s, u) /\ u.handler = s.handler /\ u.onSync = s.onSync  BY DEF Hears
<1>2. u.in # <<>> /\ Head(u.in) = STK_OK /\ Tail(u.in) = <<>>  BY <1>1
<1>3. Read(u) = [u EXCEPT !.in = <<>>]  BY <1>2 DEF Read
<1> DEFINE v == Read(u)
<1>4. Idle(u)  BY <1>1 DEF From
<1>5. /\ DOMAIN v = SessionField /\ v.in = <<>> /\ v.error = u.error /\ v.timing = u.timing
      /\ v.stage = u.stage /\ v.modifier = u.modifier /\ v.hex = u.hex /\ v.page = u.page
      /\ v.words = u.words /\ v.bank = u.bank /\ v.handler = u.handler /\ v.onSync = u.onSync
  BY <1>3, <1>4 DEF Idle, SessionField
<1> HIDE DEF v
<1>6. Goes(s, v)  BY <1>1, <1>4, <1>5 DEF Goes, Clear, Idle, From
<1> QED  BY <1>2, <1>6 DEF StatusOK, v

LEMMA ByteHeard ==
  ASSUME NEW s, NEW b, NEW u, Hears(s, u, <<b, STK_OK>>)
  PROVE  /\ u.in # <<>> /\ ~(Len(u.in) < 2) /\ Head(u.in) = b /\ StatusOK(Read(u))
         /\ Goes(s, Read(Read(u)))
<1>1. u.in = <<b, STK_OK>> /\ From(s, u) /\ u.handler = s.handler /\ u.onSync = s.onSync  BY DEF Hears
<1>2. u.in # <<>> /\ ~(Len(u.in) < 2) /\ Head(u.in) = b /\ Tail(u.in) = <<STK_OK>>  BY <1>1
<1>3. Read(u) = [u EXCEPT !.in = <<STK_OK>>]  BY <1>2 DEF Read
<1> DEFINE v == Read(u)
<1>4. Idle(u)  BY <1>1 DEF From
<1>5. /\ DOMAIN v = SessionField /\ v.in = <<STK_OK>> /\ v.error = u.error /\ v.timing = u.timing
      /\ v.stage = u.stage /\ v.modifier = u.modifier /\ v.hex = u.hex /\ v.page = u.page
      /\ v.words = u.words /\ v.bank = u.bank /\ v.handler = u.handler /\ v.onSync = u.onSync
  BY <1>3, <1>4 DEF Idle, SessionField
<1> HIDE DEF v
<1>6. Hears(s, v, <<STK_OK>>)  BY <1>1, <1>4, <1>5 DEF Hears, Idle, From
<1>7. StatusOK(v) /\ Goes(s, Read(v))  BY <1>6, StatusHeard
<1> QED  BY <1>2, <1>7 DEF v

LEMMA StatusTurn ==
  ASSUME NEW s, NEW h, NEW c, Sole(s, h, c), NEW d, Reply(d, c).reply = <<STK_INSYNC, STK_OK>>,
         \A u : Hears(s, u, <<STK_OK>>) => Lands(u, Reply(d, c).target)
  PROVE  Turns(s, d)
<1> DEFINE q == <<STK_INSYNC, STK_OK>>
<1>1. Head(s.out) = c  BY DEF Sole
<1>2. q \in Seq({STK_INSYNC, STK_OK}) /\ q # <<>> /\ Head(q) = STK_INSYNC /\ Tail(q) = <<STK_OK>>
  OBVIOUS
<1>3. IsSeq(q)  BY <1>2 DEF IsSeq
<1> HIDE DEF q
<1> QED  BY <1>1, <1>2, <1>3 DEF Turns, q

LEMMA ByteTurn ==
  ASSUME NEW s, NEW h, NEW c, Sole(s, h, c), NEW d, NEW b,
         Reply(d, c).reply = <<STK_INSYNC, b, STK_OK>>,
         \A u : Hears(s, u, <<b, STK_OK>>) => Lands(u, Reply(d, c).target)
  PROVE  Turns(s, d)
<1> DEFINE q == <<STK_INSYNC, b, STK_OK>>
<1>1. Head(s.out) = c  BY DEF Sole
<1>2. /\ q \in Seq({STK_INSYNC, b, STK_OK}) /\ q # <<>> /\ Head(q) = STK_INSYNC
      /\ Tail(q) = <<b, STK_OK>>
  OBVIOUS
<1>3. IsSeq(q)  BY <1>2 DEF IsSeq
<1> HIDE DEF q
<1> QED  BY <1>1, <1>2, <1>3 DEF Turns, q

-----------------------------------------------------------------------------
(* The commands as a sound target answers them.                            *)

Keeps(d, e) ==
  /\ e.ext = d.ext /\ e.eepromSize = d.eepromSize /\ MemoryOf(e) = MemoryOf(d)
  /\ e.lock = d.lock /\ e.fuse = d.fuse

LEMMA Keeping ==
  ASSUME NEW d, NEW e, Keeps(d, e)
  PROVE  /\ Equipped(e) <=> Equipped(d)
         /\ \A b : UpTo(e, b) <=> UpTo(d, b)
         /\ \A s : /\ Knows(s, e) <=> Knows(s, d)
                   /\ Rewound(s, e) <=> Rewound(s, d)
                   /\ Files(s, e) <=> Files(s, d)
                   /\ Facing(s, e) <=> Facing(s, d)
<1>1. e.ext = d.ext /\ e.eepromSize = d.eepromSize /\ MemoryOf(e) = MemoryOf(d)  BY DEF Keeps
<1>2. Equipped(e) <=> Equipped(d)  BY <1>1 DEF Equipped
<1>3. \A b : UpTo(e, b) <=> UpTo(d, b)  BY <1>1 DEF UpTo
<1>4. \A s : Knows(s, e) <=> Knows(s, d)  BY <1>1 DEF Knows
<1>5. \A s : Rewound(s, e) <=> Rewound(s, d)  BY <1>4 DEF Rewound
<1>6. \A s : Files(s, e) <=> Files(s, d)  BY <1>2 DEF Files
<1>7. \A s, b : Reaches(s, e, b) <=> Reaches(s, d, b)  BY <1>3 DEF Reaches
<1>8. \A s : Facing(s, e) <=> Facing(s, d)  BY <1>7 DEF Facing
<1> QED  BY <1>2, <1>3, <1>4, <1>5, <1>6, <1>8

LEMMA FieldKept ==
  ASSUME NEW d, Chip(d, "none"), NEW v
  PROVE  /\ Keeps(d, [d EXCEPT !.address = v]) /\ [d EXCEPT !.address = v].address = v
         /\ Keeps(d, [d EXCEPT !.eepromPage = v])
         /\ Keeps(d, EnterProgMode(d)) /\ Keeps(d, LeaveProgMode(d)) /\ Keeps(d, d)
BY DEF Chip, ChipField, Keeps, EnterProgMode, LeaveProgMode, MemoryOf

(* Those that are answered by a status.                                    *)
LEMMA StatusCommands ==
  ASSUME NEW d, Chip(d, "none"), NEW c,
         \/ c \in {GetSyncCmd, EnterProgModeCmd, LeaveProgModeCmd}
         \/ \E n : c = SetDeviceExtCmd(n) \/ c = LoadAddressCmd(n)
  PROVE  Reply(d, c).reply = <<STK_INSYNC, STK_OK>> /\ Keeps(d, Reply(d, c).target)
<1> DEFINE P == Reply(d, c).reply = <<STK_INSYNC, STK_OK>> /\ Keeps(d, Reply(d, c).target)
<1>1. ASSUME NEW e, NEW x, Keeps(d, e), Keeps(d, x), IspCommand(d, c) = DoEmptyReply(e),
             BootloaderCommand(d, c) = DoEmptyReply(x)
      PROVE  P
  <2>1. \A y : DoEmptyReply(y).target = y /\ DoEmptyReply(y).reply = <<STK_INSYNC, STK_OK>>
    BY DEF DoEmptyReply, Answer
  <2>2. Reply(d, c) = DoEmptyReply(e) \/ Reply(d, c) = DoEmptyReply(x)  BY <1>1 DEF Reply
  <2> QED  BY <1>1, <2>1, <2>2
<1>0. /\ Keeps(d, d) /\ Keeps(d, EnterProgMode(d)) /\ Keeps(d, LeaveProgMode(d))
      /\ Keeps(d, IF d.held THEN d ELSE EnterProgMode(d))
      /\ \A v : Keeps(d, [d EXCEPT !.address = v]) /\ Keeps(d, [d EXCEPT !.eepromPage = v])
  BY FieldKept
<1> HIDE DEF P
<1>2. CASE c = GetSyncCmd
  <2>1. IspCommand(d, c) = DoEmptyReply(d) /\ BootloaderCommand(d, c) = DoEmptyReply(d)
    BY <1>2 DEF IspCommand, BootloaderCommand, GetSyncCmd
  <2> QED  BY <1>0, <1>1, <2>1 DEF P
<1>3. CASE c = EnterProgModeCmd
  <2>1. /\ IspCommand(d, c) = DoEmptyReply(IF d.held THEN d ELSE EnterProgMode(d))
        /\ BootloaderCommand(d, c) = DoEmptyReply(d)
    BY <1>3 DEF IspCommand, BootloaderCommand, EnterProgModeCmd
  <2> QED  BY <1>0, <1>1, <2>1 DEF P
<1>4. CASE c = LeaveProgModeCmd
  <2>1. /\ IspCommand(d, c) = DoEmptyReply(LeaveProgMode(d))
        /\ BootloaderCommand(d, c) = DoEmptyReply(d)
    BY <1>4 DEF IspCommand, BootloaderCommand, LeaveProgModeCmd
  <2> QED  BY <1>0, <1>1, <2>1 DEF P
<1>5. ASSUME NEW n, c = SetDeviceExtCmd(n)
      PROVE  P
  <2>1. /\ IspCommand(d, c) = DoEmptyReply([d EXCEPT !.eepromPage = n])
        /\ BootloaderCommand(d, c) = DoEmptyReply(d)
    BY <1>5 DEF IspCommand, BootloaderCommand, SetDeviceExtCmd, SetExtDeviceProgParams
  <2> QED  BY <1>0, <1>1, <2>1 DEF P
<1>6. ASSUME NEW n, c = LoadAddressCmd(n)
      PROVE  P
  <2>1. /\ IspCommand(d, c) = DoEmptyReply([d EXCEPT !.address = n])
        /\ BootloaderCommand(d, c) = DoEmptyReply([d EXCEPT !.address = n])
    BY <1>6 DEF IspCommand, BootloaderCommand, LoadAddressCmd
  <2> QED  BY <1>0, <1>1, <2>1 DEF P
<1> QED  BY <1>2, <1>3, <1>4, <1>5, <1>6 DEF P

LEMMA AddressLoaded ==
  ASSUME NEW d, Chip(d, "none"), NEW n
  PROVE  Reply(d, LoadAddressCmd(n)).target.address = n
<1> DEFINE c == LoadAddressCmd(n)
<1>1. /\ IspCommand(d, c) = DoEmptyReply([d EXCEPT !.address = n])
      /\ BootloaderCommand(d, c) = DoEmptyReply([d EXCEPT !.address = n])
  BY DEF IspCommand, BootloaderCommand, LoadAddressCmd
<1>2. \A e : DoEmptyReply(e).target = e  BY DEF DoEmptyReply, Answer
<1>3. [d EXCEPT !.address = n].address = n  BY FieldKept
<1> HIDE DEF c
<1> QED  BY <1>1, <1>2, <1>3 DEF Reply, c

LEMMA DeviceSet ==
  ASSUME NEW d, Chip(d, "none"), NEW n, NEW r, r = Reply(d, SetDeviceCmd(n))
  PROVE  /\ r.reply = <<STK_INSYNC, STK_OK>> /\ r.target.ext = d.ext
         /\ ~job.serial => r.target.eepromSize = n
<1> DEFINE c == SetDeviceCmd(n)
<1>1. /\ IspCommand(d, c) = DoEmptyReply([d EXCEPT !.eepromSize = n])
      /\ BootloaderCommand(d, c) = DoEmptyReply(d)
  BY DEF IspCommand, BootloaderCommand, SetDeviceCmd, SetDeviceProgParams
<1>2. \A e : DoEmptyReply(e).target = e /\ DoEmptyReply(e).reply = <<STK_INSYNC, STK_OK>>
  BY DEF DoEmptyReply, Answer
<1>3. [d EXCEPT !.eepromSize = n].ext = d.ext /\ [d EXCEPT !.eepromSize = n].eepromSize = n
  BY DEF Chip, ChipField
<1> QED  BY <1>1, <1>2, <1>3 DEF Reply

(* The instructions of the chip; only some are for a bootloader too.       *)
LEMMA Instructed ==
  ASSUME NEW d, NEW i, NEW t, t = TransferInstruction(d, i)
  PROVE  LET r == Reply(d, UniversalCmd(i)) IN
         /\ ~job.serial => r.target = t.target /\ r.reply = <<STK_INSYNC, t.byte, STK_OK>>
         /\ job.serial => /\ r.reply = <<STK_INSYNC, 0, STK_OK>>
                          /\ r.target = IF i.op = "loadExt" THEN [d EXCEPT !.ext = i.bank] ELSE d
<1> DEFINE c == UniversalCmd(i)
           x == IF i.op = "loadExt" THEN [d EXCEPT !.ext = i.bank] ELSE d
<1>1. c.cmd = "UNIVERSAL" /\ c.inst = i  BY DEF UniversalCmd
<1> HIDE DEF c
<1>2. IspCommand(d, c) = DoOneByteReply(t.target, t.byte)  BY <1>1, Zenon DEF IspCommand, Universal
<1>3. BootloaderCommand(d, c) = DoOneByteReply(x, 0)  BY <1>1 DEF BootloaderCommand
<1> HIDE DEF x
<1>4. \A e, b : /\ DoOneByteReply(e, b).target = e
                /\ DoOneByteReply(e, b).reply = <<STK_INSYNC, b, STK_OK>>
  BY DEF DoOneByteReply, Answer
<1> QED  BY <1>2, <1>3, <1>4 DEF Reply, c, x

LEMMA SignatureRead ==
  ASSUME NEW d, Chip(d, "none"), NEW r, r = Reply(d, ReadSignCmd)
  PROVE  r.reply = <<STK_INSYNC, Signature, STK_OK>> /\ r.target = d
<1>1. IspCommand(d, ReadSignCmd) = ReadSignature(d) /\ BootloaderCommand(d, ReadSignCmd) = ReadSignature(d)
  BY DEF IspCommand, BootloaderCommand, ReadSignCmd
<1>2. ReadSignature(d).target = d /\ ReadSignature(d).reply = <<STK_INSYNC, Signature, STK_OK>>
  BY DEF ReadSignature, Answer, Chip
<1> QED  BY <1>1, <1>2 DEF Reply

(* What chip erase makes of it.                                            *)
LEMMA Wiped ==
  ASSUME NEW d, Chip(d, "none"), Sized(d), NEW r, r = Reply(d, UniversalCmd([op |-> "chipErase"]))
  PROVE  /\ r.reply = <<STK_INSYNC, 0, STK_OK>> /\ r.target.ext = d.ext
         /\ r.target.eepromSize = d.eepromSize /\ UpTo(r.target, 0)
         /\ ~job.serial => r.target.lock = "unlocked"
<1> DEFINE i == [op |-> "chipErase"]
           e == ChipErase(d)
<1>1. TransferInstruction(d, i) = [target |-> e, byte |-> 0]  BY DEF TransferInstruction
<1>2. /\ ~job.serial => r.target = e /\ r.reply = <<STK_INSYNC, 0, STK_OK>>
      /\ job.serial => r.target = d /\ r.reply = <<STK_INSYNC, 0, STK_OK>>
  <2> DEFINE t == TransferInstruction(d, i)
             z == Reply(d, UniversalCmd(i))
  <2>0. r = z  OBVIOUS
  <2>1. t.target = e /\ t.byte = 0 /\ i.op # "loadExt"  BY <1>1
  <2> HIDE DEF t, e, i
  <2>2. /\ ~job.serial => z.target = t.target /\ z.reply = <<STK_INSYNC, t.byte, STK_OK>>
        /\ job.serial => /\ z.reply = <<STK_INSYNC, 0, STK_OK>>
                         /\ z.target = IF i.op = "loadExt" THEN [d EXCEPT !.ext = i.bank] ELSE d
    BY Instructed DEF t
  <2> HIDE DEF z
  <2> QED  BY <2>0, <2>1, <2>2
<1>3. /\ e.ext = d.ext /\ e.eepromSize = d.eepromSize /\ e.lock = "unlocked"
      /\ e.flash = [a \in DOMAIN d.flash |-> Erased] /\ e.eeprom = [a \in DOMAIN d.eeprom |-> Erased]
  BY DEF ChipErase, Chip, ChipField
<1> HIDE DEF e
<1>4. \A a \in 0 .. Words - 1 : MemoryOf(e)[a] = Erased
  BY <1>3 DEF Sized, MemoryOf, Words
<1>5. \A a \in 0 .. Words - 1 : ~(a < 0)  BY PageSizes
<1>6. UpTo(r.target, 0)  BY <1>2, <1>4, <1>5 DEF UpTo
<1> QED  BY <1>2, <1>3, <1>6

-----------------------------------------------------------------------------
(* From GET_SYNC to the first page, or to the fuses.                       *)

LEMMA GoesFields ==
  ASSUME NEW s, NEW v, Goes(s, v)
  PROVE  /\ Clear(v) /\ v.stage = s.stage /\ v.modifier = s.modifier /\ v.hex = s.hex
         /\ v.page = s.page /\ v.words = s.words /\ v.bank = s.bank /\ v.handler = s.handler
         /\ v.onSync = s.onSync
         /\ \A d : Rewound(v, d) <=> Rewound(s, d)
<1>1. From(s, v)  BY DEF Goes
<1>2. \A d : Rewound(v, d) <=> Rewound(s, d)  BY <1>1, Forth
<1> QED  BY <1>1, <1>2 DEF Goes, From

LEMMA RewoundAs ==
  ASSUME NEW s, NEW t, NEW d, Rewound(s, d), t.hex = s.hex, t.page = s.page, t.words = s.words,
         t.bank = s.bank
  PROVE  Rewound(t, d)
BY DEF Rewound, Knows

(* The next command of the opening is sent.                                *)
LEMMA Opens ==
  ASSUME NEW s, NEW d, Rewound(s, d), s.stage = "VerifySignature", Clear(s), NEW h, NEW c,
         \/ h = "SetDevice" /\ c = SetDeviceCmd(job.eepromSize)
         \/ /\ Equipped(d)
            /\ \/ h = "SetDeviceExt" /\ c = SetDeviceExtCmd(EepromPage)
               \/ h = "EnterProgramMode" /\ c = EnterProgModeCmd
               \/ h = "ReadSignature" /\ c = ReadSignCmd
               \/ h = "ChipErase" /\ c = UniversalCmd([op |-> "chipErase"])
  PROVE  Well(Send(s, h, c), d)
<1> DEFINE u == Send(s, h, c)
<1>1. Clear(u) /\ From(s, u) /\ Sole(u, h, c)  BY Sending
<1> HIDE DEF u
<1>2. Rewound(u, d) /\ u.stage = "VerifySignature"  BY <1>1, Forth DEF From
<1>3. Opening(u, d)
  <2>1. CASE h = "SetDevice" /\ c = SetDeviceCmd(job.eepromSize)
    BY <1>1, <1>2, <2>1 DEF Opening
  <2>2. CASE Equipped(d) /\ h = "SetDeviceExt" /\ c = SetDeviceExtCmd(EepromPage)
    BY <1>1, <1>2, <2>2 DEF Opening
  <2>3. CASE Equipped(d) /\ h = "EnterProgramMode" /\ c = EnterProgModeCmd
    BY <1>1, <1>2, <2>3 DEF Opening
  <2>4. CASE Equipped(d) /\ h = "ReadSignature" /\ c = ReadSignCmd
    BY <1>1, <1>2, <2>4 DEF Opening
  <2>5. CASE Equipped(d) /\ h = "ChipErase" /\ c = UniversalCmd([op |-> "chipErase"])
    BY <1>1, <1>2, <2>5 DEF Opening
  <2> QED  BY <2>1, <2>2, <2>3, <2>4, <2>5
<1>4. Asks(u, d)  BY <1>1, <1>3 DEF Asks
<1> QED  BY <1>4, AsksWell DEF u

(* ProcessPage() is called for the first page.                             *)
LEMMA FirstPage ==
  ASSUME Filed, NEW s, Clear(s), NEW d, Rewound(s, d), Loading(s), Equipped(d), UpTo(d, 0)
  PROVE  Well(SendProcessPage(s), d)
<1>1. s.hex = Rewind /\ s.page = NoPage /\ s.words = PageWords /\ Knows(s, d)  BY DEF Rewound
<1>2. TheFile \in Seq(Record)  BY DEF Filed, Ordered, Loadable
<1>3. Split(TheFile, s.hex, 0)  BY <1>1, <1>2, NothingPassed
<1>4. Reaches(s, d, 0)  BY <1>3 DEF Reaches
<1>5. PageOf(0, PageWords) = 0
  <2>1. PageWords \in Nat \ {0}  BY PageSizes
  <2>2. PageOf(0, PageWords) \in Nat /\ PageOf(0, PageWords) <= 0  BY <2>1, PageBounds
  <2> QED  BY <2>2
<1>6. Nears(s, d, 0)  BY <1>1, <1>4, <1>5, NoPageThere, WordsSize DEF Nears
<1>7. Files(s, d)
  <2>1. Standing(TheFile, Rewind)  BY DEF Standing
  <2> QED  BY <1>1, <2>1, RewindPlaced DEF Files, Filed
<1>8. Asks(SendProcessPage(s), d)  BY <1>6, <1>7, AsksSending
<1> QED  BY <1>8, AsksWell

LEMMA OpeningTurns ==
  ASSUME Ordered, NEW s, NEW d, Chip(d, "none"), Sized(d), Clear(s), Opening(s, d)
  PROVE  Turns(s, d)
<1>1. Rewound(s, d) /\ s.stage = "VerifySignature"  BY DEF Opening
<1>2. CASE Sole(s, "GetSync", GetSyncCmd) /\ s.onSync = "SetDevice"
  <2> DEFINE e == Reply(d, GetSyncCmd).target
  <2>1. Reply(d, GetSyncCmd).reply = <<STK_INSYNC, STK_OK>> /\ Keeps(d, e)  BY StatusCommands
  <2> HIDE DEF e
  <2>2. ASSUME NEW u, Hears(s, u, <<STK_OK>>) PROVE Lands(u, e)
    <3> DEFINE v == Read(u)
               x == [v EXCEPT !.retries = 0, !.handler = v.onSync]
    <3>1. StatusOK(u) /\ Goes(s, v)  BY <2>2, StatusHeard
    <3>2. OnGetSync(u) = InSync(v)
      BY <3>1, Zenon DEF OnGetSync, ResponseStatusOK, With
    <3> HIDE DEF v
    <3>3. /\ Clear(v) /\ v.stage = "VerifySignature" /\ v.onSync = "SetDevice" /\ Rewound(v, d)
      BY <1>1, <1>2, <3>1, GoesFields
    <3>4. /\ Clear(x) /\ x.stage = v.stage /\ x.hex = v.hex /\ x.page = v.page
          /\ x.words = v.words /\ x.bank = v.bank /\ x.onSync = "SetDevice"
      BY <3>3 DEF Clear, Idle, SessionField
    <3>5. InSync(v) = SendAgain(x)  BY DEF InSync
    <3> HIDE DEF x
    <3>6. Rewound(x, e)  BY <2>1, <3>3, <3>4, RewoundAs, Keeping
    <3>7. SendAgain(x) = Send(x, "SetDevice", SetDeviceCmd(job.eepromSize))
      BY <3>4 DEF SendAgain, SendSetDevice
    <3>8. Well(OnGetSync(u), e)  BY <3>2, <3>3, <3>4, <3>5, <3>6, <3>7, Opens
    <3>9. u.handler = "GetSync"  BY <1>2, <2>2 DEF Hears, Sole
    <3> QED  BY <3>8, <3>9 DEF Lands
  <2> QED  BY <1>2, <2>1, <2>2, StatusTurn DEF e
<1>3. CASE Sole(s, "SetDevice", SetDeviceCmd(job.eepromSize))
  <2> DEFINE c == SetDeviceCmd(job.eepromSize)
             e == Reply(d, c).target
  <2>1. /\ Reply(d, c).reply = <<STK_INSYNC, STK_OK>> /\ e.ext = d.ext
        /\ ~job.serial => e.eepromSize = job.eepromSize
    BY DeviceSet
  <2> HIDE DEF e, c
  <2>2. Equipped(e)  BY <2>1 DEF Equipped, Ordered
  <2>3. ASSUME NEW u, Hears(s, u, <<STK_OK>>) PROVE Lands(u, e)
    <3> DEFINE v == Read(u)
    <3>1. StatusOK(u) /\ Goes(s, v)  BY <2>3, StatusHeard
    <3>2. OnSetDevice(u) = SendSetDeviceExt(v)
      BY <3>1, Zenon DEF OnSetDevice, ResponseStatusOK, With
    <3> HIDE DEF v
    <3>3. Clear(v) /\ v.stage = "VerifySignature" /\ Rewound(v, d)  BY <1>1, <3>1, GoesFields
    <3>4. Rewound(v, e)  BY <2>1, <3>3 DEF Rewound, Knows
    <3>5. Well(OnSetDevice(u), e)  BY <2>2, <3>2, <3>3, <3>4, Opens DEF SendSetDeviceExt
    <3>6. u.handler = "SetDevice"  BY <1>3, <2>3 DEF Hears, Sole
    <3> QED  BY <3>5, <3>6 DEF Lands
  <2> QED  BY <1>3, <2>1, <2>3, StatusTurn DEF e, c
<1>4. CASE Equipped(d) /\ Sole(s, "SetDeviceExt", SetDeviceExtCmd(EepromPage))
  <2> DEFINE c == SetDeviceExtCmd(EepromPage)
             e == Reply(d, c).target
  <2>1. Reply(d, c).reply = <<STK_INSYNC, STK_OK>> /\ Keeps(d, e)  BY StatusCommands
  <2> HIDE DEF e, c
  <2>2. ASSUME NEW u, Hears(s, u, <<STK_OK>>) PROVE Lands(u, e)
    <3> DEFINE v == Read(u)
    <3>1. StatusOK(u) /\ Goes(s, v)  BY <2>2, StatusHeard
    <3>2. OnSetDeviceExt(u) = SendEnterProgramMode(v)
      BY <3>1, Zenon DEF OnSetDeviceExt, ResponseStatusOK, With
    <3> HIDE DEF v
    <3>3. Clear(v) /\ v.stage = "VerifySignature" /\ Rewound(v, d)  BY <1>1, <3>1, GoesFields
    <3>4. Rewound(v, e) /\ Equipped(e)  BY <1>4, <2>1, <3>3, Keeping
    <3>5. Well(OnSetDeviceExt(u), e)  BY <3>2, <3>3, <3>4, Opens DEF SendEnterProgramMode
    <3>6. u.handler = "SetDeviceExt"  BY <1>4, <2>2 DEF Hears, Sole
    <3> QED  BY <3>5, <3>6 DEF Lands
  <2> QED  BY <1>4, <2>1, <2>2, StatusTurn DEF e, c
<1>5. CASE Equipped(d) /\ Sole(s, "EnterProgramMode", EnterProgModeCmd)
  <2> DEFINE e == Reply(d, EnterProgModeCmd).target
  <2>1. Reply(d, EnterProgModeCmd).reply = <<STK_INSYNC, STK_OK>> /\ Keeps(d, e)  BY StatusCommands
  <2> HIDE DEF e
  <2>2. ASSUME NEW u, Hears(s, u, <<STK_OK>>) PROVE Lands(u, e)
    <3> DEFINE v == Read(u)
    <3>1. StatusOK(u) /\ Goes(s, v)  BY <2>2, StatusHeard
    <3>2. OnEnterProgramMode(u) = InProgramMode(v)
      BY <3>1, Zenon DEF OnEnterProgramMode, ResponseStatusOK, With
    <3> HIDE DEF v
    <3>3. Clear(v) /\ v.stage = "VerifySignature" /\ Rewound(v, d)  BY <1>1, <3>1, GoesFields
    <3>4. Rewound(v, e) /\ Equipped(e)  BY <1>5, <2>1, <3>3, Keeping
    <3>5. InProgramMode(v) = SendReadSignature(v)  BY <3>3 DEF InProgramMode
    <3>6. Well(OnEnterProgramMode(u), e)  BY <3>2, <3>3, <3>4, <3>5, Opens DEF SendReadSignature
    <3>7. u.handler = "EnterProgramMode"  BY <1>5, <2>2 DEF Hears, Sole
    <3> QED  BY <3>6, <3>7 DEF Lands
  <2> QED  BY <1>5, <2>1, <2>2, StatusTurn DEF e
<1>6. CASE Equipped(d) /\ Sole(s, "ReadSignature", ReadSignCmd)
  <2> DEFINE e == Reply(d, ReadSignCmd).target
  <2>1. Reply(d, ReadSignCmd).reply = <<STK_INSYNC, Signature, STK_OK>> /\ e = d  BY SignatureRead
  <2> HIDE DEF e
  <2>2. ASSUME NEW u, Hears(s, u, <<Signature, STK_OK>>) PROVE Lands(u, e)
    <3> DEFINE v == Read(Read(u))
    <3>1. ~(Len(u.in) < 2) /\ Head(u.in) = Signature /\ StatusOK(Read(u)) /\ Goes(s, v)
      BY <2>2, ByteHeard
    <3>2. OnReadSignature(u) = SendChipErase(v)
      BY <3>1, Zenon DEF OnReadSignature, ResponseStatusOK, With
    <3> HIDE DEF v
    <3>3. Clear(v) /\ v.stage = "VerifySignature" /\ Rewound(v, e) /\ Equipped(e)
      BY <1>1, <1>6, <2>1, <3>1, GoesFields
    <3>4. Well(OnReadSignature(u), e)  BY <3>2, <3>3, Opens DEF SendChipErase
    <3>5. u.handler = "ReadSignature"  BY <1>6, <2>2 DEF Hears, Sole
    <3> QED  BY <3>4, <3>5 DEF Lands
  <2> QED  BY <1>6, <2>1, <2>2, ByteTurn DEF e
<1>7. CASE Equipped(d) /\ Sole(s, "ChipErase", UniversalCmd([op |-> "chipErase"]))
  <2> DEFINE c == UniversalCmd([op |-> "chipErase"])
             e == Reply(d, c).target
  <2>1. /\ Reply(d, c).reply = <<STK_INSYNC, 0, STK_OK>> /\ e.ext = d.ext
        /\ e.eepromSize = d.eepromSize /\ UpTo(e, 0) /\ (~job.serial => e.lock = "unlocked")
    BY Wiped
  <2> HIDE DEF e, c
  <2>2. ASSUME NEW u, Hears(s, u, <<0, STK_OK>>) PROVE Lands(u, e)
    <3> DEFINE v == Read(Read(u))
    <3>1. u.in # <<>> /\ StatusOK(Read(u)) /\ Goes(s, v)  BY <2>2, ByteHeard
    <3>2. OnChipErase(u) = Erasing(v)
      BY <3>1, Zenon DEF OnChipErase, OnByte, ResponseStatusOK, With
    <3> HIDE DEF v
    <3>3. Clear(v) /\ Rewound(v, d)  BY <1>1, <3>1, GoesFields
    <3>4. Rewound(v, e) /\ Equipped(e)  BY <1>7, <2>1, <3>3 DEF Rewound, Knows, Equipped
    <3> SUFFICES Well(OnChipErase(u), e)
      <4>1. u.handler = "ChipErase"  BY <1>7, <2>2 DEF Hears, Sole
      <4> QED  BY <4>1 DEF Lands
    <3>5. CASE IsProgramming
      <4> DEFINE k == IF Operation = "ProgramFlash" THEN "LoadingFlash" ELSE "LoadingEEPROM"
                 x == [v EXCEPT !.stage = k]
      <4>1. /\ DOMAIN x = SessionField /\ x.stage = k /\ x.hex = v.hex /\ x.page = v.page
            /\ x.words = v.words /\ x.bank = v.bank /\ x.in = v.in /\ x.error = v.error
            /\ x.timing = v.timing
        BY <3>3 DEF Clear, Idle, SessionField
      <4>2. OnChipErase(u) = SendProcessPage(x)  BY <3>2, <3>5 DEF Erasing
      <4>3. Loading(x) /\ Clear(x)  BY <3>3, <4>1 DEF Loading, Clear, Idle
      <4> HIDE DEF x, k
      <4>4. Rewound(x, e)  BY <3>4, <4>1, RewoundAs
      <4>5. Filed  BY <3>5 DEF Filed, NeedsFile, IsProgramming, Operation
      <4> QED  BY <2>1, <3>4, <4>2, <4>3, <4>4, <4>5, FirstPage
    <3>6. CASE ~IsProgramming
      <4> DEFINE x == [v EXCEPT !.stage = "VerifyUnlocked"]
                 y == Send(x, "EnterProgramMode", EnterProgModeCmd)
      <4>1. /\ Clear(x) /\ x.stage = "VerifyUnlocked" /\ x.hex = v.hex /\ x.page = v.page
            /\ x.words = v.words /\ x.bank = v.bank
        BY <3>3 DEF Clear, Idle, SessionField
      <4>2. OnChipErase(u) = y  BY <3>2, <3>6 DEF Erasing, SendEnterProgramMode
      <4> HIDE DEF x
      <4>3. Rewound(x, e)  BY <3>4, <4>1, RewoundAs
      <4>4. job.set  BY <3>6 DEF IsProgramming, Operation
      <4>5. ~job.serial  BY <4>4 DEF Ordered, Begins, LockRefused
      <4>6. Clear(y) /\ From(x, y) /\ Sole(y, "EnterProgramMode", EnterProgModeCmd)  BY <4>1, Sending
      <4> HIDE DEF y
      <4>7. Rewound(y, e) /\ y.stage = "VerifyUnlocked"  BY <4>1, <4>3, <4>6, Forth DEF From
      <4>8. Asks(y, e)  BY <2>1, <4>4, <4>5, <4>6, <4>7 DEF Asks, Configures
      <4> QED  BY <4>2, <4>8, AsksWell
    <3> QED  BY <3>5, <3>6
  <2> QED  BY <1>7, <2>1, <2>2, ByteTurn DEF e, c
<1> QED  BY <1>2, <1>3, <1>4, <1>5, <1>6, <1>7 DEF Opening

-----------------------------------------------------------------------------
(* Fuses and lock bits.                                                    *)

LEMMA Modified ==
  ASSUME NEW t, Clear(t), NEW m
  PROVE  LET w == [t EXCEPT !.modifier = m] IN
         /\ Clear(w) /\ w.modifier = m /\ w.stage = t.stage /\ w.hex = t.hex /\ w.page = t.page
         /\ w.words = t.words /\ w.bank = t.bank
BY DEF Clear, Idle, SessionField

LEMMA FuseSame ==
  ASSUME NEW s, NEW t, t.stage = s.stage
  PROVE  /\ FuseOf(t) = FuseOf(s) /\ ReadFuseCmd(t) = ReadFuseCmd(s)
         /\ WriteFuseCmd(t) = WriteFuseCmd(s)
<1>1. FuseOf(t) = FuseOf(s)  BY DEF FuseOf
<1> QED  BY <1>1 DEF ReadFuseCmd, WriteFuseCmd

(* A fuse is read, or written.                                             *)
LEMMA AsksFuse ==
  ASSUME job.set, NEW w, Clear(w), NEW d, Rewound(w, d), UpTo(d, 0), w.stage \in FuseStage
  PROVE  /\ w.modifier = {}
            \/ (d.fuse[FuseOf(w)] = "configured" /\ w.modifier \in {{"FuseVerified"}, {"FuseWritten"}})
              => Well(SendVerifyFuse(w), d)
         /\ w.modifier = {"FuseWritten", "FuseWriteResponse"}
              => Well(Send(w, "VerifyFuse", WriteFuseCmd(w)), d)
<1> DEFINE x == Send(w, "VerifyFuse", ReadFuseCmd(w))
           y == Send(w, "VerifyFuse", WriteFuseCmd(w))
<1>1. SendVerifyFuse(w) = x  BY DEF SendVerifyFuse, ReadFuseCmd
<1>2. /\ Clear(x) /\ From(w, x) /\ Sole(x, "VerifyFuse", ReadFuseCmd(w))
      /\ Clear(y) /\ From(w, y) /\ Sole(y, "VerifyFuse", WriteFuseCmd(w))
  BY Sending
<1> HIDE DEF x, y
<1>3. /\ x.stage = w.stage /\ x.modifier = w.modifier /\ Rewound(x, d)
      /\ y.stage = w.stage /\ y.modifier = w.modifier /\ Rewound(y, d)
  BY <1>2, Forth DEF From
<1>4. /\ FuseOf(x) = FuseOf(w) /\ ReadFuseCmd(x) = ReadFuseCmd(w)
      /\ FuseOf(y) = FuseOf(w) /\ WriteFuseCmd(y) = WriteFuseCmd(w)
  BY <1>3, FuseSame
<1>5. ASSUME w.modifier = {}
             \/ (d.fuse[FuseOf(w)] = "configured" /\ w.modifier \in {{"FuseVerified"}, {"FuseWritten"}})
      PROVE  Asks(x, d)
  <2>1. Asking(x, "VerifyFuse", ReadFuseCmd(x), WriteFuseCmd(x), d.fuse[FuseOf(x)] = "configured")
    BY <1>2, <1>3, <1>4, <1>5 DEF Asking
  <2>2. Configures(x, d)  BY <1>3, <2>1 DEF Configures
  <2> QED  BY <1>2, <2>2 DEF Asks
<1>6. ASSUME w.modifier = {"FuseWritten", "FuseWriteResponse"}
      PROVE  Asks(y, d)
  <2>1. Asking(y, "VerifyFuse", ReadFuseCmd(y), WriteFuseCmd(y), d.fuse[FuseOf(y)] = "configured")
    BY <1>2, <1>3, <1>4, <1>6 DEF Asking
  <2>2. Configures(y, d)  BY <1>3, <2>1 DEF Configures
  <2> QED  BY <1>2, <2>2 DEF Asks
<1> QED  BY <1>1, <1>5, <1>6, AsksWell DEF y

LEMMA AsksNextFuse ==
  ASSUME job.set, NEW t, Clear(t), NEW d, Rewound(t, d), UpTo(d, 0), t.stage \in FuseStage
  PROVE  Well(NextFuse(t), d)
<1>1. ASSUME NEW st \in {"VerifyHighFuse", "VerifyLowFuse"}
      PROVE  Well(SendVerifyFuse([t EXCEPT !.stage = st, !.modifier = {}]), d)
  <2> DEFINE w == [t EXCEPT !.stage = st, !.modifier = {}]
  <2>1. /\ Clear(w) /\ w.modifier = {} /\ w.stage = st /\ w.hex = t.hex /\ w.page = t.page
        /\ w.words = t.words /\ w.bank = t.bank
    BY DEF Clear, Idle, SessionField
  <2> HIDE DEF w
  <2>2. Rewound(w, d)  BY <2>1, RewoundAs
  <2>3. w.stage \in FuseStage  BY <2>1 DEF FuseStage
  <2> QED  BY <2>1, <2>2, <2>3, AsksFuse DEF w
<1>2. Well(SendEnterProgramMode([t EXCEPT !.stage = "LoadingFlash"]), d)
  <2> DEFINE w == [t EXCEPT !.stage = "LoadingFlash"]
             y == Send(w, "EnterProgramMode", EnterProgModeCmd)
  <2>1. /\ Clear(w) /\ w.stage = "LoadingFlash" /\ w.hex = t.hex /\ w.page = t.page
        /\ w.words = t.words /\ w.bank = t.bank
    BY DEF Clear, Idle, SessionField
  <2>2. SendEnterProgramMode(w) = y  BY DEF SendEnterProgramMode
  <2> HIDE DEF w
  <2>3. Rewound(w, d)  BY <2>1, RewoundAs
  <2>4. Clear(y) /\ From(w, y) /\ Sole(y, "EnterProgramMode", EnterProgModeCmd)  BY <2>1, Sending
  <2> HIDE DEF y
  <2>5. Rewound(y, d) /\ y.stage = "LoadingFlash"  BY <2>1, <2>3, <2>4, Forth DEF From
  <2>6. Asks(y, d)  BY <2>4, <2>5 DEF Asks, Configures
  <2> QED  BY <2>2, <2>6, AsksWell DEF w
<1> QED  BY <1>1, <1>2 DEF NextFuse, FuseStage

(* A byte of the fuse, or of the answer to its writing, has been read.     *)
LEMMA AsksFuseAgain ==
  ASSUME job.set, NEW t, Clear(t), NEW d, Rewound(t, d), UpTo(d, 0), t.stage \in FuseStage,
         t.handler = "VerifyFuse", NEW same \in BOOLEAN,
         \/ t.modifier = {} /\ same = (d.fuse[FuseOf(t)] = "configured")
         \/ same /\ d.fuse[FuseOf(t)] = "configured" /\ t.modifier \in {{"FuseVerified"}, {"FuseWritten"}}
         \/ d.fuse[FuseOf(t)] = "configured" /\ t.modifier = {"FuseWritten", "FuseWriteResponse"}
  PROVE  Well(ReadTwice(t, same, SendVerifyFuse, UniversalCmd([op |-> "writeFuse", fuse |-> FuseOf(t)]),
                        NextFuse, "Fuse"), d)
<1> DEFINE x(m) == [t EXCEPT !.modifier = m]
<1>1. ASSUME NEW m
      PROVE  /\ Clear(x(m)) /\ x(m).modifier = m /\ x(m).stage = t.stage /\ Rewound(x(m), d)
             /\ FuseOf(x(m)) = FuseOf(t) /\ WriteFuseCmd(x(m)) = WriteFuseCmd(t)
  <2>1. /\ Clear(x(m)) /\ x(m).modifier = m /\ x(m).stage = t.stage /\ x(m).hex = t.hex
        /\ x(m).page = t.page /\ x(m).words = t.words /\ x(m).bank = t.bank
    BY Modified
  <2> HIDE DEF x
  <2> QED  BY <2>1, RewoundAs, FuseSame
<1> HIDE DEF x
<1>2. ASSUME d.fuse[FuseOf(t)] = "configured"
      PROVE  Well(SendVerifyFuse(x({"FuseVerified"})), d) /\ Well(SendVerifyFuse(x({"FuseWritten"})), d)
  BY <1>1, <1>2, AsksFuse
<1>3. Well(Send(x({"FuseWritten", "FuseWriteResponse"}), "VerifyFuse", WriteFuseCmd(t)), d)
  <2> DEFINE w == x({"FuseWritten", "FuseWriteResponse"})
  <2>1. /\ Clear(w) /\ w.modifier = {"FuseWritten", "FuseWriteResponse"} /\ w.stage \in FuseStage
        /\ Rewound(w, d) /\ WriteFuseCmd(w) = WriteFuseCmd(t)
    BY <1>1
  <2> HIDE DEF w
  <2>2. Well(Send(w, "VerifyFuse", WriteFuseCmd(w)), d)  BY <2>1, AsksFuse
  <2> QED  BY <2>1, <2>2 DEF w
<1>4. Well(NextFuse(t), d)  BY AsksNextFuse
<1> DEFINE o == ReadTwice(t, same, SendVerifyFuse, UniversalCmd([op |-> "writeFuse", fuse |-> FuseOf(t)]),
                          NextFuse, "Fuse")
<1>5. o = IF "FuseWriteResponse" \in t.modifier THEN SendVerifyFuse(x(t.modifier \ {"FuseWriteResponse"}))
          ELSE IF same THEN IF "FuseVerified" \in t.modifier THEN NextFuse(t)
                            ELSE SendVerifyFuse(x({"FuseVerified"}))
          ELSE IF t.modifier # {} THEN Fail(t, "Fuse")
          ELSE Send(x({"FuseWriteResponse", "FuseWritten"}), "VerifyFuse", WriteFuseCmd(t))
  BY DEF ReadTwice, x, WriteFuseCmd
<1> HIDE DEF o
<1>6. CASE t.modifier = {} /\ same = (d.fuse[FuseOf(t)] = "configured")
  <2>1. {"FuseWriteResponse", "FuseWritten"} = {"FuseWritten", "FuseWriteResponse"}  OBVIOUS
  <2>2. CASE same  BY <1>2, <1>5, <1>6, <2>2 DEF o
  <2>3. CASE ~same  BY <1>3, <1>5, <1>6, <2>1, <2>3 DEF o
  <2> QED  BY <2>2, <2>3
<1>7. CASE same /\ d.fuse[FuseOf(t)] = "configured" /\ t.modifier = {"FuseVerified"}
  BY <1>4, <1>5, <1>7 DEF o
<1>8. CASE same /\ d.fuse[FuseOf(t)] = "configured" /\ t.modifier = {"FuseWritten"}
  BY <1>2, <1>5, <1>8 DEF o
<1>9. CASE d.fuse[FuseOf(t)] = "configured" /\ t.modifier = {"FuseWritten", "FuseWriteResponse"}
  <2>1. t.modifier \ {"FuseWriteResponse"} = {"FuseWritten"}  BY <1>9
  <2> QED  BY <1>2, <1>5, <1>9, <2>1 DEF o
<1> QED  BY <1>6, <1>7, <1>8, <1>9

LEMMA FuseTurns ==
  ASSUME Ordered, NEW s, NEW d, Chip(d, "none"), Clear(s), job.set, Rewound(s, d), UpTo(d, 0),
         s.stage \in FuseStage,
         Asking(s, "VerifyFuse", ReadFuseCmd(s), WriteFuseCmd(s), d.fuse[FuseOf(s)] = "configured")
  PROVE  Turns(s, d)
<1> DEFINE f == FuseOf(s)
<1>1. ~job.serial  BY DEF Ordered, Begins, LockRefused
<1>2. f \in Fuse  BY DEF FuseOf, FuseStage, Fuse
<1>3. ASSUME NEW u, NEW b, Hears(s, u, <<b, STK_OK>>), s.handler = "VerifyFuse", NEW e,
             MemoryOf(e) = MemoryOf(d), e.ext = d.ext,
             \/ s.modifier = {} /\ b = e.fuse[f]
             \/ b = "configured" /\ e.fuse[f] = "configured" /\ s.modifier \in {{"FuseVerified"}, {"FuseWritten"}}
             \/ e.fuse[f] = "configured" /\ s.modifier = {"FuseWritten", "FuseWriteResponse"}
      PROVE  Lands(u, e)
  <2> DEFINE v == Read(Read(u))
             same == b = "configured"
             o == ReadTwice(v, same, SendVerifyFuse,
                            UniversalCmd([op |-> "writeFuse", fuse |-> FuseOf(v)]), NextFuse, "Fuse")
  <2>1. u.in # <<>> /\ Head(u.in) = b /\ StatusOK(Read(u)) /\ Goes(s, v)  BY <1>3, ByteHeard
  <2>2. OnVerifyFuse(u) = o
    <3>1. OnVerifyFuse(u) = ReadTwice(v, Head(u.in) = "configured", SendVerifyFuse,
                            UniversalCmd([op |-> "writeFuse", fuse |-> FuseOf(v)]), NextFuse, "Fuse")
      BY <2>1, Zenon DEF OnVerifyFuse, OnByte, ResponseStatusOK, With
    <3> QED  BY <2>1, <3>1
  <2> HIDE DEF v
  <2>3. /\ Clear(v) /\ v.stage = s.stage /\ v.modifier = s.modifier /\ v.handler = "VerifyFuse"
        /\ Rewound(v, d)
    BY <1>3, <2>1, GoesFields
  <2>4. Rewound(v, e) /\ UpTo(e, 0)  BY <1>3, <2>3 DEF Rewound, Knows, UpTo
  <2>5. FuseOf(v) = f  BY <2>3, FuseSame
  <2>6. same \in BOOLEAN  OBVIOUS
  <2>7. /\ s.modifier = {} /\ b = e.fuse[f] => v.modifier = {} /\ same = (e.fuse[FuseOf(v)] = "configured")
        /\ b = "configured" => same
    BY <2>3, <2>5
  <2> HIDE DEF f, same
  <2>8. \/ v.modifier = {} /\ same = (e.fuse[FuseOf(v)] = "configured")
        \/ same /\ e.fuse[FuseOf(v)] = "configured" /\ v.modifier \in {{"FuseVerified"}, {"FuseWritten"}}
        \/ e.fuse[FuseOf(v)] = "configured" /\ v.modifier = {"FuseWritten", "FuseWriteResponse"}
    BY <1>3, <2>3, <2>5, <2>7
  <2>9. Well(o, e)  BY <2>3, <2>4, <2>6, <2>8, AsksFuseAgain
  <2>10. u.handler = "VerifyFuse"  BY <1>3 DEF Hears
  <2> QED  BY <2>2, <2>9, <2>10 DEF Lands
<1>4. CASE Sole(s, "VerifyFuse", ReadFuseCmd(s))
           /\ (s.modifier = {} \/ (d.fuse[f] = "configured" /\ s.modifier \in {{"FuseVerified"}, {"FuseWritten"}}))
  <2> DEFINE i == [op |-> "readFuse", fuse |-> f]
             c == UniversalCmd(i)
  <2>1. TransferInstruction(d, i) = [target |-> d, byte |-> d.fuse[f]]  BY DEF TransferInstruction
  <2>2. Reply(d, c).target = d /\ Reply(d, c).reply = <<STK_INSYNC, d.fuse[f], STK_OK>>
    <3> DEFINE t == TransferInstruction(d, i)
    <3>1. t.target = d /\ t.byte = d.fuse[f]  BY <2>1
    <3> HIDE DEF t, i
    <3>2. Reply(d, c).target = t.target /\ Reply(d, c).reply = <<STK_INSYNC, t.byte, STK_OK>>
      BY <1>1, Instructed DEF t
    <3> QED  BY <3>1, <3>2
  <2>3. Sole(s, "VerifyFuse", c) /\ s.handler = "VerifyFuse"  BY <1>4 DEF ReadFuseCmd, Sole
  <2> HIDE DEF c, f
  <2>4. ASSUME NEW u, Hears(s, u, <<d.fuse[f], STK_OK>>) PROVE Lands(u, d)
    BY <1>3, <1>4, <2>3, <2>4
  <2> QED  BY <2>2, <2>3, <2>4, ByteTurn
<1>5. CASE Sole(s, "VerifyFuse", WriteFuseCmd(s)) /\ s.modifier = {"FuseWritten", "FuseWriteResponse"}
  <2> DEFINE i == [op |-> "writeFuse", fuse |-> f]
             c == UniversalCmd(i)
             e == [d EXCEPT !.fuse[f] = "configured"]
  <2>1. TransferInstruction(d, i) = [target |-> e, byte |-> 0]
    BY DEF TransferInstruction, Chip
  <2>2. MemoryOf(e) = MemoryOf(d) /\ e.ext = d.ext /\ e.fuse[f] = "configured"
    BY <1>2 DEF Chip, ChipField, MemoryOf
  <2>3. Reply(d, c).target = e /\ Reply(d, c).reply = <<STK_INSYNC, 0, STK_OK>>
    <3> DEFINE t == TransferInstruction(d, i)
    <3>1. t.target = e /\ t.byte = 0  BY <2>1
    <3> HIDE DEF t, i, e
    <3>2. Reply(d, c).target = t.target /\ Reply(d, c).reply = <<STK_INSYNC, t.byte, STK_OK>>
      BY <1>1, Instructed DEF t
    <3> QED  BY <3>1, <3>2
  <2>4. Sole(s, "VerifyFuse", c) /\ s.handler = "VerifyFuse"  BY <1>5 DEF WriteFuseCmd, Sole
  <2> HIDE DEF c, f, e
  <2>5. ASSUME NEW u, Hears(s, u, <<0, STK_OK>>) PROVE Lands(u, e)
    BY <1>3, <1>5, <2>2, <2>4, <2>5
  <2> QED  BY <2>3, <2>4, <2>5, ByteTurn
<1> QED  BY <1>4, <1>5 DEF Asking

LEMMA UnlockedTurns ==
  ASSUME Ordered, NEW s, NEW d, Chip(d, "none"), Clear(s), job.set, Rewound(s, d), UpTo(d, 0),
         s.stage = "VerifyUnlocked", d.lock = "unlocked",
         Sole(s, "VerifyUnlocked", ReadLockCmd), s.modifier \subseteq {"FuseVerified"}
  PROVE  Turns(s, d)
<1> DEFINE i == [op |-> "readLock"]
           c == UniversalCmd(i)
<1>1. ~job.serial  BY DEF Ordered, Begins, LockRefused
<1>2. Reply(d, c).target = d /\ Reply(d, c).reply = <<STK_INSYNC, "unlocked", STK_OK>>
  <2> DEFINE t == TransferInstruction(d, i)
  <2>1. t.target = d /\ t.byte = "unlocked"  BY DEF TransferInstruction
  <2> HIDE DEF t, i
  <2>2. Reply(d, c).target = t.target /\ Reply(d, c).reply = <<STK_INSYNC, t.byte, STK_OK>>
    BY <1>1, Instructed DEF t
  <2> QED  BY <2>1, <2>2
<1>3. Sole(s, "VerifyUnlocked", c) /\ s.handler = "VerifyUnlocked"  BY DEF ReadLockCmd, Sole
<1> HIDE DEF c
<1>4. ASSUME NEW u, Hears(s, u, <<"unlocked", STK_OK>>) PROVE Lands(u, d)
  <2> SUFFICES Well(OnVerifyUnlocked(u), d)
    <3>1. u.handler = "VerifyUnlocked"  BY <1>3, <1>4 DEF Hears
    <3> QED  BY <3>1 DEF Lands
  <2> DEFINE v == Read(Read(u))
             x == [v EXCEPT !.stage = "VerifyExtendedFuse", !.modifier = {}]
             y == [v EXCEPT !.modifier = @ \cup {"FuseVerified"}]
             K(t) == IF Head(u.in) # "unlocked" THEN Fail(t, "Unlock")
                     ELSE IF "FuseVerified" \in t.modifier
                       THEN SendVerifyFuse([t EXCEPT !.stage = "VerifyExtendedFuse", !.modifier = {}])
                     ELSE SendVerifyUnlocked([t EXCEPT !.modifier = @ \cup {"FuseVerified"}])
  <2>1. u.in # <<>> /\ Head(u.in) = "unlocked" /\ StatusOK(Read(u)) /\ Goes(s, v)
    BY <1>4, ByteHeard
  <2>2. OnVerifyUnlocked(u) = K(v)
    <3>1. With(v, K) = K(v)
      <4> HIDE DEF K
      <4> QED  BY Zenon DEF With
    <3>2. OnVerifyUnlocked(u) = With(v, K)
      BY <2>1, Zenon DEF OnVerifyUnlocked, OnByte, ResponseStatusOK
    <3> QED  BY <3>1, <3>2
  <2>3. K(v) = IF "FuseVerified" \in v.modifier THEN SendVerifyFuse(x) ELSE SendVerifyUnlocked(y)
    BY <2>1
  <2> HIDE DEF v, K
  <2>4. Clear(v) /\ v.stage = s.stage /\ v.modifier = s.modifier /\ Rewound(v, d)
    BY <2>1, GoesFields
  <2>5. CASE "FuseVerified" \in v.modifier
    <3>1. /\ Clear(x) /\ x.modifier = {} /\ x.stage = "VerifyExtendedFuse" /\ x.hex = v.hex
          /\ x.page = v.page /\ x.words = v.words /\ x.bank = v.bank
      BY <2>4 DEF Clear, Idle, SessionField
    <3> HIDE DEF x
    <3>2. Rewound(x, d) /\ x.stage \in FuseStage  BY <2>4, <3>1, RewoundAs DEF FuseStage
    <3>3. Well(SendVerifyFuse(x), d)  BY <3>1, <3>2, AsksFuse
    <3> QED  BY <2>2, <2>3, <2>5, <3>3
  <2>6. CASE "FuseVerified" \notin v.modifier
    <3>1. /\ Clear(y) /\ y.modifier = v.modifier \cup {"FuseVerified"} /\ y.stage = v.stage
          /\ y.hex = v.hex /\ y.page = v.page /\ y.words = v.words /\ y.bank = v.bank
      BY <2>4 DEF Clear, Idle, SessionField
    <3> HIDE DEF y
    <3>2. Rewound(y, d)  BY <2>4, <3>1, RewoundAs
    <3> DEFINE z == Send(y, "VerifyUnlocked", ReadLockCmd)
    <3>3. SendVerifyUnlocked(y) = z  BY DEF SendVerifyUnlocked, ReadLockCmd
    <3>4. Clear(z) /\ From(y, z) /\ Sole(z, "VerifyUnlocked", ReadLockCmd)  BY <3>1, Sending
    <3> HIDE DEF z
    <3>5. Rewound(z, d) /\ z.stage = "VerifyUnlocked" /\ z.modifier \subseteq {"FuseVerified"}
      BY <2>4, <3>1, <3>2, <3>4, Forth DEF From
    <3>6. Asks(z, d)  BY <3>4, <3>5 DEF Asks, Configures
    <3> QED  BY <2>2, <2>3, <2>6, <3>3, <3>6, AsksWell
  <2> QED  BY <2>5, <2>6
<1> QED  BY <1>2, <1>3, <1>4, ByteTurn

(* Programming mode is entered again.                                      *)
LEMMA ReentryTurns ==
  ASSUME Ordered, NEW s, NEW d, Chip(d, "none"), Clear(s), job.set, Rewound(s, d), UpTo(d, 0),
         Sole(s, "EnterProgramMode", EnterProgModeCmd),
         (s.stage = "VerifyUnlocked" /\ d.lock = "unlocked") \/ s.stage = "LoadingFlash"
  PROVE  Turns(s, d)
<1> DEFINE e == Reply(d, EnterProgModeCmd).target
<1>1. Reply(d, EnterProgModeCmd).reply = <<STK_INSYNC, STK_OK>> /\ Keeps(d, e)  BY StatusCommands
<1> HIDE DEF e
<1>2. ASSUME NEW u, Hears(s, u, <<STK_OK>>) PROVE Lands(u, e)
  <2> SUFFICES Well(OnEnterProgramMode(u), e)
    <3>1. u.handler = "EnterProgramMode"  BY <1>2 DEF Hears, Sole
    <3> QED  BY <3>1 DEF Lands
  <2> DEFINE v == Read(u)
  <2>1. StatusOK(u) /\ Goes(s, v)  BY <1>2, StatusHeard
  <2>2. OnEnterProgramMode(u) = InProgramMode(v)
    BY <2>1, Zenon DEF OnEnterProgramMode, ResponseStatusOK, With
  <2> HIDE DEF v
  <2>3. Clear(v) /\ v.stage = s.stage /\ Rewound(v, d)  BY <2>1, GoesFields
  <2>4. Rewound(v, e) /\ UpTo(e, 0) /\ e.lock = d.lock  BY <1>1, <2>3, Keeping DEF Keeps
  <2>5. CASE s.stage = "VerifyUnlocked" /\ d.lock = "unlocked"
    <3> DEFINE y == [v EXCEPT !.modifier = {}]
               z == Send(y, "VerifyUnlocked", ReadLockCmd)
    <3>1. /\ Clear(y) /\ y.modifier = {} /\ y.stage = v.stage
          /\ y.hex = v.hex /\ y.page = v.page /\ y.words = v.words /\ y.bank = v.bank
      BY <2>3, Modified
    <3>2. InProgramMode(v) = z
      BY <2>3, <2>5 DEF InProgramMode, SendVerifyUnlocked, ReadLockCmd
    <3> HIDE DEF y
    <3>3. Rewound(y, e)  BY <2>4, <3>1, RewoundAs
    <3>4. Clear(z) /\ From(y, z) /\ Sole(z, "VerifyUnlocked", ReadLockCmd)  BY <3>1, Sending
    <3> HIDE DEF z
    <3>5. Rewound(z, e) /\ z.stage = "VerifyUnlocked" /\ z.modifier = {}
      BY <2>3, <2>5, <3>1, <3>3, <3>4, Forth DEF From
    <3>6. Asks(z, e)  BY <2>4, <2>5, <3>4, <3>5 DEF Asks, Configures
    <3> QED  BY <2>2, <3>2, <3>6, AsksWell
  <2>6. CASE s.stage = "LoadingFlash" /\ Operation = "SetFusesAndBootloader"
    <3> DEFINE y == [v EXCEPT !.spi = "fast"]
    <3>1. /\ Clear(y) /\ y.stage = v.stage
          /\ y.hex = v.hex /\ y.page = v.page /\ y.words = v.words /\ y.bank = v.bank
      BY <2>3 DEF Clear, Idle, SessionField
    <3>2. InProgramMode(v) = SendProcessPage(y)  BY <2>3, <2>6 DEF InProgramMode
    <3> HIDE DEF y
    <3>3. Rewound(y, e) /\ Loading(y)  BY <2>3, <2>4, <2>6, <3>1, RewoundAs DEF Loading
    <3>4. Filed  BY <2>6 DEF Filed, NeedsFile, Operation
    <3>5. Memory = "flash"  BY <2>6 DEF Memory
    <3>6. Equipped(e)  BY <3>5 DEF Equipped
    <3> QED  BY <2>2, <2>4, <3>1, <3>2, <3>3, <3>4, <3>6, FirstPage
  <2>7. CASE s.stage = "LoadingFlash" /\ Operation # "SetFusesAndBootloader"
    <3>1. InProgramMode(v) = VerifyLocks(v)  BY <2>3, <2>7 DEF InProgramMode
    <3> QED  BY <2>2, <2>3, <3>1, AsksLocks, AsksWell
  <2> QED  BY <2>5, <2>6, <2>7
<1> QED  BY <1>1, <1>2, StatusTurn DEF e

LEMMA ConfiguresTurns ==
  ASSUME Ordered, NEW s, NEW d, Chip(d, "none"), Clear(s), Configures(s, d)
  PROVE  Turns(s, d)
<1>1. job.set /\ Rewound(s, d) /\ UpTo(d, 0)  BY DEF Configures
<1>2. CASE s.stage = "VerifyUnlocked" /\ d.lock = "unlocked"
           /\ Sole(s, "EnterProgramMode", EnterProgModeCmd)
  BY <1>1, <1>2, ReentryTurns
<1>3. CASE s.stage = "VerifyUnlocked" /\ d.lock = "unlocked"
           /\ Sole(s, "VerifyUnlocked", ReadLockCmd) /\ s.modifier \subseteq {"FuseVerified"}
  BY <1>1, <1>3, UnlockedTurns
<1>4. CASE s.stage \in FuseStage
           /\ Asking(s, "VerifyFuse", ReadFuseCmd(s), WriteFuseCmd(s), d.fuse[FuseOf(s)] = "configured")
  BY <1>1, <1>4, FuseTurns
<1>5. CASE s.stage = "LoadingFlash" /\ Sole(s, "EnterProgramMode", EnterProgModeCmd)
  BY <1>1, <1>5, ReentryTurns
<1> QED  BY <1>2, <1>3, <1>4, <1>5 DEF Configures

-----------------------------------------------------------------------------
(* The end.                                                                *)

LEMMA AsksLock ==
  ASSUME job.set, NEW w, Clear(w), NEW d, w.stage = "VerifyLockBits"
  PROVE  /\ w.modifier = {}
            \/ (d.lock = "locked" /\ w.modifier \in {{"FuseVerified"}, {"FuseWritten"}})
              => Well(SendVerifyLockBits(w), d)
         /\ w.modifier = {"FuseWritten", "FuseWriteResponse"}
              => Well(Send(w, "VerifyLockBits", WriteLockCmd), d)
<1> DEFINE x == Send(w, "VerifyLockBits", ReadLockCmd)
           y == Send(w, "VerifyLockBits", WriteLockCmd)
<1>1. SendVerifyLockBits(w) = x  BY DEF SendVerifyLockBits, ReadLockCmd
<1>2. /\ Clear(x) /\ From(w, x) /\ Sole(x, "VerifyLockBits", ReadLockCmd)
      /\ Clear(y) /\ From(w, y) /\ Sole(y, "VerifyLockBits", WriteLockCmd)
  BY Sending
<1> HIDE DEF x, y
<1>3. x.stage = w.stage /\ x.modifier = w.modifier /\ y.stage = w.stage /\ y.modifier = w.modifier
  BY <1>2 DEF From
<1>4. ASSUME w.modifier = {}
             \/ (d.lock = "locked" /\ w.modifier \in {{"FuseVerified"}, {"FuseWritten"}})
      PROVE  Asks(x, d)
  <2>1. Closing(x, d)  BY <1>2, <1>3, <1>4 DEF Closing, Asking
  <2> QED  BY <1>2, <2>1 DEF Asks
<1>5. ASSUME w.modifier = {"FuseWritten", "FuseWriteResponse"}
      PROVE  Asks(y, d)
  <2>1. Closing(y, d)  BY <1>2, <1>3, <1>5 DEF Closing, Asking
  <2> QED  BY <1>2, <2>1 DEF Asks
<1> QED  BY <1>1, <1>4, <1>5, AsksWell DEF y

LEMMA AsksLockAgain ==
  ASSUME job.set, NEW t, Clear(t), NEW d, t.stage = "VerifyLockBits", t.handler = "VerifyLockBits",
         NEW same \in BOOLEAN,
         \/ t.modifier = {} /\ same = (d.lock = "locked")
         \/ same /\ d.lock = "locked" /\ t.modifier \in {{"FuseVerified"}, {"FuseWritten"}}
         \/ d.lock = "locked" /\ t.modifier = {"FuseWritten", "FuseWriteResponse"}
  PROVE  Well(ReadTwice(t, same, SendVerifyLockBits, UniversalCmd([op |-> "writeLock"]),
                        SendLeaveProgramMode, "Lock"), d)
<1> DEFINE x(m) == [t EXCEPT !.modifier = m]
<1>1. ASSUME NEW m PROVE Clear(x(m)) /\ x(m).modifier = m /\ x(m).stage = "VerifyLockBits"
  BY Modified
<1> HIDE DEF x
<1>2. ASSUME d.lock = "locked"
      PROVE  /\ Well(SendVerifyLockBits(x({"FuseVerified"})), d)
             /\ Well(SendVerifyLockBits(x({"FuseWritten"})), d)
  BY <1>1, <1>2, AsksLock
<1>3. Well(Send(x({"FuseWritten", "FuseWriteResponse"}), "VerifyLockBits", WriteLockCmd), d)
  BY <1>1, AsksLock
<1>4. Well(SendLeaveProgramMode(t), d)  BY AsksLeave, AsksWell
<1> DEFINE o == ReadTwice(t, same, SendVerifyLockBits, UniversalCmd([op |-> "writeLock"]),
                          SendLeaveProgramMode, "Lock")
<1>5. o = IF "FuseWriteResponse" \in t.modifier THEN SendVerifyLockBits(x(t.modifier \ {"FuseWriteResponse"}))
          ELSE IF same THEN IF "FuseVerified" \in t.modifier THEN SendLeaveProgramMode(t)
                            ELSE SendVerifyLockBits(x({"FuseVerified"}))
          ELSE IF t.modifier # {} THEN Fail(t, "Lock")
          ELSE Send(x({"FuseWriteResponse", "FuseWritten"}), "VerifyLockBits", WriteLockCmd)
  BY DEF ReadTwice, x, WriteLockCmd
<1> HIDE DEF o
<1>6. CASE t.modifier = {} /\ same = (d.lock = "locked")
  <2>1. {"FuseWriteResponse", "FuseWritten"} = {"FuseWritten", "FuseWriteResponse"}  OBVIOUS
  <2>2. CASE same  BY <1>2, <1>5, <1>6, <2>2 DEF o
  <2>3. CASE ~same  BY <1>3, <1>5, <1>6, <2>1, <2>3 DEF o
  <2> QED  BY <2>2, <2>3
<1>7. CASE same /\ d.lock = "locked" /\ t.modifier = {"FuseVerified"}
  BY <1>4, <1>5, <1>7 DEF o
<1>8. CASE same /\ d.lock = "locked" /\ t.modifier = {"FuseWritten"}
  BY <1>2, <1>5, <1>8 DEF o
<1>9. CASE d.lock = "locked" /\ t.modifier = {"FuseWritten", "FuseWriteResponse"}
  <2>1. t.modifier \ {"FuseWriteResponse"} = {"FuseWritten"}  BY <1>9
  <2> QED  BY <1>2, <1>5, <1>9, <2>1 DEF o
<1> QED  BY <1>6, <1>7, <1>8, <1>9

LEMMA LockTurns ==
  ASSUME Ordered, NEW s, NEW d, Chip(d, "none"), Clear(s), job.set, s.stage = "VerifyLockBits",
         Asking(s, "VerifyLockBits", ReadLockCmd, WriteLockCmd, d.lock = "locked")
  PROVE  Turns(s, d)
<1>1. ~job.serial  BY DEF Ordered, Begins, LockRefused
<1>2. ASSUME NEW u, NEW b, Hears(s, u, <<b, STK_OK>>), s.handler = "VerifyLockBits", NEW e,
             \/ s.modifier = {} /\ b = e.lock
             \/ b = "locked" /\ e.lock = "locked" /\ s.modifier \in {{"FuseVerified"}, {"FuseWritten"}}
             \/ e.lock = "locked" /\ s.modifier = {"FuseWritten", "FuseWriteResponse"}
      PROVE  Lands(u, e)
  <2> DEFINE v == Read(Read(u))
             same == b = "locked"
             o == ReadTwice(v, same, SendVerifyLockBits, UniversalCmd([op |-> "writeLock"]),
                            SendLeaveProgramMode, "Lock")
  <2>1. u.in # <<>> /\ Head(u.in) = b /\ StatusOK(Read(u)) /\ Goes(s, v)  BY <1>2, ByteHeard
  <2>2. OnVerifyLockBits(u) = o
    <3>1. OnVerifyLockBits(u) = ReadTwice(v, Head(u.in) = "locked", SendVerifyLockBits,
                                  UniversalCmd([op |-> "writeLock"]), SendLeaveProgramMode, "Lock")
      BY <2>1, Zenon DEF OnVerifyLockBits, OnByte, ResponseStatusOK, With
    <3> QED  BY <2>1, <3>1
  <2> HIDE DEF v
  <2>3. /\ Clear(v) /\ v.stage = "VerifyLockBits" /\ v.modifier = s.modifier
        /\ v.handler = "VerifyLockBits"
    BY <1>2, <2>1, GoesFields
  <2>4. same \in BOOLEAN  OBVIOUS
  <2>5. /\ s.modifier = {} /\ b = e.lock => v.modifier = {} /\ same = (e.lock = "locked")
        /\ b = "locked" => same
    BY <2>3
  <2> HIDE DEF same
  <2>6. Well(o, e)  BY <1>2, <2>3, <2>4, <2>5, AsksLockAgain
  <2>7. u.handler = "VerifyLockBits"  BY <1>2 DEF Hears
  <2> QED  BY <2>2, <2>6, <2>7 DEF Lands
<1>3. CASE Sole(s, "VerifyLockBits", ReadLockCmd)
           /\ (s.modifier = {} \/ (d.lock = "locked" /\ s.modifier \in {{"FuseVerified"}, {"FuseWritten"}}))
  <2> DEFINE i == [op |-> "readLock"]
             c == UniversalCmd(i)
  <2>1. Reply(d, c).target = d /\ Reply(d, c).reply = <<STK_INSYNC, d.lock, STK_OK>>
    <3> DEFINE t == TransferInstruction(d, i)
    <3>1. t.target = d /\ t.byte = d.lock  BY DEF TransferInstruction
    <3> HIDE DEF t, i
    <3>2. Reply(d, c).target = t.target /\ Reply(d, c).reply = <<STK_INSYNC, t.byte, STK_OK>>
      BY <1>1, Instructed DEF t
    <3> QED  BY <3>1, <3>2
  <2>2. Sole(s, "VerifyLockBits", c) /\ s.handler = "VerifyLockBits"  BY <1>3 DEF ReadLockCmd, Sole
  <2> HIDE DEF c
  <2>3. ASSUME NEW u, Hears(s, u, <<d.lock, STK_OK>>) PROVE Lands(u, d)
    BY <1>2, <1>3, <2>2, <2>3
  <2> QED  BY <2>1, <2>2, <2>3, ByteTurn
<1>4. CASE Sole(s, "VerifyLockBits", WriteLockCmd) /\ s.modifier = {"FuseWritten", "FuseWriteResponse"}
  <2> DEFINE i == [op |-> "writeLock"]
             c == UniversalCmd(i)
             e == [d EXCEPT !.lock = "locked"]
  <2>1. e.lock = "locked"  BY DEF Chip, ChipField
  <2>2. Reply(d, c).target = e /\ Reply(d, c).reply = <<STK_INSYNC, 0, STK_OK>>
    <3> DEFINE t == TransferInstruction(d, i)
    <3>1. t.target = e /\ t.byte = 0  BY DEF TransferInstruction
    <3> HIDE DEF t, i, e
    <3>2. Reply(d, c).target = t.target /\ Reply(d, c).reply = <<STK_INSYNC, t.byte, STK_OK>>
      BY <1>1, Instructed DEF t
    <3> QED  BY <3>1, <3>2
  <2>3. Sole(s, "VerifyLockBits", c) /\ s.handler = "VerifyLockBits"  BY <1>4 DEF WriteLockCmd, Sole
  <2> HIDE DEF c, e
  <2>4. ASSUME NEW u, Hears(s, u, <<0, STK_OK>>) PROVE Lands(u, e)
    BY <1>2, <1>4, <2>1, <2>3, <2>4
  <2> QED  BY <2>2, <2>3, <2>4, ByteTurn
<1> QED  BY <1>3, <1>4 DEF Asking

LEMMA LeaveTurns ==
  ASSUME NEW s, NEW d, Chip(d, "none"), Clear(s), Sole(s, "LeaveProgramMode", LeaveProgModeCmd)
  PROVE  Turns(s, d)
<1> DEFINE e == Reply(d, LeaveProgModeCmd).target
<1>1. Reply(d, LeaveProgModeCmd).reply = <<STK_INSYNC, STK_OK>>  BY StatusCommands
<1> HIDE DEF e
<1>2. ASSUME NEW u, Hears(s, u, <<STK_OK>>) PROVE Lands(u, e)
  <2> DEFINE v == Read(u)
  <2>1. StatusOK(u) /\ Goes(s, v)  BY <1>2, StatusHeard
  <2>2. OnLeaveProgramMode(u) = Halt(v)
    BY <2>1, Zenon DEF OnLeaveProgramMode, ResponseStatusOK, With
  <2> HIDE DEF v
  <2>3. DOMAIN v = SessionField /\ v.error = "none"  BY <2>1 DEF Goes, Clear, Idle
  <2>4. Halt(v).stage = "SessionCompleted" /\ Halt(v).error = "none"
    BY <2>3 DEF Halt, SessionField
  <2>5. Well(OnLeaveProgramMode(u), e)  BY <2>2, <2>4 DEF Well
  <2>6. u.handler = "LeaveProgramMode"  BY <1>2 DEF Hears, Sole
  <2> QED  BY <2>5, <2>6 DEF Lands
<1> QED  BY <1>1, <1>2, StatusTurn DEF e

-----------------------------------------------------------------------------
(* Pages.                                                                  *)

LEMMA NextBoundary ==
  ASSUME NEW n \in Nat \ {0}, NEW p \in Nat, PageOf(p, n) = p
  PROVE  p + n \in Nat /\ PageOf(p + n, n) = p + n
<1> DEFINE k == p \div n
           r == p % n
           x == p + n
<1>1. k \in Nat /\ r \in 0 .. n - 1 /\ p = n * k + r  BY DivMod
<1>2. p - r = p  BY DEF PageOf
<1>3. r = 0
  <2> HIDE DEF r
  <2> QED  BY <1>1, <1>2
<1> HIDE DEF k, r
<1>4. x = n * (k + 1) + 0  BY <1>1, <1>3
<1>5. k + 1 \in Nat /\ 0 \in 0 .. n - 1  BY <1>1
<1>6. (n * (k + 1) + 0) % n = 0  BY <1>5, Unique
<1>7. x \in Nat /\ x % n = 0  BY <1>4, <1>6
<1> HIDE DEF x
<1>8. PageOf(x, n) = x  BY <1>7 DEF PageOf
<1> QED  BY <1>7, <1>8 DEF x

(* Where the page lies in which the reader stands.                         *)
LEMMA Located ==
  ASSUME Filed, NEW h, Placed(h), Standing(TheFile, h), InHand(h),
         NEW n \in {PageWords, VerifiedWords}, NEW p, p = PageOf(WordAddress(h), n)
  PROVE  /\ p \in Nat /\ PageOf(p, n) = p /\ Bank(h) * BankWords + (p % BankWords) = p
         /\ Bank(h) # NoBank /\ Bank(h) \in Nat
         /\ ~(job.large /\ Memory = "flash") => Bank(h) = 0
         /\ Memory # "flash" => p % BankWords = p
<1> DEFINE i == h.pos - 1
           y == h.high
           w == BankWords
           b == Bank(h)
           r == p % w
<1>1. n \in Nat \ {0} /\ Loadable(TheFile, n)  BY PageSizes DEF Filed, Ordered
<1>2. /\ TheFile \in Seq(Record) /\ Orderly(TheFile)
      /\ BankWords % n = 0 \/ InFirstBank(TheFile)
  BY <1>1 DEF Loadable
<1>3. h \in Reader /\ h.type = "data"  BY DEF Placed, InHand
<1>4. p \in Nat /\ PageOf(p, n) = p /\ InBank(p, b)
  <2> HIDE DEF b
  <2> QED  BY <1>1, <1>2, <1>3, PageStands DEF b
<1>5. i \in DataRecords(TheFile) /\ y = HighAt(TheFile, i)  BY <1>2, <1>3, StandingData
<1>6. y \in 0 .. 15  BY <1>2, <1>5, RecordWords
<1>7. b = y \div 2  BY DEF Bank
<1>8. b \in 0 .. 7
  <2> HIDE DEF y, b
  <2> QED  BY <1>6, <1>7
<1>9. ASSUME ~(job.large /\ Memory = "flash") PROVE b = 0
  <2>1. InFirstBank(TheFile)  BY <1>9 DEF Filed, Ordered
  <2>2. y < 2  BY <1>5, <2>1 DEF InFirstBank
  <2> HIDE DEF y, b
  <2> QED  BY <1>6, <1>7, <2>2
<1>10. w \in Nat \ {0}  BY SegmentAssumption DEF BankWords
<1>11. b * w + r = p
  <2> HIDE DEF b
  <2> QED  BY <1>4, PlaceInBank
<1>12. ASSUME Memory # "flash" PROVE r = p
  <2>1. 0 * w + r = p  BY <1>9, <1>11, <1>12
  <2>2. r \in Nat
    <3> HIDE DEF w
    <3> QED  BY <1>4, <1>10
  <2> HIDE DEF w, r
  <2> QED  BY <1>10, <2>1, <2>2
<1>13. b \in Nat /\ b # NoBank  BY <1>8 DEF NoBank
<1> QED  BY <1>4, <1>9, <1>11, <1>12, <1>13

(* ProcessPage() with a record in hand.                                    *)
LEMMA PageFirst ==
  ASSUME NEW s, Clear(s), NEW d, Files(s, d), InHand(s.hex)
  PROVE  SendProcessPage(s) = SendPageOrAddress(s)
<1> DEFINE W(x) == IF x.error # "none" THEN x
                   ELSE IF x.hex.type = "eof" THEN EndOfFile(x) ELSE SendPageOrAddress(x)
<1>1. WithRecord(s) = s  BY RecordTaken DEF Files
<1>2. With(s, W) = W(s)
  <2> HIDE DEF W
  <2> QED  BY Zenon DEF With
<1>3. SendProcessPage(s) = With(WithRecord(s), W)  BY Zenon DEF SendProcessPage
<1>4. W(s) = SendPageOrAddress(s)  BY DEF Clear, Idle, InHand
<1> HIDE DEF W
<1> QED  BY <1>1, <1>2, <1>3, <1>4

LEMMA ExtAddressTurns ==
  ASSUME Filed, NEW s, NEW d, Chip(d, "none"), Clear(s), Files(s, d), Facing(s, d),
         Sole(s, "LoadExtAddress", UniversalCmd([op |-> "loadExt", bank |-> s.bank])),
         s.page # PageIn(s)
  PROVE  Turns(s, d)
<1> DEFINE b == s.bank
           i == [op |-> "loadExt", bank |-> b]
           c == UniversalCmd(i)
           e == [d EXCEPT !.ext = b]
<1>1. Reply(d, c).target = e /\ Reply(d, c).reply = <<STK_INSYNC, 0, STK_OK>>
  <2> DEFINE t == TransferInstruction(d, i)
             z == Reply(d, c)
             x == IF i.op = "loadExt" THEN [d EXCEPT !.ext = i.bank] ELSE d
  <2>1. t.target = e /\ t.byte = 0 /\ x = e  BY DEF TransferInstruction
  <2> HIDE DEF t, e, i
  <2>2. /\ ~job.serial => z.target = t.target /\ z.reply = <<STK_INSYNC, t.byte, STK_OK>>
        /\ job.serial => z.reply = <<STK_INSYNC, 0, STK_OK>> /\ z.target = x
    BY Instructed DEF t
  <2> HIDE DEF z, x
  <2> QED  BY <2>1, <2>2 DEF z
<1>2. /\ MemoryOf(e) = MemoryOf(d) /\ e.ext = b /\ e.eepromSize = d.eepromSize
  BY DEF Chip, ChipField, MemoryOf
<1>3. Sole(s, "LoadExtAddress", c)  OBVIOUS
<1> HIDE DEF c, e, b
<1>4. ASSUME NEW u, Hears(s, u, <<0, STK_OK>>) PROVE Lands(u, e)
  <2> DEFINE v == Read(Read(u))
  <2>1. u.in # <<>> /\ StatusOK(Read(u)) /\ Goes(s, v)  BY <1>4, ByteHeard
  <2>2. OnLoadExtAddress(u) = SendProcessPage(v)
    BY <2>1, Zenon DEF OnLoadExtAddress, OnByte, ResponseStatusOK, With
  <2> HIDE DEF v
  <2>3. Clear(v) /\ From(s, v) /\ v.page = s.page /\ v.hex = s.hex /\ v.bank = b
    BY <2>1, GoesFields DEF Goes, b
  <2>4. Files(v, d) /\ Facing(v, d) /\ PageIn(v) = PageIn(s)  BY <2>3, Forth
  <2>5. Files(v, e)  BY <1>2, <2>4 DEF Files, Equipped
  <2>6. InHand(v.hex) /\ v.bank = Bank(v.hex) /\ Reaches(v, d, PageIn(v))  BY <2>4 DEF Facing
  <2>7. Reaches(v, e, PageIn(v))  BY <1>2, <2>6 DEF Reaches, UpTo
  <2>8. Knows(v, e)
    <3>1. Placed(v.hex) /\ Standing(TheFile, v.hex) /\ v.words \in {PageWords, VerifiedWords}
      BY <2>5 DEF Files
    <3>2. ~(job.large /\ Memory = "flash") => Bank(v.hex) = 0  BY <2>6, <3>1, Located
    <3> QED  BY <1>2, <2>3, <2>6, <3>2 DEF Knows
  <2>9. Asks(SendPageOrAddress(v), e)  BY <2>3, <2>4, <2>5, <2>6, <2>7, <2>8, AsksAddress
  <2>10. SendProcessPage(v) = SendPageOrAddress(v)  BY <2>3, <2>5, <2>6, PageFirst
  <2>11. Well(OnLoadExtAddress(u), e)  BY <2>2, <2>9, <2>10, AsksWell
  <2>12. u.handler = "LoadExtAddress"  BY <1>3, <1>4 DEF Hears, Sole
  <2> QED  BY <2>11, <2>12 DEF Lands
<1> QED  BY <1>1, <1>3, <1>4, ByteTurn

LEMMA AddressTurns ==
  ASSUME Filed, NEW s, NEW d, Chip(d, "none"), Clear(s), Files(s, d), Facing(s, d),
         Sole(s, "LoadAddress", LoadAddressCmd(s.page % BankWords)),
         s.page = PageIn(s), Knows(s, d)
  PROVE  Turns(s, d)
<1> DEFINE n == s.page % BankWords
           c == LoadAddressCmd(n)
           e == Reply(d, c).target
<1>1. Reply(d, c).reply = <<STK_INSYNC, STK_OK>> /\ Keeps(d, e)  BY StatusCommands
<1>2. e.address = n  BY AddressLoaded
<1>3. Sole(s, "LoadAddress", c)  OBVIOUS
<1> HIDE DEF c, e
<1>4. ASSUME NEW u, Hears(s, u, <<STK_OK>>) PROVE Lands(u, e)
  <2> DEFINE v == Read(u)
  <2>1. StatusOK(u) /\ Goes(s, v)  BY <1>4, StatusHeard
  <2>2. OnLoadAddress(u) = SendProcessPage(v)
    BY <2>1, Zenon DEF OnLoadAddress, ResponseStatusOK, With
  <2> HIDE DEF v
  <2>3. Clear(v) /\ From(s, v) /\ v.page = s.page /\ v.hex = s.hex /\ v.bank = s.bank
    BY <2>1, GoesFields DEF Goes
  <2>4. Files(v, d) /\ Facing(v, d) /\ PageIn(v) = PageIn(s) /\ Knows(v, d)  BY <2>3, Forth
  <2>5. Files(v, e) /\ Facing(v, e) /\ Knows(v, e)  BY <1>1, <2>4, Keeping
  <2>6. InHand(v.hex) /\ v.bank = Bank(v.hex) /\ v.page = PageIn(v)  BY <2>3, <2>4 DEF Facing
  <2>7. Where(e) = v.page
    <3> DEFINE b == Bank(v.hex)
               p == v.page
    <3>1. Placed(v.hex) /\ Standing(TheFile, v.hex) /\ v.words \in {PageWords, VerifiedWords}
      BY <2>5 DEF Files
    <3>2. p = PageOf(WordAddress(v.hex), v.words)  BY <2>6 DEF PageIn
    <3>3. /\ b * BankWords + (p % BankWords) = p /\ b # NoBank
          /\ Memory # "flash" => p % BankWords = p
      <4> HIDE DEF p
      <4> QED  BY <2>6, <3>1, <3>2, Located
    <3>4. Memory = "flash" => e.ext = b  BY <2>5, <2>6, <3>3 DEF Knows
    <3>5. e.address = p % BankWords  BY <1>2, <2>3
    <3> HIDE DEF b, p
    <3>6. Where(e) = p  BY <3>3, <3>4, <3>5 DEF Where
    <3> QED  BY <3>6 DEF p
  <2>8. Asks(SendPage(v), e)  BY <2>3, <2>5, <2>6, <2>7, AsksPage
  <2>9. SendPageOrAddress(v) = SendPage(v)  BY <2>6 DEF SendPageOrAddress, PageIn
  <2>10. SendProcessPage(v) = SendPageOrAddress(v)  BY <2>3, <2>5, <2>6, PageFirst
  <2>11. Well(OnLoadAddress(u), e)  BY <2>2, <2>8, <2>9, <2>10, AsksWell
  <2>12. u.handler = "LoadAddress"  BY <1>3, <1>4 DEF Hears, Sole
  <2> QED  BY <2>11, <2>12 DEF Lands
<1> QED  BY <1>1, <1>3, <1>4, StatusTurn DEF e

(* The answer to READ_PAGE, behind the byte STK_INSYNC.                    *)
LEMMA TailPage ==
  ASSUME NEW g \in Seq(Nat), NEW r, Enclosing(g, r), NEW q, q = Tail(r)
  PROVE  /\ IsSeq(r) /\ r # <<>> /\ Head(r) = STK_INSYNC
         /\ ~(Len(q) < Len(g)) /\ SubSeq(q, 1, Len(g)) = g
         /\ SubSeq(q, Len(g) + 1, Len(q)) = <<STK_OK>>
<1> DEFINE n == Len(g)
           m == Len(r)
           x == SubSeq(q, 1, n)
           z == SubSeq(q, n + 1, Len(q))
<1>1. n \in Nat  OBVIOUS
<1>2. /\ IsSeq(r) /\ m = n + 2 /\ r[1] = STK_INSYNC /\ r[n + 2] = STK_OK
      /\ \A i \in 1 .. n : r[1 + i] = g[i]
  BY DEF Enclosing
<1>3. PICK S : r \in Seq(S)  BY <1>2 DEF IsSeq
<1>4. r # <<>> /\ Head(r) = STK_INSYNC
  <2>1. Len(r) # 0  BY <1>1, <1>2
  <2> QED  BY <1>2, <1>3, <2>1
<1>5. q \in Seq(S) /\ Len(q) = n + 1 /\ \A i \in 1 .. n + 1 : q[i] = r[1 + i]
  <2>1. q \in Seq(S) /\ Len(q) = m - 1  BY <1>3, <1>4
  <2>2. \A i \in 1 .. m - 1 : q[i] = r[i + 1]  BY <1>3, <1>4
  <2>3. m - 1 = n + 1
    <3> HIDE DEF n, m
    <3> QED  BY <1>1, <1>2
  <2> HIDE DEF n, m
  <2>4. ASSUME NEW i \in 1 .. n + 1 PROVE q[i] = r[1 + i]
    <3>1. i \in 1 .. m - 1  BY <2>3
    <3>2. q[i] = r[i + 1]  BY <2>2, <3>1
    <3>3. i \in Nat  BY <1>1
    <3>4. i + 1 = 1 + i  BY <3>3
    <3> QED  BY <3>2, <3>4
  <2> QED  BY <2>1, <2>3, <2>4
<1>6. x = g
  <2>1. x \in Seq(S) /\ Len(x) = n /\ \A i \in 1 .. n : x[i] = q[i]
    <3> HIDE DEF n
    <3> QED  BY <1>1, <1>5
  <2>2. \A i \in 1 .. n : x[i] = g[i]
    <3> HIDE DEF x, n
    <3>1. \A i \in 1 .. n : i \in 1 .. n + 1  BY <1>1
    <3> QED  BY <1>2, <1>5, <2>1, <3>1
  <2>3. g \in Seq(Nat) /\ Len(g) = n  OBVIOUS
  <2> HIDE DEF x, n
  <2> QED  BY <2>1, <2>2, <2>3
<1>7. z = <<STK_OK>>
  <2>1. z = SubSeq(q, n + 1, n + 1)  BY <1>5
  <2>2. z \in Seq(S) /\ Len(z) = 1 /\ z[1] = q[n + 1]
    <3> HIDE DEF n, z
    <3> QED  BY <1>1, <1>5, <2>1
  <2>3. q[n + 1] = STK_OK
    <3>1. n + 1 \in 1 .. n + 1 /\ 1 + (n + 1) = n + 2  BY <1>1
    <3> HIDE DEF n
    <3> QED  BY <1>2, <1>5, <3>1
  <2>4. z[1] = STK_OK  BY <2>2, <2>3
  <2> DEFINE y == <<STK_OK>>
  <2>5. y \in Seq({STK_OK}) /\ Len(y) = 1 /\ y[1] = STK_OK  OBVIOUS
  <2> HIDE DEF z, n, y
  <2>6. z = y  BY <2>2, <2>4, <2>5
  <2> QED  BY <2>6 DEF y
<1>8. ~(Len(q) < n)
  <2> HIDE DEF n
  <2> QED  BY <1>1, <1>5
<1> QED  BY <1>2, <1>4, <1>6, <1>7, <1>8

LEMMA ReadKeeps ==
  ASSUME NEW d, Chip(d, "none"), NEW mem, NEW n
  PROVE  Reply(d, ReadPageCmd(mem, n)).target.eepromSize = d.eepromSize
<1> DEFINE c == ReadPageCmd(mem, n)
           x == [d EXCEPT !.address = @ + n]
<1>1. c.cmd = "READ_PAGE" /\ c.length = n  BY DEF ReadPageCmd
<1> HIDE DEF c
<1>2. IspCommand(d, c) = ReadPage(d, c) /\ BootloaderCommand(d, c) = ReadPage(d, c)
  BY <1>1 DEF IspCommand, BootloaderCommand
<1>3. ReadPage(d, c).target \in {d, x}  BY <1>1 DEF ReadPage, Answer
<1>4. x.eepromSize = d.eepromSize  BY DEF Chip, ChipField
<1> QED  BY <1>2, <1>3, <1>4 DEF Reply, c

(* A page is as expected: on to the next.                                  *)
LEMMA ComparingTurns ==
  ASSUME Filed, NEW s, NEW d, Chip(d, "none"), Clear(s), Files(s, d), Comparing(s, d)
  PROVE  Turns(s, d)
<1> DEFINE f == TheFile
           h == s.hex
           n == VerifiedWords
           p == s.page
           l == LoadPageFromSD(f, h, n)
           g == l.data
           c == ReadPageCmd(Memory, n)
           r == Reply(d, c)
           e == r.target
           q == Tail(r.reply)
<1>1. /\ Verifying(s) /\ ~Loading(s) /\ s.words = n /\ Sole(s, "ProcessPage", c) /\ Facing(s, d)
      /\ Knows(s, d) /\ Where(d) = p
  BY DEF Comparing, Files, Verifying, Loading
<1>2. Placed(h) /\ Standing(f, h) /\ InHand(h)  BY <1>1 DEF Files, Facing
<1>3. p = PageOf(WordAddress(h), n)  BY <1>1 DEF Comparing, PageIn
<1>4. Split(f, h, p) /\ UpTo(d, Words)  BY <1>1 DEF Comparing, Facing, Reaches
<1>5. n \in Nat \ {0} /\ Loadable(f, n) /\ f \in Seq(Record)
  BY PageSizes DEF Filed, Ordered, Loadable
<1>6. Fresh(f, h, p)  BY <1>4 DEF Fresh, Split
<1>7. l \in Page(n) /\ l.ok /\ Len(g) = n /\ PageRight(f, p, g) /\ Filling(f, h, n, l)
      /\ Split(f, l.hex, p + n)
  <2> HIDE DEF l, n
  <2> QED  BY <1>2, <1>3, <1>5, <1>6, FullPage DEF l
<1>8. Placed(l.hex) /\ g \in Seq(Nat) /\ Standing(f, l.hex)
  <2> HIDE DEF l
  <2> QED  BY <1>7 DEF Page, Filling
<1> HIDE DEF l
<1>9. p \in Nat /\ PageOf(p, n) = p  BY <1>2, <1>3, Located
<1>10. Enclosing(g, r.reply) /\ e.ext = d.ext /\ MemoryOf(e) = MemoryOf(d) /\ e.eepromSize = d.eepromSize
  <2>1. e.eepromSize = d.eepromSize  BY ReadKeeps
  <2>2. Enclosing(g, r.reply) /\ e.ext = d.ext /\ MemoryOf(e) = MemoryOf(d)
    <3> HIDE DEF g, h, p
    <3> QED  BY <1>1, <1>2, <1>3, <1>4, <1>7, <1>8, PageRead
  <2> QED  BY <2>1, <2>2
<1>11. /\ IsSeq(r.reply) /\ r.reply # <<>> /\ Head(r.reply) = STK_INSYNC
       /\ ~(Len(q) < n) /\ SubSeq(q, 1, n) = g /\ SubSeq(q, n + 1, Len(q)) = <<STK_OK>>
  <2> DEFINE y == r.reply
  <2>1. Enclosing(g, y)  BY <1>10
  <2>2. g \in Seq(Nat) /\ Len(g) = n  BY <1>7, <1>8
  <2> HIDE DEF y, g, n
  <2>3. /\ IsSeq(y) /\ y # <<>> /\ Head(y) = STK_INSYNC
        /\ ~(Len(Tail(y)) < Len(g)) /\ SubSeq(Tail(y), 1, Len(g)) = g
        /\ SubSeq(Tail(y), Len(g) + 1, Len(Tail(y))) = <<STK_OK>>
    BY <2>1, <2>2, TailPage
  <2> QED  BY <2>2, <2>3 DEF y
<1> HIDE DEF r, e, q
<1>12. ASSUME NEW u, Hears(s, u, q) PROVE Lands(u, e)
  <2>1. From(s, u) /\ u.handler = s.handler /\ u.onSync = s.onSync /\ u.in = q  BY <1>12 DEF Hears
  <2>2. Idle(u) /\ u.stage = s.stage /\ u.hex = h /\ u.words = n /\ u.page = p /\ u.bank = s.bank
        /\ u.error = "none" /\ Verifying(u) /\ ~Loading(u)
    BY <1>1, <2>1, Forth DEF From, Idle
  <2> DEFINE t == [u EXCEPT !.hex = l.hex]
             w == [t EXCEPT !.in = <<STK_OK>>]
  <2>3. VerifiedPage(u) = w
    <3> DEFINE W(x) == LET y == [u EXCEPT !.hex = x.hex] IN
                       IF ~x.ok THEN Fail(y, "LoadHexData")
                       ELSE IF Len(y.in) < u.words \/ SubSeq(y.in, 1, u.words) # x.data
                              THEN Fail(y, "Verification")
                       ELSE [y EXCEPT !.in = SubSeq(@, u.words + 1, Len(@))]
    <3>1. With(l, W) = W(l)
      <4> HIDE DEF W
      <4> QED  BY Zenon DEF With
    <3>2. VerifiedPage(u) = With(LoadPageFromSD(TheFile, u.hex, u.words), W)  BY Zenon DEF VerifiedPage
    <3>3. LoadPageFromSD(TheFile, u.hex, u.words) = l  BY <2>2 DEF l
    <3>4. t.in = q  BY <2>1, <2>2 DEF Idle, SessionField
    <3>5. W(l) = [t EXCEPT !.in = SubSeq(@, u.words + 1, Len(@))]
      <4> HIDE DEF n
      <4> QED  BY <1>7, <1>11, <2>2, <3>4
    <3>6. [t EXCEPT !.in = SubSeq(@, u.words + 1, Len(@))] = w
      <4>1. SubSeq(t.in, u.words + 1, Len(t.in)) = <<STK_OK>>  BY <1>11, <2>2, <3>4
      <4> HIDE DEF t
      <4> QED  BY <4>1
    <3> HIDE DEF W
    <3> QED  BY <3>1, <3>2, <3>3, <3>5, <3>6
  <2>4. /\ Idle(w) /\ w.stage = s.stage /\ w.hex = l.hex /\ w.page = p /\ w.words = n
        /\ w.bank = s.bank /\ w.in = <<STK_OK>> /\ w.error = "none"
    BY <2>2 DEF Idle, SessionField
  <2> HIDE DEF w, t
  <2> DEFINE v == Read(w)
  <2>5. StatusOK(w) /\ Goes(w, v)
    <3>1. Hears(w, w, <<STK_OK>>)  BY <2>4 DEF Hears, From
    <3> QED  BY <3>1, StatusHeard
  <2>6. OnProcessPage(u) = SendProcessPage(v)
    <3> DEFINE V(x) == IF x.error # "none" THEN x ELSE ResponseStatusOK(x, SendProcessPage)
               W(x) == IF x.error # "none" THEN x
                       ELSE IF x.hex.type = "eof" THEN EndOfFile(x)
                       ELSE With(IF Verifying(x) THEN VerifiedPage(x) ELSE x, V)
    <3>1. WithRecord(u) = u  BY <1>2, <2>2, RecordTaken
    <3>2. With(u, W) = W(u)
      <4> HIDE DEF W
      <4> QED  BY Zenon DEF With
    <3>3. With(w, V) = V(w)
      <4> HIDE DEF V
      <4> QED  BY Zenon DEF With
    <3>4. OnProcessPage(u) = With(WithRecord(u), W)  BY Zenon DEF OnProcessPage
    <3>5. W(u) = With(w, V)
      <4>1. u.hex.type # "eof"  BY <1>2, <2>2 DEF InHand
      <4> HIDE DEF V
      <4> QED  BY <2>2, <2>3, <4>1
    <3>6. V(w) = SendProcessPage(v)
      <4>1. V(w) = ResponseStatusOK(w, SendProcessPage)  BY <2>4
      <4>2. ResponseStatusOK(w, SendProcessPage) = SendProcessPage(v)
        BY <2>5, Zenon DEF ResponseStatusOK, With
      <4> QED  BY <4>1, <4>2
    <3> HIDE DEF V, W, v
    <3> QED  BY <3>1, <3>2, <3>3, <3>4, <3>5, <3>6
  <2>7. /\ Clear(v) /\ v.stage = s.stage /\ v.hex = l.hex /\ v.page = p /\ v.words = n /\ v.bank = s.bank
    BY <2>4, <2>5, GoesFields
  <2> HIDE DEF v
  <2>8. Verifying(v) /\ ~Loading(v)  BY <1>1, <2>7 DEF Verifying, Loading
  <2>9. Files(v, e)
    <3>1. Equipped(e)  BY <1>10 DEF Files, Equipped
    <3> QED  BY <1>8, <2>7, <2>8, <3>1 DEF Files, Filed
  <2>10. Nears(v, e, p + n)
    <3>1. p + n \in Nat /\ PageOf(p + n, n) = p + n
      <4> HIDE DEF p, n
      <4> QED  BY <1>5, <1>9, NextBoundary
    <3>2. UpTo(e, Words)  BY <1>4, <1>10 DEF UpTo
    <3>3. Reaches(v, e, p + n)  BY <1>7, <2>7, <2>8, <3>2 DEF Reaches
    <3>4. Knows(v, e)  BY <1>1, <1>10, <2>7 DEF Knows
    <3>5. \A x \in Nat : p + n <= x => p # x
      <4> HIDE DEF p, n
      <4> QED  BY <1>5, <1>9
    <3> QED  BY <2>7, <3>1, <3>3, <3>4, <3>5 DEF Nears
  <2>11. Asks(SendProcessPage(v), e)
    <3> DEFINE b == p + n
    <3>1. Nears(v, e, b)  BY <2>10
    <3> HIDE DEF b
    <3> QED  BY <2>7, <2>8, <2>9, <3>1, AsksSending
  <2>12. Well(OnProcessPage(u), e)  BY <2>6, <2>11, AsksWell
  <2>13. u.handler = "ProcessPage"  BY <1>1, <2>1 DEF Sole
  <2> QED  BY <2>12, <2>13 DEF Lands
<1>13. Head(s.out) = c  BY <1>1 DEF Sole
<1> QED  BY <1>11, <1>12, <1>13 DEF Turns, r, e, q

(* A page has been written: on to the next, or to verifying.               *)
LEMMA WritingTurns ==
  ASSUME Filed, NEW s, NEW d, Chip(d, "none"), Sized(d), Clear(s), Files(s, d), Writing(s, d)
  PROVE  Turns(s, d)
<1> DEFINE n == s.words
           p == s.page
           b == p + n
<1>1. /\ Loading(s) /\ ~Verifying(s) /\ Knows(s, d) /\ Where(d) = p /\ p \in Nat
      /\ PageOf(p, n) = p /\ UpTo(d, p) /\ Split(TheFile, s.hex, b)
  BY DEF Writing, Loading, Verifying
<1>2. n = PageWords /\ n \in Nat \ {0} /\ Ordered /\ Equipped(d)
  BY <1>1, PageSizes DEF Files, Filed
<1>3. PICK ws \in Seq(Nat) : /\ Sole(s, "ProcessPage", ProgPageCmd(Memory, ws))
                             /\ Len(ws) = n /\ PageRight(TheFile, p, ws)
  BY DEF Writing
<1> DEFINE c == ProgPageCmd(Memory, ws)
           r == Reply(d, c)
           e == r.target
<1>4. Memory = "eeprom" /\ ~job.serial => n <= d.eepromSize
  BY <1>2 DEF Equipped, PageWords
<1>5. /\ r.reply = <<STK_INSYNC, STK_OK>> /\ e.ext = d.ext /\ e.eepromSize = d.eepromSize
      /\ \A a \in 0 .. Words - 1 :
           MemoryOf(e)[a] = IF a \in p .. p + n - 1 THEN ws[a - p + 1] ELSE MemoryOf(d)[a]
  <2> HIDE DEF n, p
  <2> QED  BY <1>1, <1>2, <1>3, <1>4, PageWritten
<1> HIDE DEF r, e
<1>6. UpTo(e, b)
  <2> HIDE DEF n, p
  <2>1. Len(ws) = n /\ PageRight(TheFile, p, ws) /\ p \in Nat /\ n \in Nat /\ UpTo(d, p)
    BY <1>1, <1>2, <1>3
  <2>2. \A a \in 0 .. Words - 1 :
          MemoryOf(e)[a] = IF a \in p .. p + n - 1 THEN ws[a - p + 1] ELSE MemoryOf(d)[a]
    BY <1>5
  <2>3. UpTo(e, p + n)  BY <2>1, <2>2, Grows
  <2> QED  BY <2>3
<1>7. b \in Nat /\ PageOf(b, n) = b
  <2> HIDE DEF n, p
  <2> QED  BY <1>1, <1>2, NextBoundary
<1> HIDE DEF b
<1>8. Equipped(e) /\ (Knows(s, d) => Knows(s, e))  BY <1>2, <1>5 DEF Equipped, Knows
<1>9. Files(s, e)  BY <1>8 DEF Files
<1>10. Sole(s, "ProcessPage", c)  BY <1>3
<1> HIDE DEF c
<1>11. ASSUME NEW u, Hears(s, u, <<STK_OK>>) PROVE Lands(u, e)
  <2>1. From(s, u) /\ u.handler = "ProcessPage" /\ u.in = <<STK_OK>> /\ Idle(u)
    BY <1>10, <1>11 DEF Hears, From, Sole
  <2>2. u.hex = s.hex /\ u.words = n /\ u.page = p  BY <2>1 DEF From
  <2>3. Files(u, e) /\ Knows(u, e) /\ Loading(u)  BY <1>1, <1>8, <1>9, <2>1, Forth
  <2>4. Split(TheFile, u.hex, b)  BY <1>1, <2>2
  <2> DEFINE t == WithRecord(u)
             v == Read(t)
             V(x) == IF x.error # "none" THEN x ELSE ResponseStatusOK(x, SendProcessPage)
             W(x) == IF x.error # "none" THEN x
                     ELSE IF x.hex.type = "eof" THEN EndOfFile(x)
                     ELSE With(IF Verifying(x) THEN VerifiedPage(x) ELSE x, V)
  <2>5. OnProcessPage(u) = W(t)
    <3>1. With(t, W) = W(t)
      <4> HIDE DEF W
      <4> QED  BY Zenon DEF With
    <3>2. OnProcessPage(u) = With(t, W)  BY Zenon DEF OnProcessPage
    <3> QED  BY <3>1, <3>2
  <2>6. /\ Moved(u, t) /\ Files(t, e) /\ (InHand(t.hex) \/ t.hex.type = "eof")
        /\ Split(TheFile, t.hex, b) /\ (Loading(t) <=> Loading(u))
    BY <2>1, <2>3, <2>4, RecordFollows
  <2> HIDE DEF t
  <2>7. /\ Idle(t) /\ t.in = <<STK_OK>> /\ t.error = "none" /\ t.page = p /\ t.words = n
        /\ t.bank = u.bank
    BY <2>1, <2>2, <2>6 DEF Moved, Idle
  <2>8. StatusOK(t) /\ Goes(t, v)
    <3>1. Hears(t, t, <<STK_OK>>)  BY <2>7 DEF Hears, From
    <3> QED  BY <3>1, StatusHeard DEF v
  <2>9. With(v, FirstVerified) = FirstVerified(v) /\ With(v, SendProcessPage) = SendProcessPage(v)
    BY Zenon DEF With
  <2>10. Read(t) = v  OBVIOUS
  <2> HIDE DEF v
  <2>11. Clear(v) /\ From(t, v)  BY <2>8 DEF Goes
  <2>12. v.hex = t.hex /\ v.page = p /\ v.words = n /\ v.bank = u.bank  BY <2>7, <2>11 DEF From
  <2>13. Loading(t) /\ Loading(v) /\ ~Verifying(t) /\ Files(v, e)
    BY <2>3, <2>6, <2>11, Forth DEF Loading, Verifying
  <2>14. Knows(v, e)  BY <2>3, <2>12 DEF Knows
  <2>15. CASE t.hex.type = "eof"
    <3>1. W(t) = EndOfFile(t)  BY <2>7, <2>15
    <3>2. EndOfFile(t) = FirstVerified(v)
      BY <2>8, <2>9, <2>10, <2>13, Zenon DEF EndOfFile, ResponseStatusOK
    <3>3. \A x \in Contents(TheFile) : x[1] \in Nat /\ x[1] < b
      <4>1. TheFile \in Seq(Record) /\ Orderly(TheFile)  BY DEF Filed, Ordered, Loadable
      <4>2. t.hex \in Reader /\ Standing(TheFile, t.hex)  BY <2>6 DEF Files, Placed
      <4> QED  BY <2>6, <2>15, <4>1, <4>2, EndPassed
    <3>4. UpTo(e, Words)  BY <1>2, <1>6, <1>7, <3>3, AllThere
    <3>5. v.words = PageWords  BY <1>2, <2>12
    <3>6. Asks(FirstVerified(v), e)  BY <1>8, <2>11, <2>13, <2>14, <3>4, <3>5, AsksVerifying
    <3> HIDE DEF W
    <3> QED  BY <2>1, <2>5, <3>1, <3>2, <3>6, AsksWell DEF Lands
  <2>16. CASE t.hex.type # "eof"
    <3>1. W(t) = SendProcessPage(v)
      <4>1. W(t) = With(t, V)
        <5> HIDE DEF V
        <5> QED  BY <2>7, <2>13, <2>16
      <4>2. With(t, V) = V(t)
        <5> HIDE DEF V
        <5> QED  BY Zenon DEF With
      <4>3. V(t) = ResponseStatusOK(t, SendProcessPage)  BY <2>7
      <4>4. ResponseStatusOK(t, SendProcessPage) = SendProcessPage(v)
        BY <2>8, <2>9, <2>10, Zenon DEF ResponseStatusOK
      <4> HIDE DEF V, W
      <4> QED  BY <4>1, <4>2, <4>3, <4>4
    <3>2. InHand(v.hex)  BY <2>6, <2>12, <2>16
    <3>3. Nears(v, e, b)
      <4>1. Reaches(v, e, b)  BY <1>6, <2>6, <2>12, <2>13 DEF Reaches
      <4>2. \A x \in Nat : b <= x => p # x
        <5> HIDE DEF p, n
        <5> QED  BY <1>1, <1>2 DEF b
      <4> QED  BY <1>7, <2>12, <2>14, <4>1, <4>2 DEF Nears
    <3>4. Asks(SendProcessPage(v), e)  BY <2>11, <2>13, <3>2, <3>3, AsksSending
    <3> HIDE DEF W
    <3> QED  BY <2>1, <2>5, <3>1, <3>4, AsksWell DEF Lands
  <2> QED  BY <2>15, <2>16
<1> QED  BY <1>5, <1>10, <1>11, StatusTurn DEF r, e

-----------------------------------------------------------------------------
(* All of a session in order.                                              *)

LEMMA Turn ==
  ASSUME Ordered, NEW s, NEW d, Chip(d, "none"), Sized(d), Asks(s, d)
  PROVE  Turns(s, d)
<1>1. Clear(s)  BY DEF Asks
<1>2. CASE Opening(s, d)  BY <1>1, <1>2, OpeningTurns
<1>3. CASE Configures(s, d)  BY <1>1, <1>3, ConfiguresTurns
<1>4. CASE Filing(s, d)
  <2>1. Files(s, d)  BY <1>4 DEF Filing
  <2>2. Filed  BY <2>1 DEF Files, Filed
  <2>3. CASE Announcing(s, d)
    <3>1. Facing(s, d)  BY <2>3 DEF Announcing
    <3>2. CASE /\ Sole(s, "LoadExtAddress", UniversalCmd([op |-> "loadExt", bank |-> s.bank]))
               /\ s.page # PageIn(s)
      BY <1>1, <2>1, <2>2, <3>1, <3>2, ExtAddressTurns
    <3>3. CASE /\ Sole(s, "LoadAddress", LoadAddressCmd(s.page % BankWords))
               /\ s.page = PageIn(s) /\ Knows(s, d)
      BY <1>1, <2>1, <2>2, <3>1, <3>3, AddressTurns
    <3> QED  BY <2>3, <3>2, <3>3 DEF Announcing
  <2>4. CASE Comparing(s, d)  BY <1>1, <2>1, <2>2, <2>4, ComparingTurns
  <2>5. CASE Writing(s, d)  BY <1>1, <2>1, <2>2, <2>5, WritingTurns
  <2> QED  BY <1>4, <2>3, <2>4, <2>5 DEF Filing
<1>5. CASE Closing(s, d)
  <2>1. CASE /\ job.set /\ s.stage = "VerifyLockBits"
             /\ Asking(s, "VerifyLockBits", ReadLockCmd, WriteLockCmd, d.lock = "locked")
    BY <1>1, <2>1, LockTurns
  <2>2. CASE Sole(s, "LeaveProgramMode", LeaveProgModeCmd)  BY <1>1, <2>2, LeaveTurns
  <2> QED  BY <1>5, <2>1, <2>2 DEF Closing
<1> QED  BY <1>2, <1>3, <1>4, <1>5 DEF Asks

(* The target has answered the command, and the answer is to be read.      *)
Told(s, d) ==
  \E t, e : /\ Chip(e, "none") /\ Sized(e) /\ Asks(t, e)
            /\ Hears(t, s, Reply(e, Head(t.out)).reply) /\ s.out = <<>>
            /\ d = Reply(e, Head(t.out)).target

LEMMA AsksSends ==
  ASSUME NEW s, NEW d, Asks(s, d)
  PROVE  s.out # <<>> /\ s.in = <<>>
<1>1. s.in = <<>>  BY DEF Asks, Clear
<1>2. \E h, c : Sole(s, h, c)
  BY DEF Asks, Opening, Configures, Asking, Filing, Announcing, Comparing, Writing, Closing
<1> QED  BY <1>1, <1>2 DEF Sole

(* What loop() leaves of a session.                                        *)
LEMMA AsksKept ==
  ASSUME NEW s, NEW t, NEW d, Asks(s, d), From(s, t), t.handler = s.handler, t.onSync = s.onSync,
         t.out = s.out, t.in = <<>>
  PROVE  Asks(t, d)
<1>1. Clear(t)  BY DEF From, Clear
<1>2. \A h, c : Sole(t, h, c) <=> Sole(s, h, c)  BY DEF Sole
<1>3. /\ t.stage = s.stage /\ t.modifier = s.modifier /\ t.hex = s.hex /\ t.page = s.page
      /\ t.words = s.words /\ t.bank = s.bank
  BY DEF From
<1>4. /\ PageIn(t) = PageIn(s) /\ (Loading(t) <=> Loading(s)) /\ (Verifying(t) <=> Verifying(s))
      /\ Files(t, d) <=> Files(s, d)
      /\ Facing(t, d) <=> Facing(s, d)
      /\ Knows(t, d) <=> Knows(s, d)
      /\ Rewound(t, d) <=> Rewound(s, d)
  BY Forth
<1>5. FuseOf(t) = FuseOf(s)  BY <1>3 DEF FuseOf
<1>6. ReadFuseCmd(t) = ReadFuseCmd(s) /\ WriteFuseCmd(t) = WriteFuseCmd(s)
  BY <1>5 DEF ReadFuseCmd, WriteFuseCmd
<1>7. \A h, rd, wr, ok : Asking(s, h, rd, wr, ok) => Asking(t, h, rd, wr, ok)
  BY <1>2, <1>3 DEF Asking
<1>8. Opening(s, d) => Opening(t, d)  BY <1>2, <1>3, <1>4 DEF Opening
<1>9. Configures(s, d) => Configures(t, d)
  BY <1>2, <1>3, <1>4, <1>5, <1>6, <1>7 DEF Configures
<1>10. Announcing(s, d) => Announcing(t, d)  BY <1>2, <1>3, <1>4 DEF Announcing
<1>11. Comparing(s, d) => Comparing(t, d)  BY <1>2, <1>3, <1>4 DEF Comparing
<1>12. Writing(s, d) => Writing(t, d)  BY <1>2, <1>3, <1>4 DEF Writing
<1>13. Filing(s, d) => Filing(t, d)  BY <1>4, <1>10, <1>11, <1>12 DEF Filing
<1>14. Closing(s, d) => Closing(t, d)  BY <1>2, <1>3, <1>7 DEF Closing
<1> QED  BY <1>1, <1>8, <1>9, <1>13, <1>14 DEF Asks

(* The command is taken and answered.                                      *)
LEMMA AskedTold ==
  ASSUME Ordered, DOMAIN ses = SessionField, Chip(target, "none"), Sized(target), Asks(ses, target),
         NEW c, c = Head(ses.out), NEW q, q = Reply(target, c).reply
  PROVE  Told([ses EXCEPT !.out = <<>>, !.in = q], Reply(target, c).target)
<1> DEFINE u == [ses EXCEPT !.out = <<>>, !.in = q]
<1>1. /\ DOMAIN u = SessionField /\ u.out = <<>> /\ u.in = q /\ u.handler = ses.handler
      /\ u.onSync = ses.onSync /\ u.stage = ses.stage /\ u.modifier = ses.modifier
      /\ u.hex = ses.hex /\ u.page = ses.page /\ u.words = ses.words /\ u.bank = ses.bank
      /\ u.error = ses.error /\ u.timing = ses.timing
  BY DEF SessionField
<1> HIDE DEF u
<1>2. Idle(ses)  BY DEF Asks, Clear
<1>3. Hears(ses, u, q)  BY <1>1, <1>2 DEF Hears, From, Idle
<1>4. Told(u, Reply(target, c).target)  BY <1>1, <1>3 DEF Told
<1> QED  BY <1>4 DEF u

(* The session reads the answer.                                           *)
LEMMA ToldHeard ==
  ASSUME Ordered, DOMAIN ses = SessionField, NEW d, Told(ses, d)
  PROVE  ses.in # <<>> /\ Head(ses.in) = STK_INSYNC /\ Lands(Heard, d)
<1>1. PICK t, e : /\ Chip(e, "none") /\ Sized(e) /\ Asks(t, e)
                  /\ Hears(t, ses, Reply(e, Head(t.out)).reply) /\ ses.out = <<>>
                  /\ d = Reply(e, Head(t.out)).target
  BY DEF Told
<1> DEFINE r == Reply(e, Head(t.out))
<1>2. Turns(t, e)  BY <1>1, Turn
<1>3. /\ r.reply # <<>> /\ Head(r.reply) = STK_INSYNC
      /\ \A u : Hears(t, u, Tail(r.reply)) => Lands(u, d)
  BY <1>1, <1>2 DEF Turns
<1>4. ses.in = r.reply /\ From(t, ses) /\ ses.handler = t.handler /\ ses.onSync = t.onSync
  BY <1>1 DEF Hears
<1> HIDE DEF r
<1> DEFINE v == [ses EXCEPT !.in = Tail(@)]
           u == [v EXCEPT !.timing = FALSE]
<1>5. Heard = u  BY <1>3, <1>4 DEF Heard, Read
<1>6. /\ DOMAIN u = SessionField /\ u.in = Tail(ses.in) /\ u.handler = ses.handler
      /\ u.onSync = ses.onSync /\ u.stage = ses.stage /\ u.modifier = ses.modifier
      /\ u.hex = ses.hex /\ u.page = ses.page /\ u.words = ses.words /\ u.bank = ses.bank
      /\ u.error = ses.error /\ u.timing = FALSE
  BY DEF SessionField
<1> HIDE DEF u
<1>7. Hears(t, u, Tail(r.reply))  BY <1>4, <1>6 DEF Hears, From, Idle
<1> QED  BY <1>3, <1>4, <1>5, <1>7

-----------------------------------------------------------------------------
(* No step leaves the course.                                              *)

OnCourse ==
  /\ Sized(target)
  /\ InOrder => IF mInSession THEN late = <<>> /\ (Asks(ses, target) \/ Told(ses, target))
                ELSE Begins(job) => ses.error = "none"

LEMMA AsksSame ==
  ASSUME job' = job
  PROVE  \A s, d : (Asks(s, d)' <=> Asks(s, d)) /\ (Told(s, d)' <=> Told(s, d))
<1>1. Operation' = Operation /\ TheFile' = TheFile  BY DEF Operation, TheFile
<1>2. Memory' = Memory  BY <1>1 DEF Memory
<1>3. PageWords' = PageWords /\ Words' = Words  BY <1>2 DEF PageWords, Words
<1>4. VerifiedWords' = VerifiedWords  BY <1>3 DEF VerifiedWords
<1>5. \A d : MemoryOf(d)' = MemoryOf(d)  BY <1>2 DEF MemoryOf
<1>6. \A d, b : UpTo(d, b)' <=> UpTo(d, b)
  <2>1. \A f, a : Touched(f, a)' <=> Touched(f, a)  BY <1>3 DEF Touched
  <2>2. \A a : Asked(a)' <=> Asked(a)  BY <1>1, <2>1 DEF Asked
  <2> QED  BY <1>1, <1>3, <1>5, <2>2 DEF UpTo
<1>7. \A d, c : Reply(d, c)' = Reply(d, c)  BY DEF Reply
<1>8. \A d : Where(d)' = Where(d)  BY <1>2 DEF Where
<1>9. \A s, d : Knows(s, d)' <=> Knows(s, d)  BY <1>2 DEF Knows
<1>10. \A d : Equipped(d)' <=> Equipped(d)  BY <1>2 DEF Equipped
<1>11. \A s, d : Rewound(s, d)' <=> Rewound(s, d)  BY <1>3, <1>9 DEF Rewound
<1>12. \A s, d : Opening(s, d)' <=> Opening(s, d)  BY <1>10, <1>11 DEF Opening
<1>13. \A s, d : Configures(s, d)' <=> Configures(s, d)
  <2>1. \A d : UpTo(d, 0)' <=> UpTo(d, 0)  BY <1>6
  <2> QED  BY <1>11, <2>1 DEF Configures
<1>14. \A s, d, b : Reaches(s, d, b)' <=> Reaches(s, d, b)
  <2> SUFFICES ASSUME NEW s, NEW d, NEW b PROVE Reaches(s, d, b)' <=> Reaches(s, d, b)  OBVIOUS
  <2>1. (UpTo(d, b)' <=> UpTo(d, b)) /\ (UpTo(d, Words)' <=> UpTo(d, Words))  BY <1>3, <1>6
  <2>2. CASE Loading(s)
    <3>1. Reaches(s, d, b) <=> Split(TheFile, s.hex, b) /\ UpTo(d, b)  BY <2>2 DEF Reaches
    <3>2. Reaches(s, d, b)' <=> Split(TheFile', s.hex, b) /\ UpTo(d, b)'  BY <2>2 DEF Reaches
    <3> QED  BY <1>1, <2>1, <3>1, <3>2
  <2>3. CASE ~Loading(s)
    <3>1. Reaches(s, d, b) <=> Split(TheFile, s.hex, b) /\ UpTo(d, Words)  BY <2>3 DEF Reaches
    <3>2. Reaches(s, d, b)' <=> Split(TheFile', s.hex, b) /\ UpTo(d, Words)'  BY <2>3 DEF Reaches
    <3> QED  BY <1>1, <2>1, <3>1, <3>2
  <2> QED  BY <2>2, <2>3
<1>15. \A s, d : Files(s, d)' <=> Files(s, d)
  BY <1>1, <1>3, <1>4, <1>10 DEF Files
<1>16. \A s, d : Facing(s, d)' <=> Facing(s, d)  BY <1>14 DEF Facing
<1>17. \A s, d : Announcing(s, d)' <=> Announcing(s, d)  BY <1>9, <1>16 DEF Announcing
<1>18. \A s, d : Comparing(s, d)' <=> Comparing(s, d)
  BY <1>2, <1>8, <1>9, <1>16 DEF Comparing
<1>19. \A s, d : Writing(s, d)' <=> Writing(s, d)
  BY <1>1, <1>2, <1>6, <1>8, <1>9 DEF Writing
<1>20. \A s, d : Filing(s, d)' <=> Filing(s, d)
  BY <1>15, <1>17, <1>18, <1>19 DEF Filing
<1>21. \A s, d : Closing(s, d)' <=> Closing(s, d)  BY DEF Closing
<1>22. \A s, d : Asks(s, d)' <=> Asks(s, d)  BY <1>12, <1>13, <1>20, <1>21 DEF Asks
<1>23. \A s, d : Told(s, d)' <=> Told(s, d)  BY <1>7, <1>22 DEF Told
<1> QED  BY <1>22, <1>23

(* What is in order was so before.                                         *)
LEMMA OrderBefore ==
  ASSUME job' = job, Sized(target), Sized(target'), InOrder'
  PROVE  /\ (job.serial => faults' = MaxFaults)
         /\ (job.serial => faults = MaxFaults) => InOrder
<1>1. Operation' = Operation /\ TheFile' = TheFile  BY DEF Operation, TheFile
<1>2. Memory' = Memory  BY <1>1 DEF Memory
<1>3. PageWords' = PageWords  BY <1>2 DEF PageWords
<1>4. VerifiedWords' = VerifiedWords  BY <1>3 DEF VerifiedWords
<1>5. DOMAIN MemoryOf(target)' = DOMAIN MemoryOf(target)
  BY <1>2 DEF MemoryOf, Sized
<1>6. \A f : (Suits(f)' <=> Suits(f)) /\ (Written(f)' <=> Written(f))
  <2>1. \A f, a : Touched(f, a)' <=> Touched(f, a)  BY <1>3 DEF Touched
  <2> QED  BY <1>2, <1>4, <2>1 DEF Suits, Written
<1>7. SoundFile(TheFile)' => SoundFile(TheFile)
  BY <1>1, <1>3, <1>4, <1>5, <1>6 DEF SoundFile
<1> QED  BY <1>2, <1>7 DEF InOrder

LEMMA CourseSame ==
  ASSUME job' = job, Sized(target), Sized(target'), faults \in 0 .. MaxFaults,
         faults' \in {faults, faults - 1},
         InOrder /\ (job.serial => faults' = faults) =>
           IF mInSession' THEN late' = <<>> /\ (Asks(ses', target') \/ Told(ses', target'))
           ELSE Begins(job) => ses'.error = "none"
  PROVE  OnCourse'
<1>1. (Sized(target))'  BY DEF Sized
<1> SUFFICES ASSUME InOrder'
             PROVE  IF mInSession' THEN late' = <<>> /\ (Asks(ses, target) \/ Told(ses, target))'
                    ELSE Begins(job)' => ses'.error = "none"
  BY <1>1 DEF OnCourse
<1>2. job.serial => faults' = MaxFaults /\ faults = MaxFaults
  <2>1. job.serial => faults' = MaxFaults  BY OrderBefore
  <2> QED  BY <2>1, BoundAssumption
<1>3. InOrder  BY <1>2, OrderBefore
<1>4. (Asks(ses, target))' <=> Asks(ses', target')  BY AsksSame
<1>5. (Told(ses, target))' <=> Told(ses', target')  BY AsksSame
<1> QED  BY <1>2, <1>3, <1>4, <1>5

(* What is in order comes to what is assumed of a turn.                    *)
LEMMA CourseOrdered ==
  ASSUME IInv, mInSession, OnCourse, InOrder
  PROVE  Ordered /\ Chip(target, "none") /\ Sized(target) /\ DOMAIN ses = SessionField
<1>1. job \in Job /\ Begins(job) /\ Session(ses) /\ Chip(target, job.fault)  BY DEF IInv, Running
<1>2. job.fault = "none"  BY DEF InOrder
<1> QED  BY <1>1, <1>2, InOrderOrdered DEF OnCourse, Session

LEMMA LoopCourse ==
  ASSUME NEW s, IInv, OnCourse, mInSession, DOMAIN s = SessionField, Loop(s),
         InOrder => late = <<>> /\ Well(s, target)
  PROVE  OnCourse'
<1> DEFINE a == IF job.serial THEN s.in ELSE <<>>
<1>1. /\ mInSession' = CanContinue(s) /\ job' = job /\ late' = late /\ faults' = faults
      /\ CanContinue(s) => target' = target /\ ses' = [s EXCEPT !.in = a]
      /\ ~CanContinue(s) => target' = LeaveProgMode(target)
                            /\ ses' = [Halt(s) EXCEPT !.in = <<>>, !.out = <<>>, !.timing = FALSE]
  BY DEF Loop
<1>2. Sized(target) /\ Sized(target')
  <2>1. Sized(target) /\ Chip(target, job.fault)  BY DEF OnCourse, IInv
  <2>2. Sized(LeaveProgMode(target))  BY <2>1, FieldsSized
  <2> QED  BY <1>1, <2>1, <2>2
<1>3. faults \in 0 .. MaxFaults /\ faults' \in {faults, faults - 1}  BY <1>1 DEF IInv
<1> SUFFICES ASSUME InOrder
             PROVE  IF mInSession' THEN late' = <<>> /\ (Asks(ses', target') \/ Told(ses', target'))
                    ELSE ses'.error = "none"
  BY <1>1, <1>2, <1>3, CourseSame
<1>4. late = <<>> /\ s.error = "none" /\ (s.stage = "SessionCompleted" \/ Asks(s, target))
  BY DEF Well
<1>5. CASE CanContinue(s)
  <2> DEFINE t == [s EXCEPT !.in = a]
  <2>1. Asks(s, target)  BY <1>4, <1>5 DEF CanContinue
  <2>2. s.in = <<>> /\ Idle(s)  BY <2>1 DEF Asks, Clear
  <2>3. /\ DOMAIN t = SessionField /\ t.in = <<>> /\ t.out = s.out /\ t.handler = s.handler
        /\ t.onSync = s.onSync /\ t.stage = s.stage /\ t.modifier = s.modifier
        /\ t.hex = s.hex /\ t.page = s.page /\ t.words = s.words /\ t.bank = s.bank
        /\ t.error = s.error /\ t.timing = s.timing
    BY <2>2 DEF SessionField
  <2>4. ses' = t /\ target' = target /\ late' = <<>> /\ mInSession'  BY <1>1, <1>4, <1>5
  <2> HIDE DEF t
  <2>5. From(s, t)  BY <2>2, <2>3 DEF From, Idle
  <2>6. Asks(t, target)  BY <2>1, <2>3, <2>5, AsksKept
  <2> QED  BY <2>4, <2>6
<1>6. CASE ~CanContinue(s)
  <2>1. ses'.error = s.error  BY <1>1, <1>6 DEF SessionField, Halt
  <2> QED  BY <1>1, <1>4, <1>6, <2>1 DEF CanContinue
<1> QED  BY <1>5, <1>6

(* In order, nothing but the answer of the target is ever to be read.      *)
LEMMA HeardInOrder ==
  ASSUME IInv, mInSession, OnCourse, InOrder
  PROVE  /\ late = <<>> /\ ~Silent
         /\ ses.in # <<>> => Head(ses.in) = STK_INSYNC /\ Lands(Heard, target)
<1>1. Ordered /\ DOMAIN ses = SessionField  BY CourseOrdered
<1>2. late = <<>> /\ (Asks(ses, target) \/ Told(ses, target))  BY DEF OnCourse
<1>3. CASE Asks(ses, target)
  <2>1. ses.out # <<>> /\ ses.in = <<>>  BY <1>3, AsksSends
  <2> QED  BY <1>2, <2>1 DEF Silent
<1>4. CASE Told(ses, target)
  <2>1. ses.in # <<>> /\ Head(ses.in) = STK_INSYNC /\ Lands(Heard, target)
    BY <1>1, <1>4, ToldHeard
  <2> QED  BY <1>2, <2>1 DEF Silent
<1> QED  BY <1>2, <1>3, <1>4

LEMMA UpdateCourse ==
  ASSUME IInv, OnCourse, Update
  PROVE  OnCourse'
<1>1. mInSession
  BY DEF Update, HandleGetSync, HandleSetDevice, HandleSetDeviceExt, HandleEnterProgramMode,
         HandleLeaveProgramMode, HandleReadSignature, HandleChipErase, HandleVerifyUnlocked,
         HandleVerifyFuse, HandleVerifyLockBits, HandleLoadAddress, HandleLoadExtAddress,
         HandleProcessPage, HandleNoSync, HandleFrameError, HandleUnknown, StartTimer, TimerPasses,
         Handle, Received, Silent
<1>2. job \in Job /\ Begins(job) /\ DOMAIN ses = SessionField  BY <1>1 DEF IInv, Running, Session
<1> DEFINE h == Heard
<1>3. /\ Good(h, job) /\ h.error = "none" /\ h.handler = ses.handler /\ DOMAIN h = SessionField
      /\ h.retries = ses.retries
  BY <1>1, HeardGood, HeardFields
<1>4. InOrder => /\ late = <<>> /\ ~Silent
                 /\ ses.in # <<>> => Head(ses.in) = STK_INSYNC /\ Lands(h, target)
  BY <1>1, HeardInOrder
<1> HIDE DEF h
<1>5. ASSUME NEW s, Good(s, job), Loop(s), Received(STK_INSYNC),
             Lands(h, target) => Well(s, target)
      PROVE  OnCourse'
  <2>1. DOMAIN s = SessionField  BY <1>5 DEF Good, Session
  <2>2. InOrder => late = <<>> /\ Well(s, target)  BY <1>4, <1>5 DEF Received
  <2> QED  BY <1>1, <1>5, <2>1, <2>2, LoopCourse
<1>6. ASSUME NEW s, DOMAIN s = SessionField, Loop(s),
             Silent \/ (ses.in # <<>> /\ Head(ses.in) # STK_INSYNC)
      PROVE  OnCourse'
  <2>1. ~InOrder  BY <1>4, <1>6
  <2> QED  BY <1>1, <1>6, <2>1, LoopCourse
<1>7. ASSUME HandleGetSync PROVE OnCourse'
  <2>1. Received(STK_INSYNC) /\ h.handler = "GetSync" /\ Loop(OnGetSync(h))
    BY <1>3, <1>7 DEF HandleGetSync, Handle, h
  <2>2. Lands(h, target) => Well(OnGetSync(h), target)  BY <2>1 DEF Lands
  <2> QED  BY <1>2, <1>3, <1>5, <2>1, <2>2, StatusHandlersGood
<1>8. ASSUME HandleSetDevice PROVE OnCourse'
  <2>1. Received(STK_INSYNC) /\ h.handler = "SetDevice" /\ Loop(OnSetDevice(h))
    BY <1>3, <1>8 DEF HandleSetDevice, Handle, h
  <2>2. Lands(h, target) => Well(OnSetDevice(h), target)  BY <2>1 DEF Lands
  <2> QED  BY <1>2, <1>3, <1>5, <2>1, <2>2, StatusHandlersGood
<1>9. ASSUME HandleSetDeviceExt PROVE OnCourse'
  <2>1. Received(STK_INSYNC) /\ h.handler = "SetDeviceExt" /\ Loop(OnSetDeviceExt(h))
    BY <1>3, <1>9 DEF HandleSetDeviceExt, Handle, h
  <2>2. Lands(h, target) => Well(OnSetDeviceExt(h), target)  BY <2>1 DEF Lands
  <2> QED  BY <1>2, <1>3, <1>5, <2>1, <2>2, StatusHandlersGood
<1>10. ASSUME HandleEnterProgramMode PROVE OnCourse'
  <2>1. Received(STK_INSYNC) /\ h.handler = "EnterProgramMode" /\ Loop(OnEnterProgramMode(h))
    BY <1>3, <1>10 DEF HandleEnterProgramMode, Handle, h
  <2>2. Lands(h, target) => Well(OnEnterProgramMode(h), target)  BY <2>1 DEF Lands
  <2> QED  BY <1>2, <1>3, <1>5, <2>1, <2>2, StatusHandlersGood
<1>11. ASSUME HandleLeaveProgramMode PROVE OnCourse'
  <2>1. Received(STK_INSYNC) /\ h.handler = "LeaveProgramMode" /\ Loop(OnLeaveProgramMode(h))
    BY <1>3, <1>11 DEF HandleLeaveProgramMode, Handle, h
  <2>2. Lands(h, target) => Well(OnLeaveProgramMode(h), target)  BY <2>1 DEF Lands
  <2> QED  BY <1>2, <1>3, <1>5, <2>1, <2>2, StatusHandlersGood
<1>12. ASSUME HandleReadSignature PROVE OnCourse'
  <2>1. Received(STK_INSYNC) /\ h.handler = "ReadSignature" /\ Loop(OnReadSignature(h))
    BY <1>3, <1>12 DEF HandleReadSignature, Handle, h
  <2>2. Lands(h, target) => Well(OnReadSignature(h), target)  BY <2>1 DEF Lands
  <2> QED  BY <1>2, <1>3, <1>5, <2>1, <2>2, ByteHandlersGood
<1>13. ASSUME HandleChipErase PROVE OnCourse'
  <2>1. Received(STK_INSYNC) /\ h.handler = "ChipErase" /\ Loop(OnChipErase(h))
    BY <1>3, <1>13 DEF HandleChipErase, Handle, h
  <2>2. Lands(h, target) => Well(OnChipErase(h), target)  BY <2>1 DEF Lands
  <2> QED  BY <1>2, <1>3, <1>5, <2>1, <2>2, ByteHandlersGood
<1>14. ASSUME HandleVerifyUnlocked PROVE OnCourse'
  <2>1. Received(STK_INSYNC) /\ h.handler = "VerifyUnlocked" /\ Loop(OnVerifyUnlocked(h))
    BY <1>3, <1>14 DEF HandleVerifyUnlocked, Handle, h
  <2>2. Lands(h, target) => Well(OnVerifyUnlocked(h), target)  BY <2>1 DEF Lands
  <2> QED  BY <1>2, <1>3, <1>5, <2>1, <2>2, ByteHandlersGood
<1>15. ASSUME HandleVerifyFuse PROVE OnCourse'
  <2>1. Received(STK_INSYNC) /\ h.handler = "VerifyFuse" /\ Loop(OnVerifyFuse(h))
    BY <1>3, <1>15 DEF HandleVerifyFuse, Handle, h
  <2>2. Lands(h, target) => Well(OnVerifyFuse(h), target)  BY <2>1 DEF Lands
  <2> QED  BY <1>2, <1>3, <1>5, <2>1, <2>2, ByteHandlersGood
<1>16. ASSUME HandleVerifyLockBits PROVE OnCourse'
  <2>1. Received(STK_INSYNC) /\ h.handler = "VerifyLockBits" /\ Loop(OnVerifyLockBits(h))
    BY <1>3, <1>16 DEF HandleVerifyLockBits, Handle, h
  <2>2. Lands(h, target) => Well(OnVerifyLockBits(h), target)  BY <2>1 DEF Lands
  <2> QED  BY <1>2, <1>3, <1>5, <2>1, <2>2, ByteHandlersGood
<1>17. ASSUME HandleLoadAddress PROVE OnCourse'
  <2>1. Received(STK_INSYNC) /\ h.handler = "LoadAddress" /\ Loop(OnLoadAddress(h))
    BY <1>3, <1>17 DEF HandleLoadAddress, Handle, h
  <2>2. Lands(h, target) => Well(OnLoadAddress(h), target)  BY <2>1 DEF Lands
  <2> QED  BY <1>2, <1>3, <1>5, <2>1, <2>2, StatusHandlersGood
<1>18. ASSUME HandleLoadExtAddress PROVE OnCourse'
  <2>1. Received(STK_INSYNC) /\ h.handler = "LoadExtAddress" /\ Loop(OnLoadExtAddress(h))
    BY <1>3, <1>18 DEF HandleLoadExtAddress, Handle, h
  <2>2. Lands(h, target) => Well(OnLoadExtAddress(h), target)  BY <2>1 DEF Lands
  <2> QED  BY <1>2, <1>3, <1>5, <2>1, <2>2, ByteHandlersGood
<1>19. ASSUME HandleProcessPage PROVE OnCourse'
  <2>1. Received(STK_INSYNC) /\ h.handler = "ProcessPage" /\ Loop(OnProcessPage(h))
    BY <1>3, <1>19 DEF HandleProcessPage, Handle, h
  <2>2. Lands(h, target) => Well(OnProcessPage(h), target)  BY <2>1 DEF Lands
  <2>3. HasFile(job)  BY <1>3, <2>1 DEF Good, Fits, Waited, FileStep
  <2> QED  BY <1>2, <1>3, <1>5, <2>1, <2>2, <2>3, OnProcessPageGood
<1>20. ASSUME HandleNoSync PROVE OnCourse'
  <2> DEFINE k == [h EXCEPT !.retries = @ + 1]
             s == IF ses.retries < SyncRetries THEN SendGetSync(k) ELSE Fail(h, "Sync")
  <2>1. Received(STK_NOSYNC) /\ Loop(s)  BY <1>20 DEF HandleNoSync, h
  <2>2. DOMAIN SendGetSync(k) = SessionField
    <3>1. DOMAIN k = SessionField  BY <1>3
    <3> HIDE DEF k
    <3> QED  BY <3>1 DEF SendGetSync, Send
  <2>3. DOMAIN Fail(h, "Sync") = SessionField  BY <1>3 DEF Fail
  <2>4. DOMAIN s = SessionField  BY <2>2, <2>3
  <2>5. ses.in # <<>> /\ Head(ses.in) # STK_INSYNC
    BY <2>1 DEF Received, STK_INSYNC, STK_NOSYNC
  <2> HIDE DEF s
  <2> QED  BY <1>6, <2>1, <2>4, <2>5
<1>21. ASSUME HandleFrameError PROVE OnCourse'
  <2>1. Received(FrameError) /\ Loop(h)  BY <1>21 DEF HandleFrameError, h
  <2>2. ses.in # <<>> /\ Head(ses.in) # STK_INSYNC
    BY <2>1 DEF Received, STK_INSYNC, FrameError
  <2> QED  BY <1>3, <1>6, <2>1, <2>2
<1>22. ASSUME HandleUnknown PROVE OnCourse'
  <2> DEFINE e == [h EXCEPT !.in = <<>>]
  <2>1. DOMAIN e = SessionField  BY <1>3
  <2>2. Loop(Fail(e, "Unknown")) /\ ses.in # <<>> /\ Head(ses.in) # STK_INSYNC
    BY <1>22 DEF HandleUnknown, h
  <2> HIDE DEF e
  <2>3. DOMAIN Fail(e, "Unknown") = SessionField  BY <2>1 DEF Fail
  <2> QED  BY <1>6, <2>2, <2>3
<1>23. ASSUME StartTimer \/ TimerPasses PROVE OnCourse'
  <2>1. Silent /\ (Loop([ses EXCEPT !.timing = TRUE]) \/ Loop(Fail(ses, "Timeout")))
    BY <1>23 DEF StartTimer, TimerPasses
  <2>2. /\ DOMAIN [ses EXCEPT !.timing = TRUE] = SessionField
        /\ DOMAIN Fail(ses, "Timeout") = SessionField
    BY <1>2 DEF Fail
  <2> QED  BY <1>6, <2>1, <2>2
<1> QED
  BY <1>7, <1>8, <1>9, <1>10, <1>11, <1>12, <1>13, <1>14, <1>15, <1>16, <1>17, <1>18, <1>19, <1>20,
     <1>21, <1>22, <1>23 DEF Update

LEMMA IspUpdateCourse ==
  ASSUME IInv, OnCourse, IspUpdate
  PROVE  OnCourse'
<1> DEFINE c == Head(ses.out)
           a == IspCommand(target, c)
<1>1. /\ mInSession /\ ~job.serial /\ ses.out # <<>> /\ target' = a.target
      /\ ses' = [ses EXCEPT !.out = <<>>, !.in = a.reply]
      /\ UNCHANGED <<job, late, mInSession, faults>>
  BY DEF IspUpdate
<1>2. Sized(target) /\ Chip(target, job.fault)  BY DEF OnCourse, IInv
<1>3. Sized(target')  BY <1>1, <1>2, CommandKnown, ReplySized
<1>4. faults \in 0 .. MaxFaults /\ faults' \in {faults, faults - 1}  BY <1>1 DEF IInv
<1>5. Reply(target, c) = a  BY <1>1 DEF Reply
<1> HIDE DEF a
<1>6. ASSUME InOrder
      PROVE  late' = <<>> /\ Told(ses', target')
  <2>1. Ordered /\ Chip(target, "none") /\ DOMAIN ses = SessionField  BY <1>1, <1>6, CourseOrdered
  <2>2. late = <<>> /\ Asks(ses, target)  BY <1>1, <1>6 DEF OnCourse, Told
  <2> HIDE DEF c
  <2>3. Told([ses EXCEPT !.out = <<>>, !.in = a.reply], a.target)
    BY <1>2, <1>5, <2>1, <2>2, AskedTold DEF c
  <2> QED  BY <1>1, <2>2, <2>3
<1> QED  BY <1>1, <1>2, <1>3, <1>4, <1>6, CourseSame

LEMMA LineCourse ==
  ASSUME IInv, OnCourse, Pending, NEW t, Sized(t), NEW now, NEW later, Line(t, now, later, 1)
  PROVE  OnCourse'
<1>1. /\ job.serial /\ faults' = faults - 1 /\ target' = t /\ job' = job
  BY DEF Line, Pending
<1>2. Sized(target) /\ faults \in 0 .. MaxFaults  BY DEF OnCourse, IInv
<1>3. faults' # faults  BY <1>1, <1>2, BoundAssumption
<1> QED  BY <1>1, <1>2, <1>3, CourseSame

LEMMA BootloaderCourse ==
  ASSUME IInv, OnCourse, Bootloader \/ LineFault
  PROVE  OnCourse'
<1>1. Sized(target) /\ Chip(target, job.fault) /\ faults \in 0 .. MaxFaults  BY DEF OnCourse, IInv
<1>2. ASSUME Pending PROVE Sized(Executed.target)
  <2>1. Known(Command)  BY <1>2, CommandKnown DEF Pending, Command
  <2> QED  BY <1>1, <2>1, ReplySized DEF Executed
<1>3. CASE BootloaderAnswers
  <2> DEFINE c == Head(ses.out)
             a == BootloaderCommand(target, c)
  <2>1. Pending /\ Line(a.target, a.reply, <<>>, 0)
    BY <1>3 DEF BootloaderAnswers, Executed, Command
  <2>2. /\ mInSession /\ job.serial /\ ses.out # <<>> /\ target' = a.target /\ late' = <<>>
        /\ ses' = [ses EXCEPT !.out = <<>>, !.in = ses.in \o a.reply]
        /\ faults' = faults - 0 /\ job' = job /\ mInSession' = mInSession
    BY <2>1 DEF Line, Pending
  <2>3. faults' = faults  BY <1>1, <2>2, BoundAssumption
  <2>4. Sized(target')  BY <1>2, <2>1, <2>2 DEF Executed, Command
  <2>5. Reply(target, c) = a  BY <2>2 DEF Reply
  <2> HIDE DEF a
  <2>6. ASSUME InOrder
        PROVE  Told(ses', target')
    <3>1. Ordered /\ Chip(target, "none") /\ DOMAIN ses = SessionField  BY <2>2, <2>6, CourseOrdered
    <3>2. Asks(ses, target)  BY <2>2, <2>6 DEF OnCourse, Told
    <3>3. ses.in = <<>>  BY <3>2, AsksSends
    <3>4. IsSeq(a.reply)
      <4>1. Turns(ses, target)  BY <1>1, <3>1, <3>2, Turn
      <4> HIDE DEF c
      <4> QED  BY <2>5, <4>1 DEF Turns, c
    <3>5. ses.in \o a.reply = a.reply  BY <3>3, <3>4, NothingJoined
    <3> HIDE DEF c
    <3>6. Told([ses EXCEPT !.out = <<>>, !.in = a.reply], a.target)
      BY <1>1, <2>5, <3>1, <3>2, AskedTold DEF c
    <3> QED  BY <2>2, <3>5, <3>6
  <2> QED  BY <1>1, <2>2, <2>3, <2>4, <2>6, CourseSame
<1>4. CASE LateBytes
  <2>1. /\ mInSession /\ late # <<>> /\ target' = target /\ job' = job /\ faults' = faults
    BY <1>4 DEF LateBytes
  <2>2. ~InOrder  BY <2>1 DEF OnCourse
  <2> QED  BY <1>1, <2>1, <2>2, CourseSame
<1>5. CASE CommandLost
  BY <1>1, <1>5, LineCourse DEF CommandLost
<1>6. CASE AnswerLost
  BY <1>2, <1>6, LineCourse DEF AnswerLost
<1>7. CASE NotInSync
  BY <1>1, <1>7, LineCourse DEF NotInSync
<1>8. CASE DataGarbled
  <2> DEFINE c == [Command EXCEPT !.words = [i \in DOMAIN @ |-> Spoilt]]
             e == BootloaderCommand(target, c)
  <2>1. Pending /\ Command.cmd = "PROG_PAGE" /\ Line(e.target, e.reply, <<>>, 1)
    BY <1>8 DEF DataGarbled
  <2>2. Known(Command)  BY <2>1, CommandKnown DEF Pending, Command
  <2>3. Known(c)
    <3> DEFINE d == Command
    <3>1. Known(d) /\ d.cmd = "PROG_PAGE" /\ c = [d EXCEPT !.words = [i \in DOMAIN @ |-> Spoilt]]
      BY <2>1, <2>2
    <3> HIDE DEF d, c
    <3> QED  BY <3>1 DEF Known
  <2> HIDE DEF c
  <2>4. Sized(e.target)  BY <1>1, <2>3, ReplySized
  <2> HIDE DEF e
  <2> QED  BY <2>1, <2>4, LineCourse
<1>9. CASE StatusGarbled
  <2>1. \E now : Pending /\ Line(Executed.target, now, <<>>, 1)  BY <1>9 DEF StatusGarbled
  <2> QED  BY <1>2, <2>1, LineCourse
<1>10. CASE Glitch
  BY <1>2, <1>10, LineCourse DEF Glitch
<1>11. CASE AnswerPauses
  <2>1. \E now, later : Pending /\ Line(Executed.target, now, later, 1)  BY <1>11 DEF AnswerPauses
  <2> QED  BY <1>2, <2>1, LineCourse
<1> QED
  BY <1>3, <1>4, <1>5, <1>6, <1>7, <1>8, <1>9, <1>10, <1>11 DEF Bootloader, LineFault

LEMMA InitCourse ==
  ASSUME Init
  PROVE  OnCourse
<1>1. PICK j \in Job : /\ job = j /\ ses = NewSession(j) /\ mInSession = Begins(j) /\ late = <<>>
                       /\ target = [NewTarget(j.fuse, j.fault) EXCEPT !.held = j.serial /\ Begins(j)]
  BY DEF Init
<1>2. Sized(target) /\ target.ext = 0  BY <1>1 DEF Sized, NewTarget
<1> SUFFICES ASSUME Begins(j)
             PROVE  late = <<>> /\ Asks(ses, target)
  BY <1>1, <1>2 DEF OnCourse
<1>3. /\ ses.stage = "VerifySignature" /\ ses.handler = "GetSync" /\ ses.onSync = "SetDevice"
      /\ ses.in = <<>> /\ ses.out = <<GetSyncCmd>> /\ ses.hex = Rewind /\ ses.page = NoPage
      /\ ses.error = "none" /\ ses.timing = FALSE /\ DOMAIN ses = SessionField
      /\ ses.words = IF j.eep /\ ~j.set THEN EepromPage ELSE FlashPage
      /\ ses.bank = IF j.large /\ (j.set \/ ~j.eep) THEN NoBank ELSE 0
  BY <1>1 DEF NewSession, SessionField, Begins
<1>4. Memory = IF j.eep /\ ~j.set THEN "eeprom" ELSE "flash"  BY <1>1 DEF Memory, Operation
<1>5. ses.words = PageWords  BY <1>3, <1>4 DEF PageWords
<1>6. Knows(ses, target)  BY <1>1, <1>2, <1>3, <1>4 DEF Knows
<1>7. Clear(ses)  BY <1>3 DEF Clear, Idle
<1>8. Opening(ses, target)  BY <1>3, <1>5, <1>6 DEF Opening, Rewound, Sole
<1> QED  BY <1>1, <1>7, <1>8 DEF Asks

LEMMA NextCourse ==
  ASSUME IInv, OnCourse, [Next]_vars
  PROVE  OnCourse'
<1>1. ASSUME UNCHANGED vars PROVE OnCourse'
  <2>1. /\ job' = job /\ ses' = ses /\ target' = target /\ mInSession' = mInSession /\ late' = late
        /\ faults' = faults
    BY <1>1 DEF vars
  <2>2. Sized(target) /\ faults \in 0 .. MaxFaults  BY DEF OnCourse, IInv
  <2>3. InOrder => IF mInSession' THEN late' = <<>> /\ (Asks(ses', target') \/ Told(ses', target'))
                   ELSE Begins(job) => ses'.error = "none"
    BY <2>1 DEF OnCourse
  <2> QED  BY <2>1, <2>2, <2>3, CourseSame
<1> QED
  BY <1>1, UpdateCourse, IspUpdateCourse, BootloaderCourse DEF Next, Over

(* No false alarm: when the chip has no fault, the line lost nothing and   *)
(* the file suits pages and chip, no session that was begun ends with an   *)
(* error, whatever the file, the sizes of pages and banks and the job.     *)
THEOREM GoodSessionTheorem == Spec => []GoodSessionSucceeds
<1>1. Init => OnCourse  BY InitCourse
<1>2. IInv /\ OnCourse /\ [Next]_vars => OnCourse'  BY NextCourse
<1>3. OnCourse => GoodSessionSucceeds  BY DEF OnCourse, GoodSessionSucceeds, Ended
<1> QED  BY <1>1, <1>2, <1>3, Invariance, PTL DEF Spec
=============================================================================
