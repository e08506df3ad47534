----------------------------- MODULE AvrLoader -----------------------------
(***************************************************************************)
(* The AVR loader of CUN/AVRLoader: a session                              *)
(* (lib/SDHexLoaderISP/SDHexSession.cpp) that programs a hex file, fuses   *)
(* and lock bits by STK500 commands, the programmer that carries them out  *)
(* (AvrStreamIsp), and loop() of src/main.ino, which calls the two in      *)
(* turn.                                                                   *)
(*                                                                         *)
(* The session knows where it is by the handler of the answer it waits     *)
(* for.  Handler H of the source is two operators here: SendH(s), its call *)
(* with false, and OnH(s), its call with true, where s is the session      *)
(* behind the byte STK_INSYNC.  A session s holds the two buffers of the   *)
(* contextual stream as s.out (2, read by the programmer) and s.in (1).    *)
(*                                                                         *)
(* With a serial line in place of the programmer, the target's bootloader  *)
(* answers, and MaxFaults times something goes wrong on the way.           *)
(***************************************************************************)
EXTENDS AvrStreamIsp

CONSTANTS
  File,           \* the hex files: a function from names to sequences of records
  NoFile,         \* a name no file has
  Job,            \* what sessions are begun with, see JobType
  FlashPage,      \* mConfig.flashPageSize, in words
  EepromPage,     \* mConfig.eepromPageSize, in words
  SerialPage,     \* words per page when verifying over the serial line; 16 in the code
  SyncRetries,    \* 4 in the code
  MaxFaults       \* bound

(* set: inSetFusesAndBootloader.  bootloader: mConfig.bootloader is not 0. *)
(* large: devcode >= 0xB0.  lockMask: lockBits[0] is not 0.  fuse, fault:  *)
(* of the chip.                                                            *)
JobType ==
  [file : DOMAIN File \cup {NoFile}, set : BOOLEAN, bootloader : BOOLEAN, eep : BOOLEAN,
   serial : BOOLEAN, large : BOOLEAN, lockMask : BOOLEAN, eepromSize : Nat,
   fuse : Setting, fault : Fault]

ASSUME PageAssumption ==
  /\ {FlashPage, EepromPage, SerialPage} \subseteq Nat \ {0}
  /\ SegmentWords % FlashPage = 0 /\ FlashPage % SerialPage = 0
ASSUME FileAssumption == \A name \in DOMAIN File : File[name] \in Seq(Record)
ASSUME JobAssumption == Job \subseteq JobType /\ NoFile \notin DOMAIN File
(* Memories consist of whole pages.                                        *)
ASSUME ChipAssumption ==
  /\ {FlashWords, EepromWords} \subseteq Nat
  /\ FlashWords % FlashPage = 0 /\ EepromWords % EepromPage = 0
ASSUME BoundAssumption == SyncRetries \in Nat /\ MaxFaults \in Nat

VARIABLES
  job,        \* the arguments of begin()
  ses,        \* the session
  target,     \* the chip and the programmer's state
  late,       \* serial line: bytes of an answer still to come
  mInSession, \* of the sketch
  faults      \* left

vars == <<job, ses, target, late, mInSession, faults>>

NoBank == 255
NoPage == 65535

(* A page has an even number of words: none begins at NoPage.              *)
ASSUME NoPageAssumption == \A n \in {FlashPage, EepromPage, SerialPage} : NoPage % n # 0

Operation ==
  IF job.set THEN (IF job.bootloader THEN "SetFusesAndBootloader" ELSE "SetFuses")
  ELSE IF job.eep THEN "ProgramEEPROM" ELSE "ProgramFlash"

IsProgramming == Operation \in {"ProgramFlash", "ProgramEEPROM"}
(* loadingFlash of begin(): .eep files go to the EEPROM.                   *)
Memory == IF Operation = "ProgramEEPROM" THEN "eeprom" ELSE "flash"
TheFile == File[job.file]

-----------------------------------------------------------------------------
(* Sending and reading.                                                    *)

CanContinue(s) == s.stage # "SessionCompleted" /\ s.error = "none"

Fail(s, e) == [s EXCEPT !.error = e]
Send(s, handler, c) == [s EXCEPT !.out = <<c>>, !.handler = handler]
Read(s) == IF s.in = <<>> THEN s ELSE [s EXCEPT !.in = Tail(@)]

(* The command is sent again by whichever handler waited for its answer.   *)
SendGetSync(s) ==
  LET t == Send(s, "GetSync", GetSyncCmd)
  IN IF s.handler = "GetSync" THEN t ELSE [t EXCEPT !.onSync = s.handler]

(* ResponseStatusOK(): is the next byte STK_OK?  If not, IfOK does not     *)
(* count, and the session goes for sync.                                   *)
StatusOK(s) == s.in # <<>> /\ Head(s.in) = STK_OK
ResponseStatusOK(s, IfOK(_)) ==
  IF StatusOK(s) THEN With(Read(s), IfOK) ELSE SendGetSync(Read(s))

SendSetDevice(s) == Send(s, "SetDevice", SetDeviceCmd(job.eepromSize))
SendSetDeviceExt(s) == Send(s, "SetDeviceExt", SetDeviceExtCmd(EepromPage))
SendEnterProgramMode(s) == Send(s, "EnterProgramMode", EnterProgModeCmd)
SendLeaveProgramMode(s) == Send(s, "LeaveProgramMode", LeaveProgModeCmd)
SendReadSignature(s) == Send(s, "ReadSignature", ReadSignCmd)
SendChipErase(s) == Send(s, "ChipErase", UniversalCmd([op |-> "chipErase"]))
SendVerifyUnlocked(s) == Send(s, "VerifyUnlocked", UniversalCmd([op |-> "readLock"]))
SendVerifyLockBits(s) == Send(s, "VerifyLockBits", UniversalCmd([op |-> "readLock"]))
SendLoadAddress(s) == Send(s, "LoadAddress", LoadAddressCmd(s.page % BankWords))
SendLoadExtAddress(s) == Send(s, "LoadExtAddress", UniversalCmd([op |-> "loadExt", bank |-> s.bank]))

(* mFuseInst belongs to the stage.                                         *)
FuseOf(s) == CASE s.stage = "VerifyExtendedFuse" -> "extended"
               [] s.stage = "VerifyHighFuse" -> "high"
               [] s.stage = "VerifyLowFuse" -> "low"
SendVerifyFuse(s) == Send(s, "VerifyFuse", UniversalCmd([op |-> "readFuse", fuse |-> FuseOf(s)]))

-----------------------------------------------------------------------------
(* ProcessPage().                                                          *)

Loading(s) == s.stage \in {"LoadingFlash", "LoadingEEPROM"}
Verifying(s) == s.stage \in {"VerifyingFlash", "VerifyingEEPROM"}

(* The test at its head: the record in hand is used up.                    *)
WithRecord(s) ==
  IF s.hex.index = Len(s.hex.words) /\ s.hex.type # "eof"
    THEN With(LoadNextDataRecord(TheFile, s.hex), LAMBDA h :
           IF h.type = "invalid" THEN Fail([s EXCEPT !.hex = h], "LoadHexData")
                                 ELSE [s EXCEPT !.hex = h])
    ELSE s

SendPage(s) ==
  IF Loading(s)
    THEN With(LoadPageFromSD(TheFile, s.hex, s.words), LAMBDA l :
           LET t == [s EXCEPT !.hex = l.hex] IN
           IF l.ok THEN Send(t, "ProcessPage", ProgPageCmd(Memory, l.data))
           ELSE Fail(Send(t, "ProcessPage", TruncatedCmd), "LoadHexData"))
    ELSE Send(s, "ProcessPage", ReadPageCmd(Memory, s.words))

(* Bank and address first, when they are not those of the last page.       *)
SendPageOrAddress(s) ==
  LET page == PageOf(WordAddress(s.hex), s.words)
      bank == Bank(s.hex)
  IN IF bank # s.bank THEN SendLoadExtAddress([s EXCEPT !.bank = bank])
     ELSE IF page # s.page THEN SendLoadAddress([s EXCEPT !.page = page])
     ELSE SendPage(s)

VerifyLocks(s) == SendVerifyLockBits([s EXCEPT !.stage = "VerifyLockBits", !.modifier = {}])

Finished(s) == IF IsProgramming THEN SendLeaveProgramMode(s) ELSE VerifyLocks(s)

(* From loading to verifying.                                              *)
StartVerifyingAtLastPage(s) ==  \* mutant: the page address is not forgotten
  [s EXCEPT !.hex = Rewind,
            !.stage = IF @ = "LoadingFlash" THEN "VerifyingFlash" ELSE "VerifyingEEPROM",
            !.words = IF job.serial THEN SerialPage ELSE @,
            !.bank = IF job.large THEN NoBank ELSE 0]
StartVerifying(s) ==
  [s EXCEPT !.hex = Rewind,
            !.stage = IF @ = "LoadingFlash" THEN "VerifyingFlash" ELSE "VerifyingEEPROM",
            !.page = NoPage,
            !.words = IF job.serial THEN SerialPage ELSE @,
            !.bank = IF job.large THEN NoBank ELSE 0]

FirstVerified(s) ==
  With(WithRecord(StartVerifying(s)), LAMBDA t :
    IF t.error # "none" THEN t
    ELSE IF t.hex.type = "eof" THEN Finished(t) ELSE SendPageOrAddress(t))

(* The branch of the end record asks for a status whoever called.          *)
EndOfFile(s) == IF Loading(s) THEN ResponseStatusOK(s, FirstVerified) ELSE Finished(s)

SendProcessPage(s) ==
  With(WithRecord(s), LAMBDA t :
    IF t.error # "none" THEN t
    ELSE IF t.hex.type = "eof" THEN EndOfFile(t) ELSE SendPageOrAddress(t))

VerifiedHalfPage(s) ==  \* mutant: as many bytes as the page has words
  With(LoadPageFromSD(TheFile, s.hex, s.words), LAMBDA l :
    LET t == [s EXCEPT !.hex = l.hex]  n == s.words \div 2 IN
    IF ~l.ok THEN Fail(t, "LoadHexData")
    ELSE IF Len(t.in) < s.words \/ SubSeq(t.in, 1, n) # SubSeq(l.data, 1, n) THEN Fail(t, "Verification")
    ELSE [t EXCEPT !.in = SubSeq(@, s.words + 1, Len(@))])
VerifiedPage(s) ==
  With(LoadPageFromSD(TheFile, s.hex, s.words), LAMBDA l :
    LET t == [s EXCEPT !.hex = l.hex] IN
    IF ~l.ok THEN Fail(t, "LoadHexData")
    ELSE IF Len(t.in) < s.words \/ SubSeq(t.in, 1, s.words) # l.data THEN Fail(t, "Verification")
    ELSE [t EXCEPT !.in = SubSeq(@, s.words + 1, Len(@))])

OnProcessPage(s) ==
  With(WithRecord(s), LAMBDA t :
    IF t.error # "none" THEN t
    ELSE IF t.hex.type = "eof" THEN EndOfFile(t)
    ELSE With(IF Verifying(t) THEN VerifiedPage(t) ELSE t, LAMBDA u :
           IF u.error # "none" THEN u ELSE ResponseStatusOK(u, SendProcessPage)))

-----------------------------------------------------------------------------
(* The other handlers.                                                     *)

(* What GetSync() calls once in sync: the handler that waited, with false. *)
SendAgain(s) ==
  CASE s.onSync = "SetDevice" -> SendSetDevice(s)
    [] s.onSync = "SetDeviceExt" -> SendSetDeviceExt(s)
    [] s.onSync = "EnterProgramMode" -> SendEnterProgramMode(s)
    [] s.onSync = "LeaveProgramMode" -> SendLeaveProgramMode(s)
    [] s.onSync = "ReadSignature" -> SendReadSignature(s)
    [] s.onSync = "ChipErase" -> SendChipErase(s)
    [] s.onSync = "VerifyUnlocked" -> SendVerifyUnlocked(s)
    [] s.onSync = "VerifyFuse" -> SendVerifyFuse(s)
    [] s.onSync = "VerifyLockBits" -> SendVerifyLockBits(s)
    [] s.onSync = "LoadAddress" -> SendLoadAddress(s)
    [] s.onSync = "LoadExtAddress" -> SendLoadExtAddress(s)
    [] s.onSync = "ProcessPage" -> SendProcessPage(s)

InSync(s) == SendAgain([s EXCEPT !.retries = 0, !.handler = s.onSync])
OnGetSync(s) == ResponseStatusOK(s, InSync)
OnSetDevice(s) == ResponseStatusOK(s, SendSetDeviceExt)
OnSetDeviceExt(s) == ResponseStatusOK(s, SendEnterProgramMode)

(* SetAVRConfig(): SPI at the speed of the configured clock.               *)
InProgramMode(s) ==
  CASE s.stage = "VerifySignature" -> SendReadSignature(s)
    [] s.stage = "VerifyUnlocked" -> SendVerifyUnlocked([s EXCEPT !.modifier = {}])
    [] OTHER -> IF Operation = "SetFusesAndBootloader"
                  THEN SendProcessPage([s EXCEPT !.spi = "fast"])
                  ELSE VerifyLocks(s)
OnEnterProgramMode(s) == ResponseStatusOK(s, InProgramMode)

Halt(s) == [s EXCEPT !.stage = "SessionCompleted"]
OnLeaveProgramMode(s) == ResponseStatusOK(s, Halt)

OnReadSignatureUnchecked(s) ==  \* mutant: the bytes are read, not compared
  IF Len(s.in) < 2 THEN s ELSE ResponseStatusOK(Read(s), SendChipErase)

(* One of the three bytes differs; without three bytes and a status        *)
(* nothing is sent, and the session will time out.                         *)
OnReadSignature(s) ==
  IF Len(s.in) < 2 THEN s
  ELSE IF Head(s.in) # Signature THEN Fail(Read(s), "Signature")
  ELSE ResponseStatusOK(Read(s), SendChipErase)

(* Answers of UNIVERSAL: a byte, then the status.                          *)
OnByte(s, IfOK(_)) == IF s.in = <<>> THEN s ELSE ResponseStatusOK(Read(s), IfOK)

Erasing(s) ==
  IF IsProgramming
    THEN SendProcessPage([s EXCEPT !.stage = IF Operation = "ProgramFlash" THEN "LoadingFlash"
                                             ELSE "LoadingEEPROM"])
    ELSE SendEnterProgramMode([s EXCEPT !.stage = "VerifyUnlocked"])
OnChipErase(s) == OnByte(s, Erasing)

OnVerifyUnlocked(s) ==
  LET Check(t) ==
        IF Head(s.in) # "unlocked" THEN Fail(t, "Unlock")
        ELSE IF "FuseVerified" \in t.modifier
          THEN SendVerifyFuse([t EXCEPT !.stage = "VerifyExtendedFuse", !.modifier = {}])
        ELSE SendVerifyUnlocked([t EXCEPT !.modifier = @ \cup {"FuseVerified"}])
  IN OnByte(s, Check)

(* VerifyFuse() and VerifyLockBits(): read twice what shall be there; if   *)
(* the first reading differs write it, once.                               *)
ReadTwice(t, same, Again(_), WriteCmd, Verified(_), e) ==
  IF "FuseWriteResponse" \in t.modifier
    THEN Again([t EXCEPT !.modifier = @ \ {"FuseWriteResponse"}])
  ELSE IF same
    THEN IF "FuseVerified" \in t.modifier THEN Verified(t)
         ELSE Again([t EXCEPT !.modifier = {"FuseVerified"}])
  ELSE IF t.modifier # {} THEN Fail(t, e)
  ELSE Send([t EXCEPT !.modifier = {"FuseWriteResponse", "FuseWritten"}], t.handler, WriteCmd)

NextFuse(s) ==
  CASE s.stage = "VerifyExtendedFuse" ->
         SendVerifyFuse([s EXCEPT !.stage = "VerifyHighFuse", !.modifier = {}])
    [] s.stage = "VerifyHighFuse" ->
         SendVerifyFuse([s EXCEPT !.stage = "VerifyLowFuse", !.modifier = {}])
    [] s.stage = "VerifyLowFuse" -> SendEnterProgramMode([s EXCEPT !.stage = "LoadingFlash"])

OnVerifyFuse(s) ==
  LET Check(t) ==
        ReadTwice(t, Head(s.in) = "configured", SendVerifyFuse,
                  UniversalCmd([op |-> "writeFuse", fuse |-> FuseOf(t)]), NextFuse, "Fuse")
  IN OnByte(s, Check)

OnVerifyLockBits(s) ==
  LET Check(t) ==
        ReadTwice(t, Head(s.in) = "locked", SendVerifyLockBits,
                  UniversalCmd([op |-> "writeLock"]), SendLeaveProgramMode, "Lock")
  IN OnByte(s, Check)

OnLoadAddress(s) == ResponseStatusOK(s, SendProcessPage)
OnLoadExtAddress(s) == OnByte(s, SendProcessPage)

-----------------------------------------------------------------------------
(* begin().                                                                *)

NeedsFile(j) == ~j.set \/ j.bootloader
LockRefused(j) == j.set /\ (~j.lockMask \/ j.serial)
Begins(j) == ~LockRefused(j) /\ (NeedsFile(j) => j.file # NoFile)

(* The command GET_SYNC waits for either stream when begin() returns.      *)
NewSession(j) ==
  [stage |-> IF Begins(j) THEN "VerifySignature" ELSE "SessionCompleted",
   modifier |-> {}, error |-> IF LockRefused(j) THEN "Lock" ELSE "none",
   handler |-> "GetSync", onSync |-> "SetDevice", retries |-> 0,
   hex |-> Rewind, page |-> NoPage, words |-> IF j.eep /\ ~j.set THEN EepromPage ELSE FlashPage,
   bank |-> IF j.large /\ (j.set \/ ~j.eep) THEN NoBank ELSE 0,
   spi |-> IF j.set THEN "slow" ELSE "fast",
   out |-> IF Begins(j) THEN <<GetSyncCmd>> ELSE <<>>, in |-> <<>>, timing |-> FALSE]

(* setup(); a serial session holds reset (DTR) itself, while it lasts.     *)
Init ==
  \E j \in Job :
    /\ job = j
    /\ ses = NewSession(j)
    /\ target = [NewTarget(j.fuse, j.fault) EXCEPT !.held = j.serial /\ Begins(j)]
    /\ late = <<>>
    /\ mInSession = Begins(j)
    /\ faults = IF j.serial THEN MaxFaults ELSE 0

-----------------------------------------------------------------------------
(* One turn of loop().  Update() of the programmer: the command in buffer  *)
(* 2.  Afterwards StReadFrom1 drops what was not read of it.               *)
IspUpdate ==
  /\ mInSession /\ ~job.serial /\ ses.out # <<>>
  /\ LET a == IspCommand(target, Head(ses.out)) IN
       /\ target' = a.target
       /\ ses' = [ses EXCEPT !.out = <<>>, !.in = a.reply]
  /\ UNCHANGED <<job, late, mInSession, faults>>

(* Update() of the session went from ses to s.  Behind the programmer's    *)
(* stream the rest of an answer is dropped; when the session cannot go on  *)
(* loop() halts both.                                                      *)
Loop(s) ==
  LET left == IF job.serial THEN s.in ELSE <<>> IN
  /\ mInSession' = CanContinue(s)
  /\ IF CanContinue(s)
       THEN ses' = [s EXCEPT !.in = left] /\ UNCHANGED target
       ELSE /\ ses' = [Halt(s) EXCEPT !.in = <<>>, !.out = <<>>, !.timing = FALSE]
            /\ target' = LeaveProgMode(target)
  /\ UNCHANGED <<job, late, faults>>

(* An answer that begins with byte b is there.                             *)
Received(b) == mInSession /\ ses.in # <<>> /\ Head(ses.in) = b
Heard == [Read(ses) EXCEPT !.timing = FALSE]

Handle(handler, On(_)) ==
  Received(STK_INSYNC) /\ ses.handler = handler /\ \E s \in {On(Heard)} : Loop(s)

HandleGetSync == Handle("GetSync", OnGetSync)
HandleSetDevice == Handle("SetDevice", OnSetDevice)
HandleSetDeviceExt == Handle("SetDeviceExt", OnSetDeviceExt)
HandleEnterProgramMode == Handle("EnterProgramMode", OnEnterProgramMode)
HandleLeaveProgramMode == Handle("LeaveProgramMode", OnLeaveProgramMode)
HandleReadSignature == Handle("ReadSignature", OnReadSignature)
HandleChipErase == Handle("ChipErase", OnChipErase)
HandleVerifyUnlocked == Handle("VerifyUnlocked", OnVerifyUnlocked)
HandleVerifyFuse == Handle("VerifyFuse", OnVerifyFuse)
HandleVerifyLockBits == Handle("VerifyLockBits", OnVerifyLockBits)
HandleLoadAddress == Handle("LoadAddress", OnLoadAddress)
HandleLoadExtAddress == Handle("LoadExtAddress", OnLoadExtAddress)
HandleProcessPage == Handle("ProcessPage", OnProcessPage)

HandleNoSyncForEver ==  \* mutant: retries are counted, not limited
  Received(STK_NOSYNC) /\ Loop(SendGetSync([Heard EXCEPT !.retries = @ + 1]))
HandleNoSync ==
  /\ Received(STK_NOSYNC)
  /\ Loop(IF ses.retries < SyncRetries
            THEN SendGetSync([Heard EXCEPT !.retries = @ + 1])
            ELSE Fail(Heard, "Sync"))

HandleFrameError == Received(FrameError) /\ Loop(Heard)

(* Anything else; what follows is read away.                               *)
HandleUnknown ==
  /\ mInSession /\ ses.in # <<>>
  /\ Head(ses.in) \notin {STK_INSYNC, STK_NOSYNC, FrameError}
  /\ Loop(Fail([Heard EXCEPT !.in = <<>>], "Unknown"))

(* No target is at work on an answer; the rest of one may be under way.    *)
Silent == mInSession /\ ses.in = <<>> /\ ses.out = <<>>
StartTimer == Silent /\ ~ses.timing /\ Loop([ses EXCEPT !.timing = TRUE])
TimerRestarts == Silent /\ ses.timing /\ Loop([ses EXCEPT !.timing = FALSE])  \* mutant
TimerPasses == Silent /\ ses.timing /\ Loop(Fail(ses, "Timeout"))

Update ==
  \/ HandleGetSync \/ HandleSetDevice \/ HandleSetDeviceExt
  \/ HandleEnterProgramMode \/ HandleLeaveProgramMode \/ HandleReadSignature
  \/ HandleChipErase \/ HandleVerifyUnlocked \/ HandleVerifyFuse \/ HandleVerifyLockBits
  \/ HandleLoadAddress \/ HandleLoadExtAddress \/ HandleProcessPage
  \/ HandleNoSync \/ HandleFrameError \/ HandleUnknown
  \/ StartTimer \/ TimerPasses

-----------------------------------------------------------------------------
(* The serial line.                                                        *)

Pending == mInSession /\ job.serial /\ ses.out # <<>> /\ late = <<>>
Command == Head(ses.out)
Executed == BootloaderCommand(target, Command)

(* The target becomes t; of the answer, now arrives at once.               *)
Line(t, now, later, cost) ==
  /\ faults' = faults - cost
  /\ target' = t
  /\ ses' = [ses EXCEPT !.out = <<>>, !.in = @ \o now]
  /\ late' = later
  /\ UNCHANGED <<job, mInSession>>

BootloaderAnswers == Pending /\ Line(Executed.target, Executed.reply, <<>>, 0)

(* The command, or the answer to it, does not arrive.                      *)
CommandLost == Pending /\ faults > 0 /\ Line(target, <<>>, <<>>, 1)
AnswerLost == Pending /\ faults > 0 /\ Line(Executed.target, <<>>, <<>>, 1)
(* The command is not understood.                                          *)
NotInSync == Pending /\ faults > 0 /\ Line(target, <<STK_NOSYNC>>, <<>>, 1)
(* Data of a command change on their way: no checksum covers them.         *)
DataGarbled ==
  /\ Pending /\ faults > 0 /\ Command.cmd = "PROG_PAGE"
  /\ LET e == BootloaderCommand(target, [Command EXCEPT !.words = [i \in DOMAIN @ |-> Spoilt]])
     IN Line(e.target, e.reply, <<>>, 1)
StatusGarbled ==
  /\ Pending /\ faults > 0
  /\ LET r == Executed.reply IN Line(Executed.target, [r EXCEPT ![Len(r)] = STK_FAILED], <<>>, 1)
Glitch ==
  Pending /\ faults > 0 /\ Line(Executed.target, <<FrameError>> \o Executed.reply, <<>>, 1)
(* The line pauses inside an answer for longer than WaitForAvailable().    *)
AnswerPauses ==
  /\ Pending /\ faults > 0
  /\ \E k \in 1..Len(Executed.reply) - 1 :
       LET r == Executed.reply IN Line(Executed.target, SubSeq(r, 1, k), SubSeq(r, k + 1, Len(r)), 1)
LateBytes ==
  /\ mInSession /\ late # <<>>
  /\ ses' = [ses EXCEPT !.in = @ \o late]
  /\ late' = <<>>
  /\ UNCHANGED <<job, target, mInSession, faults>>

Bootloader == BootloaderAnswers \/ LateBytes
LineFault == CommandLost \/ AnswerLost \/ NotInSync \/ DataGarbled \/ StatusGarbled
             \/ Glitch \/ AnswerPauses

(* mInSession = 0: loop() does nothing any more.                           *)
Over == ~mInSession /\ UNCHANGED vars

Next == Update \/ IspUpdate \/ Bootloader \/ LineFault \/ Over

(* loop() runs, and the target answers what reaches it.                    *)
Fairness == WF_vars(Update) /\ WF_vars(IspUpdate) /\ WF_vars(Bootloader)

Spec == Init /\ [][Next]_vars /\ Fairness

-----------------------------------------------------------------------------
(* Properties.                                                             *)

Stage ==
  {"SessionCompleted", "VerifySignature", "VerifyUnlocked", "VerifyExtendedFuse",
   "VerifyHighFuse", "VerifyLowFuse", "VerifyLockBits", "LoadingFlash", "LoadingEEPROM",
   "VerifyingFlash", "VerifyingEEPROM"}
Error ==
  {"none", "Timeout", "Sync", "Unknown", "LoadHexData", "Signature", "Verification",
   "Unlock", "Lock", "Fuse"}
Handler ==
  {"GetSync", "SetDevice", "SetDeviceExt", "EnterProgramMode", "LeaveProgramMode",
   "ReadSignature", "ChipErase", "VerifyUnlocked", "VerifyFuse", "VerifyLockBits",
   "LoadAddress", "LoadExtAddress", "ProcessPage"}

TypeOK ==
  /\ job \in Job /\ mInSession \in BOOLEAN /\ faults \in 0..MaxFaults
  /\ ses.stage \in Stage /\ ses.error \in Error
  /\ ses.modifier \subseteq {"FuseWritten", "FuseWriteResponse", "FuseVerified"}
  /\ ses.handler \in Handler /\ ses.onSync \in Handler \ {"GetSync"}
  /\ ses.retries \in 0..SyncRetries
  /\ ses.hex.index \in 0..Len(ses.hex.words)
  /\ ses.words \in {FlashPage, EepromPage, SerialPage}
  /\ Len(ses.out) <= 1
  /\ target.held \in BOOLEAN /\ target.lock \in LockBits
  /\ target.fuse \in [Fuse -> Setting]

Ended == Begins(job) /\ ~mInSession

PageWords == IF Memory = "eeprom" THEN EepromPage ELSE FlashPage
MemoryOf(t) == IF Memory = "eeprom" THEN t.eeprom ELSE t.flash

Programmed(f) == \A c \in Contents(f) : MemoryOf(target)[c[1]] = c[2]

(* In these pages the file is verified, and what the loader takes for      *)
(* granted of it: no gaps inside such a page, which LoadPageFromSD() would *)
(* close, loading and verifying alike; and what is beyond the first bank   *)
(* can be reached only in the flash of a large chip.                       *)
VerifiedWords == IF job.serial THEN SerialPage ELSE PageWords
Suits(f) ==
  /\ GapFree(f, VerifiedWords) /\ Orderly(f)
  /\ (job.large /\ Memory = "flash") \/ InFirstBank(f)

(* "Success" is true: when a session ends without an error, every word of  *)
(* the file is in its place: verification of ProcessPage() missed nothing, *)
(* whatever pages were lost, garbled or sent to the wrong address before.  *)
(* And fuses and lock bits are as configured.                              *)
SuccessMeansWords ==
  Ended /\ ses.error = "none" /\ NeedsFile(job) /\ Suits(TheFile) => Programmed(TheFile)
SuccessMeansConfigured ==
  Ended /\ ses.error = "none" /\ job.set =>
    target.lock = "locked" /\ \A f \in Fuse : target.fuse[f] = "configured"
SuccessMeansProgrammed == SuccessMeansWords /\ SuccessMeansConfigured

(* A chip with another signature is left as it was found, in spite of      *)
(* repeated and misread answers: ReadSignature() comes before any command  *)
(* that changes the chip.                                                  *)
WrongChipIsUntouched ==
  target.fault = "otherSignature" =>
    LET found == NewTarget(job.fuse, job.fault) IN
    /\ target.flash = found.flash /\ target.eeprom = found.eeprom
    /\ target.fuse = found.fuse /\ target.lock = found.lock

(* Chip, file and line are in order: the file suits loading and            *)
(* verification and fits into the chip, and words that verification pads   *)
(* a page with lie in pages that were written.                             *)
Touched(f, a) == \E c \in Contents(f) : PageOf(c[1], PageWords) = PageOf(a, PageWords)
Written(f) ==
  \A c \in Contents(f) :
    LET p == PageOf(c[1], VerifiedWords) IN \A a \in p..(p + VerifiedWords - 1) : Touched(f, a)
SoundFile(f) ==
  /\ Complete(f) /\ Ascending(f) /\ Suits(f) /\ GapFree(f, PageWords)
  /\ LastPageEnds(f, PageWords) /\ LastPageEnds(f, VerifiedWords)
  /\ Written(f)
  /\ \A c \in Contents(f) : c[1] \in DOMAIN MemoryOf(target)
InOrder ==
  /\ job.fault = "none"
  /\ job.serial => faults = MaxFaults
  /\ NeedsFile(job) => SoundFile(TheFile)
  /\ Memory = "eeprom" => job.eepromSize >= EepromPage

(* No false alarm: with chip, file and line in order no session fails.     *)
(* Pages, addresses and banks are announced again for verification, and    *)
(* the padding written is the padding expected (ProcessPage() at its end   *)
(* of file branch).                                                        *)
GoodSessionSucceeds == Ended /\ InOrder => ses.error = "none"

(* The answer to the last page of the loading phase was bad, or the file   *)
(* has no page: each sync leads back to the end of file branch of          *)
(* ProcessPage(), which waits for a status nobody sends.  Without a page   *)
(* the way there is ChipErase(), time and again.                           *)
AwaitsLastStatus == Loading(ses) /\ ses.hex.type = "eof"

(* Every session comes to an end, by success, error or timeout, and lets   *)
(* go of the target's reset line; the one way round this is the above.     *)
SessionEnds == <>(~mInSession /\ ~target.held) \/ <>[]AwaitsLastStatus

(* begin() says of the fuses that "programming mode is re-entered in order *)
(* for the new fuse settings to take effect": when the SPI clock is raised *)
(* to what the fuses configure, the chip runs by them.                     *)
NewFusesInEffect == job.set /\ ses.spi = "fast" => target.latched = target.fuse
=============================================================================
