---------------------------- MODULE AvrStreamIsp ----------------------------
(***************************************************************************)
(* The programmer of CUN/AVRLoader, lib/SDHexLoaderISP/AVRStreamISP.cpp:   *)
(* it takes one STK500 command from its stream, works on the chip over SPI *)
(* and answers; and the chip, as far as the serial programming             *)
(* instructions the code sends need it.  With them, the bootloader that    *)
(* answers the same commands when the session uses a serial line.          *)
(*                                                                         *)
(* A target d is a record of what chip and programmer keep.  Each command  *)
(* is an operator that returns the target behind it and the answer, a      *)
(* sequence of status bytes and words.                                     *)
(***************************************************************************)
EXTENDS Naturals, Sequences, HexFile

CONSTANTS FlashWords, EepromWords

STK_OK == 16
STK_FAILED == 17
STK_INSYNC == 20
STK_NOSYNC == 21
FrameError == 0

Fuse == {"extended", "high", "low"}
Setting == {"old", "configured"}   \* values of a fuse
LockBits == {"unlocked", "locked"}
Fault == {"none", "otherSignature", "deadWord", "deadFuse", "staysLocked"}
DeadWord == 3
Signature == 1
OtherSignature == 2

Answer(d, r) == [target |-> d, reply |-> r]
DoEmptyReply(d) == Answer(d, <<STK_INSYNC, STK_OK>>)
DoOneByteReply(d, b) == Answer(d, <<STK_INSYNC, b, STK_OK>>)

(* NewTarget: a chip as it is found, not held in reset.                    *)
NewTarget(fuse, fault) ==
  [held |-> FALSE, address |-> 0, ext |-> 0, eepromSize |-> 0, eepromPage |-> 4,
   flash |-> [a \in 0..FlashWords - 1 |-> 0], eeprom |-> [a \in 0..EepromWords - 1 |-> 0],
   fuse |-> [f \in Fuse |-> fuse], latched |-> [f \in Fuse |-> fuse],
   lock |-> "locked", fault |-> fault]

-----------------------------------------------------------------------------
(* The chip.                                                               *)

(* Fuses are latched when programming mode is entered.                     *)
EnterProgMode(d) == [d EXCEPT !.held = TRUE, !.latched = d.fuse]
LeaveProgMode(d) == [d EXCEPT !.held = FALSE]

ChipErase(d) ==
  [d EXCEPT !.flash = [a \in DOMAIN @ |-> Erased], !.eeprom = [a \in DOMAIN @ |-> Erased],
            !.lock = IF d.fault = "staysLocked" THEN @ ELSE "unlocked"]

(* Programming clears bits only: a word that was not erased gets spoilt.   *)
Spoilt == 0
Burn(d, a, w) ==
  IF d.fault = "deadWord" /\ a = DeadWord THEN d.flash[a]
  ELSE IF w = Erased \/ d.flash[a] = w THEN d.flash[a]
  ELSE IF d.flash[a] = Erased THEN w
  ELSE Spoilt

(* One instruction of four bytes, with the byte the chip sends in return.  *)
TransferInstruction(d, inst) ==
  CASE inst.op = "chipErase" -> [target |-> ChipErase(d), byte |-> 0]
    [] inst.op = "readLock" -> [target |-> d, byte |-> d.lock]
    [] inst.op = "writeLock" -> [target |-> [d EXCEPT !.lock = "locked"], byte |-> 0]
    [] inst.op = "readFuse" -> [target |-> d, byte |-> d.fuse[inst.fuse]]
    [] inst.op = "writeFuse" ->
         [target |-> IF d.fault = "deadFuse" /\ inst.fuse = "high" THEN d
                     ELSE [d EXCEPT !.fuse[inst.fuse] = "configured"], byte |-> 0]
    [] inst.op = "loadExt" -> [target |-> [d EXCEPT !.ext = inst.bank], byte |-> 0]

-----------------------------------------------------------------------------
(* The commands, in the order of Update().                                 *)

GetSyncCmd == [cmd |-> "GET_SYNC"]
SetDeviceCmd(n) == [cmd |-> "SET_DEVICE", eepromSize |-> n]
SetDeviceExtCmd(n) == [cmd |-> "SET_DEVICE_EXT", eepromPage |-> n]
EnterProgModeCmd == [cmd |-> "ENTER_PROGMODE"]
LeaveProgModeCmd == [cmd |-> "LEAVE_PROGMODE"]
LoadAddressCmd(a) == [cmd |-> "LOAD_ADDRESS", address |-> a]
UniversalCmd(inst) == [cmd |-> "UNIVERSAL", inst |-> inst]
ProgPageCmd(mem, ws) == [cmd |-> "PROG_PAGE", mem |-> mem, words |-> ws]
ReadPageCmd(mem, n) == [cmd |-> "READ_PAGE", mem |-> mem, length |-> n]
ReadSignCmd == [cmd |-> "READ_SIGN"]
(* What is left of PROG_PAGE when the hex file ends inside the page: the   *)
(* programmer would wait for the rest for ever.                            *)
TruncatedCmd == [cmd |-> "TRUNCATED"]

SetDeviceProgParams(d, c) == DoEmptyReply([d EXCEPT !.eepromSize = c.eepromSize])
SetExtDeviceProgParams(d, c) == DoEmptyReply([d EXCEPT !.eepromPage = c.eepromPage])

Universal(d, c) ==
  LET t == TransferInstruction(d, c.inst) IN DoOneByteReply(t.target, t.byte)

(* Addresses count from the bank the chip has selected.                    *)
At(d, i) == d.ext * BankWords + d.address + i - 1

(* The words of s with ws at the address of d, each as Write(a, w) says.   *)
Stored(d, mem, ws, Write(_, _)) ==
  [a \in DOMAIN mem |->
     IF \E i \in 1..Len(ws) : At(d, i) = a THEN Write(a, ws[a - At(d, 1) + 1]) ELSE mem[a]]

WriteProgramPages(d, ws) ==
  [d EXCEPT !.flash = Stored(d, @, ws, LAMBDA a, w : Burn(d, a, w)),
            !.address = @ + Len(ws)]

(* Page mode or byte by byte, the EEPROM takes any value.                  *)
WriteEeprom(d, ws) ==
  [d EXCEPT !.eeprom =
     [a \in DOMAIN @ |-> IF a \in d.address..(d.address + Len(ws) - 1)
                           THEN ws[a - d.address + 1] ELSE @[a]]]

(* Data that are not taken from the stream are read in place of CRC_EOP.   *)
ProgramPage(d, c) ==
  IF c.mem = "flash" THEN DoEmptyReply(WriteProgramPages(d, c.words))
  ELSE IF Len(c.words) <= d.eepromSize THEN DoEmptyReply(WriteEeprom(d, c.words))
  ELSE Answer(d, <<STK_NOSYNC>>)

ReadProgramPage(d, n) == [i \in 1..n |-> d.flash[At(d, i)]]
ReadEepromPage(d, n) == [i \in 1..n |-> d.eeprom[d.address + i - 1]]

ReadPage(d, c) ==
  IF c.mem = "flash"
    THEN Answer([d EXCEPT !.address = @ + c.length],
                <<STK_INSYNC>> \o ReadProgramPage(d, c.length) \o <<STK_OK>>)
    ELSE Answer(d, <<STK_INSYNC>> \o ReadEepromPage(d, c.length) \o <<STK_OK>>)

ReadSignature(d) ==
  Answer(d, <<STK_INSYNC, IF d.fault = "otherSignature" THEN OtherSignature ELSE Signature, STK_OK>>)

(* The switch of Update().                                                 *)
IspCommand(d, c) ==
  CASE c.cmd = "GET_SYNC" -> DoEmptyReply(d)
    [] c.cmd = "SET_DEVICE" -> SetDeviceProgParams(d, c)
    [] c.cmd = "SET_DEVICE_EXT" -> SetExtDeviceProgParams(d, c)
    [] c.cmd = "ENTER_PROGMODE" -> DoEmptyReply(IF d.held THEN d ELSE EnterProgMode(d))
    [] c.cmd = "LEAVE_PROGMODE" -> DoEmptyReply(LeaveProgMode(d))
    [] c.cmd = "LOAD_ADDRESS" -> DoEmptyReply([d EXCEPT !.address = c.address])
    [] c.cmd = "UNIVERSAL" -> Universal(d, c)
    [] c.cmd = "PROG_PAGE" -> ProgramPage(d, c)
    [] c.cmd = "READ_PAGE" -> ReadPage(d, c)
    [] c.cmd = "READ_SIGN" -> ReadSignature(d)

(* The bootloader at the other end of a serial line ignores parameters and *)
(* chip erase, knows the bank, and erases a page before it writes it.      *)
BootloaderCommand(d, c) ==
  CASE c.cmd \in {"GET_SYNC", "SET_DEVICE", "SET_DEVICE_EXT", "ENTER_PROGMODE", "LEAVE_PROGMODE"} ->
         DoEmptyReply(d)
    [] c.cmd = "LOAD_ADDRESS" -> DoEmptyReply([d EXCEPT !.address = c.address])
    [] c.cmd = "UNIVERSAL" ->
         DoOneByteReply(IF c.inst.op = "loadExt" THEN [d EXCEPT !.ext = c.inst.bank] ELSE d, 0)
    [] c.cmd = "PROG_PAGE" /\ c.mem = "flash" ->
         DoEmptyReply([d EXCEPT !.flash = Stored(d, @, c.words, LAMBDA a, w : w)])
    [] c.cmd = "PROG_PAGE" /\ c.mem = "eeprom" -> DoEmptyReply(WriteEeprom(d, c.words))
    [] c.cmd = "READ_PAGE" -> ReadPage(d, c)
    [] c.cmd = "READ_SIGN" -> ReadSignature(d)
=============================================================================
