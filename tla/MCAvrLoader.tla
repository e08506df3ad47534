---------------------------- MODULE MCAvrLoader ----------------------------
(* Hex files and jobs for model checking AvrLoader: segments of 8 words,   *)
(* pages of 4, verified over a serial line in pieces of 2.                 *)
EXTENDS AvrLoader

MCFile ==
  [plain |-> <<StartRecord, DataRecord(0, <<1, 2>>), DataRecord(2, <<3, 4, 5>>), EofRecord>>,
   offset |-> <<DataRecord(5, <<1>>), DataRecord(6, <<2>>), EofRecord>>,
   banks |-> <<DataRecord(0, <<1>>), ExtRecord(2), DataRecord(4, <<2, 3>>), EofRecord>>,
   segments |-> <<DataRecord(6, <<1, 2>>), ExtRecord(1), DataRecord(0, <<3, 4, 5, 6>>), EofRecord>>,
   returns |-> <<DataRecord(0, <<1, 2>>), DataRecord(4, <<3>>), DataRecord(2, <<4, 5>>),
                 DataRecord(4, <<3>>), EofRecord>>,
   short |-> <<DataRecord(0, <<1, 2>>), EofRecord>>,
   cut |-> <<DataRecord(0, <<1, 2, 3, 4>>), DataRecord(4, <<5, 6>>)>>,
   damaged |-> <<DataRecord(0, <<1, 2, 3, 4>>), BadRecord, EofRecord>>,
   empty |-> <<EofRecord>>]

Flash(f) ==
  [file |-> f, set |-> FALSE, bootloader |-> FALSE, eep |-> FALSE, serial |-> FALSE,
   large |-> FALSE, lockMask |-> FALSE, eepromSize |-> 0, fuse |-> "old", fault |-> "none"]
Eeprom(f) == [Flash(f) EXCEPT !.eep = TRUE, !.eepromSize = 8]
Serial(j) == [j EXCEPT !.serial = TRUE]
Large(j) == [j EXCEPT !.large = TRUE]
WithFault(j, x) == [j EXCEPT !.fault = x]
Fuses == [Flash(NoFile) EXCEPT !.set = TRUE, !.lockMask = TRUE]
Bootload(f) == [Fuses EXCEPT !.file = f, !.bootloader = TRUE]

MCJob ==
  LET files == DOMAIN MCFile
      isp == {Flash(f) : f \in files \cup {NoFile}} \cup {Large(Flash(f)) : f \in files}
             \cup {WithFault(Flash("plain"), x) : x \in Fault}
             \cup {Eeprom("plain"), Eeprom("offset"), [Eeprom("plain") EXCEPT !.eepromSize = 2],
                   Large(Eeprom("plain"))}
      set == {Fuses, [Fuses EXCEPT !.fuse = "configured"], [Fuses EXCEPT !.lockMask = FALSE],
              Bootload("offset"), Bootload("short"), Bootload("banks")}
      line == {Serial(Flash("plain")), Serial(Flash("returns")), Serial(Large(Flash("banks"))),
               Serial(Eeprom("offset")), Serial(WithFault(Flash("plain"), "otherSignature"))}
  IN isp \cup set \cup line \cup {WithFault(j, x) : j \in {Fuses, Bootload("offset")}, x \in Fault}
=============================================================================
