# Verification of the busware firmwares

TLA+ models of the firmwares in this repository, checked with TLC, with
theorems proved by TLAPS. The models follow the source; where a comment or a
README says something else than the code does, a run shows it.

## The system

| Part | State it keeps | Operations | Interacts with |
|---|---|---|---|
| TUL bridge loop (`Simple/USBSerial/src/main.ino`) | receive queues of UART and USB CDC (filled by interrupts), four counters, LED | `loop()`: web, MQTT, USB→KNX, KNX→USB, LED, one after the other in one task | calls the web and MQTT managers, which block it |
| TUL WiFi provisioning (`WebManager.cpp`) | NVS keys `ssid`, `password`; radio mode, `apMode` | `startWiFi`, `/wifi/save`, `/wifi/forget`, `/wifi/scan`, `/restart` | radio, NVS, restarts |
| TUL firmware update (`WebManager.cpp`) | `otaStarted`, `otaFailed`, `otaReceived`, `otaPartition`; Update library; two slots, boot selection | upload callback with four statuses, result handler | web server, flash, boot loader |
| TUL MQTT client (`MQTTManager.cpp`) | configuration in RAM and NVS, connection, two times | `loop`, `connect`, publishing, `saveConfig` | broker (session, will, retained messages), `/mqtt/save` |
| TUL serial monitor (`WebManager.cpp`) | ring of 8192 characters, two lines under construction | `logByte`, `flushSerialLine`, `/api/serial` | fed by both copy loops |
| culfw receiver (`culfw/lib/clib/rf_receive.c`) | buckets, their indexes and counter, timer enable | edge interrupt, timer interrupt, `RfAnalyze_Task` | radio, FHT, output |
| culfw FHT (`fht.c`) | message buffer, three timers, handshake | hooks from receiver, clock and command line | receiver, sender, clock |
| culfw clock and credit (`clock.c`, `rf_send.c`) | ticks, seconds, transmit credit | 125 Hz interrupt, `Minute_Task`, sending | everything timed |
| culfw terminal (`ringbuffer.c`, `ttydata.c`, `serial.c`) | two character rings, command line | UART interrupts, `analyze_ttydata` | all command handlers |
| TCP bridge (`lib/TCPBridge`, `Simple/TCPBridge/src/main.ino`) | client slots, server on or off, WiFi and its credentials | callbacks in the network task, `loop()` | transceiver, TCP clients |
| culfw radio (`cc1100.c`, `rf_send.c`, `rf_asksin.c`, `rf_moritz.c`, `rf_rwe.c`, `fastrf.c`, `rf_zwave.c`, `intertechno.c`, `somfy_rts.c`, `kopp-fc.c`) | which protocol is on, what to restore, send credit, the transceiver's registers and state | commands of the host, one task per protocol | each other, through the one transceiver |
| AVR loader (`CUN/AVRLoader`) | session: stage, handler waited for, place in the hex file; programmer: reset line, address; two one-way streams | `begin`, one handler per answer, one operation per STK500 command, `loop` | each other, the chip, or a bootloader over a serial line |
| Others | none worth a model | HTML, HTTP update, base32, build scripts | |

What is hard: one task does everything on the TUL, so every slow call is an
absence from the UART; handlers write several NVS keys with power failing in
between; uploads and MQTT sessions end without anybody being told; culfw shares
its buckets with interrupts on a processor where `x--` is not atomic; the TCP
bridge shares its slots with the network task without a lock; an FHT
conversation is driven by packets that get lost and by a timer that can be
missed; ten radio protocols use one transceiver without any of them owning it;
the AVR loader takes up again in the middle of a file whenever an answer fails.
The hazards are listed one by one, each with its line, in `PROJECT.json`.

What makes each part correct: the bridge delivers a subsequence in order and
loses nothing unless it was away for long; provisioning ends with a device that
can be reached; an update never spoils what runs; the retained availability is
true or will be corrected; the receiver neither spoils nor forgets nor repeats
a committed frame; a message for a thermostat is kept until it was heard, and
arrives in the end; a telegram of another protocol leaves the receiver as it
was, and no receiver stays deaf; what an AVR session calls programmed is
programmed, and every session ends; a TCP client that is connected misses no
bytes but in one race, and the bridge comes back from whatever happened.

## Modules

| Module | Models | Runs |
|---|---|---|
| `LossyChannel` | abstract: a channel that may lose, never reorders, repeats or invents | as a property of the next two |
| `UsbBridge` | `main.ino`: `setup()` and `loop()` | `usb_bridge`, `usb_starvation` |
| `WifiManager`, `MCWifiManager` | WiFi part of `WebManager.cpp` | `wifi` |
| `OtaUpdate` | update part of `WebManager.cpp` | `ota` |
| `MqttManager` | `MQTTManager.cpp`, `/mqtt/save`, the broker | `mqtt`, `mqtt_sign_off` |
| `RfReceive` | bucket handling of `rf_receive.c` | `rf_receive` |
| `TcpBridge` | `TCPBridge.cpp` and `loop()` of its sketch | `tcp_bridge` |
| `Fht`, `MCFht` | 80b part of `fht.c`, its timer in `clock.c` | `fht` |
| `HexFile` | `IntelHexFile.cpp`, page assembly of `SDHexSession.cpp` | as part of the next but one |
| `AvrStreamIsp` | `AVRStreamISP.cpp`, the chip | as part of the next |
| `AvrLoader`, `MCAvrLoader` | `SDHexSession.cpp`, `ContextualStream.cpp`, the sketch | `avr_loader`, `avr_relatch` |
| `RadioModes` | the radio protocols of culfw over `cc1100.c` | `radio_modes` |
| `UsbBridge_proofs`, `MqttManager_proofs`, `TcpBridge_proofs`, `RadioModes_proofs` | theorems about the module they are named after | |
| `AvrSession_proofs`, `AvrLoader_proofs` | theorems about `AvrLoader`, in two parts: hex file, types, chip, fuses and lock bits; then memory and the session without faults | |
| `Culfw_proofs` | theorems about two parts of culfw, `RfReceive` and `Fht` | |
| `WebManager_proofs` | theorems about both parts of `WebManager.cpp`, `WifiManager` and `OtaUpdate` | |

Operators marked as mutants are versions of the operator behind them with a
plausible bug; no specification uses them. Each property is known to fail when
the mutant named for it in `PROJECT.json` takes the place of its original.

### UsbBridge

`pc` says which part of `loop()` the task is in, `stall` how long the call it is
in still takes. Time is counted in byte times of the KNX UART and only passes
inside such calls (`Tick`): everything else in the loop is short compared with
the 286 µs a byte takes. `KnxSends` is the UART interrupt, at most one byte per
byte time (`slot`); `HostSends` is the USB interrupt. `UsbByte` and `KnxByte`
are one turn of the copy loops, with the write that may wait or fail.
`sent`, `last`, `delivered`, `overrun`, `dropped` and `away` are history.

`usb_bridge`: queues of 2 bytes, 4 bytes from each peer, calls of up to 2 byte
times, a transmit FIFO of 1 and counters that wrap at 3. The queue is full, the
FIFO is full and the counters wrap in these bounds, and stalls of web, MQTT and
USB add up to more than the queue holds, so that bytes are lost. Labels of bytes are
compared, not counted modulo anything, so four bytes are enough for any two to
be swapped, doubled or lost. `Conservation`,
`LossNeedsLongAbsence`, `QueuesDrain`, and `BothChannels`: each direction
implements `LossyChannel` (refinement mapping: `sent`, `last`, `delivered` of
that direction, `lost` = overrun + dropped).

Fairness: the task keeps running and each call returns (`WF` of `Task` and
`Tick`); neither peer has to send. `QueuesDrain` is stated for peers that pause
after `MaxBytes`; without that it is false, which `usb_starvation` shows with
`Endless = TRUE`: a host that keeps sending holds the task in the first copy
loop, with time passing in the writes. The comment in that loop announces a
protection that is not there.

### WifiManager

`pc` names the next step of the handler in progress; NVS keys are written one
by one, so `PowerFail` can leave a torn pair (`torn` remembers that). `target`
is what the WiFi driver was last told to join; it keeps trying (`Associate`).
`Reachable` means that the access point is on or the link is up.

`wifi`: two networks with different passwords, users that mix them freely, two
power failures. Every combination of stored, requested and wrong pair occurs.
`StoredPairWasTested`, `UnreachableAwaitsStored` and `BootEndsReachable` are
safety; `ComesBack` says that a device that went out of reach returns once its
stored network is there for good. Fairness: handlers end, and the driver keeps
trying. Users and networks owe nothing. A failed save on a device
that fell back to its access point leaves it out of reach until its stored
network returns, which `UnreachableAwaitsStored` allows.

### OtaUpdate

One action for each status of the upload callback, and `Result` for the handler
behind the request. The web server calls them as the library does: a request
has one or more files, the callback hears of a client that goes away inside a
file and of nothing when it goes away behind one (`Vanish`). `UpdateBegin`,
`UpdateAbort` and the verification in `FileEnd` are the Update library as the
code relies on it. `ota`: four uploads, intact or damaged, two slots:
enough to switch slots and back with a failed attempt before each.
`SelectMayFail = TRUE`
lets the second selection of the boot slot fail where the first succeeded.
Deadlock is not checked in `ota`: users may stop uploading.

### MqttManager

`config` is what is in RAM, `nvs` what is stored; `saveConfig()` writes key by
key (`PutKey`), then signs off and restarts. Port, user and password are
written and read along with the host name and are left out. The broker keeps a
session with a will for the device until it is told to forget it
(`Disconnect`), taken over (`BrokerAccepts`) or tired of waiting (`Expire`).
Only differences of times matter and are kept modulo `Modulus`.

`mqtt`: two brokers, two topics, two saved configurations and two faults (lost
connections, refusals with or without a session left behind, WiFi outages,
resets at any point, also between two keys). Intervals are 2 and `millis()`
wraps at 4, so waiting too long wraps the difference. `OnlineIsCovered` and
`ConnectedIsOnline` relate retained messages to wills and connections;
`ConnectPaced` counts true time between attempts, across wraps and restarts;
`ComesOnline` holds under the fairness that the loop gets to run at some
instant at which it has something to do (strong fairness of `Dial`: the
difference wraps, so being due is not continuous), that attempts end, that WiFi
returns and that brokers time out. `mqtt_sign_off`, without any fault: a
configuration that disables MQTT is saved while the device is online, and the
retained `online` stays for ever.

### RfReceive

Interrupts are atomic actions (`SyncBegins` … `ItFails` for edges, `Silence`
for the timer); `RfAnalyze_Task` is split at every access to shared state, in
program order: `LookForOne`, `Analyse`, `Release`, `Load`, `Store`, `Advance`, and
`AnalyseFull`, `ResetInputState` for the call of `reset_input()` from the task.
What a frame contains and what the decoders make of it is left open; `frame`
numbers the frames so that reading a bucket that was written again shows.

`rf_receive`: the firmware's two buckets, five frames, buckets of 3 bytes (2
are needed to be committed). Frames are committed, given up because the buckets
are full, too short, too long or noisy, and cut off by the task (8 692 states).
Fairness: the main loop goes round; nothing is assumed of the air. The module
takes any number of buckets (`BucketsAssumption`), and the types hold for any.
The other properties are about the two of `board.h:71`: with these the timer
interrupt never commits while a bucket is in use, which is the only reason why
`bucket_nrused--` loses nothing.

### TcpBridge

`loop()` and the network task share `clients[]`, so `TCPBridge::loop()` is
split at each load of it: `MinSpace` and `MinSpaceAgain` (the two calls of
`space()`), `Read`, `Test`, `Add`, `Send`. A load that finds NULL where the
code goes on to use it restarts the device (`Reset`). `HandleNewClient` and
`HandleDisconnect` are the callbacks; `Close` is the end of a connection that
has not been reported yet. `Retry`, `Provision` and `StopServing` are the rest
of the sketch's loop, in its order. Bytes are counted: a client that has been
sent bytes (`started`) and misses one that was read while it had its slot is
`gapped`.

`tcp_bridge`: two clients, two slots, three bytes a turn, send buffers of four
and a queue of three, any number of attempts to provision over USB. Clients
come, go, come back into another slot, acknowledge and stop reading between any
two accesses. The sizes are the smallest with which `minspace()` can be wrong:
it calls `space()` a second time for a client that has less room than those in
front of it, and if its acknowledgement arrives between the two calls, `min`
ends up above what one in front of it has room for. `add()` then takes only
part of the bytes, and its result is not looked at. So the comment "check if all
sockets can take this data ..." (`TCPBridge.cpp:79`) is not kept: with `NoGap`
as an invariant of the same instance TLC finds a behaviour of 36 steps in which
a connected client misses bytes. `GapNeedsRace` says that this is the only way
to a gap (a history variable, `raced`, says that `min` has grown), whatever else
happens between `minspace()` and the last `add()`. On the device, where `MAXBUF`
is 1024, it takes two clients with less room than that.

`BytesGoOn` and `ServesAgain` are the liveness properties. Fairness: the loop runs; the network task reports what it must, and a client that does not read is
given up by TCP sooner or later (`Settle`); an attempt to join a network that
is there succeeds if tried again and again (strong fairness of `Retry(TRUE)`).
What it does not promise: `BytesGoOn` is stated for connections that stop
ending, for one that ends in every turn holds up the others; clients that a
restarted server has forgotten are sent nothing.

### Fht

The actions `Hook...` are the ways through `fht_hook()`, in program order;
`Wait`, `State`, `LData`, `Offset` and `Shift` stand for what the variables hold behind
the test for another FHT. `Queue` is `fht_addbuf()` behind `fhtsend()`,
`TimerFires` the timer called by `Minute_Task`, `Tick` the interrupt that counts
it down, and past zero if the task did not look. `buf` is the buffer with the
place (`at`) of each message in it, which `fht_delbuf()` moves down. The thermostats
(`Actuator`, `Reply` …) answer as the table in the code expects them to;
everything else they may do is noise: lost, doubled and late answers, reports in
the middle, other participants, a changed house code. A packet reaches its
thermostat or is lost, be it on the air or for lack of transmit credit.

`fht_addbuf()` means to end the list of messages with a zero if there is room for
it, but tests `p`, the beginning of the message, and not `p+j` (`fht.c:686`). A
message that ends where the buffer ends is accepted, and the zero is stored one
byte behind `fht80b_buf`. What lies there is up to the build: `Overruns` stores it
into `fht80b_bufoff` or `fht80b_repeatcnt`, declared on either side of the buffer,
or into something not modelled. A `fht80b_repeatcnt` of 0 costs a repetition. A
`fht80b_bufoff` of 0 lies between two items (`shifted`): the conversation under way
hands over bytes that belong to no item (`Junk`) until it ends or is reset.
`TypeOK` says that the messages, without that zero, are within the buffer, and what
a conversation refers to all the same.

`fht`: two thermostats; messages of one item, of two, and of two with the same
command, two of which are queued; a buffer that holds one long message or two short
ones, and is exactly full with the latter; two pieces of noise; 716 969 states.
That is enough to break off one conversation at any point and disturb the next,
for the buffer to refuse a message and to overrun. `DeletedOnlyWhenHeard` relates
what is deleted to what the thermostat heard; `HandedOver` that every queued
message is delivered once the noise is over. Fairness: the main loop takes what was
received and sees the timer at zero sooner or later (strong fairness, as it may
miss it any number of times), time passes, and a thermostat that something is
queued for goes on reporting. The others need not report, which matters:
a packet of another thermostat resets a conversation that got stuck.

Three kinds of conversation are excepted from `DeletedOnlyWhenHeard`. The code
tells acknowledgements apart by their command only. If two neighbouring items of a
message have the same one, a doubled acknowledgement of the first passes for that
of the second, and the message is deleted before its second item was heard; the
property therefore speaks of `Distinct` messages, while the model queues the others
as well. A conversation whose offset was overwritten (`shifted`) hands over junk
and ends with its message deleted.

The third kind came to light in the attempt to prove the property, and TLC then
showed it in 26 steps (one thermostat, `MaxNoise = 8`): the thermostat has just
heard an item, the host sets the house code, which empties the buffer, and queues a message with an item of the same command; that
item is lost on the air, and the late answer to the old one passes for its
answer. `DeletedOnlyWhenHeard` excepts that by the history variable `broken`: the
thermostats that had heard an item last when the buffer was emptied, until the
next message for them is deleted.

### AvrLoader

`HexFile` reads records and assembles pages, `AvrStreamIsp` is the programmer
with the chip, `AvrLoader` the session and `loop()`. The session is a record;
handler `H` of the source, which is called with `false` to send and with `true`
when its answer is there, is the two operators `SendH` and `OnH`, functions from
a session to the next one. A handler that sends calls the handler that sends
next, as in the code, so one action `HandleH` is one call of `Update()` with an
answer: everything up to the next command. `IspUpdate` is the programmer's
`Update()`, `Loop` what `loop()` does behind the session's. With `job.serial`
the programmer is replaced by a bootloader at the end of a serial line, where a
command or an answer is lost, delayed in its middle, refused or garbled
(`LineFault`), `MaxFaults` times.

Data are words (the code assumes even addresses); a status, a signature or the
content of an address is not garbled into another valid one, because two faults
could then cancel out. LED, SPI delays, `AVRConfig` (this build uses
`SetDummy()` and never reads a file) and commands the session never sends are
left out.

`avr_loader`: nine hex files (several records to a page, a page that begins in
its middle, two banks, two segments, a file that returns to a page, a short, a
cut, a damaged and an empty one), flash and EEPROM, fuses with and without a
bootloader, chips with each fault, and a serial line with three faults and two
retries. Segments have 8 words and pages 4: each boundary is crossed. The
session may time out as soon as it has nothing to read, also while the rest of an
answer is under way, which then arrives behind a session that has failed (28 888
states).

- `SuccessMeansProgrammed`: a session that ends without an error has programmed
  every word of the file, whatever was lost on the way. Pages do get lost
  (`mDataIndex` has moved on when an answer is bad); verification finds them. It is
  stated for the files the loader is made for (`Suits`), see below. And a session
  that was to set fuses and lock bits leaves all of them as configured
  (`SuccessMeansConfigured`), though a fuse may not take what is written.
- `WrongChipIsUntouched`: nothing is erased or written before the signature.
- `GoodSessionSucceeds`: with chip, line and file in order there is no error. A
  file is in order (`SoundFile`) when it is whole, ascending and fits the chip, and
  - `LastPageEnds`: the end record has address 0, so a last page that is the first
    of the segment in force at the end is not padded and the session ends with an
    error; this for the pages written and those verified;
  - `Suits` (see below) and no gap in a page written either;
  - `Written`: every word verified lies in a page that was written. The code reads
    back a bootloader's memory in pages of `SerialPage` words, the EEPROM's too,
    whose own pages are smaller: padding of such a page may lie in an EEPROM page
    nobody wrote, and since a bootloader does not erase the chip something else
    than 0xFF may be there. The session then ends with a verification error
    although all words of the file are in place.
- `SessionEnds`: every session ends and lets go of the reset line. The way round
  it is named (`AwaitsLastStatus`): a bad answer to the last page, or an empty
  file, sends the session in circles between sync and the end of the file.

Fairness: `loop()` runs, and the bootloader answers what reaches it.
`avr_relatch` shows that programming mode is not re-entered behind the fuses,
against the comment in `begin()`.

### RadioModes

The stick is one record `c`: the flags of the protocols (`asksin_on`,
`moritz_on` …), what is to be restored, the credit; and the CC1101, with the
registers that are loaded (`cfg`), MARCSTATE, receive FIFO, level of GDO2 and
the interrupt mask. Functions of the source are operators from a state to the
next (`ccInitChip`, `set_txrestore`, `asksin_send` …), and a command or a task
is one of them applied: a command runs to its end before the main loop goes on.
What ends a busy-wait that never ends is the watchdog (`Boot`, with the chip
left as it is). It is fed in `Minute_Task()`, which `main()` calls, and resets
after two seconds: a telegram that takes longer ends in a reset, too, with the chip
in TX and every receiver off. The parameter `long` of `sendraw`, `SendSlow` and
`SendOneShot` says that it does, and is open, as bit times and what is repeated are
the host's: with repeat 0 `do ... while(--repeat > 0)` goes round 256 times
(`rf_send.c:152`), an `int8_t` never gets to a `sync` (`rf_send.c:138`) or a
`somfy_rts_repetition` (`somfy_rts.c:297`) above 127, and for an `it_repetition`
above 127, which is a `uint16_t` (`intertechno.c:256`), it takes 128 rounds or never
gets there. `Edge` is the interrupt at each edge of GDO2, from the air or because a
task or a strobe emptied the FIFO. `FastRF_Task` is split where an interrupt in it matters.

The chip follows its data sheet as far as the code relies on it: SIDLE leads out
of every state, only SFRX out of an overflow, what follows a packet received or
sent is in the register MCSM1 (`RxOffIdle`, `RxOffRx`, `TxOffRx`). Left out: what telegrams
contain, encryption, checksums, timing of bits, preambles and pauses, the values
of registers, the AskSin update mode. `rwe_send()` is commented out in the
source, so RWE only receives.

`radio_modes`: four commands in any order, among them all those of the host,
one packet in the FIFO, one PLL failure. Credit and integers are scaled down: an
`int8_t` holds -4..3, the credit goes to 2, and messages cost 0, 6 (negative in
an `int8_t`) and 10 (2 in an `int8_t`). A message of 0, with repeat 0, is sent
256 times for nothing. There are 382 787 states. Four commands are a protocol switched
on, one parked, a telegram and the way back; the system stops when they are used
up, hence `CHECK_DEADLOCK FALSE`.

- `ModeComesBack`: who looks after whom. A telegram goes out with the registers
  of its own protocol and leaves the receiver as it was, if it ends before the
  watchdog. Not promised: long telegrams, and "As" with the receiver in overflow,
  after which the stick starts anew with every receiver off; a slow RF
  telegram while RWE, Z-Wave, fast RF, Kopp or AskSin are on leaves them deaf, a
  Moritz telegram leaves Moritz on, a Kopp telegram leaves slow RF deaf, and
  with two receivers on at once only one is restored.
- `HearsAgain`: the tasks find an overflow, an idle chip or a lost PLL lock and
  listen again. `kopp_fc_task()` does not look, and Z-Wave only if GDO2 is high.
- `ZwaveRetries`: three transmissions at most and none behind an
  acknowledgement, for messages sent, repeated and switched over in any order.
- `TypeOK` includes that the credit never wraps although the sum is squeezed
  into an `int8_t`: a negative sum is refused. It does not say that a message
  is paid for: one that wraps to a smaller sum costs that.

Fairness: the main loop calls every task again and again.

## Proofs

`UsbBridge_proofs` proves for every size of queue and FIFO, every length of
stall, every modulus and any number of bytes:

- `TypeCorrect`: `Spec => []TypeOK`, one lemma per group of variables.
- `LossTheorem`: `Spec => LossNeedsLongAbsence`. `TypeOK` is not enough: the
  inductive invariant `AbsenceInv` says that the queue never holds more bytes
  than byte times have passed since the UART was seen empty plus the byte of
  the present one. A byte that finds the queue full then means `away = RxCap`.
- `ConservationTheorem`: `Endless = FALSE => (Spec => []Conservation)`.
- `ChannelTheorem`: `Endless = FALSE => (Spec => BothChannels)`. The inductive
  invariant `OrderInv` says that `last`, the labels in the queue and `sent` are
  strictly increasing in this order. Every step then is one of three moves
  (arrive, leave, stay) of each direction, and each move a step or a stutter of
  `LossyChannel`.

`WebManager_proofs` extends both `OtaUpdate` and `WifiManager`, which is why
`Init`, `Next`, `Spec` and `TypeOK` carry a prefix in these two.

Of `OtaUpdate`, for any number of uploads, whether or not selecting the slot
may fail: `OtaTypeCorrect`, `ImageTheorem` (`RunningImageIntact`),
`NextUploadTheorem` (`NextUploadCanBegin`) and `SuccessTheorem`
(`SuccessRunsUpload`). What is inductive is `OtaInv`: a started upload writes
the slot the firmware does not run from (`WritesOther`), an open update belongs
to the file being received (`OpenUpdate`), and behind a file that was taken the
new image is whole and selected (`TakenIsSelected`).

Of `WifiManager`, for any networks and passwords and any number of power
failures: `WifiTypeCorrect`, `StoredTheorem` (`StoredPairWasTested`),
`AwaitsTheorem` (`UnreachableAwaitsStored`) and `BootTheorem`
(`BootEndsReachable`). `StoredInv` says which half of the pair is already
written at each step of a handler and that the other half follows; `ModeInv`
in which mode and with which target the device waits for a request.

`Culfw_proofs` on the receiver, for buckets of any length and any number of
frames: `RfTypeCorrect` for any number of buckets, from the invariant `CountInv`;
and under the hypothesis `RcvBuckets = 2` (`board.h`) `CommittedTheorem`
(`CommittedUntouched`), `FramesTheorem` (`FramesInOrder`, the refinement of
`LossyChannel`) and `AccountTheorem` (`FramesAccounted`). `Init`, `Next`, `Spec`
and `TypeOK` of `RfReceive` carry a prefix so that both modules can be extended.
`IndexInv` ties the counter to the two indexes with the lag between the accesses
of the task that release a bucket; `OrderInv` numbers the frame decoded last, the
waiting one and the one being collected in this order; `Balance` counts them.

`MqttManager_proofs`, for any brokers, topics and intervals and any number of
saves and faults: `PaceTheorem` (`ConnectPaced`), from an invariant that relates
the age of the last attempt modulo the range of `millis()` to the true one;
`TypeCorrect`; `CoveredTheorem` (`OnlineIsCovered`) and `OnlineTheorem`
(`ConnectedIsOnline`), for which the will of the present session has to be at
the broker the device is connected to, before the announcement and after it.

`TcpBridge_proofs`, for any clients and slots and any sizes of queue, copy buffer
and send buffers: `TypeCorrect` and `GapTheorem` (`GapNeedsRace`). `ScanInv` says
of each slot `minspace()` has passed that the client in it has all its room or
that `min` is not above it unless `raced`; `SendInv` carries this over to the
slots the sending loop has still to come to, and `OwedInv` says that whoever is
owed the bytes last read is in one of these. A client that leaves, comes or
acknowledges in between keeps all three. Before the proof the run of this module
had smaller buffers, and `NoGap` held in it; the invariant the proof asked for
did not.

`Culfw_proofs` on the FHTs, for any thermostats, any size of buffer, any two
times, any amount of noise, and messages of any length, neighbours with the same
command included: `TypeCorrect`, which includes that the messages lie one behind the
other within the buffer, and holds although the zero behind a full buffer may
overwrite the offset or the repetitions; and `DeletedTheorem`
(`DeletedOnlyWhenHeard`), for the messages and conversations that property speaks
of. `CommandAssumption` leaves out items with the code of a packet or 0 for a
command. The invariant follows an item from the buffer to the thermostat and back:

- `Laid`: each message begins where the one before it ends, and the last one
  ends within `BufSize`. Deleting any of them keeps that.
- `Talk`: a conversation has a message, and an item it has got to (`InPlace`), or
  an offset that is at most one behind the last item (`OutOfPlace`).
- `Repeats`: what the timer would send again is that item or a packet of the
  protocol, never an item of a message that is gone.
- `Peers`: a thermostat answers what it heard last (`Answering`), and if that was
  an item it is one of its oldest message, whose items before it have been heard
  (`InOrder`).
- `Progress`: in a conversation the items before the current one have been heard,
  and all of them behind the last one.
- `Spoken`: what is on the air answers what its sender heard last, and END_XMIT
  comes only from one that heard something other than an item last.

`Distinct` is needed where an answer is matched with the item: `InOrder` says the
answer is from this item or one before, and the command must tell which; what it
and `Progress` say of items heard they say only of messages that are `Distinct` and
FHTs not `broken` (`Sure`). `TimeAssumption` asks that a repetition comes no later
than giving up (41 and 95 ticks). TLC checked this invariant with the run's values
and with one thermostat, three messages and six pieces of noise (2.8 million
states).

`RadioModes_proofs`, for any telegrams, any number of commands, packets and
failures and any word size: `TypeCorrect` with the credit that never wraps,
`ZwaveTheorem` (`ZwaveRetries`) and `ModesTheorem` (`ModeComesBack`). The state is
one record with many fields, so each operator of the model has one lemma that says
which fields it may change (`Only`) and what they are afterwards, and each action
is a chain of such steps. The invariant adds to the types:

- `Protocols`: the credit stays between 0 and `MaxCredit`, the Z-Wave and fast RF
  flags have values the code gives them, and fast RF sends only while it is on.
- `Message`: a Z-Wave message waiting for its acknowledgement asked for one,
  is not acknowledged, and has been sent as often as its state says.
- `ParkedModes`: while a receiver is parked by "ir" all other protocols are off
  and InterTechno will restore exactly that one.

That the credit does not wrap rests on `CreditAssumption`: a sum that is negative
as an `int8_t` is, converted to the word it is compared with, larger than any
credit (`SumPaid`). All states of the run satisfy the invariant. `ModesTheorem` has
the property's exceptions: telegrams that end in a reset.

`AvrSession_proofs` and `AvrLoader_proofs`, for any hex file and job, any size of
page and segment, any number of retries and of faults of the line: `Invariance`,
`TypeCorrect`, `WrongChipTheorem` (`WrongChipIsUntouched`), `ConfiguredTheorem`
(`SuccessMeansConfigured`), `ProgrammedTheorem` (`SuccessMeansProgrammed`) and
`GoodSessionTheorem` (`GoodSessionSucceeds`).
The first four are in `AvrSession_proofs`, which `AvrLoader_proofs` extends. The
lemmas about `HexFile`, whose readers are recursive functions, come first there.
That each of them exists, and what it returns, follows from
what one of its steps does (`SkippedType`, `FilledType`) by the least number
principle, which the library proves by well-founded induction: `Iterates` builds
the function, `Stays` carries a property of each step to its end. The reader so
stands within the record it has read (`Placed`), and a page never gets longer
than a page. `TypeOK` is not inductive: a record is read, a page sent or a fuse
verified by the handler the session has left for, which need not find what it
needs. `IInv` adds `Good`: the handler that waits has it (`Fits`: there is a fuse
left to verify, or a file), and at most one command waits, one that programmer
and bootloader know. For a chip with another signature it adds `WrongChip`: the
chip is as it was found, the session has not got past the signature, no answer
under way equals the one it waits for, and only commands that change nothing
wait. TLC checked `IInv` first, with five faults.

For `ConfiguredTheorem` it adds `Configuring`. The stages verify one fuse after
the other and the session may find each of them wrong, write it and ask again;
that it goes on to the next only when the read was a good one rests on four
facts. The fuses of the stages behind are configured (`Behind`: the later writes
are to other fuses, and no command the session sends from then on writes one of
them). The handler that waits belongs to the stage (`StageOf`), so that none
enters a stage past a fuse. What `VerifyFuse()` and `VerifyLockBits()` take for
the answer to a read is one: unless `FuseWriteResponse` says that a write has gone
out before, the command that waits is the read of that fuse (`Question`) and an
answer that is there is its value in the chip (`Answered`). And while
`LeaveProgramMode()` waits the lock bits are locked and only commands that change
can follow. TLC checked `Configuring` on the run's instance before it was
proved.

For the words of the file, the other half of `ProgrammedTheorem`, it adds
`Checking`, which says in which of three parts a session is:

- `Before` verification: whatever has been programmed, verification begins with
  the reader rewound, and nothing but its own command waits.
- `Check`: verifying. Every word the reader has passed is in its place in the
  memory of the target (`InPlace`). The page and the bank of the session are those
  the target has been told, or the command that tells it waits (`AtHand`,
  `ToExtend`, `Announced`). And the bytes on their way to the session are an answer
  to the command that waits: they are stray, or refuse it, or are exactly the page
  the target holds there (`PageAnswer`). So what `VerifiedPage()` compares is the
  part of the file it has loaded with the part of the memory the words belong to.
- `Afterwards`: the reader has reached the end record, every word of the file is
  in its place (`ProgrammedIn`), and no command that writes memory or erases the
  chip follows.

Below it are the lemmas on the readers in `AvrSession_proofs`. `Loaded` says what a
page holds: each word the reader has passed while the page was loaded, at its
offset, and that the reader then stands at the end record, behind the words of the
page or before another page; it is `Holds` carried through the steps of
`LoadPageFromSD()`. `PlaceInBank` says that an address in a bank and a bank are
the place in the memory. The serial line may lose, cut and
garble (`GoesOn`, `Refused`): a late answer is told from the one awaited because an
answer begins with exactly one byte that says so (`Once`).

Three hypotheses of the property come from the attempt to prove it without them;
TLC finds a file for each that breaks the property without it (`Suits`):

- `GapFree` in the pages that are verified, which for the bootloader are those of
  `SerialPage` and not of the chip. `LoadPageFromSD()` closes a gap inside such a
  page, writing and verifying alike.
- `Orderly`: the reader stops at the first end record, and a record that runs over
  the end of its bank is written and read back at the beginning of that bank,
  since the bank is that of its first word.
- `InFirstBank`, unless it is the flash of a chip set up as large. Otherwise no
  bank is ever selected: two records at the same place in two banks and with the
  same content are programmed and verified at one place.

`GoodSessionTheorem` is the other direction: no false alarm. It has to know of
every answer in a session, and not only of the last, that it is the one expected.
Its invariant is `IInv /\ OnCourse`: with everything in order a session either
`Asks` the right thing of the chip as it is, or has been `Told`: it holds the answer
to a command it was right to send, and the chip is as that command left it.

- `Asks` follows the session's parts: `Opening` (sync, device, signature, erase),
  `Configures` (a fuse or the lock bits, with its write before it or not), `Filing`
  (`Announcing` the address or the bank of a page, writing it, or `Comparing` it) and
  `Closing`. Each fixes handler, command and modifiers together.
- `Turns`: the chip answers what is asked with a sync byte and a rest, and whichever
  part of the answer has arrived when the handler runs, the session asks the
  right thing again or ends without an error. There is one lemma for each part, by
  which `Update` and `Bootloader` preserve the invariant.
- `UpTo`: while a file is written, all of the memory below the page in hand is what
  the file says, padding included, and what is above is still erased. Under a
  bootloader, which does not erase, the first holds for pages that were `Touched`
  and the second not at all; that verification asks for nothing else is `Written`.
- `Sized`: commands keep the memories' domains; `ChipAssumption` says they consist of
  whole pages, so that a page begun in the chip ends in it.

The pages themselves come from `FullPage`: on a file in order `LoadPageFromSD()`
returns a whole page, the file's word wherever the file has one and padding
elsewhere, and leaves behind it exactly the words below the end of that page.
`Loaded` alone would not do, as padding has to be right and the reader has to have
missed nothing. Where a last page is padded `EndsPage` needs `LastPageEnds`. The
line is in order as long as it has used none of its faults (`faults = MaxFaults`):
a step that loses or garbles makes `InOrder` false for good.

The attempt corrected the property three times. `LastPageEnds` has to compare with
the segment in force at the end of the file and not with that of the last record,
and `Written` is needed: for each TLC finds a session that fails without it (a
segment record before the end record; pages of 4 words verified in an EEPROM of
pages of 2). And the file has to fit the chip, as the model gives no value to what
is read beyond a memory.

`NoPageAssumption` is the one on page sizes: a page has an even number of words, so
that none begins at the odd address the session uses for "no page yet".

The assumptions are those the modules name; TLC evaluates them in each run. The
ones on model values (`SlotAssumption`, `NoneAssumption`, `ClientAssumption`) say
that there are two different slots and that "no slot", "no value" and NULL are
none of the values. `Endless = FALSE` in `UsbBridge_proofs` only says that
histories are recorded.

Every invariant and every action property of the passing runs is stated by one
of the theorems above. Only model-checked: liveness (`QueuesDrain`, `ComesBack`,
`ComesOnline`, `BucketsAreReleased`, `BytesGoOn`, `ServesAgain`, `HandedOver`,
`SessionEnds` and `HearsAgain`), which is beyond the prover, as is `ENABLED`.

## Not modelled

Texts and pages; the serial monitor, the FHT's valves and window sensors and
the terminal, which the plan below adds; SPI transfers and register values; the
vendor's libraries (external definitions in the map stand for what the code
uses of them); `rf_mbus.c` and `lib/mbus`, which are compiled out, include
headers that are not in the repository and, for `lib/mbus`, are third-party code; the thin
firmwares `TUL/thelsing` and `CUN/AVRISP`, whose logic is in libraries outside
the repository. Stores reordered by the compiler in `RfAnalyze_Task` are not
considered: the model keeps program order.

## Plan

Done: `LossyChannel`; `UsbBridge`, `WifiManager`, `OtaUpdate`, `MqttManager`,
`RfReceive`, `TcpBridge`, `Fht` and `RadioModes`, with proofs of their safety
properties; `AvrLoader`, with proofs of its types, of the chip left untouched and of
what success means for memory, fuses and lock bits, and of no session failing
that is in order.

Next, in this order:

1. `Valves`: the 8v and TF timers and the synchronisation.
2. `SerialLog`: the character ring against an abstract log that keeps the
   newest; `RingBuffer` of the terminal in the same way.
3. The repeat filter of the receiver (`isrep`, `isnotrep`).
