-------------------------------- MODULE Fht --------------------------------
(***************************************************************************)
(* The conversation with FHT80b thermostats, culfw/lib/clib/fht.c: what    *)
(* the host queues for an FHT is held back until the FHT reports, and is   *)
(* then handed over item by item in an ask and reply protocol              *)
(* (fht_hook()), with one repetition by a timer that an interrupt counts   *)
(* down (clock.c) and the main loop looks at (fht80b_timer()).             *)
(*                                                                         *)
(* An FHT reports (ACTUATOR) while it is not talking, and answers each     *)
(* packet it hears.  Everything that goes wrong on the air is counted as   *)
(* noise: a packet or an answer that is lost, an answer that comes twice   *)
(* or late, somebody else in the middle of a conversation, a new house     *)
(* code.  A packet the transmit credit does not allow is a lost one.       *)
(*                                                                         *)
(* fht80b_state is counted in rows of fht80b_state_tbl; the argument of an *)
(* item tells items apart and nothing else.  fht80b_bufoff is counted in   *)
(* items, which are at odd offsets; a message that fills the buffer        *)
(* exactly may move it to an even one (Overruns), between two items, and   *)
(* what is sent from there is Junk.  The other two modes, the valves (8v)  *)
(* and the window sensors (TF), are left out.                              *)
(***************************************************************************)
EXTENDS Naturals, Sequences

CONSTANTS
  Peer,        \* FHT80b thermostats
  NoPeer,
  Command,     \* commands of data items
  Message,     \* the item sequences the host may queue
  BufSize,     \* FHTBUF_SIZE
  RepeatTicks, \* 41, ticks until a packet is repeated
  WaitTicks,   \* 95, ticks until a conversation is given up
  MaxQueued,   \* bound: messages the host queues
  MaxNoise     \* bound: what goes wrong, and changes of the house code

Protocol == {"ACTUATOR", "CAN_XMIT", "CAN_RCV", "START_XMIT", "ACK", "END_XMIT"}
Report == {"TEMPERATURE", "ACK2", "CAN_XMIT", "CAN_RCV", "START_XMIT"}
Item == [cmd : Command, arg : Nat]

Silent == "none"         \* no packet, no command
Junk == "junk"           \* bytes of two items, taken for one
Data == "DATA"           \* FHT_DATA of the table
Foreign == 99            \* FHT_FOREIGN
TimerDisabled == 255     \* FHT_TIMER_DISABLED

ASSUME PeerAssumption == NoPeer \notin Peer
(* fhtsend() takes any bytes for an item.  Items with the code of a packet  *)
(* for a command, and with 0 for a command, are left out.                   *)
ASSUME CommandAssumption == Command \cap (Protocol \cup Report \cup {Silent, Junk}) = {}
ASSUME MessageAssumption == \A m \in Message : m \in Seq(Item) /\ m # <<>>
ASSUME TimeAssumption ==
  /\ RepeatTicks \in Nat \ {0} /\ WaitTicks \in Nat
  /\ RepeatTicks <= WaitTicks /\ WaitTicks < TimerDisabled
ASSUME BoundAssumption ==
  BufSize \in Nat /\ MaxQueued \in Nat /\ MaxNoise \in Nat

VARIABLES
  on,        \* a house code is set
  buf,       \* fht80b_buf: messages [peer, items, at] in the order queued,
             \* each with the place of its first byte
  state, ldata, bufoff, timeout, repeatcnt,   \* fht80b_...
  shifted,   \* fht80b_bufoff is even: byte 2 * bufoff, not 2 * bufoff + 1
  out,       \* fht80b_out: [peer, cmd, arg, talk], talk if it is a step of
             \* a conversation, and does not only acknowledge
  heard,     \* heard[p]: the last packet of a conversation p has heard
  todo,      \* todo[p]: the answer p has yet to send
  air,       \* the message received last, until fht_hook() has taken it
  got,       \* history: items p has heard since its last message was deleted
  broken,    \* history: FHTs that had heard an item last when a new house
             \* code emptied the buffer, until their next message is deleted
  queued, noise

talk == <<state, ldata, bufoff, shifted>>
timer == <<timeout, repeatcnt>>
peers == <<heard, todo, got, broken>>
bounds == <<queued, noise>>
vars == <<on, buf, talk, timer, out, peers, air, bounds>>

Nobody == [peer |-> NoPeer, cmd |-> Silent, arg |-> 0, talk |-> FALSE]
Nothing == [peer |-> NoPeer, cmd |-> Silent, fromFht |-> FALSE, foreign |-> FALSE]

Init ==
  /\ on \in BOOLEAN
  /\ buf = <<>>
  /\ state = 0 /\ ldata = Silent /\ bufoff = 1 /\ shifted = FALSE
  /\ timeout = TimerDisabled /\ repeatcnt = 0
  /\ out = Nobody
  /\ heard = [p \in Peer |-> Silent] /\ todo = [p \in Peer |-> Silent]
  /\ got = [p \in Peer |-> {}] /\ broken = {}
  /\ air = Nothing
  /\ queued = 0 /\ noise = 0

Noise == noise < MaxNoise /\ noise' = noise + 1

-----------------------------------------------------------------------------
(* The buffer.                                                             *)

Size(m) == 3 + 2 * Len(m.items)

(* fht_lookbuf(0): the place behind the last message                       *)
Used == IF buf = <<>> THEN 0 ELSE buf[Len(buf)].at + Size(buf[Len(buf)])

(* fht_lookbuf(): the oldest message for p                                 *)
IsOldest(p, k) == buf[k].peer = p /\ \A j \in 1 .. k - 1 : buf[j].peer # p
Look(p) == {k \in DOMAIN buf : IsOldest(p, k)}
Awaited(p) == Look(p) # {}
Place(p) == CHOOSE k \in Look(p) : TRUE
Oldest(p) == buf[Place(p)].items

(* fht_getbuf(): whether p's message reaches to offset n, and what is there *)
Has(p, n, moved) == Awaited(p) /\ n <= Len(Oldest(p)) + (IF moved THEN 1 ELSE 0)
Get(p, n, moved) == IF moved THEN [cmd |-> Junk, arg |-> 0] ELSE Oldest(p)[n]

(* fht_delbuf(): what is behind the message moves down.                    *)
Moved(m, by) == [m EXCEPT !.at = @ - by]
Deleted(p) ==
  LET k == Place(p) IN
  [j \in 1 .. Len(buf) - 1 |-> IF j < k THEN buf[j] ELSE Moved(buf[j + 1], Size(buf[k]))]

(* Mutant: a message that does not fit is queued all the same.             *)
QueueAlways(p, items) ==
  /\ queued < MaxQueued
  /\ queued' = queued + 1
  /\ buf' = Append(buf, [peer |-> p, items |-> items, at |-> Used])
  /\ UNCHANGED <<on, talk, timer, out, peers, air, noise>>

(* fht_addbuf() ends the list of messages with a zero.  Its test whether   *)
(* there is room for that looks at the wrong pointer, and behind a message *)
(* that ends where the buffer ends the zero is stored one byte behind      *)
(* fht80b_buf: into one of the two variables declared next to it,          *)
(* whichever the build places there, or into one not modelled.             *)
Overruns ==
  /\ UNCHANGED <<state, ldata>>
  /\ \/ bufoff' = 0 /\ shifted' = TRUE /\ UNCHANGED repeatcnt
     \/ repeatcnt' = 0 /\ UNCHANGED <<bufoff, shifted>>
     \/ UNCHANGED <<bufoff, shifted, repeatcnt>>

(* fhtsend(), fht_addbuf(): EOB if the message does not fit.               *)
Queue(p, items) ==
  /\ queued < MaxQueued
  /\ queued' = queued + 1
  /\ LET m == [peer |-> p, items |-> items, at |-> Used] IN
     \/ Used + Size(m) > BufSize /\ UNCHANGED <<buf, talk, repeatcnt>>
     \/ /\ Used + Size(m) <= BufSize
        /\ buf' = Append(buf, m)
        /\ IF Used + Size(m) = BufSize THEN Overruns ELSE UNCHANGED <<talk, repeatcnt>>
  /\ UNCHANGED <<on, timeout, out, peers, air, noise>>

-----------------------------------------------------------------------------
(* Packets.                                                                *)

(* fht80b_reset_state(), without the timer                                 *)
ResetTalk == state' = 0 /\ ldata' = Silent /\ bufoff' = 1 /\ shifted' = FALSE

(* What is on the air reaches its FHT, or is lost.                         *)
Transmit(packet) ==
  \/ /\ packet.talk
     /\ heard' = [heard EXCEPT ![packet.peer] = packet.cmd]
     /\ todo' = [todo EXCEPT ![packet.peer] = packet.cmd]
     /\ got' = IF packet.cmd \in Command
               THEN [got EXCEPT ![packet.peer] = @ \cup {[cmd |-> packet.cmd, arg |-> packet.arg]}]
               ELSE got
     /\ UNCHANGED <<broken, noise>>
  \/ packet.talk /\ Noise /\ UNCHANGED peers
  \/ ~packet.talk /\ UNCHANGED <<peers, noise>>

(* fht80b_send_repeated()                                                  *)
SendRepeated(packet, wait) ==
  /\ Transmit(packet)
  /\ IF packet.cmd = "ACK2"
     THEN repeatcnt' = 0 /\ timeout' = wait
     ELSE repeatcnt' = 1 /\ timeout' = RepeatTicks

SendNothing(ticks) ==
  /\ repeatcnt' = 0 /\ timeout' = ticks
  /\ UNCHANGED <<peers, noise>>

-----------------------------------------------------------------------------
(* fht_hook().  An FHT other than the last one resets the conversation,    *)
(* and the timer with it: Wait, State, LData, Offset and Shift are what    *)
(* the handler goes on with.                                               *)

Same(m) == out.peer = m.peer
Wait(m) == IF Same(m) THEN WaitTicks ELSE TimerDisabled
State(m) == IF Same(m) THEN state ELSE 0
LData(m) == IF Same(m) THEN ldata ELSE Silent
Offset(m) == IF Same(m) THEN bufoff ELSE 1
Shift(m) == Same(m) /\ shifted
Kept(m) == ldata' = LData(m) /\ bufoff' = Offset(m) /\ shifted' = Shift(m)

(* What is copied out of a message that is not answered is never sent.     *)
Unanswered(m) == [Nobody EXCEPT !.peer = m.peer]
Copy(m) == [Unanswered(m) EXCEPT !.cmd = m.cmd]

(* Nothing to say: the handler returns with the state it began with.       *)
Quiet(m) ==
  /\ state' = State(m) /\ Kept(m)
  /\ out' = Unanswered(m)
  /\ SendNothing(Wait(m))
  /\ UNCHANGED buf

HookOff(m) ==
  /\ ~on
  /\ SendNothing(WaitTicks)
  /\ UNCHANGED <<buf, talk, out>>

HookForeign(m) ==
  /\ on /\ State(m) = Foreign
  /\ SendNothing(WaitTicks)
  /\ UNCHANGED <<buf, talk, out>>

(* FHT->CUL: what the FHT says of itself is acknowledged.                  *)
Reports(m) == on /\ m.cmd # "ACTUATOR" /\ State(m) = 0

OfOthers(m) == m.foreign /\ m.cmd \in {"CAN_XMIT", "CAN_RCV", "START_XMIT"}

HookBecomesForeign(m) ==
  /\ Reports(m) /\ OfOthers(m)
  /\ state' = Foreign /\ Kept(m)
  /\ out' = Unanswered(m)
  /\ SendNothing(Wait(m))
  /\ UNCHANGED buf

(* Only packets that say they come from an FHT are acknowledged.           *)
Acknowledged(m) == m.fromFht /\ m.cmd # "CAN_RCV"

HookAcknowledges(m) ==
  /\ Reports(m) /\ ~OfOthers(m) /\ Acknowledged(m)
  /\ state' = 0 /\ Kept(m)
  /\ out' = Copy(m)
  /\ SendRepeated(Copy(m), Wait(m))
  /\ UNCHANGED buf

HookLeaves(m) ==
  /\ Reports(m) /\ ~OfOthers(m) /\ ~Acknowledged(m)
  /\ Quiet(m)

(* CUL->FHT: the next step of the conversation.                            *)
StateTable ==
  << <<"ACTUATOR", "CAN_XMIT">>, <<"CAN_XMIT", Silent>>, <<"CAN_RCV", "START_XMIT">>,
     <<"START_XMIT", Data>>, <<Data, "ACK">>, <<"ACK", "END_XMIT">>, <<"END_XMIT", Silent>> >>
Expected(s) == StateTable[s + 1][1]
Answer(s) == StateTable[s + 1][2]

Converses(m) ==
  /\ on /\ State(m) # Foreign
  /\ m.cmd = "ACTUATOR" \/ State(m) # 0
  /\ Has(m.peer, Offset(m), Shift(m)) \/ State(m) # 0

HookNothingQueued(m) ==
  /\ on /\ m.cmd = "ACTUATOR" /\ State(m) = 0
  /\ ~Has(m.peer, Offset(m), Shift(m))
  /\ Quiet(m)

(* CAN_XMIT of the FHT is often lost: CAN_RCV does as well.                *)
Skips(m) == LData(m) = Silent /\ Expected(State(m)) = "CAN_XMIT" /\ m.cmd = "CAN_RCV"
AtRow(m) == IF Skips(m) THEN State(m) + 1 ELSE State(m)
FitsAnyhow(m) == LData(m) # Silent \/ m.cmd = Expected(AtRow(m))  \* mutant
Fits(m) == m.cmd = IF LData(m) # Silent THEN LData(m) ELSE Expected(AtRow(m))

HookMismatch(m) ==
  /\ Converses(m) /\ ~Fits(m)
  /\ ResetTalk
  /\ out' = Unanswered(m)
  /\ SendNothing(TimerDisabled)
  /\ UNCHANGED buf

SendItem(m, n) ==
  LET item == Get(m.peer, n, Shift(m))
      packet == [peer |-> m.peer, cmd |-> item.cmd, arg |-> item.arg, talk |-> TRUE]
  IN
  /\ ldata' = item.cmd /\ bufoff' = n /\ shifted' = Shift(m)
  /\ out' = packet
  /\ SendRepeated(packet, Wait(m))
  /\ UNCHANGED buf

(* The first item answers START_XMIT, each other one the item before it.   *)
HookItem(m) ==
  /\ Converses(m) /\ Fits(m)
  /\ state' = AtRow(m)
  /\ IF LData(m) # Silent
     THEN Has(m.peer, Offset(m) + 1, Shift(m)) /\ SendItem(m, Offset(m) + 1)
     ELSE Answer(AtRow(m)) = Data /\ SendItem(m, Offset(m))

(* The row whose answer is due; the last item leads over to the next row.  *)
Row(m) == IF LData(m) # Silent THEN AtRow(m) + 1 ELSE AtRow(m)
ItemsLeft(m) == LData(m) # Silent /\ Has(m.peer, Offset(m) + 1, Shift(m))

HookStep(m) ==
  /\ Converses(m) /\ Fits(m)
  /\ ~ItemsLeft(m) /\ Answer(Row(m)) # Data
  /\ Row(m) + 1 < Len(StateTable)
  /\ state' = Row(m) + 1 /\ ldata' = Silent
  /\ bufoff' = IF LData(m) # Silent THEN Offset(m) + 1 ELSE Offset(m)
  /\ shifted' = Shift(m)
  /\ LET packet == [peer |-> m.peer, cmd |-> Answer(Row(m)), arg |-> 0, talk |-> TRUE] IN
     /\ out' = packet
     /\ IF packet.cmd = Silent THEN SendNothing(Wait(m)) ELSE SendRepeated(packet, Wait(m))
  /\ UNCHANGED buf

(* The conversation is over: only now the message is deleted.              *)
HookEnd(m) ==
  /\ Converses(m) /\ Fits(m)
  /\ ~ItemsLeft(m) /\ Row(m) + 1 = Len(StateTable)
  /\ buf' = Deleted(m.peer)
  /\ ResetTalk
  /\ out' = Unanswered(m)
  /\ repeatcnt' = 0 /\ timeout' = TimerDisabled
  /\ got' = [got EXCEPT ![m.peer] = {}]
  /\ broken' = broken \ {m.peer}
  /\ UNCHANGED <<heard, todo, noise>>

Hook(m) ==
  \/ HookOff(m) \/ HookForeign(m)
  \/ HookBecomesForeign(m) \/ HookAcknowledges(m) \/ HookLeaves(m)
  \/ HookNothingQueued(m) \/ HookMismatch(m)
  \/ HookItem(m) \/ HookStep(m) \/ HookEnd(m)

Receive ==
  /\ air # Nothing
  /\ air' = Nothing
  /\ Hook(air)
  /\ UNCHANGED <<on, queued>>

-----------------------------------------------------------------------------
(* The timer.                                                              *)

(* Mutant: giving up stops the timer and keeps the conversation.            *)
TimerFiresHalf ==
  /\ timeout = 0
  /\ IF repeatcnt > 0
     THEN /\ Transmit(out)
          /\ timeout' = RepeatTicks
          /\ repeatcnt' = repeatcnt - 1
          /\ UNCHANGED talk
     ELSE /\ timeout' = TimerDisabled
          /\ UNCHANGED <<talk, repeatcnt, peers, noise>>
  /\ UNCHANGED <<on, buf, out, air, queued>>

(* fht80b_timer(), from the main loop                                      *)
TimerFires ==
  /\ timeout = 0
  /\ IF repeatcnt > 0
     THEN /\ Transmit(out)
          /\ timeout' = RepeatTicks
          /\ repeatcnt' = repeatcnt - 1
          /\ UNCHANGED talk
     ELSE /\ ResetTalk
          /\ timeout' = TimerDisabled
          /\ UNCHANGED <<repeatcnt, peers, noise>>
  /\ UNCHANGED <<on, buf, out, air, queued>>

Talking == air # Nothing \/ \E p \in Peer : todo[p] # Silent

(* The 125 Hz interrupt.  A timer at 0 that the main loop does not see     *)
(* before the next tick counts on into the value that disables it.         *)
Tick ==
  /\ timeout # TimerDisabled
  /\ IF Talking THEN Noise ELSE UNCHANGED noise
  /\ timeout' = IF timeout = 0 THEN TimerDisabled ELSE timeout - 1
  /\ UNCHANGED <<on, buf, talk, repeatcnt, out, peers, air, queued>>

(* fht_init(), when the host sets the house code.                          *)
SetHousecode ==
  /\ Noise
  /\ on' \in BOOLEAN
  /\ buf' = <<>>
  /\ ResetTalk
  /\ timeout' = TimerDisabled
  /\ got' = [p \in Peer |-> {}]
  /\ broken' = broken \cup {p \in Peer : heard[p] \in Command}
  /\ UNCHANGED <<repeatcnt, out, heard, todo, air, queued>>

-----------------------------------------------------------------------------
(* The FHTs.                                                               *)

Says(p, cmd) ==
  /\ air = Nothing
  /\ air' = [peer |-> p, cmd |-> cmd, fromFht |-> TRUE, foreign |-> FALSE]

FhtOnly == UNCHANGED <<on, buf, talk, timer, out, got, broken, queued>>

(* The report that begins a conversation; it comes every 115 seconds, when *)
(* all timers have run out.                                                *)
Actuator(p) ==
  /\ todo[p] = Silent
  /\ Says(p, "ACTUATOR")
  /\ IF Talking \/ timeout # TimerDisabled THEN Noise ELSE UNCHANGED noise
  /\ heard' = [heard EXCEPT ![p] = Silent]
  /\ UNCHANGED todo /\ FhtOnly

(* Other packets with its address, from the FHT or from a foreign FHZ.     *)
Reported(p) ==
  /\ air = Nothing
  /\ Noise
  /\ \E cmd \in Report, fromFht, foreign \in BOOLEAN :
       air' = [peer |-> p, cmd |-> cmd, fromFht |-> fromFht, foreign |-> foreign]
  /\ UNCHANGED <<heard, todo>> /\ FhtOnly

After(cmd) == IF cmd = "CAN_XMIT" THEN "CAN_RCV" ELSE Silent

Reply(p) ==
  /\ todo[p] # Silent
  /\ Says(p, todo[p])
  /\ todo' = [todo EXCEPT ![p] = After(@)]
  /\ UNCHANGED <<heard, noise>> /\ FhtOnly

LoseReply(p) ==
  /\ todo[p] # Silent
  /\ Noise
  /\ todo' = [todo EXCEPT ![p] = After(@)]
  /\ UNCHANGED <<heard, air>> /\ FhtOnly

RepeatReply(p) ==
  /\ heard[p] # Silent
  /\ Noise
  /\ Says(p, heard[p])
  /\ UNCHANGED <<heard, todo>> /\ FhtOnly

Next ==
  \/ \E p \in Peer, items \in Message : Queue(p, items)
  \/ Receive \/ TimerFires \/ Tick \/ SetHousecode
  \/ \E p \in Peer :
       Actuator(p) \/ Reported(p) \/ Reply(p) \/ LoseReply(p) \/ RepeatReply(p)

(* The main loop handles what has been received, and sees a timer at 0     *)
(* more often than not; time passes; an FHT that something is queued for   *)
(* goes on reporting, and FHTs answer.                                     *)
Spec ==
  /\ Init /\ [][Next]_vars
  /\ WF_vars(Receive) /\ SF_vars(TimerFires) /\ WF_vars(Tick)
  /\ \A p \in Peer : SF_vars(Awaited(p) /\ Actuator(p)) /\ WF_vars(Reply(p))

-----------------------------------------------------------------------------
(* Properties.                                                             *)

Said == Command \cup Protocol \cup Report \cup {Silent, Junk}

(* Every variable keeps its type.  The messages lie one behind the other   *)
(* within the buffer, though not the zero behind the last one; a           *)
(* conversation that is under way has a message to hand over, and the item *)
(* it has got to, or what is at the offset it was moved to.                *)
TypeOK ==
  /\ on \in BOOLEAN
  /\ buf \in Seq([peer : Peer, items : Message, at : Nat])
  /\ \A k \in DOMAIN buf :
       buf[k].at = IF k = 1 THEN 0 ELSE buf[k - 1].at + Size(buf[k - 1])
  /\ Used <= BufSize
  /\ state \in {0, 1, 2, 3, 5, 6, Foreign} /\ shifted \in BOOLEAN
  /\ ldata \in Command \cup {Silent, Junk} /\ bufoff \in Nat
  /\ timeout \in 0 .. WaitTicks \cup {TimerDisabled} /\ repeatcnt \in 0 .. 1
  /\ state \notin {0, Foreign} => out.peer \in Peer /\ Awaited(out.peer)
  /\ state \in 1 .. 3 => Has(out.peer, bufoff, shifted)
  /\ ldata # Silent => state = 3
  /\ ~shifted => bufoff # 0
  /\ ldata # Silent /\ ~shifted => ldata = Get(out.peer, bufoff, shifted).cmd
  /\ air # Nothing => air.peer \in Peer
  /\ heard \in [Peer -> Said] /\ todo \in [Peer -> Said]
  /\ got \in [Peer -> SUBSET Item] /\ broken \subseteq Peer
  /\ queued \in 0 .. MaxQueued /\ noise \in 0 .. MaxNoise

Items(items) == {items[k] : k \in DOMAIN items}

(* Neighbours have different commands.                                     *)
Distinct(items) == \A k \in 2 .. Len(items) : items[k - 1].cmd # items[k].cmd

(* A message is deleted when its FHT has heard every item of it, whatever  *)
(* was lost, repeated or answered twice on the way.  Three cases are       *)
(* excepted.  A message with two neighbouring items of one command: the    *)
(* code tells acknowledgements apart by their command alone, and a second  *)
(* one of the former item is taken for that of the latter.  A message      *)
(* whose FHT had just heard an item of a message the code threw away when  *)
(* a new house code came, because its answer may be taken for an answer to *)
(* the new message.  And a conversation whose offset fht_addbuf() has      *)
(* moved, which hands over junk.                                           *)
DeletedOnlyWhenHeard ==
  [][\A p \in Peer :
       /\ Receive /\ Len(buf') < Len(buf) /\ air.peer = p
       /\ Distinct(Oldest(p)) /\ p \notin broken /\ ~shifted
       => Items(Oldest(p)) \subseteq got[p]]_vars

(* Once the air is quiet enough, all that is queued is handed over, however *)
(* conversations have broken off before and whichever timer was missed.    *)
HandedOver == <>[]on => <>[](buf = <<>>)
=============================================================================
