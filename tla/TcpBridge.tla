----------------------------- MODULE TcpBridge -----------------------------
(***************************************************************************)
(* The TCP bridge: lib/TCPBridge/TCPBridge.cpp between the transceiver's   *)
(* UART and its TCP clients, and loop() of Simple/TCPBridge/src/main.ino,  *)
(* which keeps WiFi up, starts and stops the server and turns the bridge.  *)
(*                                                                         *)
(* Two tasks run: loop(), and the network task of AsyncTCP, which calls    *)
(* the callbacks.  They share clients[] without a lock, so loop() is       *)
(* modelled access by access.  clients[i] is loaded again behind every     *)
(* call; a load that finds NULL where the code goes on to use it panics.   *)
(*                                                                         *)
(* Bytes are counted, not named; what a client has missed is kept in the   *)
(* history variables.  The transceiver may send at any time (one of them   *)
(* has no reset pin).  The web pages are left out: what they change is the *)
(* LED and the request to restart.                                         *)
(***************************************************************************)
EXTENDS Naturals, Integers, FiniteSets

CONSTANTS
  Client,       \* the peers, one connection of each at a time
  NoClient,     \* NULL
  MaxClients,   \* MAX_SRV_CLIENTS, as TCPBridge.cpp is compiled with it
  MaxBuf,       \* MAXBUF, the bytes copied in one turn
  SndBuf,       \* send buffer of a connection
  QueueCap      \* receive queue of the UART

ASSUME ClientAssumption == NoClient \notin Client
ASSUME MaxClientsAssumption == MaxClients \in Nat \ {0}
ASSUME BufferAssumption ==
  MaxBuf \in Nat \ {0} /\ SndBuf \in Nat /\ SndBuf > MaxBuf /\ QueueCap \in Nat \ {0}

Slot == 1 .. MaxClients

VARIABLES
  network,    \* the access point is there
  wifi,       \* WiFi.isConnected()
  stored,     \* credentials in flash: "none", "open" (no password) or "psk"
  serving,    \* Server_running
  listening,  \* AsyncServer listens
  clients,    \* clients[i]
  link,       \* connection of c: "none", "open", or "gone" and not yet reported
  space,      \* free bytes in the send buffer of c
  available,  \* bytes in the queue of the UART
  pc,         \* the next access of loop()
  i, av, min, \* local variables of TCPBridge::loop() and minspace()
  raced,      \* history: min has grown in this turn, between two calls of space()
  started,    \* history: clients that have been sent bytes
  owed,       \* history: those of them the bytes read last are due to
  gapped      \* history: those that have missed bytes

wlan == <<network, wifi, stored>>
server == <<serving, listening>>
peers == <<link, space>>
locals == <<i, av, min, raced>>
history == <<started, owed, gapped>>
vars == <<wlan, server, clients, peers, available, pc, locals, history>>

InitLocals == i = 1 /\ av = 0 /\ min = -1 /\ raced = FALSE

Init ==
  /\ network = FALSE /\ wifi = FALSE
  /\ stored \in {"none", "open", "psk"}
  /\ serving = FALSE /\ listening = FALSE
  /\ clients = [s \in Slot |-> NoClient]
  /\ link = [c \in Client |-> "none"]
  /\ space = [c \in Client |-> SndBuf]
  /\ available = 0
  /\ pc = "top"
  /\ InitLocals
  /\ started = {} /\ owed = {} /\ gapped = {}

(* A restart on request, after an update, by power or by a panic.          *)
Reset ==
  /\ wifi' = FALSE
  /\ serving' = FALSE /\ listening' = FALSE
  /\ clients' = [s \in Slot |-> NoClient]
  /\ link' = [c \in Client |-> "none"]
  /\ space' = [c \in Client |-> SndBuf]
  /\ available' = 0
  /\ pc' = "top"
  /\ i' = 1 /\ av' = 0 /\ min' = -1 /\ raced' = FALSE
  /\ started' = {} /\ owed' = {} /\ gapped' = {}
  /\ UNCHANGED <<network, stored>>

-----------------------------------------------------------------------------
(* What the code depends on.                                               *)

NetworkFails ==
  /\ network
  /\ network' = FALSE /\ wifi' = FALSE
  /\ UNCHANGED <<stored, server, clients, peers, available, pc, locals, history>>

NetworkReturns ==
  /\ ~network
  /\ network' = TRUE
  /\ UNCHANGED <<wifi, stored, server, clients, peers, available, pc, locals, history>>

Receive ==
  /\ available < QueueCap
  /\ available' = available + 1
  /\ UNCHANGED <<wlan, server, clients, peers, pc, locals, history>>

(* The peer acknowledges all it has been sent.                             *)
Ack(c) ==
  /\ wifi
  /\ link[c] = "open"
  /\ space[c] < SndBuf
  /\ space' = [space EXCEPT ![c] = SndBuf]
  /\ UNCHANGED <<wlan, server, clients, link, available, pc, locals, history>>

(* The connection ends: the peer closes it, or TCP gives it up.            *)
Close(c) ==
  /\ link[c] = "open"
  /\ link' = [link EXCEPT ![c] = "gone"]
  /\ space' = [space EXCEPT ![c] = SndBuf]
  /\ started' = started \ {c} /\ owed' = owed \ {c} /\ gapped' = gapped \ {c}
  /\ UNCHANGED <<wlan, server, clients, available, pc, locals>>

-----------------------------------------------------------------------------
(* Callbacks in the network task.                                          *)

FirstFree(s) == clients[s] = NoClient /\ \A t \in 1 .. s - 1 : clients[t] # NoClient

(* A client that finds no slot is closed at once, and leaves no trace.     *)
HandleNewClient(c) ==
  /\ wifi /\ listening
  /\ link[c] = "none"
  /\ \E s \in Slot : FirstFree(s) /\ clients' = [clients EXCEPT ![s] = c]
  /\ link' = [link EXCEPT ![c] = "open"]
  /\ UNCHANGED <<wlan, server, space, available, pc, locals, history>>

(* Mutant: the client is not taken out of its slot.                        *)
HandleDisconnectKeeps(c) ==
  /\ link[c] = "gone"
  /\ link' = [link EXCEPT ![c] = "none"]
  /\ UNCHANGED <<wlan, server, clients, space, available, pc, locals, history>>

HandleDisconnect(c) ==
  /\ link[c] = "gone"
  /\ link' = [link EXCEPT ![c] = "none"]
  /\ clients' = [s \in Slot |-> IF clients[s] = c THEN NoClient ELSE clients[s]]
  /\ UNCHANGED <<wlan, server, space, available, pc, locals, history>>

-----------------------------------------------------------------------------
(* loop(): WiFi and server.                                                *)

GoesTo(from, to) == pc = from /\ pc' = to

(* Bridge.begin() listens first, and empties the slots thereafter.         *)
BeginListening ==
  /\ GoesTo("top", "begin")
  /\ wifi /\ ~serving
  /\ listening' = TRUE
  /\ UNCHANGED <<wlan, serving, clients, peers, available, locals, history>>

BeginClearsUnmarked ==  \* mutant
  /\ GoesTo("begin", "serial")
  /\ clients' = [s \in Slot |-> NoClient]
  /\ UNCHANGED <<wlan, server, peers, available, locals, history>>

BeginClears ==
  /\ GoesTo("begin", "serial")
  /\ clients' = [s \in Slot |-> NoClient]
  /\ serving' = TRUE
  /\ UNCHANGED <<wlan, listening, peers, available, locals, history>>

Serving ==
  /\ GoesTo("top", "serial")
  /\ wifi /\ serving
  /\ UNCHANGED <<wlan, server, clients, peers, available, locals, history>>

(* The WiFi is gone: Bridge.end() stops listening, the clients stay.       *)
StopServing ==
  /\ GoesTo("top", "retry")
  /\ ~wifi
  /\ serving' = FALSE /\ listening' = FALSE
  /\ UNCHANGED <<wlan, clients, peers, available, locals, history>>

(* The credentials in flash are tried every Reconnect_interval, those      *)
(* without a password never.                                               *)
NoRetry ==
  /\ GoesTo("retry", "serial")
  /\ UNCHANGED <<wlan, server, clients, peers, available, locals, history>>

Retry(ok) ==
  /\ GoesTo("retry", "serial")
  /\ stored = "psk"
  /\ wifi' = (ok /\ network)
  /\ UNCHANGED <<network, stored, server, clients, peers, available, locals, history>>

(* improvSerial.handleSerial(): no command, or one with credentials that   *)
(* give up the present connection and are stored once they have worked.    *)
NoCommand ==
  /\ GoesTo("serial", "bridge")
  /\ UNCHANGED <<wlan, server, clients, peers, available, locals, history>>

Provision(credentials, ok) ==
  /\ GoesTo("serial", "bridge")
  /\ wifi' = (ok /\ network)
  /\ stored' = IF wifi' THEN credentials ELSE stored
  /\ UNCHANGED <<network, server, clients, peers, available, locals, history>>

-----------------------------------------------------------------------------
(* TCPBridge::loop() and minspace().                                       *)

Idle ==
  /\ GoesTo("bridge", "top")
  /\ available = 0
  /\ UNCHANGED <<wlan, server, clients, peers, available, locals, history>>

Smaller(m, n) == IF m < n THEN m ELSE n

Start ==
  /\ GoesTo("bridge", "space")
  /\ available > 0
  /\ i' = 1 /\ min' = -1
  /\ av' = Smaller(available, MaxBuf)
  /\ UNCHANGED <<wlan, server, clients, peers, available, raced, history>>

(* On to the next slot within the phase, or out of the last one.  The      *)
(* local variables are put back once they are dead.                        *)
Done(out) ==
  /\ pc' = out
  /\ i' = 1 /\ av' = 0 /\ min' = -1 /\ raced' = FALSE

NextSlot(phase) == i < MaxClients /\ i' = i + 1 /\ pc' = phase

LastSlot(out) == i = MaxClients /\ i' = 1 /\ pc' = out

Listed == clients[i] # NoClient
Connected(c) == link[c] = "open"
SpaceOf(c) == IF Connected(c) THEN space[c] ELSE 0

(* clients[i]->space(): the first client sets min, a smaller one is asked  *)
(* again.  The pointer tested against NULL is still at hand for this call. *)
NeverAsksAgain == FALSE  \* mutant
AsksAgain == min >= 0 /\ SpaceOf(clients[i]) < min

MinSpace ==
  /\ pc = "space"
  /\ IF Listed /\ AsksAgain
     THEN pc' = "space again" /\ UNCHANGED <<i, min>>
     ELSE /\ NextSlot("space") \/ LastSlot("read")
          /\ min' = IF Listed /\ min < 0 THEN SpaceOf(clients[i]) ELSE min
  /\ UNCHANGED <<wlan, server, clients, peers, available, av, raced, history>>

MinSpaceAgain ==
  /\ pc = "space again"
  /\ IF Listed
     THEN /\ NextSlot("space") \/ LastSlot("read")
          /\ min' = SpaceOf(clients[i])
          /\ raced' = (raced \/ min' > min)
          /\ UNCHANGED <<wlan, server, clients, peers, available, av, history>>
     ELSE Reset

(* Some client has no room: the bytes stay in the queue.                   *)
Hold ==
  /\ pc = "read"
  /\ 0 <= min /\ min <= av
  /\ Done("top")
  /\ UNCHANGED <<wlan, server, clients, peers, available, history>>

(* Without a client the bytes are read all the same.                       *)
Read ==
  /\ pc = "read"
  /\ min < 0 \/ min > av
  /\ available' = available - av
  /\ gapped' = gapped \cup owed
  /\ owed' = started
  /\ IF min > av
     THEN pc' = "test" /\ min' = -1 /\ UNCHANGED <<i, av, raced>>
     ELSE Done("top")
  /\ UNCHANGED <<wlan, server, clients, peers, started>>

Onwards ==
  \/ NextSlot("test") /\ UNCHANGED <<av, min, raced>>
  \/ i = MaxClients /\ Done("top")

Test ==
  /\ pc = "test"
  /\ IF Listed /\ Connected(clients[i])
     THEN pc' = "add" /\ UNCHANGED locals
     ELSE Onwards
  /\ UNCHANGED <<wlan, server, clients, peers, available, history>>

(* add() takes what the send buffer has room for.                          *)
Add ==
  /\ pc = "add"
  /\ IF Listed
     THEN LET c == clients[i]
              n == Smaller(av, SpaceOf(c))
          IN
          /\ pc' = "send"
          /\ space' = [space EXCEPT ![c] = @ - n]
          /\ started' = IF n > 0 THEN started \cup {c} ELSE started
          /\ owed' = owed \ {c}
          /\ gapped' = IF n < av /\ Connected(c) THEN gapped \cup {c} ELSE gapped
          /\ UNCHANGED <<wlan, server, clients, link, available, locals>>
     ELSE Reset

Send ==
  /\ pc = "send"
  /\ IF Listed
     THEN Onwards /\ UNCHANGED <<wlan, server, clients, peers, available, history>>
     ELSE Reset

-----------------------------------------------------------------------------
LoopStep ==
  \/ BeginListening \/ BeginClears \/ Serving \/ StopServing
  \/ NoRetry \/ \E ok \in BOOLEAN : Retry(ok)
  \/ NoCommand \/ \E k \in {"open", "psk"}, ok \in BOOLEAN : Provision(k, ok)
  \/ Idle \/ Start \/ MinSpace \/ MinSpaceAgain \/ Hold \/ Read
  \/ Test \/ Add \/ Send

NetworkStep ==
  \/ NetworkFails \/ NetworkReturns \/ Receive
  \/ \E c \in Client : Ack(c) \/ Close(c) \/ HandleNewClient(c) \/ HandleDisconnect(c)

Restart == Reset

Next == LoopStep \/ NetworkStep \/ Restart

(* What a client has been sent is acknowledged or its connection ends, and *)
(* either is reported; both tasks run; the retry interval ends, and an     *)
(* attempt at a network that is there works at some time.                  *)
Settle(c) == Ack(c) \/ (space[c] < SndBuf /\ Close(c))

Spec ==
  /\ Init /\ [][Next]_vars
  /\ WF_vars(LoopStep)
  /\ SF_vars(Retry(TRUE))
  /\ \A c \in Client : WF_vars(Settle(c)) /\ WF_vars(HandleDisconnect(c))

-----------------------------------------------------------------------------
(* Properties.                                                             *)

(* Every variable keeps its type, no client has two slots, and the copy    *)
(* never takes more out of the queue than there is.                        *)
TypeOK ==
  /\ network \in BOOLEAN /\ wifi \in BOOLEAN
  /\ stored \in {"none", "open", "psk"}
  /\ serving \in BOOLEAN /\ listening \in BOOLEAN
  /\ clients \in [Slot -> Client \cup {NoClient}]
  /\ \A s, t \in Slot : s # t => clients[s] = NoClient \/ clients[s] # clients[t]
  /\ link \in [Client -> {"none", "open", "gone"}]
  /\ space \in [Client -> 0 .. SndBuf]
  /\ available \in 0 .. QueueCap
  /\ pc \in {"top", "begin", "retry", "serial", "bridge", "space", "space again",
             "read", "test", "add", "send"}
  /\ i \in Slot /\ av \in 0 .. MaxBuf /\ min \in -1 .. SndBuf /\ raced \in BOOLEAN
  /\ started \subseteq Client /\ owed \subseteq started /\ gapped \subseteq Client

(* "check if all sockets can take this data": once a client has been sent  *)
(* a byte, it is sent every byte of the transceiver as long as it has its  *)
(* slot.  The code does not achieve this: min may grow between two calls   *)
(* of space().                                                             *)
NoGap == \A s \in Slot : clients[s] \notin gapped

(* That is the only way to a gap.  min is taken earlier than the bytes are *)
(* added, from clients that may have left, come, changed slots or          *)
(* acknowledged since; add() finds too little room for one of them only if *)
(* space(), called a second time for a client that had little, answered    *)
(* more than for the clients in front of it.                               *)
GapNeedsRace == [][\A s \in Slot : clients'[s] \in gapped' \ gapped => raced]_vars

(* A client that stops reading holds up the others only until it goes on   *)
(* or TCP gives it up: once connections have stopped ending, the copy goes *)
(* on as long as there are bytes.  (One that ends in every turn, between   *)
(* two calls of space(), does hold up the others for ever.)                *)
BytesGoOn ==
  <>[](\A c \in Client : link[c] # "gone")
    => []<>(available = 0) \/ []<><<Read>>_vars

(* A device with a stored password serves again, whatever has happened, as *)
(* soon as its network stays, nothing restarts it and no command over USB  *)
(* takes its WiFi away.                                                    *)
ServesAgain ==
  /\ <>[](network /\ stored = "psk")
  /\ <>[][~ Reset /\ (pc = "serial" => UNCHANGED wlan)]_vars
  => []<>serving
=============================================================================
