-------------------------- MODULE TcpBridge_proofs --------------------------
(***************************************************************************)
(* Proofs about the TCP bridge for any clients, any number of slots and    *)
(* any sizes of the copy buffer, the send buffers and the receive queue.   *)
(***************************************************************************)
EXTENDS TcpBridge, TLAPS

Outer == {"top", "begin", "retry", "serial", "bridge"}
Scanning == {"space", "space again", "read"}
Sending == {"test", "add", "send"}

(* The parts of the type invariant, by what disturbs them.                 *)
FlagType == network \in BOOLEAN /\ wifi \in BOOLEAN /\ serving \in BOOLEAN
            /\ listening \in BOOLEAN /\ raced \in BOOLEAN
PeerType ==
  /\ clients \in [Slot -> Client \cup {NoClient}]
  /\ \A s, t \in Slot : s # t => clients[s] = NoClient \/ clients[s] # clients[t]
  /\ link \in [Client -> {"none", "open", "gone"}]
  /\ space \in [Client -> 0 .. SndBuf]
LoopType ==
  /\ stored \in {"none", "open", "psk"}
  /\ available \in 0 .. QueueCap
  /\ pc \in Outer \cup Scanning \cup Sending
  /\ i \in Slot /\ av \in 0 .. MaxBuf /\ min \in -1 .. SndBuf
SentType == started \subseteq Client /\ owed \subseteq started /\ gapped \subseteq Client

LEMMA Parts == TypeOK <=> FlagType /\ PeerType /\ LoopType /\ SentType
BY DEF TypeOK, FlagType, PeerType, LoopType, SentType, Outer, Scanning, Sending

-----------------------------------------------------------------------------
(* The inductive invariant.                                                *)

(* Who has a slot has a connection; only who has one was sent bytes and    *)
(* has not acknowledged all of them.                                       *)
LinkInv ==
  /\ \A s \in Slot : clients[s] # NoClient => link[clients[s]] # "none"
  /\ \A c \in Client : link[c] # "open" => c \notin started /\ space[c] = SndBuf

LocalInv ==
  /\ pc \in Scanning => av <= available
  /\ pc = "read" => i = 1
  /\ pc = "space again" => min >= 0

(* The client in slot s was there when minspace() came by and min is what  *)
(* it had room for, at most; or it has come since and has all its room.    *)
Covered(s) ==
  clients[s] # NoClient /\ link[clients[s]] = "open" =>
    \/ clients[s] \notin started /\ space[clients[s]] = SndBuf
    \/ 0 <= min /\ (raced \/ min <= space[clients[s]])

ScanInv == pc \in Scanning => \A s \in Slot : s < i \/ pc = "read" => Covered(s)

(* The loop that sends has still to come to slot s.                        *)
Ahead(s) == pc \in Sending /\ (s > i \/ (s = i /\ pc # "send"))

SendInv ==
  \A s \in Slot :
    Ahead(s) /\ clients[s] # NoClient /\ link[clients[s]] = "open" =>
      raced \/ av <= space[clients[s]]

OwedInv == \A s \in Slot : clients[s] \in owed => Ahead(s)

BridgeInv ==
  PeerType /\ LoopType /\ SentType /\ LinkInv /\ LocalInv /\ ScanInv /\ SendInv /\ OwedInv

LEMMA Sizes ==
  /\ MaxClients \in Nat \ {0} /\ MaxBuf \in Nat \ {0} /\ SndBuf \in Nat /\ SndBuf > MaxBuf
  /\ QueueCap \in Nat \ {0} /\ NoClient \notin Client /\ Slot = 1 .. MaxClients /\ 1 \in Slot
  /\ 0 \in 0 .. MaxBuf /\ 0 \in 0 .. QueueCap /\ -1 \in -1 .. SndBuf /\ SndBuf \in 0 .. SndBuf
BY ClientAssumption, MaxClientsAssumption, BufferAssumption DEF Slot

LEMMA Numbers ==
  ASSUME LoopType
  PROVE  available \in Int /\ av \in Int /\ min \in Int /\ i \in Int
BY Sizes DEF LoopType

LEMMA FlagStep ==
  ASSUME FlagType, [Next]_vars
  PROVE  FlagType'
<1> USE DEF FlagType, wlan, server, locals
<1>1. CASE BeginListening \/ BeginClears \/ Serving \/ StopServing \/ NoRetry \/ NoCommand \/ Idle
           \/ Start \/ Hold \/ Send
  BY <1>1, Zenon DEF BeginListening, BeginClears, Serving, StopServing, NoRetry, NoCommand, Idle,
                     Start, Hold, Send, Onwards, Done, Reset
<1>2. CASE (\E ok \in BOOLEAN : Retry(ok))
           \/ \E k \in {"open", "psk"}, ok \in BOOLEAN : Provision(k, ok)
  BY <1>2, Zenon DEF Retry, Provision
<1>3. CASE MinSpace \/ MinSpaceAgain \/ Read \/ Test \/ Add
  BY <1>3, Zenon DEF MinSpace, MinSpaceAgain, Read, Test, Add, Onwards, Done, Reset
<1>4. CASE NetworkStep \/ Restart
  BY <1>4, Zenon DEF NetworkStep, NetworkFails, NetworkReturns, Receive, Ack, Close, HandleNewClient,
                     HandleDisconnect, Restart, Reset
<1>5. CASE UNCHANGED vars
  BY <1>5, Zenon DEF vars
<1> QED BY <1>1, <1>2, <1>3, <1>4, <1>5 DEF Next, LoopStep

-----------------------------------------------------------------------------
(* The steps.                                                              *)

LEMMA ResetStep ==
  ASSUME Reset, stored \in {"none", "open", "psk"}
  PROVE  BridgeInv'
BY Sizes DEF Reset, BridgeInv, PeerType, LoopType, SentType, LinkInv, LocalInv, ScanInv, SendInv,
             OwedInv, Ahead, Outer, Scanning, Sending

LEMMA QuietStep ==
  ASSUME BridgeInv,
         UNCHANGED <<clients, link, space, i, av, min, raced, started, owed, gapped>>,
         pc' = pc \/ (pc \in Outer /\ pc' \in Outer),
         stored' \in {"none", "open", "psk"},
         available' \in 0 .. QueueCap, available <= available'
  PROVE  BridgeInv'
<1> USE Sizes DEF BridgeInv, Outer, Scanning, Sending
<1>1. PeerType' /\ SentType' /\ LinkInv'
  BY DEF PeerType, SentType, LinkInv
<1>p. pc' \in Outer \cup Scanning \cup Sending
  BY DEF LoopType
<1>t. LoopType'
  BY <1>p DEF LoopType
<1>l. LocalInv'
  <2>1. pc' \in Scanning => pc = pc'
    OBVIOUS
  <2>2. available \in Int /\ available' \in Int
    BY Numbers
  <2>3. av \in Int
    BY Numbers
  <2>4. i' = i /\ av' = av /\ min' = min
    OBVIOUS
  <2>5. av' <= available => av' <= available'
    BY <2>2, <2>3, <2>4
  <2> QED BY <2>1, <2>4, <2>5 DEF LocalInv
<1>2. ScanInv'
  BY DEF ScanInv, Covered
<1>3. SendInv' /\ OwedInv'
  BY DEF SendInv, OwedInv, Ahead
<1> QED BY <1>1, <1>t, <1>l, <1>2, <1>3

LEMMA OuterStep ==
  ASSUME BridgeInv,
         \/ BeginListening \/ Serving \/ StopServing \/ NoRetry \/ NoCommand \/ Idle
         \/ \E ok \in BOOLEAN : Retry(ok)
         \/ \E k \in {"open", "psk"}, ok \in BOOLEAN : Provision(k, ok)
         \/ NetworkFails \/ NetworkReturns \/ Receive \/ UNCHANGED vars
  PROVE  BridgeInv'
<1>1. UNCHANGED <<clients, link, space, i, av, min, raced, started, owed, gapped>>
  BY DEF BeginListening, Serving, StopServing, NoRetry, NoCommand, Idle, Retry, Provision,
         NetworkFails, NetworkReturns, Receive, vars, peers, locals, history
<1>2. pc' = pc \/ (pc \in Outer /\ pc' \in Outer)
  BY DEF BeginListening, Serving, StopServing, NoRetry, NoCommand, Idle, Retry, Provision,
         NetworkFails, NetworkReturns, Receive, vars, GoesTo, Outer
<1>3. stored' \in {"none", "open", "psk"}
  BY DEF BeginListening, Serving, StopServing, NoRetry, NoCommand, Idle, Retry, Provision,
         NetworkFails, NetworkReturns, Receive, vars, wlan, BridgeInv, LoopType
<1>4. available' \in 0 .. QueueCap /\ available <= available'
  BY Sizes DEF BeginListening, Serving, StopServing, NoRetry, NoCommand, Idle, Retry, Provision,
         NetworkFails, NetworkReturns, Receive, vars, wlan, BridgeInv, LoopType
<1> QED BY <1>1, <1>2, <1>3, <1>4, QuietStep

LEMMA AckStep ==
  ASSUME BridgeInv, NEW c \in Client, Ack(c)
  PROVE  BridgeInv'
<1> USE Sizes DEF BridgeInv, Ack, wlan, server, locals, history
<1>1. /\ space' \in [Client -> 0 .. SndBuf]
      /\ \A d \in Client : space'[d] = IF d = c THEN SndBuf ELSE space[d]
  BY DEF PeerType
<1>2. PeerType' /\ LoopType' /\ SentType' /\ LinkInv' /\ LocalInv'
  BY <1>1 DEF PeerType, LoopType, SentType, LinkInv, LocalInv
<1>3. \A s \in Slot : clients[s] # NoClient => space'[clients[s]] >= space[clients[s]]
                                               /\ space'[clients[s]] <= SndBuf
  BY <1>1 DEF PeerType
<1>4. ScanInv'
  BY <1>1, <1>3 DEF ScanInv, Covered, PeerType, LoopType
<1>5. SendInv' /\ OwedInv'
  BY <1>1, <1>3 DEF SendInv, OwedInv, Ahead, PeerType, LoopType
<1> QED BY <1>2, <1>4, <1>5

LEMMA CloseStep ==
  ASSUME BridgeInv, NEW c \in Client, Close(c)
  PROVE  BridgeInv'
<1> USE Sizes DEF BridgeInv, Close, wlan, server, locals
<1>1. /\ space' \in [Client -> 0 .. SndBuf] /\ link' \in [Client -> {"none", "open", "gone"}]
      /\ \A d \in Client \ {c} : space'[d] = space[d] /\ link'[d] = link[d]
      /\ link'[c] = "gone"
  BY DEF PeerType
<1>2. /\ PeerType' /\ LoopType' /\ LocalInv'
      /\ SentType' /\ LinkInv'
  <2>1. PeerType' /\ LoopType' /\ LocalInv'
    <3>1. PeerType'
      BY <1>1 DEF PeerType
    <3>2. LoopType' /\ LocalInv'
      BY DEF LoopType, LocalInv
    <3> QED BY <3>1, <3>2
  <2>2. SentType'
    BY DEF SentType
  <2>3. space'[c] = SndBuf
    BY DEF PeerType
  <2>4. LinkInv'
    BY <1>1, <2>3 DEF PeerType, LinkInv
  <2> QED BY <2>1, <2>2, <2>4
<1>3. \A s \in Slot : clients[s] # NoClient /\ link'[clients[s]] = "open" =>
        /\ clients[s] # c /\ link[clients[s]] = "open" /\ space'[clients[s]] = space[clients[s]]
        /\ clients[s] \in started' => clients[s] \in started
  BY <1>1 DEF PeerType
<1>4. ScanInv'
  BY <1>3 DEF ScanInv, Covered
<1>5. SendInv' /\ OwedInv'
  BY <1>3 DEF SendInv, OwedInv, Ahead
<1> QED BY <1>2, <1>4, <1>5

LEMMA NewClientStep ==
  ASSUME BridgeInv, NEW c \in Client, HandleNewClient(c)
  PROVE  BridgeInv'
<1> USE Sizes DEF BridgeInv, wlan, server, locals, history
<1>1. PICK f \in Slot : FirstFree(f) /\ clients' = [clients EXCEPT ![f] = c]
  BY DEF HandleNewClient
<1>2. /\ link[c] = "none" /\ link' = [link EXCEPT ![c] = "open"]
      /\ UNCHANGED <<stored, space, available, pc, i, av, min, raced, started, owed, gapped>>
  BY DEF HandleNewClient
<1>3. \A s \in Slot : clients[s] # c
  BY <1>2 DEF LinkInv
<1>4. c \notin started /\ c \notin owed
  BY <1>2 DEF LinkInv, SentType
<1>5. /\ clients' \in [Slot -> Client \cup {NoClient}] /\ clients'[f] = c
      /\ \A s \in Slot \ {f} : clients'[s] = clients[s]
      /\ link' \in [Client -> {"none", "open", "gone"}]
      /\ link'[c] = "open" /\ \A d \in Client \ {c} : link'[d] = link[d]
  BY <1>1, <1>2 DEF PeerType
<1>6. PeerType' /\ LoopType' /\ SentType' /\ LinkInv' /\ LocalInv'
  <2>1. PeerType'
    BY <1>2, <1>3, <1>5 DEF PeerType
  <2>2. LoopType' /\ SentType' /\ LocalInv'
    BY <1>2 DEF LoopType, SentType, LocalInv
  <2>3. LinkInv'
    BY <1>2, <1>4, <1>5 DEF LinkInv, PeerType
  <2> QED BY <2>1, <2>2, <2>3
<1>7. space[c] = SndBuf
  BY <1>2 DEF LinkInv
<1>8. ScanInv'
  BY <1>2, <1>3, <1>4, <1>5, <1>7 DEF ScanInv, Covered, PeerType
<1>9. SendInv' /\ OwedInv'
  BY <1>2, <1>3, <1>4, <1>5, <1>7 DEF SendInv, OwedInv, Ahead, PeerType, LoopType
<1> QED BY <1>6, <1>8, <1>9

(* Slots that are emptied take nothing away from the invariant.            *)
LEMMA EmptiedStep ==
  ASSUME BridgeInv,
         clients' \in [Slot -> Client \cup {NoClient}],
         \A s \in Slot : clients'[s] \in {clients[s], NoClient},
         \A c \in Client : /\ space'[c] = space[c]
                           /\ \/ link'[c] = link[c]
                              \/ link'[c] = "none" /\ link[c] = "gone"
                                 /\ \A s \in Slot : clients'[s] # c,
         link' \in [Client -> {"none", "open", "gone"}], space' = space,
         UNCHANGED <<stored, available, i, av, min, raced, started, owed, gapped>>,
         pc' = pc \/ (pc \in Outer /\ pc' \in Outer)
  PROVE  BridgeInv'
<1> USE Sizes DEF BridgeInv, Outer, Scanning, Sending
<1>1. PeerType'
  BY DEF PeerType
<1>2. LoopType' /\ SentType' /\ LocalInv'
  BY DEF LoopType, SentType, LocalInv
<1>3. LinkInv'
  BY DEF PeerType, LinkInv
<1>4. \A s \in Slot : clients'[s] # NoClient /\ link'[clients'[s]] = "open" =>
        clients'[s] = clients[s] /\ link[clients[s]] = "open"
  BY DEF PeerType
<1>5. ScanInv'
  <2>1. ASSUME NEW s \in Slot, Covered(s) PROVE Covered(s)'
    BY <1>4, <2>1, Zenon DEF Covered
  <2>2. pc' \in Scanning => pc' = pc
    OBVIOUS
  <2> QED BY <2>1, <2>2, Zenon DEF ScanInv
<1>6. SendInv'
  <2>1. \A s \in Slot : Ahead(s)' => Ahead(s)
    BY DEF Ahead
  <2> QED BY <1>4, <2>1, Zenon DEF SendInv
<1>7. OwedInv'
  BY DEF OwedInv, Ahead, SentType
<1> QED BY <1>1, <1>2, <1>3, <1>5, <1>6, <1>7

LEMMA DisconnectStep ==
  ASSUME BridgeInv, NEW c \in Client, HandleDisconnect(c)
  PROVE  BridgeInv'
<1>1. /\ clients' = [s \in Slot |-> IF clients[s] = c THEN NoClient ELSE clients[s]]
      /\ link[c] = "gone" /\ link' = [link EXCEPT ![c] = "none"]
      /\ UNCHANGED <<stored, space, available, pc, i, av, min, raced, started, owed, gapped>>
  BY DEF HandleDisconnect, wlan, locals, history
<1>2. /\ clients' \in [Slot -> Client \cup {NoClient}]
      /\ \A s \in Slot : clients'[s] \in {clients[s], NoClient} /\ clients'[s] # c
  BY <1>1, Sizes DEF BridgeInv, PeerType
<1>3. /\ link' \in [Client -> {"none", "open", "gone"}] /\ link'[c] = "none"
      /\ \A d \in Client \ {c} : link'[d] = link[d]
  BY <1>1 DEF BridgeInv, PeerType
<1> QED BY <1>1, <1>2, <1>3, EmptiedStep

LEMMA BeginClearsStep ==
  ASSUME BridgeInv, BeginClears
  PROVE  BridgeInv'
<1>1. /\ clients' = [s \in Slot |-> NoClient]
      /\ UNCHANGED <<stored, link, space, available, i, av, min, raced, started, owed, gapped>>
      /\ pc \in Outer /\ pc' \in Outer
  BY DEF BeginClears, GoesTo, Outer, wlan, peers, locals, history
<1> QED BY <1>1, EmptiedStep DEF BridgeInv, PeerType

-----------------------------------------------------------------------------
(* The turn of loop().                                                     *)

LEMMA NextSlotIs ==
  ASSUME LoopType, NEW phase, NextSlot(phase)
  PROVE  /\ i' \in Slot /\ pc' = phase
         /\ \A s \in Slot : (s < i' => s < i \/ s = i) /\ (s >= i' => s > i)
BY Sizes DEF LoopType, NextSlot

LEMMA LastSlotIs ==
  ASSUME LoopType, i = MaxClients
  PROVE  \A s \in Slot : (s < i \/ s = i) /\ ~(s > i)
BY Sizes DEF LoopType

LEMMA StartNumbers ==
  ASSUME LoopType, Start
  PROVE  min' = -1 /\ av' \in 0 .. MaxBuf /\ av' <= available
BY Sizes DEF Start, Smaller, LoopType

LEMMA StartStep ==
  ASSUME BridgeInv, Start
  PROVE  BridgeInv'
<1> USE Sizes DEF BridgeInv, Outer, Scanning, Sending
<1>1. /\ pc = "bridge" /\ pc' = "space" /\ i' = 1
      /\ UNCHANGED <<stored, clients, link, space, available, started, owed, gapped>>
  BY DEF Start, GoesTo, wlan, peers, history
<1>2. min' = -1 /\ av' \in 0 .. MaxBuf /\ av' <= available
  BY StartNumbers
<1>3. PeerType' /\ SentType' /\ LinkInv'
  BY <1>1 DEF PeerType, SentType, LinkInv
<1>4. LoopType' /\ LocalInv'
  BY <1>1, <1>2 DEF LoopType, LocalInv
<1>5. ScanInv'
  BY <1>1 DEF ScanInv
<1>6. SendInv' /\ OwedInv'
  BY <1>1 DEF SendInv, OwedInv, Ahead
<1> QED BY <1>3, <1>4, <1>5, <1>6

LEMMA SpaceRange ==
  ASSUME PeerType, NEW c \in Client
  PROVE  /\ SpaceOf(c) \in 0 .. SndBuf
         /\ link[c] = "open" => SpaceOf(c) = space[c]
         /\ link[c] # "open" => SpaceOf(c) = 0
BY Sizes DEF PeerType, SpaceOf, Connected

(* The scan has seen to the present slot, and goes on or ends.             *)
LEMMA ScanOn ==
  ASSUME BridgeInv, pc \in {"space", "space again"}, \A s \in Slot : s < i \/ s = i => Covered(s)',
         NextSlot("space") \/ LastSlot("read"),
         UNCHANGED <<stored, clients, link, space, available, av, started, owed, gapped>>,
         min' \in -1 .. SndBuf
  PROVE  BridgeInv'
<1> USE DEF BridgeInv, Outer, Scanning, Sending
<1>1. /\ i' \in Slot /\ pc' \in {"space", "read"} /\ (pc' = "read" => i' = 1)
      /\ \A s \in Slot : s < i' \/ pc' = "read" => s < i \/ s = i
  <2>1. CASE NextSlot("space")
    <3>1. i' \in Slot /\ pc' = "space" /\ \A s \in Slot : s < i' => s < i \/ s = i
      BY <2>1, NextSlotIs, Zenon
    <3> QED BY <3>1, Zenon
  <2>2. CASE LastSlot("read")
    BY <2>2, LastSlotIs, Sizes DEF LastSlot
  <2> QED BY <2>1, <2>2
<1>2. PeerType' /\ SentType' /\ LinkInv'
  BY DEF PeerType, SentType, LinkInv
<1>3. LoopType' /\ LocalInv'
  BY <1>1 DEF LoopType, LocalInv
<1>4. ScanInv'
  BY <1>1 DEF ScanInv
<1>5. SendInv' /\ OwedInv'
  BY <1>1 DEF SendInv, OwedInv, Ahead
<1> QED BY <1>2, <1>3, <1>4, <1>5

(* What min becomes where the client in slot i is asked once, or twice.    *)
LEMMA MinOnce ==
  ASSUME PeerType, LoopType, ~(Listed /\ AsksAgain),
         min' = IF Listed /\ min < 0 THEN SpaceOf(clients[i]) ELSE min
  PROVE  /\ min' \in -1 .. SndBuf
         /\ min >= 0 => min' = min
         /\ clients[i] # NoClient /\ link[clients[i]] = "open" =>
              0 <= min' /\ min' <= space[clients[i]]
<1>1. clients[i] # NoClient => clients[i] \in Client
  BY DEF PeerType, LoopType
<1>2. CASE ~Listed
  BY <1>2 DEF Listed, LoopType
<1>3. CASE Listed
  <2>1. /\ clients[i] \in Client /\ SpaceOf(clients[i]) \in 0 .. SndBuf
        /\ link[clients[i]] = "open" => SpaceOf(clients[i]) = space[clients[i]]
    BY <1>1, <1>3, SpaceRange DEF Listed
  <2> QED BY <1>3, <2>1, Numbers, Sizes DEF AsksAgain, LoopType
<1> QED BY <1>2, <1>3

LEMMA MinSpaceStep ==
  ASSUME BridgeInv, MinSpace
  PROVE  BridgeInv'
<1> USE DEF BridgeInv, Outer, Scanning, Sending
<1>1. /\ pc = "space"
      /\ UNCHANGED <<stored, clients, link, space, available, av, raced, started, owed, gapped>>
  BY DEF MinSpace, wlan, peers, history
<1>2. CASE Listed /\ AsksAgain
  <2>1. pc' = "space again" /\ UNCHANGED <<i, min>> /\ min >= 0
    BY <1>2 DEF MinSpace, AsksAgain
  <2>2. PeerType' /\ SentType' /\ LinkInv' /\ LoopType' /\ LocalInv'
    BY <1>1, <2>1 DEF PeerType, SentType, LinkInv, LoopType, LocalInv
  <2>3. ScanInv'
    BY <1>1, <2>1 DEF ScanInv, Covered
  <2>4. SendInv' /\ OwedInv'
    BY <1>1, <2>1 DEF SendInv, OwedInv, Ahead
  <2> QED BY <2>2, <2>3, <2>4
<1>3. CASE ~(Listed /\ AsksAgain)
  <2>1. /\ NextSlot("space") \/ LastSlot("read")
        /\ min' = IF Listed /\ min < 0 THEN SpaceOf(clients[i]) ELSE min
    BY <1>3 DEF MinSpace
  <2>2. /\ min' \in -1 .. SndBuf
        /\ min >= 0 => min' = min
        /\ clients[i] # NoClient /\ link[clients[i]] = "open" =>
             0 <= min' /\ min' <= space[clients[i]]
    BY <1>3, <2>1, MinOnce
  <2>3. ASSUME NEW s \in Slot, s < i \/ s = i PROVE Covered(s)'
    <3>1. CASE s = i
      BY <1>1, <2>2, <3>1 DEF Covered
    <3>2. CASE s < i
      BY <1>1, <2>2, <3>2, Numbers DEF ScanInv, Covered
    <3> QED BY <2>3, <3>1, <3>2
  <2> QED BY <1>1, <2>1, <2>2, <2>3, ScanOn
<1> QED BY <1>2, <1>3

LEMMA MinTwice ==
  ASSUME PeerType, LoopType, raced \in BOOLEAN, Listed, min' = SpaceOf(clients[i]),
         raced' = (raced \/ min' > min)
  PROVE  /\ min' \in 0 .. SndBuf
         /\ raced => raced'
         /\ ~raced' => min' <= min
         /\ link[clients[i]] = "open" => min' = space[clients[i]]
<1>1. clients[i] \in Client
  BY DEF PeerType, LoopType, Listed
<1>2. min' \in 0 .. SndBuf /\ (link[clients[i]] = "open" => min' = space[clients[i]])
  BY <1>1, SpaceRange
<1>3. (raced => raced') /\ (~raced' => ~(min' > min))
  BY Zenon
<1>4. ~(min' > min) => min' <= min
  BY <1>2, Numbers, Sizes
<1> QED BY <1>2, <1>3, <1>4

LEMMA CoveredIs ==
  ASSUME NEW s \in Slot, UNCHANGED <<clients, link, space, started>>,
         clients[s] # NoClient /\ link[clients[s]] = "open" =>
           \/ clients[s] \notin started /\ space[clients[s]] = SndBuf
           \/ 0 <= min' /\ (raced' \/ min' <= space[clients[s]])
  PROVE  Covered(s)'
BY DEF Covered

LEMMA Between == \A a, b, c \in Int : a <= b /\ b <= c => a <= c
OBVIOUS

LEMMA MinSpaceAgainStep ==
  ASSUME BridgeInv, raced \in BOOLEAN, MinSpaceAgain
  PROVE  BridgeInv'
<1> USE DEF BridgeInv, Outer, Scanning, Sending
<1>1. CASE Listed
  <2>1. /\ pc = "space again" /\ min >= 0
        /\ NextSlot("space") \/ LastSlot("read")
        /\ min' = SpaceOf(clients[i])
        /\ raced' = (raced \/ min' > min)
        /\ UNCHANGED <<stored, clients, link, space, available, av, started, owed, gapped>>
    BY <1>1 DEF MinSpaceAgain, LocalInv, wlan, peers, history
  <2>2. /\ min' \in 0 .. SndBuf
        /\ raced => raced'
        /\ ~raced' => min' <= min
        /\ link[clients[i]] = "open" => min' = space[clients[i]]
    BY <1>1, <2>1, MinTwice
  <2>3. min' >= 0 /\ min' \in -1 .. SndBuf
    BY <2>2, Sizes
  <2>4. ASSUME NEW s \in Slot, s < i \/ s = i PROVE Covered(s)'
    <3>1. CASE s = i
      <4>1. link[clients[s]] = "open" => 0 <= min' /\ min' <= space[clients[s]]
        BY <2>2, <2>3, <3>1, Sizes
      <4> QED BY <2>1, <4>1, CoveredIs, Zenon
    <3>2. CASE s < i
      <4>1. CASE raced'
        BY <2>1, <2>3, <4>1, CoveredIs, Zenon
      <4>2. CASE ~raced'
        <5>1. clients[s] # NoClient => space[clients[s]] \in Int
          BY Sizes DEF PeerType
        <5>2. Covered(s) /\ ~raced /\ min' <= min
          BY <2>1, <2>2, <3>2, <4>2 DEF ScanInv
        <5>3. min \in Int /\ min' \in Int
          BY <2>3, Numbers, Sizes
        <5>4. clients[s] # NoClient /\ link[clients[s]] = "open" =>
                \/ clients[s] \notin started /\ space[clients[s]] = SndBuf
                \/ min' <= space[clients[s]]
          BY <5>1, <5>2, <5>3, Between, Zenon DEF Covered
        <5> QED BY <2>1, <2>3, <5>4, CoveredIs, Zenon
      <4> QED BY <4>1, <4>2
    <3> QED BY <2>4, <3>1, <3>2
  <2> QED BY <2>1, <2>3, <2>4, ScanOn
<1>2. CASE ~Listed
  BY <1>2, ResetStep DEF MinSpaceAgain, LoopType
<1> QED BY <1>1, <1>2

-----------------------------------------------------------------------------
(* The bytes are read and sent.                                            *)

(* The turn may end where no client that has a slot is still owed bytes.   *)
LEMMA TurnEnds ==
  ASSUME BridgeInv, Done("top"), UNCHANGED <<stored, clients, link, space, started>>,
         available' \in 0 .. QueueCap, SentType', \A s \in Slot : clients[s] \notin owed'
  PROVE  BridgeInv'
<1> USE Sizes DEF BridgeInv, Outer, Scanning, Sending, Done
<1>1. PeerType' /\ LoopType' /\ LinkInv' /\ LocalInv'
  <2>1. PeerType' /\ LinkInv'
    BY DEF PeerType, LinkInv
  <2>2. LoopType'
    BY Zenon DEF LoopType
  <2>3. LocalInv'
    BY DEF LocalInv
  <2> QED BY <2>1, <2>2, <2>3
<1>2. ScanInv' /\ SendInv' /\ OwedInv'
  BY DEF ScanInv, SendInv, OwedInv, Ahead
<1> QED BY <1>1, <1>2

LEMMA NoneOwed ==
  ASSUME BridgeInv, pc = "read"
  PROVE  \A s \in Slot : clients[s] \notin owed
BY DEF BridgeInv, OwedInv, Ahead, Sending

LEMMA HoldStep ==
  ASSUME BridgeInv, Hold
  PROVE  BridgeInv'
<1>1. /\ pc = "read" /\ Done("top")
      /\ UNCHANGED <<stored, clients, link, space, available, started, owed, gapped>>
  BY DEF Hold, wlan, peers, history
<1>2. available' \in 0 .. QueueCap /\ SentType'
  BY <1>1 DEF BridgeInv, LoopType, SentType
<1> QED BY <1>1, <1>2, NoneOwed, TurnEnds

LEMMA ReadNumbers ==
  ASSUME LoopType, LocalInv, Read
  PROVE  /\ available' \in 0 .. QueueCap
         /\ min > av => 0 <= min
         /\ ~(min > av) => ~(0 <= min)
         /\ \A n \in Int : min > av /\ min <= n => av <= n
         /\ av <= SndBuf
<1>1. pc = "read" /\ (min < 0 \/ min > av) /\ available' = available - av /\ av <= available
  BY DEF Read, LocalInv, Scanning
<1> QED BY <1>1, Sizes DEF LoopType

LEMMA ReadStep ==
  ASSUME BridgeInv, Read
  PROVE  BridgeInv'
<1> USE DEF BridgeInv
<1>1. /\ pc = "read" /\ i = 1 /\ owed' = started /\ gapped' = gapped \cup owed
      /\ UNCHANGED <<stored, clients, link, space, started>>
  BY DEF Read, LocalInv, wlan, peers
<1>2. available' \in 0 .. QueueCap
  BY ReadNumbers
<1>3. SentType'
  BY <1>1 DEF SentType
<1>4. \A s \in Slot : Covered(s)
  BY <1>1 DEF ScanInv, Scanning
<1>5. CASE min > av
  <2>1. pc' = "test" /\ min' = -1 /\ UNCHANGED <<i, av, raced>>
    BY <1>5 DEF Read
  <2>2. PeerType' /\ LinkInv'
    BY <1>1 DEF PeerType, LinkInv
  <2>3. LoopType' /\ LocalInv'
    BY <1>1, <1>2, <2>1, Sizes DEF LoopType, LocalInv, Sending, Scanning
  <2>4. ScanInv'
    BY <2>1 DEF ScanInv, Scanning
  <2>5. ASSUME NEW s \in Slot, clients[s] # NoClient, link[clients[s]] = "open"
        PROVE  raced \/ av <= space[clients[s]]
    <3>1. space[clients[s]] \in Int
      BY <2>5, Sizes DEF PeerType
    <3>2. CASE space[clients[s]] = SndBuf
      BY <3>2, ReadNumbers, Zenon
    <3>3. CASE raced \/ min <= space[clients[s]]
      BY <1>5, <3>1, <3>3, ReadNumbers, Zenon
    <3> QED BY <1>4, <2>5, <3>2, <3>3, Zenon DEF Covered
  <2>6. SendInv'
    BY <1>1, <2>1, <2>5 DEF SendInv
  <2>7. OwedInv'
    BY <1>1, <2>1, Sizes DEF OwedInv, Ahead, Sending
  <2> QED BY <1>3, <2>2, <2>3, <2>4, <2>6, <2>7
<1>6. CASE ~(min > av)
  <2>1. Done("top")
    BY <1>6 DEF Read
  <2>2. ~(0 <= min)
    BY <1>6, ReadNumbers
  <2>3. \A s \in Slot : clients[s] \notin started
    BY <1>4, <2>2, Sizes, Zenon DEF Covered, LinkInv, SentType
  <2> QED BY <1>1, <1>2, <1>3, <2>1, <2>3, TurnEnds
<1> QED BY <1>5, <1>6

(* On to the next slot, or the end of the turn.                            *)
LEMMA OnwardsStep ==
  ASSUME BridgeInv, pc \in {"test", "send"}, Onwards,
         pc = "test" => clients[i] \notin owed,
         UNCHANGED <<stored, clients, link, space, available, started, owed, gapped>>
  PROVE  BridgeInv'
<1> USE DEF BridgeInv
<1>1. \A s \in Slot : clients[s] \in owed => s > i
  BY DEF OwedInv, Ahead
<1>2. CASE NextSlot("test") /\ UNCHANGED <<av, min, raced>>
  <2>1. i' \in Slot /\ pc' = "test" /\ \A s \in Slot : s >= i' => s > i
    BY <1>2, NextSlotIs, Zenon
  <2>2. \A s \in Slot : (s > i' \/ s = i') => s > i
    BY <2>1, Sizes
  <2>3. \A s \in Slot : s > i => s > i' \/ s = i'
    BY <1>2, Numbers, Sizes DEF NextSlot
  <2>4. PeerType' /\ SentType' /\ LinkInv'
    BY DEF PeerType, SentType, LinkInv
  <2>5. LoopType' /\ LocalInv'
    BY <1>2, <2>1 DEF LoopType, LocalInv, Sending, Scanning
  <2>6. ScanInv'
    BY <2>1 DEF ScanInv, Scanning
  <2>7. SendInv'
    BY <1>2, <2>1, <2>2 DEF SendInv, Ahead, Sending
  <2>8. OwedInv'
    BY <1>1, <2>1, <2>3 DEF OwedInv, Ahead, Sending
  <2> QED BY <2>4, <2>5, <2>6, <2>7, <2>8
<1>3. CASE i = MaxClients /\ Done("top")
  <2>1. \A s \in Slot : clients[s] \notin owed
    BY <1>1, <1>3, LastSlotIs
  <2>2. SentType' /\ available' \in 0 .. QueueCap
    BY DEF SentType, LoopType
  <2> QED BY <1>3, <2>1, <2>2, TurnEnds
<1> QED BY <1>2, <1>3 DEF Onwards

LEMMA TestStep ==
  ASSUME BridgeInv, Test
  PROVE  BridgeInv'
<1> USE DEF BridgeInv
<1>1. /\ pc = "test"
      /\ UNCHANGED <<stored, clients, link, space, available, started, owed, gapped>>
  BY DEF Test, wlan, peers, history
<1>2. CASE Listed /\ Connected(clients[i])
  <2>1. pc' = "add" /\ UNCHANGED <<i, av, min, raced>>
    BY <1>2 DEF Test, locals
  <2>2. PeerType' /\ SentType' /\ LinkInv'
    BY <1>1 DEF PeerType, SentType, LinkInv
  <2>3. LoopType' /\ LocalInv'
    BY <1>1, <2>1 DEF LoopType, LocalInv, Sending, Scanning
  <2>4. ScanInv' /\ SendInv' /\ OwedInv'
    BY <1>1, <2>1 DEF ScanInv, SendInv, OwedInv, Ahead, Sending, Scanning
  <2> QED BY <2>2, <2>3, <2>4
<1>3. CASE ~(Listed /\ Connected(clients[i]))
  <2>1. Onwards
    BY <1>3 DEF Test
  <2>2. i \in Slot /\ clients[i] \in Client \cup {NoClient} /\ owed \subseteq started
        /\ started \subseteq Client /\ NoClient \notin Client
    BY Sizes DEF LoopType, PeerType, SentType
  <2>3. clients[i] \notin owed
    BY <1>3, <2>2 DEF Listed, Connected, LinkInv
  <2> QED BY <1>1, <2>1, <2>3, OnwardsStep
<1> QED BY <1>2, <1>3

LEMMA SendStep ==
  ASSUME BridgeInv, Send
  PROVE  BridgeInv'
<1>1. pc = "send"
  BY DEF Send
<1>2. CASE Listed
  <2>1. Onwards /\ UNCHANGED <<stored, clients, link, space, available, started, owed, gapped>>
    BY <1>2 DEF Send, wlan, peers, history
  <2> QED BY <1>1, <2>1, OnwardsStep
<1>3. CASE ~Listed
  BY <1>3, ResetStep DEF Send, BridgeInv, LoopType
<1> QED BY <1>2, <1>3

(* What add() takes.                                                       *)
LEMMA AddNumbers ==
  ASSUME PeerType, LoopType, NEW c \in Client
  PROVE  LET n == Smaller(av, SpaceOf(c)) IN
         /\ n \in Int
         /\ space[c] - n \in 0 .. SndBuf
         /\ link[c] # "open" => n = 0 /\ ~(n > 0) /\ space[c] - n = space[c]
         /\ link[c] = "open" /\ av <= space[c] => ~(n < av)
<1>1. space[c] \in 0 .. SndBuf /\ av \in 0 .. MaxBuf
  BY DEF PeerType, LoopType
<1>2. CASE link[c] = "open"
  <2>1. SpaceOf(c) = space[c]
    BY <1>2, SpaceRange
  <2> QED BY <1>1, <1>2, <2>1, Sizes DEF Smaller
<1>3. CASE link[c] # "open"
  <2>1. SpaceOf(c) = 0
    BY <1>3, SpaceRange
  <2> QED BY <1>1, <1>3, <2>1, Sizes DEF Smaller
<1> QED BY <1>2, <1>3

LEMMA AddStep ==
  ASSUME BridgeInv, Add
  PROVE  BridgeInv'
<1> USE DEF BridgeInv
<1>1. CASE Listed
  <2> DEFINE c == clients[i]
             n == Smaller(av, SpaceOf(c))
  <2>1. /\ pc = "add" /\ pc' = "send"
        /\ space' = [space EXCEPT ![c] = @ - n]
        /\ started' = IF n > 0 THEN started \cup {c} ELSE started
        /\ owed' = owed \ {c}
        /\ gapped' = IF n < av /\ Connected(c) THEN gapped \cup {c} ELSE gapped
        /\ UNCHANGED <<stored, clients, link, available, i, av, min, raced>>
    BY <1>1 DEF Add, wlan, locals
  <2>2. c \in Client /\ i \in Slot
    BY <1>1 DEF PeerType, LoopType, Listed
  <2>3. /\ space[c] - n \in 0 .. SndBuf
        /\ link[c] # "open" => ~(n > 0) /\ space[c] - n = space[c]
    BY <2>2, AddNumbers
  <2> HIDE DEF n
  <2>4. /\ space' \in [Client -> 0 .. SndBuf] /\ space'[c] = space[c] - n
        /\ \A d \in Client \ {c} : space'[d] = space[d]
    BY <2>1, <2>2, <2>3 DEF PeerType
  <2>5. \A s \in Slot : s # i => clients[s] # c
    BY <1>1, <2>2 DEF PeerType, Listed
  <2> HIDE DEF c
  <2>6. PeerType' /\ LoopType' /\ LocalInv' /\ ScanInv'
    <3>1. PeerType'
      BY <2>1, <2>4 DEF PeerType
    <3>2. LoopType' /\ LocalInv' /\ ScanInv'
      BY <2>1 DEF LoopType, LocalInv, ScanInv, Scanning, Sending
    <3> QED BY <3>1, <3>2
  <2>7. SentType'
    BY <2>1, <2>2 DEF SentType
  <2>8. LinkInv'
    BY <2>1, <2>2, <2>3, <2>4 DEF LinkInv
  <2>9. \A s \in Slot : Ahead(s)' => s # i /\ Ahead(s)
    BY <2>1, <2>2, Sizes DEF Ahead, Sending
  <2>10. SendInv'
    <3>1. \A s \in Slot : Ahead(s)' /\ clients[s] # NoClient =>
            space'[clients[s]] = space[clients[s]]
      BY <2>4, <2>5, <2>9 DEF PeerType
    <3> QED BY <2>1, <2>9, <3>1 DEF SendInv
  <2>11. OwedInv'
    <3>1. \A s \in Slot : clients'[s] \in owed' => s # i /\ Ahead(s)
      BY <2>1 DEF OwedInv, c
    <3> QED BY <2>1, <3>1 DEF OwedInv, Ahead, Sending
  <2> QED BY <2>6, <2>7, <2>8, <2>10, <2>11
<1>2. CASE ~Listed
  BY <1>2, ResetStep DEF Add, LoopType
<1> QED BY <1>1, <1>2

-----------------------------------------------------------------------------
(* The theorems.                                                           *)

LEMMA InitStep ==
  ASSUME Init
  PROVE  BridgeInv /\ FlagType
<1> USE Sizes DEF Init, InitLocals, Outer, Scanning, Sending
<1>1. FlagType
  BY DEF FlagType
<1>2. PeerType
  BY DEF PeerType
<1>3. LoopType
  BY Zenon DEF LoopType
<1>4. SentType /\ LinkInv /\ LocalInv
  BY DEF SentType, LinkInv, LocalInv
<1>5. ScanInv /\ SendInv /\ OwedInv
  BY DEF ScanInv, SendInv, OwedInv, Ahead
<1> QED BY <1>1, <1>2, <1>3, <1>4, <1>5 DEF BridgeInv

LEMMA StepInv ==
  ASSUME BridgeInv, FlagType, [Next]_vars
  PROVE  BridgeInv'
<1>1. CASE \/ BeginListening \/ Serving \/ StopServing \/ NoRetry \/ NoCommand \/ Idle
           \/ \E ok \in BOOLEAN : Retry(ok)
           \/ \E k \in {"open", "psk"}, ok \in BOOLEAN : Provision(k, ok)
           \/ NetworkFails \/ NetworkReturns \/ Receive \/ UNCHANGED vars
  BY <1>1, OuterStep
<1>2. CASE BeginClears \/ Start \/ MinSpace \/ MinSpaceAgain
  BY <1>2, BeginClearsStep, StartStep, MinSpaceStep, MinSpaceAgainStep DEF FlagType
<1>3. CASE Hold \/ Read \/ Test \/ Add \/ Send
  BY <1>3, HoldStep, ReadStep, TestStep, AddStep, SendStep
<1>4. CASE Restart
  BY <1>4, ResetStep DEF Restart, BridgeInv, LoopType
<1>5. ASSUME NEW c \in Client, Ack(c) \/ Close(c) \/ HandleNewClient(c) \/ HandleDisconnect(c)
      PROVE  BridgeInv'
  BY <1>5, AckStep, CloseStep, NewClientStep, DisconnectStep
<1> QED BY <1>1, <1>2, <1>3, <1>4, <1>5 DEF Next, LoopStep, NetworkStep

LEMMA Invariance == Spec => [](BridgeInv /\ FlagType)
<1>1. BridgeInv /\ FlagType /\ [Next]_vars => (BridgeInv /\ FlagType)'
  BY StepInv, FlagStep
<1> QED BY <1>1, InitStep, PTL DEF Spec

(* Every variable of the bridge keeps its type, no client has two slots,   *)
(* and minspace() and the copy loop index slots and take what there is,    *)
(* for any number of clients and slots and any sizes of the buffers.       *)
THEOREM TypeCorrect == Spec => []TypeOK
<1>1. BridgeInv /\ FlagType => TypeOK
  BY Parts DEF BridgeInv
<1> QED BY <1>1, Invariance, PTL

(* A client with a slot misses bytes only where space(), called twice by   *)
(* minspace(), has answered more the second time.                          *)
THEOREM GapTheorem == Spec => GapNeedsRace
<1>1. ASSUME BridgeInv, [Next]_vars, NEW s \in Slot, clients'[s] \in gapped' \ gapped
      PROVE  raced
  <2>1. CASE Read
    <3>1. pc = "read" /\ gapped' = gapped \cup owed /\ clients' = clients
      BY <2>1 DEF Read
    <3> QED BY <1>1, <3>1, NoneOwed
  <2>2. CASE Add
    <3>1. Listed /\ pc = "add" /\ clients' = clients /\ clients'[s] = clients[i]
          /\ Smaller(av, SpaceOf(clients[i])) < av /\ link[clients[i]] = "open"
      BY <1>1, <2>2 DEF Add, Reset, Connected
    <3>2. i \in Slot /\ clients[i] \in Client /\ clients[i] # NoClient
      BY <1>1, <3>1 DEF BridgeInv, PeerType, LoopType, Listed
    <3>3. raced \/ av <= space[clients[i]]
      BY <1>1, <3>1, <3>2 DEF BridgeInv, SendInv, Ahead, Sending
    <3> QED BY <1>1, <3>1, <3>2, <3>3, AddNumbers DEF BridgeInv
  <2>3. CASE gapped' \subseteq gapped
    BY <1>1, <2>3
  <2>4. Read \/ Add \/ gapped' \subseteq gapped
    BY <1>1 DEF Next, LoopStep, NetworkStep, Restart, Reset, vars, history,
         BeginListening, BeginClears, Serving, StopServing, NoRetry, Retry, NoCommand, Provision,
         Idle, Start, MinSpace, MinSpaceAgain, Hold, Test, Send,
         NetworkFails, NetworkReturns, Receive, Ack, Close, HandleNewClient, HandleDisconnect
  <2> QED BY <2>1, <2>2, <2>3, <2>4
<1>2. BridgeInv /\ [Next]_vars => (\A s \in Slot : clients'[s] \in gapped' \ gapped => raced)
  BY <1>1
<1>3. BridgeInv /\ [Next]_vars => [\A s \in Slot : clients'[s] \in gapped' \ gapped => raced]_vars
  BY <1>2
<1> QED BY <1>3, Invariance, PTL DEF Spec, GapNeedsRace
=============================================================================
