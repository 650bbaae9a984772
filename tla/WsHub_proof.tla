---------------------------- MODULE WsHub_proof ----------------------------
(***************************************************************************)
(* WsHub for every set of connections and every capacity of its channels:  *)
(* who waits for the hub is one of its clients, a closed client never      *)
(* comes back, and no live connection is unknown to the hub.               *)
(***************************************************************************)
EXTENDS WsHub, TLAPS

\* TypeOK without the Boolean flag, which is reasoned about by itself.
Typed ==
    /\ hub \in {"select", "wait", "done"} /\ job \in {"idle", "send"}
    /\ clients \subseteq Clients /\ closed \subseteq Clients
    /\ broadcast \in 0 .. BroadcastCap
    /\ send \in [Clients -> 0 .. SendCap]
    /\ sender \in [Clients -> {"none", "send", "leave"}]
    /\ link \in [Clients -> BOOLEAN]
    /\ reader \in [Clients -> {"new", "read", "leave", "done"}]
    /\ writer \in [Clients -> {"new", "write", "done"}]

\* The channels hold clients, no more than their capacity.
Queues ==
    /\ register \in Seq(Clients) /\ Len(register) <= RegisterCap
    /\ unregister \in Seq(Clients) /\ Len(unregister) <= UnregisterCap

\* Senders run only while Run waits for them, for clients of the map.
SendersAwaited ==
    \A c \in Clients : sender[c] # "none" => hub = "wait" /\ c \in clients

\* A client is registered once: nobody is queued twice, or beside the map, or
\* before its connection is handled.
RegisteredOnce ==
    /\ closed \cap clients = {}
    /\ \A i \in 1 .. Len(register) : register[i] \notin clients \cup closed
    /\ \A i, j \in 1 .. Len(register) : register[i] = register[j] => i = j
    /\ \A c \in Clients : reader[c] = "new" =>
          /\ c \notin clients \cup closed
          /\ \A i \in 1 .. Len(register) : register[i] # c

\* A connection that is read is known to the hub, or the hub is being stopped.
ReadIsKnown ==
    \A c \in Clients :
        reader[c] = "read" => c \in clients \cup closed \/ stopped
                              \/ \E i \in 1 .. Len(register) : register[i] = c

\* The inductive invariant.
Inv == stopped \in BOOLEAN /\ Typed /\ Queues /\ SendersAwaited /\ RegisteredOnce /\ ReadIsKnown

USE CapsAssumption

\* It says what HubInv says.
LEMMA InvImplies == Inv => HubInv
  BY Zenon DEF Inv, Typed, Queues, SendersAwaited, RegisteredOnce, ReadIsKnown, HubInv, TypeOK

\* It holds when Run starts.
LEMMA InitInv == Init => Inv
<1> SUFFICES ASSUME Init PROVE Inv
  OBVIOUS
<1>1. stopped \in BOOLEAN
  BY Zenon DEF Init
<1>2. Typed /\ Queues /\ SendersAwaited /\ RegisteredOnce /\ ReadIsKnown
  BY DEF Init, Typed, Queues, SendersAwaited, RegisteredOnce, ReadIsKnown
<1> QED BY <1>1, <1>2 DEF Inv

\* Stop is the only step that changes the flag.
LEMMA StoppedStep == Inv /\ [Next]_vars => stopped' \in BOOLEAN /\ (stopped => stopped')
<1> SUFFICES ASSUME Inv, [Next]_vars PROVE stopped' \in BOOLEAN /\ (stopped => stopped')
  OBVIOUS
<1>1. CASE UNCHANGED stopped
  BY <1>1, Zenon DEF Inv
<1>2. CASE Stop
  BY <1>2, Zenon DEF Stop
<1>3. CASE Run \/ BroadcastBegins \/ BroadcastEnds
  BY <1>1, <1>3, Zenon DEF Run, RunStops, RunRegisters, RunUnregisters, RunBroadcasts, RunGoesOn,
     BroadcastBegins, BroadcastEnds, hubVars
<1>4. ASSUME NEW c \in Clients, HandleWebSocket(c) \/ PeerEnds(c) \/ Sender(c) \/ Pump(c)
      PROVE  stopped' \in BOOLEAN /\ (stopped => stopped')
  BY <1>1, <1>4, Zenon DEF HandleWebSocket, PeerEnds, Sender, SenderSends, SenderLeaves, Pump, ReadFails,
     ReaderLeaves, Writes, WriteFails, WriterCloses, hubVars
<1>5. CASE UNCHANGED vars
  BY <1>1, <1>5, Zenon DEF vars, hubVars
<1> QED BY <1>2, <1>3, <1>4, <1>5, Zenon DEF Next

\* What taking the head of a channel leaves.
LEMMA TailFacts ==
    ASSUME NEW q \in Seq(Clients), q # <<>>
    PROVE  /\ Head(q) \in Clients /\ Head(q) = q[1]
           /\ Tail(q) \in Seq(Clients) /\ Len(q) > 0 /\ Len(Tail(q)) = Len(q) - 1
           /\ \A i \in 1 .. Len(Tail(q)) : Tail(q)[i] = q[i + 1]
  OBVIOUS

\* What a client put into a channel leaves.
LEMMA AppendFacts ==
    ASSUME NEW q \in Seq(Clients), NEW c \in Clients
    PROVE  /\ Append(q, c) \in Seq(Clients) /\ Len(Append(q, c)) = Len(q) + 1
           /\ Append(q, c)[Len(q) + 1] = c
           /\ \A i \in 1 .. Len(q) : Append(q, c)[i] = q[i]
  OBVIOUS
-----------------------------------------------------------------------------
\* What a step owes beside the flag.
Rest == Typed /\ Queues /\ SendersAwaited /\ RegisteredOnce /\ ReadIsKnown

\* A connection that waits in the register channel is in it, or in the map,
\* after Run has taken its head.
LEMMA RegisterKeepsReaders ==
    ASSUME Inv, RunRegisters, stopped => stopped'
    PROVE  ReadIsKnown'
<1>1. /\ Len(register) > 0 /\ Len(register') = Len(register) - 1 /\ Len(register) \in Nat
      /\ Head(register) = register[1]
      /\ \A i \in 1 .. Len(register') : register'[i] = register[i + 1]
  BY TailFacts DEF RunRegisters, Inv, Queues
<1>2. reader' = reader /\ closed' = closed /\ clients' = clients \cup {Head(register)}
  BY DEF RunRegisters, pumps, buffers
<1> SUFFICES ASSUME NEW c \in Clients, reader'[c] = "read",
                    c \notin clients' \cup closed', ~stopped'
             PROVE  \E i \in 1 .. Len(register') : register'[i] = c
  BY Zenon DEF ReadIsKnown
<1>3. PICK i \in 1 .. Len(register) : register[i] = c
  <2>1. reader[c] = "read" /\ c \notin clients \cup closed
    BY <1>2
  <2>2. ~stopped
    BY Zenon
  <2> QED BY <2>1, <2>2, Zenon DEF Inv, ReadIsKnown
<1>4. i # 1
  BY <1>1, <1>2, <1>3
<1>5. i - 1 \in 1 .. Len(register') /\ register'[i - 1] = c
  BY <1>1, <1>3, <1>4
<1> QED BY <1>5

\* A connection that Register has queued is in the channel, as are those before.
LEMMA HandleKeepsReaders ==
    ASSUME Inv, NEW c \in Clients, HandleWebSocket(c), stopped => stopped',
           register' = Append(register, c)
    PROVE  ReadIsKnown'
<1>1. /\ Len(register') = Len(register) + 1 /\ Len(register) \in Nat
      /\ register'[Len(register) + 1] = c
      /\ \A i \in 1 .. Len(register) : register'[i] = register[i]
  BY AppendFacts DEF Inv, Queues
<1>2. reader' = [reader EXCEPT ![c] = "read"] /\ closed' = closed /\ clients' = clients
  BY DEF HandleWebSocket, hubVars, buffers
<1> SUFFICES ASSUME NEW d \in Clients, reader'[d] = "read",
                    d \notin clients' \cup closed', ~stopped'
             PROVE  \E i \in 1 .. Len(register') : register'[i] = d
  BY Zenon DEF ReadIsKnown
<1>3. CASE d = c
  BY <1>1, <1>3
<1>4. CASE d # c
  <2>1. reader[d] = "read" /\ d \notin clients \cup closed
    BY <1>2, <1>4 DEF Inv, Typed
  <2>2. ~stopped
    BY Zenon
  <2>3. PICK i \in 1 .. Len(register) : register[i] = d
    BY <2>1, <2>2, Zenon DEF Inv, ReadIsKnown
  <2> QED BY <1>1, <2>3
<1> QED BY <1>3, <1>4

\* A connection is queued for the first time when it is handled.
LEMMA HandleRegistersOnce ==
    ASSUME Inv, NEW c \in Clients, HandleWebSocket(c), register' = Append(register, c)
    PROVE  RegisteredOnce'
<1>1. /\ Len(register') = Len(register) + 1 /\ Len(register) \in Nat
      /\ register'[Len(register) + 1] = c
      /\ \A i \in 1 .. Len(register) : register'[i] = register[i]
  BY AppendFacts DEF Inv, Queues
<1>2. /\ reader[c] = "new" /\ reader' = [reader EXCEPT ![c] = "read"]
      /\ closed' = closed /\ clients' = clients
  BY DEF HandleWebSocket, hubVars, buffers
<1>3. c \notin clients \cup closed /\ \A i \in 1 .. Len(register) : register[i] # c
  BY <1>2 DEF Inv, RegisteredOnce
<1>4. \A i \in 1 .. Len(register') : i = Len(register) + 1 \/ i \in 1 .. Len(register)
  BY <1>1
<1>5. \A i \in 1 .. Len(register') : register'[i] \notin clients' \cup closed'
  BY <1>1, <1>2, <1>3, <1>4 DEF Inv, RegisteredOnce
<1>6. \A i, j \in 1 .. Len(register') : register'[i] = register'[j] => i = j
  BY <1>1, <1>3, <1>4 DEF Inv, RegisteredOnce
<1>7. ASSUME NEW d \in Clients, reader'[d] = "new"
      PROVE  /\ d \notin clients' \cup closed'
             /\ \A i \in 1 .. Len(register') : register'[i] # d
  <2>1. d # c /\ reader[d] = "new"
    BY <1>2, <1>7 DEF Inv, Typed
  <2> QED BY <1>1, <1>2, <1>4, <2>1 DEF Inv, RegisteredOnce
<1>8. closed' \cap clients' = {}
  BY <1>2 DEF Inv, RegisteredOnce
<1> QED BY <1>5, <1>6, <1>7, <1>8 DEF RegisteredOnce

\* Run: whatever channel it takes next, a client moves from the queue to the
\* map and from the map to the closed ones, never back.
LEMMA RunInv ==
    ASSUME Inv, Run, stopped => stopped'
    PROVE  Rest'
<1> USE DEF Inv, Rest, Typed, Queues, SendersAwaited, RegisteredOnce, ReadIsKnown,
        hubVars, channels, buffers, pumps
<1>1. CASE RunStops
  BY <1>1 DEF RunStops
<1>2. CASE RunRegisters
  <2>1. /\ Head(register) \in Clients /\ Head(register) = register[1]
        /\ register' \in Seq(Clients) /\ Len(register) > 0 /\ Len(register') = Len(register) - 1
        /\ \A i \in 1 .. Len(register') : register'[i] = register[i + 1]
    BY <1>2, TailFacts DEF RunRegisters
  <2>2. Typed' /\ Queues' /\ SendersAwaited'
    BY <1>2, <2>1 DEF RunRegisters
  <2>3. RegisteredOnce'
    BY <1>2, <2>1 DEF RunRegisters
  <2>4. ReadIsKnown'
    BY <1>2, RegisterKeepsReaders
  <2> QED BY <2>2, <2>3, <2>4
<1>3. CASE RunUnregisters
  <2>1. /\ Head(unregister) \in Clients
        /\ unregister' \in Seq(Clients) /\ Len(unregister') = Len(unregister) - 1
    BY <1>3, TailFacts DEF RunUnregisters
  <2> QED BY <1>3, <2>1 DEF RunUnregisters
<1>4. CASE RunBroadcasts
  BY <1>4 DEF RunBroadcasts
<1>5. CASE RunGoesOn
  BY <1>5 DEF RunGoesOn
<1> QED BY <1>1, <1>2, <1>3, <1>4, <1>5 DEF Run

\* Handing a client over keeps the channel within its capacity.
LEMMA UnregisterQueues ==
    ASSUME Inv, NEW c \in Clients, Unregister(c)
    PROVE  unregister' \in Seq(Clients) /\ Len(unregister') <= UnregisterCap
<1>1. CASE UNCHANGED unregister
  BY <1>1 DEF Inv, Queues
<1>2. CASE Len(unregister) < UnregisterCap /\ unregister' = Append(unregister, c)
  BY <1>2, AppendFacts DEF Inv, Queues
<1> QED BY <1>1, <1>2, Zenon DEF Unregister

\* The senders of a broadcast and the pumps of a connection.
LEMMA ClientInv ==
    ASSUME Inv, NEW c \in Clients, PeerEnds(c) \/ Sender(c) \/ Pump(c), stopped => stopped'
    PROVE  Rest'
<1> USE DEF Inv, Rest, Typed, Queues, SendersAwaited, RegisteredOnce, ReadIsKnown,
        hubVars, channels, buffers, pumps
<1>1. CASE PeerEnds(c)
  BY <1>1 DEF PeerEnds
<1>2. CASE SenderSends(c)
  BY <1>2 DEF SenderSends
<1>3. CASE SenderLeaves(c)
  BY <1>3, UnregisterQueues, SMTT(20) DEF SenderLeaves
<1>4. CASE ReadFails(c)
  BY <1>4 DEF ReadFails
<1>5. CASE ReaderLeaves(c)
  BY <1>5, UnregisterQueues DEF ReaderLeaves
<1>6. CASE Writes(c)
  BY <1>6 DEF Writes
<1>7. CASE WriteFails(c)
  BY <1>7 DEF WriteFails
<1>8. CASE WriterCloses(c)
  BY <1>8 DEF WriterCloses
<1> QED BY <1>1, <1>2, <1>3, <1>4, <1>5, <1>6, <1>7, <1>8 DEF Sender, Pump

\* A new connection is queued once, or given up to the shutdown.
LEMMA HandleInv ==
    ASSUME Inv, NEW c \in Clients, HandleWebSocket(c), stopped => stopped'
    PROVE  Rest'
<1> USE DEF Inv, Rest, Typed, Queues, SendersAwaited, RegisteredOnce, ReadIsKnown,
        hubVars, channels, buffers, pumps
<1>1. CASE Len(register) < RegisterCap /\ register' = Append(register, c)
  <2>1. /\ register' \in Seq(Clients) /\ Len(register') = Len(register) + 1
        /\ register'[Len(register) + 1] = c
        /\ \A i \in 1 .. Len(register) : register'[i] = register[i]
    BY <1>1, AppendFacts
  <2>2. Typed' /\ Queues' /\ SendersAwaited'
    BY <1>1, <2>1 DEF HandleWebSocket
  <2>3. RegisteredOnce'
    BY <1>1, HandleRegistersOnce
  <2>4. ReadIsKnown'
    BY <1>1, HandleKeepsReaders
  <2> QED BY <2>2, <2>3, <2>4
<1>2. CASE stopped /\ UNCHANGED register
  BY <1>2 DEF HandleWebSocket
<1> QED BY <1>1, <1>2, Zenon DEF HandleWebSocket

\* Callers of Broadcast and of Stop.
LEMMA CallerInv ==
    ASSUME Inv, BroadcastBegins \/ BroadcastEnds \/ Stop, stopped => stopped'
    PROVE  Rest'
<1> USE DEF Inv, Rest, Typed, Queues, SendersAwaited, RegisteredOnce, ReadIsKnown,
        hubVars, channels, buffers, pumps
<1>1. CASE BroadcastBegins
  BY <1>1 DEF BroadcastBegins
<1>2. CASE BroadcastEnds
  BY <1>2 DEF BroadcastEnds
<1>3. CASE Stop
  BY <1>3 DEF Stop
<1> QED BY <1>1, <1>2, <1>3

\* Every step preserves the inductive invariant.
LEMMA StepInv == Inv /\ [Next]_vars => Inv'
<1> SUFFICES ASSUME Inv, [Next]_vars PROVE Inv'
  OBVIOUS
<1>1. stopped' \in BOOLEAN /\ (stopped => stopped')
  BY StoppedStep
<1>2. CASE UNCHANGED vars
  BY <1>2, Zenon DEF vars, hubVars, channels, buffers, pumps,
     Inv, Typed, Queues, SendersAwaited, RegisteredOnce, ReadIsKnown
<1>3. CASE Next
  BY <1>1, <1>3, RunInv, ClientInv, HandleInv, CallerInv DEF Next, Inv, Rest
<1> QED BY <1>2, <1>3

\* Whoever Run waits for is in its map with an open channel, a closed client
\* is never registered again, and no connection that is read is unknown to the
\* hub, for every number of connections and every channel capacity.
THEOREM HubSafe == Spec => []HubInv
  BY InitInv, StepInv, InvImplies, PTL DEF Spec
=============================================================================
