-------------------------------- MODULE WsHub --------------------------------
(***************************************************************************)
(* The WebSocket hub (web/websocket/hub.go) and the two pumps of every     *)
(* connection (web/controller/websocket.go).  One goroutine, Run, selects  *)
(* among the shutdown of its context and three bounded channels; for a     *)
(* broadcast it starts one sender per client and waits for all of them,    *)
(* and a sender that finds its client's buffer full hands the client to    *)
(* the unregister channel, which Run itself has to empty.                  *)
(*                                                                         *)
(* Messages are counted, not told apart.  BroadcastToTopic has no caller   *)
(* and is left out, and with it the senders that run beside Run and may    *)
(* meet a closed channel.                                                  *)
(***************************************************************************)
EXTENDS Naturals, Sequences

CONSTANTS
    Clients,        \* connections, each of which is opened once
    SendCap,        \* 512: the buffer of a client
    BroadcastCap,   \* 2048
    RegisterCap,    \* 100
    UnregisterCap   \* 100

ASSUME CapsAssumption ==
    {SendCap, BroadcastCap, RegisterCap, UnregisterCap} \subseteq Nat \ {0}

VARIABLES
    hub,         \* Run: in its select, waiting for its senders, or returned
    clients,     \* h.clients
    register, unregister,  \* the channels
    broadcast,   \* the number of messages in the channel
    stopped,     \* ctx.Done()
    send,        \* send[c]: the number of messages in client.Send
    closed,      \* the clients whose Send is closed
    sender,      \* sender[c]: the goroutine of the broadcast for c
    link,        \* link[c]: the connection works in both directions
    reader, writer,  \* the pumps of c; a new reader has not called Register yet
    job          \* a caller of Broadcast

hubVars == <<hub, clients, stopped>>
channels == <<register, unregister, broadcast>>
buffers == <<send, closed>>
pumps == <<link, reader, writer>>
vars == <<hubVars, channels, buffers, sender, pumps, job>>

Init ==
    /\ hub = "select" /\ clients = {} /\ stopped = FALSE
    /\ register = <<>> /\ unregister = <<>> /\ broadcast = 0
    /\ send = [c \in Clients |-> 0] /\ closed = {}
    /\ sender = [c \in Clients |-> "none"]
    /\ link = [c \in Clients |-> FALSE]
    /\ reader = [c \in Clients |-> "new"]
    /\ writer = [c \in Clients |-> "new"]
    /\ job = "idle"

-----------------------------------------------------------------------------
(* Run.                                                                    *)

RunStops ==
    /\ hub = "select" /\ stopped
    /\ hub' = "done" /\ clients' = {}
    /\ closed' = closed \cup clients
    /\ UNCHANGED <<stopped, channels, send, sender, pumps, job>>

RunRegisters ==
    /\ hub = "select" /\ register # <<>>
    /\ clients' = clients \cup {Head(register)}
    /\ register' = Tail(register)
    /\ UNCHANGED <<hub, stopped, unregister, broadcast, buffers, sender, pumps, job>>

\* Mutant: the channel of a client that leaves stays open.
RunUnregistersOpen ==
    /\ hub = "select" /\ unregister # <<>>
    /\ clients' = clients \ {Head(unregister)}
    /\ unregister' = Tail(unregister)
    /\ UNCHANGED <<hub, stopped, register, broadcast, buffers, sender, pumps, job>>

\* A client that is not there, or not there yet, is passed over.
RunUnregisters ==
    /\ hub = "select" /\ unregister # <<>>
    /\ clients' = clients \ {Head(unregister)}
    /\ closed' = closed \cup (clients \cap {Head(unregister)})
    /\ unregister' = Tail(unregister)
    /\ UNCHANGED <<hub, stopped, register, broadcast, send, sender, pumps, job>>

\* broadcastParallel starts a sender for every client; both of its forms wait for all.
RunBroadcasts ==
    /\ hub = "select" /\ broadcast > 0
    /\ broadcast' = broadcast - 1
    /\ hub' = IF clients = {} THEN "select" ELSE "wait"
    /\ sender' = [c \in Clients |-> IF c \in clients THEN "send" ELSE "none"]
    /\ UNCHANGED <<clients, stopped, register, unregister, buffers, pumps, job>>

RunGoesOn ==
    /\ hub = "wait" /\ \A c \in Clients : sender[c] = "none"
    /\ hub' = "select"
    /\ UNCHANGED <<clients, stopped, channels, buffers, sender, pumps, job>>

-----------------------------------------------------------------------------
(* The senders of a broadcast.                                             *)

\* Mutant: a message that does not fit is dropped and its client kept.
SenderSendsOrDrops(c) ==
    /\ sender[c] = "send"
    /\ sender' = [sender EXCEPT ![c] = "none"]
    /\ send' = [send EXCEPT ![c] = IF @ < SendCap THEN @ + 1 ELSE @]
    /\ UNCHANGED <<hubVars, channels, closed, pumps, job>>

\* A send that does not wait; a full client is to be disconnected.
SenderSends(c) ==
    LET room == send[c] < SendCap IN
    /\ sender[c] = "send"
    /\ sender' = [sender EXCEPT ![c] = IF room THEN "none" ELSE "leave"]
    /\ send' = [send EXCEPT ![c] = IF room THEN @ + 1 ELSE @]
    /\ UNCHANGED <<hubVars, channels, closed, pumps, job>>

\* Mutant: Unregister does not look at the context.
UnregisterOnly(c) ==
    /\ Len(unregister) < UnregisterCap
    /\ unregister' = Append(unregister, c)

\* Unregister waits for a place in the channel or for the shutdown.
Unregister(c) ==
    \/ /\ Len(unregister) < UnregisterCap
       /\ unregister' = Append(unregister, c)
    \/ stopped /\ UNCHANGED unregister

SenderLeaves(c) ==
    /\ sender[c] = "leave"
    /\ Unregister(c)
    /\ sender' = [sender EXCEPT ![c] = "none"]
    /\ UNCHANGED <<hubVars, register, broadcast, buffers, pumps, job>>

-----------------------------------------------------------------------------
(* Connections.                                                            *)

\* HandleWebSocket after the upgrade: Register waits for a place in the channel or
\* for the shutdown, and the pumps start.
HandleWebSocket(c) ==
    /\ reader[c] = "new"
    /\ \/ Len(register) < RegisterCap /\ register' = Append(register, c)
       \/ stopped /\ UNCHANGED register
    /\ link' = [link EXCEPT ![c] = TRUE]
    /\ reader' = [reader EXCEPT ![c] = "read"]
    /\ writer' = [writer EXCEPT ![c] = "write"]
    /\ UNCHANGED <<hubVars, unregister, broadcast, buffers, sender, job>>

\* The peer closes, or misses its deadline for a pong or a write.
PeerEnds(c) ==
    /\ link[c] /\ link' = [link EXCEPT ![c] = FALSE]
    /\ UNCHANGED <<hubVars, channels, buffers, sender, reader, writer, job>>

\* readPump: ReadMessage fails, then the deferred Unregister and Close.
ReadFails(c) ==
    /\ reader[c] = "read" /\ ~link[c]
    /\ reader' = [reader EXCEPT ![c] = "leave"]
    /\ UNCHANGED <<hubVars, channels, buffers, sender, link, writer, job>>

ReaderLeaves(c) ==
    /\ reader[c] = "leave"
    /\ Unregister(c)
    /\ reader' = [reader EXCEPT ![c] = "done"]
    /\ UNCHANGED <<hubVars, register, broadcast, buffers, sender, link, writer, job>>

\* writePump: a message goes out.
Writes(c) ==
    /\ writer[c] = "write" /\ link[c] /\ send[c] > 0
    /\ send' = [send EXCEPT ![c] = @ - 1]
    /\ UNCHANGED <<hubVars, channels, closed, sender, pumps, job>>

\* A message or a ping cannot be written.
WriteFails(c) ==
    /\ writer[c] = "write" /\ ~link[c]
    /\ send' \in {send, [send EXCEPT ![c] = IF @ > 0 THEN @ - 1 ELSE @]}
    /\ writer' = [writer EXCEPT ![c] = "done"]
    /\ UNCHANGED <<hubVars, channels, closed, sender, link, reader, job>>

\* The hub has closed the channel, and what was in it is written: conn.Close().
WriterCloses(c) ==
    /\ writer[c] = "write" /\ c \in closed /\ send[c] = 0
    /\ writer' = [writer EXCEPT ![c] = "done"]
    /\ link' = [link EXCEPT ![c] = FALSE]
    /\ UNCHANGED <<hubVars, channels, buffers, sender, reader, job>>

-----------------------------------------------------------------------------
(* Callers.                                                                *)

\* Broadcast looks at the number of clients first.
BroadcastBegins ==
    /\ job = "idle" /\ clients # {}
    /\ job' = "send"
    /\ UNCHANGED <<hubVars, channels, buffers, sender, pumps>>

\* The message is queued, dropped when the channel stays full for 100 ms, or given
\* up at the shutdown.
BroadcastEnds ==
    /\ job = "send" /\ job' = "idle"
    /\ \/ broadcast < BroadcastCap /\ broadcast' = broadcast + 1
       \/ (broadcast = BroadcastCap \/ stopped) /\ UNCHANGED broadcast
    /\ UNCHANGED <<hubVars, register, unregister, buffers, sender, pumps>>

Stop ==
    /\ ~stopped /\ stopped' = TRUE
    /\ UNCHANGED <<hub, clients, channels, buffers, sender, pumps, job>>

-----------------------------------------------------------------------------
Run == RunStops \/ RunRegisters \/ RunUnregisters \/ RunBroadcasts \/ RunGoesOn
Sender(c) == SenderSends(c) \/ SenderLeaves(c)
Pump(c) == ReadFails(c) \/ ReaderLeaves(c) \/ Writes(c) \/ WriteFails(c) \/ WriterCloses(c)

Next == \/ Run \/ BroadcastBegins \/ BroadcastEnds \/ Stop
        \/ \E c \in Clients : HandleWebSocket(c) \/ PeerEnds(c) \/ Sender(c) \/ Pump(c)

Spec == Init /\ [][Next]_vars

\* Goroutines run on.  The select of Run chooses at random among what is ready, so
\* a channel that is ready again and again is served: strong fairness, for the two
\* branches that the properties need.  Broadcasts go on, because the traffic job and
\* the status task make one every few seconds as long as the hub has clients.
\* Nothing is assumed of peers, of new connections, or of Stop.
Fairness ==
    /\ SF_vars(RunStops) /\ SF_vars(RunUnregisters)
    /\ WF_vars(RunBroadcasts \/ RunGoesOn)
    /\ WF_vars(BroadcastBegins \/ BroadcastEnds)
    /\ \A c \in Clients :
        /\ WF_vars(Sender(c))
        /\ WF_vars(ReadFails(c) \/ ReaderLeaves(c))
        /\ WF_vars(Writes(c) \/ WriteFails(c) \/ WriterCloses(c))

FairSpec == Spec /\ Fairness

-----------------------------------------------------------------------------
(* Properties.                                                             *)

TypeOK ==
    /\ hub \in {"select", "wait", "done"} /\ stopped \in BOOLEAN /\ job \in {"idle", "send"}
    /\ clients \subseteq Clients /\ closed \subseteq Clients
    /\ register \in Seq(Clients) /\ Len(register) <= RegisterCap
    /\ unregister \in Seq(Clients) /\ Len(unregister) <= UnregisterCap
    /\ broadcast \in 0 .. BroadcastCap
    /\ send \in [Clients -> 0 .. SendCap]
    /\ sender \in [Clients -> {"none", "send", "leave"}]
    /\ link \in [Clients -> BOOLEAN]
    /\ reader \in [Clients -> {"new", "read", "leave", "done"}]
    /\ writer \in [Clients -> {"new", "write", "done"}]

\* Whoever Run waits for, the goroutines that send a broadcast and the ones of them that
\* hand a client to the unregister channel, works for a client that is still in the
\* hub's map, with an open channel; a client in the map is open, and one that is closed
\* has left the map and is not queued to come back, whatever the order in which Run
\* takes its two channels (hub.go:111-141).
HubInv ==
    /\ TypeOK
    /\ \A c \in Clients : sender[c] # "none" => hub = "wait" /\ c \in clients
    /\ closed \cap clients = {}
    /\ \A i \in 1 .. Len(register) : register[i] \notin clients \cup closed
    /\ \A c \in Clients :
        reader[c] = "read" => c \in clients \cup closed \/ stopped
                              \/ \E i \in 1 .. Len(register) : register[i] = c

\* Stop ends Run, also when it waits for senders that wait for Run, and then every
\* client the map has had is disconnected and both its pumps end, none of them left
\* waiting for a channel that nobody empties any more ("Use a local WaitGroup to
\* avoid blocking hub shutdown", hub.go:206; hub.go:101-111).
ShutdownCompletes ==
    stopped ~> /\ hub = "done"
               /\ \A c \in closed : reader[c] = "done" /\ writer[c] = "done"

\* A client whose connection has ended leaves the map, even when Run takes its
\* unregistration before its registration: then broadcasts fill its buffer until a
\* sender hands it over again.  The condition: the unregister channel does not stay
\* full, as it does once Run waits for more full clients than fit in (hub.go:176-196).
DeadIsForgotten ==
    []<>(Len(unregister) < UnregisterCap) =>
        \A c \in Clients : (c \in clients /\ reader[c] = "done") ~> (c \notin clients)

\* "Stop gracefully stops the hub and closes all connections" (hub.go:364).  The code
\* does not keep this: see the known divergences in the README.
StopClosesAllConnections ==
    \A c \in Clients : (stopped /\ reader[c] = "read") ~> (reader[c] # "read")

=============================================================================
