------------------------------ MODULE Reliable ------------------------------
(***************************************************************************)
(* The reliability layer of the OpenVPN control channel                    *)
(* (core/proxy/openvpn/ovpn/reliable): two Layers, one per end of a key    *)
(* state, over a network that loses, repeats and reorders packets.         *)
(*                                                                         *)
(* A Layer numbers and queues what its owner sends, puts at most a window  *)
(* of it on the wire, retransmits until acknowledged, acknowledges and     *)
(* reorders what arrives and delivers it in order once.  Clocks are        *)
(* abstracted to a choice, made at each Poll, of the messages whose        *)
(* retransmission timeout has passed.                                      *)
(***************************************************************************)
EXTENDS Integers, Sequences, FiniteSets, Functions

CONSTANTS
    Client, Server,              \* the two ends
    ClientSends, ServerSends,    \* bounds on the messages each owner sends
    SendWindow, RecvWindow,      \* Options
    MaxAcksPerPacket, RecentAcks,
    MaxPending,                  \* maxPending: acks held between two Polls
    MaxOdd                       \* bound: how often the network repeats a packet
                                 \*   or delays some past the sender's next Poll

(* SendWindow <= RecvWindow holds of the defaults (6 and 12) and of what   *)
(* OpenVPN peers use; the code does not enforce it.  New makes maxPending  *)
(* at least 64 and at least twice RecvWindow.                              *)
ASSUME OptionsAssumption ==
    /\ Client # Server
    /\ {ClientSends, ServerSends, MaxOdd} \subseteq Nat
    /\ {SendWindow, MaxAcksPerPacket, MaxPending} \subseteq Nat \ {0}
    /\ RecvWindow \in Nat /\ SendWindow <= RecvWindow
    /\ SendWindow <= MaxPending
    /\ RecentAcks \in 0..MaxAcksPerPacket

Peers == {Client, Server}
Other(p) == IF p = Client THEN Server ELSE Client
MaxSend(p) == IF p = Client THEN ClientSends ELSE ServerSends

None == -1                       \* no id: an empty ring slot, a P_ACK_V1

VARIABLES
    out,      \* out[p]: messages not yet retired; out[p][i] has id base+i-1
    base,     \* id of the oldest one
    nsent,    \* how many of out[p] have been on the wire
    next,     \* id to deliver next
    ring,     \* messages buffered ahead of next, at id % RecvWindow
    acks,     \* ids to acknowledge, oldest first
    recent,   \* acks sent most recently, with their places, the newest at 1
    net,      \* net[p]: packets on their way to p
    odd,      \* repetitions and delays so far
    sent,     \* owner's view: number of messages sent
    got       \* owner's view: messages received

vars == <<out, base, nsent, next, ring, acks, recent, net, odd,
          sent, got>>

Slots == 0..(RecvWindow - 1)
Empty == [id |-> None, pay |-> 0]

Init ==
    /\ out = [p \in Peers |-> <<>>]
    /\ base = [p \in Peers |-> 0]
    /\ nsent = [p \in Peers |-> 0]
    /\ next = [p \in Peers |-> 0]
    /\ ring = [p \in Peers |-> [s \in Slots |-> Empty]]
    /\ acks = [p \in Peers |-> <<>>]
    /\ recent = [p \in Peers |-> [id \in {} |-> 0]]
    /\ net = [p \in Peers |-> {}]
    /\ odd = 0
    /\ sent = [p \in Peers |-> 0]
    /\ got = [p \in Peers |-> <<>>]

-----------------------------------------------------------------------------
(* Sending                                                                 *)

(* Send: the owner queues its next message.                                *)
Send(p) ==
    /\ sent[p] < MaxSend(p)
    /\ sent' = [sent EXCEPT ![p] = @ + 1]
    /\ out' = [out EXCEPT ![p] =
                 Append(@, [pay |-> sent[p] + 1, acked |-> FALSE])]
    /\ UNCHANGED <<base, nsent, next, ring, acks, recent, net, odd, got>>

Least(a, b) == IF a <= b THEN a ELSE b

(* limit: how far into out[p] a Poll may send.                             *)
Limit(p) == Least(Len(out[p]), SendWindow)

InFlight(p) == {i \in 1..nsent[p] : ~out[p][i].acked}

(* Mutant: no deadline for what has been sent already.                     *)
HasDeadlineFreshOnly(p) ==
    \/ acks[p] # <<>>
    \/ nsent[p] < Limit(p)

(* NextDeadline: the owner polls only when there is one.                   *)
HasDeadline(p) ==
    \/ acks[p] # <<>>
    \/ nsent[p] < Limit(p)
    \/ InFlight(p) # {}

(* put: the acks of the k-th packet of a Poll; a message repeats recent    *)
(* acks in the slots it has to spare, a P_ACK_V1 does not.                 *)
PendingOf(p, k) ==
    {acks[p][i] : i \in DOMAIN acks[p] \cap
                         ((k - 1) * MaxAcksPerPacket + 1)..(k * MaxAcksPerPacket)}

(* The place of id among the recent acks that are not in ids.              *)
Place(p, id, ids) ==
    Cardinality({e \in DOMAIN recent[p] \ ids : recent[p][e] <= recent[p][id]})

AcksOf(p, k) ==
    LET pending == PendingOf(p, k)
        spare   == MaxAcksPerPacket - Cardinality(pending)
    IN  pending \cup {e \in DOMAIN recent[p] \ pending : Place(p, e, pending) <= spare}

(* remember: the acks just sent move to the front of recent.               *)
Remember(p) ==
    LET new == Range(acks[p])
        place(id) == IF id \in new
                     THEN Len(acks[p]) + 1 - (CHOOSE i \in DOMAIN acks[p] : acks[p][i] = id)
                     ELSE Len(acks[p]) + Place(p, id, new)
    IN  [id \in {e \in new \cup DOMAIN recent[p] : place(e) <= RecentAcks} |-> place(id)]

(* The messages of a Poll: first those that now fit the window, then the   *)
(* due ones, which are any subset of those in flight.  The position of the *)
(* i-th message decides which acks travel with it.                         *)
Fresh(p) == (nsent[p] + 1)..Limit(p)

Position(p, due, i) ==
    IF i \in Fresh(p) THEN i - nsent[p]
    ELSE Limit(p) - nsent[p] + Cardinality({j \in due : j <= i})

(* Each packet carries acks; the ones left over travel in P_ACK_V1s.       *)
Packets(p, due) ==
    LET n == Limit(p) - nsent[p] + Cardinality(due) IN
    {[id |-> base[p] + i - 1, pay |-> out[p][i].pay, acks |-> AcksOf(p, Position(p, due, i))] :
        i \in Fresh(p) \cup due}
    \cup
    {[id |-> None, pay |-> 0, acks |-> PendingOf(p, k)] :
        k \in {j \in (n + 1)..(n + Len(acks[p])) : PendingOf(p, j) # {}}}

(* The packets of the Poll before have arrived or are lost, or are late.   *)
Overtakes(p) ==
    \/ net[Other(p)] = {} /\ UNCHANGED odd
    \/ net[Other(p)] # {} /\ odd < MaxOdd /\ odd' = odd + 1

Poll(p, due) ==
    /\ HasDeadline(p)
    /\ due \subseteq InFlight(p)
    /\ Overtakes(p)
    /\ net' = [net EXCEPT ![Other(p)] = @ \cup Packets(p, due)]
    /\ nsent' = [nsent EXCEPT ![p] = Limit(p)]
    /\ recent' = [recent EXCEPT ![p] = Remember(p)]
    /\ acks' = [acks EXCEPT ![p] = <<>>]
    /\ UNCHANGED <<out, base, next, ring, sent, got>>

-----------------------------------------------------------------------------
(* Receiving                                                               *)

(* retire: the in-flight messages among ids are acknowledged and their     *)
(* payloads released.                                                      *)
Retire(p, ids) ==
    [i \in DOMAIN out[p] |->
        IF i <= nsent[p] /\ base[p] + i - 1 \in ids
        THEN [pay |-> 0, acked |-> TRUE] ELSE out[p][i]]

(* Mutant: acknowledged messages count wherever they are.                  *)
PoppedAny(p, q) == Cardinality({i \in 1..nsent[p] : q[i].acked})

(* pop: how many acknowledged messages leave the front of the queue q.     *)
Popped(p, q) ==
    CHOOSE n \in 0..nsent[p] :
        /\ \A i \in 1..n : q[i].acked
        /\ n < nsent[p] => ~q[n + 1].acked

ReceiveAcks(p, ids) ==
    LET q == Retire(p, ids)
        n == Popped(p, q)
    IN  /\ out' = [out EXCEPT ![p] = SubSeq(q, n + 1, Len(q))]
        /\ base' = [base EXCEPT ![p] = @ + n]
        /\ nsent' = [nsent EXCEPT ![p] = @ - n]

(* ack: id is to be acknowledged, unless too many are pending already.     *)
Ack(p, id) ==
    acks' = [acks EXCEPT ![p] =
               IF Len(@) >= MaxPending \/ id \in Range(@)
               THEN @ ELSE Append(@, id)]

(* drain: the id after the buffered run that starts at n.                  *)
Drained(p, n) ==
    CHOOSE m \in n..(n + RecvWindow) :
        /\ ring[p][m % RecvWindow].id # m
        /\ \A k \in n..(m - 1) : ring[p][k % RecvWindow].id = k

(* An id below next is acknowledged again; next is delivered with what it  *)
(* unblocks; one within the window is buffered; further ones are dropped,  *)
(* as is a P_ACK_V1 after its acks.                                        *)
Duplicate(p, id) ==
    /\ id # None /\ id < next[p]
    /\ Ack(p, id)
    /\ UNCHANGED <<next, ring, got>>

(* Mutant: an older message is delivered again.                            *)
InOrderOrOlder(p, id, pay) ==
    /\ id # None /\ id <= next[p]
    /\ Ack(p, id)
    /\ next' = [next EXCEPT ![p] = id + 1]
    /\ got' = [got EXCEPT ![p] = Append(@, pay)]
    /\ UNCHANGED ring

InOrder(p, id, pay) ==
    /\ id = next[p]
    /\ Ack(p, id)
    /\ LET m == Drained(p, id + 1)
           run == [k \in 1..(m - id - 1) |-> ring[p][(id + k) % RecvWindow].pay]
       IN  /\ next' = [next EXCEPT ![p] = m]
           /\ got' = [got EXCEPT ![p] = @ \o <<pay>> \o run]
           /\ ring' = [ring EXCEPT ![p] = [s \in Slots |->
                         IF \E k \in (id + 1)..(m - 1) : s = k % RecvWindow
                         THEN Empty ELSE @[s]]]
InWindow(p, id) == id > next[p] /\ id - next[p] <= RecvWindow
Ahead(p, id, pay) ==
    /\ InWindow(p, id)
    /\ Ack(p, id)
    /\ ring' = [ring EXCEPT ![p][id % RecvWindow] =
                  IF @.id = None THEN [id |-> id, pay |-> pay] ELSE @]
    /\ UNCHANGED <<next, got>>
Ignored(p, id) ==
    /\ id = None \/ id - next[p] > RecvWindow
    /\ UNCHANGED <<acks, next, ring, got>>

(* Receive: acks first, then the message.  The network may repeat the      *)
(* packet later.                                                           *)
Receive(p, k) ==
    /\ k \in net[p]
    /\ \/ net' = [net EXCEPT ![p] = @ \ {k}] /\ UNCHANGED odd
       \/ odd < MaxOdd /\ odd' = odd + 1 /\ UNCHANGED net
    /\ ReceiveAcks(p, k.acks)
    /\ \/ Duplicate(p, k.id)
       \/ InOrder(p, k.id, k.pay)
       \/ Ahead(p, k.id, k.pay)
       \/ Ignored(p, k.id)
    /\ UNCHANGED <<recent, sent>>

(* The network loses a packet.                                             *)
Lose(p, k) ==
    /\ k \in net[p]
    /\ net' = [net EXCEPT ![p] = @ \ {k}]
    /\ UNCHANGED <<out, base, nsent, next, ring, acks, recent, odd, sent, got>>

(* Everything sent, delivered and acknowledged, nothing on the wire.       *)
Finished == /\ \A p \in Peers : /\ sent[p] = MaxSend(p)
                                /\ ~HasDeadline(p)
                                /\ net[p] = {}
            /\ UNCHANGED vars

Next ==
    \/ \E p \in Peers : Send(p)
    \/ \E p \in Peers : \E due \in SUBSET InFlight(p) : Poll(p, due)
    \/ \E p \in Peers : \E k \in net[p] : Receive(p, k)
    \/ \E p \in Peers : \E k \in net[p] : Lose(p, k)
    \/ Finished

Spec == Init /\ [][Next]_vars

(* Owners poll when there is a deadline, and every message in flight is    *)
(* due in the end (the timeout is capped by MaxTimeout).  Packets live for *)
(* a finite time, and the oldest unacknowledged message, and its ack, get  *)
(* through in the end when they are sent again and again.                  *)
Fairness ==
    \A p \in Peers :
        /\ WF_vars(Send(p))
        /\ SF_vars(Poll(p, InFlight(p)))
        /\ WF_vars(\E k \in net[p] : Lose(p, k))
        /\ SF_vars(\E k \in net[p] : k.id = base[Other(p)] /\ Receive(p, k))
        /\ SF_vars(\E k \in net[p] : base[p] \in k.acks /\ Receive(p, k))

FairSpec == Spec /\ Fairness

-----------------------------------------------------------------------------
Seen(p) == (0..(next[p] - 1)) \cup ({ring[p][s].id : s \in Slots} \ {None})

TypeOK ==
    /\ \A p \in Peers :
        /\ out[p] \in Seq([pay : 0..MaxSend(p), acked : BOOLEAN])
        /\ nsent[p] \in 0..Len(out[p])
        /\ base[p] + Len(out[p]) = sent[p]
        /\ \A s \in Slots : ring[p][s].id \in {None} \cup Nat
        /\ IsInjective(acks[p]) /\ Len(acks[p]) <= MaxPending
        /\ recent[p] \in [DOMAIN recent[p] -> 1..RecentAcks]

(* Delivery in order, once: what Receive hands to the owner is an initial  *)
(* part of what the other owner sent, whatever the network does.           *)
Channel == INSTANCE InOrderDelivery
ImplementsInOrderDelivery == Channel!Spec

(* A message is retired from the send queue only when the other side has   *)
(* it: acks on the wire, pending or remembered are for ids that were seen. *)
RetiredIsSeen ==
    \A p \in Peers :
        LET q == Other(p) IN
        /\ base[p] <= next[q]
        /\ \A i \in 1..Len(out[p]) : out[p][i].acked => base[p] + i - 1 \in Seen(q)
        /\ Range(acks[q]) \cup DOMAIN recent[q]
             \cup UNION {k.acks : k \in net[p]} \subseteq Seen(q)

(* The peer always has room: a message on the wire is never further ahead  *)
(* than the peer's receive window, so none is dropped for want of room and *)
(* every slot of the ring holds an id that belongs there.                  *)
PeerHasRoom ==
    \A p \in Peers :
        /\ \A k \in net[p] : k.id - next[p] <= RecvWindow
        /\ \A s \in Slots : ring[p][s].id # None =>
              /\ InWindow(p, ring[p][s].id)
              /\ s = ring[p][s].id % RecvWindow

(* The layers' invariant: types, acks and windows.                         *)
LayerInv == TypeOK /\ RetiredIsSeen /\ PeerHasRoom

(* Every message is delivered and its sender learns it, although packets   *)
(* and acks are lost and acks over the bound are dropped.                  *)
AllDelivered ==
    <>(\A p \in Peers : /\ Len(got[Other(p)]) = MaxSend(p)
                        /\ base[p] = MaxSend(p))
=============================================================================
