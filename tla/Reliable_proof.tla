--------------------------- MODULE Reliable_proof ---------------------------
(***************************************************************************)
(* Reliable for every window, every bound on acks and every network: what  *)
(* is delivered is what was sent, in order and once, nothing is retired    *)
(* that the peer has not seen, and the peer always has room.               *)
(***************************************************************************)
EXTENDS Reliable, SequenceTheorems, FiniteSetTheorems, WellFoundedInduction, TLAPS

-----------------------------------------------------------------------------
(* Numbers.                                                                *)

\* A set of numbers that is not empty has a least one: induction for the loops
\* of pop and drain.
LEMMA LeastNumber ==
    ASSUME NEW T, T \subseteq Nat, T # {}
    PROVE  \E n \in T : \A m \in T : n <= m
<1>1. PICK n \in T : \A m \in T : ~ (<<m, n>> \in OpToRel(<, Nat))
  BY NatLessThanWellFounded, WFMin, Zenon
<1>2. \A m \in T : ~ (m < n)
  BY <1>1 DEF OpToRel
<1>3. n \in Nat /\ \A m \in T : m \in Nat
  OBVIOUS
<1>4. \A m \in T : n <= m
  BY <1>2, <1>3
<1> QED BY <1>1, <1>4, Zenon

\* Division with remainder.
LEMMA Division ==
    ASSUME NEW w \in Nat \ {0}, NEW a \in Nat
    PROVE  \E c \in Nat, r \in Nat : a = w * c + r /\ r = a % w
<1>1. /\ a \div w \in Nat /\ a % w \in Nat
      /\ a = w * (a \div w) + (a % w)
  OBVIOUS
<1> QED BY <1>1, Zenon

\* Different multiples of w are at least w apart.
LEMMA Multiple ==
    ASSUME NEW w \in Nat \ {0}, NEW c \in Int, NEW d \in Int, c < d
    PROVE  w * d - w * c >= w
<1>1. d - c >= 1 /\ d - c \in Nat
  OBVIOUS
<1>2. PICK e \in Nat : d = c + 1 + e
  <2>1. d - c - 1 \in Nat /\ d = c + 1 + (d - c - 1)
    OBVIOUS
  <2> QED BY <2>1
<1>3. w * (c + 1 + e) = w * c + w + w * e /\ w * e \in Nat
  OBVIOUS
<1>4. w * c \in Int /\ w * e >= 0
  BY <1>3
<1> QED BY <1>2, <1>3, <1>4

\* Two ids less than a window apart do not share a slot of the ring.
LEMMA SlotsDiffer ==
    ASSUME NEW w \in Nat \ {0}, NEW a \in Nat, NEW b \in Nat, a < b, b - a < w
    PROVE  a % w # b % w
<1> SUFFICES ASSUME a % w = b % w PROVE FALSE
  OBVIOUS
<1>1. PICK c \in Nat, r \in Nat : a = w * c + r /\ r = a % w
  BY Division
<1>2. PICK d \in Nat, t \in Nat : b = w * d + t /\ t = b % w
  BY Division
<1>3. r = t
  BY <1>1, <1>2
<1>4. w * c \in Int /\ w * d \in Int
  OBVIOUS
<1>5. b - a = w * d - w * c
  BY <1>1, <1>2, <1>3, <1>4
<1>6. CASE c < d
  <2>1. w * d - w * c >= w
    BY <1>6, Multiple
  <2> QED BY <2>1, <1>5, <1>4
<1>7. CASE d < c
  <2>1. w * c - w * d >= w
    BY <1>7, Multiple
  <2> QED BY <2>1, <1>5, <1>4
<1>8. CASE c = d
  BY <1>5, <1>8, <1>4
<1> QED BY <1>6, <1>7, <1>8

\* A slot is one of the ring's.
LEMMA SlotInRing ==
    ASSUME NEW w \in Nat \ {0}, NEW a \in Nat
    PROVE  a % w \in 0 .. (w - 1)
  OBVIOUS

-----------------------------------------------------------------------------
(* The inductive invariant.                                                *)

Message == [pay : Nat, acked : BOOLEAN]
Buffered == [id : {None} \cup Nat, pay : Nat]

\* The types of the state.
Typed ==
    /\ out \in [Peers -> Seq(Message)]
    /\ base \in [Peers -> Nat] /\ nsent \in [Peers -> Nat] /\ next \in [Peers -> Nat]
    /\ ring \in [Peers -> [Slots -> Buffered]]
    /\ acks \in [Peers -> Seq(Nat)]
    /\ recent = [p \in Peers |-> recent[p]]
    /\ net = [p \in Peers |-> net[p]]
    /\ odd \in Nat
    /\ sent \in [Peers -> Nat]
    /\ got \in [Peers -> Seq(Nat)]

\* p's send queue: the window, and which message is where.
Queue(p) ==
    /\ base[p] + Len(out[p]) = sent[p] /\ sent[p] <= MaxSend(p)
    /\ nsent[p] <= Len(out[p]) /\ nsent[p] <= SendWindow
    /\ \A i \in 1 .. Len(out[p]) :
          IF out[p][i].acked THEN i <= nsent[p] /\ out[p][i].pay = 0
          ELSE out[p][i].pay = base[p] + i

\* What p has put on the wire, and nothing else, is on its way to q, in q's ring
\* or delivered: message id carries the payload id + 1.
Wire(p, q) ==
    \A k \in net[q] : k.id = None \/ /\ k.id \in Nat /\ k.id < base[p] + nsent[p]
                                     /\ k.pay = k.id + 1
Ring(p, q) ==
    \A s \in Slots : ring[q][s].id # None =>
        /\ ring[q][s].id > next[q] /\ ring[q][s].id <= next[q] + RecvWindow
        /\ ring[q][s].id < base[p] + nsent[p]
        /\ s = ring[q][s].id % RecvWindow
        /\ ring[q][s].pay = ring[q][s].id + 1
Got(p, q) ==
    /\ got[q] = [i \in 1 .. next[q] |-> i]
    /\ next[q] <= base[p] + nsent[p]

\* What p retires, q has seen; every ack of q is for something q has seen.
Retired(p, q) ==
    /\ base[p] <= next[q]
    /\ \A i \in 1 .. Len(out[p]) : out[p][i].acked => base[p] + i - 1 \in Seen(q)
AcksSeen(p, q) ==
    /\ Range(acks[q]) \subseteq Seen(q)
    /\ DOMAIN recent[q] \subseteq Seen(q)
    /\ \A k \in net[p] : k.acks \subseteq Seen(q)

\* The bookkeeping of q's acks.
AckLists(q) ==
    /\ IsInjective(acks[q]) /\ Len(acks[q]) <= MaxPending
    /\ IsFiniteSet(DOMAIN recent[q])
    /\ recent[q] \in [DOMAIN recent[q] -> 1 .. RecentAcks]

\* One direction: p sends, q receives.
Forth(p, q) == Queue(p) /\ Wire(p, q) /\ Ring(p, q) /\ Got(p, q)
Back(p, q) == Retired(p, q) /\ AcksSeen(p, q)

Inv == Typed /\ \A p \in Peers : Forth(p, Other(p)) /\ Back(p, Other(p)) /\ AckLists(p)

-----------------------------------------------------------------------------
(* Facts about the two ends and about the state.                           *)

\* The constants' types.
LEMMA OptionFacts ==
    /\ SendWindow \in Nat \ {0} /\ RecvWindow \in Nat \ {0} /\ SendWindow <= RecvWindow
    /\ MaxPending \in Nat \ {0} /\ MaxAcksPerPacket \in Nat \ {0} /\ RecentAcks \in Nat
    /\ MaxOdd \in Nat
  BY OptionsAssumption

\* A sequence whose elements are in T is a sequence over T.
LEMMA SeqOf ==
    ASSUME NEW S, NEW T, NEW s \in Seq(S), \A i \in 1 .. Len(s) : s[i] \in T
    PROVE  s \in Seq(T)
  OBVIOUS

\* There are two ends, each the other's other.
LEMMA PeerFacts ==
    ASSUME NEW p \in Peers
    PROVE  /\ Other(p) \in Peers /\ Other(p) # p /\ Other(Other(p)) = p
           /\ MaxSend(p) \in Nat
           /\ \A q \in Peers : q = p \/ q = Other(p)
  BY OptionsAssumption DEF Peers, Other, MaxSend

\* The types at one end.
LEMMA PeerTypes ==
    ASSUME Typed, NEW p \in Peers
    PROVE  /\ out[p] \in Seq(Message) /\ base[p] \in Nat /\ nsent[p] \in Nat
           /\ next[p] \in Nat /\ ring[p] \in [Slots -> Buffered] /\ acks[p] \in Seq(Nat)
           /\ sent[p] \in Nat /\ got[p] \in Seq(Nat)
  BY DEF Typed

\* What a peer has seen, spelled out.
LEMMA SeenMember ==
    ASSUME NEW q \in Peers, NEW id
    PROVE  id \in Seen(q) <=> \/ id \in 0 .. (next[q] - 1)
                              \/ id # None /\ \E s \in Slots : ring[q][s].id = id
  BY DEF Seen

\* It is a set of ids, and the id to deliver next is not among them.
LEMMA SeenFacts ==
    ASSUME Typed, NEW p \in Peers, NEW q \in Peers, Ring(p, q)
    PROVE  Seen(q) \subseteq Nat /\ next[q] \notin Seen(q)
<1>1. /\ next[q] \in Nat
      /\ \A s \in Slots : ring[q][s].id \in {None} \cup Nat
  BY PeerTypes DEF Buffered
<1>2. \A s \in Slots : ring[q][s].id # None => ring[q][s].id > next[q]
  BY DEF Ring
<1>3. None \notin Nat
  BY DEF None
<1> QED BY <1>1, <1>2, <1>3, SeenMember

\* The invariant says what LayerInv says.
LEMMA InvImplies == Inv => LayerInv
<1> SUFFICES ASSUME Inv PROVE LayerInv
  OBVIOUS
<1>0. Typed
  BY DEF Inv
<1>1. TypeOK
  <2> SUFFICES ASSUME NEW p \in Peers
               PROVE  /\ out[p] \in Seq([pay : 0..MaxSend(p), acked : BOOLEAN])
                      /\ nsent[p] \in 0..Len(out[p])
                      /\ base[p] + Len(out[p]) = sent[p]
                      /\ \A s \in Slots : ring[p][s].id \in {None} \cup Nat
                      /\ IsInjective(acks[p]) /\ Len(acks[p]) <= MaxPending
                      /\ recent[p] \in [DOMAIN recent[p] -> 1..RecentAcks]
    BY DEF TypeOK
  <2>1. Queue(p) /\ AckLists(p)
    BY DEF Inv, Forth
  <2>2. /\ out[p] \in Seq(Message) /\ base[p] \in Nat /\ nsent[p] \in Nat
        /\ ring[p] \in [Slots -> Buffered] /\ sent[p] \in Nat /\ MaxSend(p) \in Nat
    BY <1>0, PeerTypes, PeerFacts
  <2>3. Len(out[p]) \in Nat /\ out[p] = [i \in 1 .. Len(out[p]) |-> out[p][i]]
    BY <2>2
  <2>4. \A i \in 1 .. Len(out[p]) : out[p][i] \in [pay : 0..MaxSend(p), acked : BOOLEAN]
    <3> SUFFICES ASSUME NEW i \in 1 .. Len(out[p])
                 PROVE  out[p][i] \in [pay : 0..MaxSend(p), acked : BOOLEAN]
      OBVIOUS
    <3>1. out[p][i] \in Message
      BY <2>2
    <3>2. out[p][i].pay \in 0 .. MaxSend(p)
      BY <2>1, <2>2, <2>3 DEF Queue
    <3> QED BY <3>1, <3>2 DEF Message
  <2>5. out[p] \in Seq([pay : 0..MaxSend(p), acked : BOOLEAN])
    BY <2>2, <2>4, SeqOf
  <2>6. \A s \in Slots : ring[p][s].id \in {None} \cup Nat
    BY <2>2 DEF Buffered
  <2> QED BY <2>1, <2>2, <2>3, <2>5, <2>6 DEF Queue, AckLists
<1>2. RetiredIsSeen
  <2> SUFFICES ASSUME NEW p \in Peers, NEW q \in Peers, q = Other(p)
               PROVE  /\ base[p] <= next[q]
                      /\ \A i \in 1..Len(out[p]) : out[p][i].acked => base[p] + i - 1 \in Seen(q)
                      /\ Range(acks[q]) \cup DOMAIN recent[q]
                           \cup UNION {k.acks : k \in net[p]} \subseteq Seen(q)
    BY PeerFacts, Zenon DEF RetiredIsSeen
  <2>1. Retired(p, q) /\ AcksSeen(p, q)
    BY Zenon DEF Inv, Back
  <2>2. UNION {k.acks : k \in net[p]} \subseteq Seen(q)
    BY <2>1, Zenon DEF AcksSeen
  <2> QED BY <2>1, <2>2, Zenon DEF Retired, AcksSeen
<1>3. PeerHasRoom
  <2> SUFFICES ASSUME NEW q \in Peers
               PROVE  /\ \A k \in net[q] : k.id - next[q] <= RecvWindow
                      /\ \A s \in Slots : ring[q][s].id # None =>
                            /\ InWindow(q, ring[q][s].id)
                            /\ s = ring[q][s].id % RecvWindow
    BY DEF PeerHasRoom
  <2>1. PICK p \in Peers : q = Other(p)
    BY PeerFacts, Zenon
  <2>2. Queue(p) /\ Wire(p, q) /\ Ring(p, q) /\ Retired(p, q)
    BY <2>1 DEF Inv, Forth, Back
  <2>3. /\ next[q] \in Nat /\ base[p] \in Nat /\ nsent[p] \in Nat
        /\ ring[q] \in [Slots -> Buffered]
    BY <1>0, PeerTypes
  <2>4. base[p] + nsent[p] <= next[q] + RecvWindow
    BY <2>2, <2>3, OptionFacts DEF Queue, Retired
  <2>5. \A k \in net[q] : k.id - next[q] <= RecvWindow
    BY <2>2, <2>3, <2>4, OptionFacts DEF Wire, None
  <2>6. \A s \in Slots : ring[q][s].id # None => ring[q][s].id \in Nat
    BY <2>3 DEF Buffered
  <2>7. \A s \in Slots : ring[q][s].id # None =>
            /\ InWindow(q, ring[q][s].id)
            /\ s = ring[q][s].id % RecvWindow
    BY <2>2, <2>3, <2>6, OptionFacts DEF Ring, InWindow
  <2> QED BY <2>5, <2>7
<1> QED BY <1>1, <1>2, <1>3 DEF LayerInv

\* It holds of two new Layers.
LEMMA InitInv == Init => Inv
<1> SUFFICES ASSUME Init PROVE Inv
  OBVIOUS
<1>1. Typed
  <2>1. Empty \in Buffered
    BY DEF Empty, Buffered
  <2>2. ring \in [Peers -> [Slots -> Buffered]]
    BY <2>1 DEF Init
  <2> QED BY <2>2 DEF Init, Typed
<1>2. ASSUME NEW p \in Peers, NEW q \in Peers, q = Other(p)
      PROVE  Forth(p, q) /\ Back(p, q) /\ AckLists(p)
  <2>1. /\ out[p] = <<>> /\ base[p] = 0 /\ nsent[p] = 0 /\ sent[p] = 0 /\ next[q] = 0
        /\ got[q] = <<>> /\ net[q] = {} /\ net[p] = {} /\ acks[p] = <<>> /\ acks[q] = <<>>
        /\ recent[p] = [id \in {} |-> 0] /\ recent[q] = [id \in {} |-> 0]
        /\ \A s \in Slots : ring[q][s] = Empty
    BY DEF Init
  <2>2. Queue(p)
    BY <2>1, PeerFacts, OptionFacts DEF Queue
  <2>3. Wire(p, q) /\ Ring(p, q)
    BY <2>1 DEF Wire, Ring, Empty
  <2>4. Got(p, q)
    BY <2>1 DEF Got
  <2>5. Retired(p, q)
    BY <2>1 DEF Retired
  <2>6. Range(acks[p]) = {} /\ Range(acks[q]) = {} /\ DOMAIN recent[p] = {} /\ DOMAIN recent[q] = {}
    BY <2>1 DEF Range
  <2>7. AcksSeen(p, q)
    BY <2>1, <2>6 DEF AcksSeen
  <2>8. AckLists(p)
    BY <2>1, <2>6, FS_EmptySet, OptionFacts DEF AckLists, IsInjective
  <2> QED BY <2>2, <2>3, <2>4, <2>5, <2>7, <2>8 DEF Forth, Back
<1> QED BY <1>1, <1>2, PeerFacts DEF Inv

-----------------------------------------------------------------------------
(* The loops.                                                              *)

\* pop stops at the first message of q that is not acknowledged.
LEMMA PoppedFacts ==
    ASSUME NEW p, NEW q, nsent[p] \in Nat
    PROVE  /\ Popped(p, q) \in 0 .. nsent[p]
           /\ \A i \in 1 .. Popped(p, q) : q[i].acked
           /\ Popped(p, q) < nsent[p] => ~q[Popped(p, q) + 1].acked
<1> DEFINE T == {m \in 0 .. nsent[p] : m = nsent[p] \/ ~q[m + 1].acked}
<1>1. T \subseteq Nat /\ nsent[p] \in T
  OBVIOUS
<1>2. PICK n \in T : \A m \in T : n <= m
  <2> HIDE DEF T
  <2> QED BY <1>1, LeastNumber, Zenon
<1>3. n \in 0 .. nsent[p] /\ (n < nsent[p] => ~q[n + 1].acked)
  OBVIOUS
<1>4. ASSUME NEW i \in 1 .. n PROVE q[i].acked
  <2>1. i - 1 \in 0 .. nsent[p] /\ i - 1 < n /\ i - 1 # nsent[p] /\ (i - 1) + 1 = i
    BY <1>3
  <2>2. i - 1 \notin T
    BY <2>1, <1>2, <1>3
  <2> QED BY <2>1, <2>2
<1>5. \E m \in 0 .. nsent[p] : /\ \A i \in 1 .. m : q[i].acked
                               /\ m < nsent[p] => ~q[m + 1].acked
  BY <1>3, <1>4
<1> QED BY <1>5, Zenon DEF Popped

\* drain stops at the first id after n that is not buffered: the ring holds
\* nothing further ahead than a window.
LEMMA DrainedFacts ==
    ASSUME Typed, NEW p \in Peers, NEW q \in Peers, Ring(p, q), NEW n, n = next[q] + 1
    PROVE  /\ Drained(q, n) \in n .. (n + RecvWindow)
           /\ ring[q][Drained(q, n) % RecvWindow].id # Drained(q, n)
           /\ \A k \in n .. (Drained(q, n) - 1) : ring[q][k % RecvWindow].id = k
<1> USE OptionFacts
<1>1. n \in Nat /\ next[q] \in Nat
  BY PeerTypes
<1> DEFINE T == {m \in n .. (n + RecvWindow) : ring[q][m % RecvWindow].id # m}
<1>2. T \subseteq Nat
  BY <1>1
<1>3. n + RecvWindow \in T
  <2>1. n + RecvWindow \in Nat /\ n + RecvWindow \in n .. (n + RecvWindow) /\ n + RecvWindow # None
    BY <1>1 DEF None
  <2>2. (n + RecvWindow) % RecvWindow \in Slots
    BY <2>1, SlotInRing DEF Slots
  <2>3. CASE ring[q][(n + RecvWindow) % RecvWindow].id = n + RecvWindow
    <3>1. n + RecvWindow <= next[q] + RecvWindow
      BY <2>1, <2>2, <2>3 DEF Ring
    <3> QED BY <3>1, <1>1
  <2> QED BY <2>1, <2>3
<1>4. PICK m \in T : \A k \in T : m <= k
  <2> HIDE DEF T
  <2> QED BY <1>2, <1>3, LeastNumber, Zenon
<1>5. m \in n .. (n + RecvWindow) /\ ring[q][m % RecvWindow].id # m
  OBVIOUS
<1>6. ASSUME NEW k \in n .. (m - 1) PROVE ring[q][k % RecvWindow].id = k
  <2>1. k \in n .. (n + RecvWindow) /\ ~ (m <= k)
    BY <1>5, <1>1
  <2> QED BY <2>1, <1>4
<1>7. \E j \in n .. (n + RecvWindow) :
         /\ ring[q][j % RecvWindow].id # j
         /\ \A k \in n .. (j - 1) : ring[q][k % RecvWindow].id = k
  BY <1>5, <1>6
<1> QED BY <1>7, Zenon DEF Drained

-----------------------------------------------------------------------------
(* The first half of Receive: acks.                                        *)

\* Changing a function at a changes it nowhere else.
LEMMA Updated ==
    ASSUME NEW S, NEW f \in [Peers -> S], NEW a \in Peers, NEW b \in Peers, a # b,
           NEW v \in S, NEW g, g = [f EXCEPT ![a] = v]
    PROVE  g \in [Peers -> S] /\ g[a] = v /\ g[b] = f[b]
  OBVIOUS

\* After retire, everything acknowledged is in flight and has been seen.
LEMMA RetireFacts ==
    ASSUME Typed, NEW a \in Peers, NEW b \in Peers, Queue(a), Retired(a, b),
           NEW ids, ids \subseteq Seen(b), NEW r, r = Retire(a, ids)
    PROVE  /\ r \in Seq(Message) /\ Len(r) = Len(out[a])
           /\ \A i \in 1 .. Len(r) :
                 IF r[i].acked THEN /\ i <= nsent[a] /\ r[i].pay = 0
                                    /\ base[a] + i - 1 \in Seen(b)
                 ELSE r[i].pay = base[a] + i
<1>1. /\ out[a] \in Seq(Message) /\ base[a] \in Nat /\ nsent[a] \in Nat
  BY PeerTypes
<1>2. Len(out[a]) \in Nat /\ DOMAIN out[a] = 1 .. Len(out[a])
  BY <1>1
<1>3. \A i \in 1 .. Len(out[a]) :
         r[i] = IF i <= nsent[a] /\ base[a] + i - 1 \in ids
                THEN [pay |-> 0, acked |-> TRUE] ELSE out[a][i]
  BY <1>2 DEF Retire
<1>4. \A i \in 1 .. Len(out[a]) : r[i] \in Message
  <2> SUFFICES ASSUME NEW i \in 1 .. Len(out[a]) PROVE r[i] \in Message
    OBVIOUS
  <2>1. out[a][i] \in Message
    BY <1>1
  <2>2. [pay |-> 0, acked |-> TRUE] \in Message
    BY DEF Message
  <2> QED BY <2>1, <2>2, <1>3
<1>5. r = [i \in 1 .. Len(out[a]) |-> r[i]]
  BY <1>2 DEF Retire
<1>6. r \in Seq(Message) /\ Len(r) = Len(out[a])
  BY <1>2, <1>4, <1>5
<1>7. ASSUME NEW i \in 1 .. Len(r)
      PROVE  IF r[i].acked THEN /\ i <= nsent[a] /\ r[i].pay = 0
                                /\ base[a] + i - 1 \in Seen(b)
             ELSE r[i].pay = base[a] + i
  <2>1. CASE i <= nsent[a] /\ base[a] + i - 1 \in ids
    <3>1. r[i] = [pay |-> 0, acked |-> TRUE]
      BY <2>1, <1>3, <1>6
    <3> QED BY <3>1, <2>1
  <2>2. CASE ~(i <= nsent[a] /\ base[a] + i - 1 \in ids)
    <3>1. r[i] = out[a][i] /\ i \in 1 .. Len(out[a])
      BY <2>2, <1>3, <1>6
    <3> QED BY <3>1, Zenon DEF Queue, Retired
  <2> QED BY <2>1, <2>2
<1> QED BY <1>6, <1>7

\* Acks of seen messages keep the queue in order, and what leaves it is seen:
\* the peer still waits for the id it delivers next.
LEMMA AcksStep ==
    ASSUME Typed, NEW a \in Peers, NEW b \in Peers, a # b,
           Queue(a), Ring(a, b), Retired(a, b),
           NEW ids, ids \subseteq Seen(b), ReceiveAcks(a, ids), sent' = sent,
           next'[b] = next[b], Seen(b)' = Seen(b)
    PROVE  /\ out' \in [Peers -> Seq(Message)]
           /\ base' \in [Peers -> Nat] /\ nsent' \in [Peers -> Nat]
           /\ base'[a] + nsent'[a] = base[a] + nsent[a]
           /\ out'[b] = out[b] /\ base'[b] = base[b] /\ nsent'[b] = nsent[b]
           /\ Queue(a)' /\ Retired(a, b)'
<1> DEFINE r == Retire(a, ids)
<1> DEFINE n == Popped(a, r)
<1>0. r = Retire(a, ids)
  OBVIOUS
<1>1. /\ out' = [out EXCEPT ![a] = SubSeq(r, n + 1, Len(r))]
      /\ base' = [base EXCEPT ![a] = @ + n]
      /\ nsent' = [nsent EXCEPT ![a] = @ - n]
  BY DEF ReceiveAcks
<1> HIDE DEF r
<1>2. /\ r \in Seq(Message) /\ Len(r) = Len(out[a])
      /\ \A i \in 1 .. Len(r) :
            IF r[i].acked THEN /\ i <= nsent[a] /\ r[i].pay = 0
                               /\ base[a] + i - 1 \in Seen(b)
            ELSE r[i].pay = base[a] + i
  BY <1>0, RetireFacts
<1>3. /\ base[a] \in Nat /\ nsent[a] \in Nat /\ next[b] \in Nat /\ sent[a] \in Nat
      /\ MaxSend(a) \in Nat
  BY PeerTypes, PeerFacts
<1>4. /\ n \in 0 .. nsent[a] /\ \A i \in 1 .. n : r[i].acked
  BY <1>3, PoppedFacts
<1> HIDE DEF n
<1>a. Len(r) = Len(out[a])
  BY <1>2
<1>5. n \in Nat /\ nsent[a] - n \in Nat /\ n <= Len(r) /\ Len(r) \in Nat /\ nsent[a] <= Len(r)
  BY <1>a, <1>2, <1>3, <1>4 DEF Queue
<1> DEFINE o == SubSeq(r, n + 1, Len(r))
<1>6. /\ o \in Seq(Message) /\ Len(o) = Len(r) - n
      /\ \A i \in 1 .. Len(o) : o[i] = r[n + i]
  <2>1. \A i \in (n + 1) .. Len(r) : r[i] \in Message
    BY <1>2, <1>5
  <2>2. /\ o \in Seq(Message)
        /\ Len(o) = IF n + 1 <= Len(r) THEN Len(r) - (n + 1) + 1 ELSE 0
        /\ \A i \in 1 .. (Len(r) - (n + 1) + 1) : o[i] = r[(n + 1) + i - 1]
    BY <2>1, <1>5, SubSeqProperties
  <2>3. Len(o) = Len(r) - n
    BY <2>2, <1>5
  <2>4. ASSUME NEW i \in 1 .. Len(o) PROVE o[i] = r[n + i]
    <3>1. i \in 1 .. (Len(r) - (n + 1) + 1) /\ (n + 1) + i - 1 = n + i
      BY <2>3, <1>5
    <3> QED BY <3>1, <2>2
  <2> QED BY <2>2, <2>3, <2>4
<1> HIDE DEF o
<1>b. base'[a] = base[a] + n /\ nsent'[a] = nsent[a] - n
  BY <1>1, <1>3 DEF Typed
<1>7. /\ out'[a] = o /\ out'[b] = out[b] /\ base'[b] = base[b] /\ nsent'[b] = nsent[b]
      /\ out' \in [Peers -> Seq(Message)]
      /\ base' \in [Peers -> Nat] /\ nsent' \in [Peers -> Nat]
  <2>1. out' = [out EXCEPT ![a] = o]
    BY <1>1 DEF o
  <2>2. out'[a] = o /\ out'[b] = out[b] /\ out' \in [Peers -> Seq(Message)]
    BY <2>1, <1>6, Updated DEF Typed
  <2>3. base' = [base EXCEPT ![a] = base[a] + n] /\ base[a] + n \in Nat
    BY <1>1, <1>3, <1>5
  <2>4. nsent' = [nsent EXCEPT ![a] = nsent[a] - n] /\ nsent[a] - n \in Nat
    BY <1>1, <1>3, <1>5
  <2>5. base'[b] = base[b] /\ base' \in [Peers -> Nat]
    BY <2>3, Updated DEF Typed
  <2>6. nsent'[b] = nsent[b] /\ nsent' \in [Peers -> Nat]
    BY <2>4, Updated DEF Typed
  <2> QED BY <2>2, <2>5, <2>6
<1>8. \A i \in 1 .. Len(o) :
         /\ n + i \in 1 .. Len(r)
         /\ IF o[i].acked THEN /\ i <= nsent'[a] /\ o[i].pay = 0
                               /\ base'[a] + i - 1 \in Seen(b)
            ELSE o[i].pay = base'[a] + i
  <2> SUFFICES ASSUME NEW i \in 1 .. Len(o)
               PROVE  /\ n + i \in 1 .. Len(r)
                      /\ IF o[i].acked THEN /\ i <= nsent'[a] /\ o[i].pay = 0
                                            /\ base'[a] + i - 1 \in Seen(b)
                         ELSE o[i].pay = base'[a] + i
    OBVIOUS
  <2>1. n + i \in 1 .. Len(r) /\ o[i] = r[n + i]
    BY <1>5, <1>6
  <2>2. /\ base[a] + (n + i) = base'[a] + i /\ base[a] + (n + i) - 1 = base'[a] + i - 1
        /\ (n + i <= nsent[a] <=> i <= nsent'[a])
    <3>1. i \in Int /\ n \in Int
      BY <1>5, <1>6
    <3> QED BY <3>1, <1>3, <1>b
  <2> QED BY <2>1, <2>2, <1>2
<1>9. base'[a] <= next[b]
  <2> SUFFICES ASSUME base[a] + n > next[b] PROVE FALSE
    BY <1>3, <1>5, <1>b
  <2>0. base[a] <= next[b]
    BY DEF Retired
  <2> DEFINE i == next[b] - base[a] + 1
  <2>1. i \in 1 .. n /\ i \in 1 .. Len(r) /\ base[a] + i - 1 = next[b]
    BY <2>0, <1>3, <1>5
  <2> HIDE DEF i
  <2>2. next[b] \in Seen(b)
    BY <2>1, <1>2, <1>4
  <2> QED BY <2>2, SeenFacts
<1>10. Queue(a)'
  <2>1. /\ base'[a] + Len(o) = sent[a] /\ sent[a] <= MaxSend(a)
        /\ nsent'[a] <= Len(o) /\ nsent'[a] <= SendWindow
    <3>1. Len(o) = Len(r) - n
      BY <1>6
    <3>2. /\ base[a] + Len(r) = sent[a] /\ sent[a] <= MaxSend(a) /\ nsent[a] <= SendWindow
      BY <1>a DEF Queue
    <3>3. n \in Nat /\ Len(r) \in Nat /\ nsent[a] <= Len(r) /\ SendWindow \in Nat
      BY <1>5, OptionFacts
    <3>4. base'[a] + Len(o) = sent[a] /\ nsent'[a] <= Len(o)
      BY <3>1, <3>2, <3>3, <1>3, <1>b
    <3>5. nsent'[a] <= SendWindow
      BY <3>2, <3>3, <1>3, <1>b
    <3> QED BY <3>2, <3>4, <3>5
  <2>2. \A i \in 1 .. Len(o) : IF o[i].acked THEN i <= nsent'[a] /\ o[i].pay = 0
                               ELSE o[i].pay = base'[a] + i
    BY <1>8, Zenon
  <2>3. \A i \in 1 .. Len(out'[a]) :
           IF out'[a][i].acked THEN i <= nsent'[a] /\ out'[a][i].pay = 0
           ELSE out'[a][i].pay = base'[a] + i
    BY <2>2, <1>7
  <2> QED BY <2>1, <2>3, <1>7 DEF Queue, MaxSend
<1>11. Retired(a, b)'
  BY <1>8, <1>9, <1>7 DEF Retired
<1>12. base'[a] + nsent'[a] = base[a] + nsent[a]
  BY <1>3, <1>5, <1>b
<1> QED BY <1>7, <1>10, <1>11, <1>12

-----------------------------------------------------------------------------
(* The second half of Receive: the message.                                *)

\* ack adds the id and no other, once.
LEMMA AckStep ==
    ASSUME Typed, NEW a \in Peers, NEW b \in Peers, a # b, AckLists(a),
           NEW id \in Nat, Ack(a, id)
    PROVE  /\ acks' \in [Peers -> Seq(Nat)] /\ acks'[b] = acks[b]
           /\ Range(acks'[a]) \subseteq Range(acks[a]) \cup {id}
           /\ IsInjective(acks'[a]) /\ Len(acks'[a]) <= MaxPending
<1> DEFINE v == IF Len(acks[a]) >= MaxPending \/ id \in Range(acks[a])
                THEN acks[a] ELSE Append(acks[a], id)
<1>0. Len(acks[a]) \in Nat
  BY PeerTypes
<1>1. acks[a] \in Seq(Nat) /\ Len(acks[a]) \in Nat /\ DOMAIN acks[a] = 1 .. Len(acks[a])
  BY PeerTypes
<1>2. acks' = [acks EXCEPT ![a] = v]
  BY DEF Ack
<1>3. /\ v \in Seq(Nat) /\ Range(v) \subseteq Range(acks[a]) \cup {id}
      /\ IsInjective(v) /\ Len(v) <= MaxPending
  <2>1. CASE Len(acks[a]) >= MaxPending \/ id \in Range(acks[a])
    BY <2>1, <1>1 DEF AckLists
  <2>2. CASE ~(Len(acks[a]) >= MaxPending \/ id \in Range(acks[a]))
    <3>1. v = Append(acks[a], id)
      BY <2>2
    <3> HIDE DEF v
    <3>2. /\ v \in Seq(Nat) /\ Len(v) = Len(acks[a]) + 1
          /\ \A i \in 1 .. Len(acks[a]) : v[i] = acks[a][i]
          /\ v[Len(acks[a]) + 1] = id
      BY <3>1, <1>1
    <3>3. DOMAIN v = 1 .. (Len(acks[a]) + 1)
      BY <3>2
    <3>4. \A i \in 1 .. Len(acks[a]) : acks[a][i] \in Range(acks[a]) /\ acks[a][i] # id
      BY <2>2, <1>1 DEF Range
    <3>5. Range(v) \subseteq Range(acks[a]) \cup {id}
      <4>1. \A i \in DOMAIN v : v[i] \in Range(acks[a]) \cup {id}
        <5> SUFFICES ASSUME NEW i \in DOMAIN v PROVE v[i] \in Range(acks[a]) \cup {id}
          OBVIOUS
        <5>1. i \in 1 .. Len(acks[a]) \/ i = Len(acks[a]) + 1
          BY <3>3, <1>1
        <5> QED BY <5>1, <3>2, <3>4
      <4> QED BY <4>1, Zenon DEF Range
    <3>6. IsInjective(v)
      <4> SUFFICES ASSUME NEW i \in DOMAIN v, NEW j \in DOMAIN v, v[i] = v[j] PROVE i = j
        BY DEF IsInjective
      <4>1. CASE i <= Len(acks[a]) /\ j <= Len(acks[a])
        BY <4>1, <3>2, <3>3, <1>1 DEF AckLists, IsInjective
      <4>2. CASE i > Len(acks[a]) /\ j > Len(acks[a])
        BY <4>2, <3>3, <1>0
      <4>3. CASE i <= Len(acks[a]) /\ j > Len(acks[a])
        <5>1. i \in 1 .. Len(acks[a]) /\ j = Len(acks[a]) + 1
          BY <4>3, <3>3, <1>0
        <5> QED BY <5>1, <3>2, <3>4
      <4>4. CASE i > Len(acks[a]) /\ j <= Len(acks[a])
        <5>1. j \in 1 .. Len(acks[a]) /\ i = Len(acks[a]) + 1
          BY <4>4, <3>3, <1>0
        <5> QED BY <5>1, <3>2, <3>4
      <4> QED BY <4>1, <4>2, <4>3, <4>4, <3>3, <1>0
    <3>7. Len(v) <= MaxPending
      BY <3>2, <2>2, <1>1, OptionFacts
    <3> QED BY <3>2, <3>5, <3>6, <3>7
  <2> QED BY <2>1, <2>2
<1> HIDE DEF v
<1>4. acks' \in [Peers -> Seq(Nat)] /\ acks'[a] = v /\ acks'[b] = acks[b]
  BY <1>2, <1>3, Updated DEF Typed
<1> QED BY <1>3, <1>4

\* What a message step at a may assume, with b the sender, and what it must
\* show.
Receiving(a, b) ==
    /\ Typed /\ Queue(b) /\ Ring(b, a) /\ Got(b, a) /\ AckLists(a)
    /\ Range(acks[a]) \subseteq Seen(a)

Received(a, b) ==
    /\ next' \in [Peers -> Nat] /\ next'[b] = next[b]
    /\ ring' \in [Peers -> [Slots -> Buffered]] /\ ring'[b] = ring[b]
    /\ got' \in [Peers -> Seq(Nat)] /\ got'[b] = got[b]
    /\ acks' \in [Peers -> Seq(Nat)] /\ acks'[b] = acks[b]
    /\ IsInjective(acks'[a]) /\ Len(acks'[a]) <= MaxPending
    /\ next[a] <= next'[a] /\ Seen(a) \subseteq Seen(a)'
    /\ Range(acks'[a]) \subseteq Seen(a)'
    /\ Ring(b, a)' /\ Got(b, a)'

Genuine(b, id, pay) == id \in Nat /\ id < base[b] + nsent[b] /\ pay = id + 1

\* A message that was delivered before is only acknowledged.
LEMMA DuplicateStep ==
    ASSUME NEW a \in Peers, NEW b \in Peers, a # b, Receiving(a, b),
           base'[b] = base[b], nsent'[b] = nsent[b],
           NEW id, NEW pay, Genuine(b, id, pay), Duplicate(a, id)
    PROVE  Received(a, b)
<1> USE DEF Receiving, Genuine
<1>1. UNCHANGED <<next, ring, got>> /\ Ack(a, id) /\ id \in Nat /\ id < next[a]
  BY DEF Duplicate
<1>2. Seen(a)' = Seen(a) /\ Ring(b, a)' /\ Got(b, a)'
  BY <1>1 DEF Seen, Ring, Got
<1>3. next[a] \in Nat
  BY PeerTypes
<1>4. id \in Seen(a)
  BY <1>1, <1>3, SeenMember
<1>5. /\ acks' \in [Peers -> Seq(Nat)] /\ acks'[b] = acks[b]
      /\ Range(acks'[a]) \subseteq Range(acks[a]) \cup {id}
      /\ IsInjective(acks'[a]) /\ Len(acks'[a]) <= MaxPending
  BY <1>1, AckStep
<1>6. /\ next' \in [Peers -> Nat] /\ next'[b] = next[b]
      /\ ring' \in [Peers -> [Slots -> Buffered]] /\ ring'[b] = ring[b]
      /\ got' \in [Peers -> Seq(Nat)] /\ got'[b] = got[b] /\ next[a] <= next'[a]
  <2>1. next' = next /\ ring' = ring /\ got' = got
    BY <1>1
  <2>2. /\ next \in [Peers -> Nat] /\ ring \in [Peers -> [Slots -> Buffered]]
        /\ got \in [Peers -> Seq(Nat)]
    BY Zenon DEF Typed
  <2>3. next[a] <= next[a]
    BY <1>3
  <2> QED BY <2>1, <2>2, <2>3, Zenon
<1>7. Range(acks'[a]) \subseteq Seen(a)'
  BY <1>2, <1>4, <1>5, Zenon
<1> QED BY <1>2, <1>5, <1>6, <1>7, Zenon DEF Received

\* A P_ACK_V1 or a message out of the window changes nothing.
LEMMA IgnoredStep ==
    ASSUME NEW a \in Peers, NEW b \in Peers, a # b, Receiving(a, b),
           base'[b] = base[b], nsent'[b] = nsent[b], NEW id, Ignored(a, id)
    PROVE  Received(a, b)
<1> USE DEF Receiving
<1>1. UNCHANGED <<acks, next, ring, got>>
  BY DEF Ignored
<1>2. Seen(a)' = Seen(a) /\ Ring(b, a)' /\ Got(b, a)'
  BY <1>1 DEF Seen, Ring, Got
<1>3. next[a] \in Nat
  BY PeerTypes
<1>4. acks' = acks /\ next' = next /\ ring' = ring /\ got' = got /\ next[a] <= next[a]
  BY <1>1, <1>3
<1>5. /\ next \in [Peers -> Nat] /\ ring \in [Peers -> [Slots -> Buffered]]
      /\ got \in [Peers -> Seq(Nat)] /\ acks \in [Peers -> Seq(Nat)]
  BY Zenon DEF Typed
<1> QED BY <1>2, <1>4, <1>5, Zenon DEF Received, AckLists

\* A slot that is taken holds the very message that arrives: two ids of the
\* window in one slot are one id.
LEMMA SlotIsOwn ==
    ASSUME NEW a \in Peers, NEW b \in Peers, Receiving(a, b), NEW id \in Nat, InWindow(a, id),
           ring[a][id % RecvWindow].id # None
    PROVE  ring[a][id % RecvWindow].id = id
<1> USE OptionFacts
<1> DEFINE s == id % RecvWindow
<1> DEFINE j == ring[a][s].id
<1>1. s \in Slots
  BY SlotInRing DEF Slots
<1>2. next[a] \in Nat /\ j \in Nat
  BY <1>1, PeerTypes DEF Receiving, Buffered
<1>3. j > next[a] /\ j <= next[a] + RecvWindow /\ s = j % RecvWindow
  BY <1>1 DEF Receiving, Ring
<1>4. id > next[a] /\ id <= next[a] + RecvWindow
  BY <1>2 DEF InWindow
<1>5. j % RecvWindow = id % RecvWindow
  BY <1>3
<1> HIDE DEF s, j
<1>6. ASSUME j < id PROVE FALSE
  <2>1. id - j < RecvWindow
    BY <1>2, <1>3, <1>4
  <2> QED BY <1>2, <1>5, <1>6, <2>1, SlotsDiffer
<1>7. ASSUME id < j PROVE FALSE
  <2>1. j - id < RecvWindow
    BY <1>2, <1>3, <1>4
  <2> QED BY <1>2, <1>5, <1>7, <2>1, SlotsDiffer
<1>8. j = id
  BY <1>2, <1>6, <1>7
<1> QED BY <1>8 DEF s, j

\* A message ahead of the next one is buffered and acknowledged.
LEMMA AheadStep ==
    ASSUME NEW a \in Peers, NEW b \in Peers, a # b, Receiving(a, b),
           base'[b] = base[b], nsent'[b] = nsent[b],
           NEW id, NEW pay, Genuine(b, id, pay), Ahead(a, id, pay)
    PROVE  Received(a, b)
<1> USE OptionFacts
<1> DEFINE s == id % RecvWindow
<1> DEFINE v == IF ring[a][s].id = None THEN [id |-> id, pay |-> pay] ELSE ring[a][s]
<1>1. /\ InWindow(a, id) /\ Ack(a, id) /\ UNCHANGED <<next, got>>
      /\ ring' = [ring EXCEPT ![a] = [ring[a] EXCEPT ![s] = v]]
  BY DEF Ahead
<1>2. id \in Nat /\ id # None /\ id < base[b] + nsent[b] /\ pay = id + 1 /\ pay \in Nat
  BY DEF Genuine, None
<1>3. s \in Slots
  BY <1>2, SlotInRing DEF Slots
<1>4. next[a] \in Nat /\ ring[a] \in [Slots -> Buffered] /\ got[a] \in Seq(Nat) /\ Typed
  BY PeerTypes DEF Receiving
<1>5. v \in Buffered /\ v.id = id /\ v.pay = id + 1
  <2>1. CASE ring[a][s].id = None
    BY <2>1, <1>2 DEF Buffered
  <2>2. CASE ring[a][s].id # None
    <3>1. ring[a][s].id = id
      BY <1>1, <1>2, <2>2, SlotIsOwn
    <3>2. ring[a][s].pay = ring[a][s].id + 1
      BY <1>3, <2>2 DEF Receiving, Ring
    <3> QED BY <2>2, <3>1, <3>2, <1>3, <1>4
  <2> QED BY <2>1, <2>2
<1>6. v = ring[a][s] \/ ring[a][s].id = None
  OBVIOUS
<1> HIDE DEF v, s
<1> DEFINE g == [ring[a] EXCEPT ![s] = v]
<1>7. /\ g \in [Slots -> Buffered] /\ g[s] = v
      /\ \A t \in Slots : t # s => g[t] = ring[a][t]
  BY <1>3, <1>4, <1>5
<1> HIDE DEF g
<1>8. /\ ring' \in [Peers -> [Slots -> Buffered]] /\ ring'[a] = g /\ ring'[b] = ring[b]
  <2>1. ring' = [ring EXCEPT ![a] = g]
    BY <1>1 DEF g
  <2> QED BY <2>1, <1>4, <1>7, Updated DEF Typed
<1>9. next'[a] = next[a] /\ got'[a] = got[a]
  BY <1>1
<1>10. Ring(b, a)'
  <2> SUFFICES ASSUME NEW t \in Slots, ring'[a][t].id # None
               PROVE  /\ ring'[a][t].id > next'[a]
                      /\ ring'[a][t].id <= next'[a] + RecvWindow
                      /\ ring'[a][t].id < base'[b] + nsent'[b]
                      /\ t = ring'[a][t].id % RecvWindow
                      /\ ring'[a][t].pay = ring'[a][t].id + 1
    BY DEF Ring, Slots
  <2>1. CASE t = s
    <3>1. ring'[a][t] = v
      BY <2>1, <1>7, <1>8
    <3>2. id > next[a] /\ id <= next[a] + RecvWindow
      BY <1>1, <1>2, <1>4 DEF InWindow
    <3>3. t = id % RecvWindow
      BY <2>1 DEF s
    <3> QED BY <3>1, <3>2, <3>3, <1>2, <1>5, <1>9
  <2>2. CASE t # s
    <3>1. ring'[a][t] = ring[a][t]
      BY <2>2, <1>7, <1>8
    <3> QED BY <3>1, <1>9 DEF Receiving, Ring
  <2> QED BY <2>1, <2>2
<1>11. id \in Seen(a)'
  <2>1. ring'[a][s].id = id
    BY <1>5, <1>7, <1>8
  <2> QED BY <2>1, <1>2, <1>3 DEF Seen, Slots, None
<1>12. Seen(a) \subseteq Seen(a)'
  <2> SUFFICES ASSUME NEW e \in Seen(a) PROVE e \in Seen(a)'
    OBVIOUS
  <2>1. CASE e \in 0 .. (next[a] - 1)
    BY <2>1, <1>9 DEF Seen
  <2>2. CASE e # None /\ \E t \in Slots : ring[a][t].id = e
    <3>1. PICK t \in Slots : ring[a][t].id = e
      BY <2>2
    <3>2. ring'[a][t].id = e
      BY <3>1, <2>2, <1>6, <1>7, <1>8
    <3> QED BY <3>2, <2>2 DEF Seen, Slots, None
  <2> QED BY <2>1, <2>2, SeenMember
<1>13. /\ acks' \in [Peers -> Seq(Nat)] /\ acks'[b] = acks[b]
       /\ Range(acks'[a]) \subseteq Range(acks[a]) \cup {id}
       /\ IsInjective(acks'[a]) /\ Len(acks'[a]) <= MaxPending
  BY <1>1, <1>2, AckStep DEF Receiving
<1>14. Range(acks'[a]) \subseteq Seen(a)'
  BY <1>11, <1>12, <1>13, Zenon DEF Receiving
<1>15. Got(b, a)'
  BY <1>9 DEF Receiving, Got
<1>16. /\ next' \in [Peers -> Nat] /\ next'[b] = next[b] /\ next[a] <= next'[a]
       /\ got' \in [Peers -> Seq(Nat)] /\ got'[b] = got[b]
  <2>1. next' = next /\ got' = got
    BY <1>1
  <2>2. next \in [Peers -> Nat] /\ got \in [Peers -> Seq(Nat)]
    BY <1>4 DEF Typed
  <2>3. next[a] <= next[a]
    BY <1>4
  <2> QED BY <2>1, <2>2, <2>3, Zenon
<1> QED BY <1>8, <1>10, <1>12, <1>13, <1>14, <1>15, <1>16, Zenon DEF Received

\* Only the slots of the run are emptied; what stays is ahead of the new next.
LEMMA RunFacts ==
    ASSUME NEW a \in Peers, NEW b \in Peers, Receiving(a, b),
           NEW m, m = Drained(a, next[a] + 1)
    PROVE  /\ m \in Nat /\ m > next[a] /\ m <= next[a] + 1 + RecvWindow
           /\ \A k \in (next[a] + 1) .. (m - 1) :
                 /\ k % RecvWindow \in Slots
                 /\ ring[a][k % RecvWindow].id = k
                 /\ ring[a][k % RecvWindow].pay = k + 1
                 /\ k < base[b] + nsent[b]
           /\ \A s \in Slots : ring[a][s].id # None =>
                 \/ ring[a][s].id > m
                 \/ ring[a][s].id \in (next[a] + 1) .. (m - 1)
<1> USE OptionFacts DEF Receiving
<1>1. next[a] \in Nat /\ ring[a] \in [Slots -> Buffered]
  BY PeerTypes
<1>2. /\ m \in (next[a] + 1) .. ((next[a] + 1) + RecvWindow)
      /\ ring[a][m % RecvWindow].id # m
      /\ \A k \in (next[a] + 1) .. (m - 1) : ring[a][k % RecvWindow].id = k
  BY DrainedFacts
<1>3. m \in Nat /\ m > next[a] /\ m <= next[a] + 1 + RecvWindow
  BY <1>1, <1>2
<1>4. ASSUME NEW k \in (next[a] + 1) .. (m - 1)
      PROVE  /\ k % RecvWindow \in Slots
             /\ ring[a][k % RecvWindow].id = k
             /\ ring[a][k % RecvWindow].pay = k + 1
             /\ k < base[b] + nsent[b]
  <2>1. k \in Nat /\ k # None
    BY <1>1, <1>3 DEF None
  <2>2. k % RecvWindow \in Slots
    BY <2>1, SlotInRing DEF Slots
  <2>3. ring[a][k % RecvWindow].id = k
    BY <1>2
  <2> QED BY <2>1, <2>2, <2>3 DEF Ring
<1>5. ASSUME NEW s \in Slots, ring[a][s].id # None
      PROVE  \/ ring[a][s].id > m
             \/ ring[a][s].id \in (next[a] + 1) .. (m - 1)
  <2>1. ring[a][s].id \in Nat
    BY <1>1, <1>5 DEF Buffered
  <2>2. ring[a][s].id > next[a] /\ s = ring[a][s].id % RecvWindow
    BY <1>5 DEF Ring
  <2>3. ring[a][s].id # m
    BY <2>2, <1>2
  <2> QED BY <2>1, <2>2, <2>3, <1>1, <1>3
<1> QED BY <1>3, <1>4, <1>5

\* A sequence of the numbers up to its length.
LEMMA Counting ==
    ASSUME NEW s \in Seq(Nat), NEW n \in Nat, Len(s) = n, \A i \in 1 .. n : s[i] = i
    PROVE  s = [i \in 1 .. n |-> i]
<1>1. s = [i \in 1 .. n |-> s[i]]
  OBVIOUS
<1>2. [i \in 1 .. n |-> s[i]] = [i \in 1 .. n |-> i]
  OBVIOUS
<1> QED BY <1>1, <1>2

\* The delivered ones, the next one and the run it unblocks count on.
LEMMA RunIsNext ==
    ASSUME NEW g \in Seq(Nat), NEW run \in Seq(Nat),
           \A i \in 1 .. Len(g) : g[i] = i,
           \A k \in 1 .. Len(run) : run[k] = Len(g) + k + 1
    PROVE  g \o <<Len(g) + 1>> \o run = [i \in 1 .. (Len(g) + 1 + Len(run)) |-> i]
<1> DEFINE n == Len(g)
<1> DEFINE d == Len(run)
<1>0. n \in Nat /\ d \in Nat
  OBVIOUS
<1>1. /\ Len(g) = n /\ \A i \in 1 .. n : g[i] = i
      /\ Len(run) = d /\ \A k \in 1 .. d : run[k] = n + k + 1
  OBVIOUS
<1> HIDE DEF n, d
<1> USE <1>0, <1>1
<1> DEFINE h == g \o <<n + 1>>
<1>2. h \in Seq(Nat) /\ Len(h) = n + 1 /\ \A i \in 1 .. (n + 1) : h[i] = i
  <2>1. /\ <<n + 1>> \in Seq(Nat) /\ Len(<<n + 1>>) = 1 /\ <<n + 1>>[1] = n + 1
    OBVIOUS
  <2>2. /\ h \in Seq(Nat) /\ Len(h) = Len(g) + 1
        /\ \A i \in 1 .. (Len(g) + 1) :
              h[i] = IF i <= Len(g) THEN g[i] ELSE <<n + 1>>[i - Len(g)]
    BY <2>1, ConcatProperties
  <2>3. ASSUME NEW i \in 1 .. (n + 1) PROVE h[i] = i
    <3>1. CASE i <= n
      BY <3>1, <2>2
    <3>2. CASE i = n + 1
      <4>1. h[i] = <<n + 1>>[i - Len(g)] /\ i - Len(g) = 1
        BY <3>2, <2>2
      <4> QED BY <4>1, <3>2, <2>1
    <3> QED BY <3>1, <3>2
  <2> QED BY <2>2, <2>3
<1> HIDE DEF h
<1>4. /\ h \o run \in Seq(Nat) /\ Len(h \o run) = Len(h) + Len(run)
      /\ \A i \in 1 .. (Len(h) + Len(run)) :
            (h \o run)[i] = IF i <= Len(h) THEN h[i] ELSE run[i - Len(h)]
  <2>1. h \in Seq(Nat) /\ run \in Seq(Nat)
    BY <1>2
  <2> QED BY <2>1, ConcatProperties, Zenon
<1> DEFINE x == h \o run
<1>5. x \in Seq(Nat) /\ Len(x) = n + 1 + d
  BY <1>2, <1>4
<1>6. ASSUME NEW i \in 1 .. (n + 1 + d) PROVE x[i] = i
  <2>0. x[i] = IF i <= n + 1 THEN h[i] ELSE run[i - (n + 1)]
    BY <1>2, <1>4
  <2> HIDE DEF x
  <2>1. CASE i <= n + 1
    BY <2>0, <2>1, <1>2
  <2>2. CASE i > n + 1
    <3>1. i - (n + 1) \in 1 .. d /\ n + (i - (n + 1)) + 1 = i
      BY <2>2
    <3>2. x[i] = run[i - (n + 1)]
      BY <2>0, <2>2
    <3> QED BY <3>1, <3>2
  <2> QED BY <2>1, <2>2
<1> HIDE DEF x
<1>7. x = [i \in 1 .. (n + 1 + d) |-> i]
  BY <1>5, <1>6, Counting
<1> QED BY <1>7 DEF h, x, n, d

\* The next message is delivered with the run behind it.
LEMMA InOrderStep ==
    ASSUME NEW a \in Peers, NEW b \in Peers, a # b, Receiving(a, b),
           base'[b] = base[b], nsent'[b] = nsent[b],
           NEW id, NEW pay, Genuine(b, id, pay), InOrder(a, id, pay)
    PROVE  Received(a, b) /\ next'[a] > next[a]
<1> USE OptionFacts
<1> DEFINE m == Drained(a, id + 1)
<1> DEFINE run == [k \in 1 .. (m - id - 1) |-> ring[a][(id + k) % RecvWindow].pay]
<1> DEFINE g == [s \in Slots |-> IF \E k \in (id + 1) .. (m - 1) : s = k % RecvWindow
                                 THEN Empty ELSE ring[a][s]]
<1>1. /\ id = next[a] /\ Ack(a, id)
      /\ next' = [next EXCEPT ![a] = m]
      /\ got' = [got EXCEPT ![a] = got[a] \o <<pay>> \o run]
      /\ ring' = [ring EXCEPT ![a] = g]
  BY DEF InOrder
<1>2. id \in Nat /\ id # None /\ id < base[b] + nsent[b] /\ pay = id + 1 /\ pay \in Nat
  BY DEF Genuine, None
<1>3. next[a] \in Nat /\ ring[a] \in [Slots -> Buffered] /\ got[a] \in Seq(Nat) /\ Typed
  BY PeerTypes DEF Receiving
<1>4. m = Drained(a, next[a] + 1)
  BY <1>1
<1>5. g = [s \in Slots |-> g[s]] /\ \A s \in Slots :
         g[s] = IF \E k \in (id + 1) .. (m - 1) : s = k % RecvWindow
                THEN Empty ELSE ring[a][s]
  OBVIOUS
<1>6. run = [k \in 1 .. (m - id - 1) |-> run[k]]
      /\ \A k \in 1 .. (m - id - 1) : run[k] = ring[a][(id + k) % RecvWindow].pay
  OBVIOUS
<1> HIDE DEF m, run, g
<1>7. /\ m \in Nat /\ m > next[a] /\ m <= next[a] + 1 + RecvWindow
      /\ \A k \in (next[a] + 1) .. (m - 1) :
            /\ k % RecvWindow \in Slots
            /\ ring[a][k % RecvWindow].id = k
            /\ ring[a][k % RecvWindow].pay = k + 1
            /\ k < base[b] + nsent[b]
      /\ \A s \in Slots : ring[a][s].id # None =>
            \/ ring[a][s].id > m
            \/ ring[a][s].id \in (next[a] + 1) .. (m - 1)
  BY <1>4, RunFacts
<1>8. got[a] \o <<pay>> \o run = [i \in 1 .. m |-> i]
  <2> DEFINE d == m - id - 1
  <2>1. d \in Nat /\ id + 1 + d = m
    <3>1. id = next[a] /\ m \in Nat /\ m > next[a]
      BY <1>1, <1>7
    <3> QED BY <3>1, <1>2
  <2>2. ASSUME NEW k \in 1 .. d PROVE run[k] = id + k + 1
    <3>1. id + k \in (next[a] + 1) .. (m - 1)
      <4>1. id = next[a] /\ m \in Nat
        BY <1>1, <1>7
      <4> QED BY <4>1, <1>2
    <3>2. run[k] = ring[a][(id + k) % RecvWindow].pay
      BY <1>6
    <3> QED BY <3>1, <3>2, <1>7
  <2>3. run \in Seq(Nat) /\ Len(run) = d
    <3>1. \A k \in 1 .. d : run[k] \in Nat
      BY <2>2, <1>2
    <3>2. run = [k \in 1 .. d |-> run[k]]
      BY <1>6
    <3> HIDE DEF d
    <3> QED BY <2>1, <3>1, <3>2
  <2> HIDE DEF d
  <2>4. got[a] = [i \in 1 .. id |-> i]
    BY <1>1 DEF Receiving, Got
  <2>5. Len(got[a]) = id /\ \A i \in 1 .. id : got[a][i] = i
    BY <2>4, <1>2
  <2>6. got[a] \o <<id + 1>> \o run = [i \in 1 .. (id + 1 + d) |-> i]
    <3>1. /\ got[a] \in Seq(Nat) /\ run \in Seq(Nat)
          /\ \A i \in 1 .. Len(got[a]) : got[a][i] = i
          /\ \A k \in 1 .. Len(run) : run[k] = Len(got[a]) + k + 1
      BY <2>2, <2>3, <2>5, <1>3
    <3>2. got[a] \o <<Len(got[a]) + 1>> \o run = [i \in 1 .. (Len(got[a]) + 1 + Len(run)) |-> i]
      BY <3>1, RunIsNext, Zenon
    <3> QED BY <3>2, <2>3, <2>5
  <2> QED BY <2>6, <2>1, <1>2
<1>9. next' \in [Peers -> Nat] /\ next'[a] = m /\ next'[b] = next[b]
  BY <1>1, <1>3, <1>7, Updated DEF Typed
<1>10. got' \in [Peers -> Seq(Nat)] /\ got'[a] = [i \in 1 .. m |-> i] /\ got'[b] = got[b]
  <2>1. [i \in 1 .. m |-> i] \in Seq(Nat)
    BY <1>7
  <2>2. got' = [got EXCEPT ![a] = [i \in 1 .. m |-> i]]
    BY <1>1, <1>8
  <2> QED BY <2>1, <2>2, <1>3, Updated DEF Typed
<1>11. g \in [Slots -> Buffered]
  <2>1. Empty \in Buffered
    BY DEF Empty, Buffered
  <2>2. \A s \in Slots : g[s] \in Buffered
    BY <2>1, <1>3, <1>5
  <2> QED BY <2>2, <1>5
<1>12. ring' \in [Peers -> [Slots -> Buffered]] /\ ring'[a] = g /\ ring'[b] = ring[b]
  BY <1>1, <1>3, <1>11, Updated DEF Typed
<1>13. \A s \in Slots : g[s].id # None =>
          /\ g[s] = ring[a][s] /\ ring[a][s].id > m
  <2> SUFFICES ASSUME NEW s \in Slots, g[s].id # None
               PROVE  g[s] = ring[a][s] /\ ring[a][s].id > m
    OBVIOUS
  <2>1. ~ \E k \in (id + 1) .. (m - 1) : s = k % RecvWindow
    BY <1>5 DEF Empty
  <2>2. g[s] = ring[a][s]
    BY <2>1, <1>5
  <2>3. s = ring[a][s].id % RecvWindow
    BY <2>2 DEF Receiving, Ring
  <2>4. ring[a][s].id \notin (next[a] + 1) .. (m - 1)
    BY <2>1, <2>3, <1>1
  <2> QED BY <2>2, <2>4, <1>7
<1>14. Ring(b, a)'
  <2> SUFFICES ASSUME NEW t \in Slots, ring'[a][t].id # None
               PROVE  /\ ring'[a][t].id > next'[a]
                      /\ ring'[a][t].id <= next'[a] + RecvWindow
                      /\ ring'[a][t].id < base'[b] + nsent'[b]
                      /\ t = ring'[a][t].id % RecvWindow
                      /\ ring'[a][t].pay = ring'[a][t].id + 1
    BY DEF Ring, Slots
  <2>1. ring'[a][t] = ring[a][t] /\ ring[a][t].id > m /\ ring[a][t].id # None
    BY <1>12, <1>13
  <2>2. /\ ring[a][t].id <= next[a] + RecvWindow
        /\ ring[a][t].id < base[b] + nsent[b]
        /\ t = ring[a][t].id % RecvWindow
        /\ ring[a][t].pay = ring[a][t].id + 1
    BY <2>1 DEF Receiving, Ring
  <2>3. ring[a][t].id \in Nat
    BY <2>1, <1>3 DEF Buffered
  <2>4. ring[a][t].id <= m + RecvWindow
    BY <2>2, <2>3, <1>3, <1>7
  <2> QED BY <2>1, <2>2, <2>4, <1>9
<1>15. Seen(a) \subseteq Seen(a)' /\ id \in Seen(a)'
  <2>0. 0 .. (m - 1) \subseteq Seen(a)'
    BY <1>9 DEF Seen
  <2>1. ASSUME NEW e \in Seen(a) PROVE e \in Seen(a)'
    <3>1. CASE e \in 0 .. (next[a] - 1)
      BY <3>1, <2>0, <1>3, <1>7
    <3>2. CASE e # None /\ \E t \in Slots : ring[a][t].id = e
      <4>1. PICK t \in Slots : ring[a][t].id = e
        BY <3>2
      <4>2. CASE e \in (next[a] + 1) .. (m - 1)
        BY <4>2, <2>0, <1>3, <1>7
      <4>3. CASE ~ (e \in (next[a] + 1) .. (m - 1))
        <5>1. ASSUME NEW k \in (id + 1) .. (m - 1) PROVE t # k % RecvWindow
          BY <4>1, <4>3, <1>1, <1>7
        <5>2. g[t] = ring[a][t]
          BY <5>1, <1>5
        <5>3. ring'[a][t].id = e
          BY <5>2, <4>1, <1>12
        <5> QED BY <5>3, <3>2 DEF Seen, Slots, None
      <4> QED BY <4>2, <4>3
    <3> QED BY <3>1, <3>2, SeenMember
  <2>2. id \in 0 .. (m - 1)
    BY <1>1, <1>2, <1>7
  <2> QED BY <2>0, <2>1, <2>2
<1>16. /\ acks' \in [Peers -> Seq(Nat)] /\ acks'[b] = acks[b]
       /\ Range(acks'[a]) \subseteq Range(acks[a]) \cup {id}
       /\ IsInjective(acks'[a]) /\ Len(acks'[a]) <= MaxPending
  <2>1. Typed /\ AckLists(a) /\ Ack(a, id)
    BY <1>1, Zenon DEF Receiving
  <2> QED BY <2>1, <1>2, AckStep
<1>17. Range(acks'[a]) \subseteq Seen(a)'
  BY <1>15, <1>16, Zenon DEF Receiving
<1>18. Got(b, a)'
  <2>1. m <= base[b] + nsent[b]
    <3>1. base[b] \in Nat /\ nsent[b] \in Nat
      BY <1>3, PeerTypes
    <3>2. CASE m = next[a] + 1
      BY <3>1, <3>2, <1>1, <1>2
    <3>3. CASE m > next[a] + 1
      <4>1. m - 1 \in (next[a] + 1) .. (m - 1)
        BY <3>3, <1>3, <1>7
      <4>2. m - 1 < base[b] + nsent[b]
        BY <4>1, <1>7
      <4> QED BY <4>2, <3>1, <1>7
    <3> QED BY <3>2, <3>3, <1>3, <1>7
  <2> QED BY <2>1, <1>9, <1>10 DEF Got
<1>19. next[a] <= next'[a] /\ next'[a] > next[a]
  BY <1>3, <1>7, <1>9
<1> QED BY <1>9, <1>10, <1>12, <1>14, <1>15, <1>16, <1>17, <1>18, <1>19, Zenon DEF Received

-----------------------------------------------------------------------------
(* The steps.                                                              *)

\* Receive, acks and message, keeps both directions.
LEMMA ReceiveStep ==
    ASSUME Inv, NEW a \in Peers, NEW k \in net[a], Receive(a, k)
    PROVE  Inv'
<1> DEFINE b == Other(a)
<1>1. b \in Peers /\ a # b /\ Other(a) = b /\ Other(b) = a /\ \A q \in Peers : q = a \/ q = b
  BY PeerFacts
<1> HIDE DEF b
<1>2. /\ Typed /\ Forth(a, b) /\ Back(a, b) /\ AckLists(a)
      /\ Forth(b, a) /\ Back(b, a) /\ AckLists(b)
  BY <1>1, Zenon DEF Inv
<1>3. /\ ReceiveAcks(a, k.acks)
      /\ \/ Duplicate(a, k.id)
         \/ InOrder(a, k.id, k.pay)
         \/ Ahead(a, k.id, k.pay)
         \/ Ignored(a, k.id)
      /\ recent' = recent /\ sent' = sent
  BY DEF Receive
<1>4. /\ net' = [p \in Peers |-> net'[p]] /\ net'[a] \subseteq net[a] /\ net'[b] = net[b]
      /\ odd' \in Nat
  <2>1. CASE net' = [net EXCEPT ![a] = @ \ {k}] /\ UNCHANGED odd
    BY <2>1, <1>1, <1>2 DEF Typed
  <2>2. CASE odd' = odd + 1 /\ UNCHANGED net
    BY <2>2, <1>2 DEF Typed
  <2> QED BY <2>1, <2>2 DEF Receive
<1>5. k.acks \subseteq Seen(b)
  BY <1>2 DEF Back, AcksSeen
<1>6. base'[b] = base[b] /\ nsent'[b] = nsent[b] /\ out'[b] = out[b]
  BY <1>1, <1>2, <1>3 DEF ReceiveAcks, Typed
<1>7. Received(a, b)
  <2>1. Receiving(a, b)
    BY <1>2, Zenon DEF Receiving, Forth, Back, AcksSeen
  <2>2. k.id = None \/ Genuine(b, k.id, k.pay)
    BY <1>2 DEF Forth, Wire, Genuine
  <2>3. next[a] \in Nat
    BY <1>2, PeerTypes
  <2>4. CASE Ignored(a, k.id)
    BY <2>4, <2>1, <1>1, <1>6, IgnoredStep
  <2>5. CASE Duplicate(a, k.id)
    <3>1. Genuine(b, k.id, k.pay)
      BY <2>5, <2>2 DEF Duplicate
    <3> QED BY <2>5, <3>1, <2>1, <1>1, <1>6, DuplicateStep
  <2>6. CASE InOrder(a, k.id, k.pay)
    <3>1. Genuine(b, k.id, k.pay)
      BY <2>6, <2>2, <2>3 DEF InOrder, None
    <3> QED BY <2>6, <3>1, <2>1, <1>1, <1>6, InOrderStep
  <2>7. CASE Ahead(a, k.id, k.pay)
    <3>1. Genuine(b, k.id, k.pay)
      BY <2>7, <2>2, <2>3 DEF Ahead, InWindow, None
    <3> QED BY <2>7, <3>1, <2>1, <1>1, <1>6, AheadStep
  <2> QED BY <2>4, <2>5, <2>6, <2>7, <1>3
<1>8. Seen(b)' = Seen(b) /\ next'[b] = next[b] /\ ring'[b] = ring[b]
      /\ got'[b] = got[b] /\ acks'[b] = acks[b]
  <2>1. next'[b] = next[b] /\ ring'[b] = ring[b] /\ got'[b] = got[b] /\ acks'[b] = acks[b]
    BY <1>7 DEF Received
  <2> QED BY <2>1 DEF Seen, Slots
<1>9. /\ out' \in [Peers -> Seq(Message)]
      /\ base' \in [Peers -> Nat] /\ nsent' \in [Peers -> Nat]
      /\ base'[a] + nsent'[a] = base[a] + nsent[a]
      /\ Queue(a)' /\ Retired(a, b)'
  <2>1. Queue(a) /\ Ring(a, b) /\ Retired(a, b)
    BY <1>2 DEF Forth, Back
  <2> QED BY <2>1, <1>1, <1>2, <1>3, <1>5, <1>8, AcksStep
<1>10. Typed'
  BY <1>2, <1>3, <1>4, <1>7, <1>9, Zenon DEF Typed, Received, Buffered, Slots, Message, Peers, None
<1>11. Forth(a, b)'
  <2>1. Wire(a, b)'
    BY <1>2, <1>4, <1>9 DEF Forth, Wire, None
  <2>2. Ring(a, b)'
    BY <1>2, <1>8, <1>9 DEF Forth, Ring, None, Slots
  <2>3. Got(a, b)'
    BY <1>2, <1>8, <1>9 DEF Forth, Got
  <2> QED BY <1>9, <2>1, <2>2, <2>3 DEF Forth
<1>12. Back(a, b)'
  <2>1. AcksSeen(a, b)'
    BY <1>2, <1>3, <1>4, <1>8 DEF Back, AcksSeen
  <2> QED BY <2>1, <1>9 DEF Back
<1>13. Forth(b, a)'
  <2>1. Queue(b)'
    BY <1>2, <1>3, <1>6 DEF Forth, Queue, MaxSend
  <2>2. Wire(b, a)'
    BY <1>2, <1>4, <1>6 DEF Forth, Wire, None
  <2> QED BY <2>1, <2>2, <1>7 DEF Forth, Received
<1>14. Back(b, a)'
  <2>0. next[a] <= next'[a] /\ Seen(a) \subseteq Seen(a)' /\ Range(acks'[a]) \subseteq Seen(a)'
    BY <1>7 DEF Received
  <2>1. Retired(b, a)'
    <3>1. base[b] \in Nat /\ next[a] \in Nat /\ next'[a] \in Nat /\ base[b] <= next[a]
      BY <1>1, <1>2, <1>7, PeerTypes DEF Back, Retired, Received
    <3>2. base'[b] <= next'[a]
      BY <3>1, <2>0, <1>6
    <3>3. \A i \in 1 .. Len(out'[b]) : out'[b][i].acked => base'[b] + i - 1 \in Seen(a)'
      BY <1>2, <1>6, <2>0 DEF Back, Retired
    <3> QED BY <3>2, <3>3 DEF Retired
  <2>2. AcksSeen(b, a)'
    <3>1. DOMAIN recent'[a] \subseteq Seen(a)'
      BY <1>2, <1>3, <2>0 DEF Back, AcksSeen
    <3>2. \A e \in net'[b] : e.acks \subseteq Seen(a)'
      BY <1>2, <1>4, <2>0 DEF Back, AcksSeen
    <3> QED BY <3>1, <3>2, <2>0 DEF AcksSeen
  <2> QED BY <2>1, <2>2 DEF Back
<1>15. AckLists(a)' /\ AckLists(b)'
  BY <1>2, <1>3, <1>7, Zenon DEF AckLists, Received
<1> QED BY <1>1, <1>10, <1>11, <1>12, <1>13, <1>14, <1>15, Zenon DEF Inv, Peers, Other

\* A Poll only ever extends what has been sent, within the window.
LEMMA LimitFacts ==
    ASSUME Typed, NEW p \in Peers, Queue(p)
    PROVE  /\ Limit(p) \in Nat /\ nsent[p] <= Limit(p)
           /\ Limit(p) <= Len(out[p]) /\ Limit(p) <= SendWindow
<1>1. /\ Len(out[p]) \in Nat /\ nsent[p] \in Nat
  BY PeerTypes
<1>2. nsent[p] <= Len(out[p]) /\ nsent[p] <= SendWindow
  BY DEF Queue
<1> QED BY <1>1, <1>2, OptionFacts DEF Limit, Least

\* The acks of a packet are pending or remembered ones.
LEMMA AcksOfFacts ==
    ASSUME NEW p \in Peers, NEW k
    PROVE  /\ PendingOf(p, k) \subseteq Range(acks[p])
           /\ AcksOf(p, k) \subseteq Range(acks[p]) \cup DOMAIN recent[p]
<1>1. PendingOf(p, k) \subseteq Range(acks[p])
  BY Zenon DEF PendingOf, Range
<1> QED BY <1>1, Zenon DEF AcksOf

\* The packets of a Poll carry messages that are then on the wire, each with its
\* own payload: a retired one, whose payload is released, is never sent again.
LEMMA PacketFacts ==
    ASSUME Typed, NEW p \in Peers, Queue(p), NEW due, due \subseteq InFlight(p),
           NEW k \in Packets(p, due)
    PROVE  /\ k.acks \subseteq Range(acks[p]) \cup DOMAIN recent[p]
           /\ \/ k.id = None
              \/ k.id \in Nat /\ k.id < base[p] + Limit(p) /\ k.pay = k.id + 1
<1>1. \/ \E i \in Fresh(p) \cup due :
            k = [id |-> base[p] + i - 1, pay |-> out[p][i].pay,
                 acks |-> AcksOf(p, Position(p, due, i))]
      \/ \E j : k = [id |-> None, pay |-> 0, acks |-> PendingOf(p, j)]
  BY Zenon DEF Packets
<1>2. ASSUME NEW j, k = [id |-> None, pay |-> 0, acks |-> PendingOf(p, j)]
      PROVE  k.acks \subseteq Range(acks[p]) \cup DOMAIN recent[p] /\ k.id = None
  <2>1. k.acks = PendingOf(p, j) /\ k.id = None
    BY <1>2
  <2> QED BY <2>1, AcksOfFacts, Zenon
<1>3. ASSUME NEW i \in Fresh(p) \cup due,
             k = [id |-> base[p] + i - 1, pay |-> out[p][i].pay,
                  acks |-> AcksOf(p, Position(p, due, i))]
      PROVE  /\ k.acks \subseteq Range(acks[p]) \cup DOMAIN recent[p]
             /\ k.id \in Nat /\ k.id < base[p] + Limit(p) /\ k.pay = k.id + 1
  <2>1. /\ k.acks = AcksOf(p, Position(p, due, i)) /\ k.id = base[p] + i - 1
        /\ k.pay = out[p][i].pay
    BY <1>3
  <2>2. k.acks \subseteq Range(acks[p]) \cup DOMAIN recent[p]
    BY <2>1, AcksOfFacts, Zenon
  <2>3. /\ base[p] \in Nat /\ nsent[p] \in Nat /\ Len(out[p]) \in Nat
    BY PeerTypes
  <2>4. /\ Limit(p) \in Nat /\ nsent[p] <= Limit(p) /\ Limit(p) <= Len(out[p])
    BY LimitFacts
  <2>5. i \in 1 .. Limit(p) /\ ~ out[p][i].acked
    <3>1. CASE i \in Fresh(p)
      <4>1. i \in 1 .. Limit(p) /\ i > nsent[p] /\ i \in 1 .. Len(out[p]) /\ ~ (i <= nsent[p])
        BY <3>1, <2>3, <2>4 DEF Fresh
      <4> QED BY <4>1 DEF Queue
    <3>2. CASE i \in due
      <4>1. i \in 1 .. nsent[p] /\ ~ out[p][i].acked
        BY <3>2 DEF InFlight
      <4> QED BY <4>1, <2>3, <2>4
    <3> QED BY <3>1, <3>2
  <2>6. out[p][i].pay = base[p] + i
    <3>1. i \in 1 .. Len(out[p])
      BY <2>3, <2>4, <2>5
    <3> QED BY <3>1, <2>5 DEF Queue
  <2> QED BY <2>1, <2>2, <2>3, <2>4, <2>5, <2>6
<1> QED BY <1>1, <1>2, <1>3, Zenon

\* remember keeps at most RecentAcks acks, each at a place of its own range.
LEMMA RememberFacts ==
    ASSUME Typed, NEW p \in Peers, AckLists(p)
    PROVE  /\ DOMAIN Remember(p) \subseteq Range(acks[p]) \cup DOMAIN recent[p]
           /\ IsFiniteSet(DOMAIN Remember(p))
           /\ Remember(p) \in [DOMAIN Remember(p) -> 1 .. RecentAcks]
<1> DEFINE new == Range(acks[p])
<1> DEFINE place(id) == IF id \in new
                        THEN Len(acks[p]) + 1 - (CHOOSE i \in DOMAIN acks[p] : acks[p][i] = id)
                        ELSE Len(acks[p]) + Place(p, id, new)
<1> DEFINE D == {e \in new \cup DOMAIN recent[p] : place(e) <= RecentAcks}
<1>1. Remember(p) = [id \in D |-> place(id)]
  BY DEF Remember
<1>2. acks[p] \in Seq(Nat) /\ Len(acks[p]) \in Nat /\ DOMAIN acks[p] = 1 .. Len(acks[p])
  BY PeerTypes
<1>3. IsFiniteSet(new \cup DOMAIN recent[p])
  <2>1. IsFiniteSet(DOMAIN acks[p])
    BY <1>2, FS_Interval
  <2>2. acks[p] \in Surjection(DOMAIN acks[p], new)
    <3>1. acks[p] \in [DOMAIN acks[p] -> new]
      BY <1>2 DEF Range
    <3> QED BY <3>1 DEF Surjection, Range
  <2>3. IsFiniteSet(new)
    BY <2>1, <2>2, FS_Surjection, Zenon
  <2> QED BY <2>3, FS_Union, Zenon DEF AckLists
<1>4. \A e \in new \cup DOMAIN recent[p] : place(e) \in Nat \ {0}
  <2> SUFFICES ASSUME NEW e \in new \cup DOMAIN recent[p] PROVE place(e) \in Nat \ {0}
    OBVIOUS
  <2>1. CASE e \in new
    <3> DEFINE i == CHOOSE i \in DOMAIN acks[p] : acks[p][i] = e
    <3>1. i \in DOMAIN acks[p]
      BY <2>1, Zenon DEF Range
    <3>2. place(e) = Len(acks[p]) + 1 - i
      BY <2>1
    <3> HIDE DEF i, place
    <3> QED BY <3>1, <3>2, <1>2
  <2>2. CASE e \notin new
    <3> DEFINE S == {f \in DOMAIN recent[p] \ new : recent[p][f] <= recent[p][e]}
    <3>0. e \in DOMAIN recent[p]
      BY <2>2
    <3>1. e \in S
      <4>1. recent[p][e] \in 1 .. RecentAcks
        BY <3>0 DEF AckLists
      <4>2. recent[p][e] <= recent[p][e]
        BY <4>1, OptionFacts
      <4> QED BY <4>2, <3>0, <2>2
    <3>2. S \subseteq DOMAIN recent[p]
      OBVIOUS
    <3>3. Place(p, e, new) = Cardinality(S)
      BY DEF Place
    <3>4. place(e) = Len(acks[p]) + Cardinality(S)
      BY <3>3, <2>2
    <3> HIDE DEF S, place, new
    <3>5. IsFiniteSet(S)
      BY <3>2, FS_Subset, Zenon DEF AckLists
    <3>6. Cardinality(S) \in Nat
      BY <3>5, FS_CardinalityType
    <3>7. Cardinality(S) # 0
      BY <3>1, <3>5, FS_EmptySet
    <3> QED BY <3>4, <3>6, <3>7, <1>2
  <2> QED BY <2>1, <2>2
<1> HIDE DEF place, new
<1>5. D \subseteq new \cup DOMAIN recent[p] /\ \A e \in D : place(e) \in 1 .. RecentAcks
  BY <1>4, OptionFacts
<1> HIDE DEF D
<1>6. IsFiniteSet(D)
  BY <1>3, <1>5, FS_Subset, Zenon
<1>7. DOMAIN Remember(p) = D /\ Remember(p) \in [D -> 1 .. RecentAcks]
  BY <1>1, <1>5
<1> QED BY <1>5, <1>6, <1>7 DEF new

\* A Poll puts genuine messages and genuine acks on the wire.
LEMMA PollStep ==
    ASSUME Inv, NEW p \in Peers, NEW due \in SUBSET InFlight(p), Poll(p, due)
    PROVE  Inv'
<1> DEFINE q == Other(p)
<1>1. q \in Peers /\ p # q /\ Other(p) = q /\ Other(q) = p /\ \A x \in Peers : x = p \/ x = q
  BY PeerFacts
<1>2. /\ net' = [net EXCEPT ![q] = net[q] \cup Packets(p, due)]
      /\ nsent' = [nsent EXCEPT ![p] = Limit(p)]
      /\ recent' = [recent EXCEPT ![p] = Remember(p)]
      /\ acks' = [acks EXCEPT ![p] = <<>>]
      /\ UNCHANGED <<out, base, next, ring, sent, got>>
  BY DEF Poll
<1> HIDE DEF q
<1>3. /\ Typed /\ Forth(p, q) /\ Back(p, q) /\ AckLists(p)
      /\ Forth(q, p) /\ Back(q, p) /\ AckLists(q)
  BY <1>1, Zenon DEF Inv
<1>4. odd' \in Nat
  <2>1. odd \in Nat
    BY <1>3 DEF Typed
  <2>2. odd' = odd \/ odd' = odd + 1
    BY DEF Poll, Overtakes
  <2> QED BY <2>1, <2>2
<1>5. /\ Limit(p) \in Nat /\ nsent[p] <= Limit(p) /\ Limit(p) <= Len(out[p])
      /\ Limit(p) <= SendWindow
  BY <1>3, LimitFacts DEF Forth
<1>6. /\ nsent' \in [Peers -> Nat] /\ nsent'[p] = Limit(p) /\ nsent'[q] = nsent[q]
  BY <1>1, <1>2, <1>3, <1>5, Updated DEF Typed
<1>7. /\ acks' \in [Peers -> Seq(Nat)] /\ acks'[p] = <<>> /\ acks'[q] = acks[q]
  <2>1. <<>> \in Seq(Nat)
    OBVIOUS
  <2> QED BY <2>1, <1>1, <1>2, <1>3, Updated DEF Typed
<1>8. /\ recent' = [x \in Peers |-> recent'[x]]
      /\ recent'[p] = Remember(p) /\ recent'[q] = recent[q]
  BY <1>1, <1>2, <1>3 DEF Typed
<1>9. /\ net' = [x \in Peers |-> net'[x]]
      /\ net'[q] = net[q] \cup Packets(p, due) /\ net'[p] = net[p]
  BY <1>1, <1>2, <1>3 DEF Typed
<1>10. Typed'
  <2>1. out' = out /\ base' = base /\ next' = next /\ ring' = ring /\ sent' = sent /\ got' = got
    BY <1>2
  <2> QED BY <2>1, <1>3, <1>4, <1>6, <1>7, <1>8, <1>9, Zenon
          DEF Typed, Buffered, Slots, Message, Peers, None
<1>11. Seen(p)' = Seen(p) /\ Seen(q)' = Seen(q)
  BY <1>2 DEF Seen, Slots
<1>12. /\ DOMAIN Remember(p) \subseteq Range(acks[p]) \cup DOMAIN recent[p]
       /\ IsFiniteSet(DOMAIN Remember(p))
       /\ Remember(p) \in [DOMAIN Remember(p) -> 1 .. RecentAcks]
  BY <1>3, RememberFacts
<1>13. \A k \in Packets(p, due) :
          /\ k.acks \subseteq Range(acks[p]) \cup DOMAIN recent[p]
          /\ \/ k.id = None
             \/ k.id \in Nat /\ k.id < base[p] + Limit(p) /\ k.pay = k.id + 1
  <2>1. Queue(p)
    BY <1>3 DEF Forth
  <2> QED BY <2>1, <1>3, PacketFacts
<1>14. base[p] \in Nat /\ nsent[p] \in Nat /\ next[q] \in Nat /\ base[p] + nsent[p] <= base[p] + Limit(p)
  BY <1>1, <1>3, <1>5, PeerTypes
<1>15. Forth(p, q)'
  <2>1. Queue(p)'
    <3>1. /\ base[p] + Len(out[p]) = sent[p] /\ sent[p] <= MaxSend(p)
          /\ \A i \in 1 .. Len(out[p]) :
                IF out[p][i].acked THEN i <= nsent[p] /\ out[p][i].pay = 0
                ELSE out[p][i].pay = base[p] + i
      BY <1>3 DEF Forth, Queue
    <3>2. \A i \in 1 .. Len(out[p]) : i <= nsent[p] => i <= Limit(p)
      BY <1>5, <1>14
    <3>3. \A i \in 1 .. Len(out[p]) :
             IF out[p][i].acked THEN i <= Limit(p) /\ out[p][i].pay = 0
             ELSE out[p][i].pay = base[p] + i
      BY <3>1, <3>2, Zenon
    <3> QED BY <3>1, <3>3, <1>2, <1>5, <1>6 DEF Queue, MaxSend
  <2>2. Wire(p, q)'
    <3>1. ASSUME NEW k \in net'[q]
          PROVE  k.id = None \/ /\ k.id \in Nat /\ k.id < base[p] + Limit(p)
                                /\ k.pay = k.id + 1
      <4>1. CASE k \in net[q]
        <5>1. k.id = None \/ /\ k.id \in Nat /\ k.id < base[p] + nsent[p]
                             /\ k.pay = k.id + 1
          BY <4>1, <1>3 DEF Forth, Wire
        <5> QED BY <5>1, <1>14, <1>5
      <4>2. CASE k \in Packets(p, due)
        BY <4>2, <1>13
      <4> QED BY <4>1, <4>2, <1>9
    <3> QED BY <3>1, <1>2, <1>6 DEF Wire, None
  <2>3. Ring(p, q)'
    <3> SUFFICES ASSUME NEW s \in Slots, ring[q][s].id # None
                 PROVE  /\ ring[q][s].id > next[q] /\ ring[q][s].id <= next[q] + RecvWindow
                        /\ ring[q][s].id < base[p] + Limit(p)
                        /\ s = ring[q][s].id % RecvWindow
                        /\ ring[q][s].pay = ring[q][s].id + 1
      BY <1>2, <1>6 DEF Ring, Slots, None
    <3>1. /\ ring[q][s].id > next[q] /\ ring[q][s].id <= next[q] + RecvWindow
          /\ ring[q][s].id < base[p] + nsent[p]
          /\ s = ring[q][s].id % RecvWindow
          /\ ring[q][s].pay = ring[q][s].id + 1
      BY <1>3 DEF Forth, Ring
    <3>2. ring[q][s].id \in Nat
      <4>1. ring[q] \in [Slots -> Buffered]
        BY <1>1, <1>3, PeerTypes
      <4> QED BY <4>1 DEF Buffered
    <3> QED BY <3>1, <3>2, <1>5, <1>14
  <2>4. Got(p, q)'
    <3>1. got[q] = [i \in 1 .. next[q] |-> i] /\ next[q] <= base[p] + nsent[p]
      BY <1>3 DEF Forth, Got
    <3>2. next[q] <= base[p] + Limit(p)
      BY <3>1, <1>5, <1>14
    <3> QED BY <3>1, <3>2, <1>2, <1>6 DEF Got
  <2> QED BY <2>1, <2>2, <2>3, <2>4 DEF Forth
<1>16. Back(p, q)'
  BY <1>2, <1>3, <1>7, <1>8, <1>9, <1>11 DEF Back, Retired, AcksSeen
<1>17. Forth(q, p)'
  BY <1>2, <1>3, <1>6, <1>9 DEF Forth, Queue, Wire, Ring, Got, MaxSend, Slots, None
<1>18. Back(q, p)'
  <2>1. Range(acks[p]) \cup DOMAIN recent[p] \subseteq Seen(p)
    BY <1>3 DEF Back, AcksSeen
  <2>2. Range(acks'[p]) \subseteq Seen(p)'
    BY <1>7 DEF Range
  <2>3. DOMAIN recent'[p] \subseteq Seen(p)'
    BY <2>1, <1>8, <1>11, <1>12
  <2>4. \A k \in net'[q] : k.acks \subseteq Seen(p)'
    <3>1. \A k \in net[q] : k.acks \subseteq Seen(p)
      BY <1>3 DEF Back, AcksSeen
    <3>2. \A k \in Packets(p, due) : k.acks \subseteq Seen(p)
      BY <2>1, <1>13, Zenon
    <3> QED BY <3>1, <3>2, <1>9, <1>11
  <2>5. Retired(q, p)'
    BY <1>2, <1>3, <1>11 DEF Back, Retired
  <2> QED BY <2>2, <2>3, <2>4, <2>5 DEF Back, AcksSeen
<1>19. AckLists(p)' /\ AckLists(q)'
  <2>1. AckLists(p)'
    <3>1. IsInjective(<<>>) /\ Len(<<>>) <= MaxPending
      BY OptionFacts DEF IsInjective
    <3>2. IsInjective(acks'[p]) /\ Len(acks'[p]) <= MaxPending
      BY <3>1, <1>7
    <3> QED BY <3>2, <1>8, <1>12 DEF AckLists
  <2>2. AckLists(q)'
    BY <1>3, <1>7, <1>8 DEF AckLists
  <2> QED BY <2>1, <2>2
<1> QED BY <1>1, <1>10, <1>15, <1>16, <1>17, <1>18, <1>19, Zenon DEF Inv, Peers, Other

\* Send queues the next message.
LEMMA SendStep ==
    ASSUME Inv, NEW p \in Peers, Send(p)
    PROVE  Inv'
<1> DEFINE q == Other(p)
<1> DEFINE msg == [pay |-> sent[p] + 1, acked |-> FALSE]
<1> DEFINE o == Append(out[p], msg)
<1>1. q \in Peers /\ p # q /\ Other(p) = q /\ Other(q) = p /\ \A x \in Peers : x = p \/ x = q
  BY PeerFacts
<1> HIDE DEF q
<1>2. /\ sent[p] < MaxSend(p) /\ sent' = [sent EXCEPT ![p] = sent[p] + 1]
      /\ out' = [out EXCEPT ![p] = o]
      /\ UNCHANGED <<base, nsent, next, ring, acks, recent, net, odd, got>>
  BY DEF Send
<1>3. /\ Typed /\ Forth(p, q) /\ Back(p, q) /\ AckLists(p)
      /\ Forth(q, p) /\ Back(q, p) /\ AckLists(q)
  BY <1>1, Zenon DEF Inv
<1>4. /\ out[p] \in Seq(Message) /\ Len(out[p]) \in Nat /\ base[p] \in Nat /\ nsent[p] \in Nat
      /\ sent[p] \in Nat /\ MaxSend(p) \in Nat
  BY <1>3, PeerTypes, PeerFacts
<1>5. msg \in Message
  BY <1>4 DEF Message
<1>6. /\ o \in Seq(Message) /\ Len(o) = Len(out[p]) + 1
      /\ \A i \in 1 .. Len(out[p]) : o[i] = out[p][i]
      /\ o[Len(out[p]) + 1] = msg
  <2> HIDE DEF msg
  <2> QED BY <1>4, <1>5
<1>7. msg.pay = sent[p] + 1 /\ ~ msg.acked
  OBVIOUS
<1> HIDE DEF msg, o
<1>8. out' \in [Peers -> Seq(Message)] /\ out'[p] = o /\ out'[q] = out[q]
  BY <1>1, <1>2, <1>3, <1>6, Updated DEF Typed
<1>9. sent' \in [Peers -> Nat] /\ sent'[p] = sent[p] + 1 /\ sent'[q] = sent[q]
  <2>1. sent[p] + 1 \in Nat
    BY <1>4
  <2> QED BY <2>1, <1>1, <1>2, <1>3, Updated DEF Typed
<1>10. Typed'
  <2>1. /\ base' = base /\ nsent' = nsent /\ next' = next /\ ring' = ring /\ acks' = acks
        /\ recent' = recent /\ net' = net /\ odd' = odd /\ got' = got
    BY <1>2
  <2> QED BY <2>1, <1>3, <1>8, <1>9, Zenon DEF Typed, Buffered, Slots, Message, Peers, None
<1>11. Seen(p)' = Seen(p) /\ Seen(q)' = Seen(q)
  BY <1>2 DEF Seen, Slots
<1>12. /\ base[p] + Len(out[p]) = sent[p]
       /\ nsent[p] <= Len(out[p]) /\ nsent[p] <= SendWindow
       /\ \A i \in 1 .. Len(out[p]) :
             IF out[p][i].acked THEN i <= nsent[p] /\ out[p][i].pay = 0
             ELSE out[p][i].pay = base[p] + i
  BY <1>3 DEF Forth, Queue
<1>13. Queue(p)'
  <2>1. /\ base[p] + Len(o) = sent[p] + 1 /\ sent[p] + 1 <= MaxSend(p)
        /\ nsent[p] <= Len(o)
    <3>1. /\ base[p] + Len(out[p]) = sent[p] /\ nsent[p] <= Len(out[p])
          /\ Len(o) = Len(out[p]) + 1 /\ sent[p] < MaxSend(p)
      BY <1>2, <1>6, <1>12
    <3> QED BY <3>1, <1>4
  <2>2. ASSUME NEW i \in 1 .. Len(o)
        PROVE  IF o[i].acked THEN i <= nsent[p] /\ o[i].pay = 0 ELSE o[i].pay = base[p] + i
    <3>1. CASE i \in 1 .. Len(out[p])
      BY <3>1, <1>6, <1>12
    <3>2. CASE i = Len(out[p]) + 1
      <4>0. base[p] + Len(out[p]) = sent[p]
        BY <1>12
      <4>1. o[i] = msg
        BY <3>2, <1>6
      <4>2. base[p] + i = sent[p] + 1
        BY <3>2, <4>0, <1>4
      <4> QED BY <4>1, <4>2, <1>7
    <3> QED BY <3>1, <3>2, <1>4, <1>6
  <2> QED BY <2>1, <2>2, <1>2, <1>8, <1>9, <1>12 DEF Queue, MaxSend
<1>14. Forth(p, q)'
  BY <1>13, <1>2, <1>3 DEF Forth, Wire, Ring, Got, Slots, None
<1>15. Back(p, q)'
  <2>1. ASSUME NEW i \in 1 .. Len(o), o[i].acked PROVE base[p] + i - 1 \in Seen(q)
    <3>1. i \in 1 .. Len(out[p])
      <4>1. i # Len(out[p]) + 1
        BY <2>1, <1>6, <1>7
      <4> QED BY <4>1, <1>4, <1>6
    <3> QED BY <3>1, <2>1, <1>3, <1>6 DEF Back, Retired
  <2>2. Retired(p, q)'
    BY <2>1, <1>2, <1>3, <1>8, <1>11 DEF Back, Retired
  <2>3. AcksSeen(p, q)'
    BY <1>2, <1>3, <1>11 DEF Back, AcksSeen
  <2> QED BY <2>2, <2>3 DEF Back
<1>16. Forth(q, p)'
  BY <1>2, <1>3, <1>8, <1>9 DEF Forth, Queue, Wire, Ring, Got, MaxSend, Slots, None
<1>17. Back(q, p)'
  BY <1>2, <1>3, <1>8, <1>11 DEF Back, Retired, AcksSeen
<1>18. AckLists(p)' /\ AckLists(q)'
  BY <1>2, <1>3 DEF AckLists
<1> QED BY <1>1, <1>10, <1>14, <1>15, <1>16, <1>17, <1>18, Zenon DEF Inv, Peers, Other

\* Losing packets, or nothing, disturbs nothing.
LEMMA FewerPackets ==
    ASSUME Inv, net' = [x \in Peers |-> net'[x]], \A x \in Peers : net'[x] \subseteq net[x],
           UNCHANGED <<out, base, nsent, next, ring, acks, recent, odd, sent, got>>
    PROVE  Inv'
<1>1. UNCHANGED <<out, base, nsent, next, ring, acks, recent, odd, sent, got>>
  OBVIOUS
<1>2. Typed
  BY DEF Inv
<1>3. net' = [x \in Peers |-> net'[x]] /\ \A x \in Peers : net'[x] \subseteq net[x]
  OBVIOUS
<1>4. Typed'
  <2>1. /\ out' = out /\ base' = base /\ nsent' = nsent /\ next' = next /\ ring' = ring
        /\ acks' = acks /\ recent' = recent /\ odd' = odd /\ sent' = sent /\ got' = got
    BY <1>1
  <2> QED BY <2>1, <1>2, <1>3, Zenon DEF Typed, Buffered, Slots, Message, Peers, None
<1>5. ASSUME NEW x \in Peers, NEW y \in Peers, y = Other(x)
      PROVE  Forth(x, y)' /\ Back(x, y)' /\ AckLists(x)'
  <2>1. Forth(x, y) /\ Back(x, y) /\ AckLists(x)
    BY <1>5 DEF Inv
  <2>2. Seen(y)' = Seen(y)
    BY <1>1 DEF Seen, Slots
  <2>3. Forth(x, y)'
    BY <2>1, <1>1, <1>3 DEF Forth, Queue, Wire, Ring, Got, MaxSend, Slots, None
  <2>4. Back(x, y)'
    BY <2>1, <2>2, <1>1, <1>3 DEF Back, Retired, AcksSeen
  <2>5. AckLists(x)'
    BY <2>1, <1>1 DEF AckLists
  <2> QED BY <2>3, <2>4, <2>5
<1> QED BY <1>4, <1>5, PeerFacts DEF Inv, Peers, Other

\* The network loses a packet.
LEMMA LoseStep ==
    ASSUME Inv, NEW p \in Peers, NEW k \in net[p], Lose(p, k)
    PROVE  Inv'
<1>1. /\ net' = [net EXCEPT ![p] = @ \ {k}]
      /\ UNCHANGED <<out, base, nsent, next, ring, acks, recent, odd, sent, got>>
  BY DEF Lose
<1>2. net' = [x \in Peers |-> net'[x]] /\ \A x \in Peers : net'[x] \subseteq net[x]
  BY <1>1 DEF Inv, Typed
<1> QED BY <1>1, <1>2, FewerPackets

\* Nothing happens.
LEMMA Stutter == ASSUME Inv, UNCHANGED vars PROVE Inv'
<1>1. net' = net /\ UNCHANGED <<out, base, nsent, next, ring, acks, recent, odd, sent, got>>
  BY DEF vars
<1>2. net' = [x \in Peers |-> net'[x]] /\ \A x \in Peers : net'[x] \subseteq net[x]
  BY <1>1 DEF Inv, Typed
<1> QED BY <1>1, <1>2, FewerPackets

\* Every step keeps the invariant.
LEMMA NextInv == Inv /\ [Next]_vars => Inv'
<1> SUFFICES ASSUME Inv, [Next]_vars PROVE Inv'
  OBVIOUS
<1>1. ASSUME NEW p \in Peers, Send(p) PROVE Inv'
  BY <1>1, SendStep
<1>2. ASSUME NEW p \in Peers, NEW due \in SUBSET InFlight(p), Poll(p, due) PROVE Inv'
  BY <1>2, PollStep
<1>3. ASSUME NEW p \in Peers, NEW k \in net[p], Receive(p, k) PROVE Inv'
  BY <1>3, ReceiveStep
<1>4. ASSUME NEW p \in Peers, NEW k \in net[p], Lose(p, k) PROVE Inv'
  BY <1>4, LoseStep
<1>5. CASE UNCHANGED vars
  BY <1>5, Stutter
<1>6. CASE Finished
  <2>1. UNCHANGED vars
    BY <1>6, Zenon DEF Finished
  <2> QED BY <2>1, Stutter
<1> QED BY <1>1, <1>2, <1>3, <1>4, <1>5, <1>6, Zenon DEF Next

-----------------------------------------------------------------------------
(* The theorems.                                                           *)

\* Whatever the network loses, repeats and reorders, a message leaves the send
\* queue only when the peer has it, an ack is only ever for a message that was
\* seen, and the peer has room for whatever is on the wire (reliable.go: Receive,
\* retire, pop, Poll), for every window and every bound on acks.
THEOREM LayersSafe == Spec => []LayerInv
<1>1. Init => Inv
  BY InitInv
<1>2. Inv /\ [Next]_vars => Inv'
  BY NextInv
<1>3. Inv => LayerInv
  BY InvImplies
<1> QED BY <1>1, <1>2, <1>3, PTL DEF Spec

\* A delivery hands over the next messages of the other side, which has sent them.
LEMMA ReceiveDelivers ==
    ASSUME Inv, NEW a \in Peers, NEW k \in net[a], Receive(a, k)
    PROVE  Channel!Deliver(Other(a), a) \/ UNCHANGED <<sent, got>>
<1> DEFINE b == Other(a)
<1>1. b \in Peers /\ a # b /\ Other(b) = a
  BY PeerFacts
<1> HIDE DEF b
<1>2. Typed /\ Forth(b, a) /\ Back(b, a) /\ AckLists(a)
  BY <1>1, Zenon DEF Inv
<1>3. sent' = sent
  BY DEF Receive
<1>4. CASE InOrder(a, k.id, k.pay)
  <2>1. Receiving(a, b)
    BY <1>2, Zenon DEF Receiving, Forth, Back, AcksSeen
  <2>2. base'[b] = base[b] /\ nsent'[b] = nsent[b]
    BY <1>1, <1>2 DEF Receive, ReceiveAcks, Typed
  <2>3. next[a] \in Nat /\ got[a] \in Seq(Nat) /\ base[b] \in Nat /\ nsent[b] \in Nat
        /\ sent[b] \in Nat /\ out[b] \in Seq(Message)
    BY <1>1, <1>2, PeerTypes
  <2>4. Genuine(b, k.id, k.pay)
    BY <1>2, <1>4, <2>3 DEF Forth, Wire, Genuine, InOrder, None
  <2>5. Received(a, b) /\ next'[a] > next[a]
    BY <1>1, <1>4, <2>1, <2>2, <2>4, InOrderStep
  <2>6. next'[a] \in Nat
    BY <2>5 DEF Received
  <2>7. Len(got[a]) = next[a]
    <3>1. got[a] = [i \in 1 .. next[a] |-> i]
      BY <1>2 DEF Forth, Got
    <3> QED BY <3>1, <2>3
  <2>8. next'[a] <= sent[b]
    <3>1. next'[a] <= base[b] + nsent[b]
      BY <2>2, <2>5 DEF Received, Got
    <3>2. base[b] + Len(out[b]) = sent[b] /\ nsent[b] <= Len(out[b]) /\ Len(out[b]) \in Nat
      BY <1>2, <2>3 DEF Forth, Queue
    <3> QED BY <3>1, <3>2, <2>3, <2>6
  <2>9. next'[a] \in (Len(got[a]) + 1) .. sent[b]
    BY <2>3, <2>5, <2>6, <2>7, <2>8
  <2>10. got'[a] = [i \in 1 .. next'[a] |-> i]
    BY <2>5 DEF Received, Got
  <2>11. got' = [got EXCEPT ![a] = [i \in 1 .. next'[a] |-> i]]
    <3>1. got' = [got EXCEPT ![a] = got'[a]]
      BY <1>2, <1>4 DEF InOrder, Typed
    <3> QED BY <3>1, <2>10
  <2>12. Channel!Deliver(b, a)
    BY <2>9, <2>11, <1>3 DEF Channel!Deliver
  <2> QED BY <2>12 DEF b
<1>5. CASE ~ InOrder(a, k.id, k.pay)
  <2>1. got' = got
    BY <1>5 DEF Receive, Duplicate, Ahead, Ignored
  <2> QED BY <2>1, <1>3
<1> QED BY <1>4, <1>5

\* What an owner receives is an initial part of what the other owner sent, in
\* order and once: every step of the two layers is a step of InOrderDelivery or
\* leaves it alone (reliable.go: Send, Receive, drain).
THEOREM DeliveryInOrder == Spec => ImplementsInOrderDelivery
<1>1. Init => Inv
  BY InitInv
<1>2. Inv /\ [Next]_vars => Inv'
  BY NextInv
<1>3. Init => Channel!Init
  BY DEF Init, Channel!Init
<1>4. ASSUME Inv, [Next]_vars PROVE [Channel!Next]_(Channel!vars)
  <2> SUFFICES Channel!Next \/ UNCHANGED <<sent, got>>
    BY DEF Channel!vars
  <2>1. ASSUME NEW p \in Peers, Send(p) PROVE Channel!Next
    <3>1. Channel!Send(p)
      BY <2>1 DEF Send, Channel!Send
    <3>2. Other(p) \in Peers /\ p # Other(p)
      BY PeerFacts
    <3> QED BY <3>1, <3>2, Zenon DEF Channel!Next
  <2>2. ASSUME NEW p \in Peers, NEW due \in SUBSET InFlight(p), Poll(p, due)
        PROVE  UNCHANGED <<sent, got>>
    BY <2>2 DEF Poll
  <2>3. ASSUME NEW p \in Peers, NEW k \in net[p], Receive(p, k)
        PROVE  Channel!Next \/ UNCHANGED <<sent, got>>
    <3>1. CASE Channel!Deliver(Other(p), p)
      <4>1. Other(p) \in Peers /\ p # Other(p)
        BY PeerFacts
      <4> QED BY <3>1, <4>1, Zenon DEF Channel!Next
    <3> QED BY <1>4, <2>3, <3>1, ReceiveDelivers
  <2>4. ASSUME NEW p \in Peers, NEW k \in net[p], Lose(p, k)
        PROVE  UNCHANGED <<sent, got>>
    BY <2>4 DEF Lose
  <2>5. ASSUME UNCHANGED vars PROVE UNCHANGED <<sent, got>>
    BY <2>5 DEF vars
  <2>6. ASSUME Finished PROVE UNCHANGED <<sent, got>>
    BY <2>6, <2>5, Zenon DEF Finished
  <2> QED BY <1>4, <2>1, <2>2, <2>3, <2>4, <2>5, <2>6, Zenon DEF Next
<1> QED BY <1>1, <1>2, <1>3, <1>4, PTL DEF Spec, ImplementsInOrderDelivery, Channel!Spec
=============================================================================
