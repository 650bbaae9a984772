-------------------------- MODULE OrbitStream_proof --------------------------
(***************************************************************************)
(* FlowInv of OrbitStream for every load, limit, capacity and number of    *)
(* ticks: by an inductive invariant that says, for each direction of the   *)
(* flow, which frames may be where.                                        *)
(***************************************************************************)
EXTENDS OrbitStream, TLAPS

Stream == [st : States, load : Nat, known : BOOLEAN, closed : BOOLEAN,
           noRead : BOOLEAN, peerNoRead : BOOLEAN, remoteFull : BOOLEAN,
           remoteOff : Nat, full : BOOLEAN, received : Nat, consumed : Nat,
           sent : Nat, writing : BOOLEAN]

Typed ==
    /\ s \in [Ends -> Stream]
    /\ owner \in [Ends -> {"nobody", "opener", "queue", "app"}]
    /\ out \in [Ends -> Seq(Frames)] /\ wire \in [Ends -> Seq(Frames)]
    /\ note \in [Ends -> [Threads -> Frames \cup {Nothing}]]

Caps(e) ==
    /\ Len(out[e]) <= OutCap /\ Len(wire[e]) <= WireCap
    /\ s[e].consumed <= s[e].received /\ s[e].sent <= s[e].load
    /\ s[e].writing => s[e].sent < s[e].load

\* The states of a flow that its own application has not closed, and of one that it
\* has: an abandoned Open leaves the state as it was.
Status(e) ==
    /\ ~s[e].closed => /\ s[e].st \in {"none", "opening", "open", "peer_closed"}
                       /\ s[e].known <=> s[e].st # "none"
    /\ s[e].closed => /\ s[e].st # "none"
                      /\ s[e].known => s[e].st \in {"closing", "gone"}
    /\ s[e].st = "gone" => ~s[e].known
    /\ s[e].st \in {"closing", "gone"} => s[e].closed

-----------------------------------------------------------------------------
(* What a queue of frames may hold.                                        *)

Lacks(q, k) == \A i \in 1..Len(q) : q[i].t # k
NoClose(q) == Lacks(q, "close") /\ Lacks(q, "close_ack")

\* Data is in q only while its Write waits, and then once, with the offset n.
OneData(q, writing, n) ==
    \A i \in 1..Len(q) : q[i].t = "data" =>
        /\ writing /\ q[i].n = n
        /\ \A j \in 1..Len(q) : q[j].t = "data" => j = i

\* No data follows a close.
CloseOrder(q) ==
    \A i \in 1..Len(q), j \in 1..Len(q) :
        q[i].t \in {"close", "close_ack"} /\ i < j => q[j].t # "data"

\* The data in q has the offsets from lo to below hi, all of them and in order.
Run(q, lo, hi) ==
    /\ lo <= hi
    /\ \A i \in 1..Len(q) : q[i].t = "data" => lo <= q[i].n /\ q[i].n < hi
    /\ \A i \in 1..Len(q), j \in 1..Len(q) :
        q[i].t = "data" /\ q[j].t = "data" /\ i < j => q[i].n < q[j].n
    /\ \A m \in Nat : lo <= m /\ m < hi =>
        \E i \in 1..Len(q) : q[i].t = "data" /\ q[i].n = m

\* A response is ahead of all data; a connect is the first frame.
Answered(q) ==
    \A i \in 1..Len(q) : q[i].t = "data" =>
        \E j \in 1..Len(q) : j < i /\ q[j].t = "response"
ConnectOnlyFirst(q) == \A i \in 1..Len(q) : q[i].t = "connect" => i = 1

\* No thread's notice is of kind k; no thread has a notice.
Spares(m, k) == \A t \in Threads : m[t].t # k
Idle(m) == \A t \in Threads : m[t] = Nothing

-----------------------------------------------------------------------------
(* The inductive invariant, part by part: o is the sender of a direction   *)
(* and e its receiver.                                                     *)

OutData(o) ==
    /\ OneData(out[o], s[o].writing, s[o].sent)
    /\ Spares(note[o], "data") /\ Spares(note[o], "connect")

\* While the session is up, the data on the way to e has the offsets from the received
\* to the sent one, in order.
Numbered(o, e) ==
    ended = <<>> /\ ~s[e].closed => Run(wire[o], s[e].received, s[o].sent)

\* The server has not taken the flow.
Refused ==
    /\ s["server"].st = "none" /\ s["client"].st # "none"
    /\ Lacks(wire["client"], "connect") /\ Lacks(out["client"], "connect")

\* o does not write any more, and never will: it or its peer has closed the flow, or
\* there is none.
Quit(o) ==
    \/ s[o].st \in {"peer_closed", "closing", "gone"} \/ s[o].closed
    \/ o = "server" /\ Refused

\* No data follows a close, and an end that has sent one, or is about to, has quit.
CloseLast(o) ==
    /\ CloseOrder(wire[o]) /\ CloseOrder(out[o])
    /\ NoClose(wire[o]) \/ Lacks(out[o], "data")
    /\ \/ Quit(o)
       \/ /\ NoClose(wire[o]) /\ NoClose(out[o])
          /\ Spares(note[o], "close") /\ Spares(note[o], "close_ack")

\* An end that has seen its peer's close has had all its data.
PeerClosed(o, e) ==
    s[e].st = "peer_closed" =>
        /\ Quit(o) /\ Lacks(wire[o], "data") /\ Lacks(out[o], "data")
        /\ s[e].received >= s[o].sent

\* The connect is the first frame of the client ...
ConnectFirst ==
    /\ ConnectOnlyFirst(wire["client"]) /\ ConnectOnlyFirst(out["client"])
    /\ Lacks(out["client"], "connect") \/ wire["client"] = <<>>
    /\ s["client"].st = "none" =>
        /\ wire["client"] = <<>> /\ out["client"] = <<>> /\ Idle(note["client"])
        /\ owner["client"] \notin {"app", "opener"}

\* ... and the server is silent until it has it.
Silent ==
    \/ /\ s["client"].st # "none"
       /\ Lacks(wire["client"], "connect") /\ Lacks(out["client"], "connect")
    \/ /\ s["server"].st = "none" /\ ~s["server"].closed /\ owner["server"] # "app"
       /\ wire["server"] = <<>> /\ out["server"] = <<>> /\ Idle(note["server"])

\* Before the server has accepted, there is neither response nor data.
BeforeAccept ==
    s["server"].st \in {"none", "opening"} =>
        /\ s["client"].st # "open"
        /\ Lacks(wire["client"], "data") /\ Lacks(out["client"], "data")
        /\ Lacks(wire["server"], "data") /\ Lacks(out["server"], "data")
        /\ Lacks(wire["server"], "response") /\ Lacks(out["server"], "response")
        /\ Spares(note["server"], "response")

\* While the client waits for the answer, the answer is ahead of the server's data.
ResponseFirst ==
    s["client"].st = "opening" /\ ~s["client"].closed =>
        /\ Answered(wire["server"])
        /\ Answered(out["server"]) \/ ~Lacks(wire["server"], "response")
        /\ s["server"].st = "open" =>
            \/ note["server"]["app"].t = "response"
            \/ ~Lacks(wire["server"], "response") \/ ~Lacks(out["server"], "response")

IInv ==
    /\ Typed
    /\ \A e \in Ends : Caps(e) /\ Status(e) /\ OutData(e) /\ CloseLast(e)
    /\ Numbered("server", "client") /\ PeerClosed("server", "client")
    /\ Numbered("client", "server") /\ PeerClosed("client", "server")
    /\ ConnectFirst /\ Silent /\ BeforeAccept /\ ResponseFirst
    /\ EndedForAReason

-----------------------------------------------------------------------------
(* Frames and ends.                                                        *)

\* A session has two ends, each the other of the other.
LEMMA TheEnds ==
    /\ "client" \in Ends /\ "server" \in Ends
    /\ Other("client") = "server" /\ Other("server") = "client"
    /\ \A e \in Ends : e = "client" \/ e = "server"
  BY DEF Ends, Other

\* A thread without a notice holds no frame.
LEMMA NothingIs == Nothing \notin Frames /\ Nothing.t = "nothing"
  BY DEF Nothing, Frames

Kinds == {"connect", "response", "data", "full", "resume", "close", "close_ack", "read_close"}

\* What Frame makes, and what is in Frames.
LEMMA FrameIs ==
    /\ \A t \in Kinds, n \in Nat :
        Frame(t, n) \in Frames /\ Frame(t, n).t = t /\ Frame(t, n).n = n
    /\ \A f \in Frames : f.t \in Kinds /\ f.n \in Nat
    /\ Connect \in Frames /\ Connect.t = "connect" /\ Connect # Nothing
  BY DEF Frame, Frames, Kinds, Connect, Nothing

-----------------------------------------------------------------------------
(* What the updates of a Stream change, and what they leave alone: for     *)
(* each group of fields that an action assigns, the update, what holds of  *)
(* its result g, and the lemma that says so.                               *)

\* WriteLoop, with data.
SetWritingSent(f, e, a, b) == [f EXCEPT ![e].writing = a, ![e].sent = b]
IsSetWritingSent(g, f, e, a, b) ==
    /\ g \in [Ends -> Stream] /\ \A x \in Ends : x # e => g[x] = f[x]
    /\ g[e].writing = a /\ g[e].sent = b
    /\ g[e].st = f[e].st /\ g[e].load = f[e].load /\ g[e].known = f[e].known
    /\ g[e].closed = f[e].closed /\ g[e].received = f[e].received /\ g[e].consumed = f[e].consumed

\* The update of writing and sent leaves the other fields, and the other end, alone.
LEMMA SetWritingSentIs ==
    ASSUME NEW f \in [Ends -> Stream], NEW e \in Ends, NEW a \in BOOLEAN, NEW b \in Nat
    PROVE  IsSetWritingSent(SetWritingSent(f, e, a, b), f, e, a, b)
  <1> DEFINE r == [f[e] EXCEPT !.writing = a, !.sent = b]
             g == SetWritingSent(f, e, a, b)
  <1>1. r \in Stream
    BY Zenon DEF Stream
  <1>2. /\ r.writing = a /\ r.sent = b
        /\ r.st = f[e].st /\ r.load = f[e].load /\ r.known = f[e].known
        /\ r.closed = f[e].closed /\ r.received = f[e].received /\ r.consumed = f[e].consumed
    BY Zenon DEF Stream
  <1>3. g = [f EXCEPT ![e] = r]
    BY Zenon DEF SetWritingSent
  <1> HIDE DEF r, g
  <1>4. g \in [Ends -> Stream]
    BY <1>1, <1>3, Zenon
  <1>5. g[e] = r /\ \A x \in Ends : x # e => g[x] = f[x]
    BY <1>3, Zenon
  <1>6. IsSetWritingSent(g, f, e, a, b)
    BY <1>2, <1>4, <1>5, Zenon DEF IsSetWritingSent
  <1> QED
    BY <1>6 DEF g

\* Open, HandleConnect and PeerCloses.
SetStKnown(f, e, a, b) == [f EXCEPT ![e].st = a, ![e].known = b]
IsSetStKnown(g, f, e, a, b) ==
    /\ g \in [Ends -> Stream] /\ \A x \in Ends : x # e => g[x] = f[x]
    /\ g[e].st = a /\ g[e].known = b
    /\ g[e].load = f[e].load /\ g[e].closed = f[e].closed /\ g[e].received = f[e].received
    /\ g[e].consumed = f[e].consumed /\ g[e].sent = f[e].sent /\ g[e].writing = f[e].writing

\* The update of st and known leaves the other fields, and the other end, alone.
LEMMA SetStKnownIs ==
    ASSUME NEW f \in [Ends -> Stream], NEW e \in Ends, NEW a \in States, NEW b \in BOOLEAN
    PROVE  IsSetStKnown(SetStKnown(f, e, a, b), f, e, a, b)
  <1> DEFINE r == [f[e] EXCEPT !.st = a, !.known = b]
             g == SetStKnown(f, e, a, b)
  <1>1. r \in Stream
    BY Zenon DEF Stream
  <1>2. /\ r.st = a /\ r.known = b
        /\ r.load = f[e].load /\ r.closed = f[e].closed /\ r.received = f[e].received
        /\ r.consumed = f[e].consumed /\ r.sent = f[e].sent /\ r.writing = f[e].writing
    BY Zenon DEF Stream
  <1>3. g = [f EXCEPT ![e] = r]
    BY Zenon DEF SetStKnown
  <1> HIDE DEF r, g
  <1>4. g \in [Ends -> Stream]
    BY <1>1, <1>3, Zenon
  <1>5. g[e] = r /\ \A x \in Ends : x # e => g[x] = f[x]
    BY <1>3, Zenon
  <1>6. IsSetStKnown(g, f, e, a, b)
    BY <1>2, <1>4, <1>5, Zenon DEF IsSetStKnown
  <1> QED
    BY <1>6 DEF g

\* HandleConnect, of a flow that is rejected.
SetStKnownClosed(f, e, a, b, c) == [f EXCEPT ![e].st = a, ![e].known = b, ![e].closed = c]
IsSetStKnownClosed(g, f, e, a, b, c) ==
    /\ g \in [Ends -> Stream] /\ \A x \in Ends : x # e => g[x] = f[x]
    /\ g[e].st = a /\ g[e].known = b /\ g[e].closed = c
    /\ g[e].load = f[e].load /\ g[e].received = f[e].received /\ g[e].consumed = f[e].consumed
    /\ g[e].sent = f[e].sent /\ g[e].writing = f[e].writing

\* The update of st, known and closed leaves the other fields, and the other end, alone.
LEMMA SetStKnownClosedIs ==
    ASSUME NEW f \in [Ends -> Stream], NEW e \in Ends, NEW a \in States,
           NEW b \in BOOLEAN, NEW c \in BOOLEAN
    PROVE  IsSetStKnownClosed(SetStKnownClosed(f, e, a, b, c), f, e, a, b, c)
  <1> DEFINE r == [f[e] EXCEPT !.st = a, !.known = b, !.closed = c]
             g == SetStKnownClosed(f, e, a, b, c)
  <1>1. r \in Stream
    BY Zenon DEF Stream
  <1>2. /\ r.st = a /\ r.known = b /\ r.closed = c
        /\ r.load = f[e].load /\ r.received = f[e].received /\ r.consumed = f[e].consumed
        /\ r.sent = f[e].sent /\ r.writing = f[e].writing
    BY Zenon DEF Stream
  <1>3. g = [f EXCEPT ![e] = r]
    BY Zenon DEF SetStKnownClosed
  <1> HIDE DEF r, g
  <1>4. g \in [Ends -> Stream]
    BY <1>1, <1>3, Zenon
  <1>5. g[e] = r /\ \A x \in Ends : x # e => g[x] = f[x]
    BY <1>3, Zenon
  <1>6. IsSetStKnownClosed(g, f, e, a, b, c)
    BY <1>2, <1>4, <1>5, Zenon DEF IsSetStKnownClosed
  <1> QED
    BY <1>6 DEF g

\* OpenFails.
SetClosedKnown(f, e, a, b) == [f EXCEPT ![e].closed = a, ![e].known = b]
IsSetClosedKnown(g, f, e, a, b) ==
    /\ g \in [Ends -> Stream] /\ \A x \in Ends : x # e => g[x] = f[x]
    /\ g[e].closed = a /\ g[e].known = b
    /\ g[e].st = f[e].st /\ g[e].load = f[e].load /\ g[e].received = f[e].received
    /\ g[e].consumed = f[e].consumed /\ g[e].sent = f[e].sent /\ g[e].writing = f[e].writing

\* The update of closed and known leaves the other fields, and the other end, alone.
LEMMA SetClosedKnownIs ==
    ASSUME NEW f \in [Ends -> Stream], NEW e \in Ends, NEW a \in BOOLEAN, NEW b \in BOOLEAN
    PROVE  IsSetClosedKnown(SetClosedKnown(f, e, a, b), f, e, a, b)
  <1> DEFINE r == [f[e] EXCEPT !.closed = a, !.known = b]
             g == SetClosedKnown(f, e, a, b)
  <1>1. r \in Stream
    BY Zenon DEF Stream
  <1>2. /\ r.closed = a /\ r.known = b
        /\ r.st = f[e].st /\ r.load = f[e].load /\ r.received = f[e].received
        /\ r.consumed = f[e].consumed /\ r.sent = f[e].sent /\ r.writing = f[e].writing
    BY Zenon DEF Stream
  <1>3. g = [f EXCEPT ![e] = r]
    BY Zenon DEF SetClosedKnown
  <1> HIDE DEF r, g
  <1>4. g \in [Ends -> Stream]
    BY <1>1, <1>3, Zenon
  <1>5. g[e] = r /\ \A x \in Ends : x # e => g[x] = f[x]
    BY <1>3, Zenon
  <1>6. IsSetClosedKnown(g, f, e, a, b)
    BY <1>2, <1>4, <1>5, Zenon DEF IsSetClosedKnown
  <1> QED
    BY <1>6 DEF g

\* CloseBy.
SetClosedStKnown(f, e, a, b, c) == [f EXCEPT ![e].closed = a, ![e].st = b, ![e].known = c]
IsSetClosedStKnown(g, f, e, a, b, c) ==
    /\ g \in [Ends -> Stream] /\ \A x \in Ends : x # e => g[x] = f[x]
    /\ g[e].closed = a /\ g[e].st = b /\ g[e].known = c
    /\ g[e].load = f[e].load /\ g[e].received = f[e].received /\ g[e].consumed = f[e].consumed
    /\ g[e].sent = f[e].sent /\ g[e].writing = f[e].writing

\* The update of closed, st and known leaves the other fields, and the other end, alone.
LEMMA SetClosedStKnownIs ==
    ASSUME NEW f \in [Ends -> Stream], NEW e \in Ends, NEW a \in BOOLEAN,
           NEW b \in States, NEW c \in BOOLEAN
    PROVE  IsSetClosedStKnown(SetClosedStKnown(f, e, a, b, c), f, e, a, b, c)
  <1> DEFINE r == [f[e] EXCEPT !.closed = a, !.st = b, !.known = c]
             g == SetClosedStKnown(f, e, a, b, c)
  <1>1. r \in Stream
    BY Zenon DEF Stream
  <1>2. /\ r.closed = a /\ r.st = b /\ r.known = c
        /\ r.load = f[e].load /\ r.received = f[e].received /\ r.consumed = f[e].consumed
        /\ r.sent = f[e].sent /\ r.writing = f[e].writing
    BY Zenon DEF Stream
  <1>3. g = [f EXCEPT ![e] = r]
    BY Zenon DEF SetClosedStKnown
  <1> HIDE DEF r, g
  <1>4. g \in [Ends -> Stream]
    BY <1>1, <1>3, Zenon
  <1>5. g[e] = r /\ \A x \in Ends : x # e => g[x] = f[x]
    BY <1>3, Zenon
  <1>6. IsSetClosedStKnown(g, f, e, a, b, c)
    BY <1>2, <1>4, <1>5, Zenon DEF IsSetClosedStKnown
  <1> QED
    BY <1>6 DEF g

\* StreamAccept and HandleResponse.
SetSt(f, e, a) == [f EXCEPT ![e].st = a]
IsSetSt(g, f, e, a) ==
    /\ g \in [Ends -> Stream] /\ \A x \in Ends : x # e => g[x] = f[x]
    /\ g[e].st = a
    /\ g[e].load = f[e].load /\ g[e].known = f[e].known /\ g[e].closed = f[e].closed
    /\ g[e].received = f[e].received /\ g[e].consumed = f[e].consumed /\ g[e].sent = f[e].sent
    /\ g[e].writing = f[e].writing

\* The update of st leaves the other fields, and the other end, alone.
LEMMA SetStIs ==
    ASSUME NEW f \in [Ends -> Stream], NEW e \in Ends, NEW a \in States
    PROVE  IsSetSt(SetSt(f, e, a), f, e, a)
  <1> DEFINE r == [f[e] EXCEPT !.st = a]
             g == SetSt(f, e, a)
  <1>1. r \in Stream
    BY Zenon DEF Stream
  <1>2. /\ r.st = a
        /\ r.load = f[e].load /\ r.known = f[e].known /\ r.closed = f[e].closed
        /\ r.received = f[e].received /\ r.consumed = f[e].consumed /\ r.sent = f[e].sent
        /\ r.writing = f[e].writing
    BY Zenon DEF Stream
  <1>3. g = [f EXCEPT ![e] = r]
    BY Zenon DEF SetSt
  <1> HIDE DEF r, g
  <1>4. g \in [Ends -> Stream]
    BY <1>1, <1>3, Zenon
  <1>5. g[e] = r /\ \A x \in Ends : x # e => g[x] = f[x]
    BY <1>3, Zenon
  <1>6. IsSetSt(g, f, e, a)
    BY <1>2, <1>4, <1>5, Zenon DEF IsSetSt
  <1> QED
    BY <1>6 DEF g

\* Write and WriteGivesUp.
SetWriting(f, e, a) == [f EXCEPT ![e].writing = a]
IsSetWriting(g, f, e, a) ==
    /\ g \in [Ends -> Stream] /\ \A x \in Ends : x # e => g[x] = f[x]
    /\ g[e].writing = a
    /\ g[e].st = f[e].st /\ g[e].load = f[e].load /\ g[e].known = f[e].known
    /\ g[e].closed = f[e].closed /\ g[e].received = f[e].received /\ g[e].consumed = f[e].consumed
    /\ g[e].sent = f[e].sent

\* The update of writing leaves the other fields, and the other end, alone.
LEMMA SetWritingIs ==
    ASSUME NEW f \in [Ends -> Stream], NEW e \in Ends, NEW a \in BOOLEAN
    PROVE  IsSetWriting(SetWriting(f, e, a), f, e, a)
  <1> DEFINE r == [f[e] EXCEPT !.writing = a]
             g == SetWriting(f, e, a)
  <1>1. r \in Stream
    BY Zenon DEF Stream
  <1>2. /\ r.writing = a
        /\ r.st = f[e].st /\ r.load = f[e].load /\ r.known = f[e].known
        /\ r.closed = f[e].closed /\ r.received = f[e].received /\ r.consumed = f[e].consumed
        /\ r.sent = f[e].sent
    BY Zenon DEF Stream
  <1>3. g = [f EXCEPT ![e] = r]
    BY Zenon DEF SetWriting
  <1> HIDE DEF r, g
  <1>4. g \in [Ends -> Stream]
    BY <1>1, <1>3, Zenon
  <1>5. g[e] = r /\ \A x \in Ends : x # e => g[x] = f[x]
    BY <1>3, Zenon
  <1>6. IsSetWriting(g, f, e, a)
    BY <1>2, <1>4, <1>5, Zenon DEF IsSetWriting
  <1> QED
    BY <1>6 DEF g

\* Read.
SetConsumedFull(f, e, a, b) == [f EXCEPT ![e].consumed = a, ![e].full = b]
IsSetConsumedFull(g, f, e, a, b) ==
    /\ g \in [Ends -> Stream] /\ \A x \in Ends : x # e => g[x] = f[x]
    /\ g[e].consumed = a /\ g[e].full = b
    /\ g[e].st = f[e].st /\ g[e].load = f[e].load /\ g[e].known = f[e].known
    /\ g[e].closed = f[e].closed /\ g[e].received = f[e].received /\ g[e].sent = f[e].sent
    /\ g[e].writing = f[e].writing

\* The update of consumed and full leaves the other fields, and the other end, alone.
LEMMA SetConsumedFullIs ==
    ASSUME NEW f \in [Ends -> Stream], NEW e \in Ends, NEW a \in Nat, NEW b \in BOOLEAN
    PROVE  IsSetConsumedFull(SetConsumedFull(f, e, a, b), f, e, a, b)
  <1> DEFINE r == [f[e] EXCEPT !.consumed = a, !.full = b]
             g == SetConsumedFull(f, e, a, b)
  <1>1. r \in Stream
    BY Zenon DEF Stream
  <1>2. /\ r.consumed = a /\ r.full = b
        /\ r.st = f[e].st /\ r.load = f[e].load /\ r.known = f[e].known
        /\ r.closed = f[e].closed /\ r.received = f[e].received /\ r.sent = f[e].sent
        /\ r.writing = f[e].writing
    BY Zenon DEF Stream
  <1>3. g = [f EXCEPT ![e] = r]
    BY Zenon DEF SetConsumedFull
  <1> HIDE DEF r, g
  <1>4. g \in [Ends -> Stream]
    BY <1>1, <1>3, Zenon
  <1>5. g[e] = r /\ \A x \in Ends : x # e => g[x] = f[x]
    BY <1>3, Zenon
  <1>6. IsSetConsumedFull(g, f, e, a, b)
    BY <1>2, <1>4, <1>5, Zenon DEF IsSetConsumedFull
  <1> QED
    BY <1>6 DEF g

\* CloseRead.
SetNoRead(f, e, a) == [f EXCEPT ![e].noRead = a]
IsSetNoRead(g, f, e, a) ==
    /\ g \in [Ends -> Stream] /\ \A x \in Ends : x # e => g[x] = f[x]
    /\ g[e].noRead = a
    /\ g[e].st = f[e].st /\ g[e].load = f[e].load /\ g[e].known = f[e].known
    /\ g[e].closed = f[e].closed /\ g[e].received = f[e].received /\ g[e].consumed = f[e].consumed
    /\ g[e].sent = f[e].sent /\ g[e].writing = f[e].writing

\* The update of noRead leaves the other fields, and the other end, alone.
LEMMA SetNoReadIs ==
    ASSUME NEW f \in [Ends -> Stream], NEW e \in Ends, NEW a \in BOOLEAN
    PROVE  IsSetNoRead(SetNoRead(f, e, a), f, e, a)
  <1> DEFINE r == [f[e] EXCEPT !.noRead = a]
             g == SetNoRead(f, e, a)
  <1>1. r \in Stream
    BY Zenon DEF Stream
  <1>2. /\ r.noRead = a
        /\ r.st = f[e].st /\ r.load = f[e].load /\ r.known = f[e].known
        /\ r.closed = f[e].closed /\ r.received = f[e].received /\ r.consumed = f[e].consumed
        /\ r.sent = f[e].sent /\ r.writing = f[e].writing
    BY Zenon DEF Stream
  <1>3. g = [f EXCEPT ![e] = r]
    BY Zenon DEF SetNoRead
  <1> HIDE DEF r, g
  <1>4. g \in [Ends -> Stream]
    BY <1>1, <1>3, Zenon
  <1>5. g[e] = r /\ \A x \in Ends : x # e => g[x] = f[x]
    BY <1>3, Zenon
  <1>6. IsSetNoRead(g, f, e, a)
    BY <1>2, <1>4, <1>5, Zenon DEF IsSetNoRead
  <1> QED
    BY <1>6 DEF g

\* HandleReadClose.
SetPeerNoRead(f, e, a) == [f EXCEPT ![e].peerNoRead = a]
IsSetPeerNoRead(g, f, e, a) ==
    /\ g \in [Ends -> Stream] /\ \A x \in Ends : x # e => g[x] = f[x]
    /\ g[e].peerNoRead = a
    /\ g[e].st = f[e].st /\ g[e].load = f[e].load /\ g[e].known = f[e].known
    /\ g[e].closed = f[e].closed /\ g[e].received = f[e].received /\ g[e].consumed = f[e].consumed
    /\ g[e].sent = f[e].sent /\ g[e].writing = f[e].writing

\* The update of peerNoRead leaves the other fields, and the other end, alone.
LEMMA SetPeerNoReadIs ==
    ASSUME NEW f \in [Ends -> Stream], NEW e \in Ends, NEW a \in BOOLEAN
    PROVE  IsSetPeerNoRead(SetPeerNoRead(f, e, a), f, e, a)
  <1> DEFINE r == [f[e] EXCEPT !.peerNoRead = a]
             g == SetPeerNoRead(f, e, a)
  <1>1. r \in Stream
    BY Zenon DEF Stream
  <1>2. /\ r.peerNoRead = a
        /\ r.st = f[e].st /\ r.load = f[e].load /\ r.known = f[e].known
        /\ r.closed = f[e].closed /\ r.received = f[e].received /\ r.consumed = f[e].consumed
        /\ r.sent = f[e].sent /\ r.writing = f[e].writing
    BY Zenon DEF Stream
  <1>3. g = [f EXCEPT ![e] = r]
    BY Zenon DEF SetPeerNoRead
  <1> HIDE DEF r, g
  <1>4. g \in [Ends -> Stream]
    BY <1>1, <1>3, Zenon
  <1>5. g[e] = r /\ \A x \in Ends : x # e => g[x] = f[x]
    BY <1>3, Zenon
  <1>6. IsSetPeerNoRead(g, f, e, a)
    BY <1>2, <1>4, <1>5, Zenon DEF IsSetPeerNoRead
  <1> QED
    BY <1>6 DEF g

\* HandleBuffer.
SetRemote(f, e, a, b) == [f EXCEPT ![e].remoteOff = a, ![e].remoteFull = b]
IsSetRemote(g, f, e, a, b) ==
    /\ g \in [Ends -> Stream] /\ \A x \in Ends : x # e => g[x] = f[x]
    /\ g[e].remoteOff = a /\ g[e].remoteFull = b
    /\ g[e].st = f[e].st /\ g[e].load = f[e].load /\ g[e].known = f[e].known
    /\ g[e].closed = f[e].closed /\ g[e].received = f[e].received /\ g[e].consumed = f[e].consumed
    /\ g[e].sent = f[e].sent /\ g[e].writing = f[e].writing

\* The update of remoteOff and remoteFull leaves the other fields, and the other end, alone.
LEMMA SetRemoteIs ==
    ASSUME NEW f \in [Ends -> Stream], NEW e \in Ends, NEW a \in Nat, NEW b \in BOOLEAN
    PROVE  IsSetRemote(SetRemote(f, e, a, b), f, e, a, b)
  <1> DEFINE r == [f[e] EXCEPT !.remoteOff = a, !.remoteFull = b]
             g == SetRemote(f, e, a, b)
  <1>1. r \in Stream
    BY Zenon DEF Stream
  <1>2. /\ r.remoteOff = a /\ r.remoteFull = b
        /\ r.st = f[e].st /\ r.load = f[e].load /\ r.known = f[e].known
        /\ r.closed = f[e].closed /\ r.received = f[e].received /\ r.consumed = f[e].consumed
        /\ r.sent = f[e].sent /\ r.writing = f[e].writing
    BY Zenon DEF Stream
  <1>3. g = [f EXCEPT ![e] = r]
    BY Zenon DEF SetRemote
  <1> HIDE DEF r, g
  <1>4. g \in [Ends -> Stream]
    BY <1>1, <1>3, Zenon
  <1>5. g[e] = r /\ \A x \in Ends : x # e => g[x] = f[x]
    BY <1>3, Zenon
  <1>6. IsSetRemote(g, f, e, a, b)
    BY <1>2, <1>4, <1>5, Zenon DEF IsSetRemote
  <1> QED
    BY <1>6 DEF g

\* HandleData, after CloseRead.
SetReceivedConsumed(f, e, a, b) == [f EXCEPT ![e].received = a, ![e].consumed = b]
IsSetReceivedConsumed(g, f, e, a, b) ==
    /\ g \in [Ends -> Stream] /\ \A x \in Ends : x # e => g[x] = f[x]
    /\ g[e].received = a /\ g[e].consumed = b
    /\ g[e].st = f[e].st /\ g[e].load = f[e].load /\ g[e].known = f[e].known
    /\ g[e].closed = f[e].closed /\ g[e].sent = f[e].sent /\ g[e].writing = f[e].writing

\* The update of received and consumed leaves the other fields, and the other end, alone.
LEMMA SetReceivedConsumedIs ==
    ASSUME NEW f \in [Ends -> Stream], NEW e \in Ends, NEW a \in Nat, NEW b \in Nat
    PROVE  IsSetReceivedConsumed(SetReceivedConsumed(f, e, a, b), f, e, a, b)
  <1> DEFINE r == [f[e] EXCEPT !.received = a, !.consumed = b]
             g == SetReceivedConsumed(f, e, a, b)
  <1>1. r \in Stream
    BY Zenon DEF Stream
  <1>2. /\ r.received = a /\ r.consumed = b
        /\ r.st = f[e].st /\ r.load = f[e].load /\ r.known = f[e].known
        /\ r.closed = f[e].closed /\ r.sent = f[e].sent /\ r.writing = f[e].writing
    BY Zenon DEF Stream
  <1>3. g = [f EXCEPT ![e] = r]
    BY Zenon DEF SetReceivedConsumed
  <1> HIDE DEF r, g
  <1>4. g \in [Ends -> Stream]
    BY <1>1, <1>3, Zenon
  <1>5. g[e] = r /\ \A x \in Ends : x # e => g[x] = f[x]
    BY <1>3, Zenon
  <1>6. IsSetReceivedConsumed(g, f, e, a, b)
    BY <1>2, <1>4, <1>5, Zenon DEF IsSetReceivedConsumed
  <1> QED
    BY <1>6 DEF g

\* HandleData.
SetReceivedFull(f, e, a, b) == [f EXCEPT ![e].received = a, ![e].full = b]
IsSetReceivedFull(g, f, e, a, b) ==
    /\ g \in [Ends -> Stream] /\ \A x \in Ends : x # e => g[x] = f[x]
    /\ g[e].received = a /\ g[e].full = b
    /\ g[e].st = f[e].st /\ g[e].load = f[e].load /\ g[e].known = f[e].known
    /\ g[e].closed = f[e].closed /\ g[e].consumed = f[e].consumed /\ g[e].sent = f[e].sent
    /\ g[e].writing = f[e].writing

\* The update of received and full leaves the other fields, and the other end, alone.
LEMMA SetReceivedFullIs ==
    ASSUME NEW f \in [Ends -> Stream], NEW e \in Ends, NEW a \in Nat, NEW b \in BOOLEAN
    PROVE  IsSetReceivedFull(SetReceivedFull(f, e, a, b), f, e, a, b)
  <1> DEFINE r == [f[e] EXCEPT !.received = a, !.full = b]
             g == SetReceivedFull(f, e, a, b)
  <1>1. r \in Stream
    BY Zenon DEF Stream
  <1>2. /\ r.received = a /\ r.full = b
        /\ r.st = f[e].st /\ r.load = f[e].load /\ r.known = f[e].known
        /\ r.closed = f[e].closed /\ r.consumed = f[e].consumed /\ r.sent = f[e].sent
        /\ r.writing = f[e].writing
    BY Zenon DEF Stream
  <1>3. g = [f EXCEPT ![e] = r]
    BY Zenon DEF SetReceivedFull
  <1> HIDE DEF r, g
  <1>4. g \in [Ends -> Stream]
    BY <1>1, <1>3, Zenon
  <1>5. g[e] = r /\ \A x \in Ends : x # e => g[x] = f[x]
    BY <1>3, Zenon
  <1>6. IsSetReceivedFull(g, f, e, a, b)
    BY <1>2, <1>4, <1>5, Zenon DEF IsSetReceivedFull
  <1> QED
    BY <1>6 DEF g

\* CloseExpires.
SetKnown(f, e, a) == [f EXCEPT ![e].known = a]
IsSetKnown(g, f, e, a) ==
    /\ g \in [Ends -> Stream] /\ \A x \in Ends : x # e => g[x] = f[x]
    /\ g[e].known = a
    /\ g[e].st = f[e].st /\ g[e].load = f[e].load /\ g[e].closed = f[e].closed
    /\ g[e].received = f[e].received /\ g[e].consumed = f[e].consumed /\ g[e].sent = f[e].sent
    /\ g[e].writing = f[e].writing

\* The update of known leaves the other fields, and the other end, alone.
LEMMA SetKnownIs ==
    ASSUME NEW f \in [Ends -> Stream], NEW e \in Ends, NEW a \in BOOLEAN
    PROVE  IsSetKnown(SetKnown(f, e, a), f, e, a)
  <1> DEFINE r == [f[e] EXCEPT !.known = a]
             g == SetKnown(f, e, a)
  <1>1. r \in Stream
    BY Zenon DEF Stream
  <1>2. /\ r.known = a
        /\ r.st = f[e].st /\ r.load = f[e].load /\ r.closed = f[e].closed
        /\ r.received = f[e].received /\ r.consumed = f[e].consumed /\ r.sent = f[e].sent
        /\ r.writing = f[e].writing
    BY Zenon DEF Stream
  <1>3. g = [f EXCEPT ![e] = r]
    BY Zenon DEF SetKnown
  <1> HIDE DEF r, g
  <1>4. g \in [Ends -> Stream]
    BY <1>1, <1>3, Zenon
  <1>5. g[e] = r /\ \A x \in Ends : x # e => g[x] = f[x]
    BY <1>3, Zenon
  <1>6. IsSetKnown(g, f, e, a)
    BY <1>2, <1>4, <1>5, Zenon DEF IsSetKnown
  <1> QED
    BY <1>6 DEF g

-----------------------------------------------------------------------------
(* Queues.                                                                 *)

\* Append: a frame that is queued, or put on the wire.
LEMMA AppendIs ==
    ASSUME NEW q \in Seq(Frames), NEW f \in Frames, NEW r, r = Append(q, f)
    PROVE  /\ r \in Seq(Frames) /\ Len(r) = Len(q) + 1 /\ r[Len(r)] = f
           /\ \A i \in 1..Len(q) : r[i] = q[i]
           /\ Len(q) \in Nat
  OBVIOUS

\* Tail: the frame that is taken.
LEMMA TailIs ==
    ASSUME NEW q \in Seq(Frames), q # <<>>, NEW r, r = Tail(q)
    PROVE  /\ r \in Seq(Frames) /\ Len(q) = Len(r) + 1
           /\ Len(r) \in Nat /\ Head(q) = q[1] /\ Head(q) \in Frames
           /\ \A i \in 1..Len(r) : r[i] = q[i + 1]
           /\ \A i \in 2..Len(q) : q[i] = r[i - 1]
  OBVIOUS

\* r is q without one frame f, if there is one, and with the others in order.
Removes(q, f, r) ==
    \/ r = q /\ \A i \in 1..Len(q) : q[i] # f
    \/ \E k \in 1..Len(q) :
        /\ q[k] = f /\ Len(r) = Len(q) - 1
        /\ \A i \in 1..Len(r) : /\ i < k => r[i] = q[i]
                                /\ i >= k => r[i] = q[i + 1]

\* Skipped: the write loop comes to a request whose context is done.
LEMMA SkippedIs ==
    ASSUME NEW q \in Seq(Frames), NEW f \in Frames, NEW r, r = Skipped(q, f)
    PROVE  /\ r \in Seq(Frames) /\ Len(r) \in Nat /\ Len(q) \in Nat /\ Len(r) <= Len(q)
           /\ Removes(q, f, r)
  <1>1. CASE ~ \E i \in 1..Len(q) : q[i] = f
    BY <1>1 DEF Skipped, Removes
  <1>2. CASE \E i \in 1..Len(q) : q[i] = f
    <2> DEFINE k == CHOOSE i \in 1..Len(q) : q[i] = f
    <2>1. k \in 1..Len(q) /\ q[k] = f
      BY <1>2
    <2>2. r = [j \in 1..(Len(q) - 1) |-> IF j < k THEN q[j] ELSE q[j + 1]]
      BY <1>2, Zenon DEF Skipped
    <2> HIDE DEF k
    <2>3. Len(q) \in Nat /\ Len(q) - 1 \in Nat
      BY <2>1
    <2>4. \A j \in 1..(Len(q) - 1) : (IF j < k THEN q[j] ELSE q[j + 1]) \in Frames
      BY <2>1, <2>3
    <2>5. r \in Seq(Frames) /\ Len(r) = Len(q) - 1
      BY <2>2, <2>3, <2>4
    <2>6. \A i \in 1..Len(r) : (i < k => r[i] = q[i]) /\ (i >= k => r[i] = q[i + 1])
      BY <2>1, <2>2, <2>3, <2>5
    <2> QED
      BY <2>1, <2>3, <2>5, <2>6 DEF Removes
  <1> QED
    BY <1>1, <1>2

\* The empty queue, of a session that has just begun.
LEMMA EmptyQueue ==
    /\ \A k : Lacks(<<>>, k)
    /\ NoClose(<<>>) /\ CloseOrder(<<>>) /\ Answered(<<>>) /\ ConnectOnlyFirst(<<>>)
    /\ \A w, n : OneData(<<>>, w, n)
    /\ Run(<<>>, 0, 0)
  BY DEF Lacks, NoClose, CloseOrder, Answered, ConnectOnlyFirst, OneData, Run

\* A queue without data has what is said of data ...
LEMMA WithoutData ==
    ASSUME NEW q \in Seq(Frames), Lacks(q, "data")
    PROVE  /\ CloseOrder(q) /\ Answered(q)
           /\ \A w, n : OneData(q, w, n)
           /\ \A lo \in Nat, hi \in Nat : Run(q, lo, hi) => lo = hi
  BY DEF Lacks, CloseOrder, Answered, OneData, Run

\* ... and one without a connect has what is said of connects.
LEMMA WithoutConnect ==
    ASSUME NEW q \in Seq(Frames), Lacks(q, "connect")
    PROVE  ConnectOnlyFirst(q)
  BY DEF Lacks, ConnectOnlyFirst

\* The queue of an end where no Write waits has no data.
LEMMA NoWriteNoData ==
    ASSUME NEW q \in Seq(Frames), NEW n, OneData(q, FALSE, n)
    PROVE  Lacks(q, "data")
  BY DEF Lacks, OneData

\* Frames of kind k, after another is queued.
LEMMA AppendLacks ==
    ASSUME NEW q \in Seq(Frames), NEW f \in Frames, NEW k
    PROVE  Lacks(Append(q, f), k) <=> Lacks(q, k) /\ f.t # k
  <1> DEFINE r == Append(q, f)
  <1>1. /\ Len(q) \in Nat /\ Len(r) = Len(q) + 1 /\ r[Len(r)] = f
        /\ \A i \in 1..Len(q) : r[i] = q[i]
    BY AppendIs
  <1> HIDE DEF r
  <1>2. Lacks(r, k) <=> Lacks(q, k) /\ f.t # k
    BY <1>1 DEF Lacks
  <1> QED
    BY <1>2 DEF r

\* Only a connect on an empty queue, or another frame, is queued.
LEMMA AppendConnect ==
    ASSUME NEW q \in Seq(Frames), NEW f \in Frames, q = <<>> \/ f.t # "connect",
           ConnectOnlyFirst(q)
    PROVE  ConnectOnlyFirst(Append(q, f))
  <1> DEFINE r == Append(q, f)
  <1>1. /\ Len(q) \in Nat /\ Len(r) = Len(q) + 1 /\ r[Len(r)] = f
        /\ \A i \in 1..Len(q) : r[i] = q[i]
    BY AppendIs
  <1>2. q = <<>> => Len(q) = 0
    OBVIOUS
  <1> HIDE DEF r
  <1>3. ConnectOnlyFirst(r)
    BY <1>1, <1>2 DEF ConnectOnlyFirst
  <1> QED
    BY <1>3 DEF r

\* A frame that is not data is queued, or put on the wire.
LEMMA AppendOther ==
    ASSUME NEW q \in Seq(Frames), NEW f \in Frames, f.t # "data"
    PROVE  /\ \A w, n : OneData(q, w, n) => OneData(Append(q, f), w, n)
           /\ CloseOrder(q) => CloseOrder(Append(q, f))
           /\ \A lo \in Nat, hi \in Nat : Run(q, lo, hi) => Run(Append(q, f), lo, hi)
           /\ Answered(q) => Answered(Append(q, f))
  <1> DEFINE r == Append(q, f)
  <1>1. /\ Len(q) \in Nat /\ Len(r) = Len(q) + 1 /\ r[Len(r)] = f
        /\ \A i \in 1..Len(q) : r[i] = q[i]
    BY AppendIs
  <1> HIDE DEF r
  <1>2. \A i \in 1..Len(r) : r[i].t = "data" => i \in 1..Len(q) /\ r[i] = q[i]
    BY <1>1
  <1>3. \A i \in 1..Len(q) : i \in 1..Len(r) /\ r[i] = q[i]
    BY <1>1
  <1>4. \A w, n : OneData(q, w, n) => OneData(r, w, n)
    BY <1>2 DEF OneData
  <1>5. CloseOrder(q) => CloseOrder(r)
    BY <1>1, <1>2 DEF CloseOrder
  <1>6. \A lo \in Nat, hi \in Nat : Run(q, lo, hi) => Run(r, lo, hi)
    BY <1>2, <1>3 DEF Run
  <1>7. Answered(q) => Answered(r)
    BY <1>2, <1>3 DEF Answered
  <1> QED
    BY <1>4, <1>5, <1>6, <1>7 DEF r

\* Data is queued by a Write, or put on the wire.
LEMMA AppendData ==
    ASSUME NEW q \in Seq(Frames), NEW f \in Frames, f.t = "data"
    PROVE  /\ Lacks(q, "data") => OneData(Append(q, f), TRUE, f.n)
           /\ NoClose(q) => CloseOrder(Append(q, f))
           /\ \A lo \in Nat : Run(q, lo, f.n) => Run(Append(q, f), lo, f.n + 1)
           /\ Answered(q) /\ ~Lacks(q, "response") => Answered(Append(q, f))
  <1> DEFINE r == Append(q, f)
  <1>1. /\ Len(q) \in Nat /\ Len(r) = Len(q) + 1 /\ r[Len(r)] = f
        /\ \A i \in 1..Len(q) : r[i] = q[i]
    BY AppendIs
  <1> HIDE DEF r
  <1>2. \A i \in 1..Len(r) : i = Len(r) \/ (i \in 1..Len(q) /\ r[i] = q[i])
    BY <1>1
  <1>3. \A i \in 1..Len(q) : i \in 1..Len(r) /\ r[i] = q[i]
    BY <1>1
  <1>n. f.n \in Nat /\ \A i \in 1..Len(q) : q[i].n \in Nat
    <2>1. \A i \in 1..Len(q) : q[i] \in Frames
      OBVIOUS
    <2> QED
      BY <2>1, FrameIs
  <1>4. Lacks(q, "data") => OneData(r, TRUE, f.n)
    BY <1>1, <1>2 DEF OneData, Lacks
  <1>5. NoClose(q) => CloseOrder(r)
    BY <1>1, <1>2 DEF CloseOrder, NoClose, Lacks
  <1>6. ASSUME NEW lo \in Nat, Run(q, lo, f.n) PROVE Run(r, lo, f.n + 1)
    <2>1. /\ lo <= f.n
          /\ \A i \in 1..Len(q) : q[i].t = "data" => lo <= q[i].n /\ q[i].n < f.n
      BY <1>6 DEF Run
    <2>2. \A i \in 1..Len(r) : r[i].t = "data" => lo <= r[i].n /\ r[i].n < f.n + 1
      BY <1>1, <1>2, <1>n, <2>1
    <2>3. ASSUME NEW i \in 1..Len(r), NEW j \in 1..Len(r),
                 r[i].t = "data", r[j].t = "data", i < j
          PROVE  r[i].n < r[j].n
      <3>1. i \in 1..Len(q) /\ r[i] = q[i]
        BY <1>1, <1>2, <2>3
      <3>2. CASE j = Len(r)
        BY <1>1, <2>1, <2>3, <3>1, <3>2
      <3>3. CASE j \in 1..Len(q) /\ r[j] = q[j]
        BY <1>6, <2>3, <3>1, <3>3 DEF Run
      <3> QED
        BY <1>2, <3>2, <3>3
    <2>4. ASSUME NEW m \in Nat, lo <= m, m < f.n + 1
          PROVE  \E i \in 1..Len(r) : r[i].t = "data" /\ r[i].n = m
      <3>1. CASE m = f.n
        BY <1>1, <3>1
      <3>2. CASE m < f.n
        BY <1>3, <1>6, <2>4, <3>2 DEF Run
      <3> QED
        BY <1>n, <2>4, <3>1, <3>2
    <2> QED
      BY <1>n, <2>1, <2>2, <2>3, <2>4 DEF Run
  <1>7. Answered(q) /\ ~Lacks(q, "response") => Answered(r)
    BY <1>1, <1>2, <1>3 DEF Answered, Lacks
  <1> QED
    BY <1>4, <1>5, <1>6, <1>7 DEF r

\* Frames of kind k, after the first is taken.
LEMMA TailLacks ==
    ASSUME NEW q \in Seq(Frames), q # <<>>, NEW k
    PROVE  Lacks(q, k) <=> Head(q).t # k /\ Lacks(Tail(q), k)
  <1> DEFINE r == Tail(q)
  <1>1. /\ Len(q) = Len(r) + 1 /\ Len(r) \in Nat /\ Head(q) = q[1]
        /\ \A i \in 1..Len(r) : r[i] = q[i + 1]
        /\ \A i \in 2..Len(q) : q[i] = r[i - 1]
    BY TailIs
  <1> HIDE DEF r
  <1>2. \A i \in 1..Len(q) : i = 1 \/ (i - 1 \in 1..Len(r) /\ q[i] = r[i - 1])
    BY <1>1
  <1>3. \A i \in 1..Len(r) : i + 1 \in 1..Len(q) /\ r[i] = q[i + 1]
    BY <1>1
  <1>4. 1 \in 1..Len(q)
    BY <1>1
  <1>5. Lacks(q, k) <=> Head(q).t # k /\ Lacks(r, k)
    BY <1>1, <1>2, <1>3, <1>4 DEF Lacks
  <1> QED
    BY <1>5 DEF r

\* The first frame of a queue is taken, whatever it is ...
LEMMA TailAny ==
    ASSUME NEW q \in Seq(Frames), q # <<>>
    PROVE  /\ CloseOrder(q) => CloseOrder(Tail(q))
           /\ ConnectOnlyFirst(q) => Lacks(Tail(q), "connect")
           /\ CloseOrder(q) /\ Head(q).t \in {"close", "close_ack"} => Lacks(q, "data")
           /\ Answered(q) => Head(q).t # "data"
  <1> DEFINE r == Tail(q)
  <1>1. /\ Len(q) = Len(r) + 1 /\ Len(r) \in Nat /\ Head(q) = q[1]
        /\ \A i \in 1..Len(r) : r[i] = q[i + 1]
    BY TailIs
  <1> HIDE DEF r
  <1>2. 1 \in 1..Len(q) /\ \A i \in 1..Len(q) : i = 1 \/ 1 < i
    BY <1>1
  <1>3. \A i \in 1..Len(r) : i + 1 \in 1..Len(q) /\ r[i] = q[i + 1]
    BY <1>1
  <1>4. CloseOrder(q) => CloseOrder(r)
    BY <1>3 DEF CloseOrder
  <1>5. ConnectOnlyFirst(q) => Lacks(r, "connect")
    BY <1>3 DEF ConnectOnlyFirst, Lacks
  <1>6. CloseOrder(q) /\ Head(q).t \in {"close", "close_ack"} => Lacks(q, "data")
    BY <1>1, <1>2 DEF CloseOrder, Lacks
  <1>7. Answered(q) => Head(q).t # "data"
    <2>1. SUFFICES ASSUME Answered(q), q[1].t = "data" PROVE FALSE
      BY <1>1
    <2>2. PICK j \in 1..Len(q) : j < 1
      BY <1>2, <2>1 DEF Answered
    <2> QED
      BY <1>1, <2>2
  <1> QED
    BY <1>4, <1>5, <1>6, <1>7 DEF r

\* ... and when it is not data ...
LEMMA TailOther ==
    ASSUME NEW q \in Seq(Frames), q # <<>>, Head(q).t # "data"
    PROVE  /\ \A w, n : OneData(q, w, n) => OneData(Tail(q), w, n)
           /\ \A lo \in Nat, hi \in Nat : Run(q, lo, hi) => Run(Tail(q), lo, hi)
           /\ Answered(q) /\ Head(q).t # "response" => Answered(Tail(q))
  <1> DEFINE r == Tail(q)
  <1>1. /\ Len(q) = Len(r) + 1 /\ Len(r) \in Nat /\ Head(q) = q[1]
        /\ \A i \in 1..Len(r) : r[i] = q[i + 1]
        /\ \A i \in 2..Len(q) : q[i] = r[i - 1]
    BY TailIs
  <1> HIDE DEF r
  <1>2. \A i \in 1..Len(q) : i = 1 \/ (i - 1 \in 1..Len(r) /\ q[i] = r[i - 1])
    BY <1>1
  <1>3. \A i \in 1..Len(r) : i + 1 \in 1..Len(q) /\ r[i] = q[i + 1]
    BY <1>1
  <1>4. \A w, n : OneData(q, w, n) => OneData(r, w, n)
    BY <1>1, <1>3 DEF OneData
  <1>5. \A lo \in Nat, hi \in Nat : Run(q, lo, hi) => Run(r, lo, hi)
    <2> SUFFICES ASSUME NEW lo \in Nat, NEW hi \in Nat, Run(q, lo, hi) PROVE Run(r, lo, hi)
      OBVIOUS
    <2>1. \A i \in 1..Len(r) : r[i].t = "data" => lo <= r[i].n /\ r[i].n < hi
      BY <1>3 DEF Run
    <2>2. ASSUME NEW i \in 1..Len(r), NEW j \in 1..Len(r),
                 r[i].t = "data", r[j].t = "data", i < j
          PROVE  r[i].n < r[j].n
      <3>1. i + 1 \in 1..Len(q) /\ j + 1 \in 1..Len(q) /\ i + 1 < j + 1
        BY <1>3, <2>2
      <3>2. r[i] = q[i + 1] /\ r[j] = q[j + 1]
        BY <1>3
      <3>3. \A x \in 1..Len(q), y \in 1..Len(q) :
              q[x].t = "data" /\ q[y].t = "data" /\ x < y => q[x].n < q[y].n
        BY DEF Run
      <3> QED
        BY <2>2, <3>1, <3>2, <3>3
    <2>3. ASSUME NEW m \in Nat, lo <= m, m < hi
          PROVE  \E i \in 1..Len(r) : r[i].t = "data" /\ r[i].n = m
      <3>1. PICK i \in 1..Len(q) : q[i].t = "data" /\ q[i].n = m
        BY <2>3 DEF Run
      <3>2. i - 1 \in 1..Len(r) /\ q[i] = r[i - 1]
        BY <1>1, <1>2, <3>1
      <3> QED
        BY <3>1, <3>2
    <2> QED
      BY <2>1, <2>2, <2>3 DEF Run
  <1>6. Answered(q) /\ Head(q).t # "response" => Answered(r)
    <2> SUFFICES ASSUME Answered(q), q[1].t # "response",
                        NEW i \in 1..Len(r), r[i].t = "data"
                 PROVE  \E j \in 1..Len(r) : j < i /\ r[j].t = "response"
      BY <1>1 DEF Answered
    <2>0. i + 1 \in 1..Len(q) /\ q[i + 1].t = "data"
      BY <1>3
    <2>1. PICK j \in 1..Len(q) : j < i + 1 /\ q[j].t = "response"
      BY <2>0 DEF Answered
    <2>2. j - 1 \in 1..Len(r) /\ q[j] = r[j - 1]
      BY <1>2, <2>1
    <2> QED
      BY <1>1, <2>1, <2>2
  <1> QED
    BY <1>4, <1>5, <1>6 DEF r

\* ... and when it is: it has the lowest offset.
LEMMA TailData ==
    ASSUME NEW q \in Seq(Frames), q # <<>>, Head(q).t = "data"
    PROVE  /\ \A w, n : OneData(q, w, n) => w /\ Head(q).n = n /\ Lacks(Tail(q), "data")
           /\ \A lo \in Nat, hi \in Nat : Run(q, lo, hi) =>
                Head(q).n = lo /\ lo < hi /\ Run(Tail(q), lo + 1, hi)
           /\ CloseOrder(q) => CloseOrder(Tail(q))
  <1> DEFINE r == Tail(q)
  <1>1. /\ Len(q) = Len(r) + 1 /\ Len(r) \in Nat /\ Head(q) = q[1]
        /\ \A i \in 1..Len(r) : r[i] = q[i + 1]
        /\ \A i \in 2..Len(q) : q[i] = r[i - 1]
    BY TailIs
  <1>n. \A i \in 1..Len(q) : q[i].n \in Nat
    <2>1. \A i \in 1..Len(q) : q[i] \in Frames
      OBVIOUS
    <2> QED
      BY <2>1, FrameIs
  <1> HIDE DEF r
  <1>2. \A i \in 1..Len(q) : i = 1 \/ (i - 1 \in 1..Len(r) /\ q[i] = r[i - 1] /\ 1 < i)
    BY <1>1
  <1>3. \A i \in 1..Len(r) : i + 1 \in 1..Len(q) /\ r[i] = q[i + 1] /\ 1 < i + 1
    BY <1>1
  <1>a. 1 \in 1..Len(q) /\ q[1].t = "data"
    BY <1>1
  <1>4. \A w, n : OneData(q, w, n) => w /\ Head(q).n = n /\ Lacks(r, "data")
    <2> SUFFICES ASSUME NEW w, NEW n, OneData(q, w, n)
                 PROVE  w /\ q[1].n = n /\ Lacks(r, "data")
      BY <1>1
    <2>1. w
      BY <1>a, Zenon DEF OneData
    <2>2. q[1].n = n
      BY <1>a, Zenon DEF OneData
    <2>3. \A j \in 1..Len(q) : q[j].t = "data" => j = 1
      BY <1>a DEF OneData
    <2>4. Lacks(r, "data")
      BY <1>1, <1>3, <2>3 DEF Lacks
    <2> QED
      BY <2>1, <2>2, <2>4, Zenon
  <1>5. ASSUME NEW lo \in Nat, NEW hi \in Nat, Run(q, lo, hi)
        PROVE  Head(q).n = lo /\ lo < hi /\ Run(r, lo + 1, hi)
    <2>1. lo <= q[1].n /\ q[1].n < hi
      BY <1>a, <1>5 DEF Run
    <2>2. lo < hi
      BY <1>n, <1>a, <2>1
    <2>3. PICK i \in 1..Len(q) : q[i].t = "data" /\ q[i].n = lo
      BY <1>5, <2>2 DEF Run
    <2>4. i = 1
      <3> SUFFICES ASSUME 1 < i PROVE FALSE
        BY <1>2
      <3>1. q[1].n < q[i].n
        BY <1>a, <1>5, <2>3 DEF Run
      <3> QED
        BY <1>n, <1>a, <2>1, <2>3, <3>1
    <2>5. \A j \in 1..Len(r) : r[j].t = "data" => lo + 1 <= r[j].n /\ r[j].n < hi
      <3> SUFFICES ASSUME NEW j \in 1..Len(r), r[j].t = "data"
                   PROVE  lo + 1 <= r[j].n /\ r[j].n < hi
        OBVIOUS
      <3>1. q[1].n < q[j + 1].n /\ q[j + 1].n < hi
        BY <1>a, <1>3, <1>5 DEF Run
      <3>2. q[j + 1].n \in Nat /\ r[j] = q[j + 1]
        BY <1>3, <1>n
      <3> QED
        BY <2>3, <2>4, <3>1, <3>2
    <2>6. \A j \in 1..Len(r), k \in 1..Len(r) :
            r[j].t = "data" /\ r[k].t = "data" /\ j < k => r[j].n < r[k].n
      <3> SUFFICES ASSUME NEW j \in 1..Len(r), NEW k \in 1..Len(r),
                          r[j].t = "data", r[k].t = "data", j < k
                   PROVE  r[j].n < r[k].n
        OBVIOUS
      <3>1. j + 1 \in 1..Len(q) /\ k + 1 \in 1..Len(q) /\ r[j] = q[j + 1] /\ r[k] = q[k + 1]
        BY <1>3
      <3>2. j + 1 < k + 1
        BY <1>1
      <3> QED
        BY <1>5, <3>1, <3>2 DEF Run
    <2>7. ASSUME NEW m \in Nat, lo + 1 <= m, m < hi
          PROVE  \E j \in 1..Len(r) : r[j].t = "data" /\ r[j].n = m
      <3>1. PICK j \in 1..Len(q) : q[j].t = "data" /\ q[j].n = m
        BY <1>5, <2>7 DEF Run
      <3>2. j # 1
        BY <2>3, <2>4, <2>7, <3>1
      <3> QED
        BY <1>2, <3>1, <3>2
    <2> QED
      BY <1>1, <2>2, <2>3, <2>4, <2>5, <2>6, <2>7 DEF Run
  <1>6. CloseOrder(q) => CloseOrder(r)
    BY <1>3 DEF CloseOrder
  <1> QED
    BY <1>4, <1>5, <1>6 DEF r

\* A request that is skipped leaves the order of the others.
LEMMA SkippedKeeps ==
    ASSUME NEW q \in Seq(Frames), NEW f \in Frames
    PROVE  /\ \A k : Lacks(q, k) => Lacks(Skipped(q, f), k)
           /\ \A w, n : OneData(q, w, n) => OneData(Skipped(q, f), w, n)
           /\ CloseOrder(q) => CloseOrder(Skipped(q, f))
           /\ ConnectOnlyFirst(q) => ConnectOnlyFirst(Skipped(q, f))
           /\ \A w, n : OneData(q, w, n) /\ f = Frame("data", n) =>
                Lacks(Skipped(q, f), "data")
  <1>r. PICK r : r = Skipped(q, f)
    OBVIOUS
  <1>0. Len(r) \in Nat /\ Len(q) \in Nat /\ Removes(q, f, r)
    BY <1>r, SkippedIs
  <1>1. /\ Len(r) \in Nat /\ Len(q) \in Nat
        /\ \/ r = q /\ \A i \in 1..Len(q) : q[i] # f
           \/ \E k \in 1..Len(q) :
                 /\ q[k] = f /\ Len(r) = Len(q) - 1
                 /\ \A i \in 1..Len(r) : /\ i < k => r[i] = q[i]
                                         /\ i >= k => r[i] = q[i + 1]
    BY <1>0, Zenon DEF Removes
  <1>2. CASE r = q /\ \A i \in 1..Len(q) : q[i] # f
    <2>1. ASSUME NEW w, NEW n, OneData(q, w, n), f = Frame("data", n) PROVE Lacks(q, "data")
      <3>1. ASSUME NEW i \in 1..Len(q), q[i].t = "data" PROVE FALSE
        <4>1. q[i].n = n
          BY <2>1, <3>1 DEF OneData
        <4>2. q[i] \in Frames
          OBVIOUS
        <4>3. q[i] = Frame("data", n)
          BY <3>1, <4>1, <4>2 DEF Frames, Frame
        <4> QED
          BY <1>2, <2>1, <4>3
      <3> QED
        BY <3>1 DEF Lacks
    <2> QED
      BY <1>r, <1>2, <2>1
  <1>3. CASE \E k \in 1..Len(q) :
                 /\ q[k] = f /\ Len(r) = Len(q) - 1
                 /\ \A i \in 1..Len(r) :
                     /\ i < k => r[i] = q[i]
                     /\ i >= k => r[i] = q[i + 1]
    <2>1. PICK k \in 1..Len(q) :
                 /\ q[k] = f /\ Len(r) = Len(q) - 1
                 /\ \A i \in 1..Len(r) :
                     /\ i < k => r[i] = q[i]
                     /\ i >= k => r[i] = q[i + 1]
      BY <1>3
    <2> DEFINE at(i) == IF i < k THEN i ELSE i + 1
    <2>2. \A i \in 1..Len(r) : at(i) \in 1..Len(q) /\ at(i) # k /\ r[i] = q[at(i)] /\ i <= at(i)
      BY <1>1, <2>1
    <2>3. \A i \in 1..Len(r), j \in 1..Len(r) : i < j => at(i) < at(j)
      BY <1>1, <2>1
    <2>4. \A i \in 1..Len(r), j \in 1..Len(r) : at(i) = at(j) => i = j
      BY <1>1, <2>1
    <2>5. \A i \in 1..Len(r) : i >= 1 /\ (at(i) = 1 => i = 1)
      BY <1>1, <2>1
    <2> HIDE DEF at
    <2>6. \A x : Lacks(q, x) => Lacks(r, x)
      BY <2>2 DEF Lacks
    <2>7. \A w, n : OneData(q, w, n) => OneData(r, w, n)
      BY <2>2, <2>4 DEF OneData
    <2>8. CloseOrder(q) => CloseOrder(r)
      BY <2>2, <2>3 DEF CloseOrder
    <2>9. ConnectOnlyFirst(q) => ConnectOnlyFirst(r)
      BY <2>2, <2>5 DEF ConnectOnlyFirst
    <2>10. ASSUME NEW w, NEW n, OneData(q, w, n), f = Frame("data", n) PROVE Lacks(r, "data")
      <3>1. q[k].t = "data"
        BY <2>1, <2>10 DEF Frame
      <3>2. \A i \in 1..Len(q) : q[i].t = "data" => i = k
        BY <2>10, <3>1 DEF OneData
      <3> QED
        BY <2>2, <3>2 DEF Lacks
    <2> QED
      BY <1>r, <2>6, <2>7, <2>8, <2>9, <2>10
  <1> QED
    BY <1>1, <1>2, <1>3

-----------------------------------------------------------------------------
(* The steps' common parts.                                                *)

\* Later: thread t of e has a notice f, or has none.
LEMMA LaterIs ==
    ASSUME Typed, NEW e \in Ends, NEW t \in Threads, NEW f \in Frames \cup {Nothing},
           Later(e, t, f)
    PROVE  /\ note' \in [Ends -> [Threads -> Frames \cup {Nothing}]]
           /\ note'[e][t] = f /\ \A u \in Threads : u # t => note'[e][u] = note[e][u]
           /\ \A x \in Ends : x # e => note'[x] = note[x]
           /\ \A k : Spares(note[e], k) /\ f.t # k => Spares(note'[e], k)
           /\ Idle(note[e]) /\ f = Nothing => Idle(note'[e])
  <1>1. note' = [note EXCEPT ![e][t] = f]
    BY DEF Later
  <1>2. note \in [Ends -> [Threads -> Frames \cup {Nothing}]]
    BY DEF Typed
  <1>3. /\ note' \in [Ends -> [Threads -> Frames \cup {Nothing}]]
        /\ note'[e][t] = f /\ \A u \in Threads : u # t => note'[e][u] = note[e][u]
        /\ \A x \in Ends : x # e => note'[x] = note[x]
    BY <1>1, <1>2
  <1>4. \A k : Spares(note[e], k) /\ f.t # k => Spares(note'[e], k)
    BY <1>3 DEF Spares
  <1>5. Idle(note[e]) /\ f = Nothing => Idle(note'[e])
    BY <1>3 DEF Idle
  <1> QED
    BY <1>3, <1>4, <1>5

\* What a thread of e holds.
LEMMA NotesOf ==
    ASSUME Typed, NEW e \in Ends, NEW t \in Threads
    PROVE  /\ note[e][t] \in Frames \cup {Nothing}
           /\ \A k : Spares(note[e], k) => note[e][t].t # k
           /\ Idle(note[e]) => note[e][t] = Nothing
  BY DEF Typed, Spares, Idle

\* Queue: e has queued f.
LEMMA QueueIs ==
    ASSUME Typed, NEW e \in Ends, NEW f \in Frames, Queue(e, f)
    PROVE  /\ out' \in [Ends -> Seq(Frames)] /\ out'[e] = Append(out[e], f)
           /\ out[e] \in Seq(Frames) /\ Len(out[e]) \in Nat /\ Len(out'[e]) = Len(out[e]) + 1
           /\ \A x \in Ends : x # e => out'[x] = out[x]
  BY DEF Typed, Queue

-----------------------------------------------------------------------------
(* Every step keeps the invariant.                                         *)

\* Session.notify, of the notice that thread t of e holds.
LEMMA NotifyStep ==
    ASSUME IInv, NEW e \in Ends, NEW t \in Threads, Notify(e, t)
    PROVE  IInv'
  <1> DEFINE f == note[e][t]
  <1>0. Typed
    BY DEF IInv
  <1>1. f \in Frames /\ f.t # "data" /\ f.t # "connect" /\ f # Nothing
    <2>1. f \in Frames \cup {Nothing} /\ f # Nothing
      BY <1>0, NotesOf DEF Notify, Free
    <2>2. Spares(note[e], "data") /\ Spares(note[e], "connect")
      BY DEF IInv, OutData
    <2> QED
      BY <1>0, <2>1, <2>2, NotesOf
  <1>2. /\ note' \in [Ends -> [Threads -> Frames \cup {Nothing}]]
        /\ note'[e][t] = Nothing /\ \A u \in Threads : u # t => note'[e][u] = note[e][u]
        /\ \A x \in Ends : x # e => note'[x] = note[x]
        /\ \A k \in Kinds : Spares(note[e], k) => Spares(note'[e], k)
        /\ Idle(note[e]) => Idle(note'[e])
    <2>1. Later(e, t, Nothing)
      BY DEF Notify
    <2>2. Nothing.t \notin Kinds
      BY NothingIs DEF Kinds
    <2>3. /\ note' \in [Ends -> [Threads -> Frames \cup {Nothing}]]
          /\ note'[e][t] = Nothing /\ \A u \in Threads : u # t => note'[e][u] = note[e][u]
          /\ \A x \in Ends : x # e => note'[x] = note[x]
          /\ \A k : Spares(note[e], k) /\ Nothing.t # k => Spares(note'[e], k)
          /\ Idle(note[e]) => Idle(note'[e])
      BY <1>0, <2>1, LaterIs
    <2> QED
      BY <2>2, <2>3
  <1>3. s' = s /\ owner' = owner /\ wire' = wire
    BY DEF Notify
  <1>4. CASE Room(e) /\ Queue(e, f) /\ UNCHANGED ended
    <2> HIDE DEF f
    <2>1. /\ out' \in [Ends -> Seq(Frames)] /\ out'[e] = Append(out[e], f)
          /\ out[e] \in Seq(Frames) /\ Len(out[e]) \in Nat /\ Len(out'[e]) = Len(out[e]) + 1
          /\ \A x \in Ends : x # e => out'[x] = out[x]
      BY <1>0, <1>1, <1>4, QueueIs
    <2>2. Typed'
      BY <1>2, <1>3, <2>1 DEF IInv, Typed
    <2>3. \A x \in Ends : Caps(x)' /\ Status(x)'
      BY <1>3, <1>4, <2>1, LimitsAssumption DEF IInv, Caps, Status, Room
    <2>4. \A k : Lacks(out'[e], k) <=> Lacks(out[e], k) /\ f.t # k
      BY <1>1, <2>1, AppendLacks
    <2>5. /\ \A w, n : OneData(out[e], w, n) => OneData(out'[e], w, n)
          /\ CloseOrder(out[e]) => CloseOrder(out'[e])
          /\ Answered(out[e]) => Answered(out'[e])
      BY <1>1, <2>1, AppendOther
    <2>6. ConnectOnlyFirst(out[e]) => ConnectOnlyFirst(out'[e])
      BY <1>1, <2>1, AppendConnect
    <2>a. ~Idle(note[e]) /\ \A k : Spares(note[e], k) => f.t # k
      BY <1>0, <1>1, NotesOf DEF f
    <2>7. \A x \in Ends : OutData(x)'
      BY <1>2, <1>3, <2>1, <2>5 DEF IInv, OutData, Kinds
    <2>8. \A x \in Ends : Quit(x) => Quit(x)'
      BY <1>1, <1>3, <2>1, <2>4, TheEnds DEF Quit, Refused
    <2>9. \A x \in Ends : CloseLast(x)'
      BY <1>0, <1>1, <1>2, <1>3, <2>1, <2>4, <2>5, <2>8, NotesOf DEF IInv, CloseLast, NoClose, Kinds, f
    <2>10. Numbered("server", "client")' /\ Numbered("client", "server")'
      BY <1>3, <1>4 DEF IInv, Numbered
    <2>11. PeerClosed("server", "client")' /\ PeerClosed("client", "server")'
      BY <1>1, <1>3, <2>1, <2>4, <2>8, TheEnds DEF IInv, PeerClosed
    <2>12. ConnectFirst'
      <3>1. CASE e = "client"
        BY <1>1, <1>2, <1>3, <2>1, <2>4, <2>6, <2>a, <3>1 DEF IInv, ConnectFirst
      <3>2. CASE e = "server"
        BY <1>1, <1>2, <1>3, <2>1, <3>2, TheEnds DEF IInv, ConnectFirst
      <3> QED
        BY <3>1, <3>2, TheEnds
    <2>13. Silent'
      <3>1. CASE e = "client"
        BY <1>1, <1>2, <1>3, <2>1, <2>4, <2>a, <3>1, TheEnds DEF IInv, Silent
      <3>2. CASE e = "server"
        BY <1>1, <1>2, <1>3, <2>1, <2>4, <2>a, <3>2, TheEnds DEF IInv, Silent
      <3> QED
        BY <3>1, <3>2, TheEnds
    <2>14. BeforeAccept'
      <3>1. CASE e = "client"
        BY <1>1, <1>2, <1>3, <2>1, <2>4, <2>a, <3>1, TheEnds DEF IInv, BeforeAccept
      <3>2. CASE e = "server"
        BY <1>1, <1>2, <1>3, <2>1, <2>4, <2>a, <3>2, TheEnds DEF IInv, BeforeAccept, Kinds
      <3> QED
        BY <3>1, <3>2, TheEnds
    <2>15. ResponseFirst'
      <3>1. CASE e = "client"
        BY <1>1, <1>2, <1>3, <2>1, <3>1, TheEnds DEF IInv, ResponseFirst
      <3>2. CASE e = "server"
        <4>1. note["server"]["app"].t = "response" =>
                  note'["server"]["app"].t = "response" \/ ~Lacks(out'["server"], "response")
          BY <1>2, <2>4, <3>2 DEF Threads, f
        <4> QED
          BY <1>1, <1>2, <1>3, <2>1, <2>4, <2>5, <3>2, <4>1, TheEnds DEF IInv, ResponseFirst
      <3> QED
        BY <3>1, <3>2, TheEnds
    <2>16. EndedForAReason'
      BY <1>3, <1>4 DEF IInv, EndedForAReason
    <2> QED
      BY <2>2, <2>3, <2>7, <2>9, <2>10, <2>11, <2>12, <2>13, <2>14, <2>15, <2>16 DEF IInv
  <1>5. CASE ~Room(e) /\ f.t # "response" /\ End(e, "queue") /\ UNCHANGED <<out, crossed>>
    <2> HIDE DEF f
    <2>1. out' = out /\ ended' = <<e, "queue">>
      BY <1>5 DEF End
    <2>2. Typed' /\ \A x \in Ends : Caps(x)' /\ Status(x)' /\ OutData(x)'
      BY <1>2, <1>3, <2>1 DEF IInv, Typed, Caps, Status, OutData, Kinds
    <2>3. \A x \in Ends : Quit(x) <=> Quit(x)'
      BY <1>3, <2>1 DEF Quit, Refused
    <2>4. \A x \in Ends : CloseLast(x)'
      BY <1>2, <1>3, <2>1, <2>3 DEF IInv, CloseLast, NoClose, Kinds
    <2>5. /\ Numbered("server", "client")' /\ PeerClosed("server", "client")'
          /\ Numbered("client", "server")' /\ PeerClosed("client", "server")'
      BY <1>3, <2>1, <2>3, TheEnds DEF IInv, Numbered, PeerClosed
    <2>6. ConnectFirst' /\ Silent' /\ BeforeAccept'
      BY <1>2, <1>3, <2>1, TheEnds DEF IInv, ConnectFirst, Silent, BeforeAccept, Kinds
    <2>7. ResponseFirst'
      <3>1. note["server"]["app"].t = "response" => note'["server"]["app"].t = "response"
        BY <1>2, <1>5, TheEnds DEF Threads, f
      <3> QED
        BY <1>3, <2>1, <3>1 DEF IInv, ResponseFirst
    <2>8. EndedForAReason'
      BY <2>1 DEF EndedForAReason
    <2> QED
      BY <2>2, <2>4, <2>5, <2>6, <2>7, <2>8 DEF IInv
  <1> QED
    BY <1>4, <1>5 DEF Notify

\* Open has sent its connect, or Accept has taken a flow from the queue: only the
\* owner changes.
LEMMA OwnerStep ==
    ASSUME IInv, OpenSent \/ SessionAccept
    PROVE  IInv'
  <1>1. s' = s /\ out' = out /\ wire' = wire /\ note' = note /\ ended' = ended
    BY DEF OpenSent, SessionAccept
  <1>2. owner' \in [Ends -> {"nobody", "opener", "queue", "app"}]
    BY TheEnds DEF IInv, Typed, OpenSent, SessionAccept
  <1>3. /\ owner'["client"] \in {"app", "opener"} => owner["client"] \in {"app", "opener"}
        /\ owner'["server"] = "app" => owner["server"] = "app" \/ s["server"].st = "opening"
    BY TheEnds DEF IInv, Typed, OpenSent, SessionAccept
  <1>4. Typed' /\ \A x \in Ends : Caps(x)' /\ Status(x)' /\ OutData(x)'
    BY <1>1, <1>2 DEF IInv, Typed, Caps, Status, OutData
  <1>5. \A x \in Ends : Quit(x) <=> Quit(x)'
    BY <1>1 DEF Quit, Refused
  <1>6. \A x \in Ends : CloseLast(x)'
    BY <1>1, <1>5 DEF IInv, CloseLast
  <1>7. /\ Numbered("server", "client")' /\ PeerClosed("server", "client")'
        /\ Numbered("client", "server")' /\ PeerClosed("client", "server")'
    BY <1>1, <1>5, TheEnds DEF IInv, Numbered, PeerClosed
  <1>8. ConnectFirst' /\ Silent' /\ BeforeAccept' /\ ResponseFirst' /\ EndedForAReason'
    BY <1>1, <1>3 DEF IInv, ConnectFirst, Silent, BeforeAccept, ResponseFirst, EndedForAReason
  <1> QED
    BY <1>4, <1>6, <1>7, <1>8 DEF IInv

\* writeLoop: the next frame goes out.
LEMMA WriteLoopStep ==
    ASSUME IInv, NEW e \in Ends, WriteLoop(e)
    PROVE  IInv'
  <1> DEFINE h == Head(out[e])
  <1>0. Typed
    BY DEF IInv
  <1>1. out[e] \in Seq(Frames) /\ out[e] # <<>> /\ wire[e] \in Seq(Frames) /\ h \in Frames
    <2>1. out[e] \in Seq(Frames) /\ out[e] # <<>> /\ wire[e] \in Seq(Frames)
      BY <1>0 DEF Typed, WriteLoop
    <2> QED
      BY <2>1, TailIs
  <1>2. /\ out' \in [Ends -> Seq(Frames)] /\ wire' \in [Ends -> Seq(Frames)]
        /\ out'[e] = Tail(out[e]) /\ wire'[e] = Append(wire[e], h)
        /\ \A x \in Ends : x # e => out'[x] = out[x] /\ wire'[x] = wire[x]
        /\ note' = note /\ owner' = owner /\ ended' = ended
    BY <1>0, <1>1 DEF Typed, WriteLoop
  <1> HIDE DEF h
  <1>3. /\ Len(out[e]) \in Nat /\ Len(out'[e]) \in Nat /\ Len(out'[e]) <= Len(out[e])
        /\ Len(wire[e]) \in Nat /\ Len(wire'[e]) = Len(wire[e]) + 1 /\ Len(wire[e]) < WireCap
    BY <1>1, <1>2 DEF WriteLoop
  <1>4. \A k : /\ Lacks(out[e], k) <=> h.t # k /\ Lacks(out'[e], k)
               /\ Lacks(wire'[e], k) <=> Lacks(wire[e], k) /\ h.t # k
    BY <1>1, <1>2, TailLacks, AppendLacks DEF h
  <1>5. /\ CloseOrder(out[e]) => CloseOrder(out'[e])
        /\ ConnectOnlyFirst(out[e]) => Lacks(out'[e], "connect")
        /\ CloseOrder(out[e]) /\ h.t \in {"close", "close_ack"} => Lacks(out[e], "data")
        /\ Answered(out[e]) => h.t # "data"
    BY <1>1, <1>2, TailAny DEF h
  <1>6. /\ s' \in [Ends -> Stream]
        /\ \A x \in Ends :
            /\ x # e => s'[x] = s[x]
            /\ s'[x].st = s[x].st /\ s'[x].closed = s[x].closed /\ s'[x].known = s[x].known
            /\ s'[x].received = s[x].received /\ s'[x].consumed = s[x].consumed
            /\ s'[x].load = s[x].load
        /\ h.t # "data" => s'[e].sent = s[e].sent /\ s'[e].writing = s[e].writing
        /\ h.t = "data" => s'[e].sent = s[e].sent + 1 /\ s'[e].writing = FALSE
    <2>1. CASE h.t = "data"
      <3>1. s[e].sent + 1 \in Nat /\ s \in [Ends -> Stream]
        BY <1>0 DEF Typed, Stream
      <3>2. s' = SetWritingSent(s, e, FALSE, s[e].sent + 1)
        BY <2>1, Zenon DEF WriteLoop, h, SetWritingSent
      <3>3. IsSetWritingSent(s', s, e, FALSE, s[e].sent + 1)
        BY <3>1, <3>2, SetWritingSentIs
      <3> QED
        BY <2>1, <3>3, Zenon DEF IsSetWritingSent
    <2>2. CASE h.t # "data"
      BY <1>0, <2>2 DEF WriteLoop, h, Typed
    <2> QED
      BY <2>1, <2>2
  <1>7. s[e].sent \in Nat /\ s[e].load \in Nat /\ \A x \in Ends : s[x].received \in Nat
    BY <1>0 DEF Typed, Stream
  <1>8. h.t = "data" => /\ s[e].writing /\ h.n = s[e].sent /\ Lacks(out'[e], "data")
                        /\ NoClose(wire[e]) /\ ~Lacks(out[e], "data")
    <2> SUFFICES ASSUME h.t = "data"
                 PROVE  /\ s[e].writing /\ h.n = s[e].sent /\ Lacks(out'[e], "data")
                        /\ NoClose(wire[e]) /\ ~Lacks(out[e], "data")
      OBVIOUS
    <2>1. OneData(out[e], s[e].writing, s[e].sent)
      BY DEF IInv, OutData
    <2>2. s[e].writing /\ h.n = s[e].sent /\ Lacks(out'[e], "data")
      BY <1>1, <1>2, <2>1, TailData DEF h
    <2>3. ~Lacks(out[e], "data")
      BY <1>4
    <2>4. NoClose(wire[e])
      BY <2>3 DEF IInv, CloseLast
    <2> QED
      BY <2>2, <2>3, <2>4
  <1>9. /\ CloseOrder(wire'[e])
        /\ \A lo \in Nat : Run(wire[e], lo, s[e].sent) => Run(wire'[e], lo, s'[e].sent)
        /\ Answered(wire[e]) /\ (h.t = "data" => ~Lacks(wire[e], "response")) => Answered(wire'[e])
    <2>1. CloseOrder(wire[e])
      BY DEF IInv, CloseLast
    <2>2. CASE h.t = "data"
      <3>1. /\ NoClose(wire[e]) => CloseOrder(wire'[e])
            /\ \A lo \in Nat : Run(wire[e], lo, h.n) => Run(wire'[e], lo, h.n + 1)
            /\ Answered(wire[e]) /\ ~Lacks(wire[e], "response") => Answered(wire'[e])
        BY <1>1, <1>2, <2>2, AppendData, Zenon
      <3> QED
        BY <1>6, <1>8, <2>2, <3>1
    <2>3. CASE h.t # "data"
      BY <1>1, <1>2, <1>6, <1>7, <2>1, <2>3, AppendOther
    <2> QED
      BY <2>2, <2>3
  <1>10. Typed'
    BY <1>0, <1>2, <1>6 DEF Typed
  <1>11. \A x \in Ends : Caps(x)' /\ Status(x)'
    <2>1. Caps(e)
      BY DEF IInv
    <2>2. Caps(e)'
      <3>1. Len(out'[e]) <= OutCap /\ Len(wire'[e]) <= WireCap
        BY <1>3, <2>1, LimitsAssumption DEF Caps
      <3>2. s'[e].sent <= s'[e].load /\ (s'[e].writing => s'[e].sent < s'[e].load)
        BY <1>6, <1>7, <1>8, <2>1 DEF Caps
      <3> QED
        BY <1>6, <2>1, <3>1, <3>2 DEF Caps
    <2>3. \A x \in Ends : x # e => Caps(x)'
      BY <1>2, <1>6 DEF IInv, Caps
    <2>4. \A x \in Ends : Status(x)'
      BY <1>6 DEF IInv, Status
    <2> QED
      BY <2>2, <2>3, <2>4
  <1>12. \A x \in Ends : OutData(x)'
    <2>1. OneData(out'[e], s'[e].writing, s'[e].sent)
      <3>1. CASE h.t = "data"
        BY <1>2, <1>8, <3>1, WithoutData
      <3>2. CASE h.t # "data"
        BY <1>1, <1>2, <1>6, <3>2, TailOther DEF h, IInv, OutData
      <3> QED
        BY <3>1, <3>2
    <2> QED
      BY <1>2, <1>6, <2>1 DEF IInv, OutData
  <1>13. \A x \in Ends : Quit(x) <=> Quit(x)'
    BY <1>2, <1>4, <1>6, TheEnds DEF Quit, Refused
  <1>14. \A x \in Ends : CloseLast(x)'
    <2>1. CloseLast(e)'
      <3>1. CloseLast(e) /\ (Quit(e) <=> Quit(e)')
        BY <1>13 DEF IInv
      <3>2. NoClose(wire'[e]) \/ Lacks(out'[e], "data")
        BY <1>4, <1>5, <1>8, <3>1 DEF CloseLast, NoClose
      <3>3. NoClose(wire[e]) /\ NoClose(out[e]) => NoClose(wire'[e]) /\ NoClose(out'[e])
        BY <1>4 DEF NoClose
      <3> QED
        BY <1>2, <1>5, <1>9, <3>1, <3>2, <3>3 DEF CloseLast
    <2>2. \A x \in Ends : x # e => CloseLast(x)'
      BY <1>2, <1>6, <1>13 DEF IInv, CloseLast
    <2> QED
      BY <2>1, <2>2
  <1>15. Numbered("server", "client")' /\ Numbered("client", "server")'
    <2>1. CASE e = "client"
      BY <1>2, <1>6, <1>7, <1>9, <2>1, TheEnds DEF IInv, Numbered
    <2>2. CASE e = "server"
      BY <1>2, <1>6, <1>7, <1>9, <2>2, TheEnds DEF IInv, Numbered
    <2> QED
      BY <2>1, <2>2, TheEnds
  <1>16. PeerClosed("server", "client")' /\ PeerClosed("client", "server")'
    <2>1. CASE e = "client"
      BY <1>2, <1>4, <1>6, <1>7, <1>13, <2>1, TheEnds DEF IInv, PeerClosed
    <2>2. CASE e = "server"
      BY <1>2, <1>4, <1>6, <1>7, <1>13, <2>2, TheEnds DEF IInv, PeerClosed
    <2> QED
      BY <2>1, <2>2, TheEnds
  <1>17. ConnectFirst'
    <2>1. CASE e = "client"
      <3>1. wire[e] = <<>> => ConnectOnlyFirst(wire'[e])
        BY <1>1, <1>2, EmptyQueue, AppendConnect
      <3>2. h.t # "connect" /\ ConnectOnlyFirst(wire[e]) => ConnectOnlyFirst(wire'[e])
        BY <1>1, <1>2, AppendConnect
      <3>3. Lacks(out'[e], "connect") /\ ConnectOnlyFirst(out'[e])
        BY <1>2, <1>5, <2>1, WithoutConnect DEF IInv, ConnectFirst
      <3> QED
        BY <1>1, <1>2, <1>4, <1>6, <2>1, <3>1, <3>2, <3>3, TheEnds DEF IInv, ConnectFirst
    <2>2. CASE e = "server"
      BY <1>2, <1>6, <2>2, TheEnds DEF IInv, ConnectFirst
    <2> QED
      BY <2>1, <2>2, TheEnds
  <1>18. Silent'
    <2>1. CASE e = "client"
      BY <1>2, <1>4, <1>6, <2>1, TheEnds DEF IInv, Silent
    <2>2. CASE e = "server"
      BY <1>1, <1>2, <1>6, <2>2, TheEnds DEF IInv, Silent
    <2> QED
      BY <2>1, <2>2, TheEnds
  <1>19. BeforeAccept'
    <2>1. CASE e = "client"
      BY <1>2, <1>4, <1>6, <2>1, TheEnds DEF IInv, BeforeAccept
    <2>2. CASE e = "server"
      BY <1>2, <1>4, <1>6, <2>2, TheEnds DEF IInv, BeforeAccept
    <2> QED
      BY <2>1, <2>2, TheEnds
  <1>20. ResponseFirst'
    <2>1. CASE e = "client"
      BY <1>2, <1>6, <2>1, TheEnds DEF IInv, ResponseFirst
    <2>2. CASE e = "server"
      <3>1. h.t # "response" /\ Answered(out[e]) => Answered(out'[e])
        BY <1>1, <1>2, <1>5, TailOther DEF h
      <3> QED
        BY <1>2, <1>4, <1>5, <1>6, <1>9, <2>2, <3>1, TheEnds DEF IInv, ResponseFirst
    <2> QED
      BY <2>1, <2>2, TheEnds
  <1>21. EndedForAReason'
    BY <1>2, <1>6, TheEnds DEF IInv, EndedForAReason
  <1> QED
    BY <1>10, <1>11, <1>12, <1>14, <1>15, <1>16, <1>17, <1>18, <1>19, <1>20, <1>21 DEF IInv

\* What the steps of an application and of a timer have in common when they queue
\* nothing: they change the Stream of e and may leave a notice to a thread of e.
\* The first part says what they change.
OwnStream(e) ==
    /\ \A x \in Ends : x # e => s'[x] = s[x] /\ note'[x] = note[x]
    /\ s'[e].sent = s[e].sent /\ s'[e].load = s[e].load
    /\ s'[e].writing => s[e].writing
    /\ s[e].closed => s'[e].closed
    /\ s'[e].st \in {"none", "opening", "peer_closed"} => s'[e].st = s[e].st
    /\ s[e].st \in {"peer_closed", "closing", "gone"} =>
        s'[e].closed \/ s'[e].st \in {"peer_closed", "closing", "gone"}
    /\ s[e].st = "none" => s'[e].closed \/ s'[e].st = "none"
    /\ e = "client" /\ s'[e].st = "open" => s[e].st = "open"

\* The second, of which kind a notice is: a close if the end has quit by now, and a
\* response if the server has accepted.
OwnNotice(e) ==
    /\ \A k \in {"data", "connect"} : Spares(note[e], k) => Spares(note'[e], k)
    /\ \A k \in {"close", "close_ack"} :
        Spares(note[e], k) => Spares(note'[e], k) \/ s'[e].closed
    /\ Spares(note[e], "response") =>
        Spares(note'[e], "response") \/ s'[e].st \notin {"none", "opening"}
    /\ note[e]["app"].t = "response" => note'[e]["app"].t = "response"
    /\ e = "server" /\ s'[e].st = "open" =>
        s[e].st = "open" \/ note'[e]["app"].t = "response"

\* The third, the queue: at most a request of e has been skipped.
OwnQueue(e) ==
    /\ \A x \in Ends : x # e => out'[x] = out[x]
    /\ Len(out'[e]) <= OutCap
    /\ \A k : Lacks(out[e], k) => Lacks(out'[e], k)
    /\ Lacks(out'[e], "response") => Lacks(out[e], "response")
    /\ CloseOrder(out[e]) => CloseOrder(out'[e])
    /\ ConnectOnlyFirst(out[e]) => ConnectOnlyFirst(out'[e])
    /\ e = "server" /\ Answered(out[e]) => Answered(out'[e])
    /\ OneData(out'[e], s'[e].writing, s'[e].sent)

\* And the last: nobody becomes the owner.
OwnOwner ==
    /\ owner'["client"] \in {"app", "opener"} => owner["client"] \in {"app", "opener"}
    /\ owner'["server"] = "app" => owner["server"] = "app"

\* A step of e's application or timer that stays within these and neither receives nor
\* sends keeps the invariant.
LEMMA OwnStep ==
    ASSUME IInv, NEW e \in Ends, s[e].st # "none" \/ owner[e] = "app",
           wire' = wire, ended' = ended, Typed', Status(e)',
           OwnStream(e), OwnNotice(e), OwnQueue(e), OwnOwner,
           s'[e].received = s[e].received, s'[e].consumed <= s'[e].received
    PROVE  IInv'
  <1>1. \A x \in Ends : Caps(x)' /\ Status(x)'
    BY DEF IInv, Caps, Status, OwnStream, OwnQueue
  <1>2. \A x \in Ends : OutData(x)'
    BY DEF IInv, OutData, OwnStream, OwnNotice, OwnQueue
  <1>3. \A x \in Ends : Quit(x) => Quit(x)'
    <2>1. Refused => Refused' \/ s'["server"].closed
      <3>1. Lacks(out["client"], "connect") => Lacks(out'["client"], "connect")
        BY TheEnds DEF OwnQueue
      <3> QED
        BY <3>1, TheEnds DEF Refused, OwnStream
    <2> QED
      BY <2>1 DEF Quit, OwnStream
  <1>4. \A x \in Ends : CloseLast(x)'
    BY <1>3 DEF IInv, CloseLast, NoClose, OwnStream, OwnNotice, OwnQueue, Quit
  <1>5. Numbered("server", "client")' /\ Numbered("client", "server")'
    BY TheEnds DEF IInv, Numbered, OwnStream
  <1>6. PeerClosed("server", "client")' /\ PeerClosed("client", "server")'
    BY <1>3, TheEnds DEF IInv, PeerClosed, OwnStream, OwnQueue
  <1>7. ConnectFirst' /\ Silent'
    <2>1. CASE e = "client"
      BY <2>1, TheEnds DEF IInv, ConnectFirst, Silent, OwnStream, OwnQueue, OwnOwner
    <2>2. CASE e = "server"
      BY <2>2, TheEnds DEF IInv, ConnectFirst, Silent, OwnStream, OwnQueue, OwnOwner
    <2> QED
      BY <2>1, <2>2, TheEnds
  <1>8. BeforeAccept'
    <2>1. CASE e = "client"
      BY <2>1, TheEnds DEF IInv, BeforeAccept, OwnStream, OwnQueue
    <2>2. CASE e = "server"
      BY <2>2, TheEnds DEF IInv, BeforeAccept, OwnStream, OwnNotice, OwnQueue
    <2> QED
      BY <2>1, <2>2, TheEnds
  <1>9. ResponseFirst'
    <2>1. CASE e = "client"
      BY <2>1, TheEnds DEF IInv, ResponseFirst, OwnStream, OwnQueue
    <2>2. CASE e = "server"
      BY <2>2, TheEnds DEF IInv, ResponseFirst, OwnStream, OwnNotice, OwnQueue
    <2> QED
      BY <2>1, <2>2, TheEnds
  <1>10. EndedForAReason'
    BY TheEnds DEF IInv, EndedForAReason, OwnStream
  <1> QED
    BY <1>1, <1>2, <1>4, <1>5, <1>6, <1>7, <1>8, <1>9, <1>10 DEF IInv

\* The same for the steps that leave the queue alone.
LEMMA LocalStep ==
    ASSUME IInv, NEW e \in Ends, s[e].st # "none" \/ owner[e] = "app",
           out' = out, wire' = wire, owner' = owner, ended' = ended, Typed', Status(e)',
           OwnStream(e), OwnNotice(e),
           s'[e].writing = s[e].writing, s'[e].received = s[e].received,
           s'[e].consumed <= s'[e].received
    PROVE  IInv'
  <1>1. OwnQueue(e) /\ OwnOwner
    BY DEF IInv, Caps, OutData, OwnQueue, OwnOwner, OwnStream
  <1> QED
    BY <1>1, OwnStep

\* The values of a Stream's fields.
LEMMA FieldsOf ==
    ASSUME Typed, NEW e \in Ends
    PROVE  /\ s \in [Ends -> Stream] /\ s[e].st \in States
           /\ s[e].received \in Nat /\ s[e].consumed \in Nat /\ s[e].sent \in Nat
           /\ s[e].load \in Nat /\ s[e].remoteOff \in Nat
           /\ s[e].known \in BOOLEAN /\ s[e].closed \in BOOLEAN /\ s[e].noRead \in BOOLEAN
           /\ s[e].peerNoRead \in BOOLEAN /\ s[e].full \in BOOLEAN /\ s[e].writing \in BOOLEAN
  BY DEF Typed, Stream

\* Stream.Accept.
LEMMA StreamAcceptStep ==
    ASSUME IInv, StreamAccept
    PROVE  IInv'
  <1>0. Typed
    BY DEF IInv
  <1>1. IsSetSt(s', s, "server", "open")
    <2>1. s' = SetSt(s, "server", "open")
      BY Zenon DEF StreamAccept, SetSt
    <2> QED
      BY <1>0, <2>1, TheEnds, FieldsOf, SetStIs DEF States
  <1> DEFINE f == Frame("response", 0)
  <1>2. f \in Frames /\ f.t = "response"
    BY FrameIs DEF Kinds
  <1>3. /\ note' \in [Ends -> [Threads -> Frames \cup {Nothing}]]
        /\ note'["server"]["app"] = f
        /\ \A x \in Ends : x # "server" => note'[x] = note[x]
        /\ \A k : Spares(note["server"], k) /\ f.t # k => Spares(note'["server"], k)
    <2>1. Later("server", "app", f)
      BY DEF StreamAccept
    <2> QED
      BY <1>0, <1>2, <2>1, LaterIs, TheEnds DEF Threads
  <1> HIDE DEF f
  <1>4. /\ s["server"].st = "opening" /\ ~s["server"].closed
        /\ owner' = owner /\ out' = out /\ wire' = wire /\ ended' = ended
    BY DEF StreamAccept
  <1>5. Typed'
    BY <1>0, <1>1, <1>3, <1>4 DEF Typed, IsSetSt
  <1>6. Status("server")'
    BY <1>1, <1>4, TheEnds DEF IInv, Status, IsSetSt
  <1>7. OwnStream("server") /\ OwnNotice("server")
    BY <1>1, <1>2, <1>3, <1>4 DEF OwnStream, OwnNotice, IsSetSt
  <1>8. /\ s'["server"].writing = s["server"].writing /\ s'["server"].received = s["server"].received
        /\ s'["server"].consumed <= s'["server"].received
    BY <1>1, TheEnds DEF IInv, Caps, IsSetSt
  <1> QED
    BY <1>4, <1>5, <1>6, <1>7, <1>8, LocalStep, TheEnds

\* Read, and the notice that resumes the peer.
LEMMA ReadStep ==
    ASSUME IInv, NEW e \in Ends, Read(e)
    PROVE  IInv'
  <1>0. Typed
    BY DEF IInv
  <1>1. s[e].consumed < s[e].received
    <2>1. Buffered(e) > 0
      BY DEF Read
    <2> QED
      BY <1>0, <2>1, FieldsOf DEF Buffered
  <1> DEFINE full == s[e].full /\ ~Resumes(e)
  <1>2. IsSetConsumedFull(s', s, e, s[e].consumed + 1, full)
    <2>1. s' = SetConsumedFull(s, e, s[e].consumed + 1, full)
      BY Zenon DEF Read, SetConsumedFull
    <2>2. full \in BOOLEAN /\ s[e].consumed + 1 \in Nat
      BY <1>0, FieldsOf
    <2> HIDE DEF full
    <2> QED
      BY <1>0, <2>1, <2>2, FieldsOf, SetConsumedFullIs
  <1> HIDE DEF full
  <1>3. owner[e] = "app" /\ owner' = owner /\ out' = out /\ wire' = wire /\ ended' = ended
    BY DEF Read
  <1>4. /\ note' \in [Ends -> [Threads -> Frames \cup {Nothing}]]
        /\ \A x \in Ends : x # e => note'[x] = note[x]
        /\ \A k \in {"data", "connect", "close", "close_ack", "response"} :
            Spares(note[e], k) => Spares(note'[e], k)
        /\ note[e]["app"].t # "response"
    <2>1. note[e]["app"].t # "response"
      BY NothingIs DEF Read, Free
    <2>2. CASE Resumes(e)
      <3> DEFINE f == Frame("resume", s[e].received)
      <3>1. f \in Frames /\ f.t = "resume"
        BY <1>0, FrameIs, FieldsOf DEF Kinds
      <3>2. Later(e, "app", f)
        BY <2>2 DEF Read
      <3> HIDE DEF f
      <3> QED
        BY <1>0, <2>1, <3>1, <3>2, LaterIs DEF Threads
    <2>3. CASE ~Resumes(e)
      BY <1>0, <2>1, <2>3 DEF Read, Typed
    <2> QED
      BY <2>2, <2>3
  <1>5. Typed'
    BY <1>0, <1>2, <1>3, <1>4 DEF Typed, IsSetConsumedFull
  <1>6. Status(e)'
    BY <1>2 DEF IInv, Status, IsSetConsumedFull
  <1>7. OwnStream(e) /\ OwnNotice(e)
    BY <1>2, <1>4 DEF OwnStream, OwnNotice, IsSetConsumedFull
  <1>8. /\ s'[e].writing = s[e].writing /\ s'[e].received = s[e].received
        /\ s'[e].consumed <= s'[e].received
    BY <1>0, <1>1, <1>2, FieldsOf DEF IsSetConsumedFull
  <1> QED
    BY <1>3, <1>5, <1>6, <1>7, <1>8, LocalStep

\* What Close changes: the flow is closed, and a close notice is left unless the peer
\* has closed it.
LEMMA CloseByIs ==
    ASSUME Typed, NEW e \in Ends, NEW t \in Threads, NEW base \in [Ends -> Stream],
           CloseBy(e, t, base)
    PROVE  /\ \E b \in BOOLEAN : /\ IsSetClosedStKnown(s', base, e, TRUE, "closing", b)
                                 /\ s[e].st # "peer_closed" => b = base[e].known
           /\ note' \in [Ends -> [Threads -> Frames \cup {Nothing}]]
           /\ \A x \in Ends : x # e => note'[x] = note[x]
           /\ \A k \in {"data", "connect", "response"} : Spares(note[e], k) => Spares(note'[e], k)
           /\ \A u \in Threads : u # t => note'[e][u] = note[e][u]
           /\ s[e].st = "peer_closed" => note' = note
  <1> DEFINE b == base[e].known /\ ~(s[e].st = "peer_closed")
  <1>1. s' = SetClosedStKnown(base, e, TRUE, "closing", b)
    BY Zenon DEF CloseBy, SetClosedStKnown
  <1>2. b \in BOOLEAN /\ (s[e].st # "peer_closed" => b = base[e].known)
    BY DEF Stream
  <1> HIDE DEF b
  <1>3. IsSetClosedStKnown(s', base, e, TRUE, "closing", b)
    BY <1>1, <1>2, SetClosedStKnownIs DEF States
  <1>4. CASE s[e].st = "peer_closed"
    BY <1>2, <1>3, <1>4 DEF CloseBy, Typed
  <1>5. CASE s[e].st # "peer_closed"
    <2> DEFINE f == Frame("close", 0)
    <2>1. f \in Frames /\ f.t = "close"
      BY FrameIs DEF Kinds
    <2>2. Later(e, t, f)
      BY <1>5 DEF CloseBy
    <2> HIDE DEF f
    <2>3. /\ note' \in [Ends -> [Threads -> Frames \cup {Nothing}]]
          /\ \A x \in Ends : x # e => note'[x] = note[x]
          /\ \A k \in {"data", "connect", "response"} : Spares(note[e], k) => Spares(note'[e], k)
          /\ \A u \in Threads : u # t => note'[e][u] = note[e][u]
      BY <2>1, <2>2, LaterIs
    <2> QED
      BY <1>2, <1>3, <1>5, <2>3
  <1> QED
    BY <1>4, <1>5

\* Close.
LEMMA CloseStep ==
    ASSUME IInv, NEW e \in Ends, Close(e)
    PROVE  IInv'
  <1>0. Typed /\ s \in [Ends -> Stream]
    BY DEF IInv, Typed
  <1>1. /\ owner[e] = "app" /\ owner' = owner /\ out' = out /\ wire' = wire /\ ended' = ended
        /\ CloseBy(e, "closer", s)
    BY DEF Close
  <1>2. /\ \E b \in BOOLEAN : IsSetClosedStKnown(s', s, e, TRUE, "closing", b)
        /\ note' \in [Ends -> [Threads -> Frames \cup {Nothing}]]
        /\ \A x \in Ends : x # e => note'[x] = note[x]
        /\ \A k \in {"data", "connect", "response"} : Spares(note[e], k) => Spares(note'[e], k)
        /\ note'[e]["app"] = note[e]["app"]
    BY <1>0, <1>1, CloseByIs DEF Threads
  <1>3. PICK b \in BOOLEAN : IsSetClosedStKnown(s', s, e, TRUE, "closing", b)
    BY <1>2
  <1>4. Typed'
    BY <1>0, <1>1, <1>2, <1>3 DEF Typed, IsSetClosedStKnown
  <1>5. Status(e)'
    BY <1>3 DEF Status, IsSetClosedStKnown
  <1>6. OwnStream(e) /\ OwnNotice(e)
    BY <1>2, <1>3 DEF OwnStream, OwnNotice, IsSetClosedStKnown
  <1>7. /\ s'[e].writing = s[e].writing /\ s'[e].received = s[e].received
        /\ s'[e].consumed <= s'[e].received
    BY <1>3 DEF IInv, Caps, IsSetClosedStKnown
  <1> QED
    BY <1>1, <1>4, <1>5, <1>6, <1>7, LocalStep

\* CloseRead.
LEMMA CloseReadStep ==
    ASSUME IInv, NEW e \in Ends, CloseRead(e)
    PROVE  IInv'
  <1>0. Typed
    BY DEF IInv
  <1>1. IsSetNoRead(s', s, e, TRUE)
    <2>1. s' = SetNoRead(s, e, TRUE)
      BY Zenon DEF CloseRead, SetNoRead
    <2> QED
      BY <1>0, <2>1, FieldsOf, SetNoReadIs
  <1> DEFINE f == Frame("read_close", 0)
  <1>2. f \in Frames /\ f.t = "read_close"
    BY FrameIs DEF Kinds
  <1>3. /\ owner[e] = "app" /\ owner' = owner /\ out' = out /\ wire' = wire /\ ended' = ended
        /\ note[e]["app"].t = "nothing" /\ Later(e, "app", f)
    BY NothingIs DEF CloseRead, Free
  <1> HIDE DEF f
  <1>4. /\ note' \in [Ends -> [Threads -> Frames \cup {Nothing}]]
        /\ \A x \in Ends : x # e => note'[x] = note[x]
        /\ \A k : Spares(note[e], k) /\ f.t # k => Spares(note'[e], k)
    BY <1>0, <1>2, <1>3, LaterIs DEF Threads
  <1>5. Typed'
    BY <1>0, <1>1, <1>3, <1>4 DEF Typed, IsSetNoRead
  <1>6. Status(e)'
    BY <1>1 DEF IInv, Status, IsSetNoRead
  <1>7. OwnStream(e) /\ OwnNotice(e)
    BY <1>1, <1>2, <1>3, <1>4 DEF OwnStream, OwnNotice, IsSetNoRead
  <1>8. /\ s'[e].writing = s[e].writing /\ s'[e].received = s[e].received
        /\ s'[e].consumed <= s'[e].received
    BY <1>1 DEF IInv, Caps, IsSetNoRead
  <1> QED
    BY <1>3, <1>5, <1>6, <1>7, <1>8, LocalStep

\* closeTick, while it repeats the close.
LEMMA CloseTickStep ==
    ASSUME IInv, NEW e \in Ends, CloseTick(e)
    PROVE  IInv'
  <1>0. Typed
    BY DEF IInv
  <1> DEFINE f == Frame("close", 0)
  <1>1. f \in Frames /\ f.t = "close"
    BY FrameIs DEF Kinds
  <1>2. /\ s[e].st = "closing" /\ s' = s /\ owner' = owner /\ out' = out /\ wire' = wire
        /\ ended' = ended /\ Later(e, "closer", f)
    BY DEF CloseTick
  <1> HIDE DEF f
  <1>3. /\ note' \in [Ends -> [Threads -> Frames \cup {Nothing}]]
        /\ \A x \in Ends : x # e => note'[x] = note[x]
        /\ note'[e]["app"] = note[e]["app"]
        /\ \A k : Spares(note[e], k) /\ f.t # k => Spares(note'[e], k)
    BY <1>0, <1>1, <1>2, LaterIs DEF Threads
  <1>4. Typed' /\ Status(e)' /\ s[e].closed
    BY <1>0, <1>2, <1>3 DEF IInv, Typed, Status
  <1>5. OwnStream(e) /\ OwnNotice(e)
    BY <1>1, <1>2, <1>3, <1>4 DEF OwnStream, OwnNotice
  <1>6. s'[e].consumed <= s'[e].received
    BY <1>2 DEF IInv, Caps
  <1> QED
    BY <1>2, <1>4, <1>5, <1>6, LocalStep

\* closeTick, when it gives up.
LEMMA CloseExpiresStep ==
    ASSUME IInv, NEW e \in Ends, CloseExpires(e)
    PROVE  IInv'
  <1>0. Typed
    BY DEF IInv
  <1>1. IsSetKnown(s', s, e, FALSE)
    <2>1. s' = SetKnown(s, e, FALSE)
      BY Zenon DEF CloseExpires, SetKnown
    <2> QED
      BY <1>0, <2>1, FieldsOf, SetKnownIs
  <1>2. /\ s[e].st = "closing" /\ note' = note /\ owner' = owner /\ out' = out /\ wire' = wire
        /\ ended' = ended
    BY DEF CloseExpires
  <1>3. Typed' /\ Status(e)'
    BY <1>0, <1>1, <1>2 DEF IInv, Typed, Status, IsSetKnown
  <1>4. OwnStream(e) /\ OwnNotice(e)
    BY <1>1, <1>2 DEF OwnStream, OwnNotice, IsSetKnown
  <1>5. /\ s'[e].writing = s[e].writing /\ s'[e].received = s[e].received
        /\ s'[e].consumed <= s'[e].received
    BY <1>1 DEF IInv, Caps, IsSetKnown
  <1> QED
    BY <1>2, <1>3, <1>4, <1>5, LocalStep

\* The queue of e after the write loop has skipped f.
LEMMA SkipIs ==
    ASSUME IInv, NEW e \in Ends, NEW f \in Frames, f.t # "response",
           out' = [out EXCEPT ![e] = Skipped(out[e], f)]
    PROVE  /\ out' \in [Ends -> Seq(Frames)]
           /\ \A x \in Ends : x # e => out'[x] = out[x]
           /\ Len(out'[e]) <= OutCap
           /\ \A k : Lacks(out[e], k) => Lacks(out'[e], k)
           /\ Lacks(out'[e], "response") => Lacks(out[e], "response")
           /\ CloseOrder(out[e]) => CloseOrder(out'[e])
           /\ ConnectOnlyFirst(out[e]) => ConnectOnlyFirst(out'[e])
           /\ OneData(out'[e], s[e].writing, s[e].sent)
           /\ f = Frame("data", s[e].sent) => Lacks(out'[e], "data")
  <1> DEFINE q == out[e]  r == out'[e]
  <1>1. q \in Seq(Frames) /\ out \in [Ends -> Seq(Frames)]
    BY DEF IInv, Typed
  <1>2. r = Skipped(q, f) /\ \A x \in Ends : x # e => out'[x] = out[x]
    BY <1>1
  <1>3. OneData(q, s[e].writing, s[e].sent) /\ Len(q) <= OutCap
    BY DEF IInv, OutData, Caps
  <1> HIDE DEF q, r
  <1>4. r \in Seq(Frames) /\ Len(r) \in Nat /\ Len(q) \in Nat /\ Len(r) <= Len(q) /\ Removes(q, f, r)
    BY <1>1, <1>2, SkippedIs
  <1>5. Len(r) <= OutCap
    BY <1>3, <1>4, LimitsAssumption
  <1>6. out' \in [Ends -> Seq(Frames)]
    BY <1>1, <1>4 DEF r, q
  <1>7. /\ \A k : Lacks(q, k) => Lacks(r, k)
        /\ OneData(r, s[e].writing, s[e].sent)
        /\ CloseOrder(q) => CloseOrder(r)
        /\ ConnectOnlyFirst(q) => ConnectOnlyFirst(r)
        /\ f = Frame("data", s[e].sent) => Lacks(r, "data")
    BY <1>1, <1>2, <1>3, SkippedKeeps
  <1>8. Lacks(r, "response") => Lacks(q, "response")
    <2>1. CASE r = q
      BY <2>1
    <2>2. CASE r # q
      <3>1. PICK k \in 1..Len(q) :
                 /\ q[k] = f /\ Len(r) = Len(q) - 1
                 /\ \A i \in 1..Len(r) : /\ i < k => r[i] = q[i]
                                         /\ i >= k => r[i] = q[i + 1]
        BY <1>4, <2>2 DEF Removes
      <3> SUFFICES ASSUME NEW i \in 1..Len(q), Lacks(r, "response") PROVE q[i].t # "response"
        BY DEF Lacks
      <3>2. CASE i = k
        BY <3>1, <3>2
      <3>3. CASE i < k
        <4>1. i \in 1..Len(r) /\ r[i] = q[i]
          BY <1>4, <3>1, <3>3
        <4> QED
          BY <4>1 DEF Lacks
      <3>4. CASE i > k
        <4>1. i - 1 \in 1..Len(r) /\ r[i - 1] = q[i]
          BY <1>4, <3>1, <3>4
        <4> QED
          BY <4>1 DEF Lacks
      <3> QED
        BY <3>2, <3>3, <3>4
    <2> QED
      BY <2>1, <2>2
  <1> QED
    BY <1>2, <1>5, <1>6, <1>7, <1>8 DEF q, r

\* Open whose context ends before its connect is sent.
LEMMA OpenFailsStep ==
    ASSUME IInv, OpenFails
    PROVE  IInv'
  <1>0. Typed
    BY DEF IInv
  <1>1. IsSetClosedKnown(s', s, "client", TRUE, FALSE)
    <2>1. s' = SetClosedKnown(s, "client", TRUE, FALSE)
      BY Zenon DEF OpenFails, SetClosedKnown
    <2> QED
      BY <1>0, <2>1, TheEnds, FieldsOf, SetClosedKnownIs
  <1>2. /\ out' \in [Ends -> Seq(Frames)]
        /\ \A x \in Ends : x # "client" => out'[x] = out[x]
        /\ Len(out'["client"]) <= OutCap
        /\ \A k : Lacks(out["client"], k) => Lacks(out'["client"], k)
        /\ Lacks(out'["client"], "response") => Lacks(out["client"], "response")
        /\ CloseOrder(out["client"]) => CloseOrder(out'["client"])
        /\ ConnectOnlyFirst(out["client"]) => ConnectOnlyFirst(out'["client"])
        /\ OneData(out'["client"], s["client"].writing, s["client"].sent)
    <2>1. out' = [out EXCEPT !["client"] = Skipped(out["client"], Connect)]
      BY DEF OpenFails
    <2>2. Connect \in Frames /\ Connect.t # "response"
      BY FrameIs
    <2> QED
      BY <2>1, <2>2, TheEnds, SkipIs
  <1>3. /\ wire' = wire /\ note' = note /\ ended' = ended /\ owner["client"] = "opener"
        /\ owner' \in [Ends -> {"nobody", "opener", "queue", "app"}]
        /\ owner'["client"] = "nobody" /\ owner'["server"] = owner["server"]
    BY <1>0, TheEnds DEF OpenFails, Typed
  <1>4. s["client"].st # "none"
    BY <1>3 DEF IInv, ConnectFirst
  <1>5. Typed'
    BY <1>0, <1>1, <1>2, <1>3 DEF Typed, IsSetClosedKnown
  <1>6. Status("client")'
    BY <1>1, <1>4, TheEnds DEF IInv, Status, IsSetClosedKnown
  <1>7. OwnStream("client") /\ OwnNotice("client") /\ OwnOwner
    BY <1>1, <1>3, TheEnds DEF OwnStream, OwnNotice, OwnOwner, IsSetClosedKnown
  <1>8. OwnQueue("client")
    BY <1>1, <1>2 DEF OwnQueue, IsSetClosedKnown
  <1>9. s'["client"].received = s["client"].received /\ s'["client"].consumed <= s'["client"].received
    BY <1>1, TheEnds DEF IInv, Caps, IsSetClosedKnown
  <1> QED
    BY <1>3, <1>4, <1>5, <1>6, <1>7, <1>8, <1>9, OwnStep, TheEnds

\* A Write that gives up, whose flow is closed with it.
LEMMA WriteGivesUpStep ==
    ASSUME IInv, NEW e \in Ends, WriteGivesUp(e)
    PROVE  IInv'
  <1> DEFINE idle == [s EXCEPT ![e].writing = FALSE]
             f == Frame("data", s[e].sent)
  <1>0. Typed
    BY DEF IInv
  <1>1. IsSetWriting(idle, s, e, FALSE)
    <2>1. idle = SetWriting(s, e, FALSE)
      BY Zenon DEF SetWriting
    <2> HIDE DEF idle
    <2> QED
      BY <1>0, <2>1, FieldsOf, SetWritingIs
  <1>2. f \in Frames /\ f.t = "data"
    BY <1>0, FrameIs, FieldsOf DEF Kinds
  <1>3. /\ wire' = wire /\ ended' = ended /\ owner' = owner
        /\ s[e].closed \/ s[e].st = "peer_closed"
        /\ out' = [out EXCEPT ![e] = Skipped(out[e], f)]
    BY DEF WriteGivesUp
  <1>4. /\ s[e].closed => s' = idle /\ note' = note
        /\ ~s[e].closed => CloseBy(e, "app", idle)
    BY Zenon DEF WriteGivesUp
  <1> HIDE DEF idle, f
  <1>5. /\ out' \in [Ends -> Seq(Frames)]
        /\ \A x \in Ends : x # e => out'[x] = out[x]
        /\ Len(out'[e]) <= OutCap
        /\ \A k : Lacks(out[e], k) => Lacks(out'[e], k)
        /\ Lacks(out'[e], "response") => Lacks(out[e], "response")
        /\ CloseOrder(out[e]) => CloseOrder(out'[e])
        /\ ConnectOnlyFirst(out[e]) => ConnectOnlyFirst(out'[e])
        /\ Lacks(out'[e], "data")
    BY <1>2, <1>3, SkipIs DEF f
  <1>6. Answered(out'[e]) /\ \A w, n : OneData(out'[e], w, n)
    BY <1>5, WithoutData
  <1>7. /\ s' \in [Ends -> Stream] /\ note' = note
        /\ \A x \in Ends : x # e => s'[x] = s[x]
        /\ s'[e].load = s[e].load /\ s'[e].received = s[e].received
        /\ s'[e].consumed = s[e].consumed /\ s'[e].sent = s[e].sent
        /\ s'[e].writing = FALSE /\ s'[e].closed
        /\ \/ s'[e].st = s[e].st /\ s'[e].known = s[e].known /\ s[e].closed
           \/ s'[e].st = "closing"
    <2>1. CASE s[e].closed
      BY <1>1, <1>4, <2>1 DEF IsSetWriting
    <2>2. CASE ~s[e].closed
      <3>1. s[e].st = "peer_closed" /\ CloseBy(e, "app", idle) /\ idle \in [Ends -> Stream]
        BY <1>1, <1>3, <1>4, <2>2 DEF IsSetWriting
      <3>2. \E b \in BOOLEAN : IsSetClosedStKnown(s', idle, e, TRUE, "closing", b)
        BY <1>0, <3>1, CloseByIs DEF Threads
      <3>3. note' = note
        BY <1>0, <3>1, CloseByIs DEF Threads
      <3>4. PICK b \in BOOLEAN : IsSetClosedStKnown(s', idle, e, TRUE, "closing", b)
        BY <3>2
      <3> QED
        BY <1>1, <3>3, <3>4 DEF IsSetWriting, IsSetClosedStKnown
    <2> QED
      BY <2>1, <2>2
  <1>8. Typed'
    BY <1>0, <1>3, <1>5, <1>7 DEF Typed
  <1>9. Status(e)'
    BY <1>7 DEF IInv, Status
  <1>10. OwnStream(e) /\ OwnNotice(e) /\ OwnOwner
    <2>1. OwnStream(e)
      BY <1>7, FieldsOf, <1>0 DEF OwnStream, IInv, Status
    <2> QED
      BY <1>3, <1>7, <2>1 DEF OwnNotice, OwnOwner
  <1>11. OwnQueue(e)
    BY <1>5, <1>6 DEF OwnQueue
  <1>12. s'[e].received = s[e].received /\ s'[e].consumed <= s'[e].received
    BY <1>7 DEF IInv, Caps
  <1>13. s[e].st # "none"
    BY <1>3 DEF IInv, Status
  <1> QED
    BY <1>3, <1>8, <1>9, <1>10, <1>11, <1>12, <1>13, OwnStep

\* Open, up to its connect in the queue.
LEMMA OpenStep ==
    ASSUME IInv, Open
    PROVE  IInv'
  <1>0. Typed
    BY DEF IInv
  <1>1. IsSetStKnown(s', s, "client", "opening", TRUE)
    <2>1. s' = SetStKnown(s, "client", "opening", TRUE)
      BY Zenon DEF Open, SetStKnown
    <2> QED
      BY <1>0, <2>1, TheEnds, FieldsOf, SetStKnownIs DEF States
  <1>2. /\ s["client"].st = "none" /\ Room("client") /\ Queue("client", Connect)
        /\ wire' = wire /\ note' = note /\ ended' = ended
        /\ owner' \in [Ends -> {"nobody", "opener", "queue", "app"}]
        /\ owner'["client"] = "opener" /\ owner'["server"] = owner["server"]
    BY <1>0, TheEnds DEF Open, Typed
  <1>3. Connect \in Frames /\ Connect.t = "connect"
    BY FrameIs
  <1>4. /\ out' \in [Ends -> Seq(Frames)] /\ out'["client"] = Append(out["client"], Connect)
        /\ out["client"] \in Seq(Frames) /\ Len(out["client"]) \in Nat
        /\ Len(out'["client"]) = Len(out["client"]) + 1
        /\ out'["server"] = out["server"]
    BY <1>0, <1>2, <1>3, TheEnds, QueueIs
  <1>5. /\ \A k : Lacks(out'["client"], k) <=> Lacks(out["client"], k) /\ Connect.t # k
        /\ \A w, n : OneData(out["client"], w, n) => OneData(out'["client"], w, n)
        /\ CloseOrder(out["client"]) => CloseOrder(out'["client"])
    BY <1>3, <1>4, AppendLacks, AppendOther
  <1>6. wire["client"] = <<>> /\ out["client"] = <<>> /\ ConnectOnlyFirst(out'["client"])
    <2>1. wire["client"] = <<>> /\ out["client"] = <<>>
      BY <1>2 DEF IInv, ConnectFirst
    <2> QED
      BY <1>3, <1>4, <2>1, EmptyQueue, AppendConnect
  <1>7. /\ s["server"].st = "none" /\ ~s["server"].closed /\ owner["server"] # "app"
        /\ wire["server"] = <<>> /\ out["server"] = <<>> /\ Idle(note["server"])
    BY <1>2 DEF IInv, Silent
  <1>8. s'["server"] = s["server"]
    BY <1>1, TheEnds DEF IsSetStKnown
  <1>9. ~s["client"].closed /\ Status("client") /\ Status("server") /\ Caps("client") /\ Caps("server")
    BY <1>2, TheEnds DEF IInv, Status
  <1>10. Typed'
    BY <1>0, <1>1, <1>2, <1>4 DEF Typed, IsSetStKnown
  <1>11. Caps("client")' /\ Caps("server")' /\ Status("client")' /\ Status("server")'
    <2>1. Len(out'["client"]) <= OutCap
      BY <1>2, <1>4, LimitsAssumption DEF Room
    <2>2. Caps("client")'
      BY <1>1, <1>2, <1>9, <2>1 DEF Caps, IsSetStKnown
    <2>3. Status("client")'
      BY <1>1, <1>9 DEF Status, IsSetStKnown
    <2> QED
      BY <1>2, <1>4, <1>8, <1>9, <2>2, <2>3 DEF Caps, Status
  <1>12. OutData("client")' /\ OutData("server")'
    BY <1>1, <1>2, <1>4, <1>5, <1>8, TheEnds DEF IInv, OutData, IsSetStKnown
  <1>13. CloseLast("client")' /\ CloseLast("server")'
    <2>1. ~Quit("client") /\ ~Quit("server")
      BY <1>2, <1>7, <1>9 DEF Quit, Refused
    <2>2. /\ NoClose(wire["client"]) /\ NoClose(out["client"])
          /\ Spares(note["client"], "close") /\ Spares(note["client"], "close_ack")
          /\ NoClose(wire["server"]) /\ NoClose(out["server"])
          /\ Spares(note["server"], "close") /\ Spares(note["server"], "close_ack")
      BY <2>1, TheEnds DEF IInv, CloseLast
    <2>3. NoClose(out'["client"])
      BY <1>3, <1>5, <2>2 DEF NoClose
    <2> QED
      BY <1>2, <1>4, <1>5, <1>8, <2>2, <2>3, TheEnds DEF IInv, CloseLast
  <1>14. Numbered("server", "client")' /\ Numbered("client", "server")'
    BY <1>1, <1>2, <1>8 DEF IInv, Numbered, IsSetStKnown
  <1>15. PeerClosed("server", "client")' /\ PeerClosed("client", "server")'
    BY <1>1, <1>7, <1>8 DEF PeerClosed, IsSetStKnown
  <1>16. ConnectFirst'
    BY <1>1, <1>2, <1>6 DEF IInv, ConnectFirst, IsSetStKnown
  <1>17. Silent'
    BY <1>2, <1>4, <1>7, <1>8 DEF Silent
  <1>18. BeforeAccept'
    BY <1>1, <1>2, <1>3, <1>4, <1>5, <1>7, <1>8 DEF IInv, BeforeAccept, IsSetStKnown
  <1>19. ResponseFirst'
    BY <1>2, <1>4, <1>7, <1>8, EmptyQueue DEF ResponseFirst
  <1>20. EndedForAReason'
    BY <1>2, <1>8 DEF IInv, EndedForAReason
  <1> QED
    BY <1>10, <1>11, <1>12, <1>13, <1>14, <1>15, <1>16, <1>17, <1>18, <1>19, <1>20, TheEnds
    DEF IInv

\* Write, up to its frame in the queue.
LEMMA WriteStep ==
    ASSUME IInv, NEW e \in Ends, Write(e)
    PROVE  IInv'
  <1> DEFINE f == Frame("data", s[e].sent)
  <1>0. Typed
    BY DEF IInv
  <1>1. IsSetWriting(s', s, e, TRUE)
    <2>1. s' = SetWriting(s, e, TRUE)
      BY Zenon DEF Write, SetWriting
    <2> QED
      BY <1>0, <2>1, FieldsOf, SetWritingIs
  <1>2. f \in Frames /\ f.t = "data" /\ f.n = s[e].sent
    BY <1>0, FrameIs, FieldsOf DEF Kinds
  <1>3. /\ s[e].st = "open" /\ ~s[e].closed /\ ~s[e].writing /\ s[e].sent < s[e].load
        /\ Room(e) /\ Queue(e, f) /\ note[e]["app"].t = "nothing"
        /\ wire' = wire /\ note' = note /\ ended' = ended /\ owner' = owner
    BY NothingIs DEF Write, Free
  <1> HIDE DEF f
  <1>4. /\ out' \in [Ends -> Seq(Frames)] /\ out'[e] = Append(out[e], f)
        /\ out[e] \in Seq(Frames) /\ Len(out[e]) \in Nat /\ Len(out'[e]) = Len(out[e]) + 1
        /\ \A x \in Ends : x # e => out'[x] = out[x]
    BY <1>0, <1>2, <1>3, QueueIs
  <1>5. \A k : Lacks(out'[e], k) <=> Lacks(out[e], k) /\ f.t # k
    BY <1>2, <1>4, AppendLacks
  <1>6. Lacks(out[e], "data") /\ OneData(out'[e], TRUE, s[e].sent)
    <2>1. s[e].writing = FALSE
      BY <1>0, <1>3, FieldsOf
    <2>2. OneData(out[e], FALSE, s[e].sent)
      BY <2>1 DEF IInv, OutData
    <2> QED
      BY <1>2, <1>4, <2>2, NoWriteNoData, AppendData
  <1>7. ~Quit(e) /\ NoClose(wire[e]) /\ NoClose(out[e])
    <2>1. ~Quit(e)
      BY <1>3 DEF Quit, Refused
    <2> QED
      BY <2>1 DEF IInv, CloseLast
  <1>8. CloseOrder(out'[e])
    BY <1>2, <1>4, <1>7, AppendData
  <1>9. \A x \in Ends :
            /\ s'[x].st = s[x].st /\ s'[x].closed = s[x].closed /\ s'[x].known = s[x].known
            /\ s'[x].received = s[x].received /\ s'[x].consumed = s[x].consumed
            /\ s'[x].load = s[x].load /\ s'[x].sent = s[x].sent
    BY <1>1 DEF IsSetWriting
  <1>10. Typed'
    BY <1>0, <1>1, <1>3, <1>4 DEF Typed, IsSetWriting
  <1>11. \A x \in Ends : Caps(x)' /\ Status(x)'
    <2>1. Len(out'[e]) <= OutCap
      BY <1>3, <1>4, LimitsAssumption DEF Room
    <2>2. Caps(e)'
      BY <1>3, <1>9, <2>1 DEF IInv, Caps
    <2>3. \A x \in Ends : x # e => Caps(x)'
      BY <1>1, <1>3, <1>4 DEF IInv, Caps, IsSetWriting
    <2>4. \A x \in Ends : Status(x)'
      BY <1>9 DEF IInv, Status
    <2> QED
      BY <2>2, <2>3, <2>4
  <1>12. \A x \in Ends : OutData(x)'
    <2>1. OutData(e)'
      BY <1>1, <1>3, <1>6 DEF IInv, OutData, IsSetWriting
    <2> QED
      BY <1>1, <1>3, <1>4, <2>1 DEF IInv, OutData, IsSetWriting
  <1>13. \A x \in Ends : Quit(x) <=> Quit(x)'
    BY <1>2, <1>3, <1>4, <1>5, <1>9, TheEnds DEF Quit, Refused
  <1>14. \A x \in Ends : CloseLast(x)'
    <2>1. NoClose(out'[e])
      BY <1>2, <1>5, <1>7 DEF NoClose
    <2>2. CloseLast(e)'
      BY <1>3, <1>7, <1>8, <1>13, <2>1 DEF IInv, CloseLast
    <2>3. \A x \in Ends : x # e => CloseLast(x)'
      BY <1>3, <1>4, <1>13 DEF IInv, CloseLast
    <2> QED
      BY <2>2, <2>3
  <1>15. Numbered("server", "client")' /\ Numbered("client", "server")'
    BY <1>3, <1>9, TheEnds DEF IInv, Numbered
  <1>16. PeerClosed("server", "client")' /\ PeerClosed("client", "server")'
    BY <1>3, <1>4, <1>7, <1>9, <1>13, TheEnds DEF IInv, PeerClosed
  <1>17. ConnectFirst'
    <2>1. CASE e = "client"
      <3>1. ConnectOnlyFirst(out'["client"])
        BY <1>2, <1>4, <2>1, AppendConnect DEF IInv, ConnectFirst
      <3> QED
        BY <1>2, <1>3, <1>5, <1>9, <2>1, <3>1 DEF IInv, ConnectFirst
    <2>2. CASE e = "server"
      BY <1>3, <1>4, <1>9, <2>2, TheEnds DEF IInv, ConnectFirst
    <2> QED
      BY <2>1, <2>2, TheEnds
  <1>18. Silent'
    <2>1. CASE e = "client"
      BY <1>2, <1>3, <1>4, <1>5, <1>9, <2>1, TheEnds DEF IInv, Silent
    <2>2. CASE e = "server"
      BY <1>3, <1>4, <1>9, <2>2, TheEnds DEF IInv, Silent
    <2> QED
      BY <2>1, <2>2, TheEnds
  <1>19. BeforeAccept'
    <2>1. CASE e = "client"
      BY <1>3, <1>9, <2>1, TheEnds DEF IInv, BeforeAccept
    <2>2. CASE e = "server"
      BY <1>3, <1>9, <2>2, TheEnds DEF BeforeAccept
    <2> QED
      BY <2>1, <2>2, TheEnds
  <1>20. ResponseFirst'
    <2>1. CASE e = "client"
      BY <1>3, <1>9, <2>1, TheEnds DEF ResponseFirst
    <2>2. CASE e = "server"
      <3>1. Answered(out[e]) /\ ~Lacks(out[e], "response") => Answered(out'[e])
        BY <1>2, <1>4, AppendData
      <3> QED
        BY <1>2, <1>3, <1>5, <1>9, <2>2, <3>1, TheEnds DEF IInv, ResponseFirst
    <2> QED
      BY <2>1, <2>2, TheEnds
  <1>21. EndedForAReason'
    BY <1>3, <1>9, TheEnds DEF IInv, EndedForAReason
  <1> QED
    BY <1>10, <1>11, <1>12, <1>14, <1>15, <1>16, <1>17, <1>18, <1>19, <1>20, <1>21 DEF IInv

-----------------------------------------------------------------------------
(* handle: the steps of the loop that reads frames.                        *)

\* The frame that the loop of e takes, the first on the wire of o, and what is left.
LEMMA TakesIs ==
    ASSUME IInv, NEW e \in Ends, NEW types, Takes(e, types), NEW o, o = Other(e)
    PROVE  /\ o \in Ends /\ o # e /\ Numbered(o, e) /\ PeerClosed(o, e)
           /\ wire[o] \in Seq(Frames) /\ wire[o] # <<>>
           /\ Head(wire[o]) \in Frames /\ Head(wire[o]).t \in types
           /\ wire' \in [Ends -> Seq(Frames)] /\ wire'[o] = Tail(wire[o])
           /\ wire'[e] = wire[e] /\ Len(wire'[o]) <= WireCap
           /\ out' = out /\ note[e]["loop"] = Nothing /\ ended = <<>>
  <1>1. o \in Ends /\ o # e /\ (\A x \in Ends : x = e \/ x = o)
    BY TheEnds
  <1>2. Numbered(o, e) /\ PeerClosed(o, e)
    BY TheEnds DEF IInv
  <1>3. /\ wire \in [Ends -> Seq(Frames)] /\ wire[o] # <<>> /\ Head(wire[o]).t \in types
        /\ wire' = [wire EXCEPT ![o] = Tail(wire[o])]
        /\ out' = out /\ note[e]["loop"] = Nothing /\ ended = <<>>
    BY DEF IInv, Typed, Takes, Free, Up
  <1>4. wire[o] \in Seq(Frames) /\ Head(wire[o]) \in Frames /\ Tail(wire[o]) \in Seq(Frames)
    <2>1. wire[o] \in Seq(Frames)
      BY <1>1, <1>3
    <2> QED
      BY <1>3, <2>1, TailIs
  <1>5. wire' \in [Ends -> Seq(Frames)] /\ wire'[o] = Tail(wire[o]) /\ wire'[e] = wire[e]
    BY <1>1, <1>3, <1>4
  <1>6. Len(wire'[o]) <= WireCap
    <2>1. Len(wire[o]) <= WireCap
      BY <1>1 DEF IInv, Caps
    <2>2. Len(wire[o]) = Len(Tail(wire[o])) + 1 /\ Len(Tail(wire[o])) \in Nat
      BY <1>3, <1>4, TailIs
    <2> QED
      BY <1>5, <2>1, <2>2, LimitsAssumption
  <1> QED
    BY <1>1, <1>2, <1>3, <1>4, <1>5, <1>6

\* What handling a frame may change: the Stream of e, as the kind of the frame allows,
\* and the notice of the loop.
Handled(e, k) ==
    /\ \A x \in Ends : x # e => s'[x] = s[x] /\ note'[x] = note[x]
    /\ s'[e].sent = s[e].sent /\ s'[e].load = s[e].load /\ s'[e].writing = s[e].writing
    /\ s[e].closed => s'[e].closed
    /\ s[e].st \in {"peer_closed", "closing", "gone"} =>
        s'[e].closed \/ s'[e].st \in {"peer_closed", "closing", "gone"}
    /\ s'[e].st = "none" => s[e].st = "none"
    /\ s[e].st = "none" => s'[e].st = "none" \/ s'[e].closed \/ k = "connect"
    /\ s'[e].st = "opening" => s[e].st = "opening" \/ (s[e].st = "none" /\ e = "server")
    /\ s'[e].st = "open" => s[e].st = "open" \/ (k = "response" /\ e = "client")
    /\ e = "client" /\ s'[e].st = "opening" /\ ~s'[e].closed => k # "response"
    /\ \A j \in {"data", "connect", "response"} : Spares(note[e], j) => Spares(note'[e], j)
    /\ \A j \in {"close", "close_ack"} : Spares(note[e], j) => Spares(note'[e], j) \/ Quit(e)'
    /\ note'[e]["app"] = note[e]["app"]

\* An end that has quit stays so when a frame is handled.
LEMMA HandledQuit ==
    ASSUME IInv, NEW e \in Ends, NEW types, Takes(e, types), NEW o, o = Other(e),
           NEW k, k = Head(wire[o]).t, Handled(e, k)
    PROVE  \A x \in Ends : Quit(x) => Quit(x)'
  <1>1. /\ o \in Ends /\ o # e /\ wire[o] \in Seq(Frames) /\ wire[o] # <<>>
        /\ wire'[o] = Tail(wire[o]) /\ wire'[e] = wire[e] /\ out' = out
    BY TakesIs
  <1>2. \A j : Lacks(wire[o], j) <=> k # j /\ Lacks(wire'[o], j)
    BY <1>1, TailLacks
  <1>3. Refused => Refused' \/ s'["server"].closed
    <2>1. CASE e = "client"
      BY <1>1, <1>2, <2>1, TheEnds DEF Refused, Handled
    <2>2. CASE e = "server"
      BY <1>1, <1>2, <2>2, TheEnds DEF Refused, Handled
    <2> QED
      BY <2>1, <2>2, TheEnds
  <1> QED
    BY <1>3 DEF Quit, Handled

\* A frame without data that does not close the flow.
LEMMA QuietFrame ==
    ASSUME IInv, NEW e \in Ends, NEW types, Takes(e, types), NEW o, o = Other(e),
           NEW k, k = Head(wire[o]).t, Handled(e, k), k # "data",
           s'[e].received = s[e].received,
           s'[e].st = "peer_closed" => s[e].st = "peer_closed"
    PROVE  Numbered(o, e)' /\ PeerClosed(o, e)'
  <1>1. /\ o \in Ends /\ o # e /\ wire[o] \in Seq(Frames) /\ wire[o] # <<>>
        /\ wire'[o] = Tail(wire[o]) /\ out' = out /\ Numbered(o, e) /\ PeerClosed(o, e)
        /\ ended = <<>>
    BY TakesIs
  <1>2. /\ Lacks(wire[o], "data") => Lacks(wire'[o], "data")
        /\ \A lo \in Nat, hi \in Nat : Run(wire[o], lo, hi) => Run(wire'[o], lo, hi)
    BY <1>1, TailLacks, TailOther
  <1>3. Quit(o) => Quit(o)'
    BY <1>1, HandledQuit
  <1>4. s[e].received \in Nat /\ s[o].sent \in Nat /\ s'[o] = s[o]
    BY <1>1, FieldsOf DEF IInv, Handled
  <1>5. Numbered(o, e)'
    BY <1>1, <1>2, <1>4 DEF Numbered, Handled
  <1>6. PeerClosed(o, e)'
    BY <1>1, <1>2, <1>3, <1>4 DEF PeerClosed
  <1> QED
    BY <1>5, <1>6

\* A frame that is handled keeps the invariant, if the offsets of its direction do.
LEMMA HandledStep ==
    ASSUME IInv, NEW e \in Ends, NEW types, Takes(e, types), NEW o, o = Other(e),
           NEW k, k = Head(wire[o]).t, Handled(e, k), Typed', Status(e)',
           Numbered(o, e)', PeerClosed(o, e)', EndedForAReason',
           s'[e].consumed <= s'[e].received,
           owner'["client"] = owner["client"],
           owner'["server"] = owner["server"] \/ owner'["server"] # "app"
    PROVE  IInv'
  <1>1. /\ o \in Ends /\ o # e /\ wire[o] \in Seq(Frames) /\ wire[o] # <<>>
        /\ wire'[o] = Tail(wire[o]) /\ wire'[e] = wire[e] /\ Len(wire'[o]) <= WireCap
        /\ out' = out /\ ended = <<>>
    BY TakesIs
  <1>2. \A j : Lacks(wire[o], j) <=> k # j /\ Lacks(wire'[o], j)
    BY <1>1, TailLacks
  <1>3. /\ CloseOrder(wire[o]) => CloseOrder(wire'[o])
        /\ ConnectOnlyFirst(wire[o]) => Lacks(wire'[o], "connect")
        /\ Answered(wire[o]) => k # "data"
    BY <1>1, TailAny
  <1>4. k # "response" /\ Answered(wire[o]) => Answered(wire'[o])
    BY <1>1, <1>3, TailOther
  <1>5. \A x \in Ends : Caps(x)' /\ Status(x)'
    <2>1. Caps(e)'
      BY <1>1 DEF IInv, Caps, Handled
    <2>2. Caps(o)' /\ Status(o)'
      BY <1>1 DEF IInv, Caps, Status, Handled
    <2> QED
      BY <1>1, <2>1, <2>2, TheEnds
  <1>6. \A x \in Ends : OutData(x)'
    BY <1>1 DEF IInv, OutData, Handled
  <1>7. \A x \in Ends : Quit(x) => Quit(x)'
    BY HandledQuit
  <1>8. \A x \in Ends : CloseLast(x)'
    <2>1. CloseLast(e)'
      BY <1>1, <1>7 DEF IInv, CloseLast, Handled
    <2>2. CloseLast(o)'
      BY <1>1, <1>2, <1>3, <1>7 DEF IInv, CloseLast, NoClose, Handled
    <2> QED
      BY <1>1, <2>1, <2>2, TheEnds
  <1>9. Numbered(e, o)' /\ PeerClosed(e, o)'
    <2>1. Numbered(e, o) /\ PeerClosed(e, o)
      BY TheEnds DEF IInv
    <2> QED
      BY <1>1, <1>7, <2>1 DEF Numbered, PeerClosed, Handled
  <1>10. /\ Numbered("server", "client")' /\ PeerClosed("server", "client")'
         /\ Numbered("client", "server")' /\ PeerClosed("client", "server")'
    <2>1. CASE e = "client"
      BY <1>9, <2>1, TheEnds
    <2>2. CASE e = "server"
      BY <1>9, <2>2, TheEnds
    <2> QED
      BY <2>1, <2>2, TheEnds
  <1>11. /\ e = "server" =>
            /\ Lacks(wire'["client"], "connect") /\ Lacks(out'["client"], "connect")
            /\ s'["client"].st # "none"
         /\ e = "client" => s["client"].st # "none" /\ s'["client"].st # "none"
    <2>1. CASE e = "server"
      BY <1>1, <1>3, <2>1, TheEnds DEF IInv, ConnectFirst, Handled
    <2>2. CASE e = "client"
      BY <1>1, <2>2, TheEnds DEF IInv, Silent, Handled
    <2> QED
      BY <2>1, <2>2, TheEnds
  <1>12. ConnectFirst'
    <2>1. CASE e = "client"
      BY <1>1, <1>11, <2>1, TheEnds DEF IInv, ConnectFirst
    <2>2. CASE e = "server"
      <3>1. wire'["client"] \in Seq(Frames)
        BY TheEnds DEF Typed
      <3>2. ConnectOnlyFirst(wire'["client"])
        BY <1>11, <2>2, <3>1, WithoutConnect
      <3> QED
        BY <1>1, <1>11, <2>2, <3>2, TheEnds DEF IInv, ConnectFirst
    <2> QED
      BY <2>1, <2>2, TheEnds
  <1>13. Silent'
    <2>1. CASE e = "client"
      BY <1>1, <1>11, <2>1, TheEnds DEF IInv, Silent
    <2>2. CASE e = "server"
      BY <1>11, <2>2 DEF Silent
    <2> QED
      BY <2>1, <2>2, TheEnds
  <1>14. BeforeAccept'
    <2>1. CASE e = "client"
      BY <1>1, <1>2, <2>1, TheEnds DEF IInv, BeforeAccept, Handled
    <2>2. CASE e = "server"
      BY <1>1, <1>2, <2>2, TheEnds DEF IInv, BeforeAccept, Handled
    <2> QED
      BY <2>1, <2>2, TheEnds
  <1>15. ResponseFirst'
    <2>1. CASE e = "client"
      BY <1>1, <1>2, <1>4, <2>1, TheEnds DEF IInv, ResponseFirst, Handled
    <2>2. CASE e = "server"
      BY <1>1, <2>2, TheEnds DEF IInv, ResponseFirst, Handled
    <2> QED
      BY <2>1, <2>2, TheEnds
  <1> QED
    BY <1>5, <1>6, <1>8, <1>10, <1>12, <1>13, <1>14, <1>15 DEF IInv

\* connected.
LEMMA HandleResponseStep ==
    ASSUME IInv, HandleResponse
    PROVE  IInv'
  <1> DEFINE e == "client"  o == "server"  k == Head(wire[o]).t
             st == IF s[e].st = "opening" /\ s[e].known THEN "open" ELSE s[e].st
  <1>0. Typed /\ e \in Ends /\ o = Other(e) /\ o \in Ends
    BY TheEnds DEF IInv
  <1>1. Takes(e, {"response"}) /\ owner' = owner /\ note' = note /\ ended' = ended
    BY DEF HandleResponse
  <1>2. st \in States /\ (st # s[e].st => st = "open" /\ s[e].st = "opening" /\ s[e].known)
        /\ (s[e].st = "opening" /\ s[e].known => st = "open")
    BY <1>0, FieldsOf DEF States
  <1>3. IsSetSt(s', s, e, st)
    <2>1. s' = SetSt(s, e, st)
      BY Zenon DEF HandleResponse, SetSt
    <2> HIDE DEF st
    <2> QED
      BY <1>0, <1>2, <2>1, FieldsOf, SetStIs
  <1> HIDE DEF st
  <1>4. k = "response" /\ wire' \in [Ends -> Seq(Frames)] /\ out' = out
    BY <1>0, <1>1, TakesIs
  <1>5. Status(e)
    BY <1>0 DEF IInv
  <1>6. Handled(e, k)
    BY <1>0, <1>1, <1>2, <1>3, <1>4, <1>5 DEF Handled, IsSetSt, Status
  <1>7. Typed'
    BY <1>0, <1>1, <1>3, <1>4 DEF Typed, IsSetSt
  <1>8. Status(e)'
    BY <1>2, <1>3, <1>5 DEF Status, IsSetSt
  <1>9. Numbered(o, e)' /\ PeerClosed(o, e)'
    BY <1>0, <1>1, <1>2, <1>3, <1>4, <1>6, QuietFrame DEF IsSetSt
  <1>10. EndedForAReason'
    BY <1>1, <1>3, TheEnds DEF IInv, EndedForAReason, IsSetSt
  <1>11. s'[e].consumed <= s'[e].received
    BY <1>0, <1>3 DEF IInv, Caps, IsSetSt
  <1> HIDE DEF e, o, k
  <1> QED
    BY <1>0, <1>1, <1>6, <1>7, <1>8, <1>9, <1>10, <1>11, HandledStep DEF k

\* peerReadClose and peerBuffer: what they change is not in the invariant.
LEMMA HandleNoticeStep ==
    ASSUME IInv, NEW e \in Ends, HandleReadClose(e) \/ HandleBuffer(e)
    PROVE  IInv'
  <1> DEFINE o == Other(e)  h == Head(wire[o])
  <1>0. Typed
    BY DEF IInv
  <1>1. PICK types : Takes(e, types) /\ types \in {{"read_close"}, {"full", "resume"}}
    BY DEF HandleReadClose, HandleBuffer
  <1>2. h \in Frames /\ h.t \in types /\ wire' \in [Ends -> Seq(Frames)] /\ out' = out
    BY <1>1, TakesIs
  <1>3. owner' = owner /\ note' = note /\ ended' = ended
    BY DEF HandleReadClose, HandleBuffer
  <1>4. /\ s' \in [Ends -> Stream] /\ \A x \in Ends : x # e => s'[x] = s[x]
        /\ s'[e].st = s[e].st /\ s'[e].load = s[e].load /\ s'[e].known = s[e].known
        /\ s'[e].closed = s[e].closed /\ s'[e].received = s[e].received
        /\ s'[e].consumed = s[e].consumed /\ s'[e].sent = s[e].sent
        /\ s'[e].writing = s[e].writing
    <2>1. CASE HandleReadClose(e)
      <3> DEFINE b == s[e].peerNoRead \/ s[e].known
      <3>1. s' = SetPeerNoRead(s, e, b)
        BY <2>1, Zenon DEF HandleReadClose, SetPeerNoRead
      <3>2. b \in BOOLEAN
        BY <1>0, FieldsOf
      <3> HIDE DEF b
      <3>3. IsSetPeerNoRead(s', s, e, b)
        BY <1>0, <3>1, <3>2, FieldsOf, SetPeerNoReadIs
      <3> QED
        BY <3>3 DEF IsSetPeerNoRead
    <2>2. CASE HandleBuffer(e) /\ s' = s
      BY <1>0, <2>2, FieldsOf
    <2>3. CASE HandleBuffer(e) /\ s' # s
      <3> DEFINE b == (h.t = "full")
      <3>1. s' = SetRemote(s, e, h.n, b)
        BY <2>3, Zenon DEF HandleBuffer, SetRemote
      <3>2. b \in BOOLEAN /\ h.n \in Nat
        BY <1>2, FrameIs
      <3> HIDE DEF b, h
      <3>3. IsSetRemote(s', s, e, h.n, b)
        BY <1>0, <3>1, <3>2, FieldsOf, SetRemoteIs
      <3> QED
        BY <3>3 DEF IsSetRemote
    <2> QED
      BY <2>1, <2>2, <2>3
  <1>5. h.t \notin {"data", "response", "connect"}
    BY <1>1, <1>2
  <1>6. Status(e)
    BY DEF IInv
  <1>7. Handled(e, h.t)
    BY <1>3, <1>4, <1>5, <1>6 DEF Handled, Status
  <1>8. Typed'
    BY <1>0, <1>2, <1>3, <1>4 DEF Typed
  <1>9. Status(e)'
    BY <1>4, <1>6 DEF Status
  <1>10. Numbered(o, e)' /\ PeerClosed(o, e)'
    BY <1>1, <1>4, <1>5, <1>7, QuietFrame
  <1>11. EndedForAReason'
    BY <1>3, <1>4, TheEnds DEF IInv, EndedForAReason
  <1>12. s'[e].consumed <= s'[e].received
    BY <1>4 DEF IInv, Caps
  <1> HIDE DEF o
  <1> QED
    BY <1>1, <1>3, <1>7, <1>8, <1>9, <1>10, <1>11, <1>12, HandledStep DEF o

\* A connect: a new flow, a refusal or a rejected flow.
LEMMA HandleConnectStep ==
    ASSUME IInv, HandleConnect
    PROVE  IInv'
  <1> DEFINE e == "server"  o == "client"  k == Head(wire[o]).t
             f == Frame("close", 0)
  <1>0. Typed /\ e \in Ends /\ o = Other(e) /\ o \in Ends /\ o # e
    BY TheEnds DEF IInv
  <1>1. Takes(e, {"connect"}) /\ ended' = ended
    BY DEF HandleConnect
  <1>2. /\ k = "connect" /\ wire' \in [Ends -> Seq(Frames)] /\ out' = out
        /\ wire[o] \in Seq(Frames) /\ wire[o] # <<>> /\ wire'[o] = Tail(wire[o])
    BY <1>0, <1>1, TakesIs
  <1>3. ~Lacks(wire[o], "connect") /\ ~Lacks(wire["client"], "connect")
    BY <1>2, TailLacks
  <1>4. /\ s[e].st = "none" /\ ~s[e].closed /\ Idle(note[e])
    BY <1>3 DEF IInv, Silent
  <1>5. s[o].st # "none" /\ Lacks(wire'[o], "connect") /\ Lacks(out[o], "connect")
    BY <1>2, TailAny DEF IInv, ConnectFirst
  <1>6. f \in Frames /\ f.t = "close"
    BY FrameIs DEF Kinds
  <1> HIDE DEF f
  <1>7. ASSUME NEW st \in States, NEW known \in BOOLEAN, NEW closed \in BOOLEAN,
               s' \in [Ends -> Stream], s'[o] = s[o],
               s'[e].st = st, s'[e].known = known, s'[e].closed = closed,
               s'[e].load = s[e].load, s'[e].sent = s[e].sent, s'[e].writing = s[e].writing,
               s'[e].received = s[e].received, s'[e].consumed = s[e].consumed,
               \/ st = "none" /\ ~known /\ ~closed
               \/ st = "opening" /\ known /\ ~closed
               \/ st = "closing" /\ known /\ closed,
               owner' \in [Ends -> {"nobody", "opener", "queue", "app"}],
               owner'["client"] = owner["client"],
               owner'["server"] = owner["server"] \/ owner'["server"] # "app",
               note' = note \/ (Later(e, "loop", f) /\ st # "opening")
        PROVE  IInv'
    <2>1. /\ note' \in [Ends -> [Threads -> Frames \cup {Nothing}]]
          /\ note'[e]["app"] = note[e]["app"] /\ note'[o] = note[o]
          /\ \A j : j # "close" /\ Spares(note[e], j) => Spares(note'[e], j)
          /\ st = "opening" => note' = note
      <3>1. CASE note' = note
        BY <1>0, <3>1 DEF Typed
      <3>2. CASE Later(e, "loop", f) /\ st # "opening"
        <4>1. /\ note' \in [Ends -> [Threads -> Frames \cup {Nothing}]]
              /\ \A u \in Threads : u # "loop" => note'[e][u] = note[e][u]
              /\ \A x \in Ends : x # e => note'[x] = note[x]
              /\ \A j : Spares(note[e], j) /\ f.t # j => Spares(note'[e], j)
          BY <1>0, <1>6, <3>2, LaterIs DEF Threads
        <4>2. note'[e]["app"] = note[e]["app"] /\ note'[o] = note[o]
          BY <1>0, <4>1 DEF Threads
        <4> QED
          BY <1>6, <3>2, <4>1, <4>2
      <3> QED
        BY <1>7, <3>1, <3>2
    <2>2. st # "opening" => Quit(e)'
      BY <1>2, <1>5, <1>7 DEF Quit, Refused
    <2>3. Handled(e, k)
      <3>1. \A x \in Ends : x # e => s'[x] = s[x] /\ note'[x] = note[x]
        BY <1>7, <2>1, TheEnds
      <3>2. \A j \in {"close", "close_ack"} : Spares(note[e], j) => Spares(note'[e], j) \/ Quit(e)'
        BY <2>1, <2>2
      <3> HIDE DEF k
      <3> QED
        BY <1>2, <1>4, <1>7, <2>1, <3>1, <3>2 DEF Handled
    <2>4. Typed' /\ Status(e)'
      BY <1>0, <1>2, <1>7, <2>1 DEF Typed, Status
    <2>5. Numbered(o, e)' /\ PeerClosed(o, e)'
      BY <1>0, <1>1, <1>2, <1>7, <2>3, QuietFrame
    <2>6. EndedForAReason'
      BY <1>1, <1>4, <1>7 DEF IInv, EndedForAReason
    <2>7. s'[e].consumed <= s'[e].received
      BY <1>0, <1>7 DEF IInv, Caps
    <2> HIDE DEF e, o
    <2> QED
      BY <1>0, <1>1, <1>7, <2>3, <2>4, <2>5, <2>6, <2>7, HandledStep
  <1>8. CASE /\ s' = [s EXCEPT !["server"].st = "opening", !["server"].known = TRUE]
             /\ owner' = [owner EXCEPT !["server"] = "queue"]
             /\ UNCHANGED note
    <2>1. s' = SetStKnown(s, e, "opening", TRUE)
      BY <1>8, Zenon DEF SetStKnown
    <2>2. IsSetStKnown(s', s, e, "opening", TRUE)
      BY <1>0, <2>1, FieldsOf, SetStKnownIs DEF States
    <2>3. /\ owner' \in [Ends -> {"nobody", "opener", "queue", "app"}] /\ note' = note
          /\ owner'["client"] = owner["client"] /\ owner'["server"] # "app"
      BY <1>0, <1>8 DEF Typed
    <2>4. s[e].closed \in BOOLEAN
      BY <1>0, FieldsOf
    <2> QED
      BY <1>0, <1>4, <1>7, <2>2, <2>3, <2>4 DEF IsSetStKnown, States
  <1>9. CASE Later("server", "loop", Frame("close", 0)) /\ UNCHANGED <<s, owner>>
    <2>1. ~s[e].known
      BY <1>0, <1>4 DEF IInv, Status
    <2>2. s \in [Ends -> Stream] /\ s[e].known \in BOOLEAN /\ s[e].closed \in BOOLEAN
      BY <1>0, FieldsOf
    <2>3. Later(e, "loop", f)
      BY <1>9 DEF f
    <2> QED
      BY <1>0, <1>4, <1>7, <1>9, <2>1, <2>2, <2>3 DEF Typed, States
  <1>10. CASE /\ s' = [s EXCEPT !["server"].st = "closing", !["server"].known = TRUE,
                                !["server"].closed = TRUE]
              /\ Later("server", "loop", Frame("close", 0))
              /\ UNCHANGED owner
    <2>1. s' = SetStKnownClosed(s, e, "closing", TRUE, TRUE)
      BY <1>10, Zenon DEF SetStKnownClosed
    <2>2. IsSetStKnownClosed(s', s, e, "closing", TRUE, TRUE)
      BY <1>0, <2>1, FieldsOf, SetStKnownClosedIs DEF States
    <2>3. Later(e, "loop", f)
      BY <1>10 DEF f
    <2> QED
      BY <1>0, <1>4, <1>7, <1>10, <2>2, <2>3 DEF IsSetStKnownClosed, States, Typed
  <1> QED
    BY <1>8, <1>9, <1>10, Zenon DEF HandleConnect

\* peerClose, and the answer to a close of a flow that is not known.
LEMMA HandleCloseStep ==
    ASSUME IInv, NEW e \in Ends, HandleClose(e)
    PROVE  IInv'
  <1> DEFINE o == Other(e)  k == Head(wire[o]).t
  <1>0. Typed
    BY DEF IInv
  <1>1. Takes(e, {"close", "close_ack"}) /\ owner' = owner /\ ended' = ended
    BY DEF HandleClose
  <1>2. /\ k \in {"close", "close_ack"} /\ wire' \in [Ends -> Seq(Frames)] /\ out' = out
        /\ wire[o] \in Seq(Frames) /\ wire[o] # <<>> /\ wire'[o] = Tail(wire[o])
        /\ o \in Ends /\ o # e /\ Numbered(o, e) /\ PeerClosed(o, e) /\ ended = <<>>
    BY <1>1, TakesIs
  <1>3. /\ Quit(o) /\ Lacks(wire[o], "data") /\ Lacks(out[o], "data") /\ Lacks(wire'[o], "data")
        /\ ConnectOnlyFirst(wire[o]) => Lacks(wire'[o], "connect")
    <2>1. CloseLast(o)
      BY <1>2 DEF IInv
    <2>2. Lacks(wire[o], "data") /\ (ConnectOnlyFirst(wire[o]) => Lacks(wire'[o], "connect"))
      BY <1>2, <2>1, TailAny DEF CloseLast
    <2>3. Lacks(wire'[o], "data") /\ ~NoClose(wire[o])
      BY <1>2, <2>2, TailLacks DEF NoClose
    <2> QED
      BY <2>1, <2>2, <2>3 DEF CloseLast
  <1>4. s[e].received \in Nat /\ s[o].sent \in Nat
    BY <1>0, <1>2, FieldsOf
  <1>5. ~s[e].closed => s[e].received = s[o].sent
    <2>1. ~s[e].closed => Run(wire[o], s[e].received, s[o].sent)
      BY <1>2 DEF Numbered
    <2> QED
      BY <1>2, <1>3, <1>4, <2>1, WithoutData
  <1>6. Status(e)
    BY DEF IInv
  <1>7. ASSUME NEW f, f \in {Frame("close", 0), Frame("close_ack", 0)},
               note' = note \/ Later(e, "loop", f)
        PROVE  /\ note' \in [Ends -> [Threads -> Frames \cup {Nothing}]]
               /\ note'[e]["app"] = note[e]["app"] /\ note'[o] = note[o]
               /\ \A j \in {"data", "connect", "response"} :
                    Spares(note[e], j) => Spares(note'[e], j)
    <2>1. f \in Frames /\ f.t \in {"close", "close_ack"}
      BY <1>7, FrameIs DEF Kinds
    <2>2. CASE note' = note
      BY <1>0, <2>2 DEF Typed
    <2>3. CASE Later(e, "loop", f)
      <3>1. /\ note' \in [Ends -> [Threads -> Frames \cup {Nothing}]]
            /\ \A u \in Threads : u # "loop" => note'[e][u] = note[e][u]
            /\ \A x \in Ends : x # e => note'[x] = note[x]
            /\ \A j : Spares(note[e], j) /\ f.t # j => Spares(note'[e], j)
        BY <1>0, <2>1, <2>3, LaterIs DEF Threads
      <3> QED
        BY <1>2, <2>1, <3>1 DEF Threads
    <2> QED
      BY <1>7, <2>2, <2>3
  <1>8. CASE s[e].known
    <2> DEFINE st == IF s[e].st = "closing" THEN "gone" ELSE "peer_closed"
               known == s[e].st # "closing"
               f == Frame(IF s[e].st \in {"peer_closed", "closing"} THEN "close_ack" ELSE "close", 0)
    <2>1. s' = SetStKnown(s, e, st, known)
      BY <1>8, Zenon DEF HandleClose, PeerCloses, SetStKnown
    <2>2. /\ st \in States /\ known \in BOOLEAN /\ st \in {"gone", "peer_closed"}
          /\ known <=> s[e].st # "closing"
          /\ st = "gone" <=> s[e].st = "closing"
      BY DEF States
    <2>3. f \in {Frame("close", 0), Frame("close_ack", 0)} /\ Later(e, "loop", f)
      BY <1>8 DEF HandleClose
    <2> HIDE DEF st, known, f
    <2>4. IsSetStKnown(s', s, e, st, known)
      BY <1>0, <2>1, <2>2, FieldsOf, SetStKnownIs
    <2>5. /\ note' \in [Ends -> [Threads -> Frames \cup {Nothing}]]
          /\ note'[e]["app"] = note[e]["app"] /\ note'[o] = note[o]
          /\ \A j \in {"data", "connect", "response"} :
                Spares(note[e], j) => Spares(note'[e], j)
      BY <1>7, <2>3
    <2>6. Quit(e)'
      BY <2>2, <2>4 DEF Quit, IsSetStKnown
    <2>7. s'[o] = s[o] /\ \A x \in Ends : x # e => s'[x] = s[x] /\ note'[x] = note[x]
      BY <1>2, <2>4, <2>5, TheEnds DEF IsSetStKnown
    <2>8. Handled(e, k)
      <3> HIDE DEF k
      <3> QED
        BY <1>6, <1>8, <2>2, <2>4, <2>5, <2>6, <2>7 DEF Handled, IsSetStKnown, Status
    <2>9. Typed' /\ Status(e)'
      BY <1>0, <1>1, <1>2, <1>6, <1>8, <2>2, <2>4, <2>5 DEF Typed, Status, IsSetStKnown
    <2>10. Numbered(o, e)'
      <3>1. \A lo \in Nat, hi \in Nat : Run(wire[o], lo, hi) => Run(wire'[o], lo, hi)
        BY <1>2, TailOther
      <3> QED
        BY <1>2, <1>4, <2>4, <2>7, <3>1 DEF Numbered, IsSetStKnown
    <2>11. PeerClosed(o, e)'
      <3>1. Quit(o)'
        BY <1>1, <1>2, <1>3, <2>8, HandledQuit
      <3>2. st = "peer_closed" => ~s[e].closed
        BY <1>6, <1>8, <2>2 DEF Status
      <3>3. st = "peer_closed" => s'[e].received >= s'[o].sent
        BY <1>4, <1>5, <2>4, <2>7, <3>2 DEF IsSetStKnown
      <3> QED
        BY <1>2, <1>3, <2>4, <3>1, <3>3 DEF PeerClosed, IsSetStKnown
    <2>12. EndedForAReason' /\ s'[e].consumed <= s'[e].received
      BY <1>1, <2>4, <2>7, TheEnds DEF IInv, EndedForAReason, Caps, IsSetStKnown
    <2> HIDE DEF o
    <2> QED
      BY <1>1, <2>8, <2>9, <2>10, <2>11, <2>12, HandledStep DEF o
  <1>9. CASE ~s[e].known
    <2>1. s' = s
      BY <1>9 DEF HandleClose
    <2>2. PICK f \in {Frame("close", 0), Frame("close_ack", 0)} : note' = note \/ Later(e, "loop", f)
      BY <1>9 DEF HandleClose
    <2>3. /\ note' \in [Ends -> [Threads -> Frames \cup {Nothing}]]
          /\ note'[e]["app"] = note[e]["app"] /\ note'[o] = note[o]
          /\ \A j \in {"data", "connect", "response"} :
                Spares(note[e], j) => Spares(note'[e], j)
      BY <1>7, <2>2
    <2>4. Quit(e)'
      <3>1. s[e].closed \/ s[e].st = "none"
        BY <1>6, <1>9 DEF Status
      <3>2. CASE s[e].closed
        BY <2>1, <3>2 DEF Quit
      <3>3. CASE s[e].st = "none" /\ e = "client"
        BY <1>2, <3>3, TheEnds DEF IInv, Silent
      <3>4. CASE s[e].st = "none" /\ e = "server"
        <4>1. o = "client"
          BY <3>4, TheEnds
        <4>2. /\ ConnectOnlyFirst(wire["client"]) /\ s["client"].st # "none"
              /\ Lacks(out["client"], "connect")
          BY <1>2, <4>1 DEF IInv, ConnectFirst
        <4> QED
          BY <1>2, <1>3, <2>1, <3>4, <4>1, <4>2 DEF Quit, Refused
      <3> QED
        BY <3>1, <3>2, <3>3, <3>4, TheEnds
    <2>5. Handled(e, k)
      <3>1. \A x \in Ends : x # e => note'[x] = note[x]
        BY <1>2, <2>3, TheEnds
      <3>2. k # "response"
        BY <1>2
      <3> HIDE DEF k
      <3> QED
        BY <2>1, <2>3, <2>4, <3>1, <3>2 DEF Handled
    <2>6. Typed' /\ Status(e)'
      BY <1>0, <1>1, <1>2, <1>6, <2>1, <2>3 DEF Typed, Status
    <2>7. Numbered(o, e)' /\ PeerClosed(o, e)'
      BY <1>1, <1>2, <2>1, <2>5, QuietFrame
    <2>8. EndedForAReason' /\ s'[e].consumed <= s'[e].received
      BY <1>1, <2>1 DEF IInv, EndedForAReason, Caps
    <2> HIDE DEF o
    <2> QED
      BY <1>1, <2>5, <2>6, <2>7, <2>8, HandledStep DEF o
  <1> QED
    BY <1>8, <1>9

\* receive: data is dropped, taken, or ends the session.
LEMMA HandleDataStep ==
    ASSUME IInv, NEW e \in Ends, HandleData(e)
    PROVE  IInv'
  <1> DEFINE o == Other(e)  f == Head(wire[o])  k == f.t
             dropped == Dropped(e)
             fits == Buffered(e) < Limit(e)
             pause == ~s[e].full /\ Buffered(e) + 1 >= FullAt
             bad == IF s[e].st # "open" THEN "outside"
                    ELSE IF f.n # s[e].received THEN "offset"
                    ELSE IF ~fits /\ ~s[e].noRead /\ e = "server" THEN "limit" ELSE "none"
  <1>0. Typed /\ Status(e)
    BY DEF IInv
  <1>1. Takes(e, {"data"}) /\ owner' = owner
    BY DEF HandleData
  <1>2. /\ k = "data" /\ wire' \in [Ends -> Seq(Frames)] /\ out' = out /\ ended = <<>>
        /\ wire[o] \in Seq(Frames) /\ wire[o] # <<>> /\ wire'[o] = Tail(wire[o])
        /\ o \in Ends /\ o # e /\ Numbered(o, e) /\ PeerClosed(o, e)
    BY <1>1, TakesIs
  <1>3. ~Lacks(wire[o], "data") /\ s[e].st # "peer_closed"
    <2>1. ~Lacks(wire[o], "data")
      BY <1>2, TailLacks
    <2> QED
      BY <1>2, <2>1 DEF PeerClosed
  <1>4. ~s[e].closed => s[e].known /\ s[e].st = "open"
    <2>1. e = "server" => s[e].st \notin {"none", "opening"}
      BY <1>3, TheEnds DEF IInv, BeforeAccept
    <2>2. e = "client" => s[e].st # "none"
      BY <1>2, TheEnds DEF IInv, Silent
    <2>3. e = "client" /\ ~s[e].closed => s[e].st # "opening"
      <3>1. Answered(wire[o]) => k # "data"
        BY <1>2, TailAny
      <3> QED
        BY <1>2, <3>1, TheEnds DEF IInv, ResponseFirst
    <2> QED
      BY <1>0, <1>3, <2>1, <2>2, <2>3, TheEnds DEF Status
  <1>5. s[e].received \in Nat /\ s[o].sent \in Nat /\ s \in [Ends -> Stream]
    BY <1>0, <1>2, FieldsOf
  <1>6. ~s[e].closed => /\ f.n = s[e].received
                        /\ Run(wire'[o], s[e].received + 1, s[o].sent)
    <2>1. ~s[e].closed => Run(wire[o], s[e].received, s[o].sent)
      BY <1>2 DEF Numbered
    <2>2. \A lo \in Nat, hi \in Nat : Run(wire[o], lo, hi) =>
                f.n = lo /\ lo < hi /\ Run(wire'[o], lo + 1, hi)
      BY <1>2, TailData
    <2> QED
      BY <1>5, <2>1, <2>2
  <1>7. ASSUME s' \in [Ends -> Stream], s'[o] = s[o],
               s'[e].load = s[e].load, s'[e].sent = s[e].sent, s'[e].writing = s[e].writing,
               s'[e].consumed <= s'[e].received,
               \/ /\ s'[e].st = s[e].st /\ s'[e].closed = s[e].closed
                  /\ s'[e].known = s[e].known
               \/ s'[e].st = "closing" /\ s'[e].closed,
               note' \in [Ends -> [Threads -> Frames \cup {Nothing}]], note'[o] = note[o],
               note'[e]["app"] = note[e]["app"],
               \A j \in {"data", "connect", "response"} : Spares(note[e], j) => Spares(note'[e], j),
               \A j \in {"close", "close_ack"} :
                    Spares(note[e], j) => Spares(note'[e], j) \/ s'[e].closed,
               Numbered(o, e)', EndedForAReason'
        PROVE  IInv'
    <2>1. \A x \in Ends : x # e => s'[x] = s[x] /\ note'[x] = note[x]
      BY <1>2, <1>7, TheEnds
    <2>2. s'[e].closed => Quit(e)'
      BY DEF Quit
    <2>3. Handled(e, "data")
      BY <1>0, <1>4, <1>7, <2>1, <2>2 DEF Handled, Status
    <2>4. Typed'
      BY <1>0, <1>1, <1>2, <1>7 DEF Typed
    <2>5. Status(e)'
      BY <1>0, <1>7 DEF Status
    <2>6. PeerClosed(o, e)'
      BY <1>3, <1>7 DEF PeerClosed
    <2> HIDE DEF o
    <2> QED
      BY <1>1, <1>2, <1>7, <2>3, <2>4, <2>5, <2>6, HandledStep DEF o
  <1>8. note \in [Ends -> [Threads -> Frames \cup {Nothing}]] /\ s[e].consumed <= s[e].received
    BY <1>0 DEF Typed, IInv, Caps
  <1>9. CASE dropped /\ UNCHANGED <<s, note, ended>>
    <2>1. s[e].closed
      BY <1>4, <1>9 DEF Dropped
    <2>2. Numbered(o, e)' /\ EndedForAReason'
      BY <1>9, <2>1 DEF IInv, Numbered, EndedForAReason
    <2> QED
      BY <1>5, <1>7, <1>8, <1>9, <2>2
  <1>10. CASE ~dropped /\ bad # "none" /\ End(e, bad) /\ UNCHANGED <<s, note>>
    <2>1. ended' = <<e, bad>>
      BY <1>10 DEF End
    <2>2. \/ e = "server" /\ bad = "limit"
          \/ e = "server" /\ bad = "outside" /\ s[e].closed
      <3>1. CASE s[e].closed
        <4>1. s[e].known /\ e = "server"
          BY <1>10, <3>1, TheEnds DEF Dropped
        <4>2. bad = "outside"
          BY <1>0, <3>1, <4>1 DEF Status
        <4> QED
          BY <3>1, <4>1, <4>2
      <3>2. CASE ~s[e].closed
        BY <1>4, <1>6, <1>10, <3>2
      <3> QED
        BY <3>1, <3>2
    <2> HIDE DEF bad
    <2>3. Numbered(o, e)'
      BY <2>1 DEF Numbered
    <2>4. EndedForAReason'
      BY <1>10, <2>1, <2>2 DEF EndedForAReason
    <2> QED
      BY <1>5, <1>7, <1>8, <1>10, <2>3, <2>4
  <1>11. ASSUME ~dropped, bad = "none"
         PROVE  ~s[e].closed /\ s[e].st = "open"
    BY <1>0, <1>11 DEF Dropped, Status
  <1>12. CASE /\ ~dropped /\ bad = "none" /\ s[e].noRead
              /\ s' = [s EXCEPT ![e].received = @ + 1, ![e].consumed = s[e].received + 1]
              /\ UNCHANGED <<note, ended>>
    <2>1. s[e].received + 1 \in Nat
      BY <1>5
    <2>2. s' = SetReceivedConsumed(s, e, s[e].received + 1, s[e].received + 1)
      BY <1>12, Zenon DEF SetReceivedConsumed
    <2>3. IsSetReceivedConsumed(s', s, e, s[e].received + 1, s[e].received + 1)
      BY <1>5, <2>1, <2>2, SetReceivedConsumedIs
    <2>4. note' = note /\ ended' = ended /\ ~s[e].closed
      BY <1>11, <1>12
    <2>5. s'[e].received = s[e].received + 1 /\ s'[e].consumed <= s'[e].received /\ s'[o] = s[o]
      BY <1>2, <2>1, <2>3 DEF IsSetReceivedConsumed
    <2>6. Numbered(o, e)'
      BY <1>6, <2>4, <2>5 DEF Numbered
    <2>7. EndedForAReason'
      BY <1>2, <2>4 DEF EndedForAReason
    <2> QED
      BY <1>7, <1>8, <2>3, <2>4, <2>5, <2>6, <2>7 DEF IsSetReceivedConsumed
  <1>13. CASE /\ ~dropped /\ bad = "none" /\ ~s[e].noRead /\ fits
              /\ s' = [s EXCEPT ![e].received = @ + 1, ![e].full = @ \/ pause]
              /\ IF pause THEN Later(e, "loop", Frame("full", s[e].received + 1)) ELSE UNCHANGED note
              /\ UNCHANGED ended
    <2> DEFINE full == s[e].full \/ pause
               g == Frame("full", s[e].received + 1)
    <2>1. s[e].received + 1 \in Nat /\ full \in BOOLEAN
      BY <1>0, <1>5, FieldsOf
    <2>2. s' = SetReceivedFull(s, e, s[e].received + 1, full)
      BY <1>13, Zenon DEF SetReceivedFull
    <2>3. g \in Frames /\ g.t = "full"
      BY <2>1, FrameIs DEF Kinds
    <2>4. ended' = ended /\ ~s[e].closed /\ (note' = note \/ Later(e, "loop", g))
      BY <1>11, <1>13
    <2> HIDE DEF full, g, pause, fits, bad, dropped
    <2>5. IsSetReceivedFull(s', s, e, s[e].received + 1, full)
      BY <1>5, <2>1, <2>2, SetReceivedFullIs
    <2>6. /\ note' \in [Ends -> [Threads -> Frames \cup {Nothing}]]
          /\ note'[e]["app"] = note[e]["app"] /\ note'[o] = note[o]
          /\ \A j \in {"data", "connect", "response", "close", "close_ack"} :
                Spares(note[e], j) => Spares(note'[e], j)
      <3>1. CASE note' = note
        BY <1>8, <3>1
      <3>2. CASE Later(e, "loop", g)
        <4>1. /\ note' \in [Ends -> [Threads -> Frames \cup {Nothing}]]
              /\ \A u \in Threads : u # "loop" => note'[e][u] = note[e][u]
              /\ \A x \in Ends : x # e => note'[x] = note[x]
              /\ \A j : Spares(note[e], j) /\ g.t # j => Spares(note'[e], j)
          BY <1>0, <2>3, <3>2, LaterIs DEF Threads
        <4> QED
          BY <1>2, <2>3, <4>1 DEF Threads
      <3> QED
        BY <2>4, <3>1, <3>2
    <2>7. s'[e].received = s[e].received + 1 /\ s'[e].consumed <= s'[e].received /\ s'[o] = s[o]
      <3>1. s[e].consumed \in Nat
        BY <1>0, FieldsOf
      <3> QED
        BY <1>2, <1>5, <1>8, <2>1, <2>5, <3>1 DEF IsSetReceivedFull
    <2>8. Numbered(o, e)'
      BY <1>6, <2>4, <2>7 DEF Numbered
    <2>9. EndedForAReason'
      BY <1>2, <2>4 DEF EndedForAReason
    <2> QED
      BY <1>7, <2>5, <2>6, <2>7, <2>8, <2>9 DEF IsSetReceivedFull
  <1>14. CASE /\ ~dropped /\ bad = "none" /\ ~s[e].noRead /\ ~fits
              /\ CloseBy(e, "loop", s)
              /\ UNCHANGED ended
    <2>1. CloseBy(e, "loop", s) /\ ended' = ended
      BY <1>14
    <2>2. /\ \E b \in BOOLEAN : IsSetClosedStKnown(s', s, e, TRUE, "closing", b)
          /\ note' \in [Ends -> [Threads -> Frames \cup {Nothing}]]
          /\ \A x \in Ends : x # e => note'[x] = note[x]
          /\ \A j \in {"data", "connect", "response"} : Spares(note[e], j) => Spares(note'[e], j)
          /\ note'[e]["app"] = note[e]["app"]
      BY <1>0, <1>5, <2>1, CloseByIs DEF Threads
    <2>3. PICK b \in BOOLEAN : IsSetClosedStKnown(s', s, e, TRUE, "closing", b)
      BY <2>2
    <2>4. /\ s'[o] = s[o] /\ note'[o] = note[o] /\ s'[e].closed
          /\ s'[e].consumed <= s'[e].received
      BY <1>2, <1>8, <2>2, <2>3 DEF IsSetClosedStKnown
    <2>5. Numbered(o, e)' /\ EndedForAReason'
      BY <1>2, <2>1, <2>4 DEF Numbered, EndedForAReason
    <2> QED
      BY <1>7, <2>2, <2>3, <2>4, <2>5 DEF IsSetClosedStKnown
  <1> QED
    BY <1>9, <1>10, <1>12, <1>13, <1>14, Zenon DEF HandleData


-----------------------------------------------------------------------------
(* The invariant holds at the start and is kept; FlowInv follows from it.  *)

\* The Stream of an end that has not opened, with its load.
LEMMA FreshIs ==
    ASSUME NEW n \in Nat
    PROVE  [st |-> "none", load |-> n, known |-> FALSE, closed |-> FALSE,
            noRead |-> FALSE, peerNoRead |-> FALSE, remoteFull |-> FALSE,
            remoteOff |-> 0, full |-> FALSE, received |-> 0, consumed |-> 0,
            sent |-> 0, writing |-> FALSE] \in Stream
  BY DEF Stream, States

\* A session that has just begun.
LEMMA InitIInv ==
    ASSUME Init
    PROVE  IInv
  <1>1. PICK load \in Loads : s = [e \in Ends |->
            [st |-> "none", load |-> load[e], known |-> FALSE, closed |-> FALSE,
             noRead |-> FALSE, peerNoRead |-> FALSE, remoteFull |-> FALSE,
             remoteOff |-> 0, full |-> FALSE, received |-> 0, consumed |-> 0,
             sent |-> 0, writing |-> FALSE]]
    BY DEF Init
  <1>2. \A e \in Ends : load[e] \in Nat
    BY LimitsAssumption
  <1>3. s \in [Ends -> Stream]
    BY <1>1, <1>2, FreshIs
  <1>4. \A e \in Ends :
            /\ s[e].st = "none" /\ ~s[e].known /\ ~s[e].closed /\ ~s[e].writing
            /\ s[e].received = 0 /\ s[e].consumed = 0 /\ s[e].sent = 0
            /\ s[e].load = load[e]
    BY <1>1
  <1>5. /\ \A e \in Ends : out[e] = <<>> /\ wire[e] = <<>> /\ owner[e] = "nobody"
        /\ \A e \in Ends, t \in Threads : note[e][t] = Nothing
        /\ ended = <<>>
    BY DEF Init
  <1>6. Typed
    <2>1. /\ owner \in [Ends -> {"nobody", "opener", "queue", "app"}]
          /\ out \in [Ends -> Seq(Frames)] /\ wire \in [Ends -> Seq(Frames)]
      BY DEF Init
    <2>2. note \in [Ends -> [Threads -> Frames \cup {Nothing}]]
      BY DEF Init
    <2> QED
      BY <1>3, <2>1, <2>2 DEF Typed
  <1>7. \A e \in Ends : Caps(e) /\ Status(e)
    <2> SUFFICES ASSUME NEW e \in Ends PROVE Caps(e) /\ Status(e)
      OBVIOUS
    <2>1. Len(out[e]) = 0 /\ Len(wire[e]) = 0
      BY <1>5
    <2> QED
      BY <2>1, <1>2, <1>4, LimitsAssumption DEF Caps, Status
  <1>8. \A e \in Ends : Idle(note[e])
    BY <1>5 DEF Idle
  <1>9. \A e \in Ends, k \in {"data", "connect", "close", "close_ack", "response"} :
            Spares(note[e], k)
    BY <1>5, NothingIs DEF Spares
  <1>10. \A e \in Ends : OutData(e) /\ CloseLast(e)
    BY <1>5, <1>9, EmptyQueue DEF OutData, CloseLast
  <1>11. /\ Numbered("server", "client") /\ PeerClosed("server", "client")
         /\ Numbered("client", "server") /\ PeerClosed("client", "server")
    BY <1>4, <1>5, TheEnds, EmptyQueue DEF Numbered, PeerClosed
  <1>12. ConnectFirst /\ Silent
    BY <1>4, <1>5, <1>8, TheEnds, EmptyQueue DEF ConnectFirst, Silent
  <1>13. BeforeAccept /\ ResponseFirst
    BY <1>4, <1>5, <1>9, TheEnds, EmptyQueue DEF BeforeAccept, ResponseFirst
  <1>14. EndedForAReason
    BY <1>5 DEF EndedForAReason
  <1> QED
    BY <1>6, <1>7, <1>10, <1>11, <1>12, <1>13, <1>14 DEF IInv

\* A step that changes nothing here.
LEMMA StutterStep ==
    ASSUME IInv, UNCHANGED vars
    PROVE  IInv'
  <1>1. s' = s /\ owner' = owner /\ out' = out /\ wire' = wire /\ note' = note /\ ended' = ended
    BY DEF vars
  <1>2. Refused' <=> Refused
    BY <1>1 DEF Refused
  <1>3. \A e \in Ends : Quit(e)' <=> Quit(e)
    BY <1>1, <1>2 DEF Quit
  <1>4. \A e \in Ends :
            Caps(e)' /\ Status(e)' /\ OutData(e)' /\ CloseLast(e)'
    BY <1>1, <1>3 DEF IInv, Caps, Status, OutData, CloseLast
  <1>5. /\ Numbered("server", "client")' /\ PeerClosed("server", "client")'
        /\ Numbered("client", "server")' /\ PeerClosed("client", "server")'
    BY <1>1, <1>3, TheEnds DEF IInv, Numbered, PeerClosed
  <1>6. ConnectFirst' /\ Silent'
    BY <1>1 DEF IInv, ConnectFirst, Silent
  <1>7. BeforeAccept' /\ ResponseFirst' /\ EndedForAReason'
    BY <1>1 DEF IInv, BeforeAccept, ResponseFirst, EndedForAReason
  <1>8. Typed'
    BY <1>1 DEF IInv, Typed
  <1> QED
    BY <1>4, <1>5, <1>6, <1>7, <1>8 DEF IInv

\* The loop of e handles a frame.
LEMMA HandleStep ==
    ASSUME IInv, NEW e \in Ends, Handle(e)
    PROVE  IInv'
  BY HandleConnectStep, HandleResponseStep, HandleCloseStep, HandleNoticeStep, HandleDataStep, Zenon
  DEF Handle

\* Every step keeps the invariant.
LEMMA NextIInv ==
    ASSUME IInv, [Next]_vars
    PROVE  IInv'
  <1>1. CASE Open
    BY <1>1, OpenStep
  <1>2. CASE OpenSent \/ SessionAccept
    BY <1>2, OwnerStep
  <1>3. CASE OpenFails
    BY <1>3, OpenFailsStep
  <1>4. CASE StreamAccept
    BY <1>4, StreamAcceptStep
  <1>5. ASSUME NEW e \in Ends,
               \/ WriteLoop(e) \/ Handle(e) \/ \E t \in Threads : Notify(e, t)
               \/ Write(e) \/ WriteGivesUp(e)
               \/ Read(e) \/ Close(e) \/ CloseRead(e)
               \/ CloseTick(e) \/ CloseExpires(e)
        PROVE  IInv'
    <2>1. CASE WriteLoop(e)
      BY <2>1, WriteLoopStep
    <2>2. CASE Handle(e)
      BY <2>2, HandleStep
    <2>3. CASE \E t \in Threads : Notify(e, t)
      BY <2>3, NotifyStep
    <2>4. CASE Write(e)
      BY <2>4, WriteStep
    <2>5. CASE WriteGivesUp(e)
      BY <2>5, WriteGivesUpStep
    <2>6. CASE Read(e)
      BY <2>6, ReadStep
    <2>7. CASE Close(e)
      BY <2>7, CloseStep
    <2>8. CASE CloseRead(e)
      BY <2>8, CloseReadStep
    <2>9. CASE CloseTick(e)
      BY <2>9, CloseTickStep
    <2>10. CASE CloseExpires(e)
      BY <2>10, CloseExpiresStep
    <2> QED
      BY <1>5, <2>1, <2>2, <2>3, <2>4, <2>5, <2>6, <2>7, <2>8, <2>9, <2>10
  <1>6. CASE UNCHANGED vars
    BY <1>6, StutterStep
  <1> QED
    BY <1>1, <1>2, <1>3, <1>4, <1>5, <1>6, Zenon DEF Next

\* The invariant has FlowInv in it: a flow that its peer has closed has had all data.
LEMMA IInvFlow ==
    ASSUME IInv
    PROVE  FlowInv
  <1>1. TypeOK
    <2>1. \A e \in Ends : s[e].st \in States
      BY DEF IInv, Typed, Stream
    <2>2. \A e \in Ends : out[e] \in Seq(Frames) /\ wire[e] \in Seq(Frames)
      BY DEF IInv, Typed
    <2>3. \A e \in Ends, t \in Threads : note[e][t] \in Frames \cup {Nothing}
      BY DEF IInv, Typed
    <2>4. owner \in [Ends -> {"nobody", "opener", "queue", "app"}]
      BY DEF IInv, Typed
    <2> QED
      BY <2>1, <2>2, <2>3, <2>4 DEF IInv, Caps, TypeOK
  <1>2. EOFComplete
    BY TheEnds DEF IInv, PeerClosed, EOFComplete
  <1>3. EndedForAReason
    BY DEF IInv
  <1> QED
    BY <1>1, <1>2, <1>3 DEF FlowInv

\* In every session, whatever the loads, the marks, the limits and the lengths of the
\* queues: a reader that sees the end of the stream has been given all that its peer
\* wrote (Stream.peerClose), and the session ends over this flow only for a full queue
\* of notices or at the server's end, over its limit or a flow it has closed
\* (Stream.receive).
THEOREM FlowInvHolds == Spec => []FlowInv
  <1>1. Init => IInv
    BY InitIInv
  <1>2. IInv /\ [Next]_vars => IInv'
    BY NextIInv
  <1>3. IInv => FlowInv
    BY IInvFlow
  <1> QED
    BY <1>1, <1>2, <1>3, PTL DEF Spec
=============================================================================
