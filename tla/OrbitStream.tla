----------------------------- MODULE OrbitStream -----------------------------
(***************************************************************************)
(* One flow of an orbit session (core/proxy/orbit/internal/session): the   *)
(* virtual socket at both ends, the frames between them, the pause and     *)
(* resume notices of the receiver, and the close handshake with its timer. *)
(*                                                                         *)
(* Each end of the session has a loop that reads frames and handles them   *)
(* one by one, a loop that writes what is queued, and application threads  *)
(* that open, read, write and close.  What a call does under the stream's  *)
(* lock is one step; the notice it queues after the unlock is another, so  *)
(* notices of different threads may pass each other.  A notice that finds  *)
(* the queue full ends the session, and with the session everything here   *)
(* stops.  Data is counted in units of 128 buffer nodes (512 KiB).         *)
(***************************************************************************)
EXTENDS Naturals, Sequences, Functions

CONSTANTS
    Loads,                     \* bound: [Ends -> units each end writes]
    FullAt, ResumeAt,          \* receiveFullNodes, receiveResumeNodes
    ServerLimit, ClientLimit,  \* maxFlowBufferBytes, maxClientFlowBufferBytes
    OutCap,                    \* 256: the queue of the write loop
    WireCap,                   \* frames the transport holds
    MaxTicks,                  \* CloseTimeout in seconds: repetitions of a close
    ReadClosers                \* ends whose application may close its read side

Ends == {"client", "server"}
Other(e) == CHOOSE o \in Ends : o # e
Limit(e) == IF e = "client" THEN ClientLimit ELSE ServerLimit

ASSUME LimitsAssumption ==
    /\ Loads \subseteq [Ends -> Nat] /\ {ResumeAt, MaxTicks} \subseteq Nat
    /\ {OutCap, WireCap} \subseteq Nat \ {0}
    /\ FullAt \in Nat /\ ServerLimit \in Nat /\ ClientLimit \in Nat
    /\ ResumeAt < FullAt /\ FullAt <= ServerLimit /\ ServerLimit <= ClientLimit
    /\ ReadClosers \subseteq Ends

VARIABLES
    s,        \* s[e]: the Stream at e
    owner,    \* owner[e]: who has it: nobody, Open, the incoming queue or the application
    out,      \* out[e]: s.out, the frames e has queued
    wire,     \* wire[e]: the frames of e in the transport
    note,     \* note[e][t]: the frame thread t of e queues next
    ticks,    \* ticks[e]: repetitions of its close
    ended,    \* why the session has ended: no reason while it is up
    crossed   \* history: ends whose resume notice went out before the pause it ends

vars == <<s, owner, out, wire, note, ticks, ended, crossed>>

Nothing == [t |-> "nothing", n |-> 0]
Frame(t, n) == [t |-> t, n |-> n]
Connect == Frame("connect", 0)
Threads == {"app", "loop", "closer"}

\* The states are 2, 3, 4, 6 and 0 of the code.
States == {"none", "opening", "open", "peer_closed", "closing", "gone"}

Init ==
    /\ s \in {[e \in Ends |->
            [st |-> "none",
             load |-> load[e],    \* the units the application has to write
             known |-> FALSE,     \* it is in session.streams
             closed |-> FALSE, noRead |-> FALSE, peerNoRead |-> FALSE,
             remoteFull |-> FALSE, remoteOff |-> 0, full |-> FALSE,
             received |-> 0, consumed |-> 0, sent |-> 0,
             writing |-> FALSE]]  \* Write waits for its frame
              : load \in Loads}
    /\ owner = [e \in Ends |-> "nobody"]
    /\ out = [e \in Ends |-> <<>>] /\ wire = [e \in Ends |-> <<>>]
    /\ note = [e \in Ends |-> [t \in Threads |-> Nothing]]
    /\ ticks = [e \in Ends |-> 0]
    /\ ended = <<>> /\ crossed = {}

-----------------------------------------------------------------------------
Up == ended = <<>>
Free(e, t) == note[e][t] = Nothing
Room(e) == Len(out[e]) < OutCap

Queue(e, f) == out' = [out EXCEPT ![e] = Append(@, f)]
Later(e, t, f) == note' = [note EXCEPT ![e][t] = f]
End(e, why) == ended' = <<e, why>>

\* The queue after the write loop has come to f and found its context done: each
\* request is queued once, so f is in q at most once.
Skipped(q, f) ==
    IF \E i \in 1..Len(q) : q[i] = f
    THEN LET i == CHOOSE i \in 1..Len(q) : q[i] = f
         IN  [j \in 1..(Len(q) - 1) |-> IF j < i THEN q[j] ELSE q[j + 1]]
    ELSE q

\* Close and CloseRead drop what has not been read.
Buffered(e) == IF s[e].closed \/ s[e].noRead THEN 0 ELSE s[e].received - s[e].consumed

Overtakes(e, t) ==
    note[e][t].t = "resume" /\ note[e]["loop"] = Frame("full", note[e][t].n)

\* notify: without room the session ends.  Only the answer to a connect, which is
\* sent and not notified, waits.
Notify(e, t) ==
    /\ Up /\ ~Free(e, t)
    /\ \/ /\ Room(e)
          /\ Queue(e, note[e][t])
          /\ crossed' = IF Overtakes(e, t) THEN crossed \cup {e} ELSE crossed
          /\ UNCHANGED ended
       \/ /\ ~Room(e) /\ note[e][t].t # "response"
          /\ End(e, "queue")
          /\ UNCHANGED <<out, crossed>>
    /\ Later(e, t, Nothing)
    /\ UNCHANGED <<s, owner, wire, ticks>>

\* writeLoop, with the return of the Write whose frame it has sent.
WriteLoop(e) ==
    /\ Up /\ out[e] # <<>> /\ Len(wire[e]) < WireCap
    /\ wire' = [wire EXCEPT ![e] = Append(@, Head(out[e]))]
    /\ out' = [out EXCEPT ![e] = Tail(@)]
    /\ s' = IF Head(out[e]).t = "data"
            THEN [s EXCEPT ![e].writing = FALSE, ![e].sent = @ + 1] ELSE s
    /\ UNCHANGED <<owner, note, ticks, ended, crossed>>

-----------------------------------------------------------------------------
(* The application.                                                        *)

Open ==
    /\ Up /\ s["client"].st = "none" /\ Room("client")
    /\ s' = [s EXCEPT !["client"].st = "opening", !["client"].known = TRUE]
    /\ owner' = [owner EXCEPT !["client"] = "opener"]
    /\ Queue("client", Connect)
    /\ UNCHANGED <<wire, note, ticks, ended, crossed>>

\* The connect has been written: Open waits for the answer.
OpenSent ==
    /\ Up /\ owner["client"] = "opener" /\ Connect \notin Range(out["client"])
    /\ owner' = [owner EXCEPT !["client"] = "app"]
    /\ UNCHANGED <<s, out, wire, note, ticks, ended, crossed>>

\* The context of Open ends before its send returns.  The connect may be out by then;
\* if it is still queued, the write loop skips it.
OpenFails ==
    /\ Up /\ owner["client"] = "opener"
    /\ s' = [s EXCEPT !["client"].closed = TRUE, !["client"].known = FALSE]
    /\ owner' = [owner EXCEPT !["client"] = "nobody"]
    /\ out' = [out EXCEPT !["client"] = Skipped(@, Connect)]
    /\ UNCHANGED <<wire, note, ticks, ended, crossed>>

\* Session.Accept passes over a flow that is no longer alive.
SessionAccept ==
    /\ Up /\ owner["server"] = "queue"
    /\ owner' = [owner EXCEPT !["server"] = IF s["server"].st = "opening" THEN "app" ELSE "nobody"]
    /\ UNCHANGED <<s, out, wire, note, ticks, ended, crossed>>

StreamAccept ==
    /\ Up /\ owner["server"] = "app" /\ s["server"].st = "opening" /\ ~s["server"].closed
    /\ Free("server", "app")
    /\ s' = [s EXCEPT !["server"].st = "open"]
    /\ Later("server", "app", Frame("response", 0))
    /\ UNCHANGED <<owner, out, wire, ticks, ended, crossed>>

\* Write up to the queue: queueData admits the frame under the stream's lock.
Write(e) ==
    /\ Up /\ owner[e] = "app" /\ s[e].st = "open" /\ Free(e, "app")
    /\ ~s[e].closed /\ ~s[e].peerNoRead /\ ~s[e].remoteFull /\ ~s[e].writing
    /\ s[e].sent < s[e].load /\ Room(e)
    /\ Queue(e, Frame("data", s[e].sent))
    /\ s' = [s EXCEPT ![e].writing = TRUE]
    /\ UNCHANGED <<owner, wire, note, ticks, ended, crossed>>

\* What Close changes, and the notice it leaves to thread t.  A flow that the peer
\* has closed is forgotten at once; otherwise the timer starts.
CloseBy(e, t, base) ==
    LET peerClosed == s[e].st = "peer_closed" IN
    /\ s' = [base EXCEPT ![e].closed = TRUE, ![e].st = "closing", ![e].known = @ /\ ~peerClosed]
    /\ IF peerClosed THEN UNCHANGED note ELSE Later(e, t, Frame("close", 0))

\* A Write that waits when the flow closes gives up: its frame is skipped by the
\* write loop, and the flow is closed.
WriteGivesUp(e) ==
    LET idle == [s EXCEPT ![e].writing = FALSE] IN
    /\ Up /\ s[e].writing /\ (s[e].closed \/ s[e].st = "peer_closed")
    /\ out' = [out EXCEPT ![e] = Skipped(@, Frame("data", s[e].sent))]
    /\ IF s[e].closed THEN s' = idle /\ UNCHANGED note ELSE CloseBy(e, "app", idle)
    /\ UNCHANGED <<owner, wire, ticks, ended, crossed>>

\* Mutant: the lower mark itself does not resume.
ResumesBelow(e) == s[e].full /\ Buffered(e) - 1 < ResumeAt

Resumes(e) == s[e].full /\ Buffered(e) - 1 <= ResumeAt

\* Read takes a unit, and resumes the peer at the lower mark.
Read(e) ==
    LET resume == Resumes(e) IN
    /\ Up /\ owner[e] = "app" /\ Buffered(e) > 0 /\ Free(e, "app")
    /\ s' = [s EXCEPT ![e].consumed = @ + 1, ![e].full = @ /\ ~resume]
    /\ IF resume THEN Later(e, "app", Frame("resume", s[e].received)) ELSE UNCHANGED note
    /\ UNCHANGED <<owner, out, wire, ticks, ended, crossed>>

\* Close by the application, after the end of the stream, an error, a refusal by the
\* server or a timeout of Open.
Close(e) ==
    /\ Up /\ owner[e] = "app" /\ ~s[e].closed
    /\ CloseBy(e, "closer", s)
    /\ UNCHANGED <<owner, out, wire, ticks, ended, crossed>>

CloseRead(e) ==
    /\ Up /\ e \in ReadClosers /\ owner[e] = "app" /\ s[e].st = "open"
    /\ ~s[e].closed /\ ~s[e].noRead /\ Free(e, "app")
    /\ s' = [s EXCEPT ![e].noRead = TRUE]
    /\ Later(e, "app", Frame("read_close", 0))
    /\ UNCHANGED <<owner, out, wire, ticks, ended, crossed>>

\* The timer repeats the close every second ...
CloseTick(e) ==
    /\ Up /\ s[e].st = "closing" /\ s[e].known /\ Free(e, "closer")
    /\ ticks[e] < MaxTicks /\ ticks' = [ticks EXCEPT ![e] = @ + 1]
    /\ Later(e, "closer", Frame("close", 0))
    /\ UNCHANGED <<s, owner, out, wire, ended, crossed>>

\* ... and gives up after CloseTimeout.
CloseExpires(e) ==
    /\ Up /\ s[e].st = "closing" /\ s[e].known /\ Free(e, "closer")
    /\ ticks[e] = MaxTicks
    /\ s' = [s EXCEPT ![e].known = FALSE]
    /\ UNCHANGED <<owner, out, wire, note, ticks, ended, crossed>>

-----------------------------------------------------------------------------
(* handle: the loop of e takes the next frame of its peer.                 *)

Takes(e, types) ==
    /\ Up /\ Free(e, "loop") /\ wire[Other(e)] # <<>>
    /\ Head(wire[Other(e)]).t \in types
    /\ wire' = [wire EXCEPT ![Other(e)] = Tail(@)]
    /\ UNCHANGED <<out, ticks, crossed>>

\* A new flow, a refusal at the limit of flows, or a flow that is closed at once
\* because the incoming queue is full.
HandleConnect ==
    /\ Takes("server", {"connect"})
    /\ \/ /\ s' = [s EXCEPT !["server"].st = "opening", !["server"].known = TRUE]
          /\ owner' = [owner EXCEPT !["server"] = "queue"]
          /\ UNCHANGED note
       \/ Later("server", "loop", Frame("close", 0)) /\ UNCHANGED <<s, owner>>
       \/ /\ s' = [s EXCEPT !["server"].st = "closing", !["server"].known = TRUE,
                           !["server"].closed = TRUE]
          /\ Later("server", "loop", Frame("close", 0))
          /\ UNCHANGED owner
    /\ UNCHANGED ended

HandleResponse ==
    /\ Takes("client", {"response"})
    /\ s' = [s EXCEPT !["client"].st =
                    IF @ = "opening" /\ s["client"].known THEN "open" ELSE @]
    /\ UNCHANGED <<owner, note, ended>>

\* Mutant: the flow stays in the map when the handshake is over.
PeerClosesKept(e) ==
    s' = [s EXCEPT ![e].st = IF @ = "closing" THEN "gone" ELSE "peer_closed"]

PeerCloses(e) ==
    s' = [s EXCEPT ![e].st = IF @ = "closing" THEN "gone" ELSE "peer_closed",
                   ![e].known = s[e].st # "closing"]

\* peerClose; for a flow that is not known, a close is confirmed.
HandleClose(e) ==
    LET f == Head(wire[Other(e)])
        ours == s[e].st \in {"peer_closed", "closing"} IN
    /\ Takes(e, {"close", "close_ack"})
    /\ IF s[e].known
       THEN /\ PeerCloses(e)
            /\ Later(e, "loop", Frame(IF ours THEN "close_ack" ELSE "close", 0))
       ELSE /\ IF f.t = "close" THEN Later(e, "loop", Frame("close_ack", 0)) ELSE UNCHANGED note
            /\ UNCHANGED s
    /\ UNCHANGED <<owner, ended>>

HandleReadClose(e) ==
    /\ Takes(e, {"read_close"})
    /\ s' = [s EXCEPT ![e].peerNoRead = @ \/ s[e].known]
    /\ UNCHANGED <<owner, note, ended>>

\* peerBuffer: an older notice is passed over, one at the same offset is not.
HandleBuffer(e) ==
    LET f == Head(wire[Other(e)]) IN
    /\ Takes(e, {"full", "resume"})
    /\ s' = IF s[e].known /\ f.n >= s[e].remoteOff
            THEN [s EXCEPT ![e].remoteOff = f.n, ![e].remoteFull = (f.t = "full")]
            ELSE s
    /\ UNCHANGED <<owner, note, ended>>

\* Mutant: a client that has closed the flow takes its data for an error.
DroppedUnknownOnly(e) == ~s[e].known

\* What a closed client drops ends a server's session.
Dropped(e) == ~s[e].known \/ (s[e].closed /\ e = "client")

\* receive.
HandleData(e) ==
    LET f == Head(wire[Other(e)])
        dropped == Dropped(e)
        fits == Buffered(e) < Limit(e)
        pause == ~s[e].full /\ Buffered(e) + 1 >= FullAt
        bad == IF s[e].st # "open" THEN "outside"
               ELSE IF f.n # s[e].received THEN "offset"
               ELSE IF ~fits /\ ~s[e].noRead /\ e = "server" THEN "limit" ELSE "none" IN
    /\ Takes(e, {"data"})
    /\ \/ dropped /\ UNCHANGED <<s, note, ended>>
       \/ ~dropped /\ bad # "none" /\ End(e, bad) /\ UNCHANGED <<s, note>>
       \/ /\ ~dropped /\ bad = "none" /\ s[e].noRead
          /\ s' = [s EXCEPT ![e].received = @ + 1, ![e].consumed = s[e].received + 1]
          /\ UNCHANGED <<note, ended>>
       \/ /\ ~dropped /\ bad = "none" /\ ~s[e].noRead /\ fits
          /\ s' = [s EXCEPT ![e].received = @ + 1, ![e].full = @ \/ pause]
          /\ IF pause THEN Later(e, "loop", Frame("full", s[e].received + 1)) ELSE UNCHANGED note
          /\ UNCHANGED ended
       \/ /\ ~dropped /\ bad = "none" /\ ~s[e].noRead /\ ~fits
          /\ CloseBy(e, "loop", s)
          /\ UNCHANGED ended
    /\ UNCHANGED owner

Handle(e) ==
    \/ e = "server" /\ HandleConnect
    \/ e = "client" /\ HandleResponse
    \/ HandleClose(e) \/ HandleReadClose(e) \/ HandleBuffer(e) \/ HandleData(e)

-----------------------------------------------------------------------------
Next == \/ Open \/ OpenSent \/ OpenFails \/ SessionAccept \/ StreamAccept
        \/ \E e \in Ends :
            \/ WriteLoop(e) \/ Handle(e) \/ \E t \in Threads : Notify(e, t)
            \/ Write(e) \/ WriteGivesUp(e)
            \/ Read(e) \/ Close(e) \/ CloseRead(e)
            \/ CloseTick(e) \/ CloseExpires(e)

Spec == Init /\ [][Next]_vars

\* The loops, the threads that hold a notice and the timers run on.  An application
\* reads what it is given, and closes a flow that its peer has closed: serveStream
\* copies until an end and defers Close, and so do the users of a client's flow.
Fairness ==
    /\ WF_vars(OpenSent) /\ WF_vars(SessionAccept)
    /\ \A e \in Ends :
        /\ WF_vars(WriteLoop(e)) /\ WF_vars(Handle(e))
        /\ \A t \in Threads : WF_vars(Notify(e, t))
        /\ WF_vars(WriteGivesUp(e)) /\ WF_vars(Read(e)) /\ WF_vars(CloseTick(e)) /\ WF_vars(CloseExpires(e))
        /\ WF_vars(s[e].st = "peer_closed" /\ Close(e))

FairSpec == Spec /\ Fairness

-----------------------------------------------------------------------------
(* Properties.                                                             *)

Frames == [t : {"connect", "response", "data", "full", "resume", "close", "close_ack",
                "read_close"}, n : Nat]

TypeOK ==
    /\ \A e \in Ends :
        /\ s[e].st \in States
        /\ s[e].consumed <= s[e].received /\ s[e].sent <= s[e].load
        /\ out[e] \in Seq(Frames) /\ Len(out[e]) <= OutCap
        /\ wire[e] \in Seq(Frames) /\ Len(wire[e]) <= WireCap
        /\ \A t \in Threads : note[e][t] \in Frames \cup {Nothing}
    /\ owner \in [Ends -> {"nobody", "opener", "queue", "app"}]

\* A reader that sees the end of the stream has been given everything its peer wrote
\* with success: no close overtakes data (stream.go:522-524).
EOFComplete ==
    \A e \in Ends : s[e].st = "peer_closed" => s[e].received >= s[Other(e)].sent

\* The client's end never ends the session over one flow, whatever is in flight when
\* a flow closes or its reader stops (overflow_test.go:57, 86), except for a full
\* queue of notices.  The server's does when it has closed the flow itself and the
\* client's data still arrives, or at its limit, and for nothing else: data never
\* arrives out of order, nor before the flow is accepted.
EndedForAReason ==
    ended # <<>> =>
        \/ ended[2] = "queue"
        \/ ended = <<"server", "limit">>
        \/ ended = <<"server", "outside">> /\ s["server"].closed

FlowInv == TypeOK /\ EOFComplete /\ EndedForAReason

\* A flow that is closed by its own side, or whose peer has closed it, leaves the
\* session's map, so that it does not count against MaxFlows for ever: by the
\* handshake, by the timer or by its owner.  The exception is a flow that the client
\* closed before the server's Accept saw it: Accept passes over it, nobody closes it on
\* the server's side, and it stays (session.go:785-791).
FlowReclaimed ==
    \A e \in Ends :
        (s[e].closed \/ s[e].st = "peer_closed")
            ~> (~s[e].known \/ ~Up \/ (owner[e] = "nobody" /\ ~s[e].closed))

\* A paused writer goes on when its reader reads ("receive full at 256 nodes, resume
\* at 128", session.go:43), unless the flow or the session ends, or the reader's
\* resume notice passed the pause that it ends: both carry the same offset, the
\* writer takes the later one, and it stays paused.  The other exception is a client
\* whose Open failed after the connect was out: it forgets the flow without a close
\* (session.go:753-757), and the server keeps a flow that nobody reads.
PauseEnds ==
    \A e \in Ends :
        s[e].remoteFull ~> \/ ~s[e].remoteFull \/ ~s[e].known \/ ~Up
                           \/ s[e].st # "open" \/ s[Other(e)].noRead
                           \/ Other(e) \in crossed \/ owner[Other(e)] = "nobody"

=============================================================================
