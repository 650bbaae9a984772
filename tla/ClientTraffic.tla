---------------------------- MODULE ClientTraffic ----------------------------
(***************************************************************************)
(* The clients of one inbound and their traffic (web/service/inbound.go):  *)
(* the traffic job reads and resets the core's counters, adds them to the  *)
(* rows of client_traffics, renews what has expired and disables what has  *)
(* used up its quota (AddTraffic), while edits and resets change the same  *)
(* rows, the client list in the inbound's settings and, over the API, the  *)
(* users of the running core, and restarts build the core's configuration  *)
(* from both.                                                              *)
(*                                                                         *)
(* An edit reads the inbound outside its transaction and saves the whole   *)
(* row.  Writers are serialised by the lock of the SQLite file, which a    *)
(* transaction holds from its first write to its commit; readers go on and *)
(* see what was committed before.  A time is what it is compared with:     *)
(* "delayed" (negative, it starts with the first connection), "future" or  *)
(* "past".  The inbound itself has no quota and does not expire, and its   *)
(* protocol is one the core can change users of while it runs.             *)
(***************************************************************************)
EXTENDS Naturals, Functions

CONSTANTS
    Clients,     \* emails
    Renewing,    \* the clients with a reset period
    Quota,       \* total of every client
    Editors,     \* requests that change clients
    EditKinds,   \* what they do
    FaultKinds,  \* what may go wrong, at most one of it
    MaxEvents,   \* bound: units of traffic, connections without any, and expiries
    MaxEdits,    \* bound: edits
    MaxRestarts, \* bound: restarts an administrator forces
    NoOne

Job == "job"          \* XrayTrafficJob
Restart == "restart"  \* RestartXray
Procs == Editors \cup {Job, Restart}

ASSUME ClientsAssumption ==
    /\ Renewing \subseteq Clients
    /\ Quota \in Nat \ {0}
    /\ NoOne \notin Procs /\ Editors \cap {Job, Restart} = {}

ASSUME BoundsAssumption ==
    /\ EditKinds \subseteq {"add", "delete", "update", "reset", "reset_all", "deplete"}
    /\ FaultKinds \subseteq {"busy", "api"}
    /\ MaxEvents \in Nat /\ MaxEdits \in Nat /\ MaxRestarts \in Nat

VARIABLES
    settings,  \* settings[c], for the clients in the JSON of the inbound
    rows,      \* rows[c], for the clients in client_traffics
    dbLock,    \* the writer of the database
    served, startCfg,  \* the users of the core, and those it was started with
    counter,   \* counter[c]: the core's counters of c
    connected, \* the clients it has counters of, those that have connected to it
    need,      \* isNeedXrayRestart
    pc,
    batch,     \* what the job has taken from the counters
    listed,    \* the clients whose counters it was given, zero or not
    work,      \* work[e]: what editor e does and has read
    cfg,       \* the users the restart has read
    forced,    \* the restart is forced
    ask,       \* ask[p]: needRestart of p's call
    gen,       \* history: traffic of c since its row was created, while it counts
    gap,       \* history: clients a restart, renewal, purge or failure left in the core
    raced,     \* history: clients whose row changed under a reset, purge or failed delete
    deleted,   \* history: clients whose deletion was answered with success
    fault, events, edits, restarts

db == <<settings, rows, dbLock>>
core == <<served, startCfg, counter, connected>>
calls == <<batch, listed, work, cfg, forced, ask>>
history == <<gen, gap, raced, deleted>>
budget == <<events, edits, restarts>>
vars == <<db, core, need, pc, calls, history, fault, budget>>

Times == {"delayed", "future", "past"}
Entries == [enable : BOOLEAN, exp : Times]
Rows == [enable : BOOLEAN, exp : Times, used : 0 .. MaxEvents, all : 0 .. MaxEvents]
Idle == [kind |-> "none"]

Stored == DOMAIN settings
Metered == DOMAIN rows

TypeOK ==
    /\ Stored \subseteq Clients /\ settings \in [Stored -> Entries]
    /\ Metered \subseteq Clients /\ rows \in [Metered -> Rows]
    /\ dbLock \in Procs \cup {NoOne}
    /\ need \in BOOLEAN /\ forced \in BOOLEAN
    /\ served \subseteq Clients /\ startCfg \subseteq Clients /\ cfg \subseteq Clients
    /\ counter \in [Clients -> 0 .. MaxEvents] /\ batch \in [Clients -> 0 .. MaxEvents]
    /\ connected \subseteq Clients /\ listed \subseteq Clients
    /\ pc \in [Procs -> {"idle", "act", "save", "add", "tx", "read", "start"}]
    /\ \A e \in Editors : work[e] = Idle <=> pc[e] = "idle"
    /\ ask \in [Procs -> BOOLEAN]
    /\ gen \in [Clients -> 0 .. MaxEvents]
    /\ gap \subseteq Clients /\ raced \subseteq Clients /\ deleted \subseteq Clients
    /\ fault \subseteq FaultKinds
    /\ events \in 0 .. MaxEvents /\ edits \in 0 .. MaxEdits /\ restarts \in 0 .. MaxRestarts

\* The core runs with some clients, all enabled and with the same expiry, which lies
\* ahead or waits for the first traffic.  Edits make them differ.
Init ==
    /\ \E S \in SUBSET Clients \ {{}}, x \in Entries :
        x.enable /\ x.exp # "past" /\ settings = [c \in S |-> x]
    /\ rows = [c \in Stored |-> [enable |-> settings[c].enable, exp |-> settings[c].exp,
                                 used |-> 0, all |-> 0]]
    /\ dbLock = NoOne
    /\ served = Stored /\ startCfg = Stored
    /\ counter = [c \in Clients |-> 0] /\ batch = [c \in Clients |-> 0]
    /\ connected = {} /\ listed = {}
    /\ need = FALSE
    /\ pc = [p \in Procs |-> "idle"]
    /\ work = [e \in Editors |-> Idle]
    /\ cfg = {} /\ forced = FALSE
    /\ ask = [p \in Procs |-> FALSE]
    /\ gen = [c \in Clients |-> 0]
    /\ gap = {} /\ raced = {} /\ deleted = {}
    /\ fault = {} /\ events = 0 /\ edits = 0 /\ restarts = 0

-----------------------------------------------------------------------------
Goto(p, from, to) == /\ pc[p] = from
                     /\ pc' = [pc EXCEPT ![p] = to]

Fault(kind) == fault = {} /\ kind \in FaultKinds /\ fault' = {kind}

\* The API calls of p: the users `off` are removed, then `on` are added.  A call
\* fails when the user to add is there already, or by a fault, such as a core that
\* is being replaced; a user to remove that is not there is no failure.
Alter(p, off, on) ==
    \/ /\ served' = (served \ off) \cup on
       /\ ask' = [ask EXCEPT ![p] = @ \/ on \cap (served \ off) # {}]
       /\ UNCHANGED fault
    \/ /\ off \cup on # {}
       /\ Fault("api")
       /\ ask' = [ask EXCEPT ![p] = TRUE]
       /\ UNCHANGED served

-----------------------------------------------------------------------------
(* AddTraffic, as a function of the stored state.                          *)

\* now - expiryTime, read from the settings: meant for a negative expiryTime.
Started(t) == IF t = "delayed" THEN "future" ELSE IF t = "future" THEN "delayed" ELSE t

Depleted(row) == row.used >= Quota \/ row.exp = "past"

\* What the transaction makes of the deltas d of the clients l, in the order of the
\* code: the rows are counted up, and a delayed clock is started, in settings and row,
\* for each client that has counters, be they zero (addClientTraffic, adjustTraffics);
\* a client with a reset period that has expired gets a new one (autoRenewClients);
\* what has expired or used up its quota is disabled (disableInvalidClients).  `on`
\* and `off` are the API calls.
After(d, l) ==
    LET starting == {c \in Metered \cap Stored : c \in l /\ rows[c].exp = "delayed"}
        counted == [c \in Metered |->
            [rows[c] EXCEPT !.used = @ + d[c], !.all = @ + d[c],
                            !.exp = IF c \in starting THEN Started(settings[c].exp) ELSE @]]
        renewed == {c \in Renewing \cap Metered \cap Stored : counted[c].exp = "past"}
        fresh == [c \in Metered |->
            IF c \in renewed
            THEN [counted[c] EXCEPT !.exp = "future", !.used = 0, !.enable = TRUE]
            ELSE counted[c]]
        over == {c \in Metered : fresh[c].enable /\ Depleted(fresh[c])}
    IN  [rows |-> [c \in Metered |-> [fresh[c] EXCEPT !.enable = @ /\ c \notin over]],
         settings |-> [c \in Stored |->
            [settings[c] EXCEPT !.exp = IF c \in renewed THEN "future"
                                        ELSE IF c \in starting THEN Started(@) ELSE @]],
         on |-> {c \in renewed : ~rows[c].enable},
         off |-> over]

Delta(p) == IF p = Job THEN batch ELSE [c \in Clients |-> 0]
Listed(p) == IF p = Job THEN listed ELSE {}

\* Mutant: a client that is disabled in the database stays in the core.
AddTrafficBeginsSilent(p) ==
    /\ Goto(p, "add", "tx")
    /\ dbLock = NoOne /\ dbLock' = p
    /\ Alter(p, {}, After(Delta(p), Listed(p)).on)
    /\ gap' = gap \cup {c \in After(Delta(p), Listed(p)).on : ~settings[c].enable}
    /\ UNCHANGED <<settings, rows, startCfg, counter, connected, need, batch, listed,
                   work, cfg, forced, gen, raced, deleted, budget>>

\* The transaction, with the API calls it makes.  AddUser does not look at the
\* client's own switch.
AddTrafficBegins(p) ==
    /\ Goto(p, "add", "tx")
    /\ dbLock = NoOne /\ dbLock' = p
    /\ LET after == After(Delta(p), Listed(p)) IN
        /\ Alter(p, after.off, after.on)
        /\ gap' = gap \cup {c \in after.on : ~settings[c].enable}
    /\ UNCHANGED <<settings, rows, startCfg, counter, connected, need, batch, listed,
                   work, cfg, forced, gen, raced, deleted, budget>>

Cleared == [c \in Clients |-> 0]

\* Its commit.  The job asks for the restart; buildXrayConfig ignores the answer.
AddTrafficCommits(p) ==
    /\ Goto(p, "tx", IF p = Job THEN "idle" ELSE "read")
    /\ dbLock' = NoOne
    /\ LET after == After(Delta(p), Listed(p)) IN rows' = after.rows /\ settings' = after.settings
    /\ batch' = IF p = Job THEN Cleared ELSE batch
    /\ listed' = IF p = Job THEN {} ELSE listed
    /\ need' = (need \/ (p = Job /\ ask[p]))
    /\ ask' = [ask EXCEPT ![p] = FALSE]
    /\ UNCHANGED <<core, work, cfg, forced, history, fault, budget>>

\* The file stays locked for longer than the busy timeout: the error is logged,
\* and what was taken from the counters is gone.
AddTrafficFails(p) ==
    /\ Goto(p, "add", IF p = Job THEN "idle" ELSE "read")
    /\ Fault("busy")
    /\ batch' = IF p = Job THEN Cleared ELSE batch
    /\ listed' = IF p = Job THEN {} ELSE listed
    /\ UNCHANGED <<db, core, need, work, cfg, forced, ask, history, budget>>

AddTraffic(p) == AddTrafficBegins(p) \/ AddTrafficCommits(p) \/ AddTrafficFails(p)

-----------------------------------------------------------------------------
(* The core and its counters.                                              *)

\* The first connection of a user registers its counters, before there is traffic.
Connect(c) ==
    /\ c \in served \ connected
    /\ events < MaxEvents /\ events' = events + 1
    /\ connected' = connected \cup {c}
    /\ UNCHANGED <<db, served, startCfg, counter, need, pc, calls, history, fault,
                   edits, restarts>>

Use(c) ==
    /\ c \in served
    /\ events < MaxEvents /\ events' = events + 1
    /\ counter' = [counter EXCEPT ![c] = @ + 1]
    /\ gen' = IF c \in Metered THEN [gen EXCEPT ![c] = @ + 1] ELSE gen
    /\ connected' = connected \cup {c}
    /\ UNCHANGED <<db, served, startCfg, need, pc, calls, gap, raced, deleted, fault,
                   edits, restarts>>

\* Mutant: the counters are read without being reset.
GetXrayTrafficKept ==
    /\ Goto(Job, "idle", "add")
    /\ batch' = counter /\ listed' = connected
    /\ UNCHANGED <<db, core, need, work, cfg, forced, ask, history, fault, budget>>

\* GetTraffic(reset = true).
GetXrayTraffic ==
    /\ Goto(Job, "idle", "add")
    /\ batch' = counter /\ listed' = connected
    /\ counter' = Cleared
    /\ UNCHANGED <<db, served, startCfg, connected, need, work, cfg, forced, ask,
                   history, fault, budget>>

\* Time passes between two transactions; in one it is read once.
Expire(c) ==
    /\ dbLock = NoOne
    /\ events < MaxEvents /\ events' = events + 1
    /\ \/ c \in Stored /\ settings[c].exp = "future"
       \/ c \in Metered /\ rows[c].exp = "future"
    /\ settings' = [x \in Stored |-> IF x = c /\ settings[x].exp = "future"
                                     THEN [settings[x] EXCEPT !.exp = "past"] ELSE settings[x]]
    /\ rows' = [x \in Metered |-> IF x = c /\ rows[x].exp = "future"
                                  THEN [rows[x] EXCEPT !.exp = "past"] ELSE rows[x]]
    /\ UNCHANGED <<dbLock, core, need, pc, calls, history, fault, edits, restarts>>

\* A core that ends takes its counters along.
CountersLost == /\ counter' = Cleared /\ connected' = {}
                /\ gen' = [c \in Clients |-> IF c \in Metered THEN gen[c] - counter[c] ELSE gen[c]]

-----------------------------------------------------------------------------
(* RestartXray, called by the restart job or forced.                       *)

RestartBegins ==
    /\ Goto(Restart, "idle", "add")
    /\ \/ need /\ need' = FALSE /\ forced' = FALSE /\ UNCHANGED restarts
       \/ restarts < MaxRestarts /\ restarts' = restarts + 1 /\ forced' = TRUE /\ UNCHANGED need
    /\ UNCHANGED <<db, core, batch, listed, work, cfg, ask, history, fault, events,
                   edits>>

\* projectCoreClients: a client without a row counts as active.
Projected ==
    {c \in Stored : /\ settings[c].enable /\ settings[c].exp # "past"
                    /\ c \in Metered => rows[c].enable /\ rows[c].exp # "past"}

RestartReads ==
    /\ Goto(Restart, "read", "start")
    /\ cfg' = Projected
    /\ UNCHANGED <<db, core, need, batch, listed, work, forced, ask, history, fault,
                   budget>>

\* A client that is deleted, or that its row or its entry has switched off.
Cut(c) == \/ c \notin Stored
          \/ c \in Metered /\ ~rows[c].enable
          \/ c \in Stored /\ ~settings[c].enable

\* The users among which a restart may have missed a change: what has changed since
\* it read the database, or is in an open transaction or call, has passed it by.
Missed(users) ==
    {c \in users : Cut(c) \/ dbLock # NoOne \/ \E e \in Editors : pc[e] = "save"}

RestartSkips ==
    /\ ~forced /\ ~need /\ cfg = startCfg
    /\ Goto(Restart, "start", "idle")
    /\ cfg' = {} /\ forced' = FALSE
    /\ ask' = [ask EXCEPT ![Restart] = FALSE]
    /\ gap' = gap \cup Missed(served) \cup (served \ cfg)
    /\ UNCHANGED <<db, core, need, batch, listed, work, gen, raced, deleted, fault,
                   budget>>

\* The new core has the users that were read.
RestartStarts ==
    /\ forced \/ need \/ cfg # startCfg
    /\ Goto(Restart, "start", "idle")
    /\ served' = cfg /\ startCfg' = cfg
    /\ CountersLost
    /\ cfg' = {} /\ forced' = FALSE
    /\ ask' = [ask EXCEPT ![Restart] = FALSE]
    /\ gap' = gap \cup Missed(cfg)
    /\ UNCHANGED <<db, need, batch, listed, work, raced, deleted, fault, budget>>

-----------------------------------------------------------------------------
(* Edits.                                                                  *)

\* The row or entry x is stored for c.
With(f, c, x) == [y \in DOMAIN f \cup {c} |-> IF y = c THEN x ELSE f[y]]

\* The deferred Commit, or the last autocommitted write, and the controller's
\* SetToNeedRestart.
Answered(e) == /\ work' = [work EXCEPT ![e] = Idle]
               /\ ask' = [ask EXCEPT ![e] = FALSE]
               /\ need' = (need \/ ask[e])

Begin(e, w) ==
    /\ edits < MaxEdits /\ edits' = edits + 1
    /\ w.kind \in EditKinds
    /\ Goto(e, "idle", "act")
    /\ work' = [work EXCEPT ![e] = w]
    /\ UNCHANGED <<db, need, startCfg, counter, connected, batch, listed, cfg, forced,
                   history, events, restarts>>

\* AddInboundClient, DelInboundClient and UpdateInboundClient read the inbound.  The
\* expiry of the request is not looked at; it keeps the email of the client.
ReadInbound(e) ==
    /\ \E c \in Clients, x \in Entries :
        /\ \/ /\ c \notin Stored
              /\ Begin(e, [kind |-> "add", client |-> c, entry |-> x, copy |-> settings])
           \/ /\ c \in Stored
              /\ Begin(e, [kind |-> "update", client |-> c, entry |-> x, copy |-> settings])
           \/ /\ c \in Stored /\ Stored # {c} /\ x = settings[c]
              /\ Begin(e, [kind |-> "delete", client |-> c, copy |-> settings])
    /\ UNCHANGED <<served, ask, fault>>

\* The transaction of AddInboundClient begins: AddUser.
AddBegins(e) ==
    LET w == work[e] IN
    /\ w.kind = "add"
    /\ Goto(e, "act", "save")
    /\ dbLock = NoOne /\ dbLock' = e
    /\ Alter(e, {}, IF w.entry.enable THEN {w.client} ELSE {})
    /\ UNCHANGED <<settings, rows, startCfg, counter, connected, need, batch, listed,
                   work, cfg, forced, history, budget>>

\* Mutant: AddClientStat is forgotten.
WithStatNone(w) == rows

\* AddClientStat; its failure, for an email that has a row, is ignored.
WithStat(w) ==
    IF w.client \in Metered THEN rows
    ELSE With(rows, w.client, [enable |-> w.entry.enable, exp |-> w.entry.exp,
                               used |-> 0, all |-> 0])

AddCommits(e) ==
    LET w == work[e] IN
    /\ w.kind = "add"
    /\ Goto(e, "save", "idle")
    /\ dbLock' = NoOne
    /\ rows' = WithStat(w)
    /\ settings' = With(w.copy, w.client, w.entry)
    /\ gen' = IF w.client \in Metered THEN gen
              ELSE [gen EXCEPT ![w.client] = counter[w.client] + batch[w.client]]
    /\ deleted' = deleted \ {w.client}
    /\ Answered(e)
    /\ UNCHANGED <<core, batch, listed, cfg, forced, gap, raced, fault, budget>>

\* The transaction of UpdateInboundClient begins: RemoveUser, then AddUser.
UpdateBegins(e) ==
    LET w == work[e] IN
    /\ w.kind = "update"
    /\ Goto(e, "act", "save")
    /\ dbLock = NoOne /\ dbLock' = e
    /\ Alter(e, IF w.copy[w.client].enable THEN {w.client} ELSE {},
                IF w.entry.enable THEN {w.client} ELSE {})
    /\ UNCHANGED <<settings, rows, startCfg, counter, connected, need, batch, listed,
                   work, cfg, forced, history, budget>>

\* UpdateClientStat leaves the counters alone.
UpdateCommits(e) ==
    LET w == work[e] IN
    /\ w.kind = "update"
    /\ Goto(e, "save", "idle")
    /\ dbLock' = NoOne
    /\ rows' = IF w.client \in Metered
               THEN [rows EXCEPT ![w.client].enable = w.entry.enable,
                                 ![w.client].exp = w.entry.exp]
               ELSE rows
    /\ settings' = [w.copy EXCEPT ![w.client] = w.entry]
    /\ Answered(e)
    /\ UNCHANGED <<core, batch, listed, cfg, forced, history, fault, budget>>

\* DelInboundClient: DelClientStat commits by itself; a client without a row is an
\* error.  RemoveUser is called for a client that its entry and its row enable.
DeleteStat(e) ==
    LET w == work[e]
        found == w.client \in Metered IN
    /\ w.kind = "delete"
    /\ Goto(e, "act", IF found THEN "save" ELSE "idle")
    /\ dbLock = NoOne
    /\ rows' = Restrict(rows, Metered \ {w.client})
    /\ Alter(e, IF found /\ w.copy[w.client].enable /\ rows[w.client].enable
                THEN {w.client} ELSE {}, {})
    /\ gen' = [gen EXCEPT ![w.client] = 0]
    /\ work' = IF found THEN work ELSE [work EXCEPT ![e] = Idle]
    /\ UNCHANGED <<settings, dbLock, startCfg, counter, connected, need, batch, listed,
                   cfg, forced, gap, raced, deleted, budget>>

DeleteSaves(e) ==
    LET w == work[e] IN
    /\ w.kind = "delete"
    /\ Goto(e, "save", "idle")
    /\ dbLock = NoOne
    /\ settings' = Restrict(w.copy, DOMAIN w.copy \ {w.client})
    /\ deleted' = deleted \cup {w.client}
    /\ Answered(e)
    /\ UNCHANGED <<rows, dbLock, core, batch, listed, cfg, forced, gen, gap, raced,
                   fault, budget>>

\* ResetClientTraffic reads the row and lets a disabled client in again.
ResetReads(e) ==
    \E c \in Metered \cap Stored :
        /\ Begin(e, [kind |-> "reset", client |-> c, row |-> rows[c]])
        /\ Alter(e, {}, IF ~rows[c].enable /\ settings[c].enable THEN {c} ELSE {})

\* db.Save writes the whole row that was read, and creates it when it is gone.
ResetSaves(e) ==
    LET w == work[e] IN
    /\ w.kind = "reset"
    /\ Goto(e, "act", "idle")
    /\ dbLock = NoOne
    /\ rows' = With(rows, w.client, [w.row EXCEPT !.used = 0, !.enable = TRUE])
    /\ raced' = IF w.client \in Metered /\ rows[w.client].all = w.row.all
                THEN raced ELSE raced \cup {w.client}
    /\ Answered(e)
    /\ UNCHANGED <<settings, dbLock, core, batch, listed, cfg, forced, gen, gap,
                   deleted, fault, budget>>

\* ResetAllClientTraffics; the periodic job does not ask for a restart.
ResetAllClientTraffics(e) ==
    /\ edits < MaxEdits /\ edits' = edits + 1
    /\ "reset_all" \in EditKinds
    /\ pc[e] = "idle" /\ dbLock = NoOne
    /\ rows' = [c \in Metered |-> [rows[c] EXCEPT !.enable = TRUE, !.used = 0]]
    /\ need' \in {TRUE, need}
    /\ UNCHANGED <<settings, dbLock, core, pc, calls, history, fault, events, restarts>>

\* The depleted clients that are not renewed, among those expired at some time.
Exhausted(expired) ==
    {c \in Metered \ Renewing : rows[c].used >= Quota \/ (rows[c].exp = "past" /\ c \in expired)}

\* DelDepletedClients looks for them, and reads the inbound; the case in which no
\* client remains deletes the inbound and is left out.
DepleteReads(e) ==
    /\ LET expired == {c \in Metered : rows[c].exp = "past"}
           gone == Exhausted(expired) IN
        /\ gone # {} /\ Stored \ gone # {}
        /\ Begin(e, [kind |-> "deplete", gone |-> gone, expired |-> expired, copy |-> settings])
    /\ UNCHANGED <<served, ask, fault>>

\* Its transaction; the rows are selected again, as of the same time, and the core is
\* not told: a client that has just expired is still one of its users.
DepleteCommits(e) ==
    LET w == work[e]
        purged == Exhausted(w.expired) IN
    /\ w.kind = "deplete"
    /\ Goto(e, "act", "idle")
    /\ dbLock = NoOne
    /\ settings' = Restrict(w.copy, DOMAIN w.copy \ w.gone)
    /\ rows' = Restrict(rows, Metered \ purged)
    /\ gen' = [c \in Clients |-> IF c \in purged THEN 0 ELSE gen[c]]
    /\ raced' = raced \cup (purged \ w.gone) \cup (w.gone \ purged)
    /\ gap' = gap \cup (w.gone \cap served)
    /\ Answered(e)
    /\ UNCHANGED <<dbLock, core, batch, listed, cfg, forced, deleted, fault, budget>>

\* The file stays locked for longer than the busy timeout: the request is answered
\* with an error, without a restart, although AddInboundClient and
\* ResetClientTraffic have told the core and DelInboundClient has deleted the row.
EditFails(e) ==
    LET w == work[e] IN
    /\ \/ w.kind \in {"add", "reset"} /\ Goto(e, "act", "idle")
       \/ w.kind = "delete" /\ Goto(e, "save", "idle")
    /\ Fault("busy")
    /\ served' = IF w.kind = "add" /\ w.entry.enable THEN served \cup {w.client} ELSE served
    /\ gap' = gap \cup {w.client}
    /\ raced' = IF w.kind = "delete" THEN raced \cup {w.client} ELSE raced
    /\ work' = [work EXCEPT ![e] = Idle] /\ ask' = [ask EXCEPT ![e] = FALSE]
    /\ UNCHANGED <<db, startCfg, counter, connected, need, batch, listed, cfg, forced,
                   gen, deleted, budget>>

Edit(e) == \/ ReadInbound(e)
           \/ AddBegins(e) \/ AddCommits(e)
           \/ UpdateBegins(e) \/ UpdateCommits(e)
           \/ DeleteStat(e) \/ DeleteSaves(e)
           \/ ResetReads(e) \/ ResetSaves(e)
           \/ ResetAllClientTraffics(e)
           \/ DepleteReads(e) \/ DepleteCommits(e)
           \/ EditFails(e)

-----------------------------------------------------------------------------
Next == \/ \E c \in Clients : Connect(c) \/ Use(c) \/ Expire(c)
        \/ GetXrayTraffic \/ AddTraffic(Job)
        \/ RestartBegins \/ AddTraffic(Restart) \/ RestartReads
        \/ RestartSkips \/ RestartStarts
        \/ \E e \in Editors : Edit(e)

Spec == Init /\ [][Next]_vars

-----------------------------------------------------------------------------
(* Properties.                                                             *)

Quiet == dbLock = NoOne /\ \A p \in Procs : pc[p] = "idle"

\* The state is well-formed, and the all-time traffic of a client is what the core
\* counted for it: no interleaving of the job with edits, renewals, resets and
\* restarts counts anything twice, and none loses anything, except a failed
\* transaction (the counters have been reset by then) and a reset that saves a row
\* read before the job's commit (inbound.go:1157-1214, 1908-1960).
TrafficAccounted ==
    /\ TypeOK
    /\ \A c \in Metered :
        LET seen == rows[c].all + counter[c] + batch[c] IN
        /\ seen <= gen[c]
        /\ "busy" \in fault \/ c \in raced \/ seen = gen[c]

\* A client that is deleted, or disabled by its quota, its expiry or an administrator,
\* is not a user of the core once the calls in progress have ended, or a restart is
\* asked for (inbound.go:1415-1459).  The exceptions are a client let in by a restart
\* that overlapped the change, or kept by one that was skipped; one that was switched
\* off and is renewed; one that is purged before the job has disabled it; and one
\* whose edit told the core and then failed to save.
DisabledIsCutOff ==
    (Quiet /\ ~need) => \A c \in served : Cut(c) => c \in gap

\* With one administrator at work, every client the core may serve has a row that
\* meters it, and every row has its client, whatever job and restarts do in between;
\* the exception is a row that changed between the two halves of a purge
\* (inbound.go:2040-2048, 2098), or under a reset, or was deleted by a request that
\* then failed to save the inbound (inbound.go:879, 901).
ClientsAreMetered ==
    Quiet => \A c \in Clients \ raced : c \in Stored <=> c \in Metered

\* "deleted identity retained" (native_client_helpers_test.go:358): a client whose
\* deletion succeeded stays deleted until it is added again.
DeletedStaysDeleted == deleted \cap Stored = {}

=============================================================================
