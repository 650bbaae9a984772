----------------------------- MODULE XrayService -----------------------------
(***************************************************************************)
(* The life of the core process: RestartXray and StopXray of               *)
(* web/service/xray.go over one process of xray/process.go, called by      *)
(* administrators, by the crash check (check_xray_running_job.go, every    *)
(* second) and by the restart job (web.go, every 30 seconds), while        *)
(* inbound edits (inbound.go) change the database and, over the API, the   *)
(* running core.                                                           *)
(*                                                                         *)
(* A configuration is one value, the part that buildXrayConfig makes of    *)
(* one inbound: one of Cfgs, or "off" when it is disabled.  Cron starts    *)
(* every tick in a goroutine of its own, so ticks of one job overlap when  *)
(* one waits for the lock.                                                 *)
(***************************************************************************)
EXTENDS Naturals, FiniteSets

CONSTANTS
    Admins,      \* requests, Telegram commands and signals that stop or restart
    Ticks,       \* overlapping ticks of the crash check
    Jobs,        \* overlapping ticks of the restart job
    Editors,     \* requests that run UpdateInbound
    Cfgs,        \* configurations of the enabled inbound
    FaultKinds,  \* what may go wrong, each kind once
    MaxFaults,   \* bound: kinds in one run
    MaxOrders,   \* bound: stop and restart orders of administrators
    MaxEdits,    \* bound: edits
    NoOne

Restarters == Admins \cup Ticks \cup Jobs
Procs == Restarters \cup Editors

ASSUME ActorsAssumption ==
    /\ NoOne \notin Procs
    /\ Admins \cap (Ticks \cup Jobs \cup Editors) = {}
    /\ Ticks \cap (Jobs \cup Editors) = {}
    /\ Jobs \cap Editors = {}

Configs == Cfgs \cup {"off"}

ASSUME ConfigurationsAssumption == Cfgs \cap {"none", "off"} = {}

ASSUME BoundsAssumption ==
    /\ FaultKinds \subseteq {"crash", "wedge", "start", "config", "api", "save"}
    /\ MaxFaults \in Nat /\ MaxOrders \in Nat /\ MaxEdits \in Nat

VARIABLES
    lock,       \* who holds lock
    manual,     \* isManuallyStopped
    need,       \* isNeedXrayRestart
    running,    \* p.IsRunning()
    startCfg,   \* p.GetConfig()
    live,       \* what the core of p serves, API calls included
    orphans,    \* cores that live on although p no longer refers to them
    db,         \* the stored configuration
    checkTime,  \* CheckXrayRunningJob.checkTime
    pc,
    cfg,        \* cfg[c]: the configuration c has read, or is about to store
    cnt,        \* cnt[t]: the value of checkTime that tick t has loaded
    ask,        \* ask[e]: needRestart of UpdateInbound
    intent,     \* history: the last order of an administrator
    owed,       \* history: a restart has been asked for, and not begun, or has
                \* read the database and not started the core
    faults,     \* the kinds that have happened
    orders, edits

core == <<running, startCfg, live, orphans>>
flags == <<manual, need>>
locals == <<cfg, cnt, ask>>
history == <<intent, owed>>
budget == <<orders, edits>>
vars == <<lock, flags, core, db, checkTime, pc, locals, history, faults, budget>>

RestartPCs == {"lock", "read", "decide", "stop", "start"}
PCs == RestartPCs \cup {"idle", "stop_lock", "stop_core", "manual", "load", "store",
                        "save", "flag", "done"}
\* The counter is only compared with 1: all values from 2 on are one.
MaxCheck == 2

TypeOK ==
    /\ lock \in Restarters \cup {NoOne}
    /\ manual \in BOOLEAN /\ need \in BOOLEAN
    /\ running \in BOOLEAN
    /\ startCfg \in Configs /\ live \in Configs /\ db \in Configs
    /\ orphans \in 0 .. 1
    /\ checkTime \in 0 .. MaxCheck
    /\ pc \in [Procs -> PCs]
    /\ cfg \in [Procs -> Configs \cup {"none"}]
    /\ cnt \in [Ticks -> 0 .. MaxCheck]
    /\ ask \in [Editors -> BOOLEAN]
    /\ intent \in {"run", "stop"} /\ owed \in {"no", "asked", "read"}
    /\ faults \subseteq FaultKinds
    /\ orders \in 0 .. MaxOrders /\ edits \in 0 .. MaxEdits

\* After startTask: the core runs, or could not be started, or has been left
\* stopped by ConsumeRestoreStoppedReload.  A request from before a panel reload
\* may still be up.
Init ==
    /\ lock = NoOne
    /\ manual \in BOOLEAN
    /\ need \in IF manual THEN {FALSE} ELSE BOOLEAN
    /\ running \in IF manual THEN {FALSE} ELSE BOOLEAN
    /\ db \in Configs /\ startCfg = db /\ live = db
    /\ orphans = 0
    /\ checkTime = 0
    /\ pc = [c \in Procs |-> "idle"]
    /\ cfg = [c \in Procs |-> "none"]
    /\ cnt = [t \in Ticks |-> 0]
    /\ ask = [e \in Editors |-> FALSE]
    /\ intent = IF manual THEN "stop" ELSE "run"
    /\ owed = "no"
    /\ faults = {}
    /\ orders = 0 /\ edits = 0

-----------------------------------------------------------------------------
Goto(c, from, to) == /\ pc[c] = from
                     /\ pc' = [pc EXCEPT ![c] = to]

Remember(c, v) == cfg' = [cfg EXCEPT ![c] = v]
Forget(c) == Remember(c, "none")

Fault(kind) == /\ kind \in FaultKinds \ faults
               /\ Cardinality(faults) < MaxFaults
               /\ faults' = faults \cup {kind}

-----------------------------------------------------------------------------
(* RestartXray.                                                            *)

\* Mutant: no mutual exclusion.
LockRestartUnlocked(c) ==
    /\ Goto(c, "lock", "read")
    /\ manual' = FALSE
    /\ UNCHANGED <<lock, need, core, db, checkTime, locals, history, faults, budget>>

\* Mutant: a restart does not take back an earlier manual stop.
LockRestartStillManual(c) ==
    /\ Goto(c, "lock", "read")
    /\ lock = NoOne
    /\ lock' = c
    /\ UNCHANGED <<flags, core, db, checkTime, locals, history, faults, budget>>

LockRestart(c) ==
    /\ Goto(c, "lock", "read")
    /\ lock = NoOne
    /\ lock' = c
    /\ manual' = FALSE
    /\ UNCHANGED <<need, core, db, checkTime, locals, history, faults, budget>>

\* Mutant: the restart goes on without a configuration.
ReadConfigNil(c) ==
    /\ Goto(c, "read", "decide")
    /\ owed' = IF owed = "asked" THEN "read" ELSE owed
    /\ UNCHANGED <<lock, flags, core, db, checkTime, locals, intent, faults, budget>>

\* GetXrayConfig; what was owed to an earlier request is in it.
ReadConfig(c) ==
    /\ Goto(c, "read", "decide")
    /\ Remember(c, db)
    /\ owed' = IF owed = "asked" THEN "read" ELSE owed
    /\ UNCHANGED <<lock, flags, core, db, checkTime, cnt, ask, intent, faults, budget>>

\* The deferred Unlock, and what the caller does next: the crash check clears
\* its counter whatever RestartXray returned.
Return(c, from) ==
    /\ Goto(c, from, "done")
    /\ lock' = NoOne
    /\ Forget(c)

\* Mutant: the error return keeps the lock.
ReadConfigFailsLocked(c) ==
    /\ Goto(c, "read", "done")
    /\ Forget(c)
    /\ Fault("config")
    /\ UNCHANGED <<lock, flags, core, db, checkTime, cnt, ask, history, budget>>

ReadConfigFails(c) ==
    /\ Return(c, "read")
    /\ Fault("config")
    /\ UNCHANGED <<flags, core, db, checkTime, cnt, ask, history, budget>>

\* The core was started with this configuration, nobody asked for a restart, and
\* the caller does not force one (an administrator's call always does).
UpToDate(c) == running /\ c \notin Admins /\ startCfg = cfg[c] /\ ~need

RestartSkipped(c) ==
    /\ UpToDate(c)
    /\ Return(c, "decide")
    /\ UNCHANGED <<flags, core, db, checkTime, cnt, ask, history, faults, budget>>

RestartDecided(c) ==
    /\ ~UpToDate(c)
    /\ Goto(c, "decide", IF running THEN "stop" ELSE "start")
    /\ UNCHANGED <<lock, flags, core, db, checkTime, locals, history, faults, budget>>

\* process.Stop: SIGTERM, then SIGKILL, and wait until the core is gone.  Its
\* error, for a core that survives both, is ignored.
RestartStops(c) ==
    /\ Goto(c, "stop", "start")
    /\ \/ running' = FALSE /\ UNCHANGED faults
       \/ running /\ Fault("wedge") /\ UNCHANGED running
    /\ UNCHANGED <<lock, flags, startCfg, live, orphans, db, checkTime, locals, history,
                   budget>>

\* p = NewProcess(cfg); p.Start().  A core that p still referred to stays.
RestartStarts(c) ==
    /\ Return(c, "start")
    /\ orphans' = IF running THEN orphans + 1 ELSE orphans
    /\ startCfg' = cfg[c]
    /\ live' = cfg[c]
    /\ \/ running' = TRUE /\ UNCHANGED faults
       \/ running' = FALSE /\ Fault("start")
    /\ owed' = IF owed = "read" THEN "no" ELSE owed
    /\ UNCHANGED <<flags, db, checkTime, cnt, ask, intent, budget>>

RestartXray(c) == \/ LockRestart(c)
                  \/ ReadConfig(c) \/ ReadConfigFails(c)
                  \/ RestartSkipped(c) \/ RestartDecided(c)
                  \/ RestartStops(c) \/ RestartStarts(c)

-----------------------------------------------------------------------------
(* Administrators.                                                         *)

OrderRestart(a) ==
    /\ orders < MaxOrders
    /\ orders' = orders + 1
    /\ Goto(a, "idle", "lock")
    /\ intent' = "run"
    /\ UNCHANGED <<lock, flags, core, db, checkTime, locals, owed, faults, edits>>

OrderStop(a) ==
    /\ orders < MaxOrders
    /\ orders' = orders + 1
    /\ Goto(a, "idle", "stop_lock")
    /\ UNCHANGED <<lock, flags, core, db, checkTime, locals, history, faults, edits>>

\* Mutant: StopXray does not take the lock.
StopXrayMarksUnlocked(a) ==
    /\ Goto(a, "stop_lock", "stop_core")
    /\ manual' = TRUE
    /\ intent' = "stop"
    /\ UNCHANGED <<lock, need, core, db, checkTime, locals, owed, faults, budget>>

\* StopXray: manual is set before the core goes down, so that the crash check
\* does not take it for a crash.
StopXrayMarks(a) ==
    /\ Goto(a, "stop_lock", "stop_core")
    /\ lock = NoOne
    /\ lock' = a
    /\ manual' = TRUE
    /\ intent' = "stop"
    /\ UNCHANGED <<need, core, db, checkTime, locals, owed, faults, budget>>

StopXrayStops(a) ==
    /\ Return(a, "stop_core")
    /\ \/ running' = FALSE /\ UNCHANGED faults
       \/ running /\ Fault("wedge") /\ UNCHANGED running
    /\ UNCHANGED <<flags, startCfg, live, orphans, db, checkTime, cnt, ask, history, budget>>

OrderDone(a) ==
    /\ Goto(a, "done", "idle")
    /\ UNCHANGED <<lock, flags, core, db, checkTime, locals, history, faults, budget>>

Admin(a) == \/ OrderRestart(a) \/ OrderStop(a)
            \/ StopXrayMarks(a) \/ StopXrayStops(a)
            \/ RestartXray(a)
            \/ OrderDone(a)

-----------------------------------------------------------------------------
(* CheckXrayRunningJob.Run.  checkTime is shared and unsynchronised.       *)

\* DidXrayCrash reads running first, then isManuallyStopped.
TickLooks(t) ==
    /\ \/ running /\ checkTime' = 0 /\ pc[t] = "idle" /\ UNCHANGED pc
       \/ ~running /\ Goto(t, "idle", "manual") /\ UNCHANGED checkTime
    /\ UNCHANGED <<lock, flags, core, db, locals, history, faults, budget>>

TickChecksManual(t) ==
    /\ \/ manual /\ checkTime' = 0 /\ Goto(t, "manual", "idle")
       \/ ~manual /\ Goto(t, "manual", "load") /\ UNCHANGED checkTime
    /\ UNCHANGED <<lock, flags, core, db, locals, history, faults, budget>>

TickLoads(t) ==
    /\ Goto(t, "load", "store")
    /\ cnt' = [cnt EXCEPT ![t] = checkTime]
    /\ UNCHANGED <<lock, flags, core, db, checkTime, cfg, ask, history, faults, budget>>

\* checkTime++ is stored; two in a row start RestartXray(false).
TickStores(t) ==
    /\ checkTime' = IF cnt[t] < MaxCheck THEN cnt[t] + 1 ELSE MaxCheck
    /\ Goto(t, "store", IF checkTime' > 1 THEN "lock" ELSE "idle")
    /\ cnt' = [cnt EXCEPT ![t] = 0]
    /\ UNCHANGED <<lock, flags, core, db, cfg, ask, history, faults, budget>>

TickResets(t) ==
    /\ Goto(t, "done", "idle")
    /\ checkTime' = 0
    /\ UNCHANGED <<lock, flags, core, db, locals, history, faults, budget>>

CheckXrayRunning(t) == \/ TickLooks(t) \/ TickChecksManual(t)
                       \/ TickLoads(t) \/ TickStores(t)
                       \/ RestartXray(t)
                       \/ TickResets(t)

-----------------------------------------------------------------------------
(* The restart job.                                                        *)

\* IsNeedRestartAndSetFalse, then RestartXray(false).
IsNeedRestartAndSetFalse(j) ==
    /\ need
    /\ need' = FALSE
    /\ Goto(j, "idle", "lock")
    /\ UNCHANGED <<lock, manual, core, db, checkTime, locals, history, faults, budget>>

\* Mutant: the flag is cleared (again) when the restart is over.
JobDoneClears(j) ==
    /\ Goto(j, "done", "idle")
    /\ need' = FALSE
    /\ UNCHANGED <<lock, manual, core, db, checkTime, locals, history, faults, budget>>

JobDone(j) ==
    /\ Goto(j, "done", "idle")
    /\ UNCHANGED <<lock, flags, core, db, checkTime, locals, history, faults, budget>>

RestartJob(j) == IsNeedRestartAndSetFalse(j) \/ RestartXray(j) \/ JobDone(j)

-----------------------------------------------------------------------------
(* UpdateInbound and its controller.                                       *)

\* The transaction is open; the core of p is told first: DelInbound of the old
\* inbound, whose error is ignored, then AddInbound if the new one is enabled,
\* whose failure asks for a restart.
EditByAPI(e) ==
    /\ edits < MaxEdits
    /\ edits' = edits + 1
    /\ \E c \in Configs :
        /\ Remember(e, c)
        /\ \/ /\ running
              /\ live' = c
              /\ UNCHANGED <<ask, faults>>
           \/ /\ \/ ~running /\ UNCHANGED <<live, faults>>
                 \/ running /\ Fault("api") /\ live' \in {live, "off"}
              /\ ask' = [ask EXCEPT ![e] = c # "off"]
    /\ Goto(e, "idle", "save")
    /\ UNCHANGED <<lock, flags, running, startCfg, orphans, db, checkTime, cnt, history,
                   orders>>

\* tx.Save and the deferred Commit.
EditSaved(e) ==
    /\ Goto(e, "save", "flag")
    /\ db' = cfg[e]
    /\ Forget(e)
    /\ UNCHANGED <<lock, flags, core, checkTime, cnt, ask, history, faults, budget>>

\* A failed Save: the controller reports the error and returns before
\* SetToNeedRestart.
EditFails(e) ==
    /\ Goto(e, "save", "idle")
    /\ Forget(e)
    /\ ask' = [ask EXCEPT ![e] = FALSE]
    /\ Fault("save")
    /\ UNCHANGED <<lock, flags, core, db, checkTime, cnt, history, budget>>

\* needRestart: SetToNeedRestart.
EditFlags(e) ==
    /\ Goto(e, "flag", "idle")
    /\ need' = (need \/ ask[e])
    /\ owed' = IF ask[e] THEN "asked" ELSE owed
    /\ ask' = [ask EXCEPT ![e] = FALSE]
    /\ UNCHANGED <<lock, manual, core, db, checkTime, cfg, cnt, intent, faults, budget>>

UpdateInbound(e) == EditByAPI(e) \/ EditSaved(e) \/ EditFails(e) \/ EditFlags(e)

-----------------------------------------------------------------------------
\* The core exits by itself.
Crash ==
    /\ running
    /\ Fault("crash")
    /\ running' = FALSE
    /\ UNCHANGED <<lock, flags, startCfg, live, orphans, db, checkTime, pc, locals,
                   history, budget>>

Next == \/ \E a \in Admins : Admin(a)
        \/ \E t \in Ticks : CheckXrayRunning(t)
        \/ \E j \in Jobs : RestartJob(j)
        \/ \E e \in Editors : UpdateInbound(e)
        \/ Crash

Spec == Init /\ [][Next]_vars

\* Goroutines that have been started run on, and cron starts ticks for ever.
\* A sync.Mutex starves no waiter.  Nobody has to give orders or to edit.
Fairness ==
    /\ \A t \in Ticks : WF_vars(CheckXrayRunning(t))
    /\ \A j \in Jobs : WF_vars(RestartJob(j))
    /\ \A a \in Admins : WF_vars(StopXrayStops(a) \/ RestartXray(a) \/ OrderDone(a))
    /\ \A e \in Editors : WF_vars(EditSaved(e) \/ EditFails(e) \/ EditFlags(e))
    /\ \A c \in Restarters : SF_vars(LockRestart(c))
    /\ \A a \in Admins : SF_vars(StopXrayMarks(a))

FairSpec == Spec /\ Fairness

-----------------------------------------------------------------------------
(* Properties.                                                             *)

\* No restart leaves a second core behind, however restarts, stops and crashes
\* interleave (process.go:354-356, "let a restart bind ports the previous core
\* still held").  The exception is a core that survived SIGKILL.
OneCore == orphans > 0 => "wedge" \in faults

\* The lock is what keeps the cores apart: its holder is the one call between Lock
\* and Unlock (xray.go:193-194, 226-227), ...
Critical == {"read", "decide", "stop", "start", "stop_core"}
LockAccounted == \A c \in Restarters : lock = c <=> pc[c] \in Critical

\* ... a core is started beside a running one only once, after the failed stop, ...
StartsOnDead ==
    \A c \in Restarters : pc[c] = "start" /\ running => "wedge" \in faults /\ orphans = 0

\* ... and what is started, or stored, is a configuration that has been read.
ConfigRead ==
    /\ \A c \in Restarters : pc[c] \in {"decide", "stop", "start"} => cfg[c] \in Configs
    /\ \A e \in Editors : pc[e] = "save" => cfg[e] \in Configs

\* The inductive strengthening of OneCore: RestartXray and StopXray hold the lock
\* over their whole look at p, so a restart that finds the core down starts it down.
CoreInv == LockAccounted /\ StartsOnDead /\ ConfigRead

\* A restart request is never lost to a restart in progress: until a restart has
\* read the database after the request, the flag is up or a restart job that
\* took it down is on its way to reading (xray.go:236-244, web.go:336-341).
RequestSurvives ==
    (owed = "asked" /\ "config" \notin faults)
        => need \/ \E j \in Jobs : pc[j] \in {"lock", "read"}

\* A core that is down without an order to stop comes back: two ticks of the
\* check restart it (check_xray_running_job.go:21-36).
CrashRecovered == (~running /\ intent = "run") ~> (running \/ intent = "stop")

\* Every order of an administrator returns: nobody keeps the lock.
OrdersReturn == \A a \in Admins : (pc[a] # "idle") ~> (pc[a] = "idle")

\* The code does not keep the three formulas below: see the known divergences in the
\* README.  "SetToNeedRestart marks that Xray needs to be restarted" (xray.go:236): a
\* restart that has taken up a request starts a core.
RestartHonoured ==
    owed = "read" => \E c \in Restarters : pc[c] \in {"decide", "stop", "start"}

\* UpdateInbound "syncs with the running Xray instance" (inbound.go:459): when no
\* call is in progress and no restart is asked for, the core serves what is stored.
CoreServesDatabase ==
    (running /\ ~need /\ \A c \in Procs : pc[c] = "idle") => live = db

\* The crash check restarts a core that "wasn't manually stopped" (xray.go:246).
CheckRespectsStop == [][\A t \in Ticks : LockRestart(t) => ~manual]_vars

=============================================================================
