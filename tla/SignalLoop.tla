----------------------------- MODULE SignalLoop -----------------------------
(***************************************************************************)
(* The signal loop of main.go with its two retry gates                     *)
(* (restore_signal_gate.go), composed with imports that hold the restore   *)
(* barrier, the reload an import schedules for itself, and the effect of   *)
(* all of them on the core.                                                *)
(*                                                                         *)
(* The barrier appears as RestoreBarrier shows it to behave (its           *)
(* specification Admission): TryLifecycle fails exactly while an import    *)
(* holds it, and an import fails to begin while a reload holds it.         *)
(***************************************************************************)
EXTENDS Naturals, Sequences

CONSTANTS
    External,    \* the signals sent from outside, a subset of {"HUP", "USR1", "TERM"}
    MaxSends,    \* bound: how many of them
    MaxImports,  \* bound: imports that reach TryBeginRestore
    MaxAdmin     \* bound: stop and restart requests of an administrator

ASSUME BoundsAssumption ==
    /\ External \subseteq {"HUP", "USR1", "TERM"}
    /\ MaxSends \in Nat /\ MaxImports \in Nat /\ MaxAdmin \in Nat

Kinds == {"HUP", "USR1"}
SigBuffer == 1  \* make(chan os.Signal, 1)

VARIABLES
    sigCh,         \* the channel given to signal.Notify
    gate,          \* gate[kind]: no retry pending, timer running, timer fired
    loop,          \* where the loop is
    importer,      \* the import that holds, or has just held, the barrier
    delayed,       \* goroutines of RestartPanel that will send SIGHUP
    running,       \* the core runs
    manual,        \* isManuallyStopped
    stoppedReload, \* restoreStoppedReload
    intent,        \* history: what the administrator asked of the core last
    sent,          \* history: the signals that have been sent from outside
    sends, imports, admins

vars == <<sigCh, gate, loop, importer, delayed, running, manual, stoppedReload,
          intent, sent, sends, imports, admins>>
core == <<running, manual, stoppedReload, intent>>
budget == <<sends, imports, admins>>

TypeOK ==
    /\ sigCh \in {<<>>} \cup {<<s>> : s \in Kinds \cup {"TERM"}}
    /\ gate \in [Kinds -> {"none", "armed", "fired"}]
    /\ loop \in {"select", "stop", "start", "core", "term", "exit", "exited"}
    /\ importer \in {"none", "drain", "commit", "schedule"}
    /\ delayed \in 0 .. MaxImports
    /\ running \in BOOLEAN /\ manual \in BOOLEAN /\ stoppedReload \in BOOLEAN
    /\ intent \in {"running", "stopped"}
    /\ sent \subseteq External
    /\ sends \in 0 .. MaxSends
    /\ imports \in 0 .. MaxImports
    /\ admins \in 0 .. MaxAdmin

\* The servers and the core have been started.
Init ==
    /\ sigCh = <<>>
    /\ gate = [kind \in Kinds |-> "none"]
    /\ loop = "select"
    /\ importer = "none"
    /\ delayed = 0
    /\ running = TRUE /\ manual = FALSE /\ stoppedReload = FALSE
    /\ intent = "running"
    /\ sent = {}
    /\ sends = 0 /\ imports = 0 /\ admins = 0

-----------------------------------------------------------------------------
(* Signals.                                                                *)

\* The runtime's signal delivery never blocks: what does not fit is lost.
Delivered(sig) == IF Len(sigCh) < SigBuffer THEN Append(sigCh, sig) ELSE sigCh

Send(sig) ==
    /\ loop # "exited"
    /\ sends < MaxSends
    /\ sigCh' = Delivered(sig)
    /\ sends' = sends + 1
    /\ sent' = sent \cup {sig}
    /\ UNCHANGED <<gate, loop, importer, delayed, core, imports, admins>>

\* RestartPanel's goroutine wakes up after its delay.
SendDelayed ==
    /\ loop # "exited"
    /\ delayed > 0
    /\ sigCh' = Delivered("HUP")
    /\ delayed' = delayed - 1
    /\ UNCHANGED <<gate, loop, importer, core, sent, budget>>

-----------------------------------------------------------------------------
(* The loop.                                                               *)

TryLifecycle == importer \notin {"drain", "commit"}

Cleared(kind) == [gate EXCEPT ![kind] = "none"]

\* Mutant: a refused reload is dropped.
RunOnce(kind, g, first) ==
    \/ /\ TryLifecycle
       /\ gate' = [g EXCEPT ![kind] = "none"]
       /\ loop' = first
    \/ /\ ~TryLifecycle
       /\ gate' = g
       /\ UNCHANGED loop

\* restoreSignalGate.Run: refused requests of a kind share one timer.
Run(kind, g, first) ==
    \/ /\ TryLifecycle
       /\ gate' = [g EXCEPT ![kind] = "none"]
       /\ loop' = first
    \/ /\ ~TryLifecycle
       /\ gate' = IF g[kind] = "none" THEN [g EXCEPT ![kind] = "armed"] ELSE g
       /\ UNCHANGED loop

\* Mutant: a shutdown needs admission too, and is dropped without it.
HandleGated(sig, g) ==
    \/ sig = "HUP" /\ Run("HUP", g, "stop")
    \/ sig = "USR1" /\ Run("USR1", g, "core")
    \/ sig = "TERM" /\ loop' = (IF TryLifecycle THEN "term" ELSE loop) /\ gate' = g

Handle(sig, g) ==
    \/ sig = "HUP" /\ Run("HUP", g, "stop")
    \/ sig = "USR1" /\ Run("USR1", g, "core")
    \/ sig = "TERM" /\ loop' = "term" /\ gate' = g

ReceiveSignal ==
    /\ loop = "select"
    /\ sigCh # <<>>
    /\ sigCh' = Tail(sigCh)
    /\ Handle(Head(sigCh), gate)
    /\ UNCHANGED <<importer, delayed, core, sent, budget>>

TimerFires(kind) ==
    /\ gate[kind] = "armed"
    /\ gate' = [gate EXCEPT ![kind] = "fired"]
    /\ UNCHANGED <<sigCh, loop, importer, delayed, core, sent, budget>>

ReceiveReady(kind) ==
    /\ loop = "select"
    /\ gate[kind] = "fired"
    /\ Handle(kind, Cleared(kind))
    /\ UNCHANGED <<sigCh, importer, delayed, core, sent, budget>>

\* server.Stop: StopXray.
ReloadStop ==
    /\ loop = "stop"
    /\ running' = FALSE
    /\ manual' = TRUE
    /\ loop' = "start"
    /\ UNCHANGED <<sigCh, gate, importer, delayed, stoppedReload, intent, sent, budget>>

\* startTask of the new server: ConsumeRestoreStoppedReload, or RestartXray.
\* A server that cannot start ends the process (log.Fatalf).
ReloadStart ==
    /\ loop = "start"
    /\ stoppedReload' = FALSE
    /\ IF stoppedReload
       THEN UNCHANGED <<running, manual>>
       ELSE running' = TRUE /\ manual' = FALSE
    /\ loop' \in {"select", "exited"}
    /\ UNCHANGED <<sigCh, gate, importer, delayed, intent, sent, budget>>

\* SIGUSR1: RestartXray(true).
ReloadCore ==
    /\ loop = "core"
    /\ running' = TRUE
    /\ manual' = FALSE
    /\ loop' = "select"
    /\ UNCHANGED <<sigCh, gate, importer, delayed, stoppedReload, intent, sent, budget>>

\* SIGTERM: StopXray waits for the core lock, which a committing import holds.
Shutdown ==
    /\ loop = "term"
    /\ importer # "commit"
    /\ running' = FALSE
    /\ manual' = TRUE
    /\ loop' = "exit"
    /\ UNCHANGED <<sigCh, gate, importer, delayed, stoppedReload, intent, sent, budget>>

\* The rest of Stop does not wait for requests: its context is cancelled.
Exit ==
    /\ loop = "exit"
    /\ loop' = "exited"
    /\ UNCHANGED <<sigCh, gate, importer, delayed, core, sent, budget>>

-----------------------------------------------------------------------------
(* Imports.                                                                *)

HoldsLifecycle == loop \in {"stop", "start", "core"}

\* Mutant: an import does not look for a reload.
ImportBeginUnchecked ==
    /\ loop # "exited"
    /\ importer = "none"
    /\ imports < MaxImports
    /\ importer' = "drain"
    /\ imports' = imports + 1
    /\ UNCHANGED <<sigCh, gate, loop, delayed, core, sent, sends, admins>>

ImportBegin ==
    /\ loop # "exited"
    /\ importer = "none"
    /\ imports < MaxImports
    /\ ~HoldsLifecycle
    /\ importer' = "drain"
    /\ imports' = imports + 1
    /\ UNCHANGED <<sigCh, gate, loop, delayed, core, sent, sends, admins>>

\* All admitted mutations have left and the core lock is taken, or the import
\* gives up before that.
ImportCommit ==
    /\ loop # "exited"
    /\ importer = "drain"
    /\ importer' \in {"commit", "none"}
    /\ UNCHANGED <<sigCh, gate, loop, delayed, core, sent, budget>>

\* The transaction ends (module PanelRestore): a commit starts the core unless
\* it had been stopped on purpose, a rollback leaves it as it was.
ImportEnd ==
    /\ loop # "exited"
    /\ importer = "commit"
    /\ \/ importer' = "schedule" /\ running' = (running \/ ~manual)
       \/ importer' = "none" /\ UNCHANGED running
    /\ UNCHANGED <<sigCh, gate, loop, delayed, manual, stoppedReload, intent, sent, budget>>

\* Mutant: a stopped core needs no reload.
ScheduleRestoreReloadRunning ==
    /\ loop # "exited"
    /\ importer = "schedule"
    /\ stoppedReload' = manual
    /\ delayed' = IF manual THEN delayed ELSE delayed + 1
    /\ importer' = "none"
    /\ UNCHANGED <<sigCh, gate, loop, running, manual, intent, sent, budget>>

\* importDB after the barrier has been given back.
ScheduleRestoreReload ==
    /\ loop # "exited"
    /\ importer = "schedule"
    /\ stoppedReload' = manual
    /\ delayed' = delayed + 1
    /\ importer' = "none"
    /\ UNCHANGED <<sigCh, gate, loop, running, manual, intent, sent, budget>>

-----------------------------------------------------------------------------
(* Requests of an administrator.  They are refused while an import is in   *)
(* its maintenance interval; between the two servers of a reload nobody    *)
(* accepts them.                                                           *)

AdminStopXray ==
    /\ loop \notin {"stop", "start", "exit", "exited"}
    /\ admins < MaxAdmin /\ TryLifecycle
    /\ running' = FALSE /\ manual' = TRUE
    /\ intent' = "stopped"
    /\ admins' = admins + 1
    /\ UNCHANGED <<sigCh, gate, loop, importer, delayed, stoppedReload, sent, sends, imports>>

AdminRestartXray ==
    /\ loop \notin {"stop", "start", "exit", "exited"}
    /\ admins < MaxAdmin /\ TryLifecycle
    /\ running' = TRUE /\ manual' = FALSE
    /\ intent' = "running"
    /\ admins' = admins + 1
    /\ UNCHANGED <<sigCh, gate, loop, importer, delayed, stoppedReload, sent, sends, imports>>

-----------------------------------------------------------------------------
LoopStep == \/ ReceiveSignal
            \/ \E kind \in Kinds : ReceiveReady(kind)
            \/ ReloadStop \/ ReloadStart \/ ReloadCore \/ Shutdown \/ Exit

ImportStep == ImportCommit \/ ImportEnd \/ ScheduleRestoreReload

\* Nothing happens any more in a panel that has exited, or in one nobody calls;
\* anywhere else, being unable to step is a deadlock.
Quiet ==
    /\ \/ loop = "exited"
       \/ /\ loop = "select" /\ sigCh = <<>> /\ importer = "none" /\ delayed = 0
          /\ \A kind \in Kinds : gate[kind] = "none"
    /\ UNCHANGED vars

Next == \/ \E sig \in External : Send(sig)
        \/ SendDelayed
        \/ \E kind \in Kinds : TimerFires(kind)
        \/ LoopStep
        \/ ImportBegin \/ ImportStep
        \/ AdminStopXray \/ AdminRestartXray
        \/ Quiet

Spec == Init /\ [][Next]_vars

\* The loop goroutine runs, and select takes every ready case sooner or later
\* (it chooses at random); timers and sleeps end; imports end.
Fairness ==
    /\ WF_vars(LoopStep)
    /\ SF_vars(ReceiveSignal)
    /\ \A kind \in Kinds : SF_vars(ReceiveReady(kind)) /\ WF_vars(TimerFires(kind))
    /\ WF_vars(SendDelayed)
    /\ WF_vars(ImportStep)

FairSpec == Spec /\ Fairness

-----------------------------------------------------------------------------
(* Properties.                                                             *)

\* A reload of either kind that has been received is carried out, also when imports
\* keep refusing it: the gate's timer brings it back (restore_signal_gate.go:31-45),
\* and neither kind swallows the other.
ReloadCarriedOut ==
    /\ (sigCh = <<"HUP">> \/ gate["HUP"] # "none") ~> loop \in {"stop", "exited"}
    /\ (sigCh = <<"USR1">> \/ gate["USR1"] # "none") ~> loop \in {"core", "exited"}

\* A shutdown signal in the channel ends the panel, whatever reloads are being
\* retried and whatever import is in progress (restore_barrier.go:22-23,
\* restore_signal_gate.go:7-8).
ShutdownCarriedOut == (sigCh = <<"TERM">>) ~> loop = "exited"

\* A committed restore is followed by a panel reload, which activates its HTTP
\* and subscription settings (portable_backup.go:481-482).  Its delayed SIGHUP can
\* be lost only to a SIGUSR1 in the channel: a SIGHUP or a SIGTERM there does as well.
RestoreActivated ==
    importer = "schedule" ~> (loop \in {"stop", "exited"} \/ "USR1" \in sent)

\* No reload overlaps an import that holds the barrier, although the retry
\* timers fire at any time.
ReloadExcludesImport == HoldsLifecycle => importer \notin {"drain", "commit"}

\* Types, and the exclusion of reloads and imports.
LoopInv == TypeOK /\ ReloadExcludesImport

\* "the signal loop must remain responsive to shutdown"
\* (restore_barrier.go:22-23): every SIGTERM sent ends the panel.  The code does not
\* keep this: see the known divergences in the README.
ShutdownRequestHonoured == "TERM" \in sent ~> loop = "exited"

\* The reload that follows a restore works "while preserving an intentionally
\* stopped core" (portable_backup.go:481-482, DIALECT11.md:131): when all is
\* quiet the core is up or down as the administrator asked last.  The code does not
\* keep this: see the known divergences in the README.
RestorePreservesIntent ==
    (/\ loop = "select" /\ importer = "none" /\ delayed = 0
     /\ sigCh = <<>> /\ gate["HUP"] = "none")
        => (running <=> intent = "running")

=============================================================================
