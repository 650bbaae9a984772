--------------------------- MODULE RestoreBarrier ---------------------------
(***************************************************************************)
(* The admission barrier that keeps a database restore apart from every    *)
(* other writer of the panel: database/restore_barrier.go, the HTTP and    *)
(* cron wrappers of web/middleware/restore_admission.go, and the locks a   *)
(* restore, a backup and a core operation take while they are inside.      *)
(*                                                                         *)
(* One step is one atomic operation of the Go code: a load or a store of   *)
(* an atomic.Bool, a (Try)Lock or an Unlock.  The work done between two of *)
(* them has no effect on the barrier and is not represented.               *)
(***************************************************************************)
EXTENDS Naturals, FiniteSets

CONSTANTS
    Writers,    \* HTTP writes, cron ticks and Telegram handlers
    Exporters,  \* GET requests that download a backup; they need no admission
    Loops,      \* goroutines that run a reload (the program has one)
    Importers,  \* POST .../server/importDB requests
    NoOne

Procs == Writers \cup Exporters \cup Loops \cup Importers

ASSUME RolesAssumption ==
    /\ NoOne \notin Procs
    /\ Writers \cap (Exporters \cup Loops \cup Importers) = {}
    /\ Exporters \cap (Loops \cup Importers) = {}
    /\ Loops \cap Importers = {}

Mutexes == {"begin", "portableRestoreMu", "portableSnapshotMu", "lock"}

VARIABLES
    active,     \* restoreAdmission.active
    lifecycle,  \* restoreAdmission.lifecycle
    owner,      \* owner[m]: the process that holds mutex m, or NoOne
    readers,    \* the processes that hold restoreAdmission.mu for reading
    writer,     \* the process that holds it, or has announced itself, for writing
    pc

vars == <<active, lifecycle, owner, readers, writer, pc>>

-----------------------------------------------------------------------------
(* Where a process of each role can be.                                    *)

TryMutationPCs == {"tm_check", "tm_rlock", "tm_recheck", "tm_undo"}

WriterWork == {"admitted", "snap_want", "snap_held", "core_want", "core_held",
               "leaving"}
WriterPCs == {"idle"} \cup TryMutationPCs \cup WriterWork

ExporterPCs == {"idle", "get_want", "get_held"}

Reloading == {"stop_want", "stop_held", "restart_want", "restart_held"}
LoopPCs == {"idle", "lc_fail", "lc_mark", "lc_unmark", "lc_runlock",
            "lc_unbegin"} \cup TryMutationPCs \cup Reloading

\* The live database may be closed, moved and replaced only here.
Committing == {"im_listen", "im_snap", "im_core", "im_commit", "im_unsnap",
               "im_end"}
\* From active.Store(true) to the Unlock of restoreAdmission.mu.
Maintenance == {"im_lock", "im_drain", "im_wunlock"} \cup Committing
ImporterPCs == {"idle", "im_life", "im_serial", "im_prepare", "im_begin",
                "im_active", "im_unbegin", "im_unserial"} \cup Maintenance

RolePCs(p) == IF p \in Writers THEN WriterPCs
              ELSE IF p \in Exporters THEN ExporterPCs
              ELSE IF p \in Loops THEN LoopPCs
              ELSE ImporterPCs

TypeOK ==
    /\ active \in BOOLEAN
    /\ lifecycle \in BOOLEAN
    /\ owner \in [Mutexes -> Procs \cup {NoOne}]
    /\ readers \in SUBSET Procs
    /\ writer \in Procs \cup {NoOne}
    /\ pc \in [Procs -> WriterPCs \cup ExporterPCs \cup LoopPCs \cup ImporterPCs]
    /\ \A p \in Procs : pc[p] \in RolePCs(p)

Init ==
    /\ active = FALSE
    /\ lifecycle = FALSE
    /\ owner = [m \in Mutexes |-> NoOne]
    /\ readers = {}
    /\ writer = NoOne
    /\ pc = [p \in Procs |-> "idle"]

-----------------------------------------------------------------------------
Goto(p, from, to) == /\ pc[p] = from
                     /\ pc' = [pc EXCEPT ![p] = to]

\* sync.Mutex: Lock waits until the mutex is free.
Lock(p, m) == /\ owner[m] = NoOne
              /\ owner' = [owner EXCEPT ![m] = p]
Unlock(p, m) == owner' = [owner EXCEPT ![m] = NoOne]

\* TryLock at label `from': never waits, goes to one of two labels.
TryLock(p, m, from, got, refused) ==
    \/ Lock(p, m) /\ Goto(p, from, got)
    \/ owner[m] # NoOne /\ UNCHANGED owner /\ Goto(p, from, refused)

flags == <<active, lifecycle>>
rwmutex == <<readers, writer>>

-----------------------------------------------------------------------------
(* TryMutation, called by a writer and, within TryLifecycle, by the loop.  *)

\* Mutant: every refusal runs the clean-up of TryLifecycle.
RefusedAsLifecycle(p) == "lc_fail"
Refused(p) == IF p \in Loops THEN "lc_fail" ELSE "idle"
Admitted(p) == IF p \in Loops THEN "lc_mark" ELSE "admitted"

\* Mutant: a reload refuses mutations too.
TryMutationCheckLifecycle(p) ==
    /\ Goto(p, "tm_check", IF active \/ lifecycle THEN Refused(p) ELSE "tm_rlock")
    /\ UNCHANGED <<flags, owner, rwmutex>>

TryMutationCheck(p) ==
    /\ Goto(p, "tm_check", IF active THEN Refused(p) ELSE "tm_rlock")
    /\ UNCHANGED <<flags, owner, rwmutex>>

\* TryRLock fails as soon as a writer has announced itself.
TryMutationRLock(p) ==
    /\ \/ /\ writer = NoOne
          /\ readers' = readers \cup {p}
          /\ Goto(p, "tm_rlock", "tm_recheck")
       \/ /\ writer # NoOne
          /\ Goto(p, "tm_rlock", Refused(p))
          /\ UNCHANGED readers
    /\ UNCHANGED <<flags, owner, writer>>

TryMutationRecheck(p) ==
    /\ Goto(p, "tm_recheck", IF active THEN "tm_undo" ELSE Admitted(p))
    /\ UNCHANGED <<flags, owner, rwmutex>>

\* Mutant: the refused mutation keeps its read lock.
TryMutationUndoLeak(p) ==
    /\ Goto(p, "tm_undo", Refused(p))
    /\ UNCHANGED <<flags, owner, rwmutex>>

TryMutationUndo(p) ==
    /\ Goto(p, "tm_undo", Refused(p))
    /\ readers' = readers \ {p}
    /\ UNCHANGED <<flags, owner, writer>>

TryMutation(p) == \/ TryMutationCheck(p)
                  \/ TryMutationRLock(p)
                  \/ TryMutationRecheck(p)
                  \/ TryMutationUndo(p)

-----------------------------------------------------------------------------
(* Writers.                                                                *)

\* A write request: the middleware's own Restoring() comes first.  Its 503
\* answer changes nothing.
RestoreAdmission(w) ==
    /\ ~active
    /\ Goto(w, "idle", "tm_check")
    /\ UNCHANGED <<flags, owner, rwmutex>>

\* A cron tick, or a Telegram update, goes straight to TryMutation.
RestoreJobAdmission(w) ==
    /\ Goto(w, "idle", "tm_check")
    /\ UNCHANGED <<flags, owner, rwmutex>>

\* Mutant: backups share the restore serialiser.
BackupMutexRestore == "portableRestoreMu"

\* The mutex of GetBackup and atomicRawBackup.
BackupMutex == "portableSnapshotMu"

\* Mutant: the handler leaves its core operation to a goroutine that outlives it.
WriterBodyDetached(w) ==
    /\ \/ Goto(w, "admitted", "snap_want") /\ UNCHANGED <<owner, readers>>
       \/ Goto(w, "snap_want", "snap_held") /\ Lock(w, BackupMutex) /\ UNCHANGED readers
       \/ /\ Goto(w, "admitted", "core_want")
          /\ readers' = readers \ {w}
          /\ UNCHANGED owner
       \/ Goto(w, "core_want", "core_held") /\ Lock(w, "lock") /\ UNCHANGED readers
    /\ UNCHANGED <<flags, writer>>

\* The admitted body: a backup (GetBackup), an operation on the core (StopXray
\* or RestartXray), or work that takes neither lock.
WriterBody(w) ==
    /\ \/ Goto(w, "admitted", "snap_want") /\ UNCHANGED owner
       \/ Goto(w, "snap_want", "snap_held") /\ Lock(w, BackupMutex)
       \/ Goto(w, "admitted", "core_want") /\ UNCHANGED owner
       \/ Goto(w, "core_want", "core_held") /\ Lock(w, "lock")
    /\ UNCHANGED <<flags, rwmutex>>

\* The body gives its lock back; the deferred release is the next step.
WriterUnlock(w) ==
    /\ \/ Goto(w, "snap_held", "leaving") /\ Unlock(w, BackupMutex)
       \/ Goto(w, "core_held", "leaving") /\ Unlock(w, "lock")
    /\ UNCHANGED <<flags, rwmutex>>

ReleaseMutation(w) ==
    /\ \E here \in {"admitted", "leaving"} : Goto(w, here, "idle")
    /\ readers' = readers \ {w}
    /\ UNCHANGED <<flags, owner, writer>>

Writer(w) == \/ RestoreAdmission(w)
             \/ RestoreJobAdmission(w)
             \/ TryMutation(w)
             \/ WriterBody(w)
             \/ WriterUnlock(w)
             \/ ReleaseMutation(w)

-----------------------------------------------------------------------------
(* A backup download is a GET: past the middleware's Restoring() it runs   *)
(* without admission.                                                      *)

ExportAdmission(e) ==
    /\ ~active
    /\ Goto(e, "idle", "get_want")
    /\ UNCHANGED <<flags, owner, rwmutex>>

ExportBackup(e) ==
    /\ \/ Goto(e, "get_want", "get_held") /\ Lock(e, BackupMutex)
       \/ Goto(e, "get_held", "idle") /\ Unlock(e, BackupMutex)
    /\ UNCHANGED <<flags, rwmutex>>

Exporter(e) == ExportAdmission(e) \/ ExportBackup(e)

-----------------------------------------------------------------------------
(* The signal loop: TryLifecycle, the reload, and the release.             *)

TryLifecycle(l) ==
    /\ TryLock(l, "begin", "idle", "tm_check", "idle")
    /\ UNCHANGED <<flags, rwmutex>>

\* SIGHUP stops the core and starts it again, SIGUSR1 only restarts it.
LifecycleMark(l) ==
    /\ lifecycle' = TRUE
    /\ \E first \in {"stop_want", "restart_want"} : Goto(l, "lc_mark", first)
    /\ UNCHANGED <<active, owner, rwmutex>>

\* A reload after a restore may leave an intentionally stopped core stopped.
Reload(l) ==
    /\ \/ Goto(l, "stop_want", "stop_held") /\ Lock(l, "lock")
       \/ /\ \E next \in {"restart_want", "lc_unmark"} : Goto(l, "stop_held", next)
          /\ Unlock(l, "lock")
       \/ Goto(l, "restart_want", "restart_held") /\ Lock(l, "lock")
       \/ Goto(l, "restart_held", "lc_unmark") /\ Unlock(l, "lock")
    /\ UNCHANGED <<flags, rwmutex>>

LifecycleUnmark(l) ==
    /\ Goto(l, "lc_unmark", "lc_runlock")
    /\ lifecycle' = FALSE
    /\ UNCHANGED <<active, owner, rwmutex>>

LifecycleRUnlock(l) ==
    /\ Goto(l, "lc_runlock", "lc_unbegin")
    /\ readers' = readers \ {l}
    /\ UNCHANGED <<flags, owner, writer>>

\* begin.Unlock ends the release, and a TryLifecycle that tryMutation refused.
LifecycleUnbegin(l) ==
    /\ \E from \in {"lc_unbegin", "lc_fail"} : Goto(l, from, "idle")
    /\ Unlock(l, "begin")
    /\ UNCHANGED <<flags, rwmutex>>

\* The steps of TryLifecycle and of its release that take and give back begin.
LoopAdmission(l) == \/ TryLifecycle(l)
                    \/ TryMutation(l)
                    \/ LifecycleUnbegin(l)
                    \/ LifecycleMark(l)

Loop(l) == \/ LoopAdmission(l)
           \/ Reload(l)
           \/ LifecycleUnmark(l)
           \/ LifecycleRUnlock(l)

-----------------------------------------------------------------------------
(* The import request.                                                     *)

\* The middleware reads active, then lifecycle; a 503 changes nothing.
ImportAdmission(i) ==
    /\ \/ ~active /\ Goto(i, "idle", "im_life")
       \/ Goto(i, "im_life", IF lifecycle THEN "idle" ELSE "im_serial")
    /\ UNCHANGED <<flags, owner, rwmutex>>

\* importPortableBackup serialises imports for their whole duration.
ImportSerialize(i) ==
    /\ Goto(i, "im_serial", "im_prepare")
    /\ Lock(i, "portableRestoreMu")
    /\ UNCHANGED <<flags, rwmutex>>

\* preparePanelRestore: an archive that does not validate ends the import.
ImportPrepare(i) ==
    /\ \E next \in {"im_begin", "im_unserial"} : Goto(i, "im_prepare", next)
    /\ UNCHANGED <<flags, owner, rwmutex>>

TryBeginRestore(i) ==
    /\ TryLock(i, "begin", "im_begin", "im_active", "im_unserial")
    /\ UNCHANGED <<flags, rwmutex>>

BeginRestoreActive(i) ==
    /\ Goto(i, "im_active", "im_lock")
    /\ active' = TRUE
    /\ UNCHANGED <<lifecycle, owner, rwmutex>>

\* RWMutex.Lock announces the writer, which stops new readers, ...
BeginRestoreAnnounce(i) ==
    /\ Goto(i, "im_lock", "im_drain")
    /\ writer = NoOne
    /\ writer' = i
    /\ UNCHANGED <<flags, owner, readers>>

\* Mutant: the restore refuses new mutations but does not wait for old ones.
BeginRestoreUndrained(i) ==
    /\ Goto(i, "im_drain", "im_listen")
    /\ UNCHANGED <<flags, owner, rwmutex>>

\* ... and returns when the readers it found have left.
BeginRestoreDrain(i) ==
    /\ Goto(i, "im_drain", "im_listen")
    /\ readers = {}
    /\ UNCHANGED <<flags, owner, rwmutex>>

\* Mutant: the early return on a listener conflict skips endMaintenance.
ImportListenersNoDefer(i) ==
    /\ \E next \in {"im_snap", "im_unserial"} : Goto(i, "im_listen", next)
    /\ UNCHANGED <<flags, owner, rwmutex>>

\* validateBackupListeners: a listener conflict ends the maintenance.
ImportListeners(i) ==
    /\ \E next \in {"im_snap", "im_end"} : Goto(i, "im_listen", next)
    /\ UNCHANGED <<flags, owner, rwmutex>>

\* The commit runs under both locks; deferred calls give them back in
\* reverse order.
ImportCommit(i) ==
    /\ \/ Goto(i, "im_snap", "im_core") /\ Lock(i, "portableSnapshotMu")
       \/ Goto(i, "im_core", "im_commit") /\ Lock(i, "lock")
       \/ Goto(i, "im_commit", "im_unsnap") /\ Unlock(i, "lock")
       \/ Goto(i, "im_unsnap", "im_end") /\ Unlock(i, "portableSnapshotMu")
    /\ UNCHANGED <<flags, rwmutex>>

EndRestoreActive(i) ==
    /\ Goto(i, "im_end", "im_wunlock")
    /\ active' = FALSE
    /\ UNCHANGED <<lifecycle, owner, rwmutex>>

EndRestoreUnlock(i) ==
    /\ Goto(i, "im_wunlock", "im_unbegin")
    /\ writer' = NoOne
    /\ UNCHANGED <<flags, owner, readers>>

ImportEnd(i) ==
    /\ \/ Goto(i, "im_unbegin", "im_unserial") /\ Unlock(i, "begin")
       \/ Goto(i, "im_unserial", "idle") /\ Unlock(i, "portableRestoreMu")
    /\ UNCHANGED <<flags, rwmutex>>

Importer(i) == \/ ImportAdmission(i)
               \/ ImportSerialize(i)
               \/ ImportPrepare(i)
               \/ TryBeginRestore(i)
               \/ BeginRestoreActive(i)
               \/ BeginRestoreAnnounce(i)
               \/ BeginRestoreDrain(i)
               \/ ImportListeners(i)
               \/ ImportCommit(i)
               \/ EndRestoreActive(i)
               \/ EndRestoreUnlock(i)
               \/ ImportEnd(i)

-----------------------------------------------------------------------------
Next == \/ \E w \in Writers : Writer(w)
        \/ \E e \in Exporters : Exporter(e)
        \/ \E l \in Loops : Loop(l)
        \/ \E i \in Importers : Importer(i)

Spec == Init /\ [][Next]_vars

\* Everything a process does once its request has arrived.
WriterStep(w) == TryMutation(w) \/ WriterBody(w) \/ WriterUnlock(w) \/ ReleaseMutation(w)
ExporterStep(e) == ExportBackup(e)
LoopStep(l) == pc[l] # "idle" /\ Loop(l)
ImporterStep(i) == pc[i] # "idle" /\ Importer(i)

\* A handler that can run does run, and a goroutine that waits for a mutex gets
\* it in the end: sync.Mutex hands over to its longest waiter when that one has
\* waited for 1ms.  No request has to arrive.
Fairness == /\ \A w \in Writers : SF_vars(WriterStep(w))
            /\ \A e \in Exporters : SF_vars(ExporterStep(e))
            /\ \A l \in Loops : SF_vars(LoopStep(l))
            /\ \A i \in Importers : SF_vars(ImporterStep(i))

FairSpec == Spec /\ Fairness

-----------------------------------------------------------------------------
(* Properties.                                                             *)

Mutating(p) == \/ p \in Writers /\ pc[p] \in WriterWork
               \/ p \in Loops /\ pc[p] \in Reloading
Restoring(p) == p \in Importers /\ pc[p] \in Committing

\* While a restore may close and replace the live database
\* (portable_backup.go:351-370), no admitted write, cron job, Telegram handler
\* or reload is anywhere in its body, and no second restore is in progress.
RestoreIsExclusive ==
    \A i \in Importers : Restoring(i) =>
        \A p \in Procs \ {i} : ~Mutating(p) /\ ~Restoring(p)

\* Who must hold restoreAdmission.mu for reading, by its place in the code.
HoldsRead(p) ==
    \/ p \in Writers \cup Loops /\ pc[p] \in {"tm_recheck", "tm_undo"}
    \/ p \in Writers /\ pc[p] \in WriterWork
    \/ p \in Loops /\ pc[p] \in {"lc_mark", "lc_unmark", "lc_runlock"} \cup Reloading

\* Who must hold restoreAdmission.begin.
HoldsBegin(p) ==
    \/ p \in Loops /\ pc[p] # "idle"
    \/ p \in Importers /\ pc[p] \in {"im_active", "im_unbegin"} \cup Maintenance

ReadersAccounted == \A p \in Procs : p \in readers <=> HoldsRead(p)
BeginAccounted == \A p \in Procs : owner["begin"] = p <=> HoldsBegin(p)
WriterAccounted ==
    /\ \A i \in Importers : writer = i <=> pc[i] \in Maintenance \ {"im_lock"}
    /\ writer # NoOne => writer \in Importers
ActiveAccounted ==
    active <=> \E i \in Importers : pc[i] \in Maintenance \ {"im_wunlock"}
DrainedBeforeCommit ==
    \A i \in Importers : pc[i] \in Committing \cup {"im_wunlock"} => readers = {}

UndoMeansActive == \A p \in Procs : pc[p] = "tm_undo" => active

\* Every lock and flag of the barrier agrees with where its users are: none is
\* leaked on an early return, none is given back twice, and the read locks are
\* all gone when a restore starts to commit (restore_barrier.go:24-77).
BarrierInv == /\ ReadersAccounted
              /\ BeginAccounted
              /\ WriterAccounted
              /\ ActiveAccounted
              /\ DrainedBeforeCommit
              /\ UndoMeansActive

\* A write is turned away only because of a restore that is in its maintenance
\* interval at that very moment: neither a reload, nor a backup, nor a restore
\* that is still validating its archive (restore_barrier.go:15-16: "ordinary
\* traffic continues") refuses one.
RefusalMeansMaintenance ==
    [][\A w \in Writers :
          (pc[w] \in TryMutationPCs /\ pc'[w] = "idle")
              => \E i \in Importers : pc[i] \in Maintenance]_vars

\* Every request that has been let in comes to its end: draining ends although
\* writes keep arriving, and no two of restore, backup, core operation and
\* reload wait for each other's locks (portable_backup.go:25-26).
EveryRequestCompletes ==
    \A p \in Procs : (pc[p] # "idle") ~> (pc[p] = "idle")

\* The maintenance flag that turns all traffic away is always taken back.
MaintenanceEnds == active ~> ~active

-----------------------------------------------------------------------------
(* What the barrier promises, as an abstract specification.                *)

inside == {p \in Procs : Mutating(p) \/ Restoring(p)}

Adm == INSTANCE Admission WITH Shared <- Writers

\* The four atomic variables and the order in which they are read and written
\* implement the shared/exclusive admission of module Admission.
ImplementsAdmission == Adm!Spec

=============================================================================
