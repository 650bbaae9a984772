---------------------------- MODULE PanelRestore ----------------------------
(***************************************************************************)
(* One portable-backup import: importPortableBackup and its hooks          *)
(* (web/service/portable_backup.go) around commitPanelRestore              *)
(* (web/service/portable_backup_transaction.go), which replaces the live   *)
(* SQLite files and the running core, or puts back what was there.         *)
(*                                                                         *)
(* Every file, database and process operation may fail where the code      *)
(* looks at its error, and the panel process may die between any two       *)
(* operations and be started again.  The import runs inside the interval   *)
(* that module RestoreBarrier keeps free of other writers, and holds the   *)
(* core lock, so nothing else moves meanwhile.                             *)
(***************************************************************************)
EXTENDS Naturals, Sequences

\* The live main file, and the sidecars SQLite may keep beside it.
panelDatabaseSuffixes == <<"", "-wal", "-shm", "-journal">>
Last == Len(panelDatabaseSuffixes)
Suffixes == {"", "-wal", "-shm", "-journal"}
Sidecars == Suffixes \ {""}

\* Which database a file belongs to.  "fresh" is what InitDB creates, with the
\* default administrator, when it finds no file.
Owners == {"none", "old", "new", "fresh"}
Dirs == {"live", "previous", "failed"}

VARIABLES
    fs,          \* fs[d][s]: the file with suffix s in directory d
    candidate,   \* the staged candidate.db exists
    assets,      \* the managed directory with the backup's certificates exists
    handle,      \* database.currentDB: which database, or "closed"
    private,     \* the hooks' privateCandidate is open
    cores,       \* the configurations of the core processes that are running
    manual,      \* isManuallyStopped
    need,        \* isNeedXrayRestart
    moved, installed, restored, recovery,   \* locals of commitPanelRestore
    was,         \* what it recorded first: running, manual, need
    k,           \* index of its loops over panelDatabaseSuffixes
    result,      \* what the import answers
    pc

vars == <<fs, candidate, assets, handle, private, cores, manual,
          need, moved, installed, restored, recovery, was, k, result, pc>>

files == <<fs, candidate, assets>>
database == <<handle, private>>
runtime == <<cores, manual, need>>
locals == <<moved, installed, restored, recovery, was>>

\* Results: rejected before anything was touched, aborted before the database
\* was closed, failed and rolled back, failed with a rollback that needs
\* attention, committed.
Results == {"none", "rejected", "aborted", "rolled_back", "recovery", "committed"}

Forward == {"mkdir", "checkpoint", "stop", "close", "move", "install", "chmod",
            "open", "start", "publish", "discard"}
Backward == {"rb_stop", "rb_close", "rb_retain", "rb_put_back", "rb_open", "rb_start"}
PCs == {"idle", "listeners", "return", "cleanup", "done", "dead", "rebooted"}
           \cup Forward \cup Backward

TypeOK ==
    /\ fs \in [Dirs -> [Suffixes -> Owners]]
    /\ candidate \in BOOLEAN /\ assets \in BOOLEAN
    /\ handle \in {"closed", "old", "new", "fresh"} /\ private \in BOOLEAN
    /\ cores \in SUBSET {"old", "new", "fresh"}
    /\ manual \in BOOLEAN /\ need \in BOOLEAN
    /\ moved \in SUBSET Suffixes
    /\ installed \in BOOLEAN /\ restored \in BOOLEAN /\ recovery \in BOOLEAN
    /\ was \in [running : BOOLEAN, manual : BOOLEAN, need : BOOLEAN]
    /\ k \in 1 .. (Last + 1)
    /\ result \in Results
    /\ pc \in PCs

\* A panel in service.  The core runs, was stopped by an administrator, has
\* crashed and waits for the check job, or has survived an attempt to stop it.
Init ==
    /\ \E side \in SUBSET Sidecars :
          fs = [d \in Dirs |-> [s \in Suffixes |->
                  IF d = "live" /\ s \in side \cup {""} THEN "old" ELSE "none"]]
    /\ candidate = FALSE /\ assets = FALSE
    /\ handle = "old" /\ private = FALSE
    /\ cores \in {{"old"}, {}}
    /\ manual \in BOOLEAN
    /\ need \in BOOLEAN
    /\ moved = {} /\ installed = FALSE /\ restored = TRUE /\ recovery = FALSE
    /\ was = [running |-> FALSE, manual |-> FALSE, need |-> FALSE]
    /\ k = 1
    /\ result = "none"
    /\ pc = "idle"

-----------------------------------------------------------------------------
(* What the operations do.                                                 *)

Goto(l) == pc' = l
Suffix == panelDatabaseSuffixes[k]

\* os.Rename of one file replaces what the target name held.
Renamed(from, to, s) == [fs EXCEPT ![to][s] = fs[from][s], ![from][s] = "none"]

\* Opening the live database as db can leave sidecars of its own beside it;
\* closing it can take them away.
OpenedFiles(db) ==
    {[fs EXCEPT !["live"] = [s \in Suffixes |->
         IF s = "" \/ (s \in side /\ fs["live"][s] = "none") THEN db ELSE fs["live"][s]]]
        : side \in SUBSET Sidecars}
ClosedFiles(db) ==
    {fs, [fs EXCEPT !["live"] = [s \in Suffixes |->
             IF s # "" /\ fs["live"][s] = db THEN "none" ELSE fs["live"][s]]]}

\* p.Stop: without a running core there is nothing to do; a failure is a core
\* that survives SIGKILL, or one that was gone when it was signalled.
StopOutcomes ==
    {[ok |-> TRUE, cores |-> {}]}
        \cup IF cores = {} THEN {} ELSE {[ok |-> FALSE, cores |-> c] : c \in {cores, {}}}

\* hooks.Start: a child that cannot start, or exits within a second, is an error.
StartOutcomes(config, running) ==
    {[ok |-> TRUE, cores |-> running \cup {config}], [ok |-> FALSE, cores |-> running]}

\* RemoveAll(previousDir), whose error is ignored everywhere.
DiscardPrevious ==
    \/ fs' = [fs EXCEPT !["previous"] = [s \in Suffixes |-> "none"],
                        !["failed"] = [s \in Suffixes |-> "none"]]
    \/ UNCHANGED fs

-----------------------------------------------------------------------------
(* importPortableBackup up to the transaction.                             *)

\* preparePanelRestore stages, migrates and validates the archive; a failure
\* cleans up after itself.
Prepare ==
    /\ pc = "idle"
    /\ \/ /\ candidate' = TRUE /\ assets' = TRUE
          /\ Goto("listeners")
          /\ UNCHANGED result
       \/ /\ result' = "rejected"
          /\ Goto("done")
          /\ UNCHANGED <<candidate, assets>>
    /\ UNCHANGED <<fs, database, runtime, locals, k>>

\* TryBeginRestore may be refused, or a listener of the backup be taken.
ValidateListeners ==
    /\ pc = "listeners"
    /\ \/ /\ was' = [was EXCEPT !.need = need]
          /\ Goto("mkdir")
          /\ UNCHANGED result
       \/ /\ result' = "rejected"
          /\ Goto("cleanup")
          /\ UNCHANGED was
    /\ UNCHANGED <<files, database, runtime, moved, installed, restored, recovery, k>>

-----------------------------------------------------------------------------
(* commitPanelRestore, forward.                                            *)

MkdirTemp ==
    /\ pc = "mkdir"
    /\ was' = [was EXCEPT !.running = cores # {}, !.manual = manual]
    /\ \/ Goto("checkpoint") /\ UNCHANGED result
       \/ result' = "aborted" /\ Goto("return")
    /\ UNCHANGED <<files, database, runtime, moved, installed, restored, recovery, k>>

\* Checkpoint, then SetManual(true) for the duration of the transaction.
Checkpoint ==
    /\ pc = "checkpoint"
    /\ \/ /\ manual' = TRUE
          /\ Goto("stop")
          /\ UNCHANGED <<files, result>>
       \/ /\ DiscardPrevious
          /\ result' = "aborted"
          /\ Goto("return")
          /\ UNCHANGED <<candidate, assets, manual>>
    /\ UNCHANGED <<database, cores, need, locals, k>>

StopOld ==
    /\ pc = "stop"
    /\ \E stop \in StopOutcomes :
          \/ /\ stop.ok
             /\ cores' = stop.cores
             /\ Goto("close")
             /\ UNCHANGED <<files, result>>
          \/ /\ ~stop.ok
             /\ IF was.running /\ stop.cores = {}
                THEN \E start \in StartOutcomes("old", stop.cores) : cores' = start.cores
                ELSE cores' = stop.cores
             /\ DiscardPrevious
             /\ result' = "aborted"
             /\ Goto("return")
             /\ UNCHANGED <<candidate, assets>>
    /\ UNCHANGED <<database, manual, need, locals, k>>

\* sql.DB.Close leaves the handle closed even when it reports an error.
CloseOld ==
    /\ pc = "close"
    /\ handle' = "closed"
    /\ \/ fs' \in ClosedFiles("old") /\ Goto("move")
       \/ UNCHANGED fs /\ Goto("rb_stop")
    /\ k' = 1
    /\ UNCHANGED <<candidate, assets, private, runtime, locals, result>>

\* One round of the loop that sets the predecessor's files aside.
MoveOld ==
    /\ pc = "move"
    /\ \/ /\ fs["live"][Suffix] = "none"
          /\ Goto(IF k = 1 THEN "rb_stop" ELSE IF k = Last THEN "install" ELSE "move")
          /\ k' = k + 1
          /\ UNCHANGED <<fs, moved>>
       \/ /\ fs["live"][Suffix] # "none"
          /\ fs' = Renamed("live", "previous", Suffix)
          /\ moved' = moved \cup {Suffix}
          /\ Goto(IF k = Last THEN "install" ELSE "move")
          /\ k' = k + 1
       \/ /\ Goto("rb_stop")
          /\ UNCHANGED <<fs, moved, k>>
    /\ UNCHANGED <<candidate, assets, database, runtime, installed,
                   restored, recovery, was, result>>

\* Mutant: the predecessor goes as soon as the candidate is in place.
InstallCandidateDiscarding ==
    /\ pc = "install"
    /\ \/ /\ fs' = [fs EXCEPT !["live"][""] = "new",
                             !["previous"] = [s \in Suffixes |-> "none"]]
          /\ candidate' = FALSE
          /\ installed' = TRUE
          /\ Goto("chmod")
       \/ Goto("rb_stop") /\ UNCHANGED <<fs, candidate, installed>>
    /\ UNCHANGED <<assets, database, runtime, moved, restored, recovery, was, k, result>>

InstallCandidate ==
    /\ pc = "install"
    /\ \/ /\ fs' = [fs EXCEPT !["live"][""] = "new"]
          /\ candidate' = FALSE
          /\ installed' = TRUE
          /\ Goto("chmod")
       \/ Goto("rb_stop") /\ UNCHANGED <<fs, candidate, installed>>
    /\ UNCHANGED <<assets, database, runtime, moved, restored,
                   recovery, was, k, result>>

Chmod ==
    /\ pc = "chmod"
    /\ \E next \in {"open", "rb_stop"} : Goto(next)
    /\ UNCHANGED <<files, database, runtime, locals, k, result>>

\* Mutant: the candidate is opened with InitDB, which publishes it.
OpenCandidatePublic ==
    /\ pc = "open"
    /\ fs' \in OpenedFiles("new")
    /\ \/ handle' = "new" /\ Goto("start")
       \/ UNCHANGED handle /\ Goto("rb_stop")
    /\ UNCHANGED <<candidate, assets, private, runtime, locals, k, result>>

\* OpenInitializedDB keeps the candidate private; a failed one is closed again.
OpenCandidate ==
    /\ pc = "open"
    /\ fs' \in OpenedFiles("new")
    /\ \/ private' = TRUE /\ Goto("start")
       \/ UNCHANGED private /\ Goto("rb_stop")
    /\ UNCHANGED <<candidate, assets, handle, runtime, locals, k, result>>

StartCandidate ==
    /\ pc = "start"
    /\ \/ /\ was.running \/ ~was.manual
          /\ \E start \in StartOutcomes("new", cores) :
                /\ cores' = start.cores
                /\ Goto(IF start.ok THEN "publish" ELSE "rb_stop")
       \/ /\ ~was.running /\ was.manual
          /\ Goto("publish")
          /\ UNCHANGED cores
    /\ UNCHANGED <<files, database, manual, need, locals, k, result>>

\* The listeners are probed again; then the restart request of the predecessor
\* is dropped and the handle exchanged.
PublishCandidate ==
    /\ pc = "publish"
    /\ \/ /\ need' = FALSE
          /\ handle' = "new"
          /\ private' = FALSE
          /\ Goto("discard")
       \/ Goto("rb_stop") /\ UNCHANGED <<need, database>>
    /\ UNCHANGED <<files, cores, manual, locals, k, result>>

\* A predecessor that cannot be removed does not make the restore fail.
RemovePredecessor ==
    /\ pc = "discard"
    /\ DiscardPrevious
    /\ result' = "committed"
    /\ Goto("return")
    /\ UNCHANGED <<candidate, assets, database, runtime, locals, k>>

-----------------------------------------------------------------------------
(* Its rollback closure.  Errors are collected in `recovery' and do not    *)
(* stop it.                                                                *)

RollbackStop ==
    /\ pc = "rb_stop"
    /\ \E stop \in StopOutcomes :
          /\ cores' = stop.cores
          /\ recovery' = (recovery \/ ~stop.ok)
    /\ Goto("rb_close")
    /\ UNCHANGED <<files, database, manual, need, moved, installed, restored, was, k, result>>

RollbackClose ==
    /\ pc = "rb_close"
    /\ handle' = "closed"
    /\ private' = FALSE
    /\ \/ fs' \in ClosedFiles(IF installed THEN "new" ELSE "old") /\ UNCHANGED recovery
       \/ recovery' = TRUE /\ UNCHANGED fs
    /\ Goto(IF installed THEN "rb_retain" ELSE "rb_put_back")
    /\ k' = 1
    /\ UNCHANGED <<candidate, assets, runtime, moved, installed, restored, was, result>>

\* One round of the loop that sets the failed candidate's files aside.
RetainFailed ==
    /\ pc = "rb_retain"
    /\ \/ /\ fs["live"][Suffix] = "none"
          /\ UNCHANGED <<fs, recovery>>
       \/ /\ fs["live"][Suffix] # "none"
          /\ fs' = Renamed("live", "failed", Suffix)
          /\ UNCHANGED recovery
       \/ /\ recovery' = TRUE
          /\ UNCHANGED fs
    /\ k' = IF k = Last THEN 1 ELSE k + 1
    /\ Goto(IF k = Last THEN "rb_put_back" ELSE "rb_retain")
    /\ UNCHANGED <<candidate, assets, database, runtime, moved,
                   installed, restored, was, result>>

\* Mutant: a file that cannot be put back is reported, and the rest is opened.
PutBackUnchecked ==
    /\ pc = "rb_put_back"
    /\ \/ /\ Suffix \notin moved
          /\ UNCHANGED <<fs, recovery>>
       \/ /\ Suffix \in moved
          /\ fs' = Renamed("previous", "live", Suffix)
          /\ UNCHANGED recovery
       \/ /\ Suffix \in moved
          /\ recovery' = TRUE
          /\ UNCHANGED fs
    /\ k' = k + 1
    /\ Goto(IF k < Last THEN "rb_put_back" ELSE "rb_open")
    /\ UNCHANGED <<candidate, assets, database, runtime, moved, installed, restored, was, result>>

\* One round of the loop that puts the predecessor's files back.
PutBack ==
    /\ pc = "rb_put_back"
    /\ \/ /\ Suffix \notin moved
          /\ UNCHANGED <<fs, restored, recovery>>
       \/ /\ Suffix \in moved
          /\ fs' = Renamed("previous", "live", Suffix)
          /\ UNCHANGED <<restored, recovery>>
       \/ /\ Suffix \in moved
          /\ restored' = FALSE
          /\ recovery' = TRUE
          /\ UNCHANGED fs
    /\ k' = k + 1
    /\ Goto(IF k < Last THEN "rb_put_back" ELSE IF restored' THEN "rb_open" ELSE "rb_start")
    /\ UNCHANGED <<candidate, assets, database, runtime, moved,
                   installed, was, result>>

\* Only a predecessor that is back as a whole is opened.
ReopenOld ==
    /\ pc = "rb_open"
    /\ \/ /\ fs' \in OpenedFiles(fs["live"][""])
          /\ handle' = fs["live"][""]
          /\ UNCHANGED recovery
       \/ /\ recovery' = TRUE
          /\ UNCHANGED <<fs, handle>>
    /\ Goto("rb_start")
    /\ UNCHANGED <<candidate, assets, private, runtime, moved,
                   installed, restored, was, k, result>>

\* The old core is started again only on a reopened database.
RestartOld ==
    /\ pc = "rb_start"
    /\ \/ /\ handle # "closed" /\ was.running
          /\ \E start \in StartOutcomes("old", cores) :
                /\ cores' = start.cores
                /\ recovery' = (recovery \/ ~start.ok)
       \/ /\ handle = "closed" \/ ~was.running
          /\ UNCHANGED <<cores, recovery>>
    /\ result' = IF recovery' THEN "recovery" ELSE "rolled_back"
    /\ Goto("return")
    /\ UNCHANGED <<files, database, manual, need, moved, installed, restored, was, k>>

-----------------------------------------------------------------------------
(* Back in importPortableBackup.                                           *)

\* Mutant: the transaction's SetManual(true) is not taken back.
ReturnStillManual ==
    /\ pc = "return"
    /\ need' = IF result = "committed" THEN need ELSE was.need
    /\ Goto("cleanup")
    /\ UNCHANGED <<files, database, cores, manual, locals, k, result>>

\* The deferred SetManual(wasManual); an error also gives the predecessor's
\* restart request back.
Return ==
    /\ pc = "return"
    /\ manual' = was.manual
    /\ need' = IF result = "committed" THEN need ELSE was.need
    /\ Goto("cleanup")
    /\ UNCHANGED <<files, database, cores, locals, k, result>>

\* Mutant: only a commit keeps the assets.
CleanupUncommitted ==
    /\ pc = "cleanup"
    /\ candidate' = FALSE
    /\ assets' = (assets /\ result = "committed")
    /\ Goto("done")
    /\ UNCHANGED <<fs, database, runtime, locals, k, result>>

\* candidate.cleanup(committed || retainAssets).
Cleanup ==
    /\ pc = "cleanup"
    /\ candidate' = FALSE
    /\ assets' = (assets /\ result \in {"committed", "recovery"})
    /\ Goto("done")
    /\ UNCHANGED <<fs, database, runtime, locals, k, result>>

-----------------------------------------------------------------------------
(* The panel process dies: power, OOM killer, or an exit while the import  *)
(* is still running.  The kernel takes its core with it (PDEATHSIG).       *)

Die ==
    /\ pc \notin {"dead", "rebooted"}
    /\ handle' = "closed" /\ private' = FALSE
    /\ cores' = {}
    /\ Goto("dead")
    /\ UNCHANGED <<files, manual, need, locals, k, result>>

\* The next start: InitDB on the live path, then RestartXray(true).
Reboot ==
    /\ pc = "dead"
    /\ LET db == IF fs["live"][""] = "none" THEN "fresh" ELSE fs["live"][""] IN
          /\ fs' \in OpenedFiles(db)
          /\ handle' = db
          /\ cores' \in {{db}, {}}
    /\ manual' = FALSE /\ need' = FALSE
    /\ Goto("rebooted")
    /\ UNCHANGED <<candidate, assets, private, locals, k, result>>

\* A finished import is not followed by another one here.
Finished == pc \in {"done", "rebooted"} /\ UNCHANGED vars

Next == \/ Prepare \/ ValidateListeners \/ MkdirTemp \/ Checkpoint \/ StopOld
        \/ CloseOld \/ MoveOld \/ InstallCandidate \/ Chmod \/ OpenCandidate
        \/ StartCandidate \/ PublishCandidate \/ RemovePredecessor
        \/ RollbackStop \/ RollbackClose \/ RetainFailed \/ PutBack \/ ReopenOld
        \/ RestartOld \/ Return \/ Cleanup \/ Die \/ Reboot \/ Finished

Spec == Init /\ [][Next]_vars

-----------------------------------------------------------------------------
(* Properties.                                                             *)

Main(d) == fs[d][""]

\* "restore failed; previous database and runtime restored" (transaction.go:108)
\* and the earlier refusals mean just that: all files of the predecessor and
\* none of the candidate are in place, it is the open database, both flags are
\* as they were found, and the backup's assets are gone.  After a rollback the
\* core is as it was found; an import given up because the core could not be
\* stopped may leave it down (transaction.go:53-56), never another one.
FailureLeavesPredecessor ==
    (pc = "done" /\ result \in {"rejected", "aborted", "rolled_back"}) =>
        /\ Main("live") = "old" /\ handle = "old" /\ ~private
        /\ \A s \in Suffixes : fs["live"][s] # "new" /\ fs["previous"][s] = "none"
        /\ result # "rejected" => manual = was.manual /\ need = was.need
        /\ cores \subseteq {"old"}
        /\ result = "rolled_back" => (cores = {"old"} <=> was.running)
        /\ ~assets /\ ~candidate

\* A committed restore serves the candidate: no sidecar of the predecessor lies
\* beside it, its core runs unless the core had been stopped on purpose, no
\* restart request of the predecessor is left, and its assets are there.
CommitServesCandidate ==
    (pc = "done" /\ result = "committed") =>
        /\ Main("live") = "new" /\ handle = "new"
        /\ \A s \in Suffixes : fs["live"][s] # "old"
        /\ cores = IF was.running \/ ~was.manual THEN {"new"} ELSE {}
        /\ manual = was.manual /\ ~need
        /\ assets

\* Either answer of an import is true of the files, the handle and the core.
AnswerIsTrue == FailureLeavesPredecessor /\ CommitServesCandidate

\* Until the import has been committed the predecessor's main file exists, at
\* the live path or set aside, whatever failed and wherever the process died
\* (transaction.go:152-153, DIALECT11.md:129).
PredecessorKept ==
    result # "committed" => Main("live") = "old" \/ Main("previous") = "old"

\* The predecessor is opened again only when all of its files are back, and the
\* candidate is never opened beside a sidecar of the predecessor.  Beside the
\* predecessor a file of the candidate can only be a sidecar that the predecessor
\* did not have and that could not be set aside (transaction.go:79-81), and then
\* the rollback does not claim to have succeeded.
OpensWholeDatabase ==
    pc # "rebooted" =>
        /\ handle = "old" => \A s \in Suffixes :
              /\ fs["previous"][s] # "old"
              /\ fs["live"][s] = "new" => s \in Sidecars \ moved /\ recovery
        /\ (handle = "new" \/ private) => \A s \in Suffixes : fs["live"][s] # "old"

\* Types, and what may lie beside an open database before the next start.
FilesInv == TypeOK /\ OpensWholeDatabase

\* An open database has no files of another one beside it.  The code does not
\* keep this: see the known divergences in the README.
NoMixtureOpened ==
    handle # "closed" => \A s \in Suffixes : fs["live"][s] \in {"none", handle}

\* As long as the candidate is at the live path its certificates are on disk,
\* also after a rollback that failed or a crash (transaction.go:31-32).
AssetsFollowDatabase == Main("live") = "new" => assets

\* "no request can be redirected to a candidate which might later be rolled
\* back" (database/db.go:178-180): the published candidate stays published.
PublicationIsFinal ==
    [][handle = "new" /\ pc' # "dead" => handle' = "new"]_vars

\* "The previous database remains available until the new runtime starts
\* successfully" (DIALECT11.md:129): a panel that died during the import comes
\* up again on the previous database or on the restored one.
RebootFindsDatabase == pc = "rebooted" => handle \in {"old", "new"}

=============================================================================
