----------------------------- MODULE PanelUpdate -----------------------------
(***************************************************************************)
(* The panel's self-update (web/service/panel_update.go): requests of the  *)
(* panel, the worker script each of them launches in a unit of its own,    *)
(* the installer, an installer started from a shell (install.sh), and the  *)
(* status page, which all meet at one flock and one status file.           *)
(*                                                                         *)
(* A worker's descriptor 9 is inherited by the installer only, so the lock *)
(* is free when both are gone.  Panel and workers may die at any point.    *)
(* The phase in the status file is only displayed and is left out.         *)
(***************************************************************************)
EXTENDS Naturals, FiniteSets

CONSTANTS
    Jobs,        \* update requests
    NoJob,       \* the id of an empty status
    Shell,       \* lock owner: an installer run by hand
    Probe,       \* lock owner: panelUpdateStatus
    Free,        \* nobody holds the lock
    MaxKills,    \* bound: workers killed without running their trap
    MaxCrashes   \* bound: restarts of the panel

ASSUME UpdateAssumption ==
    /\ Shell # Probe /\ Shell # Free /\ Probe # Free
    /\ NoJob \notin Jobs /\ Shell \notin Jobs /\ Probe \notin Jobs /\ Free \notin Jobs
    /\ {MaxKills, MaxCrashes} \subseteq Nat

VARIABLES
    req,        \* where startPanelUpdate is for a request, or its answer
    dir,        \* request directory exists
    startup,    \* content of its file startup
    ack,        \* startup.ack has been written
    worker,     \* where the worker script is
    installer,  \* install.sh of the job runs
    shell,      \* install.sh run by hand
    lock,       \* owner of the flock
    status,     \* update-status.json
    reader,     \* panelUpdateStatus: step, and the job it read
    report,     \* its last answer, forgotten when it looks again
    kills, crashes

request == <<dir, startup, ack>>
vars == <<req, dir, startup, ack, worker, installer, shell, lock, status,
          reader, report, kills, crashes>>

(* Answers given before the ack file exists; "unacked" is the answer of a  *)
(* request whose ack file was created and could not be written.            *)
Refusals == {"busy", "timeout", "error"}
Errors == Refusals \cup {"unacked"}
Calling == {"poll", "confirm", "acking"}
OwnerSteps == {"own", "running", "wait", "giveup", "download", "downloaded",
               "installing", "failed", "succeeded"}
Live == OwnerSteps \cup {"open", "locked", "written"}

Init ==
    /\ req = [j \in Jobs |-> "idle"]
    /\ dir = [j \in Jobs |-> FALSE]
    /\ startup = [j \in Jobs |-> "empty"]
    /\ ack = [j \in Jobs |-> FALSE]
    /\ worker = [j \in Jobs |-> "none"]
    /\ installer = [j \in Jobs |-> FALSE]
    /\ shell = "none"
    /\ lock = Free
    /\ status = [id |-> NoJob, state |-> "idle"]
    /\ reader = [at |-> "idle", id |-> NoJob]
    /\ report = [id |-> NoJob, state |-> "idle"]
    /\ kills = 0
    /\ crashes = 0

-----------------------------------------------------------------------------
(* startPanelUpdate                                                        *)

RequestRemoved(j) ==
    /\ dir' = [dir EXCEPT ![j] = FALSE]
    /\ ack' = [ack EXCEPT ![j] = FALSE]
    /\ startup' = [startup EXCEPT ![j] = "empty"]

(* The deferred RemoveAll, whose error is ignored: it may have removed the *)
(* ack, the one file that is still read, or nothing.                       *)
RemoveRequest(j) ==
    \/ RequestRemoved(j)
    \/ /\ ack' \in {ack, [ack EXCEPT ![j] = FALSE]}
       /\ UNCHANGED <<dir, startup>>

Answer(j, a) == req' = [req EXCEPT ![j] = a]

Refuse(j, a) ==
    /\ Answer(j, a)
    /\ RemoveRequest(j)

(* Missing tools, an active legacy unit, directories that cannot be made.  *)
RefuseEarly(j) ==
    /\ req[j] = "idle"
    /\ \E a \in {"busy", "error"} : Answer(j, a)
    /\ UNCHANGED <<request, worker, installer, shell, lock, status, reader,
                   report, kills, crashes>>

Launch(j) ==
    /\ req[j] = "idle"
    /\ Answer(j, "poll")
    /\ dir' = [dir EXCEPT ![j] = TRUE]
    /\ worker' = [worker EXCEPT ![j] = "open"]
    /\ UNCHANGED <<startup, ack, installer, shell, lock, status, reader,
                   report, kills, crashes>>

(* systemd-run fails or times out; the unit may run all the same.          *)
LaunchFails(j) ==
    /\ req[j] = "idle"
    /\ Answer(j, "error")
    /\ worker' \in {worker, [worker EXCEPT ![j] = "open"]}
    /\ \E left \in BOOLEAN : dir' = [dir EXCEPT ![j] = left]
    /\ UNCHANGED <<startup, ack, installer, shell, lock, status, reader,
                   report, kills, crashes>>

(* ready: the status must be this worker's.                                *)
ReadReady(j) ==
    /\ req[j] = "poll" /\ dir[j] /\ startup[j] = "ready"
    /\ \/ /\ status.id = j
          /\ Answer(j, "confirm")
          /\ UNCHANGED request
       \/ /\ status.id # j
          /\ Refuse(j, "error")
    /\ UNCHANGED <<worker, installer, shell, lock, status, reader, report,
                   kills, crashes>>

(* WriteFile of the ack, whose existence is all the worker looks at:       *)
(* creating the file, which fails without the directory, ...               *)
Acknowledge(j) ==
    /\ req[j] = "confirm"
    /\ \/ /\ dir[j]
          /\ Answer(j, "acking")
          /\ ack' = [ack EXCEPT ![j] = TRUE]
          /\ UNCHANGED <<dir, startup>>
       \/ Refuse(j, "error")
    /\ UNCHANGED <<worker, installer, shell, lock, status, reader, report,
                   kills, crashes>>

(* ... and writing and closing it, which may fail with the file there.     *)
Acknowledged(j) ==
    /\ req[j] = "acking"
    /\ \/ Answer(j, "accepted") /\ UNCHANGED request
       \/ Refuse(j, "unacked")
    /\ UNCHANGED <<worker, installer, shell, lock, status, reader, report,
                   kills, crashes>>

ReadRefusal(j) ==
    /\ req[j] = "poll" /\ dir[j] /\ startup[j] \in {"busy", "failed"}
    /\ Refuse(j, IF startup[j] = "busy" THEN "busy" ELSE "error")
    /\ UNCHANGED <<worker, installer, shell, lock, status, reader, report,
                   kills, crashes>>

(* The startup timeout, at any moment before a decision.                   *)
StartupTimeout(j) ==
    /\ req[j] = "poll"
    /\ Refuse(j, "timeout")
    /\ UNCHANGED <<worker, installer, shell, lock, status, reader, report,
                   kills, crashes>>

(* The panel dies, as it does when the installer replaces it: its calls    *)
(* vanish, its descriptors close.  Without a call it has nothing to lose.  *)
PanelDies ==
    /\ crashes < MaxCrashes
    /\ crashes' = crashes + 1
    /\ reader.at # "idle" \/ \E j \in Jobs : req[j] \in Calling
    /\ req' = [j \in Jobs |->
                 IF req[j] \in Calling THEN "gone" ELSE req[j]]
    /\ lock' = IF lock = Probe THEN Free ELSE lock
    /\ reader' = [at |-> "idle", id |-> NoJob]
    /\ UNCHANGED <<request, worker, installer, shell, status, report, kills>>

-----------------------------------------------------------------------------
(* panelUpdateWorkerScript                                                 *)

At(j, from, to) ==
    /\ worker[j] = from
    /\ worker' = [worker EXCEPT ![j] = to]

(* Mutant: the installer does not inherit the lock.                        *)
UnlockedByWorker(j) == IF lock = j THEN Free ELSE lock

(* What the exit of the worker leaves of the lock.                         *)
Unlocked(j) == IF lock = j /\ ~installer[j] THEN Free ELSE lock

(* The log or the lock file cannot be opened.                              *)
OpenFails(j) ==
    /\ At(j, "open", "done")
    /\ startup' = [startup EXCEPT ![j] = IF dir[j] THEN "failed" ELSE @]
    /\ UNCHANGED <<req, dir, ack, installer, shell, lock, status, reader,
                   report, kills, crashes>>

(* Mutant: a loser writes its failure to the status file.                  *)
FlockBusyWrites(j) ==
    /\ lock # Free
    /\ At(j, "open", "done")
    /\ startup' = [startup EXCEPT ![j] = IF dir[j] THEN "busy" ELSE @]
    /\ status' = [id |-> j, state |-> "failed"]
    /\ UNCHANGED <<req, dir, ack, installer, shell, lock, reader, report,
                   kills, crashes>>

(* flock -n 9                                                              *)
FlockBusy(j) ==
    /\ lock # Free
    /\ At(j, "open", "done")
    /\ startup' = [startup EXCEPT ![j] = IF dir[j] THEN "busy" ELSE @]
    /\ UNCHANGED <<req, dir, ack, installer, shell, lock, status, reader,
                   report, kills, crashes>>
Flock(j) ==
    /\ lock = Free
    /\ At(j, "open", "locked")
    /\ lock' = j
    /\ UNCHANGED <<req, request, installer, shell, status, reader, report,
                   kills, crashes>>

(* A request that is gone is not started; the status stays as it was.      *)
CheckRequest(j) ==
    /\ \/ dir[j] /\ At(j, "locked", "own") /\ UNCHANGED lock
       \/ ~dir[j] /\ At(j, "locked", "done") /\ lock' = Unlocked(j)
    /\ UNCHANGED <<req, request, installer, shell, status, reader, report,
                   kills, crashes>>

WriteRunning(j) ==
    /\ At(j, "own", "running")
    /\ status' = [id |-> j, state |-> "running"]
    /\ UNCHANGED <<req, request, installer, shell, lock, reader, report,
                   kills, crashes>>

WriteReady(j) ==
    /\ \/ dir[j] /\ At(j, "running", "wait")
                 /\ startup' = [startup EXCEPT ![j] = "ready"]
       \/ ~dir[j] /\ At(j, "running", "failed") /\ UNCHANGED startup
    /\ UNCHANGED <<req, dir, ack, installer, shell, lock, status, reader,
                   report, kills, crashes>>

(* Mutant: the worker does not wait for the ack.                           *)
SeeAckBlind(j) ==
    /\ At(j, "wait", "download")
    /\ RequestRemoved(j)
    /\ UNCHANGED <<req, installer, shell, lock, status, reader,
                   report, kills, crashes>>

(* The loop that waits for the ack, and its three ends.                    *)
SeeAck(j) ==
    /\ ack[j]
    /\ At(j, "wait", "download")
    /\ RequestRemoved(j)
    /\ UNCHANGED <<req, installer, shell, lock, status, reader,
                   report, kills, crashes>>
SeeCancelled(j) ==
    /\ ~ack[j] /\ ~dir[j]
    /\ At(j, "wait", "failed")
    /\ UNCHANGED <<req, request, installer, shell, lock, status, reader,
                   report, kills, crashes>>

(* Mutant: the wait for the ack has no end.                                *)
WaitExpiresNever(j) == FALSE

WaitExpires(j) ==
    /\ ~ack[j]
    /\ At(j, "wait", "giveup")
    /\ UNCHANGED <<req, request, installer, shell, lock, status, reader,
                   report, kills, crashes>>
GiveUp(j) ==
    /\ At(j, "giveup", "failed")
    /\ RequestRemoved(j)
    /\ UNCHANGED <<req, installer, shell, lock, status, reader,
                   report, kills, crashes>>

Download(j) ==
    /\ At(j, "download", "downloaded")
    /\ UNCHANGED <<req, request, installer, shell, lock, status, reader,
                   report, kills, crashes>>

Install(j) ==
    /\ At(j, "downloaded", "installing")
    /\ installer' = [installer EXCEPT ![j] = TRUE]
    /\ UNCHANGED <<req, request, shell, lock, status, reader, report, kills,
                   crashes>>

(* The installer ends, well or not; a killed worker no longer waits for it *)
(* and the lock goes with it.                                              *)
InstallerEnds(j) ==
    /\ installer[j]
    /\ installer' = [installer EXCEPT ![j] = FALSE]
    /\ \/ /\ worker[j] = "installing"
          /\ \E r \in {"failed", "succeeded"} :
                worker' = [worker EXCEPT ![j] = r]
          /\ UNCHANGED lock
       \/ /\ worker[j] = "killed"
          /\ lock' = Free
          /\ UNCHANGED worker
    /\ UNCHANGED <<req, request, shell, status, reader, report, kills, crashes>>

(* A command of the owner fails, or TERM, HUP or INT arrives; during the   *)
(* installation the trap runs after the installer.                         *)
Fail(j) ==
    /\ worker[j] \in {"own", "running", "wait", "giveup", "download", "downloaded"}
    /\ worker' = [worker EXCEPT ![j] = "failed"]
    /\ UNCHANGED <<req, request, installer, shell, lock, status, reader,
                   report, kills, crashes>>

(* finish: the terminal state is written (its failure is ignored) before   *)
(* the lock is given back.                                                 *)
FinishStatus(j) ==
    /\ worker[j] \in {"failed", "succeeded"}
    /\ status' \in {status, [id |-> j, state |-> worker[j]]}
    /\ worker' = [worker EXCEPT ![j] = "written"]
    /\ UNCHANGED <<req, request, installer, shell, lock, reader, report,
                   kills, crashes>>
FinishExit(j) ==
    /\ At(j, "written", "done")
    /\ startup' = [startup EXCEPT ![j] =
                     IF dir[j] /\ @ = "empty" THEN "failed" ELSE @]
    /\ lock' = Unlocked(j)
    /\ UNCHANGED <<req, dir, ack, installer, shell, status, reader, report,
                   kills, crashes>>

(* SIGKILL: no trap runs.                                                  *)
Kill(j) ==
    /\ kills < MaxKills
    /\ kills' = kills + 1
    /\ worker[j] \in Live
    /\ worker' = [worker EXCEPT ![j] = "killed"]
    /\ lock' = Unlocked(j)
    /\ UNCHANGED <<req, request, installer, shell, status, reader, report, crashes>>

-----------------------------------------------------------------------------
(* install.sh from a shell; when the lock is taken it dies without effect. *)
ShellInstall ==
    /\ shell = "none"
    /\ lock = Free
    /\ lock' = Shell
    /\ shell' = "installing"
    /\ UNCHANGED <<req, request, worker, installer, status, reader, report,
                   kills, crashes>>
ShellEnds ==
    /\ shell = "installing"
    /\ shell' = "done"
    /\ lock' = Free
    /\ UNCHANGED <<req, request, worker, installer, status, reader, report,
                   kills, crashes>>

-----------------------------------------------------------------------------
(* panelUpdateStatus                                                       *)
ReadStatus ==
    /\ reader.at = "idle"
    /\ \/ /\ status.state # "running"
          /\ report' = status
          /\ UNCHANGED reader
       \/ /\ status.state = "running"
          /\ reader' = [at |-> "read", id |-> status.id]
          /\ report' = [id |-> NoJob, state |-> "idle"]
    /\ UNCHANGED <<req, request, worker, installer, shell, lock, status,
                   kills, crashes>>

ProbeBusy ==
    /\ reader.at = "read" /\ lock # Free
    /\ report' = [id |-> reader.id, state |-> "running"]
    /\ reader' = [at |-> "idle", id |-> NoJob]
    /\ UNCHANGED <<req, request, worker, installer, shell, lock, status,
                   kills, crashes>>

ProbeTaken ==
    /\ reader.at = "read" /\ lock = Free
    /\ lock' = Probe
    /\ reader' = [reader EXCEPT !.at = "probe"]
    /\ UNCHANGED <<req, request, worker, installer, shell, status, report,
                   kills, crashes>>

(* Mutant: the status read before the probe is reported.                   *)
RereadCached ==
    /\ reader.at = "probe"
    /\ report' = [id |-> reader.id, state |-> "interrupted"]
    /\ lock' = Free
    /\ reader' = [at |-> "idle", id |-> NoJob]
    /\ UNCHANGED <<req, request, worker, installer, shell, status, kills, crashes>>

(* Mutant: a dead update is reported as it stands.                         *)
RereadRaw ==
    /\ reader.at = "probe"
    /\ report' = status
    /\ lock' = Free
    /\ reader' = [at |-> "idle", id |-> NoJob]
    /\ UNCHANGED <<req, request, worker, installer, shell, status, kills, crashes>>

Reread ==
    /\ reader.at = "probe"
    /\ report' = IF status.state = "running"
                 THEN [status EXCEPT !.state = "interrupted"] ELSE status
    /\ lock' = Free
    /\ reader' = [at |-> "idle", id |-> NoJob]
    /\ UNCHANGED <<req, request, worker, installer, shell, status, kills, crashes>>

-----------------------------------------------------------------------------
PanelStep(j) ==
    \/ RefuseEarly(j) \/ Launch(j) \/ LaunchFails(j) \/ ReadReady(j)
    \/ Acknowledge(j) \/ Acknowledged(j) \/ ReadRefusal(j) \/ StartupTimeout(j)
WorkerStep(j) ==
    \/ FlockBusy(j) \/ Flock(j) \/ CheckRequest(j) \/ WriteRunning(j)
    \/ WriteReady(j) \/ SeeAck(j) \/ SeeCancelled(j) \/ WaitExpires(j)
    \/ GiveUp(j) \/ Download(j) \/ Install(j) \/ FinishStatus(j)
    \/ FinishExit(j)
Reader == ReadStatus \/ ProbeBusy \/ ProbeTaken \/ Reread

Next ==
    \/ \E j \in Jobs : PanelStep(j) \/ WorkerStep(j) \/ InstallerEnds(j)
    \/ \E j \in Jobs : OpenFails(j) \/ Fail(j) \/ Kill(j)
    \/ ShellInstall \/ ShellEnds \/ Reader \/ PanelDies

Spec == Init /\ [][Next]_vars

(* The panel's loop has a deadline, the script runs to its end, installers *)
(* end, and the page asks for the status again and again.                  *)
FairSpec ==
    /\ Spec
    /\ \A j \in Jobs : /\ WF_vars(StartupTimeout(j))
                       /\ WF_vars(Acknowledge(j)) /\ WF_vars(Acknowledged(j))
                       /\ WF_vars(WorkerStep(j)) /\ WF_vars(InstallerEnds(j))
    /\ WF_vars(ShellEnds)
    /\ WF_vars(Reader)

-----------------------------------------------------------------------------
TypeOK ==
    /\ req \in [Jobs -> {"idle", "accepted", "gone"} \cup Calling \cup Errors]
    /\ dir \in [Jobs -> BOOLEAN] /\ ack \in [Jobs -> BOOLEAN]
    /\ startup \in [Jobs -> {"empty", "ready", "busy", "failed"}]
    /\ worker \in [Jobs -> Live \cup {"none", "done", "killed"}]
    /\ installer \in [Jobs -> BOOLEAN]
    /\ shell \in {"none", "installing", "done"}
    /\ lock \in Jobs \cup {Free, Shell, Probe}
    /\ status \in [id : Jobs \cup {NoJob},
                   state : {"idle", "running", "failed", "succeeded"}]
    /\ reader \in [at : {"idle", "read", "probe"}, id : Jobs \cup {NoJob}]
    /\ report \in [id : Jobs \cup {NoJob},
                   state : {"idle", "running", "failed", "succeeded", "interrupted"}]

(* Mutation is serialised: at most one installer runs, whichever of the    *)
(* panel, a late worker or a shell started it, also after its worker died. *)
OneInstaller ==
    /\ Cardinality({j \in Jobs : installer[j]})
         + (IF shell = "installing" THEN 1 ELSE 0) <= 1
    /\ \A j \in Jobs : installer[j] => lock = j

(* Types, and the serialisation of installers by the lock.                 *)
InstallerInv == TypeOK /\ OneInstaller

Installs(j) ==
    worker[j] \in {"download", "downloaded", "installing", "succeeded"} \/ installer[j]

(* A request answered with busy, the startup timeout or an error before    *)
(* its ack file exists never reaches the download, however late its worker *)
(* starts and whatever the removal of its directory leaves behind.  The    *)
(* error of an ack created and not written is excepted (ErrorNeverInstalls)*)
RefusedNeverInstalls ==
    \A j \in Jobs : req[j] \in Refusals => ~Installs(j)

(* "unable to start the panel update": no request answered with an error   *)
(* installs.  The code does not keep this when writing the ack fails: see  *)
(* the known divergences in the README.                                    *)
ErrorNeverInstalls ==
    \A j \in Jobs : req[j] \in Errors => ~Installs(j)

(* The status file belongs to the update that runs: neither a losing nor a *)
(* late worker writes over it.                                             *)
StatusFollowsOwner ==
    \A j \in Jobs :
        worker[j] \in {"wait", "giveup", "download", "downloaded", "installing"}
            => status = [id |-> j, state |-> "running"]

(* "interrupted" is only reported of an update of which neither the worker *)
(* nor the installer is left, and never of one whose end was written.      *)
InterruptedIsOver ==
    report.state = "interrupted" =>
        /\ worker[report.id] \in {"done", "killed"}
        /\ ~installer[report.id]
        /\ status.id = report.id => status.state = "running"

(* The status page learns the end of an accepted update, although worker   *)
(* and panel may die and the terminal state may fail to be written, unless *)
(* a later update has taken the status file over.                          *)
AcceptedIsReported ==
    \A j \in Jobs : (req[j] = "accepted") ~>
        \/ report.id = j /\ report.state \in {"failed", "succeeded", "interrupted"}
        \/ status.id # j

(* The lock always comes back: no death, cancellation or lost ack keeps    *)
(* later updates out for ever.                                             *)
LockReturns == (lock # Free) ~> (lock = Free)

(* "an x-ui update is already running": a worker that reports busy met an  *)
(* update or an installer at the lock.  The code does not keep this: see   *)
(* the known divergences in the README.                                    *)
BusyMeansRunning ==
    [][\A j \in Jobs : startup[j] # "busy" /\ startup'[j] = "busy"
          => lock # Probe]_vars
=============================================================================
