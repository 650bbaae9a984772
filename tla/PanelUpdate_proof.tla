-------------------------- MODULE PanelUpdate_proof --------------------------
(***************************************************************************)
(* PanelUpdate for every set of update requests and every number of kills  *)
(* and panel restarts: installers are serialised, a refused request never  *)
(* installs, the status file follows the update that runs, and a report of *)
(* an interruption is true.                                                *)
(***************************************************************************)
EXTENDS PanelUpdate, FiniteSetTheorems, TLAPS

\* Steps of the script between flock and exit.
Holding == OwnerSteps \cup {"locked", "written"}

\* The flock has exactly the owners the descriptors give it: a worker past
\* flock or the installer that inherited descriptor 9, the shell, the probe.
LockAccounted ==
    /\ \A j \in Jobs : lock = j <=> worker[j] \in Holding \/ installer[j]
    /\ lock = Shell <=> shell = "installing"
    /\ lock = Probe <=> reader.at = "probe"

\* An installer has a worker that waits for it, or one that was killed.
InstallerHasWorker ==
    \A j \in Jobs :
        /\ worker[j] = "installing" => installer[j]
        /\ installer[j] => worker[j] \in {"installing", "killed"}

\* The panel got as far as creating the ack file, or died on the way.
Acking == {"acking", "accepted", "unacked", "gone"}

\* An ack is there, and a download or an installation goes on, only for such
\* a request; a worker exists only once the request was launched.
AckedByPanel ==
    \A j \in Jobs :
        /\ ack[j] \/ Installs(j) => req[j] \in Acking
        /\ req[j] = "idle" => worker[j] = "none"

\* From the first write until the end, the status is the owner's; what names
\* a job in the file was written by a worker that owned the lock.
StatusOwned ==
    /\ \A j \in Jobs :
         worker[j] \in {"running", "wait", "giveup", "download", "downloaded", "installing"}
           => status = [id |-> j, state |-> "running"]
    /\ status.state = "running" => status.id \in Jobs
    /\ \A j \in Jobs :
         status.id = j => worker[j] \notin {"none", "open", "locked", "own"}

\* An interruption is reported of a job.
InterruptedIsJob ==
    report.state = "interrupted" => report.id \in Jobs

\* The inductive invariant.
Inv ==
    /\ TypeOK /\ LockAccounted /\ InstallerHasWorker /\ AckedByPanel
    /\ StatusOwned /\ InterruptedIsJob /\ InterruptedIsOver

USE UpdateAssumption DEF Refusals, Errors, Calling, OwnerSteps, Live, Holding, Acking, Installs

\* It holds before the first request.
LEMMA InitInv == Init => Inv
  BY DEF Init, Inv, TypeOK, LockAccounted, InstallerHasWorker, AckedByPanel, StatusOwned, InterruptedIsJob, InterruptedIsOver

-----------------------------------------------------------------------------
\* A refusal, with or without the request directory left behind: before the
\* ack file exists its worker has no ack and never gets one.
LEMMA RefuseInv ==
    ASSUME Inv, NEW j \in Jobs, NEW a \in Errors,
           \/ req[j] \in {"poll", "confirm"}
           \/ req[j] = "acking" /\ a = "unacked",
           Refuse(j, a),
           UNCHANGED <<worker, installer, shell, lock, status, reader, report>>
    PROVE  Inv'
<1> USE DEF Inv, TypeOK, LockAccounted, InstallerHasWorker, AckedByPanel, StatusOwned, InterruptedIsJob, InterruptedIsOver, Refuse, Answer
<1>1. CASE RequestRemoved(j)
  BY <1>1 DEF RequestRemoved
<1>2. CASE UNCHANGED request
  BY <1>2 DEF request
<1>3. CASE ack' = [ack EXCEPT ![j] = FALSE] /\ UNCHANGED <<dir, startup>>
  BY <1>3
<1> QED BY <1>1, <1>2, <1>3 DEF RemoveRequest, request

\* startPanelUpdate: answers never contradict what the worker was allowed to do.
LEMMA PanelStepInv ==
    ASSUME Inv, NEW j \in Jobs, PanelStep(j)
    PROVE  Inv'
<1> USE DEF Inv, TypeOK, LockAccounted, InstallerHasWorker, AckedByPanel, StatusOwned, InterruptedIsJob, InterruptedIsOver, request
<1>1. CASE RefuseEarly(j)
  BY <1>1 DEF RefuseEarly, Answer
<1>2. CASE Launch(j)
  BY <1>2 DEF Launch, Answer
<1>3. CASE LaunchFails(j)
  BY <1>3 DEF LaunchFails, Answer
<1>4. CASE ReadReady(j)
  <2>1. CASE status.id = j
    BY <1>4, <2>1 DEF ReadReady, Answer
  <2>2. CASE status.id # j
    BY <1>4, <2>2, RefuseInv DEF ReadReady
  <2> QED BY <2>1, <2>2
<1>5. CASE Acknowledge(j)
  <2>1. CASE Refuse(j, "error")
    BY <1>5, <2>1, RefuseInv DEF Acknowledge
  <2>2. CASE ~Refuse(j, "error")
    <3>1. /\ req[j] = "confirm"
          /\ req' = [req EXCEPT ![j] = "acking"]
          /\ ack' = [ack EXCEPT ![j] = TRUE]
          /\ UNCHANGED <<dir, startup, worker, installer, shell, lock, status, reader, report>>
      BY <1>5, <2>2, Zenon DEF Acknowledge, Answer
    <3> QED BY <3>1
  <2> QED BY <2>1, <2>2
<1>6. CASE ReadRefusal(j)
  BY <1>6, RefuseInv DEF ReadRefusal
<1>7. CASE StartupTimeout(j)
  BY <1>7, RefuseInv DEF StartupTimeout
<1>8. CASE Acknowledged(j)
  <2>1. CASE Refuse(j, "unacked")
    BY <1>8, <2>1, RefuseInv DEF Acknowledged
  <2>2. CASE Answer(j, "accepted") /\ UNCHANGED request
    BY <1>8, <2>2 DEF Acknowledged, Answer
  <2> QED BY <1>8, <2>1, <2>2 DEF Acknowledged
<1> QED BY <1>1, <1>2, <1>3, <1>4, <1>5, <1>6, <1>7, <1>8 DEF PanelStep

\* The worker script: it writes and installs only while it owns the lock.
LEMMA WorkerStepInv ==
    ASSUME Inv, NEW j \in Jobs, WorkerStep(j)
    PROVE  Inv'
<1> USE DEF Inv, TypeOK, LockAccounted, InstallerHasWorker, AckedByPanel, StatusOwned, InterruptedIsJob, InterruptedIsOver, request
<1>1. CASE FlockBusy(j)
  BY <1>1 DEF FlockBusy, At
<1>2. CASE Flock(j)
  BY <1>2 DEF Flock, At
<1>3. CASE CheckRequest(j)
  BY <1>3 DEF CheckRequest, At, Unlocked
<1>4. CASE WriteRunning(j)
  BY <1>4 DEF WriteRunning, At
<1>5. CASE WriteReady(j)
  BY <1>5 DEF WriteReady, At
<1>6. CASE SeeAck(j)
  BY <1>6 DEF SeeAck, At, RequestRemoved
<1>7. CASE SeeCancelled(j)
  BY <1>7 DEF SeeCancelled, At
<1>8. CASE WaitExpires(j)
  BY <1>8 DEF WaitExpires, At
<1>9. CASE GiveUp(j)
  BY <1>9 DEF GiveUp, At, RequestRemoved
<1>10. CASE Download(j)
  BY <1>10 DEF Download, At
<1>11. CASE Install(j)
  BY <1>11 DEF Install, At
<1>12. CASE FinishStatus(j)
  BY <1>12 DEF FinishStatus
<1>13. CASE FinishExit(j)
  BY <1>13 DEF FinishExit, At, Unlocked
<1> QED BY <1>1, <1>2, <1>3, <1>4, <1>5, <1>6, <1>7, <1>8, <1>9, <1>10, <1>11, <1>12, <1>13 DEF WorkerStep

\* Faults of the worker and the end of the installer.
LEMMA FaultInv ==
    ASSUME Inv, NEW j \in Jobs, InstallerEnds(j) \/ OpenFails(j) \/ Fail(j) \/ Kill(j)
    PROVE  Inv'
<1> USE DEF Inv, TypeOK, LockAccounted, InstallerHasWorker, AckedByPanel, StatusOwned, InterruptedIsJob, InterruptedIsOver, request
<1>1. CASE InstallerEnds(j)
  BY <1>1 DEF InstallerEnds
<1>2. CASE OpenFails(j)
  BY <1>2 DEF OpenFails, At
<1>3. CASE Fail(j)
  BY <1>3 DEF Fail
<1>4. CASE Kill(j)
  BY <1>4 DEF Kill, Unlocked
<1> QED BY <1>1, <1>2, <1>3, <1>4

\* The shell installer, the status page and the death of the panel.
LEMMA OthersInv ==
    ASSUME Inv, ShellInstall \/ ShellEnds \/ Reader \/ PanelDies
    PROVE  Inv'
<1> USE DEF Inv, TypeOK, LockAccounted, InstallerHasWorker, AckedByPanel, StatusOwned, InterruptedIsJob, InterruptedIsOver, request
<1>1. CASE ShellInstall
  BY <1>1 DEF ShellInstall
<1>2. CASE ShellEnds
  BY <1>2 DEF ShellEnds
<1>3. CASE ReadStatus
  BY <1>3 DEF ReadStatus
<1>4. CASE ProbeBusy
  BY <1>4 DEF ProbeBusy
<1>5. CASE ProbeTaken
  BY <1>5 DEF ProbeTaken
<1>6. CASE Reread
  BY <1>6 DEF Reread
<1>7. CASE PanelDies
  BY <1>7 DEF PanelDies
<1> QED BY <1>1, <1>2, <1>3, <1>4, <1>5, <1>6, <1>7 DEF Reader

\* Every step preserves the inductive invariant.
LEMMA StepInv == Inv /\ [Next]_vars => Inv'
<1> SUFFICES ASSUME Inv, [Next]_vars PROVE Inv'
  OBVIOUS
<1>1. CASE UNCHANGED vars
  BY <1>1 DEF vars, Inv, TypeOK, LockAccounted, InstallerHasWorker, AckedByPanel, StatusOwned, InterruptedIsJob, InterruptedIsOver
<1>2. CASE Next
  BY <1>2, PanelStepInv, WorkerStepInv, FaultInv, OthersInv DEF Next
<1> QED BY <1>1, <1>2

\* The inductive invariant holds throughout.
LEMMA InvHolds == Spec => []Inv
  BY InitInv, StepInv, PTL DEF Spec

-----------------------------------------------------------------------------
\* Jobs whose installer runs: none, or the owner of the lock.
LEMMA InstallersOwn ==
    ASSUME Inv
    PROVE  {j \in Jobs : installer[j]} \in {{}, {lock}}
  BY DEF Inv, LockAccounted

\* However many requests, late workers and shells there are, at most one
\* installer changes the installation, and it owns the flock.
THEOREM InstallersSerialised == Spec => []InstallerInv
<1>1. Inv => InstallerInv
  <2> SUFFICES ASSUME Inv PROVE OneInstaller
    BY DEF Inv, InstallerInv
  <2>1. \A j \in Jobs : installer[j] => lock = j
    BY DEF Inv, LockAccounted
  <2>2. CASE shell = "installing"
    <3>1. {j \in Jobs : installer[j]} = {}
      BY <2>1, <2>2 DEF Inv, LockAccounted
    <3> QED BY <2>1, <2>2, <3>1, FS_EmptySet DEF OneInstaller
  <2>3. CASE shell # "installing"
    <3>1. Cardinality({j \in Jobs : installer[j]}) \in {0, 1}
      BY InstallersOwn, FS_EmptySet, FS_Singleton
    <3> QED BY <2>1, <2>3, <3>1 DEF OneInstaller
  <2> QED BY <2>2, <2>3
<1> QED BY <1>1, InvHolds, PTL

\* A request the panel answered with busy, the startup timeout or an error
\* before its ack file existed never downloads or installs anything, however
\* late its worker starts and whatever is left of its directory.
THEOREM RefusalFinal == Spec => []RefusedNeverInstalls
<1>1. Inv => RefusedNeverInstalls
  BY DEF Inv, AckedByPanel, RefusedNeverInstalls
<1> QED BY <1>1, InvHolds, PTL

\* While an update runs, the status file is its own.
THEOREM StatusIsOwners == Spec => []StatusFollowsOwner
<1>1. Inv => StatusFollowsOwner
  BY DEF Inv, StatusOwned, StatusFollowsOwner
<1> QED BY <1>1, InvHolds, PTL

\* What is reported as interrupted is over, worker and installer both.
THEOREM InterruptionTrue == Spec => []InterruptedIsOver
<1>1. Inv => InterruptedIsOver
  BY DEF Inv
<1> QED BY <1>1, InvHolds, PTL
=============================================================================
