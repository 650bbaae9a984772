# Verification of the x-ui panel

x-ui is a web panel around a proxy core (a fork of Xray, under `core/`). One Go
process serves HTTP, runs cron jobs and a Telegram bot, keeps its state in one
SQLite database, and supervises one child process, the core. This directory holds
TLA+ models of the parts where several of these activities meet, the TLC runs that
check them on small instances, and TLAPS proofs.

## 1. Inventory

| component | state | operations | meets |
|---|---|---|---|
| restore barrier (`database/restore_barrier.go`, `web/middleware/restore_admission.go`) | `active`, `lifecycle`, an RWMutex, the `begin` mutex | TryMutation, TryLifecycle, TryBeginRestore and releases | every HTTP write, cron tick, Telegram handler, reload, import |
| portable restore (`web/service/portable_backup*.go`) | live files, predecessor directory, database handle, core, flags | import, commit, rollback, schedule reload | barrier, core lock, snapshot mutex, signal loop |
| signal loop (`main.go`, `restore_signal_gate.go`) | signal channel of one place, two retry gates | SIGHUP, SIGUSR1, SIGTERM, retry timers | barrier, core |
| core supervision (`web/service/xray.go`, `xray/process.go`, `web/job/check_xray_running_job.go`, `web/web.go`) | process `p`, `lock`, `isManuallyStopped`, `isNeedXrayRestart`, `checkTime` | RestartXray, StopXray, crash check every second, restart job every 30 seconds | inbound edits, administrators, imports |
| inbounds and clients (`web/service/inbound.go`) | inbound rows with client JSON, client traffic rows | add, update, delete; traffic; expiry and renewal; resets | the core's API, traffic job, administrators, bot |
| traffic job, periodic reset (`web/job/xray_traffic_job.go`, `periodic_traffic_reset_job.go`) | the core's counters, rows of the above | read with reset, add, renew, disable | inbounds, core |
| IP-limit job, LDAP job, remote configuration job (`web/job`) | rows of the above, log offsets | periodic | inbounds |
| WebSocket hub (`web/websocket/hub.go`) | client set, three bounded channels | register, unregister, broadcast, stop | HTTP handlers, jobs |
| self-update (`web/service/panel_update.go`) | lock file, transient unit, status file | start, status | a process that outlives the panel |
| OpenVPN control channel (`core/proxy/openvpn/ovpn/reliable`) | send queue, receive ring, pending and recent acks | Send, Receive, Poll, NextDeadline | the TLS handshake above, an unreliable network below |
| orbit session (`core/proxy/orbit/internal/session`) | flows with buffers and offsets, the queue of the write loop | Open, Accept, Read, Write, Close, frames | two applications and one transport |
| custom geo files, settings, users, subscription server, outbounds | rows and files | independent reads and writes | restart of the core |

What is hard here: the barrier is built from four variables that are read and
written one at a time; a restore replaces files, a database handle and a process,
each step of which can fail or be the last one before a power cut; reloads are
retried from timers that race signals; the core is restarted by five kinds of
callers, two of which decide on something they saw before they got the lock; and
inbound edits change the running core, the database and a flag in three steps
without a lock. Traffic counters are taken from the core before the transaction that
stores them; the hub waits for senders that wait for the hub; an update outlives the
panel that started it; and the two protocols of the core have to live with loss and
with frames that cross. `PROJECT.json` lists these hazards with their lines.

## 2. Modules

A module `X_proof` holds the theorems about the module `X` (section 4).

`Admission` is the abstract specification of the barrier: mutations run together, at
most one reload runs beside them, a restore runs alone.

`RestoreBarrier` models `restore_barrier.go` with one action per atomic load or
store, TryLock, Lock and Unlock. Four roles use it: *Writers* (requests through the
middleware, cron ticks through RestoreJobAdmission, Telegram handlers), *Exporters*
(backup downloads, which are GETs and take no admission), *Loops* (the reload of the
signal loop) and *Importers*. An admitted writer may take the snapshot mutex
(GetBackup) or the core lock (StopXray, RestartXray); an importer takes the restore
serialiser, the barrier, the snapshot mutex and the core lock, in the code's order.
`RWMutex.Lock` is two steps, announcing the writer and waiting for readers, because
TryRLock fails from the announcement on.

`PanelRestore` models one import from `preparePanelRestore` to `cleanup`, with one
action per file, database or process operation of `commitPanelRestore` and of its
rollback closure. A file is represented by the database it belongs to (predecessor,
candidate, or the default database that InitDB creates), in three directories and
with SQLite's three sidecars. Where the code looks at an error, the operation may
fail. `Die` ends the process between any two operations and `Reboot` is the next
start. Opening and closing SQLite may create and remove sidecars (external,
modelled by its documented effect on files).

`SignalLoop` composes the loop of `main.go`, its two gates, imports that hold the
barrier, the delayed SIGHUP an import schedules, and the core's running and
manually-stopped state. It uses the barrier at the level of `Admission`, which
`RestoreBarrier` is shown to implement. The one-place signal channel drops what does
not fit, as `os/signal` does.

`XrayService` models RestartXray and StopXray step by step under `lock`, called by
administrators (forced), by overlapping ticks of the crash check with their shared
unsynchronised counter, and by ticks of the restart job. Editors run UpdateInbound:
API call, commit, flag. The configuration is abstracted to the part one inbound
contributes, `"off"` when it is disabled. Faults (a crash, a core that survives
SIGKILL, a failed start, an unreadable configuration, a failed API call, a failed
save) happen at most `MaxFaults` times in all. Three variables (`intent`, `owed`,
`faults`) are history.

`ClientTraffic` has the clients of one inbound as the code keeps them, four times: in
the inbound's JSON (`settings`), in `client_traffics` (`rows`), in the running core
(`served`) and in what the core was started with (`startCfg`). The traffic job is three
steps: GetXrayTraffic, which resets the counters, the transaction of AddTraffic with
the API calls in it, and its commit. A restart runs AddTraffic itself before it reads
the configuration. Editors add, update, delete and reset clients, reset all of them,
or purge the depleted ones; each reads the inbound first and saves the whole row
later. SQLite is its write lock and what readers see; a fault is a lock that outlasts
the busy timeout, or a failed API call. The history variables say what the core has
counted for a client, and which of the known gaps an exception is due to. A client's
counters exist from its first connection to the core on (`connected`), and the job is
given all of them, zero or not (`listed`): that is what starts a delayed clock. The
expiry that a request gives a client is any of the three; a request that changes the
email of a client is left out, and so are the protocols whose users the core cannot
change while it runs (section 5).

`WsHub` models Run, the senders of one broadcast, the callers of Register, Unregister
and Broadcast, and both pumps of every connection, each at its blocking operations.
Messages are only counted.

`PanelUpdate` models startPanelUpdate, the worker script line by line, the installer
that inherits the lock, an installer run by hand, and the status page, which probes
the lock by taking it. Panel and workers may be killed anywhere. The panel's ack is two
steps, since the worker only looks whether the file is there: creating it
(`Acknowledge`) and writing and closing it (`Acknowledged`), each of which may fail. The
removal of a refused request may remove everything, only the ack, or nothing.

`InOrderDelivery` says what the OpenVPN control channel promises: each end is given
what the other sent, in order and once. `Reliable` has two `Layer`s with the code's
windows, ring and ack lists over a network that loses, repeats and delays packets, and
is shown to implement it. Poll sends the messages whose timeout has passed, a choice.

`OrbitStream` is one flow of an orbit session with a stream object at each end. What a
call does under the stream's mutex is one step, and the notice it queues after the
unlock is another (`note`), so notices of the reading loop, the application and the
closing thread can pass each other. A frame whose sender has given up is skipped by the
write loop (`Skipped`). `MCOrbitStream` gives the loads: two units from either end.

## 3. Runs

| run | states | question |
|---|---|---|
| barrier | 10,290 | exclusion, no leaked lock, no unjustified refusal, refinement of Admission; every request and every maintenance interval ends |
| panel_restore | 921,528 | what each answer of an import promises, under failures and crashes |
| signal_loop | 38,481 | received reloads are carried out, never beside an import; shutdown works; a committed restore is activated |
| xray_service | 152,609 | at most one core, and the lock discipline behind it; restart requests survive restarts in progress; crashes are repaired, orders return |
| client_traffic | 3,355,490 | no traffic is counted twice or lost, disabled clients are cut off, clients and their rows agree, each with the exceptions the code has |
| ws_hub | 110,395 | the map, the channels and the pumps agree; Stop always completes; ended connections are forgotten |
| panel_update | 613,768 | one installer at a time, requests refused before their ack exists never install, status and report are true, the lock comes back |
| reliable | 121,233 | refinement of InOrderDelivery, acks only for what was seen, room at the peer; everything is delivered |
| orbit_stream | 1,747,305 | no close overtakes data, the session ends only for the reasons the code gives |
| orbit_stream_live | 249,139 | closed flows leave the map, paused writers go on |

Several of these properties name exceptions. They are not weakenings for
convenience: each one is a behaviour of the code that TLC showed first, and the
comment of the property gives its lines.

Two runs show a disagreement between the code and what its documents or tests say.

* **panel_restore_reboot**. The panel dies after the main file has been moved to
  `.xui-predecessor-*` and before the candidate is installed. The next start finds no
  database and creates one with the default administrator; the predecessor is intact
  but nobody looks for it. A SIGTERM during the drain can cause this too: StopXray
  takes `lock` before the importer, Shutdown has a cancelled context, and the process
  exits in the middle of the commit. (`PredecessorKept` shows that no data is lost.)
* **client_edit_lost**. Two requests change clients of one inbound; the one that read
  first saves last, and the client whose deletion was answered with success is back,
  without a row that meters it.

### Known divergences

These formulas state what a comment of the code says and are not true of it. They are
kept in their modules; to see the steps, check the formula alone in the configuration
of its module's run.

* `SignalLoop!ShutdownRequestHonoured`: a reload is in progress and another reload
  signal waits in the one-place channel: a SIGTERM is dropped (main.go:104).
* `SignalLoop!RestorePreservesIntent`: whether the core is stopped on purpose is sampled
  when the reload is scheduled; a stop within the next three seconds is undone
  (portable_backup.go:484).
* `XrayService!RestartHonoured`: the restart job clears the flag before RestartXray tests
  it, so the restart is skipped when the stored configuration equals the one the core
  was started with, although API calls have changed the core since (xray.go:207).
* `XrayService!CoreServesDatabase`: RestartXray reads the database before an edit commits
  and starts its core after the edit's API call: the new core lacks the edit and nobody
  asks for another restart (inbound.go:611).
* `XrayService!CheckRespectsStop`: the crash check decides, StopXray runs, the check
  restarts (check_xray_running_job.go:29).
* `PanelUpdate!BusyMeansRunning`: a status query that probes the lock of a dead update
  makes an update that starts at that moment report that another one is running
  (panel_update.go:115).
* `PanelUpdate!ErrorNeverInstalls`: writing the ack fails when the file exists already.
  The request is answered with an error, and the worker, which only looks for the file,
  installs (panel_update.go:224, 306). `RefusedNeverInstalls` is about the answers given
  before the file exists: busy, the timeout and the other errors.
* `PanelRestore!NoMixtureOpened`: a rollback that cannot set aside a sidecar of the
  candidate where the predecessor had none still counts as restored, and the predecessor
  is opened beside it (portable_backup_transaction.go:79-81, 94-96); and a process that
  dies between two renames leaves files of both for the next start. `FilesInv` says what
  the code does keep until then: no file of the predecessor is missing when it is
  opened, and what lies beside it is such a sidecar, with an error reported.
* `WsHub!StopClosesAllConnections`: a client whose registration is still in its channel
  when the hub stops is closed by nobody (hub.go:103-114).
* `ClientTraffic`, exceptions of `DisabledIsCutOff` (`gap`): a restart that overlaps a
  change reads the database before it and starts its core after it, or is skipped; a
  renewal lets in a client whose entry is switched off; a purge does not tell the core; a
  failed save leaves the user it added (inbound.go:799, 1426, 2061). Exceptions of
  `ClientsAreMetered` and `TrafficAccounted` (`raced`): a reset saves a row that it read
  before the job's commit, or before a deletion; a purge selects its rows twice; a
  deletion fails after it has deleted the row (inbound.go:879, 901, 1956, 2098).
* `XrayService`, exception of `RequestSurvives`: a restart that cannot read its
  configuration has taken the flag down (xray.go:198).
* `WsHub`, exception of `DeadIsForgotten`: with more full clients than places in the
  unregister channel the hub stands still until Stop (hub.go:191).
* `OrbitStream`, exceptions of `PauseEnds`, `FlowReclaimed` and `FlowInv`: a resume
  notice may pass the pause that it ends, and the writer stays paused (stream.go:408); a
  client that gives up in Open after its connect was written tells the server nothing
  (session.go:753); a flow closed before the server's Accept saw it stays in the map
  (session.go:785-791); data that reaches a server which has closed the flow ends its
  session (stream.go:276), as data over its limit does.

### Bounds

Two imports are needed for one to meet the release of the other; a writer and a reload
are the two kinds of readers of the barrier, and the proofs cover any number of each.
One import suffices in `PanelRestore`, since imports are serialised and each begins from
a state `Init` covers (any sidecars, core running or not, flags set or not). In
`SignalLoop` three external signals fill the channel while a reload is running and one
is pending, and two imports let a retry meet the next import. In `XrayService` a tick, a
restart request that is up at the start, one order, one edit and one fault of any kind
let a request arrive before, during and after a restart, and a restart wait for another
one. Overlapping ticks are in the proofs, which take any number; the liveness properties
also hold of two ticks when the edit and its faults are taken out (`Ticks = {t1, t2}`,
`Editors = {}`, 128,880 states). `checkTime` is only compared with 1, so it saturates at
2. In `ClientTraffic` two clients, one of them renewed, with a quota of one unit, two
events (traffic, a connection without any, or expiry), one edit of any kind, one forced
restart and one fault let each overlap the job; the run of the lost edit has two
editors. In `WsHub` every channel has one place, so that two clients exceed each of
them. `PanelUpdate` has two requests, one killed worker and one restarted panel. In
`Reliable` three messages against a window of two wrap the ring, and the network may do
one odd thing (repeat a packet, or let it be overtaken) besides losing any packet. In
`OrbitStream` a unit is 128 buffer nodes, the marks are one and zero, the queue has two
places and the transport one, data flows one way at a time, and two units from either
end exceed the other's limit: the run reaches a session that the server ends over its
limit and one that it ends for data on a flow it has closed, the two exceptions of
`EndedForAReason`.

### Fairness

`RestoreBarrier`: strong fairness for each admitted request, because its next step may
be a lock others keep taking and `sync.Mutex` hands a lock to a waiter after a
millisecond. No request has to arrive. `SignalLoop`: the loop runs; `select` chooses
at random among ready cases, hence strong fairness for each case; timers fire, sleeps
and imports end. `XrayService`: started goroutines go on, cron keeps ticking (weak
fairness), a waiter gets the core lock in the end (strong fairness). `WsHub`: the
goroutines run, `select` is fair as above, and broadcasts go on because two periodic
tasks make them; nothing is assumed of peers. `PanelUpdate`: the panel's wait has a
deadline, scripts and installers end, the page asks again. `Reliable`: owners poll at
a deadline, and of what is sent again and again the oldest unacknowledged message and
its ack get through in the end; without that no protocol delivers. `OrbitStream`: the
loops, the notices and the timers go on, an application reads what it is given and
closes a flow that its peer has closed (serveStream copies until an end and defers
Close). `PanelRestore` and `ClientTraffic` have no liveness property: an import is a
straight line, and the job comes back every ten seconds.

`SignalLoop`, `PanelRestore` and `Reliable` have an explicit step for a system that is
idle, done or gone; anywhere else being stuck is a deadlock that TLC reports. A hub
without peers, and a flow or a session that has ended, really stop, and the
configurations of `WsHub` and `OrbitStream` say so.

## 4. Proofs

`RestoreBarrier_proof` proves, for arbitrary sets of writers, exporters, loops and
importers that are disjoint (`RolesAssumption`):

* `TypeCorrect`: `Spec => []TypeOK`.
* `BarrierSafe`: `Spec => []BarrierInv`. `BarrierInv` is the inductive invariant. It
  says of every lock and flag who holds it in terms of program counters: readers are
  those between TryRLock and RUnlock, `begin` belongs to a reload or to the import in
  its interval, `active` is set exactly inside it, and the read side is empty from the
  end of the drain on. Exclusion alone is not inductive: that no writer is inside when
  an import commits follows only from the readers being accounted for.
* `RestoreExclusive`: `Spec => []RestoreIsExclusive`, from `BarrierInv`.
* `RefusalJustified`: `Spec => RefusalMeansMaintenance`, an action property.
* `BarrierRefinesAdmission`: `Spec => ImplementsAdmission`; `inside` is the set of
  processes in their admitted bodies, and each step is an admission, a departure or a
  stutter.

One lemma per role shows that its steps preserve each invariant.

`XrayService_proof` proves, for arbitrary disjoint sets of administrators, ticks,
restart jobs and editors, any configurations and any bounds (`ActorsAssumption`,
`BoundsAssumption`):

* `TypeCorrect`: `Spec => []TypeOK`.
* `NoSecondCore`: `Spec => []OneCore`.
* `LockDiscipline`: `Spec => []CoreInv`.
* `NoRequestLost`: `Spec => []RequestSurvives`.

`OneCore` is not inductive: that a restart which found the core down still finds it
down when it starts its own needs to know that nobody else is between Lock and Unlock.
`CoreInv` says this (`LockAccounted`), that a core runs when another is started only
after the one failed stop (`StartsOnDead`), and that what is started has been read
(`ConfigRead`). Its proof has one step per action; the steps of RestartXray, which
three kinds of callers take, are in three lemmas that the callers' lemmas cite.
`RequestSurvives` is inductive as it stands: the step that takes the flag down puts
the restart job on its way to reading.

`PanelUpdate_proof` proves, for any set of requests and any number of kills and
restarts (`UpdateAssumption`):

* `InstallersSerialised`: `Spec => []InstallerInv`.
* `RefusalFinal`: `Spec => []RefusedNeverInstalls`, for the answers given before the ack
  file exists; what follows a failed write of the ack is among the known divergences.
* `StatusIsOwners`: `Spec => []StatusFollowsOwner`.
* `InterruptionTrue`: `Spec => []InterruptedIsOver`.

The four share one inductive invariant, which ties the holder of the flock, the phase
of each worker and the owner of the status file together. For the second it adds that an
ack exists only when the panel has created it, so that a worker which has seen one
belongs to a request that was accepted, is being acknowledged, has been refused for a
failed write, or has lost its panel.

`SignalLoop_proof` proves `ReloadsExcludeImports`: `Spec => []LoopInv` for any bounds
on signals, imports and orders (`BoundsAssumption`). Added is `DelayedIsImported`: the
delayed SIGHUPs are no more than the imports that were made.

`WsHub_proof` proves `HubSafe`: `Spec => []HubInv` for any connections and channel
capacities (`CapsAssumption`). Added is `RegisteredOnce`: a connection is in the
register channel at most once, and not after it is in the map. Without it a second
registration could bring a closed client back.

`Reliable_proof` proves, for every window, limit on acks and number of messages
(`OptionsAssumption`), and any loss, repetition and reordering:

* `LayersSafe`: `Spec => []LayerInv`.
* `DeliveryInOrder`: `Spec => ImplementsInOrderDelivery`. Its initial states are
  initial states of `InOrderDelivery`, and each step is a Send, a Deliver or a stutter.

The inductive invariant has a part per data structure and direction: `Queue` (the send
queue holds the unacknowledged messages, in order), `Wire` (a packet on the network
carries what was sent under its number), `Ring` (each slot holds the message whose
number is its own modulo the window, and what is there is beyond what was delivered),
`Got` (what was delivered is an initial part of what was sent), `Retired` (what left
the send queue has been seen by the peer), `AcksSeen` and `AckLists` (an ack anywhere,
on the wire included, is for a message that was seen). The room at the peer follows
from `Queue` and `Retired`: the oldest message in the queue bounds the window, and the
peer has delivered all before it. `Popped` and `Drained`, the loops of the code that
pop acknowledged messages and drain the ring, are the least number at which the loop
stops, so no induction over data is needed, only that a non-empty set of numbers has a
least one (`LeastNumber`); that two ids less than a window apart have different slots
of the ring is `SlotsDiffer`. `recent` is a function from ids to places rather than a
sequence, which the provers can reason about.

`ClientTraffic_proof` proves, for any clients, quota, bounds and faults
(`ClientsAssumption`, `BoundsAssumption`), and one administrator at a time
(`OneEditor`):

* `TrafficIsAccounted`: `Spec => []TrafficAccounted`.
* `ClientsStayMetered`: `Spec => []ClientsAreMetered`.
* `DisabledAreCutOff`: `Spec => []DisabledIsCutOff`.

None is inductive. For the first two, `Counted` adds that counters and history are
bounded by the events, so that the types' bounds follow, and that the used traffic of a
row is part of its all-time traffic; `Taken`, that the job between its runs holds
nothing, without which taking the counters would lose something; `Edits`, that what an
edit in progress has read is what is stored, but for times and traffic; `Paired`, that
rows and clients go together but for a deletion between its two halves. `OneEditor` is
needed: with two editors `Edits` is false, and run client_edit_lost shows what comes of
it. `AfterFacts` is what AddTraffic as a whole does to the counters of a row, in its
four passes, and `AfterSwitches` what it does to its switch.

`DisabledIsCutOff` speaks of quiet states only; `CInv` adds to the invariant above what
holds between them. `CutOff`: unless a restart is asked for or under way, each user of
the core outside `gap` is settled. That is, if its row or its entry has it switched off,
the transaction or the edit that let it in is about to save it as switched on or to ask
for a restart; and one that is about to switch it off or delete it, which has told the
core already, will ask for a restart, because the call did not remove it. `Locked`: the
job, and an edit between its API call and its commit, hold the file's lock, so no other
commit comes between the two. `Kept`: the copy an edit has taken has the switches of
the settings, and a purge deletes the row of every client that it deletes, which needs
that what is exhausted stays so until it is renewed. Every end of a restart puts into
`gap` the users it may have missed, so during one nothing has to be said. The ends of
the edits, but for a failed one, go through one lemma, `EndsCut`.

`OrbitStream_proof` proves `FlowInvHolds`: `Spec => []FlowInv` for every set of loads,
every pair of marks and of limits, every length of the queue and of the transport and
any number of repetitions of a close (`LimitsAssumption`: the lower mark is below the
upper one, the server's limit is not below the upper mark, and the client's not below
the server's). That no close overtakes data and that data is never out of order or
early follows from what each direction of the flow may hold at any moment; the
invariant has a part per direction and fact: `OutData` (at most one data frame is
queued, and only while its Write waits), `Numbered` (the data in the transport has the
offsets from the received to the sent one, without a hole), `CloseLast` (no data behind
a close, and who has a close on its way has quit), `PeerClosed` (who has seen the close
has had the data), and, for the opening, `ConnectFirst`, `Silent`, `BeforeAccept` and
`ResponseFirst`. Queues are sequences; the lemmas `AppendData`, `TailData`,
`SkippedKeeps` and their kin say what adding a frame, taking the first and skipping one
leave of each part, so that the lemma of an action only has to name its frame. `Skipped`
is written with the index it removes, because SelectSeq is
recursive.

Every proof has one lemma or step per action, and under it a step per conjunct the
action can disturb.

Only model-checked:

* all liveness properties: fairness is outside the prover's reach;
* the four invariants and the action property of PanelRestore: the module has no
  constants, so its run is its complete state space and a proof would say nothing more.

## 5. Not modelled, and the plan

By far the largest part of the repository is `core/`, a fork of Xray with its
transports, routing, configuration parsers and generated protobuf code, which the
panel drives as a child process. Of it the two protocols with state machines of their
own that this repository adds are modelled. Next come `tgbot.go` and the subscription
renderers, which are dialogue and formatting over the operations modelled here.

Archive parsing and asset handling (`util/backup`, `portable_backup_assets.go`,
`validate_panel_backup.go`) is input handling that is finished before any shared state
changes. Settings, users, outbounds and reserved ports have no protocol between steps.
In the modelled parts: adding, deleting and importing whole inbounds, and the client
statistics UpdateInbound writes; an update that changes the email of a client, which
renames its row (inbound.go:1018-1040), and the native protocols, for which the API calls
also look at the expiry and some of which ask for a restart at every removal
(native_client_helpers.go:130-141); the orbit handshake, UDP, heartbeat and idle timeout;
wrap-around of the 32-bit ids of the OpenVPN control channel.

Planned, in this order:

1. Listeners kept across reloads (`restore_listeners.go`), custom geo files (download,
   validate, rename, record), the IP-limit job.
2. Whole inbounds in `ClientTraffic`: AddInbound, DelInbound, UpdateInbound.
