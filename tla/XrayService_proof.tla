-------------------------- MODULE XrayService_proof --------------------------
(***************************************************************************)
(* XrayService for every number of administrators, overlapping ticks and   *)
(* editors, every set of configurations and every bound: the core process  *)
(* is never doubled, and no restart request is lost.                       *)
(***************************************************************************)
EXTENDS XrayService, TLAPS

\* The inductive invariant.
Inv == TypeOK /\ CoreInv /\ OneCore /\ RequestSurvives

USE DEF Restarters, Procs, Configs, PCs, RestartPCs, MaxCheck

\* It holds when the panel has started.
LEMMA InitInv == Init => Inv
<1> SUFFICES ASSUME Init PROVE Inv
  OBVIOUS
<1>1. TypeOK
  <2>1. manual \in BOOLEAN /\ need \in BOOLEAN /\ running \in BOOLEAN
    BY Zenon DEF Init
  <2>2. intent \in {"run", "stop"}
    BY DEF Init
  <2> QED BY <2>1, <2>2, BoundsAssumption DEF Init, TypeOK
<1>2. CoreInv
  BY ActorsAssumption DEF Init, CoreInv, LockAccounted, StartsOnDead, ConfigRead, Critical
<1>3. OneCore /\ RequestSurvives
  BY DEF Init, OneCore, RequestSurvives
<1> QED BY <1>1, <1>2, <1>3 DEF Inv

-----------------------------------------------------------------------------
(* RestartXray, whoever calls it.                                          *)

\* Type correctness of the steps of RestartXray.
LEMMA RestartType ==
    ASSUME Inv, NEW c \in Restarters, RestartXray(c)
    PROVE  TypeOK'
<1> USE DEF Inv, TypeOK, Goto, core, flags, locals, history, budget
<1>1. CASE LockRestart(c)
  BY <1>1 DEF LockRestart
<1>2. CASE ReadConfig(c)
  BY <1>2 DEF ReadConfig, Remember
<1>3. CASE ReadConfigFails(c)
  BY <1>3 DEF ReadConfigFails, Return, Forget, Remember, Fault
<1>4. CASE RestartSkipped(c)
  BY <1>4 DEF RestartSkipped, Return, Forget, Remember
<1>5. CASE RestartDecided(c)
  BY <1>5 DEF RestartDecided
<1>6. CASE RestartStops(c)
  BY <1>6, ZenonT(20) DEF RestartStops, Fault
<1>7. CASE RestartStarts(c)
  <2>1. cfg[c] \in Configs
    BY <1>7 DEF RestartStarts, Return, CoreInv, ConfigRead
  <2>2. orphans' \in 0 .. 1
    BY <1>7 DEF RestartStarts, Return, CoreInv, StartsOnDead
  <2> QED BY <1>7, <2>1, <2>2 DEF RestartStarts, Return, Forget, Remember, Fault
<1> QED BY <1>1, <1>2, <1>3, <1>4, <1>5, <1>6, <1>7 DEF RestartXray

\* The lock, the configuration read and the one core survive the steps of RestartXray.
LEMMA RestartCore ==
    ASSUME Inv, NEW c \in Restarters, RestartXray(c)
    PROVE  CoreInv' /\ OneCore'
<1> USE ActorsAssumption DEF Inv, TypeOK, Goto, core, flags, locals, history, budget, CoreInv, LockAccounted,
        StartsOnDead, ConfigRead, Critical, OneCore
<1>1. CASE LockRestart(c)
  BY <1>1 DEF LockRestart
<1>2. CASE ReadConfig(c)
  BY <1>2 DEF ReadConfig, Remember
<1>3. CASE ReadConfigFails(c)
  BY <1>3 DEF ReadConfigFails, Return, Forget, Remember, Fault
<1>4. CASE RestartSkipped(c)
  BY <1>4 DEF RestartSkipped, Return, Forget, Remember
<1>5. CASE RestartDecided(c)
  BY <1>5 DEF RestartDecided
<1>6. CASE RestartStops(c)
  BY <1>6 DEF RestartStops, Fault
<1>7. CASE RestartStarts(c)
  BY <1>7 DEF RestartStarts, Return, Forget, Remember, Fault
<1> QED BY <1>1, <1>2, <1>3, <1>4, <1>5, <1>6, <1>7 DEF RestartXray

\* A restart takes up what is owed when it reads the configuration, not before.
LEMMA RestartRequest ==
    ASSUME Inv, NEW c \in Restarters, RestartXray(c)
    PROVE  RequestSurvives'
<1> USE DEF Inv, TypeOK, Goto, core, flags, locals, history, budget, RequestSurvives
<1>1. CASE LockRestart(c)
  BY <1>1 DEF LockRestart
<1>2. CASE ReadConfig(c)
  BY <1>2 DEF ReadConfig
<1>3. CASE ReadConfigFails(c)
  BY <1>3 DEF ReadConfigFails, Return, Fault
<1>4. CASE RestartSkipped(c)
  BY <1>4 DEF RestartSkipped, Return
<1>5. CASE RestartDecided(c)
  BY <1>5 DEF RestartDecided
<1>6. CASE RestartStops(c)
  BY <1>6 DEF RestartStops, Fault
<1>7. CASE RestartStarts(c)
  BY <1>7 DEF RestartStarts, Return, Fault
<1> QED BY <1>1, <1>2, <1>3, <1>4, <1>5, <1>6, <1>7 DEF RestartXray

-----------------------------------------------------------------------------
\* Orders of administrators: StopXray holds the lock and leaves requests alone.
LEMMA AdminInv ==
    ASSUME Inv, NEW a \in Admins, Admin(a)
    PROVE  Inv'
<1> USE DEF Inv, TypeOK, CoreInv, LockAccounted, StartsOnDead, ConfigRead, Critical, OneCore, RequestSurvives,
        Goto, core, flags, locals, history, budget
<1>1. CASE OrderRestart(a)
  BY <1>1, ActorsAssumption, BoundsAssumption DEF OrderRestart
<1>2. CASE OrderStop(a)
  BY <1>2, ActorsAssumption, BoundsAssumption DEF OrderStop
<1>3. CASE StopXrayMarks(a)
  BY <1>3, ActorsAssumption DEF StopXrayMarks
<1>4. CASE StopXrayStops(a)
  <2>1. TypeOK'
    BY <1>4 DEF StopXrayStops, Return, Forget, Remember, Fault
  <2>2. CoreInv' /\ OneCore'
    BY <1>4, ActorsAssumption DEF StopXrayStops, Return, Forget, Remember, Fault
  <2>3. RequestSurvives'
    BY <1>4, ActorsAssumption DEF StopXrayStops, Return, Fault
  <2> QED BY <2>1, <2>2, <2>3 DEF Inv
<1>5. CASE OrderDone(a)
  BY <1>5, ActorsAssumption DEF OrderDone
<1>6. CASE RestartXray(a)
  BY <1>6, RestartType, RestartCore, RestartRequest
<1> QED BY <1>1, <1>2, <1>3, <1>4, <1>5, <1>6 DEF Admin

-----------------------------------------------------------------------------
\* The ticks of the crash check, outside RestartXray, touch only the counter.
LEMMA CheckXrayRunningInv ==
    ASSUME Inv, NEW t \in Ticks, CheckXrayRunning(t)
    PROVE  Inv'
<1> USE DEF Inv, TypeOK, CoreInv, LockAccounted, StartsOnDead, ConfigRead, Critical, OneCore, RequestSurvives,
        Goto, core, flags, locals, history, budget
<1>1. CASE TickLooks(t)
  BY <1>1, ActorsAssumption DEF TickLooks
<1>2. CASE TickChecksManual(t)
  BY <1>2, ActorsAssumption DEF TickChecksManual
<1>3. CASE TickLoads(t)
  BY <1>3, ActorsAssumption DEF TickLoads
<1>4. CASE TickStores(t)
  BY <1>4, ActorsAssumption DEF TickStores
<1>5. CASE TickResets(t)
  BY <1>5, ActorsAssumption DEF TickResets
<1>6. CASE RestartXray(t)
  BY <1>6, RestartType, RestartCore, RestartRequest
<1> QED BY <1>1, <1>2, <1>3, <1>4, <1>5, <1>6 DEF CheckXrayRunning

-----------------------------------------------------------------------------
\* A restart job that takes the flag down is itself the witness of the request.
LEMMA RestartJobInv ==
    ASSUME Inv, NEW j \in Jobs, RestartJob(j)
    PROVE  Inv'
<1> USE DEF Inv, TypeOK, CoreInv, LockAccounted, StartsOnDead, ConfigRead, Critical, OneCore, RequestSurvives,
        Goto, core, flags, locals, history, budget
<1>1. CASE IsNeedRestartAndSetFalse(j)
  BY <1>1, ActorsAssumption, ZenonT(20) DEF IsNeedRestartAndSetFalse
<1>2. CASE JobDone(j)
  BY <1>2, ActorsAssumption DEF JobDone
<1>3. CASE RestartXray(j)
  BY <1>3, RestartType, RestartCore, RestartRequest
<1> QED BY <1>1, <1>2, <1>3 DEF RestartJob

-----------------------------------------------------------------------------
\* Edits: a request raises the flag in the step that records it.
LEMMA UpdateInboundInv ==
    ASSUME Inv, NEW e \in Editors, UpdateInbound(e)
    PROVE  Inv'
<1> USE DEF Inv, TypeOK, CoreInv, LockAccounted, StartsOnDead, ConfigRead, Critical, OneCore, RequestSurvives,
        Goto, core, flags, locals, history, budget
<1>1. CASE EditByAPI(e)
  <2>1. TypeOK'
    <3>1. PICK c \in Configs : cfg' = [cfg EXCEPT ![e] = c]
      BY <1>1 DEF EditByAPI, Remember
    <3>2. ask' \in [Editors -> BOOLEAN]
      BY <1>1 DEF EditByAPI
    <3>3. live' \in Configs /\ faults' \subseteq FaultKinds
      BY <1>1 DEF EditByAPI, Fault
    <3> QED BY <1>1, <3>1, <3>2, <3>3, BoundsAssumption DEF EditByAPI
  <2>2. CoreInv' /\ OneCore'
    BY <1>1, ActorsAssumption DEF EditByAPI, Remember, Fault
  <2>3. RequestSurvives'
    BY <1>1, ActorsAssumption DEF EditByAPI, Fault
  <2> QED BY <2>1, <2>2, <2>3 DEF Inv
<1>2. CASE EditSaved(e)
  BY <1>2, ActorsAssumption DEF EditSaved, Forget, Remember
<1>3. CASE EditFails(e)
  BY <1>3, ActorsAssumption DEF EditFails, Forget, Remember, Fault
<1>4. CASE EditFlags(e)
  BY <1>4, ActorsAssumption DEF EditFlags
<1> QED BY <1>1, <1>2, <1>3, <1>4 DEF UpdateInbound

-----------------------------------------------------------------------------
\* Every step preserves the invariant.
LEMMA NextInv == Inv /\ [Next]_vars => Inv'
<1> SUFFICES ASSUME Inv, [Next]_vars PROVE Inv'
  OBVIOUS
<1>1. CASE Crash
  <2>1. TypeOK'
    BY <1>1 DEF Crash, Fault, Inv, TypeOK, CoreInv, LockAccounted, StartsOnDead, ConfigRead, Critical, OneCore,
       RequestSurvives, core, flags, locals, history, budget
  <2>2. CoreInv' /\ OneCore'
    BY <1>1 DEF Crash, Fault, Inv, TypeOK, CoreInv, LockAccounted, StartsOnDead, ConfigRead, Critical, OneCore,
       RequestSurvives, core, flags, locals, history, budget
  <2>3. RequestSurvives'
    BY <1>1 DEF Crash, Fault, Inv, TypeOK, CoreInv, LockAccounted, StartsOnDead, ConfigRead, Critical, OneCore,
       RequestSurvives, core, flags, locals, history, budget
  <2> QED BY <2>1, <2>2, <2>3 DEF Inv
<1>2. CASE UNCHANGED vars
  BY <1>2 DEF vars, Inv, TypeOK, CoreInv, LockAccounted, StartsOnDead, ConfigRead, Critical, OneCore,
     RequestSurvives, core, flags, locals, history, budget
<1> QED BY <1>1, <1>2, AdminInv, CheckXrayRunningInv, RestartJobInv, UpdateInboundInv DEF Next

\* The inductive invariant holds throughout.
LEMMA Invariance == Spec => []Inv
<1> QED BY InitInv, NextInv, PTL DEF Spec

\* Type correctness: nobody starts or stores a configuration nobody has read
\* (xray.go:192-223, inbound.go:610-612).
THEOREM TypeCorrect == Spec => []TypeOK
<1>1. Inv => TypeOK
  BY DEF Inv
<1> QED BY <1>1, Invariance, PTL

\* However many administrators, overlapping ticks, restart jobs and edits there
\* are: RestartXray and StopXray never leave a second core behind, except one
\* that survived SIGKILL (xray.go:192-234, process.go:336-390).
THEOREM NoSecondCore == Spec => []OneCore
<1>1. Inv => OneCore
  BY DEF Inv
<1> QED BY <1>1, Invariance, PTL

\* The lock discipline that carries it: the holder of lock is the one call that is
\* between Lock and Unlock, and only a failed stop lets it start beside a core.
THEOREM LockDiscipline == Spec => []CoreInv
<1>1. Inv => CoreInv
  BY DEF Inv
<1> QED BY <1>1, Invariance, PTL

\* No restart request is lost to a restart in progress, for any number of restart
\* jobs and editors (xray.go:236-244, web.go:331-342).
THEOREM NoRequestLost == Spec => []RequestSurvives
<1>1. Inv => RequestSurvives
  BY DEF Inv
<1> QED BY <1>1, Invariance, PTL

=============================================================================
