-------------------------- MODULE SignalLoop_proof --------------------------
(***************************************************************************)
(* SignalLoop for every number of signals, imports and administrators'     *)
(* orders: no reload overlaps an import that holds the barrier, and no     *)
(* more reloads are pending than imports were made.                        *)
(***************************************************************************)
EXTENDS SignalLoop, TLAPS

\* The three flags of the core.
Flags == running \in BOOLEAN /\ manual \in BOOLEAN /\ stoppedReload \in BOOLEAN

\* TypeOK without the flags, which are reasoned about by themselves.
Typed ==
    /\ sigCh \in {<<>>} \cup {<<s>> : s \in Kinds \cup {"TERM"}}
    /\ gate \in [Kinds -> {"none", "armed", "fired"}]
    /\ loop \in {"select", "stop", "start", "core", "term", "exit", "exited"}
    /\ importer \in {"none", "drain", "commit", "schedule"}
    /\ intent \in {"running", "stopped"}
    /\ sent \subseteq External
    /\ sends \in 0 .. MaxSends
    /\ imports \in 0 .. MaxImports
    /\ admins \in 0 .. MaxAdmin

\* Every delayed SIGHUP is that of an import of its own.
DelayedIsImported ==
    /\ delayed \in Nat
    /\ delayed + (IF importer = "none" THEN 0 ELSE 1) <= imports

\* The inductive invariant.
Inv == Flags /\ Typed /\ DelayedIsImported /\ ReloadExcludesImport

\* It says what LoopInv says.
LEMMA InvImplies == Inv => LoopInv
<1> SUFFICES ASSUME Inv PROVE LoopInv
  OBVIOUS
<1>1. delayed \in 0 .. MaxImports
  BY BoundsAssumption DEF Inv, Typed, DelayedIsImported
<1> QED BY <1>1, Zenon DEF Inv, Flags, Typed, LoopInv, TypeOK

\* It holds when the panel has started.
LEMMA InitInv == Init => Inv
<1> SUFFICES ASSUME Init PROVE Inv
  OBVIOUS
<1>1. Flags
  BY Zenon DEF Init, Flags
<1>2. Typed /\ DelayedIsImported /\ ReloadExcludesImport
  BY BoundsAssumption DEF Init, Typed, DelayedIsImported, ReloadExcludesImport,
     HoldsLifecycle, Kinds
<1> QED BY <1>1, <1>2 DEF Inv

\* The channel holds at most one signal, and one that does not fit is lost.
LEMMA DeliveredType ==
    ASSUME Typed, NEW sig \in Kinds \cup {"TERM"}
    PROVE  Delivered(sig) \in {<<>>} \cup {<<s>> : s \in Kinds \cup {"TERM"}}
<1>1. CASE sigCh = <<>>
  BY <1>1 DEF Delivered, SigBuffer
<1>2. CASE sigCh # <<>>
  <2>1. PICK s \in Kinds \cup {"TERM"} : sigCh = <<s>>
    BY <1>2, Zenon DEF Typed
  <2>2. Delivered(sig) = sigCh
    BY <2>1 DEF Delivered, SigBuffer
  <2> QED BY <2>1, <2>2, Zenon
<1> QED BY <1>1, <1>2

\* Flags stay Boolean.
LEMMA FlagsStep == Inv /\ [Next]_vars => Flags'
<1> SUFFICES ASSUME Inv, [Next]_vars PROVE Flags'
  OBVIOUS
<1> USE DEF Inv, Flags
<1>1. CASE UNCHANGED core
  BY <1>1, Zenon DEF core
<1>2. CASE ReloadStop \/ ReloadCore \/ Shutdown \/ AdminStopXray \/ AdminRestartXray
  BY <1>2, Zenon DEF ReloadStop, ReloadCore, Shutdown, AdminStopXray, AdminRestartXray
<1>3. CASE ReloadStart
  BY <1>3, Zenon DEF ReloadStart
<1>4. CASE ImportEnd
  BY <1>4, Zenon DEF ImportEnd
<1>5. CASE ScheduleRestoreReload
  BY <1>5, Zenon DEF ScheduleRestoreReload
<1>6. CASE UNCHANGED vars
  BY <1>1, <1>6, Zenon DEF vars, core
<1>7. CASE (\E sig \in External : Send(sig)) \/ SendDelayed \/ (\E kind \in Kinds : TimerFires(kind))
        \/ ReceiveSignal \/ (\E kind \in Kinds : ReceiveReady(kind)) \/ Exit \/ ImportBegin \/ ImportCommit
  BY <1>1, <1>7, Zenon DEF Send, SendDelayed, TimerFires, ReceiveSignal, ReceiveReady, Exit, ImportBegin, ImportCommit
<1> QED BY <1>2, <1>3, <1>4, <1>5, <1>6, <1>7, Zenon DEF Next, LoopStep, ImportStep, Quiet

\* Signals from outside and the delayed ones of RestartPanel.
LEMMA SendInv ==
    ASSUME Inv, (\E sig \in External : Send(sig)) \/ SendDelayed
    PROVE  (Typed /\ DelayedIsImported /\ ReloadExcludesImport)'
<1> USE DEF Inv, Typed, DelayedIsImported, ReloadExcludesImport, HoldsLifecycle, core, budget
<1>1. ASSUME NEW sig \in External, Send(sig)
      PROVE  (Typed /\ DelayedIsImported /\ ReloadExcludesImport)'
  <2>1. sigCh' \in {<<>>} \cup {<<s>> : s \in Kinds \cup {"TERM"}}
    BY <1>1, DeliveredType, BoundsAssumption DEF Send, Kinds
  <2> QED BY <1>1, <2>1, BoundsAssumption DEF Send
<1>2. CASE SendDelayed
  <2>1. sigCh' \in {<<>>} \cup {<<s>> : s \in Kinds \cup {"TERM"}}
    BY <1>2, DeliveredType DEF SendDelayed, Kinds
  <2> QED BY <1>2, <2>1 DEF SendDelayed
<1> QED BY <1>1, <1>2

\* Handling a signal: a reload begins only when no import holds the barrier.
LEMMA HandleType ==
    ASSUME Inv, NEW sig \in Kinds \cup {"TERM"},
           NEW g \in [Kinds -> {"none", "armed", "fired"}], Handle(sig, g),
           UNCHANGED importer
    PROVE  /\ gate' \in [Kinds -> {"none", "armed", "fired"}]
           /\ loop' \in {"select", "stop", "start", "core", "term", "exit", "exited"}
           /\ ReloadExcludesImport'
  BY DEF Inv, Typed, ReloadExcludesImport, HoldsLifecycle, Handle, Run, TryLifecycle, Kinds

\* The loop and the timers of its gates.
LEMMA LoopStepInv ==
    ASSUME Inv, LoopStep \/ (\E kind \in Kinds : TimerFires(kind))
    PROVE  (Typed /\ DelayedIsImported /\ ReloadExcludesImport)'
<1> USE DEF Inv, Typed, DelayedIsImported, ReloadExcludesImport, HoldsLifecycle, core, budget
<1>1. CASE ReceiveSignal
  <2>1. Head(sigCh) \in Kinds \cup {"TERM"} /\ Tail(sigCh) = <<>>
    <3>1. PICK s \in Kinds \cup {"TERM"} : sigCh = <<s>>
      BY <1>1, Zenon DEF ReceiveSignal
    <3> QED BY <3>1
  <2>2. /\ gate' \in [Kinds -> {"none", "armed", "fired"}]
        /\ loop' \in {"select", "stop", "start", "core", "term", "exit", "exited"}
        /\ ReloadExcludesImport'
    BY <1>1, <2>1, HandleType DEF ReceiveSignal
  <2> QED BY <1>1, <2>1, <2>2 DEF ReceiveSignal
<1>2. ASSUME NEW kind \in Kinds, ReceiveReady(kind)
      PROVE  (Typed /\ DelayedIsImported /\ ReloadExcludesImport)'
  <2>1. Cleared(kind) \in [Kinds -> {"none", "armed", "fired"}]
    BY DEF Cleared
  <2>2. /\ gate' \in [Kinds -> {"none", "armed", "fired"}]
        /\ loop' \in {"select", "stop", "start", "core", "term", "exit", "exited"}
        /\ ReloadExcludesImport'
    BY <1>2, <2>1, HandleType DEF ReceiveReady
  <2> QED BY <1>2, <2>2 DEF ReceiveReady
<1>3. ASSUME NEW kind \in Kinds, TimerFires(kind)
      PROVE  (Typed /\ DelayedIsImported /\ ReloadExcludesImport)'
  BY <1>3 DEF TimerFires
<1>4. CASE ReloadStop
  BY <1>4 DEF ReloadStop
<1>5. CASE ReloadStart
  BY <1>5 DEF ReloadStart
<1>6. CASE ReloadCore
  BY <1>6 DEF ReloadCore
<1>7. CASE Shutdown
  BY <1>7 DEF Shutdown
<1>8. CASE Exit
  BY <1>8 DEF Exit
<1> QED BY <1>1, <1>2, <1>3, <1>4, <1>5, <1>6, <1>7, <1>8 DEF LoopStep

\* Imports: one begins only outside a reload, and owes one delayed SIGHUP.
LEMMA ImportInv ==
    ASSUME Inv, ImportBegin \/ ImportStep
    PROVE  (Typed /\ DelayedIsImported /\ ReloadExcludesImport)'
<1> USE DEF Inv, Typed, DelayedIsImported, ReloadExcludesImport, HoldsLifecycle, core, budget
<1>1. CASE ImportBegin
  BY <1>1, BoundsAssumption DEF ImportBegin
<1>2. CASE ImportCommit
  BY <1>2 DEF ImportCommit
<1>3. CASE ImportEnd
  BY <1>3 DEF ImportEnd
<1>4. CASE ScheduleRestoreReload
  BY <1>4 DEF ScheduleRestoreReload
<1> QED BY <1>1, <1>2, <1>3, <1>4 DEF ImportStep

\* Orders of an administrator.
LEMMA AdminInv ==
    ASSUME Inv, AdminStopXray \/ AdminRestartXray
    PROVE  (Typed /\ DelayedIsImported /\ ReloadExcludesImport)'
<1> USE DEF Inv, Typed, DelayedIsImported, ReloadExcludesImport, HoldsLifecycle
<1>1. CASE AdminStopXray
  BY <1>1, BoundsAssumption DEF AdminStopXray
<1>2. CASE AdminRestartXray
  BY <1>2, BoundsAssumption DEF AdminRestartXray
<1> QED BY <1>1, <1>2

\* Every step preserves the inductive invariant.
LEMMA StepInv == Inv /\ [Next]_vars => Inv'
<1> SUFFICES ASSUME Inv, [Next]_vars PROVE Inv'
  OBVIOUS
<1>1. CASE UNCHANGED vars
  <2>1. Flags' /\ Typed'
    BY <1>1, Zenon DEF vars, Inv, Flags, Typed
  <2>2. DelayedIsImported' /\ ReloadExcludesImport'
    BY <1>1 DEF vars, Inv, DelayedIsImported, ReloadExcludesImport, HoldsLifecycle
  <2> QED BY <2>1, <2>2 DEF Inv
<1>2. CASE Next
  <2>1. (Typed /\ DelayedIsImported /\ ReloadExcludesImport)'
    <3>1. CASE Quiet
      BY <1>1, <3>1 DEF Quiet, Inv
    <3> QED BY <1>2, <3>1, SendInv, LoopStepInv, ImportInv, AdminInv DEF Next
  <2> QED BY <2>1, FlagsStep DEF Inv
<1> QED BY <1>1, <1>2

\* No reload overlaps an import that holds the barrier, however signals, retry
\* timers, imports and orders interleave and however many there are.
THEOREM ReloadsExcludeImports == Spec => []LoopInv
  BY InitInv, StepInv, InvImplies, PTL DEF Spec
=============================================================================
