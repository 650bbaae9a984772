------------------------ MODULE RestoreBarrier_proof ------------------------
(* Proofs about RestoreBarrier, for every number of requests of every role. *)
EXTENDS RestoreBarrier, TLAPS

\* Label changes: what Goto does to pc, for a label of the process's own role.
LEMMA GotoEffect ==
    ASSUME TypeOK, NEW p \in Procs, NEW from, NEW to \in RolePCs(p),
           Goto(p, from, to)
    PROVE  /\ pc[p] = from
           /\ pc'[p] = to
           /\ \A q \in Procs : q # p => pc'[q] = pc[q]
           /\ pc' \in [Procs -> WriterPCs \cup ExporterPCs \cup LoopPCs \cup ImporterPCs]
           /\ \A q \in Procs : pc'[q] \in RolePCs(q)
<1>1. to \in WriterPCs \cup ExporterPCs \cup LoopPCs \cup ImporterPCs
  BY DEF RolePCs
<1>2. /\ pc[p] = from
      /\ pc'[p] = to
      /\ \A q \in Procs : q # p => pc'[q] = pc[q]
      /\ pc' \in [Procs -> WriterPCs \cup ExporterPCs \cup LoopPCs \cup ImporterPCs]
  BY <1>1 DEF TypeOK, Goto
<1>3. \A q \in Procs : pc'[q] \in RolePCs(q)
  <2> TAKE q \in Procs
  <2>1. CASE q = p
    BY <2>1, <1>2
  <2>2. CASE q # p
    <3>1. pc[q] \in RolePCs(q)
      BY DEF TypeOK
    <3> QED BY <3>1, <2>2, <1>2
  <2> QED BY <2>1, <2>2
<1> QED BY <1>2, <1>3

\* The labels of each role.
LEMMA RoleLabels ==
    /\ \A p \in Writers : p \in Procs /\ RolePCs(p) = WriterPCs /\ p \notin Loops /\ p \notin Importers
    /\ \A p \in Exporters : p \in Procs /\ RolePCs(p) = ExporterPCs /\ p \notin Loops /\ p \notin Importers
    /\ \A p \in Loops : p \in Procs /\ RolePCs(p) = LoopPCs /\ p \notin Writers /\ p \notin Importers
    /\ \A p \in Importers : p \in Procs /\ RolePCs(p) = ImporterPCs /\ p \notin Writers /\ p \notin Loops
BY RolesAssumption DEF Procs, RolePCs

\* A step of one process leaves every other process where it is.
LEMMA Frame ==
    ASSUME TypeOK, NEW p \in Procs, Writer(p) \/ Exporter(p) \/ Loop(p) \/ Importer(p),
           NEW q \in Procs, q # p
    PROVE  pc'[q] = pc[q]
<1>1. CASE Writer(p)
  BY <1>1 DEF TypeOK, Writer, RestoreAdmission, RestoreJobAdmission, TryMutation, TryMutationCheck,
     TryMutationRLock, TryMutationRecheck, TryMutationUndo, WriterBody, WriterUnlock, ReleaseMutation, Goto
<1>2. CASE Exporter(p)
  BY <1>2 DEF TypeOK, Exporter, ExportAdmission, ExportBackup, Goto
<1>3. CASE Loop(p)
  BY <1>3 DEF TypeOK, Loop, LoopAdmission, TryLifecycle, TryLock, TryMutation, TryMutationCheck,
     TryMutationRLock, TryMutationRecheck, TryMutationUndo, LifecycleMark, Reload,
     LifecycleUnmark, LifecycleRUnlock, LifecycleUnbegin, Goto
<1>4. CASE Importer(p)
  BY <1>4 DEF TypeOK, Importer, ImportAdmission, ImportSerialize, ImportPrepare, TryBeginRestore, TryLock,
     BeginRestoreActive, BeginRestoreAnnounce, BeginRestoreDrain, ImportListeners, ImportCommit,
     EndRestoreActive, EndRestoreUnlock, ImportEnd, Goto
<1> QED BY <1>1, <1>2, <1>3, <1>4

\* Type correctness, action by action.
LEMMA TypeWriter ==
    ASSUME TypeOK, NEW w \in Writers, Writer(w)
    PROVE  TypeOK'
<1> w \in Procs /\ RolePCs(w) = WriterPCs /\ w \notin Loops
  BY RoleLabels
<1>1. Refused(w) \in WriterPCs /\ Admitted(w) \in WriterPCs
  BY DEF Refused, Admitted, WriterPCs, WriterWork
<1>2. CASE RestoreAdmission(w) \/ RestoreJobAdmission(w)
  <2>1. "tm_check" \in RolePCs(w)
    BY DEF WriterPCs, TryMutationPCs
  <2> QED BY <1>2, <2>1, GotoEffect DEF TypeOK, RestoreAdmission, RestoreJobAdmission, flags, rwmutex
<1>3. CASE TryMutationCheck(w)
  <2>1. (IF active THEN Refused(w) ELSE "tm_rlock") \in RolePCs(w)
    BY <1>1 DEF WriterPCs, TryMutationPCs
  <2> QED BY <1>3, <2>1, GotoEffect DEF TypeOK, TryMutationCheck, flags, rwmutex
<1>4. CASE TryMutationRLock(w)
  <2>1. "tm_recheck" \in RolePCs(w)
    BY DEF WriterPCs, TryMutationPCs
  <2> QED BY <1>4, <2>1, <1>1, GotoEffect DEF TypeOK, TryMutationRLock, flags, rwmutex
<1>5. CASE TryMutationRecheck(w)
  <2>1. (IF active THEN "tm_undo" ELSE Admitted(w)) \in RolePCs(w)
    BY <1>1 DEF WriterPCs, TryMutationPCs
  <2> QED BY <1>5, <2>1, GotoEffect DEF TypeOK, TryMutationRecheck, flags, rwmutex
<1>6. CASE TryMutationUndo(w)
  BY <1>6, <1>1, GotoEffect DEF TypeOK, TryMutationUndo, flags, rwmutex
<1>7. CASE WriterBody(w)
  <2>1. {"snap_want", "snap_held", "core_want", "core_held"} \subseteq RolePCs(w)
    BY DEF WriterPCs, WriterWork
  <2> QED BY <1>7, <2>1, GotoEffect DEF TypeOK, WriterBody, flags, rwmutex, Lock
<1>8. CASE WriterUnlock(w)
  <2>1. "leaving" \in RolePCs(w)
    BY DEF WriterPCs, WriterWork
  <2> QED BY <1>8, <2>1, GotoEffect DEF TypeOK, WriterUnlock, flags, rwmutex, Unlock
<1>9. CASE ReleaseMutation(w)
  <2>1. "idle" \in RolePCs(w)
    BY DEF WriterPCs
  <2> QED BY <1>9, <2>1, GotoEffect DEF TypeOK, ReleaseMutation, flags, rwmutex
<1> QED BY <1>2, <1>3, <1>4, <1>5, <1>6, <1>7, <1>8, <1>9 DEF Writer, TryMutation

\* The steps of a backup download (GetBackup) preserve TypeOK.
LEMMA TypeExporter ==
    ASSUME TypeOK, NEW e \in Exporters, Exporter(e)
    PROVE  TypeOK'
<1> e \in Procs /\ RolePCs(e) = ExporterPCs
  BY RoleLabels
<1>1. {"idle", "get_want", "get_held"} \subseteq RolePCs(e)
  BY DEF ExporterPCs
<1>2. CASE ExportAdmission(e)
  BY <1>1, <1>2, GotoEffect DEF TypeOK, ExportAdmission, flags, rwmutex
<1>3. CASE ExportBackup(e)
  BY <1>1, <1>3, GotoEffect DEF TypeOK, ExportBackup, flags, rwmutex, Lock, Unlock
<1> QED BY <1>2, <1>3 DEF Exporter

\* The steps of the signal loop, TryLifecycle and its release included, preserve TypeOK.
LEMMA TypeLoop ==
    ASSUME TypeOK, NEW l \in Loops, Loop(l)
    PROVE  TypeOK'
<1> l \in Procs /\ RolePCs(l) = LoopPCs
  BY RoleLabels
<1>1. {"idle", "tm_check", "tm_rlock", "tm_recheck", "tm_undo", "lc_fail",
       "lc_mark", "stop_want", "stop_held", "restart_want", "restart_held",
       "lc_unmark", "lc_runlock", "lc_unbegin"} \subseteq RolePCs(l)
  BY DEF LoopPCs, TryMutationPCs, Reloading
<1>2. Refused(l) = "lc_fail" /\ Admitted(l) = "lc_mark"
  BY DEF Refused, Admitted
<1>3. CASE TryLifecycle(l)
  BY <1>1, <1>3, GotoEffect DEF TypeOK, TryLifecycle, TryLock, Lock, flags, rwmutex
<1>4. CASE TryMutationCheck(l)
  <2>1. (IF active THEN Refused(l) ELSE "tm_rlock") \in RolePCs(l)
    BY <1>1, <1>2
  <2> QED BY <1>4, <2>1, GotoEffect DEF TypeOK, TryMutationCheck, flags, rwmutex
<1>5. CASE TryMutationRLock(l)
  BY <1>1, <1>2, <1>5, GotoEffect DEF TypeOK, TryMutationRLock, flags, rwmutex
<1>6. CASE TryMutationRecheck(l)
  <2>1. (IF active THEN "tm_undo" ELSE Admitted(l)) \in RolePCs(l)
    BY <1>1, <1>2
  <2> QED BY <1>6, <2>1, GotoEffect DEF TypeOK, TryMutationRecheck, flags, rwmutex
<1>7. CASE TryMutationUndo(l)
  BY <1>1, <1>2, <1>7, GotoEffect DEF TypeOK, TryMutationUndo, flags, rwmutex
<1>8. CASE LifecycleUnbegin(l)
  BY <1>1, <1>8, GotoEffect DEF TypeOK, LifecycleUnbegin, Unlock, flags, rwmutex
<1>9. CASE LifecycleMark(l)
  BY <1>1, <1>9, GotoEffect DEF TypeOK, LifecycleMark, rwmutex
<1>10. CASE Reload(l)
  BY <1>1, <1>10, GotoEffect DEF TypeOK, Reload, Lock, Unlock, flags, rwmutex
<1>11. CASE LifecycleUnmark(l)
  BY <1>1, <1>11, GotoEffect DEF TypeOK, LifecycleUnmark, rwmutex
<1>12. CASE LifecycleRUnlock(l)
  BY <1>1, <1>12, GotoEffect DEF TypeOK, LifecycleRUnlock, flags, rwmutex
<1> QED BY <1>3, <1>4, <1>5, <1>6, <1>7, <1>8, <1>9, <1>10, <1>11, <1>12
        DEF Loop, LoopAdmission, TryMutation

\* The steps of an import (importPortableBackup) preserve TypeOK.
LEMMA TypeImporter ==
    ASSUME TypeOK, NEW i \in Importers, Importer(i)
    PROVE  TypeOK'
<1> i \in Procs /\ RolePCs(i) = ImporterPCs
  BY RoleLabels
<1>1. {"idle", "im_life", "im_serial", "im_prepare", "im_begin", "im_active",
       "im_lock", "im_drain", "im_listen", "im_snap", "im_core", "im_commit",
       "im_unsnap", "im_end", "im_wunlock", "im_unbegin", "im_unserial"}
          \subseteq RolePCs(i)
  BY DEF ImporterPCs, Maintenance, Committing
<1>2. CASE ImportAdmission(i)
  <2>1. (IF lifecycle THEN "idle" ELSE "im_serial") \in RolePCs(i)
    BY <1>1
  <2> QED BY <1>1, <1>2, <2>1, GotoEffect DEF TypeOK, ImportAdmission, flags, rwmutex
<1>3. CASE ImportSerialize(i)
  BY <1>1, <1>3, GotoEffect DEF TypeOK, ImportSerialize, Lock, flags, rwmutex
<1>4. CASE ImportPrepare(i) \/ ImportListeners(i)
  BY <1>1, <1>4, GotoEffect DEF TypeOK, ImportPrepare, ImportListeners, flags, rwmutex
<1>5. CASE TryBeginRestore(i)
  BY <1>1, <1>5, GotoEffect DEF TypeOK, TryBeginRestore, TryLock, Lock, flags, rwmutex
<1>6. CASE BeginRestoreActive(i) \/ EndRestoreActive(i)
  BY <1>1, <1>6, GotoEffect DEF TypeOK, BeginRestoreActive, EndRestoreActive, rwmutex
<1>7. CASE BeginRestoreAnnounce(i) \/ EndRestoreUnlock(i)
  BY <1>1, <1>7, GotoEffect DEF TypeOK, BeginRestoreAnnounce, EndRestoreUnlock, flags
<1>8. CASE BeginRestoreDrain(i)
  BY <1>1, <1>8, GotoEffect DEF TypeOK, BeginRestoreDrain, flags, rwmutex
<1>9. CASE ImportCommit(i)
  BY <1>1, <1>9, GotoEffect DEF TypeOK, ImportCommit, Lock, Unlock, flags, rwmutex
<1>10. CASE ImportEnd(i)
  BY <1>1, <1>10, GotoEffect DEF TypeOK, ImportEnd, Unlock, flags, rwmutex
<1> QED BY <1>2, <1>3, <1>4, <1>5, <1>6, <1>7, <1>8, <1>9, <1>10 DEF Importer

\* Every reachable state is well typed: the barrier's variables keep their
\* types and each goroutine only reaches labels of its own role.
THEOREM TypeCorrect == Spec => []TypeOK
<1>1. Init => TypeOK
  <2> SUFFICES ASSUME Init PROVE TypeOK
    OBVIOUS
  <2>1. \A p \in Procs : "idle" \in RolePCs(p)
    BY DEF RolePCs, WriterPCs, ExporterPCs, LoopPCs, ImporterPCs
  <2> QED BY <2>1 DEF Init, TypeOK, WriterPCs
<1>2. TypeOK /\ [Next]_vars => TypeOK'
  <2> SUFFICES ASSUME TypeOK, [Next]_vars PROVE TypeOK'
    OBVIOUS
  <2>1. CASE UNCHANGED vars
    BY <2>1 DEF vars, TypeOK
  <2> QED BY <2>1, TypeWriter, TypeExporter, TypeLoop, TypeImporter DEF Next
<1> QED BY <1>1, <1>2, PTL DEF Spec

-----------------------------------------------------------------------------
(* The inductive invariant.                                                *)

\* A writer changes no flag and neither `begin' nor `writer'; what it may change
\* is its own membership of readers.
LEMMA InvWriter ==
    ASSUME TypeOK, BarrierInv, NEW w \in Writers, Writer(w)
    PROVE  BarrierInv'
<1> USE RoleLabels DEF WriterPCs, WriterWork, TryMutationPCs
<1> w \in Procs /\ RolePCs(w) = WriterPCs /\ w \notin Loops /\ w \notin Importers
  OBVIOUS
<1>0. Refused(w) = "idle" /\ Admitted(w) = "admitted"
  BY DEF Refused, Admitted
<1>1. /\ \A q \in Procs : q # w => pc'[q] = pc[q]
      /\ pc[w] \in WriterPCs /\ pc'[w] \in WriterPCs
      /\ active' = active /\ owner'["begin"] = owner["begin"] /\ writer' = writer
  <2>1. \A q \in Procs : q # w => pc'[q] = pc[q]
    BY Frame
  <2>2. pc[w] \in WriterPCs /\ pc'[w] \in WriterPCs
    BY TypeWriter DEF TypeOK
  <2>3. active' = active /\ owner'["begin"] = owner["begin"] /\ writer' = writer
    BY DEF TypeOK, Writer, RestoreAdmission, RestoreJobAdmission, TryMutation, TryMutationCheck,
       TryMutationRLock, TryMutationRecheck, TryMutationUndo, WriterBody, WriterUnlock,
       ReleaseMutation, Lock, Unlock, BackupMutex, flags, rwmutex, Mutexes
  <2> QED BY <2>1, <2>2, <2>3
<1>2. BeginAccounted' /\ WriterAccounted' /\ ActiveAccounted'
  BY <1>1 DEF BarrierInv, BeginAccounted, HoldsBegin, WriterAccounted, ActiveAccounted
<1>3. /\ readers' \ {w} = readers \ {w}
      /\ w \in readers' <=> HoldsRead(w)'
      /\ ~(readers' \subseteq readers) => writer = NoOne
      /\ pc'[w] = "tm_undo" => active
  <2>1. CASE RestoreAdmission(w) \/ RestoreJobAdmission(w)
    BY <2>1 DEF BarrierInv, ReadersAccounted, HoldsRead, TypeOK, RestoreAdmission, RestoreJobAdmission, Goto, rwmutex
  <2>2. CASE TryMutationCheck(w)
    BY <2>2, <1>0 DEF BarrierInv, ReadersAccounted, HoldsRead, TypeOK, TryMutationCheck, Goto, rwmutex
  <2>3. CASE TryMutationRLock(w)
    BY <2>3, <1>0 DEF BarrierInv, ReadersAccounted, HoldsRead, TypeOK, TryMutationRLock, Goto
  <2>4. CASE TryMutationRecheck(w)
    BY <2>4, <1>0 DEF BarrierInv, ReadersAccounted, HoldsRead, TypeOK, TryMutationRecheck, Goto, rwmutex
  <2>5. CASE TryMutationUndo(w)
    BY <2>5, <1>0 DEF BarrierInv, ReadersAccounted, HoldsRead, TypeOK, TryMutationUndo, Goto
  <2>6. CASE WriterBody(w) \/ WriterUnlock(w)
    BY <2>6 DEF BarrierInv, ReadersAccounted, HoldsRead, TypeOK, WriterBody, WriterUnlock, Goto, rwmutex
  <2>7. CASE ReleaseMutation(w)
    BY <2>7 DEF BarrierInv, ReadersAccounted, HoldsRead, TypeOK, ReleaseMutation, Goto
  <2> QED BY <2>1, <2>2, <2>3, <2>4, <2>5, <2>6, <2>7 DEF Writer, TryMutation
<1>4. ReadersAccounted'
  BY <1>1, <1>3 DEF BarrierInv, ReadersAccounted, HoldsRead
<1>5. DrainedBeforeCommit'
  <2> SUFFICES ASSUME NEW i \in Importers, pc'[i] \in Committing \cup {"im_wunlock"}
               PROVE  readers' = {}
    BY DEF DrainedBeforeCommit
  <2>1. i # w /\ i # NoOne /\ pc'[i] = pc[i]
    BY <1>1, RolesAssumption
  <2>2. readers = {} /\ writer = i
    BY <2>1 DEF BarrierInv, DrainedBeforeCommit, WriterAccounted, Maintenance, Committing
  <2> QED BY <2>1, <2>2, <1>3
<1>6. UndoMeansActive'
  BY <1>1, <1>3 DEF BarrierInv, UndoMeansActive
<1> QED BY <1>2, <1>4, <1>5, <1>6 DEF BarrierInv

\* An export touches nothing of the barrier.
LEMMA InvExporter ==
    ASSUME TypeOK, BarrierInv, NEW e \in Exporters, Exporter(e)
    PROVE  BarrierInv'
<1> USE RoleLabels DEF ExporterPCs
<1>0. e \in Procs /\ e \notin Loops /\ e \notin Importers /\ e \notin Writers
  BY RolesAssumption
<1>1. /\ \A q \in Procs : q # e => pc'[q] = pc[q]
      /\ active' = active /\ writer' = writer /\ readers' = readers
  BY DEF TypeOK, Exporter, ExportAdmission, ExportBackup, Goto, flags, rwmutex
<1>2. owner'["begin"] = owner["begin"]
  BY DEF TypeOK, Exporter, ExportAdmission, ExportBackup, Lock, Unlock, BackupMutex, Mutexes
<1>3. pc[e] # "tm_undo" /\ pc'[e] # "tm_undo"
  <2>1. pc[e] \in ExporterPCs /\ pc'[e] \in ExporterPCs
    BY <1>0, TypeExporter DEF TypeOK
  <2> QED BY <2>1
<1>4. ReadersAccounted' /\ BeginAccounted' /\ WriterAccounted' /\ ActiveAccounted'
  BY <1>0, <1>1, <1>2 DEF BarrierInv, ReadersAccounted, HoldsRead, BeginAccounted, HoldsBegin, WriterAccounted,
     ActiveAccounted
<1>5. DrainedBeforeCommit' /\ UndoMeansActive'
  BY <1>0, <1>1, <1>3 DEF BarrierInv, DrainedBeforeCommit, UndoMeansActive
<1> QED BY <1>4, <1>5 DEF BarrierInv

\* The loop may take and give back a read lock and `begin'.
LEMMA InvLoop ==
    ASSUME TypeOK, BarrierInv, NEW l \in Loops, Loop(l)
    PROVE  BarrierInv'
<1> USE RoleLabels DEF LoopPCs, TryMutationPCs, Reloading
<1> l \in Procs /\ RolePCs(l) = LoopPCs /\ l \notin Writers /\ l \notin Importers /\ l # NoOne
  BY RolesAssumption
<1>0. Refused(l) = "lc_fail" /\ Admitted(l) = "lc_mark"
  BY DEF Refused, Admitted
<1>1. /\ \A q \in Procs : q # l => pc'[q] = pc[q]
      /\ pc[l] \in LoopPCs /\ pc'[l] \in LoopPCs
      /\ active' = active /\ writer' = writer
  <2>1. \A q \in Procs : q # l => pc'[q] = pc[q]
    BY Frame
  <2>2. pc[l] \in LoopPCs /\ pc'[l] \in LoopPCs
    BY TypeLoop DEF TypeOK
  <2>3. active' = active /\ writer' = writer
    BY DEF Loop, LoopAdmission, TryLifecycle, TryMutation, TryMutationCheck, TryMutationRLock, TryMutationRecheck,
       TryMutationUndo, LifecycleMark, Reload, LifecycleUnmark, LifecycleRUnlock,
       LifecycleUnbegin, flags, rwmutex
  <2> QED BY <2>1, <2>2, <2>3
<1>2. WriterAccounted' /\ ActiveAccounted'
  BY <1>1 DEF BarrierInv, WriterAccounted, ActiveAccounted
<1>3. /\ readers' \ {l} = readers \ {l}
      /\ l \in readers' <=> HoldsRead(l)'
      /\ ~(readers' \subseteq readers) => writer = NoOne
      /\ pc'[l] = "tm_undo" => active
      /\ owner'["begin"] = l <=> pc'[l] # "idle"
      /\ owner'["begin"] # owner["begin"] => {owner["begin"], owner'["begin"]} = {l, NoOne}
  <2> USE <1>0 DEF BarrierInv, ReadersAccounted, BeginAccounted, HoldsRead, HoldsBegin, TypeOK, Goto, Mutexes
  <2>1. CASE TryLifecycle(l)
    BY <2>1 DEF TryLifecycle, TryLock, Lock, rwmutex
  <2>2. CASE TryMutationCheck(l)
    BY <2>2 DEF TryMutationCheck, rwmutex
  <2>3. CASE TryMutationRLock(l)
    BY <2>3 DEF TryMutationRLock
  <2>4. CASE TryMutationRecheck(l)
    BY <2>4 DEF TryMutationRecheck, rwmutex
  <2>5. CASE TryMutationUndo(l)
    BY <2>5 DEF TryMutationUndo
  <2>6. CASE LifecycleUnbegin(l)
    BY <2>6 DEF LifecycleUnbegin, Unlock, rwmutex
  <2>7. CASE LifecycleMark(l) \/ LifecycleUnmark(l)
    BY <2>7 DEF LifecycleMark, LifecycleUnmark, rwmutex
  <2>8. CASE Reload(l)
    BY <2>8 DEF Reload, Lock, Unlock, rwmutex
  <2>9. CASE LifecycleRUnlock(l)
    BY <2>9 DEF LifecycleRUnlock
  <2> QED BY <2>1, <2>2, <2>3, <2>4, <2>5, <2>6, <2>7, <2>8, <2>9 DEF Loop, LoopAdmission, TryMutation
<1>4. ReadersAccounted'
  BY <1>1, <1>3 DEF BarrierInv, ReadersAccounted, HoldsRead
<1>5. BeginAccounted'
  BY <1>1, <1>3, RolesAssumption DEF BarrierInv, BeginAccounted, HoldsBegin
<1>6. DrainedBeforeCommit'
  <2> SUFFICES ASSUME NEW i \in Importers, pc'[i] \in Committing \cup {"im_wunlock"}
               PROVE  readers' = {}
    BY DEF DrainedBeforeCommit
  <2>1. i # l /\ i # NoOne /\ pc'[i] = pc[i]
    BY <1>1, RolesAssumption
  <2>2. readers = {} /\ writer = i
    BY <2>1 DEF BarrierInv, DrainedBeforeCommit, WriterAccounted, Maintenance, Committing
  <2> QED BY <2>1, <2>2, <1>3
<1>7. UndoMeansActive'
  BY <1>1, <1>3 DEF BarrierInv, UndoMeansActive
<1> QED BY <1>2, <1>4, <1>5, <1>6, <1>7 DEF BarrierInv

\* Whoever is about to undo its admission holds a read lock.
LEMMA UndoReads ==
    ASSUME TypeOK, BarrierInv, NEW p \in Procs, pc[p] = "tm_undo"
    PROVE  p \in readers
<1>1. p \in Writers \cup Loops
  <2>1. pc[p] \in RolePCs(p)
    BY DEF TypeOK
  <2>2. "tm_undo" \notin ExporterPCs /\ "tm_undo" \notin ImporterPCs
    BY DEF ExporterPCs, ImporterPCs, Maintenance, Committing
  <2> QED BY <2>1, <2>2, RoleLabels DEF Procs
<1> QED BY <1>1 DEF BarrierInv, ReadersAccounted, HoldsRead

\* The importer is the only one to change active and writer; it does so while
\* it holds `begin', hence alone.
LEMMA InvImporter ==
    ASSUME TypeOK, BarrierInv, NEW i \in Importers, Importer(i)
    PROVE  BarrierInv'
<1> USE RoleLabels DEF ImporterPCs, Maintenance, Committing
<1> i \in Procs /\ RolePCs(i) = ImporterPCs /\ i \notin Writers /\ i \notin Loops /\ i # NoOne
  BY RolesAssumption
<1>1. /\ \A q \in Procs : q # i => pc'[q] = pc[q]
      /\ pc[i] \in ImporterPCs /\ pc'[i] \in ImporterPCs
      /\ readers' = readers
  <2>1. \A q \in Procs : q # i => pc'[q] = pc[q]
    BY Frame
  <2>2. pc[i] \in ImporterPCs /\ pc'[i] \in ImporterPCs
    BY TypeImporter DEF TypeOK
  <2>3. readers' = readers
    BY DEF Importer, ImportAdmission, ImportSerialize, ImportPrepare, TryBeginRestore, BeginRestoreActive,
       BeginRestoreAnnounce, BeginRestoreDrain, ImportListeners, ImportCommit, EndRestoreActive,
       EndRestoreUnlock, ImportEnd, rwmutex
  <2> QED BY <2>1, <2>2, <2>3
<1>2. ReadersAccounted'
  BY <1>1 DEF BarrierInv, ReadersAccounted, HoldsRead
<1>3. /\ owner'["begin"] = i <=> HoldsBegin(i)'
      /\ owner'["begin"] # owner["begin"] => {owner["begin"], owner'["begin"]} = {i, NoOne}
      /\ writer' = i <=> pc'[i] \in Maintenance \ {"im_lock"}
      /\ writer' # writer => {writer, writer'} = {i, NoOne}
      /\ pc'[i] \in Committing \cup {"im_wunlock"} => readers = {}
      /\ active' # active => /\ active' <=> pc'[i] \in Maintenance \ {"im_wunlock"}
                             /\ HoldsBegin(i)
                             /\ ~active' => readers = {}
      /\ active' = active => (pc[i] \in Maintenance \ {"im_wunlock"} <=> pc'[i] \in Maintenance \ {"im_wunlock"})
  <2> USE DEF BarrierInv, BeginAccounted, HoldsBegin, WriterAccounted, ActiveAccounted, DrainedBeforeCommit,
          TypeOK, Goto, Mutexes
  <2>1. CASE ImportAdmission(i)
    BY <2>1 DEF ImportAdmission, flags, rwmutex
  <2>2. CASE ImportSerialize(i)
    BY <2>2 DEF ImportSerialize, Lock, flags, rwmutex
  <2>3. CASE ImportPrepare(i) \/ ImportListeners(i)
    BY <2>3 DEF ImportPrepare, ImportListeners, flags, rwmutex
  <2>4. CASE TryBeginRestore(i)
    BY <2>4 DEF TryBeginRestore, TryLock, Lock, flags, rwmutex
  <2>5. CASE BeginRestoreActive(i)
    <3>1. pc[i] = "im_active" /\ HoldsBegin(i)
      BY <2>5 DEF BeginRestoreActive
    <3>2. \A j \in Importers : pc[j] \notin Maintenance
      BY <3>1
    <3>3. active = FALSE
      BY <3>2
    <3>4. /\ pc'[i] = "im_lock" /\ active' = TRUE
          /\ owner' = owner /\ writer' = writer
      BY <2>5 DEF BeginRestoreActive, rwmutex
    <3>5. writer # i /\ owner["begin"] = i
      BY <3>1
    <3> QED BY <3>1, <3>3, <3>4, <3>5
  <2>6. CASE BeginRestoreAnnounce(i)
    BY <2>6 DEF BeginRestoreAnnounce, flags
  <2>7. CASE BeginRestoreDrain(i)
    BY <2>7 DEF BeginRestoreDrain, flags, rwmutex
  <2>8. CASE ImportCommit(i)
    BY <2>8 DEF ImportCommit, Lock, Unlock, flags, rwmutex
  <2>9. CASE EndRestoreActive(i)
    BY <2>9 DEF EndRestoreActive, rwmutex
  <2>10. CASE EndRestoreUnlock(i)
    BY <2>10 DEF EndRestoreUnlock, flags
  <2>11. CASE ImportEnd(i)
    BY <2>11 DEF ImportEnd, Unlock, flags, rwmutex
  <2> QED BY <2>1, <2>2, <2>3, <2>4, <2>5, <2>6, <2>7, <2>8, <2>9, <2>10, <2>11 DEF Importer
<1>4. BeginAccounted'
  BY <1>1, <1>3, RolesAssumption DEF BarrierInv, BeginAccounted, HoldsBegin
<1>5. WriterAccounted'
  BY <1>1, <1>3, RolesAssumption DEF BarrierInv, WriterAccounted
<1>6. ActiveAccounted'
  <2>1. CASE active' = active
    BY <2>1, <1>1, <1>3 DEF BarrierInv, ActiveAccounted
  <2>2. CASE active' # active
    <3>1. \A j \in Importers : j # i => pc'[j] = pc[j] /\ pc[j] \notin Maintenance
      BY <2>2, <1>1, <1>3 DEF BarrierInv, BeginAccounted, HoldsBegin
    <3> QED BY <2>2, <3>1, <1>3 DEF ActiveAccounted
  <2> QED BY <2>1, <2>2
<1>7. DrainedBeforeCommit'
  BY <1>1, <1>3 DEF BarrierInv, DrainedBeforeCommit
<1>8. UndoMeansActive'
  <2> SUFFICES ASSUME NEW p \in Procs, pc'[p] = "tm_undo" PROVE active'
    BY DEF UndoMeansActive
  <2>1. p # i /\ pc[p] = "tm_undo"
    BY <1>1
  <2>2. p \in readers /\ active
    BY <2>1, UndoReads DEF BarrierInv, UndoMeansActive
  <2> QED BY <2>2, <1>3
<1> QED BY <1>2, <1>4, <1>5, <1>6, <1>7, <1>8 DEF BarrierInv

\* The locks and flags of the barrier agree with the places of its users in
\* every reachable state.
THEOREM BarrierSafe == Spec => []BarrierInv
<1>1. Init => BarrierInv
  <2> SUFFICES ASSUME Init PROVE BarrierInv
    OBVIOUS
  <2>1. \A p \in Procs : pc[p] = "idle" /\ p # NoOne
    BY RolesAssumption DEF Init
  <2>2. owner["begin"] = NoOne /\ readers = {} /\ writer = NoOne /\ active = FALSE
    BY DEF Init, Mutexes
  <2> USE <2>1, <2>2, RoleLabels DEF TryMutationPCs, WriterWork, Reloading, Maintenance, Committing
  <2>3. ReadersAccounted /\ BeginAccounted
    BY DEF ReadersAccounted, HoldsRead, BeginAccounted, HoldsBegin
  <2>4. WriterAccounted /\ ActiveAccounted /\ DrainedBeforeCommit /\ UndoMeansActive
    BY DEF WriterAccounted, ActiveAccounted, DrainedBeforeCommit, UndoMeansActive
  <2> QED BY <2>3, <2>4 DEF BarrierInv
<1>2. TypeOK /\ BarrierInv /\ [Next]_vars => BarrierInv'
  <2> SUFFICES ASSUME TypeOK, BarrierInv, [Next]_vars PROVE BarrierInv'
    OBVIOUS
  <2>1. CASE UNCHANGED vars
    BY <2>1 DEF vars, BarrierInv, ReadersAccounted, HoldsRead, BeginAccounted, HoldsBegin, WriterAccounted,
       ActiveAccounted, DrainedBeforeCommit, UndoMeansActive
  <2> QED BY <2>1, InvWriter, InvExporter, InvLoop, InvImporter DEF Next
<1> QED BY <1>1, <1>2, TypeCorrect, PTL DEF Spec

\* In a state of the invariant, a committing restore is alone.
LEMMA InvExclusive ==
    ASSUME TypeOK, BarrierInv
    PROVE  RestoreIsExclusive
<1> SUFFICES ASSUME NEW i \in Importers, Restoring(i), NEW p \in Procs \ {i}
             PROVE  ~Mutating(p) /\ ~Restoring(p)
  BY DEF RestoreIsExclusive
<1>1. readers = {} /\ writer = i
  BY DEF BarrierInv, Restoring, DrainedBeforeCommit, WriterAccounted, Maintenance, Committing
<1>2. ~Mutating(p)
  BY <1>1 DEF BarrierInv, ReadersAccounted, HoldsRead, Mutating
<1>3. ~Restoring(p)
  BY <1>1 DEF BarrierInv, Restoring, WriterAccounted, Maintenance, Committing
<1> QED BY <1>2, <1>3

\* However many requests there are, no admitted write, job, Telegram handler or
\* reload and no second restore overlaps the interval in which a restore
\* replaces the live database.
THEOREM RestoreExclusive == Spec => []RestoreIsExclusive
<1>1. TypeOK /\ BarrierInv => RestoreIsExclusive
  BY InvExclusive
<1> QED BY <1>1, TypeCorrect, BarrierSafe, PTL

\* A write is refused only while some restore is in its maintenance interval.
THEOREM RefusalJustified == Spec => RefusalMeansMaintenance
<1>1. TypeOK /\ BarrierInv /\ [Next]_vars =>
        [\A w \in Writers : (pc[w] \in TryMutationPCs /\ pc'[w] = "idle")
             => \E i \in Importers : pc[i] \in Maintenance]_vars
  <2> SUFFICES ASSUME TypeOK, BarrierInv, Next,
                      NEW w \in Writers, pc[w] \in TryMutationPCs, pc'[w] = "idle"
               PROVE  \E i \in Importers : pc[i] \in Maintenance
    BY DEF vars
  <2>1. w \in Procs /\ w \notin Loops /\ w \notin Importers /\ w \notin Exporters
    BY RolesAssumption DEF Procs
  <2>2. active => \E i \in Importers : pc[i] \in Maintenance
    BY DEF BarrierInv, ActiveAccounted
  <2>3. writer # NoOne => \E i \in Importers : pc[i] \in Maintenance
    BY DEF BarrierInv, WriterAccounted
  <2>4. CASE TryMutation(w)
    BY <2>1, <2>2, <2>3, <2>4 DEF TypeOK, BarrierInv, UndoMeansActive, TryMutation, TryMutationCheck,
       TryMutationRLock, TryMutationRecheck, TryMutationUndo, Goto, Admitted
  <2>5. Writer(w)
    <3>1. pc'[w] # pc[w]
      BY DEF TryMutationPCs
    <3> QED BY <2>1, <3>1, Frame, RoleLabels DEF Next
  <2>6. TryMutation(w)
    BY <2>5 DEF Writer, RestoreAdmission, RestoreJobAdmission, WriterBody, WriterUnlock, ReleaseMutation, Goto,
       TryMutationPCs
  <2> QED BY <2>4, <2>6
<1> QED BY <1>1, TypeCorrect, BarrierSafe, PTL DEF Spec, RefusalMeansMaintenance

-----------------------------------------------------------------------------
(* The barrier implements the abstract admission.                          *)

\* Only the process that moves can enter or leave.
LEMMA InsideFrame ==
    ASSUME TypeOK, NEW p \in Procs, Writer(p) \/ Exporter(p) \/ Loop(p) \/ Importer(p)
    PROVE  /\ p \notin inside /\ p \in inside' => inside' = inside \cup {p}
           /\ p \in inside /\ p \notin inside' => inside' = inside \ {p}
           /\ (p \in inside <=> p \in inside') => inside' = inside
<1>1. \A q \in Procs : q # p => (q \in inside' <=> q \in inside)
  BY Frame DEF inside, Mutating, Restoring
<1>2. inside \subseteq Procs /\ inside' \subseteq Procs
  BY DEF inside
<1> QED BY <1>1, <1>2

\* Nobody is inside while i drains the last reader, and no restore is inside
\* while someone reads.
LEMMA InsideAccounted ==
    ASSUME TypeOK, BarrierInv
    PROVE  /\ readers # {} => inside \cap Importers = {}
           /\ \A i \in Importers : readers = {} /\ pc[i] = "im_drain" => inside = {}
           /\ \A l \in Loops : pc[l] = "lc_mark" => inside \cap Loops = {}
<1>1. readers # {} => inside \cap Importers = {}
  BY RoleLabels DEF BarrierInv, inside, Restoring, Mutating, DrainedBeforeCommit
<1>2. ASSUME NEW i \in Importers, readers = {}, pc[i] = "im_drain"
      PROVE  inside = {}
  <2>1. writer = i
    BY <1>2 DEF BarrierInv, WriterAccounted, Maintenance
  <2> SUFFICES ASSUME NEW p \in Procs PROVE ~Mutating(p) /\ ~Restoring(p)
    BY DEF inside
  <2>2. ~Mutating(p)
    BY <1>2 DEF BarrierInv, ReadersAccounted, HoldsRead, Mutating
  <2>3. ~Restoring(p)
    BY <1>2, <2>1 DEF BarrierInv, WriterAccounted, Restoring, Maintenance, Committing
  <2> QED BY <2>2, <2>3
<1>3. ASSUME NEW l \in Loops, pc[l] = "lc_mark"
      PROVE  inside \cap Loops = {}
  <2>1. owner["begin"] = l
    BY <1>3, RoleLabels DEF BarrierInv, BeginAccounted, HoldsBegin
  <2> SUFFICES ASSUME NEW k \in Loops PROVE k \notin inside
    OBVIOUS
  <2>2. CASE k = l
    BY <1>3, <2>2, RoleLabels DEF inside, Mutating, Restoring, Reloading
  <2>3. CASE k # l
    BY <2>1, <2>3, RoleLabels DEF BarrierInv, BeginAccounted, HoldsBegin, inside, Mutating, Restoring, Reloading
  <2> QED BY <2>2, <2>3
<1> QED BY <1>1, <1>2, <1>3

\* Every step of a writer admits a mutation, lets one leave, or is a stutter of
\* Admission.
LEMMA WriterSimulation ==
    ASSUME TypeOK, BarrierInv, NEW w \in Writers, Writer(w)
    PROVE  [Adm!Next]_inside
<1> w \in Procs /\ w \notin Loops /\ w \notin Importers
  BY RoleLabels
<1> USE DEF WriterWork
<1>0. /\ w \in inside <=> pc[w] \in WriterWork
      /\ w \in inside' <=> pc'[w] \in WriterWork
  BY DEF inside, Mutating, Restoring
<1>1. CASE TryMutationRecheck(w) /\ ~active
  <2>1. pc[w] = "tm_recheck" /\ pc'[w] = "admitted"
    BY <1>1 DEF TypeOK, TryMutationRecheck, Goto, Admitted
  <2>2. inside' = inside \cup {w} /\ w \notin inside
    BY <1>0, <2>1, InsideFrame
  <2>3. w \in readers
    BY <2>1 DEF BarrierInv, ReadersAccounted, HoldsRead
  <2>4. inside \cap Importers = {}
    BY <2>3, InsideAccounted
  <2> QED BY <2>2, <2>4 DEF Adm!Next, Adm!AdmitMutation
<1>2. CASE ReleaseMutation(w)
  <2>1. pc[w] \in {"admitted", "leaving"} /\ pc'[w] = "idle"
    BY <1>2 DEF TypeOK, ReleaseMutation, Goto
  <2>2. inside' = inside \ {w} /\ w \in inside
    BY <1>0, <2>1, InsideFrame
  <2> QED BY <2>2 DEF Adm!Next, Adm!Leave
<1>3. CASE ~ReleaseMutation(w) /\ ~(TryMutationRecheck(w) /\ ~active)
  <2>1. pc[w] \in WriterWork <=> pc'[w] \in WriterWork
    BY <1>3 DEF TypeOK, Writer, RestoreAdmission, RestoreJobAdmission, TryMutation, TryMutationCheck,
       TryMutationRLock, TryMutationRecheck, TryMutationUndo, WriterBody, WriterUnlock, Goto, Refused
  <2> QED BY <1>0, <2>1, InsideFrame
<1> QED BY <1>1, <1>2, <1>3

\* Every step of the signal loop admits a reload, lets it leave, or is a stutter.
LEMMA LoopSimulation ==
    ASSUME TypeOK, BarrierInv, NEW l \in Loops, Loop(l)
    PROVE  [Adm!Next]_inside
<1> l \in Procs /\ l \notin Writers /\ l \notin Importers
  BY RoleLabels
<1> USE DEF Reloading
<1>0. /\ l \in inside <=> pc[l] \in Reloading
      /\ l \in inside' <=> pc'[l] \in Reloading
  BY DEF inside, Mutating, Restoring
<1>1. CASE LifecycleMark(l)
  <2>1. pc[l] = "lc_mark" /\ pc'[l] \in Reloading
    BY <1>1 DEF TypeOK, LifecycleMark, Goto
  <2>2. inside' = inside \cup {l} /\ l \notin inside
    BY <1>0, <2>1, InsideFrame
  <2>3. l \in readers
    BY <2>1 DEF BarrierInv, ReadersAccounted, HoldsRead
  <2>4. inside \cap (Importers \cup Loops) = {}
    BY <2>1, <2>3, InsideAccounted
  <2> QED BY <2>2, <2>4 DEF Adm!Next, Adm!AdmitReload
<1>2. CASE l \in inside /\ l \notin inside'
  <2>1. inside' = inside \ {l}
    BY <1>2, InsideFrame
  <2> QED BY <1>2, <2>1 DEF Adm!Next, Adm!Leave
<1>3. CASE ~LifecycleMark(l) /\ ~(l \in inside /\ l \notin inside')
  <2>1. pc'[l] \in Reloading => pc[l] \in Reloading
    BY <1>3 DEF TypeOK, Loop, LoopAdmission, TryLifecycle, TryLock, TryMutation, TryMutationCheck,
       TryMutationRLock, TryMutationRecheck, TryMutationUndo, Reload, LifecycleUnmark,
       LifecycleRUnlock, LifecycleUnbegin, Goto, Refused, Admitted
  <2> QED BY <1>0, <1>3, <2>1, InsideFrame
<1> QED BY <1>1, <1>2, <1>3

\* Every step of an import admits a restore, lets it leave, or is a stutter.
LEMMA ImporterSimulation ==
    ASSUME TypeOK, BarrierInv, NEW i \in Importers, Importer(i)
    PROVE  [Adm!Next]_inside
<1> i \in Procs /\ i \notin Writers /\ i \notin Loops
  BY RoleLabels
<1> USE DEF Committing
<1>0. /\ i \in inside <=> pc[i] \in Committing
      /\ i \in inside' <=> pc'[i] \in Committing
  BY DEF inside, Mutating, Restoring
<1>1. CASE BeginRestoreDrain(i)
  <2>1. pc[i] = "im_drain" /\ pc'[i] = "im_listen" /\ readers = {}
    BY <1>1 DEF TypeOK, BeginRestoreDrain, Goto
  <2>2. inside = {}
    BY <2>1, InsideAccounted
  <2>3. inside' = {i}
    BY <1>0, <2>1, <2>2, InsideFrame
  <2> QED BY <2>2, <2>3 DEF Adm!Next, Adm!AdmitRestore
<1>2. CASE i \in inside /\ i \notin inside'
  <2>1. inside' = inside \ {i}
    BY <1>2, InsideFrame
  <2> QED BY <1>2, <2>1 DEF Adm!Next, Adm!Leave
<1>3. CASE ~BeginRestoreDrain(i) /\ ~(i \in inside /\ i \notin inside')
  <2>1. pc'[i] \in Committing => pc[i] \in Committing
    BY <1>3 DEF TypeOK, Importer, ImportAdmission, ImportSerialize, ImportPrepare, TryBeginRestore, TryLock,
       BeginRestoreActive, BeginRestoreAnnounce, ImportListeners, ImportCommit, EndRestoreActive,
       EndRestoreUnlock, ImportEnd, Goto
  <2> QED BY <1>0, <1>3, <2>1, InsideFrame
<1> QED BY <1>1, <1>2, <1>3

\* The barrier's loads, stores and lock operations implement shared/exclusive
\* admission: every interleaving maps to admissions and departures of the
\* abstract specification, with `inside' the set of bodies being executed.
THEOREM BarrierRefinesAdmission == Spec => ImplementsAdmission
<1>1. Init => Adm!Init
  BY DEF Init, Adm!Init, inside, Mutating, Restoring, WriterWork, Reloading, Committing
<1>2. TypeOK /\ BarrierInv /\ [Next]_vars => [Adm!Next]_inside
  <2> SUFFICES ASSUME TypeOK, BarrierInv, [Next]_vars PROVE [Adm!Next]_inside
    OBVIOUS
  <2>1. CASE UNCHANGED vars
    BY <2>1 DEF vars, inside, Mutating, Restoring
  <2>2. ASSUME NEW e \in Exporters, Exporter(e) PROVE inside' = inside
    <3>1. e \in Procs /\ e \notin inside /\ e \notin inside'
      BY RolesAssumption DEF Procs, inside, Mutating, Restoring
    <3> QED BY <2>2, <3>1, InsideFrame
  <2> QED BY <2>1, <2>2, WriterSimulation, LoopSimulation, ImporterSimulation DEF Next
<1> QED BY <1>1, <1>2, TypeCorrect, BarrierSafe, PTL DEF Spec, ImplementsAdmission, Adm!Spec

=============================================================================
