------------------------ MODULE RepositoryAccessProofs ------------------------
(* Proofs about the users of the repository, for any runs of addsys, any     *)
(* bundles and any sequence of starts of the manager.                        *)
EXTENDS RepositoryAccess, FiniteSetTheorems, SequenceTheorems, TLAPS

(* What is known of everything but the tables.                               *)
Stages == {"absent", "empty", "schema", "whole"}
Locks == {"none", "shared", "reserved", "exclusive"}
Places == {"new", "open", "read", "written", "committing", "done", "dying", "dead"}
Phases == {"down", "persistent schema", "persistent row", "volatile", "volatile schema",
           "volatile row", "prepare", "up", "asked", "reading"}

ControlTypes ==
  /\ stage \in [Files -> Stages] /\ hot \in BOOLEAN
  /\ lock \in [Users -> Locks] /\ pc \in [Jobs -> Places]
  /\ old = [j \in Jobs |-> old[j]] /\ tx = [j \in Jobs |-> tx[j]]
  /\ mgr \in [at : Phases, volatile : Files \cup {"none"}]
  /\ nStarts \in 0..Len(Starts)

(* The manager has looked at a file, or made it, before it goes on.          *)
FilesInOrder ==
  /\ mgr.at \notin {"down", "persistent schema", "persistent row"} => stage["persistent"] = "whole"
  /\ mgr.at \in {"volatile schema", "volatile row", "prepare", "up", "asked", "reading"} =>
       mgr.volatile \in {"volatile", "memory"}
  /\ mgr.at \in {"prepare", "up", "asked", "reading"} => stage[mgr.volatile] = "whole"

(* The lock each process has where it is, and what the locks exclude.        *)
LocksHeld ==
  /\ \A j \in Jobs : /\ pc[j] = "read" => lock[j] = "shared"
                     /\ pc[j] = "written" => lock[j] = "reserved"
                     /\ pc[j] = "committing" => lock[j] = "exclusive"
                     /\ pc[j] \in {"new", "open", "done", "dead"} => lock[j] = "none"
  /\ lock["manager"] = IF mgr.at = "reading" THEN "shared" ELSE "none"

LocksExclude ==
  \A u, v \in Users : u # v => /\ lock[u] = "exclusive" => lock[v] = "none"
                               /\ lock[u] = "reserved" => lock[v] # "reserved"

(* What a run has read is what is committed, until it commits; and what it   *)
(* has written is the import into that.                                      *)
ReadsCurrent ==
  \A j \in Jobs : pc[j] \in {"read", "written", "committing"} => old[j] = OldBundle(db, Path[j])

WritesCurrent == \A j \in Jobs : pc[j] \in {"written", "committing"} => tx[j] = Alone(j)

Control == /\ ControlTypes /\ FilesInOrder /\ LocksHeld /\ LocksExclude
           /\ ReadsCurrent /\ WritesCurrent

-----------------------------------------------------------------------------
(* A repository in use, and nobody running.                                  *)
LEMMA InitControl == Init => Control
<1> SUFFICES ASSUME Init PROVE Control
  OBVIOUS
<1> USE DEF Init, Down
<1>1. ControlTypes
  <2>1. nStarts \in 0..Len(Starts)
    BY AccessAssumption
  <2>2. mgr \in [at : Phases, volatile : Files \cup {"none"}]
    BY DEF Phases
  <2>3. stage \in [Files -> Stages] /\ lock \in [Users -> Locks] /\ pc \in [Jobs -> Places]
    BY DEF Stages, Locks, Places
  <2> QED  BY <2>1, <2>2, <2>3 DEF ControlTypes
<1>2. FilesInOrder
  BY DEF FilesInOrder
<1>3. LocksHeld /\ LocksExclude
  BY DEF LocksHeld, LocksExclude, Users
<1>4. ReadsCurrent /\ WritesCurrent
  BY DEF ReadsCurrent, WritesCurrent
<1> QED  BY <1>1, <1>2, <1>3, <1>4 DEF Control

(* A step of one run, as the others see it: its place and its lock change,   *)
(* and the tables only if it had them to itself.                             *)
LEMMA RunStep ==
  ASSUME Control, NEW j \in Jobs, NEW at \in Places, NEW l \in Locks, NEW o, NEW t,
         pc' = [pc EXCEPT ![j] = at], lock' = [lock EXCEPT ![j] = l],
         old' = [old EXCEPT ![j] = o], tx' = [tx EXCEPT ![j] = t],
         hot' \in BOOLEAN, UNCHANGED <<stage, manager>>,
         /\ at = "read" => l = "shared"
         /\ at = "written" => l = "reserved"
         /\ at = "committing" => l = "exclusive"
         /\ at \in {"new", "open", "done", "dead"} => l = "none",
         \/ l = "none" \/ l = lock[j]
         \/ l = "shared" /\ MayRead(j)
         \/ l = "reserved" /\ MayReserve(j)
         \/ l = "exclusive" /\ MayCommit(j),
         db' = db \/ pc[j] = "committing",
         at \in {"read", "written", "committing"} => db' = db /\ o = OldBundle(db, Path[j]),
         at \in {"written", "committing"} => t = Alone(j)
  PROVE  Control'
<1>1. ControlTypes /\ FilesInOrder /\ LocksHeld /\ LocksExclude /\ ReadsCurrent /\ WritesCurrent
  BY DEF Control
<1>2. j \in Users /\ j # "manager" /\ Jobs \subseteq Users /\ Users = Jobs \cup {"manager"}
  BY AccessAssumption DEF Users
<1>3. /\ pc'[j] = at /\ \A k \in Jobs \ {j} : pc'[k] = pc[k]
      /\ lock'[j] = l /\ \A u \in Users \ {j} : lock'[u] = lock[u]
      /\ old'[j] = o /\ \A k \in Jobs \ {j} : old'[k] = old[k]
      /\ tx'[j] = t /\ \A k \in Jobs \ {j} : tx'[k] = tx[k]
  BY <1>1, <1>2 DEF ControlTypes
<1>4. ControlTypes'
  BY <1>1 DEF ControlTypes, manager
<1>5. FilesInOrder'
  BY <1>1 DEF FilesInOrder, manager
<1>6. LocksHeld'
  BY <1>1, <1>2, <1>3 DEF LocksHeld, manager
<1>7. LocksExclude'
  BY <1>1, <1>2, <1>3 DEF LocksExclude, MayRead, MayReserve, MayCommit, Others, ControlTypes, Locks
<1>8. ASSUME NEW k \in Jobs, pc'[k] \in {"read", "written", "committing"}
      PROVE  db' = db
  <2>1. CASE k = j
    BY <1>3, <1>8, <2>1
  <2>2. CASE k # j /\ pc[j] = "committing"
    <3>1. lock[j] = "exclusive" /\ lock[k] = "none"
      BY <1>1, <1>2, <2>2 DEF LocksHeld, LocksExclude
    <3>2. pc[k] \in {"read", "written", "committing"}
      BY <1>3, <1>8, <2>2
    <3> QED  BY <1>1, <3>1, <3>2 DEF LocksHeld
  <2> QED  BY <2>1, <2>2
<1>9. ReadsCurrent'
  BY <1>1, <1>3, <1>8 DEF ReadsCurrent
<1>10. WritesCurrent'
  <2> SUFFICES ASSUME NEW k \in Jobs, pc'[k] \in {"written", "committing"}
               PROVE  tx'[k] = Alone(k)'
    BY DEF WritesCurrent
  <2>1. db' = db
    BY <1>8
  <2>2. Alone(k)' = Alone(k)
    BY <2>1 DEF Alone
  <2> QED  BY <1>1, <1>3, <2>2 DEF WritesCurrent
<1> QED  BY <1>4, <1>5, <1>6, <1>7, <1>9, <1>10 DEF Control

(* A run's step is one of RunStep.                                           *)
LEMMA AddSysControl ==
  ASSUME Control, NEW j \in Jobs, AddSysStep(j) \/ Kill(j)
  PROVE  Control'
<1>1. /\ ControlTypes /\ LocksHeld /\ ReadsCurrent /\ WritesCurrent
      /\ j \in Users /\ pc[j] \in Places /\ lock[j] \in Locks /\ hot \in BOOLEAN
  BY DEF Control, ControlTypes, Users
<1>2. /\ lock = [lock EXCEPT ![j] = lock[j]]
      /\ old = [old EXCEPT ![j] = old[j]]
      /\ tx = [tx EXCEPT ![j] = tx[j]]
  BY <1>1 DEF ControlTypes
<1> USE DEF repo, Places, Locks
<1>3. CASE OpenRepository(j)
  <2>1. PICK at \in {"dead", "done", "open"} : pc' = [pc EXCEPT ![j] = at] /\ pc[j] = "new"
    BY <1>3 DEF OpenRepository, OpenGoes, Goto
  <2>2. lock[j] = "none"
    BY <1>1, <2>1 DEF LocksHeld
  <2>3. /\ lock' = [lock EXCEPT ![j] = lock[j]] /\ old' = [old EXCEPT ![j] = old[j]]
        /\ tx' = [tx EXCEPT ![j] = tx[j]]
        /\ db' = db /\ hot' \in BOOLEAN /\ UNCHANGED <<stage, manager>>
    BY <1>1, <1>2, <1>3 DEF OpenRepository, OpenGoes
  <2> QED  BY <1>1, <2>1, <2>2, <2>3, RunStep
(* A run that meets a lock, or has no tables or no service, is on its way    *)
(* out with what it holds.                                                   *)
<1>4. ASSUME pc[j] \in {"open", "read", "written"}, Busy(j), UNCHANGED <<repo, old, tx, manager>>, hot' \in BOOLEAN
      PROVE  Control'
  <2> DEFINE l == lock[j]
             o == old[j]
             t == tx[j]
  <2>1. /\ pc' = [pc EXCEPT ![j] = "dying"] /\ lock' = [lock EXCEPT ![j] = l]
        /\ old' = [old EXCEPT ![j] = o] /\ tx' = [tx EXCEPT ![j] = t]
        /\ db' = db /\ UNCHANGED <<stage, manager>>
    BY <1>1, <1>2, <1>4 DEF Busy, Goto
  <2>2. l \in Locks /\ l = lock[j] /\ "dying" \in Places
    BY <1>1
  <2> HIDE DEF l, o, t
  <2> QED  BY <1>1, <1>4, <2>1, <2>2, RunStep
<1>5. CASE ReadOldBundle(j)
  <2>1. CASE HasTables /\ MayRead(j)
    <3>1. pc' = [pc EXCEPT ![j] = "read"] /\ lock' = [lock EXCEPT ![j] = "shared"]
      BY <1>5, <2>1 DEF ReadOldBundle, ReadGoes, Advance, Goto, SetLock
    <3>2. pc'[j] = "read"
      BY <1>1, <3>1 DEF ControlTypes
    <3>3. /\ old' = [old EXCEPT ![j] = OldBundle(db, Path[j])] /\ tx' = [tx EXCEPT ![j] = tx[j]]
          /\ hot' \in BOOLEAN /\ db' = db /\ UNCHANGED <<stage, manager>>
      BY <1>1, <1>2, <1>5, <3>2 DEF ReadOldBundle
    <3> QED  BY <1>1, <2>1, <3>1, <3>3, RunStep
  <2>2. CASE ~(HasTables /\ MayRead(j))
    <3>1. pc[j] = "open" /\ Busy(j) /\ UNCHANGED <<repo, tx, manager>>
      BY <1>5, <2>2 DEF ReadOldBundle, ReadGoes, Advance
    <3>2. pc'[j] = "dying"
      BY <1>1, <3>1 DEF ControlTypes, Busy, Goto
    <3> QED  BY <1>1, <1>4, <1>5, <3>1, <3>2 DEF ReadOldBundle
  <2> QED  BY <2>1, <2>2
<1>6. CASE WriteImport(j)
  <2>1. CASE MayReserve(j) /\ HasService(db, Class[j].name)
    <3>1. pc[j] = "read" /\ pc' = [pc EXCEPT ![j] = "written"] /\ lock' = [lock EXCEPT ![j] = "reserved"]
      BY <1>6, <2>1 DEF WriteImport, WriteGoes, Advance, Goto, SetLock
    <3>2. pc'[j] = "written" /\ old[j] = OldBundle(db, Path[j])
      BY <1>1, <3>1 DEF ControlTypes, ReadsCurrent
    <3>3. /\ tx' = [tx EXCEPT ![j] = Alone(j)] /\ old' = [old EXCEPT ![j] = OldBundle(db, Path[j])]
          /\ hot' \in BOOLEAN /\ db' = db /\ UNCHANGED <<stage, manager>>
      BY <1>1, <1>2, <1>6, <3>2 DEF WriteImport, Alone
    <3> QED  BY <1>1, <2>1, <3>1, <3>3, RunStep
  <2>2. CASE MayReserve(j) /\ ~HasService(db, Class[j].name)
    <3>1. pc[j] = "read" /\ pc' = [pc EXCEPT ![j] = "dying"] /\ lock' = [lock EXCEPT ![j] = "reserved"]
      BY <1>6, <2>2 DEF WriteImport, WriteGoes, Advance, Goto, SetLock
    <3>2. pc'[j] = "dying"
      BY <1>1, <3>1 DEF ControlTypes
    <3>3. /\ tx' = [tx EXCEPT ![j] = tx[j]] /\ old' = [old EXCEPT ![j] = old[j]]
          /\ hot' \in BOOLEAN /\ db' = db /\ UNCHANGED <<stage, manager>>
      BY <1>1, <1>2, <1>6, <3>2 DEF WriteImport
    <3> QED  BY <1>1, <2>2, <3>1, <3>3, RunStep
  <2>3. CASE ~MayReserve(j)
    <3>1. pc[j] = "read" /\ Busy(j) /\ UNCHANGED <<repo, hot, old, manager>>
      BY <1>6, <2>3 DEF WriteImport, WriteGoes, Advance
    <3>2. pc'[j] = "dying"
      BY <1>1, <3>1 DEF ControlTypes, Busy, Goto
    <3> QED  BY <1>1, <1>4, <1>6, <3>1, <3>2 DEF WriteImport
  <2> QED  BY <2>1, <2>2, <2>3
<1>7. CASE BeginCommit(j)
  <2>0. pc[j] = "written" /\ UNCHANGED <<repo, hot, old, tx, manager>>
    BY <1>7 DEF BeginCommit, CommitGoes
  <2>1. CASE MayCommit(j)
    <3>1. pc' = [pc EXCEPT ![j] = "committing"] /\ lock' = [lock EXCEPT ![j] = "exclusive"]
      BY <1>7, <2>1 DEF BeginCommit, CommitGoes, Advance, Goto, SetLock
    <3>2. old[j] = OldBundle(db, Path[j]) /\ tx[j] = Alone(j)
      BY <1>1, <2>0 DEF ReadsCurrent, WritesCurrent
    <3>3. /\ tx' = [tx EXCEPT ![j] = Alone(j)] /\ old' = [old EXCEPT ![j] = OldBundle(db, Path[j])]
          /\ hot' \in BOOLEAN /\ db' = db /\ UNCHANGED <<stage, manager>>
      BY <1>1, <1>2, <2>0, <3>2
    <3> QED  BY <1>1, <2>1, <3>1, <3>3, RunStep
  <2>2. CASE ~MayCommit(j)
    BY <1>1, <1>4, <1>7, <2>0, <2>2 DEF BeginCommit, CommitGoes, Advance
  <2> QED  BY <2>1, <2>2
(* A run that ends, well or not, has no lock and no tables of its own.       *)
<1>8. ASSUME NEW at \in {"done", "dead"}, Goto(j, at), Unlock(j), Forget(j), hot' \in BOOLEAN,
             db' = db \/ pc[j] = "committing", UNCHANGED <<stage, manager>>
      PROVE  Control'
  <2>1. /\ pc' = [pc EXCEPT ![j] = at] /\ lock' = [lock EXCEPT ![j] = "none"]
        /\ old' = [old EXCEPT ![j] = NoBundle] /\ tx' = [tx EXCEPT ![j] = EmptyTables]
    BY <1>8 DEF Goto, Unlock, SetLock, Forget
  <2> QED  BY <1>1, <1>8, <2>1, RunStep
<1>9. CASE EndCommit(j)
  <2>1. /\ pc[j] = "committing" /\ Goto(j, "done") /\ Unlock(j) /\ Forget(j)
        /\ hot' \in BOOLEAN /\ UNCHANGED <<stage, manager>>
    BY <1>1, <1>9 DEF EndCommit, ReleaseGoes
  <2> QED  BY <1>8, <2>1
<1>10. CASE Exit(j)
  <2>1. /\ Goto(j, "dead") /\ Unlock(j) /\ Forget(j)
        /\ hot' \in BOOLEAN /\ db' = db /\ UNCHANGED <<stage, manager>>
    BY <1>1, <1>10 DEF Exit, ExitGoes
  <2> QED  BY <1>8, <2>1
<1>11. CASE Kill(j)
  <2>1. /\ Goto(j, "dead") /\ Unlock(j) /\ Forget(j)
        /\ hot' \in BOOLEAN /\ db' = db /\ UNCHANGED <<stage, manager>>
    BY <1>1, <1>11 DEF Kill
  <2> QED  BY <1>8, <2>1
<1> QED  BY <1>3, <1>5, <1>6, <1>7, <1>9, <1>10, <1>11 DEF AddSysStep

-----------------------------------------------------------------------------
(* A step of the manager, as the runs see it.                                *)
LEMMA ManagerMoves ==
  ASSUME Control, ControlTypes', FilesInOrder', UNCHANGED runs,
         db' = db \/ NoRunActive,
         lock' = [lock EXCEPT !["manager"] = IF mgr'.at = "reading" THEN "shared" ELSE "none"],
         mgr'.at = "reading" => MayRead("manager")
  PROVE  Control'
<1>1. ControlTypes /\ LocksHeld /\ LocksExclude /\ ReadsCurrent /\ WritesCurrent
  BY DEF Control
<1>2. "manager" \in Users /\ "manager" \notin Jobs /\ Jobs \subseteq Users
  BY AccessAssumption DEF Users
<1>3. lock'["manager"] \in {"shared", "none"} /\ \A u \in Users \ {"manager"} : lock'[u] = lock[u]
  BY <1>1, <1>2 DEF ControlTypes
<1>4. LocksHeld'
  <2>1. lock'["manager"] = IF mgr'.at = "reading" THEN "shared" ELSE "none"
    BY <1>1, <1>2 DEF ControlTypes
  <2> QED  BY <1>1, <1>2, <1>3, <2>1 DEF LocksHeld, runs
<1>5. LocksExclude'
  <2>1. lock'["manager"] = "shared" => MayRead("manager")
    BY <1>1, <1>2 DEF ControlTypes
  <2> QED  BY <1>1, <1>2, <1>3, <2>1 DEF LocksExclude, MayRead, Others, ControlTypes, Locks
<1>6. \A j \in Jobs : pc[j] \in {"read", "written", "committing"} => db' = db
  BY DEF NoRunActive
<1>7. ReadsCurrent'
  BY <1>1, <1>6 DEF ReadsCurrent, runs
<1>8. WritesCurrent'
  <2> SUFFICES ASSUME NEW k \in Jobs, pc[k] \in {"written", "committing"}
               PROVE  tx[k] = Alone(k)'
    BY DEF WritesCurrent, runs
  <2>1. Alone(k)' = Alone(k)
    BY <1>6 DEF Alone
  <2> QED  BY <1>1, <2>1 DEF WritesCurrent
<1> QED  BY <1>4, <1>5, <1>7, <1>8 DEF Control

(* Each step of the manager is one of ManagerMoves.                          *)
LEMMA ManagerControl ==
  ASSUME Control, ManagerStep
  PROVE  Control'
<1>1. /\ ControlTypes /\ FilesInOrder /\ LocksHeld
      /\ stage \in [Files -> Stages] /\ hot \in BOOLEAN /\ nStarts \in 0..Len(Starts)
      /\ mgr \in [at : Phases, volatile : Files \cup {"none"}]
      /\ Len(Starts) \in Nat /\ "manager" \in Users
  BY AccessAssumption DEF Control, ControlTypes, Users
<1>2. Down \in [at : Phases, volatile : Files \cup {"none"}] /\ Down.at = "down"
  BY DEF Down, Phases
<1>3. \A a \in Phases : LET m == [mgr EXCEPT !.at = a]
                         IN  /\ m \in [at : Phases, volatile : Files \cup {"none"}]
                             /\ m.at = a /\ m.volatile = mgr.volatile
  BY <1>1
(* A step that takes no lock.                                                *)
<1>4. ASSUME ControlTypes', FilesInOrder', UNCHANGED <<runs, lock>>, db' = db \/ NoRunActive,
             mgr.at # "reading", mgr'.at # "reading"
      PROVE  Control'
  <2>1. lock["manager"] = "none"
    BY <1>1, <1>4 DEF LocksHeld
  <2>2. lock' = [lock EXCEPT !["manager"] = IF mgr'.at = "reading" THEN "shared" ELSE "none"]
    BY <1>1, <1>4, <2>1 DEF ControlTypes
  <2> QED  BY <1>4, <2>2, ManagerMoves
(* Types after a step.                                                       *)
<1>5. ASSUME mgr' \in [at : Phases, volatile : Files \cup {"none"}], hot' \in BOOLEAN, UNCHANGED <<runs, lock>>,
             stage' \in [Files -> Stages], nStarts' \in 0..Len(Starts)
      PROVE  ControlTypes'
  BY <1>1, <1>5 DEF ControlTypes, runs
<1> USE DEF repo
<1>6. CASE RecreatePersistent
  <2> USE <1>6 DEF RecreatePersistent, At
  <2>1. /\ mgr' \in [at : Phases, volatile : Files \cup {"none"}] /\ mgr'.at = "persistent schema"
        /\ hot' \in BOOLEAN /\ stage' \in [Files -> Stages] /\ nStarts' \in 0..Len(Starts)
    <3>1. mgr' \in [at : Phases, volatile : Files \cup {"none"}] /\ mgr'.at = "persistent schema"
      BY <1>3 DEF Phases
    <3>2. stage' \in [Files -> Stages]
      BY <1>1 DEF Stages
    <3>3. nStarts' \in 0..Len(Starts)
      <4>1. nStarts < Len(Starts) /\ nStarts' = nStarts + 1
        OBVIOUS
      <4> HIDE <1>6
      <4> QED  BY <1>1, <4>1
    <3>4. hot' \in BOOLEAN
      BY <1>1
    <3> QED  BY <3>1, <3>2, <3>3, <3>4
  <2> QED  BY <1>4, <1>5, <2>1 DEF FilesInOrder
<1>7. CASE AttachPersistent
  <2> USE <1>7 DEF AttachPersistent
  <2>1. nStarts' \in 0..Len(Starts)
    BY <1>1
  <2>2. CASE mgr' = Down /\ UNCHANGED hot
    BY <1>1, <1>2, <1>4, <1>5, <2>1, <2>2 DEF FilesInOrder
  <2>3. CASE metadataValidate("persistent") /\ At("volatile") /\ hot' = FALSE
    <3>1. /\ mgr' \in [at : Phases, volatile : Files \cup {"none"}] /\ mgr'.at = "volatile"
          /\ stage["persistent"] = "whole"
      BY <1>3, <2>3 DEF Phases, At, metadataValidate
    <3> QED  BY <1>1, <1>4, <1>5, <2>1, <2>3, <3>1 DEF FilesInOrder
  <2> QED  BY <2>2, <2>3 DEF Dies
<1>8. CASE PersistentSchema
  <2> USE <1>8 DEF PersistentSchema, CreateSchema, At
  <2>1. /\ mgr' \in [at : Phases, volatile : Files \cup {"none"}] /\ mgr'.at = "persistent row"
        /\ hot' \in BOOLEAN /\ stage' \in [Files -> Stages]
    BY <1>1, <1>3 DEF Phases, Stages
  <2> QED  BY <1>1, <1>4, <1>5, <2>1 DEF FilesInOrder
<1>9. CASE PersistentRow
  <2> USE <1>9 DEF PersistentRow, metadataInit, At
  <2>1. CASE MayCommit("manager")
    <3>1. /\ mgr' \in [at : Phases, volatile : Files \cup {"none"}] /\ mgr'.at = "volatile"
          /\ stage' \in [Files -> Stages] /\ stage'["persistent"] = "whole"
      <4>1. mgr' \in [at : Phases, volatile : Files \cup {"none"}] /\ mgr'.at = "volatile"
        BY <1>3, <2>1 DEF Phases
      <4> QED  BY <1>1, <2>1, <4>1 DEF Stages, Files
    <3> QED  BY <1>1, <1>4, <1>5, <3>1 DEF FilesInOrder
  <2>2. CASE ~MayCommit("manager")
    BY <1>1, <1>2, <1>4, <1>5, <2>2 DEF FilesInOrder, Dies
  <2> QED  BY <2>1, <2>2
<1>10. CASE ReattachVolatile
  <2> USE <1>10 DEF ReattachVolatile
  <2>1. CASE metadataValidate("volatile")
    <3>1. /\ mgr' = [at |-> "prepare", volatile |-> "volatile"]
          /\ mgr' \in [at : Phases, volatile : Files \cup {"none"}]
          /\ stage["volatile"] = "whole" /\ stage["persistent"] = "whole"
      BY <1>1, <2>1 DEF Phases, metadataValidate, Files, FilesInOrder
    <3>2. mgr'.at = "prepare" /\ mgr'.volatile = "volatile" /\ stage' = stage
      BY <3>1
    <3>3. FilesInOrder'
      BY <3>1, <3>2 DEF FilesInOrder
    <3> QED  BY <1>1, <1>4, <1>5, <3>1, <3>2, <3>3
  <2>2. CASE ~metadataValidate("volatile")
    BY <1>1, <1>2, <1>4, <1>5, <2>2 DEF FilesInOrder
  <2> QED  BY <2>1, <2>2
<1>11. CASE RecreateVolatile
  <2>1. PICK f \in {"memory", "volatile"} : /\ mgr' = [at |-> "volatile schema", volatile |-> f]
                                            /\ stage' = [stage EXCEPT ![f] = "empty"]
    BY <1>11 DEF RecreateVolatile
  <2>2. mgr.at = "volatile" /\ UNCHANGED <<db, hot, lock, runs, nStarts>>
    BY <1>11 DEF RecreateVolatile
  <2>3. stage["persistent"] = "whole"
    BY <1>1, <2>2 DEF FilesInOrder
  <2>4. \A g \in {"memory", "volatile"} :
          /\ [at |-> "volatile schema", volatile |-> g] \in [at : Phases, volatile : Files \cup {"none"}]
          /\ [stage EXCEPT ![g] = "empty"] \in [Files -> Stages]
          /\ [stage EXCEPT ![g] = "empty"]["persistent"] = "whole"
    BY <1>1, <2>3 DEF Phases, Stages, Files
  <2>5. mgr'.at = "volatile schema" /\ mgr'.volatile = f
    BY <2>1
  <2>6. FilesInOrder'
    BY <2>1, <2>4, <2>5 DEF FilesInOrder
  <2>7. ControlTypes'
    BY <1>1, <1>5, <2>1, <2>2, <2>4
  <2> QED  BY <1>4, <2>2, <2>5, <2>6, <2>7
<1>12. CASE VolatileSchema
  <2> USE <1>12 DEF VolatileSchema, CreateSchema, At
  <2>1. mgr.volatile \in {"volatile", "memory"} /\ stage["persistent"] = "whole"
    BY <1>1 DEF FilesInOrder
  <2>2. /\ mgr' \in [at : Phases, volatile : Files \cup {"none"}] /\ stage' \in [Files -> Stages]
        /\ mgr'.at = "volatile row" /\ mgr'.volatile = mgr.volatile
        /\ hot' \in BOOLEAN /\ stage'["persistent"] = "whole"
    BY <1>1, <1>3, <2>1 DEF Phases, Stages, Files
  <2> QED  BY <1>1, <1>4, <1>5, <2>1, <2>2 DEF FilesInOrder
<1>13. CASE VolatileRow
  <2> USE <1>13 DEF VolatileRow, metadataInit, At
  <2>1. mgr.volatile \in {"volatile", "memory"} /\ stage["persistent"] = "whole"
    BY <1>1 DEF FilesInOrder
  <2>2. /\ mgr' \in [at : Phases, volatile : Files \cup {"none"}] /\ stage' \in [Files -> Stages]
        /\ mgr'.at = "prepare" /\ mgr'.volatile = mgr.volatile
        /\ stage'["persistent"] = "whole" /\ stage'[mgr.volatile] = "whole"
    <3>1. mgr' = [mgr EXCEPT !.at = "prepare"] /\ stage' = [stage EXCEPT ![mgr.volatile] = "whole"]
      BY <2>1
    <3>2. mgr' \in [at : Phases, volatile : Files \cup {"none"}] /\ mgr'.at = "prepare" /\ mgr'.volatile = mgr.volatile
      BY <1>3, <3>1 DEF Phases
    <3> QED  BY <1>1, <2>1, <3>1, <3>2 DEF Stages, Files
  <2> QED  BY <1>1, <1>4, <1>5, <2>1, <2>2 DEF FilesInOrder
(* Steps that leave the files alone.                                         *)
<1>14. ASSUME NEW a \in {"up", "asked"}, At(a), mgr.at \in {"prepare", "up", "asked"}, hot' \in BOOLEAN,
              UNCHANGED <<repo, lock, runs, nStarts>>
       PROVE  Control'
  <2>1. /\ mgr' \in [at : Phases, volatile : Files \cup {"none"}]
        /\ mgr'.at = a /\ mgr'.volatile = mgr.volatile
    BY <1>3, <1>14 DEF Phases, At
  <2> QED  BY <1>1, <1>4, <1>5, <1>14, <2>1 DEF FilesInOrder
<1>15. CASE PrepareStatement
  <2> USE <1>15 DEF PrepareStatement
  <2>1. CASE mgr' = Down /\ UNCHANGED hot
    BY <1>1, <1>2, <1>4, <1>5, <2>1 DEF FilesInOrder
  <2> QED  BY <1>1, <1>14, <2>1 DEF Dies
<1>16. CASE SnapshotRequest
  BY <1>1, <1>14, <1>16 DEF SnapshotRequest
<1>17. CASE SnapshotStep
  <2> USE <1>17 DEF SnapshotStep, SnapshotGoes, At
  <2>1. PICK a \in {"up", "reading"} : mgr' = [mgr EXCEPT !.at = a] /\ MayRead("manager")
    OBVIOUS
  <2>2. mgr' \in [at : Phases, volatile : Files \cup {"none"}] /\ mgr'.at = a /\ mgr'.volatile = mgr.volatile
    BY <1>3, <2>1 DEF Phases
  <2>3. lock' = [lock EXCEPT !["manager"] = IF mgr'.at = "reading" THEN "shared" ELSE "none"]
    BY <2>2 DEF SetLock
  <2>4. ControlTypes'
    BY <1>1, <2>2, <2>3 DEF ControlTypes, runs, Locks
  <2>5. FilesInOrder'
    BY <1>1, <2>2 DEF FilesInOrder
  <2> QED  BY <2>1, <2>3, <2>4, <2>5, ManagerMoves
<1>18. ASSUME mgr' \in [at : Phases, volatile : Files \cup {"none"}], mgr'.at # "reading", FilesInOrder',
              Unlock("manager"), UNCHANGED <<repo, hot, runs, nStarts>>
       PROVE  Control'
  <2>1. lock' = [lock EXCEPT !["manager"] = IF mgr'.at = "reading" THEN "shared" ELSE "none"]
    BY <1>18 DEF Unlock, SetLock
  <2>2. ControlTypes'
    BY <1>1, <1>18, <2>1 DEF ControlTypes, runs, Locks
  <2> QED  BY <1>18, <2>1, <2>2, ManagerMoves
<1>19. CASE SnapshotDone
  <2>1. /\ mgr' \in [at : Phases, volatile : Files \cup {"none"}] /\ mgr'.at = "up" /\ mgr'.volatile = mgr.volatile
        /\ mgr.at = "reading" /\ UNCHANGED repo
    BY <1>3, <1>19 DEF SnapshotDone, SnapshotGoes, At, Phases
  <2>2. FilesInOrder'
    BY <1>1, <2>1 DEF FilesInOrder
  <2> QED  BY <1>18, <1>19, <2>1, <2>2 DEF SnapshotDone
<1>20. CASE shutdown
  BY <1>1, <1>2, <1>4, <1>5, <1>20 DEF shutdown, Dies, FilesInOrder
<1>21. CASE KillManager
  <2>1. FilesInOrder' /\ mgr' = Down
    BY <1>2, <1>21 DEF FilesInOrder, KillManager, Dies
  <2> QED  BY <1>2, <1>18, <1>21, <2>1 DEF KillManager
<1> QED
  BY <1>6, <1>7, <1>8, <1>9, <1>10, <1>11, <1>12, <1>13, <1>15, <1>16, <1>17, <1>19, <1>20, <1>21
  DEF ManagerStep

(* Every step keeps the control invariant.                                   *)
LEMMA NextControl == Control /\ [Next]_vars => Control'
<1> SUFFICES ASSUME Control, [Next]_vars PROVE Control'
  OBVIOUS
<1>1. CASE UNCHANGED vars
  <2>1. ReadsCurrent' /\ WritesCurrent'
    BY <1>1 DEF vars, Control, ReadsCurrent, WritesCurrent, Alone
  <2> QED  BY <1>1, <2>1 DEF vars, Control, ControlTypes, FilesInOrder, LocksHeld, LocksExclude
<1> QED  BY <1>1, AddSysControl, ManagerControl DEF Next

(* Who holds which lock where, and that what an import has read and written  *)
(* is still current, hold for any runs and starts.                           *)
THEOREM ControlInvariant == Spec => []Control
  BY InitControl, NextControl, PTL DEF Spec

(* A manager that serves has whole repositories under it (Backend::init).    *)
THEOREM ServesWhole == Spec => []ServesWholeRepositories
<1>1. Control => ServesWholeRepositories
  BY DEF Control, FilesInOrder, ServesWholeRepositories, Serving
<1> QED  BY <1>1, ControlInvariant, PTL

(* Only the end of a commit changes the tables, or making the file anew.     *)
THEOREM SerialCommits == Spec => CommitsAreSerial
<1>1. ASSUME Control, [Next]_vars
      PROVE  \/ UNCHANGED db
             \/ stage'["persistent"] = "empty"
             \/ \E j \in Jobs : pc'[j] = "done" /\ pc[j] # "done" /\ db' = Alone(j)
  <2>1. CASE RecreatePersistent
    BY <1>1, <2>1 DEF RecreatePersistent, Control, ControlTypes, Files
  <2>2. ASSUME NEW j \in Jobs, EndCommit(j)
        PROVE  pc'[j] = "done" /\ pc[j] # "done" /\ db' = Alone(j)
    BY <1>1, <2>2 DEF EndCommit, ReleaseGoes, Goto, Control, ControlTypes, WritesCurrent
  <2>3. ASSUME NEW j \in Jobs, AddSysStep(j) \/ Kill(j), ~EndCommit(j)
        PROVE  UNCHANGED db
    BY <2>3 DEF AddSysStep, Kill, OpenRepository, ReadOldBundle, WriteImport, BeginCommit, Exit, repo
  <2>4. ASSUME ManagerStep, ~RecreatePersistent
        PROVE  UNCHANGED db
    BY <2>4 DEF ManagerStep, AttachPersistent, PersistentSchema, PersistentRow, ReattachVolatile,
                RecreateVolatile, VolatileSchema, VolatileRow, PrepareStatement, SnapshotRequest,
                SnapshotStep, SnapshotDone, shutdown, KillManager, CreateSchema, metadataInit, repo
  <2>5. CASE UNCHANGED vars
    BY <2>5 DEF vars
  <2> QED  BY <1>1, <2>1, <2>2, <2>3, <2>4, <2>5 DEF Next
<1> QED  BY <1>1, ControlInvariant, PTL DEF Spec, CommitsAreSerial

-----------------------------------------------------------------------------
(* What the tables keep: ids in use have been given out, references lead     *)
(* somewhere, no bundle is referred to by a count, and a file has one.       *)
Tables(d) ==
  /\ d = [t \in TableNames \cup {"seq"} |-> d[t]]
  /\ d.seq \in [TableNames -> Nat]
  /\ \A t \in TableNames : DOMAIN d[t] \subseteq 1..d.seq[t]

ParentIn(d, parent) == parent.id \in DOMAIN d[TableOf(parent)]

Referenced(d) ==
  /\ \A p \in DOMAIN d.Properties : /\ d.Properties[p].value \in DOMAIN d.PropertyValues
                                    /\ ParentIn(d, d.Properties[p].parent)
  /\ \A v \in DOMAIN d.PropertyValues : /\ d.PropertyValues[v].bundle \in DOMAIN d.Bundles
                                        /\ d.PropertyValues[v].group \in DOMAIN d.PropertyGroups \cup {0}
  /\ \A g \in DOMAIN d.PropertyGroups : ParentIn(d, d.PropertyGroups[g].parent)

Bundled(d) ==
  /\ \A b \in DOMAIN d.Bundles : d.Bundles[b].refCount = 0 /\ d.Bundles[b].layer \in 1..4
  /\ \A b, c \in DOMAIN d.Bundles : d.Bundles[b].filename = d.Bundles[c].filename => b = c

Sound(d) == Tables(d) /\ Referenced(d) /\ Bundled(d)

(* Nothing but entries has been added since o.                               *)
Grown(o, d) ==
  /\ d.Bundles = o.Bundles /\ d.Services = o.Services
  /\ DOMAIN o.Instances \subseteq DOMAIN d.Instances
  /\ DOMAIN o.PropertyGroups \subseteq DOMAIN d.PropertyGroups

SoundSince(o, d) == Sound(d) /\ Grown(o, d)

(* A new row, and nothing else.                                              *)
LEMMA InsertEffect ==
  ASSUME NEW d, Tables(d), NEW t \in TableNames, NEW row
  PROVE  LET e == Insert(d, t, row)
             id == d.seq[t] + 1
         IN  /\ Tables(e) /\ LastId(e, t) = id /\ id \notin DOMAIN d[t] /\ id \in Nat \ {0}
             /\ DOMAIN e[t] = DOMAIN d[t] \cup {id} /\ e[t][id] = row
             /\ \A i \in DOMAIN d[t] : e[t][i] = d[t][i]
             /\ \A u \in TableNames \ {t} : e[u] = d[u]
<1> DEFINE e == Insert(d, t, row)
           id == d.seq[t] + 1
<1>1. "seq" \notin TableNames
  BY DEF TableNames
<1>2. d.seq[t] \in Nat /\ DOMAIN d[t] \subseteq 1..d.seq[t]
  BY DEF Tables
<1>3. e = [d EXCEPT ![t] = WithRow(d[t], id, row), !["seq"] = [d.seq EXCEPT ![t] = id]]
  BY <1>1 DEF Insert, Tables
<1>4. /\ DOMAIN e = TableNames \cup {"seq"} /\ e = [u \in TableNames \cup {"seq"} |-> e[u]]
      /\ e.seq = [d.seq EXCEPT ![t] = id]
      /\ e[t] = WithRow(d[t], id, row) /\ \A u \in TableNames \ {t} : e[u] = d[u]
  BY <1>1, <1>3 DEF Tables
<1> HIDE DEF e
<1>5. /\ DOMAIN e[t] = DOMAIN d[t] \cup {id} /\ e[t][id] = row
      /\ \A i \in DOMAIN d[t] : e[t][i] = d[t][i]
  BY <1>2, <1>4 DEF WithRow
<1>6. e.seq \in [TableNames -> Nat] /\ e.seq[t] = id /\ \A u \in TableNames \ {t} : e.seq[u] = d.seq[u]
  BY <1>2, <1>4 DEF Tables
<1>7. Tables(e)
  <2>1. \A u \in TableNames : DOMAIN e[u] \subseteq 1..e.seq[u]
    <3> TAKE u \in TableNames
    <3>1. CASE u = t
      BY <1>2, <1>5, <1>6, <3>1
    <3>2. CASE u # t
      BY <1>4, <1>6, <3>2 DEF Tables
    <3> QED  BY <3>1, <3>2
  <2> QED  BY <1>4, <1>6, <2>1 DEF Tables
<1> QED  BY <1>2, <1>4, <1>5, <1>6, <1>7 DEF LastId, e

(* Parents are in tables that only grow.                                     *)
LEMMA ParentStays ==
  ASSUME NEW o, NEW d, Grown(o, d), NEW parent, ParentIn(o, parent)
  PROVE  ParentIn(d, parent)
  BY DEF Grown, ParentIn, TableOf

(* Growing twice is growing.                                                 *)
LEMMA GrownTransitive ==
  ASSUME NEW o, NEW d, NEW e, Grown(o, d), Grown(d, e)
  PROVE  Grown(o, e)
  BY DEF Grown

(* A value and its property, of a bundle, a parent and a group that exist.   *)
LEMMA InsertPropertySound ==
  ASSUME NEW o, NEW d, SoundSince(o, d), NEW b \in DOMAIN d.Bundles,
         NEW parent, ParentIn(d, parent), NEW prop, NEW group \in DOMAIN d.PropertyGroups \cup {0}
  PROVE  SoundSince(o, InsertProperty(d, b, parent, prop, group))
<1> DEFINE vrow == [bundle |-> b, key |-> prop.key, value |-> prop.value, group |-> group]
           e == Insert(d, "PropertyValues", vrow)
           prow == [parent |-> parent, value |-> LastId(e, "PropertyValues")]
           f == Insert(e, "Properties", prow)
<1>1. InsertProperty(d, b, parent, prop, group) = f
  BY DEF InsertProperty
<1>2. Tables(d) /\ Referenced(d) /\ Bundled(d) /\ Grown(o, d)
  BY DEF SoundSince, Sound
<1>3. PICK v : /\ Tables(e) /\ LastId(e, "PropertyValues") = v /\ v \notin DOMAIN d.PropertyValues
               /\ DOMAIN e.PropertyValues = DOMAIN d.PropertyValues \cup {v} /\ e.PropertyValues[v] = vrow
               /\ \A i \in DOMAIN d.PropertyValues : e.PropertyValues[i] = d.PropertyValues[i]
               /\ \A u \in TableNames \ {"PropertyValues"} : e[u] = d[u]
  BY <1>2, InsertEffect DEF TableNames
<1> HIDE DEF e
<1>4. PICK p : /\ Tables(f) /\ p \notin DOMAIN e.Properties
               /\ DOMAIN f.Properties = DOMAIN e.Properties \cup {p} /\ f.Properties[p] = prow
               /\ \A i \in DOMAIN e.Properties : f.Properties[i] = e.Properties[i]
               /\ \A u \in TableNames \ {"Properties"} : f[u] = e[u]
  BY <1>3, InsertEffect DEF TableNames
<1> HIDE DEF f
<1>5. /\ f.Bundles = d.Bundles /\ f.Services = d.Services /\ f.Instances = d.Instances
      /\ f.PropertyGroups = d.PropertyGroups /\ f.PropertyValues = e.PropertyValues
      /\ e.Properties = d.Properties
  BY <1>3, <1>4 DEF TableNames
<1>6. Grown(d, f)
  BY <1>5 DEF Grown
<1>7. Referenced(f)
  <2>1. \A i \in DOMAIN f.Properties : /\ f.Properties[i].value \in DOMAIN f.PropertyValues
                                       /\ ParentIn(f, f.Properties[i].parent)
    <3> TAKE i \in DOMAIN f.Properties
    <3>1. CASE i = p
      <4>1. f.Properties[i].value = v /\ f.Properties[i].parent = parent
        BY <1>3, <1>4, <3>1
      <4> QED  BY <1>3, <1>5, <1>6, <4>1, ParentStays
    <3>2. CASE i \in DOMAIN d.Properties
      <4>1. f.Properties[i] = d.Properties[i]
        BY <1>4, <1>5, <3>2
      <4> QED  BY <1>2, <1>3, <1>5, <1>6, <3>2, <4>1, ParentStays DEF Referenced
    <3> QED  BY <1>4, <1>5, <3>1, <3>2
  <2>2. \A i \in DOMAIN f.PropertyValues : /\ f.PropertyValues[i].bundle \in DOMAIN f.Bundles
                                           /\ f.PropertyValues[i].group \in DOMAIN f.PropertyGroups \cup {0}
    <3> TAKE i \in DOMAIN f.PropertyValues
    <3>1. CASE i = v
      BY <1>3, <1>5, <3>1
    <3>2. CASE i \in DOMAIN d.PropertyValues
      BY <1>2, <1>3, <1>5, <3>2 DEF Referenced
    <3> QED  BY <1>3, <1>5, <3>1, <3>2
  <2>3. \A g \in DOMAIN f.PropertyGroups : ParentIn(f, f.PropertyGroups[g].parent)
    BY <1>2, <1>5, <1>6, ParentStays DEF Referenced
  <2> QED  BY <2>1, <2>2, <2>3 DEF Referenced
<1>8. Bundled(f)
  BY <1>2, <1>5 DEF Bundled
<1>9. Grown(o, f)
  BY <1>2, <1>6, GrownTransitive
<1> QED  BY <1>1, <1>4, <1>7, <1>8, <1>9 DEF SoundSince, Sound

-----------------------------------------------------------------------------
(* The four folds of an import: what is on a page, the properties of the     *)
(* class or of an instance, and the instances.                               *)
IsProp(p) == p.page \in BOOLEAN /\ Listed(p.members)
IsInst(i) == Listed(i.props) /\ \A p \in Range(i.props) : IsProp(p)
IsClass(class) == /\ Listed(class.props) /\ \A p \in Range(class.props) : IsProp(p)
                  /\ Listed(class.insts) /\ \A i \in Range(class.insts) : IsInst(i)
Anything(p) == TRUE

PageStep(bundle, id, none, d, p) == InsertProperty(d, bundle, GroupParent(id), p, 0)
PropStep(bundle, svc, parent, d, p) == importProp(d, bundle, svc, parent, p)
InstStep(bundle, svc, none, d, i) == ImportInstance(d, bundle, svc, i)

Pages == INSTANCE FoldInduction WITH Op <- PageStep, Keeps <- SoundSince, Element <- Anything
Props == INSTANCE FoldInduction WITH Op <- PropStep, Keeps <- SoundSince, Element <- IsProp
Insts == INSTANCE FoldInduction WITH Op <- InstStep, Keeps <- SoundSince, Element <- IsInst

(* A set of naturals that is not empty has a least element.                  *)
LEMMA MinOfNaturals ==
  ASSUME NEW T, T \subseteq Nat, T # {}
  PROVE  Min(T) \in T /\ \A x \in T : Min(T) <= x
  BY Props!LeastNatural DEF Min

(* One that is bounded has a greatest.                                       *)
LEMMA MaxOfBounded ==
  ASSUME NEW k \in Nat, NEW T, T \subseteq 0..k, T # {}
  PROVE  Max(T) \in T /\ \A x \in T : x <= Max(T)
  BY Props!MaxOfBounded DEF Max, Props!Max

(* Flattening a list of lists gives a list of their elements.                *)
LEMMA FlattenElements ==
  ASSUME NEW E, NEW ss \in Seq(Seq(E))
  PROVE  FlattenSeq(ss) \in Seq(E)
<1> DEFINE n == Len(ss)
           Flat(g, k) == g = [i \in 1..k |-> IF i = 1 THEN ss[i] ELSE g[i - 1] \o ss[i]]
<1>1. CASE n = 0
  BY <1>1 DEF FlattenSeq
<1>2. CASE n # 0
  <2>0. n \in Nat /\ n >= 1 /\ \A i \in 1..n : ss[i] \in Seq(E)
    BY <1>2
  <2>1. \A k \in Nat : \E g : Flat(g, k)
    <3> DEFINE Bad == {k \in Nat : ~\E g : Flat(g, k)}
    <3> SUFFICES ASSUME Bad # {} PROVE FALSE
      OBVIOUS
    <3>1. PICK k \in Bad : \A m \in Bad : k <= m
      <4>1. Bad \subseteq Nat
        OBVIOUS
      <4> HIDE DEF Bad
      <4> QED  BY <4>1, Props!LeastNatural
    <3>2. k # 0
      <4> DEFINE g == [i \in 1..0 |-> {}]
      <4>1. Flat(g, 0)
        OBVIOUS
      <4> QED  BY <3>1, <4>1
    <3>3. PICK g : Flat(g, k - 1)
      <4>1. k \in Nat /\ k - 1 \in Nat
        BY <3>1, <3>2
      <4>2. k - 1 \notin Bad
        <5> HIDE DEF Bad
        <5> QED  BY <3>1, <4>1
      <4> QED  BY <4>1, <4>2
    <3> DEFINE h == [i \in 1..k |-> IF i < k THEN g[i] ELSE IF i = 1 THEN ss[i] ELSE g[i - 1] \o ss[i]]
    <3>4. Flat(h, k)
      <4> SUFFICES ASSUME NEW i \in 1..k PROVE h[i] = IF i = 1 THEN ss[i] ELSE h[i - 1] \o ss[i]
        OBVIOUS
      <4>1. i # 1 => i - 1 \in 1..k /\ i - 1 < k /\ h[i - 1] = g[i - 1]
        OBVIOUS
      <4>2. CASE i < k
        <5>1. i \in 1..(k - 1) /\ h[i] = g[i]
          BY <3>1, <4>2
        <5> QED  BY <3>3, <4>1, <5>1
      <4>3. CASE i = k
        BY <3>1, <4>1, <4>3
      <4> QED  BY <3>1, <4>2, <4>3
    <3> QED  BY <3>1, <3>4
  <2> DEFINE flatten == CHOOSE g : Flat(g, n)
  <2>2. Flat(flatten, n)
    BY <2>0, <2>1
  <2>3. FlattenSeq(ss) = flatten[n]
    BY <1>2 DEF FlattenSeq
  <2> HIDE DEF flatten
  <2> DEFINE Bad == {i \in 1..n : flatten[i] \notin Seq(E)}
  <2> SUFFICES ASSUME Bad # {} PROVE FALSE
    <3>1. n \in 1..n
      BY <2>0
    <3> HIDE DEF n
    <3> QED  BY <2>3, <3>1
  <2>4. PICK k \in Bad : \A m \in Bad : k <= m
    <3>1. Bad \subseteq Nat
      OBVIOUS
    <3> HIDE DEF Bad
    <3> QED  BY <3>1, Props!LeastNatural
  <2>5. k # 1
    BY <2>0, <2>2, <2>4
  <2>6. flatten[k - 1] \in Seq(E)
    <3>1. k - 1 \in 1..n /\ ~(k <= k - 1)
      BY <2>4, <2>5
    <3>2. k - 1 \notin Bad
      <4> HIDE DEF Bad
      <4> QED  BY <2>4, <3>1
    <3> QED  BY <3>1, <3>2
  <2>7. flatten[k] = flatten[k - 1] \o ss[k]
    BY <2>2, <2>4, <2>5
  <2>8. ss[k] \in Seq(E) /\ flatten[k] \notin Seq(E)
    BY <2>0, <2>4
  <2> HIDE DEF n, Bad
  <2> QED  BY <2>6, <2>7, <2>8
<1> QED  BY <1>1, <1>2

(* An entry that is there, or a new one; of a group, the parent exists.      *)
LEMMA GetOrCreateSound ==
  ASSUME NEW o, NEW d, SoundSince(o, d), NEW t \in {"Instances", "PropertyGroups"}, NEW row,
         t = "PropertyGroups" => ParentIn(d, row.parent)
  PROVE  LET g == GetOrCreate(d, t, row)
         IN  SoundSince(o, g.db) /\ Grown(d, g.db) /\ g.id \in DOMAIN g.db[t] /\ g.id # 0
<1> DEFINE found == {id \in DOMAIN d[t] : d[t][id] = row}
           made == Insert(d, t, row)
<1>1. Tables(d) /\ Referenced(d) /\ Bundled(d) /\ Grown(o, d) /\ Grown(d, d) /\ t \in TableNames
  BY DEF SoundSince, Sound, Grown, TableNames
<1>2. GetOrCreate(d, t, row) = [db |-> IF found = {} THEN made ELSE d,
                                id |-> IF found = {} THEN LastId(made, t) ELSE Min(found)]
  BY DEF GetOrCreate, Rows
<1>3. CASE found # {}
  <2>1. found \subseteq Nat \ {0}
    BY <1>1 DEF Tables
  <2>2. Min(found) \in found
    <3> HIDE DEF found
    <3> QED  BY <1>3, <2>1, MinOfNaturals
  <2>3. Min(found) \in DOMAIN d[t] /\ Min(found) # 0
    BY <2>1, <2>2
  <2> QED  BY <1>1, <1>2, <1>3, <2>3
<1>4. CASE found = {}
  <2>1. PICK id : /\ Tables(made) /\ LastId(made, t) = id /\ id \notin DOMAIN d[t] /\ id \in Nat \ {0}
                  /\ DOMAIN made[t] = DOMAIN d[t] \cup {id} /\ made[t][id] = row
                  /\ \A i \in DOMAIN d[t] : made[t][i] = d[t][i]
                  /\ \A u \in TableNames \ {t} : made[u] = d[u]
    BY <1>1, InsertEffect
  <2> HIDE DEF made
  <2>2. /\ made.Bundles = d.Bundles /\ made.Services = d.Services /\ made.Properties = d.Properties
        /\ made.PropertyValues = d.PropertyValues
        /\ t = "Instances" => made.PropertyGroups = d.PropertyGroups
        /\ t = "PropertyGroups" => made.Instances = d.Instances
    BY <2>1 DEF TableNames
  <2>3. Grown(d, made)
    BY <2>1, <2>2 DEF Grown
  <2>4. Referenced(made)
    <3>1. \A p \in DOMAIN made.Properties : /\ made.Properties[p].value \in DOMAIN made.PropertyValues
                                            /\ ParentIn(made, made.Properties[p].parent)
      BY <1>1, <2>2, <2>3, ParentStays DEF Referenced
    <3>2. \A v \in DOMAIN made.PropertyValues :
            /\ made.PropertyValues[v].bundle \in DOMAIN made.Bundles
            /\ made.PropertyValues[v].group \in DOMAIN made.PropertyGroups \cup {0}
      BY <1>1, <2>2, <2>3 DEF Referenced, Grown
    <3>3. \A g \in DOMAIN made.PropertyGroups : ParentIn(made, made.PropertyGroups[g].parent)
      <4>1. \A g \in DOMAIN d.PropertyGroups : ParentIn(made, d.PropertyGroups[g].parent)
        BY <1>1, <2>3, ParentStays DEF Referenced
      <4>2. CASE t = "Instances"
        BY <2>2, <4>1, <4>2
      <4>3. CASE t = "PropertyGroups"
        <5>1. ParentIn(made, row.parent)
          BY <2>3, <4>3, ParentStays
        <5> QED  BY <2>1, <4>1, <4>3, <5>1
      <4> QED  BY <4>2, <4>3
    <3> QED  BY <3>1, <3>2, <3>3 DEF Referenced
  <2>5. Bundled(made)
    BY <1>1, <2>2 DEF Bundled
  <2>6. Grown(o, made)
    BY <1>1, <2>3, GrownTransitive
  <2> QED  BY <1>2, <1>4, <2>1, <2>3, <2>4, <2>5, <2>6 DEF SoundSince, Sound
<1> QED  BY <1>3, <1>4

-----------------------------------------------------------------------------
(* The indices of a list.                                                    *)
LEMMA ListedDomain ==
  ASSUME NEW s, Listed(s)
  PROVE  Len(s) \in Nat /\ DOMAIN s = 1..Len(s)
  BY DEF Listed

(* A page's members, each with the group for its parent.                     *)
LEMMA PageSound ==
  ASSUME NEW o, NEW d, SoundSince(o, d), NEW bundle \in DOMAIN d.Bundles,
         NEW id \in DOMAIN d.PropertyGroups, NEW s, Listed(s)
  PROVE  LET e == Pages!Fold(bundle, id, 0, d, s)
         IN  SoundSince(o, e) /\ Grown(d, e)
<1>1. SoundSince(d, d)
  BY DEF SoundSince, Grown
<1>2. ASSUME NEW x, SoundSince(d, x), NEW p
      PROVE  SoundSince(d, PageStep(bundle, id, 0, x, p))
  <2>1. bundle \in DOMAIN x.Bundles /\ id \in DOMAIN x.PropertyGroups
    BY <1>2 DEF SoundSince, Grown
  <2>2. ParentIn(x, GroupParent(id))
    BY <2>1 DEF ParentIn, GroupParent, TableOf
  <2> QED  BY <1>2, <2>1, <2>2, InsertPropertySound DEF PageStep
<1>3. SoundSince(d, Pages!Fold(bundle, id, 0, d, s))
  BY <1>1, <1>2, ListedDomain, Pages!FoldKeeps DEF Anything
<1> QED  BY <1>3, GrownTransitive DEF SoundSince

(* A property, or a page with its group and its members.                     *)
LEMMA PropSound ==
  ASSUME NEW o, NEW d, SoundSince(o, d), NEW bundle \in DOMAIN d.Bundles, NEW svc \in DOMAIN d.Services,
         NEW parent, ParentIn(d, parent), NEW prop, IsProp(prop)
  PROVE  SoundSince(o, importProp(d, bundle, svc, parent, prop))
<1>1. CASE ~prop.page
  BY <1>1, InsertPropertySound DEF importProp
<1>2. CASE prop.page
  <2> DEFINE page == GetOrCreate(d, "PropertyGroups", [name |-> prop.key, parent |-> ServiceParent(svc)])
             filled == Pages!Fold(bundle, page.id, 0, page.db, prop.members)
  <2>1. importProp(d, bundle, svc, parent, prop) = InsertProperty(filled, bundle, parent, prop, page.id)
    BY <1>2 DEF importProp, Pages!Fold, PageStep, FoldLeft, MapThenFoldSet, Max, Pages!FoldLeft, Pages!MapThenFoldSet, Pages!Max
  <2>2. ParentIn(d, [name |-> prop.key, parent |-> ServiceParent(svc)].parent)
    BY DEF ParentIn, ServiceParent, TableOf
  <2>3. SoundSince(o, page.db) /\ Grown(d, page.db) /\ page.id \in DOMAIN page.db.PropertyGroups
    BY <2>2, GetOrCreateSound
  <2>4. bundle \in DOMAIN page.db.Bundles /\ Listed(prop.members)
    BY <2>3 DEF Grown, IsProp
  <2> HIDE DEF page
  <2>5. SoundSince(o, filled) /\ Grown(page.db, filled)
    BY <2>3, <2>4, PageSound
  <2> HIDE DEF filled
  <2>6. ParentIn(filled, parent)
    BY <2>3, <2>5, ParentStays
  <2>7. bundle \in DOMAIN filled.Bundles /\ page.id \in DOMAIN filled.PropertyGroups
    BY <2>3, <2>4, <2>5 DEF Grown
  <2> QED  BY <2>1, <2>5, <2>6, <2>7, InsertPropertySound
<1> QED  BY <1>1, <1>2 DEF IsProp

(* A list of properties of one parent.                                       *)
LEMMA PropsSound ==
  ASSUME NEW o, NEW d, SoundSince(o, d), NEW bundle \in DOMAIN d.Bundles, NEW svc \in DOMAIN d.Services,
         NEW parent, ParentIn(d, parent), NEW s, Listed(s), \A p \in Range(s) : IsProp(p)
  PROVE  LET e == Props!Fold(bundle, svc, parent, d, s)
         IN  SoundSince(o, e) /\ Grown(d, e)
<1>1. SoundSince(d, d)
  BY DEF SoundSince, Grown
<1>2. ASSUME NEW x, SoundSince(d, x), NEW p, IsProp(p)
      PROVE  SoundSince(d, PropStep(bundle, svc, parent, x, p))
  <2>1. bundle \in DOMAIN x.Bundles /\ svc \in DOMAIN x.Services /\ Grown(d, x)
    BY <1>2 DEF SoundSince, Grown
  <2>2. ParentIn(x, parent)
    BY <2>1, ParentStays
  <2> QED  BY <1>2, <2>1, <2>2, PropSound DEF PropStep
<1>3. \A k \in 1..Len(s) : IsProp(s[k])
  BY ListedDomain DEF Range
<1>4. SoundSince(d, Props!Fold(bundle, svc, parent, d, s))
  BY <1>1, <1>2, <1>3, ListedDomain, Props!FoldKeeps
<1> QED  BY <1>4, GrownTransitive DEF SoundSince

(* An instance and its properties.                                           *)
LEMMA InstanceSound ==
  ASSUME NEW o, NEW d, SoundSince(o, d), NEW bundle \in DOMAIN d.Bundles, NEW svc \in DOMAIN d.Services,
         NEW inst, IsInst(inst)
  PROVE  SoundSince(o, ImportInstance(d, bundle, svc, inst))
<1> DEFINE entry == GetOrCreate(d, "Instances", [name |-> inst.name, service |-> svc])
           parent == InstanceParent(entry.id)
<1>1. ImportInstance(d, bundle, svc, inst) = Props!Fold(bundle, svc, parent, entry.db, inst.props)
  BY DEF ImportInstance, Props!Fold, PropStep, FoldLeft, MapThenFoldSet, Max, Props!FoldLeft, Props!MapThenFoldSet, Props!Max
<1>2. SoundSince(o, entry.db) /\ Grown(d, entry.db) /\ entry.id \in DOMAIN entry.db.Instances
  BY GetOrCreateSound
<1> HIDE DEF entry
<1>3. /\ bundle \in DOMAIN entry.db.Bundles /\ svc \in DOMAIN entry.db.Services
      /\ ParentIn(entry.db, parent)
  BY <1>2 DEF Grown, ParentIn, InstanceParent, TableOf
<1> HIDE DEF parent
<1> QED  BY <1>1, <1>2, <1>3, PropsSound DEF IsInst

(* All instances of a class.                                                 *)
LEMMA InstancesSound ==
  ASSUME NEW o, NEW d, SoundSince(o, d), NEW bundle \in DOMAIN d.Bundles, NEW svc \in DOMAIN d.Services,
         NEW s, Listed(s), \A i \in Range(s) : IsInst(i)
  PROVE  SoundSince(o, Insts!Fold(bundle, svc, 0, d, s))
<1>1. SoundSince(d, d)
  BY DEF SoundSince, Grown
<1>2. ASSUME NEW x, SoundSince(d, x), NEW i, IsInst(i)
      PROVE  SoundSince(d, InstStep(bundle, svc, 0, x, i))
  <2>1. bundle \in DOMAIN x.Bundles /\ svc \in DOMAIN x.Services
    BY <1>2 DEF SoundSince, Grown
  <2> QED  BY <1>2, <2>1, InstanceSound DEF InstStep
<1>3. \A k \in 1..Len(s) : IsInst(s[k])
  BY ListedDomain DEF Range
<1>4. SoundSince(d, Insts!Fold(bundle, svc, 0, d, s))
  BY <1>1, <1>2, <1>3, ListedDomain, Insts!FoldKeeps
<1> QED  BY <1>4, GrownTransitive DEF SoundSince

-----------------------------------------------------------------------------
(* Deleting a bundle takes with it what refers to it, and no more.           *)
LEMMA DeleteSound ==
  ASSUME NEW d, Sound(d), NEW b
  PROVE  LET e == deleteBundle(d, b)
         IN  /\ Sound(e) /\ e.Services = d.Services
             /\ DOMAIN e.Bundles = DOMAIN d.Bundles \ {b}
             /\ \A c \in DOMAIN e.Bundles : e.Bundles[c] = d.Bundles[c]
<1> DEFINE dead == {v \in DOMAIN d.PropertyValues : d.PropertyValues[v].bundle = b}
           live == {p \in DOMAIN d.Properties : d.Properties[p].value \notin dead}
           e == deleteBundle(d, b)
<1>1. Tables(d) /\ Referenced(d) /\ Bundled(d)
  BY DEF Sound
<1>2. e = [d EXCEPT !["PropertyValues"] = Restrict(d.PropertyValues, DOMAIN d.PropertyValues \ dead),
                    !["Properties"] = Restrict(d.Properties, live),
                    !["Bundles"] = Restrict(d.Bundles, DOMAIN d.Bundles \ {b})]
  BY <1>1 DEF deleteBundle, Rows, Tables, TableNames
<1> HIDE DEF dead, live
<1>3. /\ e.PropertyValues = Restrict(d.PropertyValues, DOMAIN d.PropertyValues \ dead)
      /\ e.Properties = Restrict(d.Properties, live)
      /\ e.Bundles = Restrict(d.Bundles, DOMAIN d.Bundles \ {b})
      /\ e.Services = d.Services /\ e.Instances = d.Instances /\ e.PropertyGroups = d.PropertyGroups
      /\ e.seq = d.seq /\ e = [t \in TableNames \cup {"seq"} |-> e[t]]
  BY <1>1, <1>2 DEF Tables, TableNames
<1> HIDE DEF e
<1>4. /\ DOMAIN e.PropertyValues = DOMAIN d.PropertyValues \ dead
      /\ \A v \in DOMAIN e.PropertyValues : e.PropertyValues[v] = d.PropertyValues[v]
      /\ DOMAIN e.Properties = live
      /\ \A p \in DOMAIN e.Properties : e.Properties[p] = d.Properties[p]
      /\ DOMAIN e.Bundles = DOMAIN d.Bundles \ {b}
      /\ \A c \in DOMAIN e.Bundles : e.Bundles[c] = d.Bundles[c]
  BY <1>3 DEF Restrict
<1>5. Tables(e)
  <2>1. \A t \in TableNames : DOMAIN e[t] \subseteq DOMAIN d[t]
    BY <1>3, <1>4 DEF TableNames, live
  <2> QED  BY <1>1, <1>3, <2>1 DEF Tables
<1>6. Referenced(e)
  <2>1. \A parent : ParentIn(d, parent) => ParentIn(e, parent)
    BY <1>3 DEF ParentIn, TableOf
  <2>2. \A p \in DOMAIN e.Properties : /\ e.Properties[p].value \in DOMAIN e.PropertyValues
                                       /\ ParentIn(e, e.Properties[p].parent)
    BY <1>1, <1>4, <2>1 DEF Referenced, live
  <2>3. \A v \in DOMAIN e.PropertyValues : /\ e.PropertyValues[v].bundle \in DOMAIN e.Bundles
                                           /\ e.PropertyValues[v].group \in DOMAIN e.PropertyGroups \cup {0}
    BY <1>1, <1>3, <1>4 DEF Referenced, dead
  <2>4. \A g \in DOMAIN e.PropertyGroups : ParentIn(e, e.PropertyGroups[g].parent)
    BY <1>1, <1>3, <2>1 DEF Referenced
  <2> QED  BY <2>2, <2>3, <2>4 DEF Referenced
<1>7. Bundled(e)
  BY <1>1, <1>4 DEF Bundled
<1> QED  BY <1>3, <1>4, <1>5, <1>6, <1>7 DEF Sound, e

(* An import replaces the file's bundle and leaves sound tables.             *)
LEMMA ImportSound ==
  ASSUME NEW d, Sound(d), NEW layer \in 1..4, NEW path, NEW class, IsClass(class), HasService(d, class.name)
  PROVE  Sound(import(d, OldBundle(d, path), layer, path, class))
<1> DEFINE ids == {b \in DOMAIN d.Bundles : d.Bundles[b].filename = path}
           old1 == OldBundle(d, path)
           kept == WithoutOld(d, old1)
           bundled == Insert(kept, "Bundles", [filename |-> path, layer |-> layer, refCount |-> 0])
           bundle == LastId(bundled, "Bundles")
           svcs == {s \in DOMAIN d.Services : d.Services[s] = class.name}
           svc == Min(svcs)
           parent == ServiceParent(svc)
           withProps == Props!Fold(bundle, svc, parent, bundled, class.props)
<1>1. Tables(d) /\ Bundled(d)
  BY DEF Sound
<1>2. /\ Sound(kept) /\ kept.Services = d.Services
      /\ \A b \in DOMAIN kept.Bundles : kept.Bundles[b].filename # path
  <2>1. CASE ids = {}
    <3>1. kept = d
      BY <2>1 DEF OldBundle, WithoutOld, Rows, NoBundle
    <3> QED  BY <2>1, <3>1
  <2>2. CASE ids # {}
    <3>1. ids \subseteq Nat \ {0}
      BY <1>1 DEF Tables, TableNames
    <3>2. Min(ids) \in ids
      <4> HIDE DEF ids
      <4> QED  BY <2>2, <3>1, MinOfNaturals
    <3>3. d.Bundles[Min(ids)].refCount = 0 /\ Min(ids) # 0
      BY <1>1, <3>1, <3>2 DEF Bundled
    <3>4. old1 = [id |-> Min(ids), refCount |-> 0]
      BY <2>2, <3>3 DEF OldBundle, Rows
    <3>5. kept = deleteBundle(d, Min(ids))
      <4>1. old1.id = Min(ids) /\ old1.refCount = 0 /\ NoBundle.id = 0
        BY <3>4 DEF NoBundle
      <4>2. old1 # NoBundle
        BY <3>3, <4>1
      <4> HIDE DEF ids, old1
      <4> QED  BY <4>1, <4>2 DEF WithoutOld
    <3>6. \A c \in ids : c = Min(ids)
      BY <1>1, <3>2 DEF Bundled
    <3> HIDE DEF ids
    <3>7. /\ Sound(kept) /\ kept.Services = d.Services
          /\ DOMAIN kept.Bundles = DOMAIN d.Bundles \ {Min(ids)}
          /\ \A c \in DOMAIN kept.Bundles : kept.Bundles[c] = d.Bundles[c]
      BY <3>5, DeleteSound
    <3> QED  BY <3>6, <3>7 DEF ids
  <2> QED  BY <2>1, <2>2
<1> HIDE DEF kept, old1
<1>3. /\ SoundSince(bundled, bundled) /\ bundle \in DOMAIN bundled.Bundles /\ bundled.Services = d.Services
  <2> DEFINE row == [filename |-> path, layer |-> layer, refCount |-> 0]
  <2>1. Tables(kept) /\ Referenced(kept) /\ Bundled(kept)
    BY <1>2 DEF Sound
  <2>2. PICK b : /\ Tables(bundled) /\ bundle = b /\ b \notin DOMAIN kept.Bundles
                 /\ DOMAIN bundled.Bundles = DOMAIN kept.Bundles \cup {b} /\ bundled.Bundles[b] = row
                 /\ \A i \in DOMAIN kept.Bundles : bundled.Bundles[i] = kept.Bundles[i]
                 /\ \A u \in TableNames \ {"Bundles"} : bundled[u] = kept[u]
    BY <2>1, InsertEffect DEF TableNames
  <2> HIDE DEF bundle, bundled
  <2>3. /\ bundled.Properties = kept.Properties /\ bundled.PropertyValues = kept.PropertyValues
        /\ bundled.PropertyGroups = kept.PropertyGroups /\ bundled.Instances = kept.Instances
        /\ bundled.Services = kept.Services
    BY <2>2 DEF TableNames
  <2>4. Referenced(bundled)
    <3>1. \A any : ParentIn(kept, any) => ParentIn(bundled, any)
      BY <2>3 DEF ParentIn, TableOf
    <3> QED  BY <2>1, <2>2, <2>3, <3>1 DEF Referenced
  <2>5. Bundled(bundled)
    <3>1. \A c \in DOMAIN bundled.Bundles : bundled.Bundles[c].refCount = 0 /\ bundled.Bundles[c].layer \in 1..4
      BY <2>1, <2>2 DEF Bundled
    <3>2. bundled.Bundles[b].filename = path
      BY <2>2
    <3>3. \A c, e \in DOMAIN bundled.Bundles : bundled.Bundles[c].filename = bundled.Bundles[e].filename => c = e
      BY <1>2, <2>1, <2>2, <3>2 DEF Bundled
    <3> QED  BY <3>1, <3>3 DEF Bundled
  <2> QED  BY <1>2, <2>2, <2>3, <2>4, <2>5 DEF SoundSince, Sound, Grown
<1>4. svc \in DOMAIN bundled.Services
  <2>1. svcs # {} /\ svcs \subseteq Nat
    BY <1>1 DEF HasService, Rows, Tables, TableNames
  <2>2. svc \in svcs
    <3> HIDE DEF svcs
    <3> QED  BY <2>1, MinOfNaturals
  <2> QED  BY <1>3, <2>2
<1>5. import(d, OldBundle(d, path), layer, path, class) = Insts!Fold(bundle, svc, 0, withProps, class.insts)
  BY DEF import, Rows, kept, old1, Props!Fold, PropStep, Insts!Fold, InstStep,
         FoldLeft, MapThenFoldSet, Max, Props!FoldLeft, Props!MapThenFoldSet, Props!Max,
         Insts!FoldLeft, Insts!MapThenFoldSet, Insts!Max
<1> HIDE DEF bundle, bundled, svc
<1>6. ParentIn(bundled, parent)
  BY <1>4 DEF ParentIn, ServiceParent, TableOf
<1> HIDE DEF parent
<1>7. SoundSince(bundled, withProps)
  BY <1>3, <1>4, <1>6, PropsSound DEF IsClass
<1> HIDE DEF withProps
<1>8. bundle \in DOMAIN withProps.Bundles /\ svc \in DOMAIN withProps.Services
  BY <1>3, <1>4, <1>7 DEF SoundSince, Grown
<1>9. SoundSince(bundled, import(d, OldBundle(d, path), layer, path, class))
  BY <1>5, <1>7, <1>8, InstancesSound DEF IsClass
<1> QED  BY <1>9 DEF SoundSince

-----------------------------------------------------------------------------
(* What process() makes of a parsed bundle is lists of properties and of     *)
(* instances.                                                                *)
AreProps(s) == Listed(s) /\ \A p \in Range(s) : IsProp(p)

(* A function on 1..n is a list.                                             *)
LEMMA ListOf ==
  ASSUME NEW s, NEW n \in Nat, s = [i \in 1..n |-> s[i]]
  PROVE  Listed(s)
<1>1. \A i \in 1..n : s[i] \in Range(s)
  BY DEF Range
<1>2. s \in [1..n -> Range(s)]
  BY <1>1
<1> QED  BY <1>2, SeqDef DEF Listed

(* The empty list is a list, also of properties.                             *)
LEMMA EmptyList == Listed(<<>>) /\ AreProps(<<>>)
<1>1. <<>> = [i \in 1..0 |-> <<>>[i]]
  OBVIOUS
<1>2. Listed(<<>>)
  BY <1>1, ListOf
<1>3. Range(<<>>) = {}
  BY DEF Range
<1> QED  BY <1>2, <1>3 DEF AreProps

(* A list made of another, element by element.                               *)
LEMMA ListAlong ==
  ASSUME NEW s, Listed(s), NEW r, r = [i \in DOMAIN s |-> r[i]]
  PROVE  Listed(r) /\ DOMAIN r = DOMAIN s
<1>1. Len(s) \in Nat /\ DOMAIN s = 1..Len(s)
  BY ListedDomain
<1>2. r = [i \in 1..Len(s) |-> r[i]] /\ DOMAIN r = DOMAIN s
  BY <1>1
<1> QED  BY <1>1, <1>2, ListOf

(* Lists put one behind the other are a list of their elements.              *)
LEMMA FlattenListed ==
  ASSUME NEW ss, Listed(ss), \A i \in DOMAIN ss : Listed(ss[i])
  PROVE  /\ Listed(FlattenSeq(ss))
         /\ \A x \in Range(FlattenSeq(ss)) : \E i \in DOMAIN ss : x \in Range(ss[i])
<1> DEFINE E == UNION {Range(ss[i]) : i \in DOMAIN ss}
           flat == FlattenSeq(ss)
<1>1. \A i \in DOMAIN ss : ss[i] \in Seq(E)
  <2> TAKE i \in DOMAIN ss
  <2>1. Range(ss[i]) \subseteq E
    OBVIOUS
  <2>2. Len(ss[i]) \in Nat /\ DOMAIN ss[i] = 1..Len(ss[i]) /\ ss[i] \in Seq(Range(ss[i]))
    BY ListedDomain DEF Listed
  <2> HIDE DEF E
  <2> QED  BY <2>1, <2>2, SeqMonotonic
<1>2. ss \in Seq(Seq(E))
  <2>1. Len(ss) \in Nat /\ DOMAIN ss = 1..Len(ss) /\ ss \in Seq(Range(ss))
    BY ListedDomain DEF Listed
  <2>2. Range(ss) \subseteq Seq(E)
    BY <1>1 DEF Range
  <2> HIDE DEF E
  <2> QED  BY <2>1, <2>2, SeqMonotonic
<1>3. flat \in Seq(E)
  <2> HIDE DEF E
  <2> QED  BY <1>2, FlattenElements
<1> HIDE DEF flat
<1>4. Len(flat) \in Nat /\ flat = [i \in 1..Len(flat) |-> flat[i]] /\ \A x \in Range(flat) : x \in E
  <2> HIDE DEF E
  <2> QED  BY <1>3 DEF Range
<1>5. Listed(flat)
  BY <1>4, ListOf
<1> QED  BY <1>4, <1>5 DEF flat

(* And of properties, if they were.                                          *)
LEMMA FlattenProps ==
  ASSUME NEW ss, Listed(ss), \A i \in DOMAIN ss : AreProps(ss[i])
  PROVE  AreProps(FlattenSeq(ss))
  BY FlattenListed DEF AreProps

(* What ucl_iterate_object goes over is a list.                              *)
LEMMA ItemsListed ==
  ASSUME NEW n, Listed(n.members)
  PROVE  Listed(Items(n))
<1>1. CASE n.type = "string"
  <2>1. <<n>> = [i \in 1..1 |-> <<n>>[i]]
    OBVIOUS
  <2>2. Listed(<<n>>)
    BY <2>1, ListOf
  <2> QED  BY <1>1, <2>2 DEF Items
<1> QED  BY <1>1 DEF Items

(* Both kinds of property are properties.                                    *)
LEMMA MadeProps ==
  ASSUME NEW key, NEW value, NEW ms, Listed(ms)
  PROVE  IsProp(PropPage(key, ms)) /\ IsProp(PropString(key, value))
<1>1. PropPage(key, ms).page = TRUE /\ PropPage(key, ms).members = ms
  BY DEF PropPage
<1>2. PropString(key, value).page = FALSE /\ PropString(key, value).members = <<>>
  BY DEF PropString
<1>3. Listed(<<>>)
  BY EmptyList
<1> QED  BY <1>1, <1>2, <1>3 DEF IsProp

(* Methods are pages, dependencies empty pages.                              *)
LEMMA MethodsShape ==
  ASSUME NEW m, Listed(m.members), \A p \in Range(Items(m)) : Listed(p.members)
  PROVE  AreProps(Methods(m))
<1> DEFINE s == Items(m)
           r == [i \in DOMAIN s |-> processPage(s[i])]
<1>1. Methods(m) = r
  BY DEF Methods, Each
<1>2. Listed(s)
  BY ItemsListed
<1>3. \A i \in DOMAIN s : IsProp(processPage(s[i]))
  <2> TAKE i \in DOMAIN s
  <2> DEFINE q == s[i].members
             ps == [k \in DOMAIN q |-> PropString(q[k].key, q[k].val)]
  <2>1. Listed(q)
    BY DEF Range
  <2>2. processPage(s[i]) = PropPage(s[i].key, ps)
    BY DEF processPage, Each
  <2>3. Listed(ps)
    <3>1. ps = [k \in DOMAIN q |-> ps[k]]
      OBVIOUS
    <3> HIDE DEF ps, q
    <3> QED  BY <2>1, <3>1, ListAlong
  <2> HIDE DEF ps
  <2> QED  BY <2>2, <2>3, MadeProps
<1> HIDE DEF s
<1>4. Listed(r)
  <2>1. r = [i \in DOMAIN s |-> r[i]]
    OBVIOUS
  <2> HIDE DEF r
  <2> QED  BY <1>2, <2>1, ListAlong
<1>5. \A p \in Range(r) : IsProp(p)
  BY <1>3 DEF Range
<1> QED  BY <1>1, <1>4, <1>5 DEF AreProps

(* processDeps makes a list of empty pages.                                  *)
LEMMA DepsShape ==
  ASSUME NEW m, Listed(m.members), \A a \in Range(Items(m)) : Listed(a.members)
  PROVE  AreProps(processDeps(m))
<1> DEFINE s == Items(m)
           Pages1(arr) == [k \in DOMAIN Items(arr) |-> PropPage("dependency_" \o arr.key \o Items(arr)[k].val, <<>>)]
           ss == [i \in DOMAIN s |-> Pages1(s[i])]
<1>1. processDeps(m) = FlattenSeq(ss)
  BY DEF processDeps, Each
<1>2. Listed(s) /\ Listed(<<>>)
  BY EmptyList, ItemsListed
<1>3. ASSUME NEW arr, Listed(arr.members)
      PROVE  AreProps(Pages1(arr))
  <2> DEFINE r == Pages1(arr)
  <2>1. Listed(Items(arr))
    BY <1>3, ItemsListed
  <2>2. r = [k \in DOMAIN Items(arr) |-> r[k]]
    OBVIOUS
  <2>3. \A p \in Range(r) : IsProp(p)
    <3> SUFFICES ASSUME NEW k \in DOMAIN Items(arr) PROVE IsProp(r[k])
      BY DEF Range
    <3> DEFINE key == "dependency_" \o arr.key \o Items(arr)[k].val
    <3>1. r[k] = PropPage(key, <<>>)
      OBVIOUS
    <3> HIDE DEF key, r
    <3> QED  BY <1>2, <3>1, MadeProps
  <2> HIDE DEF r
  <2>4. Listed(r)
    BY <2>1, <2>2, ListAlong
  <2> QED  BY <2>3, <2>4 DEF AreProps, r
<1> HIDE DEF Pages1
<1>4. \A i \in DOMAIN s : AreProps(Pages1(s[i]))
  BY <1>3 DEF Range
<1> HIDE DEF s
<1>5. Listed(ss) /\ DOMAIN ss = DOMAIN s /\ \A i \in DOMAIN ss : AreProps(ss[i])
  <2>1. ss = [i \in DOMAIN s |-> ss[i]] /\ \A i \in DOMAIN s : ss[i] = Pages1(s[i])
    OBVIOUS
  <2> HIDE DEF ss
  <2>2. Listed(ss) /\ DOMAIN ss = DOMAIN s
    BY <1>2, <2>1, ListAlong
  <2> QED  BY <1>4, <2>1, <2>2
<1> HIDE DEF ss
<1> QED  BY <1>1, <1>5, FlattenProps

(* A node whose entries, and theirs, come in lists.                          *)
Deep(n) == Listed(n.members) /\ \A p \in Range(Items(n)) : Listed(p.members)

(* processInst makes an instance with a list of properties.                  *)
LEMMA InstShape ==
  ASSUME NEW inst, Listed(inst.members), \A m \in Range(Items(inst)) : Deep(m)
  PROVE  IsInst(processInst(inst))
<1> DEFINE s == Items(inst)
           Made(m) == CASE IsDeps(m) -> processDeps(m) [] m.key = "methods" -> Methods(m) [] OTHER -> <<>>
           ss == [i \in DOMAIN s |-> Made(s[i])]
<1>1. processInst(inst).props = FlattenSeq(ss)
  BY DEF processInst, Each
<1>2. Listed(s)
  BY ItemsListed
<1>3. AreProps(<<>>)
  BY EmptyList
<1>4. ASSUME NEW m, Deep(m)
      PROVE  AreProps(Made(m))
  <2>1. CASE IsDeps(m)
    <3>1. m.key # "methods"
      BY <2>1 DEF IsDeps
    <3>2. Made(m) = processDeps(m)
      BY <2>1, <3>1
    <3> HIDE DEF Made
    <3> QED  BY <1>4, <3>2, DepsShape DEF Deep
  <2>2. CASE m.key = "methods"
    <3>1. ~IsDeps(m)
      BY <2>2 DEF IsDeps
    <3>2. Made(m) = Methods(m)
      BY <2>2, <3>1
    <3> HIDE DEF Made
    <3> QED  BY <1>4, <3>2, MethodsShape DEF Deep
  <2>3. CASE ~IsDeps(m) /\ m.key # "methods"
    BY <1>3, <2>3
  <2> QED  BY <2>1, <2>2, <2>3
<1> HIDE DEF Made
<1>5. \A i \in DOMAIN s : AreProps(Made(s[i]))
  BY <1>4 DEF Range
<1> HIDE DEF s
<1>6. Listed(ss) /\ \A i \in DOMAIN ss : AreProps(ss[i])
  <2>1. ss = [i \in DOMAIN s |-> ss[i]] /\ \A i \in DOMAIN s : ss[i] = Made(s[i])
    OBVIOUS
  <2> HIDE DEF ss
  <2>2. Listed(ss) /\ DOMAIN ss = DOMAIN s
    BY <1>2, <2>1, ListAlong
  <2> QED  BY <1>5, <2>1, <2>2
<1> HIDE DEF ss
<1>7. AreProps(processInst(inst).props)
  BY <1>1, <1>6, FlattenProps
<1> QED  BY <1>7 DEF IsInst, AreProps

(* process makes a class of whatever the parser hands over.                  *)
LEMMA ClassShape ==
  ASSUME NEW doc, Parsed(doc)
  PROVE  IsClass(process(doc))
<1>1. Listed(doc)
  BY DEF Parsed
<1>2. \A m \in Range(doc) : Deep(m)
  BY DEF Parsed, Deep, Below
<1>3. ASSUME NEW m \in Range(doc), NEW inst \in Range(Items(m))
      PROVE  Listed(inst.members) /\ \A n \in Range(Items(inst)) : Deep(n)
  <2>1. inst \in Below(Range(doc))
    BY DEF Below
  <2>2. \A n \in Range(Items(inst)) : n \in Below(Below(Range(doc)))
    BY <2>1 DEF Below
  <2>3. \A n \in Range(Items(inst)) : \A p \in Range(Items(n)) : p \in Below(Below(Below(Range(doc))))
    <3> DEFINE B == Below(Below(Range(doc)))
    <3> HIDE DEF B
    <3>1. \A n \in Range(Items(inst)) : n \in B
      BY <2>2 DEF B
    <3>2. \A n \in B : \A p \in Range(Items(n)) : p \in Below(B)
      BY DEF Below
    <3> QED  BY <3>1, <3>2 DEF B
  <2> QED  BY <2>1, <2>2, <2>3 DEF Parsed, Deep
<1>4. AreProps(<<>>) /\ Listed(<<>>)
  BY EmptyList
<1> DEFINE Made(m) == IF m.key = "instances" THEN Each(processInst, Items(m)) ELSE <<>>
           MadeProp(m) == CASE m.key \in {"name", "instances"} -> <<>>
                            [] IsDeps(m) -> processDeps(m)
                            [] m.key = "methods" -> Methods(m)
                            [] OTHER -> <<PropString(m.key, m.val)>>
           is == [i \in DOMAIN doc |-> Made(doc[i])]
           ps == [i \in DOMAIN doc |-> MadeProp(doc[i])]
<1>5. process(doc).insts = FlattenSeq(is) /\ process(doc).props = FlattenSeq(ps)
  BY DEF process, Each
<1>6. ASSUME NEW m \in Range(doc)
      PROVE  AreProps(MadeProp(m))
  <2>0. Deep(m)
    BY <1>2
  <2>1. CASE m.key \in {"name", "instances"}
    <3>1. MadeProp(m) = <<>>
      BY <2>1 DEF IsDeps
    <3> QED  BY <1>4, <3>1
  <2>2. CASE IsDeps(m)
    <3>1. MadeProp(m) = processDeps(m)
      BY <2>2 DEF IsDeps
    <3> HIDE DEF MadeProp
    <3> QED  BY <2>0, <3>1, DepsShape DEF Deep
  <2>3. CASE m.key = "methods"
    <3>1. MadeProp(m) = Methods(m)
      BY <2>3 DEF IsDeps
    <3> HIDE DEF MadeProp
    <3> QED  BY <2>0, <3>1, MethodsShape DEF Deep
  <2>4. CASE m.key \notin {"name", "instances", "methods"} /\ ~IsDeps(m)
    <3> DEFINE q == PropString(m.key, m.val)
    <3>1. MadeProp(m) = <<q>>
      BY <2>4
    <3>2. IsProp(q)
      BY <1>4, MadeProps
    <3> HIDE DEF MadeProp, q
    <3>3. <<q>> = [i \in 1..1 |-> <<q>>[i]] /\ \A x \in Range(<<q>>) : x = q
      BY DEF Range
    <3>4. Listed(<<q>>)
      BY <3>3, ListOf
    <3> QED  BY <3>1, <3>2, <3>3, <3>4 DEF AreProps
  <2> QED  BY <2>1, <2>2, <2>3, <2>4
<1>7. ASSUME NEW m \in Range(doc)
      PROVE  Listed(Made(m)) /\ \A x \in Range(Made(m)) : IsInst(x)
  <2>1. CASE m.key = "instances"
    <3> DEFINE s == Items(m)
               r == [i \in DOMAIN s |-> processInst(s[i])]
    <3>1. Made(m) = r
      BY <2>1 DEF Each
    <3>2. Listed(s)
      BY <1>2, ItemsListed DEF Deep
    <3>3. \A i \in DOMAIN s : IsInst(processInst(s[i]))
      BY <1>3, InstShape DEF Range
    <3> HIDE DEF s
    <3>4. Listed(r)
      <4>1. r = [i \in DOMAIN s |-> r[i]]
        OBVIOUS
      <4> HIDE DEF r
      <4> QED  BY <3>2, <4>1, ListAlong
    <3>5. \A x \in Range(r) : IsInst(x)
      BY <3>3 DEF Range
    <3> QED  BY <3>1, <3>4, <3>5
  <2>2. CASE m.key # "instances"
    BY <1>4, <2>2 DEF Range
  <2> QED  BY <2>1, <2>2
<1> HIDE DEF Made, MadeProp
<1>8. Listed(is) /\ \A i \in DOMAIN is : Listed(is[i]) /\ \A x \in Range(is[i]) : IsInst(x)
  <2>1. is = [i \in DOMAIN doc |-> is[i]] /\ \A i \in DOMAIN doc : is[i] = Made(doc[i])
    OBVIOUS
  <2> HIDE DEF is
  <2>2. Listed(is) /\ DOMAIN is = DOMAIN doc
    BY <1>1, <2>1, ListAlong
  <2> QED  BY <1>7, <2>1, <2>2 DEF Range
<1>9. Listed(ps) /\ \A i \in DOMAIN ps : AreProps(ps[i])
  <2>1. ps = [i \in DOMAIN doc |-> ps[i]] /\ \A i \in DOMAIN doc : ps[i] = MadeProp(doc[i])
    OBVIOUS
  <2> HIDE DEF ps
  <2>2. Listed(ps) /\ DOMAIN ps = DOMAIN doc
    BY <1>1, <2>1, ListAlong
  <2> QED  BY <1>6, <2>1, <2>2 DEF Range
<1> HIDE DEF is, ps
<1>10. AreProps(process(doc).props)
  BY <1>5, <1>9, FlattenProps
<1>11. Listed(process(doc).insts) /\ \A x \in Range(process(doc).insts) : IsInst(x)
  BY <1>5, <1>8, FlattenListed
<1> QED  BY <1>10, <1>11 DEF IsClass, AreProps

-----------------------------------------------------------------------------
(* The tables, committed or in a transaction, are sound, and a run that has  *)
(* got past parsing has a class.                                             *)
Soundness ==
  /\ Sound(db)
  /\ \A j \in Jobs : /\ pc[j] \in {"open", "read"} => j \in DOMAIN Class
                     /\ pc[j] \in {"written", "committing"} => Sound(tx[j])

(* A repository that was just created is sound.                              *)
LEMMA EmptySound == Sound(EmptyTables)
<1> DEFINE e == EmptyTables
<1>1. "seq" \notin TableNames
  BY DEF TableNames
<1>2. /\ e = [t \in TableNames \cup {"seq"} |-> e[t]]
      /\ e.seq = [u \in TableNames |-> 0] /\ \A t \in TableNames : e[t] = <<>>
  BY <1>1 DEF EmptyTables
<1>3. \A t \in TableNames : DOMAIN e[t] = {}
  BY <1>2
<1> HIDE DEF e
<1>4. Tables(e)
  BY <1>2, <1>3 DEF Tables
<1>5. Referenced(e) /\ Bundled(e)
  BY <1>3 DEF Referenced, Bundled, TableNames
<1> QED  BY <1>4, <1>5 DEF Sound, e

(* One that holds services only is sound.                                    *)
LEMMA SeededSound == Sound(Seeded)
<1> DEFINE e == EmptyTables
           d == Seeded
<1>1. "seq" \notin TableNames
  BY DEF TableNames
<1>2. /\ e = [t \in TableNames \cup {"seq"} |-> e[t]]
      /\ e.seq = [u \in TableNames |-> 0] /\ \A t \in TableNames : e[t] = <<>>
  BY <1>1 DEF EmptyTables
<1>3. d = [e EXCEPT !["Services"] = Seed, !["seq"] = [e.seq EXCEPT !["Services"] = Len(Seed)]]
  BY <1>2 DEF Seeded, TableNames
<1> HIDE DEF e, d
<1>4. /\ d = [t \in TableNames \cup {"seq"} |-> d[t]]
      /\ d.seq = [e.seq EXCEPT !["Services"] = Len(Seed)] /\ d.Services = Seed
      /\ \A t \in TableNames \ {"Services"} : d[t] = <<>>
  BY <1>1, <1>2, <1>3 DEF TableNames
<1>5. Len(Seed) \in Nat /\ DOMAIN Seed = 1..Len(Seed)
  BY AccessAssumption
<1>6. \A t \in TableNames \ {"Services"} : DOMAIN d[t] = {}
  BY <1>4
<1>7. Tables(d)
  <2>1. d.seq \in [TableNames -> Nat] /\ d.seq["Services"] = Len(Seed)
    BY <1>2, <1>4, <1>5 DEF TableNames
  <2> QED  BY <1>4, <1>5, <1>6, <2>1 DEF Tables
<1>8. Referenced(d) /\ Bundled(d)
  BY <1>6 DEF Referenced, Bundled, TableNames
<1> QED  BY <1>7, <1>8 DEF Sound, d

(* The repository at hand is sound, and no run has begun.                    *)
LEMMA InitSoundness == Init => Soundness
  BY SeededSound DEF Init, Soundness

(* The one write of an import leaves sound tables: its bundle was parsed,    *)
(* and it has read the bundle that is still committed.                       *)
LEMMA WriteSound ==
  ASSUME Control, Soundness, NEW j \in Jobs, WriteImport(j), pc'[j] = "written"
  PROVE  Sound(tx'[j])
<1>1. pc[j] = "read" /\ tx' = [tx EXCEPT ![j] = import(db, old[j], Layer[j], Path[j], Class[j])]
  BY DEF WriteImport, WriteGoes
<1>2. old[j] = OldBundle(db, Path[j])
  BY <1>1 DEF Control, ReadsCurrent
<1>3. HasService(db, Class[j].name)
  <2> SUFFICES ASSUME ~HasService(db, Class[j].name) PROVE FALSE
    OBVIOUS
  <2>1. pc' = [pc EXCEPT ![j] = "dying"]
    BY DEF WriteImport, WriteGoes, Advance, Busy, Goto
  <2> QED  BY <2>1 DEF Control, ControlTypes
<1>4. IsClass(Class[j])
  <2>1. j \in WellFormed /\ Class[j] = process(Doc[j])
    BY <1>1 DEF Soundness, Class
  <2> QED  BY <2>1, ClassShape, AccessAssumption
<1> DEFINE made == import(db, OldBundle(db, Path[j]), Layer[j], Path[j], Class[j])
<1>5. Sound(made)
  BY <1>3, <1>4, ImportSound, AccessAssumption DEF Soundness
<1>6. tx' = [tx EXCEPT ![j] = made]
  BY <1>1, <1>2
<1> HIDE DEF made
<1> QED  BY <1>5, <1>6 DEF Control, ControlTypes

(* Every step keeps the tables sound: only a commit changes them, to what a  *)
(* transaction has written.                                                  *)
LEMMA NextSoundness == Control /\ Soundness /\ [Next]_vars => Soundness'
<1> SUFFICES ASSUME Control, Soundness, [Next]_vars PROVE Soundness'
  OBVIOUS
<1>1. ControlTypes
  BY DEF Control
(* A run's step, as Soundness sees it.                                       *)
<1>2. ASSUME NEW j \in Jobs, NEW at, pc' = [pc EXCEPT ![j] = at],
             \A k \in Jobs \ {j} : tx'[k] = tx[k],
             db' = db \/ (pc[j] = "committing" /\ db' = tx[j]),
             at \in {"open", "read"} => j \in DOMAIN Class,
             at \in {"written", "committing"} => Sound(tx'[j])
      PROVE  Soundness'
  <2>1. pc'[j] = at /\ \A k \in Jobs \ {j} : pc'[k] = pc[k]
    BY <1>1, <1>2 DEF ControlTypes
  <2>2. Sound(db')
    BY <1>2 DEF Soundness
  <2> QED  BY <1>2, <2>1, <2>2 DEF Soundness
<1>3. ASSUME NEW j \in Jobs, AddSysStep(j)
      PROVE  Soundness'
  <2>1. CASE OpenRepository(j)
    <3>1. PICK at : pc' = [pc EXCEPT ![j] = at] /\ (at = "open" => j \in DOMAIN Class)
                    /\ at \in {"dead", "done", "open"}
      BY <2>1 DEF OpenRepository, OpenGoes, Goto
    <3>2. tx' = tx /\ db' = db
      BY <2>1 DEF OpenRepository, repo
    <3> QED  BY <1>2, <3>1, <3>2
  <2>2. CASE ReadOldBundle(j)
    <3>1. PICK at \in {"read", "dying"} : pc' = [pc EXCEPT ![j] = at]
      BY <2>2 DEF ReadOldBundle, ReadGoes, Advance, Goto, Busy
    <3>2. tx' = tx /\ db' = db /\ pc[j] = "open"
      BY <2>2 DEF ReadOldBundle, ReadGoes, repo
    <3>3. j \in DOMAIN Class
      BY <3>2 DEF Soundness
    <3> QED  BY <1>2, <3>1, <3>2, <3>3
  <2>3. CASE WriteImport(j)
    <3>1. PICK at \in {"written", "dying"} : pc' = [pc EXCEPT ![j] = at]
      BY <2>3 DEF WriteImport, WriteGoes, Advance, Goto, Busy
    <3>2. db' = db /\ \A k \in Jobs \ {j} : tx'[k] = tx[k]
      BY <1>1, <2>3 DEF WriteImport, repo, ControlTypes
    <3>3. pc'[j] = at
      BY <1>1, <3>1 DEF ControlTypes
    <3>4. at = "written" => Sound(tx'[j])
      BY <2>3, <3>3, WriteSound
    <3> QED  BY <1>2, <3>1, <3>2, <3>4
  <2>4. CASE BeginCommit(j)
    <3>1. PICK at \in {"committing", "dying"} : pc' = [pc EXCEPT ![j] = at]
      BY <2>4 DEF BeginCommit, CommitGoes, Advance, Goto, Busy
    <3>2. tx' = tx /\ db' = db /\ pc[j] = "written"
      BY <2>4 DEF BeginCommit, CommitGoes, repo
    <3>3. Sound(tx[j])
      BY <3>2 DEF Soundness
    <3> QED  BY <1>2, <3>1, <3>2, <3>3
  <2>5. CASE EndCommit(j)
    <3>1. pc[j] = "committing" /\ pc' = [pc EXCEPT ![j] = "done"] /\ db' = tx[j]
      BY <2>5 DEF EndCommit, ReleaseGoes, Goto
    <3>2. \A k \in Jobs \ {j} : tx'[k] = tx[k]
      BY <1>1, <2>5 DEF EndCommit, Forget, ControlTypes
    <3> QED  BY <1>2, <3>1, <3>2
  <2>6. CASE Exit(j)
    <3>1. pc' = [pc EXCEPT ![j] = "dead"] /\ db' = db
      BY <2>6 DEF Exit, ExitGoes, Goto, repo
    <3>2. \A k \in Jobs \ {j} : tx'[k] = tx[k]
      BY <1>1, <2>6 DEF Exit, Forget, ControlTypes
    <3> QED  BY <1>2, <3>1, <3>2
  <2> QED  BY <1>3, <2>1, <2>2, <2>3, <2>4, <2>5, <2>6 DEF AddSysStep
<1>4. ASSUME NEW j \in Jobs, Kill(j)
      PROVE  Soundness'
  <2>1. pc' = [pc EXCEPT ![j] = "dead"] /\ db' = db
    BY <1>4 DEF Kill, Goto, repo
  <2>2. \A k \in Jobs \ {j} : tx'[k] = tx[k]
    BY <1>1, <1>4 DEF Kill, Forget, ControlTypes
  <2> QED  BY <1>2, <2>1, <2>2
<1>5. CASE RecreatePersistent
  <2>1. db' = EmptyTables /\ pc' = pc /\ tx' = tx
    BY <1>5 DEF RecreatePersistent, runs
  <2>2. Sound(db')
    BY <2>1, EmptySound
  <2> QED  BY <2>1, <2>2 DEF Soundness
<1>6. ASSUME ManagerStep, ~RecreatePersistent
      PROVE  Soundness'
  <2>1. UNCHANGED db
    BY <1>6 DEF ManagerStep, AttachPersistent, PersistentSchema, PersistentRow, ReattachVolatile,
                RecreateVolatile, VolatileSchema, VolatileRow, PrepareStatement, SnapshotRequest,
                SnapshotStep, SnapshotDone, shutdown, KillManager, CreateSchema, metadataInit, repo
  <2>2. UNCHANGED runs
    BY <1>6 DEF ManagerStep, AttachPersistent, PersistentSchema, PersistentRow, ReattachVolatile,
                RecreateVolatile, VolatileSchema, VolatileRow, PrepareStatement, SnapshotRequest,
                SnapshotStep, SnapshotDone, shutdown, KillManager, CreateSchema, metadataInit
  <2> QED  BY <2>1, <2>2 DEF runs, Soundness
<1>7. CASE UNCHANGED vars
  BY <1>7 DEF vars, Soundness
<1> QED  BY <1>3, <1>4, <1>5, <1>6, <1>7 DEF Next

(* The committed tables, and those of every transaction, are sound at any    *)
(* time.                                                                     *)
THEOREM SoundnessInvariant == Spec => []Soundness
  BY ControlInvariant, InitSoundness, NextSoundness, PTL DEF Spec

(* Types, and ids that are in use only if they were given out.               *)
THEOREM TypeCorrect == Spec => []TypeOK
<1>1. Control /\ Soundness => TypeOK
  <2> SUFFICES ASSUME Control, Soundness PROVE TypeOK
    OBVIOUS
  <2>1. DOMAIN db = TableNames \cup {"seq"} /\ \A t \in TableNames : DOMAIN db[t] \subseteq 1..db.seq[t]
    BY DEF Soundness, Sound, Tables
  <2> QED  BY <2>1 DEF TypeOK, Control, ControlTypes, Stages, Locks, Places
<1> QED  BY <1>1, ControlInvariant, SoundnessInvariant, PTL

(* No import, replacement, refusal or kill leaves a reference to a row that  *)
(* is gone, although SQLite enforces none (importProp, deleteBundle).        *)
THEOREM References == Spec => []ReferencesIntact
<1>1. Soundness => ReferencesIntact
  <2> SUFFICES ASSUME Referenced(db) PROVE ReferencesIntact
    BY DEF Soundness, Sound
  <2>1. \A parent : Exists(parent) <=> ParentIn(db, parent)
    BY DEF Exists, ParentIn
  <2> QED  BY <2>1 DEF ReferencesIntact, Referenced, Range
<1> QED  BY <1>1, SoundnessInvariant, PTL

-----------------------------------------------------------------------------
(* A value of an instance's view has one of two levels and one of four       *)
(* layers.                                                                   *)
LEMMA ViewBounded ==
  ASSUME NEW d, Sound(d), NEW inst, NEW v \in AllValues(d, inst)
  PROVE  v.instance \in 0..1 /\ v.layer \in 0..4
<1>1. ASSUME NEW level \in 0..1, NEW parent, v \in ValuesOf(d, level, parent)
      PROVE  v.instance \in 0..1 /\ v.layer \in 0..4
  <2> DEFINE shown == {p \in DOMAIN d.Properties :
                         /\ d.Properties[p].parent = parent
                         /\ d.Properties[p].value \in DOMAIN d.PropertyValues
                         /\ d.PropertyValues[d.Properties[p].value].bundle \in DOMAIN d.Bundles}
  <2>1. ValuesOf(d, level, parent) = {[instance |-> level, property |-> p, key |-> ValueOf(d, p).key,
                                       layer |-> d.Bundles[ValueOf(d, p).bundle].layer] : p \in shown}
    BY DEF ValuesOf, Rows
  <2>2. PICK p \in shown : v = [instance |-> level, property |-> p, key |-> ValueOf(d, p).key,
                                layer |-> d.Bundles[ValueOf(d, p).bundle].layer]
    BY <1>1, <2>1
  <2>3. v.instance = level /\ v.layer = d.Bundles[ValueOf(d, p).bundle].layer
    BY <2>2
  <2>4. ValueOf(d, p).bundle \in DOMAIN d.Bundles
    BY DEF ValueOf
  <2>5. d.Bundles[ValueOf(d, p).bundle].layer \in 1..4
    BY <2>4 DEF Sound, Bundled
  <2> HIDE DEF shown
  <2> QED  BY <2>3, <2>5
<1> QED  BY <1>1 DEF AllValues

(* Of bounded values, the ones with the greatest level and, there, the       *)
(* greatest layer are those that no other overrides.                         *)
LEMMA GreatestNotOverridden ==
  ASSUME NEW all, \A v \in all : v.instance \in 0..1 /\ v.layer \in 0..4, NEW w \in all
  PROVE  (/\ w.instance = MaxInstance(all, w.key)
          /\ w.layer = MaxLayerForHighestInstance(all, w.key))
         <=> \A u \in all : ~Overrides(u, w)
<1> DEFINE levels == {v.instance : v \in {x \in all : x.key = w.key}}
           top == MaxInstance(all, w.key)
           layers == {v.layer : v \in {x \in all : x.key = w.key /\ x.instance = top}}
           highest == MaxLayerForHighestInstance(all, w.key)
<1>1. levels \subseteq 0..1 /\ levels # {}
  OBVIOUS
<1>2. top \in levels /\ \A x \in levels : x <= top
  <2>1. top = Max(levels)
    BY DEF MaxInstance
  <2> HIDE DEF levels, top
  <2> QED  BY <1>1, <2>1, MaxOfBounded
<1> HIDE DEF top
<1>3. PICK a \in all : a.key = w.key /\ a.instance = top
  BY <1>2
<1>4. layers \subseteq 0..4 /\ layers # {}
  BY <1>3
<1>5. highest \in layers /\ \A x \in layers : x <= highest
  <2>1. highest = Max(layers)
    BY DEF MaxLayerForHighestInstance, top
  <2> HIDE DEF layers, highest
  <2> QED  BY <1>4, <2>1, MaxOfBounded
<1> HIDE DEF highest
<1>6. PICK b \in all : b.key = w.key /\ b.instance = top /\ b.layer = highest
  BY <1>5
<1>7. /\ \A u \in all : u.key = w.key => u.instance <= top
      /\ \A u \in all : u.key = w.key /\ u.instance = top => u.layer <= highest
  BY <1>2, <1>5
<1> HIDE DEF levels, layers
<1>8. top \in 0..1 /\ highest \in 0..4
  BY <1>6
<1>9. ASSUME w.instance = top, w.layer = highest, NEW u \in all
      PROVE  ~Overrides(u, w)
  BY <1>7, <1>8, <1>9 DEF Overrides
<1>10. ASSUME \A u \in all : ~Overrides(u, w)
       PROVE  w.instance = top /\ w.layer = highest
  <2>1. w.instance <= top /\ ~Overrides(b, w)
    BY <1>6, <1>7, <1>10
  <2>2. w.instance = top
    BY <1>6, <1>8, <2>1 DEF Overrides
  <2> QED  BY <1>6, <1>7, <1>8, <2>1, <2>2 DEF Overrides
<1> QED  BY <1>9, <1>10 DEF top, highest

(* The composed view is what its reference says for any instance of any      *)
(* repository reached: the instance's own before the service's, then the     *)
(* higher layer (queryGetInstancePropertiesComposed.sql).                    *)
THEOREM ComposedAgrees == Spec => []ComposedIsReference
<1>1. Soundness => ComposedIsReference
  <2> SUFFICES ASSUME Sound(db), NEW i \in DOMAIN db.Instances
               PROVE  Composed(db, i) = ComposedReference(db, i)
    BY DEF Soundness, ComposedIsReference
  <2> DEFINE all == AllValues(db, i)
  <2>1. \A v \in all : v.instance \in 0..1 /\ v.layer \in 0..4
    BY ViewBounded
  <2> HIDE DEF all
  <2>2. {w \in all : /\ w.instance = MaxInstance(all, w.key)
                     /\ w.layer = MaxLayerForHighestInstance(all, w.key)}
        = {w \in all : \A u \in all : ~Overrides(u, w)}
    BY <2>1, GreatestNotOverridden
  <2> QED  BY <2>2 DEF Composed, ComposedReference, all
<1> QED  BY <1>1, SoundnessInvariant, PTL
=============================================================================
