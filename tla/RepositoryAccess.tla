--------------------------- MODULE RepositoryAccess ---------------------------
(* The users of the repository files: runs of addsys, each importing one     *)
(* bundle in one transaction (src/cmd/addsys.cc), and the manager, which     *)
(* creates or attaches its two repositories (Backend::init) and reads the    *)
(* composed view for snapshots.  Any of them may be killed between two       *)
(* steps.  SQLite's file locks and rollback journal are modelled by what the *)
(* code meets of them; no busy handler is installed, so a lock that is taken *)
(* is an error at once.                                                      *)
EXTENDS Repository

CONSTANTS Jobs,       \* runs of addsys
          Path, Layer, Doc,  \* the file, the layer and the bundle of each run
          WellFormed, \* runs whose file parses and satisfies the JSON schema
          Seed,       \* services of the repository at hand, in order
          Starts,     \* the options the manager is started with, in turn
          Snapped     \* the instance id snapshots are asked for

Options == [recreate : BOOLEAN, readOnly : BOOLEAN, reattach : BOOLEAN, volatilePath : BOOLEAN]

(* Manager::init refuses other options before it touches a file.             *)
Accepted(o) == o.volatilePath \/ (o.readOnly /\ ~o.reattach)

ASSUME AccessAssumption ==
  /\ WellFormed \subseteq Jobs /\ "manager" \notin Jobs
  /\ \A j \in Jobs : Layer[j] \in 1..4
  /\ \A j \in WellFormed : Parsed(Doc[j])
  /\ Seed \in Seq(STRING)
  /\ Starts \in Seq(Options) /\ \A i \in DOMAIN Starts : Accepted(Starts[i])

Users == Jobs \cup {"manager"}
Files == {"persistent", "volatile", "memory"}

VARIABLES
  stage,   \* of each repository file: absent, empty, schema (no metadata row), whole
  db,      \* committed tables of the persistent repository
  hot,     \* a journal was left behind by a writer that was killed in COMMIT
  lock,    \* SQLite's lock of each user on the persistent repository
  pc,      \* where each run of addsys is
  old,     \* the bundle it replaces, as it has read it
  tx,      \* the tables as its transaction sees them
  mgr,     \* where the manager is, and which file it has for the volatile one
  nStarts  \* times it was started

vars == <<stage, db, hot, lock, pc, old, tx, mgr, nStarts>>
repo == <<stage, db>>
runs == <<pc, old, tx>>
manager == <<mgr, nStarts>>

(* A repository that is in use already.                                      *)
Seeded == [EmptyTables EXCEPT !.Services = Seed, !.seq["Services"] = Len(Seed)]

Down == [at |-> "down", volatile |-> "none"]

Init ==
  /\ stage = [f \in Files |-> IF f = "persistent" THEN "whole" ELSE "absent"]
  /\ db = Seeded /\ hot = FALSE
  /\ lock = [u \in Users |-> "none"]
  /\ pc = [j \in Jobs |-> "new"]
  /\ old = [j \in Jobs |-> NoBundle] /\ tx = [j \in Jobs |-> EmptyTables]
  /\ mgr = Down /\ nStarts = 0

-----------------------------------------------------------------------------
(* Locks.  Readers share, one of them may reserve to write, and COMMIT needs *)
(* the file for itself; a reader rolls a hot journal back first, which a     *)
(* connection opened read-only cannot.                                       *)
Others(u, locks) == \E v \in Users \ {u} : lock[v] \in locks

MayRead(u) == ~Others(u, {"exclusive"})
MayReserve(j) == ~Others(j, {"reserved", "exclusive"})
MayCommitPastReaders(u) == TRUE

MayCommit(u) == ~Others(u, {"shared", "reserved", "exclusive"})

SetLock(u, l) == lock' = [lock EXCEPT ![u] = l]
Goto(j, at) == pc' = [pc EXCEPT ![j] = at]

Unlock(u) == SetLock(u, "none")

(* What a process knew goes with it.                                         *)
Forget(j) == old' = [old EXCEPT ![j] = NoBundle] /\ tx' = [tx EXCEPT ![j] = EmptyTables]

-----------------------------------------------------------------------------
(* addsys, as the way a run goes on (the operators named ...Goes, over pc    *)
(* and lock) and what it does to the tables.  BEGIN takes no lock, the       *)
(* SELECT of the old bundle the shared one, and the first write reserves.    *)
(* An error ends in die(), which prints and exits; the locks go with the     *)
(* process.                                                                  *)
BusyRetries(j) == UNCHANGED <<pc, lock>>

Busy(j) == Goto(j, "dying") /\ UNCHANGED lock

Advance(j, ok, at, l) == IF ok THEN Goto(j, at) /\ SetLock(j, l) ELSE Busy(j)

(* What parse() leaves in classes; a file holds one class.                   *)
Class == [j \in {k \in WellFormed : ~ProcessAborts(Doc[k])} |-> process(Doc[j])]

HasTables == stage["persistent"] \in {"schema", "whole"}

(* main opens the repository, then parses the bundle.  One that does not     *)
(* parse leaves nothing to import, and addsys ends well.                     *)
OpenGoes(j) ==
  /\ pc[j] = "new"
  /\ Goto(j, IF stage["persistent"] = "absent" THEN "dead"
             ELSE IF j \notin WellFormed THEN "done"
             ELSE IF j \notin DOMAIN Class THEN "dead"
             ELSE "open")
  /\ UNCHANGED lock
ReadGoes(j) == pc[j] = "open" /\ Advance(j, HasTables /\ MayRead(j), "read", "shared")
(* The first write is the old bundle's deletion or the new one's row; the    *)
(* service is looked for after it.                                           *)
WriteGoes(j) ==
  /\ pc[j] = "read"
  /\ Advance(j, MayReserve(j), IF HasService(db, Class[j].name) THEN "written" ELSE "dying", "reserved")
CommitGoes(j) == pc[j] = "written" /\ Advance(j, MayCommit(j), "committing", "exclusive")
ReleaseGoes(j) == pc[j] = "committing" /\ Goto(j, "done") /\ Unlock(j)
ExitGoes(j) == pc[j] = "dying" /\ Goto(j, "dead") /\ Unlock(j)

AddSysGoes(j) == \/ OpenGoes(j) \/ ReadGoes(j) \/ WriteGoes(j)
                 \/ CommitGoes(j) \/ ReleaseGoes(j) \/ ExitGoes(j)

OpenRepository(j) == OpenGoes(j) /\ UNCHANGED <<repo, hot, old, tx, manager>>

ReadOldBundle(j) ==
  /\ ReadGoes(j)
  /\ IF pc'[j] = "read" THEN hot' = FALSE /\ old' = [old EXCEPT ![j] = OldBundle(db, Path[j])]
     ELSE UNCHANGED <<hot, old>>
  /\ UNCHANGED <<repo, tx, manager>>

WriteImport(j) ==
  /\ WriteGoes(j)
  /\ tx' = IF pc'[j] = "written" THEN [tx EXCEPT ![j] = import(db, old[j], Layer[j], Path[j], Class[j])] ELSE tx
  /\ UNCHANGED <<repo, hot, old, manager>>

BeginCommit(j) == CommitGoes(j) /\ UNCHANGED <<repo, hot, old, tx, manager>>

EndCommit(j) ==
  /\ ReleaseGoes(j)
  /\ db' = tx[j] /\ Forget(j)
  /\ UNCHANGED <<stage, hot, manager>>

Exit(j) == ExitGoes(j) /\ Forget(j) /\ UNCHANGED <<repo, hot, manager>>

(* The process is killed, or the machine stops.                              *)
Kill(j) ==
  /\ pc[j] \in {"open", "read", "written", "committing"}
  /\ Goto(j, "dead") /\ Unlock(j) /\ Forget(j)
  /\ hot' = (hot \/ pc[j] = "committing")
  /\ UNCHANGED <<repo, manager>>

-----------------------------------------------------------------------------
(* The manager.  die() is the end of the process.                            *)
Option == Starts[nStarts]

At(a) == mgr' = [mgr EXCEPT !.at = a]
Dies == mgr' = Down

AcceptUnversioned(f) == stage[f] \in {"schema", "whole"}

(* metadataValidate finds the row, and with it the version.                  *)
metadataValidate(f) == stage[f] = "whole"

NoRunActive == \A j \in Jobs : pc[j] \in {"new", "done", "dead"}

(* -c: the old file is unlinked and an empty one created, when nobody uses   *)
(* it ("to create a seed repository").                                       *)
RecreatePersistent ==
  /\ mgr.at = "down" /\ nStarts < Len(Starts) /\ Starts[nStarts + 1].recreate
  /\ NoRunActive
  /\ nStarts' = nStarts + 1 /\ At("persistent schema")
  /\ stage' = [stage EXCEPT !["persistent"] = "empty"]
  /\ db' = EmptyTables
  /\ UNCHANGED <<hot, lock, runs>>

(* A lock held by an import in COMMIT, or a hot journal met read-only, also  *)
(* ends as "invalid metadata".                                               *)
AttachPersistent ==
  /\ mgr.at = "down" /\ nStarts < Len(Starts) /\ ~Starts[nStarts + 1].recreate
  /\ nStarts' = nStarts + 1
  /\ IF /\ MayRead("manager") /\ ~(hot /\ Starts[nStarts + 1].readOnly)
        /\ metadataValidate("persistent")
     THEN At("volatile") /\ hot' = FALSE
     ELSE Dies /\ UNCHANGED hot
  /\ UNCHANGED <<repo, lock, runs>>

(* repositoryInit: the schema's own transaction, then the metadata row.      *)
(* Opening an empty file drops a journal that was left beside it.            *)
CreateSchema(f, next) ==
  /\ stage' = [stage EXCEPT ![f] = "schema"]
  /\ hot' = (hot /\ f # "persistent")
  /\ At(next)
  /\ UNCHANGED <<db, lock, runs, nStarts>>

metadataInit(f, next) ==
  /\ IF f # "persistent" \/ MayCommit("manager")
     THEN stage' = [stage EXCEPT ![f] = "whole"] /\ At(next)
     ELSE Dies /\ UNCHANGED stage
  /\ UNCHANGED <<db, hot, lock, runs, nStarts>>

PersistentSchema == mgr.at = "persistent schema" /\ CreateSchema("persistent", "persistent row")
PersistentRow == mgr.at = "persistent row" /\ metadataInit("persistent", "volatile")
VolatileSchema == mgr.at = "volatile schema" /\ CreateSchema(mgr.volatile, "volatile row")
VolatileRow == mgr.at = "volatile row" /\ metadataInit(mgr.volatile, "prepare")

ReattachVolatile ==
  /\ mgr.at = "volatile" /\ Option.reattach
  /\ mgr' = IF metadataValidate("volatile") THEN [at |-> "prepare", volatile |-> "volatile"] ELSE Down
  /\ UNCHANGED <<repo, hot, lock, runs, nStarts>>

RecreateVolatile ==
  /\ mgr.at = "volatile" /\ ~Option.reattach
  /\ LET f == IF Option.readOnly \/ ~Option.volatilePath THEN "memory" ELSE "volatile"
     IN  /\ mgr' = [at |-> "volatile schema", volatile |-> f]
         /\ stage' = [stage EXCEPT ![f] = "empty"]
  /\ UNCHANGED <<db, hot, lock, runs, nStarts>>

(* Reading the schema for the prepared statement.                            *)
PrepareStatement ==
  /\ mgr.at = "prepare"
  /\ IF MayRead("manager") /\ ~(hot /\ Option.readOnly) THEN At("up") /\ hot' = FALSE ELSE Dies /\ UNCHANGED hot
  /\ UNCHANGED <<repo, lock, runs, nStarts>>

(* snapshot_v1 reads the composed rows; the statement keeps its shared lock  *)
(* until the last row.                                                       *)
SnapshotRequest == mgr.at = "up" /\ At("asked") /\ UNCHANGED <<repo, hot, lock, runs, nStarts>>

SnapshotRows == IF Snapped \in DOMAIN db.Instances THEN Composed(db, Snapped) ELSE {}

SnapshotGoesRound == \/ mgr.at = "asked" /\ MayRead("manager") /\ At("reading")
                     \/ mgr.at = "reading" /\ At("asked")

(* On any error sqlite3_step is called again.                                *)
SnapshotGoes == \/ /\ mgr.at = "asked" /\ MayRead("manager") /\ ~(hot /\ Option.readOnly)
                   /\ At("up") \/ At("reading")
                \/ mgr.at = "reading" /\ At("up")

SnapshotStep ==
  /\ mgr.at = "asked" /\ SnapshotGoes
  /\ hot' = FALSE
  /\ (mgr'.at = "up") <=> (SnapshotRows = {})
  /\ SetLock("manager", IF mgr'.at = "up" THEN "none" ELSE "shared")
  /\ UNCHANGED <<repo, runs, nStarts>>

SnapshotDone ==
  /\ mgr.at = "reading" /\ SnapshotGoes
  /\ Unlock("manager")
  /\ UNCHANGED <<repo, hot, runs, nStarts>>

shutdown == mgr.at = "up" /\ Dies /\ UNCHANGED <<repo, hot, lock, runs, nStarts>>

KillManager ==
  /\ mgr.at # "down"
  /\ Dies /\ Unlock("manager")
  /\ UNCHANGED <<repo, hot, runs, nStarts>>

-----------------------------------------------------------------------------
AddSysStep(j) == \/ OpenRepository(j) \/ ReadOldBundle(j) \/ WriteImport(j)
                 \/ BeginCommit(j) \/ EndCommit(j) \/ Exit(j)

ManagerStep == \/ RecreatePersistent \/ AttachPersistent \/ PersistentSchema \/ PersistentRow
               \/ ReattachVolatile \/ RecreateVolatile \/ VolatileSchema \/ VolatileRow
               \/ PrepareStatement \/ SnapshotRequest \/ SnapshotStep \/ SnapshotDone \/ shutdown \/ KillManager

Next == ManagerStep \/ \E j \in Jobs : AddSysStep(j) \/ Kill(j)

Spec == Init /\ [][Next]_vars

(* A process that can go on does; nothing has to be started or killed.       *)
FairSpec == /\ Spec /\ WF_mgr(SnapshotGoes)
            /\ \A j \in Jobs : WF_<<pc, lock>>(AddSysGoes(j))

-----------------------------------------------------------------------------
(* Types; an id is in use only if it has been given out.                     *)
TypeOK ==
  /\ stage \in [Files -> {"absent", "empty", "schema", "whole"}]
  /\ DOMAIN db = TableNames \cup {"seq"}
  /\ \A t \in TableNames : DOMAIN db[t] \subseteq 1..db.seq[t]
  /\ hot \in BOOLEAN /\ nStarts \in 0..Len(Starts)
  /\ lock \in [Users -> {"none", "shared", "reserved", "exclusive"}]
  /\ pc \in [Jobs -> {"new", "open", "read", "written", "committing", "done", "dying", "dead"}]

(* Foreign keys hold although SQLite does not enforce them: after any        *)
(* imports and replacements no property is without its value, no value       *)
(* without its bundle and group, and nothing without its parent              *)
(* (deleteBundle, importProp).                                               *)
TableOf(parent) == CASE parent.kind = "service" -> "Services" [] parent.kind = "instance" -> "Instances"
                     [] OTHER -> "PropertyGroups"
Exists(parent) == parent.id \in DOMAIN db[TableOf(parent)]

ReferencesIntact ==
  /\ \A p \in Range(db.Properties) : p.value \in DOMAIN db.PropertyValues /\ Exists(p.parent)
  /\ \A v \in Range(db.PropertyValues) : /\ v.bundle \in DOMAIN db.Bundles
                                         /\ v.group \in DOMAIN db.PropertyGroups \cup {0}
  /\ \A g \in Range(db.PropertyGroups) : Exists(g.parent)

(* However runs of addsys interleave and die, a commit leaves what the       *)
(* import would have made of the committed tables on its own (import reads   *)
(* the old bundle first and writes later).                                   *)
Alone(j) == import(db, OldBundle(db, Path[j]), Layer[j], Path[j], Class[j])

CommitsAreSerial == [][\/ UNCHANGED db
                       \/ stage'["persistent"] = "empty"
                       \/ \E j \in Jobs : pc'[j] = "done" /\ pc[j] # "done" /\ db' = Alone(j)]_vars

(* The query of the composed view agrees with its reference for every        *)
(* instance of every repository reached.                                     *)
ComposedIsReference == \A i \in DOMAIN db.Instances : Composed(db, i) = ComposedReference(db, i)

(* A manager that serves never has a half-made repository under it, whatever *)
(* was killed between the schema and its metadata row (Backend::init).       *)
Serving == mgr.at \in {"up", "asked", "reading"}

ServesWholeRepositories == Serving => stage["persistent"] = "whole" /\ stage[mgr.volatile] = "whole"

(* addsys ends, well or not, although two runs may each hold what the other  *)
(* waits for (import's BEGIN is deferred).                                   *)
ImportEnds == \A j \in Jobs : pc[j] = "open" ~> pc[j] \in {"done", "dead"}

(* The loop of persistentInstanceSnapshotCreate ends, also when it meets an  *)
(* import in COMMIT, unless the manager is read-only and the import is       *)
(* killed there.                                                             *)
SnapshotEnds == mgr.at = "asked" ~> mgr.at \in {"up", "down"} \/ (hot /\ Option.readOnly)
=============================================================================
