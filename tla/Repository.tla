------------------------------ MODULE Repository ------------------------------
(* The persistent repository as addsys fills it and the manager reads it:    *)
(* the tables of src/share/repositorySchema.sql, what addsys makes of a      *)
(* bundle (src/cmd/addsys.cc) and the composed view of an instance's         *)
(* properties (queryGetInstancePropertiesComposed.sql).  Operators only; the *)
(* processes that use them are in RepositoryAccess.                          *)
EXTENDS Integers, Sequences, SequencesExt, Functions, FiniteSetsExt

-----------------------------------------------------------------------------
(* A bundle as libucl hands it over: members with a key, in order.           *)
Str(key, val) == [key |-> key, type |-> "string", val |-> val, members |-> <<>>]
Obj(key, members) == [key |-> key, type |-> "object", val |-> "", members |-> members]
Arr(key, members) == [Obj(key, members) EXCEPT !.type = "array"]

(* ucl_iterate_object: a value that holds no others is iterated as itself.   *)
Items(obj) == IF obj.type = "string" THEN <<obj>> ELSE obj.members

(* What the parser hands over: members come in lists, down to what a method  *)
(* of an instance or an entry of its dependencies holds.                     *)
Listed(s) == s \in Seq(Range(s))
Below(nodes) == UNION {Range(Items(n)) : n \in nodes}
Parsed(doc) ==
  /\ Listed(doc)
  /\ \A n \in Range(doc) \cup Below(Range(doc)) \cup Below(Below(Range(doc)))
               \cup Below(Below(Below(Range(doc)))) : Listed(n.members)

Each(f(_), s) == [i \in DOMAIN s |-> f(s[i])]

PropString(key, value) == [key |-> key, page |-> FALSE, value |-> value, members |-> <<>>]
PropPage(key, members) == [key |-> key, page |-> TRUE, value |-> "", members |-> members]

(* processPage builds PropString("type", NULL) when it is given no type,     *)
(* which the library refuses with an exception nobody catches, and asserts   *)
(* that it has an object.  It calls itself without a type for a member that  *)
(* is no string, so a page it returns from holds strings only.               *)
PageAborts(obj, typed) ==
  ~typed \/ obj.type # "object" \/ \E i \in DOMAIN obj.members : obj.members[i].type # "string"

processPage(obj) == PropPage(obj.key, Each(LAMBDA m : PropString(m.key, m.val), obj.members))

(* A page for each dependency.  The two strings made for it are not added.   *)
processDeps(obj) ==
  FlattenSeq(Each(LAMBDA arr : Each(LAMBDA dep : PropPage("dependency_" \o arr.key \o dep.val, <<>>),
                                    Items(arr)),
                  Items(obj)))

Methods(obj) == Each(processPage, Items(obj))

IsDeps(m) == m.key \in {"depends", "dependents"}

(* An instance's other members are reported and left out.                    *)
processInst(inst) ==
  [name |-> inst.key,
   props |-> FlattenSeq(Each(LAMBDA m : CASE IsDeps(m) -> processDeps(m)
                                          [] m.key = "methods" -> Methods(m)
                                          [] OTHER -> <<>>, Items(inst)))]

Members(doc, key) == SelectSeq(doc, LAMBDA m : m.key = key)

process(doc) ==
  [name |-> Last(Members(doc, "name")).val,
   insts |-> FlattenSeq(Each(LAMBDA m : IF m.key = "instances" THEN Each(processInst, Items(m)) ELSE <<>>, doc)),
   props |-> FlattenSeq(Each(LAMBDA m : CASE m.key \in {"name", "instances"} -> <<>>
                                          [] IsDeps(m) -> processDeps(m)
                                          [] m.key = "methods" -> Methods(m)
                                          [] OTHER -> <<PropString(m.key, m.val)>>, doc))]

MethodsAbort(members) ==
  \E m \in Range(Members(members, "methods")) : \E p \in Range(Items(m)) : PageAborts(p, TRUE)

(* process() does not come back: a method is no page of strings, or a        *)
(* property of the class is no string (processProp).                         *)
ProcessAborts(doc) ==
  \/ MethodsAbort(doc)
  \/ \E m \in Range(Members(doc, "instances")) : \E inst \in Range(Items(m)) : MethodsAbort(Items(inst))
  \/ \E m \in Range(doc) : /\ m.key \notin {"name", "depends", "dependents", "instances", "methods"}
                           /\ m.type # "string" /\ PageAborts(m, FALSE)

-----------------------------------------------------------------------------
(* Tables are functions from row ids; seq holds the last id given out, which *)
(* AUTOINCREMENT never gives out again.  Foreign keys are not enforced.      *)
TableNames == {"Services", "Instances", "Bundles", "Properties", "PropertyValues", "PropertyGroups"}

EmptyTables == [t \in TableNames \cup {"seq"} |->
                  IF t = "seq" THEN [u \in TableNames |-> 0] ELSE <<>>]

WithRow(rows, id, row) == [i \in DOMAIN rows \cup {id} |-> IF i = id THEN row ELSE rows[i]]

Insert(db, table, row) ==
  [db EXCEPT ![table] = WithRow(@, db.seq[table] + 1, row), !.seq[table] = @ + 1]

(* sqlite3_last_insert_rowid, after an insertion into the table.             *)
LastId(db, table) == db.seq[table]

(* sqlite3_get_single_int: the first row found.                              *)
Rows(db, table, P(_)) == {id \in DOMAIN db[table] : P(db[table][id])}

(* Get an entry or create it: the tables then, and its id.                   *)
GetOrCreate(db, table, row) ==
  LET found == Rows(db, table, LAMBDA r : r = row)
      made == IF found = {} THEN Insert(db, table, row) ELSE db
  IN  [db |-> made, id |-> IF found = {} THEN LastId(made, table) ELSE Min(found)]

ServiceParent(svc) == [kind |-> "service", id |-> svc]
InstanceParent(inst) == [kind |-> "instance", id |-> inst]
GroupParent(group) == [kind |-> "group", id |-> group]

(* A PropertyValues row, then the Properties row that refers to it.          *)
InsertProperty(db, bundle, parent, prop, group) ==
  LET valued == Insert(db, "PropertyValues",
                       [bundle |-> bundle, key |-> prop.key, value |-> prop.value, group |-> group])
  IN  Insert(valued, "Properties", [parent |-> parent, value |-> LastId(valued, "PropertyValues")])

(* A page's group hangs on the service, also when the page is an instance's; *)
(* what is on the page is parented to the group.                             *)
importProp(db, bundle, svc, parent, prop) ==
  IF ~prop.page THEN InsertProperty(db, bundle, parent, prop, 0)
  ELSE LET page == GetOrCreate(db, "PropertyGroups", [name |-> prop.key, parent |-> ServiceParent(svc)])
           filled == FoldLeft(LAMBDA d, p : InsertProperty(d, bundle, GroupParent(page.id), p, 0),
                              page.db, prop.members)
       IN  InsertProperty(filled, bundle, parent, prop, page.id)

deleteBundleKeepsProperties(db, b) ==
  LET dead == Rows(db, "PropertyValues", LAMBDA v : v.bundle = b)
  IN  [db EXCEPT !.PropertyValues = Restrict(@, DOMAIN @ \ dead),
                 !.Bundles = Restrict(@, DOMAIN @ \ {b})]

(* The bundle's values, the properties that refer to them, and the bundle;   *)
(* services, instances and groups stay.                                      *)
deleteBundle(db, b) ==
  LET dead == Rows(db, "PropertyValues", LAMBDA v : v.bundle = b)
  IN  [db EXCEPT !.PropertyValues = Restrict(@, DOMAIN @ \ dead),
                 !.Properties = Restrict(@, {p \in DOMAIN @ : @[p].value \notin dead}),
                 !.Bundles = Restrict(@, DOMAIN @ \ {b})]

(* Step 2 of import: the first bundle of that file and its RefCount.         *)
NoBundle == [id |-> 0, refCount |-> 0]

OldBundle(db, path) ==
  LET old == Rows(db, "Bundles", LAMBDA b : b.filename = path)
  IN  IF old = {} THEN NoBundle ELSE [id |-> Min(old), refCount |-> db.Bundles[Min(old)].refCount]

WithoutOld(db, old) ==
  IF old # NoBundle /\ old.refCount = 0 THEN deleteBundle(db, old.id) ELSE db

(* INSERT INTO Services(Name) leaves out Type, which may not be NULL: it     *)
(* fails, so the service has to be there.                                    *)
HasService(db, name) == Rows(db, "Services", LAMBDA s : s = name) # {}

ImportInstance(db, bundle, svc, inst) ==
  LET entry == GetOrCreate(db, "Instances", [name |-> inst.name, service |-> svc])
  IN  FoldLeft(LAMBDA d, p : importProp(d, bundle, svc, InstanceParent(entry.id), p), entry.db, inst.props)

(* Steps 2 to 5: the tables after the import, given the bundle it replaces.  *)
import(db, old, layer, path, class) ==
  LET bundled == Insert(WithoutOld(db, old), "Bundles", [filename |-> path, layer |-> layer, refCount |-> 0])
      bundle == LastId(bundled, "Bundles")
      svc == Min(Rows(db, "Services", LAMBDA s : s = class.name))
      withProps == FoldLeft(LAMBDA d, p : importProp(d, bundle, svc, ServiceParent(svc), p), bundled, class.props)
  IN  FoldLeft(LAMBDA d, i : ImportInstance(d, bundle, svc, i), withProps, class.insts)

-----------------------------------------------------------------------------
(* The composed query, one operator per common table expression.             *)
ValueOf(db, p) == db.PropertyValues[db.Properties[p].value]

ValuesOf(db, level, parent) ==
  {[instance |-> level, property |-> p, key |-> ValueOf(db, p).key,
    layer |-> db.Bundles[ValueOf(db, p).bundle].layer]
     : p \in Rows(db, "Properties", LAMBDA r : /\ r.parent = parent /\ r.value \in DOMAIN db.PropertyValues
                                               /\ db.PropertyValues[r.value].bundle \in DOMAIN db.Bundles)}

AllValues(db, inst) ==
  ValuesOf(db, 0, ServiceParent(db.Instances[inst].service)) \cup ValuesOf(db, 1, InstanceParent(inst))

MaxInstance(all, key) == Max({v.instance : v \in {w \in all : w.key = key}})

MaxLayerOfAll(all, key) == Max({v.layer : v \in {w \in all : w.key = key}})

MaxLayerForHighestInstance(all, key) ==
  Max({v.layer : v \in {w \in all : w.key = key /\ w.instance = MaxInstance(all, key)}})

Composed(db, inst) ==
  LET all == AllValues(db, inst)
  IN  {v.property : v \in {w \in all : /\ w.instance = MaxInstance(all, w.key)
                                       /\ w.layer = MaxLayerForHighestInstance(all, w.key)}}

(* The reference: a property shows unless another of its key overrides it,   *)
(* the instance's own before the service's, then the higher layer.           *)
Overrides(v, w) == /\ v.key = w.key
                   /\ v.instance > w.instance \/ (v.instance = w.instance /\ v.layer > w.layer)

ComposedReference(db, inst) ==
  LET all == AllValues(db, inst)
  IN  {v.property : v \in {w \in all : \A u \in all : ~Overrides(u, w)}}
=============================================================================
