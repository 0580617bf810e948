------------------------------ MODULE WSRPCGen ------------------------------
(* The code wsrpcgen writes for an interface (src/cmd/wsrpcgen), run: the    *)
(* client's stub turns arguments into an object, the server's handleReq      *)
(* finds the method and takes the object apart, the implementation answers,  *)
(* and the stub or the delegate's dispatcher turns the answer back.  Which   *)
(* definition a type name stands for is settled by scope.cc.  Left out are   *)
(* interfaces whose code does not compile (lists of strings, lists of ints   *)
(* or bools as arguments, two lists in one block, programs that define types *)
(* of their own) and unions, whose serialise() returns nothing and whose     *)
(* deserialise() keeps no member.                                            *)
EXTENDS Integers, Sequences, SequencesExt, FiniteSets

CONSTANTS Scope,      \* scope -> [parent, imports, types], a unit has parent "none"
          Def,        \* the type a scope defines -> [kind, decls, entries]
          Programs,   \* served in this order: [scope, versions]
          Texts,      \* builtin type -> values of it that libucl holds, as text
          CStr,       \* string -> what precedes its first NUL
          ToInt,      \* int64 -> its low 32 bits, as an int
          Foreign,    \* requests of clients that were not generated from the IDL
          Own,        \* results an implementation may set by itself
          MaxMembers, \* bound: elements of a list, members of an object
          Depth,      \* bound: how deep values and objects nest
          Nesting     \* bound: length of a chain of parents and imports

(* A type reference is [list, type]; type holds the parts between "::".      *)
NULL == "null"

-----------------------------------------------------------------------------
(* lookupIdentifier: the scope's own types, then the parent's; a unit's own, *)
(* then its imports'.  f is the search from the scopes further out.          *)
FoundIn(f, s, id) ==
  LET own == SelectInSeq(Scope[s].types, LAMBDA t : t.name = id)
      imp == SelectInSeq(Scope[s].imports, LAMBDA u : f[u][id] # NULL)
  IN  IF own # 0 THEN Scope[s].types[own].def
      ELSE IF Scope[s].parent # "none" THEN f[Scope[s].parent][id]
      ELSE IF imp # 0 THEN f[Scope[s].imports[imp]][id] ELSE NULL

search[n \in Nat] ==
  IF n = 0 THEN [s \in DOMAIN Scope |-> [id \in STRING |-> NULL]]
  ELSE [s \in DOMAIN Scope |-> [id \in STRING |-> FoundIn(search[n - 1], s, id)]]

lookupIdentifier(s, id) == search[Nesting][s][id]

(* TypeRef::synthInScope: the first part from where the name is used, each   *)
(* further part from what was found.  Without a def the type is builtin.     *)
LookupPart(d, part) == IF d = NULL THEN NULL ELSE lookupIdentifier(d, part)

synthInScope(s, ref) == FoldLeft(LookupPart, s, ref.type)

TypeOf(def, ref) == [list |-> ref.list, of |-> IF def = NULL THEN Head(ref.type) ELSE def]
Synth(s, ref) == TypeOf(synthInScope(s, ref), ref)

Types == [list : BOOLEAN, of : DOMAIN Def \cup DOMAIN Texts]
Plain(d) == [list |-> FALSE, of |-> d]
IsBuiltin(d) == d \notin DOMAIN Def
IsEnum(d) == d \in DOMAIN Def /\ Def[d].kind = "enum"
IsStruct(d) == ~IsBuiltin(d) /\ ~IsEnum(d)

-----------------------------------------------------------------------------
(* The reference for names: what C++ takes them for.  A name means the       *)
(* definition of the innermost scope that has one; everything included is    *)
(* one outermost scope.  A further part is a member.                         *)
Defined(s, id) == {t.def : t \in {x \in Range(Scope[s].types) : x.name = id}}

SeenFrom(f, s, id) ==
  IF Scope[s].parent = "none" THEN Defined(s, id) \cup UNION {f[u][id] : u \in Range(Scope[s].imports)}
  ELSE IF Defined(s, id) # {} THEN Defined(s, id) ELSE f[Scope[s].parent][id]

visible[n \in Nat] ==
  IF n = 0 THEN [s \in DOMAIN Scope |-> [id \in STRING |-> {}]]
  ELSE [s \in DOMAIN Scope |-> [id \in STRING |-> SeenFrom(visible[n - 1], s, id)]]

TheDef(defs) == IF defs = {} THEN NULL ELSE CHOOSE d \in defs : TRUE
Member(d, part) == IF d = NULL THEN NULL ELSE TheDef(Defined(d, part))

Reference(s, parts) == FoldLeft(Member, TheDef(visible[Nesting][s][Head(parts)]), Tail(parts))
Meant(s, ref) == TypeOf(Reference(s, ref.type), ref)

-----------------------------------------------------------------------------
(* C++ values have a text and members (a struct's in the order of its        *)
(* declaration, a list's elements); libucl objects a type and keys as well.  *)
Val(text, members) == [val |-> text, members |-> members]
Ucl(type, text, keys, members) == [type |-> type, val |-> text, keys |-> keys, members |-> members]
UclNull == Ucl("null", "", <<>>, <<>>)

Index(s, x) == CHOOSE i \in DOMAIN s : s[i] = x
Ids(decls) == [i \in DOMAIN decls |-> decls[i].id]

(* One value for each declaration.                                           *)
Fitting(decls, Fit(_)) ==
  LET fits == {<<i, Fit(decls[i])>> : i \in DOMAIN decls}
  IN  {m \in [DOMAIN decls -> UNION {p[2] : p \in fits}] : \A p \in fits : m[p[1]] \in p[2]}

(* The values C++ has of a builtin type.                                     *)
Held(d) == IF d = "int" THEN {x \in Texts[d] : ToInt[x] = x} ELSE Texts[d]

(* The value of an enum is a number, told by the first entry that has it.    *)
EntryOf(def, num) == def.entries[SelectInSeq(def.entries, LAMBDA e : e.num = num)]

(* The values of a type that nest n deep at most; f is one less.             *)
ValuesOf(f, t) ==
  CASE t.list -> {Val("", m) : m \in BoundedSeq(f[Plain(t.of)], MaxMembers)}
    [] ~t.list /\ IsBuiltin(t.of) -> {Val(x, <<>>) : x \in Held(t.of)}
    [] ~t.list /\ IsEnum(t.of) -> {Val(EntryOf(Def[t.of], e.num).id, <<>>) : e \in Range(Def[t.of].entries)}
    [] OTHER -> {Val("", m) : m \in Fitting(Def[t.of].decls, LAMBDA decl : f[Meant(t.of, decl.type)])}

values[n \in Nat] == IF n = 0 THEN [t \in Types |-> {}] ELSE [t \in Types |-> ValuesOf(values[n - 1], t)]
Values(t) == values[Depth][t]

(* The objects libucl makes of what is received.                             *)
ObjectsOf(s) ==
  {u \in [type : DOMAIN Texts \cup {"array", "object", "null"}, val : {""} \cup UNION Range(Texts),
           keys : Seq(STRING), members : Seq(s)] :
     /\ u.type \in DOMAIN Texts => u.val \in Texts[u.type]
     /\ u.type \notin {"array", "object"} => u.members = <<>>
     /\ u.type = "object" => Len(u.keys) = Len(u.members)
     /\ Len(u.members) <= MaxMembers}

objects[n \in Nat] == IF n = 0 THEN {} ELSE ObjectsOf(objects[n - 1])

-----------------------------------------------------------------------------
(* The interfaces and requests that are modelled.                            *)
ASSUME BoundAssumption == {MaxMembers, Depth, Nesting} \subseteq Nat \ {0}

(* The scopes from which a search ends after n scopes at most; Nesting is    *)
(* enough for all (an import that goes in circles is never read to its end). *)
within[n \in Nat] ==
  IF n = 0 THEN {}
  ELSE {s \in DOMAIN Scope : {Scope[s].parent} \cup Range(Scope[s].imports) \subseteq within[n - 1] \cup {"none"}}

ASSUME ScopeAssumption ==
  /\ DOMAIN Def \subseteq DOMAIN Scope /\ {NULL, "none"} \cap DOMAIN Scope = {}
  /\ within[Nesting] = DOMAIN Scope
  /\ \A s \in DOMAIN Scope : /\ Scope[s].parent \in DOMAIN Scope \cup {"none"}
                            /\ Scope[s].imports \in Seq(DOMAIN Scope)
                            /\ Scope[s].types \in Seq([name : STRING, def : DOMAIN Def])
                            /\ IsInjective([i \in DOMAIN Scope[s].types |-> Scope[s].types[i].name])

(* The parts of a name have one meaning, and each further part is a member   *)
(* of the one before: C++ does not compile what is written for other names.  *)
Clear(s, ref) ==
  LET parts == ref.type
      first == visible[Nesting][s][Head(parts)]
  IN  /\ parts # <<>> /\ \A d, e \in first : d = e
      /\ IF Len(parts) = 1 THEN first # {} \/ Head(parts) \in DOMAIN Texts
         ELSE \E path \in [DOMAIN parts -> DOMAIN Def] :
                path[1] \in first /\ \A i \in 2..Len(parts) : path[i] \in Defined(path[i - 1], parts[i])

Refs == [list : BOOLEAN, type : Seq(STRING)]
Block(s, decls) == /\ decls \in Seq([id : STRING, type : Refs])
                   /\ IsInjective(Ids(decls)) /\ \A i \in DOMAIN decls : Clear(s, decls[i].type)

ASSUME TextAssumption ==
  /\ DOMAIN Texts \cap (DOMAIN Def \cup {"array", "object", "null"}) = {}
  /\ {"int", "string"} \subseteq DOMAIN Texts
  /\ CStr \in [Texts["string"] -> Texts["string"]] /\ \A x \in Texts["string"] : CStr[CStr[x]] = CStr[x]
  /\ ToInt \in [Texts["int"] -> Texts["int"]] /\ \A x \in Texts["int"] : ToInt[ToInt[x]] = ToInt[x]

(* An entry has an identifier, a number (the one written, or one more than   *)
(* the entry before) and a string, as C reads it.                            *)
CStrings == {x \in Texts["string"] : CStr[x] = x}
Entries == [id : STRING, num : Int, str : CStrings]

ASSUME DefAssumption ==
  \A d \in DOMAIN Def : /\ Def[d].kind \in {"struct", "enum"}
                       /\ Block(d, Def[d].decls) /\ Len(Def[d].decls) <= MaxMembers
                       /\ Def[d].entries \in Seq(Entries) /\ (IsEnum(d) => Def[d].entries # <<>>)
                       /\ IsInjective(Ids(Def[d].entries))
                       /\ IsInjective([i \in DOMAIN Def[d].entries |-> Def[d].entries[i].str])

-----------------------------------------------------------------------------
(* A string goes as c_str().                                                 *)
wsRPCSerialise(d, x) == IF d = "string" THEN CStr[x] ELSE x

(* An enum goes as the string of its entry.                                  *)
toPSzOfFirst(def, id) == Head(def.entries).str

toPSz(def, id) == def.entries[SelectInSeq(def.entries, LAMBDA e : e.id = id)].str

Serialised(f, t, v) ==
  CASE t.list -> Ucl("array", "", <<>>, [i \in DOMAIN v.members |-> f[Plain(t.of)][v.members[i]]])
    [] ~t.list /\ IsBuiltin(t.of) -> Ucl(t.of, wsRPCSerialise(t.of, v.val), <<>>, <<>>)
    [] ~t.list /\ IsEnum(t.of) -> Ucl("string", toPSz(Def[t.of], v.val), <<>>, <<>>)
    [] OTHER -> LET decls == Def[t.of].decls
                IN  Ucl("object", "", Ids(decls),
                        [i \in DOMAIN decls |-> f[Synth(t.of, decls[i].type)][v.members[i]]])

serialise[n \in Nat] ==
  IF n = 0 THEN [t \in Types |-> <<>>]
  ELSE [t \in Types |-> [v \in values[n][t] |-> Serialised(serialise[n - 1], t, v)]]

Failed == [suc |-> FALSE, out |-> Val("", <<>>)]
Done(out) == [suc |-> TRUE, out |-> out]

(* A string is read up to a NUL, and an int64 narrowed to int.               *)
wsRPCDeserialise(d, x) == CASE d = "string" -> CStr[x] [] d = "int" -> ToInt[x] [] OTHER -> x

(* The entry with that string, if any.  kMax, which stands for none, is one  *)
(* more than the last entry; an entry with that number is refused too.       *)
kMax(def) == Last(def.entries).num + 1

fromPSz(def, txt) == SelectInSeq(def.entries, LAMBDA e : e.str = txt)

DeserialisedPlain(f, d, u) ==
  LET decls == Def[d].decls
      Got(i) == f[Synth(d, decls[i].type)][u.members[Index(u.keys, decls[i].id)]]
      found == fromPSz(Def[d], CStr[u.val])
      num == Def[d].entries[found].num
  IN  CASE IsBuiltin(d) -> IF u.type = d THEN Done(Val(wsRPCDeserialise(d, u.val), <<>>)) ELSE Failed
        [] IsEnum(d) -> IF u.type # "string" \/ found = 0 \/ num = kMax(Def[d]) THEN Failed
                        ELSE Done(Val(EntryOf(Def[d], num).id, <<>>))
        [] OTHER -> IF \/ u.type # "object" \/ ~(Range(Ids(decls)) \subseteq Range(u.keys))
                       \/ \E i \in DOMAIN decls : ~Got(i).suc
                    THEN Failed
                    ELSE Done(Val("", [i \in DOMAIN decls |-> Got(i).out]))

(* ucl_iterate_object goes through the members of an array or an object, and *)
(* takes anything else for its one element.                                  *)
Deserialised(f, t, u) ==
  LET many == u.type \in {"array", "object"}
      Els == IF many THEN DOMAIN u.members ELSE 1..1
      El(i) == IF many THEN f[Plain(t.of)][u.members[i]] ELSE DeserialisedPlain(f, t.of, u)
  IN  IF ~t.list THEN DeserialisedPlain(f, t.of, u)
      ELSE IF \E i \in Els : ~El(i).suc THEN Failed
      ELSE Done(Val("", [i \in Els |-> El(i).out]))

deserialise[n \in Nat] ==
  IF n = 0 THEN [t \in Types |-> <<>>]
  ELSE [t \in Types |-> [u \in objects[n] |-> Deserialised(deserialise[n - 1], t, u)]]

(* The code genDeserialiseInto writes leaves suc alone for a list whose      *)
(* elements are all good: suc is what it was before.                         *)
DeserialiseInto(t, u, suc) ==
  LET got == deserialise[Depth][t][u]
  IN  IF t.list /\ got.suc THEN [got EXCEPT !.suc = suc] ELSE got

-----------------------------------------------------------------------------
VARIABLES
  at,     \* idle, sent, executing, answered, told
  call,   \* the call: [kind: sync, async or foreign; program, version, method, args]
  req,    \* the request: [method, params]
  ran,    \* what the implementations were called with
  gave,   \* what the implementation returned: [ok, err, value]
  reply,  \* [err, result]; err is none in a result
  told    \* what the caller gets: [err, set, value]

vars == <<at, call, req, ran, gave, reply, told>>

Unset == Val("unset", <<>>)
NoCall == [kind |-> "none", program |-> 0, version |-> 0, method |-> "", args |-> <<>>]

Init == /\ at = "idle" /\ call = NoCall
        /\ req = [method |-> "", params |-> UclNull]
        /\ ran = <<>> /\ gave = [ok |-> FALSE, err |-> "none", value |-> Unset]
        /\ reply = [err |-> "none", result |-> UclNull]
        /\ told = [err |-> "none", set |-> FALSE, value |-> Unset]

(* implFunName: the name on the wire holds the version.                      *)
implFunName(method, version) == method.name \o "_v" \o version.num

Versions(p) == Programs[p].versions
MethodAt(p, v, m) == Versions(p)[v].methods[m]
WireName(p, v, m) == implFunName(MethodAt(p, v, m), Versions(p)[v])
IsVoid(method) == method.ret.type = <<"void">>

Methods == [name : STRING, args : Seq([id : STRING, type : Refs]), ret : Refs]

(* A program defines no types: stubs are outside the class that would hold   *)
(* them, and the prefix scope.cc gives them names no class.                  *)
ASSUME ProgramAssumption ==
  /\ Programs \in Seq([scope : DOMAIN Scope, versions : Seq([num : STRING, methods : Seq(Methods)])])
  /\ \A p \in DOMAIN Programs : Versions(p) # <<>> /\ Scope[Programs[p].scope].types = <<>>
  /\ \A p \in DOMAIN Programs : \A v \in DOMAIN Versions(p) : \A m \in DOMAIN Versions(p)[v].methods :
       /\ Block(Programs[p].scope, MethodAt(p, v, m).args)
       /\ IsVoid(MethodAt(p, v, m)) \/ Clear(Programs[p].scope, MethodAt(p, v, m).ret)

(* A name on the wire is one method's among all that are served.  wsrpcgen   *)
(* does not see to it: that is up to who writes and serves the interfaces.   *)
ASSUME WireAssumption ==
  \A p, q \in DOMAIN Programs : \A v \in DOMAIN Versions(p), w \in DOMAIN Versions(q) :
    \A m \in DOMAIN Versions(p)[v].methods, n \in DOMAIN Versions(q)[w].methods :
      WireName(p, v, m) = WireName(q, w, n) => p = q /\ v = w /\ m = n

(* A value nests one deeper than its object where a list was sent as its one *)
(* element.                                                                  *)
ASSUME ForeignAssumption ==
  /\ \A r \in Foreign : /\ r.params.members \in Seq(objects[Depth - 1]) /\ r.params.keys \in Seq(STRING)
                        /\ Len(r.params.keys) = Len(r.params.members)
  /\ Own \subseteq objects[Depth - 1]

(* genClientCallCommonPartImpl: an object with a key for each argument.      *)
Params(s, method, args) ==
  Ucl("object", "", Ids(method.args),
      [i \in DOMAIN method.args |-> serialise[Depth][Synth(s, method.args[i].type)][args[i]]])

ArgLists(s, method) == Fitting(method.args, LAMBDA arg : Values(Meant(s, arg.type)))

(* The generated stubs; sync waits for the reply, async has a delegate.      *)
Call(kind, p, v, m, args) ==
  /\ at = "idle" /\ at' = "sent"
  /\ call' = [kind |-> kind, program |-> p, version |-> v, method |-> MethodAt(p, v, m).name, args |-> args]
  /\ req' = [method |-> WireName(p, v, m), params |-> Params(Programs[p].scope, MethodAt(p, v, m), args)]
  /\ UNCHANGED <<ran, gave, reply, told>>

ForeignCall(r) ==
  /\ at = "idle" /\ at' = "sent"
  /\ call' = [NoCall EXCEPT !.kind = "foreign"]
  /\ req' = r
  /\ UNCHANGED <<ran, gave, reply, told>>

-----------------------------------------------------------------------------
(* handleReq.  genServerImplCases ends each version with "else return -1":   *)
(* the cases of a second version are behind it.                              *)
Reachable(p) == {<<1, m>> : m \in DOMAIN Versions(p)[1].methods}

Matches(p) == {c \in Reachable(p) : req.method = WireName(p, c[1], c[2])}

(* The programs are asked in turn; the first that knows the method has it.   *)
Handler == {p \in DOMAIN Programs : Matches(p) # {} /\ \A q \in 1..(p - 1) : Matches(q) = {}}

TheMethod(p) == LET c == CHOOSE c \in Matches(p) : TRUE IN MethodAt(p, c[1], c[2])

HasParam(params, arg) == Contains(params.keys, arg.id)
Param(params, arg) == params.members[Index(params.keys, arg.id)]

TakeArgUnchecked(s, params, acc, arg) ==
  IF acc.bad \/ ~HasParam(params, arg) THEN [acc EXCEPT !.bad = TRUE]
  ELSE LET got == DeserialiseInto(Synth(s, arg.type), Param(params, arg), acc.succeeded)
       IN  [bad |-> FALSE, succeeded |-> TRUE, vals |-> Append(acc.vals, got.out)]

TakeArg(s, params, acc, arg) ==
  IF acc.bad THEN acc
  ELSE IF ~HasParam(params, arg) THEN [acc EXCEPT !.bad = TRUE]
  ELSE LET got == DeserialiseInto(Synth(s, arg.type), Param(params, arg), acc.succeeded)
       IN  [bad |-> ~got.suc, succeeded |-> got.suc, vals |-> Append(acc.vals, got.out)]

NoneTaken == [bad |-> FALSE, succeeded |-> FALSE, vals |-> <<>>]
Taken(s, params, args) == FoldLeft(LAMBDA acc, arg : TakeArg(s, params, acc, arg), NoneTaken, args)
TakenArgs(p) == Taken(Programs[p].scope, req.params, TheMethod(p).args)

Answer(err, result) == at' = "answered" /\ reply' = [err |-> err, result |-> result]

(* processMessage with no program that takes the request.                    *)
MethodNotFound ==
  /\ at = "sent" /\ Handler = {}
  /\ Answer("methodNotFound", UclNull)
  /\ UNCHANGED <<call, req, ran, gave, told>>

(* handleReq returns 1 and the error is sent, or 0, and a null result.       *)
RefusalAsSuccess(succeeded) == "none"

RefusalOf(succeeded) == IF succeeded THEN "none" ELSE "invalidParameters"

Refuse(taken) == taken.bad /\ Answer(RefusalOf(taken.succeeded), UclNull)

RefuseParams ==
  /\ at = "sent" /\ \E p \in Handler : Refuse(TakenArgs(p))
  /\ UNCHANGED <<call, req, ran, gave, told>>

Runs(p, taken) ==
  ~taken.bad /\ ran' = Append(ran, [program |-> p, method |-> TheMethod(p).name, args |-> taken.vals])

Execute ==
  /\ at = "sent" /\ at' = "executing"
  /\ \E p \in Handler : Runs(p, TakenArgs(p))
  /\ UNCHANGED <<call, req, gave, reply, told>>

(* The implementation returns true and leaves a value, returns true and sets *)
(* req->result itself, or returns false, with or without an error in req.    *)
Running == LET p == CHOOSE p \in Handler : TRUE IN [scope |-> Programs[p].scope, method |-> TheMethod(p)]

Returns ==
  /\ at = "executing"
  /\ IF IsVoid(Running.method)
     THEN Answer("none", UclNull) /\ gave' = [ok |-> TRUE, err |-> "none", value |-> Unset]
     ELSE \E v \in Values(Meant(Running.scope, Running.method.ret)) :
            /\ Answer("none", serialise[Depth][Synth(Running.scope, Running.method.ret)][v])
            /\ gave' = [ok |-> TRUE, err |-> "none", value |-> v]
  /\ UNCHANGED <<call, req, ran, told>>

ReturnsOwnResult ==
  /\ at = "executing"
  /\ \E u \in Own : Answer("none", u)
  /\ gave' = [ok |-> TRUE, err |-> "none", value |-> Unset]
  /\ UNCHANGED <<call, req, ran, told>>

Fails(err) ==
  /\ at = "executing"
  /\ Answer(err, UclNull)
  /\ gave' = [ok |-> FALSE, err |-> err, value |-> Unset]
  /\ UNCHANGED <<call, req, ran, told>>

-----------------------------------------------------------------------------
(* completeWith: an error is decoded, also one that says success.            *)
CalledMethod == LET methods == Versions(call.program)[call.version].methods
                IN  methods[SelectInSeq(methods, LAMBDA m : m.name = call.method)]

Told(err, set, value) == at' = "told" /\ told' = [err |-> err, set |-> set, value |-> value]
ErrorOf == IF reply.err = "none" THEN "success" ELSE reply.err

Returned(suc) == DeserialiseInto(Synth(Programs[call.program].scope, CalledMethod.ret), reply.result, suc)
HasResult == reply.err = "none" /\ ~IsVoid(CalledMethod)

(* The stub notes a local failure, and then overwrites it with comp->err.    *)
ToldSync(got) == Told(ErrorOf, got.suc, IF got.suc THEN got.out ELSE Unset)

SyncReturns ==
  /\ at = "answered" /\ call.kind = "sync"
  /\ IF HasResult THEN ToldSync(Returned(TRUE)) ELSE Told(ErrorOf, FALSE, Unset)
  /\ UNCHANGED <<call, req, ran, gave, reply>>

LocalFailureDropped(suc) == ErrorOf

LocalFailure(suc) == IF suc THEN ErrorOf ELSE "localDeserialisationFailure"

(* The dispatcher tells the delegate.  Its suc starts with any value, which  *)
(* shows for a list.                                                         *)
ToldAsync(got) == Told(LocalFailure(got.suc), got.suc, IF got.suc THEN got.out ELSE Unset)

DidReply ==
  /\ at = "answered" /\ call.kind = "async"
  /\ IF ~HasResult THEN Told(ErrorOf, FALSE, Unset)
     ELSE \E suc \in BOOLEAN : ToldAsync(Returned(suc))
  /\ UNCHANGED <<call, req, ran, gave, reply>>

(* A client of another make takes the reply as it is.                        *)
ForeignReturns ==
  /\ at = "answered" /\ call.kind = "foreign"
  /\ Told(ErrorOf, FALSE, Unset)
  /\ UNCHANGED <<call, req, ran, gave, reply>>

(* No reply within the time wait() allows, wherever the call is.             *)
WaitTimesOut ==
  /\ at \in {"sent", "executing", "answered"} /\ call.kind = "sync"
  /\ Told("replyTimeout", FALSE, Unset)
  /\ UNCHANGED <<call, req, ran, gave, reply>>

Stub == \E p \in DOMAIN Programs : \E v \in DOMAIN Versions(p) : \E m \in DOMAIN Versions(p)[v].methods :
          \E kind \in {"sync", "async"}, args \in ArgLists(Programs[p].scope, MethodAt(p, v, m)) :
            Call(kind, p, v, m, args)

Next == \/ Stub \/ \E r \in Foreign : ForeignCall(r)
        \/ MethodNotFound \/ RefuseParams \/ Execute
        \/ Returns \/ ReturnsOwnResult \/ \E err \in {"error", "success"} : Fails(err)
        \/ SyncReturns \/ DidReply \/ ForeignReturns \/ WaitTimesOut

Spec == Init /\ [][Next]_vars

-----------------------------------------------------------------------------
(* Types of the variables.                                                   *)
Errors == {"none", "success", "error", "invalidParameters", "methodNotFound",
           "replyTimeout", "localDeserialisationFailure"}

TypeOK ==
  /\ at \in {"idle", "sent", "executing", "answered", "told"}
  /\ Len(ran) \in 0..1 /\ gave.err \in Errors /\ reply.err \in Errors /\ told.err \in Errors
  /\ at = "executing" => ran # <<>> /\ Len(ran[1].args) = Len(Running.method.args)

(* What the way to the other side leaves of a value, told without the        *)
(* conversions: strings end at their first NUL, all else is as it was.       *)
CarriedOf(f, t, v) ==
  CASE t.list -> Val("", [i \in DOMAIN v.members |-> f[Plain(t.of)][v.members[i]]])
    [] ~t.list /\ IsStruct(t.of) ->
         Val("", [i \in DOMAIN v.members |-> f[Meant(t.of, Def[t.of].decls[i].type)][v.members[i]]])
    [] OTHER -> IF t.of = "string" THEN Val(CStr[v.val], <<>>) ELSE v

carried[n \in Nat] ==
  IF n = 0 THEN [t \in Types |-> <<>>]
  ELSE [t \in Types |-> [v \in values[n][t] |-> CarriedOf(carried[n - 1], t, v)]]

Carried(t, v) == carried[Depth][t][v]

(* The method that is run for a stub is the one it was called for, and its   *)
(* arguments are what is left of the stub's: they come in their order, of    *)
(* their types, whole but for what follows a NUL in a string, through both   *)
(* conversions (genSerialiseInto, genDeserialiseInto, genServerImplCase).    *)
ArgumentsArrive ==
  \A i \in DOMAIN ran : call.kind # "foreign" =>
    /\ ran[i].program = call.program /\ ran[i].method = call.method
    /\ ran[i].args = [j \in DOMAIN call.args |->
                        Carried(Meant(Programs[call.program].scope, CalledMethod.args[j].type), call.args[j])]

(* Whatever another client sends, an implementation only ever sees values of *)
(* the types that C++ takes its declaration for.                             *)
ArgumentsConform ==
  at = "executing" => \A i \in DOMAIN Running.method.args :
                        ran[1].args[i] \in Values(Meant(Running.scope, Running.method.args[i].type))

(* A caller that is told of success has had its call executed, unless an     *)
(* argument after a good one was missing: handleReq then leaves succeeded    *)
(* set and answers with a null result.                                       *)
LaterParamMissing ==
  \E p \in Handler : \E i \in DOMAIN TheMethod(p).args :
    i > 1 /\ ~HasParam(req.params, TheMethod(p).args[i]) /\ HasParam(req.params, TheMethod(p).args[1])

SuccessMeansExecuted == told.err = "success" => ran # <<>> \/ LaterParamMissing

(* A value a caller is given is one of the type declared, and what is left   *)
(* of the one the implementation gave (strings end at a NUL) unless that set *)
(* a result of its own; and a delegate that is told of success has one.  Of  *)
(* the sync stub that is not claimed: it overwrites its local failure.       *)
Results == Meant(Programs[call.program].scope, CalledMethod.ret)

ResultComesBack ==
  /\ told.set => /\ gave.ok /\ told.value \in Values(Results)
                 /\ gave.value # Unset => told.value = Carried(Results, gave.value)
  /\ at = "told" /\ call.kind = "async" /\ told.err = "success" /\ gave.ok /\ ~IsVoid(CalledMethod) => told.set
=============================================================================
