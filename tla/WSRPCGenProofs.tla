--------------------------- MODULE WSRPCGenProofs ---------------------------
(* Proofs about the code wsrpcgen writes, for any interface and any requests *)
(* of other clients.                                                         *)
EXTENDS WSRPCGen, SequenceTheorems, TLAPS

Anything(e) == TRUE

(* The two searches for a name at one level: what is found is visible, and   *)
(* nothing is found only where nothing is visible.                           *)
AgreeAt(o, n) ==
  \A s \in DOMAIN Scope, id \in STRING :
    /\ visible[n][s][id] \subseteq DOMAIN Def
    /\ IF visible[n][s][id] = {} THEN search[n][s][id] = NULL ELSE search[n][s][id] \in visible[n][s][id]

(* A search that ends within n scopes finds the same with one more.          *)
SettledAt(o, n) ==
  \A s \in within[n] : s \in DOMAIN Scope /\ \A id \in STRING : search[n + 1][s][id] = search[n][s][id]

SearchStep(a, b, c, f, n) == [s \in DOMAIN Scope |-> [id \in STRING |-> FoundIn(f, s, id)]]
VisibleStep(a, b, c, f, n) == [s \in DOMAIN Scope |-> [id \in STRING |-> SeenFrom(f, s, id)]]
WithinStep(a, b, c, f, n) ==
  {s \in DOMAIN Scope : {Scope[s].parent} \cup Range(Scope[s].imports) \subseteq f \cup {"none"}}

Search == INSTANCE FoldInduction WITH Op <- SearchStep, Keeps <- AgreeAt, Element <- Anything
Visible == INSTANCE FoldInduction WITH Op <- VisibleStep, Keeps <- SettledAt, Element <- Anything
Within == INSTANCE FoldInduction WITH Op <- WithinStep, Keeps <- SettledAt, Element <- Anything

(* The recursive definitions of the searches, unfolded.                      *)
LEMMA SearchUnfolds ==
  /\ \A s \in DOMAIN Scope, id \in STRING : search[0][s][id] = NULL
  /\ \A n \in Nat : \A s \in DOMAIN Scope, id \in STRING : search[n + 1][s][id] = FoundIn(search[n], s, id)
<1> DEFINE base == [s \in DOMAIN Scope |-> [id \in STRING |-> NULL]]
<1>1. search = Search!Recursion(0, 0, 0, base)
  BY DEF search, Search!Recursion, SearchStep
<1>2. /\ search[0] = base
      /\ \A n \in Nat : search[n + 1] = SearchStep(0, 0, 0, search[n], n + 1)
  <2> HIDE DEF base
  <2> QED  BY <1>1, Search!RecursionUnfolds
<1>3. ASSUME NEW n \in Nat, NEW s \in DOMAIN Scope, NEW id \in STRING
      PROVE  search[n + 1][s][id] = FoundIn(search[n], s, id)
  <2>1. search[n + 1] = SearchStep(0, 0, 0, search[n], n + 1)
    BY <1>2
  <2> DEFINE f == search[n]
  <2>2. SearchStep(0, 0, 0, f, n + 1)[s][id] = FoundIn(f, s, id)
    <3> HIDE DEF f
    <3> QED  BY DEF SearchStep
  <2> QED  BY <2>1, <2>2
<1>4. ASSUME NEW s \in DOMAIN Scope, NEW id \in STRING PROVE search[0][s][id] = NULL
  BY <1>2 DEF NULL
<1> QED  BY <1>3, <1>4

(* What a scope sees, one scope further out.                                 *)
LEMMA VisibleUnfolds ==
  /\ \A s \in DOMAIN Scope, id \in STRING : visible[0][s][id] = {}
  /\ \A n \in Nat : \A s \in DOMAIN Scope, id \in STRING : visible[n + 1][s][id] = SeenFrom(visible[n], s, id)
<1> DEFINE base == [s \in DOMAIN Scope |-> [id \in STRING |-> {}]]
<1>1. visible = Visible!Recursion(0, 0, 0, base)
  BY DEF visible, Visible!Recursion, VisibleStep
<1>2. /\ visible[0] = base
      /\ \A n \in Nat : visible[n + 1] = VisibleStep(0, 0, 0, visible[n], n + 1)
  <2> HIDE DEF base
  <2> QED  BY <1>1, Visible!RecursionUnfolds
<1>3. ASSUME NEW n \in Nat, NEW s \in DOMAIN Scope, NEW id \in STRING
      PROVE  visible[n + 1][s][id] = SeenFrom(visible[n], s, id)
  <2>1. visible[n + 1] = VisibleStep(0, 0, 0, visible[n], n + 1)
    BY <1>2
  <2> DEFINE f == visible[n]
  <2>2. VisibleStep(0, 0, 0, f, n + 1)[s][id] = SeenFrom(f, s, id)
    <3> HIDE DEF f
    <3> QED  BY DEF VisibleStep
  <2> QED  BY <2>1, <2>2
<1> QED  BY <1>2, <1>3

(* The scopes from which a search ends, one level at a time.                 *)
LEMMA WithinUnfolds ==
  /\ within[0] = {}
  /\ \A n \in Nat : within[n + 1] = WithinStep(0, 0, 0, within[n], n + 1)
<1>1. within = Within!Recursion(0, 0, 0, {})
  BY DEF within, Within!Recursion, WithinStep
<1> QED  BY <1>1, Within!RecursionUnfolds

(* Min finds the least of some naturals.                                     *)
LEMMA MinOfNaturals ==
  ASSUME NEW T, T \subseteq Nat, T # {}
  PROVE  Min(T) \in T /\ \A x \in T : Min(T) <= x
  BY Search!LeastNatural DEF Min

-----------------------------------------------------------------------------
(* The elements of a sequence.                                               *)
LEMMA ElementsOf ==
  ASSUME NEW S, NEW q \in Seq(S)
  PROVE  Len(q) \in Nat /\ DOMAIN q = 1..Len(q) /\ (\A i \in 1..Len(q) : q[i] \in S) /\ Range(q) \subseteq S
  BY DEF Range

(* What is assumed of a scope.                                               *)
LEMMA ScopeOf ==
  ASSUME NEW s \in DOMAIN Scope
  PROVE  /\ Scope[s].parent \in DOMAIN Scope \cup {"none"}
         /\ Scope[s].imports \in Seq(DOMAIN Scope) /\ Range(Scope[s].imports) \subseteq DOMAIN Scope
         /\ Scope[s].types \in Seq([name : STRING, def : DOMAIN Def])
         /\ \A i \in 1..Len(Scope[s].types) : Scope[s].types[i].def \in DOMAIN Def
<1>1. /\ Scope[s].parent \in DOMAIN Scope \cup {"none"} /\ Scope[s].imports \in Seq(DOMAIN Scope)
      /\ Scope[s].types \in Seq([name : STRING, def : DOMAIN Def])
  BY ScopeAssumption, Zenon
<1>2. \A i \in 1..Len(Scope[s].types) : Scope[s].types[i] \in [name : STRING, def : DOMAIN Def]
  BY <1>1, ElementsOf
<1> QED  BY <1>1, <1>2, ElementsOf

(* A step of lookupIdentifier: the scope's own types, the parent's, the      *)
(* first import's that has one.                                              *)
LEMMA FoundInCases ==
  ASSUME NEW f, NEW s \in DOMAIN Scope, NEW id \in STRING
  PROVE  /\ Defined(s, id) \subseteq DOMAIN Def
         /\ Defined(s, id) # {} => FoundIn(f, s, id) \in Defined(s, id)
         /\ Defined(s, id) = {} /\ Scope[s].parent # "none" => FoundIn(f, s, id) = f[Scope[s].parent][id]
         /\ Defined(s, id) = {} /\ Scope[s].parent = "none" =>
              IF \E u \in Range(Scope[s].imports) : f[u][id] # NULL
              THEN \E u \in Range(Scope[s].imports) : FoundIn(f, s, id) = f[u][id] /\ f[u][id] # NULL
              ELSE FoundIn(f, s, id) = NULL
<1> DEFINE types == Scope[s].types
           imports == Scope[s].imports
           named == {i \in 1..Len(types) : types[i].name = id}
           found == {i \in 1..Len(imports) : f[imports[i]][id] # NULL}
           own == IF named # {} THEN Min(named) ELSE 0
           imp == IF found # {} THEN Min(found) ELSE 0
<1>1. /\ types \in Seq([name : STRING, def : DOMAIN Def]) /\ Len(types) \in Nat /\ DOMAIN types = 1..Len(types)
      /\ imports \in Seq(DOMAIN Scope) /\ Len(imports) \in Nat /\ DOMAIN imports = 1..Len(imports)
  <2>1. types \in Seq([name : STRING, def : DOMAIN Def]) /\ imports \in Seq(DOMAIN Scope)
    BY ScopeOf
  <2> HIDE DEF types, imports
  <2> QED  BY <2>1
<1>2. FoundIn(f, s, id) = IF own # 0 THEN types[own].def
                          ELSE IF Scope[s].parent # "none" THEN f[Scope[s].parent][id]
                          ELSE IF imp # 0 THEN f[imports[imp]][id] ELSE NULL
  BY DEF FoundIn, SelectInSeq
<1>3. Defined(s, id) = {types[i].def : i \in named}
  BY <1>1 DEF Defined, Range
<1>4. \A i \in named : types[i].def \in DOMAIN Def
  BY ScopeOf
<1>5. named # {} => own \in named /\ own # 0
  <2>1. named \subseteq Nat /\ 0 \notin named
    OBVIOUS
  <2> HIDE DEF named
  <2> QED  BY <2>1, MinOfNaturals
<1>6. found # {} => imp \in found /\ imp # 0
  <2>1. found \subseteq Nat /\ 0 \notin found
    OBVIOUS
  <2> HIDE DEF found
  <2> QED  BY <2>1, MinOfNaturals
<1>7. named = {} => own = 0
  OBVIOUS
<1>8. found = {} => imp = 0
  OBVIOUS
<1>9. \A i \in found : i \in DOMAIN imports /\ imports[i] \in Range(imports) /\ f[imports[i]][id] # NULL
  BY <1>1 DEF Range
<1>10. (\E u \in Range(imports) : f[u][id] # NULL) => found # {}
  BY <1>1 DEF Range
<1> HIDE DEF own, imp, named, found, types, imports
<1>11. Defined(s, id) # {} <=> named # {}
  BY <1>3
<1>12. CASE named # {}
  <2>1. FoundIn(f, s, id) = types[own].def
    BY <1>2, <1>5, <1>12
  <2> QED  BY <1>3, <1>4, <1>5, <1>11, <1>12, <2>1
<1>13. CASE named = {}
  <2>1. Defined(s, id) = {}
    BY <1>11, <1>13
  <2>2. CASE Scope[s].parent # "none"
    <3>1. FoundIn(f, s, id) = f[Scope[s].parent][id]
      BY <1>2, <1>7, <1>13, <2>2
    <3> QED  BY <2>1, <2>2, <3>1
  <2>3. CASE Scope[s].parent = "none"
    <3>1. FoundIn(f, s, id) = IF imp # 0 THEN f[imports[imp]][id] ELSE NULL
      BY <1>2, <1>7, <1>13, <2>3
    <3>2. CASE found # {}
      <4>1. FoundIn(f, s, id) = f[imports[imp]][id] /\ imports[imp] \in Range(imports) /\ f[imports[imp]][id] # NULL
        BY <1>6, <1>9, <3>1, <3>2
      <4> QED  BY <2>1, <2>3, <4>1 DEF imports
    <3>3. CASE found = {}
      <4>1. FoundIn(f, s, id) = NULL /\ ~\E u \in Range(imports) : f[u][id] # NULL
        BY <1>8, <1>10, <3>1, <3>3
      <4> QED  BY <2>1, <2>3, <4>1 DEF imports
    <3> QED  BY <3>2, <3>3
  <2> QED  BY <2>2, <2>3
<1> QED  BY <1>12, <1>13

(* The generator's search agrees with what C++ sees, from every scope and    *)
(* however deep the search goes.                                             *)
LEMMA SearchAgrees ==
  \A n \in Nat : AgreeAt(0, n)
<1>1. AgreeAt(0, 0)
  BY SearchUnfolds, VisibleUnfolds DEF AgreeAt
<1>2. ASSUME NEW n \in Nat, AgreeAt(0, n) PROVE AgreeAt(0, n + 1)
  <2> SUFFICES ASSUME NEW s \in DOMAIN Scope, NEW id \in STRING
               PROVE  /\ visible[n + 1][s][id] \subseteq DOMAIN Def
                      /\ IF visible[n + 1][s][id] = {} THEN search[n + 1][s][id] = NULL
                         ELSE search[n + 1][s][id] \in visible[n + 1][s][id]
    BY DEF AgreeAt
  <2> DEFINE F == search[n]
             V == visible[n]
             found == FoundIn(F, s, id)
             seen == SeenFrom(V, s, id)
             own == Defined(s, id)
             par == Scope[s].parent
             imps == Range(Scope[s].imports)
  <2>1. search[n + 1][s][id] = found /\ visible[n + 1][s][id] = seen
    BY SearchUnfolds, VisibleUnfolds
  <2>2. seen = IF par = "none" THEN own \cup UNION {V[u][id] : u \in imps}
               ELSE IF own # {} THEN own ELSE V[par][id]
    BY DEF SeenFrom
  <2>3. /\ own \subseteq DOMAIN Def /\ (own # {} => found \in own)
        /\ own = {} /\ par # "none" => found = F[par][id]
        /\ own = {} /\ par = "none" => IF \E u \in imps : F[u][id] # NULL
                                        THEN \E u \in imps : found = F[u][id] /\ F[u][id] # NULL
                                        ELSE found = NULL
    BY FoundInCases
  <2>4. (par # "none" => par \in DOMAIN Scope) /\ imps \subseteq DOMAIN Scope
    BY ScopeOf
  <2>5. \A u \in DOMAIN Scope : /\ V[u][id] \subseteq DOMAIN Def
                                /\ IF V[u][id] = {} THEN F[u][id] = NULL ELSE F[u][id] \in V[u][id]
    BY <1>2 DEF AgreeAt
  <2>6. NULL \notin DOMAIN Def
    BY ScopeAssumption
  <2> HIDE DEF F, V, found, seen, own, par, imps
  <2>7. seen \subseteq DOMAIN Def /\ IF seen = {} THEN found = NULL ELSE found \in seen
    <3>1. CASE own # {}
      BY <2>2, <2>3, <2>4, <2>5, <3>1
    <3>2. CASE own = {} /\ par # "none"
      BY <2>2, <2>3, <2>4, <2>5, <3>2
    <3>3. CASE own = {} /\ par = "none"
      <4>1. seen = UNION {V[u][id] : u \in imps}
        BY <2>2, <3>3
      <4>2. CASE \E u \in imps : F[u][id] # NULL
        <5>1. PICK u \in imps : found = F[u][id] /\ F[u][id] # NULL
          BY <2>3, <3>3, <4>2
        <5>2. found \in V[u][id]
          BY <2>4, <2>5, <5>1
        <5> QED  BY <2>4, <2>5, <4>1, <5>2
      <4>3. CASE ~\E u \in imps : F[u][id] # NULL
        <5>1. found = NULL
          BY <2>3, <3>3, <4>3
        <5>2. \A u \in imps : V[u][id] = {}
          BY <2>4, <2>5, <2>6, <4>3
        <5> QED  BY <4>1, <5>1, <5>2
      <4> QED  BY <4>2, <4>3
    <3> QED  BY <3>1, <3>2, <3>3
  <2> QED  BY <2>1, <2>7
<1> QED  BY <1>1, <1>2, Search!Induction

(* However far a search goes, from the innermost scope on, it ends.          *)
LEMMA SearchSettles ==
  \A n \in Nat : SettledAt(0, n)
<1>1. SettledAt(0, 0)
  BY WithinUnfolds DEF SettledAt
<1>2. ASSUME NEW n \in Nat, SettledAt(0, n) PROVE SettledAt(0, n + 1)
  <2> SUFFICES ASSUME NEW s \in within[n + 1]
               PROVE  s \in DOMAIN Scope /\ \A id \in STRING : search[(n + 1) + 1][s][id] = search[n + 1][s][id]
    BY DEF SettledAt
  <2>1. /\ s \in DOMAIN Scope
        /\ {Scope[s].parent} \cup Range(Scope[s].imports) \subseteq within[n] \cup {"none"}
    BY WithinUnfolds DEF WithinStep
  <2>2. "none" \notin Range(Scope[s].imports)
    BY <2>1, ScopeOf, ScopeAssumption
  <2>3. (Scope[s].parent # "none" => Scope[s].parent \in within[n]) /\ Range(Scope[s].imports) \subseteq within[n]
    BY <2>1, <2>2
  <2> SUFFICES ASSUME NEW id \in STRING PROVE search[(n + 1) + 1][s][id] = search[n + 1][s][id]
    BY <2>1
  <2> DEFINE F == search[n]
             G == search[n + 1]
             imports == Scope[s].imports
             here == {i \in 1..Len(imports) : F[imports[i]][id] # NULL}
             there == {i \in 1..Len(imports) : G[imports[i]][id] # NULL}
  <2>4. \A u \in within[n] : F[u][id] = G[u][id]
    BY <1>2 DEF SettledAt
  <2>5. \A i \in 1..Len(imports) : F[imports[i]][id] = G[imports[i]][id]
    <3>1. imports \in Seq(DOMAIN Scope)
      BY <2>1, ScopeOf
    <3>2. \A i \in 1..Len(imports) : imports[i] \in Range(imports)
      <4> HIDE DEF imports
      <4> QED  BY <3>1 DEF Range
    <3> QED  BY <2>3, <2>4, <3>2
  <2>6. here = there
    BY <2>5
  <2>7. Scope[s].parent # "none" => F[Scope[s].parent][id] = G[Scope[s].parent][id]
    BY <2>3, <2>4
  <2>8. here # {} => Min(here) \in 1..Len(imports) /\ F[imports[Min(here)]][id] = G[imports[Min(here)]][id]
    <3>1. here \subseteq Nat /\ here \subseteq 1..Len(imports)
      OBVIOUS
    <3>2. here # {} => Min(here) \in 1..Len(imports)
      <4> HIDE DEF here
      <4> QED  BY <3>1, MinOfNaturals
    <3> QED  BY <2>5, <3>2, Zenon
  <2>9. FoundIn(F, s, id) = FoundIn(G, s, id)
    <3> DEFINE named == {i \in 1..Len(Scope[s].types) : Scope[s].types[i].name = id}
               own == IF named # {} THEN Min(named) ELSE 0
    <3>1. /\ FoundIn(F, s, id) = LET imp == IF here # {} THEN Min(here) ELSE 0
                                 IN  IF own # 0 THEN Scope[s].types[own].def
                                     ELSE IF Scope[s].parent # "none" THEN F[Scope[s].parent][id]
                                     ELSE IF imp # 0 THEN F[imports[imp]][id] ELSE NULL
          /\ FoundIn(G, s, id) = LET imp == IF there # {} THEN Min(there) ELSE 0
                                 IN  IF own # 0 THEN Scope[s].types[own].def
                                     ELSE IF Scope[s].parent # "none" THEN G[Scope[s].parent][id]
                                     ELSE IF imp # 0 THEN G[imports[imp]][id] ELSE NULL
      BY DEF FoundIn, SelectInSeq
    <3> HIDE DEF F, G, here, there, own, imports
    <3> QED  BY <2>6, <2>7, <2>8, <3>1
  <2>10. search[(n + 1) + 1][s][id] = FoundIn(G, s, id) /\ search[n + 1][s][id] = FoundIn(F, s, id)
    <3>1. n + 1 \in Nat
      OBVIOUS
    <3> QED  BY <2>1, <3>1, SearchUnfolds
  <2> QED  BY <2>9, <2>10
<1> QED  BY <1>1, <1>2, Visible!Induction

(* The lookup is the one that calls itself for the scopes further out: no    *)
(* interface has a chain of parents and imports that Nesting cuts short.     *)
THEOREM LookupIsRecursive ==
  \A s \in DOMAIN Scope, id \in STRING : lookupIdentifier(s, id) = FoundIn(search[Nesting], s, id)
<1> TAKE s \in DOMAIN Scope, id \in STRING
<1>1. Nesting \in Nat /\ within[Nesting] = DOMAIN Scope
  BY BoundAssumption, ScopeAssumption
<1>2. search[Nesting + 1][s][id] = search[Nesting][s][id]
  <2>1. SettledAt(0, Nesting)
    BY <1>1, SearchSettles
  <2> QED  BY <1>1, <2>1 DEF SettledAt
<1> QED  BY <1>1, <1>2, SearchUnfolds DEF lookupIdentifier

-----------------------------------------------------------------------------
(* A name part by part: after k parts the search is at the k-th definition   *)
(* of a path.                                                                *)
PathAt(o, k) == k + 1 \in 1..o.n => o.g[k + 1] = o.path[k + 1]

LookupStep(a, b, c, d, part) == LookupPart(d, part)
MemberStep(a, b, c, d, part) == Member(d, part)

Lookups == INSTANCE FoldInduction WITH Op <- LookupStep, Keeps <- PathAt, Element <- Anything
Members == INSTANCE FoldInduction WITH Op <- MemberStep, Keeps <- PathAt, Element <- Anything

(* A type that is a member of a scope is found there, by both.               *)
LEMMA MemberFound ==
  ASSUME NEW d \in DOMAIN Scope, NEW id \in STRING, NEW x \in Defined(d, id)
  PROVE  lookupIdentifier(d, id) = x /\ TheDef(Defined(d, id)) = x
<1>1. \A y \in Defined(d, id) : y = x
  <2> DEFINE types == Scope[d].types
  <2>1. \A i, j \in DOMAIN types : types[i].name = types[j].name => i = j
    BY ScopeAssumption DEF IsInjective
  <2>2. Defined(d, id) = {t.def : t \in {u \in {types[i] : i \in DOMAIN types} : u.name = id}}
    BY DEF Defined, Range
  <2> HIDE DEF types
  <2> QED  BY <2>1, <2>2
<1>2. TheDef(Defined(d, id)) = x
  BY <1>1 DEF TheDef
<1>3. FoundIn(search[Nesting], d, id) \in Defined(d, id)
  BY FoundInCases
<1> QED  BY <1>1, <1>2, <1>3, LookupIsRecursive

(* A name that is clear means the same to wsrpcgen as to C++, a type.        *)
LEMMA NameMeaning ==
  ASSUME NEW s \in DOMAIN Scope, NEW ref \in Refs, Clear(s, ref)
  PROVE  synthInScope(s, ref) = Reference(s, ref.type) /\ Synth(s, ref) = Meant(s, ref) /\ Meant(s, ref) \in Types
<1> DEFINE parts == ref.type
           n == Len(parts)
           first == visible[Nesting][s][Head(parts)]
           rest == Tail(parts)
<1>1. /\ parts \in Seq(STRING) /\ ref.list \in BOOLEAN /\ n \in Nat \ {0} /\ DOMAIN parts = 1..n
      /\ Head(parts) = parts[1] /\ parts[1] \in STRING
      /\ DOMAIN rest = 1..(n - 1) /\ \A k \in 1..(n - 1) : rest[k] = parts[k + 1]
  <2>1. parts \in Seq(STRING) /\ parts # <<>> /\ ref.list \in BOOLEAN
    BY DEF Refs, Clear
  <2> HIDE DEF parts
  <2> QED  BY <2>1
<1>2. PICK g : /\ g[0] = s /\ \A k \in 1..n : g[k] = LookupPart(g[k - 1], parts[k])
               /\ synthInScope(s, ref) = g[n]
  <2>1. PICK g : Lookups!Along(g, 0, 0, 0, s, parts, n)
    <3> HIDE DEF n, parts
    <3> QED  BY <1>1, Lookups!FoldUnfolds
  <2>2. Lookups!Fold(0, 0, 0, s, parts) = synthInScope(s, ref)
    BY DEF Lookups!Fold, FoldLeft, MapThenFoldSet, Max, Lookups!FoldLeft, Lookups!MapThenFoldSet, Lookups!Max,
           LookupStep, synthInScope
  <2> QED  BY <2>1, <2>2 DEF Lookups!Along, LookupStep
<1>3. PICK h : /\ h[0] = TheDef(first) /\ \A k \in 1..(n - 1) : h[k] = Member(h[k - 1], rest[k])
               /\ Reference(s, parts) = h[n - 1]
  <2>1. PICK h : Members!Along(h, 0, 0, 0, TheDef(first), rest, n - 1)
    <3>1. n - 1 \in Nat
      BY <1>1
    <3> HIDE DEF n, parts, first, rest
    <3> QED  BY <1>1, <3>1, Members!FoldUnfolds
  <2>2. Members!Fold(0, 0, 0, TheDef(first), rest) = Reference(s, parts)
    BY DEF Members!Fold, FoldLeft, MapThenFoldSet, Max, Members!FoldLeft, Members!MapThenFoldSet, Members!Max,
           MemberStep, Reference
  <2> QED  BY <2>1, <2>2 DEF Members!Along, MemberStep
<1>4. /\ first \subseteq DOMAIN Def
      /\ IF first = {} THEN lookupIdentifier(s, parts[1]) = NULL ELSE lookupIdentifier(s, parts[1]) \in first
  <2>1. AgreeAt(0, Nesting)
    BY BoundAssumption, SearchAgrees
  <2> QED  BY <1>1, <2>1 DEF AgreeAt, lookupIdentifier
<1>5. \A d, e \in first : d = e
  BY DEF Clear
<1>6. g[1] = lookupIdentifier(s, parts[1])
  <2>1. s # NULL
    BY ScopeAssumption
  <2>2. 1 \in 1..n /\ 1 - 1 = 0
    BY <1>1
  <2> QED  BY <1>2, <2>1, <2>2 DEF LookupPart
<1>7. h[0] = g[1]
  <2>1. TheDef(first) = lookupIdentifier(s, parts[1])
    BY <1>4, <1>5 DEF TheDef
  <2> QED  BY <1>3, <1>6, <2>1
<1>8. /\ synthInScope(s, ref) = Reference(s, parts)
      /\ Reference(s, parts) \in DOMAIN Def \/ (Reference(s, parts) = NULL /\ Head(parts) \in DOMAIN Texts)
  <2>1. CASE n = 1
    <3>1. synthInScope(s, ref) = g[1] /\ Reference(s, parts) = g[1]
      BY <1>2, <1>3, <1>7, <2>1
    <3>2. first # {} \/ Head(parts) \in DOMAIN Texts
      BY <2>1 DEF Clear
    <3> QED  BY <1>4, <1>6, <3>1, <3>2
  <2>2. CASE n # 1
    <3>1. PICK path \in [DOMAIN parts -> DOMAIN Def] :
            path[1] \in first /\ \A k \in 2..n : path[k] \in Defined(path[k - 1], parts[k])
      BY <2>2 DEF Clear
    <3>2. ASSUME NEW k \in 2..n
          PROVE  LookupPart(path[k - 1], parts[k]) = path[k] /\ Member(path[k - 1], parts[k]) = path[k]
      <4>1. k - 1 \in 1..n /\ k \in 1..n
        BY <1>1
      <4>2. path[k - 1] \in DOMAIN Def /\ path[k - 1] \in DOMAIN Scope /\ path[k - 1] # NULL /\ parts[k] \in STRING
        <5>1. path[k - 1] \in DOMAIN Def /\ parts[k] \in STRING
          BY <1>1, <3>1, <4>1
        <5> QED  BY <5>1, ScopeAssumption
      <4>3. path[k] \in Defined(path[k - 1], parts[k])
        BY <3>1
      <4>4. lookupIdentifier(path[k - 1], parts[k]) = path[k] /\ TheDef(Defined(path[k - 1], parts[k])) = path[k]
        BY <4>2, <4>3, MemberFound
      <4> QED  BY <4>2, <4>4 DEF LookupPart, Member
    <3>3. g[1] = path[1]
      BY <1>4, <1>5, <1>6, <3>1
    <3>4. \A k \in Nat : PathAt([g |-> g, path |-> path, n |-> n], k)
      <4> DEFINE o == [g |-> g, path |-> path, n |-> n]
      <4>1. PathAt(o, 0)
        BY <3>3 DEF PathAt
      <4>2. ASSUME NEW k \in Nat, PathAt(o, k) PROVE PathAt(o, k + 1)
        <5> SUFFICES ASSUME (k + 1) + 1 \in 1..n PROVE g[(k + 1) + 1] = path[(k + 1) + 1]
          BY DEF PathAt
        <5>1. k + 1 \in 1..n /\ (k + 1) + 1 \in 2..n /\ ((k + 1) + 1) - 1 = k + 1
          BY <1>1
        <5>2. g[k + 1] = path[k + 1]
          BY <4>2, <5>1 DEF PathAt
        <5> QED  BY <1>2, <3>2, <5>1, <5>2
      <4> HIDE DEF o
      <4>3. \A k \in Nat : PathAt(o, k)
        BY <4>1, <4>2, Lookups!Induction
      <4> QED  BY <4>3 DEF o
    <3>5. \A k \in Nat : PathAt([g |-> [k2 \in 1..n |-> h[k2 - 1]], path |-> path, n |-> n], k)
      <4> DEFINE f == [k2 \in 1..n |-> h[k2 - 1]]
                 o == [g |-> f, path |-> path, n |-> n]
      <4>0. \A k \in 1..n : f[k] = h[k - 1]
        OBVIOUS
      <4> HIDE DEF f
      <4>1. PathAt(o, 0)
        <5>1. f[1] = h[0]
          BY <1>1, <4>0
        <5> QED  BY <1>7, <3>3, <5>1 DEF PathAt
      <4>2. ASSUME NEW k \in Nat, PathAt(o, k) PROVE PathAt(o, k + 1)
        <5> SUFFICES ASSUME (k + 1) + 1 \in 1..n PROVE f[(k + 1) + 1] = path[(k + 1) + 1]
          BY DEF PathAt
        <5>1. /\ k + 1 \in 1..n /\ (k + 1) + 1 \in 2..n /\ ((k + 1) + 1) - 1 = k + 1
              /\ k + 1 \in 1..(n - 1) /\ (k + 1) - 1 = k
          BY <1>1
        <5>2. f[k + 1] = path[k + 1]
          BY <4>2, <5>1 DEF PathAt
        <5>3. f[k + 1] = h[k] /\ f[(k + 1) + 1] = h[k + 1]
          BY <4>0, <5>1
        <5>4. h[k + 1] = Member(h[k], parts[(k + 1) + 1])
          BY <1>1, <1>3, <5>1
        <5> QED  BY <3>2, <5>1, <5>2, <5>3, <5>4
      <4> HIDE DEF o
      <4>3. \A k \in Nat : PathAt(o, k)
        BY <4>1, <4>2, Members!Induction
      <4> QED  BY <4>3 DEF o, f
    <3>6. n - 1 \in Nat /\ (n - 1) + 1 = n /\ n \in 1..n
      BY <1>1
    <3>7. g[n] = path[n]
      BY <3>4, <3>6 DEF PathAt
    <3>8. h[n - 1] = path[n]
      <4>1. PathAt([g |-> [k2 \in 1..n |-> h[k2 - 1]], path |-> path, n |-> n], n - 1)
        BY <3>5, <3>6
      <4> QED  BY <3>6, <4>1 DEF PathAt
    <3>9. path[n] \in DOMAIN Def
      BY <1>1, <3>1, <3>6
    <3> QED  BY <1>2, <1>3, <3>7, <3>8, <3>9
  <2> QED  BY <2>1, <2>2
<1>9. NULL \notin DOMAIN Def
  BY ScopeAssumption
<1>10. Meant(s, ref) = [list |-> ref.list, of |-> IF Reference(s, parts) = NULL THEN Head(parts) ELSE Reference(s, parts)]
  BY DEF Meant, TypeOf
<1>11. Synth(s, ref) = Meant(s, ref)
  BY <1>8 DEF Synth, Meant
<1> HIDE DEF parts
<1> QED  BY <1>1, <1>8, <1>9, <1>10, <1>11 DEF Types, parts

(* What is assumed of the bounds.                                            *)
LEMMA Bounds ==
  MaxMembers \in Nat \ {0} /\ Depth \in Nat \ {0} /\ Nesting \in Nat \ {0}
  BY BoundAssumption

(* What is assumed of a block of declarations.                               *)
LEMMA BlockOf ==
  ASSUME NEW s \in DOMAIN Scope, NEW decls, Block(s, decls)
  PROVE  /\ decls \in Seq([id : STRING, type : Refs]) /\ Len(decls) \in Nat /\ DOMAIN decls = 1..Len(decls)
         /\ \A i \in 1..Len(decls) : /\ decls[i].id \in STRING
                                     /\ Synth(s, decls[i].type) = Meant(s, decls[i].type)
                                     /\ Meant(s, decls[i].type) \in Types
         /\ \A i, j \in 1..Len(decls) : decls[i].id = decls[j].id => i = j
         /\ Ids(decls) \in Seq(STRING) /\ Len(Ids(decls)) = Len(decls) /\ DOMAIN Ids(decls) = 1..Len(decls)
         /\ \A i \in 1..Len(decls) : Ids(decls)[i] = decls[i].id /\ Index(Ids(decls), decls[i].id) = i
<1>1. /\ decls \in Seq([id : STRING, type : Refs]) /\ IsInjective(Ids(decls))
      /\ \A i \in DOMAIN decls : Clear(s, decls[i].type)
  BY DEF Block
<1>2. Len(decls) \in Nat /\ DOMAIN decls = 1..Len(decls)
  BY <1>1
<1>3. \A i \in 1..Len(decls) : decls[i] \in [id : STRING, type : Refs]
  BY <1>1, ElementsOf
<1>4. \A i \in 1..Len(decls) : decls[i].id \in STRING /\ decls[i].type \in Refs
  <2> HIDE DEF Refs
  <2> QED  BY <1>3
<1>5. \A i \in 1..Len(decls) : /\ Synth(s, decls[i].type) = Meant(s, decls[i].type)
                               /\ Meant(s, decls[i].type) \in Types
  BY <1>1, <1>2, <1>4, NameMeaning
<1>6. /\ DOMAIN Ids(decls) = 1..Len(decls) /\ Len(Ids(decls)) = Len(decls) /\ Ids(decls) \in Seq(STRING)
      /\ \A i \in 1..Len(decls) : Ids(decls)[i] = decls[i].id
  BY <1>2, <1>4 DEF Ids
<1>7. \A i, j \in 1..Len(decls) : decls[i].id = decls[j].id => i = j
  BY <1>1, <1>6 DEF IsInjective
<1>8. \A i \in 1..Len(decls) : Index(Ids(decls), decls[i].id) = i
  BY <1>6, <1>7 DEF Index
<1> QED  BY <1>1, <1>2, <1>4, <1>5, <1>6, <1>7, <1>8

(* What is assumed of a definition, and of a method that is served.          *)
LEMMA DefOf ==
  ASSUME NEW d \in DOMAIN Def
  PROVE  d \in DOMAIN Scope /\ Block(d, Def[d].decls) /\ Len(Def[d].decls) <= MaxMembers
  BY DefAssumption, ScopeAssumption, Zenon

(* A method's arguments are a block of its program's scope, and the type it  *)
(* returns is the one its name means.                                        *)
LEMMA MethodOf ==
  ASSUME NEW p \in DOMAIN Programs, NEW v \in DOMAIN Versions(p), NEW m \in DOMAIN Versions(p)[v].methods
  PROVE  /\ Programs[p].scope \in DOMAIN Scope /\ Block(Programs[p].scope, MethodAt(p, v, m).args)
         /\ MethodAt(p, v, m) \in Methods
         /\ ~IsVoid(MethodAt(p, v, m)) =>
              /\ Synth(Programs[p].scope, MethodAt(p, v, m).ret) = Meant(Programs[p].scope, MethodAt(p, v, m).ret)
              /\ Meant(Programs[p].scope, MethodAt(p, v, m).ret) \in Types
<1> DEFINE s == Programs[p].scope
           method == MethodAt(p, v, m)
           VersionSet == [num : STRING, methods : Seq(Methods)]
<1>1. Programs \in Seq([scope : DOMAIN Scope, versions : Seq(VersionSet)])
  BY ProgramAssumption, Zenon
<1>2. Programs[p] \in [scope : DOMAIN Scope, versions : Seq(VersionSet)]
  <2> DEFINE S == [scope : DOMAIN Scope, versions : Seq(VersionSet)]
  <2>1. Programs \in Seq(S)
    BY <1>1
  <2> HIDE DEF S
  <2>2. Programs[p] \in S
    BY <2>1, ElementsOf
  <2> QED  BY <2>2 DEF S
<1>3. s \in DOMAIN Scope /\ Versions(p) \in Seq(VersionSet)
  <2> HIDE DEF VersionSet
  <2> QED  BY <1>2 DEF Versions
<1>4. Versions(p)[v] \in VersionSet
  <2> HIDE DEF VersionSet
  <2> QED  BY <1>3, ElementsOf
<1>5. Versions(p)[v].methods \in Seq(Methods)
  BY <1>4
<1>6. method \in Methods
  BY <1>5, ElementsOf DEF MethodAt
<1>7. method.ret \in Refs
  BY <1>6 DEF Methods
<1>8. Block(s, method.args) /\ (IsVoid(method) \/ Clear(s, method.ret))
  BY ProgramAssumption, Zenon
<1> HIDE DEF s, method
<1>9. ~IsVoid(method) => Synth(s, method.ret) = Meant(s, method.ret) /\ Meant(s, method.ret) \in Types
  BY <1>3, <1>7, <1>8, NameMeaning
<1> QED  BY <1>3, <1>6, <1>8, <1>9 DEF s, method

(* Every name in an interface whose programs define no types of their own    *)
(* means the same to wsrpcgen as to C++: the types of members, and of        *)
(* arguments and results.                                                    *)
THEOREM NamesAgree ==
  /\ \A d \in DOMAIN Def : \A i \in DOMAIN Def[d].decls :
       Synth(d, Def[d].decls[i].type) = Meant(d, Def[d].decls[i].type)
  /\ \A p \in DOMAIN Programs : \A v \in DOMAIN Versions(p) : \A m \in DOMAIN Versions(p)[v].methods :
       LET s == Programs[p].scope
           method == MethodAt(p, v, m)
       IN  /\ \A i \in DOMAIN method.args : Synth(s, method.args[i].type) = Meant(s, method.args[i].type)
           /\ ~IsVoid(method) => Synth(s, method.ret) = Meant(s, method.ret)
<1>1. ASSUME NEW d \in DOMAIN Def, NEW i \in DOMAIN Def[d].decls
      PROVE  Synth(d, Def[d].decls[i].type) = Meant(d, Def[d].decls[i].type)
  BY DefOf, BlockOf
<1>2. ASSUME NEW p \in DOMAIN Programs, NEW v \in DOMAIN Versions(p), NEW m \in DOMAIN Versions(p)[v].methods,
             NEW i \in DOMAIN MethodAt(p, v, m).args
      PROVE  Synth(Programs[p].scope, MethodAt(p, v, m).args[i].type)
               = Meant(Programs[p].scope, MethodAt(p, v, m).args[i].type)
  BY MethodOf, BlockOf
<1> QED  BY <1>1, <1>2, MethodOf

-----------------------------------------------------------------------------
(* What is serialised is an object, and is refused or comes back as what is  *)
(* left of the value.                                                        *)
ComesBack(n, t, v) ==
  /\ serialise[n][t][v] \in objects[n] /\ carried[n][t][v] \in values[n][t]
  /\ deserialise[n][t][serialise[n][t][v]] \in {Failed, Done(carried[n][t][v])}

RoundTripAt(o, n) == \A t \in Types : \A v \in values[n][t] : ComesBack(n, t, v)

(* What is deserialised is a value of the type, one level deeper at most.    *)
ConformsAt(o, n) ==
  \A t \in Types : \A u \in objects[n] :
    LET got == deserialise[n + 1][t][u]
    IN  got.suc \in BOOLEAN /\ (got.suc => got.out \in values[n + 1][t])

DeeperAt(o, n) == objects[n] \subseteq objects[n + 1]

ValuesStep(a, b, c, f, n) == [t \in Types |-> ValuesOf(f, t)]
ObjectsStep(a, b, c, f, n) == ObjectsOf(f)
SerialiseStep(a, b, c, f, n) == [t \in Types |-> [v \in values[n][t] |-> Serialised(f, t, v)]]
DeserialiseStep(a, b, c, f, n) == [t \in Types |-> [u \in objects[n] |-> Deserialised(f, t, u)]]
CarriedStep(a, b, c, f, n) == [t \in Types |-> [v \in values[n][t] |-> CarriedOf(f, t, v)]]

ValueLevels == INSTANCE FoldInduction WITH Op <- ValuesStep, Keeps <- ConformsAt, Element <- Anything
ObjectLevels == INSTANCE FoldInduction WITH Op <- ObjectsStep, Keeps <- DeeperAt, Element <- Anything
SerialiseLevels == INSTANCE FoldInduction WITH Op <- SerialiseStep, Keeps <- RoundTripAt, Element <- Anything
DeserialiseLevels == INSTANCE FoldInduction WITH Op <- DeserialiseStep, Keeps <- ConformsAt, Element <- Anything
CarriedLevels == INSTANCE FoldInduction WITH Op <- CarriedStep, Keeps <- RoundTripAt, Element <- Anything

(* The recursive definitions of the conversions, unfolded.                   *)
LEMMA ValuesUnfold ==
  /\ \A t \in Types : values[0][t] = {}
  /\ \A n \in Nat : \A t \in Types : values[n + 1][t] = ValuesOf(values[n], t)
<1> DEFINE base == [t \in Types |-> {}]
<1>1. values = ValueLevels!Recursion(0, 0, 0, base)
  BY DEF values, ValueLevels!Recursion, ValuesStep
<1>2. values[0] = base /\ \A n \in Nat : values[n + 1] = ValuesStep(0, 0, 0, values[n], n + 1)
  <2> HIDE DEF base
  <2> QED  BY <1>1, ValueLevels!RecursionUnfolds
<1>3. ASSUME NEW n \in Nat, NEW t \in Types PROVE values[n + 1][t] = ValuesOf(values[n], t)
  <2> DEFINE f == values[n]
  <2>1. values[n + 1] = ValuesStep(0, 0, 0, f, n + 1)
    BY <1>2
  <2>2. ValuesStep(0, 0, 0, f, n + 1)[t] = ValuesOf(f, t)
    <3> HIDE DEF f
    <3> QED  BY DEF ValuesStep
  <2> QED  BY <2>1, <2>2
<1> QED  BY <1>2, <1>3

(* Objects, one level deeper.                                                *)
LEMMA ObjectsUnfold ==
  objects[0] = {} /\ \A n \in Nat : objects[n + 1] = ObjectsOf(objects[n])
<1>1. objects = ObjectLevels!Recursion(0, 0, 0, {})
  BY DEF objects, ObjectLevels!Recursion, ObjectsStep
<1> QED  BY <1>1, ObjectLevels!RecursionUnfolds DEF ObjectsStep

(* serialise() of a value calls that of its members, one level down.         *)
LEMMA SerialiseUnfolds ==
  \A n \in Nat : \A t \in Types : \A v \in values[n + 1][t] :
    serialise[n + 1][t][v] = Serialised(serialise[n], t, v)
<1> DEFINE base == [t \in Types |-> <<>>]
<1>1. serialise = SerialiseLevels!Recursion(0, 0, 0, base)
  BY DEF serialise, SerialiseLevels!Recursion, SerialiseStep
<1>2. \A n \in Nat : serialise[n + 1] = SerialiseStep(0, 0, 0, serialise[n], n + 1)
  <2> HIDE DEF base
  <2> QED  BY <1>1, SerialiseLevels!RecursionUnfolds
<1> SUFFICES ASSUME NEW n \in Nat, NEW t \in Types, NEW v \in values[n + 1][t]
             PROVE  serialise[n + 1][t][v] = Serialised(serialise[n], t, v)
  OBVIOUS
<1> DEFINE f == serialise[n]
<1>3. serialise[n + 1] = SerialiseStep(0, 0, 0, f, n + 1)
  BY <1>2
<1>4. SerialiseStep(0, 0, 0, f, n + 1)[t][v] = Serialised(f, t, v)
  <2> HIDE DEF f
  <2> QED  BY DEF SerialiseStep
<1> QED  BY <1>3, <1>4

(* So does deserialise() of an object.                                       *)
LEMMA DeserialiseUnfolds ==
  \A n \in Nat : \A t \in Types : \A u \in objects[n + 1] :
    deserialise[n + 1][t][u] = Deserialised(deserialise[n], t, u)
<1> DEFINE base == [t \in Types |-> <<>>]
<1>1. deserialise = DeserialiseLevels!Recursion(0, 0, 0, base)
  BY DEF deserialise, DeserialiseLevels!Recursion, DeserialiseStep
<1>2. \A n \in Nat : deserialise[n + 1] = DeserialiseStep(0, 0, 0, deserialise[n], n + 1)
  <2> HIDE DEF base
  <2> QED  BY <1>1, DeserialiseLevels!RecursionUnfolds
<1> SUFFICES ASSUME NEW n \in Nat, NEW t \in Types, NEW u \in objects[n + 1]
             PROVE  deserialise[n + 1][t][u] = Deserialised(deserialise[n], t, u)
  OBVIOUS
<1> DEFINE f == deserialise[n]
<1>3. deserialise[n + 1] = DeserialiseStep(0, 0, 0, f, n + 1)
  BY <1>2
<1>4. DeserialiseStep(0, 0, 0, f, n + 1)[t][u] = Deserialised(f, t, u)
  <2> HIDE DEF f
  <2> QED  BY DEF DeserialiseStep
<1> QED  BY <1>3, <1>4

(* What is left of a value is made of what is left of its members.           *)
LEMMA CarriedUnfolds ==
  \A n \in Nat : \A t \in Types : \A v \in values[n + 1][t] :
    carried[n + 1][t][v] = CarriedOf(carried[n], t, v)
<1> DEFINE base == [t \in Types |-> <<>>]
<1>1. carried = CarriedLevels!Recursion(0, 0, 0, base)
  BY DEF carried, CarriedLevels!Recursion, CarriedStep
<1>2. \A n \in Nat : carried[n + 1] = CarriedStep(0, 0, 0, carried[n], n + 1)
  <2> HIDE DEF base
  <2> QED  BY <1>1, CarriedLevels!RecursionUnfolds
<1> SUFFICES ASSUME NEW n \in Nat, NEW t \in Types, NEW v \in values[n + 1][t]
             PROVE  carried[n + 1][t][v] = CarriedOf(carried[n], t, v)
  OBVIOUS
<1> DEFINE f == carried[n]
<1>3. carried[n + 1] = CarriedStep(0, 0, 0, f, n + 1)
  BY <1>2
<1>4. CarriedStep(0, 0, 0, f, n + 1)[t][v] = CarriedOf(f, t, v)
  <2> HIDE DEF f
  <2> QED  BY DEF CarriedStep
<1> QED  BY <1>3, <1>4

-----------------------------------------------------------------------------
(* The kinds of types.                                                       *)
LEMMA KindsOf ==
  ASSUME NEW t \in Types
  PROVE  /\ t.list \in BOOLEAN /\ Plain(t.of) \in Types /\ Plain(t.of).list = FALSE /\ Plain(t.of).of = t.of
         /\ ~t.list => t = Plain(t.of)
         /\ IsBuiltin(t.of) => /\ ~IsEnum(t.of) /\ t.of \in DOMAIN Texts
                               /\ t.of \notin {"array", "object", "null"}
         /\ ~IsBuiltin(t.of) => t.of \in DOMAIN Def
         /\ IsBuiltin(t.of) \/ IsEnum(t.of) \/ IsStruct(t.of)
  BY TextAssumption DEF Types, Plain, IsBuiltin, IsEnum, IsStruct

(* The values of a type, kind by kind.                                       *)
LEMMA ListValues ==
  ASSUME NEW n \in Nat, NEW t \in Types, t.list
  PROVE  values[n + 1][t] = {Val("", m) : m \in BoundedSeq(values[n][Plain(t.of)], MaxMembers)}
<1>1. values[n + 1][t] = ValuesOf(values[n], t)
  BY ValuesUnfold
<1> QED  BY <1>1, Zenon DEF ValuesOf

(* The values of a type that libucl knows.                                   *)
LEMMA BuiltinValues ==
  ASSUME NEW n \in Nat, NEW t \in Types, ~t.list, IsBuiltin(t.of)
  PROVE  values[n + 1][t] = {Val(x, <<>>) : x \in Held(t.of)}
<1>1. values[n + 1][t] = ValuesOf(values[n], t)
  BY ValuesUnfold
<1>2. ~IsEnum(t.of)
  BY KindsOf
<1> QED  BY <1>1, <1>2, Zenon DEF ValuesOf

(* The values of an enum are its entries.                                    *)
LEMMA EnumValues ==
  ASSUME NEW n \in Nat, NEW t \in Types, ~t.list, IsEnum(t.of)
  PROVE  values[n + 1][t] = {Val(EntryOf(Def[t.of], e.num).id, <<>>) : e \in Range(Def[t.of].entries)}
<1>1. values[n + 1][t] = ValuesOf(values[n], t)
  BY ValuesUnfold
<1>2. ~IsBuiltin(t.of)
  BY KindsOf
<1> QED  BY <1>1, <1>2 DEF ValuesOf

(* One value for each of some indices.                                       *)
ListsOf(I, fits) == {x \in [I -> UNION {p[2] : p \in fits}] : \A p \in fits : x[p[1]] \in p[2]}

LEMMA FitsOf ==
  ASSUME NEW I, NEW W, NEW m
  PROVE  m \in ListsOf(I, {<<i, W[i]>> : i \in I}) <=> m = [i \in I |-> m[i]] /\ \A i \in I : m[i] \in W[i]
<1> DEFINE fits == {<<i, W[i]>> : i \in I}
<1> DEFINE U == UNION {p[2] : p \in fits}
<1>1. (\A p \in fits : m[p[1]] \in p[2]) <=> \A i \in I : m[i] \in W[i]
  <2>1. \A i \in I : <<i, W[i]>>[1] = i /\ <<i, W[i]>>[2] = W[i] /\ <<i, W[i]>> \in fits
    OBVIOUS
  <2>2. \A p \in fits : \E i \in I : p[1] = i /\ p[2] = W[i]
    OBVIOUS
  <2> QED  BY <2>1, <2>2
<1>2. \A i \in I : W[i] \subseteq U
  <2> SUFFICES ASSUME NEW i \in I, NEW x \in W[i] PROVE x \in U
    OBVIOUS
  <2>1. <<i, W[i]>> \in fits /\ <<i, W[i]>>[2] = W[i]
    OBVIOUS
  <2> QED  BY <2>1
<1> HIDE DEF U
<1>3. m = [i \in I |-> m[i]] /\ (\A i \in I : m[i] \in W[i]) => m \in [I -> U]
  BY <1>2
<1>4. m \in [I -> U] => m = [i \in I |-> m[i]]
  OBVIOUS
<1>5. m \in ListsOf(I, fits) <=> m \in [I -> U] /\ \A p \in fits : m[p[1]] \in p[2]
  <2> HIDE DEF fits
  <2> QED  BY Zenon DEF ListsOf, U
<1> HIDE DEF fits
<1>6. m \in ListsOf(I, fits) <=> m = [i \in I |-> m[i]] /\ \A i \in I : m[i] \in W[i]
  BY <1>1, <1>3, <1>4, <1>5
<1> QED  BY <1>6 DEF fits

(* A value of a struct has one of the type meant for each declaration.       *)
LEMMA StructValues ==
  ASSUME NEW n \in Nat, NEW t \in Types, ~t.list, IsStruct(t.of), NEW v
  PROVE  LET decls == Def[t.of].decls
         IN  v \in values[n + 1][t] <=>
               \E m : /\ v = Val("", m) /\ m = [i \in DOMAIN decls |-> m[i]]
                     /\ \A i \in DOMAIN decls : m[i] \in values[n][Meant(t.of, decls[i].type)]
<1> DEFINE decls == Def[t.of].decls
           f == values[n]
           fits == {<<i, f[Meant(t.of, decls[i].type)]>> : i \in DOMAIN decls}
           F == ListsOf(DOMAIN decls, fits)
<1>1. values[n + 1][t] = ValuesOf(f, t)
  BY ValuesUnfold
<1>2. ~IsBuiltin(t.of) /\ ~IsEnum(t.of)
  BY DEF IsStruct
<1>3. ValuesOf(f, t) = {Val("", m) : m \in F}
  BY <1>2, Zenon DEF ValuesOf, Fitting, ListsOf
<1>4. \A m : m \in F <=> /\ m = [i \in DOMAIN decls |-> m[i]]
                         /\ \A i \in DOMAIN decls : m[i] \in f[Meant(t.of, decls[i].type)]
  <2> DEFINE W == [i \in DOMAIN decls |-> f[Meant(t.of, decls[i].type)]]
             I == DOMAIN decls
  <2>1. fits = {<<i, W[i]>> : i \in I}
    BY Zenon
  <2>2. \A i \in I : W[i] = f[Meant(t.of, decls[i].type)]
    BY Zenon
  <2> HIDE DEF W, I, fits
  <2>3. \A m : m \in F <=> m = [i \in I |-> m[i]] /\ \A i \in I : m[i] \in W[i]
    <3> TAKE m
    <3>1. m \in ListsOf(I, {<<i, W[i]>> : i \in I}) <=> m = [i \in I |-> m[i]] /\ \A i \in I : m[i] \in W[i]
      BY FitsOf, Zenon
    <3> QED  BY <2>1, <3>1, Zenon DEF I
  <2> QED  BY <2>2, <2>3, Zenon DEF I
<1> HIDE DEF F
<1>5. v \in values[n + 1][t] <=> \E m : m \in F /\ v = Val("", m)
  BY <1>1, <1>3, Zenon
<1> QED  BY <1>4, <1>5, Zenon

Written == {""} \cup UNION Range(Texts)

(* Objects are made of objects of the level below.                           *)
LEMMA ObjectIn ==
  ASSUME NEW n \in Nat, NEW u
  PROVE  u \in objects[n + 1] <=>
           /\ u \in [type : DOMAIN Texts \cup {"array", "object", "null"}, val : Written, keys : Seq(STRING),
                     members : Seq(objects[n])]
           /\ u.type \in DOMAIN Texts => u.val \in Texts[u.type]
           /\ u.type \notin {"array", "object"} => u.members = <<>>
           /\ u.type = "object" => Len(u.keys) = Len(u.members)
           /\ Len(u.members) <= MaxMembers
  BY ObjectsUnfold, ZenonT(30) DEF ObjectsOf, Written

(* Objects of a level are among those of the next.                           *)
LEMMA ObjectsDeepen ==
  \A n \in Nat : DeeperAt(0, n)
<1>1. DeeperAt(0, 0)
  BY ObjectsUnfold DEF DeeperAt
<1>2. ASSUME NEW n \in Nat, DeeperAt(0, n) PROVE DeeperAt(0, n + 1)
  <2> SUFFICES ASSUME NEW u \in objects[n + 1] PROVE u \in objects[(n + 1) + 1]
    BY DEF DeeperAt
  <2>1. n + 1 \in Nat /\ objects[n] \subseteq objects[n + 1]
    BY <1>2 DEF DeeperAt
  <2>2. \A q \in Seq(objects[n]) : q \in Seq(objects[n + 1])
    BY <2>1
  <2>3. u.members \in Seq(objects[n])
    BY ObjectIn
  <2>4. u.members \in Seq(objects[n + 1])
    BY <2>2, <2>3
  <2> DEFINE Typed(S) == u \in [type : DOMAIN Texts \cup {"array", "object", "null"}, val : Written, keys : Seq(STRING),
                                members : Seq(S)]
  <2>5. Typed(objects[n])
    BY ObjectIn
  <2>6. Typed(objects[n + 1])
    BY <2>4, <2>5
  <2> QED  BY <2>1, <2>6, ObjectIn
<1> QED  BY <1>1, <1>2, ObjectLevels!Induction

-----------------------------------------------------------------------------
(* Objects by what they are made from.                                       *)
LEMMA UclFields ==
  ASSUME NEW type, NEW text, NEW keys, NEW members
  PROVE  LET u == Ucl(type, text, keys, members)
         IN  u.type = type /\ u.val = text /\ u.keys = keys /\ u.members = members
  BY DEF Ucl

(* An object made of objects that nest n deep nests one deeper.              *)
LEMMA UclIn ==
  ASSUME NEW n \in Nat, NEW type \in DOMAIN Texts \cup {"array", "object", "null"}, NEW text \in Written,
         NEW keys \in Seq(STRING), NEW members \in Seq(objects[n]),
         type \in DOMAIN Texts => text \in Texts[type],
         type \notin {"array", "object"} => members = <<>>,
         type = "object" => Len(keys) = Len(members), Len(members) <= MaxMembers
  PROVE  Ucl(type, text, keys, members) \in objects[n + 1]
<1> DEFINE u == Ucl(type, text, keys, members)
<1>1. u.type = type /\ u.val = text /\ u.keys = keys /\ u.members = members
  BY UclFields
<1>2. u \in [type : DOMAIN Texts \cup {"array", "object", "null"}, val : Written, keys : Seq(STRING),
             members : Seq(objects[n])]
  BY DEF Ucl
<1> HIDE DEF u
<1>3. u \in objects[n + 1]
  BY <1>1, <1>2, ObjectIn, Zenon
<1> QED  BY <1>3 DEF u

(* A deserialiser that fails says so.                                        *)
LEMMA FailedSaysSo == Failed.suc = FALSE
  BY DEF Failed

(* What is read is what the deserialiser has made.                           *)
LEMMA Outcome ==
  ASSUME NEW x, NEW y, x \in {Failed, Done(y)}, x.suc
  PROVE  x.out = y
<1>1. Failed.suc = FALSE
  BY FailedSaysSo
<1>2. Done(y).suc = TRUE /\ Done(y).out = y
  BY DEF Done
<1>3. CASE x = Failed
  BY <1>1, <1>3
<1>4. CASE x = Done(y)
  BY <1>2, <1>4
<1> QED  BY <1>3, <1>4

(* Elements of a list go into an array and come out of it.                   *)
LEMMA ListRoundTrip ==
  ASSUME NEW n \in Nat, RoundTripAt(0, n), NEW t \in Types, t.list, NEW v \in values[n + 1][t]
  PROVE  ComesBack(n + 1, t, v)
<1> DEFINE el == Plain(t.of)
           S == serialise[n]
           D == deserialise[n]
           C == carried[n]
<1>1. PICK k \in 0..MaxMembers : \E m \in [1..k -> values[n][el]] : v = Val("", m)
  <2>1. v \in {Val("", m) : m \in BoundedSeq(values[n][el], MaxMembers)}
    BY ListValues, Zenon
  <2> HIDE DEF el
  <2> QED  BY <2>1, Zenon DEF BoundedSeq, SeqOf
<1>2. PICK m \in [1..k -> values[n][el]] : v = Val("", m)
  BY <1>1, Zenon
<1> DEFINE q == [i \in 1..k |-> S[el][m[i]]]
           u == Ucl("array", "", <<>>, q)
           w == [i \in 1..k |-> C[el][m[i]]]
<1>3. k \in Nat /\ k <= MaxMembers /\ v.members = m /\ DOMAIN m = 1..k
  <2>1. v.members = m
    BY <1>2, Zenon DEF Val
  <2>2. DOMAIN m = 1..k
    BY <1>2, Zenon
  <2>3. k \in Nat /\ k <= MaxMembers
    BY Bounds
  <2> QED  BY <2>1, <2>2, <2>3
<1>4. serialise[n + 1][t][v] = u
  <2>1. serialise[n + 1][t][v] = Serialised(S, t, v)
    BY SerialiseUnfolds
  <2> QED  BY <1>3, <2>1, Zenon DEF Serialised
<1>5. el \in Types
  BY KindsOf
<1>6. \A i \in 1..k : /\ S[el][m[i]] \in objects[n] /\ C[el][m[i]] \in values[n][el]
                      /\ D[el][S[el][m[i]]] \in {Failed, Done(C[el][m[i]])}
  BY <1>5, <1>2, Zenon DEF RoundTripAt, ComesBack
<1>14. carried[n + 1][t][v] = Val("", w)
  <2>1. carried[n + 1][t][v] = CarriedOf(C, t, v)
    BY CarriedUnfolds
  <2> QED  BY <1>3, <2>1, Zenon DEF CarriedOf
<1> HIDE DEF S, D, C, el
<1>15. carried[n + 1][t][v] \in values[n + 1][t]
  <2>1. w \in [1..k -> values[n][el]]
    BY <1>6
  <2> HIDE DEF w
  <2>2. w \in BoundedSeq(values[n][el], MaxMembers)
    BY <1>3, <2>1, Bounds DEF BoundedSeq, SeqOf
  <2>3. values[n + 1][t] = {Val("", x) : x \in BoundedSeq(values[n][el], MaxMembers)}
    BY ListValues, Zenon DEF el
  <2> QED  BY <1>14, <2>2, <2>3, Zenon
<1>7. q \in Seq(objects[n]) /\ Len(q) = k /\ DOMAIN q = 1..k
  BY <1>3, <1>6
<1>8. u \in objects[n + 1]
  <2>1. "array" \notin DOMAIN Texts
    BY TextAssumption
  <2>2. "" \in Written
    BY DEF Written
  <2>3. <<>> \in Seq(STRING)
    OBVIOUS
  <2> HIDE DEF q
  <2> QED  BY <1>3, <1>7, <2>1, <2>2, <2>3, UclIn, Zenon
<1>9. deserialise[n + 1][t][u] = Deserialised(D, t, u)
  BY <1>8, DeserialiseUnfolds, Zenon DEF D
<1>10. u.type = "array" /\ u.members = q
  <2> HIDE DEF q
  <2> QED  BY DEF Ucl
<1> HIDE DEF u
<1>11. \A i \in 1..k : D[el][u.members[i]].suc => D[el][u.members[i]].out = w[i]
  <2>1. \A i \in 1..k : D[el][u.members[i]] \in {Failed, Done(w[i])}
    BY <1>6, <1>10, Zenon
  <2> SUFFICES ASSUME NEW i \in 1..k, D[el][u.members[i]].suc PROVE D[el][u.members[i]].out = w[i]
    OBVIOUS
  <2> DEFINE got == D[el][u.members[i]]
             wi == w[i]
  <2>2. got \in {Failed, Done(wi)}
    BY <2>1
  <2>4. got.suc
    OBVIOUS
  <2> HIDE DEF w, got, wi
  <2>5. got.out = wi
    <3>1. got = Failed \/ got = Done(wi)
      BY <2>2, Zenon
    <3>2. CASE got = Failed
      BY <2>4, <3>2, FailedSaysSo
    <3>3. CASE got = Done(wi)
      BY <3>3 DEF Done
    <3> QED  BY <3>1, <3>2, <3>3
  <2>3. got.out = w[i]
    BY <2>5 DEF wi
  <2> QED  BY <2>3 DEF got
<1>12. \/ Deserialised(D, t, u) = Failed
       \/ /\ \A i \in 1..k : D[el][u.members[i]].suc
          /\ Deserialised(D, t, u) = Done(Val("", [i \in 1..k |-> D[el][u.members[i]].out]))
  BY <1>7, <1>10, ZenonT(30) DEF Deserialised, el
<1>13. (\A i \in 1..k : D[el][u.members[i]].suc) => [i \in 1..k |-> D[el][u.members[i]].out] = w
  BY <1>11
<1> HIDE DEF w
<1>16. deserialise[n + 1][t][u] \in {Failed, Done(carried[n + 1][t][v])}
  BY <1>9, <1>12, <1>13, <1>14, Zenon
<1> QED  BY <1>4, <1>8, <1>15, <1>16 DEF ComesBack

(* Deserialising what is no list, kind by kind.                              *)
LEMMA DeserialiseBuiltin ==
  ASSUME NEW f, NEW t \in Types, IsBuiltin(t.of), NEW u
  PROVE  DeserialisedPlain(f, t.of, u) = IF u.type = t.of THEN Done(Val(wsRPCDeserialise(t.of, u.val), <<>>)) ELSE Failed
<1>1. ~IsEnum(t.of)
  BY KindsOf, Zenon
<1> QED  BY <1>1, Zenon DEF DeserialisedPlain

(* The deserialiser of an enum.                                              *)
LEMMA DeserialiseEnum ==
  ASSUME NEW f, NEW t \in Types, IsEnum(t.of), NEW u
  PROVE  LET found == fromPSz(Def[t.of], CStr[u.val])
             num == Def[t.of].entries[found].num
         IN  DeserialisedPlain(f, t.of, u) =
               IF u.type # "string" \/ found = 0 \/ num = kMax(Def[t.of]) THEN Failed
               ELSE Done(Val(EntryOf(Def[t.of], num).id, <<>>))
<1>1. ~IsBuiltin(t.of)
  BY KindsOf, Zenon
<1> QED  BY <1>1, Zenon DEF DeserialisedPlain

(* The deserialiser of a struct.                                             *)
LEMMA DeserialiseStruct ==
  ASSUME NEW f, NEW t \in Types, IsStruct(t.of), NEW u
  PROVE  LET decls == Def[t.of].decls
             Got(i) == f[Synth(t.of, decls[i].type)][u.members[Index(u.keys, decls[i].id)]]
         IN  DeserialisedPlain(f, t.of, u) =
               IF \/ u.type # "object" \/ ~(Range(Ids(decls)) \subseteq Range(u.keys))
                  \/ \E i \in DOMAIN decls : ~Got(i).suc
               THEN Failed
               ELSE Done(Val("", [i \in DOMAIN decls |-> Got(i).out]))
<1>1. ~IsBuiltin(t.of) /\ ~IsEnum(t.of)
  BY DEF IsStruct
<1> QED  BY <1>1, Zenon DEF DeserialisedPlain

(* What is left of a value that has no members.                              *)
LEMMA CarriedPlain ==
  ASSUME NEW n \in Nat, NEW t \in Types, ~t.list, ~IsStruct(t.of), NEW v \in values[n + 1][t]
  PROVE  carried[n + 1][t][v] = IF t.of = "string" THEN Val(CStr[v.val], <<>>) ELSE v
<1>1. carried[n + 1][t][v] = CarriedOf(carried[n], t, v)
  BY CarriedUnfolds
<1> QED  BY <1>1, Zenon DEF CarriedOf

(* The conversions of the builtin types: whatever is read is a value of the  *)
(* type, and what was written is read as it was up to a NUL.                 *)
LEMMA BuiltinText ==
  ASSUME NEW d \in DOMAIN Texts
  PROVE  /\ \A y \in Texts[d] : wsRPCDeserialise(d, y) \in Held(d)
         /\ \A x \in Held(d) : /\ wsRPCSerialise(d, x) \in Texts[d]
                              /\ wsRPCDeserialise(d, wsRPCSerialise(d, x)) = IF d = "string" THEN CStr[x] ELSE x
<1>1. /\ CStr \in [Texts["string"] -> Texts["string"]] /\ \A x \in Texts["string"] : CStr[CStr[x]] = CStr[x]
      /\ ToInt \in [Texts["int"] -> Texts["int"]] /\ \A x \in Texts["int"] : ToInt[ToInt[x]] = ToInt[x]
  BY TextAssumption
<1>2. CASE d = "string"
  <2>1. /\ Held(d) = Texts["string"]
        /\ \A x : wsRPCSerialise(d, x) = CStr[x] /\ wsRPCDeserialise(d, x) = CStr[x]
    BY <1>2 DEF Held, wsRPCSerialise, wsRPCDeserialise
  <2> QED  BY <1>1, <1>2, <2>1
<1>3. CASE d = "int"
  <2>1. /\ Held(d) = {x \in Texts["int"] : ToInt[x] = x}
        /\ \A x : wsRPCSerialise(d, x) = x /\ wsRPCDeserialise(d, x) = ToInt[x]
    BY <1>3 DEF Held, wsRPCSerialise, wsRPCDeserialise
  <2> QED  BY <1>1, <1>3, <2>1
<1>4. CASE d # "string" /\ d # "int"
  <2>1. Held(d) = Texts[d] /\ \A x : wsRPCSerialise(d, x) = x /\ wsRPCDeserialise(d, x) = x
    BY <1>4 DEF Held, wsRPCSerialise, wsRPCDeserialise
  <2> QED  BY <1>4, <2>1
<1> QED  BY <1>2, <1>3, <1>4

(* The text of a builtin goes with its type, a string up to a NUL.           *)
LEMMA BuiltinRoundTrip ==
  ASSUME NEW n \in Nat, NEW t \in Types, ~t.list, IsBuiltin(t.of), NEW v \in values[n + 1][t]
  PROVE  ComesBack(n + 1, t, v)
<1>1. t.of \in DOMAIN Texts /\ ~IsEnum(t.of) /\ t.of \notin {"array", "object", "null"}
  BY KindsOf
<1>2. PICK x \in Held(t.of) : v = Val(x, <<>>)
  BY BuiltinValues
<1> DEFINE y == wsRPCSerialise(t.of, x)
           z == IF t.of = "string" THEN CStr[x] ELSE x
           u == Ucl(t.of, y, <<>>, <<>>)
<1>0. y \in Texts[t.of] /\ wsRPCDeserialise(t.of, y) = z /\ z \in Held(t.of)
  BY <1>1, <1>2, BuiltinText
<1>3. serialise[n + 1][t][v] = u
  <2>1. serialise[n + 1][t][v] = Serialised(serialise[n], t, v)
    BY SerialiseUnfolds
  <2>2. v.val = x
    BY <1>2 DEF Val
  <2> QED  BY <1>1, <2>1, <2>2, Zenon DEF Serialised
<1>8. carried[n + 1][t][v] = Val(z, <<>>)
  <2>1. carried[n + 1][t][v] = IF t.of = "string" THEN Val(CStr[v.val], <<>>) ELSE v
    BY CarriedPlain DEF IsStruct
  <2>2. v.val = x
    BY <1>2 DEF Val
  <2> QED  BY <1>2, <2>1, <2>2
<1> HIDE DEF y, z
<1>4. u \in objects[n + 1]
  <2>1. y \in Written
    BY <1>0, <1>1, Zenon DEF Written, Range
  <2>2. <<>> \in Seq(STRING) /\ <<>> \in Seq(objects[n]) /\ Len(<<>>) = 0 /\ 0 <= MaxMembers
    BY Bounds
  <2> QED  BY <1>0, <1>1, <2>1, <2>2, UclIn
<1>5. u.type = t.of /\ u.val = y
  BY DEF Ucl
<1> HIDE DEF u
<1>6. deserialise[n + 1][t][u] = DeserialisedPlain(deserialise[n], t.of, u)
  BY <1>4, DeserialiseUnfolds, Zenon DEF Deserialised
<1>7. DeserialisedPlain(deserialise[n], t.of, u) = Done(Val(z, <<>>))
  BY <1>0, <1>5, DeserialiseBuiltin
<1>9. Val(z, <<>>) \in values[n + 1][t]
  BY <1>0, BuiltinValues
<1> QED  BY <1>3, <1>4, <1>6, <1>7, <1>8, <1>9 DEF ComesBack

(* What is assumed of the entries of an enum.                                *)
LEMMA EntriesOf ==
  ASSUME NEW d \in DOMAIN Def
  PROVE  LET entries == Def[d].entries
         IN  /\ Len(entries) \in Nat /\ DOMAIN entries = 1..Len(entries)
             /\ \A i \in 1..Len(entries) : /\ entries[i].str \in Texts["string"] /\ CStr[entries[i].str] = entries[i].str
                                          /\ entries[i].num \in Int
             /\ \A i, j \in 1..Len(entries) : entries[i].id = entries[j].id \/ entries[i].str = entries[j].str => i = j
<1> DEFINE entries == Def[d].entries
<1>1. /\ entries \in Seq(Entries)
      /\ IsInjective(Ids(entries)) /\ IsInjective([i \in DOMAIN entries |-> entries[i].str])
  BY DefAssumption, Zenon
<1> HIDE DEF entries
<1>2. /\ Len(entries) \in Nat /\ DOMAIN entries = 1..Len(entries)
      /\ \A i \in 1..Len(entries) : entries[i] \in Entries
  BY <1>1, ElementsOf
<1>5. \A e \in Entries : e.str \in Texts["string"] /\ CStr[e.str] = e.str /\ e.num \in Int
  BY DEF Entries, CStrings
<1>3. \A i, j \in DOMAIN entries : entries[i].id = entries[j].id => i = j
  BY <1>1 DEF IsInjective, Ids
<1>4. \A i, j \in DOMAIN entries : entries[i].str = entries[j].str => i = j
  BY <1>1 DEF IsInjective
<1> QED  BY <1>2, <1>3, <1>4, <1>5 DEF entries

(* The first entry with the number of some entry.                            *)
LEMMA EntryOfFinds ==
  ASSUME NEW d \in DOMAIN Def, NEW e \in Range(Def[d].entries)
  PROVE  \E i \in 1..Len(Def[d].entries) : EntryOf(Def[d], e.num) = Def[d].entries[i] /\ Def[d].entries[i].num = e.num
<1> DEFINE entries == Def[d].entries
           I == {i \in 1..Len(entries) : entries[i].num = e.num}
<1>1. EntryOf(Def[d], e.num) = entries[IF I # {} THEN Min(I) ELSE 0]
  BY DEF EntryOf, SelectInSeq
<1>2. I # {} /\ I \subseteq Nat
  <2>1. DOMAIN entries = 1..Len(entries)
    BY EntriesOf
  <2> QED  BY <2>1 DEF Range
<1>3. Min(I) \in I
  <2> HIDE DEF I
  <2> QED  BY <1>2, MinOfNaturals
<1> QED  BY <1>1, <1>2, <1>3

(* The entry with some string.                                               *)
LEMMA fromPSzFinds ==
  ASSUME NEW d \in DOMAIN Def, NEW txt
  PROVE  LET entries == Def[d].entries
             found == fromPSz(Def[d], txt)
         IN  /\ found # 0 => found \in 1..Len(entries) /\ entries[found].str = txt
             /\ \A i \in 1..Len(entries) : entries[i].str = txt => found = i
<1> DEFINE entries == Def[d].entries
           I == {i \in 1..Len(entries) : entries[i].str = txt}
<1>1. fromPSz(Def[d], txt) = IF I # {} THEN Min(I) ELSE 0
  BY DEF fromPSz, SelectInSeq
<1>2. I # {} => Min(I) \in I
  <2>1. I \subseteq Nat
    OBVIOUS
  <2> HIDE DEF I
  <2> QED  BY <2>1, MinOfNaturals
<1>3. \A i, j \in I : i = j
  BY EntriesOf
<1> QED  BY <1>1, <1>2, <1>3

(* An entry goes as its string, which is no other's; it is refused only if   *)
(* its number is kMax.                                                       *)
LEMMA EnumRoundTrip ==
  ASSUME NEW n \in Nat, NEW t \in Types, ~t.list, IsEnum(t.of), NEW v \in values[n + 1][t]
  PROVE  ComesBack(n + 1, t, v)
<1> DEFINE def == Def[t.of]
           entries == def.entries
<1>1. t.of \in DOMAIN Def /\ ~IsBuiltin(t.of)
  BY DEF IsEnum, IsBuiltin
<1>2. /\ Len(entries) \in Nat /\ DOMAIN entries = 1..Len(entries)
      /\ \A i \in 1..Len(entries) : entries[i].str \in Texts["string"] /\ CStr[entries[i].str] = entries[i].str
      /\ \A i, j \in 1..Len(entries) : entries[i].id = entries[j].id \/ entries[i].str = entries[j].str => i = j
  BY <1>1, EntriesOf
<1>3. PICK i \in 1..Len(entries) : v = Val(entries[i].id, <<>>) /\ EntryOf(def, entries[i].num) = entries[i]
  <2>1. PICK e \in Range(entries) : v = Val(EntryOf(def, e.num).id, <<>>)
    BY EnumValues
  <2>2. PICK i \in 1..Len(entries) : EntryOf(def, e.num) = entries[i] /\ entries[i].num = e.num
    BY <1>1, EntryOfFinds
  <2> QED  BY <2>1, <2>2
<1>11. carried[n + 1][t][v] = v
  <2>1. t.of # "string" /\ ~IsStruct(t.of)
    BY <1>1, TextAssumption DEF IsStruct
  <2> QED  BY <2>1, CarriedPlain
<1> DEFINE u == Ucl("string", entries[i].str, <<>>, <<>>)
<1>4. toPSz(def, v.val) = entries[i].str
  <2> DEFINE I == {j \in 1..Len(entries) : entries[j].id = v.val}
  <2>1. I = {i}
    <3>1. v.val = entries[i].id
      BY <1>3 DEF Val
    <3> QED  BY <1>2, <3>1
  <2>2. Min({i}) = i
    BY DEF Min
  <2>3. toPSz(def, v.val) = entries[IF I # {} THEN Min(I) ELSE 0].str
    BY DEF toPSz, SelectInSeq
  <2> HIDE DEF I
  <2> QED  BY <2>1, <2>2, <2>3
<1>5. serialise[n + 1][t][v] = u
  <2>1. serialise[n + 1][t][v] = Serialised(serialise[n], t, v)
    BY SerialiseUnfolds
  <2> QED  BY <1>1, <1>4, <2>1 DEF Serialised
<1>6. u \in objects[n + 1]
  <2>1. /\ "string" \in DOMAIN Texts /\ "string" \notin {"array", "object"} /\ entries[i].str \in Texts["string"]
        /\ entries[i].str \in Written
    BY <1>2, TextAssumption, Zenon DEF Written, Range
  <2>2. <<>> \in Seq(STRING) /\ <<>> \in Seq(objects[n]) /\ Len(<<>>) = 0 /\ 0 <= MaxMembers
    BY Bounds
  <2> HIDE DEF entries
  <2> QED  BY <2>1, <2>2, UclIn
<1>7. u.type = "string" /\ u.val = entries[i].str
  BY DEF Ucl
<1> HIDE DEF u
<1>8. deserialise[n + 1][t][u] = DeserialisedPlain(deserialise[n], t.of, u)
  BY <1>6, DeserialiseUnfolds, Zenon DEF Deserialised
<1>9. fromPSz(def, CStr[u.val]) = i
  BY <1>1, <1>2, <1>7, fromPSzFinds
<1>10. DeserialisedPlain(deserialise[n], t.of, u) \in {Failed, Done(Val(entries[i].id, <<>>))}
  <2> DEFINE found == fromPSz(def, CStr[u.val])
             num == def.entries[found].num
  <2>1. DeserialisedPlain(deserialise[n], t.of, u) =
          IF u.type # "string" \/ found = 0 \/ num = kMax(def) THEN Failed
          ELSE Done(Val(EntryOf(def, num).id, <<>>))
    BY DeserialiseEnum, Zenon
  <2>2. EntryOf(def, num) = entries[i]
    BY <1>3, <1>9
  <2> HIDE DEF def, num, found
  <2> QED  BY <2>1, <2>2
<1> QED  BY <1>3, <1>5, <1>6, <1>8, <1>10, <1>11 DEF ComesBack

(* Members go under their names and come back from there.                    *)
LEMMA StructRoundTrip ==
  ASSUME NEW n \in Nat, RoundTripAt(0, n), NEW t \in Types, ~t.list, IsStruct(t.of), NEW v \in values[n + 1][t]
  PROVE  ComesBack(n + 1, t, v)
<1> DEFINE d == t.of
           decls == Def[d].decls
           k == Len(decls)
           S == serialise[n]
           D == deserialise[n]
           C == carried[n]
           ty(i) == Synth(d, decls[i].type)
<1>1. d \in DOMAIN Def /\ ~IsBuiltin(d) /\ ~IsEnum(d)
  BY KindsOf DEF IsStruct
<1>2. d \in DOMAIN Scope /\ Block(d, decls) /\ k <= MaxMembers
  BY <1>1, DefOf
<1>3. /\ k \in Nat /\ DOMAIN decls = 1..k
      /\ \A i \in 1..k : ty(i) = Meant(d, decls[i].type) /\ ty(i) \in Types
      /\ Ids(decls) \in Seq(STRING) /\ Len(Ids(decls)) = k /\ DOMAIN Ids(decls) = 1..k
      /\ \A i \in 1..k : Index(Ids(decls), decls[i].id) = i
  <2> HIDE DEF d, decls
  <2> QED  BY <1>2, BlockOf
<1>4. PICK m : /\ v = Val("", m) /\ m = [i \in 1..k |-> m[i]]
               /\ \A i \in 1..k : m[i] \in values[n][ty(i)]
  <2>1. PICK m : /\ v = Val("", m) /\ m = [i \in DOMAIN decls |-> m[i]]
                 /\ \A i \in DOMAIN decls : m[i] \in values[n][Meant(d, decls[i].type)]
    BY StructValues, Zenon
  <2> HIDE DEF d, decls, k
  <2> QED  BY <1>3, <2>1, Zenon
<1> DEFINE q == [i \in 1..k |-> S[ty(i)][m[i]]]
           u == Ucl("object", "", Ids(decls), q)
           w == [i \in 1..k |-> C[ty(i)][m[i]]]
<1>5. serialise[n + 1][t][v] = u
  <2>1. serialise[n + 1][t][v] = Serialised(S, t, v)
    BY SerialiseUnfolds
  <2>2. v.members = m
    BY <1>4, Zenon DEF Val
  <2>3. Serialised(S, t, v) = Ucl("object", "", Ids(decls), [i \in DOMAIN decls |-> S[ty(i)][v.members[i]]])
    BY <1>1 DEF Serialised
  <2> HIDE DEF d, decls, k, S, ty
  <2> QED  BY <1>3, <2>1, <2>2, <2>3, Zenon
<1>6. \A i \in 1..k : /\ S[ty(i)][m[i]] \in objects[n] /\ C[ty(i)][m[i]] \in values[n][ty(i)]
                      /\ D[ty(i)][S[ty(i)][m[i]]] \in {Failed, Done(C[ty(i)][m[i]])}
  <2> HIDE DEF d, decls, k, ty
  <2> QED  BY <1>3, <1>4, Zenon DEF RoundTripAt, ComesBack
<1>15. carried[n + 1][t][v] = Val("", w)
  <2>1. carried[n + 1][t][v] = CarriedOf(C, t, v)
    BY CarriedUnfolds
  <2>2. v.members = m
    BY <1>4, Zenon DEF Val
  <2>3. CarriedOf(C, t, v) = Val("", [i \in DOMAIN v.members |-> C[Meant(d, decls[i].type)][v.members[i]]])
    BY Zenon DEF CarriedOf
  <2>4. DOMAIN m = 1..k
    <3> HIDE DEF k
    <3> QED  BY <1>4, Zenon
  <2>5. [i \in 1..k |-> C[Meant(d, decls[i].type)][m[i]]] = w
    <3> HIDE DEF d, decls, k, C, ty
    <3> QED  BY <1>3, Zenon
  <2> HIDE DEF d, decls, k, C, ty, w
  <2> QED  BY <2>1, <2>2, <2>3, <2>4, <2>5, Zenon
<1>16. carried[n + 1][t][v] \in values[n + 1][t]
  <2>1. w = [i \in DOMAIN decls |-> w[i]] /\ \A i \in DOMAIN decls : w[i] \in values[n][Meant(d, decls[i].type)]
    <3>1. \A i \in 1..k : w[i] = C[ty(i)][m[i]]
      <4> HIDE DEF k, C, ty
      <4> QED  BY Zenon
    <3>2. w = [i \in 1..k |-> w[i]]
      <4> HIDE DEF k, C, ty
      <4> QED  BY Zenon
    <3> HIDE DEF d, decls, k, C, ty, w
    <3> QED  BY <1>3, <1>6, <3>1, <3>2
  <2> HIDE DEF w
  <2> QED  BY <1>15, <2>1, StructValues, Zenon
<1>7. q \in Seq(objects[n]) /\ Len(q) = k /\ \A i \in 1..k : q[i] = S[ty(i)][m[i]]
  <2> HIDE DEF d, decls, k, S, D, ty
  <2> QED  BY <1>3, <1>6
<1> HIDE DEF q
<1>8. u \in objects[n + 1]
  <2>1. "object" \notin DOMAIN Texts
    BY TextAssumption
  <2>2. "" \in Written
    BY DEF Written
  <2> HIDE DEF k, decls
  <2> QED  BY <1>2, <1>3, <1>7, <2>1, <2>2, UclIn, Zenon
<1>9. u.type = "object" /\ u.keys = Ids(decls) /\ u.members = q
  BY DEF Ucl
<1> HIDE DEF u
<1>10. deserialise[n + 1][t][u] = DeserialisedPlain(D, d, u)
  BY <1>8, DeserialiseUnfolds, Zenon DEF Deserialised
<1> DEFINE Got(i) == D[ty(i)][u.members[Index(u.keys, decls[i].id)]]
<1>11. \A i \in 1..k : Got(i).suc => Got(i).out = w[i]
  <2> HIDE DEF d, decls, k, S, D, C, ty
  <2>1. \A i \in 1..k : Got(i) \in {Failed, Done(w[i])}
    <3>1. \A i \in 1..k : w[i] = C[ty(i)][m[i]]
      BY Zenon
    <3> HIDE DEF w
    <3> QED  BY <1>3, <1>6, <1>7, <1>9, <3>1
  <2> SUFFICES ASSUME NEW i \in 1..k, Got(i).suc PROVE Got(i).out = w[i]
    OBVIOUS
  <2> HIDE DEF w, Got
  <2> QED  BY <2>1, Outcome
<1>12. DeserialisedPlain(D, d, u) =
         IF \/ u.type # "object" \/ ~(Range(Ids(decls)) \subseteq Range(u.keys))
            \/ \E i \in DOMAIN decls : ~Got(i).suc
         THEN Failed
         ELSE Done(Val("", [i \in DOMAIN decls |-> Got(i).out]))
  BY DeserialiseStruct, Zenon
<1>13. (\A i \in 1..k : Got(i).suc) => [i \in 1..k |-> Got(i).out] = w
  <2>1. w = [i \in 1..k |-> w[i]]
    <3> HIDE DEF k, C, ty
    <3> QED  BY Zenon
  <2> HIDE DEF k, Got, w
  <2> QED  BY <1>11, <2>1, Zenon
<1>14. DeserialisedPlain(D, d, u) \in {Failed, Done(Val("", w))}
  <2> HIDE DEF Got, k, decls, D, d, w
  <2> QED  BY <1>3, <1>12, <1>13, Zenon
<1> HIDE DEF w, D, d
<1> QED  BY <1>5, <1>8, <1>10, <1>14, <1>15, <1>16, Zenon DEF ComesBack

(* Whatever is serialised comes back, if it does, as what is left of it,     *)
(* from any depth.                                                           *)
LEMMA RoundTrip ==
  \A n \in Nat : RoundTripAt(0, n)
<1>1. RoundTripAt(0, 0)
  BY ValuesUnfold DEF RoundTripAt
<1>2. ASSUME NEW n \in Nat, RoundTripAt(0, n) PROVE RoundTripAt(0, n + 1)
  <2> SUFFICES ASSUME NEW t \in Types, NEW v \in values[n + 1][t]
               PROVE  ComesBack(n + 1, t, v)
    BY DEF RoundTripAt
  <2>1. CASE t.list
    BY <1>2, <2>1, ListRoundTrip
  <2>2. CASE ~t.list /\ IsBuiltin(t.of)
    BY <2>2, BuiltinRoundTrip
  <2>3. CASE ~t.list /\ IsEnum(t.of)
    BY <2>3, EnumRoundTrip
  <2>4. CASE ~t.list /\ IsStruct(t.of)
    BY <1>2, <2>4, StructRoundTrip
  <2> QED  BY <2>1, <2>2, <2>3, <2>4, KindsOf
<1> QED  BY <1>1, <1>2, SerialiseLevels!Induction

-----------------------------------------------------------------------------
(* What is known of an object that was received.                             *)
LEMMA ObjectFields ==
  ASSUME NEW n \in Nat, NEW u \in objects[n + 1]
  PROVE  /\ u.members \in Seq(objects[n]) /\ u.keys \in Seq(STRING) /\ Len(u.members) <= MaxMembers
         /\ DOMAIN u.members = 1..Len(u.members) /\ DOMAIN u.keys = 1..Len(u.keys) /\ Len(u.members) \in Nat
         /\ \A i \in 1..Len(u.members) : u.members[i] \in objects[n]
         /\ u.type \in DOMAIN Texts => u.val \in Texts[u.type]
         /\ u.type = "object" => Len(u.keys) = Len(u.members)
<1>1. /\ u \in [type : DOMAIN Texts \cup {"array", "object", "null"}, val : Written, keys : Seq(STRING),
                members : Seq(objects[n])]
      /\ u.type \in DOMAIN Texts => u.val \in Texts[u.type]
      /\ u.type = "object" => Len(u.keys) = Len(u.members)
      /\ Len(u.members) <= MaxMembers
  BY ObjectIn
<1>2. u.members \in Seq(objects[n]) /\ u.keys \in Seq(STRING)
  BY <1>1
<1> QED  BY <1>1, <1>2, ElementsOf

(* A member that is looked up is an object of the level below.               *)
LEMMA LookedUp ==
  ASSUME NEW n, NEW keys, NEW members \in Seq(objects[n]), DOMAIN keys = 1..Len(members),
         NEW id, \E j \in DOMAIN keys : keys[j] = id
  PROVE  members[Index(keys, id)] \in objects[n]
<1>1. Index(keys, id) \in DOMAIN keys
  BY DEF Index
<1> QED  BY <1>1

(* Deserialising what is no list gives a value of the type; of what is no    *)
(* collection, one that does not nest.                                       *)
LEMMA PlainConforms ==
  ASSUME NEW n \in Nat, ConformsAt(0, n), NEW t \in Types, NEW u \in objects[n + 1]
  PROVE  LET got == DeserialisedPlain(deserialise[n + 1], t.of, u)
         IN  /\ got.suc \in BOOLEAN
             /\ got.suc => got.out \in values[(n + 1) + 1][Plain(t.of)]
             /\ got.suc /\ u.type \notin {"array", "object"} => got.out \in values[n + 1][Plain(t.of)]
<1> DEFINE d == t.of
           p == Plain(d)
           D == deserialise[n + 1]
           got == DeserialisedPlain(D, d, u)
<1>0. p \in Types /\ p.list = FALSE /\ p.of = d /\ n + 1 \in Nat
  <2>1. p \in Types /\ p.list = FALSE /\ p.of = d
    BY KindsOf, Zenon
  <2>2. n + 1 \in Nat
    OBVIOUS
  <2> QED  BY <2>1, <2>2
<1>1. Failed.suc = FALSE
  BY DEF Failed
<1>2. \A out : Done(out).suc = TRUE /\ Done(out).out = out
  BY DEF Done
<1>3. CASE IsBuiltin(d)
  <2> DEFINE x == wsRPCDeserialise(d, u.val)
  <2>1. got = IF u.type = d THEN Done(Val(x, <<>>)) ELSE Failed
    BY <1>3, DeserialiseBuiltin
  <2>2. d \in DOMAIN Texts
    BY <1>3, KindsOf
  <2>3. \A k \in Nat : \A y \in Held(d) : Val(y, <<>>) \in values[k + 1][p]
    BY <1>0, <1>3, BuiltinValues
  <2>4. u.type = d => x \in Held(d)
    BY <2>2, ObjectFields, BuiltinText
  <2> HIDE DEF got, d, p, x
  <2> QED  BY <1>0, <1>1, <1>2, <2>1, <2>3, <2>4 DEF got, d, p
<1>4. CASE IsEnum(d)
  <2> DEFINE entries == Def[d].entries
             found == fromPSz(Def[d], CStr[u.val])
             num == entries[found].num
  <2>1. got = IF u.type # "string" \/ found = 0 \/ num = kMax(Def[d]) THEN Failed
              ELSE Done(Val(EntryOf(Def[d], num).id, <<>>))
    BY <1>4, DeserialiseEnum, Zenon
  <2>2. d \in DOMAIN Def
    BY <1>4 DEF IsEnum
  <2>3. found # 0 => found \in DOMAIN entries
    <3>1. DOMAIN entries = 1..Len(entries)
      BY <2>2, EntriesOf
    <3>2. found # 0 => found \in 1..Len(entries)
      BY <2>2, fromPSzFinds
    <3> QED  BY <3>1, <3>2
  <2>4. found # 0 => entries[found] \in Range(entries)
    BY <2>3 DEF Range
  <2>5. \A k \in Nat : \A e \in Range(entries) : Val(EntryOf(Def[d], e.num).id, <<>>) \in values[k + 1][p]
    BY <1>0, <1>4, EnumValues
  <2>6. \A k \in Nat : found # 0 => Val(EntryOf(Def[d], num).id, <<>>) \in values[k + 1][p]
    BY <2>4, <2>5
  <2> HIDE DEF got, d, p, found, num, entries
  <2> QED  BY <1>0, <1>1, <1>2, <2>1, <2>6 DEF got, d, p
<1>5. CASE IsStruct(d)
  <2> DEFINE decls == Def[d].decls
             k == Len(decls)
             ty(i) == Synth(d, decls[i].type)
             Got(i) == D[ty(i)][u.members[Index(u.keys, decls[i].id)]]
             m == [i \in DOMAIN decls |-> Got(i).out]
  <2>1. got = IF \/ u.type # "object" \/ ~(Range(Ids(decls)) \subseteq Range(u.keys))
                 \/ \E i \in DOMAIN decls : ~Got(i).suc
              THEN Failed
              ELSE Done(Val("", m))
    BY <1>5, DeserialiseStruct, Zenon
  <2>2. d \in DOMAIN Scope /\ Block(d, decls)
    BY <1>5, KindsOf, DefOf DEF IsStruct
  <2>3. /\ k \in Nat /\ DOMAIN decls = 1..k /\ DOMAIN Ids(decls) = 1..k
        /\ \A i \in 1..k : /\ ty(i) = Meant(d, decls[i].type) /\ ty(i) \in Types
                           /\ Ids(decls)[i] = decls[i].id
    <3> HIDE DEF d, decls
    <3> QED  BY <2>2, BlockOf
  <2> HIDE DEF got
  <2>4. ASSUME u.type = "object", Range(Ids(decls)) \subseteq Range(u.keys), \A i \in DOMAIN decls : Got(i).suc
        PROVE  Val("", m) \in values[(n + 1) + 1][p]
    <3>1. \A i \in 1..k : u.members[Index(u.keys, decls[i].id)] \in objects[n]
      <4>1. u.members \in Seq(objects[n]) /\ DOMAIN u.keys = 1..Len(u.members)
        BY <2>4, ObjectFields, Zenon
      <4>2. ASSUME NEW i \in 1..k PROVE \E j \in DOMAIN u.keys : u.keys[j] = decls[i].id
        <5>1. decls[i].id \in Range(Ids(decls))
          <6> HIDE DEF decls, k
          <6> QED  BY <2>3 DEF Range
        <5>2. decls[i].id \in Range(u.keys)
          BY <2>4, <5>1, Zenon
        <5> QED  BY <5>2 DEF Range
      <4> QED  BY <4>1, <4>2, LookedUp, Zenon
    <3>2. \A i \in 1..k : Got(i).out \in values[n + 1][ty(i)]
      <4> HIDE DEF d, decls, k, ty
      <4> QED  BY <2>3, <2>4, <3>1 DEF ConformsAt
    <3>3. \A i \in DOMAIN decls : m[i] \in values[n + 1][Meant(d, decls[i].type)]
      <4> HIDE DEF d, decls, k, ty, D
      <4> QED  BY <2>3, <3>2
    <3>4. m = [i \in DOMAIN decls |-> m[i]]
      BY Zenon
    <3> HIDE DEF m, d
    <3> QED  BY <1>0, <1>5, <3>3, <3>4, StructValues, Zenon
  <2> HIDE DEF m, Got, p
  <2>5. got = Failed \/ (u.type = "object" /\ got = Done(Val("", m)) /\ Val("", m) \in values[(n + 1) + 1][p])
    BY <2>1, <2>4, Zenon
  <2> QED  BY <1>1, <1>2, <2>5, ZenonT(30) DEF got, d, D, p
<1> QED  BY <1>3, <1>4, <1>5, KindsOf

(* Whatever is deserialised is a value of the type, from any depth.          *)
LEMMA Conforms ==
  \A n \in Nat : ConformsAt(0, n)
<1>1. ConformsAt(0, 0)
  BY ObjectsUnfold DEF ConformsAt
<1>2. ASSUME NEW n \in Nat, ConformsAt(0, n) PROVE ConformsAt(0, n + 1)
  <2> SUFFICES ASSUME NEW t \in Types, NEW u \in objects[n + 1]
               PROVE  LET got == deserialise[(n + 1) + 1][t][u]
                      IN  got.suc \in BOOLEAN /\ (got.suc => got.out \in values[(n + 1) + 1][t])
    BY DEF ConformsAt
  <2> DEFINE D == deserialise[n + 1]
             el == Plain(t.of)
             plain == DeserialisedPlain(D, t.of, u)
             got == Deserialised(D, t, u)
  <2>1. n + 1 \in Nat
    OBVIOUS
  <2>2. deserialise[(n + 1) + 1][t][u] = got
    <3>1. u \in objects[(n + 1) + 1]
      BY <2>1, ObjectsDeepen DEF DeeperAt
    <3> QED  BY <2>1, <3>1, DeserialiseUnfolds
  <2>3. /\ plain.suc \in BOOLEAN
        /\ plain.suc => plain.out \in values[(n + 1) + 1][el]
        /\ plain.suc /\ u.type \notin {"array", "object"} => plain.out \in values[n + 1][el]
    BY <1>2, PlainConforms
  <2>4. CASE ~t.list
    <3>1. got = plain /\ t = el
      BY <2>4, KindsOf DEF Deserialised
    <3> QED  BY <2>2, <2>3, <3>1
  <2>5. CASE t.list
    <3> DEFINE many == u.type \in {"array", "object"}
               k == IF many THEN Len(u.members) ELSE 1
               El(i) == IF many THEN D[el][u.members[i]] ELSE plain
               m == [i \in 1..k |-> El(i).out]
    <3>1. DOMAIN u.members = 1..Len(u.members) /\ Len(u.members) \in 0..MaxMembers
      <4>1. /\ DOMAIN u.members = 1..Len(u.members) /\ Len(u.members) \in Nat
            /\ Len(u.members) <= MaxMembers
        BY ObjectFields
      <4> QED  BY <4>1, Bounds
    <3>2. got = IF \E i \in 1..k : ~El(i).suc THEN Failed ELSE Done(Val("", m))
      <4>1. CASE many
        BY <2>5, <3>1, <4>1, Zenon DEF Deserialised
      <4>2. CASE ~many
        BY <2>5, <4>2 DEF Deserialised
      <4> QED  BY <4>1, <4>2, Zenon
    <3>3. k \in 0..MaxMembers
      BY <3>1, Bounds
    <3>4. \A i \in 1..k : El(i).suc => El(i).out \in values[n + 1][el]
      <4>1. CASE many
        <5>1. \A i \in 1..k : u.members[i] \in objects[n]
          BY <4>1, ObjectFields
        <5>2. el \in Types
          BY KindsOf
        <5> HIDE DEF el
        <5> QED  BY <1>2, <4>1, <5>1, <5>2 DEF ConformsAt
      <4>2. CASE ~many
        <5> HIDE DEF plain, el
        <5> QED  BY <2>3, <4>2
      <4> QED  BY <4>1, <4>2
    <3> HIDE DEF k, El, D, plain, got, many
    <3>5. ASSUME \A i \in 1..k : El(i).suc PROVE Val("", m) \in values[(n + 1) + 1][t]
      <4>1. m \in [1..k -> values[n + 1][el]]
        <5> HIDE DEF el
        <5> QED  BY <3>4, <3>5
      <4>2. m \in BoundedSeq(values[n + 1][el], MaxMembers)
        <5> HIDE DEF m, el
        <5> QED  BY <3>3, <4>1 DEF BoundedSeq, SeqOf
      <4> HIDE DEF m
      <4> QED  BY <2>1, <2>5, <4>2, ListValues, Zenon
    <3> HIDE DEF m
    <3>6. got = Failed \/ (got = Done(Val("", m)) /\ Val("", m) \in values[(n + 1) + 1][t])
      BY <3>2, <3>5, Zenon
    <3>7. got.suc \in BOOLEAN /\ (got.suc => got.out \in values[(n + 1) + 1][t])
      <4>1. Failed.suc = FALSE /\ Done(Val("", m)).suc = TRUE /\ Done(Val("", m)).out = Val("", m)
        BY DEF Failed, Done
      <4> QED  BY <3>6, <4>1, Zenon
    <3> QED  BY <2>2, <3>7
  <2> QED  BY <2>4, <2>5
<1> QED  BY <1>1, <1>2, ValueLevels!Induction

-----------------------------------------------------------------------------
(* A result or an argument of another client is of the type, and one of a    *)
(* stub or of generated code is the one that was sent, if it is taken.       *)
LEMMA IntoConforms ==
  ASSUME NEW t \in Types, NEW u \in objects[Depth - 1], NEW suc \in BOOLEAN
  PROVE  LET got == DeserialiseInto(t, u, suc)
         IN  got.suc \in BOOLEAN /\ (got.suc => got.out \in Values(t))
<1> DEFINE got == deserialise[Depth][t][u]
           into == DeserialiseInto(t, u, suc)
<1>1. Depth - 1 \in Nat /\ (Depth - 1) + 1 = Depth
  BY Bounds
<1>2. ConformsAt(0, Depth - 1)
  BY <1>1, Conforms
<1>3. got.suc \in BOOLEAN /\ (got.suc => got.out \in Values(t))
  BY <1>1, <1>2 DEF ConformsAt, Values
<1>4. got = Failed \/ \E out : got = Done(out)
  <2>1. u \in objects[Depth]
    BY <1>1, ObjectsDeepen DEF DeeperAt
  <2>2. got = Deserialised(deserialise[Depth - 1], t, u)
    BY <1>1, <2>1, DeserialiseUnfolds
  <2>3. \A f : DeserialisedPlain(f, t.of, u) = Failed \/ \E out : DeserialisedPlain(f, t.of, u) = Done(out)
    <3> TAKE f
    <3>1. CASE IsBuiltin(t.of)
      BY <3>1, DeserialiseBuiltin
    <3>2. CASE IsEnum(t.of)
      BY <3>2, DeserialiseEnum, Zenon
    <3>3. CASE IsStruct(t.of)
      BY <3>3, DeserialiseStruct, Zenon
    <3> QED  BY <3>1, <3>2, <3>3, KindsOf
  <2> QED  BY <2>2, <2>3, Zenon DEF Deserialised
<1> HIDE DEF got
<1>5. into = IF t.list /\ got.suc THEN [got EXCEPT !.suc = suc] ELSE got
  BY DEF DeserialiseInto, got
<1> HIDE DEF into
<1>6. got.suc => [got EXCEPT !.suc = suc].out = got.out /\ [got EXCEPT !.suc = suc].suc = suc
  <2>1. Failed.suc = FALSE
    BY DEF Failed
  <2>2. \A out : [Done(out) EXCEPT !.suc = suc].out = Done(out).out /\ [Done(out) EXCEPT !.suc = suc].suc = suc
    BY DEF Done
  <2> QED  BY <1>4, <2>1, <2>2
<1>7. into.suc \in BOOLEAN /\ (into.suc => into.out \in Values(t))
  BY <1>3, <1>5, <1>6
<1> QED  BY <1>7 DEF into

(* What a value was serialised to is read, if it is, as what is left of it.  *)
LEMMA IntoReturns ==
  ASSUME NEW t \in Types, NEW v \in Values(t), NEW suc \in BOOLEAN
  PROVE  LET got == DeserialiseInto(t, serialise[Depth][t][v], suc)
         IN  got.suc \in BOOLEAN /\ Carried(t, v) \in Values(t) /\ (got.suc => got.out = Carried(t, v))
<1> DEFINE c == Carried(t, v)
           u == serialise[Depth][t][v]
           into == DeserialiseInto(t, u, suc)
<1>1. RoundTripAt(0, Depth)
  BY Bounds, RoundTrip
<1>2. deserialise[Depth][t][u] \in {Failed, Done(c)} /\ c \in Values(t)
  BY <1>1 DEF RoundTripAt, ComesBack, Values, Carried
<1> DEFINE got == deserialise[Depth][t][u]
<1> HIDE DEF u, c
<1>3. into = IF t.list /\ got.suc THEN [got EXCEPT !.suc = suc] ELSE got
  BY DEF DeserialiseInto
<1>4. into.suc \in BOOLEAN /\ (into.suc => into.out = c)
  <2> HIDE DEF into, got
  <2>1. got = Failed \/ got = Done(c)
    BY <1>2, Zenon DEF got
  <2>2. CASE got = Failed
    <3>1. got.suc = FALSE
      <4>1. Failed.suc = FALSE
        BY DEF Failed
      <4> QED  BY <2>2, <4>1
    <3> QED  BY <1>3, <3>1
  <2>3. CASE got = Done(c)
    <3>1. got.suc = TRUE /\ got.out = c /\ [got EXCEPT !.suc = suc].suc = suc /\ [got EXCEPT !.suc = suc].out = c
      BY <2>3 DEF Done
    <3> QED  BY <1>3, <3>1
  <2> QED  BY <2>1, <2>2, <2>3
<1> QED  BY <1>2, <1>4 DEF u, c

-----------------------------------------------------------------------------
(* handleReq after k arguments: those taken are as wanted, and an argument   *)
(* that is refused with succeeded set is one that is missing after a good.   *)
TakenSo(params, args, W, n, k, acc) ==
  /\ acc.bad \in BOOLEAN /\ acc.succeeded \in BOOLEAN
  /\ ~acc.bad => /\ acc.vals \in Seq(UNION {W[i] : i \in 1..n}) /\ Len(acc.vals) = k
                 /\ \A i \in 1..k : acc.vals[i] \in W[i] /\ HasParam(params, args[i])
  /\ acc.bad /\ acc.succeeded => HasParam(params, args[1]) /\ \E i \in 2..n : ~HasParam(params, args[i])
  /\ k = 0 => ~acc.bad /\ ~acc.succeeded

TakenAt(o, k) == k \in 0..o.n => TakenSo(o.params, o.args, o.W, o.n, k, o.g[k])

TakeStep(s, params, none, acc, arg) == TakeArg(s, params, acc, arg)

Takes == INSTANCE FoldInduction WITH Op <- TakeStep, Keeps <- TakenAt, Element <- Anything

(* handleReq takes one more argument.                                        *)
LEMMA TakeOne ==
  ASSUME NEW s, NEW params, NEW args, NEW W, NEW n \in Nat, NEW k \in Nat, k + 1 \in 1..n,
         NEW acc, TakenSo(params, args, W, n, k, acc),
         \A i \in 1..n : \A suc \in BOOLEAN : HasParam(params, args[i]) =>
           LET got == DeserialiseInto(Synth(s, args[i].type), Param(params, args[i]), suc)
           IN  got.suc \in BOOLEAN /\ (got.suc => got.out \in W[i])
  PROVE  TakenSo(params, args, W, n, k + 1, TakeArg(s, params, acc, args[k + 1]))
<1> DEFINE arg == args[k + 1]
           new == TakeArg(s, params, acc, arg)
           got == DeserialiseInto(Synth(s, arg.type), Param(params, arg), acc.succeeded)
           S == UNION {W[i] : i \in 1..n}
<1>1. /\ acc.bad \in BOOLEAN /\ acc.succeeded \in BOOLEAN
      /\ ~acc.bad => /\ acc.vals \in Seq(S) /\ Len(acc.vals) = k
                     /\ \A i \in 1..k : acc.vals[i] \in W[i] /\ HasParam(params, args[i])
      /\ acc.bad /\ acc.succeeded => HasParam(params, args[1]) /\ \E i \in 2..n : ~HasParam(params, args[i])
      /\ k = 0 => ~acc.bad /\ ~acc.succeeded
  BY DEF TakenSo
<1>0. k + 1 # 0
  OBVIOUS
<1>2. CASE acc.bad
  <2>1. new = acc
    BY <1>2 DEF TakeArg
  <2> QED  BY <1>0, <1>1, <1>2, <2>1 DEF TakenSo
<1>3. CASE ~acc.bad /\ ~HasParam(params, arg)
  <2>1. new = [acc EXCEPT !.bad = TRUE]
    BY <1>3 DEF TakeArg
  <2>2. new.bad = TRUE /\ new.succeeded = acc.succeeded
    BY <2>1
  <2>3. acc.succeeded => HasParam(params, args[1]) /\ k + 1 \in 2..n
    <3>1. acc.succeeded => k # 0
      BY <1>1
    <3>2. k # 0 => 1 \in 1..k /\ k + 1 \in 2..n
      OBVIOUS
    <3> QED  BY <1>1, <1>3, <3>1, <3>2
  <2> HIDE DEF new
  <2>4. new.bad /\ new.succeeded => HasParam(params, args[1]) /\ \E i \in 2..n : ~HasParam(params, args[i])
    BY <1>3, <2>2, <2>3
  <2>5. new.bad \in BOOLEAN /\ new.succeeded \in BOOLEAN
    BY <1>1, <2>2
  <2> QED  BY <1>0, <2>2, <2>4, <2>5 DEF TakenSo, new
<1>4. CASE ~acc.bad /\ HasParam(params, arg)
  <2>1. new = [bad |-> ~got.suc, succeeded |-> got.suc, vals |-> Append(acc.vals, got.out)]
    BY <1>4 DEF TakeArg
  <2>2. got.suc \in BOOLEAN /\ (got.suc => got.out \in W[k + 1])
    BY <1>1, <1>4
  <2> HIDE DEF got
  <2>3. new.bad = ~got.suc /\ new.succeeded = got.suc /\ new.vals = Append(acc.vals, got.out)
    BY <2>1
  <2> HIDE DEF new
  <2>4. ASSUME got.suc
        PROVE  /\ new.vals \in Seq(S) /\ Len(new.vals) = k + 1
               /\ \A i \in 1..(k + 1) : new.vals[i] \in W[i] /\ HasParam(params, args[i])
    <3>1. got.out \in S
      BY <2>2, <2>4
    <3>2. acc.vals \in Seq(S) /\ Len(acc.vals) = k
      BY <1>1, <1>4
    <3> HIDE DEF S
    <3>3. /\ Append(acc.vals, got.out) \in Seq(S) /\ Len(Append(acc.vals, got.out)) = k + 1
          /\ \A i \in 1..k : Append(acc.vals, got.out)[i] = acc.vals[i]
          /\ Append(acc.vals, got.out)[k + 1] = got.out
      BY <3>1, <3>2
    <3>4. \A i \in 1..k : acc.vals[i] \in W[i] /\ HasParam(params, args[i])
      BY <1>1, <1>4
    <3>5. \A i \in 1..(k + 1) : i \in 1..k \/ i = k + 1
      OBVIOUS
    <3> QED  BY <1>4, <2>2, <2>3, <2>4, <3>3, <3>4, <3>5
  <2>5. ~(new.bad /\ new.succeeded) /\ new.bad \in BOOLEAN /\ new.succeeded \in BOOLEAN
    BY <2>2, <2>3
  <2>6. ~new.bad => got.suc
    BY <2>3
  <2> QED  BY <1>0, <2>4, <2>5, <2>6 DEF TakenSo, new
<1> QED  BY <1>1, <1>2, <1>3, <1>4

(* handleReq takes all arguments: by induction on their number.              *)
LEMMA TakenAll ==
  ASSUME NEW s, NEW params, NEW args, NEW W, NEW n \in Nat, DOMAIN args = 1..n,
         \A i \in 1..n : \A suc \in BOOLEAN : HasParam(params, args[i]) =>
           LET got == DeserialiseInto(Synth(s, args[i].type), Param(params, args[i]), suc)
           IN  got.suc \in BOOLEAN /\ (got.suc => got.out \in W[i])
  PROVE  TakenSo(params, args, W, n, n, Taken(s, params, args))
<1>1. PICK g : /\ g[0] = NoneTaken
               /\ \A k \in 1..n : g[k] = TakeArg(s, params, g[k - 1], args[k])
               /\ Taken(s, params, args) = g[n]
  <2>1. PICK g : Takes!Along(g, s, params, 0, NoneTaken, args, n)
    BY Takes!FoldUnfolds
  <2>2. Takes!Fold(s, params, 0, NoneTaken, args) = Taken(s, params, args)
    BY DEF Takes!Fold, FoldLeft, MapThenFoldSet, Max, Takes!FoldLeft, Takes!MapThenFoldSet, Takes!Max, TakeStep, Taken
  <2> QED  BY <2>1, <2>2 DEF Takes!Along, TakeStep
<1> DEFINE o == [g |-> g, params |-> params, args |-> args, W |-> W, n |-> n]
<1>2. \A k : TakenAt(o, k) <=> (k \in 0..n => TakenSo(params, args, W, n, k, g[k]))
  BY DEF TakenAt
<1>3. TakenSo(params, args, W, n, 0, g[0])
  <2>1. g[0].bad = FALSE /\ g[0].succeeded = FALSE /\ g[0].vals = <<>>
    BY <1>1 DEF NoneTaken
  <2> DEFINE S == UNION {W[i] : i \in 1..n}
  <2>2. g[0].vals \in Seq(S) /\ Len(g[0].vals) = 0
    <3> HIDE DEF S
    <3> QED  BY <2>1
  <2>3. \A i \in 1..0 : g[0].vals[i] \in W[i] /\ HasParam(params, args[i])
    OBVIOUS
  <2>4. ~g[0].bad /\ ~g[0].succeeded /\ g[0].bad \in BOOLEAN /\ g[0].succeeded \in BOOLEAN
    BY <2>1
  <2> QED  BY <2>2, <2>3, <2>4 DEF TakenSo
<1>4. ASSUME NEW k \in Nat, k \in 0..n => TakenSo(params, args, W, n, k, g[k]), k + 1 \in 0..n
      PROVE  TakenSo(params, args, W, n, k + 1, g[k + 1])
  <2>1. k \in 0..n /\ k + 1 \in 1..n /\ (k + 1) - 1 = k
    BY <1>4
  <2>2. TakenSo(params, args, W, n, k, g[k])
    BY <1>4, <2>1
  <2>3. g[k + 1] = TakeArg(s, params, g[k], args[k + 1])
    BY <1>1, <2>1
  <2>4. TakenSo(params, args, W, n, k + 1, TakeArg(s, params, g[k], args[k + 1]))
    BY <2>1, <2>2, TakeOne
  <2> QED  BY <2>3, <2>4
<1> HIDE DEF o
<1>5. \A k \in Nat : TakenAt(o, k)
  BY <1>2, <1>3, <1>4, Takes!Induction
<1> QED  BY <1>1, <1>2, <1>5

-----------------------------------------------------------------------------
(* A stub's request is out, or one of another client.                        *)
StubSent(kind, p, v, m, args) ==
  /\ kind \in {"sync", "async"} /\ p \in DOMAIN Programs /\ v \in DOMAIN Versions(p)
  /\ m \in DOMAIN Versions(p)[v].methods /\ args \in ArgLists(Programs[p].scope, MethodAt(p, v, m))
  /\ call = [kind |-> kind, program |-> p, version |-> v, method |-> MethodAt(p, v, m).name, args |-> args]
  /\ req = [method |-> WireName(p, v, m), params |-> Params(Programs[p].scope, MethodAt(p, v, m), args)]

Sent == \/ \E kind, p, v, m, args : StubSent(kind, p, v, m, args)
        \/ call.kind = "foreign" /\ req \in Foreign

(* The one implementation that was called, with what handleReq took.         *)
CalledWith(p) ==
  /\ ~TakenArgs(p).bad
  /\ ran = <<[program |-> p, method |-> TheMethod(p).name, args |-> TakenArgs(p).vals]>>

RanOnce == ran = <<>> \/ \E p \in Handler : CalledWith(p)

(* A reply says whether the call was executed, and holds what was returned.  *)
Refused == ran = <<>> /\ ~gave.ok /\ (reply.err \in {"invalidParameters", "methodNotFound"} \/ LaterParamMissing)
FailedThere == ran # <<>> /\ ~gave.ok /\ reply.err \in {"error", "success"}
Succeeded ==
  /\ ran # <<>> /\ gave.ok /\ reply.err = "none"
  /\ \/ IsVoid(Running.method) /\ gave.value = Unset
     \/ gave.value = Unset /\ reply.result \in Own
     \/ /\ ~IsVoid(Running.method) /\ gave.value \in Values(Meant(Running.scope, Running.method.ret))
        /\ reply.result = serialise[Depth][Synth(Running.scope, Running.method.ret)][gave.value]

Stages ==
  /\ at # "idle" => Sent
  /\ at \in {"idle", "sent"} => ran = <<>>
  /\ at = "executing" => ran # <<>>
  /\ at \in {"idle", "sent", "executing"} => ~gave.ok
  /\ at = "answered" => Refused \/ FailedThere \/ Succeeded
  /\ at # "told" => told.err = "none" /\ ~told.set

Errs == {gave.err, reply.err, told.err} \subseteq Errors /\ at \in {"idle", "sent", "executing", "answered", "told"}

IInv == Errs /\ Stages /\ RanOnce /\ SuccessMeansExecuted /\ ResultComesBack

-----------------------------------------------------------------------------
(* What depends on the request only stays while the request does.            *)
LEMMA SameRequest ==
  ASSUME req' = req
  PROVE  /\ Handler' = Handler /\ Running' = Running /\ LaterParamMissing' = LaterParamMissing
         /\ \A p : TheMethod(p)' = TheMethod(p) /\ TakenArgs(p)' = TakenArgs(p)
  BY DEF Handler, Running, LaterParamMissing, TheMethod, TakenArgs, Matches

(* A program that takes a request has the method in its first version, and   *)
(* no other program takes it.                                                *)
LEMMA HandlerMethod ==
  ASSUME NEW p \in Handler
  PROVE  /\ p \in DOMAIN Programs /\ 1 \in DOMAIN Versions(p)
         /\ \E m \in DOMAIN Versions(p)[1].methods : TheMethod(p) = MethodAt(p, 1, m) /\ req.method = WireName(p, 1, m)
         /\ Handler = {p}
         /\ Running = [scope |-> Programs[p].scope, method |-> TheMethod(p)]
<1>1. p \in DOMAIN Programs /\ Matches(p) # {}
  BY DEF Handler
<1>2. \A q \in DOMAIN Programs : 1 \in DOMAIN Versions(q)
  <2> TAKE q \in DOMAIN Programs
  <2> DEFINE V == [num : STRING, methods : Seq(Methods)]
             S == [scope : DOMAIN Scope, versions : Seq(V)]
  <2>1. Programs \in Seq(S) /\ Versions(q) # <<>>
    BY ProgramAssumption, Zenon
  <2>2. Programs[q] \in S
    <3> HIDE DEF S
    <3> QED  BY <2>1, ElementsOf
  <2>3. Versions(q) \in Seq(V)
    <3> HIDE DEF V
    <3> QED  BY <2>2 DEF Versions
  <2> HIDE DEF V
  <2> QED  BY <2>1, <2>3
<1>3. \A q \in DOMAIN Programs : \A c \in Matches(q) :
        \E m \in DOMAIN Versions(q)[1].methods : c = <<1, m>> /\ req.method = WireName(q, 1, m)
  BY DEF Matches, Reachable
<1> DEFINE c == CHOOSE x \in Matches(p) : TRUE
<1>4. c \in Matches(p)
  BY <1>1
<1>5. PICK m \in DOMAIN Versions(p)[1].methods : c = <<1, m>> /\ req.method = WireName(p, 1, m)
  BY <1>1, <1>3, <1>4
<1>6. TheMethod(p) = MethodAt(p, 1, m)
  <2>1. TheMethod(p) = MethodAt(p, c[1], c[2])
    BY DEF TheMethod
  <2> HIDE DEF c
  <2> QED  BY <1>5, <2>1
<1>7. ASSUME NEW q \in Handler PROVE q = p
  <2>1. q \in DOMAIN Programs /\ Matches(q) # {}
    BY DEF Handler
  <2>2. PICK k \in DOMAIN Versions(q)[1].methods : req.method = WireName(q, 1, k)
    BY <1>3, <2>1
  <2> QED  BY <1>1, <1>2, <1>5, <2>1, <2>2, WireAssumption
<1>8. Handler = {p}
  BY <1>7
<1>9. Running = [scope |-> Programs[p].scope, method |-> TheMethod(p)]
  <2>1. (CHOOSE q \in Handler : TRUE) = p
    BY <1>8
  <2> QED  BY <2>1 DEF Running
<1> QED  BY <1>1, <1>2, <1>5, <1>6, <1>8, <1>9

(* A stub's request is taken by its own program, or by none.                 *)
LEMMA StubHandler ==
  ASSUME NEW kind, NEW p, NEW v, NEW m, NEW args, StubSent(kind, p, v, m, args), NEW q \in Handler
  PROVE  q = p /\ v = 1 /\ TheMethod(q) = MethodAt(p, v, m)
<1>1. PICK k \in DOMAIN Versions(q)[1].methods : TheMethod(q) = MethodAt(q, 1, k) /\ req.method = WireName(q, 1, k)
  BY HandlerMethod
<1>2. q \in DOMAIN Programs /\ 1 \in DOMAIN Versions(q)
  BY HandlerMethod
<1>3. /\ p \in DOMAIN Programs /\ v \in DOMAIN Versions(p) /\ m \in DOMAIN Versions(p)[v].methods
      /\ req.method = WireName(p, v, m)
  BY DEF StubSent
<1>4. p = q /\ v = 1 /\ m = k
  BY <1>1, <1>2, <1>3, WireAssumption
<1> QED  BY <1>1, <1>4

(* What is taken of what a stub sends is what is left of it, or an argument  *)
(* is refused that is there (that of a list, or an entry with the number     *)
(* kMax), with which succeeded is not set.                                   *)
LEMMA StubTaken ==
  ASSUME NEW kind, NEW p, NEW v, NEW m, NEW args, StubSent(kind, p, v, m, args), NEW q \in Handler
  PROVE  /\ TakenArgs(q).bad \in BOOLEAN /\ TakenArgs(q).succeeded \in BOOLEAN
         /\ ~TakenArgs(q).bad =>
              TakenArgs(q).vals = [i \in DOMAIN args |->
                                     Carried(Meant(Programs[p].scope, MethodAt(p, v, m).args[i].type), args[i])]
         /\ TakenArgs(q).bad => ~TakenArgs(q).succeeded
         /\ \A i \in DOMAIN args : Carried(Meant(Programs[p].scope, MethodAt(p, v, m).args[i].type), args[i])
                                     \in Values(Meant(Programs[p].scope, MethodAt(p, v, m).args[i].type))
         /\ DOMAIN args = DOMAIN MethodAt(p, v, m).args /\ Len(args) = Len(MethodAt(p, v, m).args)
         /\ \A i \in DOMAIN MethodAt(p, v, m).args : HasParam(req.params, MethodAt(p, v, m).args[i])
<1> DEFINE s == Programs[p].scope
           decls == MethodAt(p, v, m).args
           n == Len(decls)
           ty(i) == Synth(s, decls[i].type)
           params == req.params
           members == [i \in DOMAIN decls |-> serialise[Depth][ty(i)][args[i]]]
           left(i) == Carried(ty(i), args[i])
           W == [i \in 1..n |-> {left(i)}]
           t == Taken(s, params, decls)
<1>1. /\ p \in DOMAIN Programs /\ v \in DOMAIN Versions(p) /\ m \in DOMAIN Versions(p)[v].methods
      /\ args \in ArgLists(s, MethodAt(p, v, m)) /\ params = Ucl("object", "", Ids(decls), members)
  BY Zenon DEF StubSent, Params
<1>2. s \in DOMAIN Scope /\ Block(s, decls)
  BY <1>1, MethodOf, Zenon
<1>3. /\ n \in Nat /\ DOMAIN decls = 1..n
      /\ \A i \in 1..n : ty(i) = Meant(s, decls[i].type) /\ ty(i) \in Types
      /\ Len(Ids(decls)) = n
      /\ \A i \in 1..n : Ids(decls)[i] = decls[i].id /\ Index(Ids(decls), decls[i].id) = i
  <2> HIDE DEF s, decls
  <2> QED  BY <1>2, BlockOf
<1>4. args = [i \in 1..n |-> args[i]] /\ \A i \in 1..n : args[i] \in Values(Meant(s, decls[i].type))
  <2> DEFINE I == DOMAIN decls
             V == [i \in I |-> Values(Meant(s, decls[i].type))]
  <2>1. ArgLists(s, MethodAt(p, v, m)) = ListsOf(I, {<<i, V[i]>> : i \in I})
    <3>1. {<<i, V[i]>> : i \in I} = {<<i, Values(Meant(s, decls[i].type))>> : i \in DOMAIN decls}
      BY Zenon
    <3> QED  BY <3>1, Zenon DEF ArgLists, Fitting, ListsOf
  <2>2. \A i \in I : V[i] = Values(Meant(s, decls[i].type))
    BY Zenon
  <2> HIDE DEF V, I
  <2>3. args = [i \in I |-> args[i]] /\ \A i \in I : args[i] \in V[i]
    <3>1. args \in ListsOf(I, {<<i, V[i]>> : i \in I})
      BY <1>1, <2>1, Zenon
    <3> QED  BY <3>1, FitsOf, Zenon
  <2>4. I = 1..n
    BY <1>3 DEF I
  <2> HIDE DEF s, decls, n
  <2> QED  BY <2>2, <2>3, <2>4
<1>5. TakenArgs(q) = t
  <2>1. q = p /\ TheMethod(q) = MethodAt(p, v, m)
    BY StubHandler
  <2> QED  BY <2>1 DEF TakenArgs
<1>6. params.keys = Ids(decls) /\ params.members = members
  <2>1. params = Ucl("object", "", Ids(decls), members)
    BY <1>1, Zenon
  <2> HIDE DEF decls, members, params
  <2> QED  BY <2>1, Zenon DEF Ucl
<1> HIDE DEF params
<1>7. \A i \in 1..n : HasParam(params, decls[i]) /\ Param(params, decls[i]) = serialise[Depth][ty(i)][args[i]]
  <2> HIDE DEF s, decls, n, ty
  <2> QED  BY <1>3, <1>6 DEF HasParam, Param, Contains
<1>8. \A i \in 1..n : \A suc \in BOOLEAN : HasParam(params, decls[i]) =>
        LET got == DeserialiseInto(Synth(s, decls[i].type), Param(params, decls[i]), suc)
        IN  got.suc \in BOOLEAN /\ (got.suc => got.out \in W[i])
  <2> SUFFICES ASSUME NEW i \in 1..n, NEW suc \in BOOLEAN
               PROVE  LET got == DeserialiseInto(ty(i), Param(params, decls[i]), suc)
                      IN  got.suc \in BOOLEAN /\ (got.suc => got.out \in W[i])
    OBVIOUS
  <2>1. ty(i) \in Types /\ args[i] \in Values(ty(i)) /\ Param(params, decls[i]) = serialise[Depth][ty(i)][args[i]]
    BY <1>3, <1>4, <1>7
  <2>2. W[i] = {left(i)}
    OBVIOUS
  <2> DEFINE got == DeserialiseInto(ty(i), Param(params, decls[i]), suc)
             sent == DeserialiseInto(ty(i), serialise[Depth][ty(i)][args[i]], suc)
  <2>3. sent.suc \in BOOLEAN /\ (sent.suc => sent.out = left(i))
    BY <2>1, IntoReturns
  <2>5. got = sent
    BY <2>1
  <2> HIDE DEF got, sent, W, left
  <2>4. got.suc \in BOOLEAN /\ (got.suc => got.out \in W[i])
    BY <2>2, <2>3, <2>5
  <2> QED  BY <2>4 DEF got
<1>9. TakenSo(params, decls, W, n, n, t)
  <2> HIDE DEF s, decls, n, W
  <2> QED  BY <1>3, <1>8, TakenAll
<1> HIDE DEF t
<1>10. /\ t.bad \in BOOLEAN /\ t.succeeded \in BOOLEAN
       /\ ~t.bad => /\ t.vals \in Seq(UNION {W[i] : i \in 1..n}) /\ Len(t.vals) = n
                    /\ \A i \in 1..n : t.vals[i] \in W[i]
       /\ ~(t.bad /\ t.succeeded)
  <2> HIDE DEF decls, n, W
  <2> QED  BY <1>7, <1>9 DEF TakenSo
<1>11. ~t.bad => t.vals = [i \in 1..n |-> left(i)]
  <2> SUFFICES ASSUME ~t.bad PROVE t.vals = [i \in 1..n |-> left(i)]
    OBVIOUS
  <2> DEFINE S == UNION {W[i] : i \in 1..n}
  <2>1. t.vals \in Seq(S) /\ Len(t.vals) = n /\ \A i \in 1..n : t.vals[i] \in W[i]
    BY <1>10
  <2>2. \A i \in 1..n : t.vals[i] = left(i)
    <3> HIDE DEF n, left
    <3> QED  BY <2>1
  <2> HIDE DEF S, n, left
  <2>3. t.vals = [i \in 1..n |-> t.vals[i]]
    BY <2>1
  <2> QED  BY <2>2, <2>3
<1>12. DOMAIN args = 1..n /\ Len(args) = n
  <2> HIDE DEF n
  <2> QED  BY <1>3, <1>4
<1>13. \A i \in 1..n : /\ left(i) = Carried(Meant(s, decls[i].type), args[i])
                        /\ left(i) \in Values(Meant(s, decls[i].type))
  <2> TAKE i \in 1..n
  <2>1. ty(i) = Meant(s, decls[i].type) /\ ty(i) \in Types /\ args[i] \in Values(ty(i))
    BY <1>3, <1>4
  <2>2. left(i) \in Values(ty(i))
    BY <2>1, IntoReturns
  <2> QED  BY <2>1, <2>2
<1>14. [i \in 1..n |-> left(i)] = [i \in 1..n |-> Carried(Meant(s, decls[i].type), args[i])]
  <2> HIDE DEF left, n, s, decls
  <2> QED  BY <1>13
<1> HIDE DEF left
<1> QED  BY <1>3, <1>5, <1>7, <1>10, <1>11, <1>12, <1>13, <1>14 DEF params

(* What another client sends is taken as values of the types, and one that   *)
(* is refused with succeeded set is missing after a good one.                *)
LEMMA ForeignTaken ==
  ASSUME req \in Foreign, NEW p \in Handler
  PROVE  LET args == TheMethod(p).args
         IN  /\ TakenArgs(p).bad \in BOOLEAN /\ TakenArgs(p).succeeded \in BOOLEAN
             /\ ~TakenArgs(p).bad =>
                  /\ Len(TakenArgs(p).vals) = Len(args)
                  /\ \A i \in DOMAIN args : TakenArgs(p).vals[i] \in Values(Meant(Programs[p].scope, args[i].type))
             /\ TakenArgs(p).bad /\ TakenArgs(p).succeeded => LaterParamMissing
<1> DEFINE s == Programs[p].scope
           decls == TheMethod(p).args
           n == Len(decls)
           ty(i) == Synth(s, decls[i].type)
           params == req.params
           W == [i \in 1..n |-> Values(ty(i))]
           t == Taken(s, params, decls)
<1>1. PICK m \in DOMAIN Versions(p)[1].methods : TheMethod(p) = MethodAt(p, 1, m)
  BY HandlerMethod
<1>2. s \in DOMAIN Scope /\ Block(s, decls)
  BY <1>1, HandlerMethod, MethodOf
<1>3. /\ n \in Nat /\ DOMAIN decls = 1..n
      /\ \A i \in 1..n : ty(i) = Meant(s, decls[i].type) /\ ty(i) \in Types
  <2> HIDE DEF s, decls
  <2> QED  BY <1>2, BlockOf
<1>4. TakenArgs(p) = t
  BY DEF TakenArgs
<1>5. params.members \in Seq(objects[Depth - 1]) /\ params.keys \in Seq(STRING) /\ Len(params.keys) = Len(params.members)
  BY ForeignAssumption
<1> HIDE DEF params
<1>6. \A i \in 1..n : HasParam(params, decls[i]) => Param(params, decls[i]) \in objects[Depth - 1]
  <2> SUFFICES ASSUME NEW i \in 1..n, HasParam(params, decls[i]) PROVE Param(params, decls[i]) \in objects[Depth - 1]
    OBVIOUS
  <2> HIDE DEF decls
  <2>1. DOMAIN params.keys = 1..Len(params.members) /\ \E j \in DOMAIN params.keys : params.keys[j] = decls[i].id
    BY <1>5 DEF HasParam, Contains
  <2> QED  BY <1>5, <2>1, LookedUp DEF Param
<1>7. \A i \in 1..n : \A suc \in BOOLEAN : HasParam(params, decls[i]) =>
        LET got == DeserialiseInto(Synth(s, decls[i].type), Param(params, decls[i]), suc)
        IN  got.suc \in BOOLEAN /\ (got.suc => got.out \in W[i])
  <2> SUFFICES ASSUME NEW i \in 1..n, NEW suc \in BOOLEAN, HasParam(params, decls[i])
               PROVE  LET got == DeserialiseInto(ty(i), Param(params, decls[i]), suc)
                      IN  got.suc \in BOOLEAN /\ (got.suc => got.out \in W[i])
    OBVIOUS
  <2>1. ty(i) \in Types /\ Param(params, decls[i]) \in objects[Depth - 1] /\ W[i] = Values(ty(i))
    BY <1>3, <1>6
  <2> HIDE DEF s, decls, n, ty, W
  <2> QED  BY <2>1, IntoConforms
<1>8. TakenSo(params, decls, W, n, n, t)
  <2> HIDE DEF s, decls, n, W
  <2> QED  BY <1>3, <1>7, TakenAll
<1> HIDE DEF t
<1>9. /\ t.bad \in BOOLEAN /\ t.succeeded \in BOOLEAN
      /\ ~t.bad => Len(t.vals) = n /\ \A i \in 1..n : t.vals[i] \in W[i]
      /\ t.bad /\ t.succeeded => HasParam(params, decls[1]) /\ \E i \in 2..n : ~HasParam(params, decls[i])
  <2> HIDE DEF decls, n, W
  <2> QED  BY <1>8 DEF TakenSo
<1>10. \A i \in 1..n : W[i] = Values(Meant(s, decls[i].type))
  BY <1>3
<1>11. t.bad /\ t.succeeded => LaterParamMissing
  <2> SUFFICES ASSUME t.bad, t.succeeded PROVE LaterParamMissing
    OBVIOUS
  <2>1. PICK i \in 2..n : ~HasParam(params, decls[i])
    BY <1>9
  <2>2. i \in DOMAIN decls /\ i > 1
    <3> HIDE DEF decls, n
    <3> QED  BY <1>3
  <2> QED  BY <1>9, <2>1, <2>2 DEF LaterParamMissing, params
<1> HIDE DEF W
<1> QED  BY <1>3, <1>4, <1>9, <1>10, <1>11

(* No argument of a stub is missing.                                         *)
LEMMA StubNoneMissing ==
  ASSUME NEW kind, NEW p, NEW v, NEW m, NEW args, StubSent(kind, p, v, m, args)
  PROVE  ~LaterParamMissing
<1> SUFFICES ASSUME NEW q \in Handler, NEW i \in DOMAIN TheMethod(q).args, ~HasParam(req.params, TheMethod(q).args[i])
             PROVE  FALSE
  BY DEF LaterParamMissing
<1>1. TheMethod(q) = MethodAt(p, v, m)
  BY StubHandler
<1>2. \A j \in DOMAIN MethodAt(p, v, m).args : HasParam(req.params, MethodAt(p, v, m).args[j])
  BY StubTaken, Zenon
<1> QED  BY <1>1, <1>2

(* The stub knows its method by name.                                        *)
LEMMA StubMethod ==
  ASSUME NEW kind, NEW p, NEW v, NEW m, NEW args, StubSent(kind, p, v, m, args)
  PROVE  CalledMethod = MethodAt(p, v, m) /\ call.program = p /\ call.kind = kind
<1> DEFINE methods == Versions(p)[v].methods
           I == {k \in 1..Len(methods) : methods[k].name = MethodAt(p, v, m).name}
<1>1. /\ p \in DOMAIN Programs /\ v \in DOMAIN Versions(p) /\ m \in DOMAIN methods
      /\ call = [kind |-> kind, program |-> p, version |-> v, method |-> MethodAt(p, v, m).name, args |-> args]
  BY DEF StubSent
<1>2. call.program = p /\ call.version = v /\ call.method = MethodAt(p, v, m).name /\ call.kind = kind
  <2> DEFINE name == MethodAt(p, v, m).name
  <2> HIDE DEF name
  <2> QED  BY <1>1 DEF name
<1>3. DOMAIN methods = 1..Len(methods)
  <2> DEFINE V == [num : STRING, methods : Seq(Methods)]
             S == [scope : DOMAIN Scope, versions : Seq(V)]
  <2>1. Programs \in Seq(S)
    BY ProgramAssumption, Zenon
  <2>2. Programs[p] \in S
    <3> HIDE DEF S
    <3> QED  BY <1>1, <2>1, ElementsOf
  <2>3. Versions(p) \in Seq(V)
    <3> HIDE DEF V
    <3> QED  BY <2>2 DEF Versions
  <2>4. Versions(p)[v] \in V
    <3> HIDE DEF V
    <3> QED  BY <1>1, <2>3, ElementsOf
  <2>5. methods \in Seq(Methods)
    BY <2>4
  <2> QED  BY <2>5, ElementsOf
<1>4. I = {m}
  <2>1. ASSUME NEW k \in I PROVE k = m
    <3>1. methods[k].name = methods[m].name
      BY DEF MethodAt
    <3>2. WireName(p, v, k) = WireName(p, v, m)
      BY <3>1 DEF WireName, implFunName, MethodAt
    <3> QED  BY <1>1, <1>3, <3>2, WireAssumption
  <2>2. m \in I
    BY <1>1, <1>3 DEF MethodAt
  <2> QED  BY <2>1, <2>2
<1>5. Min({m}) = m
  BY <1>1, <1>3 DEF Min
<1>6. CalledMethod = methods[IF I # {} THEN Min(I) ELSE 0]
  BY <1>2 DEF CalledMethod, SelectInSeq
<1> HIDE DEF I
<1> QED  BY <1>2, <1>4, <1>5, <1>6 DEF MethodAt

(* What was executed for a stub is its own call.                             *)
LEMMA StubRunning ==
  ASSUME NEW kind, NEW p, NEW v, NEW m, NEW args, StubSent(kind, p, v, m, args), ran # <<>>, RanOnce
  PROVE  /\ p \in Handler /\ CalledWith(p)
         /\ Running = [scope |-> Programs[p].scope, method |-> MethodAt(p, v, m)]
<1>1. PICK q \in Handler : CalledWith(q)
  BY DEF RanOnce
<1>2. q = p /\ TheMethod(q) = MethodAt(p, v, m)
  BY StubHandler
<1>3. Running = [scope |-> Programs[q].scope, method |-> TheMethod(q)]
  BY HandlerMethod
<1> QED  BY <1>1, <1>2, <1>3

(* A result that is taken is of the type, and what is left of the one that   *)
(* was returned.                                                             *)
LEMMA ReturnedRight ==
  ASSUME NEW kind, NEW p, NEW v, NEW m, NEW args, StubSent(kind, p, v, m, args), RanOnce,
         Refused \/ FailedThere \/ Succeeded, HasResult, NEW suc \in BOOLEAN
  PROVE  /\ gave.ok /\ Returned(suc).suc \in BOOLEAN
         /\ Returned(suc).suc =>
              /\ Returned(suc).out \in Values(Results)
              /\ gave.value # Unset => Returned(suc).out = Carried(Results, gave.value)
<1> DEFINE s == Programs[p].scope
           method == MethodAt(p, v, m)
           t == Meant(s, method.ret)
           got == Returned(suc)
<1>1. CalledMethod = method /\ call.program = p
  BY StubMethod
<1>2. reply.err = "none" /\ ~IsVoid(method)
  BY <1>1 DEF HasResult
<1>3. Succeeded
  BY <1>2, StubNoneMissing DEF Refused, FailedThere
<1>4. Running.scope = s /\ Running.method = method
  <2>1. Running = [scope |-> s, method |-> method]
    BY <1>3, StubRunning DEF Succeeded
  <2> HIDE DEF s, method
  <2> QED  BY <2>1
<1>5. t \in Types /\ Synth(s, method.ret) = t
  <2>1. p \in DOMAIN Programs /\ v \in DOMAIN Versions(p) /\ m \in DOMAIN Versions(p)[v].methods
    BY DEF StubSent
  <2> QED  BY <1>2, <2>1, MethodOf
<1>6. got = DeserialiseInto(t, reply.result, suc)
  BY <1>1, <1>5 DEF Returned
<1> HIDE DEF got
<1>7. /\ gave.ok
      /\ \/ gave.value = Unset /\ reply.result \in Own
         \/ gave.value \in Values(t) /\ reply.result = serialise[Depth][t][gave.value]
  <2> HIDE DEF s, method
  <2> QED  BY <1>2, <1>3, <1>4, <1>5 DEF Succeeded
<1> HIDE DEF t
<1>8. got.suc \in BOOLEAN /\ (got.suc => got.out \in Values(t) /\ (gave.value # Unset => got.out = Carried(t, gave.value)))
  <2>1. CASE gave.value = Unset /\ reply.result \in Own
    <3>1. reply.result \in objects[Depth - 1]
      BY <2>1, ForeignAssumption
    <3> QED  BY <1>5, <1>6, <2>1, <3>1, IntoConforms
  <2>2. CASE gave.value \in Values(t) /\ reply.result = serialise[Depth][t][gave.value]
    <3> DEFINE x == gave.value
    <3>1. x \in Values(t)
      BY <2>2
    <3> HIDE DEF x
    <3> DEFINE sent == DeserialiseInto(t, serialise[Depth][t][x], suc)
    <3>2. sent.suc \in BOOLEAN /\ Carried(t, x) \in Values(t) /\ (sent.suc => sent.out = Carried(t, x))
      BY <1>5, <3>1, IntoReturns
    <3>3. got = sent
      BY <1>6, <2>2 DEF x
    <3> HIDE DEF sent
    <3>4. got.suc \in BOOLEAN /\ (got.suc => got.out \in Values(t) /\ got.out = Carried(t, x))
      BY <3>2, <3>3
    <3> QED  BY <3>4 DEF x
  <2> QED  BY <1>7, <2>1, <2>2
<1> QED  BY <1>1, <1>7, <1>8 DEF got, t, Results

-----------------------------------------------------------------------------
(* A step after which the caller has not been told keeps what is said of     *)
(* what it is told.                                                          *)
LEMMA NotYetTold ==
  ASSUME IInv, told' = told, at # "told", at' # "told"
  PROVE  told'.err = "none" /\ ~told'.set /\ told'.err \in Errors /\ SuccessMeansExecuted' /\ ResultComesBack'
<1>1. told.err = "none" /\ ~told.set /\ told.err \in Errors
  BY DEF IInv, Stages, Errs
<1> QED  BY <1>1 DEF SuccessMeansExecuted, ResultComesBack

(* A request that is out stays what it was, and so does what was executed.   *)
LEMMA StillSent ==
  ASSUME IInv, at # "idle", UNCHANGED <<call, req>>
  PROVE  Sent' /\ (ran' = ran => RanOnce')
<1>1. Sent'
  <2>1. Sent
    BY DEF IInv, Stages
  <2>2. CASE \E kind, p, v, m, args : StubSent(kind, p, v, m, args)
    <3>1. PICK kind, p, v, m, args : StubSent(kind, p, v, m, args)
      BY <2>2
    <3>2. StubSent(kind, p, v, m, args)'
      BY <3>1 DEF StubSent
    <3> QED  BY <3>2 DEF Sent
  <2>3. CASE call.kind = "foreign" /\ req \in Foreign
    BY <2>3 DEF Sent
  <2> QED  BY <2>1, <2>2, <2>3 DEF Sent
<1>2. ASSUME ran' = ran PROVE RanOnce'
  <2>1. CASE ran = <<>>
    BY <1>2, <2>1 DEF RanOnce
  <2>2. CASE \E p \in Handler : CalledWith(p)
    <3>1. PICK p \in Handler : CalledWith(p)
      BY <2>2
    <3>2. p \in Handler' /\ CalledWith(p)'
      BY <1>2, <3>1, SameRequest DEF CalledWith
    <3> QED  BY <3>2 DEF RanOnce
  <2> QED  BY <2>1, <2>2 DEF IInv, RanOnce
<1> QED  BY <1>1, <1>2

(* The stubs and the other clients send a request when none is out.          *)
LEMMA StubKeeps == IInv /\ Stub => IInv'
<1> SUFFICES ASSUME IInv, Stub PROVE IInv'
  OBVIOUS
<1>1. PICK p \in DOMAIN Programs : \E v \in DOMAIN Versions(p) : \E m \in DOMAIN Versions(p)[v].methods :
          \E kind \in {"sync", "async"}, args \in ArgLists(Programs[p].scope, MethodAt(p, v, m)) :
            Call(kind, p, v, m, args)
  BY DEF Stub
<1>2. PICK v \in DOMAIN Versions(p) : \E m \in DOMAIN Versions(p)[v].methods :
          \E kind \in {"sync", "async"}, args \in ArgLists(Programs[p].scope, MethodAt(p, v, m)) :
            Call(kind, p, v, m, args)
  BY <1>1
<1>3. PICK m \in DOMAIN Versions(p)[v].methods :
          \E kind \in {"sync", "async"}, args \in ArgLists(Programs[p].scope, MethodAt(p, v, m)) :
            Call(kind, p, v, m, args)
  BY <1>2
<1>4. PICK kind \in {"sync", "async"}, args \in ArgLists(Programs[p].scope, MethodAt(p, v, m)) :
        Call(kind, p, v, m, args)
  BY <1>3
<1>5. at = "idle" /\ at' = "sent" /\ UNCHANGED <<ran, gave, reply, told>>
  BY <1>4 DEF Call
<1>6. StubSent(kind, p, v, m, args)'
  BY <1>4 DEF Call, StubSent
<1>7. Sent'
  BY <1>6 DEF Sent
<1>8. Errs' /\ RanOnce'
  BY <1>5 DEF IInv, Errs, Stages, RanOnce
<1>9. Stages'
  BY <1>5, <1>7 DEF IInv, Stages
<1> QED  BY <1>5, <1>8, <1>9, NotYetTold DEF IInv

(* Another client's request is one of Foreign.                               *)
LEMMA ForeignCallKeeps == IInv /\ (\E r \in Foreign : ForeignCall(r)) => IInv'
<1> SUFFICES ASSUME IInv, NEW r \in Foreign, ForeignCall(r) PROVE IInv'
  OBVIOUS
<1>1. at = "idle" /\ at' = "sent" /\ UNCHANGED <<ran, gave, reply, told>>
  BY DEF ForeignCall
<1>2. Sent'
  <2>1. req' \in Foreign
    BY DEF ForeignCall
  <2>2. "kind" \in DOMAIN NoCall
    BY DEF NoCall
  <2>3. call'.kind = "foreign"
    BY <2>2 DEF ForeignCall
  <2> QED  BY <2>1, <2>3 DEF Sent
<1>3. Errs' /\ RanOnce'
  BY <1>1 DEF IInv, Errs, Stages, RanOnce
<1>4. Stages'
  BY <1>1, <1>2 DEF IInv, Stages
<1> QED  BY <1>1, <1>3, <1>4, NotYetTold DEF IInv

(* What handleReq refuses is not executed, and is an error unless an         *)
(* argument after a good one is missing.                                     *)
LEMMA TakenOrRefused ==
  ASSUME Sent, NEW p \in Handler
  PROVE  /\ TakenArgs(p).bad \in BOOLEAN /\ TakenArgs(p).succeeded \in BOOLEAN
         /\ TakenArgs(p).bad /\ TakenArgs(p).succeeded => LaterParamMissing
<1>1. CASE \E kind, q, v, m, args : StubSent(kind, q, v, m, args)
  <2>1. PICK kind, q, v, m, args : StubSent(kind, q, v, m, args)
    BY <1>1
  <2>2. /\ TakenArgs(p).bad \in BOOLEAN /\ TakenArgs(p).succeeded \in BOOLEAN
        /\ TakenArgs(p).bad => ~TakenArgs(p).succeeded
    BY <2>1, StubTaken
  <2> QED  BY <2>2
<1>2. CASE req \in Foreign
  BY <1>2, ForeignTaken
<1> QED  BY <1>1, <1>2 DEF Sent

(* A reply keeps the invariant if it says what became of the call.           *)
LEMMA AnswerKeeps ==
  ASSUME IInv, at \in {"sent", "executing"}, at' = "answered", UNCHANGED <<call, req, ran, told>>,
         gave'.err \in Errors, reply'.err \in Errors, (Refused \/ FailedThere \/ Succeeded)'
  PROVE  IInv'
<1>1. Sent' /\ RanOnce'
  BY StillSent
<1>2. told'.err = "none" /\ ~told'.set /\ told'.err \in Errors /\ SuccessMeansExecuted' /\ ResultComesBack'
  BY NotYetTold
<1>3. Stages'
  BY <1>1, <1>2 DEF Stages
<1>4. Errs'
  BY <1>2 DEF Errs
<1> QED  BY <1>1, <1>2, <1>3, <1>4 DEF IInv

(* No program takes the request: nothing was executed.                       *)
LEMMA MethodNotFoundKeeps == IInv /\ MethodNotFound => IInv'
<1> SUFFICES ASSUME IInv, MethodNotFound PROVE IInv'
  OBVIOUS
<1>1. /\ at = "sent" /\ at' = "answered" /\ UNCHANGED <<call, req, ran, gave, told>>
      /\ reply'.err = "methodNotFound"
  BY DEF MethodNotFound, Answer
<1>2. Refused'
  BY <1>1 DEF IInv, Stages, Refused
<1>3. gave'.err \in Errors /\ reply'.err \in Errors
  BY <1>1 DEF IInv, Errs, Errors
<1> QED  BY <1>1, <1>2, <1>3, AnswerKeeps

(* The arguments are refused: nothing was executed, and without an error     *)
(* only where a later argument is missing.                                   *)
LEMMA RefuseParamsKeeps == IInv /\ RefuseParams => IInv'
<1> SUFFICES ASSUME IInv, RefuseParams PROVE IInv'
  OBVIOUS
<1>1. at = "sent" /\ at' = "answered" /\ UNCHANGED <<call, req, ran, gave, told>>
  BY DEF RefuseParams, Refuse, Answer
<1>2. PICK p \in Handler : TakenArgs(p).bad /\ reply'.err = RefusalOf(TakenArgs(p).succeeded)
  BY DEF RefuseParams, Refuse, Answer
<1>3. reply'.err = "invalidParameters" \/ (reply'.err = "none" /\ LaterParamMissing)
  <2>1. Sent
    BY <1>1 DEF IInv, Stages
  <2> QED  BY <1>2, <2>1, TakenOrRefused DEF RefusalOf
<1>4. Refused'
  <2>1. LaterParamMissing' = LaterParamMissing
    BY <1>1, SameRequest
  <2>2. ran' = <<>> /\ ~gave'.ok
    BY <1>1 DEF IInv, Stages
  <2> QED  BY <1>3, <2>1, <2>2 DEF Refused
<1>5. gave'.err \in Errors /\ reply'.err \in Errors
  BY <1>1, <1>3 DEF IInv, Errs, Errors
<1> QED  BY <1>1, <1>4, <1>5, AnswerKeeps

(* The implementation is called, once, with what was taken.                  *)
LEMMA ExecuteKeeps == IInv /\ Execute => IInv'
<1> SUFFICES ASSUME IInv, Execute PROVE IInv'
  OBVIOUS
<1>1. at = "sent" /\ at' = "executing" /\ UNCHANGED <<call, req, gave, reply, told>>
  BY DEF Execute
<1>2. PICK p \in Handler :
        /\ ~TakenArgs(p).bad
        /\ ran' = Append(ran, [program |-> p, method |-> TheMethod(p).name, args |-> TakenArgs(p).vals])
  BY DEF Execute, Runs
<1>3. ran' = <<[program |-> p, method |-> TheMethod(p).name, args |-> TakenArgs(p).vals]>>
  <2>1. ran = <<>>
    BY <1>1 DEF IInv, Stages
  <2> QED  BY <1>2, <2>1
<1>4. ran' # <<>>
  BY <1>3
<1>5. RanOnce'
  <2>1. p \in Handler' /\ TakenArgs(p)' = TakenArgs(p) /\ TheMethod(p)' = TheMethod(p)
    BY <1>1, SameRequest
  <2>2. CalledWith(p)'
    BY <1>2, <1>3, <2>1 DEF CalledWith
  <2> QED  BY <2>1, <2>2 DEF RanOnce
<1>6. Sent'
  BY <1>1, StillSent
<1>7. Stages'
  BY <1>1, <1>4, <1>6 DEF IInv, Stages
<1>8. Errs'
  BY <1>1 DEF IInv, Errs
<1> QED  BY <1>1, <1>5, <1>7, <1>8, NotYetTold DEF IInv

(* The implementation answers.                                               *)
LEMMA ReturnsKeeps == IInv /\ (Returns \/ ReturnsOwnResult) => IInv'
<1> SUFFICES ASSUME IInv, Returns \/ ReturnsOwnResult PROVE IInv'
  OBVIOUS
<1>1. at = "executing" /\ at' = "answered" /\ UNCHANGED <<call, req, ran, told>> /\ ran # <<>>
  BY DEF Returns, ReturnsOwnResult, Answer, IInv, Stages
<1>2. reply'.err = "none" /\ gave'.ok /\ gave'.err = "none"
  BY DEF Returns, ReturnsOwnResult, Answer
<1>3. Running' = Running
  BY <1>1, SameRequest
<1>4. \/ IsVoid(Running.method) /\ gave'.value = Unset
      \/ gave'.value = Unset /\ reply'.result \in Own
      \/ /\ ~IsVoid(Running.method) /\ gave'.value \in Values(Meant(Running.scope, Running.method.ret))
         /\ reply'.result = serialise[Depth][Synth(Running.scope, Running.method.ret)][gave'.value]
  <2>1. CASE Returns /\ IsVoid(Running.method)
    BY <2>1 DEF Returns
  <2>2. CASE Returns /\ ~IsVoid(Running.method)
    <3>1. PICK v \in Values(Meant(Running.scope, Running.method.ret)) :
            /\ Answer("none", serialise[Depth][Synth(Running.scope, Running.method.ret)][v])
            /\ gave' = [ok |-> TRUE, err |-> "none", value |-> v]
      BY <2>2 DEF Returns
    <3>2. gave'.value = v
      BY <3>1
    <3>3. reply'.result = serialise[Depth][Synth(Running.scope, Running.method.ret)][v]
      <4> DEFINE u == serialise[Depth][Synth(Running.scope, Running.method.ret)][v]
      <4>1. Answer("none", u)
        BY <3>1
      <4> HIDE DEF u
      <4>2. reply'.result = u
        BY <4>1 DEF Answer
      <4> QED  BY <4>2 DEF u
    <3> QED  BY <2>2, <3>1, <3>2, <3>3
  <2>3. CASE ReturnsOwnResult
    BY <2>3 DEF ReturnsOwnResult, Answer
  <2> QED  BY <2>1, <2>2, <2>3
<1>5. Succeeded'
  BY <1>1, <1>2, <1>3, <1>4 DEF Succeeded
<1>6. gave'.err \in Errors /\ reply'.err \in Errors
  BY <1>2 DEF Errors
<1> QED  BY <1>1, <1>5, <1>6, AnswerKeeps

(* The implementation returns false.                                         *)
LEMMA FailsKeeps == IInv /\ (\E err \in {"error", "success"} : Fails(err)) => IInv'
<1> SUFFICES ASSUME IInv, NEW err \in {"error", "success"}, Fails(err) PROVE IInv'
  OBVIOUS
<1>1. at = "executing" /\ at' = "answered" /\ UNCHANGED <<call, req, ran, told>> /\ ran # <<>>
  BY DEF Fails, Answer, IInv, Stages
<1>2. reply'.err = err /\ ~gave'.ok /\ gave'.err = err
  BY DEF Fails, Answer
<1>3. FailedThere'
  BY <1>1, <1>2 DEF FailedThere
<1>4. gave'.err \in Errors /\ reply'.err \in Errors
  BY <1>2 DEF Errors
<1> QED  BY <1>1, <1>3, <1>4, AnswerKeeps

(* A caller is told of an error that it has not got from a reply, or of what *)
(* the reply says.                                                           *)
LEMMA ToldKeeps ==
  ASSUME IInv, at # "idle", at' = "told", UNCHANGED <<call, req, ran, gave, reply>>, told'.err \in Errors,
         told'.err = "success" => ErrorOf = "success" /\ at = "answered", ResultComesBack'
  PROVE  IInv'
<1>1. Sent' /\ RanOnce'
  BY StillSent
<1>2. Stages'
  BY <1>1 DEF Stages
<1>3. SuccessMeansExecuted'
  <2> SUFFICES ASSUME told'.err = "success" PROVE ran' # <<>> \/ LaterParamMissing'
    BY DEF SuccessMeansExecuted
  <2>1. reply.err \in {"none", "success"}
    BY DEF ErrorOf
  <2>2. ran # <<>> \/ LaterParamMissing
    BY <2>1 DEF IInv, Stages, Refused, FailedThere, Succeeded
  <2>3. LaterParamMissing' = LaterParamMissing
    BY SameRequest
  <2> QED  BY <2>2, <2>3
<1>4. Errs'
  BY DEF IInv, Errs
<1> QED  BY <1>1, <1>2, <1>3, <1>4 DEF IInv

(* Who is told nothing but an error of its own, or of a reply without a      *)
(* result to take, gets no value.                                            *)
LEMMA ErrorAnswered ==
  ASSUME IInv, at = "answered"
  PROVE  /\ ErrorOf \in Errors /\ reply.err \in Errors
         /\ gave.ok => reply.err = "none"
<1>1. reply.err \in Errors
  BY DEF IInv, Errs
<1>2. gave.ok => reply.err = "none"
  BY DEF IInv, Stages, Refused, FailedThere, Succeeded
<1> QED  BY <1>1, <1>2 DEF ErrorOf, Errors

(* Another client takes the reply as it is.                                  *)
LEMMA ForeignReturnsKeeps == IInv /\ ForeignReturns => IInv'
<1> SUFFICES ASSUME IInv, ForeignReturns PROVE IInv'
  OBVIOUS
<1>1. /\ at = "answered" /\ at' = "told" /\ UNCHANGED <<call, req, ran, gave, reply>> /\ call.kind = "foreign"
      /\ told'.err = ErrorOf /\ ~told'.set
  BY DEF ForeignReturns, Told
<1>2. ResultComesBack'
  BY <1>1 DEF ResultComesBack
<1> QED  BY <1>1, <1>2, ErrorAnswered, ToldKeeps

(* The wait for the reply ends, wherever the call is: no success, no value.  *)
LEMMA WaitTimesOutKeeps == IInv /\ WaitTimesOut => IInv'
<1> SUFFICES ASSUME IInv, WaitTimesOut PROVE IInv'
  OBVIOUS
<1>1. /\ at # "idle" /\ at' = "told" /\ UNCHANGED <<call, req, ran, gave, reply>> /\ call.kind = "sync"
      /\ told'.err = "replyTimeout" /\ ~told'.set
  BY DEF WaitTimesOut, Told
<1>2. ResultComesBack'
  BY <1>1 DEF ResultComesBack
<1>3. told'.err \in Errors /\ told'.err # "success"
  BY <1>1 DEF Errors
<1> QED  BY <1>1, <1>2, <1>3, ToldKeeps

(* A caller that is not another client is a stub, and the result it takes is *)
(* what is left of the one that was returned.                                *)
LEMMA StubReturned ==
  ASSUME IInv, at = "answered", call.kind # "foreign", HasResult, NEW suc \in BOOLEAN
  PROVE  /\ gave.ok /\ Returned(suc).suc \in BOOLEAN
         /\ Returned(suc).suc =>
              /\ Returned(suc).out \in Values(Results)
              /\ gave.value # Unset => Returned(suc).out = Carried(Results, gave.value)
<1>1. PICK kind, p, v, m, args : StubSent(kind, p, v, m, args)
  BY DEF IInv, Stages, Sent
<1>2. RanOnce /\ (Refused \/ FailedThere \/ Succeeded)
  BY DEF IInv, Stages
<1> QED  BY <1>1, <1>2, ReturnedRight

(* The method a caller has called stays while the call does.                 *)
LEMMA SameCall ==
  ASSUME call' = call
  PROVE  CalledMethod' = CalledMethod /\ Results' = Results
  BY DEF Results, CalledMethod, SelectInSeq

(* The stub that waits returns what it has read.                             *)
LEMMA SyncReturnsKeeps == IInv /\ SyncReturns => IInv'
<1> SUFFICES ASSUME IInv, SyncReturns PROVE IInv'
  OBVIOUS
<1> DEFINE got == HasResult /\ Returned(TRUE).suc
           value == IF got THEN Returned(TRUE).out ELSE Unset
<1>1. /\ at = "answered" /\ call.kind = "sync" /\ UNCHANGED <<call, req, ran, gave, reply>>
      /\ IF HasResult THEN ToldSync(Returned(TRUE)) ELSE Told(ErrorOf, FALSE, Unset)
  BY DEF SyncReturns
<1>2. at' = "told" /\ told'.err = ErrorOf /\ told'.set = got /\ told'.value = value
  <2>1. CASE HasResult
    <3> DEFINE back == Returned(TRUE)
    <3>1. back.suc \in BOOLEAN
      BY <1>1, <2>1, StubReturned
    <3>2. got = back.suc /\ value = IF back.suc THEN back.out ELSE Unset
      BY <2>1, <3>1
    <3>3. ToldSync(back)
      BY <1>1, <2>1
    <3> HIDE DEF got, value, back
    <3> QED  BY <3>2, <3>3 DEF ToldSync, Told
  <2>2. CASE ~HasResult
    <3>1. got = FALSE /\ value = Unset
      BY <2>2
    <3>2. Told(ErrorOf, FALSE, Unset)
      BY <1>1, <2>2
    <3> HIDE DEF got, value
    <3> QED  BY <3>1, <3>2 DEF Told
  <2> QED  BY <2>1, <2>2
<1>3. got => /\ gave.ok /\ value \in Values(Results)
             /\ gave.value # Unset => value = Carried(Results, gave.value)
  <2> SUFFICES ASSUME HasResult, Returned(TRUE).suc
               PROVE  /\ gave.ok /\ Returned(TRUE).out \in Values(Results)
                      /\ gave.value # Unset => Returned(TRUE).out = Carried(Results, gave.value)
    OBVIOUS
  <2> QED  BY <1>1, StubReturned
<1> HIDE DEF got, value
<1>4. ResultComesBack'
  BY <1>1, <1>2, <1>3, SameCall DEF ResultComesBack
<1> QED  BY <1>1, <1>2, <1>4, ErrorAnswered, ToldKeeps

(* The delegate is told; if the result cannot be read, of that.              *)
LEMMA DidReplyKeeps == IInv /\ DidReply => IInv'
<1> SUFFICES ASSUME IInv, DidReply PROVE IInv'
  OBVIOUS
<1>1. at = "answered" /\ call.kind = "async" /\ at' = "told" /\ UNCHANGED <<call, req, ran, gave, reply>>
  BY DEF DidReply, ToldAsync, Told
<1>2. ErrorOf \in Errors /\ reply.err \in Errors /\ (gave.ok => reply.err = "none")
  BY <1>1, ErrorAnswered
<1>3. CalledMethod' = CalledMethod /\ Results' = Results
  BY <1>1, SameCall
<1>4. CASE ~HasResult
  <2>1. told'.err = ErrorOf /\ ~told'.set
    BY <1>4 DEF DidReply, Told
  <2>2. gave.ok => IsVoid(CalledMethod)
    BY <1>2, <1>4 DEF HasResult
  <2>3. ResultComesBack'
    BY <1>1, <1>3, <2>1, <2>2 DEF ResultComesBack
  <2> QED  BY <1>1, <1>2, <2>1, <2>3, ToldKeeps
<1>5. CASE HasResult
  <2>1. PICK suc \in BOOLEAN :
          Told(LocalFailure(Returned(suc).suc), Returned(suc).suc, IF Returned(suc).suc THEN Returned(suc).out ELSE Unset)
    BY <1>5 DEF DidReply, ToldAsync
  <2> DEFINE got == Returned(suc)
  <2>2. /\ gave.ok /\ got.suc \in BOOLEAN
        /\ got.suc => got.out \in Values(Results) /\ (gave.value # Unset => got.out = Carried(Results, gave.value))
    BY <1>1, <1>5, StubReturned
  <2> HIDE DEF got
  <2>3. told'.err = LocalFailure(got.suc) /\ told'.set = got.suc /\ (got.suc => told'.value = got.out)
    BY <2>1 DEF Told, got
  <2>4. /\ told'.err \in Errors
        /\ told'.err = "success" => got.suc /\ ErrorOf = "success"
    BY <1>2, <2>2, <2>3 DEF LocalFailure, Errors
  <2>5. ResultComesBack'
    BY <1>1, <1>3, <2>2, <2>3, <2>4 DEF ResultComesBack
  <2> QED  BY <1>1, <2>4, <2>5, ToldKeeps
<1> QED  BY <1>4, <1>5

-----------------------------------------------------------------------------
(* Before the call there is nothing to say of it.                            *)
LEMMA InitStarts == Init => IInv
<1> SUFFICES ASSUME Init PROVE IInv
  OBVIOUS
<1>1. at = "idle" /\ ran = <<>> /\ ~gave.ok /\ ~told.set /\ gave.err = "none" /\ reply.err = "none" /\ told.err = "none"
  <2>1. at = "idle" /\ ran = <<>>
    BY Zenon DEF Init
  <2>2. gave = [ok |-> FALSE, err |-> "none", value |-> Unset] /\ told = [err |-> "none", set |-> FALSE, value |-> Unset]
    BY Zenon DEF Init
  <2>3. reply = [err |-> "none", result |-> UclNull]
    BY Zenon DEF Init
  <2> QED  BY <2>1, <2>2, <2>3
<1>2. Errs
  BY <1>1 DEF Errs, Errors
<1>3. Stages /\ RanOnce
  BY <1>1 DEF Stages, RanOnce
<1>4. SuccessMeansExecuted /\ ResultComesBack
  BY <1>1 DEF SuccessMeansExecuted, ResultComesBack
<1> QED  BY <1>2, <1>3, <1>4 DEF IInv

(* Each action keeps the invariant.                                          *)
LEMMA StepKeeps == IInv /\ [Next]_vars => IInv'
<1>1. IInv /\ UNCHANGED vars => IInv'
  <2> SUFFICES ASSUME IInv, UNCHANGED vars PROVE IInv'
    OBVIOUS
  <2>1. UNCHANGED <<at, call, req, ran, gave, reply, told>>
    BY DEF vars
  <2>2. /\ Handler' = Handler /\ Running' = Running /\ LaterParamMissing' = LaterParamMissing
        /\ CalledMethod' = CalledMethod /\ Results' = Results
    BY <2>1, SameRequest, SameCall
  <2>3. at # "idle" => Sent'
    BY <2>1, StillSent
  <2>4. RanOnce'
    BY <2>1, StillSent DEF IInv, Stages, RanOnce
  <2>5. Refused' = Refused /\ FailedThere' = FailedThere /\ Succeeded' = Succeeded
    BY <2>1, <2>2 DEF Refused, FailedThere, Succeeded
  <2>6. Stages'
    BY <2>1, <2>3, <2>5 DEF IInv, Stages
  <2>7. Errs' /\ SuccessMeansExecuted' /\ ResultComesBack'
    BY <2>1, <2>2 DEF IInv, Errs, SuccessMeansExecuted, ResultComesBack
  <2> QED  BY <2>4, <2>6, <2>7 DEF IInv
<1> QED  BY <1>1, StubKeeps, ForeignCallKeeps, MethodNotFoundKeeps, RefuseParamsKeeps, ExecuteKeeps, ReturnsKeeps,
            FailsKeeps, SyncReturnsKeeps, DidReplyKeeps, ForeignReturnsKeeps, WaitTimesOutKeeps DEF Next

(* The inductive invariant.                                                  *)
THEOREM Invariant == Spec => []IInv
  BY InitStarts, StepKeeps, PTL DEF Spec

(* What an implementation was called with: as many values as it has          *)
(* arguments, each of the type its declaration means, and what is left of a  *)
(* stub's own.                                                               *)
LEMMA CalledRight ==
  ASSUME IInv, ran # <<>>
  PROVE  /\ ArgumentsArrive /\ Len(ran) = 1
         /\ Len(ran[1].args) = Len(Running.method.args)
         /\ \A i \in DOMAIN Running.method.args :
              ran[1].args[i] \in Values(Meant(Running.scope, Running.method.args[i].type))
<1>1. PICK p \in Handler : CalledWith(p)
  BY DEF IInv, RanOnce
<1>2. Len(ran) = 1 /\ DOMAIN ran = {1} /\ ran[1] = [program |-> p, method |-> TheMethod(p).name, args |-> TakenArgs(p).vals]
  BY <1>1 DEF CalledWith
<1>3. ran[1].args = TakenArgs(p).vals /\ ~TakenArgs(p).bad
  BY <1>1, <1>2 DEF CalledWith
<1>4. Running.scope = Programs[p].scope /\ Running.method = TheMethod(p)
  BY HandlerMethod
<1>5. at # "idle" /\ Sent
  BY DEF IInv, Stages
<1>6. CASE \E kind, q, v, m, args : StubSent(kind, q, v, m, args)
  <2>1. PICK kind, q, v, m, args : StubSent(kind, q, v, m, args)
    BY <1>6
  <2>2. p = q /\ TheMethod(p) = MethodAt(q, v, m)
    BY <2>1, StubHandler
  <2> DEFINE decls == MethodAt(q, v, m).args
             ty(i) == Meant(Programs[q].scope, decls[i].type)
             left == [i \in DOMAIN args |-> Carried(ty(i), args[i])]
  <2>3. /\ TakenArgs(p).vals = left /\ Len(args) = Len(decls) /\ DOMAIN args = DOMAIN decls
        /\ \A i \in DOMAIN args : Carried(ty(i), args[i]) \in Values(ty(i))
    BY <1>3, <2>1, StubTaken
  <2>7. Len(left) = Len(decls) /\ \A i \in DOMAIN decls : left[i] \in Values(ty(i))
    <3>1. Len(decls) \in Nat /\ DOMAIN decls = 1..Len(decls)
      <4>1. q \in DOMAIN Programs /\ v \in DOMAIN Versions(q) /\ m \in DOMAIN Versions(q)[v].methods
        BY <2>1 DEF StubSent
      <4> QED  BY <4>1, MethodOf, BlockOf
    <3> HIDE DEF decls, ty
    <3> QED  BY <2>3, <3>1
  <2>4. call.program = q /\ call.method = MethodAt(q, v, m).name /\ call.args = args
    <3> DEFINE name == MethodAt(q, v, m).name
    <3>1. call = [kind |-> kind, program |-> q, version |-> v, method |-> name, args |-> args]
      BY <2>1 DEF StubSent
    <3> HIDE DEF name
    <3>2. call.program = q /\ call.method = name /\ call.args = args
      BY <3>1
    <3> QED  BY <3>2 DEF name
  <2>8. CalledMethod = MethodAt(q, v, m)
    BY <2>1, StubMethod
  <2>5. ran[1].program = call.program /\ ran[1].method = call.method /\ ran[1].args = left
    <3> HIDE DEF left
    <3> QED  BY <1>2, <2>2, <2>3, <2>4
  <2>9. left = [j \in DOMAIN call.args |->
                  Carried(Meant(Programs[call.program].scope, CalledMethod.args[j].type), call.args[j])]
    BY <2>4, <2>8
  <2> HIDE DEF left
  <2>6. ArgumentsArrive
    BY <1>2, <2>5, <2>9, Zenon DEF ArgumentsArrive
  <2> QED  BY <1>2, <1>3, <1>4, <2>2, <2>3, <2>6, <2>7
<1>7. CASE call.kind = "foreign" /\ req \in Foreign
  <2>1. /\ Len(TakenArgs(p).vals) = Len(TheMethod(p).args)
        /\ \A i \in DOMAIN TheMethod(p).args :
             TakenArgs(p).vals[i] \in Values(Meant(Programs[p].scope, TheMethod(p).args[i].type))
    BY <1>3, <1>7, ForeignTaken
  <2>2. ArgumentsArrive
    BY <1>7 DEF ArgumentsArrive
  <2> QED  BY <1>2, <1>3, <1>4, <2>1, <2>2
<1> QED  BY <1>5, <1>6, <1>7 DEF Sent

(* At most one implementation is called for a request, with as many values   *)
(* as its method has arguments, and the errors are those WSRPC.hh knows.     *)
THEOREM TypesStay == Spec => []TypeOK
<1>1. IInv => TypeOK
  <2> SUFFICES ASSUME IInv PROVE TypeOK
    OBVIOUS
  <2>1. at \in {"idle", "sent", "executing", "answered", "told"} /\ {gave.err, reply.err, told.err} \subseteq Errors
    BY DEF IInv, Errs
  <2>2. at = "executing" => ran # <<>>
    BY DEF IInv, Stages
  <2>3. Len(ran) \in 0..1
    <3>1. CASE ran = <<>>
      BY <3>1
    <3>2. CASE ran # <<>>
      BY <3>2, CalledRight
    <3> QED  BY <3>1, <3>2
  <2>4. at = "executing" => Len(ran[1].args) = Len(Running.method.args)
    BY <2>2, CalledRight
  <2> QED  BY <2>1, <2>2, <2>3, <2>4 DEF TypeOK
<1> QED  BY <1>1, Invariant, PTL

(* An implementation is called for the method of the stub that sent the      *)
(* request, and with its arguments: what serialise() writes, deserialise()   *)
(* reads whole but for what follows a NUL in a string.  Of the interface it  *)
(* is assumed that no two methods have one name on the wire.                 *)
THEOREM ArgumentsAlwaysArrive == Spec => []ArgumentsArrive
<1>1. IInv => ArgumentsArrive
  <2> SUFFICES ASSUME IInv PROVE ArgumentsArrive
    OBVIOUS
  <2>1. CASE ran = <<>>
    BY <2>1 DEF ArgumentsArrive
  <2>2. CASE ran # <<>>
    BY <2>2, CalledRight
  <2> QED  BY <2>1, <2>2
<1> QED  BY <1>1, Invariant, PTL

(* Whatever a client that was not generated sends, handleReq calls an        *)
(* implementation only with values of the types its declaration means.       *)
THEOREM ArgumentsAlwaysConform == Spec => []ArgumentsConform
<1>1. IInv => ArgumentsConform
  <2> SUFFICES ASSUME IInv, at = "executing" PROVE ArgumentsConform
    BY DEF ArgumentsConform
  <2>1. ran # <<>>
    BY DEF IInv, Stages
  <2> QED  BY <2>1, CalledRight DEF ArgumentsConform
<1> QED  BY <1>1, Invariant, PTL

(* A caller that is told of success had its call executed, or sent an        *)
(* argument list in which one after the first is missing.                    *)
THEOREM SuccessAlwaysExecuted == Spec => []SuccessMeansExecuted
<1>1. IInv => SuccessMeansExecuted
  BY DEF IInv
<1> QED  BY <1>1, Invariant, PTL

(* A value that a stub or a delegate is given is of the type declared and    *)
(* what is left of the one the implementation returned (strings end at a     *)
(* NUL), and a delegate that is told of success is given one.                *)
THEOREM ResultAlwaysComesBack == Spec => []ResultComesBack
<1>1. IInv => ResultComesBack
  BY DEF IInv
<1> QED  BY <1>1, Invariant, PTL
=============================================================================
