------------------------ MODULE EventLoopKQueueProofs ------------------------
(* Proofs about the kqueue() driver, for any descriptors, signals and number *)
(* of timers.                                                                *)
EXTENDS EventLoopKQueue, SequenceTheorems, TLAPS

Once(s) == \A a, b \in 1..Len(s) : s[a] = s[b] => a = b

(* What makes SourcesMatchFilters inductive.  A list holds a descriptor once *)
(* and the queue a filter once, so that erasing the first is enough.  Timers *)
(* have the ids given out so far; one that was reported has no filter, and   *)
(* keeps its source until its handler returns.                               *)
Reported ==
  /\ Once(fdSources) /\ Once(active)
  /\ \A t \in Timers : Contains(timerSources, t) => t <= nTimers
  /\ \A t \in Timers : cb = Timer(t) => t <= nTimers /\ Timer(t) \notin filters
  /\ \A t \in Timers : told[t] > 0 => told[t] = 1 /\ t <= nTimers /\ Timer(t) \notin filters

IInv == TypeOK /\ SourcesMatchFilters /\ Reported

-----------------------------------------------------------------------------
(* Lists and what they contain.                                              *)

(* emplace_back puts one element at the end.                                 *)
LEMMA AppendContains ==
  ASSUME NEW S, NEW s \in Seq(S), NEW e \in S
  PROVE  /\ Append(s, e) \in Seq(S)
         /\ \A x : Contains(Append(s, e), x) <=> Contains(s, x) \/ x = e
         /\ Once(s) /\ ~Contains(s, e) => Once(Append(s, e))
<1> DEFINE t == Append(s, e)
<1>1. /\ t \in Seq(S) /\ Len(s) \in Nat /\ Len(t) = Len(s) + 1 /\ t[Len(s) + 1] = e
      /\ \A k \in 1..Len(s) : t[k] = s[k]
  OBVIOUS
<1> HIDE DEF t
<1>2. \A k \in 1..Len(t) : k \in 1..Len(s) \/ k = Len(s) + 1
  BY <1>1
<1>3. Len(s) + 1 \in 1..Len(t) /\ \A k \in 1..Len(s) : k \in 1..Len(t)
  BY <1>1
<1>4. \A x : Contains(t, x) <=> Contains(s, x) \/ x = e
  BY <1>1, <1>2, <1>3 DEF Contains
<1>5. Once(s) /\ ~Contains(s, e) => Once(t)
  BY <1>1, <1>2 DEF Once, Contains
<1> QED  BY <1>1, <1>4, <1>5 DEF t

(* A list is over any set that has its elements.                             *)
LEMMA SeqOver ==
  ASSUME NEW S, NEW s \in Seq(S), NEW T, \A x : Contains(s, x) => x \in T
  PROVE  s \in Seq(T)
<1>1. Len(s) \in Nat /\ DOMAIN s = 1..Len(s) /\ s = [k \in 1..Len(s) |-> s[k]]
  OBVIOUS
<1>2. \A k \in 1..Len(s) : s[k] \in T
  BY DEF Contains
<1>3. s \in [1..Len(s) -> T]
  BY <1>1, <1>2
<1> QED  BY <1>1, <1>3, SeqDef

(* RemoveAt leaves out one element and closes the gap.                       *)
LEMMA RemoveAtProperties ==
  ASSUME NEW S, NEW s \in Seq(S), NEW p \in 1..Len(s)
  PROVE  /\ RemoveAt(s, p) \in Seq(S)
         /\ Len(RemoveAt(s, p)) = Len(s) - 1
         /\ \A j \in 1..(Len(s) - 1) : RemoveAt(s, p)[j] = IF j < p THEN s[j] ELSE s[j + 1]
<1> DEFINE a == SubSeq(s, 1, p - 1)
           b == SubSeq(s, p + 1, Len(s))
<1>1. /\ a \in Seq(S) /\ Len(a) = p - 1
      /\ \A j \in 1..(p - 1) : a[j] = s[j]
  BY SubSeqProperties
<1>2. /\ b \in Seq(S) /\ Len(b) = Len(s) - p
      /\ \A j \in 1..(Len(s) - p) : b[j] = s[p + j]
  BY SubSeqProperties
<1>3. RemoveAt(s, p) = a \o b
  BY DEF RemoveAt
<1>4. a \in Seq(S) /\ b \in Seq(S)
  BY <1>1, <1>2
<1> HIDE DEF a, b
<1>5. /\ a \o b \in Seq(S)
      /\ Len(a \o b) = Len(a) + Len(b)
      /\ \A j \in 1..(Len(a) + Len(b)) : (a \o b)[j] = IF j <= Len(a) THEN a[j] ELSE b[j - Len(a)]
  BY <1>4
<1> QED  BY <1>1, <1>2, <1>3, <1>5

(* Erasing the first of a kind is enough where there is but one.             *)
LEMMA RemoveFirstContains ==
  ASSUME NEW S, NEW s \in Seq(S), Once(s), NEW e
  PROVE  /\ RemoveFirst(s, e) \in Seq(S) /\ Once(RemoveFirst(s, e))
         /\ \A x : Contains(RemoveFirst(s, e), x) <=> Contains(s, x) /\ x # e
<1>1. CASE ~\E k \in 1..Len(s) : s[k] = e
  <2>1. RemoveFirst(s, e) = s
    BY <1>1 DEF RemoveFirst
  <2> QED  BY <1>1, <2>1 DEF Contains
<1>2. ASSUME NEW p \in 1..Len(s), s[p] = e
      PROVE  /\ RemoveFirst(s, e) \in Seq(S) /\ Once(RemoveFirst(s, e))
             /\ \A x : Contains(RemoveFirst(s, e), x) <=> Contains(s, x) /\ x # e
  <2> DEFINE t == RemoveAt(s, p)
             n == Len(s)
  <2>1. {k \in 1..Len(s) : s[k] = e} = {p}
    BY <1>2 DEF Once
  <2>2. Min({p}) = p
    BY DEF Min
  <2>3. SelectInSeq(s, LAMBDA v : v = e) = p
    BY <2>1, <2>2 DEF SelectInSeq
  <2>4. RemoveFirst(s, e) = t
    BY <1>2, <2>3 DEF RemoveFirst
  <2>5. /\ t \in Seq(S) /\ n \in Nat /\ Len(t) = n - 1
        /\ \A k \in 1..(n - 1) : t[k] = IF k < p THEN s[k] ELSE s[k + 1]
    <3>1. n \in Nat
      OBVIOUS
    <3>2. /\ t \in Seq(S) /\ Len(t) = Len(s) - 1
          /\ \A k \in 1..(Len(s) - 1) : t[k] = IF k < p THEN s[k] ELSE s[k + 1]
      BY RemoveAtProperties
    <3> QED  BY <3>1, <3>2
  <2> HIDE DEF t
  <2> DEFINE Old(k) == IF k < p THEN k ELSE k + 1
  <2>6. \A k \in 1..Len(t) : Old(k) \in 1..n /\ Old(k) # p /\ t[k] = s[Old(k)]
    BY <2>5
  <2>7. \A k, l \in 1..Len(t) : Old(k) = Old(l) => k = l
    BY <2>5
  <2>8. \A k \in 1..n : k # p => \E l \in 1..Len(t) : Old(l) = k
    <3> SUFFICES ASSUME NEW k \in 1..n, k # p PROVE \E l \in 1..Len(t) : Old(l) = k
      OBVIOUS
    <3>1. CASE k < p
      <4>1. k \in 1..Len(t) /\ Old(k) = k
        BY <2>5, <3>1
      <4> QED  BY <4>1
    <3>2. CASE k > p
      <4>1. k - 1 \in 1..Len(t) /\ Old(k - 1) = k
        BY <2>5, <3>2
      <4> QED  BY <4>1
    <3> QED  BY <2>5, <3>1, <3>2
  <2> HIDE DEF Old, n
  <2>9. Once(t)
    <3>1. \A k, l \in 1..n : s[k] = s[l] => k = l
      BY DEF Once, n
    <3> QED  BY <2>6, <2>7, <3>1 DEF Once
  <2>10. \A k \in 1..n : s[k] = e <=> k = p
    BY <1>2 DEF Once, n
  <2>11. \A x : Contains(t, x) => Contains(s, x) /\ x # e
    BY <2>6, <2>10 DEF Contains, n
  <2>12. \A x : Contains(s, x) /\ x # e => Contains(t, x)
    <3> SUFFICES ASSUME NEW k \in 1..n, s[k] # e PROVE \E l \in 1..Len(t) : t[l] = s[k]
      BY DEF Contains, n
    <3>1. k # p
      BY <2>10
    <3> QED  BY <2>6, <2>8, <3>1
  <2> QED  BY <2>4, <2>5, <2>9, <2>11, <2>12
<1> QED  BY <1>1, <1>2

(* What is behind a place in the queue.                                      *)
LEMMA SuffixContains ==
  ASSUME NEW S, NEW s \in Seq(S), NEW p \in 1..Len(s)
  PROVE  LET t == SubSeq(s, p + 1, Len(s))
         IN  /\ t \in Seq(S) /\ (Once(s) => Once(t))
             /\ \A x : Contains(t, x) <=> \E k \in (p + 1)..Len(s) : s[k] = x
<1> DEFINE t == SubSeq(s, p + 1, Len(s))
           n == Len(s)
<1>1. /\ t \in Seq(S) /\ Len(t) = n - p /\ n \in Nat
      /\ \A k \in 1..(n - p) : t[k] = s[p + k]
  BY SubSeqProperties
<1> HIDE DEF t, n
<1>2. p \in Nat /\ p >= 1 /\ p <= n
  BY <1>1 DEF n
<1>3. \A k \in 1..Len(t) : p + k \in (p + 1)..n /\ p + k \in 1..n /\ t[k] = s[p + k]
  BY <1>1, <1>2
<1>4. \A k \in (p + 1)..n : k - p \in 1..Len(t) /\ p + (k - p) = k
  BY <1>1, <1>2
<1>5. \A x : Contains(t, x) <=> \E k \in (p + 1)..n : s[k] = x
  <2> TAKE x
  <2>1. ASSUME NEW k \in (p + 1)..n, s[k] = x PROVE Contains(t, x)
    <3>1. k - p \in 1..Len(t) /\ t[k - p] = x
      BY <1>3, <1>4, <2>1
    <3> QED  BY <3>1 DEF Contains
  <2> QED  BY <1>3, <2>1 DEF Contains
<1>6. Once(s) => Once(t)
  <2> SUFFICES ASSUME Once(s), NEW k \in 1..Len(t), NEW l \in 1..Len(t), t[k] = t[l] PROVE k = l
    BY DEF Once
  <2>1. p + k = p + l
    BY <1>3 DEF Once, n
  <2> QED  BY <1>1, <1>2, <2>1
<1> QED  BY <1>1, <1>5, <1>6 DEF t, n

-----------------------------------------------------------------------------
(* The kernel queue.                                                         *)

(* Filters of different kinds are different, and so are those of different   *)
(* descriptors, signals and timers.                                          *)
LEMMA FiltersDiffer ==
  /\ \A a, b : /\ Read(a) # Write(b) /\ Read(a) # Sig(b) /\ Read(a) # Timer(b)
               /\ Write(a) # Sig(b) /\ Write(a) # Timer(b) /\ Sig(a) # Timer(b)
               /\ Read(a) = Read(b) => a = b
               /\ Write(a) = Write(b) => a = b
               /\ Sig(a) = Sig(b) => a = b
               /\ Timer(a) = Timer(b) => a = b
  /\ \A a : /\ Timer(a) # None /\ Timer(a) # Crashed
            /\ Timer(a).filter = "timer" /\ Sig(a).filter = "signal"
            /\ Read(a).filter = "read" /\ Write(a).filter = "write"
            /\ Timer(a).ident = a
<1>1. \A a : /\ Timer(a).filter = "timer" /\ Sig(a).filter = "signal"
             /\ Read(a).filter = "read" /\ Write(a).filter = "write"
             /\ Timer(a).ident = a /\ Sig(a).ident = a /\ Read(a).ident = a /\ Write(a).ident = a
  BY DEF Timer, Sig, Read, Write
<1>2. None.filter = "none" /\ Crashed.filter = "crashed"
  BY DEF None, Crashed
<1>3. "timer" # "signal" /\ "timer" # "read" /\ "timer" # "write" /\ "signal" # "read" /\ "signal" # "write"
      /\ "read" # "write" /\ "none" # "timer" /\ "crashed" # "timer"
  OBVIOUS
<1>4. \A a, b : /\ Read(a) # Write(b) /\ Read(a) # Sig(b) /\ Read(a) # Timer(b)
                /\ Write(a) # Sig(b) /\ Write(a) # Timer(b) /\ Sig(a) # Timer(b)
  BY <1>1, <1>3
<1>5. \A a, b : /\ Read(a) = Read(b) => a = b
                /\ Write(a) = Write(b) => a = b
                /\ Sig(a) = Sig(b) => a = b
                /\ Timer(a) = Timer(b) => a = b
  BY <1>1
<1> QED  BY <1>1, <1>2, <1>3, <1>4, <1>5

(* A filter that becomes active is queued once.                              *)
LEMMA QueuedContains ==
  ASSUME NEW S, NEW q \in Seq(S), Once(q), NEW k \in S
  PROVE  /\ Queued(q, k) \in Seq(S) /\ Once(Queued(q, k))
         /\ \A x : Contains(Queued(q, k), x) <=> Contains(q, x) \/ x = k
<1>1. CASE Contains(q, k)
  BY <1>1 DEF Queued
<1>2. CASE ~Contains(q, k)
  BY <1>2, AppendContains DEF Queued
<1> QED  BY <1>1, <1>2

(* EV_ADD queues a filter that is ready; signals and timers never are at     *)
(* once.                                                                     *)
LEMMA ActivatedContains ==
  ASSUME NEW S, NEW q \in Seq(S), Once(q), NEW k \in S
  PROVE  /\ Activated(q, k) \in Seq(S) /\ Once(Activated(q, k))
         /\ \A x : x # k => (Contains(Activated(q, k), x) <=> Contains(q, x))
         /\ k.filter \in {"signal", "timer"} => Activated(q, k) = q
<1>1. CASE Ready(k)
  BY <1>1, QueuedContains DEF Activated, Ready
<1>2. CASE ~Ready(k)
  BY <1>2 DEF Activated
<1> QED  BY <1>1, <1>2

-----------------------------------------------------------------------------
(* What a step may do to the timers, seen from TimerService.                 *)
Fates == [t \in Timers |-> TimerState(t)]

(* The step leaves every timer as it was.                                    *)
TimersRest ==
  /\ UNCHANGED <<told, nTimers>>
  /\ \A t \in Timers : /\ Timer(t) \in filters' <=> Timer(t) \in filters
                       /\ Contains(active', Timer(t)) <=> Contains(active, Timer(t))

(* Such a step is a stutter of TimerService.                                 *)
LEMMA RestIsStutter == TimersRest => Fates' = Fates
<1> SUFFICES ASSUME TimersRest PROVE Fates' = Fates
  OBVIOUS
<1>1. \A t \in Timers : TimerState(t)' = TimerState(t)
  BY DEF TimerState, TimersRest
<1> QED  BY <1>1 DEF Fates, Timers

(* The parts of the invariant as the steps use them.                         *)
LEMMA Parts ==
  IInv => /\ TypeOK /\ SourcesMatchFilters /\ Reported
          /\ fdSources \in Seq(FDs) /\ sigSources \in Seq(Signals) /\ timerSources \in Seq(Timers)
          /\ filters \subseteq Filters /\ active \in Seq(filters)
          /\ Once(fdSources) /\ Once(timerSources) /\ Once(active)
          /\ MaxTimers \in Nat /\ nTimers \in 0..MaxTimers /\ told \in [Timers -> Nat]
          /\ \A x : Contains(active, x) => x \in filters
<1> HAVE IInv
<1>1. TypeOK /\ SourcesMatchFilters /\ Reported
  BY DEF IInv
<1>2. /\ fdSources \in Seq(FDs) /\ sigSources \in Seq(Signals) /\ timerSources \in Seq(Timers)
      /\ filters \subseteq Filters /\ active \in Seq(filters)
      /\ nTimers \in 0..MaxTimers /\ told \in [Timers -> Nat]
  BY <1>1 DEF TypeOK
<1>3. Once(timerSources)
  <2>1. DOMAIN timerSources = 1..Len(timerSources)
    BY <1>2
  <2> QED  BY <1>1, <2>1 DEF SourcesMatchFilters, Once
<1>4. \A x : Contains(active, x) => x \in filters
  BY <1>2 DEF Contains
<1> QED  BY <1>1, <1>2, <1>3, <1>4, KQueueAssumption DEF Reported

(* The last conjunct of SourcesMatchFilters, said with Once.                 *)
LEMMA OnceByDomain ==
  ASSUME NEW S, NEW s \in Seq(S)
  PROVE  Once(s) <=> \A i, j \in DOMAIN s : s[i] = s[j] => i = j
<1>1. DOMAIN s = 1..Len(s)
  OBVIOUS
<1> QED  BY <1>1 DEF Once

(* Something happens to a filter the kernel may have.                        *)
LEMMA TriggerStep ==
  ASSUME IInv, NEW k, active' = Trigger(k), UNCHANGED <<sources, filters, nTimers, told, cb, orphans>>,
         unread' \subseteq FDs, eof' \subseteq FDs
  PROVE  IInv' /\ \A x : Contains(active', x) <=> Contains(active, x) \/ (x = k /\ k \in filters)
<1> USE DEF sources
<1>1. /\ TypeOK /\ SourcesMatchFilters /\ Reported /\ active \in Seq(filters) /\ Once(active)
  BY Parts
<1>2. /\ active' \in Seq(filters) /\ Once(active')
      /\ \A x : Contains(active', x) <=> Contains(active, x) \/ (x = k /\ k \in filters)
  <2>1. CASE k \in filters
    BY <1>1, <2>1, QueuedContains DEF Trigger
  <2>2. CASE k \notin filters
    BY <1>1, <2>2 DEF Trigger
  <2> QED  BY <2>1, <2>2
<1>3. TypeOK'
  BY <1>1, <1>2 DEF TypeOK
<1>4. SourcesMatchFilters'
  BY <1>1 DEF SourcesMatchFilters, Watched
<1>5. Reported'
  BY <1>1, <1>2 DEF Reported
<1> QED  BY <1>2, <1>3, <1>4, <1>5 DEF IInv

(* The outside: data, ends of streams and signals do not touch timers.       *)
LEMMA OutsideStep ==
  ASSUME IInv, \/ \E fd \in FDs : DataArrives(fd) \/ PeerCloses(fd)
               \/ \E s \in Signals : Raise(s)
  PROVE  IInv' /\ TimersRest
<1>1. TypeOK
  BY Parts
<1>2. PICK k : /\ \A t : k # Timer(t)
               /\ active' = Trigger(k) /\ UNCHANGED <<sources, filters, nTimers, told, cb, orphans>>
               /\ unread' \subseteq FDs /\ eof' \subseteq FDs
  <2>1. ASSUME NEW fd \in FDs, DataArrives(fd) \/ PeerCloses(fd)
        PROVE  /\ active' = Trigger(Read(fd)) /\ UNCHANGED <<sources, filters, nTimers, told, cb, orphans>>
               /\ unread' \subseteq FDs /\ eof' \subseteq FDs
    BY <1>1, <2>1 DEF DataArrives, PeerCloses, TypeOK
  <2>2. ASSUME NEW s \in Signals, Raise(s)
        PROVE  /\ active' = Trigger(Sig(s)) /\ UNCHANGED <<sources, filters, nTimers, told, cb, orphans>>
               /\ unread' \subseteq FDs /\ eof' \subseteq FDs
    BY <1>1, <2>2 DEF Raise, TypeOK
  <2> QED  BY <2>1, <2>2, FiltersDiffer
<1>3. IInv' /\ \A x : Contains(active', x) <=> Contains(active, x) \/ (x = k /\ k \in filters)
  BY <1>2, TriggerStep
<1>4. TimersRest
  BY <1>2, <1>3 DEF TimersRest
<1> QED  BY <1>3, <1>4

(* One timer goes from one state of TimerService to another.                 *)
LEMMA OneTimerMoves ==
  ASSUME NEW t \in Timers, NEW from, NEW to, TimerState(t) \in from, TimerState(t)' = to,
         \A u \in Timers : u # t => TimerState(u)' = TimerState(u)
  PROVE  Promise!Step(t, from, to)
<1> DEFINE S == [u \in Timers |-> TimerState(u)]
<1>1. S[t] \in from /\ S' = [S EXCEPT ![t] = to]
  BY DEF Timers
<1> QED  BY <1>1 DEF Promise!Step

(* An armed timer expires.                                                   *)
LEMMA ExpireStep ==
  ASSUME IInv, NEW t \in Timers, Expire(t)
  PROVE  IInv' /\ Promise!Step(t, {"armed"}, "expired")
<1>1. TypeOK /\ SourcesMatchFilters /\ Reported /\ nTimers \in 0..MaxTimers /\ MaxTimers \in Nat /\ told \in [Timers -> Nat]
  BY Parts
<1>2. /\ Timer(t) \in filters /\ ~Contains(active, Timer(t)) /\ active' = Trigger(Timer(t))
      /\ UNCHANGED <<sources, filters, nTimers, told, cb, orphans>>
      /\ unread' \subseteq FDs /\ eof' \subseteq FDs
  BY <1>1 DEF Expire, TypeOK
<1>3. IInv' /\ \A x : Contains(active', x) <=> Contains(active, x) \/ x = Timer(t)
  BY <1>2, TriggerStep
<1>4. ~(t > nTimers) /\ ~(told[t] > 0)
  <2>1. t <= nTimers
    BY <1>1, <1>2 DEF SourcesMatchFilters, Reported
  <2>2. ~(told[t] > 0)
    BY <1>1, <1>2 DEF Reported
  <2> QED  BY <1>1, <2>1, <2>2 DEF Timers
<1>5. TimerState(t) = "armed" /\ TimerState(t)' = "expired"
  BY <1>2, <1>3, <1>4 DEF TimerState
<1>6. \A u \in Timers : u # t => TimerState(u)' = TimerState(u)
  <2>1. \A u \in Timers : u # t => (Contains(active', Timer(u)) <=> Contains(active, Timer(u)))
    BY <1>3, FiltersDiffer
  <2> QED  BY <1>2, <2>1 DEF TimerState
<1> QED  BY <1>3, <1>5, <1>6, OneTimerMoves

-----------------------------------------------------------------------------
(* Adding and deleting sources.                                              *)

(* Only descriptors' filters change; the descriptor has one just when it has *)
(* a source.                                                                 *)
LEMMA DescriptorStep ==
  ASSUME IInv, NEW fd \in FDs, UNCHANGED <<sigSources, timerSources, unread, eof, nTimers, told, cb>>,
         fdSources' \in Seq(FDs), Once(fdSources'), orphans' \subseteq FDs,
         \A g \in FDs : g # fd => /\ Contains(fdSources', g) <=> Contains(fdSources, g)
                                  /\ g \in orphans' <=> g \in orphans,
         filters' \subseteq Filters, active' \in Seq(filters'), Once(active'),
         \A x : x \notin {Read(fd), Write(fd)} => /\ x \in filters' <=> x \in filters
                                                  /\ Contains(active', x) <=> Contains(active, x),
         filters' \cap {Read(fd), Write(fd)} # {} <=> Contains(fdSources', fd) \/ fd \in orphans',
         Write(fd) \in filters' => Contains(fdSources', fd)
  PROVE  IInv' /\ TimersRest
<1>1. TypeOK /\ SourcesMatchFilters /\ Reported
  BY Parts
<1>2. TypeOK'
  BY <1>1 DEF TypeOK
<1>3. \A t : /\ Timer(t) \in filters' <=> Timer(t) \in filters
             /\ Contains(active', Timer(t)) <=> Contains(active, Timer(t))
  BY FiltersDiffer
<1>4. \A s : Sig(s) \in filters' <=> Sig(s) \in filters
  BY FiltersDiffer
<1>5. ASSUME NEW g \in FDs
      PROVE  /\ filters' \cap {Read(g), Write(g)} # {} <=> Contains(fdSources', g) \/ g \in orphans'
             /\ Write(g) \in filters' => Contains(fdSources', g)
  <2>1. CASE g # fd
    <3>1. Read(g) \notin {Read(fd), Write(fd)} /\ Write(g) \notin {Read(fd), Write(fd)}
      BY <2>1, FiltersDiffer
    <3>2. /\ filters' \cap {Read(g), Write(g)} # {} <=> filters \cap {Read(g), Write(g)} # {}
          /\ Write(g) \in filters' <=> Write(g) \in filters
      BY <3>1
    <3>3. /\ filters \cap {Read(g), Write(g)} # {} <=> Contains(fdSources, g) \/ g \in orphans
          /\ Write(g) \in filters => Contains(fdSources, g)
      BY <1>1 DEF SourcesMatchFilters, Watched
    <3>4. /\ Contains(fdSources', g) <=> Contains(fdSources, g)
          /\ g \in orphans' <=> g \in orphans
      BY <2>1
    <3> QED  BY <3>2, <3>3, <3>4
  <2> QED  BY <2>1
<1>6. SourcesMatchFilters'
  BY <1>1, <1>3, <1>4, <1>5 DEF SourcesMatchFilters, Watched
<1>7. Reported'
  BY <1>1, <1>3 DEF Reported
<1>8. TimersRest
  BY <1>3 DEF TimersRest
<1> QED  BY <1>2, <1>6, <1>7, <1>8 DEF IInv

(* addFD: the filters the caller asks for, at least one.                     *)
LEMMA addFDStep ==
  ASSUME IInv, NEW fd \in FDs, NEW events \in Wanted, addFD(fd, events)
  PROVE  IInv' /\ TimersRest
<1> DEFINE new == FiltersOf(fd, events)
           both == {Read(fd), Write(fd)}
<1>1. /\ SourcesMatchFilters /\ fdSources \in Seq(FDs) /\ Once(fdSources)
      /\ filters \subseteq Filters /\ active \in Seq(filters) /\ Once(active)
  BY Parts
<1>2. /\ ~Contains(fdSources, fd) /\ fdSources' = Append(fdSources, fd)
      /\ filters' = filters \cup new /\ active' = ActivatedFD(fd, events)
      /\ UNCHANGED <<sigSources, timerSources, unread, eof, nTimers, told, cb, orphans>>
  BY DEF addFD, Watched
<1>3. events \subseteq {"read", "write"} /\ events # {}
  BY KQueueAssumption
<1>4. /\ new \subseteq both /\ new # {} /\ both \subseteq Filters
      /\ "read" \in events => Read(fd) \in new
      /\ "write" \in events => Write(fd) \in new
  BY <1>3 DEF FiltersOf, Read, Write, Filters
<1>5. /\ fdSources' \in Seq(FDs) /\ Once(fdSources') /\ Contains(fdSources', fd)
      /\ \A g : g # fd => (Contains(fdSources', g) <=> Contains(fdSources, g))
  BY <1>1, <1>2, AppendContains
<1> HIDE DEF new
<1>6. active \in Seq(filters')
  <2>1. \A x : Contains(active, x) => x \in filters'
    BY <1>2, Parts
  <2> QED  BY <1>1, <2>1, SeqOver
<1> DEFINE withRead == IF "read" \in events THEN Activated(active, Read(fd)) ELSE active
<1>7. /\ withRead \in Seq(filters') /\ Once(withRead)
      /\ \A x : x \notin both => (Contains(withRead, x) <=> Contains(active, x))
  <2>1. CASE "read" \in events
    <3>1. Read(fd) \in filters'
      BY <1>2, <1>4, <2>1
    <3>2. /\ Activated(active, Read(fd)) \in Seq(filters') /\ Once(Activated(active, Read(fd)))
          /\ \A x : x # Read(fd) => (Contains(Activated(active, Read(fd)), x) <=> Contains(active, x))
      BY <1>1, <1>6, <3>1, ActivatedContains
    <3> QED  BY <2>1, <3>2
  <2>2. CASE "read" \notin events
    BY <1>1, <1>6, <2>2
  <2> QED  BY <2>1, <2>2
<1>8. active' = IF "write" \in events THEN Activated(withRead, Write(fd)) ELSE withRead
  BY <1>2 DEF ActivatedFD
<1> HIDE DEF withRead
<1>9. /\ active' \in Seq(filters') /\ Once(active')
      /\ \A x : x \notin both => (Contains(active', x) <=> Contains(active, x))
  <2>1. CASE "write" \in events
    <3>1. Write(fd) \in filters'
      BY <1>2, <1>4, <2>1
    <3>2. /\ Activated(withRead, Write(fd)) \in Seq(filters') /\ Once(Activated(withRead, Write(fd)))
          /\ \A x : x # Write(fd) => (Contains(Activated(withRead, Write(fd)), x) <=> Contains(withRead, x))
      BY <1>7, <3>1, ActivatedContains
    <3> QED  BY <1>7, <1>8, <2>1, <3>2
  <2>2. CASE "write" \notin events
    BY <1>7, <1>8, <2>2
  <2> QED  BY <2>1, <2>2
<1>10. filters' \subseteq Filters /\ (\A x : x \notin both => (x \in filters' <=> x \in filters))
       /\ filters' \cap both # {}
  BY <1>1, <1>2, <1>4
<1>11. orphans' \subseteq FDs /\ orphans' = orphans
  BY <1>2, Parts DEF TypeOK
<1> QED  BY <1>2, <1>5, <1>9, <1>10, <1>11, DescriptorStep

(* A failed addFD leaves no source, and no filter that is not an orphan.     *)
LEMMA AddFDFailsStep ==
  ASSUME IInv, NEW fd \in FDs, AddFDFails(fd)
  PROVE  IInv' /\ TimersRest
<1>1. /\ TypeOK /\ SourcesMatchFilters /\ fdSources \in Seq(FDs) /\ Once(fdSources)
      /\ filters \subseteq Filters /\ active \in Seq(filters) /\ Once(active) /\ orphans \subseteq FDs
      /\ \A x : Contains(active, x) => x \in filters
  BY Parts DEF TypeOK
<1>2. /\ ~Contains(fdSources, fd) /\ fdSources' = Front(Append(fdSources, fd))
      /\ UNCHANGED <<sigSources, timerSources, unread, eof, nTimers, told, cb>>
  BY DEF AddFDFails, Watched
<1>3. fdSources' = fdSources
  <2>1. Front(Append(fdSources, fd)) = fdSources
    BY <1>1 DEF Front
  <2> QED  BY <1>2, <2>1
<1>4. Write(fd) \notin filters /\ Read(fd) \in Filters
  BY <1>1, <1>2 DEF SourcesMatchFilters, Watched, Filters
<1>5. CASE UNCHANGED <<filters, active, orphans>>
  <2>1. filters' \cap {Read(fd), Write(fd)} # {} <=> Contains(fdSources', fd) \/ fd \in orphans'
    BY <1>1, <1>3, <1>5 DEF SourcesMatchFilters, Watched
  <2> QED  BY <1>1, <1>2, <1>3, <1>4, <1>5, <2>1, DescriptorStep
<1>6. CASE EV_DELETE(Read(fd)) /\ orphans' = orphans \ {fd}
  <2>1. filters' = filters \ {Read(fd)} /\ active' = RemoveFirst(active, Read(fd))
    BY <1>6 DEF EV_DELETE
  <2>2. /\ active' \in Seq(filters) /\ Once(active')
        /\ \A x : Contains(active', x) <=> Contains(active, x) /\ x # Read(fd)
    BY <1>1, <2>1, RemoveFirstContains
  <2>3. active' \in Seq(filters')
    <3>1. \A x : Contains(active', x) => x \in filters'
      BY <1>1, <2>1, <2>2
    <3> QED  BY <2>2, <3>1, SeqOver
  <2>4. /\ filters' \subseteq Filters /\ filters' \cap {Read(fd), Write(fd)} = {}
        /\ orphans' \subseteq FDs /\ fd \notin orphans' /\ \A g : g # fd => (g \in orphans' <=> g \in orphans)
    BY <1>1, <1>4, <1>6, <2>1
  <2>5. \A x : x \notin {Read(fd), Write(fd)} => /\ x \in filters' <=> x \in filters
                                                 /\ Contains(active', x) <=> Contains(active, x)
    BY <2>1, <2>2
  <2> QED  BY <1>1, <1>2, <1>3, <2>2, <2>3, <2>4, <2>5, DescriptorStep
<1>7. CASE EV_ADD(Read(fd)) /\ orphans' = orphans \cup {fd}
  <2>1. filters' = filters \cup {Read(fd)} /\ active' = Activated(active, Read(fd))
    BY <1>7 DEF EV_ADD
  <2>2. active \in Seq(filters')
    <3>1. \A x : Contains(active, x) => x \in filters'
      BY <1>1, <2>1
    <3> QED  BY <1>1, <3>1, SeqOver
  <2>3. /\ active' \in Seq(filters') /\ Once(active')
        /\ \A x : x # Read(fd) => (Contains(active', x) <=> Contains(active, x))
    <3>1. Read(fd) \in filters'
      BY <2>1
    <3> QED  BY <1>1, <2>1, <2>2, <3>1, ActivatedContains
  <2>4. /\ filters' \subseteq Filters /\ filters' \cap {Read(fd), Write(fd)} # {} /\ Write(fd) \notin filters'
        /\ orphans' \subseteq FDs /\ fd \in orphans' /\ \A g : g # fd => (g \in orphans' <=> g \in orphans)
    BY <1>1, <1>4, <1>7, <2>1, FiltersDiffer
  <2>5. \A x : x \notin {Read(fd), Write(fd)} => /\ x \in filters' <=> x \in filters
                                                 /\ Contains(active', x) <=> Contains(active, x)
    BY <2>1, <2>3
  <2> QED  BY <1>1, <1>2, <1>3, <2>3, <2>4, <2>5, DescriptorStep
<1> QED  BY <1>5, <1>6, <1>7 DEF AddFDFails, AddFDUndo

(* delFD takes the source and both filters.                                  *)
LEMMA delFDStep ==
  ASSUME IInv, NEW fd \in FDs, delFD(fd)
  PROVE  IInv' /\ TimersRest
<1> DEFINE q == RemoveFirst(active, Read(fd))
<1>1. /\ fdSources \in Seq(FDs) /\ Once(fdSources)
      /\ filters \subseteq Filters /\ active \in Seq(filters) /\ Once(active)
      /\ \A x : Contains(active, x) => x \in filters
  BY Parts
<1>2. /\ fdSources' = RemoveFirst(fdSources, fd)
      /\ filters' = filters \ {Read(fd), Write(fd)}
      /\ active' = RemoveFirst(q, Write(fd))
      /\ orphans' = orphans \ {fd}
      /\ UNCHANGED <<sigSources, timerSources, unread, eof, nTimers, told, cb>>
  BY DEF delFD
<1>3. /\ fdSources' \in Seq(FDs) /\ Once(fdSources')
      /\ \A g : Contains(fdSources', g) <=> Contains(fdSources, g) /\ g # fd
  BY <1>1, <1>2, RemoveFirstContains
<1>4. /\ q \in Seq(filters) /\ Once(q)
      /\ \A x : Contains(q, x) <=> Contains(active, x) /\ x # Read(fd)
  BY <1>1, RemoveFirstContains
<1> HIDE DEF q
<1>5. /\ active' \in Seq(filters) /\ Once(active')
      /\ \A x : Contains(active', x) <=> Contains(q, x) /\ x # Write(fd)
  BY <1>2, <1>4, RemoveFirstContains
<1>6. \A x : Contains(active', x) => x \in filters'
  BY <1>1, <1>2, <1>4, <1>5
<1>7. active' \in Seq(filters')
  BY <1>5, <1>6, SeqOver
<1>8. \A x : x \notin {Read(fd), Write(fd)} => /\ x \in filters' <=> x \in filters
                                               /\ Contains(active', x) <=> Contains(active, x)
  BY <1>2, <1>4, <1>5
<1>9. filters' \subseteq Filters /\ filters' \cap {Read(fd), Write(fd)} = {}
  BY <1>1, <1>2
<1>10. orphans' \subseteq FDs /\ fd \notin orphans' /\ \A g : g # fd => (g \in orphans' <=> g \in orphans)
  BY <1>2, Parts DEF TypeOK
<1> QED  BY <1>2, <1>3, <1>5, <1>7, <1>8, <1>9, <1>10, DescriptorStep

(* A second source of a signal finds its filter there.                       *)
LEMMA addSignalStep ==
  ASSUME IInv, NEW s \in Signals, addSignal(s)
  PROVE  IInv' /\ TimersRest
<1>1. /\ TypeOK /\ SourcesMatchFilters /\ Reported /\ sigSources \in Seq(Signals)
      /\ filters \subseteq Filters /\ active \in Seq(filters) /\ Once(active)
      /\ \A x : Contains(active, x) => x \in filters
  BY Parts
<1>2. /\ sigSources' = Append(sigSources, s) /\ filters' = filters \cup {Sig(s)}
      /\ active' = Activated(active, Sig(s))
      /\ UNCHANGED <<fdSources, timerSources, unread, eof, nTimers, told, cb, orphans>>
  BY DEF addSignal, EV_ADD
<1>3. active' = active
  <2>1. Sig(s).filter = "signal"
    BY FiltersDiffer
  <2> QED  BY <1>2, <2>1 DEF Activated, Ready
<1>4. active' \in Seq(filters')
  <2>1. \A x : Contains(active, x) => x \in filters'
    BY <1>1, <1>2
  <2> QED  BY <1>1, <1>3, <2>1, SeqOver
<1>5. sigSources' \in Seq(Signals) /\ \A x : Contains(sigSources', x) <=> Contains(sigSources, x) \/ x = s
  BY <1>1, <1>2, AppendContains
<1>6. filters' \subseteq Filters
  BY <1>1, <1>2 DEF Filters
<1>7. TypeOK'
  BY <1>1, <1>2, <1>4, <1>5, <1>6 DEF TypeOK
<1>8. /\ \A t : Timer(t) \in filters' <=> Timer(t) \in filters
      /\ \A g : /\ Read(g) \in filters' <=> Read(g) \in filters
                /\ Write(g) \in filters' <=> Write(g) \in filters
      /\ \A u : Sig(u) \in filters' <=> Sig(u) \in filters \/ u = s
  BY <1>2, FiltersDiffer
<1>9. SourcesMatchFilters'
  <2>1. \A g \in FDs : (filters' \cap {Read(g), Write(g)} # {}) <=> (filters \cap {Read(g), Write(g)} # {})
    BY <1>8
  <2> QED  BY <1>1, <1>2, <1>5, <1>8, <2>1 DEF SourcesMatchFilters, Watched
<1>10. Reported'
  BY <1>1, <1>2, <1>3, <1>8 DEF Reported
<1>11. TimersRest
  BY <1>2, <1>3, <1>8 DEF TimersRest
<1> QED  BY <1>7, <1>9, <1>10, <1>11 DEF IInv

(* A new timer has an id nobody has had.                                     *)
LEMMA addTimerStep ==
  ASSUME IInv, addTimer
  PROVE  IInv' /\ \E t \in Timers : Promise!Step(t, {"idle"}, "armed")
<1>1. /\ TypeOK /\ SourcesMatchFilters /\ Reported /\ timerSources \in Seq(Timers) /\ Once(timerSources)
      /\ filters \subseteq Filters /\ active \in Seq(filters) /\ Once(active)
      /\ MaxTimers \in Nat /\ nTimers \in 0..MaxTimers /\ told \in [Timers -> Nat]
      /\ \A x : Contains(active, x) => x \in filters
  BY Parts
<1>2. PICK t \in Timers : t = nTimers + 1
  BY <1>1 DEF addTimer, Timers
<1>3. /\ nTimers' = t /\ timerSources' = Append(timerSources, t)
      /\ filters' = filters \cup {Timer(t)} /\ active' = Activated(active, Timer(t))
      /\ UNCHANGED <<fdSources, sigSources, unread, eof, told, cb, orphans>>
  BY <1>2 DEF addTimer, EV_ADD, Rand
<1>4. active' = active
  <2>1. Timer(t).filter = "timer"
    BY FiltersDiffer
  <2> QED  BY <1>3, <2>1 DEF Activated, Ready
<1>5. active' \in Seq(filters')
  <2>1. \A x : Contains(active, x) => x \in filters'
    BY <1>1, <1>3
  <2> QED  BY <1>1, <1>4, <2>1, SeqOver
<1>6. \A u \in Timers : /\ u <= nTimers => u # t /\ u <= nTimers'
                        /\ u # t => (u > nTimers' <=> u > nTimers)
  BY <1>1, <1>2, <1>3 DEF Timers
<1>7. ~Contains(timerSources, t) /\ Timer(t) \notin filters
  <2>1. ~Contains(timerSources, t)
    BY <1>1, <1>6 DEF Reported
  <2> QED  BY <1>1, <2>1 DEF SourcesMatchFilters
<1>8. /\ timerSources' \in Seq(Timers) /\ Once(timerSources')
      /\ \A x : Contains(timerSources', x) <=> Contains(timerSources, x) \/ x = t
  BY <1>1, <1>3, <1>7, AppendContains
<1>9. filters' \subseteq Filters
  BY <1>1, <1>3 DEF Filters
<1>10. nTimers' \in 0..MaxTimers
  BY <1>1, <1>3 DEF Timers
<1>11. TypeOK'
  BY <1>1, <1>3, <1>5, <1>8, <1>9, <1>10 DEF TypeOK
<1>12. /\ \A u : Timer(u) \in filters' <=> Timer(u) \in filters \/ u = t
       /\ \A g : /\ Read(g) \in filters' <=> Read(g) \in filters
                 /\ Write(g) \in filters' <=> Write(g) \in filters
                 /\ Sig(g) \in filters' <=> Sig(g) \in filters
  BY <1>3, FiltersDiffer
<1>13. SourcesMatchFilters'
  <2>1. \A g \in FDs : (filters' \cap {Read(g), Write(g)} # {}) <=> (filters \cap {Read(g), Write(g)} # {})
    BY <1>12
  <2>2. \A k, l \in DOMAIN timerSources' : timerSources'[k] = timerSources'[l] => k = l
    BY <1>8, OnceByDomain
  <2> QED  BY <1>1, <1>3, <1>8, <1>12, <2>1, <2>2 DEF SourcesMatchFilters, Watched
<1>14. Reported'
  <2>1. \A u \in Timers : Contains(timerSources', u) => u <= nTimers'
    <3>1. t <= nTimers'
      BY <1>3 DEF Timers
    <3> QED  BY <1>1, <1>6, <1>8, <3>1 DEF Reported
  <2>2. \A u \in Timers : cb' = Timer(u) => u <= nTimers' /\ Timer(u) \notin filters'
    BY <1>1, <1>3, <1>6, <1>12 DEF Reported
  <2>3. \A u \in Timers : told'[u] > 0 => told'[u] = 1 /\ u <= nTimers' /\ Timer(u) \notin filters'
    BY <1>1, <1>3, <1>6, <1>12 DEF Reported
  <2> QED  BY <1>1, <1>3, <1>4, <2>1, <2>2, <2>3 DEF Reported
<1>15. TimerState(t) = "idle" /\ TimerState(t)' = "armed"
  <2>1. t > nTimers /\ ~(t > nTimers')
    BY <1>1, <1>2, <1>3
  <2>2. ~(told[t] > 0)
    BY <1>1, <1>6 DEF Reported
  <2>3. ~Contains(active', Timer(t)) /\ Timer(t) \in filters'
    BY <1>1, <1>3, <1>4, <1>7
  <2> QED  BY <1>3, <2>1, <2>2, <2>3 DEF TimerState
<1>16. \A u \in Timers : u # t => TimerState(u)' = TimerState(u)
  BY <1>3, <1>4, <1>6, <1>12 DEF TimerState
<1>17. Promise!Step(t, {"idle"}, "armed")
  BY <1>15, <1>16, OneTimerMoves
<1> QED  BY <1>11, <1>13, <1>14, <1>17 DEF IInv

(* A deleted timer has no filter: it is not reported any more.  One that is  *)
(* deleted by its own handler was reported.                                  *)
LEMMA delTimerStep ==
  ASSUME IInv, NEW t \in Timers, delTimer(t)
  PROVE  IInv' /\ (Promise!Step(t, {"armed", "expired"}, "deleted") \/ TimersRest)
<1>1. /\ TypeOK /\ SourcesMatchFilters /\ Reported /\ timerSources \in Seq(Timers) /\ Once(timerSources)
      /\ filters \subseteq Filters /\ active \in Seq(filters) /\ Once(active)
      /\ MaxTimers \in Nat /\ nTimers \in 0..MaxTimers /\ told \in [Timers -> Nat]
      /\ \A x : Contains(active, x) => x \in filters
  BY Parts
<1>2. /\ Contains(timerSources, t) /\ timerSources' = RemoveFirst(timerSources, t)
      /\ filters' = filters \ {Timer(t)} /\ active' = RemoveFirst(active, Timer(t))
      /\ UNCHANGED <<fdSources, sigSources, unread, eof, nTimers, told, cb, orphans>>
  BY DEF delTimer, DelTimerFilter, EV_DELETE
<1>3. /\ timerSources' \in Seq(Timers) /\ Once(timerSources')
      /\ \A x : Contains(timerSources', x) <=> Contains(timerSources, x) /\ x # t
  BY <1>1, <1>2, RemoveFirstContains
<1>4. /\ active' \in Seq(filters) /\ Once(active')
      /\ \A x : Contains(active', x) <=> Contains(active, x) /\ x # Timer(t)
  BY <1>1, <1>2, RemoveFirstContains
<1>5. active' \in Seq(filters')
  <2>1. \A x : Contains(active', x) => x \in filters'
    BY <1>1, <1>2, <1>4
  <2> QED  BY <1>4, <2>1, SeqOver
<1>6. TypeOK'
  BY <1>1, <1>2, <1>3, <1>5 DEF TypeOK
<1>7. /\ \A u : Timer(u) \in filters' <=> Timer(u) \in filters /\ u # t
      /\ \A g : /\ Read(g) \in filters' <=> Read(g) \in filters
                /\ Write(g) \in filters' <=> Write(g) \in filters
                /\ Sig(g) \in filters' <=> Sig(g) \in filters
  BY <1>2, FiltersDiffer
<1>8. SourcesMatchFilters'
  <2>1. \A g \in FDs : (filters' \cap {Read(g), Write(g)} # {}) <=> (filters \cap {Read(g), Write(g)} # {})
    BY <1>7
  <2>2. \A k, l \in DOMAIN timerSources' : timerSources'[k] = timerSources'[l] => k = l
    BY <1>3, OnceByDomain
  <2> QED  BY <1>1, <1>2, <1>3, <1>7, <2>1, <2>2 DEF SourcesMatchFilters, Watched
<1>9. Reported'
  BY <1>1, <1>2, <1>3, <1>4, <1>7 DEF Reported
<1>10. \A u \in Timers : u # t => (Contains(active', Timer(u)) <=> Contains(active, Timer(u)))
  BY <1>4, FiltersDiffer
<1>11. CASE Timer(t) \in filters
  <2>1. ~(t > nTimers) /\ ~(told[t] > 0)
    <3>1. t <= nTimers
      BY <1>1, <1>2 DEF Reported
    <3>2. ~(told[t] > 0)
      BY <1>1, <1>11 DEF Reported
    <3> QED  BY <1>1, <3>1, <3>2 DEF Timers
  <2>2. TimerState(t) \in {"armed", "expired"} /\ TimerState(t)' = "deleted"
    BY <1>2, <1>7, <1>11, <2>1 DEF TimerState
  <2>3. \A u \in Timers : u # t => TimerState(u)' = TimerState(u)
    BY <1>2, <1>7, <1>10 DEF TimerState
  <2>4. Promise!Step(t, {"armed", "expired"}, "deleted")
    BY <2>2, <2>3, OneTimerMoves
  <2> QED  BY <1>6, <1>8, <1>9, <2>4 DEF IInv
<1>12. CASE Timer(t) \notin filters
  <2>1. ~Contains(active, Timer(t)) /\ ~Contains(active', Timer(t))
    BY <1>1, <1>4, <1>12
  <2>2. TimersRest
    BY <1>2, <1>7, <1>10, <1>12, <2>1 DEF TimersRest
  <2> QED  BY <1>6, <1>8, <1>9, <2>2 DEF IInv
<1> QED  BY <1>11, <1>12

-----------------------------------------------------------------------------
(* loop() and its handlers.                                                  *)

(* The event loop() takes is one of the queue, and no timer is lost with the *)
(* ones before it.                                                           *)
LEMMA TakesEvent ==
  ASSUME IInv, NEW p \in DOMAIN active, FirstEvent(p), active' = Requeued(p)
  PROVE  /\ active[p] \in filters /\ active' \in Seq(filters) /\ Once(active')
         /\ \A t \in Timers : Contains(active', Timer(t)) <=> Contains(active, Timer(t)) /\ active[p] # Timer(t)
         /\ active[p].filter = "timer" => ~Contains(active', active[p])
<1> DEFINE k == active[p]
           rest == Behind(p)
           n == Len(active)
<1>1. active \in Seq(filters) /\ Once(active) /\ n \in Nat /\ p \in 1..n /\ k \in filters
  BY Parts
<1>2. /\ rest \in Seq(filters) /\ Once(rest)
      /\ \A x : Contains(rest, x) <=> \E j \in (p + 1)..n : active[j] = x
  BY <1>1, SuffixContains DEF Behind
<1> HIDE DEF rest
<1>3. ~Contains(rest, k)
  <2> SUFFICES ASSUME NEW j \in (p + 1)..n, active[j] = active[p] PROVE FALSE
    BY <1>2
  <2>1. j \in 1..n /\ j # p
    BY <1>1
  <2> QED  BY <1>1, <2>1 DEF Once
<1>4. /\ Append(rest, k) \in Seq(filters) /\ Once(Append(rest, k))
      /\ \A x : Contains(Append(rest, k), x) <=> Contains(rest, x) \/ x = k
  BY <1>1, <1>2, <1>3, AppendContains
<1>5. active' = IF k.filter \in {"read", "write"} THEN Append(rest, k) ELSE rest
  BY DEF Requeued, rest
<1>6. active' \in Seq(filters) /\ Once(active') /\ (k.filter = "timer" => ~Contains(active', k))
  BY <1>2, <1>3, <1>4, <1>5
<1>7. \A x : Contains(active', x) => Contains(active, x)
  <2>1. \A x : Contains(rest, x) => Contains(active, x)
    <3>1. \A j \in (p + 1)..n : j \in 1..n
      BY <1>1
    <3> QED  BY <1>2, <3>1 DEF Contains
  <2>2. Contains(active, k)
    BY <1>1 DEF Contains
  <2> QED  BY <1>4, <1>5, <2>1, <2>2
<1>8. \A t \in Timers : Contains(active', Timer(t)) => Contains(active, Timer(t)) /\ k # Timer(t)
  BY <1>6, <1>7, FiltersDiffer
<1>9. ASSUME NEW t \in Timers, Contains(active, Timer(t)), k # Timer(t)
      PROVE  Contains(active', Timer(t))
  <2>1. PICK j \in 1..n : active[j] = Timer(t)
    BY <1>9 DEF Contains
  <2>2. Holds(active[j])
    BY <2>1, FiltersDiffer DEF Holds
  <2>3. ~(j < p)
    <3>1. j < p => j \in 1..(p - 1)
      BY <1>1
    <3> QED  BY <2>2, <3>1 DEF FirstEvent
  <2>4. j # p
    BY <1>9, <2>1
  <2>5. j \in (p + 1)..n
    BY <1>1, <2>3, <2>4
  <2>6. Contains(rest, Timer(t))
    BY <1>2, <2>1, <2>5
  <2> QED  BY <1>4, <1>5, <2>6
<1> QED  BY <1>1, <1>6, <1>8, <1>9

(* One call of loop(): a timer's report is its only one.                     *)
LEMMA loopStep ==
  ASSUME IInv, loop
  PROVE  IInv' /\ ((\E t \in Timers : Promise!Step(t, {"expired"}, "fired")) \/ TimersRest)
<1> USE DEF sources
<1>1. /\ TypeOK /\ SourcesMatchFilters /\ Reported /\ filters \subseteq Filters
      /\ MaxTimers \in Nat /\ nTimers \in 0..MaxTimers /\ told \in [Timers -> Nat]
      /\ \A x : Contains(active, x) => x \in filters
  BY Parts
<1>2. PICK p \in DOMAIN active :
        /\ FirstEvent(p) /\ active' = Requeued(p) /\ filters' = AfterReport(active[p])
        /\ cb' = (IF HasSource(active[p]) THEN active[p] ELSE None)
        /\ told' = IF active[p].filter = "timer" /\ HasSource(active[p])
                   THEN [told EXCEPT ![active[p].ident] = @ + 1] ELSE told
  BY DEF loop
<1>3. UNCHANGED <<sources, unread, eof, nTimers, orphans>>
  BY DEF loop
<1>4. PICK k \in filters : k = active[p]
  BY <1>2, TakesEvent
<1>5. /\ active' \in Seq(filters) /\ Once(active')
      /\ \A t \in Timers : Contains(active', Timer(t)) <=> Contains(active, Timer(t)) /\ k # Timer(t)
      /\ k.filter = "timer" => ~Contains(active', k)
  BY <1>2, <1>4, TakesEvent
<1>6. Contains(active, k)
  <2>1. DOMAIN active = 1..Len(active)
    BY <1>1, Parts
  <2> QED  BY <1>4, <2>1 DEF Contains
<1>7. CASE k.filter # "timer"
  <2>1. filters' = filters /\ told' = told /\ cb' \in {k, None}
    BY <1>2, <1>4, <1>7 DEF AfterReport
  <2>2. \A t : cb' # Timer(t) /\ k # Timer(t)
    BY <1>7, <2>1, FiltersDiffer
  <2>3. TypeOK'
    BY <1>1, <1>3, <1>5, <2>1 DEF TypeOK
  <2>4. SourcesMatchFilters'
    BY <1>1, <1>3, <2>1 DEF SourcesMatchFilters, Watched
  <2>5. Reported'
    BY <1>1, <1>3, <1>5, <2>1, <2>2 DEF Reported
  <2>6. TimersRest
    BY <1>3, <1>5, <2>1, <2>2 DEF TimersRest
  <2> QED  BY <2>3, <2>4, <2>5, <2>6 DEF IInv
<1>8. CASE k.filter = "timer"
  <2>1. PICK t \in Timers : k = Timer(t)
    BY <1>1, <1>8, FiltersDiffer DEF Filters
  <2>2. Contains(timerSources, t) /\ t <= nTimers /\ ~(told[t] > 0)
    BY <1>1, <2>1 DEF SourcesMatchFilters, Reported
  <2>3. HasSource(k)
    BY <1>8, <2>1, <2>2, FiltersDiffer DEF HasSource
  <2>4. /\ filters' = filters \ {Timer(t)} /\ cb' = Timer(t)
        /\ told' = [told EXCEPT ![t] = @ + 1]
    <3>1. /\ filters' = filters \ {k} /\ cb' = k
          /\ told' = [told EXCEPT ![k.ident] = @ + 1]
      BY <1>2, <1>4, <1>8, <2>3 DEF AfterReport
    <3>2. k.ident = t
      BY <2>1, FiltersDiffer
    <3> QED  BY <2>1, <3>1, <3>2
  <2>5. told[t] = 0 /\ told' \in [Timers -> Nat] /\ told'[t] = 1 /\ \A u \in Timers : u # t => told'[u] = told[u]
    <3>1. told[t] = 0
      BY <1>1, <2>2
    <3> QED  BY <1>1, <2>4, <3>1
  <2>6. active' \in Seq(filters')
    <3>1. \A x : Contains(active', x) => x \in filters
      BY <1>5 DEF Contains
    <3>2. \A x : Contains(active', x) => x \in filters'
      BY <1>5, <1>8, <2>1, <2>4, <3>1
    <3> QED  BY <1>5, <3>2, SeqOver
  <2>7. TypeOK'
    <3>1. filters' \subseteq Filters /\ cb' \in Filters
      BY <1>1, <2>1, <2>4
    <3> QED  BY <1>1, <1>3, <2>5, <2>6, <3>1 DEF TypeOK
  <2>8. /\ \A u : Timer(u) \in filters' <=> Timer(u) \in filters /\ u # t
        /\ \A g : /\ Read(g) \in filters' <=> Read(g) \in filters
                  /\ Write(g) \in filters' <=> Write(g) \in filters
                  /\ Sig(g) \in filters' <=> Sig(g) \in filters
    BY <2>4, FiltersDiffer
  <2>9. SourcesMatchFilters'
    <3>1. \A g \in FDs : (filters' \cap {Read(g), Write(g)} # {}) <=> (filters \cap {Read(g), Write(g)} # {})
      BY <2>8
    <3> QED  BY <1>1, <1>3, <2>8, <3>1 DEF SourcesMatchFilters, Watched
  <2>10. Reported'
    <3>1. \A u \in Timers : cb' = Timer(u) => u <= nTimers' /\ Timer(u) \notin filters'
      BY <1>3, <2>2, <2>4, <2>8, FiltersDiffer
    <3>2. \A u \in Timers : told'[u] > 0 => told'[u] = 1 /\ u <= nTimers' /\ Timer(u) \notin filters'
      BY <1>1, <1>3, <2>2, <2>5, <2>8 DEF Reported
    <3> QED  BY <1>1, <1>3, <1>5, <3>1, <3>2 DEF Reported
  <2>11. TimerState(t) = "expired" /\ TimerState(t)' = "fired"
    <3>1. ~(t > nTimers) /\ ~(0 > 0) /\ 1 > 0
      BY <1>1, <2>2 DEF Timers
    <3> QED  BY <1>3, <1>6, <2>1, <2>5, <3>1 DEF TimerState
  <2>12. \A u \in Timers : u # t => TimerState(u)' = TimerState(u)
    <3>1. \A u \in Timers : u # t => (Contains(active', Timer(u)) <=> Contains(active, Timer(u)))
      BY <1>5, <2>1, FiltersDiffer
    <3> QED  BY <1>3, <2>5, <2>8, <3>1 DEF TimerState
  <2>13. Promise!Step(t, {"expired"}, "fired")
    BY <2>11, <2>12, OneTimerMoves
  <2> QED  BY <2>7, <2>9, <2>10, <2>13 DEF IInv
<1> QED  BY <1>7, <1>8

(* A reported timer's source goes when its handler returns, unless the       *)
(* handler has deleted it.                                                   *)
LEMMA HandlerReturnsStep ==
  ASSUME IInv, HandlerReturns
  PROVE  IInv' /\ TimersRest
<1>1. /\ TypeOK /\ SourcesMatchFilters /\ Reported /\ timerSources \in Seq(Timers) /\ Once(timerSources)
  BY Parts
<1>2. cb \in Filters /\ UNCHANGED <<fdSources, sigSources, filters, active, unread, eof, nTimers, told, orphans>>
  BY DEF HandlerReturns
<1>3. TimersRest
  BY <1>2 DEF TimersRest
<1>4. cb' \in {None, Crashed}
  BY DEF HandlerReturns
<1>5. \A t : cb' # Timer(t)
  BY <1>4, FiltersDiffer
<1>6. CASE UNCHANGED timerSources
  <2>1. TypeOK'
    BY <1>1, <1>2, <1>4, <1>6 DEF TypeOK
  <2>2. SourcesMatchFilters'
    BY <1>1, <1>2, <1>6 DEF SourcesMatchFilters, Watched
  <2>3. Reported'
    BY <1>1, <1>2, <1>5, <1>6 DEF Reported
  <2> QED  BY <1>3, <2>1, <2>2, <2>3 DEF IInv
<1>7. CASE cb.filter = "timer" /\ timerSources' = RemoveFirst(timerSources, cb.ident)
  <2>1. PICK t \in Timers : cb = Timer(t) /\ cb.ident = t
    BY <1>2, <1>7, FiltersDiffer DEF Filters
  <2>2. Timer(t) \notin filters
    BY <1>1, <2>1 DEF Reported
  <2>3. /\ timerSources' \in Seq(Timers) /\ Once(timerSources')
        /\ \A x : Contains(timerSources', x) <=> Contains(timerSources, x) /\ x # t
    BY <1>1, <1>7, <2>1, RemoveFirstContains
  <2>4. TypeOK'
    BY <1>1, <1>2, <1>4, <2>3 DEF TypeOK
  <2>5. SourcesMatchFilters'
    <3>1. \A k, l \in DOMAIN timerSources' : timerSources'[k] = timerSources'[l] => k = l
      BY <2>3, OnceByDomain
    <3> QED  BY <1>1, <1>2, <2>2, <2>3, <3>1 DEF SourcesMatchFilters, Watched
  <2>6. Reported'
    BY <1>1, <1>2, <1>5, <2>3 DEF Reported
  <2> QED  BY <1>3, <2>4, <2>5, <2>6 DEF IInv
<1> QED  BY <1>6, <1>7 DEF HandlerReturns

(* A handler that reads touches no list and no filter.                       *)
LEMMA HandlerReadsStep ==
  ASSUME IInv, NEW fd \in FDs, HandlerReads(fd)
  PROVE  IInv' /\ TimersRest
<1> USE DEF sources
<1>1. TypeOK /\ SourcesMatchFilters /\ Reported
  BY Parts
<1>2. unread' = unread \ {fd} /\ UNCHANGED <<sources, filters, active, eof, nTimers, told, cb, orphans>>
  BY DEF HandlerReads
<1>3. TypeOK'
  BY <1>1, <1>2 DEF TypeOK
<1>4. SourcesMatchFilters' /\ Reported' /\ TimersRest
  BY <1>1, <1>2 DEF SourcesMatchFilters, Watched, Reported, TimersRest
<1> QED  BY <1>3, <1>4 DEF IInv

-----------------------------------------------------------------------------
(* No sources, no filters, no timers.                                        *)
LEMMA InitIInv == Init => IInv /\ Promise!Init
<1> SUFFICES ASSUME Init PROVE IInv /\ Promise!Init
  OBVIOUS
<1> USE DEF Init
<1>1. MaxTimers \in Nat
  BY KQueueAssumption
<1>2. TypeOK
  BY <1>1 DEF TypeOK
<1>3. \A x : ~Contains(<<>>, x)
  BY DEF Contains
<1>4. SourcesMatchFilters
  BY <1>3 DEF SourcesMatchFilters, Watched
<1>5. Reported
  <2>1. Once(<<>>)
    BY DEF Once
  <2>2. \A t \in Timers : ~(told[t] > 0) /\ cb # Timer(t)
    BY FiltersDiffer
  <2> QED  BY <1>3, <2>1, <2>2 DEF Reported
<1>6. \A t \in Timers : TimerState(t) = "idle"
  BY <1>1 DEF TimerState, Timers
<1>7. Promise!Init
  BY <1>6 DEF Promise!Init
<1> QED  BY <1>2, <1>4, <1>5, <1>7 DEF IInv

(* Every step keeps the invariant and is a step of TimerService or none.     *)
LEMMA NextIInv ==
  ASSUME IInv, [Next]_vars
  PROVE  IInv' /\ (Promise!Next \/ Fates' = Fates)
<1>1. CASE loop
  BY <1>1, loopStep, RestIsStutter DEF Promise!Next
<1>2. CASE HandlerReturns
  BY <1>2, HandlerReturnsStep, RestIsStutter
<1>3. CASE Operation
  <2>1. CASE addTimer
    BY <2>1, addTimerStep DEF Promise!Next
  <2>2. CASE \E t \in Timers : delTimer(t)
    BY <2>2, delTimerStep, RestIsStutter DEF Promise!Next
  <2>3. CASE \E s \in Signals : addSignal(s)
    BY <2>3, addSignalStep, RestIsStutter
  <2>4. CASE \E fd \in FDs : \/ delFD(fd) \/ AddFDFails(fd) \/ HandlerReads(fd)
                             \/ \E events \in Wanted : addFD(fd, events)
    BY <2>4, delFDStep, AddFDFailsStep, HandlerReadsStep, addFDStep, RestIsStutter
  <2> QED  BY <1>3, <2>1, <2>2, <2>3, <2>4 DEF Operation
<1>4. CASE Environment
  <2>1. CASE \E t \in Timers : Expire(t)
    BY <2>1, ExpireStep DEF Promise!Next
  <2>2. CASE \/ \E fd \in FDs : DataArrives(fd) \/ PeerCloses(fd)
             \/ \E s \in Signals : Raise(s)
    BY <2>2, OutsideStep, RestIsStutter
  <2> QED  BY <1>4, <2>1, <2>2 DEF Environment
<1>5. CASE UNCHANGED vars
  <2> USE DEF vars
  <2>1. TypeOK /\ SourcesMatchFilters /\ Reported
    BY Parts
  <2>2. TypeOK'
    BY <1>5, <2>1 DEF TypeOK
  <2>3. SourcesMatchFilters' /\ Reported' /\ TimersRest
    BY <1>5, <2>1 DEF SourcesMatchFilters, Watched, Reported, TimersRest
  <2> QED  BY <2>2, <2>3, RestIsStutter DEF IInv
<1> QED  BY <1>1, <1>2, <1>3, <1>4, <1>5 DEF Next

(* The inductive invariant holds in every state of the driver.               *)
THEOREM DriverInvariant == Spec => []IInv
<1>1. Init => IInv
  BY InitIInv
<1>2. IInv /\ [Next]_vars => IInv'
  BY NextIInv
<1> QED  BY <1>1, <1>2, PTL DEF Spec

(* Every variable keeps its type; the queue holds registered filters only.   *)
THEOREM DriverTypes == Spec => []TypeOK
<1>1. IInv => TypeOK
  BY DEF IInv
<1> QED  BY <1>1, DriverInvariant, PTL

(* The lists and the kernel's filters agree after any operations, failed     *)
(* additions and reports, from within and without handlers.                  *)
THEOREM ListsMatchKernel == Spec => []SourcesMatchFilters
<1>1. IInv => SourcesMatchFilters
  BY DEF IInv
<1> QED  BY <1>1, DriverInvariant, PTL

(* The driver implements TimerService: a timer fires at most once, not       *)
(* before it expires and not after delTimer.                                 *)
THEOREM TimerPromiseKept == Spec => KeepsTimerPromise
<1>1. Init => Promise!Init
  BY InitIInv
<1>2. IInv /\ [Next]_vars => [Promise!Next]_Fates
  BY NextIInv
<1> QED  BY <1>1, <1>2, DriverInvariant, PTL DEF Spec, KeepsTimerPromise, Promise!Spec, Fates
=============================================================================
