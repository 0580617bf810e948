--------------------------- MODULE EventLoopKQueue ---------------------------
(* The kqueue() driver of EventLoop (src/lib/eci/Event-KQueue.cc): the lists *)
(* of sources, the filters it keeps in the kernel for them, and loop(),      *)
(* which takes one event per call.  Handlers may add and delete sources      *)
(* while loop() holds an iterator.  The program adds a descriptor once and   *)
(* deletes it before it closes it, as the manager does.                      *)
EXTENDS Integers, Sequences, SequencesExt, FiniteSets

CONSTANTS FDs, Signals,
          Wanted,       \* the sets of POLLIN ("read") and POLLOUT ("write")
                        \* the program asks for
          MaxTimers     \* bound: timers added

ASSUME KQueueAssumption == MaxTimers \in Nat /\ Wanted \subseteq (SUBSET {"read", "write"}) \ {{}}

Timers == 1..MaxTimers

(* A filter of the kernel queue, and the event it reports.                   *)
Read(fd) == [filter |-> "read", ident |-> fd]
Write(fd) == [filter |-> "write", ident |-> fd]
Sig(s) == [filter |-> "signal", ident |-> s]
Timer(t) == [filter |-> "timer", ident |-> t]
Filters == {Read(fd) : fd \in FDs} \cup {Write(fd) : fd \in FDs}
           \cup {Sig(s) : s \in Signals} \cup {Timer(t) : t \in Timers}

None == [filter |-> "none", ident |-> 0]
Crashed == [filter |-> "crashed", ident |-> 0]

VARIABLES
  fdSources, sigSources, timerSources,  \* the lists
  filters,   \* filters registered with the kernel queue
  active,    \* filters with an event to report, in the order of reporting
  unread,    \* descriptors with data waiting
  eof,       \* descriptors whose peer has closed
  nTimers,   \* calls of rand() so far: the next timer's id
  told,      \* how often timerEvent was called for each timer
  cb,        \* the event whose handler is running, None, or Crashed
  orphans    \* descriptors whose read filter a failed addFD could not take back

vars == <<fdSources, sigSources, timerSources, filters, active, unread, eof, nTimers, told, cb, orphans>>
sources == <<fdSources, sigSources, timerSources>>

Init == /\ fdSources = <<>> /\ sigSources = <<>> /\ timerSources = <<>>
        /\ filters = {} /\ active = <<>>
        /\ unread = {} /\ eof = {}
        /\ nTimers = 0 /\ told = [t \in Timers |-> 0]
        /\ cb = None /\ orphans = {}

Alive == cb # Crashed
Idle == cb = None

-----------------------------------------------------------------------------
(* The kernel queue.  A filter whose condition holds is active, once.        *)
Ready(k) == \/ k.filter = "read" /\ k.ident \in unread \cup eof
            \/ k.filter = "write"

Queued(q, k) == IF Contains(q, k) THEN q ELSE Append(q, k)

Activated(q, k) == IF Ready(k) THEN Queued(q, k) ELSE q

EV_ADD(k) == /\ filters' = filters \cup {k}
             /\ active' = Activated(active, k)

EV_DELETE(k) == /\ filters' = filters \ {k}
                /\ active' = RemoveFirst(active, k)

Trigger(k) == IF k \in filters THEN Queued(active, k) ELSE active

DataArrives(fd) ==
  /\ Alive /\ fd \notin eof \cup unread
  /\ unread' = unread \cup {fd}
  /\ active' = Trigger(Read(fd))
  /\ UNCHANGED <<sources, filters, eof, nTimers, told, cb, orphans>>

PeerCloses(fd) ==
  /\ Alive /\ fd \notin eof
  /\ eof' = eof \cup {fd}
  /\ active' = Trigger(Read(fd))
  /\ UNCHANGED <<sources, filters, unread, nTimers, told, cb, orphans>>

Raise(s) ==
  /\ Alive /\ Sig(s) \in filters
  /\ active' = Trigger(Sig(s))
  /\ UNCHANGED <<sources, filters, unread, eof, nTimers, told, cb, orphans>>

Expire(t) ==
  /\ Alive /\ Timer(t) \in filters /\ ~Contains(active, Timer(t))
  /\ active' = Trigger(Timer(t))
  /\ UNCHANGED <<sources, filters, unread, eof, nTimers, told, cb, orphans>>

-----------------------------------------------------------------------------
(* The operations, called between or from within handlers.                   *)
Watched(fd) == Contains(fdSources, fd)

FiltersOf(fd, events) == {[filter |-> f, ident |-> fd] : f \in events}

(* kevent() is called for the read filter, then for the write filter.        *)
ActivatedFD(fd, events) ==
  LET withRead == IF "read" \in events THEN Activated(active, Read(fd)) ELSE active
  IN  IF "write" \in events THEN Activated(withRead, Write(fd)) ELSE withRead

addFD(fd, events) ==
  /\ Alive /\ ~Watched(fd)
  /\ fdSources' = Append(fdSources, fd)
  /\ filters' = filters \cup FiltersOf(fd, events)
  /\ active' = ActivatedFD(fd, events)
  /\ UNCHANGED <<sigSources, timerSources, unread, eof, nTimers, told, cb, orphans>>

AddFDKeepsRead(fd) == EV_ADD(Read(fd)) /\ UNCHANGED orphans

(* The write filter is refused: the read filter added before it is taken     *)
(* back, or that fails too and is only logged.                               *)
AddFDUndo(fd) == \/ EV_DELETE(Read(fd)) /\ orphans' = orphans \ {fd}
                 \/ EV_ADD(Read(fd)) /\ orphans' = orphans \cup {fd}

AddFDFails(fd) ==
  /\ Alive /\ ~Watched(fd)
  /\ fdSources' = Front(Append(fdSources, fd))
  /\ UNCHANGED <<filters, active, orphans>> \/ AddFDUndo(fd)
  /\ UNCHANGED <<sigSources, timerSources, unread, eof, nTimers, told, cb>>

delFD(fd) ==
  /\ Alive /\ Watched(fd)
  /\ fdSources' = RemoveFirst(fdSources, fd)
  /\ filters' = filters \ {Read(fd), Write(fd)}
  /\ active' = RemoveFirst(RemoveFirst(active, Read(fd)), Write(fd))
  /\ orphans' = orphans \ {fd}
  /\ UNCHANGED <<sigSources, timerSources, unread, eof, nTimers, told, cb>>

(* The filter is added for each source; the kernel keeps one.                *)
addSignal(s) ==
  /\ Alive /\ Len(SelectSeq(sigSources, LAMBDA x : x = s)) < 2
  /\ sigSources' = Append(sigSources, s)
  /\ EV_ADD(Sig(s))
  /\ UNCHANGED <<fdSources, timerSources, unread, eof, nTimers, told, cb, orphans>>

(* Nobody seeds rand(): its i-th value is told apart from the others as i.   *)
RandRepeats == (nTimers + 2) \div 2

Rand == nTimers + 1

addTimer ==
  /\ Alive /\ nTimers < MaxTimers
  /\ nTimers' = nTimers + 1
  /\ timerSources' = Append(timerSources, Rand)
  /\ EV_ADD(Timer(Rand))
  /\ UNCHANGED <<fdSources, sigSources, unread, eof, told, cb, orphans>>

DelTimerFilter(t) == EV_DELETE(Timer(t))

delTimer(t) ==
  /\ Alive /\ Contains(timerSources, t)
  /\ timerSources' = RemoveFirst(timerSources, t)
  /\ DelTimerFilter(t)
  /\ UNCHANGED <<fdSources, sigSources, unread, eof, nTimers, told, cb, orphans>>

(* A handler takes in what there is on its descriptor.                       *)
HandlerReads(fd) ==
  /\ cb = Read(fd) /\ fd \in unread
  /\ unread' = unread \ {fd}
  /\ UNCHANGED <<sources, filters, active, eof, nTimers, told, cb, orphans>>

-----------------------------------------------------------------------------
(* loop() takes the first event whose condition still holds; the ones before *)
(* it leave the queue.  A one-shot timer's filter goes with its report, a    *)
(* signal's count is cleared, and a descriptor goes to the end of the queue. *)
Holds(k) == k.filter \in {"signal", "timer"} \/ Ready(k)

FirstEvent(i) == Holds(active[i]) /\ \A j \in 1..(i - 1) : ~Holds(active[j])

Behind(i) == SubSeq(active, i + 1, Len(active))

Requeued(i) == IF active[i].filter \in {"read", "write"} THEN Append(Behind(i), active[i]) ELSE Behind(i)

AfterReport(k) == IF k.filter = "timer" THEN filters \ {k} ELSE filters

HasSourceFirst(k) == CASE k.filter = "signal" -> IsPrefix(<<k.ident>>, sigSources)
                       [] k.filter = "timer" -> IsPrefix(<<k.ident>>, timerSources)
                       [] OTHER -> IsPrefix(<<k.ident>>, fdSources)

(* The searches for the first source of a descriptor, a timer or a signal.   *)
HasSource(k) == CASE k.filter = "signal" -> Contains(sigSources, k.ident)
                  [] k.filter = "timer" -> Contains(timerSources, k.ident)
                  [] OTHER -> Contains(fdSources, k.ident)

loop ==
  /\ Idle
  /\ \E i \in DOMAIN active : FirstEvent(i) /\
     LET k == active[i]
     IN  /\ active' = Requeued(i)
         /\ filters' = AfterReport(k)
         /\ cb' = IF HasSource(k) THEN k ELSE None
         /\ told' = IF k.filter = "timer" /\ HasSource(k) THEN [told EXCEPT ![k.ident] = @ + 1] ELSE told
  /\ UNCHANGED <<sources, unread, eof, nTimers, orphans>>

(* After timerEvent, loop() erases the source it stands on, which is freed   *)
(* memory if the handler has deleted that timer.                             *)
HandlerReturns ==
  /\ cb \in Filters
  /\ IF cb.filter # "timer" THEN cb' = None /\ UNCHANGED timerSources
     ELSE IF Contains(timerSources, cb.ident)
     THEN cb' = None /\ timerSources' = RemoveFirst(timerSources, cb.ident)
     ELSE cb' = Crashed /\ UNCHANGED timerSources
  /\ UNCHANGED <<fdSources, sigSources, filters, active, unread, eof, nTimers, told, orphans>>

Operation == \/ addTimer \/ \E t \in Timers : delTimer(t)
             \/ \E s \in Signals : addSignal(s)
             \/ \E fd \in FDs : \/ delFD(fd) \/ AddFDFails(fd) \/ HandlerReads(fd)
                                \/ \E events \in Wanted : addFD(fd, events)

Environment == \/ \E fd \in FDs : DataArrives(fd) \/ PeerCloses(fd)
               \/ \E s \in Signals : Raise(s)
               \/ \E t \in Timers : Expire(t)

Next == loop \/ HandlerReturns \/ Operation \/ Environment

Spec == Init /\ [][Next]_vars

(* run() calls loop() again and again, and handlers return.                  *)
FairSpec == Spec /\ WF_vars(loop) /\ WF_vars(HandlerReturns)

-----------------------------------------------------------------------------
(* Types of the lists and of the kernel queue.                               *)
TypeOK ==
  /\ fdSources \in Seq(FDs) /\ sigSources \in Seq(Signals) /\ timerSources \in Seq(Timers)
  /\ filters \subseteq Filters /\ active \in Seq(filters)
  /\ unread \subseteq FDs /\ eof \subseteq FDs
  /\ nTimers \in 0..MaxTimers /\ told \in [Timers -> Nat]
  /\ cb \in Filters \cup {None, Crashed} /\ orphans \subseteq FDs

(* The lists and the kernel agree: a descriptor has a filter just when it    *)
(* has one source, a signal when it has sources, and a timer from addTimer   *)
(* until it is deleted or reported, also after an addition that failed       *)
(* half-way; the one exception is a read filter that addFD tried to take     *)
(* back and could not (addFD's undoing, delTimer, loop).                     *)
SourcesMatchFilters ==
  /\ \A fd \in FDs : (filters \cap {Read(fd), Write(fd)} # {}) <=> Watched(fd) \/ fd \in orphans
  /\ \A fd \in FDs : Write(fd) \in filters => Watched(fd)
  /\ \A s \in Signals : Sig(s) \in filters <=> Contains(sigSources, s)
  /\ \A t \in Timers : Timer(t) \in filters => Contains(timerSources, t)
  /\ \A i, j \in DOMAIN timerSources : timerSources[i] = timerSources[j] => i = j

(* Timers keep the promise of the interface, whatever handlers do.           *)
TimerState(t) ==
  IF t > nTimers THEN "idle"
  ELSE IF told[t] > 0 THEN IF told[t] = 1 THEN "fired" ELSE "fired again"
  ELSE IF Timer(t) \in filters THEN IF Contains(active, Timer(t)) THEN "expired" ELSE "armed"
  ELSE "deleted"

Promise == INSTANCE TimerService WITH state <- [t \in Timers |-> TimerState(t)]

KeepsTimerPromise == Promise!Spec

OnList(k) == LET list == CASE k.filter = "signal" -> sigSources
                           [] k.filter = "timer" -> timerSources
                           [] OTHER -> fdSources
             IN  k.ident \in Range(list)

(* Nothing starves although loop() reports one event per call and a ready    *)
(* descriptor is reported again and again: when a signal was raised, a timer *)
(* has expired or a descriptor is ready, and it has a source, its handler is *)
(* called (of a signal's sources that of the first, line 363), wherever the  *)
(* source stands in its list, unless the source is deleted or the descriptor *)
(* is no longer ready.  The kernel reports events in the order of its queue. *)
EventReachesHandler ==
  \A k \in Filters :
    Contains(active, k) /\ Holds(k) /\ OnList(k) ~> (cb \in {k, Crashed} \/ ~Holds(k) \/ ~OnList(k))
=============================================================================
