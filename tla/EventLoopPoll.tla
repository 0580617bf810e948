--------------------------- MODULE EventLoopPoll ---------------------------
(***************************************************************************)
(* The poll() driver of the event loop (lib/eci/Event-Poll.cc), as far as  *)
(* signals and timers go.  One thread runs the client and EventLoop::loop; *)
(* the signal handler may run between any two of its steps.  The handler   *)
(* only sets flags and the thread is suspended meanwhile, so each delivery *)
(* is one action; the steps of the thread are as fine as the flags it      *)
(* shares with the handler require.  Descriptors other than the self-pipe  *)
(* appear only as "poll() reported some"; see module ManagerServer.         *)
(***************************************************************************)
EXTENDS Naturals, Sequences, FiniteSets

CONSTANTS
    LastSignal,   \* NSIG - 1
    SIGALRM,      \* the signal every POSIX timer is created with
    NTimers,      \* entries of the array timers (255)
    PipeCapacity, \* bytes the self-pipe holds before write() blocks
    MaxRaise,     \* bound: deliveries of each signal other than SIGALRM
    MaxArm,       \* bound: successful timer_create() calls
    MaxSources    \* bound: length of sigSources

ASSUME SignalAssumption == LastSignal \in Nat /\ SIGALRM \in 1 .. LastSignal
ASSUME BoundAssumption ==
    /\ NTimers \in Nat \ {0} /\ PipeCapacity \in Nat \ {0}
    /\ MaxRaise \in Nat /\ MaxArm \in Nat /\ MaxSources \in Nat

Signal == 1 .. LastSignal

(* addTimer and init index timers[0 .. 255] although the array ends at 254.*)
(* The entry past the end is given storage of its own here, which is what  *)
(* a build does whose linker leaves those bytes unused.                    *)
Entry == 0 .. NTimers

(* The n-th timer_create(); n also stands for its timer_t and 0 for the    *)
(* cleared handle.  emplace_back appends, so sorting timerSources by       *)
(* arming gives the order of the list.                                     *)
Arming == 1 .. MaxArm

VARIABLES
    mode,         \* "run", "stuck" in write() inside the handler, "crashed"
    pc, ret,      \* next step of the thread; where a callback returns to
    signalFired, signalsFired, pipe, sigSources,
    oldSigFired, haveRunPoll, timed, revents,  \* locals of loop(), its ts
    sig, src, timID,                           \* its loop counters
    valid, fired, timer, \* the array timers: entries with the bit set; handles
    timerSources, sival, ktimer, nArm,         \* sival, ktimer: the kernel's
    entry, byte, it,  \* addTimer's entryId and register; loop()'s iterator
    raised, passes, owed, fate                 \* history

sigVars   == <<signalFired, signalsFired, pipe>>
passVars  == <<oldSigFired, haveRunPoll, timed, revents>>
scanVars  == <<sig, src, timID>>
entryVars == <<valid, fired, timer>>
timerVars == <<entryVars, timerSources, sival, ktimer, nArm>>
callVars  == <<entry, byte, it>>
history   == <<raised, passes, owed, fate>>
vars == <<mode, pc, ret, sigSources, sigVars, passVars, scanVars, timerVars,
          callVars, history>>

(* The steps of addTimer and delTimer: the client is running in them.      *)
ClientPC == {"client", "settime", "loadvalid", "storevalid", "delvalid"}
PC == ClientPC \cup {"load", "clear", "scan", "sources", "timers", "erase",
                     "poll", "fds", "test"}

ControlOK ==
    /\ mode \in {"run", "stuck", "crashed"}
    /\ pc \in PC
    /\ ret \in {"loop", "sources", "erase", "fds"}
    /\ sig \in 1 .. LastSignal + 1 /\ src \in Nat \ {0} /\ timID \in Entry
    /\ entry \in Entry /\ it \in Arming \cup {0}

FlagOK ==
    /\ signalFired \in BOOLEAN /\ oldSigFired \in BOOLEAN
    /\ haveRunPoll \in BOOLEAN /\ timed \in BOOLEAN
    /\ revents \in BOOLEAN /\ byte \in BOOLEAN

SignalOK ==
    /\ signalsFired \subseteq Signal
    /\ pipe \in 0 .. PipeCapacity
    /\ sigSources \in Seq(Signal)
    /\ raised \in [Signal -> Nat] /\ passes \in [Signal -> Nat]
    /\ owed \subseteq Nat

TimerOK ==
    /\ valid \subseteq Entry /\ fired \subseteq Entry
    /\ timer \in [Entry -> Arming \cup {0}]
    /\ timerSources \subseteq Arming
    /\ sival \in [Arming -> Entry]
    /\ ktimer \in [Arming -> {"free", "created", "armed", "expired"}]
    /\ nArm \in 0 .. MaxArm
    /\ fate \in [Arming -> {"none", "live", "dispatched", "deleted"}]

TypeOK == ControlOK /\ FlagOK /\ SignalOK /\ TimerOK

(* The state EventLoop::init leaves: the arrays cleared, the pipe empty,   *)
(* SIGALRM the only source, the client running outside loop().             *)
Init ==
    /\ mode = "run" /\ pc = "client" /\ ret = "loop"
    /\ signalFired = FALSE /\ signalsFired = {}
    /\ pipe = 0 /\ sigSources = <<SIGALRM>>
    /\ oldSigFired = FALSE /\ haveRunPoll = FALSE
    /\ timed = FALSE /\ revents = FALSE
    /\ sig = 1 /\ src = 1 /\ timID = 0
    /\ valid = {} /\ fired = {} /\ timer = [i \in Entry |-> 0]
    /\ timerSources = {} /\ nArm = 0
    /\ sival = [a \in Arming |-> 0]
    /\ ktimer = [a \in Arming |-> "free"]
    /\ entry = 0 /\ byte = FALSE /\ it = 0
    /\ raised = [s \in Signal |-> 0] /\ passes = [s \in Signal |-> 0]
    /\ owed = {} /\ fate = [a \in Arming |-> "none"]

----------------------------------------------------------------------------
(* The signal handler.                                                     *)

(* write(sigPipe[1]): the pipe is blocking and only this thread could ever *)
(* read it, so a write to a full pipe never returns.                       *)
WriteSelfPipeForgotten == UNCHANGED <<pipe, mode>>
WriteSelfPipe ==
    IF pipe < PipeCapacity THEN pipe' = pipe + 1 /\ mode' = mode
                           ELSE pipe' = pipe /\ mode' = "stuck"

(* What sigHandler does for any signal: both flags, then a byte to the pipe*)
sigHandler(s) ==
    /\ signalFired' = TRUE
    /\ signalsFired' = signalsFired \cup {s}
    /\ WriteSelfPipe
    /\ raised' = [raised EXCEPT ![s] = @ + 1]

(* A signal the process has a handler for; at poll() it also interrupts the*)
(* call, which loop() then repeats.                                        *)
Deliver(s) ==
    /\ mode # "crashed"
    /\ s # SIGALRM /\ \E k \in DOMAIN sigSources : sigSources[k] = s
    /\ raised[s] < MaxRaise
    /\ sigHandler(s)
    /\ owed' = owed \cup {k \in DOMAIN sigSources : sigSources[k] = s}
    /\ UNCHANGED <<pc, ret, sigSources, passVars, scanVars, timerVars, callVars,
                   passes, fate>>

(* An armed POSIX timer expires: one-shot, SIGALRM with its entry number.  *)
Expire(a) ==
    /\ mode # "crashed"
    /\ ktimer[a] = "armed"
    /\ ktimer' = [ktimer EXCEPT ![a] = "expired"]
    /\ fired' = fired \cup {sival[a]}
    /\ sigHandler(SIGALRM)
    /\ UNCHANGED <<pc, ret, sigSources, passVars, scanVars, valid, timer,
                   timerSources, sival, nArm, callVars, passes, owed, fate>>

----------------------------------------------------------------------------
(* The thread takes a step and goes on.                                    *)
Running == mode = "run" /\ mode' = "run"

(* The client: code that runs outside loop() or in one of its callbacks.   *)

addSignal(s) ==
    /\ Running
    /\ pc = "client" /\ ret = "loop" /\ s # SIGALRM
    /\ Len(sigSources) < MaxSources
    /\ sigSources' = Append(sigSources, s)
    /\ UNCHANGED <<pc, ret, sigVars, passVars, scanVars, timerVars, callVars,
                   history>>

(* timers[entryId].fired = false, before the timer is armed.               *)
KeepFired(i) == fired
ResetFired(i) == fired \ {i}

(* The scan for a free entry, emplace_back, timer_create and the reset.    *)
addTimer ==
    /\ Running
    /\ pc = "client" /\ nArm < MaxArm
    /\ \E i \in Entry :
          /\ i \notin valid /\ \A j \in 0 .. i - 1 : j \in valid
          /\ entry' = i
          /\ sival' = [sival EXCEPT ![nArm + 1] = i]
          /\ timer' = [timer EXCEPT ![i] = nArm + 1]
          /\ fired' = ResetFired(i)
    /\ nArm' = nArm + 1
    /\ timerSources' = timerSources \cup {nArm + 1}
    /\ ktimer' = [ktimer EXCEPT ![nArm + 1] = "created"]
    /\ pc' = "settime"
    /\ UNCHANGED <<ret, sigSources, sigVars, passVars, scanVars, valid, byte, it,
                   history>>

(* No free entry, or emplace_back or timer_create fails: what was added is *)
(* removed again and the error returned.                                   *)
AddTimerRefused ==
    /\ Running
    /\ pc = "client"
    /\ UNCHANGED <<pc, ret, sigSources, sigVars, passVars, scanVars, timerVars,
                   callVars, history>>

(* timer_settime; a zero ts leaves the new timer disarmed.                 *)
SetTime ==
    /\ Running
    /\ pc = "settime"
    /\ \E k \in {"armed", "created"} :
          ktimer' = [ktimer EXCEPT ![timer[entry]] = k]
    /\ pc' = "loadvalid"
    /\ UNCHANGED <<ret, sigSources, sigVars, passVars, scanVars, entryVars,
                   timerSources, sival, nArm, callVars, history>>

(* timer_settime fails: pop_back and timer_delete.                         *)
SetTimeFails ==
    /\ Running
    /\ pc = "settime"
    /\ timerSources' = timerSources \ {timer[entry]}
    /\ ktimer' = [ktimer EXCEPT ![timer[entry]] = "free"]
    /\ pc' = "client"
    /\ UNCHANGED <<ret, sigSources, sigVars, passVars, scanVars, entryVars,
                   sival, nArm, callVars, history>>

(* valid and fired are bit-fields of one byte, so "valid = true" reads that*)
(* byte and writes it back; the handler may run in between.                *)
LoadValid ==
    /\ Running
    /\ pc = "loadvalid"
    /\ byte' = (entry \in fired)
    /\ pc' = "storevalid"
    /\ UNCHANGED <<ret, sigSources, sigVars, passVars, scanVars, timerVars,
                   entry, it, history>>

SetValidForgotten(i) == valid
SetValid(i) == valid \cup {i}

StoreValid ==
    /\ Running
    /\ pc = "storevalid"
    /\ valid' = SetValid(entry)
    /\ fired' = IF byte THEN fired \cup {entry} ELSE fired \ {entry}
    /\ fate' = [fate EXCEPT ![timer[entry]] = "live"]
    /\ pc' = "client"
    /\ UNCHANGED <<ret, sigSources, sigVars, passVars, scanVars, timer,
                   timerSources, sival, ktimer, nArm, callVars, raised, passes,
                   owed>>

(* The sources with id i, and what a search for i finds: the first one of  *)
(* the list, if there is one.                                              *)
SourcesOf(i) == {a \in timerSources : sival[a] = i}
FirstSource(i) == {a \in SourcesOf(i) : \A b \in SourcesOf(i) : a <= b}

(* timerSources after delTimer's search for entry i.                       *)
WithoutSourceForgotten(i) == timerSources
WithoutSource(i) == timerSources \ FirstSource(i)

(* delTimer of a timer the client holds: the first source with that id is  *)
(* erased and fired reset ...                                              *)
delTimer(a) ==
    /\ Running
    /\ pc = "client" /\ fate[a] = "live"
    /\ timerSources' = WithoutSource(sival[a])
    /\ fired' = fired \ {sival[a]}
    /\ entry' = sival[a]
    /\ fate' = [fate EXCEPT ![a] = "deleted"]
    /\ pc' = "delvalid"
    /\ UNCHANGED <<ret, sigSources, sigVars, passVars, scanVars, valid, timer,
                   sival, ktimer, nArm, byte, it, raised, passes, owed>>

(* ... then valid, timer_delete and the handle.                            *)
DelValid ==
    /\ Running
    /\ pc = "delvalid"
    /\ valid' = valid \ {entry}
    /\ ktimer' = [ktimer EXCEPT ![timer[entry]] = "free"]
    /\ timer' = [timer EXCEPT ![entry] = 0]
    /\ pc' = "client"
    /\ UNCHANGED <<ret, sigSources, sigVars, passVars, scanVars, fired,
                   timerSources, sival, nArm, callVars, history>>

(* A callback returns to loop().                                           *)
CallbackReturns ==
    /\ Running
    /\ pc = "client" /\ ret # "loop"
    /\ pc' = ret
    /\ UNCHANGED <<ret, sigSources, sigVars, passVars, scanVars, timerVars,
                   callVars, history>>

----------------------------------------------------------------------------
(* EventLoop::loop.                                                        *)

(* The client calls loop(), with a ts or with NULL.                        *)
CallLoop ==
    /\ Running
    /\ pc = "client" /\ ret = "loop"
    /\ pc' = "load" /\ haveRunPoll' = FALSE /\ timed' \in BOOLEAN
    /\ UNCHANGED <<ret, sigSources, sigVars, oldSigFired, revents, scanVars,
                   timerVars, callVars, history>>

(* oldSigFired = signalFired; ...                                          *)
LoadSignalFired ==
    /\ Running
    /\ pc = "load"
    /\ oldSigFired' = signalFired
    /\ pc' = "clear"
    /\ UNCHANGED <<ret, sigSources, sigVars, haveRunPoll, timed, revents,
                   scanVars, timerVars, callVars, history>>

(* ... signalFired = false;  The pass starts if a signal had been flagged. *)
ClearSignalFired ==
    /\ Running
    /\ pc = "clear"
    /\ signalFired' = FALSE
    /\ sig' = 1
    /\ pc' = IF oldSigFired THEN "scan" ELSE "poll"
    /\ UNCHANGED <<ret, sigSources, signalsFired, pipe, passVars, src, timID,
                   timerVars, callVars, history>>

(* signalsFired[i] = false, before anything is dispatched.                 *)
TakenFlagKept == signalsFired
TakenFlag == signalsFired \ {sig}

(* The next turn of the loop over signalsFired, once i is dispatched.      *)
NextSignalClearsLate ==
    /\ pc' = "scan" /\ sig' = sig + 1
    /\ signalsFired' = signalsFired \ {sig}
NextSignal == pc' = "scan" /\ sig' = sig + 1 /\ signalsFired' = signalsFired

(* One turn of the loop over signalsFired.                                 *)
ScanSignal ==
    /\ Running
    /\ pc = "scan"
    /\ \/ /\ sig > LastSignal
          /\ pc' = "poll"
          /\ UNCHANGED <<signalsFired, scanVars, passes>>
       \/ /\ sig <= LastSignal /\ sig \notin signalsFired
          /\ sig' = sig + 1
          /\ UNCHANGED <<pc, signalsFired, src, timID, passes>>
       \/ /\ sig \in signalsFired
          /\ signalsFired' = TakenFlag
          /\ passes' = [passes EXCEPT ![sig] = @ + 1]
          /\ pc' = IF sig = SIGALRM THEN "timers" ELSE "sources"
          /\ src' = 1 /\ timID' = 0 /\ sig' = sig
    /\ UNCHANGED <<ret, sigSources, signalFired, pipe, passVars, timerVars,
                   callVars, raised, owed, fate>>

(* One turn of the loop over sigSources; the callback is client code.      *)
ScanSource ==
    /\ Running
    /\ pc = "sources"
    /\ \/ /\ src > Len(sigSources)
          /\ NextSignal
          /\ UNCHANGED <<ret, src, owed>>
       \/ /\ src <= Len(sigSources) /\ sigSources[src] # sig
          /\ src' = src + 1
          /\ UNCHANGED <<pc, ret, sig, signalsFired, owed>>
       \/ /\ src <= Len(sigSources) /\ sigSources[src] = sig
          /\ owed' = owed \ {src}
          /\ src' = src + 1
          /\ pc' = "client" /\ ret' = "sources"
          /\ UNCHANGED <<sig, signalsFired>>
    /\ UNCHANGED <<sigSources, signalFired, pipe, passVars, timID, timerVars, callVars,
                   raised, passes, fate>>

(* for (int timID = 0; timID < 255; timID++): the array, as declared.      *)
ScannedTimersShort == 0 .. NTimers - 2
ScannedTimersLong == 0 .. NTimers
ScannedTimers == 0 .. NTimers - 1

(* One turn of the loop over timers, up to the callback of the first source*)
(* with that id.                                                           *)
ScanTimer ==
    /\ Running
    /\ pc = "timers"
    /\ \/ /\ timID \notin ScannedTimers
          /\ NextSignal
          /\ UNCHANGED <<ret, timID, entryVars, it, fate>>
       \/ /\ timID \in ScannedTimers \ (valid \cap fired)
          /\ timID' = timID + 1
          /\ UNCHANGED <<pc, ret, sig, signalsFired, entryVars, it, fate>>
       \/ /\ timID \in ScannedTimers \cap valid \cap fired
          /\ fired' = fired \ {timID} /\ valid' = valid \ {timID}
          /\ timer' = [timer EXCEPT ![timID] = 0]
          /\ UNCHANGED <<sig, signalsFired>>
          /\ IF FirstSource(timID) = {}
             THEN timID' = timID + 1 /\ UNCHANGED <<pc, ret, it, fate>>
             ELSE \E a \in FirstSource(timID) :
                    /\ it' = a /\ fate' = [fate EXCEPT ![a] = "dispatched"]
                    /\ pc' = "client" /\ ret' = "erase" /\ timID' = timID
    /\ UNCHANGED <<sigSources, signalFired, pipe, passVars, src, timerSources,
                   sival, ktimer, nArm, entry, byte, raised, passes, owed>>

(* timerSources.erase(it) after the callback; it dangles when the callback *)
(* has erased that element itself.                                         *)
EraseSource ==
    /\ mode = "run" /\ pc = "erase"
    /\ timerSources' = timerSources \ {it}
    /\ mode' = IF it \in timerSources THEN mode ELSE "crashed"
    /\ timID' = timID + 1
    /\ pc' = "timers"
    /\ UNCHANGED <<ret, sigSources, sigVars, passVars, sig, src, entryVars,
                   sival, ktimer, nArm, callVars, history>>

(* poll() returns: the pipe is readable, a descriptor is ready, or ts has  *)
(* passed.  The byte in the pipe stays there.                              *)
Poll ==
    /\ Running
    /\ pc = "poll" /\ ~haveRunPoll
    /\ revents' \in BOOLEAN
    /\ pipe > 0 \/ timed \/ revents'
    /\ haveRunPoll' = TRUE
    /\ pc' = "fds"
    /\ UNCHANGED <<ret, sigSources, sigVars, oldSigFired, timed, scanVars,
                   timerVars, callVars, history>>

(* poll() has run in this call of loop() already: revents are all zero.    *)
PollSkipped ==
    /\ Running
    /\ pc = "poll" /\ haveRunPoll
    /\ pc' = "fds"
    /\ UNCHANGED <<ret, sigSources, sigVars, passVars, scanVars, timerVars,
                   callVars, history>>

(* poll() fails with other than EINTR: logged, and no revents are set.     *)
PollFails ==
    /\ Running
    /\ pc = "poll" /\ ~haveRunPoll
    /\ haveRunPoll' = TRUE
    /\ pc' = "fds"
    /\ UNCHANGED <<ret, sigSources, sigVars, oldSigFired, timed, revents,
                   scanVars, timerVars, callVars, history>>

(* The loop over pFDs: the fdEvent callbacks are client code.              *)
DispatchFDs ==
    /\ Running
    /\ pc = "fds"
    /\ revents' = FALSE
    /\ IF revents THEN pc' = "client" /\ ret' = "fds"
                  ELSE pc' = "test" /\ ret' = ret
    /\ UNCHANGED <<sigSources, sigVars, oldSigFired, haveRunPoll, timed,
                   scanVars, timerVars, callVars, history>>

(* if (signalFired) goto sigfired; return r;                               *)
TestSignalFired ==
    /\ Running
    /\ pc = "test"
    /\ IF signalFired THEN pc' = "load" /\ ret' = ret
                      ELSE pc' = "client" /\ ret' = "loop"
    /\ UNCHANGED <<sigSources, sigVars, passVars, scanVars, timerVars, callVars,
                   history>>

----------------------------------------------------------------------------
(* What the client or the kernel may or may not do.                        *)
ClientStep ==
    \/ \E s \in Signal : addSignal(s)
    \/ addTimer
    \/ AddTimerRefused
    \/ \E a \in Arming : delTimer(a)
    \/ PollFails

(* What the thread does by itself.                                         *)
LoopStep ==
    \/ SetTime \/ SetTimeFails \/ LoadValid \/ StoreValid \/ DelValid
    \/ CallbackReturns \/ CallLoop \/ LoadSignalFired \/ ClearSignalFired
    \/ ScanSignal \/ ScanSource \/ ScanTimer \/ EraseSource
    \/ Poll \/ PollSkipped \/ DispatchFDs \/ TestSignalFired

(* A crashed process, or one stuck in its handler, takes no further step.  *)
Halted == mode # "run" /\ UNCHANGED vars

Next ==
    \/ \E s \in Signal : Deliver(s)
    \/ \E a \in Arming : Expire(a)
    \/ ClientStep
    \/ LoopStep
    \/ Halted

(* The thread is scheduled, callbacks return, and Manager::run keeps       *)
(* calling loop().  poll() has to return only when the self-pipe is        *)
(* readable or ts has passed: no descriptor need ever become ready.        *)
Fairness ==
    WF_vars(LoopStep /\ (pc = "poll" => haveRunPoll \/ pipe > 0 \/ timed))

Spec == Init /\ [][Next]_vars
FairSpec == Spec /\ Fairness

----------------------------------------------------------------------------
(* Safety.                                                                 *)

(* The thread is dispatching signal sig to its sources, at source src.     *)
InSources == pc = "sources" \/ (pc \in ClientPC /\ ret = "sources")

(* The thread is in the timer scan: entries below timID are done, and so is*)
(* timID itself once its callback has been called.                         *)
InTimers == pc \in {"timers", "erase"} \/ (pc \in ClientPC /\ ret = "erase")
ScanPassed(i) == i < timID \/ (i = timID /\ pc # "timers")

(* A pass of the loop takes a signal no more often than the signal was     *)
(* delivered: neither the retry through goto sigfired nor a flag left over *)
(* makes loop() dispatch a signal that did not come (lines 306-312).       *)
NoSpuriousDispatch ==
    \A s \in Signal :
        passes[s] + (IF s \in signalsFired THEN 1 ELSE 0) <= raised[s]

(* A delivery no source has been told about stays recorded until it is:    *)
(* its flag is up, or the pass that took the flag has not reached the      *)
(* source yet.  The flag must go down before the callbacks run (line 312). *)
DeliveryStaysRecorded ==
    \A k \in owed : \/ sigSources[k] \in signalsFired
                     \/ (InSources /\ sig = sigSources[k] /\ src <= k)

(* At most one timer the client holds has a given id, although ids are     *)
(* reused, in a callback even before the old source is erased (Event.hh:119*)
(* "A unique timer ID").                                                   *)
LiveTimerIdsUnique ==
    \A a, b \in Arming :
        fate[a] = "live" /\ fate[b] = "live" /\ sival[a] = sival[b] => a = b

(* An entry that says "valid and fired" always means the timer now living  *)
(* there, with its own expiry, never that of an earlier user of the entry: *)
(* addTimer resets fired before it arms the timer (line 173) and delTimer's*)
(* late SIGALRM hits an entry that is not valid (lines 247-249).           *)
FiredIsOwnExpiry ==
    \A i \in valid \cap fired :
        \/ pc = "delvalid" /\ entry = i
        \/ \E a \in SourcesOf(i) : fate[a] = "live" /\ ktimer[a] = "expired"

(* A flagged timer of the array is announced: SIGALRM is flagged too, or   *)
(* the scan of the timers that took that flag is still to reach the entry. *)
FlaggedTimerIsAnnounced ==
    \A i \in (valid \cap fired) \ {NTimers} :
        SIGALRM \in signalsFired \/ (InTimers /\ ~ScanPassed(i))

----------------------------------------------------------------------------
(* Action properties.                                                      *)

(* Whenever timerEvent is called (line 328) the timer it is called for has *)
(* expired, was not deleted, and has not had its callback before: a timer  *)
(* that is dispatched or deleted stays so, although its entry, its id and  *)
(* a source with that id are in use again.                                 *)
TimerEvent(a) == pc = "timers" /\ pc' = "client" /\ it' = a

TimerEventOnlyAfterExpiry ==
    [][\A a \in Arming :
          /\ TimerEvent(a) => fate[a] = "live" /\ ktimer[a] = "expired"
                              /\ fate'[a] = "dispatched"
          /\ fate[a] \in {"dispatched", "deleted"} => fate'[a] = fate[a]]_vars

----------------------------------------------------------------------------
(* Liveness.                                                               *)

(* A signal whose delivery the next test of signalFired can see reaches all*)
(* its sources, wherever in loop() it came - unless it came between lines  *)
(* 302 and 303 - and however many signals come during its pass.            *)
FlaggedSignalIsDispatched ==
    \A k \in 1 .. MaxSources :
        (k \in owed /\ signalFired /\ pc # "clear")
            ~> (k \notin owed \/ mode # "run")

(* A timer flagged in a valid entry of the array has its callback or is    *)
(* deleted, under the same proviso.                                        *)
FlaggedTimerIsDispatched ==
    \A a \in Arming :
        (/\ fate[a] = "live" /\ sival[a] < NTimers
         /\ sival[a] \in fired /\ signalFired /\ pc # "clear")
            ~> (fate[a] # "live" \/ mode # "run")
=============================================================================
