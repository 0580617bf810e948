------------------------- MODULE EventLoopPollProofs -------------------------
(***************************************************************************)
(* Invariance proofs for EventLoopPoll, for every number of signals, timer *)
(* entries, sources, armings and pipe bytes.                               *)
(***************************************************************************)
EXTENDS EventLoopPoll, TLAPS

(* addTimer is between timer_create and the end of line 188.               *)
Adding == pc \in {"settime", "loadvalid", "storevalid"}

(* A timer callback is running or has just returned: it is not erased yet. *)
InErase == pc = "erase" \/ (pc \in ClientPC /\ ret = "erase")

(* The loop counters are inside their arrays while something is dispatched.*)
CounterInv ==
    /\ InSources \/ InTimers => sig <= LastSignal
    /\ InErase => timID < NTimers

(* What is owed is owed to a source that exists, never to that of SIGALRM. *)
OwedInv ==
    \A k \in owed : k \in 1 .. Len(sigSources) /\ sigSources[k] # SIGALRM

(* The three pieces of state a timer lives in - entry, source and kernel   *)
(* timer - belong to each other, per stage of addTimer and delTimer.       *)
UnusedInv ==
    \A a \in Arming : a > nArm =>
        fate[a] = "none" /\ ktimer[a] = "free" /\ a \notin timerSources

AddingInv ==
    Adding => /\ nArm \in Arming /\ timer[entry] = nArm
              /\ entry \notin valid
              /\ sival[nArm] = entry /\ fate[nArm] = "none"
              /\ nArm \in timerSources
              /\ pc = "settime" => ktimer[nArm] = "created" /\ entry \notin fired
              /\ entry \in fired => ktimer[nArm] = "expired"
              /\ pc = "storevalid" /\ byte => ktimer[nArm] = "expired"

DeletingInv ==
    pc = "delvalid" => /\ timer[entry] \in Arming
                       /\ entry \in valid
                       /\ fate[timer[entry]] = "deleted"
                       /\ sival[timer[entry]] = entry

LiveInv ==
    \A a \in Arming : fate[a] = "live" =>
        sival[a] \in valid /\ timer[sival[a]] = a /\ a \in timerSources

ValidInv ==
    \A i \in valid :
        \/ pc = "delvalid" /\ entry = i
        \/ /\ timer[i] \in Arming /\ fate[timer[i]] = "live"
           /\ sival[timer[i]] = i
           /\ i \in fired => ktimer[timer[i]] = "expired"

ArmedInv ==
    \A a \in Arming : ktimer[a] = "armed" =>
        \/ fate[a] = "live"
        \/ Adding /\ a = nArm
        \/ pc = "delvalid" /\ a = timer[entry]

(* The iterator loop() holds denotes the timer whose callback was called.  *)
IteratorInv == InErase => it \in Arming /\ fate[it] = "dispatched"

(* Every source belongs to a timer somebody still waits for, except the one*)
(* loop() is about to erase; if the callback erased that one instead, loop *)
(* is about to use a dangling iterator.                                    *)
SourceInv ==
    mode # "crashed" => \A a \in timerSources :
        \/ fate[a] = "live"
        \/ Adding /\ a = nArm
        \/ InErase /\ (a = it \/ it \notin timerSources)

(* FlaggedTimerIsAnnounced also for the timer addTimer is about to validate*)
AnnouncedInv ==
    \A i \in Entry \ {NTimers} :
        \/ i \in valid /\ i \in fired
        \/ Adding /\ entry = i /\ i \in fired
        \/ pc = "storevalid" /\ entry = i /\ byte
        => SIGALRM \in signalsFired \/ (InTimers /\ ~ScanPassed(i))

TimerInv ==
    /\ UnusedInv /\ AddingInv /\ DeletingInv /\ LiveInv /\ ValidInv
    /\ ArmedInv /\ SourceInv /\ IteratorInv

----------------------------------------------------------------------------
(* Type correctness.                                                       *)

(* The state EventLoop::init leaves is a good one.                         *)
LEMMA InitInvariant == Init => TypeOK /\ CounterInv /\ OwedInv
<1> SUFFICES ASSUME Init PROVE TypeOK /\ CounterInv /\ OwedInv
  OBVIOUS
<1> USE SignalAssumption, BoundAssumption DEF Init, Signal
<1>1. ControlOK
  BY DEF ControlOK, PC, ClientPC, Entry
<1>2. FlagOK
  BY Zenon DEF FlagOK
<1>3. SignalOK
  BY DEF SignalOK
<1>4. TimerOK
  BY DEF TimerOK, Entry
<1>5. CounterInv /\ OwedInv
  BY DEF CounterInv, OwedInv, InSources, InTimers, InErase, ClientPC
<1>6. QED
  BY <1>1, <1>2, <1>3, <1>4, <1>5 DEF TypeOK

(* The program counter and the loop counters.                              *)
LEMMA ControlStep == TypeOK /\ CounterInv /\ [Next]_vars => ControlOK'
<1> SUFFICES ASSUME TypeOK, CounterInv, [Next]_vars PROVE ControlOK'
  OBVIOUS
<1> USE SignalAssumption, BoundAssumption
    DEF TypeOK, ControlOK, Entry, PC, ClientPC, Running, sigVars, passVars,
        scanVars, entryVars, timerVars, callVars, history
<1>1. ASSUME NEW s \in Signal, Deliver(s) PROVE ControlOK'
  BY <1>1 DEF Deliver, sigHandler, WriteSelfPipe
<1>2. ASSUME NEW a \in Arming, Expire(a) PROVE ControlOK'
  BY <1>2 DEF Expire, sigHandler, WriteSelfPipe
<1>3. ASSUME NEW s \in Signal, addSignal(s) PROVE ControlOK'
  BY <1>3 DEF addSignal
<1>4. CASE addTimer
  BY <1>4 DEF addTimer, ResetFired
<1>5. CASE AddTimerRefused
  BY <1>5 DEF AddTimerRefused
<1>6. ASSUME NEW a \in Arming, delTimer(a) PROVE ControlOK'
  BY <1>6 DEF delTimer, WithoutSource, TimerOK
<1>7. CASE PollFails
  BY <1>7 DEF PollFails
<1>8. CASE SetTime
  BY <1>8 DEF SetTime
<1>9. CASE SetTimeFails
  BY <1>9 DEF SetTimeFails
<1>10. CASE LoadValid
  BY <1>10 DEF LoadValid
<1>11. CASE StoreValid
  BY <1>11 DEF StoreValid, SetValid
<1>12. CASE DelValid
  BY <1>12 DEF DelValid
<1>13. CASE CallbackReturns
  BY <1>13 DEF CallbackReturns
<1>14. CASE CallLoop
  BY <1>14 DEF CallLoop
<1>15. CASE LoadSignalFired
  BY <1>15 DEF LoadSignalFired
<1>16. CASE ClearSignalFired
  BY <1>16 DEF ClearSignalFired
<1>17. CASE ScanSignal
  BY <1>17 DEF ScanSignal, TakenFlag
<1>18. CASE ScanSource
  BY <1>18 DEF ScanSource, NextSignal, CounterInv, InSources
<1>19. CASE ScanTimer
  BY <1>19 DEF ScanTimer, NextSignal, ScannedTimers, FirstSource, SourcesOf, CounterInv, InTimers, TimerOK, Arming
<1>20. CASE EraseSource
  BY <1>20 DEF EraseSource, CounterInv, InErase
<1>21. CASE Poll
  BY <1>21 DEF Poll
<1>22. CASE PollSkipped
  BY <1>22 DEF PollSkipped
<1>23. CASE DispatchFDs
  BY <1>23 DEF DispatchFDs
<1>24. CASE TestSignalFired
  BY <1>24 DEF TestSignalFired
<1>25. CASE UNCHANGED vars
  BY <1>25 DEF vars
<1>26. QED
  BY <1>1, <1>2, <1>3, <1>4, <1>5, <1>6, <1>7, <1>8, <1>9, <1>10, <1>11, <1>12,
     <1>13, <1>14, <1>15, <1>16, <1>17, <1>18, <1>19, <1>20, <1>21, <1>22,
     <1>23, <1>24, <1>25 DEF Next, ClientStep, LoopStep, Halted

(* The Boolean variables.                                                  *)
LEMMA FlagStep == FlagOK /\ [Next]_vars => FlagOK'
<1> SUFFICES ASSUME FlagOK, [Next]_vars PROVE FlagOK'
  OBVIOUS
<1> USE DEF FlagOK, Running, sigVars, passVars, scanVars, entryVars, timerVars,
        callVars, history
<1>1. ASSUME NEW s \in Signal, Deliver(s) PROVE FlagOK'
  BY <1>1, Zenon DEF Deliver, sigHandler, WriteSelfPipe
<1>2. ASSUME NEW a \in Arming, Expire(a) PROVE FlagOK'
  BY <1>2, Zenon DEF Expire, sigHandler, WriteSelfPipe
<1>3. ASSUME NEW s \in Signal, addSignal(s) PROVE FlagOK'
  BY <1>3, Zenon DEF addSignal
<1>4. CASE addTimer
  BY <1>4, Zenon DEF addTimer, ResetFired
<1>5. CASE AddTimerRefused
  BY <1>5, Zenon DEF AddTimerRefused
<1>6. ASSUME NEW a \in Arming, delTimer(a) PROVE FlagOK'
  BY <1>6, Zenon DEF delTimer, WithoutSource
<1>7. CASE PollFails
  BY <1>7, Zenon DEF PollFails
<1>8. CASE SetTime
  BY <1>8, Zenon DEF SetTime
<1>9. CASE SetTimeFails
  BY <1>9, Zenon DEF SetTimeFails
<1>10. CASE LoadValid
  BY <1>10, SMT DEF LoadValid
<1>11. CASE StoreValid
  BY <1>11, Zenon DEF StoreValid, SetValid
<1>12. CASE DelValid
  BY <1>12, Zenon DEF DelValid
<1>13. CASE CallbackReturns
  BY <1>13, Zenon DEF CallbackReturns
<1>14. CASE CallLoop
  BY <1>14, Zenon DEF CallLoop
<1>15. CASE LoadSignalFired
  BY <1>15, Zenon DEF LoadSignalFired
<1>16. CASE ClearSignalFired
  BY <1>16, Zenon DEF ClearSignalFired
<1>17. CASE ScanSignal
  BY <1>17, Zenon DEF ScanSignal, TakenFlag
<1>18. CASE ScanSource
  BY <1>18, Zenon DEF ScanSource, NextSignal
<1>19. CASE ScanTimer
  BY <1>19, Zenon DEF ScanTimer, NextSignal, ScannedTimers, FirstSource, SourcesOf
<1>20. CASE EraseSource
  BY <1>20, Zenon DEF EraseSource
<1>21. CASE Poll
  BY <1>21, Zenon DEF Poll
<1>22. CASE PollSkipped
  BY <1>22, Zenon DEF PollSkipped
<1>23. CASE DispatchFDs
  BY <1>23, Zenon DEF DispatchFDs
<1>24. CASE TestSignalFired
  BY <1>24, Zenon DEF TestSignalFired
<1>25. CASE UNCHANGED vars
  BY <1>25, Zenon DEF vars
<1>26. QED
  BY <1>1, <1>2, <1>3, <1>4, <1>5, <1>6, <1>7, <1>8, <1>9, <1>10, <1>11, <1>12,
     <1>13, <1>14, <1>15, <1>16, <1>17, <1>18, <1>19, <1>20, <1>21, <1>22,
     <1>23, <1>24, <1>25 DEF Next, ClientStep, LoopStep, Halted

(* The signal side.                                                        *)
LEMMA SignalStep == TypeOK /\ [Next]_vars => SignalOK'
<1> SUFFICES ASSUME TypeOK, [Next]_vars PROVE SignalOK'
  OBVIOUS
<1> USE SignalAssumption, BoundAssumption
    DEF TypeOK, SignalOK, Running, sigVars, passVars, scanVars, entryVars,
        timerVars, callVars, history
<1>1. ASSUME NEW s \in Signal, Deliver(s) PROVE SignalOK'
  <2>1. DOMAIN sigSources \subseteq Nat
    OBVIOUS
  <2>2. owed' \subseteq Nat
    BY <1>1, <2>1 DEF Deliver
  <2>3. pipe' \in 0 .. PipeCapacity
    BY <1>1 DEF Deliver, sigHandler, WriteSelfPipe
  <2>4. QED
    BY <1>1, <2>2, <2>3 DEF Deliver, sigHandler
<1>2. ASSUME NEW a \in Arming, Expire(a) PROVE SignalOK'
  BY <1>2 DEF Expire, sigHandler, WriteSelfPipe, Signal
<1>3. ASSUME NEW s \in Signal, addSignal(s) PROVE SignalOK'
  BY <1>3 DEF addSignal
<1>4. CASE addTimer
  BY <1>4 DEF addTimer, ResetFired
<1>5. CASE AddTimerRefused
  BY <1>5 DEF AddTimerRefused
<1>6. ASSUME NEW a \in Arming, delTimer(a) PROVE SignalOK'
  BY <1>6 DEF delTimer, WithoutSource
<1>7. CASE PollFails
  BY <1>7 DEF PollFails
<1>8. CASE SetTime
  BY <1>8 DEF SetTime
<1>9. CASE SetTimeFails
  BY <1>9 DEF SetTimeFails
<1>10. CASE LoadValid
  BY <1>10 DEF LoadValid
<1>11. CASE StoreValid
  BY <1>11 DEF StoreValid, SetValid
<1>12. CASE DelValid
  BY <1>12 DEF DelValid
<1>13. CASE CallbackReturns
  BY <1>13 DEF CallbackReturns
<1>14. CASE CallLoop
  BY <1>14 DEF CallLoop
<1>15. CASE LoadSignalFired
  BY <1>15 DEF LoadSignalFired
<1>16. CASE ClearSignalFired
  BY <1>16 DEF ClearSignalFired
<1>17. CASE ScanSignal
  BY <1>17 DEF ScanSignal, TakenFlag
<1>18. CASE ScanSource
  BY <1>18 DEF ScanSource, NextSignal
<1>19. CASE ScanTimer
  BY <1>19 DEF ScanTimer, NextSignal, ScannedTimers, FirstSource, SourcesOf
<1>20. CASE EraseSource
  BY <1>20 DEF EraseSource
<1>21. CASE Poll
  BY <1>21 DEF Poll
<1>22. CASE PollSkipped
  BY <1>22 DEF PollSkipped
<1>23. CASE DispatchFDs
  BY <1>23 DEF DispatchFDs
<1>24. CASE TestSignalFired
  BY <1>24 DEF TestSignalFired
<1>25. CASE UNCHANGED vars
  BY <1>25 DEF vars
<1>26. QED
  BY <1>1, <1>2, <1>3, <1>4, <1>5, <1>6, <1>7, <1>8, <1>9, <1>10, <1>11, <1>12,
     <1>13, <1>14, <1>15, <1>16, <1>17, <1>18, <1>19, <1>20, <1>21, <1>22,
     <1>23, <1>24, <1>25 DEF Next, ClientStep, LoopStep, Halted

(* The timer side.                                                         *)
LEMMA TimerStep == TypeOK /\ [Next]_vars => TimerOK'
<1> SUFFICES ASSUME TypeOK, [Next]_vars PROVE TimerOK'
  OBVIOUS
<1> USE SignalAssumption, BoundAssumption
    DEF TypeOK, TimerOK, Running, sigVars, passVars, scanVars, entryVars,
        timerVars, callVars, history
<1>1. ASSUME NEW s \in Signal, Deliver(s) PROVE TimerOK'
  BY <1>1 DEF Deliver, sigHandler, WriteSelfPipe
<1>2. ASSUME NEW a \in Arming, Expire(a) PROVE TimerOK'
  BY <1>2 DEF Expire, sigHandler, WriteSelfPipe
<1>3. ASSUME NEW s \in Signal, addSignal(s) PROVE TimerOK'
  BY <1>3 DEF addSignal
<1>4. CASE addTimer
  BY <1>4 DEF addTimer, ResetFired, Arming
<1>5. CASE AddTimerRefused
  BY <1>5 DEF AddTimerRefused
<1>6. ASSUME NEW a \in Arming, delTimer(a) PROVE TimerOK'
  BY <1>6 DEF delTimer, WithoutSource
<1>7. CASE PollFails
  BY <1>7 DEF PollFails
<1>8. CASE SetTime
  BY <1>8 DEF SetTime
<1>9. CASE SetTimeFails
  BY <1>9 DEF SetTimeFails
<1>10. CASE LoadValid
  BY <1>10 DEF LoadValid
<1>11. CASE StoreValid
  BY <1>11 DEF StoreValid, SetValid, ControlOK
<1>12. CASE DelValid
  BY <1>12 DEF DelValid
<1>13. CASE CallbackReturns
  BY <1>13 DEF CallbackReturns
<1>14. CASE CallLoop
  BY <1>14 DEF CallLoop
<1>15. CASE LoadSignalFired
  BY <1>15 DEF LoadSignalFired
<1>16. CASE ClearSignalFired
  BY <1>16 DEF ClearSignalFired
<1>17. CASE ScanSignal
  BY <1>17 DEF ScanSignal, TakenFlag
<1>18. CASE ScanSource
  BY <1>18 DEF ScanSource, NextSignal
<1>19. CASE ScanTimer
  BY <1>19 DEF ScanTimer, NextSignal, ScannedTimers, FirstSource, SourcesOf
<1>20. CASE EraseSource
  BY <1>20 DEF EraseSource
<1>21. CASE Poll
  BY <1>21 DEF Poll
<1>22. CASE PollSkipped
  BY <1>22 DEF PollSkipped
<1>23. CASE DispatchFDs
  BY <1>23 DEF DispatchFDs
<1>24. CASE TestSignalFired
  BY <1>24 DEF TestSignalFired
<1>25. CASE UNCHANGED vars
  BY <1>25 DEF vars
<1>26. QED
  BY <1>1, <1>2, <1>3, <1>4, <1>5, <1>6, <1>7, <1>8, <1>9, <1>10, <1>11, <1>12,
     <1>13, <1>14, <1>15, <1>16, <1>17, <1>18, <1>19, <1>20, <1>21, <1>22,
     <1>23, <1>24, <1>25 DEF Next, ClientStep, LoopStep, Halted

(* The loop counters stay inside their arrays while a callback runs.       *)
LEMMA CounterStep == TypeOK /\ CounterInv /\ [Next]_vars => CounterInv'
<1> SUFFICES ASSUME TypeOK, CounterInv, [Next]_vars PROVE CounterInv'
  OBVIOUS
<1> USE SignalAssumption, BoundAssumption
    DEF TypeOK, ControlOK, CounterInv, InSources, InTimers, InErase, PC,
        ClientPC, Entry, Running, sigVars, passVars, scanVars, entryVars,
        timerVars, callVars, history
<1>1. ASSUME NEW s \in Signal, Deliver(s) PROVE CounterInv'
  BY <1>1 DEF Deliver, sigHandler, WriteSelfPipe
<1>2. ASSUME NEW a \in Arming, Expire(a) PROVE CounterInv'
  BY <1>2 DEF Expire, sigHandler, WriteSelfPipe
<1>3. ASSUME NEW s \in Signal, addSignal(s) PROVE CounterInv'
  BY <1>3 DEF addSignal
<1>4. CASE addTimer
  BY <1>4 DEF addTimer, ResetFired
<1>5. CASE AddTimerRefused
  BY <1>5 DEF AddTimerRefused
<1>6. ASSUME NEW a \in Arming, delTimer(a) PROVE CounterInv'
  BY <1>6 DEF delTimer, WithoutSource
<1>7. CASE PollFails
  BY <1>7 DEF PollFails
<1>8. CASE SetTime
  BY <1>8 DEF SetTime
<1>9. CASE SetTimeFails
  BY <1>9 DEF SetTimeFails
<1>10. CASE LoadValid
  BY <1>10 DEF LoadValid
<1>11. CASE StoreValid
  BY <1>11 DEF StoreValid, SetValid
<1>12. CASE DelValid
  BY <1>12 DEF DelValid
<1>13. CASE CallbackReturns
  BY <1>13 DEF CallbackReturns
<1>14. CASE CallLoop
  BY <1>14 DEF CallLoop
<1>15. CASE LoadSignalFired
  BY <1>15 DEF LoadSignalFired
<1>16. CASE ClearSignalFired
  BY <1>16 DEF ClearSignalFired
<1>17. CASE ScanSignal
  BY <1>17 DEF ScanSignal, TakenFlag, SignalOK, Signal
<1>18. CASE ScanSource
  BY <1>18 DEF ScanSource, NextSignal
<1>19. CASE ScanTimer
  BY <1>19 DEF ScanTimer, NextSignal, ScannedTimers, FirstSource, SourcesOf
<1>20. CASE EraseSource
  BY <1>20 DEF EraseSource
<1>21. CASE Poll
  BY <1>21 DEF Poll
<1>22. CASE PollSkipped
  BY <1>22 DEF PollSkipped
<1>23. CASE DispatchFDs
  BY <1>23 DEF DispatchFDs
<1>24. CASE TestSignalFired
  BY <1>24 DEF TestSignalFired
<1>25. CASE UNCHANGED vars
  BY <1>25 DEF vars
<1>26. QED
  BY <1>1, <1>2, <1>3, <1>4, <1>5, <1>6, <1>7, <1>8, <1>9, <1>10, <1>11, <1>12,
     <1>13, <1>14, <1>15, <1>16, <1>17, <1>18, <1>19, <1>20, <1>21, <1>22,
     <1>23, <1>24, <1>25 DEF Next, ClientStep, LoopStep, Halted

(* Every variable keeps its type: the counters of loop() stay within their *)
(* arrays and the self-pipe within its capacity, through every operation   *)
(* of Event-Poll.cc and every interruption by its signal handler.          *)
THEOREM TypeCorrect == Spec => [](TypeOK /\ CounterInv)
<1>1. Init => TypeOK /\ CounterInv
  BY InitInvariant
<1>2. TypeOK /\ CounterInv /\ [Next]_vars => (TypeOK /\ CounterInv)'
  BY ControlStep, FlagStep, SignalStep, TimerStep, CounterStep DEF TypeOK
<1>3. QED
  BY <1>1, <1>2, PTL DEF Spec

----------------------------------------------------------------------------
(* Signals.                                                                *)

(* A dispatch takes the flag that a delivery has set.                      *)
LEMMA SpuriousStep ==
    TypeOK /\ NoSpuriousDispatch /\ [Next]_vars => NoSpuriousDispatch'
<1> SUFFICES ASSUME TypeOK, NoSpuriousDispatch, [Next]_vars
             PROVE  NoSpuriousDispatch'
  OBVIOUS
<1> USE SignalAssumption
    DEF TypeOK, SignalOK, NoSpuriousDispatch, Running, sigVars, passVars,
        scanVars, entryVars, timerVars, callVars, history
<1>1. ASSUME NEW s \in Signal, Deliver(s) PROVE NoSpuriousDispatch'
  BY <1>1 DEF Deliver, sigHandler, WriteSelfPipe
<1>2. ASSUME NEW a \in Arming, Expire(a) PROVE NoSpuriousDispatch'
  BY <1>2 DEF Expire, sigHandler, WriteSelfPipe, Signal
<1>3. ASSUME NEW s \in Signal, addSignal(s) PROVE NoSpuriousDispatch'
  BY <1>3 DEF addSignal
<1>4. CASE addTimer
  BY <1>4 DEF addTimer, ResetFired
<1>5. CASE AddTimerRefused
  BY <1>5 DEF AddTimerRefused
<1>6. ASSUME NEW a \in Arming, delTimer(a) PROVE NoSpuriousDispatch'
  BY <1>6 DEF delTimer, WithoutSource
<1>7. CASE PollFails
  BY <1>7 DEF PollFails
<1>8. CASE SetTime
  BY <1>8 DEF SetTime
<1>9. CASE SetTimeFails
  BY <1>9 DEF SetTimeFails
<1>10. CASE LoadValid
  BY <1>10 DEF LoadValid
<1>11. CASE StoreValid
  BY <1>11 DEF StoreValid, SetValid
<1>12. CASE DelValid
  BY <1>12 DEF DelValid
<1>13. CASE CallbackReturns
  BY <1>13 DEF CallbackReturns
<1>14. CASE CallLoop
  BY <1>14 DEF CallLoop
<1>15. CASE LoadSignalFired
  BY <1>15 DEF LoadSignalFired
<1>16. CASE ClearSignalFired
  BY <1>16 DEF ClearSignalFired
<1>17. CASE ScanSignal
  BY <1>17 DEF ScanSignal, TakenFlag
<1>18. CASE ScanSource
  BY <1>18 DEF ScanSource, NextSignal
<1>19. CASE ScanTimer
  BY <1>19 DEF ScanTimer, NextSignal, ScannedTimers, FirstSource, SourcesOf
<1>20. CASE EraseSource
  BY <1>20 DEF EraseSource
<1>21. CASE Poll
  BY <1>21 DEF Poll
<1>22. CASE PollSkipped
  BY <1>22 DEF PollSkipped
<1>23. CASE DispatchFDs
  BY <1>23 DEF DispatchFDs
<1>24. CASE TestSignalFired
  BY <1>24 DEF TestSignalFired
<1>25. CASE UNCHANGED vars
  BY <1>25 DEF vars
<1>26. QED
  BY <1>1, <1>2, <1>3, <1>4, <1>5, <1>6, <1>7, <1>8, <1>9, <1>10, <1>11, <1>12,
     <1>13, <1>14, <1>15, <1>16, <1>17, <1>18, <1>19, <1>20, <1>21, <1>22,
     <1>23, <1>24, <1>25 DEF Next, ClientStep, LoopStep, Halted

(* Sources are never removed, and SIGALRM is never owed to one.            *)
LEMMA OwedStep == TypeOK /\ OwedInv /\ [Next]_vars => OwedInv'
<1> SUFFICES ASSUME TypeOK, OwedInv, [Next]_vars PROVE OwedInv'
  OBVIOUS
<1> USE DEF TypeOK, SignalOK, OwedInv, Running, sigVars, passVars, scanVars,
        entryVars, timerVars, callVars, history
<1>1. ASSUME NEW s \in Signal, Deliver(s) PROVE OwedInv'
  <2>1. DOMAIN sigSources = 1 .. Len(sigSources)
    OBVIOUS
  <2>2. \A k \in owed' : k \in owed \/ (k \in DOMAIN sigSources /\ sigSources[k] = s)
    BY <1>1 DEF Deliver
  <2>3. s # SIGALRM /\ sigSources' = sigSources
    BY <1>1 DEF Deliver
  <2>4. QED
    BY <2>1, <2>2, <2>3
<1>2. ASSUME NEW a \in Arming, Expire(a) PROVE OwedInv'
  BY <1>2 DEF Expire, sigHandler, WriteSelfPipe
<1>3. ASSUME NEW s \in Signal, addSignal(s) PROVE OwedInv'
  BY <1>3 DEF addSignal
<1>4. CASE addTimer
  BY <1>4 DEF addTimer, ResetFired
<1>5. CASE AddTimerRefused
  BY <1>5 DEF AddTimerRefused
<1>6. ASSUME NEW a \in Arming, delTimer(a) PROVE OwedInv'
  BY <1>6 DEF delTimer, WithoutSource
<1>7. CASE PollFails
  BY <1>7 DEF PollFails
<1>8. CASE SetTime
  BY <1>8 DEF SetTime
<1>9. CASE SetTimeFails
  BY <1>9 DEF SetTimeFails
<1>10. CASE LoadValid
  BY <1>10 DEF LoadValid
<1>11. CASE StoreValid
  BY <1>11 DEF StoreValid, SetValid
<1>12. CASE DelValid
  BY <1>12 DEF DelValid
<1>13. CASE CallbackReturns
  BY <1>13 DEF CallbackReturns
<1>14. CASE CallLoop
  BY <1>14 DEF CallLoop
<1>15. CASE LoadSignalFired
  BY <1>15 DEF LoadSignalFired
<1>16. CASE ClearSignalFired
  BY <1>16 DEF ClearSignalFired
<1>17. CASE ScanSignal
  BY <1>17 DEF ScanSignal, TakenFlag
<1>18. CASE ScanSource
  BY <1>18 DEF ScanSource, NextSignal
<1>19. CASE ScanTimer
  BY <1>19 DEF ScanTimer, NextSignal, ScannedTimers, FirstSource, SourcesOf
<1>20. CASE EraseSource
  BY <1>20 DEF EraseSource
<1>21. CASE Poll
  BY <1>21 DEF Poll
<1>22. CASE PollSkipped
  BY <1>22 DEF PollSkipped
<1>23. CASE DispatchFDs
  BY <1>23 DEF DispatchFDs
<1>24. CASE TestSignalFired
  BY <1>24 DEF TestSignalFired
<1>25. CASE UNCHANGED vars
  BY <1>25 DEF vars
<1>26. QED
  BY <1>1, <1>2, <1>3, <1>4, <1>5, <1>6, <1>7, <1>8, <1>9, <1>10, <1>11, <1>12,
     <1>13, <1>14, <1>15, <1>16, <1>17, <1>18, <1>19, <1>20, <1>21, <1>22,
     <1>23, <1>24, <1>25 DEF Next, ClientStep, LoopStep, Halted

(* The flag goes down before the sources are called, one after the other.  *)
LEMMA RecordedStep ==
    TypeOK /\ OwedInv /\ DeliveryStaysRecorded /\ [Next]_vars
        => DeliveryStaysRecorded'
<1> SUFFICES ASSUME TypeOK, OwedInv, DeliveryStaysRecorded, [Next]_vars
             PROVE  DeliveryStaysRecorded'
  OBVIOUS
<1> USE DEF TypeOK, ControlOK, SignalOK, OwedInv, DeliveryStaysRecorded,
        InSources, ClientPC, Running, sigVars, passVars, scanVars, entryVars,
        timerVars, callVars, history
<1>1. ASSUME NEW s \in Signal, Deliver(s) PROVE DeliveryStaysRecorded'
  BY <1>1 DEF Deliver, sigHandler, WriteSelfPipe
<1>2. ASSUME NEW a \in Arming, Expire(a) PROVE DeliveryStaysRecorded'
  BY <1>2 DEF Expire, sigHandler, WriteSelfPipe
<1>3. ASSUME NEW s \in Signal, addSignal(s) PROVE DeliveryStaysRecorded'
  BY <1>3 DEF addSignal
<1>4. CASE addTimer
  BY <1>4 DEF addTimer, ResetFired
<1>5. CASE AddTimerRefused
  BY <1>5 DEF AddTimerRefused
<1>6. ASSUME NEW a \in Arming, delTimer(a) PROVE DeliveryStaysRecorded'
  BY <1>6 DEF delTimer, WithoutSource
<1>7. CASE PollFails
  BY <1>7 DEF PollFails
<1>8. CASE SetTime
  BY <1>8 DEF SetTime
<1>9. CASE SetTimeFails
  BY <1>9 DEF SetTimeFails
<1>10. CASE LoadValid
  BY <1>10 DEF LoadValid
<1>11. CASE StoreValid
  BY <1>11 DEF StoreValid, SetValid
<1>12. CASE DelValid
  BY <1>12 DEF DelValid
<1>13. CASE CallbackReturns
  BY <1>13 DEF CallbackReturns
<1>14. CASE CallLoop
  BY <1>14 DEF CallLoop
<1>15. CASE LoadSignalFired
  BY <1>15 DEF LoadSignalFired
<1>16. CASE ClearSignalFired
  BY <1>16 DEF ClearSignalFired
<1>17. CASE ScanSignal
  BY <1>17 DEF ScanSignal, TakenFlag
<1>18. CASE ScanSource
  <2>1. /\ sigSources' = sigSources /\ signalsFired' = signalsFired
        /\ owed' \subseteq owed /\ pc = "sources" /\ Len(sigSources) \in Nat
    BY <1>18 DEF ScanSource, NextSignal
  <2> SUFFICES ASSUME NEW k \in owed', sigSources[k] \notin signalsFired
               PROVE  (InSources /\ sig = sigSources[k] /\ src <= k)'
    BY <2>1
  <2>2. k \in 1 .. Len(sigSources) /\ sig = sigSources[k] /\ src <= k
    BY <2>1
  <2>3. /\ sig' = sig /\ src' = src + 1 /\ k # src
        /\ pc' = "sources" \/ (pc' = "client" /\ ret' = "sources")
    BY <1>18, <2>1, <2>2 DEF ScanSource
  <2>4. QED
    BY <2>1, <2>2, <2>3
<1>19. CASE ScanTimer
  BY <1>19 DEF ScanTimer, NextSignal, ScannedTimers, FirstSource, SourcesOf
<1>20. CASE EraseSource
  BY <1>20 DEF EraseSource
<1>21. CASE Poll
  BY <1>21 DEF Poll
<1>22. CASE PollSkipped
  BY <1>22 DEF PollSkipped
<1>23. CASE DispatchFDs
  BY <1>23 DEF DispatchFDs
<1>24. CASE TestSignalFired
  BY <1>24 DEF TestSignalFired
<1>25. CASE UNCHANGED vars
  BY <1>25 DEF vars
<1>26. QED
  BY <1>1, <1>2, <1>3, <1>4, <1>5, <1>6, <1>7, <1>8, <1>9, <1>10, <1>11, <1>12,
     <1>13, <1>14, <1>15, <1>16, <1>17, <1>18, <1>19, <1>20, <1>21, <1>22,
     <1>23, <1>24, <1>25 DEF Next, ClientStep, LoopStep, Halted

(* The signal side of the driver, for any number of signals, sources and   *)
(* deliveries: no spurious dispatch, and no delivery forgotten before its  *)
(* sources have seen it.                                                   *)
THEOREM SignalsSafe == Spec => [](NoSpuriousDispatch /\ DeliveryStaysRecorded)
<1> DEFINE Inv == NoSpuriousDispatch /\ OwedInv /\ DeliveryStaysRecorded
<1>1. Init => Inv
  <2> SUFFICES ASSUME Init PROVE Inv
    OBVIOUS
  <2>1. NoSpuriousDispatch
    BY DEF Init, NoSpuriousDispatch
  <2>2. OwedInv /\ DeliveryStaysRecorded
    BY DEF Init, OwedInv, DeliveryStaysRecorded
  <2>3. QED
    BY <2>1, <2>2
<1>2. TypeOK /\ Inv /\ [Next]_vars => Inv'
  BY SpuriousStep, OwedStep, RecordedStep
<1>3. QED
  BY <1>1, <1>2, TypeCorrect, PTL DEF Spec

----------------------------------------------------------------------------
(* Timers.                                                                 *)

(* Entry, source and kernel timer keep belonging to each other.            *)
LEMMA TimerInvStep == TypeOK /\ TimerInv /\ [Next]_vars => TimerInv'
<1> SUFFICES ASSUME TypeOK, TimerInv, [Next]_vars PROVE TimerInv'
  OBVIOUS
<1> USE BoundAssumption
    DEF TypeOK, ControlOK, TimerOK, Adding, InErase, ClientPC, Running, sigVars,
        passVars, scanVars, entryVars, timerVars, callVars, history
<1>1. ASSUME NEW s \in Signal, Deliver(s) PROVE TimerInv'
  BY <1>1 DEF Deliver, sigHandler, WriteSelfPipe, TimerInv, UnusedInv, AddingInv, DeletingInv, LiveInv, ValidInv, ArmedInv, SourceInv, IteratorInv
<1>2. ASSUME NEW a \in Arming, Expire(a) PROVE TimerInv'
  <2> USE <1>2 DEF TimerInv, Expire, sigHandler, WriteSelfPipe
  <2>1. UnusedInv'
    BY DEF UnusedInv, AddingInv, DeletingInv, LiveInv, ValidInv, ArmedInv, SourceInv, IteratorInv
  <2>2. AddingInv'
    BY DEF UnusedInv, AddingInv, DeletingInv, LiveInv, ValidInv, ArmedInv, SourceInv, IteratorInv
  <2>3. DeletingInv'
    BY DEF UnusedInv, AddingInv, DeletingInv, LiveInv, ValidInv, ArmedInv, SourceInv, IteratorInv
  <2>4. LiveInv'
    BY DEF UnusedInv, AddingInv, DeletingInv, LiveInv, ValidInv, ArmedInv, SourceInv, IteratorInv
  <2>5. ValidInv'
    BY DEF UnusedInv, AddingInv, DeletingInv, LiveInv, ValidInv, ArmedInv, SourceInv, IteratorInv
  <2>6. ArmedInv'
    BY DEF UnusedInv, AddingInv, DeletingInv, LiveInv, ValidInv, ArmedInv, SourceInv, IteratorInv
  <2>7. SourceInv'
    BY DEF UnusedInv, AddingInv, DeletingInv, LiveInv, ValidInv, ArmedInv, SourceInv, IteratorInv
  <2>8. IteratorInv'
    BY DEF UnusedInv, AddingInv, DeletingInv, LiveInv, ValidInv, ArmedInv, SourceInv, IteratorInv
  <2>9. QED
    BY <2>1, <2>2, <2>3, <2>4, <2>5, <2>6, <2>7, <2>8
<1>3. ASSUME NEW s \in Signal, addSignal(s) PROVE TimerInv'
  BY <1>3 DEF addSignal, TimerInv, UnusedInv, AddingInv, DeletingInv, LiveInv, ValidInv, ArmedInv, SourceInv, IteratorInv
<1>4. CASE addTimer
  <2> USE <1>4 DEF TimerInv, addTimer, ResetFired
  <2>1. UnusedInv'
    BY DEF UnusedInv, Arming
  <2>2. AddingInv'
    <3>1. nArm + 1 \in Arming
      BY DEF Arming
    <3>2. PICK i \in Entry :
             /\ i \notin valid /\ entry' = i /\ fired' = fired \ {i}
             /\ sival' = [sival EXCEPT ![nArm + 1] = i]
             /\ timer' = [timer EXCEPT ![i] = nArm + 1]
      OBVIOUS
    <3>3. fate[nArm + 1] = "none"
      BY <3>1 DEF UnusedInv, Arming
    <3>4. QED
      BY <3>1, <3>2, <3>3 DEF AddingInv
  <2>3. DeletingInv'
    BY DEF UnusedInv, AddingInv, DeletingInv, LiveInv, ValidInv, ArmedInv, SourceInv, IteratorInv
  <2>4. LiveInv'
    BY DEF UnusedInv, AddingInv, DeletingInv, LiveInv, ValidInv, ArmedInv, SourceInv, IteratorInv
  <2>5. ValidInv'
    BY DEF UnusedInv, AddingInv, DeletingInv, LiveInv, ValidInv, ArmedInv, SourceInv, IteratorInv
  <2>6. ArmedInv'
    BY DEF UnusedInv, AddingInv, DeletingInv, LiveInv, ValidInv, ArmedInv, SourceInv, IteratorInv
  <2>7. SourceInv'
    <3>1. nArm + 1 \in Arming /\ fate[nArm + 1] = "none"
      BY DEF UnusedInv, Arming
    <3>2. InErase => it # nArm + 1
      BY <3>1 DEF IteratorInv
    <3>3. QED
      BY <3>2 DEF SourceInv
  <2>8. IteratorInv'
    BY DEF UnusedInv, AddingInv, DeletingInv, LiveInv, ValidInv, ArmedInv, SourceInv, IteratorInv
  <2>9. QED
    BY <2>1, <2>2, <2>3, <2>4, <2>5, <2>6, <2>7, <2>8
<1>5. CASE AddTimerRefused
  BY <1>5 DEF AddTimerRefused, TimerInv, UnusedInv, AddingInv, DeletingInv, LiveInv, ValidInv, ArmedInv, SourceInv, IteratorInv
<1>6. ASSUME NEW a \in Arming, delTimer(a) PROVE TimerInv'
  <2> USE <1>6 DEF TimerInv, delTimer, WithoutSource
  <2>1. UnusedInv'
    BY DEF UnusedInv, AddingInv, DeletingInv, LiveInv, ValidInv, ArmedInv, SourceInv, IteratorInv
  <2>2. AddingInv'
    BY DEF UnusedInv, AddingInv, DeletingInv, LiveInv, ValidInv, ArmedInv, SourceInv, IteratorInv
  <2>3. DeletingInv'
    BY DEF UnusedInv, AddingInv, DeletingInv, LiveInv, ValidInv, ArmedInv, SourceInv, IteratorInv
  <2>4. LiveInv'
    BY DEF LiveInv, FirstSource, SourcesOf
  <2>5. ValidInv'
    BY DEF UnusedInv, AddingInv, DeletingInv, LiveInv, ValidInv, ArmedInv, SourceInv, IteratorInv
  <2>6. ArmedInv'
    BY DEF UnusedInv, AddingInv, DeletingInv, LiveInv, ValidInv, ArmedInv, SourceInv, IteratorInv
  <2>7. SourceInv'
    <3>1. ASSUME NEW b \in timerSources', b # a PROVE
             fate'[b] = "live" \/ (InErase /\ (b = it \/ it \notin timerSources))
      BY <3>1 DEF SourceInv
    <3>2. ASSUME a \in timerSources' PROVE InErase /\ it \notin timerSources'
      <4>1. SourcesOf(sival[a]) \subseteq Nat /\ a \in SourcesOf(sival[a])
        <5>1. timerSources \subseteq Nat
          BY DEF Arming
        <5>2. QED
          BY <5>1 DEF SourcesOf, LiveInv
      <4>2. PICK b \in SourcesOf(sival[a]) : ~(a <= b)
        BY <3>2, <4>1 DEF FirstSource
      <4>3. fate[b] # "live" /\ b \in timerSources /\ b # a
        BY <4>1, <4>2 DEF LiveInv, SourcesOf
      <4>4. InErase /\ (b = it \/ it \notin timerSources)
        BY <4>3 DEF SourceInv
      <4>5. CASE it \in timerSources
        <5>1. SourcesOf(sival[a]) \subseteq {a, it}
          BY <4>5 DEF SourcesOf, SourceInv, LiveInv
        <5>2. it \in FirstSource(sival[a])
          BY <4>1, <4>2, <4>4, <4>5, <5>1 DEF FirstSource
        <5>3. QED
          BY <4>4, <5>2
      <4>6. QED
        BY <4>4, <4>5
    <3>3. QED
      BY <3>1, <3>2 DEF SourceInv
  <2>8. IteratorInv'
    BY DEF UnusedInv, AddingInv, DeletingInv, LiveInv, ValidInv, ArmedInv, SourceInv, IteratorInv
  <2>9. QED
    BY <2>1, <2>2, <2>3, <2>4, <2>5, <2>6, <2>7, <2>8
<1>7. CASE PollFails
  BY <1>7 DEF PollFails, TimerInv, UnusedInv, AddingInv, DeletingInv, LiveInv, ValidInv, ArmedInv, SourceInv, IteratorInv
<1>8. CASE SetTime
  <2> USE <1>8 DEF TimerInv, SetTime
  <2>1. UnusedInv'
    BY DEF UnusedInv, AddingInv, DeletingInv, LiveInv, ValidInv, ArmedInv, SourceInv, IteratorInv
  <2>2. AddingInv'
    BY DEF UnusedInv, AddingInv, DeletingInv, LiveInv, ValidInv, ArmedInv, SourceInv, IteratorInv
  <2>3. DeletingInv'
    BY DEF UnusedInv, AddingInv, DeletingInv, LiveInv, ValidInv, ArmedInv, SourceInv, IteratorInv
  <2>4. LiveInv'
    BY DEF UnusedInv, AddingInv, DeletingInv, LiveInv, ValidInv, ArmedInv, SourceInv, IteratorInv
  <2>5. ValidInv'
    BY DEF UnusedInv, AddingInv, DeletingInv, LiveInv, ValidInv, ArmedInv, SourceInv, IteratorInv
  <2>6. ArmedInv'
    BY DEF UnusedInv, AddingInv, DeletingInv, LiveInv, ValidInv, ArmedInv, SourceInv, IteratorInv
  <2>7. SourceInv'
    BY DEF UnusedInv, AddingInv, DeletingInv, LiveInv, ValidInv, ArmedInv, SourceInv, IteratorInv
  <2>8. IteratorInv'
    BY DEF UnusedInv, AddingInv, DeletingInv, LiveInv, ValidInv, ArmedInv, SourceInv, IteratorInv
  <2>9. QED
    BY <2>1, <2>2, <2>3, <2>4, <2>5, <2>6, <2>7, <2>8
<1>9. CASE SetTimeFails
  <2> USE <1>9 DEF TimerInv, SetTimeFails
  <2>1. UnusedInv'
    BY DEF UnusedInv, AddingInv, DeletingInv, LiveInv, ValidInv, ArmedInv, SourceInv, IteratorInv
  <2>2. AddingInv'
    BY DEF UnusedInv, AddingInv, DeletingInv, LiveInv, ValidInv, ArmedInv, SourceInv, IteratorInv
  <2>3. DeletingInv'
    BY DEF UnusedInv, AddingInv, DeletingInv, LiveInv, ValidInv, ArmedInv, SourceInv, IteratorInv
  <2>4. LiveInv'
    BY DEF UnusedInv, AddingInv, DeletingInv, LiveInv, ValidInv, ArmedInv, SourceInv, IteratorInv
  <2>5. ValidInv'
    BY DEF UnusedInv, AddingInv, DeletingInv, LiveInv, ValidInv, ArmedInv, SourceInv, IteratorInv
  <2>6. ArmedInv'
    BY DEF UnusedInv, AddingInv, DeletingInv, LiveInv, ValidInv, ArmedInv, SourceInv, IteratorInv
  <2>7. SourceInv'
    BY DEF UnusedInv, AddingInv, DeletingInv, LiveInv, ValidInv, ArmedInv, SourceInv, IteratorInv
  <2>8. IteratorInv'
    BY DEF UnusedInv, AddingInv, DeletingInv, LiveInv, ValidInv, ArmedInv, SourceInv, IteratorInv
  <2>9. QED
    BY <2>1, <2>2, <2>3, <2>4, <2>5, <2>6, <2>7, <2>8
<1>10. CASE LoadValid
  <2> USE <1>10 DEF TimerInv, LoadValid
  <2>1. UnusedInv'
    BY DEF UnusedInv, AddingInv, DeletingInv, LiveInv, ValidInv, ArmedInv, SourceInv, IteratorInv
  <2>2. AddingInv'
    BY DEF UnusedInv, AddingInv, DeletingInv, LiveInv, ValidInv, ArmedInv, SourceInv, IteratorInv
  <2>3. DeletingInv'
    BY DEF UnusedInv, AddingInv, DeletingInv, LiveInv, ValidInv, ArmedInv, SourceInv, IteratorInv
  <2>4. LiveInv'
    BY DEF UnusedInv, AddingInv, DeletingInv, LiveInv, ValidInv, ArmedInv, SourceInv, IteratorInv
  <2>5. ValidInv'
    BY DEF UnusedInv, AddingInv, DeletingInv, LiveInv, ValidInv, ArmedInv, SourceInv, IteratorInv
  <2>6. ArmedInv'
    BY DEF UnusedInv, AddingInv, DeletingInv, LiveInv, ValidInv, ArmedInv, SourceInv, IteratorInv
  <2>7. SourceInv'
    BY DEF UnusedInv, AddingInv, DeletingInv, LiveInv, ValidInv, ArmedInv, SourceInv, IteratorInv
  <2>8. IteratorInv'
    BY DEF UnusedInv, AddingInv, DeletingInv, LiveInv, ValidInv, ArmedInv, SourceInv, IteratorInv
  <2>9. QED
    BY <2>1, <2>2, <2>3, <2>4, <2>5, <2>6, <2>7, <2>8
<1>11. CASE StoreValid
  <2> USE <1>11 DEF TimerInv, StoreValid, SetValid
  <2>1. UnusedInv'
    BY DEF UnusedInv, AddingInv, DeletingInv, LiveInv, ValidInv, ArmedInv, SourceInv, IteratorInv
  <2>2. AddingInv'
    BY DEF UnusedInv, AddingInv, DeletingInv, LiveInv, ValidInv, ArmedInv, SourceInv, IteratorInv
  <2>3. DeletingInv'
    BY DEF UnusedInv, AddingInv, DeletingInv, LiveInv, ValidInv, ArmedInv, SourceInv, IteratorInv
  <2>4. LiveInv'
    BY DEF UnusedInv, AddingInv, DeletingInv, LiveInv, ValidInv, ArmedInv, SourceInv, IteratorInv
  <2>5. ValidInv'
    BY DEF UnusedInv, AddingInv, DeletingInv, LiveInv, ValidInv, ArmedInv, SourceInv, IteratorInv
  <2>6. ArmedInv'
    BY DEF UnusedInv, AddingInv, DeletingInv, LiveInv, ValidInv, ArmedInv, SourceInv, IteratorInv
  <2>7. SourceInv'
    BY DEF UnusedInv, AddingInv, DeletingInv, LiveInv, ValidInv, ArmedInv, SourceInv, IteratorInv
  <2>8. IteratorInv'
    BY DEF UnusedInv, AddingInv, DeletingInv, LiveInv, ValidInv, ArmedInv, SourceInv, IteratorInv
  <2>9. QED
    BY <2>1, <2>2, <2>3, <2>4, <2>5, <2>6, <2>7, <2>8
<1>12. CASE DelValid
  <2> USE <1>12 DEF TimerInv, DelValid
  <2>1. UnusedInv'
    BY DEF UnusedInv, AddingInv, DeletingInv, LiveInv, ValidInv, ArmedInv, SourceInv, IteratorInv
  <2>2. AddingInv'
    BY DEF UnusedInv, AddingInv, DeletingInv, LiveInv, ValidInv, ArmedInv, SourceInv, IteratorInv
  <2>3. DeletingInv'
    BY DEF UnusedInv, AddingInv, DeletingInv, LiveInv, ValidInv, ArmedInv, SourceInv, IteratorInv
  <2>4. LiveInv'
    BY DEF UnusedInv, AddingInv, DeletingInv, LiveInv, ValidInv, ArmedInv, SourceInv, IteratorInv
  <2>5. ValidInv'
    BY DEF UnusedInv, AddingInv, DeletingInv, LiveInv, ValidInv, ArmedInv, SourceInv, IteratorInv
  <2>6. ArmedInv'
    BY DEF UnusedInv, AddingInv, DeletingInv, LiveInv, ValidInv, ArmedInv, SourceInv, IteratorInv
  <2>7. SourceInv'
    BY DEF UnusedInv, AddingInv, DeletingInv, LiveInv, ValidInv, ArmedInv, SourceInv, IteratorInv
  <2>8. IteratorInv'
    BY DEF UnusedInv, AddingInv, DeletingInv, LiveInv, ValidInv, ArmedInv, SourceInv, IteratorInv
  <2>9. QED
    BY <2>1, <2>2, <2>3, <2>4, <2>5, <2>6, <2>7, <2>8
<1>13. CASE CallbackReturns
  <2> USE <1>13 DEF TimerInv, CallbackReturns
  <2>1. UnusedInv'
    BY DEF UnusedInv, AddingInv, DeletingInv, LiveInv, ValidInv, ArmedInv, SourceInv, IteratorInv
  <2>2. AddingInv'
    BY DEF UnusedInv, AddingInv, DeletingInv, LiveInv, ValidInv, ArmedInv, SourceInv, IteratorInv
  <2>3. DeletingInv'
    BY DEF UnusedInv, AddingInv, DeletingInv, LiveInv, ValidInv, ArmedInv, SourceInv, IteratorInv
  <2>4. LiveInv'
    BY DEF UnusedInv, AddingInv, DeletingInv, LiveInv, ValidInv, ArmedInv, SourceInv, IteratorInv
  <2>5. ValidInv'
    BY DEF UnusedInv, AddingInv, DeletingInv, LiveInv, ValidInv, ArmedInv, SourceInv, IteratorInv
  <2>6. ArmedInv'
    BY DEF UnusedInv, AddingInv, DeletingInv, LiveInv, ValidInv, ArmedInv, SourceInv, IteratorInv
  <2>7. SourceInv'
    BY DEF UnusedInv, AddingInv, DeletingInv, LiveInv, ValidInv, ArmedInv, SourceInv, IteratorInv
  <2>8. IteratorInv'
    BY DEF UnusedInv, AddingInv, DeletingInv, LiveInv, ValidInv, ArmedInv, SourceInv, IteratorInv
  <2>9. QED
    BY <2>1, <2>2, <2>3, <2>4, <2>5, <2>6, <2>7, <2>8
<1>14. CASE CallLoop
  BY <1>14 DEF CallLoop, TimerInv, UnusedInv, AddingInv, DeletingInv, LiveInv, ValidInv, ArmedInv, SourceInv, IteratorInv
<1>15. CASE LoadSignalFired
  BY <1>15 DEF LoadSignalFired, TimerInv, UnusedInv, AddingInv, DeletingInv, LiveInv, ValidInv, ArmedInv, SourceInv, IteratorInv
<1>16. CASE ClearSignalFired
  BY <1>16 DEF ClearSignalFired, TimerInv, UnusedInv, AddingInv, DeletingInv, LiveInv, ValidInv, ArmedInv, SourceInv, IteratorInv
<1>17. CASE ScanSignal
  BY <1>17 DEF ScanSignal, TakenFlag, TimerInv, UnusedInv, AddingInv, DeletingInv, LiveInv, ValidInv, ArmedInv, SourceInv, IteratorInv
<1>18. CASE ScanSource
  BY <1>18 DEF ScanSource, NextSignal, TimerInv, UnusedInv, AddingInv, DeletingInv, LiveInv, ValidInv, ArmedInv, SourceInv, IteratorInv
<1>19. CASE ScanTimer
  <2> USE <1>19 DEF TimerInv, ScanTimer, NextSignal, ScannedTimers, FirstSource, SourcesOf
  <2>1. UnusedInv'
    BY DEF UnusedInv, AddingInv, DeletingInv, LiveInv, ValidInv, ArmedInv, SourceInv, IteratorInv
  <2>2. AddingInv'
    BY DEF UnusedInv, AddingInv, DeletingInv, LiveInv, ValidInv, ArmedInv, SourceInv, IteratorInv
  <2>3. DeletingInv'
    BY DEF UnusedInv, AddingInv, DeletingInv, LiveInv, ValidInv, ArmedInv, SourceInv, IteratorInv
  <2>4. LiveInv'
    <3> SUFFICES ASSUME timID \in ScannedTimers \cap valid \cap fired
                 PROVE  LiveInv'
      BY DEF LiveInv
    <3> HIDE DEF FirstSource, SourcesOf
    <3>1. \A b \in SourcesOf(timID) : fate[b] = "live" /\ timer[timID] = b
      BY DEF SourcesOf, SourceInv, LiveInv
    <3>2. ASSUME NEW b \in Arming, fate[b] = "live", sival[b] = timID
          PROVE  FirstSource(timID) = {b}
      <4>1. b \in SourcesOf(timID)
        BY <3>2 DEF LiveInv, SourcesOf
      <4>2. SourcesOf(timID) = {b}
        BY <3>1, <4>1
      <4>3. QED
        BY <4>2 DEF FirstSource, Arming
    <3>3. \A b \in Arming : fate'[b] = "live" =>
             fate[b] = "live" /\ sival[b] # timID
      <4>1. CASE FirstSource(timID) = {}
        BY <3>2, <4>1
      <4>2. CASE FirstSource(timID) # {}
        <5>1. PICK c \in FirstSource(timID) :
                 fate' = [fate EXCEPT ![c] = "dispatched"]
          BY <4>2
        <5>2. QED
          BY <3>2, <5>1
      <4>3. QED
        BY <4>1, <4>2
    <3>4. QED
      BY <3>3 DEF LiveInv
  <2>5. ValidInv'
    BY DEF UnusedInv, AddingInv, DeletingInv, LiveInv, ValidInv, ArmedInv, SourceInv, IteratorInv
  <2>6. ArmedInv'
    BY DEF UnusedInv, AddingInv, DeletingInv, LiveInv, ValidInv, ArmedInv, SourceInv, IteratorInv
  <2>7. SourceInv'
    BY DEF UnusedInv, AddingInv, DeletingInv, LiveInv, ValidInv, ArmedInv, SourceInv, IteratorInv
  <2>8. IteratorInv'
    BY DEF UnusedInv, AddingInv, DeletingInv, LiveInv, ValidInv, ArmedInv, SourceInv, IteratorInv
  <2>9. QED
    BY <2>1, <2>2, <2>3, <2>4, <2>5, <2>6, <2>7, <2>8
<1>20. CASE EraseSource
  <2> USE <1>20 DEF TimerInv, EraseSource
  <2>1. UnusedInv'
    BY DEF UnusedInv, AddingInv, DeletingInv, LiveInv, ValidInv, ArmedInv, SourceInv, IteratorInv
  <2>2. AddingInv'
    BY DEF UnusedInv, AddingInv, DeletingInv, LiveInv, ValidInv, ArmedInv, SourceInv, IteratorInv
  <2>3. DeletingInv'
    BY DEF UnusedInv, AddingInv, DeletingInv, LiveInv, ValidInv, ArmedInv, SourceInv, IteratorInv
  <2>4. LiveInv'
    BY DEF UnusedInv, AddingInv, DeletingInv, LiveInv, ValidInv, ArmedInv, SourceInv, IteratorInv
  <2>5. ValidInv'
    BY DEF UnusedInv, AddingInv, DeletingInv, LiveInv, ValidInv, ArmedInv, SourceInv, IteratorInv
  <2>6. ArmedInv'
    BY DEF UnusedInv, AddingInv, DeletingInv, LiveInv, ValidInv, ArmedInv, SourceInv, IteratorInv
  <2>7. SourceInv'
    BY DEF UnusedInv, AddingInv, DeletingInv, LiveInv, ValidInv, ArmedInv, SourceInv, IteratorInv
  <2>8. IteratorInv'
    BY DEF UnusedInv, AddingInv, DeletingInv, LiveInv, ValidInv, ArmedInv, SourceInv, IteratorInv
  <2>9. QED
    BY <2>1, <2>2, <2>3, <2>4, <2>5, <2>6, <2>7, <2>8
<1>21. CASE Poll
  BY <1>21 DEF Poll, TimerInv, UnusedInv, AddingInv, DeletingInv, LiveInv, ValidInv, ArmedInv, SourceInv, IteratorInv
<1>22. CASE PollSkipped
  BY <1>22 DEF PollSkipped, TimerInv, UnusedInv, AddingInv, DeletingInv, LiveInv, ValidInv, ArmedInv, SourceInv, IteratorInv
<1>23. CASE DispatchFDs
  BY <1>23 DEF DispatchFDs, TimerInv, UnusedInv, AddingInv, DeletingInv, LiveInv, ValidInv, ArmedInv, SourceInv, IteratorInv
<1>24. CASE TestSignalFired
  BY <1>24 DEF TestSignalFired, TimerInv, UnusedInv, AddingInv, DeletingInv, LiveInv, ValidInv, ArmedInv, SourceInv, IteratorInv
<1>25. CASE UNCHANGED vars
  BY <1>25 DEF vars, TimerInv, UnusedInv, AddingInv, DeletingInv, LiveInv, ValidInv, ArmedInv, SourceInv, IteratorInv
<1>26. QED
  BY <1>1, <1>2, <1>3, <1>4, <1>5, <1>6, <1>7, <1>8, <1>9, <1>10, <1>11, <1>12,
     <1>13, <1>14, <1>15, <1>16, <1>17, <1>18, <1>19, <1>20, <1>21, <1>22,
     <1>23, <1>24, <1>25 DEF Next, ClientStep, LoopStep, Halted

(* SIGALRM is flagged whenever fired is set, and the scan that takes the   *)
(* flag starts at entry 0 and passes no entry that is valid and fired.     *)
LEMMA AnnouncedStep ==
    TypeOK /\ AddingInv /\ AnnouncedInv /\ [Next]_vars => AnnouncedInv'
<1> SUFFICES ASSUME TypeOK, AddingInv, AnnouncedInv, [Next]_vars
             PROVE  AnnouncedInv'
  OBVIOUS
<1> USE SignalAssumption, BoundAssumption
    DEF TypeOK, ControlOK, TimerOK, AnnouncedInv, Adding, InTimers, ScanPassed,
        Entry, ClientPC, Running, sigVars, passVars, scanVars, entryVars,
        timerVars, callVars, history
<1>1. ASSUME NEW s \in Signal, Deliver(s) PROVE AnnouncedInv'
  BY <1>1 DEF Deliver, sigHandler, WriteSelfPipe
<1>2. ASSUME NEW a \in Arming, Expire(a) PROVE AnnouncedInv'
  BY <1>2 DEF Expire, sigHandler, WriteSelfPipe
<1>3. ASSUME NEW s \in Signal, addSignal(s) PROVE AnnouncedInv'
  BY <1>3 DEF addSignal
<1>4. CASE addTimer
  BY <1>4 DEF addTimer, ResetFired
<1>5. CASE AddTimerRefused
  BY <1>5 DEF AddTimerRefused
<1>6. ASSUME NEW a \in Arming, delTimer(a) PROVE AnnouncedInv'
  BY <1>6 DEF delTimer, WithoutSource
<1>7. CASE PollFails
  BY <1>7 DEF PollFails
<1>8. CASE SetTime
  BY <1>8 DEF SetTime, AddingInv
<1>9. CASE SetTimeFails
  BY <1>9 DEF SetTimeFails
<1>10. CASE LoadValid
  BY <1>10 DEF LoadValid, FlagOK
<1>11. CASE StoreValid
  BY <1>11 DEF StoreValid, SetValid, FlagOK
<1>12. CASE DelValid
  BY <1>12 DEF DelValid
<1>13. CASE CallbackReturns
  BY <1>13 DEF CallbackReturns
<1>14. CASE CallLoop
  BY <1>14 DEF CallLoop
<1>15. CASE LoadSignalFired
  BY <1>15 DEF LoadSignalFired
<1>16. CASE ClearSignalFired
  BY <1>16 DEF ClearSignalFired
<1>17. CASE ScanSignal
  BY <1>17 DEF ScanSignal, TakenFlag
<1>18. CASE ScanSource
  BY <1>18 DEF ScanSource, NextSignal
<1>19. CASE ScanTimer
  BY <1>19 DEF ScanTimer, NextSignal, ScannedTimers, FirstSource, SourcesOf
<1>20. CASE EraseSource
  BY <1>20 DEF EraseSource
<1>21. CASE Poll
  BY <1>21 DEF Poll
<1>22. CASE PollSkipped
  BY <1>22 DEF PollSkipped
<1>23. CASE DispatchFDs
  BY <1>23 DEF DispatchFDs
<1>24. CASE TestSignalFired
  BY <1>24 DEF TestSignalFired
<1>25. CASE UNCHANGED vars
  BY <1>25 DEF vars
<1>26. QED
  BY <1>1, <1>2, <1>3, <1>4, <1>5, <1>6, <1>7, <1>8, <1>9, <1>10, <1>11, <1>12,
     <1>13, <1>14, <1>15, <1>16, <1>17, <1>18, <1>19, <1>20, <1>21, <1>22,
     <1>23, <1>24, <1>25 DEF Next, ClientStep, LoopStep, Halted

(* The inductive invariant of the timer side.                              *)
LEMMA TimerInvariant == Spec => [](TypeOK /\ TimerInv /\ AnnouncedInv)
<1>1. Init => TimerInv /\ AnnouncedInv
  <2> SUFFICES ASSUME Init PROVE TimerInv /\ AnnouncedInv
    OBVIOUS
  <2> USE BoundAssumption DEF Init, Adding, InErase, ClientPC
  <2>1. UnusedInv /\ AddingInv /\ DeletingInv /\ LiveInv
    BY DEF UnusedInv, AddingInv, DeletingInv, LiveInv
  <2>2. ValidInv /\ ArmedInv /\ SourceInv /\ IteratorInv
    BY DEF ValidInv, ArmedInv, SourceInv, IteratorInv
  <2>3. AnnouncedInv
    BY DEF AnnouncedInv
  <2>4. QED
    BY <2>1, <2>2, <2>3 DEF TimerInv
<1>2. TypeOK /\ TimerInv /\ AnnouncedInv /\ [Next]_vars
        => (TimerInv /\ AnnouncedInv)'
  BY TimerInvStep, AnnouncedStep DEF TimerInv
<1>3. QED
  BY <1>1, <1>2, TypeCorrect, PTL DEF Spec

(* The timer side, for any number of entries and of addTimer and delTimer  *)
(* calls, in callbacks or outside: no two timers of the client share an id,*)
(* a fired entry means its present timer has expired, and the loop is told *)
(* of it.                                                                  *)
THEOREM TimersSafe ==
    Spec => [](LiveTimerIdsUnique /\ FiredIsOwnExpiry /\ FlaggedTimerIsAnnounced)
<1>1. TypeOK /\ TimerInv => LiveTimerIdsUnique
  BY DEF TimerInv, LiveInv, LiveTimerIdsUnique
<1>2. TypeOK /\ TimerInv => FiredIsOwnExpiry
  BY DEF TimerInv, LiveInv, ValidInv, FiredIsOwnExpiry, SourcesOf
<1>3. TypeOK /\ AnnouncedInv => FlaggedTimerIsAnnounced
  BY DEF TypeOK, TimerOK, AnnouncedInv, FlaggedTimerIsAnnounced
<1>4. QED
  BY <1>1, <1>2, <1>3, TimerInvariant, PTL

(* Only the scan of loop() and the ends of addTimer and delTimer change    *)
(* what became of a timer.                                                 *)
LEMMA FateChanges ==
    ASSUME Next
    PROVE  ScanTimer \/ StoreValid \/ (\E a \in Arming : delTimer(a)) \/ UNCHANGED fate
BY DEF Next, ClientStep, LoopStep, Halted, vars, history, Deliver,
   Expire, addSignal, addTimer, AddTimerRefused, PollFails, SetTime,
   SetTimeFails, LoadValid, DelValid, CallbackReturns, CallLoop,
   LoadSignalFired, ClearSignalFired, ScanSignal, ScanSource,
   EraseSource, Poll, PollSkipped, DispatchFDs, TestSignalFired

(* timerEvent is called for a timer once, after its own expiry, and never  *)
(* after delTimer, whatever the entry was used for before.                 *)
THEOREM TimerEventsInOrder == Spec => TimerEventOnlyAfterExpiry
<1> DEFINE Step == \A a \in Arming :
              /\ TimerEvent(a) => fate[a] = "live" /\ ktimer[a] = "expired"
                                  /\ fate'[a] = "dispatched"
              /\ fate[a] \in {"dispatched", "deleted"} => fate'[a] = fate[a]
<1>1. TypeOK /\ TimerInv /\ Next => Step
  <2> SUFFICES ASSUME TypeOK, TimerInv, Next, NEW a \in Arming
               PROVE  /\ TimerEvent(a) => fate[a] = "live" /\ ktimer[a] = "expired"
                                          /\ fate'[a] = "dispatched"
                      /\ fate[a] \in {"dispatched", "deleted"} => fate'[a] = fate[a]
    OBVIOUS
  <2>1. ASSUME ScanTimer, NEW b \in FirstSource(timID), timID \in valid \cap fired
        PROVE  b \in Arming /\ fate[b] = "live" /\ ktimer[b] = "expired"
    <3>1. b \in timerSources /\ sival[b] = timID
      BY <2>1 DEF FirstSource, SourcesOf
    <3>2. pc = "timers" /\ mode = "run" /\ b \in Arming
      BY <2>1, <3>1 DEF ScanTimer, Running, TypeOK, TimerOK
    <3>3. fate[b] = "live"
      BY <3>1, <3>2 DEF TimerInv, SourceInv, Adding, InErase, ClientPC
    <3>4. timer[timID] = b
      BY <3>1, <3>2, <3>3 DEF TimerInv, LiveInv
    <3>5. QED
      BY <2>1, <3>2, <3>3, <3>4 DEF TimerInv, ValidInv
  <2>2. fate \in [Arming -> {"none", "live", "dispatched", "deleted"}]
    BY DEF TypeOK, TimerOK
  <2>3. ASSUME TimerEvent(a)
        PROVE  fate[a] = "live" /\ ktimer[a] = "expired" /\ fate'[a] = "dispatched"
    <3>1. ScanTimer
      BY <2>3 DEF TimerEvent, Next, ClientStep, LoopStep, Halted, vars, Deliver,
         Expire, addSignal, addTimer, AddTimerRefused, PollFails, SetTime,
         SetTimeFails, LoadValid, StoreValid, delTimer, DelValid, CallbackReturns,
         CallLoop, LoadSignalFired, ClearSignalFired, ScanSignal, ScanSource,
         EraseSource, Poll, PollSkipped, DispatchFDs, TestSignalFired
    <3>2. /\ timID \in valid \cap fired /\ a \in FirstSource(timID)
          /\ fate' = [fate EXCEPT ![a] = "dispatched"]
      BY <2>3, <3>1 DEF ScanTimer, TimerEvent, NextSignal
    <3>3. QED
      BY <2>1, <2>2, <3>1, <3>2
  <2>4. ASSUME fate[a] \in {"dispatched", "deleted"} PROVE fate'[a] = fate[a]
    <3>1. CASE ScanTimer
      <4>1. CASE UNCHANGED fate
        BY <4>1
      <4>2. CASE \E b \in FirstSource(timID) : /\ timID \in valid \cap fired
                                                /\ fate' = [fate EXCEPT ![b] = "dispatched"]
        <5>1. PICK b \in FirstSource(timID) :
                 /\ timID \in valid \cap fired
                 /\ fate' = [fate EXCEPT ![b] = "dispatched"]
          BY <4>2
        <5>2. b # a
          BY <2>1, <2>4, <3>1, <5>1
        <5>3. QED
          BY <2>2, <5>1, <5>2
      <4>3. QED
        BY <3>1, <4>1, <4>2 DEF ScanTimer
    <3>2. CASE StoreValid
      <4>1. nArm \in Arming /\ timer[entry] = nArm /\ fate[nArm] = "none"
        BY <3>2 DEF StoreValid, TimerInv, AddingInv, Adding
      <4>2. QED
        BY <2>2, <2>4, <3>2, <4>1 DEF StoreValid
    <3>3. ASSUME NEW b \in Arming, delTimer(b) PROVE fate'[a] = fate[a]
      BY <2>2, <2>4, <3>3 DEF delTimer
    <3>4. CASE UNCHANGED fate
      BY <3>4
    <3>5. QED
      BY <3>1, <3>2, <3>3, <3>4, FateChanges
  <2>5. QED
    BY <2>3, <2>4
<1>2. TypeOK /\ TimerInv /\ [Next]_vars => [Step]_vars
  BY <1>1
<1>3. QED
  BY <1>2, TimerInvariant, PTL DEF Spec, TimerEventOnlyAfterExpiry

----------------------------------------------------------------------------
(* The parts of SignalsSafe and TimersSafe, one by one.                    *)

(* loop() tells no source of a signal that was not delivered: the passes   *)
(* over a signal's sources never outnumber its deliveries (line 312).      *)
THEOREM NoSpuriousDispatchHolds == Spec => []NoSpuriousDispatch
BY SignalsSafe, PTL

(* Two timers a client holds never have the same id (addTimer, delTimer).  *)
THEOREM LiveTimerIdsUniqueHolds == Spec => []LiveTimerIdsUnique
BY TimersSafe, PTL

(* A flagged table entry is announced by SIGALRM's flag or lies ahead of   *)
(* the scan of loop() (line 317).                                          *)
THEOREM FlaggedTimerIsAnnouncedHolds == Spec => []FlaggedTimerIsAnnounced
BY TimersSafe, PTL
=============================================================================
