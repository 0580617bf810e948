---------------------------- MODULE TimerService ----------------------------
(* What an event loop promises of a timer (src/hdr/eci/Event.hh): it fires   *)
(* at most once, not before its time, and not after it has been deleted.     *)

CONSTANT Timers

VARIABLE state      \* of each timer

States == {"idle", "armed", "expired", "fired", "deleted"}

Init == state = [t \in Timers |-> "idle"]

Step(t, from, to) == state[t] \in from /\ state' = [state EXCEPT ![t] = to]

Next == \E t \in Timers : \/ Step(t, {"idle"}, "armed")
                          \/ Step(t, {"armed"}, "expired")
                          \/ Step(t, {"expired"}, "fired")
                          \/ Step(t, {"armed", "expired"}, "deleted")

Spec == Init /\ [][Next]_state
=============================================================================
