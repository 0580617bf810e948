----------------------------- MODULE RPCService -----------------------------
(* What a caller is promised of a remote call, whatever the transport does:  *)
(* the method runs at most once, a call is settled at most once, and it is   *)
(* settled with success only after the method has run for that very call.    *)
(* A call may fail although the method has run or is still to run: the       *)
(* caller learns only that no reply came in time.                            *)

CONSTANT Calls                  \* the calls a program makes

VARIABLES executed,             \* the calls whose method has run
          outcome               \* what the caller knows of each call

svcVars == <<executed, outcome>>

Outcomes == {"none", "called", "success", "error", "timeout"}

Init == /\ executed = {}
        /\ outcome = [c \in Calls |-> "none"]

Invoke(c) == /\ outcome[c] = "none"
             /\ outcome' = [outcome EXCEPT ![c] = "called"]
             /\ UNCHANGED executed

Execute(c) == /\ outcome[c] # "none"
              /\ c \notin executed
              /\ executed' = executed \cup {c}
              /\ UNCHANGED outcome

(* Both a result and an error object are written by the method's server.     *)
Settle(c) == /\ outcome[c] = "called"
             /\ c \in executed
             /\ \E o \in {"success", "error"} : outcome' = [outcome EXCEPT ![c] = o]
             /\ UNCHANGED executed

GiveUp(c) == /\ outcome[c] = "called"
             /\ outcome' = [outcome EXCEPT ![c] = "timeout"]
             /\ UNCHANGED executed

Next == \E c \in Calls : Invoke(c) \/ Execute(c) \/ Settle(c) \/ GiveUp(c)

Spec == Init /\ [][Next]_svcVars
=============================================================================
