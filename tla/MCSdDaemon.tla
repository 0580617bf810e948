----------------------------- MODULE MCSdDaemon -----------------------------
(* The instance of SdDaemon that TLC checks: three descriptors of different  *)
(* kinds, and an environment meant for the daemon with each variable spoilt  *)
(* in every way; with IntMax 7, 17 narrows to 1, 18 to 2 and 12 to -4.       *)
EXTENDS SdDaemon, TLC

MCPassed ==
  (3 :> [type |-> "sock", node |-> "sock", kind |-> "stream", listening |-> TRUE, family |-> "unix",
         addr |-> "any", port |-> 0, ns |-> "path"]) @@
  (4 :> [type |-> "sock", node |-> "sock", kind |-> "dgram", listening |-> FALSE, family |-> "inet",
         addr |-> "lo", port |-> 80, ns |-> "unnamed"]) @@
  (5 :> [type |-> "fifo", node |-> "A"])

Neutral == [listenPid |-> Unset, listenFds |-> Unset, names |-> "unset", notify |-> TRUE,
            usec |-> Unset, wdPid |-> Unset]

Ours == [Neutral EXCEPT !.listenPid = SelfPid, !.listenFds = 2, !.usec = 5]

MCEnvs ==
  {[Ours EXCEPT !.listenPid = p] : p \in {Unset, Bad, Huge, 0, 1, 2, 12, 17}}
  \cup {[Ours EXCEPT !.listenFds = n] : n \in {Unset, Bad, Huge, 0, 4, 5, 12, 18}}
  \cup {[Ours EXCEPT !.usec = u] : u \in {Unset, Bad, Huge, 0}}
  \cup {[Ours EXCEPT !.wdPid = p] : p \in {Bad, Huge, 0, 1, 2, 17}}
  \cup {[Ours EXCEPT !.names = n] : n \in {"empty", "two"}}
  \cup {[Ours EXCEPT !.notify = FALSE]}
=============================================================================
