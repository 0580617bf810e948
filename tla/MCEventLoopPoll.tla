-------------------------- MODULE MCEventLoopPoll --------------------------
(***************************************************************************)
(* EventLoopPoll for TLC; the cfg files give the constants their values.   *)
(* The formula below states what a comment says of the driver; a run of its*)
(* own shows a behaviour of the code against it.                           *)
(***************************************************************************)
EXTENDS EventLoopPoll

(* Event-Poll.cc:299 "in case signal fired outwith a poll iteration, not to*)
(* wait forever": every delivered signal reaches its sources.  A delivery  *)
(* between lines 302 and 303 has its flag wiped out.                       *)
EverySignalIsDispatched ==
    \A k \in 1 .. MaxSources : k \in owed ~> (k \notin owed \/ mode # "run")
=============================================================================
