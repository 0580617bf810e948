-------------------------- MODULE MCWSRPCTransport --------------------------
(* The instances of WSRPCTransport that TLC checks: two synchronous calls,   *)
(* so that one can be made while the other waits, an asynchronous one, and a *)
(* request of the peer to nest them in.                                      *)
EXTENDS WSRPCTransport

(* WSRPC.hh:193-195 of awaitReply: "Returns true if such a reply arrives.    *)
(* Completion is correspondingly completed."  A call completed with its      *)
(* reply does not return a timeout, also when the reply came while a nested  *)
(* call waited.  Line 364 goes back to poll() for a reply that has already   *)
(* come, line 312 sets kReplyTimeout, and the stub returns that.             *)
CompletedCallReturnsReply ==
  \A c \in SyncCalls : ret[c] # "none" /\ done[c] = <<c>> => ret[c] # "timeout"
=============================================================================
