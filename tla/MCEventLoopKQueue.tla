-------------------------- MODULE MCEventLoopKQueue --------------------------
(* The instance of EventLoopKQueue that TLC checks.                          *)
EXTENDS EventLoopKQueue

MCWanted == {{"read"}, {"read", "write"}}
=============================================================================
