-------------------------- MODULE MCEventLoopThread --------------------------
(* Instances of EventLoopThread small enough for TLC.                      *)
EXTENDS EventLoopThread
=============================================================================
