----------------------------- MODULE MCEventLoop -----------------------------
(* Instances of EventLoop small enough for TLC.                            *)
EXTENDS EventLoop
=============================================================================
