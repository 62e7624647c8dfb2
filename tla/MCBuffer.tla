------------------------------- MODULE MCBuffer -------------------------------
(* Instances of Buffer small enough for TLC.                               *)
EXTENDS Buffer
=============================================================================
