----------------------------- MODULE MCThreadPool -----------------------------
(* Instances of ThreadPool small enough for TLC.                           *)
EXTENDS ThreadPool
=============================================================================
