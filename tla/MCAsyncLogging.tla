---------------------------- MODULE MCAsyncLogging ----------------------------
(* Instances of AsyncLogging small enough for TLC.                         *)
EXTENDS AsyncLogging
=============================================================================
