----------------------------- MODULE MCTimerQueue -----------------------------
(* Instances of TimerQueue small enough for TLC.                           *)
EXTENDS TimerQueue, TLC

(* Addresses are interchangeable: the order among timers due at the same   *)
(* tick is left open.                                                      *)
Symmetry == Permutations(Addrs)
=============================================================================
