---------------------------- MODULE LoopExecutor ----------------------------
(***************************************************************************)
(* What an EventLoop promises to those who queue functors: each is run at  *)
(* most once, by the loop, in the order of queueing, only while loop() is  *)
(* active, and none is forgotten while it waits.                           *)
(***************************************************************************)
EXTENDS Sequences

CONSTANT Functors

VARIABLES
  active,   \* loop() is running
  todo,     \* queued, not yet run
  done      \* run, in order

execVars == <<active, todo, done>>

ExecInit == active = FALSE /\ todo = <<>> /\ done = <<>>

Unused(f) ==
  /\ \A i \in DOMAIN todo : todo[i] /= f
  /\ \A i \in DOMAIN done : done[i] /= f

Submit(f) ==
  /\ Unused(f)
  /\ todo' = Append(todo, f)
  /\ UNCHANGED <<active, done>>

Execute ==
  /\ active
  /\ todo /= <<>>
  /\ done' = Append(done, Head(todo))
  /\ todo' = Tail(todo)
  /\ UNCHANGED active

Start == ~ active /\ active' = TRUE /\ UNCHANGED <<todo, done>>
Stop  == active /\ active' = FALSE /\ UNCHANGED <<todo, done>>

ExecNext == (\E f \in Functors : Submit(f)) \/ Execute \/ Start \/ Stop

ExecSpec == ExecInit /\ [][ExecNext]_execVars
=============================================================================
