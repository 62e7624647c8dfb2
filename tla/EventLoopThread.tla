--------------------------- MODULE EventLoopThread ---------------------------
(***************************************************************************)
(* An EventLoopThread (src/net/EventLoopThread.cc): the owner starts a     *)
(* thread, the thread builds an EventLoop on its stack, publishes it in    *)
(* loop_ and runs it; the owner's destructor reads loop_ without the lock, *)
(* quits the loop and joins.  The loop is the one of module EventLoop; the *)
(* owner is its only caller.                                               *)
(***************************************************************************)
EXTENDS EventLoop

CONSTANT Owner    \* the thread that owns the EventLoopThread

ASSUME OwnerAssumption == Callers = {Owner}

VARIABLES
  loop_,      \* is loop_ non-NULL?
  threadPc,   \* "none", "construct", "publish", "run", "unlock", "end"
  ownerPc,    \* "new", "starting", "started", "quitting", "joining", "gone"
  dangling,   \* the calls made on an EventLoop that no longer exists
  selfQuit    \* has a functor called quit() on the loop it runs in?

threadVars == <<loop_, threadPc, ownerPc, dangling, selfQuit>>
allVars    == <<vars, threadVars>>

ThreadInit ==
  /\ Init
  /\ loop_ = FALSE /\ threadPc = "none" /\ ownerPc = "new"
  /\ dangling = {} /\ selfQuit = FALSE

-----------------------------------------------------------------------------
(* threadFunc.                                                             *)

Construct ==
  /\ threadPc = "construct"
  /\ threadPc' = "publish"
  /\ UNCHANGED <<vars, loop_, ownerPc, dangling, selfQuit>>

Publish ==
  /\ threadPc = "publish"
  /\ loop_' = TRUE
  /\ threadPc' = "run"
  /\ UNCHANGED <<vars, ownerPc, dangling, selfQuit>>

(* loop.loop(); a functor the owner handed over may call quit().           *)
RunLoop ==
  /\ threadPc = "run"
  /\ \/ loopPc = "init" /\ Loop
     \/ LoopStep
  /\ UNCHANGED threadVars

RunLoopTimeout ==
  /\ threadPc = "run"
  /\ PollNothing
  /\ UNCHANGED threadVars

QuitInFunctor ==
  /\ threadPc = "run" /\ loopPc = "functor"
  /\ LoopQuit
  /\ selfQuit' = TRUE
  /\ UNCHANGED <<loop_, threadPc, ownerPc, dangling>>

Clear ==
  /\ threadPc = "run" /\ loopPc = "exited"
  /\ loop_' = FALSE
  /\ threadPc' = "unlock"
  /\ UNCHANGED <<vars, ownerPc, dangling, selfQuit>>

(* The lock guard unlocks mutex_, then the EventLoop is destroyed.         *)
ThreadEnd ==
  /\ threadPc = "unlock"
  /\ threadPc' = "end"
  /\ UNCHANGED <<vars, loop_, ownerPc, dangling, selfQuit>>

-----------------------------------------------------------------------------
(* The owner.                                                              *)

(* Thread::start, whose latch is down before threadFunc begins.            *)
StartLoop ==
  /\ ownerPc = "new"
  /\ ownerPc' = "starting" /\ threadPc' = "construct"
  /\ UNCHANGED <<vars, loop_, dangling, selfQuit>>

(* Mutant of LoopPublished: startLoop does not wait for loop_.             *)
LoopNotAwaited ==
  /\ ownerPc = "starting"
  /\ ownerPc' = "started"
  /\ UNCHANGED <<vars, loop_, threadPc, dangling, selfQuit>>

(* The wait in startLoop ends.                                             *)
LoopPublished ==
  /\ ownerPc = "starting" /\ loop_
  /\ ownerPc' = "started"
  /\ UNCHANGED <<vars, loop_, threadPc, dangling, selfQuit>>

LoopExists == threadPc /= "end"

(* runInLoop on the pointer startLoop returned.                            *)
OwnerRunInLoop(f) ==
  /\ ownerPc = "started"
  /\ IF LoopExists
     THEN CallerQueueInLoop(Owner, f) /\ UNCHANGED dangling
     ELSE UNCHANGED vars /\ dangling' = dangling \cup {"runInLoop"}
  /\ UNCHANGED <<loop_, threadPc, ownerPc, selfQuit>>

(* ~EventLoopThread with loop_ == NULL: neither quit nor join.             *)
DestroyNull ==
  /\ ownerPc \in {"new", "started"} /\ ~ loop_ /\ callerPc[Owner] = "idle"
  /\ ownerPc' = "gone"
  /\ UNCHANGED <<vars, loop_, threadPc, dangling, selfQuit>>

Destroy ==
  /\ ownerPc = "started" /\ loop_ /\ callerPc[Owner] = "idle"
  /\ ownerPc' = "quitting"
  /\ UNCHANGED <<vars, loop_, threadPc, dangling, selfQuit>>

(* loop_->quit(): on the loop while it exists, if the pointer is the one   *)
(* just tested; or on NULL, if loop_ is read anew after the thread cleared *)
(* it, or on a loop that is gone.                                          *)
DestroyQuit ==
  /\ ownerPc = "quitting"
  /\ ownerPc' = "joining"
  /\ \/ LoopExists /\ CallerQuit(Owner) /\ UNCHANGED dangling
     \/ ~ loop_ /\ UNCHANGED vars /\ dangling' = dangling \cup {"quit"}
  /\ UNCHANGED <<loop_, threadPc, selfQuit>>

(* The eventfd write that ends every call of the owner.                    *)
OwnerWakeup ==
  /\ IF LoopExists
     THEN CallerWakeup(Owner) /\ UNCHANGED dangling
     ELSE /\ callerPc[Owner] = "wakeup"
          /\ callerPc' = [callerPc EXCEPT ![Owner] = "idle"]
          /\ dangling' = dangling \cup {"wakeup"}
          /\ UNCHANGED <<loopVars, queueVars>>
  /\ UNCHANGED <<loop_, threadPc, ownerPc, selfQuit>>

Join ==
  /\ ownerPc = "joining" /\ callerPc[Owner] = "idle" /\ threadPc = "end"
  /\ ownerPc' = "gone"
  /\ UNCHANGED <<vars, loop_, threadPc, dangling, selfQuit>>

-----------------------------------------------------------------------------
ThreadStep == Construct \/ Publish \/ RunLoop \/ Clear \/ ThreadEnd
OwnerStep  == LoopPublished \/ DestroyQuit \/ OwnerWakeup \/ Join

ThreadNext ==
  \/ ThreadStep \/ RunLoopTimeout \/ QuitInFunctor
  \/ OwnerStep \/ StartLoop \/ DestroyNull \/ Destroy
  \/ \E f \in Functors : OwnerRunInLoop(f)

ThreadSpec == ThreadInit /\ [][ThreadNext]_allVars

(* Both threads are scheduled; the owner finishes the call it is in.       *)
ThreadFairSpec == ThreadSpec /\ WF_allVars(ThreadStep) /\ WF_allVars(OwnerStep)

-----------------------------------------------------------------------------
ThreadTypeOK ==
  /\ TypeOK
  /\ loop_ \in BOOLEAN /\ selfQuit \in BOOLEAN
  /\ dangling \subseteq {"runInLoop", "quit", "wakeup"}
  /\ threadPc \in {"none", "construct", "publish", "run", "unlock", "end"}
  /\ ownerPc \in {"new", "starting", "started", "quitting", "joining", "gone"}

(* As long as no functor quits its own loop, the unlocked reads of loop_   *)
(* are safe whenever the owner destroys the EventLoopThread: the owner     *)
(* calls runInLoop and quit() on an EventLoop that exists, with the wakeup *)
(* that ends quit() as the one exception, and the EventLoopThread, whose   *)
(* mutex_ and loop_ threadFunc uses to its last line, outlives the thread  *)
(* (lines 18-26 against 30-44).                                            *)
OwnerSafe ==
  ~ selfQuit =>
    /\ dangling \subseteq {"wakeup"}
    /\ dangling /= {} => ownerPc \in {"joining", "gone"}
    /\ ownerPc = "gone" => threadPc \in {"none", "end"}

(* The destructor of an EventLoopThread returns, whatever the loop is      *)
(* doing once it has been entered: quit() stops it and join() comes back   *)
(* (lines 21-24).  A quit() before loop() is the case left out.            *)
DestructorReturns == ownerPc = "quitting" /\ loopPc /= "init" ~> ownerPc = "gone"

(* What does not hold: the owner never uses an EventLoop that is gone, the *)
(* EventLoopThread always outlives its thread, the destructor always       *)
(* returns.                                                                *)
NoUseAfterDestroy == dangling = {}
OutlivesThread    == ownerPc = "gone" => threadPc \in {"none", "end"}
AlwaysReturns     == ownerPc = "quitting" ~> ownerPc = "gone"
=============================================================================
