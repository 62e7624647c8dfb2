------------------------------ MODULE EventLoop ------------------------------
(***************************************************************************)
(* One EventLoop (src/net/EventLoop.cc): the thread that owns it runs      *)
(* loop(), the other threads hand it functors through pendingFunctors_ and *)
(* wake it through an eventfd.                                             *)
(*                                                                         *)
(* The push of a functor (under mutex_) and the write to the eventfd are   *)
(* two steps of the calling thread; so are the store to quit_ and the      *)
(* write.  The loop thread's own calls are one step: nobody can observe    *)
(* the loop thread between its push and its write.                         *)
(***************************************************************************)
EXTENDS Naturals, Sequences

CONSTANTS
  Functors,    \* the functors the program hands to the loop, each once
  Callers,     \* the threads other than the loop thread
  Channels,    \* the user's channels registered with the poller
  Wakeup,      \* wakeupChannel_
  EventfdMax   \* the largest count the eventfd holds (2^64 - 2)

ASSUME WakeupAssumption == Wakeup \notin Channels
ASSUME EventfdAssumption == EventfdMax \in Nat \ {0}

VARIABLES
  loopPc,                  \* where the loop thread is, see LoopPcs
  quit_,
  callingPendingFunctors_,
  activeChannels_,         \* channels the last poll returned, not yet handled
  readable,                \* user channels the kernel holds ready
  wakeups,                 \* the eventfd's count
  pendingFunctors_,
  functors,                \* doPendingFunctors's local vector, not yet run
  callerPc,                \* per caller: "idle", or "wakeup" before its write
  submitted,               \* functors handed to runInLoop or queueInLoop
  executed,                \* queued functors in the order they were run
  early                    \* functors the loop thread queued outside loop()

loopVars  == <<loopPc, quit_, callingPendingFunctors_, activeChannels_,
               readable, functors>>
queueVars == <<wakeups, pendingFunctors_, submitted, executed, early>>
vars      == <<loopVars, queueVars, callerPc>>

(* "init": constructed; "while": about to test quit_; "poll": in           *)
(* epoll_wait; "handle": walking activeChannels_; "callback": inside a     *)
(* channel's callback; "functors": walking the swapped vector; "functor":  *)
(* inside one of them; "exited": loop() has returned.                      *)
LoopPcs == {"init", "while", "poll", "handle", "callback", "functors",
            "functor", "exited"}

Init ==
  /\ loopPc = "init"
  /\ quit_ = FALSE
  /\ callingPendingFunctors_ = FALSE
  /\ activeChannels_ = {}
  /\ readable = {}
  /\ wakeups = 0
  /\ pendingFunctors_ = <<>>
  /\ functors = <<>>
  /\ callerPc = [t \in Callers |-> "idle"]
  /\ submitted = {}
  /\ executed = <<>>
  /\ early = {}

-----------------------------------------------------------------------------
(* The eventfd, and the two halves of queueInLoop.                         *)

(* wakeup(): a write the eventfd has no room for fails and is only logged. *)
Signal(n) == IF n < EventfdMax THEN n + 1 ELSE n

(* Mutant of Push: the newest functor is put first.                        *)
PushFront(f) ==
  /\ f \in Functors \ submitted
  /\ submitted' = submitted \cup {f}
  /\ pendingFunctors_' = <<f>> \o pendingFunctors_

(* The critical section of queueInLoop.                                    *)
Push(f) ==
  /\ f \in Functors \ submitted
  /\ submitted' = submitted \cup {f}
  /\ pendingFunctors_' = Append(pendingFunctors_, f)

-----------------------------------------------------------------------------
(* The loop thread.                                                        *)

(* loop() is entered: quit_ is reset before it is first tested.            *)
Loop ==
  /\ loopPc \in {"init", "exited"}
  /\ quit_' = FALSE
  /\ loopPc' = "while"
  /\ UNCHANGED <<callingPendingFunctors_, activeChannels_, readable, functors,
                 queueVars, callerPc>>

TestQuit ==
  /\ loopPc = "while"
  /\ loopPc' = IF quit_ THEN "exited" ELSE "poll"
  /\ activeChannels_' = {}
  /\ UNCHANGED <<quit_, callingPendingFunctors_, readable, functors,
                 queueVars, callerPc>>

Ready == readable \cup (IF wakeups > 0 THEN {Wakeup} ELSE {})

(* epoll_wait returns some of the ready channels: all that fit in events_. *)
Poll ==
  /\ loopPc = "poll"
  /\ \E active \in SUBSET Ready \ {{}} : activeChannels_' = active
  /\ loopPc' = "handle"
  /\ UNCHANGED <<quit_, callingPendingFunctors_, readable, functors,
                 queueVars, callerPc>>

(* epoll_wait returns nothing: EINTR, or kPollTimeMs (24 days) went by.    *)
PollNothing ==
  /\ loopPc = "poll"
  /\ loopPc' = "handle"
  /\ UNCHANGED <<quit_, callingPendingFunctors_, activeChannels_, readable,
                 functors, queueVars, callerPc>>

(* The wakeup channel's handleRead: one read takes the whole count.        *)
HandleRead ==
  /\ loopPc = "handle"
  /\ Wakeup \in activeChannels_
  /\ activeChannels_' = activeChannels_ \ {Wakeup}
  /\ wakeups' = 0
  /\ UNCHANGED <<loopPc, quit_, callingPendingFunctors_, readable, functors,
                 pendingFunctors_, submitted, executed, early, callerPc>>

(* A user channel's callback begins; it may or may not drain its fd.       *)
HandleEvent(c) ==
  /\ loopPc = "handle"
  /\ c \in activeChannels_ \ {Wakeup}
  /\ activeChannels_' = activeChannels_ \ {c}
  /\ readable' \in {readable, readable \ {c}}
  /\ loopPc' = "callback"
  /\ UNCHANGED <<quit_, callingPendingFunctors_, functors, queueVars, callerPc>>

CallbackReturn ==
  /\ loopPc = "callback"
  /\ loopPc' = "handle"
  /\ UNCHANGED <<quit_, callingPendingFunctors_, activeChannels_, readable,
                 functors, queueVars, callerPc>>

(* doPendingFunctors up to its loop: the flag, then the swap under mutex_. *)
DoPendingFunctors ==
  /\ loopPc = "handle"
  /\ activeChannels_ = {}
  /\ callingPendingFunctors_' = TRUE
  /\ functors' = pendingFunctors_
  /\ pendingFunctors_' = <<>>
  /\ loopPc' = "functors"
  /\ UNCHANGED <<quit_, activeChannels_, readable, wakeups, submitted,
                 executed, early, callerPc>>

RunFunctor ==
  /\ loopPc = "functors"
  /\ functors /= <<>>
  /\ functors' = Tail(functors)
  /\ executed' = Append(executed, Head(functors))
  /\ loopPc' = "functor"
  /\ UNCHANGED <<quit_, callingPendingFunctors_, activeChannels_, readable,
                 wakeups, pendingFunctors_, submitted, early, callerPc>>

FunctorReturn ==
  /\ loopPc = "functor"
  /\ loopPc' = "functors"
  /\ UNCHANGED <<quit_, callingPendingFunctors_, activeChannels_, readable,
                 functors, queueVars, callerPc>>

FunctorsDone ==
  /\ loopPc = "functors"
  /\ functors = <<>>
  /\ callingPendingFunctors_' = FALSE
  /\ loopPc' = "while"
  /\ UNCHANGED <<quit_, activeChannels_, readable, functors, queueVars, callerPc>>

-----------------------------------------------------------------------------
(* Calls user code makes in the loop thread: before loop(), in a callback, *)
(* in a functor, after loop().                                             *)

OutsideLoop == loopPc \in {"init", "exited"}
InUserCode  == OutsideLoop \/ loopPc \in {"callback", "functor"}

(* runInLoop: in the loop thread the functor runs at once, ahead of every  *)
(* queued one.                                                             *)
RunInLoopInline(f) ==
  /\ InUserCode
  /\ f \in Functors \ submitted
  /\ submitted' = submitted \cup {f}
  /\ UNCHANGED <<loopVars, wakeups, pendingFunctors_, executed, early, callerPc>>

(* Mutant of WakesItself: only other threads wake the loop.                *)
WakesNever == FALSE

(* queueInLoop's second condition, for a functor queued by a functor.      *)
WakesItself == callingPendingFunctors_

LoopQueueInLoop(f) ==
  /\ InUserCode
  /\ Push(f)
  /\ wakeups' = IF WakesItself THEN Signal(wakeups) ELSE wakeups
  /\ early' = IF OutsideLoop THEN early \cup {f} ELSE early
  /\ UNCHANGED <<loopVars, executed, callerPc>>

(* quit() in the loop thread does not write the eventfd.                   *)
LoopQuit ==
  /\ InUserCode
  /\ quit_' = TRUE
  /\ UNCHANGED <<loopPc, callingPendingFunctors_, activeChannels_, readable,
                 functors, queueVars, callerPc>>

-----------------------------------------------------------------------------
(* Calls of the other threads; runInLoop is queueInLoop there.             *)

CallerQueueInLoop(t, f) ==
  /\ callerPc[t] = "idle"
  /\ Push(f)
  /\ callerPc' = [callerPc EXCEPT ![t] = "wakeup"]
  /\ UNCHANGED <<loopVars, wakeups, executed, early>>

(* Mutant of CallerQuit: no wakeup().                                      *)
CallerQuitSilently(t) ==
  /\ callerPc[t] = "idle"
  /\ quit_' = TRUE
  /\ UNCHANGED <<loopPc, callingPendingFunctors_, activeChannels_, readable,
                 functors, queueVars, callerPc>>

CallerQuit(t) ==
  /\ callerPc[t] = "idle"
  /\ quit_' = TRUE
  /\ callerPc' = [callerPc EXCEPT ![t] = "wakeup"]
  /\ UNCHANGED <<loopPc, callingPendingFunctors_, activeChannels_, readable,
                 functors, queueVars>>

CallerWakeup(t) ==
  /\ callerPc[t] = "wakeup"
  /\ wakeups' = Signal(wakeups)
  /\ callerPc' = [callerPc EXCEPT ![t] = "idle"]
  /\ UNCHANGED <<loopVars, pendingFunctors_, submitted, executed, early>>

(* The network: a user channel becomes ready.                              *)
Arrive(c) ==
  /\ c \in Channels \ readable
  /\ readable' = readable \cup {c}
  /\ UNCHANGED <<loopPc, quit_, callingPendingFunctors_, activeChannels_,
                 functors, queueVars, callerPc>>

-----------------------------------------------------------------------------
(* The steps the loop thread takes by itself, once it is in loop().        *)
LoopStep ==
  \/ TestQuit \/ Poll \/ HandleRead \/ (\E c \in Channels : HandleEvent(c))
  \/ CallbackReturn \/ DoPendingFunctors \/ RunFunctor \/ FunctorReturn
  \/ FunctorsDone

Next ==
  \/ Loop
  \/ LoopStep
  \/ PollNothing
  \/ \E f \in Functors : RunInLoopInline(f) \/ LoopQueueInLoop(f)
  \/ LoopQuit
  \/ \E t \in Callers : \/ \E f \in Functors : CallerQueueInLoop(t, f)
                        \/ CallerQuit(t)
                        \/ CallerWakeup(t)
  \/ \E c \in Channels : Arrive(c)

Spec == Init /\ [][Next]_vars

(* The scheduler runs every thread that can run, callbacks return, and the *)
(* owner of a new loop calls loop() (EventLoopThread::threadFunc).         *)
(* Nothing forces a timeout, an arrival, a call by user code or a second   *)
(* loop().                                                                 *)
Fairness ==
  /\ WF_vars(LoopStep)
  /\ WF_vars(loopPc = "init" /\ Loop)
  /\ \A t \in Callers : WF_vars(CallerWakeup(t))

FairSpec == Spec /\ Fairness

-----------------------------------------------------------------------------
TypeOK ==
  /\ loopPc \in LoopPcs
  /\ quit_ \in BOOLEAN
  /\ callingPendingFunctors_ \in BOOLEAN
  /\ activeChannels_ \subseteq Channels \cup {Wakeup}
  /\ readable \subseteq Channels
  /\ wakeups \in 0..EventfdMax
  /\ pendingFunctors_ \in Seq(Functors)
  /\ functors \in Seq(Functors)
  /\ callerPc \in [Callers -> {"idle", "wakeup"}]
  /\ submitted \subseteq Functors
  /\ executed \in Seq(Functors)
  /\ early \subseteq Functors

(* The eventfd is set, or a caller is about to set it.                     *)
WakeupComing == wakeups > 0 \/ \E t \in Callers : callerPc[t] = "wakeup"

(* Elements of a sequence.                                                 *)
Elements(s) == {s[i] : i \in DOMAIN s}

(* The loop never blocks in epoll_wait over a functor nobody will wake it  *)
(* for (queueInLoop, lines 185-196, against doPendingFunctors, 234-251).   *)
(* The one exception is what queueInLoop's condition leaves out: functors  *)
(* the loop thread itself queued while loop() was not running.             *)
NoLostWakeup ==
  loopPc = "poll" /\ ~ (Elements(pendingFunctors_) \subseteq early) => WakeupComing

(* quit() is never slept over: a loop blocked in epoll_wait with quit_ set *)
(* has a wakeup coming (quit, lines 121-129, against loop, 94-114).        *)
NoLostQuit == loopPc = "poll" /\ quit_ => WakeupComing

(* Every functor handed over by another thread, or by the loop thread      *)
(* inside loop(), is run, unless loop() returns.                           *)
EveryFunctorRuns ==
  \A f \in Functors :
    f \in Elements(pendingFunctors_) \ early
      ~> f \in Elements(executed) \/ loopPc = "exited"

(* Once loop() has been entered, quit() from any thread makes it return.   *)
QuitStopsLoop == quit_ /\ loopPc /= "init" ~> loopPc = "exited"

(* The loop implements LoopExecutor: what was swapped out and what is      *)
(* still pending are together the executor's queue.                        *)
Executor == INSTANCE LoopExecutor WITH
  active <- ~ OutsideLoop,
  todo   <- functors \o pendingFunctors_,
  done   <- executed

ImplementsExecutor == Executor!ExecSpec
=============================================================================
