--------------------------- MODULE EventLoopProofs ---------------------------
(***************************************************************************)
(* For every set of functors, callers and channels, and every capacity of  *)
(* the eventfd: EventLoop is type correct, never sleeps over a functor or  *)
(* a quit(), and runs queued functors as LoopExecutor promises.            *)
(***************************************************************************)
EXTENDS EventLoop, SequenceTheorems, TLAPS

(* The flag and the local vector of doPendingFunctors follow the phase.    *)
PhaseInv ==
  /\ callingPendingFunctors_ <=> loopPc \in {"functors", "functor"}
  /\ loopPc \notin {"functors", "functor"} => functors = <<>>

(* Wherever the loop may reach epoll_wait without another swap, a pending  *)
(* functor has a wakeup.  "handle" and "callback" are left out: there the  *)
(* eventfd may already be drained, and the swap is still to come.          *)
CoveredInv ==
  loopPc \notin {"handle", "callback"} /\ ~ (Elements(pendingFunctors_) \subseteq early)
    => WakeupComing

(* Only submitted functors are in the loop's hands.                        *)
SubmittedInv ==
  Elements(functors) \cup Elements(pendingFunctors_) \cup Elements(executed)
    \subseteq submitted

IInv == TypeOK /\ PhaseInv /\ CoveredInv /\ NoLostQuit /\ SubmittedInv

(* A newly constructed EventLoop is well typed.                            *)
LEMMA InitTypeOK == Init => TypeOK
<1>1. <<>> \in Seq(Functors) OBVIOUS
<1>2. Init => callerPc \in [Callers -> {"idle", "wakeup"}] BY DEF Init
<1>3. Init => wakeups \in 0..EventfdMax BY EventfdAssumption DEF Init
<1>4. Init => activeChannels_ \subseteq Channels \cup {Wakeup} BY DEF Init
<1>5. QED BY <1>1, <1>2, <1>3, <1>4 DEF Init, TypeOK, LoopPcs

(* Every step of the loop thread, of a caller and of the network keeps the *)
(* variables in their types: one case per action.                          *)
LEMMA StepTypeOK == TypeOK /\ [Next]_vars => TypeOK'
<1> SUFFICES ASSUME TypeOK, [Next]_vars PROVE TypeOK'
  OBVIOUS
<1> USE EventfdAssumption DEF TypeOK, LoopPcs, loopVars, queueVars
<1>1. CASE Loop BY <1>1 DEF Loop
<1>2. CASE TestQuit BY <1>2 DEF TestQuit
<1>3. CASE Poll BY <1>3 DEF Poll, Ready
<1>4. CASE HandleRead BY <1>4 DEF HandleRead
<1>5. ASSUME NEW c \in Channels, HandleEvent(c) PROVE TypeOK'
  BY <1>5 DEF HandleEvent
<1>6. CASE CallbackReturn BY <1>6 DEF CallbackReturn
<1>7. CASE DoPendingFunctors BY <1>7 DEF DoPendingFunctors
<1>8. CASE RunFunctor
  <2>1. Head(functors) \in Functors /\ Tail(functors) \in Seq(Functors)
    BY <1>8 DEF RunFunctor
  <2>2. QED BY <1>8, <2>1 DEF RunFunctor
<1>9. CASE FunctorReturn BY <1>9 DEF FunctorReturn
<1>10. CASE FunctorsDone BY <1>10 DEF FunctorsDone
<1>11. CASE PollNothing BY <1>11 DEF PollNothing
<1>12. ASSUME NEW f \in Functors, RunInLoopInline(f) PROVE TypeOK'
  BY <1>12 DEF RunInLoopInline
<1>13. ASSUME NEW f \in Functors, LoopQueueInLoop(f) PROVE TypeOK'
  BY <1>13 DEF LoopQueueInLoop, WakesItself, Push, Signal
<1>14. CASE LoopQuit BY <1>14 DEF LoopQuit
<1>15. ASSUME NEW t \in Callers, NEW f \in Functors, CallerQueueInLoop(t, f)
       PROVE TypeOK'
  BY <1>15 DEF CallerQueueInLoop, Push
<1>16. ASSUME NEW t \in Callers, CallerQuit(t) PROVE TypeOK'
  BY <1>16 DEF CallerQuit
<1>17. ASSUME NEW t \in Callers, CallerWakeup(t) PROVE TypeOK'
  BY <1>17 DEF CallerWakeup, Signal
<1>18. ASSUME NEW c \in Channels, Arrive(c) PROVE TypeOK'
  BY <1>18 DEF Arrive
<1>19. CASE UNCHANGED vars BY <1>19 DEF vars
<1>20. QED
  BY <1>1, <1>2, <1>3, <1>4, <1>5, <1>6, <1>7, <1>8, <1>9, <1>10, <1>11,
     <1>12, <1>13, <1>14, <1>15, <1>16, <1>17, <1>18, <1>19
     DEF Next, LoopStep

(* Type correctness of every step of the loop thread and of the callers.   *)
THEOREM TypeCorrect == Spec => []TypeOK
BY InitTypeOK, StepTypeOK, PTL DEF Spec
-----------------------------------------------------------------------------
(* Pushing a functor to a vector adds it to the elements, and no other.    *)
LEMMA ElementsAppend ==
  ASSUME NEW S, NEW s \in Seq(S), NEW e \in S
  PROVE  Elements(Append(s, e)) = Elements(s) \cup {e}
<1>1. DOMAIN Append(s, e) = DOMAIN s \cup {Len(s) + 1} OBVIOUS
<1>2. /\ Append(s, e)[Len(s) + 1] = e
      /\ \A i \in DOMAIN s : Append(s, e)[i] = s[i]
  OBVIOUS
<1>3. QED BY <1>1, <1>2, Zenon DEF Elements

(* Taking the first element of a vector, as the loop over functors does,   *)
(* leaves only elements that were there.                                   *)
LEMMA ElementsTail ==
  ASSUME NEW S, NEW s \in Seq(S), s /= <<>>
  PROVE  Head(s) \in Elements(s) /\ Elements(Tail(s)) \subseteq Elements(s)
<1>1. 1 \in DOMAIN s /\ Head(s) = s[1] OBVIOUS
<1>2. \A i \in DOMAIN Tail(s) : i + 1 \in DOMAIN s /\ Tail(s)[i] = s[i + 1]
  OBVIOUS
<1>3. \A i \in DOMAIN Tail(s) : \E j \in DOMAIN s : Tail(s)[i] = s[j]
  BY <1>2
<1>4. QED BY <1>1, <1>3 DEF Elements

(* A vector that was swapped out leaves none behind.                       *)
LEMMA ElementsEmpty == Elements(<<>>) = {}
BY DEF Elements

(* The conjuncts that are not about types are kept by every step.          *)
LEMMA Inductive == IInv /\ [Next]_vars => PhaseInv' /\ CoveredInv' /\ NoLostQuit' /\ SubmittedInv'
<1> SUFFICES ASSUME IInv, [Next]_vars
             PROVE  PhaseInv' /\ CoveredInv' /\ NoLostQuit' /\ SubmittedInv'
  OBVIOUS
<1> USE EventfdAssumption DEF IInv, loopVars, queueVars
<1>1. CASE Loop
  BY <1>1 DEF Loop, PhaseInv, CoveredInv, NoLostQuit, SubmittedInv, WakeupComing
<1>2. CASE TestQuit
  BY <1>2 DEF TestQuit, PhaseInv, CoveredInv, NoLostQuit, SubmittedInv, WakeupComing
<1>3. CASE Poll
  BY <1>3 DEF Poll, PhaseInv, CoveredInv, NoLostQuit, SubmittedInv, WakeupComing
<1>4. CASE HandleRead
  BY <1>4 DEF HandleRead, PhaseInv, CoveredInv, NoLostQuit, SubmittedInv
<1>5. ASSUME NEW c \in Channels, HandleEvent(c)
      PROVE  PhaseInv' /\ CoveredInv' /\ NoLostQuit' /\ SubmittedInv'
  BY <1>5 DEF HandleEvent, PhaseInv, CoveredInv, NoLostQuit, SubmittedInv
<1>6. CASE CallbackReturn
  BY <1>6 DEF CallbackReturn, PhaseInv, CoveredInv, NoLostQuit, SubmittedInv
<1>7. CASE DoPendingFunctors
  BY <1>7, ElementsEmpty
     DEF DoPendingFunctors, PhaseInv, CoveredInv, NoLostQuit, SubmittedInv
<1>8. CASE RunFunctor
  <2>1. SubmittedInv'
    BY <1>8, ElementsTail, ElementsAppend DEF RunFunctor, SubmittedInv, TypeOK
  <2>2. QED
    BY <1>8, <2>1 DEF RunFunctor, PhaseInv, CoveredInv, NoLostQuit, WakeupComing
<1>9. CASE FunctorReturn
  BY <1>9 DEF FunctorReturn, PhaseInv, CoveredInv, NoLostQuit, SubmittedInv, WakeupComing
<1>10. CASE FunctorsDone
  BY <1>10 DEF FunctorsDone, PhaseInv, CoveredInv, NoLostQuit, SubmittedInv, WakeupComing
<1>11. CASE PollNothing
  BY <1>11 DEF PollNothing, PhaseInv, CoveredInv, NoLostQuit, SubmittedInv
<1>12. ASSUME NEW f \in Functors, RunInLoopInline(f)
       PROVE  PhaseInv' /\ CoveredInv' /\ NoLostQuit' /\ SubmittedInv'
  BY <1>12 DEF RunInLoopInline, PhaseInv, CoveredInv, NoLostQuit, SubmittedInv, WakeupComing
<1>13. ASSUME NEW f \in Functors, LoopQueueInLoop(f)
       PROVE  PhaseInv' /\ CoveredInv' /\ NoLostQuit' /\ SubmittedInv'
  <2>1. Elements(pendingFunctors_') = Elements(pendingFunctors_) \cup {f}
    BY <1>13, ElementsAppend DEF LoopQueueInLoop, Push, TypeOK
  <2>2. PhaseInv' /\ NoLostQuit'
    BY <1>13 DEF LoopQueueInLoop, PhaseInv, NoLostQuit, InUserCode, OutsideLoop
  <2>3. SubmittedInv'
    BY <1>13, <2>1 DEF LoopQueueInLoop, Push, SubmittedInv
  <2>4. CASE OutsideLoop
    BY <1>13, <2>1, <2>2, <2>3, <2>4
       DEF LoopQueueInLoop, WakesItself, CoveredInv, OutsideLoop, WakeupComing, PhaseInv
  <2>5. CASE loopPc = "callback"
    BY <1>13, <2>2, <2>3, <2>5 DEF LoopQueueInLoop, CoveredInv
  <2>6. CASE loopPc = "functor"
    <3>1. wakeups' > 0
      BY <1>13, <2>6 DEF LoopQueueInLoop, WakesItself, PhaseInv, Signal, TypeOK
    <3>2. QED BY <3>1, <2>2, <2>3 DEF CoveredInv, WakeupComing
  <2>7. QED BY <1>13, <2>4, <2>5, <2>6 DEF LoopQueueInLoop, InUserCode
<1>14. CASE LoopQuit
  BY <1>14 DEF LoopQuit, PhaseInv, CoveredInv, NoLostQuit, SubmittedInv,
               WakeupComing, InUserCode, OutsideLoop
<1>15. ASSUME NEW t \in Callers, NEW f \in Functors, CallerQueueInLoop(t, f)
       PROVE  PhaseInv' /\ CoveredInv' /\ NoLostQuit' /\ SubmittedInv'
  <2>1. Elements(pendingFunctors_') = Elements(pendingFunctors_) \cup {f}
    BY <1>15, ElementsAppend DEF CallerQueueInLoop, Push, TypeOK
  <2>2. WakeupComing'
    BY <1>15 DEF CallerQueueInLoop, WakeupComing, TypeOK
  <2>3. QED
    BY <1>15, <2>1, <2>2
       DEF CallerQueueInLoop, Push, PhaseInv, CoveredInv, NoLostQuit, SubmittedInv
<1>16. ASSUME NEW t \in Callers, CallerQuit(t)
       PROVE  PhaseInv' /\ CoveredInv' /\ NoLostQuit' /\ SubmittedInv'
  <2>1. WakeupComing'
    BY <1>16 DEF CallerQuit, WakeupComing, TypeOK
  <2>2. QED
    BY <1>16, <2>1 DEF CallerQuit, PhaseInv, CoveredInv, NoLostQuit, SubmittedInv
<1>17. ASSUME NEW t \in Callers, CallerWakeup(t)
       PROVE  PhaseInv' /\ CoveredInv' /\ NoLostQuit' /\ SubmittedInv'
  <2>1. WakeupComing'
    BY <1>17 DEF CallerWakeup, WakeupComing, Signal, TypeOK
  <2>2. QED
    BY <1>17, <2>1 DEF CallerWakeup, PhaseInv, CoveredInv, NoLostQuit, SubmittedInv
<1>18. ASSUME NEW c \in Channels, Arrive(c)
       PROVE  PhaseInv' /\ CoveredInv' /\ NoLostQuit' /\ SubmittedInv'
  BY <1>18 DEF Arrive, PhaseInv, CoveredInv, NoLostQuit, SubmittedInv, WakeupComing
<1>19. CASE UNCHANGED vars
  BY <1>19 DEF vars, PhaseInv, CoveredInv, NoLostQuit, SubmittedInv, WakeupComing
<1>20. QED
  BY <1>1, <1>2, <1>3, <1>4, <1>5, <1>6, <1>7, <1>8, <1>9, <1>10, <1>11,
     <1>12, <1>13, <1>14, <1>15, <1>16, <1>17, <1>18, <1>19
     DEF Next, LoopStep

(* IInv holds in every reachable state.                                    *)
LEMMA Invariance == Spec => []IInv
<1>1. Init => PhaseInv /\ CoveredInv /\ NoLostQuit /\ SubmittedInv
  BY ElementsEmpty DEF Init, PhaseInv, CoveredInv, NoLostQuit, SubmittedInv
<1>2. Init => TypeOK BY InitTypeOK
<1>3. IInv /\ [Next]_vars => IInv' BY Inductive, StepTypeOK DEF IInv
<1>4. QED BY <1>1, <1>2, <1>3, PTL DEF Spec, IInv

(* The loop is never blocked in epoll_wait over a functor that queueInLoop *)
(* accepted without a write to the eventfd done or under way, whoever the  *)
(* callers are and whenever they call.                                     *)
THEOREM WakeupNeverLost == Spec => []NoLostWakeup
<1>1. IInv => NoLostWakeup BY DEF IInv, CoveredInv, NoLostWakeup
<1>2. QED BY Invariance, <1>1, PTL

(* The same for the store to quit_ in quit().                              *)
THEOREM QuitNeverLost == Spec => []NoLostQuit
<1>1. IInv => NoLostQuit BY DEF IInv
<1>2. QED BY Invariance, <1>1, PTL
-----------------------------------------------------------------------------
(* queueInLoop appends to the pending half of the queue: that is the end   *)
(* of the whole queue.                                                     *)
LEMMA ConcatAppend ==
  ASSUME NEW S, NEW s \in Seq(S), NEW u \in Seq(S), NEW e \in S
  PROVE  s \o Append(u, e) = Append(s \o u, e)
OBVIOUS

(* RunFunctor takes the first of the swapped half: that is the first of    *)
(* the whole queue.                                                        *)
LEMMA ConcatTail ==
  ASSUME NEW S, NEW s \in Seq(S), NEW u \in Seq(S), s /= <<>>
  PROVE  /\ s \o u /= <<>>
         /\ Head(s \o u) = Head(s)
         /\ Tail(s \o u) = Tail(s) \o u
<1>1. s \o u \in Seq(S) /\ Len(s \o u) = Len(s) + Len(u) /\ Len(s) > 0
  BY EmptySeq
<1>2. s \o u /= <<>> /\ Head(s \o u) = Head(s) BY <1>1
<1>3. Tail(s) \in Seq(S) /\ Len(Tail(s)) = Len(s) - 1 BY <1>1
<1>4. Len(Tail(s \o u)) = Len(Tail(s) \o u) BY <1>1, <1>2, <1>3
<1>5. ASSUME NEW i \in 1..Len(Tail(s \o u))
      PROVE  Tail(s \o u)[i] = (Tail(s) \o u)[i]
  BY <1>1, <1>2, <1>3
<1>6. Tail(s \o u) \in Seq(S) /\ Tail(s) \o u \in Seq(S) BY <1>1, <1>2, <1>3
<1>7. QED BY <1>2, <1>4, <1>5, <1>6, SeqEqual

(* The swap of doPendingFunctors leaves the whole queue as it was, one of  *)
(* the halves being empty.                                                 *)
LEMMA EmptyConcat ==
  ASSUME NEW S, NEW s \in Seq(S)
  PROVE  <<>> \o s = s /\ s \o <<>> = s
OBVIOUS

(* A functor that was never submitted is in neither part of the queue.     *)
LEMMA FreshUnused ==
  ASSUME TypeOK, SubmittedInv, NEW f \in Functors \ submitted
  PROVE  Executor!Unused(f)
<1> DEFINE todo == functors \o pendingFunctors_
<1>1. \A i \in DOMAIN todo :
        \/ i \in DOMAIN functors /\ todo[i] = functors[i]
        \/ /\ i - Len(functors) \in DOMAIN pendingFunctors_
           /\ todo[i] = pendingFunctors_[i - Len(functors)]
  BY DEF TypeOK
<1>2. \A i \in DOMAIN todo : todo[i] \in Elements(functors) \cup Elements(pendingFunctors_)
  BY <1>1 DEF Elements
<1>3. \A i \in DOMAIN executed : executed[i] \in Elements(executed)
  BY DEF Elements
<1>4. QED BY <1>2, <1>3 DEF SubmittedInv, Executor!Unused

(* EventLoop implements LoopExecutor: queued functors run at most once, in *)
(* order, inside loop(), and none is dropped by the swap or by quit().     *)
THEOREM Refinement == Spec => ImplementsExecutor
<1>1. Init => Executor!ExecInit
  <2>1. Init => functors \o pendingFunctors_ = <<>>
    BY EmptyConcat DEF Init
  <2>2. QED BY <2>1 DEF Init, Executor!ExecInit, OutsideLoop
<1>2. IInv /\ [Next]_vars => [Executor!ExecNext]_(Executor!execVars)
  <2> SUFFICES ASSUME IInv, [Next]_vars
               PROVE  Executor!ExecNext \/ UNCHANGED Executor!execVars
    OBVIOUS
  <2> USE DEF IInv, loopVars, queueVars, Executor!execVars
  <2>1. CASE Loop
    BY <2>1 DEF Loop, OutsideLoop, Executor!ExecNext, Executor!Start
  <2>2. CASE TestQuit
    BY <2>2 DEF TestQuit, OutsideLoop, Executor!ExecNext, Executor!Stop
  <2>3. CASE Poll BY <2>3 DEF Poll, OutsideLoop
  <2>4. CASE HandleRead BY <2>4 DEF HandleRead, OutsideLoop
  <2>5. ASSUME NEW c \in Channels, HandleEvent(c)
        PROVE  UNCHANGED Executor!execVars
    BY <2>5 DEF HandleEvent, OutsideLoop
  <2>6. CASE CallbackReturn BY <2>6 DEF CallbackReturn, OutsideLoop
  <2>7. CASE DoPendingFunctors
    <3>1. functors \o pendingFunctors_ = functors' \o pendingFunctors_'
      BY <2>7, EmptyConcat DEF DoPendingFunctors, PhaseInv, TypeOK
    <3>2. QED BY <2>7, <3>1 DEF DoPendingFunctors, OutsideLoop
  <2>8. CASE RunFunctor
    <3>1. /\ functors \o pendingFunctors_ /= <<>>
          /\ Head(functors \o pendingFunctors_) = Head(functors)
          /\ Tail(functors \o pendingFunctors_) = Tail(functors) \o pendingFunctors_
      BY <2>8, ConcatTail DEF RunFunctor, TypeOK
    <3>2. Executor!Execute
      BY <2>8, <3>1 DEF RunFunctor, OutsideLoop, Executor!Execute
    <3>3. QED BY <3>2 DEF Executor!ExecNext
  <2>9. CASE FunctorReturn BY <2>9 DEF FunctorReturn, OutsideLoop
  <2>10. CASE FunctorsDone BY <2>10 DEF FunctorsDone, OutsideLoop
  <2>11. CASE PollNothing BY <2>11 DEF PollNothing, OutsideLoop
  <2>12. ASSUME NEW f \in Functors, RunInLoopInline(f)
         PROVE  UNCHANGED Executor!execVars
    BY <2>12 DEF RunInLoopInline, OutsideLoop
  <2>13. ASSUME NEW f \in Functors, Push(f),
                UNCHANGED <<loopPc, functors, executed>>
         PROVE  Executor!ExecNext
    <3>1. Executor!Unused(f) BY <2>13, FreshUnused DEF Push
    <3>2. functors' \o pendingFunctors_' = Append(functors \o pendingFunctors_, f)
      BY <2>13, ConcatAppend DEF Push, TypeOK
    <3>3. Executor!Submit(f)
      BY <2>13, <3>1, <3>2 DEF OutsideLoop, Executor!Submit
    <3>4. QED BY <3>3 DEF Executor!ExecNext
  <2>14. CASE LoopQuit BY <2>14 DEF LoopQuit, OutsideLoop
  <2>15. ASSUME NEW t \in Callers, CallerQuit(t)
         PROVE  UNCHANGED Executor!execVars
    BY <2>15 DEF CallerQuit, OutsideLoop
  <2>16. ASSUME NEW t \in Callers, CallerWakeup(t)
         PROVE  UNCHANGED Executor!execVars
    BY <2>16 DEF CallerWakeup, OutsideLoop
  <2>17. ASSUME NEW c \in Channels, Arrive(c)
         PROVE  UNCHANGED Executor!execVars
    BY <2>17 DEF Arrive, OutsideLoop
  <2>18. CASE UNCHANGED vars BY <2>18 DEF vars, OutsideLoop
  <2>19. QED
    BY <2>1, <2>2, <2>3, <2>4, <2>5, <2>6, <2>7, <2>8, <2>9, <2>10, <2>11,
       <2>12, <2>13, <2>14, <2>15, <2>16, <2>17, <2>18
       DEF Next, LoopStep, LoopQueueInLoop, CallerQueueInLoop
<1>3. QED
  BY <1>1, <1>2, Invariance, PTL DEF Spec, ImplementsExecutor, Executor!ExecSpec
=============================================================================
