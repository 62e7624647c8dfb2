--------------------------- MODULE ThreadPoolProofs ---------------------------
(***************************************************************************)
(* For every number of workers and of threads that call run(), every set   *)
(* of tasks and every maxQueueSize_: the two conditions of BlockingQueue   *)
(* lose no wakeup.  notify() wakes one thread at a time, so it has to be   *)
(* counted: queued tasks against workers on their way, and free slots      *)
(* against threads on their way.                                           *)
(***************************************************************************)
EXTENDS ThreadPool, FiniteSetTheorems, TLAPS

(* A member of a wait set is in the function that waits, and nobody waits  *)
(* before start().                                                         *)
WaitInv ==
  /\ \A w \in notEmpty_ : pc[w] = "take"
  /\ \A t \in notFull_ : pc[t] = "put"
  /\ ownerPc = "new" => ~ running_ /\ notEmpty_ = {} /\ notFull_ = {}

IInv == TypeOK /\ WaitInv /\ NoIdleWorker /\ NoIdleSlot
-----------------------------------------------------------------------------
(* What notify() leaves of a wait set: nothing of an empty one, and one    *)
(* member less of any other.                                               *)
LEMMA NotifiedOutcome ==
  ASSUME NEW W, NEW V, V \in Notified(W)
  PROVE  \/ W = {} /\ V = {}
         \/ \E t \in W : V = W \ {t}
BY DEF Notified

(* The threads on their way are finitely many, in any state.               *)
FiniteCounts ==
  /\ IsFiniteSet(Hungry) /\ Cardinality(Hungry) \in Nat
  /\ IsFiniteSet(Pushing) /\ Cardinality(Pushing) \in Nat

(* The sets of threads that the proofs count are finite, before and        *)
(* after a step.                                                           *)
LEMMA CountsAreFinite == FiniteCounts /\ FiniteCounts'
<1>1. FiniteCounts
  <2>1. IsFiniteSet(Threads) BY ThreadsAssumption, FS_Union DEF Threads
  <2>2. Hungry \in SUBSET Workers /\ Pushing \in SUBSET Threads
    BY DEF Hungry, Pushing
  <2>3. IsFiniteSet(Hungry) /\ IsFiniteSet(Pushing)
    BY <2>1, <2>2, ThreadsAssumption, FS_Subset
  <2>4. QED BY <2>3, FS_CardinalityType DEF FiniteCounts
<1>2. QED BY <1>1, PTL

(* A set that grows counts no less, and one more if an element is new.     *)
LEMMA CountGrows ==
  ASSUME NEW S, NEW T, IsFiniteSet(S), IsFiniteSet(T), S \subseteq T
  PROVE  /\ Cardinality(S) <= Cardinality(T)
         /\ \A x \in T \ S : Cardinality(S) + 1 <= Cardinality(T)
<1>1. Cardinality(S) <= Cardinality(T) BY FS_Subset
<1>2. ASSUME NEW x \in T \ S PROVE Cardinality(S) + 1 <= Cardinality(T)
  <2>1. IsFiniteSet(S \cup {x}) /\ Cardinality(S \cup {x}) = Cardinality(S) + 1
    BY <1>2, FS_AddElement
  <2>2. S \cup {x} \in SUBSET T BY <1>2
  <2>3. QED BY <2>1, <2>2, FS_Subset
<1>3. QED BY <1>1, <1>2

(* A set that loses at most one element.                                   *)
LEMMA CountShrinks ==
  ASSUME NEW S, NEW T, NEW x, IsFiniteSet(S), IsFiniteSet(T), S \ {x} \subseteq T
  PROVE  Cardinality(S) - 1 <= Cardinality(T)
<1>1. /\ IsFiniteSet(S \ {x})
      /\ Cardinality(S \ {x}) = IF x \in S THEN Cardinality(S) - 1 ELSE Cardinality(S)
  BY FS_RemoveElement
<1>2. Cardinality(S \ {x}) <= Cardinality(T) BY <1>1, FS_Subset
<1>3. /\ Cardinality(S) \in Nat /\ Cardinality(T) \in Nat
      /\ Cardinality(S \ {x}) \in Nat
  BY <1>1, FS_CardinalityType
<1>4. QED BY <1>1, <1>2, <1>3
-----------------------------------------------------------------------------
(* A pool that has only been constructed is well typed and has no waiter.  *)
LEMMA InitInv == Init => IInv
<1> SUFFICES ASSUME Init PROVE IInv OBVIOUS
<1>1. queue_ \in Seq(Tasks) BY DEF Init
<1>2. pc \in [Threads -> WorkerPcs \cup ProducerPcs]
  BY DEF Init, WorkerPcs, ProducerPcs
<1>3. /\ \A w \in Workers : pc[w] \in WorkerPcs
      /\ \A p \in Producers : pc[p] \in ProducerPcs
      /\ \A t \in Threads : pc[t] /= "put"
  BY ThreadsAssumption DEF Init, Threads, WorkerPcs, ProducerPcs
<1>4. arg \in [Threads -> Tasks \cup {NoTask}] BY DEF Init
<1>5. TypeOK BY <1>1, <1>2, <1>3, <1>4 DEF Init, TypeOK
<1>6. QED BY <1>5 DEF Init, IInv, WaitInv, NoIdleWorker, NoIdleSlot

(* Each critical section, and each step outside the mutex, keeps the       *)
(* variables in their types.                                               *)
LEMMA StepTypeOK == TypeOK /\ [Next]_vars => TypeOK'
<1> SUFFICES ASSUME TypeOK, [Next]_vars PROVE TypeOK' OBVIOUS
<1> USE ThreadsAssumption DEF TypeOK, Threads, WorkerPcs, ProducerPcs
<1>1. ASSUME NEW t \in Threads, NEW x \in Tasks, Run(t, x) PROVE TypeOK'
  BY <1>1 DEF Run
<1>2. ASSUME NEW t \in Threads, PutWait(t) PROVE TypeOK'
  BY <1>2 DEF PutWait
<1>3. ASSUME NEW t \in Threads, PutRefused(t) PROVE TypeOK'
  BY <1>3 DEF PutRefused, AfterPut
<1>4. ASSUME NEW t \in Threads, Put(t) PROVE TypeOK'
  <2>1. queue_' \in Seq(Tasks) BY <1>4 DEF Put, Putting
  <2>2. notEmpty_' \subseteq Workers BY <1>4, NotifiedOutcome DEF Put
  <2>3. QED BY <1>4, <2>1, <2>2 DEF Put, AfterPut
<1>5. ASSUME NEW w \in Workers, TestRunning(w) PROVE TypeOK'
  BY <1>5 DEF TestRunning
<1>6. ASSUME NEW w \in Workers, TakeWait(w) PROVE TypeOK'
  BY <1>6 DEF TakeWait
<1>7. ASSUME NEW w \in Workers, TakeNull(w) PROVE TypeOK'
  BY <1>7 DEF TakeNull
<1>8. ASSUME NEW w \in Workers, Take(w) PROVE TypeOK'
  <2>1. queue_' \in Seq(Tasks) /\ Head(queue_) \in Tasks BY <1>8 DEF Take, Popped
  <2>2. notFull_' \subseteq Threads BY <1>8, NotifiedOutcome DEF Take
  <2>3. QED BY <1>8, <2>1, <2>2 DEF Take
<1>9. ASSUME NEW w \in Workers, TaskReturn(w) PROVE TypeOK'
  BY <1>9 DEF TaskReturn
<1>10. ASSUME NEW t \in Threads, Spurious(t) PROVE TypeOK'
  BY <1>10 DEF Spurious
<1>11. CASE Start BY <1>11 DEF Start
<1>12. ASSUME NEW w \in Workers, StartWorker(w) PROVE TypeOK'
  BY <1>12 DEF StartWorker
<1>13. CASE Stop BY <1>13 DEF Stop, NotifyAll
<1>14. CASE Join BY <1>14 DEF Join
<1>15. CASE UNCHANGED vars BY <1>15 DEF vars
<1>16. QED
  BY <1>1, <1>2, <1>3, <1>4, <1>5, <1>6, <1>7, <1>8, <1>9, <1>10, <1>11,
     <1>12, <1>13, <1>14, <1>15
     DEF Next, WorkerStep, PutStep, OwnerStep
-----------------------------------------------------------------------------
(* A waiting thread does not move: it leaves its wait set first.           *)
LEMMA StepWaitInv == TypeOK /\ WaitInv /\ [Next]_vars => WaitInv'
<1> SUFFICES ASSUME TypeOK, WaitInv, [Next]_vars PROVE WaitInv' OBVIOUS
<1> USE DEF TypeOK, WaitInv, Threads
<1>1. ASSUME NEW t \in Threads, NEW x \in Tasks, Run(t, x) PROVE WaitInv'
  BY <1>1, ThreadsAssumption DEF Run, ProducerPcs
<1>2. ASSUME NEW t \in Threads, PutWait(t) PROVE WaitInv'
  BY <1>2 DEF PutWait, Putting
<1>3. ASSUME NEW t \in Threads, PutRefused(t) PROVE WaitInv'
  BY <1>3 DEF PutRefused, Putting
<1>4. ASSUME NEW t \in Threads, Put(t) PROVE WaitInv'
  BY <1>4, NotifiedOutcome DEF Put, Putting
<1>5. ASSUME NEW w \in Workers, TestRunning(w) PROVE WaitInv'
  BY <1>5 DEF TestRunning
<1>6. ASSUME NEW w \in Workers, TakeWait(w) PROVE WaitInv'
  BY <1>6 DEF TakeWait, Taking
<1>7. ASSUME NEW w \in Workers, TakeNull(w) PROVE WaitInv'
  BY <1>7 DEF TakeNull, Taking
<1>8. ASSUME NEW w \in Workers, Take(w) PROVE WaitInv'
  BY <1>8, NotifiedOutcome DEF Take, Taking
<1>9. ASSUME NEW w \in Workers, TaskReturn(w) PROVE WaitInv'
  BY <1>9 DEF TaskReturn
<1>10. ASSUME NEW t \in Threads, Spurious(t) PROVE WaitInv'
  BY <1>10 DEF Spurious
<1>11. CASE Start BY <1>11 DEF Start
<1>12. ASSUME NEW w \in Workers, StartWorker(w) PROVE WaitInv'
  BY <1>12 DEF StartWorker
<1>13. CASE Stop BY <1>13 DEF Stop, NotifyAll
<1>14. CASE Join BY <1>14 DEF Join
<1>15. CASE UNCHANGED vars BY <1>15 DEF vars
<1>16. QED
  BY <1>1, <1>2, <1>3, <1>4, <1>5, <1>6, <1>7, <1>8, <1>9, <1>10, <1>11,
     <1>12, <1>13, <1>14, <1>15
     DEF Next, WorkerStep, PutStep, OwnerStep

(* put() adds a task and sends one more worker on its way; take() removes  *)
(* both; a worker only goes to sleep when there is no task.                *)
LEMMA StepNoIdleWorker == IInv /\ [Next]_vars => NoIdleWorker'
<1> SUFFICES ASSUME IInv, [Next]_vars PROVE NoIdleWorker' OBVIOUS
<1> USE CountsAreFinite DEF IInv, TypeOK, FiniteCounts, NoIdleWorker
<1>1. Len(queue_) \in Nat OBVIOUS
<1>2. ASSUME UNCHANGED <<queue_, running_>>, notEmpty_' \subseteq notEmpty_,
             Hungry \subseteq Hungry'
      PROVE  NoIdleWorker'
  BY <1>1, <1>2, CountGrows
<1>3. ASSUME ~ running_' PROVE NoIdleWorker' BY <1>3
<1>4. ASSUME NEW t \in Threads, NEW x \in Tasks, Run(t, x) PROVE NoIdleWorker'
  <2>1. Hungry \subseteq Hungry'
    BY <1>4, ThreadsAssumption DEF Run, Hungry, Taking, Threads
  <2>2. QED BY <1>2, <1>4, <2>1 DEF Run
<1>5. ASSUME NEW t \in Threads, PutWait(t) PROVE NoIdleWorker'
  <2>1. Hungry \subseteq Hungry' BY <1>5 DEF PutWait, Hungry, Taking
  <2>2. QED BY <1>2, <1>5, <2>1 DEF PutWait
<1>6. ASSUME NEW t \in Threads, PutRefused(t) PROVE NoIdleWorker'
  BY <1>3, <1>6 DEF PutRefused
<1>7. ASSUME NEW t \in Threads, Put(t) PROVE NoIdleWorker'
  <2>1. CASE notEmpty_ = {}
    BY <1>7, <2>1, NotifiedOutcome DEF Put
  <2>2. CASE notEmpty_ /= {}
    <3>1. PICK w \in notEmpty_ : notEmpty_' = notEmpty_ \ {w}
      BY <1>7, <2>2, NotifiedOutcome DEF Put
    <3>2. pc[w] = "take" /\ w \in Workers BY <3>1 DEF WaitInv
    <3>3. Hungry \subseteq Hungry' /\ w \in Hungry' \ Hungry
      BY <1>7, <3>1, <3>2 DEF Put, Putting, Hungry, Taking, Threads
    <3>4. Cardinality(Hungry) + 1 <= Cardinality(Hungry')
      BY <3>3, CountGrows
    <3>5. Len(queue_') = Len(queue_) + 1 BY <1>7 DEF Put, Putting
    <3>6. QED BY <1>1, <1>7, <2>2, <3>4, <3>5 DEF Put
  <2>3. QED BY <2>1, <2>2
<1>8. ASSUME NEW w \in Workers, TestRunning(w) PROVE NoIdleWorker'
  <2>1. CASE running_
    <3>1. Hungry \subseteq Hungry'
      BY <1>8, <2>1 DEF TestRunning, Hungry, Taking, WaitInv, Threads
    <3>2. QED BY <1>2, <1>8, <3>1 DEF TestRunning
  <2>2. QED BY <1>3, <1>8, <2>1 DEF TestRunning
<1>9. ASSUME NEW w \in Workers, TakeWait(w) PROVE NoIdleWorker'
  BY <1>9 DEF TakeWait
<1>10. ASSUME NEW w \in Workers, TakeNull(w) PROVE NoIdleWorker'
  BY <1>3, <1>10 DEF TakeNull
<1>11. ASSUME NEW w \in Workers, Take(w) PROVE NoIdleWorker'
  <2>1. Len(queue_') = Len(queue_) - 1 BY <1>11 DEF Take, Popped
  <2>2. Hungry \ {w} \subseteq Hungry'
    BY <1>11 DEF Take, Hungry, Taking, Threads
  <2>3. Cardinality(Hungry) - 1 <= Cardinality(Hungry')
    BY <2>2, CountShrinks
  <2>4. QED BY <1>1, <1>11, <2>1, <2>3 DEF Take
<1>12. ASSUME NEW w \in Workers, TaskReturn(w) PROVE NoIdleWorker'
  <2>1. Hungry \subseteq Hungry' BY <1>12 DEF TaskReturn, Hungry, Taking, Threads
  <2>2. QED BY <1>2, <1>12, <2>1 DEF TaskReturn
<1>13. ASSUME NEW t \in Threads, Spurious(t) PROVE NoIdleWorker'
  <2>1. Hungry \subseteq Hungry' BY <1>13 DEF Spurious, Hungry, Taking
  <2>2. QED BY <1>2, <1>13, <2>1 DEF Spurious
<1>14. CASE Start BY <1>14 DEF Start, WaitInv
<1>15. ASSUME NEW w \in Workers, StartWorker(w) PROVE NoIdleWorker'
  <2>1. Hungry \subseteq Hungry' BY <1>15 DEF StartWorker, Hungry, Taking, Threads
  <2>2. QED BY <1>2, <1>15, <2>1 DEF StartWorker
<1>16. CASE Stop BY <1>3, <1>16 DEF Stop
<1>17. CASE Join
  <2>1. Hungry \subseteq Hungry' BY <1>17 DEF Join, Hungry, Taking
  <2>2. QED BY <1>2, <1>17, <2>1 DEF Join
<1>18. CASE UNCHANGED vars
  <2>1. Hungry \subseteq Hungry' BY <1>18 DEF vars, Hungry, Taking
  <2>2. QED BY <1>2, <1>18, <2>1 DEF vars
<1>19. QED
  BY <1>4, <1>5, <1>6, <1>7, <1>8, <1>9, <1>10, <1>11, <1>12, <1>13, <1>14,
     <1>15, <1>16, <1>17, <1>18
     DEF Next, WorkerStep, PutStep, OwnerStep

(* take() frees a slot and sends one more thread on its way; put() fills   *)
(* one and is off; a thread only goes to sleep when there is no free slot. *)
LEMMA StepNoIdleSlot == IInv /\ [Next]_vars => NoIdleSlot'
<1> SUFFICES ASSUME IInv, [Next]_vars PROVE NoIdleSlot' OBVIOUS
<1> USE CountsAreFinite, SizeAssumption DEF IInv, TypeOK, FiniteCounts, NoIdleSlot
<1>1. Len(queue_) \in Nat OBVIOUS
<1>2. ASSUME UNCHANGED <<queue_, running_>>, notFull_' \subseteq notFull_,
             Pushing \subseteq Pushing'
      PROVE  NoIdleSlot'
  BY <1>1, <1>2, CountGrows
<1>3. ASSUME ~ running_' PROVE NoIdleSlot' BY <1>3
<1>4. ASSUME NEW t \in Threads, NEW x \in Tasks, Run(t, x) PROVE NoIdleSlot'
  <2>1. Pushing \subseteq Pushing' BY <1>4 DEF Run, Pushing, Putting
  <2>2. QED BY <1>2, <1>4, <2>1 DEF Run
<1>5. ASSUME NEW t \in Threads, PutWait(t) PROVE NoIdleSlot'
  BY <1>1, <1>5 DEF PutWait, isFull
<1>6. ASSUME NEW t \in Threads, PutRefused(t) PROVE NoIdleSlot'
  BY <1>3, <1>6 DEF PutRefused
<1>7. ASSUME NEW t \in Threads, Put(t) PROVE NoIdleSlot'
  <2>1. Len(queue_') = Len(queue_) + 1 BY <1>7 DEF Put, Putting
  <2>2. Pushing \ {t} \subseteq Pushing' BY <1>7 DEF Put, Pushing, Putting
  <2>3. Cardinality(Pushing) - 1 <= Cardinality(Pushing')
    BY <2>2, CountShrinks
  <2>4. QED BY <1>1, <1>7, <2>1, <2>3 DEF Put
<1>8. ASSUME NEW w \in Workers, TestRunning(w) PROVE NoIdleSlot'
  <2>1. Pushing \subseteq Pushing' BY <1>8 DEF TestRunning, Pushing, Putting, Threads
  <2>2. QED BY <1>2, <1>8, <2>1 DEF TestRunning
<1>9. ASSUME NEW w \in Workers, TakeWait(w) PROVE NoIdleSlot'
  <2>1. Pushing \subseteq Pushing' BY <1>9 DEF TakeWait, Pushing, Putting
  <2>2. QED BY <1>2, <1>9, <2>1 DEF TakeWait
<1>10. ASSUME NEW w \in Workers, TakeNull(w) PROVE NoIdleSlot'
  BY <1>3, <1>10 DEF TakeNull
<1>11. ASSUME NEW w \in Workers, Take(w) PROVE NoIdleSlot'
  <2>1. CASE notFull_ = {}
    BY <1>11, <2>1, NotifiedOutcome DEF Take
  <2>2. CASE notFull_ /= {}
    <3>1. PICK t \in notFull_ : notFull_' = notFull_ \ {t}
      BY <1>11, <2>2, NotifiedOutcome DEF Take
    <3>2. pc[t] = "put" /\ t \in Threads BY <3>1 DEF WaitInv
    <3>3. Pushing \subseteq Pushing' /\ t \in Pushing' \ Pushing
      BY <1>11, <3>1, <3>2 DEF Take, Taking, Pushing, Putting, Threads
    <3>4. Cardinality(Pushing) + 1 <= Cardinality(Pushing')
      BY <3>3, CountGrows
    <3>5. Len(queue_') = Len(queue_) - 1 BY <1>11 DEF Take, Popped
    <3>6. QED BY <1>1, <1>11, <2>2, <3>4, <3>5 DEF Take
  <2>3. QED BY <2>1, <2>2
<1>12. ASSUME NEW w \in Workers, TaskReturn(w) PROVE NoIdleSlot'
  <2>1. Pushing \subseteq Pushing' BY <1>12 DEF TaskReturn, Pushing, Putting, Threads
  <2>2. QED BY <1>2, <1>12, <2>1 DEF TaskReturn
<1>13. ASSUME NEW t \in Threads, Spurious(t) PROVE NoIdleSlot'
  <2>1. Pushing \subseteq Pushing' BY <1>13 DEF Spurious, Pushing, Putting
  <2>2. QED BY <1>2, <1>13, <2>1 DEF Spurious
<1>14. CASE Start BY <1>14 DEF Start, WaitInv
<1>15. ASSUME NEW w \in Workers, StartWorker(w) PROVE NoIdleSlot'
  <2>1. Pushing \subseteq Pushing' BY <1>15 DEF StartWorker, Pushing, Putting, Threads
  <2>2. QED BY <1>2, <1>15, <2>1 DEF StartWorker
<1>16. CASE Stop BY <1>3, <1>16 DEF Stop
<1>17. CASE Join
  <2>1. Pushing \subseteq Pushing' BY <1>17 DEF Join, Pushing, Putting
  <2>2. QED BY <1>2, <1>17, <2>1 DEF Join
<1>18. CASE UNCHANGED vars
  <2>1. Pushing \subseteq Pushing' BY <1>18 DEF vars, Pushing, Putting
  <2>2. QED BY <1>2, <1>18, <2>1 DEF vars
<1>19. QED
  BY <1>4, <1>5, <1>6, <1>7, <1>8, <1>9, <1>10, <1>11, <1>12, <1>13, <1>14,
     <1>15, <1>16, <1>17, <1>18
     DEF Next, WorkerStep, PutStep, OwnerStep
-----------------------------------------------------------------------------
(* IInv holds in every reachable state.                                    *)
LEMMA Invariance == Spec => []IInv
<1>1. IInv /\ [Next]_vars => IInv'
  BY StepTypeOK, StepWaitInv, StepNoIdleWorker, StepNoIdleSlot DEF IInv
<1>2. QED BY InitInv, <1>1, PTL DEF Spec

(* Each queued task has a worker of its own on the way while any worker    *)
(* sleeps in take(): put's single notify() never falls short, whatever     *)
(* wakes up spuriously, overtakes at the mutex or calls run() in a task.   *)
THEOREM TasksFindWorkers == Spec => []NoIdleWorker
<1>1. IInv => NoIdleWorker BY DEF IInv
<1>2. QED BY Invariance, <1>1, PTL

(* Each free slot has a thread of its own on the way while any thread      *)
(* sleeps in put(): take's single notify() never falls short either.       *)
THEOREM SlotsFindPutters == Spec => []NoIdleSlot
<1>1. IInv => NoIdleSlot BY DEF IInv
<1>2. QED BY Invariance, <1>1, PTL
=============================================================================
