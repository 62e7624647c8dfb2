------------------------------ MODULE ThreadPool ------------------------------
(***************************************************************************)
(* ThreadPool and its BlockingQueue (src/base/ThreadPool.h, ThreadPool.cc). *)
(* A critical section of the queue's mutex_ is one step.  A thread that    *)
(* waits on a condition is a member of its wait set; notify() takes one    *)
(* member out, and it then competes for the mutex again like any other.    *)
(***************************************************************************)
EXTENDS Naturals, Sequences, FiniteSets

CONSTANTS
  Workers,       \* threads_
  Producers,     \* the threads that call run()
  Tasks,         \* the tasks, each passed to run() once
  MaxQueueSize,  \* maxQueueSize_
  Nested         \* may a task call run() itself?

ASSUME ThreadsAssumption ==
  /\ IsFiniteSet(Workers) /\ IsFiniteSet(Producers)
  /\ Workers \cap Producers = {}
ASSUME SizeAssumption == MaxQueueSize \in Nat \ {0} /\ Nested \in BOOLEAN

VARIABLES
  queue_, running_,
  notEmpty_, notFull_,   \* the wait sets of the two conditions
  pc,                    \* per thread, see WorkerPcs and ProducerPcs
  arg,                   \* the task a thread is putting
  ownerPc,               \* "new", "starting", "started", "joining", "stopped"
  unused,                \* tasks not yet passed to run()
  ran                    \* tasks a worker has begun to run

vars == <<queue_, running_, notEmpty_, notFull_, pc, arg, ownerPc, unused, ran>>

Threads == Workers \cup Producers
NoTask  == "no task"

(* Workers: "none" not started, "test" at while (running_), "take" in      *)
(* take(), "task" running a task, "put" in put() for a task, "exited".     *)
(* Producers: "idle" or "put".  A thread at "take" or "put" either is in   *)
(* the wait set or is about to enter the critical section.                 *)
WorkerPcs   == {"none", "test", "take", "task", "put", "exited"}
ProducerPcs == {"idle", "put"}

Init ==
  /\ queue_ = <<>> /\ running_ = FALSE
  /\ notEmpty_ = {} /\ notFull_ = {}
  /\ pc = [t \in Threads |-> IF t \in Workers THEN "none" ELSE "idle"]
  /\ arg = [t \in Threads |-> NoTask]
  /\ ownerPc = "new"
  /\ unused = Tasks
  /\ ran = {}

isFull == Len(queue_) >= MaxQueueSize

(* Mutant of Notified: no notify().                                        *)
NotNotified(waiters) == {waiters}

(* Condition::notify on a wait set, as the set of possible outcomes.       *)
Notified(waiters) ==
  IF waiters = {} THEN {{}} ELSE {waiters \ {t} : t \in waiters}

-----------------------------------------------------------------------------
(* put(): where a thread continues when it returns.                        *)
AfterPut(t) == IF t \in Workers THEN "task" ELSE "idle"

Run(t, x) ==
  /\ ownerPc \in {"started", "joining", "stopped"} \* start() comes before run()
  /\ \/ t \in Producers /\ pc[t] = "idle"
     \/ t \in Workers /\ pc[t] = "task" /\ Nested
  /\ x \in unused
  /\ unused' = unused \ {x}
  /\ arg' = [arg EXCEPT ![t] = x]
  /\ pc' = [pc EXCEPT ![t] = "put"]
  /\ UNCHANGED <<queue_, running_, notEmpty_, notFull_, ownerPc, ran>>

Putting(t) == pc[t] = "put" /\ t \notin notFull_

PutWait(t) ==
  /\ Putting(t) /\ isFull /\ running_
  /\ notFull_' = notFull_ \cup {t}
  /\ UNCHANGED <<queue_, running_, notEmpty_, pc, arg, ownerPc, unused, ran>>

(* The pool has stopped: the task is dropped.                              *)
PutRefused(t) ==
  /\ Putting(t) /\ ~ running_
  /\ pc' = [pc EXCEPT ![t] = AfterPut(t)]
  /\ arg' = [arg EXCEPT ![t] = NoTask]
  /\ UNCHANGED <<queue_, running_, notEmpty_, notFull_, ownerPc, unused, ran>>

Put(t) ==
  /\ Putting(t) /\ ~ isFull /\ running_
  /\ queue_' = Append(queue_, arg[t])
  /\ notEmpty_' \in Notified(notEmpty_)
  /\ pc' = [pc EXCEPT ![t] = AfterPut(t)]
  /\ arg' = [arg EXCEPT ![t] = NoTask]
  /\ UNCHANGED <<running_, notFull_, ownerPc, unused, ran>>

-----------------------------------------------------------------------------
(* runInThread and take().                                                 *)

TestRunning(w) ==
  /\ pc[w] = "test"
  /\ pc' = [pc EXCEPT ![w] = IF running_ THEN "take" ELSE "exited"]
  /\ UNCHANGED <<queue_, running_, notEmpty_, notFull_, arg, ownerPc, unused, ran>>

Taking(w) == pc[w] = "take" /\ w \notin notEmpty_

TakeWait(w) ==
  /\ Taking(w) /\ queue_ = <<>> /\ running_
  /\ notEmpty_' = notEmpty_ \cup {w}
  /\ UNCHANGED <<queue_, running_, notFull_, pc, arg, ownerPc, unused, ran>>

(* The pool has stopped: nullptr, whatever is queued.                      *)
TakeNull(w) ==
  /\ Taking(w) /\ ~ running_
  /\ pc' = [pc EXCEPT ![w] = "test"]
  /\ UNCHANGED <<queue_, running_, notEmpty_, notFull_, arg, ownerPc, unused, ran>>

Popped == Tail(queue_)

Take(w) ==
  /\ Taking(w) /\ queue_ /= <<>> /\ running_
  /\ queue_' = Popped
  /\ notFull_' \in Notified(notFull_)
  /\ pc' = [pc EXCEPT ![w] = "task"]
  /\ ran' = ran \cup {Head(queue_)}
  /\ UNCHANGED <<running_, notEmpty_, arg, ownerPc, unused>>

TaskReturn(w) ==
  /\ pc[w] = "task"
  /\ pc' = [pc EXCEPT ![w] = "test"]
  /\ UNCHANGED <<queue_, running_, notEmpty_, notFull_, arg, ownerPc, unused, ran>>

(* A wait may end by itself (Mutex and Condition wrap pthreads).           *)
Spurious(t) ==
  /\ t \in notEmpty_ \cup notFull_
  /\ notEmpty_' = notEmpty_ \ {t}
  /\ notFull_' = notFull_ \ {t}
  /\ UNCHANGED <<queue_, running_, pc, arg, ownerPc, unused, ran>>

-----------------------------------------------------------------------------
(* The owner: start(), and stop() or the destructor.                       *)

Start ==
  /\ ownerPc = "new"
  /\ running_' = TRUE
  /\ ownerPc' = "starting"
  /\ UNCHANGED <<queue_, notEmpty_, notFull_, pc, arg, unused, ran>>

StartWorker(w) ==
  /\ ownerPc = "starting" /\ pc[w] = "none"
  /\ pc' = [pc EXCEPT ![w] = "test"]
  /\ ownerPc' = IF \E v \in Workers \ {w} : pc[v] = "none" THEN "starting" ELSE "started"
  /\ UNCHANGED <<queue_, running_, notEmpty_, notFull_, arg, unused, ran>>

(* Mutant of NotifyAll: wakes one waiter.                                  *)
NotifyOne(waiters) ==
  IF waiters = {} THEN {} ELSE waiters \ {CHOOSE t \in waiters : TRUE}

NotifyAll(waiters) == {}

(* notifyAll(true).                                                        *)
Stop ==
  /\ ownerPc = "started"
  /\ running_' = FALSE
  /\ notEmpty_' = NotifyAll(notEmpty_) /\ notFull_' = NotifyAll(notFull_)
  /\ ownerPc' = "joining"
  /\ UNCHANGED <<queue_, pc, arg, unused, ran>>

Join ==
  /\ ownerPc = "joining"
  /\ \A w \in Workers : pc[w] = "exited"
  /\ ownerPc' = "stopped"
  /\ UNCHANGED <<queue_, running_, notEmpty_, notFull_, pc, arg, unused, ran>>

-----------------------------------------------------------------------------
WorkerStep(w) ==
  \/ TestRunning(w) \/ TakeWait(w) \/ TakeNull(w) \/ Take(w) \/ TaskReturn(w)
PutStep(t)  == PutWait(t) \/ PutRefused(t) \/ Put(t)
OwnerStep == (\E w \in Workers : StartWorker(w)) \/ Join

Next ==
  \/ \E w \in Workers : WorkerStep(w)
  \/ \E t \in Threads : \/ PutStep(t)
                        \/ Spurious(t)
                        \/ \E x \in Tasks : Run(t, x)
  \/ Start \/ Stop \/ OwnerStep

Spec == Init /\ [][Next]_vars

(* Threads are scheduled and tasks return; a thread that keeps being       *)
(* overtaken at the mutex gets it at last.  Nothing makes anyone call      *)
(* start(), run() or stop().                                               *)
Fairness ==
  /\ \A w \in Workers : SF_vars(WorkerStep(w))
  /\ \A t \in Threads : SF_vars(PutStep(t))
  /\ WF_vars(OwnerStep)

FairSpec == Spec /\ Fairness

-----------------------------------------------------------------------------
TypeOK ==
  /\ queue_ \in Seq(Tasks)
  /\ running_ \in BOOLEAN
  /\ notEmpty_ \subseteq Workers /\ notFull_ \subseteq Threads
  /\ pc \in [Threads -> WorkerPcs \cup ProducerPcs]
  /\ \A w \in Workers : pc[w] \in WorkerPcs
  /\ \A p \in Producers : pc[p] \in ProducerPcs
  /\ arg \in [Threads -> Tasks \cup {NoTask}]
  /\ \A t \in Threads : pc[t] = "put" => arg[t] \in Tasks
  /\ ownerPc \in {"new", "starting", "started", "joining", "stopped"}
  /\ unused \subseteq Tasks /\ ran \subseteq Tasks

(* Workers on their way to a task: they will test the queue again before   *)
(* they wait.                                                              *)
Hungry == {w \in Workers : pc[w] = "test" \/ Taking(w)}

(* Threads on their way to a slot of the queue.                            *)
Pushing == {t \in Threads : Putting(t)}

(* notEmpty_ loses no task: while a worker sleeps in take(), each queued   *)
(* task has a worker of its own on the way (put's notify(), line 46,       *)
(* against take's wait, lines 67-70).                                      *)
NoIdleWorker ==
  running_ /\ notEmpty_ /= {} => Len(queue_) <= Cardinality(Hungry)

(* notFull_ loses no slot: while a thread sleeps in put(), each free slot  *)
(* has a thread of its own on the way (take's notify(), line 75, against   *)
(* put's wait, lines 39-42).  In particular nobody sleeps on an empty      *)
(* queue.                                                                  *)
NoIdleSlot ==
  running_ /\ notFull_ /= {} => MaxQueueSize - Len(queue_) <= Cardinality(Pushing)

(* stop() returns: nobody sleeps through notifyAll(true), and every worker *)
(* leaves its loop, even if all of them were blocked in run() inside their *)
(* tasks (ThreadPool.cc:35-43, ThreadPool.h:102-108).                      *)
StopReturns == ownerPc = "joining" ~> ownerPc = "stopped"

(* The one way the pool comes to a standstill before stop(): the queue is  *)
(* full and every worker is inside a task that waits in run() for room.    *)
Stuck == isFull /\ \A w \in Workers : pc[w] = "put"

(* A queued task is run, unless the pool is stopped or stuck (run 50-53,   *)
(* runInThread 62-94).                                                     *)
EveryTaskRuns ==
  \A x \in Tasks : (\E i \in DOMAIN queue_ : queue_[i] = x)
                     ~> x \in ran \/ ~ running_ \/ Stuck
=============================================================================
