------------------------------ MODULE TimerQueue ------------------------------
(***************************************************************************)
(* TimerQueue, Timer and TimerId (src/net/TimerQueue.cc): timers kept by   *)
(* expiration (timers_) and by address (activeTimers_), one timerfd armed  *)
(* for the earliest, timers added and cancelled from any thread.           *)
(*                                                                         *)
(* Timers live at addresses that are used again once freed, so a stale     *)
(* TimerId may name the address of another timer.  A tick of the clock is  *)
(* the 100 microseconds below which resetTimerfd does not go.              *)
(***************************************************************************)
EXTENDS Naturals, Sequences

CONSTANTS
  Addrs,         \* addresses of Timer objects
  Callers,       \* threads other than the loop thread
  Delays,        \* delays of runAfter, in ticks
  Intervals,     \* intervals of runEvery; 0 is a timer that does not repeat
  MaxSeq,        \* bound on s_numCreated_
  MaxTime,       \* bound on the clock
  ShareIds       \* may the loop thread cancel a TimerId before its timer's
                 \* queued addTimerInLoop has run?

ASSUME TimeAssumption == Delays \subseteq Nat /\ Intervals \subseteq Nat
ASSUME BoundAssumption == MaxSeq \in Nat /\ MaxTime \in Nat /\ ShareIds \in BOOLEAN

VARIABLES
  now,
  heap,               \* per address: the Timer there, or Free
  timers_,            \* set of <<expiration, address>>
  activeTimers_,      \* set of <<address, sequence>>
  cancelingTimers_,
  callingExpiredTimers_,
  loopPc,             \* "idle", "calling" (in handleRead), "callback"
  polled,             \* epoll_wait returned the timerfd
  expired, todo,      \* handleRead's expired, and those not yet run
  readTime,           \* handleRead's now
  armedAt,            \* when the timerfd fires, 0 if it is not set
  fired,              \* the timerfd is readable
  queue,              \* functors queued to the loop
  callerPc, callerAddr, callerSeq,
  numCreated,         \* s_numCreated_
  ids,                \* the TimerIds addTimer returned
  added,              \* sequences addTimerInLoop has seen
  cancelled           \* sequences cancelInLoop has seen

timerVars  == <<heap, timers_, activeTimers_, numCreated, ids, added>>
fdVars     == <<armedAt, fired>>
batchVars  == <<expired, todo, readTime, callingExpiredTimers_, loopPc, polled>>
callerVars == <<callerPc, callerAddr, callerSeq>>
cancelVars == <<cancelingTimers_, cancelled>>
vars == <<now, timerVars, fdVars, batchVars, callerVars, cancelVars, queue>>

Free == [live |-> FALSE, seq |-> 0, when |-> 0, interval |-> 0]
Null == "null"

Init ==
  /\ now = 1
  /\ heap = [a \in Addrs |-> Free]
  /\ timers_ = {} /\ activeTimers_ = {}
  /\ cancelingTimers_ = {} /\ cancelled = {}
  /\ callingExpiredTimers_ = FALSE /\ loopPc = "idle" /\ polled = FALSE
  /\ expired = {} /\ todo = {} /\ readTime = 0
  /\ armedAt = 0 /\ fired = FALSE
  /\ queue = <<>>
  /\ callerPc = [t \in Callers |-> "idle"]
  /\ callerAddr = [t \in Callers |-> Null]
  /\ callerSeq = [t \in Callers |-> 0]
  /\ numCreated = 0 /\ ids = {} /\ added = {}

Later(x, y) == IF x > y THEN x ELSE y

Earliest(entries) == CHOOSE e \in entries : \A f \in entries : e[1] <= f[1]

(* timerfd_settime through howMuchTimeFromNow; it forgets a past expiry.   *)
ResetTimerfd(expiration) ==
  /\ armedAt' = Later(expiration, now + 1)
  /\ fired' = FALSE

-----------------------------------------------------------------------------
(* s_numCreated_.incrementAndGet()                                         *)
NextSequence == numCreated + 1

(* new Timer, at a free address.                                           *)
NewTimer(a, delay, interval) ==
  /\ ~ heap[a].live
  /\ numCreated < MaxSeq
  /\ now + delay <= MaxTime
  /\ numCreated' = NextSequence
  /\ heap' = [heap EXCEPT ![a] = [live |-> TRUE, seq |-> NextSequence,
                                  when |-> now + delay, interval |-> interval]]

(* Mutant of EarliestChanged: sets the timerfd for the first timer only.   *)
FirstTimer(when) == timers_ = {}

(* insert's result.                                                        *)
EarliestChanged(when) == \A e \in timers_ : when < e[1]

(* addTimerInLoop, insert included; h is the heap with the timer.          *)
AddTimerInLoop(a, h) ==
  /\ timers_' = timers_ \cup {<<h[a].when, a>>}
  /\ activeTimers_' = activeTimers_ \cup {<<a, h[a].seq>>}
  /\ added' = added \cup {h[a].seq}
  /\ IF EarliestChanged(h[a].when)
     THEN ResetTimerfd(h[a].when)
     ELSE UNCHANGED fdVars

(* cancelInLoop: the timer is looked up by address and sequence, and only  *)
(* an entry that is found is dereferenced.                                 *)
CancelInLoop(id) ==
  /\ cancelled' = cancelled \cup {id[2]}
  /\ IF id \in activeTimers_
     THEN /\ timers_' = timers_ \ {<<heap[id[1]].when, id[1]>>}
          /\ activeTimers_' = activeTimers_ \ {id}
          /\ heap' = [heap EXCEPT ![id[1]] = Free]
          /\ UNCHANGED cancelingTimers_
     ELSE /\ cancelingTimers_' = IF callingExpiredTimers_
                                 THEN cancelingTimers_ \cup {id}
                                 ELSE cancelingTimers_
          /\ UNCHANGED <<timers_, activeTimers_, heap>>

-----------------------------------------------------------------------------
(* The loop thread.  "idle" is any point of the loop outside handleRead:   *)
(* user code may run there too, in callbacks of other channels.            *)

RunAddTimer ==
  /\ loopPc = "idle" /\ queue /= <<>> /\ Head(queue).op = "add"
  /\ AddTimerInLoop(Head(queue).addr, heap)
  /\ queue' = Tail(queue)
  /\ UNCHANGED <<now, heap, numCreated, ids, batchVars, callerVars, cancelVars>>

RunCancel ==
  /\ loopPc = "idle" /\ queue /= <<>> /\ Head(queue).op = "cancel"
  /\ CancelInLoop(<<Head(queue).addr, Head(queue).seq>>)
  /\ queue' = Tail(queue)
  /\ UNCHANGED <<now, numCreated, ids, added, fdVars, batchVars, callerVars>>

LoopAddTimer(a, delay, interval) ==
  /\ loopPc \in {"idle", "callback"}
  /\ NewTimer(a, delay, interval)
  /\ AddTimerInLoop(a, heap')
  /\ ids' = ids \cup {<<a, NextSequence>>}
  /\ UNCHANGED <<now, batchVars, callerVars, cancelVars, queue>>

LoopCancel(id) ==
  /\ loopPc \in {"idle", "callback"}
  /\ ~ ShareIds => id[2] \in added
  /\ CancelInLoop(id)
  /\ UNCHANGED <<now, numCreated, ids, added, fdVars, batchVars, callerVars, queue>>

Poll ==
  /\ loopPc = "idle" /\ fired
  /\ polled' = TRUE
  /\ UNCHANGED <<now, timerVars, fdVars, expired, todo, readTime, loopPc,
                 callingExpiredTimers_, callerVars, cancelVars, queue>>

IdsOf(entries) == {<<e[2], heap[e[2]].seq>> : e \in entries}

(* handleRead up to its loop: readTimerfd, getExpired.                     *)
HandleRead ==
  /\ loopPc = "idle" /\ polled
  /\ polled' = FALSE
  /\ fired' = FALSE
  /\ readTime' = now
  /\ LET due == {e \in timers_ : e[1] <= now}
     IN /\ expired' = due
        /\ todo' = due
        /\ timers_' = timers_ \ due
        /\ activeTimers_' = activeTimers_ \ IdsOf(due)
  /\ callingExpiredTimers_' = TRUE
  /\ cancelingTimers_' = {}
  /\ loopPc' = "calling"
  /\ UNCHANGED <<now, heap, numCreated, ids, added, armedAt, callerVars, cancelled, queue>>

RunTimer ==
  /\ loopPc = "calling" /\ todo /= {}
  /\ \E e \in todo : (\A f \in todo : e[1] <= f[1]) /\ todo' = todo \ {e}
  /\ loopPc' = "callback"
  /\ UNCHANGED <<now, timerVars, fdVars, expired, readTime, polled,
                 callingExpiredTimers_, callerVars, cancelVars, queue>>

CallbackReturn ==
  /\ loopPc = "callback"
  /\ loopPc' = "calling"
  /\ UNCHANGED <<now, timerVars, fdVars, expired, todo, readTime, polled,
                 callingExpiredTimers_, callerVars, cancelVars, queue>>

(* Mutant of Restarts: does not look into cancelingTimers_.                *)
RestartsAnyway(e) == heap[e[2]].interval > 0

(* reset: repeating timers not cancelled meanwhile are inserted again, the *)
(* others deleted, and the timerfd is set for the earliest.                *)
Restarts(e) ==
  heap[e[2]].interval > 0 /\ <<e[2], heap[e[2]].seq>> \notin cancelingTimers_

(* Mutant of AfterRun: timers that do not repeat are not deleted.          *)
AfterRunLeaky(a) ==
  IF \E e \in expired : e[2] = a /\ Restarts(e)
  THEN [heap[a] EXCEPT !.when = readTime + heap[a].interval]
  ELSE heap[a]

(* A Timer after reset: restarted, deleted or as it was.                   *)
AfterRun(a) ==
  IF \E e \in expired : e[2] = a /\ Restarts(e)
  THEN [heap[a] EXCEPT !.when = readTime + heap[a].interval]
  ELSE IF \E e \in expired : e[2] = a THEN Free ELSE heap[a]

Reset ==
  /\ loopPc = "calling" /\ todo = {}
  /\ LET again == {e \in expired : Restarts(e)}
     IN /\ heap' = [a \in Addrs |-> AfterRun(a)]
        /\ timers_' = timers_ \cup {<<heap'[e[2]].when, e[2]>> : e \in again}
        /\ activeTimers_' = activeTimers_ \cup IdsOf(again)
  /\ IF timers_' /= {} THEN ResetTimerfd(Earliest(timers_')[1]) ELSE UNCHANGED fdVars
  /\ callingExpiredTimers_' = FALSE
  /\ expired' = {} /\ readTime' = 0
  /\ loopPc' = "idle"
  /\ UNCHANGED <<now, numCreated, ids, added, todo, polled, callerVars, cancelVars, queue>>

-----------------------------------------------------------------------------
(* Other threads.  addTimer: new Timer, queue it, read its sequence().     *)

CallerNew(t, a, delay, interval) ==
  /\ callerPc[t] = "idle"
  /\ NewTimer(a, delay, interval)
  /\ callerPc' = [callerPc EXCEPT ![t] = "queue"]
  /\ callerAddr' = [callerAddr EXCEPT ![t] = a]
  /\ callerSeq' = [callerSeq EXCEPT ![t] = NextSequence]
  /\ UNCHANGED <<now, timers_, activeTimers_, ids, added, fdVars, batchVars,
                 cancelVars, queue>>

CallerQueue(t) ==
  /\ callerPc[t] = "queue"
  /\ queue' = Append(queue, [op |-> "add", addr |-> callerAddr[t], seq |-> callerSeq[t]])
  /\ callerPc' = [callerPc EXCEPT ![t] = "sequence"]
  /\ UNCHANGED <<now, timerVars, fdVars, batchVars, callerAddr, callerSeq, cancelVars>>

(* return TimerId(timer, timer->sequence()): what is at the address now.   *)
CallerSequence(t) ==
  /\ callerPc[t] = "sequence"
  /\ ids' = ids \cup {<<callerAddr[t], heap[callerAddr[t]].seq>>}
  /\ callerPc' = [callerPc EXCEPT ![t] = "idle"]
  /\ callerAddr' = [callerAddr EXCEPT ![t] = Null]
  /\ callerSeq' = [callerSeq EXCEPT ![t] = 0]
  /\ UNCHANGED <<now, heap, timers_, activeTimers_, numCreated, added, fdVars,
                 batchVars, cancelVars, queue>>

CallerCancel(t, id) ==
  /\ callerPc[t] = "idle"
  /\ \A i \in DOMAIN queue : queue[i] /= [op |-> "cancel", addr |-> id[1], seq |-> id[2]]
  /\ id[2] \notin cancelled   \* each timer is cancelled from outside once
  /\ queue' = Append(queue, [op |-> "cancel", addr |-> id[1], seq |-> id[2]])
  /\ UNCHANGED <<now, timerVars, fdVars, batchVars, callerVars, cancelVars>>

(* The clock, and with it the timerfd.                                     *)
Tick ==
  /\ now < MaxTime
  /\ now' = now + 1
  /\ fired' = (fired \/ armedAt = now + 1)
  /\ armedAt' = IF armedAt = now + 1 THEN 0 ELSE armedAt
  /\ UNCHANGED <<timerVars, batchVars, callerVars, cancelVars, queue>>

-----------------------------------------------------------------------------
Next ==
  \/ RunAddTimer \/ RunCancel \/ Poll \/ HandleRead \/ RunTimer
  \/ CallbackReturn \/ Reset \/ Tick
  \/ \E id \in ids : LoopCancel(id)
  \/ \E a \in Addrs, d \in Delays, i \in Intervals : LoopAddTimer(a, d, i)
  \/ \E t \in Callers :
       \/ \E a \in Addrs, d \in Delays, i \in Intervals : CallerNew(t, a, d, i)
       \/ CallerQueue(t) \/ CallerSequence(t)
       \/ \E id \in ids : CallerCancel(t, id)

Spec == Init /\ [][Next]_vars

-----------------------------------------------------------------------------
TimerType == [live : BOOLEAN, seq : 0..MaxSeq, when : Nat, interval : Intervals \cup {0}]
Entries   == Nat \X Addrs
Ids       == Addrs \X (0..MaxSeq)

TypeOK ==
  /\ now \in 1..MaxTime /\ readTime \in 0..MaxTime /\ armedAt \in Nat
  /\ heap \in [Addrs -> TimerType]
  /\ timers_ \subseteq Entries /\ expired \subseteq Entries /\ todo \subseteq expired
  /\ activeTimers_ \subseteq Ids /\ cancelingTimers_ \subseteq Ids /\ ids \subseteq Ids
  /\ callingExpiredTimers_ \in BOOLEAN /\ polled \in BOOLEAN /\ fired \in BOOLEAN
  /\ loopPc \in {"idle", "calling", "callback"}
  /\ queue \in Seq([op : {"add", "cancel"}, addr : Addrs, seq : 0..MaxSeq])
  /\ callerPc \in [Callers -> {"idle", "queue", "sequence"}]
  /\ callerAddr \in [Callers -> Addrs \cup {Null}]
  /\ callerSeq \in [Callers -> 0..MaxSeq]
  /\ numCreated \in 0..MaxSeq
  /\ added \subseteq 0..MaxSeq /\ cancelled \subseteq 0..MaxSeq

(* timers_ and activeTimers_ hold the same live timers (the assertions at  *)
(* 134, 149, 154, 157, 164, 172, 182, 209, 225, 228), and none of those    *)
(* that expired: no entry refers to a freed or reused Timer.  And every    *)
(* Timer allocated is reachable: in the sets, in the batch being run, in a *)
(* queued functor or in a caller's hands.                                  *)
Consistent ==
  /\ timers_ = {<<heap[i[1]].when, i[1]>> : i \in activeTimers_}
  /\ \A i \in activeTimers_ : heap[i[1]].live /\ heap[i[1]].seq = i[2]
  /\ \A e \in expired : heap[e[2]].live /\ \A f \in timers_ : f[2] /= e[2]
  /\ \A a \in Addrs : heap[a].live =>
       \/ \E e \in timers_ \cup expired : e[2] = a
       \/ \E i \in DOMAIN queue : queue[i].op = "add" /\ queue[i].addr = a
       \/ \E t \in Callers : callerPc[t] = "queue" /\ callerAddr[t] = a

(* Outside handleRead, while there are timers the timerfd has fired or     *)
(* will fire no later than the earliest is due (or the 100 microseconds    *)
(* resetTimerfd insists on): insert's earliestChanged (142-145) and reset  *)
(* (253-261) never leave the queue asleep.                                 *)
ArmedInTime ==
  loopPc = "idle" /\ timers_ /= {} =>
    \/ fired \/ polled
    \/ armedAt > 0 /\ armedAt <= Later(Earliest(timers_)[1], now + 1)

(* A timer whose cancel ran is not waiting to run again: neither cancel    *)
(* from another thread, nor a timer's cancelling itself or another one of  *)
(* its batch, is undone by reset (161-183, 241).                           *)
CancelIsFinal ==
  loopPc = "idle" => \A i \in activeTimers_ : i[2] \notin cancelled

(* Line 176 of the code asks whether a timer can be cancelled while it is  *)
(* among those being run, and supposes that it cannot.                     *)
NeverCanceling == cancelingTimers_ = {}

(* addTimer may be called from any thread (line 100): when it reads        *)
(* timer->sequence() for its result (line 109) the Timer is still there.   *)
SequenceReadIsSafe ==
  \A t \in Callers : callerPc[t] = "sequence" =>
    heap[callerAddr[t]].live /\ heap[callerAddr[t]].seq = callerSeq[t]
=============================================================================
