----------------------------- MODULE AsyncLogging -----------------------------
(***************************************************************************)
(* AsyncLogging (src/base/AsyncLogging.cc): front-end threads append lines *)
(* to currentBuffer_ under mutex_; the logging thread takes the full       *)
(* buffers and the current one in exchange for its two spare buffers and   *)
(* writes them to a LogFile outside the lock.                              *)
(*                                                                         *)
(* A BufferPtr is a sequence of at most one buffer, the empty sequence     *)
(* being null, so that moving one into a vector is concatenation.  A       *)
(* buffer holds whole lines.  The n-th line appended is the number n.      *)
(* Sections under mutex_ are single steps, whichever front-end thread      *)
(* takes them; the timed wait of the logging thread may end at any time.   *)
(***************************************************************************)
EXTENDS LogFile, FiniteSets

CONSTANTS
  BufferSize,    \* kLargeBuffer
  LineLens,      \* lengths of log lines; all are shorter than a buffer
  MaxPending,    \* 25: more buffers than this are dropped
  NoticeLen,     \* length of the "Dropped log messages" line
  MaxLines       \* bound on the number of lines appended

ASSUME BufferAssumption ==
  /\ BufferSize \in Nat /\ MaxPending \in Nat \ {0, 1} /\ NoticeLen \in Nat
  /\ LineLens \subseteq {n \in Nat : n < BufferSize}
  /\ MaxLines \in Nat

VARIABLES
  currentBuffer_, nextBuffer_, buffers_,      \* shared, under mutex_
  running_,
  newBuffer1, newBuffer2, buffersToWrite,     \* of the logging thread
  next,            \* how many of buffersToWrite have been written
  loggerPc,
  ownerPc,         \* the thread that calls start and stop
  appended,        \* number of lines appended so far
  dropped,         \* lines in buffers that were dropped
  beforeStop       \* number of lines appended when stop was called

frontVars  == <<currentBuffer_, nextBuffer_, buffers_>>
loggerVars == <<newBuffer1, newBuffer2, buffersToWrite, next, loggerPc>>
ownerVars  == <<running_, ownerPc, beforeStop>>
vars == <<frontVars, loggerVars, ownerVars, appended, dropped, logFileVars>>

Null  == <<>>
Empty == [lines |-> <<>>, len |-> 0]
New   == <<Empty>>
Notice == 0        \* the "Dropped log messages" line

Init ==
  /\ currentBuffer_ = New /\ nextBuffer_ = New /\ buffers_ = <<>>
  /\ running_ = FALSE
  /\ newBuffer1 = New /\ newBuffer2 = New /\ buffersToWrite = <<>> /\ next = 0
  /\ loggerPc = "unborn" /\ ownerPc = "new"
  /\ appended = 0 /\ dropped = {} /\ beforeStop = 0
  /\ LogFileInit

-----------------------------------------------------------------------------
(* avail() > len                                                           *)
Fits(b, len) == BufferSize - b.len > len

(* FixedBuffer::append: a line that does not fit is left out.              *)
AppendTo(b, line, len) ==
  IF Fits(b, len)
  THEN [lines |-> Append(b.lines, line), len |-> b.len + len]
  ELSE b

(* append, in any front-end thread.                                        *)
FrontAppend(len) ==
  LET line == appended + 1
  IN /\ appended < MaxLines
     /\ appended' = line
     /\ IF Fits(currentBuffer_[1], len)
        THEN /\ currentBuffer_' = <<AppendTo(currentBuffer_[1], line, len)>>
             /\ UNCHANGED <<nextBuffer_, buffers_>>
        ELSE /\ buffers_' = buffers_ \o currentBuffer_
             /\ currentBuffer_' = <<AppendTo((IF nextBuffer_ /= Null THEN nextBuffer_
                                              ELSE New)[1], line, len)>>
             /\ nextBuffer_' = Null
     /\ UNCHANGED <<loggerVars, ownerVars, dropped, logFileVars>>

-----------------------------------------------------------------------------
(* start and stop, in the owner's thread; ~AsyncLogging is stop.           *)

Start ==
  /\ ownerPc = "new"
  /\ running_' = TRUE
  /\ loggerPc' = "start"
  /\ ownerPc' = "latch"
  /\ UNCHANGED <<frontVars, newBuffer1, newBuffer2, buffersToWrite, next, appended,
                 dropped, beforeStop, logFileVars>>

LatchWait ==
  /\ ownerPc = "latch" /\ loggerPc /= "start"
  /\ ownerPc' = "started"
  /\ UNCHANGED <<frontVars, loggerVars, running_, beforeStop, appended, dropped, logFileVars>>

Stop ==
  /\ ownerPc = "started"
  /\ running_' = FALSE
  /\ beforeStop' = appended
  /\ ownerPc' = "join"
  /\ UNCHANGED <<frontVars, loggerVars, appended, dropped, logFileVars>>

Join ==
  /\ ownerPc = "join" /\ loggerPc = "done"
  /\ ownerPc' = "stopped"
  /\ UNCHANGED <<frontVars, loggerVars, running_, beforeStop, appended, dropped, logFileVars>>

-----------------------------------------------------------------------------
(* threadFunc.                                                             *)

CountDown ==
  /\ loggerPc = "start"
  /\ loggerPc' = "open"
  /\ UNCHANGED <<frontVars, ownerVars, newBuffer1, newBuffer2, buffersToWrite, next,
                 appended, dropped, logFileVars>>

(* The local LogFile output.                                               *)
Open ==
  /\ loggerPc = "open"
  /\ LogFileOpen
  /\ loggerPc' = "while"
  /\ UNCHANGED <<frontVars, ownerVars, newBuffer1, newBuffer2, buffersToWrite, next,
                 appended, dropped>>

TestRunning ==
  /\ loggerPc = "while"
  /\ loggerPc' = IF running_ THEN "lock" ELSE "exit"
  /\ UNCHANGED <<frontVars, ownerVars, newBuffer1, newBuffer2, buffersToWrite, next,
                 appended, dropped, logFileVars>>

Wait ==
  /\ loggerPc = "lock" /\ buffers_ = <<>>
  /\ loggerPc' = "waiting"
  /\ UNCHANGED <<frontVars, ownerVars, newBuffer1, newBuffer2, buffersToWrite, next,
                 appended, dropped, logFileVars>>

(* Mutant of WaitMayEnd: the wait is not timed.                            *)
WaitNotified == buffers_ /= <<>>

(* waitForSeconds returns when notified, after flushInterval_, or for no   *)
(* reason.                                                                 *)
WaitMayEnd == TRUE

(* Mutant of Taken: the current buffer goes first.                         *)
TakenCurrentFirst == currentBuffer_ \o buffers_

Taken == buffers_ \o currentBuffer_

(* The rest of the critical section, entered with full buffers or when the *)
(* wait ends: notified, timed out or for no reason, buffers_ is not looked *)
(* at again.                                                               *)
Swap ==
  /\ (loggerPc = "waiting" /\ WaitMayEnd) \/ (loggerPc = "lock" /\ buffers_ /= <<>>)
  /\ buffersToWrite' = Taken
  /\ buffers_' = <<>>
  /\ currentBuffer_' = newBuffer1
  /\ newBuffer1' = Null
  /\ IF nextBuffer_ = Null
     THEN nextBuffer_' = newBuffer2 /\ newBuffer2' = Null
     ELSE UNCHANGED <<nextBuffer_, newBuffer2>>
  /\ next' = 0
  /\ loggerPc' = "drop"
  /\ UNCHANGED <<ownerVars, appended, dropped, logFileVars>>

(* Mutant of NoteDrop: buffers are dropped silently.                       *)
NoteNothing == UNCHANGED logFileVars

NoteDrop == LogFileAppend(<<Notice>>, NoticeLen)

(* Too many buffers: say so in the log and keep the first two.             *)
LinesOf(bs) == UNION {{bs[i].lines[j] : j \in DOMAIN bs[i].lines} : i \in DOMAIN bs}

Drop ==
  /\ loggerPc = "drop"
  /\ loggerPc' = "write"
  /\ IF Len(buffersToWrite) > MaxPending
     THEN /\ NoteDrop
          /\ buffersToWrite' = SubSeq(buffersToWrite, 1, 2)
          /\ dropped' = dropped \cup
               LinesOf(SubSeq(buffersToWrite, 3, Len(buffersToWrite)))
     ELSE UNCHANGED <<logFileVars, buffersToWrite, dropped>>
  /\ UNCHANGED <<frontVars, ownerVars, newBuffer1, newBuffer2, next, appended>>

WriteBuffer ==
  /\ loggerPc = "write" /\ next < Len(buffersToWrite)
  /\ LogFileAppend(buffersToWrite[next + 1].lines, buffersToWrite[next + 1].len)
  /\ next' = next + 1
  /\ UNCHANGED <<frontVars, ownerVars, newBuffer1, newBuffer2, buffersToWrite, loggerPc,
                 appended, dropped>>

(* Mutant of Kept: resize(1).                                              *)
KeptOne(n) == 1

(* How many of n buffers resize(2) keeps.                                  *)
Kept(n) == IF n > 2 THEN 2 ELSE n

(* The written buffers become the spare ones again, taken from the back of *)
(* the first two; the others are freed, and the file is flushed.           *)
Recycle ==
  /\ loggerPc = "write" /\ next = Len(buffersToWrite)
  /\ LET left == Kept(Len(buffersToWrite))
         rest == IF newBuffer1 = Null THEN left - 1 ELSE left
     IN /\ newBuffer1' = IF newBuffer1 = Null /\ left > 0 THEN New ELSE newBuffer1
        /\ newBuffer2' = IF newBuffer2 = Null /\ rest > 0 THEN New ELSE newBuffer2
  /\ buffersToWrite' = <<>>
  /\ next' = 0
  /\ LogFileFlush
  /\ loggerPc' = "while"
  /\ UNCHANGED <<frontVars, ownerVars, appended, dropped>>

Exit ==
  /\ loggerPc = "exit"
  /\ LogFileFlush
  /\ loggerPc' = "done"
  /\ UNCHANGED <<frontVars, ownerVars, newBuffer1, newBuffer2, buffersToWrite, next,
                 appended, dropped>>

(* The world: stdio's buffer and the clock.                                *)
World ==
  /\ LogFileSpill \/ LogFileTick
  /\ UNCHANGED <<frontVars, loggerVars, ownerVars, appended, dropped>>

-----------------------------------------------------------------------------
Logger ==
  \/ CountDown \/ Open \/ TestRunning \/ Wait \/ Swap \/ Drop \/ WriteBuffer
  \/ Recycle \/ Exit

Next ==
  \/ \E len \in LineLens : FrontAppend(len)
  \/ Start \/ LatchWait \/ Stop \/ Join
  \/ Logger
  \/ World

Spec == Init /\ [][Next]_vars

(* The logging thread is scheduled and its timed wait ends; the owner's    *)
(* waits end when they can.  Nobody has to append, start or stop.          *)
Fairness == WF_vars(Logger) /\ WF_vars(LatchWait) /\ WF_vars(Join)
FairSpec == Spec /\ Fairness

-----------------------------------------------------------------------------
TypeOK ==
  /\ \A p \in {currentBuffer_, nextBuffer_, newBuffer1, newBuffer2} :
       p = Null \/ (Len(p) = 1 /\ p[1].len < BufferSize)
  /\ currentBuffer_ /= Null
  /\ running_ \in BOOLEAN
  /\ next \in 0..Len(buffersToWrite)
  /\ loggerPc \in {"unborn", "start", "open", "while", "lock", "waiting", "drop", "write", "exit", "done"}
  /\ ownerPc \in {"new", "latch", "started", "join", "stopped"}
  /\ appended \in 0..MaxLines /\ beforeStop \in 0..appended /\ dropped \subseteq 1..MaxLines
  /\ LogFileTypeOK

(* The assertions of threadFunc (63, 75-77, 97, 126, 134): each round      *)
(* begins with two empty spare buffers and nothing left to write, and each *)
(* round's buffers suffice to make up the spares it gave away, because the *)
(* front end has no next buffer only after filling one.                    *)
SparesReturn ==
  /\ loggerPc = "start" => running_
  /\ loggerPc \in {"while", "lock", "waiting"} =>
       newBuffer1 = New /\ newBuffer2 = New /\ buffersToWrite = <<>>
  /\ loggerPc \in {"drop", "write"} =>
       Len(buffersToWrite) >= Len(New \o New) - Len(newBuffer1 \o newBuffer2)
  /\ nextBuffer_ \in {Null, New}
  /\ nextBuffer_ = Null => buffers_ /= <<>>

LinesIn(bs) == FlattenSeq([i \in DOMAIN bs |-> bs[i].lines])
Pending ==
  LinesIn(SubSeq(buffersToWrite, next + 1, Len(buffersToWrite)) \o buffers_ \o currentBuffer_)
Written == SelectSeq(Logged, LAMBDA x : x /= Notice)

(* No line is lost, written twice or out of order: what is in the log      *)
(* files followed by what is still in buffers is all the lines appended,   *)
(* in the order of append, but for those of the buffers dropped at 109 and *)
(* those a failed fwrite lost.                                             *)
LinesInOrder ==
  Written \o Pending =
    SelectSeq([i \in 1..appended |-> i], LAMBDA x : x \notin dropped \cup lost)

(* Whenever a crash comes, it leaves a log in which every hole is noted:   *)
(* on disk there are at least as many notices of dropped buffers (107) as  *)
(* gaps in the sequence of lines, whatever stdio still held; gaps that a   *)
(* failed fwrite made apart, and unless it took a notice.                  *)
HolesAreNoted ==
  LET disk    == SelectSeq(OnDisk, LAMBDA x : x /= Notice)
      notices == SelectSeq(OnDisk, LAMBDA x : x = Notice)
      holes   == {i \in 1..(Len(disk) - 1) :
                    \E x \in (disk[i] + 1)..(disk[i+1] - 1) : x \notin lost}
  IN Notice \notin lost => Cardinality(holes) <= Len(notices)

(* While the logger is not stopped every line appended reaches the files,  *)
(* is dropped with a notice or lost by a failed fwrite, however little is  *)
(* logged after it: the wait at 83 is timed.                               *)
EveryLineWritten ==
  \A n \in 1..MaxLines :
    (loggerPc /= "unborn" /\ appended >= n)
      ~> (n \in dropped \cup lost \/ (\E i \in DOMAIN OnDisk : OnDisk[i] = n) \/ ~ running_)

(* stop returns: the logging thread sees running_ even if the notify of    *)
(* stop comes before its wait.                                             *)
StopReturns == ownerPc = "join" ~> ownerPc = "stopped"

(* README line 22: the logging thread records the log.  When stop returns, *)
(* the lines appended before it was called are in the files.               *)
AllWrittenAtStop ==
  ownerPc = "stopped" => \A n \in 1..beforeStop :
    n \in dropped \cup lost \/ \E i \in DOMAIN Written : Written[i] = n

(* LogFile.h line 41: the file is changed when what was written to it      *)
(* reaches rollSize_.                                                      *)
RollsAtSize == writtenBytes_ <= RollSize
=============================================================================
