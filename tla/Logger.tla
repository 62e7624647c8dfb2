------------------------------- MODULE Logger -------------------------------
(***************************************************************************)
(* The front end of logging (src/base/Logging.cc): LOG_TRACE ... of        *)
(* several threads.  A statement's Logger notes the time, puts its line    *)
(* together in a LogStream of its own and hands it to g_output when it is  *)
(* destroyed.  Each thread keeps the text of the last second it formatted. *)
(***************************************************************************)
EXTENDS LogStream

CONSTANTS
  Threads,
  Statements,    \* what is logged: level, errno (of LOG_SYS...), body
  MaxClock,      \* bound on the time, in seconds
  MaxLines       \* bound on the lines put out

TRACE == 0
DEBUG == 1
INFO  == 2
WARN  == 3
ERROR == 4
FATAL == 5

ASSUME StatementsAssumption ==
  \A s \in Statements :
    /\ s.level \in TRACE..FATAL /\ s.errno \in Nat
    /\ s.errno /= 0 => s.level \in {ERROR, FATAL}

VARIABLES
  g_logLevel,
  clock,          \* seconds since the epoch
  t_lastSecond,   \* per thread
  t_time,         \* per thread: the second t_time holds the text of
  statement,      \* per thread: what it is logging, or None
  began,          \* per thread: the time when its statement began
  stream_,        \* per thread: the statement's LogStream
  rest,           \* per thread: what is still to be inserted
  output,         \* what g_output got
  aborted

vars == <<g_logLevel, clock, t_lastSecond, t_time, statement, began, stream_, rest, output, aborted>>

None == [level |-> -1]

Init ==
  /\ g_logLevel = INFO
  /\ clock = 1
  /\ t_lastSecond = [t \in Threads |-> 0] /\ t_time = [t \in Threads |-> 0]
  /\ statement = [t \in Threads |-> None] /\ began = [t \in Threads |-> 0]
  /\ stream_ = [t \in Threads |-> NewBuffer]
  /\ rest = [t \in Threads |-> <<>>]
  /\ output = <<>> /\ aborted = FALSE

If(cond, items) == IF cond THEN items ELSE <<>>

(* What the constructors insert: the time, the thread, the level, errno    *)
(* and, for TRACE and DEBUG, the function.                                 *)
Heading(t, s, second) ==
  <<<<"second", 17, second>>, <<"micros", 9>>, <<"tid", 6, t>>, <<"level", 6, s.level>>>>
    \o If(s.errno /= 0, <<<<"strerror", 20>>, <<" (errno=", 8>>, <<"int", s.errno>>, <<") ", 2>>>>)
    \o If(s.level <= DEBUG, <<<<"func", 8>>, <<" ", 1>>>>)

(* Impl::finish.                                                           *)
Finish == <<<<" - ", 3>>, <<"basename", 10>>, <<":", 1>>, <<"int", 120>>, <<"newline", 1>>>>

(* All a statement inserts.                                                *)
Line(t, s, second) == Heading(t, s, second) \o s.body \o Finish

-----------------------------------------------------------------------------
(* The macros: only TRACE, DEBUG and INFO ask for the level.               *)
Enabled(level) == level <= INFO => g_logLevel <= level

(* Mutant of SecondText: an earlier second is not formatted anew.          *)
SecondTextLater(t) == IF clock > t_lastSecond[t] THEN clock ELSE t_time[t]

(* formatTime: formats the second anew unless it is the last one.          *)
SecondText(t) == IF clock /= t_lastSecond[t] THEN clock ELSE t_time[t]

(* The constructor, up to its first insertion.                             *)
Begin(t, s) ==
  /\ statement[t] = None /\ Enabled(s.level) /\ Len(output) < MaxLines
  /\ statement' = [statement EXCEPT ![t] = s]
  /\ began' = [began EXCEPT ![t] = clock]
  /\ t_lastSecond' = [t_lastSecond EXCEPT ![t] = clock]
  /\ t_time' = [t_time EXCEPT ![t] = SecondText(t)]
  /\ stream_' = [stream_ EXCEPT ![t] = NewBuffer]
  /\ rest' = [rest EXCEPT ![t] = Line(t, s, SecondText(t))]
  /\ UNCHANGED <<g_logLevel, clock, output, aborted>>

(* The insertions: the thread's own business, so one step.                 *)
Compose(t) ==
  /\ rest[t] /= <<>>
  /\ stream_' = [stream_ EXCEPT ![t] = FoldLeft(Insert, @, rest[t])]
  /\ rest' = [rest EXCEPT ![t] = <<>>]
  /\ UNCHANGED <<g_logLevel, clock, t_lastSecond, t_time, statement, began, output, aborted>>

(* ~Logger: g_output, and for FATAL g_flush and abort.                     *)
End(t) ==
  /\ statement[t] /= None /\ rest[t] = <<>>
  /\ output' = Append(output, [by |-> t, of |-> statement[t], at |-> began[t],
                               pieces |-> stream_[t].pieces, length |-> stream_[t].length])
  /\ aborted' = (statement[t].level = FATAL)
  /\ statement' = [statement EXCEPT ![t] = None]
  /\ began' = [began EXCEPT ![t] = 0]
  /\ stream_' = [stream_ EXCEPT ![t] = NewBuffer]
  /\ UNCHANGED <<g_logLevel, clock, t_lastSecond, t_time, rest>>

SetLogLevel(level) ==
  /\ g_logLevel' = level
  /\ UNCHANGED <<clock, t_lastSecond, t_time, statement, began, stream_, rest, output, aborted>>

(* The system's clock goes on, or is set, back too.                        *)
Tick ==
  /\ clock' \in 1..MaxClock
  /\ UNCHANGED <<g_logLevel, t_lastSecond, t_time, statement, began, stream_, rest, output, aborted>>

Next ==
  /\ ~ aborted
  /\ \/ \E t \in Threads : (\E s \in Statements : Begin(t, s)) \/ Compose(t) \/ End(t)
     \/ \E level \in {TRACE, INFO, FATAL} : SetLogLevel(level)
     \/ Tick

Spec == Init /\ [][Next]_vars

-----------------------------------------------------------------------------
(* Properties.                                                             *)

(* The length of a line that lost nothing.                                 *)
FullLength(o) ==
  FoldLeft(LAMBDA n, item : n + IF item[1] \in {"int", "pointer"} THEN kMaxNumericSize ELSE item[2],
           0, Line(o.by, o.of, o.at))

(* A line that leaves room for its numbers in the buffer is whole: it says *)
(* when its statement began, be it in the thread's cached text or a new    *)
(* one, and everything that was inserted, numbers as they were (formatTime *)
(* 96-115, FixedBuffer::append, formatInteger, convert).                   *)
LineIsWhole ==
  \A i \in DOMAIN output :
    LET o == output[i]
    IN FullLength(o) < kSmallBuffer =>
         [j \in DOMAIN o.pieces |-> Read(o.pieces[j])] = Line(o.by, o.of, o.at)

(* However much is inserted, a line stays within its buffer: numbers are   *)
(* written without a bound, after asking once for room for the longest     *)
(* (LogStream.cc 63-70, 116-138).                                          *)
WithinBuffer == \A t \in Threads : stream_[t].length <= kSmallBuffer

(* Every line ends in a newline (Impl::finish 117-120).                    *)
LinesEnd == \A i \in DOMAIN output : Last(output[i].pieces).what = <<"newline">>
=============================================================================
