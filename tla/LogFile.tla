-------------------------------- MODULE LogFile --------------------------------
(***************************************************************************)
(* LogFile over FileUtil::AppendFile (src/base/LogFile.cc, FileUtil.cc):   *)
(* a log appended to a file through a stdio buffer, and rolled to a new    *)
(* file when the file has grown past rollSize_.                            *)
(*                                                                         *)
(* A file is the sequence of the lines written to it.  LogFile's mutex (or *)
(* its having a single user) makes each operation one step.                *)
(***************************************************************************)
EXTENDS Naturals, Sequences, SequencesExt

CONSTANTS RollSize,      \* rollSize_, in bytes
          MaxClock,      \* bound on time(NULL)
          MaxFailures    \* bound on the appends in which fwrite fails

ASSUME RollAssumption == RollSize \in Nat /\ MaxClock \in Nat /\ MaxFailures \in Nat

VARIABLES clock,         \* time(NULL), in seconds
          lastRoll_,
          writtenBytes_, \* of the current file
          files,         \* the files rolled to so far, as written
          stdio,         \* the lines at the end that are still in buffer_
          lost,          \* lines that a failed fwrite lost, or cut
          failures       \* the appends in which fwrite failed

lossVars == <<lost, failures>>
logFileVars == <<clock, lastRoll_, writtenBytes_, files, stdio, lossVars>>

(* Before the constructor.                                                 *)
LogFileInit ==
  /\ clock = 1 /\ lastRoll_ = 0
  /\ writtenBytes_ = 0
  /\ files = <<>>
  /\ stdio = <<>>
  /\ lost = {} /\ failures = 0

(* The constructor rolls to the first file.                                *)
LogFileOpen ==
  /\ files' = << <<>> >>
  /\ lastRoll_' = clock
  /\ UNCHANGED <<clock, writtenBytes_, stdio, lossVars>>

(* AppendFile::append: what the stdio buffer holds afterwards.  When the   *)
(* buffer cannot be written out, lines in it and lines being appended are  *)
(* gone, whichever fwrite returns; the loop ends once it returns 0.        *)
Appended(lines, gone) == SelectSeq(stdio \o lines, LAMBDA x : x \notin gone)

(* append of len bytes holding lines, and rollFile when the file is past   *)
(* its size: at most once a second, since the name has the second in it.   *)
(* The file that is left is closed, which flushes it.  All len bytes count *)
(* as written, also if fwrite failed.                                      *)
LogFileAppend(lines, len) ==
  \E gone \in SUBSET ToSet(stdio \o lines) :
    LET current == files[Len(files)]
        flushed == SubSeq(current, 1, Len(current) - Len(stdio))
        file    == flushed \o Appended(lines, gone)
    IN /\ gone /= {} => failures < MaxFailures
       /\ failures' = IF gone = {} THEN failures ELSE failures + 1
       /\ lost' = lost \cup gone
       /\ IF writtenBytes_ + len > RollSize /\ clock > lastRoll_
          THEN /\ files' = Append([files EXCEPT ![Len(files)] = file], <<>>)
               /\ writtenBytes_' = 0
               /\ lastRoll_' = clock
               /\ stdio' = <<>>
               /\ UNCHANGED clock
          ELSE /\ files' = [files EXCEPT ![Len(files)] = file]
               /\ writtenBytes_' = writtenBytes_ + len
               /\ stdio' = Appended(lines, gone)
               /\ UNCHANGED <<clock, lastRoll_>>

LogFileFlush ==
  /\ stdio' = <<>>
  /\ UNCHANGED <<clock, lastRoll_, writtenBytes_, files, lossVars>>

(* stdio writes its buffer out by itself when it is full.                  *)
LogFileSpill ==
  /\ stdio /= <<>>
  /\ stdio' = Tail(stdio)
  /\ UNCHANGED <<clock, lastRoll_, writtenBytes_, files, lossVars>>

LogFileTick ==
  /\ clock < MaxClock
  /\ clock' = clock + 1
  /\ UNCHANGED <<lastRoll_, writtenBytes_, files, stdio, lossVars>>

(* All that was appended, and what of it a crash would leave on disk.      *)
Logged == FlattenSeq(files)
OnDisk == SubSeq(Logged, 1, Len(Logged) - Len(stdio))

LogFileTypeOK ==
  /\ clock \in 1..MaxClock /\ lastRoll_ \in 0..clock
  /\ writtenBytes_ \in Nat
  /\ Len(files) <= lastRoll_
  /\ Len(stdio) <= Len(Logged)
  /\ lost \subseteq Nat /\ failures \in 0..MaxFailures
=============================================================================
