--------------------------------- MODULE Log ---------------------------------
(***************************************************************************)
(* XrtcLog: every thread of the process pushes lines to a queue under a     *)
(* mutex, and one thread empties the queue into a file every 30 ms, until   *)
(* stop() clears _running.                                                  *)
(*                                                                         *)
(* A pass of the thread moves the queue under the mutex and writes the      *)
(* lines after it let the mutex go.  The code has this twice, for the lines *)
(* below LS_WARNING and for the others, with nothing in common but the      *)
(* thread; the model has it once.  Which inode a line reaches when the file *)
(* was moved away (the stat() of every hundredth pass reopens it) is left   *)
(* out: the file here is all that was written through the stream, in order. *)
(***************************************************************************)
EXTENDS Sequences

VARIABLES logQueue,   \* _log_queue
          tmp,        \* the lines write_log_to_log_file() took and has not written
          file,       \* the lines written
          running,    \* _running
          logPc,      \* the log thread: "none", "test", "write" or "done"
          logged      \* every line pushed, in order: history

logVars == <<logQueue, tmp, file, running, logPc, logged>>

LogInit == /\ logQueue = << >> /\ file = << >> /\ logged = << >> /\ tmp = << >>
           /\ running = FALSE /\ logPc = "none"

\* OnLogMessage().
OnLogMessage(line) ==
  /\ logQueue' = Append(logQueue, line) /\ logged' = Append(logged, line)
  /\ UNCHANGED <<tmp, file, running, logPc>>

\* start(): the thread begins with a look at _running.
StartLog == running' = TRUE /\ logPc' = "test" /\ UNCHANGED <<logQueue, tmp, file, logged>>

\* tmp = std::move(queue), under the mutex.
Take == tmp' = logQueue /\ logQueue' = << >>

\* while (_running) and the first half of write_log_to_log_file().  The flag is
\* read before the queue is taken, and the loop ends without a last pass: a pass
\* over an empty queue changes nothing.
TakeLines ==
  /\ logPc = "test"
  /\ \/ running /\ logQueue # << >> /\ Take /\ logPc' = "write"
     \/ ~running /\ logPc' = "done" /\ UNCHANGED <<tmp, logQueue>>
  /\ UNCHANGED <<file, running, logged>>

\* The second half, and the sleep.
WriteLines ==
  /\ logPc = "write"
  /\ file' = file \o tmp /\ tmp' = << >> /\ logPc' = "test"
  /\ UNCHANGED <<logQueue, running, logged>>

LogThread == TakeLines \/ WriteLines

\* stop(): the flag, then the join that waits for the pass the thread is in.
StopLog == running' = FALSE /\ UNCHANGED <<logQueue, tmp, file, logPc, logged>>
LogJoined == logPc = "done"

\* Lines keep their order and none is doubled between OnLogMessage() and the file
\* (log.cpp:31 and 142).  It says nothing of how far the file gets: what is queued
\* after the thread's last pass is never written, and StopLog comes when it comes.
LogOrder == file \o tmp \o logQueue = logged

\* The inductive invariant of the log, for lines of a set: between two passes of the
\* thread nothing is in hand, so that no pass overwrites what the last one took.
LogInv(Line) ==
  /\ \A s \in {logQueue, tmp, file, logged} : s \in Seq(Line)
  /\ logPc # "write" => tmp = << >>
  /\ LogOrder
=============================================================================
