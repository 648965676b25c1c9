------------------------------- MODULE Logger -------------------------------
(***************************************************************************)
(* The logger of src/src/core/logger.c, called by all threads of the       *)
(* daemon and by its signal handler (src/src/core/main.c).                 *)
(*                                                                         *)
(* A thread's calls nest: logger_rotate logs from inside log_message, and  *)
(* the signal handler logs on top of whatever it interrupts.  stack[t] is  *)
(* the sequence of the log calls t is in, innermost first; each waits for  *)
(* the mutex ("want"), has it ("hold"), or has written ("done").           *)
(***************************************************************************)
EXTENDS Integers, Sequences, SequencesExt

CONSTANTS Writers,      \* the threads
          Nobody,
          Main,         \* the thread that ends with logger_cleanup
          Config,       \* the levels the configuration may set
          Levels,       \* the levels of the messages the threads log
          LineSizes,    \* strlen(message) + 64 of the messages
          MaxLogSize,
          Signals,      \* number of signals that arrive
          MaxLogCalls   \* bound on the calls of log_message from outside

INFO == 1       \* LOG_LEVEL_DEBUG is 0, LOG_LEVEL_CRITICAL 4

ASSUME LoggerAssumption ==
    /\ Nobody \notin Writers /\ Main \in Writers
    /\ Config \subseteq 0..4 /\ Levels \subseteq 0..4 /\ LineSizes \subseteq Nat \ {0} /\ LineSizes # {}
    /\ {MaxLogSize, Signals, MaxLogCalls} \subseteq Nat

VARIABLES level,        \* g_logger.level
          lock,         \* holder of g_logger.lock
          fp,           \* is g_logger.fp open
          log_file,     \* is g_logger.log_file set
          bytes_written,
          file_size,    \* bytes of this process in the file log_file names
          stuck,        \* history: failed renames of that file
          stack,
          log_calls, signals,   \* calls made, signals delivered
          g_shutdown

logVars == <<level, lock, fp, log_file, bytes_written, file_size, stuck, stack,
             log_calls, signals, g_shutdown>>
file == <<file_size, stuck>>

Frames == [at : {"want", "hold", "done"}, from : {"call", "rotate", "signal", "cleanup"}]
Frame(at, from) == [at |-> at, from |-> from]
Innermost(t, where) == stack[t] # <<>> /\ Head(stack[t]).at = where
Top(t, frame) == stack' = [stack EXCEPT ![t] = <<frame>> \o Tail(@)]
Push(t, frames) == stack' = [stack EXCEPT ![t] = frames \o @]

(* After logger_init with a log file. *)
LogInit == /\ level \in Config
           /\ lock = Nobody /\ fp = TRUE /\ log_file = TRUE /\ bytes_written = 0
           /\ file_size = 0 /\ stuck = 0
           /\ stack = [t \in Writers |-> <<>>]
           /\ log_calls = 0 /\ signals = 0 /\ g_shutdown = FALSE

-----------------------------------------------------------------------------
(* A message below the level returns at once and is not modelled. *)
log_message(t, l) ==
    /\ stack[t] = <<>> /\ l >= level /\ log_calls < MaxLogCalls
    /\ log_calls' = log_calls + 1
    /\ Push(t, <<Frame("want", "call")>>)
    /\ UNCHANGED <<level, lock, fp, log_file, bytes_written, file, signals, g_shutdown>>

(* pthread_mutex_lock on a default mutex: a thread that has it waits too. *)
Lock(t) ==
    /\ Innermost(t, "want") /\ lock = Nobody
    /\ lock' = t
    /\ Top(t, Frame("hold", Head(stack[t]).from))
    /\ UNCHANGED <<level, fp, log_file, bytes_written, file, log_calls, signals, g_shutdown>>

(* With the file closed there is nothing to write. *)
Skip(t) ==
    /\ Innermost(t, "hold") /\ Head(stack[t]).from # "cleanup" /\ ~fp
    /\ Top(t, Frame("done", Head(stack[t]).from))
    /\ UNCHANGED <<level, lock, fp, log_file, bytes_written, file, log_calls, signals, g_shutdown>>

(* Mutant: the counter counts lines. *)
MutWrite(t, size) ==
    /\ Innermost(t, "hold") /\ Head(stack[t]).from # "cleanup"
    /\ fp /\ bytes_written + 1 <= MaxLogSize
    /\ bytes_written' = bytes_written + 1 /\ file_size' = file_size + size
    /\ Top(t, Frame("done", Head(stack[t]).from))
    /\ UNCHANGED <<level, lock, fp, log_file, stuck, log_calls, signals, g_shutdown>>

(* fprintf and the counter. *)
Write(t, size) ==
    /\ Innermost(t, "hold") /\ Head(stack[t]).from # "cleanup"
    /\ fp /\ bytes_written + size <= MaxLogSize
    /\ bytes_written' = bytes_written + size /\ file_size' = file_size + size
    /\ Top(t, Frame("done", Head(stack[t]).from))
    /\ UNCHANGED <<level, lock, fp, log_file, stuck, log_calls, signals, g_shutdown>>

(* The line passes the limit and logger_rotate closes the file.  A rename   *)
(* that fails is only reported: the old file stays under the name log_file. *)
Rotate(t, size, renamed) ==
    /\ Innermost(t, "hold") /\ Head(stack[t]).from # "cleanup"
    /\ fp /\ log_file /\ bytes_written + size > MaxLogSize
    /\ file_size' = IF renamed THEN 0 ELSE file_size + size
    /\ stuck' = IF renamed THEN 0 ELSE stuck + 1

(* Mutant: the rotation reports itself at every level. *)
MutWriteRotateLogs(t, size, renamed) ==
    /\ Rotate(t, size, renamed)
    /\ bytes_written' = 0
    /\ stack' = [stack EXCEPT ![t] =
           <<Frame("want", "rotate"), Frame("done", Head(@).from)>> \o Tail(@)]
    /\ UNCHANGED <<level, lock, fp, log_file, log_calls, signals, g_shutdown>>

(* It opens log_file to append, renamed or not, starts to count anew and    *)
(* logs that with the lock held.                                            *)
WriteRotate(t, size, renamed) ==
    /\ Rotate(t, size, renamed)
    /\ bytes_written' = 0
    /\ stack' = [stack EXCEPT ![t] =
           (IF INFO >= level THEN <<Frame("want", "rotate")>> ELSE <<>>)
             \o <<Frame("done", Head(@).from)>> \o Tail(@)]
    /\ UNCHANGED <<level, lock, fp, log_file, log_calls, signals, g_shutdown>>

(* The same, but the file cannot be opened: fp stays NULL. *)
WriteRotateFails(t, size, renamed) ==
    /\ Rotate(t, size, renamed)
    /\ bytes_written' = bytes_written + size
    /\ fp' = FALSE
    /\ Top(t, Frame("done", Head(stack[t]).from))
    /\ UNCHANGED <<level, lock, log_file, log_calls, signals, g_shutdown>>

(* Mutant: an early return without the unlock. *)
MutUnlock(t) ==
    LET f == Head(stack[t])
    IN  /\ Innermost(t, "done")
        /\ lock' = IF fp THEN Nobody ELSE lock
        /\ stack' = [stack EXCEPT ![t] = Tail(@)]
        /\ g_shutdown' = (g_shutdown \/ f.from = "signal")
        /\ UNCHANGED <<level, fp, log_file, bytes_written, file, log_calls, signals>>

(* Mutant: the handler's flag depends on its message having been written. *)
MutUnlockFlag(t) ==
    LET f == Head(stack[t])
    IN  /\ Innermost(t, "done")
        /\ lock' = Nobody
        /\ stack' = [stack EXCEPT ![t] = Tail(@)]
        /\ g_shutdown' = (g_shutdown \/ (f.from = "signal" /\ fp))
        /\ UNCHANGED <<level, fp, log_file, bytes_written, file, log_calls, signals>>

(* The unlock, and the return; the signal handler goes on to set the flag. *)
Unlock(t) ==
    LET f == Head(stack[t])
    IN  /\ Innermost(t, "done")
        /\ lock' = Nobody
        /\ stack' = [stack EXCEPT ![t] = Tail(@)]
        /\ g_shutdown' = (g_shutdown \/ f.from = "signal")
        /\ UNCHANGED <<level, fp, log_file, bytes_written, file, log_calls, signals>>

(* SIGINT or SIGTERM runs signal_handler on any thread, at any point. *)
Signal(t) ==
    /\ signals < Signals /\ signals' = signals + 1
    /\ IF INFO >= level
       THEN Push(t, <<Frame("want", "signal")>>) /\ UNCHANGED g_shutdown
       ELSE g_shutdown' = TRUE /\ UNCHANGED stack
    /\ UNCHANGED <<level, lock, fp, log_file, bytes_written, file, log_calls>>

(* logger_cleanup, at the end of main: after a shutdown, or when the capture *)
(* cannot be opened and the other threads still log.                        *)
logger_cleanup ==
    /\ stack[Main] = <<>> /\ log_file
    /\ Push(Main, <<Frame("want", "cleanup")>>)
    /\ UNCHANGED <<level, lock, fp, log_file, bytes_written, file, log_calls, signals, g_shutdown>>

CloseFile ==
    /\ Innermost(Main, "hold") /\ Head(stack[Main]).from = "cleanup"
    /\ fp' = FALSE /\ log_file' = FALSE
    /\ Top(Main, Frame("done", "cleanup"))
    /\ UNCHANGED <<level, lock, bytes_written, file, log_calls, signals, g_shutdown>>

Running(t) == \/ Lock(t) \/ Skip(t) \/ Unlock(t)
              \/ \E size \in LineSizes :
                   \/ Write(t, size)
                   \/ \E renamed \in BOOLEAN : WriteRotate(t, size, renamed) \/ WriteRotateFails(t, size, renamed)
              \/ t = Main /\ CloseFile

LogNext == \/ \E t \in Writers : Running(t) \/ Signal(t) \/ \E l \in Levels : log_message(t, l)
           \/ logger_cleanup

LogSpec == LogInit /\ [][LogNext]_logVars

(* A thread in a log call runs unless it waits for the mutex; there are     *)
(* finitely many calls, so a free mutex is got in the end.                  *)
FairSpec == LogSpec /\ \A t \in Writers : WF_logVars(Running(t))

-----------------------------------------------------------------------------
(* Every variable has its type. *)
LogTypeOK == /\ level \in Config /\ lock \in Writers \cup {Nobody}
             /\ {fp, log_file, g_shutdown} \subseteq BOOLEAN
             /\ {bytes_written, file_size, stuck} \subseteq Nat
             /\ log_calls \in 0..MaxLogCalls /\ signals \in 0..Signals
             /\ \A t \in Writers : ToSet(stack[t]) \subseteq Frames

(* The mutex is held by the thread that is past its lock and not past its   *)
(* unlock, through nested calls, failed rotations and cleanup.              *)
HeldByWriter == \A t \in Writers :
    (lock = t) <=> \E f \in ToSet(stack[t]) : f.at \in {"hold", "done"}

(* What the process has written to the file under the log's name passes the *)
(* limit by at most one line, and once more for each rename that failed: it *)
(* is then appended to with the counter at 0 (logger.c:140-148, 209-222).   *)
SizeBounded == \E size \in LineSizes : file_size <= (stuck + 1) * (MaxLogSize + size)

(* With the level above INFO, where neither a rotation nor the signal       *)
(* handler logs, every call of the logger returns: rotations, failed        *)
(* reopens, signals and cleanup included.                                   *)
QuietCallsReturn == \A t \in Writers :
    level > INFO /\ stack[t] # <<>> ~> stack[t] = <<>>

(* A thread that waits for the mutex it has: only a new process ends that.  *)
Hung == \E t \in Writers : lock = t /\ Innermost(t, "want")

(* That happens only where a rotation or a handler may log, at INFO or      *)
(* below: no other call, cleanup or failed reopen nests (logger.c:224).     *)
QuietNeverHangs == Hung => level <= INFO

(* A rotation is automatic and goes unnoticed by the threads that log       *)
(* (ARCHITECTURE.md, Log Rotation): every call of the logger returns.       *)
CallsReturn == \A t \in Writers : stack[t] # <<>> ~> stack[t] = <<>>

(* A signal is noticed, at every level and whatever its thread was doing,   *)
(* unless a thread hangs on its own mutex (main.c:51-60).                   *)
SignalNoticedUnlessHung == signals > 0 ~> g_shutdown \/ Hung
=============================================================================
