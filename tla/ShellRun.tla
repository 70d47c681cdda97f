------------------------------ MODULE ShellRun ------------------------------
(***************************************************************************)
(* One shell.run call (packages/tools/src/shell.ts): the process, the two  *)
(* pipes it and its descendants write to, the timer that kills it, the     *)
(* deadline after which the pipes are no longer read, and the second that  *)
(* its exit is waited for.  Time is counted in units of the grace period   *)
(* KILL_DRAIN_GRACE_MS; JavaScript timers fire in the order they are due,  *)
(* so time does not pass while one is due.                                 *)
(***************************************************************************)
EXTENDS Naturals

CONSTANT Timeout   \* args.timeout, in grace periods

ASSUME ShellAssumption == Timeout \in Nat \ {0}

Grace == 1

VARIABLES now,       \* the time since the process was spawned
          proc,      \* "running", or the exit code 0, 1
          writers,   \* who holds the pipes open: the process, a descendant
          eof,       \* both pipes have been read to their end
          timedOut,  \* the timer has fired and sent its signal
          shell,     \* where the call is: "checking", "reading", "exiting", "returned"
          exitFrom,  \* when the call began to wait for the exit
          result     \* [ok, code, timedOut], or the error of a call that spawned nothing

shellVars == <<now, proc, writers, eof, timedOut, shell, exitFrom, result>>

Pending == [ok |-> FALSE, code |-> "none", timedOut |-> FALSE]

ShellInit ==
  /\ now = 0 /\ proc = "none" /\ writers = {} /\ eof = FALSE /\ timedOut = FALSE
  /\ shell = "checking" /\ exitFrom = 0 /\ result = Pending

\* A cwd outside the session's, or a spawn that throws, ends the call at once.
ShellRefused ==
  /\ shell = "checking" /\ shell' = "returned"
  /\ result' = [Pending EXCEPT !.code = "error"]
  /\ UNCHANGED <<now, proc, writers, eof, timedOut, exitFrom>>

Spawn ==
  /\ shell = "checking" /\ shell' = "reading" /\ proc' = "running"
  /\ \E w \in {{"proc"}, {"proc", "descendant"}} : writers' = w
  /\ UNCHANGED <<now, eof, timedOut, exitFrom, result>>

\* The process exits by itself, or of the signal; an exit handler may end with 0.
ProcExits ==
  /\ proc = "running" /\ proc' \in {"0", "1"} /\ writers' = writers \ {"proc"}
  /\ UNCHANGED <<now, eof, timedOut, shell, exitFrom, result>>

\* A descendant ends, or the process closes its output and goes on.
ClosePipe ==
  /\ \E w \in writers : writers' = writers \ {w}
  /\ UNCHANGED <<now, proc, eof, timedOut, shell, exitFrom, result>>

-----------------------------------------------------------------------------
TimerDue == shell \in {"reading", "exiting"} /\ ~timedOut /\ now >= Timeout

\* setTimeout(..., timeout): the signal is sent, whether or not the process lives.
TimerFires ==
  /\ TimerDue /\ timedOut' = TRUE
  /\ UNCHANGED <<now, proc, writers, eof, shell, exitFrom, result>>

\* Date.now() + timeout + KILL_DRAIN_GRACE_MS
ReadDeadline == Timeout + Grace

\* A mutant: reader.read() is awaited without the deadline.
ReadEnds_AtEof == shell = "reading" /\ ~TimerDue /\ writers = {}

\* readUntilDeadline() of both pipes: the end of the streams, or the deadline.
ReadEnds == shell = "reading" /\ ~TimerDue /\ (writers = {} \/ now >= ReadDeadline)

StopReading ==
  /\ ReadEnds /\ eof' = (writers = {})
  /\ shell' = "exiting" /\ exitFrom' = now
  /\ UNCHANGED <<now, proc, writers, timedOut, result>>

\* proc.exited against one more grace period.
ExitKnown == shell = "exiting" /\ ~TimerDue /\ (proc # "running" \/ now >= exitFrom + Grace)

ResultOf ==
  LET code == IF timedOut \/ proc = "running" THEN "-1" ELSE proc
  IN  [ok |-> ~timedOut /\ code = "0", code |-> code, timedOut |-> timedOut]

\* The timer is cleared and the call returns.
ShellReturns ==
  /\ ExitKnown /\ shell' = "returned" /\ result' = ResultOf
  /\ UNCHANGED <<now, proc, writers, eof, timedOut, exitFrom>>

\* Time passes unless a timer is due or a stream has ended.
TickShell ==
  /\ shell \in {"reading", "exiting"} /\ ~TimerDue
  /\ now <= Timeout + 3 * Grace /\ now' = now + 1
  /\ ~ReadEnds /\ ~ExitKnown
  /\ UNCHANGED <<proc, writers, eof, timedOut, shell, exitFrom, result>>

ShellNext ==
  \/ ShellRefused \/ Spawn \/ ProcExits \/ ClosePipe \/ TimerFires
  \/ StopReading \/ ShellReturns \/ TickShell

ShellSpec == ShellInit /\ [][ShellNext]_shellVars

-----------------------------------------------------------------------------
ShellTypeOK ==
  /\ now \in 0 .. Timeout + 4 * Grace /\ exitFrom \in 0 .. Timeout + 4 * Grace
  /\ proc \in {"none", "running", "0", "1"} /\ writers \subseteq {"proc", "descendant"}
  /\ eof \in BOOLEAN /\ timedOut \in BOOLEAN
  /\ shell \in {"checking", "reading", "exiting", "returned"}
  /\ result \in [ok : BOOLEAN, code : {"none", "error", "-1", "0", "1"}, timedOut : BOOLEAN]

\* Whoever keeps the pipes open and whatever ignores the signal, the call is back
\* two grace periods after its timeout.
ShellReturnsInTime == shell # "returned" => now <= Timeout + 2 * Grace

\* A result that is ok means that the process itself ended with 0, was not killed,
\* and that everything written to the pipes is in the result: a descendant that
\* keeps them open makes it a timeout, never a short success.
OkIsWholeOutput ==
  shell = "returned" /\ result.ok => proc = "0" /\ eof /\ ~timedOut

\* A process the call leaves behind was sent the signal, unless it had closed its
\* own output and so looked finished.
LeftBehindWasSignalled ==
  shell = "returned" /\ proc = "running" => timedOut \/ eof

\* A call is back in time and tells the truth about its process, however exit,
\* timer, deadline and descendants race.
ShellSound == ShellReturnsInTime /\ OkIsWholeOutput /\ LeftBehindWasSignalled
=============================================================================
