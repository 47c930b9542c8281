---------------------------- MODULE ProcessGroup ----------------------------
(***************************************************************************)
(* One command the engine supervises - a step or the executor - from its   *)
(* start to the verdict the engine draws from it.                          *)
(* internal/engine/executor.go: startGrouped, waitGrouped, killGroup,      *)
(* runStep, superviseExecutor, runExecutor.                                *)
(*                                                                         *)
(* The command leads a process group of its own and may fork, leave the    *)
(* group with setsid and hand its stdout on.  Of os/exec the model keeps   *)
(* what the engine relies on: the goroutine that calls Cancel when the     *)
(* context ends, the goroutine that copies stdout when it is a pipe, and   *)
(* Wait, which reaps the leader, then the copier for at most WaitDelay.    *)
(* A kill is not a death: SIGKILL dooms a process, the kernel buries it    *)
(* later, and a doomed process does nothing more.                          *)
(***************************************************************************)
EXTENDS Naturals, FiniteSets

CONSTANTS
  Proc,        \* the processes there can be
  Leader,      \* the command itself
  MaxChunks,   \* bound: how much is ever printed
  PipeCap      \* bound: how much the pipe holds

ASSUME LeaderAssumption == Leader \in Proc
ASSUME BoundsAssumption == MaxChunks \in Nat /\ PipeCap \in Nat \ {0}

VARIABLES
  born,       \* processes that ever were
  live,       \* processes that are, doomed ones included
  group,      \* processes in the leader's group
  doomed,     \* processes SIGKILL was delivered to
  holds,      \* processes with the write end of stdout
  exit,       \* how the leader ended, "none" while it has not
  piped,      \* stdout is a pipe the engine copies (executor), or a file (step)
  ctxDone,    \* the command's context is done: cancelled or timed out
  watch,      \* the goroutine that waits for the context
  delay,      \* the WaitDelay timer
  phase,      \* where the goroutine in waitGrouped is
  copier,     \* the goroutine that copies stdout
  readEnd,    \* the engine's end of the pipe is open
  pipe,       \* chunks in the pipe
  printed,    \* chunks printed so far
  kept,       \* chunks in executor.jsonl and handed to the event stream
  diskFailed, \* a write to executor.jsonl failed
  code        \* the exit code waitGrouped returned: "none", "zero", "other"

procVars == <<born, live, group, doomed, holds, exit>>
pipeVars == <<copier, readEnd, pipe, printed, kept, diskFailed>>
waitVars == <<watch, delay, phase, code>>
vars == <<procVars, piped, ctxDone, waitVars, pipeVars>>

\* startGrouped succeeded: the leader runs.
Init ==
  /\ born = {Leader} /\ live = {Leader} /\ group = {Leader}
  /\ doomed = {}
  /\ exit = "none"
  /\ piped \in BOOLEAN
  /\ holds = IF piped THEN {Leader} ELSE {}
  /\ ctxDone = FALSE
  /\ watch = "watching"
  /\ delay = "unset"
  /\ phase = "waiting"
  /\ copier = IF piped THEN "reading" ELSE "ended"
  /\ readEnd = piped
  /\ pipe = 0 /\ printed = 0 /\ kept = 0
  /\ diskFailed = FALSE
  /\ code = "none"

-----------------------------------------------------------------------------
(* The processes.                                                          *)

Able == live \ doomed

\* A child is in its parent's group and holds what its parent holds.
Fork(p, c) ==
  /\ p \in Able
  /\ c \in Proc \ born
  /\ born' = born \cup {c}
  /\ live' = live \cup {c}
  /\ group' = IF p \in group THEN group \cup {c} ELSE group
  /\ holds' = IF p \in holds THEN holds \cup {c} ELSE holds
  /\ UNCHANGED <<doomed, exit, piped, ctxDone, waitVars, pipeVars>>

\* setsid, which a group leader is refused.
Escape(p) ==
  /\ p \in Able \ {Leader}
  /\ p \in group
  /\ group' = group \ {p}
  /\ UNCHANGED <<born, live, doomed, holds, exit, piped, ctxDone, waitVars,
                 pipeVars>>

CloseStdout(p) ==
  /\ p \in Able \cap holds
  /\ holds' = holds \ {p}
  /\ UNCHANGED <<born, live, group, doomed, exit, piped, ctxDone, waitVars,
                 pipeVars>>

\* A full pipe blocks the writer; a closed one takes nothing.
PrintChunk(p) ==
  /\ p \in Able \cap holds
  /\ readEnd
  /\ pipe < PipeCap
  /\ printed < MaxChunks
  /\ pipe' = pipe + 1
  /\ printed' = printed + 1
  /\ UNCHANGED <<procVars, piped, ctxDone, waitVars, copier, readEnd, kept,
                 diskFailed>>

Bury(p) ==
  /\ live' = live \ {p}
  /\ group' = group \ {p}
  /\ holds' = holds \ {p}
  /\ UNCHANGED <<born, doomed, piped, ctxDone, waitVars, pipeVars>>

Exits(p) ==
  /\ p \in Able
  /\ Bury(p)
  /\ IF p = Leader THEN exit' \in {"zero", "nonzero"} ELSE UNCHANGED exit

Dies(p) ==
  /\ p \in live \cap doomed
  /\ Bury(p)
  /\ exit' = IF p = Leader THEN "killed" ELSE exit

-----------------------------------------------------------------------------
(* os/exec and the engine.                                                 *)

\* The run is cancelled, or the deadline passes.
ContextEnds ==
  /\ ~ctxDone
  /\ phase # "returned"
  /\ ctxDone' = TRUE
  /\ UNCHANGED <<procVars, piped, waitVars, pipeVars>>

\* Mutant: the leader alone is signalled.
KillLeader == doomed' = doomed \cup (live \cap {Leader})

\* Mutant: kill(-1), which signals every process there is or will be.
KillEverybody == doomed' = Proc

\* killGroup: SIGKILL to whoever is in the group at this instant.
KillGroup == doomed' = doomed \cup (live \cap group)

\* cmd.Cancel: the group is killed and the WaitDelay timer armed.
WatchKills ==
  /\ ctxDone
  /\ watch = "watching"
  /\ KillGroup
  /\ watch' = "killed"
  /\ delay' = "running"
  /\ UNCHANGED <<born, live, group, holds, exit, piped, ctxDone, phase, code,
                 pipeVars>>

\* Wait: the leader is reaped.
Reap ==
  /\ phase = "waiting"
  /\ Leader \notin live
  /\ phase' = "reaped"
  /\ UNCHANGED <<procVars, piped, ctxDone, watch, delay, code, pipeVars>>

\* Mutant: no WaitDelay, so nothing bounds the wait for the copier.
TakeOverWithoutTimer ==
  /\ phase = "reaped"
  /\ watch' = "gone"
  /\ phase' = "draining"
  /\ UNCHANGED <<delay, procVars, piped, ctxDone, code, pipeVars>>

\* Wait takes over from the watching goroutine, which never kills after this;
\* the timer is armed now unless the kill already did.
TakeOver ==
  /\ phase = "reaped"
  /\ watch' = "gone"
  /\ delay' = IF delay = "unset" THEN "running" ELSE delay
  /\ phase' = "draining"
  /\ UNCHANGED <<procVars, piped, ctxDone, code, pipeVars>>

\* WaitDelay is over: the engine's end of the pipe is closed, whoever still
\* holds the other.
DelayExpires ==
  /\ delay = "running"
  /\ phase \in {"waiting", "reaped", "draining"}
  /\ copier # "ended"
  /\ delay' = "expired"
  /\ readEnd' = FALSE
  /\ UNCHANGED <<procVars, piped, ctxDone, watch, phase, code, copier, pipe,
                 printed, kept, diskFailed>>

\* The copier reads a chunk, and writes it to the file and the event stream.
CopierReads ==
  /\ copier = "reading"
  /\ readEnd
  /\ pipe > 0
  /\ pipe' = pipe - 1
  /\ copier' = "writing"
  /\ UNCHANGED <<procVars, piped, ctxDone, waitVars, readEnd, printed, kept,
                 diskFailed>>

CopierWrites ==
  /\ copier = "writing"
  /\ kept' = kept + 1
  /\ copier' = "reading"
  /\ UNCHANGED <<procVars, piped, ctxDone, waitVars, readEnd, pipe, printed,
                 diskFailed>>

\* executor.jsonl refuses the chunk: MultiWriter stops before the event
\* stream, io.Copy ends, the pipe is closed.  waitGrouped drops the error.
CopierFails ==
  /\ copier = "writing"
  /\ diskFailed' = TRUE
  /\ copier' = "ended"
  /\ readEnd' = FALSE
  /\ UNCHANGED <<procVars, piped, ctxDone, waitVars, pipe, printed, kept>>

\* End of file: the pipe is empty and nobody can fill it; or it was closed.
CopierEnds ==
  /\ copier = "reading"
  /\ ~readEnd \/ (pipe = 0 /\ holds = {})
  /\ copier' = "ended"
  /\ readEnd' = FALSE
  /\ UNCHANGED <<procVars, piped, ctxDone, waitVars, pipe, printed, kept,
                 diskFailed>>

\* Mutant: the process is waited for, cmd is not: the copier is left behind.
WaitReturnsUndrained ==
  /\ phase = "draining"
  /\ phase' = "sweeping"
  /\ UNCHANGED <<procVars, piped, ctxDone, watch, delay, code, pipeVars>>

\* Wait returns once the copier has ended.
WaitReturns ==
  /\ phase = "draining"
  /\ copier = "ended"
  /\ phase' = "sweeping"
  /\ UNCHANGED <<procVars, piped, ctxDone, watch, delay, code, pipeVars>>

\* Mutant: the code is an error of Wait's, which a timeout is and a kill is not.
SweepBelievesContext ==
  /\ phase = "sweeping"
  /\ KillGroup
  /\ code' = IF exit = "nonzero" \/ ctxDone THEN "other" ELSE "zero"
  /\ phase' = "returned"
  /\ UNCHANGED <<born, live, group, holds, exit, piped, ctxDone, watch, delay,
                 pipeVars>>

\* The sweep: what the leader left in its group is killed, then the leader's
\* exit code is returned - 0, or anything else (-1 for a signal).
Sweep ==
  /\ phase = "sweeping"
  /\ KillGroup
  /\ code' = IF exit = "zero" THEN "zero" ELSE "other"
  /\ phase' = "returned"
  /\ UNCHANGED <<born, live, group, holds, exit, piped, ctxDone, watch, delay,
                 pipeVars>>

Processes ==
  \E p \in Proc :
    \/ \E c \in Proc : Fork(p, c)
    \/ Escape(p) \/ CloseStdout(p) \/ PrintChunk(p) \/ Exits(p)

Copier == CopierReads \/ CopierWrites \/ CopierFails \/ CopierEnds
Waiter == Reap \/ TakeOver \/ WaitReturns \/ Sweep

\* The engine is done with the command; what escaped may live on.
Over == phase = "returned" /\ UNCHANGED vars

Next ==
  \/ Processes
  \/ \E p \in Proc : Dies(p)
  \/ ContextEnds \/ WatchKills \/ DelayExpires
  \/ Copier \/ Waiter
  \/ Over

\* Deadlines and timers fire, the kernel buries what was killed, goroutines
\* that can run do.  No process is obliged to do anything, exit included.
Fairness ==
  /\ WF_vars(ContextEnds) /\ WF_vars(WatchKills) /\ WF_vars(DelayExpires)
  /\ WF_vars(Copier) /\ WF_vars(Waiter)
  /\ \A p \in Proc : WF_vars(Dies(p))

Safety == Init /\ [][Next]_vars
Spec == Safety /\ Fairness

-----------------------------------------------------------------------------
(* What the supervision owes.                                              *)

\* Every variable keeps its type.
TypeOK ==
  /\ live \subseteq born /\ group \subseteq live /\ holds \subseteq live
  /\ born \subseteq Proc /\ doomed \subseteq born
  /\ exit \in {"none", "zero", "nonzero", "killed"}
  /\ piped \in BOOLEAN /\ ctxDone \in BOOLEAN
  /\ watch \in {"watching", "killed", "gone"}
  /\ delay \in {"unset", "running", "expired"}
  /\ phase \in {"waiting", "reaped", "draining", "sweeping", "returned"}
  /\ copier \in {"reading", "writing", "ended"}
  /\ readEnd \in BOOLEAN /\ diskFailed \in BOOLEAN
  /\ pipe \in 0 .. PipeCap
  /\ printed \in 0 .. MaxChunks
  /\ kept \in 0 .. MaxChunks
  /\ code \in {"none", "zero", "other"}

\* No process group outlives its supervision (execute: "It does not return
\* while a process group is still alive"): when waitGrouped has returned,
\* whoever is still in the group has been killed, children the leader left
\* behind and children forked while it was being killed included.
GroupIsDead == phase = "returned" => live \cap group \subseteq doomed

\* Once Wait has returned nobody but the caller touches the event stream and
\* executor.jsonl: flush, the message and the file's close race with nothing.
StreamIsAtRest ==
  phase \in {"sweeping", "returned"} => copier = "ended" /\ ~readEnd

\* What was printed is what was kept, unless the disk refused it or a process
\* still held the pipe when WaitDelay ran out - never because the leader, the
\* deadline or the kill came first.
StreamIsWhole ==
  phase = "returned" /\ piped /\ ~diskFailed /\ delay # "expired" =>
    kept = printed /\ pipe = 0

\* The code is the leader's own: 0 is a leader that exited 0, even when its
\* context was done, and a killed leader never passes.
CodeIsTheLeaders ==
  phase = "returned" => (code = "zero" <=> exit = "zero")

\* waitGrouped returns, though a process that escaped the group holds the pipe
\* and never ends ("so no run hangs on teardown").
Returns == <>(phase = "returned")

-----------------------------------------------------------------------------
(* Why it holds: the inductive invariant.                                  *)

\* Once reaped the leader is gone for good, and how it ended is known.
LeaderInv ==
  /\ Leader \in born
  /\ Leader \notin live => exit # "none"
  /\ phase # "waiting" => Leader \notin live
  /\ phase = "returned" => code = IF exit = "zero" THEN "zero" ELSE "other"

InHand == IF copier = "writing" THEN 1 ELSE 0
Refused == IF diskFailed THEN 1 ELSE 0

\* Every chunk printed is in the pipe, in the copier's hand, kept, or the one
\* the disk refused; and only the timer or the disk closes a pipe with
\* something in it.
StreamInv ==
  /\ printed = pipe + InHand + kept + Refused
  /\ copier = "ended" => ~readEnd
  /\ phase \in {"sweeping", "returned"} => copier = "ended"
  /\ diskFailed => copier = "ended"
  /\ watch = "watching" => delay = "unset"
  /\ ~readEnd /\ ~diskFailed /\ delay # "expired" =>
       copier = "ended" /\ pipe = 0

IInv == TypeOK /\ LeaderInv /\ StreamInv /\ GroupIsDead

=============================================================================
