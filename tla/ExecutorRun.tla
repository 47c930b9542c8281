----------------------------- MODULE ExecutorRun -----------------------------
(***************************************************************************)
(* One call of runExecutor: everything it sets up, in order, each step of  *)
(* which can fail; the executor; its final message; and the deferred calls *)
(* that unwind what was set up.                                            *)
(* internal/engine/executor.go: runExecutor, prepareHome, link,            *)
(* superviseExecutor, keepMessage, replaceFile, dropCredentials.           *)
(*                                                                         *)
(* How the process group dies is ProcessGroup's subject, how a refreshed   *)
(* login gets home ClaudeLogin's, what the message says EventStream's.     *)
(***************************************************************************)
EXTENDS Naturals, Sequences, SequencesExt

CONSTANT Cred   \* the credential paths of the job's harness

VARIABLES
  pc,       \* where runExecutor is
  defers,   \* its deferred calls, by what they undo
  toLink,   \* credentials prepareHome has not linked yet
  inHome,   \* credential paths something is at, in the job's HOME
  toDrop,   \* credentials dropCredentials has not looked at yet
  leftOver, \* credentials it could not remove, and logged
  watching, \* the login watch is on
  open,     \* the logs that are open
  alive,    \* the executor's process group is
  ran,      \* the executor was started
  message,  \* what is at artifacts/<job>/message.md
  result    \* what runExecutor returned: an exit code or an error

credVars == <<toLink, inHome, toDrop, leftOver>>
execVars == <<alive, ran, message>>
vars == <<pc, defers, credVars, watching, open, execVars, result>>

Found == {"nothing", "a-file", "a-directory"}

\* The deferred calls in the order the code defers them.
Undo == <<"credentials", "watch", "feed", "log">>

\* A pre-step may have put something where the message goes.
Init ==
  /\ pc = "look-up"
  /\ defers = <<>>
  /\ toLink = Cred /\ inHome = {}
  /\ toDrop = Cred /\ leftOver = {}
  /\ watching = FALSE
  /\ open = {}
  /\ alive = FALSE /\ ran = FALSE
  /\ message \in Found
  /\ result = "none"

-----------------------------------------------------------------------------
(* Setting up.                                                             *)

\* A step of the setup succeeds: the next one follows.
Step(from, to) == pc = from /\ pc' = to

\* A step fails: runExecutor returns the error, through what it deferred.
Fails ==
  /\ pc \in {"look-up", "prepare-home", "caches", "feed", "log", "start",
             "keep-message"}
  /\ pc' = "unwinding"
  /\ result' = "error"
  /\ UNCHANGED <<defers, credVars, watching, open, execVars>>

\* Mutant: the credentials are taken back only once all of them are there.
LookUpUndeferred ==
  /\ Step("look-up", "prepare-home")
  /\ UNCHANGED <<defers, credVars, watching, open, execVars, result>>

\* acpx is on PATH; whatever follows, credentials are dropped at the end.
LookUp ==
  /\ Step("look-up", "prepare-home")
  /\ defers' = Append(defers, "credentials")
  /\ UNCHANGED <<credVars, watching, open, execVars, result>>

\* prepareHome links the credentials; one the host does not have is skipped.
Link(c) ==
  /\ pc = "prepare-home"
  /\ c \in toLink
  /\ toLink' = toLink \ {c}
  /\ inHome' \in {inHome, inHome \cup {c}}
  /\ UNCHANGED <<pc, defers, toDrop, leftOver, watching, open, execVars, result>>

\* Mutant: the stop is deferred ahead of the credentials' removal.
StartWatchDeferredFirst ==
  /\ Step("prepare-home", "caches")
  /\ toLink = {}
  /\ watching' = TRUE
  /\ defers' = <<"watch">> \o defers
  /\ UNCHANGED <<credVars, open, execVars, result>>

\* HOME is prepared: the login watch starts, its stop is deferred.
StartWatch ==
  /\ Step("prepare-home", "caches")
  /\ toLink = {}
  /\ watching' = TRUE
  /\ defers' = Append(defers, "watch")
  /\ UNCHANGED <<credVars, open, execVars, result>>

\* The shared caches and the MCP config.
MakeCaches ==
  /\ Step("caches", "feed")
  /\ UNCHANGED <<defers, credVars, watching, open, execVars, result>>

\* executor.jsonl, then executor.log; confining the command comes last.
OpenLog ==
  /\ \/ Step("feed", "log") /\ defers' = Append(defers, "feed")
     \/ Step("log", "start") /\ defers' = Append(defers, "log")
  /\ open' = open \cup {pc}
  /\ UNCHANGED <<credVars, watching, execVars, result>>

-----------------------------------------------------------------------------
(* superviseExecutor.                                                      *)

StartExecutor ==
  /\ Step("start", "waiting")
  /\ alive' = TRUE /\ ran' = TRUE
  /\ UNCHANGED <<defers, credVars, watching, open, message, result>>

\* The executor replaces, removes or adds what is in its HOME and its outputs.
Executes ==
  /\ alive
  /\ inHome' \in SUBSET Cred
  /\ message' \in Found
  /\ UNCHANGED <<pc, defers, toLink, toDrop, leftOver, watching, open, alive,
                 ran, result>>

\* waitGrouped returns, whatever the exit code.
ExecutorEnds ==
  /\ Step("waiting", "keep-message")
  /\ alive' = FALSE
  /\ UNCHANGED <<defers, credVars, watching, open, ran, message, result>>

\* Mutant: what the agent left there itself is taken for its message.
KeepMessageUnlessThere ==
  /\ Step("keep-message", "unwinding")
  /\ message' = IF message = "nothing" THEN "the-final-message" ELSE message
  /\ result' = "code"
  /\ UNCHANGED <<defers, credVars, watching, open, alive, ran>>

\* keepMessage: replaceFile renames a temporary file over what is there; over
\* a directory it cannot.
KeepMessage ==
  /\ Step("keep-message", "unwinding")
  /\ message # "a-directory"
  /\ message' = "the-final-message"
  /\ result' = "code"
  /\ UNCHANGED <<defers, credVars, watching, open, alive, ran>>

-----------------------------------------------------------------------------
(* Unwinding.                                                              *)

\* The deferred calls, the last one first.
Deferred(what) == pc = "unwinding" /\ defers # <<>> /\ what = Last(defers)
Done == defers' = Front(defers)

CloseLog(l) ==
  /\ Deferred(l) /\ Done
  /\ open' = open \ {l}
  /\ UNCHANGED <<pc, credVars, watching, execVars, result>>

\* The watch is waited for, and the login handed back once more.
StopWatch ==
  /\ Deferred("watch") /\ Done
  /\ watching' = FALSE
  /\ UNCHANGED <<pc, credVars, open, execVars, result>>

\* dropCredentials: what is at the path is removed, or the error logged.
Drop(c) ==
  /\ Deferred("credentials")
  /\ c \in toDrop
  /\ toDrop' = toDrop \ {c}
  /\ \/ inHome' = inHome \ {c} /\ UNCHANGED leftOver
     \/ leftOver' = leftOver \cup {c} /\ UNCHANGED inHome
  /\ UNCHANGED <<pc, defers, toLink, watching, open, execVars, result>>

Dropped ==
  /\ Deferred("credentials") /\ Done
  /\ toDrop = {}
  /\ UNCHANGED <<pc, credVars, watching, open, execVars, result>>

Return ==
  /\ Step("unwinding", "returned")
  /\ defers = <<>>
  /\ UNCHANGED <<defers, credVars, watching, open, execVars, result>>

Over == pc = "returned" /\ UNCHANGED vars

SetUp ==
  \/ LookUp \/ StartWatch \/ MakeCaches \/ OpenLog
  \/ \E c \in Cred : Link(c)

Unwind ==
  \/ \E l \in {"feed", "log"} : CloseLog(l)
  \/ StopWatch \/ Dropped \/ Return
  \/ \E c \in Cred : Drop(c)

Next ==
  \/ SetUp \/ StartExecutor \/ Executes \/ ExecutorEnds \/ KeepMessage
  \/ Fails \/ Unwind \/ Over

Spec == Init /\ [][Next]_vars

-----------------------------------------------------------------------------
(* What the call owes.                                                     *)

\* Every variable keeps its type.
TypeOK ==
  /\ pc \in {"look-up", "prepare-home", "caches", "feed", "log", "start",
             "waiting", "keep-message", "unwinding", "returned"}
  /\ IsPrefix(defers, Undo)
  /\ toLink \subseteq Cred /\ inHome \subseteq Cred
  /\ toDrop \subseteq Cred /\ leftOver \subseteq Cred
  /\ watching \in BOOLEAN /\ alive \in BOOLEAN /\ ran \in BOOLEAN
  /\ open \subseteq {"feed", "log"}
  /\ message \in Found \cup {"the-final-message"}
  /\ result \in {"none", "code", "error"}

\* Whichever step failed, a call that returned has left nothing behind: no
\* process of the executor's group (one that called setsid is outside it, see
\* ProcessGroup), no watch, no open log, and no credential in the run dir,
\* however many were linked and whatever the executor put in their place - but
\* for one that could not be removed, which is logged. The removal comes after the
\* executor and the watch, either of which would put one back.
NothingOutlivesTheCall ==
  /\ pc = "returned" =>
       ~alive /\ ~watching /\ open = {} /\ inHome \subseteq leftOver
  /\ toDrop # Cred => ~alive /\ ~watching

=============================================================================
