----------------------------- MODULE PrivateTmp -----------------------------
(***************************************************************************)
(* How an executor gets a /tmp of its own.  The engine probes once per run *)
(* whether the host allows it, and each executor then starts as a helper:  *)
(* the engine's own binary in a user and mount namespace, which mounts the *)
(* job's tmp over /tmp, gives up the capability the mount took, and        *)
(* becomes acpx in place.                                                  *)
(* internal/engine/privtmp_linux.go, privtmp_other.go; engine.go           *)
(* (checkPrivateTmp, choosePrivateTmp); executor.go (maybeConfine).        *)
(***************************************************************************)
EXTENDS FiniteSets

CONSTANT Thread   \* the operating system threads of the helper's Go runtime

VARIABLES
  private,  \* the scheduler's privateTmp: nil, true or false
  reason,   \* the record states why not
  image,    \* the program the executor's process runs, or last ran
  at,       \* the helper's next step
  ownTmp,   \* the process sees the job's tmp as /tmp
  on,       \* the thread the helper's goroutine runs on
  locked,   \* runtime.LockOSThread keeps it there
  ambient   \* the threads that hold CAP_SYS_ADMIN across an exec

helperVars == <<image, at, ownTmp, on, locked, ambient>>
vars == <<private, reason, helperVars>>

Init ==
  /\ private = "nil" /\ reason = FALSE
  /\ image = "none" /\ at = "mount"
  /\ ownTmp = FALSE
  /\ on \in Thread /\ locked = FALSE
  /\ ambient = {}

-----------------------------------------------------------------------------
(* The engine.                                                             *)

\* The probe's helper mounted /tmp over itself and exited 0.
ChoosePrivate ==
  /\ private = "nil"
  /\ private' = "true"
  /\ UNCHANGED <<reason, helperVars>>

\* The run dir is under /tmp, the system is not Linux, or the host refused.
ChooseShared ==
  /\ private = "nil"
  /\ private' = "false"
  /\ reason' = TRUE
  /\ UNCHANGED helperVars

\* cmd.Start: the helper when the run has a private /tmp, else acpx itself.
\* Every thread of the helper's runtime descends from one with the capability.
Start ==
  /\ private # "nil" /\ image = "none"
  /\ IF private = "true" THEN image' = "helper" /\ ambient' = Thread
                         ELSE image' = "acpx" /\ UNCHANGED ambient
  /\ UNCHANGED <<private, reason, at, ownTmp, on, locked>>

-----------------------------------------------------------------------------
(* The helper.                                                             *)

Helper(from, to) == image = "helper" /\ at = from /\ at' = to

\* The runtime moves a goroutine to another thread whenever it likes.
Migrate ==
  /\ image = "helper" /\ ~locked
  /\ on' \in Thread \ {on}
  /\ UNCHANGED <<private, reason, image, at, ownTmp, locked, ambient>>

\* The job's tmp, on the host, over this namespace's /tmp.
Mount ==
  /\ Helper("mount", "lock")
  /\ ownTmp' = TRUE
  /\ UNCHANGED <<private, reason, image, on, locked, ambient>>

\* Mutant: the goroutine is left to the runtime's choice of threads.
LockNothing ==
  /\ Helper("lock", "drop")
  /\ UNCHANGED <<private, reason, image, ownTmp, on, locked, ambient>>

Lock ==
  /\ Helper("lock", "drop")
  /\ locked' = TRUE
  /\ UNCHANGED <<private, reason, image, ownTmp, on, ambient>>

\* PR_CAP_AMBIENT_CLEAR_ALL is about the calling thread alone.
Drop ==
  /\ Helper("drop", "exec")
  /\ ambient' = ambient \ {on}
  /\ UNCHANGED <<private, reason, image, ownTmp, on, locked>>

\* The process becomes acpx with what the calling thread holds.
Exec ==
  /\ Helper("exec", "became")
  /\ image' = "acpx"
  /\ ambient' = ambient \cap {on}
  /\ UNCHANGED <<private, reason, ownTmp, on, locked>>

\* The mount, the drop or the exec is refused: the helper exits initFailed.
CanFail == image = "helper" /\ at \in {"mount", "drop", "exec"}

HelperStep == Migrate \/ Mount \/ Lock \/ Drop \/ Exec

Next == ChoosePrivate \/ ChooseShared \/ Start \/ HelperStep

Spec == Init /\ [][Next]_vars

-----------------------------------------------------------------------------
\* Every variable keeps its type.
TypeOK ==
  /\ private \in {"nil", "true", "false"} /\ reason \in BOOLEAN
  /\ image \in {"none", "helper", "acpx"}
  /\ at \in {"mount", "lock", "drop", "exec", "became"}
  /\ ownTmp \in BOOLEAN /\ locked \in BOOLEAN
  /\ on \in Thread /\ ambient \subseteq Thread

\* The record's private_tmp is what the executor lives with: with true it sees
\* its own /tmp, with false the host's, and says why; and acpx, the agent and
\* whatever it starts never hold the capability the mount took, whatever
\* threads the helper ran on.
PrivateTmpIsTrue ==
  /\ image = "acpx" => (ownTmp <=> private = "true") /\ ambient = {}
  /\ reason <=> private = "false"

=============================================================================
