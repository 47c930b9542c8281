------------------------------- MODULE JobRun -------------------------------
(***************************************************************************)
(* One job from its release to its settled record: evaluate's stages with  *)
(* the loops inside them, the executor call (ExecutorRun), the private     *)
(* /tmp the executor starts in (PrivateTmp) and what the job's record      *)
(* keeps of it.  The scheduler's walk over a list of evidence is what this *)
(* refines.                                                                *)
(* internal/engine/engine.go: runJob, evaluate, runSteps, runPrompt,       *)
(* checkOutputs; executor.go: runStep, superviseExecutor.                  *)
(***************************************************************************)
EXTENDS ExecutorRun

CONSTANTS
  Thread,         \* the threads of the private /tmp helper
  PreSteps,       \* how many pre-steps the job declares
  PostSteps,      \* how many post-steps
  Outputs,        \* the outputs it owes, in order
  MessageOutput   \* the name the engine writes the final message under

ASSUME WalkAssumption ==
  PreSteps \in Nat /\ PostSteps \in Nat /\ Outputs \in Seq(Range(Outputs))

VARIABLES
  private, reason, image, at, ownTmp, on, locked, ambient,   \* PrivateTmp's
  phase,      \* where the job's goroutine is in runJob
  stage,      \* where it is in evaluate
  nth,        \* the step or output the stage is at
  stepping,   \* a step's process group is alive
  disk,       \* the outputs that are present: there and not empty
  told,       \* what the executor's event stream said
  code,       \* the executor's exit code
  job,        \* the job's record
  cancelled   \* the run's context is done

PT == INSTANCE PrivateTmp

tmpVars == <<private, reason, image, at, ownTmp, on, locked, ambient>>
walkVars == <<phase, stage, nth, job>>
worldVars == <<stepping, disk, told, code>>
jobVars == <<walkVars, worldVars, cancelled>>
allVars == <<vars, tmpVars, jobVars>>

Owed == Range(Outputs)

JobInit ==
  /\ Init /\ message = "nothing"
  /\ PT!Init
  /\ phase = "waiting" /\ stage = "dirs" /\ nth = 1
  /\ stepping = FALSE /\ disk = {} /\ told = {} /\ code = "none"
  /\ job = [state |-> "pending", failure |-> <<>>, exit |-> "none",
            versions |-> FALSE]
  /\ cancelled = FALSE

-----------------------------------------------------------------------------
(* runJob.  The job has no needs of its own: waiting for them is Scheduler's *)
(* subject.                                                                *)

\* setup, before any job: choosePrivateTmp.
Choose ==
  /\ PT!ChoosePrivate \/ PT!ChooseShared
  /\ UNCHANGED <<vars, jobVars>>

GiveUp ==
  /\ phase = "waiting" /\ private # "nil"
  /\ cancelled
  /\ phase' = "closing"
  /\ UNCHANGED <<vars, tmpVars, stage, nth, job, worldVars, cancelled>>

Release ==
  /\ phase = "waiting" /\ private # "nil"
  /\ ~cancelled
  /\ phase' = "evaluating"
  /\ job' = [job EXCEPT !.state = "done"]
  /\ UNCHANGED <<vars, tmpVars, stage, nth, worldVars, cancelled>>

Settle ==
  /\ phase = "closing"
  /\ phase' = "closed"
  /\ UNCHANGED <<vars, tmpVars, stage, nth, job, worldVars, cancelled>>

-----------------------------------------------------------------------------
(* evaluate: stage after stage, until one returns a failure.               *)

In(st) == phase = "evaluating" /\ stage = st

\* The stage, or the next step or output of it.
GoTo(st, n) ==
  /\ stage' = st /\ nth' = n
  /\ UNCHANGED <<phase, job>>

ParkWith(record) ==
  /\ phase' = "closing"
  /\ job' = [record EXCEPT !.state = "parked", !.failure = <<stage, nth>>]
  /\ UNCHANGED <<stage, nth>>

EnsureJob ==
  /\ In("dirs")
  /\ GoTo("pre-steps", 1) \/ ParkWith(job)
  /\ UNCHANGED <<vars, tmpVars, worldVars, cancelled>>

\* runSteps, for either list: what it runs and where evaluate goes after it.
Steps == [st \in {"pre-steps", "post-steps"} |->
            IF st = "pre-steps" THEN PreSteps ELSE PostSteps]

MoreSteps == stage \in DOMAIN Steps /\ nth <= Steps[stage]

StartStep ==
  /\ phase = "evaluating" /\ MoreSteps /\ ~stepping
  /\ ~cancelled
  /\ stepping' = TRUE
  /\ UNCHANGED <<vars, tmpVars, walkVars, disk, told, code, cancelled>>

\* Its log cannot be opened, the context is done, or there is no such command.
StepNeverStarts ==
  /\ phase = "evaluating" /\ MoreSteps /\ ~stepping
  /\ ParkWith(job)
  /\ UNCHANGED <<vars, tmpVars, worldVars, cancelled>>

\* What is at the message's path is an output like any other; nothing is not.
Seen(present, m) == m = "nothing" => MessageOutput \notin present

\* A step writes or removes outputs, the message's path included.
StepRuns ==
  /\ stepping
  /\ disk' \in SUBSET Owed /\ message' \in Found /\ Seen(disk', message')
  /\ UNCHANGED <<pc, defers, credVars, watching, open, alive, ran, result>>
  /\ UNCHANGED <<tmpVars, walkVars, stepping, told, code, cancelled>>

StepEnds ==
  /\ stepping
  /\ stepping' = FALSE
  /\ GoTo(stage, nth + 1) \/ ParkWith(job)
  /\ UNCHANGED <<vars, tmpVars, disk, told, code, cancelled>>

StepsDone ==
  /\ \/ In("pre-steps") /\ nth = PreSteps + 1 /\ GoTo("prompt", 1)
     \/ /\ In("post-steps") /\ nth = PostSteps + 1
        /\ phase' = "closing" /\ UNCHANGED <<stage, nth, job>>
  /\ UNCHANGED <<vars, tmpVars, worldVars, cancelled>>

\* checkOutputs: present, one after the other.
CheckOutput ==
  /\ In("outputs") /\ nth <= Len(Outputs)
  /\ IF Outputs[nth] \in disk THEN GoTo(stage, nth + 1) ELSE ParkWith(job)
  /\ UNCHANGED <<vars, tmpVars, worldVars, cancelled>>

OutputsDone ==
  /\ In("outputs") /\ nth = Len(Outputs) + 1
  /\ GoTo("post-steps", 1)
  /\ UNCHANGED <<vars, tmpVars, worldVars, cancelled>>

-----------------------------------------------------------------------------
(* runPrompt, around the call.                                             *)

\* What the call does of its own.
CallStep ==
  /\ In("prompt")
  /\ SetUp \/ Fails \/ Unwind
  /\ UNCHANGED <<tmpVars, jobVars>>

\* Mutant: the command is built without the run's context.
StartWhateverTheContext ==
  /\ In("prompt")
  /\ StartExecutor /\ PT!Start
  /\ UNCHANGED jobVars

\* maybeConfine and cmd.Start, which refuses a done context.
Start ==
  /\ In("prompt")
  /\ StartExecutor /\ PT!Start
  /\ ~cancelled
  /\ UNCHANGED jobVars

HelperRuns ==
  /\ alive
  /\ PT!HelperStep
  /\ UNCHANGED <<vars, jobVars>>

\* acpx and its agent: the HOME, the outputs, and what the stream tells.
AcpxRuns ==
  /\ image = "acpx"
  /\ Executes
  /\ disk' \in SUBSET Owed /\ Seen(disk', message')
  /\ told' \in {told, {"versions"}}
  /\ UNCHANGED <<tmpVars, walkVars, stepping, code, cancelled>>

\* The process ends: acpx with a code of its own, the helper with initFailed,
\* either by the kill of a timeout or of a cancelled run.
ExecutorExits ==
  /\ ExecutorEnds
  /\ \/ code' = "killed"
     \/ image = "acpx" /\ code' \in {"0", "other"}
     \/ PT!CanFail /\ code' = "125"
  /\ UNCHANGED <<tmpVars, walkVars, stepping, disk, told, cancelled>>

\* The message, empty or not, is what is now at its path.
MessageKept ==
  /\ KeepMessage
  /\ disk' \in {disk \ {MessageOutput}, disk \cup ({MessageOutput} \cap Owed)}
  /\ UNCHANGED <<tmpVars, walkVars, stepping, told, code, cancelled>>

\* runExecutor returned.  An error leaves no exit code and no versions.
TakeResult ==
  /\ In("prompt") /\ pc = "returned"
  /\ LET kept == [job EXCEPT !.exit = code, !.versions = "versions" \in told]
     IN IF result = "error" THEN ParkWith(job)
        ELSE IF code # "0" THEN ParkWith(kept)
        ELSE /\ stage' = "outputs" /\ nth' = 1 /\ job' = kept
             /\ UNCHANGED phase
  /\ UNCHANGED <<vars, tmpVars, worldVars, cancelled>>

Cancel ==
  /\ ~cancelled /\ phase # "closed"
  /\ cancelled' = TRUE
  /\ UNCHANGED <<vars, tmpVars, walkVars, worldVars>>

Settled == phase = "closed" /\ UNCHANGED allVars

JobNext ==
  \/ Choose \/ GiveUp \/ Release \/ EnsureJob
  \/ StartStep \/ StepNeverStarts \/ StepRuns \/ StepEnds \/ StepsDone
  \/ CallStep \/ Start \/ HelperRuns \/ AcpxRuns \/ ExecutorExits
  \/ MessageKept \/ TakeResult
  \/ CheckOutput \/ OutputsDone
  \/ Settle \/ Cancel \/ Settled

JobSpec == JobInit /\ [][JobNext]_allVars

-----------------------------------------------------------------------------
(* What a job's record is worth.                                           *)

Stages == {"dirs", "pre-steps", "prompt", "outputs", "post-steps"}
Codes == {"none", "0", "125", "killed", "other"}

\* Every variable keeps its type.
JobTypeOK ==
  /\ TypeOK /\ PT!TypeOK
  /\ phase \in {"waiting", "evaluating", "closing", "closed"}
  /\ stage \in Stages /\ nth \in Nat \ {0}
  /\ stepping \in BOOLEAN /\ cancelled \in BOOLEAN
  /\ disk \subseteq Owed /\ Seen(disk, message)
  /\ told \subseteq {"versions"}
  /\ code \in Codes
  /\ job \in [state : {"pending", "done", "parked"},
              failure : {<<>>} \cup (Stages \X (Nat \ {0})),
              exit : Codes, versions : BOOLEAN]

\* What the record holds of an executor happened: an exit code is of a call
\* that returned it, 0 and the versions are acpx's own, never of the helper
\* that was to become it. A job recorded done had its acpx exit 0, and the
\* outputs are checked with the engine's message in place, whatever a pre-step
\* or the agent had put there.
EvidenceIsReal ==
  /\ job.exit # "none" => pc = "returned" /\ result = "code" /\ code = job.exit
  /\ job.exit = "0" \/ job.versions => image = "acpx"
  /\ phase = "closed" /\ job.state = "done" => job.exit = "0"
  /\ In("outputs") => message = "the-final-message"

\* The record's private_tmp is what the executor lives with, and acpx never
\* holds the capability the mount took (PrivateTmp).
PrivateTmpIsTrue == PT!PrivateTmpIsTrue

\* The index in Scheduler's evidence list of a place in evaluate.
Index(st, n) ==
  CASE st = "dirs" -> 1
    [] st = "pre-steps" -> 1 + n
    [] st = "prompt" -> 2 + PreSteps
    [] st = "outputs" -> 2 + PreSteps + n
    [] st = "post-steps" -> 2 + PreSteps + Len(Outputs) + n

Only(value) == [j \in {"job"} |-> value]

S == INSTANCE Scheduler WITH
  Job <- {"job"}, Agent <- {"job"}, Needs <- Only(<<>>),
  PreSteps <- Only(PreSteps), PostSteps <- Only(PostSteps),
  Output <- Owed, Outputs <- Only(Outputs),
  pc <- Only(phase), need <- Only(1), state <- Only(job.state),
  started <- IF job.state = "pending" THEN {} ELSE {"job"},
  failure <- Only(IF job.failure = <<>> THEN 0
                  ELSE Index(job.failure[1], job.failure[2])),
  at <- Only(Index(stage, nth)),
  passed <- Only(1 .. Index(stage, nth) - 1),
  alive <- IF stepping \/ (In("prompt") /\ ran) THEN {"job"} ELSE {},
  disk <- Only(disk),
  settled <- IF phase = "closed" THEN {"job"} ELSE {},
  main <- "executing", outcome <- "none", recorded <- "none",
  result <- [outcome |-> "none", err |-> FALSE]

\* The job's stages, with an executor call that can fail at every step, are
\* the scheduler's walk over one list of evidence: they start nothing once the
\* run is cancelled, and settle with what the walk found.
ImplementsScheduler == S!Safety

=============================================================================
