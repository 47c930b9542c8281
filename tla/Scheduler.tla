------------------------------ MODULE Scheduler ------------------------------
(***************************************************************************)
(* The engine's scheduler: one goroutine per job that waits for the job's  *)
(* needs, walks the job's evidence once and closes its settled channel,    *)
(* and the goroutine that joins them, writes record.json and returns.      *)
(* internal/engine/engine.go (carryOut, execute, runJob, needsDone,        *)
(* evaluate, record) and cmd/gunkata/main.go (report).                     *)
(*                                                                         *)
(* A step or an executor is a process group that ends with a verdict; how  *)
(* it is killed and reaped is ProcessGroup's subject.  A process may       *)
(* change the job's own outputs while it lives.                            *)
(***************************************************************************)
EXTENDS Naturals, Sequences, FiniteSets

CONSTANTS
  Job,        \* the workflow's jobs
  Needs,      \* Needs[j]: what j needs, in the order the kata lists it
  PreSteps,   \* PreSteps[j]: how many pre-steps j declares
  PostSteps,  \* PostSteps[j]: how many post-steps j declares
  Agent,      \* the jobs with an executor
  Output,     \* output names
  Outputs     \* Outputs[j]: the outputs j owes, in the order the kata lists them

ASSUME JobAssumption == IsFiniteSet(Job)
ASSUME NeedsAssumption == Needs \in [Job -> Seq(Job)]
ASSUME StepsAssumption ==
  /\ PreSteps \in [Job -> Nat]
  /\ PostSteps \in [Job -> Nat]
ASSUME AgentAssumption == Agent \subseteq Job
ASSUME OutputsAssumption == Outputs \in [Job -> Seq(Output)]

-----------------------------------------------------------------------------
(* The evidence a job is held to, in the order evaluate walks it.          *)

Item ==
  [kind : {"dirs", "pre-step", "executor", "post-step"}]
    \cup [kind : {"output"}, out : Output]

Evidence(j) ==
  <<[kind |-> "dirs"]>>
    \o [i \in 1 .. PreSteps[j] |-> [kind |-> "pre-step"]]
    \o (IF j \in Agent THEN <<[kind |-> "executor"]>> ELSE <<>>)
    \o [i \in 1 .. Len(Outputs[j]) |->
          [kind |-> "output", out |-> Outputs[j][i]]]
    \o [i \in 1 .. PostSteps[j] |-> [kind |-> "post-step"]]

\* The items that are a process: only these stop at a cancelled context.
IsProcess(e) == e.kind \in {"pre-step", "executor", "post-step"}

Declared(j) == {Outputs[j][i] : i \in 1 .. Len(Outputs[j])}

NeedsOf == [j \in Job |-> {Needs[j][i] : i \in 1 .. Len(Needs[j])}]

\* Load rejects a kata whose jobs need each other in a circle: CycleDetect's
\* Acyclic, which its theorem says detectCycle decides.
ASSUME AcyclicAssumption ==
  \A S \in (SUBSET Job) \ {{}} : \E s \in S : NeedsOf[s] \cap S = {}

-----------------------------------------------------------------------------
VARIABLES
  pc,         \* pc[j]: where job j's goroutine is
  need,       \* need[j]: the index in Needs[j] it waits for
  state,      \* state[j]: the job record's State
  started,    \* jobs whose record has a StartedAt
  failure,    \* failure[j]: index in Evidence(j) of the Failure, 0 for unset
  at,         \* at[j]: index in Evidence(j) of the item under evaluation
  alive,      \* jobs with a live process group
  disk,       \* disk[j]: the outputs of j present on disk
  settled,    \* jobs whose settled channel is closed
  cancelled,  \* the run's context is done
  main,       \* where the goroutine in carryOut is
  outcome,    \* the Outcome record() computed
  recorded,   \* the outcome in record.json, "none" while there is no file
  result,     \* what Run returned: an outcome and whether an error came with it
  passed      \* history: passed[j], the indices in Evidence(j) that passed

jobVars == <<pc, need, state, started, failure, at, alive, disk, settled, passed>>
runVars == <<main, outcome, recorded, result>>
vars == <<jobVars, cancelled, runVars>>

Outcome == {"succeeded", "parked"}

Init ==
  /\ pc = [j \in Job |-> "waiting"]
  /\ need = [j \in Job |-> 1]
  /\ state = [j \in Job |-> "pending"]
  /\ started = {}
  /\ failure = [j \in Job |-> 0]
  /\ at = [j \in Job |-> 1]
  /\ alive = {}
  /\ disk = [j \in Job |-> {}]
  /\ settled = {}
  /\ cancelled = FALSE
  /\ main = "executing"
  /\ outcome = "none"
  /\ recorded = "none"
  /\ result = [outcome |-> "none", err |-> FALSE]
  /\ passed = [j \in Job |-> {}]

-----------------------------------------------------------------------------
(* needsDone: the wait, one need after the other.                          *)

Awaited(j) == Needs[j][need[j]]

StillNeeds(j) == pc[j] = "waiting" /\ need[j] <= Len(Needs[j])

\* Mutant: the record is read without waiting for the settled channel.
NeedMetUnsettled(j) ==
  /\ StillNeeds(j)
  /\ state[Awaited(j)] = "done"
  /\ need' = [need EXCEPT ![j] = @ + 1]
  /\ UNCHANGED <<pc, state, started, failure, at, alive, disk, settled,
                 passed, cancelled, runVars>>

\* Mutant: a need that settled is taken for a need that is done.
NeedMetHoweverItEnded(j) ==
  /\ StillNeeds(j)
  /\ Awaited(j) \in settled
  /\ need' = [need EXCEPT ![j] = @ + 1]
  /\ UNCHANGED <<pc, state, started, failure, at, alive, disk, settled,
                 passed, cancelled, runVars>>

\* Mutant: the loop advances in its body and in its head.
NeedMetSkipping(j) ==
  /\ StillNeeds(j)
  /\ Awaited(j) \in settled
  /\ state[Awaited(j)] = "done"
  /\ need' = [need EXCEPT ![j] = @ + 2]
  /\ UNCHANGED <<pc, state, started, failure, at, alive, disk, settled,
                 passed, cancelled, runVars>>

\* The need settled and is done: on to the next.
NeedMet(j) ==
  /\ StillNeeds(j)
  /\ Awaited(j) \in settled
  /\ state[Awaited(j)] = "done"
  /\ need' = [need EXCEPT ![j] = @ + 1]
  /\ UNCHANGED <<pc, state, started, failure, at, alive, disk, settled,
                 passed, cancelled, runVars>>

\* Mutant: the wait starts over in the hope of a retry.
NeedFailedStartsOver(j) ==
  /\ StillNeeds(j)
  /\ Awaited(j) \in settled
  /\ state[Awaited(j)] # "done"
  /\ need' = [need EXCEPT ![j] = 1]
  /\ UNCHANGED <<pc, state, started, failure, at, alive, disk, settled,
                 passed, cancelled, runVars>>

\* The need settled and is not done: the job stays pending.
NeedFailed(j) ==
  /\ StillNeeds(j)
  /\ Awaited(j) \in settled
  /\ state[Awaited(j)] # "done"
  /\ pc' = [pc EXCEPT ![j] = "closing"]
  /\ UNCHANGED <<need, state, started, failure, at, alive, disk, settled,
                 passed, cancelled, runVars>>

\* Mutant: a default case where the context case belongs.
GiveUpAtOnce(j) ==
  /\ pc[j] = "waiting"
  /\ cancelled \/ StillNeeds(j)
  /\ pc' = [pc EXCEPT ![j] = "closing"]
  /\ UNCHANGED <<need, state, started, failure, at, alive, disk, settled,
                 passed, cancelled, runVars>>

\* The select's other case; with both ready either may win.  A job whose
\* needs are all done looks at the context once more.
GiveUp(j) ==
  /\ pc[j] = "waiting"
  /\ cancelled
  /\ pc' = [pc EXCEPT ![j] = "closing"]
  /\ UNCHANGED <<need, state, started, failure, at, alive, disk, settled,
                 passed, cancelled, runVars>>

\* Mutant: the settled channel is closed as the job starts.
ReleaseSettles(j) ==
  /\ pc[j] = "waiting"
  /\ need[j] = Len(Needs[j]) + 1
  /\ ~cancelled
  /\ started' = started \cup {j}
  /\ state' = [state EXCEPT ![j] = "done"]
  /\ settled' = settled \cup {j}
  /\ pc' = [pc EXCEPT ![j] = "evaluating"]
  /\ UNCHANGED <<need, failure, at, alive, disk, passed, cancelled, runVars>>

\* Mutant: fail fast, no job starts once one has parked.
ReleaseUnlessParked(j) ==
  /\ pc[j] = "waiting"
  /\ need[j] = Len(Needs[j]) + 1
  /\ ~cancelled
  /\ \A k \in Job : state[k] # "parked"
  /\ started' = started \cup {j}
  /\ state' = [state EXCEPT ![j] = "done"]
  /\ pc' = [pc EXCEPT ![j] = "evaluating"]
  /\ UNCHANGED <<need, failure, at, alive, disk, settled, passed, cancelled,
                 runVars>>

\* Every need is done: the job starts, and its record says done until
\* evaluate says otherwise.
Release(j) ==
  /\ pc[j] = "waiting"
  /\ need[j] = Len(Needs[j]) + 1
  /\ ~cancelled
  /\ started' = started \cup {j}
  /\ state' = [state EXCEPT ![j] = "done"]
  /\ pc' = [pc EXCEPT ![j] = "evaluating"]
  /\ UNCHANGED <<need, failure, at, alive, disk, settled, passed, cancelled,
                 runVars>>

-----------------------------------------------------------------------------
(* evaluate: the walk over the job's evidence.                             *)

Under(j) == Evidence(j)[at[j]]

Evaluating(j) ==
  /\ pc[j] = "evaluating"
  /\ j \notin alive
  /\ at[j] <= Len(Evidence(j))

\* The item under evaluation passed.
Pass(j) ==
  /\ at' = [at EXCEPT ![j] = @ + 1]
  /\ passed' = [passed EXCEPT ![j] = @ \cup {at[j]}]
  /\ UNCHANGED <<pc, state, failure>>

\* Mutant: the failure is noted and the state is not.
ParkForgetsState(j) ==
  /\ failure' = [failure EXCEPT ![j] = at[j]]
  /\ pc' = [pc EXCEPT ![j] = "closing"]
  /\ UNCHANGED <<state, at, passed>>

\* It did not: evaluate returns, runJob parks the job.
Park(j) ==
  /\ state' = [state EXCEPT ![j] = "parked"]
  /\ failure' = [failure EXCEPT ![j] = at[j]]
  /\ pc' = [pc EXCEPT ![j] = "closing"]
  /\ UNCHANGED <<at, passed>>

\* ensureJob creates the job's directories, or fails to.
EnsureJob(j) ==
  /\ Evaluating(j)
  /\ Under(j).kind = "dirs"
  /\ Pass(j) \/ Park(j)
  /\ UNCHANGED <<need, started, alive, disk, settled, cancelled, runVars>>

\* Mutant: the process is started without the run's context.
LaunchRegardless(j) ==
  /\ Evaluating(j)
  /\ IsProcess(Under(j))
  /\ alive' = alive \cup {j}
  /\ UNCHANGED <<pc, need, state, started, failure, at, disk, settled, passed,
                 cancelled, runVars>>

\* A step or the executor starts: cmd.Start refuses a done context.
Launch(j) ==
  /\ Evaluating(j)
  /\ IsProcess(Under(j))
  /\ ~cancelled
  /\ alive' = alive \cup {j}
  /\ UNCHANGED <<pc, need, state, started, failure, at, disk, settled, passed,
                 cancelled, runVars>>

\* It never starts: a done context, a missing command, a log or a HOME that
\* could not be made.
LaunchFails(j) ==
  /\ Evaluating(j)
  /\ IsProcess(Under(j))
  /\ Park(j)
  /\ UNCHANGED <<need, started, alive, disk, settled, cancelled, runVars>>

\* While it lives a process of the job writes, replaces or removes the job's
\* outputs.
Touch(j) ==
  /\ j \in alive
  /\ \E present \in SUBSET Declared(j) : disk' = [disk EXCEPT ![j] = present]
  /\ UNCHANGED <<pc, need, state, started, failure, at, alive, settled, passed,
                 cancelled, runVars>>

\* The process group is gone.  Exit code 0 passes; any other code, a kill or
\* an executor error parks.
ProcessEnds(j) ==
  /\ j \in alive
  /\ alive' = alive \ {j}
  /\ Pass(j) \/ Park(j)
  /\ UNCHANGED <<need, started, disk, settled, cancelled, runVars>>

\* checkOutputs looks at what is on disk now, one output after the other.
OutputPresent(j) ==
  /\ Evaluating(j)
  /\ Under(j).kind = "output"
  /\ Under(j).out \in disk[j]
  /\ Pass(j)
  /\ UNCHANGED <<need, started, alive, disk, settled, cancelled, runVars>>

OutputMissing(j) ==
  /\ Evaluating(j)
  /\ Under(j).kind = "output"
  /\ Under(j).out \notin disk[j]
  /\ Park(j)
  /\ UNCHANGED <<need, started, alive, disk, settled, cancelled, runVars>>

\* Nothing is left to check: the record already says done.
AllPassed(j) ==
  /\ pc[j] = "evaluating"
  /\ at[j] = Len(Evidence(j)) + 1
  /\ pc' = [pc EXCEPT ![j] = "closing"]
  /\ UNCHANGED <<need, state, started, failure, at, alive, disk, settled,
                 passed, cancelled, runVars>>

\* The deferred close: from here on dependents and record() read the record.
Settle(j) ==
  /\ pc[j] = "closing"
  /\ pc' = [pc EXCEPT ![j] = "closed"]
  /\ settled' = settled \cup {j}
  /\ UNCHANGED <<need, state, started, failure, at, alive, disk, passed,
                 cancelled, runVars>>

-----------------------------------------------------------------------------
(* The goroutine that called execute.                                      *)

\* Mutant: a run without a parked job counts as succeeded.
JoinIgnoresPending ==
  /\ main = "executing"
  /\ \A j \in Job : pc[j] = "closed"
  /\ outcome' = IF \E j \in Job : state[j] = "parked"
                  THEN "parked" ELSE "succeeded"
  /\ main' = "writing"
  /\ UNCHANGED <<jobVars, cancelled, recorded, result>>

\* wg.Wait returns once every goroutine has; record() reads every job record.
Join ==
  /\ main = "executing"
  /\ \A j \in Job : pc[j] = "closed"
  /\ outcome' = IF \A j \in Job : state[j] = "done"
                  THEN "succeeded" ELSE "parked"
  /\ main' = "writing"
  /\ UNCHANGED <<jobVars, cancelled, recorded, result>>

\* writeRecord installs record.json whole.
WriteRecord ==
  /\ main = "writing"
  /\ recorded' = outcome
  /\ main' = "written"
  /\ UNCHANGED <<jobVars, cancelled, outcome, result>>

\* Or it cannot: Run returns the error and no outcome.
WriteRecordFails ==
  /\ main = "writing"
  /\ result' = [outcome |-> "unset", err |-> TRUE]
  /\ main' = "returned"
  /\ UNCHANGED <<jobVars, cancelled, outcome, recorded>>

\* The outcome is returned, beside an error when the context is done by now.
Return ==
  /\ main = "written"
  /\ result' = [outcome |-> outcome, err |-> cancelled]
  /\ main' = "returned"
  /\ UNCHANGED <<jobVars, cancelled, outcome, recorded>>

\* SIGINT or SIGTERM, at any moment.
Cancel ==
  /\ ~cancelled
  /\ main # "returned"
  /\ cancelled' = TRUE
  /\ UNCHANGED <<jobVars, runVars>>

\* The process exit code main.report derives from what Run returned.
ExitCode ==
  IF result.err THEN 1 ELSE IF result.outcome # "succeeded" THEN 2 ELSE 0

\* The run is over: nothing more happens.
Over == main = "returned" /\ UNCHANGED vars

JobStep(j) ==
  \/ NeedMet(j) \/ NeedFailed(j) \/ GiveUp(j) \/ Release(j)
  \/ EnsureJob(j) \/ Launch(j) \/ LaunchFails(j)
  \/ OutputPresent(j) \/ OutputMissing(j)
  \/ AllPassed(j) \/ Settle(j)

MainStep == Join \/ WriteRecord \/ WriteRecordFails \/ Return

Next ==
  \/ \E j \in Job : JobStep(j) \/ Touch(j) \/ ProcessEnds(j)
  \/ MainStep
  \/ Cancel
  \/ Over

\* The Go scheduler runs every goroutine that can run, and every process
\* ends: a step at stepTimeout, an executor at its timeout plus killGrace.
\* Nothing obliges a signal to come or a process to touch an output.
Fairness ==
  /\ \A j \in Job : WF_vars(JobStep(j)) /\ WF_vars(ProcessEnds(j))
  /\ WF_vars(MainStep)

Safety == Init /\ [][Next]_vars
Spec == Safety /\ Fairness

-----------------------------------------------------------------------------
(* What the scheduler owes.                                                *)

\* Every variable keeps its type.
TypeOK ==
  /\ pc \in [Job -> {"waiting", "evaluating", "closing", "closed"}]
  /\ need \in [Job -> Nat \ {0}]
  /\ \A j \in Job : need[j] <= Len(Needs[j]) + 1
  /\ state \in [Job -> {"pending", "done", "parked"}]
  /\ started \subseteq Job
  /\ failure \in [Job -> Nat]
  /\ at \in [Job -> Nat \ {0}]
  /\ \A j \in Job : at[j] <= Len(Evidence(j)) + 1
  /\ alive \subseteq Job
  /\ disk \in [Job -> SUBSET Output]
  /\ settled \subseteq Job
  /\ cancelled \in BOOLEAN
  /\ main \in {"executing", "writing", "written", "returned"}
  /\ outcome \in Outcome \cup {"none"}
  /\ recorded \in Outcome \cup {"none"}
  /\ result \in [outcome : Outcome \cup {"none", "unset"}, err : BOOLEAN]
  /\ passed \in [Job -> SUBSET Nat]

IsDone(j) == j \in settled /\ state[j] = "done"
IsParked(j) == j \in settled /\ state[j] = "parked"

\* Everything j depends on, directly or through others: the least set of
\* jobs that holds j's needs and the needs of its own members.
ClosedUnderNeeds(S) == \A s \in S : NeedsOf[s] \subseteq S

Upstream(j) ==
  {a \in Job : \A S \in SUBSET Job :
     NeedsOf[j] \subseteq S /\ ClosedUnderNeeds(S) => a \in S}

\* A job that started had every job above it done for good, however far
\* above: a transient "done" of a job still under evaluation releases nobody.
\* (runJob sets State to done before evaluate has looked at anything.)
UpstreamStands == \A j \in started : \A a \in Upstream(j) : IsDone(a)

\* A settled record says what the walk found.  Done: every item of the
\* evidence passed.  Parked: exactly the items before the failure did.
\* Pending: nothing of the job ever ran.  And no process outlives it.
RecordsTellTheWalk ==
  \A j \in settled :
    /\ j \notin alive
    /\ CASE state[j] = "done" ->
              passed[j] = 1 .. Len(Evidence(j)) /\ failure[j] = 0
         [] state[j] = "parked" ->
              failure[j] \in 1 .. Len(Evidence(j))
                /\ passed[j] = 1 .. failure[j] - 1
         [] state[j] = "pending" ->
              passed[j] = {} /\ failure[j] = 0 /\ j \notin started

\* record.json and the exit code agree with what the jobs went through: a
\* recorded success is every item of every job, exit code 0 is a recorded
\* success, exit code 2 is a recorded parking, and without a record the exit
\* code is 1.
RecordIsHonest ==
  /\ recorded = "succeeded" <=>
       recorded # "none"
         /\ \A j \in Job : IsDone(j) /\ passed[j] = 1 .. Len(Evidence(j))
  /\ recorded # "none" => settled = Job /\ alive = {}
  /\ main = "returned" =>
       /\ ExitCode = 0 => recorded = "succeeded"
       /\ ExitCode = 2 => recorded = "parked"
       /\ recorded = "none" => ExitCode = 1

\* In a run nobody cancelled, a job that was left pending has a parked job
\* above it: siblings of a parked job and their descendants all ran.
PendingHasACause ==
  main # "executing" /\ ~cancelled =>
    \A j \in Job \ started : \E a \in Upstream(j) : IsParked(a)

\* Once its settled channel is closed a job's record is never written again:
\* what a dependent or record() read without a lock stays true.
SettledIsFinal ==
  [][\A j \in settled :
       /\ j \in settled'
       /\ state'[j] = state[j]
       /\ failure'[j] = failure[j]
       /\ passed'[j] = passed[j]
       /\ j \in started' <=> j \in started]_vars

\* Cancelled with a step or its executor still to start, a job can no longer
\* end done, whatever its processes left behind.
NeverRan(j) ==
  /\ cancelled
  /\ pc[j] \in {"waiting", "evaluating"}
  /\ j \notin alive
  /\ \E i \in at[j] .. Len(Evidence(j)) : IsProcess(Evidence(j)[i])

CancelledCannotPass ==
  \A j \in Job : [](NeverRan(j) => [](~IsDone(j)))

\* The scheduler is an implementation of the abstract run: a job is running
\* from its start until its record is final, and the verdict is the record.
Status ==
  [j \in Job |->
     IF j \notin started THEN "pending"
     ELSE IF j \notin settled THEN "running" ELSE state[j]]

KR == INSTANCE KataRun WITH status <- Status, verdict <- recorded

ImplementsKataRun == KR!Spec

\* Run returns: no job waits for a channel nobody closes.
Returns == <>(main = "returned")

\* A job whose needs are all done starts, whatever becomes of the jobs beside
\* it, unless the run is cancelled.
ReleasedJobsStart ==
  \A j \in Job :
    (\A n \in NeedsOf[j] : IsDone(n)) ~> (j \in started \/ cancelled)

-----------------------------------------------------------------------------
(* Why it holds: the inductive invariant.                                  *)

Fresh(j) ==
  /\ j \notin started /\ state[j] = "pending"
  /\ failure[j] = 0 /\ at[j] = 1 /\ passed[j] = {}

\* The walk got to item at[j], everything before it passed.
Walked(j) == j \in started /\ passed[j] = 1 .. at[j] - 1

WalkedAll(j) ==
  /\ Walked(j) /\ at[j] = Len(Evidence(j)) + 1
  /\ state[j] = "done" /\ failure[j] = 0

WalkedInto(j) ==
  /\ Walked(j) /\ at[j] <= Len(Evidence(j))
  /\ state[j] = "parked" /\ failure[j] = at[j]

JobInv(j) ==
  /\ pc[j] = "waiting" => Fresh(j)
  /\ pc[j] = "evaluating" => Walked(j) /\ state[j] = "done" /\ failure[j] = 0
  /\ pc[j] \in {"closing", "closed"} =>
       Fresh(j) \/ WalkedAll(j) \/ WalkedInto(j)
  /\ j \in alive => pc[j] = "evaluating" /\ at[j] <= Len(Evidence(j))
  /\ j \in settled <=> pc[j] = "closed"
  /\ \A i \in 1 .. need[j] - 1 : IsDone(Needs[j][i])
  /\ j \in started => need[j] = Len(Needs[j]) + 1

AllDone == \A j \in Job : state[j] = "done"

RunInv ==
  /\ main = "executing" =>
       outcome = "none" /\ recorded = "none" /\ result.outcome = "none"
  /\ main # "executing" =>
       /\ \A j \in Job : pc[j] = "closed"
       /\ outcome = IF AllDone THEN "succeeded" ELSE "parked"
  /\ main = "writing" => recorded = "none"
  /\ main = "written" => recorded = outcome
  /\ main = "returned" =>
       \/ recorded = "none" /\ result.err
       \/ recorded = outcome /\ result.outcome = outcome

\* What each goroutine has done so far, by where it is: TypeOK and the
\* properties above follow from it, and every step keeps it.
IInv == TypeOK /\ (\A j \in Job : JobInv(j)) /\ RunInv

=============================================================================
