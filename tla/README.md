# A TLA+ model of gunkata

gunkata runs a *kata*: a DAG of jobs, each a few deterministic steps, at most one agent
executor, and the evidence the job is held to. This directory models the Go program under
`packages/gunkata`: TLA+ modules for its parts, TLC configurations that check them on small
instances, and TLAPS proofs of what holds of them for every instance. Source
references are to `packages/gunkata/internal/engine/` (`engine.go`, `executor.go`,
`layout.go`, `skills.go`, `privtmp_*.go`), `internal/kata/kata.go` and
`cmd/gunkata/main.go`; `PROJECT.json` maps every definition to its lines.

Run a configuration with `tlc -config Scheduler.cfg MCScheduler`, and the proofs of a
module with `tlapm SchedulerProofs.tla`.

## The system

A run is one process, `gunkata run <kata>`. It loads and validates the kata, claims a run
directory, fills it (kata, params, skills), runs every job on a goroutine of its own, writes
`record.json` and ends with an exit code. Runs share nothing but the runs root, the caches
and the host's logins.

| Component | State it keeps | Operations | What makes it correct |
|---|---|---|---|
| **Scheduler** `engine.go` execute, runJob, needsDone, evaluate, record; carryOut, `main.go` report | a record per job, a `settled` channel per job, the run's context | wait for a need, give up, release, walk the evidence, settle, join, record, return | nothing starts before all above it is done; a record says what the walk found and never changes once settled; outcome and exit code agree with the records; the run ends |
| **Process supervision** `executor.go` startGrouped, waitGrouped, killGroup, runStep, superviseExecutor | the leader, its group, the context's watcher, the stdout copier, WaitDelay | start, cancel, reap, drain, sweep | the group dies with the command; the stream is complete and at rest when it is read; the code is the leader's; the wait is bounded |
| **Event stream** `executor.go` eventStream | a partial line, the message, open tools | Write a chunk, handle a line, flush | the message is a function of the transcript, not of the chunks |
| **Executor call** `engine.go` evaluate, runSteps, runPrompt; `executor.go` runExecutor, prepareHome, keepMessage, dropCredentials | the job's HOME, its logs, the login watch, `message.md`; exit code and versions in the record | set up, run, keep the message, unwind, take the result | every way out undoes what was set up, in an order that leaves no credential; the record holds only what happened |
| **Claude login hand-back** `executor.go` watchClaudeLogin … relink | the host's login file, each job's link or file | poll, read, merge, install, relink, last sync, drop | the one refresh token the server still takes is never thrown away; the host's login never gets older |
| **Skills** `skills.go` | clones, snapshots, the record's sources, a HOME's skills | resolve, clone, rev-parse, copy, materialize | all jobs run the version the record names; no clone is left |
| **Run lifecycle, run directory** `engine.go` Run, prepare, setup; `layout.go`; `main.go` | the run directory, `record.json`, the exit code | claim, copy, snapshot, record, report | a directory per run; a record only whole, over a complete directory; stdout and exit code agree with it |
| **Cycle detection** `kata.go` detectCycle, visit | a mark per job, the call stack | visit, return | accepts exactly the acyclic graphs, and ends |
| **Kata loading and validation** `kata.go`, `engine.go` bindParams, preflight | the kata in memory, each job's resolved profile, the bound params | decode, validate, merge, resolve, bind, preflight | whatever it accepts has all that later code looks up unchecked (a null step's command excepted, see below); it refuses nothing without a rule; amendments stay with their job |
| **Placeholders, step splitting** `kata.go` Expand, Split | none | split a line, validate a reference, expand | a step is run as its author wrote it, whatever a param holds |
| **Private /tmp** `privtmp_*.go`, choosePrivateTmp | a choice per run; the helper's threads and their capability | probe, confine, mount, drop, exec | the record's `private_tmp` is what the executor lives with; acpx never holds the helper's capability |
| MCP config `executor.go` mcpConfigJSON, mcpName; usableMCPs | none | pick, name, expand | a server that is used has its variables; optional ones are skipped |
| Command line, run log, `scripts/kb_index.py` | none | parsing, formatting | - |

**How they interact.** The scheduler calls `runStep` (process supervision) for steps and
`runExecutor` (executor call) for prompts; `runExecutor` links credentials, starts the login
watch, hands the command to the supervision with the event stream on its stdout, and keeps
the message the stream found. Jobs speak to each other only through the `settled` channels
and the records behind them, and through files in the run directory. The lifecycle runs
loading (with cycle detection) before, and skills and the /tmp probe (in setup) just before the
scheduler, which takes for granted what loading checked: it dereferences needs, executors,
params and the /tmp choice without looking, and argv[0] of every step, which loading does not
give a null item (run `KataLoad_null`). The
signal context reaches `needsDone`, every `exec.CommandContext`, and `carryOut`'s last line.

**What is hard about it.** Goroutines that read each other's records without a lock; a job
record that says `done` while the job is still being evaluated; processes that fork, leave
their group and outlive their parent while a kill is under way; a pipe copied by a goroutine
of the standard library; files of the host (logins, katas, params, skills) that others write
at any time; steps that fail half-way with credentials already linked; signals and kills at
any point. The list, line by line, is `hazards` in `PROJECT.json`.

## Modules

| Module | Models | Abstracts |
|---|---|---|
| `KataRun` | what a run promises: jobs start when what they need is done, end once, and the verdict is about a run at rest | everything else |
| `Scheduler` | the goroutines, one action per statement that another goroutine, a process or a signal can come between; refines `KataRun` | a process group is a job in `alive` that ends with a verdict |
| `ProcessGroup` | one supervised command: processes, group, kill, os/exec's goroutines, the engine's wait and sweep | bytes are chunks; time is a context or timer that may be over |
| `EventStream` | `Write`, `handle`, `update`, `track`, `maybeEnd`, `flush` | a line is two halves of JSON and a newline; text is a model value |
| `ExecutorRun` | `runExecutor` with a failure at every step and its deferred calls as a stack | HOME is the set of credential paths with something at them |
| `PrivateTmp` | the probe's choice; the helper that mounts, drops its capability and becomes acpx, on a runtime of several threads | a namespace is whether the process sees its own /tmp |
| `JobRun` | one job from release to record: evaluate's stages and loops around `ExecutorRun` and `PrivateTmp`; refines `Scheduler` for that job | the process group is `ProcessGroup`'s, the stream's content two facts it may tell |
| `KataLoad` | `prepare`: flags, decoding with step splitting, every validation in its order, merge, binding, preflight; expansion after it; how a line is written | a text is a sequence of characters and whole placeholders; YAML is one verdict |
| `ClaudeLogin` | every system call of the hand-back, against executors and the host | a token is a version number; the server takes only the latest |
| `SkillFetch` | fetch, clone, snapshot, and the copy into each HOME | contents are a version number |
| `RunLifecycle` | `Run` from prepare to exit code, for several runs at once | the jobs are one action (Scheduler), the skills another (SkillFetch) |
| `CycleDetect` | the recursive walk with its call stack made explicit | - |
| `MC*` | instances for TLC | |
| `SchedulerProofs`, `SupervisionProofs` (of `ProcessGroup` and `EventStream`), `CycleDetectProofs`, `JobRunProofs` (with `ExecutorRun` and `PrivateTmp`), `RunLifecycleProofs`, `SkillFetchProofs`, `ClaudeLoginProofs`, `KataLoadProofs` | theorems and proofs | |

Conventions. A variable `pc` (or `phase`, `main`) is the place a goroutine or function is
at; an action is one step of it, named after the function or the event. Actions whose
comment begins with *Mutant* are not part of any next-state relation: each is a definition
with a plausible bug, put in place of the one below it to see that a property notices.

Modelling decisions a reader should know:

- *Scheduler.* `GiveUp` stands for both places `needsDone` looks at the context: the select's
  second case and the check after the last need. `Release` carries `~cancelled` for the
  latter. `Touch` lets a job's processes change that job's own outputs, while they live;
  processes that escaped their group, or write into another job's directory, are outside
  this module (`ProcessGroup` shows that they exist). `runSteps` with no steps opens no log;
  with steps, a log that cannot be opened is `LaunchFails`. `passed` is a history variable.
- *ProcessGroup.* os/exec is modelled from what the engine relies on. A killed process does
  nothing more but is alive until the kernel buries it. Process ids are not reused. The
  branch of `waitGrouped` for a nil `ProcessState` cannot be reached after a successful start.
- *EventStream.* A title, a kind, usage, cost and versions only reach the log or the record's
  versions map and are left out.
- *ExecutorRun.* `Fails` may strike at any step of the setup and at `keepMessage`. The
  executor may put anything at the paths the model watches. It has no run of its own: `JobRun`
  extends it and takes every one of its actions.
- *PrivateTmp.* Every thread of the helper's runtime starts with the ambient capability, as
  threads are cloned; `prctl` changes the calling one; exec keeps what the calling one holds.
  The goroutine may change threads between any two steps until it is locked.
- *JobRun.* The job has an executor, and no needs: waiting is `Scheduler`'s. The only effects of
  steps and acpx are on the declared outputs, `message.md` and HOME. acpx's output may carry
  the handshake's versions; whether a line arrives is `EventStream`'s and `ProcessGroup`'s
  subject. Every step has a command: one that has none ends the engine with a panic
  (`KataLoad_null`), which is `RunLifecycle`'s `Kill`. `MessageKept` leaves a present output or an
  empty one, as the message is not or is empty. A Claude transcript's version
  (`claudeCodeVersion`) counts as one the stream told.
- *KataLoad.* An item of a list of steps that is empty or `~` has a form of its own, `null`. How it
  loads is yaml.v3's doing, whose source is not in the repository: for a null node and a slice type it
  sets the element to nil and does not call `UnmarshalYAML`, so `Argv` yields an empty argv and no
  error. Null items of other lists (skills, servers, needs, outputs) are dropped by it, a null
  profile lacks a harness, a null job is refused: these are katas the model has anyway. Jobs are validated in name order (`IsFirst`) and the first failure refuses the run; the order
  of checks within `validateShape` makes no difference to what is accepted. `Acyclic` is the
  formula `CycleDetect` is proved to decide. Three harnesses load skills, one has its own agent
  command, one takes a system prompt, as the code's tables have it. A malformed adapter, a
  malformed skill URL and a bad output name are values of their own: the regular expressions
  are not taken apart. `joinText`'s blank line between two system prompts is left out.
  `validateRefs` looks at all texts of a job joined by newlines; a placeholder that starts in
  one and ends in the next is refused by the code and cannot be written in the model.
- *ClaudeLogin.* Claude Code's refresh (post, then rename) is one step; an MCP server's login
  and the subscription are entries alike, as in `mergeLogins`. A token does not come due
  while it waits in a job's file to be handed back: it is good for hours and the poll comes
  every second. The host always has a login file. macOS, where no watch runs, is left out.
- *SkillFetch.* Removing a clone (`os.RemoveAll`, error ignored in the code) is taken to
  succeed. `git rev-parse` starts no helper. One goroutine fetches; jobs materialize in any
  order after it.
- *RunLifecycle.* `edited` is a history variable: the runs whose kata the author changed between
  prepare's reading and copyKata's; no action reads it. `Fails` at any step of prepare, claim, setup or the record. A read of a
  file is one step. `RunJobs` gives the outcomes the scheduler can give: a run cancelled
  before it starts none of its jobs.
- *CycleDetect.* Needs name jobs: `validateJob` has looked at every one before.

## Runs

Passing runs. Deadlock is checked in all of them; a module whose behaviours end has an
`Over` action that stutters in its final states only.

| Run | Instance | Shows |
|---|---|---|
| `Scheduler` | a diamond of four jobs with pre-steps, executors, outputs and post-steps; 4 462 states | `UpstreamStands`, `RecordsTellTheWalk`, `RecordIsHonest`, `PendingHasACause`, `SettledIsFinal`, `CancelledCannotPass`, the refinement `ImplementsKataRun`; with fairness `Run` returns (`Returns`) and a released job starts whatever its siblings do (`ReleasedJobsStart`) |
| `ProcessGroup` | leader, child, grandchild; 2 chunks, a pipe of 1; 30 681 states | `GroupIsDead`, `StreamIsAtRest`, `StreamIsWhole`, `CodeIsTheLeaders`; with fairness the wait is bounded though no process ever ends by itself (`Returns`) |
| `EventStream` | every transcript of up to 4 lines over one tool and two texts; 117 698 states | message, open tools and warning depend on the transcript alone (`MessageIsFinal`, `ReportsDependOnTheLines`) |
| `ClaudeLogin` | two executors and the host, one entry, 3 refreshes; 174 284 states | `LoginLastsAsLongAsTheJob`, `LiveTokenIsKept`, `InstallsNeverDowngrade` |
| `CycleDetect` | all 2 197 need graphs of three jobs with up to two needs each; 9 542 states | the verdict is right both ways (`VerdictIsRight`), and comes (`Returns`) |
| `SkillFetch` | two executors, a local skill, two URLs, a name shared by two of them, lists with repeats; 24 966 states | `NoCloneLeftBehind`, `JobsRunTheRecordedSkills` |
| `JobRun` | a pre-step, a post-step, two outputs of which one is the message, two credentials, two threads; 109 212 states | `NothingOutlivesTheCall`, `EvidenceIsReal`, `PrivateTmpIsTrue`, the refinement `ImplementsScheduler` |
| `KataLoad` | every kata that differs from a sound one in up to two places, four sets of flags, two environments; every argv of up to two short words, written bare, quoted and mixed, and null steps; 222 482 states | `EveryLookupFinds`, `AmendmentsStayTheirOwn`, `StepsRunAsWritten`, `RefusedWithReason` |
| `RunLifecycle` | two runs, two ids, two versions of each input; 2 363 952 states up to symmetry | `OneRunPerDir`, `RecordIsComplete`, `ExitTellsTheDir` |

Why the bounds are enough to mean something. The diamond is the smallest DAG with a job that
has two needs, siblings, and a job two levels below another; its evidence lists hold every
kind of item. Three processes allow a child that is forked during a kill, one that escapes,
and one an escaped one forks. Four lines hold a preamble, a tool, its late completion and an
answer; chunks of every size cut every line. Two executors and the host are all the parties
a login race needs, and three refreshes let each refresh once. Two runs and two ids make
every claim collide. In `JobRun` one credential can fail after the other, the loops over steps
and outputs each go round, and two threads are enough to drop on one and exec on the other. In
`KataLoad` two jobs share a profile, and two differences let one check hide another or one
change make up for another: an amendment that supplies what a spoiled profile lacks, a
reference in a system prompt to what another change removed. Three jobs hold self-loops, two- and three-cycles, and a job reached
twice. Symmetry is used in `RunLifecycle` only, whose properties are all invariants, over
runs and ids, which nothing tells apart.

Runs that end in a violation, each a sentence of the repository the code does not keep:

| Run | Property | The sentence | What the code does |
|---|---|---|---|
| `ClaudeLogin_host` | `HostLoginsSurvive` | `executor.go:903-906` "a login the host gained while the job ran survives" | the host's file is replaced by a merge with an earlier reading of it |
| `SkillFetch_clash` | `NoSkillClashesMidRun` | `engine.go:107-108` "rejecting what would fail mid-run" | a skill listed twice is snapshotted once and copied twice, which `os.CopyFS` refuses |
| `KataLoad_null` | `MalformedStepsAreRejected` | `docs/spec.md:153-154` "malformed steps, and cycles are rejected before anything runs" | a null item (`post-steps: [~]`, or a bare `-`) never reaches `Step.UnmarshalYAML` and its check (`kata.go:251`; `kata_test.go:237` has the empty array only): the nil step counts as evidence (449), passes preflight, and `runStep` panics at argv[0] (`executor.go:484`) |

Other places where the models go another way than a sentence does. They follow from reading
the code beside the model and have no run of their own:

- `engine.go:77-79`, "an error means the run could not be carried out at all": a context that
  ends late adds an error to a run whose record is written (`engine.go:174`, `Return` of
  `Scheduler`).
- `executor.go:245-246`, "an error means the executor never ran": `keepMessage` may fail after it
  ran (436), and `runPrompt` then drops its exit code and versions (568), so that
  `layout.go:82`, "A nil field means that evidence never happened", is not true of that job.
- `docs/spec.md:156`, "Every job gets its own directories": job names are only joined to a path
  (`layout.go:165-182`), so jobs called `fetch` and `./fetch` share theirs.
- `executor.go:599-600`, names of MCP servers: a repeated one gets a number (618), which may be
  another server's own name (`foo`, `foo`, `foo-2`).
- `README.md:4-6`, "released only when the upstream job's declared outputs exist and its
  post-steps pass": outputs are not looked at again after the post-steps (`engine.go:465-471`).
- `docs/spec.md:185`, "A run ends when its process tree is dead.": the process group is killed;
  a child that called setsid lives on (`executor.go:537`, action `Escape`).
- `docs/spec.md:106`, "its text after its last tool call", and line 46 of the finding on final
  messages, "resets its buffer on every `tool_call` and `tool_call_update`": an update resets
  the text unless it is terminal (`executor.go:1277`), which is neither.
- `executor.go:802-803`, "hands every token a claude executor refreshes back": with two
  entries the relink may replace a file written after it was read (1045).
- `executor.go:59`, "so no run hangs on teardown": `git clone` runs outside `startGrouped`, with
  neither a group nor a WaitDelay (`skills.go:249`).
- `docs/spec.md:106-109`, the message replaces "anything the agent put there": a rename does not
  replace a directory (`executor.go:1026`).
- `docs/spec.md:150-152`, "a complete, self-contained evidence record": the kata is read again
  for its copy (`layout.go:194`), and may have been edited since it was loaded; `RecordIsComplete` promises the
  loaded one only of a run whose kata was not. `RunLifecycle` reaches a record over a kata that
  was never validated.

- `docs/spec.md:82-83`, "The engine fails any job whose transcript shows a server failed to load":
  nothing reads such a line (`eventStream.update`, `executor.go:1245-1289`), and evaluate looks at exit
  codes and outputs alone.

None of these stops the guarantees of the passing runs; where a guarantee holds only beside
one of them its comment says so (`LiveTokenIsKept` and `InstallsNeverDowngrade` speak of one
rotating entry: with two, the merge race can take the host's newer entry back).

## Fairness

- *Scheduler*: weak fairness of every job's goroutine, of the goroutine in `carryOut` - the Go
  scheduler runs what can run - and of the end of every process, which its own timeout
  enforces: `stepTimeout` for steps, the profile's timeout plus `killGrace` for executors
  (`Returns` of `ProcessGroup` is why that suffices). None for `Cancel` or `Touch`.
- *ProcessGroup*: the context ends (each command has a deadline), the watch goroutine,
  WaitDelay's timer, the copier and the waiter run, and the kernel buries what was killed.
  None for anything a process does of its own will, exit included.
- *CycleDetect*: a sequential function runs.

## Proofs

TLAPS checks these for every value of the constants that satisfies the named assumptions.
Every safety invariant and action property of the passing runs, and both refinements, are
theorems; liveness is not. Each proof module begins with its inductive invariant, which TLC found to hold
on the run's instance, and shows that the initial states satisfy it, that every action keeps it,
and what follows from it.

**Scheduler** (`SchedulerProofs`). `Invariance` proves `IInv` inductive: by where a job's
goroutine is, either nothing of the job happened (`Fresh`), or the walk passed exactly the
items before `at` (`Walked`), to the end (`WalkedAll`) or into a failure (`WalkedInto`); a
need behind `need[j]` is settled and done; and `carryOut`'s position fixes outcome, record and
result. The properties alone are not inductive: `UpstreamStands` says nothing of a job that is
still waiting, and `RecordsTellTheWalk` nothing of one that has not settled. From it:
`TypeCorrect`, `NothingStartsTooEarly` (the done jobs are closed under needs, so they contain
everything upstream), `RecordsAreTrue`, `TheRecordIsHonest`, `SettledRecordsAreFinal`, and
`SchedulerImplementsKataRun`, step by step: `Release` is `Start`, `Settle` of a started job is
`Finish`, `WriteRecord` is `State`, everything else stutters. Assumptions: the needs, steps and outputs are
sequences over finite sets of jobs and outputs. Acyclicity is needed for one of them only,
`NothingIsLeftPendingForNothing`: a job that gave up in a run nobody cancelled has a need that is
not done (`GaveUpForANeed`), and among the jobs above it that never started one needs none of the
others (`AcyclicAssumption`), so what stopped that one was parked. `ACancelledJobCannotPass` is
about a state and all later ones: `Doomed(j)` - the run is cancelled, and the job is either
still before a process it has to start or no longer done - is never left.

**Process supervision** (`SupervisionProofs`), for any number of processes and chunks. `IInv` counts every
chunk - in the pipe, in the copier's hand, kept, or the one the disk refused - and follows the
leader's death through the wait. From it `NoGroupSurvives`, `TheStreamRests`,
`TheStreamIsWhole`, `TheCodeIsTheLeaders`.

**Event stream** (`SupervisionProofs`), for any tools and texts, transcripts of any length and chunks of
any size. `Tells(s, n)` says that a summary is that of the first `n` lines: the message is their
final text in order, the open tools are the unfinished ones, the warning is about one of them.
`LineTold` is that handling line `n + 1` keeps it; `RoundCuts` that a round of Write's loop takes
exactly that line off the buffer; `LoopTells`, by induction over the rounds, that after the loop the
summary tells of every line the buffer ended and what is left ends none. So `StreamIInv` - the summary
tells of the whole lines among the `pos` units, and `partial` is the rest of them - survives a
chunk that ends anywhere (`ChunkJoins`, `WriteKeeps`) and a flush inside a line (`FlushKeeps`). From it
`StreamTypeCorrect`, `TheMessageIsFinal`, `ReportsAreTheTranscripts`.

**CycleDetect** (`CycleDetectProofs`), for any finite set of jobs and any need lists.
`IInv` says that the caller links are a call stack (`StackInv`), that behind a visit's position
everything is visited but the job it is waiting for (`WalkInv`), and that among visited jobs
one always needs none of them (`VisitedInv`). A visit that meets the stack closes a circle: the
jobs on the stack each need one of them. `DetectCycleIsRight` is both directions of the
verdict. The scheduler's `AcyclicAssumption`, on which its liveness rests, is the same
formula.

**Executor call, private /tmp, one job** (`JobRunProofs`), for any credentials, threads, numbers
of steps and lists of outputs. `IInv` has a part for each module. `CallInv`: what is deferred is
a beginning of `Undo`, as long as the call has come, and what a deferred call undoes is on at
most while that call is deferred; a credential is still to be looked at, or gone, or noted. `TmpInv`: the helper's
next step says what it has done, and the thread it clears is the one it becomes acpx on.
`EvidenceInv`: the call is made from the prompt stage, and the record holds what it returned. From
it `JobTypeCorrect`, `CallsLeaveNothing`, `RecordsHoldWhatHappened`, `TheRecordedTmpIsTheTmp`.
`StagesAreTheWalk` is the refinement: evaluate's stages, with a call that fails anywhere, are
the scheduler's walk over one list of evidence. `EvidenceItems` says which item of that list a stage
and a count stand for, `WalkInv` that the count stays within the stage, and `StepMaps` takes
the actions one by one: those that pass an item, park, start or end the executor are `Pass`,
`Park`, `Launch` and `ProcessEnds`; the rest stutters. `Scheduler` is proved to implement `KataRun`,
so a job's stages do too. Assumption: `WalkAssumption`, that lists are lists.

**Run lifecycle** (`RunLifecycleProofs`), for any number of runs, ids, versions and attempts.
`IInv` says of each run what its directory holds, its record and its exit are by where it is, and
that the directory a run has is taken; a step is one run's (`OneRunMoves`), and of the others it
changes only which ids are taken. While a run is on its way from prepare to copyKata and its kata is
not edited, what it loaded is what the file holds; that is what makes the copy the kata it ran. From
it `RunsNeverShareADir`, `RecordsAreComplete`,
`ExitsTellTheDir`. Assumption: `IdAssumption`, that no id is the value that stands for none.

**Skills** (`SkillFetchProofs`), for any skill lists, jobs and versions. Every entry the
walk is past has a snapshot that is what the record names (`WalkInv`); the entry under fetch has
the one clone there is, whose contents are what rev-parse reported (`FetchInv`); what a job has copied is
those snapshots, each under its own name (`HomeInv`); a job that meets a name another entry took
is parked. From it `TypeCorrect`, `FetchCleansUp`, `SkillsAreTheRecordedOnes`.

**Claude login** (`ClaudeLoginProofs`). `LoginsLast` is for any number of executors and entries:
a sync is of a file and ends before its job does. `TheLiveTokenIsKept` and
`SyncsNeverDowngrade` are for any number of executors and refreshes, under the hypothesis
`OneEntry`: with two entries they are false, as the run `ClaudeLogin_host` shows. Their invariant
`TokenInv`: a file in the link's place holds the live token or a cleared one, and no live token in
a file is due, so it stays what the sync has read of it; a merge that changes the host's login
brings it the live token; where the link comes back, the file was cleared or the host has what it held. The
live token is therefore only ever rotated by a client that reads it from the host's file
(`RotatedFromTheHost`). It rests on what `Expire` assumes, that a token fresh enough to
wait in a file does not come due there.

**Loading** (`KataLoadProofs`), for every kata, flags and environment. `IInv` says what each check
established, in the order of the checks: `DecodedInv`, `DeclsInv`, `Validated` of every job no
longer in `left`, `BoundInv`, `FitsInv`; `ValidatedStays` is that no later job's validation
undoes an earlier one's, `DecodedInv` that every argv came through `Argv`, so that only a null item's is
empty (`EmptyIsNull`), and `ResolvedInv` that an executor is the file's profile merged with its
job's amendment. From it `PreparedRunsFindEverything` and, with `MergeAmends`,
`AmendmentsAreTheJobsOwn`. `NoRefusalWithoutReason` is the other direction: of a kata without
fault (`Blameless`) no check fails, the last invariant to keep being `NotRefused`. Assumption:
`KataAssumption`, the Go types of a kata, and that a job has at most one agent.

**Splitting** (`KataLoadProofs`), for every line. The module says how words may be written (`Spells`):
one piece after the other, each bare or in quotes, with a gap between two words. `SplitIsRight` is
that `Split` takes a line without shell syntax exactly when it spells some words, that its argv is those
words, and that no line spells two argvs. One direction runs the splitter along a writing, by induction over
pieces and words (`PieceRun`, `PiecesRun`, `WritingRun`). The other keeps, character by character,
that what was taken is the writing of the words so far (`Reads`: the finished words, the gap, the
pieces and the open piece of the word under way), one lemma per way to take a character (`ClosingReads`,
`QuotingReads`, `OpeningReads`, `BareReads`, `SpacingReads`). With it `StepsRunTheirWords`: the argv run is the
words written, every placeholder replaced once (`FlattenOne` is that an atom that is no placeholder
expands to itself). It and `NoRefusalWithoutReason` have a hypothesis, `StepsAreLabelled`:
a step's `readable` and `words`, which are labels a kata of the model carries and no code
reads, say truly whether it can be read and what it spells. The instance's labels do: its
lines are built by `LineOf` from those words, or are no writing, and a null item has none.

**How the inductions are done.** The theorems of the library that take a predicate as a parameter
are out of the provers' reach, so an induction here is about a set of numbers: if 0 is in it, and
`n + 1` with `n`, no number is the least outside it (`Induct`, from `WFMin` and
`NatLessThanWellFounded`). A recursive function is a CHOOSE; `LoopUnfolds`, `SplitterUnfolds` and
`FlattenUnfolds` show that a function with the defining equation exists, the last for the `FlattenSeq` of the
community modules, whose laws over sequences of sequences are `FlattenLaws`.

**Only model-checked.** Liveness: `Returns` of `Scheduler`, `ProcessGroup` and `CycleDetect`, and
`ReleasedJobsStart`. It rests on fairness and ENABLED, which the prover does not handle.

## Not modelled

- *YAML and paths*: whether a file decodes is one verdict per kata; names and paths are model
  values, so what `filepath.Join` makes of an odd job name is only in the list above.
- *MCP config*: names and expanded URLs. That expansion may fail is a step of `ExecutorRun`;
  which servers are used is in `KataLoad`.
- *acpx arguments, environment*: lists built once per executor from the profile, without state.
- *Regular expressions* for adapters, param names and tree URLs: each is a value that matches or
  one that does not.
- *Progress log, the rest of flag parsing, `kb_index.py`*: formatting and tooling.
- *Crash recovery*: there is none. A killed engine leaves its executors and their links.

## Plan

Written in this order, the most important behaviour first: `KataRun`, `Scheduler` and its
proofs; `ProcessGroup` and its proofs; `EventStream`; `ClaudeLogin`; `CycleDetect` and its
proofs; `SkillFetch`; `ExecutorRun`; `RunLifecycle`; `PrivateTmp` and `JobRun`, which compose the
executor call with a job's stages; `KataLoad`; then the proofs of these, in the order of the section
above. Next:

1. `ClaudeLogin` with two entries: which weaker promise survives the merge race (an entry that
   only the host or only one job refreshes), as a property, then as a theorem.
2. The commands of the executor (acpx's arguments, the environment's order of precedence), if
   they come to keep state.
