---------------------------- MODULE RunLifecycle ----------------------------
(***************************************************************************)
(* A run from `gunkata run` to its exit code, and the runs beside it under *)
(* the same runs root: prepare, the run directory's claim, what setup puts *)
(* into it, the record, and what the process says as it ends.              *)
(* cmd/gunkata/main.go: runKata, report; internal/engine/engine.go: Run,   *)
(* prepare, openRunLog, carryOut, setup; internal/engine/layout.go:        *)
(* newLayout, claimRunDir, copyKata, snapshotParams, copyFile,             *)
(* writeRecord.                                                            *)
(*                                                                         *)
(* The jobs are Scheduler's subject and one action here, the skills        *)
(* SkillFetch's.  The kata and a file a param names belong to their author,*)
(* who may change or remove them at any time; 0 is a file that is not      *)
(* there.  SIGKILL may end a run between any two steps.                    *)
(***************************************************************************)
EXTENDS Naturals, FiniteSets

CONSTANTS
  Run,         \* processes started with `gunkata run`, on one kata
  Id,          \* run ids
  IdAttempts,  \* how many ids a run tries
  MaxVersion,  \* bound: versions of the kata and of the param's file
  Valid        \* the versions of the kata that prepare accepts

Version == 1 .. MaxVersion
File == 0 .. MaxVersion

ASSUME BoundsAssumption == IdAttempts \in Nat \ {0} /\ MaxVersion \in Nat \ {0}
ASSUME ValidAssumption == Valid \subseteq Version
ASSUME IdAssumption == "none" \notin Id

VARIABLES
  kata,      \* the kata file
  param,     \* the file a param's value names
  dirs,      \* ids with a directory under the runs root
  pc,        \* pc[r]: where the run is
  tries,     \* tries[r]: ids it found taken
  dir,       \* dir[r]: the id it claimed, "none" while it has not
  loaded,    \* loaded[r]: the version of the kata prepare loaded
  holds,     \* holds[r]: what its directory holds, but for record.json
  kept,      \* kept[r]: the version of the kata in its directory
  expandsTo, \* expandsTo[r]: what the param's placeholder stands for
  snap,      \* snap[r]: the version of the param's file in its directory
  outcome,   \* outcome[r]: what the jobs came to
  record,    \* record[r]: its record.json
  cancelled, \* runs whose context is done
  edited,    \* history: runs whose kata changed between prepare and copyKata
  printed,   \* printed[r]: the directory named on stdout
  code       \* code[r]: the exit code, 9 while there is none

dirVars == <<dirs, tries, dir>>
setupVars == <<holds, kept, expandsTo, snap>>
endVars == <<printed, code>>
inputVars == <<kata, edited, param>>
vars == <<inputVars, pc, loaded, dirVars, setupVars, outcome, record,
          cancelled, endVars>>

Init ==
  /\ kata \in File /\ param \in File
  /\ dirs \in SUBSET Id            \* earlier runs'
  /\ pc = [r \in Run |-> "prepare"]
  /\ tries = [r \in Run |-> 0]
  /\ dir = [r \in Run |-> "none"]
  /\ loaded = [r \in Run |-> 0]
  /\ holds = [r \in Run |-> {}]
  /\ kept = [r \in Run |-> 0]
  /\ expandsTo = [r \in Run |-> "nothing"]
  /\ snap = [r \in Run |-> 0]
  /\ outcome = [r \in Run |-> "unset"]
  /\ record = [r \in Run |-> "none"]
  /\ cancelled = {} /\ edited = {}
  /\ printed = [r \in Run |-> "none"]
  /\ code = [r \in Run |-> 9]

-----------------------------------------------------------------------------
(* Ends, and steps.                                                        *)

\* The process ends with an exit code; a claimed directory is named on stdout
\* whatever the code (Result.RunDir, report).
Exit(r, c) ==
  /\ pc' = [pc EXCEPT ![r] = "exited"]
  /\ printed' = [printed EXCEPT ![r] = dir[r]]
  /\ code' = [code EXCEPT ![r] = c]

Step(r, from, to) ==
  /\ pc[r] = from
  /\ pc' = [pc EXCEPT ![r] = to]
  /\ UNCHANGED endVars

\* Mutant: the directory is an afterthought of a good end.
FailsWithoutResult(r) ==
  /\ pc[r] \in {"prepare", "claim", "log", "copy", "stat", "read", "fetch",
                "stage", "install"}
  /\ pc' = [pc EXCEPT ![r] = "exited"]
  /\ code' = [code EXCEPT ![r] = 1]
  /\ UNCHANGED <<printed, inputVars, loaded, dirVars, setupVars, outcome,
                 record, cancelled>>

\* A step of the run fails: an error, exit code 1.
Fails(r) ==
  /\ pc[r] \in {"prepare", "claim", "log", "copy", "stat", "read", "fetch",
                "stage", "install"}
  /\ Exit(r, 1)
  /\ UNCHANGED <<inputVars, loaded, dirVars, setupVars, outcome, record,
                 cancelled>>

-----------------------------------------------------------------------------
(* Run: prepare, newLayout, openRunLog.                                    *)

\* The kata as it is now is valid and its params are bound.
Prepare(r) ==
  /\ Step(r, "prepare", "claim")
  /\ kata \in Valid
  /\ loaded' = [loaded EXCEPT ![r] = kata]
  /\ UNCHANGED <<inputVars, dirVars, setupVars, outcome, record, cancelled>>

\* Mutant: MkdirAll, to which a directory that exists is no error.
ClaimAny(r) ==
  \E id \in Id :
    /\ Step(r, "claim", "log")
    /\ dirs' = dirs \cup {id}
    /\ dir' = [dir EXCEPT ![r] = id]
    /\ UNCHANGED <<inputVars, loaded, tries, setupVars, outcome, record,
                   cancelled>>

\* claimRunDir: Mkdir of an id nobody holds.
Claim(r) ==
  \E id \in Id \ dirs :
    /\ Step(r, "claim", "log")
    /\ dirs' = dirs \cup {id}
    /\ dir' = [dir EXCEPT ![r] = id]
    /\ UNCHANGED <<inputVars, loaded, tries, setupVars, outcome, record,
                   cancelled>>

\* The id is taken: another one, or none after the last attempt.
ClaimTaken(r) ==
  /\ pc[r] = "claim"
  /\ dirs # {}
  /\ tries' = [tries EXCEPT ![r] = @ + 1]
  /\ IF tries[r] + 1 = IdAttempts THEN Exit(r, 1) ELSE UNCHANGED <<pc, endVars>>
  /\ UNCHANGED <<inputVars, loaded, dirs, dir, setupVars, outcome, record,
                 cancelled>>

Puts(r, what) == holds' = [holds EXCEPT ![r] = @ \cup {what}]

OpenLog(r) ==
  /\ Step(r, "log", "copy")
  /\ Puts(r, "log")
  /\ UNCHANGED <<inputVars, loaded, dirVars, kept, expandsTo, snap, outcome,
                 record, cancelled>>

-----------------------------------------------------------------------------
(* setup.                                                                  *)

\* copyKata reads the file once more, as it is by now.
CopyKata(r) ==
  /\ Step(r, "copy", "stat")
  /\ kata # 0
  /\ kept' = [kept EXCEPT ![r] = kata]
  /\ Puts(r, "kata")
  /\ UNCHANGED <<inputVars, loaded, dirVars, expandsTo, snap, outcome, record,
                 cancelled>>

\* snapshotParams: a value that is no file stands for itself ...
StatValue(r) ==
  /\ param = 0
  /\ Step(r, "stat", "fetch")
  /\ expandsTo' = [expandsTo EXCEPT ![r] = "the-value"]
  /\ Puts(r, "params")
  /\ UNCHANGED <<inputVars, loaded, dirVars, kept, snap, outcome, record,
                 cancelled>>

StatFile(r) ==
  /\ param # 0
  /\ Step(r, "stat", "read")
  /\ UNCHANGED <<inputVars, loaded, dirVars, setupVars, outcome, record,
                 cancelled>>

\* ... and one that is, for its snapshot, if it is still there to be read.
ReadFile(r) ==
  /\ param # 0
  /\ Step(r, "read", "fetch")
  /\ snap' = [snap EXCEPT ![r] = param]
  /\ expandsTo' = [expandsTo EXCEPT ![r] = "the-snapshot"]
  /\ Puts(r, "params")
  /\ UNCHANGED <<inputVars, loaded, dirVars, kept, outcome, record, cancelled>>

FetchSkills(r) ==
  /\ Step(r, "fetch", "jobs")
  /\ Puts(r, "skills")
  /\ UNCHANGED <<inputVars, loaded, dirVars, kept, expandsTo, snap, outcome,
                 record, cancelled>>

-----------------------------------------------------------------------------
(* carryOut: the jobs, the record; report: the exit code.                  *)

\* All of them, done or parked.  A run cancelled by now starts none; one
\* cancelled from now on may still be among those that succeed.
RunJobs(r) ==
  /\ Step(r, "jobs", "stage")
  /\ \E o \in IF r \in cancelled THEN {"parked"} ELSE {"succeeded", "parked"} :
       outcome' = [outcome EXCEPT ![r] = o]
  /\ UNCHANGED <<inputVars, loaded, dirVars, setupVars, record, cancelled>>

\* Mutant: record.json itself is created, and written next.
StageInPlace(r) ==
  /\ Step(r, "stage", "install")
  /\ record' = [record EXCEPT ![r] = "partial"]
  /\ UNCHANGED <<inputVars, loaded, dirVars, setupVars, outcome, cancelled>>

\* replaceFile: a temporary file beside record.json ...
Stage(r) ==
  /\ Step(r, "stage", "install")
  /\ UNCHANGED <<inputVars, loaded, dirVars, setupVars, outcome, record,
                 cancelled>>

\* ... takes its name.
Install(r) ==
  /\ Step(r, "install", "finish")
  /\ record' = [record EXCEPT ![r] = "whole"]
  /\ UNCHANGED <<inputVars, loaded, dirVars, setupVars, outcome, cancelled>>

\* A run whose context is done is an error even with its record written.
Finish(r) ==
  /\ pc[r] = "finish"
  /\ Exit(r, IF r \in cancelled THEN 1
             ELSE IF outcome[r] = "succeeded" THEN 0 ELSE 2)
  /\ UNCHANGED <<inputVars, loaded, dirVars, setupVars, outcome, record,
                 cancelled>>

-----------------------------------------------------------------------------

\* SIGINT or SIGTERM.
Cancel(r) ==
  /\ r \notin cancelled
  /\ pc[r] \notin {"exited", "killed"}
  /\ cancelled' = cancelled \cup {r}
  /\ UNCHANGED <<inputVars, pc, loaded, dirVars, setupVars, outcome, record,
                 endVars>>

\* SIGKILL, or the machine goes down.
Kill(r) ==
  /\ pc[r] \notin {"exited", "killed"}
  /\ pc' = [pc EXCEPT ![r] = "killed"]
  /\ UNCHANGED <<inputVars, loaded, dirVars, setupVars, outcome, record,
                 cancelled, endVars>>

\* The author edits the kata or the param's file, or removes it.
Edit ==
  /\ \/ /\ kata' \in File \ {kata} /\ UNCHANGED param
        /\ edited' = edited \cup {r \in Run : pc[r] \in {"claim", "log", "copy"}}
     \/ param' \in File \ {param} /\ UNCHANGED <<kata, edited>>
  /\ UNCHANGED <<pc, loaded, dirVars, setupVars, outcome, record, cancelled,
                 endVars>>

Next ==
  \/ \E r \in Run :
       \/ Fails(r) \/ Prepare(r) \/ Claim(r) \/ ClaimTaken(r) \/ OpenLog(r)
       \/ CopyKata(r) \/ StatValue(r) \/ StatFile(r) \/ ReadFile(r)
       \/ FetchSkills(r) \/ RunJobs(r) \/ Stage(r) \/ Install(r) \/ Finish(r)
       \/ Cancel(r) \/ Kill(r)
  \/ Edit

Spec == Init /\ [][Next]_vars

-----------------------------------------------------------------------------
(* What a run owes.                                                        *)

\* Runs started side by side, in the same second even, never share a
\* directory, one that is still being set up or was left by a kill included.
OneRunPerDir ==
  \A r, s \in Run : r # s /\ dir[r] = dir[s] => dir[r] = "none"

\* A record.json, whenever a reader looks - after a kill between any two steps
\* even - is a whole one, of a run whose kata was valid and whose directory has
\* each of its parts; a param its jobs saw as a file is kept as they saw it.
\* The kata kept is the one that was loaded, unless it was edited before
\* copyKata read it again (layout.go:194): then the run keeps the kata as edited,
\* though it ran the one loaded and no check has seen the other.
RecordIsComplete ==
  \A r \in Run : record[r] # "none" =>
    /\ record[r] = "whole"
    /\ loaded[r] \in Valid
    /\ holds[r] = {"log", "kata", "params", "skills"}
    /\ kept[r] # 0 /\ (r \notin edited => kept[r] = loaded[r])
    /\ expandsTo[r] = "the-snapshot" => snap[r] # 0

\* What a run says as it ends is what its directory shows: the directory is
\* named exactly if it exists, there is none for a kata that was not valid,
\* and the codes 0 and 2 are those of a record with that outcome, 1 that of
\* no record or of a cancelled run.
ExitTellsTheDir ==
  \A r \in Run : pc[r] = "exited" =>
    /\ printed[r] = dir[r]
    /\ loaded[r] = 0 => dir[r] = "none"
    /\ code[r] = 0 => record[r] = "whole" /\ outcome[r] = "succeeded"
    /\ code[r] = 2 => record[r] = "whole" /\ outcome[r] = "parked"
    /\ code[r] = 1 => record[r] = "none" \/ r \in cancelled

=============================================================================
