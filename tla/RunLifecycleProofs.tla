------------------------- MODULE RunLifecycleProofs -------------------------
(* For any number of runs, ids, versions and attempts: that runs never share *)
(* a directory, that a record.json is of a whole run, and that what a run    *)
(* says as it ends is what its directory shows.  A step is one run's, or an  *)
(* edit of the inputs: of the others it changes only which ids are taken.    *)
EXTENDS RunLifecycle, TLAPS

-----------------------------------------------------------------------------
(* Why it holds: the inductive invariant.                                  *)

Places ==
  {"prepare", "claim", "log", "copy", "stat", "read", "fetch", "jobs", "stage",
   "install", "finish", "exited", "killed"}

Parts == {"log", "kata", "params", "skills"}

Typed ==
  /\ kata \in File /\ param \in File /\ dirs \subseteq Id /\ edited \subseteq Run
  /\ pc \in [Run -> Places]
  /\ dir \in [Run -> Id \cup {"none"}]
  /\ loaded \in [Run -> File]
  /\ holds \in [Run -> SUBSET Parts]
  /\ kept \in [Run -> File] /\ snap \in [Run -> File]
  /\ expandsTo \in [Run -> {"nothing", "the-value", "the-snapshot"}]
  /\ outcome \in [Run -> {"unset", "succeeded", "parked"}]
  /\ record \in [Run -> {"none", "whole"}]
  /\ printed \in [Run -> Id \cup {"none"}]
  /\ code \in [Run -> {0, 1, 2, 9}]
  /\ cancelled \subseteq Run

\* The directory a run got is taken, and it got it after a valid kata.
DirInv(r) ==
  /\ dir[r] # "none" => dir[r] \in dirs
  /\ pc[r] \in {"prepare", "claim"} => dir[r] = "none"
  /\ loaded[r] = 0 => dir[r] = "none"
  /\ pc[r] \notin {"prepare", "exited", "killed"} => loaded[r] \in Valid

\* What is in it so far.
SetupInv(r) ==
  /\ pc[r] \in {"prepare", "claim", "log"} => holds[r] = {}
  /\ pc[r] = "copy" => holds[r] = {"log"}
  /\ pc[r] \in {"stat", "read"} => holds[r] = {"log", "kata"}
  /\ pc[r] = "fetch" => holds[r] = {"log", "kata", "params"}
  /\ pc[r] \in {"jobs", "stage", "install", "finish"} => holds[r] = Parts
  /\ pc[r] \in {"stat", "read", "fetch", "jobs", "stage", "install", "finish"} =>
       kept[r] # 0 /\ (r \notin edited => kept[r] = loaded[r])
  /\ pc[r] \in {"claim", "log", "copy"} /\ r \notin edited => loaded[r] = kata
  /\ expandsTo[r] = "the-snapshot" => snap[r] # 0

RecordInv(r) ==
  /\ pc[r] \notin {"finish", "exited", "killed"} => record[r] = "none"
  /\ pc[r] = "finish" => record[r] = "whole" /\ outcome[r] \in {"succeeded", "parked"}
  /\ pc[r] \in {"stage", "install"} => outcome[r] \in {"succeeded", "parked"}
  /\ record[r] # "none" =>
       /\ record[r] = "whole" /\ loaded[r] \in Valid /\ holds[r] = Parts
       /\ kept[r] # 0 /\ (r \notin edited => kept[r] = loaded[r])

ExitInv(r) ==
  pc[r] = "exited" =>
    /\ printed[r] = dir[r]
    /\ code[r] = 0 => record[r] = "whole" /\ outcome[r] = "succeeded"
    /\ code[r] = 2 => record[r] = "whole" /\ outcome[r] = "parked"
    /\ code[r] = 1 => record[r] = "none" \/ r \in cancelled

RunInv(r) == DirInv(r) /\ SetupInv(r) /\ RecordInv(r) /\ ExitInv(r)

IInv == Typed /\ (\A r \in Run : RunInv(r)) /\ OneRunPerDir

-----------------------------------------------------------------------------
(* A step of one run.                                                      *)

RunStep(r) ==
  \/ Fails(r) \/ Prepare(r) \/ Claim(r) \/ ClaimTaken(r) \/ OpenLog(r)
  \/ CopyKata(r) \/ StatValue(r) \/ StatFile(r) \/ ReadFile(r)
  \/ FetchSkills(r) \/ RunJobs(r) \/ Stage(r) \/ Install(r) \/ Finish(r)
  \/ Cancel(r) \/ Kill(r)

SameElsewhere(r) ==
  /\ dirs \subseteq dirs' /\ UNCHANGED inputVars
  /\ \A s \in Run \ {r} :
       /\ pc'[s] = pc[s] /\ dir'[s] = dir[s] /\ loaded'[s] = loaded[s]
       /\ holds'[s] = holds[s] /\ kept'[s] = kept[s] /\ snap'[s] = snap[s]
       /\ expandsTo'[s] = expandsTo[s] /\ outcome'[s] = outcome[s]
       /\ record'[s] = record[s] /\ printed'[s] = printed[s]
       /\ code'[s] = code[s] /\ (s \in cancelled' <=> s \in cancelled)

(* It is about that run alone, but for the id it takes, and claims no        *)
(* directory that is another's.                                              *)
LEMMA OneRunMoves ==
  ASSUME IInv, NEW r \in Run, RunStep(r)
  PROVE  /\ Typed' /\ SameElsewhere(r)
         /\ Claim(r) \/ dir' = dir
<1> USE DEF inputVars, dirVars, setupVars, endVars, Step, Puts, Exit
<1>0. Typed /\ Valid \subseteq File
  BY ValidAssumption, BoundsAssumption DEF IInv, File, Version
<1>1. CASE Fails(r) \/ Finish(r)
  BY <1>0, <1>1 DEF Fails, Finish, Typed, SameElsewhere, Places
<1>2. CASE Prepare(r)
  BY <1>0, <1>2 DEF Prepare, Typed, SameElsewhere, Places
<1>3. CASE Claim(r)
  <2>1. PICK id \in Id \ dirs :
          /\ dirs' = dirs \cup {id} /\ dir' = [dir EXCEPT ![r] = id]
          /\ pc' = [pc EXCEPT ![r] = "log"]
          /\ UNCHANGED <<inputVars, loaded, tries, setupVars, outcome, record,
                         cancelled, endVars>>
    BY <1>3 DEF Claim
  <2>2. Typed'
    BY <1>0, <2>1 DEF Typed, Places
  <2>3. SameElsewhere(r)
    BY <1>0, <2>1 DEF Typed, SameElsewhere
  <2> QED BY <1>3, <2>2, <2>3
<1>4. CASE ClaimTaken(r)
  BY <1>0, <1>4 DEF ClaimTaken, Typed, SameElsewhere, Places
<1>5. CASE OpenLog(r)
  BY <1>0, <1>5 DEF OpenLog, Typed, SameElsewhere, Places, Parts
<1>6. CASE CopyKata(r)
  BY <1>0, <1>6 DEF CopyKata, Typed, SameElsewhere, Places, Parts
<1>7. CASE StatValue(r)
  BY <1>0, <1>7 DEF StatValue, Typed, SameElsewhere, Places, Parts
<1>8. CASE StatFile(r)
  BY <1>0, <1>8 DEF StatFile, Typed, SameElsewhere, Places, Parts
<1>9. CASE ReadFile(r)
  BY <1>0, <1>9 DEF ReadFile, Typed, SameElsewhere, Places, Parts
<1>10. CASE FetchSkills(r)
  BY <1>0, <1>10 DEF FetchSkills, Typed, SameElsewhere, Places, Parts
<1>11. CASE RunJobs(r)
  BY <1>0, <1>11 DEF RunJobs, Typed, SameElsewhere, Places
<1>12. CASE Stage(r) \/ Install(r)
  BY <1>0, <1>12 DEF Stage, Install, Typed, SameElsewhere, Places
<1>13. CASE Cancel(r) \/ Kill(r)
  BY <1>0, <1>13 DEF Cancel, Kill, Typed, SameElsewhere, Places
<1> QED BY <1>1, <1>2, <1>3, <1>4, <1>5, <1>6, <1>7, <1>8, <1>9, <1>10, <1>11,
           <1>12, <1>13 DEF RunStep

(* What it keeps of its own run.                                             *)
LEMMA OwnRun ==
  ASSUME IInv, NEW r \in Run, RunStep(r)
  PROVE  RunInv(r)'
<1> USE DEF inputVars, dirVars, setupVars, endVars, Step, Puts, Exit, Typed, Places, Parts,
            RunInv, DirInv, SetupInv, RecordInv, ExitInv
<1>0. Typed /\ RunInv(r) /\ 0 \notin Valid
  BY ValidAssumption DEF IInv, Version
<1>1. CASE Fails(r)
  BY <1>0, <1>1 DEF Fails
<1>2. CASE Prepare(r)
  BY <1>0, <1>2 DEF Prepare
<1>3. CASE Claim(r)
  BY <1>0, <1>3 DEF Claim
<1>4. CASE ClaimTaken(r)
  BY <1>0, <1>4 DEF ClaimTaken
<1>5. CASE OpenLog(r)
  BY <1>0, <1>5 DEF OpenLog
<1>6. CASE CopyKata(r)
  BY <1>0, <1>6 DEF CopyKata
<1>7. CASE StatValue(r)
  BY <1>0, <1>7 DEF StatValue
<1>8. CASE StatFile(r)
  BY <1>0, <1>8 DEF StatFile
<1>9. CASE ReadFile(r)
  BY <1>0, <1>9 DEF ReadFile
<1>10. CASE FetchSkills(r)
  BY <1>0, <1>10 DEF FetchSkills
<1>11. CASE RunJobs(r)
  BY <1>0, <1>11 DEF RunJobs
<1>12. CASE Stage(r)
  BY <1>0, <1>12 DEF Stage
<1>13. CASE Install(r)
  BY <1>0, <1>13 DEF Install
<1>14. CASE Finish(r)
  BY <1>0, <1>14 DEF Finish
<1>15. CASE Cancel(r) \/ Kill(r)
  BY <1>0, <1>15 DEF Cancel, Kill
<1> QED BY <1>1, <1>2, <1>3, <1>4, <1>5, <1>6, <1>7, <1>8, <1>9, <1>10, <1>11,
           <1>12, <1>13, <1>14, <1>15 DEF RunStep

LEMMA InitIInv == Init => IInv
<1> SUFFICES ASSUME Init PROVE IInv
  OBVIOUS
<1>1. Typed
  BY BoundsAssumption DEF Init, Typed, Places, File
<1>2. ASSUME NEW r \in Run PROVE RunInv(r)
  BY DEF Init, RunInv, DirInv, SetupInv, RecordInv, ExitInv
<1>3. OneRunPerDir
  BY DEF Init, OneRunPerDir
<1> QED BY <1>1, <1>2, <1>3 DEF IInv

LEMMA NextIInv == IInv /\ [Next]_vars => IInv'
<1> SUFFICES ASSUME IInv, [Next]_vars PROVE IInv'
  OBVIOUS
<1> USE DEF inputVars, dirVars, setupVars, endVars
<1>1. CASE Edit \/ UNCHANGED vars
  BY <1>1 DEF Edit, vars, IInv, Typed, OneRunPerDir, RunInv, DirInv, SetupInv,
    RecordInv, ExitInv
<1>2. ASSUME NEW r \in Run, RunStep(r)
      PROVE  IInv'
  <2>1. Typed' /\ SameElsewhere(r) /\ RunInv(r)' /\ (Claim(r) \/ dir' = dir)
    BY <1>2, OneRunMoves, OwnRun
  <2>2. ASSUME NEW s \in Run \ {r} PROVE RunInv(s)'
    <3>1. RunInv(s)
      BY DEF IInv
    <3> QED BY <2>1, <3>1 DEF SameElsewhere, RunInv, DirInv, SetupInv, RecordInv,
      ExitInv
  <2>3. CASE Claim(r)
    <3>1. /\ dir'[r] \notin dirs
          /\ \A s \in Run \ {r} :
               dir'[s] = dir[s] /\ (dir'[s] = "none" \/ dir'[s] # dir'[r])
      BY <2>1, <2>3 DEF Claim, IInv, Typed, RunInv, DirInv, SameElsewhere
    <3> QED BY <2>1, <2>2, <3>1 DEF IInv, OneRunPerDir, SameElsewhere
  <2>4. CASE dir' = dir
    BY <2>1, <2>2, <2>4 DEF IInv, OneRunPerDir
  <2> QED BY <2>1, <2>3, <2>4
<1> QED BY <1>1, <1>2 DEF Next, RunStep

(* A run's directory, record and printed name are what it had got to, whatever *)
(* other runs, kills and edits of its inputs came in between.                *)
THEOREM Invariance == Spec => []IInv
BY InitIInv, NextIInv, PTL DEF Spec

-----------------------------------------------------------------------------
(* What follows from it.                                                   *)

(* Runs started side by side never share a directory, however many ids are   *)
(* already taken and wherever each of them was killed.                       *)
THEOREM RunsNeverShareADir == Spec => []OneRunPerDir
<1>1. IInv => OneRunPerDir
  BY DEF IInv
<1> QED BY <1>1, Invariance, PTL

(* A record.json is a whole one, of a run whose kata was valid and whose     *)
(* directory has each of its parts, whatever was edited or killed in between;*)
(* the kata in it is the one loaded, unless it was edited before its copy.   *)
THEOREM RecordsAreComplete == Spec => []RecordIsComplete
<1>1. IInv => RecordIsComplete
  BY DEF IInv, RunInv, RecordInv, SetupInv, RecordIsComplete, Parts
<1> QED BY <1>1, Invariance, PTL

(* The directory a run names and its exit code are what its directory shows. *)
THEOREM ExitsTellTheDir == Spec => []ExitTellsTheDir
<1>1. IInv => ExitTellsTheDir
  BY DEF IInv, RunInv, DirInv, ExitInv, ExitTellsTheDir
<1> QED BY <1>1, Invariance, PTL

=============================================================================
