----------------------------- MODULE SkillFetch -----------------------------
(***************************************************************************)
(* Skills, from the kata to an executor's HOME: the engine snapshots every *)
(* declared skill into the run dir once, before any job starts, and copies *)
(* the snapshots into each executor's HOME as it starts.                   *)
(* internal/engine/skills.go: fetchSkills, fetchAll, fetch, resolve,       *)
(* shallowClone, materializeSkills.                                        *)
(*                                                                         *)
(* An entry is a local directory or a GitHub tree URL.  What it names can  *)
(* change at any time: head[e] is its present version.  git is a process   *)
(* with a helper of its own (git-remote-https); nothing obliges either to  *)
(* end.                                                                    *)
(***************************************************************************)
EXTENDS Naturals, Sequences, FiniteSets

CONSTANTS
  Entry,       \* skill entries, as the kata spells them
  Remote,      \* the tree URLs among them
  Name,        \* directory names
  NameOf,      \* NameOf[e]: the last element of e's path
  Jobs,        \* how many jobs have an executor
  SkillLists,  \* the skill lists a merged profile may hold
  MaxVersion   \* bound: changes of what one entry names

ASSUME RemoteAssumption == Remote \subseteq Entry
ASSUME NameAssumption == NameOf \in [Entry -> Name]
ASSUME JobsAssumption == Jobs \in Nat /\ SkillLists \subseteq Seq(Entry)
ASSUME MaxVersionAssumption == MaxVersion \in Nat \ {0}

Job == 1 .. Jobs   \* in name order, as Jobs() walks them
Version == 1 .. MaxVersion

VARIABLES
  skills,    \* skills[j]: job j's Executor.Skills
  head,      \* head[e]: the version e names now
  cancelled, \* the run's context is done
  pc,        \* where fetchSkills is
  job, item, \* fetchAll's position: an index in Job and in skills[job]
  git,       \* "off", "running", "killed" with its helper alive
  clones,    \* entries whose temporary clone is on disk
  held,      \* the version in the directory resolve found
  sha,       \* the version rev-parse reported
  owner,     \* owner[n]: the entry whose snapshot is called n, "none" if none
  snapshot,  \* snapshot[e]: the version in e's snapshot, 0 for none
  source,    \* source[e]: the version the record will name, 0 for none
  phase,     \* phase[j]: how far job j's executor is
  copied,    \* copied[j]: how many of its skills are in its HOME
  home       \* home[j]: name -> version in the harness's skills directory

fetchVars == <<pc, job, item, git, clones, held, sha, owner, snapshot, source>>
jobVars == <<phase, copied, home>>
vars == <<skills, head, cancelled, fetchVars, jobVars>>

Init ==
  /\ skills \in [Job -> SkillLists]
  /\ head = [e \in Entry |-> 1]
  /\ cancelled = FALSE
  /\ pc = "next"
  /\ job = 1 /\ item = 1
  /\ git = "off"
  /\ clones = {}
  /\ held = 0 /\ sha = 0
  /\ owner = [n \in Name |-> "none"]
  /\ snapshot = [e \in Entry |-> 0]
  /\ source = [e \in Entry |-> 0]
  /\ phase = [j \in Job |-> "waiting"]
  /\ copied = [j \in Job |-> 0]
  /\ home = [j \in Job |-> [n \in Name |-> 0]]

-----------------------------------------------------------------------------
(* fetchSkills, fetchAll: every entry of every job, once.                  *)

Under == skills[job][item]

\* Mutant: the next job's entries are not walked from the first.
NextJobKeepsItem ==
  /\ pc = "next"
  /\ job <= Jobs
  /\ item = Len(skills[job]) + 1
  /\ job' = job + 1
  /\ UNCHANGED <<skills, head, cancelled, pc, item, git, clones, held, sha,
                 owner, snapshot, source, jobVars>>

\* A job's entries are through: the next job's, or done.
NextJob ==
  /\ pc = "next"
  /\ job <= Jobs
  /\ item = Len(skills[job]) + 1
  /\ job' = job + 1
  /\ item' = 1
  /\ UNCHANGED <<skills, head, cancelled, pc, git, clones, held, sha, owner,
                 snapshot, source, jobVars>>

Fetched ==
  /\ pc = "next"
  /\ job = Jobs + 1
  /\ pc' = "fetched"
  /\ UNCHANGED <<skills, head, cancelled, job, item, git, clones, held, sha,
                 owner, snapshot, source, jobVars>>

\* An entry another job, or this one, already has.
SkipEntry ==
  /\ pc = "next"
  /\ job <= Jobs
  /\ item <= Len(skills[job])
  /\ snapshot[Under] # 0
  /\ item' = item + 1
  /\ UNCHANGED <<skills, head, cancelled, pc, job, git, clones, held, sha,
                 owner, snapshot, source, jobVars>>

\* resolve: a local path is its own directory; its clone for a tree URL, or
\* no directory to clone into.
Resolve ==
  /\ pc = "next"
  /\ job <= Jobs
  /\ item <= Len(skills[job])
  /\ snapshot[Under] = 0
  /\ \/ Under \notin Remote /\ pc' = "copy" /\ UNCHANGED clones
     \/ Under \in Remote /\ pc' = "clone" /\ clones' = clones \cup {Under}
     \/ Under \in Remote /\ pc' = "failed" /\ UNCHANGED clones
  /\ UNCHANGED <<skills, head, cancelled, job, item, git, held, sha, owner,
                 snapshot, source, jobVars>>

-----------------------------------------------------------------------------
(* shallowClone, with a context and neither a timeout nor a group.         *)

StartGit ==
  /\ pc = "clone" /\ git = "off"
  /\ ~cancelled
  /\ git' = "running"
  /\ UNCHANGED <<skills, head, cancelled, pc, job, item, clones, held, sha,
                 owner, snapshot, source, jobVars>>

\* The ref is in the clone, at the version it names as git asks.
GitClones ==
  /\ pc = "clone" /\ git = "running"
  /\ git' = "off"
  /\ held' = head[Under]
  /\ pc' = "rev-parse"
  /\ UNCHANGED <<skills, head, cancelled, job, item, clones, sha, owner,
                 snapshot, source, jobVars>>

\* Mutant: the error of the clone is returned and the clone left.
GitFailsUncleaned ==
  /\ pc = "clone"
  /\ git = "running" \/ (git = "off" /\ cancelled)
  /\ git' = "off"
  /\ pc' = "failed"
  /\ UNCHANGED <<clones, skills, head, cancelled, job, item, held, sha, owner,
                 snapshot, source, jobVars>>

\* git fails, or is not started for a done context.  resolve cleans up.
GitFails ==
  /\ pc = "clone"
  /\ git = "running" \/ (git = "off" /\ cancelled)
  /\ git' = "off"
  /\ pc' = "failed"
  /\ clones' = clones \ {Under}
  /\ UNCHANGED <<skills, head, cancelled, job, item, held, sha, owner,
                 snapshot, source, jobVars>>

\* The context ends: git alone is killed, its helper keeps the output pipe
\* CombinedOutput reads to its end.
KillGit ==
  /\ git = "running"
  /\ cancelled
  /\ git' = "killed"
  /\ UNCHANGED <<skills, head, cancelled, pc, job, item, clones, held, sha,
                 owner, snapshot, source, jobVars>>

HelperExits ==
  /\ git = "killed"
  /\ git' = "off"
  /\ UNCHANGED <<skills, head, cancelled, pc, job, item, clones, held, sha,
                 owner, snapshot, source, jobVars>>

\* rev-parse HEAD in the clone ...
RevParse ==
  /\ pc = "rev-parse"
  /\ ~cancelled
  /\ sha' = held
  /\ pc' = "copy"
  /\ UNCHANGED <<skills, head, cancelled, job, item, git, clones, held, owner,
                 snapshot, source, jobVars>>

\* ... or it fails, or the context is done.  resolve cleans up.
RevParseFails ==
  /\ pc = "rev-parse"
  /\ pc' = "failed"
  /\ clones' = clones \ {Under}
  /\ UNCHANGED <<skills, head, cancelled, job, item, git, held, sha, owner,
                 snapshot, source, jobVars>>

-----------------------------------------------------------------------------
(* fetch: the snapshot.  Its deferred cleanup removes the clone.           *)

\* The name is free and the copy succeeds.  A local skill is copied as it is
\* now, and its source is its path.
Copy ==
  /\ pc = "copy"
  /\ owner[NameOf[Under]] = "none"
  /\ LET version == IF Under \in Remote THEN held ELSE head[Under]
     IN  snapshot' = [snapshot EXCEPT ![Under] = version]
  /\ source' = [source EXCEPT ![Under] = IF Under \in Remote THEN sha ELSE 0]
  /\ owner' = [owner EXCEPT ![NameOf[Under]] = Under]
  /\ clones' = clones \ {Under}
  /\ item' = item + 1
  /\ pc' = "next"
  /\ UNCHANGED <<skills, head, cancelled, job, git, held, sha, jobVars>>

\* Two entries share a directory name, or the directory is not there or
\* cannot be copied.
CopyFails ==
  /\ pc = "copy"
  /\ pc' = "failed"
  /\ clones' = clones \ {Under}
  /\ UNCHANGED <<skills, head, cancelled, job, item, git, held, sha, owner,
                 snapshot, source, jobVars>>

-----------------------------------------------------------------------------
(* materializeSkills, for each job as its executor starts.                 *)

Copying(j) ==
  /\ pc = "fetched"
  /\ phase[j] = "waiting"
  /\ copied[j] < Len(skills[j])

NextSkill(j) == skills[j][copied[j] + 1]

\* Mutant: the skill is taken from where it came from, as resolve finds it.
MaterializeFromSource(j) ==
  /\ Copying(j)
  /\ home[j][NameOf[NextSkill(j)]] = 0
  /\ home' = [home EXCEPT ![j][NameOf[NextSkill(j)]] = head[NextSkill(j)]]
  /\ copied' = [copied EXCEPT ![j] = @ + 1]
  /\ UNCHANGED <<skills, head, cancelled, fetchVars, phase>>

Materialize(j) ==
  /\ Copying(j)
  /\ home[j][NameOf[NextSkill(j)]] = 0
  /\ home' = [home EXCEPT ![j][NameOf[NextSkill(j)]] = snapshot[NextSkill(j)]]
  /\ copied' = [copied EXCEPT ![j] = @ + 1]
  /\ UNCHANGED <<skills, head, cancelled, fetchVars, phase>>

\* os.CopyFS writes over nothing: the name is there already.
MaterializeClashes(j) ==
  /\ Copying(j)
  /\ home[j][NameOf[NextSkill(j)]] # 0
  /\ phase' = [phase EXCEPT ![j] = "clashed"]
  /\ UNCHANGED <<skills, head, cancelled, fetchVars, copied, home>>

MaterializeFails(j) ==
  /\ Copying(j)
  /\ phase' = [phase EXCEPT ![j] = "parked"]
  /\ UNCHANGED <<skills, head, cancelled, fetchVars, copied, home>>

StartExecutor(j) ==
  /\ pc = "fetched"
  /\ phase[j] = "waiting"
  /\ copied[j] = Len(skills[j])
  /\ phase' = [phase EXCEPT ![j] = "running"]
  /\ UNCHANGED <<skills, head, cancelled, fetchVars, copied, home>>

-----------------------------------------------------------------------------

\* Somebody pushes to the ref, or edits the directory.
Push(e) ==
  /\ head[e] < MaxVersion
  /\ head' = [head EXCEPT ![e] = @ + 1]
  /\ UNCHANGED <<skills, cancelled, fetchVars, jobVars>>

Cancel ==
  /\ ~cancelled
  /\ cancelled' = TRUE
  /\ UNCHANGED <<skills, head, fetchVars, jobVars>>

\* fetchSkills has failed, or every executor has its skills.
Over ==
  /\ \/ pc = "failed"
     \/ pc = "fetched" /\ \A j \in Job : phase[j] # "waiting"
  /\ UNCHANGED vars

\* What the engine does by itself; what git and its helper do is up to them.
Engine ==
  \/ NextJob \/ Fetched \/ SkipEntry \/ Resolve
  \/ StartGit \/ (GitFails /\ git = "off") \/ KillGit
  \/ RevParse \/ RevParseFails \/ Copy \/ CopyFails

Next ==
  \/ Engine
  \/ GitClones \/ GitFails \/ HelperExits
  \/ \E j \in Job :
       \/ Materialize(j) \/ MaterializeClashes(j) \/ MaterializeFails(j)
       \/ StartExecutor(j)
  \/ \E e \in Entry : Push(e)
  \/ Cancel
  \/ Over

Spec == Init /\ [][Next]_vars

-----------------------------------------------------------------------------
(* What skills owe.                                                        *)

Returned == pc \in {"fetched", "failed"}

\* Every variable keeps its type.
TypeOK ==
  /\ skills \in [Job -> SkillLists]
  /\ head \in [Entry -> Version]
  /\ cancelled \in BOOLEAN
  /\ pc \in {"next", "clone", "rev-parse", "copy", "fetched", "failed"}
  /\ job \in 1 .. Jobs + 1
  /\ item \in Nat \ {0}
  /\ job <= Jobs => item <= Len(skills[job]) + 1
  /\ git \in {"off", "running", "killed"}
  /\ clones \subseteq Remote
  /\ held \in 0 .. MaxVersion /\ sha \in 0 .. MaxVersion
  /\ owner \in [Name -> Entry \cup {"none"}]
  /\ snapshot \in [Entry -> 0 .. MaxVersion]
  /\ source \in [Entry -> 0 .. MaxVersion]
  /\ phase \in [Job -> {"waiting", "running", "clashed", "parked"}]
  /\ \A j \in Job : copied[j] \in 0 .. Len(skills[j])
  /\ home \in [Job -> [Name -> 0 .. MaxVersion]]

\* Whichever step of a fetch failed or was cancelled, no clone, and no git,
\* outlives it.
NoCloneLeftBehind == Returned => clones = {} /\ git = "off"

\* An executor starts with every skill its job declares, each as it was at run
\* start - in the version the record names, and all jobs in the same one,
\* however far the ref has moved between the clone, its rev-parse, the copy
\* and the job's own start.
JobsRunTheRecordedSkills ==
  \A j \in Job : phase[j] = "running" =>
    \A i \in 1 .. Len(skills[j]) :
      LET e == skills[j][i] IN
      /\ snapshot[e] # 0
      /\ home[j][NameOf[e]] = snapshot[e]
      /\ e \in Remote => source[e] = snapshot[e]

-----------------------------------------------------------------------------
(* What a comment says, and the code does not do.                          *)

\* engine.go:107: "prepare loads the kata and binds its params, rejecting what
\* would fail mid-run before anything is created."
NoSkillClashesMidRun == \A j \in Job : phase[j] # "clashed"

=============================================================================
