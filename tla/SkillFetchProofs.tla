-------------------------- MODULE SkillFetchProofs --------------------------
(* For any jobs, skill lists and versions: that no clone or git outlives the *)
(* fetch, and that an executor starts with every skill its job declares, in  *)
(* the version the record names.                                             *)
EXTENDS SkillFetch, TLAPS

-----------------------------------------------------------------------------
(* Why it holds: the inductive invariant.                                  *)

\* What entry e's snapshot holds is what the record names.
Snapped(e) == snapshot[e] # 0 /\ (e \in Remote => source[e] = snapshot[e])

\* The entry being fetched has the one clone there is, and git is its clone's;
\* what the clone holds is what rev-parse reported.
FetchInv ==
  /\ pc \in {"clone", "rev-parse", "copy"} =>
       job <= Jobs /\ item <= Len(skills[job]) /\ clones \subseteq {Under}
  /\ pc \in {"next", "fetched", "failed"} => clones = {}
  /\ pc # "clone" => git = "off"
  /\ pc \in {"clone", "rev-parse"} => Under \in Remote
  /\ pc = "rev-parse" => held # 0
  /\ pc = "copy" /\ Under \in Remote => held # 0 /\ sha = held

\* Every entry the walk is past has its snapshot.
WalkInv ==
  /\ \A k \in Job : \A i \in 1 .. Len(skills[k]) :
       k < job \/ (k = job /\ i < item) => Snapped(skills[k][i])
  /\ \A e \in Entry : snapshot[e] # 0 => Snapped(e)
  /\ pc = "fetched" => job = Jobs + 1

\* What a job has of its skills is their snapshots, each under its name.
HomeInv(j) ==
  /\ copied[j] > 0 \/ phase[j] # "waiting" => pc = "fetched"
  /\ phase[j] = "running" => copied[j] = Len(skills[j])
  /\ \A i \in 1 .. copied[j] :
       home[j][NameOf[skills[j][i]]] = snapshot[skills[j][i]]

IInv ==
  /\ TypeOK /\ copied \in [Job -> Nat]
  /\ FetchInv /\ WalkInv
  /\ \A j \in Job : HomeInv(j)

-----------------------------------------------------------------------------

(* A list holds entries.                                                     *)
LEMMA ListsHoldEntries ==
  ASSUME TypeOK, NEW j \in Job
  PROVE  /\ Len(skills[j]) \in Nat
         /\ \A i \in 1 .. Len(skills[j]) : skills[j][i] \in Entry
<1>1. skills[j] \in Seq(Entry)
  BY JobsAssumption DEF TypeOK
<1> QED BY <1>1

(* The entry under fetch is one.                                             *)
LEMMA UnderIsAnEntry ==
  ASSUME TypeOK, job <= Jobs, item <= Len(skills[job])
  PROVE  /\ job \in Job /\ Under \in Entry /\ Jobs \in Nat
         /\ Len(skills[job]) \in Nat /\ item \in 1 .. Len(skills[job])
<1>1. job \in Job /\ item \in Nat \ {0} /\ Jobs \in Nat
  BY JobsAssumption DEF TypeOK, Job
<1> QED BY <1>1, ListsHoldEntries DEF Under

LEMMA InitIInv == Init => IInv
<1> SUFFICES ASSUME Init PROVE IInv
  OBVIOUS
<1> USE JobsAssumption, MaxVersionAssumption
<1>0. \A j \in Job : Len(skills[j]) \in Nat
  <2> SUFFICES ASSUME NEW j \in Job PROVE Len(skills[j]) \in Nat
    OBVIOUS
  <2>1. skills[j] \in Seq(Entry)
    BY DEF Init
  <2> QED BY <2>1
<1>1. TypeOK
  <2>1. job \in 1 .. Jobs + 1 /\ (job <= Jobs => item <= Len(skills[job]) + 1)
    BY <1>0 DEF Init, Job
  <2>2. \A j \in Job : copied[j] \in 0 .. Len(skills[j])
    BY <1>0 DEF Init
  <2>3. head \in [Entry -> Version]
    BY DEF Init, Version
  <2>4. 0 \in 0 .. MaxVersion
    OBVIOUS
  <2>5. home \in [Job -> [Name -> 0 .. MaxVersion]]
    BY <2>4 DEF Init
  <2>6. /\ snapshot \in [Entry -> 0 .. MaxVersion] /\ source \in [Entry -> 0 .. MaxVersion]
        /\ held \in 0 .. MaxVersion /\ sha \in 0 .. MaxVersion
    BY <2>4 DEF Init
  <2>7. owner \in [Name -> Entry \cup {"none"}]
    BY DEF Init
  <2>8. phase \in [Job -> {"waiting", "running", "clashed", "parked"}]
    BY DEF Init
  <2>9. item \in Nat \ {0} /\ git = "off" /\ pc = "next" /\ clones = {}
    BY DEF Init
  <2>10. skills \in [Job -> SkillLists] /\ cancelled \in BOOLEAN
    <3>1. skills \in [Job -> SkillLists] /\ cancelled = FALSE
      BY Zenon DEF Init
    <3> QED BY <3>1, Zenon
  <2> QED BY <2>1, <2>2, <2>3, <2>5, <2>6, <2>7, <2>8, <2>9, <2>10 DEF TypeOK
<1>2. FetchInv
  BY DEF Init, FetchInv
<1>3. WalkInv
  BY DEF Init, WalkInv, Job
<1>4. copied \in [Job -> Nat] /\ \A j \in Job : HomeInv(j)
  BY DEF Init, HomeInv
<1> QED BY <1>1, <1>2, <1>3, <1>4 DEF IInv

-----------------------------------------------------------------------------
(* fetchSkills.                                                            *)

(* While it runs no job has anything of its skills yet.                      *)
LEMMA NoHomeYet ==
  ASSUME IInv, pc # "fetched", UNCHANGED <<skills, jobVars>>
  PROVE  \A j \in Job : HomeInv(j)'
<1> SUFFICES ASSUME NEW j \in Job PROVE HomeInv(j)'
  OBVIOUS
<1>1. copied[j] \in Nat /\ ~(copied[j] > 0) /\ phase[j] = "waiting"
  BY DEF IInv, HomeInv
<1>2. copied[j] = 0
  BY <1>1
<1> QED BY <1>1, <1>2 DEF HomeInv, jobVars

LEMMA FetchKeepsIInv ==
  ASSUME IInv,
         \/ NextJob \/ Fetched \/ SkipEntry \/ Resolve
         \/ StartGit \/ GitClones \/ GitFails \/ KillGit \/ HelperExits
         \/ RevParse \/ RevParseFails \/ Copy \/ CopyFails
  PROVE  IInv'
<1> USE DEF jobVars
<1>0. /\ TypeOK /\ copied \in [Job -> Nat] /\ FetchInv /\ WalkInv
      /\ Jobs \in Nat /\ MaxVersion \in Nat \ {0}
  BY JobsAssumption, MaxVersionAssumption DEF IInv
<1>l. /\ \A j \in Job : Len(skills[j]) \in Nat
      /\ job <= Jobs => job \in Job
  BY <1>0, ListsHoldEntries DEF TypeOK, Job
<1>g. pc # "fetched" /\ UNCHANGED <<skills, head, cancelled, jobVars>>
  BY <1>0 DEF FetchInv, NextJob, Fetched, SkipEntry, Resolve, StartGit, GitClones, GitFails,
    KillGit, HelperExits, RevParse, RevParseFails, Copy, CopyFails
<1>h. /\ pc # "fetched" /\ UNCHANGED <<skills, head, cancelled, jobVars>>
      /\ copied' \in [Job -> Nat]
  BY <1>0, <1>g
<1>j. \A j \in Job : HomeInv(j)'
  BY <1>h, NoHomeYet
<1>1. CASE NextJob
  <2>1. job' = job + 1 /\ item' = 1 /\ job \in Job /\ item = Len(skills[job]) + 1
    BY <1>0, <1>l, <1>1 DEF NextJob
  <2>2. TypeOK'
    <3>1. job' \in 1 .. Jobs + 1 /\ item' \in Nat \ {0}
      BY <1>0, <1>1, <2>1 DEF NextJob, TypeOK
    <3>2. job' <= Jobs => item' <= Len(skills[job']) + 1
      BY <1>0, <1>l, <2>1, <3>1 DEF Job
    <3> QED BY <1>0, <1>1, <1>h, <3>1, <3>2 DEF NextJob, TypeOK
  <2>3. FetchInv'
    BY <1>0, <1>1 DEF NextJob, FetchInv
  <2>4. WalkInv'
    <3>1. ASSUME NEW k \in Job, NEW i \in 1 .. Len(skills[k]),
                 k < job' \/ (k = job' /\ i < item')
          PROVE  Snapped(skills[k][i])
      <4>1. k < job \/ (k = job /\ i < item)
        BY <1>0, <1>l, <2>1, <3>1 DEF Job, TypeOK
      <4> QED BY <1>0, <4>1 DEF WalkInv
    <3> QED BY <1>0, <1>1, <3>1 DEF NextJob, WalkInv, Snapped
  <2> QED BY <1>h, <1>j, <2>2, <2>3, <2>4 DEF IInv
<1>2. CASE Fetched
  <2>1. TypeOK' /\ FetchInv'
    BY <1>0, <1>h, <1>2 DEF Fetched, TypeOK, FetchInv
  <2>2. WalkInv'
    BY <1>0, <1>2 DEF Fetched, WalkInv, Snapped
  <2> QED BY <1>h, <1>j, <2>1, <2>2 DEF IInv
<1>3. CASE SkipEntry
  <2>0. /\ job \in Job /\ Under \in Entry /\ item \in 1 .. Len(skills[job])
        /\ item' = item + 1 /\ job' = job
    BY <1>0, <1>3, UnderIsAnEntry DEF SkipEntry
  <2>1. TypeOK'
    BY <1>0, <1>l, <1>h, <1>3, <2>0 DEF SkipEntry, TypeOK
  <2>2. FetchInv'
    BY <1>0, <1>3 DEF SkipEntry, FetchInv
  <2>3. Snapped(Under)
    BY <1>0, <1>3, <2>0 DEF SkipEntry, WalkInv
  <2>4. ASSUME NEW k \in Job, NEW i \in 1 .. Len(skills[k]),
               k < job' \/ (k = job' /\ i < item')
        PROVE  Snapped(skills[k][i])
    <3>1. CASE k = job /\ i = item
      BY <2>3, <3>1 DEF Under
    <3>2. CASE ~(k = job /\ i = item)
      <4>1. k < job \/ (k = job /\ i < item)
        BY <1>l, <2>0, <2>4, <3>2
      <4> QED BY <1>0, <4>1 DEF WalkInv
    <3> QED BY <3>1, <3>2
  <2>5. WalkInv'
    BY <1>0, <1>3, <2>4 DEF SkipEntry, WalkInv, Snapped
  <2> QED BY <1>h, <1>j, <2>1, <2>2, <2>5 DEF IInv
<1>4. CASE Resolve
  <2>0. job \in Job /\ Under \in Entry /\ Under' = Under
    BY <1>0, <1>4, UnderIsAnEntry DEF Resolve, Under
  <2>1. TypeOK'
    BY <1>0, <1>h, <1>4, <2>0 DEF Resolve, TypeOK
  <2>2. FetchInv'
    BY <1>0, <1>4, <2>0 DEF Resolve, FetchInv
  <2>3. WalkInv'
    BY <1>0, <1>4 DEF Resolve, WalkInv, Snapped
  <2> QED BY <1>h, <1>j, <2>1, <2>2, <2>3 DEF IInv
<1>5. CASE \/ StartGit \/ GitClones \/ GitFails \/ KillGit \/ HelperExits
           \/ RevParse \/ RevParseFails \/ CopyFails
  <2> USE DEF StartGit, GitClones, GitFails, KillGit, HelperExits, RevParse,
              RevParseFails, CopyFails
  <2>0. /\ pc \in {"clone", "rev-parse", "copy"}
        /\ UNCHANGED <<job, item, owner, snapshot, source>> /\ Under' = Under
    BY <1>0, <1>5 DEF FetchInv, Under
  <2>1. job \in Job /\ Under \in Entry
    BY <1>0, <2>0, UnderIsAnEntry DEF FetchInv
  <2>2. held' \in 0 .. MaxVersion /\ (GitClones => held' # 0)
    BY <1>0, <1>5, <2>1 DEF TypeOK, Version
  <2>3. TypeOK'
    BY <1>0, <1>h, <1>5, <2>0, <2>1, <2>2 DEF TypeOK
  <2>4. FetchInv'
    BY <1>0, <1>h, <1>5, <2>0, <2>1, <2>2 DEF FetchInv
  <2>5. WalkInv' /\ pc' # "fetched"
    BY <1>0, <1>h, <1>5, <2>0 DEF WalkInv, Snapped
  <2> QED BY <1>h, <1>j, <2>3, <2>4, <2>5 DEF IInv
<1>6. CASE Copy
  <2> DEFINE version == IF Under \in Remote THEN held ELSE head[Under]
  <2>0. /\ job \in Job /\ Under \in Entry /\ item \in 1 .. Len(skills[job])
        /\ item' = item + 1 /\ job' = job /\ NameOf[Under] \in Name
    BY <1>0, <1>6, UnderIsAnEntry, NameAssumption DEF Copy, FetchInv
  <2>1. /\ version \in 1 .. MaxVersion
        /\ Under \in Remote => sha = version
    BY <1>0, <1>6, <2>0 DEF Copy, FetchInv, TypeOK, Version
  <2>2. /\ snapshot' = [snapshot EXCEPT ![Under] = version]
        /\ source' = [source EXCEPT ![Under] = IF Under \in Remote THEN sha ELSE 0]
    BY <1>6 DEF Copy
  <2> HIDE DEF version
  <2>3. /\ snapshot'[Under] # 0
        /\ Under \in Remote => source'[Under] = snapshot'[Under]
    <3>1. snapshot'[Under] = version /\ (Under \in Remote => source'[Under] = sha)
      BY <1>0, <2>0, <2>2 DEF TypeOK
    <3> QED BY <2>1, <3>1
  <2>4. \A e \in Entry : e # Under => snapshot'[e] = snapshot[e] /\ source'[e] = source[e]
    BY <1>0, <2>0, <2>2 DEF TypeOK
  <2>5. ASSUME NEW e \in Entry, Snapped(e) \/ e = Under
        PROVE  Snapped(e)'
    BY <2>3, <2>4, <2>5 DEF Snapped
  <2>6. TypeOK'
    <3>1. /\ snapshot' \in [Entry -> 0 .. MaxVersion]
          /\ source' \in [Entry -> 0 .. MaxVersion]
          /\ owner' \in [Name -> Entry \cup {"none"}]
      BY <1>0, <1>6, <2>0, <2>1, <2>2 DEF Copy, TypeOK
    <3>2. /\ item' \in Nat \ {0} /\ (job' <= Jobs => item' <= Len(skills'[job']) + 1)
          /\ clones' \subseteq Remote
      BY <1>0, <1>h, <1>l, <1>6, <2>0 DEF Copy, TypeOK
    <3> QED BY <1>0, <1>h, <1>6, <2>0, <3>1, <3>2 DEF Copy, TypeOK
  <2>7. FetchInv'
    BY <1>0, <1>6 DEF Copy, FetchInv
  <2>8. ASSUME NEW k \in Job, NEW i \in 1 .. Len(skills[k]),
               k < job' \/ (k = job' /\ i < item')
        PROVE  Snapped(skills[k][i])'
    <3>1. skills[k][i] \in Entry /\ skills' = skills
      BY <1>0, <1>h, ListsHoldEntries
    <3>2. CASE k = job /\ i = item
      <4>1. skills[k][i] = Under
        BY <3>2 DEF Under
      <4> QED BY <3>1, <4>1, <2>3 DEF Snapped
    <3>3. CASE ~(k = job /\ i = item)
      <4>1. k < job \/ (k = job /\ i < item)
        BY <1>l, <2>0, <2>8, <3>3
      <4>2. Snapped(skills[k][i])
        BY <1>0, <4>1 DEF WalkInv
      <4> QED BY <3>1, <4>2, <2>3, <2>4 DEF Snapped
    <3> QED BY <3>2, <3>3
  <2>9. WalkInv'
    <3>1. \A e \in Entry : snapshot'[e] # 0 => Snapped(e)'
      BY <1>0, <2>4, <2>5 DEF WalkInv
    <3> QED BY <1>h, <1>6, <2>8, <3>1 DEF Copy, WalkInv
  <2> QED BY <1>h, <1>j, <2>6, <2>7, <2>9 DEF IInv
<1> QED BY <1>1, <1>2, <1>3, <1>4, <1>5, <1>6

-----------------------------------------------------------------------------
(* materializeSkills.                                                      *)

LEMMA JobKeepsIInv ==
  ASSUME IInv, NEW j \in Job,
         Materialize(j) \/ MaterializeClashes(j) \/ MaterializeFails(j)
           \/ StartExecutor(j)
  PROVE  IInv'
<1> USE DEF fetchVars
<1>0. /\ TypeOK /\ copied \in [Job -> Nat] /\ FetchInv /\ WalkInv
      /\ \A k \in Job : HomeInv(k)
  BY DEF IInv
<1>1. pc = "fetched" /\ phase[j] = "waiting"
      /\ UNCHANGED <<skills, head, cancelled, fetchVars>>
  BY DEF Materialize, MaterializeClashes, MaterializeFails, StartExecutor, Copying
<1>2. FetchInv' /\ WalkInv'
  BY <1>0, <1>1 DEF FetchInv, WalkInv, Snapped, Under
<1>3. CASE Materialize(j)
  <2> DEFINE e == NextSkill(j)
             n == NameOf[e]
  <2>0. /\ copied[j] \in Nat /\ Len(skills[j]) \in Nat /\ copied[j] < Len(skills[j])
        /\ home[j][n] = 0
    BY <1>0, <1>3, ListsHoldEntries DEF Materialize, Copying
  <2>1. e = skills[j][copied[j] + 1] /\ e \in Entry /\ n \in Name
    BY <1>0, <2>0, ListsHoldEntries, NameAssumption DEF NextSkill
  <2>2. /\ home' = [home EXCEPT ![j][n] = snapshot[e]]
        /\ copied' = [copied EXCEPT ![j] = @ + 1] /\ phase' = phase
    BY <1>3 DEF Materialize
  <2> HIDE DEF e, n
  <2>3. /\ copied'[j] = copied[j] + 1
        /\ home'[j][n] = snapshot[e]
        /\ \A m \in Name \ {n} : home'[j][m] = home[j][m]
        /\ \A k \in Job \ {j} : home'[k] = home[k] /\ copied'[k] = copied[k]
        /\ home' \in [Job -> [Name -> 0 .. MaxVersion]]
        /\ copied' \in [Job -> Nat]
    BY <1>0, <2>1, <2>2 DEF TypeOK
  <2>4. TypeOK'
    BY <1>0, <1>1, <2>0, <2>2, <2>3 DEF TypeOK
  <2>5. HomeInv(j)'
    <3>1. ASSUME NEW i \in 1 .. copied'[j]
          PROVE  home'[j][NameOf[skills[j][i]]] = snapshot[skills[j][i]]
      <4>1. CASE i = copied[j] + 1
        BY <2>1, <2>3, <4>1 DEF n
      <4>2. CASE i # copied[j] + 1
        <5>1. i \in 1 .. copied[j] /\ i \in 1 .. Len(skills[j])
          BY <2>0, <2>3, <4>2
        <5>2. /\ skills[j][i] \in Entry /\ NameOf[skills[j][i]] \in Name
              /\ home[j][NameOf[skills[j][i]]] = snapshot[skills[j][i]]
          BY <1>0, <5>1, ListsHoldEntries, NameAssumption DEF HomeInv
        <5>3. snapshot[skills[j][i]] # 0
          <6>1. job = Jobs + 1 /\ j < job
            BY <1>0, <1>1, JobsAssumption DEF WalkInv, Job
          <6> QED BY <1>0, <5>1, <6>1 DEF WalkInv, Snapped
        <5>4. NameOf[skills[j][i]] # n
          BY <2>0, <5>2, <5>3
        <5> QED BY <2>3, <5>2, <5>4
      <4> QED BY <4>1, <4>2
    <3> QED BY <1>1, <2>2, <3>1 DEF HomeInv
  <2>6. ASSUME NEW k \in Job \ {j} PROVE HomeInv(k)'
    BY <1>0, <1>1, <2>2, <2>3 DEF HomeInv
  <2> QED BY <1>2, <2>3, <2>4, <2>5, <2>6 DEF IInv
<1>4. CASE MaterializeClashes(j) \/ MaterializeFails(j) \/ StartExecutor(j)
  <2>1. /\ UNCHANGED <<copied, home>>
        /\ \A k \in Job \ {j} : phase'[k] = phase[k]
        /\ phase' \in [Job -> {"waiting", "running", "clashed", "parked"}]
        /\ phase'[j] = "running" => copied[j] = Len(skills[j])
    BY <1>0, <1>4 DEF MaterializeClashes, MaterializeFails, StartExecutor, TypeOK
  <2>2. TypeOK'
    BY <1>0, <1>1, <2>1 DEF TypeOK
  <2>3. \A k \in Job : HomeInv(k)'
    BY <1>0, <1>1, <2>1 DEF HomeInv
  <2> QED BY <1>0, <1>2, <2>1, <2>2, <2>3 DEF IInv
<1> QED BY <1>3, <1>4

LEMMA NextIInv == IInv /\ [Next]_vars => IInv'
<1> SUFFICES ASSUME IInv, [Next]_vars PROVE IInv'
  OBVIOUS
<1>1. CASE UNCHANGED <<skills, fetchVars, jobVars>> /\ head' \in [Entry -> Version]
            /\ cancelled' \in BOOLEAN
  BY <1>1 DEF fetchVars, jobVars, IInv, TypeOK, FetchInv, WalkInv, HomeInv,
    Snapped, Under
<1>2. ASSUME NEW e \in Entry, Push(e) PROVE IInv'
  <2>1. head' \in [Entry -> Version]
    BY <1>2, MaxVersionAssumption DEF Push, IInv, TypeOK, Version
  <2> QED BY <1>1, <1>2, <2>1 DEF Push, IInv, TypeOK
<1>3. CASE Cancel \/ Over \/ UNCHANGED vars
  BY <1>1, <1>3 DEF Cancel, Over, vars, IInv, TypeOK
<1>4. CASE Engine \/ GitClones \/ GitFails \/ HelperExits
  BY <1>4, FetchKeepsIInv DEF Engine
<1>5. CASE \E j \in Job : Materialize(j) \/ MaterializeClashes(j)
                            \/ MaterializeFails(j) \/ StartExecutor(j)
  BY <1>5, JobKeepsIInv
<1> QED BY <1>2, <1>3, <1>4, <1>5 DEF Next

(* Each skill's clone, snapshot and log entry are what the fetch had got to, *)
(* whatever its origin became in between.                                    *)
THEOREM Invariance == Spec => []IInv
BY InitIInv, NextIInv, PTL DEF Spec

-----------------------------------------------------------------------------
(* What follows from it.                                                   *)

(* Every variable of the fetch keeps its type.                               *)
THEOREM TypeCorrect == Spec => []TypeOK
<1>1. IInv => TypeOK
  BY DEF IInv
<1> QED BY <1>1, Invariance, PTL

(* Whichever step of a fetch failed or was cancelled, no clone and no git    *)
(* outlives it.                                                              *)
THEOREM FetchCleansUp == Spec => []NoCloneLeftBehind
<1>1. IInv => NoCloneLeftBehind
  BY DEF IInv, FetchInv, NoCloneLeftBehind, Returned
<1> QED BY <1>1, Invariance, PTL

(* An executor starts with every skill its job declares, in the one version  *)
(* the record names, whatever was pushed since.                              *)
THEOREM SkillsAreTheRecordedOnes == Spec => []JobsRunTheRecordedSkills
<1>1. IInv => JobsRunTheRecordedSkills
  <2> SUFFICES ASSUME IInv, NEW j \in Job, phase[j] = "running",
                      NEW i \in 1 .. Len(skills[j])
               PROVE  /\ Snapped(skills[j][i])
                      /\ home[j][NameOf[skills[j][i]]] = snapshot[skills[j][i]]
    BY DEF JobsRunTheRecordedSkills, Snapped
  <2>1. pc = "fetched" /\ copied[j] = Len(skills[j])
    BY DEF IInv, HomeInv
  <2>2. job = Jobs + 1 /\ j < job
    BY <2>1, JobsAssumption DEF IInv, WalkInv, Job
  <2> QED BY <2>1, <2>2 DEF IInv, WalkInv, HomeInv
<1> QED BY <1>1, Invariance, PTL

=============================================================================
