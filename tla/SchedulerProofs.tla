--------------------------- MODULE SchedulerProofs ---------------------------
(* For any workflow: what the scheduler promises, from one inductive         *)
(* invariant.  Each step concerns one job's goroutine or the joining one, so *)
(* a step is checked on its own job, and the lemma OtherJobs does the rest.  *)
EXTENDS Scheduler, TLAPS

(* A function on an initial segment is a sequence.                           *)
LEMMA SegmentIsASequence ==
  ASSUME NEW S, NEW n \in Nat, NEW f \in [1 .. n -> S]
  PROVE  f \in Seq(S)
OBVIOUS

(* The evidence of a job is a finite sequence.                               *)
LEMMA EvidenceIsASequence ==
  ASSUME NEW j \in Job
  PROVE  Evidence(j) \in Seq(Item) /\ Len(Evidence(j)) \in Nat
<1> USE StepsAssumption, OutputsAssumption
<1>1. <<[kind |-> "dirs"]>> \in Seq(Item)
  BY DEF Item
<1>2. [i \in 1 .. PreSteps[j] |-> [kind |-> "pre-step"]] \in Seq(Item)
  <2>1. [i \in 1 .. PreSteps[j] |-> [kind |-> "pre-step"]]
          \in [1 .. PreSteps[j] -> Item]
    BY DEF Item
  <2> QED BY <2>1, SegmentIsASequence
<1>3. (IF j \in Agent THEN <<[kind |-> "executor"]>> ELSE <<>>) \in Seq(Item)
  <2>1. <<[kind |-> "executor"]>> \in Seq(Item)
    BY DEF Item
  <2>2. <<>> \in Seq(Item)
    OBVIOUS
  <2> QED BY <2>1, <2>2, Zenon
<1>4. [i \in 1 .. Len(Outputs[j]) |->
         [kind |-> "output", out |-> Outputs[j][i]]] \in Seq(Item)
  <2>0. ASSUME NEW i \in 1 .. Len(Outputs[j])
        PROVE  [kind |-> "output", out |-> Outputs[j][i]] \in Item
    <3>1. Outputs[j] \in Seq(Output)
      OBVIOUS
    <3>2. Outputs[j][i] \in Output
      BY <3>1
    <3> QED BY <3>2 DEF Item
  <2>1. [i \in 1 .. Len(Outputs[j]) |->
           [kind |-> "output", out |-> Outputs[j][i]]]
          \in [1 .. Len(Outputs[j]) -> Item]
    BY <2>0
  <2>2. Len(Outputs[j]) \in Nat
    OBVIOUS
  <2> QED BY <2>1, <2>2, SegmentIsASequence
<1>5. [i \in 1 .. PostSteps[j] |-> [kind |-> "post-step"]] \in Seq(Item)
  <2>1. [i \in 1 .. PostSteps[j] |-> [kind |-> "post-step"]]
          \in [1 .. PostSteps[j] -> Item]
    BY DEF Item
  <2> QED BY <2>1, SegmentIsASequence
<1>6. Evidence(j) \in Seq(Item)
  <2>1. ASSUME NEW a \in Seq(Item), NEW b \in Seq(Item), NEW c \in Seq(Item),
               NEW d \in Seq(Item), NEW e \in Seq(Item)
        PROVE  a \o b \o c \o d \o e \in Seq(Item)
    OBVIOUS
  <2> QED BY <1>1, <1>2, <1>3, <1>4, <1>5, <2>1, Zenon DEF Evidence
<1> QED BY <1>6

(* What a job declares is among the outputs there are.                       *)
LEMMA DeclaredAreOutputs ==
  ASSUME NEW j \in Job
  PROVE  Declared(j) \subseteq Output
<1>1. Outputs[j] \in Seq(Output)
  BY OutputsAssumption
<1> QED BY <1>1 DEF Declared

-----------------------------------------------------------------------------
(* The invariant is inductive.                                             *)

LEMMA InitIInv == Init => IInv
<1> SUFFICES ASSUME Init PROVE IInv
  OBVIOUS
<1>0. \A j \in Job : Len(Needs[j]) \in Nat /\ Len(Evidence(j)) \in Nat
  BY NeedsAssumption, EvidenceIsASequence
<1>1. TypeOK
  <2>1. disk \in [Job -> SUBSET Output] /\ passed \in [Job -> SUBSET Nat]
    BY DEF Init
  <2>2. result \in [outcome : Outcome \cup {"none", "unset"}, err : BOOLEAN]
    BY DEF Init
  <2>3. /\ need \in [Job -> Nat \ {0}] /\ at \in [Job -> Nat \ {0}]
        /\ \A j \in Job : need[j] <= Len(Needs[j]) + 1
        /\ \A j \in Job : at[j] <= Len(Evidence(j)) + 1
    BY <1>0 DEF Init
  <2> QED BY <2>1, <2>2, <2>3 DEF Init, TypeOK
<1>2. \A j \in Job : JobInv(j)
  BY <1>0 DEF Init, JobInv, Fresh
<1>3. RunInv
  BY DEF Init, RunInv
<1> QED BY <1>1, <1>2, <1>3 DEF IInv

\* A step of job k leaves every other job's goroutine where it is.
SameElsewhere(k) ==
  \A j \in Job \ {k} :
    /\ pc'[j] = pc[j] /\ need'[j] = need[j] /\ state'[j] = state[j]
    /\ failure'[j] = failure[j] /\ at'[j] = at[j] /\ passed'[j] = passed[j]
    /\ j \in started' <=> j \in started
    /\ j \in alive' <=> j \in alive
    /\ j \in settled' <=> j \in settled

(* A step of a job that has not settled keeps the invariant of the others:   *)
(* what they were told of their needs stays true.                            *)
LEMMA OtherJobs ==
  ASSUME IInv, NEW k \in Job, SameElsewhere(k), pc[k] # "closed"
  PROVE  \A j \in Job \ {k} : JobInv(j)'
<1> SUFFICES ASSUME NEW j \in Job \ {k} PROVE JobInv(j)'
  OBVIOUS
<1>0. JobInv(j) /\ JobInv(k)
  BY DEF IInv
<1>1. \A n \in Job : IsDone(n) => IsDone(n)'
  BY <1>0 DEF IsDone, SameElsewhere, JobInv
<1>2. \A i \in 1 .. need'[j] - 1 : IsDone(Needs[j][i])'
  <2> TAKE i \in 1 .. need'[j] - 1
  <2>1. need'[j] = need[j] /\ IsDone(Needs[j][i])
    BY <1>0 DEF SameElsewhere, JobInv
  <2>2. Needs[j][i] \in Job
    <3>1. Needs[j] \in Seq(Job) /\ need[j] \in Nat /\ need[j] <= Len(Needs[j]) + 1
      BY NeedsAssumption DEF IInv, TypeOK
    <3>2. i \in 1 .. Len(Needs[j])
      BY <3>1, <2>1
    <3> QED BY <3>1, <3>2
  <2> QED BY <2>1, <2>2, <1>1
<1>3. /\ Fresh(j) => Fresh(j)'
      /\ Walked(j) => Walked(j)'
      /\ WalkedAll(j) => WalkedAll(j)'
      /\ WalkedInto(j) => WalkedInto(j)'
  BY DEF SameElsewhere, Fresh, Walked, WalkedAll, WalkedInto
<1> QED BY <1>0, <1>2, <1>3 DEF JobInv, SameElsewhere

(* So a step of job k is judged on job k.                                    *)
LEMMA StepOfOneJob ==
  ASSUME IInv, NEW k \in Job, SameElsewhere(k), pc[k] # "closed",
         UNCHANGED runVars, TypeOK', JobInv(k)'
  PROVE  IInv'
<1>1. \A j \in Job : JobInv(j)'
  BY OtherJobs
<1>2. main = "executing"
  BY DEF IInv, RunInv, TypeOK
<1>3. RunInv'
  BY <1>2 DEF IInv, RunInv, runVars
<1> QED BY <1>1, <1>3 DEF IInv

(* A job parked at an item of its evidence walked into a failure, and what   *)
(* it was told of its needs stays true.                                      *)
LEMMA ParkedJob ==
  ASSUME TypeOK, NEW k \in Job, JobInv(k), Walked(k),
         at[k] <= Len(Evidence(k)), k \notin settled,
         Park(k), UNCHANGED <<need, started, settled>>, k \notin alive'
  PROVE  JobInv(k)'
<1>1. /\ pc'[k] = "closing" /\ state'[k] = "parked" /\ failure'[k] = at[k]
      /\ at' = at /\ passed' = passed
  BY DEF Park, TypeOK
<1>2. WalkedInto(k)'
  BY <1>1 DEF TypeOK, Walked, WalkedInto
<1>3. \A n \in Job : IsDone(n) => IsDone(n)'
  BY DEF Walked, Park, TypeOK, IsDone
<1>4. \A i \in 1 .. need[k] - 1 : Needs[k][i] \in Job
  <2>1. Needs[k] \in Seq(Job)
    BY NeedsAssumption
  <2>2. need[k] \in Nat /\ need[k] <= Len(Needs[k]) + 1
    BY DEF TypeOK
  <2>3. \A i \in 1 .. need[k] - 1 : i \in 1 .. Len(Needs[k])
    BY <2>1, <2>2
  <2> QED BY <2>1, <2>3
<1>5. \A i \in 1 .. need[k] - 1 : IsDone(Needs[k][i])'
  BY <1>3, <1>4 DEF JobInv
<1> QED BY <1>1, <1>2, <1>5 DEF JobInv

(* Every action of a job's goroutine and of its processes.                   *)
LEMMA JobKeepsIInv ==
  ASSUME IInv, NEW k \in Job, JobStep(k) \/ Touch(k) \/ ProcessEnds(k)
  PROVE  IInv'
<1> USE DEF vars, jobVars, runVars
<1>0. /\ TypeOK /\ JobInv(k)
      /\ Needs[k] \in Seq(Job) /\ Len(Needs[k]) \in Nat
      /\ Len(Evidence(k)) \in Nat
      /\ Declared(k) \subseteq Output
  BY NeedsAssumption, EvidenceIsASequence, DeclaredAreOutputs DEF IInv
<1>1. CASE NeedMet(k)
  <2>1. pc[k] # "closed" /\ UNCHANGED runVars
    BY <1>0, <1>1 DEF NeedMet, StillNeeds, Awaited, JobInv
  <2>2. SameElsewhere(k)
    BY <1>0, <1>1 DEF NeedMet, StillNeeds, Awaited, SameElsewhere, TypeOK
  <2>3. TypeOK'
    <3>1. need' \in [Job -> Nat \ {0}]
      BY <1>0, <1>1 DEF NeedMet, TypeOK
    <3>2. \A j \in Job : need'[j] <= Len(Needs[j]) + 1
      <4> TAKE j \in Job
      <4>1. CASE j = k
        BY <4>1, <1>0, <1>1 DEF NeedMet, StillNeeds, TypeOK
      <4>2. CASE j # k
        BY <4>2, <1>0, <1>1 DEF NeedMet, TypeOK
      <4> QED BY <4>1, <4>2
    <3> QED BY <1>0, <1>1, <3>1, <3>2 DEF NeedMet, TypeOK
  <2>4. JobInv(k)'
    <3>1. need[k] \in Nat /\ need'[k] = need[k] + 1 /\ k \notin started
      BY <1>0, <1>1 DEF NeedMet, StillNeeds, TypeOK, JobInv, Fresh
    <3>2. IsDone(Needs[k][need[k]])
      BY <1>1 DEF NeedMet, Awaited, IsDone
    <3>3. \A i \in 1 .. need'[k] - 1 : IsDone(Needs[k][i])
      BY <1>0, <3>1, <3>2 DEF JobInv
    <3>4. \A i \in 1 .. need'[k] - 1 : IsDone(Needs[k][i])'
      BY <1>1, <3>3 DEF NeedMet, IsDone
    <3> QED BY <1>0, <1>1, <3>1, <3>4 DEF NeedMet, StillNeeds, JobInv, Fresh
  <2> QED BY <2>1, <2>2, <2>3, <2>4, StepOfOneJob
<1>2. CASE NeedFailed(k)
  <2>1. pc[k] # "closed" /\ UNCHANGED runVars
    BY <1>0, <1>2 DEF NeedFailed, StillNeeds, JobInv
  <2>2. SameElsewhere(k)
    BY <1>0, <1>2 DEF NeedFailed, StillNeeds, SameElsewhere, TypeOK
  <2>3. TypeOK'
    BY <1>0, <1>2 DEF NeedFailed, StillNeeds, TypeOK, JobInv, Walked, Fresh
  <2>4. JobInv(k)'
    BY <1>0, <1>2 DEF NeedFailed, StillNeeds, TypeOK, JobInv, Walked, WalkedAll, WalkedInto, Fresh, IsDone
  <2> QED BY <2>1, <2>2, <2>3, <2>4, StepOfOneJob
<1>3. CASE GiveUp(k)
  <2>1. pc[k] # "closed" /\ UNCHANGED runVars
    BY <1>0, <1>3 DEF GiveUp, JobInv
  <2>2. SameElsewhere(k)
    BY <1>0, <1>3 DEF GiveUp, SameElsewhere, TypeOK
  <2>3. TypeOK'
    BY <1>0, <1>3 DEF GiveUp, TypeOK, JobInv, Walked, Fresh
  <2>4. JobInv(k)'
    BY <1>0, <1>3 DEF GiveUp, TypeOK, JobInv, Walked, WalkedAll, WalkedInto, Fresh, IsDone
  <2> QED BY <2>1, <2>2, <2>3, <2>4, StepOfOneJob
<1>4. CASE Release(k)
  <2>1. pc[k] # "closed" /\ UNCHANGED runVars
    BY <1>0, <1>4 DEF Release, JobInv
  <2>2. SameElsewhere(k)
    BY <1>0, <1>4 DEF Release, SameElsewhere, TypeOK
  <2>3. TypeOK'
    BY <1>0, <1>4 DEF Release, TypeOK, JobInv, Walked, Fresh
  <2>4. JobInv(k)'
    <3>1. Fresh(k) /\ k \notin alive /\ k \notin settled
      BY <1>0, <1>4 DEF Release, JobInv
    <3>2. /\ pc'[k] = "evaluating" /\ state'[k] = "done" /\ failure'[k] = 0
          /\ passed'[k] = {} /\ at'[k] = 1 /\ k \in started'
          /\ need'[k] = Len(Needs[k]) + 1 /\ k \notin alive' /\ k \notin settled'
      BY <1>0, <1>4, <3>1 DEF Release, TypeOK, Fresh
    <3>3. Walked(k)'
      BY <3>2 DEF Walked
    <3>4. ASSUME NEW n \in Job, IsDone(n) PROVE IsDone(n)'
      BY <1>0, <1>4, <3>4 DEF Release, TypeOK, IsDone
    <3>5. \A i \in 1 .. need'[k] - 1 : IsDone(Needs[k][i])'
      BY <1>0, <1>4, <3>2, <3>4 DEF Release, JobInv
    <3> QED BY <3>2, <3>3, <3>5 DEF JobInv
  <2> QED BY <2>1, <2>2, <2>3, <2>4, StepOfOneJob
<1>5. CASE EnsureJob(k)
  <2>1. pc[k] # "closed" /\ UNCHANGED runVars
    BY <1>0, <1>5 DEF EnsureJob, Evaluating, Pass, Park, JobInv
  <2>2. SameElsewhere(k)
    BY <1>0, <1>5 DEF EnsureJob, Evaluating, Pass, Park, SameElsewhere, TypeOK
  <2>3. CASE Pass(k)
    <3>1. TypeOK'
      BY <1>0, <1>5, <2>3 DEF EnsureJob, Evaluating, Pass, TypeOK, JobInv
    <3>2. JobInv(k)'
      BY <1>0, <1>5, <2>3 DEF EnsureJob, Evaluating, Pass, TypeOK, JobInv, Walked, IsDone
    <3> QED BY <2>1, <2>2, <3>1, <3>2, StepOfOneJob
  <2>4. CASE Park(k)
    <3>1. TypeOK'
      BY <1>0, <1>5, <2>4 DEF EnsureJob, Evaluating, Park, TypeOK, JobInv
    <3>2. JobInv(k)'
      <4>1. /\ Walked(k) /\ at[k] <= Len(Evidence(k))
            /\ k \notin settled /\ k \notin alive
        BY <1>0, <1>5 DEF EnsureJob, Evaluating, JobInv
      <4>2. UNCHANGED <<need, started, settled>> /\ k \notin alive'
        BY <4>1, <1>5 DEF EnsureJob
      <4> QED BY <1>0, <2>4, <4>1, <4>2, ParkedJob
    <3> QED BY <2>1, <2>2, <3>1, <3>2, StepOfOneJob
  <2> QED BY <1>5, <2>3, <2>4 DEF EnsureJob
<1>6. CASE Launch(k)
  <2>1. pc[k] # "closed" /\ UNCHANGED runVars
    BY <1>0, <1>6 DEF Launch, Evaluating, JobInv
  <2>2. SameElsewhere(k)
    BY <1>0, <1>6 DEF Launch, Evaluating, SameElsewhere, TypeOK
  <2>3. TypeOK'
    BY <1>0, <1>6 DEF Launch, Evaluating, TypeOK, JobInv, Walked, Fresh
  <2>4. JobInv(k)'
    BY <1>0, <1>6 DEF Launch, Evaluating, TypeOK, JobInv, Walked, WalkedAll, WalkedInto, Fresh, IsDone
  <2> QED BY <2>1, <2>2, <2>3, <2>4, StepOfOneJob
<1>7. CASE LaunchFails(k)
  <2>1. pc[k] # "closed" /\ UNCHANGED runVars
    BY <1>0, <1>7 DEF LaunchFails, Evaluating, Park, JobInv
  <2>2. SameElsewhere(k)
    BY <1>0, <1>7 DEF LaunchFails, Evaluating, Park, SameElsewhere, TypeOK
  <2>3. TypeOK'
    BY <1>0, <1>7 DEF LaunchFails, Evaluating, Park, TypeOK, JobInv, Walked, Fresh
  <2>4. JobInv(k)'
    <3>1. /\ Walked(k) /\ at[k] <= Len(Evidence(k))
          /\ k \notin settled /\ k \notin alive
      BY <1>0, <1>7 DEF LaunchFails, Evaluating, JobInv
    <3>2. Park(k) /\ UNCHANGED <<need, started, settled>> /\ k \notin alive'
      BY <3>1, <1>7 DEF LaunchFails
    <3> QED BY <1>0, <3>1, <3>2, ParkedJob
  <2> QED BY <2>1, <2>2, <2>3, <2>4, StepOfOneJob
<1>8. CASE OutputPresent(k)
  <2>1. pc[k] # "closed" /\ UNCHANGED runVars
    BY <1>0, <1>8 DEF OutputPresent, Evaluating, Pass, JobInv
  <2>2. SameElsewhere(k)
    BY <1>0, <1>8 DEF OutputPresent, Evaluating, Pass, SameElsewhere, TypeOK
  <2>3. TypeOK'
    BY <1>0, <1>8 DEF OutputPresent, Evaluating, Pass, TypeOK, JobInv, Walked, Fresh
  <2>4. JobInv(k)'
    BY <1>0, <1>8 DEF OutputPresent, Evaluating, Pass, TypeOK, JobInv, Walked, WalkedAll, WalkedInto, Fresh, IsDone
  <2> QED BY <2>1, <2>2, <2>3, <2>4, StepOfOneJob
<1>9. CASE OutputMissing(k)
  <2>1. pc[k] # "closed" /\ UNCHANGED runVars
    BY <1>0, <1>9 DEF OutputMissing, Evaluating, Park, JobInv
  <2>2. SameElsewhere(k)
    BY <1>0, <1>9 DEF OutputMissing, Evaluating, Park, SameElsewhere, TypeOK
  <2>3. TypeOK'
    BY <1>0, <1>9 DEF OutputMissing, Evaluating, Park, TypeOK, JobInv, Walked, Fresh
  <2>4. JobInv(k)'
    <3>1. /\ Walked(k) /\ at[k] <= Len(Evidence(k))
          /\ k \notin settled /\ k \notin alive
      BY <1>0, <1>9 DEF OutputMissing, Evaluating, JobInv
    <3>2. Park(k) /\ UNCHANGED <<need, started, settled>> /\ k \notin alive'
      BY <3>1, <1>9 DEF OutputMissing
    <3> QED BY <1>0, <3>1, <3>2, ParkedJob
  <2> QED BY <2>1, <2>2, <2>3, <2>4, StepOfOneJob
<1>10. CASE AllPassed(k)
  <2>1. pc[k] # "closed" /\ UNCHANGED runVars
    BY <1>0, <1>10 DEF AllPassed, JobInv
  <2>2. SameElsewhere(k)
    BY <1>0, <1>10 DEF AllPassed, SameElsewhere, TypeOK
  <2>3. TypeOK'
    BY <1>0, <1>10 DEF AllPassed, TypeOK, JobInv, Walked, Fresh
  <2>4. JobInv(k)'
    BY <1>0, <1>10 DEF AllPassed, TypeOK, JobInv, Walked, WalkedAll, WalkedInto, Fresh, IsDone
  <2> QED BY <2>1, <2>2, <2>3, <2>4, StepOfOneJob
<1>11. CASE Settle(k)
  <2>1. pc[k] # "closed" /\ UNCHANGED runVars
    BY <1>0, <1>11 DEF Settle, JobInv
  <2>2. SameElsewhere(k)
    BY <1>0, <1>11 DEF Settle, SameElsewhere, TypeOK
  <2>3. TypeOK'
    BY <1>0, <1>11 DEF Settle, TypeOK, JobInv, Walked, Fresh
  <2>4. JobInv(k)'
    BY <1>0, <1>11 DEF Settle, TypeOK, JobInv, Walked, WalkedAll, WalkedInto, Fresh, IsDone
  <2> QED BY <2>1, <2>2, <2>3, <2>4, StepOfOneJob
<1>12. CASE Touch(k)
  <2>1. pc[k] # "closed" /\ UNCHANGED runVars
    BY <1>0, <1>12 DEF Touch, JobInv
  <2>2. SameElsewhere(k)
    BY <1>0, <1>12 DEF Touch, SameElsewhere, TypeOK
  <2>3. TypeOK'
    BY <1>0, <1>12 DEF Touch, TypeOK, JobInv, Walked, Fresh
  <2>4. JobInv(k)'
    BY <1>0, <1>12 DEF Touch, TypeOK, JobInv, Walked, WalkedAll, WalkedInto, Fresh, IsDone
  <2> QED BY <2>1, <2>2, <2>3, <2>4, StepOfOneJob
<1>13. CASE ProcessEnds(k)
  <2>1. pc[k] # "closed" /\ UNCHANGED runVars
    BY <1>0, <1>13 DEF ProcessEnds, Pass, Park, JobInv
  <2>2. SameElsewhere(k)
    BY <1>0, <1>13 DEF ProcessEnds, Pass, Park, SameElsewhere, TypeOK
  <2>3. CASE Pass(k)
    <3>1. TypeOK'
      BY <1>0, <1>13, <2>3 DEF ProcessEnds, Pass, TypeOK, JobInv
    <3>2. JobInv(k)'
      BY <1>0, <1>13, <2>3 DEF ProcessEnds, Pass, TypeOK, JobInv, Walked, IsDone
    <3> QED BY <2>1, <2>2, <3>1, <3>2, StepOfOneJob
  <2>4. CASE Park(k)
    <3>1. TypeOK'
      BY <1>0, <1>13, <2>4 DEF ProcessEnds, Park, TypeOK, JobInv
    <3>2. JobInv(k)'
      <4>1. Walked(k) /\ at[k] <= Len(Evidence(k)) /\ k \notin settled
        BY <1>0, <1>13 DEF ProcessEnds, JobInv
      <4>2. UNCHANGED <<need, started, settled>> /\ k \notin alive'
        BY <1>0, <1>13 DEF ProcessEnds, TypeOK
      <4> QED BY <1>0, <2>4, <4>1, <4>2, ParkedJob
    <3> QED BY <2>1, <2>2, <3>1, <3>2, StepOfOneJob
  <2> QED BY <1>13, <2>3, <2>4 DEF ProcessEnds
<1> QED BY <1>1, <1>2, <1>3, <1>4, <1>5, <1>6, <1>7, <1>8, <1>9, <1>10, <1>11, <1>12, <1>13 DEF JobStep

(* The joining goroutine, the signal, and the end.                           *)
LEMMA MainKeepsIInv ==
  ASSUME IInv, MainStep \/ Cancel \/ Over
  PROVE  IInv'
<1> USE DEF jobVars, runVars
<1>0. TypeOK /\ RunInv /\ \A j \in Job : JobInv(j)
  BY DEF IInv
<1>1. UNCHANGED jobVars
  BY DEF MainStep, Join, WriteRecord, WriteRecordFails, Return, Cancel, Over, vars
<1>2. \A j \in Job : JobInv(j)'
  BY <1>0, <1>1 DEF JobInv, Fresh, Walked, WalkedAll, WalkedInto, IsDone
<1>3. CASE Join
  BY <1>0, <1>1, <1>2, <1>3 DEF Join, IInv, TypeOK, RunInv, AllDone, Outcome
<1>4. CASE WriteRecord
  BY <1>0, <1>1, <1>2, <1>4 DEF WriteRecord, IInv, TypeOK, RunInv, AllDone
<1>5. CASE WriteRecordFails
  BY <1>0, <1>1, <1>2, <1>5 DEF WriteRecordFails, IInv, TypeOK, RunInv, AllDone
<1>6. CASE Return
  BY <1>0, <1>1, <1>2, <1>6 DEF Return, IInv, TypeOK, RunInv, AllDone
<1>7. CASE Cancel
  BY <1>0, <1>1, <1>2, <1>7 DEF Cancel, IInv, TypeOK, RunInv, AllDone
<1>8. CASE Over
  BY <1>0, <1>1, <1>2, <1>8 DEF Over, vars, IInv, TypeOK, RunInv, AllDone
<1> QED BY <1>3, <1>4, <1>5, <1>6, <1>7, <1>8 DEF MainStep

LEMMA NextIInv == IInv /\ [Next]_vars => IInv'
<1> SUFFICES ASSUME IInv, [Next]_vars PROVE IInv'
  OBVIOUS
<1>1. CASE UNCHANGED vars
  BY <1>1 DEF vars, jobVars, runVars, IInv, TypeOK, RunInv, AllDone, JobInv,
              Fresh, Walked, WalkedAll, WalkedInto, IsDone
<1>2. CASE Next
  BY <1>2, JobKeepsIInv, MainKeepsIInv DEF Next
<1> QED BY <1>1, <1>2

(* Each job's state, exits and settled channel are what its goroutine, the   *)
(* context and the jobs it needs had got to.                                 *)
THEOREM Invariance == Safety => []IInv
BY InitIInv, NextIInv, PTL DEF Safety

-----------------------------------------------------------------------------
(* What follows from it.                                                   *)

(* Every variable of the scheduler keeps its type, for any workflow.         *)
THEOREM TypeCorrect == Safety => []TypeOK
BY Invariance, PTL DEF IInv

(* Nothing starts below a job that is not done for good: the jobs that are   *)
(* done for good contain the needs of every started job and, having started  *)
(* themselves, those of their own, so they contain the whole upstream.       *)
THEOREM NothingStartsTooEarly == Safety => []UpstreamStands
<1>1. IInv => UpstreamStands
  <2> SUFFICES ASSUME IInv, NEW j \in started, NEW a \in Upstream(j)
               PROVE  IsDone(a)
    BY DEF UpstreamStands
  <2> DEFINE Stands == {n \in Job : IsDone(n)}
  <2>1. ASSUME NEW s \in started PROVE NeedsOf[s] \subseteq Stands
    <3>1. s \in Job /\ need[s] = Len(Needs[s]) + 1 /\ Needs[s] \in Seq(Job)
      BY NeedsAssumption DEF IInv, TypeOK, JobInv
    <3>2. \A i \in 1 .. Len(Needs[s]) : IsDone(Needs[s][i])
      BY <3>1 DEF IInv, JobInv
    <3>3. \A i \in 1 .. Len(Needs[s]) : Needs[s][i] \in Job
      BY <3>1
    <3> QED BY <3>1, <3>2, <3>3 DEF NeedsOf
  <2>2. \A s \in Stands : s \in started
    BY DEF IInv, JobInv, IsDone, Fresh, WalkedAll, WalkedInto, Walked
  <2>3. ClosedUnderNeeds(Stands)
    BY <2>1, <2>2 DEF ClosedUnderNeeds
  <2>4. Stands \in SUBSET Job
    OBVIOUS
  <2>5. a \in Stands
    BY <2>1, <2>3, <2>4 DEF Upstream
  <2> QED BY <2>5
<1> QED BY <1>1, Invariance, PTL

(* A settled record says what the walk found.                                *)
THEOREM RecordsAreTrue == Safety => []RecordsTellTheWalk
<1>1. IInv => RecordsTellTheWalk
  <2> SUFFICES ASSUME IInv, NEW j \in settled
               PROVE
                 /\ j \notin alive
                 /\ CASE state[j] = "done" ->
                           passed[j] = 1 .. Len(Evidence(j)) /\ failure[j] = 0
                      [] state[j] = "parked" ->
                           failure[j] \in 1 .. Len(Evidence(j))
                             /\ passed[j] = 1 .. failure[j] - 1
                      [] state[j] = "pending" ->
                           passed[j] = {} /\ failure[j] = 0 /\ j \notin started
    BY DEF RecordsTellTheWalk
  <2>1. j \in Job /\ Len(Evidence(j)) \in Nat /\ at[j] \in Nat \ {0}
    BY EvidenceIsASequence DEF IInv, TypeOK
  <2>2. JobInv(j) /\ pc[j] = "closed"
    BY <2>1 DEF IInv, JobInv
  <2>3. j \notin alive /\ (Fresh(j) \/ WalkedAll(j) \/ WalkedInto(j))
    BY <2>2 DEF JobInv
  <2>4. CASE Fresh(j)
    BY <2>3, <2>4 DEF Fresh
  <2>5. CASE WalkedAll(j)
    <3>1. /\ state[j] = "done" /\ failure[j] = 0
          /\ passed[j] = 1 .. Len(Evidence(j))
      BY <2>1, <2>5 DEF WalkedAll, Walked
    <3> QED BY <2>3, <3>1
  <2>6. CASE WalkedInto(j)
    <3>1. /\ state[j] = "parked" /\ failure[j] \in 1 .. Len(Evidence(j))
          /\ passed[j] = 1 .. failure[j] - 1
      BY <2>1, <2>6 DEF WalkedInto, Walked
    <3> QED BY <2>3, <3>1
  <2> QED BY <2>3, <2>4, <2>5, <2>6
<1> QED BY <1>1, Invariance, PTL

(* record.json and the exit code agree with what the jobs went through.      *)
THEOREM TheRecordIsHonest == Safety => []RecordIsHonest
<1>1. IInv => RecordIsHonest
  <2> SUFFICES ASSUME IInv PROVE RecordIsHonest
    OBVIOUS
  <2>1. recorded # "none" => \A j \in Job : pc[j] = "closed"
    BY DEF IInv, RunInv
  <2>2. recorded # "none" => settled = Job /\ alive = {}
    BY <2>1 DEF IInv, TypeOK, JobInv
  <2>3. recorded = "succeeded" =>
          \A j \in Job : IsDone(j) /\ passed[j] = 1 .. Len(Evidence(j))
    <3> SUFFICES ASSUME recorded = "succeeded", NEW j \in Job
                 PROVE  IsDone(j) /\ passed[j] = 1 .. Len(Evidence(j))
      OBVIOUS
    <3>1. state[j] = "done" /\ j \in settled /\ JobInv(j) /\ pc[j] = "closed"
      BY <2>1, <2>2 DEF IInv, RunInv, TypeOK, AllDone
    <3>2. WalkedAll(j)
      BY <3>1 DEF JobInv, Fresh, WalkedInto
    <3> QED BY <3>1, <3>2, EvidenceIsASequence DEF IsDone, WalkedAll, Walked
  <2>4. recorded # "none" /\ (\A j \in Job : IsDone(j)) => recorded = "succeeded"
    BY DEF IInv, RunInv, TypeOK, IsDone, AllDone
  <2>5. main = "returned" =>
          /\ ExitCode = 0 => recorded = "succeeded"
          /\ ExitCode = 2 => recorded = "parked"
          /\ recorded = "none" => ExitCode = 1
    BY DEF IInv, RunInv, TypeOK, ExitCode, Outcome
  <2> QED BY <2>2, <2>3, <2>4, <2>5 DEF RecordIsHonest
<1> QED BY <1>1, Invariance, PTL

-----------------------------------------------------------------------------
(* Why a job never started.                                                *)

\* A job that gave up without starting was cancelled, or one of its needs
\* settled otherwise than done.
GaveUpForANeed ==
  \A j \in Job \ started :
    pc[j] \in {"closing", "closed"} /\ ~cancelled =>
      \E n \in NeedsOf[j] : n \in settled /\ state[n] # "done"

(* What a job needs are jobs, and are upstream of it; so is what they need.  *)
LEMMA NeedsAreUpstream ==
  ASSUME NEW j \in Job
  PROVE  /\ NeedsOf[j] \subseteq Upstream(j) /\ Upstream(j) \subseteq Job
         /\ \A s \in Upstream(j) : NeedsOf[s] \subseteq Upstream(j)
<1>1. \A k \in Job : NeedsOf[k] \subseteq Job
  BY NeedsAssumption DEF NeedsOf
<1>2. Upstream(j) \subseteq Job
  BY DEF Upstream
<1>3. ASSUME NEW s \in Upstream(j), NEW n \in NeedsOf[s]
      PROVE  n \in Upstream(j)
  BY <1>1, <1>2 DEF Upstream, ClosedUnderNeeds
<1> QED BY <1>1, <1>2, <1>3 DEF Upstream

(* Every action of one job's goroutine and of its processes is about it.     *)
LEMMA OneJobMoves ==
  ASSUME TypeOK, NEW k \in Job, JobInv(k),
         JobStep(k) \/ Touch(k) \/ ProcessEnds(k)
  PROVE  /\ SameElsewhere(k) /\ pc[k] # "closed"
         /\ UNCHANGED <<cancelled, runVars>>
<1>1. SameElsewhere(k)
  BY DEF SameElsewhere, TypeOK, JobStep, NeedMet, NeedFailed,
    GiveUp, Release, EnsureJob, Launch, LaunchFails, OutputPresent,
    OutputMissing, AllPassed, Settle, Touch, ProcessEnds, Pass, Park
<1>2. pc[k] # "closed"
  BY DEF JobInv, JobStep, NeedMet, NeedFailed, GiveUp, Release,
    EnsureJob, Launch, LaunchFails, OutputPresent, OutputMissing, AllPassed,
    Settle, Touch, ProcessEnds, StillNeeds, Evaluating
<1>3. UNCHANGED <<cancelled, runVars>>
  BY DEF JobStep, NeedMet, NeedFailed, GiveUp, Release, EnsureJob, Launch,
    LaunchFails, OutputPresent, OutputMissing, AllPassed, Settle, Touch,
    ProcessEnds
<1> QED BY <1>1, <1>2, <1>3

LEMMA NextGaveUp == IInv /\ GaveUpForANeed /\ [Next]_vars => GaveUpForANeed'
<1> SUFFICES ASSUME IInv, GaveUpForANeed, [Next]_vars,
                    NEW j \in Job, j \notin started',
                    pc'[j] \in {"closing", "closed"}, ~cancelled'
             PROVE  \E n \in NeedsOf[j] : n \in settled' /\ state'[n] # "done"
  BY DEF GaveUpForANeed
<1>0. TypeOK /\ (\A k \in Job : JobInv(k)) /\ NeedsOf[j] \subseteq Job
  BY NeedsAreUpstream DEF IInv
<1>1. CASE UNCHANGED <<jobVars, cancelled>>
  BY <1>1 DEF GaveUpForANeed, jobVars
<1>2. CASE MainStep \/ Cancel \/ Over
  <2>1. UNCHANGED jobVars /\ (cancelled => cancelled')
    BY <1>2 DEF MainStep, Join, WriteRecord, WriteRecordFails, Return, Cancel,
      Over, vars
  <2> QED BY <2>1 DEF GaveUpForANeed, jobVars
<1>3. ASSUME NEW k \in Job, JobStep(k) \/ Touch(k) \/ ProcessEnds(k)
      PROVE  \E n \in NeedsOf[j] : n \in settled' /\ state'[n] # "done"
  <2>1. SameElsewhere(k) /\ pc[k] # "closed" /\ cancelled' = cancelled
    BY <1>0, <1>3, OneJobMoves
  <2>2. ASSUME NEW n \in NeedsOf[j], n \in settled, state[n] # "done"
        PROVE  n \in settled' /\ state'[n] # "done"
    <3>1. n \in Job /\ n # k
      BY <1>0, <2>1, <2>2 DEF JobInv
    <3> QED BY <2>1, <2>2, <3>1 DEF SameElsewhere
  <2>3. CASE j # k
    <3>1. j \notin started /\ pc[j] \in {"closing", "closed"} /\ ~cancelled
      BY <2>1, <2>3 DEF SameElsewhere
    <3> QED BY <2>2, <3>1 DEF GaveUpForANeed
  <2>4. CASE j = k /\ NeedFailed(k)
    <3>1. Awaited(j) \in settled /\ state[Awaited(j)] # "done"
      BY <2>4 DEF NeedFailed
    <3>2. Awaited(j) \in NeedsOf[j]
      BY <1>0, <2>4 DEF NeedFailed, StillNeeds, Awaited, NeedsOf, TypeOK
    <3> QED BY <2>2, <3>1, <3>2
  <2>5. CASE j = k /\ ~NeedFailed(k)
    <3>1. pc[k] = "closing" /\ k \notin started
      BY <1>0, <1>3, <2>1, <2>5 DEF JobStep, NeedMet, GiveUp, Release,
        EnsureJob, Launch, LaunchFails, OutputPresent, OutputMissing, AllPassed,
        Settle, Touch, ProcessEnds, Pass, Park, StillNeeds, Evaluating, JobInv,
        Walked, TypeOK
    <3> QED BY <2>1, <2>2, <2>5, <3>1 DEF GaveUpForANeed
  <2> QED BY <2>3, <2>4, <2>5
<1> QED BY <1>1, <1>2, <1>3 DEF Next, vars

(* In a run nobody cancelled a job left pending has a parked job above it.   *)
(* Of the jobs above it that never started, itself included, one needs none  *)
(* of the others, for needs have no circle; the need that failed it did      *)
(* start, and settled otherwise than done: it parked.                        *)
THEOREM NothingIsLeftPendingForNothing == Safety => []PendingHasACause
<1>1. Init => GaveUpForANeed
  BY DEF Init, GaveUpForANeed
<1>2. IInv /\ GaveUpForANeed => PendingHasACause
  <2> SUFFICES ASSUME IInv, GaveUpForANeed, main # "executing", ~cancelled,
                      NEW j \in Job, j \notin started
               PROVE  \E a \in Upstream(j) : IsParked(a)
    BY DEF PendingHasACause
  <2> DEFINE Idle == {a \in Upstream(j) \cup {j} : a \notin started}
  <2>1. \A k \in Job : pc[k] = "closed" /\ k \in settled /\ JobInv(k)
    BY DEF IInv, RunInv, JobInv
  <2>2. Idle \in (SUBSET Job) \ {{}}
    BY NeedsAreUpstream
  <2>3. PICK s \in Idle : NeedsOf[s] \cap Idle = {}
    BY <2>2, AcyclicAssumption
  <2>4. PICK n \in NeedsOf[s] : state[n] # "done"
    BY <2>1, <2>2, <2>3 DEF GaveUpForANeed
  <2>5. n \in Upstream(j) /\ n \in Job
    BY <2>3, <2>4, NeedsAreUpstream
  <2>6. n \in started
    BY <2>3, <2>4, <2>5
  <2>7. state[n] = "parked" /\ n \in settled
    BY <2>1, <2>4, <2>5, <2>6 DEF JobInv, Fresh, WalkedAll, WalkedInto
  <2> QED BY <2>5, <2>7 DEF IsParked
<1> QED BY <1>1, <1>2, NextGaveUp, Invariance, PTL DEF Safety

-----------------------------------------------------------------------------
(* What a cancelled run cannot do any more.                                *)

\* A job that still has to start a process in a cancelled run has not ended
\* done.
Doomed(j) ==
  /\ cancelled
  /\ IF pc[j] \in {"waiting", "evaluating"} THEN NeverRan(j)
                                            ELSE state[j] # "done"

LEMMA DoomedForGood ==
  ASSUME NEW j \in Job
  PROVE  IInv /\ Doomed(j) /\ [Next]_vars => Doomed(j)'
<1> SUFFICES ASSUME IInv, Doomed(j), [Next]_vars PROVE Doomed(j)'
  OBVIOUS
<1>0. TypeOK /\ JobInv(j) /\ \A k \in Job : JobInv(k)
  BY DEF IInv
<1>1. CASE UNCHANGED <<jobVars, cancelled>>
  BY <1>1 DEF Doomed, NeverRan, jobVars
<1>2. CASE MainStep \/ Cancel \/ Over
  <2>1. UNCHANGED jobVars /\ (cancelled => cancelled')
    BY <1>2 DEF MainStep, Join, WriteRecord, WriteRecordFails, Return, Cancel,
      Over, vars
  <2> QED BY <2>1 DEF Doomed, NeverRan, jobVars
<1>3. ASSUME NEW k \in Job, k # j, JobStep(k) \/ Touch(k) \/ ProcessEnds(k)
      PROVE  Doomed(j)'
  <2>1. SameElsewhere(k) /\ cancelled' = cancelled
    BY <1>0, <1>3, OneJobMoves
  <2> QED BY <1>3, <2>1 DEF Doomed, NeverRan, SameElsewhere
<1>4. CASE JobStep(j) \/ Touch(j) \/ ProcessEnds(j)
  <2>1. cancelled /\ cancelled'
    BY <1>0, <1>4, OneJobMoves DEF Doomed
  <2>2. CASE pc[j] \notin {"waiting", "evaluating"}
    <3>1. Settle(j)
      BY <1>0, <1>4, <2>2 DEF JobInv, JobStep, NeedMet, NeedFailed, GiveUp,
        Release, EnsureJob, Launch, LaunchFails, OutputPresent, OutputMissing,
        AllPassed, Settle, Touch, ProcessEnds, StillNeeds, Evaluating
    <3> QED BY <1>0, <2>1, <2>2, <3>1 DEF Doomed, Settle, TypeOK
  <2>3. CASE pc[j] = "waiting"
    <3>1. NeedMet(j) \/ NeedFailed(j) \/ GiveUp(j)
      BY <1>0, <1>4, <2>1, <2>3 DEF JobInv, JobStep, Release, EnsureJob, Launch,
        LaunchFails, OutputPresent, OutputMissing, AllPassed, Settle, Touch,
        ProcessEnds, Evaluating
    <3>2. state[j] = "pending"
      BY <1>0, <2>3 DEF JobInv, Fresh
    <3>3. CASE NeedMet(j)
      BY <2>1, <2>3, <3>3 DEF Doomed, NeverRan, NeedMet
    <3>4. CASE NeedFailed(j) \/ GiveUp(j)
      BY <1>0, <2>1, <2>3, <3>2, <3>4 DEF Doomed, NeedFailed, GiveUp, TypeOK
    <3> QED BY <3>1, <3>3, <3>4
  <2>4. CASE pc[j] = "evaluating"
    <3>0. /\ j \notin alive /\ at[j] \in Nat \ {0}
          /\ \E i \in at[j] .. Len(Evidence(j)) : IsProcess(Evidence(j)[i])
          /\ Len(Evidence(j)) \in Nat
      BY <1>0, <2>4, EvidenceIsASequence DEF Doomed, NeverRan, TypeOK
    <3>1. \/ EnsureJob(j) \/ LaunchFails(j) \/ OutputPresent(j) \/ OutputMissing(j)
      BY <1>0, <1>4, <2>1, <2>4, <3>0 DEF JobStep, NeedMet, NeedFailed, GiveUp,
        Release, Launch, AllPassed, Settle, Touch, ProcessEnds, StillNeeds
    <3>2. CASE Park(j)
      BY <1>0, <2>1, <3>2 DEF Doomed, Park, TypeOK
    <3>3. CASE Pass(j) /\ ~IsProcess(Under(j)) /\ alive' = alive
      <4>1. at'[j] = at[j] + 1 /\ pc' = pc
        BY <1>0, <3>3 DEF Pass, TypeOK
      <4>2. PICK i \in at[j] .. Len(Evidence(j)) : IsProcess(Evidence(j)[i])
        BY <3>0
      <4>3. i # at[j]
        BY <3>3, <4>2 DEF Under
      <4>4. i \in at'[j] .. Len(Evidence(j))
        BY <3>0, <4>1, <4>3
      <4> QED BY <2>1, <2>4, <3>0, <3>3, <4>1, <4>2, <4>4 DEF Doomed, NeverRan
    <3> QED BY <3>1, <3>2, <3>3 DEF EnsureJob, LaunchFails, OutputPresent,
      OutputMissing, IsProcess
  <2> QED BY <1>0, <2>2, <2>3, <2>4
<1> QED BY <1>1, <1>2, <1>3, <1>4 DEF Next, vars

(* Cancelled with a step or its executor still to start, a job never ends    *)
(* done, whatever its processes left behind.                                 *)
THEOREM ACancelledJobCannotPass == Safety => CancelledCannotPass
<1>1. ASSUME NEW j \in Job
      PROVE  Safety => [](NeverRan(j) => [](~IsDone(j)))
  <2>1. NeverRan(j) => Doomed(j)
    BY DEF NeverRan, Doomed
  <2>2. IInv /\ Doomed(j) => ~IsDone(j)
    BY DEF IInv, JobInv, Doomed, IsDone
  <2>3. IInv /\ Doomed(j) /\ [Next]_vars => Doomed(j)'
    BY DoomedForGood
  <2> QED BY <2>1, <2>2, <2>3, Invariance, PTL DEF Safety
<1> QED BY <1>1 DEF CancelledCannotPass

-----------------------------------------------------------------------------
(* Steps.                                                                  *)

(* Once settled, a job's record is never written again.                      *)
THEOREM SettledRecordsAreFinal == Safety => SettledIsFinal
<1>1. IInv /\ [Next]_vars =>
        [\A j \in settled :
           /\ j \in settled'
           /\ state'[j] = state[j]
           /\ failure'[j] = failure[j]
           /\ passed'[j] = passed[j]
           /\ j \in started' <=> j \in started]_vars
  <2> SUFFICES ASSUME IInv, Next, NEW j \in settled
               PROVE  /\ j \in settled'
                      /\ state'[j] = state[j]
                      /\ failure'[j] = failure[j]
                      /\ passed'[j] = passed[j]
                      /\ j \in started' <=> j \in started
    BY Zenon
  <2>1. j \in Job /\ pc[j] = "closed" /\ j \notin alive
    BY DEF IInv, TypeOK, JobInv
  <2>2. CASE MainStep \/ Cancel \/ Over
    BY <2>2 DEF MainStep, Join, WriteRecord, WriteRecordFails, Return, Cancel,
                Over, vars, jobVars
  <2>3. ASSUME NEW k \in Job, JobStep(k) \/ Touch(k) \/ ProcessEnds(k)
        PROVE  k # j /\ SameElsewhere(k)
    <3>1. TypeOK /\ JobInv(k)
      BY DEF IInv
    <3>2. k # j
      BY <2>1, <2>3 DEF JobStep, NeedMet, NeedFailed, GiveUp, Release,
        EnsureJob, Launch, LaunchFails, OutputPresent, OutputMissing, AllPassed,
        Settle, Touch, ProcessEnds, StillNeeds, Evaluating
    <3>3. SameElsewhere(k)
      BY <3>1, <2>3, OneJobMoves
    <3> QED BY <3>2, <3>3
  <2>4. ASSUME NEW k \in Job, JobStep(k) \/ Touch(k) \/ ProcessEnds(k)
        PROVE  /\ j \in settled'
               /\ state'[j] = state[j]
               /\ failure'[j] = failure[j]
               /\ passed'[j] = passed[j]
               /\ j \in started' <=> j \in started
    BY <2>1, <2>3, <2>4 DEF SameElsewhere
  <2> QED BY <2>2, <2>4 DEF Next
<1> QED BY <1>1, Invariance, PTL DEF Safety, SettledIsFinal

-----------------------------------------------------------------------------
(* The scheduler implements the abstract run.                              *)

LEMMA InitRefines == Init => KR!Init
BY DEF Init, KR!Init, Status

(* A step that starts no job, settles none and leaves the settled records    *)
(* alone does not show in the abstract run.                                  *)
LEMMA StatusStutters ==
  ASSUME started' = started, settled' = settled, settled \subseteq Job,
         \A j \in settled : state'[j] = state[j]
  PROVE  Status' = Status
BY DEF Status

LEMMA StepRefines ==
  IInv /\ IInv' /\ [Next]_vars => [KR!Next]_(KR!abstractVars)
<1> SUFFICES ASSUME IInv, IInv', [Next]_vars
             PROVE  KR!Next \/ UNCHANGED KR!abstractVars
  OBVIOUS
<1> USE DEF jobVars, runVars
<1>0. TypeOK /\ TypeOK' /\ RunInv /\ \A j \in Job : JobInv(j)
  BY DEF IInv
<1>1. CASE UNCHANGED vars
  BY <1>1 DEF vars, Status, KR!abstractVars
<1>2. ASSUME NEW k \in Job, Release(k)
      PROVE  KR!Start(k)
  <2>1. /\ recorded = "none" /\ recorded' = recorded
        /\ k \notin started /\ k \notin settled
    BY <1>0, <1>2 DEF Release, JobInv, Fresh, RunInv, TypeOK
  <2>2. \A n \in NeedsOf[k] : Status[n] = "done"
    <3> SUFFICES ASSUME NEW n \in NeedsOf[k] PROVE Status[n] = "done"
      OBVIOUS
    <3>1. Needs[k] \in Seq(Job)
      BY NeedsAssumption
    <3>2. PICK i \in 1 .. Len(Needs[k]) : n = Needs[k][i]
      BY DEF NeedsOf
    <3>3. n \in Job /\ IsDone(n)
      BY <1>0, <1>2, <3>1, <3>2 DEF Release, JobInv
    <3>4. n \in started
      BY <1>0, <3>3 DEF JobInv, IsDone, Fresh, WalkedAll, WalkedInto, Walked
    <3> QED BY <3>3, <3>4 DEF Status, IsDone
  <2>3. Status' = [Status EXCEPT ![k] = "running"]
    <3>1. /\ started' = started \cup {k} /\ settled' = settled
          /\ \A j \in Job \ {k} : state'[j] = state[j]
      BY <1>0, <1>2 DEF Release, TypeOK
    <3>2. \A j \in Job : Status'[j] = IF j = k THEN "running" ELSE Status[j]
      BY <2>1, <3>1 DEF Status
    <3> QED BY <3>2 DEF Status
  <2>4. Status[k] = "pending"
    BY <2>1 DEF Status
  <2> QED BY <2>1, <2>2, <2>3, <2>4 DEF KR!Start
<1>3. ASSUME NEW k \in Job, Settle(k)
      PROVE  KR!Finish(k) \/ UNCHANGED KR!abstractVars
  <2>1. /\ recorded = "none" /\ recorded' = recorded /\ k \notin settled
        /\ started' = started /\ state' = state /\ settled' = settled \cup {k}
    BY <1>0, <1>3 DEF Settle, JobInv, RunInv, TypeOK
  <2>2. CASE k \notin started
    BY <2>1, <2>2 DEF Status, KR!abstractVars
  <2>3. CASE k \in started
    <3>1. state[k] \in {"done", "parked"}
      BY <1>0, <1>3, <2>3 DEF Settle, JobInv, Fresh, WalkedAll, WalkedInto
    <3>2. Status[k] = "running" /\ Status' = [Status EXCEPT ![k] = state[k]]
      BY <2>1, <2>3 DEF Status
    <3> QED BY <2>1, <3>1, <3>2 DEF KR!Finish
  <2> QED BY <2>2, <2>3
<1>4. ASSUME NEW k \in Job, JobStep(k) \/ Touch(k) \/ ProcessEnds(k),
             ~Release(k), ~Settle(k)
      PROVE  UNCHANGED KR!abstractVars
  <2>1. started' = started /\ settled' = settled /\ recorded' = recorded
    BY <1>4 DEF JobStep, NeedMet, NeedFailed, GiveUp, EnsureJob, Launch,
      LaunchFails, OutputPresent, OutputMissing, AllPassed, Touch, ProcessEnds,
      Pass, Park
  <2>2. pc[k] # "closed" /\ \A j \in Job \ {k} : state'[j] = state[j]
    <3>1. TypeOK /\ JobInv(k)
      BY <1>0
    <3>2. SameElsewhere(k) /\ pc[k] # "closed"
      BY <1>4, <3>1, OneJobMoves
    <3> QED BY <3>2 DEF SameElsewhere
  <2>3. settled \subseteq Job /\ k \notin settled
    BY <1>0, <2>2 DEF TypeOK, JobInv
  <2>4. Status' = Status
    BY <2>1, <2>2, <2>3, StatusStutters
  <2> QED BY <2>1, <2>4 DEF KR!abstractVars
<1>5. CASE WriteRecord
  <2>1. /\ recorded = "none" /\ recorded' = outcome
        /\ settled' = settled /\ started' = started /\ state' = state
        /\ outcome = IF AllDone THEN "succeeded" ELSE "parked"
        /\ settled = Job
    <3>1. main = "writing" /\ recorded' = outcome
          /\ settled' = settled /\ started' = started /\ state' = state
      BY <1>5 DEF WriteRecord
    <3>2. recorded = "none" /\ outcome = (IF AllDone THEN "succeeded" ELSE "parked")
          /\ \A j \in Job : pc[j] = "closed"
      BY <1>0, <3>1 DEF RunInv
    <3>3. settled = Job
      <4>1. settled \subseteq Job
        BY <1>0 DEF TypeOK
      <4>2. ASSUME NEW j \in Job PROVE j \in settled
        <5>1. JobInv(j) /\ pc[j] = "closed"
          BY <1>0, <3>2
        <5> QED BY <5>1 DEF JobInv
      <4> QED BY <4>1, <4>2
    <3> QED BY <3>1, <3>2, <3>3
  <2>2. Status' = Status
    BY <2>1 DEF Status
  <2>3. \A j \in Job : Status[j] # "running"
    BY <1>0, <2>1 DEF Status, TypeOK
  <2>4. AllDone <=> \A j \in Job : Status[j] = "done"
    <3>1. \A j \in Job : state[j] = "done" => j \in started
      BY <1>0, <2>1 DEF JobInv, Fresh, WalkedAll, WalkedInto, Walked
    <3>2. \A j \in Job : Status[j] = "done" <=> state[j] = "done"
      BY <2>1, <3>1 DEF Status
    <3> QED BY <3>2 DEF AllDone
  <2> QED BY <2>1, <2>2, <2>3, <2>4 DEF KR!State, KR!Next
<1>6. CASE Join \/ WriteRecordFails \/ Return \/ Cancel \/ Over
  BY <1>6 DEF Join, WriteRecordFails, Return, Cancel, Over, vars, Status,
              KR!abstractVars
<1> QED BY <1>1, <1>2, <1>3, <1>4, <1>5, <1>6 DEF Next, MainStep, KR!Next

(* A job is running from its start until its record is final, the verdict is *)
(* record.json's: the scheduler is a run as KataRun states it.               *)
THEOREM SchedulerImplementsKataRun == Safety => ImplementsKataRun
BY InitRefines, StepRefines, Invariance, PTL
  DEF Safety, ImplementsKataRun, KR!Spec

=============================================================================
