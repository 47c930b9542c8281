----------------------------- MODULE CycleDetect -----------------------------
(***************************************************************************)
(* kata.Load's last check: the depth-first walk that refuses a workflow    *)
(* whose jobs need each other in a circle.                                 *)
(* internal/kata/kata.go: detectCycle, visit.                              *)
(*                                                                         *)
(* visit calls itself; its call stack is kept as the job whose visit is    *)
(* running and, for each job on the stack, who called it.  Every need      *)
(* names a job by then: validateJob looked at all of them first.           *)
(***************************************************************************)
EXTENDS Naturals, Sequences, FiniteSets

CONSTANTS
  Job,        \* the workflow's jobs
  Order,      \* the jobs in name order, as Jobs() lists them
  NeedLists,  \* the need lists a job may state
  Root        \* detectCycle itself, the caller of the first visits

ASSUME OrderAssumption ==
  Order \in Seq(Job) /\ \A j \in Job : \E i \in 1 .. Len(Order) : Order[i] = j
ASSUME NeedListsAssumption == NeedLists \subseteq Seq(Job)
ASSUME RootAssumption == Root \notin Job

VARIABLES
  needs,    \* needs[j]: what j needs, as the kata lists it
  mark,     \* mark[j]: the state map's entry of j
  next,     \* index in Order of detectCycle's next visit
  current,  \* the job whose visit is running, Root between two visits
  caller,   \* caller[j]: who called the visit of j, for j on the stack
  at,       \* at[j]: index in needs[j] of the need its visit calls next
  verdict   \* what detectCycle returned: "none" while it runs

vars == <<needs, mark, next, current, caller, at, verdict>>

Init ==
  /\ needs \in [Job -> NeedLists]
  /\ mark = [j \in Job |-> "unvisited"]
  /\ next = 1
  /\ current = Root
  /\ caller = [j \in Job |-> Root]
  /\ at = [j \in Job |-> 1]
  /\ verdict = "none"

-----------------------------------------------------------------------------

\* Mutant: two colours, where a job seen before is a job on the stack.
VisitTwoColours(j) ==
  \/ /\ mark[j] # "unvisited"
     /\ verdict' = "cycle"
     /\ UNCHANGED <<mark, current, caller>>
  \/ /\ mark[j] = "unvisited"
     /\ mark' = [mark EXCEPT ![j] = "visiting"]
     /\ caller' = [caller EXCEPT ![j] = current]
     /\ current' = j
     /\ UNCHANGED verdict

\* Mutant: a job is marked on the way out only.
VisitUnmarked(j) ==
  \/ /\ mark[j] = "visited"
     /\ UNCHANGED <<mark, current, caller, verdict>>
  \/ /\ mark[j] = "unvisited"
     /\ caller' = [caller EXCEPT ![j] = current]
     /\ current' = j
     /\ UNCHANGED <<mark, verdict>>

\* visit(j), called by current: a job on the stack is a cycle, one whose visit
\* has returned is nothing new, any other goes on the stack.
Visit(j) ==
  \/ /\ mark[j] = "visiting"
     /\ verdict' = "cycle"
     /\ UNCHANGED <<mark, current, caller>>
  \/ /\ mark[j] = "visited"
     /\ UNCHANGED <<mark, current, caller, verdict>>
  \/ /\ mark[j] = "unvisited"
     /\ mark' = [mark EXCEPT ![j] = "visiting"]
     /\ caller' = [caller EXCEPT ![j] = current]
     /\ current' = j
     /\ UNCHANGED verdict

\* detectCycle's loop.
VisitNext ==
  /\ verdict = "none"
  /\ current = Root
  /\ next <= Len(Order)
  /\ Visit(Order[next])
  /\ next' = next + 1
  /\ UNCHANGED <<needs, at>>

\* Mutant: the loop advances in its body and in its head.
VisitNeedSkipping ==
  /\ verdict = "none"
  /\ current # Root
  /\ at[current] <= Len(needs[current])
  /\ Visit(needs[current][at[current]])
  /\ at' = [at EXCEPT ![current] = @ + 2]
  /\ UNCHANGED <<needs, next>>

\* visit's loop.
VisitNeed ==
  /\ verdict = "none"
  /\ current # Root
  /\ at[current] <= Len(needs[current])
  /\ Visit(needs[current][at[current]])
  /\ at' = [at EXCEPT ![current] = @ + 1]
  /\ UNCHANGED <<needs, next>>

\* A visit that saw all its needs returns to its caller.
Return ==
  /\ verdict = "none"
  /\ current # Root
  /\ at[current] = Len(needs[current]) + 1
  /\ mark' = [mark EXCEPT ![current] = "visited"]
  /\ current' = caller[current]
  /\ UNCHANGED <<needs, next, caller, at, verdict>>

\* Every job was visited and no visit met the stack.
Accept ==
  /\ verdict = "none"
  /\ current = Root
  /\ next = Len(Order) + 1
  /\ verdict' = "acyclic"
  /\ UNCHANGED <<needs, mark, next, current, caller, at>>

Over == verdict # "none" /\ UNCHANGED vars

Next == VisitNext \/ VisitNeed \/ Return \/ Accept \/ Over

Safety == Init /\ [][Next]_vars

\* A sequential function runs.
Spec == Safety /\ WF_vars(Next)

-----------------------------------------------------------------------------

NeedsOf(j) == {needs[j][i] : i \in 1 .. Len(needs[j])}

\* No jobs need each other in a circle: among any jobs one needs none of them.
Acyclic == \A S \in (SUBSET Job) \ {{}} : \E s \in S : NeedsOf(s) \cap S = {}

\* Every variable keeps its type.
TypeOK ==
  /\ needs \in [Job -> NeedLists]
  /\ mark \in [Job -> {"unvisited", "visiting", "visited"}]
  /\ next \in 1 .. Len(Order) + 1
  /\ current \in Job \cup {Root}
  /\ caller \in [Job -> Job \cup {Root}]
  /\ at \in [Job -> Nat \ {0}]
  /\ \A j \in Job : at[j] <= Len(needs[j]) + 1
  /\ verdict \in {"none", "cycle", "acyclic"}

\* detectCycle is right both ways: what it lets through is acyclic - the
\* scheduler's goroutines never wait for each other in a circle - and what it
\* refuses has a cycle, however often a need is listed or reached.
VerdictIsRight ==
  /\ verdict = "acyclic" => Acyclic
  /\ verdict = "cycle" => ~Acyclic

\* The walk ends, on every graph: a self-need or a circle does not recurse
\* for ever.
Returns == <>(verdict # "none")

-----------------------------------------------------------------------------
(* Why it holds: the inductive invariant.                                  *)

\* The need whose visit j, a job on the stack, is waiting for.
Called(j) == needs[j][at[j] - 1]

OnStack(j) == mark[j] = "visiting"

\* The caller links are a call stack: the running visit is on it, a job below
\* waits for the job it called, which knows it for its caller, and the job at
\* the bottom is the one detectCycle called last.
StackInv ==
  /\ current # Root => OnStack(current)
  /\ \A j \in Job : OnStack(j) /\ j # current =>
       at[j] > 1 /\ OnStack(Called(j)) /\ caller[Called(j)] = j
  /\ \A j \in Job : OnStack(j) /\ caller[j] # Root =>
       OnStack(caller[j]) /\ caller[j] # current /\ Called(caller[j]) = j
  /\ \A j \in Job : OnStack(j) /\ caller[j] = Root =>
       current # Root /\ next > 1 /\ j = Order[next - 1]

\* A visit starts at the first need; a need behind its position has been
\* visited, but for the one the visit is waiting for.
WalkInv ==
  /\ \A j \in Job : mark[j] = "unvisited" => at[j] = 1
  /\ \A j \in Job : mark[j] = "visited" =>
       \A n \in NeedsOf(j) : mark[n] = "visited"
  /\ \A j \in Job : mark[j] = "visiting" =>
       \A i \in 1 .. at[j] - 1 :
         mark[needs[j][i]] = "visited" \/ (j # current /\ i = at[j] - 1)
  /\ \A i \in 1 .. next - 1 :
       mark[Order[i]] = "visited" \/ (current # Root /\ i = next - 1)

\* Among any visited jobs one needs none of them.
VisitedInv ==
  \A S \in (SUBSET {j \in Job : mark[j] = "visited"}) \ {{}} :
    \E s \in S : NeedsOf(s) \cap S = {}

IInv ==
  /\ TypeOK
  /\ verdict # "cycle" => StackInv /\ WalkInv /\ VisitedInv
  /\ VerdictIsRight

=============================================================================
