-------------------------- MODULE CycleDetectProofs --------------------------
(***************************************************************************)
(* What detectCycle decides, for every workflow: proofs about CycleDetect. *)
(***************************************************************************)
EXTENDS CycleDetect, TLAPS

-----------------------------------------------------------------------------
(* A job's need is one of its needs, and a job.                            *)

LEMMA NeedIsAJob ==
  ASSUME TypeOK, NEW j \in Job, NEW i \in 1 .. Len(needs[j])
  PROVE  needs[j][i] \in Job /\ needs[j][i] \in NeedsOf(j)
<1>1. needs[j] \in Seq(Job)
  BY NeedListsAssumption DEF TypeOK
<1>2. needs[j][i] \in Job
  BY <1>1
<1>3. QED
  BY <1>2 DEF NeedsOf

LEMMA OrderIsOfJobs ==
  ASSUME NEW i \in 1 .. Len(Order)
  PROVE  Order[i] \in Job
BY OrderAssumption

LEMMA Lengths ==
  ASSUME TypeOK
  PROVE  /\ Len(Order) \in Nat /\ next \in Nat \ {0}
         /\ \A j \in Job : Len(needs[j]) \in Nat /\ at[j] \in Nat \ {0}
<1>1. Len(Order) \in Nat
  BY OrderAssumption
<1>2. next \in Nat \ {0}
  BY <1>1 DEF TypeOK
<1>3. \A j \in Job : needs[j] \in Seq(Job)
  BY NeedListsAssumption DEF TypeOK
<1>4. \A j \in Job : Len(needs[j]) \in Nat
  BY <1>3
<1>5. \A j \in Job : at[j] \in Nat \ {0}
  BY DEF TypeOK
<1>6. QED
  BY <1>1, <1>2, <1>4, <1>5

-----------------------------------------------------------------------------
(* The two halves of the verdict.                                          *)

\* A visit that meets the stack has found a circle: each job on the stack
\* needs another on the stack.
LEMMA StackIsACircle ==
  ASSUME TypeOK, StackInv, NEW k \in Job, OnStack(k),
         current # Root =>
           \E i \in 1 .. Len(needs[current]) : needs[current][i] = k
  PROVE  ~Acyclic
<1> DEFINE S == {j \in Job : OnStack(j)}
<1>1. S \in (SUBSET Job) \ {{}}
  OBVIOUS
<1>2. ASSUME NEW s \in S
      PROVE  NeedsOf(s) \cap S # {}
  <2>1. CASE s = current
    <3>1. PICK i \in 1 .. Len(needs[s]) : needs[s][i] = k
      BY <2>1, RootAssumption
    <3>2. k \in NeedsOf(s)
      BY <3>1, NeedIsAJob
    <3>3. QED
      BY <3>2
  <2>2. CASE s # current
    <3>1. at[s] > 1 /\ OnStack(Called(s))
      BY <2>2 DEF StackInv
    <3>2. at[s] - 1 \in 1 .. Len(needs[s])
      <4>1. at[s] \in Nat /\ at[s] <= Len(needs[s]) + 1
        BY DEF TypeOK
      <4>2. Len(needs[s]) \in Nat
        BY NeedListsAssumption DEF TypeOK
      <4>3. QED
        BY <3>1, <4>1, <4>2
    <3>3. Called(s) \in NeedsOf(s) /\ Called(s) \in Job
      BY <3>2, NeedIsAJob DEF Called
    <3>4. QED
      BY <3>1, <3>3
  <2>3. QED
    BY <2>1, <2>2
<1>3. QED
  BY <1>1, <1>2 DEF Acyclic

\* When every job is visited, VisitedInv is about every job.
LEMMA VisitedIsAcyclic ==
  ASSUME TypeOK, VisitedInv, \A j \in Job : mark[j] = "visited"
  PROVE  Acyclic
<1>1. {j \in Job : mark[j] = "visited"} = Job
  OBVIOUS
<1>2. QED
  BY <1>1 DEF Acyclic, VisitedInv

-----------------------------------------------------------------------------
(* The invariant is inductive.                                             *)

LEMMA InitIInv == Init => IInv
<1> SUFFICES ASSUME Init PROVE IInv
  OBVIOUS
<1>0. Len(Order) \in Nat
  BY OrderAssumption
<1>1. TypeOK
  <2>1. \A j \in Job : Len(needs[j]) \in Nat
    BY NeedListsAssumption DEF Init
  <2>2. QED
    BY <1>0, <2>1 DEF Init, TypeOK
<1>2. StackInv
  BY DEF Init, StackInv, OnStack
<1>3. WalkInv
  BY <1>0 DEF Init, WalkInv
<1>4. VisitedInv
  BY DEF Init, VisitedInv
<1>5. VerdictIsRight
  BY DEF Init, VerdictIsRight
<1>6. QED
  BY <1>1, <1>2, <1>3, <1>4, <1>5 DEF IInv

LEMMA TypeStep ==
  ASSUME TypeOK, [Next]_vars
  PROVE  TypeOK'
<1>0. Len(Order) \in Nat /\ \A j \in Job : Len(needs[j]) \in Nat
  BY Lengths
<1> DEFINE Rest(k) ==
      /\ mark' \in [Job -> {"unvisited", "visiting", "visited"}]
      /\ current' \in Job \cup {Root}
      /\ caller' \in [Job -> Job \cup {Root}]
      /\ verdict' \in {"none", "cycle", "acyclic"}
<1>1. ASSUME NEW k \in Job, Visit(k)
      PROVE  Rest(k)
  BY <1>1 DEF Visit, TypeOK
<1>2. CASE VisitNext
  <2>1. Order[next] \in Job
    BY <1>2, OrderIsOfJobs DEF VisitNext, TypeOK
  <2>2. Rest(Order[next])
    BY <1>1, <1>2, <2>1 DEF VisitNext
  <2>3. QED
    BY <1>0, <1>2, <2>2 DEF VisitNext, TypeOK
<1>3. CASE VisitNeed
  <2>1. current \in Job /\ at[current] \in 1 .. Len(needs[current])
    BY <1>0, <1>3 DEF VisitNeed, TypeOK
  <2>2. needs[current][at[current]] \in Job
    BY <2>1, NeedIsAJob
  <2>3. Rest(needs[current][at[current]])
    BY <1>1, <1>3, <2>2 DEF VisitNeed
  <2>4. /\ at' \in [Job -> Nat \ {0}]
        /\ \A j \in Job : at'[j] <= Len(needs[j]) + 1
    BY <1>0, <1>3, <2>1 DEF VisitNeed, TypeOK
  <2>5. QED
    BY <1>3, <2>3, <2>4 DEF VisitNeed, TypeOK
<1>4. CASE Return
  BY <1>4 DEF Return, TypeOK
<1>5. CASE Accept
  BY <1>5 DEF Accept, TypeOK
<1>6. CASE UNCHANGED vars
  BY <1>6 DEF vars, TypeOK
<1>7. QED
  BY <1>2, <1>3, <1>4, <1>5, <1>6 DEF Next, Over

\* A visit of a job already visited changes no mark and no link.
LEMMA SkipKeeps ==
  ASSUME TypeOK, StackInv, WalkInv, NEW k \in Job, mark[k] = "visited",
         UNCHANGED <<needs, mark, current, caller>>,
         \/ /\ current = Root /\ next \in 1 .. Len(Order) /\ k = Order[next]
            /\ next' = next + 1 /\ at' = at
         \/ /\ current \in Job /\ at[current] \in 1 .. Len(needs[current])
            /\ k = needs[current][at[current]]
            /\ at' = [at EXCEPT ![current] = @ + 1] /\ next' = next
  PROVE  StackInv' /\ WalkInv'
<1>0. /\ Len(Order) \in Nat /\ next \in Nat
      /\ at \in [Job -> Nat \ {0}] /\ \A j \in Job : at[j] \in Nat
  BY Lengths DEF TypeOK
<1>1. \A j \in Job \ {current} : at'[j] = at[j]
  BY <1>0
<1>2. StackInv'
  <2>1. \A j \in Job \ {current} : Called(j)' = Called(j)
    BY <1>1 DEF Called
  <2>2. \A j \in Job : caller[j] \in Job \cup {Root}
    BY DEF TypeOK
  <2>3. QED
    BY <1>0, <1>1, <2>1, <2>2 DEF StackInv, OnStack
<1>3. WalkInv'
  <2>1. \A j \in Job : mark[j] = "visited" =>
          \A n \in NeedsOf(j)' : mark'[n] = "visited"
    BY DEF WalkInv, NeedsOf
  <2>2. ASSUME NEW j \in Job, mark[j] = "visiting", NEW i \in 1 .. at'[j] - 1
        PROVE  mark[needs[j][i]] = "visited" \/ (j # current /\ i = at'[j] - 1)
    <3>1. CASE j # current
      BY <1>1, <2>2, <3>1 DEF WalkInv
    <3>2. CASE j = current
      <4>1. at'[j] = at[j] + 1 /\ k = needs[j][at[j]]
        BY <1>0, <3>2, RootAssumption
      <4>2. i \in 1 .. at[j] - 1 \/ i = at[j]
        BY <1>0, <4>1
      <4>3. QED
        BY <2>2, <3>2, <4>1, <4>2 DEF WalkInv
    <3>3. QED
      BY <3>1, <3>2
  <2>3. ASSUME NEW i \in 1 .. next' - 1
        PROVE  mark[Order[i]] = "visited" \/ (current # Root /\ i = next' - 1)
    <3>1. CASE current = Root
      <4>1. i \in 1 .. next - 1 \/ i = next
        BY <1>0, <3>1, RootAssumption
      <4>2. QED
        BY <3>1, <4>1, RootAssumption DEF WalkInv
    <3>2. CASE current # Root
      BY <3>2 DEF WalkInv
    <3>3. QED
      BY <3>1, <3>2
  <2>4. \A j \in Job : mark[j] = "unvisited" => at'[j] = 1
    <3>1. \A j \in Job : mark[j] = "unvisited" => j # current
      BY RootAssumption DEF StackInv, OnStack
    <3>2. QED
      BY <1>1, <3>1 DEF WalkInv
  <2>5. QED
    BY <2>1, <2>2, <2>3, <2>4 DEF WalkInv
<1>4. QED
  BY <1>2, <1>3

\* A visit of a new job puts it on the stack.
LEMMA EnterKeeps ==
  ASSUME TypeOK, StackInv, WalkInv, NEW k \in Job, mark[k] = "unvisited",
         needs' = needs, mark' = [mark EXCEPT ![k] = "visiting"],
         caller' = [caller EXCEPT ![k] = current], current' = k,
         \/ /\ current = Root /\ next \in 1 .. Len(Order) /\ k = Order[next]
            /\ next' = next + 1 /\ at' = at
         \/ /\ current \in Job /\ at[current] \in 1 .. Len(needs[current])
            /\ k = needs[current][at[current]]
            /\ at' = [at EXCEPT ![current] = @ + 1] /\ next' = next
  PROVE  StackInv' /\ WalkInv'
<1>0. /\ Len(Order) \in Nat /\ next \in Nat
      /\ at \in [Job -> Nat \ {0}] /\ \A j \in Job : at[j] \in Nat
  BY Lengths DEF TypeOK
<1>1. \A j \in Job \ {current} : at'[j] = at[j] /\ Called(j)' = Called(j)
  BY <1>0 DEF Called
<1>2. current # k
  BY RootAssumption DEF StackInv, OnStack
<1>3. /\ mark' \in [Job -> {"unvisited", "visiting", "visited"}]
      /\ mark'[k] = "visiting" /\ at'[k] = 1 /\ caller'[k] = current
      /\ \A j \in Job \ {k} : mark'[j] = mark[j] /\ caller'[j] = caller[j]
  BY <1>0, <1>1, <1>2 DEF TypeOK, WalkInv
<1>4. ASSUME NEW c \in Job, c = current
      PROVE  /\ OnStack(c) /\ at'[c] = at[c] + 1 /\ at'[c] > 1
             /\ Called(c)' = k
  <2>1. OnStack(c) /\ at[c] \in Nat \ {0}
    BY <1>0, <1>4, RootAssumption DEF StackInv, TypeOK
  <2>2. at'[c] = at[c] + 1 /\ k = needs[c][at[c]]
    BY <1>0, <1>4, <2>1, RootAssumption
  <2>3. at'[c] - 1 = at[c]
    BY <2>1, <2>2
  <2>4. Called(c)' = k
    BY <2>2, <2>3 DEF Called
  <2>5. QED
    BY <2>1, <2>2, <2>4
<1>5. StackInv'
  <2>1. OnStack(k)'
    BY <1>3 DEF OnStack
  <2>2. ASSUME NEW j \in Job, OnStack(j)', j # k
        PROVE  at'[j] > 1 /\ OnStack(Called(j))' /\ caller'[Called(j)'] = j
    <3>1. OnStack(j)
      BY <1>3, <2>2 DEF OnStack
    <3>2. CASE j = current
      <4>1. at'[j] > 1 /\ Called(j)' = k
        BY <1>4, <3>2
      <4>2. caller'[k] = j
        BY <1>3, <3>2
      <4>3. QED
        BY <2>1, <4>1, <4>2 DEF OnStack
    <3>3. CASE j # current
      <4>1. /\ at[j] > 1 /\ OnStack(Called(j)) /\ caller[Called(j)] = j
            /\ at'[j] = at[j] /\ Called(j)' = Called(j)
        BY <1>1, <3>1, <3>3 DEF StackInv
      <4>2. Called(j) # k /\ Called(j) \in Job
        <5>1. at[j] - 1 \in 1 .. Len(needs[j])
          <6>1. at[j] <= Len(needs[j]) + 1 /\ Len(needs[j]) \in Nat
            BY Lengths DEF TypeOK
          <6>2. QED
            BY <1>0, <4>1, <6>1
        <5>2. Called(j) \in Job
          BY <5>1, NeedIsAJob DEF Called
        <5>3. QED
          BY <4>1, <5>2 DEF OnStack
      <4>3. QED
        BY <1>3, <4>1, <4>2 DEF OnStack
    <3>4. QED
      BY <3>2, <3>3
  <2>3. ASSUME NEW j \in Job, OnStack(j)', caller'[j] # Root
        PROVE  /\ OnStack(caller[j])' /\ caller'[j] # k
               /\ Called(caller[j])' = j
    <3>1. CASE j = k
      <4>1. PICK c \in Job : c = current /\ caller'[j] = c
        BY <1>3, <2>3, <3>1 DEF TypeOK
      <4>2. OnStack(c) /\ Called(c)' = k
        BY <1>4, <4>1
      <4>3. QED
        BY <1>2, <1>3, <3>1, <4>1, <4>2 DEF OnStack, Called
    <3>2. CASE j # k
      <4>1. /\ OnStack(j) /\ caller'[j] = caller[j] /\ caller[j] # Root
        BY <1>3, <2>3, <3>2 DEF OnStack
      <4>2. /\ OnStack(caller[j]) /\ caller[j] # current
            /\ Called(caller[j]) = j /\ caller[j] \in Job
        BY <4>1 DEF StackInv, TypeOK
      <4>3. caller[j] # k
        BY <4>2 DEF OnStack
      <4>4. QED
        BY <1>1, <1>3, <4>1, <4>2, <4>3 DEF OnStack, Called
    <3>3. QED
      BY <3>1, <3>2
  <2>4. ASSUME NEW j \in Job, OnStack(j)', caller'[j] = Root
        PROVE  next' > 1 /\ j = Order[next' - 1]
    <3>1. CASE j = k
      BY <1>0, <1>3, <2>4, <3>1, RootAssumption
    <3>2. CASE j # k
      <4>1. OnStack(j) /\ caller[j] = Root
        BY <1>3, <2>4, <3>2 DEF OnStack
      <4>2. current # Root /\ next > 1 /\ j = Order[next - 1]
        BY <4>1 DEF StackInv
      <4>3. QED
        BY <4>2
    <3>3. QED
      BY <3>1, <3>2
  <2>5. k # Root
    BY RootAssumption
  <2>6. QED
    BY <2>1, <2>2, <2>3, <2>4, <2>5 DEF StackInv
<1>6. WalkInv'
  <2>1. \A j \in Job : mark'[j] = "unvisited" => at'[j] = 1
    <3>1. ASSUME NEW j \in Job, mark'[j] = "unvisited"
          PROVE  j # current /\ j # k /\ mark[j] = "unvisited"
      <4>1. j # k /\ mark[j] = "unvisited"
        BY <1>3, <3>1
      <4>2. j # current
        BY <1>4, <4>1 DEF OnStack
      <4>3. QED
        BY <4>1, <4>2
    <3>2. QED
      BY <1>1, <3>1 DEF WalkInv
  <2>2. ASSUME NEW j \in Job, mark'[j] = "visited", NEW n \in NeedsOf(j)'
        PROVE  mark'[n] = "visited"
    <3>1. mark[j] = "visited" /\ n \in NeedsOf(j)
      BY <1>3, <2>2 DEF NeedsOf
    <3>2. mark[n] = "visited" /\ n # k
      BY <3>1 DEF WalkInv
    <3>3. QED
      BY <3>2 DEF TypeOK
  <2>3. ASSUME NEW j \in Job, mark'[j] = "visiting", NEW i \in 1 .. at'[j] - 1
        PROVE  mark'[needs[j][i]] = "visited" \/ (j # k /\ i = at'[j] - 1)
    <3>1. j # k
      BY <1>3, <2>3
    <3>2. mark[j] = "visiting"
      BY <1>3, <2>3, <3>1
    <3>3. \A n : mark[n] = "visited" => mark'[n] = "visited"
      BY DEF TypeOK
    <3>4. CASE j = current
      <4>1. i \in 1 .. at[j] - 1 \/ i = at'[j] - 1
        BY <1>0, <1>4, <3>4, RootAssumption
      <4>2. QED
        BY <3>1, <3>2, <3>3, <3>4, <4>1 DEF WalkInv
    <3>5. CASE j # current
      BY <1>1, <3>1, <3>2, <3>3, <3>5 DEF WalkInv
    <3>6. QED
      BY <3>4, <3>5
  <2>4. ASSUME NEW i \in 1 .. next' - 1
        PROVE  mark'[Order[i]] = "visited" \/ (k # Root /\ i = next' - 1)
    <3>1. \A n : mark[n] = "visited" => mark'[n] = "visited"
      BY DEF TypeOK
    <3>2. CASE current = Root
      <4>1. i \in 1 .. next - 1 \/ i = next' - 1
        BY <1>0, <3>2, RootAssumption
      <4>2. QED
        BY <3>1, <3>2, <4>1, RootAssumption DEF WalkInv
    <3>3. CASE current # Root
      BY <3>1, <3>3, RootAssumption DEF WalkInv
    <3>4. QED
      BY <3>2, <3>3
  <2>5. QED
    BY <2>1, <2>2, <2>3, <2>4 DEF WalkInv
<1>7. QED
  BY <1>5, <1>6

\* A visit that returns leaves the stack to its caller, and one more visited
\* job, whose needs all were visited before.
LEMMA ReturnKeeps ==
  ASSUME TypeOK, StackInv, WalkInv, VisitedInv, Return
  PROVE  StackInv' /\ WalkInv' /\ VisitedInv'
<1>0. /\ Len(Order) \in Nat /\ next \in Nat
      /\ \A j \in Job : at[j] \in Nat /\ Len(needs[j]) \in Nat
  BY Lengths
<1>1. PICK c \in Job : c = current
  BY DEF Return, TypeOK
<1>2. OnStack(c) /\ at[c] = Len(needs[c]) + 1
  BY <1>1 DEF Return, StackInv
<1>3. /\ needs' = needs /\ next' = next /\ caller' = caller /\ at' = at
      /\ current' = caller[c] /\ mark'[c] = "visited"
      /\ \A j \in Job \ {c} : mark'[j] = mark[j]
  BY <1>1 DEF Return, TypeOK
<1>4. \A j \in Job : Called(j)' = Called(j)
  BY <1>3 DEF Called
<1>5. \A j \in Job : OnStack(j)' <=> OnStack(j) /\ j # c
  BY <1>3 DEF OnStack
<1>6. caller[c] \in Job \cup {Root}
  BY DEF TypeOK
<1>7. StackInv'
  <2>1. caller[c] # Root => OnStack(caller[c])'
    BY <1>1, <1>2, <1>3, <1>6 DEF StackInv, OnStack
  <2>2. ASSUME NEW j \in Job, OnStack(j)', j # caller[c]
        PROVE  at[j] > 1 /\ OnStack(Called(j))' /\ caller[Called(j)] = j
    <3>1. OnStack(j) /\ j # c
      BY <1>5, <2>2
    <3>2. at[j] > 1 /\ OnStack(Called(j)) /\ caller[Called(j)] = j
      BY <1>1, <3>1 DEF StackInv
    <3>3. Called(j) # c
      BY <2>2, <3>2
    <3>4. Called(j) \in Job
      <4>1. at[j] <= Len(needs[j]) + 1
        BY DEF TypeOK
      <4>2. at[j] - 1 \in 1 .. Len(needs[j])
        BY <1>0, <3>2, <4>1
      <4>3. QED
        BY <4>2, NeedIsAJob DEF Called
    <3>5. QED
      BY <1>3, <1>4, <3>2, <3>3, <3>4 DEF OnStack
  <2>3. ASSUME NEW j \in Job, OnStack(j)', caller[j] # Root
        PROVE  /\ OnStack(caller[j])' /\ caller[j] # caller[c]
               /\ Called(caller[j])' = j
    <3>1. OnStack(j) /\ j # c
      BY <1>5, <2>3
    <3>2. /\ OnStack(caller[j]) /\ caller[j] # c /\ Called(caller[j]) = j
          /\ caller[j] \in Job
      BY <1>1, <2>3, <3>1 DEF StackInv, TypeOK
    <3>3. caller[j] # caller[c]
      BY <1>1, <1>2, <2>3, <3>1, <3>2 DEF StackInv
    <3>4. QED
      BY <1>3, <1>4, <3>2, <3>3 DEF OnStack
  <2>4. ASSUME NEW j \in Job, OnStack(j)', caller[j] = Root
        PROVE  caller[c] # Root /\ next > 1 /\ j = Order[next - 1]
    <3>1. OnStack(j) /\ j # c
      BY <1>5, <2>4
    <3>2. next > 1 /\ j = Order[next - 1]
      BY <2>4, <3>1 DEF StackInv
    <3>3. caller[c] = Root => c = Order[next - 1]
      BY <1>2 DEF StackInv
    <3>4. QED
      BY <3>1, <3>2, <3>3
  <2>5. QED
    BY <1>3, <1>4, <2>1, <2>2, <2>3, <2>4 DEF StackInv, OnStack
\* Every need of c was visited.
<1>8. \A i \in 1 .. Len(needs[c]) : mark[needs[c][i]] = "visited"
  BY <1>0, <1>1, <1>2 DEF WalkInv, OnStack
<1>9. \A n : mark[n] = "visited" => mark'[n] = "visited"
  BY DEF Return, TypeOK
<1>10. WalkInv'
  <2>1. \A j \in Job : mark'[j] = "unvisited" => at[j] = 1
    BY <1>3 DEF WalkInv
  <2>2. ASSUME NEW j \in Job, mark'[j] = "visited", NEW n \in NeedsOf(j)
        PROVE  mark'[n] = "visited"
    <3>1. CASE j = c
      BY <1>8, <1>9, <2>2, <3>1 DEF NeedsOf
    <3>2. CASE j # c
      BY <1>3, <1>9, <2>2, <3>2 DEF WalkInv
    <3>3. QED
      BY <3>1, <3>2
  <2>3. ASSUME NEW j \in Job, mark'[j] = "visiting", NEW i \in 1 .. at[j] - 1
        PROVE  \/ mark'[needs[j][i]] = "visited"
               \/ j # caller[c] /\ i = at[j] - 1
    <3>1. j # c /\ mark[j] = "visiting"
      BY <1>3, <2>3
    <3>2. mark[needs[j][i]] = "visited" \/ i = at[j] - 1
      BY <2>3, <3>1 DEF WalkInv
    <3>3. ASSUME i = at[j] - 1, j = caller[c]
          PROVE  mark'[needs[j][i]] = "visited"
      <4>1. Called(caller[c]) = c
        BY <1>2, <3>3, RootAssumption DEF StackInv
      <4>2. QED
        BY <1>3, <3>3, <4>1 DEF Called
    <3>4. QED
      BY <1>9, <3>2, <3>3
  <2>4. ASSUME NEW i \in 1 .. next - 1
        PROVE  mark'[Order[i]] = "visited" \/ (caller[c] # Root /\ i = next - 1)
    <3>1. mark[Order[i]] = "visited" \/ i = next - 1
      BY DEF WalkInv
    <3>2. caller[c] = Root => c = Order[next - 1]
      BY <1>2 DEF StackInv
    <3>3. QED
      BY <1>3, <1>9, <3>1, <3>2
  <2>5. \A j \in Job : NeedsOf(j)' = NeedsOf(j)
    BY <1>3 DEF NeedsOf
  <2>6. QED
    BY <1>3, <2>1, <2>2, <2>3, <2>4, <2>5 DEF WalkInv
<1>11. VisitedInv'
  <2> DEFINE V == {j \in Job : mark[j] = "visited"}
  <2>1. \A j \in Job : NeedsOf(j)' = NeedsOf(j)
    BY <1>3 DEF NeedsOf
  <2>2. {j \in Job : mark[j] = "visited"}' = V \cup {c}
    BY <1>3
  <2>3. ASSUME NEW S \in (SUBSET (V \cup {c})) \ {{}}
        PROVE  \E s \in S : NeedsOf(s) \cap S = {}
    <3>1. c \notin V /\ NeedsOf(c) \subseteq V
      <4>1. ASSUME NEW n \in NeedsOf(c) PROVE n \in V
        <5>1. PICK i \in 1 .. Len(needs[c]) : n = needs[c][i]
          BY <4>1 DEF NeedsOf
        <5>2. QED
          BY <1>8, <5>1, NeedIsAJob
      <4>2. QED
        BY <1>2, <4>1 DEF OnStack
    <3>2. CASE S = {c}
      BY <3>1, <3>2
    <3>3. CASE S # {c}
      <4>1. S \ {c} \in (SUBSET V) \ {{}}
        BY <2>3, <3>3
      <4>2. PICK s \in S \ {c} : NeedsOf(s) \cap (S \ {c}) = {}
        BY <4>1 DEF VisitedInv
      <4>3. s \in V
        BY <4>1, <4>2
      <4>4. c \notin NeedsOf(s)
        BY <3>1, <4>3 DEF WalkInv
      <4>5. QED
        BY <4>2, <4>4
    <3>4. QED
      BY <3>2, <3>3
  <2>4. QED
    BY <2>1, <2>2, <2>3 DEF VisitedInv
<1>12. QED
  BY <1>7, <1>10, <1>11

\* What the verdict is about never changes.
LEMMA GraphIsFixed ==
  ASSUME needs' = needs
  PROVE  Acyclic' <=> Acyclic
BY DEF Acyclic, NeedsOf

\* A visit, from either loop.
LEMMA VisitKeeps ==
  ASSUME TypeOK, StackInv, WalkInv, VisitedInv, NEW k \in Job, Visit(k),
         needs' = needs,
         \/ /\ current = Root /\ next \in 1 .. Len(Order) /\ k = Order[next]
            /\ next' = next + 1 /\ at' = at
         \/ /\ current \in Job /\ at[current] \in 1 .. Len(needs[current])
            /\ k = needs[current][at[current]]
            /\ at' = [at EXCEPT ![current] = @ + 1] /\ next' = next
  PROVE  \/ verdict' = "cycle" /\ ~Acyclic'
         \/ verdict' = verdict /\ StackInv' /\ WalkInv' /\ VisitedInv'
<1>1. CASE mark[k] = "visiting"
  <2>1. verdict' = "cycle"
    BY <1>1 DEF Visit
  <2>2. ~Acyclic
    BY <1>1, StackIsACircle, RootAssumption DEF OnStack
  <2>3. QED
    BY <2>1, <2>2, GraphIsFixed
<1>2. CASE mark[k] = "visited"
  <2>1. UNCHANGED <<mark, current, caller, verdict>>
    BY <1>2 DEF Visit
  <2>2. StackInv' /\ WalkInv'
    BY <1>2, <2>1, SkipKeeps
  <2>3. VisitedInv'
    <3>1. \A j \in Job : NeedsOf(j)' = NeedsOf(j)
      BY DEF NeedsOf
    <3>2. QED
      BY <2>1, <3>1 DEF VisitedInv
  <2>4. QED
    BY <2>1, <2>2, <2>3
<1>3. CASE mark[k] = "unvisited"
  <2>1. /\ mark' = [mark EXCEPT ![k] = "visiting"]
        /\ caller' = [caller EXCEPT ![k] = current]
        /\ current' = k /\ verdict' = verdict
    BY <1>3 DEF Visit
  <2>2. StackInv' /\ WalkInv'
    BY <1>3, <2>1, EnterKeeps
  <2>3. {j \in Job : mark[j] = "visited"}' = {j \in Job : mark[j] = "visited"}
    BY <1>3, <2>1 DEF TypeOK
  <2>4. \A j \in Job : NeedsOf(j)' = NeedsOf(j)
    BY DEF NeedsOf
  <2>5. VisitedInv'
    BY <2>3, <2>4 DEF VisitedInv
  <2>6. QED
    BY <2>1, <2>2, <2>5
<1>4. QED
  BY <1>1, <1>2, <1>3 DEF TypeOK

LEMMA NextIInv == IInv /\ [Next]_vars => IInv'
<1> SUFFICES ASSUME IInv, [Next]_vars PROVE IInv'
  OBVIOUS
<1>0. TypeOK /\ TypeOK' /\ VerdictIsRight
  BY TypeStep DEF IInv
<1>1. CASE VisitNext
  <2>1. StackInv /\ WalkInv /\ VisitedInv /\ verdict = "none"
    BY <1>1 DEF VisitNext, IInv
  <2>2. Order[next] \in Job /\ next \in 1 .. Len(Order)
    BY <1>0, <1>1, Lengths, OrderIsOfJobs DEF VisitNext, TypeOK
  <2>3. \/ verdict' = "cycle" /\ ~Acyclic'
        \/ verdict' = verdict /\ StackInv' /\ WalkInv' /\ VisitedInv'
    BY <1>0, <1>1, <2>1, <2>2, VisitKeeps DEF VisitNext
  <2>4. QED
    BY <1>0, <2>1, <2>3 DEF IInv, VerdictIsRight
<1>2. CASE VisitNeed
  <2>1. StackInv /\ WalkInv /\ VisitedInv /\ verdict = "none"
    BY <1>2 DEF VisitNeed, IInv
  <2>2. current \in Job /\ at[current] \in 1 .. Len(needs[current])
    BY <1>0, <1>2, Lengths DEF VisitNeed, TypeOK
  <2>3. needs[current][at[current]] \in Job
    BY <1>0, <2>2, NeedIsAJob
  <2>4. \/ verdict' = "cycle" /\ ~Acyclic'
        \/ verdict' = verdict /\ StackInv' /\ WalkInv' /\ VisitedInv'
    BY <1>0, <1>2, <2>1, <2>2, <2>3, VisitKeeps DEF VisitNeed
  <2>5. QED
    BY <1>0, <2>1, <2>4 DEF IInv, VerdictIsRight
<1>3. CASE Return
  <2>1. StackInv /\ WalkInv /\ VisitedInv /\ verdict = "none"
    BY <1>3 DEF Return, IInv
  <2>2. StackInv' /\ WalkInv' /\ VisitedInv'
    BY <1>0, <1>3, <2>1, ReturnKeeps
  <2>3. VerdictIsRight'
    BY <1>3, <2>1 DEF Return, VerdictIsRight
  <2>4. QED
    BY <1>0, <2>2, <2>3 DEF IInv
<1>4. CASE Accept
  <2>1. StackInv /\ WalkInv /\ VisitedInv
    BY <1>4 DEF Accept, IInv
  <2>2. \A j \in Job : mark[j] = "visited"
    <3>1. \A i \in 1 .. Len(Order) : mark[Order[i]] = "visited"
      BY <1>0, <1>4, <2>1, Lengths DEF Accept, WalkInv
    <3>2. QED
      BY <3>1, OrderAssumption
  <2>3. Acyclic
    BY <1>0, <2>1, <2>2, VisitedIsAcyclic
  <2>4. StackInv' /\ WalkInv' /\ VisitedInv'
    BY <1>4, <2>1 DEF Accept, StackInv, WalkInv, VisitedInv, OnStack, Called,
       NeedsOf
  <2>5. VerdictIsRight'
    BY <1>4, <2>3, GraphIsFixed DEF Accept, VerdictIsRight
  <2>6. QED
    BY <1>0, <2>4, <2>5 DEF IInv
<1>5. CASE UNCHANGED vars
  <2>1. /\ UNCHANGED <<needs, mark, next, current, caller, at, verdict>>
        /\ \A j \in Job : NeedsOf(j)' = NeedsOf(j) /\ Called(j)' = Called(j)
    BY <1>5 DEF vars, NeedsOf, Called
  <2>2. StackInv => StackInv'
    BY <2>1 DEF StackInv, OnStack, Called
  <2>3. WalkInv => WalkInv'
    BY <2>1 DEF WalkInv
  <2>4. VisitedInv => VisitedInv'
    BY <2>1 DEF VisitedInv
  <2>5. VerdictIsRight'
    BY <1>0, <2>1, GraphIsFixed DEF VerdictIsRight
  <2>6. QED
    BY <1>0, <2>1, <2>2, <2>3, <2>4, <2>5 DEF IInv
<1>6. QED
  BY <1>1, <1>2, <1>3, <1>4, <1>5 DEF Next, Over

-----------------------------------------------------------------------------
(* The theorems.                                                           *)

\* The inductive invariant holds in every reachable state of the walk.
THEOREM Invariance == Safety => []IInv
BY InitIInv, NextIInv, PTL DEF Safety

\* Every variable keeps its type: no visit looks behind its job's last need.
THEOREM TypeCorrect == Safety => []TypeOK
<1>1. IInv => TypeOK
  BY DEF IInv
<1>2. QED
  BY <1>1, Invariance, PTL

\* For every workflow whose needs are its jobs, whatever their number: what
\* detectCycle accepts is acyclic, the assumption Scheduler's module makes of
\* Needs, and what it refuses is not.
THEOREM DetectCycleIsRight == Safety => []VerdictIsRight
<1>1. IInv => VerdictIsRight
  BY DEF IInv
<1>2. QED
  BY <1>1, Invariance, PTL

=============================================================================
