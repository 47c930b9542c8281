-------------------------- MODULE SupervisionProofs --------------------------
(* What the supervision of one command promises, for any number of processes, *)
(* any amount of output and any pipe; and what the event stream makes of that *)
(* output, for any transcript and however it is cut into chunks.              *)
EXTENDS ProcessGroup, EventStream, WellFoundedInduction, TLAPS

-----------------------------------------------------------------------------
(* The command and its group.                                              *)

LEMMA InitIInv == Init => IInv
<1> SUFFICES ASSUME Init PROVE IInv
  OBVIOUS
<1>1. TypeOK
  <2>1. /\ live \subseteq born /\ group \subseteq live /\ holds \subseteq live
        /\ born \subseteq Proc /\ doomed \subseteq born
    BY LeaderAssumption DEF Init
  <2>2. /\ piped \in BOOLEAN /\ readEnd \in BOOLEAN
        /\ ctxDone \in BOOLEAN /\ diskFailed \in BOOLEAN
    BY Zenon DEF Init
  <2>3. pipe \in 0 .. PipeCap /\ printed \in 0 .. MaxChunks
          /\ kept \in 0 .. MaxChunks
    BY BoundsAssumption DEF Init
  <2>4. copier \in {"reading", "writing", "ended"}
    BY DEF Init
  <2> QED BY <2>1, <2>2, <2>3, <2>4 DEF Init, TypeOK
<1>2. LeaderInv
  BY DEF Init, LeaderInv
<1>3. StreamInv
  BY DEF Init, StreamInv, InHand, Refused
<1>4. GroupIsDead
  BY DEF Init, GroupIsDead
<1> QED BY <1>1, <1>2, <1>3, <1>4 DEF IInv

(* The processes: whatever they do, the copier's account and the leader's    *)
(* end stand, and a group that was killed does not come back.                *)
LEMMA ProcessesKeepIInv ==
  ASSUME IInv, Processes \/ \E p \in Proc : Dies(p)
  PROVE  IInv'
<1> USE LeaderAssumption, BoundsAssumption
<1> USE DEF IInv, waitVars, pipeVars
<1>1. ASSUME NEW p \in Proc, NEW c \in Proc, Fork(p, c)
      PROVE  IInv'
  <2>1. TypeOK'
    BY <1>1 DEF Fork, Able, TypeOK
  <2>2. LeaderInv' /\ StreamInv'
    BY <1>1 DEF Fork, Able, TypeOK, LeaderInv, StreamInv, InHand, Refused
  <2>3. GroupIsDead'
    BY <1>1 DEF Fork, Able, TypeOK, GroupIsDead
  <2> QED BY <2>1, <2>2, <2>3
<1>2. ASSUME NEW p \in Proc, Escape(p) \/ CloseStdout(p)
      PROVE  IInv'
  BY <1>2 DEF Escape, CloseStdout, Able, TypeOK, LeaderInv, StreamInv,
              GroupIsDead, InHand, Refused
<1>3. ASSUME NEW p \in Proc, PrintChunk(p)
      PROVE  IInv'
  <2>1. /\ TypeOK' /\ StreamInv'
    BY <1>3 DEF PrintChunk, procVars, TypeOK, StreamInv, InHand, Refused
  <2>2. LeaderInv' /\ GroupIsDead'
    BY <1>3 DEF PrintChunk, procVars, LeaderInv, GroupIsDead
  <2> QED BY <2>1, <2>2
<1>4. ASSUME NEW p \in Proc, Exits(p) \/ Dies(p)
      PROVE  IInv'
  <2>0. /\ p \in live /\ Bury(p)
        /\ exit' = exit \/ (p = Leader /\ exit' \in {"zero", "nonzero", "killed"})
        /\ p = Leader => exit' # "none"
    BY <1>4 DEF Exits, Dies, Able
  <2>1. TypeOK' /\ GroupIsDead'
    BY <2>0 DEF Bury, TypeOK, GroupIsDead
  <2>2. LeaderInv' /\ StreamInv'
    BY <2>0 DEF Bury, TypeOK, LeaderInv, StreamInv, InHand, Refused
  <2> QED BY <2>1, <2>2
<1> QED BY <1>1, <1>2, <1>3, <1>4 DEF Processes

(* The engine and os/exec.                                                   *)
LEMMA EngineKeepsIInv ==
  ASSUME IInv,
         ContextEnds \/ WatchKills \/ DelayExpires \/ Copier \/ Waiter \/ Over
  PROVE  IInv'
<1> USE LeaderAssumption, BoundsAssumption
<1> USE DEF IInv, procVars, waitVars, pipeVars
<1>1. CASE ContextEnds
  <2>1. TypeOK'
    BY <1>1 DEF ContextEnds, TypeOK, StreamInv, InHand, Refused
  <2>2. LeaderInv' /\ GroupIsDead'
    BY <1>1 DEF ContextEnds, LeaderInv, GroupIsDead, TypeOK
  <2>3. StreamInv'
    BY <1>1 DEF ContextEnds, StreamInv, TypeOK, InHand, Refused
  <2> QED BY <2>1, <2>2, <2>3
<1>2. CASE WatchKills
  <2>1. TypeOK'
    BY <1>2 DEF WatchKills, KillGroup, TypeOK, StreamInv, InHand, Refused
  <2>2. LeaderInv' /\ GroupIsDead'
    BY <1>2 DEF WatchKills, KillGroup, LeaderInv, GroupIsDead, TypeOK
  <2>3. StreamInv'
    BY <1>2 DEF WatchKills, KillGroup, StreamInv, TypeOK, InHand, Refused
  <2> QED BY <2>1, <2>2, <2>3
<1>3. CASE DelayExpires
  <2>1. TypeOK'
    BY <1>3 DEF DelayExpires, TypeOK, StreamInv, InHand, Refused
  <2>2. LeaderInv' /\ GroupIsDead'
    BY <1>3 DEF DelayExpires, LeaderInv, GroupIsDead, TypeOK
  <2>3. StreamInv'
    BY <1>3 DEF DelayExpires, StreamInv, TypeOK, InHand, Refused
  <2> QED BY <2>1, <2>2, <2>3
<1>4. CASE CopierReads
  <2>1. TypeOK'
    BY <1>4 DEF CopierReads, TypeOK, StreamInv, InHand, Refused
  <2>2. LeaderInv' /\ GroupIsDead'
    BY <1>4 DEF CopierReads, LeaderInv, GroupIsDead, TypeOK
  <2>3. StreamInv'
    BY <1>4 DEF CopierReads, StreamInv, TypeOK, InHand, Refused
  <2> QED BY <2>1, <2>2, <2>3
<1>5. CASE CopierWrites
  <2>1. TypeOK'
    BY <1>5 DEF CopierWrites, TypeOK, StreamInv, InHand, Refused
  <2>2. LeaderInv' /\ GroupIsDead'
    BY <1>5 DEF CopierWrites, LeaderInv, GroupIsDead, TypeOK
  <2>3. StreamInv'
    BY <1>5 DEF CopierWrites, StreamInv, TypeOK, InHand, Refused
  <2> QED BY <2>1, <2>2, <2>3
<1>6. CASE CopierFails
  <2>1. TypeOK'
    BY <1>6 DEF CopierFails, TypeOK, StreamInv, InHand, Refused
  <2>2. LeaderInv' /\ GroupIsDead'
    BY <1>6 DEF CopierFails, LeaderInv, GroupIsDead, TypeOK
  <2>3. StreamInv'
    BY <1>6 DEF CopierFails, StreamInv, TypeOK, InHand, Refused
  <2> QED BY <2>1, <2>2, <2>3
<1>7. CASE CopierEnds
  <2>1. TypeOK'
    BY <1>7 DEF CopierEnds, TypeOK, StreamInv, InHand, Refused
  <2>2. LeaderInv' /\ GroupIsDead'
    BY <1>7 DEF CopierEnds, LeaderInv, GroupIsDead, TypeOK
  <2>3. StreamInv'
    BY <1>7 DEF CopierEnds, StreamInv, TypeOK, InHand, Refused
  <2> QED BY <2>1, <2>2, <2>3
<1>8. CASE Reap
  <2>1. TypeOK'
    BY <1>8 DEF Reap, TypeOK, StreamInv, InHand, Refused
  <2>2. LeaderInv' /\ GroupIsDead'
    BY <1>8 DEF Reap, LeaderInv, GroupIsDead, TypeOK
  <2>3. StreamInv'
    BY <1>8 DEF Reap, StreamInv, TypeOK, InHand, Refused
  <2> QED BY <2>1, <2>2, <2>3
<1>9. CASE TakeOver
  <2>1. TypeOK'
    BY <1>9 DEF TakeOver, TypeOK, StreamInv, InHand, Refused
  <2>2. LeaderInv' /\ GroupIsDead'
    BY <1>9 DEF TakeOver, LeaderInv, GroupIsDead, TypeOK
  <2>3. StreamInv'
    BY <1>9 DEF TakeOver, StreamInv, TypeOK, InHand, Refused
  <2> QED BY <2>1, <2>2, <2>3
<1>10. CASE WaitReturns
  <2>1. TypeOK'
    BY <1>10 DEF WaitReturns, TypeOK, StreamInv, InHand, Refused
  <2>2. LeaderInv' /\ GroupIsDead'
    BY <1>10 DEF WaitReturns, LeaderInv, GroupIsDead, TypeOK
  <2>3. StreamInv'
    BY <1>10 DEF WaitReturns, StreamInv, TypeOK, InHand, Refused
  <2> QED BY <2>1, <2>2, <2>3
<1>11. CASE Sweep
  <2>1. TypeOK'
    BY <1>11 DEF Sweep, KillGroup, TypeOK, StreamInv, InHand, Refused
  <2>2. LeaderInv' /\ GroupIsDead'
    BY <1>11 DEF Sweep, KillGroup, LeaderInv, GroupIsDead, TypeOK
  <2>3. StreamInv'
    BY <1>11 DEF Sweep, KillGroup, StreamInv, TypeOK, InHand, Refused
  <2> QED BY <2>1, <2>2, <2>3
<1>12. CASE Over
  <2>1. TypeOK'
    BY <1>12 DEF Over, vars, TypeOK, StreamInv, InHand, Refused
  <2>2. LeaderInv' /\ GroupIsDead'
    BY <1>12 DEF Over, vars, LeaderInv, GroupIsDead, TypeOK
  <2>3. StreamInv'
    BY <1>12 DEF Over, vars, StreamInv, TypeOK, InHand, Refused
  <2> QED BY <2>1, <2>2, <2>3
<1> QED BY <1>1, <1>2, <1>3, <1>4, <1>5, <1>6, <1>7, <1>8, <1>9, <1>10, <1>11,
           <1>12 DEF Copier, Waiter

(* Whatever the leader, its children, the copier, the context and the caller *)
(* do, each process, each chunk and Wait are where the supervision has them. *)
THEOREM Invariance == Safety => []IInv
<1>1. IInv /\ [Next]_vars => IInv'
  <2> SUFFICES ASSUME IInv, [Next]_vars PROVE IInv'
    OBVIOUS
  <2>1. CASE UNCHANGED vars
    BY <2>1 DEF vars, procVars, waitVars, pipeVars, IInv, TypeOK, LeaderInv,
                StreamInv, GroupIsDead, InHand, Refused
  <2>2. CASE Next
    BY <2>2, ProcessesKeepIInv, EngineKeepsIInv DEF Next
  <2> QED BY <2>1, <2>2
<1> QED BY InitIInv, <1>1, PTL DEF Safety

(* Every variable of the supervision keeps its type, whatever is printed.    *)
THEOREM TypeCorrect == Safety => []TypeOK
BY Invariance, PTL DEF IInv

(* When waitGrouped has returned everybody still in the group is killed.     *)
THEOREM NoGroupSurvives == Safety => []GroupIsDead
BY Invariance, PTL DEF IInv

(* The copier is done before the event stream is flushed and the file closed.*)
THEOREM TheStreamRests == Safety => []StreamIsAtRest
<1>1. IInv => StreamIsAtRest
  BY DEF IInv, StreamInv, StreamIsAtRest
<1> QED BY <1>1, Invariance, PTL

(* Nothing printed is lost unless the disk or WaitDelay cut the stream.      *)
THEOREM TheStreamIsWhole == Safety => []StreamIsWhole
<1>1. IInv => StreamIsWhole
  BY DEF IInv, TypeOK, StreamInv, StreamIsWhole, InHand, Refused
<1> QED BY <1>1, Invariance, PTL

(* The exit code is the leader's own.                                        *)
THEOREM TheCodeIsTheLeaders == Safety => []CodeIsTheLeaders
<1>1. IInv => CodeIsTheLeaders
  BY DEF IInv, LeaderInv, CodeIsTheLeaders
<1> QED BY <1>1, Invariance, PTL

-----------------------------------------------------------------------------
(* The event stream.                                                       *)

(* Induction, as sets: what contains 0 and, with n, n + 1 contains every     *)
(* natural number, or there would be a least one it lacks.                   *)
LEMMA Induct ==
  ASSUME NEW S \in SUBSET Nat, 0 \in S, \A n \in S : n + 1 \in S
  PROVE  S = Nat
<1> DEFINE Less == {p \in Nat \X Nat : p[1] < p[2]}
           Lacks == Nat \ S
<1>1. IsWellFoundedOn(Less, Nat)
  BY NatLessThanWellFounded DEF OpToRel
<1> SUFFICES ASSUME Lacks # {} PROVE FALSE
  OBVIOUS
<1>2. PICK m \in Lacks : \A k \in Lacks : <<k, m>> \notin Less
  <2> HIDE DEF Less, Lacks
  <2>1. Lacks \subseteq Nat
    BY DEF Lacks
  <2> QED BY <1>1, <2>1, WFMin, Zenon
<1>3. m # 0 /\ m - 1 \in Nat /\ <<m - 1, m>> \in Less
  OBVIOUS
<1>4. m - 1 \in S
  BY <1>2, <1>3
<1>5. (m - 1) + 1 = m
  OBVIOUS
<1> QED BY <1>4, <1>5

(* A loop is what its rounds make it.                                        *)
LEMMA LoopUnfolds ==
  ASSUME NEW s, NEW buf, Len(buf) \in Nat
  PROVE  Loop(s, buf) =
           [n \in 0 .. Len(buf) |-> IF n = 0 THEN [summary |-> s, partial |-> buf]
                                    ELSE Round(Loop(s, buf)[n - 1])]
<1> DEFINE start == [summary |-> s, partial |-> buf]
           Goes(f, n) == f = [i \in 0 .. n |-> IF i = 0 THEN start ELSE Round(f[i - 1])]
           Can == {n \in Nat : \E f : Goes(f, n)}
<1>1. 0 \in Can
  <2>1. Goes([i \in 0 .. 0 |-> start], 0)
    OBVIOUS
  <2> QED BY <2>1
<1>2. ASSUME NEW n \in Can PROVE n + 1 \in Can
  <2>1. PICK f : Goes(f, n)
    OBVIOUS
  <2> DEFINE g == [i \in 0 .. n + 1 |-> IF i = n + 1 THEN Round(f[n]) ELSE f[i]]
  <2>2. \A i \in 0 .. n : g[i] = f[i]
    OBVIOUS
  <2>3. ASSUME NEW i \in 0 .. n + 1
        PROVE  g[i] = IF i = 0 THEN start ELSE Round(g[i - 1])
    <3>1. CASE i = n + 1
      <4>1. i # 0 /\ i - 1 = n /\ n \in 0 .. n
        BY <3>1
      <4>2. g[i] = Round(f[n])
        BY <3>1
      <4>3. g[i - 1] = f[n]
        BY <4>1, <2>2
      <4> HIDE DEF g
      <4> QED BY <4>1, <4>2, <4>3
    <3>2. CASE i # n + 1
      <4>1. i \in 0 .. n /\ (i # 0 => i - 1 \in 0 .. n)
        BY <3>2
      <4>2. g[i] = f[i] /\ (i # 0 => g[i - 1] = f[i - 1])
        BY <4>1, <2>2
      <4>3. f[i] = IF i = 0 THEN start ELSE Round(f[i - 1])
        BY <4>1, <2>1
      <4> HIDE DEF g
      <4> QED BY <4>2, <4>3
    <3> QED BY <3>1, <3>2
  <2>4. g = [i \in 0 .. n + 1 |-> IF i = 0 THEN start ELSE Round(g[i - 1])]
    <3>1. g = [i \in 0 .. n + 1 |-> g[i]]
      OBVIOUS
    <3> HIDE DEF g
    <3> QED BY <3>1, <2>3
  <2> HIDE DEF g
  <2> QED BY <2>4
<1>3. Can = Nat
  <2> HIDE DEF Can
  <2>1. Can \in SUBSET Nat
    BY DEF Can
  <2> QED BY <1>1, <1>2, <2>1, Induct
<1>4. \E f : Goes(f, Len(buf))
  BY <1>3
<1>5. Loop(s, buf) = CHOOSE f : Goes(f, Len(buf))
  BY DEF Loop
<1> HIDE DEF Goes
<1>6. Goes(Loop(s, buf), Len(buf))
  BY <1>4, <1>5
<1> QED BY <1>6 DEF Goes

-----------------------------------------------------------------------------
\* The units of the transcript from line q + 1 on, as far as the e-th.
Units(q, e) == [i \in 1 .. e - 3 * q |-> Unit(3 * q + i)]

(* The r-th unit of a line.                                                  *)
LEMMA UnitAt ==
  ASSUME NEW q \in Nat, NEW r \in 1 .. 3
  PROVE  Unit(3 * q + r) = <<q + 1, r>>
<1>1. ((3 * q + r) - 1) \div 3 = q
  OBVIOUS
<1>2. ((3 * q + r) - 1) % 3 = r - 1
  OBVIOUS
<1> QED BY <1>1, <1>2 DEF Unit

LEMMA ThirdOf ==
  ASSUME NEW e \in Nat
  PROVE  /\ e \div 3 \in Nat /\ e % 3 \in 0 .. 2
         /\ e = 3 * (e \div 3) + (e % 3)
OBVIOUS

LEMMA UnitsAre ==
  ASSUME NEW q \in Nat, NEW e \in Nat, 3 * q <= e, NEW i \in 1 .. e - 3 * q
  PROVE  /\ Units(q, e)[i] = Unit(3 * q + i)
         /\ i \in 1 .. 3 => Units(q, e)[i] = <<q + 1, i>>
BY UnitAt DEF Units

(* Less than a line holds no newline, and more has its first at unit 3.      *)
LEMMA NoLineEnd ==
  ASSUME NEW q \in Nat, NEW e \in Nat, 3 * q <= e, e < 3 * q + 3
  PROVE  LineEnds(Units(q, e)) = {}
<1>1. DOMAIN Units(q, e) = 1 .. e - 3 * q
  BY DEF Units
<1>2. ASSUME NEW i \in 1 .. e - 3 * q PROVE ~IsLineEnd(Units(q, e)[i])
  <2>1. i \in 1 .. 2
    OBVIOUS
  <2>2. Units(q, e)[i] = <<q + 1, i>>
    BY <2>1, UnitsAre
  <2> QED BY <2>1, <2>2 DEF IsLineEnd
<1> QED BY <1>1, <1>2 DEF LineEnds

LEMMA FirstLineEnd ==
  ASSUME NEW q \in Nat, NEW e \in Nat, 3 * q + 3 <= e
  PROVE  LineEnds(Units(q, e)) # {} /\ FirstEnd(Units(q, e)) = 3
<1> DEFINE u == Units(q, e)
<1>1. DOMAIN u = 1 .. e - 3 * q
  BY DEF Units
<1>2. \A i \in 1 .. 3 : i \in DOMAIN u /\ u[i] = <<q + 1, i>>
  <2>1. \A i \in 1 .. 3 : i \in 1 .. e - 3 * q
    OBVIOUS
  <2> QED BY <1>1, <2>1, UnitsAre
<1> HIDE DEF u
<1>3. 3 \in LineEnds(u) /\ 1 \notin LineEnds(u) /\ 2 \notin LineEnds(u)
  BY <1>2 DEF LineEnds, IsLineEnd
<1>4. \A i \in LineEnds(u) : i \in Nat /\ 3 <= i
  BY <1>1, <1>3 DEF LineEnds
<1>5. FirstEnd(u) = 3
  BY <1>3, <1>4 DEF FirstEnd
<1> QED BY <1>3, <1>5 DEF u

(* A round of Write's loop waits for the rest of a line,                     *)
LEMMA RoundIdle ==
  ASSUME NEW s, NEW q \in Nat, NEW e \in Nat, 3 * q <= e, e < 3 * q + 3
  PROVE  Round([summary |-> s, partial |-> Units(q, e)])
           = [summary |-> s, partial |-> Units(q, e)]
BY NoLineEnd DEF Round

WholeLine(n) == <<<<n, 1>>, <<n, 2>>>>

(* or cuts a whole one off and handles it.                                   *)
LEMMA RoundCuts ==
  ASSUME NEW s, NEW q \in Nat, NEW e \in Nat, 3 * q + 3 <= e
  PROVE  Round([summary |-> s, partial |-> Units(q, e)])
           = [summary |-> handle(s, WholeLine(q + 1)), partial |-> Units(q + 1, e)]
<1> DEFINE u == Units(q, e)
<1>1. Len(u) = e - 3 * q /\ e - 3 * q \in Nat
  BY DEF Units
<1>2. \A i \in 1 .. e - 3 * q : u[i] = Unit(3 * q + i)
  BY UnitsAre
<1>3. u[1] = <<q + 1, 1>> /\ u[2] = <<q + 1, 2>>
  BY UnitsAre
<1>4. LineEnds(u) # {} /\ FirstEnd(u) = 3
  BY FirstLineEnd
<1> HIDE DEF u
<1>5. SubSeq(u, 1, 3 - 1) = WholeLine(q + 1)
  <2>1. SubSeq(u, 1, 2) = [i \in 1 .. 2 |-> u[i]]
    BY <1>1
  <2>2. WholeLine(q + 1) = [i \in 1 .. 2 |-> <<q + 1, i>>]
    BY DEF WholeLine
  <2>3. \A i \in 1 .. 2 : u[i] = <<q + 1, i>>
    BY <1>3
  <2> QED BY <2>1, <2>2, <2>3
<1>6. SubSeq(u, 3 + 1, Len(u)) = Units(q + 1, e)
  <2>1. SubSeq(u, 4, Len(u)) = [i \in 1 .. (e - 3 * q) - 3 |-> u[i + 3]]
    BY <1>1
  <2>2. (e - 3 * q) - 3 = e - 3 * (q + 1)
    OBVIOUS
  <2>3. ASSUME NEW i \in 1 .. e - 3 * (q + 1)
        PROVE  u[i + 3] = Unit(3 * (q + 1) + i)
    <3>1. i + 3 \in 1 .. e - 3 * q /\ 3 * q + (i + 3) = 3 * (q + 1) + i
      OBVIOUS
    <3> QED BY <1>2, <3>1
  <2> QED BY <2>1, <2>2, <2>3 DEF Units
<1> QED BY <1>4, <1>5, <1>6 DEF Round, u

-----------------------------------------------------------------------------
\* What a summary can be, and that s is the summary of the first n lines.
Summaries == [message : Seq(Text), tools : SUBSET Tool, warned : BOOLEAN]

Tells(s, n) ==
  /\ s \in Summaries
  /\ IsTextAt(s.message, FinalText(n))
  /\ s.tools = Unfinished(n)
  /\ s.warned <=> \E i \in 1 .. n : lines[i].kind = "garbled"

(* No line has said anything yet.                                            *)
LEMMA NothingTold ==
  ASSUME NEW s, s = [message |-> <<>>, tools |-> {}, warned |-> FALSE]
  PROVE  Tells(s, 0)
<1>1. FinalText(0) = {} /\ Unfinished(0) = {}
  BY DEF FinalText, Unfinished
<1>2. IsTextAt(<<>>, {})
  <2>1. [i \in 1 .. 0 |-> 0] \in [1 .. Len(<<>>) -> {}]
    OBVIOUS
  <2> QED BY <2>1 DEF IsTextAt
<1>3. s \in Summaries
  BY DEF Summaries
<1>4. ~\E i \in 1 .. 0 : lines[i].kind = "garbled"
  OBVIOUS
<1> QED BY <1>1, <1>2, <1>3, <1>4 DEF Tells

(* Both halves of a line are what handle takes for JSON.                     *)
LEMMA WholeIsHandled ==
  ASSUME NEW s, NEW n \in Nat
  PROVE  handle(s, WholeLine(n)) =
           IF lines[n].kind = "garbled" THEN [s EXCEPT !.warned = TRUE]
           ELSE update(s, lines[n])
<1>1. /\ WholeLine(n) # <<>> /\ WholeLine(n)[1][1] = n /\ IsWhole(WholeLine(n))
  BY DEF WholeLine, IsWhole
<1> QED BY <1>1 DEF handle

(* The text that is final after a line.                                      *)
LEMMA FinalTextGrows ==
  ASSUME NEW n \in Nat
  PROVE  /\ MakesPreamble(lines[n + 1]) => FinalText(n + 1) = {}
         /\ ~MakesPreamble(lines[n + 1]) =>
              FinalText(n + 1) = FinalText(n) \cup
                {i \in {n + 1} : lines[i].kind = "agent_message_chunk"}
<1>0. \A i \in 1 .. n : n + 1 \in i + 1 .. n + 1
  OBVIOUS
<1>1. ASSUME MakesPreamble(lines[n + 1]) PROVE FinalText(n + 1) = {}
  <2>1. lines[n + 1].kind # "agent_message_chunk"
    BY <1>1 DEF MakesPreamble, IsToolCall, IsToolUpdate
  <2>2. \A i \in 1 .. n + 1 : i = n + 1 \/ i \in 1 .. n
    OBVIOUS
  <2> QED BY <1>0, <1>1, <2>1, <2>2 DEF FinalText
<1>2. ASSUME ~MakesPreamble(lines[n + 1])
      PROVE  FinalText(n + 1) = FinalText(n) \cup
                {i \in {n + 1} : lines[i].kind = "agent_message_chunk"}
  <2>1. ASSUME NEW i \in 1 .. n
        PROVE  i \in FinalText(n + 1) <=> i \in FinalText(n)
    <3>1. i + 1 .. n + 1 = (i + 1 .. n) \cup {n + 1} /\ i \in 1 .. n + 1
      OBVIOUS
    <3> QED BY <3>1, <1>2 DEF FinalText
  <2>2. n + 1 \in FinalText(n + 1) <=> lines[n + 1].kind = "agent_message_chunk"
    <3>1. ((n + 1) + 1) .. n + 1 = {} /\ n + 1 \in 1 .. n + 1
      OBVIOUS
    <3> QED BY <3>1 DEF FinalText
  <2>3. FinalText(n + 1) \subseteq 1 .. n + 1 /\ FinalText(n) \subseteq 1 .. n
    BY DEF FinalText
  <2>4. 1 .. n + 1 = (1 .. n) \cup {n + 1} /\ n + 1 \notin 1 .. n
    OBVIOUS
  <2> QED BY <2>1, <2>2, <2>3, <2>4
<1> QED BY <1>1, <1>2

(* A chunk of text comes after all the text there is.                        *)
LEMMA TextAppended ==
  ASSUME NEW m \in Seq(Text), NEW places, NEW n \in Nat, places \subseteq 1 .. n,
         IsTextAt(m, places)
  PROVE  IsTextAt(Append(m, lines[n + 1].text), places \cup {n + 1})
<1> DEFINE am == Append(m, lines[n + 1].text)
           k == Len(m) + 1
<1>1. PICK place \in [1 .. Len(m) -> places] :
        /\ \A i, j \in 1 .. Len(m) : i < j => place[i] < place[j]
        /\ \A p \in places : \E i \in 1 .. Len(m) : place[i] = p
        /\ \A i \in 1 .. Len(m) : m[i] = lines[place[i]].text
  BY DEF IsTextAt
<1> DEFINE at == [i \in 1 .. k |-> IF i = k THEN n + 1 ELSE place[i]]
<1>2. /\ Len(m) \in Nat /\ Len(am) = k /\ am[k] = lines[n + 1].text
      /\ \A i \in 1 .. Len(m) : am[i] = m[i]
      /\ 1 .. k = (1 .. Len(m)) \cup {k} /\ k \notin 1 .. Len(m)
  OBVIOUS
<1> HIDE DEF am
<1>3. at[k] = n + 1 /\ \A i \in 1 .. Len(m) : at[i] = place[i]
  BY <1>2
<1>4. at \in [1 .. Len(am) -> places \cup {n + 1}]
  BY <1>2
<1>5. ASSUME NEW i \in 1 .. Len(m) PROVE place[i] < n + 1 /\ place[i] \in Nat
  <2>1. place[i] \in 1 .. n
    OBVIOUS
  <2> QED BY <2>1
<1> HIDE DEF at
<1>6. \A i, j \in 1 .. Len(am) : i < j => at[i] < at[j]
  <2> SUFFICES ASSUME NEW i \in 1 .. k, NEW j \in 1 .. k, i < j PROVE at[i] < at[j]
    BY <1>2
  <2>1. i \in 1 .. Len(m)
    BY <1>2
  <2>2. CASE j = k
    BY <2>1, <2>2, <1>3, <1>5
  <2>3. CASE j # k
    BY <2>1, <2>3, <1>1, <1>2, <1>3
  <2> QED BY <2>2, <2>3
<1>7. \A p \in places \cup {n + 1} : \E i \in 1 .. Len(am) : at[i] = p
  BY <1>1, <1>2, <1>3
<1>8. \A i \in 1 .. Len(am) : am[i] = lines[at[i]].text
  BY <1>1, <1>2, <1>3
<1> QED BY <1>4, <1>6, <1>7, <1>8 DEF IsTextAt, am

LEMMA NoText == IsTextAt(<<>>, {})
<1>1. [i \in 1 .. 0 |-> 0] \in [1 .. Len(<<>>) -> {}]
  OBVIOUS
<1> QED BY <1>1 DEF IsTextAt

(* The tools that are open after a line.                                     *)
LEMMA UnfinishedGrows ==
  ASSUME NEW n \in Nat
  PROVE  Unfinished(n + 1) =
           {t \in Tool : IF IsAbout(lines[n + 1], t) THEN ~lines[n + 1].terminal
                         ELSE t \in Unfinished(n)}
<1> DEFINE l == lines[n + 1]
<1>1. 1 .. n + 1 = (1 .. n) \cup {n + 1} /\ ((n + 1) + 1) .. n + 1 = {}
  OBVIOUS
<1>2. \A i \in 1 .. n : i + 1 .. n + 1 = (i + 1 .. n) \cup {n + 1}
  OBVIOUS
<1>3. ASSUME NEW t \in Tool, IsAbout(l, t)
      PROVE  t \in Unfinished(n + 1) <=> ~l.terminal
  <2>1. \A i \in 1 .. n : ~(\A k \in i + 1 .. n + 1 : ~IsAbout(lines[k], t))
    BY <1>2, <1>3
  <2> QED BY <1>1, <1>3, <2>1 DEF Unfinished
<1>4. ASSUME NEW t \in Tool, ~IsAbout(l, t)
      PROVE  t \in Unfinished(n + 1) <=> t \in Unfinished(n)
  <2> DEFINE Says(i, m) == /\ IsAbout(lines[i], t) /\ ~lines[i].terminal
                           /\ \A k \in i + 1 .. m : ~IsAbout(lines[k], t)
  <2>1. \A i \in 1 .. n : Says(i, n + 1) <=> Says(i, n)
    BY <1>2, <1>4
  <2>2. ~Says(n + 1, n + 1)
    BY <1>4
  <2>3. t \in Unfinished(n + 1) <=> \E i \in 1 .. n + 1 : Says(i, n + 1)
    BY DEF Unfinished
  <2>4. t \in Unfinished(n) <=> \E i \in 1 .. n : Says(i, n)
    BY DEF Unfinished
  <2> HIDE DEF Says
  <2> QED BY <1>1, <2>1, <2>2, <2>3, <2>4
<1>5. Unfinished(n + 1) \subseteq Tool
  BY DEF Unfinished
<1> QED BY <1>3, <1>4, <1>5

(* One line more, and the summary tells of one line more.                    *)
LEMMA LineTold ==
  ASSUME lines \in Seq(Line), NEW n \in Nat, n + 1 <= Len(lines), NEW s, Tells(s, n)
  PROVE  Tells(handle(s, WholeLine(n + 1)), n + 1)
<1> DEFINE l == lines[n + 1]
           t == handle(s, WholeLine(n + 1))
<1>0. l \in Line
  BY DEF Line
<1>1. /\ s \in Summaries /\ IsTextAt(s.message, FinalText(n))
      /\ s.tools = Unfinished(n)
      /\ s.warned <=> \E i \in 1 .. n : lines[i].kind = "garbled"
  BY DEF Tells
<1>2. (\E i \in 1 .. n + 1 : lines[i].kind = "garbled")
        <=> (\E i \in 1 .. n : lines[i].kind = "garbled") \/ l.kind = "garbled"
  <2>1. 1 .. n + 1 = (1 .. n) \cup {n + 1}
    OBVIOUS
  <2> QED BY <2>1
<1>3. t = IF l.kind = "garbled" THEN [s EXCEPT !.warned = TRUE] ELSE update(s, l)
  <2>1. n + 1 \in Nat
    OBVIOUS
  <2> QED BY <2>1, WholeIsHandled, Zenon
<1>4. CASE l.kind \in {"garbled", "other"}
  <2>1. ~MakesPreamble(l) /\ \A x \in Tool : ~IsAbout(l, x)
    BY <1>4 DEF MakesPreamble, IsToolCall, IsToolUpdate, IsAbout
  <2>2. FinalText(n + 1) = FinalText(n)
    BY <1>4, <2>1, FinalTextGrows
  <2>3. Unfinished(n + 1) = Unfinished(n)
    BY <2>1, UnfinishedGrows DEF Unfinished
  <2>4. /\ t \in Summaries /\ t.message = s.message /\ t.tools = s.tools
        /\ t.warned <=> s.warned \/ l.kind = "garbled"
    BY <1>1, <1>3, <1>4 DEF update, Summaries
  <2> QED BY <1>1, <1>2, <2>2, <2>3, <2>4 DEF Tells
<1>5. CASE l.kind = "agent_message_chunk"
  <2>1. ~MakesPreamble(l) /\ \A x \in Tool : ~IsAbout(l, x)
    BY <1>5 DEF MakesPreamble, IsToolCall, IsToolUpdate, IsAbout
  <2>2. FinalText(n + 1) = FinalText(n) \cup {n + 1}
    BY <1>5, <2>1, FinalTextGrows
  <2>3. Unfinished(n + 1) = Unfinished(n)
    BY <2>1, UnfinishedGrows DEF Unfinished
  <2>4. l.text \in Text
    BY <1>0, <1>5 DEF Line
  <2>5. t = [s EXCEPT !.message = Append(@, l.text)]
    BY <1>3, <1>5 DEF update
  <2> DEFINE m == Append(s.message, l.text)
  <2>6. /\ t \in Summaries /\ t.message = m
        /\ t.tools = s.tools /\ t.warned = s.warned
    <3>1. m \in Seq(Text)
      BY <1>1, <2>4 DEF Summaries
    <3>2. t = [s EXCEPT !.message = m]
      BY <2>5
    <3> HIDE DEF m, t
    <3> QED BY <1>1, <3>1, <3>2 DEF Summaries
  <2>7. IsTextAt(t.message, FinalText(n + 1))
    <3>1. s.message \in Seq(Text) /\ FinalText(n) \subseteq 1 .. n
      BY <1>1 DEF Summaries, FinalText
    <3> QED BY <1>1, <2>2, <2>6, <3>1, TextAppended
  <2> QED BY <1>1, <1>2, <1>5, <2>3, <2>6, <2>7 DEF Tells
<1>6. CASE l.kind \in {"tool_call", "tool_call_update"}
  <2>0. l.tool \in Tool /\ l.terminal \in BOOLEAN
    BY <1>0, <1>6 DEF Line
  <2>1. \A x \in Tool : IsAbout(l, x) <=> l.tool = x
    BY <1>6 DEF IsAbout, IsToolCall, IsToolUpdate
  <2>2. MakesPreamble(l) <=> l.kind = "tool_call" \/ ~l.terminal
    BY <1>6 DEF MakesPreamble, IsToolCall, IsToolUpdate
  <2>3. t = [s EXCEPT !.message = IF l.kind = "tool_call" \/ ~l.terminal
                                    THEN <<>> ELSE @,
                      !.tools = IF l.terminal THEN @ \ {l.tool} ELSE @ \cup {l.tool}]
    BY <1>3, <1>6 DEF update
  <2>4. /\ t.message = IF MakesPreamble(l) THEN <<>> ELSE s.message
        /\ t.tools = IF l.terminal THEN s.tools \ {l.tool} ELSE s.tools \cup {l.tool}
        /\ t.warned = s.warned
    BY <1>1, <2>2, <2>3 DEF Summaries
  <2>5. t \in Summaries
    <3> DEFINE m == IF l.kind = "tool_call" \/ ~l.terminal THEN <<>> ELSE s.message
               o == IF l.terminal THEN s.tools \ {l.tool} ELSE s.tools \cup {l.tool}
    <3>1. m \in Seq(Text) /\ o \in SUBSET Tool
      BY <1>1, <2>0 DEF Summaries
    <3>2. t = [s EXCEPT !.message = m, !.tools = o]
      BY <2>3
    <3> HIDE DEF m, o, t
    <3> QED BY <1>1, <3>1, <3>2 DEF Summaries
  <2>6. t.tools = Unfinished(n + 1)
    <3>1. Unfinished(n) \subseteq Tool /\ Unfinished(n + 1) \subseteq Tool
      BY DEF Unfinished
    <3>2. \A x \in Tool : x \in Unfinished(n + 1) <=>
                           IF l.tool = x THEN ~l.terminal ELSE x \in Unfinished(n)
      BY <2>1, UnfinishedGrows
    <3>3. t.tools = IF l.terminal THEN Unfinished(n) \ {l.tool}
                    ELSE Unfinished(n) \cup {l.tool}
      BY <1>1, <2>4
    <3> HIDE DEF t, l
    <3> QED BY <2>0, <3>1, <3>2, <3>3
  <2>7. IsTextAt(t.message, FinalText(n + 1))
    <3>1. CASE MakesPreamble(l)
      BY <2>4, <3>1, NoText, FinalTextGrows
    <3>2. CASE ~MakesPreamble(l)
      <4>1. FinalText(n + 1) = FinalText(n)
        BY <1>6, <3>2, FinalTextGrows
      <4> QED BY <1>1, <2>4, <3>2, <4>1
    <3> QED BY <3>1, <3>2
  <2> QED BY <1>1, <1>2, <1>6, <2>4, <2>5, <2>6, <2>7 DEF Tells
<1>7. l.kind \in {"garbled", "other", "agent_message_chunk", "tool_call", "tool_call_update"}
  BY <1>0 DEF Line
<1> QED BY <1>4, <1>5, <1>6, <1>7

-----------------------------------------------------------------------------
(* Write's loop handles the lines a chunk completes, one after the other.    *)
LEMMA LoopTells ==
  ASSUME lines \in Seq(Line), NEW q \in Nat, NEW e \in Nat, 3 * q <= e, e <= Size,
         NEW s, Tells(s, q)
  PROVE  LET end == Loop(s, Units(q, e))[Len(Units(q, e))]
         IN  Tells(end.summary, e \div 3) /\ end.partial = Units(e \div 3, e)
<1> DEFINE buf == Units(q, e)
           L == e - 3 * q
           loop == Loop(s, buf)
           Done(n) == IF q + n <= e \div 3 THEN q + n ELSE e \div 3
           Right(n) == /\ Tells(loop[n].summary, Done(n))
                       /\ loop[n] = [summary |-> loop[n].summary,
                                     partial |-> Units(Done(n), e)]
           Holds == {n \in Nat : n <= L => Right(n)}
<1>0. Len(buf) = L /\ L \in Nat
  BY DEF Units
<1>1. /\ e \div 3 \in Nat /\ 3 * (e \div 3) <= e /\ e < 3 * (e \div 3) + 3
      /\ q <= e \div 3 /\ q + L >= e \div 3 /\ e \div 3 <= Len(lines)
  BY ThirdOf DEF Size
<1>2. /\ loop[0] = [summary |-> s, partial |-> buf]
      /\ \A n \in Nat : n + 1 <= L => loop[n + 1] = Round(loop[n])
  <2>1. loop = [n \in 0 .. L |-> IF n = 0 THEN [summary |-> s, partial |-> buf]
                                 ELSE Round(loop[n - 1])]
    BY <1>0, LoopUnfolds
  <2> HIDE DEF loop, buf, L
  <2>2. 0 \in 0 .. L
    BY <1>0
  <2>3. ASSUME NEW n \in Nat, n + 1 <= L PROVE loop[n + 1] = Round(loop[n])
    <3>1. n + 1 \in 0 .. L /\ n + 1 # 0 /\ (n + 1) - 1 = n
      BY <1>0, <2>3
    <3> QED BY <2>1, <3>1
  <2> QED BY <2>1, <2>2, <2>3
<1> HIDE DEF loop, L
<1>3. 0 \in Holds
  <2>1. Done(0) = q
    BY <1>1
  <2>2. Right(0)
    BY <1>2, <2>1
  <2> QED BY <2>2
<1>4. ASSUME NEW n \in Holds PROVE n + 1 \in Holds
  <2> SUFFICES ASSUME n + 1 <= L PROVE Right(n + 1)
    OBVIOUS
  <2>1. /\ n \in Nat /\ n <= L /\ Right(n)
    BY <1>0
  <2>2. loop[n + 1] = Round([summary |-> loop[n].summary, partial |-> Units(Done(n), e)])
    BY <1>2, <2>1
  <2>3. Tells(loop[n].summary, Done(n))
    BY <2>1
  <2>4. CASE q + n < e \div 3
    <3>1. /\ Done(n) = q + n /\ Done(n + 1) = (q + n) + 1
          /\ q + n \in Nat /\ 3 * (q + n) + 3 <= e /\ (q + n) + 1 <= Len(lines)
      BY <1>1, <2>1, <2>4
    <3>2. loop[n + 1] = [summary |-> handle(loop[n].summary, WholeLine((q + n) + 1)),
                         partial |-> Units((q + n) + 1, e)]
      <4>1. loop[n + 1] = Round([summary |-> loop[n].summary, partial |-> Units(q + n, e)])
        BY <2>2, <3>1
      <4> HIDE DEF Done
      <4> QED BY <3>1, <4>1, RoundCuts
    <3>3. Tells(handle(loop[n].summary, WholeLine((q + n) + 1)), (q + n) + 1)
      BY <2>3, <3>1, LineTold
    <3> QED BY <3>1, <3>2, <3>3
  <2>5. CASE ~(q + n < e \div 3)
    <3>1. Done(n) = e \div 3 /\ Done(n + 1) = e \div 3
      BY <1>1, <2>1, <2>5
    <3>2. loop[n + 1] = [summary |-> loop[n].summary, partial |-> Units(e \div 3, e)]
      <4>1. loop[n + 1] = Round([summary |-> loop[n].summary, partial |-> Units(e \div 3, e)])
        BY <2>2, <3>1
      <4> HIDE DEF Done
      <4> QED BY <1>1, <4>1, RoundIdle
    <3> QED BY <2>3, <3>1, <3>2
  <2> QED BY <2>4, <2>5
<1>5. Holds = Nat
  <2> HIDE DEF Holds
  <2>1. Holds \in SUBSET Nat
    BY DEF Holds
  <2> QED BY <1>3, <1>4, <2>1, Induct
<1>6. Right(L) /\ Done(L) = e \div 3
  BY <1>0, <1>1, <1>5
<1> QED BY <1>0, <1>6 DEF loop

-----------------------------------------------------------------------------
StreamIInv ==
  /\ lines \in Seq(Line) /\ pos \in 0 .. Size /\ flushed \in BOOLEAN
  /\ ~flushed => partial = Units(pos \div 3, pos) /\ Tells(Summary, pos \div 3)
  /\ flushed => /\ partial = <<>> /\ Summary \in Summaries
                /\ MessageIsFinal /\ ReportsDependOnTheLines

LEMMA InitStreamIInv == StreamInit => StreamIInv
<1> SUFFICES ASSUME StreamInit PROVE StreamIInv
  OBVIOUS
<1>1. lines \in Seq(Line) /\ Len(lines) \in Nat
  BY DEF StreamInit, BoundedSeq, SeqOf
<1>2. pos = 0 /\ 0 \div 3 = 0 /\ pos \in 0 .. Size
  BY <1>1 DEF StreamInit, Size
<1>3. Units(0, 0) = <<>>
  BY DEF Units
<1>4. Tells(Summary, 0)
  BY NothingTold DEF StreamInit, Summary
<1> QED BY <1>1, <1>2, <1>3, <1>4 DEF StreamInit, StreamIInv

(* A chunk joins what is left of the chunks before it.                       *)
LEMMA ChunkJoins ==
  ASSUME NEW p \in Nat, NEW n \in Nat
  PROVE  Units(p \div 3, p) \o [i \in 1 .. n |-> Unit(p + i)] = Units(p \div 3, p + n)
<1> DEFINE q == p \div 3
           old == Units(q, p)
           new == [i \in 1 .. n |-> Unit(p + i)]
<1>1. q \in Nat /\ 3 * q <= p
  BY ThirdOf
<1> HIDE DEF q
<1>2. Len(old) = p - 3 * q /\ Len(new) = n /\ p - 3 * q \in Nat
  BY <1>1 DEF Units
<1>3. old \o new = [i \in 1 .. (p - 3 * q) + n |->
                      IF i <= p - 3 * q THEN old[i] ELSE new[i - (p - 3 * q)]]
  <2>1. old \in Seq(Nat \X Nat) /\ new \in Seq(Nat \X Nat)
    <3>1. \A i \in Nat : i # 0 => Unit(i) \in Nat \X Nat
      BY DEF Unit
    <3>2. \A i \in 1 .. p - 3 * q : 3 * q + i \in Nat /\ 3 * q + i # 0
      BY <1>1
    <3>3. \A i \in 1 .. n : p + i \in Nat /\ p + i # 0
      OBVIOUS
    <3>4. old \in [1 .. p - 3 * q -> Nat \X Nat] /\ new \in [1 .. n -> Nat \X Nat]
      BY <3>1, <3>2, <3>3 DEF Units
    <3> HIDE DEF old, new
    <3> QED BY <1>2, <3>4
  <2>2. ASSUME NEW S, NEW a \in Seq(S), NEW b \in Seq(S)
        PROVE  a \o b = [i \in 1 .. Len(a) + Len(b) |->
                           IF i <= Len(a) THEN a[i] ELSE b[i - Len(a)]]
    <3> DEFINE x == a \o b
    <3>1. /\ x \in Seq(S) /\ Len(x) = Len(a) + Len(b)
          /\ \A i \in 1 .. Len(x) : x[i] = IF i <= Len(a) THEN a[i] ELSE b[i - Len(a)]
      OBVIOUS
    <3> HIDE DEF x
    <3>2. x = [i \in 1 .. Len(x) |-> x[i]]
      BY <3>1
    <3>3. x = [i \in 1 .. Len(a) + Len(b) |-> IF i <= Len(a) THEN a[i] ELSE b[i - Len(a)]]
      BY <3>1, <3>2
    <3> QED BY <3>3 DEF x
  <2> HIDE DEF old, new
  <2>3. old \o new = [i \in 1 .. Len(old) + Len(new) |->
                        IF i <= Len(old) THEN old[i] ELSE new[i - Len(old)]]
    BY <2>1, <2>2
  <2> QED BY <1>2, <2>3
<1>4. (p - 3 * q) + n = (p + n) - 3 * q
  BY <1>1
<1>5. ASSUME NEW i \in 1 .. (p + n) - 3 * q
      PROVE  (IF i <= p - 3 * q THEN old[i] ELSE new[i - (p - 3 * q)]) = Unit(3 * q + i)
  <2>1. CASE i <= p - 3 * q
    BY <1>1, <2>1, UnitsAre
  <2>2. CASE ~(i <= p - 3 * q)
    <3>1. i - (p - 3 * q) \in 1 .. n /\ p + (i - (p - 3 * q)) = 3 * q + i
      BY <1>1, <2>2
    <3> QED BY <2>2, <3>1
  <2> QED BY <2>1, <2>2
<1>6. old \o new = [i \in 1 .. (p + n) - 3 * q |-> Unit(3 * q + i)]
  <2> HIDE DEF old, new
  <2> QED BY <1>3, <1>4, <1>5
<1> QED BY <1>6 DEF Units, q

LEMMA WriteKeeps ==
  ASSUME StreamIInv, NEW n \in 1 .. 3 * MaxLines, Write(n)
  PROVE  StreamIInv'
<1> DEFINE buf == Units(pos \div 3, pos + n)
           end == Loop(Summary, buf)[Len(buf)]
<1>0. n \in Nat
  BY MaxLinesAssumption
<1>1. /\ lines \in Seq(Line) /\ pos \in Nat /\ ~flushed /\ pos + n <= Size
      /\ Len(lines) \in Nat
      /\ partial = Units(pos \div 3, pos) /\ Tells(Summary, pos \div 3)
  BY DEF StreamIInv, Write
<1>2. partial \o [i \in 1 .. n |-> Unit(pos + i)] = buf
  BY <1>0, <1>1, ChunkJoins
<1>3. /\ message' = end.summary.message /\ tools' = end.summary.tools
      /\ warned' = end.summary.warned /\ partial' = end.partial
  BY <1>2 DEF Write, Became
<1>4. pos' = pos + n /\ lines' = lines /\ flushed' = flushed
  BY DEF Write
<1>5. pos \div 3 \in Nat /\ 3 * (pos \div 3) <= pos + n /\ pos + n \in Nat
  BY <1>0, <1>1, ThirdOf
<1>6. Tells(end.summary, (pos + n) \div 3) /\ end.partial = Units((pos + n) \div 3, pos + n)
  BY <1>1, <1>5, LoopTells
<1>7. end.summary \in Summaries
  BY <1>6 DEF Tells
<1> HIDE DEF end, buf
<1>8. Summary' = end.summary
  BY <1>3, <1>7 DEF Summary, Summaries
<1>9. Tells(Summary, pos \div 3)'
  <2>1. IsTextAt(message, FinalText(pos \div 3))'
    <3> DEFINE m == end.summary.message
               after == (pos + n) \div 3
    <3>1. IsTextAt(m, FinalText(after))
      BY <1>6 DEF Tells
    <3>2. PICK place \in [1 .. Len(m) -> FinalText(after)] :
            /\ \A i, k \in 1 .. Len(m) : i < k => place[i] < place[k]
            /\ \A p \in FinalText(after) : \E i \in 1 .. Len(m) : place[i] = p
            /\ \A i \in 1 .. Len(m) : m[i] = lines[place[i]].text
      BY <3>1 DEF IsTextAt
    <3>3. FinalText(pos \div 3)' = FinalText(after)
      BY <1>4 DEF FinalText, MakesPreamble, IsToolCall, IsToolUpdate
    <3>4. message' = m /\ lines' = lines
      BY <1>3, <1>4
    <3> HIDE DEF m, after
    <3> QED BY <3>2, <3>3, <3>4 DEF IsTextAt
  <2>2. (tools = Unfinished(pos \div 3))'
    BY <1>3, <1>4, <1>6 DEF Tells, Unfinished, IsAbout, IsToolCall, IsToolUpdate
  <2>3. (warned <=> \E i \in 1 .. pos \div 3 : lines[i].kind = "garbled")'
    BY <1>3, <1>4, <1>6 DEF Tells
  <2>4. (Summary \in Summaries)'
    BY <1>7, <1>8 DEF Summaries
  <2> QED BY <2>1, <2>2, <2>3, <2>4 DEF Tells, Summary
<1>10. pos' \in 0 .. Size' /\ Size' = Size
  BY <1>1, <1>4, <1>5 DEF Size
<1>11. partial' = Units(pos \div 3, pos)'
  BY <1>3, <1>4, <1>6 DEF Units, Unit
<1> QED BY <1>1, <1>4, <1>9, <1>10, <1>11 DEF StreamIInv

LEMMA FlushKeeps ==
  ASSUME StreamIInv, Flush
  PROVE  StreamIInv'
<1> DEFINE q == pos \div 3
           t == handle(Summary, partial)
<1>1. /\ lines \in Seq(Line) /\ pos \in 0 .. Size /\ ~flushed /\ pos \in Nat
      /\ Len(lines) \in Nat
      /\ partial = Units(q, pos) /\ Tells(Summary, q)
  BY DEF StreamIInv, Flush, Size
<1>2. /\ message' = t.message /\ tools' = t.tools /\ warned' = t.warned
      /\ partial' = <<>> /\ flushed' = TRUE /\ lines' = lines /\ pos' = pos
  BY DEF Flush, Became
<1>3. q \in Nat /\ pos % 3 \in 0 .. 2 /\ pos = 3 * q + (pos % 3)
  BY <1>1, ThirdOf
<1>4. Arrived' = (pos + 1) \div 3
  BY <1>2 DEF Arrived
<1>5. /\ t \in Summaries
      /\ IsTextAt(t.message, FinalText(Arrived'))
      /\ t.tools = Unfinished(Arrived')
      /\ t.warned <=> (\E i \in 1 .. Arrived' : lines[i].kind = "garbled") \/ pos % 3 = 1
  <2>1. CASE pos % 3 = 0
    <3>1. Arrived' = q
      BY <1>3, <1>4, <2>1
    <3>2. t = Summary
      <4>1. partial = <<>>
        BY <1>1, <1>3, <2>1 DEF Units
      <4> QED BY <4>1 DEF handle
    <3> QED BY <1>1, <2>1, <3>1, <3>2 DEF Tells
  <2>2. CASE pos % 3 = 1
    <3>1. Arrived' = q
      BY <1>3, <1>4, <2>2
    <3>2. t = [Summary EXCEPT !.warned = TRUE]
      <4>1. Len(partial) = 1
        BY <1>1, <1>3, <2>2 DEF Units
      <4>2. partial # <<>> /\ ~IsWhole(partial)
        BY <4>1 DEF IsWhole
      <4> QED BY <4>2 DEF handle
    <3>3. /\ t \in Summaries /\ t.message = Summary.message /\ t.tools = Summary.tools
          /\ t.warned
      BY <1>1, <3>2 DEF Tells, Summaries
    <3> QED BY <1>1, <2>2, <3>1, <3>3 DEF Tells
  <2>3. CASE pos % 3 = 2
    <3>1. Arrived' = q + 1 /\ q + 1 <= Len(lines)
      BY <1>1, <1>3, <1>4, <2>3 DEF Size
    <3>2. partial = WholeLine(q + 1)
      <4>1. pos - 3 * q = 2
        BY <1>1, <1>3, <2>3
      <4>2. \A i \in 1 .. 2 : i \in 1 .. pos - 3 * q /\ i \in 1 .. 3
        BY <4>1
      <4>3. \A i \in 1 .. 2 : Units(q, pos)[i] = <<q + 1, i>>
        <5>1. 3 * q <= pos
          BY <1>1, <1>3
        <5> QED BY <1>1, <1>3, <4>2, <5>1, UnitsAre
      <4>4. Units(q, pos) = [i \in 1 .. 2 |-> Units(q, pos)[i]]
        BY <4>1 DEF Units
      <4>5. WholeLine(q + 1) = [i \in 1 .. 2 |-> <<q + 1, i>>]
        BY DEF WholeLine
      <4> QED BY <1>1, <4>3, <4>4, <4>5
    <3>3. Tells(t, q + 1)
      BY <1>1, <1>3, <3>1, <3>2, LineTold
    <3> QED BY <2>3, <3>1, <3>3 DEF Tells
  <2> QED BY <1>3, <2>1, <2>2, <2>3
<1> HIDE DEF t
<1>6. Summary' \in Summaries'
  BY <1>2, <1>5 DEF Summary, Summaries
<1>7. MessageIsFinal'
  <2>1. PICK place \in [1 .. Len(t.message) -> FinalText(Arrived')] :
          /\ \A i, k \in 1 .. Len(t.message) : i < k => place[i] < place[k]
          /\ \A p \in FinalText(Arrived') : \E i \in 1 .. Len(t.message) : place[i] = p
          /\ \A i \in 1 .. Len(t.message) : t.message[i] = lines[place[i]].text
    BY <1>5 DEF IsTextAt
  <2>2. FinalText(Arrived)' = FinalText(Arrived')
    BY <1>2 DEF FinalText, MakesPreamble, IsToolCall, IsToolUpdate
  <2> QED BY <1>2, <2>1, <2>2 DEF MessageIsFinal, IsTextAt
<1>8. ReportsDependOnTheLines'
  BY <1>2, <1>5 DEF ReportsDependOnTheLines, Unfinished, IsAbout, IsToolCall, IsToolUpdate
<1>9. pos' \in 0 .. Size'
  BY <1>1, <1>2 DEF Size
<1> QED BY <1>1, <1>2, <1>6, <1>7, <1>8, <1>9 DEF StreamIInv

LEMMA StreamNextIInv == StreamIInv /\ [StreamNext]_streamVars => StreamIInv'
<1> SUFFICES ASSUME StreamIInv, [StreamNext]_streamVars PROVE StreamIInv'
  OBVIOUS
<1>1. CASE UNCHANGED streamVars
  <2>1. /\ lines' = lines /\ pos' = pos /\ partial' = partial /\ flushed' = flushed
        /\ message' = message /\ tools' = tools /\ warned' = warned
    BY <1>1 DEF streamVars
  <2>2. pos' \in 0 .. Size' /\ Units(pos \div 3, pos)' = Units(pos \div 3, pos)
    BY <2>1 DEF StreamIInv, Size, Units, Unit
  <2>3. Tells(Summary, pos \div 3) => Tells(Summary, pos \div 3)'
    BY <2>1 DEF Tells, Summary, Summaries, IsTextAt, FinalText, Unfinished, IsAbout,
       MakesPreamble, IsToolCall, IsToolUpdate
  <2>4. Summary \in Summaries => Summary' \in Summaries'
    BY <2>1 DEF Summary, Summaries
  <2>5. MessageIsFinal => MessageIsFinal'
    BY <2>1 DEF MessageIsFinal, Arrived, IsTextAt, FinalText, MakesPreamble,
       IsToolCall, IsToolUpdate
  <2>6. ReportsDependOnTheLines => ReportsDependOnTheLines'
    BY <2>1 DEF ReportsDependOnTheLines, Arrived, Unfinished, IsAbout, IsToolCall, IsToolUpdate
  <2> QED BY <2>1, <2>2, <2>3, <2>4, <2>5, <2>6 DEF StreamIInv
<1>2. CASE StreamNext
  BY <1>1, <1>2, WriteKeeps, FlushKeeps DEF StreamNext, StreamOver
<1> QED BY <1>1, <1>2

(* The summary is always that of the lines arrived whole, and what is kept   *)
(* beside it is the beginning of the next: Write and flush lose nothing and  *)
(* handle nothing twice, however the executor's output is cut.               *)
THEOREM StreamInvariance == StreamSpec => []StreamIInv
BY InitStreamIInv, StreamNextIInv, PTL DEF StreamSpec

(* Before the end, what arrived whole is what the summary tells of.          *)
LEMMA WholeSoFar ==
  ASSUME StreamIInv, ~flushed
  PROVE  Arrived = pos \div 3 /\ Tells(Summary, Arrived)
BY DEF StreamIInv, Arrived

(* Every variable of the stream keeps its type; no whole line stays behind.  *)
THEOREM StreamTypeCorrect == StreamSpec => []StreamTypeOK
<1>1. StreamIInv => StreamTypeOK
  <2> SUFFICES ASSUME StreamIInv PROVE StreamTypeOK
    OBVIOUS
  <2>1. Summary \in Summaries
    BY DEF StreamIInv, Tells
  <2>2. /\ message \in Seq(Text) /\ tools \subseteq Tool /\ warned \in BOOLEAN
    BY <2>1 DEF Summary, Summaries
  <2>3. partial \in Seq((1 .. Len(lines)) \X {1, 2}) /\ Len(partial) < 3
    <3>1. CASE flushed
      BY <3>1 DEF StreamIInv
    <3>2. CASE ~flushed
      <4> DEFINE q == pos \div 3
      <4>1. /\ partial = Units(q, pos) /\ pos \in Nat /\ pos <= Size
            /\ lines \in Seq(Line) /\ Len(lines) \in Nat
        BY <3>2 DEF StreamIInv, Size
      <4>2. q \in Nat /\ pos - 3 * q \in 0 .. 2 /\ 3 * q <= pos
        BY <4>1, ThirdOf
      <4>3. ASSUME NEW i \in 1 .. pos - 3 * q
            PROVE  Units(q, pos)[i] \in (1 .. Len(lines)) \X {1, 2}
        <5>1. i \in {1, 2} /\ i \in 1 .. 3
          BY <4>2
        <5>2. Units(q, pos)[i] = <<q + 1, i>>
          BY <4>1, <4>2, <5>1, UnitsAre
        <5>3. q + 1 \in 1 .. Len(lines)
          BY <4>1, <4>2 DEF Size
        <5>4. <<q + 1, i>> \in (1 .. Len(lines)) \X {1, 2}
          BY <5>1, <5>3
        <5> QED BY <5>2, <5>4
      <4> HIDE DEF q
      <4>4. Units(q, pos) \in [1 .. pos - 3 * q -> (1 .. Len(lines)) \X {1, 2}]
        BY <4>3 DEF Units
      <4>5. pos - 3 * q \in Nat /\ pos - 3 * q < 3
        BY <4>2
      <4> QED BY <4>1, <4>4, <4>5
    <3> QED BY <3>1, <3>2
  <2> QED BY <2>2, <2>3 DEF StreamIInv, StreamTypeOK
<1> QED BY <1>1, StreamInvariance, PTL

(* For every transcript and every chunking of it, the message is the text no *)
(* tool call, and no update of a tool still running, came after.             *)
THEOREM TheMessageIsFinal == StreamSpec => []MessageIsFinal
<1>1. StreamIInv => MessageIsFinal
  BY WholeSoFar DEF StreamIInv, Tells, Summary, MessageIsFinal
<1> QED BY <1>1, StreamInvariance, PTL

(* For every transcript and every chunking of it, the open tools and the     *)
(* warning are what the lines that arrived say.                              *)
THEOREM ReportsAreTheTranscripts == StreamSpec => []ReportsDependOnTheLines
<1>1. StreamIInv => ReportsDependOnTheLines
  BY WholeSoFar DEF StreamIInv, Tells, Summary, ReportsDependOnTheLines
<1> QED BY <1>1, StreamInvariance, PTL

=============================================================================
