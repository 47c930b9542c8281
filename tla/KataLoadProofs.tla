-------------------------- MODULE KataLoadProofs --------------------------
(* For every line: splitting takes exactly the lines that spell words, and    *)
(* yields those words.  For every kata, flags and environment: a run that is  *)
(* prepared finds what later code looks up unchecked, amendments stay with    *)
(* their job, steps run the words they were written as, and a kata that       *)
(* keeps the rules is not refused.                                            *)
EXTENDS KataLoad, SequenceTheorems, WellFoundedInduction, TLAPS

-----------------------------------------------------------------------------
(* Why it holds: what each check established and no later one undoes.       *)

Profile(j) == J(j).agents[1].profile
Amend(j) == J(j).agents[1].amend

\* Merge's result, for the jobs resolved so far, of the profiles in the file.
ResolvedInv ==
  \A j \in DOMAIN executor :
    /\ j \in Job \ left /\ HasAgent(j)
    /\ Profile(j) \in DOMAIN kata.agents
    /\ executor[j] = Merge(kata.agents[Profile(j)], Amend(j))

AfterDecode == {"decls", "jobs", "cycle", "bind", "preflight", "prepared"}
AfterDecls == AfterDecode \ {"decls"}

DecodedInv ==
  pc \in AfterDecode =>
    /\ agents = kata.agents
    /\ argvs = [j \in Job |-> [i \in DOMAIN J(j).steps |-> Argv(J(j).steps[i]).argv]]
    /\ \A j \in Job : \A i \in DOMAIN J(j).steps : Argv(J(j).steps[i]).ok

DeclsInv ==
  pc \in AfterDecls => \A p \in DOMAIN kata.agents : ProfileOK(kata.agents[p])

\* What validateJob leaves of j, its texts those it runs with.
Validated(j) ==
  /\ ShapeOK(j) /\ Range(J(j).needs) \subseteq Job
  /\ HasAgent(j) <=> j \in DOMAIN executor
  /\ HasAgent(j) => Profile(j) \in DOMAIN kata.agents /\ Amend(j).timeout >= 0
  /\ \A a \in Placeholders(Texts(j, executor)) : RefOK(j, a)

JobsInv ==
  /\ pc \in AfterDecls => \A j \in Job \ left : Validated(j)
  /\ pc \in AfterDecls \ {"jobs"} => left = {}
  /\ pc \in {"flags", "decode", "decls"} => left = Job

BoundInv == pc \in {"preflight", "prepared"} => DOMAIN bound = DOMAIN kata.params

FitsInv ==
  pc = "prepared" =>
    \A j \in DOMAIN executor :
      LET p == executor[j]
      IN SkillsOK(p) /\ MCPsOK(p) /\ AdapterFits(p) /\ SystemPromptFits(p)

IInv ==
  /\ kata \in Kata /\ left \subseteq Job
  /\ ResolvedInv /\ DecodedInv /\ DeclsInv /\ JobsInv /\ BoundInv /\ FitsInv

\* What a step of the file says of itself is true: a null item is not readable
\* and has no words, an array is readable when it has some, and a line when it
\* has no shell syntax and spells at least one word; its words are those.
IsLabelled(s) ==
  CASE s.form = "null" -> ~s.readable /\ s.words = <<>>
    [] s.form = "array" -> s.readable <=> s.words # <<>>
    [] OTHER -> /\ s.readable <=> /\ Range(s.line) \cap Shell = {}
                                  /\ \E w : w # <<>> /\ Spells(s.line, w)
                /\ s.readable => Spells(s.line, s.words)

StepsAreLabelled ==
  \A k \in Kata : \A j \in DOMAIN k.workflow :
    \A s \in Range(k.workflow[j].steps) : IsLabelled(s)

\* The kata keeps the documented rules, and later lookups would succeed.
Blameless ==
  WellFormed /\ \A j \in Job : Finds(j, Declared, Words(j), DOMAIN kata.params)

NotRefused == pc = "refused" => ~Blameless

-----------------------------------------------------------------------------
(* Splitting, character by character.                                      *)

(* Induction, as sets: what contains 0 and, with n, n + 1 contains every     *)
(* natural number, or there would be a least one it lacks.                   *)
LEMMA Induct ==
  ASSUME NEW S \in SUBSET Nat, 0 \in S, \A n \in S : n + 1 \in S
  PROVE  S = Nat
<1> DEFINE Less == {p \in Nat \X Nat : p[1] < p[2]}
           Lacks == Nat \ S
<1>1. IsWellFoundedOn(Less, Nat)
  BY NatLessThanWellFounded DEF OpToRel
<1> SUFFICES ASSUME Lacks # {} PROVE FALSE
  OBVIOUS
<1>2. PICK m \in Lacks : \A k \in Lacks : <<k, m>> \notin Less
  <2> HIDE DEF Less, Lacks
  <2>1. Lacks \subseteq Nat
    BY DEF Lacks
  <2> QED BY <1>1, <2>1, WFMin, Zenon
<1>3. m # 0 /\ m - 1 \in Nat /\ <<m - 1, m>> \in Less
  OBVIOUS
<1>4. m - 1 \in S
  BY <1>2, <1>3
<1>5. (m - 1) + 1 = m
  OBVIOUS
<1> QED BY <1>4, <1>5

(* The same for sequences, which grow at their end.                          *)
LEMMA SeqInduct ==
  ASSUME NEW A, NEW P \in SUBSET Seq(A), <<>> \in P,
         \A s \in P : \A a \in A : Append(s, a) \in P
  PROVE  P = Seq(A)
<1> DEFINE S == {n \in Nat : \A s \in Seq(A) : Len(s) = n => s \in P}
<1>1. 0 \in S
  OBVIOUS
<1>2. ASSUME NEW n \in S PROVE n + 1 \in S
  <2> SUFFICES ASSUME NEW s \in Seq(A), Len(s) = n + 1 PROVE s \in P
    OBVIOUS
  <2>1. s # <<>>
    OBVIOUS
  <2>2. PICK r \in Seq(A), a \in A : s = Append(r, a)
    BY <2>1, SequenceEmptyOrAppend
  <2>3. Len(r) = n
    BY <2>2
  <2> QED BY <1>2, <2>2, <2>3
<1>3. S \in SUBSET Nat
  OBVIOUS
<1> HIDE DEF S
<1>4. S = Nat
  BY <1>1, <1>2, <1>3, Induct
<1>5. ASSUME NEW s \in Seq(A) PROVE s \in P
  <2>1. Len(s) \in S
    BY <1>4
  <2> QED BY <2>1 DEF S
<1> QED BY <1>5

(* The splitter takes the characters of a line one after the other.          *)
LEMMA SplitterUnfolds ==
  ASSUME NEW sp, NEW line, Len(line) \in Nat
  PROVE  Splitter(sp, line) =
           [n \in 0 .. Len(line) |-> IF n = 0 THEN sp
                                     ELSE Take(Splitter(sp, line)[n - 1], line[n])]
<1> DEFINE Goes(f, n) == f = [i \in 0 .. n |-> IF i = 0 THEN sp
                                              ELSE Take(f[i - 1], line[i])]
           Can == {n \in Nat : \E f : Goes(f, n)}
<1>1. 0 \in Can
  <2>1. Goes([i \in 0 .. 0 |-> sp], 0)
    OBVIOUS
  <2> QED BY <2>1
<1>2. ASSUME NEW n \in Can PROVE n + 1 \in Can
  <2>1. PICK f : Goes(f, n)
    OBVIOUS
  <2> DEFINE g == [i \in 0 .. n + 1 |-> IF i = n + 1 THEN Take(f[n], line[i]) ELSE f[i]]
  <2>2. \A i \in 0 .. n : g[i] = f[i]
    OBVIOUS
  <2>3. ASSUME NEW i \in 0 .. n + 1
        PROVE  g[i] = IF i = 0 THEN sp ELSE Take(g[i - 1], line[i])
    <3>1. CASE i = n + 1
      <4>1. i # 0 /\ i - 1 = n /\ n \in 0 .. n
        BY <3>1
      <4>2. g[i] = Take(f[n], line[i])
        BY <3>1
      <4>3. g[i - 1] = f[n]
        BY <4>1, <2>2
      <4> HIDE DEF g
      <4> QED BY <4>1, <4>2, <4>3
    <3>2. CASE i # n + 1
      <4>1. i \in 0 .. n /\ (i # 0 => i - 1 \in 0 .. n)
        BY <3>2
      <4>2. g[i] = f[i] /\ (i # 0 => g[i - 1] = f[i - 1])
        BY <4>1, <2>2
      <4>3. f[i] = IF i = 0 THEN sp ELSE Take(f[i - 1], line[i])
        BY <4>1, <2>1
      <4> HIDE DEF g
      <4> QED BY <4>2, <4>3
    <3> QED BY <3>1, <3>2
  <2>4. g = [i \in 0 .. n + 1 |-> IF i = 0 THEN sp ELSE Take(g[i - 1], line[i])]
    <3>1. g = [i \in 0 .. n + 1 |-> g[i]]
      OBVIOUS
    <3> HIDE DEF g
    <3> QED BY <3>1, <2>3
  <2> HIDE DEF g
  <2>5. n + 1 \in Nat /\ Goes(g, n + 1)
    BY <2>4
  <2> HIDE DEF Goes
  <2> QED BY <2>5
<1>3. Can = Nat
  <2> HIDE DEF Can
  <2>1. Can \in SUBSET Nat
    BY DEF Can
  <2> QED BY <1>1, <1>2, <2>1, Induct
<1>4. \E f : Goes(f, Len(line))
  BY <1>3
<1>5. Splitter(sp, line) = CHOOSE f : Goes(f, Len(line))
  BY DEF Splitter
<1> HIDE DEF Goes
<1>6. Goes(Splitter(sp, line), Len(line))
  BY <1>4, <1>5
<1> QED BY <1>6 DEF Goes

\* The splitter once it has taken the whole line.
Run(sp, line) == Splitter(sp, line)[Len(line)]

(* How it goes through a line does not depend on what comes after.           *)
LEMMA RunLaws ==
  ASSUME NEW sp
  PROVE  /\ Run(sp, <<>>) = sp
         /\ \A s \in Text : \A r \in AnyAtom :
              Run(sp, Append(s, r)) = Take(Run(sp, s), r)
<1>1. Run(sp, <<>>) = sp
  <2>1. Len(<<>>) = 0
    OBVIOUS
  <2> QED BY <2>1, SplitterUnfolds DEF Run
<1>2. ASSUME NEW s \in Text, NEW r \in AnyAtom
      PROVE  Run(sp, Append(s, r)) = Take(Run(sp, s), r)
  <2> DEFINE t == Append(s, r)
             f == Splitter(sp, s)
             g == Splitter(sp, t)
             S == {n \in Nat : n <= Len(s) => g[n] = f[n]}
  <2>1. /\ Len(s) \in Nat /\ Len(t) \in Nat /\ Len(t) = Len(s) + 1
        /\ t[Len(s) + 1] = r /\ \A i \in 1 .. Len(s) : t[i] = s[i]
    BY DEF Text
  <2> HIDE DEF t
  <2>2. f = [n \in 0 .. Len(s) |-> IF n = 0 THEN sp ELSE Take(f[n - 1], s[n])]
    BY <2>1, SplitterUnfolds
  <2>3. g = [n \in 0 .. Len(t) |-> IF n = 0 THEN sp ELSE Take(g[n - 1], t[n])]
    BY <2>1, SplitterUnfolds
  <2> HIDE DEF f, g
  <2>4. \A n \in 0 .. Len(s) : f[n] = IF n = 0 THEN sp ELSE Take(f[n - 1], s[n])
    BY <2>2
  <2>5. \A n \in 0 .. Len(t) : g[n] = IF n = 0 THEN sp ELSE Take(g[n - 1], t[n])
    BY <2>3
  <2>6. 0 \in S
    BY <2>1, <2>4, <2>5
  <2>7. ASSUME NEW n \in S PROVE n + 1 \in S
    <3> SUFFICES ASSUME n + 1 <= Len(s) PROVE g[n + 1] = f[n + 1]
      OBVIOUS
    <3>1. /\ n + 1 \in 1 .. Len(s) /\ n + 1 \in 0 .. Len(s) /\ n + 1 \in 0 .. Len(t)
          /\ (n + 1) - 1 = n /\ n + 1 # 0
      BY <2>1
    <3>2. f[n + 1] = Take(f[n], s[n + 1]) /\ g[n + 1] = Take(g[n], t[n + 1])
      BY <2>4, <2>5, <3>1
    <3>3. g[n] = f[n] /\ t[n + 1] = s[n + 1]
      BY <2>1, <3>1
    <3> QED BY <3>2, <3>3
  <2>8. S = Nat
    <3> HIDE DEF S
    <3>1. S \in SUBSET Nat
      BY DEF S
    <3> QED BY <2>6, <2>7, <3>1, Induct
  <2>9. g[Len(s)] = f[Len(s)]
    BY <2>1, <2>8
  <2>10. Len(t) \in 0 .. Len(t) /\ Len(t) # 0 /\ Len(t) - 1 = Len(s) /\ t[Len(t)] = r
    BY <2>1
  <2>11. g[Len(t)] = Take(g[Len(t) - 1], t[Len(t)])
    BY <2>5, <2>10
  <2>12. g[Len(t)] = Take(f[Len(s)], r)
    BY <2>9, <2>10, <2>11
  <2> QED BY <2>12 DEF Run, t, f, g
<1> QED BY <1>1, <1>2

LEMMA RunTakes ==
  ASSUME NEW sp, NEW s \in Text, NEW r \in AnyAtom
  PROVE  Run(sp, Append(s, r)) = Take(Run(sp, s), r)
BY RunLaws

(* A line in two parts is taken part after part.                             *)
LEMMA RunOn ==
  ASSUME NEW sp, NEW s \in Text, NEW t \in Text
  PROVE  Run(sp, s \o t) = Run(Run(sp, s), t)
<1> DEFINE P == {r \in Text : Run(sp, s \o r) = Run(Run(sp, s), r)}
<1>1. <<>> \in P
  <2>1. s \o <<>> = s /\ <<>> \in Text
    BY DEF Text
  <2> QED BY <2>1, RunLaws
<1>2. ASSUME NEW r \in P, NEW a \in AnyAtom PROVE Append(r, a) \in P
  <2>1. r \in Text /\ s \o r \in Text /\ Append(r, a) \in Text
    BY DEF Text
  <2>2. s \o Append(r, a) = Append(s \o r, a)
    BY <2>1 DEF Text
  <2>3. Run(sp, Append(s \o r, a)) = Take(Run(sp, s \o r), a)
    BY <2>1, RunTakes
  <2>4. Run(Run(sp, s), Append(r, a)) = Take(Run(Run(sp, s), r), a)
    BY <2>1, RunTakes
  <2> QED BY <2>1, <2>2, <2>3, <2>4
<1>3. P \in SUBSET Seq(AnyAtom)
  BY DEF Text
<1> HIDE DEF P
<1>4. P = Seq(AnyAtom)
  BY <1>1, <1>2, <1>3, SeqInduct
<1> QED BY <1>4 DEF P, Text

(* What is strung together, one more at the end.                             *)
LEMMA FlattenUnfolds ==
  ASSUME NEW A, NEW seqs \in Seq(Seq(A))
  PROVE  \E f : /\ seqs # <<>> => FlattenSeq(seqs) = f[Len(seqs)]
                /\ \A i \in 1 .. Len(seqs) :
                     f[i] = IF i = 1 THEN seqs[i] ELSE f[i - 1] \o seqs[i]
<1> DEFINE Goes(f, n) == f = [i \in 1 .. n |-> IF i = 1 THEN seqs[i]
                                              ELSE f[i - 1] \o seqs[i]]
           Can == {n \in Nat : \E f : Goes(f, n)}
<1>1. 0 \in Can
  <2>1. Goes([i \in 1 .. 0 |-> seqs[i]], 0)
    OBVIOUS
  <2> QED BY <2>1
<1>2. ASSUME NEW n \in Can PROVE n + 1 \in Can
  <2>1. PICK f : Goes(f, n)
    OBVIOUS
  <2> DEFINE last == IF n = 0 THEN seqs[1] ELSE f[n] \o seqs[n + 1]
             g == [i \in 1 .. n + 1 |-> IF i = n + 1 THEN last ELSE f[i]]
  <2>2. \A i \in 1 .. n : g[i] = f[i]
    OBVIOUS
  <2>3. ASSUME NEW i \in 1 .. n + 1
        PROVE  g[i] = IF i = 1 THEN seqs[i] ELSE g[i - 1] \o seqs[i]
    <3>1. CASE i = n + 1
      <4>1. g[i] = last
        BY <3>1
      <4>2. i # 1 => i - 1 = n /\ n \in 1 .. n
        BY <3>1
      <4>3. i # 1 => g[i - 1] = f[n]
        BY <4>2, <2>2
      <4>4. i = 1 <=> n = 0
        BY <3>1
      <4> HIDE DEF g
      <4> QED BY <3>1, <4>1, <4>3, <4>4
    <3>2. CASE i # n + 1
      <4>1. i \in 1 .. n /\ (i # 1 => i - 1 \in 1 .. n)
        BY <3>2
      <4>2. g[i] = f[i] /\ (i # 1 => g[i - 1] = f[i - 1])
        BY <4>1, <2>2
      <4>3. f[i] = IF i = 1 THEN seqs[i] ELSE f[i - 1] \o seqs[i]
        BY <4>1, <2>1
      <4> HIDE DEF g
      <4> QED BY <4>2, <4>3
    <3> QED BY <3>1, <3>2
  <2>4. g = [i \in 1 .. n + 1 |-> IF i = 1 THEN seqs[i] ELSE g[i - 1] \o seqs[i]]
    <3>1. g = [i \in 1 .. n + 1 |-> g[i]]
      OBVIOUS
    <3> HIDE DEF g
    <3> QED BY <3>1, <2>3
  <2> HIDE DEF g
  <2>5. n + 1 \in Nat
    OBVIOUS
  <2>6. Goes(g, n + 1)
    BY <2>4, Zenon
  <2> HIDE DEF Goes
  <2> QED BY <2>5, <2>6
<1>3. Can = Nat
  <2> HIDE DEF Can
  <2>1. Can \in SUBSET Nat
    BY DEF Can
  <2> QED BY <1>1, <1>2, <2>1, Induct
<1>4. \E f : Goes(f, Len(seqs))
  <2>1. Len(seqs) \in Nat
    OBVIOUS
  <2>2. Len(seqs) \in Can
    <3> HIDE DEF Can
    <3> QED BY <1>3, <2>1
  <2> HIDE DEF Goes
  <2> QED BY <2>2
<1> DEFINE F == CHOOSE f : Goes(f, Len(seqs))
<1>5. seqs # <<>> => FlattenSeq(seqs) = F[Len(seqs)]
  BY DEF FlattenSeq
<1> HIDE DEF Goes
<1>6. Goes(F, Len(seqs))
  BY <1>4
<1> HIDE DEF F
<1>7. \A i \in 1 .. Len(seqs) : F[i] = IF i = 1 THEN seqs[i] ELSE F[i - 1] \o seqs[i]
  BY <1>6 DEF Goes
<1> QED BY <1>5, <1>7

(* Strung together: nothing, one more, and the type.                         *)
LEMMA FlattenLaws ==
  ASSUME NEW A
  PROVE  /\ FlattenSeq(<<>>) = <<>>
         /\ \A seqs \in Seq(Seq(A)) : \A x \in Seq(A) :
              FlattenSeq(Append(seqs, x)) = FlattenSeq(seqs) \o x
         /\ \A seqs \in Seq(Seq(A)) : FlattenSeq(seqs) \in Seq(A)
<1>1. FlattenSeq(<<>>) = <<>>
  BY DEF FlattenSeq
<1>2. ASSUME NEW seqs \in Seq(Seq(A)), NEW x \in Seq(A)
      PROVE  FlattenSeq(Append(seqs, x)) = FlattenSeq(seqs) \o x
  <2> DEFINE t == Append(seqs, x)
  <2>1. /\ Len(seqs) \in Nat /\ Len(t) \in Nat /\ Len(t) = Len(seqs) + 1 /\ t # <<>>
        /\ t[Len(seqs) + 1] = x /\ \A i \in 1 .. Len(seqs) : t[i] = seqs[i]
        /\ t \in Seq(Seq(A))
    BY AppendProperties, LenProperties
  <2> HIDE DEF t
  <2>2. PICK f : /\ seqs # <<>> => FlattenSeq(seqs) = f[Len(seqs)]
                 /\ \A i \in 1 .. Len(seqs) :
                      f[i] = IF i = 1 THEN seqs[i] ELSE f[i - 1] \o seqs[i]
    BY FlattenUnfolds
  <2>3. PICK g : /\ FlattenSeq(t) = g[Len(t)]
                 /\ \A i \in 1 .. Len(t) : g[i] = IF i = 1 THEN t[i] ELSE g[i - 1] \o t[i]
    <3>1. \E g : /\ t # <<>> => FlattenSeq(t) = g[Len(t)]
                 /\ \A i \in 1 .. Len(t) :
                      g[i] = IF i = 1 THEN t[i] ELSE g[i - 1] \o t[i]
      BY <2>1, FlattenUnfolds
    <3> QED BY <2>1, <3>1
  <2> DEFINE S == {n \in Nat : n + 1 <= Len(seqs) => g[n + 1] = f[n + 1]}
  <2>4. 0 \in S
    <3> SUFFICES ASSUME 1 <= Len(seqs) PROVE g[1] = f[1]
      OBVIOUS
    <3>1. 1 \in 1 .. Len(seqs) /\ 1 \in 1 .. Len(t)
      BY <2>1
    <3>2. f[1] = seqs[1] /\ g[1] = t[1] /\ t[1] = seqs[1]
      BY <2>1, <2>2, <2>3, <3>1
    <3> QED BY <3>2
  <2>5. ASSUME NEW n \in S PROVE n + 1 \in S
    <3> SUFFICES ASSUME (n + 1) + 1 <= Len(seqs) PROVE g[(n + 1) + 1] = f[(n + 1) + 1]
      OBVIOUS
    <3>0. n \in Nat /\ n + 1 <= Len(seqs) /\ g[n + 1] = f[n + 1]
      BY <2>1
    <3> HIDE DEF S
    <3> DEFINE i == (n + 1) + 1
    <3>1. i \in 1 .. Len(seqs) /\ i \in 1 .. Len(t) /\ i - 1 = n + 1 /\ i # 1
      BY <2>1, <3>0
    <3> HIDE DEF i
    <3>2. f[i] = f[i - 1] \o seqs[i]
      BY <2>2, <3>1
    <3>3. g[i] = g[i - 1] \o t[i]
      BY <2>3, <3>1
    <3>4. t[i] = seqs[i]
      BY <2>1, <3>1
    <3>5. g[i - 1] = f[i - 1]
      BY <3>0, <3>1
    <3>6. g[i] = f[i]
      BY <3>2, <3>3, <3>4, <3>5
    <3> QED BY <3>6 DEF i
  <2>6. S = Nat
    <3> HIDE DEF S
    <3>1. S \in SUBSET Nat
      BY DEF S
    <3> QED BY <2>4, <2>5, <3>1, Induct
  <2>7. CASE seqs = <<>>
    <3>1. Len(t) = 1 /\ t[1] = x /\ 1 \in 1 .. Len(t)
      BY <2>1, <2>7
    <3>2. g[1] = t[1]
      BY <2>3, <3>1
    <3>3. <<>> \o x = x
      OBVIOUS
    <3> QED BY <1>1, <2>3, <2>7, <3>1, <3>2, <3>3 DEF t
  <2>8. CASE seqs # <<>>
    <3> DEFINE n == Len(seqs)
    <3>1. n \in Nat /\ n >= 1 /\ n - 1 \in Nat
      BY <2>1, <2>8
    <3>2. n - 1 \in S
      BY <2>6, <3>1
    <3>3. (n - 1) + 1 = n /\ (n - 1) + 1 <= Len(seqs)
      BY <2>1
    <3>4. g[n] = f[n]
      BY <3>2, <3>3
    <3>5. Len(t) \in 1 .. Len(t) /\ Len(t) # 1 /\ Len(t) - 1 = n /\ t[Len(t)] = x
      BY <2>1, <3>1
    <3> HIDE DEF S
    <3>6. g[Len(t)] = g[Len(t) - 1] \o t[Len(t)]
      BY <2>3, <3>5
    <3>7. g[Len(t)] = f[n] \o x
      BY <3>4, <3>5, <3>6
    <3>8. FlattenSeq(seqs) = f[n]
      BY <2>2, <2>8
    <3>9. FlattenSeq(t) = FlattenSeq(seqs) \o x
      BY <2>3, <3>7, <3>8
    <3> QED BY <3>9 DEF t
  <2> QED BY <2>7, <2>8
<1>3. ASSUME NEW seqs \in Seq(Seq(A)) PROVE FlattenSeq(seqs) \in Seq(A)
  <2> DEFINE P == {s \in Seq(Seq(A)) : FlattenSeq(s) \in Seq(A)}
  <2>1. <<>> \in P
    <3>1. <<>> \in Seq(Seq(A)) /\ <<>> \in Seq(A)
      OBVIOUS
    <3> QED BY <1>1, <3>1
  <2>2. ASSUME NEW s \in P, NEW x \in Seq(A) PROVE Append(s, x) \in P
    <3>1. FlattenSeq(Append(s, x)) = FlattenSeq(s) \o x
      <4>1. s \in Seq(Seq(A))
        OBVIOUS
      <4> QED BY <1>2, <4>1
    <3>2. FlattenSeq(s) \o x \in Seq(A)
      OBVIOUS
    <3>3. Append(s, x) \in Seq(Seq(A))
      OBVIOUS
    <3> QED BY <3>1, <3>2, <3>3
  <2>3. P \in SUBSET Seq(Seq(A))
    OBVIOUS
  <2> HIDE DEF P
  <2>4. P = Seq(Seq(A))
    BY <2>1, <2>2, <2>3, SeqInduct
  <2> QED BY <2>4 DEF P
<1> QED BY <1>1, <1>2, <1>3

-----------------------------------------------------------------------------
(* How a line is written, one piece or one word more at a time.             *)

(* The splitter's own characters differ.                                     *)
LEMMA AtomTypes ==
  /\ Quote \subseteq AnyAtom /\ NoQuote \in AnyAtom /\ Space \in AnyAtom
  /\ NoQuote \notin Quote /\ Space \notin Quote /\ Space # NoQuote
<1>1. Quote \subseteq AnyAtom /\ NoQuote \in AnyAtom /\ Space \in AnyAtom
  BY DEF AnyAtom
<1>2. NoQuote.ref = "" /\ Space.ref = " " /\ \A q \in Quote : q.ref \in {"'", "\""}
  BY DEF NoQuote, Space, Quote, Char, Atom
<1> QED BY <1>1, <1>2

LEMMA PieceLaws ==
  ASSUME NEW p \in Piece
  PROVE  p.text \in Text /\ PieceLine(p) \in Text
<1>1. p.text \in Seq(AnyAtom) /\ p.quote \in Quote \cup {NoQuote}
  BY DEF Piece, Text
<1>2. Quote \cup {NoQuote} \subseteq AnyAtom
  BY AtomTypes
<1>3. <<p.quote>> \in Seq(AnyAtom)
  BY <1>1, <1>2
<1>4. <<p.quote>> \o p.text \o <<p.quote>> \in Seq(AnyAtom)
  BY <1>1, <1>3
<1> QED BY <1>1, <1>4 DEF PieceLine, Text

(* A word with one more piece.                                               *)
LEMMA PiecesLaws ==
  /\ PiecesLine(<<>>) = <<>> /\ PiecesText(<<>>) = <<>>
  /\ \A ps \in Seq(Piece) : PiecesLine(ps) \in Text /\ PiecesText(ps) \in Text
  /\ \A ps \in Seq(Piece) : \A p \in Piece :
       /\ PiecesLine(Append(ps, p)) = PiecesLine(ps) \o PieceLine(p)
       /\ PiecesText(Append(ps, p)) = PiecesText(ps) \o p.text
<1> DEFINE lines(ps) == [i \in DOMAIN ps |-> PieceLine(ps[i])]
           texts(ps) == [i \in DOMAIN ps |-> ps[i].text]
<1>1. lines(<<>>) = <<>> /\ texts(<<>>) = <<>>
  OBVIOUS
<1>2. PiecesLine(<<>>) = <<>> /\ PiecesText(<<>>) = <<>>
  BY <1>1, FlattenLaws DEF PiecesLine, PiecesText
<1>3. ASSUME NEW ps \in Seq(Piece)
      PROVE  lines(ps) \in Seq(Text) /\ texts(ps) \in Seq(Text)
  <2>1. Len(ps) \in Nat /\ DOMAIN ps = 1 .. Len(ps) /\ \A i \in DOMAIN ps : ps[i] \in Piece
    OBVIOUS
  <2>2. \A i \in 1 .. Len(ps) : PieceLine(ps[i]) \in Text /\ ps[i].text \in Text
    BY <2>1, PieceLaws
  <2> QED BY <2>1, <2>2
<1>4. ASSUME NEW ps \in Seq(Piece), NEW p \in Piece
      PROVE  /\ lines(Append(ps, p)) = Append(lines(ps), PieceLine(p))
             /\ texts(Append(ps, p)) = Append(texts(ps), p.text)
  <2> DEFINE t == Append(ps, p)
  <2>1. /\ Len(ps) \in Nat /\ DOMAIN ps = 1 .. Len(ps) /\ DOMAIN t = 1 .. Len(ps) + 1
        /\ t[Len(ps) + 1] = p /\ \A i \in 1 .. Len(ps) : t[i] = ps[i]
    OBVIOUS
  <2>2. lines(ps) \in Seq(Text) /\ texts(ps) \in Seq(Text)
        /\ PieceLine(p) \in Text /\ p.text \in Text
    BY <1>3, PieceLaws
  <2> HIDE DEF t
  <2>3. Len(lines(ps)) = Len(ps) /\ Len(texts(ps)) = Len(ps)
    BY <2>1, <2>2
  <2>4. lines(t) = Append(lines(ps), PieceLine(p))
    <3> DEFINE L == lines(ps)
               K == Append(L, PieceLine(p))
    <3>1. \A i \in 1 .. Len(ps) : L[i] = PieceLine(ps[i])
      BY <2>1
    <3> HIDE DEF L
    <3>2. /\ K = [i \in 1 .. Len(ps) + 1 |-> K[i]]
          /\ \A i \in 1 .. Len(ps) : K[i] = L[i]
          /\ K[Len(ps) + 1] = PieceLine(p)
      BY <2>1, <2>2, <2>3 DEF L
    <3> HIDE DEF K
    <3>3. \A i \in 1 .. Len(ps) + 1 : PieceLine(t[i]) = K[i]
      <4> TAKE i \in 1 .. Len(ps) + 1
      <4>1. i \in 1 .. Len(ps) \/ i = Len(ps) + 1
        BY <2>1
      <4> QED BY <2>1, <3>1, <3>2, <4>1
    <3>4. lines(t) = K
      BY <2>1, <3>2, <3>3
    <3> QED BY <3>4 DEF K, L
  <2>5. texts(t) = Append(texts(ps), p.text)
    <3> DEFINE L == texts(ps)
               K == Append(L, p.text)
    <3>1. \A i \in 1 .. Len(ps) : L[i] = ps[i].text
      BY <2>1
    <3> HIDE DEF L
    <3>2. /\ K = [i \in 1 .. Len(ps) + 1 |-> K[i]]
          /\ \A i \in 1 .. Len(ps) : K[i] = L[i]
          /\ K[Len(ps) + 1] = p.text
      BY <2>1, <2>2, <2>3 DEF L
    <3> HIDE DEF K
    <3>3. \A i \in 1 .. Len(ps) + 1 : t[i].text = K[i]
      <4> TAKE i \in 1 .. Len(ps) + 1
      <4>1. i \in 1 .. Len(ps) \/ i = Len(ps) + 1
        BY <2>1
      <4> QED BY <2>1, <3>1, <3>2, <4>1
    <3>4. texts(t) = K
      BY <2>1, <3>2, <3>3
    <3> QED BY <3>4 DEF K, L
  <2> QED BY <2>4, <2>5 DEF t
<1> HIDE DEF lines, texts
<1>5. /\ \A ps : PiecesLine(ps) = FlattenSeq(lines(ps))
      /\ \A ps : PiecesText(ps) = FlattenSeq(texts(ps))
  BY DEF PiecesLine, PiecesText, lines, texts
<1>6. \A ps \in Seq(Piece) : PiecesLine(ps) \in Text /\ PiecesText(ps) \in Text
  BY <1>3, <1>5, FlattenLaws DEF Text
<1>7. ASSUME NEW ps \in Seq(Piece), NEW p \in Piece
      PROVE  /\ PiecesLine(Append(ps, p)) = PiecesLine(ps) \o PieceLine(p)
             /\ PiecesText(Append(ps, p)) = PiecesText(ps) \o p.text
  <2>1. PieceLine(p) \in Text /\ p.text \in Text
    BY PieceLaws
  <2>2. lines(ps) \in Seq(Text) /\ texts(ps) \in Seq(Text)
    BY <1>3
  <2>3. /\ FlattenSeq(Append(lines(ps), PieceLine(p))) = FlattenSeq(lines(ps)) \o PieceLine(p)
        /\ FlattenSeq(Append(texts(ps), p.text)) = FlattenSeq(texts(ps)) \o p.text
    BY <2>1, <2>2, FlattenLaws DEF Text
  <2> QED BY <1>4, <1>5, <2>3
<1> QED BY <1>2, <1>6, <1>7

(* A writing with one more word.                                             *)
LEMMA WritingLaws ==
  /\ LineOf(<<>>) = <<>> /\ WordsOf(<<>>) = <<>> /\ IsWriting(<<>>)
  /\ \A ws \in Seq(WrittenWord) : LineOf(ws) \in Text /\ WordsOf(ws) \in Seq(Text)
  /\ \A ws \in Seq(WrittenWord) : \A w \in WrittenWord :
       /\ LineOf(Append(ws, w)) = LineOf(ws) \o WordLine(w)
       /\ WordsOf(Append(ws, w)) = Append(WordsOf(ws), PiecesText(w.pieces))
       /\ IsWriting(Append(ws, w)) <=> IsWriting(ws) /\ (ws # <<>> => w.gap # <<>>)
<1> DEFINE lines(ws) == [i \in DOMAIN ws |-> WordLine(ws[i])]
<1>1. lines(<<>>) = <<>> /\ WordsOf(<<>>) = <<>> /\ IsWriting(<<>>)
  BY DEF WordsOf, IsWriting
<1>2. LineOf(<<>>) = <<>>
  BY <1>1, FlattenLaws DEF LineOf
<1>3. ASSUME NEW w \in WrittenWord
      PROVE  /\ w.gap \in Text /\ w.pieces \in Seq(Piece) /\ w.pieces # <<>>
             /\ PiecesText(w.pieces) \in Text /\ WordLine(w) \in Text
  <2>1. w.pieces \in Seq(Piece) /\ w.pieces # <<>> /\ w.gap \in Seq({Space})
    BY DEF WrittenWord, Gap
  <2>2. w.gap \in Seq(AnyAtom)
    <3>1. {Space} \subseteq AnyAtom
      BY AtomTypes
    <3> QED BY <2>1, <3>1, SeqMonotonic
  <2>3. PiecesLine(w.pieces) \in Seq(AnyAtom) /\ PiecesText(w.pieces) \in Seq(AnyAtom)
    BY <2>1, PiecesLaws DEF Text
  <2>4. w.gap \o PiecesLine(w.pieces) \in Seq(AnyAtom)
    BY <2>2, <2>3
  <2> QED BY <2>1, <2>2, <2>3, <2>4 DEF WordLine, Text
<1>4. ASSUME NEW ws \in Seq(WrittenWord)
      PROVE  lines(ws) \in Seq(Text) /\ WordsOf(ws) \in Seq(Text)
  <2>1. Len(ws) \in Nat /\ DOMAIN ws = 1 .. Len(ws) /\ \A i \in DOMAIN ws : ws[i] \in WrittenWord
    OBVIOUS
  <2>2. \A i \in 1 .. Len(ws) : WordLine(ws[i]) \in Text /\ PiecesText(ws[i].pieces) \in Text
    BY <2>1, <1>3
  <2> QED BY <2>1, <2>2 DEF WordsOf
<1>5. ASSUME NEW ws \in Seq(WrittenWord), NEW w \in WrittenWord
      PROVE  /\ lines(Append(ws, w)) = Append(lines(ws), WordLine(w))
             /\ WordsOf(Append(ws, w)) = Append(WordsOf(ws), PiecesText(w.pieces))
             /\ IsWriting(Append(ws, w)) <=> IsWriting(ws) /\ (ws # <<>> => w.gap # <<>>)
  <2> DEFINE t == Append(ws, w)
  <2>1. /\ Len(ws) \in Nat /\ DOMAIN ws = 1 .. Len(ws) /\ DOMAIN t = 1 .. Len(ws) + 1
        /\ t[Len(ws) + 1] = w /\ \A i \in 1 .. Len(ws) : t[i] = ws[i]
        /\ t \in Seq(WrittenWord) /\ (ws = <<>> <=> Len(ws) = 0)
    OBVIOUS
  <2>2. /\ lines(ws) \in Seq(Text) /\ WordsOf(ws) \in Seq(Text)
        /\ WordLine(w) \in Text /\ PiecesText(w.pieces) \in Text
    BY <1>3, <1>4
  <2> HIDE DEF t
  <2>3. Len(lines(ws)) = Len(ws) /\ Len(WordsOf(ws)) = Len(ws)
    BY <2>1, <2>2 DEF WordsOf
  <2>4. lines(t) = Append(lines(ws), WordLine(w))
    <3> DEFINE L == lines(ws)
               K == Append(L, WordLine(w))
    <3>1. \A i \in 1 .. Len(ws) : L[i] = WordLine(ws[i])
      BY <2>1
    <3> HIDE DEF L
    <3>2. /\ K = [i \in 1 .. Len(ws) + 1 |-> K[i]]
          /\ \A i \in 1 .. Len(ws) : K[i] = L[i]
          /\ K[Len(ws) + 1] = WordLine(w)
      BY <2>1, <2>2, <2>3 DEF L
    <3> HIDE DEF K
    <3>3. \A i \in 1 .. Len(ws) + 1 : WordLine(t[i]) = K[i]
      <4> TAKE i \in 1 .. Len(ws) + 1
      <4>1. i \in 1 .. Len(ws) \/ i = Len(ws) + 1
        BY <2>1
      <4> QED BY <2>1, <3>1, <3>2, <4>1
    <3>4. lines(t) = K
      BY <2>1, <3>2, <3>3
    <3> QED BY <3>4 DEF K, L
  <2>5. WordsOf(t) = Append(WordsOf(ws), PiecesText(w.pieces))
    <3> DEFINE L == WordsOf(ws)
               K == Append(L, PiecesText(w.pieces))
    <3>1. \A i \in 1 .. Len(ws) : L[i] = PiecesText(ws[i].pieces)
      BY <2>1 DEF WordsOf
    <3> HIDE DEF L
    <3>2. /\ K = [i \in 1 .. Len(ws) + 1 |-> K[i]]
          /\ \A i \in 1 .. Len(ws) : K[i] = L[i]
          /\ K[Len(ws) + 1] = PiecesText(w.pieces)
      BY <2>1, <2>2, <2>3 DEF L
    <3> HIDE DEF K
    <3>3. \A i \in 1 .. Len(ws) + 1 : PiecesText(t[i].pieces) = K[i]
      <4> TAKE i \in 1 .. Len(ws) + 1
      <4>1. i \in 1 .. Len(ws) \/ i = Len(ws) + 1
        BY <2>1
      <4> QED BY <2>1, <3>1, <3>2, <4>1
    <3>4. WordsOf(t) = K
      BY <2>1, <3>2, <3>3 DEF WordsOf
    <3> QED BY <3>4 DEF K, L
  <2>6. IsWriting(t) <=> IsWriting(ws) /\ (ws # <<>> => w.gap # <<>>)
    <3>1. ASSUME IsWriting(t) PROVE IsWriting(ws) /\ (ws # <<>> => w.gap # <<>>)
      <4>1. \A i \in 1 .. Len(ws) + 1 : i > 1 => t[i].gap # <<>>
        BY <2>1, <3>1 DEF IsWriting
      <4>2. \A i \in 1 .. Len(ws) : i > 1 => ws[i].gap # <<>>
        BY <2>1, <4>1
      <4>3. ws # <<>> => w.gap # <<>>
        BY <2>1, <4>1
      <4> QED BY <2>1, <4>2, <4>3 DEF IsWriting
    <3>2. ASSUME IsWriting(ws), ws # <<>> => w.gap # <<>> PROVE IsWriting(t)
      <4>1. \A i \in 1 .. Len(ws) : i > 1 => ws[i].gap # <<>>
        BY <2>1, <3>2 DEF IsWriting
      <4>2. ASSUME NEW i \in 1 .. Len(ws) + 1, i > 1 PROVE t[i].gap # <<>>
        <5>1. CASE i \in 1 .. Len(ws)
          BY <2>1, <4>1, <4>2, <5>1
        <5>2. CASE i = Len(ws) + 1
          BY <2>1, <3>2, <4>2, <5>2
        <5> QED BY <2>1, <5>1, <5>2
      <4> QED BY <2>1, <4>2 DEF IsWriting
    <3> QED BY <3>1, <3>2
  <2> QED BY <2>4, <2>5, <2>6 DEF t
<1> HIDE DEF lines
<1>6. \A ws : LineOf(ws) = FlattenSeq(lines(ws))
  BY DEF LineOf, lines
<1>7. \A ws \in Seq(WrittenWord) : LineOf(ws) \in Text
  BY <1>4, <1>6, FlattenLaws DEF Text
<1>8. ASSUME NEW ws \in Seq(WrittenWord), NEW w \in WrittenWord
      PROVE  LineOf(Append(ws, w)) = LineOf(ws) \o WordLine(w)
  <2>1. WordLine(w) \in Text /\ lines(ws) \in Seq(Text)
    BY <1>3, <1>4
  <2>2. FlattenSeq(Append(lines(ws), WordLine(w))) = FlattenSeq(lines(ws)) \o WordLine(w)
    BY <2>1, FlattenLaws DEF Text
  <2> QED BY <1>5, <1>6, <2>2
<1> QED BY <1>1, <1>2, <1>4, <1>5, <1>7, <1>8

-----------------------------------------------------------------------------
(* A line that spells some words is split into them.                        *)

Splitting == [argv : Seq(Text), word : Text, inWord : BOOLEAN, quote : AnyAtom]

(* A word ends once.                                                         *)
LEMMA EndWordTypes ==
  ASSUME NEW sp \in Splitting
  PROVE  /\ EndWord(sp) \in Splitting /\ ~EndWord(sp).inWord
         /\ EndWord(sp).quote = sp.quote
         /\ EndWord(EndWord(sp)) = EndWord(sp)
<1>1. <<>> \in Text /\ Append(sp.argv, sp.word) \in Seq(Text)
  BY DEF Splitting, Text
<1> QED BY <1>1 DEF EndWord, Splitting

LEMMA TakeTypes ==
  ASSUME NEW sp \in Splitting, NEW r \in AnyAtom
  PROVE  Take(sp, r) \in Splitting
<1>1. EndWord(sp) \in Splitting
  BY EndWordTypes
<1>2. Append(sp.word, r) \in Text
  BY DEF Splitting, Text
<1> QED BY <1>1, <1>2, AtomTypes DEF Take, Splitting

LEMMA RunTypes ==
  ASSUME NEW sp \in Splitting, NEW line \in Text
  PROVE  Run(sp, line) \in Splitting
<1> DEFINE P == {s \in Text : Run(sp, s) \in Splitting}
<1>1. <<>> \in P
  BY RunLaws DEF Text
<1>2. ASSUME NEW s \in P, NEW r \in AnyAtom PROVE Append(s, r) \in P
  <2>1. s \in Text /\ Append(s, r) \in Text
    BY DEF Text
  <2>2. Run(sp, Append(s, r)) = Take(Run(sp, s), r) /\ Run(sp, s) \in Splitting
    BY <2>1, RunLaws
  <2>3. Run(sp, Append(s, r)) \in Splitting
    BY <2>2, TakeTypes
  <2> QED BY <2>1, <2>3
<1>3. P \in SUBSET Seq(AnyAtom)
  BY DEF Text
<1> HIDE DEF P
<1>4. P = Seq(AnyAtom)
  BY <1>1, <1>2, <1>3, SeqInduct
<1> QED BY <1>4 DEF P, Text

(* Texts as sequences.                                                       *)
LEMMA TextLaws ==
  /\ <<>> \in Text
  /\ \A r \in AnyAtom : <<r>> \in Text /\ <<r>> = Append(<<>>, r)
  /\ \A s \in Text : \A r \in AnyAtom :
       /\ Append(s, r) \in Text /\ Append(s, r) # <<>>
       /\ Append(s, r) = s \o <<r>>
  /\ \A s \in Text : s \o <<>> = s /\ <<>> \o s = s
  /\ \A s, t \in Text : s \o t \in Text
  /\ \A s, t, u \in Text : (s \o t) \o u = s \o (t \o u)
  /\ \A s, t \in Text : \A r \in AnyAtom : Append(s \o t, r) = s \o Append(t, r)
<1>1. <<>> \in Text /\ \A r \in AnyAtom : <<r>> \in Text /\ <<r>> = Append(<<>>, r)
  BY DEF Text
<1>2. ASSUME NEW s \in Text, NEW r \in AnyAtom
      PROVE  Append(s, r) \in Text /\ Append(s, r) # <<>> /\ Append(s, r) = s \o <<r>>
  BY AppendProperties, AppendIsConcat DEF Text
<1>3. \A s \in Text : s \o <<>> = s /\ <<>> \o s = s
  BY ConcatEmptySeq DEF Text
<1>4. \A s, t \in Text : s \o t \in Text
  BY ConcatProperties DEF Text
<1>5. \A s, t, u \in Text : (s \o t) \o u = s \o (t \o u)
  BY ConcatAssociative DEF Text
<1>6. ASSUME NEW s \in Text, NEW t \in Text, NEW r \in AnyAtom
      PROVE  Append(s \o t, r) = s \o Append(t, r)
  <2>1. s \o t \in Text /\ <<r>> \in Text
    BY <1>1, <1>4
  <2>2. Append(s \o t, r) = (s \o t) \o <<r>> /\ Append(t, r) = t \o <<r>>
    BY <1>2, <2>1
  <2> QED BY <1>5, <2>1, <2>2
<1> QED BY <1>1, <1>2, <1>3, <1>4, <1>5, <1>6

LEMMA TextAssociates ==
  ASSUME NEW s \in Text, NEW t \in Text, NEW u \in Text
  PROVE  (s \o t) \o u = s \o (t \o u)
BY ConcatAssociative DEF Text

LEMMA TextJoins ==
  ASSUME NEW s \in Text, NEW t \in Text
  PROVE  s \o t \in Text
BY ConcatProperties DEF Text

LEMMA TextAppends ==
  ASSUME NEW s \in Text, NEW t \in Text, NEW r \in AnyAtom
  PROVE  Append(s \o t, r) = s \o Append(t, r)
BY TextLaws

LEMMA RangeGrows ==
  /\ Range(<<>>) = {}
  /\ \A t \in Text : \A r \in AnyAtom : Range(Append(t, r)) = Range(t) \cup {r}
<1>1. Range(<<>>) = {}
  BY DEF Range
<1>2. ASSUME NEW t \in Text, NEW r \in AnyAtom
      PROVE  Range(Append(t, r)) = Range(t) \cup {r}
  <2> DEFINE u == Append(t, r)
  <2>1. /\ Len(t) \in Nat /\ DOMAIN t = 1 .. Len(t) /\ DOMAIN u = 1 .. Len(t) + 1
        /\ u[Len(t) + 1] = r /\ \A i \in 1 .. Len(t) : u[i] = t[i]
    BY DEF Text
  <2> HIDE DEF u
  <2>2. ASSUME NEW x \in Range(u) PROVE x \in Range(t) \cup {r}
    <3>1. PICK i \in 1 .. Len(t) + 1 : x = u[i]
      BY <2>1 DEF Range
    <3>2. i \in 1 .. Len(t) \/ i = Len(t) + 1
      BY <2>1
    <3> QED BY <2>1, <3>1, <3>2 DEF Range
  <2>3. r \in Range(u)
    <3>1. Len(t) + 1 \in DOMAIN u
      BY <2>1
    <3> QED BY <2>1, <3>1 DEF Range
  <2>4. ASSUME NEW x \in Range(t) PROVE x \in Range(u)
    <3>1. PICK i \in 1 .. Len(t) : x = t[i]
      BY <2>1 DEF Range
    <3>2. i \in DOMAIN u /\ u[i] = x
      BY <2>1, <3>1
    <3> QED BY <3>2 DEF Range
  <2>5. Range(u) = Range(t) \cup {r}
    BY <2>2, <2>3, <2>4
  <2> QED BY <2>5 DEF u
<1> QED BY <1>1, <1>2

LEMMA RunOne ==
  ASSUME NEW sp, NEW r \in AnyAtom
  PROVE  Run(sp, <<r>>) = Take(sp, r)
<1>1. <<>> \in Text /\ <<r>> = Append(<<>>, r)
  BY TextLaws
<1>2. Run(sp, Append(<<>>, r)) = Take(Run(sp, <<>>), r)
  BY <1>1, RunLaws
<1> QED BY <1>1, <1>2, RunLaws

(* Up to its closing quote, all is text.                                     *)
LEMMA QuotedRun ==
  ASSUME NEW sp \in Splitting, sp.quote \in Quote,
         NEW t \in Text, sp.quote \notin Range(t)
  PROVE  Run(sp, t) = [sp EXCEPT !.word = sp.word \o t]
<1> DEFINE P == {s \in Text : sp.quote \notin Range(s) =>
                   Run(sp, s) = [sp EXCEPT !.word = sp.word \o s]}
<1>1. <<>> \in P
  <2>1. sp.word \o <<>> = sp.word /\ <<>> \in Text
    BY DEF Splitting, Text
  <2>2. [sp EXCEPT !.word = sp.word] = sp
    BY DEF Splitting
  <2> QED BY <2>1, <2>2, RunLaws
<1>2. ASSUME NEW s \in P, NEW r \in AnyAtom PROVE Append(s, r) \in P
  <2>1. s \in Text /\ Append(s, r) \in Text
    BY DEF Text
  <2> SUFFICES ASSUME sp.quote \notin Range(Append(s, r))
               PROVE  Run(sp, Append(s, r)) = [sp EXCEPT !.word = sp.word \o Append(s, r)]
    BY <2>1
  <2>2. sp.quote \notin Range(s) /\ r # sp.quote
    BY <2>1, RangeGrows
  <2>3. Run(sp, s) = [sp EXCEPT !.word = sp.word \o s]
    BY <2>2
  <2> HIDE DEF P
  <2>4. Run(sp, Append(s, r)) = Take(Run(sp, s), r)
    BY <2>1, RunTakes
  <2>5. Append(sp.word \o s, r) = sp.word \o Append(s, r)
    <3>1. sp.word \in Text
      BY DEF Splitting
    <3> QED BY <2>1, <3>1, TextAppends
  <2>6. sp.quote # NoQuote
    BY AtomTypes
  <2> DEFINE on == [sp EXCEPT !.word = sp.word \o s]
  <2>7. on.quote = sp.quote /\ on.word = sp.word \o s
    BY DEF Splitting
  <2>8. Take(on, r) = [on EXCEPT !.word = Append(on.word, r)]
    <3> HIDE DEF on
    <3> QED BY <2>2, <2>6, <2>7 DEF Take
  <2>9. [on EXCEPT !.word = Append(on.word, r)] = [sp EXCEPT !.word = sp.word \o Append(s, r)]
    BY <2>5, <2>7 DEF Splitting
  <2> QED BY <2>3, <2>4, <2>8, <2>9
<1>3. P \in SUBSET Seq(AnyAtom)
  BY DEF Text
<1> HIDE DEF P
<1>4. P = Seq(AnyAtom)
  BY <1>1, <1>2, <1>3, SeqInduct
<1> QED BY <1>4 DEF P, Text

(* Outside quotes, all but quotes and spaces is text.                        *)
LEMMA BareRun ==
  ASSUME NEW sp \in Splitting, sp.quote = NoQuote,
         NEW t \in Text, Range(t) \cap (Quote \cup {Space}) = {}
  PROVE  Run(sp, t) = [sp EXCEPT !.word = sp.word \o t,
                                 !.inWord = sp.inWord \/ t # <<>>]
<1> DEFINE after(s) == [sp EXCEPT !.word = sp.word \o s,
                                  !.inWord = sp.inWord \/ s # <<>>]
           P == {s \in Text : Range(s) \cap (Quote \cup {Space}) = {} =>
                   Run(sp, s) = after(s)}
<1>1. <<>> \in P
  <2>1. sp.word \o <<>> = sp.word /\ <<>> \in Text
    BY DEF Splitting, Text
  <2>2. after(<<>>) = sp
    BY <2>1 DEF Splitting
  <2> QED BY <2>1, <2>2, RunLaws
<1>2. ASSUME NEW s \in P, NEW r \in AnyAtom PROVE Append(s, r) \in P
  <2>1. s \in Text /\ Append(s, r) \in Text /\ Append(s, r) # <<>>
    BY DEF Text
  <2> SUFFICES ASSUME Range(Append(s, r)) \cap (Quote \cup {Space}) = {}
               PROVE  Run(sp, Append(s, r)) = after(Append(s, r))
    BY <2>1
  <2>2. Range(s) \cap (Quote \cup {Space}) = {} /\ r \notin Quote /\ r # Space
    BY <2>1, RangeGrows
  <2>3. Run(sp, s) = after(s)
    BY <2>2
  <2> HIDE DEF P
  <2>4. Run(sp, Append(s, r)) = Take(Run(sp, s), r)
    BY <2>1, RunTakes
  <2>5. Append(sp.word \o s, r) = sp.word \o Append(s, r)
    <3>1. sp.word \in Text
      BY DEF Splitting
    <3> QED BY <2>1, <3>1, TextAppends
  <2> DEFINE on == after(s)
  <2>7. on.quote = NoQuote /\ on.word = sp.word \o s
    BY DEF Splitting
  <2>8. Take(on, r) = [on EXCEPT !.word = Append(on.word, r), !.inWord = TRUE]
    <3> HIDE DEF on
    <3> QED BY <2>2, <2>7 DEF Take
  <2>9. [on EXCEPT !.word = Append(on.word, r), !.inWord = TRUE] = after(Append(s, r))
    BY <2>1, <2>5, <2>7 DEF Splitting
  <2> QED BY <2>3, <2>4, <2>8, <2>9
<1>3. P \in SUBSET Seq(AnyAtom)
  BY DEF Text
<1> HIDE DEF P
<1>4. P = Seq(AnyAtom)
  BY <1>1, <1>2, <1>3, SeqInduct
<1> QED BY <1>4 DEF P, Text

(* A piece, quoted or bare, adds its text to the word; also an empty one in  *)
(* quotes makes a word.                                                      *)
LEMMA PieceRun ==
  ASSUME NEW sp \in Splitting, sp.quote = NoQuote, NEW p \in Piece
  PROVE  Run(sp, PieceLine(p)) = [sp EXCEPT !.word = sp.word \o p.text, !.inWord = TRUE]
<1>1. p.text \in Text /\ p.quote \in Quote \cup {NoQuote}
  BY DEF Piece
<1>2. CASE p.quote = NoQuote
  <2>1. p.text # <<>> /\ Range(p.text) \cap (Quote \cup {Space}) = {}
    BY <1>2 DEF Piece
  <2>2. PieceLine(p) = p.text
    BY <1>2 DEF PieceLine
  <2>3. Run(sp, p.text) = [sp EXCEPT !.word = sp.word \o p.text,
                                     !.inWord = sp.inWord \/ p.text # <<>>]
    BY <1>1, <2>1, BareRun
  <2> QED BY <2>1, <2>2, <2>3
<1>3. CASE p.quote # NoQuote
  <2> DEFINE q == p.quote
             open == [sp EXCEPT !.quote = q, !.inWord = TRUE]
             read == [open EXCEPT !.word = open.word \o p.text]
             closed == [read EXCEPT !.quote = NoQuote]
  <2>1. q \in Quote /\ q \in AnyAtom /\ q \notin Range(p.text)
    BY <1>1, <1>3, AtomTypes DEF Piece
  <2>2. <<q>> \in Text /\ p.text \o <<q>> \in Text
        /\ PieceLine(p) = <<q>> \o (p.text \o <<q>>)
    <3>1. <<q>> \in Text /\ p.text \o <<q>> \in Text
      BY <1>1, <2>1, TextLaws
    <3>2. PieceLine(p) = (<<q>> \o p.text) \o <<q>>
      BY <1>3 DEF PieceLine
    <3> QED BY <1>1, <3>1, <3>2, TextLaws
  <2> HIDE DEF q
  <2>3. Run(sp, <<q>>) = open
    <3>1. Run(sp, <<q>>) = Take(sp, q)
      BY <2>1, RunOne
    <3>2. Take(sp, q) = open
      BY <2>1, AtomTypes DEF Take
    <3> QED BY <3>1, <3>2
  <2>4. open \in Splitting /\ open.quote = q
    BY <2>1 DEF Splitting
  <2> HIDE DEF open
  <2>5. Run(open, p.text) = read
    BY <1>1, <2>1, <2>4, QuotedRun
  <2>6. Run(read, <<q>>) = closed
    <3>1. Run(read, <<q>>) = Take(read, q)
      BY <2>1, RunOne
    <3>2. read.quote = q /\ q # NoQuote
      BY <2>1, <2>4, AtomTypes DEF Splitting
    <3> HIDE DEF read
    <3>3. Take(read, q) = closed
      BY <3>2 DEF Take
    <3> QED BY <3>1, <3>3
  <2>7. Run(sp, PieceLine(p)) = closed
    <3>1. Run(sp, <<q>> \o (p.text \o <<q>>)) = Run(Run(sp, <<q>>), p.text \o <<q>>)
      BY <2>2, RunOn
    <3>2. Run(open, p.text \o <<q>>) = Run(Run(open, p.text), <<q>>)
      BY <1>1, <2>2, RunOn
    <3> QED BY <2>2, <2>3, <2>5, <2>6, <3>1, <3>2
  <2>8. closed = [sp EXCEPT !.word = sp.word \o p.text, !.inWord = TRUE]
    BY DEF open, Splitting
  <2> QED BY <2>7, <2>8
<1> QED BY <1>2, <1>3

LEMMA GapLaws ==
  /\ <<>> \in Gap /\ <<Space>> \in Gap
  /\ \A g \in Gap : g \in Text /\ Append(g, Space) \in Gap /\ Append(g, Space) # <<>>
<1>1. <<>> \in Gap /\ <<Space>> \in Gap
  BY DEF Gap
<1>2. ASSUME NEW g \in Gap
      PROVE  g \in Text /\ Append(g, Space) \in Gap /\ Append(g, Space) # <<>>
  <2>1. {Space} \subseteq AnyAtom /\ g \in Seq({Space})
    BY AtomTypes DEF Gap
  <2>2. g \in Seq(AnyAtom)
    BY <2>1, SeqMonotonic
  <2> QED BY <2>1, <2>2, AppendProperties DEF Gap, Text
<1> QED BY <1>1, <1>2

LEMMA PiecesRun ==
  ASSUME NEW sp \in Splitting, sp.quote = NoQuote, NEW ps \in Seq(Piece)
  PROVE  Run(sp, PiecesLine(ps)) = [sp EXCEPT !.word = sp.word \o PiecesText(ps),
                                              !.inWord = sp.inWord \/ ps # <<>>]
<1> DEFINE after(qs) == [sp EXCEPT !.word = sp.word \o PiecesText(qs),
                                   !.inWord = sp.inWord \/ qs # <<>>]
           P == {qs \in Seq(Piece) : Run(sp, PiecesLine(qs)) = after(qs)}
<1>0. sp.word \in Text
  BY DEF Splitting
<1>1. <<>> \in P
  <2>1. sp.word \o PiecesText(<<>>) = sp.word /\ PiecesLine(<<>>) = <<>>
    BY <1>0, TextLaws, PiecesLaws
  <2>2. after(<<>>) = sp
    BY <2>1 DEF Splitting
  <2>3. Run(sp, PiecesLine(<<>>)) = sp
    BY <2>1, RunLaws
  <2>4. <<>> \in Seq(Piece)
    OBVIOUS
  <2> QED BY <2>2, <2>3, <2>4
<1>2. ASSUME NEW qs \in P, NEW p \in Piece PROVE Append(qs, p) \in P
  <2>1. qs \in Seq(Piece) /\ Append(qs, p) \in Seq(Piece) /\ Append(qs, p) # <<>>
    OBVIOUS
  <2>2. Run(sp, PiecesLine(qs)) = after(qs)
    OBVIOUS
  <2> HIDE DEF P
  <2>3. /\ PiecesLine(qs) \in Text /\ PiecesText(qs) \in Text
        /\ PieceLine(p) \in Text /\ p.text \in Text
    BY <2>1, PiecesLaws, PieceLaws
  <2>4. /\ PiecesLine(Append(qs, p)) = PiecesLine(qs) \o PieceLine(p)
        /\ PiecesText(Append(qs, p)) = PiecesText(qs) \o p.text
    BY <2>1, PiecesLaws
  <2> DEFINE on == after(qs)
  <2>5. on \in Splitting
    BY <2>2, <2>3, RunTypes
  <2>6. on.quote = NoQuote /\ on.word = sp.word \o PiecesText(qs)
    BY DEF Splitting
  <2>7. Run(on, PieceLine(p)) = [on EXCEPT !.word = on.word \o p.text, !.inWord = TRUE]
    <3> HIDE DEF on
    <3> QED BY <2>5, <2>6, PieceRun
  <2>8. (sp.word \o PiecesText(qs)) \o p.text = sp.word \o PiecesText(Append(qs, p))
    <3>1. \A a, b, c \in Text : (a \o b) \o c = a \o (b \o c)
      BY TextLaws
    <3>2. (sp.word \o PiecesText(qs)) \o p.text = sp.word \o (PiecesText(qs) \o p.text)
      BY <1>0, <2>3, <3>1
    <3> QED BY <2>4, <3>2
  <2>9. [on EXCEPT !.word = on.word \o p.text, !.inWord = TRUE] = after(Append(qs, p))
    BY <2>1, <2>6, <2>8 DEF Splitting
  <2>10. Run(sp, PiecesLine(Append(qs, p))) = Run(Run(sp, PiecesLine(qs)), PieceLine(p))
    BY <2>3, <2>4, RunOn
  <2>11. Run(sp, PiecesLine(Append(qs, p))) = after(Append(qs, p))
    BY <2>2, <2>7, <2>9, <2>10
  <2> QED BY <2>1, <2>11 DEF P
<1>3. P \in SUBSET Seq(Piece)
  OBVIOUS
<1> HIDE DEF P
<1>4. P = Seq(Piece)
  BY <1>1, <1>2, <1>3, SeqInduct
<1> QED BY <1>4 DEF P

(* However wide, a gap ends the word and does no more.                       *)
LEMMA GapRun ==
  ASSUME NEW sp \in Splitting, sp.quote = NoQuote, NEW g \in Gap
  PROVE  Run(sp, g) = IF g = <<>> THEN sp ELSE EndWord(sp)
<1> DEFINE P == {h \in Gap : Run(sp, h) = IF h = <<>> THEN sp ELSE EndWord(sp)}
<1>1. <<>> \in P
  BY GapLaws, RunLaws
<1>2. ASSUME NEW h \in P, NEW a \in {Space} PROVE Append(h, a) \in P
  <2>1. h \in Gap /\ a = Space /\ Run(sp, h) \in {sp, EndWord(sp)}
    OBVIOUS
  <2> HIDE DEF P
  <2>2. h \in Text /\ Append(h, a) \in Gap /\ Append(h, a) # <<>> /\ a \in AnyAtom
    BY <2>1, GapLaws, AtomTypes
  <2>3. Run(sp, Append(h, a)) = Take(Run(sp, h), a)
    BY <2>2, RunLaws
  <2>4. /\ EndWord(sp).quote = NoQuote /\ EndWord(EndWord(sp)) = EndWord(sp)
    BY EndWordTypes
  <2>5. \A s : s.quote = NoQuote => Take(s, Space) = EndWord(s)
    BY AtomTypes DEF Take
  <2>6. Take(Run(sp, h), a) = EndWord(sp)
    BY <2>1, <2>4, <2>5
  <2> QED BY <2>2, <2>3, <2>6 DEF P
<1>3. P \in SUBSET Seq({Space})
  BY DEF Gap
<1> HIDE DEF P
<1>4. P = Seq({Space})
  BY <1>1, <1>2, <1>3, SeqInduct
<1> QED BY <1>4 DEF P, Gap

LEMMA StartTypes ==
  /\ Start \in Splitting /\ Start.quote = NoQuote
  /\ \A words \in Seq(Text) :
       /\ [Start EXCEPT !.argv = words] \in Splitting
       /\ [Start EXCEPT !.argv = words].quote = NoQuote
       /\ [Start EXCEPT !.argv = words].argv = words
       /\ EndWord([Start EXCEPT !.argv = words]) = [Start EXCEPT !.argv = words]
  /\ [Start EXCEPT !.argv = <<>>] = Start
<1>1. <<>> \in Text /\ NoQuote \in AnyAtom /\ <<>> \in Seq(Text)
  BY TextLaws, AtomTypes
<1>2. Start \in Splitting /\ Start.quote = NoQuote
  BY <1>1 DEF Start, Splitting
<1>4. [Start EXCEPT !.argv = <<>>] = Start
  <2>1. Start = [Start EXCEPT !.argv = Start.argv] /\ Start.argv = <<>>
    BY DEF Start
  <2> QED BY <2>1
<1>3. ASSUME NEW words \in Seq(Text)
      PROVE  /\ [Start EXCEPT !.argv = words] \in Splitting
             /\ [Start EXCEPT !.argv = words].quote = NoQuote
             /\ [Start EXCEPT !.argv = words].argv = words
             /\ EndWord([Start EXCEPT !.argv = words]) = [Start EXCEPT !.argv = words]
  BY <1>1 DEF Start, Splitting, EndWord
<1> QED BY <1>2, <1>3, <1>4

(* Word after word, the splitter has the words written so far.               *)
LEMMA WritingRun ==
  ASSUME NEW ws \in Seq(WrittenWord), IsWriting(ws)
  PROVE  /\ Run(Start, LineOf(ws)).quote = NoQuote
         /\ EndWord(Run(Start, LineOf(ws))) = [Start EXCEPT !.argv = WordsOf(ws)]
<1> DEFINE P == {vs \in Seq(WrittenWord) : IsWriting(vs) =>
                   /\ Run(Start, LineOf(vs)).quote = NoQuote
                   /\ EndWord(Run(Start, LineOf(vs))) = [Start EXCEPT !.argv = WordsOf(vs)]}
<1>1. <<>> \in P
  <2>1. /\ LineOf(<<>>) = <<>> /\ WordsOf(<<>>) = <<>> /\ <<>> \in Seq(Text)
        /\ <<>> \in Seq(WrittenWord) /\ Run(Start, <<>>) = Start
    BY WritingLaws, RunLaws
  <2>2. EndWord(Start) = [Start EXCEPT !.argv = <<>>]
    BY <2>1, StartTypes
  <2> QED BY <2>1, <2>2, StartTypes
<1>2. ASSUME NEW vs \in P, NEW w \in WrittenWord PROVE Append(vs, w) \in P
  <2>1. vs \in Seq(WrittenWord) /\ Append(vs, w) \in Seq(WrittenWord)
    OBVIOUS
  <2> SUFFICES ASSUME IsWriting(Append(vs, w))
               PROVE  /\ Run(Start, LineOf(Append(vs, w))).quote = NoQuote
                      /\ EndWord(Run(Start, LineOf(Append(vs, w))))
                           = [Start EXCEPT !.argv = WordsOf(Append(vs, w))]
    BY <2>1
  <2>2. IsWriting(vs) /\ (vs # <<>> => w.gap # <<>>)
    BY <2>1, WritingLaws
  <2> DEFINE r == Run(Start, LineOf(vs))
             e == [Start EXCEPT !.argv = WordsOf(vs)]
             text == PiecesText(w.pieces)
  <2>3. r.quote = NoQuote /\ EndWord(r) = e
    BY <2>2
  <2> HIDE DEF P
  <2>4. /\ LineOf(vs) \in Text /\ WordsOf(vs) \in Seq(Text)
        /\ LineOf(Append(vs, w)) = LineOf(vs) \o WordLine(w)
        /\ WordsOf(Append(vs, w)) = Append(WordsOf(vs), text)
    BY <2>1, WritingLaws
  <2>5. /\ w.gap \in Gap /\ w.gap \in Text /\ w.pieces \in Seq(Piece) /\ w.pieces # <<>>
        /\ WordLine(w) = w.gap \o PiecesLine(w.pieces)
    <3>1. w.gap \in Gap /\ w.pieces \in Seq(Piece) /\ w.pieces # <<>>
      BY DEF WrittenWord
    <3> QED BY <3>1, GapLaws DEF WordLine
  <2>6. PiecesLine(w.pieces) \in Text /\ text \in Text /\ WordLine(w) \in Text
    BY <2>5, PiecesLaws, TextLaws
  <2>7. r \in Splitting
    BY <2>4, StartTypes, RunTypes
  <2>8. Run(r, w.gap) = e
    <3>1. CASE w.gap # <<>>
      BY <2>3, <2>5, <2>7, <3>1, GapRun
    <3>2. CASE w.gap = <<>>
      <4>1. vs = <<>>
        BY <2>2, <3>2
      <4>2. r = Start /\ e = Start
        BY <4>1, WritingLaws, RunLaws, StartTypes
      <4> HIDE DEF r, e
      <4> QED BY <3>2, <4>2, RunLaws
    <3> QED BY <3>1, <3>2
  <2>9. e \in Splitting /\ e.quote = NoQuote /\ e.word = <<>> /\ e.argv = WordsOf(vs)
    BY <2>4, StartTypes DEF Start
  <2> DEFINE s == [e EXCEPT !.word = text, !.inWord = TRUE]
  <2>10. Run(e, PiecesLine(w.pieces)) = s
    <3>1. e.word \o text = text
      BY <2>6, <2>9, TextLaws
    <3> HIDE DEF e
    <3>2. Run(e, PiecesLine(w.pieces))
            = [e EXCEPT !.word = e.word \o text, !.inWord = e.inWord \/ w.pieces # <<>>]
      BY <2>5, <2>9, PiecesRun
    <3>3. (e.inWord \/ w.pieces # <<>>) = TRUE
      BY <2>5
    <3> QED BY <3>1, <3>2, <3>3
  <2>11. Run(Start, LineOf(Append(vs, w))) = s
    <3>1. Run(Start, LineOf(vs) \o WordLine(w)) = Run(r, WordLine(w))
      BY <2>4, <2>6, RunOn
    <3>2. Run(r, w.gap \o PiecesLine(w.pieces)) = Run(Run(r, w.gap), PiecesLine(w.pieces))
      BY <2>5, <2>6, RunOn
    <3> QED BY <2>4, <2>5, <2>8, <2>10, <3>1, <3>2
  <2>12. s.quote = NoQuote /\ EndWord(s) = [Start EXCEPT !.argv = Append(WordsOf(vs), text)]
    <3> DEFINE words == Append(WordsOf(vs), text)
    <3>1. words \in Seq(Text)
      BY <2>4, <2>6 DEF Text
    <3>2. s \in Splitting /\ s.argv = WordsOf(vs) /\ s.word = text /\ s.inWord
          /\ s.quote = NoQuote
      <4> HIDE DEF e
      <4> QED BY <2>6, <2>9 DEF Splitting
    <3> HIDE DEF s, words
    <3>3. EndWord(s) = [s EXCEPT !.argv = words, !.word = <<>>, !.inWord = FALSE]
      BY <3>2 DEF EndWord, words
    <3>4. /\ EndWord(s) \in Splitting /\ EndWord(s).argv = words
          /\ EndWord(s).word = <<>> /\ ~EndWord(s).inWord /\ EndWord(s).quote = NoQuote
      BY <3>2, <3>3, EndWordTypes DEF Splitting
    <3> DEFINE d == [Start EXCEPT !.argv = words]
    <3>5. d \in Splitting /\ d.argv = words /\ d.word = <<>> /\ ~d.inWord /\ d.quote = NoQuote
      BY <3>1, StartTypes DEF Start
    <3> HIDE DEF d
    <3>6. EndWord(s) = d
      BY <3>4, <3>5 DEF Splitting
    <3> QED BY <3>2, <3>6 DEF d, words
  <2> HIDE DEF s, e, r
  <2> QED BY <2>4, <2>11, <2>12
<1>3. P \in SUBSET Seq(WrittenWord)
  OBVIOUS
<1> HIDE DEF P
<1>4. P = Seq(WrittenWord)
  BY <1>1, <1>2, <1>3, SeqInduct
<1> QED BY <1>4 DEF P

(* Whatever line its author writes for some words, in bare and quoted pieces *)
(* and with as much space between them as there may be, is read as those.    *)
LEMMA SpelledIsRead ==
  ASSUME NEW line, NEW words, Spells(line, words)
  PROVE  /\ line \in Text /\ words \in Seq(Text)
         /\ Run(Start, line).quote = NoQuote /\ EndWord(Run(Start, line)).argv = words
<1>1. PICK ws, tail : /\ IsWriting(ws) /\ tail \in Gap
                      /\ line = LineOf(ws) \o tail /\ words = WordsOf(ws)
  BY DEF Spells
<1>2. ws \in Seq(WrittenWord)
  BY <1>1 DEF IsWriting
<1>3. LineOf(ws) \in Text /\ words \in Seq(Text) /\ tail \in Text
  BY <1>1, <1>2, WritingLaws, GapLaws
<1> DEFINE r == Run(Start, LineOf(ws))
<1>4. r \in Splitting /\ r.quote = NoQuote /\ EndWord(r) = [Start EXCEPT !.argv = words]
  BY <1>1, <1>2, <1>3, StartTypes, RunTypes, WritingRun
<1>5. Run(Start, line) = Run(r, tail)
  BY <1>1, <1>3, RunOn
<1> HIDE DEF r
<1>6. Run(r, tail) \in {r, EndWord(r)}
  BY <1>1, <1>4, GapRun
<1>7. EndWord(EndWord(r)) = EndWord(r) /\ EndWord(r).quote = NoQuote
  BY <1>4, EndWordTypes
<1>8. EndWord(r).argv = words
  BY <1>3, <1>4, StartTypes
<1>9. line \in Text
  BY <1>1, <1>3, TextLaws
<1> QED BY <1>3, <1>4, <1>5, <1>6, <1>7, <1>8, <1>9

-----------------------------------------------------------------------------
(* A line that is split is one that spells the words.                       *)

\* What the splitter holds of a line: the words that are over, the gap after
\* them, the pieces of the next word, and the text since a quote opened.
Reading(sp, line, ws, gap, ps, t) ==
  /\ IsWriting(ws) /\ gap \in Gap /\ (ws # <<>> => gap # <<>>)
  /\ ps \in Seq(Piece) /\ t \in Text
  /\ sp.argv = WordsOf(ws) /\ sp.word = PiecesText(ps) \o t
  /\ \/ /\ sp.quote = NoQuote /\ t = <<>> /\ (sp.inWord <=> ps # <<>>)
        /\ line = (LineOf(ws) \o gap) \o PiecesLine(ps)
     \/ /\ sp.quote \in Quote \ Range(t) /\ sp.inWord
        /\ line = ((LineOf(ws) \o gap) \o PiecesLine(ps)) \o (<<sp.quote>> \o t)

Reads(sp, line) == \E ws, gap, ps, t : Reading(sp, line, ws, gap, ps, t)

LEMMA ReadingTypes ==
  ASSUME NEW sp, NEW line, NEW ws, NEW gap, NEW ps, NEW t,
         Reading(sp, line, ws, gap, ps, t)
  PROVE  /\ ws \in Seq(WrittenWord) /\ gap \in Gap /\ gap \in Text
         /\ ps \in Seq(Piece) /\ t \in Text
         /\ LineOf(ws) \in Text /\ WordsOf(ws) \in Seq(Text)
         /\ LineOf(ws) \o gap \in Text
         /\ PiecesLine(ps) \in Text /\ PiecesText(ps) \in Text
         /\ (LineOf(ws) \o gap) \o PiecesLine(ps) \in Text
<1>1. ws \in Seq(WrittenWord) /\ gap \in Gap /\ ps \in Seq(Piece) /\ t \in Text
  BY DEF Reading, IsWriting
<1>2. /\ gap \in Text /\ LineOf(ws) \in Text /\ WordsOf(ws) \in Seq(Text)
      /\ PiecesLine(ps) \in Text /\ PiecesText(ps) \in Text
  BY <1>1, GapLaws, WritingLaws, PiecesLaws
<1> QED BY <1>1, <1>2, TextLaws

(* A quote that closes makes a piece of the text since it opened.            *)
LEMMA ClosingReads ==
  ASSUME NEW sp \in Splitting, NEW line \in Text, Reads(sp, line), sp.quote # NoQuote
  PROVE  Reads([sp EXCEPT !.quote = NoQuote], Append(line, sp.quote))
<1>1. PICK ws, gap, ps, t : Reading(sp, line, ws, gap, ps, t)
  BY DEF Reads
<1> DEFINE q == sp.quote
           head == LineOf(ws) \o gap
           before == head \o PiecesLine(ps)
           p == [quote |-> q, text |-> t]
           on == [sp EXCEPT !.quote = NoQuote]
<1>2. q \in Quote /\ q \notin Range(t) /\ sp.inWord /\ line = before \o (<<q>> \o t)
      /\ q \in AnyAtom
  BY <1>1, AtomTypes DEF Reading
<1>3. /\ ps \in Seq(Piece) /\ t \in Text /\ head \in Text /\ before \in Text
      /\ PiecesLine(ps) \in Text /\ PiecesText(ps) \in Text /\ <<q>> \in Text
  BY <1>1, <1>2, ReadingTypes, TextLaws
<1> HIDE DEF head
<1>4. p \in Piece /\ p.text = t /\ PieceLine(p) = (<<q>> \o t) \o <<q>>
  BY <1>2, <1>3, AtomTypes DEF Piece, PieceLine
<1> HIDE DEF p
<1>5. /\ Append(ps, p) \in Seq(Piece) /\ Append(ps, p) # <<>>
      /\ PiecesLine(Append(ps, p)) = PiecesLine(ps) \o PieceLine(p)
      /\ PiecesText(Append(ps, p)) = PiecesText(ps) \o t
  BY <1>3, <1>4, PiecesLaws, AppendProperties
<1>6. Append(line, q) = head \o PiecesLine(Append(ps, p))
  <2> HIDE DEF q
  <2>1. <<q>> \o t \in Text /\ (<<q>> \o t) \o <<q>> \in Text
    BY <1>3, TextLaws
  <2> DEFINE mid == <<q>> \o t
  <2>2. Append(line, q) = (before \o mid) \o <<q>>
    BY <1>2, TextLaws
  <2> HIDE DEF mid
  <2>3. (before \o mid) \o <<q>> = before \o (mid \o <<q>>)
    <3>1. before \in Text /\ mid \in Text /\ <<q>> \in Text
      BY <1>3, <2>1 DEF mid
    <3> HIDE DEF before
    <3> QED BY <3>1, TextAssociates
  <2>4. (head \o PiecesLine(ps)) \o (mid \o <<q>>) = head \o (PiecesLine(ps) \o (mid \o <<q>>))
    <3>1. mid \o <<q>> \in Text
      BY <2>1 DEF mid
    <3> DEFINE rest == mid \o <<q>>
    <3> HIDE DEF rest
    <3>2. rest \in Text
      BY <3>1 DEF rest
    <3>3. (head \o PiecesLine(ps)) \o rest = head \o (PiecesLine(ps) \o rest)
      <4>1. head \in Text /\ PiecesLine(ps) \in Text
        BY <1>3
      <4> QED BY <3>2, <4>1, TextAssociates, Zenon
    <3> QED BY <3>3 DEF rest
  <2>5. PieceLine(p) = mid \o <<q>>
    BY <1>4 DEF mid
  <2> QED BY <1>5, <2>2, <2>3, <2>4, <2>5
<1>7. /\ on.quote = NoQuote /\ on.inWord /\ on.argv = sp.argv /\ on.word = sp.word
  BY <1>2 DEF Splitting
<1>8. sp.word = PiecesText(Append(ps, p)) \o <<>>
  <2>1. PiecesText(ps) \o t \in Text /\ sp.word = PiecesText(ps) \o t
    BY <1>1, <1>3, TextLaws DEF Reading
  <2> QED BY <1>5, <2>1, TextLaws
<1>9. Reading(on, Append(line, q), ws, gap, Append(ps, p), <<>>)
  <2> HIDE DEF on, q
  <2>1. /\ IsWriting(ws) /\ gap \in Gap /\ (ws # <<>> => gap # <<>>)
        /\ sp.argv = WordsOf(ws)
    BY <1>1 DEF Reading
  <2> QED BY <1>5, <1>6, <1>7, <1>8, <2>1, TextLaws DEF Reading, head
<1> QED BY <1>9 DEF Reads

(* Between quotes every other character is text.                             *)
LEMMA QuotingReads ==
  ASSUME NEW sp \in Splitting, NEW line \in Text, Reads(sp, line), sp.quote # NoQuote,
         NEW r \in AnyAtom, r # sp.quote
  PROVE  Reads([sp EXCEPT !.word = Append(sp.word, r)], Append(line, r))
<1>1. PICK ws, gap, ps, t : Reading(sp, line, ws, gap, ps, t)
  BY DEF Reads
<1> DEFINE q == sp.quote
           before == (LineOf(ws) \o gap) \o PiecesLine(ps)
           on == [sp EXCEPT !.word = Append(sp.word, r)]
<1>2. q \in Quote /\ q \notin Range(t) /\ sp.inWord /\ line = before \o (<<q>> \o t)
      /\ q \in AnyAtom
  BY <1>1, AtomTypes DEF Reading
<1>3. /\ t \in Text /\ before \in Text /\ PiecesText(ps) \in Text /\ <<q>> \in Text
      /\ <<q>> \o t \in Text
  <2>1. /\ t \in Text /\ LineOf(ws) \o gap \in Text
        /\ PiecesLine(ps) \in Text /\ PiecesText(ps) \in Text
    BY <1>1, ReadingTypes
  <2>2. <<q>> \in Text
    BY <1>2, TextLaws
  <2> QED BY <2>1, <2>2, TextJoins
<1> HIDE DEF before
<1>4. Append(t, r) \in Text /\ q \notin Range(Append(t, r))
  <2>1. Append(t, r) \in Text /\ Range(Append(t, r)) = Range(t) \cup {r}
    BY <1>3, TextLaws, RangeGrows
  <2> QED BY <1>2, <2>1
<1>5. Append(line, r) = before \o (<<q>> \o Append(t, r))
  <2> HIDE DEF q
  <2>1. Append(before \o (<<q>> \o t), r) = before \o Append(<<q>> \o t, r)
    BY <1>3, TextAppends
  <2>2. Append(<<q>> \o t, r) = <<q>> \o Append(t, r)
    BY <1>3, TextAppends
  <2> QED BY <1>2, <2>1, <2>2
<1>6. Append(sp.word, r) = PiecesText(ps) \o Append(t, r)
  <2>1. sp.word = PiecesText(ps) \o t
    BY <1>1 DEF Reading
  <2>2. Append(PiecesText(ps) \o t, r) = PiecesText(ps) \o Append(t, r)
    BY <1>3, TextAppends
  <2> QED BY <2>1, <2>2
<1>7. /\ on.quote = q /\ on.inWord /\ on.argv = sp.argv /\ on.word = Append(sp.word, r)
  BY <1>2 DEF Splitting
<1>8. Reading(on, Append(line, r), ws, gap, ps, Append(t, r))
  <2> HIDE DEF on, q
  <2>1. /\ IsWriting(ws) /\ gap \in Gap /\ (ws # <<>> => gap # <<>>)
        /\ ps \in Seq(Piece) /\ sp.argv = WordsOf(ws)
    BY <1>1 DEF Reading
  <2> QED BY <1>2, <1>4, <1>5, <1>6, <1>7, <2>1 DEF Reading, before
<1> QED BY <1>8 DEF Reads

(* A quote that opens begins a word or goes on with one.                     *)
LEMMA OpeningReads ==
  ASSUME NEW sp \in Splitting, NEW line \in Text, Reads(sp, line), sp.quote = NoQuote,
         NEW r \in Quote
  PROVE  Reads([sp EXCEPT !.quote = r, !.inWord = TRUE], Append(line, r))
<1>1. PICK ws, gap, ps, t : Reading(sp, line, ws, gap, ps, t)
  BY DEF Reads
<1> DEFINE before == (LineOf(ws) \o gap) \o PiecesLine(ps)
           on == [sp EXCEPT !.quote = r, !.inWord = TRUE]
<1>2. t = <<>> /\ line = before /\ r \in AnyAtom
  BY <1>1, AtomTypes DEF Reading
<1>3. before \in Text
  BY <1>1, ReadingTypes
<1> HIDE DEF before
<1>4. Append(line, r) = before \o (<<r>> \o <<>>)
  <2>1. Append(before, r) = before \o <<r>> /\ <<r>> \in Text
    BY <1>2, <1>3, TextLaws
  <2>2. <<r>> \o <<>> = <<r>>
    BY <2>1, TextLaws
  <2> QED BY <1>2, <2>1, <2>2
<1>5. /\ on.quote = r /\ on.inWord /\ on.argv = sp.argv /\ on.word = sp.word
  BY DEF Splitting
<1>6. Reading(on, Append(line, r), ws, gap, ps, <<>>)
  <2> HIDE DEF on
  <2>1. /\ IsWriting(ws) /\ gap \in Gap /\ (ws # <<>> => gap # <<>>)
        /\ ps \in Seq(Piece) /\ sp.argv = WordsOf(ws) /\ sp.word = PiecesText(ps) \o <<>>
    BY <1>1, <1>2 DEF Reading
  <2> QED BY <1>4, <1>5, <2>1, RangeGrows, TextLaws DEF Reading, before
<1> QED BY <1>6 DEF Reads

(* Outside quotes any character but a space is a piece of its own.           *)
LEMMA BareReads ==
  ASSUME NEW sp \in Splitting, NEW line \in Text, Reads(sp, line), sp.quote = NoQuote,
         NEW r \in AnyAtom, r \notin Quote \cup {Space}
  PROVE  Reads([sp EXCEPT !.word = Append(sp.word, r), !.inWord = TRUE], Append(line, r))
<1>1. PICK ws, gap, ps, t : Reading(sp, line, ws, gap, ps, t)
  BY DEF Reads
<1> DEFINE head == LineOf(ws) \o gap
           p == [quote |-> NoQuote, text |-> <<r>>]
           on == [sp EXCEPT !.word = Append(sp.word, r), !.inWord = TRUE]
<1>2. t = <<>> /\ line = head \o PiecesLine(ps)
  BY <1>1, AtomTypes DEF Reading
<1>3. /\ ps \in Seq(Piece) /\ head \in Text /\ PiecesLine(ps) \in Text
      /\ PiecesText(ps) \in Text /\ <<r>> \in Text /\ <<r>> # <<>>
  BY <1>1, ReadingTypes, TextLaws
<1> HIDE DEF head
<1>4. p \in Piece /\ p.text = <<r>> /\ PieceLine(p) = <<r>>
  <2>1. Range(<<r>>) = {r}
    <3>1. <<r>> = Append(<<>>, r) /\ <<>> \in Text
      BY TextLaws
    <3>2. Range(Append(<<>>, r)) = Range(<<>>) \cup {r}
      BY <3>1, RangeGrows
    <3>3. Range(<<>>) = {}
      BY RangeGrows
    <3> QED BY <3>1, <3>2, <3>3
  <2> QED BY <1>3, <2>1 DEF Piece, PieceLine
<1> HIDE DEF p
<1>5. /\ Append(ps, p) \in Seq(Piece) /\ Append(ps, p) # <<>>
      /\ PiecesLine(Append(ps, p)) = PiecesLine(ps) \o <<r>>
      /\ PiecesText(Append(ps, p)) = PiecesText(ps) \o <<r>>
  <2>1. Append(ps, p) \in Seq(Piece) /\ Append(ps, p) # <<>>
    BY <1>3, <1>4, AppendProperties
  <2>2. /\ PiecesLine(Append(ps, p)) = PiecesLine(ps) \o PieceLine(p)
        /\ PiecesText(Append(ps, p)) = PiecesText(ps) \o p.text
    BY <1>3, <1>4, PiecesLaws
  <2> QED BY <1>4, <2>1, <2>2
<1>6. Append(line, r) = head \o PiecesLine(Append(ps, p))
  <2>1. Append(head \o PiecesLine(ps), r) = head \o Append(PiecesLine(ps), r)
    <3>1. head \in Text /\ PiecesLine(ps) \in Text
      BY <1>3
    <3> QED BY <3>1, TextAppends
  <2>2. Append(PiecesLine(ps), r) = PiecesLine(ps) \o <<r>>
    BY <1>3, TextLaws
  <2> QED BY <1>2, <1>5, <2>1, <2>2
<1>7. Append(sp.word, r) = PiecesText(Append(ps, p)) \o <<>>
  <2>1. sp.word = PiecesText(ps)
    <3>1. sp.word = PiecesText(ps) \o <<>>
      BY <1>1, <1>2 DEF Reading
    <3> QED BY <1>3, <3>1, TextLaws
  <2>2. Append(PiecesText(ps), r) = PiecesText(ps) \o <<r>> /\ PiecesText(ps) \o <<r>> \in Text
    BY <1>3, TextLaws
  <2>3. (PiecesText(ps) \o <<r>>) \o <<>> = PiecesText(ps) \o <<r>>
    BY <2>2, TextLaws
  <2> QED BY <1>5, <2>1, <2>2, <2>3
<1>8. /\ on.quote = NoQuote /\ on.inWord /\ on.argv = sp.argv /\ on.word = Append(sp.word, r)
  BY DEF Splitting
<1>9. Reading(on, Append(line, r), ws, gap, Append(ps, p), <<>>)
  <2> HIDE DEF on
  <2>1. /\ IsWriting(ws) /\ gap \in Gap /\ (ws # <<>> => gap # <<>>)
        /\ sp.argv = WordsOf(ws)
    BY <1>1 DEF Reading
  <2> QED BY <1>5, <1>6, <1>7, <1>8, <2>1, TextLaws DEF Reading, head
<1> QED BY <1>9 DEF Reads

(* A word that is over is one more word of the writing.                      *)
LEMMA WordIsOver ==
  ASSUME NEW sp \in Splitting, NEW line, NEW ws, NEW gap, NEW ps, NEW t,
         Reading(sp, line, ws, gap, ps, t), sp.quote = NoQuote, sp.inWord
  PROVE  LET w == [gap |-> gap, pieces |-> ps]
         IN /\ w \in WrittenWord /\ IsWriting(Append(ws, w))
            /\ EndWord(sp).argv = WordsOf(Append(ws, w))
            /\ line = LineOf(Append(ws, w))
<1> DEFINE w == [gap |-> gap, pieces |-> ps]
<1>1. /\ IsWriting(ws) /\ gap \in Gap /\ (ws # <<>> => gap # <<>>)
      /\ ps \in Seq(Piece) /\ ps # <<>> /\ t = <<>>
      /\ sp.argv = WordsOf(ws) /\ sp.word = PiecesText(ps) \o <<>>
      /\ line = (LineOf(ws) \o gap) \o PiecesLine(ps)
  BY AtomTypes DEF Reading
<1>2. /\ ws \in Seq(WrittenWord) /\ LineOf(ws) \in Text /\ gap \in Text
      /\ PiecesLine(ps) \in Text /\ PiecesText(ps) \in Text
  BY ReadingTypes
<1>3. w \in WrittenWord /\ w.gap = gap /\ w.pieces = ps
  BY <1>1 DEF WrittenWord
<1>4. WordLine(w) = gap \o PiecesLine(ps)
  BY DEF WordLine
<1> HIDE DEF w
<1>5. /\ IsWriting(Append(ws, w))
      /\ LineOf(Append(ws, w)) = LineOf(ws) \o (gap \o PiecesLine(ps))
      /\ WordsOf(Append(ws, w)) = Append(WordsOf(ws), PiecesText(ps))
  BY <1>1, <1>2, <1>3, <1>4, WritingLaws
<1>6. LineOf(ws) \o (gap \o PiecesLine(ps)) = line
  <2>1. LineOf(ws) \in Text /\ gap \in Text /\ PiecesLine(ps) \in Text
    BY <1>2
  <2>2. (LineOf(ws) \o gap) \o PiecesLine(ps) = LineOf(ws) \o (gap \o PiecesLine(ps))
    BY <2>1, TextAssociates
  <2> QED BY <1>1, <2>2
<1>7. EndWord(sp).argv = Append(WordsOf(ws), PiecesText(ps))
  <2>1. sp.word = PiecesText(ps)
    BY <1>1, <1>2, TextLaws
  <2>2. EndWord(sp).argv = Append(sp.argv, sp.word)
    BY DEF EndWord, Splitting
  <2> QED BY <1>1, <2>1, <2>2
<1> QED BY <1>3, <1>5, <1>6, <1>7 DEF w

(* Outside quotes a space ends the word, if there is one, and widens the gap. *)
LEMMA SpacingReads ==
  ASSUME NEW sp \in Splitting, NEW line \in Text, Reads(sp, line), sp.quote = NoQuote
  PROVE  Reads(EndWord(sp), Append(line, Space))
<1>1. PICK ws, gap, ps, t : Reading(sp, line, ws, gap, ps, t)
  BY DEF Reads
<1>2. /\ ws \in Seq(WrittenWord) /\ gap \in Gap /\ gap \in Text /\ LineOf(ws) \in Text
      /\ Space \in AnyAtom /\ <<>> \in Seq(Piece)
  BY <1>1, ReadingTypes, AtomTypes
<1>3. PiecesLine(<<>>) = <<>> /\ PiecesText(<<>>) = <<>> /\ <<>> \o <<>> = <<>>
  BY PiecesLaws, TextLaws
<1>4. CASE ~sp.inWord
  <2>1. /\ IsWriting(ws) /\ ps = <<>> /\ t = <<>> /\ sp.argv = WordsOf(ws)
        /\ sp.word = <<>> /\ line = (LineOf(ws) \o gap) \o <<>> /\ EndWord(sp) = sp
    BY <1>1, <1>3, <1>4, AtomTypes DEF Reading, EndWord
  <2>2. LineOf(ws) \o gap \in Text /\ Append(gap, Space) \in Text
    BY <1>2, TextLaws
  <2>3. line = LineOf(ws) \o gap
    BY <2>1, <2>2, TextLaws
  <2>4. Append(line, Space) = LineOf(ws) \o Append(gap, Space)
    BY <1>2, <2>3, TextAppends
  <2>5. LineOf(ws) \o Append(gap, Space) \in Text
    BY <1>2, <2>2, TextLaws
  <2>6. Append(line, Space) = (LineOf(ws) \o Append(gap, Space)) \o PiecesLine(<<>>)
    BY <1>3, <2>4, <2>5, TextLaws
  <2>7. Append(gap, Space) \in Gap /\ Append(gap, Space) # <<>>
    BY <1>2, GapLaws
  <2>8. Reading(sp, Append(line, Space), ws, Append(gap, Space), <<>>, <<>>)
    BY <1>2, <1>3, <1>4, <2>1, <2>6, <2>7, TextLaws DEF Reading
  <2> QED BY <2>1, <2>8 DEF Reads
<1>5. CASE sp.inWord
  <2> DEFINE w == [gap |-> gap, pieces |-> ps]
             vs == Append(ws, w)
             on == EndWord(sp)
  <2>1. w \in WrittenWord /\ IsWriting(vs) /\ on.argv = WordsOf(vs) /\ line = LineOf(vs)
    BY <1>1, <1>5, WordIsOver
  <2>2. on.word = <<>> /\ ~on.inWord /\ on.quote = NoQuote
    BY <1>5 DEF EndWord, Splitting
  <2> HIDE DEF vs, on
  <2>3. Append(line, Space) = line \o <<Space>> /\ line \o <<Space>> \in Text
    BY <1>2, TextLaws
  <2>4. Append(line, Space) = (LineOf(vs) \o <<Space>>) \o PiecesLine(<<>>)
    BY <1>3, <2>1, <2>3, TextLaws
  <2>5. <<Space>> \in Gap /\ <<Space>> # <<>>
    BY GapLaws
  <2>6. Reading(on, Append(line, Space), vs, <<Space>>, <<>>, <<>>)
    BY <1>2, <1>3, <2>1, <2>2, <2>4, <2>5, TextLaws DEF Reading
  <2> QED BY <2>6 DEF Reads, on
<1> QED BY <1>4, <1>5

(* However a line is written, the splitter holds a writing of what it took.  *)
LEMMA RunReads ==
  ASSUME NEW line \in Text
  PROVE  Reads(Run(Start, line), line)
<1> DEFINE P == {s \in Text : Reads(Run(Start, s), s)}
<1>1. <<>> \in P
  <2>1. Run(Start, <<>>) = Start /\ <<>> \in Text
    BY RunLaws, TextLaws
  <2>2. /\ Start.argv = <<>> /\ Start.word = <<>> /\ ~Start.inWord /\ Start.quote = NoQuote
    BY DEF Start
  <2>3. /\ IsWriting(<<>>) /\ WordsOf(<<>>) = <<>> /\ LineOf(<<>>) = <<>>
        /\ PiecesLine(<<>>) = <<>> /\ PiecesText(<<>>) = <<>> /\ <<>> \in Gap
        /\ <<>> \o <<>> = <<>> /\ <<>> \in Seq(Piece)
    BY WritingLaws, PiecesLaws, GapLaws, TextLaws
  <2>4. Reading(Start, <<>>, <<>>, <<>>, <<>>, <<>>)
    BY <2>1, <2>2, <2>3 DEF Reading
  <2>5. Reads(Start, <<>>)
    BY <2>4 DEF Reads
  <2> QED BY <2>1, <2>5
<1>2. ASSUME NEW s \in P, NEW r \in AnyAtom PROVE Append(s, r) \in P
  <2> DEFINE sp == Run(Start, s)
  <2>1. s \in Text /\ Append(s, r) \in Text /\ Reads(sp, s)
    BY TextLaws
  <2> HIDE DEF P
  <2>2. sp \in Splitting /\ Run(Start, Append(s, r)) = Take(sp, r)
    BY <2>1, StartTypes, RunTypes, RunLaws
  <2> HIDE DEF sp
  <2>3. Reads(Take(sp, r), Append(s, r))
    <3>1. CASE sp.quote # NoQuote /\ r = sp.quote
      <4>1. Take(sp, r) = [sp EXCEPT !.quote = NoQuote]
        BY <3>1 DEF Take
      <4> QED BY <2>1, <2>2, <3>1, <4>1, ClosingReads
    <3>2. CASE sp.quote # NoQuote /\ r # sp.quote
      <4>1. Take(sp, r) = [sp EXCEPT !.word = Append(sp.word, r)]
        BY <3>2 DEF Take
      <4> QED BY <2>1, <2>2, <3>2, <4>1, QuotingReads
    <3>3. CASE sp.quote = NoQuote /\ r \in Quote
      <4>1. Take(sp, r) = [sp EXCEPT !.quote = r, !.inWord = TRUE]
        BY <3>3, AtomTypes DEF Take
      <4> QED BY <2>1, <2>2, <3>3, <4>1, OpeningReads
    <3>4. CASE sp.quote = NoQuote /\ r = Space
      <4>1. Take(sp, r) = EndWord(sp)
        BY <3>4, AtomTypes DEF Take
      <4> QED BY <2>1, <2>2, <3>4, <4>1, SpacingReads
    <3>5. CASE sp.quote = NoQuote /\ r \notin Quote \cup {Space}
      <4>1. Take(sp, r) = [sp EXCEPT !.word = Append(sp.word, r), !.inWord = TRUE]
        BY <3>5 DEF Take
      <4> QED BY <2>1, <2>2, <3>5, <4>1, BareReads
    <3> QED BY <3>1, <3>2, <3>3, <3>4, <3>5
  <2> QED BY <2>1, <2>2, <2>3 DEF P
<1>3. P \in SUBSET Seq(AnyAtom)
  BY DEF Text
<1> HIDE DEF P
<1>4. P = Seq(AnyAtom)
  BY <1>1, <1>2, <1>3, SeqInduct
<1> QED BY <1>4 DEF P, Text

(* A line that ends outside quotes spells the words it was read as.          *)
LEMMA ReadIsSpelled ==
  ASSUME NEW line \in Text, Run(Start, line).quote = NoQuote
  PROVE  Spells(line, EndWord(Run(Start, line)).argv)
<1> DEFINE sp == Run(Start, line)
<1>1. sp \in Splitting /\ sp.quote = NoQuote /\ Reads(sp, line)
  BY StartTypes, RunTypes, RunReads
<1> HIDE DEF sp
<1>2. PICK ws, gap, ps, t : Reading(sp, line, ws, gap, ps, t)
  BY <1>1 DEF Reads
<1>3. CASE sp.inWord
  <2> DEFINE w == [gap |-> gap, pieces |-> ps]
             vs == Append(ws, w)
  <2>1. IsWriting(vs) /\ EndWord(sp).argv = WordsOf(vs) /\ line = LineOf(vs)
    BY <1>1, <1>2, <1>3, WordIsOver
  <2> HIDE DEF vs
  <2>2. line = LineOf(vs) \o <<>> /\ <<>> \in Gap
    BY <2>1, TextLaws, GapLaws
  <2>3. Spells(line, EndWord(sp).argv)
    BY <2>1, <2>2 DEF Spells
  <2> QED BY <2>3 DEF sp
<1>4. CASE ~sp.inWord
  <2>1. /\ IsWriting(ws) /\ gap \in Gap /\ ps = <<>> /\ sp.argv = WordsOf(ws)
        /\ line = (LineOf(ws) \o gap) \o PiecesLine(ps) /\ EndWord(sp) = sp
    BY <1>1, <1>2, <1>4, AtomTypes DEF Reading, EndWord
  <2>2. LineOf(ws) \o gap \in Text
    BY <1>2, ReadingTypes
  <2>3. line = LineOf(ws) \o gap
    BY <2>1, <2>2, PiecesLaws, TextLaws
  <2>4. Spells(line, EndWord(sp).argv)
    BY <2>1, <2>3 DEF Spells
  <2> QED BY <2>4 DEF sp
<1> QED BY <1>3, <1>4

(* Splitting: a line with no shell syntax is taken exactly when it spells    *)
(* some words in bare and quoted pieces with space between them, and then    *)
(* its argv is those words, which no other writing can change.               *)
THEOREM SplitIsRight ==
  ASSUME NEW line \in Text, NEW words
  PROVE  /\ Split(line).ok /\ Split(line).argv = words
              <=> Range(line) \cap Shell = {} /\ Spells(line, words)
         /\ \A others : Spells(line, words) /\ Spells(line, others) => others = words
<1> DEFINE sp == Run(Start, line)
<1>1. Split(line) = [ok |-> Range(line) \cap Shell = {} /\ sp.quote = NoQuote,
                     argv |-> EndWord(sp).argv]
  BY DEF Split, Run
<1> HIDE DEF sp
<1>2. Split(line).ok <=> Range(line) \cap Shell = {} /\ sp.quote = NoQuote
  <2> DEFINE good == Range(line) \cap Shell = {} /\ sp.quote = NoQuote
  <2>1. Split(line) = [ok |-> good, argv |-> EndWord(sp).argv]
    BY <1>1
  <2> HIDE DEF good
  <2>2. Split(line).ok = good
    BY <2>1
  <2> QED BY <2>2 DEF good
<1>3. Split(line).argv = EndWord(sp).argv
  BY <1>1
<1>4. \A v : Spells(line, v) => sp.quote = NoQuote /\ EndWord(sp).argv = v
  BY SpelledIsRead DEF sp
<1>5. sp.quote = NoQuote => Spells(line, EndWord(sp).argv)
  BY ReadIsSpelled DEF sp
<1> QED BY <1>2, <1>3, <1>4, <1>5

-----------------------------------------------------------------------------
(* What merging a profile with an amendment yields.                         *)

LEMMA AppendedLast ==
  ASSUME NEW S, NEW s \in Seq(S), NEW t \in Seq(S)
  PROVE  /\ s \o t \in Seq(S) /\ Len(s \o t) = Len(s) + Len(t)
         /\ IsPrefix(s, s \o t) /\ IsSuffix(t, s \o t)
<1> DEFINE u == s \o t
<1>1. /\ u \in Seq(S) /\ Len(u) = Len(s) + Len(t)
      /\ \A i \in 1 .. Len(u) : u[i] = IF i <= Len(s) THEN s[i] ELSE t[i - Len(s)]
      /\ Len(s) \in Nat /\ Len(t) \in Nat
  OBVIOUS
<1> HIDE DEF u
<1>2. IsPrefix(s, u)
  <2>1. SubSeq(s, 1, Len(s)) = [i \in 1 .. Len(s) |-> s[i]]
    BY <1>1
  <2>2. SubSeq(u, 1, Len(s)) = [i \in 1 .. Len(s) |-> u[i]]
    BY <1>1
  <2>3. [i \in 1 .. Len(s) |-> s[i]] = [i \in 1 .. Len(s) |-> u[i]]
    BY <1>1
  <2>4. SubSeq(s, 1, Len(s)) = SubSeq(u, 1, Len(s))
    BY <2>1, <2>2, <2>3
  <2>5. Len(s) <= Len(u)
    BY <1>1
  <2> QED BY <2>4, <2>5 DEF IsPrefix
<1>3. IsSuffix(t, u)
  <2> DEFINE rt == Reverse(t)
             ru == Reverse(u)
  <2>1. /\ rt \in Seq(S) /\ Len(rt) = Len(t)
        /\ \A i \in 1 .. Len(t) : rt[i] = t[(Len(t) - i) + 1]
    BY <1>1 DEF Reverse
  <2>2. /\ ru \in Seq(S) /\ Len(ru) = Len(u)
        /\ \A i \in 1 .. Len(u) : ru[i] = u[(Len(u) - i) + 1]
    BY <1>1 DEF Reverse
  <2> HIDE DEF rt, ru
  <2>3. ASSUME NEW i \in 1 .. Len(t) PROVE ru[i] = rt[i]
    <3> DEFINE k == (Len(u) - i) + 1
    <3>1. k \in 1 .. Len(u) /\ ~(k <= Len(s)) /\ k - Len(s) = (Len(t) - i) + 1
      BY <1>1
    <3>2. i \in 1 .. Len(u)
      BY <1>1
    <3>3. ru[i] = u[k] /\ rt[i] = t[(Len(t) - i) + 1]
      BY <2>1, <2>2, <3>2
    <3> HIDE DEF k
    <3>4. u[k] = t[k - Len(s)]
      BY <1>1, <3>1
    <3> QED BY <3>1, <3>3, <3>4
  <2>4. SubSeq(rt, 1, Len(rt)) = [i \in 1 .. Len(t) |-> rt[i]]
    BY <1>1, <2>1
  <2>5. SubSeq(ru, 1, Len(rt)) = [i \in 1 .. Len(t) |-> ru[i]]
    BY <1>1, <2>1, <2>2
  <2>6. [i \in 1 .. Len(t) |-> ru[i]] = [i \in 1 .. Len(t) |-> rt[i]]
    BY <2>3
  <2>7. SubSeq(rt, 1, Len(rt)) = SubSeq(ru, 1, Len(rt))
    BY <2>4, <2>5, <2>6
  <2>8. Len(rt) <= Len(ru)
    BY <1>1, <2>1, <2>2
  <2>9. IsPrefix(rt, ru)
    BY <2>7, <2>8 DEF IsPrefix
  <2> QED BY <2>9 DEF IsSuffix, rt, ru
<1> QED BY <1>1, <1>2, <1>3 DEF u

LEMMA MergeAmends ==
  ASSUME NEW base, NEW amend, IsProfile(base), IsProfile(amend)
  PROVE  IsAmended(Merge(base, amend), base, amend)
<1> DEFINE p == Merge(base, amend)
<1>1. /\ p.harness = base.harness
      /\ p.model = IF amend.model = "" THEN base.model ELSE amend.model
      /\ p.adapter = IF amend.adapter = "" THEN base.adapter ELSE amend.adapter
  BY DEF Merge, Or
<1>2. /\ p.timeout \in {amend.timeout, base.timeout, DefaultTimeout} \ {0}
      /\ amend.timeout # 0 => p.timeout = amend.timeout
      /\ amend.timeout = 0 /\ base.timeout # 0 => p.timeout = base.timeout
  BY DEF Merge, Or, DefaultTimeout, IsProfile
<1>3. /\ DOMAIN p.options = DOMAIN base.options \cup DOMAIN amend.options
      /\ \A key \in DOMAIN p.options :
           p.options[key] = IF key \in DOMAIN amend.options
                              THEN amend.options[key] ELSE base.options[key]
  BY DEF Merge
<1>4. /\ p["skills"] = base["skills"] \o amend["skills"]
      /\ p["mcps"] = base["mcps"] \o amend["mcps"]
      /\ p["system"] = base["system"] \o amend["system"]
  BY DEF Merge
<1>5. ASSUME NEW f \in {"skills", "mcps", "system"}
      PROVE  /\ Len(p[f]) = Len(base[f]) + Len(amend[f])
             /\ IsPrefix(base[f], p[f]) /\ IsSuffix(amend[f], p[f])
  <2> HIDE DEF p
  <2>1. CASE f = "skills"
    <3>1. base[f] \in Seq(STRING) /\ amend[f] \in Seq(STRING) /\ p[f] = base[f] \o amend[f]
      BY <1>4, <2>1 DEF IsProfile
    <3> QED BY <3>1, AppendedLast
  <2>2. CASE f = "mcps"
    <3> DEFINE S == [vars : SUBSET Var, required : BOOLEAN, hasURL : BOOLEAN]
    <3>1. base[f] \in Seq(S) /\ amend[f] \in Seq(S) /\ p[f] = base[f] \o amend[f]
      BY <1>4, <2>2 DEF IsProfile
    <3> HIDE DEF S
    <3> QED BY <3>1, AppendedLast
  <2>3. CASE f = "system"
    <3>1. /\ base[f] \in Seq(AnyAtom) /\ amend[f] \in Seq(AnyAtom)
          /\ p[f] = base[f] \o amend[f]
      BY <1>4, <2>3 DEF IsProfile, Text
    <3> QED BY <3>1, AppendedLast
  <2> QED BY <2>1, <2>2, <2>3
<1> HIDE DEF p
<1>6. IsAmended(p, base, amend)
  BY <1>1, <1>2, <1>3, <1>5 DEF IsAmended
<1> QED BY <1>6 DEF p

LEMMA MergedHasTime ==
  ASSUME NEW base, NEW amend, IsProfile(base), IsProfile(amend),
         base.timeout >= 0, amend.timeout >= 0
  PROVE  Merge(base, amend).timeout > 0
<1>1. Merge(base, amend).timeout = Or(Or(amend.timeout, base.timeout, 0), DefaultTimeout, 0)
  BY DEF Merge
<1> QED BY <1>1 DEF Or, DefaultTimeout, IsProfile

-----------------------------------------------------------------------------
(* Every check keeps what the ones before it established.                   *)

(* A job's one agent is a profile of the file with the job's amendments.     *)
LEMMA AgentOf ==
  ASSUME kata \in Kata, NEW j \in Job, HasAgent(j)
  PROVE  /\ Range(J(j).agents) = {J(j).agents[1]}
         /\ IsProfile(Amend(j))
<1>1. J(j).agents # <<>> => DOMAIN J(j).agents = {1}
  BY KataAssumption DEF Job, J
<1>2. \A a \in Range(J(j).agents) : IsProfile(a.amend)
  BY KataAssumption DEF Job, J
<1>3. Range(J(j).agents) = {J(j).agents[1]}
  BY <1>1 DEF HasAgent, Range
<1> QED BY <1>2, <1>3 DEF Amend

LEMMA InitIInv == Init => IInv /\ NotRefused
BY DEF Init, IInv, ResolvedInv, DecodedInv, AfterDecode, DeclsInv, AfterDecls,
       JobsInv, BoundInv, FitsInv, NotRefused, Job

\* A step on the same input, that validates no job.
Elsewhere == UNCHANGED <<input, left, executor>>

LEMMA SameJobs ==
  ASSUME UNCHANGED <<input, argvs, executor>>
  PROVE  /\ Job' = Job
         /\ \A j \in Job : Validated(j)' <=> Validated(j)
BY DEF input, Job, J, Validated, ShapeOK, HasAgent, OutputsOK, Profile, Amend,
       Texts, RefOK

(* Validating j says nothing of the jobs validated before it.                *)
LEMMA ValidatedStays ==
  ASSUME UNCHANGED <<input, argvs>>, NEW j \in Job, NEW k \in Job \ {j},
         executor' = Resolved(j), Validated(k)
  PROVE  Validated(k)'
<1>1. k \in DOMAIN executor' <=> k \in DOMAIN executor
  BY DEF Resolved
<1>2. k \in DOMAIN executor => executor'[k] = executor[k]
  BY DEF Resolved
<1>3. {executor'[i].system : i \in DOMAIN executor' \cap {k}}
        = {executor[i].system : i \in DOMAIN executor \cap {k}}
  BY <1>1, <1>2
<1>4. Texts(k, executor)' = Texts(k, executor)
  BY <1>3 DEF Texts, input, J
<1> QED BY <1>1, <1>4 DEF input, Job, J, Validated, ShapeOK, HasAgent, OutputsOK,
           Profile, Amend, RefOK

LEMMA ValidatePreserves ==
  ASSUME IInv, ValidateJob
  PROVE  IInv'
<1>1. PICK j \in left :
        /\ pc = "jobs"
        /\ ShapeOK(j) /\ Range(J(j).needs) \subseteq Job /\ Resolves(j)
        /\ ValidateNext(j, Resolved(j))
        /\ UNCHANGED <<input, agents, argvs, bound>>
  BY DEF ValidateJob
<1>2. /\ executor' = Resolved(j) /\ left' = left \ {j}
      /\ pc' \in {"cycle", "jobs", "refused"}
      /\ pc' = "cycle" => left = {j}
      /\ pc' # "refused" => \A a \in Placeholders(Texts(j, Resolved(j))) : RefOK(j, a)
  BY <1>1 DEF ValidateNext, Check
<1>3. j \in Job /\ agents = kata.agents
  BY <1>1 DEF IInv, DecodedInv, AfterDecode
<1>4. UNCHANGED <<kata, flags, env>> /\ Job' = Job
  BY <1>1 DEF input, Job
<1>5. kata' \in Kata /\ left' \subseteq Job'
  BY <1>2, <1>4 DEF IInv
<1>6. ResolvedInv'
  <2> SUFFICES ASSUME NEW k \in DOMAIN executor'
               PROVE  /\ k \in Job \ left' /\ HasAgent(k)
                      /\ Profile(k) \in DOMAIN kata.agents
                      /\ executor'[k] = Merge(kata.agents[Profile(k)], Amend(k))
    BY <1>4 DEF ResolvedInv, HasAgent, J, Profile, Amend
  <2>1. CASE k = j
    <3>1. HasAgent(j)
      <4>1. j \notin DOMAIN executor
        BY <1>1 DEF IInv, ResolvedInv
      <4> QED BY <1>2, <2>1, <4>1 DEF Resolved
    <3>2. executor'[j] = Merge(kata.agents[Profile(j)], Amend(j))
      BY <1>2, <1>3, <3>1 DEF Resolved, Profile, Amend
    <3>3. Profile(j) \in DOMAIN kata.agents
      BY <1>1, <1>3, <3>1, AgentOf DEF IInv, Resolves, Profile
    <3> QED BY <1>2, <1>3, <2>1, <3>1, <3>2, <3>3
  <2>2. CASE k # j
    <3>1. k \in DOMAIN executor /\ executor'[k] = executor[k]
      BY <1>2, <2>2 DEF Resolved
    <3> QED BY <1>2, <2>2, <3>1 DEF IInv, ResolvedInv
  <2> QED BY <2>1, <2>2
<1>7. DecodedInv'
  BY <1>1, <1>2, <1>4 DEF IInv, DecodedInv, AfterDecode, J
<1>8. DeclsInv'
  BY <1>1, <1>4 DEF IInv, DeclsInv, AfterDecls, AfterDecode
<1>9. JobsInv'
  <2>1. ASSUME pc' # "refused" PROVE Validated(j)'
    <3>1. HasAgent(j) => Profile(j) \in DOMAIN kata.agents /\ Amend(j).timeout >= 0
      BY <1>1, <1>3, AgentOf DEF IInv, Resolves, Profile, Amend
    <3>2. HasAgent(j) <=> j \in DOMAIN executor'
      BY <1>1, <1>2 DEF Resolved, IInv, ResolvedInv
    <3>3. \A a \in Placeholders(Texts(j, executor')) : RefOK(j, a)
      BY <1>2, <2>1
    <3>4. Texts(j, executor)' = Texts(j, executor')
      BY <1>1, <1>4 DEF Texts, J
    <3> QED BY <1>1, <1>4, <3>1, <3>2, <3>3, <3>4
            DEF Validated, ShapeOK, HasAgent, OutputsOK, J, Profile, Amend, RefOK
  <2>2. ASSUME NEW k \in Job \ left PROVE Validated(k)'
    BY <1>1, <1>2, <1>3, <2>2, ValidatedStays DEF IInv, JobsInv, AfterDecls, AfterDecode
  <2>3. \A k \in Job' \ left' : k = j \/ k \in Job \ left
    BY <1>2, <1>4
  <2> QED BY <1>2, <2>1, <2>2, <2>3 DEF JobsInv, AfterDecls, AfterDecode
<1>10. BoundInv' /\ FitsInv'
  BY <1>2 DEF BoundInv, FitsInv
<1> QED BY <1>5, <1>6, <1>7, <1>8, <1>9, <1>10 DEF IInv

LEMMA DecodePreserves == IInv /\ Decode => IInv'
<1> SUFFICES ASSUME IInv, Decode PROVE IInv'
  OBVIOUS
<1>1. /\ pc = "decode" /\ pc' \in {"decls", "refused"}
      /\ agents' = kata.agents
      /\ argvs' = [j \in Job |-> [i \in DOMAIN J(j).steps |-> Argv(J(j).steps[i]).argv]]
      /\ UNCHANGED <<kata, flags, env, left, executor, bound>>
  BY DEF Decode, Check, input
<1>2. pc' = "decls" =>
        \A j \in Job : \A s \in Range(J(j).steps) : Argv(s).ok
  BY DEF Decode, Check
<1>3. \A j \in Job : \A i \in DOMAIN J(j).steps : J(j).steps[i] \in Range(J(j).steps)
  BY DEF Range
<1>4. DecodedInv'
  BY <1>1, <1>2, <1>3 DEF DecodedInv, AfterDecode, Job, J
<1>5. ResolvedInv'
  BY <1>1 DEF IInv, ResolvedInv, Job, HasAgent, J, Profile, Amend
<1>6. left' = Job'
  BY <1>1 DEF IInv, JobsInv, Job
<1> QED BY <1>1, <1>4, <1>5, <1>6
        DEF IInv, DeclsInv, JobsInv, AfterDecls, AfterDecode, BoundInv, FitsInv, Job

(* A check that changes neither profiles, argvs nor executors.               *)
LEMMA CheckPreserves ==
  ASSUME IInv, UNCHANGED <<kata, flags, env, left, agents, argvs, executor>>,
         pc' \in AfterDecode => pc \in AfterDecode,
         pc' \in AfterDecls => pc \in AfterDecls \/ left = Job,
         pc' \in AfterDecls \ {"jobs"} => left = {},
         pc' \in {"flags", "decode", "decls"} => left = Job,
         DeclsInv', BoundInv', FitsInv'
  PROVE  IInv'
<1>1. kata' \in Kata /\ left' \subseteq Job'
  BY DEF IInv, Job
<1>2. ResolvedInv'
  BY DEF IInv, ResolvedInv, Job, HasAgent, J, Profile, Amend
<1>3. DecodedInv'
  BY DEF IInv, DecodedInv, Job, J
<1>4. JobsInv'
  <2>1. Job' = Job /\ \A j \in Job : Validated(j)' <=> Validated(j)
    BY SameJobs DEF input
  <2>2. pc' \in AfterDecls => \A j \in Job' \ left' : Validated(j)'
    BY <2>1 DEF IInv, JobsInv
  <2> QED BY <2>1, <2>2 DEF JobsInv
<1> QED BY <1>1, <1>2, <1>3, <1>4 DEF IInv

LEMMA NextIInv == IInv /\ [Next]_vars => IInv'
<1> SUFFICES ASSUME IInv, [Next]_vars PROVE IInv'
  OBVIOUS
<1> USE DEF AfterDecls, AfterDecode, input
<1>1. CASE Over \/ UNCHANGED vars
  <2>1. UNCHANGED vars
    BY <1>1 DEF Over
  <2>2. DeclsInv' /\ BoundInv' /\ FitsInv'
    BY <2>1 DEF vars, IInv, DeclsInv, BoundInv, FitsInv, SkillsOK, MCPsOK, AdapterFits,
                SystemPromptFits
  <2>3. /\ pc \in AfterDecls \ {"jobs"} => left = {}
        /\ pc \in {"flags", "decode", "decls"} => left = Job
    BY DEF IInv, JobsInv
  <2> QED BY <2>1, <2>2, <2>3, CheckPreserves DEF vars
<1>2. CASE ReadFlags
  <2>1. /\ pc = "flags" /\ pc' \in {"decode", "refused"}
        /\ UNCHANGED <<kata, flags, env, left, agents, argvs, executor>>
    BY <1>2 DEF ReadFlags, Check
  <2>2. DeclsInv' /\ BoundInv' /\ FitsInv' /\ left = Job
    BY <2>1 DEF DeclsInv, BoundInv, FitsInv, IInv, JobsInv
  <2> QED BY <2>1, <2>2, CheckPreserves
<1>3. CASE Decode
  BY <1>3, DecodePreserves
<1>4. CASE ValidateDecls
  <2>1. /\ pc = "decls" /\ pc' \in {"jobs", "refused"}
        /\ UNCHANGED <<kata, flags, env, left, agents, argvs, executor>>
        /\ pc' = "jobs" => \A p \in DOMAIN agents : ProfileOK(agents[p])
    BY <1>4 DEF ValidateDecls, Check
  <2>2. left = Job /\ agents = kata.agents
    BY <2>1 DEF IInv, JobsInv, DecodedInv
  <2>3. DeclsInv' /\ BoundInv' /\ FitsInv'
    BY <2>1, <2>2 DEF DeclsInv, BoundInv, FitsInv
  <2> QED BY <2>1, <2>2, <2>3, CheckPreserves
<1>5. CASE ValidateJob
  BY <1>5, ValidatePreserves
<1>6. CASE RejectJob
  <2>1. /\ pc' = "refused"
        /\ UNCHANGED <<kata, flags, env, left, agents, argvs, executor>>
    BY <1>6 DEF RejectJob
  <2>2. DeclsInv' /\ BoundInv' /\ FitsInv'
    BY <2>1 DEF DeclsInv, BoundInv, FitsInv
  <2> QED BY <2>1, <2>2, CheckPreserves
<1>7. CASE DetectCycle
  <2>1. /\ pc = "cycle" /\ pc' \in {"bind", "refused"}
        /\ UNCHANGED <<kata, flags, env, left, agents, argvs, executor>>
    BY <1>7 DEF DetectCycle, Check
  <2>2. DeclsInv' /\ BoundInv' /\ FitsInv' /\ left = {}
    BY <2>1 DEF DeclsInv, BoundInv, FitsInv, IInv, JobsInv
  <2> QED BY <2>1, <2>2, CheckPreserves
<1>8. CASE BindParams
  <2>1. /\ pc = "bind" /\ pc' \in {"preflight", "refused"}
        /\ UNCHANGED <<kata, flags, env, left, agents, argvs, executor>>
        /\ DOMAIN bound' = DOMAIN kata.params
    BY <1>8 DEF BindParams, Check
  <2>2. DeclsInv' /\ BoundInv' /\ FitsInv' /\ left = {}
    BY <2>1 DEF DeclsInv, BoundInv, FitsInv, IInv, JobsInv
  <2> QED BY <2>1, <2>2, CheckPreserves
<1>9. CASE Preflight
  <2>1. /\ pc = "preflight" /\ pc' \in {"prepared", "refused"}
        /\ UNCHANGED <<kata, flags, env, left, agents, argvs, executor, bound>>
        /\ pc' = "prepared" =>
             \A j \in DOMAIN executor :
               LET p == executor[j]
               IN SkillsOK(p) /\ MCPsOK(p) /\ AdapterFits(p) /\ SystemPromptFits(p)
    BY <1>9 DEF Preflight, Check
  <2>2. FitsInv'
    BY <2>1 DEF FitsInv, SkillsOK, MCPsOK, AdapterFits, SystemPromptFits
  <2>3. DeclsInv' /\ BoundInv' /\ left = {}
    BY <2>1 DEF DeclsInv, BoundInv, IInv, JobsInv
  <2> QED BY <2>1, <2>2, <2>3, CheckPreserves
<1> QED BY <1>1, <1>2, <1>3, <1>4, <1>5, <1>6, <1>7, <1>8, <1>9 DEF Next

(* What a check of load and prepare has established, every later one keeps.  *)
THEOREM Invariance == Spec => []IInv
<1>1. Init => IInv
  BY InitIInv
<1> QED BY <1>1, NextIInv, PTL DEF Spec

(* No step that Step.UnmarshalYAML saw has an empty argv: only a null item.   *)
LEMMA EmptyIsNull ==
  ASSUME NEW s, Argv(s).ok, s.form # "null"
  PROVE  Argv(s).argv # <<>> /\ Argv(s) = Unmarshal(s)
<1>1. Argv(s) = Unmarshal(s)
  BY DEF Argv
<1>2. CASE s.form = "array"
  BY <1>1, <1>2 DEF Unmarshal
<1>3. CASE s.form # "array"
  BY <1>1, <1>3 DEF Unmarshal, Split
<1> QED BY <1>1, <1>2, <1>3

(* Whatever the mixture of profiles, amendments, flags and environment, what *)
(* runs finds every need, placeholder, executor, skill and server it uses,   *)
(* and a command in every step but a null item (kata.go:234-256).            *)
THEOREM PreparedRunsFindEverything == Spec => []EveryLookupFinds
<1>1. IInv => EveryLookupFinds
  <2> SUFFICES ASSUME IInv PROVE EveryLookupFinds
    OBVIOUS
  <2> USE DEF AfterDecls, AfterDecode
  <2>1. pc \in AfterDecls \ {"jobs"} => \A j \in Job : Validated(j)
    BY DEF IInv, JobsInv
  <2>2. ASSUME pc = "prepared", NEW j \in Job
        PROVE  Finds(j, executor, argvs[j], DOMAIN bound)
    <3>1. Validated(j) /\ DOMAIN bound = DOMAIN kata.params
      BY <2>1, <2>2 DEF IInv, BoundInv
    <3>2. ASSUME NEW i \in DOMAIN argvs[j], argvs[j][i] = <<>>
          PROVE  J(j).steps[i].form = "null"
      <4>1. Argv(J(j).steps[i]).ok /\ Argv(J(j).steps[i]).argv = <<>>
        BY <2>2, <3>2 DEF IInv, DecodedInv
      <4> QED BY <4>1, EmptyIsNull
    <3>3. ASSUME NEW a \in Placeholders({J(j).prompt}
                             \cup UNION {Range(v) : v \in Range(argvs[j])}
                             \cup {executor[i].system : i \in DOMAIN executor \cap {j}})
          PROVE  \/ a.kind = "param" /\ a.ref \in DOMAIN bound
                 \/ a.kind = "output" /\ a.ref \in Range(J(j).outputs)
                 \/ a.kind = "artifact" /\ a.job \in Job /\ a.ref \in Range(J(a.job).outputs)
      <4>1. RefOK(j, a)
        BY <3>1, <3>3 DEF Validated, Texts
      <4> QED BY <3>1, <4>1 DEF RefOK
    <3>4. J(j).prompt # <<>> <=> j \in DOMAIN executor
      BY <3>1 DEF Validated, ShapeOK
    <3>5. ASSUME j \in DOMAIN executor
          PROVE  LET p == executor[j] IN
                 /\ p.timeout > 0
                 /\ p.skills = <<>> \/ p.harness \in SkillHarness
                 /\ "malformed-URL" \notin Range(p.skills)
                 /\ \A m \in UsableMCPs(p) : m.vars \subseteq env
                 /\ p.adapter = "" \/ p.harness \notin OwnAgent
                 /\ p.system = <<>> \/ p.harness = "claude"
      <4> DEFINE p == executor[j]
      <4>1. HasAgent(j) /\ p = Merge(kata.agents[Profile(j)], Amend(j))
        BY <3>5 DEF IInv, ResolvedInv
      <4>2. /\ Profile(j) \in DOMAIN kata.agents /\ Amend(j).timeout >= 0
            /\ kata.agents[Profile(j)].timeout >= 0
        BY <2>2, <3>1, <4>1 DEF Validated, IInv, DeclsInv, ProfileOK
      <4>3. IsProfile(kata.agents[Profile(j)]) /\ IsProfile(Amend(j))
        BY <4>1, <4>2, AgentOf, KataAssumption DEF IInv
      <4>4. p.timeout > 0
        BY <4>1, <4>2, <4>3, MergedHasTime
      <4>5. SkillsOK(p) /\ MCPsOK(p) /\ AdapterFits(p) /\ SystemPromptFits(p)
        BY <2>2, <3>5 DEF IInv, FitsInv
      <4>6. "malformed-URL" \notin Range(p.skills)
        <5>1. CASE p.skills = <<>>
          BY <5>1 DEF Range
        <5> QED BY <4>5, <5>1 DEF SkillsOK
      <4>7. /\ p.skills = <<>> \/ p.harness \in SkillHarness
            /\ \A m \in UsableMCPs(p) : m.vars \subseteq env
            /\ p.adapter = "" \/ p.harness \notin OwnAgent
            /\ p.system = <<>> \/ p.harness = "claude"
        BY <4>5 DEF SkillsOK, MCPsOK, UsableMCPs, AdapterFits, SystemPromptFits
      <4> QED BY <4>4, <4>6, <4>7
    <3>6. Range(J(j).needs) \subseteq Job
      BY <3>1 DEF Validated
    <3> QED BY <3>2, <3>3, <3>4, <3>5, <3>6 DEF Finds
  <2>3. pc \in {"cycle", "bind", "preflight", "prepared"} =>
          \A j \in Job : Range(J(j).needs) \subseteq Job
    BY <2>1 DEF Validated
  <2> QED BY <2>2, <2>3 DEF EveryLookupFinds
<1> QED BY <1>1, Invariance, PTL

(* Jobs that amend one profile do not see each other's amendments: each      *)
(* executor is the file's profile amended by that job alone, field by field. *)
THEOREM AmendmentsAreTheJobsOwn == Spec => []AmendmentsStayTheirOwn
<1>1. IInv => AmendmentsStayTheirOwn
  <2> SUFFICES ASSUME IInv, NEW j \in DOMAIN executor
               PROVE  IsAmended(executor[j], kata.agents[Profile(j)], Amend(j))
    BY DEF AmendmentsStayTheirOwn, Profile, Amend
  <2>1. /\ j \in Job /\ HasAgent(j) /\ executor[j] = Merge(kata.agents[Profile(j)], Amend(j))
        /\ Profile(j) \in DOMAIN kata.agents
    BY DEF IInv, ResolvedInv
  <2>2. IsProfile(kata.agents[Profile(j)]) /\ IsProfile(Amend(j))
    BY <2>1, AgentOf, KataAssumption DEF IInv
  <2> QED BY <2>1, <2>2, MergeAmends
<1> QED BY <1>1, Invariance, PTL

-----------------------------------------------------------------------------
(* Steps run as written.                                                    *)

(* A step that can be read is taken, and the argv of one that is taken is    *)
(* the words it stands for: none, if it is a null item.                      *)
LEMMA ReadableSteps ==
  ASSUME StepsAreLabelled, kata \in Kata, NEW j \in Job, NEW s \in Range(J(j).steps)
  PROVE  /\ s.words \in Seq(Text)
         /\ s.readable => Argv(s).ok
         /\ Argv(s).ok => Argv(s).argv = s.words
<1>1. s.line \in Text /\ s.words \in Seq(Text) /\ IsLabelled(s)
  BY KataAssumption DEF Job, J, StepsAreLabelled
<1>2. CASE s.form = "null"
  BY <1>1, <1>2 DEF Argv, IsLabelled
<1>3. CASE s.form = "array"
  BY <1>1, <1>3 DEF Argv, Unmarshal, IsLabelled
<1>4. CASE s.form \notin {"null", "array"}
  <2>1. /\ Argv(s).ok <=> Split(s.line).ok /\ Split(s.line).argv # <<>>
        /\ Argv(s).argv = Split(s.line).argv
    BY <1>4 DEF Argv, Unmarshal, Split
  <2>2. /\ s.readable <=> /\ Range(s.line) \cap Shell = {}
                          /\ \E w : w # <<>> /\ Spells(s.line, w)
        /\ s.readable => Spells(s.line, s.words)
    BY <1>1, <1>4 DEF IsLabelled
  <2>3. s.readable => Split(s.line).ok /\ Split(s.line).argv = s.words /\ s.words # <<>>
    BY <1>1, <2>2, SplitIsRight
  <2>4. ASSUME Argv(s).ok PROVE s.readable
    <3>1. Range(s.line) \cap Shell = {} /\ Spells(s.line, Split(s.line).argv)
      BY <1>1, <2>1, <2>4, SplitIsRight
    <3> QED BY <2>1, <2>2, <2>4, <3>1
  <2> QED BY <1>1, <2>1, <2>3, <2>4
<1> QED BY <1>2, <1>3, <1>4

(* A placeholder alone is replaced by its value and nothing else.            *)
LEMMA FlattenOne ==
  ASSUME NEW x
  PROVE  FlattenSeq(<<x>>) = x
<1> DEFINE Goes(f) == f = [i \in 1 .. 1 |-> IF i = 1 THEN <<x>>[i]
                                           ELSE f[i - 1] \o <<x>>[i]]
           F == CHOOSE f : Goes(f)
           g == [i \in 1 .. 1 |-> x]
<1>1. FlattenSeq(<<x>>) = F[1]
  BY DEF FlattenSeq
<1>2. Goes(g)
  OBVIOUS
<1> HIDE DEF g
<1>3. Goes(F)
  <2> HIDE DEF Goes
  <2> QED BY <1>2
<1>4. F[1] = x
  <2> HIDE DEF F
  <2>1. F[1] = <<x>>[1]
    BY <1>3
  <2> QED BY <2>1
<1> QED BY <1>1, <1>4

(* One argument per word its author wrote, with each placeholder replaced    *)
(* once: no value of a param is split, unquoted or expanded again.           *)
THEOREM StepsRunTheirWords ==
  ASSUME StepsAreLabelled PROVE Spec => []StepsRunAsWritten
<1>1. IInv => StepsRunAsWritten
  <2> SUFFICES ASSUME IInv, pc = "prepared", NEW j \in Job, NEW i \in DOMAIN J(j).steps
               PROVE  LET words == J(j).steps[i].words
                          ran == ExpandAll(j, argvs[j][i])
                      IN /\ Len(ran) = Len(words)
                         /\ \A w \in DOMAIN words :
                              /\ ran[w] = Expand(j, words[w])
                              /\ Len(words[w]) = 1 /\ words[w][1].kind = "param" =>
                                   ran[w] = bound[words[w][1].ref]
    BY DEF StepsRunAsWritten
  <2> DEFINE words == J(j).steps[i].words
             ran == ExpandAll(j, argvs[j][i])
  <2>1. J(j).steps[i] \in Range(J(j).steps)
    BY DEF Range
  <2>2. Argv(J(j).steps[i]).ok
    BY DEF IInv, DecodedInv, AfterDecode
  <2>3. words \in Seq(Text) /\ Argv(J(j).steps[i]).argv = words
    BY <2>1, <2>2, ReadableSteps DEF IInv
  <2>4. argvs[j][i] = words
    BY <2>3 DEF IInv, DecodedInv, AfterDecode
  <2> HIDE DEF words
  <2>5. ran = [w \in DOMAIN words |-> Expand(j, words[w])]
    BY <2>4 DEF ExpandAll
  <2> HIDE DEF ran
  <2>6. Len(ran) = Len(words)
    BY <2>3, <2>5
  <2>7. ASSUME NEW w \in DOMAIN words, Len(words[w]) = 1, words[w][1].kind = "param"
        PROVE  Expand(j, words[w]) = bound[words[w][1].ref]
    <3> DEFINE a == words[w][1]
    <3>1. words[w] \in Text
      BY <2>3
    <3>2. DOMAIN words[w] = {1}
      BY <2>7, <3>1 DEF Text
    <3> HIDE DEF a
    <3>3. [n \in DOMAIN words[w] |-> Value(j, words[w][n])] = <<Value(j, a)>>
      BY <3>2 DEF a
    <3>4. Expand(j, words[w]) = Value(j, a)
      BY <3>3, FlattenOne DEF Expand
    <3>5. Value(j, a) = bound[a.ref]
      BY <2>7 DEF Value, a
    <3> QED BY <3>4, <3>5 DEF a
  <2> QED BY <2>5, <2>6, <2>7 DEF words, ran
<1> QED BY <1>1, Invariance, PTL

-----------------------------------------------------------------------------
(* No kata is refused for nothing.                                          *)

(* What is declared and what was resolved are the same executor.             *)
LEMMA DeclaredIsResolved ==
  ASSUME IInv, NEW j \in Job, NEW exec, HasAgent(j) <=> j \in DOMAIN exec,
         HasAgent(j) => exec[j] = Merge(kata.agents[Profile(j)], Amend(j))
  PROVE  /\ j \in DOMAIN Declared <=> j \in DOMAIN exec
         /\ j \in DOMAIN exec => exec[j] = Declared[j]
         /\ {exec[i].system : i \in DOMAIN exec \cap {j}}
              = {Declared[i].system : i \in DOMAIN Declared \cap {j}}
<1>1. j \in DOMAIN Declared <=> HasAgent(j)
  BY DEF Declared
<1>2. HasAgent(j) => Declared[j] = Merge(kata.agents[Profile(j)], Amend(j))
  BY DEF Declared, Profile, Amend
<1> HIDE DEF Declared
<1>3. {exec[i].system : i \in DOMAIN exec \cap {j}}
        = {Declared[i].system : i \in DOMAIN Declared \cap {j}}
  BY <1>1, <1>2
<1> QED BY <1>1, <1>2, <1>3

LEMMA ArgvsAreWords ==
  ASSUME IInv, StepsAreLabelled, WellFormed, NEW j \in Job
  PROVE  /\ \A s \in Range(J(j).steps) : Argv(s).ok
         /\ pc \in AfterDecode => argvs[j] = Words(j)
<1>1. \A s \in Range(J(j).steps) : Argv(s).ok /\ Argv(s).argv = s.words
  BY ReadableSteps DEF WellFormed, IInv
<1>2. \A i \in DOMAIN J(j).steps : Argv(J(j).steps[i]).argv = J(j).steps[i].words
  BY <1>1 DEF Range
<1>3. pc \in AfterDecode => argvs[j] = [i \in DOMAIN J(j).steps |-> J(j).steps[i].words]
  BY <1>2 DEF IInv, DecodedInv
<1> QED BY <1>1, <1>3 DEF Words

LEMMA NotRefusedKept ==
  ASSUME StepsAreLabelled, IInv, NotRefused, [Next]_vars
  PROVE  NotRefused'
<1> SUFFICES ASSUME Blameless', pc' = "refused" PROVE FALSE
  BY DEF NotRefused
<1>0. UNCHANGED <<kata, flags, env>>
  BY DEF Next, ReadFlags, Decode, ValidateDecls, ValidateJob, RejectJob, DetectCycle,
         BindParams, Preflight, Over, vars, input
<1>1. Blameless
  <2>1. WellFormed' => WellFormed
    <3>1. Job' = Job /\ \A j : J(j)' = J(j)
      BY <1>0 DEF Job, J
    <3>2. Acyclic' <=> Acyclic
      BY <3>1 DEF Acyclic
    <3>3. \A j : ShapeOK(j)' <=> ShapeOK(j)
      BY <3>1 DEF ShapeOK, HasAgent
    <3>4. \A p : Given(p)' = Given(p)
      BY <1>0 DEF Given
    <3> QED BY <1>0, <3>1, <3>2, <3>3, <3>4 DEF WellFormed
  <2>2. Declared' = Declared
    BY <1>0 DEF Declared, Job, J, HasAgent
  <2>3. \A j : Words(j)' = Words(j)
    BY <1>0 DEF Words, J
  <2>4. \A j, exec, argv, params : Finds(j, exec, argv, params)'
                                     <=> Finds(j, exec, argv, params)
    BY <1>0 DEF Finds, Job, J, UsableMCPs
  <2> QED BY <1>0, <2>1, <2>2, <2>3, <2>4 DEF Blameless, Job
<1>2. pc # "refused"
  BY <1>1 DEF NotRefused
<1>3. CASE ReadFlags
  BY <1>1, <1>2, <1>3 DEF ReadFlags, Check, Blameless, WellFormed
<1>4. CASE ValidateDecls
  <2>1. agents = kata.agents
    BY <1>4 DEF ValidateDecls, Check, IInv, DecodedInv, AfterDecode
  <2> QED BY <1>1, <1>2, <1>4, <2>1 DEF ValidateDecls, Check, Blameless, WellFormed
<1>5. CASE DetectCycle
  BY <1>1, <1>2, <1>5 DEF DetectCycle, Check, Blameless, WellFormed
<1>6. CASE BindParams
  BY <1>1, <1>2, <1>6 DEF BindParams, Check, Blameless, WellFormed
<1>7. WellFormed /\ \A j \in Job : Finds(j, Declared, Words(j), DOMAIN kata.params)
  BY <1>1 DEF Blameless
<1>8. CASE Decode
  <2>1. \A j \in Job : \A s \in Range(J(j).steps) : Argv(s).ok
    BY <1>7, ArgvsAreWords
  <2>2. \A j \in Job : \A a \in Range(J(j).agents) : AgentDecodes(a)
    BY <1>7 DEF WellFormed
  <2>3. /\ kata.decodes
        /\ \A p \in DOMAIN kata.agents : \A m \in Range(kata.agents[p].mcps) : m.hasURL
    BY <1>7 DEF WellFormed
  <2>4. pc' = "decls"
    BY <1>8, <2>1, <2>2, <2>3 DEF Decode, Check
  <2> QED BY <2>4
<1>9. CASE RejectJob
  <2>1. PICK j \in left : /\ pc = "jobs"
                          /\ ~(ShapeOK(j) /\ Range(J(j).needs) \subseteq Job /\ Resolves(j))
    BY <1>9 DEF RejectJob
  <2>2. j \in Job /\ agents = kata.agents
    BY <2>1 DEF IInv, DecodedInv, AfterDecode
  <2>3. ShapeOK(j) /\ Resolves(j)
    BY <1>7, <2>2 DEF WellFormed, Resolves
  <2>4. Range(J(j).needs) \subseteq Job
    BY <1>7, <2>2 DEF Finds
  <2> QED BY <2>1, <2>3, <2>4
<1>10. CASE ValidateJob
  <2>1. PICK j \in left : pc = "jobs" /\ Resolves(j) /\ ValidateNext(j, Resolved(j))
    BY <1>10 DEF ValidateJob
  <2>2. j \in Job /\ agents = kata.agents /\ argvs[j] = Words(j)
    BY <1>7, <2>1, ArgvsAreWords DEF IInv, DecodedInv, AfterDecode
  <2>3. /\ HasAgent(j) <=> j \in DOMAIN Resolved(j)
        /\ HasAgent(j) => Resolved(j)[j] = Merge(kata.agents[Profile(j)], Amend(j))
    BY <2>1, <2>2 DEF Resolved, IInv, ResolvedInv, Profile, Amend
  <2>4. {Resolved(j)[i].system : i \in DOMAIN Resolved(j) \cap {j}}
          = {Declared[i].system : i \in DOMAIN Declared \cap {j}}
    BY <2>2, <2>3, DeclaredIsResolved
  <2>5. ASSUME NEW a \in Placeholders(Texts(j, Resolved(j))) PROVE RefOK(j, a)
    <3>1. a \in Placeholders({J(j).prompt} \cup UNION {Range(v) : v \in Range(Words(j))}
                               \cup {Declared[i].system : i \in DOMAIN Declared \cap {j}})
      BY <2>2, <2>4 DEF Texts
    <3>2. \/ a.kind = "param" /\ a.ref \in DOMAIN kata.params
          \/ a.kind = "output" /\ a.ref \in Range(J(j).outputs)
          \/ a.kind = "artifact" /\ a.job \in Job /\ a.ref \in Range(J(a.job).outputs)
      BY <1>7, <2>2, <3>1 DEF Finds
    <3> QED BY <3>2 DEF RefOK
  <2> QED BY <2>1, <2>5 DEF ValidateNext, Check
<1>11. CASE Preflight
  <2>1. pc = "preflight"
    BY <1>11 DEF Preflight, Check
  <2>2. ASSUME NEW j \in DOMAIN executor
        PROVE  LET p == executor[j]
               IN SkillsOK(p) /\ MCPsOK(p) /\ AdapterFits(p) /\ SystemPromptFits(p)
    <3>1. /\ j \in Job /\ HasAgent(j)
          /\ executor[j] = Merge(kata.agents[Profile(j)], Amend(j))
      BY DEF IInv, ResolvedInv
    <3>2. j \in DOMAIN Declared /\ executor[j] = Declared[j]
      BY <3>1, DeclaredIsResolved
    <3>3. LET p == executor[j] IN
          /\ p.skills = <<>> \/ p.harness \in SkillHarness
          /\ "malformed-URL" \notin Range(p.skills)
          /\ \A m \in UsableMCPs(p) : m.vars \subseteq env
          /\ p.adapter = "" \/ p.harness \notin OwnAgent
          /\ p.system = <<>> \/ p.harness = "claude"
      BY <1>7, <3>1, <3>2 DEF Finds
    <3> QED BY <3>3 DEF SkillsOK, MCPsOK, UsableMCPs, AdapterFits, SystemPromptFits
  <2>3. pc' = "prepared"
    BY <1>11, <2>2 DEF Preflight, Check
  <2> QED BY <2>3
<1>12. CASE Over \/ UNCHANGED vars
  BY <1>2, <1>12 DEF Over, vars
<1> QED BY <1>3, <1>4, <1>5, <1>6, <1>8, <1>9, <1>10, <1>11, <1>12 DEF Next

(* No kata is refused for nothing: one that keeps the documented rules, and  *)
(* in which later lookups would succeed, passes every check.                 *)
THEOREM NoRefusalWithoutReason ==
  ASSUME StepsAreLabelled PROVE Spec => []RefusedWithReason
<1>1. Init => IInv /\ NotRefused
  BY InitIInv
<1>2. IInv /\ NotRefused /\ [Next]_vars => IInv' /\ NotRefused'
  BY NextIInv, NotRefusedKept
<1>3. NotRefused => RefusedWithReason
  BY DEF NotRefused, Blameless, RefusedWithReason
<1> QED BY <1>1, <1>2, <1>3, PTL DEF Spec

=============================================================================
