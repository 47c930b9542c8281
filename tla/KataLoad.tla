------------------------------ MODULE KataLoad ------------------------------
(***************************************************************************)
(* From a kata file, the -p flags and the environment to a run that may    *)
(* start, or a refusal: decoding with step splitting, validation with the  *)
(* profiles resolved on the way, binding, and preflight.  Later code looks *)
(* up what it needs without a check of its own.                            *)
(* internal/kata/kata.go; internal/engine/engine.go (prepare and its       *)
(* checks, usableMCPs); skills.go (checkSkills); executor.go (unsetVar);   *)
(* cmd/gunkata/main.go (paramBindings.Set).                                *)
(*                                                                         *)
(* A text is a sequence of atoms, each a character or a whole placeholder; *)
(* the unset text is empty.  A kata is a record:                           *)
(*   decodes, named: YAML, no unknown field, no empty job; it has a name   *)
(*   params:   name -> [wellNamed, required, default]                      *)
(*   agents:   name -> profile                                             *)
(*   workflow: name -> [needs, steps, prompt, outputs, agents]             *)
(* where agents holds the job's one [profile, amend, keys], or nothing,    *)
(* and steps the pre-steps and post-steps, each a [form, line, words] of   *)
(* form "array", "line" or, for a list item that is empty or ~, "null".    *)
(***************************************************************************)
EXTENDS Integers, Sequences, SequencesExt

CONSTANTS
  Kata,      \* the katas to load
  Flags,     \* the -p flags to give, each a sequence of [key, value]
  Var,       \* environment variables an MCP URL may name
  NameOrder  \* every job name, sorted

Atom(kind, job, ref) == [kind |-> kind, job |-> job, ref |-> ref]
Char(c) == Atom("char", "", c)
IsPlaceholder(a) == a.kind \notin {"char", "path"}

Shell == {Char("|"), Char("&&")}
Quote == {Char("'"), Char("\"")}
Space == Char(" ")
NoQuote == Char("")

\* The splitter's own characters are named: the provers do not know that a
\* literal is a STRING.
AnyAtom == Quote \cup {Space, NoQuote} \cup [kind : STRING, job : STRING, ref : STRING]
Text == Seq(AnyAtom)

\* What the Go types already say of a kata; a job has at most one agent.
IsProfile(p) ==
  /\ p.timeout \in Int /\ p.skills \in Seq(STRING) /\ p.system \in Text
  /\ p.mcps \in Seq([vars : SUBSET Var, required : BOOLEAN, hasURL : BOOLEAN])

ASSUME KataAssumption ==
  \A k \in Kata :
    /\ \A p \in DOMAIN k.agents : IsProfile(k.agents[p])
    /\ \A j \in DOMAIN k.workflow :
         /\ \A s \in Range(k.workflow[j].steps) : s.line \in Text /\ s.words \in Seq(Text)
         /\ k.workflow[j].agents = <<>> \/ DOMAIN k.workflow[j].agents = {1}
         /\ \A a \in Range(k.workflow[j].agents) : IsProfile(a.amend)

VARIABLES
  pc,        \* the check that comes next
  kata, flags, env,
  left,      \* the jobs still to validate
  agents,    \* the kata's profiles, in memory
  argvs,     \* argvs[j]: the argv of each of j's steps
  executor,  \* executor[j]: j's resolved profile, for the jobs that have one
  bound      \* the value of each param

input == <<kata, flags, env>>
vars == <<pc, input, left, agents, argvs, executor, bound>>

Job == DOMAIN kata.workflow
J(j) == kata.workflow[j]
HasAgent(j) == J(j).agents # <<>>

\* Kata.Jobs: j comes before the other jobs of S.
Rank(j) == CHOOSE i \in DOMAIN NameOrder : NameOrder[i] = j
IsFirst(j, S) == \A k \in S : Rank(j) <= Rank(k)

Init ==
  /\ pc = "flags"
  /\ kata \in Kata /\ flags \in Flags /\ env \in SUBSET Var
  /\ left = Job /\ agents = <<>> /\ argvs = <<>> /\ executor = <<>>
  /\ bound = <<>>

\* A check that passes leads to the next one; any that fails refuses the run.
Check(at, ok, then) == pc = at /\ pc' = IF ok THEN then ELSE "refused"

-----------------------------------------------------------------------------
(* Splitting a step.                                                       *)

EndWord(sp) ==
  IF sp.inWord THEN [sp EXCEPT !.argv = Append(@, sp.word), !.word = <<>>,
                               !.inWord = FALSE] ELSE sp

\* Mutant: a quote that opens begins no word until something is in it.
TakeNoEmptyWord(sp, r) ==
  CASE sp.quote # NoQuote /\ r = sp.quote -> [sp EXCEPT !.quote = NoQuote]
    [] sp.quote # NoQuote /\ r # sp.quote ->
         [sp EXCEPT !.word = Append(@, r), !.inWord = TRUE]
    [] sp.quote = NoQuote /\ r \in Quote -> [sp EXCEPT !.quote = r]
    [] sp.quote = NoQuote /\ r = Space -> EndWord(sp)
    [] OTHER -> [sp EXCEPT !.word = Append(@, r), !.inWord = TRUE]

\* splitter.take; a placeholder is characters like any others.
Take(sp, r) ==
  CASE sp.quote # NoQuote /\ r = sp.quote -> [sp EXCEPT !.quote = NoQuote]
    [] sp.quote # NoQuote /\ r # sp.quote -> [sp EXCEPT !.word = Append(@, r)]
    [] sp.quote = NoQuote /\ r \in Quote ->
         [sp EXCEPT !.quote = r, !.inWord = TRUE]
    [] sp.quote = NoQuote /\ r = Space -> EndWord(sp)
    [] OTHER -> [sp EXCEPT !.word = Append(@, r), !.inWord = TRUE]

Start == [argv |-> <<>>, word |-> <<>>, inWord |-> FALSE, quote |-> NoQuote]

\* The splitter by the characters of the line it has taken.
Splitter(sp, line) ==
  LET after[n \in 0 .. Len(line)] ==
        IF n = 0 THEN sp ELSE Take(after[n - 1], line[n])
  IN  after

Split(line) ==
  LET sp == Splitter(Start, line)[Len(line)]
  IN [ok |-> Range(line) \cap Shell = {} /\ sp.quote = NoQuote,
      argv |-> EndWord(sp).argv]

\* Step.UnmarshalYAML: an array is taken as it is, and no argv may be empty.
Unmarshal(step) ==
  LET s == IF step.form = "array" THEN [ok |-> TRUE, argv |-> step.words]
                                  ELSE Split(step.line)
  IN [s EXCEPT !.ok = s.ok /\ s.argv # <<>>]

\* yaml.v3, which does not call it for a null item: a Step is a slice, and
\* the item becomes a nil one, without an error.
Argv(step) ==
  IF step.form = "null" THEN [ok |-> TRUE, argv |-> <<>>] ELSE Unmarshal(step)

-----------------------------------------------------------------------------
(* What splitting owes: "spaces separate, quotes group" (kata.go:258), said  *)
(* of how a line is written.  A word is one piece after the other, each bare *)
(* or in quotes; there is a gap between two words.                           *)

Piece ==
  {p \in [quote : Quote \cup {NoQuote}, text : Text] :
     IF p.quote = NoQuote
     THEN p.text # <<>> /\ Range(p.text) \cap (Quote \cup {Space}) = {}
     ELSE p.quote \notin Range(p.text)}
Gap == Seq({Space})
WrittenWord == [gap : Gap, pieces : Seq(Piece) \ {<<>>}]

PieceLine(p) ==
  IF p.quote = NoQuote THEN p.text ELSE <<p.quote>> \o p.text \o <<p.quote>>
PiecesLine(ps) == FlattenSeq([i \in DOMAIN ps |-> PieceLine(ps[i])])
PiecesText(ps) == FlattenSeq([i \in DOMAIN ps |-> ps[i].text])
WordLine(w) == w.gap \o PiecesLine(w.pieces)

IsWriting(ws) ==
  ws \in Seq(WrittenWord) /\ \A i \in DOMAIN ws : i > 1 => ws[i].gap # <<>>
LineOf(ws) == FlattenSeq([i \in DOMAIN ws |-> WordLine(ws[i])])
WordsOf(ws) == [i \in DOMAIN ws |-> PiecesText(ws[i].pieces)]

Spells(line, words) ==
  \E ws, tail : /\ IsWriting(ws) /\ tail \in Gap
                /\ line = LineOf(ws) \o tail /\ words = WordsOf(ws)

-----------------------------------------------------------------------------
(* Load.                                                                   *)

AmendFields == {"profile", "model", "timeout_seconds", "options", "skills",
                "mcps", "acp_adapter", "append_system_prompt"}

\* agentRef's, mcpEntry's and Step's own decoding.
AgentDecodes(a) ==
  /\ a.keys \subseteq AmendFields
  /\ \A m \in Range(a.amend.mcps) : m.hasURL

\* paramBindings.Set, flag after flag.
ReadFlags ==
  /\ Check("flags", \A i, k \in DOMAIN flags :
                      flags[i].key = flags[k].key => i = k, "decode")
  /\ UNCHANGED <<input, left, agents, argvs, executor, bound>>

Decode ==
  /\ Check("decode",
       /\ kata.decodes
       /\ \A p \in DOMAIN kata.agents :
            \A m \in Range(kata.agents[p].mcps) : m.hasURL
       /\ \A j \in Job :
            /\ \A a \in Range(J(j).agents) : AgentDecodes(a)
            /\ \A s \in Range(J(j).steps) : Argv(s).ok,
       "decls")
  /\ agents' = kata.agents
  /\ argvs' = [j \in Job |->
                 [i \in DOMAIN J(j).steps |-> Argv(J(j).steps[i]).argv]]
  /\ UNCHANGED <<input, left, executor, bound>>

AdapterOK(adapter) == adapter # "malformed"

ProfileOK(p) ==
  p.harness # "" /\ p.model # "" /\ p.timeout >= 0 /\ AdapterOK(p.adapter)

\* validate's own conditions and validateDecls.
ValidateDecls ==
  /\ Check("decls",
       /\ kata.named /\ Job # {}
       /\ \A p \in DOMAIN kata.params : kata.params[p].wellNamed
       /\ \A p \in DOMAIN agents : ProfileOK(agents[p]), "jobs")
  /\ UNCHANGED <<input, left, agents, argvs, executor, bound>>

Or(a, b, zero) == IF a # zero THEN a ELSE b

DefaultTimeout == 240

\* Scalars replace, lists and the system prompt append, options keys win.
Merge(base, amend) ==
  [harness |-> base.harness,
   model |-> Or(amend.model, base.model, ""),
   timeout |-> Or(Or(amend.timeout, base.timeout, 0), DefaultTimeout, 0),
   options |-> [key \in DOMAIN base.options \cup DOMAIN amend.options |->
                  IF key \in DOMAIN amend.options THEN amend.options[key]
                                                  ELSE base.options[key]],
   skills |-> base.skills \o amend.skills,
   mcps |-> base.mcps \o amend.mcps,
   adapter |-> Or(amend.adapter, base.adapter, ""),
   system |-> base.system \o amend.system]

OutputsOK(outs) ==
  /\ \A i, k \in DOMAIN outs : outs[i] = outs[k] => i = k
  /\ \A o \in Range(outs) : o \notin {"", ".", "..", "a/b"}

ShapeOK(j) ==
  /\ HasAgent(j) <=> J(j).prompt # <<>>
  /\ J(j).outputs # <<>> \/ \E s \in Range(J(j).steps) : s.when = "post"
  /\ "message.md" \in Range(J(j).outputs) => HasAgent(j)
  /\ OutputsOK(J(j).outputs)

\* Mutant: the texts are collected before the profile is resolved.
TextsUnresolved(j, exec) == {J(j).prompt} \cup UNION {Range(v) : v \in Range(argvs[j])}

\* Job.texts: every string of the job a placeholder may be in.
Texts(j, exec) ==
  {J(j).prompt} \cup UNION {Range(v) : v \in Range(argvs[j])}
    \cup {exec[i].system : i \in DOMAIN exec \cap {j}}

\* Mutant: a job may name the outputs of the jobs it needs only.
RefOKIfNeeded(j, a) ==
  CASE a.kind = "param" -> a.ref \in DOMAIN kata.params
    [] a.kind = "output" -> a.ref \in Range(J(j).outputs)
    [] a.kind = "artifact" -> a.job \in Job \cap Range(J(j).needs)
                                /\ a.ref \in Range(J(a.job).outputs)
    [] OTHER -> FALSE

RefOK(j, a) ==
  CASE a.kind = "param" -> a.ref \in DOMAIN kata.params
    [] a.kind = "output" -> a.ref \in Range(J(j).outputs)
    [] a.kind = "artifact" -> a.job \in Job /\ a.ref \in Range(J(a.job).outputs)
    [] OTHER -> FALSE

Placeholders(texts) == {a \in UNION {Range(t) : t \in texts} : IsPlaceholder(a)}

\* resolveExecutor's refusals.
Resolves(j) ==
  \A a \in Range(J(j).agents) :
    /\ a.profile \in DOMAIN agents
    /\ a.amend.timeout >= 0 /\ AdapterOK(a.amend.adapter)

Resolved(j) ==
  [i \in DOMAIN executor \cup (IF HasAgent(j) THEN {j} ELSE {}) |->
     IF i = j THEN Merge(agents[J(j).agents[1].profile], J(j).agents[1].amend)
              ELSE executor[i]]

ValidateNext(j, exec) ==
  /\ Check("jobs", \A a \in Placeholders(Texts(j, exec)) : RefOK(j, a),
           IF left = {j} THEN "cycle" ELSE "jobs")
  /\ executor' = exec
  /\ left' = left \ {j}

\* Mutant: the profile itself is amended, and the job refers to it.
ValidateJobInPlace ==
  \E j \in left :
    /\ pc = "jobs" /\ IsFirst(j, left)
    /\ ShapeOK(j) /\ Range(J(j).needs) \subseteq Job /\ Resolves(j)
    /\ ValidateNext(j, Resolved(j))
    /\ agents' = [p \in DOMAIN agents |->
                    IF HasAgent(j) /\ p = J(j).agents[1].profile
                      THEN Resolved(j)[j] ELSE agents[p]]
    /\ UNCHANGED <<input, argvs, bound>>

\* validateJob: shape, needs, the profile with its amendments, and only then
\* the placeholders, which the merged profile may bring some of.
ValidateJob ==
  \E j \in left :
    /\ pc = "jobs" /\ IsFirst(j, left)
    /\ ShapeOK(j) /\ Range(J(j).needs) \subseteq Job /\ Resolves(j)
    /\ ValidateNext(j, Resolved(j))
    /\ UNCHANGED <<input, agents, argvs, bound>>

RejectJob ==
  \E j \in left :
    /\ pc = "jobs" /\ IsFirst(j, left)
    /\ ~(ShapeOK(j) /\ Range(J(j).needs) \subseteq Job /\ Resolves(j))
    /\ pc' = "refused"
    /\ UNCHANGED <<input, left, agents, argvs, executor, bound>>

\* detectCycle, which looks every need up: CycleDetect's subject.
Acyclic ==
  \A C \in (SUBSET Job) \ {{}} : \E j \in C : Range(J(j).needs) \cap C = {}

DetectCycle ==
  /\ Check("cycle", Acyclic, "bind")
  /\ UNCHANGED <<input, left, agents, argvs, executor, bound>>

-----------------------------------------------------------------------------
(* prepare's other half: bindParams and preflight.                         *)

Given(p) == {i \in DOMAIN flags : flags[i].key = p}

BindParams ==
  /\ Check("bind",
       /\ \A i \in DOMAIN flags : flags[i].key \in DOMAIN kata.params
       /\ \A p \in DOMAIN kata.params :
            Given(p) = {} => ~kata.params[p].required, "preflight")
  /\ bound' = [p \in DOMAIN kata.params |->
                 IF Given(p) = {} THEN kata.params[p].default
                 ELSE flags[CHOOSE i \in Given(p) : TRUE].value]
  /\ UNCHANGED <<input, left, agents, argvs, executor>>

SkillHarness == {"claude", "agy", "codex"}   \* harnessSkillDirs
OwnAgent == {"agy"}                          \* harnessAgent

SkillsOK(p) ==
  p.skills # <<>> =>
    p.harness \in SkillHarness /\ "malformed-URL" \notin Range(p.skills)
MCPsOK(p) == \A m \in Range(p.mcps) : m.required => m.vars \subseteq env
AdapterFits(p) == p.adapter # "" => p.harness \notin OwnAgent
SystemPromptFits(p) == p.system # <<>> => p.harness = "claude"

Preflight ==
  /\ Check("preflight",
       \A j \in DOMAIN executor :
         LET p == executor[j]
         IN SkillsOK(p) /\ MCPsOK(p) /\ AdapterFits(p) /\ SystemPromptFits(p),
       "prepared")
  /\ UNCHANGED <<input, left, agents, argvs, executor, bound>>

Over == pc \in {"prepared", "refused"} /\ UNCHANGED vars

Next ==
  \/ ReadFlags \/ Decode \/ ValidateDecls \/ ValidateJob \/ RejectJob
  \/ DetectCycle \/ BindParams \/ Preflight \/ Over

Spec == Init /\ [][Next]_vars

-----------------------------------------------------------------------------
(* What a prepared run uses.                                               *)

\* Expand and ExpandAll: each placeholder by its value, in one pass.
Value(j, a) ==
  CASE a.kind = "param" -> bound[a.ref]
    [] a.kind = "output" -> <<Atom("path", j, a.ref)>>
    [] a.kind = "artifact" -> <<Atom("path", a.job, a.ref)>>
    [] OTHER -> <<a>>

Expand(j, text) == FlattenSeq([i \in DOMAIN text |-> Value(j, text[i])])
ExpandAll(j, argv) == [i \in DOMAIN argv |-> Expand(j, argv[i])]

\* usableMCPs: optional servers with an unset variable are left out.
UsableMCPs(p) == {m \in Range(p.mcps) : m.required \/ m.vars \subseteq env}

-----------------------------------------------------------------------------
(* What loading owes.                                                      *)

\* What the code after prepare looks up without looking whether it is there,
\* for job j with the profile of exec, these argvs and these bound params:
\* settled[need] and jobs[need]; argv[0], but of a step that is a null item; a
\* param, an output or an artifact in whatever text it expands; an executor
\* for a prompt; a skills directory and a skill's repository; a variable of
\* each server it uses; time to run.
Finds(j, exec, argv, params) ==
  /\ Range(J(j).needs) \subseteq Job
  /\ \A i \in DOMAIN argv : argv[i] = <<>> => J(j).steps[i].form = "null"
  /\ \A a \in Placeholders({J(j).prompt} \cup UNION {Range(v) : v \in Range(argv)}
                             \cup {exec[i].system : i \in DOMAIN exec \cap {j}}) :
       \/ a.kind = "param" /\ a.ref \in params
       \/ a.kind = "output" /\ a.ref \in Range(J(j).outputs)
       \/ a.kind = "artifact" /\ a.job \in Job /\ a.ref \in Range(J(a.job).outputs)
  /\ J(j).prompt # <<>> <=> j \in DOMAIN exec
  /\ j \in DOMAIN exec =>
       LET p == exec[j] IN
       /\ p.timeout > 0
       /\ p.skills = <<>> \/ p.harness \in SkillHarness
       /\ "malformed-URL" \notin Range(p.skills)
       /\ \A m \in UsableMCPs(p) : m.vars \subseteq env
       /\ p.adapter = "" \/ p.harness \notin OwnAgent
       /\ p.system = <<>> \/ p.harness = "claude"

\* Whatever the mixture of profile, amendment, flags and environment, a run
\* that is prepared finds everything later code takes for granted, with the one
\* exception of MalformedStepsAreRejected; detectCycle, which dereferences every
\* need, is only reached when each names a job.
EveryLookupFinds ==
  /\ pc \in {"cycle", "bind", "preflight", "prepared"} =>
       \A j \in Job : Range(J(j).needs) \subseteq Job
  /\ pc = "prepared" =>
       \A j \in Job : Finds(j, executor, argvs[j], DOMAIN bound)

\* docs/spec.md:153, "malformed steps ... are rejected before anything runs": no
\* step of a prepared run is without a command.  A null item is (Argv): it
\* passes every check, counts as evidence even, and runStep panics at argv[0].
MalformedStepsAreRejected ==
  pc = "prepared" => \A j \in Job : <<>> \notin Range(argvs[j])

\* The profile job j declares with its amendments, field by field as docs/spec.md
\* (Agents) has it: read off the file, not off what loading made of it.
IsAmended(p, base, amend) ==
  /\ p.harness = base.harness
  /\ p.model = IF amend.model = "" THEN base.model ELSE amend.model
  /\ p.timeout \in {amend.timeout, base.timeout, DefaultTimeout} \ {0}
  /\ amend.timeout # 0 => p.timeout = amend.timeout
  /\ amend.timeout = 0 /\ base.timeout # 0 => p.timeout = base.timeout
  /\ \A f \in {"skills", "mcps", "system"} :
       /\ Len(p[f]) = Len(base[f]) + Len(amend[f])
       /\ IsPrefix(base[f], p[f]) /\ IsSuffix(amend[f], p[f])
  /\ DOMAIN p.options = DOMAIN base.options \cup DOMAIN amend.options
  /\ \A key \in DOMAIN p.options :
       p.options[key] = IF key \in DOMAIN amend.options
                          THEN amend.options[key] ELSE base.options[key]
  /\ p.adapter = IF amend.adapter = "" THEN base.adapter ELSE amend.adapter

\* Two jobs that amend one profile do not see each other's amendments: every
\* job's executor is the profile as the file has it, amended by that job alone,
\* in whatever order the jobs were resolved.
AmendmentsStayTheirOwn ==
  \A j \in DOMAIN executor :
    LET a == J(j).agents[1]
    IN IsAmended(executor[j], kata.agents[a.profile], a.amend)

\* A step is run as its author wrote it: one argument per word, quoted words
\* and empty ones included, each with its placeholders replaced once, whatever
\* spaces, quotes, shell characters or placeholders a param's value holds.
StepsRunAsWritten ==
  pc = "prepared" =>
    \A j \in Job : \A i \in DOMAIN J(j).steps :
      LET words == J(j).steps[i].words
          ran == ExpandAll(j, argvs[j][i])
      IN /\ Len(ran) = Len(words)
         /\ \A w \in DOMAIN words :
              /\ ran[w] = Expand(j, words[w])
              /\ Len(words[w]) = 1 /\ words[w][1].kind = "param" =>
                   ran[w] = bound[words[w][1].ref]

\* The rules docs/spec.md states for the file and the flags, beside what
\* later code needs.
WellFormed ==
  /\ kata.decodes /\ kata.named /\ Job # {} /\ Acyclic
  /\ \A i, k \in DOMAIN flags : flags[i].key = flags[k].key => i = k
  /\ {flags[i].key : i \in DOMAIN flags} \subseteq DOMAIN kata.params
  /\ \A p \in DOMAIN kata.params :
       /\ kata.params[p].wellNamed
       /\ kata.params[p].required => Given(p) # {}
  /\ \A p \in DOMAIN kata.agents :
       /\ ProfileOK(kata.agents[p])
       /\ \A m \in Range(kata.agents[p].mcps) : m.hasURL
  /\ \A j \in Job :
       /\ ShapeOK(j)
       /\ \A s \in Range(J(j).steps) : s.readable
       /\ \A a \in Range(J(j).agents) :
            /\ AgentDecodes(a) /\ a.profile \in DOMAIN kata.agents
            /\ a.amend.timeout >= 0 /\ AdapterOK(a.amend.adapter)

\* The executors the file declares, and the words of a job's steps.
Declared ==
  [j \in {i \in Job : HasAgent(i)} |->
     Merge(kata.agents[J(j).agents[1].profile], J(j).agents[1].amend)]

Words(j) == [i \in DOMAIN J(j).steps |-> J(j).steps[i].words]

\* No kata is refused for nothing: one that keeps the documented rules and in
\* which every later lookup would succeed is prepared. In particular an
\* artifact may be of a job that is not upstream (docs/spec.md:138), an
\* optional server may lack its variable, and what a job amends may supply
\* what its profile lacks.
RefusedWithReason ==
  pc = "refused" =>
    ~(WellFormed /\ \A j \in Job : Finds(j, Declared, Words(j), DOMAIN kata.params))

=============================================================================
