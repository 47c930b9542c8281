----------------------------- MODULE MCKataLoad -----------------------------
(* A kata of two jobs that amend one profile, and every kata that differs    *)
(* from it in one or two places, or in how one step is written.              *)
EXTENDS KataLoad

CONSTANT V

Param(p) == Atom("param", "", p)
Output(o) == Atom("output", "", o)
Artifact(j, o) == Atom("artifact", j, o)
X == Char("x")

Plain == [harness |-> "", model |-> "", timeout |-> 0, options |-> <<>>,
          skills |-> <<>>, mcps |-> <<>>, adapter |-> "", system |-> <<>>]

Array(when, words) ==
  [form |-> "array", when |-> when, words |-> words, line |-> <<>>,
   readable |-> words # <<>>]

\* A list item that is empty or ~.
Null(when) == [Array(when, <<>>) EXCEPT !.form = "null"]

Base == [
  decodes |-> TRUE, named |-> TRUE,
  params |-> [p |-> [wellNamed |-> TRUE, required |-> TRUE, default |-> <<>>],
              q |-> [wellNamed |-> TRUE, required |-> FALSE, default |-> <<X>>]],
  agents |-> [dev |-> [Plain EXCEPT !.harness = "claude", !.model = "m",
                                    !.options = [mode |-> "plan"]]],
  workflow |-> [
    a |-> [needs |-> <<>>, prompt |-> <<X, Param("p")>>,
           steps |-> <<Array("pre", <<<<X>>, <<Param("p")>>>>)>>,
           outputs |-> <<"repo", "message.md">>,
           agents |-> <<[profile |-> "dev", keys |-> {"profile", "options"},
                         amend |-> [Plain EXCEPT !.options = [mode |-> "full"]]]>>],
    b |-> [needs |-> <<"a">>, prompt |-> <<Artifact("a", "repo")>>,
           steps |-> <<Array("post", <<<<X>>, <<Output("report")>>>>)>>,
           outputs |-> <<"report">>,
           agents |-> <<[profile |-> "dev", keys |-> {}, amend |-> Plain]>>]]]

\* What a profile may say otherwise, and an amendment too.
ProfileLike(p) ==
  {[p EXCEPT !.model = m] : m \in {"", "m2"}}
  \cup {[p EXCEPT !.timeout = t] : t \in {-1, 60}}
  \cup {[p EXCEPT !.adapter = a] : a \in {"pinned", "malformed"}}
  \cup {[p EXCEPT !.system = s] :
          s \in {<<X>>, <<Param("q")>>, <<Param("none")>>, <<Output("repo")>>}}
  \cup {[p EXCEPT !.skills = <<s>>] : s \in {"local", "malformed-URL"}}
  \cup {[p EXCEPT !.mcps = <<[vars |-> {V}, required |-> r, hasURL |-> u]>>] :
          r \in BOOLEAN, u \in BOOLEAN}
  \cup {[p EXCEPT !.options = [effort |-> "high"]]}

JobLike(j) ==
  {[j EXCEPT !.prompt = t] :
     t \in {<<>>, <<Output("report")>>, <<Artifact("b", "report")>>,
            <<Artifact("", "report")>>, <<Atom("secret", "", "p")>>}}
  \cup {[j EXCEPT !.outputs = o] :
          o \in {<<>>, <<"repo", "repo">>, <<"..">>, <<"message.md", "report">>}}
  \cup {[j EXCEPT !.needs = n] :
          n \in {<<>>, <<"a">>, <<"b">>, <<"a", "b">>, <<"none">>}}
  \cup {[j EXCEPT !.steps = s] : s \in {<<>>, <<Array("pre", <<>>)>>, <<Null("post")>>}}
  \cup {[j EXCEPT !.agents = <<>>]}
  \cup {[j EXCEPT !.agents[1].profile = "nobody"],
        [j EXCEPT !.agents[1].keys = {"harness"}]}
  \cup {[j EXCEPT !.agents[1].amend = p] : p \in ProfileLike(j.agents[1].amend)}

Vary(k) ==
  {[k EXCEPT !.decodes = FALSE], [k EXCEPT !.named = FALSE],
   [k EXCEPT !.params.q.wellNamed = FALSE],
   [k EXCEPT !.params = [q |-> k.params.q]]}
  \cup {[k EXCEPT !.agents.dev = p] :
          p \in ProfileLike(k.agents.dev)
                  \cup {[k.agents.dev EXCEPT !.harness = h] :
                          h \in {"", "codex", "agy", "pi"}}}
  \cup UNION {{[k EXCEPT !.workflow[n] = j] : j \in JobLike(k.workflow[n])} :
                n \in {m \in DOMAIN k.workflow : k.workflow[m].agents # <<>>}}

\* Every argv of one or two short words, written as a line in three ways, and
\* lines that are no argv.
Word == UNION {[1 .. n -> {X, Space, Char("'"), Param("p")}] : n \in 0 .. 2}
Argvs == UNION {[1 .. n -> Word] : n \in 1 .. 2}

Quoted(text) ==
  [quote |-> IF Char("'") \in Range(text) THEN Char("\"") ELSE Char("'"), text |-> text]
Bare(text) ==
  IF text = <<>> \/ Range(text) \cap {Space, Char("'")} # {} THEN Quoted(text)
  ELSE [quote |-> NoQuote, text |-> text]

Pieces(text, way) ==
  CASE way = "quoted" -> <<Quoted(text)>>
    [] way = "mixed" /\ Len(text) = 2 -> <<Quoted(<<text[1]>>), Bare(<<text[2]>>)>>
    [] OTHER -> <<Bare(text)>>

Line(words, way) ==
  [Array("post", words) EXCEPT !.form = "line",
     !.line = LineOf([i \in DOMAIN words |->
                [gap |-> IF i = 1 THEN <<>> ELSE <<Space, Space>>,
                 pieces |-> Pieces(words[i], way)]])]

Unreadable(line) ==
  [Array("post", <<>>) EXCEPT !.form = "line", !.line = line]

Steps ==
  {Line(words, way) : words \in Argvs, way \in {"bare", "quoted", "mixed"}}
  \cup {Null("pre"), Null("post")}
  \cup {Unreadable(l) : l \in {<<>>, <<Space>>, <<X, Char("'"), X>>,
                               <<Char("'"), Char("|"), Char("'")>>,
                               <<X, Char("&&"), X>>}}

\* An empty workflow cannot differ any more, and neither can a file that no
\* longer decodes.
MCKata ==
  {Base, [Base EXCEPT !.workflow = <<>>]}
  \cup UNION {Vary(k) : k \in Vary(Base)}
  \cup {[Base EXCEPT !.workflow.b.steps = <<s>>] : s \in Steps}

\* A value no later pass may split, unquote, refuse or expand again.
Awkward == <<X, Space, Char("'"), Param("q"), Char("|")>>
Flag(p) == [key |-> p, value |-> Awkward]
MCFlags == {<<>>, <<Flag("p")>>, <<Flag("p"), Flag("p")>>, <<Flag("none")>>}
MCVar == {V}
MCNameOrder == <<"a", "b">>

=============================================================================
