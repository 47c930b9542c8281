----------------------------- MODULE EventStream -----------------------------
(***************************************************************************)
(* The executor's stdout as the engine summarises it: chunks of any size   *)
(* are cut into lines, each line is one ACP message, and what is kept is   *)
(* the agent's final message and the tools still open.                     *)
(* internal/engine/executor.go: eventStream (Write, flush, handle, update, *)
(* appendMessage, track, maybeEnd, warnGarbled).                           *)
(*                                                                         *)
(* A line is three units - two halves of its JSON and its newline - so a   *)
(* chunk, or the end of the stream, can fall inside it.  Usage, versions   *)
(* and thoughts, which only the log sees, are lines of kind "other".       *)
(***************************************************************************)
EXTENDS Naturals, Sequences, SequencesExt

CONSTANTS
  Tool,      \* tool call ids
  Text,      \* texts of message chunks
  MaxLines   \* bound: lines in a transcript

ASSUME MaxLinesAssumption == MaxLines \in Nat

\* What a line can be.  A tool_call or a tool_call_update is terminal when its
\* status is completed or failed.
Line ==
  [kind : {"tool_call", "tool_call_update"}, tool : Tool, terminal : BOOLEAN]
    \cup [kind : {"agent_message_chunk"}, text : Text]
    \cup [kind : {"other", "garbled"}]

VARIABLES
  lines,    \* the transcript the executor is writing
  pos,      \* units of it that reached Write
  partial,  \* the units of a line not yet ended
  message,  \* the texts accumulated
  tools,    \* the open tool calls (the keys of the tools map)
  warned,   \* a line that is not JSON was warned about (garbled)
  flushed   \* flush was called

streamVars == <<lines, pos, partial, message, tools, warned, flushed>>

\* Unit p of the transcript: part 1 or 2 of a line's JSON, or 3, its newline.
Unit(p) == <<((p - 1) \div 3) + 1, ((p - 1) % 3) + 1>>
IsLineEnd(u) == u[2] = 3
Size == 3 * Len(lines)

StreamInit ==
  /\ lines \in BoundedSeq(Line, MaxLines)
  /\ pos = 0
  /\ partial = <<>>
  /\ message = <<>>
  /\ tools = {}
  /\ warned = FALSE
  /\ flushed = FALSE

-----------------------------------------------------------------------------
(* What a line does to the summary, a record of message, tools and warned.  *)

Summary == [message |-> message, tools |-> tools, warned |-> warned]

\* Mutant: any tool update discards the text (the bug of commit 3ac4917).
updateResetsAlways(s, u) ==
  CASE u.kind \in {"tool_call", "tool_call_update"} ->
         [s EXCEPT !.message = <<>>,
                   !.tools = IF u.terminal THEN @ \ {u.tool} ELSE @ \cup {u.tool}]
    [] u.kind = "agent_message_chunk" -> [s EXCEPT !.message = Append(@, u.text)]
    [] OTHER -> s

\* Mutant: a tool that ended is tracked again.
updateTracksEnded(s, u) ==
  CASE u.kind \in {"tool_call", "tool_call_update"} ->
         [s EXCEPT !.message = IF u.kind = "tool_call" \/ ~u.terminal
                                 THEN <<>> ELSE @,
                   !.tools = @ \cup {u.tool}]
    [] u.kind = "agent_message_chunk" -> [s EXCEPT !.message = Append(@, u.text)]
    [] OTHER -> s

\* A tool call always makes the text before it a preamble, an update only
\* while the tool is unfinished; track opens a tool, maybeEnd closes it.
update(s, u) ==
  CASE u.kind \in {"tool_call", "tool_call_update"} ->
         [s EXCEPT !.message = IF u.kind = "tool_call" \/ ~u.terminal
                                 THEN <<>> ELSE @,
                   !.tools = IF u.terminal THEN @ \ {u.tool} ELSE @ \cup {u.tool}]
    [] u.kind = "agent_message_chunk" -> [s EXCEPT !.message = Append(@, u.text)]
    [] OTHER -> s

\* The two halves of one line are JSON; half a line or a mixture is not.
IsWhole(raw) == Len(raw) = 2 /\ raw[1][1] = raw[2][1] /\ raw[1][2] < raw[2][2]

\* A blank line is skipped, one that is not JSON is warned about once.
handle(s, raw) ==
  IF raw = <<>> THEN s
  ELSE IF ~IsWhole(raw) \/ lines[raw[1][1]].kind = "garbled"
    THEN [s EXCEPT !.warned = TRUE]
  ELSE update(s, lines[raw[1][1]])

Became(s) ==
  /\ message' = s.message
  /\ tools' = s.tools
  /\ warned' = s.warned

-----------------------------------------------------------------------------
(* The writer.                                                             *)

LineEnds(buf) == {i \in DOMAIN buf : IsLineEnd(buf[i])}
FirstEnd(buf) == CHOOSE i \in LineEnds(buf) : \A k \in LineEnds(buf) : i <= k

\* Mutant: the newline stays at the head of what follows it.
RoundKeepsNewline(w) ==
  IF LineEnds(w.partial) = {} THEN w
  ELSE LET end == FirstEnd(w.partial)
       IN  [summary |-> handle(w.summary, SubSeq(w.partial, 1, end - 1)),
            partial |-> SubSeq(w.partial, end, Len(w.partial))]

\* One round of Write's loop: the first line is cut off and handled.
Round(w) ==
  IF LineEnds(w.partial) = {} THEN w
  ELSE LET end == FirstEnd(w.partial)
       IN  [summary |-> handle(w.summary, SubSeq(w.partial, 1, end - 1)),
            partial |-> SubSeq(w.partial, end + 1, Len(w.partial))]

\* The loop, by the rounds it has gone.  A round cuts something off or changes
\* nothing, so as many as there are units are enough.
Loop(s, buf) ==
  LET after[n \in 0 .. Len(buf)] ==
        IF n = 0 THEN [summary |-> s, partial |-> buf] ELSE Round(after[n - 1])
  IN  after

\* Write: a chunk of n units arrives.
Write(n) ==
  /\ ~flushed
  /\ pos + n <= Size
  /\ LET buf == partial \o [i \in 1 .. n |-> Unit(pos + i)]
         end == Loop(Summary, buf)[Len(buf)]
     IN  Became(end.summary) /\ partial' = end.partial
  /\ pos' = pos + n
  /\ UNCHANGED <<lines, flushed>>

\* flush: the executor is gone, wherever its output stopped.
Flush ==
  /\ ~flushed
  /\ Became(handle(Summary, partial))
  /\ partial' = <<>>
  /\ flushed' = TRUE
  /\ UNCHANGED <<lines, pos>>

StreamOver == flushed /\ UNCHANGED streamVars

StreamNext == (\E n \in 1 .. 3 * MaxLines : Write(n)) \/ Flush \/ StreamOver

StreamSpec == StreamInit /\ [][StreamNext]_streamVars

-----------------------------------------------------------------------------
(* What the summary owes, stated on the transcript alone.                  *)

\* Every variable keeps its type.
StreamTypeOK ==
  /\ lines \in Seq(Line)
  /\ pos \in 0 .. Size
  /\ partial \in Seq((1 .. Len(lines)) \X {1, 2})
  /\ Len(partial) < 3
  /\ message \in Seq(Text)
  /\ tools \subseteq Tool
  /\ warned \in BOOLEAN /\ flushed \in BOOLEAN

\* Lines that arrived whole: with their newline or, once flushed, without.
Arrived == IF flushed THEN (pos + 1) \div 3 ELSE pos \div 3

IsToolCall(l) == l.kind = "tool_call"
IsToolUpdate(l) == l.kind = "tool_call_update"
MakesPreamble(l) == IsToolCall(l) \/ (IsToolUpdate(l) /\ ~l.terminal)

\* The places of the text no line up to the n-th makes a preamble.
FinalText(n) ==
  {i \in 1 .. n :
     /\ lines[i].kind = "agent_message_chunk"
     /\ \A k \in i + 1 .. n : ~MakesPreamble(lines[k])}

\* m is the text at these places of the transcript, in its order.
IsTextAt(m, places) ==
  \E place \in [1 .. Len(m) -> places] :
    /\ \A i, k \in 1 .. Len(m) : i < k => place[i] < place[k]
    /\ \A p \in places : \E i \in 1 .. Len(m) : place[i] = p
    /\ \A i \in 1 .. Len(m) : m[i] = lines[place[i]].text

\* The message is the agent's text since the last tool call that started or
\* was still running, however the stream was chunked and wherever it stopped;
\* completions reported after the answer (agy) do not erase it.
MessageIsFinal == IsTextAt(message, FinalText(Arrived))

\* The tools whose last report in the first n lines is not their end.
IsAbout(l, t) == (IsToolCall(l) \/ IsToolUpdate(l)) /\ l.tool = t

Unfinished(n) ==
  {t \in Tool :
     \E i \in 1 .. n :
       /\ IsAbout(lines[i], t) /\ ~lines[i].terminal
       /\ \A k \in i + 1 .. n : ~IsAbout(lines[k], t)}

\* What is reported beside the message depends on the transcript alone, not on
\* where chunks end: a tool is open exactly when the last thing said of it was
\* not its end, and the warning is about a line that is not JSON, or about the
\* one the executor was cut off in.
ReportsDependOnTheLines ==
  /\ tools = Unfinished(Arrived)
  /\ warned <=>
       \/ \E i \in 1 .. Arrived : lines[i].kind = "garbled"
       \/ flushed /\ pos % 3 = 1

=============================================================================
