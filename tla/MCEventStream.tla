---------------------------- MODULE MCEventStream ----------------------------
(* One tool, two texts: enough to tell a preamble from an answer.            *)
EXTENDS EventStream

CONSTANTS tool, a, b

MCTool == {tool}
MCText == {a, b}

=============================================================================
