---------------------------- MODULE MCClaudeLogin ----------------------------
(* Two executors and the host, sharing one login entry or two.               *)
EXTENDS ClaudeLogin

CONSTANTS left, right, subscription, mcp

MCJobs == {left, right}
MCOneJob == {left}
MCOneEntry == {subscription}
MCTwoEntries == {subscription, mcp}

=============================================================================
