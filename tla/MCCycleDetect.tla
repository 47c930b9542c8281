---------------------------- MODULE MCCycleDetect ----------------------------
(* Every graph on three jobs that state up to two needs each, themselves,     *)
(* each other or the same job twice among them.                               *)
EXTENDS CycleDetect

CONSTANTS a, b, c

MCJob == {a, b, c}
MCOrder == <<a, b, c>>
MCNeedLists == UNION {[1 .. n -> MCJob] : n \in 0 .. 2}

=============================================================================
