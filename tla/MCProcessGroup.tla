--------------------------- MODULE MCProcessGroup ---------------------------
(* The leader and two children it can leave behind, nest or let escape.      *)
EXTENDS ProcessGroup

CONSTANTS leader, child, grandchild

MCProc == {leader, child, grandchild}

=============================================================================
