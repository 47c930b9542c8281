--------------------------- MODULE MCRunLifecycle ---------------------------
(* Two runs side by side, two run ids either of which an earlier run may     *)
(* hold, two versions of the inputs, one of which prepare accepts.           *)
EXTENDS RunLifecycle, TLC

CONSTANTS r1, r2, i1, i2

MCRun == {r1, r2}
MCId == {i1, i2}
MCSymmetry == Permutations(MCRun) \cup Permutations(MCId)

=============================================================================
