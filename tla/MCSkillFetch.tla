---------------------------- MODULE MCSkillFetch ----------------------------
(* Two executors; a local skill, two tree URLs, one of which ends in the     *)
(* same directory name as the local one; lists with a repeated entry.        *)
EXTENDS SkillFetch

CONSTANTS local, remote, other, one, two

MCEntry == {local, remote, other}
MCRemote == {remote, other}
MCName == {one, two}
MCNameOf == [e \in MCEntry |-> IF e = remote THEN two ELSE one]
MCSkillLists ==
  {<<>>, <<remote>>, <<local, remote>>, <<remote, remote>>, <<remote, other>>}

=============================================================================
