----------------------------- MODULE MCScheduler -----------------------------
(* A diamond with everything a job can hold, small enough for TLC: fetch     *)
(* has a pre-step and no executor, left has a post-step that can take its    *)
(* output back, right an executor and an output, and join, held to a         *)
(* post-step alone, waits for left and then right.                           *)
EXTENDS Scheduler

CONSTANTS fetch, left, right, join, out

MCJob == {fetch, left, right, join}
MCOutput == {out}

MCNeeds == [j \in MCJob |->
  CASE j = fetch -> <<>>
    [] j \in {left, right} -> <<fetch>>
    [] j = join -> <<left, right>>]

MCPreSteps == [j \in MCJob |-> IF j = fetch THEN 1 ELSE 0]
MCPostSteps == [j \in MCJob |-> IF j \in {left, join} THEN 1 ELSE 0]
MCAgent == {left, right}
MCOutputs == [j \in MCJob |-> IF j = join THEN <<>> ELSE <<out>>]

=============================================================================
