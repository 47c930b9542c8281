------------------------------- MODULE KataRun -------------------------------
(***************************************************************************)
(* What one run of a kata promises, and nothing of how it keeps it.         *)
(*                                                                         *)
(* A job is pending until it starts, starts only once every job it needs   *)
(* is done, runs once, and ends done or parked.  When no job is running    *)
(* any more the run may state its verdict: succeeded exactly when every    *)
(* job is done.  After that nothing changes.  The Scheduler module is      *)
(* shown to implement this.                                                *)
(***************************************************************************)

CONSTANTS
  Job,      \* the jobs of the workflow
  NeedsOf   \* NeedsOf[j]: the set of jobs that j needs

VARIABLES
  status,   \* status[j]: where job j is
  verdict   \* the run's stated outcome, "none" before it is stated

abstractVars == <<status, verdict>>

Init ==
  /\ status = [j \in Job |-> "pending"]
  /\ verdict = "none"

\* A job is released by its needs and by nothing else.
Start(j) ==
  /\ verdict = "none"
  /\ status[j] = "pending"
  /\ \A n \in NeedsOf[j] : status[n] = "done"
  /\ status' = [status EXCEPT ![j] = "running"]
  /\ UNCHANGED verdict

\* A job that ran ends one way or the other, once.
Finish(j) ==
  /\ verdict = "none"
  /\ status[j] = "running"
  /\ \E s \in {"done", "parked"} : status' = [status EXCEPT ![j] = s]
  /\ UNCHANGED verdict

\* The verdict is about a run at rest.
State ==
  /\ verdict = "none"
  /\ \A j \in Job : status[j] # "running"
  /\ verdict' = IF \A j \in Job : status[j] = "done"
                  THEN "succeeded" ELSE "parked"
  /\ UNCHANGED status

Next == State \/ \E j \in Job : Start(j) \/ Finish(j)

Spec == Init /\ [][Next]_abstractVars

=============================================================================
