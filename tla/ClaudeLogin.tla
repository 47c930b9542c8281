----------------------------- MODULE ClaudeLogin -----------------------------
(***************************************************************************)
(* The host's Claude login, shared by every claude executor of every run.  *)
(* internal/engine/executor.go: link, watchClaudeLogin, pollLogin,         *)
(* syncLogin, keepNewerLogin, mergeLogins, relink, dropCredentials.        *)
(*                                                                         *)
(* A job's HOME links to the host's login file.  Claude Code refreshes a   *)
(* login entry by posting its refresh token, which the server accepts      *)
(* once, and replaces the link by a file with the new token.  The engine   *)
(* notices the file, merges it into the host's and restores the link;      *)
(* nothing locks any of the files, so each system call that reads or       *)
(* writes one is a step.  A token is a version; a later version expires    *)
(* later; 0 is a login Claude Code cleared as dead.                        *)
(***************************************************************************)
EXTENDS Naturals, FiniteSets

CONSTANTS
  Job,         \* the claude executors, of whatever runs
  Entry,       \* login entries: the subscription, the MCP servers
  MaxVersion   \* bound: refreshes of one entry

ASSUME MaxVersionAssumption == MaxVersion \in Nat \ {0}

Version == 0 .. MaxVersion
Login == [Entry -> Version]

VARIABLES
  server,  \* server[e]: the one token of e the server still accepts
  due,     \* entries whose live token is about to expire
  host,    \* the host's login file
  kind,    \* kind[j]: what is at the job's login path: nothing, the link, a file
  file,    \* file[j]: the file's contents, when there is one
  phase,   \* phase[j]: how far the executor is
  pc,      \* pc[j]: where syncLogin is for j, "off" when it is not running
  copy,    \* copy[j]: the refreshed login it read
  merged,  \* merged[j]: the merge it computed
  failed   \* jobs whose last sync failed ("login not returned to the host")

vars == <<server, due, host, kind, file, phase, pc, copy, merged, failed>>

Init ==
  /\ server = [e \in Entry |-> 1]
  /\ due = {}
  /\ host = [e \in Entry |-> 1]
  /\ kind = [j \in Job |-> "none"]
  /\ file = [j \in Job |-> host]
  /\ phase = [j \in Job |-> "idle"]
  /\ pc = [j \in Job |-> "off"]
  /\ copy = [j \in Job |-> host]
  /\ merged = [j \in Job |-> host]
  /\ failed = {}

-----------------------------------------------------------------------------
(* Claude Code and the server.                                             *)

\* Time passes: e's live token is about to expire.  A token just refreshed is
\* good for hours, and the poll that hands it back comes every second: no token
\* comes due while it waits for that (a sync that fails for hours is left out).
Expire(e) ==
  /\ e \notin due
  /\ server[e] < MaxVersion
  /\ \A j \in Job :
       ~(kind[j] = "file" /\ file[j][e] = server[e])
  /\ due' = due \cup {e}
  /\ UNCHANGED <<server, host, kind, file, phase, pc, copy, merged, failed>>

\* A login refreshed at e, by a client that holds login l: the live token is
\* rotated, a spent one is answered with invalid_grant and cleared.
Refreshable(l, e) == l[e] # 0 /\ (e \in due \/ l[e] < server[e])
Refreshed(l, e) ==
  [l EXCEPT ![e] = IF l[e] = server[e] THEN server[e] + 1 ELSE 0]

Rotate(l, e) ==
  IF l[e] = server[e]
    THEN server' = [server EXCEPT ![e] = @ + 1] /\ due' = due \ {e}
    ELSE UNCHANGED <<server, due>>

\* What j's executor reads: its file, or the host's through the link.
Reads(j) == IF kind[j] = "file" THEN file[j] ELSE host

ExecutorRefreshes(j, e) ==
  /\ phase[j] = "running"
  /\ Refreshable(Reads(j), e)
  /\ Rotate(Reads(j), e)
  /\ file' = [file EXCEPT ![j] = Refreshed(Reads(j), e)]
  /\ kind' = [kind EXCEPT ![j] = "file"]
  /\ UNCHANGED <<host, phase, pc, copy, merged, failed>>

\* The operator's own Claude Code, on the host's file.
HostRefreshes(e) ==
  /\ Refreshable(host, e)
  /\ Rotate(host, e)
  /\ host' = Refreshed(host, e)
  /\ UNCHANGED <<kind, file, phase, pc, copy, merged, failed>>

-----------------------------------------------------------------------------
(* The engine.                                                             *)

\* prepareHome links the login in and the executor starts under the watch.
Start(j) ==
  /\ phase[j] = "idle"
  /\ phase' = [phase EXCEPT ![j] = "running"]
  /\ kind' = [kind EXCEPT ![j] = "link"]
  /\ UNCHANGED <<server, due, host, file, pc, copy, merged, failed>>

\* The executor and its group are gone.
ExecutorEnds(j) ==
  /\ phase[j] = "running"
  /\ phase' = [phase EXCEPT ![j] = "ended"]
  /\ UNCHANGED <<server, due, host, kind, file, pc, copy, merged, failed>>

\* pollLogin's tick: a file in the link's place starts a sync.
Poll(j) ==
  /\ phase[j] = "running"
  /\ pc[j] = "off"
  /\ kind[j] = "file"
  /\ pc' = [pc EXCEPT ![j] = "read-job"]
  /\ UNCHANGED <<server, due, host, kind, file, phase, copy, merged, failed>>

\* Mutant: the watch is stopped and its last look forgotten.
StopWithoutLastLook(j) ==
  /\ phase[j] = "ended"
  /\ pc[j] = "off"
  /\ phase' = [phase EXCEPT ![j] = "last-look"]
  /\ UNCHANGED <<server, due, host, kind, file, pc, copy, merged, failed>>

\* stopLoginWatch: waits for the watch, then syncs once more.
Stop(j) ==
  /\ phase[j] = "ended"
  /\ pc[j] = "off"
  /\ phase' = [phase EXCEPT ![j] = "last-look"]
  /\ pc' = [pc EXCEPT ![j] = IF kind[j] = "file" THEN "read-job" ELSE "off"]
  /\ UNCHANGED <<server, due, host, kind, file, copy, merged, failed>>

\* keepNewerLogin reads the job's file ...
ReadJob(j) ==
  /\ pc[j] = "read-job"
  /\ copy' = [copy EXCEPT ![j] = file[j]]
  /\ pc' = [pc EXCEPT ![j] = "read-host"]
  /\ UNCHANGED <<server, due, host, kind, file, phase, merged, failed>>

\* Mutant: the job's login is the newer one, whatever became of it there.
mergeReplaces(h, l) == l

\* ... and the host's, and merges them: each entry that expires later.
mergeLogins(h, l) == [e \in Entry |-> IF l[e] > h[e] THEN l[e] ELSE h[e]]

ReadHost(j) ==
  /\ pc[j] = "read-host"
  /\ LET m == mergeLogins(host, copy[j])
     IN  /\ merged' = [merged EXCEPT ![j] = m]
         /\ pc' = [pc EXCEPT ![j] = IF m # host THEN "install" ELSE "relink"]
  /\ UNCHANGED <<server, due, host, kind, file, phase, copy, failed>>

\* replaceFile: the merge becomes the host's login.
Install(j) ==
  /\ pc[j] = "install"
  /\ host' = merged[j]
  /\ pc' = [pc EXCEPT ![j] = "relink"]
  /\ UNCHANGED <<server, due, kind, file, phase, copy, merged, failed>>

\* relink: the link is back in one rename, whatever the file holds by now.
Relink(j) ==
  /\ pc[j] = "relink"
  /\ kind' = [kind EXCEPT ![j] = "link"]
  /\ pc' = [pc EXCEPT ![j] = "off"]
  /\ failed' = failed \ {j}
  /\ UNCHANGED <<server, due, host, file, phase, copy, merged>>

\* A read, a write or a rename fails: the file stays for the next tick.
SyncFails(j) ==
  /\ pc[j] # "off"
  /\ pc' = [pc EXCEPT ![j] = "off"]
  /\ failed' = failed \cup {j}
  /\ UNCHANGED <<server, due, host, kind, file, phase, copy, merged>>

\* Mutant: the deferred calls in the other order.
DropBeforeStop(j) ==
  /\ phase[j] = "ended"
  /\ kind' = [kind EXCEPT ![j] = "none"]
  /\ phase' = [phase EXCEPT ![j] = "over"]
  /\ UNCHANGED <<server, due, host, file, pc, copy, merged, failed>>

\* dropCredentials, deferred first and so run last.
Drop(j) ==
  /\ phase[j] = "last-look"
  /\ pc[j] = "off"
  /\ kind' = [kind EXCEPT ![j] = "none"]
  /\ phase' = [phase EXCEPT ![j] = "over"]
  /\ UNCHANGED <<server, due, host, file, pc, copy, merged, failed>>

\* Or it cannot remove what is there, and logs the credential it left.
DropFails(j) ==
  /\ phase[j] = "last-look"
  /\ pc[j] = "off"
  /\ phase' = [phase EXCEPT ![j] = "leaked"]
  /\ UNCHANGED <<server, due, host, kind, file, pc, copy, merged, failed>>

Sync(j) == ReadJob(j) \/ ReadHost(j) \/ Install(j) \/ Relink(j) \/ SyncFails(j)

\* Every job is over: only the host goes on.
Over == (\A j \in Job : phase[j] \in {"over", "leaked"}) /\ UNCHANGED vars

Next ==
  \/ \E e \in Entry : Expire(e) \/ HostRefreshes(e)
  \/ \E j \in Job :
       \/ \E e \in Entry : ExecutorRefreshes(j, e)
       \/ Start(j) \/ ExecutorEnds(j) \/ Poll(j) \/ Stop(j) \/ Sync(j)
       \/ Drop(j) \/ DropFails(j)
  \/ Over

Spec == Init /\ [][Next]_vars

-----------------------------------------------------------------------------
(* What the hand-back owes.                                                *)

\* A job's login is there while the job is and no longer: its executor always
\* finds something at the login path, a relink in flight included (relink: "so
\* a reader never finds dst missing"); once the credentials are dropped no sync
\* puts a link or a file back, and what could not be dropped none writes.
LoginLastsAsLongAsTheJob ==
  \A j \in Job :
    /\ phase[j] \in {"running", "ended", "last-look"} => kind[j] # "none"
    /\ phase[j] = "over" => kind[j] = "none"
    /\ phase[j] \in {"over", "leaked"} => pc[j] = "off"

\* With one rotating entry the only token the server still takes is never
\* thrown away: it is the host's, or in the file of a job that will hand it
\* back, whoever refreshed, polled, failed and ended in whatever order -
\* unless the very last sync of a job failed, which is logged.
LiveTokenIsKept ==
  \A e \in Entry :
    \/ host[e] = server[e]
    \/ \E j \in Job :
         kind[j] = "file" /\ file[j][e] = server[e] /\ phase[j] # "leaked"
    \/ \E j \in failed : phase[j] \in {"over", "leaked"}

\* With one rotating entry no sync puts an older token, or a cleared one, in
\* the place of the host's, though host and job are read before it and the
\* host may have been written since.
InstallsNeverDowngrade ==
  [][\A j \in Job : Install(j) => \A e \in Entry : host'[e] >= host[e]]_vars

-----------------------------------------------------------------------------
(* What a comment says, and the code does not do with several entries.     *)

\* executor.go:905, on mergeLogins: "Whatever else host holds stays, so a
\* login the host gained while the job ran survives."
HostLoginsSurvive ==
  [][\A j \in Job : Install(j) =>
       \A e \in Entry : host[e] = server[e] => host'[e] = host[e]]_vars

=============================================================================
