------------------------- MODULE ClaudeLoginProofs -------------------------
(* For any number of executors: that a job's login is there as long as the   *)
(* job, and, with one rotating entry, that the live token is never thrown    *)
(* away and no sync puts an older one in the place of the host's.            *)
EXTENDS ClaudeLogin, TLAPS

-----------------------------------------------------------------------------
(* Why it holds: the inductive invariant.                                  *)

Typed ==
  /\ server \in Login /\ host \in Login /\ due \subseteq Entry
  /\ \A e \in due : server[e] < MaxVersion
  /\ kind \in [Job -> {"none", "link", "file"}]
  /\ file \in [Job -> Login] /\ copy \in [Job -> Login] /\ merged \in [Job -> Login]
  /\ phase \in [Job -> {"idle", "running", "ended", "last-look", "over", "leaked"}]
  /\ pc \in [Job -> {"off", "read-job", "read-host", "install", "relink"}]
  /\ failed \subseteq Job

\* A sync is of a file, and ends before the job does; the last one left a file
\* only by failing.
PhaseInv(j) ==
  /\ phase[j] = "idle" => kind[j] = "none" /\ pc[j] = "off"
  /\ phase[j] \in {"running", "ended", "last-look"} => kind[j] # "none"
  /\ phase[j] = "over" => kind[j] = "none"
  /\ phase[j] \in {"over", "leaked"} => pc[j] = "off"
  /\ pc[j] # "off" => kind[j] = "file"
  /\ phase[j] = "last-look" /\ pc[j] = "off" /\ kind[j] = "file" => j \in failed

IInv == Typed /\ \A j \in Job : PhaseInv(j)

-----------------------------------------------------------------------------

(* A client's refresh gives it a login.                                      *)
LEMMA RefreshedIsALogin ==
  ASSUME Typed, NEW l \in Login, NEW e \in Entry, Refreshable(l, e), Rotate(l, e)
  PROVE  /\ Refreshed(l, e) \in Login
         /\ server' \in Login /\ due' \subseteq due
         /\ \A x \in due' : server'[x] < MaxVersion
<1> USE MaxVersionAssumption DEF Login, Version, Typed
<1>1. l[e] \in Nat /\ server[e] \in Nat /\ MaxVersion \in Nat
  OBVIOUS
<1>2. CASE l[e] = server[e]
  <2>1. e \in due /\ server[e] + 1 \in Version
    BY <1>1, <1>2 DEF Refreshable
  <2>2. server' = [server EXCEPT ![e] = server[e] + 1] /\ due' = due \ {e}
    BY <1>2 DEF Rotate
  <2>3. Refreshed(l, e) = [l EXCEPT ![e] = server[e] + 1]
    BY <1>2 DEF Refreshed
  <2> QED BY <2>1, <2>2, <2>3
<1>3. CASE l[e] # server[e]
  <2>1. Refreshed(l, e) = [l EXCEPT ![e] = 0] /\ UNCHANGED <<server, due>>
    BY <1>3 DEF Refreshed, Rotate
  <2> QED BY <1>1, <2>1
<1> QED BY <1>2, <1>3

LEMMA MergeIsALogin ==
  ASSUME NEW h \in Login, NEW l \in Login
  PROVE  mergeLogins(h, l) \in Login
BY DEF mergeLogins, Login

LEMMA InitIInv == Init => IInv
<1> SUFFICES ASSUME Init PROVE IInv
  OBVIOUS
<1>1. server \in Login /\ host \in Login
  BY MaxVersionAssumption DEF Init, Login, Version
<1>2. Typed
  BY <1>1 DEF Init, Typed
<1>3. ASSUME NEW j \in Job PROVE PhaseInv(j)
  BY DEF Init, PhaseInv
<1> QED BY <1>2, <1>3 DEF IInv

JobStep(j) ==
  \/ \E e \in Entry : ExecutorRefreshes(j, e)
  \/ Start(j) \/ ExecutorEnds(j) \/ Poll(j) \/ Stop(j) \/ Sync(j)
  \/ Drop(j) \/ DropFails(j)

(* A job's step is about its own HOME and its own sync.                      *)
SameElsewhere(j) ==
  \A k \in Job \ {j} :
    /\ kind'[k] = kind[k] /\ file'[k] = file[k] /\ phase'[k] = phase[k]
    /\ pc'[k] = pc[k] /\ copy'[k] = copy[k] /\ merged'[k] = merged[k]
    /\ k \in failed' <=> k \in failed

LEMMA JobKeepsIInv ==
  ASSUME IInv, NEW j \in Job, JobStep(j)
  PROVE  IInv' /\ SameElsewhere(j)
<1>0. Typed /\ PhaseInv(j)
  BY DEF IInv
<1>1. ASSUME Typed', SameElsewhere(j), PhaseInv(j)' PROVE IInv' /\ SameElsewhere(j)
  <2>1. ASSUME NEW k \in Job \ {j} PROVE PhaseInv(k)'
    BY <1>1 DEF IInv, PhaseInv, SameElsewhere
  <2> QED BY <1>1, <2>1 DEF IInv
<1> USE DEF Typed
<1>2. ASSUME NEW e \in Entry, ExecutorRefreshes(j, e)
      PROVE  IInv' /\ SameElsewhere(j)
  <2>1. Reads(j) \in Login
    BY <1>0 DEF Reads
  <2>2. /\ Refreshed(Reads(j), e) \in Login
        /\ server' \in Login /\ due' \subseteq due
        /\ \A x \in due' : server'[x] < MaxVersion
    BY <1>0, <1>2, <2>1, RefreshedIsALogin DEF ExecutorRefreshes
  <2>3. /\ file' = [file EXCEPT ![j] = Refreshed(Reads(j), e)]
        /\ kind' = [kind EXCEPT ![j] = "file"] /\ phase[j] = "running"
        /\ UNCHANGED <<host, phase, pc, copy, merged, failed>>
    BY <1>2 DEF ExecutorRefreshes
  <2>4. Typed' /\ SameElsewhere(j)
    BY <1>0, <2>2, <2>3 DEF SameElsewhere
  <2>5. PhaseInv(j)'
    BY <1>0, <2>3 DEF PhaseInv
  <2> QED BY <1>1, <2>4, <2>5
<1>3. CASE Start(j)
  <2>1. Typed' /\ SameElsewhere(j)
    BY <1>0, <1>3 DEF Start, SameElsewhere
  <2> QED BY <1>0, <1>1, <1>3, <2>1 DEF Start, PhaseInv
<1>4. CASE ExecutorEnds(j)
  <2>1. Typed' /\ SameElsewhere(j)
    BY <1>0, <1>4 DEF ExecutorEnds, SameElsewhere
  <2> QED BY <1>0, <1>1, <1>4, <2>1 DEF ExecutorEnds, PhaseInv
<1>5. CASE Poll(j) \/ Stop(j)
  <2>1. Typed' /\ SameElsewhere(j)
    BY <1>0, <1>5 DEF Poll, Stop, SameElsewhere
  <2> QED BY <1>0, <1>1, <1>5, <2>1 DEF Poll, Stop, PhaseInv
<1>6. CASE ReadJob(j)
  <2>1. Typed' /\ SameElsewhere(j)
    BY <1>0, <1>6 DEF ReadJob, SameElsewhere
  <2> QED BY <1>0, <1>1, <1>6, <2>1 DEF ReadJob, PhaseInv
<1>7. CASE ReadHost(j)
  <2> DEFINE m == mergeLogins(host, copy[j])
  <2>1. m \in Login
    BY <1>0, MergeIsALogin
  <2>2. /\ merged' = [merged EXCEPT ![j] = m]
        /\ pc' = [pc EXCEPT ![j] = IF m # host THEN "install" ELSE "relink"]
        /\ UNCHANGED <<server, due, host, kind, file, phase, copy, failed>>
        /\ pc[j] = "read-host"
    BY <1>7 DEF ReadHost
  <2> HIDE DEF m
  <2>3. Typed' /\ SameElsewhere(j)
    BY <1>0, <2>1, <2>2 DEF SameElsewhere
  <2> QED BY <1>0, <1>1, <2>2, <2>3 DEF PhaseInv
<1>8. CASE Install(j)
  <2>1. Typed' /\ SameElsewhere(j)
    BY <1>0, <1>8 DEF Install, SameElsewhere
  <2> QED BY <1>0, <1>1, <1>8, <2>1 DEF Install, PhaseInv
<1>9. CASE Relink(j) \/ SyncFails(j)
  <2>1. Typed' /\ SameElsewhere(j)
    BY <1>0, <1>9 DEF Relink, SyncFails, SameElsewhere
  <2> QED BY <1>0, <1>1, <1>9, <2>1 DEF Relink, SyncFails, PhaseInv
<1>10. CASE Drop(j) \/ DropFails(j)
  <2>1. Typed' /\ SameElsewhere(j)
    BY <1>0, <1>10 DEF Drop, DropFails, SameElsewhere
  <2> QED BY <1>0, <1>1, <1>10, <2>1 DEF Drop, DropFails, PhaseInv
<1> QED BY <1>2, <1>3, <1>4, <1>5, <1>6, <1>7, <1>8, <1>9, <1>10 DEF JobStep, Sync

LEMMA NextIInv == IInv /\ [Next]_vars => IInv'
<1> SUFFICES ASSUME IInv, [Next]_vars PROVE IInv'
  OBVIOUS
<1>1. CASE Over \/ UNCHANGED vars
  BY <1>1 DEF Over, vars, IInv, Typed, PhaseInv
<1>2. ASSUME NEW e \in Entry, Expire(e) PROVE IInv'
  BY <1>2 DEF Expire, IInv, Typed, PhaseInv
<1>3. ASSUME NEW e \in Entry, HostRefreshes(e) PROVE IInv'
  <2>1. /\ host' \in Login /\ server' \in Login /\ due' \subseteq due
        /\ \A x \in due' : server'[x] < MaxVersion
    BY <1>3, RefreshedIsALogin DEF HostRefreshes, IInv, Typed
  <2> QED BY <1>3, <2>1 DEF HostRefreshes, IInv, Typed, PhaseInv
<1>4. ASSUME NEW j \in Job, JobStep(j) PROVE IInv'
  BY <1>4, JobKeepsIInv
<1> QED BY <1>1, <1>2, <1>3, <1>4 DEF Next, JobStep

(* What is at each job's login path is what the phases of its executor and of *)
(* its sync allow, whatever the host and other executors do in between.      *)
THEOREM Invariance == Spec => []IInv
BY InitIInv, NextIInv, PTL DEF Spec

(* A job's login is there while the job is and no longer, whatever fails.    *)
THEOREM LoginsLast == Spec => []LoginLastsAsLongAsTheJob
<1>1. IInv => LoginLastsAsLongAsTheJob
  BY DEF IInv, PhaseInv, LoginLastsAsLongAsTheJob
<1> QED BY <1>1, Invariance, PTL

-----------------------------------------------------------------------------
(* With one rotating entry: a refreshed file holds the live token until the  *)
(* sync has it back, for none comes due meanwhile; a cleared one stays so.   *)

LoginInv(e, j) ==
  /\ kind[j] = "file" => file[j][e] \in {0, server[e]}
  /\ kind[j] = "file" /\ file[j][e] = server[e] => e \notin due
  /\ pc[j] \in {"read-host", "install", "relink"} => copy[j][e] = file[j][e]
  /\ pc[j] = "install" => merged[j][e] = server[e] /\ file[j][e] = server[e]
  /\ pc[j] = "relink" => file[j][e] = 0 \/ host[e] = server[e]

TokenInv(e) ==
  /\ server[e] # 0 /\ host[e] <= server[e]
  /\ \A j \in Job : LoginInv(e, j)
  /\ LiveTokenIsKept

LEMMA InitTokens ==
  ASSUME NEW e, Entry = {e}, Init
  PROVE  TokenInv(e)
<1>1. server[e] = 1 /\ host[e] = 1
  BY DEF Init
<1>2. ASSUME NEW j \in Job PROVE LoginInv(e, j)
  BY DEF Init, LoginInv
<1>3. LiveTokenIsKept
  BY <1>1 DEF LiveTokenIsKept
<1> QED BY <1>1, <1>2, <1>3 DEF TokenInv

(* The live token is rotated only when no file holds it: the client that     *)
(* rotates it reads it from the host's file, and every job's file is spent.  *)
LEMMA RotatedFromTheHost ==
  ASSUME NEW e, Entry = {e}, IInv, TokenInv(e), e \in due, NEW k \in Job
  PROVE  /\ kind[k] = "file" => file[k][e] = 0
         /\ pc[k] # "install"
         /\ pc[k] \in {"read-host", "relink"} => copy[k][e] = 0 /\ file[k][e] = 0
<1>1. LoginInv(e, k) /\ PhaseInv(k)
  BY DEF IInv, TokenInv
<1>2. kind[k] = "file" => file[k][e] = 0
  BY <1>1 DEF LoginInv
<1> QED BY <1>1, <1>2 DEF LoginInv, PhaseInv, TokenInv

LEMMA HostKeepsTokens ==
  ASSUME NEW e, Entry = {e}, IInv, TokenInv(e), HostRefreshes(e)
  PROVE  TokenInv(e)'
<1>0. /\ server \in [Entry -> Nat] /\ host \in [Entry -> Nat] /\ e \in Entry
      /\ UNCHANGED <<kind, file, phase, pc, copy, merged, failed>>
  BY MaxVersionAssumption DEF IInv, Typed, Login, Version, HostRefreshes
<1>1. CASE host[e] = server[e]
  <2>1. e \in due /\ due' = due \ {e}
    BY <1>0, <1>1 DEF HostRefreshes, Refreshable, Rotate
  <2>2. host'[e] = server[e] + 1 /\ server'[e] = server[e] + 1
    BY <1>0, <1>1 DEF HostRefreshes, Refreshed, Rotate
  <2>3. ASSUME NEW k \in Job PROVE LoginInv(e, k)'
    BY <1>0, <2>1, <2>2, <2>3, RotatedFromTheHost DEF LoginInv, IInv, PhaseInv
  <2>4. LiveTokenIsKept'
    BY <2>2 DEF LiveTokenIsKept
  <2>5. server'[e] # 0 /\ host'[e] <= server'[e]
    BY <1>0, <2>2
  <2> QED BY <2>3, <2>4, <2>5 DEF TokenInv
<1>2. CASE host[e] # server[e]
  <2>1. host'[e] = 0 /\ UNCHANGED <<server, due>>
    BY <1>0, <1>2 DEF HostRefreshes, Refreshed, Rotate
  <2>2. ASSUME NEW k \in Job PROVE LoginInv(e, k)'
    BY <1>0, <1>2, <2>1 DEF TokenInv, LoginInv
  <2>3. LiveTokenIsKept'
    BY <1>0, <1>2, <2>1 DEF TokenInv, LiveTokenIsKept
  <2>4. server'[e] # 0 /\ host'[e] <= server'[e]
    BY <1>0, <2>1 DEF TokenInv
  <2> QED BY <2>2, <2>3, <2>4 DEF TokenInv
<1> QED BY <1>1, <1>2

LEMMA ExecutorKeepsTokens ==
  ASSUME NEW e, Entry = {e}, IInv, TokenInv(e),
         NEW j \in Job, ExecutorRefreshes(j, e)
  PROVE  TokenInv(e)'
<1>0. /\ server \in [Entry -> Nat] /\ host \in [Entry -> Nat] /\ e \in Entry
      /\ file \in [Job -> [Entry -> Nat]] /\ Reads(j) \in [Entry -> Nat]
      /\ kind \in [Job -> {"none", "link", "file"}]
  BY MaxVersionAssumption DEF IInv, Typed, Login, Version, Reads
<1>1. /\ file' = [file EXCEPT ![j] = Refreshed(Reads(j), e)]
      /\ kind' = [kind EXCEPT ![j] = "file"] /\ phase[j] = "running"
      /\ UNCHANGED <<host, phase, pc, copy, merged, failed>>
      /\ Refreshable(Reads(j), e) /\ Rotate(Reads(j), e)
  BY DEF ExecutorRefreshes
<1>2. LoginInv(e, j) /\ PhaseInv(j) /\ server[e] # 0 /\ host[e] <= server[e]
  BY DEF IInv, TokenInv
\* What it reads, it reads through the link: its own file would be the live
\* token, which is not due, or a cleared one.
<1>3. kind[j] # "file" /\ Reads(j) = host /\ pc[j] = "off"
  <2>1. kind[j] # "file"
    BY <1>0, <1>1, <1>2 DEF Reads, Refreshable, LoginInv
  <2> QED BY <1>2, <2>1 DEF Reads, PhaseInv
<1>4. CASE host[e] = server[e]
  <2>1. e \in due /\ due' = due \ {e} /\ server' = [server EXCEPT ![e] = server[e] + 1]
    BY <1>0, <1>1, <1>3, <1>4 DEF Refreshable, Rotate
  <2>2. server'[e] = server[e] + 1 /\ file'[j][e] = server[e] + 1
    BY <1>0, <1>1, <1>3, <1>4, <2>1 DEF Refreshed
  <2>3. LoginInv(e, j)'
    BY <1>0, <1>1, <1>3, <2>1, <2>2 DEF LoginInv
  <2>4. ASSUME NEW k \in Job \ {j} PROVE LoginInv(e, k)'
    <3>1. /\ kind[k] = "file" => file[k][e] = 0
          /\ pc[k] # "install"
          /\ pc[k] \in {"read-host", "relink"} => copy[k][e] = 0 /\ file[k][e] = 0
      BY <2>1, RotatedFromTheHost
    <3>2. kind'[k] = kind[k] /\ file'[k] = file[k] /\ pc'[k] = pc[k] /\ copy'[k] = copy[k]
      BY <1>0, <1>1
    <3> QED BY <2>1, <3>1, <3>2 DEF LoginInv
  <2>5. LiveTokenIsKept'
    <3>1. kind'[j] = "file" /\ file'[j][e] = server'[e] /\ phase'[j] # "leaked"
      BY <1>0, <1>1, <2>2
    <3> QED BY <3>1 DEF LiveTokenIsKept
  <2>6. server'[e] # 0 /\ host'[e] <= server'[e]
    BY <1>0, <1>1, <1>2, <2>2
  <2> QED BY <2>3, <2>4, <2>5, <2>6 DEF TokenInv
<1>5. CASE host[e] # server[e]
  <2>1. UNCHANGED <<server, due>> /\ file'[j][e] = 0
    BY <1>0, <1>1, <1>3, <1>5 DEF Rotate, Refreshed
  <2>2. LoginInv(e, j)'
    BY <1>0, <1>1, <1>2, <1>3, <2>1 DEF LoginInv
  <2>3. ASSUME NEW k \in Job \ {j} PROVE LoginInv(e, k)'
    BY <1>0, <1>1, <2>1 DEF LoginInv, TokenInv
  <2>4. LiveTokenIsKept'
    BY <1>0, <1>1, <1>3, <1>5, <2>1 DEF TokenInv, LiveTokenIsKept
  <2> QED BY <1>1, <1>2, <2>1, <2>2, <2>3, <2>4 DEF TokenInv
<1> QED BY <1>4, <1>5

(* The engine's own steps rotate nothing.                                    *)
EngineStep(j) ==
  \/ Start(j) \/ ExecutorEnds(j) \/ Poll(j) \/ Stop(j) \/ Sync(j)
  \/ Drop(j) \/ DropFails(j)

(* A merge that changes the host's login brings it the live token.           *)
LEMMA MergeOfOne ==
  ASSUME NEW e, Entry = {e}, NEW h \in Login, NEW l \in Login
  PROVE  /\ mergeLogins(h, l)[e] = IF l[e] > h[e] THEN l[e] ELSE h[e]
         /\ mergeLogins(h, l) # h <=> l[e] > h[e]
<1> DEFINE m == mergeLogins(h, l)
<1>1. m[e] = IF l[e] > h[e] THEN l[e] ELSE h[e]
  BY DEF mergeLogins
<1>2. h[e] \in Nat /\ l[e] \in Nat
  BY MaxVersionAssumption DEF Login, Version
<1>3. m \in [Entry -> Version] /\ h \in [Entry -> Version]
  BY MergeIsALogin DEF Login
<1>4. m # h => m[e] # h[e]
  BY <1>3
<1> QED BY <1>1, <1>2, <1>4

LEMMA EngineKeepsTokens ==
  ASSUME NEW e, Entry = {e}, IInv, TokenInv(e), NEW j \in Job, EngineStep(j)
  PROVE  TokenInv(e)'
<1>0. /\ server \in [Entry -> Nat] /\ host \in [Entry -> Nat] /\ e \in Entry
      /\ file \in [Job -> [Entry -> Nat]]
      /\ Typed
  <2>1. Typed
    BY DEF IInv
  <2>2. /\ server \in [Entry -> 0 .. MaxVersion] /\ host \in [Entry -> 0 .. MaxVersion]
        /\ file \in [Job -> [Entry -> 0 .. MaxVersion]]
    BY <2>1 DEF Typed, Login, Version
  <2>3. 0 .. MaxVersion \subseteq Nat
    BY MaxVersionAssumption
  <2>4. file \in [Job -> [Entry -> Nat]]
    BY <2>2, <2>3
  <2> QED BY <2>1, <2>2, <2>3, <2>4
<1>1. UNCHANGED <<server, due, file>>
  BY DEF EngineStep, Start, ExecutorEnds, Poll, Stop, Sync, ReadJob, ReadHost,
         Install, Relink, SyncFails, Drop, DropFails
<1>2. IInv' /\ SameElsewhere(j)
  BY JobKeepsIInv DEF EngineStep, JobStep
<1>3. LoginInv(e, j) /\ PhaseInv(j) /\ server[e] # 0 /\ host[e] <= server[e]
  BY DEF IInv, TokenInv
\* Whether or not the host's login changes, it is the live one if it was.
<1>4. ASSUME host' = host \/ (host'[e] = server[e]), LoginInv(e, j)', LiveTokenIsKept'
      PROVE  TokenInv(e)'
  <2>1. ASSUME NEW k \in Job \ {j} PROVE LoginInv(e, k)'
    BY <1>1, <1>2, <1>4 DEF TokenInv, LoginInv, SameElsewhere
  <2> QED BY <1>0, <1>1, <1>3, <1>4, <2>1 DEF TokenInv
<1>5. CASE Start(j)
  <2>1. LoginInv(e, j)'
    BY <1>0, <1>3, <1>5 DEF Start, LoginInv, PhaseInv, Typed
  <2>2. LiveTokenIsKept'
    BY <1>0, <1>3, <1>5 DEF Start, LiveTokenIsKept, TokenInv, PhaseInv, Typed
  <2> QED BY <1>4, <1>5, <2>1, <2>2 DEF Start
<1>6. CASE ExecutorEnds(j)
  <2>1. LoginInv(e, j)' /\ LiveTokenIsKept'
    BY <1>0, <1>3, <1>6 DEF ExecutorEnds, LoginInv, LiveTokenIsKept, TokenInv, Typed
  <2> QED BY <1>4, <1>6, <2>1 DEF ExecutorEnds
<1>7. CASE Poll(j) \/ Stop(j)
  <2>1. LoginInv(e, j)'
    BY <1>0, <1>3, <1>7 DEF Poll, Stop, LoginInv, Typed
  <2>2. LiveTokenIsKept'
    BY <1>0, <1>3, <1>7 DEF Poll, Stop, LiveTokenIsKept, TokenInv, Typed
  <2> QED BY <1>4, <1>7, <2>1, <2>2 DEF Poll, Stop
<1>8. CASE ReadJob(j)
  <2>1. LoginInv(e, j)'
    BY <1>0, <1>3, <1>8 DEF ReadJob, LoginInv, Typed
  <2>2. LiveTokenIsKept'
    BY <1>8 DEF ReadJob, LiveTokenIsKept, TokenInv
  <2> QED BY <1>4, <1>8, <2>1, <2>2 DEF ReadJob
<1>9. CASE ReadHost(j)
  <2> DEFINE m == mergeLogins(host, copy[j])
  <2>1. /\ merged' = [merged EXCEPT ![j] = m] /\ pc[j] = "read-host"
        /\ pc' = [pc EXCEPT ![j] = IF m # host THEN "install" ELSE "relink"]
        /\ UNCHANGED <<server, due, host, kind, file, phase, copy, failed>>
    BY <1>9 DEF ReadHost
  <2>2. copy[j][e] = file[j][e] /\ file[j][e] \in {0, server[e]}
    BY <1>3, <2>1 DEF LoginInv, PhaseInv
  <2>3. /\ m[e] = IF file[j][e] > host[e] THEN file[j][e] ELSE host[e]
        /\ m # host <=> file[j][e] > host[e]
    BY <1>0, <2>2, MergeOfOne DEF Typed
  <2>4. IF m # host THEN m[e] = server[e] /\ file[j][e] = server[e]
                    ELSE file[j][e] = 0 \/ host[e] = server[e]
    BY <1>0, <1>3, <2>2, <2>3
  <2>5. LoginInv(e, j)'
    <3> HIDE DEF m
    <3> QED BY <1>0, <1>3, <2>1, <2>2, <2>4 DEF LoginInv, Typed
  <2>6. LiveTokenIsKept'
    BY <2>1 DEF LiveTokenIsKept, TokenInv
  <2> QED BY <1>4, <2>1, <2>5, <2>6
<1>10. CASE Install(j)
  <2>1. host'[e] = server[e] /\ UNCHANGED <<kind, copy, merged>>
    BY <1>3, <1>10 DEF Install, LoginInv
  <2>2. LoginInv(e, j)'
    BY <1>0, <1>1, <1>3, <1>10, <2>1 DEF Install, LoginInv, Typed
  <2>3. LiveTokenIsKept'
    BY <1>1, <2>1 DEF LiveTokenIsKept
  <2> QED BY <1>4, <2>1, <2>2, <2>3
<1>11. CASE Relink(j)
  <2>1. LoginInv(e, j)'
    BY <1>0, <1>11 DEF Relink, LoginInv, Typed
  <2>2. phase[j] \notin {"over", "leaked"} /\ (file[j][e] = 0 \/ host[e] = server[e])
    BY <1>3, <1>11 DEF Relink, PhaseInv, LoginInv
  <2>3. LiveTokenIsKept'
    BY <1>0, <1>3, <1>11, <2>2 DEF Relink, LiveTokenIsKept, TokenInv, Typed
  <2> QED BY <1>4, <1>11, <2>1, <2>3 DEF Relink
<1>12. CASE SyncFails(j)
  <2>1. LoginInv(e, j)'
    BY <1>0, <1>3, <1>12 DEF SyncFails, LoginInv, Typed
  <2>2. LiveTokenIsKept'
    BY <1>12 DEF SyncFails, LiveTokenIsKept, TokenInv
  <2> QED BY <1>4, <1>12, <2>1, <2>2 DEF SyncFails
<1>13. CASE Drop(j) \/ DropFails(j)
  <2>1. LoginInv(e, j)'
    BY <1>0, <1>3, <1>13 DEF Drop, DropFails, LoginInv, Typed
  <2>2. kind[j] = "file" => j \in failed
    BY <1>3, <1>13 DEF Drop, DropFails, PhaseInv
  <2>3. phase'[j] \in {"over", "leaked"} /\ failed' = failed
    BY <1>0, <1>13 DEF Drop, DropFails, Typed
  <2>4. host' = host
    BY <1>13 DEF Drop, DropFails
  <2>5. CASE kind[j] = "file"
    BY <2>2, <2>3, <2>5, <1>4, <2>1, <2>4 DEF LiveTokenIsKept
  <2>6. CASE kind[j] # "file"
    <3>1. LiveTokenIsKept'
      BY <1>0, <1>1, <1>2, <1>13, <2>3, <2>4, <2>6
         DEF LiveTokenIsKept, TokenInv, SameElsewhere, Drop, DropFails, Typed
    <3> QED BY <3>1, <1>4, <2>1, <2>4
  <2> QED BY <2>5, <2>6
<1> QED BY <1>5, <1>6, <1>7, <1>8, <1>9, <1>10, <1>11, <1>12, <1>13 DEF EngineStep, Sync

LEMMA TokensKept ==
  ASSUME NEW e, Entry = {e}, IInv, TokenInv(e), [Next]_vars
  PROVE  TokenInv(e)'
<1>1. CASE Over \/ UNCHANGED vars
  BY <1>1 DEF Over, vars, TokenInv, LoginInv, LiveTokenIsKept
<1>2. CASE Expire(e)
  <2>1. ASSUME NEW k \in Job PROVE LoginInv(e, k)'
    BY <1>2, <2>1 DEF Expire, TokenInv, LoginInv
  <2>2. LiveTokenIsKept'
    BY <1>2 DEF Expire, TokenInv, LiveTokenIsKept
  <2> QED BY <1>2, <2>1, <2>2 DEF Expire, TokenInv
<1>3. CASE HostRefreshes(e)
  BY <1>3, HostKeepsTokens
<1>4. ASSUME NEW j \in Job, ExecutorRefreshes(j, e) PROVE TokenInv(e)'
  BY <1>4, ExecutorKeepsTokens
<1>5. ASSUME NEW j \in Job, EngineStep(j) PROVE TokenInv(e)'
  BY <1>5, EngineKeepsTokens
<1> QED BY <1>1, <1>2, <1>3, <1>4, <1>5 DEF Next, EngineStep

\* One login entry is in use, the one the server rotates.
OneEntry == \E e : Entry = {e}

OneEntryInv == IInv /\ \A e \in Entry : TokenInv(e)

LEMMA OneEntryInvariance == ASSUME OneEntry PROVE Spec => []OneEntryInv
<1>0. PICK e : Entry = {e}
  BY DEF OneEntry
<1>1. Init => OneEntryInv
  BY <1>0, InitIInv, InitTokens DEF OneEntryInv
<1>2. OneEntryInv /\ [Next]_vars => OneEntryInv'
  BY <1>0, NextIInv, TokensKept DEF OneEntryInv
<1> QED BY <1>1, <1>2, PTL DEF Spec

(* With one rotating entry the only token the server still takes is never    *)
(* thrown away, for any number of executors polling, failing and ending.     *)
THEOREM TheLiveTokenIsKept == ASSUME OneEntry PROVE Spec => []LiveTokenIsKept
<1>1. OneEntryInv => LiveTokenIsKept
  BY DEF OneEntry, OneEntryInv, TokenInv
<1> QED BY <1>1, OneEntryInvariance, PTL

(* With one rotating entry no sync puts an older token, or a cleared one, in *)
(* the place of the host's, whatever was written since it read them.         *)
THEOREM SyncsNeverDowngrade == ASSUME OneEntry PROVE Spec => InstallsNeverDowngrade
<1> DEFINE Rises == \A j \in Job : Install(j) => \A e \in Entry : host'[e] >= host[e]
<1>1. OneEntryInv => [Rises]_vars
  <2> SUFFICES ASSUME OneEntryInv, NEW j \in Job, Install(j), NEW e \in Entry
               PROVE  host'[e] >= host[e]
    BY DEF Rises
  <2>1. host'[e] = server[e] /\ host[e] <= server[e]
    BY DEF Install, OneEntryInv, TokenInv, LoginInv
  <2>2. host[e] \in Nat /\ server[e] \in Nat
    BY MaxVersionAssumption DEF OneEntryInv, IInv, Typed, Login, Version
  <2> QED BY <2>1, <2>2
<1>2. Spec => [][Rises]_vars
  BY <1>1, OneEntryInvariance, PTL
<1> QED BY <1>2 DEF InstallsNeverDowngrade, Rises

=============================================================================
