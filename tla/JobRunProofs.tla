---------------------------- MODULE JobRunProofs ----------------------------
(* For any credentials, threads, steps and outputs: what one job's record is *)
(* worth, what its executor call leaves behind, which /tmp the executor      *)
(* lives with, and that the job's stages are the scheduler's walk.  One      *)
(* inductive invariant has a part for the call, one for the private /tmp     *)
(* and one for the job around them.                                          *)
EXTENDS JobRun, TLAPS

-----------------------------------------------------------------------------
(* Why it holds: the inductive invariant.                                  *)

Before == {"look-up", "prepare-home", "caches", "feed", "log", "start"}

Depth == Len(defers)

Call == {"credentials", "watch", "feed", "log"}

\* What is deferred is a beginning of Undo,
StackInv ==
  /\ defers \in Seq(Call) /\ Depth <= 4
  /\ \A i \in 1 .. Depth : defers[i] = Undo[i]

\* how long a one is said by where the call is, and a thing is on only
\* as long as the call that undoes it is deferred.
DefersInv ==
  /\ StackInv
  /\ pc \in {"look-up", "returned"} => Depth = 0
  /\ pc = "prepare-home" => Depth = 1
  /\ pc \in {"caches", "feed"} => Depth = 2
  /\ pc = "log" => Depth = 3
  /\ pc \in {"start", "waiting", "keep-message"} => Depth = 4
  /\ watching => Depth >= 2
  /\ open \subseteq {"feed", "log"}
  /\ "feed" \in open => Depth >= 3
  /\ "log" \in open => Depth >= 4
  /\ alive => pc = "waiting"

\* A credential is still to be looked at, or gone, or noted; the looking
\* starts when nothing that could put one back is left.
CredInv ==
  /\ toLink \subseteq Cred /\ inHome \subseteq Cred
  /\ toDrop \subseteq Cred /\ leftOver \subseteq Cred
  /\ inHome \subseteq toDrop \cup leftOver
  /\ Depth = 0 => inHome \subseteq leftOver
  /\ toDrop # Cred => pc \in {"unwinding", "returned"} /\ Depth <= 1

CallInv ==
  /\ DefersInv /\ CredInv
  /\ pc \in Before \cup {"waiting", "keep-message", "unwinding", "returned"}
  /\ alive \in BOOLEAN /\ watching \in BOOLEAN /\ ran \in BOOLEAN
  /\ message \in Found \cup {"the-final-message"}
  /\ result \in {"none", "code", "error"}
  /\ result = "none" <=> pc \notin {"unwinding", "returned"}

\* The helper's next step says what it has done; the thread it clears is the
\* one it becomes acpx on.
TmpInv ==
  /\ PT!TypeOK
  /\ image = "none" => at = "mount" /\ ambient = {}
  /\ image # "none" => private # "nil"
  /\ image = "helper" => private = "true" /\ at # "became"
  /\ image = "acpx" => (at = "became" <=> private = "true") /\ at \in {"mount", "became"}
  /\ image = "acpx" => ambient = {}
  /\ ownTmp <=> at # "mount"
  /\ at \in {"drop", "exec"} => locked
  /\ at = "exec" => on \notin ambient
  /\ reason <=> private = "false"

Record ==
  [state : {"pending", "done", "parked"},
   failure : {<<>>} \cup (Stages \X (Nat \ {0})),
   exit : Codes, versions : BOOLEAN]

\* What JobTypeOK says of the job around the call.
JobTyped ==
  /\ phase \in {"waiting", "evaluating", "closing", "closed"}
  /\ stage \in Stages /\ nth \in Nat \ {0}
  /\ stepping \in BOOLEAN /\ cancelled \in BOOLEAN
  /\ disk \subseteq Owed /\ Seen(disk, message)
  /\ told \subseteq {"versions"}
  /\ code \in Codes
  /\ job \in Record

\* The call is made from the prompt stage, once, and what the record holds is
\* what it returned.
EvidenceInv ==
  /\ stage \in {"dirs", "pre-steps"} \/ phase = "waiting" => pc = "look-up"
  /\ pc \notin {"look-up", "returned"} => In("prompt")
  /\ phase = "waiting" => stage = "dirs" /\ nth = 1 /\ job.state = "pending"
  /\ stage \in {"outputs", "post-steps"} =>
       pc = "returned" /\ result = "code" /\ job.exit = "0"
  /\ stage \in {"prompt", "outputs"} /\ result = "code" => message = "the-final-message"
  /\ code \in {"0", "other"} \/ "versions" \in told => image = "acpx"
  /\ pc \in Before => code = "none" /\ told = {}
  /\ pc = "keep-message" \/ result = "code" => code # "none"
  /\ In("prompt") \/ pc = "look-up" => job.exit = "none" /\ ~job.versions
  /\ job.exit # "none" => pc = "returned" /\ result = "code" /\ code = job.exit
  /\ job.versions => "versions" \in told
  /\ job.state = "done" /\ phase \in {"closing", "closed"} => stage = "post-steps"
  /\ stepping => phase = "evaluating" /\ MoreSteps

IInv == CallInv /\ TmpInv /\ JobTyped /\ EvidenceInv

-----------------------------------------------------------------------------
(* The call.                                                               *)

(* Deferring the next call of Undo, and running the last one deferred, keep  *)
(* what is deferred a beginning of Undo.                                     *)
LEMMA StackSteps ==
  ASSUME StackInv
  PROVE  /\ Depth \in Nat
         /\ defers = <<>> <=> Depth = 0
         /\ Depth # 0 => Last(defers) = Undo[Depth]
         /\ Depth # 0 =>
              /\ Front(defers) \in Seq(Call)
              /\ Len(Front(defers)) = Depth - 1
              /\ \A i \in 1 .. Depth - 1 : Front(defers)[i] = Undo[i]
         /\ \A what \in Call : Depth < 4 /\ what = Undo[Depth + 1] =>
                   /\ Append(defers, what) \in Seq(Call)
                   /\ Len(Append(defers, what)) = Depth + 1
                   /\ \A i \in 1 .. Depth + 1 : Append(defers, what)[i] = Undo[i]
<1>1. defers \in Seq(Call) /\ Depth = Len(defers) /\ Depth \in Nat
  <2>1. defers \in Seq(Call)
    BY DEF StackInv
  <2> QED BY <2>1 DEF Depth
<1>2. /\ defers = <<>> <=> Depth = 0
      /\ Depth # 0 => Last(defers) = Undo[Depth]
  BY <1>1 DEF StackInv, Last
<1>3. ASSUME Depth # 0
      PROVE  /\ Front(defers) \in Seq(Call)
             /\ Len(Front(defers)) = Depth - 1
             /\ \A i \in 1 .. Depth - 1 : Front(defers)[i] = defers[i]
  BY <1>1, <1>3 DEF Front
<1>4. ASSUME NEW what \in Call
      PROVE  /\ Append(defers, what) \in Seq(Call)
             /\ Len(Append(defers, what)) = Depth + 1
             /\ Append(defers, what)[Depth + 1] = what
             /\ \A i \in 1 .. Depth : Append(defers, what)[i] = defers[i]
  <2>1. Append(defers, what) \in Seq(Call)
    BY <1>1
  <2>2. Len(Append(defers, what)) = Depth + 1
    BY <1>1
  <2>3. Append(defers, what)[Depth + 1] = what
    BY <1>1
  <2>4. ASSUME NEW i \in 1 .. Depth PROVE Append(defers, what)[i] = defers[i]
    BY <1>1
  <2> QED BY <2>1, <2>2, <2>3, <2>4
<1>5. \A i \in 1 .. Depth : defers[i] = Undo[i]
  BY DEF StackInv
<1>6. Depth # 0 => \A i \in 1 .. Depth - 1 : Front(defers)[i] = Undo[i]
  BY <1>1, <1>3, <1>5
<1>7. ASSUME NEW what \in Call, what = Undo[Depth + 1], NEW i \in 1 .. Depth + 1
      PROVE  Append(defers, what)[i] = Undo[i]
  <2>1. CASE i = Depth + 1
    BY <1>4, <1>7, <2>1
  <2>2. CASE i # Depth + 1
    BY <1>1, <1>4, <1>5, <2>2
  <2> QED BY <2>1, <2>2
<1> QED BY <1>1, <1>2, <1>3, <1>4, <1>6, <1>7

LEMMA StackIsPrefix == StackInv => IsPrefix(defers, Undo)
BY DEF StackInv, Depth, IsPrefix, Undo

LEMMA UndoOrder ==
  /\ Undo[1] = "credentials" /\ Undo[2] = "watch"
  /\ Undo[3] = "feed" /\ Undo[4] = "log"
BY DEF Undo

LEMMA InitCallInv == Init => CallInv
<1> SUFFICES ASSUME Init PROVE CallInv
  OBVIOUS
<1>1. StackInv /\ Depth = 0
  <2>1. defers = <<>>
    BY DEF Init
  <2> QED BY <2>1 DEF StackInv, Depth
<1>2. DefersInv
  BY <1>1 DEF Init, DefersInv
<1>3. CredInv
  BY <1>1 DEF Init, CredInv
<1> QED BY <1>2, <1>3 DEF Init, CallInv, Found, Before

(* What the call defers next, and what it runs next.                         *)
LEMMA PushKeepsStack ==
  ASSUME StackInv, NEW what \in Call, Depth < 4, what = Undo[Depth + 1],
         defers' = Append(defers, what)
  PROVE  StackInv' /\ Depth' = Depth + 1
BY StackSteps DEF StackInv, Depth

LEMMA PopKeepsStack ==
  ASSUME StackInv, NEW what, Deferred(what), Done
  PROVE  StackInv' /\ Depth' = Depth - 1 /\ Depth # 0 /\ what = Undo[Depth]
BY StackSteps DEF StackInv, Depth, Deferred, Done

(* A step that defers nothing and runs nothing deferred.                     *)
LEMMA StackStays ==
  ASSUME StackInv, UNCHANGED defers
  PROVE  StackInv' /\ Depth' = Depth
BY DEF StackInv, Depth

LEMMA SetUpKeepsCall ==
  ASSUME CallInv, SetUp \/ Fails \/ StartExecutor
  PROVE  CallInv'
<1> USE DEF credVars, execVars, Step
<1>0. /\ StackInv /\ Depth \in Nat /\ DefersInv /\ CredInv
      /\ alive \in BOOLEAN /\ watching \in BOOLEAN
  BY StackSteps DEF CallInv, DefersInv
<1>1. CASE LookUp
  <2>1. Depth = 0
    BY <1>0, <1>1 DEF LookUp, DefersInv
  <2>2. StackInv' /\ Depth' = 1
    <3>1. defers' = Append(defers, "credentials")
      BY <1>1 DEF LookUp
    <3>2. "credentials" \in Call /\ "credentials" = Undo[Depth + 1] /\ Depth < 4
      BY <2>1, UndoOrder DEF Call
    <3> QED BY <1>0, <2>1, <3>1, <3>2, PushKeepsStack
  <2>3. DefersInv'
    BY <1>0, <1>1, <2>1, <2>2 DEF LookUp, DefersInv
  <2>4. CredInv'
    BY <1>0, <1>1, <2>1, <2>2 DEF LookUp, CredInv
  <2> QED BY <1>1, <2>3, <2>4 DEF LookUp, CallInv, Before
<1>2. CASE StartWatch
  <2>1. Depth = 1
    BY <1>0, <1>2 DEF StartWatch, DefersInv
  <2>2. StackInv' /\ Depth' = 2
    <3>1. defers' = Append(defers, "watch")
      BY <1>2 DEF StartWatch
    <3>2. "watch" \in Call /\ "watch" = Undo[Depth + 1] /\ Depth < 4
      BY <2>1, UndoOrder DEF Call
    <3> QED BY <1>0, <2>1, <3>1, <3>2, PushKeepsStack
  <2>3. DefersInv'
    BY <1>0, <1>2, <2>1, <2>2 DEF StartWatch, DefersInv
  <2>4. CredInv'
    BY <1>0, <1>2, <2>1, <2>2 DEF StartWatch, CredInv
  <2> QED BY <1>2, <2>3, <2>4 DEF StartWatch, CallInv, Before
<1>3. CASE MakeCaches
  <2>1. StackInv' /\ Depth' = Depth
    BY <1>0, <1>3, StackStays DEF MakeCaches
  <2>2. DefersInv'
    BY <1>0, <1>3, <2>1 DEF MakeCaches, DefersInv
  <2>3. CredInv'
    BY <1>0, <1>3, <2>1 DEF MakeCaches, CredInv
  <2> QED BY <1>3, <2>2, <2>3 DEF MakeCaches, CallInv, Before
<1>4. CASE OpenLog /\ pc = "feed"
  <2>1. Depth = 2
    BY <1>0, <1>4 DEF OpenLog, DefersInv
  <2>2. StackInv' /\ Depth' = 3
    <3>1. defers' = Append(defers, "feed")
      BY <1>4 DEF OpenLog
    <3>2. "feed" \in Call /\ "feed" = Undo[Depth + 1] /\ Depth < 4
      BY <2>1, UndoOrder DEF Call
    <3> QED BY <1>0, <2>1, <3>1, <3>2, PushKeepsStack
  <2>3. DefersInv'
    BY <1>0, <1>4, <2>1, <2>2 DEF OpenLog, DefersInv
  <2>4. CredInv'
    BY <1>0, <1>4, <2>1, <2>2 DEF OpenLog, CredInv
  <2> QED BY <1>4, <2>3, <2>4 DEF OpenLog, CallInv, Before
<1>5. CASE OpenLog /\ pc = "log"
  <2>1. Depth = 3
    BY <1>0, <1>5 DEF OpenLog, DefersInv
  <2>2. StackInv' /\ Depth' = 4
    <3>1. defers' = Append(defers, "log")
      BY <1>5 DEF OpenLog
    <3>2. "log" \in Call /\ "log" = Undo[Depth + 1] /\ Depth < 4
      BY <2>1, UndoOrder DEF Call
    <3> QED BY <1>0, <2>1, <3>1, <3>2, PushKeepsStack
  <2>3. DefersInv'
    BY <1>0, <1>5, <2>1, <2>2 DEF OpenLog, DefersInv
  <2>4. CredInv'
    BY <1>0, <1>5, <2>1, <2>2 DEF OpenLog, CredInv
  <2> QED BY <1>5, <2>3, <2>4 DEF OpenLog, CallInv, Before
<1>6. ASSUME NEW c \in Cred, Link(c) PROVE CallInv'
  <2>1. StackInv' /\ Depth' = Depth
    BY <1>0, <1>6, StackStays DEF Link
  <2>2. DefersInv'
    BY <1>0, <1>6, <2>1 DEF Link, DefersInv
  <2>3. CredInv'
    <3>1. toDrop = Cred /\ Depth = 1
      BY <1>0, <1>6 DEF Link, CredInv, DefersInv
    <3>2. inHome' \subseteq Cred /\ toLink' \subseteq Cred
      BY <1>0, <1>6 DEF Link, CredInv
    <3>3. UNCHANGED <<toDrop, leftOver, pc>> /\ Depth' = 1
      BY <1>6, <2>1, <3>1 DEF Link
    <3> QED BY <1>0, <3>1, <3>2, <3>3 DEF CredInv
  <2> QED BY <1>6, <2>2, <2>3 DEF Link, CallInv, Before
<1>7. CASE Fails
  <2>1. StackInv' /\ Depth' = Depth
    BY <1>0, <1>7, StackStays DEF Fails
  <2>2. DefersInv'
    BY <1>0, <1>7, <2>1 DEF Fails, DefersInv
  <2>3. CredInv'
    BY <1>0, <1>7, <2>1 DEF Fails, CredInv
  <2> QED BY <1>7, <2>2, <2>3 DEF Fails, CallInv, Before
<1>8. CASE StartExecutor
  <2>1. StackInv' /\ Depth' = Depth
    BY <1>0, <1>8, StackStays DEF StartExecutor
  <2>2. DefersInv'
    BY <1>0, <1>8, <2>1 DEF StartExecutor, DefersInv
  <2>3. CredInv'
    BY <1>0, <1>8, <2>1 DEF StartExecutor, CredInv
  <2> QED BY <1>8, <2>2, <2>3 DEF StartExecutor, CallInv, Before
<1>9. OpenLog => pc \in {"feed", "log"}
  BY DEF OpenLog
<1> QED BY <1>1, <1>2, <1>3, <1>4, <1>5, <1>6, <1>7, <1>8, <1>9 DEF SetUp

LEMMA SupervisionKeepsCall ==
  ASSUME CallInv, Executes \/ ExecutorEnds \/ KeepMessage
  PROVE  CallInv'
<1> USE DEF credVars, execVars, Step
<1>0. /\ StackInv /\ Depth \in Nat /\ DefersInv /\ CredInv
      /\ alive \in BOOLEAN /\ watching \in BOOLEAN
  BY StackSteps DEF CallInv, DefersInv
<1>1. UNCHANGED defers
  BY DEF Executes, ExecutorEnds, KeepMessage
<1>2. StackInv' /\ Depth' = Depth
  BY <1>0, <1>1, StackStays
<1>3. CASE Executes
  <2>1. pc = "waiting" /\ toDrop = Cred /\ Depth = 4
    BY <1>0, <1>3 DEF Executes, DefersInv, CredInv
  <2>2. DefersInv'
    BY <1>0, <1>2, <1>3 DEF Executes, DefersInv
  <2>3. CredInv'
    BY <1>0, <1>2, <1>3, <2>1 DEF Executes, CredInv
  <2> QED BY <1>3, <2>2, <2>3 DEF Executes, CallInv, Before
<1>4. CASE ExecutorEnds
  <2>1. DefersInv'
    BY <1>0, <1>2, <1>4 DEF ExecutorEnds, DefersInv
  <2>2. CredInv'
    BY <1>0, <1>2, <1>4 DEF ExecutorEnds, CredInv
  <2> QED BY <1>4, <2>1, <2>2 DEF ExecutorEnds, CallInv, Before
<1>5. CASE KeepMessage
  <2>1. DefersInv'
    BY <1>0, <1>2, <1>5 DEF KeepMessage, DefersInv
  <2>2. CredInv'
    BY <1>0, <1>2, <1>5 DEF KeepMessage, CredInv
  <2> QED BY <1>5, <2>1, <2>2 DEF KeepMessage, CallInv, Before
<1> QED BY <1>3, <1>4, <1>5

LEMMA UnwindKeepsCall ==
  ASSUME CallInv, Unwind
  PROVE  CallInv'
<1> USE DEF credVars, execVars, Step
<1>0. /\ StackInv /\ Depth \in Nat /\ DefersInv /\ CredInv
      /\ alive \in BOOLEAN /\ watching \in BOOLEAN
  BY StackSteps DEF CallInv, DefersInv
<1>1. ASSUME NEW l \in {"feed", "log"}, CloseLog(l) PROVE CallInv'
  <2>1. StackInv' /\ Depth' = Depth - 1 /\ Depth # 0 /\ l = Undo[Depth]
    BY <1>0, <1>1, PopKeepsStack DEF CloseLog
  <2>2. Depth = IF l = "feed" THEN 3 ELSE 4
    BY <1>0, <2>1, UndoOrder DEF StackInv
  <2>3. pc = "unwinding" /\ open' = open \ {l}
    BY <1>1 DEF CloseLog, Deferred
  <2>4. DefersInv'
    <3>1. UNCHANGED <<watching, alive, pc>> /\ ~alive
      BY <1>0, <1>1, <2>3 DEF CloseLog, DefersInv
    <3>2. CASE l = "feed"
      BY <1>0, <2>1, <2>2, <2>3, <3>1, <3>2 DEF DefersInv
    <3>3. CASE l = "log"
      BY <1>0, <2>1, <2>2, <2>3, <3>1, <3>3 DEF DefersInv
    <3> QED BY <3>2, <3>3
  <2>5. CredInv'
    BY <1>0, <1>1, <2>1, <2>2 DEF CloseLog, CredInv
  <2> QED BY <1>1, <2>4, <2>5 DEF CloseLog, CallInv, Before
<1>2. CASE StopWatch
  <2>1. StackInv' /\ Depth' = Depth - 1 /\ Depth # 0 /\ Undo[Depth] = "watch"
    BY <1>0, <1>2, PopKeepsStack DEF StopWatch
  <2>2. Depth = 2
    BY <1>0, <2>1, UndoOrder DEF StackInv
  <2>3. pc = "unwinding" /\ ~watching'
    BY <1>2 DEF StopWatch, Deferred
  <2>4. DefersInv'
    BY <1>0, <1>2, <2>1, <2>2, <2>3 DEF StopWatch, DefersInv
  <2>5. CredInv'
    BY <1>0, <1>2, <2>1, <2>2 DEF StopWatch, CredInv
  <2> QED BY <1>2, <2>4, <2>5 DEF StopWatch, CallInv, Before
<1>3. ASSUME NEW c \in Cred, Drop(c) PROVE CallInv'
  <2>1. StackInv' /\ Depth' = Depth
    BY <1>0, <1>3, StackStays DEF Drop
  <2>2. pc = "unwinding" /\ Depth # 0 /\ Undo[Depth] = "credentials"
    BY <1>0, <1>3, StackSteps DEF Drop, Deferred
  <2>3. Depth = 1
    BY <1>0, <2>2, UndoOrder DEF StackInv
  <2>4. DefersInv'
    BY <1>0, <1>3, <2>1, <2>2, <2>3 DEF Drop, DefersInv
  <2>5. CredInv'
    BY <1>0, <1>3, <2>1, <2>2, <2>3 DEF Drop, CredInv
  <2> QED BY <1>3, <2>4, <2>5 DEF Drop, CallInv, Before
<1>4. CASE Dropped
  <2>1. StackInv' /\ Depth' = Depth - 1 /\ Depth # 0 /\ Undo[Depth] = "credentials"
    BY <1>0, <1>4, PopKeepsStack DEF Dropped
  <2>2. Depth = 1
    BY <1>0, <2>1, UndoOrder DEF StackInv
  <2>3. pc = "unwinding"
    BY <1>4 DEF Dropped, Deferred
  <2>4. DefersInv'
    BY <1>0, <1>4, <2>1, <2>2, <2>3 DEF Dropped, DefersInv
  <2>5. CredInv'
    BY <1>0, <1>4, <2>1, <2>2, <2>3 DEF Dropped, CredInv
  <2> QED BY <1>4, <2>4, <2>5 DEF Dropped, CallInv, Before
<1>5. CASE Return
  <2>1. StackInv' /\ Depth' = Depth /\ Depth = 0
    BY <1>0, <1>5, StackStays, StackSteps DEF Return
  <2>2. DefersInv'
    BY <1>0, <1>5, <2>1 DEF Return, DefersInv
  <2>3. CredInv'
    BY <1>0, <1>5, <2>1 DEF Return, CredInv
  <2> QED BY <1>5, <2>2, <2>3 DEF Return, CallInv, Before
<1> QED BY <1>1, <1>2, <1>3, <1>4, <1>5 DEF Unwind

(* Whatever becomes of the file the message goes to, by the call or by a     *)
(* step of the job.                                                          *)
LEMMA MessageKeepsCall ==
  ASSUME CallInv, message' \in Found \cup {"the-final-message"},
         UNCHANGED <<pc, defers, credVars, watching, open, alive, ran, result>>
  PROVE  CallInv'
<1> USE DEF credVars
<1>0. StackInv /\ DefersInv /\ CredInv
  BY DEF CallInv, DefersInv
<1>1. StackInv' /\ Depth' = Depth
  BY <1>0, StackStays
<1>2. DefersInv'
  BY <1>0, <1>1 DEF DefersInv
<1>3. CredInv'
  BY <1>0, <1>1 DEF CredInv
<1> QED BY <1>2, <1>3 DEF CallInv

(* What the call owes follows.                                               *)
LEMMA CallOwes == CallInv => TypeOK /\ NothingOutlivesTheCall
<1> SUFFICES ASSUME CallInv PROVE TypeOK /\ NothingOutlivesTheCall
  OBVIOUS
<1>0. StackInv /\ Depth \in Nat /\ DefersInv /\ CredInv
  BY StackSteps DEF CallInv, DefersInv
<1>1. IsPrefix(defers, Undo)
  BY <1>0, StackIsPrefix
<1>2. TypeOK
  BY <1>0, <1>1 DEF CallInv, DefersInv, CredInv, TypeOK, Before
<1>3. pc = "returned" => ~alive /\ ~watching /\ open = {} /\ inHome \subseteq leftOver
  BY <1>0 DEF DefersInv, CredInv
<1>4. toDrop # Cred => ~alive /\ ~watching
  BY <1>0 DEF DefersInv, CredInv
<1> QED BY <1>2, <1>3, <1>4 DEF NothingOutlivesTheCall

-----------------------------------------------------------------------------
(* The private /tmp.                                                       *)

LEMMA InitTmpInv == PT!Init => TmpInv
BY DEF PT!Init, PT!TypeOK, TmpInv

LEMMA HelperKeepsTmp ==
  ASSUME TmpInv, PT!Next
  PROVE  TmpInv'
<1> USE DEF TmpInv, PT!TypeOK, PT!Helper, PT!helperVars
<1>1. CASE PT!ChoosePrivate
  BY <1>1 DEF PT!ChoosePrivate
<1>2. CASE PT!ChooseShared
  BY <1>2 DEF PT!ChooseShared
<1>3. CASE PT!Start
  BY <1>3 DEF PT!Start
<1>4. CASE PT!Migrate
  BY <1>4 DEF PT!Migrate
<1>5. CASE PT!Mount
  BY <1>5 DEF PT!Mount
<1>6. CASE PT!Lock
  BY <1>6 DEF PT!Lock
<1>7. CASE PT!Drop
  BY <1>7 DEF PT!Drop
<1>8. CASE PT!Exec
  BY <1>8 DEF PT!Exec
<1> QED BY <1>1, <1>2, <1>3, <1>4, <1>5, <1>6, <1>7, <1>8 DEF PT!Next, PT!HelperStep

-----------------------------------------------------------------------------
(* The job.                                                                *)

(* A step of the job is a step of the call, or leaves it alone but for what  *)
(* is at the message's path.                                                 *)
LEMMA JobKeepsCall ==
  ASSUME IInv, JobNext
  PROVE  CallInv'
<1> USE DEF vars, credVars, execVars
<1>0. CallInv /\ message \in Found \cup {"the-final-message"}
  BY DEF IInv, CallInv
<1>1. CASE CallStep
  BY <1>0, <1>1, SetUpKeepsCall, UnwindKeepsCall DEF CallStep
<1>2. CASE Start
  BY <1>0, <1>2, SetUpKeepsCall DEF Start
<1>3. CASE AcpxRuns \/ ExecutorExits \/ MessageKept
  BY <1>0, <1>3, SupervisionKeepsCall DEF AcpxRuns, ExecutorExits, MessageKept
<1>4. CASE StepRuns
  BY <1>0, <1>4, MessageKeepsCall DEF StepRuns
<1>5. CASE UNCHANGED vars
  BY <1>0, <1>5, MessageKeepsCall
<1>6. ASSUME ~CallStep, ~Start, ~AcpxRuns, ~ExecutorExits, ~MessageKept, ~StepRuns
      PROVE  UNCHANGED vars
  BY <1>6 DEF JobNext, Choose, GiveUp, Release, EnsureJob, StartStep,
    StepNeverStarts, StepEnds, StepsDone, HelperRuns, TakeResult, CheckOutput,
    OutputsDone, Settle, Cancel, Settled, allVars
<1> QED BY <1>1, <1>2, <1>3, <1>4, <1>5, <1>6

(* It is a step of the private /tmp, or leaves that alone.                   *)
LEMMA JobKeepsTmp ==
  ASSUME IInv, JobNext
  PROVE  TmpInv'
<1>0. TmpInv
  BY DEF IInv
<1>1. CASE Choose \/ Start \/ HelperRuns
  BY <1>0, <1>1, HelperKeepsTmp DEF Choose, Start, HelperRuns, PT!Next
<1>2. CASE UNCHANGED tmpVars
  BY <1>0, <1>2 DEF tmpVars, TmpInv, PT!TypeOK
<1>3. ASSUME ~Choose, ~Start, ~HelperRuns
      PROVE  UNCHANGED tmpVars
  BY <1>3 DEF JobNext, GiveUp, Release, EnsureJob, StartStep, StepNeverStarts,
    StepRuns, StepEnds, StepsDone, CallStep, AcpxRuns, ExecutorExits,
    MessageKept, TakeResult, CheckOutput, OutputsDone, Settle, Cancel, Settled,
    allVars
<1> QED BY <1>1, <1>2, <1>3

(* What the stages write of a job's record.                                  *)
LEMMA RecordWrites ==
  ASSUME NEW r \in Record, NEW st \in Stages, NEW n \in Nat \ {0},
         NEW c \in Codes, NEW v \in BOOLEAN
  PROVE  /\ [r EXCEPT !.state = "done"] \in Record
         /\ [r EXCEPT !.exit = c, !.versions = v] \in Record
         /\ [r EXCEPT !.state = "parked", !.failure = <<st, n>>] \in Record
<1>1. <<st, n>> \in {<<>>} \cup (Stages \X (Nat \ {0}))
  OBVIOUS
<1> QED BY <1>1 DEF Record

LEMMA JobKeepsTypes ==
  ASSUME IInv, JobNext
  PROVE  JobTyped'
<1> USE DEF JobTyped, vars, credVars, execVars, tmpVars, walkVars, worldVars,
            jobVars, GoTo, In, Stages
<1>0. JobTyped
  BY DEF IInv
<1>1. ASSUME NEW r \in Record, ParkWith(r)
      PROVE  job' \in Record /\ phase' = "closing" /\ UNCHANGED <<stage, nth>>
  BY <1>0, <1>1, RecordWrites DEF ParkWith, Codes
<1>2. CASE Choose \/ GiveUp \/ Settle \/ Cancel \/ Settled
  BY <1>0, <1>2 DEF Choose, GiveUp, Settle, Cancel, Settled, allVars, Seen
<1>3. CASE Release
  <2>1. job' \in Record
    BY <1>0, <1>3, RecordWrites DEF Release, Codes
  <2> QED BY <1>0, <1>3, <2>1 DEF Release, Seen
<1>4. CASE EnsureJob
  BY <1>0, <1>1, <1>4 DEF EnsureJob, Seen
<1>5. CASE StartStep \/ StepNeverStarts
  BY <1>0, <1>1, <1>5 DEF StartStep, StepNeverStarts, Seen
<1>6. CASE StepRuns
  BY <1>0, <1>6 DEF StepRuns
<1>7. CASE StepEnds
  <2>1. ParkWith(job) \/ (stage' = stage /\ nth' = nth + 1 /\ UNCHANGED <<phase, job>>)
    BY <1>7 DEF StepEnds
  <2>2. nth' \in Nat \ {0}
    BY <1>0, <1>1, <2>1
  <2>3. stage' \in Stages /\ job' \in Record
          /\ phase' \in {"waiting", "evaluating", "closing", "closed"}
    BY <1>0, <1>1, <2>1
  <2> QED BY <1>0, <1>7, <2>2, <2>3 DEF StepEnds, Seen
<1>8. CASE StepsDone
  BY <1>0, <1>8 DEF StepsDone, Seen
<1>9. CASE CallStep \/ Start \/ HelperRuns
  <2>1. UNCHANGED <<jobVars, message>>
    BY <1>9 DEF CallStep, Start, HelperRuns, SetUp, Fails, Unwind, StartExecutor,
      LookUp, StartWatch, MakeCaches, OpenLog, Link, CloseLog, StopWatch, Drop,
      Dropped, Return
  <2> QED BY <1>0, <2>1 DEF Seen
<1>10. CASE AcpxRuns
  BY <1>0, <1>10 DEF AcpxRuns
<1>11. CASE ExecutorExits
  <2>1. code' \in Codes
    BY <1>11 DEF ExecutorExits, Codes
  <2> QED BY <1>0, <1>11, <2>1 DEF ExecutorExits, ExecutorEnds, Seen
<1>12. CASE MessageKept
  <2>1. disk' \subseteq Owed /\ message' = "the-final-message"
    BY <1>0, <1>12 DEF MessageKept, KeepMessage
  <2> QED BY <1>0, <1>12, <2>1 DEF MessageKept, KeepMessage, Seen
<1>13. CASE TakeResult
  <2> DEFINE kept == [job EXCEPT !.exit = code, !.versions = "versions" \in told]
  <2>1. kept \in Record
    <3>1. job \in Record /\ code \in Codes /\ stage \in Stages /\ nth \in Nat \ {0}
      BY <1>0
    <3>2. ("versions" \in told) \in BOOLEAN
      OBVIOUS
    <3> QED BY <3>1, <3>2, RecordWrites
  <2>2. ParkWith(job) \/ ParkWith(kept)
          \/ (stage' = "outputs" /\ nth' = 1 /\ job' = kept /\ UNCHANGED phase)
    BY <1>13 DEF TakeResult
  <2>3. UNCHANGED <<message, worldVars, cancelled>>
    BY <1>13 DEF TakeResult
  <2> QED BY <1>0, <1>1, <2>1, <2>2, <2>3 DEF Seen
<1>14. CASE CheckOutput
  BY <1>0, <1>1, <1>14 DEF CheckOutput, Seen
<1>15. CASE OutputsDone
  BY <1>0, <1>15 DEF OutputsDone, Seen
<1> QED BY <1>2, <1>3, <1>4, <1>5, <1>6, <1>7, <1>8, <1>9, <1>10, <1>11, <1>12,
           <1>13, <1>14, <1>15 DEF JobNext

(* Setting up, failing and unwinding, as the job sees them.                  *)
LEMMA CallMoves ==
  ASSUME CallInv, SetUp \/ Fails \/ Unwind
  PROVE  /\ UNCHANGED <<message, alive, ran>>
         /\ pc \notin {"waiting", "returned"}
         /\ pc' \notin {"look-up", "waiting", "keep-message"}
         /\ pc' \in Before => pc \in Before
         /\ result' = "code" <=> result = "code"
<1> USE DEF credVars, execVars, Step, Before
<1>0. /\ pc \in Before \cup {"waiting", "keep-message", "unwinding", "returned"}
      /\ result = "none" <=> pc \notin {"unwinding", "returned"}
  BY DEF CallInv
<1>1. CASE LookUp \/ StartWatch \/ MakeCaches
  BY <1>0, <1>1 DEF LookUp, StartWatch, MakeCaches
<1>2. CASE OpenLog
  BY <1>0, <1>2 DEF OpenLog
<1>3. CASE \E c \in Cred : Link(c)
  BY <1>0, <1>3 DEF Link
<1>4. CASE Fails
  BY <1>0, <1>4 DEF Fails
<1>5. CASE \E l \in {"feed", "log"} : CloseLog(l)
  BY <1>0, <1>5 DEF CloseLog, Deferred
<1>6. CASE StopWatch \/ Dropped \/ Return
  BY <1>0, <1>6 DEF StopWatch, Dropped, Return, Deferred
<1>7. CASE \E c \in Cred : Drop(c)
  BY <1>0, <1>7 DEF Drop, Deferred
<1> QED BY <1>1, <1>2, <1>3, <1>4, <1>5, <1>6, <1>7 DEF SetUp, Unwind

(* acpx stays acpx.                                                          *)
LEMMA ImageStays ==
  ASSUME JobNext, image = "acpx"
  PROVE  image' = "acpx"
<1> USE DEF tmpVars, PT!helperVars
<1>1. CASE Choose \/ Start \/ HelperRuns
  BY <1>1 DEF Choose, Start, HelperRuns, PT!HelperStep, PT!ChoosePrivate,
    PT!ChooseShared, PT!Start, PT!Migrate, PT!Mount, PT!Lock, PT!Drop, PT!Exec,
    PT!Helper
<1>2. ASSUME ~Choose, ~Start, ~HelperRuns
      PROVE  UNCHANGED tmpVars
  BY <1>2 DEF JobNext, GiveUp, Release, EnsureJob, StartStep, StepNeverStarts,
    StepRuns, StepEnds, StepsDone, CallStep, AcpxRuns, ExecutorExits,
    MessageKept, TakeResult, CheckOutput, OutputsDone, Settle, Cancel, Settled,
    allVars
<1> QED BY <1>1, <1>2

LEMMA InitEvidenceInv == JobInit => EvidenceInv
BY DEF JobInit, Init, EvidenceInv, In

LEMMA JobKeepsEvidence ==
  ASSUME IInv, JobNext
  PROVE  EvidenceInv'
<1> USE DEF vars, credVars, execVars, tmpVars, walkVars, worldVars, jobVars,
            In, Stages, Step
<1>0. /\ EvidenceInv /\ JobTyped /\ CallInv
      /\ image = "acpx" => image' = "acpx"
  BY ImageStays DEF IInv
<1>p. ASSUME NEW r \in Record, ParkWith(r)
      PROVE  /\ job'.state = "parked" /\ job'.exit = r.exit
             /\ job'.versions = r.versions
             /\ phase' = "closing" /\ UNCHANGED <<stage, nth>>
  BY <1>p DEF ParkWith, Record
<1>s. stage \notin {"pre-steps", "post-steps"} => ~stepping
  BY <1>0 DEF EvidenceInv, MoreSteps, Steps
<1>1. CASE Choose \/ Cancel \/ Settled \/ HelperRuns
  <2>1. UNCHANGED <<vars, walkVars, worldVars>>
    BY <1>1 DEF Choose, Cancel, Settled, HelperRuns, allVars
  <2> QED BY <1>0, <2>1 DEF EvidenceInv, MoreSteps
<1>2. CASE GiveUp \/ Settle
  <2>1. ~stepping /\ UNCHANGED <<vars, worldVars, stage, nth, job>>
    BY <1>0, <1>2 DEF EvidenceInv, GiveUp, Settle, MoreSteps
  <2> QED BY <1>0, <1>2, <2>1 DEF EvidenceInv, GiveUp, Settle
<1>3. CASE Release
  BY <1>0, <1>3 DEF EvidenceInv, Release, MoreSteps, JobTyped, Record
<1>4. CASE EnsureJob
  <2>1. ~stepping /\ pc = "look-up" /\ UNCHANGED <<vars, worldVars>>
    BY <1>0, <1>s, <1>4 DEF EvidenceInv, EnsureJob
  <2>2. CASE GoTo("pre-steps", 1)
    BY <1>0, <1>4, <2>1, <2>2 DEF EvidenceInv, EnsureJob, GoTo
  <2>3. CASE ParkWith(job)
    BY <1>0, <1>p, <1>4, <2>1, <2>3 DEF EvidenceInv, EnsureJob, JobTyped
  <2> QED BY <1>4, <2>2, <2>3 DEF EnsureJob
<1>5. CASE StartStep
  BY <1>0, <1>5 DEF EvidenceInv, StartStep, MoreSteps
<1>6. CASE StepNeverStarts
  <2>1. ~stepping /\ UNCHANGED <<vars, worldVars>> /\ ParkWith(job)
          /\ phase = "evaluating" /\ stage \in {"pre-steps", "post-steps"}
    BY <1>6 DEF StepNeverStarts, MoreSteps, Steps
  <2> QED BY <1>0, <1>p, <2>1 DEF EvidenceInv, JobTyped
<1>7. CASE StepRuns
  BY <1>0, <1>7 DEF EvidenceInv, StepRuns, MoreSteps, Steps
<1>8. CASE StepEnds
  <2>1. /\ ~stepping' /\ UNCHANGED <<vars, disk, told, code>>
        /\ phase = "evaluating" /\ stage \in {"pre-steps", "post-steps"}
    BY <1>0, <1>8 DEF EvidenceInv, StepEnds, MoreSteps, Steps
  <2>2. CASE GoTo(stage, nth + 1)
    BY <1>0, <2>1, <2>2 DEF EvidenceInv, GoTo
  <2>3. CASE ParkWith(job)
    BY <1>0, <1>p, <2>1, <2>3 DEF EvidenceInv, JobTyped
  <2> QED BY <1>8, <2>2, <2>3 DEF StepEnds
<1>9. CASE StepsDone
  <2>1. ~stepping /\ UNCHANGED <<vars, worldVars, job>> /\ phase = "evaluating"
    BY <1>0, <1>9, WalkAssumption DEF EvidenceInv, StepsDone, MoreSteps, Steps, GoTo
  <2>2. CASE stage = "pre-steps"
    <3>1. pc = "look-up" /\ result = "none"
      BY <1>0, <2>2 DEF EvidenceInv, CallInv
    <3> QED BY <1>0, <1>9, <2>1, <2>2, <3>1 DEF EvidenceInv, StepsDone, GoTo
  <2>3. CASE stage = "post-steps"
    BY <1>0, <1>9, <2>1, <2>3 DEF EvidenceInv, StepsDone, GoTo
  <2> QED BY <1>9, <2>2, <2>3 DEF StepsDone
<1>10. CASE CallStep
  BY <1>0, <1>10, CallMoves DEF EvidenceInv, CallStep, MoreSteps
<1>11. CASE Start
  BY <1>0, <1>11 DEF EvidenceInv, Start, StartExecutor, MoreSteps, Before
<1>12. CASE AcpxRuns
  BY <1>0, <1>12 DEF EvidenceInv, AcpxRuns, Executes, MoreSteps, CallInv, DefersInv, Before
<1>13. CASE ExecutorExits
  BY <1>0, <1>13 DEF EvidenceInv, ExecutorExits, ExecutorEnds, MoreSteps, CallInv, Before
<1>14. CASE MessageKept
  BY <1>0, <1>14 DEF EvidenceInv, MessageKept, KeepMessage, MoreSteps, Before
<1>15. CASE TakeResult
  <2> DEFINE kept == [job EXCEPT !.exit = code, !.versions = "versions" \in told]
  <2>1. /\ ~stepping /\ UNCHANGED <<vars, worldVars>>
        /\ pc = "returned" /\ In("prompt") /\ result \in {"code", "error"}
    BY <1>0, <1>s, <1>15 DEF TakeResult, CallInv
  <2>2. CASE result = "error" /\ ParkWith(job)
    BY <1>0, <1>p, <2>1, <2>2 DEF EvidenceInv, JobTyped
  <2>3. /\ kept \in Record /\ kept.exit = code /\ kept.state = job.state
        /\ kept.versions <=> "versions" \in told
    <3>1. /\ job \in Record /\ code \in Codes /\ stage \in Stages
          /\ nth \in Nat \ {0}
      BY <1>0 DEF JobTyped
    <3>2. ("versions" \in told) \in BOOLEAN
      OBVIOUS
    <3>3. kept \in Record
      BY <3>1, <3>2, RecordWrites
    <3> QED BY <3>1, <3>3 DEF Record
  <2>4. CASE result = "code" /\ ParkWith(kept)
    BY <1>0, <1>p, <2>1, <2>3, <2>4 DEF EvidenceInv
  <2>5. CASE /\ result = "code" /\ code = "0"
             /\ stage' = "outputs" /\ nth' = 1 /\ job' = kept /\ UNCHANGED phase
    BY <1>0, <2>1, <2>3, <2>5 DEF EvidenceInv
  <2> QED BY <1>15, <2>1, <2>2, <2>4, <2>5 DEF TakeResult
<1>16. CASE CheckOutput
  <2>1. ~stepping /\ UNCHANGED <<vars, worldVars>> /\ In("outputs")
    BY <1>s, <1>16 DEF CheckOutput
  <2>2. CASE GoTo(stage, nth + 1)
    BY <1>0, <2>1, <2>2 DEF EvidenceInv, GoTo
  <2>3. CASE ParkWith(job)
    BY <1>0, <1>p, <2>1, <2>3 DEF EvidenceInv, JobTyped
  <2> QED BY <1>16, <2>2, <2>3 DEF CheckOutput
<1>17. CASE OutputsDone
  <2>1. /\ ~stepping /\ UNCHANGED <<vars, worldVars>> /\ In("outputs")
        /\ stage' = "post-steps" /\ UNCHANGED <<phase, job>>
    BY <1>s, <1>17 DEF OutputsDone, GoTo
  <2> QED BY <1>0, <2>1 DEF EvidenceInv
<1> QED BY <1>1, <1>2, <1>3, <1>4, <1>5, <1>6, <1>7, <1>8, <1>9, <1>10, <1>11,
           <1>12, <1>13, <1>14, <1>15, <1>16, <1>17 DEF JobNext

LEMMA InitIInv == JobInit => IInv
<1> SUFFICES ASSUME JobInit PROVE IInv
  OBVIOUS
<1>1. CallInv /\ TmpInv /\ EvidenceInv
  BY InitCallInv, InitTmpInv, InitEvidenceInv DEF JobInit
<1>2. JobTyped
  <2>1. job \in Record
    BY DEF JobInit, Record, Codes
  <2>2. disk = {} /\ told = {} /\ code \in Codes /\ nth \in Nat \ {0}
    BY DEF JobInit, Codes
  <2> QED BY <2>1, <2>2 DEF JobInit, JobTyped, Stages, Seen
<1> QED BY <1>1, <1>2 DEF IInv

LEMMA NextIInv == IInv /\ [JobNext]_allVars => IInv'
<1> SUFFICES ASSUME IInv, [JobNext]_allVars PROVE IInv'
  OBVIOUS
<1>1. CASE JobNext
  BY <1>1, JobKeepsCall, JobKeepsTmp, JobKeepsTypes, JobKeepsEvidence DEF IInv
<1>2. CASE UNCHANGED allVars
  <2> USE <1>2 DEF allVars, vars, credVars, execVars, tmpVars, jobVars, walkVars,
                   worldVars, IInv
  <2>1. CallInv'
    BY MessageKeepsCall DEF CallInv
  <2>2. TmpInv'
    BY DEF TmpInv, PT!TypeOK
  <2>3. JobTyped'
    BY DEF JobTyped, Seen
  <2>4. EvidenceInv'
    BY DEF EvidenceInv, In, MoreSteps
  <2> QED BY <2>1, <2>2, <2>3, <2>4
<1> QED BY <1>1, <1>2

(* What a job's stage, its executor call and its /tmp helper have set up and *)
(* recorded is what each of them had got to, whichever step failed.          *)
THEOREM Invariance == JobSpec => []IInv
BY InitIInv, NextIInv, PTL DEF JobSpec

-----------------------------------------------------------------------------
(* What follows from it.                                                   *)

(* Every variable of a job's run keeps its type.                             *)
THEOREM JobTypeCorrect == JobSpec => []JobTypeOK
<1>1. IInv => JobTypeOK
  <2> SUFFICES ASSUME IInv PROVE JobTypeOK
    OBVIOUS
  <2>1. TypeOK /\ PT!TypeOK
    BY CallOwes DEF IInv, TmpInv
  <2> QED BY <2>1 DEF IInv, JobTyped, Record, JobTypeOK
<1> QED BY <1>1, Invariance, PTL

(* However a call of runExecutor ends, at whichever step it failed and       *)
(* however many credentials there are, nothing it set up outlives it.        *)
THEOREM CallsLeaveNothing == JobSpec => []NothingOutlivesTheCall
<1>1. IInv => NothingOutlivesTheCall
  BY CallOwes DEF IInv
<1> QED BY <1>1, Invariance, PTL

(* A job's record holds of its executor only what happened, and a job that   *)
(* is recorded done had acpx exit 0.                                         *)
THEOREM RecordsHoldWhatHappened == JobSpec => []EvidenceIsReal
<1>1. IInv => EvidenceIsReal
  <2> SUFFICES ASSUME IInv PROVE EvidenceIsReal
    OBVIOUS
  <2>1. EvidenceInv
    BY DEF IInv
  <2>2. phase = "closed" /\ job.state = "done" => job.exit = "0"
    BY <2>1 DEF EvidenceInv
  <2>3. job.exit = "0" \/ job.versions => image = "acpx"
    BY <2>1 DEF EvidenceInv
  <2>4. In("outputs") => message = "the-final-message"
    BY <2>1 DEF EvidenceInv, In
  <2>5. job.exit # "none" => pc = "returned" /\ result = "code" /\ code = job.exit
    BY <2>1 DEF EvidenceInv
  <2> QED BY <2>2, <2>3, <2>4, <2>5 DEF EvidenceIsReal
<1> QED BY <1>1, Invariance, PTL

(* The /tmp a record names is the one the executor lived with, and acpx      *)
(* never holds the capability the mount took, for any number of threads.     *)
THEOREM TheRecordedTmpIsTheTmp == JobSpec => []PrivateTmpIsTrue
<1>1. IInv => PrivateTmpIsTrue
  BY DEF IInv, TmpInv, PrivateTmpIsTrue, PT!PrivateTmpIsTrue, PT!TypeOK
<1> QED BY <1>1, Invariance, PTL

-----------------------------------------------------------------------------
(* The job's stages are the scheduler's walk.                              *)

(* A concatenation, item by item.                                            *)
InARow(s, a, b, c, d, e) ==
  /\ Len(s) = Len(a) + Len(b) + Len(c) + Len(d) + Len(e)
  /\ \A i \in 1 .. Len(a) : s[i] = a[i]
  /\ \A i \in 1 .. Len(b) : s[Len(a) + i] = b[i]
  /\ \A i \in 1 .. Len(c) : s[Len(a) + Len(b) + i] = c[i]
  /\ \A i \in 1 .. Len(d) : s[Len(a) + Len(b) + Len(c) + i] = d[i]
  /\ \A i \in 1 .. Len(e) : s[Len(a) + Len(b) + Len(c) + Len(d) + i] = e[i]

LEMMA FiveInARow ==
  ASSUME NEW T,
         NEW a \in Seq(T), NEW b \in Seq(T), NEW c \in Seq(T),
         NEW d \in Seq(T), NEW e \in Seq(T)
  PROVE  InARow(a \o b \o c \o d \o e, a, b, c, d, e)
<1> DEFINE ab == a \o b
           abc == ab \o c
           abcd == abc \o d
           s == abcd \o e
<1>0. Len(a) \in Nat /\ Len(b) \in Nat /\ Len(c) \in Nat /\ Len(d) \in Nat /\ Len(e) \in Nat
  OBVIOUS
<1>1. ab \in Seq(T)
  OBVIOUS
<1>2. Len(ab) = Len(a) + Len(b)
  OBVIOUS
<1>3. ASSUME NEW i \in 1 .. Len(a) PROVE ab[i] = a[i]
  OBVIOUS
<1>4. ASSUME NEW i \in 1 .. Len(b) PROVE ab[Len(a) + i] = b[i]
  OBVIOUS
<1> HIDE DEF ab
<1>5. abc \in Seq(T)
  BY <1>1
<1>6. Len(abc) = Len(ab) + Len(c)
  BY <1>1
<1>7. ASSUME NEW i \in 1 .. Len(ab) PROVE abc[i] = ab[i]
  BY <1>1
<1>8. ASSUME NEW i \in 1 .. Len(c) PROVE abc[Len(ab) + i] = c[i]
  BY <1>1
<1> HIDE DEF abc
<1>9. abcd \in Seq(T)
  BY <1>5
<1>10. Len(abcd) = Len(abc) + Len(d)
  BY <1>5
<1>11. ASSUME NEW i \in 1 .. Len(abc) PROVE abcd[i] = abc[i]
  BY <1>5
<1>12. ASSUME NEW i \in 1 .. Len(d) PROVE abcd[Len(abc) + i] = d[i]
  BY <1>5
<1> HIDE DEF abcd
<1>13. Len(s) = Len(abcd) + Len(e)
  BY <1>9
<1>14. ASSUME NEW i \in 1 .. Len(abcd) PROVE s[i] = abcd[i]
  BY <1>9
<1>15. ASSUME NEW i \in 1 .. Len(e) PROVE s[Len(abcd) + i] = e[i]
  BY <1>9
<1> HIDE DEF s
<1>16. Len(abc) = Len(a) + Len(b) + Len(c) /\ Len(abcd) = Len(a) + Len(b) + Len(c) + Len(d)
  BY <1>0, <1>2, <1>6, <1>10
<1> DEFINE la == Len(a)  lb == Len(b)  lc == Len(c)  ld == Len(d)  le == Len(e)
<1>20. /\ la \in Nat /\ lb \in Nat /\ lc \in Nat /\ ld \in Nat /\ le \in Nat
       /\ Len(ab) = la + lb /\ Len(abc) = la + lb + lc /\ Len(abcd) = la + lb + lc + ld
  BY <1>0, <1>2, <1>16
<1>21. /\ \A i \in 1 .. la : ab[i] = a[i]
       /\ \A i \in 1 .. lb : ab[la + i] = b[i]
       /\ \A i \in 1 .. la + lb : abc[i] = ab[i]
       /\ \A i \in 1 .. lc : abc[la + lb + i] = c[i]
  BY <1>3, <1>4, <1>7, <1>8, <1>2
<1>22. /\ \A i \in 1 .. la + lb + lc : abcd[i] = abc[i]
       /\ \A i \in 1 .. ld : abcd[la + lb + lc + i] = d[i]
       /\ \A i \in 1 .. la + lb + lc + ld : s[i] = abcd[i]
       /\ \A i \in 1 .. le : s[la + lb + lc + ld + i] = e[i]
  BY <1>11, <1>12, <1>14, <1>15, <1>16
<1>23. Len(s) = la + lb + lc + ld + le
  BY <1>13, <1>16
<1> HIDE DEF la, lb, lc, ld, le
<1>24. ASSUME NEW i \in 1 .. la PROVE s[i] = a[i]
  <2>1. i \in 1 .. la + lb /\ i \in 1 .. la + lb + lc /\ i \in 1 .. la + lb + lc + ld
    BY <1>20
  <2> QED BY <1>21, <1>22, <2>1
<1>25. ASSUME NEW i \in 1 .. lb PROVE s[la + i] = b[i]
  <2>1. /\ la + i \in 1 .. la + lb /\ la + i \in 1 .. la + lb + lc
        /\ la + i \in 1 .. la + lb + lc + ld
    BY <1>20
  <2> QED BY <1>21, <1>22, <2>1
<1>26. ASSUME NEW i \in 1 .. lc PROVE s[la + lb + i] = c[i]
  <2>1. la + lb + i \in 1 .. la + lb + lc /\ la + lb + i \in 1 .. la + lb + lc + ld
    BY <1>20
  <2> QED BY <1>21, <1>22, <2>1
<1>27. ASSUME NEW i \in 1 .. ld PROVE s[la + lb + lc + i] = d[i]
  <2>1. la + lb + lc + i \in 1 .. la + lb + lc + ld
    BY <1>20
  <2> QED BY <1>22, <2>1
<1> QED BY <1>22, <1>23, <1>24, <1>25, <1>26, <1>27
      DEF InARow, s, abcd, abc, ab, la, lb, lc, ld, le

LEMMA OnlyUpdates ==
  ASSUME NEW v, NEW w
  PROVE  Only(v)["job"] = v /\ [Only(v) EXCEPT !["job"] = w] = Only(w)
BY DEF Only

Total == 2 + PreSteps + Len(Outputs) + PostSteps

(* The scheduler's evidence for the job, by the place in evaluate.           *)
LEMMA EvidenceItems ==
  LET ev == S!Evidence("job")
  IN  /\ Len(ev) = Total
      /\ ev[1].kind = "dirs"
      /\ \A n \in 1 .. PreSteps : ev[1 + n].kind = "pre-step"
      /\ ev[2 + PreSteps].kind = "executor"
      /\ \A n \in 1 .. Len(Outputs) :
           ev[2 + PreSteps + n].kind = "output" /\ ev[2 + PreSteps + n].out = Outputs[n]
      /\ \A n \in 1 .. PostSteps : ev[2 + PreSteps + Len(Outputs) + n].kind = "post-step"
<1> DEFINE a == <<[kind |-> "dirs"]>>
           b == [i \in 1 .. PreSteps |-> [kind |-> "pre-step"]]
           c == <<[kind |-> "executor"]>>
           d == [i \in 1 .. Len(Outputs) |-> [kind |-> "output", out |-> Outputs[i]]]
           e == [i \in 1 .. PostSteps |-> [kind |-> "post-step"]]
           T == {a[1], c[1]} \cup Range(b) \cup Range(d) \cup Range(e)
<1>0. PreSteps \in Nat /\ PostSteps \in Nat /\ Len(Outputs) \in Nat
  BY WalkAssumption
<1>1. a \in Seq(T) /\ Len(a) = 1 /\ a[1] = [kind |-> "dirs"]
  OBVIOUS
<1>2. c \in Seq(T) /\ Len(c) = 1 /\ c[1] = [kind |-> "executor"]
  OBVIOUS
<1>3. ASSUME NEW n \in Nat, NEW f, f = [i \in 1 .. n |-> f[i]], Range(f) \subseteq T
      PROVE  f \in Seq(T) /\ Len(f) = n
  BY <1>3 DEF Range
<1>4. b \in Seq(T) /\ Len(b) = PreSteps
  <2>1. b = [i \in 1 .. PreSteps |-> b[i]] /\ Range(b) \subseteq T
    OBVIOUS
  <2> HIDE DEF b, T
  <2> QED BY <1>0, <1>3, <2>1
<1>5. d \in Seq(T) /\ Len(d) = Len(Outputs)
  <2>1. d = [i \in 1 .. Len(Outputs) |-> d[i]] /\ Range(d) \subseteq T
    OBVIOUS
  <2> HIDE DEF d, T
  <2> QED BY <1>0, <1>3, <2>1
<1>6. e \in Seq(T) /\ Len(e) = PostSteps
  <2>1. e = [i \in 1 .. PostSteps |-> e[i]] /\ Range(e) \subseteq T
    OBVIOUS
  <2> HIDE DEF e, T
  <2> QED BY <1>0, <1>3, <2>1
<1>7. S!Evidence("job") = a \o b \o c \o d \o e
  BY OnlyUpdates DEF S!Evidence
<1> HIDE DEF T
<1>8. \A i \in 1 .. PreSteps : b[i].kind = "pre-step"
  OBVIOUS
<1>9. \A i \in 1 .. Len(Outputs) : d[i].kind = "output" /\ d[i].out = Outputs[i]
  OBVIOUS
<1>10. \A i \in 1 .. PostSteps : e[i].kind = "post-step"
  OBVIOUS
<1> HIDE DEF a, b, c, d, e
<1> DEFINE s == a \o b \o c \o d \o e
<1>11. InARow(s, a, b, c, d, e)
  <2>1. a \in Seq(T) /\ c \in Seq(T)
    BY <1>1, <1>2
  <2>2. b \in Seq(T) /\ d \in Seq(T) /\ e \in Seq(T)
    BY <1>4, <1>5, <1>6
  <2> QED BY <2>1, <2>2, FiveInARow
<1> HIDE DEF s
<1>12. /\ Len(s) = Total
       /\ \A i \in 1 .. 1 : s[i] = a[i]
       /\ \A i \in 1 .. PreSteps : s[1 + i] = b[i]
       /\ \A i \in 1 .. 1 : s[1 + PreSteps + i] = c[i]
       /\ \A i \in 1 .. Len(Outputs) : s[1 + PreSteps + 1 + i] = d[i]
       /\ \A i \in 1 .. PostSteps : s[1 + PreSteps + 1 + Len(Outputs) + i] = e[i]
  BY <1>0, <1>1, <1>2, <1>4, <1>5, <1>6, <1>11 DEF Total, InARow
<1>13. /\ s[1] = a[1]
       /\ s[2 + PreSteps] = c[1]
       /\ \A i \in 1 .. Len(Outputs) : s[2 + PreSteps + i] = d[i]
       /\ \A i \in 1 .. PostSteps : s[2 + PreSteps + Len(Outputs) + i] = e[i]
  BY <1>0, <1>12
<1>14. S!Evidence("job") = s
  BY <1>7 DEF s
<1>15. s[1].kind = "dirs" /\ s[2 + PreSteps].kind = "executor"
  BY <1>1, <1>2, <1>13
<1>16. \A n \in 1 .. PreSteps : s[1 + n].kind = "pre-step"
  BY <1>8, <1>12
<1>17. \A n \in 1 .. Len(Outputs) :
         s[2 + PreSteps + n].kind = "output" /\ s[2 + PreSteps + n].out = Outputs[n]
  BY <1>9, <1>13
<1>18. \A n \in 1 .. PostSteps : s[2 + PreSteps + Len(Outputs) + n].kind = "post-step"
  BY <1>10, <1>13
<1> QED BY <1>12, <1>14, <1>15, <1>16, <1>17, <1>18

-----------------------------------------------------------------------------
(* Where in the walk the job is, beside IInv.                              *)

Spot == Index(stage, nth)

\* A stage counts no further than its list, and the executor has run when the
\* call that started it says so.
WalkInv ==
  /\ stage \in {"dirs", "prompt"} => nth = 1
  /\ stage \in DOMAIN Steps => nth <= Steps[stage] + 1
  /\ stage = "outputs" => nth <= Len(Outputs) + 1
  /\ phase = "evaluating" => job.state = "done"
  /\ pc \in Before => ~ran
  /\ pc \in {"waiting", "keep-message"} \/ result = "code" => ran

LEMMA InitWalkInv == JobInit => WalkInv
BY WalkAssumption DEF JobInit, Init, WalkInv, Steps, Before

LEMMA NextWalkInv == IInv /\ WalkInv /\ [JobNext]_allVars => WalkInv'
<1> SUFFICES ASSUME IInv, WalkInv, [JobNext]_allVars PROVE WalkInv'
  OBVIOUS
<1> USE WalkAssumption DEF WalkInv, vars, credVars, execVars, tmpVars, walkVars,
    worldVars, jobVars, Step, Steps, In, Before
<1>0. /\ CallInv /\ JobTyped /\ EvidenceInv
      /\ pc \in Before \cup {"waiting", "keep-message", "unwinding", "returned"}
      /\ nth \in Nat \ {0} /\ Len(Outputs) \in Nat
  BY DEF IInv, CallInv, JobTyped
<1>p. ASSUME NEW r \in Record, ParkWith(r), UNCHANGED vars
      PROVE  WalkInv'
  BY <1>p DEF ParkWith
<1>j. job \in Record
  BY <1>0 DEF JobTyped
<1>1. CASE UNCHANGED <<vars, walkVars>>
  BY <1>1
<1>2. CASE GiveUp \/ Settle
  BY <1>2 DEF GiveUp, Settle
<1>3. CASE Release
  <2>1. job'.state = "done" /\ UNCHANGED <<vars, stage, nth>>
    BY <1>3, <1>j DEF Release, Record
  <2> QED BY <2>1
<1>4. CASE EnsureJob
  <2>1. CASE GoTo("pre-steps", 1)
    BY <1>4, <2>1 DEF EnsureJob, GoTo
  <2> QED BY <1>p, <1>j, <1>4, <2>1 DEF EnsureJob
<1>5. CASE StepNeverStarts
  BY <1>p, <1>j, <1>5 DEF StepNeverStarts
<1>6. CASE StepRuns
  BY <1>6 DEF StepRuns
<1>7. CASE StepEnds
  <2>1. stage \in DOMAIN Steps /\ nth <= Steps[stage]
    BY <1>0, <1>7 DEF StepEnds, EvidenceInv, MoreSteps
  <2>2. CASE GoTo(stage, nth + 1)
    BY <1>0, <1>7, <2>1, <2>2 DEF StepEnds, GoTo
  <2> QED BY <1>p, <1>j, <1>7, <2>2 DEF StepEnds
<1>8. CASE StepsDone
  BY <1>8 DEF StepsDone, GoTo
<1>9. CASE CallStep
  <2>1. UNCHANGED <<walkVars, ran>>
    BY <1>0, <1>9, CallMoves DEF CallStep
  <2> QED BY <1>0, <1>9, <2>1, CallMoves DEF CallStep
<1>10. CASE Start
  BY <1>10 DEF Start, StartExecutor
<1>11. CASE AcpxRuns
  BY <1>11 DEF AcpxRuns, Executes
<1>12. CASE ExecutorExits
  BY <1>12 DEF ExecutorExits, ExecutorEnds
<1>13. CASE MessageKept
  BY <1>13 DEF MessageKept, KeepMessage
<1>14. CASE TakeResult
  <2> DEFINE kept == [job EXCEPT !.exit = code, !.versions = "versions" \in told]
  <2>1. kept \in Record /\ kept.state = job.state
    <3>1. /\ code \in Codes /\ stage \in Stages /\ nth \in Nat \ {0}
      BY <1>0 DEF JobTyped
    <3>2. ("versions" \in told) \in BOOLEAN
      OBVIOUS
    <3>3. kept \in Record
      BY <1>j, <3>1, <3>2, RecordWrites
    <3> QED BY <1>j, <3>3 DEF Record
  <2>2. CASE stage' = "outputs" /\ nth' = 1 /\ job' = kept /\ UNCHANGED phase
    BY <1>14, <2>1, <2>2 DEF TakeResult
  <2> QED BY <1>p, <1>j, <1>14, <2>1, <2>2 DEF TakeResult
<1>15. CASE CheckOutput
  <2>1. CASE GoTo(stage, nth + 1)
    BY <1>0, <1>15, <2>1 DEF CheckOutput, GoTo
  <2> QED BY <1>p, <1>j, <1>15, <2>1 DEF CheckOutput
<1>16. CASE OutputsDone
  BY <1>16 DEF OutputsDone, GoTo
<1>17. CASE Choose \/ StartStep \/ HelperRuns \/ Cancel \/ Settled
  BY <1>1, <1>17 DEF Choose, StartStep, HelperRuns, Cancel, Settled, allVars
<1>18. CASE UNCHANGED allVars
  BY <1>1, <1>18 DEF allVars
<1> QED BY <1>2, <1>3, <1>4, <1>5, <1>6, <1>7, <1>8, <1>9, <1>10, <1>11, <1>12,
           <1>13, <1>14, <1>15, <1>16, <1>17, <1>18 DEF JobNext

-----------------------------------------------------------------------------
(* Every step is the scheduler's, or none of its.                          *)

Alive == stepping \/ (In("prompt") /\ ran)

(* The evidence the walk is at.                                              *)
LEMMA UnderEvaluation ==
  ASSUME JobTyped, WalkInv
  PROVE  LET under == S!Evidence("job")[Spot]
         IN  /\ Spot \in Nat \ {0} /\ Total \in Nat
             /\ Len(S!Evidence("job")) = Total
             /\ stage = "dirs" => under.kind = "dirs" /\ Spot <= Total
             /\ MoreSteps => under.kind \in {"pre-step", "post-step"} /\ Spot <= Total
             /\ stage = "prompt" => under.kind = "executor" /\ Spot <= Total
             /\ stage = "outputs" /\ nth <= Len(Outputs) =>
                  under.kind = "output" /\ under.out = Outputs[nth] /\ Spot <= Total
             /\ stage = "post-steps" /\ nth = PostSteps + 1 => Spot = Total + 1
<1> DEFINE ev == S!Evidence("job")
<1>1. /\ PreSteps \in Nat /\ PostSteps \in Nat /\ Len(Outputs) \in Nat
      /\ nth \in Nat \ {0} /\ stage \in Stages
  BY WalkAssumption DEF JobTyped
<1>2. /\ Len(ev) = Total
      /\ ev[1].kind = "dirs"
      /\ \A n \in 1 .. PreSteps : ev[1 + n].kind = "pre-step"
      /\ ev[2 + PreSteps].kind = "executor"
      /\ \A n \in 1 .. Len(Outputs) :
           ev[2 + PreSteps + n].kind = "output" /\ ev[2 + PreSteps + n].out = Outputs[n]
      /\ \A n \in 1 .. PostSteps : ev[2 + PreSteps + Len(Outputs) + n].kind = "post-step"
  BY EvidenceItems
<1> HIDE DEF ev
<1>3. /\ Spot \in Nat \ {0} /\ Total \in Nat
      /\ stage = "dirs" => Spot = 1
      /\ stage = "pre-steps" => Spot = 1 + nth
      /\ stage = "prompt" => Spot = 2 + PreSteps
      /\ stage = "outputs" => Spot = 2 + PreSteps + nth
      /\ stage = "post-steps" => Spot = 2 + PreSteps + Len(Outputs) + nth
  <2>1. /\ stage = "dirs" => Spot = 1
        /\ stage = "pre-steps" => Spot = 1 + nth
        /\ stage = "prompt" => Spot = 2 + PreSteps
        /\ stage = "outputs" => Spot = 2 + PreSteps + nth
        /\ stage = "post-steps" => Spot = 2 + PreSteps + Len(Outputs) + nth
    BY DEF Spot, Index
  <2>2. Total \in Nat
    BY <1>1 DEF Total
  <2>3. stage \in {"dirs", "pre-steps", "prompt", "outputs", "post-steps"}
    BY <1>1 DEF Stages
  <2>4. Spot \in Nat \ {0}
    BY <1>1, <2>1, <2>3
  <2> QED BY <2>1, <2>2, <2>4
<1>4. CASE stage = "dirs" \/ stage = "prompt"
  BY <1>1, <1>2, <1>3, <1>4 DEF Total, MoreSteps, Steps, ev
<1>5. CASE stage = "pre-steps"
  BY <1>1, <1>2, <1>3, <1>5 DEF Total, MoreSteps, Steps, ev
<1>6. CASE stage = "outputs"
  BY <1>1, <1>2, <1>3, <1>6 DEF Total, MoreSteps, Steps, ev
<1>7. CASE stage = "post-steps"
  <2>1. MoreSteps <=> nth \in 1 .. PostSteps
    BY <1>1, <1>7 DEF MoreSteps, Steps
  <2>2. Spot = 2 + PreSteps + Len(Outputs) + nth
    BY <1>3, <1>7
  <2>3. MoreSteps => ev[Spot].kind = "post-step"
    BY <1>2, <2>1, <2>2
  <2>4. /\ MoreSteps => Spot <= Total
        /\ nth = PostSteps + 1 => Spot = Total + 1
    BY <1>1, <2>1, <2>2 DEF Total
  <2> QED BY <1>2, <1>3, <1>7, <2>3, <2>4 DEF ev
<1> QED BY <1>1, <1>4, <1>5, <1>6, <1>7 DEF Stages

(* What the scheduler's actions read and write, in the job's own terms.      *)
LEMMA Evaluates ==
  ASSUME JobTyped, WalkInv, phase = "evaluating", ~Alive, Spot <= Total
  PROVE  S!Evaluating("job")
<1>1. Len(S!Evidence("job")) = Total
  BY UnderEvaluation
<1> QED BY <1>1, OnlyUpdates DEF S!Evaluating, Spot, Alive

LEMMA Passes ==
  ASSUME Spot \in Nat \ {0}, Index(stage', nth') = Spot + 1, UNCHANGED phase,
         job'.state = job.state, job'.failure = job.failure
  PROVE  S!Pass("job")
<1>1. 1 .. Index(stage', nth') - 1 = (1 .. Spot - 1) \cup {Spot}
  OBVIOUS
<1> QED BY <1>1 DEF S!Pass, Only, Spot

LEMMA Parks ==
  ASSUME NEW r \in Record, ParkWith(r)
  PROVE  S!Park("job")
<1>1. /\ job'.state = "parked" /\ job'.failure = <<stage, nth>>
      /\ phase' = "closing" /\ stage' = stage /\ nth' = nth
  BY DEF ParkWith, Record
<1>2. /\ job'.failure # <<>> /\ job'.failure[1] = stage /\ job'.failure[2] = nth
  BY <1>1
<1> QED BY <1>1, <1>2 DEF S!Park, Only

LEMMA StepMaps ==
  ASSUME IInv, WalkInv, [JobNext]_allVars
  PROVE  [S!Next]_S!vars
<1> USE DEF vars, credVars, execVars, tmpVars, walkVars, worldVars, jobVars,
            allVars, In, Alive
<1>0. /\ CallInv /\ JobTyped /\ EvidenceInv
      /\ job \in Record /\ stage \in Stages /\ nth \in Nat \ {0}
      /\ Spot \in Nat \ {0} /\ Total \in Nat
      /\ PreSteps \in Nat /\ PostSteps \in Nat /\ Len(Outputs) \in Nat
  BY UnderEvaluation, WalkAssumption DEF IInv, JobTyped
<1>n. S!JobStep("job") \/ S!Touch("job") \/ S!ProcessEnds("job") => S!Next
  BY DEF S!Next
<1>s. ASSUME UNCHANGED <<phase, job, disk, cancelled>>,
             Index(stage', nth') = Spot, Alive' = Alive
      PROVE  UNCHANGED S!vars
  BY <1>s DEF S!vars, S!jobVars, S!runVars, Only, Spot
<1>e. stage \notin {"pre-steps", "post-steps"} => ~stepping
  BY <1>0 DEF EvidenceInv, MoreSteps, Steps
<1>r. stage \in {"dirs", "pre-steps"} => ~ran
  BY <1>0 DEF EvidenceInv, WalkInv, Before
<1>1. CASE GiveUp
  <2>1. ~Alive /\ ~Alive'
    BY <1>0, <1>1 DEF GiveUp, EvidenceInv
  <2>2. S!GiveUp("job")
    BY <1>1, <2>1 DEF GiveUp, S!GiveUp, S!runVars, Only
  <2> QED BY <1>n, <2>2 DEF S!JobStep
<1>2. CASE Release
  <2>1. ~Alive /\ ~Alive' /\ job.state = "pending"
    BY <1>0, <1>2 DEF Release, EvidenceInv
  <2>2. job'.state = "done" /\ job'.failure = job.failure
    BY <1>0, <1>2 DEF Release, Record
  <2>3. Only(1)["job"] = Len(Only(<<>>)["job"]) + 1
    BY DEF Only
  <2>4. S!Release("job")
    BY <1>2, <2>1, <2>2, <2>3, OnlyUpdates DEF Release, S!Release, S!runVars
  <2> QED BY <1>n, <2>4 DEF S!JobStep
<1>3. CASE Settle
  <2>1. ~Alive /\ ~Alive'
    BY <1>0, <1>3 DEF Settle, EvidenceInv
  <2>2. S!Settle("job")
    BY <1>3, <2>1 DEF Settle, S!Settle, S!runVars, Only
  <2> QED BY <1>n, <2>2 DEF S!JobStep
<1>4. CASE Cancel
  <2>1. Alive' = Alive
    BY <1>4 DEF Cancel
  <2>2. S!Cancel
    BY <1>4, <2>1 DEF Cancel, S!Cancel, S!jobVars, S!runVars, Only
  <2> QED BY <2>2 DEF S!Next
<1>5. CASE Choose \/ HelperRuns \/ Settled
  BY <1>s, <1>5 DEF Choose, HelperRuns, Settled, Spot
<1>6. CASE CallStep
  <2>1. UNCHANGED <<ran, jobVars>>
    BY <1>0, <1>6, CallMoves DEF CallStep
  <2> QED BY <1>s, <2>1 DEF Spot
<1>7. CASE ExecutorExits
  BY <1>s, <1>7 DEF ExecutorExits, ExecutorEnds, Spot
<1>8. CASE EnsureJob
  <2>1. ~Alive /\ ~Alive' /\ stage = "dirs"
    BY <1>e, <1>r, <1>8 DEF EnsureJob, GoTo, ParkWith
  <2>2. S!Evaluating("job") /\ S!Under("job").kind = "dirs"
    BY <1>0, <1>8, <2>1, Evaluates, UnderEvaluation, OnlyUpdates
      DEF IInv, EnsureJob, S!Under, Spot
  <2>3. S!Pass("job") \/ S!Park("job")
    <3>1. CASE GoTo("pre-steps", 1)
      <4>1. Spot = 1 /\ Index(stage', nth') = 2
        BY <2>1, <3>1 DEF GoTo, Index, Spot
      <4> QED BY <3>1, <4>1, Passes DEF GoTo
    <3> QED BY <1>0, <1>8, <3>1, Parks DEF EnsureJob
  <2>4. /\ job'.state # "pending" /\ job.state # "pending"
        /\ phase # "closed" /\ phase' # "closed"
    BY <1>0, <1>8 DEF EnsureJob, WalkInv, GoTo, ParkWith, Record
  <2>5. S!EnsureJob("job")
    BY <1>8, <2>1, <2>2, <2>3, <2>4 DEF EnsureJob, S!EnsureJob, S!runVars, Only
  <2> QED BY <1>n, <2>5 DEF S!JobStep
<1>9. CASE StartStep
  <2>1. ~Alive /\ Alive'
    BY <1>0, <1>r, <1>9 DEF StartStep, MoreSteps, Steps
  <2>2. S!Evaluating("job") /\ S!IsProcess(S!Under("job"))
    BY <1>0, <1>9, <2>1, Evaluates, UnderEvaluation, OnlyUpdates
      DEF IInv, StartStep, S!Under, S!IsProcess, Spot
  <2>3. S!Launch("job")
    BY <1>9, <2>1, <2>2 DEF StartStep, S!Launch, S!runVars, Only
  <2> QED BY <1>n, <2>3 DEF S!JobStep
<1>10. CASE StepNeverStarts
  <2>1. ~Alive /\ ~Alive' /\ MoreSteps
    BY <1>0, <1>r, <1>10 DEF StepNeverStarts, MoreSteps, Steps, ParkWith
  <2>2. S!Evaluating("job") /\ S!IsProcess(S!Under("job"))
    BY <1>0, <1>10, <2>1, Evaluates, UnderEvaluation, OnlyUpdates
      DEF IInv, StepNeverStarts, S!Under, S!IsProcess, Spot
  <2>3. S!Park("job")
    BY <1>0, <1>10, Parks DEF StepNeverStarts
  <2>4. /\ job'.state # "pending" /\ job.state # "pending"
        /\ phase # "closed" /\ phase' # "closed"
    BY <1>0, <1>10 DEF StepNeverStarts, WalkInv, ParkWith, Record
  <2>5. S!LaunchFails("job")
    BY <1>10, <2>1, <2>2, <2>3, <2>4 DEF StepNeverStarts, S!LaunchFails, S!runVars, Only
  <2> QED BY <1>n, <2>5 DEF S!JobStep
<1>11. CASE StepRuns \/ AcpxRuns \/ MessageKept
  <2>1. Alive /\ Alive' /\ UNCHANGED <<walkVars, cancelled>>
    BY <1>0, <1>11 DEF StepRuns, AcpxRuns, MessageKept, Executes, KeepMessage,
      CallInv, DefersInv, EvidenceInv, WalkInv, Step
  <2>2. disk' \in SUBSET Owed
    BY <1>0, <1>11 DEF StepRuns, AcpxRuns, MessageKept, JobTyped
  <2>3. S!Declared("job") = Owed
    <3>1. S!Declared("job") = {Outputs[i] : i \in 1 .. Len(Outputs)}
      BY OnlyUpdates DEF S!Declared
    <3>2. DOMAIN Outputs = 1 .. Len(Outputs)
      BY WalkAssumption
    <3> QED BY <3>1, <3>2 DEF Owed, Range
  <2>4. S!Touch("job")
    BY <2>1, <2>2, <2>3 DEF S!Touch, S!runVars, Only
  <2> QED BY <1>n, <2>4
<1>12. CASE StepEnds
  <2>1. /\ Alive /\ ~Alive'
        /\ phase = "evaluating" /\ stage \in DOMAIN Steps /\ nth <= Steps[stage]
    BY <1>0, <1>r, <1>12 DEF StepEnds, EvidenceInv, MoreSteps, Steps, GoTo, ParkWith
  <2>2. S!Pass("job") \/ S!Park("job")
    <3>1. CASE GoTo(stage, nth + 1)
      <4>1. stage \in {"pre-steps", "post-steps"}
        BY <2>1 DEF Steps
      <4>2. stage' = stage /\ nth' = nth + 1
        BY <3>1 DEF GoTo
      <4>3. Index(stage', nth') = Spot + 1
        <5>1. PreSteps \in Nat /\ Len(Outputs) \in Nat /\ nth \in Nat
          BY <1>0, WalkAssumption DEF JobTyped
        <5>2. CASE stage = "pre-steps"
          <6>1. Index(stage', nth') = 1 + (nth + 1) /\ Spot = 1 + nth
            BY <4>2, <5>2 DEF Index, Spot
          <6> QED BY <5>1, <6>1
        <5>3. CASE stage = "post-steps"
          <6>1. /\ Index(stage', nth') = 2 + PreSteps + Len(Outputs) + (nth + 1)
                /\ Spot = 2 + PreSteps + Len(Outputs) + nth
            BY <4>2, <5>3 DEF Index, Spot
          <6> QED BY <5>1, <6>1
        <5> QED BY <4>1, <5>2, <5>3
      <4> QED BY <1>0, <3>1, <4>3, Passes DEF GoTo
    <3> QED BY <1>0, <1>12, <3>1, Parks DEF StepEnds
  <2>3. /\ job'.state # "pending" /\ job.state # "pending"
        /\ phase # "closed" /\ phase' # "closed"
    BY <1>0, <1>12, <2>1 DEF StepEnds, WalkInv, GoTo, ParkWith, Record
  <2>4. S!ProcessEnds("job")
    BY <1>12, <2>1, <2>2, <2>3 DEF StepEnds, S!ProcessEnds, S!runVars, Only
  <2> QED BY <1>n, <2>4
<1>13. CASE StepsDone /\ stage = "pre-steps"
  <2>1. /\ nth = PreSteps + 1 /\ stage' = "prompt" /\ nth' = 1
        /\ UNCHANGED <<vars, phase, job, worldVars, cancelled>>
    BY <1>13 DEF StepsDone, GoTo
  <2>2. ~Alive /\ ~Alive'
    BY <1>0, <1>r, <2>1, <1>13 DEF EvidenceInv, MoreSteps, Steps
  <2>3. Index(stage', nth') = Spot
    BY <1>0, <2>1, <1>13 DEF Index, Spot
  <2> QED BY <1>s, <2>1, <2>2, <2>3
<1>14. CASE StepsDone /\ stage = "post-steps"
  <2>1. /\ phase = "evaluating" /\ phase' = "closing" /\ nth = PostSteps + 1
        /\ UNCHANGED <<vars, stage, nth, job, worldVars, cancelled>>
    BY <1>14 DEF StepsDone, GoTo
  <2>2. ~Alive /\ ~Alive'
    BY <1>0, <2>1, <1>14 DEF EvidenceInv, MoreSteps, Steps
  <2>3. Spot = Total + 1 /\ Len(S!Evidence("job")) = Total
    BY <1>0, <2>1, <1>14, UnderEvaluation DEF IInv
  <2>4. S!AllPassed("job")
    BY <2>1, <2>2, <2>3 DEF S!AllPassed, S!runVars, Only, Spot
  <2> QED BY <1>n, <2>4 DEF S!JobStep
<1>15. CASE Start
  <2>1. ~Alive /\ Alive' /\ stage = "prompt"
    BY <1>0, <1>e, <1>15 DEF Start, StartExecutor, Step, WalkInv, Before
  <2>2. S!Evaluating("job") /\ S!IsProcess(S!Under("job"))
    BY <1>0, <1>15, <2>1, Evaluates, UnderEvaluation, OnlyUpdates
      DEF IInv, Start, S!Under, S!IsProcess, Spot
  <2>3. S!Launch("job")
    BY <1>15, <2>1, <2>2 DEF Start, S!Launch, S!runVars, Only
  <2> QED BY <1>n, <2>3 DEF S!JobStep
<1>16. CASE TakeResult
  <2> DEFINE kept == [job EXCEPT !.exit = code, !.versions = "versions" \in told]
  <2>1. /\ phase = "evaluating" /\ stage = "prompt" /\ nth = 1 /\ ~stepping
        /\ UNCHANGED <<vars, worldVars, cancelled>>
        /\ result \in {"code", "error"}
    BY <1>0, <1>e, <1>16 DEF TakeResult, WalkInv, CallInv
  <2>2. kept \in Record /\ kept.state = job.state /\ kept.failure = job.failure
    <3>1. code \in Codes /\ ("versions" \in told) \in BOOLEAN
      BY <1>0 DEF JobTyped
    <3>2. kept \in Record
      BY <1>0, <3>1, RecordWrites
    <3> QED BY <1>0, <3>2 DEF Record
  <2>3. \/ ParkWith(job) \/ ParkWith(kept)
        \/ /\ result = "code" /\ stage' = "outputs" /\ nth' = 1 /\ job' = kept
           /\ UNCHANGED phase
    BY <2>1, <1>16 DEF TakeResult
  <2>4. result = "error" => ParkWith(job)
    BY <1>16 DEF TakeResult
  <2>5. /\ job'.state # "pending" /\ job.state # "pending"
        /\ phase # "closed" /\ phase' # "closed" /\ ~Alive'
    BY <1>0, <2>1, <2>2, <2>3 DEF WalkInv, ParkWith, Record
  <2>6. CASE ran
    <3>1. Alive
      BY <2>1, <2>6
    <3>2. CASE stage' = "outputs" /\ nth' = 1 /\ job' = kept /\ UNCHANGED phase
      <4>1. Index(stage', nth') = Spot + 1
        BY <1>0, <2>1, <3>2 DEF Index, Spot
      <4>2. S!Pass("job")
        BY <1>0, <2>2, <3>2, <4>1, Passes
      <4> QED BY <2>1, <2>5, <3>1, <4>2, <1>n DEF S!ProcessEnds, S!runVars, Only
    <3>3. CASE ParkWith(job) \/ ParkWith(kept)
      <4>1. S!Park("job")
        BY <1>0, <2>2, <3>3, Parks
      <4> QED BY <2>1, <2>5, <3>1, <4>1, <1>n DEF S!ProcessEnds, S!runVars, Only
    <3> QED BY <2>3, <3>2, <3>3
  <2>7. CASE ~ran
    <3>1. ~Alive /\ ParkWith(job)
      BY <2>1, <2>4, <2>7 DEF WalkInv
    <3>2. S!Evaluating("job") /\ S!IsProcess(S!Under("job"))
      BY <1>0, <2>1, <3>1, Evaluates, UnderEvaluation, OnlyUpdates
        DEF IInv, S!Under, S!IsProcess, Spot
    <3>3. S!Park("job")
      BY <1>0, <3>1, Parks
    <3>4. S!LaunchFails("job")
      BY <2>1, <2>5, <3>1, <3>2, <3>3 DEF S!LaunchFails, S!runVars, Only
    <3> QED BY <1>n, <3>4 DEF S!JobStep
  <2> QED BY <2>6, <2>7
<1>17. CASE CheckOutput
  <2>1. /\ ~Alive /\ ~Alive' /\ phase = "evaluating" /\ stage = "outputs"
        /\ nth <= Len(Outputs) /\ UNCHANGED <<vars, worldVars, cancelled>>
    BY <1>e, <1>17 DEF CheckOutput, GoTo, ParkWith
  <2>2. /\ S!Evaluating("job") /\ S!Under("job").kind = "output"
        /\ S!Under("job").out = Outputs[nth]
    BY <1>0, <2>1, Evaluates, UnderEvaluation, OnlyUpdates DEF IInv, S!Under, Spot
  <2>3. /\ job'.state # "pending" /\ job.state # "pending"
        /\ phase # "closed" /\ phase' # "closed"
    BY <1>0, <2>1, <1>17 DEF CheckOutput, WalkInv, GoTo, ParkWith, Record
  <2>4. CASE Outputs[nth] \in disk
    <3>1. stage' = stage /\ nth' = nth + 1 /\ UNCHANGED <<phase, job>>
      BY <1>17, <2>4 DEF CheckOutput, GoTo
    <3>2. Index(stage', nth') = Spot + 1
      BY <1>0, <2>1, <3>1 DEF Index, Spot
    <3>3. S!Pass("job")
      BY <1>0, <3>1, <3>2, Passes
    <3>4. S!OutputPresent("job")
      BY <2>1, <2>2, <2>3, <2>4, <3>3 DEF S!OutputPresent, S!runVars, Only
    <3> QED BY <1>n, <3>4 DEF S!JobStep
  <2>5. CASE Outputs[nth] \notin disk
    <3>1. S!Park("job")
      BY <1>0, <1>17, <2>5, Parks DEF CheckOutput
    <3>2. S!OutputMissing("job")
      BY <2>1, <2>2, <2>3, <2>5, <3>1 DEF S!OutputMissing, S!runVars, Only
    <3> QED BY <1>n, <3>2 DEF S!JobStep
  <2> QED BY <2>4, <2>5
<1>18. CASE OutputsDone
  <2>1. /\ stage = "outputs" /\ nth = Len(Outputs) + 1 /\ stage' = "post-steps"
        /\ nth' = 1 /\ UNCHANGED <<vars, phase, job, worldVars, cancelled>>
    BY <1>18 DEF OutputsDone, GoTo
  <2>2. Index(stage', nth') = Spot
    BY <1>0, <2>1 DEF Index, Spot
  <2>3. Alive' = Alive
    BY <1>e, <2>1
  <2> QED BY <1>s, <2>1, <2>2, <2>3
<1>19. CASE UNCHANGED allVars
  BY <1>s, <1>19 DEF Spot
<1> QED BY <1>1, <1>2, <1>3, <1>4, <1>5, <1>6, <1>7, <1>8, <1>9, <1>10, <1>11,
           <1>12, <1>13, <1>14, <1>15, <1>16, <1>17, <1>18, <1>19
        DEF JobNext, StepsDone

LEMMA InitMaps == JobInit => S!Init
<1> SUFFICES ASSUME JobInit PROVE S!Init
  OBVIOUS
<1>1. Index(stage, nth) = 1 /\ 1 .. Index(stage, nth) - 1 = {}
  BY DEF JobInit, Index
<1> QED BY <1>1 DEF JobInit, S!Init, Only, In

(* The job's stages, with an executor call that can fail at every step, are  *)
(* the scheduler's walk over one list of evidence, for any steps, outputs,   *)
(* credentials and threads.                                                  *)
THEOREM StagesAreTheWalk == JobSpec => ImplementsScheduler
<1>1. JobInit => IInv /\ WalkInv
  BY InitIInv, InitWalkInv
<1>2. IInv /\ WalkInv /\ [JobNext]_allVars => (IInv /\ WalkInv)'
  BY NextIInv, NextWalkInv
<1>3. IInv /\ WalkInv /\ [JobNext]_allVars => [S!Next]_S!vars
  BY StepMaps
<1> QED BY InitMaps, <1>1, <1>2, <1>3, PTL DEF JobSpec, ImplementsScheduler, S!Safety

=============================================================================
