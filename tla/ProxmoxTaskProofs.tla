------------------------- MODULE ProxmoxTaskProofs --------------------------
(***************************************************************************)
(* ProxmoxTask implements CallSequence, for any number of calls.           *)
(***************************************************************************)
EXTENDS ProxmoxTask, TLAPS

(* The client starts in the invariant. *)
LEMMA InitIInv == Init => IInv
  BY CallsAssumption DEF Init, IInv, TypeOK, WireInv, NotFoundChangedNothing

(* Going on to the next call: it has not been requested yet, and the one    *)
(* that is left has been executed.                                          *)
LEMMA SuccessStep ==
  ASSUME IInv, Success, srv[k] \in {"ok", "mute"}, wire' = "none", pc # "returned", UNCHANGED <<ctx, srv>>
  PROVE  IInv'
<1> USE CallsAssumption DEF IInv, TypeOK, WireInv, NotFoundChangedNothing
<1>1. CASE k = K
  BY <1>1 DEF Success, Return
<1>2. CASE k # K
  <2>1. k' = k + 1 /\ k' \in 1..K /\ pc' = "ready" /\ out' = out
    BY <1>2 DEF Success
  <2>2. \A i \in 1..K : (i > k' => i > k) /\ (i < k' => i < k \/ i = k) /\ srv[k'] = "idle"
    BY <2>1
  <2>3. QED BY <2>1, <2>2
<1>3. QED BY <1>1, <1>2

(* Every step of the client and of the server keeps it. *)
LEMMA StepIInv == IInv /\ [Next]_vars => IInv'
<1> SUFFICES ASSUME IInv, [Next]_vars PROVE IInv'
  OBVIOUS
<1> USE CallsAssumption DEF IInv, TypeOK, WireInv, NotFoundChangedNothing
<1>1. CASE Post
  BY <1>1 DEF Post
<1>2. CASE PostAnswered
  <2>1. CASE wire = "null" /\ Success
    BY <1>2, <2>1, SuccessStep DEF PostAnswered
  <2>2. CASE ~(wire = "null" /\ Success)
    BY <1>2, <2>2 DEF PostAnswered, Return, PostAnswers, PollAnswers
  <2>3. QED BY <2>1, <2>2
<1>3. CASE Poll
  BY <1>3 DEF Poll
<1>4. CASE PollAnswered
  <2>1. CASE SaysDone /\ Success
    BY <1>4, <2>1, SuccessStep DEF PollAnswered, SaysDone
  <2>2. CASE ~(SaysDone /\ Success)
    BY <1>4, <2>2 DEF PollAnswered, Return, PollError, StillRunning, PostAnswers, PollAnswers
  <2>3. QED BY <2>1, <2>2
<1>5. CASE Wake
  BY <1>5 DEF Wake
<1>6. CASE TimedOut
  BY <1>6 DEF TimedOut, Return, HangUp, PostAnswers, PollAnswers
<1>7. CASE Interrupted
  BY <1>7 DEF Interrupted, Interruptible, Return, HangUp, PostAnswers, PollAnswers
<1>8. CASE Invalid
  BY <1>8 DEF Invalid, Return
<1>9. CASE Cancel
  BY <1>9 DEF Cancel
<1>10. CASE Refuse
  BY <1>10 DEF Refuse, Reply, PostAnswers, PollAnswers
<1>11. CASE ExecuteNow
  BY <1>11 DEF ExecuteNow, Reply, PostAnswers, PollAnswers
<1>12. CASE StartTask
  BY <1>12 DEF StartTask, Reply, PostAnswers, PollAnswers
<1>13. CASE AnswerPoll
  BY <1>13 DEF AnswerPoll, Reply, PostAnswers, PollAnswers
<1>14. ASSUME NEW i \in 1..K, TaskEnds(i) PROVE IInv'
  BY <1>14 DEF TaskEnds
<1>15. CASE Stop \/ UNCHANGED vars
  BY <1>15 DEF Stop, vars
<1>16. QED BY <1>1, <1>2, <1>3, <1>4, <1>5, <1>6, <1>7, <1>8, <1>9, <1>10, <1>11, <1>12,
              <1>13, <1>14, <1>15 DEF Next, Client, Server

(* The invariant holds in every run of the client and the server.          *)
THEOREM Inductive == Spec => []IInv
  BY InitIInv, StepIInv, PTL DEF Spec

(* Every variable keeps its type. *)
THEOREM TypeCorrect == Spec => []TypeOK
<1>1. IInv => TypeOK
  BY DEF IInv
<1>2. QED BY Inductive, <1>1, PTL

(* The sentinel for an absent VM, snapshot or storage is returned only for  *)
(* a call the server refused to begin.                                      *)
THEOREM NotFoundIsHarmless == Spec => []NotFoundChangedNothing
<1>1. IInv => NotFoundChangedNothing
  BY DEF IInv
<1>2. QED BY Inductive, <1>1, PTL

Tasks == [i \in 1..K |-> TaskOf(i)]
OutOf == IF out = "notfound" THEN "err" ELSE out

(* A step that sends nothing and leaves the server alone changes no task.   *)
LEMMA TasksKept ==
  ASSUME IInv, srv' = srv, wire' = "post" <=> wire = "post", k' = k
  PROVE  Tasks' = Tasks
<1>1. ASSUME NEW i \in 1..K PROVE TaskOf(i)' = TaskOf(i)
  <2>1. CASE srv[i] = "idle"
    BY <2>1 DEF TaskOf
  <2>2. CASE srv[i] # "idle"
    BY <2>2 DEF TaskOf, IInv, TypeOK
  <2>3. QED BY <2>1, <2>2
<1>2. QED BY <1>1 DEF Tasks

(* A return with an error is Fail. *)
LEMMA ReturnFails ==
  ASSUME IInv, pc # "returned", out' \in {"err", "notfound"}, Tasks' = Tasks, k' = k
  PROVE  Sequence!Fail
  BY DEF Sequence!Fail, Tasks, OutOf, IInv, WireInv

(* Going on after an executed call is Advance. *)
LEMMA SuccessAdvances ==
  ASSUME IInv, IInv', Success, srv[k] \in {"ok", "mute"}, wire # "post", wire' = "none", pc # "returned", srv' = srv
  PROVE  Sequence!Advance
<1> USE CallsAssumption DEF IInv, TypeOK, WireInv
<1>1. out = "none" /\ Tasks[k] \in {"ok", "unreported"}
  BY DEF Tasks, TaskOf
<1>2. Tasks' = Tasks
  BY DEF Tasks, TaskOf
<1>3. k = K => out' = "nil" /\ k' = k
  BY DEF Success, Return
<1>4. k # K => k' = k + 1 /\ out' = out
  BY DEF Success
<1>5. QED BY <1>1, <1>2, <1>3, <1>4 DEF Sequence!Advance, Tasks

(* The server's answer to the request on the wire settles the current task. *)
LEMMA ServerSettles ==
  ASSUME IInv, wire = "post", wire' # "post", UNCHANGED <<k, out>>,
         NEW s \in {"refused", "ok", "running"}, srv' = [srv EXCEPT ![k] = s]
  PROVE  Sequence!Settle(k)
<1> USE DEF IInv, TypeOK, WireInv
<1>1. Tasks[k] = "sent"
  BY DEF Tasks, TaskOf
<1>2. Tasks' = [Tasks EXCEPT ![k] = IF s = "refused" THEN "failed" ELSE s]
  BY DEF Tasks, TaskOf
<1>3. QED BY <1>1, <1>2 DEF Sequence!Settle, Tasks

(* Every step of ProxmoxTask is a step of CallSequence or changes nothing   *)
(* that CallSequence speaks of.                                             *)
LEMMA StepRefines == IInv /\ IInv' /\ [Next]_vars => [Sequence!Next]_Sequence!vars
<1> SUFFICES ASSUME IInv, IInv', [Next]_vars
             PROVE  Sequence!Next \/ (k' = k /\ OutOf' = OutOf /\ Tasks' = Tasks)
  BY DEF Sequence!vars, OutOf, Tasks
<1> USE DEF Sequence!Next
<1>1. CASE Post
  <2>1. Tasks[k] = "none" /\ out = "none" /\ k \in 1..K
    BY <1>1 DEF Post, Tasks, TaskOf, IInv, TypeOK, WireInv
  <2>2. Tasks' = [Tasks EXCEPT ![k] = "sent"]
    BY <1>1 DEF Post, Tasks, TaskOf, IInv, TypeOK, WireInv
  <2>3. QED BY <1>1, <2>1, <2>2 DEF Post, Sequence!Issue, Tasks
<1>2. CASE PostAnswered
  <2>1. wire # "post" /\ wire' # "post" /\ srv' = srv /\ pc # "returned" /\ wire' = "none"
    BY <1>2 DEF PostAnswered, PostAnswers
  <2>2. CASE wire = "null" /\ Success
    <3>1. srv[k] = "ok"
      BY <2>2 DEF IInv, WireInv
    <3>2. QED BY <2>1, <2>2, <3>1, SuccessAdvances
  <2>3. CASE UNCHANGED <<k, out>>
    BY <2>1, <2>3, TasksKept DEF OutOf
  <2>4. CASE k' = k /\ out' \in {"err", "notfound"}
    BY <2>1, <2>4, TasksKept, ReturnFails
  <2>5. QED BY <1>2, <2>2, <2>3, <2>4 DEF PostAnswered, Return
<1>3. CASE PollAnswered
  <2>1. wire # "post" /\ wire' # "post" /\ srv' = srv /\ pc # "returned" /\ wire' = "none"
    BY <1>3 DEF PollAnswered, PollAnswers
  <2>2. CASE SaysDone /\ Success
    <3>1. srv[k] \in {"ok", "mute"}
      BY <2>2 DEF IInv, WireInv, SaysDone
    <3>2. QED BY <2>1, <2>2, <3>1, SuccessAdvances
  <2>3. CASE UNCHANGED <<k, out>>
    BY <2>1, <2>3, TasksKept DEF OutOf
  <2>4. CASE k' = k /\ out' = "err"
    BY <2>1, <2>4, TasksKept, ReturnFails
  <2>5. QED BY <1>3, <2>2, <2>3, <2>4 DEF PollAnswered, Return, PollError
<1>4. CASE Poll \/ Wake \/ Cancel
  <2>1. UNCHANGED <<k, out, srv>> /\ (wire' = "post" <=> wire = "post")
    BY <1>4 DEF Poll, Wake, Cancel, IInv, WireInv
  <2>2. QED BY <2>1, TasksKept DEF OutOf
<1>5. CASE TimedOut \/ Interrupted \/ Invalid
  <2>1. k' = k /\ srv' = srv /\ out' = "err" /\ pc # "returned" /\ (wire' = "post" <=> wire = "post")
    BY <1>5 DEF TimedOut, Interrupted, Interruptible, Invalid, Return, HangUp
  <2>2. QED BY <2>1, TasksKept, ReturnFails
<1>6. CASE Refuse \/ ExecuteNow \/ StartTask
  <2>1. /\ UNCHANGED <<k, out>> /\ wire = "post" /\ wire' # "post"
        /\ \E s \in {"refused", "ok", "running"} : srv' = [srv EXCEPT ![k] = s]
    BY <1>6 DEF Refuse, ExecuteNow, StartTask, Reply
  <2>2. Sequence!Settle(k) /\ k \in 1..K
    BY <2>1, ServerSettles DEF IInv, TypeOK
  <2>3. QED BY <2>2
<1>7. CASE AnswerPoll
  <2>1. UNCHANGED <<k, out, srv>> /\ wire # "post" /\ wire' # "post"
    BY <1>7 DEF AnswerPoll, Reply
  <2>2. QED BY <2>1, TasksKept DEF OutOf
<1>8. ASSUME NEW i \in 1..K, TaskEnds(i) PROVE Sequence!Settle(i)
  <2>1. Tasks[i] = "running"
    BY <1>8 DEF TaskEnds, Tasks, TaskOf
  <2>2. PICK s \in {"ok", "warned", "failed", "mute"} : srv' = [srv EXCEPT ![i] = s]
    BY <1>8 DEF TaskEnds
  <2>3. Tasks' = [Tasks EXCEPT ![i] = CASE s = "warned" -> "ok" [] s = "mute" -> "unreported" [] OTHER -> s]
    BY <1>8, <2>2 DEF TaskEnds, Tasks, TaskOf, IInv, TypeOK, WireInv
  <2>4. QED BY <1>8, <2>1, <2>2, <2>3 DEF Sequence!Settle, Tasks, TaskEnds
<1>9. CASE Stop \/ UNCHANGED vars
  <2>1. UNCHANGED <<k, out, srv, wire>>
    BY <1>9 DEF Stop, vars
  <2>2. QED BY <2>1, TasksKept DEF OutOf
<1>10. QED BY <1>1, <1>2, <1>3, <1>4, <1>5, <1>6, <1>7, <1>8, <1>9 DEF Next, Client, Server

(* A list of calls through the client keeps the promise MultiNode relies    *)
(* on: in order, each at most once, and nil only when all were executed or  *)
(* ended unreported.                                                        *)
THEOREM Refinement == Spec => ImplementsSequence
<1>1. Init => Sequence!Init
  BY CallsAssumption DEF Init, Sequence!Init, TaskOf
<1>2. QED BY <1>1, StepRefines, Inductive, PTL DEF Spec, ImplementsSequence, Sequence!Spec
=============================================================================
