-------------------------- MODULE MultiNodeProofs --------------------------
(***************************************************************************)
(* The invariant of MultiNode and what follows from it, for every number   *)
(* of nodes, every concurrency and every mode of `workflow up`.            *)
(*                                                                         *)
(* IInv is proved inductive one conjunct at a time: <Part>Step says that   *)
(* a step from a state in IInv leads to a state in <Part>, with one case   *)
(* per action of Next.  Inductive puts the parts together.                 *)
(***************************************************************************)
EXTENDS MultiNode, FiniteSetTheorems, TLAPS

(* The successor of a step is a step. *)
LEMMA AfterType == \A s \in Steps \ {"end"} : After(s) \in Steps
  BY DEF Steps, Calls, After

(* What a request does to a VM is a VM. *)
LEMMA EffectType == ASSUME NEW op \in Calls, NEW v \in VMs PROVE Effect(op, v) \in VMs
<1> USE DEF VMs, NoVM, AttachVol
<1>1. CASE op = "create" BY <1>1 DEF Effect
<1>2. CASE op = "attach" BY <1>2 DEF Effect
<1>3. CASE op = "boot" BY <1>3 DEF Effect
<1>4. CASE op = "start" BY <1>4 DEF Effect
<1>5. CASE op = "eject3" BY <1>5 DEF Effect
<1>6. CASE op = "eject2" BY <1>6 DEF Effect
<1>7. CASE op = "bootdisk" BY <1>7 DEF Effect
<1>8. CASE op = "upload" BY <1>8 DEF Effect
<1>9. QED BY <1>1, <1>2, <1>3, <1>4, <1>5, <1>6, <1>7, <1>8 DEF Calls

(* The deferred unlock leaves a node or 0. *)
LEMMA UnlockType == ASSUME TypeOK, NEW n \in Nodes, Unlock(n) PROVE mu' \in Nodes \cup {0}
  BY DEF Unlock, TypeOK

(* The end of one node's finalize: the next node is a node. *)
LEMMA FinalizeReturnType ==
  ASSUME ConstantsAssumption, TypeOK, NEW n \in Nodes, NEW w \in {"none", "own"}, FinalizeReturn(n, w)
  PROVE  TypeOK'
<1> USE DEF TypeOK, FinalizeReturn, Go, goVars, lockVars, pveVars
<1>1. cur' \in Nodes BY DEF Nodes
<1>2. phase' \in {"plan", "apply", "verify", "finalize", "returned"} /\ result' \in {"none", "nil", "err"}
  OBVIOUS
<1>3. QED BY <1>1, <1>2

(* There are finitely many nodes inside applyNode ... *)
LEMMA ActiveFinite == IsFiniteSet(Active)
<1>1. IsFiniteSet(Nodes) BY FS_Interval, ConstantsAssumption DEF Nodes
<1>2. QED BY <1>1, FS_Subset DEF Active

(* ... and when there is one, there is a token to take back. *)
LEMMA ActiveIn == ASSUME NEW n \in Active PROVE Cardinality(Active) \in Nat \ {0}
  BY ActiveFinite, FS_EmptySet, FS_CardinalityType

(* 0, the free mutex and the absent error, is no node. *)
LEMMA ZeroIsNoNode == 0 \notin Nodes
  BY DEF Nodes

(* In the finalize loop the only goroutine that moves is the one at cur. *)
LEMMA FinalizeAt ==
  ASSUME TypeOK, ControlInv, phase = "finalize", NEW n \in Nodes, st[n] \in {"ready", "call"}
  PROVE  n = cur /\ step[n] \in FinalSteps
<1>1. n \in Nat /\ cur \in Nat
  BY ConstantsAssumption DEF TypeOK, Nodes
<1>2. n = cur
  BY <1>1 DEF ControlInv, NodeFinalize
<1>3. QED BY <1>2 DEF ControlInv, NodeFinalize

(* The end of one node's finalize keeps the control points in order. *)
LEMMA FinalizeReturnControl ==
  ASSUME TypeOK, ControlInv, NEW n \in Nodes, NEW w \in {"none", "own"},
         w = "none" => step[n] = "end", st[n] \in {"ready", "call"}, FinalizeReturn(n, w)
  PROVE  ControlInv'
<1>1. /\ phase = "finalize" /\ n = cur
      /\ st' = [st EXCEPT ![n] = "finalized"] /\ why' = [why EXCEPT ![n] = w] /\ step' = step
  BY FinalizeAt DEF FinalizeReturn, Go
<1>2. ASSUME NEW m \in Nodes
      PROVE  /\ st'[m] = IF m = n THEN "finalized" ELSE st[m]
             /\ why'[m] = IF m = n THEN w ELSE why[m]
             /\ step'[m] = step[m]
  BY <1>1 DEF TypeOK
<1>3. ASSUME NEW m \in Nodes PROVE NodeControl(m)'
  BY <1>2, ControlInv DEF ControlInv, NodeControl
<1>4. n \in Nat /\ n <= N /\ \A m \in Nodes : m \in Nat /\ m <= N
  BY ConstantsAssumption DEF Nodes
<1>5. CASE n = N
  <2>1. phase' = "returned" /\ result' # "none"
    BY <1>5 DEF FinalizeReturn
  <2>2. ASSUME NEW m \in Nodes PROVE st'[m] = IF SkipFinalize THEN "done" ELSE "finalized"
    BY <1>1, <1>2, <1>4, <1>5, ConstantsAssumption DEF ControlInv, NodeFinalize
  <2>3. QED BY <2>1, <2>2, <1>3 DEF ControlInv
<1>6. CASE n # N
  <2>1. phase' = "finalize" /\ cur' = n + 1 /\ result' = result
    BY <1>1, <1>6 DEF FinalizeReturn
  <2>2. ASSUME NEW m \in Nodes PROVE NodeFinalize(m)'
    <3>1. CASE m = n
      BY <2>1, <3>1, <1>2, <1>4 DEF NodeFinalize
    <3>2. CASE m < n
      BY <2>1, <3>2, <1>1, <1>2, <1>4 DEF ControlInv, NodeFinalize
    <3>3. CASE m > n
      BY <2>1, <3>3, <1>1, <1>2, <1>4 DEF ControlInv, NodeFinalize
    <3>4. QED BY <3>1, <3>2, <3>3, <1>4
  <2>3. QED BY <1>1, <2>1, <2>2, <1>3 DEF ControlInv
<1>7. QED BY <1>5, <1>6

(* A step that leaves a node's step and VM alone keeps NodeServed, unless  *)
(* it brings the node to an executed call or to the end of finalize.       *)
LEMMA ServerQuiet ==
  ASSUME NEW m \in Nodes, NodeServed(m), step'[m] = step[m], vm'[m] = vm[m],
         st'[m] = "call" /\ task'[m].state = "ok" => st[m] = "call" /\ task[m].state = "ok",
         phase' = "finalize" /\ step[m] = "end" /\ st'[m] \in {"ready", "finalized"}
           => phase = "finalize" /\ st[m] \in {"ready", "finalized"}
  PROVE  NodeServed(m)'
  BY DEF NodeServed, Finalized

(* NilMeansDone speaks of the result and the server only.                    *)
LEMMA NilQuiet ==
  ASSUME NilMeansDone, result' = result, vm' = vm, task' = task
  PROVE  NilMeansDone'
  BY DEF NilMeansDone, Finalized

(* When the last node's finalize makes Up return nil, every node is done. *)
LEMMA FinalizeReturnNil ==
  ASSUME TypeOK, NilMeansDone, ControlInv, TaskInv, ServerInv,
         NEW n \in Nodes, NEW w \in {"none", "own"},
         st[n] \in {"ready", "call"}, w = "none" => st[n] = "ready" /\ step[n] = "end",
         FinalizeReturn(n, w)
  PROVE  NilMeansDone'
<1>1. /\ phase = "finalize" /\ n = cur /\ result = "none" /\ ~SkipFinalize
      /\ why' = [why EXCEPT ![n] = w] /\ vm' = vm /\ task' = task
  BY FinalizeAt DEF FinalizeReturn, pveVars, ControlInv
<1>2. SUFFICES ASSUME result' = "nil" PROVE NilMeansDone'
  BY DEF NilMeansDone
<1>3. n = N /\ \A m \in Nodes : why'[m] = "none"
  BY <1>1, <1>2 DEF FinalizeReturn
<1>4. ASSUME NEW m \in Nodes
      PROVE  vm[m].owner = "ours" /\ vm[m].status = "running" /\ Finalized(m) /\ task[m].state = "ok"
  <2>1. st[m] \in {"ready", "finalized"} /\ step[m] = "end" /\ why[m] = "none"
    <3>1. CASE m = n
      BY <3>1, <1>1, <1>3 DEF TypeOK, ControlInv, NodeControl
    <3>2. CASE m # n
      <4>1. m < cur
        BY <3>2, <1>1, <1>3, ConstantsAssumption DEF Nodes
      <4>2. why[m] = "none"
        BY <3>2, <1>1, <1>3 DEF TypeOK
      <4>3. QED BY <4>1, <4>2, <1>1 DEF ControlInv, NodeFinalize
    <3>3. QED BY <3>1, <3>2
  <2>2. Finalized(m)
    BY <2>1, <1>1 DEF ServerInv, NodeServed
  <2>3. task[m].state = "ok"
    BY <2>1 DEF TaskInv, Created, FinalSteps
  <2>4. QED BY <2>2, <2>3 DEF Finalized
<1>5. QED BY <1>1, <1>4 DEF NilMeansDone, Finalized

(* Only a request that lands, or another user, changes a VM.                *)
LEMMA VmWriters == [Next]_vars => vm' = vm \/ \E n \in Nodes : Land(n) \/ Foreign(n)
<1> SUFFICES ASSUME [Next]_vars PROVE vm' = vm \/ \E n \in Nodes : Land(n) \/ Foreign(n)
  OBVIOUS
<1> USE DEF pveVars
<1>1. CASE Main \/ Stop \/ UNCHANGED vars
  BY <1>1 DEF Main, PlanFree, PlanError, WaitApply, Verify, Stop, vars
<1>2. ASSUME NEW n \in Nodes, Goroutine(n) PROVE vm' = vm
  BY <1>2 DEF Goroutine, Acquire, GiveUp, LocalStep, LocalFail, VerifyIso, VerifyIsoFail, LockUpload,
     Issue, IssueCancelled, CallOk, CallFailed, CallTimeout, CallCancelled, ApplyCallError, ApplyDone,
     Release, Return, FinalizeBegin, SshUp, SshTimeout, FinalizeFailed, FinalizeDone, FinalizeReturn
<1>3. ASSUME NEW n \in Nodes, CallLost(n) \/ FinalizeLost(n) \/ Accept(n) \/ Reject(n) PROVE vm' = vm
  BY <1>3 DEF CallLost, ApplyCallError, FinalizeLost, FinalizeReturn, Accept, Reject
<1>4. QED BY <1>1, <1>2, <1>3 DEF Next, Server

(* Every step keeps the types. Release needs the token count (a token       *)
(* is in the channel), Land and CallOk that an open request is the step     *)
(* of its node.                                                             *)
LEMMA TypeOKStep == IInv /\ [Next]_vars => TypeOK'
<1> SUFFICES ASSUME TypeOK, ConcurrencyCapped, TaskInv, [Next]_vars PROVE TypeOK'
  BY DEF IInv
<1> USE ConstantsAssumption DEF TypeOK, Go, upVars, goVars, lockVars, pveVars
<1>1. CASE PlanFree
  BY <1>1 DEF PlanFree, Nodes
<1>2. CASE PlanError
  BY <1>2 DEF PlanError
<1>3. CASE WaitApply
  BY <1>3 DEF WaitApply, ApplyFailed
<1>4. CASE Verify
  BY <1>4 DEF Verify
<1>5. ASSUME NEW n \in Nodes, Goroutine(n) PROVE TypeOK'
  <2>1. CASE Acquire(n)
    BY <2>1 DEF Acquire, SlotFree
  <2>2. CASE GiveUp(n)
    BY <2>2 DEF GiveUp
  <2>3. CASE LocalStep(n)
    BY <2>3, AfterType DEF LocalStep
  <2>4. CASE LocalFail(n)
    BY <2>4 DEF LocalFail, Leave
  <2>5. CASE VerifyIso(n)
    BY <2>5, AfterType DEF VerifyIso
  <2>6. CASE VerifyIsoFail(n)
    BY <2>6 DEF VerifyIsoFail, Leave
  <2>7. CASE LockUpload(n)
    BY <2>7 DEF LockUpload, UploadFree
  <2>8. CASE Issue(n)
    BY <2>8 DEF Issue, CanCall, Tasks
  <2>9. CASE IssueCancelled(n)
    BY <2>9 DEF IssueCancelled, CanCall, Leave, Unlock
  <2>10. CASE CallOk(n)
    BY <2>10, AfterType, UnlockType DEF CallOk, Executed, Unlock, TaskInv, Steps, Calls
  <2>11. CASE CallFailed(n)
    BY <2>11 DEF CallFailed, ApplyCallError, Leave, Unlock
  <2>12. CASE CallTimeout(n)
    BY <2>12 DEF CallTimeout, ApplyCallError, Leave, Unlock
  <2>13. CASE CallCancelled(n)
    BY <2>13 DEF CallCancelled, ApplyCallError, Leave, Unlock
  <2>14. CASE ApplyDone(n)
    BY <2>14 DEF ApplyDone
  <2>15. CASE Release(n)
    <3>1. n \in Active
      BY <2>15 DEF Release, Active
    <3>2. sem' \in 0..MaxConcurrency
      BY <2>15, <3>1, ActiveIn DEF Release, ConcurrencyCapped
    <3>3. QED BY <2>15, <3>2 DEF Release
  <2>16. CASE Return(n)
    BY <2>16 DEF Return, KeepsError
  <2>17. CASE FinalizeBegin(n)
    BY <2>17 DEF FinalizeBegin, Steps, Calls
  <2>18. CASE SshUp(n)
    BY <2>18, AfterType DEF SshUp
  <2>19. CASE SshTimeout(n)
    BY <2>19, FinalizeReturnType DEF SshTimeout
  <2>20. CASE FinalizeFailed(n)
    BY <2>20, FinalizeReturnType DEF FinalizeFailed
  <2>21. CASE FinalizeDone(n)
    BY <2>21, FinalizeReturnType DEF FinalizeDone
  <2>99. QED BY <1>5, <2>1, <2>2, <2>3, <2>4, <2>5, <2>6, <2>7, <2>8, <2>9, <2>10, <2>11, <2>12, <2>13, <2>14, <2>15, <2>16, <2>17, <2>18, <2>19, <2>20, <2>21 DEF Goroutine
<1>6. ASSUME NEW n \in Nodes, CallLost(n) \/ FinalizeLost(n) \/ Server(n) \/ Foreign(n)
      PROVE TypeOK'
  <2>1. CASE CallLost(n)
    BY <2>1 DEF CallLost, ApplyCallError, Leave, Unlock
  <2>2. CASE FinalizeLost(n)
    BY <2>2, FinalizeReturnType DEF FinalizeLost
  <2>3. CASE Accept(n)
    BY <2>3 DEF Accept, Tasks
  <2>4. CASE Land(n)
    <3>1. task[n].op \in Calls
      BY <2>4 DEF Land, Tasks, TaskInv
    <3>2. vm' \in [Nodes -> VMs]
      BY <2>4, <3>1, EffectType DEF Land
    <3>3. iso' \in [Nodes -> SUBSET Volumes]
      BY <2>4 DEF Land, Volumes, UploadVol
    <3>4. task' \in [Nodes -> Tasks]
      BY <2>4 DEF Land, Tasks
    <3>5. QED BY <2>4, <3>2, <3>3, <3>4 DEF Land
  <2>5. CASE Reject(n)
    BY <2>5 DEF Reject, Tasks
  <2>6. CASE Foreign(n)
    BY <2>6 DEF Foreign, VMs, NoVM
  <2>99. QED BY <1>6, <2>1, <2>2, <2>3, <2>4, <2>5, <2>6 DEF Server
<1>7. CASE Stop \/ UNCHANGED vars
  BY <1>7 DEF Stop, vars
<1>8. QED BY <1>1, <1>2, <1>3, <1>4, <1>5, <1>6, <1>7 DEF Next, Main

(* Acquire adds a node to those inside applyNode and a token to the         *)
(* channel, Release takes both away, and no other step touches either:      *)
(* multi_node.go:175-178 and 195-200 pair each send with one receive.       *)
LEMMA ConcurrencyCappedStep == IInv /\ [Next]_vars => ConcurrencyCapped'
<1> SUFFICES ASSUME TypeOK, ConcurrencyCapped, ControlInv, [Next]_vars PROVE ConcurrencyCapped'
  BY DEF IInv
<1> USE DEF TypeOK, Go, upVars, goVars, lockVars, pveVars
<1>1. CASE PlanFree
  <2>1. Active' = Active /\ sem' = sem
    BY <1>1 DEF Active, PlanFree, ControlInv
  <2>2. QED BY <2>1 DEF ConcurrencyCapped
<1>2. CASE PlanError
  <2>1. Active' = Active /\ sem' = sem
    BY <1>2 DEF Active, PlanError
  <2>2. QED BY <2>1 DEF ConcurrencyCapped
<1>3. CASE WaitApply
  <2>1. Active' = Active /\ sem' = sem
    BY <1>3 DEF Active, WaitApply, ApplyFailed
  <2>2. QED BY <2>1 DEF ConcurrencyCapped
<1>4. CASE Verify
  <2>1. Active' = Active /\ sem' = sem
    BY <1>4 DEF Active, Verify
  <2>2. QED BY <2>1 DEF ConcurrencyCapped
<1>5. ASSUME NEW n \in Nodes, Goroutine(n) PROVE ConcurrencyCapped'
  <2>1. CASE Acquire(n)
    <3>1. Active' = Active \cup {n} /\ n \notin Active
      BY <2>1 DEF Active, Acquire
    <3>2. sem' = sem + 1 /\ sem < MaxConcurrency
      BY <2>1 DEF Acquire, SlotFree
    <3>3. QED
      BY <3>1, <3>2, ActiveFinite, FS_AddElement, FS_CardinalityType, ConstantsAssumption DEF ConcurrencyCapped
  <2>2. CASE GiveUp(n)
    <3>1. Active' = Active /\ sem' = sem
      BY <2>2 DEF Active, GiveUp
    <3>2. QED BY <3>1 DEF ConcurrencyCapped
  <2>3. CASE LocalStep(n)
    <3>1. Active' = Active /\ sem' = sem
      BY <2>3 DEF Active, LocalStep
    <3>2. QED BY <3>1 DEF ConcurrencyCapped
  <2>4. CASE LocalFail(n)
    <3>1. Active' = Active /\ sem' = sem
      BY <2>4 DEF Active, LocalFail, Leave
    <3>2. QED BY <3>1 DEF ConcurrencyCapped
  <2>5. CASE VerifyIso(n)
    <3>1. Active' = Active /\ sem' = sem
      BY <2>5 DEF Active, VerifyIso
    <3>2. QED BY <3>1 DEF ConcurrencyCapped
  <2>6. CASE VerifyIsoFail(n)
    <3>1. Active' = Active /\ sem' = sem
      BY <2>6 DEF Active, VerifyIsoFail, Leave
    <3>2. QED BY <3>1 DEF ConcurrencyCapped
  <2>7. CASE LockUpload(n)
    <3>1. Active' = Active /\ sem' = sem
      BY <2>7 DEF Active, LockUpload, UploadFree
    <3>2. QED BY <3>1 DEF ConcurrencyCapped
  <2>8. CASE Issue(n)
    <3>1. Active' = Active /\ sem' = sem
      BY <2>8 DEF Active, Issue, CanCall
    <3>2. QED BY <3>1 DEF ConcurrencyCapped
  <2>9. CASE IssueCancelled(n)
    <3>1. Active' = Active /\ sem' = sem
      BY <2>9 DEF Active, IssueCancelled, CanCall, Leave, Unlock
    <3>2. QED BY <3>1 DEF ConcurrencyCapped
  <2>10. CASE CallOk(n)
    <3>1. Active' = Active /\ sem' = sem
      BY <2>10 DEF Active, CallOk, Executed, Unlock
    <3>2. QED BY <3>1 DEF ConcurrencyCapped
  <2>11. CASE CallFailed(n)
    <3>1. Active' = Active /\ sem' = sem
      BY <2>11 DEF Active, CallFailed, ApplyCallError, Leave, Unlock
    <3>2. QED BY <3>1 DEF ConcurrencyCapped
  <2>12. CASE CallTimeout(n)
    <3>1. Active' = Active /\ sem' = sem
      BY <2>12 DEF Active, CallTimeout, ApplyCallError, Leave, Unlock
    <3>2. QED BY <3>1 DEF ConcurrencyCapped
  <2>13. CASE CallCancelled(n)
    <3>1. Active' = Active /\ sem' = sem
      BY <2>13 DEF Active, CallCancelled, ApplyCallError, Leave, Unlock
    <3>2. QED BY <3>1 DEF ConcurrencyCapped
  <2>14. CASE ApplyDone(n)
    <3>1. Active' = Active /\ sem' = sem
      BY <2>14 DEF Active, ApplyDone
    <3>2. QED BY <3>1 DEF ConcurrencyCapped
  <2>15. CASE Release(n)
    <3>1. Active' = Active \ {n} /\ n \in Active
      BY <2>15 DEF Active, Release
    <3>2. sem' = sem - 1
      BY <2>15 DEF Release
    <3>3. QED
      BY <3>1, <3>2, ActiveFinite, FS_RemoveElement, FS_CardinalityType, ConstantsAssumption DEF ConcurrencyCapped
  <2>16. CASE Return(n)
    <3>1. Active' = Active /\ sem' = sem
      BY <2>16 DEF Active, Return
    <3>2. QED BY <3>1 DEF ConcurrencyCapped
  <2>17. CASE FinalizeBegin(n)
    <3>1. Active' = Active /\ sem' = sem
      BY <2>17 DEF Active, FinalizeBegin
    <3>2. QED BY <3>1 DEF ConcurrencyCapped
  <2>18. CASE SshUp(n)
    <3>1. Active' = Active /\ sem' = sem
      BY <2>18 DEF Active, SshUp
    <3>2. QED BY <3>1 DEF ConcurrencyCapped
  <2>19. CASE SshTimeout(n)
    <3>1. Active' = Active /\ sem' = sem
      BY <2>19 DEF Active, SshTimeout, FinalizeReturn
    <3>2. QED BY <3>1 DEF ConcurrencyCapped
  <2>20. CASE FinalizeFailed(n)
    <3>1. Active' = Active /\ sem' = sem
      BY <2>20 DEF Active, FinalizeFailed, FinalizeReturn
    <3>2. QED BY <3>1 DEF ConcurrencyCapped
  <2>21. CASE FinalizeDone(n)
    <3>1. Active' = Active /\ sem' = sem
      BY <2>21 DEF Active, FinalizeDone, FinalizeReturn
    <3>2. QED BY <3>1 DEF ConcurrencyCapped
  <2>99. QED BY <1>5, <2>1, <2>2, <2>3, <2>4, <2>5, <2>6, <2>7, <2>8, <2>9, <2>10, <2>11, <2>12, <2>13, <2>14, <2>15, <2>16, <2>17, <2>18, <2>19, <2>20, <2>21 DEF Goroutine
<1>6. ASSUME NEW n \in Nodes, CallLost(n) \/ FinalizeLost(n) \/ Server(n) \/ Foreign(n)
      PROVE ConcurrencyCapped'
  <2>1. CASE CallLost(n)
    <3>1. Active' = Active /\ sem' = sem
      BY <2>1 DEF Active, CallLost, ApplyCallError, Leave, Unlock
    <3>2. QED BY <3>1 DEF ConcurrencyCapped
  <2>2. CASE FinalizeLost(n)
    <3>1. Active' = Active /\ sem' = sem
      BY <2>2 DEF Active, FinalizeLost, FinalizeReturn
    <3>2. QED BY <3>1 DEF ConcurrencyCapped
  <2>3. CASE Accept(n)
    <3>1. Active' = Active /\ sem' = sem
      BY <2>3 DEF Active, Accept
    <3>2. QED BY <3>1 DEF ConcurrencyCapped
  <2>4. CASE Land(n)
    <3>1. Active' = Active /\ sem' = sem
      BY <2>4 DEF Active, Land
    <3>2. QED BY <3>1 DEF ConcurrencyCapped
  <2>5. CASE Reject(n)
    <3>1. Active' = Active /\ sem' = sem
      BY <2>5 DEF Active, Reject
    <3>2. QED BY <3>1 DEF ConcurrencyCapped
  <2>6. CASE Foreign(n)
    <3>1. Active' = Active /\ sem' = sem
      BY <2>6 DEF Active, Foreign
    <3>2. QED BY <3>1 DEF ConcurrencyCapped
  <2>99. QED BY <1>6, <2>1, <2>2, <2>3, <2>4, <2>5, <2>6 DEF Server
<1>7. CASE Stop \/ UNCHANGED vars
<2>1. Active' = Active /\ sem' = sem
  BY <1>7 DEF Active, Stop, vars
<2>2. QED BY <2>1 DEF ConcurrencyCapped
<1>8. QED BY <1>1, <1>2, <1>3, <1>4, <1>5, <1>6, <1>7 DEF Next, Main

(* What Apply has done so far is on the server and stays there. A step      *)
(* of another node, and every step that changes neither the node's step     *)
(* nor its VM, is covered by ServerQuiet.                                   *)
LEMMA ServerInvStep == IInv /\ [Next]_vars => ServerInv'
<1> SUFFICES ASSUME NEW m \in Nodes, TypeOK, NodeServed(m), TaskInv, ControlInv, [Next]_vars PROVE NodeServed(m)'
  BY DEF IInv, ServerInv
<1> USE DEF TypeOK, Go, upVars, goVars, lockVars, pveVars
<1>1. CASE PlanFree
  BY <1>1, ServerQuiet DEF PlanFree
<1>2. CASE PlanError
  BY <1>2, ServerQuiet DEF PlanError
<1>3. CASE WaitApply
  BY <1>3, ServerQuiet DEF WaitApply, ApplyFailed
<1>4. CASE Verify
  BY <1>4, ServerQuiet DEF Verify, ControlInv
<1>5. ASSUME NEW n \in Nodes, Goroutine(n) PROVE NodeServed(m)'
  <2>1. CASE Acquire(n)
    BY <2>1, ServerQuiet DEF Acquire, SlotFree
  <2>2. CASE GiveUp(n)
    BY <2>2, ServerQuiet DEF GiveUp
  <2>3. CASE LocalStep(n)
    <3>1. CASE m = n
      BY <2>3, <3>1 DEF LocalStep, NodeServed, After, Created, FinalSteps, TaskInv, Calls
    <3>2. CASE m # n
      BY <2>3, <3>2, ServerQuiet DEF LocalStep
    <3>3. QED BY <3>1, <3>2
  <2>4. CASE LocalFail(n)
    BY <2>4, ServerQuiet DEF LocalFail, Leave
  <2>5. CASE VerifyIso(n)
    <3>1. CASE m = n
      BY <2>5, <3>1 DEF VerifyIso, NodeServed, After, Created, FinalSteps
    <3>2. CASE m # n
      BY <2>5, <3>2, ServerQuiet DEF VerifyIso
    <3>3. QED BY <3>1, <3>2
  <2>6. CASE VerifyIsoFail(n)
    BY <2>6, ServerQuiet DEF VerifyIsoFail, Leave
  <2>7. CASE LockUpload(n)
    BY <2>7, ServerQuiet DEF LockUpload, UploadFree
  <2>8. CASE Issue(n)
    BY <2>8, ServerQuiet DEF Issue, CanCall
  <2>9. CASE IssueCancelled(n)
    BY <2>9, ServerQuiet DEF IssueCancelled, CanCall, Leave, Unlock
  <2>10. CASE CallOk(n)
    <3>1. CASE m = n
      <4>1. step[n] \in Calls /\ (phase = "finalize" => step[n] \in FinalSteps)
        BY <2>10, FinalizeAt DEF CallOk, TaskInv
      <4>2. step'[n] = After(step[n]) /\ st'[n] = "ready" /\ vm' = vm /\ phase' = phase
            /\ st[n] = "call" /\ task[n].state = "ok"
        BY <2>10 DEF CallOk, Executed
      <4>3. CASE step[n] \in {"upload", "create", "attach", "boot"}
        BY <3>1, <4>1, <4>2, <4>3 DEF NodeServed, After, Created, FinalSteps
      <4>4. CASE step[n] = "start"
        BY <3>1, <4>1, <4>2, <4>4 DEF NodeServed, After, Created, FinalSteps
      <4>5. CASE step[n] \in {"eject3", "eject2", "bootdisk"}
        BY <3>1, <4>1, <4>2, <4>5 DEF NodeServed, After, Created, FinalSteps, Finalized
      <4>6. QED BY <4>1, <4>3, <4>4, <4>5 DEF Calls
    <3>2. CASE m # n
      BY <2>10, <3>2, ServerQuiet DEF CallOk
    <3>3. QED BY <3>1, <3>2
  <2>11. CASE CallFailed(n)
    BY <2>11, ServerQuiet DEF CallFailed, ApplyCallError, Leave, Unlock
  <2>12. CASE CallTimeout(n)
    BY <2>12, ServerQuiet DEF CallTimeout, ApplyCallError, Leave, Unlock
  <2>13. CASE CallCancelled(n)
    BY <2>13, ServerQuiet DEF CallCancelled, ApplyCallError, Leave, Unlock
  <2>14. CASE ApplyDone(n)
    BY <2>14, ServerQuiet DEF ApplyDone
  <2>15. CASE Release(n)
    BY <2>15, ServerQuiet DEF Release
  <2>16. CASE Return(n)
    BY <2>16, ServerQuiet DEF Return, KeepsError
  <2>17. CASE FinalizeBegin(n)
    <3>1. CASE m = n
      BY <2>17, <3>1, ConstantsAssumption DEF Nodes, FinalizeBegin, NodeServed, Created, FinalSteps, ControlInv, NodeControl, NodeFinalize
    <3>2. CASE m # n
      BY <2>17, <3>2, ServerQuiet DEF FinalizeBegin
    <3>3. QED BY <3>1, <3>2
  <2>18. CASE SshUp(n)
    <3>1. CASE m = n
      BY <2>18, <3>1 DEF SshUp, NodeServed, After, Created, FinalSteps
    <3>2. CASE m # n
      BY <2>18, <3>2, ServerQuiet DEF SshUp
    <3>3. QED BY <3>1, <3>2
  <2>19. CASE SshTimeout(n)
    BY <2>19, ServerQuiet DEF SshTimeout, FinalizeReturn, TaskInv, Calls
  <2>20. CASE FinalizeFailed(n)
    BY <2>20, ServerQuiet DEF FinalizeFailed, FinalizeReturn, TaskInv, Calls
  <2>21. CASE FinalizeDone(n)
    BY <2>21, ServerQuiet DEF FinalizeDone, FinalizeReturn, TaskInv, Calls
  <2>99. QED BY <1>5, <2>1, <2>2, <2>3, <2>4, <2>5, <2>6, <2>7, <2>8, <2>9, <2>10, <2>11, <2>12, <2>13, <2>14, <2>15, <2>16, <2>17, <2>18, <2>19, <2>20, <2>21 DEF Goroutine
<1>6. ASSUME NEW n \in Nodes, CallLost(n) \/ FinalizeLost(n) \/ Server(n) \/ Foreign(n)
      PROVE NodeServed(m)'
  <2>1. CASE CallLost(n)
    BY <2>1, ServerQuiet DEF CallLost, ApplyCallError, Leave, Unlock
  <2>2. CASE FinalizeLost(n)
    BY <2>2, ServerQuiet DEF FinalizeLost, FinalizeReturn, TaskInv, Calls
  <2>3. CASE Accept(n)
    BY <2>3, ServerQuiet DEF Accept, Tasks
  <2>4. CASE Land(n)
    <3>1. CASE m = n
      BY <2>4, <3>1 DEF Land, NodeServed, TaskInv, Calls, Effect, Created, FinalSteps
    <3>2. CASE m # n
      BY <2>4, <3>2, ServerQuiet DEF Land
    <3>3. QED BY <3>1, <3>2
  <2>5. CASE Reject(n)
    BY <2>5, ServerQuiet DEF Reject, Tasks
  <2>6. CASE Foreign(n)
    <3>1. CASE m = n
      BY <2>6, <3>1 DEF Foreign, NodeServed, TaskInv, Calls, NoVM, Created, FinalSteps
    <3>2. CASE m # n
      BY <2>6, <3>2, ServerQuiet DEF Foreign
    <3>3. QED BY <3>1, <3>2
  <2>99. QED BY <1>6, <2>1, <2>2, <2>3, <2>4, <2>5, <2>6 DEF Server
<1>7. CASE Stop \/ UNCHANGED vars
  BY <1>7, ServerQuiet DEF Stop, vars
<1>8. QED BY <1>1, <1>2, <1>3, <1>4, <1>5, <1>6, <1>7 DEF Next, Main

(* Up returns nil only from the last FinalizeReturn or, when finalize is    *)
(* skipped, from Verify; afterwards no request is open.                     *)
LEMMA NilMeansDoneStep == IInv /\ [Next]_vars => NilMeansDone'
<1> SUFFICES ASSUME TypeOK, ServerInv, TaskInv, ControlInv, NilMeansDone, [Next]_vars PROVE NilMeansDone'
  BY DEF IInv
<1> USE DEF TypeOK, Go, upVars, goVars, lockVars, pveVars
<1>1. CASE PlanFree
  BY <1>1, NilQuiet DEF PlanFree
<1>2. CASE PlanError
  BY <1>2, NilQuiet DEF PlanError, NilMeansDone
<1>3. CASE WaitApply
  BY <1>3, NilQuiet DEF WaitApply, ApplyFailed, NilMeansDone
<1>4. CASE Verify
  <2>1. CASE SkipFinalize
    <3>1. \A m \in Nodes : st[m] = "done" /\ why[m] = "none" /\ step[m] = "end"
      BY <1>4 DEF Verify, ControlInv, NodeControl
    <3>2. \A m \in Nodes : vm[m].owner = "ours" /\ vm[m].status = "running" /\ task[m].state = "ok"
      BY <3>1 DEF ServerInv, NodeServed, TaskInv, Created, FinalSteps
    <3>3. QED BY <1>4, <2>1, <3>2 DEF Verify, NilMeansDone
  <2>2. CASE ~SkipFinalize
    BY <1>4, <2>2, NilQuiet DEF Verify
  <2>3. QED BY <2>1, <2>2
<1>5. ASSUME NEW n \in Nodes, Goroutine(n) PROVE NilMeansDone'
  <2>1. CASE Acquire(n)
    BY <2>1, NilQuiet DEF Acquire, SlotFree
  <2>2. CASE GiveUp(n)
    BY <2>2, NilQuiet DEF GiveUp
  <2>3. CASE LocalStep(n)
    <3>1. result # "nil"
      BY <2>3 DEF LocalStep, NilMeansDone, ControlInv
    <3>2. QED BY <2>3, <3>1 DEF LocalStep, NilMeansDone
  <2>4. CASE LocalFail(n)
    BY <2>4, NilQuiet DEF LocalFail, Leave
  <2>5. CASE VerifyIso(n)
    BY <2>5, NilQuiet DEF VerifyIso
  <2>6. CASE VerifyIsoFail(n)
    BY <2>6, NilQuiet DEF VerifyIsoFail, Leave
  <2>7. CASE LockUpload(n)
    BY <2>7, NilQuiet DEF LockUpload, UploadFree
  <2>8. CASE Issue(n)
    <3>1. result # "nil"
      BY <2>8 DEF Issue, CanCall, NilMeansDone, ControlInv
    <3>2. QED BY <2>8, <3>1 DEF Issue, NilMeansDone
  <2>9. CASE IssueCancelled(n)
    BY <2>9, NilQuiet DEF IssueCancelled, CanCall, Leave, Unlock
  <2>10. CASE CallOk(n)
    BY <2>10, NilQuiet DEF CallOk, Executed, Unlock
  <2>11. CASE CallFailed(n)
    BY <2>11, NilQuiet DEF CallFailed, ApplyCallError, Leave, Unlock
  <2>12. CASE CallTimeout(n)
    BY <2>12, NilQuiet DEF CallTimeout, ApplyCallError, Leave, Unlock
  <2>13. CASE CallCancelled(n)
    BY <2>13, NilQuiet DEF CallCancelled, ApplyCallError, Leave, Unlock
  <2>14. CASE ApplyDone(n)
    BY <2>14, NilQuiet DEF ApplyDone
  <2>15. CASE Release(n)
    BY <2>15, NilQuiet DEF Release
  <2>16. CASE Return(n)
    BY <2>16, NilQuiet DEF Return, KeepsError
  <2>17. CASE FinalizeBegin(n)
    BY <2>17, NilQuiet DEF FinalizeBegin
  <2>18. CASE SshUp(n)
    BY <2>18, NilQuiet DEF SshUp
  <2>19. CASE SshTimeout(n)
    BY <2>19, FinalizeReturnNil DEF SshTimeout
  <2>20. CASE FinalizeFailed(n)
    BY <2>20, FinalizeReturnNil DEF FinalizeFailed
  <2>21. CASE FinalizeDone(n)
    BY <2>21, FinalizeReturnNil DEF FinalizeDone
  <2>99. QED BY <1>5, <2>1, <2>2, <2>3, <2>4, <2>5, <2>6, <2>7, <2>8, <2>9, <2>10, <2>11, <2>12, <2>13, <2>14, <2>15, <2>16, <2>17, <2>18, <2>19, <2>20, <2>21 DEF Goroutine
<1>6. ASSUME NEW n \in Nodes, CallLost(n) \/ FinalizeLost(n) \/ Server(n) \/ Foreign(n)
      PROVE NilMeansDone'
  <2>1. CASE CallLost(n)
    BY <2>1, NilQuiet DEF CallLost, ApplyCallError, Leave, Unlock
  <2>2. CASE FinalizeLost(n)
    BY <2>2, FinalizeReturnNil DEF FinalizeLost
  <2>3. CASE Accept(n)
    <3>1. result # "nil"
      BY <2>3 DEF Accept, NilMeansDone, ControlInv
    <3>2. QED BY <2>3, <3>1 DEF Accept, NilMeansDone
  <2>4. CASE Land(n)
    <3>1. result # "nil"
      BY <2>4 DEF Land, NilMeansDone, ControlInv
    <3>2. QED BY <2>4, <3>1 DEF Land, NilMeansDone
  <2>5. CASE Reject(n)
    <3>1. result # "nil"
      BY <2>5 DEF Reject, NilMeansDone, ControlInv
    <3>2. QED BY <2>5, <3>1 DEF Reject, NilMeansDone
  <2>6. CASE Foreign(n)
    <3>1. result # "nil"
      BY <2>6 DEF Foreign, NilMeansDone, ControlInv
    <3>2. QED BY <2>6, <3>1 DEF Foreign, NilMeansDone
  <2>99. QED BY <1>6, <2>1, <2>2, <2>3, <2>4, <2>5, <2>6 DEF Server
<1>7. CASE Stop \/ UNCHANGED vars
  BY <1>7, NilQuiet DEF Stop, vars
<1>8. QED BY <1>1, <1>2, <1>3, <1>4, <1>5, <1>6, <1>7 DEF Next, Main

(* Every exit from the upload step, with or without an error, passes the    *)
(* unlock (single_vm.go:203-209).                                           *)
LEMMA UploadsExclusiveStep == IInv /\ [Next]_vars => UploadsExclusive'
<1> SUFFICES ASSUME TypeOK, UploadsExclusive, ControlInv, TaskInv, [Next]_vars PROVE UploadsExclusive'
  BY DEF IInv
<1> USE DEF TypeOK, UploadsExclusive, Uploading, Go, upVars, goVars, lockVars, pveVars
<1>1. CASE PlanFree
  BY <1>1 DEF PlanFree
<1>2. CASE PlanError
  BY <1>2 DEF PlanError
<1>3. CASE WaitApply
  BY <1>3 DEF WaitApply, ApplyFailed
<1>4. CASE Verify
  BY <1>4 DEF Verify
<1>5. ASSUME NEW n \in Nodes, Goroutine(n) PROVE UploadsExclusive'
  <2>1. CASE Acquire(n)
    BY <2>1 DEF Acquire, SlotFree
  <2>2. CASE GiveUp(n)
    BY <2>2 DEF GiveUp
  <2>3. CASE LocalStep(n)
    BY <2>3 DEF LocalStep
  <2>4. CASE LocalFail(n)
    BY <2>4 DEF LocalFail, Leave
  <2>5. CASE VerifyIso(n)
    BY <2>5 DEF VerifyIso
  <2>6. CASE VerifyIsoFail(n)
    BY <2>6 DEF VerifyIsoFail, Leave
  <2>7. CASE LockUpload(n)
    BY <2>7, ZeroIsNoNode DEF LockUpload, UploadFree
  <2>8. CASE Issue(n)
    BY <2>8 DEF Issue, CanCall
  <2>9. CASE IssueCancelled(n)
    BY <2>9, ZeroIsNoNode DEF IssueCancelled, CanCall, Leave, Unlock
  <2>10. CASE CallOk(n)
    BY <2>10, ZeroIsNoNode DEF CallOk, Executed, Unlock
  <2>11. CASE CallFailed(n)
    BY <2>11, ZeroIsNoNode DEF CallFailed, ApplyCallError, Leave, Unlock
  <2>12. CASE CallTimeout(n)
    BY <2>12, ZeroIsNoNode DEF CallTimeout, ApplyCallError, Leave, Unlock
  <2>13. CASE CallCancelled(n)
    BY <2>13, ZeroIsNoNode DEF CallCancelled, ApplyCallError, Leave, Unlock
  <2>14. CASE ApplyDone(n)
    BY <2>14 DEF ApplyDone
  <2>15. CASE Release(n)
    BY <2>15 DEF Release
  <2>16. CASE Return(n)
    BY <2>16 DEF Return, KeepsError
  <2>17. CASE FinalizeBegin(n)
    BY <2>17 DEF FinalizeBegin, ControlInv, NodeControl, NodeFinalize
  <2>18. CASE SshUp(n)
    BY <2>18 DEF SshUp
  <2>19. CASE SshTimeout(n)
    BY <2>19 DEF SshTimeout, FinalizeReturn
  <2>20. CASE FinalizeFailed(n)
    BY <2>20, FinalizeAt DEF FinalizeFailed, FinalizeReturn, FinalSteps
  <2>21. CASE FinalizeDone(n)
    BY <2>21 DEF FinalizeDone, FinalizeReturn
  <2>99. QED BY <1>5, <2>1, <2>2, <2>3, <2>4, <2>5, <2>6, <2>7, <2>8, <2>9, <2>10, <2>11, <2>12, <2>13, <2>14, <2>15, <2>16, <2>17, <2>18, <2>19, <2>20, <2>21 DEF Goroutine
<1>6. ASSUME NEW n \in Nodes, CallLost(n) \/ FinalizeLost(n) \/ Server(n) \/ Foreign(n)
      PROVE UploadsExclusive'
  <2>1. CASE CallLost(n)
    BY <2>1, ZeroIsNoNode DEF CallLost, ApplyCallError, Leave, Unlock
  <2>2. CASE FinalizeLost(n)
    BY <2>2, FinalizeAt DEF FinalizeLost, FinalizeReturn, FinalSteps
  <2>3. CASE Accept(n)
    BY <2>3 DEF Accept
  <2>4. CASE Land(n)
    BY <2>4 DEF Land
  <2>5. CASE Reject(n)
    BY <2>5 DEF Reject
  <2>6. CASE Foreign(n)
    BY <2>6 DEF Foreign
  <2>99. QED BY <1>6, <2>1, <2>2, <2>3, <2>4, <2>5, <2>6 DEF Server
<1>7. CASE Stop \/ UNCHANGED vars
  BY <1>7 DEF Stop, vars
<1>8. QED BY <1>1, <1>2, <1>3, <1>4, <1>5, <1>6, <1>7 DEF Next, Main

(* errgroup keeps the first error and cancels the context with it.          *)
LEMMA ErrorInvStep == IInv /\ [Next]_vars => ErrorInv'
<1> SUFFICES ASSUME TypeOK, ErrorInv, ControlInv, RootCauseReported, [Next]_vars PROVE ErrorInv'
  BY DEF IInv
<1> USE DEF TypeOK, ErrorInv, ControlInv, NodeControl, NodeFinalize, Go, upVars, goVars, lockVars, pveVars
<1>1. CASE PlanFree
  BY <1>1 DEF PlanFree
<1>2. CASE PlanError
  BY <1>2 DEF PlanError
<1>3. CASE WaitApply
  BY <1>3 DEF WaitApply, ApplyFailed
<1>4. CASE Verify
  BY <1>4 DEF Verify
<1>5. ASSUME NEW n \in Nodes, Goroutine(n) PROVE ErrorInv'
  <2>1. CASE Acquire(n)
    BY <2>1 DEF Acquire, SlotFree
  <2>2. CASE GiveUp(n)
    BY <2>2 DEF GiveUp
  <2>3. CASE LocalStep(n)
    BY <2>3 DEF LocalStep
  <2>4. CASE LocalFail(n)
    BY <2>4 DEF LocalFail, Leave
  <2>5. CASE VerifyIso(n)
    BY <2>5 DEF VerifyIso
  <2>6. CASE VerifyIsoFail(n)
    BY <2>6 DEF VerifyIsoFail, Leave
  <2>7. CASE LockUpload(n)
    BY <2>7 DEF LockUpload, UploadFree
  <2>8. CASE Issue(n)
    BY <2>8 DEF Issue, CanCall
  <2>9. CASE IssueCancelled(n)
    BY <2>9 DEF IssueCancelled, CanCall, Leave, Unlock
  <2>10. CASE CallOk(n)
    BY <2>10 DEF CallOk, Executed, Unlock
  <2>11. CASE CallFailed(n)
    BY <2>11 DEF CallFailed, ApplyCallError, Leave, Unlock
  <2>12. CASE CallTimeout(n)
    BY <2>12 DEF CallTimeout, ApplyCallError, Leave, Unlock
  <2>13. CASE CallCancelled(n)
    BY <2>13 DEF CallCancelled, ApplyCallError, Leave, Unlock
  <2>14. CASE ApplyDone(n)
    BY <2>14 DEF ApplyDone
  <2>15. CASE Release(n)
    BY <2>15 DEF Release
  <2>16. CASE Return(n)
    <3>1. CASE KeepsError(n)
      <4>1. why[n] = "own"
        BY <2>16, <3>1 DEF Return, KeepsError
      <4>2. first' = n /\ cancelled' = TRUE /\ st' = [st EXCEPT ![n] = "done"] /\ why' = why /\ phase' = "apply"
        BY <2>16, <3>1 DEF Return
      <4>3. n # 0
        BY ZeroIsNoNode
      <4>4. QED BY <4>1, <4>2, <4>3
    <3>2. CASE ~KeepsError(n)
      BY <2>16, <3>2 DEF Return, KeepsError
    <3>3. QED BY <3>1, <3>2
  <2>17. CASE FinalizeBegin(n)
    BY <2>17 DEF FinalizeBegin
  <2>18. CASE SshUp(n)
    BY <2>18 DEF SshUp
  <2>19. CASE SshTimeout(n)
    BY <2>19 DEF SshTimeout, FinalizeReturn
  <2>20. CASE FinalizeFailed(n)
    BY <2>20 DEF FinalizeFailed, FinalizeReturn
  <2>21. CASE FinalizeDone(n)
    BY <2>21 DEF FinalizeDone, FinalizeReturn
  <2>99. QED BY <1>5, <2>1, <2>2, <2>3, <2>4, <2>5, <2>6, <2>7, <2>8, <2>9, <2>10, <2>11, <2>12, <2>13, <2>14, <2>15, <2>16, <2>17, <2>18, <2>19, <2>20, <2>21 DEF Goroutine
<1>6. ASSUME NEW n \in Nodes, CallLost(n) \/ FinalizeLost(n) \/ Server(n) \/ Foreign(n)
      PROVE ErrorInv'
  <2>1. CASE CallLost(n)
    BY <2>1 DEF CallLost, ApplyCallError, Leave, Unlock
  <2>2. CASE FinalizeLost(n)
    BY <2>2 DEF FinalizeLost, FinalizeReturn
  <2>3. CASE Accept(n)
    BY <2>3 DEF Accept
  <2>4. CASE Land(n)
    BY <2>4 DEF Land
  <2>5. CASE Reject(n)
    BY <2>5 DEF Reject
  <2>6. CASE Foreign(n)
    BY <2>6 DEF Foreign
  <2>99. QED BY <1>6, <2>1, <2>2, <2>3, <2>4, <2>5, <2>6 DEF Server
<1>7. CASE Stop \/ UNCHANGED vars
  BY <1>7 DEF Stop, vars
<1>8. QED BY <1>1, <1>2, <1>3, <1>4, <1>5, <1>6, <1>7 DEF Next, Main

(* A node fails with the context's error only when the context is done,     *)
(* and then an error has already been kept.                                 *)
LEMMA RootCauseReportedStep == IInv /\ [Next]_vars => RootCauseReported'
<1> SUFFICES ASSUME TypeOK, ErrorInv, ControlInv, RootCauseReported, [Next]_vars PROVE RootCauseReported'
  BY DEF IInv
<1> USE DEF TypeOK, RootCauseReported, ErrorInv, ControlInv, NodeControl, NodeFinalize, Go, upVars, goVars, lockVars, pveVars
<1>1. CASE PlanFree
  BY <1>1 DEF PlanFree
<1>2. CASE PlanError
  BY <1>2 DEF PlanError
<1>3. CASE WaitApply
  BY <1>3 DEF WaitApply, ApplyFailed
<1>4. CASE Verify
  BY <1>4 DEF Verify
<1>5. ASSUME NEW n \in Nodes, Goroutine(n) PROVE RootCauseReported'
  <2>1. CASE Acquire(n)
    BY <2>1 DEF Acquire, SlotFree
  <2>2. CASE GiveUp(n)
    BY <2>2 DEF GiveUp
  <2>3. CASE LocalStep(n)
    BY <2>3 DEF LocalStep
  <2>4. CASE LocalFail(n)
    BY <2>4 DEF LocalFail, Leave
  <2>5. CASE VerifyIso(n)
    BY <2>5 DEF VerifyIso
  <2>6. CASE VerifyIsoFail(n)
    BY <2>6 DEF VerifyIsoFail, Leave
  <2>7. CASE LockUpload(n)
    BY <2>7 DEF LockUpload, UploadFree
  <2>8. CASE Issue(n)
    BY <2>8 DEF Issue, CanCall
  <2>9. CASE IssueCancelled(n)
    BY <2>9 DEF IssueCancelled, CanCall, Leave, Unlock
  <2>10. CASE CallOk(n)
    BY <2>10 DEF CallOk, Executed, Unlock
  <2>11. CASE CallFailed(n)
    BY <2>11 DEF CallFailed, ApplyCallError, Leave, Unlock
  <2>12. CASE CallTimeout(n)
    BY <2>12 DEF CallTimeout, ApplyCallError, Leave, Unlock
  <2>13. CASE CallCancelled(n)
    BY <2>13 DEF CallCancelled, ApplyCallError, Leave, Unlock
  <2>14. CASE ApplyDone(n)
    BY <2>14 DEF ApplyDone
  <2>15. CASE Release(n)
    BY <2>15 DEF Release
  <2>16. CASE Return(n)
    BY <2>16 DEF Return, KeepsError
  <2>17. CASE FinalizeBegin(n)
    BY <2>17 DEF FinalizeBegin
  <2>18. CASE SshUp(n)
    BY <2>18 DEF SshUp
  <2>19. CASE SshTimeout(n)
    BY <2>19 DEF SshTimeout, FinalizeReturn
  <2>20. CASE FinalizeFailed(n)
    BY <2>20 DEF FinalizeFailed, FinalizeReturn
  <2>21. CASE FinalizeDone(n)
    BY <2>21 DEF FinalizeDone, FinalizeReturn
  <2>99. QED BY <1>5, <2>1, <2>2, <2>3, <2>4, <2>5, <2>6, <2>7, <2>8, <2>9, <2>10, <2>11, <2>12, <2>13, <2>14, <2>15, <2>16, <2>17, <2>18, <2>19, <2>20, <2>21 DEF Goroutine
<1>6. ASSUME NEW n \in Nodes, CallLost(n) \/ FinalizeLost(n) \/ Server(n) \/ Foreign(n)
      PROVE RootCauseReported'
  <2>1. CASE CallLost(n)
    BY <2>1 DEF CallLost, ApplyCallError, Leave, Unlock
  <2>2. CASE FinalizeLost(n)
    BY <2>2 DEF FinalizeLost, FinalizeReturn
  <2>3. CASE Accept(n)
    BY <2>3 DEF Accept
  <2>4. CASE Land(n)
    BY <2>4 DEF Land
  <2>5. CASE Reject(n)
    BY <2>5 DEF Reject
  <2>6. CASE Foreign(n)
    BY <2>6 DEF Foreign
  <2>99. QED BY <1>6, <2>1, <2>2, <2>3, <2>4, <2>5, <2>6 DEF Server
<1>7. CASE Stop \/ UNCHANGED vars
  BY <1>7 DEF Stop, vars
<1>8. QED BY <1>1, <1>2, <1>3, <1>4, <1>5, <1>6, <1>7 DEF Next, Main

(* The control points: plan before any goroutine, finalize one node at a    *)
(* time after all of them.                                                  *)
LEMMA ControlInvStep == IInv /\ [Next]_vars => ControlInv'
<1> SUFFICES ASSUME TypeOK, ControlInv, ErrorInv, TaskInv, [Next]_vars PROVE ControlInv'
  BY DEF IInv
<1> USE DEF TypeOK, ControlInv, NodeControl, NodeFinalize, Go, upVars, goVars, lockVars, pveVars
<1>1. CASE PlanFree
  BY <1>1 DEF PlanFree
<1>2. CASE PlanError
  BY <1>2 DEF PlanError
<1>3. CASE WaitApply
  BY <1>3 DEF WaitApply, ApplyFailed, ErrorInv
<1>4. CASE Verify
  BY <1>4, ConstantsAssumption DEF Verify, Nodes
<1>5. ASSUME NEW n \in Nodes, Goroutine(n) PROVE ControlInv'
  <2>1. CASE Acquire(n)
    BY <2>1 DEF Acquire, SlotFree
  <2>2. CASE GiveUp(n)
    BY <2>2 DEF GiveUp
  <2>3. CASE LocalStep(n)
    BY <2>3 DEF LocalStep
  <2>4. CASE LocalFail(n)
    BY <2>4 DEF LocalFail, Leave
  <2>5. CASE VerifyIso(n)
    BY <2>5 DEF VerifyIso
  <2>6. CASE VerifyIsoFail(n)
    BY <2>6 DEF VerifyIsoFail, Leave
  <2>7. CASE LockUpload(n)
    BY <2>7 DEF LockUpload, UploadFree
  <2>8. CASE Issue(n)
    BY <2>8 DEF Issue, CanCall
  <2>9. CASE IssueCancelled(n)
    BY <2>9 DEF IssueCancelled, CanCall, Leave, Unlock
  <2>10. CASE CallOk(n)
    <3>1. CASE phase = "finalize"
      <4>1. n = cur /\ After(step[n]) \in FinalSteps
        BY <2>10, <3>1, FinalizeAt DEF CallOk, After, FinalSteps, TaskInv, Calls
      <4>2. QED BY <2>10, <3>1, <4>1 DEF CallOk
    <3>2. CASE phase # "finalize"
      BY <2>10, <3>2 DEF CallOk
    <3>3. QED BY <3>1, <3>2
  <2>11. CASE CallFailed(n)
    BY <2>11 DEF CallFailed, ApplyCallError, Leave, Unlock
  <2>12. CASE CallTimeout(n)
    BY <2>12 DEF CallTimeout, ApplyCallError, Leave, Unlock
  <2>13. CASE CallCancelled(n)
    BY <2>13 DEF CallCancelled, ApplyCallError, Leave, Unlock
  <2>14. CASE ApplyDone(n)
    BY <2>14 DEF ApplyDone
  <2>15. CASE Release(n)
    BY <2>15 DEF Release
  <2>16. CASE Return(n)
    BY <2>16 DEF Return, KeepsError
  <2>17. CASE FinalizeBegin(n)
    <3>1. cur = n /\ n \in Nat
      BY <2>17, ConstantsAssumption DEF FinalizeBegin, Nodes
    <3>2. why[n] = "none"
      BY <2>17, <3>1 DEF FinalizeBegin
    <3>3. QED BY <2>17, <3>1, <3>2 DEF FinalizeBegin, FinalSteps
  <2>18. CASE SshUp(n)
    BY <2>18, FinalizeAt DEF SshUp, After, FinalSteps
  <2>19. CASE SshTimeout(n)
    BY <2>19, FinalizeReturnControl DEF SshTimeout
  <2>20. CASE FinalizeFailed(n)
    BY <2>20, FinalizeReturnControl DEF FinalizeFailed
  <2>21. CASE FinalizeDone(n)
    BY <2>21, FinalizeReturnControl DEF FinalizeDone
  <2>99. QED BY <1>5, <2>1, <2>2, <2>3, <2>4, <2>5, <2>6, <2>7, <2>8, <2>9, <2>10, <2>11, <2>12, <2>13, <2>14, <2>15, <2>16, <2>17, <2>18, <2>19, <2>20, <2>21 DEF Goroutine
<1>6. ASSUME NEW n \in Nodes, CallLost(n) \/ FinalizeLost(n) \/ Server(n) \/ Foreign(n)
      PROVE ControlInv'
  <2>1. CASE CallLost(n)
    BY <2>1 DEF CallLost, ApplyCallError, Leave, Unlock
  <2>2. CASE FinalizeLost(n)
    BY <2>2, FinalizeReturnControl DEF FinalizeLost
  <2>3. CASE Accept(n)
    BY <2>3 DEF Accept
  <2>4. CASE Land(n)
    BY <2>4 DEF Land
  <2>5. CASE Reject(n)
    BY <2>5 DEF Reject
  <2>6. CASE Foreign(n)
    BY <2>6 DEF Foreign
  <2>99. QED BY <1>6, <2>1, <2>2, <2>3, <2>4, <2>5, <2>6 DEF Server
<1>7. CASE Stop \/ UNCHANGED vars
  BY <1>7 DEF Stop, vars
<1>8. QED BY <1>1, <1>2, <1>3, <1>4, <1>5, <1>6, <1>7 DEF Next, Main

(* A request the server still works on is the step its node is at.          *)
LEMMA TaskInvStep == IInv /\ [Next]_vars => TaskInv'
<1> SUFFICES ASSUME TypeOK, TaskInv, ControlInv, [Next]_vars PROVE TaskInv'
  BY DEF IInv
<1> USE DEF TypeOK, TaskInv, ControlInv, NodeControl, NodeFinalize, Go, upVars, goVars, lockVars, pveVars
<1>1. CASE PlanFree
  BY <1>1 DEF PlanFree
<1>2. CASE PlanError
  BY <1>2 DEF PlanError
<1>3. CASE WaitApply
  BY <1>3 DEF WaitApply, ApplyFailed
<1>4. CASE Verify
  BY <1>4 DEF Verify
<1>5. ASSUME NEW n \in Nodes, Goroutine(n) PROVE TaskInv'
  <2>1. CASE Acquire(n)
    BY <2>1 DEF Acquire, SlotFree
  <2>2. CASE GiveUp(n)
    BY <2>2 DEF GiveUp
  <2>3. CASE LocalStep(n)
    BY <2>3 DEF LocalStep, After, Created, FinalSteps, Calls
  <2>4. CASE LocalFail(n)
    BY <2>4 DEF LocalFail, Leave
  <2>5. CASE VerifyIso(n)
    BY <2>5 DEF VerifyIso, After, Created, FinalSteps, Calls
  <2>6. CASE VerifyIsoFail(n)
    BY <2>6 DEF VerifyIsoFail, Leave
  <2>7. CASE LockUpload(n)
    BY <2>7 DEF LockUpload, UploadFree
  <2>8. CASE Issue(n)
    BY <2>8 DEF Issue, CanCall
  <2>9. CASE IssueCancelled(n)
    BY <2>9 DEF IssueCancelled, CanCall, Leave, Unlock
  <2>10. CASE CallOk(n)
    BY <2>10 DEF CallOk, Executed, Unlock
  <2>11. CASE CallFailed(n)
    BY <2>11 DEF CallFailed, ApplyCallError, Leave, Unlock
  <2>12. CASE CallTimeout(n)
    BY <2>12 DEF CallTimeout, ApplyCallError, Leave, Unlock
  <2>13. CASE CallCancelled(n)
    BY <2>13 DEF CallCancelled, ApplyCallError, Leave, Unlock
  <2>14. CASE ApplyDone(n)
    BY <2>14 DEF ApplyDone
  <2>15. CASE Release(n)
    BY <2>15 DEF Release
  <2>16. CASE Return(n)
    BY <2>16 DEF Return, KeepsError
  <2>17. CASE FinalizeBegin(n)
    <3>1. cur = n /\ n \in Nat
      BY <2>17, ConstantsAssumption DEF FinalizeBegin, Nodes
    <3>2. why[n] = "none" /\ step[n] = "end"
      BY <2>17, <3>1 DEF FinalizeBegin
    <3>3. QED BY <2>17, <3>2 DEF FinalizeBegin, Created, FinalSteps, Calls
  <2>18. CASE SshUp(n)
    BY <2>18 DEF SshUp, After, Created, FinalSteps, Calls
  <2>19. CASE SshTimeout(n)
    BY <2>19 DEF SshTimeout, FinalizeReturn
  <2>20. CASE FinalizeFailed(n)
    BY <2>20 DEF FinalizeFailed, FinalizeReturn
  <2>21. CASE FinalizeDone(n)
    BY <2>21 DEF FinalizeDone, FinalizeReturn
  <2>99. QED BY <1>5, <2>1, <2>2, <2>3, <2>4, <2>5, <2>6, <2>7, <2>8, <2>9, <2>10, <2>11, <2>12, <2>13, <2>14, <2>15, <2>16, <2>17, <2>18, <2>19, <2>20, <2>21 DEF Goroutine
<1>6. ASSUME NEW n \in Nodes, CallLost(n) \/ FinalizeLost(n) \/ Server(n) \/ Foreign(n)
      PROVE TaskInv'
  <2>1. CASE CallLost(n)
    BY <2>1 DEF CallLost, ApplyCallError, Leave, Unlock
  <2>2. CASE FinalizeLost(n)
    BY <2>2 DEF FinalizeLost, FinalizeReturn
  <2>3. CASE Accept(n)
    BY <2>3 DEF Accept
  <2>4. CASE Land(n)
    BY <2>4 DEF Land
  <2>5. CASE Reject(n)
    BY <2>5 DEF Reject
  <2>6. CASE Foreign(n)
    BY <2>6 DEF Foreign
  <2>99. QED BY <1>6, <2>1, <2>2, <2>3, <2>4, <2>5, <2>6 DEF Server
<1>7. CASE Stop \/ UNCHANGED vars
  BY <1>7 DEF Stop, vars
<1>8. QED BY <1>1, <1>2, <1>3, <1>4, <1>5, <1>6, <1>7 DEF Next, Main

(* Up finalizes the nodes in order and returns after the last: each of the  *)
(* others is then finalized or has an error.  Afterwards a node without an  *)
(* error has no open request, so its VM stays as it is.                     *)
LEMMA FinalizeVisitsAllStep == IInv /\ [Next]_vars => FinalizeVisitsAll'
<1> SUFFICES ASSUME TypeOK, ControlInv, TaskInv, ServerInv, FinalizeVisitsAll, [Next]_vars,
                    phase' = "returned", NEW k \in Nodes, st'[k] = "finalized", NEW n \in Nodes
             PROVE  st'[n] = "finalized" /\ (why'[n] = "none" => Finalized(n)')
  BY DEF IInv, FinalizeVisitsAll
<1> USE DEF TypeOK, Go, upVars, goVars, lockVars, pveVars
<1>1. CASE phase = "returned"
  <2>1. ASSUME NEW m \in Nodes, Goroutine(m) \/ CallLost(m) \/ FinalizeLost(m) PROVE FALSE
    <3>1. /\ st[m] \in {"ready", "locked", "call"}
          /\ st' = [st EXCEPT ![m] = "ready"] \/ st' = [st EXCEPT ![m] = "call"]
      BY <1>1, <2>1 DEF Goroutine, Acquire, GiveUp, LocalStep, LocalFail, VerifyIso, VerifyIsoFail,
         LockUpload, Issue, IssueCancelled, CanCall, CallOk, CallFailed, CallTimeout, CallCancelled,
         CallLost, ApplyCallError, ApplyDone, Release, Return, FinalizeBegin, SshUp, SshTimeout,
         FinalizeFailed, FinalizeDone, FinalizeLost, FinalizeReturn, ControlInv
    <3>2. st[k] = "finalized"
      BY <3>1
    <3> QED BY <1>1, <3>1, <3>2 DEF FinalizeVisitsAll
  <2>2. st' = st /\ why' = why
    BY <1>1, <2>1 DEF Next, Main, PlanFree, PlanError, WaitApply, Verify, Stop, vars, Server, Accept,
       Land, Reject, Foreign
  <2>3. st[n] = "finalized" /\ (why[n] = "none" => Finalized(n))
    BY <1>1, <2>2 DEF FinalizeVisitsAll
  <2>4. ASSUME why[n] = "none" PROVE vm'[n] = vm[n]
    <3>1. task[n].state \in {"none", "ok"}
      BY <2>3, <2>4 DEF TaskInv
    <3> QED BY <1>1, <3>1, VmWriters DEF Land, Foreign
  <2> QED BY <2>2, <2>3, <2>4 DEF Finalized
<1>2. CASE phase # "returned"
  <2>1. ASSUME Main PROVE FALSE
    <3>1. st[k] \in {"queued", "done"} /\ st' = st
      BY <1>2, <2>1 DEF Main, PlanFree, PlanError, WaitApply, Verify, ControlInv
    <3> QED BY <3>1
  <2>2. PICK m \in Nodes, w \in {"none", "own"} :
          /\ FinalizeReturn(m, w) /\ st[m] \in {"ready", "call"}
          /\ w = "none" => st[m] = "ready" /\ step[m] = "end"
    BY <1>2, <2>1 DEF Next, Stop, vars, Goroutine, Acquire, GiveUp, LocalStep, LocalFail, VerifyIso,
       VerifyIsoFail, LockUpload, Issue, IssueCancelled, CallOk, CallFailed, CallTimeout, CallCancelled,
       CallLost, ApplyCallError, ApplyDone, Release, Return, FinalizeBegin, SshUp, SshTimeout,
       FinalizeFailed, FinalizeDone, FinalizeLost, Server, Accept, Land, Reject, Foreign
  <2>3. /\ phase = "finalize" /\ m = cur /\ m = N
        /\ st' = [st EXCEPT ![m] = "finalized"] /\ why' = [why EXCEPT ![m] = w] /\ UNCHANGED <<step, vm>>
    BY <1>2, <2>2, FinalizeAt DEF FinalizeReturn
  <2>4. CASE n = m
    BY <2>2, <2>3, <2>4 DEF ServerInv, NodeServed, Finalized
  <2>5. CASE n # m
    <3>1. n < cur
      BY <2>3, <2>5, ConstantsAssumption DEF Nodes
    <3>2. st[n] = "finalized" /\ (why[n] = "none" => step[n] = "end")
      BY <2>3, <3>1 DEF ControlInv, NodeFinalize
    <3>3. why[n] = "none" => Finalized(n)
      BY <2>3, <3>2 DEF ServerInv, NodeServed
    <3> QED BY <2>3, <2>5, <3>2, <3>3 DEF Finalized
  <2> QED BY <2>4, <2>5
<1> QED BY <1>1, <1>2

(* The program starts in the invariant: nothing has run, nothing is open.   *)
LEMMA InitIInv == Init => IInv
<1> SUFFICES ASSUME Init PROVE IInv
  OBVIOUS
<1> USE ConstantsAssumption
<1>1. 1 \in Nodes /\ 0 \notin Nodes
  BY DEF Nodes
<1>2. FirstStep \in {"render", "verify-iso", "create"}
  BY DEF FirstStep
<1>3. TypeOK
  <2>1. vm \in [Nodes -> VMs]
    BY DEF Init, VMs, NoVM, AttachVol
  <2>2. task \in [Nodes -> Tasks]
    BY DEF Init, Tasks, NoTask
  <2>3. iso \in [Nodes -> SUBSET Volumes]
    BY DEF Init, Volumes, AttachVol
  <2>4. step \in [Nodes -> Steps]
    BY <1>2 DEF Init, Steps, Calls
  <2>5. sem \in 0..MaxConcurrency
    BY DEF Init
  <2>6. /\ phase \in {"plan", "apply", "verify", "finalize", "returned"}
        /\ cur \in Nodes
        /\ result \in {"none", "nil", "err"}
        /\ st \in [Nodes -> {"queued", "ready", "locked", "call", "leaving", "released",
                             "done", "finalized"}]
        /\ why \in [Nodes -> {"none", "own", "cancel"}]
        /\ mu \in Nodes \cup {0} /\ cancelled \in BOOLEAN /\ first \in Nodes \cup {0}
    BY <1>1 DEF Init
  <2>7. QED BY <2>1, <2>2, <2>3, <2>4, <2>5, <2>6 DEF TypeOK
<1>4. ConcurrencyCapped
  <2>1. Active = {} /\ sem = 0
    BY DEF Active, Init
  <2>2. QED BY <2>1, FS_EmptySet DEF ConcurrencyCapped
<1>5. UploadsExclusive /\ RootCauseReported /\ NilMeansDone /\ FinalizeVisitsAll
  BY <1>1 DEF Init, UploadsExclusive, Uploading, RootCauseReported, NilMeansDone, FinalizeVisitsAll
<1>6. ControlInv
  BY DEF Init, ControlInv, NodeControl
<1>7. ErrorInv
  BY DEF Init, ErrorInv
<1>8. TaskInv
  BY <1>2 DEF Init, TaskInv, NoTask, Created, FinalSteps
<1>9. ServerInv
  BY <1>2 DEF Init, ServerInv, NodeServed, Created, FinalSteps
<1>10. QED BY <1>3, <1>4, <1>5, <1>6, <1>7, <1>8, <1>9 DEF IInv

(* IInv is inductive: it holds throughout every run of Up, for any number   *)
(* of nodes, any concurrency and either mode of applyPlan.                  *)
THEOREM Inductive == Spec => []IInv
<1>1. IInv /\ [Next]_vars => IInv'
  BY TypeOKStep, ConcurrencyCappedStep, ServerInvStep, NilMeansDoneStep, UploadsExclusiveStep,
     ErrorInvStep, RootCauseReportedStep, ControlInvStep, TaskInvStep,
     FinalizeVisitsAllStep DEF IInv
<1>2. QED BY InitIInv, <1>1, PTL DEF Spec

(* Every variable keeps its type. *)
THEOREM TypeCorrect == Spec => []TypeOK
<1>1. IInv => TypeOK
  BY DEF IInv
<1>2. QED BY Inductive, <1>1, PTL

(* The semaphore channel holds exactly one token for each goroutine inside  *)
(* applyNode, so their number never exceeds maxConcurrency.                 *)
THEOREM Capped == Spec => []ConcurrencyCapped
<1>1. IInv => ConcurrencyCapped
  BY DEF IInv
<1>2. QED BY Inductive, <1>1, PTL

(* UploadMu is held by exactly the node inside UploadISO.                   *)
THEOREM UploadsAreExclusive == Spec => []UploadsExclusive
<1>1. IInv => UploadsExclusive
  BY DEF IInv
<1>2. QED BY Inductive, <1>1, PTL

(* The error of a fail-fast Up is the failure that caused the others.       *)
THEOREM RootCause == Spec => []RootCauseReported
<1>1. IInv => RootCauseReported
  BY DEF IInv
<1>2. QED BY Inductive, <1>1, PTL

(* When Up returns nil, every VM is created, running and finalized, and no  *)
(* request of this run is still open.                                       *)
THEOREM NilIsDone == Spec => []NilMeansDone
<1>1. IInv => NilMeansDone
  BY DEF IInv
<1>2. QED BY Inductive, <1>1, PTL

(* One node's failing finalize costs only that node its finalize: the       *)
(* others are rid of their install media when Up returns, and stay so.      *)
THEOREM FinalizeIsPerNode == Spec => []FinalizeVisitsAll
<1>1. IInv => FinalizeVisitsAll
  BY DEF IInv
<1>2. QED BY Inductive, <1>1, PTL

(* Only Land and Foreign change a VM. A request that lands on somebody      *)
(* else's VM could only be an upload, which changes no VM: a create is      *)
(* refused, and the later steps of a node imply that its VM is ours.        *)
THEOREM ForeignIsUntouched == Spec => ForeignUntouched
<1> DEFINE Keeps == \A n \in Nodes : vm[n].owner = "other" => vm'[n] = vm[n]
<1>1. IInv /\ [Next]_vars => Keeps
  <2> SUFFICES ASSUME TypeOK, TaskInv, ServerInv, [Next]_vars,
                      NEW m \in Nodes, vm[m].owner = "other"
               PROVE  vm'[m] = vm[m]
    BY DEF IInv
  <2>1. vm' = vm \/ \E n \in Nodes : Land(n) \/ Foreign(n)
    BY VmWriters
  <2>2. ASSUME NEW n \in Nodes, Land(n) PROVE vm'[m] = vm[m]
    <3>1. CASE m # n
      BY <2>2, <3>1 DEF Land, TypeOK
    <3>2. CASE m = n
      <4>1. task[n].op = step[n] /\ step[n] \in Calls
        BY <2>2 DEF Land, TaskInv
      <4>2. step[n] \notin Created /\ task[n].op # "create"
        BY <2>2, <3>2 DEF Land, Accepts, ServerInv, NodeServed
      <4>3. task[n].op = "upload"
        BY <4>1, <4>2 DEF Calls, Created, FinalSteps
      <4>4. Effect(task[n].op, vm[n]) = vm[n]
        BY <4>3 DEF Effect
      <4>5. QED BY <2>2, <3>2, <4>4 DEF Land, TypeOK
    <3>3. QED BY <3>1, <3>2
  <2>3. ASSUME NEW n \in Nodes, Foreign(n) PROVE vm'[m] = vm[m]
    BY <2>3 DEF Foreign, TypeOK
  <2>4. QED BY <2>1, <2>2, <2>3
<1>2. QED BY Inductive, <1>1, PTL DEF Spec, ForeignUntouched

(* A VM starts when a start request lands; its node is then at the start    *)
(* step, which it reaches only after the attach and boot-order calls have   *)
(* been executed.                                                           *)
THEOREM StartsConfigured == Spec => StartAfterConfigured
<1> DEFINE Ok(n) == (KickstartStorage /\ vm[n].status # "running" /\ vm'[n].status = "running")
                      => vm[n].ide3 = AttachVol /\ vm[n].boot = "install"
<1>1. IInv /\ [Next]_vars => \A n \in Nodes : Ok(n)
  <2> SUFFICES ASSUME TypeOK, TaskInv, ServerInv, [Next]_vars, NEW m \in Nodes,
                      KickstartStorage, vm[m].status # "running", vm'[m].status = "running"
               PROVE  vm[m].ide3 = AttachVol /\ vm[m].boot = "install"
    BY DEF IInv
  <2>1. vm' = vm \/ \E n \in Nodes : Land(n) \/ Foreign(n)
    BY VmWriters
  <2>2. ASSUME NEW n \in Nodes, Foreign(n) PROVE FALSE
    BY <2>2 DEF Foreign, TypeOK, NoVM
  <2>3. PICK n \in Nodes : Land(n)
    BY <2>1, <2>2
  <2>4. m = n
    BY <2>3 DEF Land, TypeOK
  <2>5. task[n].op = step[n] /\ step[n] \in Calls /\ vm'[n] = Effect(task[n].op, vm[n]) /\ vm[n] \in VMs
    BY <2>3 DEF Land, TaskInv, TypeOK
  <2>6. task[n].op = "start"
    BY <2>4, <2>5 DEF Effect, Calls, NoVM, VMs
  <2>7. QED BY <2>4, <2>5, <2>6 DEF ServerInv, NodeServed
<1>2. QED BY Inductive, <1>1, PTL DEF Spec, StartAfterConfigured
-----------------------------------------------------------------------------
(* A node's step changes to the next one of its change list, or to the      *)
(* first one of its finalize.                                               *)
LEMMA StepWriters ==
  ASSUME IInv, [Next]_vars
  PROVE  \/ step' = step
         \/ \E n \in Nodes : /\ step' = [step EXCEPT ![n] = After(@)]
                             /\ step[n] \in Steps \ {"end"} /\ UNCHANGED <<phase, iso>>
                             /\ step[n] = "verify-iso" => IsoPresent(n)
         \/ \E n \in Nodes : FinalizeBegin(n)
<1> USE DEF upVars, goVars, pveVars
<1>1. CASE Main
  BY <1>1 DEF Main, PlanFree, PlanError, WaitApply, Verify
<1>2. ASSUME NEW n \in Nodes, LocalStep(n) \/ VerifyIso(n) \/ CallOk(n) \/ SshUp(n)
      PROVE  /\ step' = [step EXCEPT ![n] = After(@)]
             /\ step[n] \in Steps \ {"end"} /\ UNCHANGED <<phase, iso>>
             /\ step[n] = "verify-iso" => IsoPresent(n)
  <2>1. CASE LocalStep(n)
    BY <2>1 DEF LocalStep, Steps
  <2>2. CASE VerifyIso(n)
    BY <2>2 DEF VerifyIso, Steps
  <2>3. CASE CallOk(n)
    <3>1. step[n] \in Calls
      BY <2>3 DEF CallOk, IInv, TaskInv
    <3> QED BY <2>3, <3>1 DEF CallOk, Steps, Calls
  <2>4. CASE SshUp(n)
    BY <2>4 DEF SshUp, Steps
  <2> QED BY <1>2, <2>1, <2>2, <2>3, <2>4
<1>3. ASSUME NEW n \in Nodes,
             Goroutine(n) /\ ~(LocalStep(n) \/ VerifyIso(n) \/ CallOk(n) \/ SshUp(n) \/ FinalizeBegin(n))
      PROVE  step' = step
  BY <1>3 DEF Goroutine, Acquire, GiveUp, LocalFail, VerifyIsoFail, LockUpload, Issue, IssueCancelled,
     CallFailed, CallTimeout, CallCancelled, ApplyCallError, ApplyDone, Release, Return,
     SshTimeout, FinalizeFailed, FinalizeDone, FinalizeReturn, Leave
<1>4. ASSUME NEW n \in Nodes, CallLost(n) \/ FinalizeLost(n) \/ Server(n) \/ Foreign(n)
      PROVE  step' = step
  BY <1>4 DEF CallLost, ApplyCallError, Leave, FinalizeLost, FinalizeReturn, Server, Accept, Land,
     Reject, Foreign
<1>5. CASE Stop \/ UNCHANGED vars
  BY <1>5 DEF Stop, vars
<1> QED BY <1>1, <1>2, <1>3, <1>4, <1>5 DEF Next

(* In skip mode a node passes verify-kickstart-iso before it makes a call,  *)
(* and a volume stays.                                                      *)
SkipInv == SkipKickstartBuild => \A n \in Nodes :
  /\ step[n] \notin {"render", "build", "upload"}
  /\ step[n] = "attach" => KickstartStorage
  /\ step[n] # "verify-iso" /\ KickstartStorage => AttachVol \in iso[n]

(* Uploads are the only requests that change the storage, and they add.     *)
LEMMA IsoGrows ==
  ASSUME IInv, [Next]_vars, NEW n \in Nodes
  PROVE  iso[n] \subseteq iso'[n]
<1> USE DEF upVars, goVars, pveVars
<1>1. CASE \E m \in Nodes : Land(m)
  BY <1>1 DEF Land, IInv, TypeOK
<1>2. CASE ~\E m \in Nodes : Land(m)
  <2>1. ASSUME NEW m \in Nodes, Goroutine(m) PROVE iso' = iso
    BY <2>1 DEF Goroutine, Acquire, GiveUp, LocalStep, LocalFail, VerifyIso, VerifyIsoFail, LockUpload,
       Issue, IssueCancelled, CallOk, CallFailed, CallTimeout, CallCancelled, ApplyCallError,
       ApplyDone, Release, Return, FinalizeBegin, SshUp, SshTimeout, FinalizeFailed, FinalizeDone,
       FinalizeReturn
  <2>2. ASSUME NEW m \in Nodes, CallLost(m) \/ FinalizeLost(m) \/ Accept(m) \/ Reject(m) \/ Foreign(m)
        PROVE  iso' = iso
    BY <2>2 DEF CallLost, ApplyCallError, FinalizeLost, FinalizeReturn, Accept, Reject, Foreign
  <2>3. Main \/ Stop \/ UNCHANGED vars => iso' = iso
    BY DEF Main, PlanFree, PlanError, WaitApply, Verify, Stop, vars
  <2> QED BY <1>2, <2>1, <2>2, <2>3 DEF Next, Server
<1> QED BY <1>1, <1>2

(* Every step keeps it. *)
LEMMA SkipInvStep == IInv /\ SkipInv /\ [Next]_vars => SkipInv'
<1> SUFFICES ASSUME IInv, SkipInv, [Next]_vars, SkipKickstartBuild, NEW n \in Nodes
             PROVE  /\ step'[n] \notin {"render", "build", "upload"}
                    /\ step'[n] = "attach" => KickstartStorage
                    /\ step'[n] # "verify-iso" /\ KickstartStorage => AttachVol \in iso'[n]
  BY DEF SkipInv
<1>0. /\ TypeOK /\ iso[n] \subseteq iso'[n]
      /\ step[n] \notin {"render", "build", "upload"}
      /\ step[n] = "attach" => KickstartStorage
      /\ step[n] # "verify-iso" /\ KickstartStorage => AttachVol \in iso[n]
  BY IsoGrows DEF IInv, SkipInv
<1>1. CASE step'[n] = step[n]
  BY <1>0, <1>1
<1>2. CASE step'[n] # step[n]
  <2>1. \/ /\ step'[n] = After(step[n]) /\ step[n] \in Steps \ {"end"}
           /\ step[n] = "verify-iso" => IsoPresent(n)
        \/ FinalizeBegin(n) /\ step'[n] = "ssh"
    <3>1. ASSUME NEW m \in Nodes, FinalizeBegin(m) PROVE m = n /\ step'[n] = "ssh"
      BY <1>0, <1>2, <3>1 DEF FinalizeBegin, TypeOK
    <3>2. ASSUME NEW m \in Nodes, step' = [step EXCEPT ![m] = After(@)] PROVE m = n /\ step'[n] = After(step[n])
      BY <1>0, <1>2, <3>2 DEF TypeOK
    <3> QED BY <1>2, <3>1, <3>2, StepWriters
  <2>2. CASE FinalizeBegin(n) /\ step'[n] = "ssh"
    <3>1. step[n] # "verify-iso"
      <4>1. ControlInv /\ n = cur /\ phase = "finalize" /\ n \in Nat
        BY <2>2 DEF FinalizeBegin, IInv, Nodes
      <4>2. st[n] = "done" /\ why[n] = "none"
        BY <2>2, <4>1 DEF FinalizeBegin, ControlInv, NodeFinalize
      <4> QED BY <4>1, <4>2 DEF ControlInv, NodeControl
    <3> QED BY <1>0, <2>2, <3>1
  <2>3. CASE step'[n] = After(step[n]) /\ step[n] \in Steps \ {"end"}
             /\ (step[n] = "verify-iso" => IsoPresent(n))
    <3>1. After(step[n]) \notin {"render", "build", "upload", "verify-iso"}
      BY <1>0, <2>3 DEF After, Steps, Calls
    <3>2. After(step[n]) = "attach" => KickstartStorage
      BY <1>0, <2>3 DEF After, Steps, Calls
    <3>3. KickstartStorage => AttachVol \in iso[n]
      BY <1>0, <2>3 DEF IsoPresent
    <3> QED BY <1>0, <2>3, <3>1, <3>2, <3>3
  <2> QED BY <2>1, <2>2, <2>3
<1> QED BY <1>1, <1>2

(* Where the ISOs were put on the storage out of band, an attach request    *)
(* names one that is there.  (Where this run uploads them it does not.)     *)
THEOREM AttachesPresentIso ==
  ASSUME SkipKickstartBuild
  PROVE  Spec => []AttachNamesPresentIso
<1>1. Init => SkipInv
  BY DEF Init, SkipInv, FirstStep
<1>2. IInv /\ SkipInv /\ [Next]_vars => SkipInv'
  BY SkipInvStep
<1>3. IInv /\ SkipInv => AttachNamesPresentIso
  BY DEF IInv, SkipInv, AttachNamesPresentIso, TaskInv
<1> QED BY <1>1, <1>2, <1>3, Inductive, PTL DEF Spec
=============================================================================
