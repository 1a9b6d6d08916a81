----------------------------- MODULE MultiNode -----------------------------
(***************************************************************************)
(* `proxctl workflow up` over several nodes: MultiNodeWorkflow.Up of       *)
(* pkg/workflow/multi_node.go, the SingleVMWorkflow.Apply each goroutine   *)
(* runs (pkg/workflow/single_vm.go) and the finalize loop that follows     *)
(* (pkg/workflow/finalize.go), against Proxmox servers that execute what   *)
(* they are asked at a later moment, if at all.                            *)
(*                                                                         *)
(* One mutating REST call is modelled by its two ends.  The client's end   *)
(* is st[n] = "call"; the server's end is task[n], which outlives the call *)
(* when the client gives up on it (a lost answer, the 30 s HTTP timeout, a *)
(* failed poll, a cancelled context).  How client.Do and WaitForTask       *)
(* produce the three outcomes of a call is the subject of ProxmoxTask.     *)
(*                                                                         *)
(* Nodes are numbered in the order of nodeNames: sorted by name.           *)
(*                                                                         *)
(* An operator called <Name>_<variant> is a wrong version of <Name>, which *)
(* the specification does not use: the properties must tell it apart.      *)
(***************************************************************************)
EXTENDS Naturals, FiniteSets

CONSTANTS
  N,                  \* number of nodes of the manifest
  MaxConcurrency,     \* capacity of the semaphore channel
  ContinueOnError,    \* WaitGroup mode; otherwise errgroup (fail-fast) mode
  SkipKickstartBuild, \* assume the kickstart ISO was uploaded out of band
  KickstartStorage,   \* iso.kickstart_storage is configured
  SkipFinalize,       \* leave out the finalize phase
  Misread             \* a GET of an existing VM may be answered like a GET of an
                      \* absent one (isNotFound takes 500 {"data":null} for absence)

ASSUME ConstantsAssumption ==
  /\ N \in Nat \ {0}
  /\ MaxConcurrency \in Nat \ {0}
  /\ {ContinueOnError, SkipKickstartBuild, KickstartStorage, SkipFinalize, Misread}
       \subseteq BOOLEAN

Nodes == 1..N

VARIABLES
  phase,     \* where Up is: plan, apply, verify, finalize, returned
  cur,       \* node of the sequential loops (Plan, Finalize)
  result,    \* what Up returned
  st,        \* control point of each node's goroutine
  step,      \* the step of its change list each node is at
  why,       \* why a node failed: by itself, or because the context was cancelled
  sem,       \* tokens in the semaphore channel
  mu,        \* holder of UploadMu, 0 when it is free
  cancelled, \* gctx is done
  first,     \* node whose error errgroup kept, 0 for none
  vm,        \* what the Proxmox server has under each node's VMID
  task,      \* the last mutating request of each node, as the server sees it
  iso        \* ISO volumes of each node on the kickstart storage

upVars   == <<phase, cur, result>>
goVars   == <<st, step, why>>
lockVars == <<sem, mu, cancelled, first>>
pveVars  == <<vm, task, iso>>
vars     == <<upVars, goVars, lockVars, pveVars>>
-----------------------------------------------------------------------------
(* The change list of Plan, as the successor of each step.  The one change  *)
(* attach-kickstart-iso is two calls: attach, then boot.                    *)

FirstStep == IF ~SkipKickstartBuild THEN "render"
             ELSE IF KickstartStorage THEN "verify-iso" ELSE "create"

After(s) ==
  CASE s = "render"     -> "build"
    [] s = "build"      -> IF KickstartStorage THEN "upload" ELSE "create"
    [] s = "upload"     -> "create"
    [] s = "verify-iso" -> "create"
    [] s = "create"     -> IF KickstartStorage THEN "attach" ELSE "start"
    [] s = "attach"     -> "boot"
    [] s = "boot"       -> "start"
    [] s = "start"      -> "end"
    [] s = "ssh"        -> "eject3"
    [] s = "eject3"     -> "eject2"
    [] s = "eject2"     -> "bootdisk"
    [] s = "bootdisk"   -> "end"

Calls == {"upload", "create", "attach", "boot", "start", "eject3", "eject2", "bootdisk"}
Steps == Calls \cup {"render", "build", "verify-iso", "ssh", "end"}

(* A volume is named by who wrote it: Apply uploads proxctl-<node>.iso, and *)
(* verify-iso and attach name <node>_kickstart.iso.                         *)
Volumes   == {"proxctl", "kickstart"}
UploadVol == "proxctl"
AttachVol == "kickstart"

NoVM == [owner |-> "none", status |-> "stopped", ide2 |-> "empty", ide3 |-> "empty",
         boot |-> "default"]
VMs  == [owner : {"none", "ours", "other"}, status : {"stopped", "running"},
         ide2 : {"empty", "install"}, ide3 : {"empty", AttachVol},
         boot : {"default", "install", "disk"}]

NoTask == [op |-> "none", state |-> "none"]
Tasks  == [op : Calls \cup {"none"}, state : {"none", "sent", "running", "ok", "failed"}]

(* The server executes op on v: a create needs the VMID free, every other   *)
(* call needs a VM.                                                         *)
Accepts(op, v) == CASE op = "upload" -> TRUE
                    [] op = "create" -> v.owner = "none"
                    [] OTHER         -> v.owner # "none"

Effect(op, v) ==
  CASE op = "create"   -> [NoVM EXCEPT !.owner = "ours", !.ide2 = "install"]
    [] op = "attach"   -> [v EXCEPT !.ide3 = AttachVol]
    [] op = "boot"     -> [v EXCEPT !.boot = "install"]
    [] op = "start"    -> [v EXCEPT !.status = "running"]
    [] op = "eject3"   -> [v EXCEPT !.ide3 = "empty"]
    [] op = "eject2"   -> [v EXCEPT !.ide2 = "empty"]
    [] op = "bootdisk" -> [v EXCEPT !.boot = "disk"]
    [] OTHER           -> v
-----------------------------------------------------------------------------
Init ==
  /\ phase = "plan" /\ cur = 1 /\ result = "none"
  /\ st = [n \in Nodes |-> "queued"]
  /\ step = [n \in Nodes |-> FirstStep]
  /\ why = [n \in Nodes |-> "none"]
  /\ sem = 0 /\ mu = 0 /\ cancelled = FALSE /\ first = 0
  /\ vm = [n \in Nodes |-> NoVM]
  /\ task = [n \in Nodes |-> NoTask]
  /\ iso \in [Nodes -> {{}, {AttachVol}}]

(* MultiNodeWorkflow.Plan, one node at a time: VMExists must say no.  An    *)
(* existing VM and a failed GET both end Up.                                *)
PlanFree ==
  /\ phase = "plan"
  /\ vm[cur].owner = "none" \/ Misread
  /\ IF cur = N THEN phase' = "apply" /\ cur' = 1
                ELSE cur' = cur + 1 /\ UNCHANGED phase
  /\ UNCHANGED <<result, goVars, lockVars, pveVars>>

PlanError ==
  /\ phase = "plan"
  /\ phase' = "returned" /\ result' = "err"
  /\ UNCHANGED <<cur, goVars, lockVars, pveVars>>
-----------------------------------------------------------------------------
(* The goroutine of node n. *)

Go(n, s) == st' = [st EXCEPT ![n] = s]

SlotFree == sem < MaxConcurrency

(* Sending to the semaphore channel.  With ContinueOnError the loop of      *)
(* applyPlan sends before it starts the goroutine, so nodes get their slot  *)
(* in order; in fail-fast mode every goroutine sends for itself.            *)
Acquire(n) ==
  /\ phase = "apply" /\ st[n] = "queued"
  /\ SlotFree
  /\ ContinueOnError => \A m \in 1..(n-1) : st[m] # "queued"
  /\ sem' = sem + 1
  /\ Go(n, "ready")
  /\ UNCHANGED <<upVars, step, why, mu, cancelled, first, pveVars>>

(* The other branch of the select: gctx.Done.  When a slot is free too the  *)
(* select takes either.                                                     *)
GiveUp(n) ==
  /\ phase = "apply" /\ st[n] = "queued"
  /\ cancelled
  /\ Go(n, "released")
  /\ why' = [why EXCEPT ![n] = "cancel"]
  /\ UNCHANGED <<upVars, step, lockVars, pveVars>>

(* Apply returns an error: no further step of this node runs.               *)
Leave(n, w) ==
  /\ Go(n, "leaving")
  /\ why' = [why EXCEPT ![n] = w]
  /\ UNCHANGED step

(* render-kickstart and build-iso, which no context interrupts.  What they  *)
(* do on the local disk is the subject of KickstartBuild.                   *)
LocalStep(n) ==
  /\ phase = "apply" /\ st[n] = "ready" /\ step[n] \in {"render", "build"}
  /\ step' = [step EXCEPT ![n] = After(@)]
  /\ UNCHANGED <<upVars, st, why, lockVars, pveVars>>

LocalFail(n) ==
  /\ phase = "apply" /\ st[n] = "ready" /\ step[n] \in {"render", "build"}
  /\ Leave(n, "own")
  /\ UNCHANGED <<upVars, lockVars, pveVars>>

IsoPresent_unchecked(n) == TRUE
IsoPresent(n) == AttachVol \in iso[n]

(* verify-kickstart-iso: StorageContentExists, a GET under gctx.            *)
VerifyIso(n) ==
  /\ phase = "apply" /\ st[n] = "ready" /\ step[n] = "verify-iso"
  /\ ~cancelled
  /\ IsoPresent(n)
  /\ step' = [step EXCEPT ![n] = After(@)]
  /\ UNCHANGED <<upVars, st, why, lockVars, pveVars>>

VerifyIsoFail(n) ==
  /\ phase = "apply" /\ st[n] = "ready" /\ step[n] = "verify-iso"
  /\ Leave(n, IF cancelled THEN "cancel" ELSE "own")
  /\ UNCHANGED <<upVars, lockVars, pveVars>>

UploadFree_perNodeMutex(n) == mu # n
UploadFree(n) == mu = 0

(* UploadMu.Lock: not interruptible, held for the whole UploadISO call.     *)
LockUpload(n) ==
  /\ phase = "apply" /\ st[n] = "ready" /\ step[n] = "upload"
  /\ UploadFree(n)
  /\ mu' = n
  /\ Go(n, "locked")
  /\ UNCHANGED <<upVars, step, why, sem, cancelled, first, pveVars>>

(* The point from which the next mutating call of n is made.                *)
CanCall(n) == /\ step[n] \in Calls
              /\ st[n] = (IF step[n] = "upload" THEN "locked" ELSE "ready")

Unlock_onSuccess(n) == mu' = IF mu = n /\ st[n] = "call" /\ task[n].state = "ok" THEN 0 ELSE mu

(* The deferred unlock of the mutex, when n holds it.                       *)
Unlock(n) == mu' = IF mu = n THEN 0 ELSE mu

(* Client.Do hands the request to the transport, which refuses a request    *)
(* whose context is done.  Finalize runs under Up's own context.            *)
Issue(n) ==
  /\ CanCall(n)
  /\ ~(phase = "apply" /\ cancelled)
  /\ Go(n, "call")
  /\ task' = [task EXCEPT ![n] = [op |-> step[n], state |-> "sent"]]
  /\ UNCHANGED <<upVars, step, why, lockVars, vm, iso>>

IssueCancelled(n) ==
  /\ phase = "apply" /\ CanCall(n) /\ cancelled
  /\ Leave(n, "cancel")
  /\ Unlock(n)
  /\ UNCHANGED <<upVars, sem, cancelled, first, pveVars>>

Executed_submitted(n) == task[n].state \in {"running", "ok"}
Executed_existsIsFine(n) == \/ task[n].state = "ok"
                            \/ task[n].op = "create" /\ task[n].state = "failed"
Executed(n) == task[n].state = "ok"

(* The call returns nil: the answer without UPID, or the last poll, says    *)
(* that the request was executed.                                           *)
CallOk(n) ==
  /\ st[n] = "call" /\ Executed(n)
  /\ Go(n, "ready")
  /\ step' = [step EXCEPT ![n] = After(@)]
  /\ Unlock(n)
  /\ UNCHANGED <<upVars, why, sem, cancelled, first, pveVars>>

(* The call returns an error during Apply.  CallFailed: the server refused  *)
(* the request or its task ended badly.  CallTimeout: nothing came back     *)
(* within the HTTP timeout.  CallCancelled: gctx was cancelled under the    *)
(* request or between two polls.  CallLost: any other transport or poll     *)
(* error, whatever became of the request.                                   *)
ApplyCallError(n, w) ==
  /\ phase = "apply" /\ st[n] = "call"
  /\ Leave(n, w)
  /\ Unlock(n)
  /\ UNCHANGED <<upVars, sem, cancelled, first, pveVars>>

CallFailed(n)    == task[n].state = "failed" /\ ApplyCallError(n, "own")
CallTimeout(n)   == task[n].state = "sent" /\ ApplyCallError(n, "own")
CallCancelled_blindPoll(n) ==
  cancelled /\ task[n].state = "sent" /\ ApplyCallError(n, "cancel")
CallCancelled(n) == cancelled /\ ApplyCallError(n, "cancel")
CallLost(n)      == task[n].state \in {"running", "ok"} /\ ApplyCallError(n, "own")

(* The end of the change list.  The local ISO is removed or, when os.Remove *)
(* fails, stays; nothing depends on which.                                  *)
ApplyDone(n) ==
  /\ phase = "apply" /\ st[n] = "ready" /\ step[n] = "end"
  /\ Go(n, "leaving")
  /\ UNCHANGED <<upVars, step, why, lockVars, pveVars>>

Release_leaks(n) ==
  /\ phase = "apply" /\ st[n] = "leaving"
  /\ sem' = IF why[n] = "none" THEN sem - 1 ELSE sem
  /\ Go(n, "released")
  /\ UNCHANGED <<upVars, step, why, mu, cancelled, first, pveVars>>

(* The deferred receive from the semaphore channel.                         *)
Release(n) ==
  /\ phase = "apply" /\ st[n] = "leaving"
  /\ sem' = sem - 1
  /\ Go(n, "released")
  /\ UNCHANGED <<upVars, step, why, mu, cancelled, first, pveVars>>

KeepsError_last(n) == ~ContinueOnError /\ why[n] # "none"
KeepsError(n) == ~ContinueOnError /\ why[n] # "none" /\ first = 0

(* The goroutine returns.  errgroup keeps the first error and cancels gctx. *)
Return(n) ==
  /\ phase = "apply" /\ st[n] = "released"
  /\ Go(n, "done")
  /\ IF KeepsError(n)
     THEN first' = n /\ cancelled' = TRUE
     ELSE UNCHANGED <<first, cancelled>>
  /\ UNCHANGED <<upVars, step, why, sem, mu, pveVars>>
-----------------------------------------------------------------------------
(* Up, after the goroutines. *)

ApplyFailed_ignored == FALSE
ApplyFailed == IF ContinueOnError THEN \E n \in Nodes : why[n] # "none" ELSE first # 0

(* g.Wait or wg.Wait, and Up's return when applyPlan failed.                *)
WaitApply ==
  /\ phase = "apply"
  /\ \A n \in Nodes : st[n] = "done"
  /\ IF ApplyFailed THEN phase' = "returned" /\ result' = "err"
                    ELSE phase' = "verify" /\ UNCHANGED result
  /\ UNCHANGED <<cur, goVars, lockVars, pveVars>>

(* Verify only reads, and Up only prints what it finds.                     *)
Verify ==
  /\ phase = "verify"
  /\ IF SkipFinalize THEN phase' = "returned" /\ result' = "nil"
                     ELSE phase' = "finalize" /\ UNCHANGED result
  /\ UNCHANGED <<cur, goVars, lockVars, pveVars>>

(* MultiNodeWorkflow.Finalize visits the nodes in order. *)
FinalizeBegin(n) ==
  /\ phase = "finalize" /\ cur = n /\ st[n] = "done"
  /\ Go(n, "ready")
  /\ step' = [step EXCEPT ![n] = "ssh"]
  /\ UNCHANGED <<upVars, why, lockVars, pveVars>>

(* waitForSSHUp sees the banner. *)
SshUp(n) ==
  /\ phase = "finalize" /\ st[n] = "ready" /\ step[n] = "ssh"
  /\ step' = [step EXCEPT ![n] = After(@)]
  /\ UNCHANGED <<upVars, st, why, lockVars, pveVars>>

FinalizeReturn_stops(n, w) ==
  /\ phase = "finalize"
  /\ Go(n, "finalized")
  /\ why' = [why EXCEPT ![n] = w]
  /\ IF n = N \/ w # "none"
     THEN /\ phase' = "returned"
          /\ result' = IF w # "none" THEN "err" ELSE "nil"
          /\ UNCHANGED cur
     ELSE cur' = n + 1 /\ UNCHANGED <<phase, result>>
  /\ UNCHANGED <<step, lockVars, pveVars>>

(* Finalize of node n returns; its error is kept and the loop goes on.      *)
FinalizeReturn(n, w) ==
  /\ phase = "finalize"
  /\ Go(n, "finalized")
  /\ why' = [why EXCEPT ![n] = w]
  /\ IF n = N
     THEN /\ phase' = "returned"
          /\ result' = IF \E m \in Nodes : why'[m] # "none" THEN "err" ELSE "nil"
          /\ UNCHANGED cur
     ELSE cur' = n + 1 /\ UNCHANGED <<phase, result>>
  /\ UNCHANGED <<step, lockVars, pveVars>>

FinalizeDone(n)    == st[n] = "ready" /\ step[n] = "end" /\ FinalizeReturn(n, "none")
SshTimeout(n)      == st[n] = "ready" /\ step[n] = "ssh" /\ FinalizeReturn(n, "own")
FinalizeFailed(n)  == /\ st[n] = "call" /\ task[n].state \in {"sent", "failed"}
                      /\ FinalizeReturn(n, "own")
FinalizeLost(n)    == /\ st[n] = "call" /\ task[n].state \in {"running", "ok"}
                      /\ FinalizeReturn(n, "own")
-----------------------------------------------------------------------------
(* The Proxmox server and its other users. *)

(* The request arrives; a request that never does stays "sent".             *)
Accept(n) ==
  /\ task[n].state = "sent"
  /\ task' = [task EXCEPT ![n].state = "running"]
  /\ UNCHANGED <<upVars, goVars, lockVars, vm, iso>>

(* The task ends OK, whether or not a client still waits for it.            *)
Land(n) ==
  /\ task[n].state = "running" /\ Accepts(task[n].op, vm[n])
  /\ task' = [task EXCEPT ![n].state = "ok"]
  /\ vm' = [vm EXCEPT ![n] = Effect(task[n].op, @)]
  /\ iso' = IF task[n].op = "upload" THEN [iso EXCEPT ![n] = @ \cup {UploadVol}] ELSE iso
  /\ UNCHANGED <<upVars, goVars, lockVars>>

Reject(n) ==
  /\ task[n].state = "running"
  /\ task' = [task EXCEPT ![n].state = "failed"]
  /\ UNCHANGED <<upVars, goVars, lockVars, vm, iso>>

(* Somebody else creates a VM under the VMID while it is free.              *)
Foreign(n) ==
  /\ phase \in {"plan", "apply"} /\ vm[n].owner = "none"
  /\ vm' = [vm EXCEPT ![n] = [NoVM EXCEPT !.owner = "other"]]
  /\ UNCHANGED <<upVars, goVars, lockVars, task, iso>>

(* Up has returned; only the server still moves. *)
Stop == phase = "returned" /\ UNCHANGED vars
-----------------------------------------------------------------------------
Goroutine(n) ==
  \/ Acquire(n) \/ GiveUp(n) \/ LocalStep(n) \/ LocalFail(n)
  \/ VerifyIso(n) \/ VerifyIsoFail(n) \/ LockUpload(n)
  \/ Issue(n) \/ IssueCancelled(n)
  \/ CallOk(n) \/ CallFailed(n) \/ CallTimeout(n) \/ CallCancelled(n)
  \/ ApplyDone(n) \/ Release(n) \/ Return(n)
  \/ FinalizeBegin(n) \/ SshUp(n) \/ SshTimeout(n) \/ FinalizeFailed(n) \/ FinalizeDone(n)

Main == PlanFree \/ PlanError \/ WaitApply \/ Verify

Server(n) == Accept(n) \/ Land(n) \/ Reject(n)

Next ==
  \/ Main
  \/ \E n \in Nodes : \/ Goroutine(n) \/ CallLost(n) \/ FinalizeLost(n)
                      \/ Server(n) \/ Foreign(n)
  \/ Stop

Spec == Init /\ [][Next]_vars

(* The Go scheduler runs every goroutine that can run; sends, locks and     *)
(* selects on a resource that stays available are served.  Nothing is       *)
(* assumed of the server.                                                   *)
ClientFairness == WF_vars(Main) /\ \A n \in Nodes : WF_vars(Goroutine(n))
ClientFairSpec == Spec /\ ClientFairness

(* Every request the server accepted is carried to an end.                  *)
ServerFairness == \A n \in Nodes : WF_vars(Server(n))
-----------------------------------------------------------------------------
TypeOK ==
  /\ phase \in {"plan", "apply", "verify", "finalize", "returned"}
  /\ cur \in Nodes
  /\ result \in {"none", "nil", "err"}
  /\ st \in [Nodes -> {"queued", "ready", "locked", "call", "leaving", "released",
                       "done", "finalized"}]
  /\ step \in [Nodes -> Steps]
  /\ why \in [Nodes -> {"none", "own", "cancel"}]
  /\ sem \in 0..MaxConcurrency
  /\ mu \in Nodes \cup {0}
  /\ cancelled \in BOOLEAN
  /\ first \in Nodes \cup {0}
  /\ vm \in [Nodes -> VMs]
  /\ task \in [Nodes -> Tasks]
  /\ iso \in [Nodes -> SUBSET Volumes]

(* Nodes inside applyNode. *)
Active == {n \in Nodes : phase = "apply" /\ st[n] \in {"ready", "locked", "call", "leaving"}}

(* No more goroutines are inside applyNode than MaxConcurrency, and the     *)
(* channel holds exactly one token for each of them: no error path leaks or *)
(* returns a slot twice (multi_node.go:175-178, 195-200).                   *)
ConcurrencyCapped == sem = Cardinality(Active) /\ sem <= MaxConcurrency

(* Two clients are never inside UploadISO at once, and the mutex is free    *)
(* when nobody is (single_vm.go:203-209).                                   *)
Uploading(n) == st[n] = "locked" \/ (st[n] = "call" /\ step[n] = "upload")
UploadsExclusive == \A n \in Nodes : Uploading(n) <=> mu = n

(* The error Up returns in fail-fast mode is a failure some node met by     *)
(* itself, never the cancellation that failure caused in another node       *)
(* (errgroup keeps its first error and cancels only after, 190-207).        *)
RootCauseReported == first # 0 => why[first] = "own"

(* A VM that was not created by this run is never changed, although the VM  *)
(* may appear between Plan's check and create-vm, or be misread as absent:  *)
(* a failed create ends the node's Apply (single_vm.go:228-235).            *)
ForeignUntouched == [][\A n \in Nodes : vm[n].owner = "other" => vm'[n] = vm[n]]_vars

(* A VM is started only after its kickstart ISO is attached and its boot    *)
(* order set, whatever answers were lost (single_vm.go:236-256).            *)
StartAfterConfigured ==
  [][\A n \in Nodes : (KickstartStorage /\ vm[n].status # "running" /\ vm'[n].status = "running")
       => vm[n].ide3 = AttachVol /\ vm[n].boot = "install"]_vars

Finalized(n) == /\ vm[n].owner = "ours" /\ vm[n].status = "running"
                /\ vm[n].ide2 = "empty" /\ vm[n].ide3 = "empty" /\ vm[n].boot = "disk"

(* When Up returns nil every VM is ours, running, and, unless finalize was  *)
(* skipped, without install media and booting from its disk; and no request *)
(* of this run can still change it (multi_node.go:263-290).                 *)
NilMeansDone ==
  result = "nil" =>
    \A n \in Nodes : /\ vm[n].owner = "ours" /\ vm[n].status = "running"
                     /\ SkipFinalize \/ Finalized(n)
                     /\ task[n].state = "ok"

(* One node's failing finalize does not keep the others from theirs: when   *)
(* Up returns after it began to finalize, every node has had its turn, and  *)
(* a node without an error is without install media, boots from its disk    *)
(* and stays so, whatever requests of the failed nodes still land           *)
(* (finalize.go:226-240).                                                   *)
FinalizeVisitsAll ==
  phase = "returned" /\ (\E n \in Nodes : st[n] = "finalized") =>
    \A n \in Nodes : st[n] = "finalized" /\ (why[n] = "none" => Finalized(n))

(* The kickstart ISO an attach request names is on the storage when the     *)
(* request is made (single_vm.go:220-227 checks it in skip mode).           *)
AttachNamesPresentIso ==
  \A n \in Nodes : task[n].op = "attach" /\ task[n].state = "sent" => AttachVol \in iso[n]

(* Fail-fast: once one node has failed, Up returns even if the server never *)
(* finishes the tasks the other nodes are waiting for.                      *)
FailFastReturns == cancelled ~> phase = "returned"

(* With a server that finishes what it accepted Up returns: neither a slot  *)
(* nor the upload mutex is waited for forever (multi_node.go:172-207,       *)
(* single_vm.go:203-209).                                                   *)
UpReturns == ServerFairness => <>(phase = "returned")
-----------------------------------------------------------------------------
(* The inductive invariant of MultiNodeProofs. *)

FinalSteps == {"ssh", "eject3", "eject2", "bootdisk", "end"}
Created    == FinalSteps \cup {"attach", "boot", "start"}

(* Where a goroutine may be, and what why records of it.                    *)
NodeControl(n) ==
  /\ st[n] = "locked" => step[n] = "upload"
  /\ st[n] \in {"leaving", "released", "done"} /\ why[n] = "none" => step[n] = "end"
  /\ st[n] \in {"queued", "ready", "locked", "call"} => why[n] = "none"

(* How far the finalize loop has come.                                      *)
NodeFinalize(n) ==
  /\ n < cur => st[n] = "finalized"
  /\ n > cur => st[n] = "done"
  /\ n = cur => \/ st[n] = "done"
                \/ st[n] \in {"ready", "call"} /\ step[n] \in FinalSteps
  /\ n >= cur => why[n] = "none"
  /\ st[n] = "finalized" /\ why[n] = "none" => step[n] = "end"

ControlInv ==
  /\ phase = "plan" => \A n \in Nodes : st[n] = "queued"
  /\ phase \in {"apply", "verify"} => cur = 1
  /\ phase = "verify" => \A n \in Nodes : st[n] = "done" /\ why[n] = "none"
  /\ phase = "finalize" => ~SkipFinalize /\ \A n \in Nodes : NodeFinalize(n)
  /\ result # "none" <=> phase = "returned"
  /\ result = "nil" => \A n \in Nodes : st[n] = IF SkipFinalize THEN "done" ELSE "finalized"
  /\ \A n \in Nodes : NodeControl(n)

(* errgroup: the context is cancelled by the first recorded error alone.    *)
ErrorInv ==
  /\ first # 0 => /\ cancelled /\ st[first] = "done" /\ why[first] = "own"
                  /\ phase \in {"apply", "returned"}
  /\ cancelled => first # 0
  /\ \A n \in Nodes : why[n] = "cancel" => cancelled
  /\ phase = "apply" /\ ~ContinueOnError =>
       \A n \in Nodes : st[n] = "done" /\ why[n] # "none" => first # 0

(* A request the server has not finished is the step its node is at, or     *)
(* stopped at; between two calls of a node there is none.                   *)
TaskInv ==
  \A n \in Nodes :
    /\ task[n].state \in {"sent", "running"} => step[n] \in Calls /\ task[n].op = step[n]
    /\ st[n] = "call" => /\ step[n] \in Calls /\ task[n].op = step[n]
                         /\ task[n].state # "none"
    /\ st[n] # "call" /\ why[n] = "none" =>
         /\ task[n].state \in {"none", "ok"}
         /\ step[n] \in Created => task[n].state = "ok"

(* What the steps already made have left on the server.                     *)
NodeServed(n) ==
  /\ step[n] \in Created => vm[n].owner = "ours"
  /\ step[n] = "boot" => vm[n].ide3 = AttachVol
  /\ step[n] = "start" /\ KickstartStorage =>
       vm[n].ide3 = AttachVol /\ vm[n].boot = "install"
  /\ step[n] \in FinalSteps => vm[n].status = "running"
  /\ step[n] \in {"eject2", "bootdisk"} => vm[n].ide3 = "empty"
  /\ step[n] = "bootdisk" => vm[n].ide2 = "empty"
  /\ st[n] = "call" /\ task[n].state = "ok" =>
       CASE step[n] = "create"   -> vm[n].owner = "ours"
         [] step[n] = "attach"   -> vm[n].ide3 = AttachVol
         [] step[n] = "boot"     -> vm[n].boot = "install"
         [] step[n] = "start"    -> vm[n].status = "running"
         [] step[n] = "eject3"   -> vm[n].ide3 = "empty"
         [] step[n] = "eject2"   -> vm[n].ide2 = "empty"
         [] step[n] = "bootdisk" -> vm[n].boot = "disk"
         [] OTHER                -> TRUE
  /\ phase = "finalize" /\ step[n] = "end" /\ st[n] \in {"ready", "finalized"} => Finalized(n)

ServerInv == \A n \in Nodes : NodeServed(n)

(* All of it, with the invariants it strengthens. *)
IInv == /\ TypeOK /\ ConcurrencyCapped /\ UploadsExclusive /\ RootCauseReported /\ NilMeansDone
        /\ FinalizeVisitsAll /\ ControlInv /\ ErrorInv /\ TaskInv /\ ServerInv

-----------------------------------------------------------------------------
(* What the documentation and comments say. *)

(* docs/user-guide.md:326-328: the stack is unwound when Apply fails, and   *)
(* no resource survives a failed up.                                        *)
NoOrphanAfterFailedUp == result = "err" => \A n \in Nodes : vm[n].owner # "ours"

(* pkg/workflow/single_vm.go:322-324: finalize is mandatory for VMs that    *)
(* were installed, and multi_node.go:148-149: with ContinueOnError a node's *)
(* failure keeps the others running.  A node whose Apply returned nil then  *)
(* has had its finalize when Up returns.                                    *)
HealthyNodesFinalized ==
  (phase = "returned" /\ ContinueOnError /\ ~SkipFinalize) =>
    \A n \in Nodes : step[n] = "end" => st[n] = "finalized"

(* multi_node.go:20-22 and CHANGELOG.md:627: ISOUploadMu prevents parallel  *)
(* uploads to the same storage.                                             *)
UploadEndpointNotRaced ==
  \A n, m \in Nodes : (/\ task[n] = [op |-> "upload", state |-> "running"]
                       /\ task[m] = [op |-> "upload", state |-> "running"]) => n = m
=============================================================================
