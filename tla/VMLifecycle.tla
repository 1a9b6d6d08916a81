---------------------------- MODULE VMLifecycle -----------------------------
(***************************************************************************)
(* One VM over many proxctl commands.  An operator runs one command after  *)
(* another; each is a process that makes its Proxmox calls in order, may   *)
(* lose track of a call, and may be killed between any two steps.  What it *)
(* asked for stays in the VM's task queue.  The guest boots, installs      *)
(* itself and reboots at its own pace, from the first bootable device of   *)
(* the VM's boot order.                                                    *)
(*                                                                         *)
(* The steps inside a call are ProxmoxTask's, the steps of several nodes   *)
(* at once MultiNode's.                                                    *)
(***************************************************************************)
EXTENDS Naturals, Sequences, SequencesExt

CONSTANTS
  Commands,  \* the commands the operator uses
  MaxFaults, \* bound: kills, lost calls, failing tasks, timeouts and unasked
             \* reboots of the guest, together
  MaxQueue,  \* bound: tasks in the VM's queue
  SlowDisk   \* whether the firmware may pass over an installed disk

AllCommands == {"up", "up-skip-finalize", "vm-create", "finalize", "down", "down-force",
                "start", "stop", "stop-force", "reboot", "delete",
                "configure-first-boot", "eject-iso",
                "snapshot-create", "snapshot-restore", "snapshot-delete"}

ASSUME CommandsAssumption ==
  Commands \subseteq AllCommands /\ MaxFaults \in Nat /\ MaxQueue \in Nat \ {0}
    /\ SlowDisk \in BOOLEAN

VARIABLES
  cmd,    \* the running command, none between two commands
  pc,     \* the index of its current step
  wait,   \* the current call: not made, queued (last in the queue), ok, failed
  last,   \* the command that ran last
  res,    \* what it returned, none while it runs
  queue,  \* the tasks of the VM, which holds one lock
  vm,     \* the VM's configuration
  guest,  \* what the guest does
  disk,   \* what is on scsi0
  snap,   \* the snapshot: the configuration and the disk it holds
  faults  \* faults so far

cmdVars == <<cmd, pc, wait, last, res>>
pveVars == <<queue, vm, snap>>
vars    == <<cmdVars, pveVars, guest, disk, faults>>
-----------------------------------------------------------------------------
(* The steps of each command. absent? and present? are VMExists in Plan and *)
(* in Down; ssh is waitForSSHUp.  vm-create is Up with the flag             *)
(* --skip-kickstart-build; without it Up ends at build-iso, for want of a   *)
(* Builder.                                                                 *)
Apply    == <<"absent?", "create", "attach", "order", "start">>
Finalize == <<"ssh", "delete-ide3", "delete-ide2", "order-disk">>

Up_noWait == Apply \o Tail(Finalize)
Up == Apply \o Finalize

Down_stopOnly(stop) == <<"present?", stop>>
Down(stop) == <<"present?", stop, "delete">>

Program(c) ==
  CASE c \in {"up", "vm-create"}       -> Up
    [] c = "up-skip-finalize"          -> Apply
    [] c = "finalize"                  -> Finalize
    [] c = "down"                      -> Down("shutdown")
    [] c = "down-force"                -> Down("stop")
    [] c \in {"start", "reboot", "delete"} -> <<c>>
    [] c = "stop"                      -> <<"shutdown">>
    [] c = "stop-force"                -> <<"stop">>
    [] c = "configure-first-boot"      -> <<"iso-first">>
    [] c = "eject-iso"                 -> <<"empty-ide3">>
    [] c = "snapshot-create"           -> <<"snapshot">>
    [] c = "snapshot-restore"          -> <<"rollback">>
    [] c = "snapshot-delete"           -> <<"delsnapshot">>

Op == Program(cmd)[pc]
IsCall(op) == op \notin {"absent?", "present?", "ssh"}

(* Down goes on when the stop fails. *)
Ignored_createToo(op) == \/ cmd \in {"down", "down-force"} /\ op \in {"shutdown", "stop"}
                         \/ cmd = "up" /\ op = "create"
Ignored_deleteToo(op) == cmd \in {"down", "down-force"} /\ op \in {"shutdown", "stop", "delete"}
Ignored(op) == cmd \in {"down", "down-force"} /\ op \in {"shutdown", "stop"}

(* The snapshot commands post with out = nil and never look at the task.    *)
Unwatched(op) == op \in {"snapshot", "rollback", "delsnapshot"}

NoVM == [exists |-> "no", ide2 |-> "empty", ide3 |-> "empty", boot |-> "default"]
VMs  == [exists : {"no", "creating", "yes"}, ide2 : {"empty", "install"},
         ide3 : {"empty", "kickstart"}, boot : {"default", "install", "iso-first", "disk"}]

NoSnap == [vm |-> NoVM, disk |-> "blank"]

(* The boot orders proxctl sets: attach-kickstart-iso scsi0;ide3;ide2,      *)
(* configure-first-boot by default ide3;scsi0, finalize scsi0.              *)
Order(b) == CASE b = "default"   -> <<"scsi0", "ide2">>
              [] b = "install"   -> <<"scsi0", "ide3", "ide2">>
              [] b = "iso-first" -> <<"ide3", "scsi0">>
              [] b = "disk"      -> <<"scsi0">>

Bootable(d) == CASE d = "scsi0" -> disk = "installed"
                 [] d = "ide3"  -> vm.ide3 = "kickstart"
                 [] d = "ide2"  -> vm.ide2 = "install"

(* The unattended installer is on the kickstart ISO; the install ISO alone  *)
(* waits at its menu.  A slow disk is not ready when the firmware asks.     *)
Boots(slow) ==
  LET i == SelectInSeq(Order(vm.boot), LAMBDA d : Bootable(d) /\ ~(slow /\ d = "scsi0"))
  IN IF i = 0 THEN "nothing"
     ELSE CASE Order(vm.boot)[i] = "scsi0" -> "os"
            [] Order(vm.boot)[i] = "ide3"  -> "installer"
            [] Order(vm.boot)[i] = "ide2"  -> "menu"
-----------------------------------------------------------------------------
Init ==
  /\ cmd = "none" /\ pc = 1 /\ wait = "no" /\ last = "none" /\ res = "none"
  /\ queue = <<>> /\ vm = NoVM /\ snap = NoSnap
  /\ guest = "off" /\ disk = "blank" /\ faults = 0

Begin(c) ==
  /\ cmd = "none" /\ c \in Commands
  /\ cmd' = c /\ pc' = 1 /\ wait' = "no" /\ last' = c /\ res' = "none"
  /\ UNCHANGED <<pveVars, guest, disk, faults>>

End(r) == cmd' = "none" /\ pc' = 1 /\ wait' = "no" /\ res' = r /\ UNCHANGED last

Proceed == IF pc = Len(Program(cmd))
           THEN End("nil")
           ELSE pc' = pc + 1 /\ wait' = "no" /\ UNCHANGED <<cmd, last, res>>

Fault == faults < MaxFaults /\ faults' = faults + 1

(* VMExists, or an SSH banner, which is taken to be the installed system's. *)
Look ==
  /\ cmd # "none"
  /\ CASE Op = "absent?"  -> IF vm.exists = "no" THEN Proceed ELSE End("err")
       [] Op = "present?" -> IF vm.exists = "no" THEN End("nil") ELSE Proceed
       [] Op = "ssh"      -> guest = "os" /\ Proceed
       [] OTHER           -> FALSE
  /\ UNCHANGED <<pveVars, guest, disk, faults>>

(* VMExists takes a 500 without data, which any hiccup of the server may    *)
(* give, for the absence of the VM.                                         *)
Misread ==
  /\ cmd # "none" /\ Op \in {"absent?", "present?"} /\ vm.exists # "no"
  /\ Fault
  /\ IF Op = "absent?" THEN Proceed ELSE End("nil")
  /\ UNCHANGED <<pveVars, guest, disk>>

(* A GET fails; the probe times out, as it must when the guest is down, or  *)
(* an installer has lost its medium.                                        *)
Hopeless == /\ Op = "ssh"
            /\ \/ guest \in {"off", "menu", "nothing"}
               \/ guest = "installer" /\ vm.ide3 = "empty"

LookFails ==
  /\ cmd # "none" /\ ~IsCall(Op)
  /\ IF Hopeless THEN UNCHANGED faults ELSE Fault
  /\ End("err")
  /\ UNCHANGED <<pveVars, guest, disk>>

(* The request reaches the server, which takes it into the VM's queue.  A   *)
(* create reserves the VMID then; a used VMID and a missing VM are refused. *)
Refused(op) == IF op = "create" THEN vm.exists # "no" ELSE vm.exists = "no"

Issue ==
  /\ cmd # "none" /\ IsCall(Op) /\ wait = "no"
  /\ IF Refused(Op)
     THEN wait' = "failed" /\ UNCHANGED <<cmd, pc, last, res, queue, vm>>
     ELSE /\ Len(queue) < MaxQueue
          /\ queue' = Append(queue, Op)
          /\ vm' = IF Op = "create" THEN [vm EXCEPT !.exists = "creating"] ELSE vm
          /\ IF Unwatched(Op) THEN Proceed
                              ELSE wait' = "queued" /\ UNCHANGED <<cmd, pc, last, res>>
  /\ UNCHANGED <<snap, guest, disk, faults>>

Answered ==
  /\ cmd # "none" /\ wait \in {"ok", "failed"}
  /\ IF wait = "ok" \/ Ignored(Op) THEN Proceed ELSE End("err")
  /\ UNCHANGED <<pveVars, guest, disk, faults>>

(* A request or a poll fails although the task goes on.                     *)
Lost ==
  /\ cmd # "none" /\ wait \in {"queued", "ok"}
  /\ Fault
  /\ IF Ignored(Op) THEN Proceed ELSE End("err")
  /\ UNCHANGED <<pveVars, guest, disk>>

Kill ==
  /\ cmd # "none"
  /\ Fault /\ End("killed")
  /\ UNCHANGED <<pveVars, guest, disk>>
-----------------------------------------------------------------------------
(* The server works off the queue. *)

(* The current call learns of its task when that leaves the queue.          *)
Notify(s) == wait' = IF wait = "queued" /\ Len(queue) = 1 THEN s ELSE wait

Possible(op) == CASE op = "create"   -> vm.exists = "creating"
                  [] op = "start"    -> vm.exists = "yes" /\ guest = "off"
                  [] op = "reboot"   -> vm.exists = "yes" /\ guest = "os"
                  [] op = "shutdown" -> vm.exists = "yes" /\ guest \in {"off", "os"}
                  [] op = "delete"   -> vm.exists = "yes" /\ guest = "off"
                  [] op \in {"rollback", "delsnapshot"} -> vm.exists = "yes" /\ snap # NoSnap
                  [] OTHER           -> vm.exists = "yes"

Config(op) ==
  CASE op = "create"      -> [NoVM EXCEPT !.exists = "yes", !.ide2 = "install"]
    [] op = "attach"      -> [vm EXCEPT !.ide3 = "kickstart"]
    [] op = "order"       -> [vm EXCEPT !.boot = "install"]
    [] op = "iso-first"   -> [vm EXCEPT !.ide3 = "kickstart", !.boot = "iso-first"]
    [] op \in {"delete-ide3", "empty-ide3"} -> [vm EXCEPT !.ide3 = "empty"]
    [] op = "delete-ide2" -> [vm EXCEPT !.ide2 = "empty"]
    [] op = "order-disk"  -> [vm EXCEPT !.boot = "disk"]
    [] op = "delete"      -> NoVM
    [] op = "rollback"    -> snap.vm
    [] OTHER              -> vm

Execute ==
  /\ queue # <<>>
  /\ LET op == Head(queue) IN
     /\ Possible(op)
     /\ vm' = Config(op)
     /\ disk' = CASE op \in {"create", "delete"} -> "blank"
                  [] op = "rollback"             -> snap.disk
                  [] OTHER                       -> disk
     /\ guest' = CASE op \in {"start", "reboot"}            -> "booting"
                   [] op \in {"stop", "shutdown", "rollback"} -> "off"
                   [] OTHER                                 -> guest
     /\ snap' = CASE op = "snapshot" -> [vm |-> vm, disk |-> disk]
                  [] op \in {"delete", "delsnapshot"} -> NoSnap
                  [] OTHER           -> snap
     /\ queue' = Tail(queue)
     /\ Notify("ok")
  /\ UNCHANGED <<cmd, pc, last, res, faults>>

(* The task fails: because it must, or for a reason of its own.  A create   *)
(* that fails frees the VMID.                                               *)
TaskFails ==
  /\ queue # <<>>
  /\ IF Possible(Head(queue)) THEN Fault ELSE UNCHANGED faults
  /\ vm' = IF Head(queue) = "create" THEN NoVM ELSE vm
  /\ queue' = Tail(queue)
  /\ Notify("failed")
  /\ UNCHANGED <<cmd, pc, last, res, snap, guest, disk>>
-----------------------------------------------------------------------------
(* The guest.  An installer wipes the disk before it installs.              *)

BootFrom(slow) ==
  /\ guest = "booting"
  /\ guest' = Boots(slow)
  /\ disk' = IF Boots(slow) = "installer" THEN "blank" ELSE disk
  /\ UNCHANGED <<cmdVars, pveVars>>

Boot == BootFrom(FALSE) /\ UNCHANGED faults

(* The firmware does not wait for the disk and boots the next device; when  *)
(* there is none it comes back to the disk.                                 *)
PassesOverDisk ==
  /\ SlowDisk /\ disk = "installed" /\ Boots(TRUE) # "nothing"
  /\ BootFrom(TRUE) /\ Fault

(* What the installer still needs of its medium depends on how far it is:   *)
(* it may finish without, and need not.                                     *)
InstallDone ==
  /\ guest = "installer"
  /\ disk' = "installed" /\ guest' = "booting"
  /\ UNCHANGED <<cmdVars, pveVars, faults>>

GuestReboot ==
  /\ guest = "os"
  /\ Fault
  /\ guest' = "booting"
  /\ UNCHANGED <<cmdVars, pveVars, disk>>

Client == Look \/ (cmd # "none" /\ Hopeless /\ LookFails) \/ Issue \/ Answered
Server == Execute \/ (queue # <<>> /\ ~Possible(Head(queue)) /\ TaskFails)
Guest  == Boot \/ InstallDone

Next == \/ \E c \in Commands : Begin(c)
        \/ Client \/ Misread \/ LookFails \/ Lost \/ Kill
        \/ Execute \/ TaskFails
        \/ Guest \/ PassesOverDisk \/ GuestReboot

Spec == Init /\ [][Next]_vars

(* The processes, the server and the guest run; an operator who keeps using *)
(* every command.  Faults are finite in number: MaxFaults.                  *)
FairSpec == /\ Spec /\ WF_vars(Client) /\ WF_vars(Server)
            /\ WF_vars(Boot) /\ WF_vars(vm.ide3 = "kickstart" /\ InstallDone)
            /\ \A c \in Commands : SF_vars(Begin(c))
-----------------------------------------------------------------------------
TypeOK ==
  /\ cmd \in AllCommands \cup {"none"}
  /\ pc \in 1..(IF cmd = "none" THEN 1 ELSE Len(Program(cmd)))
  /\ wait \in {"no", "queued", "ok", "failed"}
  /\ last \in AllCommands \cup {"none"}
  /\ res \in {"none", "nil", "err", "killed"}
  /\ Len(queue) <= MaxQueue
  /\ vm \in VMs
  /\ guest \in {"off", "booting", "installer", "menu", "os", "nothing"}
  /\ disk \in {"blank", "installed"}
  /\ snap \in [vm : VMs, disk : {"blank", "installed"}]
  /\ faults \in 0..MaxFaults

(* The kickstart ISO is attached to a VM only while its disk is blank (or   *)
(* comes back with a snapshot): neither a VM that Plan took for absent, nor *)
(* what a killed up left in the queue, gets an installed system a medium    *)
(* that would overwrite it (single_vm.go:160-173, 183-260, vm.go:443-451).  *)
AttachesOnlyToBlank ==
  [][vm.ide3 = "empty" /\ vm'.ide3 = "kickstart" =>
       disk = "blank" \/ Head(queue) = "rollback"]_vars

(* When up returns nil the VM has no media and boots its disk only, and the *)
(* system is on the disk, whatever earlier commands were killed and left in *)
(* the queue; or the firmware passed over the disk after up had heard from  *)
(* the system, and an installer is putting it there once more               *)
(* (single_vm.go:310-331).                                                  *)
UpNilMeansInstalled ==
  last = "up" /\ res = "nil" =>
    /\ vm = [exists |-> "yes", ide2 |-> "empty", ide3 |-> "empty", boot |-> "disk"]
    /\ disk = "installed" \/ (SlowDisk /\ guest = "installer")

(* A down that has found its VM returns nil only when the VM is gone and    *)
(* nothing in the queue brings it back, although it ignores what became of  *)
(* the stop (single_vm.go:334-351).                                         *)
DownDeletes ==
  [][pc > 1 /\ cmd \in {"down", "down-force"} /\ cmd' = "none" /\ res' = "nil" =>
       vm' = NoVM /\ ~Contains(queue', "create")]_vars

(* The guest always has something to boot: finalize detaches the media only *)
(* from a VM it saw running from its disk, and nothing it or an earlier     *)
(* command left in the queue does so to a younger, blank VM, as long as the *)
(* firmware waits for the disk (finalize.go:162-203).                       *)
NeverStranded == guest # "nothing"

(* The many commands and tasks come to what Installation promises.          *)
Content(d, ide3) == IF d = "blank" THEN "blank"
                    ELSE IF ide3 = "empty" THEN "sealed" ELSE "installed"

System == IF vm.exists = "no" THEN "absent"
          ELSE IF guest = "installer" THEN "installing" ELSE Content(disk, vm.ide3)

Saved == IF snap = NoSnap THEN "none" ELSE Content(snap.disk, snap.vm.ide3)

Inst == INSTANCE Installation WITH system <- System, saved <- Saved, Reinstalls <- SlowDisk

(* A system is installed on a blank disk; once its kickstart ISO is         *)
(* detached it stays, and is not given the ISO again: only a deletion or a  *)
(* rollback takes it away.  Before that only firmware that passes over the  *)
(* disk has it installed anew (single_vm.go:206-260, finalize.go:162-203,   *)
(* snapshot.go:43-127).                                                     *)
ImplementsInstallation == Inst!Spec

(* Whatever was killed or lost, down --force and up, tried often enough,    *)
(* lead to an installed VM.                                                 *)
Recovers == <>(last = "up" /\ res = "nil")
-----------------------------------------------------------------------------
(* What the documentation says. *)

(* single_vm.go:247: with the disk first in the boot order a reboot before  *)
(* finalize, or a run that never finalizes, boots the installed system and  *)
(* never its installer.                                                     *)
KeepsInstalledDisk ==
  [][guest # "installer" /\ guest' = "installer" => disk # "installed"]_vars

(* docs/quick-start.md:125 and docs/troubleshooting.md:202: down destroys   *)
(* the VM.                                                                  *)
DownNilMeansGone ==
  last \in {"down", "down-force"} /\ res = "nil" =>
    vm = NoVM /\ ~Contains(queue, "create")

(* docs/user-guide.md:215-216 and internal/root/workflow.go:154: up and vm   *)
(* create may be run again: as long as nothing goes wrong neither fails.    *)
CreateIdempotent == faults = 0 => ~(last \in {"up", "vm-create"} /\ res = "err")

(* docs/user-guide.md:190: vm create does not boot the VM.                  *)
VmCreateDoesNotBoot == [][cmd = "vm-create" /\ guest = "off" => guest' = "off"]_vars

(* docs/user-guide.md:341: a snapshot is the checkpoint before a change.    *)
(* When snapshot create has returned nil and the server is done, there is   *)
(* one to go back to.                                                       *)
SnapshotTaken ==
  last = "snapshot-create" /\ res = "nil" /\ queue = <<>> => snap # NoSnap
=============================================================================
