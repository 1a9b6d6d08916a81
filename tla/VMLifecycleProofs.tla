------------------------- MODULE VMLifecycleProofs --------------------------
(***************************************************************************)
(* What VMLifecycle guarantees for every set of commands, every number of  *)
(* faults and every length of the queue.                                   *)
(*                                                                         *)
(* IInv says what the queue, the VM and the guest have to do with one      *)
(* another whatever runs.  On it rest: UpInv (what up has achieved, step   *)
(* by step), DownInv, DiskFirst (every boot order starts with the disk,    *)
(* unless configure-first-boot is used), AttachInv (an attach finds a VM   *)
(* that is off and blank) and StripInv (a blank VM keeps what it boots).   *)
(***************************************************************************)
EXTENDS VMLifecycle, SequenceTheorems, TLAPS

Looks == {"absent?", "present?", "ssh"}
Calls == {"create", "attach", "order", "start", "delete-ide3", "delete-ide2", "order-disk",
          "shutdown", "stop", "delete", "reboot", "iso-first", "empty-ide3",
          "snapshot", "rollback", "delsnapshot"}
Ops == Looks \cup Calls

(* The steps of up. *)
LEMMA UpSteps ==
  /\ Up \in Seq(Ops) /\ Len(Up) = 9
  /\ Up[1] = "absent?" /\ Up[2] = "create" /\ Up[3] = "attach" /\ Up[4] = "order"
  /\ Up[5] = "start" /\ Up[6] = "ssh" /\ Up[7] = "delete-ide3" /\ Up[8] = "delete-ide2"
  /\ Up[9] = "order-disk"
<1>1. Apply \in Seq(Ops) /\ Len(Apply) = 5
  BY DEF Apply, Ops, Looks, Calls
<1>2. Finalize \in Seq(Ops) /\ Len(Finalize) = 4
  BY DEF Finalize, Ops, Looks, Calls
<1>3. /\ Up \in Seq(Ops) /\ Len(Up) = Len(Apply) + Len(Finalize)
      /\ \A j \in 1..(Len(Apply) + Len(Finalize)) :
           Up[j] = IF j <= Len(Apply) THEN Apply[j] ELSE Finalize[j - Len(Apply)]
  <2> HIDE DEF Ops
  <2> QED BY <1>1, <1>2, ConcatProperties DEF Up
<1>4. /\ Up[1] = Apply[1] /\ Up[2] = Apply[2] /\ Up[3] = Apply[3] /\ Up[4] = Apply[4]
      /\ Up[5] = Apply[5] /\ Up[6] = Finalize[1] /\ Up[7] = Finalize[2]
      /\ Up[8] = Finalize[3] /\ Up[9] = Finalize[4]
  BY <1>1, <1>2, <1>3
<1>5. QED BY <1>1, <1>2, <1>3, <1>4 DEF Apply, Finalize

(* What each command runs. *)
LEMMA Programs ==
  /\ \A c \in {"up", "vm-create"} : Program(c) = Up
  /\ Program("up-skip-finalize") = Apply
  /\ Program("finalize") = Finalize
  /\ Program("down") = <<"present?", "shutdown", "delete">>
  /\ Program("down-force") = <<"present?", "stop", "delete">>
  /\ \A c \in {"start", "reboot", "delete"} : Program(c) = <<c>>
  /\ Program("stop") = <<"shutdown">> /\ Program("stop-force") = <<"stop">>
  /\ Program("configure-first-boot") = <<"iso-first">>
  /\ Program("eject-iso") = <<"empty-ide3">>
  /\ Program("snapshot-create") = <<"snapshot">>
  /\ Program("snapshot-restore") = <<"rollback">>
  /\ Program("snapshot-delete") = <<"delsnapshot">>
BY DEF Program, Down

(* The commands of one step and of three. *)
LEMMA ShortPrograms ==
  /\ \A a \in Ops : <<a>> \in Seq(Ops) /\ Len(<<a>>) = 1
  /\ \A a, b, c \in Ops : <<a, b, c>> \in Seq(Ops) /\ Len(<<a, b, c>>) = 3
OBVIOUS

(* The first and the second part of up. *)
LEMMA LongPrograms ==
  Apply \in Seq(Ops) /\ Len(Apply) = 5 /\ Finalize \in Seq(Ops) /\ Len(Finalize) = 4
BY DEF Apply, Finalize, Ops, Looks, Calls

(* Every command has steps, and knows them. *)
LEMMA ProgramTypes ==
  ASSUME NEW c \in AllCommands
  PROVE  Program(c) \in Seq(Ops) /\ Len(Program(c)) \in Nat \ {0}
<1>1. CASE c \in {"up", "vm-create"}
  <2>1. Program(c) = Up
    BY <1>1, Programs
  <2> QED BY <2>1, UpSteps
<1>2. CASE c = "up-skip-finalize"
  <2>1. Program(c) = Apply
    BY <1>2, Programs
  <2> QED BY <2>1, LongPrograms
<1>3. CASE c = "finalize"
  <2>1. Program(c) = Finalize
    BY <1>3, Programs
  <2> QED BY <2>1, LongPrograms
<1>4. ASSUME NEW a \in Ops, Program(c) = <<a>>
      PROVE  Program(c) \in Seq(Ops) /\ Len(Program(c)) \in Nat \ {0}
  BY <1>4, ShortPrograms
<1>5. ASSUME NEW a \in Ops, NEW b \in Ops, NEW d \in Ops, Program(c) = <<a, b, d>>
      PROVE  Program(c) \in Seq(Ops) /\ Len(Program(c)) \in Nat \ {0}
  BY <1>5, ShortPrograms
<1>6. CASE c \notin {"up", "vm-create", "up-skip-finalize", "finalize"}
  <2>1. \/ \E a \in Ops : Program(c) = <<a>>
        \/ \E a, b, d \in Ops : Program(c) = <<a, b, d>>
    BY <1>6, Programs DEF AllCommands, Ops, Looks, Calls
  <2> QED BY <2>1, <1>4, <1>5
<1> QED BY <1>1, <1>2, <1>3, <1>6
-----------------------------------------------------------------------------
Types == TypeOK /\ queue \in Seq(Calls) /\ (cmd # "none" => cmd \in Commands)

(* The queue holds the task of a VM that is being created exactly once; the *)
(* running command's own call is the last in it, and nothing is in it when  *)
(* that call has succeeded.                                                 *)
QueueInv ==
  /\ vm.exists = "creating" <=> \E j \in 1..Len(queue) : queue[j] = "create"
  /\ \A j, k \in 1..Len(queue) : queue[j] = "create" /\ queue[k] = "create" => j = k
  /\ wait # "no" => cmd # "none"
  /\ wait = "queued" => queue # <<>> /\ queue[Len(queue)] = Op
  /\ wait = "ok" => queue = <<>>

(* What is there without a VM, and what the guest shows of the disk.        *)
MachineInv ==
  /\ vm.exists # "yes" => disk = "blank" /\ guest = "off" /\ snap = NoSnap
  /\ vm.exists = "no" => vm = NoVM
  /\ guest = "installer" => disk = "blank"
  /\ guest = "os" => disk = "installed"
  /\ snap # NoSnap => snap.vm.exists = "yes"

IInv == Types /\ QueueInv /\ MachineInv

(* The first state. *)
LEMMA InitIInv == Init => IInv
  BY CommandsAssumption DEF Init, IInv, Types, TypeOK, QueueInv, MachineInv, NoVM, NoSnap, VMs

(* What the running command is at. *)
LEMMA OpTypes ==
  ASSUME Types, cmd # "none"
  PROVE  /\ cmd \in AllCommands /\ pc \in 1..Len(Program(cmd)) /\ Op \in Ops
         /\ Len(Program(cmd)) \in Nat \ {0}
         /\ IsCall(Op) => Op \in Calls
<1>1. cmd \in AllCommands /\ pc \in 1..Len(Program(cmd))
  BY DEF Types, TypeOK, AllCommands
<1>2. Program(cmd) \in Seq(Ops) /\ Len(Program(cmd)) \in Nat \ {0}
  BY <1>1, ProgramTypes
<1>3. Op \in Ops
  BY <1>1, <1>2 DEF Op
<1> QED BY <1>1, <1>2, <1>3 DEF Ops, Looks, IsCall

(* Going on, or ending. *)
LEMMA ProceedTypes ==
  ASSUME Types, cmd # "none", Proceed \/ \E r \in {"nil", "err", "killed"} : End(r)
  PROVE  /\ cmd' \in AllCommands \cup {"none"} /\ (cmd' # "none" => cmd' \in Commands)
         /\ pc' \in 1..(IF cmd' = "none" THEN 1 ELSE Len(Program(cmd')))
         /\ wait' = "no" /\ last' \in AllCommands \cup {"none"}
         /\ res' \in {"none", "nil", "err", "killed"}
<1>1. /\ cmd \in AllCommands /\ pc \in 1..Len(Program(cmd)) /\ cmd \in Commands
      /\ Len(Program(cmd)) \in Nat \ {0}
  BY OpTypes DEF Types
<1>2. ASSUME NEW r \in {"nil", "err", "killed"}, End(r)
      PROVE  /\ cmd' = "none" /\ pc' = 1 /\ wait' = "no" /\ last' = last /\ res' = r
  BY <1>2 DEF End
<1>3. CASE \E r \in {"nil", "err", "killed"} : End(r)
  BY <1>2, <1>3 DEF Types, TypeOK
<1>4. CASE Proceed /\ pc = Len(Program(cmd))
  BY <1>2, <1>4 DEF Types, TypeOK, Proceed
<1>5. CASE Proceed /\ pc # Len(Program(cmd))
  <2>1. pc' = pc + 1 /\ wait' = "no" /\ UNCHANGED <<cmd, last, res>>
    BY <1>5 DEF Proceed
  <2> QED BY <1>1, <1>5, <2>1 DEF Types, TypeOK
<1> QED BY <1>3, <1>4, <1>5

(* A step that does not touch the server or the guest. *)
LEMMA ClientKeeps ==
  ASSUME IInv, cmd # "none", Proceed \/ \E r \in {"nil", "err", "killed"} : End(r),
         UNCHANGED <<pveVars, guest, disk>>, faults' \in 0..MaxFaults
  PROVE  IInv'
<1>1. Types'
  BY ProceedTypes DEF IInv, Types, TypeOK, pveVars
<1>2. wait' = "no"
  BY ProceedTypes DEF IInv
<1>3. QueueInv' /\ MachineInv'
  BY <1>2 DEF IInv, QueueInv, MachineInv, pveVars
<1> QED BY <1>1, <1>3 DEF IInv

(* A command begins. *)
LEMMA BeginKeeps ==
  ASSUME IInv, NEW c \in Commands, Begin(c)
  PROVE  IInv'
<1>1. Len(Program(c)) \in Nat \ {0} /\ c \in AllCommands
  BY CommandsAssumption, ProgramTypes
<1>2. c # "none"
  BY <1>1 DEF AllCommands
<1>3. Types'
  BY <1>1, <1>2 DEF Begin, pveVars, IInv, Types, TypeOK
<1>4. QueueInv' /\ MachineInv'
  BY DEF Begin, pveVars, IInv, QueueInv, MachineInv
<1> QED BY <1>3, <1>4 DEF IInv

(* A command looks, goes on or ends. *)
LEMMA QuietClient ==
  ASSUME IInv, Look \/ Misread \/ LookFails \/ Answered \/ Lost \/ Kill
  PROVE  IInv'
<1>1. cmd # "none" /\ UNCHANGED <<pveVars, guest, disk>>
  BY DEF Look, Misread, LookFails, Answered, Lost, Kill
<1>2. Proceed \/ \E r \in {"nil", "err", "killed"} : End(r)
  BY DEF Look, Misread, LookFails, Answered, Lost, Kill
<1>3. faults' \in 0..MaxFaults
  <2>1. UNCHANGED faults \/ Fault
    BY DEF Look, Misread, LookFails, Answered, Lost, Kill
  <2> QED BY <2>1, CommandsAssumption DEF Fault, IInv, Types, TypeOK
<1> QED BY <1>1, <1>2, <1>3, ClientKeeps

(* A task joins the queue. *)
LEMMA AppendCall ==
  ASSUME NEW q \in Seq(Calls), NEW op \in Calls
  PROVE  /\ Append(q, op) \in Seq(Calls) /\ Len(Append(q, op)) = Len(q) + 1
         /\ \A j \in 1..Len(q) : Append(q, op)[j] = q[j]
         /\ Append(q, op)[Len(q) + 1] = op
         /\ \A j \in 1..(Len(q) + 1) : j \in 1..Len(q) \/ j = Len(q) + 1
         /\ Len(q) \in Nat /\ Append(q, op) # <<>>
<1>1. Len(q) \in Nat
  OBVIOUS
<1>2. /\ Append(q, op) \in Seq(Calls) /\ Len(Append(q, op)) = Len(q) + 1
      /\ \A j \in 1..Len(q) : Append(q, op)[j] = q[j]
      /\ Append(q, op)[Len(q) + 1] = op
  BY AppendProperties
<1>3. \A j \in 1..(Len(q) + 1) : j \in 1..Len(q) \/ j = Len(q) + 1
  BY <1>1
<1>4. Append(q, op) # <<>>
  BY <1>1, <1>2, EmptySeq
<1> QED BY <1>1, <1>2, <1>3, <1>4

(* A task leaves the queue. *)
LEMMA TailCall ==
  ASSUME NEW q \in Seq(Calls), q # <<>>
  PROVE  /\ Tail(q) \in Seq(Calls) /\ Len(Tail(q)) = Len(q) - 1
         /\ \A j \in 1..(Len(q) - 1) : Tail(q)[j] = q[j + 1] /\ j + 1 \in 1..Len(q)
         /\ Head(q) = q[1] /\ Head(q) \in Calls /\ 1 \in 1..Len(q)
         /\ \A j \in 1..Len(q) : j = 1 \/ (j - 1 \in 1..(Len(q) - 1) /\ Tail(q)[j - 1] = q[j])
         /\ Len(q) \in Nat /\ Len(q) = 1 => Tail(q) = <<>>
OBVIOUS

(* A command makes a call. *)
LEMMA IssueKeeps ==
  ASSUME IInv, Issue
  PROVE  IInv'
<1>0. cmd # "none" /\ IsCall(Op) /\ wait = "no" /\ Op \in Calls
  BY OpTypes DEF Issue, IInv
<1>1. CASE Refused(Op)
  <2>1. wait' = "failed" /\ UNCHANGED <<cmd, pc, last, res, queue, vm, snap, guest, disk, faults>>
    BY <1>1 DEF Issue
  <2>2. Types'
    BY <2>1 DEF IInv, Types, TypeOK
  <2>3. QueueInv' /\ MachineInv'
    BY <2>1, <1>0 DEF IInv, QueueInv, MachineInv, Op
  <2> QED BY <2>2, <2>3 DEF IInv
<1>2. CASE ~Refused(Op)
  <2>1. /\ Len(queue) < MaxQueue /\ queue' = Append(queue, Op)
        /\ vm' = IF Op = "create" THEN [vm EXCEPT !.exists = "creating"] ELSE vm
        /\ UNCHANGED <<snap, guest, disk, faults>>
    BY <1>2 DEF Issue
  <2>2. /\ queue \in Seq(Calls) /\ queue' \in Seq(Calls) /\ Len(queue') = Len(queue) + 1
        /\ \A j \in 1..Len(queue) : queue'[j] = queue[j]
        /\ queue'[Len(queue')] = Op
        /\ \A j \in 1..Len(queue') : j \in 1..Len(queue) \/ j = Len(queue')
        /\ Len(queue) \in Nat /\ queue' # <<>>
    BY <1>0, <2>1, AppendCall DEF IInv, Types
  <2>3. \/ wait' = "queued" /\ UNCHANGED <<cmd, pc, last, res>>
        \/ Proceed
    BY <1>2 DEF Issue
  <2>4. vm' \in VMs
    BY <2>1 DEF IInv, Types, TypeOK, VMs
  <2>5. Types'
    <3>1. Len(queue') <= MaxQueue
      BY <2>1, <2>2, CommandsAssumption
    <3>2. CASE Proceed
      BY <1>0, <2>1, <2>2, <2>4, <3>1, <3>2, ProceedTypes DEF IInv, Types, TypeOK
    <3>3. CASE wait' = "queued" /\ UNCHANGED <<cmd, pc, last, res>>
      BY <1>0, <2>1, <2>2, <2>4, <3>1, <3>3 DEF IInv, Types, TypeOK
    <3> QED BY <2>3, <3>2, <3>3
  <2>6. wait' = "no" \/ (wait' = "queued" /\ cmd' # "none" /\ Op' = Op)
    BY <1>0, <2>3, ProceedTypes DEF IInv, Op
  <2>7. QueueInv'
    <3>1. CASE Op = "create"
      <4>1. vm.exists = "no" /\ vm'.exists = "creating"
        BY <1>2, <2>1, <3>1 DEF Refused, IInv, Types, TypeOK, VMs
      <4>2. \A j \in 1..Len(queue) : queue[j] # "create"
        BY <4>1 DEF IInv, QueueInv
      <4> QED BY <2>2, <2>6, <3>1, <4>1, <4>2 DEF QueueInv
    <3>2. CASE Op # "create"
      BY <2>1, <2>2, <2>6, <3>2 DEF IInv, QueueInv
    <3> QED BY <3>1, <3>2
  <2>8. MachineInv'
    <3>1. CASE Op = "create"
      <4>1. vm.exists = "no" /\ vm'.exists = "creating"
        BY <1>2, <2>1, <3>1 DEF Refused, IInv, Types, TypeOK, VMs
      <4> QED BY <2>1, <4>1 DEF IInv, MachineInv
    <3>2. CASE Op # "create"
      BY <2>1, <3>2 DEF IInv, MachineInv
    <3> QED BY <3>1, <3>2
  <2> QED BY <2>5, <2>7, <2>8 DEF IInv
<1> QED BY <1>1, <1>2

(* The first task leaves the queue: the others move up. *)
Moved == vm'.exists = "creating" <=> vm.exists = "creating" /\ Head(queue) # "create"

(* With the first task gone the queue is as it should be. *)
LEMMA QueueTail ==
  ASSUME Types, QueueInv, queue # <<>>, queue' = Tail(queue), NEW s \in {"ok", "failed"},
         Notify(s), UNCHANGED <<cmd, pc>>, Moved
  PROVE  QueueInv' /\ queue' \in Seq(Calls) /\ Len(queue') <= MaxQueue
         /\ wait' \in {"no", "queued", "ok", "failed"}
<1>1. /\ queue' \in Seq(Calls) /\ Len(queue') = Len(queue) - 1
      /\ \A j \in 1..Len(queue') : queue'[j] = queue[j + 1] /\ j + 1 \in 1..Len(queue)
      /\ Head(queue) = queue[1] /\ 1 \in 1..Len(queue)
      /\ \A j \in 1..Len(queue) : j = 1 \/ (j - 1 \in 1..Len(queue') /\ queue'[j - 1] = queue[j])
      /\ Len(queue) \in Nat /\ (Len(queue) = 1 => queue' = <<>>)
  BY TailCall DEF Types
<1>2. Len(queue') <= MaxQueue
  BY <1>1, CommandsAssumption DEF Types, TypeOK
<1>3. wait' = wait \/ (wait = "queued" /\ Len(queue) = 1 /\ wait' = s)
  BY DEF Notify
<1>4. wait' = "queued" => queue' # <<>> /\ queue'[Len(queue')] = Op'
  <2>1. SUFFICES ASSUME wait' = "queued" PROVE queue' # <<>> /\ queue'[Len(queue')] = Op'
    OBVIOUS
  <2>2. wait = "queued" /\ Len(queue) # 1
    BY <1>3, <2>1 DEF Notify
  <2>3. queue[Len(queue)] = Op /\ Op' = Op
    BY <2>2 DEF QueueInv, Op
  <2>4. Len(queue) \in 1..Len(queue) /\ Len(queue') \in 1..Len(queue') /\ Len(queue') + 1 = Len(queue)
    BY <1>1, <2>2
  <2> QED BY <1>1, <2>3, <2>4
<1>5. wait' = "ok" => queue' = <<>>
  BY <1>1, <1>3 DEF QueueInv
<1>6. wait' # "no" => cmd' # "none"
  BY <1>3 DEF QueueInv
<1>7. vm'.exists = "creating" <=> \E j \in 1..Len(queue') : queue'[j] = "create"
  <2>1. CASE Head(queue) = "create"
    <3>1. \A j \in 1..Len(queue') : queue'[j] # "create"
      BY <1>1, <2>1 DEF QueueInv
    <3> QED BY <2>1, <3>1 DEF Moved
  <2>2. CASE Head(queue) # "create"
    <3>2. ASSUME NEW j \in 1..Len(queue), queue[j] = "create"
          PROVE  \E k \in 1..Len(queue') : queue'[k] = "create"
      <4>1. j # 1
        BY <1>1, <2>2, <3>2
      <4>2. j - 1 \in 1..Len(queue') /\ queue'[j - 1] = queue[j]
        BY <1>1, <4>1
      <4> QED BY <3>2, <4>2
    <3>3. ASSUME NEW k \in 1..Len(queue'), queue'[k] = "create"
          PROVE  \E j \in 1..Len(queue) : queue[j] = "create"
      <4>1. queue[k + 1] = "create" /\ k + 1 \in 1..Len(queue)
        BY <1>1, <3>3
      <4> QED BY <4>1
    <3>1. (\E j \in 1..Len(queue) : queue[j] = "create")
            <=> \E j \in 1..Len(queue') : queue'[j] = "create"
      BY <3>2, <3>3
    <3> QED BY <2>2, <3>1 DEF Moved, QueueInv
  <2> QED BY <2>1, <2>2
<1>8. \A j, k \in 1..Len(queue') : queue'[j] = "create" /\ queue'[k] = "create" => j = k
  BY <1>1 DEF QueueInv
<1> QED BY <1>1, <1>2, <1>3, <1>4, <1>5, <1>6, <1>7, <1>8 DEF QueueInv, Types, TypeOK

(* What a task does to the VM. *)
LEMMA ConfigTypes ==
  ASSUME IInv, NEW op \in Calls, Possible(op)
  PROVE  /\ Config(op) \in VMs
         /\ op = "create" => vm.exists = "creating"
         /\ op # "create" => vm.exists = "yes"
         /\ op = "delete" => Config(op) = NoVM /\ guest = "off"
         /\ op \in {"rollback", "delsnapshot"} => snap # NoSnap
         /\ op = "rollback" => Config(op) = snap.vm
         /\ op # "delete" => Config(op).exists = "yes"
<1>1. vm \in VMs /\ snap.vm \in VMs /\ (snap # NoSnap => snap.vm.exists = "yes")
  BY DEF IInv, Types, TypeOK, MachineInv
<1>2. /\ op = "create" => vm.exists = "creating"
      /\ op # "create" => vm.exists = "yes"
      /\ op = "delete" => guest = "off"
      /\ op \in {"rollback", "delsnapshot"} => snap # NoSnap
  BY DEF Possible, Calls
<1>3. CASE op = "create"
  BY <1>3, <1>2 DEF Config, NoVM, VMs
<1>4. CASE op = "delete"
  BY <1>4, <1>2 DEF Config, NoVM, VMs
<1>5. CASE op = "rollback"
  BY <1>1, <1>2, <1>5 DEF Config
<1>6. CASE op \notin {"create", "delete", "rollback"}
  <2>1. CASE op \in {"attach", "order", "iso-first"}
    BY <1>1, <1>2, <2>1 DEF Config, VMs
  <2>2. CASE op \in {"delete-ide3", "empty-ide3", "delete-ide2", "order-disk"}
    BY <1>1, <1>2, <2>2 DEF Config, VMs
  <2>3. CASE op \notin {"attach", "order", "iso-first", "delete-ide3", "empty-ide3", "delete-ide2",
                        "order-disk"}
    BY <1>1, <1>2, <1>6, <2>3 DEF Config
  <2> QED BY <2>1, <2>2, <2>3
<1> QED BY <1>2, <1>3, <1>4, <1>5, <1>6

(* The server carries a task out. *)
LEMMA ExecuteKeeps ==
  ASSUME IInv, Execute
  PROVE  IInv'
<1> DEFINE op == Head(queue)
<1>1. op \in Calls /\ queue # <<>>
  BY TailCall DEF Execute, IInv, Types
<1>2. /\ Possible(op) /\ vm' = Config(op) /\ queue' = Tail(queue) /\ Notify("ok")
      /\ disk' = CASE op \in {"create", "delete"} -> "blank"
                   [] op = "rollback"             -> snap.disk
                   [] OTHER                       -> disk
      /\ guest' = CASE op \in {"start", "reboot"}            -> "booting"
                    [] op \in {"stop", "shutdown", "rollback"} -> "off"
                    [] OTHER                                 -> guest
      /\ snap' = CASE op = "snapshot" -> [vm |-> vm, disk |-> disk]
                   [] op \in {"delete", "delsnapshot"} -> NoSnap
                   [] OTHER           -> snap
      /\ UNCHANGED <<cmd, pc, last, res, faults>>
  BY DEF Execute
<1>3. /\ Config(op) \in VMs
      /\ op = "create" => vm.exists = "creating"
      /\ op # "create" => vm.exists = "yes"
      /\ op = "delete" => Config(op) = NoVM /\ guest = "off"
      /\ op \in {"rollback", "delsnapshot"} => snap # NoSnap
      /\ op = "rollback" => Config(op) = snap.vm
      /\ op # "delete" => Config(op).exists = "yes"
  BY <1>1, <1>2, ConfigTypes
<1> HIDE DEF op
<1>4. Moved
  BY <1>2, <1>3 DEF Moved, op, NoVM
<1>5. QueueInv' /\ queue' \in Seq(Calls) /\ Len(queue') <= MaxQueue
      /\ wait' \in {"no", "queued", "ok", "failed"}
  BY <1>1, <1>2, <1>4, QueueTail DEF IInv
<1>6. Types'
  <2>1. disk' \in {"blank", "installed"}
    BY <1>2 DEF IInv, Types, TypeOK
  <2>2. guest' \in {"off", "booting", "installer", "menu", "os", "nothing"}
    BY <1>2 DEF IInv, Types, TypeOK
  <2>3. snap' \in [vm : VMs, disk : {"blank", "installed"}]
    BY <1>2 DEF IInv, Types, TypeOK, NoSnap, NoVM, VMs
  <2> QED BY <1>2, <1>3, <1>5, <2>1, <2>2, <2>3 DEF IInv, Types, TypeOK
<1>7. MachineInv'
  <2>1. CASE op = "delete"
    BY <1>2, <1>3, <2>1 DEF MachineInv, NoVM
  <2>2. CASE op = "create"
    BY <1>2, <1>3, <2>2 DEF IInv, MachineInv
  <2>3. CASE op = "rollback"
    BY <1>2, <1>3, <2>3 DEF IInv, MachineInv
  <2>4. CASE op \in {"snapshot", "delsnapshot"}
    BY <1>2, <1>3, <2>4 DEF IInv, MachineInv
  <2>5. CASE op \in {"start", "reboot", "stop", "shutdown"}
    BY <1>2, <1>3, <2>5 DEF IInv, MachineInv
  <2>6. CASE op \notin {"delete", "create", "rollback", "snapshot", "delsnapshot", "start", "reboot",
                        "stop", "shutdown"}
    BY <1>2, <1>3, <2>6 DEF IInv, MachineInv
  <2> QED BY <2>1, <2>2, <2>3, <2>4, <2>5, <2>6
<1> QED BY <1>5, <1>6, <1>7 DEF IInv

(* A task fails. *)
LEMMA TaskFailsKeeps ==
  ASSUME IInv, TaskFails
  PROVE  IInv'
<1>1. /\ queue # <<>> /\ queue' = Tail(queue) /\ Notify("failed")
      /\ vm' = IF Head(queue) = "create" THEN NoVM ELSE vm
      /\ UNCHANGED <<cmd, pc, last, res, snap, guest, disk>>
  BY DEF TaskFails
<1>2. Head(queue) = queue[1] /\ 1 \in 1..Len(queue)
  BY <1>1, TailCall DEF IInv, Types
<1>3. Head(queue) = "create" => vm.exists = "creating"
  BY <1>2 DEF IInv, QueueInv
<1>4. Moved
  BY <1>1, <1>3 DEF Moved, NoVM
<1>5. QueueInv' /\ queue' \in Seq(Calls) /\ Len(queue') <= MaxQueue
      /\ wait' \in {"no", "queued", "ok", "failed"}
  BY <1>1, <1>4, QueueTail DEF IInv
<1>6. Types'
  <2>1. faults' \in 0..MaxFaults
    BY CommandsAssumption DEF TaskFails, Fault, IInv, Types, TypeOK
  <2>2. vm' \in VMs
    BY <1>1 DEF IInv, Types, TypeOK, NoVM, VMs
  <2> QED BY <1>1, <1>5, <2>1, <2>2 DEF IInv, Types, TypeOK
<1>7. MachineInv'
  BY <1>1, <1>3 DEF IInv, MachineInv, NoVM
<1> QED BY <1>5, <1>6, <1>7 DEF IInv

(* What the guest boots, by the boot order. *)
LEMMA BootsWhat ==
  ASSUME Types, NEW slow \in BOOLEAN
  PROVE  /\ Boots(slow) \in {"nothing", "os", "installer", "menu"}
         /\ Boots(slow) = "os" => disk = "installed"
         /\ Boots(slow) = "installer" => vm.ide3 = "kickstart"
         /\ ~slow /\ disk = "installed" /\ vm.boot # "iso-first" => Boots(slow) = "os"
         /\ vm.ide2 = "install" /\ vm.boot \in {"default", "install"} => Boots(slow) # "nothing"
<1> DEFINE Can(d) == Bootable(d) /\ ~(slow /\ d = "scsi0")
           order == Order(vm.boot)
           i == SelectInSeq(order, Can)
<1>1. vm.boot \in {"default", "install", "iso-first", "disk"}
  BY DEF Types, TypeOK, VMs
<1>2. /\ vm.boot = "default"   => order = <<"scsi0", "ide2">>
      /\ vm.boot = "install"   => order = <<"scsi0", "ide3", "ide2">>
      /\ vm.boot = "iso-first" => order = <<"ide3", "scsi0">>
      /\ vm.boot = "disk"      => order = <<"scsi0">>
  BY DEF Order
<1>3. Boots(slow) = IF i = 0 THEN "nothing"
              ELSE CASE order[i] = "scsi0" -> "os"
                     [] order[i] = "ide3"  -> "installer"
                     [] order[i] = "ide2"  -> "menu"
  BY DEF Boots
<1>4. /\ Bootable("scsi0") <=> disk = "installed"
      /\ Bootable("ide3") <=> vm.ide3 = "kickstart"
      /\ Bootable("ide2") <=> vm.ide2 = "install"
  BY DEF Bootable
<1>5. Len(order) \in {1, 2, 3}
  BY <1>1, <1>2
<1> DEFINE B == {d \in {"scsi0", "ide2", "ide3"} : Can(d)}
           I == {j \in 1..Len(order) : order[j] \in B}
<1>6. i = IF I # {} THEN Min(I) ELSE 0
  <2> DEFINE J == {j \in 1..Len(order) : Can(order[j])}
  <2>1. \A j \in 1..Len(order) : order[j] \in {"scsi0", "ide2", "ide3"}
    BY <1>1, <1>2
  <2>2. J = I
    BY <2>1
  <2>3. i = IF J # {} THEN Min(J) ELSE 0
    BY DEF SelectInSeq
  <2> HIDE DEF I, J
  <2> QED BY <2>2, <2>3
<1>12. I = {j \in 1..Len(order) : order[j] \in B}
  OBVIOUS
<1>13. /\ "scsi0" \in B <=> disk = "installed" /\ ~slow
       /\ "ide3" \in B <=> vm.ide3 = "kickstart"
  BY <1>4
<1>14. "ide2" \in B <=> vm.ide2 = "install"
  BY <1>4
<1> HIDE DEF order, i, I, B, Can
<1>11. \/ i = 0 /\ \A j \in 1..Len(order) : order[j] \notin B
       \/ /\ i \in 1..Len(order) /\ order[i] \in B
          /\ \A j \in 1..Len(order) : j < i => order[j] \notin B
  <2>1. i = IF I # {} THEN Min(I) ELSE 0
    BY <1>6
  <2>2. I \subseteq 1..Len(order) /\ I \subseteq {1, 2, 3}
    BY <1>5, <1>12
  <2>3. \A j \in 1..Len(order) : j \in I <=> order[j] \in B
    BY <1>12
  <2>4. ASSUME I # {}
        PROVE  Min(I) \in I /\ \A y \in I : Min(I) <= y
    <3>1. 1 \in I \/ 2 \in I \/ 3 \in I
      BY <2>2, <2>4
    <3>2. \E x \in I : \A y \in I : x <= y
      <4>1. CASE 1 \in I
        BY <2>2, <4>1
      <4>2. CASE 1 \notin I /\ 2 \in I
        BY <2>2, <4>2
      <4>3. CASE 1 \notin I /\ 2 \notin I
        BY <2>2, <3>1, <4>3
      <4> QED BY <4>1, <4>2, <4>3
    <3> QED BY <3>2 DEF Min
  <2>5. CASE I = {}
    BY <2>1, <2>3, <2>5
  <2>6. CASE I # {}
    <3>1. i \in I /\ \A y \in I : i <= y
      BY <2>1, <2>4, <2>6
    <3>2. \A j \in 1..Len(order) : j < i => j \notin I
      BY <2>2, <3>1
    <3> QED BY <2>2, <2>3, <3>1, <3>2
  <2> QED BY <2>5, <2>6
<1>7. CASE vm.boot = "default"
  <2>1. Len(order) = 2 /\ order[1] = "scsi0" /\ order[2] = "ide2"
    BY <1>2, <1>7
  <2>2. i = 0 \/ i = 1 \/ i = 2
    BY <1>11, <2>1
  <2> QED BY <1>3, <1>13, <1>14, <1>11, <1>7, <2>1, <2>2
<1>8. CASE vm.boot = "install"
  <2>1. Len(order) = 3 /\ order[1] = "scsi0" /\ order[2] = "ide3" /\ order[3] = "ide2"
    BY <1>2, <1>8
  <2>2. i = 0 \/ i = 1 \/ i = 2 \/ i = 3
    BY <1>11, <2>1
  <2> QED BY <1>3, <1>13, <1>14, <1>11, <1>8, <2>1, <2>2
<1>9. CASE vm.boot = "iso-first"
  <2>1. Len(order) = 2 /\ order[1] = "ide3" /\ order[2] = "scsi0"
    BY <1>2, <1>9
  <2>2. i = 0 \/ i = 1 \/ i = 2
    BY <1>11, <2>1
  <2> QED BY <1>3, <1>13, <1>14, <1>11, <1>9, <2>1, <2>2
<1>10. CASE vm.boot = "disk"
  <2>1. Len(order) = 1 /\ order[1] = "scsi0"
    BY <1>2, <1>10
  <2>2. i = 0 \/ i = 1
    BY <1>11, <2>1
  <2> QED BY <1>3, <1>13, <1>14, <1>11, <1>10, <2>1, <2>2
<1> QED BY <1>1, <1>7, <1>8, <1>9, <1>10

(* What a boot does, whether the firmware waits for the disk or not. *)
LEMMA BootDoes ==
  ASSUME Types, Boot \/ PassesOverDisk
  PROVE  /\ guest = "booting" /\ UNCHANGED <<cmdVars, pveVars>>
         /\ guest' \in {"nothing", "os", "installer", "menu"}
         /\ disk' = IF guest' = "installer" THEN "blank" ELSE disk
         /\ guest' = "os" => disk = "installed"
         /\ guest' = "installer" => vm.ide3 = "kickstart"
         /\ guest' = "nothing" => Boot
         /\ Boot => guest' = Boots(FALSE) /\ UNCHANGED faults
         /\ ~Boot => SlowDisk /\ disk = "installed" /\ Fault
         /\ Boot /\ disk = "installed" /\ vm.boot # "iso-first" => guest' = "os"
<1>1. CASE Boot
  <2>1. guest' = Boots(FALSE) /\ guest = "booting" /\ UNCHANGED <<cmdVars, pveVars>>
        /\ disk' = (IF Boots(FALSE) = "installer" THEN "blank" ELSE disk) /\ UNCHANGED faults
    BY <1>1 DEF Boot, BootFrom
  <2>2. /\ Boots(FALSE) \in {"nothing", "os", "installer", "menu"}
        /\ Boots(FALSE) = "os" => disk = "installed"
        /\ Boots(FALSE) = "installer" => vm.ide3 = "kickstart"
        /\ disk = "installed" /\ vm.boot # "iso-first" => Boots(FALSE) = "os"
    BY BootsWhat
  <2> QED BY <1>1, <2>1, <2>2
<1>2. CASE PassesOverDisk /\ ~Boot
  <2>1. /\ guest' = Boots(TRUE) /\ guest = "booting" /\ UNCHANGED <<cmdVars, pveVars>>
        /\ disk' = IF Boots(TRUE) = "installer" THEN "blank" ELSE disk
        /\ SlowDisk /\ disk = "installed" /\ Boots(TRUE) # "nothing" /\ Fault
    BY <1>2 DEF PassesOverDisk, BootFrom
  <2>2. /\ Boots(TRUE) \in {"nothing", "os", "installer", "menu"}
        /\ Boots(TRUE) = "os" => disk = "installed"
        /\ Boots(TRUE) = "installer" => vm.ide3 = "kickstart"
    BY BootsWhat
  <2> QED BY <1>2, <2>1, <2>2
<1> QED BY <1>1, <1>2

(* The guest boots, installs itself or reboots. *)
LEMMA GuestKeeps ==
  ASSUME IInv, Boot \/ PassesOverDisk \/ InstallDone \/ GuestReboot
  PROVE  IInv'
<1>1. UNCHANGED <<cmdVars, pveVars>>
  BY BootDoes DEF InstallDone, GuestReboot, IInv
<1>2. guest # "off" /\ vm.exists = "yes"
  BY BootDoes DEF InstallDone, GuestReboot, IInv, MachineInv
<1>3. Types'
  <2>1. /\ disk' \in {"blank", "installed"}
        /\ guest' \in {"off", "booting", "installer", "menu", "os", "nothing"}
    BY BootDoes DEF InstallDone, GuestReboot, IInv, Types, TypeOK
  <2>2. UNCHANGED faults \/ Fault
    BY BootDoes DEF InstallDone, GuestReboot, IInv
  <2>3. faults' \in 0..MaxFaults
    BY <2>2, CommandsAssumption DEF Fault, IInv, Types, TypeOK
  <2> QED BY <1>1, <2>1, <2>3 DEF IInv, Types, TypeOK, cmdVars, pveVars
<1>4. QueueInv'
  BY <1>1 DEF IInv, QueueInv, Op, cmdVars, pveVars
<1>5. MachineInv'
  BY <1>1, <1>2, BootDoes DEF InstallDone, GuestReboot, IInv, MachineInv, pveVars
<1> QED BY <1>3, <1>4, <1>5 DEF IInv

(* Every step keeps the invariant. *)
LEMMA StepIInv == IInv /\ [Next]_vars => IInv'
<1> SUFFICES ASSUME IInv, [Next]_vars PROVE IInv'
  OBVIOUS
<1>1. CASE UNCHANGED vars
  BY <1>1 DEF vars, cmdVars, pveVars, IInv, Types, TypeOK, QueueInv, MachineInv, Op
<1>2. ASSUME NEW c \in Commands, Begin(c) PROVE IInv'
  BY <1>2, BeginKeeps
<1>3. CASE Look \/ Misread \/ LookFails \/ Answered \/ Lost \/ Kill
  BY <1>3, QuietClient
<1>4. CASE Issue
  BY <1>4, IssueKeeps
<1>5. CASE Execute
  BY <1>5, ExecuteKeeps
<1>6. CASE TaskFails
  BY <1>6, TaskFailsKeeps
<1>7. CASE Boot \/ PassesOverDisk \/ InstallDone \/ GuestReboot
  BY <1>7, GuestKeeps
<1> QED BY <1>1, <1>2, <1>3, <1>4, <1>5, <1>6, <1>7 DEF Next, Client, Guest

(* The queue holds at most one create, of the VM being created, and the running
   command's call is the last in it; only a VM that exists has a disk, a guest and
   a snapshot (single_vm.go:183-351, snapshot.go:43-137). *)
THEOREM Inductive == Spec => []IInv
<1>1. Init => IInv
  BY InitIInv
<1> QED BY <1>1, StepIInv, PTL DEF Spec

(* Every variable has its type, and the queue its bound. *)
THEOREM TypeCorrect == Spec => []TypeOK
<1>1. IInv => TypeOK
  BY DEF IInv, Types
<1> QED BY <1>1, Inductive, PTL
-----------------------------------------------------------------------------
(* While a command runs it has returned nothing. *)
ClientInv == cmd # "none" => last = cmd /\ res = "none"

(* The steps of the running command that have worked. *)
Worked == IF wait = "ok" THEN pc ELSE pc - 1

(* up has the VM for itself once its create has worked: its calls are the   *)
(* only ones in the queue, so that what each has done stays done.           *)
DiskReady == disk = "installed" \/ (SlowDisk /\ guest = "installer")

UpRunning ==
  cmd = "up" =>
    /\ pc \in {1, 6} => wait = "no"
    /\ pc = 2 /\ wait = "queued" => vm.exists = "creating"
    /\ Worked >= 2 => /\ vm.exists = "yes" /\ vm.boot # "iso-first"
                      /\ wait = "queued" => Len(queue) = 1
                      /\ wait # "queued" => queue = <<>>
    /\ Worked >= 6 => DiskReady
    /\ Worked >= 7 => vm.ide3 = "empty"
    /\ Worked >= 8 => vm.ide2 = "empty"
    /\ Worked >= 9 => vm.boot = "disk"

UpDone ==
  last = "up" /\ res = "nil" =>
    /\ cmd = "none" /\ queue = <<>> /\ DiskReady
    /\ vm.exists = "yes" /\ vm.ide2 = "empty" /\ vm.ide3 = "empty" /\ vm.boot = "disk"

UpInv == UpRunning /\ UpDone

(* The steps of up, by number. *)
LEMMA UpOps ==
  ASSUME Types, cmd \in {"up", "vm-create"}
  PROVE  /\ pc \in 1..9 /\ Len(Program(cmd)) = 9
         /\ (pc = 1 => Op = "absent?")     /\ (pc = 2 => Op = "create")
         /\ (pc = 3 => Op = "attach")      /\ (pc = 4 => Op = "order")
         /\ (pc = 5 => Op = "start")       /\ (pc = 6 => Op = "ssh")
         /\ (pc = 7 => Op = "delete-ide3") /\ (pc = 8 => Op = "delete-ide2")
         /\ (pc = 9 => Op = "order-disk")
         /\ ~Unwatched(Op) /\ ~Ignored(Op)
<1>1. Program(cmd) = Up
  BY Programs
<1>2. pc \in 1..9 /\ Len(Program(cmd)) = 9
  BY <1>1, UpSteps DEF Types, TypeOK
<1>3. Op = Up[pc]
  BY <1>1 DEF Op
<1>4. Op \in {"absent?", "create", "attach", "order", "start", "ssh", "delete-ide3",
               "delete-ide2", "order-disk"}
  BY <1>2, <1>3, UpSteps
<1>5. ~Unwatched(Op) /\ ~Ignored(Op)
  BY <1>4 DEF Unwatched, Ignored
<1> QED BY <1>2, <1>3, <1>5, UpSteps

(* Every step keeps it. *)
LEMMA ClientStep ==
  ASSUME IInv, ClientInv, [Next]_vars
  PROVE  ClientInv'
<1>1. CASE UNCHANGED cmdVars
  BY <1>1 DEF cmdVars, ClientInv
<1>2. ASSUME NEW c \in Commands, Begin(c) PROVE ClientInv'
  BY <1>2 DEF Begin, ClientInv
<1>3. ASSUME cmd # "none", Proceed \/ \E r \in {"nil", "err", "killed"} : End(r)
      PROVE  ClientInv'
  BY <1>3 DEF Proceed, End, ClientInv
<1>4. CASE Look \/ Misread \/ LookFails \/ Answered \/ Lost \/ Kill
  BY <1>3, <1>4 DEF Look, Misread, LookFails, Answered, Lost, Kill
<1>5. CASE Issue
  BY <1>3, <1>5 DEF Issue, ClientInv
<1>6. CASE Execute \/ TaskFails
  BY <1>6 DEF Execute, TaskFails, ClientInv
<1>7. CASE Boot \/ PassesOverDisk \/ InstallDone \/ GuestReboot
  BY <1>1, <1>7 DEF Boot, BootFrom, PassesOverDisk, InstallDone, GuestReboot
<1>8. CASE UNCHANGED vars
  BY <1>1, <1>8 DEF vars, cmdVars
<1> QED BY <1>2, <1>4, <1>5, <1>6, <1>7, <1>8 DEF Next, Client, Guest
-----------------------------------------------------------------------------
(* Without configure-first-boot every boot order puts the disk first.       *)
DiskFirst ==
  /\ vm.boot # "iso-first" /\ snap.vm.boot # "iso-first"
  /\ \A j \in 1..Len(queue) : queue[j] # "iso-first"

(* Only configure-first-boot asks for the order with the ISO first.         *)
LEMMA IsoFirstOp ==
  ASSUME Types, cmd # "none", Op = "iso-first"
  PROVE  cmd = "configure-first-boot"
<1>1. cmd \in AllCommands /\ pc \in 1..Len(Program(cmd))
  BY OpTypes
<1>2. CASE cmd \in {"up", "vm-create"}
  BY <1>2, UpOps
<1>3. CASE cmd = "up-skip-finalize"
  <2>1. Op = Apply[pc] /\ pc \in 1..5
    BY <1>1, <1>3, Programs, LongPrograms DEF Op
  <2> QED BY <2>1 DEF Apply
<1>4. CASE cmd = "finalize"
  <2>1. Op = Finalize[pc] /\ pc \in 1..4
    BY <1>1, <1>4, Programs, LongPrograms DEF Op
  <2> QED BY <2>1 DEF Finalize
<1>5. ASSUME NEW a \in Ops, NEW b \in Ops, NEW c \in Ops, Program(cmd) = <<a, b, c>>
      PROVE  Op \in {a, b, c}
  <2>1. pc \in 1..3
    BY <1>1, <1>5, ShortPrograms
  <2> QED BY <1>5, <2>1 DEF Op
<1>6. CASE cmd \in {"down", "down-force"}
  <2>1. "present?" \in Ops /\ "shutdown" \in Ops /\ "stop" \in Ops /\ "delete" \in Ops
    BY DEF Ops, Looks, Calls
  <2>2. CASE cmd = "down"
    <3>1. Program(cmd) = <<"present?", "shutdown", "delete">>
      BY <2>2, Programs
    <3> QED BY <1>5, <2>1, <3>1
  <2>3. CASE cmd = "down-force"
    <3>1. Program(cmd) = <<"present?", "stop", "delete">>
      BY <2>3, Programs
    <3> QED BY <1>5, <2>1, <3>1
  <2> QED BY <1>6, <2>2, <2>3
<1>7. ASSUME NEW a \in Ops, Program(cmd) = <<a>>
      PROVE  Op = a
  <2>1. pc \in 1..1
    BY <1>1, <1>7, ShortPrograms
  <2> QED BY <1>7, <2>1 DEF Op
<1>8. CASE cmd \in AllCommands \ {"up", "vm-create", "up-skip-finalize", "finalize", "down",
                                  "down-force", "configure-first-boot"}
  <2>1. Op \in {"start", "reboot", "delete", "shutdown", "stop", "empty-ide3", "snapshot",
                "rollback", "delsnapshot"}
    BY <1>7, <1>8, Programs DEF Ops, Looks, Calls, AllCommands
  <2> QED BY <2>1
<1> QED BY <1>1, <1>2, <1>3, <1>4, <1>6, <1>8

(* Every step keeps the disk first. *)
LEMMA DiskFirstStep ==
  ASSUME IInv, DiskFirst, "configure-first-boot" \notin Commands, [Next]_vars
  PROVE  DiskFirst'
<1>1. CASE UNCHANGED pveVars
  BY <1>1 DEF pveVars, DiskFirst
<1>2. CASE Issue
  <2>0. cmd # "none" /\ Op \in Calls /\ Op # "iso-first"
    BY <1>2, OpTypes, IsoFirstOp DEF Issue, IInv, Types
  <2>1. CASE Refused(Op)
    BY <1>2, <2>1 DEF Issue, DiskFirst
  <2>2. CASE ~Refused(Op)
    <3>1. /\ queue' = Append(queue, Op) /\ snap' = snap
          /\ vm' = IF Op = "create" THEN [vm EXCEPT !.exists = "creating"] ELSE vm
      BY <1>2, <2>2 DEF Issue
    <3>2. vm'.boot = vm.boot
      BY <3>1 DEF IInv, Types, TypeOK, VMs
    <3>3. /\ Len(queue') = Len(queue) + 1 /\ queue'[Len(queue) + 1] = Op
          /\ \A j \in 1..Len(queue) : queue'[j] = queue[j]
          /\ \A j \in 1..(Len(queue) + 1) : j \in 1..Len(queue) \/ j = Len(queue) + 1
      BY <2>0, <3>1, AppendCall DEF IInv, Types
    <3> QED BY <2>0, <3>1, <3>2, <3>3 DEF DiskFirst
  <2> QED BY <2>1, <2>2
<1>3. ASSUME queue # <<>>, queue' = Tail(queue)
      PROVE  /\ \A j \in 1..Len(queue') : queue'[j] # "iso-first"
             /\ Head(queue) # "iso-first" /\ Head(queue) \in Calls
  <2>1. /\ Len(queue') = Len(queue) - 1
        /\ \A j \in 1..(Len(queue) - 1) : queue'[j] = queue[j + 1] /\ j + 1 \in 1..Len(queue)
        /\ Head(queue) = queue[1] /\ 1 \in 1..Len(queue) /\ Head(queue) \in Calls
    BY <1>3, TailCall DEF IInv, Types
  <2> QED BY <2>1 DEF DiskFirst
<1>4. CASE Execute
  <2> DEFINE op == Head(queue)
  <2>1. /\ op \in Calls /\ op # "iso-first"
        /\ \A j \in 1..Len(queue') : queue'[j] # "iso-first"
    BY <1>3, <1>4 DEF Execute
  <2>2. /\ vm' = Config(op)
        /\ snap' = CASE op = "snapshot" -> [vm |-> vm, disk |-> disk]
                     [] op \in {"delete", "delsnapshot"} -> NoSnap
                     [] OTHER           -> snap
    BY <1>4 DEF Execute
  <2> HIDE DEF op
  <2>3. snap'.vm.boot # "iso-first"
    BY <2>2 DEF DiskFirst, NoSnap, NoVM
  <2>4. Config(op).boot # "iso-first"
    <3>1. vm \in VMs
      BY DEF IInv, Types, TypeOK
    <3>2. CASE op \in {"create", "delete"}
      BY <3>2 DEF Config, NoVM
    <3>3. CASE op = "rollback"
      BY <3>3 DEF Config, DiskFirst
    <3>4. CASE op \in {"order", "order-disk"}
      BY <3>1, <3>4 DEF Config, VMs
    <3>5. CASE op \in {"attach", "delete-ide3", "empty-ide3", "delete-ide2"}
      BY <3>1, <3>5 DEF Config, VMs, DiskFirst
    <3>6. CASE op \in Calls \ {"create", "delete", "rollback", "order", "order-disk", "attach",
                               "delete-ide3", "empty-ide3", "delete-ide2", "iso-first"}
      BY <3>6 DEF Config, DiskFirst
    <3> QED BY <2>1, <3>2, <3>3, <3>4, <3>5, <3>6
  <2> QED BY <2>1, <2>2, <2>3, <2>4 DEF DiskFirst
<1>5. CASE TaskFails
  <2>1. \A j \in 1..Len(queue') : queue'[j] # "iso-first"
    BY <1>3, <1>5 DEF TaskFails
  <2> QED BY <1>5, <2>1 DEF TaskFails, DiskFirst, NoVM
<1>6. \/ UNCHANGED pveVars \/ Issue \/ Execute \/ TaskFails
  BY DEF Next, Client, Guest, vars, Begin, Look, Misread, LookFails, Answered, Lost, Kill, Boot,
         BootFrom, PassesOverDisk, InstallDone, GuestReboot
<1> QED BY <1>1, <1>2, <1>4, <1>5, <1>6
-----------------------------------------------------------------------------
Ups == {"up", "vm-create", "up-skip-finalize"}

(* An attach is called for right after the create, with nothing else in the *)
(* queue, and whatever the queue takes in later comes behind it: it finds a *)
(* VM that is off and blank.                                                *)
Fresh == vm.exists = "yes" /\ disk = "blank" /\ guest = "off"

AttachInv ==
  /\ \A j \in 1..Len(queue) : queue[j] = "attach" => j = 1 /\ Fresh
  /\ cmd \in Ups /\ ((pc = 2 /\ wait = "ok") \/ (pc = 3 /\ wait = "no")) => queue = <<>> /\ Fresh

(* Only up asks for the attach, as its third step, after the create.        *)
LEMMA AttachOp ==
  ASSUME Types, cmd # "none"
  PROVE  /\ Op = "attach" => cmd \in Ups /\ pc = 3
         /\ cmd \in Ups => /\ ~Unwatched(Op) /\ ~Ignored(Op)
                           /\ pc \in Nat /\ Len(Program(cmd)) \in Nat /\ Len(Program(cmd)) > 3
                           /\ pc = 1 => Op = "absent?"
                           /\ pc = 2 => Op = "create"
                           /\ pc = 3 => Op = "attach"
<1>1. cmd \in AllCommands /\ pc \in 1..Len(Program(cmd))
  BY OpTypes
<1>2. CASE cmd \in {"up", "vm-create"}
  <2>1. /\ pc \in 1..9 /\ Len(Program(cmd)) = 9
        /\ (pc = 1 => Op = "absent?")     /\ (pc = 2 => Op = "create")
        /\ (pc = 3 => Op = "attach")      /\ (pc = 4 => Op = "order")
        /\ (pc = 5 => Op = "start")       /\ (pc = 6 => Op = "ssh")
        /\ (pc = 7 => Op = "delete-ide3") /\ (pc = 8 => Op = "delete-ide2")
        /\ (pc = 9 => Op = "order-disk")
        /\ ~Unwatched(Op) /\ ~Ignored(Op)
    BY <1>2, UpOps
  <2>2. Op = "attach" => pc = 3
    BY <2>1
  <2> QED BY <1>2, <2>1, <2>2 DEF Ups
<1>3. CASE cmd = "up-skip-finalize"
  <2>1. Op = Apply[pc] /\ pc \in 1..5 /\ Len(Program(cmd)) = 5
    BY <1>1, <1>3, Programs, LongPrograms DEF Op
  <2>2. /\ Op \in {"absent?", "create", "attach", "order", "start"}
        /\ (pc = 1 => Op = "absent?") /\ (pc = 2 => Op = "create") /\ (pc = 3 => Op = "attach")
        /\ Op = "attach" => pc = 3
    BY <2>1 DEF Apply
  <2>3. ~Unwatched(Op) /\ ~Ignored(Op)
    BY <2>2 DEF Unwatched, Ignored
  <2>4. pc \in Nat /\ Len(Program(cmd)) \in Nat /\ Len(Program(cmd)) > 3
    BY <2>1
  <2>5. cmd \in Ups
    BY <1>3 DEF Ups
  <2> QED BY <2>2, <2>3, <2>4, <2>5
<1>4. CASE cmd = "finalize"
  <2>1. Op = Finalize[pc] /\ pc \in 1..4
    BY <1>1, <1>4, Programs, LongPrograms DEF Op
  <2>2. Op # "attach"
    BY <2>1 DEF Finalize
  <2> QED BY <1>4, <2>2 DEF Ups
<1>5. CASE cmd \in {"down", "down-force"}
  <2>1. \E a \in {"shutdown", "stop"} : Program(cmd) = <<"present?", a, "delete">>
    BY <1>5, Programs
  <2>2. pc \in 1..3
    BY <1>1, <2>1
  <2>3. Op # "attach"
    BY <2>1, <2>2 DEF Op
  <2> QED BY <1>5, <2>3 DEF Ups
<1>6. CASE cmd \in AllCommands \ {"up", "vm-create", "up-skip-finalize", "finalize", "down",
                                  "down-force"}
  <2>1. \E a \in Ops \ {"attach"} : Program(cmd) = <<a>>
    BY <1>6, Programs DEF AllCommands, Ops, Looks, Calls
  <2>2. pc \in 1..1
    BY <1>1, <2>1, ShortPrograms
  <2>3. Op # "attach"
    BY <2>1, <2>2 DEF Op
  <2> QED BY <1>6, <2>3 DEF Ups
<1> QED BY <1>1, <1>2, <1>3, <1>4, <1>5, <1>6

(* A command goes on or ends.                                               *)
LEMMA AttachClient ==
  ASSUME IInv, AttachInv, Look \/ Misread \/ LookFails \/ Answered \/ Lost \/ Kill
  PROVE  AttachInv'
<1>1. cmd # "none" /\ UNCHANGED <<queue, vm, guest, disk>>
  BY DEF Look, Misread, LookFails, Answered, Lost, Kill, pveVars
<1>2. Proceed \/ \E r \in {"nil", "err", "killed"} : End(r)
  BY DEF Look, Misread, LookFails, Answered, Lost, Kill
<1>3. wait' = "no" /\ (cmd' = cmd \/ cmd' = "none")
  BY <1>2 DEF Proceed, End
<1>4. cmd' \in Ups /\ pc' = 3 => queue' = <<>> /\ Fresh'
  <2>1. SUFFICES ASSUME cmd' \in Ups, pc' = 3 PROVE queue' = <<>> /\ Fresh'
    OBVIOUS
  <2>2. cmd \in Ups /\ Proceed /\ pc' = pc + 1
    BY <1>2, <1>3, <2>1 DEF Proceed, End, Ups
  <2>3. pc = 2 /\ Op = "create" /\ ~Ignored(Op)
    BY <1>1, <2>1, <2>2, AttachOp DEF IInv
  <2>4. ~End("err") /\ ~End("killed")
    BY <2>1 DEF End, Ups
  <2>5. Answered /\ wait = "ok"
    BY <2>3, <2>4 DEF Look, Misread, LookFails, Answered, Lost, Kill, IsCall
  <2> QED BY <1>1, <2>2, <2>3, <2>5 DEF AttachInv, Fresh
<1> QED BY <1>1, <1>3, <1>4 DEF AttachInv, Fresh

(* A command makes a call.                                                  *)
LEMMA AttachIssue ==
  ASSUME IInv, AttachInv, Issue
  PROVE  AttachInv'
<1>1. /\ cmd # "none" /\ wait = "no" /\ Op \in Calls
      /\ UNCHANGED <<guest, disk>>
  BY OpTypes DEF Issue, IInv
<1>2. CASE Refused(Op)
  BY <1>1, <1>2 DEF Issue, AttachInv, Fresh
<1>3. CASE ~Refused(Op)
  <2>1. /\ queue' = Append(queue, Op)
        /\ vm' = IF Op = "create" THEN [vm EXCEPT !.exists = "creating"] ELSE vm
        /\ \/ Unwatched(Op) /\ Proceed
           \/ ~Unwatched(Op) /\ wait' = "queued" /\ UNCHANGED <<cmd, pc, last, res>>
    BY <1>3 DEF Issue
  <2>2. /\ Len(queue) \in Nat /\ Len(queue') = Len(queue) + 1 /\ queue'[Len(queue) + 1] = Op
        /\ \A j \in 1..Len(queue) : queue'[j] = queue[j]
        /\ \A j \in 1..(Len(queue) + 1) : j \in 1..Len(queue) \/ j = Len(queue) + 1
    BY <1>1, <2>1, AppendCall DEF IInv, Types
  <2>3. wait' = "queued" \/ cmd' \notin Ups
    BY <1>1, <2>1, AttachOp DEF IInv, Proceed, End, Ups
  <2>4. CASE Op = "attach"
    <3>1. queue = <<>> /\ Fresh
      BY <1>1, <2>4, AttachOp DEF IInv, AttachInv
    <3>2. Len(queue) = 0 /\ vm' = vm
      BY <2>1, <2>4, <3>1
    <3> QED BY <1>1, <2>2, <2>3, <3>1, <3>2 DEF AttachInv, Fresh
  <2>5. CASE Op # "attach"
    <3>1. ASSUME NEW j \in 1..Len(queue'), queue'[j] = "attach"
          PROVE  j = 1 /\ Fresh'
      <4>1. j \in 1..Len(queue) /\ queue[j] = "attach"
        BY <2>2, <2>5, <3>1
      <4>2. j = 1 /\ Fresh
        BY <4>1 DEF AttachInv
      <4>3. Op # "create"
        BY <1>3, <4>2 DEF Refused, Fresh
      <4> QED BY <1>1, <2>1, <4>2, <4>3 DEF Fresh
    <3> QED BY <2>3, <3>1 DEF AttachInv
  <2> QED BY <2>4, <2>5
<1> QED BY <1>2, <1>3

(* The server carries a task out, or it fails.                              *)
LEMMA AttachServer ==
  ASSUME IInv, AttachInv, Execute \/ TaskFails
  PROVE  AttachInv'
<1>1. /\ queue # <<>> /\ queue' = Tail(queue) /\ UNCHANGED <<cmd, pc>>
      /\ \E s \in {"ok", "failed"} : Notify(s)
  BY DEF Execute, TaskFails
<1>2. /\ Len(queue') = Len(queue) - 1 /\ Len(queue) \in Nat
      /\ \A j \in 1..(Len(queue) - 1) : queue'[j] = queue[j + 1] /\ j + 1 \in 1..Len(queue)
      /\ Head(queue) = queue[1] /\ 1 \in 1..Len(queue) /\ Len(queue) = 1 => queue' = <<>>
  BY <1>1, TailCall DEF IInv, Types
<1>3. ASSUME NEW j \in 1..Len(queue')
      PROVE  queue'[j] # "attach"
  <2>1. queue'[j] = queue[j + 1] /\ j + 1 \in 1..Len(queue) /\ j + 1 # 1
    BY <1>2
  <2> QED BY <2>1 DEF AttachInv
<1>4. wait # "ok" /\ (wait' = wait \/ (wait = "queued" /\ Len(queue) = 1 /\ wait' # "no"))
  BY <1>1 DEF Notify, IInv, QueueInv
<1>5. ASSUME cmd' \in Ups, (pc' = 2 /\ wait' = "ok") \/ (pc' = 3 /\ wait' = "no")
      PROVE  queue' = <<>> /\ Fresh'
  <2>1. cmd \in Ups /\ ~(pc = 3 /\ wait = "no")
    BY <1>1, <1>5 DEF AttachInv
  <2>2. pc = 2 /\ wait = "queued" /\ Len(queue) = 1 /\ wait' = "ok"
    BY <1>1, <1>4, <1>5, <2>1
  <2>3. Execute /\ Head(queue) = "create"
    <3>1. Op = "create"
      BY <2>1, <2>2, AttachOp DEF IInv, Ups
    <3>2. Head(queue) = "create"
      BY <1>2, <2>2, <3>1 DEF IInv, QueueInv
    <3>3. ~TaskFails
      BY <2>2 DEF TaskFails, Notify
    <3> QED BY <3>2, <3>3
  <2>4. vm.exists = "creating" /\ vm'.exists = "yes" /\ disk' = "blank" /\ guest' = guest
    BY <2>3 DEF Execute, Possible, Config, NoVM
  <2>5. guest = "off"
    BY <2>4 DEF IInv, MachineInv
  <2> QED BY <1>2, <2>2, <2>4, <2>5 DEF Fresh
<1> QED BY <1>3, <1>5 DEF AttachInv

(* Every step keeps it.                                                     *)
LEMMA AttachStep ==
  ASSUME IInv, AttachInv, [Next]_vars
  PROVE  AttachInv'
<1>1. CASE UNCHANGED vars
  BY <1>1 DEF vars, cmdVars, pveVars, AttachInv, Fresh
<1>2. ASSUME NEW c \in Commands, Begin(c) PROVE AttachInv'
  BY <1>2 DEF Begin, pveVars, AttachInv, Fresh
<1>3. CASE Look \/ Misread \/ LookFails \/ Answered \/ Lost \/ Kill
  BY <1>3, AttachClient
<1>4. CASE Issue
  BY <1>4, AttachIssue
<1>5. CASE Execute \/ TaskFails
  BY <1>5, AttachServer
<1>6. CASE Boot \/ PassesOverDisk \/ InstallDone \/ GuestReboot
  <2>1. guest # "off" /\ UNCHANGED <<cmd, pc, wait, queue>>
    BY <1>6, BootDoes DEF InstallDone, GuestReboot, IInv, cmdVars, pveVars
  <2> QED BY <2>1 DEF AttachInv, Fresh
<1> QED BY <1>1, <1>2, <1>3, <1>4, <1>5, <1>6 DEF Next, Client, Guest

(* What a task does to ide3.                                                *)
LEMMA MediumStep ==
  ASSUME IInv, Execute
  PROVE  \/ vm'.ide3 \in {vm.ide3, "empty"}
         \/ Head(queue) \in {"attach", "iso-first", "rollback"}
<1>1. vm' = Config(Head(queue)) /\ vm \in VMs
  BY DEF Execute, IInv, Types, TypeOK
<1>2. CASE Head(queue) \in {"create", "delete"}
  BY <1>1, <1>2 DEF Config, NoVM
<1>3. CASE Head(queue) \in {"order", "order-disk", "delete-ide2", "delete-ide3", "empty-ide3"}
  BY <1>1, <1>3 DEF Config, VMs
<1>4. CASE Head(queue) \notin {"create", "delete", "attach", "order", "iso-first", "rollback",
                               "order-disk", "delete-ide2", "delete-ide3", "empty-ide3"}
  BY <1>1, <1>4 DEF Config
<1> QED BY <1>2, <1>3, <1>4

(* The kickstart ISO comes to a blank disk, or with a snapshot.             *)
LEMMA AttachSafe ==
  ASSUME IInv, DiskFirst, AttachInv, [Next]_vars, vm.ide3 = "empty", vm'.ide3 = "kickstart"
  PROVE  disk = "blank" \/ Head(queue) = "rollback"
<1>1. vm \in VMs
  BY DEF IInv, Types, TypeOK
<1>2. vm' # vm /\ vm' # NoVM
  BY DEF NoVM
<1>3. ~Issue
  BY <1>1, <1>2 DEF Issue, VMs
<1>4. ~TaskFails
  BY <1>2 DEF TaskFails
<1>5. Execute
  BY <1>2, <1>3, <1>4
  DEF Next, Client, Guest, vars, pveVars, cmdVars, Begin, Look, Misread, LookFails, Answered, Lost,
      Kill, Boot, BootFrom, PassesOverDisk, InstallDone, GuestReboot
<1>6. Head(queue) = queue[1] /\ 1 \in 1..Len(queue)
  BY <1>5, TailCall DEF Execute, IInv, Types
<1>7. Head(queue) \in {"attach", "iso-first", "rollback"}
  BY <1>5, MediumStep
<1> QED BY <1>6, <1>7 DEF DiskFirst, AttachInv, Fresh

(* As long as nobody runs configure-first-boot the kickstart ISO comes only *)
(* to a VM whose disk is blank, or with a snapshot, whatever was misread,   *)
(* killed or left in the queue (single_vm.go:160-173, 183-260).             *)
THEOREM AttachedOnlyToBlank ==
  ASSUME "configure-first-boot" \notin Commands
  PROVE  Spec => AttachesOnlyToBlank
<1>1. Init => DiskFirst /\ AttachInv
  BY DEF Init, DiskFirst, AttachInv, Ups, NoVM, NoSnap
<1>2. IInv /\ DiskFirst /\ AttachInv /\ [Next]_vars => DiskFirst' /\ AttachInv'
  BY DiskFirstStep, AttachStep
<1>3. IInv /\ DiskFirst /\ AttachInv /\ [Next]_vars =>
        [vm.ide3 = "empty" /\ vm'.ide3 = "kickstart" =>
           disk = "blank" \/ Head(queue) = "rollback"]_vars
  BY AttachSafe
<1> QED BY <1>1, <1>2, <1>3, Inductive, PTL DEF Spec, AttachesOnlyToBlank
-----------------------------------------------------------------------------
(* Each step of the commands, of the server and of the guest is a step of   *)
(* Installation or leaves it alone.                                         *)
LEMMA SystemIs ==
  /\ vm.exists = "no" => System = "absent"
  /\ vm.exists # "no" /\ guest = "installer" => System = "installing"
  /\ vm.exists # "no" /\ guest # "installer" => System = Content(disk, vm.ide3)
  /\ snap = NoSnap => Saved = "none"
  /\ snap # NoSnap => Saved = Content(snap.disk, snap.vm.ide3)
BY DEF System, Saved

(* The same, of the state a step leads to.                                  *)
LEMMA SystemBecomes ==
  /\ vm'.exists = "no" => System' = "absent"
  /\ vm'.exists # "no" /\ guest' = "installer" => System' = "installing"
  /\ vm'.exists # "no" /\ guest' # "installer" => System' = Content(disk', vm'.ide3)
  /\ snap' = NoSnap => Saved' = "none"
  /\ snap' # NoSnap => Saved' = Content(snap'.disk, snap'.vm.ide3)
BY DEF System, Saved, NoSnap, NoVM

(* What may be on a disk.                                                   *)
LEMMA ContentIs ==
  ASSUME NEW d, NEW i
  PROVE  /\ Content(d, i) \in {"blank", "installed", "sealed"}
         /\ d = "blank" => Content(d, i) = "blank"
         /\ d # "blank" /\ i = "empty" => Content(d, i) = "sealed"
         /\ d # "blank" /\ i # "empty" => Content(d, i) = "installed"
BY DEF Content

(* A task carried out is one step of Installation, or none. *)
LEMMA ExecuteMaps ==
  ASSUME IInv, DiskFirst, AttachInv, Execute, IInv'
  PROVE  [Inst!Next]_(Inst!vars)
<1> DEFINE op == Head(queue)
<1>1. op \in Calls /\ op = queue[1] /\ 1 \in 1..Len(queue)
  BY TailCall DEF Execute, IInv, Types
<1>2. /\ Possible(op) /\ vm' = Config(op)
      /\ disk' = CASE op \in {"create", "delete"} -> "blank"
                   [] op = "rollback"             -> snap.disk
                   [] OTHER                       -> disk
      /\ guest' = CASE op \in {"start", "reboot"}            -> "booting"
                    [] op \in {"stop", "shutdown", "rollback"} -> "off"
                    [] OTHER                                 -> guest
      /\ snap' = CASE op = "snapshot" -> [vm |-> vm, disk |-> disk]
                   [] op \in {"delete", "delsnapshot"} -> NoSnap
                   [] OTHER           -> snap
  BY DEF Execute
<1>3. /\ op = "create" => vm.exists = "creating"
      /\ op # "create" => vm.exists = "yes"
      /\ op = "delete" => Config(op) = NoVM /\ guest = "off"
      /\ op \in {"rollback", "delsnapshot"} => snap # NoSnap
      /\ op # "delete" => Config(op).exists = "yes"
      /\ op = "rollback" => Config(op) = snap.vm
  BY <1>1, <1>2, ConfigTypes
<1>4. op # "iso-first" /\ (op = "attach" => disk = "blank")
  BY <1>1 DEF DiskFirst, AttachInv, Fresh
<1>5. op \in {"attach", "iso-first", "rollback"} \/ vm'.ide3 \in {vm.ide3, "empty"}
  BY MediumStep
<1> HIDE DEF op
<1>6. /\ (guest = "installer" => disk = "blank") /\ vm.ide3 \in {"empty", "kickstart"}
      /\ (vm.exists # "yes" => disk = "blank" /\ guest = "off" /\ snap = NoSnap)
      /\ (snap # NoSnap => snap.vm.exists = "yes")
  BY DEF IInv, Types, TypeOK, MachineInv, VMs
<1>7. /\ vm.exists # "no" /\ guest = "installer" => System = "installing"
      /\ vm.exists # "no" /\ guest # "installer" => System = Content(disk, vm.ide3)
      /\ snap = NoSnap => Saved = "none"
      /\ snap # NoSnap => Saved = Content(snap.disk, snap.vm.ide3)
  BY SystemIs
<1>8. /\ vm'.exists = "no" => System' = "absent"
      /\ vm'.exists # "no" /\ guest' = "installer" => System' = "installing"
      /\ vm'.exists # "no" /\ guest' # "installer" => System' = Content(disk', vm'.ide3)
      /\ snap' = NoSnap => Saved' = "none"
      /\ snap' # NoSnap => Saved' = Content(snap'.disk, snap'.vm.ide3)
  BY SystemBecomes
<1> HIDE DEF System, Saved
<1>9. CASE op = "create"
  <2>1. vm'.exists = "yes" /\ disk' = "blank" /\ guest' = "off" /\ snap' = NoSnap
    BY <1>2, <1>3, <1>6, <1>9
  <2>2. vm.exists = "creating" /\ disk = "blank" /\ guest = "off" /\ snap = NoSnap
    BY <1>3, <1>6, <1>9
  <2>3. System = "blank" /\ System' = "blank" /\ Saved = "none" /\ Saved' = "none"
    BY <1>7, <1>8, <2>1, <2>2, ContentIs
  <2> QED BY <2>3 DEF Inst!vars
<1>10. CASE op = "delete"
  <2>1. vm'.exists = "no" /\ snap' = NoSnap
    BY <1>2, <1>3, <1>10 DEF NoVM
  <2>2. System' = "absent" /\ Saved' = "none"
    BY <1>8, <2>1
  <2>3. System \in {"blank", "installed", "sealed"}
    BY <1>3, <1>7, <1>10, ContentIs
  <2> QED BY <2>2, <2>3 DEF Inst!Next, Inst!Delete
<1>11. CASE op = "rollback"
  <2>1. vm' = snap.vm /\ disk' = snap.disk /\ guest' = "off" /\ snap' = snap
    BY <1>2, <1>3, <1>11
  <2>2. snap # NoSnap /\ vm'.exists = "yes" /\ vm.exists = "yes"
    BY <1>3, <1>6, <1>11, <2>1
  <2>3. System' = Saved /\ Saved' = Saved
    BY <1>7, <1>8, <2>1, <2>2
  <2>4. System # "absent" /\ Saved # "none"
    BY <1>7, <2>2, ContentIs
  <2> QED BY <2>3, <2>4 DEF Inst!Next, Inst!Rollback
<1>12. CASE op = "snapshot"
  <2>1. vm' = vm /\ vm.exists = "yes" /\ UNCHANGED <<disk, guest>>
        /\ snap' = [vm |-> vm, disk |-> disk]
    BY <1>2, <1>3, <1>12 DEF Config
  <2>2. snap' # NoSnap /\ snap'.disk = disk /\ snap'.vm.ide3 = vm.ide3
    BY <2>1 DEF NoSnap, NoVM
  <2>3. System' = System /\ Saved' = Content(disk, vm.ide3)
    BY <1>7, <1>8, <2>1, <2>2
  <2>4. guest = "installer" => System = "installing" /\ Saved' = "blank"
    BY <1>6, <1>7, <2>1, <2>3, ContentIs
  <2>5. guest # "installer" => System = Saved' /\ System \in {"blank", "installed", "sealed"}
    BY <1>7, <2>1, <2>3, ContentIs
  <2> QED BY <2>3, <2>4, <2>5 DEF Inst!Next, Inst!Save
<1>13. CASE op = "delsnapshot"
  <2>1. vm' = vm /\ vm.exists = "yes" /\ UNCHANGED <<disk, guest>> /\ snap' = NoSnap
    BY <1>2, <1>3, <1>13 DEF Config
  <2>2. System' = System
    BY <1>7, <1>8, <2>1
  <2>3. Saved # "none" /\ Saved' = "none"
    BY <1>3, <1>7, <1>8, <1>13, <2>1, ContentIs
  <2> QED BY <2>2, <2>3 DEF Inst!Next, Inst!Forget
<1>14. CASE op \notin {"create", "delete", "rollback", "snapshot", "delsnapshot"}
  <2>1. vm.exists = "yes" /\ vm'.exists = "yes" /\ disk' = disk /\ snap' = snap
    BY <1>2, <1>3, <1>14
  <2>2. guest' # "installer" \/ guest' = guest
    BY <1>2, <1>14
  <2>3. Saved' = Saved
    BY <1>7, <1>8, <2>1
  <2>4. CASE guest = "installer"
    <3>1. System = "installing" /\ disk' = "blank"
      BY <1>6, <1>7, <2>1, <2>4
    <3>2. System' = "installing" \/ System' = "blank"
      BY <1>8, <2>1, <3>1, ContentIs
    <3> QED BY <2>3, <3>1, <3>2 DEF Inst!vars, Inst!Next, Inst!Abort
  <2>5. CASE guest # "installer"
    <3>1. System = Content(disk, vm.ide3) /\ System' = Content(disk, vm'.ide3)
      BY <1>7, <1>8, <2>1, <2>2, <2>5
    <3>2. CASE disk = "blank"
      <4>1. System' = System
        BY <3>1, <3>2, ContentIs
      <4> QED BY <2>3, <4>1 DEF Inst!vars
    <3>3. CASE disk # "blank"
      <4>1. vm'.ide3 = vm.ide3 \/ (vm.ide3 = "kickstart" /\ vm'.ide3 = "empty")
        BY <1>4, <1>5, <1>6, <1>14, <3>3
      <4>2. System' = System \/ (System = "installed" /\ System' = "sealed")
        BY <3>1, <3>3, <4>1, ContentIs
      <4> QED BY <2>3, <4>2 DEF Inst!vars, Inst!Next, Inst!Seal
    <3> QED BY <3>2, <3>3
  <2> QED BY <2>4, <2>5
<1> QED BY <1>9, <1>10, <1>11, <1>12, <1>13, <1>14

(* Every other step is one step of Installation, or none. *)
LEMMA StepMaps ==
  ASSUME IInv, DiskFirst, AttachInv, IInv', [Next]_vars
  PROVE  [Inst!Next]_(Inst!vars)
<1>1. ASSUME UNCHANGED <<vm, snap, guest, disk>>
      PROVE  UNCHANGED <<System, Saved>>
  BY <1>1 DEF System, Saved
<1>2. CASE UNCHANGED <<vm, snap, guest, disk>>
  BY <1>1, <1>2 DEF Inst!vars
<1>3. /\ disk \in {"blank", "installed"} /\ vm.ide3 \in {"empty", "kickstart"}
      /\ (guest = "os" => disk = "installed")
      /\ (vm.exists # "yes" => disk = "blank" /\ guest = "off" /\ snap = NoSnap)
  BY DEF IInv, Types, TypeOK, MachineInv, VMs
<1>7. /\ vm.exists = "no" => System = "absent"
      /\ vm.exists # "no" /\ guest = "installer" => System = "installing"
      /\ vm.exists # "no" /\ guest # "installer" => System = Content(disk, vm.ide3)
      /\ snap = NoSnap => Saved = "none"
  BY SystemIs
<1>8. /\ vm'.exists = "no" => System' = "absent"
      /\ vm'.exists # "no" /\ guest' = "installer" => System' = "installing"
      /\ vm'.exists # "no" /\ guest' # "installer" => System' = Content(disk', vm'.ide3)
      /\ snap' = NoSnap => Saved' = "none"
  BY SystemBecomes
<1>9. UNCHANGED snap => UNCHANGED Saved
  BY DEF Saved
<1> HIDE DEF System, Saved
<1>4. CASE Issue
  <2>1. CASE Refused(Op) \/ Op # "create"
    BY <1>2, <1>4, <2>1 DEF Issue
  <2>2. CASE ~Refused(Op) /\ Op = "create"
    <3>1. vm.exists = "no" /\ vm' = [vm EXCEPT !.exists = "creating"] /\ UNCHANGED <<snap, guest, disk>>
      BY <1>4, <2>2 DEF Issue, Refused
    <3>2. vm'.exists = "creating" /\ disk' = "blank" /\ guest' = "off"
      BY <1>3, <3>1 DEF IInv, Types, TypeOK, VMs
    <3>3. System = "absent" /\ System' = "blank" /\ Saved' = Saved
      BY <1>7, <1>8, <1>9, <3>1, <3>2, ContentIs
    <3> QED BY <3>3 DEF Inst!Next, Inst!Create
  <2> QED BY <2>1, <2>2
<1>5. CASE TaskFails
  <2>1. vm' = (IF Head(queue) = "create" THEN NoVM ELSE vm) /\ UNCHANGED <<snap, guest, disk>>
    BY <1>5 DEF TaskFails
  <2>2. CASE Head(queue) # "create"
    BY <1>2, <2>1, <2>2
  <2>3. CASE Head(queue) = "create"
    <3>1. Head(queue) = queue[1] /\ 1 \in 1..Len(queue)
      BY <1>5, TailCall DEF TaskFails, IInv, Types
    <3>2. vm.exists = "creating" /\ vm'.exists = "no"
      BY <2>1, <2>3, <3>1 DEF IInv, QueueInv, NoVM
    <3>3. disk = "blank" /\ guest = "off" /\ snap' = NoSnap
      BY <1>3, <2>1, <3>2
    <3>4. System = "blank" /\ System' = "absent" /\ Saved' = "none"
      BY <1>7, <1>8, <3>2, <3>3, ContentIs
    <3> QED BY <3>4 DEF Inst!Next, Inst!Delete
  <2> QED BY <2>2, <2>3
<1>6. CASE Execute
  BY <1>6, ExecuteMaps
<1>10. CASE Boot \/ PassesOverDisk
  <2>1. /\ guest = "booting" /\ UNCHANGED <<vm, snap>>
        /\ disk' = IF guest' = "installer" THEN "blank" ELSE disk
        /\ guest' = "installer" => vm.ide3 = "kickstart"
        /\ Boot /\ disk = "installed" => guest' = "os"
        /\ ~Boot => SlowDisk
    BY <1>10, BootDoes DEF IInv, DiskFirst, pveVars
  <2>2. vm.exists = "yes" /\ System = Content(disk, vm.ide3) /\ Saved' = Saved
    BY <1>3, <1>7, <1>9, <2>1
  <2>3. CASE guest' # "installer"
    <3>1. System' = System
      BY <1>8, <2>1, <2>2, <2>3
    <3> QED BY <2>2, <3>1 DEF Inst!vars
  <2>4. CASE guest' = "installer"
    <3>1. System' = "installing"
      BY <1>8, <2>1, <2>2, <2>4
    <3>2. System = "blank" \/ (SlowDisk /\ System = "installed")
      BY <1>3, <2>1, <2>2, <2>4, ContentIs
    <3> QED BY <2>2, <3>1, <3>2 DEF Inst!Next, Inst!Install
  <2> QED BY <2>3, <2>4
<1>11. CASE InstallDone
  <2>1. /\ guest = "installer" /\ disk' = "installed" /\ guest' = "booting"
        /\ UNCHANGED <<vm, snap>>
    BY <1>11 DEF InstallDone, pveVars
  <2>2. System = "installing" /\ Saved' = Saved /\ System' = Content(disk', vm'.ide3)
    BY <1>3, <1>7, <1>8, <1>9, <2>1
  <2>3. System' \in {"installed", "sealed"}
    BY <1>3, <2>1, <2>2, ContentIs
  <2> QED BY <2>2, <2>3 DEF Inst!Next, Inst!Finish
<1>12. CASE GuestReboot
  <2>1. guest = "os" /\ guest' = "booting" /\ UNCHANGED <<vm, snap, disk>>
    BY <1>12 DEF GuestReboot, pveVars
  <2>2. UNCHANGED <<System, Saved>>
    BY <1>3, <1>7, <1>8, <1>9, <2>1
  <2> QED BY <2>2 DEF Inst!vars
<1>13. \/ UNCHANGED <<vm, snap, guest, disk>> \/ Issue \/ Execute \/ TaskFails
       \/ Boot \/ PassesOverDisk \/ InstallDone \/ GuestReboot
  BY DEF Next, Client, Guest, vars, pveVars, Begin, Look, Misread, LookFails, Answered, Lost, Kill
<1> QED BY <1>2, <1>4, <1>5, <1>6, <1>10, <1>11, <1>12, <1>13

(* The commands, the task queue and the guest implement Installation, for   *)
(* every set of commands without configure-first-boot, and whether or not   *)
(* the firmware waits for the disk (single_vm.go:206-260,                   *)
(* finalize.go:162-203, snapshot.go:43-137).                                *)
THEOREM Implements ==
  ASSUME "configure-first-boot" \notin Commands
  PROVE  Spec => ImplementsInstallation
<1>1. Init => DiskFirst /\ AttachInv
  BY DEF Init, DiskFirst, AttachInv, Ups, NoVM, NoSnap
<1>2. IInv /\ DiskFirst /\ AttachInv /\ [Next]_vars => DiskFirst' /\ AttachInv'
  BY DiskFirstStep, AttachStep
<1>3. Init => Inst!Init
  BY DEF Init, Inst!Init, System, Saved, NoVM
<1>4. IInv /\ DiskFirst /\ AttachInv /\ IInv' /\ [Next]_vars => [Inst!Next]_(Inst!vars)
  BY StepMaps
<1> QED BY <1>1, <1>2, <1>3, <1>4, Inductive, PTL DEF Spec, ImplementsInstallation, Inst!Spec
-----------------------------------------------------------------------------
(* A guest whose disk comes first keeps the system on it, or installs it    *)
(* anew.                                                                    *)
LEMMA GuestKeepsDisk ==
  ASSUME IInv, DiskReady, vm.boot # "iso-first",
         Boot \/ PassesOverDisk \/ InstallDone \/ GuestReboot
  PROVE  DiskReady'
<1>1. CASE Boot \/ PassesOverDisk
  BY <1>1, BootDoes DEF IInv, DiskReady
<1>2. CASE InstallDone
  BY <1>2 DEF InstallDone, DiskReady
<1>3. CASE GuestReboot
  BY <1>3 DEF GuestReboot, IInv, MachineInv, DiskReady
<1> QED BY <1>1, <1>2, <1>3

(* Ending with an error means nothing for up. *)
LEMMA UpEnds ==
  ASSUME NEW r \in {"err", "killed"}, End(r)
  PROVE  UpInv'
BY DEF End, UpInv, UpRunning, UpDone

(* Going on to the next step, or ending after the last. *)
LEMMA UpGoesOn ==
  ASSUME Types, ClientInv, UpRunning, cmd = "up", UNCHANGED <<queue, vm, disk, guest>>, Proceed,
         pc < 9 => UpRunning', pc = 9 => Worked = 9
  PROVE  UpInv'
<1>1. pc \in 1..9 /\ Len(Program(cmd)) = 9
  BY UpOps
<1>2. CASE pc < 9
  <2>0. pc # 9
    BY <1>1, <1>2
  <2>1. pc # Len(Program(cmd))
    BY <1>1, <2>0
  <2>2. last' = last /\ res' = res
    BY <2>1 DEF Proceed
  <2>3. UpDone'
    BY <2>2 DEF ClientInv, UpDone
  <2> QED BY <1>2, <2>3 DEF UpInv
<1>3. CASE pc = 9
  <2>1. cmd' = "none"
    BY <1>1, <1>3 DEF Proceed, End
  <2>2. UpRunning'
    BY <2>1 DEF UpRunning
  <2>3. UpDone'
    <3>1. Worked >= 9 /\ Worked >= 2 /\ Worked >= 6 /\ Worked >= 7 /\ Worked >= 8
      BY <1>3
    <3>2. wait # "queued"
      BY <1>3, <3>1 DEF Worked
    <3> QED BY <2>1, <3>1, <3>2 DEF UpRunning, UpDone, DiskReady
  <2> QED BY <2>2, <2>3 DEF UpInv
<1> QED BY <1>1, <1>2, <1>3

(* A step of the up command itself keeps UpInv. *)
LEMMA UpClient ==
  ASSUME IInv, ClientInv, UpInv, cmd = "up",
         Look \/ Misread \/ LookFails \/ Answered \/ Lost \/ Kill
  PROVE  UpInv'
<1>1. /\ pc \in 1..9 /\ Len(Program(cmd)) = 9
      /\ (pc = 1 => Op = "absent?")     /\ (pc = 2 => Op = "create")
      /\ (pc = 3 => Op = "attach")      /\ (pc = 4 => Op = "order")
      /\ (pc = 5 => Op = "start")       /\ (pc = 6 => Op = "ssh")
      /\ (pc = 7 => Op = "delete-ide3") /\ (pc = 8 => Op = "delete-ide2")
      /\ (pc = 9 => Op = "order-disk")
      /\ ~Unwatched(Op) /\ ~Ignored(Op)
  BY UpOps DEF IInv
<1>2. Types /\ UpRunning /\ UNCHANGED <<queue, vm, disk, guest>>
  BY DEF IInv, UpInv, Look, Misread, LookFails, Answered, Lost, Kill, pveVars
<1>3. ASSUME \E r \in {"err", "killed"} : End(r) PROVE UpInv'
  BY <1>3, UpEnds
<1>7. ASSUME pc = 1, Proceed PROVE UpInv'
  <2>1. pc' = 2 /\ wait' = "no"
    BY <1>1, <1>7 DEF Proceed
  <2>2. UpRunning'
    BY <2>1 DEF UpRunning, Worked
  <2> QED BY <1>2, <1>7, <2>2, UpGoesOn
<1>8. CASE Misread
  <2>1. pc = 1
    BY <1>1, <1>8 DEF Misread
  <2> QED BY <1>1, <1>7, <1>8, <2>1 DEF Misread
<1>4. CASE Look
  <2>1. CASE pc = 1
    BY <1>1, <1>3, <1>4, <1>7, <2>1 DEF Look
  <2>2. CASE pc = 6
    <3>1. Proceed /\ guest = "os"
      BY <1>1, <1>4, <2>2 DEF Look
    <3>4. pc' = 7 /\ wait' = "no"
      BY <1>1, <2>2, <3>1 DEF Proceed
    <3>5. disk = "installed"
      BY <3>1 DEF IInv, MachineInv
    <3>6. DiskReady'
      BY <1>2, <3>5 DEF DiskReady
    <3>7. wait = "no"
      BY <1>2, <2>2 DEF UpRunning
    <3>2. pc' = 7 /\ wait' = "no" /\ DiskReady' /\ wait = "no"
      BY <3>4, <3>6, <3>7
    <3>3. UpRunning'
      BY <1>2, <2>2, <3>2 DEF UpRunning, Worked
    <3> QED BY <1>2, <2>2, <3>1, <3>3, UpGoesOn
  <2>3. CASE pc \notin {1, 6}
    <3>1. Op \in {"create", "attach", "order", "start", "delete-ide3", "delete-ide2", "order-disk"}
      BY <1>1, <2>3
    <3> QED BY <1>4, <3>1 DEF Look
  <2> QED BY <2>1, <2>2, <2>3
<1>5. CASE Answered
  <2>1. CASE wait = "ok"
    <3>1. Proceed /\ Worked = pc
      BY <1>5, <2>1 DEF Answered, Worked
    <3>2. pc \notin {1, 6}
      BY <1>2, <2>1 DEF UpRunning
    <3>3. CASE pc = 9
      BY <1>2, <3>1, <3>3, UpGoesOn
    <3>4. CASE pc < 9
      <4>4. pc # 9
        BY <1>1, <3>4
      <4>3. pc # Len(Program(cmd))
        BY <1>1, <4>4
      <4>0. queue = <<>> /\ pc' = pc + 1 /\ wait' = "no"
        BY <2>1, <3>1, <4>3 DEF Proceed, IInv, QueueInv
      <4>1. pc' = pc + 1 /\ wait' = "no" /\ Worked' = Worked /\ queue = <<>>
        BY <1>1, <3>1, <4>0 DEF Worked
      <4>2. UpRunning'
        BY <1>1, <1>2, <2>1, <3>1, <3>2, <4>1 DEF UpRunning, DiskReady
      <4> QED BY <1>2, <3>1, <3>4, <4>2, UpGoesOn
    <3> QED BY <1>1, <3>3, <3>4
  <2>2. CASE wait # "ok"
    BY <1>1, <1>3, <1>5, <2>2 DEF Answered
  <2> QED BY <2>1, <2>2
<1>6. CASE LookFails \/ Lost \/ Kill
  BY <1>1, <1>3, <1>6 DEF LookFails, Lost, Kill
<1> QED BY <1>4, <1>5, <1>6, <1>8

(* The other commands neither are up nor return for it. *)
LEMMA OthersKeepUp ==
  ASSUME ClientInv, UpInv, cmd # "none", cmd # "up",
         \/ UNCHANGED <<cmd, last, res>>
         \/ Proceed
         \/ \E r \in {"err", "killed"} : End(r)
  PROVE  UpInv'
<1>1. last = cmd /\ res = "none"
  BY DEF ClientInv
<1>2. (cmd' = cmd \/ cmd' = "none") /\ last' = last
  BY DEF Proceed, End
<1> QED BY <1>1, <1>2 DEF UpInv, UpRunning, UpDone

(* Its calls: only the create may be refused. *)
LEMMA UpIssue ==
  ASSUME IInv, ClientInv, UpInv, cmd = "up", Issue
  PROVE  UpInv'
<1>1. /\ pc \in 1..9
      /\ (pc = 1 => Op = "absent?")     /\ (pc = 2 => Op = "create")
      /\ (pc = 3 => Op = "attach")      /\ (pc = 4 => Op = "order")
      /\ (pc = 5 => Op = "start")       /\ (pc = 6 => Op = "ssh")
      /\ (pc = 7 => Op = "delete-ide3") /\ (pc = 8 => Op = "delete-ide2")
      /\ (pc = 9 => Op = "order-disk")
      /\ ~Unwatched(Op)
  BY UpOps DEF IInv
<1>2. UpRunning /\ IsCall(Op) /\ wait = "no" /\ Op \in Calls /\ vm \in VMs
  BY OpTypes DEF UpInv, Issue, IInv, Types, TypeOK
<1>3. pc \notin {1, 6}
  BY <1>1, <1>2 DEF IsCall
<1>4. Worked = pc - 1
  BY <1>2 DEF Worked
<1>5. pc > 2 => vm.exists = "yes" /\ vm.boot # "iso-first" /\ queue = <<>>
  BY <1>1, <1>2, <1>4 DEF UpRunning
<1>6. pc = 2 <=> Op = "create"
  BY <1>1, <1>3
<1>7. CASE Refused(Op)
  <2>1. wait' = "failed" /\ UNCHANGED <<cmd, pc, last, res>>
    BY <1>7 DEF Issue
  <2>2. pc = 2
    BY <1>1, <1>3, <1>5, <1>6, <1>7 DEF Refused
  <2>3. Worked' = 1
    BY <2>1, <2>2 DEF Worked
  <2> QED BY <2>1, <2>2, <2>3 DEF ClientInv, UpInv, UpRunning, UpDone
<1> SUFFICES ASSUME ~Refused(Op) PROVE UpInv'
  BY <1>7
<1>8. /\ queue' = Append(queue, Op) /\ wait' = "queued"
      /\ vm' = IF Op = "create" THEN [vm EXCEPT !.exists = "creating"] ELSE vm
      /\ UNCHANGED <<cmd, pc, last, res, disk, guest>>
  BY <1>1 DEF Issue
<1>9. Len(queue') = Len(queue) + 1
  BY <1>2, <1>8, AppendCall DEF IInv, Types
<1>10. UpDone'
  BY <1>8 DEF ClientInv, UpDone
<1>11. Worked' = Worked
  BY <1>4, <1>8 DEF Worked
<1>12. CASE pc = 2
  <2>1. vm'.exists = "creating"
    BY <1>2, <1>6, <1>8, <1>12 DEF VMs
  <2>2. UpRunning'
    BY <1>4, <1>8, <1>11, <1>12, <2>1 DEF UpRunning
  <2> QED BY <1>10, <2>2 DEF UpInv
<1>13. CASE pc > 2
  <2>1. vm' = vm /\ Len(queue') = 1
    BY <1>5, <1>6, <1>8, <1>9, <1>13
  <2>3. DiskReady' = DiskReady
    BY <1>8 DEF DiskReady
  <2>2. UpRunning'
    <3>1. /\ pc' = pc /\ cmd' = "up" /\ wait' = "queued" /\ pc' \notin {1, 2, 6}
          /\ vm.exists = "yes" /\ vm.boot # "iso-first"
      BY <1>1, <1>3, <1>5, <1>8, <1>13
    <3>2. /\ Worked >= 6 => DiskReady
          /\ Worked >= 7 => vm.ide3 = "empty"
          /\ Worked >= 8 => vm.ide2 = "empty"
          /\ Worked >= 9 => vm.boot = "disk"
      BY <1>2 DEF UpRunning
    <3> QED BY <1>11, <2>1, <2>3, <3>1, <3>2 DEF UpRunning
  <2> QED BY <1>10, <2>2 DEF UpInv
<1> QED BY <1>1, <1>3, <1>12, <1>13

(* The guest of an up. *)
LEMMA UpGuest ==
  ASSUME IInv, UpInv, Boot \/ PassesOverDisk \/ InstallDone \/ GuestReboot
  PROVE  UpInv'
<1>1. UNCHANGED <<cmd, pc, wait, last, res, queue, vm>>
  BY DEF Boot, BootFrom, PassesOverDisk, InstallDone, GuestReboot, cmdVars, pveVars
<1>2. DiskReady /\ vm.boot # "iso-first" => DiskReady'
  BY GuestKeepsDisk
<1>3. UpDone'
  BY <1>1, <1>2 DEF UpInv, UpDone
<1>4. Worked' = Worked
  BY <1>1 DEF Worked
<1>5. UpRunning'
  <2>1. SUFFICES ASSUME cmd = "up" PROVE UpRunning'
    BY <1>1 DEF UpRunning
  <2>2. pc \in 1..9
    BY <2>1, UpOps DEF IInv
  <2>3. Worked >= 6 => Worked >= 2
    BY <2>2 DEF Worked
  <2>4. Worked' >= 6 => DiskReady'
    BY <1>2, <1>4, <2>1, <2>3 DEF UpInv, UpRunning
  <2> QED BY <1>1, <1>4, <2>1, <2>4 DEF UpInv, UpRunning
<1> QED BY <1>3, <1>5 DEF UpInv

(* A task that fails under an up. *)
LEMMA UpTaskFails ==
  ASSUME IInv, ClientInv, UpInv, TaskFails
  PROVE  UpInv'
<1>1. /\ queue # <<>> /\ queue' = Tail(queue) /\ Notify("failed")
      /\ vm' = IF Head(queue) = "create" THEN NoVM ELSE vm
      /\ UNCHANGED <<cmd, pc, last, res, disk, guest>>
  BY DEF TaskFails
<1>2. UpDone'
  BY <1>1 DEF UpInv, UpDone
<1>3. UpRunning'
  <2>1. SUFFICES ASSUME cmd = "up" PROVE UpRunning'
    BY <1>1 DEF UpRunning
  <2>2. pc \in 1..9 /\ (pc = 2 => Op = "create") /\ (pc = 2 \/ Op # "create")
    BY <2>1, UpOps DEF IInv
  <2>3. /\ Head(queue) = queue[1] /\ 1 \in 1..Len(queue) /\ Len(queue) \in Nat
        /\ Len(queue) = 1 => queue' = <<>>
    BY <1>1, TailCall DEF IInv, Types
  <2>4. Head(queue) = "create" => vm.exists = "creating"
    BY <2>3 DEF IInv, QueueInv
  <2>5. wait # "ok" /\ Worked = pc - 1 /\ wait' # "ok" /\ Worked' = pc - 1
    BY <1>1 DEF Worked, Notify, IInv, QueueInv
  <2>6. wait' = wait \/ (wait = "queued" /\ Len(queue) = 1 /\ wait' = "failed")
    BY <1>1 DEF Notify
  <2>7. wait = "queued" /\ pc = 2 /\ Head(queue) = "create" => Len(queue) = 1
    <3>1. Len(queue) \in 1..Len(queue)
      BY <2>3
    <3> QED BY <2>2, <2>3, <3>1 DEF IInv, QueueInv
  <2>8. CASE pc = 1
    BY <1>1, <2>1, <2>5, <2>6, <2>8 DEF UpInv, UpRunning
  <2>9. CASE pc = 2
    <3>2. wait' = "queued" => vm'.exists = "creating"
      <4>1. SUFFICES ASSUME wait' = "queued" PROVE vm'.exists = "creating"
        OBVIOUS
      <4>2. wait = "queued" /\ Len(queue) # 1
        BY <1>1, <2>6, <4>1 DEF Notify
      <4> QED BY <1>1, <2>1, <2>7, <2>9, <4>2 DEF UpInv, UpRunning
    <3> QED BY <1>1, <2>5, <2>9, <3>2 DEF UpRunning
  <2>10. CASE pc > 2
    <3>1. vm.exists = "yes" /\ vm.boot # "iso-first" /\ wait = "queued" /\ Len(queue) = 1
      BY <1>1, <2>1, <2>2, <2>5, <2>10 DEF UpInv, UpRunning
    <3>2. vm' = vm /\ queue' = <<>> /\ wait' = "failed"
      BY <1>1, <2>3, <2>4, <3>1 DEF Notify
    <3>3. Worked' = Worked
      BY <2>5
    <3> QED BY <1>1, <2>1, <2>2, <2>10, <3>1, <3>2, <3>3 DEF UpInv, UpRunning, DiskReady
  <2> QED BY <2>2, <2>8, <2>9, <2>10
<1> QED BY <1>2, <1>3 DEF UpInv

(* A task that the server carries out under an up. *)
LEMMA UpExecute ==
  ASSUME IInv, ClientInv, UpInv, Execute
  PROVE  UpInv'
<1> DEFINE op == Head(queue)
<1>1. /\ queue # <<>> /\ queue' = Tail(queue) /\ Notify("ok") /\ Possible(op)
      /\ vm' = Config(op) /\ UNCHANGED <<cmd, pc, last, res>>
      /\ disk' = CASE op \in {"create", "delete"} -> "blank"
                   [] op = "rollback"             -> snap.disk
                   [] OTHER                       -> disk
      /\ guest' = CASE op \in {"start", "reboot"}            -> "booting"
                    [] op \in {"stop", "shutdown", "rollback"} -> "off"
                    [] OTHER                                 -> guest
  BY DEF Execute
<1>2. UpDone'
  BY <1>1 DEF UpInv, UpDone
<1>3. UpRunning'
  <2>1. SUFFICES ASSUME cmd = "up" PROVE UpRunning'
    BY <1>1 DEF UpRunning
  <2>2. /\ pc \in 1..9
        /\ (pc = 1 => Op = "absent?")     /\ (pc = 2 => Op = "create")
        /\ (pc = 3 => Op = "attach")      /\ (pc = 4 => Op = "order")
        /\ (pc = 5 => Op = "start")       /\ (pc = 6 => Op = "ssh")
        /\ (pc = 7 => Op = "delete-ide3") /\ (pc = 8 => Op = "delete-ide2")
        /\ (pc = 9 => Op = "order-disk")
    BY <2>1, UpOps DEF IInv
  <2>3. /\ op = queue[1] /\ 1 \in 1..Len(queue) /\ Len(queue) \in Nat /\ op \in Calls
        /\ Len(queue) = 1 => queue' = <<>>
    BY <1>1, TailCall DEF IInv, Types
  <2>4. /\ op = "create" => vm.exists = "creating"
        /\ op # "create" => vm.exists = "yes"
        /\ op # "delete" => Config(op).exists = "yes"
        /\ vm \in VMs
    BY <1>1, <2>3, ConfigTypes DEF IInv, Types, TypeOK
  <2>5. wait' = wait \/ (wait = "queued" /\ Len(queue) = 1 /\ wait' = "ok")
    BY <1>1 DEF Notify
  <2>6. UpRunning /\ wait # "ok" /\ Worked = pc - 1
    BY <1>1 DEF UpInv, Worked, IInv, QueueInv
  <2> HIDE DEF op
  <2>7. CASE pc = 1
    <3>1. wait' = "no" /\ Worked' = 0
      BY <1>1, <2>1, <2>5, <2>6, <2>7 DEF UpRunning, Worked
    <3> QED BY <1>1, <2>7, <3>1 DEF UpRunning
  <2>8. CASE pc = 2
    <3>2. CASE wait \in {"no", "failed"}
      <4>1. wait' = wait /\ Worked' = 1
        BY <1>1, <2>5, <2>8, <3>2 DEF Worked
      <4> QED BY <1>1, <2>8, <3>2, <4>1 DEF UpRunning
    <3>3. CASE wait = "queued"
      <4>1. op = "create"
        BY <2>1, <2>4, <2>6, <2>8, <3>3 DEF UpRunning
      <4>2. queue[Len(queue)] = "create" /\ Len(queue) \in 1..Len(queue)
        BY <1>1, <2>2, <2>3, <2>8, <3>3 DEF IInv, QueueInv
      <4>3. Len(queue) = 1
        BY <2>3, <4>1, <4>2 DEF IInv, QueueInv
      <4>4. wait' = "ok" /\ queue' = <<>> /\ vm'.exists = "yes" /\ vm'.boot = "default"
        BY <1>1, <2>3, <3>3, <4>1, <4>3 DEF Notify, Config, NoVM
      <4>5. Worked' = 2
        BY <1>1, <2>8, <4>4 DEF Worked
      <4> QED BY <1>1, <2>8, <4>4, <4>5 DEF UpRunning
    <3> QED BY <2>6, <3>2, <3>3 DEF IInv, Types, TypeOK
  <2>9. CASE pc \in 3..9
    <3>1. vm.exists = "yes" /\ vm.boot # "iso-first" /\ wait = "queued" /\ Len(queue) = 1
      BY <1>1, <2>1, <2>6, <2>9 DEF UpRunning
    <3>2. pc # 6 /\ op = Op
      BY <2>1, <2>3, <2>6, <3>1 DEF UpRunning, IInv, QueueInv
    <3>3. wait' = "ok" /\ queue' = <<>> /\ Worked' = pc
      BY <1>1, <2>3, <3>1 DEF Notify, Worked
    <3>4. op \in {"attach", "order", "start", "delete-ide3", "delete-ide2", "order-disk"}
      BY <2>2, <2>9, <3>2
    <3>5. disk' = disk /\ vm'.exists = "yes"
      BY <1>1, <2>4, <3>4
    <3>6. /\ vm'.boot # "iso-first"
          /\ op \in {"delete-ide3", "delete-ide2"} => vm'.boot = vm.boot
          /\ op \in {"delete-ide2", "order-disk"} => vm'.ide3 = vm.ide3
          /\ op = "order-disk" => vm'.ide2 = vm.ide2
          /\ op = "delete-ide3" => vm'.ide3 = "empty"
          /\ op = "delete-ide2" => vm'.ide2 = "empty"
          /\ op = "order-disk" => vm'.boot = "disk"
      <4>1. CASE op \in {"attach", "order", "start"}
        BY <1>1, <2>4, <3>1, <4>1 DEF Config, VMs
      <4>2. CASE op \in {"delete-ide3", "delete-ide2", "order-disk"}
        BY <1>1, <2>4, <3>1, <4>2 DEF Config, VMs
      <4> QED BY <3>4, <4>1, <4>2
    <3>8. pc >= 6 => guest' = guest
      BY <1>1, <2>2, <2>9, <3>2
    <3>7. /\ pc >= 6 => DiskReady
          /\ pc = 7 => op = "delete-ide3"
          /\ pc = 8 => op = "delete-ide2" /\ vm.ide3 = "empty"
          /\ pc = 9 => op = "order-disk" /\ vm.ide3 = "empty" /\ vm.ide2 = "empty"
      BY <2>1, <2>2, <2>6, <2>9, <3>2 DEF UpRunning
    <3>9. pc >= 6 => DiskReady'
      BY <3>5, <3>7, <3>8 DEF DiskReady
    <3> QED BY <1>1, <2>9, <3>2, <3>3, <3>5, <3>6, <3>7, <3>9 DEF UpRunning
  <2> QED BY <2>2, <2>7, <2>8, <2>9
<1> QED BY <1>2, <1>3 DEF UpInv

(* Every step keeps UpInv. *)
LEMMA UpStep ==
  ASSUME IInv, ClientInv, UpInv, [Next]_vars
  PROVE  UpInv'
<1>1. CASE UNCHANGED vars
  BY <1>1 DEF vars, cmdVars, pveVars, UpInv, UpRunning, UpDone, Worked, DiskReady
<1>2. ASSUME NEW c \in Commands, Begin(c) PROVE UpInv'
  <2>1. pc' = 1 /\ wait' = "no" /\ res' = "none"
    BY <1>2 DEF Begin
  <2>2. Worked' = 0
    BY <2>1 DEF Worked
  <2> QED BY <2>1, <2>2 DEF UpInv, UpRunning, UpDone
<1>3. CASE cmd = "up" /\ (Look \/ Misread \/ LookFails \/ Answered \/ Lost \/ Kill)
  BY <1>3, UpClient
<1>4. CASE cmd # "up" /\ (Look \/ Misread \/ LookFails \/ Answered \/ Lost \/ Kill)
  <2>1. cmd # "none"
    BY <1>4 DEF Look, Misread, LookFails, Answered, Lost, Kill
  <2>2. Proceed \/ End("err") \/ End("nil") \/ End("killed")
    BY <1>4 DEF Look, Misread, LookFails, Answered, Lost, Kill
  <2>3. CASE End("nil")
    BY <1>4, <2>1, <2>3 DEF End, ClientInv, UpInv, UpRunning, UpDone
  <2> QED BY <1>4, <2>1, <2>2, <2>3, OthersKeepUp
<1>5. CASE Issue /\ cmd = "up"
  BY <1>5, UpIssue
<1>6. CASE Issue /\ cmd # "up"
  BY <1>6, OthersKeepUp DEF Issue
<1>7. CASE Execute
  BY <1>7, UpExecute
<1>8. CASE TaskFails
  BY <1>8, UpTaskFails
<1>9. CASE Boot \/ PassesOverDisk \/ InstallDone \/ GuestReboot
  BY <1>9, UpGuest
<1> QED BY <1>1, <1>2, <1>3, <1>4, <1>5, <1>6, <1>7, <1>8, <1>9 DEF Next, Client, Guest

(* An up that returns nil leaves an installed VM without media that boots   *)
(* its disk (or, where the firmware passes over a slow disk, one that is    *)
(* being installed anew), for every set of commands, every number of faults *)
(* and every length of the queue (single_vm.go:310-331).                    *)
THEOREM UpInstalls == Spec => []UpNilMeansInstalled
<1>1. Init => ClientInv /\ UpInv
  BY DEF Init, ClientInv, UpInv, UpRunning, UpDone
<1>2. IInv /\ ClientInv /\ UpInv /\ [Next]_vars => ClientInv' /\ UpInv'
  BY ClientStep, UpStep
<1>3. IInv /\ UpInv => UpNilMeansInstalled
  BY DEF IInv, Types, TypeOK, VMs, UpInv, UpDone, DiskReady, UpNilMeansInstalled
<1> QED BY <1>1, <1>2, <1>3, Inductive, PTL DEF Spec
-----------------------------------------------------------------------------
Downs == {"down", "down-force"}

(* When the delete of a down has worked there is no VM; nothing is in the   *)
(* queue then that could bring it back.                                     *)
DownInv == cmd \in Downs /\ pc = 3 /\ wait = "ok" => vm.exists = "no"

(* The steps of down, by number. *)
LEMMA DownOps ==
  ASSUME Types, cmd \in Downs
  PROVE  /\ pc \in 1..3 /\ Len(Program(cmd)) = 3 /\ ~Unwatched(Op)
         /\ pc = 1 => Op = "present?"
         /\ pc = 2 => Op \in {"shutdown", "stop"} /\ Ignored(Op)
         /\ pc = 3 => Op = "delete" /\ ~Ignored(Op)
<1>1. \E a \in {"shutdown", "stop"} : Program(cmd) = <<"present?", a, "delete">>
  BY Programs DEF Downs
<1>2. pc \in 1..Len(Program(cmd))
  BY DEF Types, TypeOK, Downs
<1>3. pc \in 1..3 /\ Len(Program(cmd)) = 3
  BY <1>1, <1>2
<1>4. /\ pc = 1 => Op = "present?"
      /\ pc = 2 => Op \in {"shutdown", "stop"}
      /\ pc = 3 => Op = "delete"
  BY <1>1 DEF Op
<1> QED BY <1>3, <1>4 DEF Unwatched, Ignored, Downs

(* Every step keeps DownInv. *)
LEMMA DownStep ==
  ASSUME IInv, DownInv, [Next]_vars
  PROVE  DownInv'
<1>1. CASE UNCHANGED <<cmdVars, vm>>
  BY <1>1 DEF cmdVars, DownInv
<1>2. ASSUME NEW c \in Commands, Begin(c) PROVE DownInv'
  BY <1>2 DEF Begin, DownInv
<1>6. CASE Look \/ Misread \/ LookFails \/ Answered \/ Lost \/ Kill
  <2>1. Proceed \/ \E r \in {"nil", "err", "killed"} : End(r)
    BY <1>6 DEF Look, Misread, LookFails, Answered, Lost, Kill
  <2>2. wait' = "no"
    BY <2>1 DEF Proceed, End
  <2> QED BY <2>2 DEF DownInv
<1>7. CASE Issue
  <2>1. wait' # "ok"
    BY <1>7 DEF Issue, Proceed, End
  <2> QED BY <2>1 DEF DownInv
<1>8. CASE Execute
  <2> DEFINE op == Head(queue)
  <2>1. /\ op = queue[1] /\ Len(queue) \in Nat /\ op \in Calls /\ queue # <<>>
    BY <1>8, TailCall DEF Execute, IInv, Types
  <2>2. Notify("ok") /\ Possible(op) /\ vm' = Config(op) /\ UNCHANGED <<cmd, pc, last, res>>
    BY <1>8 DEF Execute
  <2>3. vm.exists # "no" /\ wait # "ok"
    BY <2>1, <2>2, ConfigTypes DEF IInv, QueueInv
  <2> HIDE DEF op
  <2>4. ASSUME cmd' \in Downs, pc' = 3, wait' = "ok" PROVE vm'.exists = "no"
    <3>1. wait = "queued" /\ Len(queue) = 1 /\ cmd \in Downs /\ pc = 3
      BY <2>2, <2>3, <2>4 DEF Notify
    <3>2. op = "delete"
      BY <2>1, <3>1, DownOps DEF IInv, QueueInv
    <3> QED BY <2>2, <3>2 DEF Config, NoVM
  <2> QED BY <2>2, <2>3, <2>4 DEF DownInv
<1>9. CASE TaskFails
  <2>1. /\ UNCHANGED <<cmd, pc, last, res>> /\ Notify("failed") /\ queue # <<>>
        /\ vm' = IF Head(queue) = "create" THEN NoVM ELSE vm
    BY <1>9 DEF TaskFails
  <2>2. wait' # "ok"
    BY <2>1 DEF Notify, IInv, QueueInv
  <2> QED BY <2>1, <2>2 DEF DownInv, NoVM
<1>10. CASE Boot \/ PassesOverDisk \/ InstallDone \/ GuestReboot
  BY <1>1, <1>10 DEF Boot, BootFrom, PassesOverDisk, InstallDone, GuestReboot, pveVars
<1>11. CASE UNCHANGED vars
  BY <1>1, <1>11 DEF vars, cmdVars, pveVars
<1> QED BY <1>2, <1>6, <1>7, <1>8, <1>9, <1>10, <1>11 DEF Next, Client, Guest

(* The only way a down that has found its VM returns nil is by its delete.  *)
LEMMA DownReturns ==
  ASSUME IInv, ClientInv, DownInv, [Next]_vars,
         pc > 1, cmd \in Downs, cmd' = "none", res' = "nil"
  PROVE  vm' = NoVM /\ queue' = <<>>
<1>1. /\ pc \in {2, 3} /\ Len(Program(cmd)) = 3 /\ ~Unwatched(Op) /\ cmd # "none" /\ res = "none"
      /\ pc = 2 => Op \in {"shutdown", "stop"}
      /\ pc = 3 => Op = "delete" /\ ~Ignored(Op)
  BY DownOps DEF IInv, ClientInv, Downs
<1>2. pc = 2 => ~Proceed
  <2>1. pc = 2 => pc # Len(Program(cmd))
    BY <1>1
  <2> QED BY <1>1, <2>1 DEF Proceed
<1>3. Answered /\ wait = "ok" /\ pc = 3
  <2>1. ~End("err") /\ ~End("killed")
    BY DEF End
  <2>2. ~(Look \/ Misread \/ LookFails)
    BY <1>1, <2>1 DEF Look, Misread, LookFails
  <2>3. ~(Lost \/ Kill \/ Issue)
    BY <1>1, <1>2, <2>1 DEF Lost, Kill, Issue
  <2>4. UNCHANGED cmd => FALSE
    BY <1>1
  <2>5. Answered
    BY <1>1, <2>2, <2>3, <2>4, BootDoes
    DEF Next, Client, Guest, Begin, Execute, TaskFails, InstallDone, GuestReboot, vars, cmdVars, IInv
  <2> QED BY <1>1, <1>2, <2>1, <2>5 DEF Answered
<1>4. vm.exists = "no" /\ queue = <<>> /\ UNCHANGED <<vm, queue>>
  BY <1>3 DEF DownInv, Answered, pveVars, IInv, QueueInv
<1> QED BY <1>4 DEF IInv, MachineInv

(* A down that has found its VM and returns nil leaves no VM and no task    *)
(* that creates one, although it goes on when the stop failed               *)
(* (single_vm.go:334-351).                                                  *)
THEOREM DownRemoves == Spec => DownDeletes
<1>1. Init => ClientInv /\ DownInv
  BY DEF Init, ClientInv, DownInv, Downs
<1>2. IInv /\ ClientInv /\ DownInv /\ [Next]_vars => ClientInv' /\ DownInv'
  BY ClientStep, DownStep
<1>3. IInv /\ ClientInv /\ DownInv /\ [Next]_vars =>
        [pc > 1 /\ cmd \in {"down", "down-force"} /\ cmd' = "none" /\ res' = "nil" =>
           vm' = NoVM /\ ~Contains(queue', "create")]_vars
  BY DownReturns DEF Downs, Contains
<1> QED BY <1>1, <1>2, <1>3, Inductive, PTL DEF Spec, DownDeletes
-----------------------------------------------------------------------------
(* The steps after finalize has seen the installed system; two of them take *)
(* away what a blank VM boots.                                              *)
Finalizing == {"delete-ide3", "delete-ide2", "order-disk"}
Strips     == {"delete-ide2", "order-disk"}

(* A VM that is not installed keeps its install ISO in its boot order: what *)
(* would take it away is not in the queue, for a create comes behind every  *)
(* such task, and no finalize is under way.                                 *)
StripInv ==
  /\ vm.exists = "yes" /\ disk # "installed" =>
       /\ vm.ide2 = "install" /\ vm.boot # "disk"
       /\ \A j \in 1..Len(queue) : queue[j] \notin Strips
  /\ \A j, k \in 1..Len(queue) : queue[j] \in Strips /\ queue[k] = "create" => j < k
  /\ \A j \in 1..Len(queue) : queue[j] # "rollback"
  /\ cmd # "none" /\ Op \in Finalizing =>
       vm.exists # "creating" /\ (vm.exists = "yes" => disk = "installed")
  /\ wait # "no" => IsCall(Op)
  /\ guest # "nothing"

(* What comes next in a command. *)
LEMMA NextOp ==
  ASSUME Types, cmd # "none", Proceed
  PROVE  \/ cmd' = "none"
         \/ cmd' = cmd /\ ~Unwatched(Op) /\ (Op' \in Finalizing => Op \in Finalizing \cup {"ssh"})
<1>1. cmd \in AllCommands /\ pc \in 1..Len(Program(cmd)) /\ Len(Program(cmd)) \in Nat \ {0}
  BY OpTypes
<1>2. CASE pc = Len(Program(cmd))
  BY <1>2 DEF Proceed, End
<1>3. CASE pc # Len(Program(cmd))
  <2>1. cmd' = cmd /\ pc' = pc + 1 /\ Op' = Program(cmd)[pc + 1]
    BY <1>3 DEF Proceed, Op
  <2>2. CASE cmd \in {"up", "vm-create"}
    <3>1. pc \in 1..9 /\ Len(Program(cmd)) = 9 /\ ~Unwatched(Op) /\ Op' = Up[pc + 1]
      BY <2>1, <2>2, UpOps, Programs
    <3>2. pc # 9
      BY <1>3, <3>1
    <3>3. CASE pc \in 1..5
      <4>1. Op' \in {"create", "attach", "order", "start", "ssh"}
        BY <3>1, <3>3, UpSteps
      <4> QED BY <2>1, <3>1, <4>1 DEF Finalizing
    <3>4. CASE pc \in 6..8
      <4>1. Op \in {"ssh", "delete-ide3", "delete-ide2"}
        BY <2>2, <3>4, UpOps
      <4> QED BY <2>1, <3>1, <4>1 DEF Finalizing
    <3> QED BY <3>1, <3>2, <3>3, <3>4
  <2>3. CASE cmd = "finalize"
    <3>1. pc \in 1..4 /\ Len(Program(cmd)) = 4 /\ Op = Finalize[pc]
      BY <1>1, <2>3, Programs, LongPrograms DEF Op
    <3>2. pc # 4
      BY <1>3, <3>1
    <3>3. Op \in {"ssh", "delete-ide3", "delete-ide2"}
      BY <3>1, <3>2 DEF Finalize
    <3> QED BY <2>1, <3>3 DEF Finalizing, Unwatched
  <2>4. CASE cmd = "up-skip-finalize"
    <3>1. pc \in 1..5 /\ Len(Program(cmd)) = 5 /\ Op = Apply[pc] /\ Op' = Apply[pc + 1]
      BY <1>1, <2>1, <2>4, Programs, LongPrograms DEF Op
    <3>2. pc # 5
      BY <1>3, <3>1
    <3>3. Op \in {"absent?", "create", "attach", "order"}
      BY <3>1, <3>2 DEF Apply
    <3>4. Op' \in {"create", "attach", "order", "start"}
      BY <3>1, <3>2 DEF Apply
    <3> QED BY <2>1, <3>3, <3>4 DEF Finalizing, Unwatched
  <2>5. CASE cmd \in Downs
    <3>1. \E a \in {"shutdown", "stop"} : Program(cmd) = <<"present?", a, "delete">>
      BY <2>5, Programs DEF Downs
    <3>2. pc \in 1..3 /\ Len(Program(cmd)) = 3 /\ ~Unwatched(Op)
      BY <2>5, DownOps
    <3>3. pc # 3
      BY <1>3, <3>2
    <3>4. Op' \in {"shutdown", "stop", "delete"}
      BY <2>1, <3>1, <3>2, <3>3
    <3> QED BY <2>1, <3>2, <3>4 DEF Finalizing
  <2>6. CASE cmd \notin {"up", "vm-create", "finalize", "up-skip-finalize"} \cup Downs
    <3>1. \E a \in Ops : Program(cmd) = <<a>>
      BY <1>1, <2>6, Programs DEF AllCommands, Downs, Ops, Looks, Calls
    <3>2. Len(Program(cmd)) = 1 /\ pc \in 1..1
      BY <1>1, <3>1, ShortPrograms
    <3> QED BY <1>3, <3>2
  <2> QED BY <2>2, <2>3, <2>4, <2>5, <2>6
<1> QED BY <1>2, <1>3

(* No command begins by finalizing. *)
LEMMA FirstOp ==
  ASSUME NEW c \in AllCommands
  PROVE  Program(c)[1] \notin Finalizing
<1>1. CASE c \in {"up", "vm-create"}
  BY <1>1, Programs, UpSteps DEF Finalizing
<1>2. CASE c = "up-skip-finalize"
  <2>1. Program(c)[1] = "absent?"
    BY <1>2, Programs DEF Apply
  <2> QED BY <2>1 DEF Finalizing
<1>3. CASE c = "finalize"
  <2>1. Program(c)[1] = "ssh"
    BY <1>3, Programs DEF Finalize
  <2> QED BY <2>1 DEF Finalizing
<1>4. CASE c \in Downs
  <2>1. \E a \in {"shutdown", "stop"} : Program(c) = <<"present?", a, "delete">>
    BY <1>4, Programs DEF Downs
  <2>2. Program(c)[1] = "present?"
    BY <2>1
  <2> QED BY <2>2 DEF Finalizing
<1>5. CASE c \notin {"up", "vm-create", "finalize", "up-skip-finalize"} \cup Downs
  <2>1. \E a \in {"start", "reboot", "delete", "shutdown", "stop", "iso-first", "empty-ide3",
                  "snapshot", "rollback", "delsnapshot"} : Program(c) = <<a>>
    BY <1>5, Programs DEF AllCommands, Downs
  <2>2. Program(c)[1] \in {"start", "reboot", "delete", "shutdown", "stop", "iso-first",
                           "empty-ide3", "snapshot", "rollback", "delsnapshot"}
    BY <2>1
  <2> QED BY <2>2 DEF Finalizing
<1> QED BY <1>1, <1>2, <1>3, <1>4, <1>5

(* Only snapshot restore asks for a rollback. *)
LEMMA RollbackOp ==
  ASSUME Types, cmd # "none", Op = "rollback"
  PROVE  cmd = "snapshot-restore"
<1>1. cmd \in AllCommands /\ pc \in 1..Len(Program(cmd))
  BY OpTypes
<1>2. CASE cmd \in {"up", "vm-create"}
  BY <1>2, UpOps
<1>3. CASE cmd = "up-skip-finalize"
  <2>1. Op = Apply[pc] /\ pc \in 1..5
    BY <1>1, <1>3, Programs, LongPrograms DEF Op
  <2> QED BY <2>1 DEF Apply
<1>4. CASE cmd = "finalize"
  <2>1. Op = Finalize[pc] /\ pc \in 1..4
    BY <1>1, <1>4, Programs, LongPrograms DEF Op
  <2> QED BY <2>1 DEF Finalize
<1>5. CASE cmd \in Downs
  <2>1. Op \in {"present?", "shutdown", "stop", "delete"}
    BY <1>5, DownOps
  <2> QED BY <2>1
<1>6. CASE cmd \notin {"up", "vm-create", "finalize", "up-skip-finalize", "snapshot-restore"} \cup Downs
  <2>1. \E a \in Ops \ {"rollback"} : Program(cmd) = <<a>>
    BY <1>1, <1>6, Programs DEF AllCommands, Downs, Ops, Looks, Calls
  <2>2. Len(Program(cmd)) = 1
    BY <2>1, ShortPrograms
  <2>3. Op # "rollback"
    BY <1>1, <2>1, <2>2 DEF Op
  <2> QED BY <2>3
<1> QED BY <1>2, <1>3, <1>4, <1>5, <1>6

(* A command looks, goes on or ends. *)
LEMMA StripClient ==
  ASSUME IInv, StripInv, Look \/ Misread \/ LookFails \/ Answered \/ Lost \/ Kill
  PROVE  StripInv'
<1>1. cmd # "none" /\ UNCHANGED <<queue, vm, guest, disk>>
  BY DEF Look, Misread, LookFails, Answered, Lost, Kill, pveVars
<1>2. Proceed \/ \E r \in {"nil", "err", "killed"} : End(r)
  BY DEF Look, Misread, LookFails, Answered, Lost, Kill
<1>3. \A r \in {"nil", "err", "killed"} : End(r) => cmd' = "none"
  BY DEF End
<1>4. cmd' # "none" /\ Op' \in Finalizing => Proceed /\ Op \in Finalizing \cup {"ssh"}
  BY <1>1, <1>2, <1>3, NextOp DEF IInv
<1>5. Op = "ssh" /\ cmd' # "none" => vm.exists = "yes" /\ disk = "installed"
  <2>1. SUFFICES ASSUME Op = "ssh", cmd' # "none" PROVE vm.exists = "yes" /\ disk = "installed"
    OBVIOUS
  <2>2. wait = "no"
    BY <2>1 DEF StripInv, IsCall
  <2>3. Look
    BY <1>3, <2>1, <2>2 DEF Misread, LookFails, Answered, Lost, Kill
  <2>4. guest = "os"
    BY <2>1, <2>3 DEF Look
  <2> QED BY <2>4 DEF IInv, MachineInv
<1>6. wait' = "no"
  BY <1>1, <1>2, ProceedTypes DEF IInv
<1>7. cmd' # "none" /\ Op' \in Finalizing =>
        vm'.exists # "creating" /\ (vm'.exists = "yes" => disk' = "installed")
  BY <1>1, <1>4, <1>5 DEF StripInv
<1> QED BY <1>1, <1>6, <1>7 DEF StripInv

(* A command makes a call: a create joins the queue behind every other task. *)
LEMMA StripIssue ==
  ASSUME IInv, StripInv, Issue, "snapshot-restore" \notin Commands
  PROVE  StripInv'
<1>1. /\ cmd # "none" /\ IsCall(Op) /\ wait = "no" /\ Op \in Calls /\ Op # "rollback"
      /\ UNCHANGED <<guest, disk>>
  BY OpTypes, RollbackOp DEF Issue, IInv, Types
<1>2. CASE Refused(Op)
  <2>1. wait' = "failed" /\ UNCHANGED <<cmd, pc, queue, vm>>
    BY <1>2 DEF Issue
  <2> QED BY <1>1, <2>1 DEF StripInv, Op
<1>3. CASE ~Refused(Op)
  <2>1. /\ queue' = Append(queue, Op)
        /\ vm' = IF Op = "create" THEN [vm EXCEPT !.exists = "creating"] ELSE vm
        /\ \/ Unwatched(Op) /\ Proceed
           \/ ~Unwatched(Op) /\ wait' = "queued" /\ UNCHANGED <<cmd, pc, last, res>>
    BY <1>3 DEF Issue
  <2>2. /\ Len(queue) \in Nat /\ Len(queue') = Len(queue) + 1 /\ queue'[Len(queue) + 1] = Op
        /\ \A j \in 1..Len(queue) : queue'[j] = queue[j]
        /\ \A j \in 1..(Len(queue) + 1) : j \in 1..Len(queue) \/ j = Len(queue) + 1
    BY <1>1, <2>1, AppendCall DEF IInv, Types
  <2>3. (cmd' = "none" /\ wait' = "no") \/ (wait' = "queued" /\ cmd' = cmd /\ Op' = Op)
    BY <1>1, <2>1, NextOp, ProceedTypes DEF IInv, Op
  <2>4. CASE Op = "create"
    <3>1. vm.exists = "no" /\ vm'.exists = "creating"
      BY <1>3, <2>1, <2>4 DEF Refused, IInv, Types, TypeOK, VMs
    <3>2. \A j \in 1..Len(queue) : queue[j] # "create"
      BY <3>1 DEF IInv, QueueInv
    <3>3. \A j, k \in 1..Len(queue') : queue'[j] \in Strips /\ queue'[k] = "create" => j < k
      BY <2>2, <2>4, <3>2 DEF Strips
    <3>4. \A j \in 1..Len(queue') : queue'[j] # "rollback"
      BY <2>2, <2>4 DEF StripInv
    <3>5. cmd' # "none" => Op' \notin Finalizing
      BY <2>3, <2>4 DEF Finalizing
    <3> QED BY <1>1, <2>3, <3>1, <3>3, <3>4, <3>5 DEF StripInv, IsCall
  <2>5. CASE Op # "create"
    <3>1. vm' = vm
      BY <2>1, <2>5
    <3>2. vm.exists # "no"
      BY <1>3, <2>5 DEF Refused
    <3>3. Op \in Strips => vm.exists # "creating" /\ (vm.exists = "yes" => disk = "installed")
      BY <1>1 DEF StripInv, Strips, Finalizing
    <3>4. vm'.exists = "yes" /\ disk' # "installed" =>
            \A j \in 1..Len(queue') : queue'[j] \notin Strips
      BY <1>1, <2>2, <3>1, <3>3 DEF StripInv
    <3>5. \A j, k \in 1..Len(queue') : queue'[j] \in Strips /\ queue'[k] = "create" => j < k
      <4>1. SUFFICES ASSUME NEW j \in 1..Len(queue'), NEW k \in 1..Len(queue'),
                            queue'[j] \in Strips, queue'[k] = "create"
                     PROVE  j < k
        OBVIOUS
      <4>2. k \in 1..Len(queue) /\ queue[k] = "create"
        BY <2>2, <2>5, <4>1
      <4>3. vm.exists = "creating"
        BY <4>2 DEF IInv, QueueInv
      <4>4. j \in 1..Len(queue) /\ queue[j] \in Strips
        BY <2>2, <3>3, <4>1, <4>3
      <4> QED BY <4>2, <4>4 DEF StripInv
    <3>6. \A j \in 1..Len(queue') : queue'[j] # "rollback"
      BY <1>1, <2>2 DEF StripInv
    <3> QED BY <1>1, <2>3, <3>1, <3>4, <3>5, <3>6 DEF StripInv, IsCall
  <2> QED BY <2>4, <2>5
<1> QED BY <1>2, <1>3

(* What is left in the queue when its first task has gone. *)
LEMMA StripTail ==
  ASSUME IInv, StripInv, queue # <<>>, queue' = Tail(queue), NEW s \in {"ok", "failed"},
         Notify(s), UNCHANGED <<cmd, pc>>
  PROVE  /\ \A j \in 1..Len(queue') : queue'[j] \in Strips =>
              \E k \in 1..Len(queue) : queue[k] \in Strips
         /\ \A j, k \in 1..Len(queue') : queue'[j] \in Strips /\ queue'[k] = "create" => j < k
         /\ \A j \in 1..Len(queue') : queue'[j] # "rollback"
         /\ Head(queue) = "create" => \A j \in 1..Len(queue') : queue'[j] \notin Strips
         /\ wait' # "no" => IsCall(Op')
         /\ Head(queue) = queue[1] /\ 1 \in 1..Len(queue) /\ Head(queue) \in Calls
         /\ Head(queue) # "rollback" /\ Op' = Op
<1>1. /\ Len(queue') = Len(queue) - 1 /\ Len(queue) \in Nat
      /\ \A j \in 1..(Len(queue) - 1) : queue'[j] = queue[j + 1] /\ j + 1 \in 1..Len(queue)
      /\ Head(queue) = queue[1] /\ Head(queue) \in Calls /\ 1 \in 1..Len(queue)
  BY TailCall DEF IInv, Types
<1>2. \A j \in 1..Len(queue') : queue'[j] \in Strips => \E k \in 1..Len(queue) : queue[k] \in Strips
  BY <1>1
<1>3. \A j, k \in 1..Len(queue') : queue'[j] \in Strips /\ queue'[k] = "create" => j < k
  <2>1. SUFFICES ASSUME NEW j \in 1..Len(queue'), NEW k \in 1..Len(queue'),
                        queue'[j] \in Strips, queue'[k] = "create"
                 PROVE  j < k
    OBVIOUS
  <2>2. j + 1 \in 1..Len(queue) /\ k + 1 \in 1..Len(queue)
        /\ queue[j + 1] \in Strips /\ queue[k + 1] = "create"
    BY <1>1, <2>1
  <2>3. j + 1 < k + 1
    BY <2>2 DEF StripInv
  <2> QED BY <2>3
<1>4. Head(queue) = "create" => \A j \in 1..Len(queue') : queue'[j] \notin Strips
  <2>1. SUFFICES ASSUME Head(queue) = "create", NEW j \in 1..Len(queue'), queue'[j] \in Strips
                 PROVE  FALSE
    OBVIOUS
  <2>2. j + 1 \in 1..Len(queue) /\ queue[j + 1] \in Strips /\ queue[1] = "create"
    BY <1>1, <2>1
  <2>3. j + 1 < 1
    BY <1>1, <2>2 DEF StripInv
  <2> QED BY <1>1, <2>2, <2>3
<1>5. \A j \in 1..Len(queue') : queue'[j] # "rollback"
  BY <1>1 DEF StripInv
<1>6. Op' = Op /\ (wait' # "no" => wait # "no")
  BY DEF Notify, Op
<1>7. wait' # "no" => IsCall(Op')
  BY <1>6 DEF StripInv, IsCall
<1>8. Head(queue) # "rollback"
  BY <1>1 DEF StripInv
<1> QED BY <1>1, <1>2, <1>3, <1>4, <1>5, <1>6, <1>7, <1>8

(* The server carries a task out, or it fails. *)
LEMMA StripServer ==
  ASSUME IInv, DiskFirst, StripInv, Execute \/ TaskFails
  PROVE  StripInv'
<1> DEFINE op == Head(queue)
<1>1. /\ queue # <<>> /\ queue' = Tail(queue) /\ UNCHANGED <<cmd, pc>>
      /\ \E s \in {"ok", "failed"} : Notify(s)
  BY DEF Execute, TaskFails
<1>2. /\ \A j \in 1..Len(queue') : queue'[j] \in Strips =>
           \E k \in 1..Len(queue) : queue[k] \in Strips
      /\ \A j, k \in 1..Len(queue') : queue'[j] \in Strips /\ queue'[k] = "create" => j < k
      /\ \A j \in 1..Len(queue') : queue'[j] # "rollback"
      /\ op = "create" => \A j \in 1..Len(queue') : queue'[j] \notin Strips
      /\ wait' # "no" => IsCall(Op')
      /\ op = queue[1] /\ 1 \in 1..Len(queue) /\ op \in Calls
      /\ op # "rollback" /\ Op' = Op
  BY <1>1, StripTail
<1>3. /\ op # "iso-first"
      /\ op \in Strips /\ vm.exists = "yes" => disk = "installed"
      /\ op = "create" => vm.exists = "creating"
  BY <1>2 DEF DiskFirst, StripInv, IInv, QueueInv
<1> HIDE DEF op
<1>4. CASE Execute
  <2>1. /\ Possible(op) /\ vm' = Config(op)
        /\ disk' = CASE op \in {"create", "delete"} -> "blank"
                     [] op = "rollback"             -> snap.disk
                     [] OTHER                       -> disk
        /\ guest' = CASE op \in {"start", "reboot"}            -> "booting"
                      [] op \in {"stop", "shutdown", "rollback"} -> "off"
                      [] OTHER                                 -> guest
    BY <1>4 DEF Execute, op
  <2>2. /\ op # "create" => vm.exists = "yes"
        /\ op = "delete" => Config(op) = NoVM
        /\ vm \in VMs
    BY <1>2, <2>1, ConfigTypes DEF IInv, Types, TypeOK
  <2>3. guest' # "nothing"
    BY <2>1 DEF StripInv
  <2>4. CASE op = "create"
    <3>1. vm'.exists = "yes" /\ vm'.ide2 = "install" /\ vm'.boot = "default"
      BY <2>1, <2>4 DEF Config, NoVM
    <3>2. cmd # "none" => Op \notin Finalizing
      BY <1>3, <2>4 DEF StripInv
    <3> QED BY <1>1, <1>2, <2>3, <2>4, <3>1, <3>2 DEF StripInv
  <2>5. CASE op = "delete"
    <3>1. vm'.exists = "no"
      BY <2>1, <2>2, <2>5 DEF NoVM
    <3> QED BY <1>1, <1>2, <2>3, <3>1 DEF StripInv
  <2>6. CASE op \in Strips
    <3>1. disk' = "installed"
      BY <1>3, <2>1, <2>2, <2>6 DEF Strips
    <3>2. vm'.exists = "yes"
      BY <2>1, <2>2, <2>6 DEF Config, Strips, VMs
    <3> QED BY <1>1, <1>2, <2>3, <3>1, <3>2 DEF StripInv
  <2>7. CASE op \notin {"create", "delete"} \cup Strips
    <3>1. /\ vm.exists = "yes" /\ disk' = disk
          /\ vm'.exists = "yes" /\ vm'.ide2 = vm.ide2
          /\ vm'.boot = vm.boot \/ vm'.boot = "install"
      <4>1. CASE op \in {"attach", "order", "delete-ide3", "empty-ide3"}
        BY <2>1, <2>2, <4>1 DEF Config, VMs
      <4>2. CASE op \in Calls \ ({"create", "delete", "attach", "order", "delete-ide3",
                                  "empty-ide3", "iso-first", "rollback"} \cup Strips)
        BY <2>1, <2>2, <4>2 DEF Config, Strips
      <4> QED BY <1>2, <1>3, <2>7, <4>1, <4>2
    <3>2. vm'.exists = "yes" /\ disk' # "installed" =>
            /\ vm'.ide2 = "install" /\ vm'.boot # "disk"
            /\ \A j \in 1..Len(queue') : queue'[j] \notin Strips
      BY <1>2, <3>1 DEF StripInv
    <3>3. cmd' # "none" /\ Op' \in Finalizing =>
            vm'.exists # "creating" /\ (vm'.exists = "yes" => disk' = "installed")
      BY <1>1, <1>2, <3>1 DEF StripInv
    <3> QED BY <1>2, <2>3, <3>2, <3>3 DEF StripInv
  <2> QED BY <2>4, <2>5, <2>6, <2>7
<1>5. CASE TaskFails
  <2>1. /\ vm' = IF op = "create" THEN NoVM ELSE vm
        /\ UNCHANGED <<guest, disk>>
    BY <1>5 DEF TaskFails, op
  <2>2. CASE op = "create"
    <3>1. vm'.exists = "no"
      BY <2>1, <2>2 DEF NoVM
    <3> QED BY <1>1, <1>2, <2>1, <3>1 DEF StripInv
  <2>3. CASE op # "create"
    <3>1. vm' = vm
      BY <2>1, <2>3
    <3> QED BY <1>1, <1>2, <2>1, <3>1 DEF StripInv
  <2> QED BY <2>2, <2>3
<1> QED BY <1>4, <1>5

(* The guest boots: there is the disk, or the install ISO. *)
LEMMA StripGuest ==
  ASSUME IInv, DiskFirst, StripInv, ~SlowDisk,
         Boot \/ PassesOverDisk \/ InstallDone \/ GuestReboot
  PROVE  StripInv'
<1>1. UNCHANGED <<cmd, pc, wait, queue, vm>> /\ Op' = Op
  BY DEF Boot, BootFrom, PassesOverDisk, InstallDone, GuestReboot, cmdVars, pveVars, Op
<1>2. vm.exists = "yes" /\ vm.boot # "iso-first"
  BY DEF Boot, BootFrom, PassesOverDisk, InstallDone, GuestReboot, IInv, MachineInv, DiskFirst
<1>3. disk = "installed" => disk' = "installed"
  BY <1>2, GuestKeepsDisk DEF DiskReady
<1>4. Boots(FALSE) # "nothing"
  <2>1. CASE disk = "installed"
    BY <1>2, <2>1, BootsWhat DEF IInv
  <2>2. CASE disk # "installed"
    <3>1. vm.ide2 = "install" /\ vm.boot \in {"default", "install"}
      BY <1>2, <2>2 DEF StripInv, IInv, Types, TypeOK, VMs
    <3> QED BY <3>1, BootsWhat DEF IInv
  <2> QED BY <2>1, <2>2
<1>5. guest' # "nothing"
  BY <1>4, BootDoes DEF InstallDone, GuestReboot, IInv
<1>6. wait' # "no" => IsCall(Op')
  BY <1>1 DEF StripInv, IsCall
<1> QED BY <1>1, <1>3, <1>5, <1>6 DEF StripInv

(* Every step keeps StripInv. *)
LEMMA StripStep ==
  ASSUME IInv, DiskFirst, StripInv, "snapshot-restore" \notin Commands, ~SlowDisk, [Next]_vars
  PROVE  StripInv'
<1>1. CASE UNCHANGED vars
  BY <1>1 DEF vars, cmdVars, pveVars, StripInv, Op, IsCall
<1>2. ASSUME NEW c \in Commands, Begin(c) PROVE StripInv'
  <2>1. Op' \notin Finalizing
    BY <1>2, CommandsAssumption, FirstOp DEF Begin, Op
  <2>2. UNCHANGED <<queue, vm, guest, disk>> /\ wait' = "no"
    BY <1>2 DEF Begin, pveVars
  <2> QED BY <2>1, <2>2 DEF StripInv
<1>3. CASE Look \/ Misread \/ LookFails \/ Answered \/ Lost \/ Kill
  BY <1>3, StripClient
<1>4. CASE Issue
  BY <1>4, StripIssue
<1>5. CASE Execute \/ TaskFails
  BY <1>5, StripServer
<1>6. CASE Boot \/ PassesOverDisk \/ InstallDone \/ GuestReboot
  BY <1>6, StripGuest
<1> QED BY <1>1, <1>2, <1>3, <1>4, <1>5, <1>6 DEF Next, Client, Guest

(* Unless an operator puts the ISO first or rolls back under a finalize, or *)
(* the firmware passes over the disk, a guest always finds something to     *)
(* boot: no task that takes its install ISO or its place in the boot order  *)
(* away waits for a younger, blank VM (finalize.go:162-203).                *)
THEOREM GuestBoots ==
  ASSUME Commands \cap {"configure-first-boot", "snapshot-restore"} = {}, ~SlowDisk
  PROVE  Spec => []NeverStranded
<1>1. Init => DiskFirst /\ StripInv
  BY DEF Init, DiskFirst, StripInv, NoVM, NoSnap
<1>2. IInv /\ DiskFirst /\ StripInv /\ [Next]_vars => DiskFirst' /\ StripInv'
  BY DiskFirstStep, StripStep
<1>3. StripInv => NeverStranded
  BY DEF StripInv, NeverStranded
<1> QED BY <1>1, <1>2, <1>3, Inductive, PTL DEF Spec
=============================================================================
