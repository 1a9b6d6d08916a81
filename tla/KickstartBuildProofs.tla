------------------------ MODULE KickstartBuildProofs ------------------------
(***************************************************************************)
(* What KickstartBuild and KernelCmdline promise for any processes, hosts, *)
(* directories, command lines and boot menus.                              *)
(***************************************************************************)
EXTENDS KickstartBuild, WellFoundedInduction, SequenceTheorems, TLAPS

(* There is a first separator where there is one. *)
LEMMA FirstSeparator ==
  ASSUME NEW line, Separators(line) # {}, Len(line) \in Nat
  PROVE  \E i \in Separators(line) : \A j \in Separators(line) : i <= j
<1> DEFINE less == OpToRel(<, Nat)
<1>1. Separators(line) \subseteq Nat
  BY DEF Separators
<1>2. \E i \in Separators(line) : \A j \in Separators(line) : <<j, i>> \notin less
  <2> HIDE DEF less
  <2> QED BY <1>1, NatLessThanWellFounded, WFMin DEF less
<1>3. ASSUME NEW i \in Nat, NEW j \in Nat, <<j, i>> \notin less
      PROVE  i <= j
  BY <1>3 DEF OpToRel
<1> HIDE DEF less
<1> QED BY <1>1, <1>2, <1>3

(* The arguments go behind the verb and the word that follows it, and in    *)
(* front of every separator that comes later.                               *)
LEMMA CutPlace ==
  ASSUME NEW Token, NEW line \in Seq(Token), IsBootLine(line)
  PROVE  /\ Cut(line) \in 2..Len(line)
         /\ \A j \in 3..Cut(line) : line[j] # Separator
<1>1. Len(line) \in Nat /\ Len(line) > 1
  BY DEF IsBootLine
<1>2. \A j \in 3..Len(line) : j \notin Separators(line) => line[j] # Separator
  BY DEF Separators
<1>3. CASE Separators(line) = {}
  BY <1>1, <1>2, <1>3 DEF Cut
<1>4. CASE Separators(line) # {}
  <2> DEFINE i == CHOOSE i \in Separators(line) : \A j \in Separators(line) : i <= j
  <2>1. i \in Separators(line) /\ \A j \in Separators(line) : i <= j
    BY <1>1, <1>4, FirstSeparator
  <2>2. i \in 3..Len(line)
    BY <2>1 DEF Separators
  <2>3. Cut(line) = i - 1
    BY <1>4 DEF Cut
  <2> HIDE DEF i
  <2>4. \A j \in 3..(i - 1) : line[j] # Separator
    BY <1>1, <1>2, <2>1, <2>2
  <2> QED BY <1>1, <2>2, <2>3, <2>4
<1> QED BY <1>3, <1>4

(* The line with the arguments in it. *)
LEMMA Injected ==
  ASSUME NEW Token, NEW line \in Seq(Token), Args \in Seq(Token), IsBootLine(line)
  PROVE  /\ InjectBeforeSeparator(line) \in Seq(Token)
         /\ Len(InjectBeforeSeparator(line)) = Len(line) + 2
         /\ \A j \in 1..Cut(line) : InjectBeforeSeparator(line)[j] = line[j]
         /\ InjectBeforeSeparator(line)[Cut(line) + 1] = Args[1]
         /\ InjectBeforeSeparator(line)[Cut(line) + 2] = Args[2]
<1> DEFINE c == Cut(line)
           head == SubSeq(line, 1, c)
           tail == SubSeq(line, c + 1, Len(line))
           front == head \o Args
<1>1. c \in 2..Len(line)
  BY CutPlace
<1>2. InjectBeforeSeparator(line) = front \o tail
  BY DEF InjectBeforeSeparator
<1> HIDE DEF c
<1>3. /\ head \in Seq(Token) /\ Len(head) = c
      /\ \A j \in 1..c : head[j] = line[j]
  BY <1>1, SubSeqProperties
<1>4. tail \in Seq(Token) /\ Len(tail) = Len(line) - c
  BY <1>1, SubSeqProperties
<1>5. Args \in Seq(Token) /\ Len(Args) = 2
  BY DEF Args
<1> HIDE DEF head, tail
<1>6. /\ front \in Seq(Token) /\ Len(front) = c + 2
      /\ \A j \in 1..c : front[j] = head[j]
      /\ front[c + 1] = Args[1] /\ front[c + 2] = Args[2]
  <2>1. /\ head \o Args \in Seq(Token)
        /\ Len(head \o Args) = Len(head) + Len(Args)
        /\ \A j \in 1..(Len(head) + Len(Args)) :
             (head \o Args)[j] = IF j <= Len(head) THEN head[j] ELSE Args[j - Len(head)]
    BY <1>3, <1>5, ConcatProperties
  <2> QED BY <1>1, <1>3, <1>5, <2>1
<1> HIDE DEF front
<1>7. /\ front \o tail \in Seq(Token)
      /\ Len(front \o tail) = Len(front) + Len(tail)
      /\ \A j \in 1..(Len(front) + Len(tail)) :
           (front \o tail)[j] = IF j <= Len(front) THEN front[j] ELSE tail[j - Len(front)]
  BY <1>4, <1>6, ConcatProperties
<1> DEFINE new == front \o tail
<1> HIDE DEF new
<1>8. new \in Seq(Token) /\ Len(new) = Len(line) + 2
  BY <1>1, <1>4, <1>6, <1>7 DEF new
<1>9. \A j \in 1..(c + 2) : new[j] = front[j]
  BY <1>1, <1>4, <1>6, <1>7 DEF new
<1>10. \A j \in 1..c : new[j] = line[j]
  <2>1. \A j \in 1..c : j \in 1..(c + 2)
    BY <1>1
  <2> QED BY <1>3, <1>6, <1>9, <2>1
<1>11. new[c + 1] = Args[1] /\ new[c + 2] = Args[2]
  <2>1. c + 1 \in 1..(c + 2) /\ c + 2 \in 1..(c + 2)
    BY <1>1
  <2> QED BY <1>6, <1>9, <2>1
<1> QED BY <1>2, <1>8, <1>10, <1>11 DEF new, c

(* ubuntu_iso_builder.go:199-236: a patched boot line makes the live system *)
(* install unattended if and only if it did so before, or said nothing of   *)
(* autoinstall and has a kernel in front of the separator.                  *)
THEOREM PatchedIsUnattended ==
  ASSUME NEW Token, NEW line \in Seq(Token), Args \in Seq(Token), IsBootLine(line)
  PROVE  /\ Patch(line) \in Seq(Token)
         /\ Unattended(Patch(line)) <=> Patchable(line)
<1>1. CASE Mentions(line)
  BY <1>1 DEF Patch, Patchable
<1>2. CASE ~Mentions(line)
  <2> DEFINE c == Cut(line)
             new == InjectBeforeSeparator(line)
  <2>1. Patch(line) = new
    BY <1>2 DEF Patch
  <2>2. c \in 2..Len(line) /\ \A j \in 3..c : line[j] # Separator
    BY CutPlace
  <2>3. /\ new \in Seq(Token) /\ Len(new) = Len(line) + 2
        /\ \A j \in 1..c : new[j] = line[j]
        /\ new[c + 1] = Args[1] /\ new[c + 2] = Args[2]
    BY Injected
  <2> HIDE DEF c, new
  <2>4. /\ line[1] # Separator /\ line[1] # Args[1] /\ Args[1] # Separator
    BY DEF IsBootLine, Verbs, Args, Separator
  <2>5. ~Unattended(line)
    <3> SUFFICES ASSUME NEW k \in 1..Len(line) - 1, line[k] = Args[1] PROVE FALSE
      BY DEF Unattended
    <3>1. k \in 2..Len(line)
      BY <2>4
    <3> QED BY <1>2, <3>1, MentioningAssumption DEF Mentions
  <2>6. ASSUME line[2] # Separator PROVE Unattended(new)
    <3>1. \A j \in 1..(c + 1) : new[j] # Separator
      <4>1. \A j \in 1..c : line[j] # Separator
        BY <2>2, <2>4, <2>6
      <4>2. \A j \in 1..(c + 1) : j \in 1..c \/ j = c + 1
        BY <2>2
      <4> QED BY <2>3, <2>4, <4>1, <4>2
    <3>2. c + 1 \in 1..Len(new) - 1 /\ c + 1 + 1 = c + 2
      BY <2>2, <2>3
    <3>3. new[c + 1] = Args[1] /\ new[c + 1 + 1] = Args[2]
      BY <2>3, <3>2
    <3> QED BY <3>1, <3>2, <3>3 DEF Unattended
  <2>7. ASSUME line[2] = Separator PROVE ~Unattended(new)
    <3>1. new[1] = line[1] /\ new[2] = Separator
      <4>1. 1 \in 1..c /\ 2 \in 1..c
        BY <2>2
      <4> QED BY <2>3, <2>7, <4>1
    <3> SUFFICES ASSUME NEW k \in 1..Len(new) - 1, new[k] = Args[1],
                        \A j \in 1..k : new[j] # Separator
                 PROVE  FALSE
      BY DEF Unattended
    <3>2. k # 1
      BY <2>4, <3>1
    <3>3. 2 \in 1..k
      BY <3>2
    <3> QED BY <3>1, <3>3
  <2>8. Patchable(line) <=> line[2] # Separator
    BY <1>2, <2>5 DEF Patchable
  <2> QED BY <2>1, <2>3, <2>6, <2>7, <2>8
<1> QED BY <1>1, <1>2
-----------------------------------------------------------------------------
(* The steps a process takes for one node, in three stages: nothing of the  *)
(* new ISO yet; the tool; the finished ISO.                                 *)
Before   == {"render", "cidata", "ubuntu", "mkextract", "patch", "mkdir", "stage", "unlink"}
Building == {"tool", "writing"}
Behind   == {"move", "copying", "hand-over", "upload", "uploaded"}
Steps    == {"idle", "checks", "bootloader", "extract", "label", "outdir", "next", "done"}
            \cup Before \cup Building \cup Behind

Types ==
  /\ TypeOK
  /\ pc \in [Procs -> Steps]
  /\ menu = [p \in Procs |-> menu[p]]

(* Where a process is, and what it has in hand.                             *)
Control(p) ==
  /\ res[p] # "none" <=> pc[p] = "done"
  /\ pc[p] = "idle" <=> cmd[p] = None
  /\ pc[p] = "idle" => \A k : <<p, k>> \notin scratch
  /\ cmd[p] # None => todo[p] \subseteq cmd[p].hosts
  /\ pc[p] \in Before \cup Building \cup Behind => cur[p] \in cmd[p].hosts \ todo[p]
  /\ pc[p] \in {"checks", "bootloader", "extract", "label", "outdir"} => todo[p] = cmd[p].hosts
  /\ pc[p] \in {"mkdir", "stage", "unlink"} => cmd[p].kind # "ubuntu"
  /\ pc[p] = "copying" => reads[p] \in Inodes

(* The build directory is there from mkdir to the end of the tool.          *)
BuildDirInv(p) ==
  /\ built[p] \cap todo[p] = {}
  /\ pc[p] = "idle" => built[p] = {}
  /\ cmd[p] # None => built[p] \subseteq cmd[p].hosts
  /\ pc[p] \in Before \cup Building => cur[p] \notin built[p]
  /\ <<p, "build">> \in scratch =>
       pc[p] \in {"stage", "unlink", "tool", "writing", "done"} /\ cur[p] \notin built[p]
  /\ res[p] \in {"nil", "err"} => \A k \in Deferred : <<p, k>> \notin scratch

(* The menu of GRUB is patched line by line before an ISO is written.       *)
MenuInv(p) ==
  (cmd[p] # None /\ cmd[p].kind = "ubuntu") =>
    /\ menu[p] = [source |-> menu[p].source, new |-> menu[p].new]
    /\ "grub.cfg" \in DOMAIN menu[p].source
    /\ menu[p].source["grub.cfg"] \in Seq(Seq(Tokens))
    /\ pc[p] \in Building \cup Behind \/ (pc[p] = "next" /\ todo[p] # cmd[p].hosts)
         \/ res[p] = "nil"
       => menu[p].new["grub.cfg"] = PatchLines(menu[p].source["grub.cfg"])

IInv == Types /\ \A p \in Procs : Control(p) /\ BuildDirInv(p) /\ MenuInv(p)

(* Every process starts in the invariant. *)
LEMMA InitIInv == Init => IInv
<1> SUFFICES ASSUME Init PROVE IInv
  OBVIOUS
<1> USE CommandsAssumption DEF Init
<1>1. Types
  BY DEF Types, TypeOK, Steps, Contents, Empty
<1>2. ASSUME NEW p \in Procs
      PROVE  Control(p) /\ BuildDirInv(p) /\ MenuInv(p)
  BY DEF Control, BuildDirInv, MenuInv, Before, Building, Behind
<1> QED BY <1>1, <1>2 DEF IInv

Temps == {"bootloader", "build", "cidata", "extract", "ubuntu", "stack-iso"}

ControlTypes == /\ pc \in [Procs -> Steps]
                /\ res \in [Procs -> {"none", "nil", "err", "killed"}]
                /\ scratch \subseteq Procs \X Temps

(* A command returns. *)
LEMMA ReturnTypes ==
  ASSUME Types, NEW p \in Procs, NEW r \in {"nil", "err"}, Return(p, r)
  PROVE  ControlTypes'
<1>1. pc' \in [Procs -> Steps]
  BY DEF Types, Return, Step, Steps
<1>2. res' \in [Procs -> {"none", "nil", "err", "killed"}]
  BY DEF Types, TypeOK, Return
<1>3. scratch' \subseteq scratch
  BY DEF Return
<1> QED BY <1>1, <1>2, <1>3 DEF Types, TypeOK, ControlTypes, Temps

(* A command goes on to its next step. *)
LEMMA MoveOnTypes ==
  ASSUME Types, NEW p \in Procs, NEW s \in Steps, Step(p, s), UNCHANGED res,
         \/ UNCHANGED scratch
         \/ \E k \in Temps : MkdirTemp(p, k) \/ RemoveAll(p, k)
  PROVE  ControlTypes'
<1>1. pc' \in [Procs -> Steps]
  BY DEF Types, Step
<1>2. scratch' \subseteq Procs \X Temps
  BY DEF Types, TypeOK, Temps, MkdirTemp, RemoveAll
<1> QED BY <1>1, <1>2 DEF Types, TypeOK, ControlTypes

(* A step that changes nothing but the control keeps the types.             *)
LEMMA QuietTypes ==
  ASSUME Types, ControlTypes', TmpKept, UNCHANGED <<at, data>>
  PROVE  Types'
BY DEF Types, TypeOK, ControlTypes, Temps, TmpKept, ghosts

(* The steps that only go on or fail keep the types. *)
LEMMA PlainTypes ==
  ASSUME Types, NEW p \in Procs, NEW from, NEW to \in Steps, Plain(p, from, to)
  PROVE  Types'
<1>1. ControlTypes' /\ UNCHANGED <<at, data>>
  BY ReturnTypes, MoveOnTypes DEF Plain, Fail, fsVars
<1> QED BY <1>1, QuietTypes DEF Plain

(* A temporary directory is made. *)
LEMMA MakesTypes ==
  ASSUME Types, NEW p \in Procs, NEW from, NEW kind \in Temps, NEW to \in Steps,
         Makes(p, from, kind, to)
  PROVE  Types'
<1>1. ControlTypes' /\ UNCHANGED <<at, data>>
  BY ReturnTypes, MoveOnTypes DEF Makes, Fail
<1> QED BY <1>1, QuietTypes DEF Makes

(* The paths of the node at hand. *)
LEMMA PathTypes ==
  ASSUME Types, NEW p \in Procs, Control(p), pc[p] \in Before \cup Building \cup Behind
  PROVE  /\ cmd[p] \in Commands /\ cur[p] \in Hosts
         /\ BuildRoot(p) \in Dirs \cup Procs /\ OutDir(p) \in Dirs \cup Procs
         /\ Src(p) \in Paths /\ Dest(p) \in Paths
<1>1. cmd[p] \in Commands /\ cur[p] \in Hosts
  BY CommandsAssumption DEF Types, TypeOK, Control, Before, Building, Behind
<1>2. BuildRoot(p) \in Dirs \cup Procs
  BY <1>1, CommandsAssumption DEF BuildRoot
<1>3. OutDir(p) \in Dirs \cup Procs
  BY <1>1, <1>2, CommandsAssumption DEF OutDir
<1> QED BY <1>1, <1>2, <1>3 DEF Src, Dest, Paths

(* What the tool and the copy leave in a file, and what is handed over.     *)
LEMMA DataTypes ==
  ASSUME NEW f \in [Inodes -> Contents]
  PROVE  /\ \A i \in Inodes, p \in Procs :
              [f EXCEPT ![i] = [by |-> f[i].by \cup {p}, whole |-> TRUE]] \in [Inodes -> Contents]
         /\ \A i, j \in Inodes :
              [f EXCEPT ![i] = [by |-> f[i].by \cup f[j].by, whole |-> f[j].whole]]
                \in [Inodes -> Contents]
<1>1. \A c \in Contents, p \in Procs : [by |-> c.by \cup {p}, whole |-> TRUE] \in Contents
  BY DEF Contents
<1>2. \A c, d \in Contents : [by |-> c.by \cup d.by, whole |-> d.whole] \in Contents
  BY DEF Contents
<1> QED BY <1>1, <1>2

(* Those that open a file meet those that write it. *)
LEMMA MeetsTypes ==
  ASSUME met \in [Procs -> SUBSET Procs], NEW p \in Procs, NEW i
  PROVE  /\ Meets(p, i) \in [Procs -> SUBSET Procs]
         /\ \A q \in Procs : met[q] \subseteq Meets(p, i)[q]
         /\ Writers(p, i) \subseteq Meets(p, i)[p]
         /\ \A q \in Writers(p, i) : p \in Meets(p, i)[q]
<1>1. p \notin Writers(p, i) /\ Writers(p, i) \subseteq Procs
  BY DEF Writers
<1> QED BY <1>1 DEF Meets

(* A file is written. *)
LEMMA GotTypes ==
  ASSUME NEW f \in [Procs -> [Hosts -> Contents]], NEW p \in Procs, NEW h, NEW c \in Contents
  PROVE  [f EXCEPT ![p][h] = c] \in [Procs -> [Hosts -> Contents]]
<1>1. [f[p] EXCEPT ![h] = c] \in [Hosts -> Contents]
  OBVIOUS
<1> QED BY <1>1

(* Every step keeps the types. *)
LEMMA StepTypes ==
  ASSUME IInv, NEW p \in Procs, Run(p) \/ Kill(p) \/ \E c \in Commands : Begin(p, c)
  PROVE  Types'
<1>0. Types /\ Control(p)
  BY DEF IInv
<1>1. ASSUME NEW c \in Commands, Begin(p, c) PROVE Types'
  BY <1>0, <1>1, CommandsAssumption DEF Begin, Step, Types, TypeOK, fsVars, Steps
<1>2. CASE Kill(p)
  BY <1>0, <1>2 DEF Kill, Step, Types, TypeOK, fsVars, TmpKept, ghosts, Steps
<1>3. CASE Checks(p) \/ ExtractBootloader(p) \/ ReadVolumeLabel(p) \/ Render(p) \/ Stage(p)
  BY <1>0, <1>3, PlainTypes DEF Checks, ExtractBootloader, ReadVolumeLabel, Render, Stage,
     Steps, Before
<1>4. CASE MakeBootloaderDir(p) \/ MakeBuildDir(p) \/ MakeCidata(p) \/ MakeScratch(p)
           \/ MakeExtract(p)
  BY <1>0, <1>4, MakesTypes DEF MakeBootloaderDir, MakeBuildDir, MakeCidata, MakeScratch,
     MakeExtract, Steps, Before, Temps
<1>5. CASE MakeOutDir(p)
  BY <1>0, <1>5, PlainTypes, MakesTypes DEF MakeOutDir, Steps, Temps
<1>6. CASE NextNode(p)
  BY <1>0, <1>6 DEF NextNode, Step, Types, TypeOK, fsVars, Steps, Before
<1>7. CASE AllDone(p)
  BY <1>0, <1>7, ReturnTypes, QuietTypes DEF AllDone
<1>8. CASE Unlink(p)
  <2>1. ControlTypes'
    BY <1>0, <1>8, MoveOnTypes DEF Unlink, Steps, Building
  <2>2. at' \in [Paths -> Inodes \cup {None}]
    BY <1>0, <1>8 DEF Unlink, RemoveStale, Types, TypeOK
  <2>3. met' \in [Procs -> SUBSET Procs]
    <3>1. at[Src(p)] # None => at[Src(p)][1] \in Procs
      <4>1. Src(p) \in Paths
        BY <1>0, <1>8, PathTypes DEF Unlink, Before
      <4> QED BY <1>0, <4>1 DEF Types, TypeOK, Inodes
    <3>2. met \in [Procs -> SUBSET Procs]
      BY <1>0 DEF Types, TypeOK
    <3>3. CASE UNCHANGED met
      BY <3>2, <3>3
    <3>4. CASE ~UNCHANGED met
      <4>1. /\ at[Src(p)] # None
            /\ met' = [met EXCEPT ![p] = @ \cup {at[Src(p)][1]}]
        BY <1>8, <3>4 DEF Unlink
      <4>2. PICK q \in Procs : q = at[Src(p)][1]
        BY <3>1, <4>1
      <4>3. met' = [met EXCEPT ![p] = @ \cup {q}]
        BY <4>1, <4>2
      <4> QED BY <3>2, <4>3
    <3> QED BY <3>3, <3>4
  <2> QED BY <1>0, <1>8, <2>1, <2>2, <2>3 DEF Unlink, Types, TypeOK, ControlTypes, Temps
<1>9. CASE ToolStarts(p)
  <2>1. CASE Fail(p) /\ UNCHANGED <<handle, met>>
    BY <1>0, <1>9, <2>1, ReturnTypes, QuietTypes DEF ToolStarts, Fail, TmpKept, ghosts
  <2>2. CASE ~(Fail(p) /\ UNCHANGED <<handle, met>>)
    <3> DEFINE i == IF at[Src(p)] = None THEN <<p, cur[p], "built">> ELSE at[Src(p)]
    <3>1. Src(p) \in Paths /\ cur[p] \in Hosts
      BY <1>0, <1>9, PathTypes DEF ToolStarts, Building
    <3>2. i \in Inodes
      BY <1>0, <3>1 DEF Types, TypeOK, Inodes
    <3>3. /\ at' = [at EXCEPT ![Src(p)] = i]
          /\ \E b \in {{p}, data[i].by \cup {p}} :
               data' = [data EXCEPT ![i] = [by |-> b, whole |-> FALSE]]
          /\ handle' = [handle EXCEPT ![p] = i] /\ met' = Meets(p, i)
          /\ Step(p, "writing") /\ UNCHANGED <<res, scratch>>
      BY <1>9, <2>2 DEF ToolStarts
    <3> HIDE DEF i
    <3>7. met' \in [Procs -> SUBSET Procs]
      BY <1>0, <3>3, MeetsTypes DEF Types, TypeOK
    <3>4. ControlTypes'
      BY <1>0, <3>3, MoveOnTypes DEF Steps, Building
    <3>5. /\ at' \in [Paths -> Inodes \cup {None}] /\ handle' \in [Procs -> Inodes \cup {None}]
      BY <1>0, <3>2, <3>3 DEF Types, TypeOK
    <3>6. data' \in [Inodes -> Contents]
      <4>1. PICK b \in {{p}, data[i].by \cup {p}} :
                data' = [data EXCEPT ![i] = [by |-> b, whole |-> FALSE]]
        BY <3>3
      <4>2. [by |-> b, whole |-> FALSE] \in Contents
        BY <1>0, <3>2 DEF Types, TypeOK, Contents
      <4> QED BY <1>0, <4>1, <4>2 DEF Types, TypeOK
    <3> QED BY <1>0, <1>9, <3>4, <3>5, <3>6, <3>7
            DEF ToolStarts, Types, TypeOK, ControlTypes, Temps
  <2> QED BY <2>1, <2>2
<1>10. CASE ToolEnds(p)
  <2>1. ControlTypes'
    BY <1>0, <1>10, ReturnTypes, MoveOnTypes DEF ToolEnds, Fail, Steps, Behind, Temps
  <2>2. data' \in [Inodes -> Contents] /\ UNCHANGED at
    <3>1. data' = data \/ data' = [data EXCEPT ![handle[p]] =
                                    [by |-> data[handle[p]].by \cup {p}, whole |-> TRUE]]
      BY <1>10 DEF ToolEnds, Fail
    <3>2. data \in [Inodes -> Contents]
      BY <1>0 DEF Types, TypeOK
    <3>3. data' \in [Inodes -> Contents]
      <4>1. CASE handle[p] \in Inodes
        BY <3>1, <3>2, <4>1, DataTypes
      <4>2. CASE handle[p] \notin Inodes
        BY <3>1, <3>2, <4>2
      <4> QED BY <4>1, <4>2
    <3> QED BY <1>10, <3>3 DEF ToolEnds, Fail
  <2>3. built' \in [Procs -> SUBSET Hosts]
    <3>1. cur[p] \in Hosts
      BY <1>0, <1>10, PathTypes DEF ToolEnds, Building
    <3>2. \A s \in [Procs -> SUBSET Hosts] : [s EXCEPT ![p] = @ \cup {cur[p]}] \in [Procs -> SUBSET Hosts]
      BY <3>1
    <3>3. built' = built \/ built' = [built EXCEPT ![p] = @ \cup {cur[p]}]
      BY <1>10 DEF ToolEnds
    <3>4. built \in [Procs -> SUBSET Hosts]
      BY <1>0 DEF Types, TypeOK
    <3> QED BY <3>2, <3>3, <3>4
  <2> QED BY <1>0, <1>10, <2>1, <2>2, <2>3 DEF ToolEnds, Types, TypeOK, ControlTypes, Temps
<1>11. CASE ExtractAndPatch(p)
  <2>1. ControlTypes' /\ UNCHANGED <<at, data>>
    BY <1>0, <1>11, ReturnTypes, MoveOnTypes DEF ExtractAndPatch, Fail, Steps, Building, Temps
  <2>2. menu' = [q \in Procs |-> menu'[q]]
    BY <1>0, <1>11 DEF ExtractAndPatch, Types
  <2> QED BY <1>0, <1>11, <2>1, <2>2
          DEF ExtractAndPatch, Types, TypeOK, ControlTypes, Temps, ghosts
<1>12. CASE Move(p)
  <2>1. ControlTypes'
    BY <1>0, <1>12, MoveOnTypes DEF Move, Steps, Behind
  <2>2. at' \in [Paths -> Inodes \cup {None}]
    <3>1. Src(p) \in Paths /\ Dest(p) \in Paths
      BY <1>0, <1>12, PathTypes DEF Move, Behind
    <3> QED BY <1>0, <1>12, <3>1 DEF Move, Types, TypeOK
  <2> QED BY <1>0, <1>12, <2>1, <2>2 DEF Move, TmpKept, ghosts, Types, TypeOK, ControlTypes, Temps
<1>13. CASE MoveFails(p)
  <2>1. CASE Fail(p) /\ UNCHANGED <<handle, reads, met>>
    BY <1>0, <1>13, <2>1, ReturnTypes, QuietTypes DEF MoveFails, Fail, TmpKept, ghosts
  <2>2. CASE ~(Fail(p) /\ UNCHANGED <<handle, reads, met>>)
    <3> DEFINE i == IF at[Dest(p)] = None THEN <<p, cur[p], "copied">> ELSE at[Dest(p)]
    <3>1. Src(p) \in Paths /\ Dest(p) \in Paths /\ cur[p] \in Hosts
      BY <1>0, <1>13, PathTypes DEF MoveFails, Behind
    <3>2. i \in Inodes
      BY <1>0, <3>1 DEF Types, TypeOK, Inodes
    <3>3. /\ at' = [at EXCEPT ![Dest(p)] = i] /\ data' = [data EXCEPT ![i] = Empty]
          /\ handle' = [handle EXCEPT ![p] = i] /\ reads' = [reads EXCEPT ![p] = at[Src(p)]]
          /\ Step(p, "copying") /\ UNCHANGED <<res, scratch>> /\ met' = Meets(p, i)
      BY <1>13, <2>2 DEF MoveFails, CopyStarts
    <3> HIDE DEF i
    <3>7. met' \in [Procs -> SUBSET Procs]
      BY <1>0, <3>3, MeetsTypes DEF Types, TypeOK
    <3>4. ControlTypes'
      BY <1>0, <3>3, MoveOnTypes DEF Steps, Behind
    <3>5. /\ at' \in [Paths -> Inodes \cup {None}] /\ handle' \in [Procs -> Inodes \cup {None}]
          /\ reads' \in [Procs -> Inodes \cup {None}]
      BY <1>0, <3>1, <3>2, <3>3 DEF Types, TypeOK
    <3>6. data' \in [Inodes -> Contents]
      BY <1>0, <3>2, <3>3 DEF Types, TypeOK, Contents, Empty
    <3> QED BY <1>0, <1>13, <3>4, <3>5, <3>6, <3>7
            DEF MoveFails, Types, TypeOK, ControlTypes, Temps
  <2> QED BY <2>1, <2>2
<1>14. CASE Copy(p)
  <2>1. CASE Fail(p)
    BY <1>0, <1>14, <2>1, ReturnTypes, QuietTypes DEF Copy, Fail
  <2>2. CASE ~Fail(p)
    <3>1. Src(p) \in Paths /\ reads[p] \in Inodes
      BY <1>0, <1>14, PathTypes DEF Copy, Behind, Control
    <3>2. ControlTypes'
      BY <1>0, <1>14, <2>2, MoveOnTypes DEF Copy, Steps, Behind
    <3>3. at' \in [Paths -> Inodes \cup {None}]
      BY <1>0, <1>14, <2>2, <3>1 DEF Copy, Types, TypeOK
    <3>4. data' \in [Inodes -> Contents]
      <4>1. data' = data \/ data' =
              [data EXCEPT ![handle[p]] = [by |-> data[handle[p]].by \cup data[reads[p]].by,
                                           whole |-> data[reads[p]].whole]]
        BY <1>14 DEF Copy, Fail
      <4>2. data \in [Inodes -> Contents]
        BY <1>0 DEF Types, TypeOK
      <4>3. CASE handle[p] \in Inodes
        BY <3>1, <4>1, <4>2, <4>3, DataTypes
      <4>4. CASE handle[p] \notin Inodes
        BY <4>1, <4>2, <4>4
      <4> QED BY <4>3, <4>4
    <3> QED BY <1>0, <1>14, <3>2, <3>3, <3>4
            DEF Copy, TmpKept, ghosts, Types, TypeOK, ControlTypes, Temps
  <2> QED BY <2>1, <2>2
<1>15. CASE HandOver(p)
  <2>1. ContentAt(Dest(p)) \in Contents
    BY <1>0, <1>15, PathTypes DEF HandOver, Behind, ContentAt, Types, TypeOK, Contents, Empty
  <2>2. ControlTypes'
    BY <1>0, <1>15, MoveOnTypes DEF HandOver, fsVars, Steps, Behind
  <2>3. got' \in [Procs -> [Hosts -> Contents]]
    <3>1. got' = got \/ got' = [got EXCEPT ![p][cur[p]] = ContentAt(Dest(p))]
      BY <1>15 DEF HandOver
    <3>2. got \in [Procs -> [Hosts -> Contents]]
      BY <1>0 DEF Types, TypeOK
    <3> QED BY <2>1, <3>1, <3>2, GotTypes
  <2> QED BY <1>0, <1>15, <2>2, <2>3 DEF HandOver, fsVars, Types, TypeOK, ControlTypes, Temps
<1>16. CASE Upload(p)
  <2>1. ContentAt(Dest(p)) \in Contents
    BY <1>0, <1>16, PathTypes DEF Upload, Behind, ContentAt, Types, TypeOK, Contents, Empty
  <2>2. ControlTypes' /\ UNCHANGED <<at, data>>
    BY <1>0, <1>16, ReturnTypes, MoveOnTypes DEF Upload, Fail, fsVars, Steps, Behind
  <2>3. got' \in [Procs -> [Hosts -> Contents]] /\ remote' \in [Hosts -> Contents]
    <3>1. got' \in [Procs -> [Hosts -> Contents]]
      <4>1. got' = got \/ got' = [got EXCEPT ![p][cur[p]] = ContentAt(Dest(p))]
        BY <1>16 DEF Upload
      <4>2. got \in [Procs -> [Hosts -> Contents]]
        BY <1>0 DEF Types, TypeOK
      <4> QED BY <2>1, <4>1, <4>2, GotTypes
    <3>2. remote' \in [Hosts -> Contents]
      BY <1>0, <1>16, <2>1 DEF Upload, Types, TypeOK
    <3> QED BY <3>1, <3>2
  <2> QED BY <1>0, <1>16, <2>2, <2>3 DEF Upload, Types, TypeOK, ControlTypes, Temps
<1>17. CASE RemoveLocal(p)
  <2>1. ControlTypes' /\ UNCHANGED data
    BY <1>0, <1>17, ReturnTypes, MoveOnTypes DEF RemoveLocal, Fail, Steps
  <2>2. at' \in [Paths -> Inodes \cup {None}]
    BY <1>0, <1>17 DEF RemoveLocal, Fail, Types, TypeOK
  <2> QED BY <1>0, <1>17, <2>1, <2>2
          DEF RemoveLocal, TmpKept, ghosts, Types, TypeOK, ControlTypes, Temps
<1> QED BY <1>1, <1>2, <1>3, <1>4, <1>5, <1>6, <1>7, <1>8, <1>9, <1>10, <1>11, <1>12, <1>13,
           <1>14, <1>15, <1>16, <1>17 DEF Run

(* A process touches nothing of what another one has in hand. *)
Untouched(q) ==
  /\ cmd'[q] = cmd[q] /\ pc'[q] = pc[q] /\ res'[q] = res[q] /\ todo'[q] = todo[q]
  /\ cur'[q] = cur[q] /\ reads'[q] = reads[q] /\ menu'[q] = menu[q] /\ built'[q] = built[q]
  /\ \A k : <<q, k>> \in scratch' <=> <<q, k>> \in scratch

(* What a step of one process leaves alone. *)
LEMMA OthersUntouched ==
  ASSUME Types, NEW p \in Procs, Run(p) \/ Kill(p) \/ \E c \in Commands : Begin(p, c),
         NEW q \in Procs, q # p
  PROVE  Untouched(q)
<1> USE DEF Types, TypeOK, Untouched, Step, TmpKept, fsVars, ghosts
<1>1. ASSUME NEW r, Fail(p) \/ Return(p, r)
      PROVE  pc'[q] = pc[q] /\ res'[q] = res[q] /\ \A k : <<q, k>> \in scratch' <=> <<q, k>> \in scratch
  BY <1>1 DEF Fail, Return
<1>2. ASSUME NEW k \in Temps, MkdirTemp(p, k) \/ RemoveAll(p, k)
      PROVE  \A l : <<q, l>> \in scratch' <=> <<q, l>> \in scratch
  BY <1>2 DEF MkdirTemp, RemoveAll
<1>3. ASSUME NEW from, NEW to, Plain(p, from, to) PROVE Untouched(q)
  BY <1>1, <1>3 DEF Plain
<1>4. ASSUME NEW from, NEW k \in Temps, NEW to, Makes(p, from, k, to) PROVE Untouched(q)
  BY <1>1, <1>2, <1>4 DEF Makes
<1>5. ASSUME NEW c \in Commands, Begin(p, c) PROVE Untouched(q)
  BY <1>5 DEF Begin
<1>6. CASE Kill(p) \/ NextNode(p) \/ AllDone(p) \/ Unlink(p)
  BY <1>1, <1>6 DEF Kill, NextNode, AllDone, Unlink
<1>7. CASE Checks(p) \/ ExtractBootloader(p) \/ ReadVolumeLabel(p) \/ Render(p) \/ Stage(p)
  BY <1>3, <1>7 DEF Checks, ExtractBootloader, ReadVolumeLabel, Render, Stage
<1>8. CASE MakeBootloaderDir(p) \/ MakeBuildDir(p) \/ MakeCidata(p) \/ MakeScratch(p)
           \/ MakeExtract(p) \/ MakeOutDir(p)
  BY <1>3, <1>4, <1>8 DEF MakeBootloaderDir, MakeBuildDir, MakeCidata, MakeScratch,
     MakeExtract, MakeOutDir, Temps
<1>9. CASE ToolStarts(p) \/ ToolEnds(p) \/ ExtractAndPatch(p)
  BY <1>1, <1>2, <1>9 DEF ToolStarts, ToolEnds, ExtractAndPatch, Temps
<1>10. CASE Move(p) \/ MoveFails(p) \/ Copy(p) \/ HandOver(p) \/ Upload(p) \/ RemoveLocal(p)
  BY <1>1, <1>10 DEF Move, MoveFails, Copy, HandOver, Upload, RemoveLocal
<1> QED BY <1>5, <1>6, <1>7, <1>8, <1>9, <1>10 DEF Run

(* What it leaves alone keeps its part of the invariant. *)
LEMMA UntouchedKeeps ==
  ASSUME NEW q, Untouched(q), Control(q), BuildDirInv(q), MenuInv(q)
  PROVE  Control(q)' /\ BuildDirInv(q)' /\ MenuInv(q)'
<1>1. Control(q)'
  BY DEF Untouched, Control
<1>2. BuildDirInv(q)'
  BY DEF Untouched, BuildDirInv
<1>3. MenuInv(q)'
  BY DEF Untouched, MenuInv
<1> QED BY <1>1, <1>2, <1>3

(* A failing or finishing process has nothing in hand and leaves no         *)
(* directory that a deferred call removes.                                  *)
LEMMA ReturnKeeps ==
  ASSUME Types, NEW p \in Procs, NEW r \in {"nil", "err"}, Return(p, r),
         pc[p] \notin {"idle", "done"}, Control(p), BuildDirInv(p),
         UNCHANGED <<cmd, todo, cur, built>>
  PROVE  Control(p)' /\ BuildDirInv(p)'
<1>1. /\ pc'[p] = "done" /\ res'[p] = r
      /\ \A k : <<p, k>> \in scratch' => <<p, k>> \in scratch /\ k \notin Deferred
  BY DEF Types, TypeOK, Return, Step
<1>2. "build" \in Deferred
  BY DEF Deferred
<1>3. Control(p)'
  BY <1>1 DEF Control, Before, Building, Behind
<1>4. BuildDirInv(p)'
  BY <1>1, <1>2 DEF BuildDirInv, Before, Building, Control
<1> QED BY <1>3, <1>4

(* What the step does for its own process keeps the directories. *)
LEMMA OwnControl ==
  ASSUME IInv, NEW p \in Procs, Run(p) \/ Kill(p) \/ \E c \in Commands : Begin(p, c)
  PROVE  Control(p)' /\ BuildDirInv(p)'
<1>0. Types /\ Control(p) /\ BuildDirInv(p)
  BY DEF IInv
<1>30. ASSUME Fail(p), pc[p] \notin {"idle", "done"}, UNCHANGED <<cmd, todo, cur, built>>
         PROVE  Control(p)' /\ BuildDirInv(p)'
  BY <1>0, <1>30, ReturnKeeps DEF Fail
<1> USE DEF Types, TypeOK, Step, TmpKept, fsVars, ghosts, Control, BuildDirInv, Before,
            Building, Behind
<1>1. ASSUME NEW c \in Commands, Begin(p, c) PROVE Control(p)' /\ BuildDirInv(p)'
  BY <1>0, <1>1, CommandsAssumption DEF Begin
<1>2. CASE Kill(p)
  BY <1>0, <1>2 DEF Kill, Running
<1>3. CASE Checks(p)
  BY <1>0, <1>3, <1>30 DEF Checks, Plain
<1>4. CASE ExtractBootloader(p) \/ ReadVolumeLabel(p)
  BY <1>0, <1>4, <1>30 DEF ExtractBootloader, ReadVolumeLabel, Plain
<1>5. CASE Render(p)
  BY <1>0, <1>5, <1>30 DEF Render, Plain
<1>6. CASE Stage(p)
  BY <1>0, <1>6, <1>30 DEF Stage, Plain
<1>7. CASE MakeBootloaderDir(p) \/ MakeOutDir(p)
  BY <1>0, <1>7, <1>30 DEF MakeBootloaderDir, MakeOutDir, Makes, Plain, MkdirTemp
<1>8. CASE MakeBuildDir(p)
  BY <1>0, <1>8, <1>30 DEF MakeBuildDir, Makes, MkdirTemp
<1>9. CASE MakeCidata(p) \/ MakeScratch(p) \/ MakeExtract(p)
  BY <1>0, <1>9, <1>30 DEF MakeCidata, MakeScratch, MakeExtract, Makes, MkdirTemp
<1>10. CASE NextNode(p)
  BY <1>0, <1>10 DEF NextNode
<1>11. CASE AllDone(p)
  BY <1>0, <1>11, ReturnKeeps DEF AllDone
<1>12. CASE Unlink(p)
  BY <1>0, <1>12 DEF Unlink
<1>13. CASE ToolStarts(p)
  BY <1>0, <1>13, <1>30 DEF ToolStarts
<1>14. CASE ToolEnds(p)
  BY <1>0, <1>14, <1>30 DEF ToolEnds, RemoveAll
<1>15. CASE ExtractAndPatch(p)
  BY <1>0, <1>15, <1>30 DEF ExtractAndPatch, RemoveAll
<1>16. CASE Move(p)
  BY <1>0, <1>16 DEF Move
<1>17. CASE MoveFails(p)
  <2>1. CASE Fail(p)
    BY <1>17, <1>30, <2>1 DEF MoveFails
  <2>2. CASE ~Fail(p)
    <3>1. Src(p) \in Paths
      BY <1>0, <1>17, PathTypes DEF MoveFails
    <3>2. at[Src(p)] \in Inodes
      BY <1>0, <1>17, <2>2, <3>1 DEF MoveFails
    <3>3. /\ pc' = [pc EXCEPT ![p] = "copying"] /\ reads' = [reads EXCEPT ![p] = at[Src(p)]]
          /\ UNCHANGED <<res, scratch, cmd, todo, cur, built>>
      BY <1>17, <2>2 DEF MoveFails
    <3> QED BY <1>0, <1>17, <3>2, <3>3 DEF MoveFails
  <2> QED BY <2>1, <2>2
<1>18. CASE Copy(p)
  BY <1>0, <1>18, <1>30 DEF Copy
<1>19. CASE HandOver(p)
  BY <1>0, <1>19 DEF HandOver
<1>20. CASE Upload(p)
  BY <1>0, <1>20, <1>30 DEF Upload
<1>21. CASE RemoveLocal(p)
  BY <1>0, <1>21, <1>30 DEF RemoveLocal
<1> QED BY <1>1, <1>2, <1>3, <1>4, <1>5, <1>6, <1>7, <1>8, <1>9, <1>10, <1>11, <1>12, <1>13,
           <1>14, <1>15, <1>16, <1>17, <1>18, <1>19, <1>20, <1>21 DEF Run

(* What it does for its own process keeps the menus patched. *)
LEMMA OwnMenu ==
  ASSUME IInv, NEW p \in Procs, Run(p) \/ Kill(p) \/ \E c \in Commands : Begin(p, c)
  PROVE  MenuInv(p)'
<1>0. Types /\ Control(p) /\ MenuInv(p)
  BY DEF IInv
<1> USE DEF Types, TypeOK, Step, TmpKept, fsVars, ghosts, Before, Building, Behind
<1>30. ASSUME Fail(p), pc[p] # "done", UNCHANGED <<cmd, menu>>
         PROVE  MenuInv(p)'
  BY <1>0, <1>30 DEF Fail, Return, Control, MenuInv
<1>31. ASSUME pc[p] # "done", cmd[p] # None => cmd[p].kind # "ubuntu", UNCHANGED cmd
       PROVE  MenuInv(p)'
  BY <1>31 DEF MenuInv
<1>1. ASSUME NEW c \in Commands, Begin(p, c) PROVE MenuInv(p)'
  <2>1. CASE c.kind = "ubuntu"
    <3>1. PICK m \in Menus : menu' = [menu EXCEPT ![p] = [source |-> m, new |-> m]]
      BY <1>1, <2>1 DEF Begin
    <3>2. /\ cmd'[p] = c /\ pc'[p] = "checks" /\ res'[p] = "none"
          /\ menu'[p] = [source |-> m, new |-> m]
      BY <1>0, <1>1, <3>1 DEF Begin, Control
    <3>4. menu'[p].source = m /\ menu'[p].new = m
      BY <3>2
    <3>3. "grub.cfg" \in DOMAIN m /\ m["grub.cfg"] \in Seq(Seq(Tokens))
      BY CommandsAssumption
    <3> QED BY <3>2, <3>3, <3>4 DEF MenuInv
  <2>2. CASE c.kind # "ubuntu"
    BY <1>0, <1>1, <2>2 DEF Begin, MenuInv
  <2> QED BY <2>1, <2>2
<1>2. CASE Kill(p)
  BY <1>0, <1>2 DEF Kill, Running, Control, MenuInv
<1>3. CASE Checks(p) \/ ExtractBootloader(p) \/ ReadVolumeLabel(p) \/ MakeBootloaderDir(p)
           \/ MakeOutDir(p)
  BY <1>0, <1>3, <1>30 DEF Checks, ExtractBootloader, ReadVolumeLabel, Plain, MakeBootloaderDir,
     MakeOutDir, Makes, Control, MenuInv
<1>4. CASE Render(p) \/ MakeCidata(p) \/ MakeScratch(p) \/ MakeExtract(p)
  BY <1>0, <1>4, <1>30 DEF Render, Plain, MakeCidata, MakeScratch, MakeExtract, Makes,
     Control, MenuInv
<1>5. CASE Stage(p) \/ MakeBuildDir(p) \/ Unlink(p)
  BY <1>0, <1>5, <1>30 DEF Stage, Plain, MakeBuildDir, Makes, Unlink, Control, MenuInv
<1>6. CASE NextNode(p)
  BY <1>0, <1>6 DEF NextNode, Control, MenuInv
<1>7. CASE AllDone(p)
  <2>1. cmd[p] \in Commands /\ cmd[p].hosts # {} /\ todo[p] # cmd[p].hosts
    <3>1. cmd[p] \in Commands /\ todo[p] = {}
      BY <1>0, <1>7 DEF AllDone, Control
    <3>2. cmd[p].hosts # {}
      BY <3>1, CommandsAssumption
    <3> QED BY <3>1, <3>2
  <2>2. pc[p] = "next" /\ UNCHANGED <<cmd, menu>>
    BY <1>7 DEF AllDone
  <2> QED BY <1>0, <2>1, <2>2 DEF MenuInv
<1>8. CASE ToolStarts(p) \/ ToolEnds(p)
  BY <1>0, <1>8, <1>30 DEF ToolStarts, ToolEnds, Control, MenuInv
<1>9. CASE ExtractAndPatch(p)
  <2>1. CASE Fail(p) /\ UNCHANGED menu
    BY <1>9, <1>30, <2>1 DEF ExtractAndPatch
  <2>2. CASE ~(Fail(p) /\ UNCHANGED menu)
    <3>1. PICK txt : menu' = [menu EXCEPT ![p].new = Patched(menu[p].source, txt)]
      BY <1>9, <2>2 DEF ExtractAndPatch
    <3>2. UNCHANGED cmd /\ pc[p] # "idle"
      BY <1>9 DEF ExtractAndPatch
    <3>3. CASE cmd[p].kind = "ubuntu"
      <4>1. /\ menu[p] = [source |-> menu[p].source, new |-> menu[p].new]
            /\ "grub.cfg" \in DOMAIN menu[p].source
            /\ menu[p].source["grub.cfg"] \in Seq(Seq(Tokens))
        BY <1>0, <3>2, <3>3 DEF Control, MenuInv
      <4>2. menu'[p] = [source |-> menu[p].source, new |-> Patched(menu[p].source, txt)]
        BY <1>0, <3>1, <4>1
      <4>3. Patched(menu[p].source, txt)["grub.cfg"] = PatchLines(menu[p].source["grub.cfg"])
        BY <4>1 DEF Patched
      <4> QED BY <4>1, <4>2, <4>3 DEF MenuInv, PatchLines
    <3>4. CASE cmd[p].kind # "ubuntu"
      BY <1>9, <3>4 DEF ExtractAndPatch, MenuInv
    <3> QED BY <3>3, <3>4
  <2> QED BY <2>1, <2>2
<1>10. CASE Move(p) \/ MoveFails(p) \/ Copy(p)
  BY <1>0, <1>10, <1>30 DEF Move, MoveFails, Copy, Control, MenuInv
<1>11. CASE HandOver(p) \/ Upload(p) \/ RemoveLocal(p)
  BY <1>0, <1>11, <1>30 DEF HandOver, Upload, RemoveLocal, Control, MenuInv
<1> QED BY <1>1, <1>2, <1>3, <1>4, <1>5, <1>6, <1>7, <1>8, <1>9, <1>10, <1>11 DEF Run

(* The invariant of one command that builds: its types, where it is, which  *)
(* directories it has, and the menu it patches.  Every step keeps it.       *)
LEMMA StepIInv == IInv /\ [Next]_vars => IInv'
<1> SUFFICES ASSUME IInv, [Next]_vars PROVE IInv'
  OBVIOUS
<1>1. CASE UNCHANGED vars
  BY <1>1 DEF vars, fsVars, ghosts, IInv, Types, TypeOK, Control, BuildDirInv, MenuInv
<1>2. ASSUME NEW p \in Procs, Run(p) \/ Kill(p) \/ \E c \in Commands : Begin(p, c)
      PROVE  IInv'
  <2>1. Types'
    BY <1>2, StepTypes
  <2>2. Control(p)' /\ BuildDirInv(p)' /\ MenuInv(p)'
    BY <1>2, OwnControl, OwnMenu
  <2>3. ASSUME NEW q \in Procs, q # p
        PROVE  Control(q)' /\ BuildDirInv(q)' /\ MenuInv(q)'
    BY <1>2, <2>3, OthersUntouched, UntouchedKeeps DEF IInv
  <2> QED BY <2>1, <2>2, <2>3 DEF IInv
<1> QED BY <1>1, <1>2 DEF Next

(* The invariant holds throughout, for any processes, commands and menus. *)
THEOREM Inductive == Spec => []IInv
<1>1. Init => IInv
  BY InitIInv
<1>2. IInv /\ [Next]_vars => IInv'
  BY StepIInv
<1> QED BY <1>1, <1>2, PTL DEF Spec

(* Every variable keeps its type. *)
THEOREM TypeCorrect == Spec => []TypeOK
<1>1. IInv => TypeOK
  BY DEF IInv, Types
<1> QED BY <1>1, Inductive, PTL

(* Whatever fails, no temporary directory that a deferred call removes      *)
(* outlives its command, and no build directory the build of its node.      *)
THEOREM NoScratchLeft == Spec => []ScratchRemoved
<1>1. IInv => ScratchRemoved
  BY DEF IInv, ScratchRemoved, BuildDirInv, Deferred
<1> QED BY <1>1, Inductive, PTL

(* Whatever lines the menu of its source has, an Ubuntu ISO whose build     *)
(* returned nil installs unattended from exactly those of its boot lines    *)
(* that can be patched or were right before.                                *)
THEOREM UbuntuIsUnattended == Spec => []BootsUnattended
<1>1. IInv => BootsUnattended
  <2> SUFFICES ASSUME IInv, NEW p \in Procs, cmd[p] # None, cmd[p].kind = "ubuntu", res[p] = "nil",
                      NEW old, old = menu[p].source["grub.cfg"],
                      NEW new, new = menu[p].new["grub.cfg"]
               PROVE  /\ DOMAIN new = DOMAIN old
                      /\ \A i \in DOMAIN old :
                           IF IsBootLine(old[i]) THEN Unattended(new[i]) <=> Patchable(old[i])
                                                 ELSE new[i] = old[i]
    BY DEF BootsUnattended
  <2>1. old \in Seq(Seq(Tokens)) /\ new = PatchLines(old)
    BY DEF IInv, MenuInv
  <2>2. DOMAIN new = DOMAIN old /\ \A i \in DOMAIN old : new[i] = Patch(old[i])
    BY <2>1 DEF PatchLines
  <2>3. ASSUME NEW i \in DOMAIN old
        PROVE  IF IsBootLine(old[i]) THEN Unattended(new[i]) <=> Patchable(old[i])
                                     ELSE new[i] = old[i]
    <3>1. old[i] \in Seq(Tokens)
      BY <2>1
    <3>2. CASE IsBootLine(old[i])
      BY <2>2, <3>1, <3>2, PatchedIsUnattended, CommandsAssumption
    <3>3. CASE ~IsBootLine(old[i])
      BY <2>2, <3>3 DEF Patch
    <3> QED BY <3>2, <3>3
  <2> QED BY <2>2, <2>3
<1> QED BY <1>1, Inductive, PTL
-----------------------------------------------------------------------------
(* The files.  A process works on a node from its NextNode to its next one. *)
InNode(p)    == pc[p] \in Before \cup Building \cup Behind
Mine(p, h)   == <<p, h, "built">>
Keeps(p, h)  == {<<BuildRoot(p), h>>, <<OutDir(p), h>>}
Writes(p, i) == pc[p] \in {"writing", "copying"} /\ handle[p] = i

(* The inodes a process may have made so far. *)
Started(p, h) == /\ cmd[p] # None /\ h \in cmd[p].hosts \ todo[p]
                 /\ ~(cur[p] = h /\ pc[p] \in Before \cup {"tool"})
Copied(p, h)  == /\ cmd[p] # None /\ h \in cmd[p].hosts \ todo[p]
                 /\ ~(cur[p] = h /\ pc[p] \in Before \cup Building \cup {"move"})
Made(i)       == IF i[3] = "built" THEN Started(i[1], i[2]) ELSE Copied(i[1], i[2])

(* Which commands take which steps. *)
Shape(p) ==
  /\ pc[p] \in {"cidata", "ubuntu", "mkextract", "patch"} => cmd[p].kind = "ubuntu"
  /\ pc[p] \in {"move", "copying", "hand-over"} => cmd[p].kind # "up"
  /\ pc[p] \in {"upload", "uploaded"} => cmd[p].upload
  /\ pc[p] = "copying" => cmd[p].kind = "stack" /\ Src(p) # Dest(p)

(* An inode has one name, which its process has come to; a private          *)
(* directory has what its own process built.                                *)
NamesInv ==
  /\ \A x, y \in Paths : at[x] # None /\ at[x] = at[y] => x = y
  /\ \A x \in Paths : at[x] # None => Made(at[x])
  /\ \A p \in Procs : handle[p] # None => Made(handle[p])
  /\ \A x \in Paths : x[1] \in Procs /\ at[x] # None => Started(x[1], x[2])

(* A command that returned nil has no node left to build. *)
EndInv(p) == res[p] = "nil" => todo[p] = {}

(* The tool and the copy have an inode in hand, which may have lost its     *)
(* name meanwhile.                                                          *)
HandleInv(p) == pc[p] \in {"writing", "copying"} => handle[p] \in Inodes

(* Two commands that run at once and clash have met, and so have two that   *)
(* write one inode; who began with a node last and met nobody shares no     *)
(* name with those still at work on it.                                     *)
MetInv == \A p, q \in Procs :
  p # q /\ Running(p) /\ Running(q) /\ Clash(cmd[p], cmd[q]) => q \in met[p]

SharesMet == \A p, q \in Procs : \A i \in Inodes :
  p # q /\ Writes(p, i) /\ Writes(q, i) => q \in met[p]

LastInv == \A h \in Hosts : \A p \in Procs :
  last[h] = p => cmd[p] # None /\ h \in cmd[p].hosts \ todo[p]

Apart == \A p, q \in Procs : \A h \in Hosts :
  p # q /\ met[p] = {} /\ last[h] = p /\ InNode(q) /\ cur[q] = h => ~Clash(cmd[p], cmd[q])

(* Until another command builds for the node, nobody else writes the ISO of *)
(* a process that met nobody, and it is under one of the two names.         *)
Alone(p, h) == met[p] = {} /\ (last[h] = p \/ (InNode(p) /\ cur[p] = h))

MineInv(p, h) == Alone(p, h) =>
  /\ \A q \in Procs : Writes(q, Mine(p, h)) => q = p /\ cur[p] = h
  /\ \A x \in Paths : at[x] = Mine(p, h) => x \in Keeps(p, h)

(* A name of a finished ISO that nobody writes any more.                    *)
Holds(p, x) == /\ at[x] # None /\ Own(data[at[x]], p)
               /\ \A q \in Procs : ~Writes(q, at[x])

(* What a process that met nobody has in its files, step by step. *)
OwnInv(p) == met[p] = {} =>
  /\ pc[p] = "tool" => at[Src(p)] = None
  /\ pc[p] = "writing" => /\ handle[p] = Mine(p, cur[p]) /\ at[Src(p)] = Mine(p, cur[p])
                          /\ data[Mine(p, cur[p])].by = {p}
  /\ pc[p] \in {"move", "copying"} => /\ at[Src(p)] = Mine(p, cur[p])
                                      /\ Own(data[Mine(p, cur[p])], p)
  /\ pc[p] = "copying" => /\ reads[p] = Mine(p, cur[p]) /\ handle[p] = at[Dest(p)]
                          /\ data[handle[p]].by = {}
  /\ pc[p] \in {"hand-over", "upload", "uploaded"} => Holds(p, Dest(p))
  /\ pc[p] = "uploaded" => Own(remote[cur[p]], p) /\ Own(got[p][cur[p]], p)

GotInv(p) == met[p] = {} /\ cmd[p] # None /\ res[p] \in {"none", "nil"} =>
  \A h \in cmd[p].hosts \ todo[p] : Own(got[p][h], p) \/ (InNode(p) /\ cur[p] = h)

KeptInv(p, h) == h \in built[p] /\ met[p] = {} /\ last[h] = p =>
  \/ \E x \in Keeps(p, h) : Holds(p, x)
  \/ cmd[p].upload /\ Own(remote[h], p)

FilesInv ==
  /\ NamesInv /\ MetInv /\ SharesMet /\ LastInv /\ Apart
  /\ \A p \in Procs : Shape(p) /\ HandleInv(p) /\ EndInv(p) /\ OwnInv(p) /\ GotInv(p)
  /\ \A p \in Procs, h \in Hosts : MineInv(p, h) /\ KeptInv(p, h)

(* No process has begun: there is nothing to tell of any file. *)
LEMMA InitFiles == Init => FilesInv
<1> SUFFICES ASSUME Init PROVE FilesInv
  OBVIOUS
<1> USE CommandsAssumption DEF Init, InNode, Before, Building, Behind
<1>1. NamesInv
  BY DEF NamesInv
<1>2. MetInv /\ SharesMet /\ LastInv /\ Apart
  <2>1. \A h \in Hosts, p \in Procs : last[h] # p
    OBVIOUS
  <2> QED BY <2>1 DEF MetInv, Running, SharesMet, Writes, LastInv, Apart
<1>3. ASSUME NEW p \in Procs
      PROVE  Shape(p) /\ HandleInv(p) /\ EndInv(p) /\ OwnInv(p) /\ GotInv(p)
  BY DEF Shape, HandleInv, EndInv, OwnInv, GotInv
<1>4. ASSUME NEW p \in Procs, NEW h \in Hosts PROVE MineInv(p, h) /\ KeptInv(p, h)
  <2>1. ~Alone(p, h)
    BY DEF Alone
  <2> QED BY <2>1 DEF MineInv, KeptInv
<1> QED BY <1>1, <1>2, <1>3, <1>4 DEF FilesInv
-----------------------------------------------------------------------------
(* A process at work on a node, and its two names for the ISO.              *)
LEMMA AtWork ==
  ASSUME IInv, NEW p \in Procs, InNode(p)
  PROVE  /\ cmd[p] \in Commands /\ cur[p] \in Hosts /\ cur[p] \in cmd[p].hosts \ todo[p]
         /\ BuildRoot(p) \notin Mounted /\ Src(p) \in Paths /\ Dest(p) \in Paths
         /\ Keeps(p, cur[p]) = {Src(p), Dest(p)} /\ Mine(p, cur[p]) \in Inodes
         /\ Running(p)
<1>1. Types /\ Control(p)
  BY DEF IInv
<1>2. /\ cmd[p] \in Commands /\ cur[p] \in Hosts /\ Src(p) \in Paths /\ Dest(p) \in Paths
  BY <1>1, PathTypes DEF InNode
<1>3. cur[p] \in cmd[p].hosts \ todo[p]
  BY <1>1 DEF Control, InNode
<1>4. BuildRoot(p) \notin Mounted
  BY <1>2, CommandsAssumption DEF BuildRoot
<1>5. Running(p)
  BY <1>1, <1>2, CommandsAssumption DEF Control, Running, InNode, Before, Building, Behind
<1> QED BY <1>2, <1>3, <1>4, <1>5 DEF Keeps, Src, Dest, Mine, Inodes

(* A step that leaves the files alone, fails, or is another one than the    *)
(* beginning of a command and of a node.                                    *)
Goes(p) ==
  /\ UNCHANGED <<cmd, todo, cur, handle, reads, at, data, remote, ghosts>>
  /\ res'[p] \in {"none", "nil"} => res[p] = "none" /\ (InNode(p) => InNode(p)')
  /\ InNode(p)' => /\ pc[p] \in Before /\ pc'[p] \in Before \cup {"tool"}
                   /\ pc'[p] = "tool" => cmd[p].kind = "ubuntu"

Acts(p) ==
  \/ \E c \in Commands : Begin(p, c)
  \/ NextNode(p) \/ Goes(p) \/ Unlink(p) \/ Move(p) \/ HandOver(p) \/ Upload(p)
  \/ (ToolStarts(p) \/ ToolEnds(p) \/ MoveFails(p) \/ Copy(p) \/ RemoveLocal(p)) /\ ~Fail(p)

(* A command that fails or is killed leaves its files. *)
LEMMA FailGoes ==
  ASSUME IInv, NEW p \in Procs, Fail(p), pc[p] \notin {"idle", "done"},
         UNCHANGED <<cmd, todo, cur, handle, reads, remote, ghosts>>
  PROVE  Goes(p)
BY DEF Fail, Return, Step, Goes, InNode, Before, Building, Behind, IInv, Types, TypeOK

(* What a step can do. *)
LEMMA StepActs ==
  ASSUME IInv, NEW p \in Procs, Shape(p), Run(p) \/ Kill(p) \/ \E c \in Commands : Begin(p, c)
  PROVE  Acts(p)
<1>0. Types /\ Control(p)
  BY DEF IInv
<1>30. ASSUME Fail(p), pc[p] \notin {"idle", "done"},
              UNCHANGED <<cmd, todo, cur, handle, reads, remote, ghosts>>
         PROVE  Goes(p)
  BY <1>30, FailGoes
<1>9. CASE ToolStarts(p) \/ ToolEnds(p) \/ MoveFails(p)
  <2>1. CASE Fail(p)
    <3>1. pc[p] \in {"tool", "writing", "move"}
      BY <1>9 DEF ToolStarts, ToolEnds, MoveFails
    <3>2. handle' = handle /\ built' = built /\ reads' = reads /\ met' = met
      <4>1. pc'[p] = "done"
        BY <1>0, <2>1 DEF Fail, Return, Step, Types
      <4> QED BY <1>0, <1>9, <4>1 DEF ToolStarts, ToolEnds, MoveFails, Types, Step, ghosts
    <3> QED BY <1>9, <1>30, <2>1, <3>1, <3>2 DEF ToolStarts, ToolEnds, MoveFails, Acts, ghosts
  <2>2. CASE ~Fail(p)
    BY <1>9, <2>2 DEF Acts
  <2> QED BY <2>1, <2>2
<1>14. CASE Copy(p) \/ RemoveLocal(p)
  BY <1>14, <1>30 DEF Copy, RemoveLocal, TmpKept, Acts, ghosts
<1>11. CASE NextNode(p) \/ Unlink(p) \/ Move(p) \/ HandOver(p) \/ Upload(p)
  BY <1>11 DEF Acts
<1> USE DEF Types, TypeOK, Step, TmpKept, Goes, Before, Building, Behind, InNode
<1>2. CASE Kill(p)
  BY <1>0, <1>2 DEF Kill, Running, Control, fsVars, Acts
<1>3. CASE Checks(p) \/ ExtractBootloader(p) \/ ReadVolumeLabel(p)
  BY <1>0, <1>3, <1>30 DEF Checks, ExtractBootloader, ReadVolumeLabel, Plain, fsVars, Control, Acts
<1>4. CASE Render(p) \/ Stage(p)
  BY <1>0, <1>4, <1>30 DEF Render, Stage, Plain, fsVars, Control, Acts
<1>5. CASE MakeBootloaderDir(p) \/ MakeOutDir(p)
  BY <1>0, <1>5, <1>30 DEF MakeBootloaderDir, MakeOutDir, Makes, Plain, fsVars, Control, Acts
<1>6. CASE MakeBuildDir(p) \/ MakeCidata(p) \/ MakeScratch(p) \/ MakeExtract(p)
  BY <1>0, <1>6, <1>30 DEF MakeBuildDir, MakeCidata, MakeScratch, MakeExtract, Makes, Control, Acts
<1>7. CASE AllDone(p)
  BY <1>0, <1>7 DEF AllDone, Return, Control, Acts
<1>8. CASE ExtractAndPatch(p)
  BY <1>0, <1>8, <1>30 DEF ExtractAndPatch, Control, Shape, Acts
<1>12. CASE \E c \in Commands : Begin(p, c)
  BY <1>12 DEF Acts
<1> QED BY <1>2, <1>3, <1>4, <1>5, <1>6, <1>7, <1>8, <1>9, <1>11, <1>12, <1>14 DEF Run

Takes(p) == Run(p) \/ Kill(p) \/ \E c \in Commands : Begin(p, c)

(* What a step leaves alone of another process. *)
LEMMA Elsewhere ==
  ASSUME IInv, NEW p \in Procs, Shape(p), Takes(p), NEW q \in Procs, q # p
  PROVE  /\ cmd'[q] = cmd[q] /\ pc'[q] = pc[q] /\ res'[q] = res[q]
         /\ cur'[q] = cur[q] /\ todo'[q] = todo[q] /\ reads'[q] = reads[q]
         /\ handle'[q] = handle[q] /\ got'[q] = got[q] /\ built'[q] = built[q]
         /\ met[q] \subseteq met'[q]
<1>0. Types /\ Acts(p)
  BY StepActs DEF IInv, Takes
<1>11. Untouched(q)
  BY <1>0, OthersUntouched DEF Takes
<1> USE DEF Types, TypeOK, Step, TmpKept, fsVars, ghosts
<1>1. ASSUME NEW c \in Commands, Begin(p, c) PROVE met[q] \subseteq met'[q]
  BY <1>0, <1>1 DEF Begin
<1>2. CASE Goes(p)
  BY <1>2, <1>11 DEF Goes, Untouched
<1>3. CASE NextNode(p) \/ Unlink(p) \/ Move(p)
  BY <1>0, <1>3 DEF NextNode, Unlink, Move
<1>4. CASE HandOver(p) \/ Upload(p)
  BY <1>0, <1>4 DEF HandOver, Upload, Fail, Return
<1>9. ASSUME NEW i, met' = Meets(p, i) PROVE met[q] \subseteq met'[q]
  BY <1>0, <1>9, MeetsTypes
<1>5. CASE ToolStarts(p) /\ ~Fail(p)
  BY <1>0, <1>5, <1>9 DEF ToolStarts
<1>6. CASE ToolEnds(p) /\ ~Fail(p)
  BY <1>0, <1>6 DEF ToolEnds
<1>7. CASE MoveFails(p) /\ ~Fail(p)
  BY <1>0, <1>7, <1>9 DEF MoveFails
<1>8. CASE (Copy(p) \/ RemoveLocal(p)) /\ ~Fail(p)
  BY <1>0, <1>8 DEF Copy, RemoveLocal
<1>10. ASSUME NEW c \in Commands, Begin(p, c)
       PROVE  UNCHANGED <<handle, got>>
  BY <1>10 DEF Begin
<1> QED BY <1>0, <1>1, <1>2, <1>3, <1>4, <1>5, <1>6, <1>7, <1>8, <1>10, <1>11
        DEF Acts, Untouched

(* Who was met stays met; a command begins with those it meets at once. *)
LEMMA MetGrows ==
  ASSUME IInv, NEW p \in Procs, Shape(p), Takes(p), ~\E c \in Commands : Begin(p, c)
  PROVE  cmd' = cmd /\ \A q \in Procs : met[q] \subseteq met'[q]
<1>0. Types /\ Acts(p)
  BY StepActs DEF IInv, Takes
<1>1. ASSUME NEW i, met' = Meets(p, i) PROVE \A q \in Procs : met[q] \subseteq met'[q]
  BY <1>0, <1>1, MeetsTypes DEF Types, TypeOK
<1>2. CASE Unlink(p)
  <2>1. cmd' = cmd
    BY <1>2 DEF Unlink
  <2>2. PICK s : met' = met \/ met' = [met EXCEPT ![p] = @ \cup s]
    BY <1>2 DEF Unlink
  <2>3. met \in [Procs -> SUBSET Procs]
    BY <1>0 DEF Types, TypeOK
  <2> QED BY <2>1, <2>2, <2>3
<1>3. CASE ToolStarts(p) /\ ~Fail(p)
  BY <1>1, <1>3 DEF ToolStarts
<1>4. CASE MoveFails(p) /\ ~Fail(p)
  BY <1>1, <1>4 DEF MoveFails
<1>5. CASE \/ NextNode(p) \/ Goes(p) \/ Move(p) \/ HandOver(p) \/ Upload(p)
           \/ ToolEnds(p) \/ Copy(p) \/ RemoveLocal(p)
  BY <1>5 DEF NextNode, Goes, Move, HandOver, Upload, ToolEnds, Copy, RemoveLocal, TmpKept, ghosts
<1> QED BY <1>0, <1>2, <1>3, <1>4, <1>5 DEF Acts

(* The next node is one that was to be built. *)
LEMMA OwnNext ==
  ASSUME IInv, NEW p \in Procs, NextNode(p)
  PROVE  /\ cur'[p] \in todo[p] /\ cur'[p] \in Hosts /\ todo'[p] = todo[p] \ {cur'[p]}
         /\ pc[p] = "next" /\ pc'[p] = "render" /\ cmd'[p] = cmd[p] /\ cmd[p] \in Commands
         /\ cmd[p] # None /\ todo[p] \subseteq cmd[p].hosts /\ Running(p)
         /\ last' = [last EXCEPT ![cur'[p]] = p]
<1>1. Types /\ Control(p)
  BY DEF IInv
<1>2. pc[p] = "next" /\ cmd[p] # None /\ cmd[p] \in Commands
  BY <1>1, CommandsAssumption DEF NextNode, Control, Types, TypeOK
<1> QED BY <1>1, <1>2 DEF NextNode, Control, Types, TypeOK, Step, Running

(* An inode that was made stays so; a command or a node that begins has     *)
(* made nothing yet.                                                        *)
LEMMA MadeGrows ==
  ASSUME IInv, NEW p \in Procs, Shape(p), Takes(p), NEW q \in Procs, NEW h \in Hosts
  PROVE  (Started(q, h) => Started(q, h)') /\ (Copied(q, h) => Copied(q, h)')
<1>0. Types /\ Control(p) /\ Acts(p)
  BY StepActs DEF IInv, Takes
<1>1. CASE q # p
  BY <1>1, Elsewhere DEF Started, Copied
<1>2. CASE q = p
  <2> USE DEF Types, TypeOK, Step, TmpKept, fsVars, ghosts, Started, Copied,
              Before, Building, Behind
  <2>1. CASE \E c \in Commands : Begin(p, c)
    BY <1>0, <1>2, <2>1 DEF Begin, Control
  <2>2. CASE NextNode(p)
    BY <1>0, <1>2, <2>2, OwnNext
  <2>3. CASE Goes(p)
    BY <1>0, <1>2, <2>3 DEF Goes, InNode
  <2>4. CASE Unlink(p) \/ Move(p)
    BY <1>0, <1>2, <2>4 DEF Unlink, Move
  <2>5. CASE HandOver(p) \/ Upload(p)
    BY <1>0, <1>2, <2>5 DEF HandOver, Upload, Fail, Return
  <2>6. CASE (ToolStarts(p) \/ ToolEnds(p)) /\ ~Fail(p)
    BY <1>0, <1>2, <2>6 DEF ToolStarts, ToolEnds
  <2>7. CASE (MoveFails(p) \/ Copy(p) \/ RemoveLocal(p)) /\ ~Fail(p)
    BY <1>0, <1>2, <2>7 DEF MoveFails, Copy, RemoveLocal
  <2> QED BY <1>0, <2>1, <2>2, <2>3, <2>4, <2>5, <2>6, <2>7 DEF Acts
<1> QED BY <1>1, <1>2

(* Shape is kept. *)
LEMMA StepShape ==
  ASSUME IInv, NEW p \in Procs, Shape(p), Takes(p), NEW q \in Procs, Shape(q)
  PROVE  Shape(q)'
<1>0. Types /\ Control(p)
  BY DEF IInv
<1>1. CASE q # p
  <2>1. cmd'[q] = cmd[q] /\ pc'[q] = pc[q] /\ cur'[q] = cur[q]
    BY <1>1, Elsewhere
  <2> QED BY <2>1 DEF Shape, Src, Dest, OutDir, BuildRoot
<1>2. CASE q = p
  <2> SUFFICES Shape(p)'
    BY <1>2
  <2>30. ASSUME NEW r, Fail(p) \/ Return(p, r) PROVE Shape(p)'
    BY <1>0, <2>30 DEF Fail, Return, Step, Types, Shape
  <2>31. ASSUME pc'[p] \notin {"cidata", "ubuntu", "mkextract", "patch", "move", "copying",
                               "hand-over", "upload", "uploaded"}
         PROVE  Shape(p)'
    BY <2>31 DEF Shape
  <2> USE DEF Types, TypeOK, Step, TmpKept, fsVars
  <2>1. CASE (\E c \in Commands : Begin(p, c)) \/ Kill(p) \/ NextNode(p) \/ AllDone(p) \/ Unlink(p)
    BY <1>0, <2>1, <2>30, <2>31 DEF Begin, Kill, NextNode, AllDone, Unlink
  <2>2. CASE Checks(p) \/ ExtractBootloader(p) \/ ReadVolumeLabel(p) \/ Stage(p)
    BY <1>0, <2>2, <2>30, <2>31 DEF Checks, ExtractBootloader, ReadVolumeLabel, Stage, Plain
  <2>35. CASE MakeBootloaderDir(p) \/ MakeOutDir(p) \/ MakeBuildDir(p)
    BY <1>0, <2>30, <2>31, <2>35 DEF MakeBootloaderDir, MakeOutDir, MakeBuildDir, Plain, Makes
  <2>3. CASE Render(p)
    BY <1>0, <2>3, <2>30 DEF Render, Plain, Shape
  <2>32. CASE MakeCidata(p)
    BY <1>0, <2>30, <2>32 DEF MakeCidata, Makes, Shape
  <2>33. CASE MakeScratch(p)
    BY <1>0, <2>30, <2>33 DEF MakeScratch, Makes, Shape
  <2>34. CASE MakeExtract(p)
    BY <1>0, <2>30, <2>34 DEF MakeExtract, Makes, Shape
  <2>4. CASE ExtractAndPatch(p) \/ ToolStarts(p)
    BY <1>0, <2>4, <2>30, <2>31 DEF ExtractAndPatch, ToolStarts
  <2>5. CASE ToolEnds(p)
    <3>1. cmd[p] \in Commands
      BY <1>0, <2>5, PathTypes DEF ToolEnds, Building
    <3>2. cmd[p].kind = "up" => cmd[p].upload
      BY <3>1, CommandsAssumption
    <3>3. CASE ~Fail(p)
      <4>1. cmd' = cmd /\ pc'[p] = IF cmd[p].kind = "up" THEN "upload" ELSE "move"
        BY <1>0, <2>5, <3>3 DEF ToolEnds
      <4> QED BY <3>2, <4>1 DEF Shape
    <3> QED BY <2>30, <3>3
  <2>6. CASE Move(p)
    BY <1>0, <2>6, <2>30 DEF Move, Shape
  <2>7. CASE MoveFails(p)
    <3>1. CASE Fail(p)
      BY <2>30, <3>1
    <3>2. CASE ~Fail(p)
      <4>1. /\ cmd[p].kind = "stack" /\ Src(p) # Dest(p)
            /\ pc' = [pc EXCEPT ![p] = "copying"] /\ UNCHANGED <<cmd, cur>>
        BY <2>7, <3>2 DEF MoveFails
      <4>2. pc'[p] = "copying" /\ Src(p)' = Src(p) /\ Dest(p)' = Dest(p)
        BY <1>0, <4>1 DEF Src, Dest, OutDir, BuildRoot
      <4> QED BY <4>1, <4>2 DEF Shape
    <3> QED BY <3>1, <3>2
  <2>8. CASE Copy(p)
    BY <1>0, <2>8, <2>30 DEF Copy, Shape
  <2>9. CASE HandOver(p)
    BY <1>0, <2>9, <2>30 DEF HandOver, Shape
  <2>10. CASE Upload(p) \/ RemoveLocal(p)
    BY <1>0, <2>10, <2>30, <2>31 DEF Upload, RemoveLocal, Shape
  <2> QED BY <1>2, <2>10, <2>35, <2>1, <2>2, <2>3, <2>32, <2>33, <2>34, <2>4, <2>5, <2>6, <2>7, <2>8, <2>9 DEF Takes, Run
<1> QED BY <1>1, <1>2

(* A command returns nil from its loop, when no node is left. *)
LEMMA StepEnd ==
  ASSUME IInv, NEW p \in Procs, Shape(p), Takes(p), NEW q \in Procs, EndInv(q)
  PROVE  EndInv(q)'
<1>0. Types /\ Control(p) /\ Acts(p)
  BY StepActs DEF IInv, Takes
<1>1. CASE q # p
  BY <1>1, Elsewhere DEF EndInv
<1>2. CASE q = p
  <2> SUFFICES ASSUME res'[p] = "nil" PROVE todo'[p] = {}
    BY <1>2 DEF EndInv
  <2>1. CASE res[p] = "nil"
    <3>1. pc[p] = "done"
      BY <1>0, <2>1 DEF Control
    <3>2. FALSE
      BY <1>0, <2>1, <3>1 DEF Takes, Run, Kill, Running, Begin, Checks, MakeBootloaderDir,
         ExtractBootloader, ReadVolumeLabel, MakeOutDir, NextNode, AllDone, Render, MakeBuildDir,
         Stage, Unlink, ToolStarts, ToolEnds, MakeCidata, MakeScratch, MakeExtract,
         ExtractAndPatch, Move, MoveFails, Copy, HandOver, Upload, RemoveLocal, Plain, Makes
    <3> QED BY <3>2
  <2>2. CASE res[p] # "nil"
    <3> USE DEF Types, TypeOK, Fail, Return
    <3>1. CASE AllDone(p)
      BY <3>1 DEF AllDone, TmpKept
    <3>2. CASE Kill(p) \/ (\E c \in Commands : Begin(p, c)) \/ NextNode(p) \/ HandOver(p) \/ Upload(p)
      BY <1>0, <2>2, <3>2 DEF Kill, Begin, NextNode, HandOver, Upload
    <3>3. CASE \/ Checks(p) \/ MakeBootloaderDir(p) \/ ExtractBootloader(p) \/ ReadVolumeLabel(p)
               \/ MakeOutDir(p) \/ Render(p) \/ MakeBuildDir(p) \/ Stage(p) \/ MakeCidata(p)
               \/ MakeScratch(p) \/ MakeExtract(p)
      <4>1. \A s, t, k : Plain(p, s, t) \/ Makes(p, s, k, t) => res'[p] # "nil"
        BY <1>0, <2>2 DEF Plain, Makes
      <4> QED BY <3>3, <4>1 DEF Checks, MakeBootloaderDir, ExtractBootloader, ReadVolumeLabel,
              MakeOutDir, Render, MakeBuildDir, Stage, MakeCidata, MakeScratch, MakeExtract
    <3>4. CASE \/ Unlink(p) \/ ToolStarts(p) \/ ToolEnds(p) \/ ExtractAndPatch(p) \/ Move(p)
               \/ MoveFails(p) \/ Copy(p) \/ RemoveLocal(p)
      BY <1>0, <2>2, <3>4 DEF Unlink, ToolStarts, ToolEnds, ExtractAndPatch, Move, MoveFails, Copy,
         RemoveLocal
    <3> QED BY <3>1, <3>2, <3>3, <3>4 DEF Takes, Run
  <2> QED BY <2>1, <2>2
<1> QED BY <1>1, <1>2

(* Who runs with whom.                                                      *)
LEMMA StepMet ==
  ASSUME IInv, MetInv, NEW p \in Procs, Shape(p), Takes(p)
  PROVE  MetInv'
<1>0. Types /\ Control(p) /\ Acts(p)
  BY StepActs DEF IInv, Takes
<1> SUFFICES ASSUME NEW a \in Procs, NEW b \in Procs, a # b,
                    Running(a)', Running(b)', Clash(cmd'[a], cmd'[b])
             PROVE  b \in met'[a]
  BY DEF MetInv
<1>1. CASE \E c \in Commands : Begin(p, c)
  <2>1. PICK c \in Commands : Begin(p, c)
    BY <1>1
  <2> DEFINE others == {q \in Procs : Running(q) /\ Clash(c, cmd[q])}
  <2>2. /\ met' = [q \in Procs |-> CASE q = p        -> others
                                     [] q \in others -> met[q] \cup {p}
                                     [] OTHER        -> met[q]]
        /\ cmd' = [cmd EXCEPT ![p] = c] /\ res' = res /\ pc[p] = "idle"
    BY <2>1 DEF Begin, fsVars
  <2>3. ~Running(p) /\ cmd'[p] = c
    BY <1>0, <2>2 DEF Control, Running, Types, TypeOK
  <2>4. \A q \in Procs : q # p => cmd'[q] = cmd[q] /\ (Running(q)' => Running(q))
    BY <2>2 DEF Running
  <2>5. CASE a = p
    <3>1. b \in others
      BY <2>3, <2>4, <2>5
    <3>0. p \notin others
      BY <2>3
    <3> HIDE DEF others
    <3>2. met'[p] = others
      BY <2>2, <3>0
    <3> QED BY <2>5, <3>1, <3>2
  <2>6. CASE b = p
    <3>1. Clash(c, cmd[a])
      BY <2>3, <2>4, <2>6 DEF Clash
    <3>2. a \in others /\ a # p
      BY <2>4, <2>6, <3>1
    <3> QED BY <2>2, <2>6, <3>2
  <2>7. CASE a # p /\ b # p
    <3>1. b \in met[a]
      BY <2>4, <2>7 DEF MetInv
    <3>2. met'[a] \in {met[a], met[a] \cup {p}}
      BY <2>2, <2>7
    <3> QED BY <3>1, <3>2
  <2> QED BY <2>5, <2>6, <2>7
<1>2. CASE ~\E c \in Commands : Begin(p, c)
  <2>1. cmd' = cmd /\ met[a] \subseteq met'[a]
    BY <1>2, MetGrows
  <2>2. \A q \in Procs : Running(q)' => Running(q)
    <3>1. \A q \in Procs : q # p => res'[q] = res[q]
      BY Elsewhere
    <3>2. res'[p] = "none" => res[p] = "none"
      BY <1>0, <1>2 DEF Types, TypeOK, Acts, NextNode, Goes, Unlink, Move, HandOver, Upload, Fail, Return,
         ToolStarts, ToolEnds, MoveFails, Copy, RemoveLocal, fsVars
    <3> QED BY <2>1, <3>1, <3>2 DEF Running
  <2> QED BY <2>1, <2>2 DEF MetInv
<1> QED BY <1>1, <1>2

(* Who began with a node last. *)
LEMMA StepLast ==
  ASSUME IInv, MetInv, LastInv, Apart, NEW p \in Procs, Shape(p), Takes(p)
  PROVE  LastInv' /\ Apart'
<1>0. Types /\ Control(p) /\ Acts(p)
  BY StepActs DEF IInv, Takes
<1>1. CASE \E c \in Commands : Begin(p, c)
  <2>1. /\ cmd[p] = None /\ ~InNode(p) /\ ~InNode(p)' /\ last' = last /\ cur' = cur
    BY <1>0, <1>1 DEF Begin, Control, InNode, Before, Building, Behind, Types, TypeOK, Step
  <2>2. \A q \in Procs : q # p => /\ cmd'[q] = cmd[q] /\ todo'[q] = todo[q] /\ pc'[q] = pc[q]
                                  /\ met[q] \subseteq met'[q]
    BY Elsewhere
  <2>3. \A h \in Hosts : last[h] # p
    BY <2>1 DEF LastInv
  <2>4. LastInv'
    BY <2>1, <2>2, <2>3 DEF LastInv
  <2>5. Apart'
    <3> SUFFICES ASSUME NEW a \in Procs, NEW b \in Procs, NEW h \in Hosts, a # b,
                        met'[a] = {}, last'[h] = a, InNode(b)', cur'[b] = h
                 PROVE  ~Clash(cmd'[a], cmd'[b])
      BY DEF Apart
    <3>1. a # p /\ b # p
      BY <2>1, <2>3
    <3> QED BY <2>1, <2>2, <3>1 DEF Apart, InNode
  <2> QED BY <2>4, <2>5
<1>2. CASE NextNode(p)
  <2>1. \A q \in Procs : q # p => /\ cmd'[q] = cmd[q] /\ todo'[q] = todo[q] /\ pc'[q] = pc[q]
                                  /\ cur'[q] = cur[q]
    BY Elsewhere
  <2>2. /\ cur'[p] \in todo[p] /\ cur'[p] \in Hosts /\ todo'[p] = todo[p] \ {cur'[p]}
        /\ cmd[p] # None /\ todo[p] \subseteq cmd[p].hosts /\ Running(p)
        /\ last' = [last EXCEPT ![cur'[p]] = p] /\ cmd' = cmd /\ met' = met
    BY <1>2, OwnNext DEF NextNode
  <2>3. last \in [Hosts -> Procs \cup {None}]
    BY <1>0 DEF Types, TypeOK
  <2>4. LastInv'
    <3> SUFFICES ASSUME NEW h \in Hosts, NEW q \in Procs, last'[h] = q
                 PROVE  cmd'[q] # None /\ h \in cmd'[q].hosts \ todo'[q]
      BY DEF LastInv
    <3>1. CASE h = cur'[p]
      BY <2>2, <2>3, <3>1
    <3>2. CASE h # cur'[p]
      <4>1. cmd[q] # None /\ h \in cmd[q].hosts \ todo[q]
        BY <2>2, <2>3, <3>2 DEF LastInv
      <4> QED BY <2>1, <2>2, <4>1
    <3> QED BY <3>1, <3>2
  <2>5. Apart'
    <3> SUFFICES ASSUME NEW a \in Procs, NEW b \in Procs, NEW h \in Hosts, a # b,
                        met[a] = {}, last'[h] = a, InNode(b)', cur'[b] = h
                 PROVE  ~Clash(cmd[a], cmd[b])
      BY <2>2 DEF Apart
    <3>1. CASE b = p
      BY <2>2, <2>3, <3>1
    <3>2. CASE b # p
      <4>1. InNode(b) /\ cur[b] = h
        BY <2>1, <3>2 DEF InNode
      <4>2. CASE h = cur'[p]
        <5>1. a = p /\ Running(b)
          BY <2>2, <2>3, <4>1, <4>2, AtWork
        <5> QED BY <2>2, <5>1 DEF MetInv
      <4>3. CASE h # cur'[p]
        BY <2>2, <2>3, <4>1, <4>3 DEF Apart
      <4> QED BY <4>2, <4>3
    <3> QED BY <3>1, <3>2
  <2> QED BY <2>4, <2>5
<1>3. CASE ~(NextNode(p) \/ \E c \in Commands : Begin(p, c))
  <2>1. UNCHANGED <<cmd, todo, cur, last>> /\ \A q \in Procs : met'[q] = {} => met[q] = {}
    <3>1. UNCHANGED <<cmd, todo, cur, last>>
      BY <1>0, <1>3 DEF Acts, Goes, Unlink, Move, HandOver, Upload, ToolStarts, ToolEnds,
         MoveFails, Copy, RemoveLocal, TmpKept, ghosts
    <3> QED BY <1>3, <3>1, MetGrows
  <2>2. \A q \in Procs : InNode(q)' => InNode(q)
    <3>1. \A q \in Procs : q # p => pc'[q] = pc[q]
      BY Elsewhere
    <3>2. InNode(p)' => InNode(p)
      BY <1>0, <1>3 DEF Acts, Goes, Unlink, Move, HandOver, Upload, ToolStarts, ToolEnds,
         MoveFails, Copy, RemoveLocal, InNode, Before, Building, Behind
    <3> QED BY <3>1, <3>2 DEF InNode
  <2> QED BY <2>1, <2>2 DEF LastInv, Apart
<1> QED BY <1>1, <1>2, <1>3

(* The tool opens the file its path names, or a new one. *)
LEMMA ToolOpens ==
  ASSUME IInv, NEW p \in Procs, ToolStarts(p), ~Fail(p)
  PROVE  /\ pc[p] = "tool" /\ pc'[p] = "writing" /\ InNode(p)
         /\ UNCHANGED <<cmd, todo, cur, reads, remote, got, built, last, res>>
         /\ \E i \in Inodes :
              /\ i = IF at[Src(p)] = None THEN Mine(p, cur[p]) ELSE at[Src(p)]
              /\ at' = [at EXCEPT ![Src(p)] = i] /\ handle' = [handle EXCEPT ![p] = i]
              /\ met' = Meets(p, i)
              /\ data' = [data EXCEPT ![i] = data'[i]]
              /\ at[Src(p)] = None => data'[i].by = {p}
<1>1. pc[p] = "tool" /\ InNode(p) /\ Types
  BY DEF ToolStarts, InNode, Building, IInv
<1> DEFINE i == IF at[Src(p)] = None THEN Mine(p, cur[p]) ELSE at[Src(p)]
<1>2. /\ at' = [at EXCEPT ![Src(p)] = i] /\ handle' = [handle EXCEPT ![p] = i]
      /\ pc' = [pc EXCEPT ![p] = "writing"]
      /\ data' = [data EXCEPT ![i] = [by |-> IF at[Src(p)] = None THEN {p} ELSE data[i].by \cup {p},
                                     whole |-> FALSE]]
      /\ UNCHANGED <<cmd, todo, cur, reads, remote, got, built, last, res>> /\ met' = Meets(p, i)
  BY DEF ToolStarts, Step, Mine
<1>3. i \in Inodes
  BY <1>1, AtWork DEF Types, TypeOK
<1> HIDE DEF i
<1>4. data' = [data EXCEPT ![i] = data'[i]] /\ (at[Src(p)] = None => data'[i].by = {p})
  BY <1>1, <1>2, <1>3 DEF Types, TypeOK
<1>5. pc'[p] = "writing"
  BY <1>1, <1>2 DEF Types
<1> QED BY <1>1, <1>2, <1>3, <1>4, <1>5 DEF i

(* The copy opens the file its destination names, or a new one, empty. *)
LEMMA CopyOpens ==
  ASSUME IInv, NEW p \in Procs, MoveFails(p), ~Fail(p)
  PROVE  /\ pc[p] = "move" /\ pc'[p] = "copying" /\ InNode(p) /\ Src(p) # Dest(p)
         /\ at[Src(p)] \in Inodes
         /\ UNCHANGED <<cmd, todo, cur, remote, got, built, last, res>>
         /\ reads' = [reads EXCEPT ![p] = at[Src(p)]]
         /\ \E i \in Inodes :
              /\ i = IF at[Dest(p)] = None THEN <<p, cur[p], "copied">> ELSE at[Dest(p)]
              /\ at' = [at EXCEPT ![Dest(p)] = i] /\ handle' = [handle EXCEPT ![p] = i]
              /\ data' = [data EXCEPT ![i] = Empty] /\ met' = Meets(p, i)
<1>1. pc[p] = "move" /\ InNode(p) /\ Types /\ Src(p) # Dest(p)
  BY DEF MoveFails, InNode, Behind, IInv
<1> DEFINE i == IF at[Dest(p)] = None THEN <<p, cur[p], "copied">> ELSE at[Dest(p)]
<1>2. /\ at' = [at EXCEPT ![Dest(p)] = i] /\ handle' = [handle EXCEPT ![p] = i]
      /\ pc' = [pc EXCEPT ![p] = "copying"] /\ data' = [data EXCEPT ![i] = Empty]
      /\ reads' = [reads EXCEPT ![p] = at[Src(p)]]
      /\ UNCHANGED <<cmd, todo, cur, remote, got, built, last, res>>
      /\ at[Src(p)] # None /\ met' = Meets(p, i)
  BY DEF MoveFails, Step, CopyStarts
<1>3. i \in Inodes /\ at[Src(p)] \in Inodes
  BY <1>1, <1>2, AtWork DEF Types, TypeOK, Inodes
<1> HIDE DEF i
<1>4. pc'[p] = "copying"
  BY <1>1, <1>2 DEF Types
<1> QED BY <1>1, <1>2, <1>3, <1>4 DEF i

(* A step that leaves the names and the handles alone, or takes a name away. *)
LEMMA FewerNames ==
  ASSUME IInv, NamesInv, NEW p \in Procs, Shape(p), Takes(p), handle' = handle,
         \A x \in Paths : at'[x] \in {at[x], None}
  PROVE  NamesInv'
<1>1. Types
  BY DEF IInv
<1>2. \A i \in Inodes : Made(i) => Made(i)'
  BY MadeGrows DEF Made, Inodes
<1>3. \A q \in Procs, h \in Hosts : Started(q, h) => Started(q, h)'
  BY MadeGrows
<1>4. /\ \A x \in Paths : at[x] # None => at[x] \in Inodes
      /\ \A q \in Procs : handle[q] # None => handle[q] \in Inodes
      /\ \A x \in Paths : x[2] \in Hosts
  BY <1>1 DEF Types, TypeOK, Paths
<1> QED BY <1>2, <1>3, <1>4 DEF NamesInv

(* A new name for a new inode. *)
LEMMA NewName ==
  ASSUME IInv, NamesInv, NEW p \in Procs, Shape(p), Takes(p),
         NEW i \in Inodes, NEW x \in Paths,
         at[x] = i \/ (at[x] = None /\ ~Made(i)), Made(i)', x[1] \in Procs => Started(x[1], x[2])',
         at' = [at EXCEPT ![x] = i], handle' = [handle EXCEPT ![p] = i]
  PROVE  NamesInv'
<1>1. Types
  BY DEF IInv
<1>2. \A j \in Inodes : Made(j) => Made(j)'
  BY MadeGrows DEF Made, Inodes
<1>3. \A q \in Procs, h \in Hosts : Started(q, h) => Started(q, h)'
  BY MadeGrows
<1>4. /\ \A y \in Paths : at[y] # None => at[y] \in Inodes
      /\ \A q \in Procs : handle[q] # None => handle[q] \in Inodes
      /\ \A y \in Paths : y[2] \in Hosts
  BY <1>1 DEF Types, TypeOK, Paths
<1>5. /\ \A y \in Paths : at'[y] = IF y = x THEN i ELSE at[y]
      /\ \A q \in Procs : handle'[q] = IF q = p THEN i ELSE handle[q]
  BY <1>1 DEF Types, TypeOK
<1>6. i # None /\ \A y \in Paths : at[y] = i => y = x
  BY CommandsAssumption DEF NamesInv
<1>7. \A y, z \in Paths : at'[y] # None /\ at'[y] = at'[z] => y = z
  BY <1>5, <1>6 DEF NamesInv
<1>8. \A y \in Paths : at'[y] # None => Made(at[y])'
  <2> SUFFICES ASSUME NEW y \in Paths, at'[y] # None PROVE Made(at[y])'
    OBVIOUS
  <2>1. at'[y] = i => Made(at[y])'
    BY DEF Made, Started, Copied
  <2>2. CASE y # x
    <3>1. at'[y] = at[y] /\ at[y] \in Inodes /\ Made(at[y])
      BY <1>4, <1>5, <2>2 DEF NamesInv
    <3>2. \A j : at'[y] = j => (Made(j)' => Made(at[y])')
      BY DEF Made, Started, Copied
    <3> QED BY <1>2, <3>1, <3>2
  <2> QED BY <1>5, <2>1, <2>2
<1>9. \A q \in Procs : handle'[q] # None => Made(handle[q])'
  <2> SUFFICES ASSUME NEW q \in Procs, handle'[q] # None PROVE Made(handle[q])'
    OBVIOUS
  <2>1. handle'[q] = i => Made(handle[q])'
    BY DEF Made, Started, Copied
  <2>2. CASE q # p
    <3>1. handle'[q] = handle[q] /\ handle[q] \in Inodes /\ Made(handle[q])
      BY <1>4, <1>5, <2>2 DEF NamesInv
    <3>2. \A j : handle'[q] = j => (Made(j)' => Made(handle[q])')
      BY DEF Made, Started, Copied
    <3> QED BY <1>2, <3>1, <3>2
  <2> QED BY <1>5, <2>1, <2>2
<1>10. \A y \in Paths : y[1] \in Procs /\ at'[y] # None => Started(y[1], y[2])'
  BY <1>3, <1>4, <1>5 DEF NamesInv
<1> QED BY <1>7, <1>8, <1>9, <1>10 DEF NamesInv

(* Names and handles stay as they are told, whatever a step does. *)
LEMMA StepNames ==
  ASSUME IInv, NamesInv, NEW p \in Procs, Shape(p), Takes(p)
  PROVE  NamesInv'
<1>0. Types /\ Control(p) /\ Acts(p)
  BY StepActs DEF IInv, Takes
<1>1. ASSUME UNCHANGED <<at, handle>> PROVE NamesInv'
  BY <1>1, FewerNames
<1>2. CASE (\E c \in Commands : Begin(p, c)) \/ NextNode(p) \/ Goes(p) \/ HandOver(p)
  BY <1>1, <1>2 DEF Begin, NextNode, Goes, HandOver, fsVars
<1>3. CASE Upload(p)
  BY <1>1, <1>3 DEF Upload, Fail, fsVars
<1>4. CASE ToolEnds(p) /\ ~Fail(p)
  BY <1>1, <1>4 DEF ToolEnds
<1>5. CASE Unlink(p)
  BY <1>0, <1>5, FewerNames DEF Unlink, RemoveStale, Types, TypeOK
<1>6. CASE (Copy(p) \/ RemoveLocal(p)) /\ ~Fail(p)
  BY <1>0, <1>6, FewerNames DEF Copy, RemoveLocal, TmpKept, Types, TypeOK
<1>7. CASE ToolStarts(p) /\ ~Fail(p)
  <2>1. /\ pc[p] = "tool" /\ pc'[p] = "writing" /\ InNode(p) /\ UNCHANGED <<cmd, todo, cur>>
    BY <1>7, ToolOpens
  <2>2. PICK i \in Inodes :
              /\ i = IF at[Src(p)] = None THEN Mine(p, cur[p]) ELSE at[Src(p)]
              /\ at' = [at EXCEPT ![Src(p)] = i] /\ handle' = [handle EXCEPT ![p] = i]
    BY <1>7, ToolOpens
  <2>3. cmd[p] \in Commands /\ cur[p] \in Hosts /\ cur[p] \in cmd[p].hosts \ todo[p] /\ Src(p) \in Paths
    BY <2>1, AtWork
  <2>4. Started(p, cur[p])' /\ ~Started(p, cur[p])
    BY <2>1, <2>3, CommandsAssumption DEF Started, Before
  <2>5. at[Src(p)] = None => ~Made(i) /\ Made(i)'
    BY <2>1, <2>2, <2>4 DEF Made, Mine
  <2>6. at[Src(p)] # None => Made(i) /\ Made(i)'
    <3>1. at[Src(p)] # None => Made(i)
      BY <2>2, <2>3 DEF NamesInv
    <3> QED BY <3>1, MadeGrows DEF Made, Inodes
  <2>7. PICK x \in Paths : x = Src(p)
    BY <2>3
  <2>8. x[1] \in Procs => Started(x[1], x[2])'
    <3>1. x[1] \in Procs => x[1] = p
      BY <2>3, <2>7, CommandsAssumption DEF Src, BuildRoot
    <3>2. x[2] = cur[p] /\ UNCHANGED cur
      BY <2>1, <2>7 DEF Src
    <3>3. x[1] = p => (Started(p, cur[p])' => Started(x[1], x[2])')
      BY <3>2 DEF Started
    <3> QED BY <2>4, <3>1, <3>3
  <2> QED BY <2>2, <2>5, <2>6, <2>7, <2>8, NewName
<1>8. CASE MoveFails(p) /\ ~Fail(p)
  <2>1. /\ pc[p] = "move" /\ pc'[p] = "copying" /\ InNode(p) /\ UNCHANGED <<cmd, todo, cur>>
    BY <1>8, CopyOpens
  <2>2. PICK i \in Inodes :
              /\ i = IF at[Dest(p)] = None THEN <<p, cur[p], "copied">> ELSE at[Dest(p)]
              /\ at' = [at EXCEPT ![Dest(p)] = i] /\ handle' = [handle EXCEPT ![p] = i]
    BY <1>8, CopyOpens
  <2>3. cmd[p] \in Commands /\ cur[p] \in Hosts /\ cur[p] \in cmd[p].hosts \ todo[p] /\ Dest(p) \in Paths
    BY <2>1, AtWork
  <2>4. Copied(p, cur[p])' /\ ~Copied(p, cur[p])
    BY <2>1, <2>3, CommandsAssumption DEF Copied, Before, Building
  <2>5. at[Dest(p)] = None => ~Made(i) /\ Made(i)'
    BY <2>1, <2>2, <2>4 DEF Made
  <2>6. at[Dest(p)] # None => Made(i) /\ Made(i)'
    <3>1. at[Dest(p)] # None => Made(i)
      BY <2>2, <2>3 DEF NamesInv
    <3> QED BY <3>1, MadeGrows DEF Made, Inodes
  <2>7. PICK x \in Paths : x = Dest(p)
    BY <2>3
  <2>8. x[1] \in Procs => Started(x[1], x[2])'
    <3>1. x[1] \in Procs => x[1] = p
      BY <2>3, <2>7, CommandsAssumption DEF Dest, OutDir, BuildRoot
    <3>2. x[2] = cur[p] /\ UNCHANGED cur
      BY <2>1, <2>7 DEF Dest
    <3>3. x[1] = p => (Started(p, cur[p])' => Started(x[1], x[2])')
      BY <3>2 DEF Started
    <3>4. Started(p, cur[p])'
      BY <2>1, <2>3, CommandsAssumption DEF Started, Before
    <3> QED BY <3>1, <3>3, <3>4
  <2> QED BY <2>2, <2>5, <2>6, <2>7, <2>8, NewName
<1>9. CASE Move(p)
  <2>1. /\ pc[p] = "move" /\ pc'[p] = "hand-over" /\ InNode(p) /\ UNCHANGED <<cmd, todo, cur, handle>>
    BY <1>0, <1>9 DEF Move, Types, Step, TmpKept, InNode, Behind
  <2>2. CASE Src(p) = Dest(p)
    BY <1>1, <1>9, <2>1, <2>2 DEF Move
  <2>3. CASE Src(p) # Dest(p)
    <3>1. at[Src(p)] # None /\ at' = [at EXCEPT ![Dest(p)] = at[Src(p)], ![Src(p)] = None]
      BY <1>9, <2>3 DEF Move
    <3>2. /\ cmd[p] \in Commands /\ cur[p] \in Hosts /\ cur[p] \in cmd[p].hosts \ todo[p]
          /\ Src(p) \in Paths /\ Dest(p) \in Paths
      BY <2>1, AtWork
    <3>3. PICK x \in Paths, y \in Paths, i \in Inodes : x = Src(p) /\ y = Dest(p) /\ i = at[Src(p)]
      BY <1>0, <3>1, <3>2 DEF Types, TypeOK
    <3>4. /\ at[x] = i /\ x # y /\ i # None
          /\ \A z \in Paths : at'[z] = IF z = x THEN None ELSE IF z = y THEN i ELSE at[z]
      BY <1>0, <2>3, <3>1, <3>3 DEF Types, TypeOK
    <3>5. \A z \in Paths : at[z] = i => z = x
      BY <3>4 DEF NamesInv
    <3>6. \A z, u \in Paths : at'[z] # None /\ at'[z] = at'[u] => z = u
      BY <3>4, <3>5 DEF NamesInv
    <3>7. \A j \in Inodes : Made(j) => Made(j)'
      BY MadeGrows DEF Made, Inodes
    <3>8. \A z \in Paths : at'[z] # None => Made(at[z])'
      <4> SUFFICES ASSUME NEW z \in Paths, at'[z] # None PROVE Made(at[z])'
        OBVIOUS
      <4>1. at'[z] \in Inodes /\ Made(at'[z])
        BY <1>0, <3>4 DEF Types, TypeOK, NamesInv
      <4>2. PICK j \in Inodes : j = at'[z] /\ Made(j)
        BY <4>1
      <4>3. Made(j)'
        BY <3>7, <4>2
      <4> QED BY <4>2, <4>3 DEF Made, Started, Copied
    <3>9. \A q \in Procs : handle'[q] # None => Made(handle[q])'
      <4> SUFFICES ASSUME NEW q \in Procs, handle'[q] # None PROVE Made(handle[q])'
        OBVIOUS
      <4>1. PICK j \in Inodes : j = handle[q] /\ Made(j) /\ handle'[q] = j
        BY <1>0, <2>1 DEF Types, TypeOK, NamesInv
      <4>2. Made(j)'
        BY <3>7, <4>1
      <4> QED BY <4>1, <4>2 DEF Made, Started, Copied
    <3>10. \A z \in Paths : z[1] \in Procs /\ at'[z] # None => Started(z[1], z[2])'
      <4> SUFFICES ASSUME NEW z \in Paths, z[1] \in Procs, at'[z] # None
                   PROVE  Started(z[1], z[2])'
        OBVIOUS
      <4>1. z[2] \in Hosts
        BY DEF Paths
      <4>2. CASE z = y
        <5>1. z[1] = p /\ z[2] = cur[p]
          BY <3>2, <3>3, <4>2, CommandsAssumption DEF Dest, OutDir, BuildRoot
        <5>2. Started(p, cur[p])
          BY <2>1, <3>2, CommandsAssumption DEF Started, Before
        <5> QED BY <4>1, <5>1, <5>2, MadeGrows
      <4>3. CASE z # y
        BY <3>4, <4>1, <4>3, MadeGrows DEF NamesInv
      <4> QED BY <4>2, <4>3
    <3> QED BY <3>6, <3>8, <3>9, <3>10 DEF NamesInv
  <2> QED BY <2>2, <2>3
<1> QED BY <1>0, <1>2, <1>3, <1>4, <1>5, <1>6, <1>7, <1>8, <1>9 DEF Acts

(* Where a name comes from. *)
LEMMA NameSource ==
  ASSUME IInv, NamesInv, NEW p \in Procs, Shape(p), Takes(p), NEW x \in Paths,
         at'[x] # at[x]
  PROVE  /\ InNode(p) /\ x \in {Src(p), Dest(p)}
         /\ \/ at'[x] = None
            \/ /\ at'[x] \in Inodes /\ at'[x] = handle'[p] /\ ~Made(at'[x])
               /\ \/ pc'[p] = "writing" /\ at'[x] = Mine(p, cur[p])
                  \/ pc'[p] = "copying" /\ at'[x] = <<p, cur[p], "copied">>
            \/ pc[p] = "move" /\ x = Dest(p) /\ at'[x] = at[Src(p)]
<1>0. Types /\ Control(p) /\ Acts(p)
  BY StepActs DEF IInv, Takes
<1>1. CASE (\E c \in Commands : Begin(p, c)) \/ NextNode(p) \/ Goes(p) \/ HandOver(p) \/ Upload(p)
  BY <1>1 DEF Begin, NextNode, Goes, HandOver, Upload, Fail, fsVars
<1>2. CASE ToolEnds(p) /\ ~Fail(p)
  BY <1>2 DEF ToolEnds
<1>3. CASE Unlink(p)
  <2>1. InNode(p) /\ (x # Src(p) => at'[x] = at[x]) /\ (x = Src(p) => at'[x] \in {at[x], None})
    BY <1>0, <1>3 DEF Unlink, RemoveStale, Types, TypeOK, InNode, Before
  <2> QED BY <2>1
<1>4. CASE (Copy(p) \/ RemoveLocal(p)) /\ ~Fail(p)
  <2>1. InNode(p) /\ \E y \in {Src(p), Dest(p)} : at' = at \/ at' = [at EXCEPT ![y] = None]
    BY <1>4 DEF Copy, RemoveLocal, InNode, Behind
  <2> QED BY <1>0, <2>1 DEF Types, TypeOK
<1>5. CASE ToolStarts(p) /\ ~Fail(p)
  <2>1. /\ pc[p] = "tool" /\ pc'[p] = "writing" /\ InNode(p) /\ UNCHANGED <<cmd, todo, cur>>
    BY <1>5, ToolOpens
  <2>2. PICK i \in Inodes :
              /\ i = IF at[Src(p)] = None THEN Mine(p, cur[p]) ELSE at[Src(p)]
              /\ at' = [at EXCEPT ![Src(p)] = i] /\ handle' = [handle EXCEPT ![p] = i]
    BY <1>5, ToolOpens
  <2>3. x = Src(p) /\ at'[x] = i /\ i = Mine(p, cur[p]) /\ handle'[p] = i
    BY <1>0, <2>2 DEF Types, TypeOK
  <2>4. ~Made(i)
    BY <2>1, <2>3 DEF Made, Mine, Started
  <2> QED BY <2>1, <2>3, <2>4
<1>6. CASE MoveFails(p) /\ ~Fail(p)
  <2>1. /\ pc[p] = "move" /\ pc'[p] = "copying" /\ InNode(p) /\ UNCHANGED <<cmd, todo, cur>>
    BY <1>6, CopyOpens
  <2>2. PICK i \in Inodes :
              /\ i = IF at[Dest(p)] = None THEN <<p, cur[p], "copied">> ELSE at[Dest(p)]
              /\ at' = [at EXCEPT ![Dest(p)] = i] /\ handle' = [handle EXCEPT ![p] = i]
    BY <1>6, CopyOpens
  <2>3. x = Dest(p) /\ at'[x] = i /\ i = <<p, cur[p], "copied">> /\ handle'[p] = i
    BY <1>0, <2>2 DEF Types, TypeOK
  <2>4. ~Made(i)
    BY <2>1, <2>3 DEF Made, Copied
  <2> QED BY <2>1, <2>3, <2>4
<1>7. CASE Move(p)
  <2>1. pc[p] = "move" /\ InNode(p)
    BY <1>7 DEF Move, InNode, Behind
  <2>2. /\ Src(p) # Dest(p)
        /\ at' = [at EXCEPT ![Dest(p)] = at[Src(p)], ![Src(p)] = None]
    BY <1>7 DEF Move
  <2>3. /\ x \in {Src(p), Dest(p)} /\ (x = Src(p) => at'[x] = None)
        /\ (x = Dest(p) => at'[x] = at[Src(p)])
    BY <1>0, <2>2 DEF Types, TypeOK
  <2> QED BY <2>1, <2>3
<1> QED BY <1>0, <1>1, <1>2, <1>3, <1>4, <1>5, <1>6, <1>7 DEF Acts

(* A process that writes. *)
LEMMA Writing ==
  ASSUME IInv, NEW p \in Procs, Shape(p), Takes(p), pc'[p] \in {"writing", "copying"}
  PROVE  /\ UNCHANGED <<cmd, todo, cur, remote, got, built, last, res>> /\ InNode(p)
         /\ met' = Meets(p, handle'[p])
         /\ handle'[p] \in Inodes
         /\ \/ pc'[p] = "writing" /\ ToolStarts(p) /\ ~Fail(p) /\ at'[Src(p)] = handle'[p]
            \/ pc'[p] = "copying" /\ MoveFails(p) /\ ~Fail(p) /\ at'[Dest(p)] = handle'[p]
<1>0. Types /\ Control(p) /\ Acts(p)
  BY StepActs DEF IInv, Takes
<1>1. CASE ToolStarts(p) /\ ~Fail(p)
  <2>1. InNode(p) /\ Src(p) \in Paths
    BY <1>1, ToolOpens, AtWork
  <2> QED BY <1>0, <1>1, <2>1, ToolOpens DEF Types, TypeOK
<1>2. CASE MoveFails(p) /\ ~Fail(p)
  <2>1. InNode(p) /\ Dest(p) \in Paths
    BY <1>2, CopyOpens, AtWork
  <2> QED BY <1>0, <1>2, <2>1, CopyOpens DEF Types, TypeOK
<1>3. CASE ~(ToolStarts(p) \/ MoveFails(p)) \/ Fail(p)
  <2>1. pc'[p] \notin {"writing", "copying"}
    BY <1>0, <1>3 DEF Types, Acts, Begin, NextNode, Goes, Unlink, Move, HandOver, Upload, Fail, Return,
       ToolEnds, Copy, RemoveLocal, Step, InNode, Before, Building, Behind
  <2> QED BY <2>1
<1> QED BY <1>1, <1>2, <1>3

(* What is written is an inode. *)
LEMMA StepHandle ==
  ASSUME IInv, NEW p \in Procs, Shape(p), Takes(p), NEW q \in Procs, HandleInv(q)
  PROVE  HandleInv(q)'
<1>1. CASE q # p
  BY <1>1, Elsewhere DEF HandleInv
<1>2. CASE q = p
  BY <1>2, Writing DEF HandleInv
<1> QED BY <1>1, <1>2

(* Who writes an inode another one writes has met it. *)
LEMMA StepShares ==
  ASSUME IInv, SharesMet, NEW p \in Procs, Shape(p), Takes(p)
  PROVE  SharesMet'
<1>0. Types
  BY DEF IInv
<1> SUFFICES ASSUME NEW a \in Procs, NEW b \in Procs, NEW i \in Inodes, a # b,
                    Writes(a, i)', Writes(b, i)'
             PROVE  b \in met'[a]
  BY DEF SharesMet
<1>1. \A q \in Procs : q # p => /\ Writes(q, i)' = Writes(q, i) /\ met[q] \subseteq met'[q]
  BY Elsewhere DEF Writes
<1>2. ASSUME Writes(p, i)', NEW q \in Procs, q # p, Writes(q, i)
      PROVE  q \in met'[p] /\ p \in met'[q]
  <2>1. met' = Meets(p, i)
    BY <1>2, Writing DEF Writes
  <2>2. Running(q)
    BY <1>2, AtWork DEF Writes, InNode, Building, Behind
  <2>3. q \in Writers(p, i)
    BY <1>2, <2>2 DEF Writers, Writes
  <2> QED BY <1>0, <2>1, <2>3, MeetsTypes DEF Types, TypeOK
<1>3. CASE a = p
  BY <1>1, <1>2, <1>3
<1>4. CASE b = p
  BY <1>1, <1>2, <1>4
<1>5. CASE a # p /\ b # p
  BY <1>1, <1>5 DEF SharesMet
<1> QED BY <1>3, <1>4, <1>5

(* Who changes an inode writes it, before the step or after it. *)
LEMMA DataSource ==
  ASSUME IInv, NEW p \in Procs, Shape(p), Takes(p), NEW i \in Inodes, data'[i] # data[i]
  PROVE  InNode(p) /\ (Writes(p, i) \/ Writes(p, i)')
<1>0. Types /\ Control(p) /\ Acts(p)
  BY StepActs DEF IInv, Takes
<1>1. CASE (\E c \in Commands : Begin(p, c)) \/ NextNode(p) \/ Goes(p) \/ HandOver(p) \/ Upload(p)
           \/ Unlink(p) \/ Move(p)
  BY <1>1 DEF Begin, NextNode, Goes, HandOver, Upload, Unlink, Move, Fail, fsVars
<1>2. CASE ToolEnds(p) /\ ~Fail(p)
  <2>1. pc[p] = "writing" /\ \E c : data' = [data EXCEPT ![handle[p]] = c]
    BY <1>2 DEF ToolEnds
  <2>2. i = handle[p]
    BY <1>0, <2>1 DEF Types, TypeOK
  <2> QED BY <2>1, <2>2 DEF InNode, Building, Writes
<1>3. CASE Copy(p) /\ ~Fail(p)
  <2>1. pc[p] = "copying" /\ \E c : data' = [data EXCEPT ![handle[p]] = c]
    BY <1>3 DEF Copy
  <2>2. i = handle[p]
    BY <1>0, <2>1 DEF Types, TypeOK
  <2> QED BY <2>1, <2>2 DEF InNode, Behind, Writes
<1>4. CASE RemoveLocal(p) /\ ~Fail(p)
  BY <1>4 DEF RemoveLocal
<1>5. CASE ToolStarts(p) /\ ~Fail(p)
  <2>1. /\ pc'[p] = "writing" /\ InNode(p)
        /\ \E j \in Inodes : handle' = [handle EXCEPT ![p] = j] /\ data' = [data EXCEPT ![j] = data'[j]]
    BY <1>5, ToolOpens
  <2> QED BY <1>0, <2>1 DEF Types, TypeOK, Writes
<1>6. CASE MoveFails(p) /\ ~Fail(p)
  <2>1. /\ pc'[p] = "copying" /\ InNode(p)
        /\ \E j \in Inodes : handle' = [handle EXCEPT ![p] = j] /\ data' = [data EXCEPT ![j] = Empty]
    BY <1>6, CopyOpens
  <2> QED BY <1>0, <2>1 DEF Types, TypeOK, Writes
<1> QED BY <1>0, <1>1, <1>2, <1>3, <1>4, <1>5, <1>6 DEF Acts

(* What a step does to the storage. *)
LEMMA RemoteSource ==
  ASSUME IInv, NEW p \in Procs, Shape(p), Takes(p), NEW h \in Hosts, remote'[h] # remote[h]
  PROVE  InNode(p) /\ cur[p] = h /\ cmd[p].upload
<1>0. Types /\ Acts(p)
  BY StepActs DEF IInv, Takes
<1>1. CASE Upload(p)
  <2>1. pc[p] = "upload" /\ \E c : remote' = remote \/ remote' = [remote EXCEPT ![cur[p]] = c]
    BY <1>1 DEF Upload
  <2> QED BY <1>0, <2>1 DEF Types, TypeOK, InNode, Behind, Shape
<1>2. CASE ~Upload(p)
  BY <1>0, <1>2 DEF Acts, Begin, NextNode, Goes, Unlink, Move, HandOver, ToolStarts, ToolEnds,
     MoveFails, Copy, RemoveLocal, TmpKept, fsVars
<1> QED BY <1>1, <1>2

(* Commands that do not clash share no name of a node. *)
LEMMA Disjoint ==
  ASSUME IInv, NEW a \in Procs, NEW b \in Procs, a # b, NEW h \in Hosts,
         cmd[a] \in Commands, cmd[b] \in Commands, h \in cmd[a].hosts, h \in cmd[b].hosts,
         ~Clash(cmd[a], cmd[b])
  PROVE  Keeps(a, h) \cap Keeps(b, h) = {} /\ ~(cmd[a].upload /\ cmd[b].upload)
<1>1. Places(cmd[a]) \cap Places(cmd[b]) = {}
  BY DEF Clash
<1>2. ~(cmd[a].upload /\ cmd[b].upload)
  <2>1. \A c \in Commands : c.upload => "storage" \in Places(c)
    BY DEF Places
  <2> QED BY <1>1, <2>1
<1>3. ASSUME NEW p \in Procs, cmd[p] \in Commands
      PROVE  /\ BuildRoot(p) \in Places(cmd[p]) \/ BuildRoot(p) = p
             /\ OutDir(p) \in Places(cmd[p]) \/ OutDir(p) = p
             /\ BuildRoot(p) \in Dirs \cup {p} /\ OutDir(p) \in Dirs \cup {p}
  <2>1. BuildRoot(p) \in Places(cmd[p]) \/ BuildRoot(p) = p
    BY DEF BuildRoot, Places
  <2>2. OutDir(p) \in Places(cmd[p]) \/ OutDir(p) = p
    BY <2>1 DEF OutDir, Places
  <2>3. BuildRoot(p) \in Dirs \cup {p} /\ OutDir(p) \in Dirs \cup {p}
    BY <1>3, CommandsAssumption DEF BuildRoot, OutDir
  <2> QED BY <2>1, <2>2, <2>3
<1>4. ASSUME NEW d \in {BuildRoot(a), OutDir(a)}, NEW e \in {BuildRoot(b), OutDir(b)}
      PROVE  d # e
  <2>1. d \in Places(cmd[a]) \/ d = a
    BY <1>3
  <2>2. e \in Places(cmd[b]) \/ e = b
    BY <1>3
  <2>3. d \in Dirs \cup {a} /\ e \in Dirs \cup {b}
    BY <1>3
  <2> QED BY <1>1, <2>1, <2>2, <2>3, CommandsAssumption
<1> QED BY <1>2, <1>4 DEF Keeps

(* What other processes do, and its own process for another node, leaves    *)
(* the ISO of a process that is alone with it as it is.                     *)
LEMMA Foreign ==
  ASSUME IInv, FilesInv, NEW p \in Procs, Takes(p), NEW a \in Procs, NEW h \in Hosts,
         Alone(a, h), ~(a = p /\ InNode(p) /\ cur[p] = h)
  PROVE  /\ InNode(p) => Keeps(p, cur[p]) \cap Keeps(a, h) = {}
         /\ InNode(p) /\ cur[p] = h => ~(cmd[a].upload /\ cmd[p].upload)
         /\ cmd[a] # None /\ cmd'[a] = cmd[a]
<1>0. Types /\ Control(a) /\ Shape(p)
  BY DEF IInv, FilesInv
<1>1. cmd[a] # None /\ cmd[a] \in Commands /\ h \in cmd[a].hosts
  BY <1>0, AtWork, CommandsAssumption DEF Alone, FilesInv, LastInv, Types, TypeOK
<1>2. cmd'[a] = cmd[a]
  <2>1. CASE a = p
    <3>1. pc[p] # "idle"
      BY <1>0, <1>1, <2>1 DEF Control
    <3>2. ~\E c \in Commands : Begin(p, c)
      BY <3>1 DEF Begin
    <3>3. Acts(p)
      BY <1>0, StepActs DEF Takes
    <3> QED BY <2>1, <3>2, <3>3 DEF Acts, NextNode, Goes, Unlink, Move, HandOver, Upload, ToolStarts,
         ToolEnds, MoveFails, Copy, RemoveLocal, TmpKept
  <2>2. CASE a # p
    BY <1>0, <2>2, Elsewhere
  <2> QED BY <2>1, <2>2
<1>3. ASSUME InNode(p), cur[p] = h
      PROVE  Keeps(p, h) \cap Keeps(a, h) = {} /\ ~(cmd[a].upload /\ cmd[p].upload)
  <2>1. a # p /\ cmd[p] \in Commands /\ h \in cmd[p].hosts /\ Running(p)
    BY <1>3, AtWork
  <2>2. ~Clash(cmd[a], cmd[p])
    <3>1. CASE last[h] = a
      BY <1>3, <2>1, <3>1 DEF FilesInv, Apart, Alone
    <3>2. CASE InNode(a)
      BY <2>1, <3>2, AtWork DEF FilesInv, MetInv, Alone
    <3> QED BY <3>1, <3>2 DEF Alone
  <2> QED BY <1>1, <2>1, <2>2, Disjoint
<1>4. InNode(p) /\ cur[p] # h => Keeps(p, cur[p]) \cap Keeps(a, h) = {}
  BY DEF Keeps
<1> QED BY <1>1, <1>2, <1>3, <1>4

(* It does not write that ISO, nor give it a name. *)
LEMMA NotMine ==
  ASSUME IInv, FilesInv, NEW p \in Procs, Takes(p), NEW a \in Procs, NEW h \in Hosts,
         Alone(a, h), ~(a = p /\ InNode(p) /\ cur[p] = h)
  PROVE  /\ ~Writes(p, Mine(a, h)) /\ ~Writes(p, Mine(a, h))'
         /\ \A x \in Paths : at'[x] = Mine(a, h) => at[x] = Mine(a, h)
<1>0. Types /\ Shape(p) /\ NamesInv /\ MineInv(a, h)
  BY DEF IInv, FilesInv
<1>1. ~Writes(p, Mine(a, h))
  BY <1>0 DEF MineInv, Writes, InNode, Building, Behind
<1>2. \A x \in Paths : at[x] = Mine(a, h) => x \in Keeps(a, h)
  BY <1>0 DEF MineInv
<1>3. ASSUME NEW x \in Paths, at'[x] = Mine(a, h), at[x] # Mine(a, h)
      PROVE  FALSE
  <2>1. Mine(a, h) \in Inodes /\ Mine(a, h) # None
    BY CommandsAssumption DEF Mine, Inodes
  <2>2. /\ InNode(p)
        /\ at'[x] \in {Mine(p, cur[p]), <<p, cur[p], "copied">>} \/ at'[x] = at[Src(p)]
    BY <1>0, <1>3, <2>1, NameSource
  <2>3. Src(p) \in Paths /\ Src(p) \in Keeps(p, cur[p])
    BY <2>2, AtWork
  <2>4. at[Src(p)] # Mine(a, h)
    BY <1>2, <2>2, <2>3, Foreign
  <2> QED BY <1>3, <2>2, <2>4 DEF Mine
<1>4. ASSUME Writes(p, Mine(a, h))' PROVE FALSE
  <2>1. InNode(p) /\ \E x \in {Src(p), Dest(p)} : at'[x] = handle'[p]
    BY <1>0, <1>4, Writing DEF Writes
  <2>2. PICK x \in Paths : x \in Keeps(p, cur[p]) /\ at'[x] = handle'[p]
    BY <2>1, AtWork
  <2>3. at[x] = Mine(a, h)
    BY <1>3, <1>4, <2>2 DEF Writes, Mine
  <2> QED BY <1>2, <2>1, <2>2, <2>3, Foreign
<1> QED BY <1>1, <1>3, <1>4

(* The two names of an ISO. *)
LEMMA KeepsPaths ==
  ASSUME Types, NEW p \in Procs, cmd[p] # None, NEW h \in Hosts
  PROVE  Keeps(p, h) \subseteq Paths
<1>1. cmd[p] \in Commands
  BY DEF Types, TypeOK
<1>2. BuildRoot(p) \in Dirs \cup Procs
  BY <1>1, CommandsAssumption DEF BuildRoot
<1>3. OutDir(p) \in Dirs \cup Procs
  BY <1>1, <1>2, CommandsAssumption DEF OutDir
<1> QED BY <1>2, <1>3 DEF Keeps, Paths

(* It leaves the names, the bytes and the copy on the storage.              *)
LEMMA Frame ==
  ASSUME IInv, FilesInv, NEW p \in Procs, Takes(p), NEW a \in Procs, NEW h \in Hosts,
         Alone(a, h), ~(a = p /\ InNode(p) /\ cur[p] = h)
  PROVE  /\ Keeps(a, h) \subseteq Paths /\ Keeps(a, h)' = Keeps(a, h)
         /\ \A x \in Keeps(a, h) : at'[x] = at[x]
         /\ data'[Mine(a, h)] = data[Mine(a, h)]
         /\ \A x \in Keeps(a, h) : at[x] # None /\ ~Writes(p, at[x]) =>
              data'[at[x]] = data[at[x]] /\ ~Writes(p, at[x])'
         /\ cmd[a].upload => remote'[h] = remote[h]
<1>0. Types /\ Shape(p) /\ NamesInv
  BY DEF IInv, FilesInv
<1>1. /\ InNode(p) => Keeps(p, cur[p]) \cap Keeps(a, h) = {}
      /\ InNode(p) /\ cur[p] = h => ~(cmd[a].upload /\ cmd[p].upload)
      /\ cmd[a] # None /\ cmd'[a] = cmd[a]
  BY Foreign
<1>2. Keeps(a, h) \subseteq Paths
  BY <1>0, <1>1, KeepsPaths
<1>3. Keeps(a, h)' = Keeps(a, h)
  BY <1>1 DEF Keeps, BuildRoot, OutDir
<1>4. \A x \in Keeps(a, h) : at'[x] = at[x]
  <2> SUFFICES ASSUME NEW x \in Keeps(a, h), at'[x] # at[x] PROVE FALSE
    OBVIOUS
  <2>1. InNode(p) /\ x \in {Src(p), Dest(p)}
    BY <1>0, <1>2, NameSource
  <2> QED BY <1>1, <2>1, AtWork
<1>5. data'[Mine(a, h)] = data[Mine(a, h)]
  <2>1. Mine(a, h) \in Inodes
    BY DEF Mine, Inodes
  <2> QED BY <1>0, <2>1, NotMine, DataSource
<1>6. \A x \in Keeps(a, h) : at[x] # None /\ ~Writes(p, at[x]) =>
        data'[at[x]] = data[at[x]] /\ ~Writes(p, at[x])'
  <2> SUFFICES ASSUME NEW x \in Keeps(a, h), at[x] # None, ~Writes(p, at[x])
               PROVE  data'[at[x]] = data[at[x]] /\ ~Writes(p, at[x])'
    OBVIOUS
  <2>1. PICK i \in Inodes : i = at[x] /\ at'[x] = i
    BY <1>0, <1>2, <1>4 DEF Types, TypeOK
  <2>2. ASSUME Writes(p, i)' PROVE FALSE
    <3>1. pc'[p] \in {"writing", "copying"} /\ handle'[p] = i
      BY <2>2 DEF Writes
    <3>2. InNode(p) /\ (at'[Src(p)] = i \/ at'[Dest(p)] = i)
      BY <1>0, <3>1, Writing
    <3>3. Src(p) \in Paths /\ Dest(p) \in Paths /\ {Src(p), Dest(p)} \cap Keeps(a, h) = {}
      BY <1>1, <3>2, AtWork
    <3>4. NamesInv' /\ i # None
      BY <1>0, StepNames, CommandsAssumption
    <3>5. \A y \in Paths : at'[y] = i => y = x
      BY <1>2, <2>1, <3>4 DEF NamesInv
    <3> QED BY <3>2, <3>3, <3>5
  <2>3. data'[i] = data[i]
    BY <1>0, <2>1, <2>2, DataSource
  <2> QED BY <2>1, <2>2, <2>3 DEF Writes
<1>7. cmd[a].upload => remote'[h] = remote[h]
  BY <1>0, <1>1, RemoteSource
<1> QED BY <1>2, <1>3, <1>4, <1>5, <1>6, <1>7

(* A process gets alone with a node when it begins with it. *)
LEMMA AloneBefore ==
  ASSUME IInv, FilesInv, NEW p \in Procs, Takes(p), NEW a \in Procs, NEW h \in Hosts, Alone(a, h)'
  PROVE  Alone(a, h) \/ (p = a /\ NextNode(p) /\ cur'[p] = h)
<1>0. Types /\ Control(p) /\ Shape(p) /\ Acts(p)
  BY StepActs DEF IInv, FilesInv, Takes
<1>1. CASE a # p
  <2>1. /\ met[a] = {} /\ (InNode(a)' => InNode(a)) /\ cur'[a] = cur[a]
    BY <1>0, <1>1, Elsewhere DEF Alone, InNode
  <2>2. last'[h] = a => last[h] = a
    <3>1. CASE NextNode(p)
      <4>1. last' = [last EXCEPT ![cur'[p]] = p]
        BY <3>1, OwnNext
      <4> QED BY <1>0, <1>1, <4>1 DEF Types, TypeOK
    <3>2. CASE ~NextNode(p)
      <4>1. last' = last
        BY <1>0, <3>2 DEF Acts, Begin, Goes, Unlink, Move, HandOver, Upload, ToolStarts, ToolEnds,
           MoveFails, Copy, RemoveLocal, TmpKept, ghosts
      <4> QED BY <4>1
    <3> QED BY <3>1, <3>2
  <2> QED BY <2>1, <2>2 DEF Alone
<1>2. CASE a = p
  <2>1. CASE \E c \in Commands : Begin(p, c)
    <3>1. cmd[p] = None /\ ~InNode(p)' /\ last' = last
      BY <1>0, <2>1 DEF Begin, Control, InNode, Before, Building, Behind, Types, Step
    <3> QED BY <1>2, <3>1 DEF Alone, FilesInv, LastInv
  <2>2. CASE NextNode(p)
    <3>1. cur'[p] # h => last'[h] = last[h] /\ met' = met
      BY <1>0, <2>2, OwnNext DEF NextNode, Types, TypeOK
    <3> QED BY <1>2, <2>2, <3>1 DEF Alone
  <2>3. CASE ~(NextNode(p) \/ \E c \in Commands : Begin(p, c))
    <3>1. UNCHANGED <<cur, last>> /\ (InNode(p)' => InNode(p))
      BY <1>0, <2>3 DEF Acts, Goes, Unlink, Move, HandOver, Upload, ToolStarts, ToolEnds,
         MoveFails, Copy, RemoveLocal, TmpKept, ghosts, InNode, Before, Building, Behind
    <3>2. met'[p] = {} => met[p] = {}
      BY <1>0, <2>3, MetGrows
    <3> QED BY <1>2, <3>1, <3>2 DEF Alone
  <2> QED BY <2>1, <2>2, <2>3
<1> QED BY <1>1, <1>2

(* Nobody else writes it, under whatever name. *)
LEMMA StepMine ==
  ASSUME IInv, FilesInv, NEW p \in Procs, Takes(p), NEW a \in Procs, NEW h \in Hosts
  PROVE  MineInv(a, h)'
<1>0. Types /\ Shape(p) /\ NamesInv /\ MineInv(a, h) /\ Control(p)
  BY DEF IInv, FilesInv
<1> SUFFICES ASSUME Alone(a, h)'
             PROVE  /\ \A q \in Procs : Writes(q, Mine(a, h))' => q = a /\ cur'[a] = h
                    /\ \A x \in Paths : at'[x] = Mine(a, h) => x \in Keeps(a, h)'
  BY DEF MineInv, Mine
<1>1. \A q \in Procs : q # p => /\ Writes(q, Mine(a, h))' = Writes(q, Mine(a, h))
                                /\ cur'[q] = cur[q]
  BY <1>0, Elsewhere DEF Writes, Mine
<1>2. CASE p = a /\ NextNode(p) /\ cur'[p] = h
  <2>1. h \in todo[p] /\ pc'[p] = "render" /\ at' = at
    BY <1>2, OwnNext DEF NextNode, fsVars
  <2>2. ~Made(Mine(a, h)) /\ Mine(a, h) \in Inodes /\ Mine(a, h) # None
    BY <1>2, <2>1, CommandsAssumption DEF Made, Mine, Started, Inodes
  <2>3. \A x \in Paths : at'[x] # Mine(a, h)
    BY <1>0, <2>1, <2>2 DEF NamesInv
  <2>4. \A q \in Procs : handle[q] # Mine(a, h)
    BY <1>0, <2>2 DEF NamesInv
  <2>5. \A q \in Procs : ~Writes(q, Mine(a, h))'
    <3>1. ~Writes(p, Mine(a, h))'
      BY <2>1 DEF Writes
    <3> QED BY <1>1, <2>4, <3>1 DEF Writes
  <2> QED BY <2>3, <2>5
<1>3. CASE Alone(a, h) /\ a = p /\ InNode(p) /\ cur[p] = h
  <2>1. cur' = cur /\ cmd' = cmd
    BY <1>0, <1>3, StepActs DEF Takes, Acts, Begin, NextNode, Goes, Unlink, Move, HandOver, Upload,
       ToolStarts, ToolEnds, MoveFails, Copy, RemoveLocal, TmpKept, InNode, Before, Building, Behind
  <2>2. \A x \in Paths : at'[x] = Mine(a, h) => x \in Keeps(a, h)
    <3> SUFFICES ASSUME NEW x \in Paths, at'[x] = Mine(a, h), at[x] # at'[x] PROVE x \in Keeps(a, h)
      BY <1>0, <1>3 DEF MineInv
    <3>1. x \in {Src(p), Dest(p)}
      BY <1>0, NameSource
    <3> QED BY <1>3, <3>1 DEF Keeps, Src, Dest
  <2>3. Keeps(a, h)' = Keeps(a, h)
    BY <2>1 DEF Keeps, BuildRoot, OutDir
  <2>4. \A q \in Procs : Writes(q, Mine(a, h))' => q = a /\ cur'[a] = h
    BY <1>0, <1>1, <1>3, <2>1 DEF MineInv
  <2> QED BY <2>2, <2>3, <2>4
<1>4. CASE Alone(a, h) /\ ~(a = p /\ InNode(p) /\ cur[p] = h)
  <2>1. /\ ~Writes(p, Mine(a, h))'
        /\ \A x \in Paths : at'[x] = Mine(a, h) => at[x] = Mine(a, h)
    BY <1>4, NotMine
  <2>2. Keeps(a, h)' = Keeps(a, h)
    BY <1>4, Frame
  <2>3. \A q \in Procs : Writes(q, Mine(a, h))' => q = a /\ cur'[a] = h
    BY <1>0, <1>1, <1>4, <2>1 DEF MineInv
  <2> QED BY <1>0, <1>4, <2>1, <2>2, <2>3 DEF MineInv
<1> QED BY <1>2, <1>3, <1>4, AloneBefore

(* A name keeps a finished ISO that the step does not write. *)
LEMMA HoldsOn ==
  ASSUME IInv, NEW p \in Procs, Shape(p), Takes(p), NEW a, NEW x, Holds(a, x),
         at'[x] = at[x], ~Writes(p, at[x]) => data'[at[x]] = data[at[x]] /\ ~Writes(p, at[x])'
  PROVE  Holds(a, x)'
<1>1. ASSUME NEW q \in Procs, q # p PROVE ~Writes(q, at[x])'
  BY <1>1, Elsewhere DEF Holds, Writes
<1>2. ~Writes(p, at[x])' /\ data'[at[x]] = data[at[x]]
  BY DEF Holds
<1> QED BY <1>1, <1>2 DEF Holds, Own

(* What another process has in its files. *)
LEMMA OthersOwn ==
  ASSUME IInv, FilesInv, NEW p \in Procs, Takes(p), NEW a \in Procs, a # p
  PROVE  OwnInv(a)' /\ GotInv(a)'
<1>0. Types /\ Shape(p) /\ Shape(a) /\ OwnInv(a) /\ GotInv(a)
  BY DEF IInv, FilesInv
<1>1. /\ cmd'[a] = cmd[a] /\ pc'[a] = pc[a] /\ res'[a] = res[a]
      /\ cur'[a] = cur[a] /\ todo'[a] = todo[a] /\ reads'[a] = reads[a]
      /\ handle'[a] = handle[a] /\ got'[a] = got[a] /\ (met'[a] = {} => met[a] = {})
  BY <1>0, Elsewhere
<1>2. GotInv(a)'
  BY <1>0, <1>1 DEF GotInv, InNode
<1>3. OwnInv(a)'
  <2> DEFINE h == cur[a]
  <2>1. CASE met'[a] = {} /\ InNode(a)
    <3>1. Alone(a, h) /\ met[a] = {}
      BY <1>1, <2>1 DEF Alone
    <3>2. h \in Hosts /\ Keeps(a, h) = {Src(a), Dest(a)}
      BY <2>1, AtWork
    <3> HIDE DEF h
    <3>3. /\ \A x \in Keeps(a, h) : at'[x] = at[x]
          /\ data'[Mine(a, h)] = data[Mine(a, h)]
          /\ \A x \in Keeps(a, h) : at[x] # None /\ ~Writes(p, at[x]) =>
               data'[at[x]] = data[at[x]] /\ ~Writes(p, at[x])'
          /\ cmd[a].upload => remote'[h] = remote[h]
      BY <3>1, <3>2, Frame
    <3>4. at'[Src(a)] = at[Src(a)] /\ at'[Dest(a)] = at[Dest(a)] /\ Dest(a)[1] = OutDir(a)
      BY <3>2, <3>3 DEF Dest
    <3>5. Src(a)' = Src(a) /\ Dest(a)' = Dest(a) /\ cur'[a] = h /\ Mine(a, h)' = Mine(a, h)
      BY <1>1 DEF Src, Dest, BuildRoot, OutDir, h, Mine
    <3>6. /\ pc[a] = "tool" => at[Src(a)] = None
          /\ pc[a] = "writing" => /\ handle[a] = Mine(a, h) /\ at[Src(a)] = Mine(a, h)
                                  /\ data[Mine(a, h)].by = {a}
          /\ pc[a] \in {"move", "copying"} => at[Src(a)] = Mine(a, h) /\ Own(data[Mine(a, h)], a)
          /\ pc[a] = "copying" => /\ reads[a] = Mine(a, h) /\ handle[a] = at[Dest(a)]
                                  /\ data[handle[a]].by = {}
          /\ pc[a] \in {"hand-over", "upload", "uploaded"} => Holds(a, Dest(a))
          /\ pc[a] = "uploaded" => Own(remote[h], a) /\ Own(got[a][h], a)
      BY <1>0, <3>1 DEF OwnInv, h
    <3>7. pc[a] = "copying" => data'[handle[a]] = data[handle[a]]
      <4> SUFFICES ASSUME pc[a] = "copying" PROVE data'[handle[a]] = data[handle[a]]
        OBVIOUS
      <4>1. PICK i \in Inodes : i = handle[a] /\ i = at[Dest(a)] /\ i # None
        BY <3>6, CommandsAssumption DEF FilesInv, HandleInv
      <4>2. ~Writes(p, i)
        <5>1. Writes(a, i)
          BY <4>1 DEF Writes
        <5> QED BY <3>1, <5>1 DEF FilesInv, SharesMet
      <4> QED BY <3>2, <3>3, <4>1, <4>2
    <3>8. pc[a] \in {"hand-over", "upload", "uploaded"} => Holds(a, Dest(a))'
      <4> SUFFICES ASSUME pc[a] \in {"hand-over", "upload", "uploaded"} PROVE Holds(a, Dest(a))'
        OBVIOUS
      <4>1. PICK x : x = Dest(a) /\ x = Dest(a)'
        BY <3>5
      <4>2. /\ Holds(a, x) /\ at'[x] = at[x]
            /\ ~Writes(p, at[x]) => data'[at[x]] = data[at[x]] /\ ~Writes(p, at[x])'
        BY <3>2, <3>3, <3>6, <4>1 DEF Holds
      <4>3. Holds(a, x)'
        BY <1>0, <4>2, HoldsOn
      <4> QED BY <4>1, <4>3 DEF Holds, Own, Writes
    <3>9. pc[a] = "uploaded" => Own(remote'[h], a) /\ Own(got'[a][h], a)
      BY <1>0, <1>1, <3>3, <3>6 DEF Shape
    <3>10. pc[a] \in {"move", "copying"} => at'[Src(a)] = Mine(a, h) /\ Own(data'[Mine(a, h)], a)
      BY <3>3, <3>4, <3>6
    <3> QED BY <1>1, <3>3, <3>4, <3>5, <3>6, <3>7, <3>8, <3>9, <3>10 DEF OwnInv, Own, Mine
  <2>2. CASE ~InNode(a)
    BY <1>1, <2>2 DEF OwnInv, InNode, Building, Behind
  <2> QED BY <2>1, <2>2 DEF OwnInv
<1> QED BY <1>2, <1>3

(* What a step of its own does to them. *)
LEMMA OwnOwn ==
  ASSUME IInv, FilesInv, NEW p \in Procs, Takes(p)
  PROVE  OwnInv(p)'
<1>0. Types /\ Control(p) /\ Shape(p) /\ NamesInv /\ HandleInv(p) /\ OwnInv(p) /\ Acts(p)
  BY StepActs DEF IInv, FilesInv, Takes
<1>1. /\ data \in [Inodes -> Contents] /\ at \in [Paths -> Inodes \cup {None}]
      /\ \A h \in Hosts : Mine(p, h) \in Inodes /\ Mine(p, h) # None
  BY <1>0, CommandsAssumption DEF Types, TypeOK, Mine, Inodes
<1>2. ASSUME pc'[p] \notin {"tool", "writing", "move", "copying", "hand-over", "upload", "uploaded"}
      PROVE  OwnInv(p)'
  BY <1>2 DEF OwnInv
<1> SUFFICES ASSUME met'[p] = {} PROVE OwnInv(p)'
  BY DEF OwnInv
<1>3. CASE (\E c \in Commands : Begin(p, c)) \/ NextNode(p)
  BY <1>0, <1>2, <1>3 DEF Begin, NextNode, Step, Types
<1>4. CASE Goes(p)
  <2>1. CASE pc'[p] # "tool"
    BY <1>2, <1>4, <2>1 DEF Goes, InNode, Before, Building, Behind
  <2>2. CASE pc'[p] = "tool"
    <3>1. /\ UNCHANGED <<cmd, cur, at>> /\ pc[p] \in Before /\ cmd[p].kind = "ubuntu" /\ InNode(p)
      BY <1>4, <2>2 DEF Goes, InNode, Building
    <3>2. Src(p) \in Paths /\ Src(p) = <<p, cur[p]>> /\ Src(p)' = Src(p)
      BY <3>1, AtWork DEF Src, BuildRoot
    <3>3. ~Started(p, cur[p])
      BY <3>1 DEF Started
    <3>4. at[Src(p)] = None
      BY <1>0, <3>2, <3>3 DEF NamesInv
    <3> QED BY <2>2, <3>1, <3>2, <3>4 DEF OwnInv
  <2> QED BY <2>1, <2>2
<1>5. CASE InNode(p) /\ ~Goes(p)
  <2> DEFINE h == cur[p]
  <2>1. /\ UNCHANGED <<cmd, cur>> /\ met[p] = {}
    <3>1. ~NextNode(p) /\ ~\E c \in Commands : Begin(p, c)
      BY <1>5 DEF Begin, NextNode, InNode, Before, Building, Behind
    <3>2. UNCHANGED <<cmd, cur>>
      BY <1>0, <1>5, <3>1 DEF Acts, Unlink, Move, HandOver, Upload, ToolStarts, ToolEnds,
         MoveFails, Copy, RemoveLocal, TmpKept, ghosts
    <3> QED BY <1>0, <3>1, <3>2, MetGrows
  <2>2. Src(p)' = Src(p) /\ Dest(p)' = Dest(p) /\ cur'[p] = h /\ OutDir(p)' = OutDir(p)
    BY <2>1 DEF Src, Dest, BuildRoot, OutDir
  <2>3. /\ h \in Hosts /\ cmd[p] \in Commands /\ Src(p) \in Paths /\ Dest(p) \in Paths
        /\ Mine(p, h) \in Inodes
    BY <1>5, AtWork
  <2> HIDE DEF h
  <2>4. /\ pc[p] = "tool" => at[Src(p)] = None
        /\ pc[p] = "writing" => /\ handle[p] = Mine(p, h) /\ at[Src(p)] = Mine(p, h)
                                /\ data[Mine(p, h)].by = {p}
        /\ pc[p] \in {"move", "copying"} => at[Src(p)] = Mine(p, h) /\ Own(data[Mine(p, h)], p)
        /\ pc[p] = "copying" => /\ reads[p] = Mine(p, h) /\ handle[p] = at[Dest(p)]
                                /\ data[handle[p]].by = {}
        /\ pc[p] \in {"hand-over", "upload", "uploaded"} => Holds(p, Dest(p))
        /\ pc[p] = "uploaded" => Own(remote[h], p) /\ Own(got[p][h], p)
    BY <1>0, <2>1 DEF OwnInv, h
  <2>15. InNode(p)' => \A q \in Procs : pc'[q] \in {"writing", "copying"} /\ handle'[q] = Mine(p, h)
                                       => q = p
    <3>1. PICK g \in Hosts : g = cur[p]
      BY <1>5, AtWork
    <3>2. MineInv(p, g)'
      BY StepMine
    <3>3. InNode(p)' => Alone(p, g)'
      BY <2>1, <3>1 DEF Alone
    <3> QED BY <3>1, <3>2, <3>3 DEF MineInv, Writes, Mine, h
  <2>14. ASSUME UNCHANGED <<at, data>>, pc'[p] \notin {"writing", "copying"}, Holds(p, Dest(p))
         PROVE  Holds(p, Dest(p))'
    <3>1. PICK x : x = Dest(p) /\ x' = Dest(p)'
      BY <2>2
    <3>2. Holds(p, x)
      BY <2>14, <3>1
    <3>3. ~Writes(p, at[x])'
      BY <2>14 DEF Writes
    <3>4. Holds(p, x)'
      BY <1>0, <2>14, <3>2, <3>3, HoldsOn
    <3> QED BY <3>1, <3>4 DEF Holds, Own, Writes
  <2>5. CASE Unlink(p)
    <3>1. pc'[p] = "tool"
      BY <1>0, <2>5 DEF Unlink, Step, Types
    <3>2. at' = RemoveStale(p)
      <4> SUFFICES ASSUME met' = [met EXCEPT ![p] = @ \cup {at[Src(p)][1]}] PROVE FALSE
        BY <2>5 DEF Unlink
      <4> QED BY <1>0 DEF Types, TypeOK
    <3>3. at'[Src(p)] = None
      BY <1>1, <2>3, <3>2 DEF RemoveStale
    <3> QED BY <2>2, <3>1, <3>3 DEF OwnInv
  <2>6. CASE ToolStarts(p) /\ ~Fail(p)
    <3>1. pc[p] = "tool" /\ pc'[p] = "writing" /\ at[Src(p)] = None
      BY <2>4, <2>6, ToolOpens
    <3>2. /\ at' = [at EXCEPT ![Src(p)] = Mine(p, h)] /\ handle' = [handle EXCEPT ![p] = Mine(p, h)]
          /\ data'[Mine(p, h)].by = {p}
      BY <2>6, <3>1, ToolOpens DEF h
    <3>3. at'[Src(p)] = Mine(p, h) /\ handle'[p] = Mine(p, h)
      BY <1>0, <1>1, <2>3, <3>2 DEF Types, TypeOK
    <3> QED BY <2>2, <3>1, <3>2, <3>3 DEF OwnInv, Mine
  <2>7. CASE ToolEnds(p) /\ ~Fail(p)
    <3>1. /\ pc[p] = "writing" /\ at' = at
          /\ data' = [data EXCEPT ![handle[p]] = [by |-> data[handle[p]].by \cup {p}, whole |-> TRUE]]
          /\ pc'[p] = IF cmd[p].kind = "up" THEN "upload" ELSE "move"
      BY <1>0, <2>7 DEF ToolEnds, Step, Types
    <3>2. at'[Src(p)] = Mine(p, h)
      BY <2>4, <3>1
    <3>3. Own(data'[Mine(p, h)], p)
      <4>1. data' = [data EXCEPT ![Mine(p, h)] = [by |-> data[Mine(p, h)].by \cup {p}, whole |-> TRUE]]
        BY <2>4, <3>1
      <4>2. data[Mine(p, h)].by \cup {p} = {p}
        BY <2>4, <3>1
      <4> QED BY <1>1, <2>3, <4>1, <4>2 DEF Own
    <3>4. CASE cmd[p].kind = "up"
      <4>1. Dest(p) = Src(p)
        BY <2>3, <3>4, CommandsAssumption DEF Dest, Src, OutDir
      <4>2. InNode(p)' /\ at'[Dest(p)] = Mine(p, h)
        BY <3>1, <3>2, <3>4, <4>1 DEF InNode, Behind
      <4>3. Holds(p, Dest(p))'
        BY <1>1, <2>2, <2>3, <2>15, <3>1, <3>3, <3>4, <4>2 DEF Holds, Own, Mine, Writes
      <4> QED BY <3>1, <3>4, <4>3 DEF OwnInv
    <3>5. CASE cmd[p].kind # "up"
      BY <2>2, <3>1, <3>2, <3>3, <3>5 DEF OwnInv, Mine, Own
    <3> QED BY <3>4, <3>5
  <2>8. CASE Move(p)
    <3>1. pc[p] = "move" /\ pc'[p] = "hand-over" /\ data' = data
      BY <1>0, <2>8 DEF Move, Step, Types
    <3>2. at'[Dest(p)] = Mine(p, h)
      <4>1. CASE Src(p) = Dest(p)
        BY <2>4, <2>8, <3>1, <4>1 DEF Move
      <4>2. CASE Src(p) # Dest(p)
        <5>1. at' = [at EXCEPT ![Dest(p)] = at[Src(p)], ![Src(p)] = None]
          BY <2>8, <4>2 DEF Move
        <5> QED BY <1>1, <2>3, <2>4, <3>1, <4>2, <5>1
      <4> QED BY <4>1, <4>2
    <3>3. Holds(p, Dest(p))'
      <4>1. InNode(p)'
        BY <3>1 DEF InNode, Behind
      <4> QED BY <1>1, <2>2, <2>3, <2>4, <2>15, <3>1, <3>2, <4>1 DEF Holds, Own, Mine, Writes
    <3> QED BY <3>1, <3>3 DEF OwnInv
  <2>9. CASE MoveFails(p) /\ ~Fail(p)
    <3>1. /\ pc[p] = "move" /\ pc'[p] = "copying" /\ Src(p) # Dest(p)
          /\ reads' = [reads EXCEPT ![p] = at[Src(p)]]
      BY <2>9, CopyOpens
    <3>2. PICK i \in Inodes :
              /\ i = IF at[Dest(p)] = None THEN <<p, cur[p], "copied">> ELSE at[Dest(p)]
              /\ at' = [at EXCEPT ![Dest(p)] = i] /\ handle' = [handle EXCEPT ![p] = i]
              /\ data' = [data EXCEPT ![i] = Empty]
      BY <2>9, CopyOpens
    <3>3. i # Mine(p, h)
      <4>1. at[Dest(p)] # at[Src(p)]
        BY <1>0, <1>1, <2>3, <2>4, <3>1 DEF NamesInv
      <4> QED BY <2>4, <3>1, <3>2, <4>1 DEF Mine
    <3>4. /\ at'[Dest(p)] = i /\ at'[Src(p)] = Mine(p, h) /\ handle'[p] = i /\ reads'[p] = Mine(p, h)
          /\ data'[i] = Empty /\ data'[Mine(p, h)] = data[Mine(p, h)]
      BY <1>0, <1>1, <2>3, <2>4, <3>1, <3>2, <3>3 DEF Types, TypeOK
    <3> QED BY <2>2, <2>4, <3>1, <3>4 DEF OwnInv, Mine, Own, Empty
  <2>10. CASE Copy(p) /\ ~Fail(p)
    <3>1. /\ pc[p] = "copying" /\ pc'[p] = "hand-over"
          /\ data' = [data EXCEPT ![handle[p]] =
                      [by |-> data[handle[p]].by \cup data[reads[p]].by, whole |-> data[reads[p]].whole]]
          /\ at' \in {at, [at EXCEPT ![Src(p)] = None]} /\ UNCHANGED handle
      BY <1>0, <2>10 DEF Copy, Step, Types, TmpKept
    <3>2. Src(p) # Dest(p) /\ handle[p] \in Inodes
      BY <1>0, <3>1 DEF Shape, HandleInv
    <3>3. at'[Dest(p)] = handle[p] /\ Own(data'[handle[p]], p)
      <4>1. at'[Dest(p)] = handle[p]
        BY <1>1, <2>3, <2>4, <3>1, <3>2
      <4>2. data'[handle[p]] = [by |-> data[handle[p]].by \cup data[reads[p]].by,
                                whole |-> data[reads[p]].whole]
        BY <1>1, <3>1, <3>2
      <4> QED BY <2>4, <3>1, <4>1, <4>2 DEF Own
    <3>5. \A q \in Procs : ~(pc'[q] \in {"writing", "copying"} /\ handle'[q] = handle[p])
      <4> SUFFICES ASSUME NEW q \in Procs, pc'[q] \in {"writing", "copying"}, handle'[q] = handle[p]
                   PROVE  FALSE
        OBVIOUS
      <4>1. q # p
        BY <3>1
      <4>2. pc[q] \in {"writing", "copying"} /\ handle[q] = handle[p]
        BY <1>0, <4>1, Elsewhere
      <4>3. PICK i \in Inodes : i = handle[p]
        BY <3>2
      <4> QED BY <2>1, <3>1, <4>1, <4>2, <4>3 DEF FilesInv, SharesMet, Writes
    <3>4. Holds(p, Dest(p))'
      BY <2>2, <3>2, <3>3, <3>5, CommandsAssumption DEF Holds, Own, Writes
    <3> QED BY <3>1, <3>4 DEF OwnInv
  <2>11. CASE HandOver(p)
    <3>1. pc[p] = "hand-over" /\ UNCHANGED <<at, data>> /\ pc'[p] \in {"upload", "next"}
      BY <1>0, <2>11 DEF HandOver, Step, Types, fsVars
    <3>2. Holds(p, Dest(p))'
      BY <2>4, <2>14, <3>1
    <3> QED BY <3>1, <3>2 DEF OwnInv
  <2>12. CASE Upload(p)
    <3>1. pc[p] = "upload" /\ UNCHANGED <<at, data>> /\ pc'[p] \in {"uploaded", "done"}
      BY <1>0, <2>12 DEF Upload, Step, Types, fsVars, Fail, Return
    <3>2. Holds(p, Dest(p))'
      BY <2>4, <2>14, <3>1
    <3>3. CASE pc'[p] = "uploaded"
      <4>1. /\ remote' = [remote EXCEPT ![h] = ContentAt(Dest(p))]
            /\ got' = [got EXCEPT ![p][h] = ContentAt(Dest(p))]
        BY <1>0, <2>12, <3>3 DEF Upload, Step, Types, Fail, Return, h
      <4>2. Own(ContentAt(Dest(p)), p)
        BY <2>4, <3>1 DEF Holds, ContentAt
      <4>3. remote'[h] = ContentAt(Dest(p)) /\ got'[p][h] = ContentAt(Dest(p))
        BY <1>0, <2>3, <4>1 DEF Types, TypeOK
      <4>4. Own(remote'[cur'[p]], p) /\ Own(got'[p][cur'[p]], p)
        BY <2>2, <4>2, <4>3
      <4> QED BY <3>2, <3>3, <4>4 DEF OwnInv, Own
    <3>4. CASE pc'[p] = "done"
      BY <1>2, <3>4
    <3> QED BY <3>1, <3>3, <3>4
  <2>13. CASE RemoveLocal(p) /\ ~Fail(p)
    BY <1>0, <1>2, <2>13 DEF RemoveLocal, Step, Types
  <2>16. CASE (\E c \in Commands : Begin(p, c)) \/ NextNode(p)
    BY <1>3, <2>16
  <2> QED BY <1>0, <1>5, <2>5, <2>6, <2>7, <2>8, <2>9, <2>10, <2>11, <2>12, <2>13, <2>16 DEF Acts
<1>6. CASE ~InNode(p) /\ ~Goes(p)
  <2>1. (\E c \in Commands : Begin(p, c)) \/ NextNode(p)
    BY <1>0, <1>6 DEF Acts, Unlink, Move, HandOver, Upload, ToolStarts, ToolEnds,
       MoveFails, Copy, RemoveLocal, InNode, Before, Building, Behind
  <2> QED BY <1>3, <2>1
<1> QED BY <1>4, <1>5, <1>6

(* What it has handed over. *)
LEMMA OwnGot ==
  ASSUME IInv, FilesInv, NEW p \in Procs, Takes(p)
  PROVE  GotInv(p)'
<1>0. Types /\ Control(p) /\ Shape(p) /\ OwnInv(p) /\ GotInv(p) /\ Acts(p)
  BY StepActs DEF IInv, FilesInv, Takes
<1> SUFFICES ASSUME met'[p] = {}, cmd'[p] # None, res'[p] \in {"none", "nil"},
                    NEW h \in cmd'[p].hosts \ todo'[p]
             PROVE  Own(got'[p][h], p) \/ (InNode(p)' /\ cur'[p] = h)
  BY DEF GotInv, Own
<1>1. CASE \E c \in Commands : Begin(p, c)
  BY <1>0, <1>1 DEF Begin, Types, TypeOK
<1>2. CASE NextNode(p)
  <2>1. UNCHANGED <<cmd, got, met, res>> /\ cur'[p] \in todo[p] /\ todo'[p] = todo[p] \ {cur'[p]}
    BY <1>2, OwnNext DEF NextNode
  <2>2. InNode(p)' /\ ~InNode(p)
    BY <1>2, OwnNext DEF InNode, Before, Building, Behind
  <2> QED BY <1>0, <2>1, <2>2 DEF GotInv
<1>3. CASE ~(NextNode(p) \/ \E c \in Commands : Begin(p, c))
  <2>1. UNCHANGED <<cmd, todo, cur>> /\ met[p] = {}
    <3>1. UNCHANGED <<todo, cur>>
      BY <1>0, <1>3 DEF Acts, Goes, Unlink, Move, HandOver, Upload, ToolStarts, ToolEnds,
         MoveFails, Copy, RemoveLocal, TmpKept
    <3> QED BY <1>0, <1>3, <3>1, MetGrows
  <2>2. res[p] = "none"
    <3>1. CASE Goes(p)
      BY <3>1 DEF Goes
    <3>2. CASE ~Goes(p)
      BY <1>0, <1>3, <3>2 DEF Acts, Unlink, Move, HandOver, Upload, ToolStarts, ToolEnds,
         MoveFails, Copy, RemoveLocal, Control
    <3> QED BY <3>1, <3>2
  <2>3. Own(got[p][h], p) \/ (InNode(p) /\ cur[p] = h)
    BY <1>0, <2>1, <2>2 DEF GotInv
  <2>4. CASE InNode(p) /\ cur[p] = h
    <3>1. CASE InNode(p)'
      BY <2>1, <2>4, <3>1
    <3>2. CASE ~InNode(p)'
      <4>1. (HandOver(p) /\ pc'[p] = "next") \/ (RemoveLocal(p) /\ ~Fail(p))
        BY <1>0, <1>3, <2>4, <3>2 DEF Acts, Goes, Unlink, Move, HandOver, Upload, ToolStarts, ToolEnds,
           MoveFails, Copy, Step, Types, TypeOK, Fail, Return, InNode, Before, Building, Behind
      <4>2. CASE HandOver(p) /\ pc'[p] = "next"
        <5>1. pc[p] = "hand-over" /\ got' = [got EXCEPT ![p][cur[p]] = ContentAt(Dest(p))]
          BY <1>0, <4>2 DEF HandOver, Step, Types
        <5>2. Own(ContentAt(Dest(p)), p)
          BY <1>0, <2>1, <5>1 DEF OwnInv, Holds, ContentAt
        <5>3. h \in Hosts
          BY <2>4, AtWork
        <5>4. got'[p][h] = ContentAt(Dest(p))
          BY <1>0, <2>4, <5>1, <5>3 DEF Types, TypeOK
        <5> QED BY <5>2, <5>4
      <4>3. CASE RemoveLocal(p) /\ ~Fail(p)
        <5>1. pc[p] = "uploaded" /\ got' = got
          BY <4>3 DEF RemoveLocal, TmpKept, ghosts
        <5> QED BY <1>0, <2>1, <2>4, <5>1 DEF OwnInv
      <4> QED BY <4>1, <4>2, <4>3
    <3> QED BY <3>1, <3>2
  <2>5. CASE ~(InNode(p) /\ cur[p] = h)
    <3>1. got'[p][h] = got[p][h]
      <4>1. got' = got \/ (InNode(p) /\ \E c : got' = [got EXCEPT ![p][cur[p]] = c])
        BY <1>0, <1>3 DEF Acts, Goes, Unlink, Move, HandOver, Upload, ToolStarts, ToolEnds,
           MoveFails, Copy, RemoveLocal, TmpKept, ghosts, InNode, Behind
      <4>2. ASSUME InNode(p), NEW c, got' = [got EXCEPT ![p][cur[p]] = c]
            PROVE  got'[p][h] = got[p][h]
        <5>1. cur[p] # h
          BY <2>5, <4>2
        <5>2. got' = [got EXCEPT ![p] = [got[p] EXCEPT ![cur[p]] = c]]
          BY <4>2
        <5> QED BY <1>0, <5>1, <5>2 DEF Types, TypeOK
      <4> QED BY <4>1, <4>2
    <3> QED BY <2>3, <2>5, <3>1
  <2> QED BY <2>4, <2>5
<1> QED BY <1>1, <1>2, <1>3

(* A finished ISO keeps a name, or a place on the storage. *)
LEMMA StepKept ==
  ASSUME IInv, IInv', FilesInv, NEW p \in Procs, Takes(p), OwnInv(p)',
         NEW a \in Procs, NEW h \in Hosts
  PROVE  KeptInv(a, h)'
<1>0. /\ Types /\ Control(p) /\ Shape(p) /\ Shape(a) /\ OwnInv(p) /\ KeptInv(a, h) /\ Acts(p)
      /\ BuildDirInv(a) /\ BuildDirInv(p)'
  BY StepActs DEF IInv, FilesInv, Takes
<1> SUFFICES ASSUME h \in built'[a], met'[a] = {}, last'[h] = a
             PROVE  \/ \E x \in Keeps(a, h)' : Holds(a, x)'
                    \/ cmd'[a].upload /\ Own(remote'[h], a)
  BY DEF KeptInv, Own
<1>1. Alone(a, h) \/ (p = a /\ NextNode(p) /\ cur'[p] = h)
  BY AloneBefore DEF Alone
<1>2. ~(p = a /\ NextNode(p) /\ cur'[p] = h)
  <2>1. NextNode(p) => built' = built /\ cur'[p] \in todo[p]
    BY OwnNext DEF NextNode
  <2> QED BY <1>0, <2>1 DEF BuildDirInv
<1>3. last[h] = a /\ met[a] = {}
  <2>1. ~NextNode(p) => last' = last
    BY <1>0 DEF Acts, Begin, Goes, Unlink, Move, HandOver, Upload, ToolStarts, ToolEnds,
       MoveFails, Copy, RemoveLocal, TmpKept, ghosts
  <2>2. NextNode(p) => last[h] = a
    BY <1>0, <1>2, OwnNext DEF Types, TypeOK
  <2> QED BY <1>1, <1>2, <2>1, <2>2 DEF Alone
<1>4. CASE ~(a = p /\ InNode(p) /\ cur[p] = h)
  <2>1. h \in built[a]
    <3>1. a # p => built'[a] = built[a]
      BY <1>0, Elsewhere
    <3>2. a = p => built'[p] = built[p] \/ (InNode(p) /\ built'[p] = built[p] \cup {cur[p]})
      BY <1>0 DEF Acts, Begin, NextNode, Goes, Unlink, Move, HandOver, Upload, ToolStarts, ToolEnds,
         MoveFails, Copy, RemoveLocal, TmpKept, ghosts, InNode, Building, Types, TypeOK
    <3> QED BY <1>4, <3>1, <3>2
  <2>2. /\ Keeps(a, h) \subseteq Paths /\ Keeps(a, h)' = Keeps(a, h)
        /\ \A x \in Keeps(a, h) : at'[x] = at[x]
        /\ data'[Mine(a, h)] = data[Mine(a, h)]
        /\ \A x \in Keeps(a, h) : at[x] # None /\ ~Writes(p, at[x]) =>
             data'[at[x]] = data[at[x]] /\ ~Writes(p, at[x])'
        /\ cmd[a].upload => remote'[h] = remote[h]
    BY <1>1, <1>2, <1>4, Frame
  <2>3. cmd'[a] = cmd[a]
    BY <1>1, <1>2, <1>4, Foreign
  <2>4. (\E x \in Keeps(a, h) : Holds(a, x)) \/ (cmd[a].upload /\ Own(remote[h], a))
    BY <1>0, <1>3, <2>1 DEF KeptInv
  <2>5. ASSUME NEW x \in Keeps(a, h), Holds(a, x) PROVE Holds(a, x)'
    <3>1. at[x] # None
      BY <2>5 DEF Holds
    <3> QED BY <1>0, <2>2, <2>5, <3>1, HoldsOn
  <2> QED BY <2>2, <2>3, <2>4, <2>5
<1>5. CASE a = p /\ InNode(p) /\ cur[p] = h
  <2>1. UNCHANGED <<cmd, cur>> /\ met'[p] = {}
    BY <1>0, <1>3, <1>5 DEF Acts, Begin, NextNode, Goes, Unlink, Move, HandOver, Upload, ToolStarts, ToolEnds,
       MoveFails, Copy, RemoveLocal, TmpKept, InNode, Before, Building, Behind
  <2>2. /\ Src(p) \in Paths /\ Dest(p) \in Paths /\ Src(p) \in Keeps(p, h) /\ Dest(p) \in Keeps(p, h)
        /\ Src(p)' = Src(p) /\ Dest(p)' = Dest(p) /\ Keeps(p, h)' = Keeps(p, h)
    BY <1>5, <2>1, AtWork DEF Src, Dest, BuildRoot, OutDir, Keeps
  <2>3. CASE InNode(p)'
    <3>1. pc'[p] \in Behind
      BY <1>0, <1>5, <2>1, <2>3 DEF BuildDirInv, InNode
    <3>2. CASE pc'[p] \in {"move", "copying"}
      <4>4. Mine(p, h) # None
        BY <1>5, AtWork, CommandsAssumption
      <4>5. OwnInv(p)' /\ met'[p] = {} /\ cur'[p] = h
        BY <1>5, <2>1
      <4>6. at'[Src(p)] = Mine(p, h)
        BY <2>2, <3>2, <4>5 DEF OwnInv, Mine
      <4>7. Own(data'[Mine(p, h)], p)
        BY <3>2, <4>5 DEF OwnInv, Mine, Own
      <4>1. at'[Src(p)] = Mine(p, h) /\ Own(data'[Mine(p, h)], p) /\ Mine(p, h) # None
        BY <4>4, <4>6, <4>7
      <4>2. PICK x \in Keeps(p, h) : x = Src(p)
        BY <2>2
      <4>8. \A q \in Procs : ~Writes(q, Mine(p, h))'
        <5> SUFFICES ASSUME NEW q \in Procs, Writes(q, Mine(p, h))' PROVE FALSE
          OBVIOUS
        <5>1. q = p
          <6>1. MineInv(p, h)' /\ Alone(p, h)'
            BY <2>1, <2>3, <4>5, StepMine DEF Alone
          <6> QED BY <6>1 DEF MineInv, Writes, Mine
        <5>2. pc'[p] = "copying" /\ handle'[p] = Mine(p, h)
          BY <3>2, <5>1 DEF Writes, Mine
        <5>3. at'[Dest(p)] = Mine(p, h)
          BY <2>2, <4>5, <5>2 DEF OwnInv
        <5>4. NamesInv' /\ Src(p) # Dest(p)
          <6>1. Shape(p)'
            BY <1>0, StepShape
          <6> QED BY <1>0, <2>2, <5>2, <6>1, StepNames DEF Shape, FilesInv
        <5> QED BY <2>2, <4>1, <5>3, <5>4 DEF NamesInv
      <4>3. Holds(p, x)'
        BY <4>1, <4>2, <4>8 DEF Holds, Own, Mine, Writes
      <4> QED BY <1>5, <2>2, <4>3
    <3>3. CASE pc'[p] \in {"hand-over", "upload", "uploaded"}
      <4>1. Holds(p, Dest(p))'
        BY <1>0, <1>5, <2>1, <3>3 DEF OwnInv
      <4>2. PICK x \in Keeps(p, h) : x = Dest(p)
        BY <2>2
      <4>3. Holds(p, x)'
        BY <2>2, <4>1, <4>2 DEF Holds, Own, Writes
      <4> QED BY <1>5, <2>2, <4>3
    <3> QED BY <3>1, <3>2, <3>3 DEF Behind
  <2>4. CASE ~InNode(p)'
    <3>1. HandOver(p) \/ Upload(p) \/ Goes(p) \/ (RemoveLocal(p) /\ ~Fail(p))
      BY <1>0, <1>5, <2>4 DEF Acts, Begin, NextNode, Unlink, Move, ToolStarts, ToolEnds,
         MoveFails, Copy, Step, Types, InNode, Before, Building, Behind
    <3>2. h \in built[p] /\ pc[p] \in Behind
      <4>1. built' = built
        BY <3>1 DEF HandOver, Upload, Goes, RemoveLocal, TmpKept, ghosts
      <4> QED BY <1>0, <1>5, <4>1 DEF BuildDirInv, InNode
    <3>3. CASE RemoveLocal(p) /\ ~Fail(p)
      <4>1. pc[p] = "uploaded" /\ remote' = remote /\ cmd' = cmd
        BY <3>3 DEF RemoveLocal, TmpKept
      <4> QED BY <1>0, <1>3, <1>5, <4>1 DEF OwnInv, Shape
    <3>4. CASE HandOver(p) \/ Upload(p) \/ Goes(p)
      <4>1. UNCHANGED <<at, data>>
        BY <3>4 DEF HandOver, Upload, Goes, Fail, fsVars
      <4>2. PICK x \in Keeps(p, h) : Holds(p, x)
        <5>1. CASE pc[p] \in {"move", "copying"}
          <6>1. Mine(p, h) # None
            BY <1>5, AtWork, CommandsAssumption
          <6>2. at[Src(p)] = Mine(p, h) /\ Own(data[Mine(p, h)], p)
            BY <1>0, <1>3, <1>5, <5>1 DEF OwnInv
          <6>3. PICK x \in Keeps(p, h) : x = Src(p)
            BY <2>2
          <6>5. \A q \in Procs : ~Writes(q, Mine(p, h))
            <7> SUFFICES ASSUME NEW q \in Procs, Writes(q, Mine(p, h)) PROVE FALSE
              OBVIOUS
            <7>1. q = p
              BY <1>3, <1>5 DEF FilesInv, MineInv, Alone
            <7>2. pc[p] = "copying" /\ handle[p] = Mine(p, h)
              BY <5>1, <7>1 DEF Writes
            <7>3. at[Dest(p)] = Mine(p, h) /\ Src(p) # Dest(p)
              BY <1>0, <1>3, <1>5, <7>2 DEF OwnInv, Shape
            <7> QED BY <2>2, <6>1, <6>2, <7>3 DEF FilesInv, NamesInv
          <6>4. Holds(p, x)
            BY <6>1, <6>2, <6>3, <6>5 DEF Holds
          <6> QED BY <6>4
        <5>2. CASE pc[p] \in {"hand-over", "upload", "uploaded"}
          BY <1>0, <1>3, <1>5, <2>2, <5>2 DEF OwnInv
        <5> QED BY <3>2, <5>1, <5>2 DEF Behind
      <4>3. Holds(p, x)'
        <5>1. ~Writes(p, at[x])'
          BY <2>4 DEF Writes, InNode, Building, Behind
        <5> QED BY <1>0, <4>1, <4>2, <5>1, HoldsOn
      <4> QED BY <1>5, <2>2, <4>3
    <3> QED BY <3>1, <3>3, <3>4
  <2> QED BY <2>3, <2>4
<1> QED BY <1>4, <1>5

(* Every step keeps what is told of the files. *)
LEMMA StepFiles == IInv /\ FilesInv /\ [Next]_vars => FilesInv'
<1> SUFFICES ASSUME IInv, FilesInv, [Next]_vars PROVE FilesInv'
  OBVIOUS
<1>1. CASE UNCHANGED vars
  <2> USE <1>1 DEF vars, fsVars, ghosts
  <2>1. /\ NamesInv' /\ MetInv' /\ SharesMet' /\ LastInv' /\ Apart'
    BY DEF FilesInv, NamesInv, MetInv, SharesMet, Writes, LastInv, Apart, Made, Started, Copied,
       InNode, Running
  <2>2. ASSUME NEW p \in Procs
        PROVE  Shape(p)' /\ HandleInv(p)' /\ EndInv(p)' /\ OwnInv(p)' /\ GotInv(p)'
    <3>1. Shape(p) /\ HandleInv(p) /\ EndInv(p) /\ OwnInv(p) /\ GotInv(p)
      BY DEF FilesInv
    <3>2. Shape(p)' /\ EndInv(p)'
      BY <3>1 DEF Shape, EndInv, Src, Dest, OutDir, BuildRoot
    <3>3. HandleInv(p)'
      BY <3>1 DEF HandleInv
    <3>4. OwnInv(p)'
      BY <3>1 DEF OwnInv, Src, Dest, OutDir, BuildRoot, Holds, Mine, Own, Writes
    <3>5. GotInv(p)'
      BY <3>1 DEF GotInv, Own, InNode
    <3> QED BY <3>2, <3>3, <3>4, <3>5
  <2>3. ASSUME NEW p \in Procs, NEW h \in Hosts PROVE MineInv(p, h)' /\ KeptInv(p, h)'
    BY DEF FilesInv, MineInv, KeptInv, Alone, InNode, Writes, Keeps, OutDir, BuildRoot, Holds, Mine, Own
  <2> QED BY <2>1, <2>2, <2>3 DEF FilesInv
<1>2. ASSUME NEW p \in Procs, Takes(p) PROVE FilesInv'
  <2>1. NamesInv' /\ MetInv' /\ SharesMet' /\ LastInv' /\ Apart'
    BY <1>2, StepNames, StepMet, StepShares, StepLast DEF FilesInv
  <2>2. OwnInv(p)' /\ GotInv(p)'
    BY <1>2, OwnOwn, OwnGot
  <2>3. ASSUME NEW q \in Procs
        PROVE  Shape(q)' /\ HandleInv(q)' /\ EndInv(q)' /\ OwnInv(q)' /\ GotInv(q)'
    BY <1>2, <2>2, StepShape, StepHandle, StepEnd, OthersOwn DEF FilesInv
  <2>4. IInv'
    BY <1>2, StepIInv DEF Next, Takes
  <2>5. ASSUME NEW q \in Procs, NEW h \in Hosts PROVE MineInv(q, h)' /\ KeptInv(q, h)'
    BY <1>2, <2>2, <2>4, StepMine, StepKept
  <2> QED BY <2>1, <2>3, <2>5 DEF FilesInv
<1> QED BY <1>1, <1>2 DEF Next, Takes

(* For any number of processes, hosts, directories and command lines, every *)
(* inode has the writers and the names it should have.                      *)
THEOREM FilesInductive == Spec => [](IInv /\ FilesInv)
<1>1. Init => IInv /\ FilesInv
  BY InitIInv, InitFiles
<1>2. IInv /\ FilesInv /\ [Next]_vars => (IInv /\ FilesInv)'
  BY StepIInv, StepFiles
<1> QED BY <1>1, <1>2, PTL DEF Spec

(* A command that returned nil and met no other one for its nodes handed    *)
(* over a whole ISO of its own for each of them: nothing that a killed or a *)
(* failed command left under its names gets into one.                       *)
THEOREM HandsOverItsOwn == Spec => []DeliversOwn
<1>1. IInv /\ FilesInv => DeliversOwn
  <2> SUFFICES ASSUME IInv, FilesInv, NEW p \in Procs, res[p] = "nil", met[p] = {},
                      NEW h \in cmd[p].hosts
               PROVE  Own(got[p][h], p)
    BY DEF DeliversOwn
  <2>1. Control(p) /\ GotInv(p) /\ EndInv(p)
    BY DEF IInv, FilesInv
  <2>2. pc[p] = "done" /\ cmd[p] # None /\ todo[p] = {}
    BY <2>1 DEF Control, EndInv
  <2> QED BY <2>1, <2>2 DEF GotInv, InNode, Before, Building, Behind
<1> QED BY <1>1, FilesInductive, PTL

(* A finished ISO of a command that met no other one for its node is at     *)
(* every moment under one of its names or on the storage, also when the     *)
(* command is killed: until the next command builds for the node.           *)
THEOREM IsSomewhere == Spec => []NeverNowhere
<1>1. IInv /\ FilesInv => NeverNowhere
  <2> SUFFICES ASSUME IInv, FilesInv, NEW p \in Procs, NEW h \in built[p],
                      met[p] = {}, last[h] = p
               PROVE  \/ \E x \in Paths : x[2] = h /\ at[x] # None /\ Own(data[at[x]], p)
                      \/ Own(remote[h], p)
    BY DEF NeverNowhere
  <2>1. h \in Hosts
    BY DEF IInv, Types, TypeOK
  <2>2. KeptInv(p, h) /\ cmd[p] # None
    BY <2>1 DEF FilesInv, LastInv
  <2>3. ASSUME NEW x \in Keeps(p, h) PROVE x \in Paths /\ x[2] = h
    <3>1. Types
      BY DEF IInv
    <3>2. Keeps(p, h) \subseteq Paths
      BY <2>1, <2>2, <3>1, KeepsPaths
    <3>3. x[2] = h
      BY <2>3 DEF Keeps
    <3> QED BY <2>3, <3>2, <3>3
  <2>4. CASE \E x \in Keeps(p, h) : Holds(p, x)
    BY <2>3, <2>4 DEF Holds
  <2> QED BY <2>2, <2>4 DEF KeptInv
<1> QED BY <1>1, FilesInductive, PTL
=============================================================================
