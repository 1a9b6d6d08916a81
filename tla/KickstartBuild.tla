--------------------------- MODULE KickstartBuild ---------------------------
(***************************************************************************)
(* The commands that build install ISOs: `kickstart build-stack`,          *)
(* `build-iso`, `build-ubuntu`, and the building half of `workflow up`.    *)
(* Several proxctl processes share one file system and one Proxmox         *)
(* storage.  Every external tool may fail, every process may be killed.    *)
(*                                                                         *)
(* A path names an inode or nothing, so that a file can be unlinked,       *)
(* renamed or replaced while another process still writes it.              *)
(***************************************************************************)
EXTENDS Naturals, Sequences, FiniteSets, KernelCmdline

CONSTANTS
  Procs,    \* the proxctl processes; also the names of their private directories
  Hosts,    \* node names
  Dirs,     \* the directories the processes share
  Mounted,  \* those on another device than TMPDIR
  Commands, \* the command lines
  Menus,    \* the boot menus of Ubuntu source ISOs: file name -> its lines
  Tokens,   \* what boot lines are made of
  None

Kinds == {"stack", "iso", "up", "ubuntu"}

Paths  == (Dirs \cup Procs) \X Hosts
Inodes == Procs \X Hosts \X {"built", "copied"}

ASSUME CommandsAssumption ==
  /\ Mounted \subseteq Dirs /\ Dirs \cap Procs = {} /\ None \notin Dirs
  /\ None \notin Commands /\ None \notin Hosts /\ None \notin Inodes /\ None \notin Procs
  /\ \A c \in Commands :
       /\ c.kind \in Kinds /\ c.work \in Dirs \ Mounted /\ c.dest \in Dirs \cup {None}
       /\ c.hosts \in (SUBSET Hosts) \ {{}} /\ c.upload \in BOOLEAN /\ c.keep \in BOOLEAN
       /\ c.kind = "up" => c.upload /\ c.dest = None
  /\ Args \in Seq(Tokens)
  /\ \A m \in Menus : /\ DOMAIN m \in {{"grub.cfg"}, {"grub.cfg", "txt.cfg"}}
                      /\ \A f \in DOMAIN m : m[f] \in Seq(Seq(Tokens))

VARIABLES
  cmd,     \* the command of each process, None before it starts
  pc,      \* its next step
  todo,    \* the nodes it has still to build
  cur,     \* the node at hand
  handle,  \* the inode it writes
  reads,   \* the inode it copies
  menu,    \* build-ubuntu: the boot menus of the source ISO and of the new one
  res,     \* nil, err or killed; none while it runs
  scratch, \* the temporary directories there are: <<process, purpose>>
  at,      \* the inode each path names
  data,    \* what is in each inode
  remote,  \* what the storage has under proxctl-<host>.iso
  got,     \* what each process handed over for a node: printed its path or uploaded it
  built,   \* the nodes each process has a finished ISO of
  met,     \* the processes that built one of its nodes in its places while it ran, had
           \* the file it writes in hand, or made a stale ISO that it cannot remove
  last     \* the process that began last to build a node

fsVars == <<scratch, at, data>>
ghosts == <<got, built, met, last>>
vars   == <<cmd, pc, todo, cur, handle, reads, menu, res, fsVars, remote, ghosts>>
-----------------------------------------------------------------------------
(* In a file are the pieces its writers wrote; it is whole when they are    *)
(* done.                                                                    *)
Empty     == [by |-> {}, whole |-> FALSE]
Contents  == [by : SUBSET Procs, whole : BOOLEAN]
Own(c, p) == c = [by |-> {p}, whole |-> TRUE]

Running(p) == cmd[p] # None /\ res[p] = "none"

(* iso_builder.go:110: one name for a node in a TMPDIR; the Ubuntu builder  *)
(* has a scratch directory, and build-stack without --out-dir another.      *)
BuildRoot(p) == IF cmd[p].kind = "ubuntu" THEN p ELSE cmd[p].work
OutDir(p)    == CASE cmd[p].dest # None    -> cmd[p].dest
                  [] cmd[p].kind = "stack" -> p
                  [] OTHER                 -> BuildRoot(p)

Src(p)  == <<BuildRoot(p), cur[p]>>
Dest(p) == <<OutDir(p), cur[p]>>

SameDevice(d, e) == d \in Mounted <=> e \in Mounted

Step(p, s) == pc' = [pc EXCEPT ![p] = s]

(* What the deferred calls of the command and of Build remove, on every way *)
(* out.  The scratch directory of the Ubuntu builder and the default output *)
(* directory of build-stack stay.                                           *)
Deferred_notBuild == {"bootloader", "cidata", "extract"}
Deferred == {"bootloader", "build", "cidata", "extract"}

Return(p, r) ==
  /\ Step(p, "done")
  /\ res' = [res EXCEPT ![p] = r]
  /\ scratch' = {s \in scratch : s[1] = p => s[2] \notin Deferred}

Fail(p) == Return(p, "err") /\ UNCHANGED <<at, data>>

MkdirTemp(p, kind) == scratch' = scratch \cup {<<p, kind>>}
RemoveAll(p, kind) == scratch' = scratch \ {<<p, kind>>}

TmpKept == UNCHANGED <<cmd, todo, cur, handle, reads, menu, remote, ghosts>>

(* A step that works and only moves on in the program, or that fails.       *)
Plain(p, from, to) ==
  /\ pc[p] = from
  /\ \/ Step(p, to) /\ UNCHANGED <<res, fsVars>>
     \/ Fail(p)
  /\ TmpKept

(* A step that makes a temporary directory, or fails.                       *)
Makes(p, from, kind, to) ==
  /\ pc[p] = from
  /\ \/ MkdirTemp(p, kind) /\ Step(p, to) /\ UNCHANGED <<res, at, data>>
     \/ Fail(p)
  /\ TmpKept
-----------------------------------------------------------------------------
Init ==
  /\ cmd = [p \in Procs |-> None] /\ pc = [p \in Procs |-> "idle"]
  /\ todo = [p \in Procs |-> {}] /\ cur = [p \in Procs |-> None]
  /\ handle = [p \in Procs |-> None] /\ reads = [p \in Procs |-> None]
  /\ menu = [p \in Procs |-> None] /\ res = [p \in Procs |-> "none"]
  /\ scratch = {} /\ at = [x \in Paths |-> None] /\ data = [i \in Inodes |-> Empty]
  /\ remote = [h \in Hosts |-> Empty]
  /\ got = [p \in Procs |-> [h \in Hosts |-> Empty]] /\ built = [p \in Procs |-> {}]
  /\ met = [p \in Procs |-> {}] /\ last = [h \in Hosts |-> None]

(* Two commands for one node that name its ISO alike in some place.         *)
Places(c)   == (IF c.kind = "ubuntu" THEN {} ELSE {c.work}) \cup ({c.dest} \ {None})
               \cup (IF c.upload THEN {"storage"} ELSE {})
Clash(c, d) == c.hosts \cap d.hosts # {} /\ Places(c) \cap Places(d) # {}

Begin(p, c) ==
  /\ pc[p] = "idle"
  /\ LET others == {q \in Procs : Running(q) /\ Clash(c, cmd[q])} IN
     met' = [q \in Procs |-> CASE q = p        -> others
                               [] q \in others -> met[q] \cup {p}
                               [] OTHER        -> met[q]]
  /\ cmd' = [cmd EXCEPT ![p] = c]
  /\ todo' = [todo EXCEPT ![p] = c.hosts]
  /\ IF c.kind = "ubuntu"
     THEN \E m \in Menus : menu' = [menu EXCEPT ![p] = [source |-> m, new |-> m]]
     ELSE UNCHANGED menu
  /\ Step(p, "checks")
  /\ UNCHANGED <<cur, handle, reads, res, fsVars, remote, got, built, last>>

(* Flags, manifest, distro and tools (kickstart.go:250-288).                *)
Checks(p) == Plain(p, "checks", IF cmd[p].kind = "stack" THEN "bootloader" ELSE "next")

(* build-stack: ExtractBootloader and ReadVolumeLabel, once for all nodes.  *)
MakeBootloaderDir(p) == Makes(p, "bootloader", "bootloader", "extract")
ExtractBootloader(p) == Plain(p, "extract", "label")
ReadVolumeLabel(p)   == Plain(p, "label", "outdir")

MakeOutDir(p) ==
  /\ pc[p] = "outdir"
  /\ IF cmd[p].dest = None THEN Makes(p, "outdir", "stack-iso", "next")
                           ELSE Plain(p, "outdir", "next")

(* The loop over the nodes, in the order of a Go map.                       *)
NextNode(p) ==
  /\ pc[p] = "next"
  /\ \E h \in todo[p] :
       /\ cur' = [cur EXCEPT ![p] = h]
       /\ todo' = [todo EXCEPT ![p] = @ \ {h}]
       /\ last' = [last EXCEPT ![h] = p]
  /\ Step(p, "render")
  /\ UNCHANGED <<cmd, handle, reads, menu, res, fsVars, remote, got, built, met>>

AllDone(p) == pc[p] = "next" /\ todo[p] = {} /\ Return(p, "nil")
              /\ UNCHANGED <<at, data>> /\ TmpKept

(* Renderer.Render, or RenderTemplate for the two cidata files; build-iso   *)
(* reads the file it was given.                                             *)
Render(p) == Plain(p, "render", IF cmd[p].kind = "ubuntu" THEN "cidata" ELSE "mkdir")
-----------------------------------------------------------------------------
(* ISOBuilder.Build. *)

MakeBuildDir(p) == Makes(p, "mkdir", "build", "stage")

(* The bootloader is copied, ks.cfg and isolinux.cfg are written over it.   *)
Stage(p) == Plain(p, "stage", "unlink")

RemoveStale_kept(p) == at
RemoveStale(p) == [at EXCEPT ![Src(p)] = None]

(* A stale ISO that cannot be removed is left to the tool.                  *)
Unlink(p) ==
  /\ pc[p] = "unlink"
  /\ \/ at' = RemoveStale(p) /\ UNCHANGED met
     \/ /\ at[Src(p)] # None
        /\ met' = [met EXCEPT ![p] = @ \cup {at[Src(p)][1]}]
        /\ UNCHANGED at
  /\ Step(p, "tool")
  /\ UNCHANGED <<cmd, todo, cur, handle, reads, menu, res, scratch, data, remote,
                 got, built, last>>

(* The other processes that have a file open for writing, and the meeting   *)
(* of all of them when one more opens it.                                   *)
Writers(p, i) == {q \in Procs \ {p} : Running(q) /\ pc[q] \in {"writing", "copying"}
                                        /\ handle[q] = i}
Meets(p, i) == [q \in Procs |-> CASE q = p             -> met[p] \cup Writers(p, i)
                                  [] q \in Writers(p, i) -> met[q] \cup {p}
                                  [] OTHER              -> met[q]]

(* The tool opens its output: a new file, or the one it finds, which then   *)
(* has bytes of both.                                                       *)
ToolStarts(p) ==
  /\ pc[p] = "tool"
  /\ \/ LET new == at[Src(p)] = None
            i   == IF new THEN <<p, cur[p], "built">> ELSE at[Src(p)]
        IN /\ at' = [at EXCEPT ![Src(p)] = i]
           /\ data' = [data EXCEPT ![i] = [by |-> IF new THEN {p} ELSE @.by \cup {p},
                                           whole |-> FALSE]]
           /\ handle' = [handle EXCEPT ![p] = i]
           /\ met' = Meets(p, i)
           /\ Step(p, "writing") /\ UNCHANGED <<res, scratch>>
     \/ Fail(p) /\ UNCHANGED <<handle, met>>
  /\ UNCHANGED <<cmd, todo, cur, reads, menu, remote, got, built, last>>

(* It may fail with a part of the ISO written; the part stays.              *)
ToolEnds(p) ==
  /\ pc[p] = "writing"
  /\ \/ /\ data' = [data EXCEPT ![handle[p]] = [by |-> @.by \cup {p}, whole |-> TRUE]]
        /\ RemoveAll(p, "build")
        /\ built' = [built EXCEPT ![p] = @ \cup {cur[p]}]
        /\ Step(p, CASE cmd[p].kind = "up" -> "upload" [] OTHER -> "move")
        /\ UNCHANGED <<at, res>>
     \/ Fail(p) /\ UNCHANGED built
  /\ UNCHANGED <<cmd, todo, cur, handle, reads, menu, remote, got, met, last>>
-----------------------------------------------------------------------------
(* UbuntuISOBuilder.Build. *)

MakeCidata(p)  == Makes(p, "cidata", "cidata", "ubuntu")
MakeScratch(p) == Makes(p, "ubuntu", "ubuntu", "mkextract")

(* extractISOFile, for each file in a directory of its own.                 *)
MakeExtract(p) == Makes(p, "mkextract", "extract", "patch")

(* grub.cfg must be there.  A failure over txt.cfg goes unseen: before      *)
(* os.Create the new ISO keeps the old file, behind it what was copied of   *)
(* it - cut off here at the end of a line - is patched and takes its place. *)
PatchLines(lines) == [i \in DOMAIN lines |-> Patch(lines[i])]

TxtLines(m) == IF "txt.cfg" \notin DOMAIN m THEN {<<>>} ELSE
  {m["txt.cfg"]} \cup
  {PatchLines(SubSeq(m["txt.cfg"], 1, n)) : n \in 0..Len(m["txt.cfg"])}

Patched(m, txt) ==
  [f \in DOMAIN m |-> IF f = "grub.cfg" THEN PatchLines(m[f]) ELSE txt]

ExtractAndPatch(p) ==
  /\ pc[p] = "patch"
  /\ \/ /\ \E txt \in TxtLines(menu[p].source) :
             menu' = [menu EXCEPT ![p].new = Patched(menu[p].source, txt)]
        /\ RemoveAll(p, "extract")
        /\ Step(p, "tool") /\ UNCHANGED <<res, at, data>>
     \/ Fail(p) /\ UNCHANGED menu
  /\ UNCHANGED <<cmd, todo, cur, handle, reads, remote, ghosts>>
-----------------------------------------------------------------------------
(* What the commands do with a built ISO. *)

ContentAt(x) == IF at[x] = None THEN Empty ELSE data[at[x]]

Move(p) ==
  /\ pc[p] = "move"
  /\ CASE Src(p) = Dest(p) -> Step(p, "hand-over") /\ UNCHANGED <<at, res, scratch>>
       [] Src(p) # Dest(p) /\ at[Src(p)] # None /\ SameDevice(BuildRoot(p), OutDir(p)) ->
            /\ at' = [at EXCEPT ![Dest(p)] = at[Src(p)], ![Src(p)] = None]
            /\ Step(p, "hand-over") /\ UNCHANGED <<res, scratch>>
       [] OTHER -> FALSE
  /\ UNCHANGED data /\ TmpKept

(* The rename fails, between two devices or for any other reason.  Only     *)
(* build-stack then copies, if the ISO is there and its os.Create works;    *)
(* that truncates the file of an earlier command.                           *)
CopyStarts_removeSource(p, i) == [at EXCEPT ![Dest(p)] = i, ![Src(p)] = None]
CopyStarts(p, i) == [at EXCEPT ![Dest(p)] = i]

MoveFails(p) ==
  /\ pc[p] = "move" /\ Src(p) # Dest(p)
  /\ \/ Fail(p) /\ UNCHANGED <<handle, reads, met>>
     \/ /\ cmd[p].kind = "stack" /\ at[Src(p)] # None
        /\ LET i == IF at[Dest(p)] = None THEN <<p, cur[p], "copied">> ELSE at[Dest(p)] IN
           /\ at' = CopyStarts(p, i)
           /\ data' = [data EXCEPT ![i] = Empty]
           /\ handle' = [handle EXCEPT ![p] = i]
           /\ reads' = [reads EXCEPT ![p] = at[Src(p)]]
           /\ met' = Meets(p, i)
        /\ Step(p, "copying") /\ UNCHANGED <<res, scratch>>
  /\ UNCHANGED <<cmd, todo, cur, menu, remote, got, built, last>>

Copy(p) ==
  /\ pc[p] = "copying"
  /\ \/ /\ data' = [data EXCEPT ![handle[p]] =
                      [by |-> @.by \cup data[reads[p]].by, whole |-> data[reads[p]].whole]]
        /\ at' \in {at, [at EXCEPT ![Src(p)] = None]}
        /\ Step(p, "hand-over") /\ UNCHANGED <<res, scratch>>
     \/ Fail(p)
  /\ TmpKept

(* The path is printed; build-stack --upload goes on with it.               *)
HandOver(p) ==
  /\ pc[p] = "hand-over"
  /\ IF cmd[p].upload THEN Step(p, "upload") /\ UNCHANGED got
     ELSE /\ got' = [got EXCEPT ![p][cur[p]] = ContentAt(Dest(p))]
          /\ Step(p, "next")
  /\ UNCHANGED <<cmd, todo, cur, handle, reads, menu, res, fsVars, remote, built, met, last>>

(* UploadISO reads the file, then posts it.  It may fail with the ISO on    *)
(* the storage.                                                             *)
Upload(p) ==
  /\ pc[p] = "upload"
  /\ \/ /\ at[Dest(p)] # None
        /\ remote' = [remote EXCEPT ![cur[p]] = ContentAt(Dest(p))]
        /\ \/ /\ got' = [got EXCEPT ![p][cur[p]] = ContentAt(Dest(p))]
              /\ Step(p, "uploaded") /\ UNCHANGED <<res, fsVars>>
           \/ Fail(p) /\ UNCHANGED got
     \/ Fail(p) /\ UNCHANGED <<got, remote>>
  /\ UNCHANGED <<cmd, todo, cur, handle, reads, menu, built, met, last>>

(* build-stack removes its ISO now unless told to keep it; up when the rest *)
(* of its change list, which needs it no more, has worked.  Where it cannot *)
(* be removed it stays.                                                     *)
RemoveLocal(p) ==
  /\ pc[p] = "uploaded"
  /\ \/ /\ at' \in {at} \cup (IF cmd[p].keep THEN {} ELSE {[at EXCEPT ![Dest(p)] = None]})
        /\ Step(p, "next") /\ UNCHANGED <<res, scratch, data>>
     \/ cmd[p].kind = "up" /\ Fail(p)
  /\ TmpKept

Kill(p) ==
  /\ Running(p)
  /\ Step(p, "done") /\ res' = [res EXCEPT ![p] = "killed"]
  /\ UNCHANGED fsVars /\ TmpKept

Run(p) ==
  \/ Checks(p) \/ MakeBootloaderDir(p) \/ ExtractBootloader(p) \/ ReadVolumeLabel(p)
  \/ MakeOutDir(p) \/ NextNode(p) \/ AllDone(p) \/ Render(p)
  \/ MakeBuildDir(p) \/ Stage(p) \/ Unlink(p) \/ ToolStarts(p) \/ ToolEnds(p)
  \/ MakeCidata(p) \/ MakeScratch(p) \/ MakeExtract(p) \/ ExtractAndPatch(p)
  \/ Move(p) \/ MoveFails(p) \/ Copy(p) \/ HandOver(p) \/ Upload(p) \/ RemoveLocal(p)

Next == \/ \E p \in Procs : (\E c \in Commands : Begin(p, c)) \/ Run(p) \/ Kill(p)
        \/ (\A p \in Procs : pc[p] = "done") /\ UNCHANGED vars

Spec == Init /\ [][Next]_vars
-----------------------------------------------------------------------------
TypeOK ==
  /\ cmd \in [Procs -> Commands \cup {None}] /\ cur \in [Procs -> Hosts \cup {None}]
  /\ todo \in [Procs -> SUBSET Hosts] /\ res \in [Procs -> {"none", "nil", "err", "killed"}]
  /\ scratch \subseteq
       Procs \X {"bootloader", "build", "cidata", "extract", "ubuntu", "stack-iso"}
  /\ handle \in [Procs -> Inodes \cup {None}] /\ reads \in [Procs -> Inodes \cup {None}]
  /\ at \in [Paths -> Inodes \cup {None}] /\ data \in [Inodes -> Contents]
  /\ remote \in [Hosts -> Contents] /\ got \in [Procs -> [Hosts -> Contents]]
  /\ built \in [Procs -> SUBSET Hosts] /\ met \in [Procs -> SUBSET Procs]
  /\ last \in [Hosts -> Procs \cup {None}]

(* A command that returns nil has handed over, for each of its nodes, a     *)
(* whole ISO of its own making, whatever killed or failed commands left     *)
(* under its names - unless a command for the same node ran beside it, for  *)
(* the names are fixed, or such a leftover could not be removed             *)
(* (iso_builder.go:110-112, kickstart.go:355-385).                          *)
DeliversOwn ==
  \A p \in Procs : res[p] = "nil" /\ met[p] = {} =>
    \A h \in cmd[p].hosts : Own(got[p][h], p)

(* No bootloader, build, cidata or extraction directory outlives a command  *)
(* that returns, and no build directory its Build (iso_builder.go:75,       *)
(* kickstart.go:207, 295, ubuntu_iso_builder.go:162).  A command that is    *)
(* killed leaves what it has.                                               *)
ScratchRemoved ==
  \A p \in Procs :
    /\ res[p] \in {"nil", "err"} =>
         \A k \in {"bootloader", "build", "cidata", "extract"} : <<p, k>> \notin scratch
    /\ <<p, "build">> \in scratch => cur[p] \notin built[p]

(* A finished ISO is never nowhere: it is moved, copied and removed in such *)
(* an order that it is on the disk or on the storage at every moment, also  *)
(* when the command is killed - until another command builds for that node  *)
(* (kickstart.go:358-382, single_vm.go:262).                                *)
NeverNowhere ==
  \A p \in Procs : \A h \in built[p] : met[p] = {} /\ last[h] = p =>
    \/ \E x \in Paths : x[2] = h /\ at[x] # None /\ Own(data[at[x]], p)
    \/ Own(remote[h], p)

(* Of an Ubuntu ISO that was handed over, exactly those boot lines of       *)
(* grub.cfg install unattended that did before or that said nothing of      *)
(* autoinstall (and do not begin with the separator); all other lines are   *)
(* as they were (ubuntu_iso_builder.go:199-236).                            *)
BootsUnattended ==
  \A p \in Procs : cmd[p] # None /\ cmd[p].kind = "ubuntu" /\ res[p] = "nil" =>
    LET old == menu[p].source["grub.cfg"]
        new == menu[p].new["grub.cfg"] IN
    DOMAIN new = DOMAIN old /\ \A i \in DOMAIN old :
      IF IsBootLine(old[i]) THEN Unattended(new[i]) <=> Patchable(old[i])
                            ELSE new[i] = old[i]
-----------------------------------------------------------------------------
(* What comments say. *)

(* ubuntu_iso_builder.go:37: the arguments go into every boot line of       *)
(* grub.cfg and, if there is one, of isolinux/txt.cfg.                      *)
EveryMenuPatched ==
  \A p \in Procs : cmd[p] # None /\ cmd[p].kind = "ubuntu" /\ res[p] = "nil" =>
    \A f \in DOMAIN menu[p].new : \A i \in DOMAIN menu[p].new[f] :
      IsBootLine(menu[p].new[f][i]) => Unattended(menu[p].new[f][i])

(* ubuntu_iso_builder.go:199-201, 215: a line that has the arguments        *)
(* already is as good as patched.                                           *)
MentionedIsUnattended ==
  \A p \in Procs : cmd[p] # None /\ cmd[p].kind = "ubuntu" /\ res[p] = "nil" =>
    \A i \in DOMAIN menu[p].new["grub.cfg"] :
      LET line == menu[p].new["grub.cfg"][i] IN
      IsBootLine(line) /\ Mentions(line) => Unattended(line)

(* ubuntu_iso_builder.go:96: the caller can clean up.  When Build fails it  *)
(* does not learn the directory's name, and the one caller removes nothing. *)
ScratchCleaned ==
  \A p \in Procs : res[p] \in {"nil", "err"} => <<p, "ubuntu">> \notin scratch
=============================================================================
