# Formal models of proxctl

proxctl is a Go program that provisions Proxmox VMs from a manifest: it loads and
validates the manifest, builds unattended-install ISOs, drives the Proxmox REST API,
finalizes the VMs once their system is installed, and keeps a hash-chained trace format.
There is no state file: what proxctl knows of the world is what the server answers now.
This directory holds TLA+ models of that behaviour, the TLC configurations that check
them, and TLAPS proofs of the central results. `PROJECT.json` is the index: runs,
mutants (one wrong version of the code for every property, which TLC must catch),
theorems, hazards, and the source lines every definition stands for.

    tlc -workers 2 -config MultiNodeFailFast.cfg MCMultiNode   # one run
    tlapm MultiNodeProofs.tla                                  # the proofs of a module

## 1. Inventory

| Component (source) | State it keeps | Operations | Interacts with | What is hard |
|---|---|---|---|---|
| Multi-node workflow (`pkg/workflow/multi_node.go`) | semaphore channel, shared upload mutex, errgroup and its context | Up (plan, apply in goroutines, verify, finalize), Down | one single-VM workflow per node, all sharing the mutex | goroutines that wait, fail and are cancelled in any order; two error modes |
| Single-VM workflow (`single_vm.go`) | the change list, the path of the built ISO | Plan, Apply, Verify, Up, Down | Proxmox operations, kickstart builder | a check long before its use; a failure in the middle of the list; nothing is undone |
| Finalize (`finalize.go`) | none | wait for SSH, detach two media, set the boot order | Proxmox operations, the guest | the guest runs at its own pace; three calls that may fail separately |
| Proxmox client (`pkg/proxmox/client.go`, `errors.go`) | none beyond the request | Do, WaitForTask | the REST API | lost answers, tasks that outlive the call, answers that are wrong or blank, cancellation |
| Proxmox operations (`vm.go`, `boot.go`, `storage.go`, `snapshot.go`) | none | one function for each REST call | Proxmox client | a 500 with null data that stands for "no such VM" |
| vm, boot, snapshot, workflow commands (`internal/root`) | none: a process per command | up, down, finalize, start, stop, reboot, delete, ... | everything above | a process may die anywhere; tasks of an earlier command may still be queued |
| Configuration loader (`pkg/config/loader.go`, `env.go`, `profiles.go`) | the manifest being built, the files seen | read, merge profile, follow `$ref`s | resolver, validators | the order of the stages; a slot that stays empty |
| Placeholder resolver (`resolver.go`) | the manifest, changed in place | walk every string, expand tokens | environment, files | references into the manifest that is being changed; Go's map order |
| Validators (`validators.go`) | sets of values seen | struct tags, five cross-field checks | the loaded manifest | a check without its layer passes; first error wins |
| Trace log (`pkg/trace/writer.go`, `reader.go`, `schema.go`) | file, buffer, previous hash | NewWriter, Write, Sync, Close, LoadAll | file system | kills, power loss, failing writes, reopening |
| Trace replay (`replay.go`, `internal/root/replay.go`) | results so far | strict, observe, dry-run | trace log, executor | an executor error in the middle |
| Kickstart build (`pkg/kickstart/*_builder.go`, `iso_extractor.go`, `internal/root/kickstart.go`) | scratch directories, output files, boot menus | Build of an OL or Ubuntu ISO, build-stack, build-iso, build-ubuntu | external tools, the file system, the storage, other proxctl processes | one fixed name per node in a shared TMPDIR; renames across devices; leftovers of killed builds |
| Kickstart renderer (`pkg/kickstart/renderer.go`) | none | Render, RenderTemplate | the manifest, the builders | only that it may fail in the middle of a build |
| Stack registry migration (`internal/root/root.go`) | `stacks.yaml` / `envs.yaml` | rename on start | nobody: nothing in this version reads or writes either file | not modelled |
| Configuration types, license gate, state database, version, docgen | no behaviour over time, or called by nobody | | | not modelled |

What would make each part correct:

* **Multi-node workflow**: never more than `maxConcurrency` nodes at work, one upload at a
  time, the error returned is a cause and not its consequence, nil means that every VM is
  done, nothing waits for ever, other people's VMs are never touched.
* **Single VM, over many commands**: nil of up and of down mean what they say whatever was
  left in the queue, an installed VM is never given the installer's medium again, the guest can
  always boot something, and trying again leads out of every half-finished state.
* **Client**: calls take effect in order, each at most once, and nil only after all did;
  "not found" means nothing happened; cancellation ends a call.
* **Configuration**: what is loaded is what the author meant, the verdict is exact and does
  not depend on the order of a map, secrets and references resolve to what they stand for.
* **Trace**: what was synced is not lost silently, neither by the reader nor by a replay, and a
  replay of a damaged log does nothing rather than a part.
* **Kickstart build**: the ISO handed over for a node is whole and made from that node's files, a
  finished ISO is never nowhere, scratch space is given back, and the installer starts unattended.

## 2. The modules

| Module | Models | Extended by |
|---|---|---|
| `MultiNode` | Up over N nodes: `MultiNodeWorkflow.Up`, the `Apply` of every node, finalize | `MCMultiNode`, `MultiNodeProofs` |
| `CallSequence` | the abstract promise of a list of mutating calls | instantiated by `ProxmoxTask` |
| `ProxmoxTask` | `Client.Do` and `WaitForTask` against every kind of answer; implements `CallSequence` | `MCProxmoxTask`, `ProxmoxTaskProofs` |
| `Installation` | the abstract promise about the system on one VM | instantiated by `VMLifecycle` |
| `VMLifecycle` | one VM under many commands, kills and reboots; implements `Installation` | `MCVMLifecycle`, `VMLifecycleProofs` |
| `Validators` | the checks over a manifest, as operators | `ConfigLoad` |
| `ConfigLoad` | `LoadWithOptions`, stage by stage | `MCConfigLoad`, `ConfigLoadProofs` |
| `Resolver` | `ResolvePlaceholders` | `MCResolver`, `ResolverProofs` |
| `TraceLog` | Writer, Reader and hash chain on a file system that fails | `MCTraceLog`, `Replay`, `TraceLogProofs` |
| `Replay` | a session: a log is written by `TraceLog`'s Writers, then `runReplay` loads and replays it | `MCReplay`, `ReplayProofs` |
| `KernelCmdline` | `patchKernelCmdline`, as operators on sequences of tokens | `KickstartBuild` |
| `KickstartBuild` | the commands that build ISOs, several processes on one file system | `MCKickstartBuild`, `KickstartBuildProofs` |

An operator called `<Name>_<variant>` is a wrong version of `<Name>` that no specification
uses; it is there to show that a property can tell the two apart.

How the modules fit together: `ConfigLoad` takes the result of `Resolver` as one step that
succeeds or fails. `MultiNode` and `VMLifecycle` take a mutating call as the pair of its
client's end and its server's end; that a call behaves so is what `ProxmoxTask` implements
(`CallSequence`). `MultiNode` is wide (several nodes, one command); `VMLifecycle` is long
(one node, any number of commands). `MultiNode`'s build step and the local ISO it leaves behind - whose
removal may fail unseen (`single_vm.go:263`) - are `KickstartBuild`'s `up`. `Replay` is composed with `TraceLog`: it replays the very file the Writers
left, torn or whole.

### MultiNode
`phase` is the statement of `MultiNodeWorkflow.Up`; `st[n]` and `step[n]` are where node n's
goroutine is in `applyPlan` and in its change list; `sem`, `mu`, `cancelled`, `first` are the
semaphore channel, `ISOUploadMu`, the errgroup's context and its first error. `vm`, `task`,
`iso` are the server's; the built ISO on the local disk is `KickstartBuild`'s. `Acquire`/`GiveUp` are the
two cases of the `select` on the semaphore; `Issue`, `CallOk`, `CallFailed`, `CallTimeout`,
`CallCancelled`, `CallLost` the beginning and the possible ends of one REST call; `Accept`,
`Land`, `Reject` what the server does with it, also after the client gave up.
`Foreign` is another user who creates a VM under a VMID while it is free; `Misread` lets
`VMExists` take an existing VM for an absent one. `SshUp` does not look at the VM: the model
allows the probe to succeed at any time, which is more than a guest does, so what is proved
does not depend on the guest.

### ProxmoxTask and CallSequence
`wire` is the one request or answer on the connection, `pc` the client's place in
`Do`/`WaitForTask`, `srv[i]` what became of call i. The sets `PostAnswers` and `PollAnswers`
partition answers by what the code does with them. `srv[i] = "mute"` is a task that stopped without
an exit status, after it did its work or without having done it: the client takes the blank status
for OK (`client.go:258`), so nil means that every call was executed or ended unreported
(`CallSequence`), not more. `MultiNode` and `VMLifecycle` assume that a failed task does report it.

### VMLifecycle
`Program(c)` is the list of calls a command makes. `queue` is the VM's task queue: the
model assumes that Proxmox executes the tasks of one VM in the order it took them, which its
per-VM lock provides. `guest` boots from the first bootable device of the boot order
(`Boots`), so that what the change list sets up matters. `snap` is one snapshot name. `System` and
`Saved` are the refinement mapping to `Installation`: the VM is absent, blank, installing,
installed with its kickstart ISO still attached, or sealed: installed without it; the snapshot holds
a blank, an installed or a sealed disk. `Installation` has no step that gives a sealed system the ISO
again, and a sealed system goes only with a deletion or a rollback. `Misread` is the
`VMExists` of `MultiNode`: Plan and Down may take the VM for absent.

What the firmware does is the constant `SlowDisk`. The boot order puts the disk first, and
`single_vm.go:247` concludes that an installed disk always boots; `CHANGELOG.md:371-381` reports that
it did not, and the VM went from its installed disk to the media behind it and into the installer
again. With `SlowDisk` the firmware may pass over an installed disk (`PassesOverDisk`), as a bounded
fault: `ImplementsInstallation` and the recovery hold all the same, `NeverStranded` and
`KeepsInstalledDisk` do not (section 5). The kickstart's `reboot --eject`, which opens the tray of the
medium the installer booted from, is left out.

Two assumptions about the guest. The probe of finalize cannot tell whose SSH banner it reads
(`finalize.go:124-141`); the model takes it to be the installed system's. Anaconda runs no sshd
unless asked to, but Ubuntu's live installer does: for such a guest `ssh` may succeed while it still
installs, and nothing here speaks of that. And an installer whose medium was detached may finish or
hang: `InstallDone` is allowed without it and fair only with it.

### Validators, ConfigLoad
`given` is the manifest as written with the files it may name, `env` what the loader has made of
it: a `Ref` with `ref`, `inline`, `value` for every slot it has. One action per stage and per
outcome. `Unique`/`NotUnique` visit the nodes in any order. `Meant`, `NoCollision` and
`NamesResolve` say, independently of the code's loops, what a manifest means and when it
is consistent.

### Resolver
The manifest is one string for every place the walk treats differently: a map of strings, a
plain field, a field in the copy of a map's value, a map inside that copy, and a field behind a
pointer. `pending` holds the entries of a map until the map is done. An inline layer is walked
twice, because `Ref.Value` is a shallow copy of `Ref.Inline`.

### TraceLog, Replay
A record on disk is three pieces (two halves of its JSON, and the newline) and a fault
may fall between any two. `synced` is what survives a power loss; `acked` are the records that a
`Sync` returned nil for, and those that a `Close` did as long as the power stays on, for `Close`
flushes and does not sync. An fsync may fail behind a complete flush, and nothing remembers that: the
model assumes that the next fsync that returns nil has written what was pending. In `Replay` the
executor's answers are chosen freely; `recs` is what `LoadAll` made of the file, and the replay
begins at any moment of the log's life, also right after a crash or a failed write.

### KickstartBuild, KernelCmdline
A path names an inode or nothing (`at`), and an inode holds who wrote into it and whether the last
of them finished (`data`): a file may be unlinked, renamed or replaced while another process still
writes it, and a tool that opens an existing file mixes its bytes with what was there. `scratch` is
the set of temporary directories; `Deferred` are those the Go `defer`s remove when a command
returns, and a killed command runs none of them. `Move`, `MoveFails` and `Copy` are the three ways
`os.Rename` and its fallback go: a rename works only on one device, it may fail there too, and
build-stack copies after any failure. `got`, `built`, `met` and `last` are history: what a process
handed over for a node, which ISOs it finished, whom it met, and who began last. `met[p]` has the
processes that ran a command for one of p's nodes in p's places, those that had the file open that p
writes, and the maker of a stale ISO that p could not remove (`os.Remove`'s error is ignored).
In `KernelCmdline` a boot line is a sequence of tokens, of which `Mentioning` are those with the word
autoinstall in them, also as a part; `Unattended` says what the live system must see, independently
of how the code puts it there. A menu is a sequence of lines.

## 3. The runs

Bounds are constants of the modules or sets in the MC modules. TLC explores every run
completely; deadlock is checked in all of them.

| Run | Instance | Checks and shows |
|---|---|---|
| `MultiNodeFailFast` | 2 nodes, 2 slots, kickstart build, finalize, misread checks; 125,812 states | `IInv` (the inductive invariant of the proofs), `UploadsExclusive`, `RootCauseReported`, `ForeignUntouched`, `StartAfterConfigured`, `FailFastReturns`: after the first error Up returns although the server may hang for ever, and `UpReturns`, here with the upload mutex |
| `MultiNodeContinue` | 3 nodes, 2 slots, `ContinueOnError`, `--skip-kickstart-build`; 809,826 states, two minutes | `ConcurrencyCapped`, `NilMeansDone`, `AttachNamesPresentIso` (in this mode the ISO is verified first), `FinalizeVisitsAll` (a failing finalize keeps no other node from its own), `UpReturns` |
| `MultiNodeIsoName` | 1 node, kickstart build | **violation** of `AttachNamesPresentIso`: uploaded under one name, attached under another |
| `ProxmoxTask` | 4 calls, the first without a not-found sentinel; 2,310 states | `IInv`, `NotFoundChangedNothing`, the refinement `ImplementsSequence`, `CancelReturns`, `CallsReturn` |
| `VMLifecycleWorkflow` | 14 commands in any order, 2 faults, 3 queued tasks, misread lookups; 1,145,661 states | `UpNilMeansInstalled`, `DownDeletes` (a down that found its VM), `NeverStranded`, `AttachesOnlyToBlank` |
| `VMLifecycleRecovers` | up, finalize, down --force, snapshots; 3 faults, 3 queued tasks, firmware that may pass over the disk; 133,037 states | `Recovers` (an operator who keeps trying gets there), the refinement `ImplementsInstallation`, and `UpNilMeansInstalled` with snapshots |
| `VMLifecycleFirstBoot` | up and configure-first-boot | **violation** of `KeepsInstalledDisk`: the default order of that command boots the installer again |
| `ConfigLoad` | 320 ways to fill the slots under every version, profile, secret and read outcome (7,680 manifests), and 7,688 pairs of VMs; 166,384 states | `LoadedAsMeant`, `VerdictIsExact`, `RefusedForCause` |
| `Resolver` | 2 nodes, 7 slots, up to 3 tokens out of 14; 2,535,754 states | `BackwardIsExact`, `OwnTokensExact`, `RefIsOldOrNew` |
| `TraceLogResume` | 2 records, 1 fault | **violation** of `SyncedLogLoads`: a torn line breaks the log for good |
| `Replay` | 3 records of 5 kinds, 2 faults, any number of Writers, then every mode and answer; 1,225,972 states, two minutes | the log: `NoSilentLoss`, `CleanLogLoads`, `KeepsSynced`; the replay: `StrictIsSound`; both together: `DurableIsReplayed` |
| `KickstartBuild` | 2 processes, 7 command lines, 2 nodes, 4 directories of which one on another device, 2 boot menus of 9 lines together, one with a txt.cfg; 5,755,925 states, two minutes | `DeliversOwn`, `ScratchRemoved`, `NeverNowhere`, `BootsUnattended` |

Why the bounds are enough for the cases that matter: two nodes already contend for the
mutex, cancel each other and race for the errgroup's first error; three nodes over two slots
make one wait while another leaves. Four calls have a first, inner and last one, and calls
on both sides of a failing one. Three faults leave a killed command's task in the queue, kill
its successor and fail a task of a third. Three records are a first, a torn and a following
one; reopening is not bounded. Two processes can build beside each other, or one after the other
was killed with half an ISO or a finished one in place; the seven command lines clash in TMPDIR, in
the output directory and on the storage, and one moves its ISO to another device. The boot lines
have a separator at the end, two, none, or one right behind the verb; some were patched before, one by
a release that put the arguments behind the separator, one names a file with the word in it, and some
lines boot nothing. Three tokens are a
chain of references and a base it ends in, a cycle, or a reference and two entries of one map. Two VMs with two NICs each have every
collision within a node, across nodes, and the one that a MAC of "auto" or an empty network
does not count as. `MaxFaults`, `MaxQueue`, `MaxRecords`, `MaxTokens` and the size of the
sets in the MC modules are the only bounds. In `KickstartBuild` every process runs one command.

`DeliversOwn` and `NeverNowhere` except a process that met another one: the names are fixed, and
then one process may well hand over the other's ISO. `met` says when that happened, so everything
else is held to the promise, in particular a build that follows a killed one. No property protects
the ISO that an earlier command published: build and rename replace it, and after any rename error
the copy of build-stack truncates it before it writes (`kickstart.go:359-361`), so that a
failure or a kill leaves a part of the new one. `ScratchRemoved` speaks of commands that return.

`VMLifecycleWorkflow` leaves out three things. The default order of configure-first-boot is not
the workflow's and breaks `AttachesOnlyToBlank` and `KeepsInstalledDisk` (that is the violation run).
Firmware that passes over the disk reinstalls a VM after finalize's probe has seen it run, so that the
detaches strand it. Snapshot restore
returns before its task ran, so a finalize that follows may see the system the rollback is
about to replace and detach the media of a blank VM: `NeverStranded` does not hold with it.
`VMLifecycleRecovers` has snapshot restore and `SlowDisk`; its `UpNilMeansInstalled` allows the race just
named to leave the installer at work.

### Fairness

* `ClientFairSpec` of `MultiNode` and `ProxmoxTask`: weak fairness of the program's own
  steps. The Go scheduler runs every goroutine that can run, timers fire, and the HTTP
  client's timeout of 30 seconds ends every request. Waiting for the semaphore or the
  mutex needs no strong fairness: in the finite list of nodes each holder passes once.
* `ServerFairness` is never part of a specification. It is the hypothesis of `UpReturns` and
  `CallsReturn`, because `WaitForTask` has no deadline and the commands pass
  `context.Background()`: without it nothing guarantees an end, and no property says so.
* `FairSpec` of `VMLifecycle`: processes, server and guest run; the operator keeps using each
  command (strong fairness of `Begin`, for a command can only begin between two others); faults
  are finite in number. Faults themselves are never fair. An installation ends if its medium stays in.

## 4. The proofs

Every safety invariant that a run checks is also proved, and so is every action property and both
refinements that a run checks, with three conditions named below. A theorem holds for all values of
the constants that satisfy the module's `ASSUME`s; TLC evaluates those on every run.

`MultiNodeProofs`, for every number of nodes, every capacity and every mode, from
`ConstantsAssumption` alone (N and MaxConcurrency positive, the switches Boolean):
`Inductive` (`IInv`), `TypeCorrect`, `Capped`, `UploadsAreExclusive`, `RootCause`, `NilIsDone`,
`ForeignIsUntouched`, `StartsConfigured`, `FinalizeIsPerNode` (`FinalizeVisitsAll`) and, when
`SkipKickstartBuild` holds, `AttachesPresentIso` (`AttachNamesPresentIso`) - without it the
violation run shows the opposite.

None of the properties is inductive by itself. `NilMeansDone` needs to know what every
step already made has left on the server (`ServerInv`), which needs that no request of a node
is still open when the node goes on (`TaskInv`: a lost call ends the node, so an open request
is always the step its node stopped at), which needs how far each loop is (`ControlInv`).
`RootCauseReported` needs that the context is cancelled only by the error that was recorded
(`ErrorInv`). `ConcurrencyCapped` counts tokens: `sem` equals the number of goroutines
inside `applyNode`, and the lemmas about cardinality carry the count through `Acquire`
and `Release`. The step lemmas have one case per action. `ForeignIsUntouched` and `StartsConfigured` follow from `TaskInv` and `ServerInv` at each
server step. `FinalizeVisitsAll` needs that the loop is at one node at a time (`NodeFinalize`) and that a
finalized node without an error has no request left that could undo it; `SkipInv` says that a node is past verify-iso only with the ISO it
will name on the storage, which nothing takes away (`IsoGrows`).

`ProxmoxTaskProofs`, for every number of calls K >= 1: `Inductive`, `TypeCorrect`,
`NotFoundIsHarmless` and `Refinement`, that the client implements `CallSequence`. The
strengthening `WireInv` says what may be on the wire at each point of the client.

`VMLifecycleProofs`, for every number of faults and every length of the queue, from
`CommandsAssumption`:

* `Inductive`, `TypeCorrect`, `UpInstalls` (`UpNilMeansInstalled`) and `DownRemoves`
  (`DownDeletes`), for any set of commands, with and without `SlowDisk`;
* `AttachedOnlyToBlank` (`AttachesOnlyToBlank`) and `Implements` (`ImplementsInstallation`), for any set
  without configure-first-boot, with and without `SlowDisk`;
* `GuestBoots` (`NeverStranded`), for any set without configure-first-boot and snapshot restore and
  without `SlowDisk`.

`IInv` is three parts: `Types`; `QueueInv`, that a create is queued, once, exactly while the VMID is
reserved, that the running command's own call is the last in the queue, and that the queue is empty
when that call has succeeded (the VM's tasks run first in, first out); `MachineInv`, what there is
without a VM and what the guest shows of the disk. The properties need more, each its own invariant
on top:

* `UpInv` (with `ClientInv`) says, for each step of up, what has been achieved by then. Its core is that
  up has the VM for itself once its create has worked: whatever earlier commands left in the queue
  came before the create, so up's calls are the only ones behind it and what each has done stays done. `DiskReady` is what it
  has of the disk: installed, or in the hands of an installer that a slow disk let in.
* `DownInv` is the same for the delete of down.
* `DiskFirst`: no boot order in use, queued or in the snapshot has the ISO first, so that an installed
  disk boots if the firmware waits for it (`BootsWhat` turns a boot order into what the guest does).
* `AttachInv`: an attach is queued only as the first task, before a VM that is `Fresh`: off and blank.
  Even when Plan misread the VM as absent, the create that comes before the attach is refused.
* `StripInv`: while a VM is not installed it keeps its install medium, and no call that takes one away
  is queued; only a command that saw the system running issues such calls.

The refinement has one step per action: `SystemBecomes` names the `Installation` step each
server and guest action is, all client actions stutter.

`KickstartBuildProofs`, for any processes, hosts, directories, command lines and boot menus, from
`CommandsAssumption` (which also says that None is none of them):

* `Inductive`, `TypeCorrect`, `NoScratchLeft` (`ScratchRemoved`) and `UbuntuIsUnattended`
  (`BootsUnattended`). `PatchedIsUnattended` is the lemma under the last: a boot line of an
  install ISO, of any tokens and any length, is unattended once patched if and only if it was so before
  or said nothing of autoinstall and has a kernel in front of the separator; that there is a first separator is well-founded induction on the naturals. The invariant ties the place
  in the program to the directories there are and to whether grub.cfg has been patched.
* `FilesInductive` (`FilesInv`), `HandsOverItsOwn` (`DeliversOwn`) and `IsSomewhere`
  (`NeverNowhere`). That an ISO is whole is no property of its path:
  a process writes to an inode, whatever name that has by then. So `FilesInv` follows inodes.
  `NamesInv`: no inode has two names, and a name stands only for what its process has come to make.
  `MineInv`: as long as a process that met nobody is the last to build for a node (`Alone`), nobody
  else writes its inode, and that is nowhere but under the build or the output name. `Apart` is why:
  whoever else is at work on the node shares no name with it; `SharesMet`: two processes that write one
  file have met. `Holds` is a finished ISO under a name that nobody writes. `OwnInv` gives, step by step, what
  such a process has in its files; `GotInv` and `KeptInv` keep it after the step. A step of another
  process is handled once for all properties (`OthersUntouched`, `StepKept`), the process's own
  actions one by one.

`TraceLogProofs`, for any number of records, faults and Writers, from `KindsAssumption`:
`LogInductive` (`LogInv`), `LogTypeCorrect`, `LossIsLoud` (`NoSilentLoss`), `SyncedStaysReadable`
(`KeepsSynced`) and `CleanLoads` (`CleanLogLoads`). `LogInv` says that the file, and an open
Writer's file continued by its buffer, is a `Stream`: pieces in the order of Write, none twice, every
second half right behind its first and every newline right behind its second half, though a record may
be missing or stop after any piece; that every record in `written` has the hash of its own text; and
that the line of every acknowledged record ends in the file (`AckInv`). From it: a line with a torn piece does not parse, and a line that parses is one
whole record; if an acknowledged record is not read, then a line before it does not parse or does
not fit the chain, and LoadAll reports it. `KeepsSynced` needs in addition that a step keeps the
whole file, or its synced part when the power fails (`Kept`), and that a line in what is kept reads as
before. `CleanInv`: without a
fault file and buffer are `Wholly` the pieces of the records written so far, each chained to the last.
Arguments over lines are inductions over the naturals in the form "take the first
place where it fails" (`Least`, from `WFMin`).

`ReplayProofs`, for any log, any number of records and faults: `ProgressHolds`, `StrictSound` (`StrictIsSound`) and `DurableReplays` (`DurableIsReplayed`).
`Progress` ties every answer to its record. A session's steps are steps of the log or leave it alone
(`SessionIsSpec`), so `TraceLogProofs` applies; `SessionInv` says that a replay that was let in (`LetIn`) works
on the records of the whole file, in order, so of a damaged log nothing is executed; and with
`LossIsLoud` no acknowledged record is missing.

`ConfigLoadProofs`, for any manifests, files and profiles, from `InputsAssumption` (a slot is a
file name or a layer, as `UnmarshalYAML` reads it; the NICs of a node are a list) and
`ProfilesAssumption` (the embedded profiles have names and version "1"): `LoadInductive`
(`LoadInv`), `LoadsWhatIsMeant` (`LoadedAsMeant`), `RefusesForCause` (`RefusedForCause`),
`UniqueInductive`, `VerdictExact` (`VerdictIsExact`) and `LoadTypeCorrect`. `EnvInv` describes every slot
at each stage: as written, merged with the profile, or, before the slot `next`, with the layer
its author meant; `resolveRef` settles each slot once because `seen` grows by the files of the slots
passed. `UniqueInv`: whichever nodes have been visited, `met` is what those nodes have (`SeenOf`) and
they are `Apart`. It does not mention the order, which is the point; `DuplicateIsExact` says that the next
node is a duplicate exactly when it breaks `Apart`.

`ResolverProofs`, for any nodes, tokens, environment and number of tokens, from `TokensAssumption`
(the tokens are of the five kinds the pattern matches): `WalkInductive` (`Inv`), `BackwardExact`
(`BackwardIsExact`), `OwnExact` (`OwnTokensExact`), `RefOldOrNew` (`RefIsOldOrNew`) and `WalkTypeCorrect`.
`Inv` distinguishes a string that is `Settled` (written back) from one that is only `Visited` (a value
waits in `pending` until its map is done): every settled string and every pending value is what it
should be (`Aims`, `OldOrNew`), everything else is as written, and what has been noted is what the
visited tokens call for. A second pass over an inline layer changes nothing because what a token was
expanded to stays what it is (`Stays`). `Meaning` is a recursive function; that it exists when references go
backward is proved by four rounds of its definition, one for every place of the walk
(`MeaningIsFunction`), without induction.

The proofs explain three choices in the models. `Fails` of `Resolver` is a conjunction: as a CASE, two of
its guards would hold together for an encoded reference, and its value would be a choice. `InOrder` of
`Replay` and `Duplicate` of `Validators` are stated over positions, since what a sort or a fold
computes cannot be reasoned about here. And `CommandsAssumption`, `InputsAssumption`,
`ProfilesAssumption` and `TokensAssumption` say what the actions rely on their constants for.

Only model-checked: liveness (`FailFastReturns`, `UpReturns`, `CancelReturns`, `CallsReturn`,
`Recovers`) and with it `ENABLED`, which the prover does not reach; and the three violation runs. No
proof uses induction over a data structure: a fold over a sequence of any length is out of
reach, so the models avoid folds where something is proved, and no module declares a RECURSIVE
operator.

## 5. Where code and documents disagree

Three disagreements are runs (section 3). The others are definitions at the end of their modules
with the line they quote; naming one in a cfg of its module gives the counterexample.

| Definition | What the document says | What the code does |
|---|---|---|
| `MultiNode!NoOrphanAfterFailedUp` | a failed up is unwound (`docs/user-guide.md:326`) | nothing calls Rollback; created VMs stay |
| `MultiNode!HealthyNodesFinalized` | finalize is mandatory after install (`single_vm.go:322`) | with `ContinueOnError` one failed node skips finalize for all |
| `ProxmoxTask!NilMeansOK` | WaitForTask returns nil when the task finished OK, otherwise an error (`client.go:244-246`) | a blank exit status counts as OK (258), whatever the task did |
| `MultiNode!UploadEndpointNotRaced` | uploads never run in parallel (`CHANGELOG.md:627`) | the mutex is released when the client gives up, while the server's upload goes on |
| `VMLifecycle!KeepsInstalledDisk`, `SlowDisk` | with the disk first a reboot never relaunches the installer (`single_vm.go:247`) | `CHANGELOG.md:371-381` reports that it did, with this very order; the loop is closed only when finalize has detached the media (`CHANGELOG.md:9-14`, `workflow.go:278`) |
| `VMLifecycle!DownNilMeansGone` | down destroys the VM (`docs/quick-start.md:125`, `docs/troubleshooting.md:202`) | `VMExists` takes a 500 with null data for absence (`vm.go:389-398`, 443-451), and Down returns nil with the VM in place |
| `VMLifecycle!CreateIdempotent` | vm create may be repeated (`docs/user-guide.md:215`) | Plan refuses an existing VM |
| `VMLifecycle!VmCreateDoesNotBoot` | vm create does not boot (`docs/user-guide.md:190`) | its change list ends with start |
| `VMLifecycle!SnapshotTaken` | snapshots are the checkpoint before patching (`docs/user-guide.md:341`) | the command does not wait for the task, nor see it fail |
| `TraceLog!SyncedLogLoads`, kind `unclean` | the hash detects tampering (`schema.go:80`) | a record with text that is not UTF-8 fails its own check |
| `KickstartBuild!MentionedIsUnattended` | a line that has the word autoinstall is already patched (`ubuntu_iso_builder.go:199-201`, 215) | the word may stand anywhere: behind the separator, where v2026.04.30.5 and .6 wrote it (`CHANGELOG.md:176-194`), or in the name of a file; the line stays interactive and Build returns nil |
| `KickstartBuild!EveryMenuPatched` | the arguments go into grub.cfg and, if present, isolinux/txt.cfg (`ubuntu_iso_builder.go:36`) | any failure to extract txt.cfg goes unseen (100-108): the ISO keeps the interactive BIOS menu, or gets a part of it; and a line that `MentionedIsUnattended` is about stays as it is |
| `KickstartBuild!ScratchCleaned` | the caller can clean up (`ubuntu_iso_builder.go:96`) | after a failure Build returns no path, and its one caller removes nothing |
| `Replay!ObserveReportsErrors` | observe fails on an execution error (`replay.go:20`) | it returns nil |
| `Resolver!NoTokenLeft` | every token is expanded (`resolver.go:41`) | a reference to a place not yet walked copies the raw token, which nothing visits again |
| `ConfigLoad!CircularIsACycle` | circular references are detected (`loader.go:121`) | two slots that name one file are reported as a cycle |
| `ConfigLoad!ProfileFillsUnset` | profiles are deep-merged (`loader.go:83`, `docs/config-reference.md:424`) | only version, kind, description and the cluster; not the type of a cluster in a `$ref` file |
| `ConfigLoad!RACHasTwoNodes` | RAC needs two nodes (`docs/config-reference.md:451`) | nothing counts them; the shared disk, the interconnect and unique `ips` are not checked either |

Seen while reading and not modelled: the documented filter is `default=X`, the code's
`default:X`; `gen:password,length=32` (`docs/config-reference.md:401`) expands to nothing; the
`ref` example (402) lacks the `value` step; user profiles in `~/.proxctl/profiles` (424) are
never read; `defaults` of a hypervisor layer is never applied. `docs/troubleshooting.md:59` says that
`kickstart upload` cleans up stale `proxctl-ks-*` ISOs, the command uploads and nothing else. The
comment of `patchKernelCmdline` (`ubuntu_iso_builder.go:183`) names `kernel` lines, its pattern does
not match them. `build-stack --upload` stores `proxctl-<node>.iso`, while
`up --skip-kickstart-build` looks for `<node>_kickstart.iso`.

## 6. Not modelled, and why

* Formatting: option strings of disks and NICs, kickstart templates, arguments of xorriso.
* Commands that only read (list, status, plan, verify of a single VM); `kickstart generate`, which
  writes rendered text to files, and `kickstart upload`, a bare `UploadISO`.
* The storage check of build-stack after the output directory is made is folded into the failure of the
  first render: either way the command ends with the same directories.
* A tool that outlives its proxctl: a kill ends both.
* What the firmware and the guest do beyond the boot order (the tray that `reboot --eject` opens, the sshd
  of a live installer), see section 2.
* `Rollback` and the library's `Delete` and `ConfigureFirstBoot`, which nothing calls.
* `MultiNode.Down`: the `Down` that `VMLifecycle` models, for one node after the other, with the
  errors joined.
* The rename of `envs.yaml` to `stacks.yaml`: nothing in this version reads or writes either file.
* Two proxctl processes at work on one VM at the same time, except as `Foreign`; two that build ISOs
  at the same time are `KickstartBuild`.
* The tags of single fields (addresses, number ranges) in the struct validation.
* License gate (called by nobody), state database (used by nobody), version, docgen.

## 7. Plan

Done, in this order: the provisioning core (`MultiNode`, `ProxmoxTask`, `VMLifecycle`), the data
that survives proxctl (`TraceLog`, `Replay`), what feeds it (`ConfigLoad`, `Resolver`), the ISO builds
(`KickstartBuild`), the abstract `Installation` with its refinement, and the proofs of section 4.

What is left, in the order of its worth:

1. A theorem that holds with and without its premise: `NeverStranded` and `AttachesOnlyToBlank` for
   command sets with configure-first-boot and snapshot restore, under the weakest condition on the order
   in which they are used.
2. An abstract append-only log whose losses are reported, implemented by `TraceLog`, with the
   refinement proved from `LogInv`, `LossIsLoud` and `SyncedStaysReadable`; an abstract "load" that is
   `Meant` and `NoCollision` in one step, implemented by `ConfigLoad`.
3. The safety half of the liveness properties: that after the first error no goroutine begins a new
   step, so that only the client's own steps stand between it and the return of `Up`.
4. `MultiNode.Down` as an action, and several VMs in `VMLifecycle`.
