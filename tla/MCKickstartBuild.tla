-------------------------- MODULE MCKickstartBuild --------------------------
(* The command lines two operators may type, and the boot menus of the      *)
(* Ubuntu ISOs they have.                                                   *)
EXTENDS KickstartBuild

CONSTANTS p1, p2

Command(kind, hosts, work, dest, upload, keep) ==
  [kind |-> kind, hosts |-> hosts, work |-> work, dest |-> dest, upload |-> upload, keep |-> keep]

TwoProcs  == {p1, p2}
TwoHosts  == {"n1", "n2"}
FourDirs  == {"tmp", "tmp2", "out", "mnt"}
MountedDirs == {"mnt"}

SomeCommands == {
  Command("stack", {"n1", "n2"}, "tmp", "out", FALSE, FALSE),
  Command("stack", {"n1"}, "tmp", "mnt", TRUE, FALSE),
  Command("stack", {"n2"}, "tmp2", None, TRUE, TRUE),
  Command("iso", {"n1"}, "tmp", None, FALSE, FALSE),
  Command("iso", {"n1"}, "tmp2", "out", FALSE, FALSE),
  Command("up", {"n1"}, "tmp", None, TRUE, FALSE),
  Command("ubuntu", {"n2"}, "tmp", "out", FALSE, FALSE)}

(* One file beside the arguments' own word has it in its name.              *)
SomeMentioning == {"autoinstall", "/autoinstall.yaml"}

SomeTokens == {"set", "linux", "linuxefi", "append", "vmlinuz", "initrd", "quiet", "---",
               "ds=nocloud"} \cup SomeMentioning

Casper    == <<"linux", "vmlinuz", "quiet", "---">>
NoBoot    == <<"set", "quiet">>
TwoBars   == <<"linuxefi", "vmlinuz", "---", "quiet", "---">>
BarFirst  == <<"linux", "---", "quiet">>
NoBar     == <<"linux", "vmlinuz">>
Behind56  == <<"linux", "vmlinuz", "---", "autoinstall", "ds=nocloud">>  \* v2026.04.30.5/6
NamesFile == <<"linux", "vmlinuz", "/autoinstall.yaml", "---">>

SomeMenus == {
  [f \in {"grub.cfg", "txt.cfg"} |->
     IF f = "grub.cfg" THEN <<NoBoot, Casper, TwoBars, BarFirst>>
     ELSE <<NoBoot, <<"append", "initrd", "---">> >>],
  [f \in {"grub.cfg"} |-> <<Patch(Casper), Patch(NoBar), Behind56, NoBoot, NamesFile>>]}
=============================================================================
