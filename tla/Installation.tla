---------------------------- MODULE Installation ----------------------------
(***************************************************************************)
(* What an operator may rely on about the system on one VM, whatever       *)
(* commands are run, killed and repeated: it is installed on a blank disk, *)
(* and when its installer's medium is gone it leaves only by a deletion or *)
(* by going back to a snapshot.                                            *)
(***************************************************************************)
CONSTANT Reinstalls  \* whether an installer may start over an installed disk

VARIABLES
  system, \* absent: there is no VM; blank, installing; installed, with the
          \* medium in the VM; sealed: without
  saved   \* what the snapshot holds: none, blank, installed or sealed

vars == <<system, saved>>

Init == system = "absent" /\ saved = "none"

Create  == system = "absent" /\ system' = "blank" /\ UNCHANGED saved
Install == /\ system = "blank" \/ (Reinstalls /\ system = "installed")
           /\ system' = "installing"
           /\ UNCHANGED saved
Finish  == system = "installing" /\ system' \in {"installed", "sealed"} /\ UNCHANGED saved
Abort   == system = "installing" /\ system' = "blank"  /\ UNCHANGED saved
Seal    == system = "installed"  /\ system' = "sealed" /\ UNCHANGED saved

(* A VM that is being installed is running and cannot be deleted.           *)
Delete == /\ system \in {"blank", "installed", "sealed"}
          /\ system' = "absent" /\ saved' = "none"

Save == /\ system # "absent"
        /\ saved' = IF system = "installing" THEN "blank" ELSE system
        /\ UNCHANGED system

Forget   == saved # "none" /\ saved' = "none" /\ UNCHANGED system
Rollback == system # "absent" /\ saved # "none" /\ system' = saved /\ UNCHANGED saved

Next == \/ Create \/ Install \/ Finish \/ Abort \/ Seal
        \/ Delete \/ Save \/ Forget \/ Rollback

Spec == Init /\ [][Next]_vars
=============================================================================
