--------------------------- MODULE MCProxmoxTask ----------------------------
(* Instances of ProxmoxTask for TLC: in the order of an attach, the calls   *)
(* that map isNotFound are configUpdate's; a create-vm does not.            *)
EXTENDS ProxmoxTask

AllButFirst == 2..K
=============================================================================
