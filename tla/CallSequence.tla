---------------------------- MODULE CallSequence ----------------------------
(***************************************************************************)
(* What a list of mutating Proxmox calls promises to its caller: the calls *)
(* are requested in order, each at most once, the next one only when the   *)
(* one before has been executed, and the caller learns nil only when all   *)
(* of them have.  A request that ended unreported counts as executed: the  *)
(* server does not say how it ended.  An error may come at any time and    *)
(* says nothing about the call it ended: its request may still be executed *)
(* afterwards.                                                             *)
(*                                                                         *)
(* ProxmoxTask implements it; the change list of a node in MultiNode       *)
(* relies on it.                                                           *)
(***************************************************************************)
EXTENDS Naturals

CONSTANT K \* number of calls, at least one

VARIABLES
  at,   \* the call the caller is at
  out,  \* what the caller got: none yet, nil or err
  task  \* each call's request, as the server sees it

vars == <<at, out, task>>

Init == at = 1 /\ out = "none" /\ task = [i \in 1..K |-> "none"]

Issue == /\ out = "none" /\ task[at] = "none"
         /\ task' = [task EXCEPT ![at] = "sent"]
         /\ UNCHANGED <<at, out>>

(* The server makes progress on a request, whoever still waits for it.      *)
Settle(i) == /\ \/ task[i] = "sent" /\ \E s \in {"running", "ok", "failed"} :
                                          task' = [task EXCEPT ![i] = s]
                \/ task[i] = "running" /\ \E s \in {"ok", "failed", "unreported"} :
                                             task' = [task EXCEPT ![i] = s]
             /\ UNCHANGED <<at, out>>

Advance == /\ out = "none" /\ task[at] \in {"ok", "unreported"}
           /\ IF at = K THEN out' = "nil" /\ UNCHANGED at
                        ELSE at' = at + 1 /\ UNCHANGED out
           /\ UNCHANGED task

Fail == out = "none" /\ out' = "err" /\ UNCHANGED <<at, task>>

Next == Issue \/ (\E i \in 1..K : Settle(i)) \/ Advance \/ Fail

Spec == Init /\ [][Next]_vars
=============================================================================
