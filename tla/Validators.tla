----------------------------- MODULE Validators -----------------------------
(***************************************************************************)
(* Validate (pkg/config/validators.go) over a resolved manifest: what each *)
(* check computes, one node of hypervisor.nodes at a time where the code   *)
(* loops over that map, and what the checks are for.                       *)
(*                                                                         *)
(* A manifest e maps every slot of the spec to its layer, or to Nothing.   *)
(***************************************************************************)
EXTENDS Naturals, Sequences, FiniteSets

Nothing == [kind |-> ""]

Present(e, slot) == e[slot] # Nothing
Nodes(e) == IF Present(e, "hypervisor") THEN DOMAIN e["hypervisor"].nodes ELSE {}
Node(e, n) == e["hypervisor"].nodes[n]

(* Struct tags: the kinds a layer may have, and what must not be empty; the  *)
(* tags of single fields (addresses, ranges of numbers) are left out.        *)
Kinds(slot) ==
  CASE slot = "hypervisor"      -> {"Hypervisor"}
    [] slot = "networks"        -> {"Networks"}
    [] slot = "storage_classes" -> {"StorageClasses"}
    [] slot = "linux"           -> {"Linux"}
    [] slot = "cluster"         -> {"Cluster"}
    [] OTHER -> {"OracleDatabase", "PostgresDatabase", "oracle_database",
                 "rac_database", "pg_database", "pg_cluster"}

Required == {"hypervisor", "networks", "storage_classes"}

StructValid(e) ==
  /\ \A slot \in Required : Present(e, slot)
  /\ \A slot \in DOMAIN e : Present(e, slot) => e[slot].kind \in Kinds(slot)
  /\ Nodes(e) # {} /\ e["networks"].zones # {} /\ e["storage_classes"].classes # {}
-----------------------------------------------------------------------------
(* validateUniqueness keeps what it has seen and stops at the first value   *)
(* it has seen before.                                                      *)
NothingSeen == [vmids |-> {}, macs |-> {}, addrs |-> {}]

Elements(s) == {s[i] : i \in DOMAIN s}

HasMac(c)  == c.mac \notin {"", "auto"}
HasAddr(c) == c.net # "" /\ c.addr # ""

Macs(nics)  == {c.mac : c \in {d \in nics : HasMac(d)}}
Addrs(nics) == {<<c.net, c.addr>> : c \in {d \in nics : HasAddr(d)}}

Duplicate_acrossNodes(node, seen) == \/ node.vmid \in seen.vmids
                                     \/ Macs(Elements(node.nics)) \cap seen.macs # {}
                                     \/ Addrs(Elements(node.nics)) \cap seen.addrs # {}
Duplicate(node, seen) ==
  \/ node.vmid \in seen.vmids
  \/ \E i \in DOMAIN node.nics :
       LET c == node.nics[i]
           before == {node.nics[j] : j \in {j \in DOMAIN node.nics : j < i}}
       IN \/ HasMac(c) /\ c.mac \in seen.macs \cup Macs(before)
          \/ HasAddr(c) /\ <<c.net, c.addr>> \in seen.addrs \cup Addrs(before)

Seen(node, seen) == [vmids |-> seen.vmids \cup {node.vmid},
                     macs  |-> seen.macs \cup Macs(Elements(node.nics)),
                     addrs |-> seen.addrs \cup Addrs(Elements(node.nics))]
-----------------------------------------------------------------------------
(* The checks that look at one node, or at no node, at a time. *)

RACValid(e) ==
  Present(e, "cluster") /\ e["cluster"].type = "oracle-rac" =>
    /\ e["cluster"].scan >= 3
    /\ \A n \in Nodes(e) :
         {"public", "private"} \subseteq {c.usage : c \in Elements(Node(e, n).nics)}

NICNetworksKnown(e) ==
  \A n \in Nodes(e) : \A c \in Elements(Node(e, n).nics) :
    c.net = "" \/ c.net \in e["networks"].zones

DiskStorageKnown(e) ==
  \A n \in Nodes(e) : \A d \in Elements(Node(e, n).disks) :
    d.class = "" \/ d.class \in e["storage_classes"].classes

Tags(e) == {d.tag : d \in UNION {Elements(Node(e, n).disks) : n \in Nodes(e)}}

DiskTagsKnown(e) ==
  Present(e, "linux") => e["linux"].tags \ {""} \subseteq Tags(e) \ {""}

(* The checks that fail, all of them joined. *)
CrossErrors(e) == {check \in {"rac", "nic", "disk", "tag"} :
                     ~ CASE check = "rac"  -> RACValid(e)
                         [] check = "nic"  -> NICNetworksKnown(e)
                         [] check = "disk" -> DiskStorageKnown(e)
                         [] check = "tag"  -> DiskTagsKnown(e)}
-----------------------------------------------------------------------------
(* What the checks are for: no two VMs, and no two NICs of a VM, collide on *)
(* the server or on a network, and every name resolves.                     *)

NicsOf(e) == UNION {{n} \X DOMAIN Node(e, n).nics : n \in Nodes(e)}
NicAt(e, p) == Node(e, p[1]).nics[p[2]]

Collide(c, d) == \/ c.mac = d.mac /\ c.mac \notin {"", "auto"}
                 \/ c.net = d.net /\ c.addr = d.addr /\ c.net # "" /\ c.addr # ""

NoCollision(e) ==
  /\ \A m, n \in Nodes(e) : m # n => Node(e, m).vmid # Node(e, n).vmid
  /\ \A p, q \in NicsOf(e) : p # q => ~Collide(NicAt(e, p), NicAt(e, q))

NamesResolve(e) ==
  /\ \A p \in NicsOf(e) : NicAt(e, p).net \in e["networks"].zones \cup {""}
  /\ \A n \in Nodes(e) : \A i \in DOMAIN Node(e, n).disks :
       Node(e, n).disks[i].class \in e["storage_classes"].classes \cup {""}
  /\ Present(e, "linux") => \A t \in e["linux"].tags \ {""} :
       \E n \in Nodes(e) : \E i \in DOMAIN Node(e, n).disks : Node(e, n).disks[i].tag = t
=============================================================================
