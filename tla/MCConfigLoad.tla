---------------------------- MODULE MCConfigLoad ----------------------------
(* ConfigLoad for TLC: Loads varies how a manifest is put together, Checks   *)
(* what its layers say.                                                      *)
EXTENDS ConfigLoad

Nic(mac, net, addr, usage) == [mac |-> mac, net |-> net, addr |-> addr, usage |-> usage]
NicsOfANode == {Nic("m1", "pub", "a1", "public"), Nic("auto", "priv", "a1", "private"),
                Nic("m1", "", "a1", "vip"), Nic("", "pub", "", "public"),
                Nic("m2", "nowhere", "a2", "private")}
NicLists == {<<>>} \cup {<<c>> : c \in NicsOfANode} \cup (NicsOfANode \X NicsOfANode)
Disk(class, tag) == [class |-> class, tag |-> tag]

VM(vmid, nics, disks) == [vmid |-> vmid, nics |-> nics, disks |-> disks]
Hypervisor(nodes) == [kind |-> "Hypervisor", nodes |-> nodes]
Pair(a, b) == [n \in {"a", "b"} |-> IF n = "a" THEN a ELSE b]
OneVM == [n \in {"a"} |-> VM(100, <<Nic("m1", "pub", "a1", "public"),
                                    Nic("m2", "priv", "a2", "private")>>, <<>>)]
Fine == Hypervisor(OneVM)
Hypervisors ==
  {Hypervisor(Pair(VM(100, na, <<Disk("ssd", "data")>>), VM(v, nb, d))) :
     na \in NicLists, nb \in NicLists, v \in {100, 101},
     d \in {<<>>, <<Disk("", "redo"), Disk("tape", "")>>}}

Networks == [kind |-> "Networks", zones |-> {"pub", "priv"}]
Storage  == [kind |-> "StorageClasses", classes |-> {"ssd"}]
Linux(tags) == [kind |-> "Linux", tags |-> tags]
Cluster(type, scan) == [kind |-> "Cluster", type |-> type, scan |-> scan]
Database == [kind |-> "PostgresDatabase"]

RacProfile == [name \in {"rac"} |-> [version |-> "1", cluster |-> Cluster("oracle-rac", 3)]]
Paths == [r \in {"env.yaml", "hv.yaml", "./hv.yaml", "lin.yaml", "db.yaml", "cl.yaml", "gone.yaml"} |->
            IF r = "./hv.yaml" THEN "/hv.yaml" ELSE CASE r = "env.yaml" -> "/env.yaml"
              [] r = "hv.yaml" -> "/hv.yaml" [] r = "lin.yaml" -> "/lin.yaml"
              [] r = "db.yaml" -> "/db.yaml" [] r = "cl.yaml" -> "/cl.yaml"
              [] OTHER -> "/gone.yaml"]
FilesWith(hv) == [p \in {"/hv.yaml", "/lin.yaml", "/db.yaml", "/cl.yaml"} |->
                    CASE p = "/hv.yaml"  -> hv [] p = "/lin.yaml" -> Linux({"data"})
                      [] p = "/db.yaml" -> Database [] OTHER -> Cluster("", 3)]

(* A Ref for every slot; <<>> leaves the slot out. *)
Manifest(hv, linux, cluster, dbs) ==
  LET all == [s \in Slots |->
                CASE s = "hypervisor"      -> hv
                  [] s = "networks"        -> <<Ref("", Networks)>>
                  [] s = "storage_classes" -> <<Ref("", Storage)>>
                  [] s = "linux"           -> linux
                  [] s = "cluster"         -> cluster
                  [] s = "databases[0]"    -> dbs[1]
                  [] s = "databases[1]"    -> dbs[2]]
  IN [s \in {s \in Slots : all[s] # <<>>} |-> all[s][1]]

File1(r) == <<Ref(r, Nothing)>>
Loads ==
  [readable : BOOLEAN, unset : BOOLEAN, version : {"", "1"}, extends : {"", "rac", "nope"},
   files : {FilesWith(Fine)},
   slots : {Manifest(hv, l, c, d) :
              hv \in {<<>>, File1("hv.yaml"), File1("env.yaml"), File1("db.yaml"), <<Ref("", Fine)>>},
              l \in {<<>>, File1("hv.yaml"), File1("lin.yaml"), <<Ref("", Nothing)>>},
              c \in {<<>>, File1("cl.yaml"), <<Ref("", Cluster("", 2))>>, <<Ref("", Cluster("plain", 0))>>},
              d \in {<<<<>>, <<>>>>, <<File1("db.yaml"), File1("./hv.yaml")>>,
                     <<File1("gone.yaml"), <<>>>>, <<File1("db.yaml"), <<Ref("", Database)>>>>}}]
Checks ==
  [readable : {TRUE}, unset : {FALSE}, version : {"1"}, extends : {""},
   files : {FilesWith(hv) : hv \in Hypervisors},
   slots : {Manifest(File1("./hv.yaml"), l, c, <<<<>>, <<>>>>) :
              l \in {<<>>, <<Ref("", Linux({"data", "redo", ""}))>>},
              c \in {<<Ref("", Cluster("oracle-rac", 3))>>}}]
AllInputs == Loads \cup Checks
=============================================================================
