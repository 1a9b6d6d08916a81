-------------------------- MODULE ConfigLoadProofs --------------------------
(***************************************************************************)
(* What Load makes of a manifest, for any set of manifests, files and      *)
(* profiles: the layers it checks are the ones its author meant, the       *)
(* verdict does not depend on the order of the nodes, and a refusal has    *)
(* its cause in the manifest.                                              *)
(***************************************************************************)
EXTENDS ConfigLoad, TLAPS

(* The VMs of V do not collide. *)
Apart(e, V) ==
  /\ \A m, n \in V : m # n => Node(e, m).vmid # Node(e, n).vmid
  /\ \A p, q \in NicsOf(e) :
       p[1] \in V /\ q[1] \in V /\ p # q => ~Collide(NicAt(e, p), NicAt(e, q))

(* What validateUniqueness has seen of them. *)
SeenOf(e, V) == [vmids |-> {Node(e, n).vmid : n \in V},
                 macs  |-> UNION {Macs(Elements(Node(e, n).nics)) : n \in V},
                 addrs |-> UNION {Addrs(Elements(Node(e, n).nics)) : n \in V}]

(* The NICs of a VM are a list. *)
Lists(e) == \A n \in Nodes(e) : DOMAIN Node(e, n).nics = 1..Len(Node(e, n).nics)
-----------------------------------------------------------------------------
(* The pieces the check is made of. *)
LEMMA MacsAre ==
  ASSUME NEW C, NEW x
  PROVE  x \in Macs(C) <=> \E c \in C : HasMac(c) /\ c.mac = x
BY DEF Macs

LEMMA AddrsAre ==
  ASSUME NEW C, NEW x, NEW y
  PROVE  <<x, y>> \in Addrs(C) <=> \E c \in C : HasAddr(c) /\ c.net = x /\ c.addr = y
<1>1. <<x, y>> \in Addrs(C) <=> \E c \in C : HasAddr(c) /\ <<c.net, c.addr>> = <<x, y>>
  BY DEF Addrs
<1>2. \A c : <<c.net, c.addr>> = <<x, y>> <=> c.net = x /\ c.addr = y
  OBVIOUS
<1> QED BY <1>1, <1>2

LEMMA CollideIs ==
  ASSUME NEW c, NEW d
  PROVE  Collide(c, d) <=> \/ HasMac(c) /\ HasMac(d) /\ c.mac = d.mac
                           \/ HasAddr(c) /\ HasAddr(d) /\ c.net = d.net /\ c.addr = d.addr
BY DEF Collide, HasMac, HasAddr

LEMMA NicsAre ==
  ASSUME NEW e
  PROVE  /\ \A n \in Nodes(e) : \A i \in DOMAIN Node(e, n).nics :
              /\ <<n, i>> \in NicsOf(e) /\ NicAt(e, <<n, i>>) = Node(e, n).nics[i]
              /\ <<n, i>>[1] = n
         /\ \A p \in NicsOf(e) : \E n \in Nodes(e) : \E i \in DOMAIN Node(e, n).nics : p = <<n, i>>
<1>1. ASSUME NEW n \in Nodes(e), NEW i \in DOMAIN Node(e, n).nics
      PROVE  /\ <<n, i>> \in NicsOf(e) /\ NicAt(e, <<n, i>>) = Node(e, n).nics[i]
             /\ <<n, i>>[1] = n
  <2>1. <<n, i>> \in {n} \X DOMAIN Node(e, n).nics
    OBVIOUS
  <2>2. <<n, i>> \in NicsOf(e)
    BY <2>1 DEF NicsOf
  <2>3. <<n, i>>[1] = n /\ <<n, i>>[2] = i
    OBVIOUS
  <2> QED BY <2>2, <2>3 DEF NicAt
<1>2. ASSUME NEW p \in NicsOf(e)
      PROVE  \E n \in Nodes(e) : \E i \in DOMAIN Node(e, n).nics : p = <<n, i>>
  <2>1. PICK n \in Nodes(e) : p \in {n} \X DOMAIN Node(e, n).nics
    BY DEF NicsOf
  <2> QED BY <2>1
<1> QED BY <1>1, <1>2

(* The same for pairs of NICs. *)
Nic(e, n, i) == Node(e, n).nics[i]

LEMMA ApartIs ==
  ASSUME NEW e, NEW V \in SUBSET Nodes(e)
  PROVE  Apart(e, V) <=>
           /\ \A m, n \in V : m # n => Node(e, m).vmid # Node(e, n).vmid
           /\ \A m, n \in V : \A i \in DOMAIN Node(e, m).nics, j \in DOMAIN Node(e, n).nics :
                m # n \/ i # j => ~Collide(Nic(e, m, i), Nic(e, n, j))
<1>1. ASSUME Apart(e, V),
             NEW m \in V, NEW n \in V, NEW i \in DOMAIN Node(e, m).nics, NEW j \in DOMAIN Node(e, n).nics,
             m # n \/ i # j
      PROVE  ~Collide(Nic(e, m, i), Nic(e, n, j))
  <2>1. m \in Nodes(e) /\ n \in Nodes(e) /\ <<m, i>> # <<n, j>>
    BY <1>1
  <2>2. /\ <<m, i>> \in NicsOf(e) /\ NicAt(e, <<m, i>>) = Nic(e, m, i) /\ <<m, i>>[1] = m
        /\ <<n, j>> \in NicsOf(e) /\ NicAt(e, <<n, j>>) = Nic(e, n, j) /\ <<n, j>>[1] = n
    BY <2>1, NicsAre DEF Nic
  <2>3. PICK p \in NicsOf(e), q \in NicsOf(e) : p = <<m, i>> /\ q = <<n, j>>
    BY <2>2
  <2>4. ~Collide(NicAt(e, p), NicAt(e, q))
    BY <1>1, <2>1, <2>2, <2>3 DEF Apart
  <2> QED BY <2>2, <2>3, <2>4
<1>2. ASSUME \A m, n \in V : \A i \in DOMAIN Node(e, m).nics, j \in DOMAIN Node(e, n).nics :
               m # n \/ i # j => ~Collide(Nic(e, m, i), Nic(e, n, j)),
             NEW p \in NicsOf(e), NEW q \in NicsOf(e), p[1] \in V, q[1] \in V, p # q
      PROVE  ~Collide(NicAt(e, p), NicAt(e, q))
  <2>1. PICK m \in Nodes(e) : \E i \in DOMAIN Node(e, m).nics : p = <<m, i>>
    BY NicsAre
  <2>2. PICK i \in DOMAIN Node(e, m).nics : p = <<m, i>>
    BY <2>1
  <2>3. PICK n \in Nodes(e) : \E j \in DOMAIN Node(e, n).nics : q = <<n, j>>
    BY NicsAre
  <2>4. PICK j \in DOMAIN Node(e, n).nics : q = <<n, j>>
    BY <2>3
  <2>5. m \in V /\ n \in V /\ (m # n \/ i # j)
    BY <1>2, <2>2, <2>4
  <2>6. NicAt(e, p) = Nic(e, m, i) /\ NicAt(e, q) = Nic(e, n, j)
    BY <2>2, <2>4, NicsAre DEF Nic
  <2>7. ~Collide(Nic(e, m, i), Nic(e, n, j))
    BY <1>2, <2>5
  <2> QED BY <2>6, <2>7
<1> QED BY <1>1, <1>2 DEF Apart

LEMMA SeenIs ==
  ASSUME NEW e, NEW V \in SUBSET Nodes(e)
  PROVE  /\ \A x : x \in SeenOf(e, V).vmids <=> \E m \in V : Node(e, m).vmid = x
         /\ \A x : x \in SeenOf(e, V).macs <=>
              \E m \in V : \E j \in DOMAIN Node(e, m).nics : HasMac(Nic(e, m, j)) /\ Nic(e, m, j).mac = x
         /\ \A x, y : <<x, y>> \in SeenOf(e, V).addrs <=>
              \E m \in V : \E j \in DOMAIN Node(e, m).nics :
                HasAddr(Nic(e, m, j)) /\ Nic(e, m, j).net = x /\ Nic(e, m, j).addr = y
<1>1. ASSUME NEW x PROVE x \in SeenOf(e, V).vmids <=> \E m \in V : Node(e, m).vmid = x
  BY DEF SeenOf
<1>2. ASSUME NEW x
      PROVE  x \in SeenOf(e, V).macs <=>
               \E m \in V : \E j \in DOMAIN Node(e, m).nics : HasMac(Nic(e, m, j)) /\ Nic(e, m, j).mac = x
  <2>1. x \in SeenOf(e, V).macs <=> \E m \in V : x \in Macs(Elements(Node(e, m).nics))
    BY DEF SeenOf
  <2>2. \A m \in V : x \in Macs(Elements(Node(e, m).nics)) <=>
          \E c \in Elements(Node(e, m).nics) : HasMac(c) /\ c.mac = x
    BY MacsAre
  <2> QED BY <2>1, <2>2 DEF Elements, Nic
<1>3. ASSUME NEW x, NEW y
      PROVE  <<x, y>> \in SeenOf(e, V).addrs <=>
               \E m \in V : \E j \in DOMAIN Node(e, m).nics :
                 HasAddr(Nic(e, m, j)) /\ Nic(e, m, j).net = x /\ Nic(e, m, j).addr = y
  <2>1. <<x, y>> \in SeenOf(e, V).addrs <=> \E m \in V : <<x, y>> \in Addrs(Elements(Node(e, m).nics))
    BY DEF SeenOf
  <2>2. \A m \in V : <<x, y>> \in Addrs(Elements(Node(e, m).nics)) <=>
          \E c \in Elements(Node(e, m).nics) : HasAddr(c) /\ c.net = x /\ c.addr = y
    BY AddrsAre
  <2> QED BY <2>1, <2>2 DEF Elements, Nic
<1> QED BY <1>1, <1>2, <1>3

LEMMA SeenGrows ==
  ASSUME NEW e, NEW V, NEW n
  PROVE  Seen(Node(e, n), SeenOf(e, V)) = SeenOf(e, V \cup {n})
<1> DEFINE M(m) == Macs(Elements(Node(e, m).nics))
           A(m) == Addrs(Elements(Node(e, m).nics))
           vmid(m) == Node(e, m).vmid
<1>1. {vmid(m) : m \in V \cup {n}} = {vmid(m) : m \in V} \cup {vmid(n)}
  OBVIOUS
<1>2. UNION {M(m) : m \in V \cup {n}} = (UNION {M(m) : m \in V}) \cup M(n)
  <2> HIDE DEF M
  <2>1. \A x : x \in UNION {M(m) : m \in V \cup {n}} <=> \E m \in V \cup {n} : x \in M(m)
    OBVIOUS
  <2>2. \A x : x \in UNION {M(m) : m \in V} <=> \E m \in V : x \in M(m)
    OBVIOUS
  <2>3. \A x : x \in UNION {M(m) : m \in V \cup {n}} <=> x \in (UNION {M(m) : m \in V}) \cup M(n)
    BY <2>1, <2>2
  <2> QED BY <2>3
<1>3. UNION {A(m) : m \in V \cup {n}} = (UNION {A(m) : m \in V}) \cup A(n)
  <2> HIDE DEF A
  <2>1. \A x : x \in UNION {A(m) : m \in V \cup {n}} <=> \E m \in V \cup {n} : x \in A(m)
    OBVIOUS
  <2>2. \A x : x \in UNION {A(m) : m \in V} <=> \E m \in V : x \in A(m)
    OBVIOUS
  <2>3. \A x : x \in UNION {A(m) : m \in V \cup {n}} <=> x \in (UNION {A(m) : m \in V}) \cup A(n)
    BY <2>1, <2>2
  <2> QED BY <2>3
<1>4. /\ SeenOf(e, V) = [vmids |-> {vmid(m) : m \in V}, macs |-> UNION {M(m) : m \in V},
                         addrs |-> UNION {A(m) : m \in V}]
      /\ SeenOf(e, V \cup {n}) = [vmids |-> {vmid(m) : m \in V \cup {n}},
                                   macs  |-> UNION {M(m) : m \in V \cup {n}},
                                   addrs |-> UNION {A(m) : m \in V \cup {n}}]
  BY DEF SeenOf
<1>5. Seen(Node(e, n), SeenOf(e, V)) =
        [vmids |-> SeenOf(e, V).vmids \cup {vmid(n)}, macs |-> SeenOf(e, V).macs \cup M(n),
         addrs |-> SeenOf(e, V).addrs \cup A(n)]
  BY DEF Seen
<1> HIDE DEF M, A, vmid
<1>6. Seen(Node(e, n), SeenOf(e, V)) =
        [vmids |-> {vmid(m) : m \in V} \cup {vmid(n)}, macs |-> (UNION {M(m) : m \in V}) \cup M(n),
         addrs |-> (UNION {A(m) : m \in V}) \cup A(n)]
  BY <1>4, <1>5
<1> QED BY <1>1, <1>2, <1>3, <1>4, <1>6

(* What the check says of the next VM does not depend on how it went on:    *)
(* there is a duplicate exactly when that VM collides with itself or with   *)
(* one that was visited.                                                    *)
LEMMA DuplicateIsExact ==
  ASSUME NEW e, Lists(e), NEW V \in SUBSET Nodes(e), NEW n \in Nodes(e), n \notin V, Apart(e, V)
  PROVE  Duplicate(Node(e, n), SeenOf(e, V)) <=> ~Apart(e, V \cup {n})
<1> DEFINE D == DOMAIN Node(e, n).nics
           nics == Node(e, n).nics
           Before(i) == {nics[j] : j \in {j \in D : j < i}}
           S == SeenOf(e, V)
           W == V \cup {n}
<1>0. W \in SUBSET Nodes(e)
  OBVIOUS
<1>1. \A i, j \in D : i # j => i < j \/ j < i
  BY DEF Lists
<1>2. Duplicate(Node(e, n), S) <=>
        \/ Node(e, n).vmid \in S.vmids
        \/ \E i \in D : \/ HasMac(nics[i]) /\ (nics[i].mac \in S.macs \/ nics[i].mac \in Macs(Before(i)))
                        \/ HasAddr(nics[i]) /\ \/ <<nics[i].net, nics[i].addr>> \in S.addrs
                                               \/ <<nics[i].net, nics[i].addr>> \in Addrs(Before(i))
  BY DEF Duplicate
<1>3. \A i \in D : nics[i] = Nic(e, n, i)
  BY DEF Nic
<1>4. ASSUME NEW i \in D
      PROVE  /\ nics[i].mac \in Macs(Before(i)) <=>
                  \E j \in D : j < i /\ HasMac(nics[j]) /\ nics[j].mac = nics[i].mac
             /\ <<nics[i].net, nics[i].addr>> \in Addrs(Before(i)) <=>
                  \E j \in D : j < i /\ HasAddr(nics[j]) /\ nics[j].net = nics[i].net
                                                        /\ nics[j].addr = nics[i].addr
  <2>1. \A c : c \in Before(i) <=> \E j \in D : j < i /\ c = nics[j]
    OBVIOUS
  <2> HIDE DEF Before, nics, D
  <2>2. nics[i].mac \in Macs(Before(i)) <=> \E c \in Before(i) : HasMac(c) /\ c.mac = nics[i].mac
    BY MacsAre
  <2>3. <<nics[i].net, nics[i].addr>> \in Addrs(Before(i)) <=>
          \E c \in Before(i) : HasAddr(c) /\ c.net = nics[i].net /\ c.addr = nics[i].addr
    BY AddrsAre
  <2>4. nics[i].mac \in Macs(Before(i)) <=>
                  \E j \in D : j < i /\ HasMac(nics[j]) /\ nics[j].mac = nics[i].mac
    BY <2>1, <2>2
  <2>5. <<nics[i].net, nics[i].addr>> \in Addrs(Before(i)) <=>
                  \E j \in D : j < i /\ HasAddr(nics[j]) /\ nics[j].net = nics[i].net
                                                        /\ nics[j].addr = nics[i].addr
    BY <2>1, <2>3
  <2> QED BY <2>4, <2>5
<1>5. /\ \A x : x \in S.vmids <=> \E m \in V : Node(e, m).vmid = x
      /\ \A x : x \in S.macs <=>
              \E m \in V : \E j \in DOMAIN Node(e, m).nics : HasMac(Nic(e, m, j)) /\ Nic(e, m, j).mac = x
      /\ \A x, y : <<x, y>> \in S.addrs <=>
              \E m \in V : \E j \in DOMAIN Node(e, m).nics :
                HasAddr(Nic(e, m, j)) /\ Nic(e, m, j).net = x /\ Nic(e, m, j).addr = y
  BY SeenIs
<1> HIDE DEF Before, S, nics
<1>6. ASSUME Duplicate(Node(e, n), S), Apart(e, W) PROVE FALSE
  <2>1. /\ \A k, m \in W : k # m => Node(e, k).vmid # Node(e, m).vmid
        /\ \A k, m \in W : \A i \in DOMAIN Node(e, k).nics, j \in DOMAIN Node(e, m).nics :
             k # m \/ i # j => ~Collide(Nic(e, k, i), Nic(e, m, j))
    BY <1>0, <1>6, ApartIs
  <2>2. CASE Node(e, n).vmid \in S.vmids
    <3>1. PICK m \in V : Node(e, m).vmid = Node(e, n).vmid
      BY <1>5, <2>2
    <3> QED BY <2>1, <3>1
  <2>3. ASSUME NEW i \in D, HasMac(nics[i]), nics[i].mac \in S.macs PROVE FALSE
    <3>0. PICK m \in V : \E j \in DOMAIN Node(e, m).nics : HasMac(Nic(e, m, j)) /\ Nic(e, m, j).mac = nics[i].mac
      BY <1>5, <2>3
    <3>1. PICK j \in DOMAIN Node(e, m).nics : HasMac(Nic(e, m, j)) /\ Nic(e, m, j).mac = nics[i].mac
      BY <3>0
    <3> QED BY <1>3, <2>1, <2>3, <3>1, CollideIs
  <2>4. ASSUME NEW i \in D, HasMac(nics[i]), nics[i].mac \in Macs(Before(i)) PROVE FALSE
    <3>1. PICK j \in D : j < i /\ HasMac(nics[j]) /\ nics[j].mac = nics[i].mac
      BY <1>4, <2>4
    <3>2. j # i
      BY <3>1 DEF Lists
    <3> QED BY <1>3, <2>1, <2>4, <3>1, <3>2, CollideIs
  <2>5. ASSUME NEW i \in D, HasAddr(nics[i]), <<nics[i].net, nics[i].addr>> \in S.addrs PROVE FALSE
    <3>0. PICK m \in V : \E j \in DOMAIN Node(e, m).nics :
            HasAddr(Nic(e, m, j)) /\ Nic(e, m, j).net = nics[i].net /\ Nic(e, m, j).addr = nics[i].addr
      BY <1>5, <2>5
    <3>1. PICK j \in DOMAIN Node(e, m).nics :
            HasAddr(Nic(e, m, j)) /\ Nic(e, m, j).net = nics[i].net /\ Nic(e, m, j).addr = nics[i].addr
      BY <3>0
    <3> QED BY <1>3, <2>1, <2>5, <3>1, CollideIs
  <2>6. ASSUME NEW i \in D, HasAddr(nics[i]), <<nics[i].net, nics[i].addr>> \in Addrs(Before(i)) PROVE FALSE
    <3>1. PICK j \in D : j < i /\ HasAddr(nics[j]) /\ nics[j].net = nics[i].net
                               /\ nics[j].addr = nics[i].addr
      BY <1>4, <2>6
    <3>2. j # i
      BY <3>1 DEF Lists
    <3> QED BY <1>3, <2>1, <2>6, <3>1, <3>2, CollideIs
  <2> QED BY <1>2, <1>6, <2>2, <2>3, <2>4, <2>5, <2>6
<1>7. ASSUME ~Duplicate(Node(e, n), S) PROVE Apart(e, W)
  <2>1. /\ \A k, m \in V : k # m => Node(e, k).vmid # Node(e, m).vmid
        /\ \A k, m \in V : \A i \in DOMAIN Node(e, k).nics, j \in DOMAIN Node(e, m).nics :
             k # m \/ i # j => ~Collide(Nic(e, k, i), Nic(e, m, j))
    BY ApartIs
  <2>2. \A m \in V : Node(e, m).vmid # Node(e, n).vmid
    BY <1>2, <1>5, <1>7
  (* With a VM visited before. *)
  <2>3. ASSUME NEW i \in D, NEW m \in V, NEW j \in DOMAIN Node(e, m).nics
        PROVE  ~Collide(Nic(e, n, i), Nic(e, m, j)) /\ ~Collide(Nic(e, m, j), Nic(e, n, i))
    <3>1. ASSUME HasMac(nics[i]), HasMac(Nic(e, m, j)), Nic(e, m, j).mac = nics[i].mac PROVE FALSE
      <4>1. nics[i].mac \in S.macs
        BY <1>5, <3>1
      <4> QED BY <1>2, <1>7, <3>1, <4>1
    <3>2. ASSUME HasAddr(nics[i]), HasAddr(Nic(e, m, j)),
                 Nic(e, m, j).net = nics[i].net, Nic(e, m, j).addr = nics[i].addr
          PROVE  FALSE
      <4>1. <<nics[i].net, nics[i].addr>> \in S.addrs
        BY <1>5, <3>2
      <4> QED BY <1>2, <1>7, <3>2, <4>1
    <3> QED BY <1>3, <3>1, <3>2, CollideIs
  (* Within the VM. *)
  <2>4. ASSUME NEW i \in D, NEW j \in D, j < i
        PROVE  ~Collide(Nic(e, n, i), Nic(e, n, j)) /\ ~Collide(Nic(e, n, j), Nic(e, n, i))
    <3>1. ASSUME HasMac(nics[i]), HasMac(nics[j]), nics[j].mac = nics[i].mac PROVE FALSE
      <4>1. nics[i].mac \in Macs(Before(i))
        BY <1>4, <2>4, <3>1
      <4> QED BY <1>2, <1>7, <3>1, <4>1
    <3>2. ASSUME HasAddr(nics[i]), HasAddr(nics[j]), nics[j].net = nics[i].net, nics[j].addr = nics[i].addr
          PROVE  FALSE
      <4>1. <<nics[i].net, nics[i].addr>> \in Addrs(Before(i))
        BY <1>4, <2>4, <3>2
      <4> QED BY <1>2, <1>7, <3>2, <4>1
    <3> QED BY <1>3, <3>1, <3>2, CollideIs
  <2>5. ASSUME NEW k \in W, NEW m \in W, NEW i \in DOMAIN Node(e, k).nics, NEW j \in DOMAIN Node(e, m).nics,
               k # m \/ i # j
        PROVE  ~Collide(Nic(e, k, i), Nic(e, m, j))
    <3>1. CASE k \in V /\ m \in V
      BY <2>1, <2>5, <3>1
    <3>2. CASE k = n /\ m \in V
      BY <2>3, <3>2
    <3>3. CASE k \in V /\ m = n
      BY <2>3, <3>3
    <3>4. CASE k = n /\ m = n
      <4>1. i < j \/ j < i
        BY <1>1, <2>5, <3>4
      <4> QED BY <2>4, <3>4, <4>1
    <3> QED BY <3>1, <3>2, <3>3, <3>4
  <2>6. \A k, m \in W : k # m => Node(e, k).vmid # Node(e, m).vmid
    BY <2>1, <2>2
  <2> HIDE DEF W
  <2> QED BY <1>0, <2>5, <2>6, ApartIs
<1> QED BY <1>6, <1>7 DEF S
-----------------------------------------------------------------------------
(***************************************************************************)
(* The stages. The environment is at every moment the one merged from the  *)
(* manifest and its profile, with a layer in every slot resolveRefs has    *)
(* passed; this is what makes Resolved the manifest's meaning when the     *)
(* validators look at it.                                                  *)
(***************************************************************************)
Base == Profiles[given.extends]

Slotted == DOMAIN given.slots \cup (IF given.extends # "" THEN {"cluster"} ELSE {})

Merged(s) == IF s \notin DOMAIN given.slots THEN Ref("", Base.cluster)
             ELSE IF given.extends # "" /\ s = "cluster" THEN Typed(given.slots[s], Base.cluster)
             ELSE given.slots[s]

Layer(s) == IF Merged(s).ref = "" THEN Merged(s).inline ELSE given.files[Path[Merged(s).ref]]

MergedVersion == IF given.extends # "" /\ given.version = "" THEN Base.version ELSE given.version

Passed == {Order[k] : k \in 1..(next - 1)}

EnvInv ==
  /\ env = [version |-> MergedVersion, slots |-> env.slots]
  /\ DOMAIN env.slots = Slotted
  /\ \A s \in Slotted : env.slots[s] = IF s \in Passed THEN [Merged(s) EXCEPT !.value = Layer(s)]
                                                       ELSE Merged(s)
  /\ seen = {Self} \cup {File(s) : s \in Referring \cap Passed}
  /\ \A s \in Referring \cap Passed : File(s) \in DOMAIN given.files

Loading == at \in {"refs", "secrets", "struct", "unique"} \/ res \in {"ok", "cross"}

StageInv ==
  /\ given \in Inputs
  /\ at \in {"read", "profile", "refs", "secrets", "struct", "unique", "done"}
  /\ at = "done" <=> res # "none"
  /\ res \in Results \cup {"none"}
  /\ at \in {"read", "profile"} => next = 1 /\ seen = {Self}
  /\ at = "profile" => given.extends # "" /\ env = [version |-> given.version, slots |-> given.slots]
  /\ next \in 1..8
  /\ Loading /\ at # "refs" => next = 8

LoadInv ==
  /\ StageInv
  /\ Loading => (given.extends = "" \/ Extended) /\ EnvInv
  /\ at = "unique" \/ res \in {"ok", "cross"} => StructValid(Meant)
  /\ RefusedForCause

LEMMA OrderIs ==
  /\ Len(Order) = 7 /\ DOMAIN Order = 1..7
  /\ Slots = {Order[k] : k \in 1..7} /\ "cluster" \in Slots
  /\ \A j, k \in 1..7 : j # k => Order[j] # Order[k]
<1>1. Len(Order) = 7 /\ DOMAIN Order = 1..7
  BY DEF Order
<1>2. /\ Order[1] = "hypervisor" /\ Order[2] = "networks" /\ Order[3] = "storage_classes"
      /\ Order[4] = "linux" /\ Order[5] = "cluster"
      /\ Order[6] = "databases[0]" /\ Order[7] = "databases[1]"
  BY DEF Order
<1>3. Slots = {Order[k] : k \in 1..7}
  BY <1>1 DEF Slots, Elements
<1>4. "cluster" \in Slots
  BY <1>2, <1>3
<1>5. ASSUME NEW j \in 1..7, NEW k \in 1..7, j # k PROVE Order[j] # Order[k]
  BY <1>2, <1>5
<1> QED BY <1>1, <1>3, <1>4, <1>5

(* Before the first step. *)
LEMMA NonePassed == 1..(1 - 1) = {}
OBVIOUS

(* A step to the next slot. *)
LEMMA PassedGrows ==
  ASSUME next \in 1..7, next' = next + 1
  PROVE  /\ Order[next] \notin Passed /\ Order[next] \in Slots
         /\ Passed' = Passed \cup {Order[next]}
<1>1. Order[next] \notin Passed
  BY OrderIs DEF Passed
<1>2. Order[next] \in Slots
  BY OrderIs
<1>3. Passed' = Passed \cup {Order[next]}
  <2>1. 1..(next' - 1) = 1..(next - 1) \cup {next}
    OBVIOUS
  <2> QED BY <2>1 DEF Passed
<1> QED BY <1>1, <1>2, <1>3

(* What a manifest's slots hold when the loop comes to them. *)
LEMMA MergedIs ==
  ASSUME given \in Inputs, NEW s \in Slotted
  PROVE  /\ s \in Slots
         /\ Merged(s) = Ref(Merged(s).ref, Merged(s).inline)
         /\ Merged(s).ref # "" <=> s \in Referring
         /\ s \in Referring => Path[Merged(s).ref] = File(s) /\ Merged(s).inline = Nothing
<1>1. CASE s \notin DOMAIN given.slots
  <2>1. s = "cluster" /\ Merged(s) = Ref("", Base.cluster)
    BY <1>1 DEF Slotted, Merged
  <2>2. PICK b : b = Base.cluster
    OBVIOUS
  <2>3. /\ Ref("", b).ref = "" /\ Ref("", b).inline = b
    BY DEF Ref
  <2>4. s \notin Referring
    BY <1>1 DEF Referring
  <2>5. Merged(s) = Ref(Merged(s).ref, Merged(s).inline) /\ Merged(s).ref = ""
    BY <2>1, <2>2, <2>3
  <2> QED BY <2>1, <2>4, <2>5, OrderIs
<1>2. CASE s \in DOMAIN given.slots
  <2>1. PICK r : r = given.slots[s]
    OBVIOUS
  <2>2. s \in Slots /\ r = Ref(r.ref, r.inline) /\ (r.ref # "" => r.inline = Nothing)
    BY <1>2, <2>1, InputsAssumption
  <2>3. PICK b : b = Base.cluster
    OBVIOUS
  <2>4. Merged(s) = IF given.extends # "" /\ s = "cluster" THEN Typed(r, b) ELSE r
    BY <1>2, <2>1, <2>3 DEF Merged
  <2>5. /\ Typed(r, b) = Ref(Typed(r, b).ref, Typed(r, b).inline) /\ Typed(r, b).ref = r.ref
        /\ r.ref # "" => Typed(r, b) = r
    <3>1. CASE r.ref = "" /\ r.inline # Nothing /\ r.inline.type = ""
      <4>1. PICK c : c = [r.inline EXCEPT !.type = b.type]
        OBVIOUS
      <4>2. Typed(r, b) = [r EXCEPT !.inline = c]
        BY <3>1, <4>1 DEF Typed
      <4>3. [r EXCEPT !.inline = c] = Ref(r.ref, c)
        <5>1. PICK f, i : f = r.ref /\ i = r.inline
          OBVIOUS
        <5>2. [Ref(f, i) EXCEPT !.inline = c] = Ref(f, c)
          BY DEF Ref
        <5> QED BY <2>2, <5>1, <5>2
      <4>4. Ref(r.ref, c).ref = r.ref /\ Ref(r.ref, c).inline = c
        BY DEF Ref
      <4> QED BY <3>1, <4>2, <4>3, <4>4
    <3>2. CASE ~(r.ref = "" /\ r.inline # Nothing /\ r.inline.type = "")
      <4>1. Typed(r, b) = r
        BY <3>2 DEF Typed
      <4> QED BY <2>2, <4>1
    <3> QED BY <3>1, <3>2
  <2>6. /\ Merged(s) = Ref(Merged(s).ref, Merged(s).inline) /\ Merged(s).ref = r.ref
        /\ r.ref # "" => Merged(s) = r
    BY <2>2, <2>4, <2>5
  <2>7. s \in Referring <=> r.ref # ""
    BY <1>2, <2>1 DEF Referring
  <2>8. File(s) = Path[r.ref]
    BY <2>1 DEF File
  <2> QED BY <2>2, <2>6, <2>7, <2>8
<1> QED BY <1>1, <1>2

LEMMA LayerIsMeant ==
  ASSUME given \in Inputs, given.extends = "" \/ Extended
  PROVE  \A s \in Slots : Meant[s] = IF s \in Slotted THEN Layer(s) ELSE Nothing
<1> SUFFICES ASSUME NEW s \in Slots
             PROVE  Meant[s] = IF s \in Slotted THEN Layer(s) ELSE Nothing
  OBVIOUS
<1>0. Extended <=> given.extends # ""
  BY ProfilesAssumption DEF Extended
<1>1. CASE s \notin DOMAIN given.slots
  <2>1. Meant[s] = IF s = "cluster" /\ Extended THEN Profiles[given.extends].cluster ELSE Nothing
    BY <1>1 DEF Meant
  <2>2. s \in Slotted <=> s = "cluster" /\ Extended
    BY <1>0, <1>1 DEF Slotted
  <2>3. Merged(s) = Ref("", Base.cluster)
    BY <1>1 DEF Merged
  <2>4. Layer(s) = Base.cluster
    <3>1. \A b : Ref("", b).ref = "" /\ Ref("", b).inline = b
      BY DEF Ref
    <3> QED BY <2>3, <3>1 DEF Layer
  <2> QED BY <2>1, <2>2, <2>4 DEF Base
<1>2. CASE s \in DOMAIN given.slots
  <2>1. PICK r : r = given.slots[s]
    OBVIOUS
  <2>2. r = Ref(r.ref, r.inline) /\ (r.ref # "" => r.inline = Nothing)
    BY <1>2, <2>1, InputsAssumption
  <2>3. PICK b : b = Base.cluster
    OBVIOUS
  <2>4. Meant[s] = IF r.ref # "" THEN given.files[Path[r.ref]]
                   ELSE IF s = "cluster" /\ Extended /\ r.inline # Nothing /\ r.inline.type = ""
                   THEN [r.inline EXCEPT !.type = b.type] ELSE r.inline
    BY <1>2, <2>1, <2>3 DEF Meant, Written, Base
  <2>5. Merged(s) = IF Extended /\ s = "cluster" THEN Typed(r, b) ELSE r
    BY <1>0, <1>2, <2>1, <2>3 DEF Merged
  <2>6. /\ r.ref # "" => Typed(r, b) = r
        /\ r.ref = "" => /\ Typed(r, b).ref = ""
                         /\ Typed(r, b).inline = IF r.inline # Nothing /\ r.inline.type = ""
                                                 THEN [r.inline EXCEPT !.type = b.type] ELSE r.inline
    BY <2>2 DEF Typed, Ref
  <2>7. s \in Slotted
    BY <1>2 DEF Slotted
  <2> QED BY <2>4, <2>5, <2>6, <2>7 DEF Layer
<1> QED BY <1>1, <1>2

LEMMA ResolvedIsMeant ==
  ASSUME LoadInv, Loading, next = 8
  PROVE  Resolved = Meant
<1>1. EnvInv /\ given \in Inputs /\ (given.extends = "" \/ Extended)
  BY DEF LoadInv, StageInv
<1>2. Passed = Slots
  BY OrderIs DEF Passed
<1>3. ASSUME NEW s \in Slots PROVE Resolved[s] = Meant[s]
  <2>1. CASE s \notin Slotted
    <3>1. s \notin DOMAIN env.slots
      BY <1>1, <2>1 DEF EnvInv
    <3> QED BY <1>1, <2>1, <3>1, LayerIsMeant DEF Resolved
  <2>2. CASE s \in Slotted
    <3>1. PICK r : r = Merged(s)
      OBVIOUS
    <3>2. PICK l : l = Layer(s)
      OBVIOUS
    <3>3. r = Ref(r.ref, r.inline) /\ (r.ref # "" => r.inline = Nothing)
      BY <1>1, <2>2, <3>1, MergedIs
    <3>4. r.ref = "" => l = r.inline
      BY <3>1, <3>2 DEF Layer
    <3>5. s \in DOMAIN env.slots /\ env.slots[s] = [r EXCEPT !.value = l]
      BY <1>1, <1>2, <2>2, <3>1, <3>2 DEF EnvInv
    <3>6. env.slots[s].value = l /\ env.slots[s].inline = r.inline
      BY <3>3, <3>5 DEF Ref
    <3>7. Present(env.slots[s], "value") <=> l # Nothing
      BY <3>6 DEF Present
    <3>8. Resolved[s] = l
      <4>1. Resolved[s] = IF Present(env.slots[s], "value") THEN env.slots[s].value ELSE env.slots[s].inline
        BY <3>5 DEF Resolved
      <4> QED BY <3>3, <3>4, <3>6, <3>7, <4>1
    <3> QED BY <1>1, <2>2, <3>2, <3>8, LayerIsMeant
  <2> QED BY <2>1, <2>2
<1> QED BY <1>3 DEF Resolved, Meant
-----------------------------------------------------------------------------
(* No step changes what the manifest says. *)
LEMMA GivenStays ==
  ASSUME given' = given
  PROVE  /\ Extended' = Extended /\ Slotted' = Slotted /\ MergedVersion' = MergedVersion
         /\ Referring' = Referring /\ Meant' = Meant
         /\ \A s : Merged(s)' = Merged(s) /\ Layer(s)' = Layer(s) /\ File(s)' = File(s)
<1>1. Extended' = Extended /\ Slotted' = Slotted /\ MergedVersion' = MergedVersion /\ Referring' = Referring
  BY DEF Extended, Slotted, MergedVersion, Referring, Base
<1>2. \A s : Merged(s)' = Merged(s) /\ File(s)' = File(s)
  BY DEF Merged, File, Base
<1>3. \A s : Layer(s)' = Layer(s)
  BY <1>2 DEF Layer
<1>4. Meant' = Meant
  BY <1>1 DEF Meant, Written
<1> QED BY <1>1, <1>2, <1>3, <1>4

(* In the loop. *)
LEMMA InLoop ==
  ASSUME LoadInv, at = "refs"
  PROVE  /\ given \in Inputs /\ (given.extends = "" \/ Extended) /\ EnvInv
         /\ next \in 1..8 /\ Len(Order) = 7
         /\ next <= 7 => next \in 1..7
<1>1. Loading /\ next \in 1..8 /\ Len(Order) = 7
  BY OrderIs DEF LoadInv, StageInv, Loading
<1>2. given \in Inputs /\ (given.extends = "" \/ Extended) /\ EnvInv
  BY <1>1 DEF LoadInv, StageInv
<1>3. next \in 1..8 /\ (next <= 7 => next \in 1..7)
  BY <1>1
<1> QED BY <1>1, <1>2, <1>3

LEMMA ReadEnv ==
  ASSUME LoadInv, Read, given.extends = ""
  PROVE  EnvInv'
<1>1. /\ given' = given /\ env' = [version |-> given.version, slots |-> given.slots]
      /\ next' = 1 /\ seen' = {Self}
  BY DEF Read, LoadInv, StageInv
<1>2. Passed' = {}
  <2>1. next' = 1
    BY <1>1
  <2> QED BY <2>1, NonePassed DEF Passed
<1>3. Slotted = DOMAIN given.slots /\ MergedVersion = given.version
      /\ \A s \in Slotted : Merged(s) = given.slots[s]
  BY DEF Slotted, MergedVersion, Merged
<1> QED BY <1>1, <1>2, <1>3, GivenStays DEF EnvInv

LEMMA MergeEnvInv ==
  ASSUME LoadInv, ApplyProfile
  PROVE  EnvInv'
<1>1. /\ given' = given /\ env = [version |-> given.version, slots |-> given.slots]
      /\ next' = 1 /\ seen' = {Self} /\ given.extends # "" /\ env' = MergeEnv(Base)
  BY DEF ApplyProfile, LoadInv, StageInv, Base
<1>2. Passed' = {}
  <2>1. next' = 1
    BY <1>1
  <2> QED BY <2>1, NonePassed DEF Passed
<1>3. Slotted = DOMAIN env.slots \cup {"cluster"}
  BY <1>1 DEF Slotted
<1>4. env' = [version |-> Version(Base),
              slots |-> [s \in DOMAIN env.slots \cup {"cluster"} |->
                           IF s \notin DOMAIN env.slots THEN Ref("", Base.cluster)
                           ELSE IF s = "cluster" THEN Typed(env.slots[s], Base.cluster)
                           ELSE env.slots[s]]]
  BY <1>1 DEF MergeEnv
<1>5. Version(Base) = MergedVersion
  BY <1>1 DEF Version, MergedVersion
<1>6. ASSUME NEW s \in Slotted PROVE env'.slots[s] = Merged(s)
  <2>1. env'.slots[s] = IF s \notin DOMAIN env.slots THEN Ref("", Base.cluster)
                        ELSE IF s = "cluster" THEN Typed(env.slots[s], Base.cluster)
                        ELSE env.slots[s]
    BY <1>3, <1>4
  <2>2. env.slots = given.slots
    BY <1>1
  <2> QED BY <1>1, <2>1, <2>2 DEF Merged
<1>7. env' = [version |-> MergedVersion, slots |-> env'.slots] /\ DOMAIN env'.slots = Slotted
  BY <1>3, <1>4, <1>5
<1> QED BY <1>1, <1>2, <1>6, <1>7, GivenStays DEF EnvInv

(* A slot the manifest does not have is passed. *)
LEMMA NoSlotEnv ==
  ASSUME LoadInv, NoSlot
  PROVE  EnvInv' /\ next' \in 1..8
<1>1. /\ given' = given /\ env' = env /\ seen' = seen /\ next' = next + 1 /\ next \in 1..7
      /\ Order[next] \notin Slotted /\ EnvInv
  BY InLoop DEF NoSlot, NextSlot, EnvInv
<1>2. Passed' = Passed \cup {Order[next]}
  BY <1>1, PassedGrows
<1>3. Referring \subseteq Slotted
  BY DEF Referring, Slotted
<1>4. /\ \A s \in Slotted : s \in Passed' <=> s \in Passed
      /\ Referring \cap Passed' = Referring \cap Passed
  BY <1>1, <1>2, <1>3
<1>5. DOMAIN env.slots = Slotted /\ env = [version |-> MergedVersion, slots |-> env.slots]
  BY <1>1 DEF EnvInv
<1>6. \A s \in Slotted : env'.slots[s] = IF s \in Passed' THEN [Merged(s) EXCEPT !.value = Layer(s)]
                                                          ELSE Merged(s)
  BY <1>1, <1>4 DEF EnvInv
<1>7. /\ seen' = {Self} \cup {File(s) : s \in Referring \cap Passed'}
      /\ \A s \in Referring \cap Passed' : File(s) \in DOMAIN given.files
  BY <1>1, <1>4 DEF EnvInv
<1> QED BY <1>1, <1>5, <1>6, <1>7, GivenStays DEF EnvInv

(* The layer put in place is the slot's. *)
LEMMA PutEnv ==
  ASSUME LoadInv, NEW s \in Slots, At(s), NEW l, Put(s, l), l = Layer(s),
         \/ s \notin Referring /\ seen' = seen
         \/ /\ s \in Referring /\ File(s) \in DOMAIN given.files
            /\ seen' = seen \cup {File(s)}
  PROVE  EnvInv' /\ next' \in 1..8
<1>1. /\ given' = given /\ env' = [env EXCEPT !.slots[s].value = l]
      /\ next' = next + 1 /\ next \in 1..7 /\ s = Order[next] /\ EnvInv
  BY InLoop DEF At, Put, NextSlot
<1>2. s \notin Passed /\ Passed' = Passed \cup {s}
  BY <1>1, PassedGrows
<1>3. /\ DOMAIN env.slots = Slotted /\ env = [version |-> MergedVersion, slots |-> env.slots]
      /\ s \in Slotted
  BY <1>1 DEF EnvInv, At
<1>4. PICK slots : slots = env.slots
  OBVIOUS
<1>5. PICK v : v = MergedVersion
  OBVIOUS
<1>6. env' = [version |-> v, slots |-> [slots EXCEPT ![s] = [slots[s] EXCEPT !.value = l]]]
  BY <1>1, <1>3, <1>4, <1>5
<1>7. /\ DOMAIN env'.slots = Slotted /\ env' = [version |-> MergedVersion, slots |-> env'.slots]
      /\ env'.slots[s] = [slots[s] EXCEPT !.value = l]
      /\ \A t \in Slotted : t # s => env'.slots[t] = slots[t]
  BY <1>3, <1>4, <1>5, <1>6
<1>8. slots[s] = Merged(s)
  BY <1>1, <1>2, <1>3, <1>4 DEF EnvInv
<1>9. \A t \in Slotted : env'.slots[t] = IF t \in Passed' THEN [Merged(t) EXCEPT !.value = Layer(t)]
                                                          ELSE Merged(t)
  <2> SUFFICES ASSUME NEW t \in Slotted
               PROVE  env'.slots[t] = IF t \in Passed' THEN [Merged(t) EXCEPT !.value = Layer(t)]
                                                       ELSE Merged(t)
    OBVIOUS
  <2>1. CASE t = s
    BY <1>2, <1>7, <1>8, <2>1
  <2>2. CASE t # s
    BY <1>1, <1>2, <1>4, <1>7, <2>2 DEF EnvInv
  <2> QED BY <2>1, <2>2
<1>10. /\ seen' = {Self} \cup {File(t) : t \in Referring \cap Passed'}
       /\ \A t \in Referring \cap Passed' : File(t) \in DOMAIN given.files
  <2>1. /\ seen = {Self} \cup {File(t) : t \in Referring \cap Passed}
        /\ \A t \in Referring \cap Passed : File(t) \in DOMAIN given.files
    BY <1>1 DEF EnvInv
  <2>2. CASE s \notin Referring /\ seen' = seen
    <3>1. Referring \cap Passed' = Referring \cap Passed
      BY <1>2, <2>2
    <3> QED BY <2>1, <2>2, <3>1
  <2>3. CASE s \in Referring /\ File(s) \in DOMAIN given.files /\ seen' = seen \cup {File(s)}
    <3>1. Referring \cap Passed' = (Referring \cap Passed) \cup {s}
      BY <1>2, <2>3
    <3> QED BY <2>1, <2>3, <3>1
  <2> QED BY <2>2, <2>3
<1> QED BY <1>1, <1>7, <1>9, <1>10, GivenStays DEF EnvInv

LEMMA InlineEnv ==
  ASSUME LoadInv, NEW s \in Slots, Inline(s)
  PROVE  EnvInv' /\ next' \in 1..8
<1>1. At(s) /\ env.slots[s].ref = "" /\ Put(s, env.slots[s].inline) /\ seen' = seen
  BY DEF Inline
<1>2. env.slots[s] = Merged(s) /\ s \in Slotted /\ given \in Inputs
  <2>1. EnvInv /\ next \in 1..7 /\ s = Order[next] /\ given \in Inputs
    BY <1>1, InLoop DEF At
  <2>2. s \notin Passed
    BY <2>1, OrderIs DEF Passed
  <2> QED BY <1>1, <2>1, <2>2 DEF EnvInv, At
<1>3. s \notin Referring /\ env.slots[s].inline = Layer(s)
  BY <1>1, <1>2, MergedIs DEF Layer
<1>4. PICK l : l = env.slots[s].inline
  OBVIOUS
<1> QED BY <1>1, <1>3, <1>4, PutEnv

LEMMA RefersTo ==
  ASSUME LoadInv, NEW s \in Slots, Refers(s)
  PROVE  /\ s \in Referring /\ s \notin Passed /\ Named(s) = File(s)
         /\ Layer(s) = given.files[Named(s)]
         /\ seen = {Self} \cup {File(r) : r \in Referring \cap Passed}
<1>1. EnvInv /\ next \in 1..7 /\ s = Order[next] /\ given \in Inputs
  BY InLoop DEF Refers, At
<1>2. s \notin Passed
  BY <1>1, OrderIs DEF Passed
<1>3. env.slots[s] = Merged(s) /\ s \in Slotted /\ Merged(s).ref # ""
  BY <1>1, <1>2 DEF EnvInv, Refers, At
<1>4. s \in Referring /\ Path[Merged(s).ref] = File(s)
  BY <1>1, <1>3, MergedIs
<1>5. Named(s) = File(s) /\ Layer(s) = given.files[Named(s)]
  BY <1>3, <1>4 DEF Named, Layer
<1> QED BY <1>1, <1>2, <1>4, <1>5 DEF EnvInv

LEMMA ReadLayerEnv ==
  ASSUME LoadInv, NEW s \in Slots, ReadLayer(s)
  PROVE  EnvInv' /\ next' \in 1..8
<1>1. /\ Refers(s) /\ Named(s) \in DOMAIN given.files /\ seen' = seen \cup {Named(s)}
      /\ Put(s, given.files[Named(s)])
  BY DEF ReadLayer
<1>2. s \in Referring /\ Named(s) = File(s) /\ Layer(s) = given.files[Named(s)]
  BY <1>1, RefersTo
<1>3. PICK l : l = given.files[Named(s)]
  OBVIOUS
<1>4. At(s) /\ File(s) \in DOMAIN given.files /\ seen' = seen \cup {File(s)} /\ l = Layer(s) /\ Put(s, l)
  BY <1>1, <1>2, <1>3 DEF Refers
<1> QED BY <1>2, <1>4, PutEnv
-----------------------------------------------------------------------------
(* The causes of a refusal. *)
MeetsItself == \E s \in Referring : File(s) = Self \/ \E r \in Referring \ {s} : File(r) = File(s)
Missing == ~given.readable \/ \E s \in Referring : File(s) \notin DOMAIN given.files
Unfit == \/ given.version # "1" /\ ~(Extended /\ given.version = "")
         \/ ~StructValid(Meant)

LEMMA CausesAre ==
  /\ RefusedForCause <=> /\ res = "circular" => MeetsItself
                         /\ res = "read" => Missing
                         /\ res = "profile" => ~Extended
                         /\ res = "struct" => Unfit
  /\ RefusedForCause' <=> /\ res' = "circular" => MeetsItself'
                          /\ res' = "read" => Missing'
                          /\ res' = "profile" => ~Extended'
                          /\ res' = "struct" => Unfit'
BY DEF RefusedForCause, MeetsItself, Missing, Unfit

LEMMA CausesStay ==
  ASSUME given' = given
  PROVE  /\ Extended' = Extended /\ MeetsItself' = MeetsItself /\ Missing' = Missing
         /\ Unfit' = Unfit /\ StructValid(Meant)' = StructValid(Meant)
<1>1. MeetsItself' = MeetsItself
  BY GivenStays DEF MeetsItself
<1>2. Missing' = Missing
  BY GivenStays DEF Missing
<1>3. StructValid(Meant)' = StructValid(Meant)
  BY GivenStays DEF StructValid, Present, Nodes
<1>4. Unfit' = Unfit
  BY <1>3, GivenStays DEF Unfit
<1> QED BY <1>1, <1>2, <1>3, <1>4, GivenStays

(* A refusal. *)
LEMMA Refused ==
  ASSUME LoadInv, NEW why \in {"read", "profile", "circular", "secrets", "struct"}, Fail(why),
         /\ why = "circular" => MeetsItself
         /\ why = "read" => Missing
         /\ why = "profile" => ~Extended
         /\ why = "struct" => Unfit
  PROVE  LoadInv'
<1>1. given' = given /\ next' = next /\ res' = why /\ at' = "done"
  BY DEF Fail
<1>2. ~Loading'
  BY <1>1 DEF Loading
<1>3. StageInv'
  BY <1>1, <1>2 DEF LoadInv, StageInv, Results
<1>4. RefusedForCause'
  BY <1>1, CausesAre, CausesStay
<1> QED BY <1>1, <1>2, <1>3, <1>4 DEF LoadInv

(* A step that refuses nothing: what is to be shown is where Load stands.   *)
LEMMA WentOn ==
  ASSUME LoadInv, given' = given, res' = "none", StageInv',
         Loading' => (given.extends = "" \/ Extended) /\ EnvInv',
         at' = "unique" => StructValid(Meant)
  PROVE  LoadInv'
<1>1. RefusedForCause'
  BY DEF RefusedForCause
<1>2. at' = "unique" => StructValid(Meant)'
  BY CausesStay
<1>3. Loading' => (given'.extends = "" \/ Extended') /\ EnvInv'
  BY GivenStays
<1> QED BY <1>1, <1>2, <1>3 DEF LoadInv

LEMMA EnvStays ==
  ASSUME EnvInv, UNCHANGED <<given, env, next, seen>>
  PROVE  EnvInv'
<1>1. Passed' = Passed
  BY DEF Passed
<1> QED BY <1>1, GivenStays DEF EnvInv

LEMMA LoadStep ==
  ASSUME LoadInv, [Next]_vars
  PROVE  LoadInv'
<1>0. /\ StageInv /\ given \in Inputs /\ next \in 1..8 /\ Len(Order) = 7
      /\ at # "done" => res = "none"
  BY OrderIs DEF LoadInv, StageInv
<1>1. CASE Read
  <2>1. /\ given' = given /\ res' = "none" /\ next' = 1 /\ seen' = {Self}
        /\ env' = [version |-> given.version, slots |-> given.slots]
        /\ at' = IF given.extends # "" THEN "profile" ELSE "refs"
    BY <1>0, <1>1 DEF Read, StageInv
  <2>2. StageInv'
    <3>0. next' = 1
      BY <2>1
    <3>1. at' \in {"profile", "refs"} /\ next' \in 1..8 /\ given' \in Inputs
      <4>1. next' \in 1..8
        BY <3>0
      <4> QED BY <1>0, <2>1, <4>1
    <3>2. at' = "profile" => given'.extends # "" /\ env' = [version |-> given'.version, slots |-> given'.slots]
      BY <2>1
    <3>3. Loading' => at' = "refs"
      BY <2>1, <3>1 DEF Loading
    <3> QED BY <2>1, <3>1, <3>2, <3>3 DEF StageInv
  <2>3. Loading' => given.extends = "" /\ EnvInv'
    BY <1>1, <2>1, ReadEnv DEF Loading
  <2> QED BY <2>1, <2>2, <2>3, WentOn
<1>2. CASE ReadFails
  BY <1>2, Refused DEF ReadFails, Missing
<1>3. CASE ApplyProfile
  <2>1. /\ given' = given /\ res' = "none" /\ next' = 1 /\ seen' = {Self} /\ at' = "refs" /\ Extended
    BY <1>0, <1>3 DEF ApplyProfile, StageInv, Extended
  <2>2. StageInv'
    <3>1. next' \in 1..8 /\ given' \in Inputs
      BY <1>0, <2>1
    <3> QED BY <2>1, <3>1 DEF StageInv
  <2>3. EnvInv'
    BY <1>3, MergeEnvInv
  <2> QED BY <2>1, <2>2, <2>3, WentOn
<1>4. CASE ProfileFails
  BY <1>4, Refused DEF ProfileFails, Extended
(* In the loop over the slots. *)
<1>5. ASSUME at = "refs", given' = given, at' = at, res' = res, EnvInv', next' \in 1..8
      PROVE  LoadInv'
  <2>1. StageInv'
    BY <1>0, <1>5 DEF StageInv, Loading
  <2> QED BY <1>0, <1>5, <2>1, InLoop, WentOn
<1>6. CASE NoSlot
  BY <1>5, <1>6, NoSlotEnv DEF NoSlot
<1>7. ASSUME NEW s \in Slots, Inline(s) PROVE LoadInv'
  BY <1>5, <1>7, InlineEnv DEF Inline, At, Put
<1>8. ASSUME NEW s \in Slots, ReadLayer(s) PROVE LoadInv'
  BY <1>5, <1>8, ReadLayerEnv DEF ReadLayer, Refers, At, Put
<1>9. ASSUME NEW s \in Slots, Circular(s) PROVE LoadInv'
  <2>1. /\ s \in Referring /\ s \notin Passed /\ Fail("circular")
        /\ File(s) \in {Self} \cup {File(r) : r \in Referring \cap Passed}
    BY <1>9, RefersTo DEF Circular
  <2>2. MeetsItself
    BY <2>1 DEF MeetsItself
  <2> QED BY <2>1, <2>2, Refused
<1>10. ASSUME NEW s \in Slots, Unreadable(s) PROVE LoadInv'
  <2>1. s \in Referring /\ File(s) \notin DOMAIN given.files /\ Fail("read")
    BY <1>10, RefersTo DEF Unreadable
  <2>2. Missing
    BY <2>1 DEF Missing
  <2> QED BY <2>1, <2>2, Refused
(* After it. *)
<1>11. ASSUME Loading, Loading', UNCHANGED <<given, env, next, seen>>, next = 8, res' = "none",
              at' \in {"secrets", "struct", "unique"}, at' = "unique" => StructValid(Meant)
       PROVE  LoadInv'
  <2>1. StageInv'
    BY <1>0, <1>11 DEF StageInv
  <2>2. (given.extends = "" \/ Extended) /\ EnvInv'
    BY <1>11, EnvStays DEF LoadInv
  <2> QED BY <1>11, <2>1, <2>2, WentOn
<1>12. CASE RefsDone
  BY <1>0, <1>11, <1>12 DEF RefsDone, Loading
<1>13. CASE Secrets
  BY <1>0, <1>11, <1>13 DEF Secrets, Loading, StageInv
<1>14. CASE SecretsFail
  BY <1>14, Refused DEF SecretsFail
<1>15. ASSUME at = "struct" PROVE Resolved = Meant /\ env.version = MergedVersion
  <2>1. Loading /\ next = 8
    BY <1>0, <1>15 DEF Loading, StageInv
  <2>2. env.version = MergedVersion
    <3>1. EnvInv
      BY <2>1 DEF LoadInv
    <3>2. PICK v, slots : v = MergedVersion /\ slots = env.slots
      OBVIOUS
    <3>3. env = [version |-> v, slots |-> slots]
      BY <3>1, <3>2 DEF EnvInv
    <3> QED BY <3>2, <3>3
  <2> QED BY <2>1, <2>2, ResolvedIsMeant
<1>16. CASE Validate
  <2>1. StructValid(Meant)
    BY <1>15, <1>16 DEF Validate, WellFormed
  <2> QED BY <1>0, <1>11, <1>16, <2>1 DEF Validate, Loading, StageInv
<1>17. CASE ValidateFails
  <2>1. Unfit
    <3>1. MergedVersion # "1" \/ ~StructValid(Meant)
      BY <1>15, <1>17 DEF ValidateFails, WellFormed
    <3>2. given.extends = "" \/ Extended
      BY <1>17 DEF ValidateFails, LoadInv, Loading
    <3>3. Extended => given.extends # "" /\ Base.version = "1"
      BY ProfilesAssumption DEF Extended, Base
    <3> QED BY <3>1, <3>2, <3>3 DEF MergedVersion, Unfit
  <2> QED BY <1>17, <2>1, Refused DEF ValidateFails
<1>18. ASSUME at = "unique" PROVE Loading /\ next = 8 /\ StructValid(Meant)
  BY <1>0, <1>18 DEF Loading, StageInv, LoadInv
<1>19. ASSUME NEW n \in todo, Unique(n) PROVE LoadInv'
  BY <1>0, <1>11, <1>18, <1>19 DEF Unique, Loading
<1>20. ASSUME NEW n \in todo, NotUnique(n) PROVE LoadInv'
  BY <1>0, <1>11, <1>18, <1>20 DEF NotUnique, Loading
<1>21. CASE Finish
  <2>1. /\ UNCHANGED <<given, env, next, seen>> /\ at' = "done" /\ res' \in {"ok", "cross"}
        /\ at = "unique"
    BY <1>21 DEF Finish
  <2>2. StageInv'
    BY <1>0, <1>18, <2>1 DEF StageInv, Results
  <2>3. (given.extends = "" \/ Extended) /\ EnvInv'
    BY <1>18, <2>1, EnvStays DEF LoadInv
  <2>4. (given'.extends = "" \/ Extended') /\ EnvInv'
    BY <2>1, <2>3, GivenStays
  <2>5. StructValid(Meant)'
    BY <1>18, <2>1, CausesStay
  <2>6. RefusedForCause'
    BY <2>1 DEF RefusedForCause
  <2> QED BY <2>2, <2>4, <2>5, <2>6 DEF LoadInv
<1>22. CASE Stop \/ UNCHANGED vars
  <2>1. UNCHANGED vars
    BY <1>22 DEF Stop
  <2>2. Passed' = Passed
    BY <2>1 DEF vars, Passed
  <2>3. EnvInv' <=> EnvInv
    BY <2>1, <2>2, GivenStays DEF vars, EnvInv
  <2>4. StructValid(Meant)' = StructValid(Meant)
    BY <2>1, CausesStay DEF vars
  <2>5. RefusedForCause'
    BY <2>1, CausesAre, CausesStay DEF vars, LoadInv
  <2>6. StageInv'
    BY <2>1 DEF vars, StageInv, Loading, LoadInv
  <2> QED BY <2>1, <2>3, <2>4, <2>5, <2>6, GivenStays DEF vars, LoadInv, Loading
<1> QED BY <1>1, <1>2, <1>3, <1>4, <1>6, <1>7, <1>8, <1>9, <1>10, <1>12, <1>13, <1>14, <1>16, <1>17,
           <1>19, <1>20, <1>21, <1>22 DEF Next

(* Load inductively: the environment is the merged one, slot by slot, and a *)
(* refusal has its cause in the manifest.                                   *)
THEOREM LoadInductive == Spec => []LoadInv
<1>1. Init => LoadInv
  <2> SUFFICES ASSUME Init PROVE LoadInv
    OBVIOUS
  <2>1. ~Loading
    BY DEF Init, Loading
  <2>2. StageInv
    <3>1. given \in Inputs /\ at = "read" /\ res = "none" /\ next = 1 /\ seen = {Self}
      BY DEF Init
    <3>2. next \in 1..8
      BY <3>1
    <3> QED BY <2>1, <3>1, <3>2 DEF StageInv
  <2>3. RefusedForCause
    BY DEF Init, RefusedForCause
  <2> QED BY <2>1, <2>2, <2>3 DEF LoadInv, Init
<1>2. LoadInv /\ [Next]_vars => LoadInv'
  BY LoadStep
<1> QED BY <1>1, <1>2, PTL DEF Spec

(* A manifest that reaches the cross-field checks has in every slot what    *)
(* its author meant: merge and $ref leave no slot empty, so no check passes *)
(* for want of a layer (loader.go:85-119, 152-185).                         *)
THEOREM LoadsWhatIsMeant == Spec => []LoadedAsMeant
<1>1. LoadInv => LoadedAsMeant
  <2> SUFFICES ASSUME LoadInv, res \in {"ok", "cross"} PROVE Resolved = Meant
    BY DEF LoadedAsMeant
  <2>1. Loading /\ at = "done"
    BY DEF Loading, LoadInv, StageInv
  <2>2. next = 8
    BY <2>1, OrderIs DEF LoadInv, StageInv
  <2> QED BY <2>1, <2>2, ResolvedIsMeant
<1> QED BY <1>1, LoadInductive, PTL

(* A refusal before the cross-field checks has its cause in the manifest as *)
(* written (loader.go:30-68).                                               *)
THEOREM RefusesForCause == Spec => []RefusedForCause
<1>1. LoadInv => RefusedForCause
  BY DEF LoadInv
<1> QED BY <1>1, LoadInductive, PTL
-----------------------------------------------------------------------------
(***************************************************************************)
(* The verdict. While validateUniqueness goes over the nodes, in any       *)
(* order, what it has seen is what the visited ones have, and they do not  *)
(* collide; it stops at a node that collides with them or with itself.     *)
(***************************************************************************)
Checks == {"unique", "rac", "nic", "disk", "tag"}

Visited == Nodes(Meant) \ todo

UniqueInv ==
  /\ at \notin {"unique", "done"} => met = NothingSeen
  /\ at # "unique" => todo = {}
  /\ at \notin {"unique", "done"} => errs = {}
  /\ errs \subseteq Checks
  /\ at = "unique" /\ errs = {} =>
       todo \subseteq Nodes(Meant) /\ met = SeenOf(Meant, Visited) /\ Apart(Meant, Visited)
  /\ at = "unique" /\ errs # {} => errs = {"unique"} /\ todo = {} /\ ~NoCollision(Meant)
  /\ VerdictIsExact

LEMMA NoCollisionIs ==
  ASSUME NEW e
  PROVE  /\ NoCollision(e) <=> Apart(e, Nodes(e))
         /\ \A V \in SUBSET Nodes(e) : NoCollision(e) => Apart(e, V)
<1>1. \A p \in NicsOf(e) : p[1] \in Nodes(e)
  BY NicsAre
<1> QED BY <1>1 DEF NoCollision, Apart

LEMMA ElementsAre ==
  ASSUME NEW s, NEW Z
  PROVE  /\ (\A c \in Elements(s) : c.net \in Z) <=> (\A i \in DOMAIN s : s[i].net \in Z)
         /\ (\A c \in Elements(s) : c.class \in Z) <=> (\A i \in DOMAIN s : s[i].class \in Z)
         /\ \A t : (\E d \in Elements(s) : d.tag = t) <=> (\E i \in DOMAIN s : s[i].tag = t)
BY DEF Elements

(* The checks that need no loop. *)
LEMMA NamesAre ==
  ASSUME NEW e
  PROVE  /\ CrossErrors(e) \subseteq {"rac", "nic", "disk", "tag"}
         /\ CrossErrors(e) \cap {"nic", "disk", "tag"} # {} <=> ~NamesResolve(e)
<1>1. /\ "nic" \in CrossErrors(e) <=> ~NICNetworksKnown(e)
      /\ "disk" \in CrossErrors(e) <=> ~DiskStorageKnown(e)
      /\ "tag" \in CrossErrors(e) <=> ~DiskTagsKnown(e)
      /\ CrossErrors(e) \subseteq {"rac", "nic", "disk", "tag"}
  BY DEF CrossErrors
<1>2. NICNetworksKnown(e) <=>
        \A p \in NicsOf(e) : NicAt(e, p).net \in e["networks"].zones \cup {""}
  <2>1. NICNetworksKnown(e) <=>
          \A n \in Nodes(e) : \A i \in DOMAIN Node(e, n).nics :
            Node(e, n).nics[i].net \in e["networks"].zones \cup {""}
    <3>1. NICNetworksKnown(e) <=>
            \A n \in Nodes(e) : \A c \in Elements(Node(e, n).nics) : c.net \in e["networks"].zones \cup {""}
      BY DEF NICNetworksKnown
    <3>2. PICK Z : Z = e["networks"].zones \cup {""}
      OBVIOUS
    <3>3. \A n \in Nodes(e) : (\A c \in Elements(Node(e, n).nics) : c.net \in Z) <=>
            \A i \in DOMAIN Node(e, n).nics : Node(e, n).nics[i].net \in Z
      BY ElementsAre
    <3> QED BY <3>1, <3>2, <3>3
  <2>2. ASSUME NICNetworksKnown(e), NEW p \in NicsOf(e)
        PROVE  NicAt(e, p).net \in e["networks"].zones \cup {""}
    <3>1. PICK n \in Nodes(e) : \E i \in DOMAIN Node(e, n).nics : p = <<n, i>>
      BY NicsAre
    <3>2. PICK i \in DOMAIN Node(e, n).nics : p = <<n, i>>
      BY <3>1
    <3>3. NicAt(e, p) = Node(e, n).nics[i]
      BY <3>2, NicsAre
    <3> QED BY <2>1, <2>2, <3>3
  <2>3. ASSUME \A p \in NicsOf(e) : NicAt(e, p).net \in e["networks"].zones \cup {""},
               NEW n \in Nodes(e), NEW i \in DOMAIN Node(e, n).nics
        PROVE  Node(e, n).nics[i].net \in e["networks"].zones \cup {""}
    <3>1. <<n, i>> \in NicsOf(e) /\ NicAt(e, <<n, i>>) = Node(e, n).nics[i]
      BY NicsAre
    <3>2. PICK p \in NicsOf(e) : p = <<n, i>>
      BY <3>1
    <3> QED BY <2>3, <3>1, <3>2
  <2> QED BY <2>1, <2>2, <2>3
<1>3. DiskStorageKnown(e) <=>
        \A n \in Nodes(e) : \A i \in DOMAIN Node(e, n).disks :
          Node(e, n).disks[i].class \in e["storage_classes"].classes \cup {""}
  <2>1. DiskStorageKnown(e) <=>
          \A n \in Nodes(e) : \A d \in Elements(Node(e, n).disks) :
            d.class \in e["storage_classes"].classes \cup {""}
    BY DEF DiskStorageKnown
  <2>2. PICK Z : Z = e["storage_classes"].classes \cup {""}
    OBVIOUS
  <2>3. \A n \in Nodes(e) : (\A d \in Elements(Node(e, n).disks) : d.class \in Z) <=>
          \A i \in DOMAIN Node(e, n).disks : Node(e, n).disks[i].class \in Z
    BY ElementsAre
  <2> QED BY <2>1, <2>2, <2>3
<1>4. DiskTagsKnown(e) <=>
        (Present(e, "linux") => \A t \in e["linux"].tags \ {""} :
           \E n \in Nodes(e) : \E i \in DOMAIN Node(e, n).disks : Node(e, n).disks[i].tag = t)
  <2>1. \A t : t \in Tags(e) <=>
          \E n \in Nodes(e) : \E i \in DOMAIN Node(e, n).disks : Node(e, n).disks[i].tag = t
    <3>1. \A t : t \in Tags(e) <=> \E d \in UNION {Elements(Node(e, n).disks) : n \in Nodes(e)} : d.tag = t
      BY DEF Tags
    <3>2. \A d : d \in UNION {Elements(Node(e, n).disks) : n \in Nodes(e)} <=>
            \E n \in Nodes(e) : d \in Elements(Node(e, n).disks)
      OBVIOUS
    <3>3. \A t : t \in Tags(e) <=> \E n \in Nodes(e) : \E d \in Elements(Node(e, n).disks) : d.tag = t
      BY <3>1, <3>2
    <3>4. \A n \in Nodes(e) : \A t : (\E d \in Elements(Node(e, n).disks) : d.tag = t) <=>
            \E i \in DOMAIN Node(e, n).disks : Node(e, n).disks[i].tag = t
      BY ElementsAre
    <3> QED BY <3>3, <3>4
  <2> QED BY <2>1 DEF DiskTagsKnown
<1>5. NamesResolve(e) <=> NICNetworksKnown(e) /\ DiskStorageKnown(e) /\ DiskTagsKnown(e)
  BY <1>2, <1>3, <1>4 DEF NamesResolve
<1> QED BY <1>1, <1>5

(* The hypervisor layer that is validated was read as one. *)
LEMMA MeantLists ==
  ASSUME LoadInv, at = "unique"
  PROVE  Lists(Meant) /\ Resolved = Meant /\ Loading /\ next = 8
<1>1. Loading /\ next = 8 /\ EnvInv /\ given \in Inputs /\ StructValid(Meant)
  BY DEF LoadInv, StageInv, Loading
<1>2. Resolved = Meant
  BY <1>1, ResolvedIsMeant
<1>3. "hypervisor" \in Slots
  <2>1. Order[1] = "hypervisor" /\ 1 \in 1..7
    BY DEF Order
  <2> QED BY <2>1, OrderIs
<1>4. PICK l : l = Meant["hypervisor"]
  OBVIOUS
<1>5. l # Nothing /\ l.kind = "Hypervisor"
  <2>1. "hypervisor" \in Required /\ "hypervisor" \in DOMAIN Meant /\ Kinds("hypervisor") = {"Hypervisor"}
    BY <1>3 DEF Required, Meant, Kinds
  <2> QED BY <1>1, <1>4, <2>1 DEF StructValid, Present
<1>6. "hypervisor" \in DOMAIN given.slots /\ l = Written("hypervisor")
  BY <1>3, <1>4, <1>5 DEF Meant
<1>7. l \in {given.slots[s].inline : s \in DOMAIN given.slots} \cup Elements(given.files)
  <2>1. CASE given.slots["hypervisor"].ref # ""
    <3>1. "hypervisor" \in Referring /\ l = given.files[File("hypervisor")]
      BY <1>6, <2>1 DEF Referring, Written, File
    <3>2. Passed = Slots
      BY <1>1, OrderIs DEF Passed
    <3>3. File("hypervisor") \in DOMAIN given.files
      BY <1>1, <1>3, <3>1, <3>2 DEF EnvInv
    <3> QED BY <3>1, <3>3 DEF Elements
  <2>2. CASE given.slots["hypervisor"].ref = ""
    BY <1>6, <2>2 DEF Written
  <2> QED BY <2>1, <2>2
<1>8. \A n \in DOMAIN l.nodes : DOMAIN l.nodes[n].nics = 1..Len(l.nodes[n].nics)
  BY <1>1, <1>5, <1>7, InputsAssumption
<1>9. PICK e : e = Meant
  OBVIOUS
<1>10. Lists(e)
  BY <1>4, <1>8, <1>9 DEF Lists, Nodes, Node
<1> QED BY <1>1, <1>2, <1>9, <1>10

LEMMA VisitOne ==
  ASSUME LoadInv, UniqueInv, NEW n \in todo, Unique(n)
  PROVE  /\ errs = {} /\ todo' \subseteq Nodes(Meant)
         /\ met' = SeenOf(Meant, Nodes(Meant) \ todo') /\ Apart(Meant, Nodes(Meant) \ todo')
<1>1. at = "unique" /\ todo # {} /\ todo' = todo \ {n}
  BY DEF Unique
<1>2. PICK e : e = Meant
  OBVIOUS
<1>3. PICK V : V = Nodes(e) \ todo
  OBVIOUS
<1>4. errs = {} /\ todo \subseteq Nodes(e) /\ met = SeenOf(e, V) /\ Apart(e, V) /\ Lists(e)
  BY <1>1, <1>2, <1>3, MeantLists DEF UniqueInv, Visited
<1>5. ~Duplicate(Node(e, n), SeenOf(e, V)) /\ met' = Seen(Node(e, n), SeenOf(e, V))
  BY <1>1, <1>2, <1>4, MeantLists DEF Unique
<1>6. V \in SUBSET Nodes(e) /\ n \in Nodes(e) /\ n \notin V /\ Nodes(e) \ todo' = V \cup {n}
  BY <1>1, <1>3, <1>4
<1>7. Apart(e, V \cup {n})
  BY <1>4, <1>5, <1>6, DuplicateIsExact
<1>8. met' = SeenOf(e, V \cup {n})
  BY <1>5, SeenGrows
<1> QED BY <1>1, <1>2, <1>4, <1>6, <1>7, <1>8

LEMMA StopAtOne ==
  ASSUME LoadInv, UniqueInv, NEW n \in todo, NotUnique(n)
  PROVE  ~NoCollision(Meant)
<1>1. at = "unique" /\ todo # {}
  BY DEF NotUnique
<1>2. PICK e : e = Meant
  OBVIOUS
<1>3. PICK V : V = Nodes(e) \ todo
  OBVIOUS
<1>4. errs = {} /\ todo \subseteq Nodes(e) /\ met = SeenOf(e, V) /\ Apart(e, V) /\ Lists(e)
  BY <1>1, <1>2, <1>3, MeantLists DEF UniqueInv, Visited
<1>5. Duplicate(Node(e, n), SeenOf(e, V))
  BY <1>1, <1>2, <1>4, MeantLists DEF NotUnique
<1>6. V \in SUBSET Nodes(e) /\ n \in Nodes(e) /\ n \notin V /\ V \cup {n} \in SUBSET Nodes(e)
  BY <1>1, <1>3, <1>4
<1>7. ~Apart(e, V \cup {n})
  BY <1>4, <1>5, <1>6, DuplicateIsExact
<1> QED BY <1>2, <1>6, <1>7, NoCollisionIs
-----------------------------------------------------------------------------
(* A step outside the loop over the nodes. *)
LEMMA VerdictOpen ==
  ASSUME given' = given, res' \notin {"ok", "cross"}
  PROVE  VerdictIsExact'
BY DEF VerdictIsExact

LEMMA UniqueStep ==
  ASSUME LoadInv, UniqueInv, [Next]_vars
  PROVE  UniqueInv'
<1>0. at # "done" => res = "none"
  BY DEF LoadInv, StageInv
(* Before it. *)
<1>1. ASSUME at \notin {"unique", "done"}, UNCHANGED <<given, todo, met, errs>>, at' # "unique",
             res' \notin {"ok", "cross"}
      PROVE  UniqueInv'
  BY <1>1, VerdictOpen DEF UniqueInv
<1>2. CASE \/ Read \/ ReadFails \/ ApplyProfile \/ ProfileFails \/ NoSlot \/ RefsDone
           \/ Secrets \/ SecretsFail \/ ValidateFails
  BY <1>0, <1>1, <1>2
     DEF Read, ReadFails, ApplyProfile, ProfileFails, NoSlot, RefsDone, Secrets, SecretsFail,
         ValidateFails, Fail
<1>3. CASE \E s \in Slots : Inline(s) \/ Circular(s) \/ Unreadable(s) \/ ReadLayer(s)
  <2>1. PICK s \in Slots : Inline(s) \/ Circular(s) \/ Unreadable(s) \/ ReadLayer(s)
    BY <1>3
  <2>2. /\ at = "refs" /\ UNCHANGED <<given, todo, met, errs>> /\ at' \in {"refs", "done"}
        /\ res' \in {"none", "circular", "read"}
    BY <1>0, <2>1 DEF Inline, Circular, Unreadable, ReadLayer, Refers, At, Put, Fail
  <2> QED BY <1>1, <2>2
(* The loop begins with no node visited. *)
<1>4. CASE Validate
  <2>1. PICK e : e = Meant
    OBVIOUS
  <2>2. at = "struct" /\ Loading /\ next = 8
    BY <1>4 DEF Validate, LoadInv, StageInv, Loading
  <2>3. Resolved = e
    BY <2>1, <2>2, ResolvedIsMeant
  <2>4. /\ given' = given /\ at' = "unique" /\ todo' = Nodes(e) /\ errs' = {} /\ res' = "none"
        /\ met' = NothingSeen
    BY <1>0, <1>4, <2>2, <2>3 DEF Validate, UniqueInv
  <2>5. Meant' = e
    BY <2>1, <2>4, GivenStays
  <2>6. Visited' = {}
    BY <2>4, <2>5 DEF Visited
  <2>7. SeenOf(e, {}) = NothingSeen /\ Apart(e, {})
    BY DEF SeenOf, NothingSeen, Apart
  <2> QED BY <2>4, <2>5, <2>6, <2>7, VerdictOpen DEF UniqueInv
(* It visits one, in any order, or stops. *)
<1>5. ASSUME NEW n \in todo, Unique(n) PROVE UniqueInv'
  <2>1. PICK e : e = Meant
    OBVIOUS
  <2>2. at = "unique" /\ at' = at /\ given' = given /\ errs' = errs /\ res' = res
    BY <1>5 DEF Unique
  <2>3. /\ errs' = {} /\ todo' \subseteq Nodes(e)
        /\ met' = SeenOf(e, Nodes(e) \ todo') /\ Apart(e, Nodes(e) \ todo')
    BY <1>5, <2>1, <2>2, VisitOne
  <2>4. Meant' = e
    BY <2>1, <2>2, GivenStays
  <2> QED BY <1>0, <2>2, <2>3, <2>4, VerdictOpen DEF UniqueInv, Visited
<1>6. ASSUME NEW n \in todo, NotUnique(n) PROVE UniqueInv'
  <2>1. PICK e : e = Meant
    OBVIOUS
  <2>2. /\ at = "unique" /\ at' = at /\ given' = given /\ errs' = {"unique"} /\ todo' = {}
        /\ res' = res
    BY <1>6 DEF NotUnique
  <2>3. ~NoCollision(e)
    BY <1>6, <2>1, StopAtOne
  <2>4. Meant' = e
    BY <2>1, <2>2, GivenStays
  <2> QED BY <1>0, <2>2, <2>3, <2>4, VerdictOpen DEF UniqueInv, Checks
(* The other checks are joined to its verdict. *)
<1>7. CASE Finish
  <2>1. PICK e : e = Meant
    OBVIOUS
  <2>2. /\ at = "unique" /\ todo = {} /\ at' = "done" /\ given' = given /\ todo' = todo
        /\ Resolved = e /\ errs' = errs \cup CrossErrors(Resolved)
    BY <1>7, <2>1, MeantLists DEF Finish
  <2>3. errs' = errs \cup CrossErrors(e)
    BY <2>2
  <2>4. /\ CrossErrors(e) \subseteq {"rac", "nic", "disk", "tag"}
        /\ CrossErrors(e) \cap {"nic", "disk", "tag"} # {} <=> ~NamesResolve(e)
    BY NamesAre
  <2>5. /\ errs \in {{}, {"unique"}}
        /\ "unique" \in errs <=> ~NoCollision(e)
    <3>1. CASE errs = {}
      <4>1. Visited = Nodes(e)
        BY <2>1, <2>2 DEF Visited
      <4>2. Apart(e, Nodes(e))
        BY <2>1, <2>2, <3>1, <4>1 DEF UniqueInv
      <4> QED BY <3>1, <4>2, NoCollisionIs
    <3>2. CASE errs # {}
      BY <2>1, <2>2, <3>2 DEF UniqueInv
    <3> QED BY <3>1, <3>2
  <2>6. /\ errs' \subseteq Checks
        /\ "unique" \in errs' <=> ~NoCollision(e)
        /\ errs' \cap {"nic", "disk", "tag"} # {} <=> ~NamesResolve(e)
    BY <2>3, <2>4, <2>5 DEF Checks
  <2>7. Meant' = e
    BY <2>1, <2>2, GivenStays
  <2> QED BY <2>2, <2>6, <2>7 DEF UniqueInv, VerdictIsExact
<1>8. CASE Stop \/ UNCHANGED vars
  <2>1. PICK e : e = Meant
    OBVIOUS
  <2>2. UNCHANGED vars /\ Meant' = e
    BY <1>8, <2>1, GivenStays DEF Stop, vars
  <2> QED BY <2>1, <2>2 DEF UniqueInv, VerdictIsExact, Visited, vars
<1> QED BY <1>2, <1>3, <1>4, <1>5, <1>6, <1>7, <1>8 DEF Next

(* The check of uniqueness inductively. *)
THEOREM UniqueInductive == Spec => [](LoadInv /\ UniqueInv)
<1>1. Init => UniqueInv
  BY DEF Init, UniqueInv, VerdictIsExact
<1>2. LoadInv /\ UniqueInv /\ [Next]_vars => UniqueInv'
  BY UniqueStep
<1> QED BY <1>1, <1>2, LoadInductive, PTL DEF Spec

(* Whatever the order in which the Go map yields the nodes, Load refuses    *)
(* exactly the manifests in which two VMs or NICs collide or a name has no  *)
(* definition, and a check that fails hides no other (validators.go:72-139, *)
(* 177-261).                                                                *)
THEOREM VerdictExact == Spec => []VerdictIsExact
<1>1. UniqueInv => VerdictIsExact
  BY DEF UniqueInv
<1> QED BY <1>1, UniqueInductive, PTL

(* Every slot of the environment is one of the spec's, the results are the  *)
(* ones the stages have, and only validateUniqueness has nodes to visit     *)
(* (loader.go:30-68).                                                       *)
THEOREM LoadTypeCorrect == Spec => []TypeOK
<1> DEFINE Plain == DOMAIN env.slots \subseteq Slots /\ Self \in seen
<1>1. Init => Plain
  <2>1. Init => env.slots = <<>> /\ seen = {Self}
    <3>1. ASSUME NEW s PROVE [version |-> "", slots |-> s].slots = s
      OBVIOUS
    <3> QED BY <3>1, Zenon DEF Init
  <2>2. DOMAIN <<>> = {}
    OBVIOUS
  <2> QED BY <2>1, <2>2
<1>2. ASSUME LoadInv, Plain, [Next]_vars PROVE Plain'
  <2>1. LoadInv' /\ given \in Inputs
    BY <1>2, LoadStep DEF LoadInv, StageInv
  <2>2. given' = given
    BY <1>2 DEF Next, vars, Read, ReadFails, ApplyProfile, ProfileFails, NoSlot, RefsDone, Inline,
                Circular, Unreadable, ReadLayer, Secrets, SecretsFail, Validate, ValidateFails,
                Unique, NotUnique, Finish, Stop, Fail, Put
  <2>3. CASE Loading'
    <3>1. EnvInv'
      BY <2>1, <2>3 DEF LoadInv
    <3>2. Slotted \subseteq Slots
      BY <2>1, MergedIs
    <3> QED BY <2>2, <3>1, <3>2, GivenStays DEF EnvInv
  <2>4. CASE at' = "profile"
    <3>1. env' = [version |-> given.version, slots |-> given.slots] /\ seen' = {Self}
      BY <2>1, <2>2, <2>4 DEF LoadInv, StageInv
    <3>2. DOMAIN given.slots \subseteq Slots
      BY <2>1, InputsAssumption
    <3> QED BY <3>1, <3>2
  <2>5. CASE ~Loading' /\ at' # "profile"
    <3>1. env' = env /\ seen' = seen
      BY <1>2, <2>5
         DEF Next, vars, Loading, Read, ReadFails, ApplyProfile, ProfileFails, NoSlot, RefsDone,
             Inline, Circular, Unreadable, ReadLayer, Refers, At, Secrets, SecretsFail, Validate,
             ValidateFails, Unique, NotUnique, Finish, Stop, Fail, Put
    <3> QED BY <1>2, <3>1
  <2> QED BY <2>3, <2>4, <2>5
<1>3. LoadInv /\ UniqueInv /\ Plain => TypeOK
  <2> SUFFICES ASSUME LoadInv, UniqueInv, Plain PROVE TypeOK
    OBVIOUS
  <2>1. /\ given \in Inputs /\ next \in 1..8
        /\ at \in {"read", "profile", "refs", "secrets", "struct", "unique", "done"}
        /\ at = "done" <=> res \in Results
    <3>1. "none" \notin Results
      BY DEF Results
    <3> QED BY <3>1 DEF LoadInv, StageInv
  <2>2. next \in 1..(Len(Order) + 1)
    BY <2>1, OrderIs
  <2>3. errs \subseteq {"unique", "rac", "nic", "disk", "tag"}
    BY DEF UniqueInv, Checks
  <2>4. todo # {} => at = "unique" /\ todo \subseteq Nodes(Resolved)
    BY MeantLists DEF UniqueInv
  <2> QED BY <2>1, <2>2, <2>3, <2>4 DEF TypeOK
<1> QED BY <1>1, <1>2, <1>3, UniqueInductive, PTL DEF Spec
=============================================================================
