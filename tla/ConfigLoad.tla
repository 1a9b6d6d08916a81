----------------------------- MODULE ConfigLoad -----------------------------
(***************************************************************************)
(* LoadWithOptions (pkg/config/loader.go), the way every command obtains   *)
(* its manifest: read the file, merge the profile it extends, put the      *)
(* layer of every slot of the spec in place, expand the secrets, validate. *)
(* A check that finds no layer passes, so an order of the stages, a merge  *)
(* or a $ref that leaves a slot empty would let anything through.          *)
(***************************************************************************)
EXTENDS Validators

CONSTANTS
  Inputs,    \* what Load may be given: a manifest and the files around it
  Profiles,  \* the embedded profiles: name -> the cluster it has
  Path,      \* the absolute path of a $ref as it is spelled
  Self       \* the absolute path of the manifest

(* resolveRefs settles the slots in this order. *)
Order == <<"hypervisor", "networks", "storage_classes", "linux", "cluster",
           "databases[0]", "databases[1]">>
Slots == Elements(Order)

(* Ref[T]: a file to read, or a layer in the manifest itself; Value is set   *)
(* by the loader.                                                            *)
Ref(file, inline) == [ref |-> file, inline |-> inline, value |-> Nothing]

(* UnmarshalYAML reads a slot as the one or as the other; a list is a list.  *)
ASSUME InputsAssumption ==
  \A i \in Inputs :
    /\ \A s \in DOMAIN i.slots :
         LET r == i.slots[s]
         IN /\ s \in Slots /\ r = Ref(r.ref, r.inline)
            /\ r.ref # "" => r.ref \in DOMAIN Path /\ r.inline = Nothing
    /\ \A l \in {i.slots[s].inline : s \in DOMAIN i.slots} \cup Elements(i.files) :
         l.kind = "Hypervisor" => \A n \in DOMAIN l.nodes :
           DOMAIN l.nodes[n].nics = 1..Len(l.nodes[n].nics)

(* An embedded profile has a name and is of the version Load accepts.        *)
ASSUME ProfilesAssumption ==
  "" \notin DOMAIN Profiles /\ \A p \in DOMAIN Profiles : Profiles[p].version = "1"

VARIABLES
  given, \* the manifest as written, with the files it may name
  env,   \* the manifest being loaded: version, and a Ref for every slot it has
  at,    \* the stage
  next,  \* the slot resolveRefs is at
  seen,  \* the files resolveRef has met
  todo,  \* the nodes validateUniqueness has not visited
  met,   \* and what it saw on the others
  errs,  \* the cross-field checks that failed
  res    \* what Load returns

vars == <<given, env, at, next, seen, todo, met, errs, res>>

Resolved == [s \in Slots |-> IF s \notin DOMAIN env.slots THEN Nothing
                             ELSE IF Present(env.slots[s], "value") THEN env.slots[s].value
                             ELSE env.slots[s].inline]

Init ==
  /\ given \in Inputs
  /\ env = [version |-> "", slots |-> <<>>]
  /\ at = "read" /\ next = 1 /\ seen = {Self}
  /\ todo = {} /\ met = NothingSeen /\ errs = {} /\ res = "none"

Fail(reason) == /\ res' = reason /\ at' = "done"
                /\ UNCHANGED <<given, env, next, seen, todo, met, errs>>

Read ==
  /\ at = "read" /\ given.readable
  /\ env' = [version |-> given.version, slots |-> given.slots]
  /\ at' = IF given.extends # "" THEN "profile" ELSE "refs"
  /\ UNCHANGED <<given, next, seen, todo, met, errs, res>>

ReadFails == at = "read" /\ ~given.readable /\ Fail("read")
-----------------------------------------------------------------------------
(* mergeEnv: version if there is none, the whole cluster if there is none,   *)
(* and the type of a cluster written inline without one.                     *)
Typed_override(ref, base) == IF ref.ref = "" /\ ref.inline # Nothing
                             THEN [ref EXCEPT !.inline.type = base.type] ELSE ref
Typed(ref, base) == IF ref.ref = "" /\ ref.inline # Nothing /\ ref.inline.type = ""
                    THEN [ref EXCEPT !.inline.type = base.type] ELSE ref

Version_kept(base) == env.version
Version(base) == IF env.version = "" THEN base.version ELSE env.version

MergeEnv(base) ==
  [version |-> Version(base),
   slots   |-> [s \in DOMAIN env.slots \cup {"cluster"} |->
                  IF s \notin DOMAIN env.slots THEN Ref("", base.cluster)
                  ELSE IF s = "cluster" THEN Typed(env.slots[s], base.cluster)
                  ELSE env.slots[s]]]

ApplyProfile ==
  /\ at = "profile" /\ given.extends \in DOMAIN Profiles
  /\ env' = MergeEnv(Profiles[given.extends])
  /\ at' = "refs"
  /\ UNCHANGED <<given, next, seen, todo, met, errs, res>>

ProfileFails == at = "profile" /\ given.extends \notin DOMAIN Profiles /\ Fail("profile")
-----------------------------------------------------------------------------
(* resolveRef, for the slots in their order.                                *)
At(s) == at = "refs" /\ next <= Len(Order) /\ s = Order[next] /\ s \in DOMAIN env.slots

NextSlot == next' = next + 1

Put(s, layer) == /\ env' = [env EXCEPT !.slots[s].value = layer] /\ NextSlot
                 /\ UNCHANGED <<given, at, todo, met, errs, res>>

NoSlot == /\ at = "refs" /\ next <= Len(Order) /\ Order[next] \notin DOMAIN env.slots
          /\ NextSlot /\ UNCHANGED <<given, env, at, seen, todo, met, errs, res>>

Inline(s) == /\ At(s) /\ env.slots[s].ref = ""
             /\ Put(s, env.slots[s].inline) /\ UNCHANGED seen

Named(s) == Path[env.slots[s].ref]
Refers(s) == At(s) /\ env.slots[s].ref # ""

Circular(s) == Refers(s) /\ Named(s) \in seen /\ Fail("circular")

Unreadable(s) == /\ Refers(s) /\ Named(s) \notin seen
                 /\ Named(s) \notin DOMAIN given.files /\ Fail("read")

ReadLayer(s) == /\ Refers(s) /\ Named(s) \notin seen /\ Named(s) \in DOMAIN given.files
                /\ seen' = seen \cup {Named(s)}
                /\ Put(s, given.files[Named(s)])

RefsDone == /\ at = "refs" /\ next = Len(Order) + 1 /\ at' = "secrets"
            /\ UNCHANGED <<given, env, next, seen, todo, met, errs, res>>
-----------------------------------------------------------------------------
(* ResolvePlaceholders is the module Resolver: here it succeeds or fails.   *)
Secrets == /\ at = "secrets" /\ ~given.unset /\ at' = "struct"
           /\ UNCHANGED <<given, env, next, seen, todo, met, errs, res>>

SecretsFail == at = "secrets" /\ given.unset /\ Fail("secrets")

WellFormed == env.version = "1" /\ StructValid(Resolved)

Validate == /\ at = "struct" /\ WellFormed
            /\ at' = "unique" /\ todo' = Nodes(Resolved)
            /\ UNCHANGED <<given, env, next, seen, met, errs, res>>

ValidateFails == at = "struct" /\ ~WellFormed /\ Fail("struct")

(* validateUniqueness takes the nodes in the order of a Go map.             *)
Unique(n) ==
  /\ at = "unique" /\ n \in todo /\ ~Duplicate(Node(Resolved, n), met)
  /\ met' = Seen(Node(Resolved, n), met) /\ todo' = todo \ {n}
  /\ UNCHANGED <<given, env, at, next, seen, errs, res>>

NotUnique(n) ==
  /\ at = "unique" /\ n \in todo /\ Duplicate(Node(Resolved, n), met)
  /\ errs' = {"unique"} /\ todo' = {}
  /\ UNCHANGED <<given, env, at, next, seen, met, res>>

Finish ==
  /\ at = "unique" /\ todo = {} /\ at' = "done"
  /\ errs' = errs \cup CrossErrors(Resolved)
  /\ res' = IF errs' = {} THEN "ok" ELSE "cross"
  /\ UNCHANGED <<given, env, next, seen, todo, met>>

Stop == at = "done" /\ UNCHANGED vars

Next == \/ Read \/ ReadFails \/ ApplyProfile \/ ProfileFails
        \/ NoSlot \/ RefsDone
        \/ \E s \in Slots : Inline(s) \/ Circular(s) \/ Unreadable(s) \/ ReadLayer(s)
        \/ Secrets \/ SecretsFail \/ Validate \/ ValidateFails
        \/ \E n \in todo : Unique(n) \/ NotUnique(n)
        \/ Finish \/ Stop

Spec == Init /\ [][Next]_vars
-----------------------------------------------------------------------------
(* What the author of a manifest means by it: the layer written or named    *)
(* for a slot, and the profile's cluster, or its type, where there is none. *)
Extended == given.extends \in DOMAIN Profiles

Written(s) == LET r == given.slots[s]
              IN IF r.ref # "" THEN given.files[Path[r.ref]]
                 ELSE IF s = "cluster" /\ Extended /\ r.inline # Nothing /\ r.inline.type = ""
                 THEN [r.inline EXCEPT !.type = Profiles[given.extends].cluster.type]
                 ELSE r.inline

Meant == [s \in Slots |-> IF s \in DOMAIN given.slots THEN Written(s)
                          ELSE IF s = "cluster" /\ Extended THEN Profiles[given.extends].cluster
                          ELSE Nothing]

Referring == {s \in DOMAIN given.slots : given.slots[s].ref # ""}
File(s)   == Path[given.slots[s].ref]

Results == {"ok", "read", "profile", "circular", "secrets", "struct", "cross"}

TypeOK ==
  /\ given \in Inputs
  /\ DOMAIN env.slots \subseteq Slots
  /\ at \in {"read", "profile", "refs", "secrets", "struct", "unique", "done"}
  /\ at = "done" <=> res \in Results
  /\ next \in 1..(Len(Order) + 1) /\ Self \in seen
  /\ errs \subseteq {"unique", "rac", "nic", "disk", "tag"}
  /\ todo # {} => at = "unique" /\ todo \subseteq Nodes(Resolved)

(* A manifest that reaches the cross-field checks has in every slot what its *)
(* author meant: what the manifest says wins over the profile, and no check  *)
(* passes because its layer is not there (loader.go:85-119, 152-185).        *)
LoadedAsMeant == res \in {"ok", "cross"} => Resolved = Meant

(* Whatever the order of the nodes, Load refuses exactly the manifests in    *)
(* which two VMs or NICs collide or a name has no definition, and a check    *)
(* that fails hides no other (validators.go:72-139, 177-261).                *)
VerdictIsExact ==
  res \in {"ok", "cross"} =>
    /\ "unique" \in errs <=> ~NoCollision(Meant)
    /\ errs \cap {"nic", "disk", "tag"} # {} <=> ~NamesResolve(Meant)

(* An error of an earlier stage has its cause in the manifest as written:    *)
(* no stage fails because of what another one did to it (loader.go:30-68).   *)
RefusedForCause ==
  /\ res = "circular" => \E s \in Referring :
       File(s) = Self \/ \E r \in Referring \ {s} : File(r) = File(s)
  /\ res = "read" => ~given.readable \/ \E s \in Referring : File(s) \notin DOMAIN given.files
  /\ res = "profile" => ~Extended
  /\ res = "struct" => \/ given.version # "1" /\ ~(Extended /\ given.version = "")
                       \/ ~StructValid(Meant)
-----------------------------------------------------------------------------
(* loader.go:121-123: circular references are detected. Two slots that name  *)
(* one file are no cycle.                                                    *)
CircularIsACycle == res = "circular" => \E s \in Referring : File(s) = Self

(* loader.go:81-84: what a profile has is taken for every field that the     *)
(* manifest leaves unset.                                                    *)
ProfileFillsUnset ==
  res = "ok" /\ Extended => Resolved["cluster"].type # ""

(* docs/config-reference.md:451-452: a RAC stack has two nodes or more.      *)
RACHasTwoNodes ==
  res = "ok" /\ Present(Resolved, "cluster") /\ Resolved["cluster"].type = "oracle-rac" =>
    Cardinality(Nodes(Resolved)) >= 2
=============================================================================
