------------------------------ MODULE Resolver ------------------------------
(***************************************************************************)
(* ResolvePlaceholders (pkg/config/resolver.go): one walk over every       *)
(* string of a loaded manifest, which replaces each ${...} token in place. *)
(* A ${ref:...} token reads the manifest the walk is changing, Go visits   *)
(* maps in an arbitrary order, and the entries of a map are written back   *)
(* only when the whole map has been visited: what a reference finds        *)
(* depends on the order of the walk.                                       *)
(*                                                                         *)
(* The manifest is abstracted to one string of every kind the walk treats  *)
(* differently.  A string is one token or plain text.                      *)
(***************************************************************************)
EXTENDS Naturals, Sequences, FiniteSets

CONSTANTS
  Keys,      \* the keys of hypervisor.nodes
  Tokens,    \* the tokens a manifest may contain
  MaxTokens, \* bound: the strings of a manifest that are tokens
  Lookup     \* the process environment: variable -> value, "" when unset or empty

(* The kinds of token the pattern matches, as the author writes them.       *)
ASSUME TokensAssumption ==
  \A tok \in Tokens :
    /\ tok.kind \in {"env", "file", "vault", "gen", "ref"}
    /\ tok = [kind |-> tok.kind, spec |-> tok.spec, default |-> tok.default,
              base64 |-> tok.base64, coded |-> 0]

(* The strings, in the order of the struct fields: metadata.tags (a map of  *)
(* strings), metadata.description, for every node proxmox.node_name (in the *)
(* copy of a map's value) and ips (in a map inside that copy), and          *)
(* kickstart.timezone (behind a pointer).                                   *)
Tag      == <<"tag", "t">>
Desc     == <<"description", "">>
Name(k)  == <<"node_name", k>>
Ip(k)    == <<"ips", k>>
Timezone == <<"timezone", "">>
Slots    == {Tag, Desc, Timezone} \cup {Name(k) : k \in Keys} \cup {Ip(k) : k \in Keys}

VARIABLES
  doc,     \* the manifest as it is now
  at,      \* the station of the walk
  todo,    \* keys of the current map that were not visited yet
  pending, \* the updates of the current map
  errs,    \* slots whose token could not be expanded: ResolveResult.Errors
  defer,   \* slots left to runtime: ResolveResult.Unresolved
  res,     \* what Load makes of it
  given,   \* the manifest as it was written
  inlined  \* whether the layer is written inline: then Ref.Value and Ref.Inline
           \* share its maps and pointers, and the walk passes them twice

vars == <<doc, at, todo, pending, errs, defer, res, given, inlined>>

(* The walk as a sequence of stations. *)
Layer == <<"nodes", "timezone">>
Walk  == <<"tags", "description">> \o Layer \o (IF inlined THEN Layer ELSE <<>>)
-----------------------------------------------------------------------------
(* Texts.  coded counts the times base64 was applied: a token that was       *)
(* encoded is no token any more.                                            *)

Plain(v) == [kind |-> "plain", spec |-> <<v, "">>, default |-> "none",
             base64 |-> FALSE, coded |-> 0]
IsPlain(t) == t.kind = "plain" \/ t.coded > 0

Encode(t) == [t EXCEPT !.coded = @ + 1]
Filter(tok, t) == IF tok.base64 THEN Encode(t) ELSE t

Default(tok) == tok.default

(* What a token other than a ref stands for, "none" when it is an error:    *)
(* env and file take the default when the source has nothing, vault and     *)
(* ssh_key leave a marker, a gen with a bad length is the empty string.     *)
Source(tok) ==
  CASE tok.kind = "env" -> IF Lookup[tok.spec[1]] # "" THEN Lookup[tok.spec[1]] ELSE Default(tok)
    [] tok.kind = "file" -> IF tok.spec[1] = "present" THEN "content" ELSE Default(tok)
    [] tok.kind = "vault" -> "<VAULT>"
    [] tok.kind = "gen" -> CASE tok.spec[1] = "password" -> "generated"
                             [] tok.spec[1] = "ssh_key"  -> "<GEN_SSH_KEY>"
                             [] OTHER                 -> ""

(* resolveRefPath finds the string as it is now; a path that does not exist *)
(* is an error.                                                             *)
Fails(tok) == /\ ~IsPlain(tok)
              /\ IF tok.kind = "ref" THEN tok.spec \notin Slots ELSE Source(tok) = "none"

Deferred(tok) == tok.kind = "vault" \/ (tok.kind = "gen" /\ tok.spec[1] = "ssh_key")

Expand(tok) == IF IsPlain(tok) \/ Fails(tok) THEN tok
               ELSE Filter(tok, IF tok.kind = "ref" THEN doc[tok.spec] ELSE Plain(Source(tok)))
-----------------------------------------------------------------------------
Init ==
  /\ \E S \in {S \in SUBSET Slots : Cardinality(S) <= MaxTokens} : \E f \in [S -> Tokens] :
       given = [s \in Slots |-> IF s \in S THEN f[s] ELSE Plain("literal")]
  /\ doc = given /\ inlined \in BOOLEAN
  /\ at = 1 /\ todo = {"t"} /\ pending = <<>>
  /\ errs = {} /\ defer = {} /\ res = "none"

(* A slot is visited: its errors and deferred tokens are recorded.          *)
Note_lastError(slots) == /\ errs' = {s \in slots : Fails(doc[s])}
                         /\ defer' = defer \cup {s \in slots : Deferred(doc[s])}
Note(slots) == /\ errs' = errs \cup {s \in slots : Fails(doc[s])}
               /\ defer' = defer \cup {s \in slots : Deferred(doc[s])}

Station == IF at <= Len(Walk) THEN Walk[at] ELSE "end"

(* MapRange has returned every key: now the updates are written back.       *)
WriteBack == [s \in Slots |-> IF s \in DOMAIN pending THEN pending[s] ELSE doc[s]]
Advance == /\ at' = at + 1
           /\ todo' = IF at < Len(Walk) /\ Walk[at + 1] = "nodes" THEN Keys ELSE {}
           /\ pending' = <<>>

Leaf(station, s) ==
  /\ Station = station
  /\ doc' = [doc EXCEPT ![s] = Expand(@)]
  /\ Note({s}) /\ Advance
  /\ UNCHANGED <<res, given, inlined>>

Later(s, t) == [r \in DOMAIN pending \cup {s} |-> IF r = s THEN t ELSE pending[r]]

VisitTag ==
  /\ Station = "tags" /\ todo # {}
  /\ pending' = Later(Tag, Expand(doc[Tag]))
  /\ todo' = {} /\ Note({Tag})
  /\ UNCHANGED <<doc, at, res, given, inlined>>

(* transformMapValue works on a copy of the Node, but the copy shares the   *)
(* map of addresses with the original.                                      *)
VisitNode(k) ==
  /\ Station = "nodes" /\ k \in todo
  /\ pending' = Later(Name(k), Expand(doc[Name(k)]))
  /\ doc' = [doc EXCEPT ![Ip(k)] = Expand(@)]
  /\ todo' = todo \ {k} /\ Note({Name(k), Ip(k)})
  /\ UNCHANGED <<at, res, given, inlined>>

LeaveMap_forgets ==
  /\ Station \in {"tags", "nodes"} /\ todo = {}
  /\ Advance
  /\ UNCHANGED <<doc, errs, defer, res, given, inlined>>

LeaveMap ==
  /\ Station \in {"tags", "nodes"} /\ todo = {}
  /\ doc' = WriteBack /\ Advance
  /\ UNCHANGED <<errs, defer, res, given, inlined>>

(* LoadWithOptions joins the errors. *)
Finish ==
  /\ Station = "end" /\ res = "none"
  /\ res' = IF errs # {} THEN "err" ELSE "ok"
  /\ UNCHANGED <<doc, at, todo, pending, errs, defer, given, inlined>>

Stop == res # "none" /\ UNCHANGED vars

Next == \/ VisitTag \/ Leaf("description", Desc) \/ Leaf("timezone", Timezone)
        \/ \E k \in Keys : VisitNode(k)
        \/ LeaveMap \/ Finish \/ Stop

Spec == Init /\ [][Next]_vars
-----------------------------------------------------------------------------
(* The order in which the walk settles the slots, maps as a whole: a slot   *)
(* is final when the walk has passed its place for the last time.           *)
Place(s) == CASE s = Tag -> 1 [] s = Desc -> 2 [] s = Timezone -> 4 [] OTHER -> 3

(* What a manifest means: every reference is the meaning of its target.     *)
(* Only for references that go to an earlier place.                         *)
Backward(d) == \A s \in Slots :
  d[s].kind = "ref" => d[s].spec \notin Slots \/ Place(d[s].spec) < Place(s)

Meaning(d) ==
  LET Value[s \in Slots] == IF IsPlain(d[s]) \/ Fails(d[s]) THEN d[s]
                            ELSE Filter(d[s], IF d[s].kind = "ref" THEN Value[d[s].spec]
                                              ELSE Plain(Source(d[s])))
  IN Value

TypeOK ==
  /\ DOMAIN doc = Slots /\ DOMAIN given = Slots /\ inlined \in BOOLEAN
  /\ at \in 1..(Len(Walk) + 1) /\ todo \subseteq Keys \cup {"t"}
  /\ DOMAIN pending \subseteq CASE Station = "tags"  -> {Tag}
                                [] Station = "nodes" -> {Name(k) : k \in Keys \ todo}
                                [] OTHER             -> {}
  /\ errs \subseteq Slots /\ defer \subseteq Slots
  /\ res \in {"none", "ok", "err"}

(* A manifest whose references all go backward is expanded to what it       *)
(* means, in whatever order the maps are visited and however often the walk *)
(* passes a layer; and Load fails exactly when some token has no value      *)
(* (resolver.go:43-158, 247-328).                                           *)
BackwardIsExact ==
  res # "none" /\ Backward(given) =>
    /\ doc = Meaning(given)
    /\ res = "err" <=> \E s \in Slots : Fails(given[s])

(* With references in any direction, every token that is not a reference is *)
(* still expanded to its own value, and none is lost from what is left to   *)
(* runtime (resolver.go:109-119).                                           *)
OwnTokensExact ==
  res # "none" => \A s \in Slots : given[s].kind # "ref" =>
    /\ doc[s] = Meaning([r \in Slots |-> IF r = s THEN given[r] ELSE Plain("other")])[s]
    /\ Deferred(given[s]) <=> s \in defer

(* Where the walk passes once, a reference has the text its target was      *)
(* written with or the text its target ends with, and nothing in between,   *)
(* although both may be entries of the map being walked                     *)
(* (resolver.go:185-226, 264-282).                                          *)
RefIsOldOrNew ==
  res = "ok" /\ ~inlined => \A s \in Slots : given[s].kind = "ref" =>
    LET t == given[s].spec IN doc[s] \in {Filter(given[s], given[t]), Filter(given[s], doc[t])}
-----------------------------------------------------------------------------
(* resolver.go:41-42: the walk visits every string and expands its tokens:  *)
(* when Load succeeds no token is left.                                     *)
NoTokenLeft == res = "ok" => \A s \in Slots : IsPlain(doc[s])
=============================================================================
