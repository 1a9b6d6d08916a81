--------------------------- MODULE ResolverProofs ---------------------------
(***************************************************************************)
(* What ResolvePlaceholders makes of a manifest, for any set of nodes and  *)
(* of tokens and any order in which the maps are visited: references that  *)
(* go backward are expanded to what they mean, every other token to its    *)
(* own value, and a reference has the text its target began or ended with. *)
(***************************************************************************)
EXTENDS Resolver, SequenceTheorems, TLAPS

LEMMA SlotsAre ==
  /\ \A s \in Slots : Place(s) \in 1..4
  /\ \A s \in Slots : /\ Place(s) = 1 <=> s = Tag
                      /\ Place(s) = 2 <=> s = Desc
                      /\ Place(s) = 4 <=> s = Timezone
                      /\ Place(s) = 3 <=> \E k \in Keys : s = Name(k) \/ s = Ip(k)
  /\ Tag \in Slots /\ Desc \in Slots /\ Timezone \in Slots
  /\ \A k \in Keys : Name(k) \in Slots /\ Ip(k) \in Slots
  /\ \A j, k : /\ Name(j) = Name(k) => j = k
               /\ Ip(j) = Ip(k) => j = k
               /\ Name(j) # Ip(k)
<1>1. /\ Tag # Desc /\ Tag # Timezone /\ Desc # Timezone
      /\ \A k : /\ Name(k) # Tag /\ Name(k) # Desc /\ Name(k) # Timezone
                /\ Ip(k) # Tag /\ Ip(k) # Desc /\ Ip(k) # Timezone
  BY DEF Tag, Desc, Timezone, Name, Ip
<1>2. \A j, k : /\ Name(j) = Name(k) => j = k
                /\ Ip(j) = Ip(k) => j = k
                /\ Name(j) # Ip(k)
  BY DEF Name, Ip
<1>3. \A s : s \in Slots <=> s \in {Tag, Desc, Timezone} \/ \E k \in Keys : s = Name(k) \/ s = Ip(k)
  BY DEF Slots
<1>4. Place(Tag) = 1 /\ Place(Desc) = 2 /\ Place(Timezone) = 4 /\ \A k : Place(Name(k)) = 3 /\ Place(Ip(k)) = 3
  BY <1>1 DEF Place
<1>5. \A s \in Slots : Place(s) \in 1..4
  BY <1>3, <1>4
<1>6. ASSUME NEW s \in Slots
      PROVE  /\ Place(s) = 1 <=> s = Tag
             /\ Place(s) = 2 <=> s = Desc
             /\ Place(s) = 4 <=> s = Timezone
             /\ Place(s) = 3 <=> \E k \in Keys : s = Name(k) \/ s = Ip(k)
  BY <1>1, <1>3, <1>4
<1>7. /\ Tag \in Slots /\ Desc \in Slots /\ Timezone \in Slots
      /\ \A k \in Keys : Name(k) \in Slots /\ Ip(k) \in Slots
  BY <1>3
<1> QED BY <1>2, <1>5, <1>6, <1>7
-----------------------------------------------------------------------------
(* Texts. *)
Text(t) == /\ t = [kind |-> t.kind, spec |-> t.spec, default |-> t.default, base64 |-> t.base64,
                   coded |-> t.coded]
           /\ t.coded \in Nat

AsWritten == Tokens \cup {Plain("literal")}

(* Expanding it again changes nothing. *)
Stays(t) == IsPlain(t) \/ Fails(t)

LEMMA PlainIs ==
  ASSUME NEW v
  PROVE  Text(Plain(v)) /\ IsPlain(Plain(v)) /\ Plain(v).kind = "plain"
BY DEF Text, Plain, IsPlain

LEMMA EncodeIs ==
  ASSUME NEW t, Text(t)
  PROVE  Text(Encode(t)) /\ IsPlain(Encode(t)) /\ Encode(t).kind = t.kind
<1>1. PICK k, sp, df, b, c : t = [kind |-> k, spec |-> sp, default |-> df, base64 |-> b, coded |-> c] /\ c \in Nat
  BY DEF Text
<1>2. Encode(t) = [kind |-> k, spec |-> sp, default |-> df, base64 |-> b, coded |-> c + 1]
  BY <1>1 DEF Encode
<1>3. c + 1 \in Nat /\ c + 1 > 0
  BY <1>1
<1> QED BY <1>1, <1>2, <1>3 DEF Text, IsPlain

LEMMA FilterIs ==
  ASSUME NEW tok, NEW t, Text(t)
  PROVE  /\ Text(Filter(tok, t)) /\ Filter(tok, t).kind = t.kind
         /\ IsPlain(t) => IsPlain(Filter(tok, t))
         /\ Filter(tok, t) = t \/ IsPlain(Filter(tok, t))
BY EncodeIs DEF Filter

LEMMA AsWrittenIs ==
  ASSUME NEW t \in AsWritten
  PROVE  Text(t) /\ (IsPlain(t) <=> t.kind = "plain")
<1>1. CASE t = Plain("literal")
  BY <1>1, PlainIs
<1>2. CASE t \in Tokens
  <2>1. /\ t.kind # "plain"
        /\ t = [kind |-> t.kind, spec |-> t.spec, default |-> t.default, base64 |-> t.base64, coded |-> 0]
    BY <1>2, TokensAssumption
  <2>2. t.coded = 0
    BY <2>1
  <2> QED BY <2>1, <2>2 DEF Text, IsPlain
<1> QED BY <1>1, <1>2 DEF AsWritten

LEMMA FailsIs ==
  ASSUME NEW tok
  PROVE  /\ IsPlain(tok) => ~Fails(tok)
         /\ ~IsPlain(tok) /\ tok.kind = "ref" => (Fails(tok) <=> tok.spec \notin Slots)
         /\ Stays(tok) => Expand(tok) = tok
<1>1. IsPlain(tok) => ~Fails(tok)
  BY DEF Fails
<1>2. ~IsPlain(tok) /\ tok.kind = "ref" => (Fails(tok) <=> tok.spec \notin Slots)
  BY DEF Fails
<1>3. Stays(tok) => Expand(tok) = tok
  BY DEF Stays, Expand
<1> QED BY <1>1, <1>2, <1>3
-----------------------------------------------------------------------------
(***************************************************************************)
(* Meaning is a recursive function: it is what it says only if there is a  *)
(* function like that.  When the references go backward there is, since    *)
(* four rounds of the definition, one for every place, settle all slots.   *)
(***************************************************************************)
Body(d, V, s) == IF IsPlain(d[s]) \/ Fails(d[s]) THEN d[s]
                 ELSE Filter(d[s], IF d[s].kind = "ref" THEN V[d[s].spec] ELSE Plain(Source(d[s])))

LEMMA MeaningDef ==
  ASSUME NEW d
  PROVE  Meaning(d) = CHOOSE V : V = [s \in Slots |-> Body(d, V, s)]
BY DEF Meaning, Body

LEMMA BodyLooksBack ==
  ASSUME NEW d, Backward(d), NEW s \in Slots, NEW V, NEW W,
         \A t \in Slots : Place(t) < Place(s) => V[t] = W[t]
  PROVE  Body(d, V, s) = Body(d, W, s)
<1>1. CASE ~IsPlain(d[s]) /\ ~Fails(d[s]) /\ d[s].kind = "ref"
  <2>1. d[s].spec \in Slots
    BY <1>1, FailsIs
  <2>2. Place(d[s].spec) < Place(s)
    BY <1>1, <2>1 DEF Backward
  <2> QED BY <2>1, <2>2 DEF Body
<1>2. CASE ~(~IsPlain(d[s]) /\ ~Fails(d[s]) /\ d[s].kind = "ref")
  BY <1>2 DEF Body
<1> QED BY <1>1, <1>2

LEMMA MeaningIsFunction ==
  ASSUME NEW d, Backward(d)
  PROVE  Meaning(d) = [s \in Slots |-> Body(d, Meaning(d), s)]
<1> DEFINE Round(V) == [s \in Slots |-> Body(d, V, s)]
           V1 == Round(d)
           V2 == Round(V1)
           V3 == Round(V2)
           V4 == Round(V3)
           V5 == Round(V4)
           Agree(V, W, p) == \A s \in Slots : Place(s) <= p => V[s] = W[s]
<1>1. ASSUME NEW V, NEW W, NEW p \in Nat, Agree(V, W, p)
      PROVE  Agree(Round(V), Round(W), p + 1)
  <2> SUFFICES ASSUME NEW s \in Slots, Place(s) <= p + 1 PROVE Round(V)[s] = Round(W)[s]
    OBVIOUS
  <2>1. \A t \in Slots : Place(t) < Place(s) => V[t] = W[t]
    BY <1>1, SlotsAre
  <2> QED BY <2>1, BodyLooksBack
<1>2. Agree(d, V1, 0)
  BY SlotsAre
<1> HIDE DEF Agree, Round
<1>3. Agree(V1, V2, 1)
  BY <1>1, <1>2
<1>4. Agree(V2, V3, 2)
  BY <1>1, <1>3
<1>5. Agree(V3, V4, 3)
  BY <1>1, <1>4
<1>6. Agree(V4, V5, 4)
  BY <1>1, <1>5
<1>7. V4 = V5
  <2> HIDE DEF V3
  <2>1. \A s \in Slots : Place(s) <= 4
    BY SlotsAre
  <2>2. \A s \in Slots : V4[s] = V5[s]
    BY <1>6, <2>1 DEF Agree
  <2> QED BY <2>2 DEF Round
<1>8. PICK V : V = [s \in Slots |-> Body(d, V, s)]
  BY <1>7 DEF Round
<1> QED BY <1>8, MeaningDef

LEMMA MeaningIs ==
  ASSUME NEW d, Backward(d)
  PROVE  \A s \in Slots : Meaning(d)[s] = Body(d, Meaning(d), s)
<1>1. PICK M : M = Meaning(d)
  OBVIOUS
<1>2. M = [s \in Slots |-> Body(d, M, s)]
  BY <1>1, MeaningIsFunction
<1>3. \A s \in Slots : M[s] = Body(d, M, s)
  BY <1>2
<1> QED BY <1>1, <1>3

(* What a slot means can be expanded no further, and it is a token only     *)
(* where the manifest has one that fails.                                   *)
Settles(d, t) == /\ Text(t)
                 /\ \/ IsPlain(t)
                    \/ Fails(t) /\ \E r \in Slots : Fails(d[r])

LEMMA MeaningSettles ==
  ASSUME NEW d, Backward(d), \A s \in Slots : d[s] \in AsWritten
  PROVE  \A s \in Slots : Settles(d, Meaning(d)[s])
<1> DEFINE M == Meaning(d)
           Up(p) == \A s \in Slots : Place(s) <= p => Settles(d, M[s])
<1>1. ASSUME NEW s \in Slots, \A t \in Slots : Place(t) < Place(s) => Settles(d, M[t])
      PROVE  Settles(d, M[s])
  <2>1. M[s] = Body(d, M, s)
    BY MeaningIs
  <2>2. Text(d[s])
    BY AsWrittenIs
  <2> HIDE DEF M
  <2>3. CASE IsPlain(d[s]) \/ Fails(d[s])
    BY <2>1, <2>2, <2>3 DEF Body, Settles
  <2>4. CASE ~IsPlain(d[s]) /\ ~Fails(d[s]) /\ d[s].kind = "ref"
    <3>1. d[s].spec \in Slots
      BY <2>4, FailsIs
    <3>2. Place(d[s].spec) < Place(s)
      BY <2>4, <3>1 DEF Backward
    <3>3. PICK t : t = M[d[s].spec]
      OBVIOUS
    <3>4. Settles(d, t) /\ M[s] = Filter(d[s], t)
      BY <1>1, <2>1, <2>4, <3>1, <3>2, <3>3 DEF Body
    <3> QED BY <3>4, FilterIs DEF Settles
  <2>5. CASE ~IsPlain(d[s]) /\ ~Fails(d[s]) /\ d[s].kind # "ref"
    <3>1. M[s] = Filter(d[s], Plain(Source(d[s])))
      BY <2>1, <2>5 DEF Body
    <3>2. PICK v : v = Source(d[s])
      OBVIOUS
    <3>3. PICK t : t = Plain(v)
      OBVIOUS
    <3>4. Text(t) /\ IsPlain(t)
      BY <3>3, PlainIs
    <3> QED BY <3>1, <3>2, <3>3, <3>4, FilterIs DEF Settles
  <2> QED BY <2>3, <2>4, <2>5
<1> HIDE DEF M
<1>2. ASSUME NEW p \in Nat, Up(p) PROVE Up(p + 1)
  <2> SUFFICES ASSUME NEW s \in Slots, Place(s) <= p + 1 PROVE Settles(d, M[s])
    OBVIOUS
  <2>1. \A t \in Slots : Place(t) < Place(s) => Settles(d, M[t])
    BY <1>2, SlotsAre
  <2> QED BY <1>1, <2>1
<1>3. Up(0)
  BY SlotsAre
<1> HIDE DEF Up
<1>4. Up(1)
  BY <1>2, <1>3
<1>5. Up(2)
  BY <1>2, <1>4
<1>6. Up(3)
  BY <1>2, <1>5
<1>7. Up(4)
  BY <1>2, <1>6
<1>8. \A s \in Slots : Place(s) <= 4
  BY SlotsAre
<1> QED BY <1>7, <1>8 DEF M, Up

(* The value of a token that is no reference. *)
Own(t) == IF IsPlain(t) \/ Fails(t) THEN t ELSE Filter(t, Plain(Source(t)))

LEMMA OwnIs ==
  ASSUME NEW t \in AsWritten, t.kind # "ref"
  PROVE  /\ Stays(Own(t))
         /\ Deferred(Own(t)) => Deferred(t)
         /\ t.kind # "plain" /\ ~Fails(t) => IsPlain(Own(t))
<1>1. CASE IsPlain(t) \/ Fails(t)
  BY <1>1, AsWrittenIs DEF Own, Stays
<1>2. CASE ~(IsPlain(t) \/ Fails(t))
  <2>1. PICK v : v = Source(t)
    OBVIOUS
  <2>2. PICK u : u = Plain(v)
    OBVIOUS
  <2>3. Text(u) /\ IsPlain(u) /\ u.kind = "plain" /\ Own(t) = Filter(t, u)
    BY <1>2, <2>1, <2>2, PlainIs DEF Own
  <2>4. IsPlain(Own(t)) /\ Own(t).kind = "plain"
    BY <2>3, FilterIs
  <2> QED BY <2>4 DEF Stays, Deferred
<1> QED BY <1>1, <1>2

(* A manifest in which it is the only token means that. *)
LEMMA OwnIsMeant ==
  ASSUME NEW d, \A s \in Slots : d[s].kind # "ref"
  PROVE  \A s \in Slots : Meaning(d)[s] = Own(d[s])
<1>1. Backward(d)
  BY DEF Backward
<1>2. PICK M : M = Meaning(d)
  OBVIOUS
<1>3. \A s \in Slots : M[s] = Body(d, M, s)
  BY <1>1, <1>2, MeaningIs
<1>4. \A s \in Slots : Body(d, M, s) = Own(d[s])
  BY DEF Body, Own
<1> QED BY <1>2, <1>3, <1>4
-----------------------------------------------------------------------------
(***************************************************************************)
(* The walk.  A slot is settled when its text has been written, visited    *)
(* when its token has been looked at: for the entries of a map there is    *)
(* time between the two.                                                   *)
(***************************************************************************)
End == IF inlined THEN 7 ELSE 5

InNodes == at = 3 \/ (at = 5 /\ inlined)

Settled(s) == Place(s) < at \/ (at = 3 /\ \E k \in Keys \ todo : s = Ip(k))

Visited(s) == \/ Settled(s)
              \/ at = 3 /\ \E k \in Keys \ todo : s = Name(k)
              \/ at = 1 /\ todo = {} /\ s = Tag

WalkInv ==
  /\ DOMAIN given = Slots /\ doc = [s \in Slots |-> doc[s]] /\ inlined \in BOOLEAN
  /\ \A s \in Slots : given[s] \in AsWritten
  /\ at \in 1..End
  /\ todo \subseteq IF at = 1 THEN {"t"} ELSE IF InNodes THEN Keys ELSE {}
  /\ DOMAIN pending = IF at = 1 THEN IF todo = {} THEN {Tag} ELSE {}
                      ELSE IF InNodes THEN {Name(k) : k \in Keys \ todo} ELSE {}
  /\ res \in {"none", "ok", "err"}
  /\ res # "none" => at = End
  /\ res # "none" => (res = "err" <=> errs # {})

(* v is what s is to have. *)
Aims(s, v) == /\ given[s].kind # "ref" => v = Own(given[s])
              /\ Backward(given) => v = Meaning(given)[s]

OldOrNew(s, v) ==
  LET t == given[s].spec
  IN ~inlined /\ given[s].kind = "ref" /\ t \in Slots =>
       v \in {Filter(given[s], given[t]), Filter(given[s], doc[t])}

TextInv ==
  /\ \A s \in Slots : ~Settled(s) => doc[s] = given[s]
  /\ \A s \in Slots : Settled(s) => Aims(s, doc[s]) /\ OldOrNew(s, doc[s])
  /\ \A s \in DOMAIN pending : Aims(s, pending[s]) /\ OldOrNew(s, pending[s])

NoteInv ==
  /\ errs \subseteq Slots /\ defer \subseteq Slots
  /\ \A s \in Slots : Visited(s) /\ Fails(given[s]) => s \in errs
  /\ Backward(given) /\ errs # {} => \E s \in Slots : Fails(given[s])
  /\ \A s \in Slots : given[s].kind # "ref" =>
       (s \in defer <=> Visited(s) /\ Deferred(given[s]))

LEMMA PairIs ==
  ASSUME NEW S, NEW a \in S, NEW b \in S
  PROVE  <<a, b>> \in Seq(S) /\ Len(<<a, b>>) = 2 /\ <<a, b>>[1] = a /\ <<a, b>>[2] = b
OBVIOUS

LEMMA WalkIs ==
  ASSUME inlined \in BOOLEAN
  PROVE  /\ Walk[1] = "tags" /\ Walk[2] = "description" /\ Walk[3] = "nodes" /\ Walk[4] = "timezone"
         /\ inlined => Len(Walk) = 6 /\ Walk[5] = "nodes" /\ Walk[6] = "timezone"
         /\ ~inlined => Len(Walk) = 4
<1> DEFINE S == {"tags", "description", "nodes", "timezone"}
<1>1. PICK A \in Seq(S) : A = <<"tags", "description">>
  <2>1. "tags" \in S /\ "description" \in S
    OBVIOUS
  <2> QED BY <2>1, PairIs
<1>2. PICK B \in Seq(S) : B = <<"nodes", "timezone">>
  <2>1. "nodes" \in S /\ "timezone" \in S
    OBVIOUS
  <2> QED BY <2>1, PairIs
<1>3. PICK C \in Seq(S) : C = A \o B
  BY ConcatProperties
<1>4. /\ Len(A) = 2 /\ A[1] = "tags" /\ A[2] = "description"
      /\ Len(B) = 2 /\ B[1] = "nodes" /\ B[2] = "timezone"
  BY <1>1, <1>2, PairIs
<1> HIDE DEF S
<1>5. Len(C) = 4 /\ C[1] = A[1] /\ C[2] = A[2] /\ C[3] = B[1] /\ C[4] = B[2]
  <2>1. Len(C) = Len(A) + Len(B)
    BY <1>3, ConcatProperties
  <2>2. \A i \in 1..Len(C) : C[i] = IF i <= Len(A) THEN A[i] ELSE B[i - Len(A)]
    BY <1>3, ConcatProperties
  <2>3. Len(C) = 4
    BY <1>4, <2>1
  <2> QED BY <1>4, <2>2, <2>3
<1>6. CASE inlined
  <2>1. Walk = C \o B
    BY <1>1, <1>2, <1>3, <1>6 DEF Walk, Layer
  <2>2. /\ Len(C \o B) = 6 /\ (C \o B)[1] = C[1] /\ (C \o B)[2] = C[2] /\ (C \o B)[3] = C[3]
        /\ (C \o B)[4] = C[4] /\ (C \o B)[5] = B[1] /\ (C \o B)[6] = B[2]
    <3>1. PICK D : D = C \o B
      OBVIOUS
    <3>2. Len(D) = Len(C) + Len(B)
      BY <3>1, ConcatProperties
    <3>3. \A i \in 1..Len(D) : D[i] = IF i <= Len(C) THEN C[i] ELSE B[i - Len(C)]
      BY <3>1, ConcatProperties
    <3>4. Len(D) = 6
      BY <1>4, <1>5, <3>2
    <3> QED BY <1>4, <1>5, <3>1, <3>3, <3>4
  <2> QED BY <1>4, <1>5, <1>6, <2>1, <2>2
<1>7. CASE ~inlined
  <2>1. Walk = C \o << >>
    BY <1>1, <1>2, <1>3, <1>7 DEF Walk, Layer
  <2>2. C \o << >> = C
    BY ConcatEmptySeq
  <2> QED BY <1>4, <1>5, <1>7, <2>1, <2>2
<1> QED BY <1>6, <1>7

LEMMA StationIs ==
  ASSUME inlined \in BOOLEAN, at \in 1..End
  PROVE  /\ Station = "tags" <=> at = 1
         /\ Station = "description" <=> at = 2
         /\ Station = "nodes" <=> InNodes
         /\ Station = "timezone" <=> at = 4 \/ (at = 6 /\ inlined)
         /\ Station = "end" <=> at = End
         /\ Advance => /\ at' = at + 1 /\ pending' = <<>>
                       /\ todo' = IF at = 2 \/ (at = 4 /\ inlined) THEN Keys ELSE {}
<1>1. CASE inlined
  <2>1. /\ Len(Walk) = 6 /\ Walk[1] = "tags" /\ Walk[2] = "description" /\ Walk[3] = "nodes"
        /\ Walk[4] = "timezone" /\ Walk[5] = "nodes" /\ Walk[6] = "timezone"
    BY <1>1, WalkIs
  <2>2. at \in {1, 2, 3, 4, 5, 6, 7} /\ End = 7
    BY <1>1 DEF End
  <2>3. at <= Len(Walk) <=> at # 7
    BY <2>1, <2>2
  <2>4. at < Len(Walk) <=> at \in {1, 2, 3, 4, 5}
    BY <2>1, <2>2
  <2>5. Station = IF at = 7 THEN "end" ELSE Walk[at]
    BY <2>2, <2>3 DEF Station
  <2>6. Advance => /\ at' = at + 1 /\ pending' = <<>>
                   /\ todo' = IF at \in {1, 2, 3, 4, 5} /\ Walk[at + 1] = "nodes" THEN Keys ELSE {}
    BY <2>4 DEF Advance
  <2>7. at \in {1, 2, 3, 4, 5} => (Walk[at + 1] = "nodes" <=> at \in {2, 4})
    BY <2>1
  <2> QED BY <1>1, <2>1, <2>2, <2>5, <2>6, <2>7 DEF InNodes
<1>2. CASE ~inlined
  <2>1. /\ Len(Walk) = 4 /\ Walk[1] = "tags" /\ Walk[2] = "description" /\ Walk[3] = "nodes"
        /\ Walk[4] = "timezone"
    BY <1>2, WalkIs
  <2>2. at \in {1, 2, 3, 4, 5} /\ End = 5
    BY <1>2 DEF End
  <2>3. at <= Len(Walk) <=> at # 5
    BY <2>1, <2>2
  <2>4. at < Len(Walk) <=> at \in {1, 2, 3}
    BY <2>1, <2>2
  <2>5. Station = IF at = 5 THEN "end" ELSE Walk[at]
    BY <2>2, <2>3 DEF Station
  <2>6. Advance => /\ at' = at + 1 /\ pending' = <<>>
                   /\ todo' = IF at \in {1, 2, 3} /\ Walk[at + 1] = "nodes" THEN Keys ELSE {}
    BY <2>4 DEF Advance
  <2>7. at \in {1, 2, 3} => (Walk[at + 1] = "nodes" <=> at = 2)
    BY <2>1
  <2> QED BY <1>2, <2>1, <2>2, <2>5, <2>6, <2>7 DEF InNodes
<1> QED BY <1>1, <1>2
-----------------------------------------------------------------------------
(* The text a visit puts in a slot. It is the one the slot is to have, also *)
(* when the walk passes the slot again.                                     *)
LEMMA Expanded ==
  ASSUME WalkInv, TextInv, NEW s \in Slots, Place(s) <= at
  PROVE  /\ Aims(s, Expand(doc[s]))
         /\ ~Settled(s) \/ inlined => OldOrNew(s, Expand(doc[s]))
<1>1. PICK t : t = given[s]
  OBVIOUS
<1>2. t \in AsWritten
  BY <1>1 DEF WalkInv
<1>3. \A r \in Slots : given[r] \in AsWritten
  BY DEF WalkInv
<1>4. PICK M : M = Meaning(given)
  OBVIOUS
<1>5. PICK x : x = Expand(doc[s])
  OBVIOUS
<1>6. Backward(given) => M[s] = Body(given, M, s)
  BY <1>4, MeaningIs
<1>7. CASE ~Settled(s)
  <2>1. doc[s] = t
    BY <1>1, <1>7 DEF TextInv
  <2>2. CASE IsPlain(t) \/ Fails(t)
    <3>1. x = t
      BY <1>5, <2>1, <2>2, FailsIs DEF Stays
    <3>2. t.kind # "ref" => x = Own(t)
      BY <2>2, <3>1 DEF Own
    <3>3. Backward(given) => x = M[s]
      BY <1>1, <1>6, <2>2, <3>1 DEF Body
    <3>4. ~(t.kind = "ref" /\ t.spec \in Slots)
      BY <1>2, <2>2, AsWrittenIs, FailsIs
    <3> QED BY <1>1, <1>4, <1>5, <3>2, <3>3, <3>4 DEF Aims, OldOrNew
  <2>3. CASE ~IsPlain(t) /\ ~Fails(t) /\ t.kind = "ref"
    <3>1. PICK r : r = t.spec
      OBVIOUS
    <3>2. r \in Slots
      BY <2>3, <3>1, FailsIs
    <3>3. x = Filter(t, doc[r])
      BY <1>5, <2>1, <2>3, <3>1 DEF Expand
    <3>4. ASSUME Backward(given) PROVE x = M[s]
      <4>1. Place(r) < Place(s)
        BY <1>1, <2>3, <3>1, <3>2, <3>4 DEF Backward
      <4>2. Place(r) < at
        BY <4>1, <3>2, SlotsAre DEF WalkInv
      <4>3. Aims(r, doc[r])
        BY <3>2, <4>2 DEF TextInv, Settled
      <4>4. doc[r] = M[r]
        BY <1>4, <3>4, <4>3 DEF Aims
      <4> QED BY <1>1, <1>6, <2>3, <3>1, <3>3, <3>4, <4>4 DEF Body
    <3> QED BY <1>1, <1>4, <1>5, <2>3, <3>1, <3>3, <3>4 DEF Aims, OldOrNew
  <2>4. CASE ~IsPlain(t) /\ ~Fails(t) /\ t.kind # "ref"
    <3>1. x = Filter(t, Plain(Source(t)))
      BY <1>5, <2>1, <2>4 DEF Expand
    <3>2. x = Own(t)
      BY <2>4, <3>1 DEF Own
    <3>3. Backward(given) => x = M[s]
      BY <1>1, <1>6, <2>4, <3>1 DEF Body
    <3> QED BY <1>1, <1>4, <1>5, <2>4, <3>2, <3>3 DEF Aims, OldOrNew
  <2> QED BY <2>2, <2>3, <2>4
<1>8. CASE Settled(s)
  <2>1. Aims(s, doc[s])
    BY <1>8 DEF TextInv
  <2>2. t.kind # "ref" => Stays(doc[s])
    BY <1>1, <1>2, <2>1, OwnIs DEF Aims
  <2>3. Backward(given) => Stays(doc[s])
    BY <1>3, <2>1, MeaningSettles DEF Aims, Settles, Stays
  <2>4. Stays(doc[s]) => x = doc[s]
    BY <1>5, FailsIs
  <2>5. Aims(s, x)
    BY <1>1, <2>1, <2>2, <2>3, <2>4 DEF Aims
  <2> QED BY <1>5, <1>8, <2>5 DEF OldOrNew
<1> QED BY <1>7, <1>8

(* What may change: a text is put where none was, or where it makes no      *)
(* difference; nothing else changes.                                        *)
LEMMA TextMoves ==
  ASSUME WalkInv, TextInv, given' = given, inlined' = inlined,
         \A s \in Slots :
           \/ doc'[s] = doc[s] /\ (Settled(s)' <=> Settled(s))
           \/ /\ Settled(s)' /\ (~Settled(s) \/ inlined)
              /\ Aims(s, doc'[s]) /\ OldOrNew(s, doc'[s]),
         \A s \in DOMAIN pending' : Aims(s, pending'[s]) /\ OldOrNew(s, pending'[s])
  PROVE  TextInv'
<1>1. \A s, v : Aims(s, v)' <=> Aims(s, v)
  BY DEF Aims
<1>2. ASSUME NEW t \in Slots PROVE doc'[t] = doc[t] \/ doc[t] = given[t] \/ inlined
  BY DEF TextInv
<1>3. ASSUME NEW s, NEW v, OldOrNew(s, v) PROVE OldOrNew(s, v)'
  <2>1. PICK g, t : g = given[s] /\ t = given[s].spec
    OBVIOUS
  <2> SUFFICES ASSUME ~inlined, g.kind = "ref", t \in Slots
               PROVE  v \in {Filter(g, given[t]), Filter(g, doc'[t])}
    BY <2>1 DEF OldOrNew
  <2>2. v \in {Filter(g, given[t]), Filter(g, doc[t])}
    BY <1>3, <2>1 DEF OldOrNew
  <2>3. doc'[t] = doc[t] \/ doc[t] = given[t]
    BY <1>2
  <2> QED BY <2>2, <2>3
<1>4. ASSUME NEW s \in Slots, ~Settled(s)' PROVE doc'[s] = given'[s]
  BY <1>4 DEF TextInv
<1>5. ASSUME NEW s \in Slots, Settled(s)' PROVE (Aims(s, doc[s]) /\ OldOrNew(s, doc[s]))'
  <2>1. PICK v : v = doc'[s]
    OBVIOUS
  <2>2. Aims(s, v) /\ OldOrNew(s, v)
    BY <1>5, <2>1 DEF TextInv
  <2>3. Aims(s, v)' /\ OldOrNew(s, v)'
    BY <1>1, <1>3, <2>2
  <2> QED BY <2>1, <2>3
<1>6. ASSUME NEW s \in DOMAIN pending' PROVE (Aims(s, pending[s]) /\ OldOrNew(s, pending[s]))'
  <2>1. PICK v : v = pending'[s]
    OBVIOUS
  <2>2. Aims(s, v) /\ OldOrNew(s, v)
    BY <2>1
  <2>3. Aims(s, v)' /\ OldOrNew(s, v)'
    BY <1>1, <1>3, <2>2
  <2> QED BY <2>1, <2>3
<1> QED BY <1>4, <1>5, <1>6 DEF TextInv

(* What a visit notes. *)
LEMMA Noted ==
  ASSUME WalkInv, TextInv, NoteInv, given' = given, NEW S \in SUBSET Slots, Note(S),
         \A s \in Slots : Visited(s)' <=> Visited(s) \/ s \in S
  PROVE  NoteInv'
<1>1. /\ errs' = errs \cup {s \in S : Fails(doc[s])}
      /\ defer' = defer \cup {s \in S : Deferred(doc[s])}
  BY DEF Note
<1>2. \A s \in Slots : ~Settled(s) => doc[s] = given[s]
  BY DEF TextInv
<1>3. \A s \in Slots : Settled(s) => Visited(s)
  BY DEF Visited
<1>4. errs' \subseteq Slots /\ defer' \subseteq Slots
  BY <1>1 DEF NoteInv
<1>5. ASSUME NEW s \in Slots, Visited(s)', Fails(given[s]) PROVE s \in errs'
  <2>1. CASE Visited(s)
    BY <1>1, <1>5, <2>1 DEF NoteInv
  <2>2. CASE ~Visited(s)
    <3>1. s \in S /\ doc[s] = given[s]
      BY <1>2, <1>3, <1>5, <2>2
    <3> QED BY <1>1, <1>5, <3>1
  <2> QED BY <2>1, <2>2
<1>6. ASSUME Backward(given), errs' # {} PROVE \E s \in Slots : Fails(given[s])
  <2>1. CASE errs # {}
    BY <1>6, <2>1 DEF NoteInv
  <2>2. CASE errs = {}
    <3>1. PICK s \in S : Fails(doc[s])
      BY <1>1, <1>6, <2>2
    <3>2. CASE ~Settled(s)
      BY <1>2, <3>1, <3>2
    <3>3. CASE Settled(s)
      <4>1. doc[s] = Meaning(given)[s]
        BY <1>6, <3>3 DEF TextInv, Aims
      <4>2. \A r \in Slots : given[r] \in AsWritten
        BY DEF WalkInv
      <4>3. Settles(given, Meaning(given)[s])
        BY <1>6, <4>2, MeaningSettles
      <4>4. ~IsPlain(Meaning(given)[s])
        BY <3>1, <4>1, FailsIs
      <4> QED BY <4>3, <4>4 DEF Settles
    <3> QED BY <3>2, <3>3
  <2> QED BY <2>1, <2>2
<1>7. ASSUME NEW s \in Slots, given[s].kind # "ref"
      PROVE  s \in defer' <=> Visited(s)' /\ Deferred(given[s])
  <2>1. s \in defer' <=> s \in defer \/ (s \in S /\ Deferred(doc[s]))
    BY <1>1
  <2>2. s \in defer <=> Visited(s) /\ Deferred(given[s])
    BY <1>7 DEF NoteInv
  <2>3. Deferred(doc[s]) => Deferred(given[s])
    <3>1. CASE ~Settled(s)
      BY <1>2, <3>1
    <3>2. CASE Settled(s)
      <4>1. doc[s] = Own(given[s]) /\ given[s] \in AsWritten
        BY <1>7, <3>2 DEF TextInv, Aims, WalkInv
      <4> QED BY <1>7, <4>1, OwnIs
    <3> QED BY <3>1, <3>2
  <2>4. ~Visited(s) => doc[s] = given[s]
    BY <1>2, <1>3
  <2>5. Visited(s)' <=> Visited(s) \/ s \in S
    OBVIOUS
  <2> QED BY <2>1, <2>2, <2>3, <2>4, <2>5
<1> QED BY <1>4, <1>5, <1>6, <1>7 DEF NoteInv
-----------------------------------------------------------------------------
(* The operations. *)
Inv == WalkInv /\ TextInv /\ NoteInv

LEMMA NothingNoted ==
  ASSUME Inv, given' = given, errs' = errs, defer' = defer,
         \A s \in Slots : Visited(s)' <=> Visited(s)
  PROVE  NoteInv'
<1>1. Note({})
  BY DEF Note
<1>2. {} \in SUBSET Slots /\ \A s \in Slots : Visited(s)' <=> Visited(s) \/ s \in {}
  OBVIOUS
<1> QED BY <1>1, <1>2, Noted DEF Inv

(* Where the walk stands. *)
LEMMA WalkMoves ==
  ASSUME WalkInv, given' = given, inlined' = inlined, res' = res, at # End,
         doc' = [s \in Slots |-> doc'[s]],
         at' \in 1..End,
         todo' \subseteq IF at' = 1 THEN {"t"}
                         ELSE IF at' = 3 \/ (at' = 5 /\ inlined) THEN Keys ELSE {},
         DOMAIN pending' = IF at' = 1 THEN IF todo' = {} THEN {Tag} ELSE {}
                           ELSE IF at' = 3 \/ (at' = 5 /\ inlined) THEN {Name(k) : k \in Keys \ todo'}
                           ELSE {}
  PROVE  WalkInv'
<1>1. res = "none"
  BY DEF WalkInv
<1> QED BY <1>1 DEF WalkInv, End, InNodes

LEMMA InvVisitTag ==
  ASSUME Inv, VisitTag
  PROVE  Inv'
<1>1. /\ given' = given /\ inlined' = inlined /\ res' = res /\ doc' = doc /\ at' = at
      /\ todo # {} /\ todo' = {} /\ pending' = Later(Tag, Expand(doc[Tag])) /\ Note({Tag})
      /\ Station = "tags"
  BY DEF VisitTag
<1>2. at = 1 /\ inlined \in BOOLEAN
  BY <1>1, StationIs DEF Inv, WalkInv
<1>3. DOMAIN pending = {}
  BY <1>1, <1>2 DEF Inv, WalkInv
<1>4. DOMAIN pending' = {Tag} /\ pending'[Tag] = Expand(doc[Tag])
  BY <1>1, <1>3 DEF Later
<1>5. Tag \in Slots /\ Place(Tag) = 1 /\ ~Settled(Tag)
  BY <1>2, SlotsAre DEF Settled
<1>6. \A s \in Slots : /\ Settled(s)' <=> Settled(s)
                       /\ Visited(s)' <=> Visited(s) \/ s \in {Tag}
  BY <1>1, <1>2 DEF Settled, Visited
<1>7. Aims(Tag, Expand(doc[Tag])) /\ OldOrNew(Tag, Expand(doc[Tag]))
  BY <1>2, <1>5, Expanded DEF Inv
<1>8. WalkInv'
  BY <1>1, <1>2, <1>4, WalkMoves DEF Inv, WalkInv, End
<1>9. TextInv'
  BY <1>1, <1>4, <1>6, <1>7, TextMoves DEF Inv
<1>10. NoteInv'
  BY <1>1, <1>5, <1>6, Noted DEF Inv
<1> QED BY <1>8, <1>9, <1>10 DEF Inv

(* A string that is no entry of a map. *)
LEMMA InvLeaf ==
  ASSUME Inv, NEW station, NEW s \in Slots, Leaf(station, s),
         \/ station = "description" /\ s = Desc
         \/ station = "timezone" /\ s = Timezone
  PROVE  Inv'
<1>1. /\ given' = given /\ inlined' = inlined /\ res' = res /\ Station = station
      /\ doc' = [doc EXCEPT ![s] = Expand(doc[s])] /\ Note({s}) /\ Advance
  BY DEF Leaf
<1>2. inlined \in BOOLEAN /\ at \in 1..End /\ doc = [t \in Slots |-> doc[t]]
  BY DEF Inv, WalkInv
<1>3. at = Place(s) \/ (at = 6 /\ inlined /\ Place(s) = 4)
  BY <1>1, <1>2, StationIs, SlotsAre
<1>4. /\ at' = at + 1 /\ pending' = <<>> /\ at # End
      /\ todo' = IF at = 2 \/ (at = 4 /\ inlined) THEN Keys ELSE {}
  BY <1>1, <1>2, <1>3, StationIs, SlotsAre DEF End
<1>5. at \in {2, 4} \/ (at = 6 /\ inlined)
  BY <1>3, SlotsAre
<1>6. DOMAIN pending' = {}
  <2>1. DOMAIN <<>> = {}
    OBVIOUS
  <2> QED BY <1>4, <2>1
<1>7. \A t \in Slots : Settled(t) <=> Place(t) < at
  BY <1>5 DEF Settled
<1>8. \A t \in Slots : Settled(t)' <=> Place(t) < at + 1
  BY <1>4, <1>5 DEF Settled
<1>9. \A t \in Slots : t # s => (Place(t) < at + 1 <=> Place(t) < at)
  BY <1>3, <1>5, SlotsAre
<1>10. \A t \in Slots : Visited(t)' <=> Visited(t) \/ t \in {s}
  <2>1. \A t \in Slots : Visited(t) <=> Settled(t)
    BY <1>5 DEF Visited
  <2>2. \A t \in Slots : Visited(t)' <=> Settled(t)'
    BY <1>4, <1>5 DEF Visited
  <2>3. Settled(s)'
    BY <1>3, <1>8, SlotsAre
  <2> QED BY <1>7, <1>8, <1>9, <2>1, <2>2, <2>3
<1>11. Place(s) <= at /\ Settled(s)' /\ (~Settled(s) \/ inlined)
  BY <1>3, <1>7, <1>8, SlotsAre
<1>12. Aims(s, Expand(doc[s])) /\ OldOrNew(s, Expand(doc[s]))
  BY <1>11, Expanded DEF Inv
<1>13. /\ doc' = [t \in Slots |-> doc'[t]] /\ doc'[s] = Expand(doc[s])
       /\ \A t \in Slots : t # s => doc'[t] = doc[t]
  BY <1>1, <1>2
<1>14. WalkInv'
  <2>1. at' \in 1..End
    BY <1>2, <1>4, <1>5 DEF End
  <2>2. /\ at' # 1
        /\ at' = 3 \/ (at' = 5 /\ inlined) <=> at = 2 \/ (at = 4 /\ inlined)
    BY <1>4, <1>5
  <2>3. DOMAIN pending' = IF at' = 3 \/ (at' = 5 /\ inlined) THEN {Name(k) : k \in Keys \ todo'} ELSE {}
    BY <1>4, <1>6, <2>2
  <2> QED BY <1>1, <1>4, <1>13, <2>1, <2>2, <2>3, WalkMoves DEF Inv
<1>15. TextInv'
  <2>1. ASSUME NEW t \in Slots
        PROVE  \/ doc'[t] = doc[t] /\ (Settled(t)' <=> Settled(t))
               \/ /\ Settled(t)' /\ (~Settled(t) \/ inlined)
                  /\ Aims(t, doc'[t]) /\ OldOrNew(t, doc'[t])
    <3>1. CASE t = s
      BY <1>11, <1>12, <1>13, <3>1
    <3>2. CASE t # s
      BY <1>7, <1>8, <1>9, <1>13, <3>2
    <3> QED BY <3>1, <3>2
  <2> QED BY <1>1, <1>6, <2>1, TextMoves DEF Inv
<1>16. NoteInv'
  BY <1>1, <1>10, Noted DEF Inv
<1> QED BY <1>14, <1>15, <1>16 DEF Inv

(* A node: its addresses are changed in place, its name is remembered. *)
LEMMA InvVisitNode ==
  ASSUME Inv, NEW k \in Keys, VisitNode(k)
  PROVE  Inv'
<1>1. /\ given' = given /\ inlined' = inlined /\ res' = res /\ at' = at /\ k \in todo
      /\ todo' = todo \ {k} /\ pending' = Later(Name(k), Expand(doc[Name(k)]))
      /\ doc' = [doc EXCEPT ![Ip(k)] = Expand(doc[Ip(k)])]
      /\ Note({Name(k), Ip(k)}) /\ Station = "nodes"
  BY DEF VisitNode
<1>2. inlined \in BOOLEAN /\ at \in 1..End /\ doc = [t \in Slots |-> doc[t]]
  BY DEF Inv, WalkInv
<1>3. at = 3 \/ (at = 5 /\ inlined)
  BY <1>1, <1>2, StationIs DEF InNodes
<1>4. DOMAIN pending = {Name(j) : j \in Keys \ todo} /\ todo \subseteq Keys
  BY <1>3 DEF Inv, WalkInv, InNodes
<1>5. /\ Name(k) \in Slots /\ Ip(k) \in Slots /\ Name(k) # Ip(k)
      /\ Place(Name(k)) = 3 /\ Place(Ip(k)) = 3
  BY SlotsAre
<1>6. /\ DOMAIN pending' = DOMAIN pending \cup {Name(k)}
      /\ pending'[Name(k)] = Expand(doc[Name(k)])
      /\ \A s \in DOMAIN pending : s # Name(k) => pending'[s] = pending[s]
  BY <1>1 DEF Later
<1>7. Keys \ todo' = (Keys \ todo) \cup {k}
  BY <1>1
<1>8. DOMAIN pending' = {Name(j) : j \in Keys \ todo'}
  BY <1>4, <1>6, <1>7
<1>9. \A s \in Slots : Settled(s)' <=> Settled(s) \/ s = Ip(k)
  BY <1>1, <1>3, <1>5, <1>7 DEF Settled
<1>10. \A s \in Slots : Visited(s)' <=> Visited(s) \/ s \in {Name(k), Ip(k)}
  <2>1. CASE at = 3
    BY <1>1, <1>7, <1>9, <2>1 DEF Visited
  <2>2. CASE at = 5
    <3>1. \A s \in Slots : Settled(s) /\ Settled(s)'
      BY <1>1, <2>2, SlotsAre DEF Settled
    <3> QED BY <3>1, <1>5 DEF Visited
  <2> QED BY <1>3, <2>1, <2>2
<1>11. (~Settled(Name(k)) \/ inlined) /\ (~Settled(Ip(k)) \/ inlined)
  <2>1. at = 3 => ~(\E j \in Keys \ todo : Ip(k) = Ip(j))
    BY <1>1, SlotsAre
  <2>2. \A j \in Keys : Name(k) # Ip(j)
    BY SlotsAre
  <2> QED BY <1>3, <1>5, <2>1, <2>2 DEF Settled
<1>12. /\ Aims(Name(k), Expand(doc[Name(k)])) /\ OldOrNew(Name(k), Expand(doc[Name(k)]))
       /\ Aims(Ip(k), Expand(doc[Ip(k)])) /\ OldOrNew(Ip(k), Expand(doc[Ip(k)]))
  BY <1>3, <1>5, <1>11, Expanded DEF Inv
<1>13. /\ doc' = [t \in Slots |-> doc'[t]] /\ doc'[Ip(k)] = Expand(doc[Ip(k)])
       /\ \A t \in Slots : t # Ip(k) => doc'[t] = doc[t]
  BY <1>1, <1>2, <1>5
<1>14. WalkInv'
  <2>1. at # End /\ at # 1
    BY <1>3 DEF End
  <2>2. todo' \subseteq Keys
    BY <1>1, <1>4
  <2> QED BY <1>1, <1>2, <1>3, <1>8, <1>13, <2>1, <2>2, WalkMoves DEF Inv
<1>15. TextInv'
  <2>1. ASSUME NEW t \in Slots
        PROVE  \/ doc'[t] = doc[t] /\ (Settled(t)' <=> Settled(t))
               \/ /\ Settled(t)' /\ (~Settled(t) \/ inlined)
                  /\ Aims(t, doc'[t]) /\ OldOrNew(t, doc'[t])
    <3>1. CASE t = Ip(k)
      BY <1>9, <1>11, <1>12, <1>13, <3>1
    <3>2. CASE t # Ip(k)
      BY <1>9, <1>13, <3>2
    <3> QED BY <3>1, <3>2
  <2>2. ASSUME NEW s \in DOMAIN pending' PROVE Aims(s, pending'[s]) /\ OldOrNew(s, pending'[s])
    <3>1. CASE s = Name(k)
      BY <1>6, <1>12, <3>1
    <3>2. CASE s # Name(k)
      BY <1>6, <2>2, <3>2 DEF Inv, TextInv
    <3> QED BY <3>1, <3>2
  <2> QED BY <1>1, <2>1, <2>2, TextMoves DEF Inv
<1>16. NoteInv'
  <2>1. {Name(k), Ip(k)} \in SUBSET Slots
    BY <1>5
  <2> QED BY <1>1, <1>10, <2>1, Noted DEF Inv
<1> QED BY <1>14, <1>15, <1>16 DEF Inv

(* The map is left, and what was remembered of its entries is written.      *)
LEMMA InvLeaveMap ==
  ASSUME Inv, LeaveMap
  PROVE  Inv'
<1>1. /\ given' = given /\ inlined' = inlined /\ res' = res /\ errs' = errs /\ defer' = defer
      /\ todo = {} /\ Station \in {"tags", "nodes"} /\ doc' = WriteBack /\ Advance
  BY DEF LeaveMap
<1>2. inlined \in BOOLEAN /\ at \in 1..End /\ doc = [t \in Slots |-> doc[t]]
  BY DEF Inv, WalkInv
<1>3. at \in {1, 3} \/ (at = 5 /\ inlined)
  BY <1>1, <1>2, StationIs DEF InNodes
<1>4. at' = at + 1 /\ pending' = <<>> /\ todo' = {}
  BY <1>1, <1>2, <1>3, StationIs
<1>5. DOMAIN pending' = {}
  <2>1. DOMAIN <<>> = {}
    OBVIOUS
  <2> QED BY <1>4, <2>1
<1>6. DOMAIN pending = IF at = 1 THEN {Tag} ELSE {Name(k) : k \in Keys}
  BY <1>1, <1>3 DEF Inv, WalkInv, InNodes
<1>7. /\ doc' = [s \in Slots |-> doc'[s]]
      /\ \A s \in Slots : doc'[s] = IF s \in DOMAIN pending THEN pending[s] ELSE doc[s]
  BY <1>1 DEF WriteBack
<1>8. \A s \in Slots : Settled(s)' <=> Place(s) < at + 1
  BY <1>3, <1>4 DEF Settled
<1>9. \A s \in Slots : s \in DOMAIN pending => Settled(s)' /\ (~Settled(s) \/ inlined)
  <2>1. CASE at = 1
    BY <1>6, <1>8, <2>1, SlotsAre DEF Settled
  <2>2. CASE at = 3
    <3>1. \A k \in Keys : Place(Name(k)) = 3 /\ \A j \in Keys : Name(k) # Ip(j)
      BY SlotsAre
    <3> QED BY <1>6, <1>8, <2>2, <3>1 DEF Settled
  <2>3. CASE at = 5 /\ inlined
    <3>1. \A k \in Keys : Place(Name(k)) = 3
      BY SlotsAre
    <3> QED BY <1>6, <1>8, <2>3, <3>1
  <2> QED BY <1>3, <2>1, <2>2, <2>3
<1>10. \A s \in Slots : s \notin DOMAIN pending => (Settled(s)' <=> Settled(s))
  <2>1. CASE at = 1
    BY <1>6, <1>8, <2>1, SlotsAre DEF Settled
  <2>2. CASE at = 3
    <3>1. \A s \in Slots : Place(s) = 3 => \E k \in Keys : s = Name(k) \/ s = Ip(k)
      BY SlotsAre
    <3>2. \A k \in Keys : Place(Ip(k)) = 3
      BY SlotsAre
    <3>3. \A s \in Slots : Place(s) < 4 <=> Place(s) < 3 \/ Place(s) = 3
      BY SlotsAre
    <3> QED BY <1>1, <1>6, <1>8, <2>2, <3>1, <3>2, <3>3 DEF Settled
  <2>3. CASE at = 5
    BY <1>8, <2>3, SlotsAre DEF Settled
  <2> QED BY <1>3, <2>1, <2>2, <2>3
<1>11. \A s \in Slots : Visited(s)' <=> Visited(s)
  <2>1. \A s \in Slots : Visited(s) <=> Settled(s) \/ s \in DOMAIN pending
    <3>1. CASE at = 1 \/ at = 3
      BY <1>1, <1>6, <3>1 DEF Visited
    <3>2. CASE at = 5
      BY <3>2, SlotsAre DEF Visited, Settled
    <3> QED BY <1>3, <3>1, <3>2
  <2>2. \A s \in Slots : Visited(s)' <=> Settled(s)'
    <3>1. CASE at = 1 \/ at = 5
      BY <1>4, <3>1 DEF Visited
    <3>2. CASE at = 3
      BY <1>4, <3>2 DEF Visited
    <3> QED BY <1>3, <3>1, <3>2
  <2>3. \A s \in Slots : Settled(s) /\ s \in DOMAIN pending => Settled(s)'
    BY <1>9
  <2> QED BY <1>9, <1>10, <2>1, <2>2
<1>12. WalkInv'
  <2>1. at # End /\ at' \in 1..End /\ at' # 1 /\ at' # 3 /\ at' # 5
    BY <1>3, <1>4 DEF End
  <2> QED BY <1>1, <1>4, <1>5, <1>7, <2>1, WalkMoves DEF Inv
<1>13. TextInv'
  <2>1. ASSUME NEW t \in Slots
        PROVE  \/ doc'[t] = doc[t] /\ (Settled(t)' <=> Settled(t))
               \/ /\ Settled(t)' /\ (~Settled(t) \/ inlined)
                  /\ Aims(t, doc'[t]) /\ OldOrNew(t, doc'[t])
    <3>1. CASE t \in DOMAIN pending
      <4>1. Aims(t, pending[t]) /\ OldOrNew(t, pending[t])
        BY <3>1 DEF Inv, TextInv
      <4> QED BY <1>7, <1>9, <3>1, <4>1
    <3>2. CASE t \notin DOMAIN pending
      BY <1>7, <1>10, <3>2
    <3> QED BY <3>1, <3>2
  <2> QED BY <1>1, <1>5, <2>1, TextMoves DEF Inv
<1>14. NoteInv'
  BY <1>1, <1>11, NothingNoted
<1> QED BY <1>12, <1>13, <1>14 DEF Inv

LEMMA NothingMoves ==
  ASSUME Inv, UNCHANGED <<doc, at, todo, pending, errs, defer, given, inlined>>, WalkInv'
  PROVE  Inv'
<1>1. \A s : (Settled(s)' <=> Settled(s)) /\ (Visited(s)' <=> Visited(s))
  BY DEF Settled, Visited
<1>2. TextInv'
  BY <1>1, TextMoves DEF Inv, TextInv
<1> QED BY <1>1, <1>2, NothingNoted DEF Inv

LEMMA InvFinish ==
  ASSUME Inv, Finish
  PROVE  Inv'
<1>1. /\ UNCHANGED <<doc, at, todo, pending, errs, defer, given, inlined>> /\ Station = "end"
      /\ res' = IF errs # {} THEN "err" ELSE "ok"
  BY DEF Finish
<1>2. at = End
  BY <1>1, StationIs DEF Inv, WalkInv
<1>3. WalkInv'
  BY <1>1, <1>2 DEF Inv, WalkInv, End, InNodes
<1> QED BY <1>1, <1>3, NothingMoves

(* The walk inductively: the texts and the notes of the slots it has        *)
(* passed, in whatever order it passes the entries of a map.                *)
THEOREM WalkInductive == Spec => []Inv
<1>1. Init => Inv
  <2> SUFFICES ASSUME Init PROVE Inv
    OBVIOUS
  <2>1. /\ doc = given /\ inlined \in BOOLEAN /\ at = 1 /\ todo = {"t"} /\ pending = <<>>
        /\ errs = {} /\ defer = {} /\ res = "none"
    BY DEF Init
  <2>2. given = [s \in Slots |-> given[s]] /\ \A s \in Slots : given[s] \in AsWritten
    <3>1. PICK S \in SUBSET Slots : \E f \in [S -> Tokens] :
            given = [s \in Slots |-> IF s \in S THEN f[s] ELSE Plain("literal")]
      BY DEF Init
    <3>2. PICK f \in [S -> Tokens] :
            given = [s \in Slots |-> IF s \in S THEN f[s] ELSE Plain("literal")]
      BY <3>1
    <3> QED BY <3>2 DEF AsWritten
  <2>3. DOMAIN pending = {}
    <3>1. DOMAIN <<>> = {}
      OBVIOUS
    <3> QED BY <2>1, <3>1
  <2>4. \A s \in Slots : ~Settled(s) /\ ~Visited(s)
    BY <2>1, SlotsAre DEF Settled, Visited
  <2>5. WalkInv
    BY <2>1, <2>2, <2>3 DEF WalkInv, End
  <2>6. TextInv
    BY <2>1, <2>3, <2>4 DEF TextInv
  <2>7. NoteInv
    BY <2>1, <2>4 DEF NoteInv
  <2> QED BY <2>5, <2>6, <2>7 DEF Inv
<1>2. Inv /\ [Next]_vars => Inv'
  <2> SUFFICES ASSUME Inv, [Next]_vars PROVE Inv'
    OBVIOUS
  <2>1. CASE VisitTag
    BY <2>1, InvVisitTag
  <2>2. CASE Leaf("description", Desc)
    BY <2>2, InvLeaf, SlotsAre
  <2>3. CASE Leaf("timezone", Timezone)
    BY <2>3, InvLeaf, SlotsAre
  <2>4. ASSUME NEW k \in Keys, VisitNode(k) PROVE Inv'
    BY <2>4, InvVisitNode
  <2>5. CASE LeaveMap
    BY <2>5, InvLeaveMap
  <2>6. CASE Finish
    BY <2>6, InvFinish
  <2>7. CASE Stop \/ UNCHANGED vars
    <3>1. UNCHANGED vars
      BY <2>7 DEF Stop
    <3>2. WalkInv'
      BY <3>1 DEF vars, Inv, WalkInv, End, InNodes
    <3> QED BY <3>1, <3>2, NothingMoves DEF vars
  <2> QED BY <2>1, <2>2, <2>3, <2>4, <2>5, <2>6, <2>7 DEF Next
<1> QED BY <1>1, <1>2, PTL DEF Spec

(* At the end every slot has been settled. *)
LEMMA AtTheEnd ==
  ASSUME Inv, res # "none"
  PROVE  \A s \in Slots : Settled(s) /\ Visited(s)
<1>1. at >= 5
  BY DEF Inv, WalkInv, End
<1>2. at \in Nat
  BY DEF Inv, WalkInv, End
<1> QED BY <1>1, <1>2, SlotsAre DEF Settled, Visited

(* A manifest whose references all go backward is expanded to what it       *)
(* means, in whatever order the maps are visited and however often the walk *)
(* passes a layer, and Load fails exactly when some token has no value      *)
(* (resolver.go:43-158, 247-328).                                           *)
THEOREM BackwardExact == Spec => []BackwardIsExact
<1>1. Inv => BackwardIsExact
  <2> SUFFICES ASSUME Inv, res # "none", Backward(given)
               PROVE  /\ doc = Meaning(given)
                      /\ res = "err" <=> \E s \in Slots : Fails(given[s])
    BY DEF BackwardIsExact
  <2>1. \A s \in Slots : doc[s] = Meaning(given)[s]
    BY AtTheEnd DEF Inv, TextInv, Aims
  <2>2. PICK d : d = given
    OBVIOUS
  <2>3. Meaning(d) = [s \in Slots |-> Meaning(d)[s]]
    <3>1. Meaning(d) = [s \in Slots |-> Body(d, Meaning(d), s)]
      BY <2>2, MeaningIsFunction
    <3> QED BY <3>1
  <2>4. doc = [s \in Slots |-> doc[s]]
    BY DEF Inv, WalkInv
  <2>5. res = "err" <=> errs # {}
    BY DEF Inv, WalkInv
  <2>6. \A s \in Slots : Fails(given[s]) => s \in errs
    BY AtTheEnd DEF Inv, NoteInv
  <2>7. errs # {} => \E s \in Slots : Fails(given[s])
    BY DEF Inv, NoteInv
  <2> QED BY <2>1, <2>2, <2>3, <2>4, <2>5, <2>6, <2>7
<1> QED BY <1>1, WalkInductive, PTL

(* With references in any direction, every token that is no reference is    *)
(* still expanded to its own value, and none is lost from what is left to   *)
(* runtime (resolver.go:109-119).                                           *)
THEOREM OwnExact == Spec => []OwnTokensExact
<1>1. Inv => OwnTokensExact
  <2> SUFFICES ASSUME Inv, res # "none", NEW s \in Slots, given[s].kind # "ref"
               PROVE  /\ doc[s] = Meaning([r \in Slots |-> IF r = s THEN given[r] ELSE Plain("other")])[s]
                      /\ Deferred(given[s]) <=> s \in defer
    BY DEF OwnTokensExact
  <2>1. PICK d : d = [r \in Slots |-> IF r = s THEN given[r] ELSE Plain("other")]
    OBVIOUS
  <2>2. \A r \in Slots : d[r].kind # "ref"
    <3>1. Plain("other").kind # "ref"
      BY PlainIs
    <3> QED BY <2>1, <3>1
  <2>3. Meaning(d)[s] = Own(given[s])
    BY <2>1, <2>2, OwnIsMeant
  <2>4. doc[s] = Own(given[s])
    BY AtTheEnd DEF Inv, TextInv, Aims
  <2>5. Deferred(given[s]) <=> s \in defer
    BY AtTheEnd DEF Inv, NoteInv
  <2> QED BY <2>1, <2>3, <2>4, <2>5
<1> QED BY <1>1, WalkInductive, PTL

(* Where the walk passes once, a reference has the text its target was      *)
(* written with or the one it ends with (resolver.go:185-226, 264-282).     *)
THEOREM RefOldOrNew == Spec => []RefIsOldOrNew
<1>1. Inv => RefIsOldOrNew
  <2> SUFFICES ASSUME Inv, res = "ok", ~inlined, NEW s \in Slots, given[s].kind = "ref",
                      NEW t, t = given[s].spec
               PROVE  doc[s] \in {Filter(given[s], given[t]), Filter(given[s], doc[t])}
    BY DEF RefIsOldOrNew
  <2>1. errs = {}
    BY DEF Inv, WalkInv
  <2>2. Visited(s) /\ Settled(s)
    BY AtTheEnd
  <2>3. ~Fails(given[s])
    BY <2>1, <2>2 DEF Inv, NoteInv
  <2>4. ~IsPlain(given[s])
    BY AsWrittenIs DEF Inv, WalkInv
  <2>5. t \in Slots
    BY <2>3, <2>4, FailsIs
  <2>6. OldOrNew(s, doc[s])
    BY <2>2 DEF Inv, TextInv
  <2> QED BY <2>5, <2>6 DEF OldOrNew
<1> QED BY <1>1, WalkInductive, PTL

(* The walk stands at a station, and what it remembers are entries of the   *)
(* map it is in (resolver.go:247-282).                                      *)
THEOREM WalkTypeCorrect == Spec => []TypeOK
<1>1. Inv => TypeOK
  <2> SUFFICES ASSUME Inv PROVE TypeOK
    OBVIOUS
  <2>1. /\ doc = [s \in Slots |-> doc[s]] /\ DOMAIN given = Slots /\ inlined \in BOOLEAN
        /\ at \in 1..End /\ res \in {"none", "ok", "err"}
        /\ errs \subseteq Slots /\ defer \subseteq Slots
    BY DEF Inv, WalkInv, NoteInv
  <2>2. at \in 1..(Len(Walk) + 1)
    BY <2>1, WalkIs DEF End
  <2>3. todo \subseteq Keys \cup {"t"}
    BY DEF Inv, WalkInv
  <2>4. DOMAIN pending \subseteq CASE Station = "tags"  -> {Tag}
                                   [] Station = "nodes" -> {Name(k) : k \in Keys \ todo}
                                   [] OTHER             -> {}
    <3>1. CASE at = 1
      <4>1. Station = "tags" /\ DOMAIN pending \subseteq {Tag}
        BY <2>1, <3>1, StationIs DEF Inv, WalkInv
      <4> QED BY <4>1
    <3>2. CASE InNodes
      <4>1. Station = "nodes" /\ DOMAIN pending = {Name(k) : k \in Keys \ todo}
        BY <2>1, <3>2, StationIs DEF Inv, WalkInv, InNodes
      <4> QED BY <4>1
    <3>3. CASE at # 1 /\ ~InNodes
      <4>1. DOMAIN pending = {}
        BY <3>3 DEF Inv, WalkInv
      <4> QED BY <4>1
    <3> QED BY <3>1, <3>2, <3>3
  <2> QED BY <2>1, <2>2, <2>3, <2>4 DEF TypeOK
<1> QED BY <1>1, WalkInductive, PTL
=============================================================================
