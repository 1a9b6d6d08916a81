--------------------------- MODULE TraceLogProofs ---------------------------
(***************************************************************************)
(* The hash-chained log, for any number of records and of faults: what a   *)
(* Sync made durable stays readable, a loss is never silent, and a log     *)
(* without faults loads.                                                   *)
(***************************************************************************)
EXTENDS TraceLog, WellFoundedInduction, SequenceTheorems, TLAPS

(* Natural numbers: a set of them has a least one, a bounded one a greatest.*)
LEMMA Least ==
  ASSUME NEW T \in SUBSET Nat, T # {}
  PROVE  \E x \in T : \A y \in T : x <= y
<1> DEFINE R == OpToRel(<, Nat)
<1>1. \A x, y \in Nat : x < y => <<x, y>> \in R
  BY DEF OpToRel
<1>2. IsWellFoundedOn(R, Nat)
  BY NatLessThanWellFounded
<1> HIDE DEF R
<1>3. PICK x \in T : \A y \in T : ~(<<y, x>> \in R)
  BY <1>2, WFMin
<1>4. ASSUME NEW y \in T PROVE x <= y
  <2>1. x \in Nat /\ y \in Nat
    OBVIOUS
  <2>2. ~(y < x)
    BY <1>1, <1>3, <2>1
  <2> QED BY <2>1, <2>2
<1> QED BY <1>4

LEMMA Greatest ==
  ASSUME NEW n \in Nat, NEW S \in SUBSET (0..n), S # {}
  PROVE  Max(S) \in S /\ \A y \in S : y <= Max(S)
<1> DEFINE T == {k \in Nat : n - k \in S}
<1>1. PICK s \in S : TRUE
  OBVIOUS
<1>2. n - s \in T
  BY <1>1
<1> HIDE DEF T
<1>3. T \in SUBSET Nat /\ T # {}
  BY <1>2 DEF T
<1>4. PICK x \in T : \A y \in T : x <= y
  BY <1>3, Least
<1>5. n - x \in S /\ x \in Nat
  BY <1>4 DEF T
<1>6. ASSUME NEW y \in S PROVE y <= n - x
  <2>1. y \in Nat /\ n - y \in Nat /\ n - (n - y) = y
    OBVIOUS
  <2>2. n - y \in T
    BY <2>1 DEF T
  <2>3. x <= n - y
    BY <1>4, <2>2
  <2> QED BY <1>5, <2>1, <2>3
<1>7. \E m \in S : \A y \in S : m >= y
  <2>1. \A y \in S : n - x >= y
    BY <1>5, <1>6
  <2> QED BY <1>5, <2>1
<1>8. Max(S) \in S /\ \A y \in S : Max(S) >= y
  BY <1>7 DEF Max
<1>9. PICK m \in S : m = Max(S)
  BY <1>8
<1>10. ASSUME NEW y \in S PROVE y <= m
  <2>1. y \in Nat /\ m \in Nat
    OBVIOUS
  <2> QED BY <1>8, <1>9, <2>1
<1> QED BY <1>9, <1>10
-----------------------------------------------------------------------------
(* One sequence behind another. *)
LEMMA Joined ==
  ASSUME NEW S, NEW f \in Seq(S), NEW g \in Seq(S)
  PROVE  /\ f \o g \in Seq(S) /\ Len(f \o g) = Len(f) + Len(g)
         /\ \A j \in 1..Len(f) : (f \o g)[j] = f[j]
         /\ \A j \in 1..Len(g) : (f \o g)[Len(f) + j] = g[j]
<1> DEFINE h == f \o g
<1>1. /\ h \in Seq(S) /\ Len(h) = Len(f) + Len(g)
      /\ \A j \in 1..Len(f) + Len(g) : h[j] = IF j <= Len(f) THEN f[j] ELSE g[j - Len(f)]
  BY ConcatProperties
<1> HIDE DEF h
<1>2. Len(f) \in Nat /\ Len(g) \in Nat
  BY LenProperties
<1>3. ASSUME NEW j \in 1..Len(f) PROVE h[j] = f[j]
  <2>1. j \in 1..Len(f) + Len(g) /\ j <= Len(f)
    BY <1>2
  <2> QED BY <1>1, <2>1
<1>4. ASSUME NEW j \in 1..Len(g) PROVE h[Len(f) + j] = g[j]
  <2>1. Len(f) + j \in 1..Len(f) + Len(g) /\ ~(Len(f) + j <= Len(f)) /\ Len(f) + j - Len(f) = j
    BY <1>2
  <2> QED BY <1>1, <2>1
<1> QED BY <1>1, <1>3, <1>4 DEF h

(* The beginning of a sequence. *)
LEMMA Prefix ==
  ASSUME NEW S, NEW f \in Seq(S), NEW k \in 0..Len(f)
  PROVE  /\ SubSeq(f, 1, k) \in Seq(S) /\ Len(SubSeq(f, 1, k)) = k
         /\ \A j \in 1..k : SubSeq(f, 1, k)[j] = f[j]
OBVIOUS

(* A piece out of the middle of a sequence. *)
LEMMA Middle ==
  ASSUME NEW S, NEW f \in Seq(S), NEW k \in 0..Len(f), NEW m \in 0..k
  PROVE  /\ SubSeq(f, m + 1, k) \in Seq(S) /\ Len(SubSeq(f, m + 1, k)) = k - m
         /\ \A l \in 1..(k - m) : SubSeq(f, m + 1, k)[l] = f[m + l]
OBVIOUS

(* Three elements. *)
LEMMA Triple ==
  ASSUME NEW S, NEW a \in S, NEW b \in S, NEW c \in S
  PROVE  <<a, b, c>> \in Seq(S) /\ Len(<<a, b, c>>) = 3
OBVIOUS

(* The pieces of a file. *)
Piece == [id : Nat, part : {"A", "B", "nl"}]
P(r, part) == [id |-> r, part |-> part]

LEMMA PartIs == \A r, part : P(r, part).id = r /\ P(r, part).part = part
BY DEF P

LEMMA JoinedPieces ==
  \A f, g \in Seq(Piece) :
    /\ f \o g \in Seq(Piece) /\ Len(f \o g) = Len(f) + Len(g)
    /\ \A j \in 1..Len(f) : (f \o g)[j] = f[j]
    /\ \A j \in 1..Len(g) : (f \o g)[Len(f) + j] = g[j]
<1> TAKE f, g \in Seq(Piece)
<1>1. f \o g \in Seq(Piece) /\ Len(f \o g) = Len(f) + Len(g)
  BY Joined
<1>2. \A j \in 1..Len(f) : (f \o g)[j] = f[j]
  BY Joined
<1>3. \A j \in 1..Len(g) : (f \o g)[Len(f) + j] = g[j]
  BY Joined
<1> QED BY <1>1, <1>2, <1>3

(* A file is written front to back: every piece comes right after the one   *)
(* before it in its record, no piece comes twice, records come in order.    *)
Stream(f) ==
  /\ f \in Seq(Piece)
  /\ \A j \in 1..Len(f) :
       /\ f[j].part = "B" => j > 1 /\ f[j - 1] = P(f[j].id, "A")
       /\ f[j].part = "nl" => j > 1 /\ f[j - 1] = P(f[j].id, "B")
  /\ \A j, k \in 1..Len(f) : j < k => f[j] # f[k] /\ f[j].id <= f[k].id

(* The records it speaks of are among the first n. *)
Within(f, n) == \A j \in 1..Len(f) : f[j].id \in 1..n

(* What is cut off at some place is still one. *)
LEMMA StreamCut ==
  ASSUME NEW f, Stream(f), NEW n \in Nat, Within(f, n), NEW k \in 0..Len(f)
  PROVE  Stream(SubSeq(f, 1, k)) /\ Within(SubSeq(f, 1, k), n)
<1> DEFINE g == SubSeq(f, 1, k)
<1>1. g \in Seq(Piece) /\ Len(g) = k /\ \A j \in 1..k : g[j] = f[j]
  BY DEF Stream
<1> HIDE DEF g
<1>2. Len(f) \in Nat /\ k \in Nat /\ \A j \in 1..k : j \in 1..Len(f) /\ (j > 1 => j - 1 \in 1..k)
  BY DEF Stream
<1>3. ASSUME NEW j \in 1..k
      PROVE  /\ g[j].part = "B" => j > 1 /\ g[j - 1] = P(g[j].id, "A")
             /\ g[j].part = "nl" => j > 1 /\ g[j - 1] = P(g[j].id, "B")
  BY <1>1, <1>2 DEF Stream
<1>4. ASSUME NEW j \in 1..k, NEW l \in 1..k, j < l PROVE g[j] # g[l] /\ g[j].id <= g[l].id
  <2>1. j \in 1..Len(f) /\ l \in 1..Len(f) /\ g[j] = f[j] /\ g[l] = f[l]
    BY <1>1, <1>2
  <2> QED BY <1>4, <2>1 DEF Stream
<1>5. Within(g, n)
  BY <1>1, <1>2 DEF Within
<1>6. Stream(g)
  BY <1>1, <1>3, <1>4 DEF Stream
<1> QED BY <1>5, <1>6 DEF g

(* So is one with the three pieces of the next record. *)
LEMMA StreamGrows ==
  ASSUME NEW f, Stream(f), NEW n \in Nat, Within(f, n)
  PROVE  Stream(f \o Pieces(n + 1)) /\ Within(f \o Pieces(n + 1), n + 1)
<1> DEFINE m == Len(f)
           g == f \o Pieces(n + 1)
<1>1. Pieces(n + 1) = <<P(n + 1, "A"), P(n + 1, "B"), P(n + 1, "nl")>>
  BY DEF Pieces, P
<1>2. P(n + 1, "A") \in Piece /\ P(n + 1, "B") \in Piece /\ P(n + 1, "nl") \in Piece
  BY DEF P, Piece
<1>3. Pieces(n + 1) \in Seq(Piece) /\ Len(Pieces(n + 1)) = 3
  BY <1>1, <1>2, Triple
<1>4. /\ m \in Nat /\ g \in Seq(Piece) /\ Len(g) = m + 3
      /\ \A j \in 1..m : g[j] = f[j]
      /\ g[m + 1] = P(n + 1, "A") /\ g[m + 2] = P(n + 1, "B") /\ g[m + 3] = P(n + 1, "nl")
  <2>1. f \in Seq(Piece)
    BY DEF Stream
  <2> DEFINE q == Pieces(n + 1)
  <2>2. /\ q \in Seq(Piece) /\ Len(q) = 3
        /\ q[1] = P(n + 1, "A") /\ q[2] = P(n + 1, "B") /\ q[3] = P(n + 1, "nl")
    BY <1>1, <1>3
  <2> HIDE DEF q
  <2>3. /\ f \o q \in Seq(Piece) /\ Len(f \o q) = Len(f) + 3
        /\ \A j \in 1..Len(f) : (f \o q)[j] = f[j]
        /\ (f \o q)[Len(f) + 1] = q[1] /\ (f \o q)[Len(f) + 2] = q[2] /\ (f \o q)[Len(f) + 3] = q[3]
    <3>1. 1 \in 1..Len(q) /\ 2 \in 1..Len(q) /\ 3 \in 1..Len(q)
      BY <2>2
    <3>2. /\ f \o q \in Seq(Piece) /\ Len(f \o q) = Len(f) + Len(q)
          /\ \A j \in 1..Len(f) : (f \o q)[j] = f[j]
          /\ \A j \in 1..Len(q) : (f \o q)[Len(f) + j] = q[j]
      BY <2>1, <2>2, JoinedPieces
    <3> QED BY <2>2, <3>1, <3>2
  <2> QED BY <2>1, <2>2, <2>3 DEF q
<1>5. \A j \in 1..m : f[j] \in Piece /\ f[j].id <= n
  <2> TAKE j \in 1..m
  <2>1. f \in Seq(Piece) /\ f[j].id \in 1..n
    BY DEF Stream, Within
  <2> QED BY <2>1
<1> HIDE DEF m, g
<1>6. \A j \in 1..Len(g) : j \in 1..m \/ j = m + 1 \/ j = m + 2 \/ j = m + 3
  BY <1>4
<1>11. ASSUME NEW j \in 1..Len(g), j \notin 1..m
       PROVE  /\ g[j].id = n + 1
              /\ \/ j = m + 1 /\ g[j] = P(n + 1, "A") /\ g[j].part = "A"
                 \/ j = m + 2 /\ g[j] = P(n + 1, "B") /\ g[j].part = "B" /\ g[j - 1] = P(n + 1, "A")
                 \/ j = m + 3 /\ g[j] = P(n + 1, "nl") /\ g[j].part = "nl" /\ g[j - 1] = P(n + 1, "B")
  <2>1. \A part : P(n + 1, part).id = n + 1 /\ P(n + 1, part).part = part
    BY DEF P
  <2>2. CASE j = m + 1
    BY <1>4, <2>1, <2>2
  <2>3. CASE j = m + 2
    <3>1. j - 1 = m + 1
      BY <1>4, <2>3
    <3> QED BY <1>4, <2>1, <2>3, <3>1
  <2>4. CASE j = m + 3
    <3>1. j - 1 = m + 2
      BY <1>4, <2>4
    <3> QED BY <1>4, <2>1, <2>4, <3>1
  <2> QED BY <1>6, <1>11, <2>2, <2>3, <2>4
<1>7. Within(g, n + 1)
  <2> SUFFICES ASSUME NEW j \in 1..Len(g) PROVE g[j].id \in 1..(n + 1)
    BY DEF Within
  <2>1. CASE j \in 1..m
    <3>1. f[j].id \in 1..n
      BY <2>1 DEF Within, m
    <3>2. g[j] = f[j]
      BY <1>4, <2>1
    <3> QED BY <3>1, <3>2
  <2>2. CASE j \notin 1..m
    <3>1. g[j].id = n + 1
      BY <1>11, <2>2
    <3> QED BY <3>1
  <2> QED BY <2>1, <2>2
<1>8. ASSUME NEW j \in 1..Len(g)
      PROVE  /\ g[j].part = "B" => j > 1 /\ g[j - 1] = P(g[j].id, "A")
             /\ g[j].part = "nl" => j > 1 /\ g[j - 1] = P(g[j].id, "B")
  <2>1. CASE j \in 1..m
    <3>1. j > 1 => j - 1 \in 1..m
      BY <1>4, <2>1
    <3> QED BY <1>4, <2>1, <3>1 DEF Stream, m
  <2>2. CASE j \notin 1..m
    <3>1. j = m + 2 \/ j = m + 3 => j > 1
      BY <1>4
    <3> QED BY <1>11, <2>2, <3>1
  <2> QED BY <2>1, <2>2
<1>9. ASSUME NEW j \in 1..Len(g), NEW k \in 1..Len(g), j < k
      PROVE  g[j] # g[k] /\ g[j].id <= g[k].id
  <2>1. CASE k \in 1..m
    <3>1. j \in 1..m
      BY <1>4, <2>1, <1>9
    <3> QED BY <1>4, <1>9, <2>1, <3>1 DEF Stream, m
  <2>2. CASE k \notin 1..m /\ j \in 1..m
    <3>1. g[k].id = n + 1
      BY <1>11, <2>2
    <3>2. g[j].id <= n /\ g[j].id \in Nat
      BY <1>4, <1>5, <2>2 DEF Piece
    <3> QED BY <3>1, <3>2
  <2>3. CASE k \notin 1..m /\ j \notin 1..m
    <3>1. g[j].id = n + 1 /\ g[k].id = n + 1 /\ j # k /\ j \in Nat /\ k \in Nat
      BY <1>9, <1>11, <2>3
    <3>2. g[j].part # g[k].part
      BY <1>4, <1>11, <2>3, <3>1
    <3>3. g[j] # g[k]
      BY <3>2
    <3> QED BY <3>1, <3>3
  <2> QED BY <2>1, <2>2, <2>3
<1>10. Stream(g)
  BY <1>4, <1>8, <1>9 DEF Stream
<1> QED BY <1>7, <1>10 DEF g

(* Flush moves a beginning of what is buffered behind what is in the file.  *)
LEMMA FlushMoves ==
  ASSUME file \in Seq(Piece), NEW b \in Seq(Piece), NEW k \in 0..Len(b), Flush(b, k)
  PROVE  /\ file' \in Seq(Piece) /\ buf' \in Seq(Piece)
         /\ file' \o buf' = file \o b
         /\ file' = SubSeq(file \o b, 1, Len(file) + k)
         /\ Len(file') = Len(file) + k /\ Len(buf') = Len(b) - k
         /\ \A j \in 1..Len(file) : file'[j] = file[j]
<1> DEFINE c == SubSeq(b, 1, k)
           d == SubSeq(b, k + 1, Len(b))
<1>1. /\ c \in Seq(Piece) /\ Len(c) = k /\ \A j \in 1..k : c[j] = b[j]
      /\ d \in Seq(Piece) /\ Len(d) = Len(b) - k /\ \A j \in 1..(Len(b) - k) : d[j] = b[k + j]
  OBVIOUS
<1>2. file' = file \o c /\ buf' = d
  BY DEF Flush
<1> HIDE DEF c, d
<1>3. /\ file' \in Seq(Piece) /\ Len(file') = Len(file) + k
      /\ \A j \in 1..Len(file) : file'[j] = file[j]
      /\ \A j \in 1..k : file'[Len(file) + j] = b[j]
  BY <1>1, <1>2
<1> DEFINE g == file \o b
<1>4. /\ g \in Seq(Piece) /\ Len(g) = Len(file) + Len(b)
      /\ \A j \in 1..Len(file) : g[j] = file[j]
      /\ \A j \in 1..Len(b) : g[Len(file) + j] = b[j]
  OBVIOUS
<1> HIDE DEF g
<1>5. \A j \in 1..(Len(file) + k) : file'[j] = g[j]
  <2> TAKE j \in 1..(Len(file) + k)
  <2>1. CASE j \in 1..Len(file)
    BY <1>3, <1>4, <2>1
  <2>2. CASE j \notin 1..Len(file)
    <3>1. PICK i \in 1..k : j = Len(file) + i
      <4>1. j - Len(file) \in 1..k /\ j = Len(file) + (j - Len(file))
        BY <2>2
      <4> QED BY <4>1
    <3>2. i \in 1..Len(b)
      BY <3>1
    <3> QED BY <1>3, <1>4, <3>1, <3>2
  <2> QED BY <2>1, <2>2
<1>6. file' = SubSeq(g, 1, Len(file) + k)
  <2> DEFINE h == SubSeq(g, 1, Len(file) + k)
  <2>1. h \in Seq(Piece) /\ Len(h) = Len(file) + k /\ \A j \in 1..(Len(file) + k) : h[j] = g[j]
    BY <1>4
  <2> HIDE DEF h
  <2>2. file' = h
    BY <1>3, <1>5, <2>1, SeqEqual
  <2> QED BY <2>2 DEF h
<1>7. file' \o buf' = g
  <2> DEFINE h == file' \o buf'
  <2>1. /\ h \in Seq(Piece) /\ Len(h) = Len(file) + Len(b)
        /\ \A j \in 1..(Len(file) + k) : h[j] = file'[j]
        /\ \A j \in 1..(Len(b) - k) : h[Len(file) + k + j] = b[k + j]
    <3>1. /\ file' \in Seq(Piece) /\ Len(file') = Len(file) + k
          /\ d \in Seq(Piece) /\ Len(d) = Len(b) - k /\ h = file' \o d
      BY <1>1, <1>2, <1>3
    <3>2. /\ h \in Seq(Piece) /\ Len(h) = Len(file') + Len(d)
          /\ \A j \in 1..Len(file') : h[j] = file'[j]
          /\ \A j \in 1..Len(d) : h[Len(file') + j] = d[j]
      <4>1. /\ file' \o d \in Seq(Piece) /\ Len(file' \o d) = Len(file') + Len(d)
            /\ \A j \in 1..Len(file') : (file' \o d)[j] = file'[j]
            /\ \A j \in 1..Len(d) : (file' \o d)[Len(file') + j] = d[j]
        BY <3>1, JoinedPieces
      <4> QED BY <3>1, <4>1
    <3>3. \A j \in 1..(Len(file) + k) : j \in 1..Len(file')
      BY <3>1
    <3>4. ASSUME NEW j \in 1..(Len(b) - k) PROVE h[Len(file) + k + j] = b[k + j]
      <4>1. j \in 1..Len(d) /\ d[j] = b[k + j]
        BY <1>1
      <4> QED BY <3>1, <3>2, <4>1
    <3>5. Len(h) = Len(file) + Len(b)
      <4>1. Len(file) \in Nat /\ Len(b) \in Nat
        OBVIOUS
      <4> HIDE DEF h
      <4> QED BY <3>1, <3>2, <4>1
    <3>6. \A j \in 1..(Len(file) + k) : h[j] = file'[j]
      BY <3>2, <3>3
    <3> QED BY <3>2, <3>4, <3>5, <3>6
  <2> HIDE DEF h
  <2>2. ASSUME NEW j \in 1..Len(g) PROVE h[j] = g[j]
    <3>1. CASE j \in 1..(Len(file) + k)
      BY <1>5, <2>1, <3>1
    <3>2. CASE j \notin 1..(Len(file) + k)
      <4>1. PICK i \in 1..(Len(b) - k) : j = Len(file) + k + i
        <5>1. j - (Len(file) + k) \in 1..(Len(b) - k) /\ j = Len(file) + k + (j - (Len(file) + k))
          BY <1>4, <3>2
        <5> QED BY <5>1
      <4>2. k + i \in 1..Len(b) /\ j = Len(file) + (k + i)
        BY <4>1
      <4>3. g[j] = b[k + i]
        BY <1>4, <4>2
      <4> QED BY <2>1, <4>1, <4>3
    <3> QED BY <3>1, <3>2
  <2>3. h = g
    BY <1>4, <2>1, <2>2, SeqEqual
  <2> QED BY <2>3 DEF h
<1> QED BY <1>1, <1>2, <1>3, <1>6, <1>7 DEF g
-----------------------------------------------------------------------------
(* Digests and records. *)
Digests == [id : Nat, text : {"none", "clean", "escape"}]
Entries == [id : Nat, text : {"clean", "unclean"}, prev : Digests, hash : Digests,
            decision : {"denied", "executed"}, schema : {1, 2}, size : {"big", "small"}]

(* Write numbers the records and hashes each over its own text. *)
WrittenInv ==
  /\ written \in Seq(Entries) /\ Len(written) <= MaxRecords
  /\ \A k \in 1..Len(written) : written[k].id = k /\ written[k].hash = Hash(k, written[k].text)

(* The file is a stream, and what is buffered continues it. *)
FileInv ==
  /\ file \in Seq(Piece) /\ buf \in Seq(Piece) /\ writer \in {"closed", "open", "broken"}
  /\ Stream(file) /\ Within(file, Len(written))
  /\ writer = "open" => Stream(file \o buf) /\ Within(file \o buf, Len(written))

(* The line of every acknowledged record ends in the file. *)
AckInv == /\ synced \in 0..Len(file)
          /\ \A r \in acked : \E j \in 1..Len(file) : file[j] = P(r, "nl")

PrevInv == prev \in Digests /\ prev.id <= Len(written)

LogInv == WrittenInv /\ FileInv /\ AckInv /\ PrevInv /\ faults \in 0..MaxFaults

LEMMA RecordIs ==
  ASSUME NEW k \in Nat, NEW kind, NEW p \in Digests
  PROVE  /\ Record(k, kind, p) \in Entries /\ Record(k, kind, p).id = k
         /\ Record(k, kind, p).prev = p
         /\ Record(k, kind, p).hash = Hash(k, Record(k, kind, p).text)
<1> DEFINE text == IF kind = "unclean" THEN "unclean" ELSE "clean"
<1>1. text \in {"clean", "unclean"}
  OBVIOUS
<1>2. Hash(k, text) \in Digests
  BY DEF Hash, Marshal, Digests
<1>3. Record(k, kind, p) =
        [id |-> k, text |-> text, prev |-> p, hash |-> Hash(k, text),
         decision |-> IF kind = "denied" THEN "denied" ELSE "executed",
         schema |-> IF kind = "future" THEN 2 ELSE 1,
         size |-> IF kind = "big" THEN "big" ELSE "small"]
  BY DEF Record
<1> HIDE DEF text
<1> QED BY <1>1, <1>2, <1>3 DEF Entries

LEMMA ReadIs ==
  ASSUME WrittenInv, NEW k \in 1..Len(written)
  PROVE  /\ Read(k).id = k /\ Read(k).schema = written[k].schema
         /\ Read(k).prev = written[k].prev /\ Read(k).hash = written[k].hash
         /\ Read(k).decision = written[k].decision
         /\ Read(k).text = Unmarshal(Marshal(written[k].text))
         /\ written[k] \in Entries
<1>1. written[k] \in Entries /\ written[k].id = k
  BY DEF WrittenInv
<1> QED BY <1>1 DEF Read, Entries

(* The next record goes behind those there are. *)
LEMMA WrittenGrows ==
  ASSUME WrittenInv, PrevInv, Len(written) < MaxRecords, NEW kind,
         written' = Append(written, Record(Len(written) + 1, kind, prev))
  PROVE  /\ WrittenInv' /\ Len(written)' = Len(written) + 1
         /\ \A k \in 1..Len(written) : written'[k] = written[k]
         /\ written'[Len(written) + 1] = Record(Len(written) + 1, kind, prev)
<1> DEFINE n == Len(written)
           r == Record(n + 1, kind, prev)
<1>1. written \in Seq(Entries) /\ n \in Nat
  BY DEF WrittenInv
<1>2. r \in Entries /\ r.id = n + 1 /\ r.hash = Hash(n + 1, r.text)
  BY <1>1, RecordIs DEF PrevInv
<1> HIDE DEF r
<1>3. /\ Append(written, r) \in Seq(Entries) /\ Len(Append(written, r)) = n + 1
      /\ \A k \in 1..n : Append(written, r)[k] = written[k]
      /\ Append(written, r)[n + 1] = r
  BY <1>1, <1>2, AppendProperties
<1>4. written' = Append(written, r)
  BY DEF r
<1>5. ASSUME NEW k \in 1..(n + 1)
      PROVE  written'[k].id = k /\ written'[k].hash = Hash(k, written'[k].text)
  <2>1. CASE k \in 1..n
    BY <1>3, <1>4, <2>1 DEF WrittenInv
  <2>2. CASE k \notin 1..n
    <3>1. k = n + 1
      BY <1>1, <2>2
    <3> QED BY <1>2, <1>3, <1>4, <3>1
  <2> QED BY <2>1, <2>2
<1>6. MaxRecords \in Nat /\ n + 1 <= MaxRecords
  BY <1>1, KindsAssumption
<1>7. Len(written') = n + 1 /\ written' \in Seq(Entries)
  BY <1>3, <1>4
<1> HIDE DEF n
<1>8. WrittenInv'
  BY <1>5, <1>6, <1>7 DEF WrittenInv
<1> QED BY <1>3, <1>4, <1>7, <1>8 DEF n, r
-----------------------------------------------------------------------------
(* What readLastRecord takes for the last line: all behind the last end     *)
(* that is not itself the last piece.                                       *)
LEMMA LastLineIs ==
  ASSUME NEW f \in Seq(Piece)
  PROVE  \E b \in 0..Len(f) : \E from \in 0..b :
           /\ b = IF f # <<>> /\ f[Len(f)].part = "nl" THEN Len(f) - 1 ELSE Len(f)
           /\ from = 0 \/ f[from].part = "nl"
           /\ \A j \in 1..b : f[j].part = "nl" => j <= from
           /\ Len(LastLine(f)) = b - from
           /\ \A k \in 1..(b - from) : LastLine(f)[k] = f[from + k]
<1> DEFINE body == IF f # <<>> /\ Last(f).part = "nl" THEN Front(f) ELSE f
           I == {k \in 1..Len(body) : body[k].part = "nl"}
           from == SelectLastInSeq(body, LAMBDA p : p.part = "nl")
<1>1. from = IF I # {} THEN Max(I) ELSE 0
  BY DEF SelectLastInSeq
<1>2. /\ body \in Seq(Piece) /\ Len(body) \in 0..Len(f) /\ Len(body) \in Nat /\ Len(f) \in Nat
      /\ Len(body) = IF f # <<>> /\ f[Len(f)].part = "nl" THEN Len(f) - 1 ELSE Len(f)
      /\ \A j \in 1..Len(body) : body[j] = f[j]
  <2>1. CASE f # <<>> /\ Last(f).part = "nl"
    <3>1. body = SubSeq(f, 1, Len(f) - 1)
      BY <2>1 DEF Front
    <3>2. Len(f) \in Nat /\ Len(f) > 0 /\ Len(f) - 1 \in 0..Len(f)
      BY <2>1
    <3>3. /\ SubSeq(f, 1, Len(f) - 1) \in Seq(Piece)
          /\ Len(SubSeq(f, 1, Len(f) - 1)) = Len(f) - 1
          /\ \A j \in 1..(Len(f) - 1) : SubSeq(f, 1, Len(f) - 1)[j] = f[j]
      BY <3>2, Prefix
    <3> HIDE DEF body
    <3>4. body \in Seq(Piece) /\ Len(body) = Len(f) - 1
      BY <3>1, <3>3
    <3>5. \A j \in 1..Len(body) : body[j] = f[j]
      BY <3>1, <3>3, <3>4
    <3> QED BY <2>1, <3>2, <3>4, <3>5 DEF Last
  <2>2. CASE ~(f # <<>> /\ Last(f).part = "nl")
    BY <2>2 DEF Last
  <2> QED BY <2>1, <2>2
<1>3. LastLine(f) = SubSeq(body, from + 1, Len(body))
  BY DEF LastLine
<1> HIDE DEF body, from
<1> DEFINE b == Len(body)
<1>4. from \in 0..b /\ (from = 0 \/ body[from].part = "nl") /\ \A y \in I : y <= from
  <2>1. CASE I = {}
    <3>1. from = 0 /\ b \in Nat
      BY <1>1, <1>2, <2>1
    <3> QED BY <2>1, <3>1
  <2>2. CASE I # {}
    <3>1. I \in SUBSET (0..b)
      BY <1>2
    <3>2. Max(I) \in I /\ \A y \in I : y <= Max(I)
      BY <1>2, <2>2, <3>1, Greatest
    <3>3. from = Max(I)
      BY <1>1, <2>2
    <3> QED BY <3>1, <3>2, <3>3
  <2> QED BY <2>1, <2>2
<1>5. /\ Len(LastLine(f)) = b - from
      /\ \A k \in 1..(b - from) : LastLine(f)[k] = body[from + k]
  <2>1. PICK e \in 0..Len(body) : e = b
    BY <1>2
  <2>2. from \in 0..e
    BY <1>4, <2>1
  <2>3. /\ Len(SubSeq(body, from + 1, e)) = e - from
        /\ \A l \in 1..(e - from) : SubSeq(body, from + 1, e)[l] = body[from + l]
    BY <1>2, <2>2, Middle
  <2> QED BY <1>3, <2>1, <2>3
<1>6. \A k \in 1..(b - from) : from + k \in 1..b
  BY <1>2, <1>4
<1>7. \A k \in 1..(b - from) : LastLine(f)[k] = f[from + k]
  BY <1>2, <1>5, <1>6
<1>8. from = 0 \/ f[from].part = "nl"
  <2> SUFFICES ASSUME from # 0 PROVE f[from].part = "nl"
    OBVIOUS
  <2>1. from \in 1..b
    BY <1>2, <1>4
  <2> QED BY <1>2, <1>4, <2>1
<1>9. \A j \in 1..b : f[j].part = "nl" => j <= from
  BY <1>2, <1>4
<1> HIDE DEF I, b
<1>10. b \in 0..Len(f) /\ b = IF f # <<>> /\ f[Len(f)].part = "nl" THEN Len(f) - 1 ELSE Len(f)
  BY <1>2 DEF b
<1> QED BY <1>4, <1>5, <1>7, <1>8, <1>9, <1>10

(* What it parses was in the file. *)
LEMMA LastLineIn ==
  ASSUME NEW f \in Seq(Piece), NEW l \in 1..Len(LastLine(f))
  PROVE  \E j \in 1..Len(f) : LastLine(f)[l] = f[j]
<1>0. PICK b \in 0..Len(f) :
        \E from \in 0..b : /\ Len(LastLine(f)) = b - from
                           /\ \A k \in 1..(b - from) : LastLine(f)[k] = f[from + k]
  BY LastLineIs
<1>1. PICK from \in 0..b : /\ Len(LastLine(f)) = b - from
                           /\ \A k \in 1..(b - from) : LastLine(f)[k] = f[from + k]
  BY <1>0
<1>2. l \in 1..(b - from)
  BY <1>1
<1>3. from + l \in 1..Len(f)
  BY <1>2
<1> QED BY <1>1, <1>2, <1>3

LEMMA ResumeIs ==
  ASSUME WrittenInv, FileInv
  PROVE  Resume(file) \in Digests /\ Resume(file).id <= Len(written)
<1>1. CASE Parses(LastLine(file))
  <2>1. 1 \in 1..Len(LastLine(file))
    BY <1>1 DEF Parses
  <2>2. PICK j \in 1..Len(file) : LastLine(file)[1] = file[j]
    BY <2>1, LastLineIn DEF FileInv
  <2>3. PICK k \in 1..Len(written) : k = LastLine(file)[1].id
    BY <2>2 DEF FileInv, Within
  <2>4. Resume(file) = Read(k).hash
    BY <1>1, <2>3 DEF Resume
  <2>5. Read(k).hash = Hash(k, written[k].text) /\ written[k].hash \in Digests
    <3>1. Read(k).hash = written[k].hash /\ written[k] \in Entries
      BY ReadIs
    <3>2. written[k].hash = Hash(k, written[k].text)
      BY DEF WrittenInv
    <3> QED BY <3>1, <3>2 DEF Entries
  <2>6. Hash(k, written[k].text).id = k
    BY DEF Hash
  <2> QED BY <2>4, <2>5, <2>6, ReadIs DEF WrittenInv
<1>2. CASE ~Parses(LastLine(file))
  <2>1. Genesis \in Digests /\ Genesis.id = 0 /\ Len(written) \in Nat
    BY DEF Genesis, Digests, WrittenInv
  <2> QED BY <1>2, <2>1 DEF Resume
<1> QED BY <1>1, <1>2
-----------------------------------------------------------------------------
(* Flush of what continues the file. *)
LEMMA Flushed ==
  ASSUME FileInv, NEW b \in Seq(Piece), NEW n \in Nat, Stream(file \o b), Within(file \o b, n),
         NEW k \in 0..Len(b), Flush(b, k)
  PROVE  /\ file' \in Seq(Piece) /\ buf' \in Seq(Piece)
         /\ Stream(file') /\ Within(file', n)
         /\ Stream(file' \o buf') /\ Within(file' \o buf', n)
         /\ Len(file) <= Len(file') /\ \A j \in 1..Len(file) : file'[j] = file[j]
<1>1. file \in Seq(Piece)
  BY DEF FileInv
<1>2. /\ file' \in Seq(Piece) /\ buf' \in Seq(Piece)
      /\ file' \o buf' = file \o b
      /\ file' = SubSeq(file \o b, 1, Len(file) + k)
      /\ Len(file') = Len(file) + k
      /\ \A j \in 1..Len(file) : file'[j] = file[j]
  BY <1>1, FlushMoves
<1>3. Len(file \o b) = Len(file) + Len(b)
  BY <1>1, JoinedPieces
<1> DEFINE g == file \o b
           l == Len(file) + k
<1>4. l \in 0..Len(g) /\ Len(file) <= l
  <2>1. Len(file) \in Nat /\ Len(b) \in Nat
    BY <1>1
  <2> QED BY <1>3, <2>1
<1> HIDE DEF g, l
<1>5. Stream(g) /\ Within(g, n)
  BY DEF g
<1>6. Stream(SubSeq(g, 1, l)) /\ Within(SubSeq(g, 1, l), n)
  BY <1>4, <1>5, StreamCut
<1> QED BY <1>2, <1>4, <1>5, <1>6 DEF g, l

(* What Write buffers continues the file by the record's three pieces. *)
LEMMA BufGrows ==
  ASSUME FileInv, WrittenInv, writer = "open"
  PROVE  LET n == Len(written) + 1
             b == buf \o Pieces(n)
         IN /\ b \in Seq(Piece) /\ Len(b) = Len(buf) + 3 /\ Len(buf) \in Nat /\ n \in Nat
            /\ Stream(file \o b) /\ Within(file \o b, n)
            /\ file \o b = (file \o buf) \o Pieces(n)
<1> DEFINE n == Len(written)
           q == Pieces(n + 1)
<1>1. n \in Nat
  BY DEF WrittenInv
<1>2. q \in Seq(Piece) /\ Len(q) = 3
  <2>1. q = <<P(n + 1, "A"), P(n + 1, "B"), P(n + 1, "nl")>>
    BY DEF Pieces, P
  <2>2. P(n + 1, "A") \in Piece /\ P(n + 1, "B") \in Piece /\ P(n + 1, "nl") \in Piece
    BY <1>1 DEF P, Piece
  <2> HIDE DEF n
  <2> QED BY <2>1, <2>2, Triple
<1>3. file \in Seq(Piece) /\ buf \in Seq(Piece)
  BY DEF FileInv
<1>4. Stream(file \o buf) /\ Within(file \o buf, n)
  BY DEF FileInv
<1>5. Stream((file \o buf) \o q) /\ Within((file \o buf) \o q, n + 1)
  <2> DEFINE g == file \o buf
  <2>1. Stream(g) /\ Within(g, n)
    BY <1>4
  <2> HIDE DEF g, n
  <2> QED BY <1>1, <2>1, StreamGrows DEF g
<1> HIDE DEF q
<1>6. buf \o q \in Seq(Piece) /\ Len(buf \o q) = Len(buf) + 3
  <2>1. buf \o q \in Seq(Piece) /\ Len(buf \o q) = Len(buf) + Len(q)
    BY <1>2, <1>3, Zenon, JoinedPieces
  <2> QED BY <1>2, <2>1
<1>7. file \o (buf \o q) = (file \o buf) \o q
  <2>1. \A f, g, h \in Seq(Piece) : (f \o g) \o h = f \o (g \o h)
    BY ConcatAssociative
  <2> HIDE DEF n
  <2> QED BY <1>2, <1>3, <2>1, Zenon
<1>8. Len(buf) \in Nat
  BY <1>3
<1>9. n + 1 \in Nat
  BY <1>1
<1> HIDE DEF n
<1>10. LET b == buf \o q
       IN /\ b \in Seq(Piece) /\ Len(b) = Len(buf) + 3 /\ Len(buf) \in Nat /\ n + 1 \in Nat
          /\ Stream(file \o b) /\ Within(file \o b, n + 1)
          /\ file \o b = (file \o buf) \o q
  BY <1>5, <1>6, <1>7, <1>8, <1>9, Zenon
<1> QED BY <1>10, Zenon DEF q, n

(* No step takes back a record. *)
LEMMA WrittenStep ==
  ASSUME LogInv, [Next]_vars
  PROVE  /\ WrittenInv' /\ Len(written) <= Len(written')
         /\ \A k \in 1..Len(written) : written'[k] = written[k]
<1>1. Len(written) \in Nat
  BY DEF LogInv, WrittenInv
<1>2. CASE UNCHANGED written
  BY <1>1, <1>2 DEF LogInv, WrittenInv
<1>3. ASSUME NEW kind \in Kinds, Write(kind) \/ WriteFails(kind)
      PROVE  /\ WrittenInv' /\ Len(written) <= Len(written')
             /\ \A k \in 1..Len(written) : written'[k] = written[k]
  <2>1. /\ Len(written) < MaxRecords
        /\ written' = Append(written, Record(Len(written) + 1, kind, prev))
    BY <1>3 DEF Write, WriteFails
  <2>2. /\ WrittenInv' /\ Len(written)' = Len(written) + 1
        /\ \A k \in 1..Len(written) : written'[k] = written[k]
    BY <2>1, WrittenGrows DEF LogInv
  <2> QED BY <1>1, <2>2
<1> QED BY <1>2, <1>3
     DEF Next, NewWriter, Sync, SyncFails, Close, Kill, PowerLoss, Die, vars

(* The first n pieces stay where they are. *)
Kept(n) == n <= Len(file') /\ \A j \in 1..n : file'[j] = file[j]

(* Every step leaves a stream, and all that was there in its place; a power *)
(* loss what was synced.                                                    *)
LEMMA FileStep ==
  ASSUME LogInv, [Next]_vars
  PROVE  FileInv' /\ (Kept(Len(file)) \/ (PowerLoss /\ Kept(synced)))
<1> DEFINE Goal == FileInv' /\ (Kept(Len(file)) \/ (PowerLoss /\ Kept(synced)))
<1>1. /\ FileInv /\ WrittenInv /\ file \in Seq(Piece) /\ buf \in Seq(Piece)
      /\ synced \in Nat /\ synced <= Len(file) /\ Len(file) \in Nat /\ Len(written) \in Nat
      /\ \A j \in 1..synced : j \in 1..Len(file)
      /\ writer \in {"closed", "open", "broken"}
      /\ Stream(file) /\ Within(file, Len(written))
  BY DEF LogInv, AckInv, FileInv, WrittenInv
<1>2. CASE UNCHANGED vars
  BY <1>1, <1>2 DEF FileInv, Kept, vars
<1>3. CASE NewWriter
  <2>1. /\ file' = file /\ written' = written /\ writer' = "open" /\ buf' = <<>>
    BY <1>3 DEF NewWriter, Opened
  <2>2. <<>> \in Seq(Piece) /\ file \o <<>> = file
    BY <1>1, ConcatEmptySeq
  <2> QED BY <1>1, <2>1, <2>2 DEF FileInv, Kept
<1>4. ASSUME NEW b \in Seq(Piece), NEW k \in 0..Len(b), Flush(b, k),
             Stream(file \o b), Within(file \o b, Len(written)'), Len(written)' \in Nat,
             writer' \in {"closed", "open", "broken"}
      PROVE  Goal
  <2>1. PICK n \in Nat : n = Len(written)'
    BY <1>4
  <2>2. /\ file' \in Seq(Piece) /\ buf' \in Seq(Piece)
        /\ Stream(file') /\ Within(file', n)
        /\ Stream(file' \o buf') /\ Within(file' \o buf', n)
        /\ Len(file) <= Len(file') /\ \A j \in 1..Len(file) : file'[j] = file[j]
    BY <1>1, <1>4, <2>1, Flushed
  <2>3. Kept(Len(file))
    BY <2>2 DEF Kept
  <2>4. FileInv'
    BY <1>4, <2>1, <2>2 DEF FileInv
  <2> QED BY <2>3, <2>4
<1>5. ASSUME NEW kind \in Kinds, Write(kind) PROVE Goal
  <2> DEFINE n == Len(written) + 1
             b == buf \o Pieces(n)
  <2>1. Record(n, kind, prev).id = n
    BY <1>1, RecordIs DEF LogInv, PrevInv
  <2>2. PICK k \in 0..(Len(buf) + 3) : Flush(b, k)
    BY <1>5, <2>1 DEF Write
  <2>3. writer = "open" /\ writer' = writer /\ written' = Append(written, Record(n, kind, prev))
    BY <1>5 DEF Write
  <2>4. Len(written)' = n
    BY <1>5, <2>3, WrittenGrows DEF LogInv, Write
  <2>5. /\ b \in Seq(Piece) /\ Len(b) = Len(buf) + 3 /\ n \in Nat
        /\ Stream(file \o b) /\ Within(file \o b, n)
    BY <1>1, <2>3, BufGrows
  <2> HIDE DEF b, n
  <2> QED BY <1>4, <2>2, <2>3, <2>4, <2>5
<1>6. ASSUME NEW kind \in Kinds, WriteFails(kind) PROVE Goal
  <2> DEFINE n == Len(written) + 1
             b == buf \o Pieces(n)
  <2>1. Record(n, kind, prev).id = n
    BY <1>1, RecordIs DEF LogInv, PrevInv
  <2>2. PICK k \in 0..(Len(buf) + 2) : Flush(b, k)
    BY <1>6, <2>1 DEF WriteFails
  <2>3. /\ writer = "open" /\ writer' = "broken"
        /\ written' = Append(written, Record(n, kind, prev))
    BY <1>6 DEF WriteFails
  <2>4. Len(written)' = n
    BY <1>6, <2>3, WrittenGrows DEF LogInv, WriteFails
  <2>5. /\ b \in Seq(Piece) /\ Len(b) = Len(buf) + 3 /\ n \in Nat /\ Len(buf) \in Nat
        /\ Stream(file \o b) /\ Within(file \o b, n)
    BY <1>1, <2>3, BufGrows
  <2> HIDE DEF b, n
  <2>6. k \in 0..Len(b)
    BY <2>2, <2>5
  <2> QED BY <1>4, <2>2, <2>3, <2>4, <2>5, <2>6
<1>7. CASE Sync
  <2>1. Flush(buf, Len(buf)) /\ writer = "open" /\ writer' = writer /\ written' = written
    BY <1>7 DEF Sync
  <2>2. Stream(file \o buf) /\ Within(file \o buf, Len(written)')
    BY <2>1 DEF LogInv, FileInv
  <2>3. Len(buf) \in 0..Len(buf) /\ Len(written)' \in Nat
    BY <1>1, <2>1
  <2> QED BY <1>1, <1>4, <2>1, <2>2, <2>3
<1>8. CASE SyncFails
  <2>1. /\ writer = "open" /\ writer' \in {"open", "broken"} /\ written' = written
    BY <1>8 DEF SyncFails
  <2>2. PICK k \in 0..Len(buf) : Flush(buf, k)
    BY <1>1, <1>8 DEF SyncFails
  <2>3. Stream(file \o buf) /\ Within(file \o buf, Len(written)')
    BY <2>1 DEF LogInv, FileInv
  <2>4. k \in 0..Len(buf) /\ Len(written)' \in Nat
    BY <1>1, <2>1, <2>2
  <2> QED BY <1>1, <1>4, <2>1, <2>2, <2>3, <2>4
<1>9. CASE Close
  <2>1. writer' = "closed" /\ written' = written
    BY <1>9 DEF Close
  <2>2. CASE writer = "open"
    <3>1. Flush(buf, Len(buf))
      BY <1>9, <2>2 DEF Close
    <3>2. Stream(file \o buf) /\ Within(file \o buf, Len(written)')
      BY <2>1, <2>2 DEF LogInv, FileInv
    <3>3. Len(buf) \in 0..Len(buf) /\ Len(written)' \in Nat
      BY <1>1, <2>1
    <3> QED BY <1>1, <1>4, <2>1, <3>1, <3>2, <3>3
  <2>3. CASE writer # "open"
    <3>1. file' = file /\ buf' = <<>>
      BY <1>9, <2>3 DEF Close
    <3> QED BY <1>1, <2>1, <3>1 DEF FileInv, Kept
  <2> QED BY <2>2, <2>3
<1>10. CASE Kill
  <2>1. file' = file /\ buf' = <<>> /\ written' = written /\ writer' = "closed"
    BY <1>10 DEF Kill, Die
  <2> QED BY <1>1, <2>1 DEF FileInv, Kept
<1>11. CASE PowerLoss
  <2>1. buf' = <<>> /\ written' = written /\ writer' = "closed"
    BY <1>11 DEF PowerLoss, Die
  <2>2. PICK k \in synced..Len(file) : file' = SubSeq(file, 1, k)
    BY <1>11 DEF PowerLoss
  <2>3. k \in 0..Len(file) /\ synced <= k /\ k \in Nat
    BY <1>1
  <2>4. file' \in Seq(Piece) /\ Len(file') = k /\ \A j \in 1..k : file'[j] = file[j]
    BY <1>1, <2>2, <2>3, Prefix
  <2>5. PICK f : f = file /\ Stream(f) /\ Within(f, Len(written))
    BY <1>1
  <2>6. Stream(file') /\ Within(file', Len(written))
    BY <1>1, <2>2, <2>3, <2>5, StreamCut
  <2>7. \A j \in 1..synced : j \in 1..k
    BY <1>1, <2>3
  <2> QED BY <1>1, <1>11, <2>1, <2>3, <2>4, <2>6, <2>7 DEF FileInv, Kept
<1> QED BY <1>2, <1>3, <1>5, <1>6, <1>7, <1>8, <1>9, <1>10, <1>11 DEF Next
-----------------------------------------------------------------------------
(* The records that are written out have their lines' ends in the file. *)
LEMMA EndedAre ==
  ASSUME NEW f \in Seq(Piece), NEW r \in Ended(f)
  PROVE  \E j \in 1..Len(f) : f[j] = P(r, "nl")
<1>1. PICK j \in 1..Len(f) : f[j].part = "nl" /\ r = f[j].id
  BY DEF Ended
<1>2. f[j] \in Piece
  OBVIOUS
<1> QED BY <1>1, <1>2 DEF Piece, P

(* What a power loss leaves acknowledged had been synced. *)
LEMMA SyncedAre ==
  ASSUME file \in Seq(Piece), synced \in 0..Len(file), NEW r \in Ended(SubSeq(file, 1, synced))
  PROVE  \E j \in 1..synced : file[j] = P(r, "nl")
<1>1. PICK f : f = SubSeq(file, 1, synced)
  OBVIOUS
<1>2. f \in Seq(Piece) /\ Len(f) = synced /\ \A j \in 1..synced : f[j] = file[j]
  BY <1>1, Prefix
<1>3. PICK j \in 1..Len(f) : f[j] = P(r, "nl")
  BY <1>1, <1>2, EndedAre
<1> QED BY <1>2, <1>3

(* A Sync or a Close acknowledges what is in the file; a power loss leaves  *)
(* of that what was synced.                                                 *)
LEMMA AckStep ==
  ASSUME LogInv, [Next]_vars
  PROVE  AckInv'
<1>1. /\ FileInv' /\ file \in Seq(Piece) /\ file' \in Seq(Piece) /\ synced \in 0..Len(file)
      /\ Kept(Len(file)) \/ (PowerLoss /\ Kept(synced))
  BY FileStep DEF FileInv, LogInv, AckInv
<1>2. synced' \in 0..Len(file')
  <2>1. synced' = synced \/ synced' = Len(file')
    BY DEF Next, NewWriter, Write, WriteFails, Sync, SyncFails, Close, Kill, PowerLoss, Die, vars
  <2> QED BY <1>1, <2>1 DEF Kept
<1>3. ASSUME NEW r \in acked', r \in Ended(file') PROVE \E j \in 1..Len(file') : file'[j] = P(r, "nl")
  BY <1>1, <1>3, EndedAre
<1>4. ASSUME Kept(Len(file)), NEW r \in acked PROVE \E j \in 1..Len(file') : file'[j] = P(r, "nl")
  <2>1. PICK j \in 1..Len(file) : file[j] = P(r, "nl")
    BY <1>4 DEF LogInv, AckInv
  <2>2. file'[j] = P(r, "nl") /\ j \in 1..Len(file')
    BY <1>1, <1>4, <2>1 DEF Kept
  <2> QED BY <2>2
<1>5. ASSUME PowerLoss, Kept(synced), NEW r \in acked'
      PROVE  \E j \in 1..Len(file') : file'[j] = P(r, "nl")
  <2>1. r \in Ended(SubSeq(file, 1, synced))
    BY <1>5 DEF PowerLoss
  <2>2. PICK j \in 1..synced : file[j] = P(r, "nl")
    BY <1>1, <2>1, SyncedAre
  <2>3. file'[j] = P(r, "nl") /\ j \in 1..Len(file')
    BY <1>1, <1>5, <2>2 DEF Kept
  <2> QED BY <2>3
<1>6. acked' \subseteq acked \cup Ended(file')
  BY DEF Next, NewWriter, Write, WriteFails, Sync, SyncFails, Close, Kill, PowerLoss, Die, vars
<1>7. \A r \in acked' : \E j \in 1..Len(file') : file'[j] = P(r, "nl")
  BY <1>1, <1>3, <1>4, <1>5, <1>6
<1> QED BY <1>2, <1>7 DEF AckInv

(* What the Writer will chain to is the digest of a record. *)
LEMMA PrevStep ==
  ASSUME LogInv, [Next]_vars
  PROVE  PrevInv'
<1>1. Len(written) \in Nat /\ Len(written') \in Nat /\ Len(written) <= Len(written') /\ WrittenInv'
  BY WrittenStep DEF LogInv, WrittenInv
<1>2. CASE prev' = prev
  <2>1. prev \in Digests /\ prev.id \in Nat /\ prev.id <= Len(written)
    BY DEF LogInv, PrevInv, Digests
  <2> QED BY <1>1, <1>2, <2>1 DEF PrevInv
<1>3. CASE NewWriter
  <2>1. prev' = Resume(file) /\ written' = written
    BY <1>3 DEF NewWriter
  <2> QED BY <2>1, ResumeIs DEF LogInv, PrevInv
<1>4. ASSUME NEW kind \in Kinds, Write(kind) PROVE PrevInv'
  <2> DEFINE n == Len(written) + 1
             r == Record(n, kind, prev)
  <2>1. /\ Len(written) < MaxRecords /\ written' = Append(written, r) /\ prev' = r.hash
    BY <1>4 DEF Write, Advance
  <2>2. Len(written') = n
    BY <2>1, WrittenGrows DEF LogInv
  <2>3. r \in Entries /\ r.hash = Hash(n, r.text) /\ n \in Nat
    BY <1>1, RecordIs DEF LogInv, PrevInv
  <2> HIDE DEF r, n
  <2>4. r.hash \in Digests /\ r.hash.id = n
    BY <2>3 DEF Entries, Hash
  <2> QED BY <2>1, <2>2, <2>3, <2>4 DEF PrevInv
<1> QED BY <1>2, <1>3, <1>4
     DEF Next, WriteFails, Sync, SyncFails, Close, Kill, PowerLoss, Die, vars

(* THEOREM LogInductive: whatever is killed, cut or left half written, the  *)
(* file is a stream of records' pieces in the order of Write, the buffer    *)
(* continues it, and every acknowledged record's line ends in the file      *)
(* (writer.go:57-109).                                                      *)
THEOREM LogInductive == Spec => []LogInv
<1>1. Init => LogInv
  <2> SUFFICES ASSUME Init PROVE LogInv
    OBVIOUS
  <2>1. MaxRecords \in Nat /\ MaxFaults \in Nat
    BY KindsAssumption
  <2>2. /\ written = <<>> /\ file = <<>> /\ buf = <<>> /\ writer = "closed"
        /\ synced = 0 /\ prev = Genesis /\ acked = {} /\ faults = 0
    BY DEF Init
  <2>3. WrittenInv
    BY <2>1, <2>2 DEF WrittenInv
  <2>4. <<>> \in Seq(Piece) /\ Len(<<>>) = 0
    OBVIOUS
  <2>5. Stream(<<>>) /\ Within(<<>>, 0)
    BY <2>4 DEF Stream, Within
  <2>6. FileInv /\ AckInv
    BY <2>2, <2>4, <2>5 DEF FileInv, AckInv
  <2>7. PrevInv
    BY <2>2 DEF PrevInv, Genesis, Digests
  <2> QED BY <2>1, <2>2, <2>3, <2>6, <2>7 DEF LogInv
<1>2. LogInv /\ [Next]_vars => LogInv'
  <2> SUFFICES ASSUME LogInv, [Next]_vars PROVE LogInv'
    OBVIOUS
  <2>1. WrittenInv' /\ FileInv' /\ AckInv' /\ PrevInv'
    BY WrittenStep, FileStep, AckStep, PrevStep
  <2>2. faults' \in 0..MaxFaults
    BY KindsAssumption DEF LogInv, Next, NewWriter, Write, WriteFails, Sync, SyncFails, Close,
       Kill, PowerLoss, Die, Fault, vars
  <2> QED BY <2>1, <2>2 DEF LogInv
<1> QED BY <1>1, <1>2, PTL DEF Spec

(* THEOREM LogTypeCorrect: type correctness of the Writers' state.          *)
THEOREM LogTypeCorrect == Spec => []TypeOK
<1>1. LogInv => TypeOK
  <2> SUFFICES ASSUME LogInv PROVE TypeOK
    OBVIOUS
  <2>1. WrittenInv /\ FileInv /\ AckInv /\ PrevInv /\ faults \in 0..MaxFaults
    BY DEF LogInv
  <2>2. \A j \in 1..Len(file) : file[j].id \in 1..Len(written) /\ file[j].part \in {"A", "B", "nl"}
    <3> TAKE j \in 1..Len(file)
    <3>1. file[j] \in Piece
      BY <2>1 DEF FileInv
    <3> QED BY <2>1, <3>1 DEF FileInv, Within, Piece
  <2>3. ASSUME NEW r \in acked PROVE r \in 1..Len(written)
    <3>1. PICK j \in 1..Len(file) : file[j] = P(r, "nl")
      BY <2>1 DEF AckInv
    <3> QED BY <2>2, <3>1 DEF P
  <2>4. prev.id \in 0..Len(written)
    BY <2>1 DEF PrevInv, Digests, WrittenInv
  <2>5. acked \subseteq 1..Len(written)
    BY <2>3
  <2> QED BY <2>1, <2>2, <2>4, <2>5 DEF TypeOK, WrittenInv, FileInv, AckInv
<1> QED BY <1>1, LogInductive, PTL
-----------------------------------------------------------------------------
(* The place where the line before ends, 0 for the first line. *)
Before(f, e) == Max({0} \cup {d \in Ends(f) : d < e})

(* The line that ends at e is all between that place and e. *)
LEMMA LineIs ==
  ASSUME NEW f \in Seq(Piece), NEW e \in 1..(Len(f) + 1)
  PROVE  LET m == Before(f, e)
         IN /\ m \in 0..(e - 1) /\ (m = 0 \/ m \in Ends(f)) /\ m <= Len(f)
            /\ \A d \in Ends(f) : d < e => d <= m
            /\ Line(f, e) \in Seq(Piece) /\ Len(Line(f, e)) = e - 1 - m
            /\ \A l \in 1..(e - 1 - m) : Line(f, e)[l] = f[m + l]
<1> DEFINE D == {0} \cup {d \in Ends(f) : d < e}
           m == Before(f, e)
<1>1. Len(f) \in Nat /\ e \in Nat /\ e - 1 \in Nat /\ e - 1 <= Len(f)
  OBVIOUS
<1>2. D \in SUBSET (0..(e - 1)) /\ D # {}
  BY <1>1 DEF Ends
<1>3. m = Max(D)
  BY DEF Before
<1>4. Line(f, e) = SubSeq(f, m + 1, e - 1)
  BY DEF Line, Before
<1> HIDE DEF D, m
<1>5. m \in D /\ \A y \in D : y <= m
  BY <1>1, <1>2, <1>3, Greatest
<1>6. m \in 0..(e - 1) /\ (m = 0 \/ m \in Ends(f)) /\ \A d \in Ends(f) : d < e => d <= m
  BY <1>2, <1>5 DEF D
<1>7. PICK k \in 0..Len(f) : k = e - 1
  BY <1>1
<1>8. m \in 0..k
  BY <1>6, <1>7
<1>9. /\ SubSeq(f, m + 1, k) \in Seq(Piece) /\ Len(SubSeq(f, m + 1, k)) = k - m
      /\ \A l \in 1..(k - m) : SubSeq(f, m + 1, k)[l] = f[m + l]
  BY <1>8, Middle
<1>10. m <= Len(f)
  BY <1>1, <1>6
<1> QED BY <1>4, <1>6, <1>7, <1>9, <1>10 DEF m

LEMMA EndsAre ==
  ASSUME NEW f \in Seq(Piece)
  PROVE  /\ \A d \in 1..Len(f) : d \in Ends(f) <=> f[d].part = "nl"
         /\ \A d \in Ends(f) : d \in 1..(Len(f) + 1) /\ d \in Nat
         /\ Len(f) + 1 \in Ends(f)
<1>1. Len(f) \in Nat
  OBVIOUS
<1>2. Len(f) + 1 \notin 1..Len(f)
  BY <1>1
<1> QED BY <1>1, <1>2 DEF Ends

(* Two files that begin alike have the same lines there. *)
LEMMA SameLines ==
  ASSUME NEW f \in Seq(Piece), NEW g \in Seq(Piece), NEW n \in Nat,
         n <= Len(f), n <= Len(g), \A j \in 1..n : f[j] = g[j]
  PROVE  \A d \in 1..n : (d \in Ends(f) <=> d \in Ends(g)) /\ Line(f, d) = Line(g, d)
<1>1. \A d \in 1..n : d \in 1..Len(f) /\ d \in 1..Len(g) /\ d \in 1..(Len(f) + 1) /\ d \in 1..(Len(g) + 1)
  OBVIOUS
<1>2. \A d \in 1..n : d \in Ends(f) <=> d \in Ends(g)
  BY <1>1, EndsAre
<1>3. ASSUME NEW d \in 1..n PROVE Line(f, d) = Line(g, d)
  <2>1. {c \in Ends(f) : c < d} = {c \in Ends(g) : c < d}
    <3>1. \A c \in Ends(f) \cup Ends(g) : c \in Nat /\ c >= 1
      BY EndsAre
    <3>2. \A c \in Ends(f) \cup Ends(g) : c < d => c \in 1..n
      BY <3>1
    <3> QED BY <1>2, <3>2
  <2>2. Before(f, d) = Before(g, d)
    BY <2>1 DEF Before
  <2> DEFINE m == Before(f, d)
  <2>3. /\ m \in 0..(d - 1)
        /\ Line(f, d) \in Seq(Piece) /\ Len(Line(f, d)) = d - 1 - m
        /\ \A l \in 1..(d - 1 - m) : Line(f, d)[l] = f[m + l]
    BY <1>1, LineIs
  <2>4. /\ Line(g, d) \in Seq(Piece) /\ Len(Line(g, d)) = d - 1 - m
        /\ \A l \in 1..(d - 1 - m) : Line(g, d)[l] = g[m + l]
    <3>1. /\ Line(g, d) \in Seq(Piece) /\ Len(Line(g, d)) = d - 1 - Before(g, d)
          /\ \A l \in 1..(d - 1 - Before(g, d)) : Line(g, d)[l] = g[Before(g, d) + l]
      BY <1>1, LineIs
    <3> QED BY <2>2, <3>1
  <2> HIDE DEF m
  <2>5. \A l \in 1..(d - 1 - m) : m + l \in 1..n
    BY <2>3
  <2>6. \A l \in 1..(d - 1 - m) : Line(f, d)[l] = Line(g, d)[l]
    BY <2>3, <2>4, <2>5
  <2> QED BY <2>3, <2>4, <2>6, SeqEqual
<1> QED BY <1>2, <1>3

(* A line that parses is a record's two pieces and its end.                 *)
LEMMA ParsedIs ==
  ASSUME NEW f \in Seq(Piece), NEW e \in Ends(f), Parses(Line(f, e))
  PROVE  LET r == Line(f, e)[1].id
         IN e > 2 /\ e - 1 \in 1..Len(f) /\ e - 2 \in 1..Len(f) /\ f[e - 1] = P(r, "B") /\ f[e - 2] = P(r, "A")
<1> DEFINE m == Before(f, e)
<1>1. /\ e \in 1..(Len(f) + 1) /\ e \in Nat /\ Len(f) \in Nat
  BY EndsAre
<1>2. /\ m \in 0..(e - 1) /\ Len(Line(f, e)) = e - 1 - m
      /\ \A l \in 1..(e - 1 - m) : Line(f, e)[l] = f[m + l]
  BY <1>1, LineIs
<1> HIDE DEF m
<1>3. e - 1 - m = 2 /\ m \in Nat
  <2>1. Len(Line(f, e)) = 2
    BY DEF Parses
  <2>2. m \in 0..(e - 1) /\ e - 1 - m = Len(Line(f, e))
    BY <1>2, Zenon
  <2>3. m \in Nat
    BY <1>1, <2>2
  <2> QED BY <2>1, <2>2, <2>3
<1>4. 1 \in 1..(e - 1 - m) /\ 2 \in 1..(e - 1 - m) /\ m + 1 = e - 2 /\ m + 2 = e - 1 /\ e > 2
  BY <1>1, <1>3
<1>5. Line(f, e)[1] = f[e - 2] /\ Line(f, e)[2] = f[e - 1]
  BY <1>2, <1>4
<1>6. e - 1 \in 1..Len(f) /\ e - 2 \in 1..Len(f)
  BY <1>1, <1>4
<1>7. f[e - 1] \in Piece /\ f[e - 2] \in Piece
  BY <1>6
<1> QED BY <1>4, <1>5, <1>6, <1>7 DEF Parses, P, Piece

(* The line of a record whose end is in the file is read back.              *)
LEMMA EndedIs ==
  ASSUME NEW f, Stream(f), NEW r, NEW j \in 1..Len(f), f[j] = P(r, "nl")
  PROVE  /\ j \in Lines(f) /\ j > 1 /\ f[j - 1] = P(r, "B") /\ j - 1 \in 1..Len(f)
         /\ Parses(Line(f, j)) => Line(f, j)[1].id = r
<1>1. f \in Seq(Piece) /\ Len(f) \in Nat /\ j \in Nat /\ j \in 1..(Len(f) + 1)
  BY DEF Stream
<1>2. f[j].part = "nl" /\ f[j].id = r
  BY DEF P
<1>3. j \in Ends(f)
  BY <1>1, <1>2, EndsAre
<1>4. j > 1 /\ f[j - 1] = P(r, "B")
  BY <1>2 DEF Stream
<1>5. j - 1 \in 1..Len(f) /\ j - 1 \notin Ends(f)
  <2>1. j - 1 \in 1..Len(f)
    BY <1>1, <1>4
  <2>2. f[j - 1].part # "nl"
    BY <1>4 DEF P
  <2> QED BY <1>1, <2>1, <2>2, EndsAre
<1> DEFINE m == Before(f, j)
<1>6. /\ m \in 0..(j - 1) /\ (m = 0 \/ m \in Ends(f))
      /\ Line(f, j) \in Seq(Piece) /\ Len(Line(f, j)) = j - 1 - m
  BY <1>1, LineIs
<1> HIDE DEF m
<1>7. m < j - 1
  BY <1>1, <1>4, <1>5, <1>6
<1>8. Line(f, j) # <<>>
  <2>1. Len(Line(f, j)) # 0
    BY <1>1, <1>6, <1>7
  <2> QED BY <2>1
<1>9. ASSUME Parses(Line(f, j)) PROVE Line(f, j)[1].id = r
  <2>1. f[j - 1] = P(Line(f, j)[1].id, "B")
    BY <1>1, <1>3, <1>9, ParsedIs
  <2> QED BY <1>4, <2>1 DEF P
<1> QED BY <1>3, <1>4, <1>5, <1>8, <1>9 DEF Lines
-----------------------------------------------------------------------------
(* What a reader makes of a log that loads. *)
LEMMA LoadedLines ==
  ASSUME LoadAll(file)
  PROVE  Reach(file) = Lines(file) /\ Good(file) = Lines(file)
<1>1. Reach(file) = Lines(file)
  BY DEF LoadAll, Failed
<1>2. ASSUME NEW d \in Lines(file), d \notin Good(file) PROVE FALSE
  <2>1. d \in Reach(file)
    BY <1>1, <1>2
  <2>2. d < d
    BY <1>2, <2>1 DEF Reach
  <2>3. d \in Lines(file) /\ d \in Ends(file)
    BY <1>2 DEF Lines
  <2> QED BY <2>2, <2>3 DEF Ends
<1>3. Good(file) \subseteq Lines(file)
  BY DEF Good
<1> QED BY <1>1, <1>2, <1>3

(* THEOREM LossIsLoud: an acknowledged record that is not among those       *)
(* LoadAll returns makes LoadAll fail, for any number of Writers, kills,    *)
(* power losses and failed writes (reader.go:71-85, writer.go:91-109).      *)
THEOREM LossIsLoud == Spec => []NoSilentLoss
<1>1. LogInv => NoSilentLoss
  <2> SUFFICES ASSUME LogInv, LoadAll(file), NEW r \in acked PROVE r \in All(file)
    BY DEF NoSilentLoss
  <2>1. PICK j \in 1..Len(file) : file[j] = P(r, "nl")
    BY DEF LogInv, AckInv
  <2>2. j \in 1..Len(file) /\ Stream(file) /\ Within(file, Len(written)) /\ WrittenInv
    BY DEF LogInv, AckInv, FileInv
  <2>3. PICK f : f = file
    OBVIOUS
  <2>4. j \in Lines(f) /\ (Parses(Line(f, j)) => Line(f, j)[1].id = r)
    BY <2>1, <2>2, <2>3, EndedIs
  <2>5. j \in Good(file) /\ j \in Reach(file)
    BY <2>3, <2>4, LoadedLines
  <2>6. Line(file, j)[1].id = r
    BY <2>3, <2>4, <2>5 DEF Good
  <2>7. r \in 1..Len(written)
    BY <2>1, <2>2 DEF Within, P
  <2>8. RecordAt(file, j).id = r
    BY <2>2, <2>6, <2>7, ReadIs DEF RecordAt
  <2> QED BY <2>5, <2>8 DEF All
<1> QED BY <1>1, LogInductive, PTL

(* THEOREM SyncedStaysReadable: what a Sync made durable and a reader gets  *)
(* now, a reader gets after every later step; what a Close flushed, after   *)
(* every step but a power loss (writer.go:42-53, 91-109).                   *)
THEOREM SyncedStaysReadable == Spec => KeepsSynced
<1>1. LogInv /\ [Next]_vars => (acked \cap acked' \cap All(file) \subseteq All(file)')
  <2> SUFFICES ASSUME LogInv, [Next]_vars, NEW r \in acked \cap acked' \cap All(file)
               PROVE  r \in All(file)'
    OBVIOUS
  <2>1. /\ Stream(file) /\ Within(file, Len(written)) /\ WrittenInv /\ file \in Seq(Piece)
        /\ Len(written) \in Nat /\ synced \in 0..Len(file)
    BY DEF LogInv, AckInv, FileInv, WrittenInv
  (* The place where the line of r ends, and what stays of the file. *)
  <2>0. PICK j \in 1..Len(file), n \in 0..Len(file) :
          file[j] = P(r, "nl") /\ j <= n /\ Kept(n) /\ file' \in Seq(Piece)
    <3>1. /\ Kept(Len(file)) \/ (PowerLoss /\ Kept(synced))
          /\ file' \in Seq(Piece)
      BY FileStep DEF FileInv
    <3>2. CASE Kept(Len(file))
      <4>1. PICK j \in 1..Len(file) : file[j] = P(r, "nl")
        BY DEF LogInv, AckInv
      <4>2. Len(file) \in 0..Len(file) /\ j <= Len(file)
        BY <2>1
      <4> QED BY <3>1, <3>2, <4>1, <4>2
    <3>3. CASE PowerLoss /\ Kept(synced)
      <4>1. r \in Ended(SubSeq(file, 1, synced))
        BY <3>3 DEF PowerLoss
      <4>2. PICK j \in 1..synced : file[j] = P(r, "nl")
        BY <2>1, <4>1, SyncedAre
      <4>3. j \in 1..Len(file) /\ j <= synced
        BY <2>1
      <4> QED BY <2>1, <3>1, <3>3, <4>2, <4>3
    <3> QED BY <3>1, <3>2, <3>3
  <2>2. /\ file' \in Seq(Piece) /\ n <= Len(file') /\ \A l \in 1..n : file'[l] = file[l]
        /\ n \in Nat /\ n <= Len(file)
    BY <2>0, <2>1 DEF Kept
  <2>3. /\ WrittenInv' /\ Len(written) <= Len(written') /\ Len(written') \in Nat
        /\ \A k \in 1..Len(written) : written'[k] = written[k]
    BY WrittenStep DEF WrittenInv
  <2> DEFINE f == file
             g == file'
  <2>4. PICK e \in Reach(file) : RecordAt(file, e).id = r
    BY DEF All
  <2>5. e \in Lines(file) /\ e \in Ends(file) /\ e \in Good(file) /\ e \in Nat
    <3>1. e \in Lines(file) /\ e \in Ends(file)
      BY <2>4 DEF Reach, Lines
    <3>2. e \in Nat
      BY <3>1 DEF Ends
    <3>3. ~(e < e)
      BY <3>2
    <3> QED BY <2>4, <3>1, <3>2, <3>3 DEF Reach
  <2>6. Parses(Line(file, e)) /\ Fits(Line(file, e))
    BY <2>5 DEF Good
  <2> DEFINE q == Line(file, e)[1].id
  <2>7. e > 2 /\ e - 1 \in 1..Len(file) /\ file[e - 1] = P(q, "B")
    BY <2>1, <2>5, <2>6, ParsedIs
  <2>8. q = r /\ r \in 1..Len(written)
    <3>1. q \in 1..Len(written)
      BY <2>1, <2>7 DEF Within, P
    <3>2. RecordAt(file, e) = Read(q)
      BY DEF RecordAt
    <3> HIDE DEF q
    <3>3. Read(q).id = q
      BY <2>1, <3>1, ReadIs
    <3> QED BY <2>4, <3>1, <3>2, <3>3
  <2>9. e \in 1..n
    <3>1. file[j] = P(r, "nl") /\ j <= n
      BY <2>0
    <3>2. j \in 1..Len(file) /\ j \in Nat
      BY <2>1
    <3>3. j > 1 /\ file[j - 1] = P(r, "B") /\ j - 1 \in 1..Len(file)
      <4>1. PICK h : h = file
        OBVIOUS
      <4> QED BY <2>1, <3>1, <3>2, <4>1, EndedIs
    <3>4. j - 1 = e - 1
      <4>1. file[j - 1] = file[e - 1]
        BY <2>7, <2>8, <3>3
      <4>2. j - 1 \in Nat /\ e - 1 \in Nat
        BY <2>5, <2>7, <3>2, <3>3
      <4> HIDE DEF q
      <4> QED BY <2>1, <2>7, <3>3, <4>1, <4>2 DEF Stream
    <3>5. j = e
      BY <2>5, <3>2, <3>4
    <3> QED BY <2>2, <3>1, <3>2, <3>5
  (* Up to there the reader sees what it saw. *)
  <2>10. \A d \in 1..n : (d \in Ends(g) <=> d \in Ends(f)) /\ Line(g, d) = Line(f, d)
    <3>1. PICK h1 \in Seq(Piece) : h1 = file
      BY <2>1
    <3>2. PICK h2 \in Seq(Piece) : h2 = file'
      BY <2>2
    <3>3. \A d \in 1..n : (d \in Ends(h1) <=> d \in Ends(h2)) /\ Line(h1, d) = Line(h2, d)
      BY <2>1, <2>2, <3>1, <3>2, SameLines
    <3> QED BY <3>1, <3>2, <3>3
  <2>11. \A d \in 1..n : d \in Lines(g) <=> d \in Lines(f)
    BY <2>10 DEF Lines
  <2>12. ASSUME NEW d \in 1..n, d \in Good(file) PROVE d \in Good(file)'
    <3>1. d \in Lines(file) /\ Parses(Line(file, d)) /\ Fits(Line(file, d)) /\ d \in Ends(file)
      BY <2>12 DEF Good, Lines
    <3>2. d \in Lines(file') /\ Line(file', d) = Line(file, d)
      BY <2>10, <2>11, <3>1
    <3>3. \A l \in 1..Len(Line(file, d)) : Line(file, d)[l].id \in 1..Len(written)
      <4>1. /\ Len(Line(file, d)) = d - 1 - Before(file, d)
            /\ Before(file, d) \in 0..(d - 1)
            /\ \A l \in 1..(d - 1 - Before(file, d)) : Line(file, d)[l] = file[Before(file, d) + l]
        BY <2>1, LineIs
      <4>2. PICK m \in 0..(d - 1) : m = Before(file, d)
        BY <4>1
      <4>3. \A l \in 1..(d - 1 - m) : m + l \in 1..Len(file)
        BY <2>1
      <4> QED BY <2>1, <4>1, <4>2, <4>3 DEF Within
    <3>4. Fits(Line(file, d))'
      BY <2>3, <3>1, <3>2, <3>3 DEF Fits
    <3>5. Parses(Line(file', d))
      BY <3>1, <3>2
    <3> QED BY <3>2, <3>4, <3>5 DEF Good
  <2>13. e \in Reach(file)'
    <3>1. e \in Lines(file')
      BY <2>5, <2>9, <2>11
    <3>2. ASSUME NEW d \in Lines(file'), d \notin Good(file)' PROVE e < d
      <4>1. d \in Nat /\ d >= 1
        BY <2>2, <3>2, EndsAre DEF Lines
      <4>2. CASE d \in 1..n
        <5>1. d \in Lines(file) /\ d \notin Good(file)
          BY <2>11, <2>12, <3>2, <4>2
        <5> QED BY <2>4, <5>1 DEF Reach
      <4>3. CASE d \notin 1..n
        BY <2>1, <2>9, <4>1, <4>3
      <4> QED BY <4>2, <4>3
    <3> QED BY <3>1, <3>2 DEF Reach
  <2>14. RecordAt(file, e)'.id = r
    <3>1. Line(file', e)[1].id = r
      BY <2>8, <2>9, <2>10
    <3>2. r \in 1..Len(written')
      BY <2>1, <2>3, <2>8
    <3>3. written'[r].id = r /\ written'[r] \in Entries
      BY <2>3, <3>2 DEF WrittenInv
    <3>4. Read(r)'.id = r
      BY <3>3 DEF Read, Entries
    <3> QED BY <3>1, <3>4 DEF RecordAt, Read
  <2> QED BY <2>13, <2>14 DEF All
<1>2. QED
  <2>1. LogInv /\ [Next]_vars => [acked \cap acked' \cap All(file) \subseteq All(file)']_vars
    BY <1>1
  <2> QED BY <2>1, LogInductive, PTL DEF Spec, KeepsSynced
-----------------------------------------------------------------------------
(* Without faults the file and what is buffered are n whole records, and    *)
(* each chains to the one before it.                                        *)
Wholly(f, n) ==
  /\ Len(f) = 3 * n
  /\ \A k \in 1..n : f[3 * k - 2] = P(k, "A") /\ f[3 * k - 1] = P(k, "B") /\ f[3 * k] = P(k, "nl")

Tip(k) == IF k = 0 THEN Genesis ELSE written[k].hash

Chained == \A k \in 1..Len(written) : written[k].prev = Tip(k - 1)

CleanInv ==
  faults = 0 =>
    /\ writer # "broken" /\ (writer = "closed" => buf = <<>>)
    /\ Wholly(file \o buf, Len(written))
    /\ writer = "open" => prev = Tip(Len(written))
    /\ Chained

(* Every place but 0 belongs to one record. *)
LEMMA Thirds ==
  ASSUME NEW n \in Nat, NEW d \in 1..(3 * n)
  PROVE  \E k \in 1..n : d = 3 * k - 2 \/ d = 3 * k - 1 \/ d = 3 * k
<1> DEFINE T == {k \in Nat : d <= 3 * k}
<1>1. n \in T
  OBVIOUS
<1>2. T \in SUBSET Nat /\ T # {}
  BY <1>1
<1>3. PICK k \in T : \A y \in T : k <= y
  BY <1>2, Least
<1>4. k \in Nat /\ d <= 3 * k /\ k <= n
  BY <1>1, <1>3
<1>5. k >= 1
  BY <1>4
<1>6. d > 3 * (k - 1)
  <2>1. k - 1 \in Nat
    BY <1>4, <1>5
  <2>2. CASE d <= 3 * (k - 1)
    <3>1. k - 1 \in T
      BY <2>1, <2>2
    <3>2. k <= k - 1
      BY <1>3, <3>1
    <3> QED BY <1>4, <3>2
  <2> QED BY <1>4, <2>1, <2>2
<1> HIDE DEF T
<1>7. d = 3 * k - 2 \/ d = 3 * k - 1 \/ d = 3 * k
  BY <1>4, <1>6
<1> QED BY <1>4, <1>5, <1>7

LEMMA WholePlaces ==
  ASSUME NEW n \in Nat, NEW f \in Seq(Piece), Wholly(f, n)
  PROVE  /\ Len(f) = 3 * n /\ 3 * n \in Nat
         /\ \A k \in 1..n : /\ 3 * k \in 1..Len(f) /\ 3 * k - 1 \in 1..Len(f) /\ 3 * k - 2 \in 1..Len(f)
                            /\ 3 * k \in Ends(f)
         /\ \A e \in Ends(f) : e = 3 * n + 1 \/ \E k \in 1..n : e = 3 * k
<1>1. Len(f) = 3 * n /\ 3 * n \in Nat
  BY DEF Wholly
<1>2. ASSUME NEW k \in 1..n
      PROVE  3 * k \in 1..Len(f) /\ 3 * k - 1 \in 1..Len(f) /\ 3 * k - 2 \in 1..Len(f)
  BY <1>1
<1>3. ASSUME NEW k \in 1..n PROVE 3 * k \in Ends(f)
  <2>1. f[3 * k].part = "nl"
    <3>1. f[3 * k] = P(k, "nl")
      BY DEF Wholly
    <3> QED BY <3>1, PartIs
  <2> QED BY <1>2, <2>1, EndsAre
<1>4. ASSUME NEW e \in Ends(f), e # 3 * n + 1 PROVE \E k \in 1..n : e = 3 * k
  <2>1. e \in 1..(3 * n) /\ f[e].part = "nl"
    BY <1>1, <1>4 DEF Ends
  <2>2. PICK k \in 1..n : e = 3 * k - 2 \/ e = 3 * k - 1 \/ e = 3 * k
    BY <2>1, Thirds
  <2>3. f[3 * k - 2].part # "nl" /\ f[3 * k - 1].part # "nl"
    <3>1. f[3 * k - 2] = P(k, "A") /\ f[3 * k - 1] = P(k, "B")
      BY DEF Wholly
    <3> QED BY <3>1, PartIs
  <2> QED BY <2>1, <2>2, <2>3
<1> QED BY <1>1, <1>2, <1>3, <1>4

(* Each of its lines is a record; behind the last end there is nothing.     *)
LEMMA WholeLines ==
  ASSUME NEW n \in Nat, NEW f \in Seq(Piece), Wholly(f, n)
  PROVE  /\ Lines(f) = {3 * k : k \in 1..n}
         /\ \A k \in 1..n : /\ Len(Line(f, 3 * k)) = 2
                            /\ Line(f, 3 * k)[1] = P(k, "A") /\ Line(f, 3 * k)[2] = P(k, "B")
<1>1. ASSUME NEW k \in 1..n
      PROVE  /\ Len(Line(f, 3 * k)) = 2
             /\ Line(f, 3 * k)[1] = P(k, "A") /\ Line(f, 3 * k)[2] = P(k, "B")
  <2>1. PICK e \in 1..(Len(f) + 1) : e = 3 * k
    <3>1. 3 * k \in 1..Len(f)
      BY WholePlaces
    <3> QED BY <3>1
  <2> DEFINE m == Before(f, e)
  <2>2. /\ m \in 0..(e - 1) /\ (m = 0 \/ m \in Ends(f))
        /\ \A d \in Ends(f) : d < e => d <= m
        /\ Len(Line(f, e)) = e - 1 - m
        /\ \A l \in 1..(e - 1 - m) : Line(f, e)[l] = f[m + l]
    BY LineIs
  <2> HIDE DEF m
  <2>3. m = 3 * (k - 1)
    <3>1. m >= 3 * (k - 1)
      <4>1. CASE k = 1
        BY <2>1, <2>2, <4>1
      <4>2. CASE k # 1
        <5>1. PICK j \in 1..n : j = k - 1
          BY <4>2
        <5>2. 3 * j \in Ends(f)
          BY WholePlaces
        <5> QED BY <2>1, <2>2, <5>1, <5>2
      <4> QED BY <4>1, <4>2
    <3>2. m <= 3 * (k - 1)
      <4>1. CASE m = 0
        BY <4>1
      <4>2. CASE m \in Ends(f)
        <5>1. m = 3 * n + 1 \/ \E j \in 1..n : m = 3 * j
          BY <4>2, WholePlaces
        <5>2. m # 3 * n + 1
          BY <2>1, <2>2
        <5>3. PICK j \in 1..n : m = 3 * j
          BY <5>1, <5>2
        <5>4. j < k
          BY <2>1, <2>2, <5>3
        <5> QED BY <5>3, <5>4
      <4> QED BY <2>2, <4>1, <4>2
    <3> QED BY <2>2, <3>1, <3>2
  <2>4. e - 1 - m = 2 /\ m + 1 = 3 * k - 2 /\ m + 2 = 3 * k - 1
    BY <2>1, <2>3
  <2>5. 1 \in 1..(e - 1 - m) /\ 2 \in 1..(e - 1 - m)
    BY <2>4
  <2>6. Line(f, e)[1] = f[3 * k - 2] /\ Line(f, e)[2] = f[3 * k - 1]
    BY <2>2, <2>4, <2>5
  <2>7. f[3 * k - 2] = P(k, "A") /\ f[3 * k - 1] = P(k, "B")
    BY DEF Wholly
  <2> QED BY <2>1, <2>2, <2>4, <2>6, <2>7
<1>2. Line(f, 3 * n + 1) = <<>>
  <2>1. PICK e \in 1..(Len(f) + 1) : e = 3 * n + 1
    BY DEF Wholly
  <2>2. /\ Before(f, e) \in 0..(e - 1) /\ Line(f, e) \in Seq(Piece)
        /\ \A d \in Ends(f) : d < e => d <= Before(f, e)
        /\ Len(Line(f, e)) = e - 1 - Before(f, e)
    BY LineIs
  <2>3. Before(f, e) >= 3 * n
    <3>1. CASE n = 0
      BY <2>2, <3>1
    <3>2. CASE n # 0
      <4>1. 3 * n \in Ends(f)
        BY <3>2, WholePlaces
      <4> QED BY <2>1, <2>2, <4>1
    <3> QED BY <3>1, <3>2
  <2>4. Len(Line(f, e)) = 0
    BY <2>1, <2>2, <2>3
  <2>5. Line(f, e) = <<>>
    BY <2>2, <2>4
  <2> QED BY <2>1, <2>5
<1>3. ASSUME NEW e \in Lines(f) PROVE \E k \in 1..n : e = 3 * k
  BY <1>2, WholePlaces DEF Lines
<1>4. ASSUME NEW k \in 1..n PROVE 3 * k \in Lines(f)
  <2>1. 3 * k \in Ends(f)
    BY WholePlaces
  <2>2. Line(f, 3 * k) # <<>>
    <3>1. Len(<<>>) # 2
      OBVIOUS
    <3> QED BY <1>1, <3>1, Zenon
  <2> QED BY <2>1, <2>2 DEF Lines
<1>5. Lines(f) = {3 * k : k \in 1..n}
  BY <1>3, <1>4
<1> QED BY <1>1, <1>5
-----------------------------------------------------------------------------
(* A Writer that opens such a file chains to its last record. *)
LEMMA ResumeWhole ==
  ASSUME WrittenInv, file \in Seq(Piece), Wholly(file, Len(written))
  PROVE  Resume(file) = Tip(Len(written))
<1> DEFINE n == Len(written)
           q == LastLine(file)
<1>1. n \in Nat /\ Len(file) = 3 * n /\ Len(file) \in Nat
  BY DEF WrittenInv, Wholly
<1>2. PICK b \in 0..Len(file) :
        \E from \in 0..b :
           /\ b = IF file # <<>> /\ file[Len(file)].part = "nl" THEN Len(file) - 1 ELSE Len(file)
           /\ from = 0 \/ file[from].part = "nl"
           /\ \A j \in 1..b : file[j].part = "nl" => j <= from
           /\ Len(q) = b - from
           /\ \A k \in 1..(b - from) : q[k] = file[from + k]
  BY LastLineIs
<1>3. PICK from \in 0..b :
           /\ b = IF file # <<>> /\ file[Len(file)].part = "nl" THEN Len(file) - 1 ELSE Len(file)
           /\ from = 0 \/ file[from].part = "nl"
           /\ \A j \in 1..b : file[j].part = "nl" => j <= from
           /\ Len(q) = b - from
           /\ \A k \in 1..(b - from) : q[k] = file[from + k]
  BY <1>2
<1> HIDE DEF q
<1>4. CASE n = 0
  <2>1. Len(q) = 0
    BY <1>1, <1>3, <1>4
  <2>2. ~Parses(q)
    BY <2>1 DEF Parses
  <2> QED BY <1>4, <2>2 DEF Resume, Tip, q
<1>5. CASE n # 0
  <2>1. /\ file[3 * n] = P(n, "nl") /\ file[3 * n - 1] = P(n, "B") /\ file[3 * n - 2] = P(n, "A")
    <3>1. n \in 1..n
      BY <1>1, <1>5
    <3> QED BY <3>1 DEF Wholly
  <2>2. file # <<>> /\ file[Len(file)].part = "nl"
    <3>1. \A s : s = <<>> => Len(s) = 0
      OBVIOUS
    <3>2. Len(file) # 0
      BY <1>1, <1>5
    <3> QED BY <1>1, <2>1, <3>1, <3>2, PartIs
  <2>3. b = 3 * n - 1
    BY <1>1, <1>3, <2>2
  <2>4. from = 3 * n - 3
    <3>1. from >= 3 * n - 3
      <4>1. CASE n = 1
        BY <1>1, <1>3, <4>1
      <4>2. CASE n # 1
        <5>0. n - 1 \in 1..n
          <6> HIDE DEF n
          <6> QED BY <1>1, <1>5, <4>2
        <5>1. PICK k \in 1..n : k = n - 1
          BY <5>0
        <5>2. file[3 * k] = P(k, "nl")
          BY DEF Wholly
        <5>3. file[3 * k].part = "nl"
          BY <5>2, PartIs
        <5>4. 3 * k \in 1..b
          BY <1>1, <2>3, <5>1
        <5>5. 3 * k <= from
          BY <1>3, <5>3, <5>4
        <5> QED BY <1>1, <1>3, <5>1, <5>5
      <4> QED BY <4>1, <4>2
    <3>2. from <= 3 * n - 3
      <4>1. CASE from = 0
        BY <1>1, <1>5, <4>1
      <4>2. CASE from # 0
        <5>1. file[from].part = "nl"
          BY <1>3, <4>2
        <5>2. from \in 1..(3 * n) /\ from \in Nat
          BY <1>1, <1>3, <2>3, <4>2
        <5>3. from \in Ends(file)
          BY <1>1, <5>1, <5>2, EndsAre
        <5>4. from = 3 * n + 1 \/ \E k \in 1..n : from = 3 * k
          BY <1>1, <5>3, WholePlaces
        <5>5. PICK k \in 1..n : from = 3 * k
          BY <1>1, <5>2, <5>4
        <5>6. 3 * k <= 3 * n - 1
          BY <1>1, <1>3, <2>3, <5>5
        <5>7. k <= n - 1
          BY <1>1, <5>6
        <5> QED BY <1>1, <5>5, <5>7
      <4> QED BY <4>1, <4>2
    <3> QED BY <1>1, <1>3, <3>1, <3>2
  <2>5. b - from = 2 /\ from + 1 = 3 * n - 2 /\ from + 2 = 3 * n - 1
    BY <1>1, <2>3, <2>4
  <2>6. 1 \in 1..(b - from) /\ 2 \in 1..(b - from)
    BY <2>5
  <2>7. Len(q) = 2 /\ q[1] = P(n, "A") /\ q[2] = P(n, "B")
    BY <1>3, <2>1, <2>5, <2>6
  <2>8. Parses(q) /\ q[1].id = n
    BY <2>7, PartIs DEF Parses
  <2>9. Resume(file) = Read(n).hash
    BY <2>8 DEF Resume, q
  <2>10. n \in 1..Len(written)
    BY <1>1, <1>5
  <2>11. Read(n).hash = written[n].hash
    BY <2>10, ReadIs
  <2> QED BY <1>5, <2>9, <2>11 DEF Tip
<1> QED BY <1>4, <1>5

(* Three more pieces, one more record. *)
LEMMA WholeGrows ==
  ASSUME NEW n \in Nat, NEW f \in Seq(Piece), Wholly(f, n)
  PROVE  Wholly(f \o Pieces(n + 1), n + 1)
<1> DEFINE q == Pieces(n + 1)
           g == f \o q
<1>1. q = <<P(n + 1, "A"), P(n + 1, "B"), P(n + 1, "nl")>>
  BY DEF Pieces, P
<1>2. P(n + 1, "A") \in Piece /\ P(n + 1, "B") \in Piece /\ P(n + 1, "nl") \in Piece
  BY DEF P, Piece
<1>3. q \in Seq(Piece) /\ Len(q) = 3
  BY <1>1, <1>2, Triple
<1>4. q[1] = P(n + 1, "A") /\ q[2] = P(n + 1, "B") /\ q[3] = P(n + 1, "nl")
  BY <1>1
<1> HIDE DEF q
<1>5. /\ Len(g) = Len(f) + Len(q)
      /\ \A j \in 1..Len(f) : g[j] = f[j]
      /\ \A j \in 1..Len(q) : g[Len(f) + j] = q[j]
  BY <1>3, Zenon, JoinedPieces
<1>6. Len(f) = 3 * n
  BY DEF Wholly
<1>7. 1 \in 1..Len(q) /\ 2 \in 1..Len(q) /\ 3 \in 1..Len(q)
  BY <1>3
<1> HIDE DEF g
<1>8. Len(g) = 3 * (n + 1)
  BY <1>3, <1>5, <1>6
<1>9. ASSUME NEW k \in 1..(n + 1)
      PROVE  g[3 * k - 2] = P(k, "A") /\ g[3 * k - 1] = P(k, "B") /\ g[3 * k] = P(k, "nl")
  <2>1. CASE k \in 1..n
    <3>1. 3 * k \in 1..Len(f) /\ 3 * k - 1 \in 1..Len(f) /\ 3 * k - 2 \in 1..Len(f)
      BY <2>1, WholePlaces
    <3>2. f[3 * k - 2] = P(k, "A") /\ f[3 * k - 1] = P(k, "B") /\ f[3 * k] = P(k, "nl")
      BY <2>1 DEF Wholly
    <3> QED BY <1>5, <3>1, <3>2
  <2>2. CASE k \notin 1..n
    <3>1. k = n + 1
      BY <2>2
    <3>2. 3 * k - 2 = Len(f) + 1 /\ 3 * k - 1 = Len(f) + 2 /\ 3 * k = Len(f) + 3
      BY <1>6, <3>1
    <3>3. g[Len(f) + 1] = q[1] /\ g[Len(f) + 2] = q[2] /\ g[Len(f) + 3] = q[3]
      BY <1>5, <1>7
    <3> QED BY <1>4, <3>1, <3>2, <3>3
  <2> QED BY <2>1, <2>2
<1>10. Wholly(g, n + 1)
  BY <1>8, <1>9 DEF Wholly
<1> QED BY <1>10 DEF g, q

LEMMA CleanStep ==
  ASSUME LogInv, CleanInv, [Next]_vars
  PROVE  CleanInv'
<1> SUFFICES ASSUME faults' = 0
             PROVE  /\ writer' # "broken" /\ (writer' = "closed" => buf' = <<>>)
                    /\ Wholly(file' \o buf', Len(written'))
                    /\ writer' = "open" => prev' = Tip(Len(written))'
                    /\ Chained'
  BY DEF CleanInv
<1>1. /\ file \in Seq(Piece) /\ buf \in Seq(Piece) /\ Len(written) \in Nat /\ WrittenInv
      /\ faults \in Nat /\ Len(buf) \in Nat
      /\ writer \in {"closed", "open", "broken"}
  BY KindsAssumption DEF LogInv, FileInv, WrittenInv
<1>2. faults = 0 /\ ~Fault
  <2>1. faults' = faults \/ faults' = faults + 1
    BY DEF Next, NewWriter, Write, WriteFails, Sync, SyncFails, Close, Kill, PowerLoss, Fault, vars
  <2>2. faults + 1 # 0
    BY <1>1
  <2>3. faults = 0
    BY <2>1, <2>2
  <2> QED BY <2>3 DEF Fault
<1>3. /\ writer # "broken" /\ (writer = "closed" => buf = <<>>)
      /\ Wholly(file \o buf, Len(written))
      /\ writer = "open" => prev = Tip(Len(written))
      /\ Chained
  BY <1>2 DEF CleanInv
<1>4. ASSUME written' = written
      PROVE  Chained' /\ Tip(Len(written))' = Tip(Len(written))
  BY <1>3, <1>4 DEF Chained, Tip
<1>5. CASE UNCHANGED vars
  <2>1. /\ writer' = writer /\ buf' = buf /\ file' = file /\ written' = written /\ prev' = prev
    BY <1>5 DEF vars
  <2> QED BY <1>3, <1>4, <2>1
<1>6. CASE NewWriter
  <2>1. /\ writer = "closed" /\ writer' = "open" /\ buf' = <<>> /\ prev' = Resume(file)
        /\ file' = file /\ written' = written
    BY <1>6 DEF NewWriter, Opened
  <2>2. file \o <<>> = file
    BY <1>1, ConcatEmptySeq
  <2>3. Wholly(file, Len(written))
    BY <1>3, <2>1, <2>2
  <2>4. Resume(file) = Tip(Len(written))
    BY <1>1, <2>3, ResumeWhole
  <2> QED BY <1>4, <2>1, <2>2, <2>3, <2>4
<1>7. ASSUME NEW kind \in Kinds, Write(kind)
      PROVE  /\ writer' # "broken" /\ (writer' = "closed" => buf' = <<>>)
             /\ Wholly(file' \o buf', Len(written'))
             /\ writer' = "open" => prev' = Tip(Len(written))'
             /\ Chained'
  <2> DEFINE n == Len(written)
             r == Record(n + 1, kind, prev)
             b == buf \o Pieces(n + 1)
  <2>1. n \in Nat /\ PrevInv
    BY <1>1 DEF LogInv
  <2>2. r.id = n + 1 /\ r.prev = prev
    BY <2>1, RecordIs DEF PrevInv
  <2>3. /\ writer = "open" /\ writer' = "open" /\ n < MaxRecords
        /\ written' = Append(written, r) /\ prev' = r.hash
    BY <1>7 DEF Write, Advance
  <2>4. PICK k \in 0..(Len(buf) + 3) : Flush(b, k)
    BY <1>7, <2>2 DEF Write
  <2>5. /\ Len(written') = n + 1 /\ written'[n + 1] = r
        /\ \A l \in 1..n : written'[l] = written[l]
    BY <1>1, <2>1, <2>3, WrittenGrows
  <2> HIDE DEF r
  <2>6. Tip(Len(written))' = r.hash
    BY <2>1, <2>5 DEF Tip
  <2>7. Chained'
    <3> SUFFICES ASSUME NEW l \in 1..(n + 1) PROVE written'[l].prev = Tip(l - 1)'
      BY <2>5 DEF Chained
    <3>1. CASE l \in 1..n
      <4>1. written[l].prev = Tip(l - 1) /\ written'[l] = written[l]
        BY <1>3, <2>5, <3>1 DEF Chained
      <4>2. l - 1 = 0 \/ l - 1 \in 1..n
        BY <2>1, <3>1
      <4>3. Tip(l - 1)' = Tip(l - 1)
        BY <2>5, <4>2 DEF Tip
      <4> QED BY <4>1, <4>3
    <3>2. CASE l \notin 1..n
      <4>1. l = n + 1 /\ l - 1 = n
        BY <2>1, <3>2
      <4>2. n = 0 \/ n \in 1..n
        BY <2>1
      <4>3. IF n = 0 THEN Tip(n) = Genesis ELSE Tip(n) = written[n].hash /\ written'[n] = written[n]
        BY <2>5, <4>2 DEF Tip
      <4>4. Tip(l - 1)' = IF n = 0 THEN Genesis ELSE written'[n].hash
        BY <4>1 DEF Tip
      <4>5. Tip(l - 1)' = Tip(n)
        BY <4>3, <4>4
      <4> QED BY <1>3, <2>2, <2>3, <2>5, <4>1, <4>5
    <3> QED BY <3>1, <3>2
  <2>8. /\ b \in Seq(Piece) /\ Len(b) = Len(buf) + 3
        /\ file \o b = (file \o buf) \o Pieces(n + 1)
    BY <1>1, <2>3, BufGrows DEF LogInv
  <2>9. file' \o buf' = file \o b
    <3> HIDE DEF b
    <3>1. k \in 0..Len(b)
      BY <2>4, <2>8
    <3> QED BY <1>1, <2>4, <2>8, <3>1, FlushMoves
  <2>10. Wholly((file \o buf) \o Pieces(n + 1), n + 1)
    <3> HIDE DEF n
    <3>1. PICK g \in Seq(Piece) : g = file \o buf
      BY <1>1, JoinedPieces
    <3>2. Wholly(g, n)
      BY <1>3, <3>1 DEF n
    <3> QED BY <2>1, <3>1, <3>2, WholeGrows
  <2> HIDE DEF b
  <2>11. Wholly(file' \o buf', Len(written'))
    BY <2>5, <2>8, <2>9, <2>10
  <2> QED BY <2>3, <2>6, <2>7, <2>11
<1>8. ASSUME Flush(buf, Len(buf)) PROVE file' \o buf' = file \o buf /\ buf' = <<>>
  <2>1. Len(buf) \in 0..Len(buf)
    BY <1>1
  <2>2. /\ buf' \in Seq(Piece) /\ file' \o buf' = file \o buf /\ Len(buf') = Len(buf) - Len(buf)
    BY <1>1, <1>8, <2>1, FlushMoves
  <2>3. Len(buf') = 0
    BY <1>1, <2>2
  <2>4. buf' = <<>>
    BY <2>2, <2>3
  <2> QED BY <2>2, <2>4
<1>9. CASE Sync
  <2>1. Flush(buf, Len(buf)) /\ writer = "open" /\ UNCHANGED <<written, writer, prev>>
    BY <1>9 DEF Sync
  <2> QED BY <1>3, <1>4, <1>8, <2>1
<1>10. CASE Close
  <2>1. Flush(buf, Len(buf)) /\ writer' = "closed" /\ UNCHANGED <<written, prev>>
    BY <1>3, <1>10 DEF Close
  <2> QED BY <1>3, <1>4, <1>8, <2>1
<1>11. ~(SyncFails \/ Kill \/ PowerLoss \/ \E kind \in Kinds : WriteFails(kind))
  BY <1>2 DEF SyncFails, Kill, PowerLoss, WriteFails
<1> QED BY <1>5, <1>6, <1>7, <1>9, <1>10, <1>11 DEF Next
-----------------------------------------------------------------------------
(* A whole chain of records that can be read back loads. *)
LEMMA WholeLoads ==
  ASSUME WrittenInv, file \in Seq(Piece), Wholly(file, Len(written)), Chained,
         \A k \in 1..Len(written) : LET r == written[k] IN
           r.text = "clean" /\ r.schema = 1 /\ r.size = "small"
  PROVE  LoadAll(file)
<1> DEFINE n == Len(written)
<1>1. n \in Nat
  BY DEF WrittenInv
<1>2. /\ Lines(file) = {3 * k : k \in 1..n}
      /\ \A k \in 1..n : /\ Len(Line(file, 3 * k)) = 2
                         /\ Line(file, 3 * k)[1] = P(k, "A") /\ Line(file, 3 * k)[2] = P(k, "B")
  BY <1>1, WholeLines
<1>3. ASSUME NEW k \in 1..n
      PROVE  Parses(Line(file, 3 * k)) /\ Fits(Line(file, 3 * k)) /\ RecordAt(file, 3 * k) = Read(k)
  <2> DEFINE q == Line(file, 3 * k)
  <2>1. Len(q) = 2 /\ q[1] = P(k, "A") /\ q[2] = P(k, "B")
    BY <1>2
  <2> HIDE DEF q
  <2>2. Parses(q) /\ q[1].id = k /\ q[2].id = k
    BY <2>1, PartIs DEF Parses
  <2>3. Fits(q)
    <3>1. \A l \in 1..Len(q) : l = 1 \/ l = 2
      BY <2>1
    <3>2. written[k].size = "small"
      OBVIOUS
    <3> QED BY <2>2, <3>1, <3>2 DEF Fits
  <2>4. RecordAt(file, 3 * k) = Read(k)
    BY <2>2 DEF RecordAt, q
  <2> QED BY <2>2, <2>3, <2>4 DEF q
<1>4. Good(file) = Lines(file)
  BY <1>2, <1>3 DEF Good
<1>5. Reach(file) = Lines(file)
  BY <1>4 DEF Reach
<1>6. ASSUME NEW k \in 1..n PROVE Valid(Read(k))
  <2>1. /\ Read(k).id = k /\ Read(k).schema = 1 /\ Read(k).hash = written[k].hash
        /\ Read(k).text = Unmarshal(Marshal("clean"))
    BY ReadIs
  <2>2. Unmarshal(Marshal("clean")) = "clean"
    BY DEF Unmarshal, Marshal
  <2>3. written[k].hash = Hash(k, "clean")
    BY DEF WrittenInv
  <2> QED BY <2>1, <2>2, <2>3 DEF Valid
<1>7. ASSUME NEW k \in 1..n
      PROVE  LET before == {d \in Reach(file) : d < 3 * k}
             IN Read(k).prev = IF before = {} THEN Genesis ELSE RecordAt(file, Max(before)).hash
  <2> DEFINE before == {d \in Reach(file) : d < 3 * k}
  <2>1. before = {3 * l : l \in 1..(k - 1)}
    <3>1. \A l \in 1..n : 3 * l < 3 * k <=> l \in 1..(k - 1)
      BY <1>1
    <3>2. \A l \in 1..(k - 1) : l \in 1..n
      BY <1>1
    <3>3. Reach(file) = {3 * l : l \in 1..n}
      BY <1>2, <1>5
    <3>4. ASSUME NEW d \in before PROVE d \in {3 * l : l \in 1..(k - 1)}
      <4>1. PICK l \in 1..n : d = 3 * l
        BY <3>3, <3>4
      <4> QED BY <3>1, <3>4, <4>1
    <3>5. ASSUME NEW l \in 1..(k - 1) PROVE 3 * l \in before
      BY <3>1, <3>2, <3>3, <3>5
    <3> QED BY <3>4, <3>5
  <2>2. Read(k).prev = Tip(k - 1)
    BY ReadIs DEF Chained
  <2> HIDE DEF before
  <2>3. CASE k = 1
    <3>1. before = {}
      BY <2>1, <2>3
    <3> QED BY <2>2, <2>3, <3>1 DEF Tip, before
  <2>4. CASE k # 1
    <3>1. PICK l \in 1..(k - 1) : l = k - 1
      BY <2>4
    <3>2. 3 * l \in before /\ before \in SUBSET (0..(3 * k)) /\ 3 * k \in Nat
      BY <1>1, <2>1, <3>1
    <3>3. Max(before) \in before /\ \A y \in before : y <= Max(before)
      BY <3>2, Greatest
    <3>4. PICK j \in 1..(k - 1) : Max(before) = 3 * j
      BY <2>1, <3>3
    <3>5. 3 * l <= 3 * j
      BY <3>2, <3>3, <3>4
    <3>6. j = l
      BY <3>1, <3>4, <3>5
    <3>7. l \in 1..n /\ l # 0
      BY <1>1, <3>1
    <3>8. RecordAt(file, Max(before)) = Read(l)
      BY <1>3, <3>4, <3>6, <3>7
    <3>9. Read(l).hash = Tip(k - 1)
      BY <3>1, <3>7, ReadIs DEF Tip
    <3>10. before # {}
      BY <3>2
    <3> QED BY <2>2, <3>8, <3>9, <3>10 DEF before
  <2> QED BY <2>3, <2>4
<1>8. VerifyChain(file, Reach(file))
  <2> SUFFICES ASSUME NEW e \in Reach(file)
               PROVE  LET r == RecordAt(file, e)
                          before == {d \in Reach(file) : d < e}
                      IN Valid(r) /\ r.prev = IF before = {} THEN Genesis
                                               ELSE RecordAt(file, Max(before)).hash
    BY DEF VerifyChain
  <2>1. PICK k \in 1..n : e = 3 * k
    BY <1>2, <1>5
  <2>2. RecordAt(file, e) = Read(k)
    BY <1>3, <2>1
  <2> QED BY <1>6, <1>7, <2>1, <2>2
<1> QED BY <1>5, <1>8 DEF LoadAll, Failed

(* THEOREM CleanLoads: as long as nothing was interrupted and every record  *)
(* can be read back, what is on disk after a Sync is a chain that LoadAll   *)
(* accepts, over any number of Writers (writer.go:29-53, 57-88).            *)
THEOREM CleanLoads == Spec => []CleanLogLoads
<1>1. Init => CleanInv
  <2> SUFFICES ASSUME Init PROVE CleanInv
    OBVIOUS
  <2>1. written = <<>> /\ file = <<>> /\ buf = <<>> /\ writer = "closed" /\ Len(<<>>) = 0
    BY DEF Init
  <2>2. file \o buf = <<>>
    BY <2>1
  <2>3. Wholly(<<>>, 0)
    BY <2>1 DEF Wholly
  <2>4. Chained
    BY <2>1 DEF Chained
  <2> QED BY <2>1, <2>2, <2>3, <2>4 DEF CleanInv
<1>2. LogInv /\ CleanInv /\ [Next]_vars => CleanInv'
  BY CleanStep
<1>3. LogInv /\ CleanInv => CleanLogLoads
  <2> SUFFICES ASSUME LogInv, CleanInv, faults = 0, buf = <<>>,
                      \A k \in 1..Len(written) : LET r == written[k] IN
                        r.text = "clean" /\ r.schema = 1 /\ r.size = "small"
               PROVE  LoadAll(file)
    BY DEF CleanLogLoads, SyncedLogLoads
  <2>1. WrittenInv /\ file \in Seq(Piece) /\ Chained /\ Wholly(file \o buf, Len(written))
    BY DEF LogInv, FileInv, CleanInv
  <2>2. file \o buf = file
    BY <2>1, ConcatEmptySeq
  <2>3. Wholly(file, Len(written))
    BY <2>1, <2>2
  <2> QED BY <2>1, <2>3, WholeLoads
<1> QED BY <1>1, <1>2, <1>3, LogInductive, PTL DEF Spec
=============================================================================
