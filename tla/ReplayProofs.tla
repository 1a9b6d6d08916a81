---------------------------- MODULE ReplayProofs ----------------------------
(***************************************************************************)
(* What a replay executes, and what its nil means, for every log the       *)
(* Writers can leave behind: any number of records and of faults.          *)
(***************************************************************************)
EXTENDS Replay, TraceLogProofs, FiniteSetTheorems

(* The answers so far are those of the records so far: none for a record    *)
(* that is passed over, one for every other; a strict replay ends at the    *)
(* first that is not the recorded one.                                      *)
Progress ==
  /\ mode \in Modes \cup {"none"} /\ ret \in {"none", "nil", "err"}
  /\ i \in Nat /\ answers \in Seq(Answers \cup {"none"}) /\ Len(answers) = i
  /\ mode = "none" => i = 0 /\ ret = "none"
  /\ \A j \in 1..i : answers[j] # "none" <=> mode # "dry-run" /\ recs[j].decision = "executed"
  /\ mode = "strict" =>
       \A j \in 1..i : answers[j] \notin {"none", "same"} => j = i /\ ret = "err"
  /\ ret = "nil" => i = Len(recs)

(* A session begins. *)
LEMMA InitProgress == ReplayInit => Progress
  BY DEF ReplayInit, Progress

(* One answer more: the others stay what they were. *)
LEMMA OneMore ==
  ASSUME Progress, NEW a \in Answers \cup {"none"}, answers' = Append(answers, a), i' = i + 1
  PROVE  /\ i' \in Nat /\ answers' \in Seq(Answers \cup {"none"}) /\ Len(answers') = i'
         /\ answers'[i + 1] = a /\ \A j \in 1..i : answers'[j] = answers[j]
         /\ \A j \in 1..i' : j \in 1..i \/ j = i + 1
BY DEF Progress

(* Every step of a replay keeps it. *)
LEMMA StepProgress == Progress /\ [SessionNext]_<<vars, replayVars>> => Progress'
<1> SUFFICES ASSUME Progress, [SessionNext]_<<vars, replayVars>> PROVE Progress'
  OBVIOUS
<1>1. CASE UNCHANGED replayVars
  BY <1>1 DEF Progress, replayVars
<1>2. ASSUME NEW m \in Modes, Load(m) PROVE Progress'
  <2>1. i = 0 /\ i' = 0 /\ answers' = answers /\ mode' = m
    BY <1>2 DEF Load, Progress
  <2>2. ret' \in {"none", "err"} \/ (ret' = "nil" /\ recs' = <<>>)
    BY <1>2 DEF Load, Progress
  <2> QED BY <2>1, <2>2, <1>2 DEF Progress, Modes
<1>3. CASE Pass
  <2>1. /\ UNCHANGED <<mode, recs, ret>> /\ ret = "none" /\ mode # "none"
        /\ mode = "dry-run" \/ recs[i + 1].decision # "executed"
    BY <1>3 DEF Pass, Due, NotExecuted
  <2>2. answers' = Append(answers, "none") /\ i' = i + 1
    BY <1>3 DEF Pass
  <2>3. /\ i' \in Nat /\ answers' \in Seq(Answers \cup {"none"}) /\ Len(answers') = i'
        /\ answers'[i + 1] = "none" /\ \A j \in 1..i : answers'[j] = answers[j]
        /\ \A j \in 1..i' : j \in 1..i \/ j = i + 1
    BY <2>2, OneMore
  <2> QED BY <2>1, <2>3 DEF Progress
<1>4. ASSUME NEW a \in Answers, Execute(a) PROVE Progress'
  <2>1. /\ UNCHANGED <<mode, recs>> /\ ret = "none" /\ mode \notin {"none", "dry-run"}
        /\ recs[i + 1].decision = "executed"
        /\ ret' = IF mode = "strict" /\ a # "same" THEN "err" ELSE "none"
    BY <1>4 DEF Execute, Due, NotExecuted, Aborts
  <2>2. answers' = Append(answers, a) /\ i' = i + 1 /\ a # "none"
    BY <1>4 DEF Execute, Answers
  <2>3. /\ i' \in Nat /\ answers' \in Seq(Answers \cup {"none"}) /\ Len(answers') = i'
        /\ answers'[i + 1] = a /\ \A j \in 1..i : answers'[j] = answers[j]
        /\ \A j \in 1..i' : j \in 1..i \/ j = i + 1
    BY <2>2, OneMore
  <2> QED BY <2>1, <2>2, <2>3 DEF Progress
<1>5. CASE Finish
  BY <1>5 DEF Finish, Progress
<1> QED BY <1>1, <1>2, <1>3, <1>4, <1>5 DEF SessionNext, Replaying, replayVars

(* What has been executed is a prefix of what the mode asks for, and the result says
   how far it came (replay.go:48-111). *)
THEOREM ProgressHolds == SessionSpec => []Progress
<1>1. Init /\ ReplayInit => Progress
  BY InitProgress
<1> QED BY <1>1, StepProgress, PTL DEF SessionSpec, SessionInit

(* nil of a strict replay: every executed record was executed again and     *)
(* gave what it gave before; an error: the first that did not was the last. *)
THEOREM StrictSound == SessionSpec => []StrictIsSound
<1>1. Progress => StrictIsSound
  BY DEF Progress, StrictIsSound, Executed, ToBeDone, Answers
<1> QED BY <1>1, ProgressHolds, PTL
-----------------------------------------------------------------------------
(* Places in order. *)
Sorts(s, places) ==
  /\ s \in [1..Cardinality(places) -> places]
  /\ \A j, k \in DOMAIN s : j < k => s[j] < s[k]
  /\ \A e \in places : \E j \in DOMAIN s : s[j] = e

LEMMA Sortable ==
  ASSUME NEW n \in Nat, NEW S \in SUBSET (1..n)
  PROVE  \E s : Sorts(s, S)
<1> DEFINE T == {m \in Nat : \E X \in SUBSET (1..m) : ~ \E s : Sorts(s, X)}
<1>1. SUFFICES ASSUME T # {} PROVE FALSE
  <2>1. n \notin T
    BY <1>1
  <2> QED BY <2>1
<1>2. PICK m \in T : \A y \in T : m <= y
  <2>1. T \in SUBSET Nat
    OBVIOUS
  <2> HIDE DEF T
  <2> QED BY <1>1, <2>1, Least
<1>3. PICK X \in SUBSET (1..m) : ~ \E s : Sorts(s, X)
  BY <1>2
<1>4. m \in Nat /\ \A l \in Nat : l < m => l \notin T
  <2>1. m \in Nat
    BY <1>2
  <2>2. \A l \in T : ~(l < m)
    BY <1>2
  <2> QED BY <2>1, <2>2
<1>5. CASE m = 0
  <2>0. X = {}
    <3>1. \A x : ~(x \in 1..0)
      OBVIOUS
    <3>2. X \in SUBSET (1..0)
      BY <1>5, Zenon
    <3> QED BY <3>1, <3>2, Zenon
  <2>1. X = {} /\ Cardinality(X) = 0
    BY <2>0, FS_EmptySet
  <2> DEFINE s == [j \in 1..0 |-> 0]
  <2>2. s \in [1..0 -> X] /\ DOMAIN s = {}
    OBVIOUS
  <2>3. Sorts(s, X)
    BY <2>1, <2>2 DEF Sorts
  <2> QED BY <1>3, <2>3
<1>6. CASE m # 0
  <2>1. PICK l \in Nat : l < m /\ m = l + 1
    <3>1. m - 1 \in Nat /\ m - 1 < m /\ m = (m - 1) + 1
      BY <1>4, <1>6
    <3> QED BY <3>1
  <2>2. \A Y \in SUBSET (1..l) : \E s : Sorts(s, Y)
    BY <1>4, <2>1
  <2>3. m \in X
    <3>1. CASE m \notin X
      <4>1. X \in SUBSET (1..l)
        BY <2>1, <3>1
      <4> QED BY <1>3, <2>2, <4>1
    <3> QED BY <3>1
  <2> DEFINE Y == X \ {m}
             c == Cardinality(Y)
  <2>4. Y \in SUBSET (1..l)
    BY <2>1
  <2>5. PICK s : Sorts(s, Y)
    BY <2>2, <2>4
  <2>6. c \in Nat /\ Cardinality(X) = c + 1
    <3>1. IsFiniteSet(1..m) /\ IsFiniteSet(X)
      <4>1. IsFiniteSet(1..m)
        BY <1>4, FS_Interval
      <4> QED BY <4>1, FS_Subset
    <3>2. IsFiniteSet(Y) /\ Cardinality(Y) = Cardinality(X) - 1
      BY <2>3, <3>1, FS_RemoveElement
    <3>3. Cardinality(X) \in Nat /\ Cardinality(Y) \in Nat
      BY <3>1, <3>2, FS_CardinalityType
    <3> QED BY <3>2, <3>3
  <2> DEFINE t == [j \in 1..(c + 1) |-> IF j = c + 1 THEN m ELSE s[j]]
  <2> HIDE DEF c
  <2>7. /\ s \in [1..c -> Y] /\ DOMAIN s = 1..c
        /\ \A j, k \in 1..c : j < k => s[j] < s[k]
        /\ \A e \in Y : \E j \in 1..c : s[j] = e
    BY <2>5 DEF Sorts, c
  <2>8. \A j \in 1..(c + 1) : j \in 1..c \/ j = c + 1
    BY <2>6
  <2>9. /\ \A j \in 1..c : t[j] = s[j] /\ s[j] \in Y /\ s[j] \in 1..l /\ j \in 1..(c + 1)
        /\ t[c + 1] = m /\ c + 1 \in 1..(c + 1) /\ DOMAIN t = 1..(c + 1)
    <3>1. DOMAIN t = 1..(c + 1) /\ c + 1 \in 1..(c + 1)
      BY <2>6
    <3>2. t[c + 1] = m
      BY <3>1
    <3>3. ASSUME NEW j \in 1..c
          PROVE  t[j] = s[j] /\ s[j] \in Y /\ s[j] \in 1..l /\ j \in 1..(c + 1)
      <4>1. j \in 1..(c + 1) /\ j # c + 1
        BY <2>6
      <4>2. t[j] = s[j]
        BY <4>1
      <4>3. s[j] \in Y
        BY <2>7
      <4> HIDE DEF Y
      <4> QED BY <2>4, <4>1, <4>2, <4>3
    <3> QED BY <3>1, <3>2, <3>3
  <2> HIDE DEF t
  <2>10. t \in [1..(c + 1) -> X]
    <3>1. \A j \in 1..(c + 1) : t[j] \in X
      BY <2>3, <2>8, <2>9
    <3> QED BY <3>1 DEF t
  <2>11. ASSUME NEW j \in 1..(c + 1), NEW k \in 1..(c + 1), j < k PROVE t[j] < t[k]
    <3>1. j \in 1..c
      BY <2>6, <2>11
    <3>2. CASE k \in 1..c
      BY <2>7, <2>9, <2>11, <3>1, <3>2
    <3>3. CASE k = c + 1
      BY <2>1, <2>9, <3>1, <3>3
    <3> QED BY <2>8, <3>2, <3>3
  <2>12. ASSUME NEW e \in X PROVE \E j \in 1..(c + 1) : t[j] = e
    <3>1. CASE e = m
      BY <2>9, <3>1
    <3>2. CASE e # m
      <4>1. PICK j \in 1..c : s[j] = e
        BY <2>7, <3>2
      <4> QED BY <2>9, <4>1
    <3> QED BY <3>1, <3>2
  <2>13. Sorts(t, X)
    BY <2>6, <2>9, <2>10, <2>11, <2>12 DEF Sorts
  <2> QED BY <1>3, <2>13
<1> QED BY <1>5, <1>6

LEMMA InOrderSorts ==
  ASSUME NEW n \in Nat, NEW S \in SUBSET (1..n)
  PROVE  Sorts(InOrder(S), S)
<1>1. PICK s : Sorts(s, S)
  BY Sortable
<1>2. /\ s \in [1..Cardinality(S) -> S]
      /\ \A j, k \in DOMAIN s : j < k => s[j] < s[k]
      /\ \A e \in S : \E j \in DOMAIN s : s[j] = e
  BY <1>1 DEF Sorts
<1> QED BY <1>2 DEF InOrder, Sorts
-----------------------------------------------------------------------------
(* The session works on the log; the Writers' invariant is its own too. *)
LEMMA SessionIsSpec == SessionSpec => Spec
<1>1. SessionInit => Init
  BY DEF SessionInit
<1>2. [SessionNext]_<<vars, replayVars>> => [Next]_vars
  BY DEF SessionNext, Replaying, vars
<1> QED BY <1>1, <1>2, PTL DEF SessionSpec, Spec

(* What a replay that was let in works on: the whole log, in order.         *)
Loaded == [j \in DOMAIN InOrder(Reach(file)) |-> RecordAt(file, InOrder(Reach(file))[j])]

LetIn == mode # "none" /\ (ret # "err" \/ i > 0)

SessionInv == LetIn => LoadAll(file) /\ recs = Loaded

LEMMA SessionStep ==
  ASSUME Progress, SessionInv, [SessionNext]_<<vars, replayVars>>
  PROVE  SessionInv'
<1>0. ASSUME UNCHANGED vars PROVE LoadAll(file)' = LoadAll(file) /\ Loaded' = Loaded
  BY <1>0 DEF Loaded, LoadAll, Failed, Reach, Good, Lines, Ends, Line, Parses, Fits, VerifyChain,
     Valid, RecordAt, Read, vars
<1>1. CASE UNCHANGED <<vars, replayVars>>
  <2>1. mode' = mode /\ ret' = ret /\ recs' = recs
    BY <1>1 DEF replayVars
  <2>2. LoadAll(file)' = LoadAll(file) /\ Loaded' = Loaded
    BY <1>0, <1>1
  <2>3. i' = i
    BY <1>1 DEF replayVars
  <2> QED BY <2>1, <2>2, <2>3 DEF SessionInv, LetIn
<1>2. CASE mode = "none" /\ UNCHANGED replayVars
  BY <1>2 DEF SessionInv, LetIn, replayVars
<1>3. CASE Replaying /\ UNCHANGED vars
  <2>1. LoadAll(file)' = LoadAll(file) /\ Loaded' = Loaded
    BY <1>0, <1>3
  <2>2. ASSUME NEW m \in Modes, Load(m) PROVE SessionInv'
    <3>1. CASE LoadAll(file)
      <4>1. recs' = Loaded
        BY <2>2, <3>1 DEF Load, Loaded
      <4> QED BY <2>1, <3>1, <4>1 DEF SessionInv
    <3>2. CASE ~LoadAll(file)
      <4>1. ret' = "err" /\ i' = 0
        BY <2>2, <3>2 DEF Load, Progress
      <4> QED BY <4>1 DEF SessionInv, LetIn
    <3> QED BY <3>1, <3>2
  <2>3. CASE Pass \/ (\E a \in Answers : Execute(a)) \/ Finish
    <3>1. mode # "none" /\ ret = "none" /\ UNCHANGED <<mode, recs>>
      BY <2>3 DEF Pass, Execute, Finish, Due
    <3> QED BY <2>1, <3>1 DEF SessionInv, LetIn
  <2> QED BY <1>3, <2>2, <2>3 DEF Replaying
<1> QED BY <1>1, <1>2, <1>3 DEF SessionNext

(* The list of the records in hand. *)
LEMMA RecordsAre ==
  ASSUME LogInv, SessionInv, LetIn
  PROVE  LET c == Cardinality(Reach(file)) IN
         /\ Sorts(InOrder(Reach(file)), Reach(file)) /\ c \in Nat
         /\ Len(recs) = c
         /\ \A j \in 1..c : /\ InOrder(Reach(file))[j] \in Reach(file)
                            /\ recs[j] = RecordAt(file, InOrder(Reach(file))[j])
<1> DEFINE S == Reach(file)
           s == InOrder(S)
           c == Cardinality(S)
<1>1. file \in Seq(Piece)
  BY DEF LogInv, FileInv
<1>2. PICK n \in Nat : n = Len(file) + 1
  BY <1>1
<1>3. S \in SUBSET (1..n)
  <2>1. \A e \in S : e \in Ends(file)
    BY DEF Reach, Lines
  <2> QED BY <1>1, <1>2, <2>1, EndsAre
<1>4. Sorts(s, S)
  <2> HIDE DEF S
  <2> QED BY <1>3, InOrderSorts
<1>5. c \in Nat
  <2>1. IsFiniteSet(1..n)
    BY FS_Interval
  <2>2. IsFiniteSet(S)
    BY <1>3, <2>1, FS_Subset
  <2> QED BY <2>2, FS_CardinalityType
<1>6. s \in [1..c -> S] /\ DOMAIN s = 1..c
  BY <1>4 DEF Sorts
<1>7. recs = [j \in 1..c |-> RecordAt(file, s[j])]
  BY <1>6 DEF SessionInv, Loaded
<1> HIDE DEF S, s, c
<1>8. \A j \in 1..c : s[j] \in S /\ recs[j] = RecordAt(file, s[j])
  BY <1>6, <1>7
<1>9. Len(recs) = c
  BY <1>5, <1>7
<1> QED BY <1>4, <1>5, <1>8, <1>9 DEF S, s, c

(* Its ids grow. *)
LEMMA IdsGrow ==
  ASSUME LogInv, LoadAll(file), NEW d \in Reach(file), NEW e \in Reach(file), d < e
  PROVE  RecordAt(file, d).id < RecordAt(file, e).id
<1>1. /\ Stream(file) /\ Within(file, Len(written)) /\ WrittenInv /\ file \in Seq(Piece)
      /\ Len(file) \in Nat
  BY DEF LogInv, FileInv
<1>2. ASSUME NEW x \in Reach(file)
      PROVE  /\ x - 1 \in 1..Len(file) /\ x \in Nat
             /\ file[x - 1] = P(RecordAt(file, x).id, "B")
             /\ RecordAt(file, x).id \in Nat
  <2>1. x \in Good(file) /\ x \in Ends(file)
    BY LoadedLines DEF Good, Lines
  <2>2. Parses(Line(file, x))
    BY <2>1 DEF Good
  <2> DEFINE r == Line(file, x)[1].id
  <2>3. x - 1 \in 1..Len(file) /\ file[x - 1] = P(r, "B")
    BY <1>1, <2>1, <2>2, ParsedIs
  <2>4. RecordAt(file, x) = Read(r)
    BY DEF RecordAt
  <2> HIDE DEF r
  <2>5. r \in 1..Len(written)
    <3>1. file[x - 1].id \in 1..Len(written)
      BY <1>1, <2>3 DEF Within
    <3> QED BY <2>3, <3>1, PartIs
  <2>6. Read(r).id = r
    BY <1>1, <2>5, ReadIs
  <2>7. x \in Nat
    BY <1>1, <2>1, EndsAre
  <2> QED BY <2>3, <2>4, <2>5, <2>6, <2>7
<1> DEFINE q == RecordAt(file, d).id
           r == RecordAt(file, e).id
<1>3. /\ d - 1 \in 1..Len(file) /\ e - 1 \in 1..Len(file) /\ d \in Nat /\ e \in Nat
      /\ file[d - 1] = P(q, "B") /\ file[e - 1] = P(r, "B") /\ q \in Nat /\ r \in Nat
  BY <1>2
<1>4. d - 1 < e - 1
  BY <1>3
<1>5. file[d - 1] # file[e - 1] /\ file[d - 1].id <= file[e - 1].id
  BY <1>1, <1>3, <1>4 DEF Stream
<1> HIDE DEF q, r
<1>6. q # r /\ q <= r
  BY <1>3, <1>5, PartIs
<1>7. q < r
  BY <1>3, <1>6
<1> QED BY <1>7 DEF q, r

(* A record that passes for valid is as it was written: the hash is over    *)
(* what Marshal made of its text, and no other text reads as that.          *)
LEMMA ReadAsWritten ==
  ASSUME WrittenInv, NEW k \in 1..Len(written), Valid(Read(k))
  PROVE  Read(k) = written[k]
<1>1. /\ Read(k).id = k /\ Read(k).hash = written[k].hash
      /\ Read(k).text = Unmarshal(Marshal(written[k].text))
      /\ written[k] \in Entries
  BY ReadIs
<1>2. written[k].hash = Hash(k, written[k].text)
  BY DEF WrittenInv
<1>3. Hash(k, written[k].text) = Hash(k, Read(k).text)
  BY <1>1, <1>2 DEF Valid
<1>4. Marshal(written[k].text) = Marshal(Read(k).text)
  BY <1>3 DEF Hash
<1>5. written[k].text \in {"clean", "unclean"}
  BY <1>1 DEF Entries
<1>6. Read(k).text = written[k].text
  BY <1>1, <1>4, <1>5 DEF Marshal, Unmarshal
<1>7. Unmarshal(Marshal(written[k].text)) = written[k].text
  BY <1>1, <1>6
<1> QED BY <1>1, <1>7 DEF Read, Entries

(* THEOREM DurableReplays: before the first call is made again, and when a  *)
(* replay returns nil, it has every record a Sync or a Close acknowledged,  *)
(* as it was written and in order; it makes the executed ones again without *)
(* a gap, and all of them when it returns nil and is no dry run, whatever   *)
(* crashed between the Writers (writer.go:91-109, reader.go:50-85,          *)
(* replay.go:60-111).                                                       *)
THEOREM DurableReplays == SessionSpec => []DurableIsReplayed
<1>1. SessionInit => SessionInv
  BY DEF SessionInit, ReplayInit, SessionInv, LetIn
<1>2. Progress /\ SessionInv /\ [SessionNext]_<<vars, replayVars>> => SessionInv'
  BY SessionStep
<1>3. ASSUME LogInv, SessionInv, LetIn
      PROVE  /\ \A r \in acked : \E j \in 1..Len(recs) : recs[j] = written[r]
             /\ \A j, k \in 1..Len(recs) : j < k => recs[j].id < recs[k].id
  <2> DEFINE s == InOrder(Reach(file))
             c == Cardinality(Reach(file))
  <2>1. LoadAll(file)
    BY <1>3 DEF SessionInv
  <2>2. /\ Sorts(s, Reach(file)) /\ c \in Nat /\ Len(recs) = c
        /\ \A j \in 1..c : s[j] \in Reach(file) /\ recs[j] = RecordAt(file, s[j])
    BY <1>3, RecordsAre
  <2>3. /\ DOMAIN s = 1..c
        /\ \A j, k \in 1..c : j < k => s[j] < s[k]
        /\ \A e \in Reach(file) : \E j \in 1..c : s[j] = e
    BY <2>2 DEF Sorts
  <2> HIDE DEF s, c
  <2>5. ASSUME NEW r \in acked
        PROVE  \E j \in 1..c : recs[j] = written[r]
    <3>1. /\ Stream(file) /\ Within(file, Len(written)) /\ WrittenInv
      BY <1>3 DEF LogInv, FileInv
    <3>2. PICK e \in 1..Len(file) : file[e] = P(r, "nl")
      BY <1>3 DEF LogInv, AckInv
    <3>3. PICK f : f = file
      OBVIOUS
    <3>4. e \in Lines(f) /\ (Parses(Line(f, e)) => Line(f, e)[1].id = r)
      BY <3>1, <3>2, <3>3, EndedIs
    <3>5. e \in Good(file) /\ e \in Reach(file)
      BY <2>1, <3>3, <3>4, LoadedLines
    <3>6. Line(file, e)[1].id = r
      BY <3>3, <3>4, <3>5 DEF Good
    <3>7. r \in 1..Len(written)
      <4>1. file[e].id \in 1..Len(written)
        BY <3>1 DEF Within
      <4> QED BY <3>2, <4>1, PartIs
    <3>8. RecordAt(file, e) = Read(r)
      BY <3>6 DEF RecordAt
    <3>9. Valid(RecordAt(file, e))
      BY <2>1, <3>5 DEF LoadAll, VerifyChain
    <3>10. RecordAt(file, e) = written[r]
      BY <3>1, <3>7, <3>8, <3>9, ReadAsWritten
    <3>11. PICK j \in 1..c : s[j] = e
      BY <2>3, <3>5
    <3> QED BY <2>2, <3>10, <3>11
  <2>6. ASSUME NEW j \in 1..c, NEW k \in 1..c, j < k PROVE recs[j].id < recs[k].id
    <3>2. /\ s[j] \in Reach(file) /\ recs[j] = RecordAt(file, s[j])
          /\ s[k] \in Reach(file) /\ recs[k] = RecordAt(file, s[k])
      BY <2>2
    <3>3. s[j] < s[k]
      BY <2>3, <2>6
    <3>4. PICK d \in Reach(file), e \in Reach(file) : d = s[j] /\ e = s[k]
      BY <3>2
    <3>5. RecordAt(file, d).id < RecordAt(file, e).id
      BY <1>3, <2>1, <3>3, <3>4, IdsGrow
    <3> QED BY <3>2, <3>4, <3>5
  <2> QED BY <2>2, <2>5, <2>6
<1>4. Progress => (Executed # {} => i > 0) /\ (ret = "nil" => mode # "none")
  BY DEF Progress, Executed
<1>5. Progress => \A k \in Executed : \A j \in ToBeDone : j < k => j \in Executed
  <2> SUFFICES ASSUME Progress, NEW k \in Executed, NEW j \in ToBeDone, j < k PROVE j \in Executed
    OBVIOUS
  <2>1. k \in 1..i /\ answers[k] # "none" /\ j \in 1..i
    BY DEF Progress, Executed, ToBeDone
  <2> QED BY <2>1 DEF Progress, Executed, ToBeDone
<1>6. Progress => (mode \in {"strict", "observe"} /\ ret = "nil" => ToBeDone \subseteq Executed)
  BY DEF Progress, Executed, ToBeDone
<1>7. LogInv /\ Progress /\ SessionInv => DurableIsReplayed
  <2> SUFFICES ASSUME LogInv, Progress, SessionInv PROVE DurableIsReplayed
    OBVIOUS
  <2>1. Executed # {} \/ ret = "nil" => LetIn
    BY <1>4 DEF LetIn, Progress
  <2> QED BY <1>3, <1>5, <1>6, <2>1 DEF DurableIsReplayed
<1>8. SessionSpec => []LogInv
  BY SessionIsSpec, LogInductive, PTL
<1> QED BY <1>1, <1>2, <1>7, <1>8, ProgressHolds, PTL DEF SessionSpec
=============================================================================
