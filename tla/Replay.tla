------------------------------- MODULE Replay -------------------------------
(***************************************************************************)
(* runReplay and trace.Replay (`proxctl replay`) over the log that         *)
(* TraceLog's Writers left behind: the records LoadAll returns are         *)
(* executed again one by one, and each result is compared with the         *)
(* recorded one.  The executor is behind an interface: it may answer the   *)
(* recorded output, another one, or an error.                              *)
(***************************************************************************)
EXTENDS TraceLog, FiniteSets

Modes   == {"strict", "observe", "dry-run"}
Answers == {"same", "other", "error"}

VARIABLES
  mode,    \* of the replay, none before it starts
  recs,    \* the records LoadAll returned
  i,       \* records dealt with
  answers, \* what the executor answered, by record
  results, \* one per record dealt with
  ret      \* what runReplay returned, none while it runs

replayVars == <<mode, recs, i, answers, results, ret>>

Result(match, execErr) ==
  [match |-> match, execErr |-> execErr, diverged |-> ~match]
-----------------------------------------------------------------------------
ReplayInit ==
  /\ mode = "none" /\ recs = <<>>
  /\ i = 0 /\ answers = <<>> /\ results = <<>> /\ ret = "none"

(* All reads the whole file before anything is executed; LoadAll fails on   *)
(* an unreadable line and on a broken chain.                                *)
InOrder(places) ==
  CHOOSE s \in [1..Cardinality(places) -> places] :
    /\ \A j, k \in DOMAIN s : j < k => s[j] < s[k]
    /\ \A e \in places : \E j \in DOMAIN s : s[j] = e

Load(m) ==
  /\ mode = "none"
  /\ mode' = m
  /\ \/ ~LoadAll(file) /\ ret' = "err" /\ UNCHANGED recs
     \/ /\ LoadAll(file)
        /\ recs' = [j \in DOMAIN InOrder(Reach(file)) |->
                      RecordAt(file, InOrder(Reach(file))[j])]
        /\ ret' = IF recs' = <<>> THEN "nil" ELSE ret
  /\ UNCHANGED <<i, answers, results>>

Due == mode # "none" /\ ret = "none" /\ i < Len(recs)

NotExecuted == mode = "dry-run" \/ recs[i + 1].decision # "executed"

Pass ==
  /\ Due /\ NotExecuted
  /\ i' = i + 1
  /\ answers' = Append(answers, "none")
  /\ results' = Append(results, Result(TRUE, FALSE))
  /\ UNCHANGED <<mode, recs, ret>>

Aborts_onDiffOnly(a) == mode = "strict" /\ a = "other"
Aborts(a) == mode = "strict" /\ a # "same"

Execute(a) ==
  /\ Due /\ ~NotExecuted
  /\ i' = i + 1
  /\ answers' = Append(answers, a)
  /\ results' = Append(results, Result(a = "same", a = "error"))
  /\ ret' = IF Aborts(a) THEN "err" ELSE ret
  /\ UNCHANGED <<mode, recs>>

Finish ==
  /\ mode # "none" /\ ret = "none" /\ i = Len(recs)
  /\ ret' = "nil"
  /\ UNCHANGED <<mode, recs, i, answers, results>>

Replaying == (\E m \in Modes : Load(m)) \/ Pass \/ (\E a \in Answers : Execute(a)) \/ Finish

(* A log is written, then replayed once: the replay has it in memory, and   *)
(* what is written meanwhile does not concern it.                           *)
SessionNext ==
  \/ mode = "none" /\ Next /\ UNCHANGED replayVars
  \/ Replaying /\ UNCHANGED vars
  \/ ret # "none" /\ UNCHANGED <<vars, replayVars>>

SessionInit == Init /\ ReplayInit

SessionSpec == SessionInit /\ [][SessionNext]_<<vars, replayVars>>
-----------------------------------------------------------------------------
Executed   == {j \in 1..Len(answers) : answers[j] # "none"}
ToBeDone   == {j \in 1..Len(recs) : recs[j].decision = "executed"}

ReplayTypeOK ==
  /\ mode \in Modes \cup {"none"} /\ ret \in {"none", "nil", "err"}
  /\ i \in 0..Len(recs)
  /\ answers \in Seq(Answers \cup {"none"}) /\ Len(answers) = i
  /\ results \in Seq([match : BOOLEAN, execErr : BOOLEAN, diverged : BOOLEAN])
  /\ Len(results) = i

(* A strict replay that returns nil has executed every executed record and  *)
(* each gave what it gave before; one that fails stopped at the first that  *)
(* did not (replay.go:83-108).                                              *)
StrictIsSound ==
  mode = "strict" =>
    /\ ret = "nil" => Executed = ToBeDone /\ \A j \in Executed : answers[j] = "same"
    /\ \A j \in Executed : answers[j] # "same" => j = i /\ ret = "err"

(* From the Writer to the replay, whatever crashed in between: before the   *)
(* first call is made, and when a replay returns nil, the replay has every  *)
(* record a Sync or a Close has acknowledged, as it was written and in that *)
(* order; what is made again is made in that order without a gap, and all   *)
(* of it when the replay returns nil and was no dry run.  Of a damaged log  *)
(* nothing is made again (writer.go:91-109, reader.go:50-85,                *)
(* replay.go:60-111).                                                       *)
DurableIsReplayed ==
  /\ Executed # {} \/ ret = "nil" =>
       /\ \A r \in acked : \E j \in 1..Len(recs) : recs[j] = written[r]
       /\ \A j, k \in 1..Len(recs) : j < k => recs[j].id < recs[k].id
  /\ \A k \in Executed : \A j \in ToBeDone : j < k => j \in Executed
  /\ mode \in {"strict", "observe"} /\ ret = "nil" => ToBeDone \subseteq Executed

(* pkg/trace/replay.go:20-21: observe returns nil unless an actual          *)
(* execution error occurs.                                                  *)
ObserveReportsErrors ==
  mode = "observe" /\ ret = "nil" => \A j \in Executed : answers[j] # "error"
=============================================================================
