------------------------------ MODULE TraceLog ------------------------------
(***************************************************************************)
(* pkg/trace: the hash-chained JSONL file a Writer appends to, the Writer  *)
(* that resumes the chain of the file it finds, and LoadAll, which reads   *)
(* and verifies it.  Between two Writers the process may have been killed, *)
(* the machine may have lost power, or the disk may have been full.        *)
(*                                                                         *)
(* A record on disk is three pieces of bytes: A and B together are its     *)
(* JSON, nl ends its line.  What is lost is lost between two pieces.       *)
(***************************************************************************)
EXTENDS Naturals, Sequences, SequencesExt

CONSTANTS
  Kinds,      \* the kinds of records the caller writes
  MaxRecords, \* bound: records written
  MaxFaults   \* bound: kills, power losses and failed writes together

(* plain: any other record; denied: the tool call it records was not made;  *)
(* unclean: its error text is not valid UTF-8; future: the caller set       *)
(* another SchemaVersion; big: longer than the Reader's buffer of 4 MB.     *)
ASSUME KindsAssumption == /\ Kinds \subseteq {"plain", "denied", "unclean", "future", "big"}
                          /\ MaxRecords \in Nat /\ MaxFaults \in Nat

VARIABLES
  written, \* every record Write accepted
  file,    \* the pieces in the file
  synced,  \* how many of them are on the medium
  writer,  \* closed, open, or broken: bufio keeps the first error
  buf,     \* the pieces in the bufio.Writer
  prev,    \* the Writer's prevHash
  acked,   \* the records a Sync returned nil for, and those a Close did
           \* and the machine has not lost power since
  faults

vars == <<written, file, synced, writer, buf, prev, acked, faults>>
-----------------------------------------------------------------------------
(* Records.  No two have the same bytes, so a hash is known by its record   *)
(* and by the text it was computed from.                                    *)
Genesis == [id |-> 0, text |-> "none"]

(* json.Marshal writes an escape for a byte that is no UTF-8 and the        *)
(* replacement character itself as it is; json.Unmarshal reads the escape   *)
(* as the replacement character.                                            *)
Marshal(text)   == IF text = "unclean" THEN "escape" ELSE text
Unmarshal(text) == IF text = "escape" THEN "replaced" ELSE text

Hash(id, text) == [id |-> id, text |-> Marshal(text)]

Record(i, kind, p) ==
  LET text == IF kind = "unclean" THEN "unclean" ELSE "clean"
  IN [id |-> i, text |-> text, prev |-> p, hash |-> Hash(i, text),
      decision |-> IF kind = "denied" THEN "denied" ELSE "executed",
      schema |-> IF kind = "future" THEN 2 ELSE 1,
      size |-> IF kind = "big" THEN "big" ELSE "small"]

Pieces(i) == <<[id |-> i, part |-> "A"], [id |-> i, part |-> "B"], [id |-> i, part |-> "nl"]>>

(* What json.Unmarshal makes of record i's line.                            *)
Read(i) == [written[i] EXCEPT !.text = Unmarshal(Marshal(@))]
-----------------------------------------------------------------------------
(* Reading. *)

(* The lines of a file, each by the place where it ends; the scanner skips  *)
(* the empty ones.                                                          *)
Ends(f)    == {j \in 1..Len(f) : f[j].part = "nl"} \cup {Len(f) + 1}
Line(f, e) == SubSeq(f, Max({0} \cup {d \in Ends(f) : d < e}) + 1, e - 1)
Lines(f)   == {e \in Ends(f) : Line(f, e) # <<>>}

Parses(line) == /\ Len(line) = 2 /\ line[1].part = "A" /\ line[2].part = "B"
                /\ line[1].id = line[2].id

Fits(line) == \A i \in 1..Len(line) : written[line[i].id].size = "small"

Good(f) == {e \in Lines(f) : Parses(Line(f, e)) /\ Fits(Line(f, e))}

(* All reads up to the first line that is not good, and that is an error.   *)
Reach(f) == LET bad == Lines(f) \ Good(f) IN
            {e \in Lines(f) : \A d \in bad : e < d}

Failed_ignored(f) == FALSE
Failed(f) == Reach(f) # Lines(f)

RecordAt(f, e) == Read(Line(f, e)[1].id)

Valid(r) == r.schema = 1 /\ r.hash = Hash(r.id, r.text)

VerifyChain(f, lines) ==
  \A e \in lines : LET r == RecordAt(f, e)
                       before == {d \in lines : d < e}
                   IN Valid(r) /\ r.prev = IF before = {} THEN Genesis
                                            ELSE RecordAt(f, Max(before)).hash

LoadAll(f) == ~Failed(f) /\ VerifyChain(f, Reach(f))

(* The records All returns, with or without an error.                       *)
All(f) == {RecordAt(f, e).id : e \in Reach(f)}
-----------------------------------------------------------------------------
Init ==
  /\ written = <<>> /\ file = <<>> /\ synced = 0
  /\ writer = "closed" /\ buf = <<>> /\ prev = Genesis
  /\ acked = {} /\ faults = 0

(* readLastRecord takes the bytes after the last newline but one; a line it *)
(* cannot parse counts like no line.                                        *)
LastLine(f) == LET body == IF f # <<>> /\ Last(f).part = "nl" THEN Front(f) ELSE f
                   from == SelectLastInSeq(body, LAMBDA p : p.part = "nl")
               IN SubSeq(body, from + 1, Len(body))

Resume_genesis(f) == Genesis
Resume(f) == IF Parses(LastLine(f)) THEN Read(LastLine(f)[1].id).hash ELSE Genesis

Opened_truncated == <<>>
Opened == file

NewWriter ==
  /\ writer = "closed"
  /\ writer' = "open" /\ buf' = <<>> /\ prev' = Resume(file) /\ file' = Opened
  /\ UNCHANGED <<written, synced, acked, faults>>

Fault == faults < MaxFaults /\ faults' = faults + 1

(* The bufio.Writer passes on k pieces when it is full.                     *)
Flush(b, k) == file' = file \o SubSeq(b, 1, k) /\ buf' = SubSeq(b, k + 1, Len(b))

Advance(r) == r.hash

Write(kind) ==
  /\ writer = "open" /\ Len(written) < MaxRecords
  /\ LET r == Record(Len(written) + 1, kind, prev) IN
     /\ written' = Append(written, r)
     /\ prev' = Advance(r)
     /\ \E k \in 0..(Len(buf) + 3) : Flush(buf \o Pieces(r.id), k)
  /\ UNCHANGED <<synced, writer, acked, faults>>

(* The file takes only k pieces: Write returns an error, and so does every  *)
(* later call.  The record was not accepted, but some of it is in the file. *)
WriteFails(kind) ==
  /\ writer = "open" /\ Len(written) < MaxRecords
  /\ Fault
  /\ LET r == Record(Len(written) + 1, kind, prev) IN
     /\ written' = Append(written, r)
     /\ \E k \in 0..(Len(buf) + 2) : Flush(buf \o Pieces(r.id), k)
  /\ writer' = "broken"
  /\ UNCHANGED <<synced, prev, acked>>

(* The records whose lines are written out.                                 *)
Ended(f) == {f[i].id : i \in {j \in 1..Len(f) : f[j].part = "nl"}}

Sync ==
  /\ writer = "open"
  /\ Flush(buf, Len(buf))
  /\ synced' = Len(file') /\ acked' = acked \cup Ended(file')
  /\ UNCHANGED <<written, writer, prev, faults>>

(* Flush, in Sync or in Close, gets only part of it into the file, and that *)
(* sticks; or Flush gets all of it there and the fsync behind it fails,     *)
(* which no later call remembers.                                           *)
SyncFails ==
  /\ writer = "open"
  /\ Fault
  /\ \/ /\ \E k \in 0..(Len(buf) - 1) : Flush(buf, k)
        /\ writer' = "broken"
     \/ Flush(buf, Len(buf)) /\ UNCHANGED writer
  /\ UNCHANGED <<written, synced, prev, acked>>

(* Close flushes and does not sync: what it returns nil for survives the    *)
(* process, not the machine.  A broken Writer's Close is an error.          *)
Close ==
  /\ writer \in {"open", "broken"}
  /\ IF writer = "open"
     THEN Flush(buf, Len(buf)) /\ acked' = acked \cup Ended(file')
     ELSE buf' = <<>> /\ UNCHANGED <<file, acked>>
  /\ writer' = "closed"
  /\ UNCHANGED <<written, synced, prev, faults>>

(* The process ends: what it had in memory is gone.                         *)
Die == writer' = "closed" /\ buf' = <<>> /\ UNCHANGED <<written, prev>>

Kill == /\ writer # "closed"
        /\ Fault /\ Die
        /\ UNCHANGED <<file, synced, acked>>
(* The machine stops: of what was not synced a beginning is left.           *)
PowerLoss == /\ Fault /\ Die
             /\ \E k \in synced..Len(file) : file' = SubSeq(file, 1, k)
             /\ acked' = acked \cap Ended(SubSeq(file, 1, synced))
             /\ UNCHANGED synced

Next == \/ NewWriter \/ Sync \/ SyncFails \/ Close \/ Kill \/ PowerLoss
        \/ \E kind \in Kinds : Write(kind) \/ WriteFails(kind)

Spec == Init /\ [][Next]_vars
-----------------------------------------------------------------------------
TypeOK ==
  /\ Len(written) <= MaxRecords
  /\ \A i \in 1..Len(written) : written[i].id = i
  /\ synced \in 0..Len(file)
  /\ writer \in {"closed", "open", "broken"}
  /\ \A i \in 1..Len(file) : file[i].id \in 1..Len(written) /\ file[i].part \in {"A", "B", "nl"}
  /\ prev.id \in 0..Len(written)
  /\ acked \subseteq 1..Len(written)
  /\ faults \in 0..MaxFaults

(* A log that LoadAll accepts has every record a Sync returned nil for,     *)
(* and every one a Close did unless the power failed since, whatever        *)
(* crashed in between: a loss is always an error (reader.go:71-85,          *)
(* writer.go:91-109).                                                       *)
NoSilentLoss == LoadAll(file) => acked \subseteq All(file)

(* A synced record that All reached stays within its reach, through every   *)
(* crash and every reopening, and so does one that was only closed, through *)
(* all but a power loss (writer.go:42-53: opened for append only).          *)
KeepsSynced ==
  [][file' # file => acked \cap acked' \cap All(file) \subseteq All(file)']_vars

(* CHANGELOG.md:276: the writer resumes the chain of an existing file.      *)
(* When Sync has returned, the log it extended loads.                       *)
SyncedLogLoads ==
  writer = "open" /\ buf = <<>> /\ Len(written) \in acked => LoadAll(file)

(* It does when no writer was interrupted and every record is one that can  *)
(* be read back, over any number of Writers (writer.go:29-53, 57-88).       *)
CleanLogLoads ==
  (faults = 0 /\ \A i \in 1..Len(written) : LET r == written[i] IN
     r.text = "clean" /\ r.schema = 1 /\ r.size = "small") => SyncedLogLoads
=============================================================================
