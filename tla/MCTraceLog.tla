----------------------------- MODULE MCTraceLog -----------------------------
(* The kinds of records the run of TraceLog alone writes.                         *)
EXTENDS TraceLog

PlainRecords == {"plain"}
=============================================================================
