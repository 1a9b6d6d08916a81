------------------------------ MODULE MCReplay ------------------------------
(* The kinds of records of the log that is written and then replayed.       *)
EXTENDS Replay

SessionRecords == {"plain", "denied", "unclean", "future", "big"}
=============================================================================
