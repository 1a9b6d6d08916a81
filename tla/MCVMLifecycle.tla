--------------------------- MODULE MCVMLifecycle ---------------------------
(* The sets of commands the runs of VMLifecycle give the operator.          *)
EXTENDS VMLifecycle

\* Without configure-first-boot, whose default boot order is not the
\* workflow's, and without snapshot restore, which returns before the
\* rollback: a finalize that overtakes it sees the system it replaces.
WorkflowCommands == AllCommands \ {"configure-first-boot", "snapshot-restore"}
RetryCommands    == {"up", "finalize", "down-force", "snapshot-create", "snapshot-restore"}
WithFirstBoot    == {"up", "configure-first-boot"}
=============================================================================
