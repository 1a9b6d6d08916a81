SPECIFICATION SessionSpec
CONSTANTS
  Kinds <- SessionRecords
  MaxRecords = 3
  MaxFaults = 2
INVARIANTS NoSilentLoss CleanLogLoads StrictIsSound DurableIsReplayed
PROPERTIES KeepsSynced
