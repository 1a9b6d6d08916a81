SPECIFICATION Spec
CONSTANTS
  Kinds <- PlainRecords
  MaxRecords = 2
  MaxFaults = 1
INVARIANTS SyncedLogLoads
