SPECIFICATION Spec
CONSTANTS
  Commands <- WorkflowCommands
  MaxFaults = 2
  MaxQueue = 3
  SlowDisk = FALSE
INVARIANTS UpNilMeansInstalled NeverStranded
PROPERTIES DownDeletes AttachesOnlyToBlank
