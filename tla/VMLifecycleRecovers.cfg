SPECIFICATION FairSpec
CONSTANTS
  Commands <- RetryCommands
  MaxFaults = 3
  MaxQueue = 3
  SlowDisk = TRUE
INVARIANT UpNilMeansInstalled
PROPERTIES Recovers ImplementsInstallation
