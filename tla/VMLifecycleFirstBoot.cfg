SPECIFICATION Spec
CONSTANTS
  Commands <- WithFirstBoot
  MaxFaults = 1
  MaxQueue = 2
  SlowDisk = FALSE
PROPERTIES KeepsInstalledDisk
