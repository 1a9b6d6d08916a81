SPECIFICATION Spec
CONSTANTS
  None = None
  p1 = p1
  p2 = p2
  Procs <- TwoProcs
  Hosts <- TwoHosts
  Dirs <- FourDirs
  Mounted <- MountedDirs
  Commands <- SomeCommands
  Menus <- SomeMenus
  Tokens <- SomeTokens
  Mentioning <- SomeMentioning
INVARIANTS DeliversOwn ScratchRemoved NeverNowhere BootsUnattended
