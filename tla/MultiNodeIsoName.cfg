SPECIFICATION Spec
CONSTANTS
  N = 1
  MaxConcurrency = 1
  ContinueOnError = FALSE
  SkipKickstartBuild = FALSE
  KickstartStorage = TRUE
  SkipFinalize = FALSE
  Misread = FALSE
INVARIANTS AttachNamesPresentIso
