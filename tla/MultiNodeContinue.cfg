SPECIFICATION ClientFairSpec
CONSTANTS
  N = 3
  MaxConcurrency = 2
  ContinueOnError = TRUE
  SkipKickstartBuild = TRUE
  KickstartStorage = TRUE
  SkipFinalize = FALSE
  Misread = FALSE
INVARIANTS ConcurrencyCapped NilMeansDone FinalizeVisitsAll AttachNamesPresentIso
PROPERTIES UpReturns
