SPECIFICATION ClientFairSpec
CONSTANTS
  N = 2
  MaxConcurrency = 2
  ContinueOnError = FALSE
  SkipKickstartBuild = FALSE
  KickstartStorage = TRUE
  SkipFinalize = FALSE
  Misread = TRUE
INVARIANTS IInv UploadsExclusive RootCauseReported
PROPERTIES ForeignUntouched StartAfterConfigured FailFastReturns UpReturns
