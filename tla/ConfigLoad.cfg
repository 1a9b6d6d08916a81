SPECIFICATION Spec
CONSTANTS
  Inputs <- AllInputs
  Profiles <- RacProfile
  Path <- Paths
  Self = "/env.yaml"
INVARIANTS LoadedAsMeant VerdictIsExact RefusedForCause
