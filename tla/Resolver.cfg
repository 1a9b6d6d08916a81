SPECIFICATION Spec
CONSTANTS
  Keys <- TwoNodes
  Tokens <- AllTokens
  MaxTokens = 3
  Lookup <- Environment
INVARIANTS BackwardIsExact OwnTokensExact RefIsOldOrNew
