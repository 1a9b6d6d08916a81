SPECIFICATION ClientFairSpec
CONSTANTS
  K = 4
  MapsNotFound <- AllButFirst
INVARIANTS IInv NotFoundChangedNothing
PROPERTIES ImplementsSequence CancelReturns CallsReturn
