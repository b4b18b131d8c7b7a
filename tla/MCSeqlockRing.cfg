SPECIFICATION FairSpec
CONSTANTS
  Readers <- MCReaders
  Fields <- MCFields
  Capacity = 2
  Retries = 2
  MaxAppends = 5
INVARIANT NoTornSample
PROPERTIES ImplementsStream CallReturns
