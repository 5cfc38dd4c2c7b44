SPECIFICATION Spec
CONSTANTS
  Keys = {1, 2, 3}
  Values = {v, w}
  NoKey = NoKey
  NoValue = NoValue
  NoOp = NoOp
  MaxHash = 7
  Hashes <- MCHashes
  InitCap = 2
INVARIANTS
  ChainsAreUnbroken
PROPERTIES
  ImplementsDictionary
  RequestsAreServed
