SPECIFICATION FairSpec
CONSTANTS
  k1 = k1
  k2 = k2
  k3 = k3
  v1 = v1
  v2 = v2
  NULL = NULL
  Keys <- MCKeys
  Values <- MCValues
  HashFuncs <- MCHashFuncs
  MaxFailures = 1
INVARIANTS
  TypeOK
  Accounting
  NoDuplicateKey
  LookupAgrees
PROPERTIES
  ImplementsHashMap
  AddCompletes
