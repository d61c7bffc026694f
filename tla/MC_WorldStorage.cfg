CONSTANTS
  A = A
  B = B
  S = S
  v1 = v1
  v2 = v2
  Uninit = Uninit
  Off = Off
  NoLocation = NoLocation
  TableComponents = {A, B}
  SparseComponents = {S}
  Values = {v1, v2}
  Bundles <- Some
  BatchBundles <- Batch
  MaxGeneration = 2
  MaxIndex = 3
SPECIFICATION Spec
CONSTRAINT Small
SYMMETRY Same
INVARIANTS
  StorageAgrees
PROPERTIES
  ImplementsEntityStore
CHECK_DEADLOCK FALSE
