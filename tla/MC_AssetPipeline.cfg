CONSTANTS
  Shader = Shader
  Stone = Stone
  Monkey = Monkey
  Cube = Cube
  NoAsset = NoAsset
  Assets <- MCAssets
  Kind <- MCKind
  Passes <- MCPasses
  Files <- OneFault
SPECIFICATION FairSpec
CHECK_DEADLOCK FALSE
INVARIANTS
  DrawnIsComplete
  LockInTransit
  AnswersAreAwaited
PROPERTIES
  ImplementsAssetStore
