SPECIFICATION Spec
CONSTANTS
  a = a
  b = b
  None = None
  Layers <- MCLayers
  LayerType <- MCLayerType
  Data <- MCData
  At <- MCAt
  Until <- MCUntil
  Options <- MCOptions
  m1 = m1
  m2 = m2
  Movers = {m1, m2}
  Scenarios <- MCScenarios
INVARIANTS
  TypeOK
  AckedEverywhere
  RowsKept
  QueryExact
  NobodyForgotten
CHECK_DEADLOCK FALSE
