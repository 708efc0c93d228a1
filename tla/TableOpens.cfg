SPECIFICATION Spec
CONSTANTS
  a = a
  b = b
  None = None
  Layers <- MCLayers
  LayerType <- MCLayerType
  Data <- MCData
  At <- OpensAt
  Until <- OpensUntil
  Options <- MCOptions
  m1 = m1
  m2 = m2
  Movers = {m1, m2}
  Scenarios <- OpensScenarios
INVARIANTS
  AckedAnyway
CHECK_DEADLOCK FALSE
