SPECIFICATION Spec
CONSTANTS
  a = a
  b = b
  c = c
  l0 = l0
  l1 = l1
  l2 = l2
  none = none
  Rows = {a, b, c}
  Home <- MCHome
  MinTime <- MCMinTime
  MaxTime <- MCMaxTime
  Hour = 2
  Day = 4
  Layers = {l0, l1, l2, none}
  NoLayer = NoLayer
  LayerTo <- MCLayerTo
  MoveTtl <- MCMoveTtl
  MergeTtl <- MCMergeTtl
  MaxPlan <- MCMaxPlan
  Scenarios <- MCScenarios
  Workers = {w1, w2}
  Ranges <- MCRanges
SYMMETRY MCSymmetry
CHECK_DEADLOCK FALSE
INVARIANTS TypeOK FoldersExact AckedIndexed DeletedUnindexed RowsExact StillScheduled QueryComplete
