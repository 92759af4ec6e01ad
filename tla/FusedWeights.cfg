CONSTANTS
  NumLayers = 3
  MaxSeq = 2
  FusedSessions = 1
  NoLayer = NoLayer
  NoJob = NoJob
  NoRow = NoRow
SPECIFICATION FusedSpec
INVARIANT LayerUsesOwnWeights
