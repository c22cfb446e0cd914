SPECIFICATION FairSpec
CONSTANTS
  MaxFragments = 2
  QueueCap = 1
  MaxBatch = 2
  SequenceMax = 6
  MaxCaptures = 3
  MaxReplies = 2
INVARIANTS
  PipelineInOrder
  DrainInTurn
PROPERTIES
  StableLinkDrains
