SPECIFICATION FairSpec
CONSTANTS
  MaxPosts = 8
  CoverFrames = 3
INVARIANT TypeOK
PROPERTY KeepsWireOrder
PROPERTY HeldBehindLoad
PROPERTY HoldEnds
