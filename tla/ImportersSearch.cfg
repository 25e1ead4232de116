SPECIFICATION FairSpec
CONSTANTS
  File <- Files
  Project <- Projects
  Query <- Queries
  Graphs = TRUE
  Shadowed = TRUE
CHECK_DEADLOCK FALSE
INVARIANT TypeOK
INVARIANT OnlyImportersAreFound
INVARIANT EveryImporterIsFound
INVARIANT ForwardsAndBackwardsAgree
PROPERTY EverySearchEnds
