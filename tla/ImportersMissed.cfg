SPECIFICATION Spec
CONSTANTS
  File <- Files
  Project <- Projects
  Query <- Queries
  Graphs = FALSE
  Shadowed = TRUE
CHECK_DEADLOCK FALSE
INVARIANT ReachingEnvironmentsAreFound
