SPECIFICATION Spec
CONSTANTS
  Field <- Names
  MergeKeys <- Keys
  RetainKeys = {"volumes"}
  Manifest <- Manifests
  Drift <- Drifted
  MaxEdits = 2
  MaxDrifts = 1
INVARIANT ManifestIsShown
INVARIANT RemovalsAreShown
INVARIANT ForeignIsKept
PROPERTY AppliedShowsOnlyRemovals
