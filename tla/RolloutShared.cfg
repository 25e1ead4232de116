\* Two commands, one change by somebody else, one request that fails.
SPECIFICATION FairSpec
CONSTANTS
  space = space
  other = other
  crd = crd
  widget = widget
  ingress = ingress
  twin = twin
  stray = stray
  Namespace = Namespace
  CRD = CRD
  Widget = Widget
  Ingress = Ingress
  Stray = Stray
  x = x
  y = y
  v1 = v1
  v2 = v2
  f = f
  g = g
  a = a
  b = b
  Id = {space, crd, widget, ingress, stray}
  Kind = {Namespace, CRD, Widget, Ingress, Stray}
  KindOf <- MCKindOf
  SpaceOf <- MCSpaceOf
  Declares <- MCDeclares
  Field = {f, g}
  Value = {a, b}
  Unset = Unset
  Absent = Absent
  NoId = NoId
  NoKind = NoKind
  Name = {x, y}
  NameOf <- MCNameOf
  Version = {v1, v2}
  VersionsOf <- MCVersionsOf
  Position <- MCPosition
  Crowded = {}
  Projects <- Revisions
  Clusters <- EmptyOrPopulated
  Commands <- EveryCommand
  Foreign <- ByOthers
  MaxTries = 1
  MaxCommands = 2
  MaxRivals = 1
  MaxFaults = 1
CHECK_DEADLOCK FALSE
INVARIANT TypeOK
INVARIANT AppliedMeansLive
INVARIANT ApplyFailsForCause
INVARIANT OnlyOrphansArePruned
INVARIANT PruneLeavesNoOrphan
PROPERTY KeepsPromise
PROPERTY EveryCommandReturns
