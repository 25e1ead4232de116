\* Two objects of one kind and one name, in two namespaces.
SPECIFICATION Spec
CONSTANTS
  space = space
  other = other
  crd = crd
  widget = widget
  ingress = ingress
  twin = twin
  stray = stray
  Namespace = Namespace
  CRD = CRD
  Widget = Widget
  Ingress = Ingress
  Stray = Stray
  x = x
  y = y
  v1 = v1
  v2 = v2
  f = f
  g = g
  a = a
  b = b
  Id = {space, other, ingress, twin}
  Kind = {Namespace, CRD, Widget, Ingress, Stray}
  KindOf <- MCKindOf
  SpaceOf <- MCSpaceOf
  Declares <- MCDeclares
  Field = {f, g}
  Value = {a, b}
  Unset = Unset
  Absent = Absent
  NoId = NoId
  NoKind = NoKind
  Name = {x, y}
  NameOf <- MCNameOf
  Version = {v1, v2}
  VersionsOf <- MCVersionsOf
  Position <- MCPosition
  Crowded = {}
  Projects <- TwoNamespaces
  Clusters <- JustEmpty
  Commands <- ClientApply
  Foreign <- ByOthers
  MaxTries = 1
  MaxCommands = 2
  MaxRivals = 0
  MaxFaults = 0
CHECK_DEADLOCK FALSE
INVARIANT AppliedMeansLive
