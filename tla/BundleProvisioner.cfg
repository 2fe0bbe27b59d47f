SPECIFICATION Spec
CONSTANTS
  Ids = {i1}
  Calls = {c1, c2}
  Names = {n1, n2}
  MaxID = 7
  Hosts <- MCHosts
  Users <- MCUsers
  Troubles = {"crash", "cancel", "failure"}
  NoDir = NoDir
SYMMETRY Symmetry
INVARIANT DirectoriesAreSound
INVARIANT StagingIsAccountedFor
INVARIANT OnlyTornBundlesStick
PROPERTY BundleIsNotReplaced
PROPERTY RemoveIsThorough
