SPECIFICATION Spec
CONSTANTS
  Ids = {i1}
  Calls = {c1}
  Names = {n1}
  MaxID = 7
  Hosts <- MCHosts
  Users <- MCUsers
  Troubles = {"crash"}
  NoDir = NoDir
SYMMETRY Symmetry
INVARIANT InterruptedRemainsRemovable
