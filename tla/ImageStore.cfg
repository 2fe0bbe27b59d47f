SPECIFICATION Spec
CONSTANTS
  Refs <- MCRefs
  Workers = {w1, w2}
  n = n
  p = p
  q = q
  x = x
  m1 = m1
  m2 = m2
  a = a
  b = b
  Digests <- MCDigests
  Children <- MCChildren
  Layouts <- MCLayouts
  Troubles = {"crash", "cancel", "failure"}
  None = None
SYMMETRY Symmetry
INVARIANT LayoutIsSound
INVARIANT RecordsAreSound
PROPERTY ReturnedIsUsable
PROPERTY IfMissingKeepsImage
