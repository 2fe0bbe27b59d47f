SPECIFICATION Spec
CONSTANTS
  Refs <- MCRef
  Workers = {w1}
  n = n
  p = p
  q = q
  x = x
  m1 = m1
  m2 = m2
  a = a
  b = b
  Digests <- MCDigests
  Children <- MCChildren
  Layouts <- MCLayouts
  Troubles = {"cancel"}
  None = None
INVARIANT DefaultPullIsServed
