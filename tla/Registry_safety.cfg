CONSTANTS
  i1 = i1  i2 = i2  i3 = i3  t1 = t1  t2 = t2  h = h  own = own  u1 = u1  u2 = u2  u3 = u3
  n1 = n1  n2 = n2  c1 = c1  c2 = c2  c3 = c3  None = None
  Ids = {i1, i2, i3}
  Texts = {t1}
  Sites = {h}
  Own = own
  Authors = {u1, u2}
  Scanner = u1
  Managers = {u2}
  Names = {n1}
  NameOf <- ByName
  Kinds = {"fact", "proposal"}
  Calls <- TwoCalls
  MaxFaults = 1
SPECIFICATION Spec
SYMMETRY Interchangeable
INVARIANTS PointersAgree AttributionResolves
PROPERTIES HiddenStaysHidden
CHECK_DEADLOCK FALSE
