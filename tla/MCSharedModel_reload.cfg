\* Three filters, one key, two interchangeable models, and four interpreters, none
\* used twice: three opens and a reload, or two opens and two reloads or reopens.
SPECIFICATION Spec
CONSTANTS
  c1 = c1
  c2 = c2
  c3 = c3
  m1 = m1
  m2 = m2
  i1 = i1
  i2 = i2
  i3 = i3
  i4 = i4
  i5 = i5
  Cores = {c1, c2, c3}
  Keys = {"k"}
  Models = {m1, m2}
  Info <- SameInfo
  Interps = {i1, i2, i3, i4}
  None = None
SYMMETRY Symmetric
INVARIANTS RefsExact OneOwner ShareSame
