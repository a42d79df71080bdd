CONSTANTS
  a = a
  b = b
  c = c
  d = d
  f = f
  g = g
  h = h
  k = k
  m = m
  n = n
  Targets = {a, b, c, d}
  Missing = {m, n}
  BuildFiles = {f, g, h, k}
  Projects <- MCProjects
SPECIFICATION Spec
INVARIANTS
  GraphInv
  CycleFound
  SettingsOnce
  BuildOrder
  LinkComplete
CHECK_DEADLOCK FALSE
