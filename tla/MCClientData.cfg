SPECIFICATION ClientSpec
CONSTANTS
  Parts = {"queue", "context", "regions", "database"}
  x1 = x1
  x2 = x2
  Displays <- MCOne
  None = None
  PipeCap = 3
  MaxEvents = 4
  MaxPutBacks = 2
  MaxChecks = 1
  k0 = k0
  k1 = k1
  k2 = k2
  k3 = k3
  k4 = k4
  Nil = Nil
  Threads = {c1, c2}
  Keys = {k0, k1, k2, k3, k4}
  KeyHash <- MCKeyHash
  Data = {d1, d2}
  InitHashMask = 1
  XMax = 3
  YMax = 3
  foo = foo
  Foo = Foo
  bar = bar
  XrmQANY = any
  NULLQUARK = NULLQUARK
  ResourceName = foo
  ResourceClass = Foo
  Queries <- MCQueries
  Specifiers <- MCSpecifiers
  MaxPut = 3
INVARIANTS
  ClientTypeOK
  FreeIsUnused
  AtMostOnce
  PipeCounts
  SavedIsFound
  RegionIsArea
  ResourceIsBest
SYMMETRY Symmetry
CHECK_DEADLOCK FALSE
