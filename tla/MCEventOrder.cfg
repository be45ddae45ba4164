SPECIFICATION ClientFairSpec
CONSTANTS
  Parts = {"queue"}
  x1 = x1
  x2 = x2
  Displays <- MCTwo
  None = None
  PipeCap = 3
  MaxEvents = 3
  MaxPutBacks = 0
  MaxChecks = 0
  k0 = k0
  k1 = k1
  k2 = k2
  k3 = k3
  k4 = k4
  Nil = Nil
  Threads = {c1, c2}
  Keys = {k0, k1, k2, k3, k4}
  KeyHash <- MCKeyHash
  Data = {d1, d2}
  InitHashMask = 1
  XMax = 3
  YMax = 3
  foo = foo
  Foo = Foo
  bar = bar
  XrmQANY = any
  NULLQUARK = NULLQUARK
  ResourceName = foo
  ResourceClass = Foo
  Queries <- MCQueries
  Specifiers <- MCSpecifiers
  MaxPut = 3
INVARIANTS
  InOrder
  FreeIsUnused
PROPERTIES
  NextEventReturns
CHECK_DEADLOCK FALSE
