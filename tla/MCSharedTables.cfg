SPECIFICATION Spec
CONSTANTS
  NULL = NULL
  Nil = Nil
  MaskClients = {c1, c2}
  MaskWindows = {w1, w2}
  w1 = w1
  w2 = w2
  key = key
  move = move
  EventBits = {key, move}
  KeyPressMask = key
  Asked <- MCAsked
  MaxPairs = 2
  desk = desk
  real = real
  h1 = h1
  TableClients = {c1, c2}
  Handles <- MCHandles
  HWND_DESKTOP = desk
  RealDesktop = real
  Bucket <- MCBucket
  MaxEntries = 4
  MaxHeapPages = 8
  IncrPages = 2
  PageSize = 4
  Sizes = {0, 8, 12}
  MaxSize = 4
  MaxRuns = 3
  Gravities = {0, 1, 2, 3, 4, 5, 6, 7, 8, 9, 10}
  GCs = {c1, c2}
  Drawables = {d1, d2}
  MixModes = {0, 3}
  Colors = {0, 1}
  AtomThreads = {c1, c2}
  Names = {n1, n2, n3}
  MaxAtoms = 4
  ResClients = {c1, c2}
  Cursors = {d1, d2}
  Pixmaps = {p1}
  ResWindows = {w1, w2}
  MaxCount = 2
  None = None
INVARIANTS
  TypeOK
  WalksAreSafe
  ChainsIntact
  SelectorsGetEvents
  OneKeyPressClient
  WindowIsFound
  PagesMatchBlocks
  SearchIsFirstFit
  DriftBound
  DrawsWithGC
  
  UsedIsThere
SYMMETRY Symmetry
CHECK_DEADLOCK FALSE
