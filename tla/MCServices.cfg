SPECIFICATION Spec
CONSTANTS
  Requests = {r1, r2}
  None = None
  MaxCalls = 4
  Pricings = {p1}
  Bases = {99, 200}
  Rates = {0, 15}
  Keep = Keep
  Documents = {d1, d2}
  Versions = {t1, t2}
  Shown = 2
  Threshold = 3
  Recent = 2
  MaxAsked = 4
  MaxClears = 1
  Messages = {v1, v2}
  Captchas = {k1}
  Strikes = 2
  Durations <- TheDurations
  EvictAfter = 2
  CaptchaTtl = 1
  MaxSent = 5
  MaxClock = 4
  AccessTtl = 1
  RefreshTtl = 2
  LinkTtl = 2
  ForgotTtl = 1
  MaxLinks = 2
  MaxTime = 2
  v1 = v1
  v2 = v2
  n1 = n1
  Values = {v1, v2}
  Names = {n1}
  Lists <- SomeLists
  MaxRows = 7
  MaxSaves = 2
  Categories = {n2}
  Subcategories = {n3}
  Members = {a1}
  Admin = a2
  Super = a3
  Shelves = {s1, s2}
  Monthly = {m1}
  Single = {m2}
  Legacy = {m2}
  Months = {1, 3}
  MaxStops = 2
  MaxEdits = 1
SYMMETRY Symmetry
INVARIANTS PriceFits DocumentsOpen PageStaysKnown ClearForgets GateHolds LinksHold RoleCatchesUp ChosenOnce NoDuplicates SeededOnce SeedCompletes
PROPERTIES SavedIsShown
CHECK_DEADLOCK FALSE
