SPECIFICATION Spec
CONSTANTS
  None = None
  MaxCalls = 5
  Requests = {r1, r2}
  Users = {u1, u2}
  Companies = {c1, c2}
  Emails = {e1, e2}
  Firms = {c1, c2, c3}
  i1 = i1
  i2 = i2
  Industries = {i1, i2}
  Contained <- PartOf
  PageSize = 2
  Keys = {1, 2, 3, 4}
  MaxSteps = 2
  m1 = m1
  m2 = m2
  Mails = {m1, m2}
  Scripts = {s1, s2}
  Files <- TheFiles
  Databases <- TheDatabases
  MaxStarts = 2
  Editions <- TheEditions
  Canonical <- TheRegions
  MaxRuns = 1
  l1 = l1
  Sellers = {f1, f2}
  Links = {l1}
  Images = {picture}
  LastDay = 2
  Baskets <- TheBaskets
  Given = {"ROTATION_SLOT", "RANKING", "ROTATION_DETAILS"}
  MaxDeals = 2
SYMMETRY Symmetry
INVARIANTS ApprovedHasMember Reachable OneCompanyPerAddress WalkComplete PagesAgree MembersMade Gathered PreviewKept
PROPERTIES LinkStable SavedOnce
CHECK_DEADLOCK FALSE
