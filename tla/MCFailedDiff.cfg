CONSTANTS
  short = short
  name = name
  fullName = fullName
  d1 = d1
  b1 = b1
  b2 = b2
  k1 = k1
  k2 = k2
  None = None
  Token = {short, name, fullName}
  Short = {short}
  Long = {fullName}
  Slug = {d1}
  Branch = {b1, b2}
  Key = {k1, k2}
  MaxEdits = 3
  Char = {"a", "A", "b", "c", "."}
  Lower <- MCLower
  Value <- MCValue
  Radius = 1
  MaxText = 5
  here = here
  there = there
  u1 = u1
  u2 = u2
  keyA = keyA
  keyB = keyB
  t1 = t1
  t2 = t2
  Url = {u1, u2}
  Signer = {keyA, keyB}
  Instant = {t1, t2}
  Items = {{}, {1}, {2}, {1, 2}}
  Named = {here, there}
  Publication <- MCPublication
  NoFile = NoFile
  Option <- MCOption
  MaxPublished = 2
  guide = guide
  page = page
  photo = photo
  sheet = sheet
  rules = rules
  Path = {guide, page, photo, sheet, rules}
  KindOf <- MCKindOf
  ScanRoot = {"docs", "static"}
  RootOf <- MCRootOf
  SelfExclude = {rules}
  Checkout <- MCCheckout
  Gone = Gone
  MaxDiskChanges = 2
SPECIFICATION AllSpec
SYMMETRY Symmetry
INVARIANTS
  NothingPassesUncompared
CHECK_DEADLOCK FALSE
