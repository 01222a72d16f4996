SPECIFICATION FrontendSpec
CONSTANTS
  Followed = {"admin"}
  Pairs <- MCPairs
  MaxVersion = 3
  MaxLost = 1
  MaxMoves = 2
  ListedPage <- MCPages
  Row = {1, 2, 3}
  ListLimit = 2
  PageSize = {1, 2}
  MaxOpened = 2
  MaxPressed = 1
  MaxSteps = 1
  IpRow = {1, 2}
  Slug = {"a"}
  MaxRuns = 2
  MaxTouched = 1
  LastStep = 2
  MaxTries = 2
  MaxPolls = 2
  MaxPollsLost = 1
  Net = {1, 2}
  Address = {1, 2}
  MaxImports = 2
  MaxTurns = 2
  Searched <- MCSearched
  Words = {"", "x", "ab"}
  Options = {"all", "one"}
  LogRow = {1, 2, 3}
  Hits <- MCHits
  Length = {1, 2}
  MaxTyped = 2
  MaxShrinks = 1
  File = {"f", "g"}
  Section = {"ldap", "dns"}
  MaxActs = 5
  MaxRestores = 3
  MaxRefused = 1
  Form <- MCForms
  MaxChanges = 2
  u1 = u1
  u2 = u2
  Window = {u1, u2}
  MaxOrders = 3
  MaxVisits = 4
  MaxOrdersLost = 1
  Browser = {1, 2}
  MaxRoles = 3
INVARIANT
  ConfirmedForItsFile
CHECK_DEADLOCK FALSE
