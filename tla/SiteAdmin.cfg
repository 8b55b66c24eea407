SPECIFICATION Spec
CONSTANTS
  Pages = {"timeline", "about"}
  BuiltinPages = {"timeline"}
  Contents = {0, 1}
  Titles = {1, 2}
  Extensions = {"png", "ico"}
  Quota = 9
  Crashes = TRUE
INVARIANTS
  PagesServedFromFiles
  UsageIsExact
