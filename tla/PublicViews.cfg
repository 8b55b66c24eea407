SPECIFICATION Spec
CONSTANTS
  Ids = {1, 2}
  Titles = {a, b}
  MaxSuffix = 2
  AssetNames = {x, y}
  Quota = 3
  MaxFaults = 1
  Crashes = TRUE
SYMMETRY Symmetry
INVARIANTS CacheMatchesDisk UsageIsExact
  ListedPostsOpen PermalinksWork AssetsFollowPost
