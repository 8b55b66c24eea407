SPECIFICATION Spec
CONSTANTS
  Labels = {la, lb, lc}
  Posts = {p}
  MaxBehind = 1
SYMMETRY LabelSymmetry
INVARIANTS GraphAcyclic CacheFollowsFiles SearchKeepsWhatItCan 
