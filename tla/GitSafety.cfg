CONSTANTS
  Tasks = {t1, t2}
  Pkg = Pkg
  Dev = Dev
  DevPushes = {Pkg}
  NoBranch = NoBranch
SPECIFICATION Spec
SYMMETRY TaskSymmetry
INVARIANTS GitInv AgentSeesBranch
PROPERTIES NeverTheOpposite NothingLost KeepsPublishContract
