CONSTANTS
  Tasks = {t1}
  Pkg = Pkg
  Dev = Dev
  DevPushes = {Dev}
  NoBranch = NoBranch
SPECIFICATION Spec
SYMMETRY TaskSymmetry
INVARIANTS ReportedIsPushed
