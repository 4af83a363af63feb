CONSTANTS
  None = None  NotAModule = NotAModule
  C = C  D = D  M = M  f = f  mm = mm  b1 = b1  b2 = b2
  Classes = {C, D}  Modules = {M}  Names = {f, mm}  Bodies = {b1, b2}
  Sites = {s1}  SuperSites = {p1, p2}  PreambleSites = {s1, p1}  Overriding = {M}  Ways = 2  Cap = 2
  Called = f  Missing = mm
  Hooks = TRUE  MaxGen = 2  MaxResets = 1
  Baselines <- Snapshots  Defs <- Program  UndefArgs <- Undefs  IncludeArgs <- Includes
SPECIFICATION Spec
INVARIANTS GlobalExact SuperExact CvarsExact CallSitesExact
CHECK_DEADLOCK FALSE
CONSTRAINT OneSite
