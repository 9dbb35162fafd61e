\* Two threads ask for the same new path.
SPECIFICATION Spec
CONSTANTS
  Threads = {t1, t2}
  Paths = {a}
  MaxFail = 0
INVARIANT InsertIsNew
SYMMETRY ThreadSymmetry
CHECK_DEADLOCK FALSE
