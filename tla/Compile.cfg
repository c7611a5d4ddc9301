SPECIFICATION Spec
CONSTANTS
  p1 = p1
  p2 = p2
  p3 = p3
  Process = {p1, p2, p3}
  None = None
  Jobs <- MCJobs
SYMMETRY Symmetry
INVARIANTS UndisturbedCompiles NeverStale
