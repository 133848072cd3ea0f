SPECIFICATION Spec
CONSTANTS
  GraceBars = 1
  Symbols = {a, b}
  MaxBars = 4
INVARIANTS CandidatesGrounded
PROPERTIES PathMatchesRoute
SYMMETRY MCSymmetry
