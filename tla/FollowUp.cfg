SPECIFICATION Spec
CONSTANTS
  movie = movie
  series = series
  film = film
  first = first
  second = second
  Movies = {movie}
  Series = {series}
  Leaves <- MCLeaves
  FaultMax = 2
CONSTRAINT SecondInBatch
SYMMETRY Alike
CHECK_DEADLOCK FALSE
INVARIANTS DatesPutBack RestoredAfterAll ReportedOnce
PROPERTIES RefreshedLast
