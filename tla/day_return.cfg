CHECK_DEADLOCK FALSE
CONSTANTS
  Recordings = {r1, r2}
  Workers = {w1}
  MaxRevision = 2
  MaxUploads = 2
SPECIFICATION Spec
PROPERTIES DeletedDoesNotReturn
