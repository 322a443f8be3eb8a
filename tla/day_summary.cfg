CHECK_DEADLOCK FALSE
CONSTANTS
  Recordings = {r1, r2}
  Workers = {w1, w2}
  MaxRevision = 2
  MaxUploads = 2
SPECIFICATION Spec
SYMMETRY Symmetry
INVARIANTS TypeOK NothingDeletedIsQuoted
PROPERTIES SavedFromCurrent NeverOlder
