CONSTANTS
  r1 = r1  r2 = r2
  Words = {"a", "b"}
  Terminators = {"b"}
  MaxChars = 2
  Segments <- TheSegments
  MaxSegments = 2
  RowIds = {r1, r2}
  Writings = {"w"}
  Machine = "m"
  Window = 1
  None = None
SYMMETRY RowSymmetry
SPECIFICATION Spec
INVARIANTS TypeOK OneRowPerStart FreshCoversItsWords
PROPERTIES HandwritingKept FollowsItsSentence
