SPECIFICATION Spec
CONSTANTS
  Uploads = {"a1", "a2"}
  Web = {}
  Id <- IdOf
  Key <- KeyOf
  Audio <- AudioOf
  Deletions = {"d1"}
  MaxUploads = 2
INVARIANTS DeletedIsRemoved
CHECK_DEADLOCK FALSE
