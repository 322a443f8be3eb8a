SPECIFICATION Spec
CONSTANTS
  Uploads = {"a1", "a2", "a3", "b", "c", "w1", "w2"}
  Web = {"w1", "w2"}
  Id <- IdOf
  Key <- KeyOf
  Audio <- AudioOf
  Deletions = {"d1"}
  MaxUploads = 3
INVARIANTS TypeOK AudioSurvives NothingLeftOver
PROPERTIES AcknowledgedIsStored
CHECK_DEADLOCK FALSE
