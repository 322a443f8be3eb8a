SPECIFICATION Spec
CONSTANTS
  t1 = t1
  t2 = t2
  Tabs <- TwoTabs
  Edits <- OfMixed
  MaxWrites = 4
INVARIANTS TypeOK RevisionTellsContent FreshIsCurrent
PROPERTIES NoSilentOverwrite WordsWereRead
