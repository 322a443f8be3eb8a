SPECIFICATION Spec
CONSTANTS
  t1 = t1
  t2 = t2
  Tabs <- OneTab
  Edits <- OfAnalysis
  MaxWrites = 4
PROPERTIES AnalysisNotOverwritten
