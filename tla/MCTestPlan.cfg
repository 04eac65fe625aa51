SPECIFICATION Spec
CONSTANTS
  p1 = p1
  f1 = f1
  Test = {1, 2, 3}
  Path = {p1}
  Flag = {f1}
  Catalogs <- MCCatalogs
  Imports <- MCImports
  Facts <- MCFacts
  MaxEdits = 1
INVARIANTS CatalogVerdict PlanComplete PlanCheapestFirst
  SealedTestsRun EvidenceTrue

CHECK_DEADLOCK FALSE
