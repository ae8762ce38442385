CONSTANTS
  N = 3
  Rows <- AllRows
  Graphs <- MCGraphs
  Unwritten = Unwritten
SPECIFICATION Spec
INVARIANTS
  RowAndColumnStable
  PassFormula
  MatchesCPU
  ShortestPaths
