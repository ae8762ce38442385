\* The launch of floyd_warshall.c: work_dim is 1, so get_global_id(1) is 0.
CONSTANTS
  N = 3
  Rows <- FirstRow
  Graphs <- MCGraphs
  Unwritten = Unwritten
SPECIFICATION Spec
INVARIANT ShortestPaths
