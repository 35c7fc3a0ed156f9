CONSTANTS
  Queries = {q1, q2}
  Resources = {s1}
  Agents = {g0, g1, g2, g3}
  Authors = {g0}
  Grades = {no, yes}
  Runs = {r1, r2}
  None = None
  Torn = Torn
  MaxPipelines = 2
  MaxOverruled = 1
  MaxTroubles = 1
  Purposes = {"final"}
  MaxPools = 1
SPECIFICATION Spec
INVARIANTS JudgedIndependently FinalStands LastFileCommits
SYMMETRY Symmetry
CHECK_DEADLOCK FALSE
