---- MODULE MCReleaseRuns ----
EXTENDS ReleaseRuns, TLC

\* Authors is a fixed subset of Agents, so only the other runs are interchangeable.
Symmetry == Permutations(Agents \ Authors) \cup Permutations(Runs) \cup Permutations(Queries) \cup Permutations(Grades)
====
