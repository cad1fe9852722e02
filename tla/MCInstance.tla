------------------------------ MODULE MCInstance ------------------------------
EXTENDS Instance, TLC

CONSTANTS p1, p2, p3, s1, s2

Processes == {p1, p2, p3}
TwoProcesses == {p1, p2}
OneProcess == {p1}
SessionNames == {s1, s2}
OneSession == {s1}

\* Processes are alike, and so are session names.
Symmetry == Permutations(Processes) \cup Permutations(SessionNames)
===============================================================================
