--------------------------- MODULE MCDescriptors ---------------------------
EXTENDS Descriptors, TLC
CONSTANTS p1, p2, f1, v1, v2, s1, s2
MCProcs == {p1, p2}
MCFiles == {f1}
MCObjs == MCProcs \union MCFiles
MCVars == {v1, v2}
MCSocks == {s1, s2}
MCRedirects == {{}, {"in", "out"}}
Symmetry == {f @@ g @@ h : f \in Permutations(MCProcs), g \in Permutations(MCVars), h \in Permutations(MCSocks)}
=============================================================================
