---------------------------- MODULE MCNetHandles ----------------------------
EXTENDS NetHandles, TLC
CONSTANTS e1, e2, e3, p1, p2, c1, c2
MCEasies == {e1, e2, e3}
MCPacks == {p1, p2}
MCCurls == {c1, c2}
Symmetry == {e @@ p @@ c : e \in Permutations(MCEasies), p \in Permutations(MCPacks), c \in Permutations(MCCurls)}
=============================================================================
