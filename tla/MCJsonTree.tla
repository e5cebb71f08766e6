----------------------------- MODULE MCJsonTree -----------------------------
EXTENDS JsonTree, TLC
CONSTANTS v1, v2, v3
MCVars == {v1, v2, v3}
Symmetry == Permutations(MCVars)

CONSTANT MaxInUse      \* bound: the variables set and the nodes used, together
InUse == {v \in Vars : json[v] # Unset} \union {n \in Nodes : heap[n] # Fresh}
Bounded == Cardinality(InUse) <= MaxInUse
=============================================================================
