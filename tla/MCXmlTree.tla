----------------------------- MODULE MCXmlTree -----------------------------
EXTENDS XmlTree, TLC
CONSTANTS x1, x2, v1, v2, r1
MCXmls == {x1, x2}
MCNodeVars == {v1, v2}
MCResults == {r1}
Symmetry == {x @@ v : x \in Permutations(MCXmls), v \in Permutations(MCNodeVars)}
=============================================================================
