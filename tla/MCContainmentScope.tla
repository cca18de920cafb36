------------------------ MODULE MCContainmentScope ------------------------
(* Values for the run of ContainmentScope: a tree of two names and depth   *)
(* three, with anchors whose directories are nested, and the symmetry of  *)
(* runs and of agents, which no property tells apart.                      *)
EXTENDS ContainmentScope, TLC

MCPaths == UNION {[1..n -> {"x", "y"}] : n \in 0..3}

MCAnchors == {<<"x", "x">>, <<"x", "y", "x">>, <<"y", "y", "y">>}

MCSymmetry == Permutations(Runs) \cup Permutations(Agents)
============================================================================
