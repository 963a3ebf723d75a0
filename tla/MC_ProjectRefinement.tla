------------------------ MODULE MC_ProjectRefinement ------------------------
(* Model-checking instances of the refinement: the caller's method groups *)
(* of MC_TrafficDirector, with the abstract project as a property.        *)
EXTENDS ProjectRefinement, MC_TrafficDirector
=============================================================================
