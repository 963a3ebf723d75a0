------------------------ MODULE MC_BackendMembership ------------------------
(* Model-checking instances of BackendMembership: two zones (a server      *)
(* deployed to two zones), interchangeable.                               *)
EXTENDS BackendMembership, TLC

CONSTANTS z1, z2

MCZones == {z1, z2}
MCVariants == {"default", "alternative"}
MCSymmetry == Permutations(MCZones)
=============================================================================
