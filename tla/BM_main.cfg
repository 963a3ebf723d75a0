CONSTANTS
  z1 = z1
  z2 = z2
  Zones <- MCZones
  Variants <- MCVariants
  MaxFaults = 2
  MaxRestarts = 1

SYMMETRY MCSymmetry

SPECIFICATION Spec

INVARIANT MembershipSynced
