CONSTANTS
  z1 = z1
  z2 = z2
  Zones <- MCZones
  Variants <- MCVariants
  MaxFaults = 0
  MaxRestarts = 0

SPECIFICATION Spec

PROPERTY AddWithoutZonesRaises
