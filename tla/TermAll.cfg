SPECIFICATION Spec
CONSTANTS
  Black = 0
  Colours = {0, 1}
  MaxPatches = 2
  FirstPatchId = 3
  Geometries <- MCGeometries
  Rects <- MCRects
  MaxDamage = 2
  MaxResizes = 2
  MaxWire = 0
INVARIANTS
  ScreenShowsShadow
  
PROPERTIES
  NeverBlank
CHECK_DEADLOCK FALSE
