\* Up to three changes between any hit tests, timers and frames of a canvas.
CONSTANTS
  c1 = c1
  c2 = c2
  e1 = e1
  e2 = e2
  red = red
  blue = blue
  Component = {c1, c2}
  Connection = {e1, e2}
  Colours = {red, blue}
  Default = red
  Nobody = Nobody
  Places <- MCPlaces
  Width = 120
  Height = 80
  Cameras <- MCCameras
  Extents <- MCExtents
  Route <- LRoute
  CellSize = 300
  TolerancePx = 10
  Probes <- MCProbes
  Graphs <- MCGraphs
  MaxEdits = 3

SPECIFICATION Spec

INVARIANTS
  HitTestIsExact
  PictureIsCurrent
