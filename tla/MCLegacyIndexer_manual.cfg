\* A place is tagged while a forced import works on a photo of it.
SPECIFICATION Spec
CONSTANTS
  f1 = f1
  f2 = f2
  Files = {f1, f2}
  Gps <- GpsOfFiles
  Places = {1}
  Normalized <- Itself
  Radius = 1
  Categories = {home, park}
  None = None
  Runs = {r1}
  Taggers = {t1}
PROPERTIES
  ManualKept
