SPECIFICATION ChangesSpec
CONSTANTS
  Bits = 2
  Keys = {0, 2}
  Values = {0, 1}
  Admins = {a1}
  MaxStale = 4
INVARIANT AbsencesAreProvable
