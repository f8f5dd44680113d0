SPECIFICATION MainSpec
CONSTANTS
  IntMax = 127
  CommandLines <- MCLines
  Contents <- MCContents
INVARIANTS TypeOK SectionsInFile ShowsReachable
PROPERTY EndsOrGoesBack
