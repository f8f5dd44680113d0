SPECIFICATION MainSpec
CONSTANTS
  IntMax = 127
  CommandLines <- MCVerifiedLines
  Contents <- MCVerifiedContents
INVARIANT AcceptedIsSound
