CONSTANTS
  None = None
  Failed = Failed
  Blank = Blank
  Ids = {p1, p2, p3}
  Extractions <- MCExtractions
  MaxEntries = 2
  Ttl = 1
SPECIFICATION Spec
SYMMETRY Symmetry
INVARIANT StrongestShown
PROPERTY EvictedInOrderOfUse
