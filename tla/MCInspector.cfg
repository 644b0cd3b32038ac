CONSTANTS
  Ids <- MCIds
  WithRef <- MCWithRef
  NumTabs = 3
  NumLines = 2
  MaxCopies = 1

SPECIFICATION FairSpec
INVARIANTS
  TypeOK
  OneReticle
  PlaceholderHonest
PROPERTIES
  HighlightSurvives
  CopyLabelReturns
  BootEnds
