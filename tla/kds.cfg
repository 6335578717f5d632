SPECIFICATION FairSpec
CONSTANTS
  Empty = Empty
  Inputs <- SmallInputs
  Slots = 2
  Limit = 3
INVARIANTS TypeOK NoDangling LookupsFind TaggedAreOdd ResultsOverrun LeaksOnlyDuplicates
PROPERTIES Loads
CHECK_DEADLOCK FALSE
