SPECIFICATION Spec
CONSTANTS
  Text = {"a"}
  Line <- AllLines
  NoLine <- None
  BufferSize = 4
  MaxCommandSize = 4
  InFlight = 6
  Breaks = TRUE
INVARIANTS TypeOK BlocksForMore
PROPERTIES CarriesLines EveryLineHeard
