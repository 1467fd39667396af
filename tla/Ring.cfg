CONSTANTS
  Data = {a, b, c}
  NoData = NoData
  MaxDepth = 3
  CounterMod = 6
  SpinReload = FALSE
SPECIFICATION Spec
INVARIANTS PeekAgreesWithDequeue Inv
PROPERTIES RefinesQueue LiveSlotsKept
CHECK_DEADLOCK FALSE
