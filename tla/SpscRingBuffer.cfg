\* A ring of four slots whose indices wrap at eight.
SPECIFICATION Spec
CONSTANTS
  Items = {i1, i2}
  Capacity = 4
  IndexModulus = 8
INVARIANT NoSlotRace
PROPERTY ImplementsQueue
