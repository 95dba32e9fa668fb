CONSTANTS
  HeapSize = 12
  Header = 3
  MinRest = 2
  Grain = 2
  Word = 64
  Requests = {1, 4, 63}
  Total = 8
  PageSize = 2
  Low = 2
  KernelEnd = 5
  Maps <- MCMaps
  Caches = {"32", "256"}
  Objects <- MCObjects
SPECIFICATION Spec
INVARIANTS HeapInv FramesOwned SlabsSound
PROPERTIES GrowsWhenFull
