\* Two calls of any kind at any time, two consumers, and a channel that the
\* second wake finds full when the first was not consumed.
CONSTANTS
  Wakes = {w1, w2}
  Consumers = {c1, c2}
  BufferSize = 1
  MaxUint = 2
  NoWake = NoWake
SPECIFICATION Spec
INVARIANTS TypeOK DatabaseOutlivesUsers CleanExitNeedsSignal
PROPERTIES EventuallyExits
