SPECIFICATION Spec
CONSTANTS
  Dancers = {d1, d2}
  Threads = {t1, t2, t3}
  Commands = {c1, c2, c3, c4}
  Broken = {c4}
  Sizes = {1, 2}
  None = None
INVARIANT PoolBounded
INVARIANT CarriedOnce
PROPERTY RefusedBusy
PROPERTY AcceptedStartsIfSound
CHECK_DEADLOCK FALSE
