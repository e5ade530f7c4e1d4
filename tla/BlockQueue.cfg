\* Two producers, three consumers, a queue of one place.
CONSTANTS
  p1 = p1  p2 = p2
  c1 = c1  c2 = c2  c3 = c3
  v1 = v1  v2 = v2
  Producers = {p1, p2}
  Consumers = {c1, c2, c3}
  Items = {v1, v2}
  Blank = Blank
  MaxCap = 1
  NoThread = NoThread
SPECIFICATION FairSpec
INVARIANTS NoLostWakeup IInv
PROPERTY IsChannel
