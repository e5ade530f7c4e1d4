\* Two producers, two consumers, a ring of two slots.
CONSTANTS
  p1 = p1  p2 = p2
  c1 = c1  c2 = c2
  v1 = v1  v2 = v2
  Producers = {p1, p2}
  Consumers = {c1, c2}
  Items = {v1, v2}
  Blank = Blank
  Cap = 2
  NoThread = NoThread
SPECIFICATION FairSpec
INVARIANTS SlotExclusive IInv
PROPERTY IsChannel
