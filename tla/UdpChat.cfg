\* Two clients and three datagrams, each received any number of times.
CONSTANTS
  a = a  b = b
  Clients = {a, b}
  MaxSent = 3
  MaxOwners = 2
SPECIFICATION Spec
INVARIANTS OnlyWhoAsked SenderIsIncluded
\* Clients need not send.
CHECK_DEADLOCK FALSE
