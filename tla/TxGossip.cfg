\* Three transactions, so that an element in the middle is removed between its
\* neighbours; a peer that connects twice.
SPECIFICATION Spec
CONSTANTS
  Peers = {p1}
  Nil = Nil
  MaxElements = 3
  MaxUps = 2
INVARIANT ListIntact
PROPERTY Forwarded
CHECK_DEADLOCK FALSE
