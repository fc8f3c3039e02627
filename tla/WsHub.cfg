SPECIFICATION Spec
CONSTANTS
  Senders = {s1, s2}
  Conns = {c1, c2}
  Groups = {g1, g2}
  All = All
  Messages = {m1, m2}
  Capacity = 1
  None = None
INVARIANTS
  TypeOK
  NoSendOnClosedChannel
  RegisteredWhileServed
  SameOrder
CHECK_DEADLOCK FALSE
