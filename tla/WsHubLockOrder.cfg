SPECIFICATION FairSpec
CONSTANTS
  Senders = {s1}
  Conns = {c1}
  Groups = {g1}
  All = All
  Messages = {m1}
  Capacity = 1
  None = None
PROPERTIES
  WriteGetsItsLock
CHECK_DEADLOCK FALSE
