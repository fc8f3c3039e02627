SPECIFICATION FairSpec
CONSTANTS
  Senders = {s1, s2}
  Conns = {c1}
  Groups = {g1}
  All = All
  Messages = {m1, m2, m3}
  Capacity = 1
  None = None
PROPERTIES
  WorkersLeave
  SendsReturn
CHECK_DEADLOCK FALSE
