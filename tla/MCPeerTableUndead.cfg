\* Three nodes, one of which stops; nothing is lost.
CONSTANTS
  n1 = n1
  n2 = n2
  n3 = n3
  a1 = a1
  a2 = a2
  a3 = a3
  a4 = a4
  Node = {n1, n2, n3}
  Addr = {a1, a2, a3}
  Home <- FirstAddresses
  TTL = 3
  Roaming = {n1}
  MaxUpsets = 1
  None = None
  NoAddr = NoAddr
SPECIFICATION FairSpec
CHECK_DEADLOCK FALSE
PROPERTY DeadPeerForgotten
