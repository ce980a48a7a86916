\* Two browsers at one node click CONNECT for a peer that cannot prove its key.
CONSTANTS
  n1 = n1
  n2 = n2
  n3 = n3
  u1 = u1
  u2 = u2
  Node = {n1, n2}
  Client = {u1, u2}
  Browsers <- AtOneNode
  Msg = {}
  Greetings = {}
  Routes <- DirectRoutes
  BadKey = {n2}
  MaxConn = 1
  MaxErrors = 0
  MaxRestarts = 0
  None = None
  NoAddr = NoAddr
SPECIFICATION FairSpec
CHECK_DEADLOCK FALSE
PROPERTY ConnectAnswered
