\* The queue is flushed to a peer that expired.
CONSTANTS
  n1 = n1
  n2 = n2
  n3 = n3
  u1 = u1
  t1 = t1
  Node = {n1, n2}
  Client = {u1}
  Browsers <- AtEveryNode
  Msg = {t1}
  Greetings = {}
  Routes <- DirectRoutes
  BadKey = {}
  MaxConn = 1
  MaxErrors = 0
  MaxRestarts = 0
  None = None
  NoAddr = NoAddr
SPECIFICATION Spec
CHECK_DEADLOCK FALSE
PROPERTY QueuedTextsAreSent
