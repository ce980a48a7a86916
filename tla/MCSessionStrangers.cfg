\* Three nodes: an address may lead to the wrong one, one has a wrong key.
CONSTANTS
  n1 = n1
  n2 = n2
  n3 = n3
  t1 = t1
  Node = {n1, n2, n3}
  Client = {}
  Browsers <- AtEveryNode
  Msg = {t1}
  Greetings = {}
  Routes <- StaleRoutes
  BadKey = {n2}
  MaxConn = 1
  MaxErrors = 0
  MaxRestarts = 0
  None = None
  NoAddr = NoAddr
SPECIFICATION Spec
CHECK_DEADLOCK FALSE
INVARIANT SessionAgreement
INVARIANT OnlyAddresseeCanRead
INVARIANT Authentication
