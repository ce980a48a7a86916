\* Two nodes that may dial each other twice in a row, greetings, a text, a
\* browser, and one failure at any point: a connection that breaks, or a restart.
CONSTANTS
  n1 = n1
  n2 = n2
  Node = {n1, n2}
  Client = {u1}
  Browsers <- AtEveryNode
  Msg = {t1}
  Greetings = {g1}
  Routes <- DirectRoutes
  BadKey = {}
  MaxConn = 2
  MaxErrors = 1
  MaxRestarts = 1
  None = None
  NoAddr = NoAddr
SPECIFICATION Spec
CHECK_DEADLOCK FALSE
CONSTRAINT Bounds
SYMMETRY Symmetry
INVARIANT TypeOK
INVARIANT NothingWaitsBehindSession
INVARIANT OneFate
INVARIANT LiveSocketRegistered
INVARIANT AttemptsAdvance
INVARIANT NoHalfTunnel
INVARIANT DisagreementIsCrossing
INVARIANT TextsOpen
INVARIANT DeliveryInv
PROPERTY ImplementsMailbox
