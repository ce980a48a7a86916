\* Under fairness, with one failure and its late close event, and two browsers:
\* queued texts are sent or dropped for want of an address, and the last CONNECT
\* is answered.
CONSTANTS
  n1 = n1
  n2 = n2
  n3 = n3
  t1 = t1
  u1 = u1
  u2 = u2
  Node = {n1, n2}
  Client = {u1, u2}
  Browsers <- AtOneNode
  Msg = {t1}
  Greetings = {}
  Routes <- DirectRoutes
  BadKey = {}
  MaxConn = 2
  MaxErrors = 1
  MaxRestarts = 0
  None = None
  NoAddr = NoAddr
SPECIFICATION FairSpec
CHECK_DEADLOCK FALSE
PROPERTY WaiterIsTold
PROPERTY DroppedIsUnaddressed
PROPERTY ImplementsPeerEntries
PROPERTY LastAskedIsAnswered
PROPERTY QueuedEventuallyFlushed
