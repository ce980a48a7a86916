\* Two peers, an address each may have or lack, short lives with no margin, as
\* in the code, and timers that may be late.
CONSTANTS
  p1 = p1
  p2 = p2
  a1 = a1
  Peer = {p1, p2}
  Addr = {a1}
  NoAddr = NoAddr
  None = None
  NodeTTL = 1
  NodePeriod = 1
  UiTTL = 2
  UiPeriod = 1
  MaxLate = 1
  MaxEvents = 2
SPECIFICATION FairSpec
INVARIANT DashboardInv
INVARIANT ViewFollowsTable
INVARIANT CardsExpire
PROPERTY GhostsVanish
