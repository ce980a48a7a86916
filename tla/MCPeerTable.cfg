\* Three nodes that announce themselves in any order and overlap, with one upset
\* of any kind; entries live for one period, so that one loss can expire them.
CONSTANTS
  n1 = n1
  n2 = n2
  n3 = n3
  a1 = a1
  a2 = a2
  a3 = a3
  a4 = a4
  Node = {n1, n2, n3}
  Addr = {a1, a2, a3, a4}
  Home <- FirstAddresses
  TTL = 1
  Roaming = {n1}
  MaxUpsets = 1
  None = None
  NoAddr = NoAddr
SPECIFICATION FairSpec
CHECK_DEADLOCK FALSE
INVARIANT TypeOK
INVARIANT AnnouncedPeerIsListed
INVARIANT AddressProvenance
PROPERTY ImplementsPeerEntries
PROPERTY AddressesRecover
