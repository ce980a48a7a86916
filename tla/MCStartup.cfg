\* Three processes on a machine with as many TCP ports; on a second machine a
\* process with a NODE_ID finds none.
CONSTANTS
  i1 = i1
  i2 = i2
  i3 = i3
  i4 = i4
  h1 = h1
  h2 = h2
  Instance = {i1, i2, i3, i4}
  Host = {h1, h2}
  HostOf <- Places
  Explicit = {i4}
  BasePort <- Ports
  MaxOffset <- Offsets
  Taken <- Others
SPECIFICATION FairSpec
INVARIANT StartupInv
INVARIANT DistinctIds
INVARIANT HelloLeadsToOwner
INVARIANT PortsSuffice
PROPERTY AnnouncesItself
