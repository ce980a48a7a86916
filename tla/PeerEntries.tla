---------------------------- MODULE PeerEntries ----------------------------
(***************************************************************************)
(* What the Map peers of a node (index.js) promises the rest of it: the    *)
(* address of a peer, once known, is replaced by another one or forgotten  *)
(* together with the entry, and a handshake with a peer that is known      *)
(* changes nothing.  PeerTable, Session and Dashboard each model this Map, *)
(* and implement this.                                                     *)
(***************************************************************************)
CONSTANTS
  Owner,  \* the nodes that keep a table
  Peer,   \* the peers they may list
  Addr,   \* addresses
  NoAddr, \* an entry without address (ip: null)
  None    \* no entry

VARIABLE entry  \* the address each owner has for each peer, NoAddr, or None

Entries == [Owner -> [Peer -> Addr \cup {NoAddr, None}]]

Init == entry = [o \in Owner |-> [p \in Peer |-> None]]

Others(o) == \A q \in Owner \ {o} : entry'[q] = entry[q]

\* upsertPeer, for one peer or for those of a list: each gets an address.
Learn(o) ==
  /\ entry' \in Entries
  /\ Others(o)
  /\ \A p \in Peer : entry'[o][p] = entry[o][p] \/ entry'[o][p] \in Addr

\* registerPeerKey: a handshake makes an entry where there is none.
Register(o, p) ==
  /\ entry[o][p] = None
  /\ entry' = [entry EXCEPT ![o][p] = NoAddr]

\* cleanStalePeers, or the end of the process.
Forget(o) ==
  /\ entry' \in Entries
  /\ Others(o)
  /\ \A p \in Peer : entry'[o][p] \in {entry[o][p], None}

Next ==
  \E o \in Owner :
    \/ Learn(o)
    \/ \E p \in Peer : Register(o, p)
    \/ Forget(o)

Spec == Init /\ [][Next]_entry
=============================================================================
