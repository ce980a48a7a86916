--------------------------- MODULE PeerTableProofs ---------------------------
(***************************************************************************)
(* Theorems about PeerTable, for any nodes and addresses, any lifetime of  *)
(* an entry, and any number of losses, moves and stops.                    *)
(***************************************************************************)
EXTENDS PeerTable, TLAPS

USE DEF netVars, placeVars, Upset

-----------------------------------------------------------------------------
(***************************************************************************)
(* Type correctness.                                                       *)
(***************************************************************************)

\* n has no address for itself.
NotAtHome(n, t) == t[n] # None => t[n].ip = NoAddr

\* A table after upsertPeer of known addresses is a table again, with the
\* node's own entry as it was.
LEMMA UpsertPeerType ==
  ASSUME TypeOK, NEW n \in Node, NEW known \in [Node -> Addr \cup {None}]
  PROVE  /\ UpsertPeer(n, known) \in [Node -> Entry \cup {None}]
         /\ UpsertPeer(n, known)[n] = table[n][n]
<1>1. ASSUME NEW m \in Node
      PROVE  UpsertPeer(n, known)[m] \in Entry \cup {None}
  BY PeerTableAssumption DEF TypeOK, UpsertPeer, Entry
<1>2. UpsertPeer(n, known)[n] = table[n][n]
  BY DEF TypeOK, UpsertPeer
<1>3. QED
  BY <1>1, <1>2 DEF UpsertPeer

LEMMA ToldType ==
  ASSUME TypeOK, NEW l \in lists
  PROVE  Told(l) \in [Node -> Addr \cup {None}]
BY DEF TypeOK, List, Told

LEMMA CurrentPeerListType ==
  ASSUME NEW n \in Node, NEW t \in [Node -> Entry \cup {None}]
  PROVE  /\ Ips(t) \in [Node -> Addr \cup {NoAddr, None}]
         /\ CurrentPeerList(n, t) \in [Node -> Addr \cup {NoAddr, None}]
<1>1. Ips(t) \in [Node -> Addr \cup {NoAddr, None}]
  BY DEF Ips, Entry
<1>2. QED
  BY <1>1 DEF CurrentPeerList

LEMMA AnnounceType ==
  ASSUME TypeOK, NEW n \in Node, Announce(n)
  PROVE  hellos' \in SUBSET Hello
BY DEF TypeOK, Announce, Hello

LEMMA InitType == Init => TypeOK
BY PeerTableAssumption DEF Init, TypeOK

LEMMA NextType == TypeOK /\ [Next]_vars => TypeOK'
<1> SUFFICES ASSUME TypeOK, [Next]_vars PROVE TypeOK'
  OBVIOUS
<1> USE PeerTableAssumption
<1>1. ASSUME NEW n \in Node, NEW m \in Node, RegisterPeerKey(n, m)
      PROVE  TypeOK'
  <2>1. [ip |-> NoAddr, age |-> 0] \in Entry
    BY DEF Entry
  <2>2. /\ table' \in [Node -> [Node -> Entry \cup {None}]]
        /\ \A i \in Node : NotAtHome(i, table'[i])
    BY <1>1, <2>1 DEF TypeOK, RegisterPeerKey, NotAtHome
  <2>3. QED
    BY <1>1, <2>2 DEF TypeOK, RegisterPeerKey, NotAtHome
<1>2. ASSUME NEW n \in Node, CleanStalePeers(n) PROVE TypeOK'
  BY <1>2 DEF TypeOK, CleanStalePeers
<1>3. ASSUME NEW n \in Node, SendHello(n) PROVE TypeOK'
  BY <1>3, AnnounceType DEF TypeOK, SendHello
<1>4. ASSUME NEW n \in Node, RequestScan(n) PROVE TypeOK'
  BY <1>4, AnnounceType DEF TypeOK, RequestScan
<1>5. ASSUME NEW h \in hellos, ReceiveHello(h) PROVE TypeOK'
  <2> DEFINE known == [m \in Node |-> IF m = h.from THEN h.ip ELSE None]
             t     == UpsertPeer(h.to, known)
  <2>1. h.to \in Node /\ h.from \in Node /\ h.ip \in Addr
    BY DEF TypeOK, Hello
  <2>2. known \in [Node -> Addr \cup {None}]
    BY <2>1
  <2>3. t \in [Node -> Entry \cup {None}] /\ t[h.to] = table[h.to][h.to]
    BY <2>1, <2>2, UpsertPeerType
  <2>4. /\ table' = [table EXCEPT ![h.to] = t]
        /\ lists' = lists \cup {[to |-> h.ip, from |-> h.to, via |-> addr[h.to],
                                 peers |-> CurrentPeerList(h.to, t)]}
    BY <1>5 DEF ReceiveHello
  <2> HIDE DEF t
  <2>5. /\ table' \in [Node -> [Node -> Entry \cup {None}]]
        /\ \A n \in Node : NotAtHome(n, table'[n])
    BY <2>1, <2>3, <2>4 DEF TypeOK, NotAtHome
  <2>6. lists' \in SUBSET List
    BY <2>1, <2>3, <2>4, CurrentPeerListType DEF TypeOK, List
  <2>7. QED
    BY <1>5, <2>1, <2>5, <2>6 DEF TypeOK, ReceiveHello, NotAtHome
<1>6. ASSUME NEW l \in lists, ReceiveList(l) PROVE TypeOK'
  <2>1. PICK n \in At(l.to) :
          table' = [table EXCEPT ![n] = UpsertPeer(n, Told(l))]
    BY <1>6 DEF ReceiveList
  <2>2. n \in Node
    BY DEF At, TypeOK
  <2>3. /\ UpsertPeer(n, Told(l)) \in [Node -> Entry \cup {None}]
        /\ UpsertPeer(n, Told(l))[n] = table[n][n]
    BY <2>2, ToldType, UpsertPeerType
  <2>4. /\ table' \in [Node -> [Node -> Entry \cup {None}]]
        /\ \A i \in Node : NotAtHome(i, table'[i])
    BY <2>1, <2>2, <2>3 DEF TypeOK, NotAtHome
  <2>5. QED
    BY <1>6, <2>4 DEF TypeOK, ReceiveList, NotAtHome
<1>7. ASSUME NEW h \in hellos, LoseHello(h) PROVE TypeOK'
  BY <1>7 DEF TypeOK, LoseHello
<1>8. ASSUME NEW l \in lists, LoseList(l) PROVE TypeOK'
  BY <1>8 DEF TypeOK, LoseList
<1>9. ASSUME NEW l \in lists, ListRefused(l) PROVE TypeOK'
  BY <1>9 DEF TypeOK, ListRefused
<1>11. ASSUME NEW n \in Node, Stop(n) PROVE TypeOK'
  BY <1>11 DEF TypeOK, Stop
<1>12. ASSUME NEW n \in Node, Start(n) PROVE TypeOK'
  BY <1>12 DEF TypeOK, Start, TakeAddress
<1>13. ASSUME NEW n \in Node, Move(n) PROVE TypeOK'
  BY <1>13 DEF TypeOK, Move, TakeAddress
<1>14. CASE Tick
  <2>1. ASSUME NEW n \in Node, NEW m \in Node
        PROVE  /\ table'[n][m] \in Entry \cup {None}
               /\ silent'[n][m] \in 0 .. TTL + 1
    <3>1. silent'[n][m] \in 0 .. TTL + 1
      BY <1>14 DEF TypeOK, Tick
    <3>2. table[n][m] \in Entry \cup {None}
      BY DEF TypeOK
    <3>3. CASE table[n][m] = None
      BY <1>14, <3>1, <3>3 DEF Tick
    <3>4. CASE table[n][m] # None /\ table[n][m].age > TTL
      BY <1>14, <3>1, <3>2, <3>4 DEF Tick
    <3>5. CASE table[n][m] # None /\ ~(table[n][m].age > TTL)
      <4>1. table[n][m] \in Entry
        BY <3>2, <3>5
      <4>2. table'[n][m] = [table[n][m] EXCEPT !.age = @ + 1]
        BY <1>14, <3>5 DEF Tick
      <4>3. table[n][m].age + 1 \in 0 .. TTL + 1
        BY <3>5, <4>1 DEF Entry
      <4>4. [table[n][m] EXCEPT !.age = @ + 1] \in Entry
        BY <4>1, <4>3 DEF Entry
      <4>5. QED
        BY <3>1, <4>2, <4>4
    <3>6. QED
      BY <3>3, <3>4, <3>5
  <2>2. /\ table' \in [Node -> [Node -> Entry \cup {None}]]
        /\ silent' \in [Node -> [Node -> 0 .. TTL + 1]]
    BY <1>14, <2>1 DEF Tick
  <2>3. ASSUME NEW n \in Node PROVE NotAtHome(n, table'[n])
    <3>1. table[n][n] \in Entry \cup {None} /\ NotAtHome(n, table[n])
      BY DEF TypeOK, NotAtHome
    <3>2. \/ table'[n][n] = table[n][n]
          \/ /\ table[n][n] # None
             /\ table'[n][n] = [table[n][n] EXCEPT !.age = @ + 1]
      BY <1>14 DEF Tick
    <3>3. QED
      BY <3>1, <3>2 DEF Entry, NotAtHome
  <2>4. QED
    BY <1>14, <2>2, <2>3 DEF TypeOK, Tick, NotAtHome
<1>15. CASE UNCHANGED vars
  BY <1>15 DEF TypeOK, vars
<1>16. QED
  BY <1>1, <1>2, <1>3, <1>4, <1>5, <1>6, <1>7, <1>8, <1>9, <1>11,
     <1>12, <1>13, <1>14, <1>15 DEF Next

\* Every table holds entries of the right form, and no node has an address for
\* itself, although each list upsertPeer is called for contains one, and a
\* handshake with itself makes an entry.
THEOREM TypeCorrect == Spec => []TypeOK
<1>1. QED
  BY InitType, NextType, PTL DEF Spec

-----------------------------------------------------------------------------
(***************************************************************************)
(* AnnouncedPeerIsListed: every step makes an entry new, or leaves it, or   *)
(* makes entry and history a period older; a node that starts remembers    *)
(* nothing (DownHearsNothing).                                             *)
(***************************************************************************)

\* What the property says of one entry, for a history of s periods.
ListedSince(t, m, s) == t[m] # None /\ t[m].age <= s

\* upsertPeer makes an entry new, and leaves the others alone.
LEMMA UpsertPeerKeeps ==
  ASSUME TypeOK, NEW n \in Node, NEW m \in Node, n # m,
         NEW known \in [Node -> Addr \cup {None}], NEW s \in Nat,
         known[m] # None \/ ListedSince(table[n], m, s)
  PROVE  ListedSince(UpsertPeer(n, known), m, s)
<1>1. CASE known[m] # None
  <2>1. UpsertPeer(n, known)[m] = [ip |-> known[m], age |-> 0]
    BY <1>1 DEF UpsertPeer
  <2>2. [ip |-> known[m], age |-> 0] \in Entry
    BY <1>1, PeerTableAssumption DEF Entry
  <2>3. QED
    BY <2>1, <2>2, NoneIsNoEntry DEF ListedSince
<1>2. CASE known[m] = None
  BY <1>2 DEF UpsertPeer, ListedSince
<1>3. QED
  BY <1>1, <1>2

LEMMA ListedInit == Init => ListedInv
BY PeerTableAssumption
   DEF Init, ListedInv, AnnouncedPeerIsListed, DownHearsNothing

LEMMA DownNext == TypeOK /\ DownHearsNothing /\ [Next]_vars => DownHearsNothing'
<1> SUFFICES ASSUME TypeOK, DownHearsNothing, [Next]_vars
             PROVE  DownHearsNothing'
  OBVIOUS
<1> USE PeerTableAssumption DEF DownHearsNothing
<1>1. CASE UNCHANGED <<up, silent, hellos>>
  BY <1>1
<1>2. ASSUME NEW n \in up, Announce(n), UNCHANGED <<up, silent>>
      PROVE  DownHearsNothing'
  BY <1>2 DEF Announce
<1>3. ASSUME NEW n \in Node, NEW m \in Node, RegisterPeerKey(n, m)
      PROVE  DownHearsNothing'
  BY <1>1, <1>3 DEF RegisterPeerKey
<1>4. ASSUME NEW n \in Node, CleanStalePeers(n) PROVE DownHearsNothing'
  BY <1>1, <1>4 DEF CleanStalePeers
<1>5. ASSUME NEW n \in Node, SendHello(n) PROVE DownHearsNothing'
  BY <1>2, <1>5 DEF SendHello, TypeOK
<1>6. ASSUME NEW n \in Node, RequestScan(n) PROVE DownHearsNothing'
  BY <1>2, <1>6 DEF RequestScan
<1>7. ASSUME NEW h \in hellos, ReceiveHello(h) PROVE DownHearsNothing'
  <2>1. h.to \in up
    OBVIOUS
  <2>2. QED
    BY <1>7, <2>1 DEF ReceiveHello, TypeOK
<1>8. ASSUME NEW l \in lists,
             ReceiveList(l) \/ LoseList(l) \/ ListRefused(l)
      PROVE  DownHearsNothing'
  BY <1>1, <1>8 DEF ReceiveList, LoseList, ListRefused
<1>9. ASSUME NEW h \in hellos, LoseHello(h) PROVE DownHearsNothing'
  BY <1>9 DEF LoseHello
<1>11. ASSUME NEW n \in Node, Stop(n) PROVE DownHearsNothing'
  BY <1>11 DEF Stop, TypeOK
<1>12. ASSUME NEW n \in Node, Start(n) PROVE DownHearsNothing'
  BY <1>12 DEF Start, TypeOK
<1>13. ASSUME NEW n \in Node, Move(n) PROVE DownHearsNothing'
  BY <1>1, <1>13 DEF Move
<1>14. CASE Tick
  BY <1>14 DEF Tick, TypeOK
<1>15. CASE UNCHANGED vars
  BY <1>1, <1>15 DEF vars
<1>16. QED
  BY <1>3, <1>4, <1>5, <1>6, <1>7, <1>8, <1>9, <1>11, <1>12, <1>13,
     <1>14, <1>15 DEF Next

LEMMA ListedNext ==
  TypeOK /\ ListedInv /\ [Next]_vars => AnnouncedPeerIsListed'
<1> SUFFICES ASSUME TypeOK, ListedInv, [Next]_vars,
                    NEW n \in up', NEW m \in Node,
                    n # m, silent'[n][m] <= TTL
             PROVE  ListedSince(table'[n], m, silent'[n][m])
  BY DEF AnnouncedPeerIsListed, ListedSince
<1> n \in Node
  BY NextType DEF TypeOK
<1> USE PeerTableAssumption
<1>1. silent[n][m] \in Nat /\ up \in SUBSET Node
  BY DEF TypeOK
<1>2. ASSUME n \in up, silent[n][m] <= TTL
      PROVE  ListedSince(table[n], m, silent[n][m])
  BY <1>2 DEF ListedInv, AnnouncedPeerIsListed, ListedSince
<1>3. CASE up' = up /\ UNCHANGED <<silent[n][m], table[n][m]>>
  BY <1>2, <1>3 DEF ListedSince
<1>4. ASSUME NEW i \in Node, NEW j \in Node, RegisterPeerKey(i, j)
      PROVE  ListedSince(table'[n], m, silent'[n][m])
  <2>1. CASE i = n /\ j = m
    <3>1. table[n][m] = None /\ UNCHANGED <<up, silent>>
      BY <1>4, <2>1 DEF RegisterPeerKey
    <3>2. QED
      BY <1>2, <3>1 DEF ListedSince
  <2>2. CASE ~(i = n /\ j = m)
    BY <1>3, <1>4, <2>2 DEF RegisterPeerKey, TypeOK
  <2>3. QED
    BY <2>1, <2>2
<1>5. ASSUME NEW i \in Node, CleanStalePeers(i)
      PROVE  ListedSince(table'[n], m, silent'[n][m])
  <2>1. UNCHANGED <<up, silent>>
    BY <1>5 DEF CleanStalePeers
  <2>2. table[n][m] # None /\ table[n][m].age <= silent[n][m]
    BY <1>2, <2>1 DEF ListedSince
  <2>3. table[n][m].age \in Nat
    BY <2>2 DEF TypeOK, Entry
  <2>4. ~(table[n][m].age > TTL)
    BY <1>1, <2>1, <2>2, <2>3
  <2>5. table'[n][m] = table[n][m]
    BY <1>5, <2>4 DEF CleanStalePeers, Stale, TypeOK
  <2>6. QED
    BY <1>3, <2>1, <2>5
<1>6. ASSUME NEW h \in hellos, ReceiveHello(h)
      PROVE  ListedSince(table'[n], m, silent'[n][m])
  <2> DEFINE known == [k \in Node |-> IF k = h.from THEN h.ip ELSE None]
  <2>1. h.to \in Node /\ h.from \in Node /\ h.ip \in Addr
    BY DEF TypeOK, Hello
  <2>2. known \in [Node -> Addr \cup {None}]
    BY <2>1
  <2>3. /\ table' = [table EXCEPT ![h.to] = UpsertPeer(h.to, known)]
        /\ silent' = [silent EXCEPT ![h.to][h.from] = 0]
        /\ up' = up
    BY <1>6 DEF ReceiveHello
  <2> HIDE DEF known
  <2>4. CASE h.to # n
    BY <1>3, <2>1, <2>3, <2>4 DEF TypeOK
  <2>5. CASE h.to = n /\ h.from = m
    <3>1. known[m] # None
      BY <2>1, <2>5 DEF known
    <3>2. silent'[n][m] = 0 /\ table'[n] = UpsertPeer(n, known)
      BY <2>1, <2>3, <2>5 DEF TypeOK
    <3>3. QED
      BY <2>2, <3>1, <3>2, UpsertPeerKeeps
  <2>6. CASE h.to = n /\ h.from # m
    <3>1. silent'[n][m] = silent[n][m] /\ table'[n] = UpsertPeer(n, known)
      BY <2>1, <2>3, <2>6 DEF TypeOK
    <3>2. ListedSince(table[n], m, silent[n][m])
      BY <1>2, <2>3, <3>1
    <3>3. QED
      BY <1>1, <2>2, <3>1, <3>2, UpsertPeerKeeps
  <2>7. QED
    BY <2>4, <2>5, <2>6
<1>7. ASSUME NEW l \in lists, ReceiveList(l)
      PROVE  ListedSince(table'[n], m, silent'[n][m])
  <2>1. PICK i \in At(l.to) :
          table' = [table EXCEPT ![i] = UpsertPeer(i, Told(l))]
    BY <1>7 DEF ReceiveList
  <2>2. i \in Node /\ UNCHANGED <<up, silent>>
    BY <1>1, <1>7 DEF At, ReceiveList
  <2>3. ListedSince(table[n], m, silent[n][m])
    BY <1>2, <2>2
  <2>4. CASE i = n
    <3>1. table'[n] = UpsertPeer(n, Told(l))
      BY <2>1, <2>4 DEF TypeOK
    <3>2. QED
      BY <1>1, <2>2, <2>3, <3>1, ToldType, UpsertPeerKeeps
  <2>5. CASE i # n
    BY <1>3, <2>1, <2>2, <2>5 DEF TypeOK
  <2>6. QED
    BY <2>4, <2>5
<1>8. ASSUME NEW i \in Node, Stop(i)
      PROVE  ListedSince(table'[n], m, silent'[n][m])
  <2>1. i # n /\ n \in up
    BY <1>8 DEF Stop
  <2>2. table'[n] = table[n] /\ silent'[n] = silent[n]
    BY <1>8, <2>1 DEF Stop, TypeOK
  <2>3. QED
    BY <1>2, <2>1, <2>2
<1>9. ASSUME NEW i \in Node, Start(i)
      PROVE  ListedSince(table'[n], m, silent'[n][m])
  <2>1. silent' = silent /\ table' = table
    BY <1>9 DEF Start
  <2>2. n \in up
    <3>1. CASE n \notin up
      BY <2>1, <3>1 DEF ListedInv, DownHearsNothing
    <3>2. QED
      BY <3>1
  <2>3. QED
    BY <1>2, <2>1, <2>2
<1>10. CASE Tick
  <2>1. /\ n \in up
        /\ silent'[n][m] = IF silent[n][m] > TTL THEN silent[n][m]
                           ELSE silent[n][m] + 1
        /\ table'[n][m] = IF table[n][m] = None \/ table[n][m].age > TTL
                          THEN table[n][m]
                          ELSE [table[n][m] EXCEPT !.age = @ + 1]
    BY <1>10 DEF Tick
  <2>2. silent[n][m] <= TTL /\ silent'[n][m] = silent[n][m] + 1
    BY <1>1, <2>1
  <2>3. table[n][m] # None /\ table[n][m].age <= silent[n][m]
    BY <1>2, <2>1, <2>2 DEF ListedSince
  <2>4. table[n][m] \in Entry /\ table[n][m].age \in Nat
    BY <2>3 DEF TypeOK, Entry
  <2>5. table'[n][m] = [table[n][m] EXCEPT !.age = @ + 1]
    BY <1>1, <2>1, <2>2, <2>3, <2>4
  <2>6. table[n][m].age + 1 \in 0 .. TTL + 1
    BY <1>1, <2>2, <2>3, <2>4
  <2>7. table'[n][m] \in Entry /\ table'[n][m].age = table[n][m].age + 1
    BY <2>4, <2>5, <2>6 DEF Entry
  <2>8. QED
    BY <1>1, <2>2, <2>3, <2>4, <2>7, NoneIsNoEntry DEF ListedSince
<1>11. CASE UNCHANGED <<up, silent, table>>
  BY <1>3, <1>11
<1>12. ASSUME \/ \E i \in Node : \/ SendHello(i) \/ RequestScan(i) \/ Move(i)
              \/ \E h \in hellos : LoseHello(h)
              \/ \E l \in lists : LoseList(l) \/ ListRefused(l)
              \/ UNCHANGED vars
       PROVE  UNCHANGED <<up, silent, table>>
  BY <1>12 DEF SendHello, RequestScan, Move, LoseHello, LoseList,
               ListRefused, vars
<1>13. QED
  BY <1>4, <1>5, <1>6, <1>7, <1>8, <1>9, <1>10, <1>11, <1>12 DEF Next

\* The invariant of expiry: who was heard is listed, who is down heard nobody.
THEOREM ListedCorrect == Spec => []ListedInv
<1>1. TypeOK /\ ListedInv /\ [Next]_vars => ListedInv'
  BY DownNext, ListedNext DEF ListedInv
<1>2. QED
  BY TypeCorrect, ListedInit, <1>1, PTL DEF Spec

\* Whatever is lost and whoever moves or restarts, a peer heard in the last
\* TTL periods is listed: expiry takes away only peers that fell silent.
THEOREM AnnouncedPeersListed == Spec => []AnnouncedPeerIsListed
<1>1. ListedInv => AnnouncedPeerIsListed
  BY DEF ListedInv
<1>2. QED
  BY ListedCorrect, <1>1, PTL

-----------------------------------------------------------------------------
(***************************************************************************)
(* Where addresses come from.  The addresses a node has had and the pairs  *)
(* it made address-less entries for only grow, so that what was known      *)
(* stays known.                                                            *)
(***************************************************************************)

\* The clauses of ProvenanceInv, for one entry and for one list.
EntryKnown(n, m, e) ==
  e # None => IF e.ip = NoAddr THEN <<n, m>> \in met
              ELSE e.ip \in KnownAddresses(m)

ListKnown(l) ==
  /\ l.via \in held[l.from]
  /\ \A m \in Node : l.peers[m] = NoAddr => <<l.from, m>> \in met
  /\ \A m \in Node : l.peers[m] \in Addr => l.peers[m] \in KnownAddresses(m)

LEMMA ProvenanceParts ==
  ProvenanceInv <=>
    /\ \A n, m \in Node : EntryKnown(n, m, table[n][m])
    /\ \A n \in Node : addr[n] \in held[n]
    /\ \A h \in hellos : h.ip \in held[h.from]
    /\ \A l \in lists : ListKnown(l)
BY DEF ProvenanceInv, AddressProvenance, MessageProvenance, EntryKnown, ListKnown

LEMMA HistoryGrows ==
  ASSUME TypeOK, [Next]_vars
  PROVE  /\ \A n \in Node : held[n] \subseteq held'[n]
         /\ met \subseteq met'
         /\ \A m \in Node : KnownAddresses(m) \subseteq KnownAddresses(m)'
<1>1. CASE UNCHANGED held /\ met \subseteq met'
  BY <1>1 DEF KnownAddresses
<1>2. ASSUME NEW n \in Node, NEW a \in Addr, TakeAddress(n, a), met' = met
      PROVE  /\ \A i \in Node : held[i] \subseteq held'[i]
             /\ met \subseteq met'
             /\ \A m \in Node : KnownAddresses(m) \subseteq KnownAddresses(m)'
  <2>1. \A i \in Node : held[i] \subseteq held'[i]
    BY <1>2 DEF TakeAddress, TypeOK
  <2>2. QED
    BY <1>2, <2>1 DEF KnownAddresses
<1>3. ASSUME NEW n \in Node, Start(n) \/ Move(n)
      PROVE  \E a \in Addr : TakeAddress(n, a) /\ met' = met
  BY <1>3 DEF Start, Move
<1>4. CASE \/ \E n, m \in Node : RegisterPeerKey(n, m)
           \/ \E n \in Node : \/ CleanStalePeers(n) \/ SendHello(n)
                              \/ RequestScan(n) \/ Stop(n)
           \/ \E h \in hellos : ReceiveHello(h) \/ LoseHello(h)
           \/ \E l \in lists : ReceiveList(l) \/ LoseList(l) \/ ListRefused(l)
           \/ Tick
           \/ UNCHANGED vars
  <2>1. UNCHANGED held /\ met \subseteq met'
    BY <1>4 DEF RegisterPeerKey, CleanStalePeers, SendHello, RequestScan, Stop,
                ReceiveHello, LoseHello, ReceiveList, LoseList, ListRefused,
                Tick, vars
  <2>2. QED
    BY <1>1, <2>1
<1>5. QED
  BY <1>2, <1>3, <1>4 DEF Next

\* What was known stays known.
LEMMA KnownStays ==
  ASSUME TypeOK, [Next]_vars
  PROVE  /\ \A n, m \in Node, e \in Entry \cup {None} :
              EntryKnown(n, m, e) => EntryKnown(n, m, e)'
         /\ \A l \in List : ListKnown(l) => ListKnown(l)'
<1>1. /\ \A n \in Node : held[n] \subseteq held'[n]
      /\ met \subseteq met'
      /\ \A m \in Node : KnownAddresses(m) \subseteq KnownAddresses(m)'
  BY HistoryGrows
<1>2. ASSUME NEW n \in Node, NEW m \in Node, NEW e \in Entry \cup {None},
             EntryKnown(n, m, e)
      PROVE  EntryKnown(n, m, e)'
  BY <1>1, <1>2 DEF EntryKnown
<1>3. ASSUME NEW l \in List, ListKnown(l) PROVE ListKnown(l)'
  <2>1. l.from \in Node
    BY DEF List
  <2>2. QED
    BY <1>1, <1>3, <2>1 DEF ListKnown
<1>4. QED
  BY <1>2, <1>3

\* An entry that upsertPeer makes from known addresses is known.
LEMMA UpsertPeerKnown ==
  ASSUME TypeOK, NEW n \in Node, NEW m \in Node,
         NEW known \in [Node -> Addr \cup {None}],
         known[m] # None => known[m] \in KnownAddresses(m),
         EntryKnown(n, m, table[n][m])
  PROVE  EntryKnown(n, m, UpsertPeer(n, known)[m])
<1>1. CASE m = n \/ known[m] = None
  BY <1>1 DEF UpsertPeer
<1>2. CASE ~(m = n \/ known[m] = None)
  <2>1. UpsertPeer(n, known)[m] = [ip |-> known[m], age |-> 0]
    BY <1>2 DEF UpsertPeer
  <2>2. known[m] # NoAddr
    BY <1>2, PeerTableAssumption
  <2>3. QED
    BY <1>2, <2>1, <2>2 DEF EntryKnown
<1>3. QED
  BY <1>1, <1>2

LEMMA ToldKnown ==
  ASSUME TypeOK, NEW l \in lists, ListKnown(l), NEW m \in Node, Told(l)[m] # None
  PROVE  Told(l)[m] \in KnownAddresses(m)
<1>1. l \in List
  BY DEF TypeOK
<1>2. CASE l.peers[m] = NoAddr
  <2>1. <<l.from, m>> \in met /\ l.from \in Node /\ l.via \in held[l.from]
    BY <1>1, <1>2 DEF ListKnown, List
  <2>2. Told(l)[m] = l.via
    BY <1>2 DEF Told
  <2>3. QED
    BY <2>1, <2>2 DEF KnownAddresses
<1>3. CASE l.peers[m] # NoAddr
  BY <1>1, <1>3 DEF Told, List, ListKnown
<1>4. QED
  BY <1>2, <1>3

\* The entries after a step, against what was known before it: those that
\* upsertPeer made, those registerPeerKey made, and older ones.
LEMMA EntriesNext ==
  ASSUME TypeOK, ProvenanceInv, [Next]_vars, NEW n \in Node, NEW m \in Node
  PROVE  EntryKnown(n, m, table[n][m])'
<1> USE PeerTableAssumption
<1>1. /\ EntryKnown(n, m, table[n][m])
      /\ \A l \in lists : ListKnown(l)
      /\ \A h \in hellos : h.ip \in held[h.from]
  BY ProvenanceParts
<1>2. table'[n][m] \in Entry \cup {None} /\ table[n][m] \in Entry \cup {None}
  BY NextType DEF TypeOK
<1>3. ASSUME EntryKnown(n, m, table'[n][m])
      PROVE  EntryKnown(n, m, table[n][m])'
  <2> DEFINE e == table'[n][m]
  <2>1. \A x \in Entry \cup {None} : EntryKnown(n, m, x) => EntryKnown(n, m, x)'
    BY KnownStays
  <2>2. QED
    BY <1>2, <1>3, <2>1 DEF EntryKnown
<1>4. CASE table'[n][m] = table[n][m]
  BY <1>1, <1>3, <1>4
<1>5. ASSUME NEW i \in Node, NEW j \in Node, RegisterPeerKey(i, j)
      PROVE  EntryKnown(n, m, table[n][m])'
  <2>1. CASE i = n /\ j = m
    <3>1. table'[n][m] = [ip |-> NoAddr, age |-> 0] /\ <<n, m>> \in met'
      BY <1>5, <2>1 DEF RegisterPeerKey, TypeOK
    <3>2. QED
      BY <3>1 DEF EntryKnown
  <2>2. CASE ~(i = n /\ j = m)
    BY <1>4, <1>5, <2>2 DEF RegisterPeerKey, TypeOK
  <2>3. QED
    BY <2>1, <2>2
<1>6. ASSUME NEW i \in Node, NEW known \in [Node -> Addr \cup {None}],
             known[m] # None => known[m] \in KnownAddresses(m),
             table' = [table EXCEPT ![i] = UpsertPeer(i, known)]
      PROVE  EntryKnown(n, m, table[n][m])'
  <2>1. CASE i = n
    <3>1. table'[n][m] = UpsertPeer(n, known)[m]
      BY <1>6, <2>1 DEF TypeOK
    <3>2. EntryKnown(n, m, UpsertPeer(n, known)[m])
      BY <1>1, <1>6, UpsertPeerKnown
    <3>3. QED
      BY <1>3, <3>1, <3>2
  <2>2. CASE i # n
    BY <1>4, <1>6, <2>2 DEF TypeOK
  <2>3. QED
    BY <2>1, <2>2
<1>7. ASSUME NEW h \in hellos, ReceiveHello(h)
      PROVE  EntryKnown(n, m, table[n][m])'
  <2> DEFINE known == [k \in Node |-> IF k = h.from THEN h.ip ELSE None]
  <2>1. h.to \in Node /\ h.from \in Node /\ h.ip \in Addr
    BY DEF TypeOK, Hello
  <2>2. known \in [Node -> Addr \cup {None}]
    BY <2>1
  <2>3. known[m] # None => known[m] \in KnownAddresses(m)
    BY <1>1, <2>1 DEF KnownAddresses
  <2>4. table' = [table EXCEPT ![h.to] = UpsertPeer(h.to, known)]
    BY <1>7 DEF ReceiveHello
  <2> HIDE DEF known
  <2>5. QED
    BY <1>6, <2>1, <2>2, <2>3, <2>4
<1>8. ASSUME NEW l \in lists, ReceiveList(l)
      PROVE  EntryKnown(n, m, table[n][m])'
  <2>1. PICK i \in At(l.to) :
          table' = [table EXCEPT ![i] = UpsertPeer(i, Told(l))]
    BY <1>8 DEF ReceiveList
  <2>2. i \in Node
    BY DEF At, TypeOK
  <2>3. QED
    BY <1>1, <1>6, <2>1, <2>2, ToldType, ToldKnown
<1>9. CASE table'[n][m] = None
  BY <1>9 DEF EntryKnown
<1>10. ASSUME NEW i \in Node, CleanStalePeers(i) \/ Stop(i)
       PROVE  table'[n][m] = table[n][m] \/ table'[n][m] = None
  <2>1. CASE CleanStalePeers(i)
    BY <2>1 DEF CleanStalePeers, TypeOK
  <2>2. CASE Stop(i)
    <3>1. table' = [table EXCEPT ![i] = [j \in Node |-> None]]
      BY <2>2 DEF Stop
    <3>2. QED
      BY <3>1 DEF TypeOK
  <2>3. QED
    BY <1>10, <2>1, <2>2
<1>11. CASE Tick
  <2>1. \/ table'[n][m] = table[n][m]
        \/ table[n][m] # None /\ table'[n][m] = [table[n][m] EXCEPT !.age = @ + 1]
    BY <1>11 DEF Tick
  <2>2. CASE /\ table[n][m] # None
             /\ table'[n][m] = [table[n][m] EXCEPT !.age = @ + 1]
    <3>1. table[n][m] \in Entry
      BY <1>2, <2>2
    <3>2. table'[n][m].ip = table[n][m].ip
      BY <2>2, <3>1 DEF Entry
    <3>3. QED
      BY <1>1, <1>3, <2>2, <3>2 DEF EntryKnown
  <2>3. QED
    BY <1>4, <2>1, <2>2
<1>12. ASSUME \/ \E i \in Node : \/ SendHello(i) \/ RequestScan(i)
                                 \/ Start(i) \/ Move(i)
              \/ \E h \in hellos : LoseHello(h)
              \/ \E l \in lists : LoseList(l) \/ ListRefused(l)
              \/ UNCHANGED vars
       PROVE  table' = table
  BY <1>12 DEF SendHello, RequestScan, Start, Move, LoseHello, LoseList,
               ListRefused, vars
<1>13. QED
  BY <1>4, <1>5, <1>7, <1>8, <1>9, <1>10, <1>11, <1>12 DEF Next

\* The addresses of nodes, and the datagrams and lists in flight.
LEMMA MessagesNext ==
  ASSUME TypeOK, ProvenanceInv, [Next]_vars
  PROVE  /\ \A n \in Node : addr'[n] \in held'[n]
         /\ \A h \in hellos' : h.ip \in held'[h.from]
         /\ \A l \in lists' : ListKnown(l)'
<1> USE PeerTableAssumption
<1>1. /\ \A n \in Node : addr[n] \in held[n]
      /\ \A h \in hellos : h.ip \in held[h.from]
      /\ \A l \in lists : ListKnown(l)
      /\ \A n, m \in Node : EntryKnown(n, m, table[n][m])
  BY ProvenanceParts
<1>2. \A n \in Node : held[n] \subseteq held'[n]
  BY HistoryGrows
<1>3. \A l \in lists : ListKnown(l)'
  BY <1>1, KnownStays DEF TypeOK
<1>4. \A n \in Node : addr'[n] \in held'[n]
  <2>1. CASE UNCHANGED addr
    BY <1>1, <1>2, <2>1
  <2>2. ASSUME NEW n \in Node, NEW a \in Addr, TakeAddress(n, a)
        PROVE  \A i \in Node : addr'[i] \in held'[i]
    BY <1>1, <2>2 DEF TakeAddress, TypeOK
  <2>3. ASSUME NEW n \in Node, Start(n) \/ Move(n)
        PROVE  \E a \in Addr : TakeAddress(n, a)
    BY <2>3 DEF Start, Move
  <2>4. CASE ~(\E n \in Node : Start(n) \/ Move(n))
    <3>1. UNCHANGED addr
      BY <2>4 DEF Next, RegisterPeerKey, CleanStalePeers, SendHello,
                  RequestScan, Stop, ReceiveHello, LoseHello, ReceiveList,
                  LoseList, ListRefused, Tick, vars
    <3>2. QED
      BY <2>1, <3>1
  <2>5. QED
    BY <2>2, <2>3, <2>4
<1>5. \A h \in hellos' : h.ip \in held'[h.from]
  <2>1. \A h \in hellos : h.ip \in held'[h.from]
    BY <1>1, <1>2 DEF TypeOK, Hello
  <2>2. ASSUME NEW n \in Node, Announce(n)
        PROVE  \A h \in hellos' : h.ip \in held'[h.from]
    BY <1>1, <1>2, <2>1, <2>2 DEF Announce
  <2>3. ASSUME NEW n \in Node, SendHello(n) \/ RequestScan(n)
        PROVE  Announce(n)
    BY <2>3 DEF SendHello, RequestScan
  <2>4. CASE ~(\E n \in Node : SendHello(n) \/ RequestScan(n))
    <3>1. hellos' \subseteq hellos
      BY <2>4 DEF Next, RegisterPeerKey, CleanStalePeers, Stop, Start, Move,
                  ReceiveHello, LoseHello, ReceiveList, LoseList,
                  ListRefused, Tick, vars
    <3>2. QED
      BY <2>1, <3>1
  <2>5. QED
    BY <2>2, <2>3, <2>4
<1>6. \A l \in lists' : ListKnown(l)'
  <2>1. CASE lists' \subseteq lists
    BY <1>3, <2>1
  <2>2. ASSUME NEW h \in hellos, ReceiveHello(h), NEW l \in lists'
        PROVE  ListKnown(l)'
    <3> DEFINE n == h.to
    <3>1. h \in Hello /\ n \in Node
      BY DEF TypeOK, Hello
    <3>2. table'[n] = UpsertPeer(n, [m \in Node |-> IF m = h.from THEN h.ip
                                                      ELSE None])
      BY <2>2, <3>1 DEF ReceiveHello, TypeOK
    <3>3. l \in lists \/ l = [to |-> h.ip, from |-> n, via |-> addr[n],
                              peers |-> CurrentPeerList(n, table'[n])]
      BY <2>2, <3>2 DEF ReceiveHello
    <3>4. CASE l \in lists
      BY <1>3, <3>4
    <3>5. CASE /\ l.from = n /\ l.via = addr[n]
               /\ l.peers = CurrentPeerList(n, table'[n])
      <4>1. l.via \in held'[l.from]
        BY <1>1, <1>2, <3>1, <3>5
      <4>2. ASSUME NEW m \in Node
            PROVE  /\ l.peers[m] = NoAddr => <<n, m>> \in met'
                   /\ l.peers[m] \in Addr => l.peers[m] \in KnownAddresses(m)'
        <5>1. EntryKnown(n, m, table[n][m])'
          BY <3>1, EntriesNext
        <5>2. \/ l.peers[m] = None
              \/ table'[n][m] # None /\ l.peers[m] = table'[n][m].ip
          BY <3>1, <3>5 DEF CurrentPeerList, Ips
        <5>3. QED
          BY <5>1, <5>2 DEF EntryKnown
      <4>3. QED
        BY <3>5, <4>1, <4>2 DEF ListKnown
    <3>6. QED
      BY <3>3, <3>4, <3>5
  <2>3. CASE ~(\E h \in hellos : ReceiveHello(h))
    <3>1. lists' \subseteq lists
      BY <2>3 DEF Next, RegisterPeerKey, CleanStalePeers, SendHello,
                  RequestScan, Stop, Start, Move, LoseHello, ReceiveList,
                  LoseList, ListRefused, Tick, vars
    <3>2. QED
      BY <2>1, <3>1
  <2>4. QED
    BY <2>2, <2>3
<1>7. QED
  BY <1>4, <1>5, <1>6

LEMMA ProvenanceInit == Init => ProvenanceInv
BY DEF Init, ProvenanceInv, AddressProvenance, MessageProvenance

LEMMA ProvenanceNext == TypeOK /\ ProvenanceInv /\ [Next]_vars => ProvenanceInv'
<1> SUFFICES ASSUME TypeOK, ProvenanceInv, [Next]_vars PROVE ProvenanceInv'
  OBVIOUS
<1>1. \A n, m \in Node : EntryKnown(n, m, table[n][m])'
  BY EntriesNext
<1>2. QED
  BY <1>1, MessagesNext
     DEF ProvenanceInv, AddressProvenance, MessageProvenance, EntryKnown,
         ListKnown

\* The invariant of provenance, for tables and for messages on their way.
THEOREM ProvenanceCorrect == Spec => []ProvenanceInv
<1>1. QED
  BY TypeCorrect, ProvenanceInit, ProvenanceNext, PTL DEF Spec

\* However often lists are copied from node to node, an address recorded for
\* a peer was once its own, or that of a node that had none for it.
THEOREM AddressesHaveProvenance == Spec => []AddressProvenance
<1>1. ProvenanceInv => AddressProvenance
  BY DEF ProvenanceInv
<1>2. QED
  BY ProvenanceCorrect, <1>1, PTL

-----------------------------------------------------------------------------
(***************************************************************************)
(* The table implements PeerEntries.                                       *)
(***************************************************************************)

\* The address an entry stands for.
LEMMA AddressOf ==
  ASSUME NEW n \in Node, NEW m \in Node
  PROVE  /\ Addresses[n][m] = IF table[n][m] = None THEN None
                                                    ELSE table[n][m].ip
         /\ Addresses'[n][m] = IF table'[n][m] = None THEN None
                                                      ELSE table'[n][m].ip
BY DEF Addresses, Ips

LEMMA AddressesType == TypeOK => Addresses \in Table!Entries
BY CurrentPeerListType DEF TypeOK, Addresses, Table!Entries

\* The other nodes' addresses are as before where their tables are.
LEMMA OthersKept ==
  ASSUME TypeOK, NEW n \in Node, NEW t, table' = [table EXCEPT ![n] = t]
  PROVE  Table!Others(n)
BY DEF TypeOK, Addresses, Table!Others

\* upsertPeer of known addresses is a Learn of PeerEntries.
LEMMA UpsertPeerLearns ==
  ASSUME TypeOK, TypeOK', NEW n \in Node,
         NEW known \in [Node -> Addr \cup {None}],
         table' = [table EXCEPT ![n] = UpsertPeer(n, known)]
  PROVE  Table!Learn(n)
<1>1. ASSUME NEW m \in Node
      PROVE  Addresses'[n][m] = Addresses[n][m] \/ Addresses'[n][m] \in Addr
  <2>1. table'[n][m] = UpsertPeer(n, known)[m]
    BY DEF TypeOK
  <2>2. CASE m = n \/ known[m] = None
    BY <2>1, <2>2, AddressOf DEF UpsertPeer
  <2>3. CASE ~(m = n \/ known[m] = None)
    <3>1. table'[n][m] = [ip |-> known[m], age |-> 0] /\ known[m] \in Addr
      BY <2>1, <2>3 DEF UpsertPeer
    <3>2. table'[n][m] # None
      <4>1. [ip |-> known[m], age |-> 0] \in Entry
        BY <3>1, PeerTableAssumption DEF Entry
      <4>2. QED
        BY <3>1, <4>1, NoneIsNoEntry
    <3>3. QED
      BY <3>1, <3>2, AddressOf
  <2>4. QED
    BY <2>2, <2>3
<1>2. Addresses' \in Table!Entries
  BY CurrentPeerListType DEF TypeOK, Addresses, Table!Entries
<1>3. QED
  BY <1>1, <1>2, OthersKept DEF Table!Learn

\* cleanStalePeers, and the end of a process, are a Forget.
LEMMA RemovalForgets ==
  ASSUME TypeOK, TypeOK', NEW n \in Node, NEW t,
         table' = [table EXCEPT ![n] = t],
         \A m \in Node : table'[n][m] \in {table[n][m], None}
  PROVE  Table!Forget(n)
<1>1. \A m \in Node : Addresses'[n][m] \in {Addresses[n][m], None}
  BY AddressOf
<1>2. Addresses' \in Table!Entries
  BY CurrentPeerListType DEF TypeOK, Addresses, Table!Entries
<1>3. QED
  BY <1>1, <1>2, OthersKept DEF Table!Forget

\* Every step of discovery is one of PeerEntries, or changes no address.
LEMMA TableStep ==
  ASSUME TypeOK, [Next]_vars
  PROVE  [Table!Next]_Addresses
<1> USE PeerTableAssumption
<1>0. TypeOK'
  BY NextType
<1>1. ASSUME UNCHANGED table PROVE UNCHANGED Addresses
  BY <1>1 DEF Addresses
<1>2. ASSUME NEW n \in Node, NEW m \in Node, RegisterPeerKey(n, m)
      PROVE  Table!Next
  <2> DEFINE e == [ip |-> NoAddr, age |-> 0]
  <2>1. table[n][m] = None /\ table' = [table EXCEPT ![n][m] = e]
    BY <1>2 DEF RegisterPeerKey
  <2>2. e # None
    BY NoneIsNoEntry DEF Entry
  <2>3. Addresses[n][m] = None /\ Addresses'[n][m] = NoAddr
    BY <2>1, <2>2, AddressOf DEF TypeOK
  <2>4. \A i, j \in Node : ~(i = n /\ j = m) => table'[i][j] = table[i][j]
    BY <2>1 DEF TypeOK
  <2>5. \A i, j \in Node : ~(i = n /\ j = m) =>
          Addresses'[i][j] = Addresses[i][j]
    BY <2>4, AddressOf
  <2>6. /\ Addresses \in [Node -> [Node -> Addr \cup {NoAddr, None}]]
        /\ Addresses' \in [Node -> [Node -> Addr \cup {NoAddr, None}]]
    BY <1>0, CurrentPeerListType DEF TypeOK, Addresses
  <2>7. Addresses' = [Addresses EXCEPT ![n][m] = NoAddr]
    <3> HIDE DEF Addresses
    <3>1. \A i \in Node : Addresses'[i] = [Addresses EXCEPT ![n][m] = NoAddr][i]
      BY <2>3, <2>5, <2>6
    <3>2. QED
      BY <2>6, <3>1
  <2>8. QED
    BY <2>3, <2>7 DEF Table!Register, Table!Next
<1>3. ASSUME NEW n \in Node, CleanStalePeers(n) PROVE Table!Next
  <2>1. table' = [table EXCEPT ![n] =
                    [m \in Node |-> IF m \in Stale(n) THEN None
                                                      ELSE table[n][m]]]
    BY <1>3 DEF CleanStalePeers, TypeOK
  <2>2. \A m \in Node : table'[n][m] \in {table[n][m], None}
    BY <2>1 DEF TypeOK
  <2>3. QED
    BY <1>0, <2>1, <2>2, RemovalForgets DEF Table!Next
<1>4. ASSUME NEW h \in hellos, ReceiveHello(h) PROVE Table!Next
  <2> DEFINE known == [m \in Node |-> IF m = h.from THEN h.ip ELSE None]
  <2>1. h.to \in Node /\ known \in [Node -> Addr \cup {None}]
    BY DEF TypeOK, Hello
  <2>2. table' = [table EXCEPT ![h.to] = UpsertPeer(h.to, known)]
    BY <1>4 DEF ReceiveHello
  <2>3. Table!Learn(h.to)
    BY <1>0, <2>1, <2>2, UpsertPeerLearns
  <2>4. QED
    BY <2>1, <2>3 DEF Table!Next
<1>5. ASSUME NEW l \in lists, ReceiveList(l) PROVE Table!Next
  <2>1. PICK n \in At(l.to) :
          table' = [table EXCEPT ![n] = UpsertPeer(n, Told(l))]
    BY <1>5 DEF ReceiveList
  <2>2. n \in Node
    BY DEF At, TypeOK
  <2>3. Table!Learn(n)
    BY <1>0, <2>1, <2>2, ToldType, UpsertPeerLearns
  <2>4. QED
    BY <2>2, <2>3 DEF Table!Next
<1>6. ASSUME NEW n \in Node, Stop(n) PROVE Table!Next
  <2>1. table' = [table EXCEPT ![n] = [m \in Node |-> None]]
    BY <1>6 DEF Stop
  <2>2. \A m \in Node : table'[n][m] \in {table[n][m], None}
    BY <2>1 DEF TypeOK
  <2>3. QED
    BY <1>0, <2>1, <2>2, RemovalForgets DEF Table!Next
<1>7. CASE Tick
  <2>1. ASSUME NEW n \in Node, NEW m \in Node
        PROVE  Addresses'[n][m] = Addresses[n][m]
    <3>1. table[n][m] \in Entry \cup {None} /\ table'[n][m] \in Entry \cup {None}
      BY <1>0 DEF TypeOK
    <3>2. CASE table'[n][m] = table[n][m]
      BY <3>2, AddressOf
    <3>3. CASE /\ table[n][m] # None /\ ~(table[n][m].age > TTL)
               /\ table'[n][m] = [table[n][m] EXCEPT !.age = @ + 1]
      <4>1. table'[n][m].ip = table[n][m].ip
        BY <3>1, <3>3 DEF Entry
      <4>2. [table[n][m] EXCEPT !.age = @ + 1] \in Entry
        BY <3>1, <3>3 DEF Entry
      <4>3. QED
        BY <3>3, <4>1, <4>2, AddressOf, NoneIsNoEntry
    <3>4. QED
      BY <1>7, <3>2, <3>3 DEF Tick
  <2>2. QED
    BY <2>1 DEF Addresses, Ips
<1>8. CASE UNCHANGED vars
  BY <1>1, <1>8 DEF vars
<1>9. CASE Next
  BY <1>1, <1>2, <1>3, <1>4, <1>5, <1>6, <1>7, <1>9
     DEF Next, SendHello, RequestScan, LoseHello, LoseList, ListRefused,
         Start, Move
<1>10. QED
  BY <1>8, <1>9

\* Whatever is announced, listed, lost, scanned or moved, a node replaces an
\* address by an address, forgets it only with the entry, and enters a peer
\* without one only where it had no entry: what sessions and dashboard assume.
THEOREM TableImplementsPeerEntries == Spec => ImplementsPeerEntries
<1>1. Init => Table!Init
  BY DEF Init, Addresses, Ips, Table!Init
<1>2. TypeOK /\ [Next]_vars => [Table!Next]_Addresses
  BY TableStep
<1>3. QED
  BY <1>1, <1>2, TypeCorrect, PTL DEF Spec, ImplementsPeerEntries, Table!Spec
=============================================================================
