------------------------------ MODULE PeerTable ------------------------------
(***************************************************************************)
(* Discovery in Archipel's Node.js node (index.js): the table of peers,    *)
(* filled by HELLO datagrams (UDP multicast) and by the peer lists a node  *)
(* returns over TCP for each HELLO, and emptied by age.                     *)
(*                                                                         *)
(* Time is counted in announcement periods of 30 s.  In a period every     *)
(* running node announces itself once, what was sent arrives or is lost    *)
(* (datagrams cross a local network, sendPeerList gives up after 3 s), and *)
(* the 10 s expiry timer runs; then Tick makes every entry a period older. *)
(* last_seen is kept as the age of the entry, 90 s as TTL = 3 periods.     *)
(***************************************************************************)
EXTENDS Naturals, FiniteSets

CONSTANTS
  Node,       \* node ids
  Addr,       \* addresses of the local network, at most one node on each
  Home,       \* Home[n]: the address node n has at first
  TTL,        \* PEER_TTL_MS, in announcement periods
  Roaming,    \* bound: the nodes whose process or address may change
  MaxUpsets,  \* bound: messages lost, moves, processes that end, clicks on
              \* "Scanner le reseau" and nodes met by handshake, all together
  None,       \* the Map has no entry
  NoAddr      \* an entry without address (ip: null)

ASSUME PeerTableAssumption ==
  /\ Home \in [Node -> Addr]
  /\ \A n, m \in Node : n # m => Home[n] # Home[m]
  /\ TTL \in Nat \ {0}
  /\ Roaming \subseteq Node
  /\ None # NoAddr /\ None \notin Addr /\ NoAddr \notin Addr
  /\ MaxUpsets \in Nat

VARIABLES
  up,       \* the running nodes
  addr,     \* the address of each node
  table,    \* each node's Map peers
  due,      \* nodes whose HELLO timer has yet to fire in this period
  hellos,   \* HELLO datagrams in flight, one for each listening node
  lists,    \* peer lists in flight
  silent,   \* history: periods since n last heard a HELLO of m, up to TTL + 1
  held,     \* history: the addresses a node has had
  met,      \* history: <<n, m>> when n made an entry for m without address
  upsets    \* how many of these there were

netVars   == <<due, hellos, lists>>
placeVars == <<up, addr, held>>
vars      == <<placeVars, table, netVars, silent, met, upsets>>

Entry == [ip : Addr \cup {NoAddr}, age : 0 .. TTL + 1]
Hello == [to : Node, from : Node, ip : Addr]
List  == [to : Addr, from : Node, via : Addr,
          peers : [Node -> Addr \cup {NoAddr, None}]]

ASSUME NoneIsNoEntry == None \notin Entry

\* A node never has an address for itself, although every list it is sent
\* contains it: the entry a handshake with itself makes has none, so that the
\* node never dials itself of its own accord.
TypeOK ==
  /\ up \in SUBSET Node
  /\ addr \in [Node -> Addr]
  /\ table \in [Node -> [Node -> Entry \cup {None}]]
  /\ \A n \in Node : table[n][n] # None => table[n][n].ip = NoAddr
  /\ due \in SUBSET up
  /\ hellos \in SUBSET Hello
  /\ lists \in SUBSET List
  /\ silent \in [Node -> [Node -> 0 .. TTL + 1]]
  /\ held \in [Node -> SUBSET Addr]
  /\ met \in SUBSET (Node \X Node)
  /\ upsets \in Nat

Init ==
  /\ up = Node
  /\ addr = Home
  /\ table = [n \in Node |-> [m \in Node |-> None]]
  /\ due = Node /\ hellos = {} /\ lists = {}
  /\ silent = [n \in Node |-> [m \in Node |-> TTL + 1]]
  /\ held = [n \in Node |-> {Home[n]}]
  /\ met = {}
  /\ upsets = 0

\* The running nodes an address leads to: one at most.
At(a) == {n \in up : addr[n] = a}

\* One of what MaxUpsets limits.
Upset == upsets < MaxUpsets /\ upsets' = upsets + 1

-----------------------------------------------------------------------------
(***************************************************************************)
(* The table.                                                              *)
(***************************************************************************)

\* Mutant of UpsertPeer: the test of selfNodeId is missing.
UpsertSelfToo(n, known) ==
  [m \in Node |-> IF known[m] = None THEN table[n][m]
                  ELSE [ip |-> known[m], age |-> 0]]

\* Mutant of UpsertPeer: the address known before wins (prev.ip || ip).
UpsertPeerKeepAddr(n, known) ==
  [m \in Node |->
     IF m = n \/ known[m] = None THEN table[n][m]
     ELSE IF table[n][m] # None /\ table[n][m].ip # NoAddr
       THEN [table[n][m] EXCEPT !.age = 0]
     ELSE [ip |-> known[m], age |-> 0]]

\* n's table after upsertPeer for every m with known[m] # None: the address is
\* replaced and the entry is new again, whoever told it.  Both callers supply
\* an address, so that prev.ip is never used.
UpsertPeer(n, known) ==
  [m \in Node |-> IF m = n \/ known[m] = None THEN table[n][m]
                  ELSE [ip |-> known[m], age |-> 0]]

\* What entries say of the address: null addresses included.
Ips(t) == [m \in Node |-> IF t[m] = None THEN None ELSE t[m].ip]

\* currentPeerList of n with table t: all entries but that of n itself.
CurrentPeerList(n, t) == [Ips(t) EXCEPT ![n] = None]

\* Mutant of RegisterPeerKey: the entry is made anew, without the address.
RegisterPeerKeyAnew(n, m) ==
  /\ {n, m} \subseteq up
  /\ \/ \E p \in Node : table[m][p] # None /\ table[m][p].ip = addr[n]
     \/ \E p \in Node : table[n][p] # None /\ table[n][p].ip = addr[m]
  /\ table' = [table EXCEPT ![n][m] = [ip |-> NoAddr, age |-> 0]]
  /\ met' = met \cup {<<n, m>>}
  /\ IF n = m THEN UNCHANGED upsets ELSE Upset
  /\ UNCHANGED <<placeVars, netVars, silent>>

\* registerPeerKey: a handshake frame between n and m, of either direction,
\* reaches n, which has no entry for m.  One of them has dialled the other; a
\* node that has its own address for somebody else dials itself (the bound
\* does not count that).
RegisterPeerKey(n, m) ==
  /\ {n, m} \subseteq up
  /\ table[n][m] = None
  /\ \/ \E p \in Node : table[m][p] # None /\ table[m][p].ip = addr[n]
     \/ \E p \in Node : table[n][p] # None /\ table[n][p].ip = addr[m]
  /\ table' = [table EXCEPT ![n][m] = [ip |-> NoAddr, age |-> 0]]
  /\ met' = met \cup {<<n, m>>}
  /\ IF n = m THEN UNCHANGED upsets ELSE Upset
  /\ UNCHANGED <<placeVars, netVars, silent>>

\* Mutant of Stale: expired at the limit instead of beyond it.
StaleAtLimit(n) == {m \in Node : table[n][m] # None /\ table[n][m].age >= TTL}

\* The peers cleanStalePeers removes: not heard of for more than 90 s.
Stale(n) == {m \in Node : table[n][m] # None /\ table[n][m].age > TTL}

CleanStalePeers(n) ==
  /\ n \in up
  /\ Stale(n) # {}
  /\ table' = [table EXCEPT ![n] =
                 [m \in Node |-> IF m \in Stale(n) THEN None ELSE @[m]]]
  /\ UNCHANGED <<placeVars, netVars, silent, met, upsets>>

-----------------------------------------------------------------------------
(***************************************************************************)
(* Announcements and lists.                                                *)
(***************************************************************************)

\* The multicast of buildDiscoveryPacket(HELLO): a copy for each listener.
Announce(n) ==
  hellos' = hellos \cup
              {[to |-> m, from |-> n, ip |-> addr[n]] : m \in up \ {n}}

\* setInterval(sendHello, 30_000), and 300 ms after the start.
SendHello(n) ==
  /\ n \in due
  /\ due' = due \ {n}
  /\ Announce(n)
  /\ UNCHANGED <<placeVars, table, lists, silent, met, upsets>>

\* request_scan: the dashboard asks for a HELLO now.
RequestScan(n) ==
  /\ n \in up
  /\ Upset
  /\ Announce(n)
  /\ UNCHANGED <<placeVars, table, due, lists, silent, met>>

\* A HELLO: the sender is recorded at the datagram's source address, and is
\* sent the list there, the sender's own entry included.
ReceiveHello(h) ==
  /\ h \in hellos
  /\ hellos' = hellos \ {h}
  /\ LET n == h.to
         t == UpsertPeer(n, [m \in Node |-> IF m = h.from THEN h.ip ELSE None])
     IN /\ table' = [table EXCEPT ![n] = t]
        /\ lists' = lists \cup {[to |-> h.ip, from |-> n, via |-> addr[n],
                                 peers |-> CurrentPeerList(n, t)]}
  /\ silent' = [silent EXCEPT ![h.to][h.from] = 0]
  /\ UNCHANGED <<placeVars, due, met, upsets>>

\* Mutant of Told: the connection's address instead of the entry's.
ToldByConnection(l) ==
  [m \in Node |-> IF l.peers[m] = None THEN None ELSE l.via]

\* The addresses onPeerList reads in a list: an entry that has none is given
\* the address the list came from.
Told(l) == [m \in Node |-> IF l.peers[m] = NoAddr THEN l.via ELSE l.peers[m]]

\* onPeerList, at whichever node has the address the list was sent to.
ReceiveList(l) ==
  /\ l \in lists
  /\ lists' = lists \ {l}
  /\ \E n \in At(l.to) :
       table' = [table EXCEPT ![n] = UpsertPeer(n, Told(l))]
  /\ UNCHANGED <<placeVars, due, hellos, silent, met, upsets>>

LoseHello(h) ==
  /\ h \in hellos
  /\ Upset
  /\ hellos' = hellos \ {h}
  /\ UNCHANGED <<placeVars, table, due, lists, silent, met>>

\* sendPeerList ignores errors and times out: the list is not sent again.
LoseList(l) ==
  /\ l \in lists
  /\ At(l.to) # {}
  /\ Upset
  /\ lists' = lists \ {l}
  /\ UNCHANGED <<placeVars, table, due, hellos, silent, met>>

\* Nobody listens at the address any more.
ListRefused(l) ==
  /\ l \in lists
  /\ At(l.to) = {}
  /\ lists' = lists \ {l}
  /\ UNCHANGED <<placeVars, table, due, hellos, silent, met, upsets>>

-----------------------------------------------------------------------------
(***************************************************************************)
(* Processes, addresses and time.                                          *)
(***************************************************************************)

\* The process ends: its table is lost (peers.json is never read).
Stop(n) ==
  /\ n \in up \cap Roaming
  /\ Upset
  /\ up' = up \ {n}
  /\ due' = due \ {n}
  /\ hellos' = {h \in hellos : h.to # n}
  /\ table' = [table EXCEPT ![n] = [m \in Node |-> None]]
  /\ silent' = [silent EXCEPT ![n] = [m \in Node |-> TTL + 1]]
  /\ UNCHANGED <<addr, held, lists, met>>

\* n is given an address nobody has.
TakeAddress(n, a) ==
  /\ At(a) \subseteq {n}
  /\ addr' = [addr EXCEPT ![n] = a]
  /\ held' = [held EXCEPT ![n] = @ \cup {a}]

\* The process starts, under the same id, and announces itself 300 ms later.
Start(n) ==
  /\ n \notin up
  /\ \E a \in Addr : TakeAddress(n, a)
  /\ up' = up \cup {n}
  /\ due' = due \cup {n}
  /\ UNCHANGED <<table, hellos, lists, silent, met, upsets>>

\* The machine of a running node is given another address.
Move(n) ==
  /\ n \in up \cap Roaming
  /\ Upset
  /\ \E a \in Addr \ {addr[n]} : TakeAddress(n, a)
  /\ UNCHANGED <<up, table, netVars, silent, met>>

\* A period ends: its timers have fired and its messages are gone.
Tick ==
  /\ due = {} /\ hellos = {} /\ lists = {}
  /\ \A n \in up : Stale(n) = {}
  /\ due' = up
  /\ table' = [n \in Node |-> [m \in Node |->
                 IF table[n][m] = None \/ table[n][m].age > TTL
                 THEN table[n][m]
                 ELSE [table[n][m] EXCEPT !.age = @ + 1]]]
  /\ silent' = [n \in Node |-> [m \in Node |->
                  IF silent[n][m] > TTL THEN silent[n][m]
                  ELSE silent[n][m] + 1]]
  /\ UNCHANGED <<placeVars, hellos, lists, met, upsets>>

-----------------------------------------------------------------------------
Next ==
  \/ \E n, m \in Node : RegisterPeerKey(n, m)
  \/ \E n \in Node : CleanStalePeers(n)
  \/ \E n \in Node : SendHello(n)
  \/ \E n \in Node : RequestScan(n)
  \/ \E h \in hellos : ReceiveHello(h)
  \/ \E l \in lists : ReceiveList(l)
  \/ \E h \in hellos : LoseHello(h)
  \/ \E l \in lists : LoseList(l)
  \/ \E l \in lists : ListRefused(l)
  \/ \E n \in Node : Stop(n)
  \/ \E n \in Node : Start(n)
  \/ \E n \in Node : Move(n)
  \/ Tick

Spec == Init /\ [][Next]_vars

-----------------------------------------------------------------------------
(***************************************************************************)
(* Safety.                                                                 *)
(***************************************************************************)

\* A peer whose HELLO a node heard in the last 90 s is in the node's table,
\* and no entry is older than the last HELLO: neither cleanStalePeers, nor a
\* list that says less, nor a handshake takes a peer away that announces
\* itself.
AnnouncedPeerIsListed ==
  \A n \in up, m \in Node : n # m /\ silent[n][m] <= TTL =>
    table[n][m] # None /\ table[n][m].age <= silent[n][m]

\* A node that is down hears nothing, and its memory of it is gone: what
\* AnnouncedPeerIsListed needs when the node starts again.
DownHearsNothing ==
  /\ \A n \in Node \ up, m \in Node : silent[n][m] = TTL + 1
  /\ \A h \in hellos : h.to \in up

ListedInv == AnnouncedPeerIsListed /\ DownHearsNothing

\* The addresses that may be recorded for m: those m has had, and those of a
\* node that listed m without an address.
KnownAddresses(m) ==
  held[m] \cup UNION {held[k] : k \in {k \in Node : <<k, m>> \in met}}

\* However lists pass from node to node, an address recorded for m is one of
\* these: onPeerList substitutes the connection's address for a missing one
\* and for no other.
AddressProvenance ==
  \A n, m \in Node : table[n][m] # None /\ table[n][m].ip # NoAddr =>
    table[n][m].ip \in KnownAddresses(m)

\* The same for what is in flight, which makes AddressProvenance inductive.
MessageProvenance ==
  /\ \A n \in Node : addr[n] \in held[n]
  /\ \A h \in hellos : h.ip \in held[h.from]
  /\ \A l \in lists :
       /\ l.via \in held[l.from]
       /\ \A m \in Node : l.peers[m] = NoAddr => <<l.from, m>> \in met
       /\ \A m \in Node : l.peers[m] \in Addr => l.peers[m] \in KnownAddresses(m)
  /\ \A n, m \in Node : table[n][m] # None /\ table[n][m].ip = NoAddr =>
       <<n, m>> \in met

ProvenanceInv == AddressProvenance /\ MessageProvenance

-----------------------------------------------------------------------------
(***************************************************************************)
(* The addresses of each table, as the sessions and the dashboard of the   *)
(* node see them, implement PeerEntries.                                   *)
(***************************************************************************)

Addresses == [n \in Node |-> Ips(table[n])]

Table == INSTANCE PeerEntries
         WITH Owner <- Node, Peer <- Node, entry <- Addresses

\* Whatever list arrives and whoever dials, a node does not forget an address
\* it has and keep the entry (onPeerList substitutes the connection's address,
\* registerPeerKey leaves what it finds).
ImplementsPeerEntries == Table!Spec

-----------------------------------------------------------------------------
(***************************************************************************)
(* Liveness.  The timers fire, and what is sent arrives or is lost: periods*)
(* follow each other.  Each has finitely many of these steps.              *)
(***************************************************************************)

PeriodStep ==
  \/ \E n \in Node : SendHello(n)
  \/ \E n \in Node : CleanStalePeers(n)
  \/ \E h \in hellos : ReceiveHello(h)
  \/ \E l \in lists : ReceiveList(l)
  \/ \E l \in lists : ListRefused(l)
  \/ Tick

FairSpec == Spec /\ WF_vars(PeriodStep)

\* Once nothing is lost and nobody moves any more, every running node has
\* every other one in its table, and whatever address a stale or address-less
\* entry of a list gives the other one, the table has the right address again
\* later: its own HELLO overrides what lists said.  It need not keep it (two
\* nodes can copy a wrong address from each other for ever).
AddressesRecover ==
  /\ <>[](\A n, m \in up : n # m => table[n][m] # None)
  /\ \A n \in Node : \A m \in Node \ {n} :
       []<>({n, m} \subseteq up =>
              table[n][m] # None /\ table[n][m].ip = addr[m])

\* A peer that has stopped for good leaves every table.
DeadPeerForgotten ==
  \A n, m \in Node : <>[](m \notin up) => <>[](table[n][m] = None)

=============================================================================
