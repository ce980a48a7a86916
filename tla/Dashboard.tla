----------------------------- MODULE Dashboard -----------------------------
(***************************************************************************)
(* The dashboard's copy of the peer table (src/ui/script.js) against the   *)
(* table of the node that serves it (index.js).  The node tells the        *)
(* browser of every peer it hears and of every peer that expires, over a   *)
(* Socket.IO connection that keeps the order of events and loses them when *)
(* it breaks.  The browser also forgets peers by a clock of its own.       *)
(*                                                                         *)
(* Time is counted in units that divide both periods (5 s for the values   *)
(* of the code).  Each of the two timers runs when its period is over, or  *)
(* later: setInterval promises no more.                                    *)
(***************************************************************************)
EXTENDS Naturals, Sequences, FiniteSets

CONSTANTS
  Peer,         \* ids of other nodes
  Addr,         \* addresses they announce
  NoAddr,       \* ip: null
  None,         \* "no entry"
  NodeTTL,      \* PEER_TTL_MS (90 s)
  NodePeriod,   \* the interval of cleanStalePeers (10 s)
  UiTTL,        \* the age at which the browser drops a peer (100 s)
  UiPeriod,     \* the interval of the browser's sweep (15 s)
  MaxLate,      \* bound: how late a timer is
  MaxEvents     \* bound: events in flight

Value == Addr \cup {NoAddr, None}

\* With a punctual timer an entry lives NodeTTL and up to one period more in
\* the node's table, and no less in the browser's: 90 s + 10 s <= 100 s.
ASSUME DashboardAssumption ==
  /\ NodeTTL \in Nat /\ NodePeriod \in Nat \ {0}
  /\ UiTTL \in Nat /\ UiPeriod \in Nat \ {0}
  /\ NodeTTL + NodePeriod <= UiTTL
  /\ MaxLate \in Nat /\ MaxEvents \in Nat
  /\ IsFiniteSet(Peer)
  /\ NoAddr \notin Addr /\ None \notin Addr /\ None # NoAddr

VARIABLES
  table,      \* the node's peers: the address of an entry, or None
  age,        \* time since last_seen of an entry
  sinceClean, \* time since the node's last cleanStalePeers
  linked,     \* the browser has a working connection to the node
  channel,    \* events on their way to the browser
  shown,      \* the browser's peers: the address on the card, or None
  seen,       \* time since lastSeen of a card
  sinceSweep, \* time since the browser's last sweep
  followed    \* history: the peers of which the last news was sent on this
              \* connection, and whose card the user has not cleared since

nodeVars == <<table, age, sinceClean>>
viewVars == <<shown, seen, sinceSweep>>
vars     == <<nodeVars, viewVars, linked, channel, followed>>

\* An event says of some peers what to show of them: peer_table of those
\* listed, peer_detected of one, peer_timeout that one is to be removed.
Event == UNION {[S -> Value] : S \in SUBSET Peer}

Listed == {p \in Peer : table[p] # None}

Detected(p, a) == [q \in {p} |-> a]
Timeout(p)     == [q \in {p} |-> None]

TypeOK ==
  /\ table \in [Peer -> Value]
  /\ age \in [Peer -> Nat]
  /\ sinceClean \in 0 .. NodePeriod + MaxLate
  /\ linked \in BOOLEAN
  /\ channel \in Seq(Event)
  /\ shown \in [Peer -> Value]
  /\ seen \in [Peer -> Nat]
  /\ sinceSweep \in 0 .. UiPeriod + MaxLate
  /\ followed \in SUBSET Peer

Init ==
  /\ table = [p \in Peer |-> None]
  /\ age = [p \in Peer |-> 0]
  /\ sinceClean = 0
  /\ linked = FALSE
  /\ channel = << >>
  /\ shown = [p \in Peer |-> None]
  /\ seen = [p \in Peer |-> 0]
  /\ sinceSweep = 0
  /\ followed = {}

-----------------------------------------------------------------------------
(***************************************************************************)
(* The node.                                                               *)
(***************************************************************************)

\* io.emit: an event reaches the browsers connected now, and no other.
Emit(events) ==
  IF linked THEN /\ Len(channel) + Len(events) <= MaxEvents
                 /\ channel' = channel \o events
            ELSE UNCHANGED channel

\* The peers whose last news the browser gets on this connection.
Follow(ps) == followed' = IF linked THEN followed \cup ps ELSE followed

\* upsertPeer, for a HELLO or an entry of a peer list.
UpsertPeer(p, a) ==
  /\ table' = [table EXCEPT ![p] = a]
  /\ age' = [age EXCEPT ![p] = 0]
  /\ Emit(<<Detected(p, a)>>)
  /\ Follow({p})
  /\ UNCHANGED <<sinceClean, linked, viewVars>>

\* registerPeerKey: an entry made by a handshake, of which no event tells.
RegisterPeerKey(p) ==
  /\ table[p] = None
  /\ table' = [table EXCEPT ![p] = NoAddr]
  /\ age' = [age EXCEPT ![p] = 0]
  /\ followed' = followed \ {p}
  /\ UNCHANGED <<sinceClean, linked, channel, viewVars>>

\* The order in which a Map is walked is that of insertion: any order.
Orders(S) == {s \in [1 .. Cardinality(S) -> S] :
                \A p \in S : \E i \in DOMAIN s :
                  \A j \in DOMAIN s : s[j] = p <=> j = i}

Stale == {p \in Listed : age[p] > NodeTTL}

\* cleanStalePeers: every peer not heard of for NodeTTL goes, and each one
\* has an event of its own.
CleanStalePeers ==
  /\ sinceClean >= NodePeriod
  /\ sinceClean' = 0
  /\ table' = [p \in Peer |-> IF p \in Stale THEN None ELSE table[p]]
  /\ \E s \in Orders(Stale) : Emit([i \in DOMAIN s |-> Timeout(s[i])])
  /\ Follow(Stale)
  /\ UNCHANGED <<age, linked, viewVars>>

\* io.on('connection'): the node sends the table it has now.
Connect ==
  /\ ~linked
  /\ linked' = TRUE
  /\ channel' = <<[p \in Listed |-> table[p]]>>
  /\ followed' = Listed
  /\ UNCHANGED <<nodeVars, viewVars>>

\* The process ends and another one starts.
Restart ==
  /\ table' = [p \in Peer |-> None]
  /\ age' = [p \in Peer |-> 0]
  /\ sinceClean' = 0
  /\ linked' = FALSE
  /\ channel' = << >>
  /\ followed' = {}
  /\ UNCHANGED viewVars

-----------------------------------------------------------------------------
(***************************************************************************)
(* The browser.                                                            *)
(***************************************************************************)

\* Mutant of HandleEvent: only a new card gets the time it was made.
HandleEventKeepSeen ==
  /\ channel # << >>
  /\ LET e == Head(channel)
     IN /\ shown' = [p \in Peer |-> IF p \in DOMAIN e THEN e[p] ELSE shown[p]]
        /\ seen' = [p \in Peer |->
             IF p \in DOMAIN e /\ shown[p] = None THEN 0 ELSE seen[p]]
  /\ channel' = Tail(channel)
  /\ UNCHANGED <<nodeVars, sinceSweep, linked, followed>>

\* peer_table, peer_detected (upsertPeer) and peer_timeout (removePeer).
HandleEvent ==
  /\ channel # << >>
  /\ LET e == Head(channel)
     IN /\ shown' = [p \in Peer |-> IF p \in DOMAIN e THEN e[p] ELSE shown[p]]
        /\ seen' = [p \in Peer |-> IF p \in DOMAIN e THEN 0 ELSE seen[p]]
  /\ channel' = Tail(channel)
  /\ UNCHANGED <<nodeVars, sinceSweep, linked, followed>>

\* Mutant of Inactive: the browser drops a card when the node would.
InactiveEarly == {p \in Peer : seen[p] > NodeTTL}

Inactive == {p \in Peer : seen[p] > UiTTL}

\* Mutant of Sweep: a card that is kept counts as seen.
SweepTouch ==
  /\ sinceSweep >= UiPeriod
  /\ sinceSweep' = 0
  /\ shown' = [p \in Peer |-> IF p \in Inactive THEN None ELSE shown[p]]
  /\ seen' = [p \in Peer |-> 0]
  /\ UNCHANGED <<nodeVars, linked, channel, followed>>

\* Mutant of Sweep: it trusts the node while it is connected, and removes the
\* inactive cards only of a node that is gone.
SweepUnlinked ==
  /\ sinceSweep >= UiPeriod
  /\ sinceSweep' = 0
  /\ shown' = [p \in Peer |-> IF p \in Inactive /\ ~linked THEN None
                              ELSE shown[p]]
  /\ UNCHANGED <<nodeVars, seen, linked, channel, followed>>

\* The interval that removes inactive cards.
Sweep ==
  /\ sinceSweep >= UiPeriod
  /\ sinceSweep' = 0
  /\ shown' = [p \in Peer |-> IF p \in Inactive THEN None ELSE shown[p]]
  /\ UNCHANGED <<nodeVars, seen, linked, channel, followed>>

\* The CLEAR button: the node is not told.
Clear ==
  /\ shown' = [p \in Peer |-> None]
  /\ followed' = {}
  /\ UNCHANGED <<nodeVars, seen, sinceSweep, linked, channel>>

\* The connection breaks: the cards stay, what was on its way is lost.
Disconnect ==
  /\ linked
  /\ linked' = FALSE
  /\ channel' = << >>
  /\ followed' = {}
  /\ UNCHANGED <<nodeVars, viewVars>>

-----------------------------------------------------------------------------
\* Time passes, and may pass a timer that is due.
Tick ==
  /\ sinceClean < NodePeriod + MaxLate
  /\ sinceSweep < UiPeriod + MaxLate
  /\ sinceClean' = sinceClean + 1
  /\ sinceSweep' = sinceSweep + 1
  /\ age' = [p \in Peer |-> IF table[p] = None THEN 0 ELSE age[p] + 1]
  /\ seen' = [p \in Peer |-> IF shown[p] = None THEN 0 ELSE seen[p] + 1]
  /\ UNCHANGED <<table, linked, channel, shown, followed>>

Next ==
  \/ \E p \in Peer, a \in Addr : UpsertPeer(p, a)
  \/ \E p \in Peer : RegisterPeerKey(p)
  \/ CleanStalePeers
  \/ Connect
  \/ Restart
  \/ HandleEvent
  \/ Sweep
  \/ Clear
  \/ Disconnect
  \/ Tick

Spec == Init /\ [][Next]_vars

-----------------------------------------------------------------------------
(***************************************************************************)
(* Safety.                                                                 *)
(***************************************************************************)

\* The events in c say nothing of p, or the last that does says v of it.
Silent(c, p) == \A i \in DOMAIN c : p \notin DOMAIN c[i]

LastSays(c, p, v) ==
  \E i \in DOMAIN c : /\ p \in DOMAIN c[i] /\ c[i][p] = v
                     /\ \A j \in DOMAIN c : p \in DOMAIN c[j] => j <= i

\* What the browser shows of p once the events in flight are handled is v.
WillShow(c, view, p, v) ==
  \/ Silent(c, p) /\ view[p] = v
  \/ LastSays(c, p, v)

\* The node's cleanStalePeers is late, and the entry of p as old as the browser
\* allows: the node should have removed it.
Overdue(p) == sinceClean > NodePeriod /\ age[p] > UiTTL

\* Once the events in flight are handled, the browser shows of every peer
\* what the node's table says of it: the node's address, and no card for a
\* peer that expired, whatever the two clocks did in between.  It drops a
\* card of its own accord only where the node should have dropped the entry
\* and its timer is late; while the timer is punctual, never, although there
\* is no margin between the two limits.
ViewFollowsTable ==
  linked => \A p \in followed :
              \/ WillShow(channel, shown, p, table[p])
              \/ Overdue(p) /\ WillShow(channel, shown, p, None)

(***************************************************************************)
(* The inductive invariant behind it.                                      *)
(***************************************************************************)

\* The last run of the node's timer bounds the age of an entry.
EntriesExpire ==
  \A p \in Listed : age[p] <= NodeTTL + sinceClean

\* A card the browser has news of is no older than the node's entry, since
\* the news came after last_seen.
CardsYounger ==
  linked => \A p \in followed \cap Listed :
              Silent(channel, p) => seen[p] <= age[p]

\* No card outlives the browser's own limit and period, counted from the last
\* event that spoke of its peer, connected or not and whatever was lost on
\* the way: a ghost is gone after 115 s, and the time the sweep is late.
CardsExpire == \A p \in Peer : shown[p] # None => seen[p] <= UiTTL + sinceSweep

DashboardInv == TypeOK /\ EntriesExpire /\ CardsYounger /\ ViewFollowsTable

-----------------------------------------------------------------------------
(***************************************************************************)
(* The node's table is the one of PeerTable and Session as well: each      *)
(* implements PeerEntries.                                                 *)
(***************************************************************************)

Tables == [o \in {"node"} |-> table]

Table == INSTANCE PeerEntries WITH Owner <- {"node"}, entry <- Tables

\* What the browser follows is a table in which an address never gives way to
\* none while the entry stays.
ImplementsPeerEntries == Table!Spec

-----------------------------------------------------------------------------
(***************************************************************************)
(* Liveness: the two intervals run, and a connection that stands delivers. *)
(***************************************************************************)

FairSpec ==
  /\ Spec
  /\ WF_vars(Tick) /\ WF_vars(CleanStalePeers) /\ WF_vars(Sweep)
  /\ WF_vars(HandleEvent)

\* A card of a peer the node has forgotten goes, even when the event that
\* says so was lost with the connection, and whether or not the browser ever
\* connects again (this is what the browser's own clock is for).
GhostsVanish ==
  \A p \in Peer :
    shown[p] # None /\ table[p] = None ~> shown[p] = None \/ table[p] # None
=============================================================================
