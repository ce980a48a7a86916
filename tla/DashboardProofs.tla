-------------------------- MODULE DashboardProofs --------------------------
(***************************************************************************)
(* The theorems about Dashboard: for any peers, addresses, lifetimes and   *)
(* periods that leave the browser no less time than the node, and timers   *)
(* as late as they like, what the browser is told on a connection adds up  *)
(* to the node's table.                                                    *)
(***************************************************************************)
EXTENDS Dashboard, SequenceTheorems, FiniteSetTheorems, TLAPS

-----------------------------------------------------------------------------
(***************************************************************************)
(* Events and channels.                                                    *)
(***************************************************************************)

LEMMA EventValue ==
  ASSUME NEW e \in Event
  PROVE  DOMAIN e \subseteq Peer /\ \A p \in DOMAIN e : e[p] \in Value
BY DEF Event

LEMMA NewEvent ==
  ASSUME NEW S \in SUBSET Peer, NEW f \in [S -> Value]
  PROVE  f \in Event
BY DEF Event

LEMMA ListedEvent ==
  ASSUME TypeOK
  PROVE  [p \in Listed |-> table[p]] \in Event
<1>1. Listed \in SUBSET Peer
  BY DEF Listed
<1>2. [p \in Listed |-> table[p]] \in [Listed -> Value]
  BY DEF TypeOK, Listed
<1>3. QED
  BY <1>1, <1>2, NewEvent

LEMMA DetectedEvent ==
  ASSUME NEW p \in Peer, NEW a \in Addr
  PROVE  <<Detected(p, a)>> \in Seq(Event)
<1>1. {p} \in SUBSET Peer
  OBVIOUS
<1>2. Detected(p, a) \in [{p} -> Value]
  BY DEF Detected, Value
<1>3. Detected(p, a) \in Event
  BY <1>1, <1>2, NewEvent
<1>4. QED
  BY <1>3

LEMMA TimeoutEvent ==
  ASSUME NEW p \in Peer
  PROVE  Timeout(p) \in Event /\ DOMAIN Timeout(p) = {p} /\ Timeout(p)[p] = None
<1>1. {p} \in SUBSET Peer
  OBVIOUS
<1>2. Timeout(p) \in [{p} -> Value]
  BY DEF Timeout, Value
<1>3. Timeout(p) \in Event
  BY <1>1, <1>2, NewEvent
<1>4. QED
  BY <1>3 DEF Timeout

\* News of others changes nothing of what will be shown of p.
LEMMA SilentConcat ==
  ASSUME NEW c \in Seq(Event), NEW d \in Seq(Event), NEW view, NEW p, NEW v,
         Silent(d, p), WillShow(c, view, p, v)
  PROVE  WillShow(c \o d, view, p, v)
<1>1. /\ c \o d \in Seq(Event) /\ Len(c \o d) = Len(c) + Len(d)
      /\ Len(c) \in Nat /\ Len(d) \in Nat
      /\ DOMAIN c = 1 .. Len(c) /\ DOMAIN d = 1 .. Len(d)
      /\ DOMAIN (c \o d) = 1 .. (Len(c) + Len(d))
  OBVIOUS
<1>2. \A i \in DOMAIN c : i \in DOMAIN (c \o d) /\ (c \o d)[i] = c[i]
  BY <1>1
<1>3. \A i \in DOMAIN (c \o d) : i \notin DOMAIN c =>
        i - Len(c) \in DOMAIN d /\ (c \o d)[i] = d[i - Len(c)]
  BY <1>1
<1>4. \A i \in DOMAIN (c \o d) : p \in DOMAIN (c \o d)[i] => i \in DOMAIN c
  BY <1>3 DEF Silent
<1>5. CASE Silent(c, p) /\ view[p] = v
  BY <1>2, <1>4, <1>5 DEF Silent, WillShow
<1>6. CASE LastSays(c, p, v)
  <2>1. PICK i \in DOMAIN c :
          /\ p \in DOMAIN c[i] /\ c[i][p] = v
          /\ \A j \in DOMAIN c : p \in DOMAIN c[j] => j <= i
    BY <1>6 DEF LastSays
  <2>2. QED
    BY <1>2, <1>4, <2>1 DEF LastSays, WillShow
<1>7. QED
  BY <1>5, <1>6 DEF WillShow

\* The last news of p is what will be shown of it.
LEMMA LastConcat ==
  ASSUME NEW c \in Seq(Event), NEW d \in Seq(Event), NEW view, NEW p, NEW v,
         LastSays(d, p, v)
  PROVE  WillShow(c \o d, view, p, v)
<1>1. /\ Len(c) \in Nat /\ Len(d) \in Nat
      /\ DOMAIN c = 1 .. Len(c) /\ DOMAIN d = 1 .. Len(d)
      /\ DOMAIN (c \o d) = 1 .. (Len(c) + Len(d))
  OBVIOUS
<1>2. PICK i \in DOMAIN d :
        /\ p \in DOMAIN d[i] /\ d[i][p] = v
        /\ \A j \in DOMAIN d : p \in DOMAIN d[j] => j <= i
  BY DEF LastSays
<1>3. Len(c) + i \in DOMAIN (c \o d) /\ (c \o d)[Len(c) + i] = d[i]
  BY <1>1, <1>2
<1>4. ASSUME NEW j \in DOMAIN (c \o d), p \in DOMAIN (c \o d)[j]
      PROVE  j <= Len(c) + i
  <2>1. CASE j \in DOMAIN c
    BY <1>1, <1>2, <2>1
  <2>2. CASE j \notin DOMAIN c
    <3>1. j - Len(c) \in DOMAIN d /\ (c \o d)[j] = d[j - Len(c)]
      BY <1>1, <2>2
    <3>2. j - Len(c) <= i
      BY <1>2, <1>4, <3>1
    <3>3. QED
      BY <1>1, <1>2, <3>2
  <2>3. QED
    BY <2>1, <2>2
<1>5. QED
  BY <1>2, <1>3, <1>4 DEF LastSays, WillShow

\* Handling the first event changes nothing of what will be shown of p.
LEMMA TailShows ==
  ASSUME NEW c \in Seq(Event), c # << >>, NEW view, NEW p, NEW v,
         WillShow(c, view, p, v), NEW view2,
         view2[p] = IF p \in DOMAIN Head(c) THEN Head(c)[p] ELSE view[p]
  PROVE  WillShow(Tail(c), view2, p, v)
<1>1. /\ Len(c) \in Nat /\ Len(c) >= 1
      /\ DOMAIN c = 1 .. Len(c) /\ DOMAIN Tail(c) = 1 .. (Len(c) - 1)
      /\ Head(c) = c[1]
  OBVIOUS
<1>2. \A i \in DOMAIN Tail(c) : i + 1 \in DOMAIN c /\ Tail(c)[i] = c[i + 1]
  BY <1>1
<1>3. CASE Silent(c, p) /\ view[p] = v
  BY <1>1, <1>2, <1>3 DEF Silent, WillShow
<1>4. CASE LastSays(c, p, v)
  <2>1. PICK i \in DOMAIN c :
          /\ p \in DOMAIN c[i] /\ c[i][p] = v
          /\ \A j \in DOMAIN c : p \in DOMAIN c[j] => j <= i
    BY <1>4 DEF LastSays
  <2>2. CASE i = 1
    <3>1. Silent(Tail(c), p)
      <4>1. SUFFICES ASSUME NEW j \in DOMAIN Tail(c),
                            p \in DOMAIN Tail(c)[j]
                     PROVE  FALSE
        BY DEF Silent
      <4>2. j + 1 <= 1
        BY <1>2, <2>1, <2>2, <4>1
      <4>3. QED
        BY <1>1, <4>2
    <3>2. view2[p] = v
      BY <1>1, <2>1, <2>2
    <3>3. QED
      BY <3>1, <3>2 DEF WillShow
  <2>3. CASE i # 1
    <3>1. i - 1 \in DOMAIN Tail(c) /\ Tail(c)[i - 1] = c[i]
      BY <1>1, <2>1, <2>3
    <3>2. ASSUME NEW j \in DOMAIN Tail(c), p \in DOMAIN Tail(c)[j]
          PROVE  j <= i - 1
      BY <1>1, <1>2, <2>1, <3>2
    <3>3. QED
      BY <2>1, <3>1, <3>2 DEF LastSays, WillShow
  <2>4. QED
    BY <2>2, <2>3
<1>5. QED
  BY <1>3, <1>4 DEF WillShow

\* What is silent as a whole is silent in its first part.
LEMMA SilentPrefix ==
  ASSUME NEW c \in Seq(Event), NEW d \in Seq(Event), NEW p,
         Silent(c \o d, p)
  PROVE  Silent(c, p)
<1>1. \A i \in DOMAIN c : i \in DOMAIN (c \o d) /\ (c \o d)[i] = c[i]
  OBVIOUS
<1>2. QED
  BY <1>1 DEF Silent

\* The events of one expiry say of each stale peer that it is to be removed,
\* and nothing of another one.
LEMMA Timeouts ==
  ASSUME TypeOK, NEW s \in Orders(Stale)
  PROVE  LET d == [i \in DOMAIN s |-> Timeout(s[i])]
         IN /\ d \in Seq(Event)
            /\ \A p \in Stale : LastSays(d, p, None)
            /\ \A p \in Peer \ Stale : Silent(d, p)
<1> DEFINE d == [i \in DOMAIN s |-> Timeout(s[i])]
           n == Cardinality(Stale)
<1>1. Stale \subseteq Peer
  BY DEF Stale, Listed
<1>2. n \in Nat
  BY <1>1, DashboardAssumption, FS_Subset, FS_CardinalityType
<1>3. DOMAIN s = 1 .. n /\ \A i \in DOMAIN s : s[i] \in Stale
  BY DEF Orders
<1>4. \A i \in 1 .. n : /\ s[i] \in Peer /\ d[i] \in Event
                       /\ DOMAIN d[i] = {s[i]} /\ d[i][s[i]] = None
  BY <1>1, <1>3, TimeoutEvent
<1>5. d \in Seq(Event)
  <2>1. d \in [1 .. n -> Event]
    BY <1>3, <1>4
  <2>2. QED
    BY <1>2, <2>1, SeqDef
<1>6. ASSUME NEW p \in Stale PROVE LastSays(d, p, None)
  <2>1. PICK i \in DOMAIN s : \A j \in DOMAIN s : s[j] = p <=> j = i
    BY DEF Orders
  <2>2. ASSUME NEW j \in DOMAIN d, p \in DOMAIN d[j] PROVE j = i
    <3>1. j \in DOMAIN s /\ j \in 1 .. n
      BY <1>3
    <3>2. DOMAIN d[j] = {s[j]}
      BY <1>4, <3>1
    <3>3. s[j] = p
      BY <2>2, <3>2
    <3>4. QED
      BY <2>1, <3>1, <3>3
  <2>3. i \in DOMAIN d /\ s[i] = p /\ i \in 1 .. n
    BY <1>3, <2>1
  <2>4. p \in DOMAIN d[i] /\ d[i][p] = None
    BY <1>4, <2>3
  <2>5. i <= i
    BY <1>2, <2>3
  <2>6. QED
    BY <2>2, <2>3, <2>4, <2>5 DEF LastSays
<1>7. ASSUME NEW p \in Peer \ Stale PROVE Silent(d, p)
  <2>1. DOMAIN d = 1 .. n
    BY <1>3
  <2>2. ASSUME NEW i \in 1 .. n PROVE p \notin DOMAIN d[i]
    <3>1. DOMAIN d[i] = {s[i]} /\ s[i] \in Stale
      BY <1>3, <1>4
    <3>2. QED
      BY <1>7, <3>1
  <2>3. QED
    BY <2>1, <2>2 DEF Silent
<1>8. QED
  BY <1>5, <1>6, <1>7

-----------------------------------------------------------------------------
(***************************************************************************)
(* Type correctness.                                                       *)
(***************************************************************************)

LEMMA EmitType ==
  ASSUME TypeOK, NEW events \in Seq(Event), Emit(events)
  PROVE  channel' \in Seq(Event)
<1>1. channel \in Seq(Event)
  BY DEF TypeOK
<1>2. QED
  BY <1>1, ConcatProperties DEF Emit

LEMMA NextType == TypeOK /\ [Next]_vars => TypeOK'
<1> SUFFICES ASSUME TypeOK, [Next]_vars PROVE TypeOK'
  OBVIOUS
<1> USE DashboardAssumption
<1>1. ASSUME NEW p \in Peer, NEW a \in Addr, UpsertPeer(p, a) PROVE TypeOK'
  <2>1. channel' \in Seq(Event)
    BY <1>1, DetectedEvent, EmitType DEF UpsertPeer
  <2>2. a \in Value
    BY DEF Value
  <2>3. QED
    BY <1>1, <2>1, <2>2 DEF UpsertPeer, Follow, viewVars, TypeOK
<1>2. ASSUME NEW p \in Peer, RegisterPeerKey(p) PROVE TypeOK'
  BY <1>2 DEF RegisterPeerKey, viewVars, TypeOK, Value
<1>3. CASE CleanStalePeers
  <2>1. channel' \in Seq(Event)
    BY <1>3, Timeouts, EmitType DEF CleanStalePeers
  <2>2. Stale \subseteq Peer
    BY DEF Stale, Listed
  <2>3. table' \in [Peer -> Value] /\ followed' \in SUBSET Peer
    BY <1>3, <2>2 DEF CleanStalePeers, Follow, TypeOK, Value
  <2>4. QED
    BY <1>3, <2>1, <2>3 DEF CleanStalePeers, viewVars, TypeOK
<1>4. CASE Connect
  <2>1. channel' \in Seq(Event)
    BY <1>4, ListedEvent DEF Connect
  <2>2. QED
    BY <1>4, <2>1 DEF Connect, nodeVars, viewVars, TypeOK, Listed
<1>5. CASE Restart
  <2>1. channel' \in Seq(Event)
    BY <1>5, EmptySeq DEF Restart
  <2>2. table' \in [Peer -> Value] /\ age' \in [Peer -> Nat]
    BY <1>5 DEF Restart, Value
  <2>3. sinceClean' \in 0 .. NodePeriod + MaxLate
    BY <1>5 DEF Restart
  <2>4. linked' \in BOOLEAN /\ followed' \in SUBSET Peer
    BY <1>5 DEF Restart
  <2>5. QED
    BY <1>5, <2>1, <2>2, <2>3, <2>4 DEF Restart, viewVars, TypeOK
<1>6. CASE HandleEvent
  <2> DEFINE e == Head(channel)
  <2>1. e \in Event /\ channel' \in Seq(Event)
    BY <1>6 DEF HandleEvent, TypeOK
  <2>2. \A p \in DOMAIN e : e[p] \in Value
    BY <2>1, EventValue
  <2>3. shown' \in [Peer -> Value] /\ seen' \in [Peer -> Nat]
    BY <1>6, <2>2 DEF HandleEvent, TypeOK
  <2>4. QED
    BY <1>6, <2>1, <2>3 DEF HandleEvent, nodeVars, TypeOK
<1>7. CASE Sweep
  BY <1>7 DEF Sweep, nodeVars, TypeOK, Value
<1>8. CASE Clear
  BY <1>8 DEF Clear, nodeVars, TypeOK, Value
<1>9. CASE Disconnect
  BY <1>9, EmptySeq DEF Disconnect, nodeVars, viewVars, TypeOK
<1>10. CASE Tick
  BY <1>10 DEF Tick, TypeOK
<1>11. CASE UNCHANGED vars
  BY <1>11 DEF vars, nodeVars, viewVars, TypeOK
<1>12. QED
  BY <1>1, <1>2, <1>3, <1>4, <1>5, <1>6, <1>7, <1>8, <1>9, <1>10, <1>11
     DEF Next

LEMMA InitType == Init => TypeOK
<1> SUFFICES ASSUME Init PROVE TypeOK
  OBVIOUS
<1>1. channel \in Seq(Event)
  BY EmptySeq DEF Init
<1>2. /\ table \in [Peer -> Value] /\ age \in [Peer -> Nat]
      /\ shown \in [Peer -> Value] /\ seen \in [Peer -> Nat]
  BY DEF Init, Value
<1>3. /\ sinceClean \in 0 .. NodePeriod + MaxLate
      /\ sinceSweep \in 0 .. UiPeriod + MaxLate
  BY DashboardAssumption DEF Init
<1>4. linked \in BOOLEAN /\ followed \in SUBSET Peer
  BY DEF Init
<1>5. QED
  BY <1>1, <1>2, <1>3, <1>4 DEF TypeOK

-----------------------------------------------------------------------------
(***************************************************************************)
(* The two clocks.                                                         *)
(***************************************************************************)

LEMMA NextExpire ==
  ASSUME TypeOK, EntriesExpire, [Next]_vars
  PROVE  EntriesExpire'
<1> USE DashboardAssumption
<1> SUFFICES ASSUME NEW q \in Peer, table'[q] # None
             PROVE  age'[q] <= NodeTTL + sinceClean'
  BY DEF EntriesExpire, Listed
<1>1. table[q] # None => age[q] <= NodeTTL + sinceClean
  BY DEF EntriesExpire, Listed
<1>2. ASSUME NEW p \in Peer, NEW a \in Addr, UpsertPeer(p, a)
      PROVE  age'[q] <= NodeTTL + sinceClean'
  BY <1>1, <1>2 DEF UpsertPeer, TypeOK
<1>3. ASSUME NEW p \in Peer, RegisterPeerKey(p)
      PROVE  age'[q] <= NodeTTL + sinceClean'
  BY <1>1, <1>3 DEF RegisterPeerKey, TypeOK
<1>4. CASE CleanStalePeers
  <2>1. q \notin Stale /\ table[q] # None
    BY <1>4 DEF CleanStalePeers
  <2>2. age[q] <= NodeTTL
    BY <2>1 DEF Stale, Listed, TypeOK
  <2>3. QED
    BY <1>4, <2>2 DEF CleanStalePeers
<1>5. CASE Tick
  BY <1>1, <1>5 DEF Tick, TypeOK
<1>6. CASE Restart
  BY <1>6 DEF Restart
<1>7. CASE UNCHANGED nodeVars
  BY <1>1, <1>7 DEF nodeVars
<1>8. QED
  BY <1>2, <1>3, <1>4, <1>5, <1>6, <1>7
     DEF Next, vars, Connect, HandleEvent, Sweep, Clear, Disconnect

LEMMA NextYounger ==
  ASSUME TypeOK, CardsYounger, [Next]_vars
  PROVE  CardsYounger'
<1> USE DashboardAssumption
<1> SUFFICES ASSUME linked', NEW q \in followed', q \in Peer,
                    table'[q] # None, Silent(channel', q)
             PROVE  seen'[q] <= age'[q]
  BY NextType DEF CardsYounger, Listed, TypeOK
<1>1. ASSUME linked, q \in followed, table[q] # None, Silent(channel, q)
      PROVE  seen[q] <= age[q]
  BY <1>1 DEF CardsYounger, Listed
<1>2. ASSUME NEW p \in Peer, NEW a \in Addr, UpsertPeer(p, a)
      PROVE  seen'[q] <= age'[q]
  <2>1. /\ linked /\ <<Detected(p, a)>> \in Seq(Event)
        /\ channel' = channel \o <<Detected(p, a)>>
    BY <1>2, DetectedEvent DEF UpsertPeer, Emit
  <2>2. q # p
    <3>1. /\ Len(channel) + 1 \in DOMAIN channel'
          /\ channel'[Len(channel) + 1] = Detected(p, a)
      BY <2>1 DEF TypeOK
    <3>2. p \in DOMAIN Detected(p, a)
      BY DEF Detected
    <3>3. QED
      BY <3>1, <3>2 DEF Silent
  <2>3. q \in followed /\ table[q] # None /\ UNCHANGED <<age[q], seen[q]>>
    BY <1>2, <2>2 DEF UpsertPeer, Follow, viewVars, TypeOK
  <2>4. QED
    BY <1>1, <2>1, <2>3, SilentPrefix DEF TypeOK
<1>3. ASSUME NEW p \in Peer, RegisterPeerKey(p)
      PROVE  seen'[q] <= age'[q]
  BY <1>1, <1>3 DEF RegisterPeerKey, viewVars, TypeOK
<1>4. CASE CleanStalePeers
  <2>1. PICK s \in Orders(Stale) : Emit([i \in DOMAIN s |-> Timeout(s[i])])
    BY <1>4 DEF CleanStalePeers
  <2>2. /\ linked /\ [i \in DOMAIN s |-> Timeout(s[i])] \in Seq(Event)
        /\ channel' = channel \o [i \in DOMAIN s |-> Timeout(s[i])]
    BY <1>4, <2>1, Timeouts DEF CleanStalePeers, Emit
  <2>3. q \in followed /\ table[q] # None /\ UNCHANGED <<age, seen>>
    BY <1>4 DEF CleanStalePeers, Follow, viewVars
  <2>4. QED
    BY <1>1, <2>2, <2>3, SilentPrefix DEF TypeOK
<1>5. CASE Connect
  <2>1. 1 \in DOMAIN channel' /\ channel'[1] = [p \in Listed |-> table[p]]
    BY <1>5 DEF Connect
  <2>2. q \in Listed
    BY <1>5 DEF Connect
  <2>3. QED
    BY <2>1, <2>2 DEF Silent
<1>6. CASE HandleEvent
  <2>1. CASE q \in DOMAIN Head(channel)
    BY <1>6, <2>1 DEF HandleEvent, nodeVars, TypeOK
  <2>2. CASE q \notin DOMAIN Head(channel)
    <3>1. Silent(channel, q)
      <4>1. SUFFICES ASSUME NEW i \in DOMAIN channel, q \in DOMAIN channel[i]
                     PROVE  FALSE
        BY DEF Silent
      <4>2. i # 1 /\ i \in 1 .. Len(channel)
        BY <1>6, <2>2, <4>1 DEF HandleEvent, TypeOK
      <4>3. i - 1 \in DOMAIN Tail(channel) /\ Tail(channel)[i - 1] = channel[i]
        BY <1>6, <4>2 DEF HandleEvent, TypeOK
      <4>4. QED
        BY <1>6, <4>1, <4>3 DEF HandleEvent, Silent
    <3>2. QED
      BY <1>1, <1>6, <2>2, <3>1 DEF HandleEvent, nodeVars, TypeOK
  <2>3. QED
    BY <2>1, <2>2
<1>7. CASE Sweep
  BY <1>1, <1>7 DEF Sweep, nodeVars
<1>8. CASE Tick
  BY <1>1, <1>8 DEF Tick, TypeOK
<1>9. CASE Restart \/ Clear \/ Disconnect
  BY <1>9 DEF Restart, Clear, Disconnect
<1>10. CASE UNCHANGED vars
  BY <1>1, <1>10 DEF vars, nodeVars, viewVars
<1>11. QED
  BY <1>2, <1>3, <1>4, <1>5, <1>6, <1>7, <1>8, <1>9, <1>10 DEF Next

-----------------------------------------------------------------------------
(***************************************************************************)
(* The view follows the table.                                             *)
(***************************************************************************)

\* The view of q follows the table, but for the browser's own expiry.
Follows(q) == WillShow(channel, shown, q, table[q])

Dropped(q) == Overdue(q) /\ WillShow(channel, shown, q, None)

LEMMA NextView ==
  ASSUME DashboardInv, [Next]_vars
  PROVE  ViewFollowsTable'
<1> USE DashboardAssumption
<1> SUFFICES ASSUME linked', NEW q \in followed', q \in Peer
             PROVE  Follows(q)' \/ Dropped(q)'
  BY NextType DEF ViewFollowsTable, TypeOK, DashboardInv, Follows, Dropped
<1>0. TypeOK /\ channel \in Seq(Event)
  BY DEF DashboardInv, TypeOK
<1>1. ASSUME linked, q \in followed
      PROVE  Follows(q) \/ Dropped(q)
  BY <1>1 DEF DashboardInv, ViewFollowsTable, Follows, Dropped
<1>2. ASSUME NEW p \in Peer, NEW a \in Addr, UpsertPeer(p, a)
      PROVE  Follows(q)' \/ Dropped(q)'
  <2> DEFINE d == <<Detected(p, a)>>
  <2>1. linked /\ d \in Seq(Event) /\ channel' = channel \o d
    BY <1>2, DetectedEvent DEF UpsertPeer, Emit
  <2>2. CASE q = p
    <3>1. table'[q] = a
      BY <1>0, <1>2, <2>2 DEF UpsertPeer, TypeOK
    <3>2. LastSays(d, q, a)
      BY <2>2 DEF LastSays, Detected
    <3>3. QED
      BY <1>0, <2>1, <3>1, <3>2, LastConcat DEF Follows
  <2>3. CASE q # p
    <3>1. /\ table'[q] = table[q] /\ age'[q] = age[q] /\ q \in followed
          /\ UNCHANGED <<sinceClean, shown>>
      BY <1>0, <1>2, <2>3 DEF UpsertPeer, Follow, viewVars, TypeOK
    <3>2. Silent(d, q)
      BY <2>3 DEF Silent, Detected
    <3>3. QED
      BY <1>0, <1>1, <2>1, <3>1, <3>2, SilentConcat
         DEF Follows, Dropped, Overdue
  <2>4. QED
    BY <2>2, <2>3
<1>3. ASSUME NEW p \in Peer, RegisterPeerKey(p)
      PROVE  Follows(q)' \/ Dropped(q)'
  <2>1. /\ linked /\ q \in followed /\ table'[q] = table[q] /\ age'[q] = age[q]
        /\ UNCHANGED <<sinceClean, channel, shown>>
    BY <1>0, <1>3 DEF RegisterPeerKey, viewVars, TypeOK
  <2>2. QED
    BY <1>1, <2>1 DEF Follows, Dropped, Overdue
<1>4. CASE CleanStalePeers
  <2>1. PICK s \in Orders(Stale) : Emit([i \in DOMAIN s |-> Timeout(s[i])])
    BY <1>4 DEF CleanStalePeers
  <2> DEFINE d == [i \in DOMAIN s |-> Timeout(s[i])]
  <2>2. linked /\ channel' = channel \o d /\ shown' = shown
    BY <1>4, <2>1 DEF CleanStalePeers, Emit, viewVars
  <2>3. /\ d \in Seq(Event)
        /\ q \in Stale => LastSays(d, q, None)
        /\ q \notin Stale => Silent(d, q)
    BY <1>0, Timeouts
  <2> HIDE DEF d
  <2>4. CASE q \in Stale
    <3>1. table'[q] = None
      BY <1>4, <2>4 DEF CleanStalePeers
    <3>2. QED
      BY <1>0, <2>2, <2>3, <2>4, <3>1, LastConcat DEF Follows
  <2>5. CASE q \notin Stale
    <3>1. table'[q] = table[q] /\ q \in followed
      BY <1>4, <2>5 DEF CleanStalePeers, Follow
    <3>2. CASE Follows(q)
      BY <1>0, <2>2, <2>3, <2>5, <3>1, <3>2, SilentConcat DEF Follows
    <3>3. CASE Dropped(q)
      \* The entry was due, and the node's timer has not removed it: it had
      \* none, and the two agree.
      <4>1. table[q] = None
        BY <1>0, <2>5, <3>3 DEF Dropped, Overdue, Stale, Listed, TypeOK
      <4>2. Follows(q)
        BY <3>3, <4>1 DEF Dropped, Follows
      <4>3. QED
        BY <3>2, <4>2
    <3>4. QED
      BY <1>1, <2>2, <3>1, <3>2, <3>3
  <2>6. QED
    BY <2>4, <2>5
<1>5. CASE Connect
  <2>1. q \in Listed /\ table'[q] = table[q]
    BY <1>5 DEF Connect, nodeVars
  <2>2. channel' = <<[p \in Listed |-> table[p]]>>
    BY <1>5 DEF Connect
  <2>3. LastSays(channel', q, table[q])
    BY <2>1, <2>2 DEF LastSays
  <2>4. QED
    BY <2>1, <2>3 DEF WillShow, Follows
<1>6. CASE HandleEvent
  <2>1. /\ channel # << >> /\ channel' = Tail(channel)
        /\ UNCHANGED <<table, age, sinceClean>> /\ linked /\ q \in followed
    BY <1>6 DEF HandleEvent, nodeVars
  <2>2. shown'[q] = IF q \in DOMAIN Head(channel) THEN Head(channel)[q]
                                                  ELSE shown[q]
    BY <1>6 DEF HandleEvent
  <2>3. QED
    BY <1>0, <1>1, <2>1, <2>2, TailShows DEF Follows, Dropped, Overdue
<1>7. CASE Sweep
  <2>1. /\ UNCHANGED <<channel, table, age, sinceClean>>
        /\ linked /\ q \in followed
        /\ shown'[q] = IF q \in Inactive THEN None ELSE shown[q]
    BY <1>7 DEF Sweep, nodeVars
  <2>2. ASSUME WillShow(channel, shown, q, None)
        PROVE  WillShow(channel, shown', q, None)
    BY <2>1, <2>2 DEF WillShow
  <2>3. CASE Dropped(q)
    BY <2>1, <2>2, <2>3 DEF Dropped, Overdue
  <2>4. CASE Follows(q) /\ (table[q] = None \/ q \notin Inactive)
    BY <2>1, <2>2, <2>4 DEF Follows, WillShow
  <2>5. CASE Follows(q) /\ LastSays(channel, q, table[q])
    BY <2>1, <2>5 DEF Follows, WillShow
  <2>6. CASE /\ Follows(q) /\ ~LastSays(channel, q, table[q])
             /\ table[q] # None /\ q \in Inactive
    <3>1. Silent(channel, q)
      BY <2>6 DEF Follows, WillShow
    <3>2. seen[q] <= age[q] /\ age[q] <= NodeTTL + sinceClean
      BY <2>1, <2>6, <3>1
         DEF DashboardInv, CardsYounger, EntriesExpire, Listed
    <3>3. /\ seen[q] \in Nat /\ age[q] \in Nat /\ sinceClean \in Nat
          /\ seen[q] > UiTTL
      BY <1>0, <2>6 DEF Inactive, TypeOK
    <3>4. Overdue(q)
      BY <3>2, <3>3 DEF Overdue
    <3>5. WillShow(channel, shown', q, None)
      BY <2>1, <2>6, <3>1 DEF WillShow
    <3>6. QED
      BY <2>1, <3>4, <3>5 DEF Dropped, Overdue
  <2>7. QED
    BY <1>1, <2>1, <2>3, <2>4, <2>5, <2>6
<1>8. CASE Tick
  <2>1. /\ UNCHANGED <<table, linked, channel, shown, followed>>
        /\ sinceClean' = sinceClean + 1
        /\ table[q] # None => age'[q] = age[q] + 1
    BY <1>8 DEF Tick
  <2>2. CASE Follows(q)
    BY <2>1, <2>2 DEF Follows
  <2>3. CASE Dropped(q) /\ table[q] # None
    <3>1. Overdue(q)'
      BY <1>0, <2>1, <2>3 DEF Dropped, Overdue, TypeOK
    <3>2. QED
      BY <2>1, <2>3, <3>1 DEF Dropped
  <2>4. CASE Dropped(q) /\ table[q] = None
    BY <2>1, <2>4 DEF Dropped, Follows
  <2>5. QED
    BY <1>1, <2>1, <2>2, <2>3, <2>4
<1>9. CASE Restart \/ Clear \/ Disconnect
  BY <1>9 DEF Restart, Clear, Disconnect
<1>10. CASE UNCHANGED vars
  BY <1>1, <1>10 DEF vars, nodeVars, viewVars, Follows, Dropped, Overdue
<1>11. QED
  BY <1>2, <1>3, <1>4, <1>5, <1>6, <1>7, <1>8, <1>9, <1>10 DEF Next

\* The bookkeeping of the two tables holds in every reachable state.
THEOREM DashboardCorrect == Spec => []DashboardInv
<1>1. Init => DashboardInv
  BY InitType
     DEF Init, DashboardInv, EntriesExpire, CardsYounger, ViewFollowsTable,
         Listed
<1>2. DashboardInv /\ [Next]_vars => DashboardInv'
  BY NextType, NextExpire, NextYounger, NextView DEF DashboardInv
<1>3. QED
  BY <1>1, <1>2, PTL DEF Spec

\* Whatever the lifetimes and periods, if a punctual node keeps an entry no
\* longer than the browser keeps a card, then however late the two timers are
\* a connected browser ends up showing each peer it was told of exactly as the
\* node lists it, or drops the card of an entry the node is overdue to remove.
THEOREM DashboardFollows == Spec => []ViewFollowsTable
<1>1. DashboardInv => ViewFollowsTable
  BY DEF DashboardInv
<1>2. QED
  BY <1>1, DashboardCorrect, PTL

-----------------------------------------------------------------------------
(***************************************************************************)
(* The browser's own limit.                                                *)
(***************************************************************************)

LEMMA NextCards ==
  ASSUME TypeOK, CardsExpire, [Next]_vars
  PROVE  CardsExpire'
<1> USE DashboardAssumption
<1> SUFFICES ASSUME NEW p \in Peer, shown'[p] # None
             PROVE  seen'[p] <= UiTTL + sinceSweep'
  BY DEF CardsExpire
<1>1. shown[p] # None => seen[p] <= UiTTL + sinceSweep
  BY DEF CardsExpire
<1>2. CASE HandleEvent
  <2>1. \/ seen'[p] = 0
        \/ shown'[p] = shown[p] /\ seen'[p] = seen[p]
    BY <1>2 DEF HandleEvent
  <2>2. QED
    BY <1>1, <1>2, <2>1 DEF HandleEvent, TypeOK
<1>3. CASE Sweep
  <2>1. p \notin Inactive /\ seen'[p] = seen[p] /\ sinceSweep' = 0
    BY <1>3 DEF Sweep
  <2>2. QED
    BY <2>1 DEF Inactive, TypeOK
<1>4. CASE Tick
  BY <1>1, <1>4 DEF Tick, TypeOK
<1>5. CASE Clear
  BY <1>5 DEF Clear
<1>6. CASE UNCHANGED viewVars
  BY <1>1, <1>6 DEF viewVars
<1>7. QED
  BY <1>2, <1>3, <1>4, <1>5, <1>6
     DEF Next, UpsertPeer, RegisterPeerKey, CleanStalePeers, Connect,
         Restart, Disconnect, vars

\* Connected or not, and whatever was lost, a card is gone UiTTL and one
\* period of the sweep after the last event about its peer: 115 s, and as much
\* more as the sweep is late.
THEOREM NoGhostStays == Spec => []CardsExpire
<1>1. Init => CardsExpire
  BY DEF Init, CardsExpire
<1>2. DashboardInv /\ CardsExpire /\ [Next]_vars => CardsExpire'
  BY NextCards DEF DashboardInv
<1>3. QED
  BY <1>1, <1>2, DashboardCorrect, PTL DEF Spec

-----------------------------------------------------------------------------
(***************************************************************************)
(* The node's table implements PeerEntries.                                *)
(***************************************************************************)

\* There is one owner, so that a change of the table is one of its entries.
LEMMA TableStep ==
  ASSUME TypeOK, [Next]_vars
  PROVE  [Table!Next]_Tables
<1>0. TypeOK'
  BY NextType
<1>1. /\ Tables["node"] = table /\ Tables'["node"] = table'
      /\ Tables' \in Table!Entries /\ Table!Others("node")
  BY <1>0 DEF TypeOK, Tables, Table!Entries, Table!Others, Value
<1>2. ASSUME NEW p \in Peer, NEW a \in Addr, UpsertPeer(p, a)
      PROVE  Table!Next
  <2>1. \A q \in Peer : table'[q] = table[q] \/ table'[q] \in Addr
    BY <1>2 DEF UpsertPeer, TypeOK
  <2>2. Table!Learn("node")
    BY <1>1, <2>1 DEF Table!Learn
  <2>3. QED
    BY <2>2 DEF Table!Next
<1>3. ASSUME NEW p \in Peer, RegisterPeerKey(p) PROVE Table!Next
  <2>1. table[p] = None /\ table' = [table EXCEPT ![p] = NoAddr]
    BY <1>3 DEF RegisterPeerKey
  <2>2. Tables' = [Tables EXCEPT !["node"][p] = NoAddr]
    BY <2>1 DEF Tables
  <2>3. Table!Register("node", p)
    BY <1>1, <2>1, <2>2 DEF Table!Register
  <2>4. QED
    BY <2>3 DEF Table!Next
<1>4. CASE CleanStalePeers \/ Restart
  <2>1. \A q \in Peer : table'[q] \in {table[q], None}
    BY <1>4 DEF CleanStalePeers, Restart
  <2>2. Table!Forget("node")
    BY <1>1, <2>1 DEF Table!Forget
  <2>3. QED
    BY <2>2 DEF Table!Next
<1>5. CASE UNCHANGED table
  BY <1>5 DEF Tables
<1>6. QED
  BY <1>2, <1>3, <1>4, <1>5
     DEF Next, Connect, HandleEvent, Sweep, Clear, Disconnect, Tick, vars,
         nodeVars

\* The table whose changes the dashboard follows is the one PeerTable and
\* Session work on: an address is replaced, or goes with its entry.
THEOREM TableImplementsPeerEntries == Spec => ImplementsPeerEntries
<1>1. Init => Table!Init
  BY DEF Init, Tables, Table!Init
<1>2. TypeOK /\ [Next]_vars => [Table!Next]_Tables
  BY TableStep
<1>3. DashboardInv => TypeOK
  BY DEF DashboardInv
<1>4. QED
  BY <1>1, <1>2, <1>3, DashboardCorrect, PTL
     DEF Spec, ImplementsPeerEntries, Table!Spec
=============================================================================
