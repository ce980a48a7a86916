--------------------------- MODULE StartupProofs ---------------------------
(***************************************************************************)
(* The theorems about Startup: for any processes, machines and ports, ids  *)
(* are distinct, announcements lead to their owners, and a search for a    *)
(* port only fails where there are not enough of them.                     *)
(***************************************************************************)
EXTENDS Startup, FiniteSetTheorems, TLAPS

-----------------------------------------------------------------------------
(***************************************************************************)
(* Constants and finite sets.                                              *)
(***************************************************************************)

LEMMA Constants ==
  /\ IsFiniteSet(Instance) /\ HostOf \in [Instance -> Host]
  /\ Explicit \subseteq Instance
  /\ BasePort \in [Server -> Nat] /\ MaxOffset \in [Server -> Nat]
  /\ \A s \in Server : BasePort[s] \in Nat /\ MaxOffset[s] \in Nat
                       /\ BasePort[s] \in Tried(s) /\ Last(s) \in Nat
  /\ \A h \in Host : Taken[h] \subseteq Nat
  /\ \A i \in Instance : HostOf[i] \in Host
  /\ "tcp" \in Server /\ "ui" \in Server
<1>1. \A s \in Server : BasePort[s] \in Nat /\ MaxOffset[s] \in Nat
  BY StartupAssumption
<1>2. \A s \in Server : Last(s) \in Nat /\ BasePort[s] \in Tried(s)
  BY <1>1 DEF Tried, Last
<1>3. /\ \A h \in Host : Taken[h] \subseteq Nat
      /\ \A i \in Instance : HostOf[i] \in Host
      /\ IsFiniteSet(Instance) /\ HostOf \in [Instance -> Host]
      /\ Explicit \subseteq Instance
      /\ BasePort \in [Server -> Nat] /\ MaxOffset \in [Server -> Nat]
  BY StartupAssumption
<1>4. "tcp" \in Server /\ "ui" \in Server
  BY DEF Server
<1>5. QED
  BY <1>1, <1>2, <1>3, <1>4

\* The ranges of the two servers do not meet.
LEMMA RangesApart ==
  ASSUME NEW s \in Server, NEW t \in Server,
         NEW p, p \in Tried(s), p \in Tried(t)
  PROVE  s = t
<1>1. /\ BasePort[s] <= p /\ p <= BasePort[s] + MaxOffset[s]
      /\ BasePort[t] <= p /\ p <= BasePort[t] + MaxOffset[t]
      /\ p \in Int
  BY Constants DEF Tried, Last
<1>2. \/ BasePort["tcp"] + MaxOffset["tcp"] < BasePort["ui"]
      \/ BasePort["ui"] + MaxOffset["ui"] < BasePort["tcp"]
  BY StartupAssumption
<1>3. s \in {"tcp", "ui"} /\ t \in {"tcp", "ui"}
  BY DEF Server
<1>4. QED
  BY <1>1, <1>2, <1>3, Constants

LEMMA Identifiers ==
  ASSUME NEW i \in Instance, NEW p \in Nat
  PROVE  Identifier(i, p) \in Id
BY Constants DEF Identifier, Id

\* A set with an element that a part of it lacks is larger than the part.
LEMMA LargerSet ==
  ASSUME NEW S, IsFiniteSet(S), NEW T, T \subseteq S,
         NEW x, x \in S, x \notin T
  PROVE  /\ Cardinality(T) \in Nat /\ Cardinality(S) \in Nat
         /\ Cardinality(S) >= Cardinality(T) + 1
<1>1. IsFiniteSet(T) /\ Cardinality(T) \in Nat /\ Cardinality(S) \in Nat
  BY FS_Subset, FS_CardinalityType
<1>2. T \cup {x} \subseteq S
  OBVIOUS
<1>3. Cardinality(T \cup {x}) = Cardinality(T) + 1
  BY <1>1, FS_AddElement
<1>4. Cardinality(T \cup {x}) <= Cardinality(S)
  BY <1>2, FS_Subset
<1>5. QED
  BY <1>1, <1>3, <1>4

\* The taken ports of an interval.
LEMMA TakenFinite ==
  ASSUME NEW h \in Host, NEW a \in Nat, NEW b \in Int
  PROVE  /\ IsFiniteSet(Taken[h] \cap a .. b)
         /\ Cardinality(Taken[h] \cap a .. b) \in Nat
<1>1. IsFiniteSet(a .. b)
  BY FS_Interval
<1>2. IsFiniteSet(Taken[h] \cap a .. b)
  BY <1>1, FS_Subset
<1>3. QED
  BY <1>2, FS_CardinalityType

LEMMA BehindFinite ==
  ASSUME NEW h, NEW s, NEW p
  PROVE  /\ IsFiniteSet(Behind(h, s, p))
         /\ Cardinality(Behind(h, s, p)) \in Nat
<1>1. Behind(h, s, p) \subseteq Instance
  BY DEF Behind
<1>2. QED
  BY <1>1, Constants, FS_Subset, FS_CardinalityType

-----------------------------------------------------------------------------
(***************************************************************************)
(* The invariant.                                                          *)
(***************************************************************************)

LEMMA InitInv == Init => StartupInv
<1> SUFFICES ASSUME Init PROVE StartupInv
  OBVIOUS
<1>1. TypeOK
  <2>1. \A i \in Instance : Identifier(i, BasePort["tcp"]) \in Id
    BY Constants, Identifiers
  <2>2. BasePort["tcp"] \in Nat /\ BasePort \in [Server -> Nat]
    BY Constants
  <2>3. QED
    BY <2>1, <2>2 DEF Init, TypeOK, Phases
<1>2. OwnName
  BY Constants DEF Init, OwnName, Named, Running
<1>3. OneHolder
  BY DEF Init, OneHolder
<1>4. LeftBehind
  BY DEF Init, LeftBehind, LeftBehindAt, Ahead
<1>5. HelloNamesPort
  BY DEF Init, HelloNamesPort
<1>6. QED
  BY <1>1, <1>2, <1>3, <1>4, <1>5 DEF StartupInv

\* Every step of a process, its end included, starts or continues a search,
\* holds a port or sends a HELLO.
LEMMA TypeNext ==
  ASSUME TypeOK, NEW i \in Instance,
         \/ Start(i) \/ Exit(i)
         \/ \E s \in Server : Listen(i, s) \/ Retry(i, s) \/ GiveUp(i, s)
         \/ SendHello(i)
  PROVE  TypeOK'
<1> USE DEF TypeOK, Phases
<1>1. CASE Start(i)
  BY <1>1 DEF Start
<1>2. CASE Exit(i)
  BY <1>2, Constants, Identifiers DEF Exit
<1>3. ASSUME NEW s \in Server, Listen(i, s) \/ Retry(i, s) \/ GiveUp(i, s)
      PROVE  TypeOK'
  <2>1. port[i]["tcp"] \in Nat /\ port[i][s] \in Nat /\ port[i][s] + 1 \in Nat
    BY Constants
  <2>2. CASE Listen(i, s)
    <3>1. currentTcpPort' \in [Instance -> Nat] /\ selfNodeId' \in [Instance -> Id]
      BY <2>1, <2>2, Identifiers DEF Listen, OnListening
    <3>2. QED
      BY <2>2, <3>1 DEF Listen
  <2>3. CASE Retry(i, s)
    <3>1. port' = [port EXCEPT ![i] = [port[i] EXCEPT ![s] = port[i][s] + 1]]
      BY <2>3 DEF Retry
    <3>2. [port[i] EXCEPT ![s] = port[i][s] + 1] \in [Server -> Nat]
      BY <2>1
    <3>3. port' \in [Instance -> [Server -> Nat]]
      BY <3>1, <3>2
    <3>4. QED
      BY <2>3, <3>3 DEF Retry
  <2>4. CASE GiveUp(i, s)
    <3>1. CASE Exit(i)
      BY <1>2, <3>1
    <3>2. CASE /\ phase' = [phase EXCEPT ![i][s] = "failed"]
               /\ UNCHANGED <<port, currentTcpPort, selfNodeId, hello>>
      BY <3>2
    <3>3. QED
      BY <2>4, <3>1, <3>2 DEF GiveUp
  <2>5. QED
    BY <1>3, <2>2, <2>3, <2>4
<1>4. CASE SendHello(i)
  BY <1>4, Constants DEF SendHello
<1>5. QED
  BY <1>1, <1>2, <1>3, <1>4

LEMMA OwnNameNext ==
  ASSUME TypeOK, OwnName, NEW i \in Instance,
         \/ Start(i) \/ Exit(i)
         \/ \E s \in Server : Listen(i, s) \/ Retry(i, s) \/ GiveUp(i, s)
         \/ SendHello(i)
  PROVE  OwnName'
<1>1. SUFFICES
        /\ Named(i)'
        /\ \A j \in Instance : j # i =>
             /\ phase'[j] = phase[j] /\ port'[j] = port[j]
             /\ currentTcpPort'[j] = currentTcpPort[j]
             /\ selfNodeId'[j] = selfNodeId[j]
  BY DEF OwnName, Named, Running
<1>2. \A j \in Instance : j # i =>
        /\ phase'[j] = phase[j] /\ port'[j] = port[j]
        /\ currentTcpPort'[j] = currentTcpPort[j]
        /\ selfNodeId'[j] = selfNodeId[j]
  BY DEF TypeOK, Start, Exit, Listen, OnListening, Retry, GiveUp, SendHello
<1>3. Named(i)
  BY DEF OwnName
<1>4. CASE Start(i)
  <2>1. phase'[i] = [s \in Server |-> "trying"]
    BY <1>4 DEF Start, TypeOK
  <2>2. UNCHANGED <<port, currentTcpPort, selfNodeId>> /\ ~Running(i)
    BY <1>4 DEF Start
  <2>3. phase[i]["tcp"] = "off"
    BY <1>3, <2>2, Constants DEF Named
  <2>4. QED
    BY <1>2, <1>3, <2>1, <2>2, Constants DEF Named, Running
<1>5. CASE Exit(i)
  <2>1. /\ phase'[i] = [s \in Server |-> "off"] /\ port'[i] = BasePort
        /\ currentTcpPort'[i] = BasePort["tcp"]
        /\ selfNodeId'[i] = Identifier(i, BasePort["tcp"])
    BY <1>5 DEF Exit, TypeOK
  <2>2. QED
    BY <1>2, <2>1, Constants DEF Named, Running
<1>6. ASSUME NEW s \in Server, Listen(i, s)
      PROVE  Named(i)'
  <2>1. /\ phase[i][s] = "trying" /\ port' = port
        /\ \A t \in Server :
             phase'[i][t] = IF t = s THEN "listening" ELSE phase[i][t]
    BY <1>6 DEF Listen, TypeOK
  <2>2. Running(i) /\ Running(i)'
    BY <1>3, <2>1, Constants DEF Named, Running
  <2>3. CASE s = "tcp"
    <3>1. /\ currentTcpPort'[i] = port[i]["tcp"]
          /\ selfNodeId'[i] = Identifier(i, port[i]["tcp"])
      BY <1>6, <2>3 DEF Listen, OnListening, TypeOK
    <3>2. QED
      BY <1>3, <2>1, <2>2, <2>3, <3>1 DEF Named
  <2>4. CASE s # "tcp"
    <3>1. UNCHANGED <<currentTcpPort, selfNodeId>>
      BY <1>6, <2>4 DEF Listen
    <3>2. phase'[i]["tcp"] = phase[i]["tcp"]
      BY <2>1, <2>4, Constants
    <3>3. QED
      BY <1>3, <2>1, <2>2, <3>1, <3>2 DEF Named
  <2>5. QED
    BY <2>3, <2>4
<1>7. ASSUME NEW s \in Server, Retry(i, s)
      PROVE  Named(i)'
  <2>1. port[i][s] + 1 \in Tried(s)
    <3>1. /\ port[i][s] \in Tried(s) /\ port[i][s] < Last(s)
          /\ Last(s) \in Nat /\ BasePort[s] \in Nat
      BY <1>3, <1>7, Constants DEF Named, Retry
    <3>2. QED
      BY <3>1 DEF Tried
  <2>2. /\ phase[i][s] = "trying"
        /\ UNCHANGED <<phase, currentTcpPort, selfNodeId>>
        /\ \A t \in Server :
             port'[i][t] = IF t = s THEN port[i][s] + 1 ELSE port[i][t]
    BY <1>7 DEF Retry, TypeOK
  <2>3. Running(i) /\ Running(i)'
    BY <1>3, <2>2 DEF Named, Running
  <2>4. phase'[i]["tcp"] = "listening" => port'[i]["tcp"] = port[i]["tcp"]
    BY <2>2, Constants
  <2>5. QED
    BY <1>3, <2>1, <2>2, <2>3, <2>4 DEF Named
<1>8. ASSUME NEW s \in Server, GiveUp(i, s), s = "tcp"
      PROVE  Named(i)'
  <2>1. /\ phase[i][s] = "trying"
        /\ UNCHANGED <<port, currentTcpPort, selfNodeId>>
        /\ \A t \in Server :
             phase'[i][t] = IF t = s THEN "failed" ELSE phase[i][t]
    BY <1>8 DEF GiveUp, TypeOK
  <2>2. Running(i) /\ Running(i)'
    BY <1>3, <1>8, <2>1, Constants DEF Named, Running
  <2>3. QED
    BY <1>3, <1>8, <2>1, <2>2, Constants DEF Named
<1>9. CASE SendHello(i)
  BY <1>3, <1>9 DEF SendHello, Named, Running
<1>10. ASSUME NEW s \in Server, GiveUp(i, s), s # "tcp"
       PROVE  Exit(i)
  BY <1>10 DEF GiveUp
<1>11. QED
  BY <1>2, <1>4, <1>5, <1>6, <1>7, <1>8, <1>9, <1>10

LEMMA OneHolderNext ==
  ASSUME TypeOK, OwnName, OneHolder, NEW i \in Instance,
         \/ Start(i) \/ Exit(i)
         \/ \E s \in Server : Listen(i, s) \/ Retry(i, s) \/ GiveUp(i, s)
         \/ SendHello(i)
  PROVE  OneHolder'
<1> USE DEF TypeOK
<1>1. ASSUME \A j \in Instance, t \in Server :
               phase'[j][t] = "listening" => phase[j][t] = "listening"
                                             /\ port'[j][t] = port[j][t]
      PROVE  OneHolder'
  BY <1>1 DEF OneHolder
<1>2. CASE Start(i)
  BY <1>1, <1>2 DEF Start
<1>3. CASE Exit(i)
  BY <1>1, <1>3 DEF Exit
<1>4. ASSUME NEW s \in Server, Listen(i, s)
      PROVE  OneHolder'
  <2>0. port' = port
    BY <1>4 DEF Listen
  <2>1. \A j \in Instance, t \in Server :
          phase'[j][t] = IF j = i /\ t = s THEN "listening" ELSE phase[j][t]
    BY <1>4 DEF Listen
  <2>2. \A j \in Instance :
          HostOf[j] = HostOf[i] /\ phase[j][s] = "listening"
            => port[j][s] # port[i][s]
    BY <1>4 DEF Listen, InUse
  <2>3. SUFFICES ASSUME NEW j \in Instance, NEW k \in Instance,
                        NEW t \in Server, j # k, HostOf[j] = HostOf[k],
                        phase'[j][t] = "listening", phase'[k][t] = "listening"
                 PROVE  port[j][t] # port[k][t]
    BY <2>0 DEF OneHolder
  <2>4. CASE t # s \/ (j # i /\ k # i)
    <3>1. phase[j][t] = "listening" /\ phase[k][t] = "listening"
      BY <2>1, <2>3, <2>4
    <3>2. QED
      BY <2>3, <3>1 DEF OneHolder
  <2>5. CASE t = s /\ j = i
    BY <2>1, <2>2, <2>3, <2>5
  <2>6. CASE t = s /\ k = i
    BY <2>1, <2>2, <2>3, <2>6
  <2>7. QED
    BY <2>4, <2>5, <2>6
<1>5. ASSUME NEW s \in Server, Retry(i, s)
      PROVE  OneHolder'
  <2>1. /\ phase[i][s] = "trying" /\ phase' = phase
        /\ \A j \in Instance, t \in Server :
             ~(j = i /\ t = s) => port'[j][t] = port[j][t]
    BY <1>5 DEF Retry
  <2>2. QED
    BY <1>1, <2>1
<1>6. ASSUME NEW s \in Server, GiveUp(i, s), s = "tcp"
      PROVE  OneHolder'
  <2>1. /\ port' = port
        /\ \A j \in Instance, t \in Server :
             phase'[j][t] = IF j = i /\ t = s THEN "failed" ELSE phase[j][t]
    BY <1>6 DEF GiveUp
  <2>2. QED
    BY <1>1, <2>1
<1>7. CASE SendHello(i)
  BY <1>1, <1>7 DEF SendHello
<1>8. QED
  BY <1>2, <1>3, <1>4, <1>5, <1>6, <1>7 DEF GiveUp

LEMMA HelloNext ==
  ASSUME OwnName, HelloNamesPort, NEW i \in Instance,
         \/ Start(i) \/ Exit(i)
         \/ \E s \in Server : Listen(i, s) \/ Retry(i, s) \/ GiveUp(i, s)
         \/ SendHello(i)
  PROVE  HelloNamesPort'
<1>1. CASE hello' = hello
  BY <1>1 DEF HelloNamesPort
<1>2. CASE SendHello(i)
  <2> DEFINE m == [id |-> selfNodeId[i], host |-> HostOf[i],
                   port |-> currentTcpPort[i]]
  <2>1. hello' = hello \cup {m}
    BY <1>2 DEF SendHello
  <2>2. m.id = Identifier(i, m.port) /\ m.host = HostOf[i]
    BY DEF OwnName, Named
  <2>3. m.id = <<m.host, m.port>> \/ \E j \in Explicit : m.id = <<j>>
    BY <2>2, Zenon DEF Identifier
  <2>4. QED
    BY <2>1, <2>3, Zenon DEF HelloNamesPort
<1>3. QED
  BY <1>1, <1>2 DEF Start, Exit, Listen, Retry, GiveUp

-----------------------------------------------------------------------------
(***************************************************************************)
(* The search.                                                             *)
(***************************************************************************)

TakenBelow(h, s, p) == Taken[h] \cap BasePort[s] .. p - 1

\* The number of ports below p that somebody on machine h answers for.
LeftBelow(h, s, p) ==
  Cardinality(Behind(h, s, p)) + Cardinality(TakenBelow(h, s, p))

\* A step that brings nobody of a server forward leaves as many behind.
LEMMA NobodyAhead ==
  ASSUME LeftBehind, NEW h \in Host, NEW s \in Server,
         NEW k \in 0 .. MaxOffset[s],
         Ahead(h, s, BasePort[s] + k)' # {},
         Ahead(h, s, BasePort[s] + k)' \subseteq Ahead(h, s, BasePort[s] + k),
         Behind(h, s, BasePort[s] + k) \subseteq Behind(h, s, BasePort[s] + k)'
  PROVE  Cardinality(Behind(h, s, BasePort[s] + k)')
           + Cardinality(TakenBelow(h, s, BasePort[s] + k)) >= k
<1> DEFINE p == BasePort[s] + k
<1>1. k \in Nat /\ p - 1 \in Int /\ p - 1 = BasePort[s] + k - 1
  BY Constants
<1>2. Cardinality(Behind(h, s, p)) + Cardinality(TakenBelow(h, s, p)) >= k
  BY <1>1 DEF LeftBehind, LeftBehindAt, TakenBelow
<1>3. IsFiniteSet(Behind(h, s, p)')
  <2>1. Behind(h, s, p)' \subseteq Instance
    BY DEF Behind
  <2>2. QED
    BY <2>1, Constants, FS_Subset
<1>4. /\ Cardinality(Behind(h, s, p)) <= Cardinality(Behind(h, s, p)')
      /\ Cardinality(Behind(h, s, p)') \in Nat
  BY <1>3, FS_Subset, FS_CardinalityType
<1>5. Cardinality(TakenBelow(h, s, p)) \in Nat
  BY <1>1, TakenFinite, Constants DEF TakenBelow
<1>6. \A a, c, d \in Nat : a + d >= k /\ a <= c => c + d >= k
  BY <1>1
<1>7. QED
  BY <1>2, <1>4, <1>5, <1>6, BehindFinite

\* The one that tries the next port leaves behind whoever holds this one.
LEMMA HolderLeft ==
  ASSUME TypeOK, OwnName, LeftBehind, NEW i \in Instance, NEW s \in Server,
         phase[i][s] = "trying", InUse(HostOf[i], port[i][s])
  PROVE  LET h == HostOf[i]
             q == port[i][s]
             B == {j \in Instance :
                     j # i /\ HostOf[j] = h
                       /\ (phase[j][s] = "off" \/ port[j][s] <= q)}
         IN /\ IsFiniteSet(B) /\ i \notin B
            /\ Cardinality(B) + Cardinality(Taken[h] \cap BasePort[s] .. q)
                 >= q - BasePort[s] + 1
<1> DEFINE h == HostOf[i]
           q == port[i][s]
           b == BasePort[s]
           B == {j \in Instance :
                   j # i /\ HostOf[j] = h
                     /\ (phase[j][s] = "off" \/ port[j][s] <= q)}
           k == q - b
<1>1. /\ h \in Host /\ q \in Nat /\ b \in Nat /\ q \in Tried(s)
      /\ k \in 0 .. MaxOffset[s] /\ b + k = q
  <2>1. h \in Host /\ b \in Nat /\ MaxOffset[s] \in Nat
    BY Constants
  <2>2. q \in Nat /\ q \in Tried(s)
    BY DEF TypeOK, OwnName, Named
  <2>3. b <= q /\ q <= b + MaxOffset[s]
    BY <2>2 DEF Tried, Last
  <2>4. QED
    BY <2>1, <2>2, <2>3
<1>2. IsFiniteSet(B) /\ Cardinality(B) \in Nat
  <2>1. B \subseteq Instance
    OBVIOUS
  <2>2. QED
    BY <2>1, Constants, FS_Subset, FS_CardinalityType
<1>3. Behind(h, s, q) \subseteq B
  <2>1. \A j \in Instance : port[j][s] \in Nat
    BY DEF TypeOK
  <2>2. i \notin Behind(h, s, q)
    BY <1>1 DEF Behind
  <2>3. QED
    BY <1>1, <2>1, <2>2 DEF Behind
<1>4. Cardinality(Behind(h, s, q))
        + Cardinality(Taken[h] \cap b .. q - 1) >= k
  <2>1. i \in Ahead(h, s, q)
    BY <1>1 DEF Ahead
  <2>2. Ahead(h, s, b + k) # {} /\ b + k - 1 = q - 1
    BY <1>1, <2>1
  <2>3. Cardinality(Behind(h, s, b + k))
          + Cardinality(Taken[h] \cap b .. b + k - 1) >= k
    BY <1>1, <2>2 DEF LeftBehind, LeftBehindAt
  <2>4. QED
    BY <1>1, <2>2, <2>3
<1>5. /\ Taken[h] \cap b .. q - 1 \subseteq Taken[h] \cap b .. q
      /\ IsFiniteSet(Taken[h] \cap b .. q)
      /\ Cardinality(Taken[h] \cap b .. q - 1) \in Nat
      /\ Cardinality(Taken[h] \cap b .. q) \in Nat
  <2>1. q - 1 \in Int /\ q \in Int /\ b .. q - 1 \subseteq b .. q
    BY <1>1
  <2>2. Cardinality(Taken[h] \cap b .. q - 1) \in Nat
    BY <1>1, <2>1, TakenFinite
  <2>3. /\ IsFiniteSet(Taken[h] \cap b .. q)
        /\ Cardinality(Taken[h] \cap b .. q) \in Nat
    BY <1>1, <2>1, TakenFinite
  <2>4. Taken[h] \cap b .. q - 1 \subseteq Taken[h] \cap b .. q
    BY <2>1
  <2>5. QED
    BY <2>2, <2>3, <2>4
<1>6. CASE q \in Taken[h]
  <2>1. q \in Taken[h] \cap b .. q /\ q \notin Taken[h] \cap b .. q - 1
    BY <1>1, <1>6
  <2>2. Cardinality(Taken[h] \cap b .. q)
          >= Cardinality(Taken[h] \cap b .. q - 1) + 1
    BY <1>5, <2>1, LargerSet
  <2>3. Cardinality(Behind(h, s, q)) <= Cardinality(B)
    BY <1>2, <1>3, FS_Subset
  <2>4. QED
    BY <1>1, <1>2, <1>4, <1>5, <2>2, <2>3, BehindFinite
<1>7. CASE \E j \in Instance, t \in Server :
             HostOf[j] = h /\ phase[j][t] = "listening" /\ port[j][t] = q
  <2>1. PICK j \in Instance, t \in Server :
          HostOf[j] = h /\ phase[j][t] = "listening" /\ port[j][t] = q
    BY <1>7
  <2>2. t = s
    <3>1. q \in Tried(t)
      BY <2>1 DEF OwnName, Named
    <3>2. QED
      BY <1>1, <3>1, RangesApart
  <2>3. j \in B /\ j \notin Behind(h, s, q)
    BY <1>1, <2>1, <2>2 DEF Behind
  <2>4. Cardinality(B) >= Cardinality(Behind(h, s, q)) + 1
    BY <1>2, <1>3, <2>3, LargerSet
  <2>5. Cardinality(Taken[h] \cap b .. q - 1)
          <= Cardinality(Taken[h] \cap b .. q)
    BY <1>5, FS_Subset
  <2>6. QED
    BY <1>1, <1>2, <1>4, <1>5, <2>4, <2>5, BehindFinite
<1>8. i \notin B
  OBVIOUS
<1>9. QED
  BY <1>2, <1>6, <1>7, <1>8 DEF InUse

LEMMA LeftBehindNext ==
  ASSUME TypeOK, OwnName, LeftBehind, NEW i \in Instance,
         \/ Start(i) \/ Exit(i)
         \/ \E s \in Server : Listen(i, s) \/ Retry(i, s) \/ GiveUp(i, s)
         \/ SendHello(i)
  PROVE  LeftBehind'
<1> SUFFICES ASSUME NEW h \in Host, NEW s \in Server,
                    NEW k \in 0 .. MaxOffset[s]
             PROVE  LeftBehindAt(h, s, k)'
  BY DEF LeftBehind
<1>0. BasePort[s] + k - 1 = (BasePort[s] + k) - 1
  BY Constants
<1> SUFFICES ASSUME Ahead(h, s, BasePort[s] + k)' # {}
             PROVE  Cardinality(Behind(h, s, BasePort[s] + k)')
                      + Cardinality(TakenBelow(h, s, BasePort[s] + k)) >= k
  BY <1>0 DEF LeftBehindAt, TakenBelow
<1> DEFINE p == BasePort[s] + k
<1>1. k \in Nat /\ BasePort[s] \in Nat /\ p \in Nat
  BY Constants
<1>2. CASE k = 0
  <2>1. Cardinality(Behind(h, s, p)') \in Nat
    <3>1. Behind(h, s, p)' \subseteq Instance
      BY DEF Behind
    <3>2. QED
      BY <3>1, Constants, FS_Subset, FS_CardinalityType
  <2>2. Cardinality(TakenBelow(h, s, p)) \in Nat
    <3>1. p - 1 \in Int
      BY <1>1
    <3>2. QED
      BY <1>1, <3>1, TakenFinite DEF TakenBelow
  <2>3. QED
    BY <1>2, <2>1, <2>2
<1>3. ASSUME \A j \in Instance :
               (phase'[j][s] = "off" \/ port'[j][s] < p)
                 <=> (phase[j][s] = "off" \/ port[j][s] < p)
      PROVE  Cardinality(Behind(h, s, p)') + Cardinality(TakenBelow(h, s, p)) >= k
  <2>1. Behind(h, s, p)' = Behind(h, s, p)
    BY <1>3 DEF Behind
  <2>2. /\ \A j \in Instance : port[j][s] \in Nat
        /\ \A j \in Instance : port'[j][s] \in Nat
    BY TypeNext DEF TypeOK
  <2>3. \A x \in Nat : x >= p <=> ~(x < p)
    BY <1>1
  <2>4. Ahead(h, s, p)' = Ahead(h, s, p)
    BY <1>3, <2>2, <2>3 DEF Ahead
  <2>5. QED
    BY <2>1, <2>4, NobodyAhead
<1>4. CASE Start(i) /\ k # 0
  <2>1. /\ ~Running(i) /\ port' = port
        /\ \A j \in Instance : j # i => phase'[j] = phase[j]
    BY <1>4 DEF Start, TypeOK
  <2>2. port[i][s] = BasePort[s] /\ phase[i][s] = "off"
    BY <2>1 DEF OwnName, Named
  <2>3. port[i][s] < p
    BY <1>1, <1>4, <2>2
  <2>4. QED
    BY <1>3, <2>1, <2>2, <2>3
<1>5. CASE Exit(i)
  <2>1. /\ \A j \in Instance : j # i =>
             phase'[j] = phase[j] /\ port'[j] = port[j]
        /\ phase'[i][s] = "off"
    BY <1>5 DEF Exit, TypeOK
  <2>2. /\ Ahead(h, s, p)' \subseteq Ahead(h, s, p)
        /\ Behind(h, s, p) \subseteq Behind(h, s, p)'
    BY <2>1 DEF Ahead, Behind
  <2>3. QED
    BY <2>2, NobodyAhead
<1>6. ASSUME NEW t \in Server,
             Listen(i, t) \/ (GiveUp(i, t) /\ t = "tcp")
      PROVE  Cardinality(Behind(h, s, p)') + Cardinality(TakenBelow(h, s, p)) >= k
  <2>1. /\ phase[i][t] = "trying" /\ port' = port
        /\ \A j \in Instance : j # i => phase'[j] = phase[j]
        /\ \A r \in Server : r # t => phase'[i][r] = phase[i][r]
        /\ phase'[i][t] \in {"listening", "failed"}
    BY <1>6 DEF Listen, GiveUp, TypeOK
  <2>2. QED
    BY <1>3, <2>1
<1>7. ASSUME NEW t \in Server, Retry(i, t)
      PROVE  Cardinality(Behind(h, s, p)') + Cardinality(TakenBelow(h, s, p)) >= k
  <2>1. /\ phase[i][t] = "trying" /\ phase' = phase
        /\ InUse(HostOf[i], port[i][t])
        /\ \A j \in Instance : j # i => port'[j] = port[j]
        /\ \A r \in Server :
             port'[i][r] = IF r = t THEN port[i][t] + 1 ELSE port[i][r]
    BY <1>7 DEF Retry, TypeOK
  <2>2. /\ port[i][t] \in Nat
        /\ \A j \in Instance : port[j][s] \in Nat
    BY DEF TypeOK
  <2>3. CASE t = s /\ HostOf[i] = h /\ p = port[i][s] + 1
    <3> DEFINE q == port[i][s]
               B == {j \in Instance :
                       j # i /\ HostOf[j] = HostOf[i]
                         /\ (phase[j][s] = "off" \/ port[j][s] <= q)}
    <3>1. /\ IsFiniteSet(B) /\ i \notin B
          /\ Cardinality(B) + Cardinality(Taken[h] \cap BasePort[s] .. q)
               >= q - BasePort[s] + 1
      BY <2>1, <2>3, HolderLeft
    <3>2. q = p - 1 /\ q - BasePort[s] + 1 = k
      BY <1>1, <2>2, <2>3
    <3>3. Behind(h, s, p)' = B
      <4>1. port'[i][s] = p /\ phase'[i][s] = "trying"
        BY <2>1, <2>3
      <4>2. i \notin Behind(h, s, p)'
        BY <1>1, <4>1 DEF Behind
      <4>3. \A j \in Instance : port[j][s] < p <=> port[j][s] <= q
        BY <1>1, <2>2, <3>2
      <4>4. QED
        BY <2>1, <2>3, <4>2, <4>3 DEF Behind
    <3>4. QED
      BY <3>1, <3>2, <3>3 DEF TakenBelow
  <2>4. CASE t = s /\ HostOf[i] = h /\ p # port[i][s] + 1
    <3>1. port[i][s] < p <=> port[i][s] + 1 < p
      BY <1>1, <2>2, <2>4
    <3>2. QED
      BY <1>3, <2>1, <2>4, <3>1
  <2>5. CASE t # s
    BY <1>3, <2>1, <2>5
  <2>6. CASE HostOf[i] # h
    <3>1. /\ Behind(h, s, p)' = Behind(h, s, p)
          /\ Ahead(h, s, p)' = Ahead(h, s, p)
      BY <2>1, <2>6 DEF Behind, Ahead
    <3>2. QED
      BY <3>1, NobodyAhead
  <2>7. QED
    BY <2>3, <2>4, <2>5, <2>6
<1>8. CASE SendHello(i)
  BY <1>3, <1>8 DEF SendHello
<1>9. ASSUME NEW t \in Server, GiveUp(i, t), t # "tcp"
      PROVE  Exit(i)
  BY <1>9 DEF GiveUp
<1>10. QED
  BY <1>2, <1>4, <1>5, <1>6, <1>7, <1>8, <1>9

LEMMA NextInv ==
  ASSUME StartupInv, [Next]_vars
  PROVE  StartupInv'
<1>1. CASE UNCHANGED vars
  BY <1>1, SMTT(30)
  DEF vars, StartupInv, TypeOK, OwnName, Named, Running, OneHolder,
      LeftBehind, LeftBehindAt, Ahead, Behind, HelloNamesPort
<1>2. CASE Next
  <2>1. PICK i \in Instance :
          \/ Start(i) \/ Exit(i)
          \/ \E s \in Server : Listen(i, s) \/ Retry(i, s) \/ GiveUp(i, s)
          \/ SendHello(i)
    BY <1>2 DEF Next, Stop
  <2>2. QED
    BY <2>1, TypeNext, OwnNameNext, OneHolderNext, LeftBehindNext, HelloNext
    DEF StartupInv
<1>3. QED
  BY <1>1, <1>2

-----------------------------------------------------------------------------
(***************************************************************************)
(* The theorems.                                                           *)
(***************************************************************************)

\* The invariant holds for any processes, machines, ports and other programs.
THEOREM StartupCorrect == Spec => []StartupInv
<1>1. StartupInv /\ [Next]_vars => StartupInv'
  BY NextInv
<1>2. QED
  BY <1>1, InitInv, PTL DEF Spec

\* Two nodes that can be reached have distinct ids (deriveInstanceNodeId, and
\* onListening, which derives the id again).
THEOREM IdsDistinct == Spec => []DistinctIds
<1>1. StartupInv => DistinctIds
  <2> SUFFICES ASSUME StartupInv, NEW i \in Instance \ Explicit,
                      NEW j \in Instance \ Explicit, i # j,
                      phase[i]["tcp"] = "listening",
                      phase[j]["tcp"] = "listening"
               PROVE  selfNodeId[i] # selfNodeId[j]
    BY DEF DistinctIds
  <2>1. /\ selfNodeId[i] = <<HostOf[i], port[i]["tcp"]>>
        /\ selfNodeId[j] = <<HostOf[j], port[j]["tcp"]>>
    BY DEF StartupInv, OwnName, Named, Identifier
  <2>2. HostOf[i] = HostOf[j] => port[i]["tcp"] # port[j]["tcp"]
    BY Constants DEF StartupInv, OneHolder
  <2>3. QED
    BY <2>1, <2>2
<1>2. QED
  BY <1>1, StartupCorrect, PTL

\* What is announced under the id of a node that can be reached leads to it
\* (buildDiscoveryPacket, sent before and after the port is known).
THEOREM HellosLeadToOwner == Spec => []HelloLeadsToOwner
<1>1. StartupInv => HelloLeadsToOwner
  <2> SUFFICES ASSUME StartupInv, NEW m \in hello,
                      NEW i \in Instance \ Explicit,
                      phase[i]["tcp"] = "listening", selfNodeId[i] = m.id
               PROVE  m.host = HostOf[i] /\ m.port = port[i]["tcp"]
    BY DEF HelloLeadsToOwner
  <2>1. m.id = <<HostOf[i], port[i]["tcp"]>>
    BY DEF StartupInv, OwnName, Named, Identifier
  <2>2. m.id = <<m.host, m.port>>
    <3>1. \A j \in Explicit : m.id # <<j>>
      BY <2>1
    <3>2. QED
      BY <3>1 DEF StartupInv, HelloNamesPort
  <2>3. QED
    BY <2>1, <2>2
<1>2. QED
  BY <1>1, StartupCorrect, PTL

\* A search fails only on a machine with fewer ports than processes and other
\* programs that want them, however many are stopped and started meanwhile.
THEOREM EnoughPorts == Spec => []PortsSuffice
<1>1. StartupInv => PortsSuffice
  <2> SUFFICES ASSUME StartupInv, NEW i \in Instance, NEW s \in Server,
                      phase[i][s] = "trying", InUse(HostOf[i], port[i][s]),
                      port[i][s] >= Last(s)
               PROVE  Cardinality({j \in Instance : HostOf[j] = HostOf[i]})
                        + Cardinality(Taken[HostOf[i]] \cap Tried(s))
                        > MaxOffset[s] + 1
    BY DEF PortsSuffice
  <2> DEFINE h == HostOf[i]
             q == port[i][s]
             On == {j \in Instance : HostOf[j] = h}
             B == {j \in Instance :
                     j # i /\ HostOf[j] = h
                       /\ (phase[j][s] = "off" \/ port[j][s] <= q)}
  <2>1. /\ h \in Host /\ BasePort[s] \in Nat /\ MaxOffset[s] \in Nat
        /\ q \in Tried(s)
    BY Constants DEF StartupInv, OwnName, Named
  <2>2. q = Last(s) /\ Last(s) \in Nat
        /\ q - BasePort[s] + 1 = MaxOffset[s] + 1
    BY <2>1 DEF Tried, Last
  <2>3. /\ IsFiniteSet(B) /\ i \notin B
        /\ Cardinality(B) + Cardinality(Taken[h] \cap BasePort[s] .. q)
             >= q - BasePort[s] + 1
    BY HolderLeft DEF StartupInv
  <2>4. /\ Cardinality(B) \in Nat /\ Cardinality(On) \in Nat
        /\ Cardinality(On) >= Cardinality(B) + 1
    <3>1. B \subseteq On /\ i \in On /\ On \subseteq Instance
      OBVIOUS
    <3>2. IsFiniteSet(On)
      BY <3>1, Constants, FS_Subset
    <3>3. QED
      BY <2>3, <3>1, <3>2, LargerSet
  <2>5. /\ Taken[h] \cap Tried(s) = Taken[h] \cap BasePort[s] .. q
        /\ Cardinality(Taken[h] \cap BasePort[s] .. q) \in Nat
    <3>1. Tried(s) = BasePort[s] .. q /\ q \in Int
      BY <2>2 DEF Tried
    <3>2. Cardinality(Taken[h] \cap BasePort[s] .. q) \in Nat
      BY <2>1, <3>1, TakenFinite
    <3>3. QED
      BY <3>1, <3>2
  <2>6. \A a, c, d, e \in Nat :
          a + c >= e + 1 /\ d >= a + 1 => d + c > e + 1
    OBVIOUS
  <2>7. Cardinality(On) + Cardinality(Taken[h] \cap BasePort[s] .. q)
          > MaxOffset[s] + 1
    BY <2>1, <2>2, <2>3, <2>4, <2>5, <2>6
  <2>8. QED
    BY <2>5, <2>7
<1>2. QED
  BY <1>1, StartupCorrect, PTL
=============================================================================
