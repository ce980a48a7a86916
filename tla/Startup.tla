------------------------------ MODULE Startup ------------------------------
(***************************************************************************)
(* The start of several instances of the node on a few machines (the end   *)
(* of index.js, startTcpServer of src/network/server.js).  Each looks for  *)
(* a free port for its TCP server and one for its dashboard, from the      *)
(* configured one up, and may announce itself before it has found them.    *)
(*                                                                         *)
(* The id of a node is derived from its key, its machine and its TCP port; *)
(* the key is in the repository and the same everywhere, and the tag of    *)
(* the machine (NODE_INSTANCE, or the host's name) tells machines apart.   *)
(* The hash is its argument: what is said of ids holds unless it collides. *)
(***************************************************************************)
EXTENDS Naturals, FiniteSets

CONSTANTS
  Instance,   \* processes, which may be stopped and started again
  Host,       \* machines
  HostOf,     \* where each process runs
  Explicit,   \* the processes that were given a NODE_ID
  BasePort,   \* TCP_PORT and UI_PORT
  MaxOffset,  \* how many more ports each server tries (20)
  Taken       \* the ports other programs hold on each machine

Server == {"tcp", "ui"}

ASSUME StartupAssumption ==
  /\ IsFiniteSet(Instance)
  /\ HostOf \in [Instance -> Host]
  /\ Explicit \subseteq Instance
  /\ BasePort \in [Server -> Nat]
  /\ MaxOffset \in [Server -> Nat]
  /\ \/ BasePort["tcp"] + MaxOffset["tcp"] < BasePort["ui"]
     \/ BasePort["ui"] + MaxOffset["ui"] < BasePort["tcp"]
  /\ Taken \in [Host -> SUBSET Nat]

VARIABLES
  phase,           \* what each server of a process does
  port,            \* the port it holds or tries next (currentPort, uiPort)
  currentTcpPort,  \* the port a process announces
  selfNodeId,      \* the id it announces
  hello            \* the HELLO datagrams that were sent

vars == <<phase, port, currentTcpPort, selfNodeId, hello>>

\* deriveInstanceNodeId, or NODE_ID.
Identifier(i, p) == IF i \in Explicit THEN <<i>> ELSE <<HostOf[i], p>>

Phases == {"off", "trying", "listening", "failed"}

Id == (Host \X Nat) \cup {<<i>> : i \in Instance}

TypeOK ==
  /\ phase \in [Instance -> [Server -> Phases]]
  /\ port \in [Instance -> [Server -> Nat]]
  /\ currentTcpPort \in [Instance -> Nat]
  /\ selfNodeId \in [Instance -> Id]
  /\ hello \subseteq [id : Id, host : Host, port : Nat]

Init ==
  /\ phase = [i \in Instance |-> [s \in Server |-> "off"]]
  /\ port = [i \in Instance |-> BasePort]
  /\ currentTcpPort = [i \in Instance |-> BasePort["tcp"]]
  /\ selfNodeId = [i \in Instance |-> Identifier(i, BasePort["tcp"])]
  /\ hello = {}

-----------------------------------------------------------------------------
(***************************************************************************)
(* A process.                                                              *)
(***************************************************************************)

Running(i) == phase[i]["ui"] # "off"

\* index.js from top to bottom: both servers start to look for a port.
Start(i) ==
  /\ ~Running(i)
  /\ phase' = [phase EXCEPT ![i] = [s \in Server |-> "trying"]]
  /\ UNCHANGED <<port, currentTcpPort, selfNodeId, hello>>

\* The process ends, and with it all it held; the next one starts afresh.
Exit(i) ==
  /\ phase' = [phase EXCEPT ![i] = [s \in Server |-> "off"]]
  /\ port' = [port EXCEPT ![i] = BasePort]
  /\ currentTcpPort' = [currentTcpPort EXCEPT ![i] = BasePort["tcp"]]
  /\ selfNodeId' =
       [selfNodeId EXCEPT ![i] = Identifier(i, BasePort["tcp"])]
  /\ UNCHANGED hello

Stop(i) == Running(i) /\ Exit(i)

\* EADDRINUSE: somebody on machine h holds port p.
InUse(h, p) ==
  \/ p \in Taken[h]
  \/ \E j \in Instance, t \in Server :
       HostOf[j] = h /\ phase[j][t] = "listening" /\ port[j][t] = p

\* Mutant of OnListening: the id stays that of the configured port.
OnListeningKeepId(i) ==
  /\ currentTcpPort' = [currentTcpPort EXCEPT ![i] = port[i]["tcp"]]
  /\ UNCHANGED selfNodeId

\* The handler startTcpServer is given for the listening event.
OnListening(i) ==
  /\ currentTcpPort' = [currentTcpPort EXCEPT ![i] = port[i]["tcp"]]
  /\ selfNodeId' =
       [selfNodeId EXCEPT ![i] = Identifier(i, port[i]["tcp"])]

\* server.listen succeeds.
Listen(i, s) ==
  /\ phase[i][s] = "trying"
  /\ ~InUse(HostOf[i], port[i][s])
  /\ phase' = [phase EXCEPT ![i][s] = "listening"]
  /\ IF s = "tcp" THEN OnListening(i)
                  ELSE UNCHANGED <<currentTcpPort, selfNodeId>>
  /\ UNCHANGED <<port, hello>>

\* Mutant of Last: one port fewer.
LastButOne(s) == BasePort[s] + MaxOffset[s] - 1

Last(s) == BasePort[s] + MaxOffset[s]

\* EADDRINUSE: 200 ms later the next port is tried.
Retry(i, s) ==
  /\ phase[i][s] = "trying"
  /\ InUse(HostOf[i], port[i][s])
  /\ port[i][s] < Last(s)
  /\ port' = [port EXCEPT ![i][s] = @ + 1]
  /\ UNCHANGED <<phase, currentTcpPort, selfNodeId, hello>>

\* EADDRINUSE for the last port: without a dashboard the process ends, without
\* a TCP server it goes on.
GiveUp(i, s) ==
  /\ phase[i][s] = "trying"
  /\ InUse(HostOf[i], port[i][s])
  /\ port[i][s] >= Last(s)
  /\ \/ /\ s = "tcp"
        /\ phase' = [phase EXCEPT ![i][s] = "failed"]
        /\ UNCHANGED <<port, currentTcpPort, selfNodeId, hello>>
     \/ /\ s = "ui"
        /\ Exit(i)

\* Mutant of SendHello: the first timer only, no interval.
SendHelloOnce(i) ==
  /\ Running(i)
  /\ \A m \in hello : m.host # HostOf[i]
  /\ hello' = hello \cup {[id |-> selfNodeId[i], host |-> HostOf[i],
                           port |-> currentTcpPort[i]]}
  /\ UNCHANGED <<phase, port, currentTcpPort, selfNodeId>>

\* sendHello: 300 ms after the start, every 30 s, or when a dashboard asks for
\* a scan, whatever has become of the TCP server.
SendHello(i) ==
  /\ Running(i)
  /\ hello' = hello \cup {[id |-> selfNodeId[i], host |-> HostOf[i],
                           port |-> currentTcpPort[i]]}
  /\ UNCHANGED <<phase, port, currentTcpPort, selfNodeId>>

Next ==
  \E i \in Instance :
    \/ Start(i)
    \/ Stop(i)
    \/ \E s \in Server : Listen(i, s)
    \/ \E s \in Server : Retry(i, s)
    \/ \E s \in Server : GiveUp(i, s)
    \/ SendHello(i)

Spec == Init /\ [][Next]_vars

-----------------------------------------------------------------------------
(***************************************************************************)
(* Safety.                                                                 *)
(***************************************************************************)

\* Two nodes that can be reached never have the same derived id, on one
\* machine or on two, although all of them start with the same key and port.
DistinctIds ==
  \A i, j \in Instance \ Explicit :
    /\ i # j
    /\ phase[i]["tcp"] = "listening" /\ phase[j]["tcp"] = "listening"
    => selfNodeId[i] # selfNodeId[j]

\* Whoever sent it, and however early or late, a HELLO with the derived id of
\* a node that can be reached names that node's address: what a process
\* announces before it has a port leads nobody astray.
HelloLeadsToOwner ==
  \A m \in hello, i \in Instance \ Explicit :
    phase[i]["tcp"] = "listening" /\ selfNodeId[i] = m.id
      => m.host = HostOf[i] /\ m.port = port[i]["tcp"]

Tried(s) == BasePort[s] .. Last(s)

\* A server gives up only where the processes of its machine and the ports
\* others hold are more than the ports it tries: stopping and restarting its
\* neighbours while it searches does not make it miss a free port for good.
PortsSuffice ==
  \A i \in Instance, s \in Server :
    /\ phase[i][s] = "trying" /\ InUse(HostOf[i], port[i][s])
    /\ port[i][s] >= Last(s)
    => Cardinality({j \in Instance : HostOf[j] = HostOf[i]})
         + Cardinality(Taken[HostOf[i]] \cap Tried(s)) > MaxOffset[s] + 1

(***************************************************************************)
(* The inductive invariant behind these properties.                        *)
(***************************************************************************)

\* The processes of machine h whose server s tries or holds port p or a higher
\* one, and those that are behind it.
Ahead(h, s, p) ==
  {j \in Instance : HostOf[j] = h /\ phase[j][s] # "off" /\ port[j][s] >= p}

Behind(h, s, p) ==
  {j \in Instance :
     HostOf[j] = h /\ (phase[j][s] = "off" \/ port[j][s] < p)}

\* Who has come as far as a port has left a process, or another program,
\* behind for every port below.
LeftBehindAt(h, s, k) ==
  Ahead(h, s, BasePort[s] + k) # {}
    => Cardinality(Behind(h, s, BasePort[s] + k))
         + Cardinality(Taken[h] \cap BasePort[s] .. BasePort[s] + k - 1)
       >= k

LeftBehind ==
  \A h \in Host, s \in Server : \A k \in 0 .. MaxOffset[s] :
    LeftBehindAt(h, s, k)

\* A port has one holder.
OneHolder ==
  \A i, j \in Instance, s \in Server :
    /\ i # j /\ HostOf[i] = HostOf[j]
    /\ phase[i][s] = "listening" /\ phase[j][s] = "listening"
    => port[i][s] # port[j][s]

\* A process is what its TCP server made of it.
Named(i) ==
  /\ \A s \in Server : phase[i][s] = "off" <=> ~Running(i)
  /\ \A s \in Server : port[i][s] \in Tried(s)
  /\ ~Running(i) => port[i] = BasePort
  /\ selfNodeId[i] = Identifier(i, currentTcpPort[i])
  /\ phase[i]["tcp"] = "listening" => currentTcpPort[i] = port[i]["tcp"]

OwnName == \A i \in Instance : Named(i)

\* A HELLO names the port its id is derived from.
HelloNamesPort ==
  \A m \in hello :
    \/ m.id = <<m.host, m.port>>
    \/ \E i \in Explicit : m.id = <<i>>

StartupInv ==
  /\ TypeOK
  /\ OwnName
  /\ OneHolder
  /\ LeftBehind
  /\ HelloNamesPort

-----------------------------------------------------------------------------
(***************************************************************************)
(* Liveness: the interval of the announcements goes on.                    *)
(***************************************************************************)

FairSpec == Spec /\ \A i \in Instance : WF_vars(SendHello(i))

\* A node that can be reached announces its own id and port sooner or later,
\* whatever it announced before.
AnnouncesItself ==
  \A i \in Instance :
    phase[i]["tcp"] = "listening" ~>
      \/ ~Running(i)
      \/ [id |-> Identifier(i, port[i]["tcp"]), host |-> HostOf[i],
          port |-> port[i]["tcp"]] \in hello
=============================================================================
