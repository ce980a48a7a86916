# Archipel: a verification of the local network node

Archipel is a chat node for a local network without Internet. A Node.js process
(`index.js`, with `src/network/server.js`) discovers its neighbours by UDP multicast,
opens authenticated and encrypted sessions with them over TCP, carries texts between
users, and serves a dashboard (`src/ui`). A second, optional node is written in Python
(`src/network/multicast.py`). This directory holds TLA+ models of that code, the TLC
runs that check them, and theorems about them that TLAPS proves.

Paths below are relative to the repository's root.

## 1. Inventory

| Part | State it keeps | Operations | What is hard |
|---|---|---|---|
| **Secure sessions** (`index.js` 198-234, 427-458, 511-763, 803-832) | the Maps `sessions`, `pendingHandshakes`, `pendingMessages`, `handshakeWaiters`, one context per socket | four-frame handshake (HELLO, HELLO_REPLY, AUTH, AUTH_OK), store a session, queue / flush / send / receive a text, CONNECT and its 8 s timer | both nodes dial at once; close events that come late; a connection per text, so nothing is ordered; expiry of a peer in mid-handshake; crashes; two browsers |
| **Message cryptography** (`index.js` 125-196) | none | X25519, HKDF, AES-GCM + HMAC, Ed25519 | which key opens what |
| **Peer table and discovery** (`index.js` 250-425, `server.js` 23-34) | the Map `peers` with `last_seen`, `peers.json` | HELLO / PING / PONG datagrams, peer lists over TCP, expiry after 90 s | lost datagrams, stale lists, entries without an address, a dead peer kept alive by gossip |
| **TLV framing** (`server.js` 14-21, 52-94, `index.js` 524-534) | a byte buffer per socket | encode, decode, keep-alive | frames cut anywhere, the 1 MiB limit |
| **Reachability test** (`index.js` 460-509, 782-801) | a promise and a timer | PING over TCP | timer against answer against error |
| **Start-up** (`index.js` 66-123, 397-411, 839-854, `server.js` 96-108) | ports, the node's id | retry on a busy port, derive the id from the port | discovery starts before the port is known |
| **Dashboard** (`src/ui/script.js`) | the browser's copy of the peer table, its own expiry | socket.io events both ways | what it missed while disconnected |
| **Python node** (`src/network/multicast.py`) | dictionaries shared by threads, `peers_py.json` | the same protocol, one thread per connection | check-then-act on shared dictionaries, snapshot and write, session stored before AUTH_OK |
| **Python crypto, identity tool** (`src/crypto`, `src/identity/la_cle.py`) | the key file | pure functions | - |
| **Unused modules** (`src/network/peers.js`, `discovery.js`, `packet.js`) | - | required by nothing | - |

How they interact: a HELLO datagram or a peer list calls `upsertPeer`, which starts a
handshake; a handshake's end calls `storeSession`, which answers the waiting browser and
flushes the queue; the dashboard's events call `connect_peer` and `send_encrypted`, which
start handshakes too; the timer of expiry removes peers under all of them. Everything
runs on one event loop per node, so a handler is atomic and everything between handlers
is not.

## 2. What is modelled

### `Session` - the sessions of a set of nodes

One VARIABLE per Map of `index.js`, as a function from the node to its Map, and one per
attribute of a connection. One action per handler, with everything the handler calls:

| Code | Definition |
|---|---|
| `upsertPeer`, `registerPeerKey`, `cleanStalePeers` | `UpsertPeer`, `RegisterPeerKey`, `CleanStalePeers` |
| `initiateHandshake`, `cleanupPendingHandshake`, `socket.destroy` | `InitiateHandshake`, `CleanupPendingHandshake`, `Destroy` |
| `sendHelloHandshake` (connect event) | `SendHelloHandshake` |
| `respondToHello`, `respondToAuth` | `RespondToHello`, `RespondToAuth` |
| `handleHelloReply`, `handleAuthOk` | `HandleHelloReply`, `HandleAuthOk` |
| the error and close events of the initiator's socket | `SocketError`, `PeerClosed`, `SocketClose` |
| `storeSession`, `flushPendingMessages` and the greeting | `StoreSession` |
| `sendEncryptedMessage` (from the dashboard) | `SendEncryptedMessage` |
| `handleServerEncryptedMessage`, `decryptMessage` | `HandleServerEncryptedMessage`, `Opens` |
| a text's connection fails | `LoseMessage` |
| `connect_peer` and its timer | `ConnectPeer`, `ConnectTimeout` |
| the process ends and starts again | `Restart` |

Abstractions. A connection is `<<initiator, k>>`; the ephemeral keys of both sides are
fresh for it, so its identity stands for the secret, the session key and the HMAC key. A
signature is good unless the signer's key file holds the public key of another pair
(`BadKey`; `buildSigningIdentity` takes the announced key from the file). An address is
the set of nodes it may reach (`Routes`): several nodes for a recycled lease, a loopback
address learnt from a neighbour, or the address `onPeerList` substitutes for a missing
one. At most one handshake frame is in flight on a connection, since each side answers
the frame before. Encrypted texts are a set, not a queue, because each one has a TCP
connection of its own. Expiry may hit any peers at any moment: when it does is the
subject of discovery, not of the sessions. `Restart` keeps the id: it is derived from the
key file, the port and the host name. `peers.json` is written on every change and read
by nothing, so a restart loses everything.

`Browsers` says which browsers have the dashboard of which node open. `asked` holds those
that clicked CONNECT and have had no `connect_status` since.

`keyed`, `served` and `severed` are the connection contexts (session derived on the
initiator's side, on the responder's side, responder gone); `accepted`, `sent`, `read`
and `asked` are history.

Left out: malformed frames and payloads (both ends run this code), the wording of log
lines, `lastHandshake`, trust labels, reputation, empty texts, a browser that
disconnects, and failures of `fs.writeFileSync`.

### `Mailbox` and `SessionMailbox` - what a text's sender may rely on

`Mailbox` is the promise: a text is accepted once, travels or waits, a queue leaves as a
whole, and what travelled is read or lost and never sent again. `SessionMailbox` maps the
tables and the network of `Session` to it. TLC checks `ImplementsMailbox` for one text;
`SessionMailboxProofs` proves it for any number, hence for queues of several texts.

### `PeerEntries` - what a table of peers promises

The Map `peers` of a node appears in three modules, each with what its subject needs of
it: hosts in `Session`, ages in `PeerTable`, what the browser is told in `Dashboard`.
`PeerEntries` is the interface between them. An entry is an address, `NoAddr` or `None`;
`upsertPeer` puts an address (`Learn`), `registerPeerKey` makes an entry without one where
there is none (`Register`), `cleanStalePeers` and the end of the process remove entries
(`Forget`). So an address never gives way to `NoAddr`: what `sendEncryptedMessage` and
CONNECT read after a handshake is what they read before, unless the peer expired. Each of
the three modules maps its table to `entry` and is proved to implement it
(`ImplementsPeerEntries`; two runs check it too).

### `PeerTable` - discovery, in time

The tables of peers of a set of nodes, the HELLO datagrams and peer lists that fill them,
and the age that empties them. `Session` takes any change of the table as possible at any
moment; `PeerTable` is about when and why it changes.

| Code | Definition |
|---|---|
| `upsertPeer` for the addresses in `known`, `currentPeerList` | `UpsertPeer`, `CurrentPeerList` (with `Ips`) |
| `registerPeerKey` for an unknown peer (a handshake reached the node) | `RegisterPeerKey` |
| `cleanStalePeers` and its timer | `Stale`, `CleanStalePeers` |
| `sendHello` by its timers, by `request_scan` | `SendHello`, `RequestScan` |
| the radar's HELLO handler, with the list it returns | `ReceiveHello` |
| `onPeerList` | `Told`, `ReceiveList` |
| a lost datagram; `sendPeerList` gives up, or is refused | `LoseHello`; `LoseList`, `ListRefused` |
| a process ends, starts; DHCP moves a machine | `Stop`, `Start`, `Move` |
| 30 s pass | `Tick` |

Time is counted in announcement periods. In a period each running node sends one HELLO
and everything in flight arrives or is lost, in any order and with any overlap: a node may
announce itself while the lists of another one's announcement are on their way. What takes
longer than a period (`sendPeerList` gives up after 3 s) does not happen. `last_seen` is the age of an entry in
periods and `PEER_TTL_MS` is `TTL = 3`; "more than 90 s" is "more than three periods". The
10 s expiry timer runs in each period, before or after any message.

An address stands for a host and port, every node listening on the port of its own host
(`onPeerList` and `registerPeerKey` default to 7777). The handshake that lets
`registerPeerKey` run is one step here, possible whenever one of the two nodes has an
address that reaches the other. Left out: PING and PONG datagrams, which change no state;
lists that are not arrays or name no id. A node may dial itself, where it has its own
address for somebody else, and then lists itself: `registerPeerKey` does not look at
`selfNodeId`. That entry has no address and never gets one, since `upsertPeer` does look,
and `currentPeerList` leaves it out. One bound, `MaxUpsets`, limits what is out of the
ordinary, all kinds together: losses, moves, restarts, scans and handshakes of two nodes
that do not list each other (a node's handshake with itself is not counted). `silent`, `held` and `met` are history.

### `Framing` - one direction of a TCP connection

Frames of five bytes of header and a payload are written one after the other, the network
delivers the bytes in pieces of any size, and the reader's `data` handler takes frames out
of its buffer. Bytes are counted, not stored: the stream knows where each frame starts,
and a reader that looks for a header anywhere else may find any header. One iteration of
the handler's loop is one step, and nothing else happens at this end meanwhile.

| Code | Definition |
|---|---|
| `encodeFrame` and `socket.write` | `Write` |
| a `data` event | `Data` |
| an iteration that takes a frame; the end of the loop; the 1 MiB test | `Handle`, `Take`; `Pause`; `TooLong`, `Refuse` |

### `Connection` - a connection with its two ends

Each of the four reasons to connect to a node's server (a handshake, a PING, a peer list, a
text), with the client's and the server's socket and two instances of `Framing`, `Up` with
the server's limit and `Down` with none but that of a 32-bit length. What the frames of a
handshake mean is left to `Session`.

| Code | Definition |
|---|---|
| the connect handlers, and `end()` of lists and texts | `Connect` |
| `tcpPingPeer`: data, `finishOk` / `finishErr`, timer | `ClientData`, `PingHandle`, `Settle`, `PingTimeout` |
| `handleInitiatorData` | `ClientData`, `ClientPause`, `HandshakeHandle` |
| error and end of the client's socket; `sendPeerList`'s timeout | `ClientError`, `ClientEnd`; `ListTimeout` |
| the server's data handler, its keep-alive timer, the end of its socket | `ServerData`, `ServerPause`, `ServerHandle`, `ServerRefuse`; `KeepAlive`; `ServerEnd` |
| the server's process ends | `ServerStop` |

### `Startup` - processes that look for their ports

Several processes on several machines, each with a TCP server and a dashboard that go up
from their configured ports. `Retry` and `GiveUp` are the handlers of EADDRINUSE, `Listen`
the listening event (`OnListening` for TCP), `SendHello` the announcements, which start
after 300 ms whatever the servers do, `Stop` and `Start` any process at any moment. The id
is `deriveInstanceNodeId` of a key that comes with the repository and is the same
everywhere, the host's tag and the port: it is modelled as the pair of the last two.
Assumed: tags differ between machines, and no two of these pairs have the same hash.
An error other than EADDRINUSE ends a search as its last port does.

### `Dashboard` - what the browser shows

The node's table and the browser's copy (`peers` of `script.js`), the Socket.IO channel
between them, and the two clocks that expire entries.

| Code | Definition |
|---|---|
| `upsertPeer` and its `peer_detected`; `registerPeerKey`, which emits nothing | `UpsertPeer`; `RegisterPeerKey` |
| `cleanStalePeers` and its `peer_timeout` events | `CleanStalePeers`, `Stale`, `Orders` |
| `io.on('connection')` and its `peer_table` | `Connect` |
| the browser's handlers of these three events | `HandleEvent` |
| the browser's 15 s sweep; CLEAR | `Sweep`, `Inactive`; `Clear` |
| the connection breaks; the node ends | `Disconnect`; `Restart` |
| time | `Tick` |

Each of the two timers runs when its period is over or later (`MaxLate` bounds by how
much, for TLC): `setInterval` promises no more. The clocks of the two machines run at one
speed. An event is a function from the peers it is about to what it says of them. Events in
flight when the connection breaks are lost, those of a connection arrive in order. Log
lines, markup and the `connect` / `disconnect` badge are left out; what the buttons ask of
the node is in the other modules. `followed` is history: the peers of which the browser
was told on this connection, up to the last thing that happened to their entry.

### Definitions that no run uses as they are

An operator whose comment starts with "Mutant of" is a plausible slip in the code (a
missing test, a cleanup that forgets half of its work). Substituting it for the
definition it names makes TLC find a property violated; it shows that the property
depends on that code.

## 3. Runs

The runs of `Session` use 2 nodes, except `session_strangers`. Two connections per node
(`MaxConn`) allow a failed attempt and its retry on both sides, and two handshakes that
cross; one failure or one restart hits each of the points where one can. `session_safety`
allows three dials and one failure in all (`Bounds`, a state constraint): a crossing with
another attempt, broken anywhere. One text is
enough for the properties of one text (they compare places of the same text); what several
texts do is proved. `CHECK_DEADLOCK FALSE` where everything may be over: with the bounds
used up and everyone connected, or a connection closed, nothing has to happen any more.
`dashboard` and `startup` check for deadlock.

| Run | Shows |
|---|---|
| `session_safety` | types; nothing waits behind a session; a text has one fate; every live socket is registered; a registered attempt advances (`AttemptsAdvance`); no initiator is alone with its session (`NoHalfTunnel`); what can go wrong while nothing fails (`DisagreementIsCrossing`, `TextsOpen`) and the inductive invariant of the proofs (`DeliveryInv`); each step is one of `Mailbox`. With greetings, a browser, and one failure, a broken connection or a crash and restart of either node |
| `session_strangers` | three nodes, one connection each: the address of `n1` may lead to `n3`, which was given it later (to `n3` itself too, which then dials itself), and `n2` announces a key that is not its own. Sessions are with whoever answered, none is with the wrong key, and only the addressee opens a text |
| `session_progress` | liveness, with one failed connection and two browsers at one node: a queue does not stay for ever, and the last browser to click CONNECT is answered (`LastAskedIsAnswered`); a waiting browser loses its place untold only to the other's click (`WaiterIsTold`); a queue is dropped only where the address is missing (`DroppedIsUnaddressed`); the tables implement `PeerEntries` |
| `discovery` | three nodes, so that lists about a third node are copied, and one thing out of the ordinary anywhere (a loss, a move, a restart, a scan, a handshake); `TTL` = 1, the least, so that entries expire within it: types, no node has an address for itself, a peer that is heard stays listed, where addresses come from, the tables implement `PeerEntries`; liveness: all running nodes end up listing each other, and a right address always comes back (`AddressesRecover`) |
| `dashboard` | two peers, one address, restarts, lost connections and CLEAR at any moment, at most two events in flight; clocks scaled to `NodeTTL` 1, `NodePeriod` 1, `UiTTL` 2, `UiPeriod` 1, which keep the code's equality 90 s + 10 s = 100 s, and timers up to one unit late: once all events are handled, the browser shows of each peer what the node last said of it, or has dropped the card of an entry that the node's late sweep should have removed (`ViewFollowsTable`); a card the node no longer stands for goes (`GhostsVanish`), at the latest `UiTTL`, one `UiPeriod` and the lateness of the sweep after the last event about its peer (`CardsExpire`: 115 s in the code, if it is punctual) |
| `connection` | one connection of each kind, payloads of 0, 1 and 2 bytes against a limit of 1, any cutting of up to 14 bytes, two keep-alive frames and one failure: decoding, the bound of the server's buffer, PING answered means answered, the end of a text's connection takes no byte of it away (`EndLosesNothing`), both directions refine `Framing`; liveness: a PING settles, a text within the limit reaches the server's handler |
| `startup` | three processes on a machine with three TCP ports and one dashboard port, one with a `NODE_ID` on a machine where all ports are taken; any order of starts, stops, searches and announcements: ids distinct, announcements lead to their owner, a search fails only for want of ports; liveness: a node announces its own address |

Fairness of the sessions. `UpsertPeer` is weakly fair because nodes announce themselves every 30 s and a
datagram is not lost for ever; the steps of a connection are, because TCP delivers what
it accepted unless the connection fails, and failures are counted (`MaxErrors`);
`ConnectTimeout` is, because it is a timer. Nothing makes a text arrive, a connection
fail, or a node notice that the other end is gone: `initiateHandshake` sets no timeout
and no keep-alive, so `PeerClosed` is not fair, and the liveness runs have no restart.
`FairSpec` also assumes `PromptClose`: the close event of a destroyed socket, which
follows within milliseconds, comes before the node opens its next connection. Without it
each late close event could fell the attempt after it (`teardown` looks only at the
peer's id), and no retry would be guaranteed to succeed.

`LastAskedIsAnswered` and `ConnectAnswered` take it that a browser's timer expires: a user
who clicks CONNECT again within its 8 s starts it anew.

Fairness of discovery. `PeriodStep` is weakly fair: timers fire, and what is sent and not
lost arrives. Nothing orders the announcements of different nodes, and so `AddressesRecover`
promises no more than that the right address of a peer comes back, for ever again: the peer's
own HELLO brings it once a period. That it stays is not true. TLC finds, with three nodes and
nothing out of the ordinary but one handshake, that a wrong address (the substitute for a
missing one) survives by being copied from one node to another and back, when in every
period each announcement overtakes the list that the other one causes. Nodes whose timers
run in step, because they were started together, are exposed to that.

Fairness of a connection. The network delivers while both sockets live and the loops go
on (event loop); the PING timer expires. Nothing makes a server answer, a client notice
that the other end is gone, or a keep-alive frame leave. Fairness of the dashboard: time
passes, both intervals run, and what was emitted arrives unless the connection breaks.
Fairness of start-up: only the interval of announcements; searches and processes owe
nothing.

### Disagreements between the code and what it says

| Run | What TLC finds |
|---|---|
| `crossing_handshakes` | Two nodes that discover each other at the same time run two handshakes; each may store the session of its own handshake last. At rest both show "tunnel established", no message of either opens, and CONNECT answers `reused` for ever |
| `text_overtakes_auth_ok` | The responder announces the session together with sending AUTH_OK; a text sent then, on another connection, is handled first and dropped, although the user waited for the session as the documentation advises |
| `flush_drops_queue` | The peer expires while its queue waits for the handshake; `registerPeerKey` recreates it without an address; `flushPendingMessages` deletes the queue and ignores the refusals |
| `dead_peer_gossip` | With three nodes a stopped one is never forgotten: the other two answer each other's HELLO with lists that contain it, and `upsertPeer` takes a copied entry for a sign of life |
| `second_browser` | There is one waiter per peer: a second browser's click on CONNECT replaces the first one's and clears its timer. When the handshake does not complete (in the run: the peer cannot sign for its key), the first browser is told nothing, not even of the timeout. When it does complete, every browser gets `session_ready`, and the first one no `connect_status` |

Three properties say that these causes are the only ones, and all three are proved:

- while no connection fails, no node restarts and addresses lead where they should
  (`Undisturbed`), two nodes disagree about their key only if both dialled
  (`DisagreementIsCrossing`): retries, forced attempts and CONNECT never make a second
  session in one direction;
- under the same condition a text that reaches its addressee and does not open was sent
  under one of two crossing handshakes, or overtook the AUTH_OK of the only one
  (`TextsOpen`);
- a queued text is dropped unsent only when its peer's entry has no address at the moment
  the handshake ends, or with the process (`DroppedIsUnaddressed`), whatever fails.

More facts seen while modelling and choosing bounds.

- With two nodes `DeadPeerForgotten` holds: the entry of a stopped node goes away when
  there is nobody else to tell of it.
- `AttemptsAdvance` excepts two cases, and in both the attempt stays registered for ever
  and blocks every later one to that peer: the responder vanished without closing, or
  ignored the initiator's bad signature (`respondToAuth` returns; nothing times out).
- A PING goes to whoever listens at the recorded address, which may be that of the node
  that listed the peer without one (`normalizeIp(entry.ip) || fallbackRemote`): it can be
  answered for a peer that has stopped. `PongIsAnswer` is about the connection only.
- The margin between the node's expiry and the browser's is zero: with a punctual timer an
  entry lives up to 90 s + 10 s in the node, and the browser drops a card after more than
  100 s. With the node's sweep late by anything, or one second less in the browser
  (`InactiveEarly`), a peer that is still in the node's table may leave the screen. It is
  one the node should have removed already (`Overdue`), and unless it is heard again first,
  the next sweep does so; if it is heard, `peer_detected` brings the card back.
- The browser is not told of an entry `registerPeerKey` makes until its peer announces
  itself or the browser reconnects, nor of what expired while it was disconnected.
- With `NODE_ID`, the id does not follow the port, and the first HELLO may name a port the
  node will not get. A process whose TCP search failed goes on announcing the id of the
  base port, which leads to its owner if there is one and to nobody otherwise. While it
  searches, a node may also start handshakes under that provisional id; a signature made
  under one id and checked under the next fails, and the attempt is dropped.
- The dashboard and the terminal may show the provisional id (`index.js` 771 and 853 read
  `selfNodeId` when a browser connects, or when the dashboard listens).

## 4. Proofs

`SessionProofs` proves for every set of nodes, browsers and texts, every `Routes` and
`BadKey`, and any bounds (from `SessionAssumption` only):

| Theorem | States |
|---|---|
| `TypeCorrect` | `Spec => []TypeOK` |
| `SessionsCorrect` | `Spec => [](TypeOK /\ SessionInv)` |
| `AttemptsNeverStuck` | `Spec => []AttemptsAdvance` |
| `NoLeakedHandshake` | `Spec => []LiveSocketRegistered` |
| `SessionsAgree` | `Spec => []SessionAgreement` |
| `ReadOnlyByAddressee` | `Spec => []OnlyAddresseeCanRead` |
| `SessionsAuthentic` | `Spec => []Authentication` |
| `NothingLeftWaiting` | `Spec => []NothingWaitsBehindSession` |
| `TextsHaveOneFate` | `Spec => []OneFate` |

The argument. `SessionAgreement` is not inductive: that a session comes from an accepted
connection between its two ends needs the order of the handshake (`HandshakeOrder`: AUTH
is in flight only after the initiator derived the secret, AUTH_OK only after the
responder accepted), and needs that opening a connection does not change the ends of one
in use (`UnusedConnections`). A message is opened only by its addressee because it was
encrypted under a session between its ends (`WireUnderSession`), and a third node that
holds the same key would have to be an end of the same connection. Together these are
`SessionInv = ConnInv /\ SessionAgreement /\ WireUnderSession`, a conjunct of the
`DeliveryInv` that `session_safety` checks with TLC. `LiveSocketRegistered` needs `PendingIsOwn`, so that removing the entry
of a peer removes the socket that was opened for that peer. `OneFate` needs that a text
is nowhere before its user sends it (`OnlySentTexts`). The lemmas `InitiateHandshakeInv`,
`CleanupInv`, `StoreSessionInv` and `StoreSessionFate` are about the helpers that several
handlers share; `EndsStable` is the fact that carries sessions and messages across steps
that do not touch them. `AttemptsAdvance` needs `AnsweredIsServed`: a responder that
answered HELLO keeps the context of the connection unless its process ended.

`SessionDeliveryProofs` goes on from there, with the same generality:

| Theorem | States |
|---|---|
| `NoHalfTunnels` | `Spec => []NoHalfTunnel`, under all failures and restarts |
| `AttemptsAreUnique` | `Spec => []DeliveryInv`: `SessionInv` with `TunnelInv` and `UndisturbedInv`, the invariant of the next two |
| `OnlyCrossingsDisagree` | `Spec => []DisagreementIsCrossing` |
| `TextsOpenUnlessCrossed` | `Spec => []TextsOpen` |
| `WaitersAreTold` | `Spec => WaiterIsTold`, for any number of browsers |
| `OnlyUnaddressedAreDropped` | `Spec => DroppedIsUnaddressed` |
| `TableImplementsPeerEntries` | `Spec => ImplementsPeerEntries` |

`NoHalfTunnel` needs `TunnelInv`: an accepted connection whose responder keeps its context
has a session at the responder (`ServedAccepted`), and before AUTH the initiator has
derived nothing (`FreshUnkeyed`), so that HELLO never reaches an accepted connection and
gives a restarted responder its context back. `DisagreementIsCrossing` and `TextsOpen`
need that a node dials a peer once while nothing fails. That is not a matter of the guard
of `initiateHandshake` alone, which looks at two Maps: the attempt leaves
`pendingHandshakes` in many places (`cleanupPendingHandshake` by AUTH_OK, a bad signature,
a close event, perhaps of another socket), and none of them may come before the session.
`OneAttempt` says so, with the fact that AUTH_OK of an accepted connection is on its way
until its session is stored; it counts only peers with a good key, since an attempt with a
bad one is dropped and repeated for ever. `OneAttemptKept` reduces each handler to five
facts, `BeginsOneAttempt` is the dial, `Steps` sorts the steps of `Next` for both
invariants. `WaiterIsTold`, `DroppedIsUnaddressed` and the
refinement need no invariant but `TypeOK`: two of them say of each way a waiter or a queue is
emptied what comes of those who were in it, whichever handler of whichever side does it.

`SessionMailboxProofs` proves `SessionImplementsMailbox`, `Spec => ImplementsMailbox`,
from the invariant `FateInv` of `SessionProofs`: for each step that moves texts, the fate
of each text before and after (`FateOf`), then one of two shapes of step, a whole queue
(`QueueStep`) or one text (`TextStep`).

`PeerTableProofs` proves for every set of nodes and addresses, any `TTL` and any bounds
(from `PeerTableAssumption` and `NoneIsNoEntry`):

| Theorem | States |
|---|---|
| `TypeCorrect` | `Spec => []TypeOK`: no node has an address for itself, even where it dialled itself |
| `AnnouncedPeersListed` | `Spec => []AnnouncedPeerIsListed` |
| `AddressesHaveProvenance` | `Spec => []AddressProvenance` |
| `ListedCorrect`, `ProvenanceCorrect` | `Spec => []ListedInv`, `Spec => []ProvenanceInv` |
| `TableImplementsPeerEntries` | `Spec => ImplementsPeerEntries` |

`AnnouncedPeerIsListed` compares the age of an entry with the time since the last HELLO;
each step renews the entry, keeps both, or ages both, except that a node that starts must
have forgotten what it heard, hence `ListedInv = AnnouncedPeerIsListed /\
DownHearsNothing`. `AddressProvenance` needs the same of the datagrams and lists in
flight, and that an entry without address in a list is one its sender made
(`MessageProvenance`); `HistoryGrows` carries what was known across every step, and
`UpsertPeerKnown` and `ToldKnown` say that the two ways of learning an address learn a
known one.

`FramingProofs` proves `FramingCorrect`, `Spec => []FramingInv`, for any limit and lengths
(`FramingAssumption`). That frames are decoded in order is not inductive: it needs that
frames lie one behind the other in the stream (`Contiguous`) and that the reader's position
is the start of the next frame (`Aligned`), so that what it reads as a header is one.

`ConnectionProofs` instantiates it for the two streams and proves, for any lengths, limits
and failures (`ConnectionAssumption`):

| Theorem | States |
|---|---|
| `StreamsImplementFraming` | `Spec => StreamsAreFraming`: each step of either end is a step of `Framing`, or none, in each direction |
| `ConnectionCorrect` | `Spec => []ConnectionInv`, from the two theorems before |
| `MemoryBounded` | `Spec => []ServerMemoryBounded` |
| `PongsAreAnswers` | `Spec => []PongIsAnswer`: the client decoded a PONG, which by `FramingInv` the server wrote, which it does only when it has decoded a PING |
| `MessageSurvivesEnd` | `Spec => []EndLosesNothing`: the end reaches the server's handler behind the last byte, and the server closes only when its loop has nothing left to take (`MessageInv`) |

`DashboardProofs` proves `DashboardCorrect` (`Spec => []DashboardInv`),
`DashboardFollows` (`Spec => []ViewFollowsTable`), `NoGhostStays` (`Spec => []CardsExpire`)
and `TableImplementsPeerEntries` (`Spec => ImplementsPeerEntries`) for any peers, addresses and periods with
`NodeTTL + NodePeriod <= UiTTL` (`DashboardAssumption`; the code has equality) and timers
of any lateness. A card is never older than the node's entry unless news of it is in the
channel (`CardsYounger`), and an entry is never older than its lifetime and the time since
the node's last sweep (`EntriesExpire`). So when the browser drops a card it has no news
of, more than `NodePeriod` has passed since that sweep, and the entry is `Overdue`; it stays
so until news of it is sent or a sweep removes it, and then the two agree.

`StartupProofs` proves, for any processes, machines, ports and ports taken by others
(`StartupAssumption`: the ranges of the two servers do not meet, as with 7777 and 3000):

| Theorem | States |
|---|---|
| `StartupCorrect` | `Spec => []StartupInv` |
| `IdsDistinct`, `HellosLeadToOwner` | `Spec => []DistinctIds`, `Spec => []HelloLeadsToOwner`: a HELLO names the port its id is made of, and a port has one holder (`OneHolder`) |
| `EnoughPorts` | `Spec => []PortsSuffice` |

`PortsSuffice` needs `LeftBehind`: a search that has come `k` ports far has left behind,
for each of them, a port taken by another program or a process that is now lower or off.
That count is inductive although the processes that held those ports may have stopped and
started again since: they are then below.

Only model-checked: the liveness properties (`QueuedEventuallyFlushed`,
`LastAskedIsAnswered`, `AddressesRecover`, `GhostsVanish`, `PingSettles`,
`MessagesReachHandler`, `AnnouncesItself`), which are outside the prover's reach. Some have a
safety half that is proved: `AttemptsAdvance` for the queues, `WaiterIsTold` for CONNECT, `CardsExpire` for
ghosts, `EndLosesNothing` for texts, `AddressProvenance` for addresses. What is not proved
is that the fair steps happen.

## 5. Plan

1. `Session`, `Mailbox`, `PeerEntries`, `PeerTable`, `Framing`, `Connection`, `Startup`,
   `Dashboard`, their runs and the proofs of every safety property the runs check: done.
2. `Session` lets a table change at will and `PeerTable` says how; both implement
   `PeerEntries`, and nothing else of the table is needed by a theorem about sessions.
3. Left to prove: bounds on how long things take, where they are safety (as `CardsExpire`
   is): the age at which a stopped peer leaves a table nobody else tells of it.
4. Left to model: the Python node, if its handshakes are repaired (below).

## 6. Not modelled and why

- **The Python node** (`src/src/network/multicast.py`). Its handshakes cannot complete:
  both sides call `exchange` on a PyNaCl `PrivateKey`, which has no such method; the
  exception ends the thread of the connection, and what follows (a session stored on
  HELLO_REPLY, texts) is not reached. What can be seen by reading: `_start_handshake` tests two dictionaries and
  fills one after a blocking connect, so that two threads may both start; sessions are
  keyed by the key file's `machine_id` and peers by the announced id; `_save_peers` takes
  its snapshot under the lock and writes it outside, so that an older one may be written
  last; `_recv_frame` gives up when the five bytes of a header arrive in two pieces.
- **Python crypto and the identity tool**: pure functions on bytes, one generated file.
- **Unused modules** (`peers.js`, `discovery.js`, `packet.js`): required by nothing that is
  run; their classes are an earlier version of what `index.js` does.
- **The launcher, markup and style**: no protocol.
- **Malformed input** everywhere: the models enumerate what the program itself sends.
