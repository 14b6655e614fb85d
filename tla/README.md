# libweb3core in TLA+

TLA+ models of libweb3core, checked with TLC on small instances and, where a
result matters for every instance, proved with TLAPS.  Each module is a
translation of the C++ named in its header; `PROJECT.json` maps every
definition to the lines it stands for.

libweb3core is the peer-to-peer and data-structure layer below the Ethereum
client: `libp2p` (node discovery, encrypted sessions, the host), `libdevcore`
(RLP, tries, the memory database, hashes, threads), `libdevcrypto` (keys, the
overlay database) and the `rlp` tool. Its correctness is mostly a matter of
three things: what several threads and the io_service do to shared state in
`libp2p`; whether the reference-counted stores keep what is still needed; and
whether what is encoded, saved or sent is read back as it was.

## 1. Inventory

### Threads

| thread | runs |
|---|---|
| worker, "p2p" | `Worker`'s loop with `Host::doWork`, and through it the io_service: all completion handlers and timers of `Host`, `Session`, `NodeTable`, `UDPSocket`, `RLPXHandshake`, one at a time |
| callers | `Host::start`, `stop`, `addNode`, `requirePeer` by the client; `Capability` methods that send packets; the destructors |

No lock is held across two handlers, and most operations take several locks one
after the other. That is where the hard behaviour is.

### Components

| component | state | operations | talks to | what makes it correct | modelled in |
|---|---|---|---|---|---|
| **NodeTable** (`NodeTable.{h,cpp}`) | `m_nodes`, the buckets, `m_evictions`, the check timer, the event queue | PingNode, Pong, FindNode, Neighbours; `addNode`, `noteActiveNode`, `evict`, `doCheckEvictions`, `dropNode`; `doDiscover`, `nearestNodeEntries` | UDP socket, Host (events) | buckets stay sound, proven, announced; one chain of checks at most; one lookup at a time, followed by the next unless a timer is aborted; endpoints learnt are true | `NodeTable`, `Discovery`, `Datagrams` |
| **Session** (`Session.{h,cpp}`) | socket, `m_writeQueue`, `m_dropped`, the outstanding read and write | `send`, `write`, `doRead`, `interpret`, `disconnect`, `drop`, `ping` | frame coder, Host, Capability | one write at a time, frames in the order of sealing; dropped means closed, or reset by the peer, and ends | `Session`, `PacketChannel` |
| **Worker** (`Worker.{h,cpp}`) | `m_state`, `m_work`, `x_work` | `startWorking`, `stopWorking`, `terminate`, `workLoop` | Host (virtual hooks) | start and stop return; no hook runs after its object is gone | `Lifecycle` |
| **Host: starting and stopping** (`Host.cpp`) | `m_run`, `m_timer`, acceptor, `m_connecting`, `m_sessions` | `start`, `stop`, `~Host`, `startedWorking`, `run`, `doWork`, `doneWorking`, `runAcceptor`, `connect` | Worker, io_service, Session | a network shut down to the end has no session left, and no timer when it starts again | `Lifecycle` |
| **Host: peers** (`Host.cpp`, `Peer.cpp`) | `m_peers`, `m_sessions`, `m_requiredPeers`, `m_pendingPeerConns`; reputations; the saved network | `run`, `connect`, `onNodeTableEvent`, `requirePeer`, `addNode`, `startPeerSession`; `saveNetwork`, `restoreNetwork`; `noteRude`, `isRude`; `determinePublic` | NodeTable, handshake, Session | slots respected, no open session replaced, required peers retried; what is saved is restored | `Peers`, `SavedNetwork`, `Reputation`, `Endpoints` |
| **RLPXHandshake** (`RLPxHandshake.{h,cpp}`) | `m_nextState`, nonces, secrets, idle timer | `transition`, `writeAuth`, `readAuth`, `writeAck`, `readAck`, `cancel`, `error` | Host, the socket | every wait is timed; a session is with the host dialled; handshakes end | `Handshake` |
| **RLPXFrameCoder** | two ciphers, two MACs | the constructor, `writeFrame`, `authAndDecrypt...` | Session | what is accepted was written, in order | `FrameCoder` |
| **RLPX frames** (`RLPXFrameWriter`, `RLPXFrameReader`, `RLPXPacket`, `RLPXSocketIO`) | queues per priority, partly written and partly read packets | `enque`, `mux`, `demux` | frame coder | packets of one priority arrive once, whole, in order | `Frames` |
| **UDP** (`UDP.{h,cpp}`) | `m_sendQ`, `m_started`, `m_closed` | `send`, `doWrite`, `doRead`, `disconnect` | NodeTable | the first datagram is being sent; closing ends | `UDPSocket` |
| **Capability, HostCapability** | enabled flags, offsets of packet types | `startPeerSession`'s registration, `prep`, `sealAndSend`, dispatch, `disable` | Session | a packet reaches the capability it was sent by, on the other end | `Capabilities` |
| **Network, UPnP** | redirections on the router | `tcp4Listen`, `traverseNAT`, `addRedirect`, `~UPnP` | Host | the endpoint told to others leads to this host | `Endpoints` |
| **p2p Common** | timers of `DeadlineOps` | `schedule`, `reap`, `stop`; `NodeSpec`, `enode` | NodeTable | expired timers are collected; names read back | `Deadline`, `Codecs` |
| **Tries** (`TrieDB`, `TrieHash`, `TrieCommon`) | nodes of a Merkle Patricia trie | `insert`, `remove`, `at`, iteration, `hash256` | stores | a trie is a map, its root a function of the map, its nodes counted exactly | `Trie`, `FatTrie` |
| **Node stores** (`MemoryDB`, `OverlayDB`) | hash to (value, references), `m_aux`, LevelDB | `insert`, `kill`, `lookup`, `commit`, `rollback`, `purge`, copying | tries | a node with references is found, before and after commits, failures, restarts | `MemoryDB`, `Store` |
| **Key store** (`SecretStore`) | keys, cached secrets, files | `import`, `secret`, `recode`, `kill`, `save`, `load` | files | a fault loses at most one key; a secret stays what was stored | `SecretStore` |
| **RLP** (`RLP.{h,cpp}`) | a stream's open lists; a reader's cache | encode, decode, subscript, conversions | all | reading inverts writing; one encoding of each item | `RLP` |
| **The rlp tool** (`rlp/main.cpp`) | options | render, create, list archives | RLP | what it prints it creates again | `RLPTool` |
| **RangeMask** | ground range, ranges | `unionWith`, `lowest`, `-=`, iteration, ... | - | each operation is that of a set of numbers | `RangeMask`, `NumberSets` |
| **Utilities**: `Hash`, `SHA3`, `CommonData`, `Base64`, `CommonJS`, `FixedHash` | none, but `FixedHash` | hashes, conversions, Bloom filters | all | the functions of their definitions; conversions invert each other | `Ripemd160`, `Keccak`, `CommonData`, `Codecs`, `FixedHash` |
| cryptography, `concurrent_queue`, logging, files | - | - | - | see section 5 | only as terms |

### What is hard here

The list `hazards` in `PROJECT.json` gives each at its line. The groups:

* *Check, unlock, act.* `addNode`, `noteActiveNode`, `evict`, `dropNode`,
  `Session::send`, `write` and `drop`, `UDPSocket::send`, `isRude`, `Host::stop`
  and `start` look at something, release a lock (or never take one) and act.
* *Chains of handlers.* A chain of timers, reads, writes or lookups must neither
  break nor double, though other threads start or end it.
* *Stale entries.* Buckets hold weak pointers; evictions hold ids; `m_peers`
  drops a `Peer` that is being dialled.
* *Two ends.* Two hosts dial each other; each derives offsets, secrets and
  sizes by itself; datagrams are damaged, late, repeated.
* *Shutdown.* Connections being dialled, shaken hands with and used, the timer
  that `stop` waits for, destructors that run before the thread is joined.
* *Limits.* A full bucket, slot counts that mix signs, headers that grow at 56
  bytes, ranges at the end of their type.
* *What outlives the process.* A commit that fails or is cut short, references
  counted below zero, key files written in place, the saved network.
* *Exceptions on the way.* `drop`, `doneWorking`, a trie's `remove` and a session's
  handlers may throw when half of their work is done, and others go on.

## 2. Modules

| module | models | uses |
|---|---|---|
| `NodeTable` | entries, buckets, evictions, events, under two threads | - |
| `Datagrams` | what node tables send, check and believe | - |
| `Discovery` | nearestNodeEntries and the lookups | - |
| `Deadline` | `DeadlineOps` | - |
| `UDPSocket` | the queue and loops of the UDP socket | - |
| `Session`, `PacketChannel` | a session; abstract: what it promises about packets | `INSTANCE PacketChannel` |
| `Lifecycle` | `Worker` and `Host` starting and stopping together | - |
| `Peers` | whom a host knows, dials and talks to | - |
| `SavedNetwork` | records of peers, the file of the network | - |
| `Reputation` | `ReputationManager` under two threads | - |
| `Handshake` | both ends of handshakes, hosts dialling each other | - |
| `FrameCoder` | secrets, sealing, checking, at both ends | - |
| `Frames` | packing into frames, and reading | - |
| `Capabilities` | agreement on capabilities, dispatch | - |
| `Endpoints` | listening, NAT, UPnP, the public endpoint | - |
| `MemoryDB`, `Store` | the operations of the stores; their objects, users and faults | `Store` extends `MemoryDB` |
| `Trie` | nodes, sizes, `hash256`; `GenericTrieDB` over the memory | `MemoryDB` |
| `FatTrie` | keys behind hashed keys, in `m_aux` | - |
| `SecretStore` | the key store, with failures and restarts | - |
| `RLP`, `RLPTool` | the encoding and its conversions; the tool | `RLPTool` extends `RLP` |
| `RangeMask`, `NumberSets` | ranges; the same operations on sets of numbers | `INSTANCE NumberSets` |
| `Ripemd160`, `Keccak` | the hashes next to their definitions | - |
| `CommonData`, `Codecs` | conversions of bytes, names of nodes | `Codecs` uses `CommonData` |
| `FixedHash` | hashes as numbers, Bloom filters | - |
| `NodeTable_proofs`, `Session_proofs`, `Lifecycle_proofs`, `Frames_proofs` | theorems about the module of that name | it, TLAPS |
| `Peers_proofs` | theorems about `Peers` and `Reputation` | both, TLAPS |
| `Handshake_proofs` | theorems about `Handshake` and `FrameCoder` | both, TLAPS |
| `Storage_proofs` | theorems about `Store`, `FatTrie`, `SecretStore`, `SavedNetwork` and `RangeMask` | these, TLAPS |
| `Network_proofs` | theorems about `Datagrams`, `Discovery`, `Endpoints`, `Capabilities` and `UDPSocket` | these, TLAPS |
| `MCNodeTable`, `MCTrie`, `MCPeers`, `MCHandshake` | instances: bins, preferences, symmetry | the module of that name |
| `MCProgress`, `MCStorage`, `MCNetwork`, `MCFormats` | several independent components in one instance | each of them |

The last four give constants to several components that share no state. The
variable `subject` says which of them a behaviour is about; only that one moves,
so a behaviour of the instance is a behaviour of one component, with its own
initial states, next-state relation and fairness. Components with theorems have
names of their own (`FatSpec`, `SecretSpec`, `NetworkSpec`, ...) and are extended
there, so that a run and a theorem speak of the same definition; the others are
instantiated. The formats' properties are conjunctions (`ReadBack`,
`HashesAsDefined`).

A definition whose comment begins with "Mutant:" is a plausible wrong version of
the one that follows it; no specification uses it. Replacing the right one by it
must make TLC report the property that `PROJECT.json` names with it.

### NodeTable

A step is what a thread does while it holds one of `x_nodes`, `x_state`,
`x_evictions`, `x_events`; `op[t]` is what the thread carries on its stack from
one to the next (`at` is the place, the other fields the locals). The network
thread takes packets and timers only when it is idle; the caller's thread may be
between any two of its steps. A `NodeEntry` object is `[id, inc]`, so that an
entry replaced in `m_nodes` (by `addNode(..., Known)`, or by two threads adding
one id) differs from its successor. `gone` holds the replaced entries that no
shared pointer keeps, so bucket pointers to them fail to lock.

What the code does and one might not expect is kept: `remove_if`'s predicate
stays true after its first match, so the entries *behind* a re-noted node leave
the bucket, too; `m_evictions` is never shortened; `doCheckEvictions` drops the
challenger rather than the least-seen node; the search of `m_evictions` in a
Pong never succeeds; the check of evictions, and with it the chain, ends when `reap`
has destroyed its timer. `contradicted` is a history variable: the nodes whose last
event is a Dropped that was queued while they were listed. `BucketsAnnounced` says that
of every other node that is listed Host was last told that it was added.

| step in the model | code |
|---|---|
| `Pong`, `PingNode`, `FindNode`, `Neighbours` | `onReceived` up to its first call of `addNode` or `noteActiveNode` |
| `AddCheck`, `AddInsert` | the two halves of `addNode` |
| `NoteFetch`, `NotePlace`, `Evict` | `noteActiveNode` up to, and under, `x_state`; `evict` |
| `CheckEvictions`, `ChecksAborted`, `DropRemove`, `DropEvent`, `DropsDone` | `doCheckEvictions`' handler, its exit when the timer was aborted, and `dropNode` |
| `ApiAddNode`, `ApiAddKnown`, `ApiDiscoverKey` | `addNode` called by `Host` |
| `Tick`, `Expire` | the clock; the end of the last shared pointer |

### Datagrams, Discovery, Deadline, UDPSocket

`Datagrams` follows a packet from the node that signs it to the handlers that
change entries and the own endpoint. Hashes and signatures are terms; packets
stay in `net` for ever, so that each may come late, repeatedly or never, and one
may be damaged. A node of an older version (its Pong has two items) takes part as
sender only: what it does with what it gets is its own code.

`Discovery` keeps the callback that `m_timers` waits for: `Refresh`
(`doDiscovery`) or `Round` (the next round of `doDiscover`). Either may be aborted
(`LookupAborted`), which ends the chain; `aborted` is the history of it. `Nearest` is
`nearestNodeEntries` with its head, tail and loops over the buckets; ids are
numbers of `Bits` bits. `Deadline` has the vector `m_timers`, what the io_service
has queued (`ready`), and the chains that schedule themselves.

`UDPSocket` makes each access to `m_started`, `m_closed`, `m_socketError` and the
socket a step, and what happens under `x_sendQ` one step. `accepted`, `left` and
the set of datagrams being sent say what became of each.

### Session

A thread is the list of what it has still to do (`op[t]`), in the words of the
code: send, push, write (seal), start (async_write), drop, close, mark, set,
read. The step boundary is the release of `x_writeQueue`, a use of the socket or
a look at `m_dropped`, none of which is atomic with the next. `writing` and
`reading` are the two outstanding asynchronous operations. Whether the socket
takes bytes at once, later or never, and what a frame contains, is free.
`accepted` is a history variable: the kinds of the packets queued. The peer may
reset the connection (`reset`): the line that `drop` logs then throws before the
socket is closed, and `drop` goes on to record the reason and set `m_dropped`. Such a
session counts as connected, so that it may be disconnected again and again.

`PacketChannel` is the abstract specification: packets offered are delivered in
order, each once, the n-th sealed n-th, while the connection is up. `Session`
implements it with `offered <- accepted, delivered <- wire, up <- open`.

### Lifecycle

`pc[t]` is the place in the code of each calling thread and of the worker.
`doneWorking` is one set of actions that the worker or, in `start`, a caller
executes. Handlers run while some thread is in `io_service::run` or `poll`
(`Handling`) and the service is not stopped. `links` follows connections through
`connect`, the handshake and the session, just far enough to say whether a
shutdown has caught them; one that is reset stays connected until its handlers notice.
Two exceptions leave `doneWorking`: that of the acceptor, when listening had failed
(`Reset`), and that of a session's handler under a poll (`SessionThrows`); the worker's
function catches both (Worker.cpp:60) and the worker counts as stopped, a caller's
`start` returns with it.
`shut` (the last `doneWorking` to begin has been through) and `failed` (a start has found
the worker gone and run it itself) are history variables.

### Peers, SavedNetwork, Reputation

In `Peers`, `run` of the scheduler is four kinds of steps (collect events and
old peers, dial required peers, count slots, dial optional ones), as callers may
require peers and sessions may close between them. A `Peer` object that
`m_peers` has dropped while it is dialled is `stale`, its successor has the same
id. `lost` is a history variable: sessions replaced in `m_sessions` while open.

`SavedNetwork` has the records of peers that dials, sessions and ratings change,
and `saveNetwork` and `restoreNetwork` with the widths of their fields.
`Reputation` has the `shared_mutex` with its waiting writer.

### Handshake, FrameCoder, Frames, Capabilities

`Handshake` has two ends `<<connection, "from">>` and `<<connection, "to">>` per
connection, each with its next state, its pending operation, its timer (`armed`,
`fired`) and its inbox. The sessions of a host are shared by its connections,
which is where two that were dialled at once meet.

`FrameCoder` is both ends' ciphers and MACs, as terms: what was hashed, and the
place in the key stream. `Frames` is one protocol's writer and reader with the
byte counts of the code, padding and MAC included. `Capabilities` is what each
end computes from its own capabilities and the other's Hello, and where a packet
type is then dispatched to.

### Endpoints

Hosts behind one router with a table of redirections, which outlives their runs.
The operating system may refuse a port, the router any request.

### MemoryDB, Store, Trie, FatTrie

A memory is a function from hashes to counts (`MemoryDB`); `Store` has several
such objects over one disk, each with a user who kills only what he holds
(`held`), commits that fail and are tried again, commits that end the process, with
or without the batch on disk, rollback and copies.

`Trie` translates `mergeAt`, `deleteAt`, `merge`, `graft`, `cleve`, `branch` and
the iterator as operators on the memory that return the node and what is left of
the memory. A removal that throws leaves the memory without the nodes it killed and
the root as it was (`threw`); after that only opening a committed root is of interest.
The hash of a node is the node in an envelope, so that equality of
roots is equality of tries. The reference is `Rlp256`, translated from
`TrieHash.cpp`, which builds the trie of a whole map at once.

### SecretStore

`save` goes through the keys and, per key, truncates its file, writes it and
removes another file of it; each may fail and the process may end in between. A write
may also be lost without a word, as `writeFile` looks at the stream before it is
flushed (`SaveLosesWrite`; `unflushed` is the history of it).
`stored` is what the user put in.

### RLP, RLPTool

A stream's `append...` are actions on `out` and `listStack`; `top` is what they
stand for. When the lists are closed, every way of reading must give `top`:
iteration, subscripts in any order (with the reader's cache), conversions to
numbers, hashes and collections of each width and strictness, and the tool's
rendering, which the tool must make into the same bytes. `Foreign` bytes, which
no stream wrote, are read as well: what is accepted has one encoding.

### RangeMask, Ripemd160, Keccak, CommonData, Codecs, FixedHash

`NumberSets` has each operation of `RangeMask` under a name of its own on a ground range
with a set of numbers, and `Shown(m)` is what a mask shows: `OperationsOfSets` says of
every mask that is reached, and every argument, that the mask an operation returns shows
what the operation on sets returns. Its loops are recursive functions of the
number of turns (`Uniting`), or of the number below which ranges have been gone
through (`Adding`, `Taking`), which ends them within the bound on numbers. `-` is
that of a copy, so that a mask may be taken from itself. `Ripemd160` and `Keccak` run the
code and the definition of the function in step, and compare at the end; words
are sets of bits, lanes sequences of them. `Codecs` lets a string of bytes grow and converts it with each
function of `CommonData` and back; `FixedHash` applies the class's operators to a hash and
compares with the number it is.

## 3. Runs

All with breadth-first TLC. Deadlock is checked for the node table, the tries and
the peers, which never stop. The others really end (a session or a host is destroyed,
packets are used up) or contain parts that do, so deadlock checking is off for them
and progress is stated as liveness.

| run | states | shows |
|---|---|---|
| `node_table` | 3.1 million | buckets sound, proven and announced; one chain of checks at most; only late challengers dropped |
| `session` | 6.3 million | one writer, dropped means closed or reset, refinement of `PacketChannel` |
| `lifecycle` | 247,854 | no timer at a start, no session after a shutdown that ran through, worker idle at destruction; `x_work` released unless a start failed |
| `lifecycle_stop` | 957 | violation: `stop` may wait for ever (section 6) |
| `trie` | 220,182 | root as `TrieHash` computes it; reads and iterates what was put and counts nodes exactly, until a removal throws |
| `peers` | 374,948 | sessions within slots, none replaced while open, required peers kept and tried again |
| `frames` | 192,033 | packets in order per priority; each arrives |
| `handshake` | 756,654 | every wait timed; the remote is the host dialled; handshakes end |
| `progress` | 114,195 | UDP socket: first datagram being sent, disconnect ends; dropped sessions end; one lookup at a time, and a next one unless a timer is aborted; timers collected |
| `storage` | 402,258 | stores: referenced nodes found, saved ones on disk; keys behind hashes known; key store: one key lost per fault, secrets kept; the network restored as saved |
| `network` | 661,150 | public endpoints reach their host; endpoints learnt are true; accepted frames were written; packets reach their capability; rudeness is remembered |
| `formats` | 76,471 | what is written is read back, in every format; hashes as defined; each operation on range masks is the one on sets |

### Bounds and why they suffice

* **NodeTable.** One bucket of two places, two foreign ids and this node's own.
  Different buckets share nothing but the locks, so one bucket shows what
  happens in it. Two places are needed for a front, a back and something behind
  a re-noted node. `MaxInc = 2` makes an entry be replaced once, so a full bucket
  of two can hold two objects of one id, and a third object (the other id's)
  contests it. `MaxEvictions = 1` suffices for the chain of timers to start,
  fire, go on and end, and for a drop; `Room` keeps a node from being noted when
  that could record one more. `ReqTimeout = 0` ticks: an eviction is on time or
  late. `MaxNeighbours = 1`: each further neighbour repeats the same two steps.
  The foreign ids are symmetric: no definition orders them, and no liveness is
  checked in that run.
* **Session.** Two callers next to the network thread: three parties that queue,
  write and drop at once. `MaxMsgs = 2` has one packet in the queue behind a write
  under way; disconnects come on top. Only the disconnects of
  a session that was dropped and left open, which have no end, are within the bound
  (`MayDisconnect`). The liveness in `progress` has one caller and one packet.
* **Lifecycle.** Two callers, four calls of start, stop or the destructor: enough for
  a start that fails next to one that succeeds, for two starts and stops that overlap,
  and for the end; with five calls it holds, too (503,232 states). Two connections, as
  one may be cancelled, or reset, while the other is being dialled. One caller and two
  calls are all that `lifecycle_stop` needs.
* **Trie.** Four keys of which two start with another: values at branches, and
  extensions that split and merge, follow. Values of three lengths, for inline leaves (1), for hashed leaves
  (29), and for a branch whose value alone is left to make `remove` throw (33). `MaxVersions = 2` roots beside each other.
* **Peers.** Two nodes, one of them required; `Ideal = 1` with stretch one or
  two (with pinned peers), so that there is a slot less than there are nodes, or
  one for each.
* **Frames.** Sizes 10 and 240 bytes, mux with 128 or 256: a packet is cut in
  several frames, or several packets are packed into one. Three packets in two
  priorities; `SequenceIds = 3` makes numbers wrap.
* **Handshake.** Two hosts dial each other; one of the two may expect an id the
  other no longer has (`Stale`). Timers, cancelling and damage happen on one of
  the connections (`Slow`), `MaxFaults = 1`: a second fault only meets what is
  already closed on that connection.
* **UDPSocket.** Three callers beside the network thread, of whom some send while
  others disconnect. Four datagrams: one being sent, one queued behind it, one
  queued while the handler looks at the queue, one after closing.
* **Discovery.** `Bits = 5`, five ids in three buckets, so that the search goes
  up and down; `Alpha = 1`, `MaxSteps = 2`. **Deadline.** Two chains beside
  reap's own, five timers.
* **Store.** Two copies, two nodes, two references each: a node may have one of
  the two on the disk and one in memory. **FatTrie.** Two tries in two databases
  with one key: two keys share nothing in `m_aux`.
* **SecretStore.** Two keys, two passwords, one file with a name of its own, one
  fault: a failure of save, an end of the process in it, or a write lost without a word. A
  second fault would lose a second key, which `OneLostPerFault` counts.
* **SavedNetwork.** One other node, three days, two keys of the host; fields of
  four values, so that a negative number is stored as a large one.
* **Endpoints.** Two hosts and one router; ports are so few that both ask for
  the same. `Picks = FALSE`: the router does not choose ports (section 6).
* **Datagrams.** Three nodes and one of version 3; eight datagrams; two neighbours
  need two datagrams. **FrameCoder.** Two frames per end, two faults, so that one
  fault could repair another. **Capabilities.** Two hosts, up to four capabilities
  of 60, 72, 52 and 2 types, which fill more than half of a byte's values.
  **Reputation.** Two threads, one of which notes and one of which asks.
* **RLP.** Four appends, of strings and integers on both sides of each boundary
  between forms of encoding (0, 55/56, 127/128, 256). Foreign bytes: all strings
  of up to three of twelve telling bytes, and long strings about 55.
* **RangeMask.** Two objects, numbers 0 to 4 and their type's `Wrap = 16`.
  **Hashes.** Lengths on both sides of where the padding needs another block.
  **Codecs.** Up to four of seven telling bytes. **FixedHash.** Two bytes, four
  steps.

### Fairness

* **Session** (`FairSpec`; in `progress`): weak fairness for each thread's next
  step, as threads run. Strong fairness for each handler that is due, as the
  io_service serves handlers first come, first served, while other handlers
  intervene and disable it. A read or a write of a *closed* socket, or of a connection that was
  reset, is due; one of any other may wait for ever, and no fairness is assumed of it.
* **Lifecycle** (`FairSpec`): weak fairness for the threads; strong fairness for
  the timer, for an accept that was cancelled, and for a cancelled handshake or a
  reset session to notice, since polls come and go. None for connections being dialled or shaking hands,
  which depend on the other side. The same fairness holds in `lifecycle_stop`,
  so its counterexample is not a system that merely stops.
* **Peers**: weak fairness for `run` (a timer) and for the end of a closed
  session; strong fairness for the end of a dial (connecting and shaking hands
  are timed) and for a peer to become due (its fall-back time passes), both of
  which other steps of the network thread disable for a while. None for sessions
  to close, nodes to be listed, or callers to require.
* **Handshake**: weak fairness for the timers and the handlers they cause,
  on the connections where they may expire; nothing is assumed of messages.
* **Frames**: weak fairness for mux while packets wait (the write loop), for each
  of its iterations, and for the reader.
* **UDPSocket**: weak fairness for each thread's next step and for the handlers;
  of a read only when the socket is closed.
* **Discovery**: weak fairness for the timers, each of which may end in a round or
  aborted. **Deadline**: weak fairness for the
  io_service, and for the deadline of each chain's timer to pass.

## 4. Proofs

TLAPS proves what follows for all values of the constants that satisfy the named
assumptions of the modules, so for any number of ids, threads, hosts,
connections, objects, packets and faults and any size of a bucket. For each
component there is an inductive invariant, one lemma per action that says that
the action keeps it, and the properties that follow from it. Components that
share an instance with others state their assumptions as definitions
(`SecretStoreConstants`, `SavedNetworkConstants`, `DatagramConstants`,
`DiscoveryConstants`, `EndpointConstants`, `CapabilityConstants`,
`FrameCoderConstants`, `RangeMaskConstants`), which their theorems have as
hypotheses and which TLC evaluates for each instance (`ASSUME` in the MC modules).

| theorem | states | by the invariant |
|---|---|---|
| `NodeTable_proofs!BucketsAreSound`, `BucketsAreProven`, `BucketsAreAnnounced` | `BucketsSound`, `BucketsProven`, `BucketsAnnounced` | `IInv` |
| `AlwaysSingleChain` | `SingleCheckChain` | `ChainInv` |
| `OnlyLateOnesDropped` | `OnlyLateChallengersDropped` | both |
| `Session_proofs!AlwaysOneWriter`, `WireInOrder` | `OneWriter`; `Session` implements `PacketChannel` (`OrderedWire`) | `IInv` |
| `AlwaysClosedWhenDropped` | `DroppedMeansClosed` | `Dropping` |
| `AlwaysOneReader` | `OneReader` | `ReadChain` |
| `Lifecycle_proofs!NeverTimerAtStart`, `AlwaysIdleWhenDestroyed` | `NoTimerAtStart`, `IdleWhenDestroyed`, for any number of callers | `IInv` |
| `AlwaysStopsClean` | `StopsClean`, for any number of callers (no session left, as long as no start has failed) | `IInv`, `LeftInv` |
| `Peers_proofs!SessionsAreSound` | `SessionsSound` | `TypeOK` |
| `RudenessIsRemembered` | `RudeIsRemembered` | `RudeInv` |
| `Handshake_proofs!WaitsAreTimed`, `SessionsAreWithTheHost`, `NoSessionForgotten` | `EveryWaitIsTimed`, `RemoteIsTheHost`, `SessionsAreKnown` | `IInv` |
| `AlwaysAcceptedIsWritten` | `AcceptedIsWritten` | `CoderInv` |
| `AlwaysAcceptsWhatIsWritten` | `AcceptsWhatIsWritten`, for sizes that fit in three bytes | `CalmInv` |
| `Storage_proofs!ReferencedAreFound`, `SavedStaysOnDisk`, `CountsAreExact` | `ReferencedFound`, `SavedOnDisk`, `ExactUntilWritten` | `IInv` |
| `KeysAreKnown` | `KeysKnown` | `FatInv` |
| `FilesAgree`, `LosesOnePerFault` | `SavedAsKept`, `OneLostPerFault` | `KeysInv` |
| `AlwaysSecretsKept` | `SecretsKept`, if keys come with a MAC | `RightSecrets` |
| `AlwaysRestoredIsSaved` | `RestoredIsSaved` | `NetworkInv` |
| `RangesImplementSets` | each operation of `RangeMask` is that of `NumberSets` (`OperationsOfSets`), if what `lowest` adds up fits the type (`AskedFits`) | `MasksOK` |
| `RangesStayApart`, `AnswersAreRight`, `AlwaysLowest` | `RangesApart`; `AnswersOfSets` and `LowestAreLowest`, likewise | `MasksOK` |
| `Network_proofs!AlwaysEndpointsAreTrue` | `EndpointsAreTrue` | `TableInv` |
| `AlwaysLookupsSound` | `LookupsSound` | `LookupInv` |
| `AlwaysPublicReaches` | `PublicReaches` | `PublicInv` |
| `AlwaysReachesItsCapability` | `ReachesItsCapability` | `CapInv` |
| `AlwaysSendsFirst` | `SendsFirst` | `SocketInv` |
| `Frames_proofs!NothingOvertaken` | the first part of `PacketsInOrder`, for all sizes, while no sequence id is reused | `IInv` |
| `InOrderUnlessReused` | `PacketsInOrder` and `ReaderFollows`, for sizes that fit (`FramesFit`), while no sequence id is reused | `IInv` |
| `NeverReused`, `AlwaysInOrder`, `AlwaysFollows` | no id is reused, and so both hold, if there are no more packets than ids | `CountInv` |

### Why these invariants

**NodeTable.** The properties are not inductive alone: `noteActiveNode` places an
entry it fetched under another lock, so the invariant says of every thread's
stack that the entry it carries exists, is not pending and is not this node
(`OpOK`), and that nothing the other thread does makes it pending again:
`pending` holds only entries that exist (`Made`), and an insertion marks a *new*
object. `CheckEvictions` collects `m_nodes[e.second]`, which is an entry only
because challengers of recorded evictions are known. A node gets into a bucket only with an
Added, under the same lock, and a Dropped of one that is listed makes it
`contradicted`. `ChainInv` adds to
`SingleCheckChain` that there is no chain as long as no eviction is recorded
(a thread that sees the first eviction starts a chain, and none can be there), and
that what a check carries to `dropNode` are challengers that are late
(`LateDrops`); evictions are never removed and only get older, which is why they
still are when the event is queued.

**Session.** The invariant adds to `OneWriter` that a thread's list has a write
only as its next task (`Tidy`: otherwise a thread could become a second writer by
finishing something else) and `Numbered`: the queue holds the accepted packets
from `Popped + 1` on, only its front may be sealed, with the number it has in the
queue, and the wire has exactly the packets popped and, between the socket's
taking it and the handler, the front one. From these a `Transmit` is the
channel's `Deliver`. `Dropping` says that a thread that is to record the reason has
closed the socket, unless the connection was reset, and one that is to set `m_dropped`
has done both. `ReadChain` says
that a read is the last thing a handler does, that only the network thread starts
one, and that none is outstanding then, whatever a packet led to.

**Lifecycle.** Five facts hold each other up: whoever unset `m_run` is the only one
in `stop` until the worker's next start (`OneStopper`); the worker's state fits its
place (`StateFits`); some caller stands for each state that is to change
(`Awaited`: so a second caller cannot restart a worker that the first still stops);
the timer is there from `startedWorking` to `stopWorking` and not before or after
(`TimerFits`); the destructor is alone (`Destroying`). That no session is left needs
`LeftInv`: as long as no start has failed, only the worker shuts the network down, what
is still connected is known up to `finish`, and from there on there is nothing unless
an exception has ended `doneWorking`.

**Peers.** `SessionsSound` is inductive once the round that `run` is in has been
typed: the slots it has counted and the lists it goes through (`Rounds`).

**Reputation.** `isRude` asks for a subprotocol, then for the node as a whole, and
others note in between. `ReadSoFar` says what it has read: what was noted before it
asked was seen, and what it saw is noted.

**Handshake.** That the remote is the host dialled depends on what may be on
its way: `Possible(e)` says which messages an end's inbox may hold (an `auth` is
encrypted to the key its sender expects, an `ack` answers one that could be
decrypted), and the invariant says that all inboxes hold such messages and that
what an end has learnt (`Known`) came from one. Every action takes from an inbox
or appends to one; the lemmas `SentPossible` and `Consumed` treat the two.

**FrameCoder.** Both ends derive the same secrets and seeds (`SameSecrets`). What
an end's MAC has seen are the headers and payloads of the frames written, each
where the one before it ended in the key stream (`Chain`). All that may be on its
way has a MAC that the sender had at some time, whatever happened to it
(`Underway`), so a unit that passes the check makes the receiver's MAC equal to
what the sender's was (`HasRead`), and what is accepted is what was written so far
(`Accepts`). Without faults what is on its way is just what the sender's MAC
has seen since (`Undisturbed`, `Calm`), so nothing is refused. A size below
2^24 comes out of the header as it went in.

**Store.** `ReferencedFound` alone is not inductive: another object's memory may have
lost count of a node, as a kill of one that only the disk has is without effect. The
invariant says that a node nobody has written to disk is counted exactly, and saved
by nobody (`Exact`); a node that is on disk stays there, and is found.

**FatTrie.** `FatInv` follows each trie's keys through `m_aux`, the disk and a
rollback; of a saved trie the keys are on disk.

**SecretStore.** The file named after an id holds no other key (`OwnFiles`), and
`save` removes a file only when it has written its key to another, or seemed to
(`Saving`). A secret is lost only where a write was cut short or lost, which `Missed`
charges to the fault to come: while `save` writes a key, that key's file is away. A key
whose write was lost counts as lost from then on, though its other file is only
removed in the next step (`Left`), and memory and files are compared without it. With a MAC a wrong
password is refused, so memory, disk and cache hold the secrets put in (`RightSecrets`);
without one they need not (section 6).

**SavedNetwork.** Records are typed, finitely many, and ratings within their bound
(`NetworkInv`), which is what makes a number survive being written unsigned and
read back halved with its sign (`PeerItemReads`). The file is read item by item;
`ReadSoFar` says what has been restored after each.

**RangeMask.** `MasksOK` says of every mask that its ground range is one of
numbers, and that its ranges are not empty, inside it, and neither overlap nor touch
(`Apart`). Each operation keeps this and, given such masks, shows what the operation on
sets gives for what they show, which is all `OperationsOfSets` says.
For `unionWith` it takes two steps: a turn of its loop leaves the ranges apart, and what
they cover, together with what is left of the range to be added, stays the same and
gets less (`TurnUnites`); so the loop ends, with the union, within as many turns as there are
numbers (`UnitedIs`). `inverted` has the gaps because ranges do not touch
(`InvertedIs`). That `lowest` has the *smallest* elements is about how many it has:
what has been taken and what is still to be taken add up to what was asked for, and
all that was taken is below the rest (`LowestIs`, `SmallestAre`). `AskedFits` is needed: the
code adds what is asked for to a range's begin, and where that exceeds the type of
numbers the result ends before it begins (section 6).

**UDPSocket.** The invariant adds to `SendsFirst` that between the handler of
async_send_to and the taking of its datagram off the queue, two steps of the
network thread, the datagram still counts as being sent, so that no thread that
sends meanwhile starts another.

**Datagrams.** Whatever is under way was signed by its sender and says of
endpoints only what the sender could truly say (`WasSent`, `Genuine`), or fails the
check. A Pong tells its receiver where it was reached, neighbours are told with the
endpoints of entries; so entries stay true (`EntriesOK`) and a node's own endpoint one
under which it is known (`OwnOK`).

**Discovery.** There is one callback, and the round it is to start knows all whom
the lookup has asked (`Tried`). That the search leaves out no node of the target's
own bucket for a worse one is about its loops: the bucket is visited first
(`OwnBucketVisited`), and of the nodes found the nearest are kept.

**Endpoints.** A host's redirection is kept by whatever other hosts do at the router,
as no two have an address in common (`Keeps`); nothing is redirected to an address
that is a machine's name for itself (`RouterOK`).

**Capabilities.** Both ends add up the same counts in the same order
(`SharedOffsets`), the sums grow, so that ranges of types are apart, and what is under
way has a type in the range of its capability (`Proper`).

**Frames.** Between `mux` and `demux` lie any number of frames, and the reader's
state fits the writer's only once it has read them. `IInv` therefore has the
chain of what the reader becomes with each of them: `R[0]` is the reader as it is,
`R[i]` is what the i-th frame makes of `R[i-1]` (`Reads`, `Gets`), and the last one
fits the writer (`Match`): it has the beginning of just those packets that are partly
written, under their sequence ids, with as much of each as has been written, and
has returned all that is neither queued nor being packed. A frame that is written
extends the chain at its end, one that is read shortens it at its start; so each
needs to be looked at once. The rest says that the queues and the writer's counts
belong together (`QueuesOK`, `WritersOK`, `MuxOK`, `FrameOK`) and that the two packets
being cut have different ids (`Apart`).

Two hypotheses are needed, and each is one of the code's own limits. An id given to
a packet while another one under way has it would make the reader join the two:
nothing in the code forbids it, but it takes 65,536 cut packets of one priority
begun while one of the other waits to be continued (`NoReuse`; `CountInv` counts that it does not happen with as many ids as
packets). And `demux` drops the first frame of a packet a little larger than a frame
(section 6), so that nothing arrives *whole* unless sizes avoid it
(`FramesFit`, which the run's sizes satisfy). `NothingOvertaken` holds without it: for all
sizes, what is read of a priority is a prefix of what was queued.

### Inductions

The library's induction theorems take an operator as a parameter, which the
installed provers cannot instantiate. Where a proof needs an induction over
numbers it is by the least counterexample: `LeastNumber` (from the well-foundedness
of the natural numbers) gives it, and the step before it contradicts it. So are
proved that a file's items are read one by one (`ReadSoFar`), that offsets grow,
that a sequence without repetitions has all of a finite set, and what a loop of
`RangeMask` does: a recursive function is what the sequence of its values says
(`LoopRuns`), and such a sequence stays in the sets that each turn leads into
(`LoopStays`).

### Only model-checked

* All liveness (`LockReleased`, `RequiredRetried`, `PacketsArrive`, `HandshakesEnd`,
  `DisconnectEnds`, `DroppedEnds`, `LookupsGoOn`, `TimersCollected`): the prover
  handles neither fairness nor ENABLED.
* `Trie`'s properties, and of the formats `ReadBack`: these are about recursive
  operators on nested data, which SMT does not take (RECURSIVE), and TLC compares them
  with a reference definition. Of `ReadBack`, what it says of range masks is proved except
  for `MaskSize` and `Iterated`, a sum and a sequence over all ranges.
  `HashesAsDefined` compares two computations of fixed length, which the prover would only unfold.

Some modules state further properties that no run checks, because they follow from
those that are, are proved (`TypeOK`, `OneReader`, `ReaderFollows`,
`ExactUntilWritten`, `SessionsAreKnown`, `AcceptedIsWritten`, `SavedAsKept`,
`RangesApart`, `AnswersOfSets`, `NoTimerAtStart`, `IdleWhenDestroyed`),
or do not hold (section 6).

## 5. Not modelled, and why

* **RLPXSocketIO**: nothing in the repository uses it but a test, nor the frame
  writer and reader, which `Session` does not use yet: it seals single frames.
  `Frames` models the latter, as they are the peer's contract.
* **concurrent_queue**: two lines under one lock with a condition variable, used
  by nothing but a test.
* **Cryptography**: elliptic curves, AES, key derivation, BIP-39 and its word
  list of 5,000 lines are arithmetic and data. In `FrameCoder`, `Handshake` and
  `Datagrams` they are terms, by what they let a receiver tell.
* **Logging, guards, timers of `devcore`, reading and writing files, the
  workaround for a bug in boost's numbers, vendored libraries.** They make up
  most of the lines that no module maps.
* In `NodeTable`: the closing of the UDP socket, and the unlocked access of
  `Host` to the table's counts. In `UDPSocket`: reconnecting, which nothing does.
* In `NodeTable` and `Discovery`, that `reap` runs while a timer is expired and not yet
  handled is a choice (`ChecksAborted`, `LookupAborted`); `Deadline` has `reap` itself.
* In `Session`: latency and the structured log. A session is modelled from
  `start` on.
* In `Lifecycle`: of exceptions, those of the acceptor and of sessions' handlers are
  modelled. Left out are those thrown by `startedWorking` and `run`: the first
  leaves a timer that nothing resets and `stop` waits for (Host.cpp:686), the second
  skips the re-arming of the timer (Host.cpp:680). Those of callers (a thread that
  cannot be created) are left out as well. Unsynchronised reads of
  `m_run` and `m_timer` are atomic. `disconnectLatePeers` is never called (the
  call is commented out, Host.cpp:641).
* In `Trie`: removal of an absent key that ends at a branch without a value (it
  reads past the key), or goes on below a leaf (an exception); `CanRemove` names
  them. Values longer than 55 bytes; what a trie does between a removal that threw and
  the next opening of a committed root.
* In `Peers`: the pings of `keepAlivePeers`. In `SavedNetwork`: the formats of
  earlier versions, with 3 and 10 items.
* In `SecretStore`: exceptions of `kill` and of the cryptographic functions, and
  a file whose name is the id of another key.
* In `RLP`: what an iterator does beyond data of a size that is too large.

## 6. Where the code differs from what it says

`findings` in `PROJECT.json` quotes the line of the first; it has a run of its own.

1. **`stop` may wait for ever for the timer** (`Lifecycle!StopReturns`): it may
   clear `m_run` after `run` has armed the timer and before `doWork` runs the
   io_service, and then no one runs it.

These are stated as properties in their modules. A configuration with the
constants given makes TLC show each.

| property | constants | what the code does |
|---|---|---|
| `NodeTable!EventsMatchTable` | NodeTable.cfg | `dropNode` queues its event after it has released the bucket's lock, and `remove_if` drops nodes without any event |
| `NodeTable!DroppedWasLeastSeen` | NodeTable.cfg | an eviction drops the challenger |
| `NodeTable!EvictionsAreChecked` | NodeTable.cfg | only the first eviction starts the checks: nothing leaves `m_evictions`, so its size is 1 only once, and a check whose timer was aborted starts no other (NodeTable.cpp:585) |
| `Session!DisconnectSent` | Session.cfg | a disconnect packet queued behind a write under way is never sent |
| `Session!DroppedIsClosed` | Session.cfg | on a connection that was reset, `drop` asks for the remote endpoint to log it, which throws before shutdown and close; `m_dropped` is set with the socket open (Host.cpp:199 "disconnect peers" then goes on disconnecting it) |
| `Session!ReaderAlive` | Session.cfg | a packet that is not strict RLP ends the chain of reads without a disconnect: `checkPacket` throws instead of returning false |
| `Lifecycle!ShakesCancelled` | Lifecycle.cfg | a handshake may begin after pending handshakes were cancelled, as `connect`'s handler does not look at `m_run` |
| `Lifecycle!ShutdownAlone` | Lifecycle.cfg | `start` runs `doneWorking` itself, possibly next to a running worker |
| `Lifecycle!StopDisconnects` | Lifecycle.cfg | `doneWorking` may end before it disconnects the sessions: `m_tcp4Acceptor.cancel()` throws when listening had failed (Host.cpp:169), and so may a session's handler under its `poll` |
| `Peers!DialsWithinIdeal` | three nodes | the count of open slots passes zero, and then counts as true: more peers are dialled than there are slots |
| `Deadline!ChainsGoOn` | two chains | `reap` destroys an expired timer whose handler has not run; the handler runs as aborted and does not schedule the next. NodeTable.h:241 expects the chain to go on. `LookupsGoOn` holds because it excepts lookups that were aborted so |
| `Discovery!ClosestAreFound` | `Bits = 5`, `Me = 0`, `Id = {4, 16}`, `Target = {8}` | the search goes up and down from the target's bucket and ends when either way does, so nodes in the rest of the other are left out (NodeTable.h:211 says "closest"); `count` is never incremented |
| `Endpoints!ListenAddressFirst` | `traverseNAT` off | without NAT traversal a public listen address is not told to others, which Host.cpp:349 puts first |
| `Endpoints!ToldWithPort` | public address preferred, UPnP fails | the endpoint told has port 0 |
| `SecretStore!KilledIsGone` | one key with two files | kill removes one file of the key; another one of the same key stays, and is read at the next start (SecretStore.h:70) |
| `SecretStore!ReadsAllKeys` | `Odd` not empty | one file that is not as expected ends the reading of the others (SecretStore.h:49) |
| `RangeMask!LowestAreLowest` | `Asked` up to `Wrap - 1` | the sum of begin and number overflows (RangeMask.h:65) |
| `RangeMask!DifferenceOfSets` | two ground ranges | `-=` extends the ground range between its two inversions (RangeMask.h:43) |
| `FrameCoder!AcceptsAll` | a size of `Field` | a size of 2^24 is written modulo 2^24 (RLPXFrameCoder.h:48) |
| `FixedHash!ObviousOperators` | FixedHash's in `formats` | `SecureFixedHash`'s `|=` and `&=` call `^=` (FixedHash.h:273) |
| `Reputation!NoReaderInTheWay` | two threads | `isRude` locks a shared_mutex twice; a writer that waits in between and the reader wait for each other |

Met while translating, without a property:

* **UPnP.** `~UPnP` takes back a redirection the router chose the port of, and may
  remove another host's (`Picks = TRUE`); direct and random ones are never removed;
  `addRedirect`'s -1 counts as a port.
* **sha3_256** pads with 0x01: it is Keccak as submitted, not FIPS 202, contrary
  to the comments in SHA3.h. **ripemd160** truncates sizes to 32 bits.
* **Key store.** A key without a MAC decrypts to garbage with any password, which is
  cached and which `recode` then stores (`SecretsKept` fails with
  `Macs = {FALSE}`). An old file with an old password may be loaded after a restart.
  A crash in `save` may truncate a file that had not changed. `writeFile` tests the
  stream before it is flushed (CommonIO.cpp:128): on a full disk `save` may lose a small
  key file without an exception, and then remove the key's other file.
* **Tries.** When a removal leaves a branch with nothing but its value, `isTwoItemNode` is
  asked about the value (TrieDB.h:934, 999, 1038), and for one of 33 to 55 bytes its strict
  `toHash` throws `BadCast` (RLP.h:283), after nodes on the way were killed. The root is
  unchanged and nodes it needs may be gone from the memory, so that reads fail until a
  committed root is opened.
* **Node table.** A node may be put back into its bucket while `dropNode` has not yet
  queued its Dropped; Host is then told of a drop of a node that is listed
  (`contradicted`).
* **Frames.** `demux` compares the frame's size with padding and MAC to the
  packet's total: the first frame of a packet a little larger than a frame is
  dropped. `mux` with 64 to 95 bytes underflows when both priorities wait.
  `RLPXSocketIO`: `doWrite` clears frames of a partly written packet; `++m_queued`
  races the write handler; `m_egressCapacity` only shrinks.
* **Handshake.** Two hosts that dial each other may each refuse the connection the
  other keeps, so both close. A fired timer may close the socket of a session just
  started. `startPeerSession` does not look at `m_cancel`. A hash mismatch in
  `readAuth` is only logged.
* **UDP.** `m_socketError` is never reset; handlers of before a reconnect are not
  told apart; connect racing disconnect leaves an open socket.
* **RLP.** `operator[]` leaves its cache half changed when it throws, contrary to its
  comment; on a data item it indexes bytes.
* **Host.** Nothing fills `m_requiredPeers`; `Peer::m_session` is never set; a
  peer required by address gets its timer under the empty id, so it never becomes
  required (Host.cpp:505). `restoreNetwork` overwrites records that are there, and
  each start in a process restores the data given to the constructor. A peer that
  only connected to us has its last connection a second before the epoch, and is
  not saved (Host.cpp:792). A failed dial after BadProtocol shortens the wait.
* **Capabilities.** Ends that filter versions differently may disagree on
  offsets; the module's assumptions `OneVersion` and `TypesFit` say when they agree.
* **Datagrams.** A PingNode of version 3 is answered to the unspecified endpoint;
  newer versions count as expired; Pong's echo and time are not checked; a Pong
  of the old format clears the own UDP port; a node found by address gets its
  UDP port as TCP port; 90 bytes per node are too few for IPv6 endpoints.
* **Discovery.** Entries of `m_findNodeTimeout` are never removed; handlers queued
  with success run after `~NodeTable` (NodeTable.cpp:207). `m_theyRequestedNodes` of
  `Session` is never set.
* **NodeSpec.** One port that is zero reads back as the other; without ports the
  node is silently not added. **FatGenericTrieDB::begin()** is an empty iterator.
* **The rlp tool.** Escapes drop the character behind a backslash, `\x` reads from
  the `x` on; Base64 with `=` is taken for binary under Auto; `--indent` at the end
  reads past the arguments. `jsToFixed` of a short string is zero; boost reads
  decimals with a leading zero as octal.

## 7. Plan

Done: the node table, discovery and datagrams; the session; starting and stopping;
peers and what is saved of them; both ends of handshakes, coder and frames;
capabilities; the UDP socket; endpoints; the stores and tries; the key store; RLP,
its tool and the other formats; proofs about the components in the table of
section 4.

Next, most important first:

1. **Proofs** by least counterexample about the conversions of `CommonData`, written
   without RECURSIVE.
2. **Composition** of `Handshake` with `Peers`, so that a refusal at one end is
   seen by the other end's slots.
3. **RLPXSocketIO**, once `Session` uses it.
