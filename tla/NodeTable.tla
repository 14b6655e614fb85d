----------------------------- MODULE NodeTable -----------------------------
(***************************************************************************)
(* The node table of libp2p (NodeTable.{h,cpp}): the Kademlia buckets, the *)
(* map of known nodes, the eviction list with its check timer, and the     *)
(* events it appends for Host.                                             *)
(*                                                                         *)
(* Two threads use the table: "io", the network thread, which runs packet  *)
(* and timer handlers one at a time, and "api", a caller of Host::addNode  *)
(* or Host::requirePeer.  A step of this module is what a thread does      *)
(* while it holds one of the table's mutexes (x_nodes, x_state,            *)
(* x_evictions, x_events); op[t] is where thread t is between two steps.   *)
(*                                                                         *)
(* A NodeEntry object is a record [id, inc]: the inc-th entry made for     *)
(* that id.  A bucket holds weak pointers, which expire when m_nodes drops *)
(* the object and nothing else holds it (see Expire).                      *)
(*                                                                         *)
(* Left out: endpoints, signatures and the datagrams sent.  A ping needs   *)
(* no record because a Pong from a known node is accepted unsolicited.     *)
(* The socket stays open as long as the table exists.                      *)
(***************************************************************************)
EXTENDS Naturals, Sequences, FiniteSets

CONSTANTS Id,           \* node ids
          Self,         \* this node's id (m_node.id): others may name it, too
          Bin,          \* indices of m_state
          BinOf,        \* distance(m_node.id, n) - 1 for each id n
          BucketSize,   \* s_bucketSize
          Addr,         \* addresses that public-key discovery pings go to
          ReqTimeout,   \* c_reqTimeout in ticks
          MaxInc,       \* bound: NodeEntry objects made per id
          MaxEvictions, \* bound: evictions recorded, see Room
          MaxNeighbours \* bound: nodes listed in a Neighbours packet

ASSUME ConstantsOK ==
    /\ BinOf \in [Id -> Bin]
    /\ BucketSize \in Nat \ {0}
    /\ ReqTimeout \in Nat
    /\ MaxInc \in Nat \ {0}
    /\ MaxEvictions \in Nat
    /\ MaxNeighbours \in Nat

VARIABLES nodes,     \* m_nodes: the inc of the entry mapped to each id, 0 if none
          pending,   \* the entries whose flag pending is set
          bucket,    \* m_state[b].nodes, oldest first
          evictions, \* m_evictions: least-seen id, challenger id, age in ticks
          armed,     \* how many eviction-check timers are scheduled
          pubk,      \* m_pubkDiscoverPings: addresses awaiting a Pong
          gone,      \* the entries freed after being replaced in m_nodes
          last,      \* the last event appended for each id (m_events)
          contradicted, \* history: ids whose last event, Dropped, was queued
                     \* although a bucket listed the node
          op         \* what each thread is in the middle of

vars == <<nodes, pending, bucket, evictions, armed, pubk, gone, last, contradicted,
          op>>

Thread  == {"io", "api"}
Entry   == [id : Id, inc : 1..MaxInc]
Event   == {"none", "added", "dropped"}
Eviction == [least : Id, new : Id, age : 0..(ReqTimeout + 1)]

\* What a thread is doing between two critical sections: adding the nodes of
\* `todo` and then noting `from` (NoOne: nothing to note); inserting the first
\* of `todo`; noting `from`; placing `entry` in its bucket; starting the
\* eviction of `least` for `entry`; dropping the entries of `drops`.
NoOne == "no one"
Idle == [at |-> "idle"]
Op == [at : {"idle"}]
      \cup [at : {"add", "insert"}, todo : Seq(Id), from : Id \cup {NoOne}]
      \cup [at : {"note"}, from : Id]
      \cup [at : {"place"}, entry : Entry]
      \cup [at : {"evict"}, entry : Entry, least : Entry]
      \cup [at : {"drop", "dropped"}, drops : Seq(Entry), again : BOOLEAN]

\* Add the nodes of `todo`, then note `from`, unless it is NoOne.
Adding(todo, from) ==
    IF todo # <<>> THEN [at |-> "add", todo |-> todo, from |-> from]
    ELSE IF from # NoOne THEN [at |-> "note", from |-> from]
    ELSE Idle

Listed(s, e) == \E i \in DOMAIN s : s[i] = e
Position(s, e) == CHOOSE i \in DOMAIN s : s[i] = e

Current(n) == [id |-> n, inc |-> nodes[n]]

\* The objects a thread's stack keeps alive.
HeldBy(o) ==
    CASE o.at = "place" -> {o.entry}
      [] o.at = "evict" -> {o.entry, o.least}
      [] o.at \in {"drop", "dropped"} -> {o.drops[i] : i \in DOMAIN o.drops}
      [] OTHER -> {}

\* weak_ptr::lock on the pointer to e succeeds.
Locked(e) == e \notin gone

\* NodeTableEventHandler::appendEvent
Notify(n, e) == last' = [last EXCEPT ![n] = e]

Goto(t, o) == op' = [op EXCEPT ![t] = o]
-----------------------------------------------------------------------------
Init == /\ nodes = [n \in Id |-> 0]
        /\ pending = {}
        /\ bucket = [b \in Bin |-> <<>>]
        /\ evictions = <<>>
        /\ armed = 0
        /\ pubk = {}
        /\ gone = {}
        /\ last = [n \in Id |-> "none"]
        /\ contradicted = {}
        /\ op = [t \in Thread |-> Idle]
-----------------------------------------------------------------------------
(* Packets, received by the network thread.                                *)

\* A Pong from a known node ends its pending state; one from an unknown node
\* is taken only if a public-key discovery ping to its address is open.  The
\* search of m_evictions never finds an entry: it asks for a time stamp later
\* than now, and the stamps were taken in the past.
Pong(n, a) ==
    /\ op["io"] = Idle
    /\ IF nodes[n] # 0
       THEN /\ pending' = pending \ {Current(n)}
            /\ Goto("io", [at |-> "note", from |-> n])
            /\ UNCHANGED pubk
       ELSE /\ a \in pubk
            /\ pubk' = pubk \ {a}
            /\ Goto("io", Adding(<<n>>, n))
            /\ UNCHANGED pending
    /\ UNCHANGED <<nodes, bucket, evictions, armed, gone, last, contradicted>>

\* PingNode, FindNode and Neighbours: add the nodes the packet names (the
\* sender; none; the neighbours, if they were asked for), then note the sender.
Packet(n, named) ==
    /\ op["io"] = Idle
    /\ Goto("io", Adding(named, n))
    /\ UNCHANGED <<nodes, pending, bucket, evictions, armed, pubk, gone, last, contradicted>>

PingNode(n) == Packet(n, <<n>>)
FindNode(n) == Packet(n, <<>>)
Neighbours(n) == \E k \in 1..MaxNeighbours : \E named \in [1..k -> Id] : Packet(n, named)
-----------------------------------------------------------------------------
(* Calls from another thread.                                              *)

ApiAddNode(n) ==
    /\ op["api"] = Idle
    /\ Goto("api", Adding(<<n>>, NoOne))
    /\ UNCHANGED <<nodes, pending, bucket, evictions, armed, pubk, gone, last, contradicted>>

\* addNode without an id: ping the address to learn the id.
ApiDiscoverKey(a) ==
    /\ op["api"] = Idle
    /\ pubk' = pubk \cup {a}
    /\ UNCHANGED <<nodes, pending, bucket, evictions, armed, gone, last, contradicted, op>>

\* addNode(n, Known): the map's entry for n is replaced by a new object, which
\* is not pending, whatever was there; then the node is noted as active.  The
\* bound MaxInc spares the entry that the other thread is about to make.
ApiAddKnown(n) ==
    /\ op["api"] = Idle
    /\ nodes[n] + (IF op["io"].at = "insert" /\ Head(op["io"].todo) = n THEN 1 ELSE 0) < MaxInc
    /\ nodes' = [nodes EXCEPT ![n] = @ + 1]
    /\ Goto("api", [at |-> "note", from |-> n])
    /\ UNCHANGED <<pending, bucket, evictions, armed, pubk, gone, last, contradicted>>
-----------------------------------------------------------------------------
(* addNode(n, Unknown): look n up in m_nodes, release x_nodes, take it     *)
(* again and write a new pending entry.                                    *)

AddCheck(t) ==
    /\ op[t].at = "add"
    /\ IF nodes[Head(op[t].todo)] = 0
       THEN Goto(t, [op[t] EXCEPT !.at = "insert"])
       ELSE Goto(t, Adding(Tail(op[t].todo), op[t].from))
    /\ UNCHANGED <<nodes, pending, bucket, evictions, armed, pubk, gone, last, contradicted>>

AddInsert(t) ==
    /\ op[t].at = "insert"
    /\ LET n == Head(op[t].todo) IN
       /\ nodes[n] < MaxInc
       /\ nodes' = [nodes EXCEPT ![n] = @ + 1]
       /\ pending' = pending \cup {[id |-> n, inc |-> nodes[n] + 1]}
    /\ Goto(t, Adding(Tail(op[t].todo), op[t].from))
    /\ UNCHANGED <<bucket, evictions, armed, pubk, gone, last, contradicted>>
-----------------------------------------------------------------------------
(* noteActiveNode                                                          *)

\* Mutant: the flag pending is not looked at.
NotableThoughPending(n) == n # Self /\ nodes[n] # 0

Notable(n) == n # Self /\ nodes[n] # 0 /\ Current(n) \notin pending

\* The bound on evictions: with MaxEvictions recorded, a node is noted only if
\* that cannot start another one.
Room(n) == \/ Len(evictions) < MaxEvictions
           \/ /\ Len(bucket[BinOf[n]]) < BucketSize
              /\ \A t \in Thread : op[t].at # "place"

\* Fetch the entry under x_nodes.  The node is passed over if it is this node,
\* unknown or pending, or if its address is not allowed (any address may be).
NoteFetch(t) ==
    /\ op[t].at = "note"
    /\ LET n == op[t].from IN
       \/ /\ Notable(n)
          /\ Room(n)
          /\ Goto(t, [at |-> "place", entry |-> Current(n)])
       \/ Goto(t, Idle)
    /\ UNCHANGED <<nodes, pending, bucket, evictions, armed, pubk, gone, last, contradicted>>

\* Mutant: the active node is not removed before it is pushed back.
WithActive(s, e) == s

\* remove_if with the predicate of line 342: `removed` is set by the match and
\* returned for every later element too, so the match and all behind it go.
WithoutActive(s, e) == IF Listed(s, e) THEN SubSeq(s, 1, Position(s, e) - 1) ELSE s

\* Mutant: the event is appended only for a node that was there already.
AnnounceAgain(s, e) ==
    IF Listed(s, e)
    THEN Notify(e.id, "added") /\ contradicted' = contradicted \ {e.id}
    ELSE UNCHANGED <<last, contradicted>>

Announce(s, e) ==
    IF Listed(s, e)
    THEN UNCHANGED <<last, contradicted>>
    ELSE Notify(e.id, "added") /\ contradicted' = contradicted \ {e.id}

\* Under x_state: move the entry to the back of its bucket if there is room or
\* the front has expired; otherwise the front node is contested.
NotePlace(t) ==
    /\ op[t].at = "place"
    /\ LET e == op[t].entry
           s == bucket[BinOf[e.id]]
           kept == WithoutActive(s, e)
           put(q) == [bucket EXCEPT ![BinOf[e.id]] = Append(q, e)]
       IN \/ /\ Len(kept) < BucketSize
             /\ bucket' = put(kept)
             /\ Announce(s, e)
             /\ Goto(t, Idle)
          \/ /\ Len(kept) >= BucketSize
             /\ ~ Locked(Head(kept))
             /\ bucket' = put(Tail(kept))
             /\ Announce(s, e)
             /\ Goto(t, Idle)
          \/ /\ Len(kept) >= BucketSize
             /\ Locked(Head(kept))
             /\ bucket' = [bucket EXCEPT ![BinOf[e.id]] = kept]
             /\ UNCHANGED <<last, contradicted>>
             /\ Goto(t, [at |-> "evict", entry |-> e, least |-> Head(kept)])
    /\ UNCHANGED <<nodes, pending, evictions, armed, pubk, gone>>

\* Mutant: every eviction starts a check.
StartsAlways(evicts) == evicts >= 1

StartsChecks(evicts) == evicts = 1

\* evict: record the time-out; the first eviction ever starts the check timer.
Evict(t) ==
    /\ op[t].at = "evict"
    /\ evictions' = Append(evictions, [least |-> op[t].least.id,
                                       new |-> op[t].entry.id, age |-> 0])
    /\ armed' = IF StartsChecks(Len(evictions) + 1) THEN armed + 1 ELSE armed
    /\ Goto(t, Idle)
    /\ UNCHANGED <<nodes, pending, bucket, pubk, gone, last, contradicted>>
-----------------------------------------------------------------------------
(* Timers of the network thread.                                           *)

\* Mutant: off by one.
LateAtOnce(v) == v.age >= ReqTimeout

Late(v) == v.age > ReqTimeout

EvictionsRemain(collected) == Len(evictions) - collected > 0

\* doCheckEvictions' handler, under x_evictions and x_nodes: collect the
\* CHALLENGERS of the late evictions.  No eviction is removed, and the chain
\* of timers goes on only if some eviction is not collected.  The deque is in
\* time order, so the late evictions are its first k.
CheckEvictions ==
    /\ op["io"] = Idle
    /\ armed > 0
    /\ armed' = armed - 1
    /\ \E k \in 0..Len(evictions) :
       /\ \A i \in DOMAIN evictions : Late(evictions[i]) <=> i <= k
       /\ Goto("io", [at |-> "drop", again |-> EvictionsRemain(k),
                      drops |-> [i \in 1..k |-> Current(evictions[i].new)]])
    /\ UNCHANGED <<nodes, pending, bucket, evictions, pubk, gone, last, contradicted>>

\* Its exit when reap destroyed the expired timer before its handler was called
\* (operation_aborted): nothing is looked at, and no other timer is started.
ChecksAborted ==
    /\ op["io"] = Idle
    /\ armed > 0
    /\ armed' = armed - 1
    /\ UNCHANGED <<nodes, pending, bucket, evictions, pubk, gone, last, contradicted, op>>

Unlisted(s, e) ==
    IF Listed(s, e)
    THEN SubSeq(s, 1, Position(s, e) - 1) \o SubSeq(s, Position(s, e) + 1, Len(s))
    ELSE s

\* dropNode for each collected entry, equal neighbours taken once
\* (list::unique): remove the entry from its bucket under x_state, ...
DropRemove ==
    /\ op["io"].at = "drop"
    /\ op["io"].drops # <<>>
    /\ LET d == op["io"].drops
           e == Head(d)
       IN IF Len(d) > 1 /\ d[2] = e
          THEN /\ Goto("io", [op["io"] EXCEPT !.drops = Tail(d)])
               /\ UNCHANGED bucket
          ELSE /\ bucket' = [bucket EXCEPT ![BinOf[e.id]] = Unlisted(@, e)]
               /\ Goto("io", [op["io"] EXCEPT !.at = "dropped"])
    /\ UNCHANGED <<nodes, pending, evictions, armed, pubk, gone, last, contradicted>>

\* A bucket lists an entry of n, this one or another.
NodeListed(n) == \E i \in DOMAIN bucket[BinOf[n]] : bucket[BinOf[n]][i].id = n

\* ... release x_state, and queue the event under x_events.
DropEvent ==
    /\ op["io"].at = "dropped"
    /\ LET n == Head(op["io"].drops).id IN
       /\ Notify(n, "dropped")
       /\ contradicted' = IF NodeListed(n) THEN contradicted \cup {n} ELSE contradicted \ {n}
    /\ Goto("io", [op["io"] EXCEPT !.at = "drop", !.drops = Tail(@)])
    /\ UNCHANGED <<nodes, pending, bucket, evictions, armed, pubk, gone>>

DropsDone ==
    /\ op["io"].at = "drop"
    /\ op["io"].drops = <<>>
    /\ armed' = IF op["io"].again THEN armed + 1 ELSE armed
    /\ Goto("io", Idle)
    /\ UNCHANGED <<nodes, pending, bucket, evictions, pubk, gone, last, contradicted>>

\* A NodeEntry replaced in m_nodes is freed when the last shared pointer to it
\* goes: those of the threads' stacks and of the lookup in progress (_tried in
\* doDiscover), which may keep it for any time.  The list of drops lets go of an
\* entry once its event is queued.  Only an entry that a bucket still points to
\* is of interest.
Expire(e) ==
    /\ e.inc < nodes[e.id]
    /\ e \notin gone
    /\ Listed(bucket[BinOf[e.id]], e)
    /\ \A t \in Thread : e \notin HeldBy(op[t])
    /\ gone' = gone \cup {e}
    /\ UNCHANGED <<nodes, pending, bucket, evictions, armed, pubk, last, contradicted, op>>

\* The clock: every recorded eviction ages.
Tick ==
    /\ \E i \in DOMAIN evictions : ~ Late(evictions[i])
    /\ evictions' = [i \in DOMAIN evictions |->
                        IF Late(evictions[i]) THEN evictions[i]
                        ELSE [evictions[i] EXCEPT !.age = @ + 1]]
    /\ UNCHANGED <<nodes, pending, bucket, armed, pubk, gone, last, contradicted, op>>
-----------------------------------------------------------------------------
Receive == \E n \in Id : \/ \E a \in Addr : Pong(n, a)
                         \/ PingNode(n)
                         \/ FindNode(n)
                         \/ Neighbours(n)

Api == \/ \E n \in Id : ApiAddNode(n) \/ ApiAddKnown(n)
       \/ \E a \in Addr : ApiDiscoverKey(a)

Proceed(t) == AddCheck(t) \/ AddInsert(t) \/ NoteFetch(t) \/ NotePlace(t) \/ Evict(t)

Timers == CheckEvictions \/ ChecksAborted \/ DropRemove \/ DropEvent \/ DropsDone

Next == \/ Receive \/ Api \/ (\E t \in Thread : Proceed(t)) \/ Timers \/ Tick
        \/ \E e \in Entry : Expire(e)

Spec == Init /\ [][Next]_vars
-----------------------------------------------------------------------------
TypeOK == /\ nodes \in [Id -> 0..MaxInc]
          /\ pending \in SUBSET Entry
          /\ bucket \in [Bin -> Seq(Entry)]
          /\ evictions \in Seq(Eviction)
          /\ armed \in Nat
          /\ pubk \in SUBSET Addr
          /\ gone \in SUBSET Entry
          /\ last \in [Id -> Event]
          /\ contradicted \in SUBSET Id
          /\ op \in [Thread -> Op]
-----------------------------------------------------------------------------
(* What holds.                                                             *)

InBucket(e) == Listed(bucket[BinOf[e.id]], e)

\* noteActiveNode and dropNode keep every bucket within s_bucketSize, list no
\* NodeEntry twice, and list each in the bucket of its distance, never this
\* node itself, although both threads rearrange the buckets and a full bucket
\* is rearranged around expired pointers.
BucketsSound ==
    \A b \in Bin :
      /\ Len(bucket[b]) <= BucketSize
      /\ \A i, j \in DOMAIN bucket[b] : bucket[b][i] = bucket[b][j] => i = j
      /\ \A i \in DOMAIN bucket[b] : /\ BinOf[bucket[b][i].id] = b
                                     /\ bucket[b][i].id # Self

\* A node gets into a bucket only after it answered a ping or was declared
\* Known ("Node will be ignored until Pong is received"), even when its entry
\* is replaced by a pending one between the look-up and the placing.
BucketsProven == \A b \in Bin : \A i \in DOMAIN bucket[b] : bucket[b][i] \notin pending

\* The last thing Host was told of a node that a bucket lists is that it was
\* added, whichever thread put it there, however often it was dropped, moved or
\* replaced before, unless dropNode queued a Dropped for it while it was listed.
BucketsAnnounced ==
    \A b \in Bin : \A i \in DOMAIN bucket[b] :
        LET n == bucket[b][i].id IN last[n] = "added" \/ n \in contradicted

ChainActive == armed > 0 \/ (op["io"].at \in {"drop", "dropped"} /\ op["io"].again)

\* evict and doCheckEvictions never run two chains of check timers, though
\* both threads may start an eviction at any time, also while a check runs.
SingleCheckChain ==
    /\ armed <= 1
    /\ armed = 1 => ~ (op["io"].at \in {"drop", "dropped"} /\ op["io"].again)

\* doCheckEvictions reports as dropped only a node whose challenge of a full
\* bucket is older than c_reqTimeout.
OnlyLateChallengersDropped ==
    [][\A n \in Id : last'[n] = "dropped" /\ last[n] # "dropped" =>
         \E i \in DOMAIN evictions : /\ evictions[i].new = n
                                     /\ evictions[i].age > ReqTimeout]_last
-----------------------------------------------------------------------------
(* What the source says and the code does not do.                          *)

\* NodeTable.h:95: the table "passes events to Host whenever a node is added
\* or removed to/from the table": with no thread inside the table, a node
\* whose last event is NodeEntryAdded is in its bucket.
EventsMatchTable ==
    (\A t \in Thread : op[t] = Idle) =>
        \A n \in Id : last[n] = "added" => InBucket(Current(n))

\* NodeTable.h:214, of evict: "Asynchronously drops _leastSeen node if it
\* doesn't reply": a dropped node was the least seen of a late eviction.
DroppedWasLeastSeen ==
    [][\A n \in Id : last'[n] = "dropped" /\ last[n] # "dropped" =>
         \E i \in DOMAIN evictions : /\ evictions[i].least = n
                                     /\ evictions[i].age > ReqTimeout]_last

\* NodeTable.h:238, of doCheckEvictions: "Called by evict() to ensure eviction
\* check is scheduled to run": an eviction that has not timed out yet will be
\* looked at.
EvictionsAreChecked ==
    (\E i \in DOMAIN evictions : evictions[i].age <= ReqTimeout) => ChainActive
=============================================================================
