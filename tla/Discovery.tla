------------------------------ MODULE Discovery ------------------------------
(***************************************************************************)
(* How NodeTable.cpp finds nodes: nearestNodeEntries, which answers        *)
(* FindNode packets too, and the lookups of doDiscovery and doDiscover.    *)
(*                                                                         *)
(* An id is the number that its hash is.  The table changes at any time    *)
(* (see NodeTable); what m_timers waits for is a callback, and the network *)
(* thread runs one callback after the other, each with success or aborted  *)
(* (see Deadline).                                                         *)
(***************************************************************************)
EXTENDS Integers, FiniteSetsExt

CONSTANTS Bits,       \* s_bits
          Me,         \* this node
          Id,         \* other nodes
          Denied,     \* those whose endpoint is not allowed
          Target,     \* what is looked for
          BucketSize, \* s_bucketSize
          Alpha,      \* s_alpha
          MaxSteps    \* s_maxSteps

Bins == Bits - 1

\* The place of the highest bit in which two hashes differ.
distance(a, b) == Max({0} \cup {i \in 1 .. Bits - 1 : a \div 2 ^ i # b \div 2 ^ i})

Least(a, b) == IF a <= b THEN a ELSE b

\* Nobody has a hash that differs from this node's in the last bit at most.
DiscoveryConstants ==
    /\ {Me} \cup Id \cup Target \subseteq 0 .. 2 ^ Bits - 1
    /\ \A n \in Id : distance(Me, n) > 0
    /\ Bits \in Nat /\ IsFiniteSet(Id)
    /\ Denied \subseteq Id /\ {BucketSize, Alpha, MaxSteps} \subseteq Nat \ {0}

VARIABLES table,      \* the nodes in m_state
          socketOpen, \* the socket is open
          lookups,    \* callbacks that m_timers waits for: of doDiscovery, or of a round
          asks,       \* how often the lookup has asked each entry
          aborted     \* history: a callback was aborted

discoveryVars == <<table, socketOpen, lookups, asks, aborted>>

\* bucket_UNSAFE: m_state[i] has the nodes at distance i + 1.
Bucket(i) == {n \in table : distance(Me, n) - 1 = i}

\* Mutant: the search begins one bucket further down.
VisitedBelow(head) == IF head < 2 THEN head .. Bins - 1 ELSE 1 .. head - 2

\* The buckets that nearestNodeEntries looks at, from the distance of the
\* target: up from there, down from there, or both until one end is reached.
\* count is never incremented, and limits nothing; m_state[0] is seldom seen.
Visited(head) ==
    LET last == Bins - 1
        steps == Bins - head
    IN  CASE head < 2            -> head .. last
          [] head - 1 = last     -> 1 .. last
          [] head \in 2 .. last  -> (head .. last) \cup {i \in 1 .. head - 1 : i > head - 1 - steps}

\* What nearestNodeEntries may return, equally far nodes being in any order.
Nearest(target) ==
    LET found == (UNION {Bucket(i) : i \in Visited(distance(Me, target))}) \ Denied
        size == Least(BucketSize, Cardinality(found))
    IN  { r \in kSubset(size, found) :
             \A n \in r, o \in found \ r : distance(target, n) <= distance(target, o) }

\* The nodes that a round asks: the nearest of those that were not yet.
Asked(nearest, tried, target) ==
    LET new == nearest \ tried
    IN  { a \in kSubset(Least(Alpha, Cardinality(new)), new) :
             \A n \in a, o \in new \ a : distance(target, n) <= distance(target, o) }

Refresh == [at |-> "refresh"]
Round(target, round, tried) == [at |-> "round", target |-> target, round |-> round, tried |-> tried]

\* Every callback in timers is one of a kind: a second one would have run.
Replaced(callback, by) == lookups' = (lookups \ {callback}) \cup by

NoAsks == [n \in Id |-> 0]

\* Mutant: a lookup that knows nobody to ask ends the discovery.
DiscoverUntilAlone(callback, target, round, tried, before) ==
    IF round = MaxSteps THEN Replaced(callback, {Refresh}) /\ asks' = before
    ELSE \E nearest \in Nearest(target) : \E ask \in Asked(nearest, tried, target) :
            /\ asks' = [n \in Id |-> before[n] + IF n \in ask THEN 1 ELSE 0]
            /\ Replaced(callback, IF ask = {} THEN {} ELSE {Round(target, round + 1, tried \cup ask)})

\* doDiscover, when callback has run.
Discover(callback, target, round, tried, before) ==
    IF round = MaxSteps THEN Replaced(callback, {Refresh}) /\ asks' = before
    ELSE \E nearest \in Nearest(target) : \E ask \in Asked(nearest, tried, target) :
            /\ asks' = [n \in Id |-> before[n] + IF n \in ask THEN 1 ELSE 0]
            /\ Replaced(callback, IF ask = {} THEN {Refresh}
                                  ELSE {Round(target, round + 1, tried \cup ask)})

DiscoveryInit == /\ table = {}
                 /\ socketOpen = TRUE
                 /\ lookups = {Refresh}
                 /\ asks = NoAsks
                 /\ aborted = FALSE

\* The timer of doDiscovery: a new lookup, in round 0 with nothing tried.
NewLookup(target) ==
    /\ Refresh \in lookups
    /\ IF socketOpen THEN Discover(Refresh, target, 0, {}, NoAsks)
                     ELSE Replaced(Refresh, {}) /\ UNCHANGED asks
    /\ UNCHANGED <<table, socketOpen, aborted>>

\* The timer of a round.
NextRound(callback) ==
    /\ callback.at = "round"
    /\ IF socketOpen THEN Discover(callback, callback.target, callback.round, callback.tried, asks)
                     ELSE Replaced(callback, {}) /\ UNCHANGED asks
    /\ UNCHANGED <<table, socketOpen, aborted>>

\* Either timer, if reap destroyed it before its callback was called
\* (operation_aborted): nothing is scheduled, neither a round nor a lookup.
LookupAborted(callback) ==
    /\ Replaced(callback, {})
    /\ aborted' = TRUE
    /\ UNCHANGED <<table, socketOpen, asks>>

\* The rest of the table.  An entry that is dropped is not the one that may be
\* added later for the same node, which no lookup has tried.
AddEntry(n) ==
    /\ n \notin table /\ Cardinality(Bucket(distance(Me, n) - 1)) < BucketSize
    /\ table' = table \cup {n}
    /\ UNCHANGED <<socketOpen, lookups, asks, aborted>>

DropEntry(n) ==
    /\ n \in table
    /\ table' = table \ {n}
    /\ lookups' = {IF c.at = "round" THEN [c EXCEPT !.tried = @ \ {n}] ELSE c : c \in lookups}
    /\ asks' = [asks EXCEPT ![n] = 0]
    /\ UNCHANGED <<socketOpen, aborted>>

Close == socketOpen /\ socketOpen' = FALSE /\ UNCHANGED <<table, lookups, asks, aborted>>

Timers == \/ \E target \in Target : NewLookup(target)
          \/ \E c \in lookups : NextRound(c) \/ LookupAborted(c)

DiscoveryNext == \/ Timers \/ Close
                 \/ \E n \in Id : AddEntry(n) \/ DropEntry(n)

\* A timer that is due has its callback called, one way or the other.
DiscoveryFairness == WF_discoveryVars(Timers)

DiscoverySpec == DiscoveryInit /\ [][DiscoveryNext]_discoveryVars /\ DiscoveryFairness

---------------------------------------------------------------------------
\* doDiscovery and doDiscover each schedule the other on every path: never
\* two lookups at a time, which would double the traffic for ever.
SingleLookup == Cardinality(lookups) <= 1

\* One lookup sends no node entry two FindNode packets (NodeTable.cpp:175),
\* though entries come and go between its rounds.
AskedOnce == \A n \in Id : asks[n] <= 1

\* Whoever the search leaves out, it is not a node of the target's own bucket
\* for one that is further from the target, or for nobody (distance 0 and 1
\* aside, whose searches go up from the bucket above).
OwnBucketFound ==
    \A target \in Target : \A r \in Nearest(target) :
       LET head == distance(Me, target)
       IN  \A n \in Bucket(head - 1) \ (Denied \cup r) :
              head >= 2 => /\ Cardinality(r) = BucketSize
                           /\ \A o \in r : distance(target, o) <= distance(target, n)

\* There is one lookup at a time, which asks a node entry once, and whose search,
\* nearestNodeEntries, leaves out no node of the target's own bucket for a worse.
LookupsSound == SingleLookup /\ AskedOnce /\ OwnBucketFound

\* doDiscover and doDiscovery schedule each other: while the socket is open every
\* lookup, whoever it finds or does not find, comes to an end and to the wait for
\* the next (NodeTable.h:241, "Looks up a random node at @c_bucketRefresh
\* interval"), unless a callback is aborted.  That a callback can be aborted, and
\* so end the chain, is what Deadline shows.
LookupsGoOn == []<>(~socketOpen \/ aborted \/ Refresh \in lookups)

\* NodeTable.h:211: "Returns nodes from node table which are closest to
\* target."
ClosestAreFound ==
    \A target \in Target : \A r \in Nearest(target) :
       \A n \in table \ (Denied \cup r) :
          /\ Cardinality(r) = BucketSize
          /\ \A o \in r : distance(target, o) <= distance(target, n)
=============================================================================
