-------------------------------- MODULE Trie --------------------------------
(***************************************************************************)
(* GenericTrieDB over an OverlayDB (TrieDB.h): one trie, its owner, who    *)
(* commits it, and opens the trie of any root that was committed; and the  *)
(* root that TrieHash.cpp computes of a map in one go.                     *)
(*                                                                         *)
(* A key is a sequence of nibbles.  A node is empty, a leaf, an extension  *)
(* (both are two-item nodes) or a branch.  The RLP of a node is the node   *)
(* itself together with its length; the hash of a node is the node in an   *)
(* envelope, as no two nodes have one hash.  Nibbles that no key uses have *)
(* no child, but count in a branch's length.                               *)
(*                                                                         *)
(* The operators that change nodes take the memory `mem` of the database   *)
(* and return, as `out`, what the code returns and, as `mem`, what it left *)
(* of the memory.  The memory enforces references (EnforceRefs), so an     *)
(* entry with no references cannot be seen, and is dropped.                *)
(*                                                                         *)
(* A removal may throw after it has killed nodes, and leaves the trie with *)
(* the root it had but without those nodes.  The owner then opens a root   *)
(* that was committed.                                                     *)
(*                                                                         *)
(* Not here: values that are empty or longer than 55 bytes, or equal to    *)
(* the hash of a node (isTwoItemNode and deref would follow it), and       *)
(* remove for the keys that CanRemove excludes.                            *)
(***************************************************************************)
EXTENDS SequencesExt, MemoryDB

CONSTANTS Key,      \* keys, as nibbles
          Value,    \* values
          ValueLen, \* their lengths in bytes; a single byte is below 0x80
          MaxVersions \* bound: committed roots, the empty one included

ASSUME TrieConstants ==
    /\ \A k \in Key : k \in Seq(0..15) /\ Len(k) % 2 = 0
    /\ \A v \in Value : ValueLen[v] \in 1..55

VARIABLES main,  \* m_main of the database
          disk,  \* the nodes on disk
          root,  \* the node that m_root is the hash of
          put,   \* what the owner has put under each key
          roots, \* what was put when each root was committed
          threw  \* the last removal threw

vars == <<main, disk, root, put, roots, threw>>
-----------------------------------------------------------------------------
(* Nodes, their sizes and references (TrieCommon.{h,cpp}). *)

Nibble == UNION {ToSet(k) : k \in Key}

Null == [kind |-> "null"]
NoValue == "no value"

Leaf(k, v) == [kind |-> "leaf", key |-> k, val |-> v]
Extension(k, c) == [kind |-> "ext", key |-> k, to |-> c]
Branch(c, v) == [kind |-> "branch", kids |-> c, val |-> v]
NoKids == [n \in Nibble |-> Null]
HashOf(n) == [kind |-> "hash", of |-> n]

IsTwoItem(n) == n.kind \in {"leaf", "ext"}

\* NibbleSlice::mid, shared, contains and isEarlierThan
Mid(k, i) == SubSeq(k, i + 1, Len(k))
Shared(j, k) == CHOOSE i \in 0..Len(j) :
    /\ i <= Len(k) /\ SubSeq(j, 1, i) = SubSeq(k, 1, i)
    /\ i = Len(j) \/ i = Len(k) \/ j[i + 1] # k[i + 1]
StartsWith(j, k) == Shared(j, k) = Len(k)

\* Before all keys with prefix k.
IsEarlierThan(j, k) ==
    LET i == Shared(j, k)
    IN i < Len(k) /\ (i = Len(j) \/ j[i + 1] < k[i + 1])

\* Lengths of RLP: of a string or list of n bytes below 256, and of a key's
\* hex-prefix encoding.
StringLen(n) == IF n = 1 THEN 1 ELSE IF n < 56 THEN 1 + n ELSE 2 + n
ListLen(n) == IF n < 56 THEN 1 + n ELSE 2 + n
KeyLen(k) == StringLen(1 + Len(k) \div 2)
DataLen(v) == IF v = NoValue THEN 1 ELSE StringLen(ValueLen[v])

RECURSIVE Size(_)
Size(n) ==
    CASE n.kind = "null"   -> 1
      [] n.kind = "hash"   -> StringLen(32)
      [] n.kind = "leaf"   -> ListLen(KeyLen(n.key) + DataLen(n.val))
      [] n.kind = "ext"    -> ListLen(KeyLen(n.key) + Size(n.to))
      [] n.kind = "branch" ->
            ListLen(FoldSet(LAMBDA i, sum : sum + Size(n.kids[i]),
                            16 - Cardinality(Nibble) + DataLen(n.val), Nibble))

\* A node shorter than a hash stands in its parent, others are referred to.
IsInline(n) == Size(n) < 32

\* Mutant: the value does not count.
UniqueChild(b, except) ==
    LET used == {i \in Nibble : b.kids[i] # Null}
    IN IF Cardinality(used) = 1 THEN CHOOSE i \in used : TRUE ELSE 255

\* uniqueInUse: the one child, or 16 for the value, that a branch uses, or 255.
UniqueInUse(b, except) ==
    LET used == ({i \in Nibble : b.kids[i] # Null}
                 \cup (IF b.val # NoValue THEN {16} ELSE {})) \ {except}
    IN IF Cardinality(used) = 1 THEN CHOOSE i \in used : TRUE ELSE 255
-----------------------------------------------------------------------------
(* TrieHash.cpp: the trie of a map from keys to values, in one go.         *)

\* The keys of a set, which all start with the same `pre` nibbles, share so
\* many in all.
SharedByAll(S) == LET j == CHOOSE j \in S : TRUE IN Min({Shared(j, k) : k \in S})

\* hash256aux
Refer(n) == IF IsInline(n) THEN n ELSE HashOf(n)

RECURSIVE Hash256Rlp(_, _, _)
Hash256Rlp(map, S, pre) ==
    IF S = {} THEN Null
    ELSE IF Cardinality(S) = 1
    THEN LET k == CHOOSE k \in S : TRUE IN Leaf(Mid(k, pre), map[k])
    ELSE IF SharedByAll(S) > pre
    THEN LET k == CHOOSE k \in S : TRUE
         IN Extension(SubSeq(k, pre + 1, SharedByAll(S)),
                      Refer(Hash256Rlp(map, S, SharedByAll(S))))
    ELSE Branch([i \in Nibble |->
                    Refer(Hash256Rlp(map, {k \in S : Len(k) > pre /\ k[pre + 1] = i}, pre + 1))],
                IF \E k \in S : Len(k) = pre
                THEN map[CHOOSE k \in S : Len(k) = pre] ELSE NoValue)

\* rlp256
Rlp256(map) == Hash256Rlp(map, {k \in DOMAIN map : map[k] # NoValue}, 0)
-----------------------------------------------------------------------------
(* The trie in its database *)

Empty == [k \in Key |-> NoValue]

\* node and deref: a child that is a hash is looked up; one that is not found
\* is as good as empty.
Deref(mem, c) ==
    IF c.kind # "hash" THEN c
    ELSE IF Exists(mem, disk, c.of, TRUE) THEN c.of ELSE Null

ForceKill(mem, n) == Purged(Killed(mem, n))
KillNode(mem, n) == IF IsInline(n) THEN mem ELSE ForceKill(mem, n)

\* streamNode
Stream(r) == IF IsInline(r.out) THEN r
             ELSE [out |-> HashOf(r.out), mem |-> Inserted(r.mem, r.out)]
-----------------------------------------------------------------------------
(* Insertion *)

Place(mem, n, k, v) ==
    [out |-> IF n = Null THEN Leaf(k, v) ELSE [n EXCEPT !.val = v],
     mem |-> KillNode(mem, n)]

\* Two-item node n is split after its first s nibbles.
Cleve(mem, n, s) ==
    LET bottom == Stream([out |-> [n EXCEPT !.key = Mid(@, s)], mem |-> KillNode(mem, n)])
    IN [out |-> Extension(SubSeq(n.key, 1, s), bottom.out), mem |-> bottom.mem]

\* Two-item node n becomes a branch with one child, or none and a value.
BranchOf(mem, n) ==
    LET killed == KillNode(mem, n)
        rest == IF n.kind = "leaf" \/ Len(n.key) > 1
                THEN Stream([out |-> [n EXCEPT !.key = Mid(@, 1)], mem |-> killed])
                ELSE [out |-> n.to, mem |-> killed]
    IN IF n.key = <<>> THEN [out |-> Branch(NoKids, n.val), mem |-> killed]
       ELSE [out |-> Branch([NoKids EXCEPT ![n.key[1]] = rest.out], NoValue),
             mem |-> rest.mem]

RECURSIVE MergeAt(_, _, _, _, _)

MergeAtAux(mem, c, k, v) ==
    Stream(MergeAt(mem, Deref(mem, c), k, v, c.kind # "hash"))

\* What becomes of node n when k gets the value v beneath it.
MergeAt(mem, n, k, v, inLine) ==
    LET left == IF inLine THEN mem ELSE KillNode(mem, n)
    IN CASE n = Null \/ (n.kind = "leaf" /\ n.key = k) \/ (n.kind = "branch" /\ k = <<>>) ->
              Place(mem, n, k, v)
         [] n.kind = "ext" /\ StartsWith(k, n.key) ->
              LET r == MergeAtAux(left, n.to, Mid(k, Len(n.key)), v)
              IN [r EXCEPT !.out = [n EXCEPT !.to = r.out]]
         [] n.kind = "branch" /\ k # <<>> ->
              LET r == MergeAtAux(left, n.kids[k[1]], Mid(k, 1), v)
              IN [r EXCEPT !.out = [n EXCEPT !.kids[k[1]] = r.out]]
         [] OTHER ->
              LET r == IF Shared(k, n.key) > 0 THEN Cleve(mem, n, Shared(k, n.key))
                       ELSE BranchOf(mem, n)
              IN MergeAt(r.mem, r.out, k, v, TRUE)
-----------------------------------------------------------------------------
(* Removal *)

NoChange == [kind |-> "no change"]
Thrown == [kind |-> "thrown"]

\* Mutant: a child that is referred to by its hash is never grafted.
IsTwoItemInline(mem, c) == IsTwoItem(c)

IsTwoItemNode(mem, c) == IsTwoItem(Deref(mem, c))

\* Extension n and the two-item node under it become one.
Graft(mem, n) ==
    LET below == Deref(mem, n.to)
    IN [out |-> [below EXCEPT !.key = n.key \o @],
        mem |-> IF n.to.kind = "hash" THEN ForceKill(mem, below) ELSE mem]

\* merge: branch n, in which only i is in use, becomes a two-item node.  The
\* value is asked whether it is one, too: when it is longer than a hash, toHash
\* throws.
Merge(mem, n, i) ==
    IF i = 16
    THEN [out |-> IF ValueLen[n.val] > 32 THEN Thrown ELSE Leaf(<<>>, n.val), mem |-> mem]
    ELSE LET one == Extension(<<i>>, n.kids[i])
         IN IF IsTwoItemNode(mem, one.to) THEN Graft(mem, one) ELSE [out |-> one, mem |-> mem]

RECURSIVE DeleteAt(_, _, _)

DeleteAtAux(mem, c, k) ==
    LET r == DeleteAt(mem, Deref(mem, c), k)
    IN IF r.out \in {NoChange, Thrown} THEN r ELSE Stream(r)

\* What becomes of node n when k is removed beneath it.
DeleteAt(mem, n, k) ==
    CASE n.kind = "leaf" /\ n.key = k -> [out |-> Null, mem |-> KillNode(mem, n)]
      [] n.kind = "ext" /\ StartsWith(k, n.key) ->
           LET r == DeleteAtAux(mem, n.to, Mid(k, Len(n.key)))
               e == [n EXCEPT !.to = r.out]
               left == KillNode(r.mem, n)
           IN IF r.out \in {NoChange, Thrown} THEN r
              ELSE IF IsTwoItemNode(left, e.to) THEN Graft(left, e)
              ELSE [out |-> e, mem |-> left]
      [] n.kind = "branch" /\ k = <<>> /\ n.val # NoValue ->
           LET left == KillNode(mem, n)
               used == UniqueInUse(n, 16)
           IN IF used # 255 THEN Merge(left, n, used)
              ELSE [out |-> [n EXCEPT !.val = NoValue], mem |-> left]
      [] n.kind = "branch" /\ k # <<>> ->
           LET r == DeleteAtAux(mem, n.kids[k[1]], Mid(k, 1))
               b == [n EXCEPT !.kids[k[1]] = r.out]
               left == KillNode(r.mem, n)
               used == UniqueInUse(b, 255)
           IN IF r.out \in {NoChange, Thrown} THEN r
              ELSE IF used # 255 THEN Merge(left, b, used)
              ELSE [out |-> b, mem |-> left]
      [] OTHER -> [out |-> NoChange, mem |-> mem]
-----------------------------------------------------------------------------
(* Reading *)

\* at and contains, from node c; `mem` is the memory that is looked into.
RECURSIVE AtAux(_, _, _)
AtAux(mem, c, k) ==
    LET n == Deref(mem, c)
    IN CASE n.kind = "leaf" /\ n.key = k -> n.val
         [] n.kind = "ext" /\ StartsWith(k, n.key) -> AtAux(mem, n.to, Mid(k, Len(n.key)))
         [] n.kind = "branch" /\ k = <<>> -> n.val
         [] n.kind = "branch" /\ k # <<>> -> AtAux(mem, n.kids[k[1]], Mid(k, 1))
         [] OTHER -> NoValue

At(k) == AtAux(main, HashOf(root), k)

\* descendKey, descendEntry and descendList: how often each node that is
\* referred to by its hash is met below c.
RECURSIVE Descend(_, _)
Descend(c, wasExt) ==
    LET n == Deref(main, c)
        below == CASE n.kind = "ext" /\ ~wasExt -> Descend(n.to, TRUE)
                   [] n.kind = "branch" ->
                        FoldSet(LAMBDA i, bag : bag (+) Descend(n.kids[i], FALSE), EmptyBag, Nibble)
                   [] OTHER -> EmptyBag
    IN IF c.kind = "hash" THEN below (+) SetToBag({c.of}) ELSE below

\* iterator: a trail of nodes with the key up to each and the child it is at;
\* 255 is before the first, 16 the value, 17 after the last.
Start == <<[node |-> root, key |-> <<>>, child |-> 255]>>

\* incrementChild; the children that no key uses are empty.
Increment(i) == LET more == {j \in Nibble : i = 16 \/ j > i} IN
    IF more = {} THEN 17 ELSE Min(more)

RECURSIVE Advance(_, _)

Step(trail, child) == Front(trail) \o <<[Last(trail) EXCEPT !.child = child]>>

\* From the child that the trail is at, the first that is not empty.
RECURSIVE Scan(_, _)
Scan(trail, k) ==
    LET b == Last(trail)
    IN CASE b.child = 17 -> Advance(Front(trail), <<>>)
         [] b.child = 16 /\ b.node.val # NoValue -> trail
         [] b.child < 16 /\ b.node.kids[b.child] # Null ->
              Advance(Append(trail, [node |-> Deref(main, b.node.kids[b.child]),
                                     key |-> Append(b.key, b.child), child |-> 255]), k)
         [] OTHER -> Scan(Step(trail, Increment(b.child)), <<>>)

\* iterator::next: on to the next key, or to the first not before key k.
Advance(trail, k) ==
    IF trail = <<>> THEN <<>>
    ELSE LET b == Last(trail)
             n == b.node
             entering == b.child = 255
             rest == IF StartsWith(k, n.key) THEN Mid(k, Len(n.key)) ELSE <<>>
             key == b.key \o n.key
         IN CASE n.kind = "branch" ->
                   Scan(Step(trail, IF ~entering THEN Increment(b.child)
                                    ELSE IF k = <<>> THEN 16 ELSE k[1]),
                        Mid(k, 1))
              [] IsTwoItem(n) /\ entering /\ (StartsWith(k, n.key) \/ IsEarlierThan(k, n.key)) ->
                   IF n.kind = "ext"
                   THEN Advance(Front(trail) \o <<[b EXCEPT !.node = Deref(main, n.to), !.key = key]>>, rest)
                   ELSE IF rest = <<>> THEN Front(trail) \o <<[b EXCEPT !.key = key, !.child = 0]>>
                   ELSE Advance(Front(trail), <<>>)
              [] OTHER -> Advance(Front(trail), <<>>)

\* The keys that an iterator meets from lower_bound(k) to end.
RECURSIVE KeysOf(_)
KeysOf(trail) == IF trail = <<>> THEN <<>>
                 ELSE <<Last(trail).key>> \o KeysOf(Advance(trail, <<>>))
KeysFrom(k) == KeysOf(Advance(Start, k))
-----------------------------------------------------------------------------
\* Mutant: the hash of a root that would stand in a parent stays.
RootLeft(mem, n) == KillNode(mem, n)

\* A root is referred to by its hash whatever its length.
RootKilled(mem, n) == IF IsInline(n) THEN ForceKill(mem, n) ELSE mem

NewRoot(old, r) ==
    /\ root' = r.out
    /\ main' = Inserted(RootKilled(r.mem, old), r.out)
    /\ UNCHANGED <<disk, roots>>

Insert(k, v) == /\ ~threw
                /\ NewRoot(root, MergeAt(main, root, k, v, FALSE))
                /\ put' = [put EXCEPT ![k] = v]
                /\ UNCHANGED threw

\* A key is removed that is there or that leaves the trie's keys at a nibble.
\* Below the end of another key, deleteAt takes a value for a node and throws,
\* or it reads beyond k.
CanRemove(k) ==
    \/ put[k] # NoValue
    \/ \A j \in Key : put[j] # NoValue => ~StartsWith(j, k) /\ ~StartsWith(k, j)

RemoveKey(k) ==
    LET r == DeleteAt(main, root, k)
    IN /\ ~threw /\ CanRemove(k)
       /\ threw' = (r.out = Thrown)
       /\ IF threw' THEN main' = r.mem /\ UNCHANGED <<disk, root, put, roots>>
          ELSE /\ IF r.out = NoChange THEN UNCHANGED <<main, disk, root, roots>>
                  ELSE NewRoot(root, r)
               /\ put' = [put EXCEPT ![k] = NoValue]

Commit ==
    /\ ~threw
    /\ Cardinality(DOMAIN roots \cup {root}) <= MaxVersions
    /\ disk' = disk \cup Batch(main)
    /\ main' = NoEntries
    /\ roots' = (root :> put) @@ roots
    /\ UNCHANGED <<root, put, threw>>

\* setRoot: the empty trie is made when it is not there.
SetRoot(r) ==
    /\ root' = r
    /\ main' = IF r = Null /\ Null \notin disk THEN Inserted(NoEntries, Null) ELSE NoEntries

\* A rollback, or a crash and the next start.
Reopen == \E r \in DOMAIN roots : /\ SetRoot(r)
                                  /\ put' = roots[r]
                                  /\ threw' = FALSE
                                  /\ UNCHANGED <<disk, roots>>

Init == /\ root = Null
        /\ main = Inserted(NoEntries, Null)
        /\ disk = {}
        /\ put = Empty
        /\ roots = (Null :> Empty)
        /\ threw = FALSE

Next == \/ \E k \in Key : RemoveKey(k) \/ \E v \in Value : Insert(k, v)
        \/ Commit
        \/ Reopen

Spec == Init /\ [][Next]_vars
-----------------------------------------------------------------------------
\* Keys in order, a key before those that start with it.
Before(j, k) == j # k /\ (IsPrefix(j, k) \/ LET i == Shared(j, k) + 1
                                               IN i <= Len(j) /\ i <= Len(k) /\ j[i] < k[i])

\* From lower_bound(k), and from begin, iteration gives the keys there are, in
\* order, from the first that is not before k.
IteratesInOrder ==
    \A k \in Key \cup {<<>>} :
        LET met == KeysFrom(k)
        IN /\ ToSet(met) = {j \in Key : put[j] # NoValue /\ ~Before(j, k)}
           /\ \A i \in 1..Len(met) - 1 : Before(met[i], met[i + 1])

\* Unless a removal threw, the trie holds what was put last, read by key and by
\* iteration; and always every root that was committed opens to what it was the
\* root of, from the disk alone: no kill, not even of a removal that throws in
\* the middle, takes away a node that another version uses.
ReadsWhatWasPut ==
    /\ threw \/ ((\A k \in Key : At(k) = put[k]) /\ IteratesInOrder)
    /\ \A r \in DOMAIN roots \ {Null}, k \in Key :
            AtAux(NoEntries, HashOf(r), k) = roots[r][k]

\* The root depends on the contents only, however they came about, and is the
\* one that hash256 of TrieHash.cpp computes from them; a removal that throws
\* changes neither.
RootCanonical == root = Rlp256(put)

\* A node not on disk is counted as often as the trie refers to it: check(true)
\* finds no left-overs before the first commit, and none is written later.  A
\* removal that throws has killed nodes of a root that is still the trie's.
ExactCounts ==
    LET met == Descend(HashOf(root), FALSE)
    IN threw \/ \A n \in (BagToSet(met) \cup DOMAIN main) \ disk :
                    CopiesIn(n, met) = Refs(main, n)
=============================================================================
