-------------------------- MODULE NodeTable_proofs --------------------------
(***************************************************************************)
(* Proofs about NodeTable for every value of its constants: types, and the *)
(* soundness of the buckets under two threads.                             *)
(***************************************************************************)
EXTENDS NodeTable, SequenceTheorems, TLAPS

\* A bucket's list taken alone: its part of BucketsSound.
Fits(s, b) ==
    /\ s \in Seq(Entry)
    /\ Len(s) <= BucketSize
    /\ \A i, j \in DOMAIN s : s[i] = s[j] => i = j
    /\ \A i \in DOMAIN s : BinOf[s[i].id] = b /\ s[i].id # Self

\* An entry that exists, was proven alive and was announced.
Made(e) == e \in Entry /\ e.inc <= nodes[e.id]
Told(n) == last[n] = "added" \/ n \in contradicted
Good(e) == Made(e) /\ e \notin pending /\ Told(e.id)

\* No event takes a listed node's announcement back.
StillTold == \A n \in Id : NodeListed(n) /\ Told(n) => Told(n)'

\* What a thread carries from one critical section to the next stays true
\* while the other thread works: the entry it is about to place exists and is
\* not pending, and neither are the ids of a recorded eviction unknown.
OpOK(o) ==
    /\ o.at = "place" => Made(o.entry) /\ o.entry \notin pending /\ o.entry.id # Self
    /\ o.at = "evict" => Made(o.entry)
    /\ o.at \in {"add", "insert"} => o.todo # <<>>
    /\ o.at = "dropped" => o.drops # <<>>

\* The inductive invariant.
IInv ==
    /\ TypeOK
    /\ \A b \in Bin : Fits(bucket[b], b) /\ \A i \in DOMAIN bucket[b] : Good(bucket[b][i])
    /\ \A e \in pending : Made(e)
    /\ \A i \in DOMAIN evictions : nodes[evictions[i].new] # 0
    /\ \A t \in Thread : OpOK(op[t])
-----------------------------------------------------------------------------
(* Lists.                                                                  *)

\* The position of a listed entry is one of its positions.
LEMMA PositionOfListed ==
    ASSUME NEW S, NEW s \in Seq(S), NEW e, Listed(s, e)
    PROVE  Position(s, e) \in 1..Len(s) /\ s[Position(s, e)] = e
  BY DEF Listed, Position

\* noteActiveNode's remove_if leaves a prefix of the list, without the entry.
LEMMA WithoutActiveFits ==
    ASSUME NEW b \in Bin, NEW s, NEW e, Fits(s, b)
    PROVE  LET k == WithoutActive(s, e) IN
           /\ Fits(k, b)
           /\ \A i \in DOMAIN k : k[i] # e /\ \E j \in DOMAIN s : k[i] = s[j]
  <1>1. CASE ~ Listed(s, e)
    BY <1>1 DEF WithoutActive, Listed
  <1>2. CASE Listed(s, e)
    <2> DEFINE p == Position(s, e)
               k == SubSeq(s, 1, p - 1)
    <2>1. p \in 1..Len(s) /\ s[p] = e
      BY <1>2, PositionOfListed DEF Fits
    <2>2. Len(s) \in Nat /\ DOMAIN s = 1..Len(s) /\ \A i \in 1..Len(s) : s[i] \in Entry
      BY LenProperties, ElementOfSeq DEF Fits
    <2>3. /\ k \in Seq(Entry)
          /\ Len(k) = p - 1
          /\ \A i \in 1..(p - 1) : k[i] = s[i]
      <3>1. \A i \in 1..(p - 1) : s[i] \in Entry
        BY <2>1, <2>2
      <3>2. 1 \in Int /\ p - 1 \in Int
        BY <2>1, <2>2
      <3> HIDE DEF p, k
      <3>3. /\ SubSeq(s, 1, p - 1) \in Seq(Entry)
            /\ Len(SubSeq(s, 1, p - 1)) = IF 1 <= p - 1 THEN p - 1 - 1 + 1 ELSE 0
            /\ \A i \in 1..(p - 1 - 1 + 1) : SubSeq(s, 1, p - 1)[i] = s[1 + i - 1]
        BY <3>1, <3>2, SubSeqProperties
      <3> QED
        BY <3>3, <2>1, <2>2 DEF k
    <2>4. DOMAIN k = 1..(p - 1)
      BY <2>3, LenProperties
    <2> HIDE DEF p, k
    <2>5. Fits(k, b)
      BY <2>1, <2>2, <2>3, <2>4, ConstantsOK DEF Fits
    <2>6. \A i \in DOMAIN k : k[i] # e /\ \E j \in DOMAIN s : k[i] = s[j]
      BY <2>1, <2>2, <2>3, <2>4 DEF Fits
    <2> QED
      BY <1>2, <2>5, <2>6 DEF WithoutActive, k, p
  <1> QED
    BY <1>1, <1>2

\* dropNode's remove_if leaves the other entries.
LEMMA UnlistedFits ==
    ASSUME NEW b \in Bin, NEW s, NEW e, Fits(s, b)
    PROVE  LET k == Unlisted(s, e) IN
           /\ Fits(k, b)
           /\ \A i \in DOMAIN k : \E j \in DOMAIN s : k[i] = s[j]
  <1>1. CASE ~ Listed(s, e)
    BY <1>1 DEF Unlisted
  <1>2. CASE Listed(s, e)
    <2> DEFINE p == Position(s, e)
               front == SubSeq(s, 1, p - 1)
               back == SubSeq(s, p + 1, Len(s))
               k == front \o back
    <2>1. p \in 1..Len(s)
      BY <1>2, PositionOfListed DEF Fits
    <2>2. Len(s) \in Nat /\ DOMAIN s = 1..Len(s) /\ \A i \in 1..Len(s) : s[i] \in Entry
      BY LenProperties, ElementOfSeq DEF Fits
    <2> HIDE DEF p
    <2>3. /\ front \in Seq(Entry)
          /\ Len(front) = p - 1
          /\ \A i \in 1..(p - 1) : front[i] = s[i]
      <3>1. /\ SubSeq(s, 1, p - 1) \in Seq(Entry)
            /\ Len(SubSeq(s, 1, p - 1)) = IF 1 <= p - 1 THEN p - 1 - 1 + 1 ELSE 0
            /\ \A i \in 1..(p - 1 - 1 + 1) : SubSeq(s, 1, p - 1)[i] = s[1 + i - 1]
        <4>1. 1 \in Int /\ p - 1 \in Int /\ \A i \in 1..(p - 1) : s[i] \in Entry
          BY <2>1, <2>2
        <4> QED
          BY <4>1, SubSeqProperties
      <3> QED
        BY <3>1, <2>1, <2>2
    <2>4. /\ back \in Seq(Entry)
          /\ Len(back) = Len(s) - p
          /\ \A i \in 1..(Len(s) - p) : back[i] = s[p + i]
      <3>1. /\ SubSeq(s, p + 1, Len(s)) \in Seq(Entry)
            /\ Len(SubSeq(s, p + 1, Len(s))) =
                 IF p + 1 <= Len(s) THEN Len(s) - (p + 1) + 1 ELSE 0
            /\ \A i \in 1..(Len(s) - (p + 1) + 1) :
                 SubSeq(s, p + 1, Len(s))[i] = s[(p + 1) + i - 1]
        <4>1. p + 1 \in Int /\ Len(s) \in Int /\ \A i \in (p + 1)..Len(s) : s[i] \in Entry
          BY <2>1, <2>2
        <4> QED
          BY <4>1, SubSeqProperties
      <3> QED
        BY <3>1, <2>1, <2>2
    <2> HIDE DEF front, back
    <2>5. /\ k \in Seq(Entry)
          /\ Len(k) = Len(s) - 1
          /\ \A i \in 1..(Len(s) - 1) : k[i] = IF i < p THEN s[i] ELSE s[i + 1]
      <3>1. /\ k \in Seq(Entry)
            /\ Len(k) = Len(front) + Len(back)
            /\ \A i \in 1..(Len(front) + Len(back)) :
                 k[i] = IF i <= Len(front) THEN front[i] ELSE back[i - Len(front)]
        BY <2>3, <2>4, ConcatProperties
      <3> HIDE DEF k
      <3>2. Len(k) = Len(s) - 1
        BY <3>1, <2>1, <2>2, <2>3, <2>4
      <3>3. ASSUME NEW i \in 1..(Len(s) - 1)
            PROVE  k[i] = IF i < p THEN s[i] ELSE s[i + 1]
        <4>1. i \in 1..(Len(front) + Len(back))
          BY <2>1, <2>2, <2>3, <2>4
        <4>2. k[i] = IF i <= Len(front) THEN front[i] ELSE back[i - Len(front)]
          BY <4>1, <3>1
        <4>3. CASE i < p
          <5>1. i <= Len(front) /\ i \in 1..(p - 1)
            BY <4>3, <2>1, <2>2, <2>3
          <5> QED
            BY <4>2, <4>3, <5>1, <2>3
        <4>4. CASE ~ (i < p)
          <5>1. i - Len(front) \in 1..(Len(s) - p)
            BY <4>4, <2>1, <2>2, <2>3
          <5>2. ~ (i <= Len(front)) /\ p + (i - Len(front)) = i + 1
            BY <4>4, <2>1, <2>2, <2>3
          <5>3. back[i - Len(front)] = s[p + (i - Len(front))]
            BY <5>1, <2>4
          <5> QED
            BY <4>2, <4>4, <5>2, <5>3
        <4> QED
          BY <4>3, <4>4
      <3> QED
        BY <3>1, <3>2, <3>3
    <2>6. DOMAIN k = 1..(Len(s) - 1)
      BY <2>5, LenProperties
    <2> HIDE DEF k
    <2>7. Len(k) <= BucketSize
      BY <2>2, <2>5, ConstantsOK DEF Fits
    <2>8. ASSUME NEW i \in DOMAIN k
          PROVE  \E j \in DOMAIN s : k[i] = s[j]
      <3>1. i \in 1 .. Len(s) - 1
        BY <2>6
      <3>2. /\ i \in DOMAIN s /\ i + 1 \in DOMAIN s
            /\ k[i] = s[i] \/ k[i] = s[i + 1]
        BY <2>1, <2>2, <2>5, <3>1
      <3> QED
        BY <3>2
    <2>9. ASSUME NEW i \in DOMAIN k, NEW j \in DOMAIN k, k[i] = k[j]
          PROVE  i = j
      <3> DEFINE was(x) == IF x < p THEN x ELSE x + 1
      <3>1. i \in Nat /\ j \in Nat /\ p \in Nat
        BY <2>1, <2>2, <2>6
      <3>2. was(i) \in DOMAIN s /\ was(j) \in DOMAIN s
        BY <2>1, <2>2, <2>6
      <3>3. k[i] = s[was(i)] /\ k[j] = s[was(j)]
        BY <2>5, <2>6
      <3>4. was(i) = was(j)
        <4> HIDE DEF was
        <4> QED
          BY <2>9, <3>2, <3>3 DEF Fits
      <3> QED
        BY <3>1, <3>4
    <2>10. \A i \in DOMAIN k : BinOf[k[i].id] = b /\ k[i].id # Self
      BY <2>8 DEF Fits
    <2>11. Fits(k, b)
      BY <2>5, <2>7, <2>9, <2>10 DEF Fits
    <2> QED
      BY <1>2, <2>8, <2>11 DEF Unlisted, k, front, back, p
  <1> QED
    BY <1>1, <1>2

\* push_back of an entry that is not listed, on a list with room.
LEMMA AppendFits ==
    ASSUME NEW b \in Bin, NEW s, NEW e \in Entry, Fits(s, b),
           Len(s) < BucketSize, BinOf[e.id] = b, e.id # Self,
           \A i \in DOMAIN s : s[i] # e
    PROVE  LET k == Append(s, e) IN
           /\ Fits(k, b)
           /\ \A i \in DOMAIN k : k[i] = e \/ \E j \in DOMAIN s : k[i] = s[j]
  <1> DEFINE k == Append(s, e)
  <1>1. Len(s) \in Nat /\ DOMAIN s = 1..Len(s)
    BY LenProperties DEF Fits
  <1>2. /\ k \in Seq(Entry)
        /\ Len(k) = Len(s) + 1
        /\ \A i \in 1..Len(s) : k[i] = s[i]
        /\ k[Len(s) + 1] = e
    BY AppendProperties DEF Fits
  <1>3. DOMAIN k = 1..(Len(s) + 1)
    BY <1>2, LenProperties
  <1> HIDE DEF k
  <1>4. \A i \in DOMAIN k : k[i] = e \/ \E j \in DOMAIN s : k[i] = s[j]
    BY <1>1, <1>2, <1>3
  <1>5. Fits(k, b)
    BY <1>1, <1>2, <1>3, ConstantsOK DEF Fits
  <1> QED
    BY <1>4, <1>5 DEF k

\* pop_front.
LEMMA TailFits ==
    ASSUME NEW b \in Bin, NEW s, Fits(s, b), s # <<>>
    PROVE  /\ Fits(Tail(s), b)
           /\ Len(Tail(s)) = Len(s) - 1
           /\ \A i \in DOMAIN Tail(s) : Tail(s)[i] = s[i + 1] /\ i + 1 \in DOMAIN s
  <1>1. Len(s) \in Nat /\ DOMAIN s = 1..Len(s)
    BY LenProperties DEF Fits
  <1>2. /\ Tail(s) \in Seq(Entry)
        /\ Len(Tail(s)) = Len(s) - 1
        /\ \A i \in 1..Len(Tail(s)) : Tail(s)[i] = s[i + 1]
    BY HeadTailProperties DEF Fits
  <1>3. DOMAIN Tail(s) = 1..(Len(s) - 1)
    BY <1>2, LenProperties
  <1>4. \A i \in DOMAIN Tail(s) : Tail(s)[i] = s[i + 1] /\ i + 1 \in DOMAIN s
    BY <1>1, <1>2, <1>3
  <1>5. Len(Tail(s)) <= BucketSize
    BY <1>1, <1>2, ConstantsOK DEF Fits
  <1>6. \A i, j \in DOMAIN Tail(s) : Tail(s)[i] = Tail(s)[j] => i = j
    BY <1>1, <1>3, <1>4 DEF Fits
  <1> QED
    BY <1>2, <1>4, <1>5, <1>6 DEF Fits
-----------------------------------------------------------------------------
(* Threads.                                                                *)

\* What the records of a thread's position hold.
LEMMA OpTypes ==
    ASSUME NEW o \in Op
    PROVE  /\ o.at \in {"add", "insert"} =>
                o.todo \in Seq(Id) /\ o.from \in Id \cup {NoOne}
                /\ o = [at |-> o.at, todo |-> o.todo, from |-> o.from]
           /\ o.at = "note" => o.from \in Id
           /\ o.at = "place" => o.entry \in Entry
           /\ o.at = "evict" => o.entry \in Entry /\ o.least \in Entry
           /\ o.at \in {"drop", "dropped"} =>
                o.drops \in Seq(Entry) /\ o.again \in BOOLEAN
                /\ o = [at |-> o.at, drops |-> o.drops, again |-> o.again]
  BY DEF Op

LEMMA EvictionTypes ==
    ASSUME IInv
    PROVE  DOMAIN evictions = 1..Len(evictions) /\ \A i \in DOMAIN evictions : evictions[i] \in Eviction
  <1>1. evictions \in Seq(Eviction)
    BY DEF IInv, TypeOK
  <1> QED
    BY <1>1, LenProperties, ElementOfSeq

LEMMA IdleOK == Idle \in Op /\ OpOK(Idle)
  BY DEF Idle, Op, OpOK

LEMMA AddingOK ==
    ASSUME NEW todo \in Seq(Id), NEW from \in Id \cup {NoOne}
    PROVE  Adding(todo, from) \in Op /\ OpOK(Adding(todo, from))
  BY IdleOK DEF Adding, Op, OpOK

\* A step of thread t that leaves m_nodes alone and makes no entry pending: it
\* keeps the invariant if every bucket still fits and lists only entries it
\* listed before or a good one, and t ends in a position that is in order.
LEMMA ThreadStep ==
    ASSUME IInv, NEW t \in Thread, NEW STATE o, o \in Op, OpOK(o), Goto(t, o),
           UNCHANGED nodes, pending' \subseteq pending, gone' \in SUBSET Entry,
           armed' \in Nat, pubk' \in SUBSET Addr,
           last' \in [Id -> Event], contradicted' \in SUBSET Id, StillTold,
           evictions' \in Seq(Eviction),
           \A i \in DOMAIN evictions' : nodes[evictions'[i].new] # 0,
           bucket' \in [Bin -> Seq(Entry)],
           \A b \in Bin :
             /\ Fits(bucket'[b], b)
             /\ \A i \in DOMAIN bucket'[b] :
                  \/ \E j \in DOMAIN bucket[b] : bucket'[b][i] = bucket[b][j]
                  \/ /\ Made(bucket'[b][i])
                     /\ bucket'[b][i] \notin pending
                     /\ Told(bucket[b][i].id)'
    PROVE  IInv'
  <1>1. op' \in [Thread -> Op] /\ op'[t] = o /\ \A u \in Thread \ {t} : op'[u] = op[u]
    BY DEF Goto, IInv, TypeOK
  <1>2. TypeOK'
    BY <1>1 DEF IInv, TypeOK
  <1>3. ASSUME NEW b \in Bin
        PROVE  Fits(bucket'[b], b) /\ \A i \in DOMAIN bucket'[b] : Good(bucket[b][i])'
    <2>1. ASSUME NEW i \in DOMAIN bucket'[b]
          PROVE  Good(bucket[b][i])'
      <3>1. CASE \E j \in DOMAIN bucket[b] : bucket'[b][i] = bucket[b][j]
        <4>1. PICK j \in DOMAIN bucket[b] : bucket'[b][i] = bucket[b][j]
          BY <3>1
        <4>2. Good(bucket[b][j])
          BY DEF IInv
        <4>3. PICK n \in Id : n = bucket[b][j].id
          BY <4>2 DEF Good, Made, Entry
        <4>4. NodeListed(n) /\ Told(n)
          BY <4>2, <4>3 DEF IInv, Fits, NodeListed, Good
        <4>5. Told(n)'
          BY <4>4 DEF StillTold
        <4>6. Told(bucket[b][i].id)'
          BY <4>1, <4>3, <4>5 DEF Told
        <4> QED
          BY <4>1, <4>2, <4>6 DEF Good, Made
      <3>2. CASE /\ Made(bucket'[b][i])
                 /\ bucket'[b][i] \notin pending
                 /\ Told(bucket[b][i].id)'
        BY <3>2 DEF Good, Made
      <3> QED
        BY <3>1, <3>2
    <2> QED
      BY <2>1
  <1>4. (\A e \in pending : Made(e))'
    BY DEF IInv, Made
  <1>5. (\A i \in DOMAIN evictions : nodes[evictions[i].new] # 0)'
    OBVIOUS
  <1>6. ASSUME NEW u \in Thread
        PROVE  OpOK(op[u])'
    <2>1. CASE u = t
      BY <2>1, <1>1 DEF OpOK, Made
    <2>2. CASE u # t
      BY <2>2, <1>1 DEF OpOK, Made, IInv
    <2> QED
      BY <2>1, <2>2
  <1> QED
    BY <1>2, <1>3, <1>4, <1>5, <1>6 DEF IInv, Fits

\* The case of ThreadStep that touches neither buckets nor events nor evictions.
LEMMA QuietStep ==
    ASSUME IInv, NEW t \in Thread, NEW STATE o, o \in Op, OpOK(o), Goto(t, o),
           UNCHANGED <<nodes, bucket, evictions, last, contradicted>>,
           pending' \subseteq pending, gone' \in SUBSET Entry,
           armed' \in Nat, pubk' \in SUBSET Addr
    PROVE  IInv'
  <1>1. /\ last' \in [Id -> Event] /\ contradicted' \in SUBSET Id
        /\ StillTold
        /\ evictions' \in Seq(Eviction)
        /\ \A i \in DOMAIN evictions' : nodes[evictions'[i].new] # 0
        /\ bucket' \in [Bin -> Seq(Entry)]
    BY DEF IInv, TypeOK, StillTold, Told
  <1>2. \A b \in Bin : /\ Fits(bucket'[b], b)
                       /\ \A i \in DOMAIN bucket'[b] :
                            \E j \in DOMAIN bucket[b] : bucket'[b][i] = bucket[b][j]
    BY DEF IInv
  <1> QED
    BY <1>1, <1>2, ThreadStep

\* A step that makes the next entry of node n: no bucket lists it yet and no
\* thread carries it, so it may be pending.
LEMMA GrowStep ==
    ASSUME IInv, NEW t \in Thread, NEW STATE o, o \in Op, OpOK(o), Goto(t, o),
           o.at \notin {"place", "evict"}, NEW n \in Id, nodes[n] < MaxInc,
           nodes' = [nodes EXCEPT ![n] = @ + 1],
           pending' \subseteq pending \cup {[id |-> n, inc |-> nodes[n] + 1]},
           UNCHANGED <<bucket, evictions, armed, pubk, gone, last, contradicted>>
    PROVE  IInv'
  <1> PICK fresh : fresh = [id |-> n, inc |-> nodes[n] + 1]
    OBVIOUS
  <1>1. op' \in [Thread -> Op] /\ op'[t] = o /\ \A u \in Thread \ {t} : op'[u] = op[u]
    BY DEF Goto, IInv, TypeOK
  <1>2. /\ nodes' \in [Id -> 0..MaxInc]
        /\ \A m \in Id : nodes[m] \in Nat /\ nodes'[m] \in Nat /\ nodes[m] <= nodes'[m]
        /\ nodes'[n] = nodes[n] + 1
    BY ConstantsOK DEF IInv, TypeOK
  <1>3. fresh \in Entry /\ fresh.id = n /\ fresh.inc = nodes'[n] /\ ~ Made(fresh)
    BY <1>2, ConstantsOK DEF Entry, Made
  <1>4. ASSUME NEW e, Made(e)
        PROVE  Made(e)' /\ (e \notin pending => e \notin pending')
    <2>1. e.id \in Id /\ e.inc \in Nat
      BY <1>4 DEF Made, Entry
    <2>2. e # fresh
      BY <1>3, <1>4
    <2>3. Made(e)'
      BY <1>2, <1>4, <2>1 DEF Made
    <2> QED
      BY <2>2, <2>3
  <1>5. TypeOK'
    BY <1>1, <1>2, <1>3 DEF IInv, TypeOK
  <1>6. (\A b \in Bin : Fits(bucket[b], b) /\ \A i \in DOMAIN bucket[b] : Good(bucket[b][i]))'
    BY <1>4 DEF IInv, Good, Told, Fits
  <1>7. (\A e \in pending : Made(e))'
    <2>1. Made(fresh)'
      BY <1>2, <1>3 DEF Made
    <2> QED
      BY <2>1, <1>4 DEF IInv
  <1>8. (\A i \in DOMAIN evictions : nodes[evictions[i].new] # 0)'
    <2>1. \A i \in DOMAIN evictions : evictions[i].new \in Id
      BY EvictionTypes DEF Eviction
    <2> QED
      BY <2>1, <1>2 DEF IInv
  <1>9. ASSUME NEW u \in Thread
        PROVE  OpOK(op[u])'
    <2>1. CASE u = t
      BY <2>1, <1>1 DEF OpOK
    <2>2. CASE u # t
      BY <2>2, <1>1, <1>4 DEF OpOK, IInv
    <2> QED
      BY <2>1, <2>2
  <1> QED
    BY <1>5, <1>6, <1>7, <1>8, <1>9 DEF IInv
-----------------------------------------------------------------------------
(* The actions.                                                            *)

LEMMA NamedLists == <<>> \in Seq(Id) /\ \A n \in Id : <<n>> \in Seq(Id)
  OBVIOUS

LEMMA PongInv ==
    ASSUME IInv, NEW n \in Id, NEW a \in Addr, Pong(n, a)
    PROVE  IInv'
  <1>1. [at |-> "note", from |-> n] \in Op /\ OpOK([at |-> "note", from |-> n])
    BY DEF Op, OpOK
  <1>2. Adding(<<n>>, n) \in Op /\ OpOK(Adding(<<n>>, n))
    BY AddingOK, NamedLists
  <1>3. armed \in Nat /\ pubk \in SUBSET Addr /\ gone \in SUBSET Entry
    BY DEF IInv, TypeOK
  <1>4. CASE nodes[n] # 0
    BY <1>1, <1>3, <1>4, QuietStep DEF Pong, Thread
  <1>5. CASE nodes[n] = 0
    BY <1>2, <1>3, <1>5, QuietStep DEF Pong, Thread
  <1> QED
    BY <1>4, <1>5

LEMMA PacketInv ==
    ASSUME IInv, NEW t \in Thread, NEW named \in Seq(Id), NEW from \in Id \cup {NoOne},
           Goto(t, Adding(named, from)),
           UNCHANGED <<nodes, pending, bucket, evictions, armed, pubk, gone, last, contradicted>>
    PROVE  IInv'
  <1>1. Adding(named, from) \in Op /\ OpOK(Adding(named, from))
    BY AddingOK
  <1>2. armed \in Nat /\ pubk \in SUBSET Addr /\ gone \in SUBSET Entry
    BY DEF IInv, TypeOK
  <1> QED
    BY <1>1, <1>2, QuietStep

LEMMA ReceiveInv ==
    ASSUME IInv, Receive
    PROVE  IInv'
  <1>1. PICK n \in Id : \/ \E a \in Addr : Pong(n, a)
                        \/ PingNode(n) \/ FindNode(n) \/ Neighbours(n)
    BY DEF Receive
  <1>2. CASE \E a \in Addr : Pong(n, a)
    BY <1>2, PongInv
  <1>3. ASSUME NEW named \in Seq(Id), Packet(n, named)
        PROVE  IInv'
    BY <1>3, PacketInv DEF Packet, Thread
  <1>4. CASE PingNode(n)
    BY <1>3, <1>4, NamedLists DEF PingNode
  <1>5. CASE FindNode(n)
    BY <1>3, <1>5, NamedLists DEF FindNode
  <1>6. CASE Neighbours(n)
    <2>1. PICK k \in 1..MaxNeighbours : \E named \in [1..k -> Id] : Packet(n, named)
      BY <1>6 DEF Neighbours
    <2>2. k \in Nat
      BY <2>1, ConstantsOK
    <2>3. [1..k -> Id] \subseteq Seq(Id)
      BY <2>2, SeqDef
    <2> QED
      BY <2>1, <2>3, <1>3
  <1> QED
    BY <1>1, <1>2, <1>4, <1>5, <1>6

LEMMA ApiInv ==
    ASSUME IInv, Api
    PROVE  IInv'
  <1>1. armed \in Nat /\ pubk \in SUBSET Addr /\ gone \in SUBSET Entry
        /\ op \in [Thread -> Op] /\ nodes \in [Id -> 0..MaxInc]
    BY DEF IInv, TypeOK
  <1>2. ASSUME NEW n \in Id, ApiAddNode(n)
        PROVE  IInv'
    BY <1>2, PacketInv, NamedLists DEF ApiAddNode, Thread
  <1>3. ASSUME NEW n \in Id, ApiAddKnown(n)
        PROVE  IInv'
    <2> DEFINE o == [at |-> "note", from |-> n]
    <2>1. o \in Op /\ OpOK(o) /\ o.at \notin {"place", "evict"}
      BY DEF Op, OpOK
    <2>2. nodes[n] < MaxInc
      <3>1. nodes[n] \in Nat /\ MaxInc \in Nat
        BY <1>1, ConstantsOK
      <3> QED
        BY <1>3, <3>1 DEF ApiAddKnown
    <2> HIDE DEF o
    <2> QED
      BY <1>3, <2>1, <2>2, GrowStep DEF ApiAddKnown, Thread, o
  <1>4. ASSUME NEW a \in Addr, ApiDiscoverKey(a)
        PROVE  IInv'
    <2>1. op["api"] \in Op /\ OpOK(op["api"]) /\ Goto("api", op["api"])
      BY <1>1, <1>4 DEF ApiDiscoverKey, Goto, Thread, IInv
    <2> QED
      BY <1>1, <1>4, <2>1, QuietStep DEF ApiDiscoverKey, Thread
  <1> QED
    BY <1>2, <1>3, <1>4 DEF Api

LEMMA AddInv ==
    ASSUME IInv, NEW t \in Thread, AddCheck(t) \/ AddInsert(t)
    PROVE  IInv'
  <1> DEFINE o == op[t]
             next == Adding(Tail(o.todo), o.from)
  <1>1. armed \in Nat /\ pubk \in SUBSET Addr /\ gone \in SUBSET Entry
        /\ op \in [Thread -> Op] /\ nodes \in [Id -> 0..MaxInc]
    BY DEF IInv, TypeOK
  <1>2. o \in Op /\ OpOK(o) /\ o.at \in {"add", "insert"}
    BY <1>1 DEF AddCheck, AddInsert, IInv
  <1>3. /\ o.todo \in Seq(Id) /\ o.from \in Id \cup {NoOne} /\ o.todo # <<>>
        /\ o = [at |-> o.at, todo |-> o.todo, from |-> o.from]
    BY <1>2, OpTypes DEF OpOK
  <1>4. Head(o.todo) \in Id /\ Tail(o.todo) \in Seq(Id)
    BY <1>3, HeadTailProperties
  <1>5. next \in Op /\ OpOK(next) /\ next.at \notin {"place", "evict"}
    BY <1>3, <1>4, AddingOK DEF Adding, Idle
  <1>6. CASE AddCheck(t)
    <2>1. [o EXCEPT !.at = "insert"] = [at |-> "insert", todo |-> o.todo, from |-> o.from]
      BY <1>3
    <2>2. [o EXCEPT !.at = "insert"] \in Op /\ OpOK([o EXCEPT !.at = "insert"])
      BY <1>3, <2>1 DEF Op, OpOK
    <2> HIDE DEF next
    <2>3. Goto(t, [o EXCEPT !.at = "insert"]) \/ Goto(t, next)
      BY <1>6 DEF AddCheck, next
    <2>4. UNCHANGED <<nodes, pending, bucket, evictions, armed, pubk, gone, last, contradicted>>
      BY <1>6 DEF AddCheck
    <2> HIDE DEF o
    <2> QED
      BY <1>1, <1>5, <2>2, <2>3, <2>4, QuietStep
  <1>7. CASE AddInsert(t)
    <2> HIDE DEF next
    <2>1. Goto(t, next)
      BY <1>7 DEF AddInsert, next
    <2>2. PICK n \in Id : n = Head(o.todo)
      BY <1>4
    <2>3. /\ nodes[n] < MaxInc
          /\ nodes' = [nodes EXCEPT ![n] = @ + 1]
          /\ pending' \subseteq pending \cup {[id |-> n, inc |-> nodes[n] + 1]}
      BY <1>7, <2>2 DEF AddInsert
    <2>4. UNCHANGED <<bucket, evictions, armed, pubk, gone, last, contradicted>>
      BY <1>7 DEF AddInsert
    <2> QED
      BY <1>5, <2>1, <2>3, <2>4, GrowStep
  <1> QED
    BY <1>6, <1>7

LEMMA FetchInv ==
    ASSUME IInv, NEW t \in Thread, NoteFetch(t)
    PROVE  IInv'
  <1>1. armed \in Nat /\ pubk \in SUBSET Addr /\ gone \in SUBSET Entry
        /\ op \in [Thread -> Op] /\ nodes \in [Id -> 0..MaxInc]
    BY DEF IInv, TypeOK
  <1>2. PICK n \in Id : n = op[t].from
    BY <1>1, OpTypes DEF NoteFetch
  <1> DEFINE o == [at |-> "place", entry |-> Current(n)]
  <1>3. UNCHANGED <<nodes, pending, bucket, evictions, armed, pubk, gone, last, contradicted>>
    BY DEF NoteFetch
  <1>4. CASE Goto(t, Idle)
    BY <1>1, <1>3, <1>4, IdleOK, QuietStep
  <1>5. CASE Notable(n) /\ Goto(t, o)
    <2>1. Current(n) \in Entry /\ Made(Current(n)) /\ Current(n) \notin pending /\ Current(n).id # Self
      BY <1>1, <1>5, ConstantsOK DEF Notable, Current, Entry, Made
    <2>2. o \in Op /\ OpOK(o)
      BY <2>1 DEF Op, OpOK
    <2> HIDE DEF o
    <2> QED
      BY <1>1, <1>3, <1>5, <2>2, QuietStep
  <1> QED
    BY <1>2, <1>4, <1>5 DEF NoteFetch

LEMMA PlaceInv ==
    ASSUME IInv, NEW t \in Thread, NotePlace(t)
    PROVE  IInv'
  <1>1. /\ armed \in Nat /\ pubk \in SUBSET Addr /\ gone \in SUBSET Entry
        /\ op \in [Thread -> Op] /\ nodes \in [Id -> 0..MaxInc]
        /\ bucket \in [Bin -> Seq(Entry)] /\ evictions \in Seq(Eviction)
        /\ last \in [Id -> Event] /\ contradicted \in SUBSET Id
    BY DEF IInv, TypeOK
  <1>2. /\ UNCHANGED <<nodes, pending, evictions, armed, pubk, gone>>
        /\ op[t].at = "place"
    BY DEF NotePlace
  <1>3. PICK e \in Entry : e = op[t].entry /\ Made(e) /\ e \notin pending /\ e.id # Self
    BY <1>1, <1>2, OpTypes DEF IInv, OpOK
  <1>4. PICK b \in Bin : b = BinOf[e.id]
    BY ConstantsOK DEF Entry
  <1> DEFINE s == bucket[b]
             kept == WithoutActive(s, e)
             allowed(k) ==
               /\ Fits(k, b)
               /\ \A i \in DOMAIN k : k[i] = e \/ \E j \in DOMAIN s : k[i] = s[j]
  <1>5. Fits(s, b) /\ \A i \in DOMAIN s : Good(s[i])
    BY DEF IInv
  <1>6. Fits(kept, b) /\ allowed(kept) /\ \A i \in DOMAIN kept : kept[i] # e
    BY <1>5, WithoutActiveFits
  <1>7. Len(kept) \in Nat /\ BucketSize \in Nat \ {0}
    BY <1>6, LenProperties, ConstantsOK DEF Fits
  <1> HIDE DEF s, kept
  \* A step that puts an allowed list in e's bucket keeps the invariant.
  <1>8. ASSUME NEW k, allowed(k), NEW STATE o, o \in Op, OpOK(o), Goto(t, o),
               bucket' = [bucket EXCEPT ![b] = k],
               last' \in [Id -> Event], contradicted' \in SUBSET Id, StillTold,
               (\E i \in DOMAIN k : k[i] = e) => Told(e.id)'
        PROVE  IInv'
    <2>1. k \in Seq(Entry)
      BY <1>8 DEF Fits
    <2>2. bucket' \in [Bin -> Seq(Entry)]
      BY <1>1, <1>8, <2>1
    <2>3. ASSUME NEW c \in Bin
          PROVE  /\ Fits(bucket'[c], c)
                 /\ \A i \in DOMAIN bucket'[c] :
                      \/ \E j \in DOMAIN bucket[c] : bucket'[c][i] = bucket[c][j]
                      \/ /\ Made(bucket'[c][i])
                         /\ bucket'[c][i] \notin pending
                         /\ Told(bucket[c][i].id)'
      <3>1. CASE c = b
        <4>1. bucket'[c] = k
          BY <1>1, <1>8, <3>1
        <4> QED
          BY <4>1, <3>1, <1>8, <1>3 DEF s, Told
      <3>2. CASE c # b
        <4>1. bucket'[c] = bucket[c]
          BY <1>1, <1>8, <3>2
        <4> QED
          BY <4>1 DEF IInv
      <3> QED
        BY <3>1, <3>2
    <2>4. evictions' \in Seq(Eviction) /\ \A i \in DOMAIN evictions' : nodes[evictions'[i].new] # 0
      BY <1>1, <1>2 DEF IInv
    <2> HIDE DEF allowed
    <2> QED
      BY <1>1, <1>2, <1>8, <2>2, <2>3, <2>4, ThreadStep
  <1>9. Announce(s, e) => /\ last' \in [Id -> Event] /\ contradicted' \in SUBSET Id
                          /\ StillTold
                          /\ Told(e.id)'
    <2>1. CASE Listed(s, e)
      <3>1. Told(e.id)
        BY <1>5, <2>1 DEF Listed, Good
      <3> QED
        BY <1>1, <2>1, <3>1 DEF Announce, StillTold, Told
    <2>2. CASE ~ Listed(s, e)
      <3>1. e.id \in Id
        BY DEF Entry
      <3> QED
        BY <1>1, <2>2, <3>1 DEF Announce, Notify, Event, StillTold, Told
    <2> QED
      BY <2>1, <2>2
  \* Room: push e.
  <1>10. CASE /\ Len(kept) < BucketSize
              /\ bucket' = [bucket EXCEPT ![b] = Append(kept, e)]
              /\ Announce(s, e) /\ Goto(t, Idle)
    <2>1. Fits(Append(kept, e), b)
          /\ \A i \in DOMAIN Append(kept, e) :
               Append(kept, e)[i] = e \/ \E j \in DOMAIN kept : Append(kept, e)[i] = kept[j]
      <3>1. Len(kept) < BucketSize
        BY <1>10
      <3> QED
        BY <1>3, <1>4, <1>6, <3>1, AppendFits
    <2>2. allowed(Append(kept, e))
      BY <1>6, <2>1
    <2> HIDE DEF allowed
    <2> QED
      BY <1>8, <1>9, <1>10, <2>2, IdleOK
  \* The front has expired: pop it, push e.
  <1>11. CASE /\ Len(kept) >= BucketSize
              /\ bucket' = [bucket EXCEPT ![b] = Append(Tail(kept), e)]
              /\ Announce(s, e) /\ Goto(t, Idle)
    <2> DEFINE r == Tail(kept)
    <2>1. kept # <<>>
      BY <1>7, <1>11
    <2>2. Fits(r, b) /\ Len(r) = Len(kept) - 1
          /\ \A i \in DOMAIN r : r[i] = kept[i + 1] /\ i + 1 \in DOMAIN kept
      BY <1>6, <2>1, TailFits
    <2>3. Len(r) < BucketSize
      BY <1>6, <1>7, <2>2 DEF Fits
    <2>4. \A i \in DOMAIN r : r[i] # e
      BY <1>6, <2>2
    <2> HIDE DEF r
    <2>5. Fits(Append(r, e), b)
          /\ \A i \in DOMAIN Append(r, e) :
               Append(r, e)[i] = e \/ \E j \in DOMAIN r : Append(r, e)[i] = r[j]
      BY <1>3, <1>4, <2>2, <2>3, <2>4, AppendFits
    <2>6. allowed(Append(r, e))
      BY <1>6, <2>2, <2>5
    <2> HIDE DEF allowed
    <2> QED
      BY <1>8, <1>9, <1>11, <2>6, IdleOK DEF r
  \* The front is contested.
  <1>12. CASE /\ Len(kept) >= BucketSize
              /\ bucket' = [bucket EXCEPT ![b] = kept]
              /\ UNCHANGED <<last, contradicted>>
              /\ Goto(t, [at |-> "evict", entry |-> e, least |-> Head(kept)])
    <2> DEFINE o == [at |-> "evict", entry |-> e, least |-> Head(kept)]
    <2>1. Head(kept) \in Entry
      BY <1>6, <1>7, <1>12, HeadTailProperties DEF Fits
    <2>2. o \in Op /\ OpOK(o)
      BY <1>3, <2>1 DEF Op, OpOK
    <2>3. ~ \E i \in DOMAIN kept : kept[i] = e
      BY <1>6
    <2>4. last' \in [Id -> Event] /\ contradicted' \in SUBSET Id /\ StillTold
      BY <1>1, <1>12 DEF StillTold, Told
    <2> HIDE DEF o, allowed
    <2> QED
      BY <1>6, <1>8, <1>12, <2>2, <2>3, <2>4 DEF o
  <1> QED
    BY <1>3, <1>4, <1>10, <1>11, <1>12 DEF NotePlace, s, kept

LEMMA EvictInv ==
    ASSUME IInv, NEW t \in Thread, Evict(t)
    PROVE  IInv'
  <1>1. /\ armed \in Nat /\ pubk \in SUBSET Addr /\ gone \in SUBSET Entry
        /\ op \in [Thread -> Op] /\ nodes \in [Id -> 0..MaxInc]
        /\ bucket \in [Bin -> Seq(Entry)] /\ evictions \in Seq(Eviction)
        /\ last \in [Id -> Event] /\ contradicted \in SUBSET Id
    BY DEF IInv, TypeOK
  <1>2. /\ op[t].entry \in Entry /\ op[t].least \in Entry /\ Made(op[t].entry)
        /\ op[t].entry.id \in Id /\ op[t].least.id \in Id
    BY <1>1, OpTypes DEF Evict, IInv, OpOK, Entry
  <1> DEFINE v == [least |-> op[t].least.id, new |-> op[t].entry.id, age |-> 0]
  <1>3. v \in Eviction
    BY <1>2, ConstantsOK DEF Eviction
  <1>4. nodes[v.new] # 0
    BY <1>1, <1>2, ConstantsOK DEF Made, Entry
  <1>5. evictions' = Append(evictions, v)
    BY DEF Evict
  <1> HIDE DEF v
  <1>6. /\ evictions' \in Seq(Eviction)
        /\ Len(evictions') = Len(evictions) + 1
        /\ \A i \in 1..Len(evictions) : evictions'[i] = evictions[i]
        /\ evictions'[Len(evictions) + 1] = v
    BY <1>1, <1>3, <1>5, AppendProperties
  <1>7. \A i \in DOMAIN evictions' : nodes[evictions'[i].new] # 0
    <2>1. Len(evictions) \in Nat /\ DOMAIN evictions = 1..Len(evictions)
          /\ DOMAIN evictions' = 1..(Len(evictions) + 1)
      BY <1>1, <1>6, LenProperties
    <2> QED
      BY <2>1, <1>4, <1>6 DEF IInv
  <1>8. armed' \in Nat /\ Goto(t, Idle) /\ UNCHANGED <<nodes, pending, bucket, pubk, gone, last, contradicted>>
    BY <1>1 DEF Evict
  <1>9. \A c \in Bin : /\ Fits(bucket'[c], c)
                       /\ \A i \in DOMAIN bucket'[c] :
                            \E j \in DOMAIN bucket[c] : bucket'[c][i] = bucket[c][j]
    BY <1>8 DEF IInv
  <1>10. StillTold
    BY <1>8 DEF StillTold, Told
  <1> QED
    BY <1>1, <1>6, <1>7, <1>8, <1>9, <1>10, IdleOK, ThreadStep

\* The positions of the network thread while it drops entries.
LEMMA DropOK ==
    ASSUME NEW drops \in Seq(Entry), NEW again \in BOOLEAN, NEW at \in {"drop", "dropped"},
           at = "dropped" => drops # <<>>
    PROVE  LET o == [at |-> at, drops |-> drops, again |-> again] IN o \in Op /\ OpOK(o)
  BY DEF Op, OpOK

LEMMA DropUpdates ==
    ASSUME NEW o, NEW q, o = [at |-> o.at, drops |-> o.drops, again |-> o.again]
    PROVE  /\ [o EXCEPT !.drops = q] = [at |-> o.at, drops |-> q, again |-> o.again]
           /\ [o EXCEPT !.at = "drop", !.drops = q] = [at |-> "drop", drops |-> q, again |-> o.again]
  <1>1. [o EXCEPT !.drops = q] = [at |-> o.at, drops |-> q, again |-> o.again]
    OBVIOUS
  <1>2. ASSUME NEW r, r = [o EXCEPT !.at = "drop"]
        PROVE  [r EXCEPT !.drops = q] = [at |-> "drop", drops |-> q, again |-> o.again]
    <2>1. r = [at |-> "drop", drops |-> o.drops, again |-> o.again]
      BY <1>2
    <2> QED
      BY <2>1
  <1> QED
    BY <1>1, <1>2

LEMMA CheckInv ==
    ASSUME IInv, CheckEvictions
    PROVE  IInv'
  <1>1. /\ armed \in Nat /\ pubk \in SUBSET Addr /\ gone \in SUBSET Entry
        /\ op \in [Thread -> Op] /\ nodes \in [Id -> 0..MaxInc]
    BY DEF IInv, TypeOK
  <1>2. PICK k \in 0..Len(evictions) :
          Goto("io", [at |-> "drop", again |-> EvictionsRemain(k),
                      drops |-> [i \in 1..k |-> Current(evictions[i].new)]])
    BY DEF CheckEvictions
  <1> DEFINE drops == [i \in 1..k |-> Current(evictions[i].new)]
             o == [at |-> "drop", drops |-> drops, again |-> EvictionsRemain(k)]
  <1>3. Len(evictions) \in Nat /\ k \in Nat /\ k <= Len(evictions)
    BY <1>2, LenProperties DEF IInv, TypeOK
  <1>4. ASSUME NEW i \in 1..k
        PROVE  Current(evictions[i].new) \in Entry
    <2>1. i \in DOMAIN evictions /\ evictions[i].new \in Id /\ nodes[evictions[i].new] # 0
      BY <1>3, EvictionTypes DEF Eviction, IInv
    <2> QED
      BY <1>1, <2>1, ConstantsOK DEF Current, Entry
  <1>5. drops \in Seq(Entry)
    <2>1. drops \in [1..k -> Entry]
      BY <1>4
    <2> QED
      BY <2>1, <1>3, SeqDef
  <1>6. o \in Op /\ OpOK(o)
    <2>1. EvictionsRemain(k) \in BOOLEAN
      BY DEF EvictionsRemain
    <2> HIDE DEF drops
    <2> QED
      BY <1>5, <2>1, DropOK
  <1>7. Goto("io", o)
    BY <1>2 DEF Goto
  <1> HIDE DEF o
  <1>8. armed' \in Nat
    BY <1>1 DEF CheckEvictions
  <1> QED
    BY <1>1, <1>6, <1>7, <1>8, QuietStep DEF CheckEvictions, Thread

LEMMA AbortedInv ==
    ASSUME IInv, ChecksAborted
    PROVE  IInv'
  <1>1. /\ armed \in Nat /\ armed > 0 /\ pubk \in SUBSET Addr /\ gone \in SUBSET Entry
        /\ op \in [Thread -> Op] /\ "io" \in Thread
    BY DEF IInv, TypeOK, Thread, ChecksAborted
  <1>2. op["io"] \in Op /\ OpOK(op["io"]) /\ Goto("io", op["io"])
    BY <1>1 DEF ChecksAborted, Goto, IInv
  <1>3. armed' \in Nat
    BY <1>1 DEF ChecksAborted
  <1>4. UNCHANGED <<nodes, pending, bucket, evictions, pubk, gone, last, contradicted>>
    BY DEF ChecksAborted
  <1> QED
    BY <1>1, <1>2, <1>3, <1>4, QuietStep

LEMMA DropInv ==
    ASSUME IInv, DropRemove \/ DropEvent \/ DropsDone
    PROVE  IInv'
  <1> DEFINE o == op["io"]
  <1>1. /\ armed \in Nat /\ pubk \in SUBSET Addr /\ gone \in SUBSET Entry
        /\ op \in [Thread -> Op] /\ nodes \in [Id -> 0..MaxInc]
        /\ bucket \in [Bin -> Seq(Entry)] /\ evictions \in Seq(Eviction)
        /\ last \in [Id -> Event] /\ contradicted \in SUBSET Id /\ "io" \in Thread
    BY DEF IInv, TypeOK, Thread
  <1>2. o \in Op /\ OpOK(o) /\ o.at \in {"drop", "dropped"}
    BY <1>1 DEF DropRemove, DropEvent, DropsDone, IInv
  <1>3. /\ o.drops \in Seq(Entry) /\ o.again \in BOOLEAN
        /\ o = [at |-> o.at, drops |-> o.drops, again |-> o.again]
        /\ o.at = "dropped" => o.drops # <<>>
    BY <1>2, OpTypes DEF OpOK
  <1> DEFINE rest == [at |-> "drop", drops |-> Tail(o.drops), again |-> o.again]
             event == [at |-> "dropped", drops |-> o.drops, again |-> o.again]
  <1>4. o.drops # <<>> => /\ Head(o.drops) \in Entry /\ rest \in Op /\ OpOK(rest)
                          /\ event \in Op /\ OpOK(event)
    BY <1>3, HeadTailProperties, DropOK
  <1> DEFINE kept == \A c \in Bin :
                       /\ Fits(bucket'[c], c)
                       /\ \A i \in DOMAIN bucket'[c] :
                            \E j \in DOMAIN bucket[c] : bucket'[c][i] = bucket[c][j]
  <1>5. bucket' = bucket => kept
    BY DEF IInv
  <1>6. \A i \in DOMAIN evictions : nodes[evictions[i].new] # 0
    BY DEF IInv
  <1>7. CASE DropRemove
    <2>1. o.drops # <<>> /\ UNCHANGED <<nodes, pending, evictions, armed, pubk, gone, last, contradicted>>
      BY <1>7 DEF DropRemove
    <2>2. CASE Goto("io", [o EXCEPT !.drops = Tail(o.drops)]) /\ UNCHANGED bucket
      <3>1. [o EXCEPT !.drops = Tail(o.drops)] = rest
        <4>1. o.at = "drop"
          BY <1>7 DEF DropRemove
        <4> HIDE DEF o
        <4> QED
          BY <1>3, <4>1, DropUpdates DEF rest
      <3>2. Goto("io", rest)
        BY <2>2, <3>1
      <3> HIDE DEF rest
      <3> QED
        BY <1>1, <1>4, <2>1, <2>2, <3>2, QuietStep
    <2>3. CASE /\ bucket' = [bucket EXCEPT ![BinOf[Head(o.drops).id]] = Unlisted(@, Head(o.drops))]
               /\ Goto("io", [o EXCEPT !.at = "dropped"])
      <3>1. [o EXCEPT !.at = "dropped"] = event
        BY <1>3
      <3>2. Goto("io", event)
        BY <2>3, <3>1
      <3>3. ASSUME NEW c \in Bin
            PROVE  /\ Fits(bucket'[c], c)
                   /\ \A i \in DOMAIN bucket'[c] :
                        \E j \in DOMAIN bucket[c] : bucket'[c][i] = bucket[c][j]
        <4>1. Fits(bucket[c], c)
          BY DEF IInv
        <4>2. bucket'[c] = bucket[c] \/ bucket'[c] = Unlisted(bucket[c], Head(o.drops))
          BY <1>1, <2>3
        <4> QED
          BY <4>1, <4>2, UnlistedFits
      <3>4. bucket' \in [Bin -> Seq(Entry)]
        <4>1. DOMAIN bucket' = Bin /\ bucket' = [c \in Bin |-> bucket'[c]]
          BY <1>1, <2>3
        <4> QED
          BY <4>1, <3>3 DEF Fits
      <3>5. StillTold
        BY <2>1 DEF StillTold, Told
      <3> HIDE DEF event
      <3> QED
        BY <1>1, <1>4, <1>6, <2>1, <3>2, <3>3, <3>4, <3>5, ThreadStep
    <2> QED
      BY <1>7, <2>2, <2>3 DEF DropRemove
  <1>8. CASE DropEvent
    <2>1. o.drops # <<>> /\ UNCHANGED <<nodes, pending, bucket, evictions, armed, pubk, gone>>
      BY <1>3, <1>8 DEF DropEvent
    <2>2. [o EXCEPT !.at = "drop", !.drops = Tail(o.drops)] = rest
      <3> HIDE DEF o
      <3> QED
        BY <1>3, DropUpdates DEF rest
    <2>3. Goto("io", rest)
      BY <1>3, <1>8, <2>2 DEF DropEvent, Goto
    <2>4. last' \in [Id -> Event] /\ contradicted' \in SUBSET Id /\ StillTold
      <3>1. PICK n \in Id : n = Head(o.drops).id
        BY <1>4, <2>1 DEF Entry
      <3>2. /\ last' = [last EXCEPT ![n] = "dropped"]
            /\ contradicted' = IF NodeListed(n) THEN contradicted \cup {n}
                               ELSE contradicted \ {n}
        BY <1>8, <3>1 DEF DropEvent, Notify
      <3> QED
        BY <1>1, <3>2 DEF Event, StillTold, Told
    <2> HIDE DEF rest
    <2>5. kept
      BY <1>5, <2>1
    <2> QED
      BY <1>1, <1>4, <1>6, <2>1, <2>3, <2>4, <2>5, ThreadStep
  <1>9. CASE DropsDone
    <2>1. Goto("io", Idle) /\ armed' \in Nat
          /\ UNCHANGED <<nodes, pending, bucket, evictions, pubk, gone, last, contradicted>>
      BY <1>1, <1>9 DEF DropsDone
    <2> QED
      BY <1>1, <2>1, IdleOK, QuietStep
  <1> QED
    BY <1>7, <1>8, <1>9

LEMMA ExpireInv ==
    ASSUME IInv, NEW e \in Entry, Expire(e)
    PROVE  IInv'
  <1>1. /\ armed \in Nat /\ pubk \in SUBSET Addr /\ gone \in SUBSET Entry
        /\ op \in [Thread -> Op] /\ "io" \in Thread
    BY DEF IInv, TypeOK, Thread
  <1>2. op["io"] \in Op /\ OpOK(op["io"]) /\ Goto("io", op["io"])
    BY <1>1 DEF Expire, Goto, IInv
  <1>3. gone' \in SUBSET Entry /\ UNCHANGED <<nodes, pending, bucket, evictions, armed, pubk, last, contradicted>>
    BY <1>1 DEF Expire
  <1> QED
    BY <1>1, <1>2, <1>3, QuietStep

LEMMA TickInv ==
    ASSUME IInv, Tick
    PROVE  IInv'
  <1>1. /\ armed \in Nat /\ pubk \in SUBSET Addr /\ gone \in SUBSET Entry
        /\ op \in [Thread -> Op] /\ bucket \in [Bin -> Seq(Entry)]
        /\ last \in [Id -> Event] /\ contradicted \in SUBSET Id /\ "io" \in Thread /\ Len(evictions) \in Nat
    BY LenProperties DEF IInv, TypeOK, Thread
  <1>2. op["io"] \in Op /\ OpOK(op["io"]) /\ Goto("io", op["io"])
    BY <1>1 DEF Tick, Goto, IInv
  <1>3. UNCHANGED <<nodes, pending, bucket, armed, pubk, gone, last, contradicted>>
    BY DEF Tick
  <1>4. DOMAIN evictions' = 1..Len(evictions) /\ DOMAIN evictions = 1..Len(evictions)
    BY EvictionTypes DEF Tick
  <1>5. ASSUME NEW i \in 1..Len(evictions)
        PROVE  evictions'[i] \in Eviction /\ nodes[evictions'[i].new] # 0
    <2>1. evictions[i] \in Eviction /\ nodes[evictions[i].new] # 0
      BY <1>4, EvictionTypes DEF IInv
    <2>2. evictions'[i] = IF Late(evictions[i]) THEN evictions[i]
                          ELSE [evictions[i] EXCEPT !.age = @ + 1]
      BY <1>4 DEF Tick
    <2>3. CASE Late(evictions[i])
      BY <2>1, <2>2, <2>3
    <2>4. CASE ~ Late(evictions[i])
      <3>1. evictions[i].age + 1 \in 0..(ReqTimeout + 1)
        BY <2>1, <2>4, ConstantsOK DEF Late, Eviction
      <3> QED
        BY <2>1, <2>2, <2>4, <3>1 DEF Eviction
    <2> QED
      BY <2>3, <2>4
  <1>6. evictions' \in Seq(Eviction)
    <2>1. evictions' = [i \in 1..Len(evictions) |-> evictions'[i]]
      BY <1>4 DEF Tick
    <2>2. evictions' \in [1..Len(evictions) -> Eviction]
      BY <1>5, <2>1
    <2> QED
      BY <1>1, <2>2, SeqDef
  <1>7. \A i \in DOMAIN evictions' : nodes[evictions'[i].new] # 0
    BY <1>4, <1>5
  <1>8. \A c \in Bin : /\ Fits(bucket'[c], c)
                       /\ \A i \in DOMAIN bucket'[c] :
                            \E j \in DOMAIN bucket[c] : bucket'[c][i] = bucket[c][j]
    BY <1>3 DEF IInv
  <1>9. StillTold
    BY <1>3 DEF StillTold, Told
  <1> QED
    BY <1>1, <1>2, <1>3, <1>6, <1>7, <1>8, <1>9, ThreadStep

LEMMA InitInv == Init => IInv
  <1> SUFFICES ASSUME Init PROVE IInv
    OBVIOUS
  <1>1. \A t \in Thread : op[t] = Idle
    BY DEF Init
  <1>2. TypeOK
    BY <1>1, IdleOK, ConstantsOK DEF Init, TypeOK, Event
  <1>3. \A b \in Bin : bucket[b] = <<>> /\ Fits(<<>>, b) /\ DOMAIN bucket[b] = {}
    BY ConstantsOK DEF Init, Fits
  <1>4. DOMAIN evictions = {}
    BY DEF Init
  <1> QED
    BY <1>1, <1>2, <1>3, <1>4, IdleOK DEF IInv, Init

LEMMA NextInv == IInv /\ [Next]_vars => IInv'
  <1> SUFFICES ASSUME IInv, [Next]_vars PROVE IInv'
    OBVIOUS
  <1>1. CASE Receive
    BY <1>1, ReceiveInv
  <1>2. CASE Api
    BY <1>2, ApiInv
  <1>3. ASSUME NEW t \in Thread, Proceed(t) PROVE IInv'
    BY <1>3, AddInv, FetchInv, PlaceInv, EvictInv DEF Proceed
  <1>4. CASE Timers
    BY <1>4, CheckInv, AbortedInv, DropInv DEF Timers
  <1>5. CASE Tick
    BY <1>5, TickInv
  <1>6. ASSUME NEW e \in Entry, Expire(e) PROVE IInv'
    BY <1>6, ExpireInv
  <1>7. CASE UNCHANGED vars
    BY <1>7 DEF vars, IInv, TypeOK, Good, Told, Made, OpOK, Fits
  <1> QED
    BY <1>1, <1>2, <1>3, <1>4, <1>5, <1>6, <1>7 DEF Next
-----------------------------------------------------------------------------
(* The theorems.                                                           *)

\* The inductive invariant holds in every state the two threads can reach.
THEOREM Invariance == Spec => []IInv
  <1> QED
    BY InitInv, NextInv, PTL DEF Spec

\* The table's state keeps its types: the tasks a handler leaves half done name
\* existing nodes, however the network thread and a caller are interleaved.
THEOREM TypesCorrect == Spec => []TypeOK
  <1>1. IInv => TypeOK
    BY DEF IInv
  <1> QED
    BY <1>1, Invariance, PTL

\* noteActiveNode and dropNode keep every bucket within s_bucketSize and free
\* of repetitions, misplaced nodes and this node itself, for any number of
\* nodes, buckets and replaced entries.
THEOREM BucketsAreSound == Spec => []BucketsSound
  <1>1. IInv => BucketsSound
    BY DEF IInv, BucketsSound, Fits
  <1> QED
    BY <1>1, Invariance, PTL

\* No entry that awaits its first Pong is ever listed, even when m_nodes gets a
\* new entry for the node while a thread is placing the old one.
THEOREM BucketsAreProven == Spec => []BucketsProven
  <1>1. IInv => BucketsProven
    BY DEF IInv, BucketsProven, Good
  <1> QED
    BY <1>1, Invariance, PTL

\* Whatever a bucket lists was announced to Host since it was last dropped, unless
\* the Dropped was queued while it was listed (NodeTable.cpp:341-369, 377-390).
THEOREM BucketsAreAnnounced == Spec => []BucketsAnnounced
  <1>1. IInv => BucketsAnnounced
    BY DEF IInv, BucketsAnnounced, Good, Told
  <1> QED
    BY <1>1, Invariance, PTL
-----------------------------------------------------------------------------
(* The chain of eviction checks.                                           *)

Dropping == op["io"].at \in {"drop", "dropped"}

\* The entries to drop are challengers of late evictions: evictions stay
\* recorded and stay late.
LateDrops ==
    Dropping => \A i \in DOMAIN op["io"].drops : \E j \in DOMAIN evictions :
                  evictions[j].new = op["io"].drops[i].id /\ Late(evictions[j])

\* The first eviction ever finds no chain of checks; from then on there is at
\* most one, as no eviction is ever removed.
ChainInv == /\ SingleCheckChain
            /\ evictions = <<>> => ~ ChainActive
            /\ LateDrops

\* A step in which the network thread stays as it is or does not get to the
\* entries to drop.
LEMMA ChainElsewhere ==
    ASSUME ChainInv, UNCHANGED <<evictions, armed>>,
           UNCHANGED (op["io"]) \/ ~ Dropping'
    PROVE  ChainInv'
  BY DEF ChainInv, SingleCheckChain, ChainActive, LateDrops, Dropping

\* Where thread t goes, and that the other stays.
LEMMA Going ==
    ASSUME IInv, NEW t \in Thread, NEW STATE o, Goto(t, o)
    PROVE  op'[t] = o /\ \A u \in Thread \ {t} : op'[u] = op[u]
  BY DEF Goto, IInv, TypeOK

LEMMA AddingElsewhere ==
    ASSUME NEW todo, NEW from
    PROVE  Adding(todo, from).at \notin {"drop", "dropped"}
  BY DEF Adding, Idle

LEMMA PacketsChain ==
    ASSUME IInv, ChainInv, Receive \/ Api
    PROVE  ChainInv'
  <1>1. "io" \in Thread /\ "api" \in Thread /\ "io" # "api" /\ UNCHANGED <<evictions, armed>>
    BY DEF Thread, Receive, Pong, PingNode, FindNode, Neighbours, Packet,
           Api, ApiAddNode, ApiAddKnown, ApiDiscoverKey
  <1>2. ASSUME NEW STATE o, Goto("io", o), o.at \notin {"drop", "dropped"}
        PROVE  ChainInv'
    BY <1>1, <1>2, Going, ChainElsewhere DEF Dropping
  <1>3. ASSUME NEW STATE o, Goto("api", o)
        PROVE  ChainInv'
    BY <1>1, <1>3, Going, ChainElsewhere
  <1>4. CASE Receive
    <2>1. PICK n \in Id : \/ \E a \in Addr : Pong(n, a)
                          \/ PingNode(n) \/ FindNode(n) \/ Neighbours(n)
      BY <1>4 DEF Receive
    <2>2. CASE \E a \in Addr : Pong(n, a)
      BY <1>2, <2>2, AddingElsewhere DEF Pong
    <2>3. ASSUME NEW named, Packet(n, named)
          PROVE  ChainInv'
      BY <1>2, <2>3, AddingElsewhere DEF Packet
    <2> QED
      BY <2>1, <2>2, <2>3 DEF PingNode, FindNode, Neighbours
  <1>5. CASE Api
    BY <1>1, <1>3, <1>5, ChainElsewhere DEF Api, ApiAddNode, ApiAddKnown, ApiDiscoverKey
  <1> QED
    BY <1>4, <1>5

LEMMA ProceedChain ==
    ASSUME IInv, ChainInv, NEW t \in Thread, AddCheck(t) \/ AddInsert(t) \/ NoteFetch(t) \/ NotePlace(t)
    PROVE  ChainInv'
  <1>1. UNCHANGED <<evictions, armed>> /\ "io" \in Thread
    BY DEF Thread, AddCheck, AddInsert, NoteFetch, NotePlace
  <1>2. ASSUME NEW STATE o, Goto(t, o), o.at \notin {"drop", "dropped"}
        PROVE  ChainInv'
    BY <1>1, <1>2, Going, ChainElsewhere DEF Dropping
  <1>3. Idle.at \notin {"drop", "dropped"}
    BY DEF Idle
  <1>4. CASE AddCheck(t)
    <2>1. op[t] \in Op /\ op[t].at = "add"
      BY <1>4 DEF AddCheck, IInv, TypeOK
    <2>2. [op[t] EXCEPT !.at = "insert"].at = "insert"
      BY <2>1, OpTypes
    <2> QED
      BY <1>2, <1>4, <2>2, AddingElsewhere DEF AddCheck
  <1>5. CASE AddInsert(t)
    BY <1>2, <1>5, AddingElsewhere DEF AddInsert
  <1>6. CASE NoteFetch(t)
    BY <1>2, <1>3, <1>6 DEF NoteFetch
  <1>7. CASE NotePlace(t)
    BY <1>2, <1>3, <1>7 DEF NotePlace
  <1> QED
    BY <1>4, <1>5, <1>6, <1>7

LEMMA EvictChain ==
    ASSUME IInv, ChainInv, NEW t \in Thread, Evict(t)
    PROVE  ChainInv'
  <1> DEFINE v == [least |-> op[t].least.id, new |-> op[t].entry.id, age |-> 0]
  <1>1. evictions \in Seq(Eviction) /\ armed \in Nat /\ op[t].at = "evict" /\ "io" \in Thread
    BY DEF Evict, IInv, TypeOK, Thread
  <1>2. v \in Eviction
    <2>1. op[t].entry.id \in Id /\ op[t].least.id \in Id
      BY <1>1, OpTypes DEF IInv, TypeOK, Entry
    <2> QED
      BY <2>1, ConstantsOK DEF Eviction
  <1>3. evictions' = Append(evictions, v)
    BY DEF Evict
  <1> HIDE DEF v
  <1>4. /\ evictions' \in Seq(Eviction)
        /\ Len(evictions') = Len(evictions) + 1
        /\ \A i \in 1..Len(evictions) : evictions'[i] = evictions[i]
    BY <1>1, <1>2, <1>3, AppendProperties
  <1>5. /\ Len(evictions) \in Nat /\ DOMAIN evictions = 1..Len(evictions)
        /\ DOMAIN evictions' = 1..(Len(evictions) + 1)
        /\ evictions' # <<>> /\ (evictions = <<>> <=> Len(evictions) = 0)
    BY <1>1, <1>4, LenProperties, EmptySeq
  <1>6. op'["io"] = op["io"] \/ (t = "io" /\ ~ Dropping /\ ~ Dropping')
    <2>1. Goto(t, Idle)
      BY DEF Evict
    <2> QED
      BY <1>1, <2>1, Going DEF Dropping, Idle
  <1>7. LateDrops'
    <2>1. \A j \in DOMAIN evictions : j \in DOMAIN evictions' /\ evictions'[j] = evictions[j]
      BY <1>4, <1>5
    <2> QED
      BY <1>6, <2>1 DEF ChainInv, LateDrops, Dropping
  <1>8. SingleCheckChain'
    <2>1. CASE evictions = <<>>
      <3>1. armed = 0 /\ ~ (Dropping /\ op["io"].again)
        BY <1>1, <2>1 DEF ChainInv, ChainActive, Dropping
      <3>2. armed' = 1
        BY <1>5, <2>1, <3>1 DEF Evict, StartsChecks
      <3> QED
        BY <1>6, <3>1, <3>2 DEF SingleCheckChain, Dropping
    <2>2. CASE evictions # <<>>
      <3>1. armed' = armed
        BY <1>5, <2>2 DEF Evict, StartsChecks
      <3> QED
        BY <1>6, <3>1 DEF ChainInv, SingleCheckChain, Dropping
    <2> QED
      BY <2>1, <2>2
  <1> QED
    BY <1>5, <1>7, <1>8 DEF ChainInv

LEMMA CheckChain ==
    ASSUME IInv, ChainInv, CheckEvictions
    PROVE  ChainInv'
  <1>1. PICK k \in 0..Len(evictions) :
          /\ \A i \in DOMAIN evictions : Late(evictions[i]) <=> i <= k
          /\ Goto("io", [at |-> "drop", again |-> EvictionsRemain(k),
                         drops |-> [i \in 1..k |-> Current(evictions[i].new)]])
    BY DEF CheckEvictions
  <1>2. armed = 1 /\ armed' = 0 /\ UNCHANGED evictions /\ armed \in Nat /\ "io" \in Thread
    BY DEF CheckEvictions, ChainInv, SingleCheckChain, IInv, TypeOK, Thread
  <1>3. op'["io"] = [at |-> "drop", again |-> EvictionsRemain(k),
                     drops |-> [i \in 1..k |-> Current(evictions[i].new)]]
    BY <1>1, <1>2, Going
  <1>4. SingleCheckChain' /\ evictions' # <<>>
    <2>1. evictions # <<>>
      BY <1>2 DEF ChainInv, ChainActive
    <2> QED
      BY <1>2, <2>1 DEF SingleCheckChain
  <1>5. LateDrops'
    <2>1. Len(evictions) \in Nat /\ DOMAIN evictions = 1..Len(evictions)
      BY LenProperties DEF IInv, TypeOK
    <2>2. ASSUME NEW i \in 1..k
          PROVE  /\ i \in DOMAIN evictions /\ Late(evictions[i])
                 /\ Current(evictions[i].new).id = evictions[i].new
      BY <1>1, <2>1 DEF Current
    <2>3. DOMAIN op'["io"].drops = 1..k
          /\ \A i \in 1..k : op'["io"].drops[i] = Current(evictions[i].new)
      BY <1>3
    <2> QED
      BY <1>2, <2>2, <2>3 DEF LateDrops, Late
  <1> QED
    BY <1>4, <1>5 DEF ChainInv

LEMMA AbortedChain ==
    ASSUME IInv, ChainInv, ChecksAborted
    PROVE  ChainInv'
  <1>1. armed \in Nat /\ armed = 1 /\ armed' = 0 /\ UNCHANGED <<evictions, op>>
    BY DEF ChecksAborted, ChainInv, SingleCheckChain, IInv, TypeOK
  <1>2. op["io"].at \notin {"drop", "dropped"}
    BY DEF ChecksAborted, Idle
  <1> QED
    BY <1>1, <1>2 DEF ChainInv, SingleCheckChain, ChainActive, LateDrops, Dropping

LEMMA DropChain ==
    ASSUME IInv, ChainInv, DropRemove \/ DropEvent \/ DropsDone
    PROVE  ChainInv'
  <1> DEFINE o == op["io"]
  <1>1. o \in Op /\ o.at \in {"drop", "dropped"} /\ "io" \in Thread /\ UNCHANGED evictions
        /\ armed \in Nat
    BY DEF DropRemove, DropEvent, DropsDone, IInv, TypeOK, Thread
  <1>2. /\ o.drops \in Seq(Entry) /\ o.again \in BOOLEAN
        /\ o = [at |-> o.at, drops |-> o.drops, again |-> o.again]
    BY <1>1, OpTypes
  <1>3. evictions # <<>> => evictions' # <<>>
    BY <1>1
  <1>4. CASE DropsDone
    <2>1. ~ Dropping' /\ armed' = IF o.again THEN armed + 1 ELSE armed
      BY <1>1, <1>4, Going DEF DropsDone, Dropping, Idle
    <2>2. o.again => armed = 0 /\ evictions # <<>>
      BY <1>1 DEF ChainInv, SingleCheckChain, ChainActive
    <2> HIDE DEF o
    <2>3. armed' <= 1 /\ (evictions = <<>> => armed' = 0)
      BY <1>1, <2>1, <2>2 DEF ChainInv, SingleCheckChain, ChainActive
    <2> QED
      BY <1>1, <2>1, <2>3 DEF ChainInv, SingleCheckChain, ChainActive, LateDrops, Dropping
  \* Dropping goes on, with all entries or all but the first.
  <1>5. ASSUME NEW STATE q, Goto("io", q), q.again = o.again, UNCHANGED armed,
               \/ q.drops = o.drops
               \/ o.drops # <<>> /\ q.drops = Tail(o.drops)
        PROVE  ChainInv'
    <2>1. op'["io"] = q
      BY <1>1, <1>5, Going
    <2>2. \A i \in DOMAIN q.drops : \E j \in DOMAIN o.drops : q.drops[i] = o.drops[j]
      <3>1. CASE q.drops = o.drops
        BY <3>1
      <3>2. CASE o.drops # <<>> /\ q.drops = Tail(o.drops)
        <4> DEFINE d == o.drops
        <4> HIDE DEF o, d
        <4>1. d \in Seq(Entry) /\ d # <<>> /\ q.drops = Tail(d)
          BY <1>2, <3>2 DEF d
        <4>2. Len(d) \in Nat /\ DOMAIN d = 1..Len(d)
          BY <4>1, LenProperties
        <4>3. /\ Tail(d) \in Seq(Entry) /\ Len(Tail(d)) = Len(d) - 1
              /\ \A i \in 1..Len(Tail(d)) : Tail(d)[i] = d[i + 1]
          BY <4>1, HeadTailProperties
        <4>4. DOMAIN Tail(d) = 1..(Len(d) - 1)
          BY <4>3, LenProperties
        <4>5. \A i \in DOMAIN q.drops : i + 1 \in DOMAIN d /\ q.drops[i] = d[i + 1]
          BY <4>1, <4>2, <4>3, <4>4
        <4> QED
          BY <4>5 DEF d
      <3> QED
        BY <1>5, <3>1, <3>2
    <2>3. LateDrops'
      BY <1>1, <2>1, <2>2 DEF ChainInv, LateDrops, Dropping
    <2>4. SingleCheckChain' /\ (evictions = <<>> => ~ ChainActive)'
      BY <1>1, <1>5, <2>1 DEF ChainInv, SingleCheckChain, ChainActive
    <2> QED
      BY <2>3, <2>4 DEF ChainInv
  <1>6. CASE DropRemove
    <2>1. o.drops # <<>> /\ UNCHANGED armed
          /\ \/ Goto("io", [o EXCEPT !.drops = Tail(o.drops)])
             \/ Goto("io", [o EXCEPT !.at = "dropped"])
      BY <1>6 DEF DropRemove
    <2> HIDE DEF o
    <2>2. [o EXCEPT !.drops = Tail(o.drops)] = [at |-> o.at, drops |-> Tail(o.drops), again |-> o.again]
      BY <1>2, DropUpdates
    <2>3. [o EXCEPT !.at = "dropped"] = [at |-> "dropped", drops |-> o.drops, again |-> o.again]
      BY <1>2
    <2> QED
      BY <1>5, <2>1, <2>2, <2>3
  <1>7. CASE DropEvent
    <2>1. o.drops # <<>> /\ UNCHANGED armed
      BY <1>1, <1>7 DEF DropEvent, IInv, OpOK
    <2>2. Goto("io", [o EXCEPT !.at = "drop", !.drops = Tail(o.drops)])
      BY <1>7 DEF DropEvent, Goto
    <2> HIDE DEF o
    <2>3. [o EXCEPT !.at = "drop", !.drops = Tail(o.drops)]
             = [at |-> "drop", drops |-> Tail(o.drops), again |-> o.again]
      BY <1>2, DropUpdates
    <2> QED
      BY <1>5, <2>1, <2>2, <2>3
  <1> QED
    BY <1>4, <1>6, <1>7

LEMMA TickChain ==
    ASSUME IInv, ChainInv, Tick
    PROVE  ChainInv'
  <1>1. UNCHANGED <<armed, op>> /\ evictions \in Seq(Eviction)
    BY DEF Tick, IInv, TypeOK
  <1>2. /\ DOMAIN evictions' = DOMAIN evictions
        /\ \A i \in DOMAIN evictions : Late(evictions[i]) => evictions'[i] = evictions[i]
        /\ \A i \in DOMAIN evictions : evictions'[i].new = evictions[i].new
    BY EvictionTypes DEF Tick, Eviction
  <1>3. evictions # <<>>
    BY DEF Tick
  <1>4. LateDrops'
    BY <1>1, <1>2 DEF ChainInv, LateDrops, Dropping
  <1>5. evictions' # <<>>
    <2>1. PICK i : i \in DOMAIN evictions
      BY DEF Tick
    <2> QED
      BY <1>2, <2>1
  <1> QED
    BY <1>1, <1>4, <1>5 DEF ChainInv, SingleCheckChain

LEMMA NextChain == IInv /\ ChainInv /\ [Next]_vars => ChainInv'
  <1> SUFFICES ASSUME IInv, ChainInv, [Next]_vars PROVE ChainInv'
    OBVIOUS
  <1>1. ASSUME NEW t \in Thread, Proceed(t) PROVE ChainInv'
    BY <1>1, ProceedChain, EvictChain DEF Proceed
  <1>2. CASE Timers
    BY <1>2, CheckChain, AbortedChain, DropChain DEF Timers
  <1>3. CASE (\E e \in Entry : Expire(e)) \/ UNCHANGED vars
    BY <1>3, ChainElsewhere DEF Expire, vars
  <1> QED
    BY <1>1, <1>2, <1>3, PacketsChain, TickChain DEF Next

\* ChainInv holds in every reachable state.
THEOREM ChainInvariance == Spec => []ChainInv
  <1>1. Init => ChainInv
    BY DEF Init, ChainInv, SingleCheckChain, ChainActive, LateDrops, Dropping, Idle, Thread
  <1> QED
    BY <1>1, NextChain, Invariance, PTL DEF Spec

\* There are never two chains of check timers, whichever thread starts an
\* eviction and whatever the check is doing then (NodeTable.cpp:308-322, 578-607).
THEOREM AlwaysSingleChain == Spec => []SingleCheckChain
  <1>1. ChainInv => SingleCheckChain
    BY DEF ChainInv
  <1> QED
    BY <1>1, ChainInvariance, PTL

\* The one step that reports a node as dropped.
LEMMA WhoDrops ==
    ASSUME IInv, [Next]_vars, NEW n \in Id, last'[n] = "dropped", last[n] # "dropped"
    PROVE  DropEvent
  <1>1. last \in [Id -> Event] /\ last' # last
    BY DEF IInv, TypeOK
  <1>2. ASSUME NEW t \in Thread, NotePlace(t)
        PROVE  FALSE
    <2>1. \E m \in Id : Notify(m, "added")
      <3>1. op[t].entry.id \in Id
        BY <1>2, OpTypes DEF NotePlace, IInv, TypeOK, Entry
      <3> QED
        BY <1>1, <1>2, <3>1 DEF NotePlace, Announce
    <2> QED
      BY <1>1, <2>1 DEF Notify
  <1>3. ASSUME NEW t \in Thread, Proceed(t)
        PROVE  FALSE
    BY <1>1, <1>2, <1>3 DEF Proceed, AddCheck, AddInsert, NoteFetch, Evict
  <1>4. ~ Receive /\ ~ Api
    BY <1>1 DEF Receive, Pong, PingNode, FindNode, Neighbours, Packet,
                Api, ApiAddNode, ApiAddKnown, ApiDiscoverKey
  <1>5. ~ Tick /\ ~ UNCHANGED vars /\ \A e \in Entry : ~ Expire(e)
    BY <1>1 DEF Tick, vars, Expire
  <1>6. ~ CheckEvictions /\ ~ ChecksAborted /\ ~ DropRemove /\ ~ DropsDone
    BY <1>1 DEF CheckEvictions, ChecksAborted, DropRemove, DropsDone
  <1> QED
    BY <1>3, <1>4, <1>5, <1>6 DEF Next, Timers

\* A node is reported as dropped only if it challenged a full bucket longer than
\* c_reqTimeout ago, whatever happens between the check that collects it and the
\* event (NodeTable.cpp:588-603).
THEOREM OnlyLateOnesDropped == Spec => OnlyLateChallengersDropped
  <1> DEFINE Justified == \A n \in Id : last'[n] = "dropped" /\ last[n] # "dropped" =>
                            \E i \in DOMAIN evictions : /\ evictions[i].new = n
                                                        /\ evictions[i].age > ReqTimeout
  <1>1. ASSUME IInv, ChainInv, [Next]_vars, NEW n \in Id, last'[n] = "dropped", last[n] # "dropped"
        PROVE  \E i \in DOMAIN evictions : evictions[i].new = n /\ evictions[i].age > ReqTimeout
    <2> DEFINE d == op["io"].drops
    <2>1. DropEvent
      BY <1>1, WhoDrops
    <2>2. "io" \in Thread /\ op["io"].at = "dropped" /\ op["io"] \in Op /\ d # <<>>
          /\ last \in [Id -> Event]
      BY <1>1, <2>1 DEF DropEvent, IInv, OpOK, TypeOK, Thread
    <2>3. last' = [last EXCEPT ![Head(d).id] = "dropped"]
      BY <2>1 DEF DropEvent, Notify
    <2>4. d \in Seq(Entry)
      BY <2>2, OpTypes
    <2> HIDE DEF d
    <2>5. Head(d).id = n
      BY <1>1, <2>2, <2>3
    <2>6. Head(d) = d[1] /\ 1 \in DOMAIN d
      BY <2>2, <2>4, LenProperties, EmptySeq
    <2>7. \E j \in DOMAIN evictions : evictions[j].new = d[1].id /\ Late(evictions[j])
      BY <1>1, <2>2, <2>6 DEF ChainInv, LateDrops, Dropping, d
    <2> QED
      BY <2>5, <2>6, <2>7 DEF Late
  <1>2. IInv /\ ChainInv /\ [Next]_vars => [Justified]_last
    BY <1>1
  <1> QED
    BY <1>2, Invariance, ChainInvariance, PTL DEF Spec, OnlyLateChallengersDropped
=============================================================================
