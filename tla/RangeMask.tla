----------------------------- MODULE RangeMask -------------------------------
(***************************************************************************)
(* RangeMask.h: a set of numbers as the ranges it is made of.  mask holds  *)
(* several objects of the class, each with its ground range m_all and its  *)
(* map m_ranges from the begin of a range to its end.                      *)
(***************************************************************************)
EXTENDS SequencesExt

CONSTANTS Object,  \* the objects
          Top,     \* bound: the numbers are 0 .. Top
          Wrap,    \* 2^w, of the type of numbers
          Asked    \* numbers of elements that lowest is asked for

RangeMaskConstants == Top \in Nat /\ Wrap \in Nat /\ Wrap > Top + 1 /\ Asked \subseteq 0 .. Wrap - 1

\* What lowest adds up fits the type of numbers.
AskedFits == \A n \in Asked : Top + n < Wrap

VARIABLE mask

Numbers == 0 .. Top
Begins(m) == DOMAIN m.ranges
Until(m, b) == m.ranges[b]
Empty == <<>>
Mask(all, ranges) == [all |-> all, ranges |-> ranges]
Assign(ranges, b, e) == [x \in DOMAIN ranges \cup {b} |-> IF x = b THEN e ELSE ranges[x]]
Erase(ranges, b) == Restrict(ranges, DOMAIN ranges \ {b})

Least(a, b) == IF a < b THEN a ELSE b
Greatest(a, b) == IF a > b THEN a ELSE b

\* What upper_bound finds, and the range before it.
After(ranges, i) == {b \in DOMAIN ranges : b > i}
UpTo(ranges, i) == {b \in DOMAIN ranges : b <= i}

\* The next higher range is too high to be merged with what ends at end.
TooHigh(ranges, i, end) == After(ranges, i) = {} \/ Min(After(ranges, i)) > end

\* One turn of the loop of unionWith, with m_ranges as it is when it has come to
\* at.i; where the code breaks, it comes to end.
Turn(at, end) ==
    LET ranges == at.ranges
        i == at.i
        after == Min(After(ranges, i))
        it == Max(UpTo(ranges, i))
        At(r, j) == [ranges |-> r, i |-> j]
        Grown(b) == IF TooHigh(ranges, i, end) THEN At(Assign(ranges, b, end), end)
                    ELSE At(Erase(Assign(ranges, b, ranges[after]), after), ranges[after])
    IN  IF UpTo(ranges, i) = {} \/ ranges[it] < i THEN Grown(i)
        ELSE IF ranges[it] = i THEN Grown(it)
        ELSE At(ranges, ranges[it])

\* The loop, by the number of its turns: i rises, so that it ends within Top.
Uniting(ranges, r) ==
    LET at[k \in 0 .. Top] ==
          IF k = 0 THEN [ranges |-> ranges, i |-> r[1]]
          ELSE IF at[k - 1].i < r[2] THEN Turn(at[k - 1], r[2]) ELSE at[k - 1]
    IN  at

United(ranges, r) == Uniting(ranges, r)[Top].ranges

UnionRange(m, r) == Mask(m.all, United(m.ranges, r))

\* unionWith(RangeMask), one range of the other after the other, in order: by the
\* numbers below which the ranges begin that it has added.
Adding(ranges, n) ==
    LET u[k \in 0 .. Top] ==
          IF k = 0 THEN ranges
          ELSE IF k - 1 \in Begins(n) THEN United(u[k - 1], <<k - 1, Until(n, k - 1)>>) ELSE u[k - 1]
    IN  u

Union(m, n) == Mask(<<Least(m.all[1], n.all[1]), Greatest(m.all[2], n.all[2])>>, Adding(m.ranges, n)[Top])

\* extendAll
Extended(m, i) == Mask(<<Least(m.all[1], i), Greatest(m.all[2], i + 1)>>, m.ranges)

\* Mutant: the gap after the last range stays out.
InvertedBetween(m) ==
    LET last(b) == LET before == {c \in Begins(m) : c < b}
                   IN  IF before = {} THEN m.all[1] ELSE Until(m, Max(before))
        ends == {b \in Begins(m) : b # last(b)}
    IN  Mask(m.all, [x \in {last(b) : b \in ends} |-> CHOOSE b \in ends : last(b) = x])

\* inverted: the gaps before each range and after the last one.
Inverted(m) ==
    LET last(b) == LET before == {c \in Begins(m) : c < b}
                   IN  IF before = {} THEN m.all[1] ELSE Until(m, Max(before))
        ends == {b \in Begins(m) \cup {m.all[2]} : b # last(b)}
    IN  Mask(m.all, [x \in {last(b) : b \in ends} |-> CHOOSE b \in ends : last(b) = x])

\* operator-=, of a range or of a mask.
MinusRange(m, r) == Inverted(UnionRange(Inverted(m), r))
Minus(m, n) == Inverted(Union(Inverted(m), n))

\* lowest takes from the range that begins at b, with items numbers still to be
\* taken, as many as it has.
TakenFrom(m, taking, b) ==
    LET end == Least((b + taking.items) % Wrap, Until(m, b))
    IN  [items |-> (taking.items - (end - b)) % Wrap, ranges |-> Assign(taking.ranges, b, end)]

\* Its loop, by the numbers below which the ranges begin that it has come to.
Taking(m, items) ==
    LET t[k \in 0 .. Top] ==
          IF k = 0 THEN [items |-> items, ranges |-> Empty]
          ELSE IF k - 1 \in Begins(m) /\ t[k - 1].items # 0 THEN TakenFrom(m, t[k - 1], k - 1) ELSE t[k - 1]
    IN  t

Lowest(m, items) == Mask(m.all, Taking(m, items)[Top].ranges)
-----------------------------------------------------------------------------
\* What the class answers.

HasNumber(m, i) == UpTo(m.ranges, i) # {} /\ Until(m, Max(UpTo(m.ranges, i))) > i

IsFull(m) == m.all[1] = m.all[2] \/ m.ranges = [b \in {m.all[1]} |-> m.all[2]]

MaskSize(m) == MapThenSumSet(LAMBDA b : Until(m, b) - b, Begins(m))

FirstOut(m) == IF m.all[1] \in Begins(m) THEN Until(m, m.all[1]) ELSE m.all[1]

LastIn(m) == IF Begins(m) = {} THEN m.all[1] ELSE Until(m, Max(Begins(m))) - 1

\* next, and the iterators.
NextIn(m, t) ==
    IF HasNumber(m, t + 1) THEN t + 1
    ELSE IF After(m.ranges, t + 1) = {} THEN m.all[2] ELSE Min(After(m.ranges, t + 1))

Iterated(m) ==
    LET from[t \in 0 .. Top] == IF t = m.all[2] THEN <<>> ELSE <<t>> \o from[NextIn(m, t)]
    IN  from[IF Begins(m) = {} THEN m.all[2] ELSE Min(Begins(m))]
-----------------------------------------------------------------------------
Within(r, all) == r[1] < r[2] => all[1] <= r[1] /\ r[2] <= all[2]
Become(o, m) == mask' = [mask EXCEPT ![o] = m]

RangeInit == mask = [o \in Object |-> Mask(<<0, 0>>, Empty)]

Create(o, r) == r[1] <= r[2] /\ Become(o, Mask(r, Empty))
Clear(o) == Become(o, Mask(mask[o].all, Empty))
Reset(o) == Become(o, Mask(<<0, 0>>, Empty))
ExtendAll(o, i) == i < Top /\ Become(o, Extended(mask[o], i))
Invert(o) == Become(o, Inverted(mask[o]))

\* The callers keep to the ground range, as the assertions of unionWith demand.
AddRange(o, r) == Within(r, mask[o].all) /\ Become(o, UnionRange(mask[o], r))
RemoveRange(o, r) == Within(r, mask[o].all) /\ Become(o, MinusRange(mask[o], r))

AddMask(o, p) == Become(o, Union(mask[o], mask[p]))

\* operator-, of a copy of o's mask, so that p may be o; -= of a mask from itself
\* leaves it as it is.  Bound: p's ground range is not wider than o's.
Inside(n, m) == m.all[1] <= n.all[1] /\ n.all[2] <= m.all[2]
Subtract(o, p) == Inside(mask[p], mask[o]) /\ Become(o, Minus(mask[o], mask[p]))

TakeLowest(o, p, items) == Become(o, Lowest(mask[p], items))

RangeNext == \E o \in Object :
                \/ Clear(o) \/ Reset(o) \/ Invert(o)
                \/ \E i \in Numbers : ExtendAll(o, i)
                \/ \E b, e \in Numbers : Create(o, <<b, e>>) \/ AddRange(o, <<b, e>>) \/ RemoveRange(o, <<b, e>>)
                \/ \E p \in Object : \/ AddMask(o, p) \/ Subtract(o, p)
                                     \/ \E n \in Asked : TakeLowest(o, p, n)

RangeSpec == RangeInit /\ [][RangeNext]_mask
-----------------------------------------------------------------------------
Elements(m) == UNION {b .. Until(m, b) - 1 : b \in Begins(m)}

\* The set that a mask stands for.
Sets == INSTANCE NumberSets
Shown(m) == Sets!NumberSet(m.all, Elements(m))

\* Each operation, with any argument, on whatever ranges the operations before
\* have left, does what it says of the set: unionWith adds exactly the numbers of
\* its range or mask and -= takes exactly those away, whichever ranges they
\* overlap, touch or swallow; inverted has the other numbers of the ground range,
\* and lowest the smallest, as many as are asked for (RangeMask.h:43-98, :236).
OperationsOfSets ==
    \A o \in Object :
        LET m == mask[o]
        IN /\ Shown(Inverted(m)) = Sets!Complement(Shown(m))
           /\ \A i \in Numbers : i < Top => Shown(Extended(m, i)) = Sets!Extended(Shown(m), i)
           /\ \A b, e \in Numbers : Within(<<b, e>>, m.all) =>
                /\ Shown(UnionRange(m, <<b, e>>)) = Sets!PlusRange(Shown(m), <<b, e>>)
                /\ Shown(MinusRange(m, <<b, e>>)) = Sets!LessRange(Shown(m), <<b, e>>)
           /\ \A n \in Asked : Shown(Lowest(m, n)) = Sets!LowestOf(Shown(m), n)
           /\ \A p \in Object :
                /\ Shown(Union(m, mask[p])) = Sets!Sum(Shown(m), Shown(mask[p]))
                /\ Inside(mask[p], m) =>
                     Shown(Minus(m, mask[p])) = Sets!Difference(Shown(m), Shown(mask[p]))

\* The ranges are not empty, inside the ground range, and neither overlap nor
\* touch: full and size rely on it, and unionWith must merge whatever it meets.
RangesApart ==
    \A o \in Object : \A b \in Begins(mask[o]) :
        /\ mask[o].all[1] <= b /\ b < Until(mask[o], b) /\ Until(mask[o], b) <= mask[o].all[2]
        /\ \A c \in Begins(mask[o]) : c > b => c > Until(mask[o], b)

\* The answers are those of the set; next has the next element, so that an
\* iterator goes from one to the next in order.
AnswersOfSets ==
    \A o \in Object :
        LET m == mask[o]
            elems == Elements(m)
            ground == m.all[1] .. m.all[2] - 1
        IN /\ \A i \in Numbers : HasNumber(m, i) <=> i \in elems
           /\ IsFull(m) <=> elems = ground
           /\ FirstOut(m) = IF elems = ground THEN m.all[2] ELSE Min(ground \ elems)
           /\ LastIn(m) = IF elems = {} THEN m.all[1] ELSE Max(elems)
           /\ \A t \in Numbers : NextIn(m, t) = IF \A x \in elems : x <= t THEN m.all[2]
                                                ELSE Min({x \in elems : x > t})

\* And so are those that go over the whole set; an iteration ends.
AnswersRight ==
    /\ AnswersOfSets
    /\ \A o \in Object : /\ MaskSize(mask[o]) = Cardinality(Elements(mask[o]))
                         /\ Iterated(mask[o]) = SetToSortSeq(Elements(mask[o]), <)

\* RangeMask.h:65: lowest has the smallest elements, however many are asked for.
LowestAreLowest ==
    \A o \in Object, n \in Asked :
        Elements(Lowest(mask[o], n)) = Sets!Smallest(Elements(mask[o]), n)

\* RangeMask.h:43: the operators are those of sets, of operator- too.
DifferenceOfSets ==
    \A o, p \in Object : Elements(Minus(mask[o], mask[p])) = Elements(mask[o]) \ Elements(mask[p])
=============================================================================
