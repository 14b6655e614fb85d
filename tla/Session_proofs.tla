--------------------------- MODULE Session_proofs ---------------------------
(***************************************************************************)
(* Proofs about Session for any number of calling threads and packets: one *)
(* writer and one reader at a time, what m_dropped means, and the wire's   *)
(* order, as PacketChannel promises it.                                    *)
(***************************************************************************)
EXTENDS Session, SequenceTheorems, FiniteSetTheorems, TLAPS

\* A thread's list of tasks: what only another task leads to, in a write or in
\* a drop, can only be its next task.
Tidy(l) == /\ l \in Seq(Task)
           /\ \A i \in DOMAIN l : i # 1 => l[i].do \notin {"write", "start", "mark", "set"}

SomeAt(d) == \E t \in Thread : At(t, d)
Popped == Len(accepted) - Len(queue)

\* Packets are numbered through the queue; all but the front are unsealed, and
\* the front is sealed once, when its writer is past the sealing; the wire has
\* the packets popped, and the front one if the socket has taken it.
Numbered ==
    /\ Len(queue) <= Len(accepted)
    /\ \A i \in DOMAIN queue : queue[i].msg = Popped + i
    /\ \A i \in DOMAIN queue : i # 1 => queue[i].seal = 0
    /\ queue # <<>> => queue[1].seal = IF SomeAt("write") THEN 0 ELSE Popped + 1
    /\ seals = IF queue # <<>> /\ ~ SomeAt("write") THEN Popped + 1 ELSE Popped
    /\ Len(wire) = IF writing = "sent" THEN Popped + 1 ELSE Popped
    /\ \A i \in DOMAIN wire : wire[i] = [msg |-> i, seal |-> i]

\* The inductive invariant.
IInv == /\ TypeOK
        /\ \A t \in Thread : Tidy(op[t])
        /\ OneWriter
        /\ Numbered
-----------------------------------------------------------------------------
(* Lists of tasks.                                                         *)

LEMMA TidyLists ==
    ASSUME NEW x \in Task
    PROVE  /\ Tidy(<<>>)
           /\ Tidy(<<x>>)
           /\ \A y, z \in Task :
                 /\ y.do \notin {"write", "start", "mark", "set"}
                 /\ z.do \notin {"write", "start", "mark", "set"}
                => Tidy(<<x, y>>) /\ Tidy(<<x, y, z>>)
  BY DEF Tidy

\* A list whose first task is done.
LEMMA TidyTail ==
    ASSUME NEW l, Tidy(l), l # <<>>
    PROVE  /\ Tidy(Tail(l))
           /\ Tail(l) # <<>> => Head(Tail(l)).do \notin {"write", "start", "mark", "set"}
           /\ Head(l) \in Task
  <1>1. Len(l) \in Nat /\ DOMAIN l = 1..Len(l) /\ Len(l) # 0
    BY LenProperties, EmptySeq DEF Tidy
  <1>2. /\ Head(l) \in Task
        /\ Tail(l) \in Seq(Task)
        /\ Len(Tail(l)) = Len(l) - 1
        /\ \A i \in 1..Len(Tail(l)) : Tail(l)[i] = l[i + 1]
    BY HeadTailProperties DEF Tidy
  <1>3. DOMAIN Tail(l) = 1..(Len(l) - 1)
    BY <1>2, LenProperties
  <1>4. \A i \in DOMAIN Tail(l) : Tail(l)[i].do \notin {"write", "start", "mark", "set"}
    BY <1>1, <1>2, <1>3 DEF Tidy
  <1>5. Tail(l) # <<>> => Head(Tail(l)) = Tail(l)[1] /\ 1 \in DOMAIN Tail(l)
    BY <1>2, <1>3, LenProperties, EmptySeq
  <1> QED
    BY <1>2, <1>4, <1>5 DEF Tidy

\* A list whose first task is replaced by another.
LEMMA TidyReplace ==
    ASSUME NEW l, Tidy(l), l # <<>>, NEW x \in Task
    PROVE  /\ Tidy(<<x>> \o Tail(l))
           /\ <<x>> \o Tail(l) # <<>>
           /\ Head(<<x>> \o Tail(l)) = x
  <1> DEFINE r == Tail(l)
             k == <<x>> \o r
  <1>1. Tidy(r) /\ (r # <<>> => Head(r).do \notin {"write", "start", "mark", "set"})
    BY TidyTail
  <1>2. Len(r) \in Nat /\ DOMAIN r = 1..Len(r) /\ r \in Seq(Task)
    BY <1>1, LenProperties DEF Tidy
  <1>3. \A i \in DOMAIN r : r[i].do \notin {"write", "start", "mark", "set"}
    <2>1. r # <<>> => Head(r) = r[1]
      BY <1>2
    <2>2. \A i \in DOMAIN r : r # <<>>
      BY <1>2
    <2> QED
      BY <1>1, <2>1, <2>2 DEF Tidy
  <1>4. <<x>> \in Seq(Task) /\ Len(<<x>>) = 1 /\ <<x>>[1] = x
    OBVIOUS
  <1> HIDE DEF r
  <1>5. /\ k \in Seq(Task)
        /\ Len(k) = 1 + Len(r)
        /\ \A i \in 1..(1 + Len(r)) : k[i] = IF i <= 1 THEN <<x>>[i] ELSE r[i - 1]
    BY <1>2, <1>4, ConcatProperties
  <1> HIDE DEF k
  <1>6. DOMAIN k = 1..(1 + Len(r))
    BY <1>2, <1>5, LenProperties
  <1>7. Tidy(k)
    <2>1. ASSUME NEW i \in DOMAIN k, i # 1
          PROVE  k[i].do \notin {"write", "start", "mark", "set"}
      <3>1. i - 1 \in DOMAIN r /\ k[i] = r[i - 1]
        BY <1>2, <1>5, <1>6, <2>1
      <3> QED
        BY <3>1, <1>3
    <2> QED
      BY <1>5, <2>1 DEF Tidy
  <1>8. k # <<>> /\ Head(k) = x
    <2>1. 1 \in 1..(1 + Len(r)) /\ k[1] = x
      BY <1>2, <1>4, <1>5
    <2>2. k # <<>>
      BY <1>5, <1>2, EmptySeq
    <2> QED
      BY <2>1, <2>2, <1>5
  <1> QED
    BY <1>7, <1>8 DEF k, r

-----------------------------------------------------------------------------
(* Steps of one thread.                                                    *)

\* What a step does to the threads: t goes on with a tidy list, which begins
\* with a write or not; the others stay where they are.
Moves(t, l) == op' = [op EXCEPT ![t] = l]

LEMMA MovesOthers ==
    ASSUME \A t \in Thread : Tidy(op[t]), op \in [Thread -> Seq(Task)],
           NEW t \in Thread, NEW STATE l, Tidy(l), Moves(t, l)
    PROVE  /\ op' \in [Thread -> Seq(Task)]
           /\ \A u \in Thread : Tidy(op[u])'
           /\ \A u \in Thread \ {t} : \A d : At(u, d)' <=> At(u, d)
           /\ \A d : At(t, d)' <=> l # <<>> /\ Head(l).do = d
  <1>1. op'[t] = l /\ \A u \in Thread \ {t} : op'[u] = op[u]
    BY DEF Moves
  <1>2. op' \in [Thread -> Seq(Task)]
    BY DEF Moves, Tidy
  <1>3. \A u \in Thread : Tidy(op'[u])
    BY <1>1
  <1> QED
    BY <1>1, <1>2, <1>3 DEF At, Tidy

\* A step that concerns no writing: it neither ends nor begins at a write.
LEMMA QuietStep ==
    ASSUME IInv, TypeOK', NEW t \in Thread, NEW STATE l, Tidy(l), Moves(t, l),
           ~ ToWrite(t), l # <<>> => Head(l).do \notin {"write", "start"},
           UNCHANGED <<accepted, queue, seals, writing, wire>>
    PROVE  IInv'
  <1>1. /\ \A u \in Thread : Tidy(op[u])'
        /\ \A u \in Thread, d \in {"write", "start"} : At(u, d)' <=> At(u, d)
    <2>1. op \in [Thread -> Seq(Task)] /\ \A u \in Thread : Tidy(op[u])
      BY DEF IInv, TypeOK
    <2>2. /\ \A u \in Thread : Tidy(op[u])'
          /\ \A u \in Thread \ {t} : \A d : At(u, d)' <=> At(u, d)
          /\ \A d : At(t, d)' <=> l # <<>> /\ Head(l).do = d
      BY <2>1, MovesOthers
    <2>3. \A d \in {"write", "start"} : ~ At(t, d) /\ ~ At(t, d)'
      BY <2>2 DEF ToWrite
    <2> QED
      BY <2>2, <2>3
  <1>2. SomeAt("write")' <=> SomeAt("write")
    BY <1>1 DEF SomeAt
  <1>3. OneWriter'
    BY <1>1 DEF IInv, OneWriter, ToWrite
  <1>4. Numbered'
    BY <1>2 DEF IInv, Numbered, Popped
  <1> QED
    BY <1>1, <1>3, <1>4 DEF IInv

\* A thread finishes its first task.
LEMMA ThenNothing ==
    ASSUME IInv, NEW t \in Thread, op[t] # <<>>, Then(t, <<>>)
    PROVE  /\ Moves(t, Tail(op[t])) /\ Tidy(Tail(op[t]))
           /\ Tail(op[t]) # <<>> => Head(Tail(op[t])).do \notin {"write", "start", "mark", "set"}
  <1>1. Tidy(op[t])
    BY DEF IInv
  <1>2. Tail(op[t]) \in Seq(Task)
    BY <1>1, TidyTail DEF Tidy
  <1>3. <<>> \o Tail(op[t]) = Tail(op[t])
    BY <1>2, ConcatEmptySeq
  <1> QED
    BY <1>1, <1>3, TidyTail DEF Then, Moves

\* A thread replaces its first task by another.
LEMMA ThenTask ==
    ASSUME IInv, NEW t \in Thread, op[t] # <<>>, NEW STATE x, x \in Task, Then(t, <<x>>)
    PROVE  /\ Moves(t, <<x>> \o Tail(op[t])) /\ Tidy(<<x>> \o Tail(op[t]))
           /\ <<x>> \o Tail(op[t]) # <<>> /\ Head(<<x>> \o Tail(op[t])) = x
  <1>1. Tidy(op[t])
    BY DEF IInv
  <1> QED
    BY <1>1, TidyReplace DEF Then, Moves

\* A task has the fields its kind has.
LEMMA TaskFields ==
    ASSUME NEW x \in Task
    PROVE  /\ x.do \in {"send", "push"} => x = [do |-> x.do, kind |-> x.kind] /\ x.kind \in Kind
           /\ x.do \in {"drop", "close", "mark"} => x = [do |-> x.do, why |-> x.why] /\ x.why \in Reason
  BY DEF Task

\* A step of a thread that writes nothing.
LEMMA ThenQuiet ==
    ASSUME IInv, NEW t \in Thread, op[t] # <<>>, ~ ToWrite(t),
           \/ Then(t, <<>>)
           \/ \E x \in Task : x.do \notin {"write", "start"} /\ Then(t, <<x>>),
           UNCHANGED <<accepted, queue, seals, writing, wire>>,
           open' \in BOOLEAN, reset' \in BOOLEAN, dropped' \in BOOLEAN,
           reason' \in Reason \cup {"none"},
           reading' \in Reading
    PROVE  IInv'
  <1>1. ASSUME NEW STATE l, Tidy(l), Moves(t, l), l # <<>> => Head(l).do \notin {"write", "start"}
        PROVE  IInv'
    <2>1. op' \in [Thread -> Seq(Task)]
      BY <1>1, MovesOthers DEF IInv, TypeOK
    <2>2. TypeOK'
      BY <2>1 DEF IInv, TypeOK
    <2> QED
      BY <1>1, <2>2, QuietStep
  <1>2. CASE Then(t, <<>>)
    BY <1>1, <1>2, ThenNothing
  <1>3. ASSUME NEW x \in Task, x.do \notin {"write", "start"}, Then(t, <<x>>)
        PROVE  IInv'
    BY <1>1, <1>3, ThenTask
  <1> QED
    BY <1>2, <1>3

\* The reads that steps leave behind.
LEMMA Readings ==
    /\ <<"none", FALSE>> \in Reading
    /\ <<"header", FALSE>> \in Reading
    /\ <<"frame", FALSE>> \in Reading
  <1>1. <<"none", FALSE>> \in {"none"} \X {FALSE}
    OBVIOUS
  <1>2. <<"header", FALSE>> \in {"header", "frame"} \X BOOLEAN
    OBVIOUS
  <1>3. <<"frame", FALSE>> \in {"header", "frame"} \X BOOLEAN
    OBVIOUS
  <1> QED
    BY <1>1, <1>2, <1>3, Zenon DEF Reading

LEMMA OtherStepsInv ==
    ASSUME IInv, NEW t \in Thread,
           CheckOpen(t) \/ CheckDropped(t) \/ Close(t) \/ Mark(t) \/ SetDropped(t) \/ StartRead(t)
    PROVE  IInv'
  <1> DEFINE x == Head(op[t])
  <1>1. op[t] # <<>> /\ ~ ToWrite(t)
    BY DEF At, ToWrite, CheckOpen, CheckDropped, Close, Mark, SetDropped, StartRead
  <1>2. x \in Task
    BY <1>1, TidyTail DEF IInv
  <1>3. /\ open \in BOOLEAN /\ reset \in BOOLEAN /\ dropped \in BOOLEAN
        /\ reason \in Reason \cup {"none"} /\ reading \in Reading
    BY DEF IInv, TypeOK
  <1> HIDE DEF x
  <1>4. CASE CheckOpen(t)
    <2>1. x.do = "send" /\ UNCHANGED <<open, reset, dropped, reason, accepted, queue, seals, writing, wire, reading>>
      BY <1>4 DEF CheckOpen, At, x
    <2>2. [x EXCEPT !.do = "push"] \in Task /\ [x EXCEPT !.do = "push"].do = "push"
      BY <1>2, <2>1, TaskFields DEF Task
    <2>3. Then(t, <<>>) \/ Then(t, <<[x EXCEPT !.do = "push"]>>)
      BY <1>4 DEF CheckOpen, x
    <2> QED
      BY <1>1, <1>3, <2>1, <2>2, <2>3, ThenQuiet
  <1>5. CASE CheckDropped(t)
    <2>1. x.do = "drop" /\ UNCHANGED <<open, reset, dropped, reason, accepted, queue, seals, writing, wire, reading>>
      BY <1>5 DEF CheckDropped, At, x
    <2>2. [x EXCEPT !.do = "close"] \in Task /\ [x EXCEPT !.do = "close"].do = "close"
      BY <1>2, <2>1, TaskFields DEF Task
    <2>3. Then(t, <<>>) \/ Then(t, <<[x EXCEPT !.do = "close"]>>)
      BY <1>5 DEF CheckDropped, x
    <2> QED
      BY <1>1, <1>3, <2>1, <2>2, <2>3, ThenQuiet
  <1>6. CASE Close(t)
    <2>1. x.do = "close" /\ UNCHANGED <<reset, dropped, reason, accepted, queue, seals, writing, wire, reading>>
          /\ open' \in BOOLEAN
      BY <1>3, <1>6 DEF Close, At, x
    <2>2. [x EXCEPT !.do = "mark"] \in Task /\ [x EXCEPT !.do = "mark"].do = "mark"
      BY <1>2, <2>1, TaskFields DEF Task
    <2>3. Then(t, <<[x EXCEPT !.do = "mark"]>>)
      BY <1>6 DEF Close, x
    <2> QED
      BY <1>1, <1>3, <2>1, <2>2, <2>3, ThenQuiet
  <1>7. CASE Mark(t)
    <2>1. x.do = "mark" /\ UNCHANGED <<open, reset, dropped, accepted, queue, seals, writing, wire, reading>>
          /\ reason' = x.why
      BY <1>7 DEF Mark, At, x
    <2>2. reason' \in Reason
      BY <1>2, <2>1, TaskFields
    <2>3. Do("set") \in Task /\ Do("set").do = "set" /\ Then(t, <<Do("set")>>)
      BY <1>7 DEF Mark, Do, Task
    <2> QED
      BY <1>1, <1>3, <2>1, <2>2, <2>3, ThenQuiet
  <1>8. CASE SetDropped(t)
    BY <1>1, <1>3, <1>8, ThenQuiet DEF SetDropped
  <1>9. CASE StartRead(t)
    BY <1>1, <1>3, <1>9, ThenQuiet DEF StartRead, Reading
  <1> QED
    BY <1>4, <1>5, <1>6, <1>7, <1>8, <1>9
-----------------------------------------------------------------------------
(* The write chain.                                                        *)

LEMMA Lists ==
    ASSUME IInv
    PROVE  /\ Len(queue) \in Nat /\ DOMAIN queue = 1..Len(queue) /\ (queue = <<>> <=> Len(queue) = 0)
           /\ Len(accepted) \in Nat /\ DOMAIN accepted = 1..Len(accepted)
           /\ Len(wire) \in Nat /\ DOMAIN wire = 1..Len(wire)
           /\ Popped \in Nat /\ seals \in Nat
           /\ \A i \in DOMAIN queue : queue[i] \in Frame
           /\ queue # <<>> => Head(queue) = queue[1]
  <1>1. queue \in Seq(Frame) /\ accepted \in Seq(Kind) /\ wire \in Seq(Frame) /\ seals \in Nat
    BY DEF IInv, TypeOK
  <1>2. Len(queue) \in Nat /\ DOMAIN queue = 1..Len(queue) /\ (queue = <<>> <=> Len(queue) = 0)
    BY <1>1, LenProperties, EmptySeq
  <1>3. \A i \in DOMAIN queue : queue[i] \in Frame
    BY <1>1, <1>2, ElementOfSeq
  <1>4. queue # <<>> => Head(queue) = queue[1]
    BY <1>1
  <1>5. Len(accepted) \in Nat /\ DOMAIN accepted = 1..Len(accepted)
        /\ Len(wire) \in Nat /\ DOMAIN wire = 1..Len(wire)
    BY <1>1, LenProperties
  <1>6. Popped \in Nat
    <2>1. Len(queue) <= Len(accepted)
      BY DEF IInv, Numbered
    <2> QED
      BY <1>2, <1>5, <2>1 DEF Popped
  <1> QED
    BY <1>1, <1>2, <1>3, <1>4, <1>5, <1>6

LEMMA PushInv ==
    ASSUME IInv, NEW t \in Thread, Push(t)
    PROVE  IInv'
  <1> DEFINE f == [msg |-> Len(accepted) + 1, seal |-> 0]
             k == Head(op[t]).kind
  <1>1. op[t] # <<>> /\ Head(op[t]).do = "push" /\ ~ ToWrite(t) /\ t \in Thread
    BY DEF Push, At, ToWrite
  <1>2. k \in Kind
    <2>1. Head(op[t]) \in Task
      BY <1>1, TidyTail DEF IInv
    <2> QED
      BY <1>1, <2>1, TaskFields
  <1>3. f \in Frame
    BY Lists DEF Frame
  <1>4. accepted' = Append(accepted, k) /\ queue' = Append(queue, f)
        /\ UNCHANGED <<open, reset, dropped, reason, seals, writing, wire, reading>>
    BY DEF Push
  <1> HIDE DEF f, k
  <1>5. /\ accepted' \in Seq(Kind) /\ Len(accepted') = Len(accepted) + 1
        /\ queue' \in Seq(Frame) /\ Len(queue') = Len(queue) + 1
        /\ \A i \in 1..Len(queue) : queue'[i] = queue[i]
        /\ queue'[Len(queue) + 1] = f
    BY <1>2, <1>3, <1>4, AppendProperties DEF IInv, TypeOK
  <1>6. Popped' = Popped /\ DOMAIN queue' = 1..(Len(queue) + 1) /\ queue' # <<>>
    BY <1>5, Lists, LenProperties DEF Popped
  <1>7. f.msg = Popped + Len(queue) + 1 /\ f.seal = 0
    BY Lists DEF f, Popped
  <1>8. CASE queue = <<>>
    <2>1. Len(queue) = 0 /\ writing = "none" /\ \A u \in Thread : ~ ToWrite(u)
      BY <1>8, Lists DEF IInv, OneWriter
    <2>2. Then(t, <<Do("write")>>)
      BY <2>1 DEF Push, StartsWriting
    <2>3. Do("write") \in Task /\ Do("write").do = "write"
      BY DEF Do, Task
    <2>4. PICK l : l = <<Do("write")>> \o Tail(op[t])
      OBVIOUS
    <2>5. Moves(t, l) /\ Tidy(l) /\ l # <<>> /\ Head(l).do = "write"
      BY <1>1, <2>2, <2>3, <2>4, ThenTask
    <2>6. /\ op' \in [Thread -> Seq(Task)]
          /\ \A u \in Thread : Tidy(op[u])'
          /\ \A u \in Thread \ {t}, d \in {"write", "start"} : At(u, d)' <=> At(u, d)
          /\ At(t, "write")' /\ ~ At(t, "start")'
      BY <2>5, MovesOthers DEF IInv, TypeOK
    <2>7. TypeOK'
      BY <1>4, <1>5, <2>6 DEF IInv, TypeOK
    <2>8. OneWriter'
      BY <1>4, <1>6, <2>1, <2>6 DEF OneWriter, ToWrite
    <2>9. Numbered'
      BY <1>4, <1>5, <1>6, <1>7, <2>1, <2>6, Lists DEF IInv, Numbered, SomeAt
    <2> QED
      BY <2>6, <2>7, <2>8, <2>9 DEF IInv
  <1>9. CASE queue # <<>>
    <2>1. Len(queue) > 0
      BY <1>9, Lists
    <2>2. Then(t, <<>>)
      BY <2>1, Lists DEF Push, StartsWriting
    <2>3. PICK l : l = Tail(op[t])
      OBVIOUS
    <2>4. Moves(t, l) /\ Tidy(l) /\ (l # <<>> => Head(l).do \notin {"write", "start"})
      BY <1>1, <2>2, <2>3, ThenNothing
    <2>5. /\ op' \in [Thread -> Seq(Task)]
          /\ \A u \in Thread : Tidy(op[u])'
          /\ \A u \in Thread, d \in {"write", "start"} : At(u, d)' <=> At(u, d)
      <3>1. op \in [Thread -> Seq(Task)] /\ \A u \in Thread : Tidy(op[u])
        BY DEF IInv, TypeOK
      <3>2. /\ op' \in [Thread -> Seq(Task)]
            /\ \A u \in Thread : Tidy(op[u])'
            /\ \A u \in Thread \ {t} : \A d : At(u, d)' <=> At(u, d)
            /\ \A d : At(t, d)' <=> l # <<>> /\ Head(l).do = d
        BY <1>1, <2>4, <3>1, MovesOthers
      <3>3. \A d \in {"write", "start"} : ~ At(t, d) /\ ~ At(t, d)'
        BY <1>1, <2>4, <3>2 DEF ToWrite
      <3> QED
        BY <3>2, <3>3
    <2>6. TypeOK'
      BY <1>4, <1>5, <2>5 DEF IInv, TypeOK
    <2>7. OneWriter'
      BY <1>4, <1>6, <1>9, <2>5 DEF IInv, OneWriter, ToWrite
    <2>8. SomeAt("write")' <=> SomeAt("write")
      BY <2>5 DEF SomeAt
    <2>9. Numbered'
      <3>1. Numbered
        BY DEF IInv
      <3>2. ASSUME NEW j \in DOMAIN queue'
            PROVE  queue'[j].msg = Popped + j /\ (j # 1 => queue'[j].seal = 0)
        <4>1. Len(queue) \in Nat /\ j \in 1..(Len(queue) + 1)
          BY <1>6, Lists
        <4>2. CASE j = Len(queue) + 1
          <5>1. queue'[j] = f /\ f.msg = Popped + j /\ f.seal = 0
            <6>1. Popped \in Nat
              BY Lists
            <6>2. Popped + Len(queue) + 1 = Popped + j
              BY <4>1, <4>2, <6>1
            <6> QED
              BY <1>5, <1>7, <4>2, <6>2
          <5> QED
            BY <5>1
        <4>3. CASE j # Len(queue) + 1
          <5>1. j \in 1..Len(queue)
            BY <4>1, <4>3
          <5>2. queue'[j] = queue[j] /\ j \in DOMAIN queue
            BY <1>5, <5>1, Lists
          <5> QED
            BY <3>1, <5>2 DEF Numbered
        <4> QED
          BY <4>2, <4>3
      <3>3. (\A j \in DOMAIN queue : queue[j].msg = Popped + j /\ (j # 1 => queue[j].seal = 0))'
        BY <1>6, <3>2
      <3>4. Len(queue) \in Nat /\ Len(accepted) \in Nat /\ Len(queue) <= Len(accepted)
        BY <3>1, Lists DEF Numbered
      <3>5. queue'[1] = queue[1] /\ (Len(queue) <= Len(accepted))'
        <4>1. 1 \in 1..Len(queue)
          BY <2>1, <3>4
        <4> QED
          BY <1>5, <3>4, <4>1
      <3> QED
        BY <1>4, <1>6, <1>9, <2>8, <3>1, <3>2, <3>3, <3>5 DEF Numbered
    <2> QED
      BY <2>5, <2>6, <2>7, <2>9 DEF IInv
  <1> QED
    BY <1>8, <1>9

LEMMA SealInv ==
    ASSUME IInv, NEW t \in Thread, Seal(t)
    PROVE  IInv'
  <1>1. op[t] # <<>> /\ At(t, "write") /\ Then(t, <<Do("start")>>)
        /\ UNCHANGED <<open, reset, dropped, reason, accepted, writing, wire, reading>>
    BY DEF Seal, At
  <1>2. queue # <<>> /\ writing = "none" /\ \A u \in Thread : ToWrite(u) => u = t
    BY <1>1 DEF IInv, OneWriter, ToWrite
  <1>3. 1 \in DOMAIN queue /\ seals = Popped
    BY <1>1, <1>2, Lists DEF IInv, Numbered, SomeAt
  <1>4. seals' = Popped + 1 /\ queue' = [queue EXCEPT ![1].seal = Popped + 1]
    BY <1>3 DEF Seal
  <1>5. /\ DOMAIN queue' = DOMAIN queue
        /\ \A i \in DOMAIN queue : i # 1 => queue'[i] = queue[i]
        /\ queue'[1].msg = queue[1].msg /\ queue'[1].seal = Popped + 1
        /\ queue'[1] \in Frame
    BY <1>3, <1>4, Lists DEF Frame
  <1>6. queue' \in Seq(Frame) /\ Len(queue') = Len(queue) /\ queue' # <<>>
    <2>1. queue' = [i \in 1..Len(queue) |-> queue'[i]]
      BY <1>4, Lists
    <2>2. queue' \in [1..Len(queue) -> Frame]
      BY <1>5, <2>1, Lists
    <2>3. queue' \in Seq(Frame)
      BY <2>2, Lists, SeqDef
    <2>4. Len(queue') \in Nat /\ DOMAIN queue' = 1..Len(queue')
      BY <2>3, LenProperties
    <2>5. Len(queue') = Len(queue)
      BY <1>5, <2>4, Lists
    <2> QED
      BY <1>2, <2>3, <2>5, Lists, EmptySeq
  <1>7. PICK l : l = <<Do("start")>> \o Tail(op[t])
    OBVIOUS
  <1>8. Do("start") \in Task /\ Do("start").do = "start"
    BY DEF Do, Task
  <1>9. Moves(t, l) /\ Tidy(l) /\ l # <<>> /\ Head(l).do = "start"
    BY <1>1, <1>7, <1>8, ThenTask
  <1>10. /\ op' \in [Thread -> Seq(Task)]
         /\ \A u \in Thread : Tidy(op[u])'
         /\ \A u \in Thread \ {t}, d \in {"write", "start"} : At(u, d)' <=> At(u, d)
         /\ At(t, "start")' /\ ~ At(t, "write")'
    BY <1>9, MovesOthers DEF IInv, TypeOK
  <1>11. TypeOK'
    BY <1>1, <1>4, <1>6, <1>10, Lists DEF IInv, TypeOK
  <1>12. OneWriter'
    BY <1>1, <1>2, <1>6, <1>10 DEF OneWriter, ToWrite
  <1>13. Popped' = Popped /\ ~ SomeAt("write")'
    BY <1>1, <1>2, <1>6, <1>10 DEF Popped, SomeAt, ToWrite
  <1>14. Numbered'
    BY <1>1, <1>2, <1>3, <1>4, <1>5, <1>6, <1>13, Lists DEF IInv, Numbered
  <1> QED
    BY <1>10, <1>11, <1>12, <1>14 DEF IInv

\* The socket takes the front frame, which its writer has sealed.
LEMMA FrontGoesOut ==
    ASSUME IInv, queue # <<>>, ~ SomeAt("write"), writing # "sent",
           wire' = Append(wire, Head(queue))
    PROVE  /\ wire' \in Seq(Frame) /\ Len(wire') = Popped + 1
           /\ \A i \in DOMAIN wire' : wire'[i] = [msg |-> i, seal |-> i]
           /\ wire' = Append(wire, [msg |-> Len(wire) + 1, seal |-> Len(wire) + 1])
           /\ Len(wire) + 1 \in 1..Len(accepted)
  <1> DEFINE f == Head(queue)
  <1>1. Numbered /\ wire \in Seq(Frame)
    BY DEF IInv, TypeOK
  <1>2. Len(wire) = Popped /\ Len(queue) >= 1 /\ Popped \in Nat /\ Len(wire) \in Nat
        /\ DOMAIN wire = 1..Len(wire)
    BY <1>1, Lists DEF Numbered
  <1>3. f = queue[1] /\ f \in Frame /\ queue[1].msg = Popped + 1 /\ queue[1].seal = Popped + 1
    <2>1. 1 \in DOMAIN queue
      BY <1>2, Lists
    <2> QED
      BY <1>1, <2>1, Lists DEF Numbered
  <1>4. f = [msg |-> Popped + 1, seal |-> Popped + 1]
    BY <1>3 DEF Frame
  <1> HIDE DEF f
  <1>5. /\ wire' \in Seq(Frame) /\ Len(wire') = Len(wire) + 1
        /\ \A i \in 1..Len(wire) : wire'[i] = wire[i]
        /\ wire'[Len(wire) + 1] = f
    <2>1. wire' = Append(wire, f)
      BY DEF f
    <2> QED
      BY <1>1, <1>3, <2>1, AppendProperties
  <1>6. DOMAIN wire' = 1..(Len(wire) + 1)
    BY <1>5, LenProperties
  <1>7. ASSUME NEW i \in DOMAIN wire'
        PROVE  wire'[i] = [msg |-> i, seal |-> i]
    <2>1. CASE i = Len(wire) + 1
      BY <1>2, <1>4, <1>5, <2>1
    <2>2. CASE i # Len(wire) + 1
      <3>1. i \in 1..Len(wire)
        BY <1>2, <1>6, <2>2
      <3> QED
        BY <1>1, <1>2, <1>5, <3>1 DEF Numbered
    <2> QED
      BY <2>1, <2>2
  <1>8. Popped + 1 <= Len(accepted)
    BY <1>2, Lists DEF Popped
  <1>9. wire' = Append(wire, f)
    BY DEF f
  <1>10. Len(wire) + 1 \in 1..Len(accepted)
    BY <1>2, <1>8, Lists
  <1> QED
    BY <1>2, <1>4, <1>5, <1>7, <1>9, <1>10

LEMMA StartWriteInv ==
    ASSUME IInv, NEW t \in Thread, StartWrite(t)
    PROVE  IInv'
  <1>1. op[t] # <<>> /\ At(t, "start") /\ ~ At(t, "write") /\ Then(t, <<>>)
        /\ UNCHANGED <<open, reset, dropped, reason, accepted, queue, seals, reading>>
    BY DEF StartWrite, At
  <1>2. queue # <<>> /\ writing = "none" /\ \A u \in Thread : ToWrite(u) => u = t
    BY <1>1 DEF IInv, OneWriter, ToWrite
  <1>3. ~ SomeAt("write")
    BY <1>1, <1>2 DEF SomeAt, ToWrite
  <1>4. PICK l : l = Tail(op[t])
    OBVIOUS
  <1>5. Moves(t, l) /\ Tidy(l) /\ (l # <<>> => Head(l).do \notin {"write", "start"})
    BY <1>1, <1>4, ThenNothing
  <1>6. /\ op' \in [Thread -> Seq(Task)]
        /\ \A u \in Thread : Tidy(op[u])'
        /\ \A u \in Thread \ {t}, d \in {"write", "start"} : At(u, d)' <=> At(u, d)
        /\ ~ At(t, "start")' /\ ~ At(t, "write")'
    BY <1>5, MovesOthers DEF IInv, TypeOK
  <1>7. \A u \in Thread : ~ ToWrite(u)'
    BY <1>2, <1>6 DEF ToWrite
  <1>8. ~ SomeAt("write")' /\ Popped' = Popped
    BY <1>1, <1>7 DEF SomeAt, ToWrite, Popped
  <1>9. \/ writing' = "unsent" /\ UNCHANGED wire
        \/ writing' = "sent" /\ wire' = Append(wire, Head(queue))
    BY DEF StartWrite
  <1>10. /\ wire' \in Seq(Frame)
         /\ Len(wire') = IF writing' = "sent" THEN Popped + 1 ELSE Popped
         /\ \A i \in DOMAIN wire' : wire'[i] = [msg |-> i, seal |-> i]
    <2>1. CASE writing' = "unsent" /\ UNCHANGED wire
      BY <1>2, <2>1 DEF IInv, TypeOK, Numbered
    <2>2. CASE writing' = "sent" /\ wire' = Append(wire, Head(queue))
      BY <1>2, <1>3, <2>2, FrontGoesOut
    <2> QED
      BY <1>9, <2>1, <2>2
  <1>11. writing' \in {"unsent", "sent"}
    BY <1>9
  <1>12. TypeOK'
    BY <1>1, <1>6, <1>10, <1>11 DEF IInv, TypeOK, Writing
  <1>13. OneWriter'
    BY <1>1, <1>2, <1>7, <1>11 DEF OneWriter
  <1>14. Numbered'
    BY <1>1, <1>3, <1>8, <1>10 DEF IInv, Numbered
  <1> QED
    BY <1>6, <1>12, <1>13, <1>14 DEF IInv

LEMMA TransmitInv ==
    ASSUME IInv, Transmit
    PROVE  IInv'
  <1>1. writing = "unsent" /\ writing' = "sent" /\ wire' = Append(wire, Head(queue))
        /\ UNCHANGED <<open, reset, dropped, reason, accepted, queue, seals, reading, op>>
    BY DEF Transmit
  <1>2. queue # <<>> /\ (\A t \in Thread : ~ ToWrite(t)) /\ ~ SomeAt("write")
    BY <1>1 DEF IInv, OneWriter, SomeAt, ToWrite
  <1>3. /\ wire' \in Seq(Frame) /\ Len(wire') = Popped + 1
        /\ \A i \in DOMAIN wire' : wire'[i] = [msg |-> i, seal |-> i]
    BY <1>1, <1>2, FrontGoesOut
  <1>4. TypeOK'
    BY <1>1, <1>3 DEF IInv, TypeOK, Writing
  <1>5. OneWriter'
    BY <1>1, <1>2 DEF OneWriter, ToWrite, At
  <1>6. Popped' = Popped /\ (SomeAt("write")' <=> SomeAt("write"))
    BY <1>1 DEF Popped, SomeAt, At
  <1>7. Numbered'
    BY <1>1, <1>3, <1>6 DEF IInv, Numbered
  <1> QED
    BY <1>1, <1>4, <1>5, <1>7 DEF IInv

LEMMA WriteDoneInv ==
    ASSUME IInv, WriteDone
    PROVE  IInv'
  <1> DEFINE l == IF Len(queue) = 1 THEN <<>> ELSE <<Do("write")>>
  <1>1. op["io"] = <<>> /\ writing = "sent" /\ writing' = "none" /\ queue' = Tail(queue)
        /\ Moves("io", l) /\ "io" \in Thread
        /\ UNCHANGED <<open, reset, dropped, reason, accepted, seals, wire, reading>>
    BY DEF WriteDone, Moves, Thread
  <1>2. queue # <<>> /\ (\A t \in Thread : ~ ToWrite(t)) /\ ~ SomeAt("write")
    BY <1>1 DEF IInv, OneWriter, SomeAt, ToWrite
  <1>3. /\ queue' \in Seq(Frame) /\ Len(queue') = Len(queue) - 1
        /\ \A i \in 1..Len(queue') : queue'[i] = queue[i + 1]
    BY <1>1, <1>2, HeadTailProperties DEF IInv, TypeOK
  <1>4. Len(queue) \in Nat \ {0} /\ DOMAIN queue' = 1..(Len(queue) - 1)
    BY <1>2, <1>3, Lists, LenProperties
  <1>5. Popped' = Popped + 1
    BY <1>1, <1>3, <1>4, Lists DEF Popped
  <1>6. Do("write") \in Task /\ Do("write").do = "write"
    BY DEF Do, Task
  <1>7. Tidy(l)
    BY <1>6, TidyLists
  <1>8. l # <<>> /\ Head(l).do = "write" <=> Len(queue) # 1
    BY <1>6
  <1>9. l # <<>> => Head(l).do # "start"
    BY <1>6
  <1> HIDE DEF l
  <1>10. /\ op' \in [Thread -> Seq(Task)]
         /\ \A t \in Thread : Tidy(op[t])'
         /\ \A t \in Thread \ {"io"}, d \in {"write", "start"} : At(t, d)' <=> At(t, d)
         /\ At("io", "write")' <=> Len(queue) # 1
         /\ ~ At("io", "start")'
    BY <1>1, <1>7, <1>8, <1>9, MovesOthers DEF IInv, TypeOK
  <1>11. TypeOK'
    BY <1>1, <1>3, <1>10 DEF IInv, TypeOK, Writing
  <1>12. queue' # <<>> <=> Len(queue) # 1
    BY <1>3, <1>4, EmptySeq
  <1>13. OneWriter'
    BY <1>1, <1>2, <1>10, <1>12 DEF OneWriter, ToWrite
  <1>14. SomeAt("write")' <=> Len(queue) # 1
    BY <1>1, <1>2, <1>10 DEF SomeAt, ToWrite
  <1>15. Numbered'
    <2>1. Numbered
      BY DEF IInv
    <2>2. ASSUME NEW i \in DOMAIN queue'
          PROVE  queue'[i].msg = Popped' + i /\ queue'[i].seal = 0
      <3>1. i + 1 \in DOMAIN queue /\ i + 1 # 1 /\ i \in 1..Len(queue') /\ i \in Nat
        BY <1>3, <1>4, Lists
      <3>2. queue'[i] = queue[i + 1]
        BY <1>3, <3>1
      <3>3. queue[i + 1].msg = Popped + (i + 1) /\ queue[i + 1].seal = 0
        BY <2>1, <3>1 DEF Numbered
      <3> QED
        BY <1>5, <3>1, <3>2, <3>3, Lists
    <2>3. queue' # <<>> => 1 \in DOMAIN queue'
      BY <1>4, <1>12
    <2>4. (Len(queue) <= Len(accepted))'
      BY <1>1, <1>3, <1>4, <2>1, Lists DEF Numbered
    <2>5. seals' = Popped'
      BY <1>1, <1>2, <1>5, <2>1 DEF Numbered
    <2>6. Len(wire') = Popped' /\ \A i \in DOMAIN wire' : wire'[i] = [msg |-> i, seal |-> i]
      BY <1>1, <1>5, <2>1 DEF Numbered
    <2> QED
      BY <1>1, <1>12, <1>14, <2>2, <2>3, <2>4, <2>5, <2>6 DEF Numbered
  <1> QED
    BY <1>10, <1>11, <1>13, <1>15 DEF IInv

LEMMA WriteFailsInv ==
    ASSUME IInv, WriteFails
    PROVE  IInv'
  <1> DEFINE l == <<Drop("TCPError")>>
  <1>1. op["io"] = <<>> /\ writing = "unsent" /\ writing' = "failed"
        /\ Moves("io", l) /\ "io" \in Thread
        /\ UNCHANGED <<open, reset, dropped, reason, accepted, queue, seals, wire, reading>>
    BY DEF WriteFails, Moves, Thread
  <1>2. Tidy(l) /\ Head(l).do \notin {"write", "start"}
    <2>1. Drop("TCPError") \in Task /\ Drop("TCPError").do = "drop"
      BY DEF Drop, Task, Reason
    <2> QED
      BY <2>1, TidyLists
  <1> HIDE DEF l
  <1>3. /\ op' \in [Thread -> Seq(Task)]
        /\ \A t \in Thread : Tidy(op[t])'
        /\ \A t \in Thread, d \in {"write", "start"} : At(t, d)' <=> At(t, d)
    <2>1. ~ At("io", "write") /\ ~ At("io", "start")
      BY <1>1 DEF At
    <2>2. op \in [Thread -> Seq(Task)] /\ \A t \in Thread : Tidy(op[t])
      BY DEF IInv, TypeOK
    <2>3. /\ op' \in [Thread -> Seq(Task)]
          /\ \A u \in Thread : Tidy(op[u])'
          /\ \A u \in Thread \ {"io"} : \A d : At(u, d)' <=> At(u, d)
          /\ \A d : At("io", d)' <=> l # <<>> /\ Head(l).do = d
      BY <1>1, <1>2, <2>2, MovesOthers
    <2>4. \A d \in {"write", "start"} : ~ At("io", d)'
      BY <1>2, <2>3
    <2> QED
      BY <2>1, <2>3, <2>4
  <1>4. TypeOK'
    BY <1>1, <1>3 DEF IInv, TypeOK, Writing
  <1>5. OneWriter'
    BY <1>1, <1>3 DEF IInv, OneWriter, ToWrite
  <1>6. Popped' = Popped /\ (SomeAt("write")' <=> SomeAt("write"))
    BY <1>1, <1>3 DEF Popped, SomeAt
  <1>7. Numbered'
    BY <1>1, <1>6 DEF IInv, Numbered
  <1> QED
    BY <1>3, <1>4, <1>5, <1>7 DEF IInv
-----------------------------------------------------------------------------
(* Reads and calls.                                                        *)

\* A list of tasks that a thread in no call may be given.
Given(l) == Tidy(l) /\ (l # <<>> => Head(l).do \notin {"write", "start", "mark", "set"})

\* A thread that is in no call gets a list of tasks.
LEMMA NewTasks ==
    ASSUME IInv, NEW t \in Thread, op[t] = <<>>, NEW STATE l, Given(l), Moves(t, l),
           UNCHANGED <<open, reset, dropped, reason, accepted, queue, seals, writing, wire>>,
           reading' \in Reading
    PROVE  IInv'
  <1>1. op' \in [Thread -> Seq(Task)]
    BY MovesOthers DEF IInv, TypeOK, Given
  <1>2. TypeOK'
    BY <1>1 DEF IInv, TypeOK
  <1>3. ~ ToWrite(t)
    BY DEF ToWrite, At
  <1> QED
    BY <1>2, <1>3, QuietStep DEF Given

\* A list of three tasks, as TidyLists has it.
LEMMA ThreeTasks ==
    ASSUME NEW x \in Task, NEW y \in Task, NEW z \in Task,
           y.do \notin {"write", "start", "mark", "set"},
           z.do \notin {"write", "start", "mark", "set"}
    PROVE  /\ Tidy(<<x>>) /\ Tidy(<<x, y>>) /\ Tidy(<<x, y, z>>)
           /\ Head(<<x>>) = x /\ Head(<<x, y>>) = x /\ Head(<<x, y, z>>) = x
  BY TidyLists

\* The lists that handlers and calls give a thread.
LEMMA GivenLists ==
    /\ \A k \in Kind : Given(<<Send(k)>>)
    /\ \A r \in Reason : Given(<<Drop(r)>>)
    /\ Given(Disconnect)
    /\ \A l \in Outcome : Given(l)
  <1>1. ASSUME NEW k \in Kind
        PROVE  Send(k) \in Task /\ Send(k).do = "send"
    BY DEF Send, Task
  <1>2. ASSUME NEW r \in Reason
        PROVE  Drop(r) \in Task /\ Drop(r).do = "drop"
    BY DEF Drop, Task
  <1>3. Do("read") \in Task /\ Do("read").do = "read"
    BY DEF Do, Task
  <1>4. "data" \in Kind /\ "disconnect" \in Kind
        /\ "local" \in Reason /\ "BadProtocol" \in Reason /\ "DisconnectRequested" \in Reason
    BY DEF Kind, Reason
  <1>5. ASSUME NEW x \in Task, x.do \in {"send", "drop", "read"}
        PROVE  Given(<<x>>)
    BY <1>5, <1>3, ThreeTasks DEF Given
  <1>6. ASSUME NEW x \in Task, NEW y \in Task,
               x.do \in {"send", "drop"}, y.do \in {"drop", "read"}
        PROVE  Given(<<x, y>>)
    BY <1>6, <1>3, ThreeTasks DEF Given
  <1>7. ASSUME NEW x \in Task, NEW y \in Task,
               x.do = "send", y.do = "drop"
        PROVE  Given(<<x, y, Do("read")>>)
    <2>1. /\ x.do \notin {"write", "start", "mark", "set"}
          /\ y.do \notin {"write", "start", "mark", "set"}
          /\ Do("read").do \notin {"write", "start", "mark", "set"}
      BY <1>7, <1>3
    <2>2. Tidy(<<x, y, Do("read")>>) /\ Head(<<x, y, Do("read")>>) = x
      BY <1>3, <2>1, ThreeTasks
    <2> QED
      BY <2>1, <2>2 DEF Given
  <1>8. Send("disconnect") \in Task /\ Send("disconnect").do = "send"
        /\ Send("data") \in Task /\ Send("data").do = "send"
    BY <1>1, <1>4
  <1>9. /\ Drop("local") \in Task /\ Drop("local").do = "drop"
        /\ Drop("BadProtocol") \in Task /\ Drop("BadProtocol").do = "drop"
        /\ Drop("DisconnectRequested") \in Task /\ Drop("DisconnectRequested").do = "drop"
    BY <1>2, <1>4
  <1>10. ASSUME NEW l \in Outcome
         PROVE  Given(l)
    <2>1. \/ l = <<Do("read")>>
          \/ l = <<Drop("DisconnectRequested"), Do("read")>>
          \/ l = <<Send("disconnect"), Drop("BadProtocol"), Do("read")>>
          \/ l = <<Send("disconnect"), Drop("BadProtocol")>>
          \/ l = <<Drop("BadProtocol")>>
          \/ l = <<Send("data"), Do("read")>>
          \/ l = <<>>
      <3>1. l \notin {<<Send("data"), Do("read")>>}
            => l \in {<<Do("read")>>,
                      <<Drop("DisconnectRequested"), Do("read")>>,
                      <<Send("disconnect"), Drop("BadProtocol"), Do("read")>>,
                      <<Send("disconnect"), Drop("BadProtocol")>>,
                      <<>>,
                      <<Drop("BadProtocol")>>}
        BY Zenon DEF Outcome
      <3> QED
        BY <3>1, Zenon
    <2>2. CASE l = <<Do("read")>>
      BY <1>3, <1>5, <2>2, Zenon
    <2>3. CASE l = <<Drop("DisconnectRequested"), Do("read")>>
      BY <1>3, <1>6, <1>9, <2>3, Zenon
    <2>4. CASE l = <<Send("disconnect"), Drop("BadProtocol"), Do("read")>>
      BY <1>7, <1>8, <1>9, <2>4, Zenon
    <2>5. CASE l = <<Send("disconnect"), Drop("BadProtocol")>>
      BY <1>6, <1>8, <1>9, <2>5, Zenon
    <2>6. CASE l = <<Drop("BadProtocol")>>
      BY <1>5, <1>9, <2>6, Zenon
    <2>7. CASE l = <<Send("data"), Do("read")>>
      BY <1>3, <1>6, <1>8, <2>7, Zenon
    <2>8. CASE l = <<>>
      BY <2>8 DEF Given, Tidy
    <2> QED
      BY <2>1, <2>2, <2>3, <2>4, <2>5, <2>6, <2>7, <2>8, Zenon
  <1>11. Given(Disconnect)
    BY <1>6, <1>8, <1>9, Zenon DEF Disconnect
  <1>12. ASSUME NEW k \in Kind
         PROVE  Given(<<Send(k)>>)
    BY <1>1, <1>5, Zenon
  <1>13. ASSUME NEW r \in Reason
         PROVE  Given(<<Drop(r)>>)
    BY <1>2, <1>5, Zenon
  <1> QED
    BY <1>10, <1>11, <1>12, <1>13

LEMMA HandlerInv ==
    ASSUME IInv, HeaderRead \/ FrameRead \/ ReadFails
    PROVE  IInv'
  <1>1. op["io"] = <<>> /\ "io" \in Thread
        /\ UNCHANGED <<open, reset, dropped, reason, accepted, queue, seals, writing, wire>>
    BY DEF HeaderRead, FrameRead, ReadFails, Thread
  <1>2. reading' \in Reading
    <2>1. reading' = <<"frame", FALSE>> \/ reading' = <<"none", FALSE>>
      BY DEF HeaderRead, FrameRead, ReadFails
    <2> QED
      BY <2>1, Readings, Zenon
  <1>3. ASSUME NEW STATE l, Given(l), op' = [op EXCEPT !["io"] = l]
        PROVE  IInv'
    BY <1>1, <1>2, <1>3, NewTasks DEF Moves
  <1>4. CASE UNCHANGED op
    <2>1. op' = [op EXCEPT !["io"] = <<>>]
      BY <1>1, <1>4 DEF IInv, TypeOK
    <2>2. Given(<<>>)
      BY DEF Given, Tidy
    <2> QED
      BY <1>3, <2>1, <2>2
  <1>5. CASE \E r \in Reason : op' = [op EXCEPT !["io"] = <<Drop(r)>>]
    <2>1. PICK r \in Reason : op' = [op EXCEPT !["io"] = <<Drop(r)>>]
      BY <1>5
    <2>2. Given(<<Drop(r)>>)
      BY GivenLists
    <2> QED
      BY <1>3, <2>1, <2>2
  <1>6. CASE \E l \in Outcome : op' = [op EXCEPT !["io"] = l]
    <2>1. PICK l \in Outcome : op' = [op EXCEPT !["io"] = l]
      BY <1>6
    <2>2. Given(l)
      BY GivenLists
    <2> QED
      BY <1>3, <2>1, <2>2
  <1>7. "TCPError" \in Reason /\ "BadProtocol" \in Reason
    BY DEF Reason
  <1>8. CASE HeaderRead
    BY <1>4, <1>5, <1>7, <1>8 DEF HeaderRead
  <1>9. CASE FrameRead
    BY <1>6, <1>9 DEF FrameRead
  <1>10. CASE ReadFails
    BY <1>5, <1>7, <1>10 DEF ReadFails
  <1> QED
    BY <1>8, <1>9, <1>10

LEMMA CallInv ==
    ASSUME IInv, NEW t \in Thread, SendPacket(t) \/ UserDisconnect(t) \/ Quit
    PROVE  IInv'
  <1>1. reading \in Reading
    BY DEF IInv, TypeOK
  <1>2. ASSUME NEW u \in Thread, NEW STATE l, Given(l), Call(u, l)
        PROVE  IInv'
    BY <1>1, <1>2, NewTasks DEF Call, Moves
  <1>3. "data" \in Kind /\ "io" \in Thread
    BY DEF Kind, Thread
  <1>4. CASE SendPacket(t)
    BY <1>2, <1>3, <1>4, GivenLists DEF SendPacket
  <1>5. CASE UserDisconnect(t)
    BY <1>2, <1>5, GivenLists DEF UserDisconnect
  <1>6. CASE Quit
    BY <1>2, <1>3, <1>6, GivenLists DEF Quit
  <1> QED
    BY <1>4, <1>5, <1>6

LEMMA ArriveInv ==
    ASSUME IInv, Arrive
    PROVE  IInv'
  <1>1. UNCHANGED <<open, reset, dropped, reason, accepted, queue, seals, writing, wire, op>>
    BY DEF Arrive
  <1>2. reading' \in Reading
    <2>1. reading[1] \in {"header", "frame"}
      BY DEF Arrive, IInv, TypeOK, Reading
    <2>2. reading' = <<reading[1], TRUE>>
      BY DEF Arrive
    <2> QED
      BY <2>1, <2>2 DEF Reading
  <1>3. TypeOK'
    BY <1>1, <1>2 DEF IInv, TypeOK
  <1>4. OneWriter' /\ \A t \in Thread : Tidy(op[t])'
    BY <1>1 DEF IInv, OneWriter, ToWrite, At
  <1>5. Numbered'
    BY <1>1 DEF IInv, Numbered, Popped, SomeAt, At
  <1> QED
    BY <1>3, <1>4, <1>5 DEF IInv


LEMMA ResetsInv ==
    ASSUME IInv, ConnectionResets
    PROVE  IInv'
  <1>1. reset' = TRUE
        /\ UNCHANGED <<open, dropped, reason, accepted, queue, seals, writing, wire, reading, op>>
    BY DEF ConnectionResets
  <1>2. TypeOK'
    BY <1>1 DEF IInv, TypeOK
  <1>3. OneWriter' /\ \A t \in Thread : Tidy(op[t])'
    BY <1>1 DEF IInv, OneWriter, ToWrite, At
  <1>4. Numbered'
    BY <1>1 DEF IInv, Numbered, Popped, SomeAt, At
  <1> QED
    BY <1>2, <1>3, <1>4 DEF IInv

LEMMA DestroyInv ==
    ASSUME IInv, Destroy
    PROVE  IInv'
  <1>1. open' = FALSE /\ UNCHANGED <<reset, dropped, reason, accepted, queue, seals, writing, wire, reading, op>>
    BY DEF Destroy
  <1>2. TypeOK'
    BY <1>1 DEF IInv, TypeOK
  <1>3. OneWriter' /\ \A t \in Thread : Tidy(op[t])'
    BY <1>1 DEF IInv, OneWriter, ToWrite, At
  <1>4. Numbered'
    BY <1>1 DEF IInv, Numbered, Popped, SomeAt, At
  <1> QED
    BY <1>2, <1>3, <1>4 DEF IInv
-----------------------------------------------------------------------------
(* The invariant.                                                          *)

LEMMA InitInv == Init => IInv
  <1> SUFFICES ASSUME Init PROVE IInv
    OBVIOUS
  <1>1. "data" \in Kind /\ "io" \in Thread
    BY DEF Kind, Thread
  <1>2. Given(<<>>)
    BY DEF Given, Tidy
  <1>3. Given(<<Send("data"), Do("read")>>)
    <2>1. Send("data") \in Task /\ Do("read") \in Task
          /\ Send("data").do = "send" /\ Do("read").do = "read"
      BY <1>1 DEF Send, Do, Task
    <2> QED
      BY <2>1, ThreeTasks DEF Given
  <1>4. PICK l : Given(l) /\ op = [t \in Thread |-> IF t = "io" THEN l ELSE <<>>]
    <2>1. Given(Disconnect)
      BY GivenLists
    <2>2. \E l \in {<<Send("data"), Do("read")>>, Disconnect} :
             op = [t \in Thread |-> IF t = "io" THEN l ELSE <<>>]
      BY Zenon DEF Init
    <2> QED
      BY <1>3, <2>1, <2>2, Zenon
  <1>5. \A t \in Thread : Given(op[t]) /\ op[t] \in Seq(Task)
    BY <1>2, <1>4 DEF Given, Tidy
  <1>6. op \in [Thread -> Seq(Task)]
    BY <1>4, <1>5
  <1>7. \A t \in Thread : Tidy(op[t]) /\ ~ At(t, "write") /\ ~ At(t, "start")
    BY <1>5 DEF Given, At
  <1>8. TypeOK
    <2>1. reading \in Reading
      BY Readings, Zenon DEF Init
    <2>2. accepted \in Seq(Kind) /\ queue \in Seq(Frame) /\ wire \in Seq(Frame)
      BY DEF Init
    <2>3. open \in BOOLEAN /\ reset \in BOOLEAN /\ dropped \in BOOLEAN
      BY DEF Init
    <2>4. reason \in Reason \cup {"none"} /\ seals \in Nat /\ writing \in Writing
      BY DEF Init, Writing
    <2> QED
      BY <1>6, <2>1, <2>2, <2>3, <2>4, Zenon DEF TypeOK
  <1>9. OneWriter
    BY <1>7 DEF Init, OneWriter, ToWrite
  <1>10. Numbered
    BY DEF Init, Numbered, Popped
  <1> QED
    BY <1>7, <1>8, <1>9, <1>10 DEF IInv

LEMMA NextInv == IInv /\ [Next]_vars => IInv'
  <1> SUFFICES ASSUME IInv, [Next]_vars PROVE IInv'
    OBVIOUS
  <1>1. ASSUME NEW t \in Thread, Step(t)
        PROVE  IInv'
    BY <1>1, OtherStepsInv, PushInv, SealInv, StartWriteInv DEF Step
  <1>2. ASSUME NEW t \in Thread, SendPacket(t) \/ UserDisconnect(t)
        PROVE  IInv'
    BY <1>2, CallInv
  <1>3. CASE Quit
    <2>1. "io" \in Thread
      BY DEF Thread
    <2> QED
      BY <1>3, <2>1, CallInv
  <1>4. CASE Handler
    BY <1>4, WriteDoneInv, WriteFailsInv, HandlerInv DEF Handler
  <1>5. CASE Transmit
    BY <1>5, TransmitInv
  <1>6. CASE Arrive
    BY <1>6, ArriveInv
  <1>7. CASE Destroy
    BY <1>7, DestroyInv
  <1>9. CASE ConnectionResets
    BY <1>9, ResetsInv
  <1>8. CASE UNCHANGED vars
    BY <1>8 DEF vars, IInv, TypeOK, OneWriter, ToWrite, At, Numbered, Popped, SomeAt
  <1> QED
    BY <1>1, <1>2, <1>3, <1>4, <1>5, <1>6, <1>7, <1>8, <1>9 DEF Next

\* IInv holds in every state of a session, for any number of callers and
\* packets.
THEOREM Invariance == Spec => []IInv
  BY InitInv, NextInv, PTL DEF Spec

\* The variables keep their types: what send, write, drop and the handlers
\* leave in the queue, on the wire and with the threads is of the right kind.
THEOREM TypesCorrect == Spec => []TypeOK
  <1>1. IInv => TypeOK
    BY DEF IInv
  <1> QED
    BY <1>1, Invariance, PTL

\* The front of the write queue always has exactly one party responsible for
\* it, however send, write and its handler interleave (Session.cpp:256-306).
THEOREM AlwaysOneWriter == Spec => []OneWriter
  <1>1. IInv => OneWriter
    BY DEF IInv
  <1> QED
    BY <1>1, Invariance, PTL
-----------------------------------------------------------------------------
(* Dropping.                                                               *)

\* The socket is closed, or the connection under it was reset; neither is undone.
Shut == ~ open \/ reset

\* A thread past the closing of the socket finds it shut, and one about to set
\* m_dropped finds a reason recorded, whoever recorded it.
Dropping == /\ DroppedMeansClosed
            /\ \A t \in Thread : At(t, "mark") => Shut
            /\ \A t \in Thread : At(t, "set") => Shut /\ reason # "none"

\* A step that neither reopens the socket nor forgets the reason, and that
\* brings its thread to the next stage of drop only when the last is done.
LEMMA DroppingStep ==
    ASSUME IInv, Dropping, NEW t \in Thread, NEW STATE l, Tidy(l), Moves(t, l),
           Shut => Shut', UNCHANGED reason \/ reason' # "none",
           UNCHANGED dropped \/ (Shut' /\ reason' # "none"),
           l # <<>> /\ Head(l).do = "mark" => Shut',
           l # <<>> /\ Head(l).do = "set" => Shut' /\ reason' # "none"
    PROVE  Dropping'
  <1>1. /\ \A u \in Thread \ {t}, d \in {"mark", "set"} : At(u, d)' <=> At(u, d)
        /\ \A d \in {"mark", "set"} : At(t, d)' <=> l # <<>> /\ Head(l).do = d
    BY MovesOthers DEF IInv, TypeOK
  <1> QED
    BY <1>1 DEF Dropping, DroppedMeansClosed, Shut

\* A thread finishes its first task, or goes from it to one outside drop.
LEMMA DroppingQuiet ==
    ASSUME IInv, Dropping, NEW t \in Thread, op[t] # <<>>,
           \/ Then(t, <<>>)
           \/ \E x \in Task : x.do \notin {"mark", "set"} /\ Then(t, <<x>>),
           UNCHANGED <<open, reset, dropped, reason>>
    PROVE  Dropping'
  <1>1. ASSUME NEW STATE l, Tidy(l), Moves(t, l), l # <<>> => Head(l).do \notin {"mark", "set"}
        PROVE  Dropping'
    BY <1>1, DroppingStep DEF Shut
  <1>2. CASE Then(t, <<>>)
    BY <1>1, <1>2, ThenNothing
  <1>3. ASSUME NEW x \in Task, x.do \notin {"mark", "set"}, Then(t, <<x>>)
        PROVE  Dropping'
    BY <1>1, <1>3, ThenTask
  <1> QED
    BY <1>2, <1>3

\* A thread in no call is given tasks.
LEMMA DroppingGiven ==
    ASSUME IInv, Dropping, NEW t \in Thread, NEW STATE l, Given(l), Moves(t, l),
           UNCHANGED <<open, reset, dropped, reason>>
    PROVE  Dropping'
  BY DroppingStep DEF Given, Shut

LEMMA StepDropping ==
    ASSUME IInv, Dropping, NEW t \in Thread, Step(t)
    PROVE  Dropping'
  <1> DEFINE x == Head(op[t])
  <1>1. op[t] # <<>>
    BY DEF Step, At, CheckOpen, Push, Seal, StartWrite, CheckDropped, Close, Mark, SetDropped, StartRead
  <1>2. x \in Task
    BY <1>1, TidyTail DEF IInv
  <1>3. Do("write") \in Task /\ Do("start") \in Task /\ Do("set") \in Task
        /\ Do("write").do = "write" /\ Do("start").do = "start" /\ Do("set").do = "set"
    BY DEF Do, Task
  <1> HIDE DEF x
  <1>4. CASE CheckOpen(t)
    <2>1. x.do = "send" /\ UNCHANGED <<open, reset, dropped, reason>>
          /\ (Then(t, <<>>) \/ Then(t, <<[x EXCEPT !.do = "push"]>>))
      BY <1>4 DEF CheckOpen, At, x
    <2>2. [x EXCEPT !.do = "push"] \in Task /\ [x EXCEPT !.do = "push"].do = "push"
      BY <1>2, <2>1, TaskFields DEF Task
    <2> QED
      BY <1>1, <2>1, <2>2, DroppingQuiet
  <1>5. CASE Push(t)
    <2>1. (Then(t, <<>>) \/ Then(t, <<Do("write")>>)) /\ UNCHANGED <<open, reset, dropped, reason>>
      BY <1>5 DEF Push
    <2> QED
      BY <1>1, <1>3, <2>1, DroppingQuiet
  <1>6. CASE Seal(t)
    BY <1>1, <1>3, <1>6, DroppingQuiet DEF Seal
  <1>7. CASE StartWrite(t)
    BY <1>1, <1>7, DroppingQuiet DEF StartWrite
  <1>8. CASE CheckDropped(t)
    <2>1. x.do = "drop" /\ UNCHANGED <<open, reset, dropped, reason>>
          /\ (Then(t, <<>>) \/ Then(t, <<[x EXCEPT !.do = "close"]>>))
      BY <1>8 DEF CheckDropped, At, x
    <2>2. [x EXCEPT !.do = "close"] \in Task /\ [x EXCEPT !.do = "close"].do = "close"
      BY <1>2, <2>1, TaskFields DEF Task
    <2> QED
      BY <1>1, <2>1, <2>2, DroppingQuiet
  <1>9. CASE Close(t)
    <2>1. x.do = "close" /\ Shut' /\ UNCHANGED <<dropped, reason>>
          /\ Then(t, <<[x EXCEPT !.do = "mark"]>>)
      BY <1>9 DEF Close, At, x, Shut
    <2>2. [x EXCEPT !.do = "mark"] \in Task /\ [x EXCEPT !.do = "mark"].do = "mark"
      BY <1>2, <2>1, TaskFields DEF Task
    <2> QED
      BY <1>1, <2>1, <2>2, ThenTask, DroppingStep
  <1>10. CASE Mark(t)
    <2>1. x.do = "mark" /\ reason' = x.why /\ Shut /\ UNCHANGED <<open, reset, dropped>>
          /\ Then(t, <<Do("set")>>)
      BY <1>10 DEF Mark, At, x, Dropping
    <2>2. reason' # "none"
      BY <1>2, <2>1, TaskFields DEF Reason
    <2> QED
      BY <1>1, <1>3, <2>1, <2>2, ThenTask, DroppingStep DEF Shut
  <1>11. CASE SetDropped(t)
    <2>1. Shut /\ reason # "none" /\ UNCHANGED <<open, reset, reason>> /\ Then(t, <<>>)
      BY <1>11 DEF SetDropped, Dropping
    <2> QED
      BY <1>1, <2>1, ThenNothing, DroppingStep DEF Shut
  <1>12. CASE StartRead(t)
    BY <1>1, <1>12, DroppingQuiet DEF StartRead
  <1> QED
    BY <1>4, <1>5, <1>6, <1>7, <1>8, <1>9, <1>10, <1>11, <1>12 DEF Step

LEMMA HandlerDropping ==
    ASSUME IInv, Dropping, Handler
    PROVE  Dropping'
  <1>1. "io" \in Thread /\ UNCHANGED <<open, reset, dropped, reason>>
    BY DEF Thread, Handler, WriteDone, WriteFails, HeaderRead, FrameRead, ReadFails
  <1>2. ASSUME NEW l \in Outcome, op' = [op EXCEPT !["io"] = l]
        PROVE  Dropping'
    BY <1>1, <1>2, GivenLists, DroppingGiven DEF Moves
  <1>3. ASSUME NEW r \in Reason, op' = [op EXCEPT !["io"] = <<Drop(r)>>]
        PROVE  Dropping'
    BY <1>1, <1>3, GivenLists, DroppingGiven DEF Moves
  <1>4. "TCPError" \in Reason /\ "BadProtocol" \in Reason
    BY DEF Reason
  <1>5. CASE WriteDone
    <2>1. Do("write") \in Task /\ Do("write").do = "write"
      BY DEF Do, Task
    <2>2. PICK l \in {<<>>, <<Do("write")>>} : op' = [op EXCEPT !["io"] = l]
      BY <1>5 DEF WriteDone
    <2>3. Tidy(<<>>) /\ Tidy(<<Do("write")>>) /\ Head(<<Do("write")>>).do = "write"
      BY <2>1, TidyLists
    <2>4. Tidy(l) /\ (l # <<>> => Head(l).do \notin {"mark", "set"})
      <3>1. CASE l = <<>>
        BY <2>3, <3>1
      <3>2. CASE l = <<Do("write")>>
        BY <2>3, <3>2
      <3> QED
        BY <3>1, <3>2
    <2> QED
      BY <1>1, <2>2, <2>4, DroppingStep DEF Moves, Shut
  <1>6. CASE UNCHANGED op
    BY <1>1, <1>6 DEF Dropping, DroppedMeansClosed, At, Shut
  <1> QED
    BY <1>2, <1>3, <1>4, <1>5, <1>6 DEF Handler, WriteFails, HeaderRead, FrameRead, ReadFails

LEMMA NextDropping == IInv /\ Dropping /\ [Next]_vars => Dropping'
  <1> SUFFICES ASSUME IInv, Dropping, [Next]_vars PROVE Dropping'
    OBVIOUS
  <1>1. "io" \in Thread /\ "data" \in Kind
    BY DEF Thread, Kind
  <1>2. ASSUME NEW t \in Thread, SendPacket(t) \/ UserDisconnect(t) \/ Quit
        PROVE  Dropping'
    <2>1. ASSUME NEW u \in Thread, NEW STATE l, Given(l), Call(u, l)
          PROVE  Dropping'
      BY <2>1, DroppingGiven DEF Call, Moves
    <2>2. Given(<<Send("data")>>) /\ Given(Disconnect)
      BY <1>1, GivenLists
    <2> QED
      BY <1>1, <1>2, <2>1, <2>2 DEF SendPacket, UserDisconnect, Quit
  <1>3. CASE Transmit \/ Arrive \/ ConnectionResets \/ Destroy \/ UNCHANGED vars
    <2>1. UNCHANGED <<dropped, reason, op>> /\ (Shut => Shut')
      <3>1. CASE Transmit
        BY <3>1 DEF Transmit, Shut
      <3>2. CASE Arrive
        BY <3>2 DEF Arrive, Shut
      <3>3. CASE ConnectionResets
        BY <3>3 DEF ConnectionResets, Shut
      <3>4. CASE Destroy
        BY <3>4 DEF Destroy, Shut
      <3>5. CASE UNCHANGED vars
        BY <3>5 DEF vars, Shut
      <3> QED
        BY <1>3, <3>1, <3>2, <3>3, <3>4, <3>5
    <2>2. \A t \in Thread : \A d : At(t, d)' <=> At(t, d)
      BY <2>1 DEF At
    <2> QED
      BY <2>1, <2>2 DEF Dropping, DroppedMeansClosed, Shut
  <1> QED
    BY <1>1, <1>2, <1>3, StepDropping, HandlerDropping DEF Next

\* Whoever finds m_dropped set, as send's callers and doRead do without a lock,
\* finds the reason recorded and the socket closed, or else the connection reset,
\* with any number of threads in drop together (Session.cpp:308-334).
THEOREM AlwaysClosedWhenDropped == Spec => []DroppedMeansClosed
  <1>1. Init => Dropping
    BY DEF Init, Dropping, DroppedMeansClosed, At, Send, Do, Drop, Disconnect
  <1>2. Dropping => DroppedMeansClosed
    BY DEF Dropping
  <1> QED
    BY <1>1, <1>2, NextDropping, Invariance, PTL DEF Spec
-----------------------------------------------------------------------------
(* Reading.                                                                *)

HasRead(l) == \E i \in DOMAIN l : l[i].do = "read"
ReadLast(l) == \A i \in DOMAIN l : l[i].do = "read" => i = Len(l)

\* A read is what a thread does last, only the network thread does it, and it
\* is not about to do it while a read is outstanding.
ReadChain == \A t \in Thread : /\ ReadLast(op[t])
                               /\ HasRead(op[t]) => t = "io" /\ reading[1] = "none"

LEMMA TailReads ==
    ASSUME NEW l, Tidy(l), l # <<>>, ReadLast(l)
    PROVE  /\ ReadLast(Tail(l))
           /\ HasRead(Tail(l)) => HasRead(l)
           /\ Head(l).do = "read" => HasRead(l) /\ ~ HasRead(Tail(l))
  <1>1. Len(l) \in Nat /\ DOMAIN l = 1..Len(l) /\ Len(l) # 0
    BY LenProperties, EmptySeq DEF Tidy
  <1>2. /\ Tail(l) \in Seq(Task)
        /\ Len(Tail(l)) = Len(l) - 1
        /\ \A i \in 1..Len(Tail(l)) : Tail(l)[i] = l[i + 1]
        /\ Head(l) = l[1]
    BY HeadTailProperties DEF Tidy
  <1>3. DOMAIN Tail(l) = 1..(Len(l) - 1)
    BY <1>2, LenProperties
  <1>4. \A i \in DOMAIN Tail(l) : i + 1 \in DOMAIN l /\ Tail(l)[i] = l[i + 1]
    BY <1>1, <1>2, <1>3
  <1>5. 1 \in DOMAIN l
    BY <1>1
  <1>6. ASSUME NEW i \in DOMAIN Tail(l), Tail(l)[i].do = "read"
        PROVE  i = Len(Tail(l))
    <2>1. i + 1 = Len(l)
      BY <1>4, <1>6 DEF ReadLast
    <2> QED
      BY <1>1, <1>2, <1>3, <2>1
  <1>7. HasRead(Tail(l)) => HasRead(l)
    BY <1>4 DEF HasRead
  <1>8. Head(l).do = "read" => DOMAIN Tail(l) = {}
    BY <1>1, <1>2, <1>3, <1>5 DEF ReadLast
  <1> QED
    BY <1>2, <1>5, <1>6, <1>7, <1>8 DEF HasRead, ReadLast

LEMMA ReplaceReads ==
    ASSUME NEW l, Tidy(l), l # <<>>, ReadLast(l), NEW x \in Task, x.do # "read"
    PROVE  /\ ReadLast(<<x>> \o Tail(l))
           /\ HasRead(<<x>> \o Tail(l)) => HasRead(l)
  <1> DEFINE r == Tail(l)
             k == <<x>> \o r
  <1>1. ReadLast(r) /\ (HasRead(r) => HasRead(l)) /\ r \in Seq(Task)
    BY TailReads, TidyTail DEF Tidy
  <1>2. Len(r) \in Nat /\ DOMAIN r = 1..Len(r)
    BY <1>1, LenProperties
  <1>3. <<x>> \in Seq(Task) /\ Len(<<x>>) = 1 /\ <<x>>[1] = x
    OBVIOUS
  <1> HIDE DEF r
  <1>4. /\ k \in Seq(Task)
        /\ Len(k) = 1 + Len(r)
        /\ \A i \in 1..(1 + Len(r)) : k[i] = IF i <= 1 THEN <<x>>[i] ELSE r[i - 1]
    BY <1>1, <1>3, ConcatProperties
  <1> HIDE DEF k
  <1>5. DOMAIN k = 1..(1 + Len(r))
    BY <1>2, <1>4, LenProperties
  <1>6. ASSUME NEW i \in DOMAIN k, k[i].do = "read"
        PROVE  i - 1 \in DOMAIN r /\ r[i - 1].do = "read"
    BY <1>2, <1>3, <1>4, <1>5, <1>6
  <1>7. ReadLast(k)
    BY <1>1, <1>2, <1>4, <1>5, <1>6 DEF ReadLast
  <1>8. HasRead(k) => HasRead(r)
    BY <1>6 DEF HasRead
  <1> QED
    BY <1>1, <1>7, <1>8 DEF k, r

\* The lists that a thread is given: a read is the last of one, if there is one.
LEMMA ReadsGiven ==
    /\ ~ HasRead(<<>>) /\ ReadLast(<<>>)
    /\ \A x \in Task : ReadLast(<<x>>) /\ (x.do # "read" => ~ HasRead(<<x>>))
    /\ \A x, y \in Task : x.do # "read" =>
          ReadLast(<<x, y>>) /\ (y.do # "read" => ~ HasRead(<<x, y>>))
    /\ \A x, y, z \in Task : x.do # "read" /\ y.do # "read" => ReadLast(<<x, y, z>>)
  BY DEF HasRead, ReadLast

LEMMA GivenReads ==
    /\ \A k \in Kind : ReadLast(<<Send(k)>>) /\ ~ HasRead(<<Send(k)>>)
    /\ \A r \in Reason : ReadLast(<<Drop(r)>>) /\ ~ HasRead(<<Drop(r)>>)
    /\ ReadLast(Disconnect) /\ ~ HasRead(Disconnect)
    /\ \A l \in Outcome : ReadLast(l)
    /\ ReadLast(<<Send("data"), Do("read")>>)
  <1>1. \A k \in Kind : Send(k) \in Task /\ Send(k).do # "read"
    BY DEF Send, Task
  <1>2. \A r \in Reason : Drop(r) \in Task /\ Drop(r).do # "read"
    BY DEF Drop, Task
  <1>3. Do("read") \in Task
    BY DEF Do, Task
  <1>4. "data" \in Kind /\ "disconnect" \in Kind
        /\ "local" \in Reason /\ "BadProtocol" \in Reason /\ "DisconnectRequested" \in Reason
    BY DEF Kind, Reason
  <1>5. ReadLast(Disconnect) /\ ~ HasRead(Disconnect)
    BY <1>1, <1>2, <1>4, ReadsGiven DEF Disconnect
  <1>6. ReadLast(<<Send("data"), Do("read")>>)
    BY <1>1, <1>3, <1>4, ReadsGiven
  <1>7. /\ ReadLast(<<Do("read")>>)
        /\ ReadLast(<<Drop("DisconnectRequested"), Do("read")>>)
        /\ ReadLast(<<Send("disconnect"), Drop("BadProtocol"), Do("read")>>)
        /\ ReadLast(<<Send("disconnect"), Drop("BadProtocol")>>)
        /\ ReadLast(<<>>)
        /\ ReadLast(<<Drop("BadProtocol")>>)
    BY <1>1, <1>2, <1>3, <1>4, ReadsGiven
  <1>8. ASSUME NEW l \in Outcome
        PROVE  ReadLast(l)
    <2>1. l \notin {<<Send("data"), Do("read")>>}
          => l \in {<<Do("read")>>,
                    <<Drop("DisconnectRequested"), Do("read")>>,
                    <<Send("disconnect"), Drop("BadProtocol"), Do("read")>>,
                    <<Send("disconnect"), Drop("BadProtocol")>>,
                    <<>>,
                    <<Drop("BadProtocol")>>}
      BY Zenon DEF Outcome
    <2> QED
      BY <1>6, <1>7, <2>1, Zenon
  <1> QED
    BY <1>1, <1>2, <1>5, <1>6, <1>8, ReadsGiven

\* A thread goes on with l; the others stay where they are.
LEMMA ReadingStep ==
    ASSUME IInv, ReadChain, NEW t \in Thread, NEW STATE l, Moves(t, l),
           ReadLast(l), HasRead(l) => t = "io" /\ reading'[1] = "none",
           t = "io" \/ reading'[1] = reading[1]
    PROVE  ReadChain'
  <1>1. op'[t] = l /\ \A u \in Thread \ {t} : op'[u] = op[u]
    BY DEF IInv, TypeOK, Moves
  <1> QED
    BY <1>1 DEF ReadChain, ReadLast, HasRead

\* A thread finishes its first task, or goes from it to one that is no read.
LEMMA ReadingQuiet ==
    ASSUME IInv, ReadChain, NEW t \in Thread, op[t] # <<>>,
           \/ Then(t, <<>>)
           \/ \E x \in Task : x.do # "read" /\ Then(t, <<x>>),
           UNCHANGED reading
    PROVE  ReadChain'
  <1>1. Tidy(op[t]) /\ ReadLast(op[t]) /\ (HasRead(op[t]) => t = "io" /\ reading[1] = "none")
    BY DEF IInv, ReadChain
  <1>2. CASE Then(t, <<>>)
    BY <1>1, <1>2, ThenNothing, TailReads, ReadingStep
  <1>3. ASSUME NEW x \in Task, x.do # "read", Then(t, <<x>>)
        PROVE  ReadChain'
    <2>1. Moves(t, <<x>> \o Tail(op[t]))
      BY <1>3, ThenTask
    <2>2. ReadLast(<<x>> \o Tail(op[t])) /\ (HasRead(<<x>> \o Tail(op[t])) => HasRead(op[t]))
      BY <1>1, <1>3, ReplaceReads
    <2> QED
      BY <1>1, <2>1, <2>2, ReadingStep
  <1> QED
    BY <1>2, <1>3

LEMMA StepReading ==
    ASSUME IInv, ReadChain, NEW t \in Thread, Step(t)
    PROVE  ReadChain'
  <1> DEFINE x == Head(op[t])
  <1>1. op[t] # <<>>
    BY DEF Step, At, CheckOpen, Push, Seal, StartWrite, CheckDropped, Close, Mark, SetDropped, StartRead
  <1>2. x \in Task
    BY <1>1, TidyTail DEF IInv
  <1>3. \A d \in {"write", "start", "set"} : Do(d) \in Task /\ Do(d).do # "read"
    BY DEF Do, Task
  <1> HIDE DEF x
  <1>4. CASE CheckOpen(t)
    <2>1. x.do = "send" /\ UNCHANGED reading
          /\ (Then(t, <<>>) \/ Then(t, <<[x EXCEPT !.do = "push"]>>))
      BY <1>4 DEF CheckOpen, At, x
    <2>2. [x EXCEPT !.do = "push"] \in Task /\ [x EXCEPT !.do = "push"].do = "push"
      BY <1>2, <2>1, TaskFields DEF Task
    <2> QED
      BY <1>1, <2>1, <2>2, ReadingQuiet
  <1>5. CASE CheckDropped(t) \/ Close(t)
    <2>1. /\ x.do \in {"drop", "close"} /\ UNCHANGED reading
          /\ \/ Then(t, <<>>)
             \/ \E d \in {"close", "mark"} : Then(t, <<[x EXCEPT !.do = d]>>)
      BY <1>5 DEF CheckDropped, Close, At, x
    <2>2. \A d \in {"close", "mark"} : [x EXCEPT !.do = d] \in Task /\ [x EXCEPT !.do = d].do = d
      BY <1>2, <2>1, TaskFields DEF Task
    <2> QED
      BY <1>1, <2>1, <2>2, ReadingQuiet
  <1>6. CASE Push(t) \/ Seal(t) \/ StartWrite(t) \/ Mark(t) \/ SetDropped(t)
    <2>1. /\ UNCHANGED reading
          /\ Then(t, <<>>) \/ \E d \in {"write", "start", "set"} : Then(t, <<Do(d)>>)
      BY <1>6 DEF Push, Seal, StartWrite, Mark, SetDropped
    <2> QED
      BY <1>1, <1>3, <2>1, ReadingQuiet
  <1>7. CASE StartRead(t)
    <2>1. x.do = "read" /\ Then(t, <<>>)
      BY <1>7 DEF StartRead, At, x
    <2>2. Tidy(op[t]) /\ ReadLast(op[t]) /\ (HasRead(op[t]) => t = "io")
      BY DEF IInv, ReadChain
    <2>3. ReadLast(Tail(op[t])) /\ ~ HasRead(Tail(op[t])) /\ HasRead(op[t])
      BY <1>1, <2>1, <2>2, TailReads DEF x
    <2> QED
      BY <1>1, <2>1, <2>2, <2>3, ThenNothing, ReadingStep
  <1> QED
    BY <1>4, <1>5, <1>6, <1>7 DEF Step

LEMMA HandlerReading ==
    ASSUME IInv, ReadChain, Handler
    PROVE  ReadChain'
  <1>1. "io" \in Thread /\ op["io"] = <<>>
    BY DEF Thread, Handler, WriteDone, WriteFails, HeaderRead, FrameRead, ReadFails
  <1>2. "TCPError" \in Reason /\ "BadProtocol" \in Reason
    BY DEF Reason
  <1>3. ASSUME NEW STATE l, ReadLast(l), ~ HasRead(l), op' = [op EXCEPT !["io"] = l]
        PROVE  ReadChain'
    BY <1>1, <1>3, ReadingStep DEF Moves
  <1>4. CASE WriteDone
    <2>1. Do("write") \in Task /\ Do("write").do # "read"
      BY DEF Do, Task
    <2>2. op' = [op EXCEPT !["io"] = <<>>] \/ op' = [op EXCEPT !["io"] = <<Do("write")>>]
      BY <1>4 DEF WriteDone
    <2> QED
      BY <1>3, <2>1, <2>2, ReadsGiven
  <1>5. ASSUME NEW r \in Reason, op' = [op EXCEPT !["io"] = <<Drop(r)>>]
        PROVE  ReadChain'
    BY <1>3, <1>5, GivenReads
  <1>6. CASE FrameRead
    <2>1. PICK l \in Outcome : op' = [op EXCEPT !["io"] = l]
      BY <1>6 DEF FrameRead
    <2>2. reading'[1] = "none"
      BY <1>6 DEF FrameRead
    <2> QED
      BY <1>1, <2>1, <2>2, GivenReads, ReadingStep DEF Moves
  <1>7. CASE HeaderRead /\ UNCHANGED op
    <2>1. ~ HasRead(op["io"])
      BY <1>1, ReadsGiven
    <2> QED
      BY <1>7, <2>1 DEF ReadChain, ReadLast, HasRead
  <1> QED
    BY <1>2, <1>4, <1>5, <1>6, <1>7 DEF Handler, WriteFails, HeaderRead, ReadFails

LEMMA NextReading == IInv /\ ReadChain /\ [Next]_vars => ReadChain'
  <1> SUFFICES ASSUME IInv, ReadChain, [Next]_vars PROVE ReadChain'
    OBVIOUS
  <1>1. "io" \in Thread /\ "data" \in Kind
    BY DEF Thread, Kind
  <1>2. ASSUME NEW t \in Thread, SendPacket(t) \/ UserDisconnect(t) \/ Quit
        PROVE  ReadChain'
    <2>1. ASSUME NEW u \in Thread, NEW STATE l, ReadLast(l), ~ HasRead(l), Call(u, l)
          PROVE  ReadChain'
      BY <2>1, ReadingStep DEF Call, Moves
    <2>2. /\ ReadLast(<<Send("data")>>) /\ ~ HasRead(<<Send("data")>>)
          /\ ReadLast(Disconnect) /\ ~ HasRead(Disconnect)
      BY <1>1, GivenReads
    <2> QED
      BY <1>1, <1>2, <2>1, <2>2 DEF SendPacket, UserDisconnect, Quit
  <1>3. CASE Transmit \/ Arrive \/ ConnectionResets \/ Destroy \/ UNCHANGED vars
    <2>1. UNCHANGED op /\ reading'[1] = reading[1]
      <3>1. CASE Arrive
        BY <3>1 DEF Arrive
      <3>2. CASE Transmit \/ ConnectionResets \/ Destroy \/ UNCHANGED vars
        BY <3>2 DEF Transmit, ConnectionResets, Destroy, vars
      <3> QED
        BY <1>3, <3>1, <3>2
    <2> QED
      BY <2>1 DEF ReadChain, ReadLast, HasRead
  <1> QED
    BY <1>1, <1>2, <1>3, StepReading, HandlerReading DEF Next

LEMMA OneRead == IInv /\ ReadChain => OneReader
  <1> SUFFICES ASSUME IInv, ReadChain PROVE OneReader
    OBVIOUS
  <1> DEFINE S == {i \in DOMAIN op["io"] : op["io"][i].do = "read"}
  <1>1. /\ ReadLast(op["io"])
        /\ HasRead(op["io"]) => reading[1] = "none"
    BY DEF ReadChain, Thread
  <1>2. CASE S = {}
    <2>1. Cardinality(S) = 0
      BY <1>2, FS_EmptySet
    <2> QED
      BY <2>1 DEF OneReader
  <1>3. CASE S # {}
    <2>1. S = {Len(op["io"])}
      BY <1>1, <1>3 DEF ReadLast
    <2>2. Cardinality(S) = 1
      <3> HIDE DEF S
      <3> QED
        BY <2>1, FS_Singleton
    <2>3. reading[1] = "none"
      BY <1>1, <1>3 DEF HasRead
    <2> QED
      BY <2>2, <2>3 DEF OneReader
  <1> QED
    BY <1>2, <1>3

\* The reads share m_data: no second one is started, or about to be, while one
\* is outstanding, whatever packets lead to and whoever drops the session
\* (Session.cpp:353-430).
THEOREM AlwaysOneReader == Spec => []OneReader
  <1>1. Init => ReadChain
    <2> SUFFICES ASSUME Init PROVE ReadChain
      OBVIOUS
    <2>1. reading[1] = "none"
      BY DEF Init
    <2>2. /\ op["io"] \in {<<Send("data"), Do("read")>>, Disconnect}
          /\ \A t \in Thread \ {"io"} : op[t] = <<>>
      BY DEF Init, Thread
    <2> QED
      BY <2>1, <2>2, GivenReads, ReadsGiven DEF ReadChain
  <1> QED
    BY <1>1, NextReading, OneRead, Invariance, PTL DEF Spec
-----------------------------------------------------------------------------
(* A session implements PacketChannel.                                     *)

ChannelStep == [Channel!Offer \/ Channel!Deliver \/ Channel!GoDown]_<<accepted, wire, open>>

LEMMA WritesDeliver ==
    ASSUME IInv, queue # <<>>, ~ SomeAt("write"), writing # "sent", open,
           wire' = Append(wire, Head(queue)), UNCHANGED <<accepted, open>>
    PROVE  Channel!Deliver
  <1>1. wire' = Append(wire, [msg |-> Len(wire) + 1, seal |-> Len(wire) + 1])
        /\ Len(wire) + 1 <= Len(accepted)
    BY FrontGoesOut
  <1> QED
    BY <1>1 DEF Channel!Deliver

LEMMA StepMaps ==
    ASSUME IInv, [Next]_vars
    PROVE  ChannelStep
  <1> USE DEF ChannelStep
  <1>1. ASSUME NEW t \in Thread, Push(t)
        PROVE  ChannelStep
    <2>1. At(t, "push") /\ op[t] # <<>>
      BY <1>1 DEF Push, At
    <2>2. Head(op[t]) \in Task
      BY <2>1, TidyTail DEF IInv
    <2>3. Head(op[t]).kind \in Kind
      BY <2>1, <2>2, TaskFields DEF At
    <2> QED
      BY <1>1, <2>3 DEF Push, Channel!Offer
  <1>2. ASSUME NEW t \in Thread, StartWrite(t)
        PROVE  ChannelStep
    <2>1. queue # <<>> /\ writing = "none" /\ ~ SomeAt("write")
      <3>1. At(t, "start") /\ ~ At(t, "write")
        BY <1>2 DEF StartWrite, At
      <3> QED
        BY <3>1 DEF IInv, OneWriter, ToWrite, SomeAt
    <2>2. UNCHANGED <<accepted, open>>
      BY <1>2 DEF StartWrite
    <2>3. CASE UNCHANGED wire
      BY <2>2, <2>3
    <2>4. CASE open /\ wire' = Append(wire, Head(queue))
      BY <2>1, <2>2, <2>4, WritesDeliver
    <2> QED
      BY <1>2, <2>3, <2>4 DEF StartWrite
  <1>3. CASE Transmit
    <2>1. writing = "unsent" /\ open /\ wire' = Append(wire, Head(queue))
          /\ UNCHANGED <<accepted, open>>
      BY <1>3 DEF Transmit
    <2>2. queue # <<>> /\ ~ SomeAt("write")
      BY <2>1 DEF IInv, OneWriter, ToWrite, SomeAt
    <2> QED
      BY <2>1, <2>2, WritesDeliver
  <1>4. ASSUME NEW t \in Thread, Close(t)
        PROVE  ChannelStep
    BY <1>4 DEF Close, Channel!GoDown
  <1>5. ASSUME NEW t \in Thread,
               CheckOpen(t) \/ Seal(t) \/ CheckDropped(t) \/ Mark(t) \/ SetDropped(t) \/ StartRead(t)
        PROVE  ChannelStep
    BY <1>5 DEF CheckOpen, Seal, CheckDropped, Mark, SetDropped, StartRead
  <1>6. ASSUME NEW t \in Thread, SendPacket(t) \/ UserDisconnect(t) \/ Quit
        PROVE  ChannelStep
    BY <1>6 DEF SendPacket, UserDisconnect, Quit, Call
  <1>7. CASE Handler
    BY <1>7 DEF Handler, WriteDone, WriteFails, HeaderRead, FrameRead, ReadFails
  <1>8. CASE Arrive
    BY <1>8 DEF Arrive
  <1>9. CASE UNCHANGED vars
    BY <1>9 DEF vars
  <1>10. CASE Destroy
    BY <1>10 DEF Destroy, Channel!GoDown
  <1>12. "io" \in Thread
    BY DEF Thread
  <1>13. CASE ConnectionResets
    BY <1>13 DEF ConnectionResets
  <1> HIDE DEF ChannelStep
  <1>11. ASSUME NEW t \in Thread, Step(t)
         PROVE  ChannelStep
    BY <1>1, <1>2, <1>4, <1>5, <1>11 DEF Step
  <1> QED
    BY <1>3, <1>6, <1>7, <1>8, <1>9, <1>10, <1>11, <1>12, <1>13 DEF Next

\* The packets that reach the wire do so in the order in which send accepted
\* them, each once and sealed in that order: Session implements PacketChannel.
THEOREM WireInOrder == Spec => OrderedWire
  <1>1. Init => Channel!Init
    BY DEF Init, Channel!Init
  <1>2. IInv /\ [Next]_vars => ChannelStep
    BY StepMaps
  <1> QED
    BY <1>1, <1>2, Invariance, PTL DEF Spec, OrderedWire, Channel!Spec, ChannelStep
=============================================================================
