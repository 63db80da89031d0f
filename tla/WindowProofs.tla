---------------------------- MODULE WindowProofs ----------------------------
(***************************************************************************)
(* Proofs about the sliding windows of Limits.tla: the pruned queues of    *)
(* src/limits.rs answer as the full history of what was admitted would.    *)
(*                                                                         *)
(* The inductive invariant says that each queue is the end of the log of   *)
(* what was admitted, that what it lacks has left the window, that bytes_sum *)
(* is the sum of the queue it stands beside, and that a prefix without a   *)
(* row has nothing in any window.                                          *)
(***************************************************************************)
EXTENDS LimitsProofs, FunctionTheorems

-----------------------------------------------------------------------------
(* Queues and the logs they are the ends of. *)

\* The entries of a log of admissions are in the order of time.
InOrder(log, time) ==
    /\ \A i \in 1 .. Len(log) : log[i].t \in Nat /\ log[i].t <= time
    /\ \A i, j \in 1 .. Len(log) : i <= j => log[i].t <= log[j].t

\* q is the end of log.
EndOf(q, log) ==
    /\ Len(q) <= Len(log)
    /\ \A i \in 1 .. Len(q) : q[i] = log[(Len(log) - Len(q)) + i]

\* q is the end of log and what it lacks is older than the window.
Window(q, log, w, time) ==
    /\ EndOf(q, log)
    /\ \A i \in 1 .. (Len(log) - Len(q)) : time - log[i].t > w

AllFresh(q, w, time) == \A i \in 1 .. Len(q) : time - q[i].t <= w

\* The admissions inside the window that ends at time.
RecentAt(log, w, time) == {i \in DOMAIN log : time - log[i].t <= w}

\* What pruning does to a queue, whatever the order of its entries: it pops
\* expired ones, and stops at the first that is not.
LEMMA PruneShape ==
    ASSUME NEW S, NEW q \in Seq(S), NEW time \in Nat, NEW w \in Nat,
           \A i \in 1 .. Len(q) : q[i].t \in Nat
    PROVE  LET p == popped(q, time, w)
               r == prune_queue(q, time, w)
           IN  /\ p \in 0 .. Len(q)
               /\ r \in Seq(S)
               /\ Len(r) = Len(q) - p
               /\ \A i \in 1 .. Len(r) : r[i] = q[p + i]
               /\ \A i \in 1 .. p : time - q[i].t > w
               /\ p < Len(q) => time - q[p + 1].t <= w
  <1> DEFINE p == popped(q, time, w)
             r == prune_queue(q, time, w)
             F == Fresh(q, time, w)
  <1>1. p \in 0 .. Len(q)
    BY PoppedType
  <1>2. r \in Seq(S)
    BY PruneQueueType
  <1>3. /\ Len(r) = Len(q) - p
        /\ \A i \in 1 .. Len(r) : r[i] = q[p + i]
    <2>1. r = SubSeq(q, p + 1, Len(q))
      BY DEF prune_queue
    <2>2. \A i \in p + 1 .. Len(q) : q[i] \in S
      BY <1>1
    <2> HIDE DEF p
    <2>3. /\ Len(r) = IF p + 1 <= Len(q) THEN Len(q) - (p + 1) + 1 ELSE 0
          /\ \A i \in 1 .. Len(q) - (p + 1) + 1 : r[i] = q[(p + 1) + i - 1]
      BY <1>1, <2>1, <2>2, SubSeqProperties
    <2>4. Len(r) = Len(q) - p
      BY <1>1, <2>3
    <2> HIDE DEF r
    <2> QED
      BY <1>1, <2>3, <2>4
  <1>4. F = {i \in 1 .. Len(q) : time - q[i].t <= w}
    BY DEF Fresh
  <1>5. CASE F = {}
    <2>1. p = Len(q)
      BY <1>5 DEF popped
    <2> QED
      BY <1>1, <1>2, <1>3, <1>4, <1>5, <2>1
  <1>6. CASE F # {}
    <2> DEFINE m == CHOOSE i \in F : \A j \in F : i <= j
    <2>1. F \subseteq Nat
      BY <1>4
    <2>2. \E x \in F : \A y \in F : x <= y
      BY <1>6, <2>1, LeastNatural
    <2>3. m \in F /\ \A j \in F : m <= j
      BY <2>2
    <2>4. p = m - 1
      BY <1>6, Zenon DEF popped
    <2> HIDE DEF m, p, r, F
    <2>5. m \in 1 .. Len(q) /\ time - q[m].t <= w
      BY <1>4, <2>3
    <2>6. \A i \in 1 .. p : time - q[i].t > w
      <3> SUFFICES ASSUME NEW i \in 1 .. p PROVE time - q[i].t > w
        OBVIOUS
      <3>1. i \in 1 .. Len(q) /\ i < m
        BY <2>4, <2>5
      <3>2. i \notin F
        BY <2>1, <2>3, <3>1
      <3> QED
        BY <1>4, <3>1, <3>2
    <2>7. p + 1 = m
      BY <2>4, <2>5
    <2> QED
      BY <1>1, <1>2, <1>3, <2>5, <2>6, <2>7 DEF p, r
  <1> QED
    BY <1>5, <1>6

\* The entries of the end of an ordered log are in order.
LEMMA EndInOrder ==
    ASSUME NEW S, NEW q \in Seq(S), NEW log \in Seq(S), NEW time \in Nat,
           InOrder(log, time), EndOf(q, log)
    PROVE  InOrder(q, time)
  <1>1. Len(q) \in Nat /\ Len(log) \in Nat /\ Len(q) <= Len(log)
    BY DEF EndOf
  <1>2. \A i \in 1 .. Len(q) :
           /\ (Len(log) - Len(q)) + i \in 1 .. Len(log)
           /\ q[i] = log[(Len(log) - Len(q)) + i]
    BY <1>1 DEF EndOf
  <1>3. \A i, j \in 1 .. Len(q) :
           i <= j => (Len(log) - Len(q)) + i <= (Len(log) - Len(q)) + j
    BY <1>1
  <1> QED
    BY <1>2, <1>3 DEF InOrder

\* Pruning a queue that is the end of its log leaves exactly the entries inside
\* the window.
LEMMA PruneWindow ==
    ASSUME NEW S, NEW q \in Seq(S), NEW log \in Seq(S), NEW time \in Nat, NEW w \in Nat,
           InOrder(log, time), Window(q, log, w, time)
    PROVE  LET r == prune_queue(q, time, w)
           IN  r \in Seq(S) /\ Window(r, log, w, time) /\ AllFresh(r, w, time)
  <1> DEFINE p == popped(q, time, w)
             r == prune_queue(q, time, w)
  <1>1. EndOf(q, log) /\ InOrder(q, time)
    BY EndInOrder DEF Window
  <1>2. /\ \A i \in 1 .. Len(q) : q[i].t \in Nat
        /\ \A i, j \in 1 .. Len(q) : i <= j => q[i].t <= q[j].t
    BY <1>1 DEF InOrder
  <1>3. /\ p \in 0 .. Len(q)
        /\ r \in Seq(S)
        /\ Len(r) = Len(q) - p
        /\ \A i \in 1 .. Len(r) : r[i] = q[p + i]
        /\ \A i \in 1 .. p : time - q[i].t > w
        /\ p < Len(q) => time - q[p + 1].t <= w
    BY <1>2, PruneShape
  <1> HIDE DEF p, r
  <1>4. /\ Len(q) \in Nat /\ Len(log) \in Nat /\ Len(r) \in Nat /\ p \in Nat
        /\ Len(q) <= Len(log)
    BY <1>1, <1>3 DEF EndOf
  <1>5. \A i \in 1 .. Len(q) : q[i] = log[(Len(log) - Len(q)) + i]
    BY <1>1 DEF EndOf
  <1>6. EndOf(r, log)
    <2> SUFFICES ASSUME NEW i \in 1 .. Len(r)
                 PROVE  r[i] = log[(Len(log) - Len(r)) + i]
      BY <1>3, <1>4 DEF EndOf
    <2>1. p + i \in 1 .. Len(q) /\ (Len(log) - Len(q)) + (p + i) = (Len(log) - Len(r)) + i
      BY <1>3, <1>4
    <2>2. r[i] = q[p + i]
      BY <1>3
    <2> QED
      BY <1>5, <2>1, <2>2
  <1>7. \A i \in 1 .. (Len(log) - Len(r)) : time - log[i].t > w
    <2> SUFFICES ASSUME NEW i \in 1 .. (Len(log) - Len(r))
                 PROVE  time - log[i].t > w
      OBVIOUS
    <2>1. CASE i <= Len(log) - Len(q)
      BY <1>4, <2>1 DEF Window
    <2>2. CASE i > Len(log) - Len(q)
      <3> DEFINE j == i - (Len(log) - Len(q))
      <3>1. j \in 1 .. p /\ j \in 1 .. Len(q) /\ (Len(log) - Len(q)) + j = i
        BY <1>3, <1>4, <2>2
      <3> HIDE DEF j
      <3> QED
        BY <1>3, <1>5, <3>1
    <2> QED
      BY <1>4, <2>1, <2>2
  <1>8. AllFresh(r, w, time)
    <2> SUFFICES ASSUME NEW i \in 1 .. Len(r) PROVE time - r[i].t <= w
      BY DEF AllFresh
    <2>1. /\ p + 1 \in 1 .. Len(q) /\ p + i \in 1 .. Len(q) /\ p + 1 <= p + i /\ p < Len(q)
          /\ r[i] = q[p + i]
      BY <1>3, <1>4
    <2>2. q[p + 1].t <= q[p + i].t /\ q[p + 1].t \in Nat /\ q[p + i].t \in Nat
      BY <1>2, <2>1
    <2>3. time - q[p + 1].t <= w
      BY <1>3, <2>1
    <2>4. r[i].t = q[p + i].t
      BY <2>1
    <2> QED
      BY <2>2, <2>3, <2>4
  <1> QED
    BY <1>3, <1>6, <1>7, <1>8 DEF Window, r

\* The fresh end of a log is what is recent in it.
LEMMA FreshIsRecent ==
    ASSUME NEW S, NEW q \in Seq(S), NEW log \in Seq(S), NEW time \in Nat, NEW w \in Nat,
           Window(q, log, w, time), AllFresh(q, w, time), InOrder(log, time)
    PROVE  RecentAt(log, w, time) = (Len(log) - Len(q)) + 1 .. Len(log)
  <1>1. /\ Len(q) \in Nat /\ Len(log) \in Nat /\ Len(q) <= Len(log)
        /\ DOMAIN log = 1 .. Len(log)
    BY DEF Window, EndOf
  <1>2. ASSUME NEW i \in 1 .. Len(log)
        PROVE  (time - log[i].t <= w) <=> i >= (Len(log) - Len(q)) + 1
    <2>0. log[i].t \in Nat
      BY DEF InOrder
    <2>1. CASE i <= Len(log) - Len(q)
      <3>1. time - log[i].t > w
        BY <1>1, <2>1 DEF Window
      <3> QED
        BY <1>1, <2>0, <2>1, <3>1
    <2>2. CASE i > Len(log) - Len(q)
      <3> DEFINE j == i - (Len(log) - Len(q))
      <3>1. j \in 1 .. Len(q) /\ (Len(log) - Len(q)) + j = i
        BY <1>1, <2>2
      <3> HIDE DEF j
      <3>2. q[j] = log[i] /\ time - q[j].t <= w
        BY <3>1 DEF Window, EndOf, AllFresh
      <3> QED
        BY <1>1, <2>2, <3>2
    <2> QED
      BY <1>1, <2>1, <2>2
  <1> QED
    BY <1>1, <1>2 DEF RecentAt

\* There are as many recent admissions as entries left in the pruned queue.
LEMMA RecentSize ==
    ASSUME NEW S, NEW q \in Seq(S), NEW log \in Seq(S), NEW time \in Nat, NEW w \in Nat,
           Window(q, log, w, time), AllFresh(q, w, time), InOrder(log, time)
    PROVE  Cardinality(RecentAt(log, w, time)) = Len(q)
  <1>1. Len(q) \in Nat /\ Len(log) \in Nat /\ Len(q) <= Len(log)
    BY DEF Window, EndOf
  <1> DEFINE a == (Len(log) - Len(q)) + 1
  <1>2. a \in Int /\ Len(log) \in Int
    BY <1>1
  <1>3. Cardinality(a .. Len(log)) = IF a > Len(log) THEN 0 ELSE Len(log) - a + 1
    BY <1>2, FS_Interval
  <1>4. RecentAt(log, w, time) = a .. Len(log)
    BY FreshIsRecent
  <1> QED
    BY <1>1, <1>3, <1>4

-----------------------------------------------------------------------------
(* How a window moves. *)

\* Time only makes more of a log old.
LEMMA WindowTick ==
    ASSUME NEW S, NEW q \in Seq(S), NEW log \in Seq(S), NEW time \in Nat, NEW w \in Nat,
           Window(q, log, w, time), InOrder(log, time)
    PROVE  Window(q, log, w, time + 1) /\ InOrder(log, time + 1)
  <1>1. Len(q) \in Nat /\ Len(log) \in Nat /\ Len(q) <= Len(log)
    BY DEF Window, EndOf
  <1>2. \A i \in 1 .. Len(log) : log[i].t \in Nat /\ log[i].t <= time
    BY DEF InOrder
  <1>3. \A i \in 1 .. (Len(log) - Len(q)) : i \in 1 .. Len(log) /\ time - log[i].t > w
    BY <1>1 DEF Window
  <1> QED
    BY <1>1, <1>2, <1>3 DEF Window, InOrder

\* An admission goes to the end of the log and of the queue.
LEMMA WindowAppend ==
    ASSUME NEW S, NEW q \in Seq(S), NEW log \in Seq(S), NEW time \in Nat, NEW w \in Nat,
           NEW e \in S, e.t = time,
           Window(q, log, w, time), InOrder(log, time)
    PROVE  /\ Window(Append(q, e), Append(log, e), w, time)
           /\ InOrder(Append(log, e), time)
  <1> DEFINE r == Append(q, e)
             L == Append(log, e)
  <1>1. Len(q) \in Nat /\ Len(log) \in Nat /\ Len(q) <= Len(log)
    BY DEF Window, EndOf
  <1>2. /\ Len(r) = Len(q) + 1 /\ Len(L) = Len(log) + 1
        /\ \A i \in 1 .. Len(q) : r[i] = q[i]
        /\ \A i \in 1 .. Len(log) : L[i] = log[i]
        /\ r[Len(q) + 1] = e /\ L[Len(log) + 1] = e
    BY AppendProperties
  <1>3. Len(L) - Len(r) = Len(log) - Len(q)
    BY <1>1, <1>2
  <1> HIDE DEF r, L
  <1>4. EndOf(r, L)
    <2> SUFFICES ASSUME NEW i \in 1 .. Len(r)
                 PROVE  r[i] = L[(Len(log) - Len(q)) + i]
      <3>1. Len(r) <= Len(L)
        BY <1>1, <1>2
      <3> QED
        BY <1>3, <3>1, Zenon DEF EndOf
    <2>1. CASE i \in 1 .. Len(q)
      <3>1. (Len(log) - Len(q)) + i \in 1 .. Len(log)
        BY <1>1, <2>1
      <3> QED
        BY <1>2, <2>1, <3>1 DEF Window, EndOf
    <2>2. CASE i = Len(q) + 1
      BY <1>1, <1>2, <2>2
    <2> QED
      BY <1>1, <1>2, <2>1, <2>2
  <1>5. Window(r, L, w, time)
    <2>1. \A i \in 1 .. (Len(log) - Len(q)) : i \in 1 .. Len(log) /\ time - log[i].t > w
      BY <1>1 DEF Window
    <2> QED
      BY <1>2, <1>3, <1>4, <2>1 DEF Window
  <1>6. InOrder(L, time)
    <2>1. \A i \in 1 .. Len(L) : i \in 1 .. Len(log) \/ i = Len(log) + 1
      BY <1>1, <1>2
    <2>2. \A i \in 1 .. Len(L) : L[i].t \in Nat /\ L[i].t <= time
      BY <1>2, <2>1 DEF InOrder
    <2>3. ASSUME NEW i \in 1 .. Len(L), NEW j \in 1 .. Len(L), i <= j
          PROVE  L[i].t <= L[j].t
      <3>1. CASE j = Len(log) + 1
        BY <1>2, <2>2, <3>1
      <3>2. CASE j \in 1 .. Len(log)
        <4>1. i \in 1 .. Len(log)
          BY <1>1, <2>3, <3>2
        <4> QED
          BY <1>2, <2>3, <3>2, <4>1 DEF InOrder
      <3> QED
        BY <2>1, <3>1, <3>2
    <2> QED
      BY <2>2, <2>3 DEF InOrder
  <1> QED
    BY <1>5, <1>6 DEF r, L

\* The empty queue has lost nothing exactly when nothing is recent.
LEMMA EmptyWindow ==
    ASSUME NEW S, NEW log \in Seq(S), NEW time \in Nat, NEW w \in Nat, InOrder(log, time)
    PROVE  Window(<<>>, log, w, time) <=> RecentAt(log, w, time) = {}
  <1>1. Len(log) \in Nat /\ DOMAIN log = 1 .. Len(log) /\ Len(<<>>) = 0
    BY EmptySeq
  <1>2. \A i \in 1 .. Len(log) : log[i].t \in Nat
    BY DEF InOrder
  <1>3. Window(<<>>, log, w, time) <=> \A i \in 1 .. Len(log) : time - log[i].t > w
    BY <1>1 DEF Window, EndOf
  <1>4. (\A i \in 1 .. Len(log) : time - log[i].t > w)
           <=> (\A i \in 1 .. Len(log) : ~(time - log[i].t <= w))
    BY <1>2
  <1> QED
    BY <1>1, <1>3, <1>4 DEF RecentAt

-----------------------------------------------------------------------------
(* The sum of the bytes in a queue. *)

Charge == [t : Nat, n : Nat]

Sizes(q) == [i \in 1 .. Len(q) |-> q[i].n]

\* BytesIn adds up the sizes.
LEMMA BytesInTotal ==
    ASSUME NEW q \in Seq(Charge), NEW I \in SUBSET (1 .. Len(q))
    PROVE  BytesIn(q, I) = Total(Sizes(q), I)
  <1> DEFINE f == CHOOSE iter :
                     iter = [s \in SUBSET I |->
                               IF s = {} THEN 0
                               ELSE q[CHOOSE x \in s : TRUE].n
                                      + iter[s \ {CHOOSE x \in s : TRUE}]]
  <1>1. BytesIn(q, I) = f[I]
    BY Zenon DEF BytesIn, MapThenSumSet, MapThenFoldSet
  <1>2. IsFiniteSet(I)
    <2>1. IsFiniteSet(1 .. Len(q))
      BY FS_Interval
    <2> QED
      BY <2>1, FS_Subset
  <1>3. \A s \in SUBSET I : s # {} => q[Pick(s)].n = Sizes(q)[Pick(s)]
    BY PickIn DEF Sizes
  <1>4. \A g : [s \in SUBSET I |-> IF s = {} THEN 0
                                   ELSE q[Pick(s)].n + g[s \ {Pick(s)}]]
             = [s \in SUBSET I |-> IF s = {} THEN 0
                                   ELSE Sizes(q)[Pick(s)] + g[s \ {Pick(s)}]]
    BY <1>3
  <1>5. PICK g : SumsUp(g, Sizes(q), I)
    BY <1>2, SumsExist
  <1>6. SumsUp(f, Sizes(q), I)
    <2>1. g = [s \in SUBSET I |-> IF s = {} THEN 0 ELSE q[Pick(s)].n + g[s \ {Pick(s)}]]
      BY <1>4, <1>5 DEF SumsUp
    <2>2. f = [s \in SUBSET I |-> IF s = {} THEN 0 ELSE q[Pick(s)].n + f[s \ {Pick(s)}]]
      BY <2>1, Zenon DEF Pick
    <2> HIDE DEF f
    <2> QED
      BY <1>4, <2>2 DEF SumsUp
  <1> HIDE DEF f
  <1> QED
    BY <1>1, <1>2, <1>6, TotalIsSum

\* The sizes are natural numbers.
LEMMA SizesType ==
    ASSUME NEW q \in Seq(Charge)
    PROVE  \A i \in 1 .. Len(q) : Sizes(q)[i] \in Nat /\ Sizes(q)[i] = q[i].n
  <1>1. \A i \in 1 .. Len(q) : q[i] \in Charge
    OBVIOUS
  <1> QED
    BY <1>1 DEF Sizes, Charge

\* An interval is finite.
LEMMA IntervalFinite ==
    ASSUME NEW a \in Int, NEW b \in Int
    PROVE  IsFiniteSet(a .. b)
  BY FS_Interval

\* The sum of an end of a log is the sum of that part of the log.
LEMMA EndTotal ==
    ASSUME NEW q \in Seq(Charge), NEW log \in Seq(Charge), EndOf(q, log)
    PROVE  Total(Sizes(log), (Len(log) - Len(q)) + 1 .. Len(log))
              = Total(Sizes(q), 1 .. Len(q))
  <1>1. Len(q) \in Nat /\ Len(log) \in Nat /\ Len(q) <= Len(log)
    BY DEF EndOf
  <1> DEFINE b == Len(log) - Len(q)
             S == 1 .. Len(q)
             f == [i \in S |-> b + i]
  <1>2. b \in Nat
    BY <1>1
  <1>3. {f[i] : i \in S} = b + 1 .. Len(log)
    <2>1. \A j \in b + 1 .. Len(log) : j - b \in S /\ b + (j - b) = j
      BY <1>1
    <2>2. \A i \in S : b + i \in b + 1 .. Len(log)
      BY <1>1
    <2> HIDE DEF b
    <2> QED
      BY <2>1, <2>2
  <1>4. \A x, y \in S : f[x] = f[y] => x = y
    <2> HIDE DEF b
    <2> QED
      BY <1>1, <1>2
  <1>5. \A x \in S : Sizes(q)[x] \in Nat /\ Sizes(log)[f[x]] = Sizes(q)[x]
    <2> TAKE x \in S
    <2>1. b + x \in 1 .. Len(log)
      BY <1>1
    <2>2. q[x] = log[b + x]
      BY DEF EndOf
    <2>3. Sizes(log)[b + x] = log[b + x].n /\ Sizes(q)[x] = q[x].n /\ Sizes(q)[x] \in Nat
      BY <2>1, SizesType
    <2> QED
      BY <2>2, <2>3
  <1>6. IsFiniteSet(S)
    BY <1>1, IntervalFinite
  <1>7. Total(Sizes(log), {f[i] : i \in S}) = Total(Sizes(q), S)
    <2> HIDE DEF f, S
    <2> QED
      BY <1>4, <1>5, <1>6, TotalImage
  <1> HIDE DEF f
  <1> QED
    BY <1>3, <1>7

\* The pruned queue is an end of the queue.
LEMMA PruneIsEnd ==
    ASSUME NEW S, NEW q \in Seq(S), NEW time \in Nat, NEW w \in Nat,
           \A i \in 1 .. Len(q) : q[i].t \in Nat
    PROVE  /\ EndOf(prune_queue(q, time, w), q)
           /\ Len(q) - Len(prune_queue(q, time, w)) = popped(q, time, w)
  <1> DEFINE p == popped(q, time, w)
             r == prune_queue(q, time, w)
  <1>1. /\ p \in 0 .. Len(q)
        /\ r \in Seq(S)
        /\ Len(r) = Len(q) - p
        /\ \A i \in 1 .. Len(r) : r[i] = q[p + i]
    BY PruneShape
  <1> HIDE DEF p, r
  <1>2. Len(r) <= Len(q) /\ Len(q) - Len(r) = p
    BY <1>1
  <1> QED
    BY <1>1, <1>2 DEF EndOf, p, r

\* Taking what was popped off the sum leaves the sum of what is left.
LEMMA PruneTotal ==
    ASSUME NEW q \in Seq(Charge), NEW time \in Nat, NEW w \in Nat
    PROVE  LET r == prune_queue(q, time, w) IN
           saturating_sub(BytesIn(q, 1 .. Len(q)), BytesIn(q, 1 .. popped(q, time, w)))
              = BytesIn(r, 1 .. Len(r))
  <1> DEFINE p == popped(q, time, w)
             r == prune_queue(q, time, w)
             A == 1 .. p
             B == p + 1 .. Len(q)
             T(S) == Total(Sizes(q), S)
  <1>1. \A i \in 1 .. Len(q) : q[i].t \in Nat
    <2>1. \A i \in 1 .. Len(q) : q[i] \in Charge
      OBVIOUS
    <2> QED
      BY <2>1 DEF Charge
  <1>2. p \in 0 .. Len(q) /\ r \in Seq(Charge) /\ EndOf(r, q) /\ Len(q) - Len(r) = p
    BY <1>1, PruneShape, PruneIsEnd
  <1>3. BytesIn(r, 1 .. Len(r)) = T(B)
    <2>1. BytesIn(r, 1 .. Len(r)) = Total(Sizes(r), 1 .. Len(r))
      BY <1>2, BytesInTotal
    <2>2. Total(Sizes(q), (Len(q) - Len(r)) + 1 .. Len(q)) = Total(Sizes(r), 1 .. Len(r))
      BY <1>2, EndTotal
    <2> QED
      BY <1>2, <2>1, <2>2
  <1> HIDE DEF p, r
  <1>4. A \cup B = 1 .. Len(q) /\ A \cap B = {} /\ A \subseteq 1 .. Len(q)
    BY <1>2
  <1>5. IsFiniteSet(A) /\ IsFiniteSet(B)
    BY <1>2, IntervalFinite
  <1>6. \A x \in A \cup B : Sizes(q)[x] \in Nat
    BY <1>4, SizesType
  <1>7. BytesIn(q, 1 .. Len(q)) = T(1 .. Len(q)) /\ BytesIn(q, A) = T(A)
    BY <1>4, BytesInTotal
  <1> HIDE DEF A, B
  <1>8. T(A \cup B) = T(A) + T(B) /\ T(A) \in Nat /\ T(B) \in Nat
    BY <1>4, <1>5, <1>6, TotalUnion, TotalType
  <1> HIDE DEF T
  <1>9. T(1 .. Len(q)) - T(A) = T(B)
    <2>1. T(1 .. Len(q)) = T(A) + T(B)
      BY <1>4, <1>8, Zenon
    <2> QED
      BY <1>8, <2>1
  <1>10. saturating_sub(T(1 .. Len(q)), T(A)) = T(B)
    BY <1>8, <1>9 DEF saturating_sub
  <1> QED
    BY <1>3, <1>7, <1>10 DEF p, r, A

\* A charge adds its size to the sum.
LEMMA AppendTotal ==
    ASSUME NEW q \in Seq(Charge), NEW e \in Charge
    PROVE  BytesIn(Append(q, e), 1 .. Len(Append(q, e))) = BytesIn(q, 1 .. Len(q)) + e.n
  <1> DEFINE r == Append(q, e)
             S == 1 .. Len(q)
  <1>1. /\ r \in Seq(Charge) /\ Len(r) = Len(q) + 1
        /\ \A i \in 1 .. Len(q) : r[i] = q[i]
        /\ r[Len(q) + 1] = e
    BY AppendProperties
  <1> HIDE DEF r
  <1>2. 1 .. Len(r) = S \cup {Len(q) + 1} /\ Len(q) + 1 \notin S
    BY <1>1
  <1>3. IsFiniteSet(S)
    BY IntervalFinite
  <1>4. \A x \in 1 .. Len(r) : Sizes(r)[x] \in Nat /\ Sizes(r)[x] = r[x].n
    BY <1>1, SizesType
  <1>5. \A x \in S : Sizes(r)[x] = Sizes(q)[x]
    BY <1>1, <1>2, <1>4, SizesType
  <1>6. Total(Sizes(r), S \cup {Len(q) + 1}) = Total(Sizes(r), S) + Sizes(r)[Len(q) + 1]
    <2>1. \A y \in S \cup {Len(q) + 1} : Sizes(r)[y] \in Nat
      BY <1>2, <1>4
    <2> HIDE DEF S
    <2> QED
      BY <1>2, <1>3, <2>1, TotalAdd
  <1>7. Total(Sizes(r), S) = Total(Sizes(q), S)
    BY <1>3, <1>5, TotalSame
  <1>8. Sizes(r)[Len(q) + 1] = e.n
    BY <1>1, <1>2, <1>4
  <1>9. /\ BytesIn(r, 1 .. Len(r)) = Total(Sizes(r), 1 .. Len(r))
        /\ BytesIn(q, S) = Total(Sizes(q), S)
    BY <1>1, BytesInTotal
  <1> HIDE DEF S
  <1>10. Total(Sizes(r), 1 .. Len(r)) = Total(Sizes(q), S) + e.n
    BY <1>2, <1>6, <1>7, <1>8, Zenon
  <1> QED
    BY <1>9, <1>10, Zenon DEF r, S

-----------------------------------------------------------------------------
(* The times of a log of attempts, which is what the queue `connects` keeps. *)

Attempt == [t : Nat, dest : Dests]
Stamp == [t : Nat]

Times(log) == [i \in 1 .. Len(log) |-> [t |-> log[i].t]]

\* The times are a log with the same windows.
LEMMA TimesOf ==
    ASSUME NEW log \in Seq(Attempt)
    PROVE  /\ Times(log) \in Seq(Stamp)
           /\ Len(Times(log)) = Len(log)
           /\ \A i \in 1 .. Len(log) : Times(log)[i].t = log[i].t
           /\ \A time : InOrder(log, time) => InOrder(Times(log), time)
           /\ \A w, time : RecentAt(Times(log), w, time) = RecentAt(log, w, time)
  <1>1. \A i \in 1 .. Len(log) : log[i].t \in Nat
    <2>1. \A i \in 1 .. Len(log) : log[i] \in Attempt
      OBVIOUS
    <2> QED
      BY <2>1 DEF Attempt
  <1>2. Times(log) \in Seq(Stamp) /\ Len(Times(log)) = Len(log)
    <2>1. Times(log) \in [1 .. Len(log) -> Stamp]
      BY <1>1 DEF Times, Stamp
    <2> QED
      BY <2>1, IsASeq, LenProperties
  <1>3. \A i \in 1 .. Len(log) : Times(log)[i].t = log[i].t
    BY DEF Times
  <1>4. DOMAIN Times(log) = 1 .. Len(log) /\ DOMAIN log = 1 .. Len(log)
    BY DEF Times
  <1> QED
    BY <1>2, <1>3, <1>4 DEF InOrder, RecentAt

\* An attempt adds its time.
LEMMA TimesAppend ==
    ASSUME NEW log \in Seq(Attempt), NEW e \in Attempt
    PROVE  Times(Append(log, e)) = Append(Times(log), [t |-> e.t])
  <1> DEFINE L == Append(log, e)
             r == Append(Times(log), [t |-> e.t])
  <1>1. /\ L \in Seq(Attempt) /\ Len(L) = Len(log) + 1
        /\ \A i \in 1 .. Len(log) : L[i] = log[i]
        /\ L[Len(log) + 1] = e
    BY AppendProperties
  <1>2. Times(log) \in Seq(Stamp) /\ [t |-> e.t] \in Stamp /\ Len(Times(log)) = Len(log)
    BY TimesOf DEF Attempt, Stamp
  <1>3. /\ r \in Seq(Stamp) /\ Len(r) = Len(log) + 1
        /\ \A i \in 1 .. Len(log) : r[i] = Times(log)[i]
        /\ r[Len(log) + 1] = [t |-> e.t]
    BY <1>2, AppendProperties
  <1>4. Times(L) \in Seq(Stamp) /\ Len(Times(L)) = Len(L)
    BY <1>1, TimesOf
  <1> HIDE DEF L, r
  <1>5. \A i \in 1 .. Len(log) + 1 : Times(L)[i] = r[i]
    <2> TAKE i \in 1 .. Len(log) + 1
    <2>1. Times(L)[i] = [t |-> L[i].t]
      BY <1>1 DEF Times
    <2>2. CASE i \in 1 .. Len(log)
      <3>1. Times(log)[i] = [t |-> log[i].t]
        BY <2>2 DEF Times
      <3> QED
        BY <1>1, <1>3, <2>1, <2>2, <3>1
    <2>3. CASE i = Len(log) + 1
      BY <1>1, <1>3, <2>1, <2>3
    <2> QED
      BY <2>2, <2>3
  <1>6. Times(L) = r
    BY <1>1, <1>3, <1>4, <1>5, SeqEqual
  <1> QED
    BY <1>6 DEF L, r

-----------------------------------------------------------------------------
(* Rows. *)

\* The row st knows what matters of the attempts A and the charges C.
RowOK(st, A, C, time) ==
    /\ Window(st.connects, Times(A), Cfg.connects_per_ip_window, time)
    /\ Window(st.dests, A, Cfg.distinct_dests_window, time)
    /\ Window(st.bytes, C, Cfg.bytes_window, time)
    /\ st.bytes_sum = BytesIn(st.bytes, 1 .. Len(st.bytes))

\* The logs of one prefix.
LogOK(A, C, time) ==
    /\ A \in Seq(Attempt) /\ InOrder(A, time)
    /\ C \in Seq(Charge) /\ InOrder(C, time)

\* Nothing in the row is expired.
RowFresh(st, time) ==
    /\ AllFresh(st.connects, Cfg.connects_per_ip_window, time)
    /\ AllFresh(st.dests, Cfg.distinct_dests_window, time)
    /\ AllFresh(st.bytes, Cfg.bytes_window, time)

\* The fields of a row.
LEMMA RowFields ==
    ASSUME NEW st \in IpState
    PROVE  /\ st.connections \in Nat /\ st.connects \in Seq(Stamp)
           /\ st.dests \in Seq(Attempt) /\ st.bytes \in Seq(Charge) /\ st.bytes_sum \in Nat
  BY DEF IpState, Stamp, Attempt, Charge

\* The windows are natural numbers.
LEMMA WindowsNat ==
    /\ Cfg.connects_per_ip_window \in Nat /\ Cfg.distinct_dests_window \in Nat
    /\ Cfg.bytes_window \in Nat /\ Cfg.global_connects_window \in Nat
  BY CfgAssumption DEF LimitsConfig

\* prune leaves a row that still knows what matters, and nothing else.
LEMMA PruneRowOK ==
    ASSUME NEW st \in IpState, NEW A, NEW C, NEW time \in Nat,
           LogOK(A, C, time), RowOK(st, A, C, time)
    PROVE  RowOK(prune(st, time), A, C, time) /\ RowFresh(prune(st, time), time)
  <1> DEFINE c == prune_queue(st.connects, time, Cfg.connects_per_ip_window)
             d == prune_queue(st.dests, time, Cfg.distinct_dests_window)
             b == prune_queue(st.bytes, time, Cfg.bytes_window)
             r == prune(st, time)
  <1>1. /\ A \in Seq(Attempt) /\ C \in Seq(Charge) /\ InOrder(A, time) /\ InOrder(C, time)
        /\ Times(A) \in Seq(Stamp) /\ InOrder(Times(A), time)
    BY TimesOf DEF LogOK
  <1>2. /\ Window(c, Times(A), Cfg.connects_per_ip_window, time)
        /\ AllFresh(c, Cfg.connects_per_ip_window, time)
    BY <1>1, RowFields, WindowsNat, PruneWindow DEF RowOK
  <1>3. /\ Window(d, A, Cfg.distinct_dests_window, time)
        /\ AllFresh(d, Cfg.distinct_dests_window, time)
    BY <1>1, RowFields, WindowsNat, PruneWindow DEF RowOK
  <1>4. /\ Window(b, C, Cfg.bytes_window, time)
        /\ AllFresh(b, Cfg.bytes_window, time)
    BY <1>1, RowFields, WindowsNat, PruneWindow DEF RowOK
  <1>5. /\ r.connects = c /\ r.dests = d /\ r.bytes = b
        /\ r.bytes_sum = saturating_sub(st.bytes_sum,
                            BytesIn(st.bytes, 1 .. popped(st.bytes, time, Cfg.bytes_window)))
    BY DEF prune
  <1>6. r.bytes_sum = BytesIn(b, 1 .. Len(b))
    BY <1>5, RowFields, WindowsNat, PruneTotal DEF RowOK
  <1> HIDE DEF r, c, d, b
  <1> QED
    BY <1>2, <1>3, <1>4, <1>5, <1>6 DEF RowOK, RowFresh, r

\* What a fresh queue says about its log.
LEMMA FreshQueue ==
    ASSUME NEW S, NEW q \in Seq(S), NEW log \in Seq(S), NEW time \in Nat, NEW w \in Nat,
           Window(q, log, w, time), AllFresh(q, w, time), InOrder(log, time)
    PROVE  /\ Len(q) \in Nat /\ Len(log) \in Nat /\ Len(q) <= Len(log)
           /\ EndOf(q, log)
           /\ RecentAt(log, w, time) = (Len(log) - Len(q)) + 1 .. Len(log)
           /\ Cardinality(RecentAt(log, w, time)) = Len(q)
           /\ q = <<>> <=> RecentAt(log, w, time) = {}
  <1>1. Len(q) \in Nat /\ Len(log) \in Nat /\ Len(q) <= Len(log) /\ EndOf(q, log)
    BY DEF Window, EndOf
  <1>2. RecentAt(log, w, time) = (Len(log) - Len(q)) + 1 .. Len(log)
    BY FreshIsRecent
  <1>3. Cardinality(RecentAt(log, w, time)) = Len(q)
    BY RecentSize
  <1>4. q = <<>> <=> Len(q) = 0
    BY EmptySeq
  <1>5. Len(q) # 0 => Len(log) \in (Len(log) - Len(q)) + 1 .. Len(log)
    BY <1>1
  <1>6. Len(q) = 0 => (Len(log) - Len(q)) + 1 .. Len(log) = {}
    BY <1>1
  <1> QED
    BY <1>1, <1>2, <1>3, <1>4, <1>5, <1>6

\* The destinations in a fresh queue are those of the recent attempts.
LEMMA FreshDests ==
    ASSUME NEW q \in Seq(Attempt), NEW log \in Seq(Attempt),
           NEW time \in Nat, NEW w \in Nat,
           Window(q, log, w, time), AllFresh(q, w, time), InOrder(log, time)
    PROVE  {q[i].dest : i \in DOMAIN q} = {log[i].dest : i \in RecentAt(log, w, time)}
  <1> DEFINE l == Len(q)
             m == Len(log)
  <1>1. /\ l \in Nat /\ m \in Nat /\ l <= m /\ EndOf(q, log)
        /\ RecentAt(log, w, time) = (m - l) + 1 .. m
    BY FreshQueue
  <1>2. DOMAIN q = 1 .. l /\ \A i \in 1 .. l : q[i] = log[(m - l) + i]
    BY <1>1 DEF EndOf
  <1> HIDE DEF l, m
  <1>3. l \in Nat /\ m \in Nat /\ l <= m
    BY <1>1
  <1>4. \A i \in 1 .. l : (m - l) + i \in (m - l) + 1 .. m
    BY <1>3
  <1>5. \A j \in (m - l) + 1 .. m : j - (m - l) \in 1 .. l /\ (m - l) + (j - (m - l)) = j
    BY <1>3
  <1>6. \A j \in (m - l) + 1 .. m : q[j - (m - l)] = log[j]
    BY <1>2, <1>5
  <1>7. ASSUME NEW x
        PROVE  (\E i \in 1 .. l : x = q[i].dest) <=> (\E j \in (m - l) + 1 .. m : x = log[j].dest)
    BY <1>2, <1>4, <1>5, <1>6
  <1> QED
    BY <1>1, <1>2, <1>7

\* The sum of a fresh queue is the sum of the recent charges.
LEMMA FreshBytes ==
    ASSUME NEW q \in Seq(Charge), NEW log \in Seq(Charge),
           NEW time \in Nat, NEW w \in Nat,
           Window(q, log, w, time), AllFresh(q, w, time), InOrder(log, time)
    PROVE  BytesIn(q, 1 .. Len(q)) = BytesIn(log, RecentAt(log, w, time))
  <1> DEFINE R == (Len(log) - Len(q)) + 1 .. Len(log)
  <1>1. EndOf(q, log) /\ RecentAt(log, w, time) = R
    BY FreshQueue
  <1>2. R \in SUBSET (1 .. Len(log))
    <2>1. Len(q) \in Nat /\ Len(log) \in Nat /\ Len(q) <= Len(log)
      BY FreshQueue
    <2> QED
      BY <2>1
  <1>3. Total(Sizes(log), R) = Total(Sizes(q), 1 .. Len(q))
    BY <1>1, EndTotal
  <1>4. BytesIn(q, 1 .. Len(q)) = Total(Sizes(q), 1 .. Len(q))
    BY BytesInTotal
  <1> HIDE DEF R
  <1>5. BytesIn(log, R) = Total(Sizes(log), R)
    BY <1>2, BytesInTotal
  <1> QED
    BY <1>1, <1>3, <1>4, <1>5

\* What a fresh row says about its prefix.
LEMMA FreshRow ==
    ASSUME NEW st \in IpState, NEW A, NEW C, NEW time \in Nat,
           LogOK(A, C, time), RowOK(st, A, C, time), RowFresh(st, time)
    PROVE  /\ Len(st.connects) = Cardinality(RecentAt(A, Cfg.connects_per_ip_window, time))
           /\ {st.dests[i].dest : i \in DOMAIN st.dests}
                 = {A[i].dest : i \in RecentAt(A, Cfg.distinct_dests_window, time)}
           /\ st.bytes_sum = BytesIn(C, RecentAt(C, Cfg.bytes_window, time))
           /\ st.connects = <<>> <=> RecentAt(A, Cfg.connects_per_ip_window, time) = {}
           /\ st.dests = <<>> <=> RecentAt(A, Cfg.distinct_dests_window, time) = {}
           /\ st.bytes = <<>> <=> RecentAt(C, Cfg.bytes_window, time) = {}
  <1> DEFINE wc == Cfg.connects_per_ip_window
             wd == Cfg.distinct_dests_window
             wb == Cfg.bytes_window
  <1>1. A \in Seq(Attempt) /\ C \in Seq(Charge) /\ InOrder(A, time) /\ InOrder(C, time)
    BY DEF LogOK
  <1>2. /\ Times(A) \in Seq(Stamp) /\ InOrder(Times(A), time)
        /\ RecentAt(Times(A), wc, time) = RecentAt(A, wc, time)
    BY <1>1, TimesOf
  <1>3. st.connects \in Seq(Stamp) /\ st.dests \in Seq(Attempt) /\ st.bytes \in Seq(Charge)
    BY RowFields
  <1>4. wc \in Nat /\ wd \in Nat /\ wb \in Nat
    BY WindowsNat
  <1>5. /\ Window(st.connects, Times(A), wc, time) /\ AllFresh(st.connects, wc, time)
        /\ Window(st.dests, A, wd, time) /\ AllFresh(st.dests, wd, time)
        /\ Window(st.bytes, C, wb, time) /\ AllFresh(st.bytes, wb, time)
        /\ st.bytes_sum = BytesIn(st.bytes, 1 .. Len(st.bytes))
    BY DEF RowOK, RowFresh
  <1> HIDE DEF wc, wd, wb
  <1>6. /\ Cardinality(RecentAt(Times(A), wc, time)) = Len(st.connects)
        /\ st.connects = <<>> <=> RecentAt(Times(A), wc, time) = {}
    BY <1>2, <1>3, <1>4, <1>5, FreshQueue
  <1>7. st.dests = <<>> <=> RecentAt(A, wd, time) = {}
    BY <1>1, <1>3, <1>4, <1>5, FreshQueue
  <1>8. st.bytes = <<>> <=> RecentAt(C, wb, time) = {}
    BY <1>1, <1>3, <1>4, <1>5, FreshQueue
  <1>9. {st.dests[i].dest : i \in DOMAIN st.dests} = {A[i].dest : i \in RecentAt(A, wd, time)}
    BY <1>1, <1>3, <1>4, <1>5, FreshDests, ZenonT(60)
  <1>10. BytesIn(st.bytes, 1 .. Len(st.bytes)) = BytesIn(C, RecentAt(C, wb, time))
    BY <1>1, <1>3, <1>4, <1>5, FreshBytes
  <1> QED
    BY <1>2, <1>5, <1>6, <1>7, <1>8, <1>9, <1>10, Zenon DEF wc, wd, wb

-----------------------------------------------------------------------------
(* The queue of the attempts of all clients. *)

\* f says which attempt of which prefix each entry of q is; every attempt
\* inside the window has its entry.
Matches(f, q, at, w, time) ==
    /\ f \in [1 .. Len(q) -> Keys \X Nat]
    /\ \A j \in 1 .. Len(q) :
          /\ f[j][2] \in 1 .. Len(at[f[j][1]])
          /\ at[f[j][1]][f[j][2]].t = q[j].t
    /\ \A i, j \in 1 .. Len(q) : f[i] = f[j] => i = j
    /\ \A k \in Keys : \A n \in 1 .. Len(at[k]) :
          time - at[k][n].t <= w => \E j \in 1 .. Len(q) : f[j] = <<k, n>>

GlobalOK(q, at, w, time) == InOrder(q, time) /\ \E f : Matches(f, q, at, w, time)

\* Pruning the queue loses no attempt inside the window and keeps no other.
LEMMA GlobalPrune ==
    ASSUME NEW q \in Seq(Stamp), NEW at \in [Keys -> Seq(Attempt)],
           NEW w \in Nat, NEW time \in Nat, GlobalOK(q, at, w, time)
    PROVE  /\ GlobalOK(prune_queue(q, time, w), at, w, time)
           /\ AllFresh(prune_queue(q, time, w), w, time)
  <1> DEFINE p == popped(q, time, w)
             r == prune_queue(q, time, w)
  <1>1. InOrder(q, time)
    BY DEF GlobalOK
  <1>2. \A i \in 1 .. Len(q) : q[i].t \in Nat
    BY <1>1 DEF InOrder
  <1>3. Window(q, q, w, time)
    BY DEF Window, EndOf
  <1>4. r \in Seq(Stamp) /\ AllFresh(r, w, time)
    BY <1>1, <1>3, PruneWindow
  <1>5. InOrder(r, time)
    BY <1>1, <1>2, <1>4, PruneIsEnd, EndInOrder
  <1>6. /\ p \in 0 .. Len(q)
        /\ Len(r) = Len(q) - p
        /\ \A i \in 1 .. Len(r) : r[i] = q[p + i]
        /\ \A i \in 1 .. p : time - q[i].t > w
    BY <1>2, PruneShape
  <1>7. PICK f : Matches(f, q, at, w, time)
    BY DEF GlobalOK
  <1> DEFINE h == [j \in 1 .. Len(r) |-> f[p + j]]
  <1> HIDE DEF p, r
  <1>8. Len(q) \in Nat /\ Len(r) \in Nat /\ p \in Nat
    BY <1>4, <1>6
  <1>9. \A j \in 1 .. Len(r) : p + j \in 1 .. Len(q)
    BY <1>6, <1>8
  <1>10. h \in [1 .. Len(r) -> Keys \X Nat]
    BY <1>7, <1>9 DEF Matches
  <1>11. \A j \in 1 .. Len(r) : /\ h[j][2] \in 1 .. Len(at[h[j][1]])
                                /\ at[h[j][1]][h[j][2]].t = r[j].t
    BY <1>6, <1>7, <1>9 DEF Matches
  <1>12. \A i, j \in 1 .. Len(r) : h[i] = h[j] => i = j
    <2> TAKE i, j \in 1 .. Len(r)
    <2> HAVE h[i] = h[j]
    <2>1. p + i = p + j
      BY <1>7, <1>9 DEF Matches
    <2> QED
      BY <1>8, <2>1
  <1>13. ASSUME NEW k \in Keys, NEW n \in 1 .. Len(at[k]), time - at[k][n].t <= w
         PROVE  \E j \in 1 .. Len(r) : h[j] = <<k, n>>
    <2>1. PICK j \in 1 .. Len(q) : f[j] = <<k, n>>
      BY <1>7, <1>13 DEF Matches
    <2>2. at[k][n].t = q[j].t
      <3>1. at[f[j][1]][f[j][2]].t = q[j].t
        BY <1>7 DEF Matches
      <3> QED
        BY <2>1, <3>1
    <2>3. q[j].t \in Nat
      BY <1>2
    <2>4. ~(j \in 1 .. p)
      BY <1>6, <1>13, <2>2, <2>3
    <2>5. j - p \in 1 .. Len(r) /\ p + (j - p) = j
      BY <1>6, <1>8, <2>4
    <2>6. h[j - p] = f[p + (j - p)]
      BY <2>5
    <2> QED
      BY <2>1, <2>5, <2>6
  <1> HIDE DEF h
  <1>14. Matches(h, r, at, w, time)
    BY <1>10, <1>11, <1>12, <1>13 DEF Matches
  <1> QED
    BY <1>4, <1>5, <1>14 DEF GlobalOK, r

\* An admitted attempt is entered in the queue and in the log.
LEMMA GlobalAppend ==
    ASSUME NEW q \in Seq(Stamp), NEW at \in [Keys -> Seq(Attempt)],
           NEW w \in Nat, NEW time \in Nat, GlobalOK(q, at, w, time),
           NEW k \in Keys, NEW e \in Attempt, e.t = time
    PROVE  GlobalOK(Append(q, [t |-> time]), [at EXCEPT ![k] = Append(@, e)], w, time)
  <1> DEFINE r == Append(q, [t |-> time])
             L == Append(at[k], e)
             au == [at EXCEPT ![k] = L]
  <1>1. [t |-> time] \in Stamp
    BY DEF Stamp
  <1>2. /\ r \in Seq(Stamp) /\ Len(r) = Len(q) + 1
        /\ \A i \in 1 .. Len(q) : r[i] = q[i]
        /\ r[Len(q) + 1] = [t |-> time]
    BY <1>1, AppendProperties
  <1>3. at[k] \in Seq(Attempt) /\ Len(at[k]) \in Nat
    OBVIOUS
  <1>4. /\ L \in Seq(Attempt) /\ Len(L) = Len(at[k]) + 1
        /\ \A i \in 1 .. Len(at[k]) : L[i] = at[k][i]
        /\ L[Len(at[k]) + 1] = e
    BY <1>3, AppendProperties
  <1>5. au[k] = L /\ \A x \in Keys : x # k => au[x] = at[x]
    OBVIOUS
  <1>6. InOrder(r, time)
    <2>1. Window(q, q, w, time)
      BY DEF Window, EndOf
    <2>2. InOrder(q, time) /\ [t |-> time].t = time
      BY DEF GlobalOK
    <2> QED
      BY <1>1, <2>1, <2>2, WindowAppend
  <1>7. PICK f : Matches(f, q, at, w, time)
    BY DEF GlobalOK
  <1> DEFINE N == Len(at[k]) + 1
             h == [j \in 1 .. Len(q) + 1 |-> IF j = Len(q) + 1 THEN <<k, N>> ELSE f[j]]
  <1>8. /\ h[Len(q) + 1] = <<k, N>>
        /\ \A j \in 1 .. Len(q) : h[j] = f[j]
        /\ \A j \in 1 .. Len(q) + 1 : j \in 1 .. Len(q) \/ j = Len(q) + 1
    OBVIOUS
  <1>9. \A j \in 1 .. Len(q) :
           /\ f[j][1] \in Keys /\ f[j][2] \in 1 .. Len(at[f[j][1]])
           /\ at[f[j][1]][f[j][2]].t = q[j].t
    BY <1>7 DEF Matches
  <1>10. h \in [1 .. Len(q) + 1 -> Keys \X Nat]
    <2>1. f \in [1 .. Len(q) -> Keys \X Nat] /\ <<k, N>> \in Keys \X Nat
      BY <1>3, <1>7 DEF Matches
    <2>2. \A j \in 1 .. Len(q) + 1 : h[j] \in Keys \X Nat
      <3> HIDE DEF h, N
      <3> QED
        BY <1>8, <2>1
    <2> QED
      BY <2>2
  <1> HIDE DEF r, L, au, h
  <1>11. ASSUME NEW x \in Keys, NEW n \in 1 .. Len(at[x])
         PROVE  n \in 1 .. Len(au[x]) /\ au[x][n] = at[x][n]
    <2>1. CASE x = k
      BY <1>3, <1>4, <1>5, <2>1
    <2>2. CASE x # k
      BY <1>5, <2>2
    <2> QED
      BY <2>1, <2>2
  <1>12. ASSUME NEW j \in 1 .. Len(r)
         PROVE  h[j][2] \in 1 .. Len(au[h[j][1]]) /\ au[h[j][1]][h[j][2]].t = r[j].t
    <2>1. CASE j \in 1 .. Len(q)
      <3>1. h[j] = f[j] /\ r[j] = q[j]
        BY <1>2, <1>8, <2>1
      <3>2. /\ f[j][2] \in 1 .. Len(au[f[j][1]])
            /\ au[f[j][1]][f[j][2]] = at[f[j][1]][f[j][2]]
        BY <1>9, <1>11, <2>1
      <3>3. at[f[j][1]][f[j][2]].t = q[j].t
        BY <1>9, <2>1
      <3> QED
        BY <3>1, <3>2, <3>3
    <2>2. CASE j = Len(q) + 1
      <3>1. h[j][1] = k /\ h[j][2] = N /\ r[j].t = time
        BY <1>2, <1>8, <2>2
      <3>2. N \in 1 .. Len(L) /\ L[N].t = time
        BY <1>3, <1>4
      <3> QED
        BY <1>5, <3>1, <3>2
    <2> QED
      BY <1>2, <1>8, <2>1, <2>2
  <1>13. ASSUME NEW i \in 1 .. Len(r), NEW j \in 1 .. Len(r), h[i] = h[j]
         PROVE  i = j
    <2>1. ASSUME NEW a \in 1 .. Len(q) PROVE h[a] # <<k, N>>
      <3> SUFFICES ASSUME f[a] = <<k, N>> PROVE FALSE
        BY <1>8
      <3>1. f[a][1] = k /\ f[a][2] = N
        OBVIOUS
      <3>2. N \in 1 .. Len(at[k])
        <4>1. f[a][2] \in 1 .. Len(at[f[a][1]])
          BY <1>9, <2>1
        <4> QED
          BY <3>1, <4>1, Zenon
      <3> QED
        BY <1>3, <3>2
    <2>2. CASE i \in 1 .. Len(q) /\ j \in 1 .. Len(q)
      BY <1>7, <1>8, <1>13, <2>2 DEF Matches
    <2>3. CASE i = Len(q) + 1 \/ j = Len(q) + 1
      BY <1>2, <1>8, <1>13, <2>1, <2>3
    <2> QED
      BY <1>2, <1>8, <2>2, <2>3
  <1>14. ASSUME NEW x \in Keys, NEW n \in 1 .. Len(au[x]), time - au[x][n].t <= w
         PROVE  \E j \in 1 .. Len(r) : h[j] = <<x, n>>
    <2>1. CASE n \in 1 .. Len(at[x])
      <3>1. time - at[x][n].t <= w
        BY <1>11, <1>14, <2>1
      <3>2. PICK j \in 1 .. Len(q) : f[j] = <<x, n>>
        BY <1>7, <2>1, <3>1 DEF Matches
      <3>3. j \in 1 .. Len(r)
        BY <1>2
      <3>4. h[j] = <<x, n>>
        BY <1>8, <3>2, Zenon
      <3> QED
        BY <3>3, <3>4, Zenon
    <2>2. CASE ~(n \in 1 .. Len(at[x]))
      <3>1. x = k
        BY <1>5, <2>2
      <3>2. n = N
        BY <1>3, <1>4, <1>5, <2>2, <3>1
      <3>3. Len(q) + 1 \in 1 .. Len(r)
        BY <1>2
      <3> QED
        BY <1>8, <3>1, <3>2, <3>3
    <2> QED
      BY <2>1, <2>2
  <1>15. Matches(h, r, au, w, time)
    BY <1>2, <1>10, <1>12, <1>13, <1>14 DEF Matches
  <1> QED
    BY <1>6, <1>15 DEF GlobalOK, r, au, L

\* Time only makes more of the attempts old.
LEMMA GlobalTick ==
    ASSUME NEW q \in Seq(Stamp), NEW at \in [Keys -> Seq(Attempt)],
           NEW w \in Nat, NEW time \in Nat, GlobalOK(q, at, w, time)
    PROVE  GlobalOK(q, at, w, time + 1)
  <1>1. Window(q, q, w, time) /\ InOrder(q, time)
    BY DEF Window, EndOf, GlobalOK
  <1>2. InOrder(q, time + 1)
    BY <1>1, WindowTick
  <1>3. PICK f : Matches(f, q, at, w, time)
    BY DEF GlobalOK
  <1>4. \A k \in Keys : \A n \in 1 .. Len(at[k]) : at[k][n].t \in Nat
    <2>1. \A k \in Keys : \A n \in 1 .. Len(at[k]) : at[k][n] \in Attempt
      OBVIOUS
    <2> QED
      BY <2>1 DEF Attempt
  <1>5. ASSUME NEW k \in Keys, NEW n \in 1 .. Len(at[k]), (time + 1) - at[k][n].t <= w
        PROVE  time - at[k][n].t <= w
    BY <1>4, <1>5
  <1>6. Matches(f, q, at, w, time + 1)
    BY <1>3, <1>5 DEF Matches
  <1> QED
    BY <1>2, <1>6 DEF GlobalOK

\* The pruned queue is as long as there are recent attempts of all prefixes.
LEMMA GlobalCount ==
    ASSUME NEW q \in Seq(Stamp), NEW at \in [Keys -> Seq(Attempt)],
           NEW w \in Nat, NEW time \in Nat, GlobalOK(q, at, w, time), AllFresh(q, w, time)
    PROVE  Len(q) = Total([k \in Keys |-> Cardinality(RecentAt(at[k], w, time))], Keys)
  <1> DEFINE R == [k \in Keys |-> RecentAt(at[k], w, time)]
             P == Pairs(R, Keys)
  <1>1. PICK f : Matches(f, q, at, w, time)
    BY DEF GlobalOK
  <1>2. \A k \in Keys : R[k] = {n \in 1 .. Len(at[k]) : time - at[k][n].t <= w}
    BY DEF RecentAt
  <1>3. \A k \in Keys : IsFiniteSet(R[k])
    <2> TAKE k \in Keys
    <2>1. IsFiniteSet(1 .. Len(at[k]))
      BY IntervalFinite
    <2>2. R[k] \in SUBSET (1 .. Len(at[k]))
      BY <1>2
    <2> QED
      BY <2>1, <2>2, FS_Subset
  <1>4. \A p : p \in P <=> \E k \in Keys : \E n \in R[k] : p = <<k, n>>
    <2> HIDE DEF R
    <2> QED
      BY DEF Pairs
  <1> HIDE DEF R, P
  <1>5. f \in [1 .. Len(q) -> P]
    <2>1. \A j \in 1 .. Len(q) : f[j] \in P
      <3> TAKE j \in 1 .. Len(q)
      <3>1. f[j] \in Keys \X Nat
        BY <1>1 DEF Matches
      <3>2. PICK k \in Keys, n \in Nat : f[j] = <<k, n>>
        BY <3>1, SMTT(40)
      <3>3. f[j][2] \in 1 .. Len(at[f[j][1]]) /\ at[f[j][1]][f[j][2]].t = q[j].t
        BY <1>1 DEF Matches
      <3>4. n \in 1 .. Len(at[k]) /\ at[k][n].t = q[j].t
        BY <3>2, <3>3
      <3>5. time - q[j].t <= w
        BY DEF AllFresh
      <3>6. n \in R[k]
        BY <1>2, <3>4, <3>5
      <3> QED
        BY <1>4, <3>2, <3>6
    <2>2. f \in [1 .. Len(q) -> Keys \X Nat]
      BY <1>1 DEF Matches
    <2> QED
      BY <2>1, <2>2
  <1>6. \A i, j \in 1 .. Len(q) : f[i] = f[j] => i = j
    BY <1>1 DEF Matches
  <1>7. \A p \in P : \E j \in 1 .. Len(q) : f[j] = p
    <2> TAKE p \in P
    <2>0. PICK k \in Keys : \E n \in R[k] : p = <<k, n>>
      BY <1>4
    <2>1. PICK n \in R[k] : p = <<k, n>>
      BY <2>0
    <2>2. n \in 1 .. Len(at[k]) /\ time - at[k][n].t <= w
      BY <1>2, <2>1
    <2> QED
      BY <1>1, <2>1, <2>2 DEF Matches
  <1>8. ExistsBijection(1 .. Len(q), P)
    <2>1. f \in Bijection(1 .. Len(q), P)
      BY <1>5, <1>6, <1>7, Fun_IsBij
    <2> QED
      BY <2>1, Fun_ExistsBij
  <1>9. Cardinality(P) = Len(q)
    <2>1. Len(q) \in Nat /\ IsFiniteSet(1 .. Len(q))
      BY IntervalFinite
    <2>2. Cardinality(1 .. Len(q)) = IF 1 > Len(q) THEN 0 ELSE Len(q) - 1 + 1
      BY FS_Interval
    <2>3. Cardinality(1 .. Len(q)) = Len(q)
      BY <2>1, <2>2
    <2> QED
      BY <1>8, <2>1, <2>3, FS_Bijection
  <1>10. Cardinality(P) = Total([k \in Keys |-> Cardinality(R[k])], Keys)
    BY <1>3, KeysAssumption, TotalOfSizes DEF P
  <1>11. [k \in Keys |-> Cardinality(R[k])]
            = [k \in Keys |-> Cardinality(RecentAt(at[k], w, time))]
    BY DEF R
  <1> QED
    BY <1>9, <1>10, <1>11, Zenon

-----------------------------------------------------------------------------
(* The state behind the Mutex. *)

LogsOK(at, ch, time) ==
    /\ at \in [Keys -> Seq(Attempt)]
    /\ ch \in [Keys -> Seq(Charge)]
    /\ \A k \in Keys : LogOK(at[k], ch[k], time)

\* Every row, found or not, and the global queue know what matters.
WindowsOK(g, at, ch, time) ==
    /\ \A k \in Keys : RowOK(Lookup(g.per_ip, k, DefaultIpState), at[k], ch[k], time)
    /\ GlobalOK(g.global_connects, at, Cfg.global_connects_window, time)

\* The sum of an empty queue is 0.
LEMMA NoBytes == BytesIn(<<>>, 1 .. Len(<<>>)) = 0
  <1>1. <<>> \in Seq(Charge) /\ 1 .. Len(<<>>) = {}
    BY EmptySeq
  <1>2. BytesIn(<<>>, {}) = Total(Sizes(<<>>), {})
    BY <1>1, BytesInTotal
  <1> QED
    BY <1>1, <1>2, TotalEmpty

\* An idle row says no more than no row at all.
LEMMA IdleRow ==
    ASSUME NEW st \in IpState, NEW A, NEW C, NEW time, RowOK(st, A, C, time), is_idle(st)
    PROVE  RowOK(DefaultIpState, A, C, time)
  <1>1. st.connects = <<>> /\ st.dests = <<>> /\ st.bytes = <<>>
    BY DEF is_idle
  <1>2. /\ DefaultIpState.connects = <<>> /\ DefaultIpState.dests = <<>>
        /\ DefaultIpState.bytes = <<>> /\ DefaultIpState.bytes_sum = 0
    BY DEF DefaultIpState
  <1> QED
    BY <1>1, <1>2, NoBytes DEF RowOK

\* prune_global keeps the windows and leaves a fresh queue.
LEMMA PruneGlobalOK ==
    ASSUME NEW g, IsInner(g), NEW at, NEW ch, NEW time \in Nat,
           LogsOK(at, ch, time), WindowsOK(g, at, ch, time)
    PROVE  LET h == prune_global(g, time) IN
           /\ WindowsOK(h, at, ch, time)
           /\ AllFresh(h.global_connects, Cfg.global_connects_window, time)
           /\ h.per_ip = g.per_ip
  <1> DEFINE w == Cfg.global_connects_window
             r == prune_queue(g.global_connects, time, w)
             h == prune_global(g, time)
  <1>1. g.global_connects \in Seq(Stamp) /\ w \in Nat
    BY WindowsNat DEF IsInner, Stamp
  <1>2. GlobalOK(r, at, w, time) /\ AllFresh(r, w, time)
    BY <1>1, GlobalPrune DEF LogsOK, WindowsOK
  <1>3. h.global_connects = r /\ h.per_ip = g.per_ip
    BY DEF prune_global, IsInner
  <1> HIDE DEF h, r
  <1> QED
    BY <1>2, <1>3 DEF WindowsOK, h

\* gc_idle keeps the windows.
LEMMA GcIdleOK ==
    ASSUME NEW g, IsInner(g), NEW at, NEW ch, NEW time \in Nat,
           LogsOK(at, ch, time), WindowsOK(g, at, ch, time)
    PROVE  WindowsOK(gc_idle(g, time), at, ch, time)
  <1> DEFINE pruned == [k \in DOMAIN g.per_ip |-> prune(g.per_ip[k], time)]
             idle == {k \in DOMAIN pruned : is_idle(pruned[k])}
             rows == Drop(pruned, idle)
             p == prune_global(g, time)
             h == gc_idle(g, time)
  <1>1. WindowsOK(p, at, ch, time) /\ IsInner(p)
    BY PruneGlobalOK, PruneGlobalSame DEF SameCounts
  <1>2. h = [p EXCEPT !.per_ip = rows, !.last_gc = time]
    BY DEF gc_idle
  <1>3. \A k \in DOMAIN g.per_ip : k \in Keys /\ g.per_ip[k] \in IpState
    BY DEF IsInner
  <1>4. \A k \in DOMAIN g.per_ip :
           /\ pruned[k] \in IpState
           /\ RowOK(pruned[k], at[k], ch[k], time)
    <2> TAKE k \in DOMAIN g.per_ip
    <2>1. RowOK(g.per_ip[k], at[k], ch[k], time) /\ LogOK(at[k], ch[k], time)
      BY <1>3 DEF WindowsOK, Lookup, LogsOK
    <2> QED
      BY <1>3, <2>1, PruneRow, PruneRowOK
  <1>5. ASSUME NEW k \in Keys
        PROVE  RowOK(Lookup(rows, k, DefaultIpState), at[k], ch[k], time)
    <2>1. CASE k \notin DOMAIN g.per_ip
      BY <2>1 DEF Lookup, Drop, WindowsOK
    <2>2. CASE k \in idle
      <3>1. RowOK(DefaultIpState, at[k], ch[k], time)
        BY <1>4, <2>2, IdleRow
      <3> QED
        BY <2>2, <3>1 DEF Lookup, Drop
    <2>3. CASE k \in DOMAIN g.per_ip \ idle
      BY <1>4, <2>3 DEF Lookup, Drop
    <2> QED
      BY <2>1, <2>2, <2>3
  <1> HIDE DEF rows, p, pruned, idle, h
  <1>6. h.per_ip = rows /\ h.global_connects = p.global_connects
    BY <1>1, <1>2 DEF IsInner
  <1> QED
    BY <1>1, <1>5, <1>6 DEF WindowsOK, h

\* maybe_gc keeps the windows, whether it collects or not.
LEMMA MaybeGcOK ==
    ASSUME NEW g, IsInner(g), NEW at, NEW ch, NEW time \in Nat,
           LogsOK(at, ch, time), WindowsOK(g, at, ch, time)
    PROVE  WindowsOK(maybe_gc(g, time), at, ch, time)
  BY GcIdleOK DEF maybe_gc

-----------------------------------------------------------------------------
(* What each method does to the windows. *)

\* Writing a row that knows what matters.
LEMMA PutRowOK ==
    ASSUME NEW g, IsInner(g), NEW at, NEW ch, NEW time, WindowsOK(g, at, ch, time),
           NEW k \in Keys, NEW st, RowOK(st, at[k], ch[k], time)
    PROVE  /\ \A x \in Keys : RowOK(Lookup(Put(g.per_ip, k, st), x, DefaultIpState),
                                    at[x], ch[x], time)
           /\ WindowsOK([g EXCEPT !.per_ip = Put(@, k, st)], at, ch, time)
  <1> DEFINE rows == Put(g.per_ip, k, st)
             h == [g EXCEPT !.per_ip = rows]
  <1>1. \A x \in Keys : Lookup(rows, x, DefaultIpState)
                           = IF x = k THEN st ELSE Lookup(g.per_ip, x, DefaultIpState)
    BY DEF Put, Lookup
  <1>2. h.per_ip = rows /\ h.global_connects = g.global_connects
    BY DEF IsInner
  <1> HIDE DEF rows, h
  <1>3. \A x \in Keys : RowOK(Lookup(rows, x, DefaultIpState), at[x], ch[x], time)
    BY <1>1 DEF WindowsOK
  <1> QED
    BY <1>2, <1>3 DEF WindowsOK, rows, h

\* The row of k, found or not, once it is pruned.
LEMMA PrunedRow ==
    ASSUME NEW g, IsInner(g), NEW at, NEW ch, NEW time \in Nat,
           LogsOK(at, ch, time), WindowsOK(g, at, ch, time), NEW k \in Keys
    PROVE  LET st == prune(Lookup(g.per_ip, k, DefaultIpState), time) IN
           /\ st \in IpState
           /\ RowOK(st, at[k], ch[k], time)
           /\ RowFresh(st, time)
  <1>1. Lookup(g.per_ip, k, DefaultIpState) \in IpState
    BY LookupType
  <1>2. LogOK(at[k], ch[k], time) /\ RowOK(Lookup(g.per_ip, k, DefaultIpState), at[k], ch[k], time)
    BY DEF LogsOK, WindowsOK
  <1> QED
    BY <1>1, <1>2, PruneRow, PruneRowOK

\* A row to which an attempt is added, against the log to which it is added.
LEMMA RowAttempt ==
    ASSUME NEW st \in IpState, NEW A, NEW C, NEW time \in Nat, NEW d \in Dests,
           LogOK(A, C, time), RowOK(st, A, C, time)
    PROVE  LET e == [t |-> time, dest |-> d] IN
           /\ RowOK([st EXCEPT !.connects = Append(@, [t |-> time]),
                               !.dests = Append(@, e)],
                    Append(A, e), C, time)
           /\ LogOK(Append(A, e), C, time)
  <1> DEFINE e == [t |-> time, dest |-> d]
             s == [t |-> time]
             st2 == [st EXCEPT !.connects = Append(@, s), !.dests = Append(@, e)]
  <1>1. e \in Attempt /\ s \in Stamp /\ e.t = time /\ s.t = time
    BY DEF Attempt, Stamp
  <1>2. /\ A \in Seq(Attempt) /\ InOrder(A, time)
        /\ Times(A) \in Seq(Stamp) /\ InOrder(Times(A), time)
        /\ C \in Seq(Charge) /\ InOrder(C, time)
    BY TimesOf DEF LogOK
  <1>3. st.connects \in Seq(Stamp) /\ st.dests \in Seq(Attempt)
    BY RowFields
  <1>4. /\ st2.connects = Append(st.connects, s)
        /\ st2.dests = Append(st.dests, e)
        /\ st2.bytes = st.bytes /\ st2.bytes_sum = st.bytes_sum
    BY DEF IpState
  <1>5. Times(Append(A, e)) = Append(Times(A), s)
    BY <1>1, <1>2, TimesAppend
  <1> HIDE DEF e, s, st2
  <1>6. Window(Append(st.connects, s), Append(Times(A), s), Cfg.connects_per_ip_window, time)
    BY <1>1, <1>2, <1>3, WindowsNat, WindowAppend DEF RowOK
  <1>7. /\ Window(Append(st.dests, e), Append(A, e), Cfg.distinct_dests_window, time)
        /\ InOrder(Append(A, e), time)
    BY <1>1, <1>2, <1>3, WindowsNat, WindowAppend DEF RowOK
  <1>8. Append(A, e) \in Seq(Attempt)
    BY <1>1, <1>2, AppendProperties
  <1>9. RowOK(st2, Append(A, e), C, time)
    BY <1>4, <1>5, <1>6, <1>7 DEF RowOK
  <1>10. LogOK(Append(A, e), C, time)
    BY <1>2, <1>7, <1>8 DEF LogOK
  <1> QED
    BY <1>9, <1>10 DEF st2, e, s

\* A row to which a charge is added, against the log to which it is added.
LEMMA RowCharge ==
    ASSUME NEW st \in IpState, NEW A, NEW C, NEW time \in Nat, NEW n \in Nat,
           LogOK(A, C, time), RowOK(st, A, C, time)
    PROVE  LET e == [t |-> time, n |-> n] IN
           /\ RowOK([st EXCEPT !.bytes = Append(@, e), !.bytes_sum = @ + n],
                    A, Append(C, e), time)
           /\ LogOK(A, Append(C, e), time)
  <1> DEFINE e == [t |-> time, n |-> n]
             st2 == [st EXCEPT !.bytes = Append(@, e), !.bytes_sum = @ + n]
  <1>1. e \in Charge /\ e.t = time /\ e.n = n
    BY DEF Charge
  <1>2. A \in Seq(Attempt) /\ InOrder(A, time) /\ C \in Seq(Charge) /\ InOrder(C, time)
    BY DEF LogOK
  <1>3. st.bytes \in Seq(Charge)
    BY RowFields
  <1>4. /\ st2.connects = st.connects /\ st2.dests = st.dests
        /\ st2.bytes = Append(st.bytes, e)
        /\ st2.bytes_sum = st.bytes_sum + n
    BY DEF IpState
  <1> HIDE DEF e, st2
  <1>5. /\ Window(Append(st.bytes, e), Append(C, e), Cfg.bytes_window, time)
        /\ InOrder(Append(C, e), time)
    BY <1>1, <1>2, <1>3, WindowsNat, WindowAppend DEF RowOK
  <1>6. Append(C, e) \in Seq(Charge)
    BY <1>1, <1>2, AppendProperties
  <1>7. BytesIn(Append(st.bytes, e), 1 .. Len(Append(st.bytes, e)))
           = BytesIn(st.bytes, 1 .. Len(st.bytes)) + n
    BY <1>1, <1>3, AppendTotal
  <1>8. RowOK(st2, A, Append(C, e), time)
    BY <1>4, <1>5, <1>7 DEF RowOK
  <1>9. LogOK(A, Append(C, e), time)
    BY <1>2, <1>5, <1>6 DEF LogOK
  <1> QED
    BY <1>8, <1>9 DEF st2, e

\* What the promise compares with the caps, at an instant.
AllAt(at, time) ==
    Total([x \in Keys |-> Cardinality(RecentAt(at[x], Cfg.global_connects_window, time))],
          Keys)

DestsAt(at, k, time) ==
    {at[k][i].dest : i \in RecentAt(at[k], Cfg.distinct_dests_window, time)}

AllowedAt(at, time, k, d) ==
    /\ ~capped(Cfg.global_connects, AllAt(at, time))
    /\ ~capped(Cfg.connects_per_ip,
               Cardinality(RecentAt(at[k], Cfg.connects_per_ip_window, time)))
    /\ \/ d \in DestsAt(at, k, time)
       \/ ~capped(Cfg.distinct_dests_per_ip, Cardinality(DestsAt(at, k, time)))

WithAttempt(at, time, k, d) == [at EXCEPT ![k] = Append(@, [t |-> time, dest |-> d])]

WithCharge(ch, time, k, n) == [ch EXCEPT ![k] = Append(@, [t |-> time, n |-> n])]

\* count_attempt admits exactly what the history allows, and keeps the windows.
LEMMA CountAttemptOK ==
    ASSUME NEW g, IsInner(g), NEW at, NEW ch, NEW time \in Nat,
           LogsOK(at, ch, time), WindowsOK(g, at, ch, time),
           AllFresh(g.global_connects, Cfg.global_connects_window, time),
           NEW k \in Keys, NEW d \in Dests
    PROVE  LET r == count_attempt(g, time, k, d) IN
           IF r.res = "Ok"
           THEN /\ AllowedAt(at, time, k, d)
                /\ WindowsOK(r.g, WithAttempt(at, time, k, d), ch, time)
           ELSE /\ ~AllowedAt(at, time, k, d)
                /\ WindowsOK(r.g, at, ch, time)
  <1> DEFINE st == prune(Lookup(g.per_ip, k, DefaultIpState), time)
             row == [g EXCEPT !.per_ip = Put(@, k, st)]
             unique == {st.dests[i].dest : i \in DOMAIN st.dests}
             e == [t |-> time, dest |-> d]
             st2 == [st EXCEPT !.connects = Append(@, [t |-> time]),
                               !.dests = Append(@, e)]
             ok == [g EXCEPT !.per_ip = Put(@, k, st2),
                             !.global_connects = Append(@, [t |-> time])]
             r == count_attempt(g, time, k, d)
             room == /\ ~capped(Cfg.global_connects, Len(g.global_connects))
                     /\ ~capped(Cfg.connects_per_ip, Len(st.connects))
                     /\ \/ d \in unique
                        \/ ~capped(Cfg.distinct_dests_per_ip, Cardinality(unique))
             au == WithAttempt(at, time, k, d)
  <1>1. \/ room /\ r = Returns(ok, "Ok")
        \/ ~room /\ r = Returns(g, "GlobalConnectRate")
        \/ ~room /\ r = Returns(row, "ConnectRate")
        \/ ~room /\ r = Returns(row, "DistinctDests")
    BY Zenon DEF count_attempt
  <1>2. st \in IpState /\ RowOK(st, at[k], ch[k], time) /\ RowFresh(st, time)
    BY PrunedRow
  <1>3. /\ LogOK(at[k], ch[k], time) /\ at \in [Keys -> Seq(Attempt)]
        /\ g.global_connects \in Seq(Stamp)
        /\ GlobalOK(g.global_connects, at, Cfg.global_connects_window, time)
    BY DEF LogsOK, WindowsOK, IsInner, Stamp
  <1> HIDE DEF st
  <1>4. room <=> AllowedAt(at, time, k, d)
    <2>1. Len(g.global_connects) = AllAt(at, time)
      BY <1>3, WindowsNat, GlobalCount DEF AllAt
    <2>2. /\ Len(st.connects)
                = Cardinality(RecentAt(at[k], Cfg.connects_per_ip_window, time))
          /\ unique = DestsAt(at, k, time)
      BY <1>2, <1>3, FreshRow DEF DestsAt
    <2> HIDE DEF unique
    <2> QED
      BY <2>1, <2>2 DEF AllowedAt
  <1>5. WindowsOK(row, at, ch, time)
    BY <1>2, PutRowOK
  <1>6. WindowsOK(ok, au, ch, time)
    <2>1. RowOK(st2, Append(at[k], e), ch[k], time)
      BY <1>2, <1>3, RowAttempt
    <2>2. au[k] = Append(at[k], e) /\ \A x \in Keys : x # k => au[x] = at[x]
      BY <1>3 DEF WithAttempt
    <2>3. GlobalOK(Append(g.global_connects, [t |-> time]), au,
                   Cfg.global_connects_window, time)
      <3>1. e \in Attempt /\ e.t = time
        BY DEF Attempt
      <3> QED
        BY <1>3, <3>1, WindowsNat, GlobalAppend DEF WithAttempt
    <2> HIDE DEF st2, au
    <2>4. /\ ok.per_ip = Put(g.per_ip, k, st2)
          /\ ok.global_connects = Append(g.global_connects, [t |-> time])
      BY DEF IsInner
    <2>5. \A x \in Keys : Lookup(Put(g.per_ip, k, st2), x, DefaultIpState)
                             = IF x = k THEN st2 ELSE Lookup(g.per_ip, x, DefaultIpState)
      BY DEF Put, Lookup
    <2> HIDE DEF ok
    <2>6. \A x \in Keys : RowOK(Lookup(ok.per_ip, x, DefaultIpState), au[x], ch[x], time)
      BY <2>1, <2>2, <2>4, <2>5 DEF WindowsOK
    <2> QED
      BY <2>3, <2>4, <2>6 DEF WindowsOK
  <1> HIDE DEF r, room, ok, row, au
  <1>7. CASE room /\ r = Returns(ok, "Ok")
    <2>1. r.res = "Ok" /\ r.g = ok
      BY <1>7 DEF Returns
    <2> QED
      BY <1>4, <1>6, <1>7, <2>1 DEF r, au
  <1>8. CASE ~room /\ r.res # "Ok" /\ r.g \in {g, row}
    BY <1>4, <1>5, <1>8 DEF r
  <1> QED
    BY <1>1, <1>7, <1>8 DEF Returns

\* record_attempt admits only what the history allows, refuses nothing it allows
\* when the number of rows is not capped, and keeps the windows.
LEMMA RecordAttemptOK ==
    ASSUME NEW inn, IsInner(inn), NEW at, NEW ch, NEW time \in Nat,
           LogsOK(at, ch, time), WindowsOK(inn, at, ch, time),
           NEW k \in Keys, NEW d \in Dests
    PROVE  LET r == record_attempt(inn, time, k, d) IN
           IF r.res = "Ok"
           THEN /\ AllowedAt(at, time, k, d)
                /\ WindowsOK(r.g, WithAttempt(at, time, k, d), ch, time)
           ELSE /\ Cfg.max_tracked_ips = 0 => ~AllowedAt(at, time, k, d)
                /\ WindowsOK(r.g, at, ch, time)
  <1> DEFINE m == maybe_gc(inn, time)
             g == prune_global(m, time)
             c == IF no_room(g, k) THEN gc_idle(g, time) ELSE g
             r == record_attempt(inn, time, k, d)
             w == Cfg.global_connects_window
  <1>1. r = IF no_room(c, k) THEN Returns(c, "GlobalConnectRate")
            ELSE count_attempt(c, time, k, d)
    BY DEF record_attempt
  <1>2. IsInner(m) /\ WindowsOK(m, at, ch, time)
    BY MaybeGcSame, MaybeGcOK DEF SameCounts
  <1> HIDE DEF m
  <1>3. /\ IsInner(g) /\ WindowsOK(g, at, ch, time)
        /\ AllFresh(g.global_connects, w, time)
    BY <1>2, PruneGlobalSame, PruneGlobalOK DEF SameCounts
  <1> HIDE DEF g
  <1>4. /\ IsInner(gc_idle(g, time)) /\ WindowsOK(gc_idle(g, time), at, ch, time)
        /\ AllFresh(gc_idle(g, time).global_connects, w, time)
    <2>1. IsInner(gc_idle(g, time)) /\ WindowsOK(gc_idle(g, time), at, ch, time)
      BY <1>3, GcIdleSame, GcIdleOK DEF SameCounts
    <2>2. AllFresh(prune_global(g, time).global_connects, w, time)
      BY <1>3, PruneGlobalOK
    <2>3. gc_idle(g, time).global_connects = prune_global(g, time).global_connects
      <3>1. IsInner(prune_global(g, time))
        BY <1>3, PruneGlobalSame DEF SameCounts
      <3> QED
        BY <3>1 DEF gc_idle, IsInner
    <2> QED
      BY <2>1, <2>2, <2>3
  <1>5. /\ IsInner(c) /\ WindowsOK(c, at, ch, time)
        /\ AllFresh(c.global_connects, w, time)
    BY <1>3, <1>4
  <1> HIDE DEF c
  <1>6. CASE no_room(c, k)
    <2>1. r.res = "GlobalConnectRate" /\ r.g = c /\ Cfg.max_tracked_ips # 0
      BY <1>1, <1>6 DEF Returns, no_room, capped
    <2> HIDE DEF r
    <2>2. r.res # "Ok"
      BY <2>1
    <2> QED
      BY <1>5, <2>1, <2>2 DEF r
  <1>7. CASE ~no_room(c, k)
    <2>1. r = count_attempt(c, time, k, d)
      BY <1>1, <1>7
    <2> HIDE DEF r
    <2>2. IF r.res = "Ok"
          THEN /\ AllowedAt(at, time, k, d)
               /\ WindowsOK(r.g, WithAttempt(at, time, k, d), ch, time)
          ELSE /\ ~AllowedAt(at, time, k, d)
               /\ WindowsOK(r.g, at, ch, time)
      BY <1>5, <2>1, CountAttemptOK
    <2> QED
      BY <2>2 DEF r
  <1> QED
    BY <1>6, <1>7

\* A row in which only the number of connections differs.
LEMMA RowConnections ==
    ASSUME NEW st \in IpState, NEW A, NEW C, NEW time, NEW c, RowOK(st, A, C, time)
    PROVE  RowOK([st EXCEPT !.connections = c], A, C, time)
  <1> DEFINE st2 == [st EXCEPT !.connections = c]
  <1>1. /\ st2.connects = st.connects /\ st2.dests = st.dests
        /\ st2.bytes = st.bytes /\ st2.bytes_sum = st.bytes_sum
    BY DEF IpState
  <1> HIDE DEF st2
  <1> QED
    BY <1>1 DEF RowOK, st2

\* acquire keeps the windows, whatever its verdict.
LEMMA AcquireOK ==
    ASSUME NEW inn, IsInner(inn), NEW at, NEW ch, NEW time \in Nat,
           LogsOK(at, ch, time), WindowsOK(inn, at, ch, time),
           NEW k \in Keys, NEW d \in Dests
    PROVE  WindowsOK(acquire(inn, time, k, d).g, at, ch, time)
  <1> DEFINE g == maybe_gc(inn, time)
             st == Lookup(g.per_ip, k, DefaultIpState)
             st2 == [st EXCEPT !.connections = @ + 1]
             row == [g EXCEPT !.per_ip = Put(@, k, st)]
             ok == [g EXCEPT !.global_connections = @ + 1,
                             !.per_ip = Put(@, k, st2),
                             !.per_dest = Put(@, d, Lookup(g.per_dest, d, 0) + 1)]
  <1>1. acquire(inn, time, k, d).g \in {g, row, ok}
    BY DEF acquire, Returns
  <1>2. IsInner(g) /\ WindowsOK(g, at, ch, time)
    BY MaybeGcSame, MaybeGcOK DEF SameCounts
  <1> HIDE DEF g
  <1>3. st \in IpState /\ RowOK(st, at[k], ch[k], time)
    BY <1>2, LookupType DEF WindowsOK
  <1> HIDE DEF st
  <1>4. WindowsOK(row, at, ch, time)
    BY <1>2, <1>3, PutRowOK
  <1>5. RowOK(st2, at[k], ch[k], time)
    BY <1>3, RowConnections
  <1> HIDE DEF st2
  <1>6. WindowsOK(ok, at, ch, time)
    <2>1. ok.per_ip = Put(g.per_ip, k, st2) /\ ok.global_connects = g.global_connects
      BY <1>2 DEF IsInner
    <2> HIDE DEF ok
    <2>2. \A x \in Keys : RowOK(Lookup(Put(g.per_ip, k, st2), x, DefaultIpState),
                                at[x], ch[x], time)
      BY <1>2, <1>5, PutRowOK
    <2> QED
      BY <1>2, <2>1, <2>2 DEF WindowsOK
  <1> HIDE DEF row, ok
  <1> QED
    BY <1>1, <1>2, <1>4, <1>6

\* Dropping a lease keeps the windows: the row goes only when it is idle.
LEMMA ReleaseOK ==
    ASSUME NEW inn, IsInner(inn), NEW at, NEW ch, NEW time \in Nat,
           LogsOK(at, ch, time), WindowsOK(inn, at, ch, time),
           NEW k \in Keys, NEW d \in Dests
    PROVE  WindowsOK(release(inn, time, k, d), at, ch, time)
  <1> DEFINE rows == release_row(inn.per_ip, time, k)
             h == release(inn, time, k, d)
  <1>1. h.per_ip = rows /\ h.global_connects = inn.global_connects
    BY DEF release, IsInner
  <1>2. \A x \in Keys : RowOK(Lookup(rows, x, DefaultIpState), at[x], ch[x], time)
    <2>1. CASE k \notin DOMAIN inn.per_ip
      BY <2>1 DEF release_row, WindowsOK
    <2>2. CASE k \in DOMAIN inn.per_ip
      <3> DEFINE st0 == [inn.per_ip[k] EXCEPT !.connections = saturating_sub(@, 1)]
                 st == prune(st0, time)
      <3>1. inn.per_ip[k] \in IpState /\ RowOK(inn.per_ip[k], at[k], ch[k], time)
        BY <2>2 DEF IsInner, WindowsOK, Lookup
      <3>2. st0 \in IpState /\ RowOK(st0, at[k], ch[k], time)
        <4>1. saturating_sub(inn.per_ip[k].connections, 1) \in Nat
          BY DEF saturating_sub
        <4> QED
          BY <3>1, <4>1, SetConnections, RowConnections
      <3>3. rows = IF is_idle(st) THEN Drop(inn.per_ip, {k}) ELSE Put(inn.per_ip, k, st)
        BY <2>2 DEF release_row
      <3> HIDE DEF st0
      <3>4. st \in IpState /\ RowOK(st, at[k], ch[k], time)
        BY <3>2, PruneRow, PruneRowOK DEF LogsOK
      <3> HIDE DEF st, rows
      <3>5. CASE is_idle(st)
        <4>1. RowOK(DefaultIpState, at[k], ch[k], time)
          BY <3>4, <3>5, IdleRow
        <4>2. \A x \in Keys : Lookup(Drop(inn.per_ip, {k}), x, DefaultIpState)
                                 = IF x = k THEN DefaultIpState
                                   ELSE Lookup(inn.per_ip, x, DefaultIpState)
          BY DEF Drop, Lookup
        <4> QED
          BY <3>3, <3>5, <4>1, <4>2 DEF WindowsOK
      <3>6. CASE ~is_idle(st)
        BY <3>3, <3>4, <3>6, PutRowOK
      <3> QED
        BY <3>5, <3>6
    <2> QED
      BY <2>1, <2>2
  <1> HIDE DEF rows, h
  <1> QED
    BY <1>1, <1>2 DEF WindowsOK, h

\* The bytes of a prefix inside the window that ends at time.
BytesAt(ch, k, time) == BytesIn(ch[k], RecentAt(ch[k], Cfg.bytes_window, time))

\* A charge goes to the log only when bytes are capped.
ChargedAt(ch, time, k, n) ==
    IF Cfg.max_bytes_per_ip = 0 THEN ch ELSE WithCharge(ch, time, k, n)

\* add_bytes accepts exactly what the history leaves room for, and keeps the
\* windows.
LEMMA AddBytesOK ==
    ASSUME NEW inn, IsInner(inn), NEW at, NEW ch, NEW time \in Nat,
           LogsOK(at, ch, time), WindowsOK(inn, at, ch, time),
           NEW k \in Keys, NEW n \in Nat
    PROVE  LET r == add_bytes(inn, time, k, n)
               room == \/ Cfg.max_bytes_per_ip = 0
                       \/ BytesAt(ch, k, time) + n <= Cfg.max_bytes_per_ip
           IN  IF r.res = "Ok"
               THEN room /\ WindowsOK(r.g, at, ChargedAt(ch, time, k, n), time)
               ELSE ~room /\ WindowsOK(r.g, at, ch, time)
  <1> DEFINE g == maybe_gc(inn, time)
             st == prune(Lookup(g.per_ip, k, DefaultIpState), time)
             e == [t |-> time, n |-> n]
             st2 == [st EXCEPT !.bytes = Append(@, e), !.bytes_sum = @ + n]
             row == [g EXCEPT !.per_ip = Put(@, k, st)]
             ok == [g EXCEPT !.per_ip = Put(@, k, st2)]
             r == add_bytes(inn, time, k, n)
             max == Cfg.max_bytes_per_ip
             cu == WithCharge(ch, time, k, n)
  <1>1. \/ max = 0 /\ r = Returns(g, "Ok")
        \/ max # 0 /\ st.bytes_sum + n > max /\ r = Returns(row, "ByteCap")
        \/ max # 0 /\ ~(st.bytes_sum + n > max) /\ r = Returns(ok, "Ok")
    BY Zenon DEF add_bytes
  <1>2. IsInner(g) /\ WindowsOK(g, at, ch, time)
    BY MaybeGcSame, MaybeGcOK DEF SameCounts
  <1> HIDE DEF g
  <1>3. st \in IpState /\ RowOK(st, at[k], ch[k], time) /\ RowFresh(st, time)
    BY <1>2, PrunedRow
  <1> HIDE DEF st
  <1>4. LogOK(at[k], ch[k], time) /\ ch \in [Keys -> Seq(Charge)]
    BY DEF LogsOK
  <1>5. st.bytes_sum = BytesAt(ch, k, time) /\ st.bytes_sum \in Nat /\ max \in Nat
    BY <1>3, <1>4, FreshRow, RowFields, CfgAssumption DEF BytesAt, LimitsConfig
  <1>6. WindowsOK(row, at, ch, time)
    BY <1>2, <1>3, PutRowOK
  <1>7. WindowsOK(ok, at, cu, time)
    <2>1. RowOK(st2, at[k], Append(ch[k], e), time)
      BY <1>3, <1>4, RowCharge
    <2>2. cu[k] = Append(ch[k], e) /\ \A x \in Keys : x # k => cu[x] = ch[x]
      BY <1>4 DEF WithCharge
    <2> HIDE DEF st2, cu
    <2>3. ok.per_ip = Put(g.per_ip, k, st2) /\ ok.global_connects = g.global_connects
      BY <1>2 DEF IsInner
    <2>4. \A x \in Keys : Lookup(Put(g.per_ip, k, st2), x, DefaultIpState)
                             = IF x = k THEN st2 ELSE Lookup(g.per_ip, x, DefaultIpState)
      BY DEF Put, Lookup
    <2> HIDE DEF ok
    <2>5. \A x \in Keys : RowOK(Lookup(ok.per_ip, x, DefaultIpState), at[x], cu[x], time)
      BY <1>2, <2>1, <2>2, <2>3, <2>4 DEF WindowsOK
    <2> QED
      BY <1>2, <2>3, <2>5 DEF WindowsOK
  <1> HIDE DEF r, ok, row, cu
  <1>8. CASE max = 0 /\ r = Returns(g, "Ok")
    <2>1. r.res = "Ok" /\ r.g = g /\ ChargedAt(ch, time, k, n) = ch
      BY <1>8 DEF Returns, ChargedAt
    <2> QED
      BY <1>2, <1>8, <2>1 DEF r
  <1>9. CASE max # 0 /\ st.bytes_sum + n > max /\ r = Returns(row, "ByteCap")
    <2>1. r.res # "Ok" /\ r.g = row
      BY <1>9 DEF Returns
    <2>2. ~(max = 0 \/ BytesAt(ch, k, time) + n <= max)
      BY <1>5, <1>9
    <2> HIDE DEF max
    <2> QED
      BY <1>6, <2>1, <2>2 DEF r, max
  <1>10. CASE max # 0 /\ ~(st.bytes_sum + n > max) /\ r = Returns(ok, "Ok")
    <2>1. r.res = "Ok" /\ r.g = ok /\ ChargedAt(ch, time, k, n) = cu
      BY <1>10 DEF Returns, ChargedAt, cu
    <2>2. BytesAt(ch, k, time) + n <= max
      BY <1>5, <1>10
    <2> QED
      BY <1>7, <2>1, <2>2 DEF r
  <1> QED
    BY <1>1, <1>8, <1>9, <1>10

-----------------------------------------------------------------------------
(* The inductive invariant. *)

\* The logs are in the order of time, and the state behind the Mutex knows of
\* them what matters.
WindowInv == LogsOK(attempts, charges, now) /\ WindowsOK(inner, attempts, charges, now)

\* At the start nothing was admitted and nothing is queued.
LEMMA InitWindows == Init => WindowInv
  <1> SUFFICES ASSUME Init PROVE WindowInv
    OBVIOUS
  <1>1. /\ now = 0 /\ attempts = [k \in Keys |-> <<>>] /\ charges = [k \in Keys |-> <<>>]
        /\ inner.per_ip = EmptyMap /\ inner.global_connects = <<>>
    BY DEF Init, InitInner
  <1>2. <<>> \in Seq(Attempt) /\ <<>> \in Seq(Charge) /\ <<>> \in Seq(Stamp) /\ Len(<<>>) = 0
    BY EmptySeq
  <1>3. InOrder(<<>>, 0)
    BY <1>2 DEF InOrder
  <1>4. LogsOK(attempts, charges, now)
    BY <1>1, <1>2, <1>3 DEF LogsOK, LogOK
  <1>5. Times(<<>>) \in Seq(Stamp) /\ Len(Times(<<>>)) = 0
    BY <1>2, TimesOf
  <1>6. \A log, w : Len(log) = 0 => Window(<<>>, log, w, 0)
    BY <1>2 DEF Window, EndOf
  <1>7. RowOK(DefaultIpState, <<>>, <<>>, 0)
    <2>1. /\ DefaultIpState.connects = <<>> /\ DefaultIpState.dests = <<>>
          /\ DefaultIpState.bytes = <<>> /\ DefaultIpState.bytes_sum = 0
      BY DEF DefaultIpState
    <2> QED
      BY <1>2, <1>5, <1>6, <2>1, NoBytes DEF RowOK
  <1>8. \A k \in Keys : RowOK(Lookup(inner.per_ip, k, DefaultIpState),
                              attempts[k], charges[k], now)
    BY <1>1, <1>7 DEF Lookup, EmptyMap
  <1>9. GlobalOK(<<>>, attempts, Cfg.global_connects_window, 0)
    <2> DEFINE f == [j \in 1 .. Len(<<>>) |-> <<j, j>>]
    <2>1. Matches(f, <<>>, attempts, Cfg.global_connects_window, 0)
      BY <1>1, <1>2 DEF Matches
    <2> QED
      BY <1>3, <2>1 DEF GlobalOK
  <1> QED
    BY <1>1, <1>4, <1>8, <1>9 DEF WindowInv, WindowsOK

\* A row as time goes by.
LEMMA RowTick ==
    ASSUME NEW st \in IpState, NEW A, NEW C, NEW time \in Nat,
           LogOK(A, C, time), RowOK(st, A, C, time)
    PROVE  LogOK(A, C, time + 1) /\ RowOK(st, A, C, time + 1)
  <1>1. A \in Seq(Attempt) /\ InOrder(A, time) /\ C \in Seq(Charge) /\ InOrder(C, time)
    BY DEF LogOK
  <1>2. Times(A) \in Seq(Stamp) /\ InOrder(Times(A), time)
    BY <1>1, TimesOf
  <1>3. st.connects \in Seq(Stamp) /\ st.dests \in Seq(Attempt) /\ st.bytes \in Seq(Charge)
    BY RowFields
  <1>4. Window(st.connects, Times(A), Cfg.connects_per_ip_window, time + 1)
    BY <1>2, <1>3, WindowsNat, WindowTick DEF RowOK
  <1>5. Window(st.dests, A, Cfg.distinct_dests_window, time + 1) /\ InOrder(A, time + 1)
    BY <1>1, <1>3, WindowsNat, WindowTick DEF RowOK
  <1>6. Window(st.bytes, C, Cfg.bytes_window, time + 1) /\ InOrder(C, time + 1)
    BY <1>1, <1>3, WindowsNat, WindowTick DEF RowOK
  <1> QED
    BY <1>1, <1>4, <1>5, <1>6 DEF RowOK, LogOK

\* The whole state as time goes by.
LEMMA TickOK ==
    ASSUME NEW g, IsInner(g), NEW at, NEW ch, NEW time \in Nat,
           LogsOK(at, ch, time), WindowsOK(g, at, ch, time)
    PROVE  LogsOK(at, ch, time + 1) /\ WindowsOK(g, at, ch, time + 1)
  <1>1. \A k \in Keys :
           /\ LogOK(at[k], ch[k], time + 1)
           /\ RowOK(Lookup(g.per_ip, k, DefaultIpState), at[k], ch[k], time + 1)
    BY LookupType, RowTick DEF LogsOK, WindowsOK
  <1>2. g.global_connects \in Seq(Stamp) /\ at \in [Keys -> Seq(Attempt)]
    BY DEF IsInner, Stamp, LogsOK
  <1>3. GlobalOK(g.global_connects, at, Cfg.global_connects_window, time + 1)
    BY <1>2, WindowsNat, GlobalTick DEF WindowsOK
  <1> QED
    BY <1>1, <1>3 DEF LogsOK, WindowsOK

\* An admission is the last entry of its log.
LEMMA LogsAppend ==
    ASSUME NEW at, NEW ch, NEW time \in Nat, LogsOK(at, ch, time), NEW k \in Keys
    PROVE  /\ \A d \in Dests : LogsOK(WithAttempt(at, time, k, d), ch, time)
           /\ \A n \in Nat : LogsOK(at, WithCharge(ch, time, k, n), time)
  <1>1. /\ at \in [Keys -> Seq(Attempt)] /\ ch \in [Keys -> Seq(Charge)]
        /\ \A x \in Keys : LogOK(at[x], ch[x], time)
    BY DEF LogsOK
  <1>2. \A x \in Keys : /\ at[x] \in Seq(Attempt) /\ InOrder(at[x], time)
                        /\ ch[x] \in Seq(Charge) /\ InOrder(ch[x], time)
    BY <1>1 DEF LogOK
  <1>3. ASSUME NEW d \in Dests PROVE LogsOK(WithAttempt(at, time, k, d), ch, time)
    <2> DEFINE e == [t |-> time, dest |-> d]
    <2>1. e \in Attempt /\ e.t = time
      BY DEF Attempt
    <2> HIDE DEF e
    <2>2. Append(at[k], e) \in Seq(Attempt)
      BY <1>2, <2>1, AppendProperties
    <2>3. Window(at[k], at[k], 0, time)
      BY <1>2 DEF Window, EndOf
    <2>4. InOrder(Append(at[k], e), time)
      BY <1>2, <2>1, <2>3, WindowAppend
    <2>5. /\ WithAttempt(at, time, k, d) \in [Keys -> Seq(Attempt)]
          /\ \A x \in Keys : WithAttempt(at, time, k, d)[x]
                                = IF x = k THEN Append(at[k], e) ELSE at[x]
      BY <1>1, <2>2 DEF WithAttempt, e
    <2> QED
      BY <1>1, <1>2, <2>2, <2>4, <2>5 DEF LogsOK, LogOK
  <1>4. ASSUME NEW n \in Nat PROVE LogsOK(at, WithCharge(ch, time, k, n), time)
    <2> DEFINE e == [t |-> time, n |-> n]
    <2>1. e \in Charge /\ e.t = time
      BY DEF Charge
    <2> HIDE DEF e
    <2>2. Append(ch[k], e) \in Seq(Charge)
      BY <1>2, <2>1, AppendProperties
    <2>3. Window(ch[k], ch[k], 0, time)
      BY <1>2 DEF Window, EndOf
    <2>4. InOrder(Append(ch[k], e), time)
      BY <1>2, <2>1, <2>3, WindowAppend
    <2>5. /\ WithCharge(ch, time, k, n) \in [Keys -> Seq(Charge)]
          /\ \A x \in Keys : WithCharge(ch, time, k, n)[x]
                                = IF x = k THEN Append(ch[k], e) ELSE ch[x]
      BY <1>1, <2>2 DEF WithCharge, e
    <2> QED
      BY <1>1, <1>2, <2>2, <2>4, <2>5 DEF LogsOK, LogOK
  <1> QED
    BY <1>3, <1>4

\* Every call, and every tick of the clock, keeps the windows.
LEMMA StepWindows == TypeOK /\ WindowInv /\ [Next]_vars => WindowInv'
  <1> SUFFICES ASSUME TypeOK, WindowInv, [Next]_vars
               PROVE  WindowInv'
    OBVIOUS
  <1>1. /\ IsInner(inner) /\ now \in Nat
        /\ LogsOK(attempts, charges, now)
        /\ WindowsOK(inner, attempts, charges, now)
    BY DEF TypeOK, WindowInv
  <1>2. CASE Tick
    <2>1. LogsOK(attempts, charges, now + 1) /\ WindowsOK(inner, attempts, charges, now + 1)
      BY <1>1, TickOK
    <2> QED
      BY <1>2, <2>1 DEF Tick, WindowInv
  <1>3. ASSUME NEW a \in Addrs, NEW d \in Dests, RecordAttempt(a, d)
        PROVE  WindowInv'
    <2> DEFINE k == LimitKey[a]
               r == record_attempt(inner, now, k, d)
    <2>1. k \in Keys
      BY LimitKeyAssumption
    <2>2. IF r.res = "Ok"
          THEN WindowsOK(r.g, WithAttempt(attempts, now, k, d), charges, now)
          ELSE WindowsOK(r.g, attempts, charges, now)
      BY <1>1, <2>1, RecordAttemptOK
    <2>3. LogsOK(WithAttempt(attempts, now, k, d), charges, now)
      BY <1>1, <2>1, LogsAppend
    <2>4. /\ inner' = r.g /\ now' = now /\ charges' = charges
          /\ attempts' = IF r.res = "Ok" THEN WithAttempt(attempts, now, k, d) ELSE attempts
      BY <1>3 DEF RecordAttempt, WithAttempt
    <2> HIDE DEF r, k
    <2> QED
      BY <1>1, <2>2, <2>3, <2>4 DEF WindowInv
  <1>4. ASSUME NEW s \in Sessions, NEW a \in Addrs, NEW d \in Dests, Acquire(s, a, d)
        PROVE  WindowInv'
    <2>1. LimitKey[a] \in Keys
      BY LimitKeyAssumption
    <2>2. WindowsOK(acquire(inner, now, LimitKey[a], d).g, attempts, charges, now)
      BY <1>1, <2>1, AcquireOK
    <2> QED
      BY <1>1, <1>4, <2>2 DEF Acquire, WindowInv
  <1>5. ASSUME NEW s \in Sessions, Release(s)
        PROVE  WindowInv'
    <2>1. leases[s].ip \in Keys /\ leases[s].dest \in Dests
      BY <1>5 DEF TypeOK, Release, Lease
    <2>2. WindowsOK(release(inner, now, leases[s].ip, leases[s].dest), attempts, charges, now)
      BY <1>1, <2>1, ReleaseOK
    <2> QED
      BY <1>1, <1>5, <2>2 DEF Release, WindowInv
  <1>6. ASSUME NEW s \in Sessions, NEW n \in ByteSizes, AddBytes(s, n)
        PROVE  WindowInv'
    <2> DEFINE k == leases[s].ip
               r == add_bytes(inner, now, k, n)
               cu == ChargedAt(charges, now, k, n)
    <2>1. k \in Keys /\ n \in Nat
      BY <1>6, ByteSizesAssumption DEF TypeOK, AddBytes, Lease
    <2>2. IF r.res = "Ok" THEN WindowsOK(r.g, attempts, cu, now)
          ELSE WindowsOK(r.g, attempts, charges, now)
      BY <1>1, <2>1, AddBytesOK
    <2>3. LogsOK(attempts, cu, now)
      BY <1>1, <2>1, LogsAppend DEF ChargedAt
    <2>4. /\ inner' = r.g /\ now' = now /\ attempts' = attempts
          /\ charges' = IF r.res = "Ok" THEN cu ELSE charges
      BY <1>6 DEF AddBytes, ChargedAt, WithCharge
    <2> HIDE DEF r, k, cu
    <2> QED
      BY <1>1, <2>2, <2>3, <2>4 DEF WindowInv
  <1>7. CASE UNCHANGED vars
    BY <1>1, <1>7 DEF vars, WindowInv
  <1> QED
    BY <1>2, <1>3, <1>4, <1>5, <1>6, <1>7 DEF Next

\* In every reachable state the queues are the ends of the logs.
THEOREM WindowsHold == Spec => []WindowInv
  <1> QED
    BY InitWindows, StepWindows, TypeCorrect, PTL DEF Spec

-----------------------------------------------------------------------------
(* The promise of Admission.tla in these terms. *)

\* What the promise calls recent.
LEMMA PromiseRecent ==
    \A log, w : Promise!Recent(log, w) = RecentAt(log, w, now)
  BY DEF Promise!Recent, RecentAt

\* The attempts and destinations of one prefix.
LEMMA PromiseOfPrefix ==
    ASSUME NEW k
    PROVE  /\ Promise!ConnectsOf(k)
                 = Cardinality(RecentAt(attempts[k], Cfg.connects_per_ip_window, now))
           /\ Promise!DestsOf(k) = DestsAt(attempts, k, now)
  BY PromiseRecent, PromiseCardinality DEF Promise!ConnectsOf, Promise!DestsOf, DestsAt

\* The attempts of all prefixes together.
LEMMA PromiseOfAll == Promise!ConnectsOfAll = AllAt(attempts, now)
  <1> DEFINE W == Cfg.global_connects_window
             v == [x \in Keys |-> Cardinality(RecentAt(attempts[x], W, now))]
             f == CHOOSE iter :
                     iter = [s \in SUBSET Keys |->
                               IF s = {} THEN 0
                               ELSE Promise!Cardinality(
                                       Promise!Recent(attempts[CHOOSE x \in s : TRUE], W))
                                      + iter[s \ {CHOOSE x \in s : TRUE}]]
  <1>1. Promise!ConnectsOfAll = f[Keys]
    BY Zenon DEF Promise!ConnectsOfAll, Promise!MapThenSumSet, Promise!MapThenFoldSet
  <1>2. \A s \in SUBSET Keys :
           s # {} => Promise!Cardinality(Promise!Recent(attempts[Pick(s)], W)) = v[Pick(s)]
    BY PickIn, PromiseRecent, PromiseCardinality
  <1> HIDE DEF v
  <1>3. \A g : [s \in SUBSET Keys |->
                  IF s = {} THEN 0
                  ELSE Promise!Cardinality(Promise!Recent(attempts[Pick(s)], W))
                         + g[s \ {Pick(s)}]]
             = [s \in SUBSET Keys |-> IF s = {} THEN 0 ELSE v[Pick(s)] + g[s \ {Pick(s)}]]
    BY <1>2
  <1>4. PICK g : SumsUp(g, v, Keys)
    BY KeysAssumption, SumsExist
  <1>5. SumsUp(f, v, Keys)
    <2>1. g = [s \in SUBSET Keys |->
                 IF s = {} THEN 0
                 ELSE Promise!Cardinality(Promise!Recent(attempts[Pick(s)], W))
                        + g[s \ {Pick(s)}]]
      BY <1>3, <1>4 DEF SumsUp
    <2>2. f = [s \in SUBSET Keys |->
                 IF s = {} THEN 0
                 ELSE Promise!Cardinality(Promise!Recent(attempts[Pick(s)], W))
                        + f[s \ {Pick(s)}]]
      BY <2>1, Zenon DEF Pick
    <2> HIDE DEF f
    <2> QED
      BY <1>3, <2>2 DEF SumsUp
  <1> HIDE DEF f
  <1>6. Total(v, Keys) = f[Keys]
    BY <1>5, KeysAssumption, TotalIsSum
  <1> QED
    BY <1>1, <1>6 DEF AllAt, v

\* The bytes of one prefix.
LEMMA PromiseBytes == ASSUME NEW k PROVE Promise!BytesOf(k) = BytesAt(charges, k, now)
  <1>1. Promise!BytesOf(k)
           = BytesIn(charges[k], Promise!Recent(charges[k], Cfg.bytes_window))
    BY Zenon DEF Promise!BytesOf, BytesIn, MapThenSumSet, MapThenFoldSet,
                 Promise!MapThenSumSet, Promise!MapThenFoldSet
  <1> QED
    BY <1>1, PromiseRecent DEF BytesAt

\* When the promise admits an attempt.
LEMMA PromiseAllows ==
    ASSUME NEW k, NEW d
    PROVE  Promise!AttemptAllowed(k, d) <=> AllowedAt(attempts, now, k, d)
  BY PromiseOfPrefix, PromiseOfAll, PromiseCardinality
     DEF Promise!AttemptAllowed, AllowedAt, Promise!capped, capped

-----------------------------------------------------------------------------
(* What the windows give. *)

\* The verdicts in a state where the windows hold.
LEMMA WindowsGiveVerdicts == TypeOK /\ WindowInv => AttemptVerdict /\ ByteVerdict
  <1> SUFFICES ASSUME TypeOK, WindowInv PROVE AttemptVerdict /\ ByteVerdict
    OBVIOUS
  <1>1. /\ IsInner(inner) /\ now \in Nat
        /\ LogsOK(attempts, charges, now)
        /\ WindowsOK(inner, attempts, charges, now)
    BY DEF TypeOK, WindowInv
  <1>2. ASSUME NEW k \in Keys, NEW d \in Dests
        PROVE  LET ok == record_attempt(inner, now, k, d).res = "Ok" IN
               /\ ok => Promise!AttemptAllowed(k, d)
               /\ Promise!AttemptAllowed(k, d) /\ Cfg.max_tracked_ips = 0 => ok
    <2> DEFINE r == record_attempt(inner, now, k, d)
    <2>1. IF r.res = "Ok" THEN AllowedAt(attempts, now, k, d)
          ELSE Cfg.max_tracked_ips = 0 => ~AllowedAt(attempts, now, k, d)
      BY <1>1, RecordAttemptOK
    <2> HIDE DEF r
    <2> QED
      BY <2>1, PromiseAllows DEF r
  <1>3. ASSUME NEW k \in Keys, NEW n \in ByteSizes
        PROVE  (add_bytes(inner, now, k, n).res = "Ok") <=> Promise!ChargeAllowed(k, n)
    <2> DEFINE r == add_bytes(inner, now, k, n)
               room == \/ Cfg.max_bytes_per_ip = 0
                       \/ BytesAt(charges, k, now) + n <= Cfg.max_bytes_per_ip
    <2>1. n \in Nat
      BY ByteSizesAssumption
    <2>2. IF r.res = "Ok" THEN room ELSE ~room
      BY <1>1, <2>1, AddBytesOK
    <2>3. room <=> Promise!ChargeAllowed(k, n)
      BY PromiseBytes DEF Promise!ChargeAllowed
    <2> HIDE DEF r, room
    <2> QED
      BY <2>2, <2>3 DEF r
  <1>4. AttemptVerdict
    BY <1>2 DEF AttemptVerdict
  <1>5. ByteVerdict
    BY <1>3 DEF ByteVerdict
  <1> QED
    BY <1>4, <1>5

\* record_attempt admits nothing that the sliding windows over the full history
\* forbid, and refuses nothing they allow when rows are not capped.
THEOREM AttemptsJudgedExactly == Spec => []AttemptVerdict
  <1> QED
    BY WindowsHold, TypeCorrect, WindowsGiveVerdicts, PTL

\* add_bytes accepts a message exactly when the bytes of the last window leave
\* room for it.
THEOREM BytesJudgedExactly == Spec => []ByteVerdict
  <1> QED
    BY WindowsHold, TypeCorrect, WindowsGiveVerdicts, PTL

\* The rows gc_idle keeps, in a state where the counters and windows are right.
LEMMA WindowsGiveGc == TypeOK /\ LeaseAccounting /\ WindowInv => GcExact
  <1> SUFFICES ASSUME TypeOK, LeaseAccounting, WindowInv PROVE GcExact
    OBVIOUS
  <1> DEFINE g == inner
             pruned == [k \in DOMAIN g.per_ip |-> prune(g.per_ip[k], now)]
             idle == {k \in DOMAIN pruned : is_idle(pruned[k])}
             needed(k) == \/ Promise!LiveOfIp(k) # {}
                          \/ Promise!ConnectsOf(k) > 0
                          \/ Promise!DestsOf(k) # {}
                          \/ Promise!Recent(charges[k], Cfg.bytes_window) # {}
  <1>1. /\ IsInner(g) /\ now \in Nat
        /\ LogsOK(attempts, charges, now)
        /\ WindowsOK(g, attempts, charges, now)
        /\ \A k \in Keys : Conns(g, k) = Cardinality(Promise!LiveOfIp(k))
    BY AccountingConns DEF TypeOK, WindowInv
  <1>2. DOMAIN gc_idle(g, now).per_ip = DOMAIN g.per_ip \ idle
    <2>1. IsInner(prune_global(g, now))
      BY <1>1, PruneGlobalSame DEF SameCounts
    <2>2. gc_idle(g, now).per_ip = Drop(pruned, idle)
      BY <2>1 DEF gc_idle, IsInner
    <2> QED
      BY <2>2 DEF Drop
  <1>3. ASSUME NEW k \in Keys
        PROVE  LET st == prune(Lookup(g.per_ip, k, DefaultIpState), now)
               IN  is_idle(st) <=> ~needed(k)
    <2> DEFINE st0 == Lookup(g.per_ip, k, DefaultIpState)
               st == prune(st0, now)
               RC == RecentAt(attempts[k], Cfg.connects_per_ip_window, now)
               RD == RecentAt(attempts[k], Cfg.distinct_dests_window, now)
               RB == RecentAt(charges[k], Cfg.bytes_window, now)
    <2>1. st \in IpState /\ RowOK(st, attempts[k], charges[k], now) /\ RowFresh(st, now)
      BY <1>1, PrunedRow
    <2>2. LogOK(attempts[k], charges[k], now)
      BY <1>1 DEF LogsOK
    <2>3. st.connections = Cardinality(Promise!LiveOfIp(k))
      BY <1>1, LookupType, PruneRow DEF Conns
    <2>4. /\ st.connects = <<>> <=> RC = {}
          /\ st.dests = <<>> <=> RD = {}
          /\ st.bytes = <<>> <=> RB = {}
          /\ Len(st.connects) = Cardinality(RC)
      BY <1>1, <2>1, <2>2, FreshRow
    <2>5. st.connections = 0 <=> Promise!LiveOfIp(k) = {}
      BY <2>3, LiveFinite, FS_EmptySet
    <2>6. Promise!ConnectsOf(k) > 0 <=> RC # {}
      <3>1. Len(st.connects) \in Nat /\ (st.connects = <<>> <=> Len(st.connects) = 0)
        BY <2>1, RowFields, EmptySeq
      <3>2. Promise!ConnectsOf(k) = Cardinality(RC)
        BY PromiseOfPrefix
      <3> HIDE DEF st, RC
      <3> QED
        BY <2>4, <3>1, <3>2
    <2>7. Promise!DestsOf(k) # {} <=> RD # {}
      <3>1. Promise!DestsOf(k) = {attempts[k][i].dest : i \in RD}
        BY PromiseOfPrefix DEF DestsAt
      <3> HIDE DEF RD
      <3> QED
        BY <3>1
    <2>8. Promise!Recent(charges[k], Cfg.bytes_window) = RB
      BY PromiseRecent
    <2> HIDE DEF st, RC, RD, RB
    <2>9. is_idle(st) <=> ~needed(k)
      BY <2>4, <2>5, <2>6, <2>7, <2>8 DEF is_idle
    <2> QED
      BY <2>9 DEF st
  <1>4. ASSUME NEW k \in Keys
        PROVE  k \in DOMAIN g.per_ip \ idle <=> needed(k)
    <2> DEFINE st == prune(Lookup(g.per_ip, k, DefaultIpState), now)
    <2>1. is_idle(st) <=> ~needed(k)
      BY <1>3
    <2> HIDE DEF needed
    <2>2. CASE k \in DOMAIN g.per_ip
      <3>1. pruned[k] = st
        BY <2>2 DEF Lookup
      <3> HIDE DEF st
      <3> QED
        BY <2>1, <2>2, <3>1
    <2>3. CASE k \notin DOMAIN g.per_ip
      <3>1. st = prune(DefaultIpState, now) /\ DefaultIpState \in IpState
        BY <2>3, DefaultType DEF Lookup
      <3>2. is_idle(st)
        <4>1. /\ DefaultIpState.connections = 0 /\ DefaultIpState.connects = <<>>
              /\ DefaultIpState.dests = <<>> /\ DefaultIpState.bytes = <<>>
          BY DEF DefaultIpState
        <4>2. \A time, w : prune_queue(<<>>, time, w) = <<>>
          <5> TAKE time, w
          <5>1. Len(<<>>) = 0 /\ <<>> \in Seq(Stamp) /\ DOMAIN <<>> = {}
            BY EmptySeq
          <5>2. Fresh(<<>>, time, w) = {}
            BY <5>1 DEF Fresh
          <5>3. popped(<<>>, time, w) = 0
            BY <5>1, <5>2 DEF popped
          <5>4. prune_queue(<<>>, time, w) \in Seq(Stamp)
            BY <5>1, PruneQueueType
          <5>5. prune_queue(<<>>, time, w) = SubSeq(<<>>, 0 + 1, 0)
            BY <5>1, <5>3 DEF prune_queue
          <5>6. \A i \in 0 + 1 .. 0 : <<>>[i] \in Stamp
            OBVIOUS
          <5>7. Len(SubSeq(<<>>, 0 + 1, 0)) = 0
            BY <5>1, <5>6, SubSeqProperties
          <5> QED
            BY <5>4, <5>5, <5>7, EmptySeq
        <4> QED
          BY <3>1, <4>1, <4>2 DEF is_idle, prune
      <3> QED
        BY <2>1, <2>3, <3>2
    <2> QED
      BY <2>2, <2>3
  <1>5. DOMAIN g.per_ip \subseteq Keys
    BY <1>1 DEF IsInner
  <1> HIDE DEF needed, idle
  <1>6. DOMAIN gc_idle(g, now).per_ip = {k \in Keys : needed(k)}
    BY <1>2, <1>4, <1>5
  <1> QED
    BY <1>6 DEF GcExact, needed

\* gc_idle keeps exactly the rows that still matter, in every reachable state.
THEOREM CollectionExact == Spec => []GcExact
  <1> QED
    BY WindowsHold, TypeCorrect, LeasesCounted, WindowsGiveGc, PTL

-----------------------------------------------------------------------------
(* No window ever holds more than its cap. *)

Fits(limit, used) == limit = 0 \/ used <= limit

\* The attempts inside the windows that end at time are within the caps.
RatesAt(at, time) ==
    /\ Fits(Cfg.global_connects, AllAt(at, time))
    /\ \A k \in Keys :
          /\ Fits(Cfg.connects_per_ip,
                  Cardinality(RecentAt(at[k], Cfg.connects_per_ip_window, time)))
          /\ Fits(Cfg.distinct_dests_per_ip, Cardinality(DestsAt(at, k, time)))

\* Fewer fit where more did.
LEMMA FitsLess ==
    ASSUME NEW limit \in Nat, NEW a \in Nat, NEW b \in Nat, a <= b, Fits(limit, b)
    PROVE  Fits(limit, a)
  BY DEF Fits

\* One more fits where the cap was not reached.
LEMMA FitsMore ==
    ASSUME NEW limit \in Nat, NEW a \in Nat, ~capped(limit, a)
    PROVE  Fits(limit, a + 1)
  BY DEF Fits, capped

\* The caps are natural numbers.
LEMMA CapsNat ==
    /\ Cfg.global_connects \in Nat /\ Cfg.connects_per_ip \in Nat
    /\ Cfg.distinct_dests_per_ip \in Nat /\ Cfg.max_bytes_per_ip \in Nat
  BY CfgAssumption DEF LimitsConfig

\* What is recent in a log is a finite set of its indices.
LEMMA RecentFinite ==
    ASSUME NEW S, NEW log \in Seq(S), NEW w, NEW time
    PROVE  /\ RecentAt(log, w, time) \in SUBSET (1 .. Len(log))
           /\ IsFiniteSet(RecentAt(log, w, time))
           /\ Cardinality(RecentAt(log, w, time)) \in Nat
  <1>1. RecentAt(log, w, time) \in SUBSET (1 .. Len(log))
    BY DEF RecentAt
  <1>2. IsFiniteSet(1 .. Len(log))
    BY IntervalFinite
  <1> QED
    BY <1>1, <1>2, FS_Subset, FS_CardinalityType

\* As time goes by less is recent.
LEMMA RecentTick ==
    ASSUME NEW log, NEW w \in Nat, NEW time \in Nat, \A i \in DOMAIN log : log[i].t \in Nat
    PROVE  RecentAt(log, w, time + 1) \subseteq RecentAt(log, w, time)
  BY DEF RecentAt

\* An admission is recent, and what was recent stays so.
LEMMA RecentAppend ==
    ASSUME NEW S, NEW log \in Seq(S), NEW e \in S, NEW w \in Nat, NEW time \in Nat, e.t = time
    PROVE  /\ RecentAt(Append(log, e), w, time) = RecentAt(log, w, time) \cup {Len(log) + 1}
           /\ Len(log) + 1 \notin RecentAt(log, w, time)
  <1> DEFINE L == Append(log, e)
  <1>1. /\ DOMAIN L = 1 .. Len(log) + 1 /\ DOMAIN log = 1 .. Len(log) /\ Len(log) \in Nat
        /\ \A i \in 1 .. Len(log) : L[i] = log[i]
        /\ L[Len(log) + 1] = e
    BY AppendProperties
  <1>2. time - L[Len(log) + 1].t <= w
    BY <1>1
  <1> HIDE DEF L
  <1>3. RecentAt(L, w, time) = RecentAt(log, w, time) \cup {Len(log) + 1}
    BY <1>1, <1>2 DEF RecentAt
  <1> QED
    BY <1>1, <1>3 DEF L, RecentAt

\* The destinations of a set of entries are finitely many.
LEMMA DestsFinite ==
    ASSUME NEW at \in [Keys -> Seq(Attempt)], NEW k \in Keys, NEW time
    PROVE  IsFiniteSet(DestsAt(at, k, time)) /\ Cardinality(DestsAt(at, k, time)) \in Nat
  <1> DEFINE R == RecentAt(at[k], Cfg.distinct_dests_window, time)
             f == [i \in R |-> at[k][i].dest]
  <1>1. IsFiniteSet(R)
    BY RecentFinite
  <1>2. f \in Surjection(R, DestsAt(at, k, time))
    <2>1. f \in [R -> DestsAt(at, k, time)]
      BY DEF DestsAt
    <2>2. \A y \in DestsAt(at, k, time) : \E i \in R : f[i] = y
      BY DEF DestsAt
    <2> HIDE DEF f, R
    <2> QED
      BY <2>1, <2>2, Fun_IsSurj
  <1> HIDE DEF f, R
  <1>3. IsFiniteSet(DestsAt(at, k, time))
    BY <1>1, <1>2, FS_Surjection
  <1> QED
    BY <1>3, FS_CardinalityType

\* The total of all prefixes is a natural number.
LEMMA AllNat ==
    ASSUME NEW at \in [Keys -> Seq(Attempt)], NEW time
    PROVE  /\ AllAt(at, time) \in Nat
           /\ \A x \in Keys :
                Cardinality(RecentAt(at[x], Cfg.global_connects_window, time)) \in Nat
  <1> DEFINE v == [x \in Keys |-> Cardinality(RecentAt(at[x], Cfg.global_connects_window, time))]
  <1>1. \A x \in Keys :
           Cardinality(RecentAt(at[x], Cfg.global_connects_window, time)) \in Nat
    BY RecentFinite
  <1>2. \A x \in Keys : v[x] \in Nat
    BY <1>1
  <1> HIDE DEF v
  <1>3. Total(v, Keys) \in Nat
    BY <1>2, KeysAssumption, TotalType
  <1> QED
    BY <1>1, <1>3 DEF AllAt, v

\* Rates only go down as time goes by.
LEMMA RatesTick ==
    ASSUME NEW at \in [Keys -> Seq(Attempt)], NEW time \in Nat, RatesAt(at, time)
    PROVE  RatesAt(at, time + 1)
  <1>1. \A k \in Keys : \A i \in DOMAIN at[k] : at[k][i].t \in Nat
    <2>1. \A k \in Keys : \A i \in DOMAIN at[k] : at[k][i] \in Attempt
      OBVIOUS
    <2> QED
      BY <2>1 DEF Attempt
  <1>2. ASSUME NEW k \in Keys, NEW w \in Nat
        PROVE  /\ RecentAt(at[k], w, time + 1) \subseteq RecentAt(at[k], w, time)
               /\ Cardinality(RecentAt(at[k], w, time + 1)) \in Nat
               /\ Cardinality(RecentAt(at[k], w, time)) \in Nat
               /\ Cardinality(RecentAt(at[k], w, time + 1))
                     <= Cardinality(RecentAt(at[k], w, time))
    <2>1. RecentAt(at[k], w, time + 1) \subseteq RecentAt(at[k], w, time)
      BY <1>1, RecentTick
    <2>2. /\ IsFiniteSet(RecentAt(at[k], w, time))
          /\ Cardinality(RecentAt(at[k], w, time + 1)) \in Nat
          /\ Cardinality(RecentAt(at[k], w, time)) \in Nat
      BY RecentFinite
    <2> QED
      BY <2>1, <2>2, FS_Subset
  <1>3. Fits(Cfg.global_connects, AllAt(at, time + 1))
    <2> DEFINE W == Cfg.global_connects_window
               v == [x \in Keys |-> Cardinality(RecentAt(at[x], W, time))]
               u == [x \in Keys |-> Cardinality(RecentAt(at[x], W, time + 1))]
    <2>1. \A x \in Keys : u[x] \in Nat /\ v[x] \in Nat /\ u[x] <= v[x]
      BY <1>2, WindowsNat
    <2>2. AllAt(at, time) = Total(v, Keys) /\ AllAt(at, time + 1) = Total(u, Keys)
      BY DEF AllAt
    <2> HIDE DEF u, v
    <2>3. Total(u, Keys) <= Total(v, Keys)
      BY <2>1, KeysAssumption, TotalLeq
    <2>4. Total(u, Keys) \in Nat /\ Total(v, Keys) \in Nat
      BY <2>1, KeysAssumption, TotalType
    <2> QED
      BY <2>2, <2>3, <2>4, CapsNat, FitsLess DEF RatesAt
  <1>4. ASSUME NEW k \in Keys
        PROVE  /\ Fits(Cfg.connects_per_ip,
                       Cardinality(RecentAt(at[k], Cfg.connects_per_ip_window, time + 1)))
               /\ Fits(Cfg.distinct_dests_per_ip, Cardinality(DestsAt(at, k, time + 1)))
    <2>1. Fits(Cfg.connects_per_ip,
               Cardinality(RecentAt(at[k], Cfg.connects_per_ip_window, time + 1)))
      BY <1>2, WindowsNat, CapsNat, FitsLess DEF RatesAt
    <2>2. DestsAt(at, k, time + 1) \subseteq DestsAt(at, k, time)
      BY <1>2, WindowsNat DEF DestsAt
    <2>3. Cardinality(DestsAt(at, k, time + 1)) <= Cardinality(DestsAt(at, k, time))
      BY <2>2, DestsFinite, FS_Subset
    <2>4. Fits(Cfg.distinct_dests_per_ip, Cardinality(DestsAt(at, k, time + 1)))
      BY <2>3, DestsFinite, CapsNat, FitsLess DEF RatesAt
    <2> QED
      BY <2>1, <2>4
  <1> QED
    BY <1>3, <1>4 DEF RatesAt

\* An allowed attempt leaves the rates within the caps.
LEMMA RatesAttempt ==
    ASSUME NEW at \in [Keys -> Seq(Attempt)], NEW time \in Nat, RatesAt(at, time),
           NEW k \in Keys, NEW d \in Dests, AllowedAt(at, time, k, d)
    PROVE  RatesAt(WithAttempt(at, time, k, d), time)
  <1> DEFINE e == [t |-> time, dest |-> d]
             au == WithAttempt(at, time, k, d)
             L == Append(at[k], e)
             R(w) == RecentAt(at[k], w, time)
             N == Len(at[k]) + 1
  <1>1. e \in Attempt /\ e.t = time /\ e.dest = d /\ at[k] \in Seq(Attempt)
    BY DEF Attempt
  <1>2. au[k] = L /\ \A x \in Keys : x # k => au[x] = at[x]
    BY DEF WithAttempt
  <1>3. /\ \A i \in 1 .. Len(at[k]) : L[i] = at[k][i]
        /\ L[N] = e
    BY <1>1, AppendProperties
  <1> HIDE DEF e, L, au, N
  <1>4. ASSUME NEW w \in Nat
        PROVE  /\ RecentAt(L, w, time) = R(w) \cup {N} /\ N \notin R(w)
               /\ R(w) \in SUBSET (1 .. Len(at[k])) /\ IsFiniteSet(R(w))
               /\ Cardinality(R(w)) \in Nat
               /\ Cardinality(RecentAt(L, w, time)) = Cardinality(R(w)) + 1
    <2>1. RecentAt(L, w, time) = R(w) \cup {N} /\ N \notin R(w)
      BY <1>1, RecentAppend DEF L, N
    <2>2. /\ R(w) \in SUBSET (1 .. Len(at[k])) /\ IsFiniteSet(R(w))
          /\ Cardinality(R(w)) \in Nat
      BY <1>1, RecentFinite
    <2>3. Cardinality(R(w) \cup {N}) = Cardinality(R(w)) + 1
      BY <2>1, <2>2, FS_AddElement
    <2> QED
      BY <2>1, <2>2, <2>3
  <1>5. Fits(Cfg.global_connects, AllAt(au, time))
    <2> DEFINE W == Cfg.global_connects_window
               v == [x \in Keys |-> Cardinality(RecentAt(at[x], W, time))]
               u == [x \in Keys |-> Cardinality(RecentAt(au[x], W, time))]
    <2>1. /\ \A x \in Keys : v[x] \in Nat
          /\ u[k] = v[k] + 1
          /\ \A x \in Keys : x # k => u[x] = v[x]
      BY <1>2, <1>4, AllNat, WindowsNat
    <2>2. AllAt(at, time) = Total(v, Keys) /\ AllAt(au, time) = Total(u, Keys)
      BY DEF AllAt
    <2> HIDE DEF u, v
    <2>3. Total(u, Keys) = Total(v, Keys) + 1
      BY <2>1, KeysAssumption, TotalBump
    <2>4. Total(v, Keys) \in Nat
      BY <2>1, KeysAssumption, TotalType
    <2>5. ~capped(Cfg.global_connects, Total(v, Keys))
      BY <2>2 DEF AllowedAt
    <2> QED
      BY <2>2, <2>3, <2>4, <2>5, CapsNat, FitsMore
  <1>6. Fits(Cfg.connects_per_ip,
             Cardinality(RecentAt(au[k], Cfg.connects_per_ip_window, time)))
    <2> DEFINE c == Cardinality(R(Cfg.connects_per_ip_window))
    <2>1. Cardinality(RecentAt(au[k], Cfg.connects_per_ip_window, time)) = c + 1 /\ c \in Nat
      BY <1>2, <1>4, WindowsNat
    <2>2. ~capped(Cfg.connects_per_ip, c)
      BY DEF AllowedAt
    <2> HIDE DEF c
    <2> QED
      BY <2>1, <2>2, CapsNat, FitsMore
  <1>7. Fits(Cfg.distinct_dests_per_ip, Cardinality(DestsAt(au, k, time)))
    <2> DEFINE W == Cfg.distinct_dests_window
               D == DestsAt(at, k, time)
    <2>1. /\ RecentAt(L, W, time) = R(W) \cup {N}
          /\ R(W) \in SUBSET (1 .. Len(at[k]))
      BY <1>4, WindowsNat
    <2>2. DestsAt(au, k, time) = D \cup {d}
      <3>1. DestsAt(au, k, time) = {L[i].dest : i \in R(W) \cup {N}}
        BY <1>2, <2>1 DEF DestsAt
      <3>2. \A i \in R(W) : L[i] = at[k][i]
        BY <1>3, <2>1
      <3>3. L[N].dest = d
        BY <1>1, <1>3
      <3>4. D = {at[k][i].dest : i \in R(W)}
        BY DEF DestsAt
      <3> HIDE DEF R, D
      <3> QED
        BY <3>1, <3>2, <3>3, <3>4
    <2>3. IsFiniteSet(D) /\ Cardinality(D) \in Nat
      BY DestsFinite
    <2>4. Fits(Cfg.distinct_dests_per_ip, Cardinality(D))
      BY DEF RatesAt
    <2>5. d \in D \/ ~capped(Cfg.distinct_dests_per_ip, Cardinality(D))
      BY DEF AllowedAt
    <2> HIDE DEF D
    <2>6. Cardinality(D \cup {d}) = IF d \in D THEN Cardinality(D) ELSE Cardinality(D) + 1
      BY <2>3, FS_AddElement
    <2>7. CASE d \in D
      BY <2>2, <2>4, <2>6, <2>7
    <2>8. CASE d \notin D
      BY <2>2, <2>3, <2>5, <2>6, <2>8, CapsNat, FitsMore
    <2> QED
      BY <2>7, <2>8
  <1>8. \A x \in Keys : x # k =>
           /\ Fits(Cfg.connects_per_ip,
                   Cardinality(RecentAt(au[x], Cfg.connects_per_ip_window, time)))
           /\ Fits(Cfg.distinct_dests_per_ip, Cardinality(DestsAt(au, x, time)))
    BY <1>2 DEF RatesAt, DestsAt
  <1>9. RatesAt(au, time)
    BY <1>5, <1>6, <1>7, <1>8 DEF RatesAt
  <1> QED
    BY <1>9 DEF au


\* Nothing was admitted, so every rate is 0.
LEMMA RatesEmpty ==
    ASSUME NEW at, at = [k \in Keys |-> <<>>], NEW time \in Nat
    PROVE  RatesAt(at, time)
  <1>1. <<>> \in Seq(Attempt) /\ Len(<<>>) = 0
    BY EmptySeq
  <1>2. at \in [Keys -> Seq(Attempt)]
    BY <1>1
  <1>3. \A k \in Keys : \A w : RecentAt(at[k], w, time) = {}
    BY <1>1 DEF RecentAt
  <1>4. Cardinality({}) = 0
    BY FS_EmptySet
  <1>5. AllAt(at, time) = 0
    <2> DEFINE W == Cfg.global_connects_window
               R == [x \in Keys |-> RecentAt(at[x], W, time)]
               v == [x \in Keys |-> Cardinality(R[x])]
    <2>1. \A x \in Keys : R[x] = {} /\ IsFiniteSet(R[x])
      BY <1>3, FS_EmptySet
    <2>2. Pairs(R, Keys) = {}
      BY <2>1 DEF Pairs
    <2>3. Cardinality(Pairs(R, Keys)) = Total(v, Keys)
      BY <2>1, KeysAssumption, TotalOfSizes
    <2>4. v = [x \in Keys |-> Cardinality(RecentAt(at[x], W, time))]
      OBVIOUS
    <2> HIDE DEF v, R
    <2> QED
      BY <1>4, <2>2, <2>3, <2>4 DEF AllAt
  <1>6. \A k \in Keys : DestsAt(at, k, time) = {}
    BY <1>3 DEF DestsAt
  <1>7. \A limit \in Nat : Fits(limit, 0)
    BY DEF Fits
  <1> QED
    BY <1>3, <1>4, <1>5, <1>6, <1>7, CapsNat DEF RatesAt

\* What the promise says of the rates.
LEMMA PromiseRates == RatesWithinCaps <=> RatesAt(attempts, now)
  BY PromiseOfPrefix, PromiseOfAll, PromiseCardinality
     DEF RatesWithinCaps, Promise!RatesWithinCaps, Promise!Within, RatesAt, Fits

\* A step keeps the rates within the caps.
LEMMA StepRates ==
    TypeOK /\ WindowInv /\ RatesAt(attempts, now) /\ [Next]_vars => RatesAt(attempts, now)'
  <1> SUFFICES ASSUME TypeOK, WindowInv, RatesAt(attempts, now), [Next]_vars
               PROVE  RatesAt(attempts', now')
    OBVIOUS
  <1>1. /\ IsInner(inner) /\ now \in Nat
        /\ LogsOK(attempts, charges, now)
        /\ WindowsOK(inner, attempts, charges, now)
        /\ attempts \in [Keys -> Seq(Attempt)]
    BY DEF TypeOK, WindowInv, LogsOK
  <1>2. CASE Tick
    <2>1. RatesAt(attempts, now + 1)
      BY <1>1, RatesTick
    <2> QED
      BY <1>2, <2>1 DEF Tick
  <1>3. ASSUME NEW a \in Addrs, NEW d \in Dests, RecordAttempt(a, d)
        PROVE  RatesAt(attempts', now')
    <2> DEFINE k == LimitKey[a]
               r == record_attempt(inner, now, k, d)
    <2>1. k \in Keys
      BY LimitKeyAssumption
    <2>2. r.res = "Ok" => AllowedAt(attempts, now, k, d)
      BY <1>1, <2>1, RecordAttemptOK
    <2>3. /\ now' = now
          /\ attempts' = IF r.res = "Ok" THEN WithAttempt(attempts, now, k, d) ELSE attempts
      BY <1>3 DEF RecordAttempt, WithAttempt
    <2> HIDE DEF r, k
    <2>4. r.res = "Ok" => RatesAt(WithAttempt(attempts, now, k, d), now)
      BY <1>1, <2>1, <2>2, RatesAttempt
    <2> QED
      BY <2>3, <2>4
  <1>4. CASE UNCHANGED <<attempts, now>>
    BY <1>4
  <1> QED
    BY <1>2, <1>3, <1>4 DEF Next, vars, Acquire, Release, AddBytes

\* In no window ending at any instant do the attempts record_attempt admitted
\* exceed a cap, whatever was pruned and collected in between.
THEOREM RatesHold == Spec => []RatesWithinCaps
  <1>1. Init => RatesAt(attempts, now)
    BY RatesEmpty DEF Init
  <1>2. Spec => []RatesAt(attempts, now)
    BY <1>1, StepRates, TypeCorrect, WindowsHold, PTL DEF Spec
  <1> QED
    BY <1>2, PromiseRates, PTL

\* The bytes inside the windows that end at time are within the cap.
BytesFit(ch, time) == \A k \in Keys : Fits(Cfg.max_bytes_per_ip, BytesAt(ch, k, time))

\* The bytes of a prefix are a total over part of its log.
LEMMA BytesTotal ==
    ASSUME NEW ch \in [Keys -> Seq(Charge)], NEW k \in Keys, NEW time
    PROVE  LET R == RecentAt(ch[k], Cfg.bytes_window, time) IN
           /\ R \in SUBSET (1 .. Len(ch[k])) /\ IsFiniteSet(R)
           /\ \A i \in R : Sizes(ch[k])[i] \in Nat
           /\ BytesAt(ch, k, time) = Total(Sizes(ch[k]), R)
           /\ BytesAt(ch, k, time) \in Nat
  <1> DEFINE R == RecentAt(ch[k], Cfg.bytes_window, time)
  <1>1. R \in SUBSET (1 .. Len(ch[k])) /\ IsFiniteSet(R)
    BY RecentFinite
  <1> HIDE DEF R
  <1>2. \A i \in R : Sizes(ch[k])[i] \in Nat
    BY <1>1, SizesType
  <1>3. BytesIn(ch[k], R) = Total(Sizes(ch[k]), R)
    BY <1>1, BytesInTotal
  <1>4. Total(Sizes(ch[k]), R) \in Nat
    BY <1>1, <1>2, TotalType
  <1> QED
    BY <1>1, <1>2, <1>3, <1>4 DEF BytesAt, R

\* Bytes only go out of a window as time goes by.
LEMMA BytesTick ==
    ASSUME NEW ch \in [Keys -> Seq(Charge)], NEW time \in Nat, BytesFit(ch, time)
    PROVE  BytesFit(ch, time + 1)
  <1> SUFFICES ASSUME NEW k \in Keys
               PROVE  Fits(Cfg.max_bytes_per_ip, BytesAt(ch, k, time + 1))
    BY DEF BytesFit
  <1> DEFINE R == RecentAt(ch[k], Cfg.bytes_window, time)
             T == RecentAt(ch[k], Cfg.bytes_window, time + 1)
             w == Sizes(ch[k])
  <1>1. \A i \in DOMAIN ch[k] : ch[k][i].t \in Nat
    <2>1. \A i \in DOMAIN ch[k] : ch[k][i] \in Charge
      OBVIOUS
    <2> QED
      BY <2>1 DEF Charge
  <1>2. T \in SUBSET R
    BY <1>1, WindowsNat, RecentTick
  <1>3. /\ IsFiniteSet(R) /\ \A i \in R : w[i] \in Nat
        /\ BytesAt(ch, k, time) = Total(w, R) /\ BytesAt(ch, k, time) \in Nat
    BY BytesTotal
  <1>4. BytesAt(ch, k, time + 1) = Total(w, T) /\ BytesAt(ch, k, time + 1) \in Nat
    BY BytesTotal
  <1> HIDE DEF R, T, w
  <1>5. Total(w, T) <= Total(w, R)
    BY <1>2, <1>3, TotalPart
  <1> QED
    BY <1>3, <1>4, <1>5, CapsNat, FitsLess DEF BytesFit

\* A charge adds its size to the bytes of its prefix, and to no other.
LEMMA BytesCharge ==
    ASSUME NEW ch \in [Keys -> Seq(Charge)], NEW time \in Nat, NEW k \in Keys, NEW n \in Nat
    PROVE  LET cu == WithCharge(ch, time, k, n) IN
           /\ BytesAt(cu, k, time) = BytesAt(ch, k, time) + n
           /\ \A x \in Keys : x # k => BytesAt(cu, x, time) = BytesAt(ch, x, time)
  <1> DEFINE e == [t |-> time, n |-> n]
             cu == WithCharge(ch, time, k, n)
             L == Append(ch[k], e)
             N == Len(ch[k]) + 1
             R == RecentAt(ch[k], Cfg.bytes_window, time)
  <1>1. e \in Charge /\ e.t = time /\ e.n = n /\ ch[k] \in Seq(Charge)
    BY DEF Charge
  <1>2. cu[k] = L /\ \A x \in Keys : x # k => cu[x] = ch[x]
    BY DEF WithCharge
  <1>3. /\ L \in Seq(Charge) /\ Len(L) = N
        /\ \A i \in 1 .. Len(ch[k]) : L[i] = ch[k][i]
        /\ L[N] = e
    BY <1>1, AppendProperties
  <1>4. cu \in [Keys -> Seq(Charge)]
    BY <1>3 DEF WithCharge
  <1>5. RecentAt(L, Cfg.bytes_window, time) = R \cup {N} /\ N \notin R
    BY <1>1, WindowsNat, RecentAppend
  <1>6. /\ R \in SUBSET (1 .. Len(ch[k])) /\ IsFiniteSet(R)
        /\ BytesAt(ch, k, time) = Total(Sizes(ch[k]), R)
    BY BytesTotal
  <1>7. /\ R \cup {N} \in SUBSET (1 .. Len(L))
        /\ \A i \in R \cup {N} : Sizes(L)[i] \in Nat
        /\ BytesAt(cu, k, time) = Total(Sizes(L), R \cup {N})
    BY <1>2, <1>4, <1>5, BytesTotal, ZenonT(60)
  <1> HIDE DEF e, L, N, R, cu
  <1>8. Sizes(L)[N] = n
    BY <1>1, <1>3, <1>7, SizesType
  <1>9. \A i \in R : Sizes(L)[i] = Sizes(ch[k])[i]
    BY <1>1, <1>3, <1>6, <1>7, SizesType, SMTT(40)
  <1>10. Total(Sizes(L), R \cup {N}) = Total(Sizes(L), R) + n
    BY <1>5, <1>6, <1>7, <1>8, TotalAdd
  <1>11. Total(Sizes(L), R) = Total(Sizes(ch[k]), R)
    BY <1>6, <1>9, TotalSame
  <1>12. \A x \in Keys : x # k => BytesAt(cu, x, time) = BytesAt(ch, x, time)
    BY <1>2 DEF BytesAt
  <1> QED
    BY <1>6, <1>7, <1>10, <1>11, <1>12 DEF cu


\* A step keeps the bytes within the cap.
LEMMA StepBytes ==
    TypeOK /\ WindowInv /\ BytesFit(charges, now) /\ [Next]_vars => BytesFit(charges, now)'
  <1> SUFFICES ASSUME TypeOK, WindowInv, BytesFit(charges, now), [Next]_vars
               PROVE  BytesFit(charges', now')
    BY DEF BytesFit
  <1>1. /\ IsInner(inner) /\ now \in Nat
        /\ LogsOK(attempts, charges, now)
        /\ WindowsOK(inner, attempts, charges, now)
        /\ charges \in [Keys -> Seq(Charge)]
    BY DEF TypeOK, WindowInv, LogsOK
  <1>2. CASE Tick
    <2>1. BytesFit(charges, now + 1)
      BY <1>1, BytesTick
    <2> QED
      BY <1>2, <2>1 DEF Tick
  <1>3. ASSUME NEW s \in Sessions, NEW n \in ByteSizes, AddBytes(s, n)
        PROVE  BytesFit(charges', now')
    <2> DEFINE k == leases[s].ip
               r == add_bytes(inner, now, k, n)
               cu == WithCharge(charges, now, k, n)
               max == Cfg.max_bytes_per_ip
    <2>1. k \in Keys /\ n \in Nat
      BY <1>3, ByteSizesAssumption DEF TypeOK, AddBytes, Lease
    <2>2. r.res = "Ok" => max = 0 \/ BytesAt(charges, k, now) + n <= max
      BY <1>1, <2>1, AddBytesOK
    <2>3. /\ now' = now
          /\ charges' = IF r.res = "Ok" /\ max # 0 THEN cu ELSE charges
      BY <1>3 DEF AddBytes, WithCharge
    <2>4. /\ BytesAt(cu, k, now) = BytesAt(charges, k, now) + n
          /\ \A x \in Keys : x # k => BytesAt(cu, x, now) = BytesAt(charges, x, now)
      BY <1>1, <2>1, BytesCharge
    <2> HIDE DEF r, k, cu, max
    <2>5. r.res = "Ok" /\ max # 0 => BytesFit(cu, now)
      <3> SUFFICES ASSUME r.res = "Ok", max # 0, NEW x \in Keys
                   PROVE  Fits(max, BytesAt(cu, x, now))
        BY DEF BytesFit, max
      <3>1. CASE x = k
        BY <2>2, <2>4, <3>1 DEF Fits
      <3>2. CASE x # k
        BY <2>4, <3>2 DEF BytesFit, max
      <3> QED
        BY <3>1, <3>2
    <2> QED
      BY <2>3, <2>5
  <1>4. CASE UNCHANGED <<charges, now>>
    BY <1>4
  <1> QED
    BY <1>2, <1>3, <1>4 DEF Next, vars, Acquire, Release, RecordAttempt

\* In no window do the bytes add_bytes accepted for one client exceed the cap.
THEOREM BytesHold == Spec => []BytesWithinCap
  <1>1. Init => BytesFit(charges, now)
    <2> SUFFICES ASSUME Init, NEW k \in Keys
                 PROVE  Fits(Cfg.max_bytes_per_ip, BytesAt(charges, k, now))
      BY DEF BytesFit
    <2>1. charges[k] = <<>> /\ <<>> \in Seq(Charge) /\ Len(<<>>) = 0
      BY EmptySeq DEF Init
    <2>2. RecentAt(charges[k], Cfg.bytes_window, now) = {} /\ 1 .. Len(<<>>) = {}
      BY <2>1 DEF RecentAt
    <2>3. BytesAt(charges, k, now) = 0
      BY <2>1, <2>2, NoBytes DEF BytesAt
    <2> QED
      BY <2>3, CapsNat DEF Fits
  <1>2. BytesFit(charges, now) => BytesWithinCap
    BY PromiseBytes DEF BytesFit, Fits, BytesWithinCap, Promise!BytesWithinCap, Promise!Within
  <1>3. Spec => []BytesFit(charges, now)
    BY <1>1, StepBytes, TypeCorrect, WindowsHold, PTL DEF Spec
  <1> QED
    BY <1>2, <1>3, PTL

-----------------------------------------------------------------------------
(* limits.rs implements the promise. *)

\* Every step of the bookkeeping is a step of the promise or leaves its truth
\* alone.
LEMMA StepImplements ==
    TypeOK /\ LeaseAccounting /\ WindowInv /\ [Next]_vars => [Promise!Next]_(Promise!vars)
  <1> SUFFICES ASSUME TypeOK, LeaseAccounting, WindowInv, [Next]_vars
               PROVE  [Promise!Next]_(Promise!vars)
    OBVIOUS
  <1>1. /\ IsInner(inner) /\ now \in Nat
        /\ LogsOK(attempts, charges, now)
        /\ WindowsOK(inner, attempts, charges, now)
    BY DEF TypeOK, WindowInv
  <1>2. CASE Tick
    BY <1>2 DEF Tick, Promise!Next, Promise!Tick
  <1>3. ASSUME NEW a \in Addrs, NEW d \in Dests, RecordAttempt(a, d)
        PROVE  [Promise!Next]_(Promise!vars)
    <2> DEFINE k == LimitKey[a]
               r == record_attempt(inner, now, k, d)
    <2>1. k \in Keys
      BY LimitKeyAssumption
    <2>2. r.res = "Ok" => Promise!AttemptAllowed(k, d)
      BY <1>1, <2>1, RecordAttemptOK, PromiseAllows
    <2>3. /\ now' = now /\ leases' = leases /\ charges' = charges
          /\ attempts' = IF r.res = "Ok"
                         THEN [attempts EXCEPT ![k] = Append(@, [t |-> now, dest |-> d])]
                         ELSE attempts
      BY <1>3 DEF RecordAttempt
    <2> HIDE DEF r, k
    <2>4. CASE r.res = "Ok"
      <3>1. Promise!Attempt(k, d)
        BY <2>2, <2>3, <2>4 DEF Promise!Attempt
      <3> QED
        BY <2>1, <3>1 DEF Promise!Next
    <2>5. CASE r.res # "Ok"
      BY <2>3, <2>5 DEF Promise!vars
    <2> QED
      BY <2>4, <2>5
  <1>4. ASSUME NEW s \in Sessions, NEW a \in Addrs, NEW d \in Dests, Acquire(s, a, d)
        PROVE  [Promise!Next]_(Promise!vars)
    <2> DEFINE k == LimitKey[a]
               r == acquire(inner, now, k, d)
    <2>1. k \in Keys
      BY LimitKeyAssumption
    <2>2. r.res = "Ok" => Promise!LeaseAllowed(k, d)
      BY <1>1, <2>1, AcquireCounts, RoomIsAllowed
    <2>3. /\ now' = now /\ attempts' = attempts /\ charges' = charges
          /\ leases[s] = NoLease
          /\ leases' = IF r.res = "Ok"
                       THEN [leases EXCEPT ![s] = [ip |-> k, dest |-> d]]
                       ELSE leases
      BY <1>4 DEF Acquire
    <2> HIDE DEF r, k
    <2>4. CASE r.res = "Ok"
      <3>1. Promise!Grant(s, k, d)
        BY <2>2, <2>3, <2>4 DEF Promise!Grant
      <3> QED
        BY <2>1, <3>1 DEF Promise!Next
    <2>5. CASE r.res # "Ok"
      BY <2>3, <2>5 DEF Promise!vars
    <2> QED
      BY <2>4, <2>5
  <1>5. ASSUME NEW s \in Sessions, Release(s)
        PROVE  [Promise!Next]_(Promise!vars)
    <2>1. Promise!Return(s)
      BY <1>5 DEF Release, Promise!Return
    <2> QED
      BY <2>1 DEF Promise!Next
  <1>6. ASSUME NEW s \in Sessions, NEW n \in ByteSizes, AddBytes(s, n)
        PROVE  [Promise!Next]_(Promise!vars)
    <2> DEFINE k == leases[s].ip
               r == add_bytes(inner, now, k, n)
    <2>1. k \in Keys /\ n \in Nat
      BY <1>6, ByteSizesAssumption DEF TypeOK, AddBytes, Lease
    <2>2. r.res = "Ok" => \/ Cfg.max_bytes_per_ip = 0
                          \/ BytesAt(charges, k, now) + n <= Cfg.max_bytes_per_ip
      BY <1>1, <2>1, AddBytesOK
    <2>3. /\ now' = now /\ leases' = leases /\ attempts' = attempts
          /\ charges' = IF r.res = "Ok" /\ Cfg.max_bytes_per_ip # 0
                        THEN [charges EXCEPT ![k] = Append(@, [t |-> now, n |-> n])]
                        ELSE charges
      BY <1>6 DEF AddBytes
    <2> HIDE DEF r, k
    <2>4. CASE r.res = "Ok" /\ Cfg.max_bytes_per_ip # 0
      <3>1. Promise!ChargeAllowed(k, n)
        BY <2>2, <2>4, PromiseBytes DEF Promise!ChargeAllowed
      <3>2. Promise!Charge(k, n)
        BY <2>3, <2>4, <3>1 DEF Promise!Charge
      <3> QED
        BY <2>1, <3>2 DEF Promise!Next
    <2>5. CASE ~(r.res = "Ok" /\ Cfg.max_bytes_per_ip # 0)
      BY <2>3, <2>5 DEF Promise!vars
    <2> QED
      BY <2>4, <2>5
  <1>7. CASE UNCHANGED vars
    BY <1>7 DEF vars, Promise!vars
  <1> QED
    BY <1>2, <1>3, <1>4, <1>5, <1>6, <1>7 DEF Next

\* The bookkeeping of limits.rs, with its queues, sums, rows and collections,
\* implements the promise of Admission.tla.
THEOREM LimitsImplementPromise == Spec => Implements
  <1>1. Init => Promise!Init
    BY DEF Init, Promise!Init
  <1>2. Spec => Promise!Init /\ [][Promise!Next]_(Promise!vars)
    BY <1>1, StepImplements, TypeCorrect, LeasesCounted, WindowsHold, PTL DEF Spec
  <1> QED
    BY <1>2 DEF Implements, Promise!Spec
=============================================================================
