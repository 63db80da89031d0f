-------------------------------- MODULE Runs --------------------------------
(***************************************************************************)
(* Streams of bytes that know their position: a run is a piece of a stream *)
(* without a gap or a repetition, a queue of messages holds one run after  *)
(* the other.  Facts for SessionProofs.tla.                                *)
(***************************************************************************)
EXTENDS Integers, Sequences, SequencesExt, SequenceTheorems, TLAPS

\* s is bytes a+1 .. b of its stream.
Run(s, a, b) ==
    /\ s \in Seq(Nat) /\ a \in Nat /\ b \in Nat /\ Len(s) = b - a
    /\ \A i \in 1 .. Len(s) : s[i] = a + i

\* The messages of q carry bytes a+1 .. b, each where the one before it ends.
Queued(q, a, b) ==
    \E ends \in [0 .. Len(q) -> Nat] :
       /\ ends[0] = a /\ ends[Len(q)] = b
       /\ \A i \in 0 .. Len(q) : ends[i] <= b
       /\ \A i \in 1 .. Len(q) : Run(q[i].data, ends[i - 1], ends[i])

-----------------------------------------------------------------------------
(* Runs. *)

\* A run is between its bounds.
LEMMA RunBounds ==
    ASSUME NEW s, NEW a, NEW b, Run(s, a, b)
    PROVE  a \in Nat /\ b \in Nat /\ a <= b /\ s \in Seq(Nat) /\ b = a + Len(s)
  BY LenProperties DEF Run

\* Nothing is a run from everywhere.
LEMMA RunEmpty ==
    ASSUME NEW a \in Nat
    PROVE  Run(<<>>, a, a)
  BY EmptySeq DEF Run

\* Adjacent runs make one.
LEMMA RunConcat ==
    ASSUME NEW s, NEW t, NEW a, NEW b, NEW c, Run(s, a, b), Run(t, b, c)
    PROVE  Run(s \o t, a, c)
  <1>1. s \in Seq(Nat) /\ t \in Seq(Nat) /\ Len(s) \in Nat /\ Len(t) \in Nat
    BY LenProperties DEF Run
  <1>2. /\ s \o t \in Seq(Nat) /\ Len(s \o t) = Len(s) + Len(t)
        /\ \A i \in 1 .. Len(s) + Len(t) :
              (s \o t)[i] = IF i <= Len(s) THEN s[i] ELSE t[i - Len(s)]
    BY <1>1, ConcatProperties
  <1>3. ASSUME NEW i \in 1 .. Len(s) + Len(t)
        PROVE  (s \o t)[i] = a + i
    <2>1. CASE i <= Len(s)
      BY <1>1, <1>2, <2>1 DEF Run
    <2>2. CASE ~(i <= Len(s))
      <3>1. i - Len(s) \in 1 .. Len(t)
        BY <1>1, <2>2
      <3> QED
        BY <1>1, <1>2, <2>2, <3>1 DEF Run
    <2> QED
      BY <2>1, <2>2
  <1> QED
    BY <1>1, <1>2, <1>3 DEF Run

\* The next byte prolongs a run.
LEMMA RunAppend ==
    ASSUME NEW s, NEW a, NEW b, Run(s, a, b)
    PROVE  Run(Append(s, b + 1), a, b + 1)
  <1>1. s \in Seq(Nat) /\ a \in Nat /\ b \in Nat /\ Len(s) \in Nat /\ Len(s) = b - a
    BY LenProperties DEF Run
  <1>2. /\ Append(s, b + 1) \in Seq(Nat) /\ Len(Append(s, b + 1)) = Len(s) + 1
        /\ \A i \in 1 .. Len(s) : Append(s, b + 1)[i] = s[i]
        /\ Append(s, b + 1)[Len(s) + 1] = b + 1
    BY <1>1, AppendProperties
  <1> QED
    BY <1>1, <1>2 DEF Run

\* Cutting a run gives two.
LEMMA RunCut ==
    ASSUME NEW s, NEW a, NEW b, Run(s, a, b), NEW n \in 0 .. Len(s)
    PROVE  /\ Run(SubSeq(s, 1, n), a, a + n)
           /\ Run(SubSeq(s, n + 1, Len(s)), a + n, b)
  <1>1. s \in Seq(Nat) /\ a \in Nat /\ b \in Nat /\ Len(s) \in Nat /\ Len(s) = b - a /\ n \in Nat
    BY LenProperties DEF Run
  <1>2. \A i \in 1 .. Len(s) : s[i] \in Nat /\ s[i] = a + i
    BY <1>1 DEF Run
  <1>3. /\ SubSeq(s, 1, n) \in Seq(Nat) /\ Len(SubSeq(s, 1, n)) = IF 1 <= n THEN n - 1 + 1 ELSE 0
        /\ \A i \in 1 .. n - 1 + 1 : SubSeq(s, 1, n)[i] = s[1 + i - 1]
    <2>1. \A i \in 1 .. n : s[i] \in Nat
      BY <1>1, <1>2
    <2> QED
      BY <1>1, <2>1, SubSeqProperties
  <1>4. /\ SubSeq(s, n + 1, Len(s)) \in Seq(Nat)
        /\ Len(SubSeq(s, n + 1, Len(s))) = IF n + 1 <= Len(s) THEN Len(s) - (n + 1) + 1 ELSE 0
        /\ \A i \in 1 .. Len(s) - (n + 1) + 1 : SubSeq(s, n + 1, Len(s))[i] = s[n + 1 + i - 1]
    <2>1. \A i \in n + 1 .. Len(s) : s[i] \in Nat
      BY <1>1, <1>2
    <2>2. n + 1 \in Int /\ Len(s) \in Int
      BY <1>1
    <2> QED
      BY <2>1, <2>2, SubSeqProperties
  <1>5. Run(SubSeq(s, 1, n), a, a + n)
    <2>1. Len(SubSeq(s, 1, n)) = n
      BY <1>1, <1>3
    <2>2. ASSUME NEW i \in 1 .. n
          PROVE  SubSeq(s, 1, n)[i] = a + i
      <3>1. i \in 1 .. n - 1 + 1 /\ 1 + i - 1 = i /\ i \in 1 .. Len(s)
        BY <1>1
      <3> QED
        BY <1>2, <1>3, <3>1
    <2> QED
      BY <1>1, <1>3, <2>1, <2>2 DEF Run
  <1>6. Run(SubSeq(s, n + 1, Len(s)), a + n, b)
    <2>1. Len(SubSeq(s, n + 1, Len(s))) = Len(s) - n
      BY <1>1, <1>4
    <2>2. ASSUME NEW i \in 1 .. Len(s) - n
          PROVE  SubSeq(s, n + 1, Len(s))[i] = a + n + i
      <3>1. i \in 1 .. Len(s) - (n + 1) + 1 /\ n + 1 + i - 1 = n + i /\ n + i \in 1 .. Len(s)
        BY <1>1
      <3>2. SubSeq(s, n + 1, Len(s))[i] = s[n + i]
        BY <1>4, <3>1
      <3> QED
        BY <1>1, <1>2, <3>1, <3>2
    <2> QED
      BY <1>1, <1>4, <2>1, <2>2 DEF Run
  <1> QED
    BY <1>5, <1>6

\* A run from the beginning is that part of the stream.
LEMMA RunFromStart ==
    ASSUME NEW s, NEW b, Run(s, 0, b), NEW n \in Nat, b <= n
    PROVE  /\ IsPrefix(s, [i \in 1 .. n |-> i])
           /\ b = n => s = [i \in 1 .. n |-> i]
  <1> DEFINE t == [i \in 1 .. n |-> i]
  <1>1. s \in Seq(Nat) /\ b \in Nat /\ Len(s) = b /\ \A i \in 1 .. b : s[i] = i
    BY DEF Run
  <1>2. t \in Seq(Nat) /\ Len(t) = n /\ \A i \in 1 .. n : t[i] = i
    OBVIOUS
  <1> HIDE DEF t
  <1>3. /\ SubSeq(s, 1, b) \in Seq(Nat) /\ Len(SubSeq(s, 1, b)) = b
        /\ \A i \in 1 .. b : SubSeq(s, 1, b)[i] = i
    BY <1>1 DEF Run
  <1>4. /\ SubSeq(t, 1, b) \in Seq(Nat) /\ Len(SubSeq(t, 1, b)) = b
        /\ \A i \in 1 .. b : SubSeq(t, 1, b)[i] = i
    BY <1>1, <1>2
  <1>5. SubSeq(s, 1, b) = SubSeq(t, 1, b)
    BY <1>1, <1>3, <1>4, SeqEqual
  <1>6. IsPrefix(s, t)
    BY <1>1, <1>2, <1>5 DEF IsPrefix
  <1>7. b = n => s = t
    BY <1>1, <1>2, SeqEqual
  <1> QED
    BY <1>6, <1>7 DEF t

-----------------------------------------------------------------------------
(* Queues. *)

\* An empty queue is where it is.
LEMMA QueuedEmpty ==
    ASSUME NEW a \in Nat, NEW b
    PROVE  Queued(<<>>, a, b) <=> a = b
  <1>1. Len(<<>>) = 0
    BY EmptySeq
  <1>2. ASSUME Queued(<<>>, a, b) PROVE a = b
    BY <1>1, <1>2 DEF Queued
  <1>3. ASSUME a = b PROVE Queued(<<>>, a, b)
    <2> DEFINE e == [i \in 0 .. 0 |-> a]
    <2>1. e \in [0 .. Len(<<>>) -> Nat] /\ e[0] = a /\ e[Len(<<>>)] = b
      BY <1>1, <1>3
    <2>2. \A i \in 0 .. Len(<<>>) : e[i] <= b
      BY <1>1, <1>3
    <2>3. \A i \in 1 .. Len(<<>>) : Run(<<>>[i].data, e[i - 1], e[i])
      BY <1>1
    <2> HIDE DEF e
    <2> QED
      BY <2>1, <2>2, <2>3 DEF Queued
  <1> QED
    BY <1>2, <1>3

\* A queue is between its bounds.
LEMMA QueuedBounds ==
    ASSUME NEW S, NEW q \in Seq(S), NEW a, NEW b, Queued(q, a, b)
    PROVE  a \in Nat /\ b \in Nat /\ a <= b
  <1>1. Len(q) \in Nat
    BY LenProperties
  <1> QED
    BY <1>1 DEF Queued

\* Taking the first message takes its bytes.
LEMMA QueuedHead ==
    ASSUME NEW S, NEW q \in Seq(S), q # <<>>, NEW a, NEW b, Queued(q, a, b)
    PROVE  \E c \in Nat : Run(Head(q).data, a, c) /\ Queued(Tail(q), c, b)
  <1>1. /\ Len(q) \in Nat /\ Len(q) # 0 /\ Head(q) = q[1]
        /\ Tail(q) \in Seq(S) /\ Len(Tail(q)) = Len(q) - 1
        /\ \A i \in 1 .. Len(Tail(q)) : Tail(q)[i] = q[i + 1]
    BY LenProperties, HeadTailProperties, EmptySeq
  <1>2. PICK e \in [0 .. Len(q) -> Nat] :
           /\ e[0] = a /\ e[Len(q)] = b
           /\ \A i \in 0 .. Len(q) : e[i] <= b
           /\ \A i \in 1 .. Len(q) : Run(q[i].data, e[i - 1], e[i])
    BY DEF Queued
  <1> DEFINE f == [i \in 0 .. Len(Tail(q)) |-> e[i + 1]]
  <1>3. e[1] \in Nat /\ Run(q[1].data, a, e[1])
    <2>1. 1 \in 1 .. Len(q) /\ 1 \in 0 .. Len(q) /\ 1 - 1 = 0
      BY <1>1
    <2> QED
      BY <1>2, <2>1
  <1>4. f \in [0 .. Len(Tail(q)) -> Nat]
    BY <1>1, <1>2
  <1>5. f[0] = e[1] /\ f[Len(Tail(q))] = b
    BY <1>1, <1>2
  <1>6. \A i \in 0 .. Len(Tail(q)) : f[i] <= b
    BY <1>1, <1>2
  <1>7. ASSUME NEW i \in 1 .. Len(Tail(q))
        PROVE  Run(Tail(q)[i].data, f[i - 1], f[i])
    <2>1. i + 1 \in 1 .. Len(q) /\ Tail(q)[i] = q[i + 1] /\ (i + 1) - 1 = i
      BY <1>1
    <2>2. Run(q[i + 1].data, e[i], e[i + 1])
      BY <1>2, <2>1
    <2>3. f[i - 1] = e[i] /\ f[i] = e[i + 1]
      BY <1>1
    <2> QED
      BY <2>1, <2>2, <2>3
  <1> HIDE DEF f
  <1>8. Queued(Tail(q), e[1], b)
    BY <1>4, <1>5, <1>6, <1>7 DEF Queued
  <1> QED
    BY <1>1, <1>3, <1>8

\* A message with the next bytes prolongs the queue.
LEMMA QueuedAppend ==
    ASSUME NEW S, NEW q \in Seq(S), NEW m \in S, NEW a, NEW b, NEW c,
           Queued(q, a, b), Run(m.data, b, c)
    PROVE  Queued(Append(q, m), a, c)
  <1>1. /\ Len(q) \in Nat /\ Len(Append(q, m)) = Len(q) + 1
        /\ \A i \in 1 .. Len(q) : Append(q, m)[i] = q[i]
        /\ Append(q, m)[Len(q) + 1] = m
    BY LenProperties, AppendProperties
  <1>2. PICK e \in [0 .. Len(q) -> Nat] :
           /\ e[0] = a /\ e[Len(q)] = b
           /\ \A i \in 0 .. Len(q) : e[i] <= b
           /\ \A i \in 1 .. Len(q) : Run(q[i].data, e[i - 1], e[i])
    BY DEF Queued
  <1>3. b \in Nat /\ c \in Nat /\ b <= c
    BY RunBounds
  <1> DEFINE f == [i \in 0 .. Len(Append(q, m)) |-> IF i <= Len(q) THEN e[i] ELSE c]
  <1>4. f \in [0 .. Len(Append(q, m)) -> Nat]
    BY <1>1, <1>2, <1>3
  <1>5. f[0] = a /\ f[Len(Append(q, m))] = c /\ f[Len(q)] = b
    BY <1>1, <1>2
  <1>6. \A i \in 0 .. Len(Append(q, m)) : f[i] <= c
    BY <1>1, <1>2, <1>3, SMTT(40)
  <1>7. ASSUME NEW i \in 1 .. Len(Append(q, m))
        PROVE  Run(Append(q, m)[i].data, f[i - 1], f[i])
    <2>1. CASE i \in 1 .. Len(q)
      <3>1. f[i - 1] = e[i - 1] /\ f[i] = e[i]
        BY <1>1, <2>1
      <3> QED
        BY <1>1, <1>2, <2>1, <3>1
    <2>2. CASE i = Len(q) + 1
      <3>1. i - 1 = Len(q) /\ f[i] = c
        BY <1>1, <2>2
      <3> QED
        BY <1>1, <1>5, <2>2, <3>1
    <2> QED
      BY <1>1, <2>1, <2>2
  <1> HIDE DEF f
  <1> QED
    BY <1>4, <1>5, <1>6, <1>7 DEF Queued

-----------------------------------------------------------------------------
(* FlattenSeq of the few messages that a sink holds. *)

\* Nothing, flattened.
LEMMA FlattenNone == FlattenSeq(<<>>) = <<>>
  BY DEF FlattenSeq

\* One sequence, flattened.
LEMMA FlattenOne ==
    ASSUME NEW q, q \in Seq(Seq(Nat)), Len(q) = 1
    PROVE  FlattenSeq(q) = q[1]
  <1> DEFINE F(g) == [i \in 1 .. Len(q) |-> IF i = 1 THEN q[i] ELSE g[i - 1] \o q[i]]
             f == CHOOSE g : g = F(g)
             w == [i \in 1 .. 1 |-> q[1]]
  <1>1. w = F(w)
    OBVIOUS
  <1> HIDE DEF w
  <1>2. f = F(f)
    BY <1>1, Zenon
  <1> HIDE DEF f
  <1>3. f[1] = q[1]
    BY <1>2
  <1>4. FlattenSeq(q) = f[Len(q)]
    BY DEF FlattenSeq, f
  <1> QED
    BY <1>3, <1>4

\* Two sequences, flattened.
LEMMA FlattenTwo ==
    ASSUME NEW q, q \in Seq(Seq(Nat)), Len(q) = 2
    PROVE  FlattenSeq(q) = q[1] \o q[2]
  <1> DEFINE F(g) == [i \in 1 .. Len(q) |-> IF i = 1 THEN q[i] ELSE g[i - 1] \o q[i]]
             f == CHOOSE g : g = F(g)
             w == [i \in 1 .. 2 |-> IF i = 1 THEN q[1] ELSE q[1] \o q[2]]
  <1>1. w = F(w)
    BY SMTT(40)
  <1> HIDE DEF w
  <1>2. f = F(f)
    BY <1>1, Zenon
  <1> HIDE DEF f
  <1>3. f[2] = q[1] \o q[2]
    BY <1>2
  <1>4. FlattenSeq(q) = f[Len(q)]
    BY DEF FlattenSeq, f
  <1> QED
    BY <1>3, <1>4
=============================================================================
