-------------------------------- MODULE Sums --------------------------------
(***************************************************************************)
(* Least elements, sums, and what is left of a filtered sequence.          *)
(*                                                                         *)
(* MapThenSumSet is what Limits.tla and Admission.tla measure bytes and    *)
(* attempts with.  The fold is a recursive function on the subsets of its  *)
(* argument, so what it computes is proved by induction on finite sets,    *)
(* with the sets for which a claim holds as the parameter.                 *)
(***************************************************************************)
EXTENDS Integers, Filter, FiniteSets, FiniteSetsExt, FiniteSetTheorems,
        SequenceTheorems, WellFoundedInduction, TLAPS

\* A non-empty set of naturals has a least element.
LEMMA LeastNatural ==
    ASSUME NEW T, T \subseteq Nat, T # {}
    PROVE  \E x \in T : \A y \in T : x <= y
  <1>1. IsWellFoundedOn(OpToRel(<, Nat), Nat)
    BY NatLessThanWellFounded
  <1>2. \E x \in T : \A y \in T : ~(<<y, x>> \in OpToRel(<, Nat))
    BY <1>1, WFMin
  <1>3. \A x, y \in Nat : ~(<<y, x>> \in OpToRel(<, Nat)) => x <= y
    BY DEF OpToRel
  <1> QED
    BY <1>2, <1>3

\* The minimum of a non-empty set of naturals is in it.
LEMMA LeastIsMin ==
    ASSUME NEW T, T \subseteq Nat, T # {}
    PROVE  Min(T) \in T /\ \A y \in T : Min(T) <= y
  <1>1. \E x \in T : \A y \in T : x <= y
    BY LeastNatural
  <1> QED
    BY <1>1, Zenon DEF Min

\* Induction on the subsets of a finite set: a set of subsets that contains
\* each subset whose strict subsets it contains, contains all of them.
LEMMA SubsetInduction ==
    ASSUME NEW S, IsFiniteSet(S), NEW Good,
           \A T \in SUBSET S :
              (\A U \in SUBSET T : U # T => U \in Good) => T \in Good
    PROVE  \A T \in SUBSET S : T \in Good
  <1> DEFINE Bad == {T \in SUBSET S : T \notin Good}
  <1> SUFFICES ASSUME Bad # {} PROVE FALSE
    OBVIOUS
  <1>1. IsWellFoundedOn(StrictSubsetOrdering(S), SUBSET S)
    <2>1. FiniteSubsetsOf(S) = SUBSET S
      BY FS_FiniteSubsetsOfFinite
    <2>2. IsWellFoundedOn(StrictSubsetOrdering(S), FiniteSubsetsOf(S))
      BY FS_StrictSubsetOrderingWellFounded
    <2> QED
      BY <2>1, <2>2, Zenon
  <1>2. PICK T \in Bad : \A U \in Bad : ~(<<U, T>> \in StrictSubsetOrdering(S))
    <2>1. Bad \subseteq SUBSET S
      OBVIOUS
    <2> HIDE DEF Bad
    <2> QED
      BY <1>1, <2>1, WFMin
  <1>3. \A U \in SUBSET T : U # T => U \in Good
    BY <1>2 DEF StrictSubsetOrdering
  <1> QED
    BY <1>2, <1>3

-----------------------------------------------------------------------------
(* The sum of the weights w of the members of S. *)

Total(w, S) == MapThenSumSet(LAMBDA x : w[x], S)

Pick(s) == CHOOSE x \in s : TRUE

\* g is the recursive function the fold is the value of.
SumsUp(g, w, S) ==
    g = [s \in SUBSET S |->
            IF s = {} THEN 0 ELSE w[Pick(s)] + g[s \ {Pick(s)}]]

\* The picked member is a member.
LEMMA PickIn == ASSUME NEW s, s # {} PROVE Pick(s) \in s
  BY DEF Pick

\* One step of the recursion.
LEMMA SumsStep ==
    ASSUME NEW g, NEW w, NEW S, SumsUp(g, w, S), NEW T \in SUBSET S
    PROVE  /\ T = {} => g[T] = 0
           /\ T # {} => g[T] = w[Pick(T)] + g[T \ {Pick(T)}]
  BY DEF SumsUp

\* Two such functions agree where the weights do.
LEMMA SumsAgree ==
    ASSUME NEW g, NEW w, NEW S, SumsUp(g, w, S), IsFiniteSet(S),
           NEW h, NEW v, NEW T, SumsUp(h, v, T), IsFiniteSet(T),
           NEW U, U \subseteq S, U \subseteq T, \A x \in U : w[x] = v[x]
    PROVE  g[U] = h[U]
  <1> DEFINE Good == {V \in SUBSET U : g[V] = h[V]}
  <1>1. IsFiniteSet(U)
    BY FS_Subset
  <1>2. \A V \in SUBSET U :
           /\ V = {} => g[V] = 0 /\ h[V] = 0
           /\ V # {} => /\ g[V] = w[Pick(V)] + g[V \ {Pick(V)}]
                        /\ h[V] = v[Pick(V)] + h[V \ {Pick(V)}]
    <2>1. /\ g = [s \in SUBSET S |-> IF s = {} THEN 0 ELSE w[Pick(s)] + g[s \ {Pick(s)}]]
          /\ h = [s \in SUBSET T |-> IF s = {} THEN 0 ELSE v[Pick(s)] + h[s \ {Pick(s)}]]
      BY DEF SumsUp
    <2> QED
      BY <2>1
  <1>3. ASSUME NEW V \in SUBSET U, \A W \in SUBSET V : W # V => W \in Good
        PROVE  V \in Good
    <2>1. CASE V = {}
      BY <1>2, <2>1
    <2>2. CASE V # {}
      <3>1. Pick(V) \in V
        BY <2>2, PickIn
      <3>2. g[V \ {Pick(V)}] = h[V \ {Pick(V)}]
        BY <1>3, <3>1
      <3>3. w[Pick(V)] = v[Pick(V)]
        BY <3>1
      <3>4. /\ g[V] = w[Pick(V)] + g[V \ {Pick(V)}]
            /\ h[V] = v[Pick(V)] + h[V \ {Pick(V)}]
        BY <1>2, <2>2
      <3>5. g[V] = h[V]
        BY <3>2, <3>3, <3>4, Zenon
      <3> QED
        BY <3>5
    <2> QED
      BY <2>1, <2>2
  <1>4. \A V \in SUBSET U : V \in Good
    <2> HIDE DEF Good
    <2> QED
      BY <1>1, <1>3, SubsetInduction
  <1> QED
    BY <1>4

\* The recursion has a solution on every finite set.
LEMMA SumsExist ==
    ASSUME NEW w, NEW S, IsFiniteSet(S)
    PROVE  \E g : SumsUp(g, w, S)
  <1> DEFINE Good == {T \in SUBSET S : \E g : SumsUp(g, w, T)}
             F(T) == CHOOSE g : SumsUp(g, w, T)
  <1>1. ASSUME NEW T \in SUBSET S, \A U \in SUBSET T : U # T => U \in Good
        PROVE  T \in Good
    <2>1. \A U \in SUBSET T : U # T => SumsUp(F(U), w, U)
      BY <1>1
    <2> DEFINE c(U) == Pick(U)
               h == [U \in SUBSET T |->
                       IF U = {} THEN 0 ELSE w[c(U)] + F(U \ {c(U)})[U \ {c(U)}]]
    <2>2. ASSUME NEW U \in SUBSET T, U # T
          PROVE  h[U] = F(U)[U]
      <3>0. SumsUp(F(U), w, U) /\ IsFiniteSet(U)
        BY <2>1, <2>2, FS_Subset
      <3>1. CASE U = {}
        <4>1. F(U)[U] = 0
          BY <3>0, <3>1, SumsStep
        <4> QED
          BY <3>1, <4>1
      <3>2. CASE U # {}
        <4> DEFINE V == U \ {c(U)}
        <4>1. c(U) \in U
          BY <3>2, PickIn
        <4>2. V \in SUBSET T /\ V # T /\ V \subseteq U
          BY <4>1
        <4>3. SumsUp(F(V), w, V) /\ IsFiniteSet(V)
          BY <2>1, <4>2, FS_Subset
        <4>4. F(V)[V] = F(U)[V]
          <5> HIDE DEF V, F
          <5> QED
            BY <3>0, <4>2, <4>3, SumsAgree
        <4>5. F(U)[U] = w[c(U)] + F(U)[V]
          BY <3>0, <3>2, SumsStep
        <4>6. h[U] = w[c(U)] + F(V)[V]
          BY <3>2
        <4> QED
          BY <4>4, <4>5, <4>6
      <3> QED
        BY <3>1, <3>2
    <2>3. \A U \in SUBSET T : U # {} => /\ U \ {c(U)} \in SUBSET T
                                        /\ U \ {c(U)} # T
      BY PickIn
    <2>4. \A U \in SUBSET T :
             h[U] = IF U = {} THEN 0 ELSE w[c(U)] + h[U \ {c(U)}]
      <3> HIDE DEF F, c
      <3>1. \A U \in SUBSET T : h[U] = IF U = {} THEN 0 ELSE w[c(U)] + F(U \ {c(U)})[U \ {c(U)}]
        OBVIOUS
      <3> HIDE DEF h
      <3> QED
        BY <2>2, <2>3, <3>1
    <2>5. h = [U \in SUBSET T |-> IF U = {} THEN 0 ELSE w[c(U)] + h[U \ {c(U)}]]
      <3>1. h = [U \in SUBSET T |-> h[U]]
        OBVIOUS
      <3> HIDE DEF h, c
      <3> QED
        BY <2>4, <3>1
    <2>6. SumsUp(h, w, T)
      <3> HIDE DEF h
      <3> QED
        BY <2>5 DEF SumsUp
    <2> QED
      BY <2>6
  <1>2. \A T \in SUBSET S : T \in Good
    <2> HIDE DEF Good
    <2> QED
      BY <1>1, SubsetInduction
  <1> QED
    BY <1>2

\* The total is the value of the recursion.
LEMMA TotalIsSum ==
    ASSUME NEW w, NEW S, IsFiniteSet(S), NEW g, SumsUp(g, w, S)
    PROVE  Total(w, S) = g[S]
  <1> DEFINE f == CHOOSE iter :
                     iter = [s \in SUBSET S |->
                               IF s = {} THEN 0
                               ELSE w[CHOOSE x \in s : TRUE]
                                      + iter[s \ {CHOOSE x \in s : TRUE}]]
  <1>1. Total(w, S) = f[S]
    BY Zenon DEF Total, MapThenSumSet, MapThenFoldSet
  <1>2. SumsUp(f, w, S)
    <2>1. \E iter : iter = [s \in SUBSET S |->
                               IF s = {} THEN 0
                               ELSE w[CHOOSE x \in s : TRUE]
                                      + iter[s \ {CHOOSE x \in s : TRUE}]]
      BY SumsExist, Zenon DEF SumsUp, Pick
    <2>2. f = [s \in SUBSET S |->
                 IF s = {} THEN 0
                 ELSE w[CHOOSE x \in s : TRUE] + f[s \ {CHOOSE x \in s : TRUE}]]
      BY <2>1, Zenon
    <2> HIDE DEF f
    <2> QED
      BY <2>2, Zenon DEF SumsUp, Pick
  <1> HIDE DEF f
  <1> QED
    BY <1>1, <1>2, SumsAgree

\* Every member can be taken out first, whichever the fold picks.
LEMMA SumsRemove ==
    ASSUME NEW w, NEW S, IsFiniteSet(S), NEW g, SumsUp(g, w, S),
           \A x \in S : w[x] \in Nat
    PROVE  \A T \in SUBSET S : /\ g[T] \in Nat
                               /\ \A x \in T : g[T] = g[T \ {x}] + w[x]
  <1> DEFINE Good == {T \in SUBSET S : /\ g[T] \in Nat
                                       /\ \A x \in T : g[T] = g[T \ {x}] + w[x]}
  <1>1. ASSUME NEW T \in SUBSET S, \A U \in SUBSET T : U # T => U \in Good
        PROVE  T \in Good
    <2>1. CASE T = {}
      <3>1. g[T] = 0
        BY <2>1, SumsStep
      <3> QED
        BY <2>1, <3>1
    <2>2. CASE T # {}
      <3> DEFINE c == Pick(T)
      <3>1. c \in T /\ g[T] = w[c] + g[T \ {c}]
        BY <2>2, PickIn, SumsStep
      <3> HIDE DEF c
      <3>2. \A x \in T : T \ {x} \in Good
        BY <1>1
      <3>3. w[c] \in Nat /\ g[T \ {c}] \in Nat
        BY <3>1, <3>2
      <3>4. ASSUME NEW x \in T, x # c
            PROVE  g[T] = g[T \ {x}] + w[x]
        <4>1. /\ g[T \ {c}] = g[(T \ {c}) \ {x}] + w[x]
              /\ g[T \ {x}] = g[(T \ {x}) \ {c}] + w[c]
          BY <3>1, <3>2, <3>4
        <4>2. (T \ {c}) \ {x} = (T \ {x}) \ {c} /\ (T \ {c}) \ {x} \in Good
          BY <1>1, <3>1
        <4>3. g[(T \ {c}) \ {x}] \in Nat /\ w[x] \in Nat
          BY <4>2
        <4> DEFINE b == g[(T \ {c}) \ {x}]
        <4>4. g[T \ {c}] = b + w[x] /\ g[T \ {x}] = b + w[c]
          BY <4>1, <4>2
        <4> HIDE DEF b
        <4> QED
          BY <3>1, <3>3, <4>3, <4>4 DEF b
      <3>5. g[T] \in Nat /\ g[T] = g[T \ {c}] + w[c]
        BY <3>1, <3>3
      <3> QED
        BY <3>4, <3>5
    <2> QED
      BY <2>1, <2>2
  <1>2. \A T \in SUBSET S : T \in Good
    <2> HIDE DEF Good
    <2> QED
      BY <1>1, SubsetInduction
  <1> QED
    BY <1>2

\* Totals of subsets are values of one recursion.
LEMMA TotalOfSubset ==
    ASSUME NEW w, NEW S, IsFiniteSet(S), NEW g, SumsUp(g, w, S), NEW T \in SUBSET S
    PROVE  Total(w, T) = g[T]
  <1>1. IsFiniteSet(T)
    BY FS_Subset
  <1>2. PICK h : SumsUp(h, w, T)
    BY <1>1, SumsExist
  <1>3. h[T] = g[T]
    BY <1>1, <1>2, SumsAgree
  <1> QED
    BY <1>1, <1>2, <1>3, TotalIsSum

\* Nothing weighs nothing.
LEMMA TotalEmpty == ASSUME NEW w PROVE Total(w, {}) = 0
  <1>1. IsFiniteSet({})
    BY FS_EmptySet
  <1>2. PICK g : SumsUp(g, w, {})
    BY <1>1, SumsExist
  <1>3. g[{}] = 0
    BY <1>2, SumsStep
  <1> QED
    BY <1>1, <1>2, <1>3, TotalIsSum

\* A total of natural numbers is one.
LEMMA TotalType ==
    ASSUME NEW w, NEW S, IsFiniteSet(S), \A x \in S : w[x] \in Nat
    PROVE  Total(w, S) \in Nat
  <1>1. PICK g : SumsUp(g, w, S)
    BY SumsExist
  <1>2. g[S] \in Nat
    BY <1>1, SumsRemove
  <1> QED
    BY <1>1, <1>2, TotalIsSum

\* A further member adds its weight.
LEMMA TotalAdd ==
    ASSUME NEW w, NEW S, IsFiniteSet(S), NEW x, x \notin S,
           \A y \in S \cup {x} : w[y] \in Nat
    PROVE  Total(w, S \cup {x}) = Total(w, S) + w[x]
  <1> DEFINE T == S \cup {x}
  <1>1. IsFiniteSet(T)
    BY FS_AddElement
  <1>2. PICK g : SumsUp(g, w, T)
    BY <1>1, SumsExist
  <1>3. g[T] = g[T \ {x}] + w[x]
    <2>1. x \in T /\ \A y \in T : w[y] \in Nat
      OBVIOUS
    <2> HIDE DEF T
    <2> QED
      BY <1>1, <1>2, <2>1, SumsRemove
  <1>4. T \ {x} = S
    OBVIOUS
  <1>5. Total(w, T) = g[T] /\ Total(w, S) = g[S]
    BY <1>1, <1>2, TotalOfSubset
  <1> QED
    BY <1>3, <1>4, <1>5

\* The total depends only on the weights of the members.
LEMMA TotalSame ==
    ASSUME NEW w, NEW v, NEW S, IsFiniteSet(S), \A x \in S : w[x] = v[x]
    PROVE  Total(w, S) = Total(v, S)
  <1>1. PICK g : SumsUp(g, w, S)
    BY SumsExist
  <1>2. PICK h : SumsUp(h, v, S)
    BY SumsExist
  <1>3. g[S] = h[S]
    BY <1>1, <1>2, SumsAgree
  <1> QED
    BY <1>1, <1>2, <1>3, TotalIsSum

\* The totals of two disjoint sets add up.
LEMMA TotalUnion ==
    ASSUME NEW w, NEW A, IsFiniteSet(A), NEW B, IsFiniteSet(B), A \cap B = {},
           \A x \in A \cup B : w[x] \in Nat
    PROVE  Total(w, A \cup B) = Total(w, A) + Total(w, B)
  <1> DEFINE Good == {T \in SUBSET B : Total(w, A \cup T) = Total(w, A) + Total(w, T)}
  <1>1. ASSUME NEW T \in SUBSET B, \A U \in SUBSET T : U # T => U \in Good
        PROVE  T \in Good
    <2>1. CASE T = {}
      <3>1. Total(w, A) \in Nat
        BY TotalType
      <3>2. A \cup T = A /\ Total(w, T) = 0
        BY <2>1, TotalEmpty
      <3> QED
        BY <3>1, <3>2
    <2>2. CASE T # {}
      <3>1. PICK x : x \in T
        BY <2>2
      <3> DEFINE U == T \ {x}
      <3>2. U \in Good /\ U \in SUBSET B /\ x \notin U /\ x \notin A \cup U
        BY <1>1, <3>1
      <3>3. IsFiniteSet(U) /\ IsFiniteSet(A \cup U)
        BY <3>2, FS_Subset, FS_Union
      <3>4. T = U \cup {x} /\ A \cup T = (A \cup U) \cup {x}
        BY <3>1
      <3>5. Total(w, T) = Total(w, U) + w[x]
        BY <3>2, <3>3, <3>4, TotalAdd
      <3>6. Total(w, A \cup T) = Total(w, A \cup U) + w[x]
        BY <3>2, <3>3, <3>4, TotalAdd
      <3>7. Total(w, A) \in Nat /\ Total(w, U) \in Nat /\ w[x] \in Nat
        BY <3>1, <3>3, TotalType
      <3>8. Total(w, A \cup U) = Total(w, A) + Total(w, U)
        BY <3>2
      <3> HIDE DEF U
      <3> QED
        BY <3>5, <3>6, <3>7, <3>8
    <2> QED
      BY <2>1, <2>2
  <1>2. \A T \in SUBSET B : T \in Good
    <2> HIDE DEF Good
    <2> QED
      BY <1>1, SubsetInduction
  <1> QED
    BY <1>2

\* A part weighs no more than the whole.
LEMMA TotalPart ==
    ASSUME NEW w, NEW S, IsFiniteSet(S), NEW T \in SUBSET S,
           \A x \in S : w[x] \in Nat
    PROVE  Total(w, T) <= Total(w, S)
  <1> DEFINE D == S \ T
  <1>1. IsFiniteSet(T) /\ IsFiniteSet(D)
    BY FS_Subset
  <1>2. T \cup D = S /\ T \cap D = {}
    OBVIOUS
  <1>3. Total(w, T \cup D) = Total(w, T) + Total(w, D)
    BY <1>1, <1>2, TotalUnion
  <1>4. Total(w, T) \in Nat /\ Total(w, D) \in Nat
    BY <1>1, TotalType
  <1>5. Total(w, S) = Total(w, T) + Total(w, D)
    BY <1>2, <1>3, Zenon
  <1> HIDE DEF D
  <1> QED
    BY <1>4, <1>5

\* Renaming the members leaves the total alone.
LEMMA TotalImage ==
    ASSUME NEW w, NEW v, NEW f, NEW S, IsFiniteSet(S),
           \A x, y \in S : f[x] = f[y] => x = y,
           \A x \in S : v[x] \in Nat /\ w[f[x]] = v[x]
    PROVE  Total(w, {f[x] : x \in S}) = Total(v, S)
  <1> DEFINE Im(T) == {f[x] : x \in T}
             Good == {T \in SUBSET S : IsFiniteSet(Im(T)) /\ Total(w, Im(T)) = Total(v, T)}
  <1>1. ASSUME NEW T \in SUBSET S, \A U \in SUBSET T : U # T => U \in Good
        PROVE  T \in Good
    <2>1. CASE T = {}
      <3>1. Im(T) = {}
        BY <2>1
      <3> QED
        BY <2>1, <3>1, TotalEmpty, FS_EmptySet
    <2>2. CASE T # {}
      <3>1. PICK x : x \in T
        BY <2>2
      <3> DEFINE U == T \ {x}
      <3>2. U \in Good /\ x \notin U /\ T = U \cup {x}
        BY <1>1, <3>1
      <3>3. IsFiniteSet(U)
        BY FS_Subset
      <3>4. Im(T) = Im(U) \cup {f[x]} /\ f[x] \notin Im(U)
        BY <3>1
      <3>5. IsFiniteSet(Im(U)) /\ Total(w, Im(U)) = Total(v, U)
        BY <3>2
      <3>6. \A y \in Im(U) \cup {f[x]} : w[y] \in Nat
        BY <3>1
      <3>7. \A y \in U \cup {x} : v[y] \in Nat
        BY <3>1
      <3> HIDE DEF Im, U
      <3>8. Total(v, T) = Total(v, U) + v[x]
        BY <3>2, <3>3, <3>7, TotalAdd
      <3>9. Total(w, Im(T)) = Total(w, Im(U)) + w[f[x]]
        BY <3>4, <3>5, <3>6, TotalAdd
      <3>10. IsFiniteSet(Im(T))
        BY <3>4, <3>5, FS_AddElement
      <3> QED
        BY <3>1, <3>5, <3>8, <3>9, <3>10
    <2> QED
      BY <2>1, <2>2
  <1>2. \A T \in SUBSET S : T \in Good
    <2> HIDE DEF Good
    <2> QED
      BY <1>1, SubsetInduction
  <1> QED
    BY <1>2

\* The members of the sets R[x], each with the x it is counted for.
Pairs(R, S) == UNION {{x} \X R[x] : x \in S}

\* Adding up cardinalities counts the pairs.
LEMMA TotalOfSizes ==
    ASSUME NEW S, IsFiniteSet(S), NEW R, \A x \in S : IsFiniteSet(R[x])
    PROVE  /\ IsFiniteSet(Pairs(R, S))
           /\ Cardinality(Pairs(R, S)) = Total([x \in S |-> Cardinality(R[x])], S)
  <1> DEFINE w == [x \in S |-> Cardinality(R[x])]
             Good == {T \in SUBSET S : /\ IsFiniteSet(Pairs(R, T))
                                       /\ Cardinality(Pairs(R, T)) = Total(w, T)}
  <1>0. \A x \in S : w[x] \in Nat
    BY FS_CardinalityType
  <1>1. ASSUME NEW T \in SUBSET S, \A U \in SUBSET T : U # T => U \in Good
        PROVE  T \in Good
    <2>1. CASE T = {}
      <3>1. Pairs(R, T) = {}
        BY <2>1 DEF Pairs
      <3> QED
        BY <2>1, <3>1, TotalEmpty, FS_EmptySet
    <2>2. CASE T # {}
      <3>1. PICK x : x \in T
        BY <2>2
      <3> DEFINE U == T \ {x}
                 P == {x} \X R[x]
      <3>2. U \in Good /\ x \notin U /\ T = U \cup {x}
        BY <1>1, <3>1
      <3>3. IsFiniteSet(U)
        BY FS_Subset
      <3>4. Pairs(R, T) = Pairs(R, U) \cup P /\ Pairs(R, U) \cap P = {}
        BY <3>1 DEF Pairs
      <3>5. IsFiniteSet(P) /\ Cardinality(P) = w[x]
        <4>1. IsFiniteSet({x}) /\ Cardinality({x}) = 1
          BY FS_Singleton
        <4>2. IsFiniteSet(R[x]) /\ w[x] = Cardinality(R[x]) /\ Cardinality(R[x]) \in Nat
          BY <3>1, FS_CardinalityType
        <4>3. IsFiniteSet(P) /\ Cardinality(P) = Cardinality({x}) * Cardinality(R[x])
          BY <4>1, <4>2, FS_Product
        <4> QED
          BY <4>1, <4>2, <4>3
      <3>6. Total(w, T) = Total(w, U) + w[x]
        <4>1. \A y \in U \cup {x} : w[y] \in Nat
          BY <1>0, <3>2
        <4> HIDE DEF U, w
        <4> QED
          BY <3>2, <3>3, <4>1, TotalAdd
      <3>7. IsFiniteSet(Pairs(R, U)) /\ Cardinality(Pairs(R, U)) = Total(w, U)
        BY <3>2
      <3>8. w[x] \in Nat /\ Total(w, U) \in Nat
        BY <1>0, <3>1, <3>3, TotalType
      <3> HIDE DEF P, U, w
      <3>9. /\ IsFiniteSet(Pairs(R, T))
            /\ Cardinality(Pairs(R, T)) = Cardinality(Pairs(R, U)) + Cardinality(P) - 0
        BY <3>4, <3>5, <3>7, FS_Union, FS_EmptySet
      <3> QED
        BY <3>5, <3>6, <3>7, <3>8, <3>9
    <2> QED
      BY <2>1, <2>2
  <1>2. \A T \in SUBSET S : T \in Good
    <2> HIDE DEF Good
    <2> QED
      BY <1>1, SubsetInduction
  <1> QED
    BY <1>2

\* Smaller weights give a smaller total.
LEMMA TotalLeq ==
    ASSUME NEW S, IsFiniteSet(S), NEW w, NEW v,
           \A x \in S : w[x] \in Nat /\ v[x] \in Nat /\ w[x] <= v[x]
    PROVE  Total(w, S) <= Total(v, S)
  <1> DEFINE Good == {T \in SUBSET S : Total(w, T) <= Total(v, T)}
  <1>1. ASSUME NEW T \in SUBSET S, \A U \in SUBSET T : U # T => U \in Good
        PROVE  T \in Good
    <2>1. CASE T = {}
      BY <2>1, TotalEmpty
    <2>2. CASE T # {}
      <3>1. PICK x : x \in T
        BY <2>2
      <3> DEFINE U == T \ {x}
      <3>2. U \in Good /\ x \notin U /\ T = U \cup {x}
        BY <1>1, <3>1
      <3>3. IsFiniteSet(U) /\ \A y \in U \cup {x} : w[y] \in Nat /\ v[y] \in Nat
        BY <3>1, FS_Subset
      <3>4. Total(w, U) <= Total(v, U) /\ w[x] <= v[x] /\ w[x] \in Nat /\ v[x] \in Nat
        BY <3>1, <3>2
      <3> HIDE DEF U
      <3>5. Total(w, U) \in Nat /\ Total(v, U) \in Nat
        BY <3>3, TotalType
      <3>6. Total(w, T) = Total(w, U) + w[x] /\ Total(v, T) = Total(v, U) + v[x]
        BY <3>2, <3>3, TotalAdd
      <3>7. Total(w, T) <= Total(v, T)
        BY <3>4, <3>5, <3>6
      <3> QED
        BY <3>7
    <2> QED
      BY <2>1, <2>2
  <1>2. \A T \in SUBSET S : T \in Good
    <2> HIDE DEF Good
    <2> QED
      BY <1>1, SubsetInduction
  <1> QED
    BY <1>2

\* One weight that grows by 1 makes the total grow by 1.
LEMMA TotalBump ==
    ASSUME NEW S, IsFiniteSet(S), NEW w, NEW v, NEW k \in S,
           \A x \in S : w[x] \in Nat,
           v[k] = w[k] + 1, \A x \in S : x # k => v[x] = w[x]
    PROVE  Total(v, S) = Total(w, S) + 1
  <1> DEFINE U == S \ {k}
  <1>1. k \notin U /\ S = U \cup {k}
    OBVIOUS
  <1>2. IsFiniteSet(U)
    BY FS_Subset
  <1>3. \A y \in U \cup {k} : w[y] \in Nat /\ v[y] \in Nat
    OBVIOUS
  <1>4. \A x \in U : v[x] = w[x]
    OBVIOUS
  <1> HIDE DEF U
  <1>5. Total(w, S) = Total(w, U) + w[k] /\ Total(v, S) = Total(v, U) + v[k]
    BY <1>1, <1>2, <1>3, TotalAdd
  <1>6. Total(v, U) = Total(w, U) /\ Total(w, U) \in Nat
    BY <1>2, <1>3, <1>4, TotalSame, TotalType
  <1> QED
    BY <1>5, <1>6

-----------------------------------------------------------------------------
(* What is left of a sequence. *)

\* f is the recursive function of Kept.
Keeps(f, s, S) ==
    f = [i \in 0 .. Len(s) |->
            IF i = 0 THEN <<>>
            ELSE IF s[i] \in S THEN Append(f[i - 1], s[i]) ELSE f[i - 1]]

\* A set of naturals that has the successor of each member and 0 has them all up to n.
LEMMA UpTo ==
    ASSUME NEW n \in Nat, NEW Good, 0 \in Good,
           \A i \in 1 .. n : i - 1 \in Good => i \in Good
    PROVE  \A i \in 0 .. n : i \in Good
  <1> DEFINE Bad == {i \in 0 .. n : i \notin Good}
  <1> SUFFICES ASSUME Bad # {} PROVE FALSE
    OBVIOUS
  <1>1. PICK x \in Bad : \A y \in Bad : x <= y
    <2>1. Bad \subseteq Nat
      OBVIOUS
    <2> HIDE DEF Bad
    <2> QED
      BY <2>1, LeastNatural
  <1>2. CASE x = 0
    BY <1>1, <1>2
  <1>3. CASE x # 0
    <2>1. x \in 1 .. n /\ x - 1 \in 0 .. n /\ x - 1 < x
      BY <1>3
    <2>2. x - 1 \in Good
      BY <2>1, <1>1
    <2> QED
      BY <2>1, <2>2
  <1> QED
    BY <1>2, <1>3

\* f begins with b and goes from value to value with G.
Solution(f, n, T, b, G) ==
    f \in [0 .. n -> T] /\ f[0] = b /\ \A i \in 1 .. n : f[i] = G[i][f[i - 1]]

\* A recursive function has a value at every step.
LEMMA Recursion ==
    ASSUME NEW n \in Nat, NEW T, NEW b \in T, NEW G \in [1 .. n -> [T -> T]]
    PROVE  \E f : Solution(f, n, T, b, G)
  <1> DEFINE Solves(f, k) == f[0] = b /\ \A i \in 1 .. k : f[i] = G[i][f[i - 1]]
             Good == {k \in 0 .. n : \E f \in [0 .. k -> T] : Solves(f, k)}
  <1>1. 0 \in Good
    <2> DEFINE f == [i \in 0 .. 0 |-> b]
    <2>1. f \in [0 .. 0 -> T] /\ Solves(f, 0)
      OBVIOUS
    <2> HIDE DEF f
    <2>2. 0 \in 0 .. n /\ \E g \in [0 .. 0 -> T] : Solves(g, 0)
      BY <2>1
    <2> QED
      BY <2>2
  <1>2. ASSUME NEW k \in 1 .. n, k - 1 \in Good PROVE k \in Good
    <2>1. PICK f \in [0 .. k - 1 -> T] : Solves(f, k - 1)
      BY <1>2
    <2> DEFINE g == [i \in 0 .. k |-> IF i = k THEN G[k][f[k - 1]] ELSE f[i]]
    <2>2. G[k] \in [T -> T] /\ f[k - 1] \in T /\ \A i \in 0 .. k - 1 : f[i] \in T
      OBVIOUS
    <2>3. g \in [0 .. k -> T]
      BY <2>2
    <2>4. ASSUME NEW i \in 1 .. k PROVE g[i] = G[i][g[i - 1]]
      <3>1. g[i - 1] = f[i - 1]
        OBVIOUS
      <3>2. CASE i = k
        BY <3>1, <3>2
      <3>3. CASE i # k
        BY <2>1, <3>1, <3>3
      <3> QED
        BY <3>2, <3>3
    <2>5. g[0] = b
      BY <2>1
    <2> HIDE DEF g
    <2>6. k \in 0 .. n /\ Solves(g, k)
      BY <2>4, <2>5
    <2> HIDE DEF Solves
    <2> QED
      BY <2>3, <2>6
  <1>3. n \in Good
    <2>1. n \in 0 .. n
      OBVIOUS
    <2> HIDE DEF Good
    <2> QED
      BY <1>1, <1>2, <2>1, UpTo
  <1> QED
    BY <1>3 DEF Solution

\* The recursion has a solution.
LEMMA KeepsExist ==
    ASSUME NEW n \in Nat, NEW s, Len(s) = n, NEW S
    PROVE  \E f : Keeps(f, s, S)
  <1> DEFINE Upto(f, k) ==
                 f = [i \in 0 .. k |->
                        IF i = 0 THEN <<>>
                        ELSE IF s[i] \in S THEN Append(f[i - 1], s[i]) ELSE f[i - 1]]
             Good == {k \in 0 .. n : \E f : Upto(f, k)}
  <1>1. 0 \in Good
    <2>1. Upto([i \in 0 .. 0 |-> <<>>], 0)
      OBVIOUS
    <2>2. \E f : Upto(f, 0)
      BY <2>1
    <2> QED
      BY <2>2
  <1>2. ASSUME NEW k \in 1 .. n, k - 1 \in Good PROVE k \in Good
    <2>1. PICK f : Upto(f, k - 1)
      BY <1>2
    <2> DEFINE last == IF s[k] \in S THEN Append(f[k - 1], s[k]) ELSE f[k - 1]
               g == [i \in 0 .. k |-> IF i = k THEN last ELSE f[i]]
    <2>2. ASSUME NEW i \in 0 .. k
          PROVE  g[i] = IF i = 0 THEN <<>>
                        ELSE IF s[i] \in S THEN Append(g[i - 1], s[i]) ELSE g[i - 1]
      <3>1. i # 0 => g[i - 1] = f[i - 1]
        OBVIOUS
      <3>2. CASE i = k
        BY <3>1, <3>2
      <3>3. CASE i # k
        <4>1. i \in 0 .. k - 1 /\ g[i] = f[i]
          BY <3>3
        <4>2. f[i] = IF i = 0 THEN <<>>
                     ELSE IF s[i] \in S THEN Append(f[i - 1], s[i]) ELSE f[i - 1]
          BY <2>1, <4>1
        <4> QED
          BY <3>1, <4>1, <4>2
      <3> QED
        BY <3>2, <3>3
    <2>3. Upto(g, k)
      BY <2>2
    <2>4. k \in 0 .. n
      OBVIOUS
    <2> HIDE DEF g
    <2>5. \E h : Upto(h, k)
      BY <2>3
    <2> QED
      BY <2>4, <2>5
  <1>3. n \in Good
    <2>1. n \in 0 .. n
      OBVIOUS
    <2> HIDE DEF Good
    <2> QED
      BY <1>1, <1>2, <2>1, UpTo
  <1> QED
    BY <1>3 DEF Keeps

\* Kept is that solution, so one step of it is as it is defined.
LEMMA KeptStep ==
    ASSUME NEW n \in Nat, NEW s, Len(s) = n, NEW S
    PROVE  /\ Kept(s, S)[0] = <<>>
           /\ \A i \in 1 .. n :
                 Kept(s, S)[i] = IF s[i] \in S THEN Append(Kept(s, S)[i - 1], s[i])
                                 ELSE Kept(s, S)[i - 1]
  <1>1. \E f : Keeps(f, s, S)
    BY KeepsExist
  <1>2. Keeps(Kept(s, S), s, S)
    BY <1>1, Zenon DEF Keeps, Kept
  <1> DEFINE f == Kept(s, S)
  <1>3. f = [i \in 0 .. Len(s) |->
            IF i = 0 THEN <<>>
            ELSE IF s[i] \in S THEN Append(f[i - 1], s[i]) ELSE f[i - 1]]
    BY <1>2, Zenon DEF Keeps
  <1> HIDE DEF f
  <1>4. \A i \in 0 .. n :
           f[i] = IF i = 0 THEN <<>>
                  ELSE IF s[i] \in S THEN Append(f[i - 1], s[i]) ELSE f[i - 1]
    BY <1>3, Zenon
  <1>5. /\ f[0] = <<>>
        /\ \A i \in 1 .. n : f[i] = IF s[i] \in S THEN Append(f[i - 1], s[i]) ELSE f[i - 1]
    <2>1. 0 \in 0 .. n /\ \A i \in 1 .. n : i \in 0 .. n /\ i # 0
      OBVIOUS
    <2> QED
      BY <1>4, <2>1, Zenon
  <1> QED
    BY <1>5 DEF f

\* What is retained is a sequence of elements of s that are in S.
LEMMA RetainedIn ==
    ASSUME NEW T, NEW s \in Seq(T), NEW S
    PROVE  Retain(s, S) \in Seq({x \in S : \E i \in DOMAIN s : s[i] = x})
  <1> DEFINE R == {x \in S : \E i \in DOMAIN s : s[i] = x}
             n == Len(s)
             f == Kept(s, S)
             Good == {k \in 0 .. n : f[k] \in Seq(R)}
  <1>0. n \in Nat /\ DOMAIN s = 1 .. n
    OBVIOUS
  <1>1. /\ f[0] = <<>>
        /\ \A i \in 1 .. n : f[i] = IF s[i] \in S THEN Append(f[i - 1], s[i]) ELSE f[i - 1]
    <2> HIDE DEF n
    <2> QED
      BY <1>0, KeptStep DEF n
  <1> HIDE DEF f, n
  <1>2. 0 \in Good
    <2>1. <<>> \in Seq(R) /\ 0 \in 0 .. n
      BY <1>0
    <2> QED
      BY <1>1, <2>1, Zenon
  <1>3. ASSUME NEW k \in 1 .. n, k - 1 \in Good PROVE k \in Good
    <2>1. f[k - 1] \in Seq(R) /\ k \in 0 .. n
      BY <1>0, <1>3
    <2>2. CASE s[k] \in S
      <3>1. s[k] \in R
        BY <1>0, <2>2
      <3>2. f[k] = Append(f[k - 1], s[k])
        BY <1>1, <2>2
      <3>3. Append(f[k - 1], s[k]) \in Seq(R)
        <4> HIDE DEF R
        <4> QED
          BY <2>1, <3>1, AppendProperties
      <3> QED
        BY <2>1, <3>2, <3>3, Zenon
    <2>3. CASE s[k] \notin S
      BY <1>1, <2>1, <2>3
    <2> QED
      BY <2>2, <2>3
  <1>4. n \in Good
    <2> HIDE DEF Good
    <2> QED
      BY <1>0, <1>2, <1>3, UpTo
  <1> QED
    BY <1>4 DEF f, n, Retain


\* Nothing is left only of a sequence that has nothing in S.
LEMMA NothingRetained ==
    ASSUME NEW T, NEW s \in Seq(T), NEW S, Retain(s, S) = <<>>
    PROVE  \A i \in DOMAIN s : s[i] \notin S
  <1> DEFINE n == Len(s)
             f == Kept(s, S)
             Good == {k \in 0 .. n : /\ f[k] \in Seq(T)
                                     /\ f[k] = <<>> => \A i \in 1 .. k : s[i] \notin S}
  <1>0. n \in Nat /\ DOMAIN s = 1 .. n /\ \A i \in 1 .. n : s[i] \in T
    BY LenProperties, ElementOfSeq
  <1>1. /\ f[0] = <<>>
        /\ \A i \in 1 .. n : f[i] = IF s[i] \in S THEN Append(f[i - 1], s[i]) ELSE f[i - 1]
    <2> HIDE DEF n
    <2> QED
      BY <1>0, KeptStep DEF n
  <1>2. f[n] = <<>>
    BY Zenon DEF Retain
  <1> HIDE DEF f, n
  <1>3. 0 \in Good
    <2>1. <<>> \in Seq(T) /\ 0 \in 0 .. n /\ \A i \in 1 .. 0 : s[i] \notin S
      BY <1>0
    <2> QED
      BY <1>1, <2>1, Zenon
  <1>4. ASSUME NEW k \in 1 .. n, k - 1 \in Good PROVE k \in Good
    <2>1. /\ f[k - 1] \in Seq(T) /\ k \in 0 .. n /\ s[k] \in T
          /\ f[k - 1] = <<>> => \A i \in 1 .. k - 1 : s[i] \notin S
      BY <1>0, <1>4
    <2>2. CASE s[k] \in S
      <3>1. f[k] = Append(f[k - 1], s[k])
        BY <1>1, <2>2
      <3>2. Append(f[k - 1], s[k]) \in Seq(T) /\ Append(f[k - 1], s[k]) # <<>>
        BY <2>1, AppendProperties
      <3> QED
        BY <2>1, <3>1, <3>2, Zenon
    <2>3. CASE s[k] \notin S
      <3>1. f[k] = f[k - 1]
        BY <1>1, <2>3
      <3>2. f[k] = <<>> => \A i \in 1 .. k : s[i] \notin S
        <4>1. \A i \in 1 .. k : i = k \/ i \in 1 .. k - 1
          BY <1>0
        <4> QED
          BY <2>1, <2>3, <3>1, <4>1, Zenon
      <3> QED
        BY <2>1, <3>1, <3>2, Zenon
    <2> QED
      BY <2>2, <2>3
  <1>5. n \in Good
    <2>1. n \in 0 .. n
      BY <1>0
    <2> HIDE DEF Good
    <2> QED
      BY <1>0, <1>3, <1>4, <2>1, UpTo
  <1> QED
    BY <1>0, <1>2, <1>5
=============================================================================
