---------------------------- MODULE FoldTheorems ----------------------------
(***************************************************************************)
(* What FoldLeft of the community modules preserves: a property that holds *)
(* of the base and that Op keeps for every element of the sequence holds   *)
(* of the result.  The provers cannot instantiate a lemma that takes an    *)
(* operator, so Op and the property are parameters of the module, and a    *)
(* module that folds with an operator takes an instance for it.            *)
(***************************************************************************)
EXTENDS SumTheorems

CONSTANTS Op(_, _), Holds(_)

\* The element that is applied last.
Greatest(s) == CHOOSE n \in s : \A m \in s : n >= m

\* One step of the iteration over the positions of the sequence.
FoldOver(base, seq, g, s) ==
  IF s = {} THEN base ELSE Op(g[s \ {Greatest(s)}], seq[Greatest(s)])

\* g is the recursive function the fold over the positions in S is.
Folds(base, seq, g, S) == g = [s \in SUBSET S |-> FoldOver(base, seq, g, s)]

\* The fold, as it is defined in the community modules.
Folded(base, seq) == (CHOOSE g : Folds(base, seq, g, DOMAIN seq))[DOMAIN seq]

\* A finite set of positions that is not empty has a greatest one.
LEMMA GreatestIn ==
  ASSUME NEW s, s # {}, IsFiniteSet(s), s \subseteq Int PROVE Greatest(s) \in s
<1> DEFINE Good == {T \in SUBSET s : T # {} => \E n \in T : \A m \in T : n >= m}
<1>1. ASSUME NEW T \in SUBSET s, \A U \in SUBSET T : U # T => U \in Good
      PROVE  T \in Good
  <2> SUFFICES ASSUME NEW e \in T PROVE \E n \in T : \A m \in T : n >= m
    OBVIOUS
  <2>1. T \ {e} \in Good
    BY <1>1
  <2>2. CASE T \ {e} = {}
    BY <2>2
  <2>3. CASE T \ {e} # {}
    <3>1. PICK n \in T \ {e} : \A m \in T \ {e} : n >= m
      BY <2>1, <2>3
    <3>2. n \in Int /\ e \in Int /\ \A m \in T : m \in Int
      OBVIOUS
    <3>3. CASE n >= e
      BY <3>1, <3>3
    <3>4. CASE e >= n
      <4>1. \A m \in T : e >= m
        BY <3>1, <3>2, <3>4
      <4> QED
        BY <4>1
    <3> QED
      BY <3>2, <3>3, <3>4
  <2> QED
    BY <2>2, <2>3
<1> HIDE DEF Good
<1>2. s \in Good
  BY <1>1, SubsetInduction
<1> QED
  BY <1>2 DEF Good, Greatest

\* Two iterations agree where both are defined.
LEMMA FoldsAgree ==
  ASSUME NEW base, NEW seq, NEW g, NEW h, NEW A, NEW B,
         Folds(base, seq, g, A), Folds(base, seq, h, B),
         NEW C \in SUBSET (A \cap B), IsFiniteSet(C), C \subseteq Int
  PROVE  g[C] = h[C]
<1> DEFINE Good == {T \in SUBSET C : g[T] = h[T]}
<1>1. ASSUME NEW T \in SUBSET C, \A U \in SUBSET T : U # T => U \in Good
      PROVE  T \in Good
  <2>1. g[T] = FoldOver(base, seq, g, T) /\ h[T] = FoldOver(base, seq, h, T)
    BY DEF Folds
  <2>2. CASE T = {}
    BY <2>1, <2>2 DEF FoldOver
  <2>3. CASE T # {}
    <3>1. IsFiniteSet(T) /\ T \subseteq Int
      BY FS_Subset
    <3>2. T \ {Greatest(T)} \in Good
      BY <1>1, <2>3, <3>1, GreatestIn
    <3> QED
      BY <2>1, <2>3, <3>2 DEF FoldOver
  <2> QED
    BY <2>2, <2>3
<1> HIDE DEF Good
<1>2. C \in Good
  BY <1>1, SubsetInduction
<1> QED
  BY <1>2 DEF Good

\* A finite set of positions has an iteration.
LEMMA FoldExists ==
  ASSUME NEW base, NEW seq, NEW S, IsFiniteSet(S), S \subseteq Int
  PROVE  \E g : Folds(base, seq, g, S)
<1> DEFINE Good == {T \in SUBSET S : \E g : Folds(base, seq, g, T)}
<1>1. ASSUME NEW T \in SUBSET S, \A U \in SUBSET T : U # T => U \in Good
      PROVE  T \in Good
  <2> DEFINE on(U) == CHOOSE g : Folds(base, seq, g, U)
             below == [s \in SUBSET T |-> on(s)[s]]
             all == [s \in SUBSET T |-> FoldOver(base, seq, below, s)]
  <2>0. \A s \in SUBSET T : IsFiniteSet(s) /\ s \subseteq Int
    BY FS_Subset
  <2>1. \A U \in SUBSET T : U # T => Folds(base, seq, on(U), U)
    BY <1>1
  <2> HIDE DEF on
  <2>2. ASSUME NEW s \in SUBSET T, s # T
        PROVE  all[s] = below[s]
    <3>1. below[s] = FoldOver(base, seq, on(s), s)
      BY <2>1, <2>2 DEF Folds
    <3>2. CASE s = {}
      BY <3>1, <3>2 DEF FoldOver
    <3>3. CASE s # {}
      <4> DEFINE u == s \ {Greatest(s)}
      <4>1. u \in SUBSET s /\ u # T /\ u \in SUBSET T
        BY <2>2
      <4>2. on(s)[u] = on(u)[u]
        <5>1. /\ Folds(base, seq, on(s), s) /\ Folds(base, seq, on(u), u) /\ u \in SUBSET (s \cap u)
              /\ IsFiniteSet(u) /\ u \subseteq Int
          BY <2>0, <2>1, <2>2, <4>1
        <5> QED
          BY <5>1, FoldsAgree
      <4> QED
        BY <3>1, <3>3, <4>1, <4>2 DEF FoldOver
    <3> QED
      BY <3>2, <3>3
  <2>3. ASSUME NEW s \in SUBSET T
        PROVE  all[s] = FoldOver(base, seq, all, s)
    <3>1. CASE s = {}
      BY <3>1 DEF FoldOver
    <3>2. CASE s # {}
      <4>1. s \ {Greatest(s)} \in SUBSET T /\ s \ {Greatest(s)} # T
        BY <2>0, <3>2, GreatestIn
      <4>2. all[s \ {Greatest(s)}] = below[s \ {Greatest(s)}]
        BY <4>1, <2>2
      <4> QED
        BY <4>2 DEF FoldOver
    <3> QED
      BY <3>1, <3>2
  <2>4. all = [s \in SUBSET T |-> all[s]]
    OBVIOUS
  <2> HIDE DEF all
  <2>5. all = [s \in SUBSET T |-> FoldOver(base, seq, all, s)]
    BY <2>3, <2>4
  <2> QED
    BY <2>5 DEF Folds
<1> HIDE DEF Good
<1>2. S \in Good
  BY <1>1, SubsetInduction
<1> QED
  BY <1>2 DEF Good

\* What holds of the base and is kept by every element holds of the fold.
LEMMA FoldKeeps ==
  ASSUME NEW base, NEW seq, IsFiniteSet(DOMAIN seq), DOMAIN seq \subseteq Int,
         Holds(base),
         \A r : \A n \in DOMAIN seq : Holds(r) => Holds(Op(r, seq[n]))
  PROVE  Holds(Folded(base, seq))
<1> DEFINE g == CHOOSE g : Folds(base, seq, g, DOMAIN seq)
           Good == {T \in SUBSET DOMAIN seq : Holds(g[T])}
<1>1. Folds(base, seq, g, DOMAIN seq)
  BY FoldExists
<1> HIDE DEF g
<1>2. ASSUME NEW T \in SUBSET DOMAIN seq, \A U \in SUBSET T : U # T => U \in Good
      PROVE  T \in Good
  <2>1. g[T] = FoldOver(base, seq, g, T)
    BY <1>1 DEF Folds
  <2>2. CASE T = {}
    BY <2>1, <2>2 DEF FoldOver
  <2>3. CASE T # {}
    <3>1. Greatest(T) \in T
      BY <2>3, FS_Subset, GreatestIn
    <3>2. Holds(g[T \ {Greatest(T)}])
      BY <1>2, <3>1
    <3> QED
      BY <2>1, <2>3, <3>1, <3>2 DEF FoldOver
  <2> QED
    BY <2>2, <2>3
<1> HIDE DEF Good
<1>3. DOMAIN seq \in Good
  BY <1>2, SubsetInduction
<1> QED
  BY <1>3 DEF Good, Folded, g

\* The fold of a sequence is the last of its steps.
LEMMA FoldInSteps ==
  ASSUME NEW base, NEW seq, NEW n \in Nat, DOMAIN seq = 1 .. n
  PROVE  \E h : /\ h[0] = base
                /\ \A i \in 1 .. n : h[i] = Op(h[i - 1], seq[i])
                /\ h[n] = Folded(base, seq)
<1> DEFINE g == CHOOSE g : Folds(base, seq, g, DOMAIN seq)
           h == [i \in 0 .. n |-> g[1 .. i]]
<1>1. Folds(base, seq, g, 1 .. n)
  <2>1. IsFiniteSet(1 .. n) /\ 1 .. n \subseteq Int
    BY FS_Interval
  <2> QED
    BY <2>1, FoldExists
<1>2. Folded(base, seq) = g[1 .. n]
  BY DEF Folded
<1> HIDE DEF g
<1>3. \A i \in 0 .. n : 1 .. i \in SUBSET (1 .. n)
  OBVIOUS
<1>4. \A i \in 0 .. n : g[1 .. i] = FoldOver(base, seq, g, 1 .. i)
  BY <1>1, <1>3 DEF Folds
<1>5. h[0] = base
  <2>1. 1 .. 0 = {} /\ 0 \in 0 .. n
    OBVIOUS
  <2> QED
    BY <1>4, <2>1 DEF FoldOver
<1>6. ASSUME NEW i \in 1 .. n PROVE h[i] = Op(h[i - 1], seq[i])
  <2>1. /\ i \in 0 .. n /\ i - 1 \in 0 .. n
        /\ 1 .. i # {} /\ (1 .. i) \ {i} = 1 .. i - 1
    <3>1. i \in Nat /\ n \in Nat /\ 1 <= i /\ i <= n
      OBVIOUS
    <3>2. i \in 0 .. n /\ i - 1 \in 0 .. n /\ i \in 1 .. i
      BY <3>1
    <3>3. \A m : m \in (1 .. i) \ {i} <=> m \in 1 .. i - 1
      BY <3>1
    <3> QED
      BY <3>2, <3>3
  <2>2. Greatest(1 .. i) = i
    <3>1. Greatest(1 .. i) \in 1 .. i /\ \A m \in 1 .. i : Greatest(1 .. i) >= m
      <4>1. i \in 1 .. i /\ \A m \in 1 .. i : i >= m
        OBVIOUS
      <4> QED
        BY <4>1 DEF Greatest
    <3>2. i \in 1 .. i
      OBVIOUS
    <3>3. Greatest(1 .. i) >= i
      BY <3>1, <3>2
    <3> QED
      BY <3>1, <3>3
  <2>3. g[1 .. i] = Op(g[1 .. i - 1], seq[i])
    BY <1>4, <2>1, <2>2 DEF FoldOver
  <2> QED
    BY <2>1, <2>3
<1>7. h[n] = Folded(base, seq)
  BY <1>2
<1> QED
  BY <1>5, <1>6, <1>7

\* An element at the end is applied last.
LEMMA FoldAppends ==
  ASSUME NEW base, NEW seq, NEW longer, NEW n \in Nat, DOMAIN seq = 1 .. n,
         DOMAIN longer = 1 .. n + 1, \A i \in 1 .. n : longer[i] = seq[i]
  PROVE  Folded(base, longer) = Op(Folded(base, seq), longer[n + 1])
<1>1. PICK h : /\ h[0] = base
               /\ \A i \in 1 .. n : h[i] = Op(h[i - 1], seq[i])
               /\ h[n] = Folded(base, seq)
  BY FoldInSteps
<1>2. PICK k : /\ k[0] = base
               /\ \A i \in 1 .. n + 1 : k[i] = Op(k[i - 1], longer[i])
               /\ k[n + 1] = Folded(base, longer)
  <2>1. n + 1 \in Nat
    OBVIOUS
  <2> QED
    BY <2>1, FoldInSteps
<1> DEFINE Good == {i \in 0 .. n : h[i] = k[i]}
<1>3. 0 \in Good
  BY <1>1, <1>2
<1>4. ASSUME NEW i \in 1 .. n, i - 1 \in Good PROVE i \in Good
  <2>1. i \in 1 .. n + 1 /\ h[i - 1] = k[i - 1]
    BY <1>4
  <2> QED
    BY <1>1, <1>2, <2>1
<1>5. n \in Good
  <2> HIDE DEF Good
  <2>1. \A i \in 0 .. n : i \in Good
    BY <1>3, <1>4, CountingUp
  <2> QED
    BY <2>1
<1>6. n + 1 \in 1 .. n + 1 /\ (n + 1) - 1 = n
  OBVIOUS
<1> QED
  BY <1>1, <1>2, <1>5, <1>6
=============================================================================
