---------------------------- MODULE SumTheorems ----------------------------
(***************************************************************************)
(* Facts about SumFunction of the community modules: what a sum over a     *)
(* finite domain is, and what it becomes when a term is added, removed or  *)
(* changed.                                                                *)
(*                                                                         *)
(* There is no induction scheme to cite for them: an induction over a      *)
(* finite set takes its hypothesis as a set of subsets (SubsetInduction),  *)
(* and holds because strict inclusion of the subsets of a finite set is    *)
(* well founded.                                                           *)
(***************************************************************************)
EXTENDS Integers, Functions, FiniteSetTheorems, TLAPS

-----------------------------------------------------------------------------
(* Induction over a finite set *)

\* What holds of a subset when it holds of all smaller ones holds of the set.
LEMMA SubsetInduction ==
  ASSUME NEW S, IsFiniteSet(S), NEW Good,
         \A T \in SUBSET S : (\A U \in SUBSET T : U # T => U \in Good) => T \in Good
  PROVE  S \in Good
<1> DEFINE Bad == (SUBSET S) \ Good
<1>1. SUFFICES ASSUME Bad # {} PROVE FALSE
  OBVIOUS
<1>2. IsWellFoundedOn(StrictSubsetOrdering(S), SUBSET S)
  BY FS_StrictSubsetOrderingWellFounded, FS_FiniteSubsetsOfFinite
<1>3. PICK T \in Bad : \A U \in Bad : <<U, T>> \notin StrictSubsetOrdering(S)
  <2> HIDE DEF Bad
  <2>1. Bad \subseteq SUBSET S
    BY DEF Bad
  <2> QED
    BY <1>1, <1>2, <2>1, WFMin
<1>4. \A U \in SUBSET T : U # T => U \in Good
  BY <1>3 DEF StrictSubsetOrdering
<1> QED
  BY <1>4

-----------------------------------------------------------------------------
(* The recursive function a sum is defined by *)

\* The element the sum takes first.
Chosen(s) == CHOOSE x \in s : TRUE

\* One step of the iteration over a set.
SumOver(f, g, s) == IF s = {} THEN 0 ELSE f[Chosen(s)] + g[s \ {Chosen(s)}]

\* g is the recursive function the sum of f over the subsets of S is.
Iterates(f, g, S) == g = [s \in SUBSET S |-> SumOver(f, g, s)]

\* The sum of the community modules is that recursive function.
LEMMA SumUnfolds ==
  ASSUME NEW f, NEW S
  PROVE  SumFunctionOnSet(f, S) = (CHOOSE g : Iterates(f, g, S))[S]
BY DEF SumFunctionOnSet, FoldFunctionOnSet, MapThenFoldSet, Iterates, SumOver, Chosen

\* A set that has elements has the chosen one.
LEMMA ChosenIn ==
  ASSUME NEW s, s # {} PROVE Chosen(s) \in s
BY DEF Chosen

\* Two iterations agree where both are defined.
LEMMA IterationsAgree ==
  ASSUME NEW f, NEW g, NEW h, NEW A, NEW B,
         Iterates(f, g, A), Iterates(f, h, B),
         NEW C \in SUBSET (A \cap B), IsFiniteSet(C)
  PROVE  g[C] = h[C]
<1> DEFINE Good == {T \in SUBSET C : g[T] = h[T]}
<1>1. ASSUME NEW T \in SUBSET C, \A U \in SUBSET T : U # T => U \in Good
      PROVE  T \in Good
  <2>1. g[T] = SumOver(f, g, T) /\ h[T] = SumOver(f, h, T)
    BY DEF Iterates
  <2>2. CASE T = {}
    BY <2>1, <2>2 DEF SumOver
  <2>3. CASE T # {}
    <3>1. T \ {Chosen(T)} \in Good
      BY <1>1, <2>3, ChosenIn
    <3> QED
      BY <2>1, <2>3, <3>1 DEF SumOver
  <2> QED
    BY <2>2, <2>3
<1> HIDE DEF Good
<1>2. C \in Good
  BY <1>1, SubsetInduction
<1> QED
  BY <1>2 DEF Good

\* A finite set has an iteration.
LEMMA IterationExists ==
  ASSUME NEW f, NEW S, IsFiniteSet(S)
  PROVE  \E g : Iterates(f, g, S)
<1> DEFINE Good == {T \in SUBSET S : \E g : Iterates(f, g, T)}
<1>1. ASSUME NEW T \in SUBSET S, \A U \in SUBSET T : U # T => U \in Good
      PROVE  T \in Good
  <2> DEFINE on(U) == CHOOSE g : Iterates(f, g, U)
             below == [s \in SUBSET T |-> on(s)[s]]
             all == [s \in SUBSET T |-> SumOver(f, below, s)]
  <2>1. \A U \in SUBSET T : U # T => Iterates(f, on(U), U)
    BY <1>1
  <2> HIDE DEF on
  <2>2. ASSUME NEW s \in SUBSET T, s # T
        PROVE  all[s] = below[s]
    <3>1. below[s] = SumOver(f, on(s), s)
      BY <2>1, <2>2 DEF Iterates
    <3>2. CASE s = {}
      BY <3>1, <3>2 DEF SumOver
    <3>3. CASE s # {}
      <4> DEFINE u == s \ {Chosen(s)}
      <4>1. u \in SUBSET s /\ u # T /\ u \in SUBSET T
        BY <2>2
      <4>2. IsFiniteSet(u)
        BY <4>1, FS_Subset
      <4>3. on(s)[u] = on(u)[u]
        <5>1. Iterates(f, on(s), s) /\ Iterates(f, on(u), u) /\ u \in SUBSET (s \cap u)
          BY <2>1, <2>2, <4>1
        <5> QED
          BY <5>1, <4>2, IterationsAgree
      <4> QED
        BY <3>1, <3>3, <4>1, <4>3 DEF SumOver
    <3> QED
      BY <3>2, <3>3
  <2>3. ASSUME NEW s \in SUBSET T
        PROVE  all[s] = SumOver(f, all, s)
    <3>1. CASE s = {}
      BY <3>1 DEF SumOver
    <3>2. CASE s # {}
      <4>1. s \ {Chosen(s)} \in SUBSET T /\ s \ {Chosen(s)} # T
        BY <3>2, ChosenIn
      <4>2. all[s \ {Chosen(s)}] = below[s \ {Chosen(s)}]
        BY <4>1, <2>2
      <4> QED
        BY <4>2 DEF SumOver
    <3> QED
      BY <3>1, <3>2
  <2>4. all = [s \in SUBSET T |-> all[s]]
    OBVIOUS
  <2> HIDE DEF all
  <2>5. all = [s \in SUBSET T |-> SumOver(f, all, s)]
    BY <2>3, <2>4
  <2> QED
    BY <2>5 DEF Iterates
<1> HIDE DEF Good
<1>2. S \in Good
  BY <1>1, SubsetInduction
<1> QED
  BY <1>2 DEF Good

-----------------------------------------------------------------------------
(* Sums *)

\* The sum over no argument is 0.
LEMMA SumOfNothing ==
  ASSUME NEW f PROVE SumFunctionOnSet(f, {}) = 0
<1>1. IsFiniteSet({})
  BY FS_EmptySet
<1>2. Iterates(f, CHOOSE g : Iterates(f, g, {}), {})
  BY <1>1, IterationExists
<1> QED
  BY <1>2, SumUnfolds DEF Iterates, SumOver

\* A sum takes the chosen element first.
LEMMA SumStep ==
  ASSUME NEW f, NEW S, IsFiniteSet(S), S # {}
  PROVE  SumFunctionOnSet(f, S) = f[Chosen(S)] + SumFunctionOnSet(f, S \ {Chosen(S)})
<1> DEFINE on(T) == CHOOSE g : Iterates(f, g, T)
           rest == S \ {Chosen(S)}
<1>1. IsFiniteSet(rest)
  BY FS_Subset
<1>2. Iterates(f, on(S), S) /\ Iterates(f, on(rest), rest)
  BY <1>1, IterationExists
<1>3. SumFunctionOnSet(f, S) = on(S)[S] /\ SumFunctionOnSet(f, rest) = on(rest)[rest]
  BY SumUnfolds
<1> HIDE DEF on
<1>4. on(S)[rest] = on(rest)[rest]
  BY <1>1, <1>2, IterationsAgree
<1>5. on(S)[S] = f[Chosen(S)] + on(S)[rest]
  BY <1>2 DEF Iterates, SumOver
<1> QED
  BY <1>3, <1>4, <1>5

\* A sum is of the kind its values are.
LEMMA SumIsIn ==
  ASSUME NEW Kind, 0 \in Kind, \A a, b \in Kind : a + b \in Kind,
         NEW f, NEW S, IsFiniteSet(S), \A x \in S : f[x] \in Kind
  PROVE  SumFunctionOnSet(f, S) \in Kind
<1> DEFINE Good == {T \in SUBSET S : SumFunctionOnSet(f, T) \in Kind}
<1>1. ASSUME NEW T \in SUBSET S, \A U \in SUBSET T : U # T => U \in Good
      PROVE  T \in Good
  <2>1. CASE T = {}
    BY <2>1, SumOfNothing
  <2>2. CASE T # {}
    <3>1. Chosen(T) \in T /\ T \ {Chosen(T)} \in Good
      BY <2>2, <1>1, ChosenIn
    <3>2. IsFiniteSet(T)
      BY FS_Subset
    <3> QED
      BY <3>1, <3>2, <2>2, SumStep
  <2> QED
    BY <2>1, <2>2
<1> HIDE DEF Good
<1>2. S \in Good
  BY <1>1, SubsetInduction
<1> QED
  BY <1>2 DEF Good

\* A sum of integers is one,
LEMMA SumIsInt ==
  ASSUME NEW f, NEW S, IsFiniteSet(S), \A x \in S : f[x] \in Int
  PROVE  SumFunctionOnSet(f, S) \in Int
<1>1. 0 \in Int /\ \A a, b \in Int : a + b \in Int
  OBVIOUS
<1> QED
  BY <1>1, SumIsIn

\* and one of natural numbers too.
LEMMA SumIsNat ==
  ASSUME NEW f, NEW S, IsFiniteSet(S), \A x \in S : f[x] \in Nat
  PROVE  SumFunctionOnSet(f, S) \in Nat
<1>1. 0 \in Nat /\ \A a, b \in Nat : a + b \in Nat
  OBVIOUS
<1> QED
  BY <1>1, SumIsIn

\* A sum is that of any one element and the others.
LEMMA SumRemove ==
  ASSUME NEW f, NEW S, IsFiniteSet(S), \A x \in S : f[x] \in Int, NEW e \in S
  PROVE  SumFunctionOnSet(f, S) = f[e] + SumFunctionOnSet(f, S \ {e})
<1> DEFINE sum(T) == SumFunctionOnSet(f, T)
           Good == {T \in SUBSET S : \A x \in T : sum(T) = f[x] + sum(T \ {x})}
<1>0. \A T \in SUBSET S : IsFiniteSet(T) /\ sum(T) \in Int
  BY FS_Subset, SumIsInt
<1>1. ASSUME NEW T \in SUBSET S, \A U \in SUBSET T : U # T => U \in Good
      PROVE  T \in Good
  <2> SUFFICES ASSUME NEW x \in T PROVE sum(T) = f[x] + sum(T \ {x})
    OBVIOUS
  <2> DEFINE c == Chosen(T)
  <2>1. c \in T /\ sum(T) = f[c] + sum(T \ {c})
    BY <1>0, ChosenIn, SumStep
  <2>2. CASE x = c
    BY <2>1, <2>2
  <2>3. CASE x # c
    <3>1. T \ {c} \in Good /\ T \ {x} \in Good
      BY <1>1, <2>1
    <3>2. x \in T \ {c} /\ c \in T \ {x} /\ (T \ {c}) \ {x} = (T \ {x}) \ {c}
      BY <2>1, <2>3
    <3>3. sum(T \ {c}) = f[x] + sum((T \ {c}) \ {x})
      BY <3>1, <3>2
    <3>4. sum(T \ {x}) = f[c] + sum((T \ {c}) \ {x})
      BY <3>1, <3>2
    <3>5. /\ f[x] \in Int /\ f[c] \in Int /\ sum((T \ {c}) \ {x}) \in Int
          /\ sum(T) \in Int /\ sum(T \ {c}) \in Int /\ sum(T \ {x}) \in Int
      BY <1>0, <2>1
    <3> HIDE DEF sum, c
    <3> QED
      BY <2>1, <3>3, <3>4, <3>5
  <2> QED
    BY <2>2, <2>3
<1> HIDE DEF Good
<1>2. S \in Good
  BY <1>1, SubsetInduction
<1> QED
  BY <1>2 DEF Good

\* Only the values on the set matter.
LEMMA SumSame ==
  ASSUME NEW f, NEW g, NEW S, IsFiniteSet(S), \A x \in S : f[x] = g[x]
  PROVE  SumFunctionOnSet(f, S) = SumFunctionOnSet(g, S)
<1> DEFINE Good == {T \in SUBSET S : SumFunctionOnSet(f, T) = SumFunctionOnSet(g, T)}
<1>1. ASSUME NEW T \in SUBSET S, \A U \in SUBSET T : U # T => U \in Good
      PROVE  T \in Good
  <2>1. CASE T = {}
    BY <2>1, SumOfNothing
  <2>2. CASE T # {}
    <3>1. Chosen(T) \in T /\ T \ {Chosen(T)} \in Good
      BY <2>2, <1>1, ChosenIn
    <3>2. IsFiniteSet(T)
      BY FS_Subset
    <3>3. /\ SumFunctionOnSet(f, T) = f[Chosen(T)] + SumFunctionOnSet(f, T \ {Chosen(T)})
          /\ SumFunctionOnSet(g, T) = g[Chosen(T)] + SumFunctionOnSet(g, T \ {Chosen(T)})
      BY <3>2, <2>2, SumStep
    <3> QED
      BY <3>1, <3>3
  <2> QED
    BY <2>1, <2>2
<1> HIDE DEF Good
<1>2. S \in Good
  BY <1>1, SubsetInduction
<1> QED
  BY <1>2 DEF Good

-----------------------------------------------------------------------------
(* Sums of all the values of a function *)

\* A sum of integers is an integer.
LEMMA SumFunctionIsInt ==
  ASSUME NEW f, IsFiniteSet(DOMAIN f), \A x \in DOMAIN f : f[x] \in Int
  PROVE  SumFunction(f) \in Int
BY SumIsInt DEF SumFunction

\* A sum of naturals is a natural.
LEMMA SumFunctionIsNat ==
  ASSUME NEW f, IsFiniteSet(DOMAIN f), \A x \in DOMAIN f : f[x] \in Nat
  PROVE  SumFunction(f) \in Nat
BY SumIsNat DEF SumFunction

\* The sum of a function of no argument is 0.
LEMMA SumFunctionEmpty ==
  ASSUME NEW f, DOMAIN f = {} PROVE SumFunction(f) = 0
BY SumOfNothing DEF SumFunction

\* Functions with the same values have the same sum.
LEMMA SumFunctionSame ==
  ASSUME NEW f, NEW g, IsFiniteSet(DOMAIN f), DOMAIN g = DOMAIN f,
         \A x \in DOMAIN f : g[x] = f[x]
  PROVE  SumFunction(g) = SumFunction(f)
BY SumSame DEF SumFunction

\* The function gets one more argument.
LEMMA SumFunctionAdds ==
  ASSUME NEW f, NEW g, IsFiniteSet(DOMAIN f), \A x \in DOMAIN f : f[x] \in Int,
         NEW e, e \notin DOMAIN f, DOMAIN g = DOMAIN f \cup {e}, g[e] \in Int,
         \A x \in DOMAIN f : g[x] = f[x]
  PROVE  SumFunction(g) = SumFunction(f) + g[e]
<1>1. IsFiniteSet(DOMAIN g) /\ (DOMAIN g) \ {e} = DOMAIN f
  BY FS_AddElement
<1>2. SumFunctionOnSet(g, DOMAIN g) = g[e] + SumFunctionOnSet(g, DOMAIN f)
  BY <1>1, SumRemove
<1>3. SumFunctionOnSet(g, DOMAIN f) = SumFunctionOnSet(f, DOMAIN f)
  BY SumSame
<1>4. SumFunctionOnSet(f, DOMAIN f) \in Int
  BY SumIsInt
<1> QED
  BY <1>2, <1>3, <1>4 DEF SumFunction

\* One value of the function changes.
LEMMA SumFunctionChanges ==
  ASSUME NEW f, NEW g, IsFiniteSet(DOMAIN f), \A x \in DOMAIN f : f[x] \in Int,
         DOMAIN g = DOMAIN f, NEW e \in DOMAIN f, g[e] \in Int,
         \A x \in (DOMAIN f) \ {e} : g[x] = f[x]
  PROVE  SumFunction(g) = SumFunction(f) - f[e] + g[e]
<1> DEFINE rest == (DOMAIN f) \ {e}
<1>1. IsFiniteSet(rest)
  BY FS_RemoveElement
<1>2. /\ SumFunctionOnSet(f, DOMAIN f) = f[e] + SumFunctionOnSet(f, rest)
      /\ SumFunctionOnSet(g, DOMAIN f) = g[e] + SumFunctionOnSet(g, rest)
  BY SumRemove
<1>3. SumFunctionOnSet(g, rest) = SumFunctionOnSet(f, rest)
  BY <1>1, SumSame
<1>4. SumFunctionOnSet(f, rest) \in Int
  BY <1>1, SumIsInt
<1> QED
  BY <1>2, <1>3, <1>4 DEF SumFunction

\* The arguments are positions of a sequence that loses its head.
LEMMA SumFunctionShifts ==
  ASSUME NEW f, NEW g, IsFiniteSet(DOMAIN f), \A x \in DOMAIN f : f[x] \in Int,
         DOMAIN f \subseteq Nat \ {0},
         DOMAIN g = {j \in Nat \ {0} : j + 1 \in DOMAIN f},
         \A j \in DOMAIN g : g[j] = f[j + 1]
  PROVE  /\ IsFiniteSet(DOMAIN g)
         /\ SumFunction(f) = SumFunction(g) + (IF 1 \in DOMAIN f THEN f[1] ELSE 0)
<1> DEFINE next(T) == {j + 1 : j \in T}
           rest == (DOMAIN f) \ {1}
           Good == {T \in SUBSET DOMAIN g :
                      SumFunctionOnSet(g, T) = SumFunctionOnSet(f, next(T))}
<1>1. next(DOMAIN g) = rest /\ DOMAIN g = {j - 1 : j \in rest}
  <2>1. ASSUME NEW j \in rest PROVE j - 1 \in DOMAIN g /\ j - 1 + 1 = j
    BY <2>1
  <2>2. ASSUME NEW j \in DOMAIN g PROVE j + 1 \in rest /\ j + 1 - 1 = j
    BY <2>2
  <2> QED
    BY <2>1, <2>2
<1>2. IsFiniteSet(rest)
  BY FS_RemoveElement
<1>3. IsFiniteSet(DOMAIN g)
  <2> DEFINE succ == [j \in DOMAIN g |-> j + 1]
  <2>1. succ \in Injection(DOMAIN g, rest)
    BY <1>1 DEF Injection, IsInjective
  <2> QED
    BY <2>1, <1>2, FS_Injection
<1>4. ASSUME NEW T \in SUBSET DOMAIN g, \A U \in SUBSET T : U # T => U \in Good
      PROVE  T \in Good
  <2>1. CASE T = {}
    <3>1. next(T) = {}
      BY <2>1
    <3> QED
      BY <2>1, <3>1, SumOfNothing
  <2>2. CASE T # {}
    <3> DEFINE e == Chosen(T)
    <3>1. e \in T /\ e \in Nat \ {0} /\ T \ {e} \in Good /\ g[e] = f[e + 1]
      BY <2>2, <1>4, ChosenIn
    <3> HIDE DEF e
    <3>2. IsFiniteSet(T) /\ next(T) \subseteq rest /\ IsFiniteSet(next(T))
      <4>1. next(T) \subseteq rest
        BY <1>1
      <4> HIDE DEF next, rest
      <4> QED
        BY <4>1, <1>2, <1>3, FS_Subset
    <3>3. next(T \ {e}) = next(T) \ {e + 1} /\ e + 1 \in next(T)
      BY <3>1
    <3>4. \A x \in next(T) : f[x] \in Int
      BY <3>2
    <3>5. \A x \in T : g[x] \in Int
      BY <3>4
    <3>6. SumFunctionOnSet(g, T) = g[e] + SumFunctionOnSet(g, T \ {e})
      BY <3>1, <3>2, <3>5, SumRemove
    <3> HIDE DEF next
    <3>7. SumFunctionOnSet(f, next(T)) = f[e + 1] + SumFunctionOnSet(f, next(T) \ {e + 1})
      BY <3>2, <3>3, <3>4, SumRemove
    <3> QED
      BY <3>1, <3>3, <3>6, <3>7
  <2> QED
    BY <2>1, <2>2
<1>5. DOMAIN g \in Good
  <2> HIDE DEF Good
  <2> QED
    BY <1>3, <1>4, SubsetInduction
<1>6. SumFunctionOnSet(g, DOMAIN g) = SumFunctionOnSet(f, rest)
  BY <1>1, <1>5
<1>7. SumFunctionOnSet(f, rest) \in Int
  BY <1>2, SumIsInt
<1>8. CASE 1 \in DOMAIN f
  <2>1. SumFunctionOnSet(f, DOMAIN f) = f[1] + SumFunctionOnSet(f, rest)
    BY <1>8, SumRemove
  <2> QED
    BY <2>1, <1>3, <1>6, <1>7, <1>8 DEF SumFunction
<1>9. CASE 1 \notin DOMAIN f
  <2>1. rest = DOMAIN f
    BY <1>9
  <2> QED
    BY <2>1, <1>3, <1>6, <1>7, <1>9 DEF SumFunction
<1> QED
  BY <1>8, <1>9

-----------------------------------------------------------------------------
(* Fewer terms, and counting up *)

\* A sum of naturals with fewer terms is no more.
LEMMA SumFunctionFewer ==
  ASSUME NEW f, NEW g, IsFiniteSet(DOMAIN f), \A x \in DOMAIN f : f[x] \in Nat,
         DOMAIN g \subseteq DOMAIN f, \A x \in DOMAIN g : g[x] = f[x]
  PROVE  /\ SumFunction(g) <= SumFunction(f)
         /\ SumFunction(g) \in Nat /\ SumFunction(f) \in Nat
<1> DEFINE ids == DOMAIN g
           Good == {T \in SUBSET DOMAIN f :
                      ids \subseteq T => SumFunctionOnSet(f, ids) <= SumFunctionOnSet(f, T)}
<1>1. /\ \A T \in SUBSET DOMAIN f : IsFiniteSet(T) /\ SumFunctionOnSet(f, T) \in Nat
      /\ ids \in SUBSET DOMAIN f
  BY FS_Subset, SumIsNat
<1>2. SumFunctionOnSet(f, ids) = SumFunctionOnSet(g, ids)
  BY <1>1, SumSame
<1> HIDE DEF ids
<1>3. ASSUME NEW T \in SUBSET DOMAIN f, \A U \in SUBSET T : U # T => U \in Good
      PROVE  T \in Good
  <2> SUFFICES ASSUME ids \subseteq T
               PROVE  SumFunctionOnSet(f, ids) <= SumFunctionOnSet(f, T)
    OBVIOUS
  <2>1. CASE T = ids
    BY <1>1, <2>1
  <2>2. CASE T # ids
    <3>1. PICK e \in T : e \notin ids
      BY <2>2
    <3>2. T \ {e} \in Good /\ ids \subseteq T \ {e} /\ T \ {e} \in SUBSET DOMAIN f
      BY <1>3, <3>1
    <3>3. SumFunctionOnSet(f, T) = f[e] + SumFunctionOnSet(f, T \ {e})
      BY <1>1, SumRemove
    <3>4. f[e] \in Nat /\ SumFunctionOnSet(f, T \ {e}) \in Nat /\ SumFunctionOnSet(f, ids) \in Nat
      BY <1>1, <3>2
    <3>5. SumFunctionOnSet(f, ids) <= SumFunctionOnSet(f, T \ {e})
      BY <3>2
    <3> QED
      BY <3>3, <3>4, <3>5
  <2> QED
    BY <2>1, <2>2
<1> HIDE DEF Good
<1>4. DOMAIN f \in Good
  BY <1>3, SubsetInduction
<1> QED
  BY <1>1, <1>2, <1>4 DEF Good, SumFunction, ids

\* What holds of 0, and of the next number with every number, holds up to n.
LEMMA CountingUp ==
  ASSUME NEW n \in Nat, NEW Good, 0 \in Good,
         \A i \in 1 .. n : i - 1 \in Good => i \in Good
  PROVE  \A i \in 0 .. n : i \in Good
<1> DEFINE Fine == {T \in SUBSET (1 .. n) : \A i \in 0 .. n : T = 1 .. i => i \in Good}
<1>1. ASSUME NEW i \in 0 .. n, \A U \in SUBSET (1 .. i) : U # 1 .. i => U \in Fine
      PROVE  i \in Good
  <2>1. CASE i # 0
    <3>1. /\ 1 .. i - 1 \in SUBSET (1 .. i) /\ 1 .. i - 1 # 1 .. i
          /\ i - 1 \in 0 .. n /\ i \in 1 .. n
      <4>1. i \in 1 .. i /\ i \notin 1 .. i - 1
        BY <2>1
      <4> QED
        BY <2>1, <4>1
    <3> HIDE DEF Fine
    <3>2. 1 .. i - 1 \in Fine
      BY <1>1, <3>1
    <3>3. i - 1 \in Good
      BY <3>1, <3>2 DEF Fine
    <3> QED
      BY <3>1, <3>3
  <2>2. CASE i = 0
    BY <2>2
  <2> QED
    BY <2>1, <2>2
<1>2. ASSUME NEW T \in SUBSET (1 .. n), \A U \in SUBSET T : U # T => U \in Fine
      PROVE  T \in Fine
  <2> SUFFICES ASSUME NEW i \in 0 .. n, T = 1 .. i PROVE i \in Good
    OBVIOUS
  <2> HIDE DEF Fine
  <2> QED
    BY <1>1, <1>2
<1> HIDE DEF Fine
<1>3. ASSUME NEW i \in 0 .. n PROVE i \in Good
  <2>1. IsFiniteSet(1 .. i)
    BY FS_Interval
  <2> DEFINE S == 1 .. i
  <2>2. S \subseteq 1 .. n /\ IsFiniteSet(S)
    BY <2>1
  <2> HIDE DEF S
  <2>3. \A T \in SUBSET S : (\A U \in SUBSET T : U # T => U \in Fine) => T \in Fine
    BY <1>2, <2>2
  <2>4. S \in Fine
    BY <2>2, <2>3, SubsetInduction
  <2> QED
    BY <2>4 DEF Fine, S
<1> QED
  BY <1>3

\* Smaller terms have a smaller sum.
LEMMA SumFunctionAtMost ==
  ASSUME NEW f, NEW g, IsFiniteSet(DOMAIN f), DOMAIN g = DOMAIN f,
         \A x \in DOMAIN f : f[x] \in Int /\ g[x] \in Int /\ g[x] <= f[x]
  PROVE  SumFunction(g) <= SumFunction(f)
<1> DEFINE S == DOMAIN f
           Good == {T \in SUBSET S : SumFunctionOnSet(g, T) <= SumFunctionOnSet(f, T)}
<1>1. \A T \in SUBSET S : /\ IsFiniteSet(T)
                          /\ SumFunctionOnSet(f, T) \in Int /\ SumFunctionOnSet(g, T) \in Int
  BY FS_Subset, SumIsInt
<1> HIDE DEF S
<1>2. ASSUME NEW T \in SUBSET S, \A U \in SUBSET T : U # T => U \in Good
      PROVE  T \in Good
  <2>1. CASE T = {}
    BY <2>1, SumOfNothing
  <2>2. CASE T # {}
    <3>1. PICK e \in T : TRUE
      BY <2>2
    <3>2. T \ {e} \in Good /\ T \ {e} \in SUBSET S
      BY <1>2
    <3>3. /\ SumFunctionOnSet(f, T) = f[e] + SumFunctionOnSet(f, T \ {e})
          /\ SumFunctionOnSet(g, T) = g[e] + SumFunctionOnSet(g, T \ {e})
      BY <1>1, SumRemove DEF S
    <3>4. f[e] \in Int /\ g[e] \in Int /\ g[e] <= f[e]
      BY DEF S
    <3> QED
      BY <1>1, <3>2, <3>3, <3>4
  <2> QED
    BY <2>1, <2>2
<1> HIDE DEF Good
<1>3. IsFiniteSet(S)
  BY DEF S
<1>4. S \in Good
  BY <1>2, <1>3, SubsetInduction
<1> QED
  BY <1>4 DEF Good, S, SumFunction

\* Terms that are 0 are no part of a sum.
LEMMA SumFunctionIgnoresZeros ==
  ASSUME NEW f, NEW g, IsFiniteSet(DOMAIN f), \A x \in DOMAIN f : f[x] \in Int,
         DOMAIN g \subseteq DOMAIN f, \A x \in DOMAIN g : g[x] = f[x],
         \A x \in (DOMAIN f) \ DOMAIN g : f[x] = 0
  PROVE  SumFunction(f) = SumFunction(g)
<1> DEFINE ids == DOMAIN g
           Good == {T \in SUBSET DOMAIN f :
                      ids \subseteq T => SumFunctionOnSet(f, T) = SumFunctionOnSet(f, ids)}
<1>1. /\ \A T \in SUBSET DOMAIN f : IsFiniteSet(T) /\ SumFunctionOnSet(f, T) \in Int
      /\ ids \in SUBSET DOMAIN f
  BY FS_Subset, SumIsInt
<1>2. SumFunctionOnSet(f, ids) = SumFunctionOnSet(g, ids)
  BY <1>1, SumSame
<1>3. \A x \in (DOMAIN f) \ ids : f[x] = 0
  OBVIOUS
<1> HIDE DEF ids
<1>4. ASSUME NEW T \in SUBSET DOMAIN f, \A U \in SUBSET T : U # T => U \in Good
      PROVE  T \in Good
  <2> SUFFICES ASSUME ids \subseteq T
               PROVE  SumFunctionOnSet(f, T) = SumFunctionOnSet(f, ids)
    OBVIOUS
  <2>1. CASE T = ids
    BY <2>1
  <2>2. CASE T # ids
    <3>1. PICK e \in T : e \notin ids
      BY <2>2
    <3>2. T \ {e} \in Good /\ ids \subseteq T \ {e} /\ T \ {e} \in SUBSET DOMAIN f
      BY <1>4, <3>1
    <3>3. SumFunctionOnSet(f, T) = f[e] + SumFunctionOnSet(f, T \ {e})
      BY <1>1, SumRemove
    <3>4. f[e] = 0 /\ SumFunctionOnSet(f, T \ {e}) \in Int
      BY <1>1, <1>3, <3>1, <3>2
    <3> QED
      BY <3>2, <3>3, <3>4
  <2> QED
    BY <2>1, <2>2
<1> HIDE DEF Good
<1>5. DOMAIN f \in Good
  BY <1>4, SubsetInduction
<1> QED
  BY <1>1, <1>2, <1>5 DEF Good, SumFunction, ids

\* The arguments may be given other names.
LEMMA SumFunctionRenamed ==
  ASSUME NEW f, NEW g, NEW name, IsFiniteSet(DOMAIN f), IsFiniteSet(DOMAIN g),
         \A x \in DOMAIN f : f[x] \in Int,
         \A x \in DOMAIN g : name[x] \in DOMAIN f /\ g[x] = f[name[x]],
         \A x, y \in DOMAIN g : name[x] = name[y] => x = y,
         \A x \in DOMAIN f : \E y \in DOMAIN g : name[y] = x
  PROVE  SumFunction(g) = SumFunction(f)
<1> DEFINE S == DOMAIN g
           named(T) == {name[x] : x \in T}
           Good == {T \in SUBSET S : SumFunctionOnSet(g, T) = SumFunctionOnSet(f, named(T))}
<1>1. ASSUME NEW T \in SUBSET S
      PROVE  /\ IsFiniteSet(T) /\ \A x \in T : g[x] \in Int
             /\ IsFiniteSet(named(T)) /\ \A x \in named(T) : f[x] \in Int
  <2>1. named(T) \subseteq DOMAIN f
    OBVIOUS
  <2> QED
    BY <2>1, FS_Subset
<1>2. ASSUME NEW T \in SUBSET S, \A U \in SUBSET T : U # T => U \in Good
      PROVE  T \in Good
  <2>1. CASE T = {}
    <3>1. named(T) = {}
      BY <2>1
    <3> QED
      BY <2>1, <3>1, SumOfNothing
  <2>2. CASE T # {}
    <3>1. PICK e \in T : TRUE
      BY <2>2
    <3>2. T \ {e} \in Good /\ T \ {e} \in SUBSET S
      BY <1>2
    <3>3. named(T \ {e}) = named(T) \ {name[e]} /\ name[e] \in named(T) /\ g[e] = f[name[e]]
      OBVIOUS
    <3>4. SumFunctionOnSet(g, T) = g[e] + SumFunctionOnSet(g, T \ {e})
      <4>1. IsFiniteSet(T) /\ \A x \in T : g[x] \in Int
        BY <1>1
      <4> QED
        BY <4>1, SumRemove
    <3>5. SumFunctionOnSet(f, named(T)) = f[name[e]] + SumFunctionOnSet(f, named(T) \ {name[e]})
      <4> HIDE DEF named
      <4> QED
        BY <1>1, <3>3, SumRemove
    <3>6. SumFunctionOnSet(g, T \ {e}) = SumFunctionOnSet(f, named(T \ {e}))
      BY <3>2
    <3> HIDE DEF named, S
    <3>7. SumFunctionOnSet(g, T) = SumFunctionOnSet(f, named(T))
      BY <3>3, <3>4, <3>5, <3>6
    <3> QED
      BY <3>7
  <2> QED
    BY <2>1, <2>2
<1> HIDE DEF Good
<1>3. S \in Good
  BY <1>2, SubsetInduction
<1>4. named(S) = DOMAIN f
  OBVIOUS
<1> QED
  BY <1>3, <1>4 DEF Good, SumFunction

\* A sum of nothing but 0.
LEMMA SumOfZeros ==
  ASSUME NEW f, IsFiniteSet(DOMAIN f), \A x \in DOMAIN f : f[x] = 0 PROVE SumFunction(f) = 0
<1> DEFINE Kind == {0}
<1>1. 0 \in Kind /\ (\A a, b \in Kind : a + b \in Kind) /\ \A x \in DOMAIN f : f[x] \in Kind
  OBVIOUS
<1> HIDE DEF Kind
<1>2. SumFunctionOnSet(f, DOMAIN f) \in Kind
  BY <1>1, SumIsIn
<1> QED
  BY <1>2 DEF Kind, SumFunction
=============================================================================
