----------------------- MODULE OrderBookServerProofs ------------------------
(***************************************************************************)
(* What the book behind the server keeps, and what its answers hold: the   *)
(* quantities of resting orders and of fills are naturals, and an order    *)
(* that comes in trades with as many orders as are hit, each in its turn.  *)
(*                                                                         *)
(* The turn is what needs an argument: older orders and better prices make *)
(* a strict order of those an order crosses, so the n-th of them exists.   *)
(*                                                                         *)
(* The last section counts the fills of an id in the answers that wait on  *)
(* the sockets.                                                            *)
(***************************************************************************)
EXTENDS OrderBookServer, SumTheorems, SequenceTheorems

-----------------------------------------------------------------------------
(* Ranks in a finite order *)

\* R is a strict total order of S.
Orders(R, S) ==
  /\ \A a \in S : <<a, a>> \notin R
  /\ \A a, b, c \in S : <<a, b>> \in R /\ <<b, c>> \in R => <<a, c>> \in R
  /\ \A a, b \in S : a # b => <<a, b>> \in R \/ <<b, a>> \in R

Before(R, S, x) == {a \in S : <<a, x>> \in R}

\* A finite set that is not empty has a last element.
LEMMA LastExists ==
  ASSUME NEW R, NEW S, IsFiniteSet(S), Orders(R, S), S # {}
  PROVE  \E g \in S : \A a \in S \ {g} : <<a, g>> \in R
<1> DEFINE Good == {T \in SUBSET S : T # {} => \E g \in T : \A a \in T \ {g} : <<a, g>> \in R}
<1>1. ASSUME NEW T \in SUBSET S, \A U \in SUBSET T : U # T => U \in Good
      PROVE  T \in Good
  <2> SUFFICES ASSUME NEW e \in T PROVE \E g \in T : \A a \in T \ {g} : <<a, g>> \in R
    OBVIOUS
  <2>1. T \ {e} \in Good
    BY <1>1
  <2>2. CASE T \ {e} = {}
    BY <2>2
  <2>3. CASE T \ {e} # {}
    <3>1. PICK g \in T \ {e} : \A a \in (T \ {e}) \ {g} : <<a, g>> \in R
      BY <2>1, <2>3
    <3>2. CASE <<e, g>> \in R
      BY <3>1, <3>2
    <3>3. CASE <<g, e>> \in R
      <4>1. \A a \in T \ {e} : <<a, e>> \in R
        BY <3>1, <3>3 DEF Orders
      <4> QED
        BY <4>1
    <3> QED
      BY <3>1, <3>2, <3>3 DEF Orders
  <2> QED
    BY <2>2, <2>3
<1> HIDE DEF Good
<1>2. S \in Good
  BY <1>1, SubsetInduction
<1> QED
  BY <1>2 DEF Good

\* As many elements as it has, as many ranks.
LEMMA RankExists ==
  ASSUME NEW R, NEW S, IsFiniteSet(S), Orders(R, S), NEW n \in 1 .. Cardinality(S)
  PROVE  \E x \in S : Cardinality(Before(R, S, x)) = n - 1
<1> DEFINE Good == {T \in SUBSET S : \A k \in 1 .. Cardinality(T) :
                                       \E x \in T : Cardinality(Before(R, T, x)) = k - 1}
<1>1. ASSUME NEW T \in SUBSET S, \A U \in SUBSET T : U # T => U \in Good
      PROVE  T \in Good
  <2> SUFFICES ASSUME NEW k \in 1 .. Cardinality(T)
               PROVE  \E x \in T : Cardinality(Before(R, T, x)) = k - 1
    OBVIOUS
  <2>1. IsFiniteSet(T) /\ Orders(R, T) /\ Cardinality(T) \in Nat
    BY FS_Subset, FS_CardinalityType DEF Orders
  <2>2. T # {}
    BY FS_EmptySet
  <2>3. PICK g \in T : \A a \in T \ {g} : <<a, g>> \in R
    BY <2>1, <2>2, LastExists
  <2> DEFINE U == T \ {g}
  <2>4. Cardinality(U) = Cardinality(T) - 1 /\ U \in Good
    <3>1. U \in SUBSET T /\ U # T
      OBVIOUS
    <3>2. U \in Good
      BY <1>1, <3>1
    <3>3. Cardinality(U) = Cardinality(T) - 1
      BY <2>1, FS_RemoveElement
    <3> QED
      BY <3>2, <3>3
  <2>5. \A x \in U : Before(R, T, x) = Before(R, U, x)
    BY <2>1, <2>3 DEF Before, Orders
  <2>6. Before(R, T, g) = U
    BY <2>1, <2>3 DEF Before, Orders
  <2> HIDE DEF U
  <2>7. CASE k = Cardinality(T)
    BY <2>1, <2>4, <2>6, <2>7
  <2>8. CASE k # Cardinality(T)
    <3>1. k \in 1 .. Cardinality(U)
      BY <2>1, <2>4, <2>8
    <3>2. PICK x \in U : Cardinality(Before(R, U, x)) = k - 1
      BY <2>4, <3>1
    <3> QED
      BY <2>5, <3>2 DEF U
  <2> QED
    BY <2>7, <2>8
<1> HIDE DEF Good
<1>2. S \in Good
  BY <1>1, SubsetInduction
<1> QED
  BY <1>2 DEF Good

\* No two elements have the same rank,
LEMMA RanksDiffer ==
  ASSUME NEW R, NEW S, IsFiniteSet(S), Orders(R, S), NEW a \in S, NEW b \in S,
         Cardinality(Before(R, S, a)) = Cardinality(Before(R, S, b))
  PROVE  a = b
<1>1. ASSUME NEW x \in S, NEW y \in S, <<x, y>> \in R
      PROVE  Cardinality(Before(R, S, x)) # Cardinality(Before(R, S, y))
  <2>1. Before(R, S, x) \subseteq Before(R, S, y)
    BY <1>1 DEF Before, Orders
  <2>2. x \in Before(R, S, y) /\ x \notin Before(R, S, x)
    BY <1>1 DEF Before, Orders
  <2>3. IsFiniteSet(Before(R, S, y))
    <3>1. Before(R, S, y) \subseteq S
      BY DEF Before
    <3> QED
      BY <3>1, FS_Subset
  <2> QED
    BY <2>1, <2>2, <2>3, FS_Subset
<1> QED
  BY <1>1 DEF Orders

\* and none is beyond their number.
LEMMA RankInRange ==
  ASSUME NEW R, NEW S, IsFiniteSet(S), Orders(R, S), NEW a \in S
  PROVE  Cardinality(Before(R, S, a)) + 1 \in 1 .. Cardinality(S)
<1>1. Before(R, S, a) \subseteq S \ {a}
  BY DEF Before, Orders
<1>2. IsFiniteSet(S \ {a}) /\ Cardinality(S \ {a}) = Cardinality(S) - 1 /\ Cardinality(S) \in Nat
  BY FS_RemoveElement, FS_CardinalityType
<1>3. /\ Cardinality(Before(R, S, a)) <= Cardinality(S \ {a})
      /\ IsFiniteSet(Before(R, S, a))
  BY <1>1, <1>2, FS_Subset
<1>4. Cardinality(Before(R, S, a)) \in Nat
  BY <1>3, FS_CardinalityType
<1> QED
  BY <1>2, <1>3, <1>4

-----------------------------------------------------------------------------
(* The book *)

\* An order, whose id and type are among these values.
AnyOrder(Seen) ==
  [id : Seen, type : Seen, side : Book!Sides, price : Int, initial : Nat, remaining : Nat]

\* Two orders of one level.
Peers(a, b) == resting[a].side = resting[b].side /\ resting[a].price = resting[b].price

\* The orders of a level came one after the other.
BookOK ==
  /\ IsFiniteSet(DOMAIN resting)
  /\ \E Seen : resting \in [DOMAIN resting -> AnyOrder(Seen)]
  /\ \A a, b \in DOMAIN resting : <<a, b>> \in older => Peers(a, b)
  /\ \A a \in DOMAIN resting : <<a, a>> \notin older
  /\ \A a, b, c \in DOMAIN resting : <<a, b>> \in older /\ <<b, c>> \in older => <<a, c>> \in older
  /\ \A a, b \in DOMAIN resting : a # b /\ Peers(a, b) => <<a, b>> \in older \/ <<b, a>> \in older

LEMMA RestingTyped ==
  ASSUME BookOK, NEW id \in DOMAIN resting
  PROVE  /\ resting[id].side \in Book!Sides /\ resting[id].price \in Int
         /\ resting[id].initial \in Nat /\ resting[id].remaining \in Nat
BY DEF BookOK, AnyOrder

AheadOf(o) == {pair \in Book!Crossed(o) \X Book!Crossed(o) : Book!Ahead(pair[1], pair[2])}

\* The orders an order crosses are of one side, and stand in a queue.
LEMMA CrossedInTurn ==
  ASSUME BookOK, NEW o, o.side \in Book!Sides
  PROVE  /\ Orders(AheadOf(o), Book!Crossed(o))
         /\ \A id \in Book!Crossed(o) :
              Before(AheadOf(o), Book!Crossed(o), id) = {a \in Book!Crossed(o) : Book!Ahead(a, id)}
<1> DEFINE crossed == Book!Crossed(o)
<1>1. /\ crossed \subseteq DOMAIN resting
      /\ \A a, b \in crossed : resting[a].side = resting[b].side
  BY RestingTyped DEF Book!Crossed, Book!Sides
<1> HIDE DEF crossed
<1>2. \A a, b \in crossed : <<a, b>> \in AheadOf(o) <=> Book!Ahead(a, b)
  BY DEF AheadOf, crossed
<1>3. ASSUME NEW a \in crossed PROVE ~Book!Ahead(a, a)
  <2>1. a \in DOMAIN resting
    BY <1>1
  <2>2. resting[a].price \in Int /\ <<a, a>> \notin older
    BY <2>1, RestingTyped DEF BookOK
  <2> QED
    BY <2>2 DEF Book!Ahead
<1>4. ASSUME NEW a \in crossed, NEW b \in crossed, NEW c \in crossed,
             Book!Ahead(a, b), Book!Ahead(b, c)
      PROVE  Book!Ahead(a, c)
  <2>1. a \in DOMAIN resting /\ b \in DOMAIN resting /\ c \in DOMAIN resting
    BY <1>1
  <2>2. resting[a].side = resting[b].side /\ resting[b].side = resting[c].side
    BY <1>1
  <2>3. resting[a].price \in Int /\ resting[b].price \in Int /\ resting[c].price \in Int
    BY <2>1, RestingTyped
  <2>4. CASE <<a, b>> \in older /\ <<b, c>> \in older
    BY <2>1, <2>4 DEF BookOK, Book!Ahead
  <2>5. CASE <<a, b>> \in older /\ <<b, c>> \notin older
    BY <1>4, <2>1, <2>2, <2>5 DEF BookOK, Book!Ahead, Peers
  <2>6. CASE <<a, b>> \notin older /\ <<b, c>> \in older
    BY <1>4, <2>1, <2>2, <2>6 DEF BookOK, Book!Ahead, Peers
  <2>7. CASE <<a, b>> \notin older /\ <<b, c>> \notin older
    BY <1>4, <2>2, <2>3, <2>7 DEF Book!Ahead
  <2> QED
    BY <2>4, <2>5, <2>6, <2>7
<1>5. ASSUME NEW a \in crossed, NEW b \in crossed, a # b
      PROVE  Book!Ahead(a, b) \/ Book!Ahead(b, a)
  <2>1. /\ a \in DOMAIN resting /\ b \in DOMAIN resting
        /\ resting[a].side = resting[b].side
    BY <1>1
  <2>2. resting[a].price \in Int /\ resting[b].price \in Int
    BY <2>1, RestingTyped
  <2>3. CASE resting[a].price = resting[b].price
    BY <1>5, <2>1, <2>3 DEF BookOK, Peers, Book!Ahead
  <2>4. CASE resting[a].price # resting[b].price
    BY <2>1, <2>2, <2>4 DEF Book!Ahead
  <2> QED
    BY <2>3, <2>4
<1>6. Orders(AheadOf(o), crossed)
  BY <1>2, <1>3, <1>4, <1>5 DEF Orders
<1>7. \A id \in crossed : Before(AheadOf(o), crossed, id) = {a \in crossed : Book!Ahead(a, id)}
  BY <1>2 DEF Before
<1> QED
  BY <1>6, <1>7 DEF crossed

\* The sums of the book are those of SumTheorems.
LEMMA BookSums == \A f : Book!SumFunction(f) = SumFunction(f)
BY DEF Book!SumFunction, Book!SumFunctionOnSet, Book!FoldFunctionOnSet, Book!MapThenFoldSet,
       SumFunction, SumFunctionOnSet, FoldFunctionOnSet, MapThenFoldSet

\* The open quantity of some orders.
LEMMA AvailableIsNat ==
  ASSUME BookOK, NEW ids, ids \subseteq DOMAIN resting
  PROVE  Book!Available(ids) \in Nat
<1> DEFINE f == [id \in ids |-> resting[id].remaining]
<1>1. IsFiniteSet(DOMAIN f)
  BY FS_Subset DEF BookOK
<1>2. \A id \in DOMAIN f : f[id] \in Nat
  BY RestingTyped
<1> HIDE DEF f
<1>3. SumFunction(f) \in Nat
  BY <1>1, <1>2, SumFunctionIsNat
<1> QED
  BY <1>3, BookSums DEF Book!Available, f

\* More orders have more open.
LEMMA AvailableGrows ==
  ASSUME BookOK, NEW ids, NEW more, ids \subseteq more, more \subseteq DOMAIN resting
  PROVE  Book!Available(ids) <= Book!Available(more)
<1> DEFINE f == [id \in more |-> resting[id].remaining]
           g == [id \in ids |-> resting[id].remaining]
<1>1. /\ IsFiniteSet(DOMAIN f) /\ DOMAIN g \subseteq DOMAIN f
      /\ \A id \in DOMAIN f : f[id] \in Nat
      /\ \A id \in DOMAIN g : g[id] = f[id]
  BY RestingTyped, FS_Subset DEF BookOK
<1> HIDE DEF f, g
<1>2. SumFunction(g) <= SumFunction(f)
  BY <1>1, SumFunctionFewer
<1> QED
  BY <1>2, BookSums DEF Book!Available, f, g

\* What an order does to the book, by its parts: the orders it crosses, how much
\* of it is left for each, what each gives, those that trade, and those that
\* stay.
AddedBy(o, crossed, left, taken, hit, kept, rest) ==
  /\ crossed = Book!Crossed(o)
  /\ left = [id \in crossed |->
               o.initial - Book!Available({a \in crossed : Book!Ahead(a, id)})]
  /\ taken = [id \in crossed |-> Book!Share(left[id], id)]
  /\ hit = {id \in crossed : {a \in crossed : Book!Ahead(a, id)} = {} \/ left[id] > 0}
  /\ kept = {id \in DOMAIN resting : id \in hit => taken[id] < resting[id].remaining}
  /\ rest = o.initial - SumFunction(taken)

\* What is taken is never more than there is.
LEMMA TakenIsNat ==
  ASSUME BookOK, NEW Seen, NEW o \in AnyOrder(Seen),
         NEW crossed, NEW left, NEW taken, NEW hit, NEW kept, NEW rest,
         AddedBy(o, crossed, left, taken, hit, kept, rest)
  PROVE  /\ crossed \subseteq DOMAIN resting /\ IsFiniteSet(crossed)
         /\ DOMAIN taken = crossed
         /\ \A id \in crossed : /\ left[id] \in Int /\ taken[id] \in Nat
                                /\ resting[id].remaining - taken[id] \in Nat
                                /\ left[id] <= 0 => taken[id] = 0
         /\ rest \in Int
         /\ hit = {} => rest = o.initial
<1>1. crossed \subseteq DOMAIN resting /\ IsFiniteSet(crossed) /\ DOMAIN taken = crossed
  <2>1. crossed \subseteq DOMAIN resting
    BY DEF AddedBy, Book!Crossed
  <2> QED
    BY <2>1, FS_Subset DEF BookOK, AddedBy
<1>2. o.initial \in Nat
  BY DEF AnyOrder
<1>3. ASSUME NEW id \in crossed
      PROVE  /\ left[id] \in Int /\ taken[id] \in Nat
             /\ resting[id].remaining - taken[id] \in Nat
             /\ left[id] <= 0 => taken[id] = 0
  <2>1. Book!Available({a \in crossed : Book!Ahead(a, id)}) \in Nat
    <3>1. {a \in crossed : Book!Ahead(a, id)} \subseteq DOMAIN resting
      BY <1>1
    <3> QED
      BY <3>1, AvailableIsNat
  <2>2. left[id] \in Int /\ taken[id] = Book!Share(left[id], id)
    BY <1>2, <2>1 DEF AddedBy
  <2>3. resting[id].remaining \in Nat
    BY <1>1, RestingTyped
  <2> QED
    BY <2>2, <2>3 DEF Book!Share
<1>4. SumFunction(taken) \in Nat
  BY <1>1, <1>3, SumFunctionIsNat
<1>5. rest \in Int
  BY <1>2, <1>4 DEF AddedBy
<1>6. ASSUME hit = {} PROVE rest = o.initial
  <2>1. \A id \in crossed : taken[id] \in {0}
    <3> SUFFICES ASSUME NEW id \in crossed PROVE taken[id] = 0
      OBVIOUS
    <3>1. ~(left[id] > 0)
      BY <1>6 DEF AddedBy
    <3> QED
      BY <1>3, <3>1
  <2>2. SumFunction(taken) \in {0}
    <3>1. 0 \in {0} /\ \A a, b \in {0} : a + b \in {0}
      OBVIOUS
    <3> QED
      BY <1>1, <2>1, <3>1, SumIsIn DEF SumFunction
  <2> QED
    BY <1>2, <2>2 DEF AddedBy
<1> QED
  BY <1>1, <1>3, <1>5, <1>6

\* An order takes no more than it is for: behind the last one it takes from,
\* nothing of it is left.
LEMMA TakenAtMost ==
  ASSUME BookOK, NEW Seen, NEW o \in AnyOrder(Seen),
         NEW crossed, NEW left, NEW taken, NEW hit, NEW kept, NEW rest,
         AddedBy(o, crossed, left, taken, hit, kept, rest)
  PROVE  rest >= 0
<1> DEFINE ahead(id) == {a \in crossed : Book!Ahead(a, id)}
           giving == {id \in crossed : left[id] > 0}
           given == [id \in giving |-> taken[id]]
<1>1. /\ crossed \subseteq DOMAIN resting /\ IsFiniteSet(crossed) /\ DOMAIN taken = crossed
      /\ \A id \in crossed : /\ left[id] \in Int /\ taken[id] \in Nat
                             /\ resting[id].remaining - taken[id] \in Nat
                             /\ left[id] <= 0 => taken[id] = 0
      /\ o.initial \in Nat
  BY TakenIsNat DEF AnyOrder
<1>2. \A id \in DOMAIN resting : resting[id].remaining \in Nat
  BY RestingTyped
<1>3. /\ Orders(AheadOf(o), crossed)
      /\ \A id \in crossed : Before(AheadOf(o), crossed, id) = ahead(id)
  <2>1. o.side \in Book!Sides
    BY DEF AnyOrder
  <2> QED
    BY <2>1, CrossedInTurn DEF AddedBy
<1>4. SumFunction(taken) = SumFunction(given)
  <2>1. \A id \in crossed \ giving : taken[id] = 0
    BY <1>1
  <2>2. /\ \A id \in DOMAIN taken : taken[id] \in Int
        /\ DOMAIN given \subseteq DOMAIN taken
        /\ \A id \in DOMAIN given : given[id] = taken[id]
        /\ \A id \in (DOMAIN taken) \ DOMAIN given : taken[id] = 0
    BY <1>1, <2>1
  <2> HIDE DEF given
  <2> QED
    BY <1>1, <2>2, SumFunctionIgnoresZeros
<1>5. IsFiniteSet(giving) /\ giving \subseteq crossed
  BY <1>1, FS_Subset
<1>6. SumFunction(given) \in Nat
  BY <1>1, <1>5, SumFunctionIsNat
<1>7. CASE giving = {}
  <2>1. SumFunction(given) = 0
    BY <1>7, SumFunctionEmpty
  <2> QED
    BY <1>1, <1>4, <2>1 DEF AddedBy
<1>8. CASE giving # {}
  <2>1. Orders(AheadOf(o), giving)
    BY <1>3, <1>5 DEF Orders
  <2>2. PICK g \in giving : \A a \in giving \ {g} : <<a, g>> \in AheadOf(o)
    BY <1>5, <1>8, <2>1, LastExists
  <2> DEFINE before == [id \in giving \ {g} |-> taken[id]]
             open == [id \in giving \ {g} |-> resting[id].remaining]
             all == [id \in ahead(g) |-> resting[id].remaining]
  <2>3. /\ giving \ {g} \subseteq ahead(g) /\ ahead(g) \subseteq crossed
        /\ IsFiniteSet(giving \ {g}) /\ IsFiniteSet(ahead(g))
    <3>1. giving \ {g} \subseteq ahead(g)
      BY <1>3, <1>5, <2>2 DEF Before
    <3> QED
      BY <1>1, <1>5, <3>1, FS_Subset
  <2>4. SumFunction(given) = SumFunction(before) + taken[g]
    <3>1. /\ IsFiniteSet(DOMAIN before) /\ \A x \in DOMAIN before : before[x] \in Int
          /\ g \notin DOMAIN before /\ DOMAIN given = DOMAIN before \cup {g}
          /\ given[g] = taken[g] /\ given[g] \in Int
          /\ \A x \in DOMAIN before : given[x] = before[x]
      BY <1>1, <1>5, <2>3
    <3> HIDE DEF given, before
    <3> QED
      BY <3>1, SumFunctionAdds
  <2>5. SumFunction(before) <= SumFunction(open)
    <3>1. \A x \in giving \ {g} : taken[x] \in Int /\ resting[x].remaining \in Int
                                  /\ taken[x] <= resting[x].remaining
      BY <1>1, <1>2, <1>5
    <3> QED
      BY <2>3, <3>1, SumFunctionAtMost
  <2>6. SumFunction(open) <= SumFunction(all) /\ SumFunction(all) \in Nat /\ SumFunction(open) \in Nat
    <3>1. /\ IsFiniteSet(DOMAIN all) /\ \A x \in DOMAIN all : all[x] \in Nat
          /\ DOMAIN open \subseteq DOMAIN all /\ \A x \in DOMAIN open : open[x] = all[x]
      BY <1>1, <1>2, <2>3
    <3> HIDE DEF open, all
    <3> QED
      BY <3>1, SumFunctionFewer
  <2>7. left[g] = o.initial - SumFunction(all) /\ taken[g] <= left[g] /\ taken[g] \in Nat
    <3>1. left[g] = o.initial - Book!Available(ahead(g)) /\ taken[g] = Book!Share(left[g], g)
      BY <1>5 DEF AddedBy
    <3>2. Book!Available(ahead(g)) = SumFunction(all)
      BY BookSums DEF Book!Available
    <3>3. taken[g] <= left[g]
      BY <1>1, <1>2, <1>5, <3>1 DEF Book!Share
    <3> QED
      BY <1>1, <1>5, <3>1, <3>2, <3>3
  <2>8. SumFunction(before) \in Nat
    BY <1>1, <1>5, <2>3, SumFunctionIsNat
  <2> HIDE DEF before, open, all
  <2>9. SumFunction(given) <= o.initial
    BY <1>1, <2>4, <2>5, <2>6, <2>7, <2>8
  <2> QED
    BY <1>1, <1>4, <1>6, <2>9 DEF AddedBy
<1> QED
  BY <1>7, <1>8

\* Those ahead of an order that is hit are hit.
LEMMA HitInTurn ==
  ASSUME BookOK, NEW Seen, NEW o \in AnyOrder(Seen),
         NEW crossed, NEW left, NEW taken, NEW hit, NEW kept, NEW rest,
         AddedBy(o, crossed, left, taken, hit, kept, rest)
  PROVE  /\ IsFiniteSet(hit) /\ hit \subseteq crossed /\ Orders(AheadOf(o), hit)
         /\ \A id \in hit : Before(AheadOf(o), hit, id) = {a \in crossed : Book!Ahead(a, id)}
<1> DEFINE ahead(id) == {a \in crossed : Book!Ahead(a, id)}
<1>1. /\ crossed \subseteq DOMAIN resting /\ IsFiniteSet(crossed) /\ hit \subseteq crossed
      /\ IsFiniteSet(hit)
  <2>1. hit \subseteq crossed
    BY DEF AddedBy
  <2> QED
    BY <2>1, TakenIsNat, FS_Subset
<1>2. /\ Orders(AheadOf(o), crossed)
      /\ \A id \in crossed : Before(AheadOf(o), crossed, id) = ahead(id)
  <2>1. o.side \in Book!Sides
    BY DEF AnyOrder
  <2> QED
    BY <2>1, CrossedInTurn DEF AddedBy
<1>3. ASSUME NEW id \in hit, NEW a \in ahead(id) PROVE a \in hit
  <2>1. ahead(a) \subseteq ahead(id)
    <3> SUFFICES ASSUME NEW b \in ahead(a) PROVE b \in ahead(id)
      OBVIOUS
    <3>1. <<b, a>> \in AheadOf(o) /\ <<a, id>> \in AheadOf(o)
      BY <1>1, <1>2 DEF Before
    <3>2. <<b, id>> \in AheadOf(o)
      BY <1>1, <1>2, <3>1 DEF Orders
    <3> QED
      BY <1>1, <1>2, <3>2 DEF Before
  <2>2. Book!Available(ahead(a)) <= Book!Available(ahead(id))
    BY <1>1, <2>1, AvailableGrows
  <2>3. /\ Book!Available(ahead(a)) \in Nat /\ Book!Available(ahead(id)) \in Nat
        /\ o.initial \in Nat
    BY <1>1, AvailableIsNat DEF AnyOrder
  <2>4. /\ left[a] = o.initial - Book!Available(ahead(a))
        /\ left[id] = o.initial - Book!Available(ahead(id))
    BY <1>1 DEF AddedBy
  <2>5. left[id] > 0
    BY DEF AddedBy
  <2>6. left[a] > 0
    BY <2>2, <2>3, <2>4, <2>5
  <2> QED
    BY <2>6 DEF AddedBy
<1>4. Orders(AheadOf(o), hit)
  BY <1>1, <1>2 DEF Orders
<1>5. \A id \in hit : Before(AheadOf(o), hit, id) = ahead(id)
  BY <1>1, <1>2, <1>3 DEF Before
<1> QED
  BY <1>1, <1>4, <1>5

\* The n-th order in turn of those that are hit is one of them.
LEMMA NthIsHit ==
  ASSUME BookOK, NEW Seen, NEW o \in AnyOrder(Seen),
         NEW crossed, NEW left, NEW taken, NEW hit, NEW kept, NEW rest,
         AddedBy(o, crossed, left, taken, hit, kept, rest), NEW n \in 1 .. Cardinality(hit)
  PROVE  \E id \in hit : Cardinality({a \in crossed : Book!Ahead(a, id)}) = n - 1
<1>1. /\ IsFiniteSet(hit) /\ Orders(AheadOf(o), hit)
      /\ \A id \in hit : Before(AheadOf(o), hit, id) = {a \in crossed : Book!Ahead(a, id)}
  BY HitInTurn
<1>2. PICK id \in hit : Cardinality(Before(AheadOf(o), hit, id)) = n - 1
  BY <1>1, RankExists
<1> QED
  BY <1>1, <1>2

\* Every order that is hit is the n-th for one n.
LEMMA EachHasTurn ==
  ASSUME BookOK, NEW Seen, NEW o \in AnyOrder(Seen),
         NEW crossed, NEW left, NEW taken, NEW hit, NEW kept, NEW rest,
         AddedBy(o, crossed, left, taken, hit, kept, rest), NEW id \in hit
  PROVE  /\ Cardinality({a \in crossed : Book!Ahead(a, id)}) + 1 \in 1 .. Cardinality(hit)
         /\ \A b \in hit : Cardinality({a \in crossed : Book!Ahead(a, b)})
                              = Cardinality({a \in crossed : Book!Ahead(a, id)}) => b = id
<1>1. /\ IsFiniteSet(hit) /\ Orders(AheadOf(o), hit)
      /\ \A b \in hit : Before(AheadOf(o), hit, b) = {a \in crossed : Book!Ahead(a, b)}
  BY HitInTurn
<1>2. Cardinality(Before(AheadOf(o), hit, id)) + 1 \in 1 .. Cardinality(hit)
  BY <1>1, RankInRange
<1>3. \A b \in hit : Cardinality(Before(AheadOf(o), hit, b))
                        = Cardinality(Before(AheadOf(o), hit, id)) => b = id
  BY <1>1, RanksDiffer
<1> QED
  BY <1>1, <1>2, <1>3

\* What becomes of the book, and the answer, in these terms.
Added(o, crossed, taken, hit, kept, rest) ==
  LET after == [o EXCEPT !.remaining = rest]
      stays == (after.remaining > 0 \/ hit = {}) /\ o.type = "GoodTillCancel"
      peers == {id \in kept : resting[id].side = o.side /\ resting[id].price = o.price}
      nth(n) == CHOOSE id \in hit : Cardinality({a \in crossed : Book!Ahead(a, id)}) = n - 1
  IN  /\ o.id \notin DOMAIN resting
      /\ resting' = [id \in kept \cup (IF stays THEN {o.id} ELSE {}) |->
                       IF id = o.id THEN after
                       ELSE IF id \in hit THEN [resting[id] EXCEPT !.remaining = @ - taken[id]]
                       ELSE resting[id]]
      /\ older' = (older \cap (kept \X kept)) \cup (IF stays THEN peers \X {o.id} ELSE {})
      /\ reply' = [call   |-> "AddOrder",
                   trades |-> [n \in 1 .. Cardinality(hit) |->
                                 Book!TradeOf(o, nth(n), taken[nth(n)])],
                   order  |-> after]

\* Add is that.
LEMMA AddParts ==
  ASSUME NEW o, Book!Add(o)
  PROVE  \E crossed, left, taken, hit, kept, rest :
           /\ AddedBy(o, crossed, left, taken, hit, kept, rest)
           /\ Added(o, crossed, taken, hit, kept, rest)
<1> DEFINE crossed == Book!Crossed(o)
           ahead == [id \in crossed |-> {a \in crossed : Book!Ahead(a, id)}]
           left  == [id \in crossed |-> o.initial - Book!Available(ahead[id])]
           taken == [id \in crossed |-> Book!Share(left[id], id)]
           hit   == {id \in crossed : ahead[id] = {} \/ left[id] > 0}
           kept  == {id \in DOMAIN resting : id \in hit => taken[id] < resting[id].remaining}
           rest  == o.initial - SumFunction(taken)
<1>1. AddedBy(o, crossed, left, taken, hit, kept, rest)
  BY DEF AddedBy
<1>2. \A id \in crossed : ahead[id] = {a \in crossed : Book!Ahead(a, id)}
  OBVIOUS
<1> DEFINE after == [o EXCEPT !.remaining = rest]
           stays == (after.remaining > 0 \/ hit = {}) /\ o.type = "GoodTillCancel"
           peers == {id \in kept : resting[id].side = o.side /\ resting[id].price = o.price}
           turn(n) == CHOOSE id \in hit : Cardinality(ahead[id]) = n - 1
           nth(n) == CHOOSE id \in hit : Cardinality({a \in crossed : Book!Ahead(a, id)}) = n - 1
<1>3. /\ o.id \notin DOMAIN resting
      /\ resting' = [id \in kept \cup (IF stays THEN {o.id} ELSE {}) |->
                       IF id = o.id THEN after
                       ELSE IF id \in hit THEN [resting[id] EXCEPT !.remaining = @ - taken[id]]
                       ELSE resting[id]]
      /\ older' = (older \cap (kept \X kept)) \cup (IF stays THEN peers \X {o.id} ELSE {})
      /\ reply' = [call   |-> "AddOrder",
                   trades |-> [n \in 1 .. Cardinality(hit) |->
                                 Book!TradeOf(o, turn(n), taken[turn(n)])],
                   order  |-> after]
  BY BookSums DEF Book!Add, Cardinality, Book!Cardinality
<1>4. \A n : turn(n) = nth(n)
  <2>1. hit \subseteq crossed
    OBVIOUS
  <2> HIDE DEF hit, crossed
  <2> QED
    BY <1>2, <2>1
<1> HIDE DEF crossed, ahead, left, taken, hit, kept, rest, turn
<1>5. [n \in 1 .. Cardinality(hit) |-> Book!TradeOf(o, turn(n), taken[turn(n)])]
        = [n \in 1 .. Cardinality(hit) |-> Book!TradeOf(o, nth(n), taken[nth(n)])]
  <2> HIDE DEF nth
  <2> QED
    BY <1>4
<1>6. Added(o, crossed, taken, hit, kept, rest)
  BY <1>3, <1>5 DEF Added
<1> QED
  BY <1>1, <1>6

\* The trades of an order, of as many shares as are taken, are its own and those
\* of resting orders.
LEMMA AddTrades ==
  ASSUME BookOK, NEW Seen, NEW o \in AnyOrder(Seen),
         NEW crossed, NEW left, NEW taken, NEW hit, NEW kept, NEW rest,
         AddedBy(o, crossed, left, taken, hit, kept, rest),
         Added(o, crossed, taken, hit, kept, rest)
  PROVE  /\ Len(reply'.trades) \in Nat /\ DOMAIN reply'.trades = 1 .. Len(reply'.trades)
         /\ \A n \in 1 .. Len(reply'.trades) :
              /\ reply'.trades[n].bid.quantity \in Nat
              /\ reply'.trades[n].ask.quantity \in Nat
              /\ {reply'.trades[n].bid.id, reply'.trades[n].ask.id} \subseteq DOMAIN resting \cup {o.id}
<1> DEFINE nth(n) == CHOOSE id \in hit : Cardinality({a \in crossed : Book!Ahead(a, id)}) = n - 1
           trade(n) == Book!TradeOf(o, nth(n), taken[nth(n)])
           k == Cardinality(hit)
<1>1. reply'.trades = [n \in 1 .. k |-> trade(n)]
  BY DEF Added
<1>2. k \in Nat
  <2>1. hit \subseteq crossed
    BY DEF AddedBy
  <2> QED
    BY <2>1, TakenIsNat, FS_Subset, FS_CardinalityType
<1>3. ASSUME NEW n \in 1 .. k
      PROVE  /\ trade(n).bid.quantity \in Nat /\ trade(n).ask.quantity \in Nat
             /\ {trade(n).bid.id, trade(n).ask.id} \subseteq DOMAIN resting \cup {o.id}
  <2>1. nth(n) \in crossed
    <3>1. \E id \in hit : Cardinality({a \in crossed : Book!Ahead(a, id)}) = n - 1
      BY NthIsHit
    <3>2. nth(n) \in hit
      BY <3>1
    <3> QED
      BY <3>2 DEF AddedBy
  <2> HIDE DEF nth
  <2>2. taken[nth(n)] \in Nat /\ nth(n) \in DOMAIN resting
    BY <2>1, TakenIsNat
  <2> QED
    BY <2>2 DEF Book!TradeOf
<1> HIDE DEF k, trade
<1>4. reply'.trades \in [1 .. k -> {trade(n) : n \in 1 .. k}]
  BY <1>1
<1>5. Len(reply'.trades) = k /\ DOMAIN reply'.trades = 1 .. k
  BY <1>2, <1>4, SeqDef
<1> QED
  BY <1>1, <1>2, <1>3, <1>5, SeqDef

-----------------------------------------------------------------------------
(* The calls of the book keep it *)

\* The orders that stay, with other quantities, are still in turn.
LEMMA FewerKeepBook ==
  ASSUME BookOK, NEW kept, kept \subseteq DOMAIN resting, DOMAIN resting' = kept,
         older' = older \cap (kept \X kept),
         \A id \in kept : resting'[id] = resting[id],
         resting' = [id \in kept |-> resting'[id]]
  PROVE  BookOK'
<1>1. IsFiniteSet(DOMAIN resting')
  BY FS_Subset DEF BookOK
<1>2. PICK Seen : resting \in [DOMAIN resting -> AnyOrder(Seen)]
  BY DEF BookOK
<1>3. resting' \in [DOMAIN resting' -> AnyOrder(Seen)]
  BY <1>2
<1>4. \A a, b \in kept : <<a, b>> \in older' <=> <<a, b>> \in older
  OBVIOUS
<1>5. \A a, b \in kept : Peers(a, b)' <=> Peers(a, b)
  BY DEF Peers
<1> QED
  BY <1>1, <1>3, <1>4, <1>5 DEF BookOK

\* An order that is added trades, and what is left of it is the last of its
\* level.
LEMMA AddKeepsBook ==
  ASSUME BookOK, NEW Seen, NEW o \in AnyOrder(Seen),
         NEW crossed, NEW left, NEW taken, NEW hit, NEW kept, NEW rest,
         AddedBy(o, crossed, left, taken, hit, kept, rest),
         Added(o, crossed, taken, hit, kept, rest)
  PROVE  BookOK'
<1> DEFINE after == [o EXCEPT !.remaining = rest]
           stays == (after.remaining > 0 \/ hit = {}) /\ o.type = "GoodTillCancel"
           own == IF stays THEN {o.id} ELSE {}
           peers == {id \in kept : resting[id].side = o.side /\ resting[id].price = o.price}
<1>1. PICK Old : resting \in [DOMAIN resting -> AnyOrder(Old)]
  BY DEF BookOK
<1> DEFINE More == Old \cup Seen
<1>2. /\ kept \subseteq DOMAIN resting /\ hit \subseteq crossed
      /\ o.id \notin DOMAIN resting /\ o.id \notin kept
  BY DEF AddedBy, Added
<1>3. /\ crossed \subseteq DOMAIN resting
      /\ \A id \in crossed : taken[id] \in Nat /\ resting[id].remaining - taken[id] \in Nat
      /\ rest \in Int /\ (hit = {} => rest = o.initial)
  BY TakenIsNat
<1>4. /\ o.initial \in Nat /\ o.side \in Book!Sides /\ o.price \in Int
      /\ after.remaining = rest /\ after.side = o.side /\ after.price = o.price
  BY DEF AnyOrder
<1>5. stays => after \in AnyOrder(More)
  <2>1. stays => rest \in Nat
    BY <1>3, <1>4
  <2> QED
    BY <2>1 DEF AnyOrder
<1>6. /\ DOMAIN resting' = kept \cup own
      /\ stays => resting'[o.id] = after
      /\ \A id \in kept :
           resting'[id] = IF id \in hit THEN [resting[id] EXCEPT !.remaining = @ - taken[id]]
                          ELSE resting[id]
      /\ resting' = [id \in kept \cup own |-> resting'[id]]
      /\ older' = (older \cap (kept \X kept)) \cup (IF stays THEN peers \X {o.id} ELSE {})
  BY <1>2 DEF Added
<1>7. \A id \in kept :
        /\ resting'[id] \in AnyOrder(More)
        /\ resting'[id].side = resting[id].side /\ resting'[id].price = resting[id].price
  <2> SUFFICES ASSUME NEW id \in kept
               PROVE  /\ resting'[id] \in AnyOrder(More)
                      /\ resting'[id].side = resting[id].side /\ resting'[id].price = resting[id].price
    OBVIOUS
  <2>1. resting[id] \in AnyOrder(Old)
    BY <1>1, <1>2
  <2>2. CASE id \in hit
    <3>1. resting'[id] = [resting[id] EXCEPT !.remaining = resting[id].remaining - taken[id]]
      BY <1>6, <2>2
    <3>2. resting[id].remaining - taken[id] \in Nat
      BY <1>2, <1>3, <2>2
    <3> QED
      BY <2>1, <3>1, <3>2 DEF AnyOrder
  <2>3. CASE id \notin hit
    BY <1>6, <2>1, <2>3 DEF AnyOrder
  <2> QED
    BY <2>2, <2>3
<1> HIDE DEF after, stays, More
<1>8. IsFiniteSet(DOMAIN resting')
  <2>1. IsFiniteSet(kept) /\ IsFiniteSet(kept \cup {o.id})
    BY <1>2, FS_Subset, FS_AddElement DEF BookOK
  <2> QED
    BY <1>6, <2>1
<1>9. resting' \in [DOMAIN resting' -> AnyOrder(More)]
  BY <1>5, <1>6, <1>7
<1>10. /\ \A a, b \in kept : /\ Peers(a, b)' <=> Peers(a, b)
                             /\ <<a, b>> \in older' <=> <<a, b>> \in older
       /\ \A a \in kept : stays => /\ Peers(a, o.id)' <=> a \in peers
                                   /\ Peers(o.id, a)' <=> a \in peers
       /\ \A a \in kept : stays => (<<a, o.id>> \in older' <=> a \in peers)
       /\ \A a : <<o.id, a>> \notin older'
       /\ \A a, b \in DOMAIN resting' : a # b => a \in kept \/ b \in kept
       /\ \A a \in DOMAIN resting' : a \in kept \/ (stays /\ a = o.id)
  <2>1. \A a, b \in kept : Peers(a, b)' <=> Peers(a, b)
    BY <1>7 DEF Peers
  <2>2. \A a, b \in kept : <<a, b>> \in older' <=> <<a, b>> \in older
    BY <1>2, <1>6
  <2>3. \A a \in kept : stays => /\ Peers(a, o.id)' <=> a \in peers
                                 /\ Peers(o.id, a)' <=> a \in peers
    BY <1>4, <1>6, <1>7 DEF Peers
  <2>4. \A a \in kept : stays => (<<a, o.id>> \in older' <=> a \in peers)
    BY <1>2, <1>6
  <2>5. \A a : <<o.id, a>> \notin older'
    BY <1>2, <1>6
  <2>6. \A a \in DOMAIN resting' : a \in kept \/ (stays /\ a = o.id)
    BY <1>6
  <2> QED
    BY <2>1, <2>2, <2>3, <2>4, <2>5, <2>6
<1> HIDE DEF own
<1>11. \A a, b \in DOMAIN resting' : <<a, b>> \in older' => Peers(a, b)'
  BY <1>2, <1>10 DEF BookOK
<1>12. \A a \in DOMAIN resting' : <<a, a>> \notin older'
  BY <1>2, <1>10 DEF BookOK
<1>13. ASSUME NEW a \in DOMAIN resting', NEW b \in DOMAIN resting', NEW c \in DOMAIN resting',
              <<a, b>> \in older', <<b, c>> \in older'
       PROVE  <<a, c>> \in older'
  <2>1. a \in kept /\ b \in kept
    BY <1>10, <1>13
  <2>2. CASE c \in kept
    BY <1>2, <1>10, <1>13, <2>1, <2>2 DEF BookOK
  <2>3. CASE stays /\ c = o.id
    <3>1. b \in peers /\ Peers(a, b)
      BY <1>2, <1>10, <1>13, <2>1, <2>3 DEF BookOK
    <3>2. a \in peers
      BY <2>1, <3>1 DEF Peers
    <3> QED
      BY <1>10, <2>1, <2>3, <3>2
  <2> QED
    BY <1>10, <2>2, <2>3
<1>14. \A a, b \in DOMAIN resting' : a # b /\ Peers(a, b)' => <<a, b>> \in older' \/ <<b, a>> \in older'
  BY <1>2, <1>10 DEF BookOK
<1> QED
  BY <1>8, <1>9, <1>11, <1>12, <1>13, <1>14 DEF BookOK

\* Nothing happens to the book.
LEMMA BookStays ==
  ASSUME BookOK, UNCHANGED <<resting, older>> PROVE BookOK'
BY DEF BookOK, Peers

\* The other calls of the book.
LEMMA OtherCallsKeepBook ==
  ASSUME BookOK, NEW id, Book!AddDuplicate(id) \/ Book!Cancel(id) \/ Book!Report PROVE BookOK'
<1>1. CASE Book!AddDuplicate(id) \/ Book!Report
  BY <1>1 DEF Book!AddDuplicate, Book!Report, BookOK, Peers
<1>2. CASE Book!Cancel(id)
  <2> DEFINE kept == DOMAIN resting \ {id}
  <2>1. resting' = [i \in kept |-> resting[i]] /\ older' = older \cap (kept \X kept)
    BY <1>2 DEF Book!Cancel, Book!Restrict
  <2> HIDE DEF kept
  <2>2. /\ DOMAIN resting' = kept /\ \A i \in kept : resting'[i] = resting[i]
        /\ resting' = [i \in kept |-> resting'[i]]
    BY <2>1
  <2>3. kept \subseteq DOMAIN resting
    BY DEF kept
  <2> QED
    BY <2>1, <2>2, <2>3, FewerKeepBook
<1> QED
  BY <1>1, <1>2

-----------------------------------------------------------------------------
(* Answers *)

\* The fills of an answer can be applied one by one, and are whole numbers of shares.
FillsOK(answer) ==
  /\ \E n \in Nat : DOMAIN answer.fills = 1 .. n
  /\ \A n \in DOMAIN answer.fills : answer.fills[n].quantity \in Nat

\* Each fill is one side of a trade.
LEMMA FillsOfTrades ==
  ASSUME NEW trades, Len(trades) \in Nat,
         \A n \in 1 .. Len(trades) : trades[n].bid.quantity \in Nat /\ trades[n].ask.quantity \in Nat,
         NEW answer, answer.fills = Fills(trades)
  PROVE  FillsOK(answer)
<1>1. DOMAIN Fills(trades) = 1 .. 2 * Len(trades)
  BY DEF Fills
<1>2. 2 * Len(trades) \in Nat
  OBVIOUS
<1>3. ASSUME NEW n \in 1 .. 2 * Len(trades) PROVE Fills(trades)[n].quantity \in Nat
  <2>1. Fills(trades)[n].quantity = Traded(trades, n).quantity
    BY DEF Fills
  <2>2. CASE n % 2 = 1
    <3>1. (n + 1) \div 2 \in 1 .. Len(trades)
      OBVIOUS
    <3> QED
      BY <2>1, <2>2, <3>1 DEF Traded
  <2>3. CASE n % 2 # 1
    <3>1. n \div 2 \in 1 .. Len(trades)
      BY <2>3
    <3> QED
      BY <2>1, <2>3, <3>1 DEF Traded
  <2> QED
    BY <2>2, <2>3
<1> QED
  BY <1>1, <1>2, <1>3 DEF FillsOK

\* Every call of the book keeps it, and its answer has fills that can be applied.
LEMMA CallsKeepBook ==
  ASSUME BookOK, NEW Seen, NEW o, NEW id,
         \/ o \in AnyOrder(Seen) /\ Book!Add(o)
         \/ Book!AddDuplicate(id) \/ Book!Cancel(id) \/ Book!Report
  PROVE  BookOK' /\ Answer(reply').kind = "answer" /\ FillsOK(Answer(reply'))
<1>1. ASSUME NEW answer, answer.fills = << >> PROVE FillsOK(answer)
  <2>1. DOMAIN answer.fills = 1 .. 0 /\ 1 .. 0 = {}
    BY <1>1
  <2> QED
    BY <2>1 DEF FillsOK
<1>2. CASE o \in AnyOrder(Seen) /\ Book!Add(o)
  <2>1. PICK crossed, left, taken, hit, kept, rest :
          /\ AddedBy(o, crossed, left, taken, hit, kept, rest)
          /\ Added(o, crossed, taken, hit, kept, rest)
    BY <1>2, AddParts
  <2>2. BookOK'
    BY <1>2, <2>1, AddKeepsBook
  <2>3. /\ Len(reply'.trades) \in Nat
        /\ \A n \in 1 .. Len(reply'.trades) :
             reply'.trades[n].bid.quantity \in Nat /\ reply'.trades[n].ask.quantity \in Nat
    BY <1>2, <2>1, AddTrades
  <2>4. reply'.call = "AddOrder"
    BY <2>1 DEF Added
  <2>5. /\ Answer(reply').fills = << >> \/ Answer(reply').fills = Fills(reply'.trades)
        /\ Answer(reply').kind = "answer"
    BY <2>4 DEF Answer
  <2>6. FillsOK(Answer(reply'))
    BY <1>1, <2>3, <2>5, FillsOfTrades
  <2> QED
    BY <2>2, <2>5, <2>6
<1>3. CASE Book!AddDuplicate(id) \/ Book!Cancel(id) \/ Book!Report
  <2>1. Answer(reply').fills = << >> /\ Answer(reply').kind = "answer"
    BY <1>3 DEF Book!AddDuplicate, Book!Cancel, Book!Report, Answer
  <2>2. FillsOK(Answer(reply'))
    BY <1>1, <2>1
  <2> QED
    BY <1>3, <2>1, <2>2, OtherCallsKeepBook
<1> QED
  BY <1>2, <1>3

\* A request, with the order it adds.
RequestOK(request) ==
  /\ request.kind = "request"
  /\ request.command = "ADD_ORDER" => \E Seen : request.order \in AnyOrder(Seen)

\* A turn of the server's loop.
LEMMA ServeKeepsBook ==
  ASSUME BookOK, NEW s, NEW open, Serve(s, open), RequestOK(wire[s])
  PROVE  BookOK' /\ Answer(reply').kind = "answer" /\ FillsOK(Answer(reply'))
<1>1. CASE /\ wire[s].command = "ADD_ORDER"
           /\ Book!Add(wire[s].order) \/ Book!AddDuplicate(wire[s].order.id)
  BY <1>1, CallsKeepBook DEF RequestOK
<1>2. CASE \/ wire[s].command = "CANCEL_ORDER" /\ Book!Cancel(wire[s].id)
           \/ wire[s].command = "GET_BOOK_INFO" /\ Book!Report
  BY <1>2, CallsKeepBook
<1> QED
  BY <1>1, <1>2 DEF Serve

\* An empty book.
LEMMA EmptyBookOK == resting = << >> /\ older = {} => BookOK
BY FS_EmptySet DEF BookOK

-----------------------------------------------------------------------------
(* What an answer says was filled *)

\* The shares of an order in the first fills.
FilledBy(fills, n, id) ==
  SumFunction([m \in 1 .. n |-> IF fills[m].id = id THEN fills[m].quantity ELSE 0])

\* The shares of an order in all of them.
FilledIn(answer, id) ==
  SumFunction([n \in DOMAIN answer.fills |->
                 IF answer.fills[n].id = id THEN answer.fills[n].quantity ELSE 0])

\* A fill more.
LEMMA FilledByNext ==
  ASSUME NEW fills, NEW n \in Nat, \A m \in 1 .. n : fills[m].quantity \in Nat, NEW id
  PROVE  /\ FilledBy(fills, n, id) \in Nat
         /\ n = 0 => FilledBy(fills, n, id) = 0
         /\ n # 0 => FilledBy(fills, n, id)
                       = FilledBy(fills, n - 1, id)
                           + (IF fills[n].id = id THEN fills[n].quantity ELSE 0)
<1> DEFINE share(m) == IF fills[m].id = id THEN fills[m].quantity ELSE 0
           f(k) == [m \in 1 .. k |-> share(m)]
<1>1. \A k : FilledBy(fills, k, id) = SumFunction(f(k))
  BY DEF FilledBy
<1>2. \A m \in 1 .. n : share(m) \in Nat
  OBVIOUS
<1> HIDE DEF share
<1>3. \A k \in Int : IsFiniteSet(1 .. k)
  BY FS_Interval
<1>4. SumFunction(f(n)) \in Nat
  <2>1. IsFiniteSet(DOMAIN f(n)) /\ \A m \in DOMAIN f(n) : f(n)[m] \in Nat
    BY <1>2, <1>3
  <2> HIDE DEF f
  <2> QED
    BY <2>1, SumFunctionIsNat
<1>5. ASSUME n = 0 PROVE SumFunction(f(n)) = 0
  <2>1. DOMAIN f(n) = {}
    BY <1>5
  <2> HIDE DEF f
  <2> QED
    BY <2>1, SumFunctionEmpty
<1>6. ASSUME n # 0 PROVE SumFunction(f(n)) = SumFunction(f(n - 1)) + share(n)
  <2> DEFINE g == f(n - 1)
             h == f(n)
  <2>1. /\ n - 1 \in Int /\ 1 .. n = (1 .. n - 1) \cup {n} /\ n \notin 1 .. n - 1 /\ n \in 1 .. n
        /\ 1 .. n - 1 \subseteq 1 .. n
    BY <1>6
  <2>2. /\ IsFiniteSet(DOMAIN g) /\ \A m \in DOMAIN g : g[m] \in Int
        /\ n \notin DOMAIN g /\ DOMAIN h = DOMAIN g \cup {n} /\ h[n] = share(n) /\ h[n] \in Int
        /\ \A m \in DOMAIN g : h[m] = g[m]
    BY <1>2, <1>3, <2>1
  <2> HIDE DEF f, g, h
  <2>3. SumFunction(h) = SumFunction(g) + h[n]
    BY <2>2, SumFunctionAdds
  <2> QED
    BY <2>2, <2>3 DEF g, h
<1> QED
  BY <1>1, <1>4, <1>5, <1>6 DEF share

\* All fills are the first ones, as many as there are.
LEMMA FilledInIsNat ==
  ASSUME NEW answer, FillsOK(answer), NEW id
  PROVE  /\ FilledIn(answer, id) \in Nat
         /\ \A n \in Nat : DOMAIN answer.fills = 1 .. n
                             => FilledIn(answer, id) = FilledBy(answer.fills, n, id)
<1>1. ASSUME NEW n \in Nat, DOMAIN answer.fills = 1 .. n
      PROVE  FilledIn(answer, id) = FilledBy(answer.fills, n, id)
  BY <1>1 DEF FilledIn, FilledBy
<1>2. PICK n \in Nat : DOMAIN answer.fills = 1 .. n
  BY DEF FillsOK
<1>3. FilledBy(answer.fills, n, id) \in Nat
  BY <1>2, FilledByNext DEF FillsOK
<1> QED
  BY <1>1, <1>2, <1>3

\* The two fills of a trade come together.
LEMMA FilledByTrade ==
  ASSUME NEW trades, NEW k \in Nat, Len(trades) = k,
         \A n \in 1 .. k : trades[n].bid.quantity \in Nat /\ trades[n].ask.quantity \in Nat,
         NEW n \in 1 .. k, NEW id
  PROVE  /\ FilledBy(Fills(trades), 2 * (n - 1), id) \in Nat
         /\ FilledBy(Fills(trades), 2 * n, id)
              = FilledBy(Fills(trades), 2 * (n - 1), id)
                  + (IF trades[n].bid.id = id THEN trades[n].bid.quantity ELSE 0)
                  + (IF trades[n].ask.id = id THEN trades[n].ask.quantity ELSE 0)
<1> DEFINE fills == Fills(trades)
<1>0. PICK b \in Nat : b = 2 * (n - 1)
  OBVIOUS
<1>1. /\ b + 1 \in Nat /\ b + 2 \in Nat /\ b + 1 # 0 /\ b + 2 # 0 /\ 2 * n = b + 2
      /\ (b + 1) - 1 = b /\ (b + 2) - 1 = b + 1
      /\ b + 1 \in 1 .. 2 * k /\ b + 2 \in 1 .. 2 * k
      /\ 1 .. b \subseteq 1 .. 2 * k /\ 1 .. b + 1 \subseteq 1 .. 2 * k
      /\ 1 .. b + 2 \subseteq 1 .. 2 * k
  BY <1>0
<1>2. DOMAIN fills = 1 .. 2 * k /\ \A m \in 1 .. 2 * k : fills[m].quantity \in Nat
  <2>1. FillsOK([fills |-> fills])
    BY FillsOfTrades
  <2>2. DOMAIN fills = 1 .. 2 * k
    BY DEF Fills
  <2> QED
    BY <2>1, <2>2 DEF FillsOK
<1>3. /\ fills[b + 1].id = trades[n].bid.id /\ fills[b + 1].quantity = trades[n].bid.quantity
      /\ fills[b + 2].id = trades[n].ask.id /\ fills[b + 2].quantity = trades[n].ask.quantity
  <2>1. /\ (b + 1) % 2 = 1 /\ ((b + 1) + 1) \div 2 = n
        /\ (b + 2) % 2 # 1 /\ (b + 2) \div 2 = n
    BY <1>0
  <2>2. Traded(trades, b + 1) = trades[n].bid /\ Traded(trades, b + 2) = trades[n].ask
    BY <2>1 DEF Traded
  <2> QED
    BY <1>1, <2>2 DEF Fills
<1> HIDE DEF fills
<1>4. ASSUME NEW m \in Nat, 1 .. m \subseteq 1 .. 2 * k
      PROVE  /\ FilledBy(fills, m, id) \in Nat
             /\ m # 0 => FilledBy(fills, m, id)
                           = FilledBy(fills, m - 1, id)
                               + (IF fills[m].id = id THEN fills[m].quantity ELSE 0)
  <2>1. \A i \in 1 .. m : fills[i].quantity \in Nat
    BY <1>2, <1>4
  <2> QED
    BY <2>1, FilledByNext
<1>5. /\ FilledBy(fills, b, id) \in Nat
      /\ FilledBy(fills, b + 1, id)
           = FilledBy(fills, b, id) + (IF trades[n].bid.id = id THEN trades[n].bid.quantity ELSE 0)
      /\ FilledBy(fills, b + 2, id)
           = FilledBy(fills, b + 1, id) + (IF trades[n].ask.id = id THEN trades[n].ask.quantity ELSE 0)
  BY <1>1, <1>3, <1>4
<1> QED
  BY <1>0, <1>1, <1>5 DEF fills

\* The trades of an order that is added, and the orders there are then.
LEMMA AddAnswers ==
  ASSUME BookOK, NEW Seen, NEW o \in AnyOrder(Seen), Book!Add(o)
  PROVE  /\ reply'.call = "AddOrder"
         /\ \E rest \in Int : reply'.order = [o EXCEPT !.remaining = rest]
         /\ DOMAIN resting' \subseteq DOMAIN resting \cup {o.id}
         /\ Len(reply'.trades) \in Nat /\ DOMAIN reply'.trades = 1 .. Len(reply'.trades)
         /\ \A n \in 1 .. Len(reply'.trades) :
              /\ reply'.trades[n].bid.quantity \in Nat /\ reply'.trades[n].ask.quantity \in Nat
              /\ {reply'.trades[n].bid.id, reply'.trades[n].ask.id} \subseteq DOMAIN resting \cup {o.id}
<1>1. PICK crossed, left, taken, hit, kept, rest :
        /\ AddedBy(o, crossed, left, taken, hit, kept, rest)
        /\ Added(o, crossed, taken, hit, kept, rest)
  BY AddParts
<1>2. kept \subseteq DOMAIN resting /\ rest \in Int
  BY <1>1, TakenIsNat DEF AddedBy
<1>3. /\ reply'.call = "AddOrder" /\ reply'.order = [o EXCEPT !.remaining = rest]
      /\ DOMAIN resting' \subseteq kept \cup {o.id}
  BY <1>1 DEF Added
<1> QED
  BY <1>1, <1>2, <1>3, AddTrades
\* What the trades of an order that is added say was filled: of an order that is
\* hit, what is taken of it; of the order itself, what it has less; of any other,
\* nothing.
LEMMA AddFills ==
  ASSUME BookOK, NEW Seen, NEW o \in AnyOrder(Seen),
         NEW crossed, NEW left, NEW taken, NEW hit, NEW kept, NEW rest,
         AddedBy(o, crossed, left, taken, hit, kept, rest),
         Added(o, crossed, taken, hit, kept, rest),
         NEW answer, answer.fills = Fills(reply'.trades)
  PROVE  /\ FilledIn(answer, o.id) = o.initial - rest
         /\ \A id \in hit : id # o.id /\ FilledIn(answer, id) = taken[id]
         /\ \A id : id # o.id /\ id \notin hit => FilledIn(answer, id) = 0
<1> DEFINE rank(id) == Cardinality({a \in crossed : Book!Ahead(a, id)})
           nth(n) == CHOOSE id \in hit : rank(id) = n - 1
           trade(n) == Book!TradeOf(o, nth(n), taken[nth(n)])
           trades == reply'.trades
           k == Cardinality(hit)
           first(n) == {id \in hit : rank(id) < n}
           some(n) == [id \in first(n) |-> taken[id]]
<1>1. trades = [n \in 1 .. k |-> trade(n)] /\ o.id \notin DOMAIN resting
  BY DEF Added
<1>2. /\ crossed \subseteq DOMAIN resting /\ IsFiniteSet(crossed) /\ DOMAIN taken = crossed
      /\ hit \subseteq crossed /\ IsFiniteSet(hit) /\ k \in Nat
      /\ \A id \in crossed : taken[id] \in Nat /\ (left[id] \in Int) /\ (left[id] <= 0 => taken[id] = 0)
  BY TakenIsNat, HitInTurn, FS_CardinalityType
<1>3. \A id \in hit : /\ rank(id) + 1 \in 1 .. k /\ rank(id) \in Nat
                      /\ \A b \in hit : rank(b) = rank(id) => b = id
  <2> SUFFICES ASSUME NEW id \in hit
               PROVE  /\ rank(id) + 1 \in 1 .. k /\ rank(id) \in Nat
                      /\ \A b \in hit : rank(b) = rank(id) => b = id
    OBVIOUS
  <2>1. /\ rank(id) + 1 \in 1 .. k
        /\ \A b \in hit : rank(b) = rank(id) => b = id
    BY EachHasTurn
  <2>2. {a \in crossed : Book!Ahead(a, id)} \subseteq crossed
    OBVIOUS
  <2>3. rank(id) \in Nat
    BY <1>2, <2>2, FS_Subset, FS_CardinalityType
  <2> QED
    BY <2>1, <2>3
<1>4. \A n \in 1 .. k : nth(n) \in hit /\ rank(nth(n)) = n - 1
  <2> SUFFICES ASSUME NEW n \in 1 .. k PROVE nth(n) \in hit /\ rank(nth(n)) = n - 1
    OBVIOUS
  <2>1. \E id \in hit : rank(id) = n - 1
    BY NthIsHit
  <2> QED
    BY <2>1
<1>5. \A n \in 1 .. k : taken[nth(n)] \in Nat /\ nth(n) # o.id
  BY <1>1, <1>2, <1>4
<1> HIDE DEF rank
<1>6. /\ Len(trades) = k /\ \A n \in 1 .. k : trades[n] = trade(n)
  <2> HIDE DEF trade
  <2>1. trades \in [1 .. k -> {trade(n) : n \in 1 .. k}]
    BY <1>1
  <2>2. Len(trades) = k
    BY <1>2, <2>1, SeqDef
  <2> QED
    BY <1>1, <2>2
<1> HIDE DEF nth
<1>7. \A n \in 1 .. k : \A id :
        /\ trade(n).bid.quantity \in Nat /\ trade(n).ask.quantity \in Nat
        /\ (IF trade(n).bid.id = id THEN trade(n).bid.quantity ELSE 0)
             + (IF trade(n).ask.id = id THEN trade(n).ask.quantity ELSE 0)
             = IF id \in {o.id, nth(n)} THEN taken[nth(n)] ELSE 0
  BY <1>5 DEF Book!TradeOf
<1> HIDE DEF trade, trades, k
<1> DEFINE filled(n, id) == FilledBy(Fills(trades), 2 * n, id)
<1>8. \A n \in 1 .. k : \A id :
        /\ filled(n - 1, id) \in Nat
        /\ filled(n, id) = filled(n - 1, id) + (IF id \in {o.id, nth(n)} THEN taken[nth(n)] ELSE 0)
  <2> SUFFICES ASSUME NEW n \in 1 .. k, NEW id
               PROVE  /\ filled(n - 1, id) \in Nat
                      /\ filled(n, id) = filled(n - 1, id)
                                           + (IF id \in {o.id, nth(n)} THEN taken[nth(n)] ELSE 0)
    OBVIOUS
  <2>1. \A m \in 1 .. k : trades[m].bid.quantity \in Nat /\ trades[m].ask.quantity \in Nat
    BY <1>6, <1>7
  <2> DEFINE bid == IF trades[n].bid.id = id THEN trades[n].bid.quantity ELSE 0
             ask == IF trades[n].ask.id = id THEN trades[n].ask.quantity ELSE 0
  <2>2. /\ filled(n - 1, id) \in Nat /\ filled(n, id) = filled(n - 1, id) + bid + ask
    <3>1. k \in Nat /\ Len(trades) = k
      BY <1>2, <1>6
    <3>2. \A m \in 1 .. k : \A x :
            /\ FilledBy(Fills(trades), 2 * (m - 1), x) \in Nat
            /\ FilledBy(Fills(trades), 2 * m, x)
                 = FilledBy(Fills(trades), 2 * (m - 1), x)
                     + (IF trades[m].bid.id = x THEN trades[m].bid.quantity ELSE 0)
                     + (IF trades[m].ask.id = x THEN trades[m].ask.quantity ELSE 0)
      BY <2>1, <3>1, FilledByTrade
    <3> QED
      BY <3>2
  <2>3. bid + ask = (IF id \in {o.id, nth(n)} THEN taken[nth(n)] ELSE 0) /\ bid \in Nat /\ ask \in Nat
    BY <1>6, <1>7, <2>1
  <2> HIDE DEF bid, ask, filled
  <2> QED
    BY <2>2, <2>3
<1>9. \A id : filled(0, id) = 0
  <2>1. 0 \in Nat /\ \A m \in 1 .. 0 : Fills(trades)[m].quantity \in Nat
    OBVIOUS
  <2>2. 2 * 0 = 0
    OBVIOUS
  <2> QED
    BY <2>1, <2>2, FilledByNext
<1> HIDE DEF filled
<1>10. \A n \in 1 .. k : first(n) = first(n - 1) \cup {nth(n)} /\ nth(n) \notin first(n - 1)
  <2> SUFFICES ASSUME NEW n \in 1 .. k
               PROVE  first(n) = first(n - 1) \cup {nth(n)} /\ nth(n) \notin first(n - 1)
    OBVIOUS
  <2>1. nth(n) \in hit /\ rank(nth(n)) = n - 1
    BY <1>4
  <2>2. \A id \in hit : rank(id) < n <=> (rank(id) < n - 1 \/ id = nth(n))
    BY <1>3, <2>1
  <2> QED
    BY <2>1, <2>2
<1>11. first(0) = {} /\ first(k) = hit
  BY <1>2, <1>3
<1>12. \A n : first(n) \subseteq hit /\ IsFiniteSet(first(n))
  BY <1>2, FS_Subset
<1> DEFINE Fine(n) ==
             /\ filled(n, o.id) = SumFunction(some(n))
             /\ \A id : id # o.id => filled(n, id) = IF id \in first(n) THEN taken[id] ELSE 0
           Good == {n \in 0 .. k : Fine(n)}
<1>13. 0 \in Good
  <2>1. SumFunction(some(0)) = 0
    BY <1>11, SumFunctionEmpty
  <2>2. Fine(0)
    BY <1>9, <1>11, <2>1
  <2> QED
    BY <1>2, <2>2
<1>14. ASSUME NEW n \in 1 .. k, n - 1 \in Good PROVE n \in Good
  <2>1. Fine(n - 1)
    BY <1>14
  <2>2. /\ first(n) = first(n - 1) \cup {nth(n)} /\ nth(n) \notin first(n - 1)
        /\ nth(n) \in hit /\ nth(n) # o.id /\ taken[nth(n)] \in Nat
    BY <1>4, <1>5, <1>10
  <2>3. SumFunction(some(n)) = SumFunction(some(n - 1)) + taken[nth(n)]
    <3> DEFINE f == some(n - 1)
               g == some(n)
    <3>1. /\ IsFiniteSet(DOMAIN f) /\ \A x \in DOMAIN f : f[x] \in Int
          /\ nth(n) \notin DOMAIN f /\ DOMAIN g = DOMAIN f \cup {nth(n)}
          /\ g[nth(n)] = taken[nth(n)] /\ g[nth(n)] \in Int
          /\ \A x \in DOMAIN f : g[x] = f[x]
      <4> HIDE DEF first
      <4> QED
        BY <1>2, <1>12, <2>2
    <3> HIDE DEF f, g
    <3>2. SumFunction(g) = SumFunction(f) + g[nth(n)]
      BY <3>1, SumFunctionAdds
    <3> QED
      BY <3>1, <3>2 DEF f, g
  <2> HIDE DEF first, some
  <2>4. filled(n, o.id) = SumFunction(some(n))
    BY <1>8, <2>1, <2>3
  <2>5. ASSUME NEW id, id # o.id PROVE filled(n, id) = IF id \in first(n) THEN taken[id] ELSE 0
    <3>1. filled(n - 1, id) = IF id \in first(n - 1) THEN taken[id] ELSE 0
      BY <2>1, <2>5
    <3>2. /\ filled(n - 1, id) \in Nat
          /\ filled(n, id) = filled(n - 1, id) + (IF id = nth(n) THEN taken[nth(n)] ELSE 0)
      BY <1>8, <2>5
    <3> QED
      BY <2>2, <3>1, <3>2
  <2>6. Fine(n)
    BY <2>4, <2>5
  <2> HIDE DEF Fine
  <2> QED
    BY <2>6
<1>15. Fine(k)
  <2> HIDE DEF Fine
  <2>1. \A n \in 0 .. k : n \in Good
    <3> HIDE DEF Good
    <3> QED
      BY <1>2, <1>13, <1>14, CountingUp
  <2>2. k \in 0 .. k
    BY <1>2
  <2> QED
    BY <2>1, <2>2
<1>16. SumFunction(some(k)) = SumFunction(taken)
  <2> DEFINE g == some(k)
  <2>1. DOMAIN g = hit /\ \A x \in DOMAIN g : g[x] = taken[x]
    BY <1>11
  <2> HIDE DEF g
  <2>2. \A x \in crossed \ hit : taken[x] = 0
    BY <1>2 DEF AddedBy
  <2> QED
    BY <1>2, <2>1, <2>2, SumFunctionIgnoresZeros DEF g
<1>17. \A id : FilledIn(answer, id) = filled(k, id)
  <2>1. \A m \in 1 .. k : trades[m].bid.quantity \in Nat /\ trades[m].ask.quantity \in Nat
    BY <1>6, <1>7
  <2>2. FillsOK(answer)
    BY <1>2, <1>6, <2>1, FillsOfTrades DEF trades
  <2>3. 2 * k \in Nat /\ DOMAIN answer.fills = 1 .. 2 * k
    BY <1>2, <1>6 DEF Fills, trades
  <2> QED
    BY <2>2, <2>3, FilledInIsNat DEF filled, trades
<1>18. o.initial - rest = SumFunction(taken)
  <2>1. o.initial \in Nat /\ SumFunction(taken) \in Nat /\ rest = o.initial - SumFunction(taken)
    BY <1>2, SumFunctionIsNat DEF AnyOrder, AddedBy
  <2> QED
    BY <2>1
<1>19. \A id \in hit : id # o.id
  BY <1>1, <1>2
<1> QED
  BY <1>11, <1>15, <1>16, <1>17, <1>18, <1>19

\* The answer says what the order that is added does to the open quantities: to
\* those of the orders that rested, and to its own, of which what is left rests
\* if it is GoodTillCancel.  An order with nothing left rests no more.
FilledExactly(o, answer) ==
  /\ o.id \notin DOMAIN resting /\ DOMAIN resting' \subseteq DOMAIN resting \cup {o.id}
  /\ \A id : id \notin DOMAIN resting \cup {o.id} => FilledIn(answer, id) = 0
  /\ \A id \in DOMAIN resting :
       /\ id \in DOMAIN resting' =>
            /\ resting'[id].initial = resting[id].initial
            /\ resting'[id].remaining = resting[id].remaining - FilledIn(answer, id)
       /\ FilledIn(answer, id) \in 0 .. resting[id].remaining
       /\ resting[id].remaining > 0 =>
            (id \in DOMAIN resting' <=> FilledIn(answer, id) < resting[id].remaining)
  /\ reply'.order = [o EXCEPT !.remaining = o.initial - FilledIn(answer, o.id)]
  /\ FilledIn(answer, o.id) \in 0 .. o.initial
  /\ o.id \in DOMAIN resting' => resting'[o.id] = reply'.order
  /\ o.initial > 0 => (o.id \in DOMAIN resting' <=>
                         o.type = "GoodTillCancel" /\ FilledIn(answer, o.id) < o.initial)

\* It does for every order.
LEMMA AddExact ==
  ASSUME BookOK, NEW Seen, NEW o \in AnyOrder(Seen), Book!Add(o),
         NEW answer, answer.fills = Fills(reply'.trades)
  PROVE  FilledExactly(o, answer)
<1>1. PICK crossed, left, taken, hit, kept, rest :
        /\ AddedBy(o, crossed, left, taken, hit, kept, rest)
        /\ Added(o, crossed, taken, hit, kept, rest)
  BY AddParts
<1>2. /\ FilledIn(answer, o.id) = o.initial - rest
      /\ \A id \in hit : id # o.id /\ FilledIn(answer, id) = taken[id]
      /\ \A id : id # o.id /\ id \notin hit => FilledIn(answer, id) = 0
  BY <1>1, AddFills
<1>3. /\ crossed \subseteq DOMAIN resting /\ hit \subseteq crossed
      /\ \A id \in crossed : taken[id] \in Nat /\ resting[id].remaining - taken[id] \in Nat
      /\ rest \in Int /\ (hit = {} => rest = o.initial)
      /\ kept = {id \in DOMAIN resting : id \in hit => taken[id] < resting[id].remaining}
      /\ o.initial \in Nat
      /\ \A id \in DOMAIN resting : resting[id].remaining \in Nat
  <2>1. /\ hit \subseteq crossed
        /\ kept = {id \in DOMAIN resting : id \in hit => taken[id] < resting[id].remaining}
    BY <1>1 DEF AddedBy
  <2>2. o.initial \in Nat /\ \A id \in DOMAIN resting : resting[id].remaining \in Nat
    BY RestingTyped DEF AnyOrder
  <2> QED
    BY <1>1, <2>1, <2>2, TakenIsNat
<1> DEFINE after == [o EXCEPT !.remaining = rest]
           stays == (after.remaining > 0 \/ hit = {}) /\ o.type = "GoodTillCancel"
<1>4. /\ o.id \notin DOMAIN resting
      /\ DOMAIN resting' = kept \cup (IF stays THEN {o.id} ELSE {})
      /\ stays => resting'[o.id] = after
      /\ \A id \in kept :
           resting'[id] = IF id \in hit THEN [resting[id] EXCEPT !.remaining = @ - taken[id]]
                          ELSE resting[id]
      /\ reply'.order = after
  BY <1>1, <1>3 DEF Added
<1>5. after.remaining = rest
  BY DEF AnyOrder
<1>6. o.initial - FilledIn(answer, o.id) = rest /\ FilledIn(answer, o.id) \in 0 .. o.initial
  <2>1. rest >= 0
    BY <1>1, TakenAtMost
  <2>2. SumFunction(taken) \in Nat
    BY <1>1, TakenIsNat, SumFunctionIsNat
  <2>3. rest = o.initial - SumFunction(taken)
    BY <1>1 DEF AddedBy
  <2> QED
    BY <1>2, <1>3, <2>1, <2>2, <2>3
<1>7. reply'.order = [o EXCEPT !.remaining = o.initial - FilledIn(answer, o.id)]
  BY <1>4, <1>6
<1>8. stays <=> (rest > 0 \/ hit = {}) /\ o.type = "GoodTillCancel"
  BY <1>5
<1> HIDE DEF after, stays
<1>9. o.initial > 0 => (o.id \in DOMAIN resting' <=>
                          o.type = "GoodTillCancel" /\ FilledIn(answer, o.id) < o.initial)
  <2>1. o.id \in DOMAIN resting' <=> stays
    BY <1>3, <1>4
  <2>2. FilledIn(answer, o.id) < o.initial <=> rest > 0
    BY <1>3, <1>6
  <2> QED
    BY <1>3, <1>8, <2>1, <2>2
<1>10. ASSUME NEW id \in DOMAIN resting
       PROVE  /\ id \in DOMAIN resting' =>
                   /\ resting'[id].initial = resting[id].initial
                   /\ resting'[id].remaining = resting[id].remaining - FilledIn(answer, id)
              /\ FilledIn(answer, id) \in 0 .. resting[id].remaining
              /\ resting[id].remaining > 0 =>
                   (id \in DOMAIN resting' <=> FilledIn(answer, id) < resting[id].remaining)
  <2>1. id # o.id /\ (id \in DOMAIN resting' <=> id \in kept)
    BY <1>4
  <2>2. PICK Old : resting[id] \in AnyOrder(Old)
    BY DEF BookOK
  <2>3. resting[id].remaining \in Nat
    BY <1>3
  <2>4. CASE id \in hit
    <3>1. FilledIn(answer, id) = taken[id] /\ taken[id] \in Nat /\ resting[id].remaining - taken[id] \in Nat
      BY <1>2, <1>3, <2>4
    <3>2. id \in kept => resting'[id] = [resting[id] EXCEPT !.remaining = resting[id].remaining - taken[id]]
      BY <1>4, <2>4
    <3>3. id \in kept => /\ resting'[id].initial = resting[id].initial
                         /\ resting'[id].remaining = resting[id].remaining - taken[id]
      BY <2>2, <3>2 DEF AnyOrder
    <3>4. id \in kept <=> taken[id] < resting[id].remaining
      BY <1>3, <2>4
    <3> QED
      BY <2>1, <2>3, <3>1, <3>3, <3>4
  <2>5. CASE id \notin hit
    <3>1. FilledIn(answer, id) = 0 /\ id \in kept /\ resting'[id] = resting[id]
      BY <1>2, <1>3, <1>4, <2>1, <2>5
    <3> QED
      BY <2>1, <2>3, <3>1
  <2> QED
    BY <2>4, <2>5
<1>11. /\ DOMAIN resting' \subseteq DOMAIN resting \cup {o.id}
       /\ o.id \in DOMAIN resting' => resting'[o.id] = reply'.order
       /\ \A id : id \notin DOMAIN resting \cup {o.id} => FilledIn(answer, id) = 0
  BY <1>2, <1>3, <1>4
<1> QED
  BY <1>4, <1>6, <1>7, <1>9, <1>10, <1>11 DEF FilledExactly

-----------------------------------------------------------------------------
(* Answers on the wire *)

\* Every answer that is on its way can be applied.
AnswersOK == \A s \in Sockets : Answered(s) => FillsOK(wire[s])

\* The sockets with an answer that no call has received.
Unread == {s \in Sockets : Answered(s)}

\* The shares of an order in those answers.
OnTheWay(id) == SumFunction([s \in Unread |-> FilledIn(wire[s], id)])

\* Answers are numbers of shares.
LEMMA OnTheWayIsNat ==
  ASSUME AnswersOK, IsFiniteSet(Unread), NEW id PROVE OnTheWay(id) \in Nat
<1> DEFINE f == [s \in Unread |-> FilledIn(wire[s], id)]
<1>1. IsFiniteSet(DOMAIN f) /\ \A s \in DOMAIN f : f[s] \in Nat
  BY FilledInIsNat DEF Unread, AnswersOK
<1>2. OnTheWay(id) = SumFunction(f)
  BY DEF OnTheWay
<1> HIDE DEF f
<1> QED
  BY <1>1, <1>2, SumFunctionIsNat

\* Answers get lost or are received.
LEMMA FewerOnTheWay ==
  ASSUME AnswersOK, IsFiniteSet(Unread),
         \A s \in Sockets : Answered(s)' => Answered(s) /\ wire'[s] = wire[s], NEW id
  PROVE  /\ OnTheWay(id)' \in Nat /\ OnTheWay(id)' <= OnTheWay(id)
         /\ \A s \in Sockets : Answered(s) /\ ~Answered(s)'
              => OnTheWay(id)' + FilledIn(wire[s], id) <= OnTheWay(id)
<1> DEFINE f == [s \in Unread |-> FilledIn(wire[s], id)]
           g == [s \in Unread' |-> FilledIn(wire'[s], id)]
<1>1. IsFiniteSet(DOMAIN f) /\ \A s \in DOMAIN f : f[s] \in Nat
  BY FilledInIsNat DEF Unread, AnswersOK
<1>2. OnTheWay(id) = SumFunction(f) /\ OnTheWay(id)' = SumFunction(g)
  BY DEF OnTheWay
<1>3. DOMAIN g \subseteq DOMAIN f /\ \A s \in DOMAIN g : g[s] = f[s]
  BY DEF Unread
<1>4. /\ SumFunction(g) <= SumFunction(f) /\ SumFunction(g) \in Nat /\ SumFunction(f) \in Nat
  <2> HIDE DEF f, g
  <2> QED
    BY <1>1, <1>3, SumFunctionFewer
<1>5. ASSUME NEW s \in Sockets, Answered(s), ~Answered(s)'
      PROVE  SumFunction(g) + FilledIn(wire[s], id) <= SumFunction(f)
  <2> DEFINE rest == [w \in Unread \ {s} |-> FilledIn(wire[w], id)]
  <2>1. /\ s \notin DOMAIN rest /\ DOMAIN f = DOMAIN rest \cup {s} /\ f[s] = FilledIn(wire[s], id)
        /\ \A w \in DOMAIN rest : f[w] = rest[w]
    BY <1>5 DEF Unread
  <2>2. DOMAIN g \subseteq DOMAIN rest /\ \A w \in DOMAIN g : g[w] = rest[w]
    BY <1>3, <1>5 DEF Unread
  <2> HIDE DEF f, g, rest
  <2>3. IsFiniteSet(DOMAIN rest) /\ \A w \in DOMAIN rest : rest[w] \in Nat
    BY <1>1, <2>1, FS_Subset
  <2>4. f[s] \in Nat /\ \A w \in DOMAIN rest : rest[w] \in Int
    BY <1>1, <2>1, <2>3
  <2>5. SumFunction(f) = SumFunction(rest) + f[s]
    BY <2>1, <2>3, <2>4, SumFunctionAdds
  <2>6. SumFunction(g) <= SumFunction(rest) /\ SumFunction(g) \in Nat /\ SumFunction(rest) \in Nat
    BY <2>2, <2>3, SumFunctionFewer
  <2> QED
    BY <2>1, <2>4, <2>5, <2>6
<1> QED
  BY <1>2, <1>4, <1>5

\* The server answers.
LEMMA MoreOnTheWay ==
  ASSUME AnswersOK, IsFiniteSet(Unread), NEW s \in Sockets, ~Answered(s),
         NEW answer, FillsOK(answer), wire'[s] = Null \/ wire'[s] = answer,
         \A w \in Sockets \ {s} : wire'[w] = wire[w], NEW id
  PROVE  OnTheWay(id)' \in Nat /\ OnTheWay(id)' <= OnTheWay(id) + FilledIn(answer, id)
<1> DEFINE f == [w \in Unread |-> FilledIn(wire[w], id)]
           g == [w \in Unread' |-> FilledIn(wire'[w], id)]
<1>1. IsFiniteSet(DOMAIN f) /\ \A w \in DOMAIN f : f[w] \in Nat
  BY FilledInIsNat DEF Unread, AnswersOK
<1>2. OnTheWay(id) = SumFunction(f) /\ OnTheWay(id)' = SumFunction(g)
  BY DEF OnTheWay
<1>3. SumFunction(f) \in Nat /\ FilledIn(answer, id) \in Nat
  BY <1>1, <1>2, OnTheWayIsNat, FilledInIsNat
<1>4. CASE Answered(s)'
  <2>1. wire'[s] = answer
    BY <1>4 DEF Answered
  <2>2. Unread' = Unread \cup {s} /\ s \notin Unread
    BY <1>4 DEF Unread, Answered
  <2>3. /\ s \notin DOMAIN f /\ DOMAIN g = DOMAIN f \cup {s} /\ g[s] = FilledIn(answer, id)
        /\ \A w \in DOMAIN f : g[w] = f[w]
    BY <2>1, <2>2 DEF Unread
  <2> HIDE DEF f, g
  <2>4. g[s] \in Int /\ \A w \in DOMAIN f : f[w] \in Int
    BY <1>1, <1>3, <2>3
  <2>5. SumFunction(g) = SumFunction(f) + g[s]
    BY <1>1, <2>3, <2>4, SumFunctionAdds
  <2> QED
    BY <1>2, <1>3, <2>3, <2>5
<1>5. CASE ~Answered(s)'
  <2>1. Unread' = Unread
    BY <1>5 DEF Unread, Answered
  <2>2. DOMAIN g = DOMAIN f /\ \A w \in DOMAIN f : g[w] = f[w]
    BY <2>1 DEF Unread
  <2> HIDE DEF f, g
  <2>3. SumFunction(g) = SumFunction(f)
    BY <1>1, <2>2, SumFunctionSame
  <2> QED
    BY <1>2, <1>3, <2>3
<1> QED
  BY <1>4, <1>5

\* Nothing was filled of an order that the answer does not name.
LEMMA NothingFilled ==
  ASSUME NEW answer, FillsOK(answer), NEW id, \A n \in DOMAIN answer.fills : answer.fills[n].id # id
  PROVE  FilledIn(answer, id) = 0
<1> DEFINE fills == answer.fills
           f == [n \in DOMAIN fills |-> IF fills[n].id = id THEN fills[n].quantity ELSE 0]
<1>1. PICK n \in Nat : DOMAIN fills = 1 .. n
  BY DEF FillsOK
<1>2. IsFiniteSet(1 .. n)
  BY <1>1, FS_Interval
<1>3. IsFiniteSet(DOMAIN f) /\ \A m \in DOMAIN f : f[m] = 0
  BY <1>1, <1>2
<1>4. FilledIn(answer, id) = SumFunction(f)
  BY DEF FilledIn
<1> HIDE DEF f
<1> QED
  BY <1>3, <1>4, SumOfZeros

\* Nothing is on its way of an order that no answer names.
LEMMA NothingOnTheWay ==
  ASSUME AnswersOK, IsFiniteSet(Unread), NEW id,
         \A s \in Sockets : Answered(s) => \A n \in DOMAIN wire[s].fills : wire[s].fills[n].id # id
  PROVE  OnTheWay(id) = 0
<1> DEFINE f == [s \in Unread |-> FilledIn(wire[s], id)]
<1>1. ASSUME NEW s \in Unread PROVE FilledIn(wire[s], id) = 0
  BY NothingFilled DEF Unread, AnswersOK
<1>2. IsFiniteSet(DOMAIN f) /\ \A s \in DOMAIN f : f[s] = 0
  BY <1>1
<1>3. OnTheWay(id) = SumFunction(f)
  BY DEF OnTheWay
<1> HIDE DEF f
<1> QED
  BY <1>2, <1>3, SumOfZeros

\* The fills of trades are of the orders that traded.
LEMMA FillsName ==
  ASSUME NEW trades, Len(trades) \in Nat, NEW Ids,
         \A n \in 1 .. Len(trades) : {trades[n].bid.id, trades[n].ask.id} \subseteq Ids
  PROVE  \A n \in DOMAIN Fills(trades) : Fills(trades)[n].id \in Ids
<1> SUFFICES ASSUME NEW n \in 1 .. 2 * Len(trades) PROVE Fills(trades)[n].id \in Ids
  BY DEF Fills
<1>1. Fills(trades)[n].id = Traded(trades, n).id
  BY DEF Fills
<1>2. CASE n % 2 = 1
  <2>1. (n + 1) \div 2 \in 1 .. Len(trades)
    OBVIOUS
  <2> QED
    BY <1>1, <1>2, <2>1 DEF Traded
<1>3. CASE n % 2 # 1
  <2>1. n \div 2 \in 1 .. Len(trades)
    BY <1>3
  <2> QED
    BY <1>1, <1>3, <2>1 DEF Traded
<1> QED
  BY <1>2, <1>3

\* The fills of trades, if they are of ids and numbers.
LEMMA FillsAreMessages ==
  ASSUME NEW trades, Len(trades) \in Nat,
         \A n \in DOMAIN Fills(trades) : Fills(trades)[n].id \in Nat /\ Fills(trades)[n].quantity \in Nat
  PROVE  Fills(trades) \in Seq([id : Nat, quantity : Nat])
<1> DEFINE k == 2 * Len(trades)
           entry(n) == [id |-> Traded(trades, n).id, quantity |-> Traded(trades, n).quantity]
<1>1. k \in Nat /\ Fills(trades) = [n \in 1 .. k |-> entry(n)]
  BY DEF Fills
<1>2. \A n \in 1 .. k : entry(n) \in [id : Nat, quantity : Nat]
  <2> SUFFICES ASSUME NEW n \in 1 .. k PROVE entry(n) \in [id : Nat, quantity : Nat]
    OBVIOUS
  <2>1. n \in DOMAIN Fills(trades) /\ Fills(trades)[n] = entry(n)
    BY <1>1
  <2>2. entry(n).id \in Nat /\ entry(n).quantity \in Nat
    <3> HIDE DEF entry
    <3> QED
      BY <2>1
  <2> QED
    BY <2>2
<1> HIDE DEF k, entry
<1>3. Fills(trades) \in [1 .. k -> [id : Nat, quantity : Nat]]
  BY <1>1, <1>2
<1> QED
  BY <1>1, <1>3, SeqDef
=============================================================================
