--------------------------- MODULE OrderBookProofs ---------------------------
(***************************************************************************)
(* What the book of OrderBook keeps for every set of ids, prices and       *)
(* quantities, and for books of any size.                                  *)
(*                                                                         *)
(* The argument is about one side at a time: SideOK relates the levels of  *)
(* a side to the index and the Order objects.  A push, an erasure and a    *)
(* change of quantities keep it (the lemmas), every step of the book is    *)
(* made of these, and IndexConsistent is SideOK of both sides.             *)
(*                                                                         *)
(* TradesInv is about the trades of the call in progress, and KeepsTurns   *)
(* about the places in a level.                                            *)
(***************************************************************************)
EXTENDS OrderBook, WellFoundedInduction, SumTheorems, TLAPS

LevelsOf(levels) ==
  /\ DOMAIN levels \subseteq Prices
  /\ levels \in [DOMAIN levels -> Seq(OrderIds)]

SideOK(levels, side, map, os) ==
  /\ LevelsOf(levels)
  /\ \A p \in DOMAIN levels :
       /\ levels[p] # << >>
       /\ \A i, j \in 1 .. Len(levels[p]) : levels[p][i] = levels[p][j] => i = j
       /\ \A i \in 1 .. Len(levels[p]) :
            /\ levels[p][i] \in map
            /\ os[levels[p][i]].id = levels[p][i]
            /\ os[levels[p][i]].side = side
            /\ os[levels[p][i]].price = p
  /\ \A id \in map :
       os[id].side = side =>
         /\ os[id].price \in DOMAIN levels
         /\ \E i \in 1 .. Len(levels[os[id].price]) : levels[os[id].price][i] = id

\* The orders of a set keep their identity: only quantities may differ.
SameOrders(map, os, new) ==
  \A id \in map : /\ new[id].id = os[id].id
                  /\ new[id].side = os[id].side
                  /\ new[id].price = os[id].price

-----------------------------------------------------------------------------
(* Sequences and levels *)

\* Erasing the i-th order of a level leaves the others, in their turn.
LEMMA WithoutProperties ==
  ASSUME NEW S, NEW s \in Seq(S), NEW i \in 1 .. Len(s)
  PROVE  /\ Without(s, i) \in Seq(S)
         /\ Len(Without(s, i)) = Len(s) - 1
         /\ \A j \in 1 .. Len(s) - 1 :
              Without(s, i)[j] = IF j < i THEN s[j] ELSE s[j + 1]
<1>1. Len(s) - 1 \in Nat
  OBVIOUS
<1>2. \A j \in 1 .. Len(s) - 1 : (IF j < i THEN s[j] ELSE s[j + 1]) \in S
  OBVIOUS
<1>3. Without(s, i) \in [1 .. Len(s) - 1 -> S]
  BY <1>2 DEF Without
<1> QED
  BY <1>1, <1>3 DEF Without

\* Quantities are no part of what a side and the index agree on.
LEMMA SideIgnoresQuantities ==
  ASSUME NEW levels, NEW side, NEW map, NEW os, NEW new,
         SideOK(levels, side, map, os), SameOrders(map, os, new)
  PROVE  SideOK(levels, side, map, new)
BY DEF SideOK, SameOrders

\* An order leaves the index: the side it was not on does not notice.
LEMMA OtherSideUnaffected ==
  ASSUME NEW levels, NEW side, NEW map, NEW os, NEW id,
         SideOK(levels, side, map, os), os[id].side # side
  PROVE  SideOK(levels, side, map \ {id}, os)
BY DEF SideOK

\* An order leaves the index and its own side together.
LEMMA EraseKeepsSide ==
  ASSUME NEW levels, NEW side, NEW map, NEW os, NEW price \in DOMAIN levels,
         NEW i \in 1 .. Len(levels[price]),
         SideOK(levels, side, map, os)
  PROVE  SideOK(EraseAt(levels, price, i), side, map \ {levels[price][i]}, os)
<1> DEFINE level == levels[price]
           id == level[i]
           after == EraseAt(levels, price, i)
<1>1. level \in Seq(OrderIds) /\ Len(level) \in Nat /\ Len(level) > 0
  BY DEF SideOK, LevelsOf
<1>2. /\ id \in map /\ os[id].side = side /\ os[id].price = price
      /\ \A j \in 1 .. Len(level) : level[j] = id => j = i
  BY DEF SideOK
<1>3. CASE Len(level) = 1
  <2>1. after = [p \in DOMAIN levels \ {price} |-> levels[p]]
    BY <1>3 DEF EraseAt, Restrict
  <2>2. LevelsOf(after)
    BY <2>1 DEF SideOK, LevelsOf
  <2>3. \A p \in DOMAIN after : p \in DOMAIN levels /\ p # price /\ after[p] = levels[p]
    BY <2>1
  <2>4. \A p \in DOMAIN after : \A j \in 1 .. Len(after[p]) :
          after[p][j] \in map \ {id}
    BY <2>3, <1>2 DEF SideOK
  <2>5. ASSUME NEW other \in map \ {id}, os[other].side = side
        PROVE  os[other].price \in DOMAIN levels \ {price}
               /\ \E j \in 1 .. Len(levels[os[other].price]) : levels[os[other].price][j] = other
    <3>1. PICK j \in 1 .. Len(levels[os[other].price]) : levels[os[other].price][j] = other
      BY <2>5 DEF SideOK
    <3>2. os[other].price # price
      BY <3>1, <1>1, <1>3
    <3> QED
      BY <3>1, <3>2, <2>5 DEF SideOK
  <2> QED
    BY <2>1, <2>2, <2>3, <2>4, <2>5 DEF SideOK
<1>4. CASE Len(level) # 1
  <2> DEFINE rest == Without(level, i)
  <2>1. /\ rest \in Seq(OrderIds) /\ Len(rest) = Len(level) - 1
        /\ \A j \in 1 .. Len(level) - 1 : rest[j] = IF j < i THEN level[j] ELSE level[j + 1]
    BY <1>1, WithoutProperties
  <2>2. after = [levels EXCEPT ![price] = rest]
    BY <1>4 DEF EraseAt
  <2>3. /\ DOMAIN after = DOMAIN levels /\ after[price] = rest
        /\ \A p \in DOMAIN levels \ {price} : after[p] = levels[p]
    BY <2>2
  <2>4. LevelsOf(after)
    BY <2>1, <2>2 DEF SideOK, LevelsOf
  <2> HIDE DEF rest, after
  <2>5. rest # << >>
    BY <2>1, <1>1, <1>4
  <2>6. \A j, k \in 1 .. Len(rest) : rest[j] = rest[k] => j = k
    <3> SUFFICES ASSUME NEW j \in 1 .. Len(rest), NEW k \in 1 .. Len(rest), rest[j] = rest[k]
                 PROVE  j = k
      OBVIOUS
    <3>1. \A m, n \in 1 .. Len(level) : level[m] = level[n] => m = n
      BY DEF SideOK
    <3> QED
      BY <3>1, <2>1, <1>1
  <2>7. \A j \in 1 .. Len(rest) : \E k \in 1 .. Len(level) : k # i /\ rest[j] = level[k]
    <3> SUFFICES ASSUME NEW j \in 1 .. Len(rest)
                 PROVE  \E k \in 1 .. Len(level) : k # i /\ rest[j] = level[k]
      OBVIOUS
    <3>1. CASE j < i
      BY <3>1, <2>1, <1>1
    <3>2. CASE ~(j < i)
      <4>1. j + 1 \in 1 .. Len(level) /\ j + 1 # i /\ rest[j] = level[j + 1]
        BY <3>2, <2>1, <1>1
      <4> QED
        BY <4>1
    <3> QED
      BY <3>1, <3>2
  <2>8. \A j \in 1 .. Len(rest) :
          /\ rest[j] \in map \ {id}
          /\ os[rest[j]].id = rest[j] /\ os[rest[j]].side = side /\ os[rest[j]].price = price
    BY <2>7, <1>2 DEF SideOK
  <2>9. \A k \in 1 .. Len(level) : k # i => \E j \in 1 .. Len(rest) : rest[j] = level[k]
    <3> SUFFICES ASSUME NEW k \in 1 .. Len(level), k # i
                 PROVE  \E j \in 1 .. Len(rest) : rest[j] = level[k]
      OBVIOUS
    <3>1. CASE k < i
      <4>1. k \in 1 .. Len(rest) /\ rest[k] = level[k]
        BY <3>1, <2>1, <1>1
      <4> QED
        BY <4>1
    <3>2. CASE k > i
      <4>1. k - 1 \in 1 .. Len(rest) /\ ~(k - 1 < i) /\ rest[k - 1] = level[k - 1 + 1]
        BY <3>2, <2>1, <1>1
      <4>2. k - 1 + 1 = k
        OBVIOUS
      <4> QED
        BY <4>1, <4>2
    <3> QED
      BY <3>1, <3>2
  <2>10. \A p \in DOMAIN levels \ {price} : \A j \in 1 .. Len(levels[p]) : levels[p][j] # id
    BY <1>2 DEF SideOK
  <2>11. ASSUME NEW other \in map \ {id}, os[other].side = side
         PROVE  os[other].price \in DOMAIN after
                /\ \E j \in 1 .. Len(after[os[other].price]) : after[os[other].price][j] = other
    <3>1. /\ os[other].price \in DOMAIN levels
          /\ \E j \in 1 .. Len(levels[os[other].price]) : levels[os[other].price][j] = other
      BY <2>11 DEF SideOK
    <3>2. CASE os[other].price = price
      BY <3>1, <3>2, <2>3, <2>9
    <3>3. CASE os[other].price # price
      BY <3>1, <3>3, <2>3
    <3> QED
      BY <3>2, <3>3
  <2>12. ASSUME NEW p \in DOMAIN after
         PROVE  /\ after[p] # << >>
                /\ \A j, k \in 1 .. Len(after[p]) : after[p][j] = after[p][k] => j = k
                /\ \A j \in 1 .. Len(after[p]) :
                     /\ after[p][j] \in map \ {id}
                     /\ os[after[p][j]].id = after[p][j]
                     /\ os[after[p][j]].side = side
                     /\ os[after[p][j]].price = p
    <3>1. CASE p = price
      BY <3>1, <2>3, <2>5, <2>6, <2>8
    <3>2. CASE p # price
      BY <3>2, <2>3, <2>10 DEF SideOK
    <3> QED
      BY <3>1, <3>2
  <2> QED
    BY <2>4, <2>11, <2>12 DEF SideOK, after
<1> QED
  BY <1>3, <1>4

\* An order goes to the back of a level of its side, or opens the level.
LEMMA PushKeepsSide ==
  ASSUME NEW levels, NEW side, NEW map, NEW os, NEW new,
         NEW price \in Prices, NEW id \in OrderIds \ map,
         SideOK(levels, side, map, os), SameOrders(map, os, new),
         new[id].id = id, new[id].side = side, new[id].price = price
  PROVE  SideOK(PushBack(levels, price, id), side, map \cup {id}, new)
<1> DEFINE after == PushBack(levels, price, id)
<1>1. SideOK(levels, side, map, new)
  BY SideIgnoresQuantities
<1>2. /\ DOMAIN after = DOMAIN levels \cup {price}
      /\ \A p \in DOMAIN levels \ {price} : after[p] = levels[p]
  BY DEF PushBack
<1>3. /\ after[price] \in Seq(OrderIds)
      /\ price \in DOMAIN levels =>
           /\ Len(after[price]) = Len(levels[price]) + 1
           /\ after[price][Len(levels[price]) + 1] = id
           /\ \A j \in 1 .. Len(levels[price]) : after[price][j] = levels[price][j]
      /\ price \notin DOMAIN levels => after[price] = <<id>>
  <2>1. CASE price \in DOMAIN levels
    <3>1. levels[price] \in Seq(OrderIds) /\ after[price] = Append(levels[price], id)
      BY <2>1 DEF PushBack, SideOK, LevelsOf
    <3> QED
      BY <3>1, <2>1
  <2>2. CASE price \notin DOMAIN levels
    BY <2>2 DEF PushBack
  <2> QED
    BY <2>1, <2>2
<1>4. LevelsOf(after)
  <2>1. after \in [DOMAIN levels \cup {price} -> Seq(OrderIds)]
    <3>1. \A p \in DOMAIN levels \cup {price} : after[p] \in Seq(OrderIds)
      BY <1>2, <1>3 DEF SideOK, LevelsOf
    <3>2. after = [p \in DOMAIN levels \cup {price} |-> after[p]]
      BY DEF PushBack
    <3> QED
      BY <3>1, <3>2
  <2> QED
    BY <2>1, <1>2 DEF SideOK, LevelsOf
<1> HIDE DEF after
<1>5. \A p \in DOMAIN levels : levels[p] \in Seq(OrderIds) /\ Len(levels[p]) \in Nat
  BY DEF SideOK, LevelsOf
<1>6. \A p \in DOMAIN levels : \A j \in 1 .. Len(levels[p]) : levels[p][j] # id
  BY DEF SideOK
<1>7. ASSUME NEW p \in DOMAIN after
      PROVE  /\ after[p] # << >>
             /\ \A j, k \in 1 .. Len(after[p]) : after[p][j] = after[p][k] => j = k
             /\ \A j \in 1 .. Len(after[p]) :
                  /\ after[p][j] \in map \cup {id}
                  /\ new[after[p][j]].id = after[p][j]
                  /\ new[after[p][j]].side = side
                  /\ new[after[p][j]].price = p
  <2>1. CASE p # price
    BY <2>1, <1>1, <1>2 DEF SideOK
  <2>2. CASE p = price /\ price \in DOMAIN levels
    <3> DEFINE n == Len(levels[price])
    <3>1. /\ n \in Nat /\ Len(after[price]) = n + 1 /\ after[price][n + 1] = id
          /\ \A j \in 1 .. n : after[price][j] = levels[price][j]
      BY <2>2, <1>3, <1>5
    <3>2. \A j \in 1 .. n : /\ levels[price][j] \in map /\ levels[price][j] # id
                            /\ new[levels[price][j]].id = levels[price][j]
                            /\ new[levels[price][j]].side = side
                            /\ new[levels[price][j]].price = price
      BY <2>2, <1>1, <1>6 DEF SideOK
    <3>3. \A j, k \in 1 .. n : levels[price][j] = levels[price][k] => j = k
      BY <2>2 DEF SideOK
    <3> HIDE DEF n
    <3>4. \A j \in 1 .. n + 1 : j \in 1 .. n \/ j = n + 1
      BY <3>1
    <3>5. after[price] # << >>
      BY <3>1
    <3> QED
      BY <3>1, <3>2, <3>3, <3>4, <3>5, <2>2
  <2>3. CASE p = price /\ price \notin DOMAIN levels
    <3>1. after[p] = <<id>>
      BY <2>3, <1>3
    <3>2. <<id>> # << >> /\ Len(<<id>>) = 1 /\ <<id>>[1] = id
      OBVIOUS
    <3>3. Len(after[p]) = 1 /\ after[p][1] = id /\ after[p] # << >>
      BY <3>1, <3>2
    <3>4. \A j \in 1 .. Len(after[p]) : j = 1
      BY <3>3
    <3> QED
      BY <3>3, <3>4, <2>3
  <2> QED
    BY <2>1, <2>2, <2>3
<1>8. ASSUME NEW other \in map \cup {id}, new[other].side = side
      PROVE  /\ new[other].price \in DOMAIN after
             /\ \E j \in 1 .. Len(after[new[other].price]) : after[new[other].price][j] = other
  <2>1. CASE other = id
    <3>1. CASE price \in DOMAIN levels
      <4>1. Len(levels[price]) + 1 \in 1 .. Len(after[price])
        BY <3>1, <1>3, <1>5
      <4> QED
        BY <4>1, <3>1, <2>1, <1>2, <1>3
    <3>2. CASE price \notin DOMAIN levels
      <4>1. after[price] = <<id>> /\ 1 \in 1 .. Len(<<id>>) /\ <<id>>[1] = id
        BY <3>2, <1>3
      <4> QED
        BY <4>1, <2>1, <1>2
    <3> QED
      BY <3>1, <3>2
  <2>2. CASE other # id
    <3>1. /\ new[other].price \in DOMAIN levels
          /\ \E j \in 1 .. Len(levels[new[other].price]) : levels[new[other].price][j] = other
      BY <2>2, <1>8, <1>1 DEF SideOK
    <3>2. CASE new[other].price = price
      <4>1. \A j \in 1 .. Len(levels[price]) : j \in 1 .. Len(after[price])
        BY <3>1, <3>2, <1>3, <1>5
      <4> QED
        BY <4>1, <3>1, <3>2, <1>2, <1>3
    <3>3. CASE new[other].price # price
      BY <3>1, <3>3, <1>2
    <3> QED
      BY <3>2, <3>3
  <2> QED
    BY <2>1, <2>2
<1> QED
  BY <1>4, <1>7, <1>8 DEF SideOK, after

\* An order enters the index: the side it is not on does not notice.
LEMMA OtherSideIgnoresPush ==
  ASSUME NEW levels, NEW side, NEW map, NEW os, NEW new, NEW id,
         SideOK(levels, side, map, os), SameOrders(map, os, new), new[id].side # side
  PROVE  SideOK(levels, side, map \cup {id}, new)
BY DEF SideOK, SameOrders

\* What is popped leaves the index, and both sides agree with what is left.
LEMMA PopKeepsSides ==
  ASSUME NEW levels, NEW side, NEW others, NEW otherSide, NEW map, NEW os,
         NEW price \in DOMAIN levels, side # otherSide,
         SideOK(levels, side, map, os), SideOK(others, otherSide, map, os)
  PROVE  LET o    == os[Head(levels[price])]
             left == map \ {id \in {o.id} : IsFilled(o)}
         IN  /\ SideOK(PopIfFilled(levels, price, o), side, left, os)
             /\ SideOK(others, otherSide, left, os)
<1> DEFINE id == levels[price][1]
<1>1. levels[price] \in Seq(OrderIds) /\ levels[price] # << >>
  BY DEF SideOK, LevelsOf
<1>2. 1 \in 1 .. Len(levels[price]) /\ Head(levels[price]) = id
  BY <1>1
<1>3. os[id].id = id /\ os[id].side = side
  BY <1>2 DEF SideOK
<1>4. CASE IsFilled(os[id])
  <2>1. /\ SideOK(EraseAt(levels, price, 1), side, map \ {id}, os)
        /\ SideOK(others, otherSide, map \ {id}, os)
    BY <1>2, <1>3, EraseKeepsSide, OtherSideUnaffected
  <2> QED
    BY <2>1, <1>2, <1>3, <1>4 DEF PopIfFilled
<1>5. CASE ~IsFilled(os[id])
  <2>1. map \ {i \in {os[id].id} : IsFilled(os[id])} = map
    BY <1>5
  <2> QED
    BY <2>1, <1>2, <1>5 DEF PopIfFilled
<1> QED
  BY <1>4, <1>5

-----------------------------------------------------------------------------
(* The invariant *)

\* Both sides agree with the index, every listed order is alive, and so is the
\* order AddOrder works on, filled or not: the caller holds it.
Inv ==
  /\ TypeOK
  /\ \A id \in orders_map : orders[id] # Null
  /\ SideOK(bids, "Buy", orders_map, orders)
  /\ SideOK(asks, "Sell", orders_map, orders)
  /\ ~Idle => orders[order] # Null

LEMMA InvInit == Init => Inv
BY BookAssumption DEF Init, Inv, TypeOK, SideOK, LevelsOf, Idle

\* SideOK is what the properties of OrderBook say of a side.
LEMMA InvImpliesIndex == Inv => IndexConsistent
<1> SUFFICES ASSUME Inv PROVE IndexConsistent
  OBVIOUS
<1>1. \A p \in DOMAIN bids : bids[p] \in Seq(OrderIds) /\ DOMAIN bids[p] = 1 .. Len(bids[p])
  BY DEF Inv, TypeOK
<1>2. \A p \in DOMAIN asks : asks[p] \in Seq(OrderIds) /\ DOMAIN asks[p] = 1 .. Len(asks[p])
  BY DEF Inv, TypeOK
<1>3. LevelsPointIntoMap(bids, "Buy") /\ MapPointsInto(bids, "Buy")
  BY <1>1 DEF Inv, SideOK, LevelsPointIntoMap, MapPointsInto, IsInjective, Range
<1>4. LevelsPointIntoMap(asks, "Sell") /\ MapPointsInto(asks, "Sell")
  BY <1>2 DEF Inv, SideOK, LevelsPointIntoMap, MapPointsInto, IsInjective, Range
<1> QED
  BY <1>3, <1>4 DEF IndexConsistent, Inv

LEMMA AddToLevelKeepsInv ==
  ASSUME Inv, NEW o \in Order, AddToLevel(o)
  PROVE  Inv'
<1>1. /\ o.id \in OrderIds \ orders_map /\ o.price \in Prices /\ o.side \in Side /\ o # Null
  BY BookAssumption DEF AddToLevel, Order
<1>2. /\ orders' = [orders EXCEPT ![o.id] = o] /\ orders'[o.id] = o
      /\ orders_map' = orders_map \cup {o.id}
      /\ SameOrders(orders_map, orders, orders')
  BY <1>1 DEF AddToLevel, Inv, TypeOK, SameOrders
<1>3. /\ SideOK(bids', "Buy", orders_map', orders')
      /\ SideOK(asks', "Sell", orders_map', orders')
  <2>1. CASE o.side = "Buy"
    <3>1. bids' = PushBack(bids, o.price, o.id) /\ asks' = asks
      BY <2>1 DEF AddToLevel
    <3>2. SideOK(bids', "Buy", orders_map', orders')
      BY <3>1, <2>1, <1>1, <1>2, PushKeepsSide DEF Inv
    <3>3. SideOK(asks', "Sell", orders_map', orders')
      BY <3>1, <2>1, <1>2, OtherSideIgnoresPush DEF Inv
    <3> QED
      BY <3>2, <3>3
  <2>2. CASE o.side = "Sell"
    <3>1. asks' = PushBack(asks, o.price, o.id) /\ bids' = bids
      BY <2>2 DEF AddToLevel
    <3>2. SideOK(asks', "Sell", orders_map', orders')
      BY <3>1, <2>2, <1>1, <1>2, PushKeepsSide DEF Inv
    <3>3. SideOK(bids', "Buy", orders_map', orders')
      BY <3>1, <2>2, <1>2, OtherSideIgnoresPush DEF Inv
    <3> QED
      BY <3>2, <3>3
  <2> QED
    BY <2>1, <2>2, <1>1 DEF Side
<1>4. TypeOK'
  BY <1>1, <1>2, <1>3 DEF AddToLevel, Inv, TypeOK, SideOK, LevelsOf
<1>5. (\A id \in orders_map : orders[id] # Null)' /\ (~Idle => orders[order] # Null)'
  BY <1>1, <1>2 DEF AddToLevel, Inv, TypeOK
<1> QED
  BY <1>3, <1>4, <1>5 DEF Inv

\* Erasing an order that is listed: CancelOrder and the end of AddOrder.
LEMMA CancelKeepsSides ==
  ASSUME Inv, NEW id \in orders_map, CancelOrderInternal(id)
  PROVE  /\ SideOK(bids', "Buy", orders_map', orders)
         /\ SideOK(asks', "Sell", orders_map', orders)
         /\ orders_map' = orders_map \ {id}
<1> DEFINE price == orders[id].price
<1>1. orders[id].side \in Side
  BY DEF Inv, TypeOK, Order
<1>2. orders_map' = orders_map \ {id}
  BY DEF CancelOrderInternal
<1>3. CASE orders[id].side = "Buy"
  <2> DEFINE i == Location(bids[price], id)
  <2>1. price \in DOMAIN bids /\ \E j \in 1 .. Len(bids[price]) : bids[price][j] = id
    BY <1>3 DEF Inv, SideOK
  <2>2. bids[price] \in Seq(OrderIds)
    BY <2>1 DEF Inv, TypeOK
  <2>3. i \in 1 .. Len(bids[price]) /\ bids[price][i] = id
    BY <2>1, <2>2 DEF Location
  <2>4. bids' = EraseAt(bids, price, i) /\ asks' = asks
    BY <1>3 DEF CancelOrderInternal
  <2> HIDE DEF i, price
  <2>5. SideOK(bids', "Buy", orders_map', orders)
    BY <2>1, <2>3, <2>4, <1>2, EraseKeepsSide DEF Inv
  <2>6. SideOK(asks', "Sell", orders_map', orders)
    BY <2>4, <1>2, <1>3, OtherSideUnaffected DEF Inv
  <2> QED
    BY <2>5, <2>6, <1>2
<1>4. CASE orders[id].side = "Sell"
  <2> DEFINE i == Location(asks[price], id)
  <2>1. price \in DOMAIN asks /\ \E j \in 1 .. Len(asks[price]) : asks[price][j] = id
    BY <1>4 DEF Inv, SideOK
  <2>2. asks[price] \in Seq(OrderIds)
    BY <2>1 DEF Inv, TypeOK
  <2>3. i \in 1 .. Len(asks[price]) /\ asks[price][i] = id
    BY <2>1, <2>2 DEF Location
  <2>4. asks' = EraseAt(asks, price, i) /\ bids' = bids
    BY <1>4 DEF CancelOrderInternal
  <2> HIDE DEF i, price
  <2>5. SideOK(asks', "Sell", orders_map', orders)
    BY <2>1, <2>3, <2>4, <1>2, EraseKeepsSide DEF Inv
  <2>6. SideOK(bids', "Buy", orders_map', orders)
    BY <2>4, <1>2, <1>4, OtherSideUnaffected DEF Inv
  <2> QED
    BY <2>5, <2>6, <1>2
<1> QED
  BY <1>1, <1>3, <1>4 DEF Side

\* One iteration of the matching loop.
LEMMA MatchKeepsInv ==
  ASSUME Inv, Match
  PROVE  Inv'
<1>1. PICK bidPrice \in DOMAIN bids, askPrice \in DOMAIN asks : MatchAtPrices(bidPrice, askPrice)
  BY DEF Match
<1> DEFINE bid == orders[Head(bids[bidPrice])]
           ask == orders[Head(asks[askPrice])]
           q   == MatchQuantity(bid, ask)
           new == [orders EXCEPT ![bid.id] = Fill(bid, q), ![ask.id] = Fill(ask, q)]
           mid == orders_map \ {id \in {bid.id} : IsFilled(new[bid.id])}
<1>2. /\ Head(bids[bidPrice]) = bid.id /\ bid.id \in orders_map /\ bid \in Order
      /\ bid.side = "Buy"
  <2>1. bids[bidPrice] \in Seq(OrderIds) /\ bids[bidPrice] # << >>
    BY DEF Inv, TypeOK, SideOK
  <2>2. 1 \in 1 .. Len(bids[bidPrice]) /\ Head(bids[bidPrice]) = bids[bidPrice][1]
    BY <2>1
  <2>3. LET id == bids[bidPrice][1]
        IN  id \in orders_map /\ orders[id].id = id /\ orders[id].side = "Buy"
    BY <2>2 DEF Inv, SideOK
  <2>4. \A id \in orders_map : orders[id] \in Order
    BY DEF Inv, TypeOK
  <2> QED
    BY <2>2, <2>3, <2>4
<1>3. /\ Head(asks[askPrice]) = ask.id /\ ask.id \in orders_map /\ ask \in Order
      /\ ask.side = "Sell"
  <2>1. asks[askPrice] \in Seq(OrderIds) /\ asks[askPrice] # << >>
    BY DEF Inv, TypeOK, SideOK
  <2>2. 1 \in 1 .. Len(asks[askPrice]) /\ Head(asks[askPrice]) = asks[askPrice][1]
    BY <2>1
  <2>3. LET id == asks[askPrice][1]
        IN  id \in orders_map /\ orders[id].id = id /\ orders[id].side = "Sell"
    BY <2>2 DEF Inv, SideOK
  <2>4. \A id \in orders_map : orders[id] \in Order
    BY DEF Inv, TypeOK
  <2> QED
    BY <2>2, <2>3, <2>4
<1>4. q \in Word /\ q <= bid.remaining /\ q <= ask.remaining
  BY <1>2, <1>3, BookAssumption DEF MatchQuantity, Order, Word
<1>5. Fill(bid, q) \in Order /\ Fill(ask, q) \in Order
  BY <1>2, <1>3, <1>4, BookAssumption DEF Fill, Order, Word
<1>6. /\ orders' = new
      /\ trades' = Append(trades,
                     [bid |-> [id |-> bid.id, price |-> bid.price, quantity |-> q],
                      ask |-> [id |-> ask.id, price |-> ask.price, quantity |-> q]])
      /\ orders_map' = orders_map \ {id \in {bid.id, ask.id} : IsFilled(new[id])}
      /\ bids' = PopIfFilled(bids, bidPrice, new[bid.id])
      /\ asks' = PopIfFilled(asks, askPrice, new[ask.id])
  BY <1>1 DEF MatchAtPrices
<1>7. order' = order /\ ~Idle
  BY DEF Match
<1>8. bid.id # ask.id /\ bid.id \in OrderIds /\ ask.id \in OrderIds
  BY <1>2, <1>3 DEF Order
<1> HIDE DEF q
<1>9. /\ new \in [OrderIds -> Order \cup {Null}]
      /\ new[bid.id] = Fill(bid, q) /\ new[ask.id] = Fill(ask, q)
      /\ \A id \in OrderIds : orders[id] # Null => new[id] # Null
  BY <1>5, <1>8, BookAssumption DEF Inv, TypeOK
<1>10. SameOrders(orders_map, orders, new)
  <2>1. /\ Fill(bid, q).id = bid.id /\ Fill(bid, q).side = bid.side /\ Fill(bid, q).price = bid.price
        /\ Fill(ask, q).id = ask.id /\ Fill(ask, q).side = ask.side /\ Fill(ask, q).price = ask.price
    BY <1>2, <1>3 DEF Fill, Order
  <2>2. orders[bid.id] = bid /\ orders[ask.id] = ask
    BY <1>2, <1>3
  <2>3. \A id \in orders_map \ {bid.id, ask.id} : new[id] = orders[id]
    BY DEF Inv, TypeOK
  <2> QED
    BY <2>1, <2>2, <2>3, <1>9 DEF SameOrders
<1> HIDE DEF new
<1>11. SideOK(bids, "Buy", orders_map, new) /\ SideOK(asks, "Sell", orders_map, new)
  BY <1>10, SideIgnoresQuantities DEF Inv
<1>12. new[bid.id].id = bid.id /\ new[ask.id].id = ask.id
  BY <1>2, <1>3, <1>9 DEF Fill, Order
<1>13. SideOK(PopIfFilled(bids, bidPrice, new[bid.id]), "Buy", mid, new)
       /\ SideOK(asks, "Sell", mid, new)
  <2> HIDE DEF bid, ask
  <2>1. new[Head(bids[bidPrice])] = new[bid.id]
    BY <1>2
  <2> QED
    BY <2>1, <1>11, <1>12, PopKeepsSides
<1>14. orders_map' = mid \ {id \in {ask.id} : IsFilled(new[ask.id])}
  BY <1>6
<1>15. SideOK(asks', "Sell", orders_map', orders') /\ SideOK(bids', "Buy", orders_map', orders')
  <2> HIDE DEF mid, bid, ask
  <2>1. new[Head(asks[askPrice])] = new[ask.id]
    BY <1>3
  <2>2. /\ SideOK(PopIfFilled(asks, askPrice, new[ask.id]), "Sell", orders_map', new)
        /\ SideOK(PopIfFilled(bids, bidPrice, new[bid.id]), "Buy", orders_map', new)
    BY <2>1, <1>12, <1>13, <1>14, PopKeepsSides
  <2> QED
    BY <2>2, <1>6
<1>16. trades' \in Seq(Trade)
  BY <1>2, <1>3, <1>4, <1>6 DEF Inv, TypeOK, Trade, TradeInfo, Order
<1>17. TypeOK'
  BY <1>6, <1>7, <1>9, <1>15, <1>16 DEF Inv, TypeOK, SideOK, LevelsOf
<1>18. (\A id \in orders_map : orders[id] # Null)' /\ (~Idle => orders[order] # Null)'
  BY <1>6, <1>7, <1>9 DEF Inv, TypeOK, Idle
<1> QED
  BY <1>15, <1>17, <1>18 DEF Inv

\* Orders that left the book expire: those that are listed are the same.
LEMMA ExpireKeepsSides ==
  ASSUME Inv, ExpireOrders, orders_map' \subseteq orders_map,
         NEW levels, NEW side, SideOK(levels, side, orders_map', orders)
  PROVE  /\ SideOK(levels, side, orders_map', orders')
         /\ orders' \in [OrderIds -> Order \cup {Null}]
         /\ \A id \in orders_map' : orders'[id] # Null
<1>1. SameOrders(orders_map', orders, orders') /\ \A id \in orders_map' : orders'[id] = orders[id]
  BY DEF ExpireOrders, Inv, TypeOK, SameOrders
<1>2. orders' \in [OrderIds -> Order \cup {Null}]
  BY DEF ExpireOrders, Inv, TypeOK
<1> QED
  BY <1>1, <1>2, SideIgnoresQuantities DEF Inv

LEMMA ReturnKeepsInv ==
  ASSUME Inv, Return
  PROVE  Inv'
<1>1. /\ orders_map' \subseteq orders_map
      /\ SideOK(bids', "Buy", orders_map', orders)
      /\ SideOK(asks', "Sell", orders_map', orders)
  <2>1. CASE MustKill(orders[order]) /\ order \in orders_map
    BY <2>1, CancelKeepsSides DEF Return
  <2>2. CASE ~(MustKill(orders[order]) /\ order \in orders_map)
    BY <2>2 DEF Return, Inv
  <2> QED
    BY <2>1, <2>2
<1>2. /\ SideOK(bids', "Buy", orders_map', orders')
      /\ SideOK(asks', "Sell", orders_map', orders')
      /\ orders' \in [OrderIds -> Order \cup {Null}]
      /\ \A id \in orders_map' : orders'[id] # Null
  BY <1>1, ExpireKeepsSides DEF Return
<1>3. order' = Null /\ trades' = << >> /\ Idle'
  BY DEF Return, Idle
<1> QED
  BY <1>1, <1>2, <1>3 DEF Inv, TypeOK, SideOK, LevelsOf

LEMMA CancelOrderKeepsInv ==
  ASSUME Inv, NEW id \in OrderIds, CancelOrder(id)
  PROVE  Inv'
<1>1. CASE id \notin orders_map
  BY <1>1 DEF CancelOrder, Inv, TypeOK, SideOK, LevelsOf, Idle
<1>2. CASE id \in orders_map
  <2>1. CancelOrderInternal(id) /\ ExpireOrders /\ UNCHANGED <<order, trades>> /\ Idle
    BY <1>2 DEF CancelOrder
  <2>2. /\ orders_map' \subseteq orders_map
        /\ SideOK(bids', "Buy", orders_map', orders)
        /\ SideOK(asks', "Sell", orders_map', orders)
    BY <1>2, <2>1, CancelKeepsSides
  <2>3. /\ SideOK(bids', "Buy", orders_map', orders')
        /\ SideOK(asks', "Sell", orders_map', orders')
        /\ orders' \in [OrderIds -> Order \cup {Null}]
        /\ \A i \in orders_map' : orders'[i] # Null
    BY <2>1, <2>2, ExpireKeepsSides
  <2> QED
    BY <2>1, <2>2, <2>3 DEF Inv, TypeOK, SideOK, LevelsOf, Idle
<1> QED
  BY <1>1, <1>2

LEMMA InvNext == Inv /\ [Next]_vars => Inv'
<1> SUFFICES ASSUME Inv, [Next]_vars PROVE Inv'
  OBVIOUS
<1>1. ASSUME NEW id \in OrderIds, NEW type \in OrderType, NEW side \in Side,
             NEW price \in Prices, NEW quantity \in Quantities,
             AddOrder(id, type, side, price, quantity)
      PROVE  Inv'
  <2> DEFINE o == NewOrder(id, type, side, price, quantity)
  <2>1. o \in Order
    BY BookAssumption DEF NewOrder, Order
  <2>2. CASE AddDuplicate(id)
    BY <2>2 DEF AddDuplicate, Inv, TypeOK, SideOK, LevelsOf, Idle
  <2>3. CASE AddKilled(o)
    <3>1. UNCHANGED <<bids, asks, orders_map, orders, order, trades>>
      BY <2>3 DEF AddKilled
    <3> QED
      BY <3>1 DEF Inv, TypeOK, SideOK, LevelsOf, Idle
  <2>4. CASE AddToLevel(o)
    BY <2>1, <2>4, AddToLevelKeepsInv
  <2> QED
    BY <1>1, <2>2, <2>3, <2>4 DEF AddOrder
<1>2. CASE GetOrderInfos
  BY <1>2 DEF GetOrderInfos, Inv, TypeOK, SideOK, LevelsOf, Idle
<1>3. CASE UNCHANGED vars
  BY <1>3 DEF vars, Inv, TypeOK, SideOK, LevelsOf, Idle
<1> QED
  BY <1>1, <1>2, <1>3, MatchKeepsInv, ReturnKeepsInv, CancelOrderKeepsInv DEF Next

\* The book keeps its types: no quantity ever underflows.
THEOREM TypeCorrect == Spec => []TypeOK
<1>1. Inv => TypeOK
  BY DEF Inv
<1> QED
  BY <1>1, InvInit, InvNext, PTL DEF Spec

\* The index and the two sides never disagree, in the middle of AddOrder or
\* between calls: every at() and every stored iterator of the code is valid.
THEOREM IndexAlwaysConsistent == Spec => []IndexConsistent
BY InvInit, InvNext, InvImpliesIndex, PTL DEF Spec

-----------------------------------------------------------------------------
(* The book is not crossed at rest *)

LEMMA LeastExists ==
  ASSUME NEW S, S \subseteq Nat, S # {}
  PROVE  \E m \in S : \A n \in S : m <= n
<1> DEFINE R == {pair \in Nat \X Nat : pair[1] < pair[2]}
<1>1. IsWellFoundedOn(R, Nat)
  BY NatLessThanWellFounded DEF OpToRel
<1> HIDE DEF R
<1>2. PICK m \in S : \A n \in S : <<n, m>> \notin R
  BY <1>1, WFMin
<1>3. ASSUME NEW n \in S PROVE m <= n
  <2>1. <<n, m>> \in Nat \X Nat /\ <<n, m>>[1] = n /\ <<n, m>>[2] = m
    OBVIOUS
  <2>2. ~(n < m)
    BY <1>2, <2>1 DEF R
  <2> QED
    BY <2>2
<1> QED
  BY <1>3

\* Prices are words, so the greatest is the least from the other end.
LEMMA GreatestExists ==
  ASSUME NEW S, S \subseteq Word, S # {}
  PROVE  \E m \in S : \A n \in S : n <= m
<1> DEFINE T == {n \in Nat : \E s \in S : n = WordRange - s}
<1>1. \A s \in S : s \in Int /\ WordRange - s \in T
  BY BookAssumption DEF Word
<1>2. PICK m \in T : \A n \in T : m <= n
  BY <1>1, LeastExists
<1>3. PICK s \in S : m = WordRange - s
  OBVIOUS
<1>4. \A n \in S : n <= s
  BY <1>1, <1>2, <1>3, BookAssumption
<1> QED
  BY <1>4

\* The loop looks at the best prices only, and that is enough.
LEMMA MatchingDoneIsNotCrossed ==
  ASSUME Inv, MatchingDone
  PROVE  \A b \in DOMAIN bids, a \in DOMAIN asks : b < a
<1> SUFFICES ASSUME NEW b \in DOMAIN bids, NEW a \in DOMAIN asks PROVE b < a
  OBVIOUS
<1>1. DOMAIN bids \subseteq Word /\ DOMAIN asks \subseteq Word /\ Word \subseteq Nat
  BY BookAssumption DEF Inv, TypeOK, Word
<1>2. PICK best \in DOMAIN bids : \A p \in DOMAIN bids : p <= best
  BY <1>1, GreatestExists
<1>3. PICK least \in DOMAIN asks : \A p \in DOMAIN asks : least <= p
  BY <1>1, LeastExists
<1>4. ~(best >= least)
  BY <1>2, <1>3 DEF MatchingDone, BestBid, BestAsk, Crosses
<1>5. b <= best /\ least <= a
  BY <1>2, <1>3
<1>6. b \in Nat /\ a \in Nat /\ best \in Nat /\ least \in Nat
  BY <1>1
<1> HIDE DEF Word
<1> QED
  BY <1>4, <1>5, <1>6, SMT

LEMMA EraseAddsNoLevel ==
  ASSUME NEW levels, NEW price, NEW i
  PROVE  DOMAIN EraseAt(levels, price, i) \subseteq DOMAIN levels
BY DEF EraseAt, Restrict

LEMMA NotCrossedNext ==
  ASSUME Inv, NotCrossedAtRest, [Next]_vars
  PROVE  NotCrossedAtRest'
<1>1. CASE Return
  <2>1. \A b \in DOMAIN bids, a \in DOMAIN asks : b < a
    BY <1>1, MatchingDoneIsNotCrossed DEF Return
  <2>2. DOMAIN bids' \subseteq DOMAIN bids /\ DOMAIN asks' \subseteq DOMAIN asks
    BY <1>1, EraseAddsNoLevel DEF Return, CancelOrderInternal
  <2> QED
    BY <2>1, <2>2 DEF NotCrossedAtRest
<1>2. ASSUME NEW id \in OrderIds, CancelOrder(id)
      PROVE  NotCrossedAtRest'
  <2>1. DOMAIN bids' \subseteq DOMAIN bids /\ DOMAIN asks' \subseteq DOMAIN asks /\ Idle
    BY <1>2, EraseAddsNoLevel DEF CancelOrder, CancelOrderInternal
  <2> QED
    BY <2>1 DEF NotCrossedAtRest
<1>3. CASE Match
  BY <1>3 DEF Match, NotCrossedAtRest, Idle
<1>4. ASSUME NEW id \in OrderIds, NEW type \in OrderType, NEW side \in Side,
             NEW price \in Prices, NEW quantity \in Quantities,
             AddOrder(id, type, side, price, quantity)
      PROVE  NotCrossedAtRest'
  <2> DEFINE o == NewOrder(id, type, side, price, quantity)
  <2>1. o.id \in OrderIds
    BY DEF NewOrder
  <2> HIDE DEF o
  <2>2. CASE AddDuplicate(id) \/ AddKilled(o)
    BY <2>2 DEF AddDuplicate, AddKilled, NotCrossedAtRest, Idle
  <2>3. CASE AddToLevel(o)
    BY <2>1, <2>3, BookAssumption DEF AddToLevel, NotCrossedAtRest, Idle
  <2> QED
    BY <1>4, <2>2, <2>3 DEF AddOrder, o
<1>5. CASE GetOrderInfos \/ UNCHANGED vars
  BY <1>5 DEF GetOrderInfos, vars, NotCrossedAtRest, Idle
<1> QED
  BY <1>1, <1>2, <1>3, <1>4, <1>5 DEF Next

\* No call leaves the book crossed.
THEOREM NeverCrossedAtRest == Spec => []NotCrossedAtRest
<1>1. Init => NotCrossedAtRest
  BY DEF Init, NotCrossedAtRest
<1>2. Inv /\ NotCrossedAtRest /\ [Next]_vars => NotCrossedAtRest'
  BY NotCrossedNext
<1> QED
  BY <1>1, <1>2, InvInit, InvNext, PTL DEF Spec

-----------------------------------------------------------------------------
(* The matching loop ends *)

LEMMA MatchRemovesOrder ==
  ASSUME Inv, Match
  PROVE  orders_map' \subseteq orders_map /\ orders_map' # orders_map
<1>1. PICK bidPrice \in DOMAIN bids, askPrice \in DOMAIN asks : MatchAtPrices(bidPrice, askPrice)
  BY DEF Match
<1> DEFINE bid == orders[Head(bids[bidPrice])]
           ask == orders[Head(asks[askPrice])]
           q   == MatchQuantity(bid, ask)
           new == [orders EXCEPT ![bid.id] = Fill(bid, q), ![ask.id] = Fill(ask, q)]
<1>2. /\ bids[bidPrice] \in Seq(OrderIds) /\ bids[bidPrice] # << >>
      /\ asks[askPrice] \in Seq(OrderIds) /\ asks[askPrice] # << >>
  BY DEF Inv, TypeOK, SideOK
<1>3. /\ 1 \in 1 .. Len(bids[bidPrice]) /\ Head(bids[bidPrice]) = bids[bidPrice][1]
      /\ 1 \in 1 .. Len(asks[askPrice]) /\ Head(asks[askPrice]) = asks[askPrice][1]
  BY <1>2
<1>4. /\ bid.id \in orders_map /\ bid.id = Head(bids[bidPrice]) /\ bid.side = "Buy"
      /\ ask.id \in orders_map /\ ask.id = Head(asks[askPrice]) /\ ask.side = "Sell"
  BY <1>3 DEF Inv, SideOK
<1>5. bid \in Order /\ ask \in Order /\ bid.id # ask.id
  BY <1>4 DEF Inv, TypeOK
<1>6. orders_map' = orders_map \ {id \in {bid.id, ask.id} : IsFilled(new[id])}
  BY <1>1 DEF MatchAtPrices
<1>7. IsFilled(Fill(bid, q)) \/ IsFilled(Fill(ask, q))
  BY <1>5, BookAssumption DEF IsFilled, Fill, MatchQuantity, Order, Word
<1> HIDE DEF q
<1>8. new[bid.id] = Fill(bid, q) /\ new[ask.id] = Fill(ask, q)
  BY <1>5 DEF Inv, TypeOK, Order
<1> HIDE DEF new, bid, ask
<1> QED
  BY <1>4, <1>6, <1>7, <1>8

\* Every iteration of MatchOrders takes an order out of the index: the loop
\* ends after at most as many iterations as the book has orders.
THEOREM MatchingShrinksBook == Spec => MatchShrinksBook
<1>1. Inv /\ [Next]_vars => [~Idle /\ ~Idle' => orders_map' \subseteq orders_map /\ orders_map' # orders_map]_vars
  <2> SUFFICES ASSUME Inv, Next, ~Idle, ~Idle'
               PROVE  orders_map' \subseteq orders_map /\ orders_map' # orders_map
    OBVIOUS
  <2>1. Match
    BY DEF Next, AddOrder, AddDuplicate, AddKilled, AddToLevel, Return, CancelOrder, GetOrderInfos, Idle
  <2> QED
    BY <2>1, MatchRemovesOrder
<1> QED
  BY <1>1, InvInit, InvNext, PTL DEF Spec, MatchShrinksBook

-----------------------------------------------------------------------------
(* FillAndKill orders *)

\* Listed orders are open, and no FillAndKill order is listed but the new one.
OpenInv ==
  \A id \in orders_map :
    /\ ~IsFilled(orders[id])
    /\ orders[id].type = "FillAndKill" => id = order

LEMMA OpenMatch ==
  ASSUME Inv, OpenInv, Match
  PROVE  OpenInv'
<1>1. PICK bidPrice \in DOMAIN bids, askPrice \in DOMAIN asks : MatchAtPrices(bidPrice, askPrice)
  BY DEF Match
<1> DEFINE bid == orders[Head(bids[bidPrice])]
           ask == orders[Head(asks[askPrice])]
           q   == MatchQuantity(bid, ask)
           new == [orders EXCEPT ![bid.id] = Fill(bid, q), ![ask.id] = Fill(ask, q)]
<1>2. /\ bids[bidPrice] \in Seq(OrderIds) /\ bids[bidPrice] # << >>
      /\ asks[askPrice] \in Seq(OrderIds) /\ asks[askPrice] # << >>
  BY DEF Inv, TypeOK, SideOK
<1>3. /\ 1 \in 1 .. Len(bids[bidPrice]) /\ Head(bids[bidPrice]) = bids[bidPrice][1]
      /\ 1 \in 1 .. Len(asks[askPrice]) /\ Head(asks[askPrice]) = asks[askPrice][1]
  BY <1>2
<1>4. /\ bid.id = Head(bids[bidPrice]) /\ bid.id \in orders_map /\ bid.side = "Buy"
      /\ ask.id = Head(asks[askPrice]) /\ ask.id \in orders_map /\ ask.side = "Sell"
  BY <1>3 DEF Inv, SideOK
<1>5. bid \in Order /\ ask \in Order /\ bid.id # ask.id
  BY <1>4 DEF Inv, TypeOK
<1>6. /\ orders_map' = orders_map \ {id \in {bid.id, ask.id} : IsFilled(new[id])}
      /\ orders' = new /\ order' = order
  BY <1>1 DEF MatchAtPrices, Match
<1>7. Fill(bid, q).type = bid.type /\ Fill(ask, q).type = ask.type
  BY <1>5 DEF Fill, Order
<1> HIDE DEF q
<1>8. /\ new[bid.id] = Fill(bid, q) /\ new[ask.id] = Fill(ask, q)
      /\ \A id \in orders_map \ {bid.id, ask.id} : new[id] = orders[id]
  BY <1>5 DEF Inv, TypeOK, Order
<1>9. orders[bid.id] = bid /\ orders[ask.id] = ask
  BY <1>4
<1> HIDE DEF new, bid, ask
<1> QED
  BY <1>4, <1>6, <1>7, <1>8, <1>9 DEF OpenInv

LEMMA OpenNext ==
  ASSUME 0 \notin Quantities, Inv, OpenInv, [Next]_vars
  PROVE  OpenInv'
<1>1. ASSUME NEW id \in OrderIds, NEW type \in OrderType, NEW side \in Side,
             NEW price \in Prices, NEW quantity \in Quantities,
             AddOrder(id, type, side, price, quantity)
      PROVE  OpenInv'
  <2> DEFINE o == NewOrder(id, type, side, price, quantity)
  <2>1. o.id = id /\ ~IsFilled(o) /\ o.type = type
    BY DEF NewOrder, IsFilled
  <2> HIDE DEF o
  <2>2. CASE AddDuplicate(id) \/ AddKilled(o)
    BY <2>2 DEF AddDuplicate, AddKilled, OpenInv, IsFilled
  <2>3. CASE AddToLevel(o)
    <3>1. /\ orders_map' = orders_map \cup {id} /\ id \notin orders_map /\ order' = id
          /\ order = Null /\ orders'[id] = o
          /\ \A other \in orders_map : orders'[other] = orders[other]
      BY <2>1, <2>3 DEF AddToLevel, Inv, TypeOK, Idle
    <3>2. \A other \in orders_map : other # Null
      BY BookAssumption DEF Inv, TypeOK
    <3> QED
      BY <2>1, <3>1, <3>2 DEF OpenInv
  <2> QED
    BY <1>1, <2>2, <2>3 DEF AddOrder, o
<1>2. CASE Return
  <2>1. /\ orders_map' \subseteq orders_map
        /\ MustKill(orders[order]) => order \notin orders_map'
    BY <1>2 DEF Return, CancelOrderInternal
  <2>2. \A id \in orders_map' : id \in OrderIds /\ orders'[id] = orders[id]
    BY <1>2, <2>1 DEF Return, ExpireOrders, Inv, TypeOK
  <2> QED
    BY <2>1, <2>2 DEF OpenInv, MustKill
<1>3. ASSUME NEW id \in OrderIds, CancelOrder(id)
      PROVE  OpenInv'
  <2>1. orders_map' \subseteq orders_map /\ order' = order
    BY <1>3 DEF CancelOrder, CancelOrderInternal
  <2>2. \A other \in orders_map' : orders'[other] = orders[other]
    BY <1>3, <2>1 DEF CancelOrder, ExpireOrders, Inv, TypeOK
  <2> QED
    BY <2>1, <2>2 DEF OpenInv
<1>4. CASE GetOrderInfos \/ UNCHANGED vars
  BY <1>4 DEF GetOrderInfos, vars, OpenInv
<1> QED
  BY <1>1, <1>2, <1>3, <1>4, OpenMatch DEF Next

\* When every order has a quantity, no FillAndKill order outlives its AddOrder.
THEOREM FillAndKillGone ==
  ASSUME 0 \notin Quantities
  PROVE  Spec => []FillAndKillNeverRests
<1>1. Init => OpenInv
  BY DEF Init, OpenInv
<1>2. Inv /\ OpenInv /\ [Next]_vars => OpenInv'
  BY OpenNext
<1>3. OpenInv => FillAndKillNeverRests
  BY DEF OpenInv, FillAndKillNeverRests
<1> QED
  BY <1>1, <1>2, <1>3, InvInit, InvNext, PTL DEF Spec

-----------------------------------------------------------------------------
(* The trades of a call *)

\* The orders in the book but the one a call has added do not cross each
\* other, so that every trade of the call is the new order's.
RestingBelow ==
  \A id, jd \in orders_map \ {order} :
    orders[id].side = "Buy" /\ orders[jd].side = "Sell" => orders[id].price < orders[jd].price

\* TradesAccountForFill is inductive once a call starts without trades and
\* finds a book that is not crossed.
TradesInv ==
  /\ RestingBelow
  /\ Idle => trades = << >>
  /\ TradesAccountForFill

\* Taking orders out of the book crosses nothing.
LEMMA FewerRestingBelow ==
  ASSUME RestingBelow, orders_map' \ {order'} \subseteq orders_map \ {order},
         \A id \in orders_map' \ {order'} :
           orders'[id].side = orders[id].side /\ orders'[id].price = orders[id].price
  PROVE  RestingBelow'
BY DEF RestingBelow

\* The book at the end of the loop: everything in it is below or above.
LEMMA DoneIsBelow ==
  ASSUME Inv, MatchingDone
  PROVE  \A id, jd \in orders_map :
           orders[id].side = "Buy" /\ orders[jd].side = "Sell" => orders[id].price < orders[jd].price
<1>1. \A id \in orders_map :
        /\ orders[id].side = "Buy" => orders[id].price \in DOMAIN bids
        /\ orders[id].side = "Sell" => orders[id].price \in DOMAIN asks
  BY DEF Inv, SideOK
<1> QED
  BY <1>1, MatchingDoneIsNotCrossed

\* The trades whose quantities TradedBy adds up.
TradesOf(ts, id) == {j \in DOMAIN ts : id \in {ts[j].bid.id, ts[j].ask.id}}

\* A trade of the order adds its quantity to what the order has traded.
LEMMA TradeAddsQuantity ==
  ASSUME NEW ts \in Seq(Trade), NEW t \in Trade, NEW id, id \in {t.bid.id, t.ask.id}
  PROVE  SumFunction([i \in TradesOf(Append(ts, t), id) |-> Append(ts, t)[i].bid.quantity])
           = SumFunction([i \in TradesOf(ts, id) |-> ts[i].bid.quantity]) + t.bid.quantity
<1> DEFINE new == Append(ts, t)
           n == Len(ts) + 1
           f == [i \in TradesOf(ts, id) |-> ts[i].bid.quantity]
           g == [i \in TradesOf(new, id) |-> new[i].bid.quantity]
<1>1. /\ DOMAIN new = DOMAIN ts \cup {n} /\ new[n] = t
      /\ \A i \in DOMAIN ts : new[i] = ts[i]
      /\ n \notin DOMAIN ts
  OBVIOUS
<1>2. IsFiniteSet(DOMAIN ts)
  <2>1. DOMAIN ts = 1 .. Len(ts) /\ Len(ts) \in Nat
    OBVIOUS
  <2> QED
    BY <2>1, FS_Interval
<1>3. IsFiniteSet(DOMAIN f)
  <2>1. DOMAIN f \subseteq DOMAIN ts
    BY DEF TradesOf
  <2> QED
    BY <1>2, <2>1, FS_Subset
<1>4. t.bid.quantity \in Int /\ \A i \in DOMAIN ts : ts[i].bid.quantity \in Int
  <2>1. \A i \in DOMAIN ts : ts[i] \in Trade
    OBVIOUS
  <2>2. \A u \in Trade : u.bid.quantity \in Int
    BY BookAssumption DEF Trade, TradeInfo, Word
  <2> QED
    BY <2>1, <2>2
<1> HIDE DEF new, n
<1>5. TradesOf(new, id) = TradesOf(ts, id) \cup {n} /\ n \notin TradesOf(ts, id)
  BY <1>1 DEF TradesOf
<1>6. /\ \A i \in DOMAIN f : f[i] \in Int /\ g[i] = f[i]
      /\ g[n] = t.bid.quantity
  BY <1>1, <1>4, <1>5 DEF TradesOf
<1>7. n \notin DOMAIN f /\ DOMAIN g = DOMAIN f \cup {n}
  BY <1>5
<1> HIDE DEF f, g
<1>8. SumFunction(g) = SumFunction(f) + g[n]
  BY <1>3, <1>4, <1>6, <1>7, SumFunctionAdds
<1> QED
  BY <1>6, <1>8 DEF f, g, new

LEMMA TradesOfAdd ==
  ASSUME Inv, TradesInv, NEW o \in Order, AddToLevel(o), o.remaining = o.initial
  PROVE  TradesInv'
<1>1. /\ Idle /\ trades' = << >> /\ order' = o.id /\ order = Null
      /\ orders' = [orders EXCEPT ![o.id] = o] /\ orders_map' = orders_map \cup {o.id}
  BY DEF AddToLevel, TradesInv, Idle
<1>2. o.id \in OrderIds /\ o.initial \in Int
  BY BookAssumption DEF Order, Word
<1>3. orders'[o.id] = o /\ \A id \in orders_map' \ {o.id} : orders'[id] = orders[id]
  BY <1>1, <1>2 DEF Inv, TypeOK
<1>4. RestingBelow'
  <2>1. orders_map' \ {order'} \subseteq orders_map \ {order}
    BY <1>1, BookAssumption DEF Inv, TypeOK
  <2> QED
    BY <1>1, <1>3, <2>1, FewerRestingBelow DEF TradesInv
<1>5. TradedBy(o.id)' = 0
  BY <1>1, SumFunctionEmpty DEF TradedBy
<1>6. TradesAccountForFill'
  BY <1>1, <1>2, <1>3, <1>5 DEF TradesAccountForFill
<1>7. ~Idle'
  BY <1>1, <1>2, BookAssumption DEF Idle
<1> QED
  BY <1>4, <1>6, <1>7 DEF TradesInv

LEMMA TradesOfMatch ==
  ASSUME Inv, TradesInv, Match
  PROVE  TradesInv'
<1>1. PICK bidPrice \in DOMAIN bids, askPrice \in DOMAIN asks :
        MatchAtPrices(bidPrice, askPrice) /\ Crosses(bidPrice, askPrice)
  BY DEF Match
<1> DEFINE bid == orders[Head(bids[bidPrice])]
           ask == orders[Head(asks[askPrice])]
           q   == MatchQuantity(bid, ask)
           new == [orders EXCEPT ![bid.id] = Fill(bid, q), ![ask.id] = Fill(ask, q)]
           t   == [bid |-> [id |-> bid.id, price |-> bid.price, quantity |-> q],
                   ask |-> [id |-> ask.id, price |-> ask.price, quantity |-> q]]
<1>2. /\ bids[bidPrice] \in Seq(OrderIds) /\ bids[bidPrice] # << >>
      /\ asks[askPrice] \in Seq(OrderIds) /\ asks[askPrice] # << >>
  BY DEF Inv, TypeOK, SideOK
<1>3. /\ 1 \in 1 .. Len(bids[bidPrice]) /\ Head(bids[bidPrice]) = bids[bidPrice][1]
      /\ 1 \in 1 .. Len(asks[askPrice]) /\ Head(asks[askPrice]) = asks[askPrice][1]
  BY <1>2
<1>4. /\ bid.id = Head(bids[bidPrice]) /\ bid.id \in orders_map
      /\ bid.side = "Buy" /\ bid.price = bidPrice
      /\ ask.id = Head(asks[askPrice]) /\ ask.id \in orders_map
      /\ ask.side = "Sell" /\ ask.price = askPrice
  BY <1>3 DEF Inv, SideOK
<1>5. bid \in Order /\ ask \in Order /\ bid.id # ask.id
  BY <1>4 DEF Inv, TypeOK
<1>6. /\ orders' = new /\ order' = order /\ ~Idle /\ ~Idle'
      /\ trades' = Append(trades, t) /\ trades \in Seq(Trade)
      /\ orders_map' \subseteq orders_map
  BY <1>1 DEF MatchAtPrices, Match, Inv, TypeOK, Idle
<1>7. askPrice <= bidPrice /\ askPrice \in Int /\ bidPrice \in Int
  BY <1>1, <1>4, <1>5, BookAssumption DEF Crosses, Order, Word
<1>8. order \in {bid.id, ask.id}
  <2>1. orders[bid.id].price = bidPrice /\ orders[ask.id].price = askPrice
    BY <1>4
  <2>2. orders[bid.id].side = "Buy" /\ orders[ask.id].side = "Sell"
    BY <1>4
  <2> HIDE DEF bid, ask
  <2> QED
    BY <1>4, <1>7, <2>1, <2>2 DEF TradesInv, RestingBelow
<1>9. q \in Word /\ t \in Trade
  BY <1>5, BookAssumption DEF MatchQuantity, Order, Word, Trade, TradeInfo
<1>10. /\ Fill(bid, q).side = bid.side /\ Fill(ask, q).side = ask.side
       /\ Fill(bid, q).price = bid.price /\ Fill(ask, q).price = ask.price
       /\ Fill(bid, q).initial = bid.initial /\ Fill(ask, q).initial = ask.initial
       /\ Fill(bid, q).remaining = bid.remaining - q
       /\ Fill(ask, q).remaining = ask.remaining - q
  BY <1>5 DEF Fill, Order
<1>11. /\ bid.initial \in Int /\ bid.remaining \in Int
       /\ ask.initial \in Int /\ ask.remaining \in Int /\ q \in Int
  BY <1>5, <1>9, BookAssumption DEF Order, Word
<1>12. /\ t.bid.id = bid.id /\ t.bid.price = bidPrice /\ t.bid.quantity = q
       /\ t.ask.id = ask.id /\ t.ask.price = askPrice /\ t.ask.quantity = q
  BY <1>4
<1> HIDE DEF q
<1>13. /\ new[bid.id] = Fill(bid, q) /\ new[ask.id] = Fill(ask, q)
       /\ \A id \in orders_map \ {bid.id, ask.id} : new[id] = orders[id]
  BY <1>5 DEF Inv, TypeOK, Order
<1>14. orders[bid.id] = bid /\ orders[ask.id] = ask
  BY <1>4
<1> HIDE DEF new, bid, ask, t
<1>15. RestingBelow'
  <2>1. \A id \in orders_map : new[id].side = orders[id].side /\ new[id].price = orders[id].price
    BY <1>10, <1>13, <1>14
  <2> QED
    BY <1>6, <2>1, FewerRestingBelow DEF TradesInv
<1>16. /\ orders'[order].side = orders[order].side
       /\ orders'[order].initial = orders[order].initial
       /\ orders'[order].remaining = orders[order].remaining - q
       /\ orders[order].initial \in Int /\ orders[order].remaining \in Int
       /\ orders[order].side = "Buy" => order = bid.id
       /\ orders[order].side # "Buy" => order = ask.id
  BY <1>4, <1>6, <1>8, <1>10, <1>11, <1>13, <1>14
<1>17. orders[order].initial - orders[order].remaining = TradedBy(order)
  BY <1>6 DEF TradesInv, TradesAccountForFill
<1>18. TradedBy(order)' = TradedBy(order) + q
  <2>1. SumFunction([i \in TradesOf(Append(trades, t), order) |-> Append(trades, t)[i].bid.quantity])
          = SumFunction([i \in TradesOf(trades, order) |-> trades[i].bid.quantity]) + q
    BY <1>6, <1>8, <1>9, <1>12, TradeAddsQuantity
  <2> QED
    BY <1>6, <2>1 DEF TradedBy, TradesOf
<1>19. orders'[order'].initial - orders'[order'].remaining = TradedBy(order)'
  BY <1>6, <1>11, <1>16, <1>17, <1>18
<1>20. ASSUME NEW i \in DOMAIN trades'
       PROVE  /\ trades'[i].bid.quantity = trades'[i].ask.quantity
              /\ trades'[i].ask.price <= trades'[i].bid.price
              /\ order' = IF orders'[order'].side = "Buy"
                            THEN trades'[i].bid.id ELSE trades'[i].ask.id
  <2>1. (i \in DOMAIN trades /\ trades'[i] = trades[i]) \/ trades'[i] = t
    BY <1>6
  <2>2. CASE i \in DOMAIN trades /\ trades'[i] = trades[i]
    BY <1>6, <1>16, <2>2 DEF TradesInv, TradesAccountForFill
  <2>3. CASE trades'[i] = t
    BY <1>6, <1>7, <1>12, <1>16, <2>3
  <2> QED
    BY <2>1, <2>2, <2>3
<1> QED
  BY <1>6, <1>15, <1>19, <1>20 DEF TradesInv, TradesAccountForFill

LEMMA TradesNext ==
  ASSUME Inv, TradesInv, [Next]_vars
  PROVE  TradesInv'
<1>1. ASSUME NEW id \in OrderIds, NEW type \in OrderType, NEW side \in Side,
             NEW price \in Prices, NEW quantity \in Quantities,
             AddOrder(id, type, side, price, quantity)
      PROVE  TradesInv'
  <2> DEFINE o == NewOrder(id, type, side, price, quantity)
  <2>1. o \in Order /\ o.remaining = o.initial
    BY BookAssumption DEF NewOrder, Order
  <2> HIDE DEF o
  <2>2. CASE AddDuplicate(id) \/ AddKilled(o)
    <3>1. UNCHANGED <<orders_map, orders, order, trades>> /\ Idle
      BY <2>2 DEF AddDuplicate, AddKilled
    <3> QED
      BY <3>1 DEF TradesInv, RestingBelow, TradesAccountForFill, Idle
  <2>3. CASE AddToLevel(o)
    BY <2>1, <2>3, TradesOfAdd
  <2> QED
    BY <1>1, <2>2, <2>3 DEF AddOrder, o
<1>2. CASE Return
  <2>1. orders_map' \subseteq orders_map /\ order' = Null /\ trades' = << >> /\ Idle'
    BY <1>2 DEF Return, CancelOrderInternal, Idle
  <2>2. \A id \in orders_map' : id \in OrderIds /\ orders'[id] = orders[id]
    BY <1>2, <2>1 DEF Return, ExpireOrders, Inv, TypeOK
  <2>3. RestingBelow'
    BY <1>2, <2>1, <2>2, DoneIsBelow DEF Return, RestingBelow
  <2> QED
    BY <2>1, <2>3 DEF TradesInv, TradesAccountForFill
<1>3. ASSUME NEW id \in OrderIds, CancelOrder(id)
      PROVE  TradesInv'
  <2>1. orders_map' \subseteq orders_map /\ order' = order /\ trades' = trades /\ Idle /\ Idle'
    BY <1>3 DEF CancelOrder, CancelOrderInternal, Idle
  <2>2. \A other \in orders_map' : orders'[other] = orders[other]
    BY <1>3, <2>1 DEF CancelOrder, ExpireOrders, Inv, TypeOK
  <2>3. RestingBelow'
    BY <2>1, <2>2, FewerRestingBelow DEF TradesInv
  <2> QED
    BY <2>1, <2>3 DEF TradesInv, TradesAccountForFill
<1>4. CASE GetOrderInfos
  <2>1. UNCHANGED <<orders_map, orders, order, trades>> /\ Idle
    BY <1>4 DEF GetOrderInfos
  <2> QED
    BY <2>1 DEF TradesInv, RestingBelow, TradesAccountForFill, Idle
<1>5. CASE UNCHANGED vars
  BY <1>5 DEF vars, TradesInv, RestingBelow, TradesAccountForFill, TradedBy, Idle
<1> QED
  BY <1>1, <1>2, <1>3, <1>4, <1>5, TradesOfMatch DEF Next

\* The trades a call of AddOrder reports are the fills it made: they add up to
\* what the new order has filled, each is its own, and each at a price both
\* limits allow.
THEOREM TradesAlwaysAccountForFill == Spec => []TradesAccountForFill
<1>1. Init => TradesInv
  BY DEF Init, TradesInv, RestingBelow, TradesAccountForFill, Idle
<1>2. Inv /\ TradesInv /\ [Next]_vars => TradesInv'
  BY TradesNext
<1>3. TradesInv => TradesAccountForFill
  BY DEF TradesInv
<1> QED
  BY <1>1, <1>2, <1>3, InvInit, InvNext, PTL DEF Spec
-----------------------------------------------------------------------------
(* Time priority *)

LEMMA SameKeepsTurns ==
  ASSUME NEW levels, NEW side, NEW map, NEW os, SideOK(levels, side, map, os)
  PROVE  LevelsKeepTurns(levels, levels)
<1>1. ASSUME NEW p \in DOMAIN levels
      PROVE  KeepsTurns(levels[p], levels[p])
  <2>1. /\ DOMAIN levels[p] = 1 .. Len(levels[p]) /\ Len(levels[p]) \in Nat
        /\ \A k, i \in 1 .. Len(levels[p]) : levels[p][k] = levels[p][i] => k = i
    BY DEF SideOK, LevelsOf
  <2> QED
    BY <2>1 DEF KeepsTurns
<1> QED
  BY <1>1 DEF LevelsKeepTurns

\* What is pushed goes behind all others.
LEMMA PushKeepsTurns ==
  ASSUME NEW levels, NEW side, NEW map, NEW os, NEW price, NEW id \in OrderIds \ map,
         SideOK(levels, side, map, os)
  PROVE  LevelsKeepTurns(levels, PushBack(levels, price, id))
<1> DEFINE after == PushBack(levels, price, id)
<1>1. \A p \in DOMAIN levels : levels[p] \in Seq(OrderIds)
  BY DEF SideOK, LevelsOf
<1>2. \A p \in DOMAIN levels : after[p] = IF p = price THEN Append(levels[p], id) ELSE levels[p]
  BY DEF PushBack
<1> HIDE DEF after
<1>3. SUFFICES ASSUME NEW p \in DOMAIN levels, NEW k \in DOMAIN after[p],
                      NEW i \in 1 .. Len(levels[p]),
                      after[p][k] = levels[p][i], NEW j \in 1 .. k - 1
               PROVE  \E h \in 1 .. i - 1 : after[p][j] = levels[p][h]
  BY <1>1 DEF LevelsKeepTurns, KeepsTurns, after
<1>4. /\ levels[p] \in Seq(OrderIds) /\ levels[p][i] # id
      /\ \A m, n \in 1 .. Len(levels[p]) : levels[p][m] = levels[p][n] => m = n
  BY <1>1 DEF SideOK
<1>5. CASE p = price
  <2>1. after[p] = Append(levels[p], id)
    BY <1>2, <1>5
  <2>2. /\ k \in 1 .. Len(levels[p]) + 1 /\ Len(levels[p]) \in Nat
        /\ after[p][Len(levels[p]) + 1] = id
        /\ \A m \in 1 .. Len(levels[p]) : after[p][m] = levels[p][m]
    BY <1>4, <2>1
  <2>3. k # Len(levels[p]) + 1
    BY <1>3, <1>4, <2>2
  <2>4. k \in 1 .. Len(levels[p])
    BY <2>2, <2>3
  <2>5. k = i
    BY <1>3, <1>4, <2>2, <2>4
  <2> QED
    BY <2>2, <2>4, <2>5
<1>6. CASE p # price
  <2>1. after[p] = levels[p] /\ k \in 1 .. Len(levels[p])
    BY <1>2, <1>4, <1>6
  <2>2. k = i
    BY <1>3, <1>4, <2>1
  <2> QED
    BY <2>1, <2>2
<1> QED
  BY <1>5, <1>6

\* What is erased lets those behind it move up, in their turn.
LEMMA EraseKeepsTurns ==
  ASSUME NEW levels, NEW side, NEW map, NEW os, NEW price \in DOMAIN levels,
         NEW n \in 1 .. Len(levels[price]), SideOK(levels, side, map, os)
  PROVE  LevelsKeepTurns(levels, EraseAt(levels, price, n))
<1> DEFINE after == EraseAt(levels, price, n)
           level == levels[price]
           rest == Without(level, n)
<1>1. /\ level \in Seq(OrderIds) /\ Len(level) \in Nat
      /\ \A i, j \in 1 .. Len(level) : level[i] = level[j] => i = j
  BY DEF SideOK, LevelsOf
<1>2. /\ DOMAIN after \subseteq DOMAIN levels
      /\ \A p \in DOMAIN after : after[p] = levels[p] \/ (p = price /\ after[p] = rest)
  BY DEF EraseAt, Restrict
<1>3. /\ Len(rest) = Len(level) - 1 /\ rest \in Seq(OrderIds)
      /\ \A j \in 1 .. Len(level) - 1 : rest[j] = IF j < n THEN level[j] ELSE level[j + 1]
  BY <1>1, WithoutProperties
<1>4. KeepsTurns(level, rest)
  <2>1. /\ DOMAIN rest = 1 .. Len(level) - 1 /\ DOMAIN level = 1 .. Len(level)
        /\ n \in 1 .. Len(level)
    BY <1>1, <1>3
  <2> HIDE DEF level, rest
  <2>2. ASSUME NEW k \in 1 .. Len(level) - 1, NEW i \in 1 .. Len(level),
               rest[k] = level[i], NEW j \in 1 .. k - 1
        PROVE  \E h \in 1 .. i - 1 : rest[j] = level[h]
    <3>1. i = IF k < n THEN k ELSE k + 1
      <4>1. rest[k] = level[IF k < n THEN k ELSE k + 1]
        BY <1>3, <2>2
      <4>2. (IF k < n THEN k ELSE k + 1) \in 1 .. Len(level)
        BY <1>1, <2>1, <2>2
      <4> QED
        BY <1>1, <2>2, <4>1, <4>2
    <3>2. (IF j < n THEN j ELSE j + 1) \in 1 .. i - 1
      BY <1>1, <2>1, <3>1
    <3>3. j \in 1 .. Len(level) - 1
      BY <1>1, <2>2
    <3>4. rest[j] = level[IF j < n THEN j ELSE j + 1]
      BY <1>3, <3>3
    <3> QED
      BY <3>2, <3>4
  <2>3. DOMAIN level = 1 .. Len(level) /\ DOMAIN rest = 1 .. Len(level) - 1
    BY <2>1
  <2> QED
    BY <2>2, <2>3 DEF KeepsTurns
<1> HIDE DEF after, rest
<1>5. LevelsKeepTurns(levels, levels)
  BY SameKeepsTurns
<1> QED
  BY <1>2, <1>4, <1>5 DEF LevelsKeepTurns, after

LEMMA PopKeepsTurns ==
  ASSUME NEW levels, NEW side, NEW map, NEW os, NEW price \in DOMAIN levels, NEW o,
         SideOK(levels, side, map, os)
  PROVE  LevelsKeepTurns(levels, PopIfFilled(levels, price, o))
<1>1. 1 \in 1 .. Len(levels[price])
  BY DEF SideOK, LevelsOf
<1> QED
  BY <1>1, EraseKeepsTurns, SameKeepsTurns DEF PopIfFilled

LEMMA CancelKeepsTurns ==
  ASSUME Inv, NEW id \in orders_map, CancelOrderInternal(id)
  PROVE  LevelsKeepTurns(bids, bids') /\ LevelsKeepTurns(asks, asks')
<1> DEFINE price == orders[id].price
<1>1. orders[id].side \in Side
  BY DEF Inv, TypeOK, Order
<1>2. CASE orders[id].side = "Buy"
  <2> DEFINE i == Location(bids[price], id)
  <2>1. price \in DOMAIN bids /\ \E j \in 1 .. Len(bids[price]) : bids[price][j] = id
    BY <1>2 DEF Inv, SideOK
  <2>2. bids[price] \in Seq(OrderIds)
    BY <2>1 DEF Inv, TypeOK
  <2>3. i \in 1 .. Len(bids[price])
    BY <2>1, <2>2 DEF Location
  <2>4. bids' = EraseAt(bids, price, i) /\ asks' = asks
    BY <1>2 DEF CancelOrderInternal
  <2> HIDE DEF i, price
  <2> QED
    BY <2>1, <2>3, <2>4, EraseKeepsTurns, SameKeepsTurns DEF Inv
<1>3. CASE orders[id].side = "Sell"
  <2> DEFINE i == Location(asks[price], id)
  <2>1. price \in DOMAIN asks /\ \E j \in 1 .. Len(asks[price]) : asks[price][j] = id
    BY <1>3 DEF Inv, SideOK
  <2>2. asks[price] \in Seq(OrderIds)
    BY <2>1 DEF Inv, TypeOK
  <2>3. i \in 1 .. Len(asks[price])
    BY <2>1, <2>2 DEF Location
  <2>4. asks' = EraseAt(asks, price, i) /\ bids' = bids
    BY <1>3 DEF CancelOrderInternal
  <2> HIDE DEF i, price
  <2> QED
    BY <2>1, <2>3, <2>4, EraseKeepsTurns, SameKeepsTurns DEF Inv
<1> QED
  BY <1>1, <1>2, <1>3 DEF Side

LEMMA TurnsNext ==
  ASSUME Inv, Next
  PROVE  LevelsKeepTurns(bids, bids') /\ LevelsKeepTurns(asks, asks')
<1>1. LevelsKeepTurns(bids, bids) /\ LevelsKeepTurns(asks, asks)
  BY SameKeepsTurns DEF Inv
<1>2. ASSUME NEW id \in OrderIds, NEW type \in OrderType, NEW side \in Side,
             NEW price \in Prices, NEW quantity \in Quantities,
             AddOrder(id, type, side, price, quantity)
      PROVE  LevelsKeepTurns(bids, bids') /\ LevelsKeepTurns(asks, asks')
  <2> DEFINE o == NewOrder(id, type, side, price, quantity)
  <2>1. o.id \in OrderIds
    BY DEF NewOrder
  <2> HIDE DEF o
  <2>2. CASE AddDuplicate(id) \/ AddKilled(o)
    BY <1>1, <2>2 DEF AddDuplicate, AddKilled
  <2>3. CASE AddToLevel(o)
    <3>1. /\ bids' = bids \/ bids' = PushBack(bids, o.price, o.id)
          /\ asks' = asks \/ asks' = PushBack(asks, o.price, o.id)
          /\ o.id \in OrderIds \ orders_map
      BY <2>1, <2>3 DEF AddToLevel
    <3> QED
      BY <1>1, <3>1, PushKeepsTurns DEF Inv
  <2> QED
    BY <1>2, <2>2, <2>3 DEF AddOrder, o
<1>3. CASE Match
  <2>1. PICK bidPrice \in DOMAIN bids, askPrice \in DOMAIN asks :
               MatchAtPrices(bidPrice, askPrice)
    BY <1>3 DEF Match
  <2>2. PICK b, a : /\ bids' = PopIfFilled(bids, bidPrice, b)
                    /\ asks' = PopIfFilled(asks, askPrice, a)
    BY <2>1 DEF MatchAtPrices
  <2>3. /\ SideOK(bids, "Buy", orders_map, orders)
        /\ SideOK(asks, "Sell", orders_map, orders)
    BY DEF Inv
  <2>4. LevelsKeepTurns(bids, bids')
    BY <2>2, <2>3, PopKeepsTurns
  <2>5. LevelsKeepTurns(asks, asks')
    BY <2>2, <2>3, PopKeepsTurns
  <2> QED
    BY <2>4, <2>5
<1>4. CASE Return
  BY <1>1, <1>4, CancelKeepsTurns DEF Return
<1>5. ASSUME NEW id \in OrderIds, CancelOrder(id)
      PROVE  LevelsKeepTurns(bids, bids') /\ LevelsKeepTurns(asks, asks')
  BY <1>1, <1>5, CancelKeepsTurns DEF CancelOrder
<1>6. CASE GetOrderInfos
  BY <1>1, <1>6 DEF GetOrderInfos
<1> QED
  BY <1>2, <1>3, <1>4, <1>5, <1>6 DEF Next

\* No step of the book lets one order of a level overtake another: each is
\* matched in the turn it came.
THEOREM TimePriorityAlwaysKept == Spec => TimePriorityKept
<1>1. Inv /\ [Next]_vars
        => [LevelsKeepTurns(bids, bids') /\ LevelsKeepTurns(asks, asks')]_vars
  BY TurnsNext
<1> QED
  BY <1>1, InvInit, InvNext, PTL DEF Spec, TimePriorityKept
=============================================================================
