---------------------- MODULE OrderBookRefinementProofs ----------------------
(***************************************************************************)
(* The book of levels, index and matching loop implements PriceTimeBook,   *)
(* for every set of ids, prices and quantities, as long as no level holds  *)
(* more shares than a machine word can count.                              *)
(*                                                                         *)
(* Between calls the two books are the same.  Within a call the argument   *)
(* is an invariant that relates the half-matched levels to the book of the *)
(* last idle moment and to what the contract says the order takes of each  *)
(* of its orders: the n-th iteration of MatchOrders trades with the n-th   *)
(* order in turn, for that quantity.  When the loop ends, the orders it    *)
(* has traded with are those the contract hits, so that the step that      *)
(* returns is the contract's Add and every step before it a stutter.       *)
(***************************************************************************)
EXTENDS OrderBookRefinement, OrderBookProofs

-----------------------------------------------------------------------------
(* Turns within the levels of a side *)

\* a stands in front of b in a level.
InFrontIn(levels, a, b) ==
  \E p \in DOMAIN levels : \E i, j \in 1 .. Len(levels[p]) :
    i < j /\ levels[p][i] = a /\ levels[p][j] = b

\* The pairs of InTurn are those in front of each other.
LEMMA InTurnIs ==
  ASSUME NEW levels, LevelsOf(levels), NEW a \in OrderIds, NEW b \in OrderIds
  PROVE  <<a, b>> \in InTurn(levels) <=> InFrontIn(levels, a, b)
<1>1. \A p \in DOMAIN levels : DOMAIN levels[p] = 1 .. Len(levels[p])
  BY DEF LevelsOf
<1> QED
  BY <1>1 DEF InTurn, InFrontIn

\* Orders in front of each other are of one level, which is a queue.
LEMMA SideIsQueue ==
  ASSUME NEW levels, NEW side, NEW map, NEW os, SideOK(levels, side, map, os)
  PROVE  /\ \A a, b : InFrontIn(levels, a, b) =>
              /\ a \in map /\ b \in map
              /\ os[a].side = side /\ os[b].side = side /\ os[a].price = os[b].price
         /\ \A a : ~InFrontIn(levels, a, a)
         /\ \A a, b, c : InFrontIn(levels, a, b) /\ InFrontIn(levels, b, c) => InFrontIn(levels, a, c)
         /\ \A a, b \in map :
              a # b /\ os[a].side = side /\ os[b].side = side /\ os[a].price = os[b].price
                => InFrontIn(levels, a, b) \/ InFrontIn(levels, b, a)
<1>1. \A p \in DOMAIN levels : Len(levels[p]) \in Nat
  BY DEF SideOK, LevelsOf
<1>2. \A a, b : InFrontIn(levels, a, b) =>
        /\ a \in map /\ b \in map
        /\ os[a].side = side /\ os[b].side = side /\ os[a].price = os[b].price
  BY DEF SideOK, InFrontIn
<1>3. ASSUME NEW a, InFrontIn(levels, a, a) PROVE FALSE
  BY <1>1, <1>3 DEF SideOK, InFrontIn
<1>4. ASSUME NEW a, NEW b, NEW c, InFrontIn(levels, a, b), InFrontIn(levels, b, c)
      PROVE  InFrontIn(levels, a, c)
  <2>1. PICK p \in DOMAIN levels : \E i, j \in 1 .. Len(levels[p]) :
          i < j /\ levels[p][i] = a /\ levels[p][j] = b
    BY <1>4 DEF InFrontIn
  <2>2. PICK q \in DOMAIN levels : \E i, j \in 1 .. Len(levels[q]) :
          i < j /\ levels[q][i] = b /\ levels[q][j] = c
    BY <1>4 DEF InFrontIn
  <2>3. p = q
    BY <2>1, <2>2 DEF SideOK
  <2>4. PICK i \in 1 .. Len(levels[p]), j \in 1 .. Len(levels[p]) :
          i < j /\ levels[p][i] = a /\ levels[p][j] = b
    BY <2>1
  <2>5. PICK k \in 1 .. Len(levels[p]), l \in 1 .. Len(levels[p]) :
          k < l /\ levels[p][k] = b /\ levels[p][l] = c
    BY <2>2, <2>3
  <2>6. j = k
    BY <2>4, <2>5 DEF SideOK
  <2>7. i < l
    BY <1>1, <2>4, <2>5, <2>6
  <2> QED
    BY <2>4, <2>5, <2>7 DEF InFrontIn
<1>5. ASSUME NEW a \in map, NEW b \in map, a # b,
             os[a].side = side, os[b].side = side, os[a].price = os[b].price
      PROVE  InFrontIn(levels, a, b) \/ InFrontIn(levels, b, a)
  <2>1. PICK p \in DOMAIN levels : p = os[a].price
    BY <1>5 DEF SideOK
  <2>2. PICK i \in 1 .. Len(levels[p]), j \in 1 .. Len(levels[p]) :
          levels[p][i] = a /\ levels[p][j] = b
    BY <1>5, <2>1 DEF SideOK
  <2>3. i < j \/ j < i
    BY <1>1, <1>5, <2>2
  <2> QED
    BY <2>2, <2>3 DEF InFrontIn
<1> QED
  BY <1>2, <1>3, <1>4, <1>5

\* Two orders of one side and price stand in line.
LEMMA PeersInLine ==
  ASSUME NEW levels, NEW side, NEW map, NEW os, SideOK(levels, side, map, os),
         NEW a \in map, NEW b \in map, a # b,
         os[a].side = side, os[b].side = side, os[a].price = os[b].price
  PROVE  InFrontIn(levels, a, b) \/ InFrontIn(levels, b, a)
BY SideIsQueue

\* An order that leaves its level leaves the others in their turn.
LEMMA EraseKeepsOthersInTurn ==
  ASSUME NEW levels, NEW side, NEW map, NEW os, NEW price \in DOMAIN levels,
         NEW i \in 1 .. Len(levels[price]), SideOK(levels, side, map, os)
  PROVE  \A a, b : InFrontIn(EraseAt(levels, price, i), a, b)
                     <=> /\ InFrontIn(levels, a, b)
                         /\ a # levels[price][i] /\ b # levels[price][i]
<1> DEFINE level == levels[price]
           gone  == levels[price][i]
           new   == EraseAt(levels, price, i)
<1>1. /\ level \in Seq(OrderIds) /\ Len(level) \in Nat
      /\ \A p \in DOMAIN levels : Len(levels[p]) \in Nat
  BY DEF SideOK, LevelsOf
<1>2. /\ Len(Without(level, i)) = Len(level) - 1
      /\ \A j \in 1 .. Len(level) - 1 :
           Without(level, i)[j] = IF j < i THEN level[j] ELSE level[j + 1]
  BY <1>1, WithoutProperties
<1>3. /\ \A p \in DOMAIN levels \ {price} : p \in DOMAIN new /\ new[p] = levels[p]
      /\ DOMAIN new \subseteq DOMAIN levels
      /\ Len(level) = 1 => price \notin DOMAIN new
      /\ Len(level) # 1 => price \in DOMAIN new /\ new[price] = Without(level, i)
  BY DEF EraseAt, Restrict
<1>4. \A p \in DOMAIN levels : \A j \in 1 .. Len(levels[p]) :
        levels[p][j] = gone => p = price /\ j = i
  BY DEF SideOK
<1> HIDE DEF new
<1>5. ASSUME NEW a, NEW b, InFrontIn(new, a, b)
      PROVE  InFrontIn(levels, a, b) /\ a # gone /\ b # gone
  <2>1. PICK p \in DOMAIN new : \E k, l \in 1 .. Len(new[p]) :
          k < l /\ new[p][k] = a /\ new[p][l] = b
    BY <1>5 DEF InFrontIn
  <2>2. PICK k \in 1 .. Len(new[p]), l \in 1 .. Len(new[p]) :
          k < l /\ new[p][k] = a /\ new[p][l] = b
    BY <2>1
  <2>3. CASE p # price
    <3>1. p \in DOMAIN levels /\ new[p] = levels[p]
      BY <1>3, <2>3
    <3> QED
      BY <1>4, <2>2, <2>3, <3>1 DEF InFrontIn
  <2>4. CASE p = price
    <3>1. new[p] = Without(level, i)
      BY <1>3, <2>4
    <3> DEFINE was(j) == IF j < i THEN j ELSE j + 1
    <3>2. /\ k \in 1 .. Len(level) - 1 /\ l \in 1 .. Len(level) - 1
          /\ a = level[was(k)] /\ b = level[was(l)]
      BY <1>2, <2>2, <3>1
    <3>3. /\ was(k) \in 1 .. Len(level) /\ was(l) \in 1 .. Len(level)
          /\ was(k) < was(l) /\ was(k) # i /\ was(l) # i
      BY <1>1, <2>2, <3>2
    <3> HIDE DEF was
    <3> QED
      BY <1>4, <3>2, <3>3 DEF InFrontIn
  <2> QED
    BY <2>3, <2>4
<1>6. ASSUME NEW a, NEW b, InFrontIn(levels, a, b), a # gone, b # gone
      PROVE  InFrontIn(new, a, b)
  <2>1. PICK p \in DOMAIN levels : \E k, l \in 1 .. Len(levels[p]) :
          k < l /\ levels[p][k] = a /\ levels[p][l] = b
    BY <1>6 DEF InFrontIn
  <2>2. PICK k \in 1 .. Len(levels[p]), l \in 1 .. Len(levels[p]) :
          k < l /\ levels[p][k] = a /\ levels[p][l] = b
    BY <2>1
  <2>3. CASE p # price
    <3>1. p \in DOMAIN new /\ new[p] = levels[p]
      BY <1>3, <2>3
    <3> QED
      BY <2>2, <3>1 DEF InFrontIn
  <2>4. CASE p = price
    <3> DEFINE now(j) == IF j < i THEN j ELSE j - 1
    <3>1. k # i /\ l # i
      BY <1>6, <2>2, <2>4
    <3>2. /\ now(k) \in 1 .. Len(level) - 1 /\ now(l) \in 1 .. Len(level) - 1
          /\ now(k) < now(l) /\ Len(level) # 1
      BY <1>1, <2>2, <2>4, <3>1
    <3>3. ASSUME NEW m \in 1 .. Len(level), m # i, now(m) \in 1 .. Len(level) - 1
          PROVE  Without(level, i)[now(m)] = level[m]
      <4>1. CASE m < i
        BY <1>2, <3>3, <4>1
      <4>2. CASE ~(m < i)
        <5>1. now(m) = m - 1 /\ ~(m - 1 < i) /\ (m - 1) + 1 = m
          BY <1>1, <3>3, <4>2
        <5> QED
          BY <1>2, <3>3, <5>1
      <4> QED
        BY <4>1, <4>2
    <3>4. price \in DOMAIN new /\ new[price] = Without(level, i) /\ Len(new[price]) = Len(level) - 1
      BY <1>2, <1>3, <3>2
    <3> HIDE DEF now
    <3> QED
      BY <2>2, <2>4, <3>1, <3>2, <3>3, <3>4 DEF InFrontIn
  <2> QED
    BY <2>3, <2>4
<1> QED
  BY <1>5, <1>6 DEF new

\* An order that joins a level is behind everyone in it.
LEMMA PushJoinsAtTheBack ==
  ASSUME NEW levels, NEW side, NEW map, NEW os, NEW price, NEW id, id \notin map,
         SideOK(levels, side, map, os)
  PROVE  \A a, b : InFrontIn(PushBack(levels, price, id), a, b)
                     <=> \/ InFrontIn(levels, a, b)
                         \/ b = id /\ a \in map /\ os[a].side = side /\ os[a].price = price
<1> DEFINE new == PushBack(levels, price, id)
           level == levels[price]
<1>1. \A p \in DOMAIN levels : levels[p] \in Seq(OrderIds) /\ Len(levels[p]) \in Nat
  BY DEF SideOK, LevelsOf
<1>2. /\ DOMAIN new = DOMAIN levels \cup {price}
      /\ \A p \in DOMAIN levels \ {price} : new[p] = levels[p]
      /\ new[price] = IF price \in DOMAIN levels THEN Append(level, id) ELSE <<id>>
  BY DEF PushBack
<1>3. ASSUME price \in DOMAIN levels
      PROVE  /\ Len(new[price]) = Len(level) + 1
             /\ new[price][Len(level) + 1] = id
             /\ \A j \in 1 .. Len(level) : new[price][j] = level[j]
  BY <1>1, <1>2, <1>3
<1>4. ASSUME price \notin DOMAIN levels PROVE Len(new[price]) = 1 /\ new[price][1] = id
  BY <1>2, <1>4
<1> HIDE DEF new
<1>5. ASSUME NEW a, NEW b, InFrontIn(new, a, b)
      PROVE  \/ InFrontIn(levels, a, b)
             \/ b = id /\ a \in map /\ os[a].side = side /\ os[a].price = price
  <2>1. PICK p \in DOMAIN new : \E k, l \in 1 .. Len(new[p]) :
          k < l /\ new[p][k] = a /\ new[p][l] = b
    BY <1>5 DEF InFrontIn
  <2>2. PICK k \in 1 .. Len(new[p]), l \in 1 .. Len(new[p]) :
          k < l /\ new[p][k] = a /\ new[p][l] = b
    BY <2>1
  <2>3. CASE p # price
    BY <1>2, <2>2, <2>3 DEF InFrontIn
  <2>4. CASE p = price /\ price \in DOMAIN levels
    <3>1. k \in 1 .. Len(level) /\ l \in 1 .. Len(level) + 1
      BY <1>1, <1>3, <2>2, <2>4
    <3>2. CASE l = Len(level) + 1
      <4>1. a = level[k] /\ b = id
        BY <1>3, <2>2, <2>4, <3>1, <3>2
      <4> QED
        BY <2>4, <3>1, <4>1 DEF SideOK
    <3>3. CASE l # Len(level) + 1
      <4>1. l \in 1 .. Len(level)
        BY <1>1, <2>4, <3>1, <3>3
      <4>2. a = level[k] /\ b = level[l]
        BY <1>3, <2>2, <2>4, <3>1, <4>1
      <4> QED
        BY <2>2, <2>4, <3>1, <4>1, <4>2 DEF InFrontIn
    <3> QED
      BY <3>2, <3>3
  <2>5. CASE p = price /\ price \notin DOMAIN levels
    <3>1. Len(new[p]) = 1
      BY <1>4, <2>5
    <3> QED
      BY <2>2, <3>1
  <2> QED
    BY <2>3, <2>4, <2>5
<1>6. ASSUME NEW a, NEW b, InFrontIn(levels, a, b) PROVE InFrontIn(new, a, b)
  <2>1. PICK p \in DOMAIN levels : \E k, l \in 1 .. Len(levels[p]) :
          k < l /\ levels[p][k] = a /\ levels[p][l] = b
    BY <1>6 DEF InFrontIn
  <2>2. CASE p # price
    BY <1>2, <2>1, <2>2 DEF InFrontIn
  <2>3. CASE p = price
    <3>1. \A j \in 1 .. Len(level) : j \in 1 .. Len(new[price]) /\ new[price][j] = level[j]
      BY <1>1, <1>3, <2>3
    <3> QED
      BY <1>2, <2>1, <2>3, <3>1 DEF InFrontIn
  <2> QED
    BY <2>2, <2>3
<1>7. ASSUME NEW a \in map, os[a].side = side, os[a].price = price
      PROVE  InFrontIn(new, a, id)
  <2>1. PICK k \in 1 .. Len(level) : level[k] = a
    BY <1>7 DEF SideOK
  <2>2. price \in DOMAIN levels
    BY <1>7 DEF SideOK
  <2>3. /\ k < Len(level) + 1
        /\ k \in 1 .. Len(new[price]) /\ Len(level) + 1 \in 1 .. Len(new[price])
        /\ new[price][k] = a /\ new[price][Len(level) + 1] = id
    BY <1>1, <1>3, <2>1, <2>2
  <2> QED
    BY <1>2, <2>2, <2>3 DEF InFrontIn
<1> QED
  BY <1>5, <1>6, <1>7 DEF new
-----------------------------------------------------------------------------
(* The book at rest and the call in progress *)

\* The orders that rested when the call began.
Came == atRest.resting

\* The order of the call as it was handed in.
Placed == [orders[order] EXCEPT !.remaining = orders[order].initial]

\* The resting orders it crosses, in the terms of the contract: those in front of
\* one of them, what is left of the order for it, and what the order takes of it.
Crossing == Contract!Crossed(Placed)

InFront(id) == {a \in Crossing : Contract!Ahead(a, id)}

Left(id) == Placed.initial - Contract!Available(InFront(id))

Taken(id) == Contract!Share(Left(id), id)

\* Its trade with one of them.
Offer(id) == Contract!TradeOf(Placed, id, Taken(id))

\* The resting order of a trade of the call, and those of the trades so far.
Partner(t) == IF orders[order].side = "Buy" THEN t.ask.id ELSE t.bid.id

Done == {Partner(trades[n]) : n \in DOMAIN trades}

Turns == InTurn(bids) \cup InTurn(asks)

\* The abstract book is a queue for every side and price.
QueueOK ==
  /\ DOMAIN Came \subseteq OrderIds /\ IsFiniteSet(DOMAIN Came)
  /\ Came \in [DOMAIN Came -> Order]
  /\ \A id \in DOMAIN Came : Came[id].id = id
  /\ atRest.older \subseteq (DOMAIN Came) \X (DOMAIN Came)
  /\ \A a, b \in DOMAIN Came :
       <<a, b>> \in atRest.older => Came[a].side = Came[b].side /\ Came[a].price = Came[b].price
  /\ \A a \in DOMAIN Came : <<a, a>> \notin atRest.older
  /\ \A a, b, c \in DOMAIN Came :
       <<a, b>> \in atRest.older /\ <<b, c>> \in atRest.older => <<a, c>> \in atRest.older
  /\ \A a, b \in DOMAIN Came :
       a # b /\ Came[a].side = Came[b].side /\ Came[a].price = Came[b].price
         => <<a, b>> \in atRest.older \/ <<b, a>> \in atRest.older

\* Between calls the concrete book is the abstract one.
RestOK ==
  /\ atRest = Abstraction
  /\ DOMAIN Came = orders_map
  /\ \A id \in OrderIds : id \in orders_map <=> orders[id] # Null
  /\ \A id \in orders_map : orders[id] = Came[id]
  /\ \A a, b \in OrderIds : <<a, b>> \in Turns <=> <<a, b>> \in atRest.older

\* The n-th trade of the call is with the n-th order in turn, for what the
\* contract says it takes.
TradesInTurn ==
  \A n \in DOMAIN trades :
    /\ Partner(trades[n]) \in Crossing
    /\ trades[n] = Offer(Partner(trades[n]))
    /\ InFront(Partner(trades[n])) = {Partner(trades[m]) : m \in 1 .. n - 1}
    /\ Cardinality(InFront(Partner(trades[n]))) = n - 1
    /\ n > 1 => Left(Partner(trades[n])) > 0

\* Half-way through a call the concrete book is the abstract one less what the
\* trades so far have taken, with the order of the call at the end of its level.
CallOK ==
  /\ order \notin DOMAIN Came /\ orders[order].id = order
  /\ Placed.initial \in Quantities
  /\ orders[order].type = "FillAndKill" => Crossing # {}
  /\ TradesInTurn
  /\ \A id \in DOMAIN Came :
       orders[id] = IF id \in Done THEN [Came[id] EXCEPT !.remaining = @ - Taken(id)] ELSE Came[id]
  /\ \A id \in OrderIds \ {order} :
       id \in orders_map <=> id \in DOMAIN Came /\ (id \in Done => Taken(id) < Came[id].remaining)
  /\ order \in orders_map =>
       /\ \A id \in Done : Taken(id) = Came[id].remaining
       /\ orders[order].remaining > 0 \/ trades = << >>
  /\ order \notin orders_map => trades # << >> /\ orders[order].remaining = 0
  /\ orders[order].remaining = Placed.initial - SumFunction([id \in Done |-> Taken(id)])
  /\ \A a, b \in OrderIds :
       <<a, b>> \in Turns <=>
         /\ a \in orders_map \ {order} /\ b \in orders_map
         /\ IF b = order THEN orders[a].side = orders[b].side /\ orders[a].price = orders[b].price
                         ELSE <<a, b>> \in atRest.older

\* What relates the two books at every step.
RefinementInv ==
  /\ QueueOK
  /\ Idle => RestOK
  /\ ~Idle => CallOK

-----------------------------------------------------------------------------
(* What the contract says of an order, and the turns it takes them in *)

\* The sums of the contract are those of SumTheorems.
LEMMA ContractSums == \A f : Contract!SumFunction(f) = SumFunction(f)
BY DEF Contract!SumFunction, Contract!SumFunctionOnSet, Contract!FoldFunctionOnSet,
       Contract!MapThenFoldSet,
       SumFunction, SumFunctionOnSet, FoldFunctionOnSet, MapThenFoldSet

\* The resting orders are orders, of whole shares at whole prices.
LEMMA CameTyped ==
  ASSUME QueueOK, NEW id \in DOMAIN Came
  PROVE  /\ id \in OrderIds /\ Came[id] \in Order /\ Came[id].id = id
         /\ Came[id].side \in Side /\ Came[id].price \in Int
         /\ Came[id].initial \in Nat /\ Came[id].remaining \in Nat
<1>1. id \in OrderIds /\ Came[id] \in Order /\ Came[id].id = id
  BY DEF QueueOK
<1>2. /\ Came[id].side \in Side /\ Came[id].price \in Prices
      /\ Came[id].initial \in Word /\ Came[id].remaining \in Word
  BY <1>1 DEF Order
<1>3. Word \subseteq Nat /\ Prices \subseteq Int
  BY BookAssumption DEF Word
<1> QED
  BY <1>1, <1>2, <1>3

\* Those an order crosses rest on one side.
LEMMA CrossingIsOneSide ==
  ASSUME QueueOK, Placed.side \in Side
  PROVE  /\ Crossing \subseteq DOMAIN Came /\ IsFiniteSet(Crossing)
         /\ \A id \in Crossing : Came[id].side # Placed.side
         /\ \A a, b \in Crossing : Came[a].side = Came[b].side
<1>1. Crossing \subseteq DOMAIN Came /\ \A id \in Crossing : Came[id].side # Placed.side
  BY DEF Crossing, Contract!Crossed, Came
<1>2. \A a, b \in Crossing : Came[a].side = Came[b].side
  BY <1>1, CameTyped DEF Side
<1>3. IsFiniteSet(Crossing)
  BY <1>1, FS_Subset DEF QueueOK
<1> QED
  BY <1>1, <1>2, <1>3

\* They stand in a queue.
LEMMA CrossingIsQueue ==
  ASSUME QueueOK, Placed.side \in Side
  PROVE  /\ \A a \in Crossing : ~Contract!Ahead(a, a)
         /\ \A a, b, c \in Crossing :
              Contract!Ahead(a, b) /\ Contract!Ahead(b, c) => Contract!Ahead(a, c)
         /\ \A a, b \in Crossing : a # b => Contract!Ahead(a, b) \/ Contract!Ahead(b, a)
<1> DEFINE older == atRest.older
           better(a, b) == IF Came[a].side = "Buy" THEN Came[a].price > Came[b].price
                                                   ELSE Came[a].price < Came[b].price
<1>1. \A a, b : Contract!Ahead(a, b) <=> <<a, b>> \in older \/ better(a, b)
  BY DEF Contract!Ahead, Came
<1>2. /\ \A a \in Crossing : a \in DOMAIN Came /\ Came[a].price \in Int
      /\ \A a, b \in Crossing : Came[a].side = Came[b].side
  BY CrossingIsOneSide, CameTyped
<1>3. /\ \A a, b \in Crossing : <<a, b>> \in older => Came[a].price = Came[b].price
      /\ \A a \in Crossing : <<a, a>> \notin older
      /\ \A a, b, c \in Crossing : <<a, b>> \in older /\ <<b, c>> \in older => <<a, c>> \in older
      /\ \A a, b \in Crossing :
           a # b /\ Came[a].price = Came[b].price => <<a, b>> \in older \/ <<b, a>> \in older
  BY <1>2 DEF QueueOK
<1> HIDE DEF older
<1>4. ASSUME NEW a \in Crossing PROVE ~Contract!Ahead(a, a)
  <2>1. ~(<<a, a>> \in older \/ better(a, a))
    BY <1>2, <1>3
  <2> HIDE DEF better
  <2> QED
    BY <1>1, <2>1
<1>5. ASSUME NEW a \in Crossing, NEW b \in Crossing, NEW c \in Crossing,
             Contract!Ahead(a, b), Contract!Ahead(b, c)
      PROVE  Contract!Ahead(a, c)
  <2>1. /\ <<a, b>> \in older \/ better(a, b)
        /\ <<b, c>> \in older \/ better(b, c)
    BY <1>1, <1>5
  <2>2. <<a, c>> \in older \/ better(a, c)
    BY <1>2, <1>3, <2>1
  <2> QED
    BY <1>1, <2>2
<1>6. ASSUME NEW a \in Crossing, NEW b \in Crossing, a # b
      PROVE  Contract!Ahead(a, b) \/ Contract!Ahead(b, a)
  <2>1. \/ <<a, b>> \in older \/ better(a, b)
        \/ <<b, a>> \in older \/ better(b, a)
    BY <1>2, <1>3, <1>6
  <2> QED
    BY <1>1, <2>1
<1> QED
  BY <1>4, <1>5, <1>6

\* The open quantity of some resting orders is a number of shares.
LEMMA OpenIsNat ==
  ASSUME QueueOK, NEW ids, ids \subseteq DOMAIN Came
  PROVE  Contract!Available(ids) \in Nat
<1> DEFINE f == [id \in ids |-> Came[id].remaining]
<1>1. IsFiniteSet(DOMAIN f)
  BY FS_Subset DEF QueueOK
<1>2. \A id \in DOMAIN f : f[id] \in Nat
  BY CameTyped
<1> HIDE DEF f
<1>3. SumFunction(f) \in Nat
  BY <1>1, <1>2, SumFunctionIsNat
<1> QED
  BY <1>3, ContractSums DEF Contract!Available, f, Came

\* What is taken of a resting order is never more than there is.
LEMMA TakenFits ==
  ASSUME QueueOK, Placed.side \in Side, Placed.initial \in Nat, NEW id \in Crossing
  PROVE  /\ Left(id) \in Int /\ Taken(id) \in Nat
         /\ Came[id].remaining - Taken(id) \in Nat /\ Came[id].remaining \in Nat
         /\ Left(id) <= 0 => Taken(id) = 0
<1>1. InFront(id) \subseteq DOMAIN Came
  BY CrossingIsOneSide DEF InFront
<1>2. Left(id) \in Int
  BY <1>1, OpenIsNat DEF Left
<1>3. Came[id].remaining \in Nat
  BY CrossingIsOneSide, CameTyped
<1>4. Taken(id) = IF Left(id) <= 0 THEN 0
                  ELSE IF Left(id) <= Came[id].remaining THEN Left(id) ELSE Came[id].remaining
  BY DEF Taken, Contract!Share, Came
<1> QED
  BY <1>2, <1>3, <1>4

\* What the trades have taken of some of them is a number of shares too, and no
\* more than there is.
LEMMA TakenOfSome ==
  ASSUME QueueOK, Placed.side \in Side, Placed.initial \in Nat, NEW ids, ids \subseteq Crossing
  PROVE  /\ IsFiniteSet(ids)
         /\ SumFunction([id \in ids |-> Taken(id)]) \in Nat
         /\ (\A id \in ids : Taken(id) = Came[id].remaining)
              => SumFunction([id \in ids |-> Taken(id)]) = Contract!Available(ids)
<1> DEFINE f == [id \in ids |-> Taken(id)]
           g == [id \in ids |-> Came[id].remaining]
<1>1. IsFiniteSet(ids) /\ ids \subseteq DOMAIN Came
  BY CrossingIsOneSide, FS_Subset
<1>2. \A id \in DOMAIN f : f[id] \in Nat
  BY TakenFits
<1>3. SumFunction(g) = Contract!Available(ids)
  BY ContractSums DEF Contract!Available, Came
<1>4. ASSUME \A id \in ids : Taken(id) = Came[id].remaining PROVE f = g
  BY <1>4
<1> HIDE DEF f, g
<1>5. IsFiniteSet(DOMAIN f)
  BY <1>1 DEF f
<1>6. SumFunction(f) \in Nat
  BY <1>2, <1>5, SumFunctionIsNat
<1> QED
  BY <1>1, <1>3, <1>4, <1>6 DEF f

\* As long as the order of the call and the book at rest are the same, so is
\* what the contract says of them.
LEMMA SameTerms ==
  ASSUME UNCHANGED <<atRest, order>>,
         orders'[order] = [orders[order] EXCEPT !.remaining = orders'[order].remaining],
         orders[order] \in Order
  PROVE  /\ Came' = Came /\ Placed' = Placed /\ Crossing' = Crossing
         /\ \A id : /\ InFront(id)' = InFront(id) /\ Left(id)' = Left(id)
                    /\ Taken(id)' = Taken(id) /\ Offer(id)' = Offer(id)
         /\ \A t : Partner(t)' = Partner(t)
<1>1. /\ Came' = Came /\ orders'[order'].initial = orders[order].initial
      /\ orders'[order'].side = orders[order].side
  BY DEF Came, Order
<1>2. Placed' = Placed
  BY DEF Placed, Order
<1>3. Crossing' = Crossing
  BY <1>2 DEF Crossing, Contract!Crossed
<1>4. \A a, b : Contract!Ahead(a, b)' <=> Contract!Ahead(a, b)
  BY DEF Contract!Ahead
<1>5. \A id : InFront(id)' = InFront(id)
  BY <1>3, <1>4 DEF InFront
<1>6. \A ids : Contract!Available(ids)' = Contract!Available(ids)
  BY DEF Contract!Available
<1>7. \A id : Left(id)' = Left(id)
  BY <1>2, <1>5, <1>6 DEF Left
<1>8. \A id : Taken(id)' = Taken(id)
  BY <1>7 DEF Taken, Contract!Share
<1>9. \A t : Partner(t)' = Partner(t)
  BY <1>1 DEF Partner
<1>10. \A id : Offer(id)' = Offer(id)
  BY <1>2, <1>8 DEF Offer, Contract!TradeOf
<1> QED
  BY <1>1, <1>2, <1>3, <1>5, <1>7, <1>8, <1>9, <1>10

-----------------------------------------------------------------------------
(* An iteration of the matching loop *)

\* pop_front of a filled order leaves the others in their turn.
LEMMA PopKeepsOthersInTurn ==
  ASSUME NEW levels, NEW side, NEW map, NEW os, NEW price \in DOMAIN levels,
         SideOK(levels, side, map, os), NEW o, o.id = Head(levels[price])
  PROVE  \A a, b : InFrontIn(PopIfFilled(levels, price, o), a, b)
                     <=> /\ InFrontIn(levels, a, b)
                         /\ IsFilled(o) => a # o.id /\ b # o.id
<1>1. levels[price] \in Seq(OrderIds) /\ levels[price] # << >>
  BY DEF SideOK, LevelsOf
<1>2. 1 \in 1 .. Len(levels[price]) /\ Head(levels[price]) = levels[price][1]
  BY <1>1
<1>3. CASE IsFilled(o)
  BY <1>2, <1>3, EraseKeepsOthersInTurn DEF PopIfFilled
<1>4. CASE ~IsFilled(o)
  BY <1>4 DEF PopIfFilled
<1> QED
  BY <1>3, <1>4

\* The head of the best level of a side: nobody is in front of it, no price is
\* better.
LEMMA HeadIsFirst ==
  ASSUME NEW levels, NEW side, NEW map, NEW os, NEW price \in DOMAIN levels,
         SideOK(levels, side, map, os)
  PROVE  LET id == Head(levels[price])
         IN  /\ id \in map /\ os[id].id = id /\ os[id].side = side /\ os[id].price = price
             /\ \A a : ~InFrontIn(levels, a, id)
<1>1. /\ levels[price] \in Seq(OrderIds) /\ levels[price] # << >>
      /\ \A p \in DOMAIN levels : Len(levels[p]) \in Nat
  BY DEF SideOK, LevelsOf
<1>2. 1 \in 1 .. Len(levels[price]) /\ Head(levels[price]) = levels[price][1]
  BY <1>1
<1> DEFINE id == levels[price][1]
<1>3. id \in map /\ os[id].id = id /\ os[id].side = side /\ os[id].price = price
  BY <1>2 DEF SideOK
<1>4. ASSUME NEW a, InFrontIn(levels, a, id) PROVE FALSE
  <2>1. PICK p \in DOMAIN levels : \E i, j \in 1 .. Len(levels[p]) :
          i < j /\ levels[p][i] = a /\ levels[p][j] = id
    BY <1>4 DEF InFrontIn
  <2>2. PICK i \in 1 .. Len(levels[p]), j \in 1 .. Len(levels[p]) : i < j /\ levels[p][j] = id
    BY <2>1
  <2>3. p = price
    BY <1>2, <2>2 DEF SideOK
  <2>4. j = 1
    BY <1>2, <2>2, <2>3 DEF SideOK
  <2> QED
    BY <1>1, <2>2, <2>4
<1> QED
  BY <1>2, <1>3, <1>4

\* A level stands for an order of its side and price.
LEMMA LevelHasOrder ==
  ASSUME NEW levels, NEW side, NEW map, NEW os, SideOK(levels, side, map, os),
         NEW price \in DOMAIN levels
  PROVE  \E id \in map : os[id].id = id /\ os[id].side = side /\ os[id].price = price
<1> DEFINE h == Head(levels[price])
<1>1. h \in map /\ os[h].id = h /\ os[h].side = side /\ os[h].price = price
  BY HeadIsFirst
<1> QED
  BY <1>1

\* What an iteration does, in terms of the two orders it matches.
Matches(b, a, q) ==
  /\ b \in orders_map /\ a \in orders_map /\ b # a /\ q \in Word
  /\ orders[b].id = b /\ orders[b].side = "Buy" /\ orders[a].id = a /\ orders[a].side = "Sell"
  /\ orders[b].price >= orders[a].price
  /\ \A id \in orders_map : /\ orders[id].side = "Buy" => orders[id].price <= orders[b].price
                            /\ orders[id].side = "Sell" => orders[id].price >= orders[a].price
  /\ \A id : ~InFrontIn(bids, id, b) /\ ~InFrontIn(asks, id, a)
  /\ q = IF orders[b].remaining <= orders[a].remaining
           THEN orders[b].remaining ELSE orders[a].remaining
  /\ trades' = Append(trades, [bid |-> [id |-> b, price |-> orders[b].price, quantity |-> q],
                               ask |-> [id |-> a, price |-> orders[a].price, quantity |-> q]])
  /\ orders'[b] = [orders[b] EXCEPT !.remaining = @ - q]
  /\ orders'[a] = [orders[a] EXCEPT !.remaining = @ - q]
  /\ \A id \in OrderIds \ {b, a} : orders'[id] = orders[id]
  /\ orders_map' = orders_map \ {id \in {b, a} : orders'[id].remaining = 0}
  /\ \A x, y : InFrontIn(bids', x, y) <=> /\ InFrontIn(bids, x, y)
                                          /\ orders'[b].remaining = 0 => x # b /\ y # b
  /\ \A x, y : InFrontIn(asks', x, y) <=> /\ InFrontIn(asks, x, y)
                                          /\ orders'[a].remaining = 0 => x # a /\ y # a

\* Match takes the first order of the best level of each side.
LEMMA MatchIsMatches ==
  ASSUME Inv, Match
  PROVE  \E b, a, q : Matches(b, a, q)
<1>1. PICK bidPrice \in DOMAIN bids, askPrice \in DOMAIN asks :
        /\ BestBid(bidPrice) /\ BestAsk(askPrice) /\ Crosses(bidPrice, askPrice)
        /\ MatchAtPrices(bidPrice, askPrice)
  BY DEF Match
<1> DEFINE b   == Head(bids[bidPrice])
           a   == Head(asks[askPrice])
           q   == MatchQuantity(orders[b], orders[a])
           new == [orders EXCEPT ![orders[b].id] = Fill(orders[b], q),
                                 ![orders[a].id] = Fill(orders[a], q)]
<1>2. /\ b \in orders_map /\ orders[b].id = b /\ orders[b].side = "Buy"
      /\ orders[b].price = bidPrice /\ \A id : ~InFrontIn(bids, id, b)
      /\ a \in orders_map /\ orders[a].id = a /\ orders[a].side = "Sell"
      /\ orders[a].price = askPrice /\ \A id : ~InFrontIn(asks, id, a)
  <2>1. SideOK(bids, "Buy", orders_map, orders) /\ SideOK(asks, "Sell", orders_map, orders)
    BY DEF Inv
  <2>2. /\ b \in orders_map /\ orders[b].id = b /\ orders[b].side = "Buy"
        /\ orders[b].price = bidPrice /\ \A id : ~InFrontIn(bids, id, b)
    BY <2>1, HeadIsFirst
  <2>3. /\ a \in orders_map /\ orders[a].id = a /\ orders[a].side = "Sell"
        /\ orders[a].price = askPrice /\ \A id : ~InFrontIn(asks, id, a)
    BY <2>1, HeadIsFirst
  <2> QED
    BY <2>2, <2>3
<1>3. /\ b \in OrderIds /\ a \in OrderIds /\ b # a
      /\ orders[b] \in Order /\ orders[a] \in Order
  BY <1>2 DEF Inv, TypeOK
<1>4. /\ q \in Word
      /\ q = IF orders[b].remaining <= orders[a].remaining
               THEN orders[b].remaining ELSE orders[a].remaining
  BY <1>3, BookAssumption DEF MatchQuantity, Order, Word
<1>5. \A id \in orders_map : /\ orders[id].side = "Buy" => orders[id].price <= orders[b].price
                             /\ orders[id].side = "Sell" => orders[id].price >= orders[a].price
  <2>1. /\ \A p \in DOMAIN bids : p <= bidPrice
        /\ \A p \in DOMAIN asks : p >= askPrice
    <3>1. DOMAIN asks \subseteq Int /\ askPrice \in Int
      BY BookAssumption DEF Inv, TypeOK, Word
    <3> QED
      BY <1>1, <3>1 DEF BestBid, BestAsk
  <2> QED
    BY <1>2, <2>1 DEF Inv, SideOK
<1>6. orders[b].price >= orders[a].price
  BY <1>1, <1>2 DEF Crosses
<1>7. /\ orders' = new
      /\ trades' = Append(trades, [bid |-> [id |-> b, price |-> orders[b].price, quantity |-> q],
                                   ask |-> [id |-> a, price |-> orders[a].price, quantity |-> q]])
      /\ orders_map' = orders_map \ {id \in {b, a} : IsFilled(new[id])}
      /\ bids' = PopIfFilled(bids, bidPrice, new[b])
      /\ asks' = PopIfFilled(asks, askPrice, new[a])
  BY <1>1, <1>2 DEF MatchAtPrices
<1> HIDE DEF q
<1>8. /\ new[b] = Fill(orders[b], q) /\ new[a] = Fill(orders[a], q)
      /\ \A id \in OrderIds \ {b, a} : new[id] = orders[id]
  BY <1>2, <1>3 DEF Inv, TypeOK
<1>9. new[b].id = b /\ new[a].id = a
  BY <1>2, <1>3, <1>8 DEF Fill, Order
<1> HIDE DEF new, b, a
<1>10. /\ \A x, y : InFrontIn(bids', x, y)
                      <=> InFrontIn(bids, x, y) /\ (IsFilled(new[b]) => x # b /\ y # b)
       /\ \A x, y : InFrontIn(asks', x, y)
                      <=> InFrontIn(asks, x, y) /\ (IsFilled(new[a]) => x # a /\ y # a)
  BY <1>7, <1>9, PopKeepsOthersInTurn DEF Inv, b, a
<1>11. Matches(b, a, q)
  BY <1>2, <1>3, <1>4, <1>5, <1>6, <1>7, <1>8, <1>10 DEF Matches, Fill, IsFilled
<1> QED
  BY <1>11

\* Two orders have a turn when they stand in line on one of the sides.
LEMMA TurnsAre ==
  ASSUME NEW bs, NEW as, LevelsOf(bs), LevelsOf(as)
  PROVE  \A a, b \in OrderIds : <<a, b>> \in InTurn(bs) \cup InTurn(as)
                                  <=> InFrontIn(bs, a, b) \/ InFrontIn(as, a, b)
BY InTurnIs

\* Only listed orders have a turn.
LEMMA TurnsOfListed ==
  ASSUME Inv
  PROVE  /\ \A x, y : InFrontIn(bids, x, y) => /\ x \in orders_map /\ y \in orders_map
                                               /\ orders[x].side = "Buy" /\ orders[y].side = "Buy"
         /\ \A x, y : InFrontIn(asks, x, y) => /\ x \in orders_map /\ y \in orders_map
                                               /\ orders[x].side = "Sell" /\ orders[y].side = "Sell"
         /\ \A x, y \in OrderIds :
              <<x, y>> \in Turns <=> InFrontIn(bids, x, y) \/ InFrontIn(asks, x, y)
<1>1. SideOK(bids, "Buy", orders_map, orders) /\ SideOK(asks, "Sell", orders_map, orders)
  BY DEF Inv
<1>2. \A x, y : InFrontIn(bids, x, y) => /\ x \in orders_map /\ y \in orders_map
                                         /\ orders[x].side = "Buy" /\ orders[y].side = "Buy"
  BY <1>1, SideIsQueue
<1>3. \A x, y : InFrontIn(asks, x, y) => /\ x \in orders_map /\ y \in orders_map
                                         /\ orders[x].side = "Sell" /\ orders[y].side = "Sell"
  BY <1>1, SideIsQueue
<1>4. LevelsOf(bids) /\ LevelsOf(asks)
  BY <1>1 DEF SideOK
<1> QED
  BY <1>2, <1>3, <1>4, TurnsAre DEF Turns

\* Trading takes no order's identity.
LEMMA StillTheSame ==
  ASSUME QueueOK, CallOK, NEW id \in DOMAIN Came
  PROVE  /\ orders[id].id = id /\ orders[id].side = Came[id].side
         /\ orders[id].price = Came[id].price
<1>1. orders[id] = IF id \in Done THEN [Came[id] EXCEPT !.remaining = @ - Taken(id)] ELSE Came[id]
  BY DEF CallOK
<1> QED
  BY <1>1, CameTyped DEF Order

\* The terms of the order of the call.
LEMMA PlacedIs ==
  ASSUME Inv, ~Idle
  PROVE  /\ order \in OrderIds /\ orders[order] \in Order
         /\ Placed.side \in Side /\ Placed.side = orders[order].side
         /\ Placed.price = orders[order].price /\ Placed.price \in Int
         /\ Placed.id = orders[order].id /\ Placed.type = orders[order].type
         /\ Placed.initial \in Nat /\ Placed.initial = orders[order].initial
         /\ Placed.remaining = Placed.initial
         /\ orders[order].remaining \in Nat
<1>1. order \in OrderIds /\ orders[order] \in Order
  BY DEF Inv, TypeOK, Idle
<1>2. Word \subseteq Nat /\ Prices \subseteq Int
  BY BookAssumption DEF Word
<1> QED
  BY <1>1, <1>2 DEF Placed, Order

\* An iteration, in terms of the order of the call and the resting order that it
\* meets: the first in turn of those it crosses and that are still there.
Meets(h, q) ==
  /\ order \in orders_map /\ h \in orders_map /\ h # order /\ h \in Crossing
  /\ q \in Word
  /\ q = IF orders[order].remaining <= orders[h].remaining
           THEN orders[order].remaining ELSE orders[h].remaining
  /\ \A x \in Crossing : x \in orders_map => ~Contract!Ahead(x, h)
  /\ \E t \in Trade : /\ trades' = Append(trades, t)
                      /\ Partner(t) = h /\ t = Contract!TradeOf(Placed, h, q)
  /\ orders'[order] = [orders[order] EXCEPT !.remaining = @ - q]
  /\ orders'[h] = [orders[h] EXCEPT !.remaining = @ - q]
  /\ \A id \in OrderIds \ {order, h} : orders'[id] = orders[id]
  /\ orders_map' = orders_map \ {id \in {order, h} : orders'[id].remaining = 0}
  /\ \A x, y \in OrderIds :
       <<x, y>> \in Turns' <=> <<x, y>> \in Turns /\ x \in orders_map' /\ y \in orders_map'

\* One of the two orders of an iteration is the order of the call: the book was not
\* crossed without it.
LEMMA MatchMeets ==
  ASSUME Inv, Inv', TradesInv, QueueOK, CallOK, Match
  PROVE  \E h, q : Meets(h, q)
<1>1. PICK b, a, q : Matches(b, a, q)
  BY MatchIsMatches
<1>2. ~Idle /\ order' = order
  BY DEF Match
<1>3. order \in {b, a}
  <2>1. /\ b \in orders_map /\ a \in orders_map /\ orders[b].side = "Buy" /\ orders[a].side = "Sell"
        /\ orders[b].price >= orders[a].price
    BY <1>1 DEF Matches
  <2>2. orders[b].price \in Int /\ orders[a].price \in Int
    BY <2>1, BookAssumption DEF Inv, TypeOK, Order, Word
  <2> QED
    BY <2>1, <2>2 DEF TradesInv, RestingBelow
<1> DEFINE h == IF order = b THEN a ELSE b
<1>4. /\ h \in orders_map /\ order \in orders_map /\ h # order /\ {order, h} = {b, a}
      /\ orders[order].side = "Buy" => order = b /\ h = a
      /\ orders[order].side # "Buy" => order = a /\ h = b
      /\ h \in DOMAIN Came /\ b \in OrderIds /\ a \in OrderIds
  <2>1. /\ h \in orders_map /\ order \in orders_map /\ h # order /\ {order, h} = {b, a}
        /\ orders[order].side = "Buy" => order = b /\ h = a
        /\ orders[order].side # "Buy" => order = a /\ h = b
    BY <1>1, <1>3 DEF Matches
  <2>2. b \in OrderIds /\ a \in OrderIds
    BY <1>1 DEF Matches, Inv, TypeOK
  <2>3. h \in DOMAIN Came
    BY <2>1, <2>2 DEF CallOK
  <2> QED
    BY <2>1, <2>2, <2>3
<1> HIDE DEF h
<1>5. /\ Placed.side \in Side /\ Placed.side = orders[order].side
      /\ Placed.price = orders[order].price /\ Placed.price \in Int
      /\ Placed.id = order
  BY <1>1, <1>2, <1>4, PlacedIs DEF Matches
<1>6. /\ Came[h].side = orders[h].side /\ Came[h].price = orders[h].price /\ Came[h].price \in Int
      /\ Came[h].side # Placed.side
  <2>1. Came[h].side = orders[h].side /\ Came[h].price = orders[h].price /\ Came[h].price \in Int
    BY <1>4, StillTheSame, CameTyped
  <2> QED
    BY <1>1, <1>4, <1>5, <2>1 DEF Matches
<1>7. h \in Crossing
  <2>1. IF Placed.side = "Buy" THEN Came[h].price <= Placed.price ELSE Came[h].price >= Placed.price
    BY <1>1, <1>4, <1>5, <1>6 DEF Matches
  <2> QED
    BY <1>4, <1>6, <2>1 DEF Crossing, Contract!Crossed, Came
<1>8. ASSUME NEW x \in Crossing, x \in orders_map, Contract!Ahead(x, h) PROVE FALSE
  <2>1. /\ x \in DOMAIN Came /\ x # order /\ Came[x].side = Came[h].side
        /\ Came[x].price \in Int
        /\ orders[x].side = Came[x].side /\ orders[x].price = Came[x].price
    <3>1. x \in DOMAIN Came /\ Came[x].side = Came[h].side
      BY <1>5, <1>7, CrossingIsOneSide
    <3>2. order \notin DOMAIN Came
      BY DEF CallOK
    <3>3. Came[x].price \in Int /\ orders[x].side = Came[x].side /\ orders[x].price = Came[x].price
      BY <3>1, StillTheSame, CameTyped
    <3> QED
      BY <3>1, <3>2, <3>3
  <2>2. CASE <<x, h>> \in atRest.older
    <3>1. x \in OrderIds /\ h \in OrderIds
      BY <2>1, <1>4, CameTyped
    <3>2. <<x, h>> \in Turns
      BY <1>4, <1>8, <2>1, <2>2, <3>1 DEF CallOK
    <3>3. InFrontIn(bids, x, h) \/ InFrontIn(asks, x, h)
      BY <3>1, <3>2, TurnsOfListed
    <3>4. h = b => InFrontIn(bids, x, b)
      BY <1>1, <3>3, TurnsOfListed DEF Matches
    <3>5. h = a => InFrontIn(asks, x, a)
      BY <1>1, <3>3, TurnsOfListed DEF Matches
    <3> QED
      BY <1>1, <1>4, <3>4, <3>5 DEF Matches
  <2>3. CASE IF Came[x].side = "Buy" THEN Came[x].price > Came[h].price
                                     ELSE Came[x].price < Came[h].price
    <3>1. orders[x].side \in Side
      BY <2>1, CameTyped
    <3> QED
      BY <1>1, <1>4, <1>6, <1>8, <2>1, <2>3, <3>1 DEF Matches, Side
  <2> QED
    BY <1>8, <2>2, <2>3 DEF Contract!Ahead, Came
<1> DEFINE t == [bid |-> [id |-> b, price |-> orders[b].price, quantity |-> q],
                 ask |-> [id |-> a, price |-> orders[a].price, quantity |-> q]]
<1>9. t \in Trade /\ trades' = Append(trades, t)
  <2>1. orders[b].price \in Prices /\ orders[a].price \in Prices
    BY <1>1, <1>4 DEF Matches, Inv, TypeOK, Order
  <2> QED
    BY <1>1, <1>4, <2>1 DEF Matches, Trade, TradeInfo
<1>10. Partner(t) = h
  BY <1>4 DEF Partner
<1>11. t = Contract!TradeOf(Placed, h, q)
  <2>1. atRest.resting[h].price = orders[h].price
    BY <1>6 DEF Came
  <2>2. CASE Placed.side = "Buy"
    BY <1>4, <1>5, <2>1, <2>2 DEF Contract!TradeOf
  <2>3. CASE Placed.side # "Buy"
    BY <1>4, <1>5, <2>1, <2>3 DEF Contract!TradeOf
  <2> QED
    BY <2>2, <2>3
<1>12. ASSUME NEW x \in OrderIds, NEW y \in OrderIds
       PROVE  <<x, y>> \in Turns' <=> <<x, y>> \in Turns /\ x \in orders_map' /\ y \in orders_map'
  <2>1. <<x, y>> \in Turns' <=> InFrontIn(bids', x, y) \/ InFrontIn(asks', x, y)
    <3>1. LevelsOf(bids') /\ LevelsOf(asks')
      BY DEF Inv, SideOK
    <3> QED
      BY <3>1, TurnsAre DEF Turns, InTurn
  <2>2. <<x, y>> \in Turns <=> InFrontIn(bids, x, y) \/ InFrontIn(asks, x, y)
    BY TurnsOfListed
  <2>3. InFrontIn(bids', x, y) <=> InFrontIn(bids, x, y) /\ x \in orders_map' /\ y \in orders_map'
    <3>1. InFrontIn(bids, x, y) => /\ x \in orders_map /\ y \in orders_map /\ x # a /\ y # a
      BY <1>1, TurnsOfListed DEF Matches
    <3> QED
      BY <1>1, <3>1 DEF Matches
  <2>4. InFrontIn(asks', x, y) <=> InFrontIn(asks, x, y) /\ x \in orders_map' /\ y \in orders_map'
    <3>1. InFrontIn(asks, x, y) => /\ x \in orders_map /\ y \in orders_map /\ x # b /\ y # b
      BY <1>1, TurnsOfListed DEF Matches
    <3> QED
      BY <1>1, <3>1 DEF Matches
  <2> QED
    BY <2>1, <2>2, <2>3, <2>4
<1> HIDE DEF t
<1>13. /\ q \in Word
       /\ q = IF orders[order].remaining <= orders[h].remaining
                THEN orders[order].remaining ELSE orders[h].remaining
  <2>1. orders[b].remaining \in Int /\ orders[a].remaining \in Int
    BY <1>1, BookAssumption DEF Matches, Inv, TypeOK, Order, Word
  <2> QED
    BY <1>1, <1>4, <2>1 DEF Matches
<1>14. /\ orders'[order] = [orders[order] EXCEPT !.remaining = @ - q]
       /\ orders'[h] = [orders[h] EXCEPT !.remaining = @ - q]
       /\ \A id \in OrderIds \ {order, h} : orders'[id] = orders[id]
       /\ orders_map' = orders_map \ {id \in {order, h} : orders'[id].remaining = 0}
  BY <1>1, <1>4 DEF Matches
<1>15. Meets(h, q)
  BY <1>4, <1>7, <1>8, <1>9, <1>10, <1>11, <1>12, <1>13, <1>14 DEF Meets
<1> QED
  BY <1>15

\* The orders of the trades so far are the first in turn, as many as there are
\* trades, and the contract hits them.
LEMMA DoneInTurn ==
  ASSUME Inv, ~Idle, QueueOK, TradesInTurn
  PROVE  /\ Done \subseteq Crossing /\ IsFiniteSet(Done) /\ Cardinality(Done) = Len(trades)
         /\ Done = {} <=> trades = << >>
         /\ \A id \in Done : InFront(id) \subseteq Done /\ (InFront(id) = {} \/ Left(id) > 0)
<1>1. /\ trades \in Seq(Trade) /\ Len(trades) \in Nat /\ DOMAIN trades = 1 .. Len(trades)
      /\ trades = << >> <=> Len(trades) = 0
  BY DEF Inv, TypeOK
<1>2. Placed.side \in Side
  BY PlacedIs
<1>3. Done \subseteq Crossing
  BY DEF Done, TradesInTurn
<1>4. IsFiniteSet(Done)
  BY <1>2, <1>3, CrossingIsOneSide, FS_Subset
<1>5. ASSUME NEW id \in Done PROVE InFront(id) \subseteq Done /\ (InFront(id) = {} \/ Left(id) > 0)
  <2>1. PICK n \in DOMAIN trades : id = Partner(trades[n])
    BY DEF Done
  <2>2. /\ InFront(id) = {Partner(trades[m]) : m \in 1 .. n - 1}
        /\ n > 1 => Left(id) > 0
    BY <2>1 DEF TradesInTurn
  <2>3. 1 .. n - 1 \subseteq DOMAIN trades /\ (~(n > 1) => 1 .. n - 1 = {})
    BY <1>1, <2>1
  <2> QED
    BY <2>2, <2>3 DEF Done
<1>6. Done = {} <=> trades = << >>
  <2>1. trades # << >> => 1 \in DOMAIN trades
    BY <1>1
  <2>2. trades # << >> => Partner(trades[1]) \in Done
    BY <2>1 DEF Done
  <2>3. trades = << >> => DOMAIN trades = {}
    BY <1>1
  <2> QED
    BY <2>2, <2>3 DEF Done
<1>7. Cardinality(Done) = Len(trades)
  <2>1. CASE trades = << >>
    BY <1>1, <1>6, <2>1, FS_EmptySet
  <2>2. CASE trades # << >>
    <3> DEFINE k == Len(trades)
               last == Partner(trades[k])
    <3>1. k \in DOMAIN trades /\ k > 0 /\ 1 .. k = (1 .. k - 1) \cup {k}
      BY <1>1, <2>2
    <3>2. /\ last \in Crossing /\ InFront(last) = {Partner(trades[m]) : m \in 1 .. k - 1}
          /\ Cardinality(InFront(last)) = k - 1
      BY <3>1 DEF TradesInTurn
    <3>3. Done = InFront(last) \cup {last}
      BY <1>1, <3>1, <3>2 DEF Done
    <3>4. last \notin InFront(last)
      BY <1>2, <3>2, CrossingIsQueue DEF InFront
    <3>5. IsFiniteSet(InFront(last))
      BY <1>4, <3>3, FS_Subset
    <3> HIDE DEF last
    <3>6. Cardinality(Done) = (k - 1) + 1
      BY <3>2, <3>3, <3>4, <3>5, FS_AddElement
    <3> QED
      BY <1>1, <3>1, <3>6
  <2> QED
    BY <2>1, <2>2
<1> QED
  BY <1>3, <1>4, <1>5, <1>6, <1>7

\* The order that an iteration meets is the next in turn, what is left of the
\* order of the call is what the contract leaves for it, and so is what it takes.
LEMMA MeetsNextInTurn ==
  ASSUME Inv, ~Idle, QueueOK, CallOK, NEW h, NEW q, Meets(h, q)
  PROVE  /\ h \notin Done /\ InFront(h) = Done /\ h \in DOMAIN Came /\ orders[h] = Came[h]
         /\ q = Taken(h) /\ Left(h) = orders[order].remaining
         /\ \A id \in Done : Taken(id) = Came[id].remaining
         /\ Done # {} => Left(h) > 0
<1>1. /\ Placed.side \in Side /\ Placed.initial \in Nat /\ orders[order].remaining \in Nat
  BY PlacedIs
<1>2. TradesInTurn /\ order \notin DOMAIN Came /\ order \in orders_map /\ h \in Crossing
  BY DEF CallOK, Meets
<1>3. Crossing \subseteq DOMAIN Came /\ h \in DOMAIN Came /\ DOMAIN Came \subseteq OrderIds
  BY <1>1, <1>2, CrossingIsOneSide DEF QueueOK
<1>4. \A id \in Done : Taken(id) = Came[id].remaining
  BY <1>2 DEF CallOK
<1>5. /\ Done \subseteq Crossing
      /\ \A id \in Done : InFront(id) \subseteq Done
      /\ Done = {} <=> trades = << >>
  BY <1>2, DoneInTurn
<1>6. ASSUME NEW id \in Crossing PROVE id \in orders_map <=> id \notin Done
  <2>1. /\ id \in OrderIds \ {order} /\ id \in DOMAIN Came
        /\ Came[id].remaining \in Nat
    BY <1>2, <1>3, CameTyped
  <2>2. id \in orders_map <=> (id \in Done => Taken(id) < Came[id].remaining)
    BY <2>1 DEF CallOK
  <2> QED
    BY <1>4, <2>1, <2>2
<1>7. h \notin Done
  BY <1>2, <1>6 DEF Meets
<1>8. InFront(h) = Done
  <2>1. InFront(h) \subseteq Done
    BY <1>6 DEF InFront, Meets
  <2>2. ASSUME NEW id \in Done PROVE id \in InFront(h)
    <3>1. Contract!Ahead(id, h) \/ Contract!Ahead(h, id)
      BY <1>1, <1>2, <1>5, <1>7, CrossingIsQueue
    <3>2. Contract!Ahead(h, id) => h \in InFront(id)
      BY <1>2 DEF InFront
    <3> QED
      BY <1>5, <1>7, <3>1, <3>2 DEF InFront
  <2> QED
    BY <2>1, <2>2
<1>9. orders[h] = Came[h]
  BY <1>3, <1>7 DEF CallOK
<1>10. Left(h) = orders[order].remaining
  <2>1. SumFunction([id \in Done |-> Taken(id)]) = Contract!Available(Done)
    BY <1>1, <1>4, <1>5, TakenOfSome
  <2>2. orders[order].remaining = Placed.initial - SumFunction([id \in Done |-> Taken(id)])
    BY DEF CallOK
  <2> QED
    BY <1>8, <2>1, <2>2 DEF Left
<1>11. q = Taken(h)
  <2>1. Came[h].remaining \in Nat
    BY <1>3, CameTyped
  <2>2. q = IF orders[order].remaining <= Came[h].remaining
              THEN orders[order].remaining ELSE Came[h].remaining
    BY <1>9 DEF Meets
  <2>3. Taken(h) = IF Left(h) <= 0 THEN 0
                   ELSE IF Left(h) <= Came[h].remaining THEN Left(h) ELSE Came[h].remaining
    BY DEF Taken, Contract!Share, Came
  <2> QED
    BY <1>1, <1>10, <2>1, <2>2, <2>3
<1>12. Done # {} => Left(h) > 0
  BY <1>2, <1>5, <1>10 DEF CallOK
<1> QED
  BY <1>3, <1>4, <1>7, <1>8, <1>9, <1>10, <1>11, <1>12

\* An iteration is the next trade of the contract.
LEMMA MatchKeepsCall ==
  ASSUME Inv, Inv', TradesInv, QueueOK, CallOK, Match, UNCHANGED atRest
  PROVE  CallOK'
<1>0. order' = order /\ ~Idle /\ ~Idle'
  BY DEF Match, Idle
<1>1. PICK h, q : Meets(h, q)
  BY MatchMeets
<1>2. /\ h \notin Done /\ InFront(h) = Done /\ h \in DOMAIN Came /\ orders[h] = Came[h]
      /\ q = Taken(h) /\ Left(h) = orders[order].remaining
      /\ \A id \in Done : Taken(id) = Came[id].remaining
      /\ Done # {} => Left(h) > 0
  BY <1>0, <1>1, MeetsNextInTurn
<1>3. /\ order \in OrderIds /\ orders[order] \in Order /\ Placed.side \in Side
      /\ Placed.initial \in Nat /\ orders[order].remaining \in Nat
      /\ orders'[order].remaining \in Nat
  <2>1. orders'[order'].remaining \in Nat
    <3>1. order' \in OrderIds /\ orders'[order'] \in Order
      BY <1>0 DEF Inv, TypeOK, Idle
    <3> QED
      BY <3>1, BookAssumption DEF Order, Word
  <2> QED
    BY <1>0, <2>1, PlacedIs
<1>4. /\ h \in Crossing /\ h # order /\ order \in orders_map /\ h \in orders_map
      /\ orders'[order] = [orders[order] EXCEPT !.remaining = @ - q]
      /\ orders'[h] = [orders[h] EXCEPT !.remaining = @ - q]
      /\ \A id \in OrderIds \ {order, h} : orders'[id] = orders[id]
      /\ orders_map' = orders_map \ {id \in {order, h} : orders'[id].remaining = 0}
      /\ q = IF orders[order].remaining <= orders[h].remaining
               THEN orders[order].remaining ELSE orders[h].remaining
  BY <1>1 DEF Meets
<1>5. orders'[order].remaining = orders[order].remaining - q
  BY <1>3, <1>4 DEF Order
<1>6. /\ Came' = Came /\ Placed' = Placed /\ Crossing' = Crossing
      /\ \A id : /\ InFront(id)' = InFront(id) /\ Left(id)' = Left(id)
                 /\ Taken(id)' = Taken(id) /\ Offer(id)' = Offer(id)
      /\ \A t : Partner(t)' = Partner(t)
  BY <1>0, <1>3, <1>4, <1>5, SameTerms
<1>7. PICK t \in Trade : /\ trades' = Append(trades, t)
                         /\ Partner(t) = h /\ t = Offer(h)
  <2>1. PICK t \in Trade : /\ trades' = Append(trades, t)
                           /\ Partner(t) = h /\ t = Contract!TradeOf(Placed, h, q)
    BY <1>1 DEF Meets
  <2>2. t = Offer(h)
    BY <1>2, <2>1 DEF Offer
  <2> QED
    BY <2>1, <2>2
<1> DEFINE k == Len(trades)
<1>8. /\ trades \in Seq(Trade) /\ k \in Nat /\ DOMAIN trades = 1 .. k
      /\ DOMAIN trades' = 1 .. k + 1 /\ trades'[k + 1] = t
      /\ \A n \in 1 .. k : trades'[n] = trades[n]
      /\ trades' # << >>
  BY <1>7 DEF Inv, TypeOK
<1> HIDE DEF k
<1>9. TradesInTurn
  BY DEF CallOK
<1>10. Done' = Done \cup {h}
  <2>1. Done' = {Partner(trades'[n]) : n \in DOMAIN trades'}
    BY <1>6 DEF Done
  <2>2. 1 .. k + 1 = (1 .. k) \cup {k + 1}
    BY <1>8
  <2> QED
    BY <1>7, <1>8, <2>1, <2>2 DEF Done
<1>11. /\ Done \subseteq Crossing /\ IsFiniteSet(Done) /\ Cardinality(Done) = k
       /\ Done = {} <=> trades = << >>
  BY <1>0, <1>9, DoneInTurn DEF k
<1>12. TradesInTurn'
  <2> SUFFICES ASSUME NEW n \in DOMAIN trades'
               PROVE  /\ Partner(trades'[n]) \in Crossing
                      /\ trades'[n] = Offer(Partner(trades'[n]))
                      /\ InFront(Partner(trades'[n])) = {Partner(trades'[m]) : m \in 1 .. n - 1}
                      /\ Cardinality(InFront(Partner(trades'[n]))) = n - 1
                      /\ n > 1 => Left(Partner(trades'[n])) > 0
    BY <1>6 DEF TradesInTurn
  <2>1. \A m \in 1 .. n - 1 : m \in 1 .. k
    BY <1>8
  <2>2. {Partner(trades'[m]) : m \in 1 .. n - 1} = {Partner(trades[m]) : m \in 1 .. n - 1}
    BY <1>8, <2>1
  <2>3. CASE n \in 1 .. k
    <3>1. n \in DOMAIN trades /\ trades'[n] = trades[n]
      BY <1>8, <2>3
    <3>2. /\ Partner(trades[n]) \in Crossing
          /\ trades[n] = Offer(Partner(trades[n]))
          /\ InFront(Partner(trades[n])) = {Partner(trades[m]) : m \in 1 .. n - 1}
          /\ Cardinality(InFront(Partner(trades[n]))) = n - 1
          /\ n > 1 => Left(Partner(trades[n])) > 0
      BY <1>9, <3>1 DEF TradesInTurn
    <3> QED
      BY <2>2, <3>1, <3>2
  <2>4. CASE n = k + 1
    <3>1. n - 1 = k /\ trades'[n] = t
      BY <1>8, <2>4
    <3>2. InFront(h) = {Partner(trades[m]) : m \in 1 .. n - 1}
      BY <1>2, <1>8, <3>1 DEF Done
    <3>3. n > 1 => Left(h) > 0
      <4>1. n > 1 => trades # << >>
        BY <1>8, <2>4
      <4> QED
        BY <1>2, <1>11, <4>1
    <3> QED
      BY <1>2, <1>4, <1>7, <1>11, <2>2, <3>1, <3>2, <3>3
  <2> QED
    BY <1>8, <2>3, <2>4
<1>13. order \notin DOMAIN Came /\ DOMAIN Came \subseteq OrderIds
  BY DEF CallOK, QueueOK
<1>14. /\ Came[h] \in Order /\ Came[h].remaining \in Nat /\ Taken(h) \in Nat
       /\ Came[h].remaining - Taken(h) \in Nat
  BY <1>2, <1>3, <1>4, CameTyped, TakenFits
<1>15. orders'[h] = [Came[h] EXCEPT !.remaining = @ - Taken(h)]
  BY <1>2, <1>4
<1>16. \A id \in DOMAIN Came :
         orders'[id] = IF id \in Done \cup {h} THEN [Came[id] EXCEPT !.remaining = @ - Taken(id)]
                                               ELSE Came[id]
  <2> SUFFICES ASSUME NEW id \in DOMAIN Came
               PROVE  orders'[id] = IF id \in Done \cup {h}
                                      THEN [Came[id] EXCEPT !.remaining = @ - Taken(id)]
                                      ELSE Came[id]
    OBVIOUS
  <2>1. CASE id = h
    BY <1>15, <2>1
  <2>2. CASE id # h
    <3>1. orders'[id] = orders[id]
      BY <1>4, <1>13, <2>2
    <3>2. orders[id] = IF id \in Done THEN [Came[id] EXCEPT !.remaining = @ - Taken(id)] ELSE Came[id]
      BY DEF CallOK
    <3> QED
      BY <2>2, <3>1, <3>2
  <2> QED
    BY <2>1, <2>2
<1>17. ASSUME NEW id \in OrderIds \ {order}
       PROVE  id \in orders_map'
                <=> id \in DOMAIN Came /\ (id \in Done \cup {h} => Taken(id) < Came[id].remaining)
  <2>1. CASE id = h
    <3>1. orders'[h].remaining = Came[h].remaining - Taken(h)
      BY <1>14, <1>15 DEF Order
    <3>2. h \in orders_map' <=> orders'[h].remaining # 0
      BY <1>4
    <3> QED
      BY <1>2, <1>14, <2>1, <3>1, <3>2
  <2>2. CASE id # h
    <3>1. id \in orders_map' <=> id \in orders_map
      BY <1>4, <2>2
    <3>2. id \in orders_map <=> id \in DOMAIN Came /\ (id \in Done => Taken(id) < Came[id].remaining)
      BY DEF CallOK
    <3> QED
      BY <2>2, <3>1, <3>2
  <2> QED
    BY <2>1, <2>2
<1>18. order \in orders_map' <=> orders'[order].remaining # 0
  BY <1>4
<1>19. order \in orders_map' =>
         /\ \A id \in Done \cup {h} : Taken(id) = Came[id].remaining
         /\ orders'[order].remaining > 0
  <2> SUFFICES ASSUME order \in orders_map'
               PROVE  Taken(h) = Came[h].remaining /\ orders'[order].remaining > 0
    BY <1>2
  <2>1. orders'[order].remaining > 0
    BY <1>3, <1>18
  <2>2. q = orders[h].remaining
    BY <1>3, <1>4, <1>5, <2>1
  <2> QED
    BY <1>2, <2>1, <2>2
<1>20. order \notin orders_map' => orders'[order].remaining = 0
  BY <1>18
<1>21. orders'[order].remaining
         = Placed.initial - SumFunction([id \in Done \cup {h} |-> Taken(id)])
  <2> DEFINE f == [id \in Done |-> Taken(id)]
             g == [id \in Done \cup {h} |-> Taken(id)]
  <2>1. /\ IsFiniteSet(DOMAIN f) /\ \A id \in DOMAIN f : f[id] \in Nat
        /\ h \notin DOMAIN f /\ DOMAIN g = DOMAIN f \cup {h} /\ g[h] = Taken(h)
        /\ \A id \in DOMAIN f : g[id] = f[id]
    BY <1>2, <1>3, <1>11, TakenFits
  <2>2. orders[order].remaining = Placed.initial - SumFunction(f)
    BY DEF CallOK
  <2> HIDE DEF f, g
  <2>3. SumFunction(g) = SumFunction(f) + Taken(h) /\ SumFunction(f) \in Nat
    BY <1>14, <2>1, SumFunctionAdds, SumFunctionIsNat
  <2>4. orders'[order].remaining = Placed.initial - SumFunction(g)
    BY <1>2, <1>3, <1>5, <1>14, <2>2, <2>3
  <2> QED
    BY <2>4 DEF g
<1>22. ASSUME NEW a \in OrderIds, NEW b \in OrderIds
       PROVE  <<a, b>> \in Turns' <=>
                /\ a \in orders_map' \ {order} /\ b \in orders_map'
                /\ IF b = order
                     THEN orders'[a].side = orders'[b].side /\ orders'[a].price = orders'[b].price
                     ELSE <<a, b>> \in atRest.older
  <2>1. <<a, b>> \in Turns' <=> <<a, b>> \in Turns /\ a \in orders_map' /\ b \in orders_map'
    BY <1>1 DEF Meets
  <2>2. <<a, b>> \in Turns <=>
          /\ a \in orders_map \ {order} /\ b \in orders_map
          /\ IF b = order THEN orders[a].side = orders[b].side /\ orders[a].price = orders[b].price
                          ELSE <<a, b>> \in atRest.older
    BY DEF CallOK
  <2>3. \A id \in orders_map : orders'[id].side = orders[id].side /\ orders'[id].price = orders[id].price
    <3>1. \A id \in orders_map : id \in OrderIds /\ orders[id] \in Order
      BY DEF Inv, TypeOK
    <3>2. /\ orders'[order].side = orders[order].side /\ orders'[order].price = orders[order].price
          /\ orders'[h].side = orders[h].side /\ orders'[h].price = orders[h].price
      BY <1>4, <3>1 DEF Order
    <3> QED
      BY <1>4, <3>1, <3>2
  <2>4. orders_map' \subseteq orders_map
    BY <1>4
  <2> QED
    BY <2>1, <2>2, <2>3, <2>4
<1>23. /\ Placed.initial \in Quantities
       /\ orders'[order].type = "FillAndKill" => Crossing # {}
       /\ orders'[order].id = order
  <2>1. orders'[order].type = orders[order].type /\ orders'[order].id = orders[order].id
    BY <1>3, <1>4 DEF Order
  <2> QED
    BY <2>1 DEF CallOK
<1>24. [id \in Done |-> Taken(id)]' = [id \in Done \cup {h} |-> Taken(id)]
  BY <1>6, <1>10
<1>25. /\ order' \notin DOMAIN Came' /\ orders'[order'].id = order'
       /\ (Placed.initial \in Quantities)'
       /\ orders'[order'].type = "FillAndKill" => Crossing' # {}
  BY <1>0, <1>6, <1>13, <1>23
<1>26. /\ \A id \in DOMAIN Came' :
            orders'[id] = IF id \in Done' THEN [Came'[id] EXCEPT !.remaining = @ - Taken(id)']
                                          ELSE Came'[id]
       /\ \A id \in OrderIds \ {order'} :
            id \in orders_map'
              <=> id \in DOMAIN Came' /\ (id \in Done' => Taken(id)' < Came'[id].remaining)
  BY <1>0, <1>6, <1>10, <1>16, <1>17
<1>27. /\ order' \in orders_map' =>
            /\ \A id \in Done' : Taken(id)' = Came'[id].remaining
            /\ orders'[order'].remaining > 0 \/ trades' = << >>
       /\ order' \notin orders_map' => trades' # << >> /\ orders'[order'].remaining = 0
       /\ orders'[order'].remaining = Placed'.initial - SumFunction([id \in Done |-> Taken(id)])'
  BY <1>0, <1>6, <1>8, <1>10, <1>19, <1>20, <1>21, <1>24
<1>28. \A a, b \in OrderIds :
         <<a, b>> \in Turns' <=>
           /\ a \in orders_map' \ {order'} /\ b \in orders_map'
           /\ IF b = order' THEN orders'[a].side = orders'[b].side /\ orders'[a].price = orders'[b].price
                            ELSE <<a, b>> \in atRest'.older
  BY <1>0, <1>22
<1> QED
  BY <1>12, <1>25, <1>26, <1>27, <1>28 DEF CallOK

-----------------------------------------------------------------------------
(* The call begins *)

\* AddOrder puts its order at the end of its level, and nothing is traded yet.
LEMMA AddToLevelBeginsCall ==
  ASSUME Inv, Inv', QueueOK, RestOK, trades = << >>, NEW o \in Order,
         o.remaining = o.initial, o.initial \in Quantities, AddToLevel(o), UNCHANGED atRest
  PROVE  CallOK'
<1>1. /\ o.id \in OrderIds /\ o.side \in Side /\ o.initial \in Nat /\ o.price \in Int
  BY BookAssumption DEF Order, Word
<1>2. /\ order' = o.id /\ orders' = [orders EXCEPT ![o.id] = o] /\ orders_map' = orders_map \cup {o.id}
      /\ trades' = << >> /\ o.id \notin orders_map
      /\ o.type = "FillAndKill" => CanMatch(o.side, o.price)
  BY DEF AddToLevel
<1>3. /\ orders'[o.id] = o /\ \A id \in OrderIds \ {o.id} : orders'[id] = orders[id]
  BY <1>1, <1>2 DEF Inv, TypeOK
<1>4. /\ Came' = Came /\ DOMAIN Came = orders_map /\ orders_map \subseteq OrderIds
      /\ \A id \in orders_map : orders[id] = Came[id]
  BY DEF Came, RestOK, Inv, TypeOK
<1>5. Placed' = o
  BY <1>2, <1>3 DEF Placed, Order
<1>6. Done' = {} /\ TradesInTurn'
  BY <1>2 DEF Done, TradesInTurn
<1>7. o.type = "FillAndKill" => Crossing' # {}
  <2> SUFFICES ASSUME CanMatch(o.side, o.price) PROVE Crossing' # {}
    BY <1>2
  <2>1. Crossing' = Contract!Crossed(o)
    BY <1>5 DEF Crossing, Contract!Crossed
  <2>2. CASE o.side = "Buy"
    <3>1. PICK a \in DOMAIN asks : o.price >= a
      BY <2>2 DEF CanMatch, BestAsk
    <3>2. PICK id \in orders_map : orders[id].side = "Sell" /\ orders[id].price = a
      <4>1. SideOK(asks, "Sell", orders_map, orders)
        BY DEF Inv
      <4> QED
        BY <4>1, LevelHasOrder
    <3>3. a \in Int
      BY <3>1, BookAssumption DEF Inv, TypeOK, Word
    <3>4. id \in Contract!Crossed(o)
      BY <1>1, <1>4, <2>2, <3>1, <3>2, <3>3 DEF Contract!Crossed, Came
    <3> QED
      BY <2>1, <3>4
  <2>3. CASE o.side = "Sell"
    <3>1. PICK b \in DOMAIN bids : o.price <= b
      BY <2>3 DEF CanMatch, BestBid
    <3>2. PICK id \in orders_map : orders[id].side = "Buy" /\ orders[id].price = b
      <4>1. SideOK(bids, "Buy", orders_map, orders)
        BY DEF Inv
      <4> QED
        BY <4>1, LevelHasOrder
    <3>3. b \in Int
      BY <3>1, BookAssumption DEF Inv, TypeOK, Word
    <3>4. id \in Contract!Crossed(o)
      BY <1>1, <1>4, <2>3, <3>1, <3>2, <3>3 DEF Contract!Crossed, Came
    <3> QED
      BY <2>1, <3>4
  <2> QED
    BY <1>1, <2>2, <2>3 DEF Side
<1>8. SumFunction([id \in {} |-> Taken(id)']) = 0
  <2> DEFINE f == [id \in {} |-> Taken(id)']
  <2>1. DOMAIN f = {}
    OBVIOUS
  <2> HIDE DEF f
  <2>2. SumFunction(f) = 0
    BY <2>1, SumFunctionEmpty
  <2> QED
    BY <2>2 DEF f
<1>9. SumFunction([id \in Done |-> Taken(id)])' = 0
  BY <1>6, <1>8
<1>10. ASSUME NEW a \in OrderIds, NEW b \in OrderIds
       PROVE  <<a, b>> \in Turns' <=>
                /\ a \in orders_map /\ b \in orders_map \cup {o.id}
                /\ IF b = o.id THEN orders[a].side = o.side /\ orders[a].price = o.price
                               ELSE <<a, b>> \in atRest.older
  <2>1. SideOK(bids, "Buy", orders_map, orders) /\ SideOK(asks, "Sell", orders_map, orders)
    BY DEF Inv
  <2>2. <<a, b>> \in Turns' <=> InFrontIn(bids', a, b) \/ InFrontIn(asks', a, b)
    <3>1. LevelsOf(bids') /\ LevelsOf(asks')
      BY DEF Inv, SideOK
    <3> QED
      BY <3>1, TurnsAre DEF Turns, InTurn
  <2>3. /\ InFrontIn(bids, a, b) \/ InFrontIn(asks, a, b) <=> <<a, b>> \in atRest.older
        /\ <<a, b>> \in atRest.older => a \in orders_map /\ b \in orders_map
    BY <1>4, TurnsOfListed DEF RestOK, QueueOK
  <2>4. InFrontIn(bids', a, b) \/ InFrontIn(asks', a, b)
          <=> \/ <<a, b>> \in atRest.older
              \/ b = o.id /\ a \in orders_map /\ orders[a].side = o.side /\ orders[a].price = o.price
    <3>1. CASE o.side = "Buy"
      <4>1. bids' = PushBack(bids, o.price, o.id) /\ asks' = asks
        BY <3>1 DEF AddToLevel
      <4>2. InFrontIn(bids', a, b)
              <=> \/ InFrontIn(bids, a, b)
                  \/ b = o.id /\ a \in orders_map /\ orders[a].side = "Buy" /\ orders[a].price = o.price
        BY <1>2, <2>1, <4>1, PushJoinsAtTheBack
      <4> QED
        BY <2>3, <3>1, <4>1, <4>2
    <3>2. CASE o.side = "Sell"
      <4>1. asks' = PushBack(asks, o.price, o.id) /\ bids' = bids
        BY <3>2 DEF AddToLevel
      <4>2. InFrontIn(asks', a, b)
              <=> \/ InFrontIn(asks, a, b)
                  \/ b = o.id /\ a \in orders_map /\ orders[a].side = "Sell" /\ orders[a].price = o.price
        BY <1>2, <2>1, <4>1, PushJoinsAtTheBack
      <4> QED
        BY <2>3, <3>2, <4>1, <4>2
    <3> QED
      BY <1>1, <3>1, <3>2 DEF Side
  <2> QED
    BY <1>2, <2>2, <2>3, <2>4
<1>11. \A a \in orders_map : orders'[a] = orders[a]
  BY <1>2, <1>3, <1>4
<1>12. /\ order' \notin DOMAIN Came' /\ (Placed.initial \in Quantities)'
       /\ orders'[order'].id = order'
       /\ orders'[order'].type = "FillAndKill" => Crossing' # {}
  BY <1>2, <1>3, <1>4, <1>5, <1>7
<1>13. \A id \in DOMAIN Came' :
         orders'[id] = IF id \in Done' THEN [Came'[id] EXCEPT !.remaining = @ - Taken(id)'] ELSE Came'[id]
  BY <1>4, <1>6, <1>11
<1>14. \A id \in OrderIds \ {order'} :
         id \in orders_map' <=> id \in DOMAIN Came' /\ (id \in Done' => Taken(id)' < Came'[id].remaining)
  BY <1>2, <1>4, <1>6
<1>15. orders'[order'].remaining = Placed'.initial - SumFunction([id \in Done |-> Taken(id)])'
  BY <1>1, <1>2, <1>3, <1>5, <1>9
<1>16. \A a, b \in OrderIds :
         <<a, b>> \in Turns' <=>
           /\ a \in orders_map' \ {order'} /\ b \in orders_map'
           /\ IF b = order' THEN orders'[a].side = orders'[b].side /\ orders'[a].price = orders'[b].price
                            ELSE <<a, b>> \in atRest'.older
  <2> SUFFICES ASSUME NEW a \in OrderIds, NEW b \in OrderIds
               PROVE  <<a, b>> \in Turns' <=>
                        /\ a \in orders_map' \ {order'} /\ b \in orders_map'
                        /\ IF b = order'
                             THEN orders'[a].side = orders'[b].side /\ orders'[a].price = orders'[b].price
                             ELSE <<a, b>> \in atRest'.older
    OBVIOUS
  <2>1. atRest'.older = atRest.older /\ order' = o.id /\ orders'[o.id] = o
    BY <1>2, <1>3
  <2>2. orders_map' = orders_map \cup {o.id} /\ orders_map' \ {order'} = orders_map
    BY <1>2
  <2> QED
    BY <1>10, <1>11, <2>1, <2>2
<1>17. order' \in orders_map' /\ trades' = << >>
  BY <1>2
<1> QED
  BY <1>6, <1>12, <1>13, <1>14, <1>15, <1>16, <1>17 DEF CallOK

-----------------------------------------------------------------------------
(* Back at rest *)

\* An order that is cancelled leaves the others in their turn.
LEMMA CancelKeepsOthersInTurn ==
  ASSUME Inv, NEW id \in orders_map, CancelOrderInternal(id)
  PROVE  \A a, b \in OrderIds : <<a, b>> \in Turns' <=> <<a, b>> \in Turns /\ a # id /\ b # id
<1>1. /\ SideOK(bids, "Buy", orders_map, orders) /\ SideOK(asks, "Sell", orders_map, orders)
      /\ orders[id].side \in Side
  BY DEF Inv, TypeOK, Order
<1>2. SideOK(bids', "Buy", orders_map', orders) /\ SideOK(asks', "Sell", orders_map', orders)
  BY CancelKeepsSides
<1>3. LevelsOf(bids') /\ LevelsOf(asks')
  BY <1>2 DEF SideOK
<1>4. \A a, b \in OrderIds : <<a, b>> \in Turns' <=> InFrontIn(bids', a, b) \/ InFrontIn(asks', a, b)
  BY <1>3, TurnsAre DEF Turns, InTurn
<1> DEFINE price == orders[id].price
<1>5. CASE orders[id].side = "Buy"
  <2> DEFINE i == Location(bids[price], id)
  <2>1. price \in DOMAIN bids /\ \E j \in 1 .. Len(bids[price]) : bids[price][j] = id
    BY <1>1, <1>5 DEF SideOK
  <2>2. bids[price] \in Seq(OrderIds)
    BY <2>1 DEF Inv, TypeOK
  <2>3. i \in 1 .. Len(bids[price]) /\ bids[price][i] = id
    BY <2>1, <2>2 DEF Location
  <2>4. bids' = EraseAt(bids, price, i) /\ asks' = asks
    BY <1>5 DEF CancelOrderInternal
  <2> HIDE DEF i, price
  <2>5. \A a, b : InFrontIn(bids', a, b) <=> InFrontIn(bids, a, b) /\ a # id /\ b # id
    BY <1>1, <2>1, <2>3, <2>4, EraseKeepsOthersInTurn
  <2>6. \A a, b : InFrontIn(asks, a, b) => a # id /\ b # id
    BY <1>5, TurnsOfListed
  <2> QED
    BY <1>4, <2>4, <2>5, <2>6, TurnsOfListed
<1>6. CASE orders[id].side = "Sell"
  <2> DEFINE i == Location(asks[price], id)
  <2>1. price \in DOMAIN asks /\ \E j \in 1 .. Len(asks[price]) : asks[price][j] = id
    BY <1>1, <1>6 DEF SideOK
  <2>2. asks[price] \in Seq(OrderIds)
    BY <2>1 DEF Inv, TypeOK
  <2>3. i \in 1 .. Len(asks[price]) /\ asks[price][i] = id
    BY <2>1, <2>2 DEF Location
  <2>4. asks' = EraseAt(asks, price, i) /\ bids' = bids
    BY <1>6 DEF CancelOrderInternal
  <2> HIDE DEF i, price
  <2>5. \A a, b : InFrontIn(asks', a, b) <=> InFrontIn(asks, a, b) /\ a # id /\ b # id
    BY <1>1, <2>1, <2>3, <2>4, EraseKeepsOthersInTurn
  <2>6. \A a, b : InFrontIn(bids, a, b) => a # id /\ b # id
    BY <1>6, TurnsOfListed
  <2> QED
    BY <1>4, <2>4, <2>5, <2>6, TurnsOfListed
<1> QED
  BY <1>1, <1>5, <1>6 DEF Side

\* The orders that are alive between calls are those of the index.
Tidy ==
  /\ IsFiniteSet(orders_map)
  /\ \A id \in OrderIds : id \in orders_map <=> orders[id] # Null

\* The book at rest is a queue for every side and price, and the abstract one is
\* the same.
LEMMA AbstractionRests ==
  Inv /\ Tidy /\ atRest = Abstraction => QueueOK /\ RestOK
<1> SUFFICES ASSUME Inv, Tidy, atRest = Abstraction PROVE QueueOK /\ RestOK
  OBVIOUS
<1>1. /\ orders_map \subseteq OrderIds /\ IsFiniteSet(orders_map)
      /\ \A id \in orders_map : orders[id] \in Order
      /\ SideOK(bids, "Buy", orders_map, orders) /\ SideOK(asks, "Sell", orders_map, orders)
      /\ DOMAIN orders = OrderIds
  BY DEF Inv, TypeOK, Tidy
<1>2. /\ Came = [id \in {x \in OrderIds : orders[x] # Null} |-> orders[id]]
      /\ atRest.older = Turns
  BY <1>1 DEF Came, Abstraction, Restrict, Turns
<1>3. {x \in OrderIds : orders[x] # Null} = orders_map
  BY <1>1 DEF Tidy
<1>4. /\ DOMAIN Came = orders_map /\ \A id \in orders_map : Came[id] = orders[id]
      /\ Came \in [DOMAIN Came -> Order]
  BY <1>1, <1>2, <1>3
<1>5. \A id \in orders_map : orders[id].id = id /\ orders[id].side \in Side
  <2> SUFFICES ASSUME NEW id \in orders_map PROVE orders[id].id = id /\ orders[id].side \in Side
    OBVIOUS
  <2>1. orders[id].side \in Side
    BY <1>1 DEF Order
  <2>2. CASE orders[id].side = "Buy"
    <3>1. /\ orders[id].price \in DOMAIN bids
          /\ \E i \in 1 .. Len(bids[orders[id].price]) : bids[orders[id].price][i] = id
      BY <1>1, <2>2 DEF SideOK
    <3> QED
      BY <1>1, <2>1, <3>1 DEF SideOK
  <2>3. CASE orders[id].side = "Sell"
    <3>1. /\ orders[id].price \in DOMAIN asks
          /\ \E i \in 1 .. Len(asks[orders[id].price]) : asks[orders[id].price][i] = id
      BY <1>1, <2>3 DEF SideOK
    <3> QED
      BY <1>1, <2>1, <3>1 DEF SideOK
  <2> QED
    BY <2>1, <2>2, <2>3 DEF Side
<1>6. Turns \subseteq orders_map \X orders_map
  <2>1. Turns \subseteq OrderIds \X OrderIds
    BY DEF Turns, InTurn
  <2>2. \A x, y \in OrderIds : <<x, y>> \in Turns => x \in orders_map /\ y \in orders_map
    BY TurnsOfListed
  <2> QED
    BY <2>1, <2>2
<1>7. \A a, b \in orders_map :
        <<a, b>> \in Turns <=> InFrontIn(bids, a, b) \/ InFrontIn(asks, a, b)
  BY <1>1, TurnsOfListed
<1>8. \A a, b \in orders_map : <<a, b>> \in Turns =>
        orders[a].side = orders[b].side /\ orders[a].price = orders[b].price
  <2>1. \A a, b : InFrontIn(bids, a, b) =>
          orders[a].side = orders[b].side /\ orders[a].price = orders[b].price
    BY <1>1, SideIsQueue
  <2>2. \A a, b : InFrontIn(asks, a, b) =>
          orders[a].side = orders[b].side /\ orders[a].price = orders[b].price
    BY <1>1, SideIsQueue
  <2> QED
    BY <1>7, <2>1, <2>2
<1>9. \A a \in orders_map : <<a, a>> \notin Turns
  <2>1. \A a : ~InFrontIn(bids, a, a)
    BY <1>1, SideIsQueue
  <2>2. \A a : ~InFrontIn(asks, a, a)
    BY <1>1, SideIsQueue
  <2> QED
    BY <1>7, <2>1, <2>2
<1>10. ASSUME NEW a \in orders_map, NEW b \in orders_map, NEW c \in orders_map,
              <<a, b>> \in Turns, <<b, c>> \in Turns
       PROVE  <<a, c>> \in Turns
  <2>1. /\ InFrontIn(bids, a, b) \/ InFrontIn(asks, a, b)
        /\ InFrontIn(bids, b, c) \/ InFrontIn(asks, b, c)
    BY <1>7, <1>10
  <2>2. InFrontIn(bids, a, b) /\ InFrontIn(bids, b, c) => InFrontIn(bids, a, c)
    BY <1>1, SideIsQueue
  <2>3. InFrontIn(asks, a, b) /\ InFrontIn(asks, b, c) => InFrontIn(asks, a, c)
    BY <1>1, SideIsQueue
  <2>4. /\ ~(InFrontIn(bids, a, b) /\ InFrontIn(asks, b, c))
        /\ ~(InFrontIn(asks, a, b) /\ InFrontIn(bids, b, c))
    BY TurnsOfListed
  <2> QED
    BY <1>7, <2>1, <2>2, <2>3, <2>4
<1>11. ASSUME NEW a \in orders_map, NEW b \in orders_map, a # b,
              orders[a].side = orders[b].side, orders[a].price = orders[b].price
       PROVE  <<a, b>> \in Turns \/ <<b, a>> \in Turns
  <2>1. CASE orders[a].side = "Buy"
    <3>1. SideOK(bids, "Buy", orders_map, orders) /\ orders[b].side = "Buy"
      BY <1>1, <1>11, <2>1
    <3>2. InFrontIn(bids, a, b) \/ InFrontIn(bids, b, a)
      BY <1>11, <2>1, <3>1, PeersInLine
    <3> QED
      BY <1>7, <3>2
  <2>2. CASE orders[a].side = "Sell"
    <3>1. SideOK(asks, "Sell", orders_map, orders) /\ orders[b].side = "Sell"
      BY <1>1, <1>11, <2>2
    <3>2. InFrontIn(asks, a, b) \/ InFrontIn(asks, b, a)
      BY <1>11, <2>2, <3>1, PeersInLine
    <3> QED
      BY <1>7, <3>2
  <2> QED
    BY <1>5, <2>1, <2>2 DEF Side
<1>12. RestOK
  BY <1>2, <1>3, <1>4, <1>1 DEF RestOK
<1>13. QueueOK
  <2>1. \A id \in DOMAIN Came : Came[id].id = id
    BY <1>4, <1>5
  <2>2. /\ atRest.older \subseteq (DOMAIN Came) \X (DOMAIN Came)
        /\ \A a, b \in DOMAIN Came :
             <<a, b>> \in atRest.older => Came[a].side = Came[b].side /\ Came[a].price = Came[b].price
        /\ \A a \in DOMAIN Came : <<a, a>> \notin atRest.older
    BY <1>2, <1>4, <1>6, <1>8, <1>9
  <2>3. \A a, b, c \in DOMAIN Came :
          <<a, b>> \in atRest.older /\ <<b, c>> \in atRest.older => <<a, c>> \in atRest.older
    BY <1>2, <1>4, <1>10
  <2>4. \A a, b \in DOMAIN Came :
          a # b /\ Came[a].side = Came[b].side /\ Came[a].price = Came[b].price
            => <<a, b>> \in atRest.older \/ <<b, a>> \in atRest.older
    <3>1. \A a, b \in orders_map :
            a # b /\ orders[a].side = orders[b].side /\ orders[a].price = orders[b].price
              => <<a, b>> \in Turns \/ <<b, a>> \in Turns
      BY <1>11
    <3> QED
      BY <1>2, <1>4, <3>1
  <2>5. DOMAIN Came \subseteq OrderIds /\ IsFiniteSet(DOMAIN Came)
    BY <1>1, <1>4
  <2> QED
    BY <1>4, <2>1, <2>2, <2>3, <2>4, <2>5 DEF QueueOK
<1> QED
  BY <1>12, <1>13

-----------------------------------------------------------------------------
(* A step that answers AddOrder is the contract's Add *)

\* What the contract says of an order, part by part.
Shares(o, crossed, left, taken, hit, kept, rest) ==
  /\ crossed = Contract!Crossed(o)
  /\ left = [id \in crossed |->
               o.initial - Contract!Available({a \in crossed : Contract!Ahead(a, id)})]
  /\ taken = [id \in crossed |-> Contract!Share(left[id], id)]
  /\ hit = {id \in crossed : {a \in crossed : Contract!Ahead(a, id)} = {} \/ left[id] > 0}
  /\ kept = {id \in DOMAIN Came : id \in hit => taken[id] < Came[id].remaining}
  /\ rest = o.initial - SumFunction(taken)

\* Those that are hit, in turn.
TurnOf(crossed, hit, nth) ==
  \A n \in 1 .. Cardinality(hit) :
    /\ nth[n] \in hit /\ Cardinality({a \in crossed : Contract!Ahead(a, nth[n])}) = n - 1
    /\ \A id \in hit : Cardinality({a \in crossed : Contract!Ahead(a, id)}) = n - 1 => id = nth[n]

\* The book and the answer it leads to.
Answered(o, taken, hit, kept, rest, nth) ==
  LET after == [o EXCEPT !.remaining = rest]
      stays == (after.remaining > 0 \/ hit = {}) /\ o.type = "GoodTillCancel"
      peers == {id \in kept : Came[id].side = o.side /\ Came[id].price = o.price}
  IN  /\ o.id \notin DOMAIN Came
      /\ atRest'.resting =
           [id \in kept \cup (IF stays THEN {o.id} ELSE {}) |->
              IF id = o.id THEN after
              ELSE IF id \in hit THEN [Came[id] EXCEPT !.remaining = @ - taken[id]]
              ELSE Came[id]]
      /\ atRest'.older =
           (atRest.older \cap (kept \X kept)) \cup (IF stays THEN peers \X {o.id} ELSE {})
      /\ reply' = AddReply([n \in 1 .. Cardinality(hit) |->
                              Contract!TradeOf(o, nth[n], taken[nth[n]])], after)

\* A step that does all that adds the order to the abstract book.
LEMMA AddsUp ==
  ASSUME NEW o, NEW crossed, NEW left, NEW taken, NEW hit, NEW kept, NEW rest, NEW nth,
         Shares(o, crossed, left, taken, hit, kept, rest), TurnOf(crossed, hit, nth),
         Answered(o, taken, hit, kept, rest, nth)
  PROVE  Contract!Add(o)
<1> DEFINE Crossed == Contract!Crossed(o)
           ahead == [id \in Crossed |-> {a \in Crossed : Contract!Ahead(a, id)}]
           Left0 == [id \in Crossed |-> o.initial - Contract!Available(ahead[id])]
           Taken0 == [id \in Crossed |-> Contract!Share(Left0[id], id)]
           Hit == {id \in Crossed : ahead[id] = {} \/ Left0[id] > 0}
           Kept == {id \in DOMAIN atRest.resting : id \in Hit => Taken0[id] < atRest.resting[id].remaining}
           after == [o EXCEPT !.remaining = o.initial - Contract!SumFunction(Taken0)]
           stays == (after.remaining > 0 \/ Hit = {}) /\ o.type = "GoodTillCancel"
           peers == {id \in Kept : atRest.resting[id].side = o.side /\ atRest.resting[id].price = o.price}
           turn(n) == CHOOSE id \in Hit : Cardinality(ahead[id]) = n - 1
<1>1. crossed = Crossed /\ left = Left0
  BY DEF Shares
<1>2. taken = Taken0
  BY <1>1 DEF Shares
<1>3. hit = Hit
  BY <1>1 DEF Shares
<1>4. kept = Kept
  BY <1>2, <1>3 DEF Shares, Came
<1>5. rest = o.initial - Contract!SumFunction(Taken0)
  BY <1>2, ContractSums DEF Shares
<1>6. ASSUME NEW n \in 1 .. Cardinality(Hit) PROVE turn(n) = nth[n]
  <2>1. \A id \in Hit : ahead[id] = {a \in Crossed : Contract!Ahead(a, id)}
    OBVIOUS
  <2> HIDE DEF Hit, Crossed, ahead
  <2>2. /\ nth[n] \in Hit /\ Cardinality(ahead[nth[n]]) = n - 1
        /\ \A id \in Hit : Cardinality(ahead[id]) = n - 1 => id = nth[n]
    BY <1>1, <1>3, <2>1 DEF TurnOf
  <2> QED
    BY <2>2
<1> HIDE DEF Crossed, ahead, Left0, Taken0, Hit, Kept, turn
<1>7. [n \in 1 .. Cardinality(Hit) |-> Contract!TradeOf(o, turn(n), Taken0[turn(n)])]
        = [n \in 1 .. Cardinality(Hit) |-> Contract!TradeOf(o, nth[n], Taken0[nth[n]])]
  BY <1>6
<1>8. Answered(o, Taken0, Hit, Kept, o.initial - Contract!SumFunction(Taken0), nth)
  BY <1>2, <1>3, <1>4, <1>5
<1>9. /\ o.id \notin DOMAIN atRest.resting
      /\ atRest'.resting =
           [id \in Kept \cup (IF stays THEN {o.id} ELSE {}) |->
              IF id = o.id THEN after
              ELSE IF id \in Hit THEN [atRest.resting[id] EXCEPT !.remaining = @ - Taken0[id]]
              ELSE atRest.resting[id]]
      /\ atRest'.older =
           (atRest.older \cap (Kept \X Kept)) \cup (IF stays THEN peers \X {o.id} ELSE {})
      /\ reply' = [call   |-> "AddOrder",
                   trades |-> [n \in 1 .. Cardinality(Hit) |->
                                 Contract!TradeOf(o, turn(n), Taken0[turn(n)])],
                   order  |-> after]
  BY <1>7, <1>8 DEF Answered, AddReply, Came
<1> QED
  BY <1>9 DEF Contract!Add, Cardinality, Contract!Cardinality,
              Crossed, ahead, Left0, Taken0, Hit, Kept, turn

\* An order that is turned away leaves the abstract book as it was, with itself
\* as the answer.
LEMMA KilledAdds ==
  ASSUME Inv, QueueOK, RestOK, NEW o \in Order, o.remaining = o.initial,
         AddKilled(o), UNCHANGED atRest
  PROVE  Contract!Add(o)
<1>1. /\ o.id \notin DOMAIN Came /\ o.type = "FillAndKill" /\ ~CanMatch(o.side, o.price)
      /\ reply' = AddReply(<< >>, o)
  BY DEF AddKilled, RestOK
<1>2. o.side \in Side /\ o.price \in Int /\ o.initial \in Nat
  BY BookAssumption DEF Order, Word
<1>3. Contract!Crossed(o) = {}
  <2> SUFFICES ASSUME NEW id \in Contract!Crossed(o) PROVE FALSE
    OBVIOUS
  <2>1. /\ id \in orders_map /\ orders[id] \in Order /\ orders[id].side # o.side
        /\ IF o.side = "Buy" THEN orders[id].price <= o.price ELSE orders[id].price >= o.price
    BY DEF Contract!Crossed, RestOK, Came, Inv, TypeOK
  <2>2. orders[id].side \in Side /\ DOMAIN asks \subseteq Word /\ DOMAIN bids \subseteq Word
        /\ Word \subseteq Nat
    BY <2>1, BookAssumption DEF Order, Inv, TypeOK, Word
  <2>3. CASE o.side = "Buy"
    <3>1. orders[id].side = "Sell"
      BY <2>1, <2>2, <2>3 DEF Side
    <3>2. orders[id].price \in DOMAIN asks
      BY <2>1, <3>1 DEF Inv, SideOK
    <3>3. PICK a \in DOMAIN asks : \A p \in DOMAIN asks : a <= p
      BY <2>2, <3>2, LeastExists
    <3>4. o.price >= a
      <4>1. orders[id].price <= o.price /\ a <= orders[id].price
        BY <2>1, <2>3, <3>2, <3>3
      <4>2. \A p \in DOMAIN asks : p \in Int
        BY BookAssumption DEF Inv, TypeOK, Word
      <4> QED
        BY <1>2, <3>2, <4>1, <4>2
    <3> QED
      BY <1>1, <2>3, <3>3, <3>4 DEF CanMatch, BestAsk
  <2>4. CASE o.side = "Sell"
    <3>1. orders[id].side = "Buy"
      BY <2>1, <2>2, <2>4 DEF Side
    <3>2. orders[id].price \in DOMAIN bids
      BY <2>1, <3>1 DEF Inv, SideOK
    <3>3. PICK b \in DOMAIN bids : \A p \in DOMAIN bids : p <= b
      BY <2>2, <3>2, GreatestExists
    <3>4. o.price <= b
      <4>1. orders[id].price >= o.price /\ orders[id].price <= b
        BY <2>1, <2>4, <3>2, <3>3
      <4>2. \A p \in DOMAIN bids : p \in Int
        BY BookAssumption DEF Inv, TypeOK, Word
      <4> QED
        BY <1>2, <3>2, <4>1, <4>2
    <3> QED
      BY <1>1, <2>4, <3>3, <3>4 DEF CanMatch, BestBid
  <2> QED
    BY <1>2, <2>3, <2>4 DEF Side
<1> DEFINE none == [id \in {} |-> 0]
<1>4. SumFunction(none) = 0 /\ Cardinality({}) = 0
  <2>1. DOMAIN none = {}
    OBVIOUS
  <2> HIDE DEF none
  <2> QED
    BY <2>1, SumFunctionEmpty, FS_EmptySet
<1>5. Shares(o, {}, none, none, {}, DOMAIN Came, o.initial)
  <2> DEFINE left == [id \in {} |->
                o.initial - Contract!Available({a \in {} : Contract!Ahead(a, id)})]
             taken == [id \in {} |-> Contract!Share(none[id], id)]
  <2>1. none = left /\ none = taken
    OBVIOUS
  <2>2. o.initial = o.initial - SumFunction(none)
    BY <1>2, <1>4
  <2>3. {} = {id \in {} : {a \in {} : Contract!Ahead(a, id)} = {} \/ none[id] > 0}
    OBVIOUS
  <2>4. DOMAIN Came = {id \in DOMAIN Came : id \in {} => none[id] < Came[id].remaining}
    OBVIOUS
  <2> HIDE DEF none
  <2> QED
    BY <1>3, <2>1, <2>2, <2>3, <2>4 DEF Shares
<1>6. TurnOf({}, {}, none)
  BY <1>4 DEF TurnOf
<1>7. [o EXCEPT !.remaining = o.initial] = o
  BY DEF Order
<1>8. /\ Came = [id \in DOMAIN Came |-> Came[id]]
      /\ atRest.older = atRest.older \cap ((DOMAIN Came) \X (DOMAIN Came))
  BY DEF QueueOK
<1>9. reply' = AddReply([n \in 1 .. Cardinality({}) |->
                           Contract!TradeOf(o, none[n], none[none[n]])], o)
  BY <1>1, <1>4
<1> HIDE DEF none
<1>10. /\ atRest'.resting = [id \in (DOMAIN Came) \cup {} |->
                               IF id = o.id THEN o
                               ELSE IF id \in {} THEN [Came[id] EXCEPT !.remaining = @ - none[id]]
                               ELSE Came[id]]
       /\ atRest'.older = (atRest.older \cap ((DOMAIN Came) \X (DOMAIN Came))) \cup {}
  BY <1>1, <1>8 DEF Came
<1>11. Answered(o, none, {}, DOMAIN Came, o.initial, none)
  BY <1>1, <1>7, <1>9, <1>10 DEF Answered
<1> QED
  BY <1>5, <1>6, <1>11, AddsUp


\* When the loop ends it has traded with exactly those the contract hits, and
\* what is left of the order of the call is what the contract leaves.
LEMMA DoneAreHit ==
  ASSUME Inv, ~Idle, QueueOK, CallOK, MatchingDone
  PROVE  /\ Done = {id \in Crossing : InFront(id) = {} \/ Left(id) > 0}
         /\ orders[order].remaining
              = Placed.initial - SumFunction([id \in Crossing |-> Taken(id)])
         /\ order \in orders_map => Crossing \subseteq Done
<1>1. /\ Placed.side \in Side /\ Placed.side = orders[order].side
      /\ Placed.price = orders[order].price /\ Placed.price \in Int
      /\ Placed.initial \in Nat
  BY PlacedIs
<1>2. /\ Done \subseteq Crossing /\ IsFiniteSet(Done)
      /\ Done = {} <=> trades = << >>
      /\ \A id \in Done : InFront(id) \subseteq Done /\ (InFront(id) = {} \/ Left(id) > 0)
  BY DoneInTurn DEF CallOK
<1>3. /\ Crossing \subseteq DOMAIN Came /\ IsFiniteSet(Crossing)
      /\ DOMAIN Came \subseteq OrderIds /\ order \notin DOMAIN Came
      /\ \A id \in Crossing : Came[id].side # Placed.side
  BY <1>1, CrossingIsOneSide DEF QueueOK, CallOK
<1>4. ASSUME order \in orders_map, NEW id \in Crossing, id \notin Done PROVE FALSE
  <2>1. id \in orders_map
    BY <1>3, <1>4 DEF CallOK
  <2>2. /\ orders[id].side = Came[id].side /\ orders[id].price = Came[id].price
        /\ Came[id].side \in Side /\ Came[id].price \in Int
    BY <1>3, StillTheSame, CameTyped
  <2>3. IF Placed.side = "Buy" THEN Came[id].price <= Placed.price ELSE Came[id].price >= Placed.price
    BY DEF Crossing, Contract!Crossed, Came
  <2>4. CASE Placed.side = "Buy"
    <3>1. orders[order].side = "Buy" /\ orders[id].side = "Sell"
      BY <1>1, <1>3, <2>2, <2>4 DEF Side
    <3>2. orders[order].price < orders[id].price
      BY <1>4, <2>1, <3>1, DoneIsBelow
    <3> QED
      BY <1>1, <2>2, <2>3, <2>4, <3>2
  <2>5. CASE Placed.side = "Sell"
    <3>1. orders[order].side = "Sell" /\ orders[id].side = "Buy"
      BY <1>1, <1>3, <2>2, <2>5 DEF Side
    <3>2. orders[id].price < orders[order].price
      BY <1>4, <2>1, <3>1, DoneIsBelow
    <3> QED
      BY <1>1, <2>2, <2>3, <2>5, <3>2
  <2> QED
    BY <1>1, <2>4, <2>5 DEF Side
<1> DEFINE f == [id \in Done |-> Taken(id)]
           g == [id \in Crossing |-> Taken(id)]
<1>5. ASSUME order \notin orders_map, NEW id \in Crossing, id \notin Done
      PROVE  InFront(id) # {} /\ Left(id) <= 0
  <2>1. trades # << >> /\ Placed.initial - SumFunction(f) = 0
    BY <1>5 DEF CallOK
  <2>2. Done \subseteq InFront(id)
    <3> SUFFICES ASSUME NEW a \in Done PROVE a \in InFront(id)
      OBVIOUS
    <3>1. Contract!Ahead(a, id) \/ Contract!Ahead(id, a)
      BY <1>1, <1>2, <1>5, CrossingIsQueue
    <3>2. Contract!Ahead(id, a) => id \in InFront(a)
      BY DEF InFront
    <3> QED
      BY <1>2, <1>5, <3>1, <3>2 DEF InFront
  <2> DEFINE has == [x \in InFront(id) |-> Came[x].remaining]
             had == [x \in Done |-> Came[x].remaining]
  <2>3. /\ IsFiniteSet(DOMAIN has) /\ IsFiniteSet(DOMAIN had) /\ DOMAIN f = DOMAIN had
        /\ DOMAIN had \subseteq DOMAIN has /\ \A x \in DOMAIN had : had[x] = has[x]
        /\ \A x \in DOMAIN has : has[x] \in Nat
        /\ \A x \in DOMAIN had : f[x] \in Int /\ had[x] \in Int /\ f[x] <= had[x]
    <3>1. InFront(id) \subseteq Crossing
      BY DEF InFront
    <3>2. \A x \in Crossing : Came[x].remaining \in Nat /\ Taken(x) \in Nat
                              /\ Taken(x) <= Came[x].remaining
      BY <1>1, TakenFits
    <3>3. IsFiniteSet(InFront(id))
      BY <1>3, <3>1, FS_Subset
    <3> QED
      BY <1>2, <2>2, <3>1, <3>2, <3>3
  <2>4. SumFunction(has) = Contract!Available(InFront(id))
    BY ContractSums DEF Contract!Available, Came
  <2>5. \A x \in DOMAIN f : f[x] \in Nat
    BY <1>1, <1>2, TakenFits
  <2> HIDE DEF f, has, had
  <2>6. SumFunction(f) <= SumFunction(had)
    BY <2>3, SumFunctionAtMost
  <2>7. SumFunction(had) <= SumFunction(has) /\ SumFunction(had) \in Nat /\ SumFunction(has) \in Nat
    BY <2>3, SumFunctionFewer
  <2>8. SumFunction(f) \in Nat
    BY <2>3, <2>5, SumFunctionIsNat
  <2>9. Left(id) = Placed.initial - SumFunction(has)
    BY <2>4 DEF Left
  <2> QED
    BY <1>1, <1>2, <2>1, <2>2, <2>6, <2>7, <2>8, <2>9
<1>6. Done = {id \in Crossing : InFront(id) = {} \/ Left(id) > 0}
  <2>1. \A id \in Crossing : id \notin Done => InFront(id) # {} /\ ~(Left(id) > 0)
    <3> SUFFICES ASSUME NEW id \in Crossing, id \notin Done
                 PROVE  InFront(id) # {} /\ ~(Left(id) > 0)
      OBVIOUS
    <3>1. order \notin orders_map
      BY <1>4
    <3>2. InFront(id) # {} /\ Left(id) <= 0
      BY <1>5, <3>1
    <3>3. Left(id) \in Int
      BY <1>1, TakenFits
    <3> QED
      BY <3>2, <3>3
  <2> QED
    BY <1>2, <2>1
<1>7. SumFunction(g) = SumFunction(f)
  <2>1. /\ IsFiniteSet(DOMAIN g) /\ DOMAIN f \subseteq DOMAIN g
        /\ \A x \in DOMAIN g : g[x] \in Int
        /\ \A x \in DOMAIN f : f[x] = g[x]
    BY <1>1, <1>2, <1>3, TakenFits
  <2>2. ASSUME NEW x \in (DOMAIN g) \ DOMAIN f PROVE g[x] = 0
    <3>1. x \in Crossing /\ x \notin Done
      OBVIOUS
    <3>2. Left(x) <= 0
      BY <1>4, <1>5, <3>1
    <3> QED
      BY <1>1, <3>1, <3>2, TakenFits
  <2> HIDE DEF f, g
  <2> QED
    BY <2>1, <2>2, SumFunctionIgnoresZeros
<1>8. orders[order].remaining = Placed.initial - SumFunction(f)
  BY DEF CallOK
<1> QED
  BY <1>4, <1>6, <1>7, <1>8

\* What Return leaves of the levels, the index and the orders.
LEMMA ReturnLeaves ==
  ASSUME Inv, ~Idle, CallOK, Return
  PROVE  LET killed == orders[order].type = "FillAndKill" /\ orders[order].remaining # 0
                         /\ order \in orders_map
         IN  /\ orders_map' = IF killed THEN orders_map \ {order} ELSE orders_map
             /\ \A a, b \in OrderIds :
                  <<a, b>> \in Turns'
                    <=> <<a, b>> \in Turns /\ (killed => a # order /\ b # order)
             /\ orders' = [id \in OrderIds |-> IF id \in orders_map' THEN orders[id] ELSE Null]
             /\ reply' = AddReply(trades, orders[order])
<1>1. orders' = [id \in OrderIds |-> IF id \in orders_map' THEN orders[id] ELSE Null]
  BY DEF Return, ExpireOrders
<1>2. CASE MustKill(orders[order]) /\ order \in orders_map
  <2>1. CancelOrderInternal(order)
    BY <1>2 DEF Return
  <2>2. orders_map' = orders_map \ {order}
    BY <2>1 DEF CancelOrderInternal
  <2>3. \A a, b \in OrderIds : <<a, b>> \in Turns' <=> <<a, b>> \in Turns /\ a # order /\ b # order
    BY <1>2, <2>1, CancelKeepsOthersInTurn
  <2> QED
    BY <1>1, <1>2, <2>2, <2>3 DEF Return, MustKill, IsFilled
<1>3. CASE ~(MustKill(orders[order]) /\ order \in orders_map)
  <2>1. UNCHANGED <<bids, asks, orders_map>>
    BY <1>3 DEF Return
  <2>2. Turns' = Turns
    BY <2>1 DEF Turns, InTurn
  <2> QED
    BY <1>1, <1>3, <2>1, <2>2 DEF Return, MustKill, IsFilled
<1> QED
  BY <1>2, <1>3

\* The step that returns from AddOrder adds the order to the abstract book.
LEMMA ReturnAdds ==
  ASSUME Inv, Inv', ~Idle, QueueOK, CallOK, Return, atRest' = Abstraction'
  PROVE  Contract!Add(Placed) /\ Tidy'
<1> DEFINE after == [Placed EXCEPT !.remaining = orders[order].remaining]
           taken == [id \in Crossing |-> Taken(id)]
           left  == [id \in Crossing |-> Left(id)]
           kept  == {id \in DOMAIN Came : id \in Done => taken[id] < Came[id].remaining}
           nth   == [n \in DOMAIN trades |-> Partner(trades[n])]
           stays == (after.remaining > 0 \/ Done = {}) /\ Placed.type = "GoodTillCancel"
           peers == {id \in kept : Came[id].side = Placed.side /\ Came[id].price = Placed.price}
           killed == orders[order].type = "FillAndKill" /\ orders[order].remaining # 0
                       /\ order \in orders_map
           extra == IF stays THEN {order} ELSE {}
<1>1. /\ order \in OrderIds /\ orders[order] \in Order
      /\ Placed.side = orders[order].side /\ Placed.price = orders[order].price
      /\ Placed.type = orders[order].type /\ Placed.id = order
      /\ orders[order].remaining \in Nat /\ Placed.side \in Side /\ Placed.initial \in Nat
  BY PlacedIs DEF CallOK
<1>2. /\ Done \subseteq Crossing /\ IsFiniteSet(Done) /\ Cardinality(Done) = Len(trades)
      /\ Done = {} <=> trades = << >>
      /\ \A id \in Done : InFront(id) \subseteq Done
  BY DoneInTurn DEF CallOK
<1>3. /\ Done = {id \in Crossing : InFront(id) = {} \/ Left(id) > 0}
      /\ orders[order].remaining = Placed.initial - SumFunction([id \in Crossing |-> Taken(id)])
      /\ order \in orders_map => Crossing \subseteq Done
  BY DoneAreHit DEF Return
<1>4. /\ Crossing \subseteq DOMAIN Came /\ DOMAIN Came \subseteq OrderIds
      /\ order \notin DOMAIN Came /\ IsFiniteSet(DOMAIN Came)
  BY <1>1, CrossingIsOneSide DEF QueueOK, CallOK
<1>5. /\ orders_map' = IF killed THEN orders_map \ {order} ELSE orders_map
      /\ \A a, b \in OrderIds :
           <<a, b>> \in Turns' <=> <<a, b>> \in Turns /\ (killed => a # order /\ b # order)
      /\ orders' = [id \in OrderIds |-> IF id \in orders_map' THEN orders[id] ELSE Null]
      /\ reply' = AddReply(trades, orders[order])
  BY ReturnLeaves
<1>6. after = orders[order] /\ after.remaining = orders[order].remaining
  BY <1>1 DEF Placed, Order
<1>7. Shares(Placed, Crossing, left, taken, Done, kept, orders[order].remaining)
  <2>1. left = [id \in Crossing |-> Placed.initial
                  - Contract!Available({a \in Crossing : Contract!Ahead(a, id)})]
    BY DEF Left, InFront
  <2>2. taken = [id \in Crossing |-> Contract!Share(left[id], id)]
    BY DEF Taken
  <2>3. Done = {id \in Crossing : {a \in Crossing : Contract!Ahead(a, id)} = {} \/ left[id] > 0}
    <3>1. \A id \in Crossing : left[id] = Left(id)
      OBVIOUS
    <3> QED
      BY <1>3, <3>1 DEF InFront
  <2>4. Crossing = Contract!Crossed(Placed)
    BY DEF Crossing
  <2>5. orders[order].remaining = Placed.initial - SumFunction(taken)
    BY <1>3
  <2> HIDE DEF left, taken
  <2> QED
    BY <2>1, <2>2, <2>3, <2>4, <2>5 DEF Shares
<1>8. TurnOf(Crossing, Done, nth)
  <2>1. /\ DOMAIN trades = 1 .. Len(trades) /\ Len(trades) \in Nat
    BY DEF Inv, TypeOK
  <2>2. \A n \in DOMAIN trades : /\ Partner(trades[n]) \in Done
                                 /\ Cardinality(InFront(Partner(trades[n]))) = n - 1
    BY DEF CallOK, TradesInTurn, Done
  <2>3. ASSUME NEW n \in DOMAIN trades, NEW id \in Done, Cardinality(InFront(id)) = n - 1
        PROVE  id = Partner(trades[n])
    <3>1. PICK m \in DOMAIN trades : id = Partner(trades[m])
      BY DEF Done
    <3>2. m - 1 = n - 1
      BY <2>2, <2>3, <3>1
    <3> QED
      BY <2>1, <3>1, <3>2
  <2> QED
    BY <1>2, <2>1, <2>2, <2>3 DEF TurnOf, InFront
<1>9. \A id \in Crossing : /\ taken[id] = Taken(id) /\ Taken(id) \in Nat
                           /\ Came[id].remaining \in Nat
  BY <1>1, TakenFits
<1>10. kept = orders_map \ {order}
  <2>1. kept = {id \in DOMAIN Came : id \in Done => Taken(id) < Came[id].remaining}
    BY <1>2, <1>9
  <2>2. orders_map \subseteq OrderIds
    BY DEF Inv, TypeOK
  <2> QED
    BY <1>4, <2>1, <2>2 DEF CallOK
<1>11. stays <=> order \in orders_map'
  <2>1. CASE order \notin orders_map
    <3>1. trades # << >> /\ orders[order].remaining = 0
      BY <2>1 DEF CallOK
    <3> QED
      BY <1>2, <1>5, <1>6, <2>1, <3>1
  <2>2. CASE order \in orders_map
    <3>1. orders[order].remaining > 0 \/ trades = << >>
      BY <2>2 DEF CallOK
    <3>2. Placed.type \in OrderType
      BY <1>1 DEF Order
    <3>3. CASE Placed.type = "GoodTillCancel"
      BY <1>1, <1>2, <1>5, <1>6, <2>2, <3>1, <3>3
    <3>4. CASE Placed.type = "FillAndKill"
      <4>1. Crossing # {}
        BY <1>1, <3>4 DEF CallOK
      <4>2. trades # << >>
        BY <1>2, <1>3, <2>2, <4>1
      <4> QED
        BY <1>1, <1>5, <2>2, <3>1, <3>4, <4>2
    <3> QED
      BY <3>2, <3>3, <3>4 DEF OrderType
  <2> QED
    BY <2>1, <2>2
<1>12. orders_map' = kept \cup extra
  <2>1. orders_map' \ {order} = orders_map \ {order}
    BY <1>5
  <2> QED
    BY <1>10, <1>11, <2>1
<1>13. \A id \in orders_map' : id \in OrderIds /\ orders[id] # Null
  <2>1. orders_map' \subseteq orders_map
    BY <1>5
  <2> QED
    BY <2>1 DEF Inv, TypeOK
<1>14. Tidy'
  <2>1. IsFiniteSet(orders_map')
    <3>1. orders_map' \subseteq (DOMAIN Came) \cup {order}
      BY <1>12
    <3>2. IsFiniteSet((DOMAIN Came) \cup {order})
      BY <1>4, FS_AddElement
    <3> QED
      BY <3>1, <3>2, FS_Subset
  <2> QED
    BY <1>5, <1>13, <2>1 DEF Tidy
<1> HIDE DEF taken, left, kept, nth, stays, peers, killed, extra, after
<1>15. atRest'.resting =
         [id \in kept \cup extra |->
            IF id = Placed.id THEN after
            ELSE IF id \in Done THEN [Came[id] EXCEPT !.remaining = @ - taken[id]]
            ELSE Came[id]]
  <2>1. atRest'.resting = [id \in {x \in OrderIds : orders'[x] # Null} |-> orders'[id]]
    <3>1. DOMAIN orders' = OrderIds
      BY <1>5
    <3> QED
      BY <3>1 DEF Abstraction, Restrict
  <2>2. {x \in OrderIds : orders'[x] # Null} = orders_map'
    BY <1>5, <1>13
  <2>3. ASSUME NEW id \in orders_map'
        PROVE  orders'[id] = IF id = Placed.id THEN after
                             ELSE IF id \in Done THEN [Came[id] EXCEPT !.remaining = @ - taken[id]]
                             ELSE Came[id]
    <3>1. orders'[id] = orders[id]
      BY <1>5, <1>13
    <3>2. CASE id = order
      BY <1>1, <1>6, <3>1, <3>2
    <3>3. CASE id # order
      <4>1. id \in DOMAIN Came
        BY <1>12, <3>3 DEF extra, kept
      <4>2. orders[id] = IF id \in Done THEN [Came[id] EXCEPT !.remaining = @ - Taken(id)] ELSE Came[id]
        BY <4>1 DEF CallOK
      <4>3. id \in Done => taken[id] = Taken(id)
        BY <1>2, <1>9
      <4> QED
        BY <1>1, <3>1, <3>3, <4>2, <4>3
    <3> QED
      BY <3>2, <3>3
  <2> QED
    BY <1>12, <2>1, <2>2, <2>3
<1>16. atRest'.older = (atRest.older \cap (kept \X kept)) \cup (IF stays THEN peers \X {Placed.id} ELSE {})
  <2>1. atRest'.older = Turns'
    BY DEF Abstraction, Turns
  <2>2. Turns' \subseteq OrderIds \X OrderIds
    BY DEF Turns, InTurn
  <2>3. kept \subseteq OrderIds /\ order \notin kept
    BY <1>4 DEF kept
  <2>4. ASSUME NEW a \in OrderIds, NEW b \in OrderIds
        PROVE  <<a, b>> \in Turns'
                 <=> \/ <<a, b>> \in atRest.older /\ a \in kept /\ b \in kept
                     \/ stays /\ a \in peers /\ b = order
    <3>1. <<a, b>> \in Turns' <=> <<a, b>> \in Turns /\ a \in orders_map' /\ b \in orders_map'
      <4>1. <<a, b>> \in Turns => a \in orders_map /\ b \in orders_map
        BY DEF CallOK
      <4> QED
        BY <1>5, <4>1 DEF killed
    <3>2. <<a, b>> \in Turns <=>
            /\ a \in orders_map \ {order} /\ b \in orders_map
            /\ IF b = order THEN orders[a].side = orders[b].side /\ orders[a].price = orders[b].price
                            ELSE <<a, b>> \in atRest.older
      BY DEF CallOK
    <3>3. CASE b = order
      <4>1. a \in kept => orders[a].side = Came[a].side /\ orders[a].price = Came[a].price
        BY StillTheSame DEF kept
      <4>2. a \in peers <=> a \in kept /\ Came[a].side = Placed.side /\ Came[a].price = Placed.price
        BY DEF peers
      <4>3. a \in orders_map' /\ a # order <=> a \in kept
        BY <1>10, <1>12, <2>3 DEF extra
      <4>4. order \in orders_map' => order \in orders_map
        BY <1>5
      <4>5. /\ <<a, b>> \in Turns' =>
                 /\ a \in orders_map' /\ a # order /\ order \in orders_map'
                 /\ orders[a].side = orders[order].side /\ orders[a].price = orders[order].price
            /\ (/\ a \in orders_map' /\ a # order /\ order \in orders_map'
                /\ a \in orders_map /\ order \in orders_map
                /\ orders[a].side = orders[order].side /\ orders[a].price = orders[order].price)
                  => <<a, b>> \in Turns'
        BY <3>1, <3>2, <3>3
      <4>6. a \in kept => a \in orders_map
        BY <1>10
      <4> QED
        BY <1>1, <1>11, <2>3, <3>3, <4>1, <4>2, <4>3, <4>4, <4>5, <4>6
    <3>4. CASE b # order
      BY <1>10, <1>12, <2>3, <3>1, <3>2, <3>4 DEF extra
    <3> QED
      BY <3>3, <3>4
  <2>5. peers \subseteq kept
    BY DEF peers
  <2> QED
    BY <1>1, <2>1, <2>2, <2>3, <2>4, <2>5
<1>17. trades = [n \in 1 .. Cardinality(Done) |-> Contract!TradeOf(Placed, nth[n], taken[nth[n]])]
  <2>1. trades = [n \in DOMAIN trades |-> trades[n]] /\ DOMAIN trades = 1 .. Cardinality(Done)
    BY <1>2 DEF Inv, TypeOK
  <2>2. ASSUME NEW n \in DOMAIN trades
        PROVE  trades[n] = Contract!TradeOf(Placed, nth[n], taken[nth[n]])
    <3>1. nth[n] = Partner(trades[n]) /\ nth[n] \in Crossing /\ trades[n] = Offer(nth[n])
      <4>1. Partner(trades[n]) \in Crossing /\ trades[n] = Offer(Partner(trades[n]))
        BY DEF CallOK, TradesInTurn
      <4>2. nth[n] = Partner(trades[n])
        BY DEF nth
      <4> QED
        BY <4>1, <4>2
    <3>2. taken[nth[n]] = Taken(nth[n])
      BY <1>9, <3>1
    <3> QED
      BY <3>1, <3>2 DEF Offer
  <2> QED
    BY <2>1, <2>2
<1>18. /\ reply' = AddReply([n \in 1 .. Cardinality(Done) |->
                               Contract!TradeOf(Placed, nth[n], taken[nth[n]])], after)
       /\ Placed.id \notin DOMAIN Came
  BY <1>1, <1>4, <1>5, <1>6, <1>17
<1>19. Answered(Placed, taken, Done, kept, orders[order].remaining, nth)
  <2>1. extra = IF stays THEN {Placed.id} ELSE {}
    BY <1>1 DEF extra
  <2> QED
    BY <1>15, <1>16, <1>18, <2>1 DEF Answered, after, stays, peers
<1> QED
  BY <1>7, <1>8, <1>14, <1>19, AddsUp

-----------------------------------------------------------------------------
(* The calls of one step *)

\* A call that changes no order and no level leaves the abstract book alone.
LEMMA SameAbstraction ==
  ASSUME UNCHANGED <<bids, asks, orders>> PROVE Abstraction' = Abstraction
BY DEF Abstraction, InTurn, Restrict

\* CancelOrder is the contract's.
LEMMA CancelCancels ==
  ASSUME Inv, QueueOK, RestOK, NEW id \in OrderIds, CancelOrder(id), atRest' = Abstraction'
  PROVE  Contract!Cancel(id) /\ Tidy'
<1> DEFINE kept == (DOMAIN Came) \ {id}
<1>1. /\ DOMAIN Came = orders_map /\ IsFiniteSet(orders_map) /\ orders_map \subseteq OrderIds
      /\ \A x \in orders_map : orders[x] = Came[x]
      /\ \A x \in OrderIds : x \in orders_map <=> orders[x] # Null
      /\ Came \in [DOMAIN Came -> Order]
  BY DEF QueueOK, RestOK
<1>2. atRest.older \subseteq (DOMAIN Came) \X (DOMAIN Came)
  BY DEF QueueOK
<1>3. CASE id \notin orders_map
  <2>1. /\ UNCHANGED <<bids, asks, orders_map, orders>>
        /\ reply' = [call |-> "CancelOrder", id |-> id, ok |-> FALSE]
    BY <1>3 DEF CancelOrder
  <2>2. atRest' = atRest
    BY <2>1, SameAbstraction DEF RestOK
  <2>3. kept = DOMAIN Came
    BY <1>1, <1>3
  <2>4. Contract!Restrict(atRest.resting, kept) = atRest.resting
    BY <1>1, <2>3 DEF Contract!Restrict, Came
  <2>5. atRest.older \cap (kept \X kept) = atRest.older
    BY <1>2, <2>3
  <2>6. (id \in DOMAIN atRest.resting) = FALSE
    BY <1>1, <1>3 DEF Came
  <2>7. Contract!Cancel(id)
    BY <2>1, <2>2, <2>4, <2>5, <2>6 DEF Contract!Cancel, Came
  <2>8. Tidy'
    BY <1>1, <2>1 DEF Tidy
  <2> QED
    BY <2>7, <2>8
<1>4. CASE id \in orders_map
  <2>1. /\ CancelOrderInternal(id)
        /\ reply' = [call |-> "CancelOrder", id |-> id, ok |-> TRUE]
        /\ orders' = [x \in OrderIds |-> IF x \in orders_map' THEN orders[x] ELSE Null]
    BY <1>4 DEF CancelOrder, ExpireOrders
  <2>2. orders_map' = kept
    BY <1>1, <2>1 DEF CancelOrderInternal
  <2>3. \A x, y \in OrderIds : <<x, y>> \in Turns' <=> <<x, y>> \in Turns /\ x # id /\ y # id
    BY <1>4, <2>1, CancelKeepsOthersInTurn
  <2> HIDE DEF kept
  <2>4. kept \subseteq orders_map /\ \A x \in orders_map : x \in kept <=> x # id
    BY <1>1 DEF kept
  <2>5. atRest'.resting = [x \in kept |-> Came[x]]
    <3>1. DOMAIN orders' = OrderIds
      BY <2>1
    <3>2. atRest'.resting = [x \in {y \in OrderIds : orders'[y] # Null} |-> orders'[x]]
      BY <3>1 DEF Abstraction, Restrict
    <3>3. \A x \in kept : orders'[x] = Came[x] /\ orders'[x] # Null
      BY <1>1, <2>1, <2>2, <2>4
    <3>4. {y \in OrderIds : orders'[y] # Null} = kept
      BY <1>1, <2>1, <2>2, <2>4, <3>3
    <3> QED
      BY <3>2, <3>3, <3>4
  <2>6. atRest'.older = atRest.older \cap (kept \X kept)
    <3>1. atRest'.older = Turns'
      BY DEF Abstraction, Turns
    <3>2. Turns' \subseteq OrderIds \X OrderIds
      BY DEF Turns, InTurn
    <3>3. \A x, y \in OrderIds : <<x, y>> \in Turns <=> <<x, y>> \in atRest.older
      BY DEF RestOK
    <3>4. \A x, y \in OrderIds : <<x, y>> \in Turns' <=> <<x, y>> \in atRest.older /\ x \in kept /\ y \in kept
      BY <1>1, <1>2, <2>3, <2>4, <3>3
    <3>5. kept \subseteq OrderIds
      BY <1>1, <2>4
    <3> QED
      BY <3>1, <3>2, <3>4, <3>5
  <2>7. (id \in DOMAIN atRest.resting) = TRUE
    BY <1>1, <1>4 DEF Came
  <2>8. Contract!Cancel(id)
    <3>1. DOMAIN Came = DOMAIN atRest.resting /\ kept = (DOMAIN atRest.resting) \ {id}
      BY DEF kept, Came
    <3>2. atRest'.resting = Contract!Restrict(atRest.resting, kept)
      BY <1>1, <2>4, <2>5 DEF Contract!Restrict, Came
    <3> QED
      BY <2>1, <2>6, <2>7, <3>1, <3>2 DEF Contract!Cancel
  <2>9. Tidy'
    <3>1. IsFiniteSet(orders_map')
      BY <1>1, <2>2, <2>4, FS_Subset
    <3>2. \A x \in OrderIds : x \in orders_map' <=> orders'[x] # Null
      BY <1>1, <2>1, <2>2, <2>4
    <3> QED
      BY <3>1, <3>2 DEF Tidy
  <2> QED
    BY <2>8, <2>9
<1> QED
  BY <1>3, <1>4

\* The total of a level, before it is cut to a word.
Total(level) == SumFunction([i \in DOMAIN level |-> orders[level[i]].remaining])

\* Between calls no level holds more shares than a word can count.
NoWrap ==
  Idle => /\ \A p \in DOMAIN bids : Total(bids[p]) < WordRange
          /\ \A p \in DOMAIN asks : Total(asks[p]) < WordRange

\* The level infos of a side are the contract's depth.
LEMMA InfosAreDepth ==
  ASSUME Inv, QueueOK, RestOK, NEW levels, NEW side, SideOK(levels, side, orders_map, orders),
         DOMAIN levels \subseteq Prices, \A p \in DOMAIN levels : Total(levels[p]) < WordRange
  PROVE  LevelInfos(levels) = Contract!Depth(side)
<1> DEFINE at(p) == {id \in DOMAIN Came : Came[id].side = side /\ Came[id].price = p}
<1>1. /\ DOMAIN Came = orders_map /\ \A id \in orders_map : orders[id] = Came[id]
      /\ IsFiniteSet(DOMAIN Came)
  BY DEF RestOK, QueueOK
<1>2. /\ \A p \in DOMAIN levels :
           /\ levels[p] # << >> /\ levels[p] \in Seq(OrderIds) /\ Len(levels[p]) \in Nat
           /\ DOMAIN levels[p] = 1 .. Len(levels[p])
           /\ \A i, j \in 1 .. Len(levels[p]) : levels[p][i] = levels[p][j] => i = j
           /\ \A i \in 1 .. Len(levels[p]) : levels[p][i] \in at(p)
      /\ \A p : \A id \in at(p) :
           /\ p \in DOMAIN levels
           /\ \E i \in 1 .. Len(levels[p]) : levels[p][i] = id
  <2>1. \A p \in DOMAIN levels :
          /\ levels[p] # << >> /\ levels[p] \in Seq(OrderIds) /\ Len(levels[p]) \in Nat
          /\ DOMAIN levels[p] = 1 .. Len(levels[p])
          /\ \A i, j \in 1 .. Len(levels[p]) : levels[p][i] = levels[p][j] => i = j
    BY DEF SideOK, LevelsOf
  <2>2. \A p \in DOMAIN levels : \A i \in 1 .. Len(levels[p]) : levels[p][i] \in at(p)
    BY <1>1 DEF SideOK
  <2>3. \A p : \A id \in at(p) :
          /\ p \in DOMAIN levels
          /\ \E i \in 1 .. Len(levels[p]) : levels[p][i] = id
    BY <1>1 DEF SideOK
  <2> QED
    BY <2>1, <2>2, <2>3
<1>3. ASSUME NEW p \in DOMAIN levels
      PROVE  LevelQuantity(levels[p]) = Contract!Available(at(p))
  <2> DEFINE f == [id \in at(p) |-> Came[id].remaining]
             g == [i \in DOMAIN levels[p] |-> orders[levels[p][i]].remaining]
  <2>1. IsFiniteSet(DOMAIN f)
    BY <1>1, FS_Subset
  <2>2. IsFiniteSet(DOMAIN g)
    BY <1>2, FS_Interval
  <2>3. \A id \in DOMAIN f : f[id] \in Nat
    BY CameTyped
  <2>4. /\ \A i \in DOMAIN g : levels[p][i] \in DOMAIN f /\ g[i] = f[levels[p][i]]
        /\ \A i, j \in DOMAIN g : levels[p][i] = levels[p][j] => i = j
        /\ \A id \in DOMAIN f : \E i \in DOMAIN g : levels[p][i] = id
    BY <1>1, <1>2
  <2>5. Contract!Available(at(p)) = SumFunction(f)
    BY ContractSums DEF Contract!Available, Came
  <2>6. LevelQuantity(levels[p]) = SumFunction(g) % WordRange /\ SumFunction(g) < WordRange
    BY DEF LevelQuantity, Total
  <2> HIDE DEF f, g, at
  <2>7. SumFunction(g) = SumFunction(f) /\ SumFunction(f) \in Nat
    BY <2>1, <2>2, <2>3, <2>4, SumFunctionRenamed, SumFunctionIsNat
  <2>8. SumFunction(g) % WordRange = SumFunction(g)
    BY <2>6, <2>7, BookAssumption
  <2> QED
    BY <2>5, <2>6, <2>7, <2>8
<1>4. \A p : p \in DOMAIN levels /\ levels[p] # << >> <=> p \in Prices /\ at(p) # {}
  <2>1. \A p \in DOMAIN levels : 1 \in 1 .. Len(levels[p])
    BY <1>2
  <2> HIDE DEF at
  <2> QED
    BY <1>2, <2>1
<1>5. Contract!Depth(side) = [p \in {q \in Prices : at(q) # {}} |-> Contract!Available(at(p))]
  BY DEF Contract!Depth, Came
<1> HIDE DEF at
<1>6. {q \in DOMAIN levels : levels[q] # << >>} = {q \in Prices : at(q) # {}}
  BY <1>4
<1> QED
  BY <1>3, <1>5, <1>6 DEF LevelInfos

\* GetOrderInfos is the contract's report.
LEMMA InfosReport ==
  ASSUME Inv, QueueOK, RestOK, NoWrap, GetOrderInfos, UNCHANGED atRest
  PROVE  Contract!Report
<1>1. /\ SideOK(bids, "Buy", orders_map, orders) /\ SideOK(asks, "Sell", orders_map, orders)
      /\ DOMAIN bids \subseteq Prices /\ DOMAIN asks \subseteq Prices
  BY DEF Inv, TypeOK
<1>2. /\ \A p \in DOMAIN bids : Total(bids[p]) < WordRange
      /\ \A p \in DOMAIN asks : Total(asks[p]) < WordRange
  BY DEF NoWrap, GetOrderInfos
<1>3. LevelInfos(bids) = Contract!Depth("Buy") /\ LevelInfos(asks) = Contract!Depth("Sell")
  BY <1>1, <1>2, InfosAreDepth
<1> QED
  BY <1>3 DEF GetOrderInfos, Contract!Report

-----------------------------------------------------------------------------
(* Every step is a step of the contract, or none *)

\* The empty book is the empty abstract book.
LEMMA RestInit == RInit => Inv /\ TradesInv /\ RefinementInv /\ Contract!Init
<1> SUFFICES ASSUME RInit PROVE Inv /\ TradesInv /\ RefinementInv /\ Contract!Init
  OBVIOUS
<1>1. Inv /\ Idle /\ Tidy /\ atRest = Abstraction
  <2>1. Inv
    BY InvInit DEF RInit
  <2>2. IsFiniteSet({})
    BY FS_EmptySet
  <2> QED
    BY <2>1, <2>2 DEF RInit, Init, Tidy, Idle
<1>2. QueueOK /\ RestOK
  BY <1>1, AbstractionRests
<1>3. TradesInv
  BY <1>1 DEF RInit, Init, TradesInv, RestingBelow, TradesAccountForFill, Idle
<1>4. Contract!Init
  <2>1. {id \in OrderIds : orders[id] # Null} = {}
    BY DEF RInit, Init
  <2>2. [id \in {} |-> orders[id]] = << >>
    OBVIOUS
  <2>3. Abstraction.resting = << >>
    BY <2>1, <2>2 DEF Abstraction, Restrict
  <2>4. Abstraction.older = {}
    BY DEF Abstraction, InTurn, RInit, Init
  <2> QED
    BY <1>1, <2>3, <2>4 DEF RInit, Init, Contract!Init
<1> QED
  BY <1>1, <1>2, <1>3, <1>4 DEF RefinementInv

\* A call that changes no order and no level ends as it began.
LEMMA NothingChanged ==
  ASSUME RefinementInv, Idle, UNCHANGED <<bids, asks, orders_map, orders, order>>,
         atRest' = Abstraction'
  PROVE  atRest' = atRest /\ RefinementInv'
<1>1. atRest' = atRest
  BY SameAbstraction DEF RefinementInv, RestOK
<1>2. QueueOK' /\ RestOK'
  BY <1>1 DEF RefinementInv, QueueOK, RestOK, Came, Turns, InTurn, Abstraction, Restrict
<1> QED
  BY <1>1, <1>2 DEF RefinementInv, Idle

\* The step that returns, cancels or reports is the contract's; the others change
\* nothing the contract speaks of.
LEMMA StepImplements ==
  ASSUME Inv, Inv', TradesInv, RefinementInv, NoWrap, [RNext]_rvars
  PROVE  RefinementInv' /\ [Contract!Next]_(Contract!ptVars)
<1>1. ASSUME NEW id \in OrderIds, NEW type \in OrderType, NEW side \in Side,
             NEW price \in Prices, NEW quantity \in Quantities,
             AddOrder(id, type, side, price, quantity),
             atRest' = IF order' = Null THEN Abstraction' ELSE atRest
      PROVE  RefinementInv' /\ [Contract!Next]_(Contract!ptVars)
  <2> DEFINE o == NewOrder(id, type, side, price, quantity)
  <2>1. /\ o \in Order /\ o.remaining = o.initial /\ o.initial \in Quantities /\ o.id = id
    BY BookAssumption DEF NewOrder, Order
  <2>2. CASE AddDuplicate(id)
    <3>1. Idle /\ order' = Null /\ UNCHANGED <<bids, asks, orders_map, orders, order>>
      BY <2>2 DEF AddDuplicate, Idle
    <3>2. atRest' = atRest /\ RefinementInv'
      BY <1>1, <3>1, NothingChanged
    <3>3. Contract!AddDuplicate(id)
      BY <2>2, <3>1, <3>2 DEF AddDuplicate, AddReply, Contract!AddDuplicate, RefinementInv, RestOK, Came
    <3> QED
      BY <3>2, <3>3 DEF Contract!Next
  <2>3. CASE AddKilled(o)
    <3>1. Idle /\ order' = Null /\ UNCHANGED <<bids, asks, orders_map, orders, order>>
      BY <2>3 DEF AddKilled, Idle
    <3>2. atRest' = atRest /\ RefinementInv'
      BY <1>1, <3>1, NothingChanged
    <3>3. Contract!Add(o)
      BY <2>1, <2>3, <3>1, <3>2, KilledAdds DEF RefinementInv
    <3> QED
      BY <3>2, <3>3 DEF Contract!Next, Contract!Sides, NewOrder, OrderType, Side
  <2>4. CASE AddToLevel(o)
    <3>1. Idle /\ order' = id /\ ~Idle' /\ reply' = reply
      BY <2>1, <2>4, BookAssumption DEF AddToLevel, Idle
    <3>2. atRest' = atRest
      BY <1>1, <3>1 DEF Idle
    <3>3. QueueOK /\ RestOK /\ trades = << >>
      BY <3>1 DEF RefinementInv, TradesInv
    <3>4. CallOK'
      BY <2>1, <2>4, <3>2, <3>3, AddToLevelBeginsCall
    <3>5. QueueOK'
      BY <3>2, <3>3 DEF QueueOK, Came
    <3> QED
      BY <3>1, <3>2, <3>4, <3>5 DEF RefinementInv, Contract!ptVars
  <2> QED
    BY <1>1, <2>2, <2>3, <2>4 DEF AddOrder
<1>2. ASSUME Match, atRest' = IF order' = Null THEN Abstraction' ELSE atRest
      PROVE  RefinementInv' /\ [Contract!Next]_(Contract!ptVars)
  <2>1. ~Idle /\ ~Idle' /\ reply' = reply /\ atRest' = atRest
    BY <1>2 DEF Match, Idle
  <2>2. QueueOK /\ CallOK
    BY <2>1 DEF RefinementInv
  <2>3. CallOK'
    BY <1>2, <2>1, <2>2, MatchKeepsCall
  <2>4. QueueOK'
    BY <2>1, <2>2 DEF QueueOK, Came
  <2> QED
    BY <2>1, <2>3, <2>4 DEF RefinementInv, Contract!ptVars
<1>3. ASSUME Return, atRest' = IF order' = Null THEN Abstraction' ELSE atRest
      PROVE  RefinementInv' /\ [Contract!Next]_(Contract!ptVars)
  <2>1. ~Idle /\ Idle' /\ atRest' = Abstraction'
    BY <1>3 DEF Return, Idle
  <2>2. QueueOK /\ CallOK
    BY <2>1 DEF RefinementInv
  <2>3. Contract!Add(Placed) /\ Tidy'
    BY <1>3, <2>1, <2>2, ReturnAdds
  <2>4. (Inv /\ Tidy /\ atRest = Abstraction => QueueOK /\ RestOK)'
    BY AbstractionRests, PTL
  <2>5. QueueOK' /\ RestOK'
    BY <2>1, <2>3, <2>4
  <2>6. /\ Placed = [id |-> Placed.id, type |-> Placed.type, side |-> Placed.side,
                     price |-> Placed.price, initial |-> Placed.initial,
                     remaining |-> Placed.initial]
        /\ Placed.id \in OrderIds /\ Placed.type \in {"GoodTillCancel", "FillAndKill"}
        /\ Placed.side \in {"Buy", "Sell"} /\ Placed.price \in Prices
        /\ Placed.initial \in Quantities
    <3>1. orders[order] \in Order /\ Placed.initial \in Quantities
      BY <2>1, <2>2, PlacedIs DEF CallOK
    <3> QED
      BY <3>1 DEF Placed, Order, OrderType, Side
  <2>7. Contract!Next
    BY <2>3, <2>6 DEF Contract!Next, Contract!Sides
  <2> QED
    BY <2>1, <2>5, <2>7 DEF RefinementInv
<1>4. ASSUME NEW id \in OrderIds, CancelOrder(id),
             atRest' = IF order' = Null THEN Abstraction' ELSE atRest
      PROVE  RefinementInv' /\ [Contract!Next]_(Contract!ptVars)
  <2>1. Idle /\ Idle' /\ atRest' = Abstraction'
    BY <1>4 DEF CancelOrder, Idle
  <2>2. QueueOK /\ RestOK
    BY <2>1 DEF RefinementInv
  <2>3. Contract!Cancel(id) /\ Tidy'
    BY <1>4, <2>1, <2>2, CancelCancels
  <2>4. (Inv /\ Tidy /\ atRest = Abstraction => QueueOK /\ RestOK)'
    BY AbstractionRests, PTL
  <2>5. QueueOK' /\ RestOK'
    BY <2>1, <2>3, <2>4
  <2> QED
    BY <2>1, <2>3, <2>5 DEF RefinementInv, Contract!Next
<1>5. ASSUME GetOrderInfos, atRest' = IF order' = Null THEN Abstraction' ELSE atRest
      PROVE  RefinementInv' /\ [Contract!Next]_(Contract!ptVars)
  <2>1. Idle /\ order' = Null /\ UNCHANGED <<bids, asks, orders_map, orders, order>>
    BY <1>5 DEF GetOrderInfos, Idle
  <2>2. atRest' = atRest /\ RefinementInv'
    BY <1>5, <2>1, NothingChanged
  <2>3. Contract!Report
    BY <1>5, <2>1, <2>2, InfosReport DEF RefinementInv
  <2> QED
    BY <2>2, <2>3 DEF Contract!Next
<1>6. ASSUME UNCHANGED rvars PROVE RefinementInv' /\ [Contract!Next]_(Contract!ptVars)
  <2>1. /\ atRest' = atRest /\ reply' = reply /\ bids' = bids /\ asks' = asks
        /\ orders_map' = orders_map /\ orders' = orders /\ order' = order /\ trades' = trades
    BY <1>6 DEF rvars, vars
  <2>2. QueueOK' <=> QueueOK
    BY <2>1 DEF QueueOK, Came
  <2>3. RestOK' <=> RestOK
    BY <2>1 DEF RestOK, Came, Turns, InTurn, Abstraction, Restrict
  <2>4. ~Idle => CallOK'
    <3> SUFFICES ASSUME ~Idle PROVE CallOK'
      OBVIOUS
    <3>0. CallOK
      BY DEF RefinementInv
    <3>1. /\ Came' = Came /\ Placed' = Placed /\ Crossing' = Crossing
          /\ \A id : /\ InFront(id)' = InFront(id) /\ Left(id)' = Left(id)
                     /\ Taken(id)' = Taken(id) /\ Offer(id)' = Offer(id)
          /\ \A t : Partner(t)' = Partner(t)
      <4>1. orders[order] \in Order
        BY PlacedIs
      <4>2. orders[order] = [orders[order] EXCEPT !.remaining = orders[order].remaining]
        BY <4>1 DEF Order
      <4> QED
        BY <2>1, <4>1, <4>2, SameTerms
    <3>2. Done' = Done
      BY <2>1, <3>1 DEF Done
    <3>3. TradesInTurn' <=> TradesInTurn
      BY <2>1, <3>1 DEF TradesInTurn
    <3>4. Turns' = Turns
      BY <2>1 DEF Turns, InTurn
    <3>5. [id \in Done |-> Taken(id)]' = [id \in Done |-> Taken(id)]
      BY <3>1, <3>2
    <3>6. SumFunction([id \in Done |-> Taken(id)])' = SumFunction([id \in Done |-> Taken(id)])
      BY <3>5
    <3>7. /\ order' \notin DOMAIN Came' /\ orders'[order'].id = order'
          /\ (Placed.initial \in Quantities)' /\ TradesInTurn'
          /\ orders'[order'].type = "FillAndKill" => Crossing' # {}
          /\ order' \notin orders_map' => trades' # << >> /\ orders'[order'].remaining = 0
          /\ orders'[order'].remaining = Placed'.initial - SumFunction([id \in Done |-> Taken(id)])'
      BY <2>1, <3>0, <3>1, <3>3, <3>6 DEF CallOK
    <3>8. /\ \A id \in DOMAIN Came' :
               orders'[id] = IF id \in Done' THEN [Came'[id] EXCEPT !.remaining = @ - Taken(id)']
                                             ELSE Came'[id]
          /\ \A id \in OrderIds \ {order'} :
               id \in orders_map'
                 <=> id \in DOMAIN Came' /\ (id \in Done' => Taken(id)' < Came'[id].remaining)
          /\ order' \in orders_map' =>
               /\ \A id \in Done' : Taken(id)' = Came'[id].remaining
               /\ orders'[order'].remaining > 0 \/ trades' = << >>
      BY <2>1, <3>0, <3>1, <3>2 DEF CallOK
    <3>9. \A a, b \in OrderIds :
            <<a, b>> \in Turns' <=>
              /\ a \in orders_map' \ {order'} /\ b \in orders_map'
              /\ IF b = order'
                   THEN orders'[a].side = orders'[b].side /\ orders'[a].price = orders'[b].price
                   ELSE <<a, b>> \in atRest'.older
      <4>1. \A a, b \in OrderIds :
              <<a, b>> \in Turns <=>
                /\ a \in orders_map \ {order} /\ b \in orders_map
                /\ IF b = order
                     THEN orders[a].side = orders[b].side /\ orders[a].price = orders[b].price
                     ELSE <<a, b>> \in atRest.older
        BY <3>0 DEF CallOK
      <4>2. UNCHANGED <<orders, orders_map, order, atRest>>
        BY <2>1, <3>1
      <4> HIDE DEF Turns
      <4> QED
        BY <3>4, <4>1, <4>2
    <3> QED
      BY <3>7, <3>8, <3>9 DEF CallOK
  <2> QED
    BY <2>1, <2>2, <2>3, <2>4 DEF RefinementInv, Idle, Contract!ptVars
<1> QED
  BY <1>1, <1>2, <1>3, <1>4, <1>5, <1>6 DEF RNext, Next

\* ImplementsPriceTimeBook for every set of ids, prices and quantities, in every
\* behaviour in which the total of a level stays below the range of a word: from
\* there on GetOrderInfos reports less than there is.
THEOREM BookImplementsPriceTimeBook == RSpec /\ []NoWrap => ImplementsPriceTimeBook
<1>1. RInit => Inv /\ TradesInv /\ RefinementInv /\ Contract!Init
  BY RestInit
<1>2. Inv /\ [RNext]_rvars => Inv'
  <2>1. [RNext]_rvars => [Next]_vars
    BY DEF RNext, rvars, vars
  <2> QED
    BY <2>1, InvNext
<1>3. Inv /\ TradesInv /\ [RNext]_rvars => TradesInv'
  <2>1. [RNext]_rvars => [Next]_vars
    BY DEF RNext, rvars, vars
  <2> QED
    BY <2>1, TradesNext
<1>4. Inv /\ Inv' /\ TradesInv /\ RefinementInv /\ NoWrap /\ [RNext]_rvars
        => RefinementInv' /\ [Contract!Next]_(Contract!ptVars)
  BY StepImplements
<1> QED
  BY <1>1, <1>2, <1>3, <1>4, PTL DEF RSpec, ImplementsPriceTimeBook, Contract!Spec
=============================================================================
