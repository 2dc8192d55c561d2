------------------------------ MODULE OrderBook ------------------------------
(***************************************************************************)
(* The limit order book of order_book/src: class OrderBook, with the       *)
(* classes Order and Trade it is built from.                               *)
(*                                                                         *)
(* One thread owns the book and runs one call at a time.  CancelOrder and  *)
(* GetOrderInfos are one step each.  AddOrder is a call with a loop: a     *)
(* step that enters it (AddToLevel, unless the order is turned away), one  *)
(* step per iteration of the inner loop of MatchOrders (Match) and a step  *)
(* that leaves it (Return).  No other call starts in between, so each step *)
(* of the call is forced.                                                  *)
(*                                                                         *)
(* A level (std::list<OrderPointer>) is a sequence of order ids, oldest    *)
(* first; bids_ and asks_ are functions from the prices that have a level  *)
(* to their level.  The Order object behind a pointer is orders[id].       *)
(***************************************************************************)
EXTENDS Integers, Functions, SequencesExt

CONSTANTS
  OrderIds,     \* the ids a client may use
  Prices,       \* the prices it may use (uint32_t)
  Quantities,   \* the quantities it may use (uint32_t)
  WordRange,    \* the number of values of a uint32_t (2^32)
  Null          \* nullptr

VARIABLES
  bids,         \* bids_: price |-> ids, oldest first
  asks,         \* asks_
  orders_map,   \* the keys of orders_map_
  orders,       \* the Order objects that are alive, by id
  order,        \* the order AddOrder is working on, Null outside of the call
  trades,       \* the trades MatchOrders has produced so far
  reply         \* what the last call returned

vars == <<bids, asks, orders_map, orders, order, trades, reply>>

Side == {"Buy", "Sell"}

OrderType == {"GoodTillCancel", "FillAndKill"}

Word == 0 .. WordRange - 1      \* uint32_t: Price and Quantity

Order == [id : OrderIds, type : OrderType, side : Side, price : Prices,
          initial : Word, remaining : Word]

TradeInfo == [id : OrderIds, price : Prices, quantity : Word]

Trade == [bid : TradeInfo, ask : TradeInfo]

\* Prices and quantities are machine words; no pointer to an Order is null.
ASSUME BookAssumption ==
  /\ WordRange \in Nat \ {0}
  /\ Prices \subseteq Word
  /\ Quantities \subseteq Word
  /\ Null \notin OrderIds
  /\ Null \notin Order

-----------------------------------------------------------------------------
(* Orders and levels *)

\* Order::Order.
NewOrder(id, type, side, price, quantity) ==
  [id |-> id, type |-> type, side |-> side, price |-> price,
   initial |-> quantity, remaining |-> quantity]

IsFilled_OfInitial(o) == o.initial = 0

\* Order::IsFilled.
IsFilled(o) == o.remaining = 0

Fill_Fully(o, quantity) == [o EXCEPT !.remaining = 0]

\* Order::Fill, called with at most the remaining quantity.
Fill(o, quantity) == [o EXCEPT !.remaining = @ - quantity]

MatchQuantity_OfBid(bid, ask) == bid.remaining

\* std::min of what the two orders have left.
MatchQuantity(bid, ask) ==
  IF bid.remaining <= ask.remaining THEN bid.remaining ELSE ask.remaining

PushBack_AtFront(levels, price, id) ==
  [p \in DOMAIN levels \cup {price} |->
     IF p # price THEN levels[p]
     ELSE IF p \in DOMAIN levels THEN <<id>> \o levels[p] ELSE <<id>>]

\* levels[price].push_back(id): operator[] makes the level if there is none.
PushBack(levels, price, id) ==
  [p \in DOMAIN levels \cup {price} |->
     IF p # price THEN levels[p]
     ELSE IF p \in DOMAIN levels THEN Append(levels[p], id) ELSE <<id>>]

\* list::erase or pop_front of the i-th order of a level.
Without(level, i) ==
  [j \in 1 .. Len(level) - 1 |-> IF j < i THEN level[j] ELSE level[j + 1]]

EraseAt_KeepsEmptyLevel(levels, price, i) ==
  [levels EXCEPT ![price] = Without(@, i)]

\* Erase the i-th order of a level, and the level with its last order.
EraseAt(levels, price, i) ==
  IF Len(levels[price]) = 1
    THEN Restrict(levels, DOMAIN levels \ {price})
    ELSE [levels EXCEPT ![price] = Without(@, i)]

\* The iterator OrderEntry keeps: where the order stands in its level.
Location(level, id) == CHOOSE i \in DOMAIN level : level[i] = id

\* The prices of bids_.begin() and asks_.begin().
BestBid(price) == price \in DOMAIN bids /\ \A p \in DOMAIN bids : p <= price

BestAsk(price) == price \in DOMAIN asks /\ \A p \in DOMAIN asks : price <= p

Crosses_Strictly(bidPrice, askPrice) == bidPrice > askPrice

\* The negation of the exit condition of MatchOrders.
Crosses(bidPrice, askPrice) == bidPrice >= askPrice

\* OrderBook::CanMatch compares the price with the best opposite one.
CanMatch(side, price) ==
  IF side = "Buy" THEN \E a \in DOMAIN asks : BestAsk(a) /\ price >= a
                  ELSE \E b \in DOMAIN bids : BestBid(b) /\ price <= b

-----------------------------------------------------------------------------
(* The calls *)

Idle == order = Null

Init ==
  /\ bids = << >>
  /\ asks = << >>
  /\ orders_map = {}
  /\ orders = [id \in OrderIds |-> Null]
  /\ order = Null
  /\ trades = << >>
  /\ reply = Null

AddReply(ts, o) == [call |-> "AddOrder", trades |-> ts, order |-> o]

\* The id is in use: {{}, nullptr}.
AddDuplicate(id) ==
  /\ Idle
  /\ id \in orders_map
  /\ reply' = AddReply(<< >>, Null)
  /\ UNCHANGED <<bids, asks, orders_map, orders, order, trades>>

\* A FillAndKill order that crosses nothing is handed back untouched.
AddKilled(o) ==
  /\ Idle
  /\ o.id \notin orders_map
  /\ o.type = "FillAndKill"
  /\ ~CanMatch(o.side, o.price)
  /\ reply' = AddReply(<< >>, o)
  /\ UNCHANGED <<bids, asks, orders_map, orders, order, trades>>

\* Any other order goes to the back of its level, and MatchOrders starts.
AddToLevel(o) ==
  /\ Idle
  /\ o.id \notin orders_map
  /\ o.type = "FillAndKill" => CanMatch(o.side, o.price)
  /\ \/ /\ o.side = "Buy"
        /\ bids' = PushBack(bids, o.price, o.id)
        /\ UNCHANGED asks
     \/ /\ o.side = "Sell"
        /\ asks' = PushBack(asks, o.price, o.id)
        /\ UNCHANGED bids
  /\ orders_map' = orders_map \cup {o.id}
  /\ orders' = [orders EXCEPT ![o.id] = o]
  /\ order' = o.id
  /\ UNCHANGED <<trades, reply>>

AddOrder(id, type, side, price, quantity) ==
  LET o == NewOrder(id, type, side, price, quantity)
  IN  \/ AddDuplicate(id)
      \/ AddKilled(o)
      \/ AddToLevel(o)

\* pop_front of a filled order, and the erasure of a level it leaves empty.
PopIfFilled(levels, price, o) ==
  IF IsFilled(o) THEN EraseAt(levels, price, 1) ELSE levels

\* The body of the inner loop of MatchOrders, for the two oldest orders of the
\* best levels: fill both, record the trade, drop the orders that are filled
\* and the levels that are empty.
MatchAtPrices(bidPrice, askPrice) ==
  LET bid == orders[Head(bids[bidPrice])]
      ask == orders[Head(asks[askPrice])]
      q   == MatchQuantity(bid, ask)
      new == [orders EXCEPT ![bid.id] = Fill(bid, q), ![ask.id] = Fill(ask, q)]
  IN  /\ trades' = Append(trades,
                     [bid |-> [id |-> bid.id, price |-> bid.price, quantity |-> q],
                      ask |-> [id |-> ask.id, price |-> ask.price, quantity |-> q]])
      /\ orders' = new
      /\ orders_map' = orders_map \ {id \in {bid.id, ask.id} : IsFilled(new[id])}
      /\ bids' = PopIfFilled(bids, bidPrice, new[bid.id])
      /\ asks' = PopIfFilled(asks, askPrice, new[ask.id])

Match ==
  /\ ~Idle
  /\ \E bidPrice \in DOMAIN bids, askPrice \in DOMAIN asks :
       /\ BestBid(bidPrice)
       /\ BestAsk(askPrice)
       /\ Crosses(bidPrice, askPrice)
       /\ MatchAtPrices(bidPrice, askPrice)
  /\ UNCHANGED <<order, reply>>

\* CancelOrderInternal: out of the level, and out of orders_map_.
CancelOrderInternal(id) ==
  LET price == orders[id].price
  IN  /\ \/ /\ orders[id].side = "Buy"
            /\ bids' = EraseAt(bids, price, Location(bids[price], id))
            /\ UNCHANGED asks
         \/ /\ orders[id].side = "Sell"
            /\ asks' = EraseAt(asks, price, Location(asks[price], id))
            /\ UNCHANGED bids
      /\ orders_map' = orders_map \ {id}

\* The last pointer to an order goes when it is in the book no more.
ExpireOrders ==
  orders' = [id \in OrderIds |-> IF id \in orders_map' THEN orders[id] ELSE Null]

\* A map that has levels left on both sides stops the loop at the best prices.
MatchingDone ==
  ~ \E b \in DOMAIN bids, a \in DOMAIN asks : BestBid(b) /\ BestAsk(a) /\ Crosses(b, a)

MustKill_Never(o) == FALSE

\* What is left of a FillAndKill order must not stay.
MustKill(o) == o.type = "FillAndKill" /\ ~IsFilled(o)

\* MatchOrders found no cross: AddOrder takes what is left of a FillAndKill
\* order out of the book and returns.
Return ==
  /\ ~Idle
  /\ MatchingDone
  /\ IF MustKill(orders[order]) /\ order \in orders_map
       THEN CancelOrderInternal(order)
       ELSE UNCHANGED <<bids, asks, orders_map>>
  /\ reply' = AddReply(trades, orders[order])
  /\ order' = Null
  /\ trades' = << >>
  /\ ExpireOrders

CancelOrder(id) ==
  /\ Idle
  /\ \/ /\ id \notin orders_map
        /\ reply' = [call |-> "CancelOrder", id |-> id, ok |-> FALSE]
        /\ UNCHANGED <<bids, asks, orders_map, orders>>
     \/ /\ id \in orders_map
        /\ CancelOrderInternal(id)
        /\ reply' = [call |-> "CancelOrder", id |-> id, ok |-> TRUE]
        /\ ExpireOrders
  /\ UNCHANGED <<order, trades>>

\* The total of a level in GetOrderInfos, a uint32_t sum.
LevelQuantity(level) ==
  SumFunction([i \in DOMAIN level |-> orders[level[i]].remaining]) % WordRange

LevelInfos(levels) ==
  [p \in {q \in DOMAIN levels : levels[q] # << >>} |-> LevelQuantity(levels[p])]

GetOrderInfos ==
  /\ Idle
  /\ reply' = [call |-> "GetOrderInfos", bids |-> LevelInfos(bids), asks |-> LevelInfos(asks)]
  /\ UNCHANGED <<bids, asks, orders_map, orders, order, trades>>

Next ==
  \/ \E id \in OrderIds, type \in OrderType, side \in Side,
        price \in Prices, quantity \in Quantities :
       AddOrder(id, type, side, price, quantity)
  \/ Match
  \/ Return
  \/ \E id \in OrderIds : CancelOrder(id)
  \/ GetOrderInfos

Spec == Init /\ [][Next]_vars

-----------------------------------------------------------------------------
(* Properties *)

\* The type invariant of the book (order_book.hpp, private members): remaining
\* quantities never leave the range of a Quantity, so Fill never underflows.
TypeOK ==
  /\ DOMAIN bids \subseteq Prices /\ bids \in [DOMAIN bids -> Seq(OrderIds)]
  /\ DOMAIN asks \subseteq Prices /\ asks \in [DOMAIN asks -> Seq(OrderIds)]
  /\ orders_map \subseteq OrderIds
  /\ orders \in [OrderIds -> Order \cup {Null}]
  /\ order \in OrderIds \cup {Null}
  /\ trades \in Seq(Trade)

\* A side's levels are never empty, list no order twice, and list live orders
\* of orders_map_ that are of that side and price.
LevelsPointIntoMap(levels, side) ==
  \A p \in DOMAIN levels :
    /\ levels[p] # << >>
    /\ IsInjective(levels[p])
    /\ \A i \in DOMAIN levels[p] :
         LET id == levels[p][i]
         IN  /\ id \in orders_map
             /\ orders[id].id = id
             /\ orders[id].side = side
             /\ orders[id].price = p

\* An order of orders_map_ is alive and stands in the level its price names.
MapPointsInto(levels, side) ==
  \A id \in orders_map :
    orders[id].side = side =>
      /\ orders[id].price \in DOMAIN levels
      /\ id \in Range(levels[orders[id].price])

\* orders_map_ and the two sides hold the same live orders, each exactly once,
\* after every iteration of the matching loop too: what CancelOrderInternal
\* needs for its at() and its stored iterator to be valid.
IndexConsistent ==
  /\ \A id \in orders_map : orders[id] # Null
  /\ LevelsPointIntoMap(bids, "Buy") /\ MapPointsInto(bids, "Buy")
  /\ LevelsPointIntoMap(asks, "Sell") /\ MapPointsInto(asks, "Sell")

\* Between calls every bid is below every ask: MatchOrders stops only when the
\* book is not crossed, and neither killing a remainder nor cancelling crosses it.
NotCrossedAtRest == Idle => \A b \in DOMAIN bids, a \in DOMAIN asks : b < a

\* A FillAndKill order is in the book only while its own AddOrder runs.
FillAndKillNeverRests ==
  \A id \in orders_map : orders[id].type = "FillAndKill" => id = order

TradedBy(id) ==
  SumFunction([i \in {j \in DOMAIN trades : id \in {trades[j].bid.id, trades[j].ask.id}} |->
                 trades[i].bid.quantity])

\* While AddOrder runs, the trades it has recorded for its order add up to what
\* the order has filled, each is the order's own, and none is priced worse than
\* its limit: the server reports exactly the fills that happened.
TradesAccountForFill ==
  ~Idle =>
    LET o == orders[order]
    IN  /\ o.initial - o.remaining = TradedBy(order)
        /\ \A i \in DOMAIN trades :
             /\ trades[i].bid.quantity = trades[i].ask.quantity
             /\ trades[i].ask.price <= trades[i].bid.price
             /\ order = IF o.side = "Buy" THEN trades[i].bid.id ELSE trades[i].ask.id

\* Every iteration of the matching loop takes an order out of the book, so
\* MatchOrders ends after at most as many iterations as there are orders.
MatchShrinksBook ==
  [][~Idle /\ ~Idle' => orders_map' \subseteq orders_map /\ orders_map' # orders_map]_vars

\* Whoever is ahead of an order in its new level was ahead of it in the old.
KeepsTurns(level, newLevel) ==
  \A k \in DOMAIN newLevel, i \in DOMAIN level :
    newLevel[k] = level[i] => \A j \in 1 .. k - 1 : \E h \in 1 .. i - 1 : newLevel[j] = level[h]

LevelsKeepTurns(levels, newLevels) ==
  \A p \in DOMAIN levels \cap DOMAIN newLevels : KeepsTurns(levels[p], newLevels[p])

\* Time priority: nothing that is added, matched or cancelled overtakes an order
\* that is still listed in its level after the step.
TimePriorityKept ==
  [][LevelsKeepTurns(bids, bids') /\ LevelsKeepTurns(asks, asks')]_vars

=============================================================================
