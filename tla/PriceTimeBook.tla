---------------------------- MODULE PriceTimeBook ----------------------------
(***************************************************************************)
(* What a limit order book promises, with no levels, no index and no loop: *)
(* every call is one step.  The book is a set of resting orders and, for   *)
(* orders of one side and price, which came first.  An order that is added *)
(* is traded at once against the orders it crosses, best price first and   *)
(* oldest first, each as far as the quantity goes; what is left of it      *)
(* rests if it is GoodTillCancel and is forgotten if it is FillAndKill.    *)
(*                                                                         *)
(* OrderBook implements this module (OrderBookRefinement).                 *)
(***************************************************************************)
EXTENDS Integers, FiniteSets, Functions

CONSTANTS OrderIds, Prices, Quantities, Null

VARIABLES
  resting,   \* the open orders, by id
  older,     \* the pairs of open orders of one side and price, older first
  reply      \* what the last call returned

ptVars == <<resting, older, reply>>

Sides == {"Buy", "Sell"}

Init ==
  /\ resting = << >>
  /\ older = {}
  /\ reply = Null

\* Resting orders an order crosses.
Crossed(o) ==
  {id \in DOMAIN resting :
     /\ resting[id].side # o.side
     /\ IF o.side = "Buy" THEN resting[id].price <= o.price
                          ELSE resting[id].price >= o.price}

\* a trades before b: a better price, or the same one and an earlier arrival.
Ahead(a, b) ==
  \/ <<a, b>> \in older
  \/ IF resting[a].side = "Buy" THEN resting[a].price > resting[b].price
                                ELSE resting[a].price < resting[b].price

Available(ids) == SumFunction([id \in ids |-> resting[id].remaining])

\* What an order that is left with this quantity takes of a resting one.
Share(left, id) ==
  IF left <= 0 THEN 0
  ELSE IF left <= resting[id].remaining THEN left ELSE resting[id].remaining

\* An order always trades with the first one it crosses, though one of them has
\* no quantity at all, and with the next as long as anything is left of it.
TradeOf(o, id, quantity) ==
  LET own == [id |-> o.id, price |-> o.price, quantity |-> quantity]
      his == [id |-> id, price |-> resting[id].price, quantity |-> quantity]
  IN  IF o.side = "Buy" THEN [bid |-> own, ask |-> his] ELSE [bid |-> his, ask |-> own]

Add(o) ==
  LET crossed == Crossed(o)
      ahead == [id \in crossed |-> {a \in crossed : Ahead(a, id)}]
      left  == [id \in crossed |-> o.initial - Available(ahead[id])]
      taken == [id \in crossed |-> Share(left[id], id)]
      hit   == {id \in crossed : ahead[id] = {} \/ left[id] > 0}
      nth(n) == CHOOSE id \in hit : Cardinality(ahead[id]) = n - 1
      after == [o EXCEPT !.remaining = o.initial - SumFunction(taken)]
      kept  == {id \in DOMAIN resting : id \in hit => taken[id] < resting[id].remaining}
      stays == (after.remaining > 0 \/ hit = {}) /\ o.type = "GoodTillCancel"
      peers == {id \in kept : resting[id].side = o.side /\ resting[id].price = o.price}
  IN  /\ o.id \notin DOMAIN resting
      /\ resting' = [id \in kept \cup (IF stays THEN {o.id} ELSE {}) |->
                       IF id = o.id THEN after
                       ELSE IF id \in hit THEN [resting[id] EXCEPT !.remaining = @ - taken[id]]
                       ELSE resting[id]]
      /\ older' = (older \cap (kept \X kept)) \cup (IF stays THEN peers \X {o.id} ELSE {})
      /\ reply' = [call   |-> "AddOrder",
                   trades |-> [n \in 1 .. Cardinality(hit) |-> TradeOf(o, nth(n), taken[nth(n)])],
                   order  |-> after]

AddDuplicate(id) ==
  /\ id \in DOMAIN resting
  /\ reply' = [call |-> "AddOrder", trades |-> << >>, order |-> Null]
  /\ UNCHANGED <<resting, older>>

Cancel(id) ==
  LET kept == DOMAIN resting \ {id}
  IN  /\ resting' = Restrict(resting, kept)
      /\ older' = older \cap (kept \X kept)
      /\ reply' = [call |-> "CancelOrder", id |-> id, ok |-> id \in DOMAIN resting]

\* The open quantity of every price of a side.
Depth(side) ==
  LET at(p) == {id \in DOMAIN resting : resting[id].side = side /\ resting[id].price = p}
  IN  [p \in {q \in Prices : at(q) # {}} |-> Available(at(p))]

Report ==
  /\ reply' = [call |-> "GetOrderInfos", bids |-> Depth("Buy"), asks |-> Depth("Sell")]
  /\ UNCHANGED <<resting, older>>

Next ==
  \/ Report
  \/ \E id \in OrderIds : AddDuplicate(id) \/ Cancel(id)
  \/ \E id \in OrderIds, type \in {"GoodTillCancel", "FillAndKill"}, side \in Sides,
        price \in Prices, quantity \in Quantities :
       Add([id |-> id, type |-> type, side |-> side, price |-> price,
            initial |-> quantity, remaining |-> quantity])

Spec == Init /\ [][Next]_ptVars
=============================================================================
