------------------------- MODULE OrderBookRefinement -------------------------
(***************************************************************************)
(* OrderBook implements PriceTimeBook.  AddOrder takes several steps that  *)
(* its caller cannot see, so the abstract book is the one of the last      *)
(* moment the book was idle: the history variable atRest keeps it, and the *)
(* step that leaves AddOrder is the abstract one.                          *)
(***************************************************************************)
EXTENDS OrderBook

VARIABLE atRest   \* the abstract book when the last call returned

\* The pairs of orders of a level, the one in front first.
InTurn(levels) ==
  {pair \in OrderIds \X OrderIds :
     \E p \in DOMAIN levels : \E i, j \in DOMAIN levels[p] :
       i < j /\ pair = <<levels[p][i], levels[p][j]>>}

\* The abstract book a concrete one stands for: its live orders, by level turn.
Abstraction ==
  [resting |-> Restrict(orders, {id \in OrderIds : orders[id] # Null}),
   older   |-> InTurn(bids) \cup InTurn(asks)]

rvars == <<vars, atRest>>

RInit == Init /\ atRest = Abstraction

RNext == Next /\ atRest' = IF order' = Null THEN Abstraction' ELSE atRest

RSpec == RInit /\ [][RNext]_rvars

Contract ==
  INSTANCE PriceTimeBook WITH resting <- atRest.resting, older <- atRest.older

\* Whatever the calls, the book trades, rests, kills, cancels and reports as a
\* price-time-priority book does: MatchOrders and the erasures around it amount
\* to one atomic allocation of the incoming quantity.
ImplementsPriceTimeBook == Contract!Spec

=============================================================================
