--------------------------- MODULE BrokerContract ----------------------------
(***************************************************************************)
(* What BrokerInterface promises the position manager, for any broker: an  *)
(* order that is submitted is open until its one terminal confirmation;    *)
(* while it is open it may be executed, never for more than its quantity,  *)
(* and every executed share is confirmed exactly once.                     *)
(***************************************************************************)
EXTENDS BrokerInterface

VARIABLE open   \* the orders the broker owes a terminal confirmation, by id

ContractInit == open = << >>

\* submit_order.
Submitted(id, symbol, quantity, buy) ==
  /\ id \notin DOMAIN open
  /\ open' = [i \in DOMAIN open \cup {id} |->
                IF i = id THEN [symbol |-> symbol, quantity |-> quantity, side_is_buy |-> buy,
                                filled |-> 0, unreported |-> 0, asked |-> FALSE]
                ELSE open[i]]

Asked(o) == [o EXCEPT !.asked = TRUE]

\* cancel_order returns accepted; the order stays open.
CancelRequested(id, accepted) ==
  /\ accepted => id \in DOMAIN open
  /\ open' = IF accepted THEN [open EXCEPT ![id] = Asked(@)] ELSE open

\* stop may ask any open orders to cancel.
Stopped ==
  \E ids \in SUBSET DOMAIN open :
    open' = [id \in DOMAIN open |-> IF id \in ids THEN Asked(open[id]) ELSE open[id]]

Executed(id, quantity) ==
  /\ id \in DOMAIN open
  /\ quantity \in 1 .. open[id].quantity - open[id].filled
  /\ open' = [open EXCEPT ![id].filled = @ + quantity, ![id].unreported = @ + quantity]

\* The statuses an order may end with: all of it is done, its cancellation was
\* asked for, or nothing of it was done.
FinalStatuses(o) ==
  {status \in Terminal :
     /\ status = "FILLED" => o.filled = o.quantity
     /\ status = "CANCELLED" => o.asked
     /\ status = "REJECTED" => o.filled = 0}

\* The callback: it carries what was executed since the last one.
Confirmed(id, conf) ==
  /\ id \in DOMAIN open
  /\ conf.client_order_id = id
  /\ conf.symbol = open[id].symbol
  /\ conf.side_is_buy = open[id].side_is_buy
  /\ conf.filled_quantity = open[id].unreported
  /\ \/ /\ conf.status = "PARTIALLY_FILLED"
        /\ open[id].unreported > 0
        /\ open' = [open EXCEPT ![id].unreported = 0]
     \/ /\ conf.status \in FinalStatuses(open[id])
        /\ open' = Without(open, id)

=============================================================================
