--------------------------- MODULE SimulatedBroker ---------------------------
(***************************************************************************)
(* position_manager/app/brokers/simulated_broker.py: SimulatedBroker, and  *)
(* a thread for every SimulatedOrder.  The thread of an order is           *)
(*   loop       before the test of its while loop                          *)
(*   filling    in the body of the loop                                    *)
(*   finished   after the loop, before it reads cancelling once more       *)
(*   decided    the confirmation is built, the order still in live_orders  *)
(*   reporting  out of live_orders, the manager's callback is next         *)
(* and it ends, with the object, when the callback returns.  The status    *)
(* attribute, which only get_order_details reads, is left out.             *)
(***************************************************************************)
EXTENDS BrokerInterface

CONSTANT FillDivisor   \* a step fills at most this fraction of the order (10)

ASSUME BrokerAssumption == FillDivisor \in Nat \ {0}

VARIABLES
  sim_orders,   \* the SimulatedOrder objects whose thread runs, by client id
  sim_live      \* the keys of the broker's live_orders

brokerVars == <<sim_orders, sim_live>>

BrokerInit ==
  /\ sim_orders = << >>
  /\ sim_live = {}

-----------------------------------------------------------------------------
(* Calls of the position manager's thread *)

SubmitOrder(id, symbol, quantity, buy) ==
  /\ id \notin sim_live
  /\ sim_orders' =
       [i \in DOMAIN sim_orders \cup {id} |->
          IF i = id THEN [symbol |-> symbol, amount |-> quantity, buy_sell |-> buy,
                          amount_filled |-> 0, cancelling |-> FALSE,
                          final_status |-> "NONE", at |-> "loop"]
          ELSE sim_orders[i]]
  /\ sim_live' = sim_live \cup {id}

\* SimulatedOrder.cancel_order.
Cancelling(o) == [o EXCEPT !.cancelling = TRUE]

\* cancel_order returns accepted: the order was still in live_orders.
CancelOrder(id, accepted) ==
  /\ accepted = (id \in sim_live)
  /\ sim_orders' = IF accepted THEN [sim_orders EXCEPT ![id] = Cancelling(@)] ELSE sim_orders
  /\ UNCHANGED sim_live

\* stop asks every live order to cancel and waits for none.
Stop ==
  /\ sim_orders' = [id \in DOMAIN sim_orders |->
                      IF id \in sim_live THEN Cancelling(sim_orders[id]) ELSE sim_orders[id]]
  /\ UNCHANGED sim_live

-----------------------------------------------------------------------------
(* The thread of an order *)

TestLoop(id) ==
  /\ sim_orders[id].at = "loop"
  /\ sim_orders' = [sim_orders EXCEPT ![id].at =
       IF ~sim_orders[id].cancelling /\ sim_orders[id].amount_filled < sim_orders[id].amount
         THEN "filling" ELSE "finished"]
  /\ UNCHANGED sim_live

FillSizes_NotCapped(o) ==
  {n \in 1 .. o.amount : n = 1 \/ n <= o.amount \div FillDivisor}

FillSizes_FromZero(o) ==
  {n \in 0 .. o.amount - o.amount_filled : n <= 1 \/ n <= o.amount \div FillDivisor}

\* randint(1, max(1, amount // 10)), at most what is missing.
FillSizes(o) ==
  {n \in 1 .. o.amount - o.amount_filled : n = 1 \/ n <= o.amount \div FillDivisor}

Fill(id, quantity) ==
  /\ sim_orders[id].at = "filling"
  /\ quantity \in FillSizes(sim_orders[id])
  /\ sim_orders' = [sim_orders EXCEPT ![id].amount_filled = @ + quantity, ![id].at = "loop"]
  /\ UNCHANGED sim_live

\* A cancel that came after the last fill still decides the status.
Decide(id) ==
  /\ sim_orders[id].at = "finished"
  /\ sim_orders' = [sim_orders EXCEPT
       ![id].final_status = IF sim_orders[id].cancelling THEN "CANCELLED" ELSE "FILLED",
       ![id].at = "decided"]
  /\ UNCHANGED sim_live

Deregister_Never(id) ==
  /\ sim_orders[id].at = "decided"
  /\ sim_orders' = [sim_orders EXCEPT ![id].at = "reporting"]
  /\ UNCHANGED sim_live

\* _internal_sim_trade_callback, under the broker's lock.
Deregister(id) ==
  /\ sim_orders[id].at = "decided"
  /\ sim_orders' = [sim_orders EXCEPT ![id].at = "reporting"]
  /\ sim_live' = sim_live \ {id}

\* The one confirmation of an order.
ConfirmationOf(id) ==
  LET o == sim_orders[id]
  IN  [client_order_id |-> id, symbol |-> o.symbol, filled_quantity |-> o.amount_filled,
       side_is_buy |-> o.buy_sell, status |-> o.final_status]

\* The callback with this confirmation, and the end of the thread.
Report(id, conf) ==
  /\ sim_orders[id].at = "reporting"
  /\ conf = ConfirmationOf(id)
  /\ sim_orders' = Without(sim_orders, id)
  /\ UNCHANGED sim_live

=============================================================================
