--------------------------- MODULE PositionManager ---------------------------
(***************************************************************************)
(* position_manager/app/position_manager.py: class PositionManager.        *)
(*                                                                         *)
(* Strategy and broker threads only put into the two queues; everything    *)
(* else is written by the thread of run(), whose control is pc:            *)
(*   top        the test of terminate_flag                                 *)
(*   trades     _process_trade_confirmations, one message a step           *)
(*   targets    _process_target_updates, one message a step                *)
(*   reconcile  _reconcile_positions, the next symbol                      *)
(*   orders     the cancels and the new order of that symbol               *)
(*   stop       after the loop, broker.stop() is next                      *)
(*   done       run() has returned                                         *)
(* The calls to the broker are parameters of the steps that make them: a   *)
(* module that composes the manager with a broker joins them.              *)
(***************************************************************************)
EXTENDS BrokerInterface, SequencesExt

CONSTANTS
  Targets,      \* the target positions a strategy may ask for
  MaxUpdates,   \* bound: how many targets the strategy sends
  Null

ASSUME ManagerAssumption ==
  /\ Targets \subseteq Int
  /\ MaxUpdates \in Nat

VARIABLES
  positions,               \* what the processed confirmations add up to
  target_positions,
  live_orders,             \* client order id |-> OrderDetails
  live_orders_by_symbol,   \* symbol |-> ids in the order they were placed
  target_updates_q,
  trade_confirmations_q,
  terminate_flag,
  pc,
  symbols_to_check,        \* symbols this turn of the loop must reconcile
  task,                    \* the symbol at hand, its delta, the ids to cancel
  updates                  \* how many targets the strategy has sent

queues == <<target_updates_q, trade_confirmations_q>>
books == <<positions, target_positions, live_orders, live_orders_by_symbol>>
control == <<pc, symbols_to_check, task>>
pmVars == <<books, queues, terminate_flag, control, updates>>

Magnitude_Signed(n) == n

\* abs.
Magnitude(n) == IF n < 0 THEN -n ELSE n

-----------------------------------------------------------------------------
(* Computing what to do *)

Affected_Never(symbol) == symbols_to_check

\* symbols_affected.add: the symbol is reconciled in this turn of the loop.
Affected(symbol) == symbols_to_check \cup {symbol}

WorkingEffect_NotPendingCancel(o) ==
  IF o.status \notin Terminal \cup {"PENDING_CANCEL"} /\ o.quantity > o.filled_quantity
    THEN Signed(o.side_is_buy, o.quantity - o.filled_quantity) ELSE 0

\* What a live order may still add to the position; one that is being
\* cancelled counts as if it would fill.
WorkingEffect(o) ==
  IF o.status \notin Terminal /\ o.quantity > o.filled_quantity
    THEN Signed(o.side_is_buy, o.quantity - o.filled_quantity) ELSE 0

\* _calculate_working_position.
WorkingPosition(symbol) ==
  LET ids == {id \in Range(live_orders_by_symbol[symbol]) : id \in DOMAIN live_orders}
  IN  positions[symbol] + SumFunction([id \in ids |-> WorkingEffect(live_orders[id])])

\* Live orders of the symbol on the other side of a trade of this direction
\* that nobody asked to cancel yet.
Opposing(symbol, buy) ==
  {id \in Range(live_orders_by_symbol[symbol]) :
     /\ id \in DOMAIN live_orders
     /\ live_orders[id].side_is_buy # buy
     /\ live_orders[id].status \notin Terminal \cup {"PENDING_CANCEL"}}

-----------------------------------------------------------------------------
(* Other threads *)

Init ==
  /\ positions = [s \in Symbols |-> 0]
  /\ target_positions = [s \in Symbols |-> 0]
  /\ live_orders = << >>
  /\ live_orders_by_symbol = [s \in Symbols |-> << >>]
  /\ target_updates_q = << >>
  /\ trade_confirmations_q = << >>
  /\ terminate_flag = FALSE
  /\ pc = "top"
  /\ symbols_to_check = {}
  /\ task = Null
  /\ updates = 0

\* The strategy asks for a target position.
UpdateTargetPosition(symbol, target) ==
  /\ updates < MaxUpdates
  /\ target_updates_q' = Append(target_updates_q, [symbol |-> symbol, target |-> target])
  /\ updates' = updates + 1
  /\ UNCHANGED <<books, trade_confirmations_q, terminate_flag, control>>

\* A broker thread calls _trade_confirmation_callback.
TradeConfirmation(conf) ==
  /\ trade_confirmations_q' = Append(trade_confirmations_q, conf)
  /\ UNCHANGED <<books, target_updates_q, terminate_flag, control, updates>>

Terminate ==
  /\ ~terminate_flag
  /\ terminate_flag' = TRUE
  /\ UNCHANGED <<books, queues, control, updates>>

-----------------------------------------------------------------------------
(* The thread of run() *)

LoopTop ==
  /\ pc = "top"
  /\ pc' = IF terminate_flag THEN "stop" ELSE "trades"
  /\ UNCHANGED <<books, queues, terminate_flag, symbols_to_check, task, updates>>

BookedFill_Unsigned(conf) == conf.filled_quantity

\* What a confirmation moves the position by.
BookedFill(conf) == Signed(conf.side_is_buy, conf.filled_quantity)

ForgetOrder_KeepsIndex(id, symbol) ==
  live_orders' = Without(live_orders, id) /\ UNCHANGED live_orders_by_symbol

ForgetOrder_KeepsDetails(id, symbol) ==
  /\ live_orders_by_symbol' = [live_orders_by_symbol EXCEPT ![symbol] = RemoveFirst(@, id)]
  /\ UNCHANGED live_orders

\* A terminal confirmation takes the order out of both maps.
ForgetOrder(id, symbol) ==
  /\ live_orders' = Without(live_orders, id)
  /\ live_orders_by_symbol' = [live_orders_by_symbol EXCEPT ![symbol] = RemoveFirst(@, id)]

UpdateOrder_Overwrites(id, filled, status) ==
  /\ live_orders' = [live_orders EXCEPT ![id].filled_quantity = filled, ![id].status = status]
  /\ UNCHANGED live_orders_by_symbol

\* Any other one adds to what is filled and sets the status.
UpdateOrder(id, filled, status) ==
  /\ live_orders' = [live_orders EXCEPT ![id].filled_quantity = @ + filled,
                                       ![id].status = status]
  /\ UNCHANGED live_orders_by_symbol

\* One message of the queue; that of an order it does not know moves the
\* position all the same.
ProcessTradeConfirmation ==
  /\ pc = "trades"
  /\ trade_confirmations_q # << >>
  /\ LET conf == Head(trade_confirmations_q)
         id   == conf.client_order_id
     IN  /\ positions' = [positions EXCEPT ![conf.symbol] = @ + BookedFill(conf)]
         /\ symbols_to_check' = Affected(conf.symbol)
         /\ IF id \notin DOMAIN live_orders
              THEN UNCHANGED <<live_orders, live_orders_by_symbol>>
            ELSE IF conf.status \in Terminal
              THEN ForgetOrder(id, conf.symbol)
            ELSE UpdateOrder(id, conf.filled_quantity, conf.status)
  /\ trade_confirmations_q' = Tail(trade_confirmations_q)
  /\ UNCHANGED <<target_positions, target_updates_q, terminate_flag, pc, task, updates>>

TradeConfirmationsDone ==
  /\ pc = "trades"
  /\ trade_confirmations_q = << >>
  /\ pc' = "targets"
  /\ UNCHANGED <<books, queues, terminate_flag, symbols_to_check, task, updates>>

ProcessTargetUpdate ==
  /\ pc = "targets"
  /\ target_updates_q # << >>
  /\ LET update == Head(target_updates_q)
     IN  /\ target_positions' = [target_positions EXCEPT ![update.symbol] = update.target]
         /\ symbols_to_check' = Affected(update.symbol)
  /\ target_updates_q' = Tail(target_updates_q)
  /\ UNCHANGED <<positions, live_orders, live_orders_by_symbol, trade_confirmations_q,
                 terminate_flag, pc, task, updates>>

\* Where the thread goes when these symbols are left to reconcile.
Continue(symbols) == IF symbols = {} THEN "top" ELSE "reconcile"

TargetUpdatesDone ==
  /\ pc = "targets"
  /\ target_updates_q = << >>
  /\ pc' = Continue(symbols_to_check)
  /\ UNCHANGED <<books, queues, terminate_flag, symbols_to_check, task, updates>>

\* _reconcile_positions takes the next symbol of the set and its delta.
Reconcile(symbol) ==
  /\ pc = "reconcile"
  /\ symbol \in symbols_to_check
  /\ symbols_to_check' = symbols_to_check \ {symbol}
  /\ LET delta == target_positions[symbol] - WorkingPosition(symbol)
     IN  \/ /\ delta = 0
            /\ pc' = Continue(symbols_to_check')
            /\ UNCHANGED task
         \/ /\ delta # 0
            /\ pc' = "orders"
            /\ task' = [symbol |-> symbol, delta |-> delta,
                        cancels |-> Opposing(symbol, delta > 0)]
  /\ UNCHANGED <<books, queues, terminate_flag, updates>>

\* The orders to cancel are taken in the turn they were placed.
NextToCancel(id) ==
  LET ids == live_orders_by_symbol[task.symbol]
  IN  /\ id \in task.cancels
      /\ \E i \in DOMAIN ids : ids[i] = id /\ \A j \in 1 .. i - 1 : ids[j] \notin task.cancels

\* broker.cancel_order(id) returned accepted.
CancelOpposing(id, accepted) ==
  /\ pc = "orders"
  /\ NextToCancel(id)
  /\ live_orders' = IF accepted THEN [live_orders EXCEPT ![id].status = "PENDING_CANCEL"]
                                ELSE live_orders
  /\ task' = [task EXCEPT !.cancels = @ \ {id}]
  /\ UNCHANGED <<positions, target_positions, live_orders_by_symbol, queues,
                 terminate_flag, pc, symbols_to_check, updates>>

\* The new order of the symbol, submitted to the broker under a fresh id.
PlaceOrder(id) ==
  /\ pc = "orders"
  /\ task.cancels = {}
  /\ id \notin DOMAIN live_orders
  /\ live_orders' =
       [i \in DOMAIN live_orders \cup {id} |->
          IF i = id THEN [symbol |-> task.symbol, quantity |-> Magnitude(task.delta),
                          side_is_buy |-> task.delta > 0, status |-> "PENDING_NEW",
                          filled_quantity |-> 0]
          ELSE live_orders[i]]
  /\ live_orders_by_symbol' = [live_orders_by_symbol EXCEPT ![task.symbol] = Append(@, id)]
  /\ task' = Null
  /\ pc' = Continue(symbols_to_check)
  /\ UNCHANGED <<positions, target_positions, queues, terminate_flag, symbols_to_check, updates>>

\* After the loop: broker.stop(), and run() returns.
StopBroker ==
  /\ pc = "stop"
  /\ pc' = "done"
  /\ UNCHANGED <<books, queues, terminate_flag, symbols_to_check, task, updates>>

\* The steps of the thread that call no broker.
Loop ==
  \/ LoopTop
  \/ ProcessTradeConfirmation
  \/ TradeConfirmationsDone
  \/ ProcessTargetUpdate
  \/ TargetUpdatesDone
  \/ \E symbol \in Symbols : Reconcile(symbol)

-----------------------------------------------------------------------------
(* Properties *)

\* The types of the manager's attributes (PositionManager.__init__).
ManagerTypeOK ==
  /\ positions \in [Symbols -> Int]
  /\ target_positions \in [Symbols -> Int]
  /\ DOMAIN live_orders \subseteq OrderIds
  /\ live_orders \in [DOMAIN live_orders -> OrderDetails]
  /\ live_orders_by_symbol \in [Symbols -> Seq(OrderIds)]
  /\ target_updates_q \in Seq([symbol : Symbols, target : Targets])
  /\ trade_confirmations_q \in Seq(TradeConfirmationMessage)
  /\ terminate_flag \in BOOLEAN
  /\ pc \in {"top", "trades", "targets", "reconcile", "orders", "stop", "done"}
  /\ symbols_to_check \subseteq Symbols
  /\ task \in [symbol : Symbols, delta : Int, cancels : SUBSET OrderIds] \cup {Null}
  /\ updates \in 0 .. MaxUpdates

\* The two maps of the manager agree, and its index lists no order twice.
IndexesAgree ==
  /\ \A s \in Symbols : IsInjective(live_orders_by_symbol[s])
  /\ \A s \in Symbols, id \in OrderIds :
       id \in Range(live_orders_by_symbol[s])
         <=> id \in DOMAIN live_orders /\ live_orders[id].symbol = s

\* At the top of the loop the position of a symbol and what its live orders may
\* still add are its target: no reconciliation orders too much or too little,
\* whatever was cancelled, filled or confirmed while it ran.
OnTargetAtLoopTop ==
  pc = "top" =>
    \A s \in Symbols :
      target_positions[s] = positions[s]
        + SumFunction([id \in {i \in DOMAIN live_orders : live_orders[i].symbol = s} |->
                         Signed(live_orders[id].side_is_buy,
                                live_orders[id].quantity - live_orders[id].filled_quantity)])

\* Cancelling and replacing never multiplies orders: every order in flight is
\* owed to a target of its own that the strategy has sent.
OrdersBoundedByUpdates ==
  Cardinality(DOMAIN live_orders) + Len(target_updates_q) <= updates

=============================================================================
