----------------------------- MODULE CppTrading ------------------------------
(***************************************************************************)
(* The position manager with the C++ order book broker, as main_api.py     *)
(* runs them.  The manager submits without a price                         *)
(* (position_manager.py:173, :196) and the broker refuses such an order    *)
(* inside the call (cpp_ob_broker.py:105-108), so no request ever reaches  *)
(* the server and this composition needs nothing of CppOrderBookBroker     *)
(* beyond SubmitUnpriced; that module has the orders of callers that do    *)
(* give a price.  Nor is there a step for a cancel: every order is         *)
(* answered before the next reconciliation, which finds none to cancel     *)
(* (the manager would be stuck, a deadlock, if it did).                    *)
(***************************************************************************)
EXTENDS PositionManager

VARIABLE submitting   \* the order whose submit_order is running, or Null

vars == <<pmVars, submitting>>

TradingInit == Init /\ submitting = Null

\* An endpoint sets a target, or the shutdown event terminates the manager.
Api ==
  /\ \/ \E symbol \in Symbols, target \in Targets : UpdateTargetPosition(symbol, target)
     \/ Terminate
  /\ UNCHANGED submitting

-----------------------------------------------------------------------------
(* The thread of PositionManager.run *)

LoopStep == submitting = Null /\ Loop /\ UNCHANGED submitting

Unused(id) ==
  /\ id \notin DOMAIN live_orders
  /\ \A i \in DOMAIN trade_confirmations_q : trade_confirmations_q[i].client_order_id # id

SubmitStep ==
  /\ submitting = Null
  /\ \E id \in OrderIds :
       Unused(id) /\ PlaceOrder(id) /\ submitting' = id

\* _dispatch_rejection.
RejectionOf(id) ==
  [client_order_id |-> id, symbol |-> live_orders[id].symbol, filled_quantity |-> 0,
   side_is_buy |-> live_orders[id].side_is_buy, status |-> "REJECTED"]

RejectStep ==
  /\ submitting # Null
  /\ TradeConfirmation(RejectionOf(submitting))
  /\ submitting' = Null

StopStep == submitting = Null /\ StopBroker /\ UNCHANGED submitting

Manager == LoopStep \/ SubmitStep \/ RejectStep \/ StopStep

Finished == pc = "done" /\ UNCHANGED vars

Next == Api \/ Manager \/ Finished

Spec == TradingInit /\ [][Next]_vars

FairSpec == Spec /\ WF_vars(Manager)

-----------------------------------------------------------------------------
(* Properties *)

\* Once no more targets come, the position of every symbol becomes its target
\* and stays there, unless the manager is told to stop.
TargetsReached ==
  <>[](terminate_flag \/ \A s \in Symbols : positions[s] = target_positions[s])
=============================================================================
