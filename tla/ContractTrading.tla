--------------------------- MODULE ContractTrading ---------------------------
(***************************************************************************)
(* The position manager trading through any broker that keeps the          *)
(* BrokerContract: what the manager achieves must not depend on more.      *)
(*                                                                         *)
(* account is a history variable: what the executed fills add up to.       *)
(***************************************************************************)
EXTENDS PositionManager, BrokerContract

VARIABLE account

vars == <<pmVars, open, account>>

TradingInit ==
  /\ Init
  /\ ContractInit
  /\ account = [s \in Symbols |-> 0]

Strategy ==
  /\ \/ \E symbol \in Symbols, target \in Targets : UpdateTargetPosition(symbol, target)
     \/ Terminate
  /\ UNCHANGED <<open, account>>

-----------------------------------------------------------------------------
(* The thread of PositionManager.run and the calls it makes *)

\* No order of any component bears this id.
Unused(id) ==
  /\ id \notin DOMAIN live_orders \cup DOMAIN open
  /\ \A i \in DOMAIN trade_confirmations_q : trade_confirmations_q[i].client_order_id # id

LoopStep == Loop /\ UNCHANGED <<open, account>>

CancelStep ==
  /\ \E id \in OrderIds, accepted \in BOOLEAN :
       CancelOpposing(id, accepted) /\ CancelRequested(id, accepted)
  /\ UNCHANGED account

PlaceStep ==
  /\ \E id \in OrderIds :
       /\ Unused(id)
       /\ PlaceOrder(id)
       /\ Submitted(id, task.symbol, Magnitude(task.delta), task.delta > 0)
  /\ UNCHANGED account

StopStep == StopBroker /\ Stopped /\ UNCHANGED account

Manager == LoopStep \/ CancelStep \/ PlaceStep \/ StopStep

-----------------------------------------------------------------------------
(* The broker *)

ExecuteStep(id, quantity) ==
  /\ Executed(id, quantity)
  /\ account' = [account EXCEPT ![open[id].symbol] = @ + Signed(open[id].side_is_buy, quantity)]
  /\ UNCHANGED pmVars

ConfirmStep(id, status) ==
  /\ LET conf == [client_order_id |-> id, symbol |-> open[id].symbol,
                  filled_quantity |-> open[id].unreported,
                  side_is_buy |-> open[id].side_is_buy, status |-> status]
     IN  Confirmed(id, conf) /\ TradeConfirmation(conf)
  /\ UNCHANGED account

BrokerStep(id) ==
  /\ id \in DOMAIN open
  /\ \/ \E quantity \in 1 .. open[id].quantity - open[id].filled : ExecuteStep(id, quantity)
     \/ \E status \in Statuses : ConfirmStep(id, status)

\* run() has returned and no order is open.
Finished == pc = "done" /\ open = << >> /\ UNCHANGED vars

Next ==
  \/ Strategy
  \/ Manager
  \/ \E id \in OrderIds : BrokerStep(id)
  \/ Finished

Spec == TradingInit /\ [][Next]_vars

-----------------------------------------------------------------------------
(* Properties *)

\* The type invariant of the manager and of the broker it sees.
TypeOK ==
  /\ ManagerTypeOK
  /\ DOMAIN open \subseteq OrderIds
  /\ open \in [DOMAIN open ->
       [symbol : Symbols, quantity : Nat, side_is_buy : BOOLEAN,
        filled : Nat, unreported : Nat, asked : BOOLEAN]]
  /\ account \in [Symbols -> Int]

\* Every executed fill is in exactly one place: in the position, in a queued
\* confirmation, or with the broker that has not confirmed it yet.
FillsConserved ==
  \A s \in Symbols :
    account[s] = positions[s]
      + SumFunction([i \in {j \in DOMAIN trade_confirmations_q :
                              trade_confirmations_q[j].symbol = s} |->
                       Signed(trade_confirmations_q[i].side_is_buy,
                              trade_confirmations_q[i].filled_quantity)])
      + SumFunction([id \in {i \in DOMAIN open : open[i].symbol = s} |->
                       Signed(open[id].side_is_buy, open[id].unreported)])

QueuedFor(id) ==
  {i \in DOMAIN trade_confirmations_q : trade_confirmations_q[i].client_order_id = id}

\* Every order the manager counts on is owed exactly one terminal answer: it is
\* open at the broker, or that answer is the last of its queued confirmations;
\* and no open order or confirmation belongs to an order the manager forgot.
OrdersAccountedFor ==
  \A id \in OrderIds :
    LET final == {i \in QueuedFor(id) : trade_confirmations_q[i].status \in Terminal}
    IN  /\ id \in DOMAIN live_orders <=> (id \in DOMAIN open) # (final # {})
        /\ id \notin DOMAIN live_orders => id \notin DOMAIN open /\ QueuedFor(id) = {}
        /\ \A i \in final, j \in QueuedFor(id) : j <= i

\* What the manager believes an open order has done is never more than what it
\* has done: the difference is on its way, in the queue or at the broker.
FilledQuantityCatchesUp ==
  \A id \in DOMAIN open :
    open[id].filled = live_orders[id].filled_quantity + open[id].unreported
      + SumFunction([i \in QueuedFor(id) |-> trade_confirmations_q[i].filled_quantity])

=============================================================================
