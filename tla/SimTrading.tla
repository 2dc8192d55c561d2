----------------------------- MODULE SimTrading ------------------------------
(***************************************************************************)
(* The position manager trading through the simulated broker, as           *)
(* strategy_runner.py runs them: the main thread, the thread of            *)
(* PositionManager.run and a thread for every simulated order.             *)
(*                                                                         *)
(* account is a history variable: what the executed fills add up to.       *)
(***************************************************************************)
EXTENDS StrategyRunner, SimulatedBroker

VARIABLE account

vars == <<pmVars, runner, brokerVars, account>>

TradingInit ==
  /\ Init
  /\ RunnerInit
  /\ BrokerInit
  /\ account = [s \in Symbols |-> 0]

-----------------------------------------------------------------------------
(* The main thread *)

RunnerStep == Runner /\ UNCHANGED <<brokerVars, account>>

-----------------------------------------------------------------------------
(* The thread of PositionManager.run *)

\* No order of any component bears this id.
Unused(id) ==
  /\ id \notin DOMAIN live_orders \cup DOMAIN sim_orders
  /\ \A i \in DOMAIN trade_confirmations_q : trade_confirmations_q[i].client_order_id # id

LoopStep == Loop /\ UNCHANGED <<brokerVars, account>>

CancelStep ==
  /\ \E id \in OrderIds, accepted \in BOOLEAN :
       CancelOpposing(id, accepted) /\ CancelOrder(id, accepted)
  /\ UNCHANGED account

PlaceStep ==
  /\ \E id \in OrderIds :
       /\ Unused(id)
       /\ PlaceOrder(id)
       /\ SubmitOrder(id, task.symbol, Magnitude(task.delta), task.delta > 0)
  /\ UNCHANGED account

StopStep == StopBroker /\ Stop /\ UNCHANGED account

Manager ==
  /\ Running
  /\ LoopStep \/ CancelStep \/ PlaceStep \/ StopStep
  /\ UNCHANGED runner

-----------------------------------------------------------------------------
(* The thread of an order *)

FillStep(id) ==
  /\ \E quantity \in FillSizes(sim_orders[id]) :
       /\ Fill(id, quantity)
       /\ account' = [account EXCEPT ![sim_orders[id].symbol] =
                        @ + Signed(sim_orders[id].buy_sell, quantity)]
  /\ UNCHANGED pmVars

ReportStep(id) ==
  /\ \E conf \in {ConfirmationOf(id)} : Report(id, conf) /\ TradeConfirmation(conf)
  /\ UNCHANGED account

OrderThread(id) ==
  /\ Running
  /\ id \in DOMAIN sim_orders
  /\ \/ (TestLoop(id) \/ Decide(id) \/ Deregister(id)) /\ UNCHANGED <<pmVars, account>>
     \/ FillStep(id)
     \/ ReportStep(id)
  /\ UNCHANGED runner

Finished == ~Running /\ UNCHANGED vars

Next ==
  \/ RunnerStep
  \/ Manager
  \/ \E id \in OrderIds : OrderThread(id)
  \/ Finished

Spec == TradingInit /\ [][Next]_vars

\* The operating system runs every thread.
Fairness ==
  /\ WF_vars(Manager)
  /\ \A id \in OrderIds : WF_vars(OrderThread(id))

FairSpec == Spec /\ Fairness

-----------------------------------------------------------------------------
(* Properties *)

\* The type invariant of the manager and the simulated broker.
TypeOK ==
  /\ ManagerTypeOK
  /\ DOMAIN sim_orders \subseteq OrderIds
  /\ sim_orders \in [DOMAIN sim_orders ->
       [symbol : Symbols, amount : Nat, buy_sell : BOOLEAN, amount_filled : Nat,
        cancelling : BOOLEAN, final_status : {"NONE", "FILLED", "CANCELLED"},
        at : {"loop", "filling", "finished", "decided", "reporting"}]]
  /\ sim_live \subseteq DOMAIN sim_orders
  /\ account \in [Symbols -> Int]

\* An order as a broker that keeps the contract sees it.
AsOpen(o) ==
  [symbol |-> o.symbol, quantity |-> o.amount, side_is_buy |-> o.buy_sell,
   filled |-> o.amount_filled, unreported |-> o.amount_filled, asked |-> o.cancelling]

Contract ==
  INSTANCE ContractTrading
    WITH open <- [id \in DOMAIN sim_orders |-> AsOpen(sim_orders[id])]

\* The simulated broker keeps the contract of BrokerInterface: one terminal
\* confirmation per order with all its fills, never filled beyond its amount,
\* CANCELLED only if that was asked, whatever races with its thread.
ImplementsContract == Contract!Spec

\* Every order the broker took is confirmed in the end, unless the process ends.
OrdersTerminate ==
  \A id \in OrderIds : id \in DOMAIN sim_orders ~> id \notin DOMAIN sim_orders \/ ~Running

OnTarget == \A s \in Symbols : positions[s] = target_positions[s]

NothingFilled(id) == sim_orders[id].at = "reporting" /\ sim_orders[id].amount_filled = 0

\* Once no more targets come, the position of every symbol becomes its target
\* and stays there, unless the manager is told to stop.  When a target changes
\* sides the manager cancels, replaces and cancels again; only if again and
\* again an order is cancelled before its first fill may that never end
\* (position_manager.py:146-197).
TargetsReached ==
  \/ <>[](terminate_flag \/ OnTarget)
  \/ []<>(\E id \in DOMAIN sim_orders : NothingFilled(id))

\* BrokerInterface.stop processes pending tasks: after run() has returned, what
\* was executed comes to be in the positions.
StopProcessesPending ==
  pc = "done" ~> positions = account

=============================================================================
