-------------------------- MODULE SimTradingProofs ---------------------------
(***************************************************************************)
(* The manager with the simulated broker implements the manager with any   *)
(* broker that keeps the contract, so it has the properties proved of      *)
(* that.                                                                   *)
(*                                                                         *)
(* BrokerOK is the invariant of the broker the steps need; every step of   *)
(* an order's thread, of the manager and of the runner is then a step of   *)
(* the contract or one it does not see. The proofs of the contract come in *)
(* through the instance CP.                                                *)
(***************************************************************************)
EXTENDS SimTrading, FiniteSetTheorems, TLAPS

\* The orders as the broker contract sees them.
Open == [id \in DOMAIN sim_orders |-> AsOpen(sim_orders[id])]

\* The contract's theorems, about these orders.
CP == INSTANCE ContractTradingProofs WITH open <- Open

-----------------------------------------------------------------------------
(* The manager is the same in both specifications *)

\* The contract's assumption on the targets is the manager's.
LEMMA Assumed == CP!ManagerAssumption
BY ManagerAssumption DEF CP!ManagerAssumption

\* The sums of both specifications are the same.
LEMMA SameSum == \A f : CP!SumFunction(f) = SumFunction(f)
BY DEF CP!SumFunction, CP!SumFunctionOnSet, CP!FoldFunctionOnSet, CP!MapThenFoldSet,
       SumFunction, SumFunctionOnSet, FoldFunctionOnSet, MapThenFoldSet

\* So are the state functions they are written with.
LEMMA SameStates ==
  /\ CP!books = books /\ CP!queues = queues /\ CP!control = control /\ CP!pmVars = pmVars
  /\ CP!vars = <<pmVars, Open, account>>
BY DEF CP!books, books, CP!queues, queues, CP!control, control, CP!pmVars, pmVars, CP!vars

\* So are the manager's initial states.
LEMMA SameInit == CP!Init <=> Init
BY DEF CP!Init, Init

\* So are the steps that call no broker.
LEMMA SameLoop == CP!Loop <=> Loop
BY DEF CP!books, books, CP!queues, queues, CP!Loop, Loop, CP!LoopTop, LoopTop,
       CP!ProcessTradeConfirmation, ProcessTradeConfirmation,
       CP!BookedFill, BookedFill, CP!Affected, Affected, CP!Signed, Signed,
       CP!ForgetOrder, ForgetOrder, CP!Without, Without, CP!Restrict, Restrict,
       CP!Terminal, Terminal, CP!RemoveFirst, RemoveFirst, CP!SelectInSeq, SelectInSeq,
       CP!RemoveAt, RemoveAt, CP!Min, Min, CP!UpdateOrder, UpdateOrder,
       CP!TradeConfirmationsDone, TradeConfirmationsDone,
       CP!ProcessTargetUpdate, ProcessTargetUpdate, CP!TargetUpdatesDone, TargetUpdatesDone,
       CP!Continue, Continue, CP!Reconcile, Reconcile, CP!WorkingPosition, WorkingPosition,
       CP!WorkingEffect, WorkingEffect, CP!Opposing, Opposing, CP!Range, Range,
       CP!SumFunction, SumFunction, CP!SumFunctionOnSet, SumFunctionOnSet,
       CP!FoldFunctionOnSet, FoldFunctionOnSet, CP!MapThenFoldSet, MapThenFoldSet

\* So are the steps that do, and the calls of other threads.
LEMMA SameCalls ==
  /\ \A id, accepted : CP!CancelOpposing(id, accepted) <=> CancelOpposing(id, accepted)
  /\ \A id : CP!PlaceOrder(id) <=> PlaceOrder(id)
  /\ CP!StopBroker <=> StopBroker
  /\ \A conf : CP!TradeConfirmation(conf) <=> TradeConfirmation(conf)
  /\ \A symbol, target :
       CP!UpdateTargetPosition(symbol, target) <=> UpdateTargetPosition(symbol, target)
  /\ CP!Terminate <=> Terminate
  /\ \A n : CP!Magnitude(n) = Magnitude(n)
  /\ \A buy, n : CP!Signed(buy, n) = Signed(buy, n)
<1>1. \A n : CP!Magnitude(n) = Magnitude(n)
  BY DEF CP!Magnitude, Magnitude
<1>2. \A buy, n : CP!Signed(buy, n) = Signed(buy, n)
  BY DEF CP!Signed, Signed
<1>3. \A id, accepted : CP!CancelOpposing(id, accepted) <=> CancelOpposing(id, accepted)
  BY DEF CP!queues, queues, CP!CancelOpposing, CancelOpposing, CP!NextToCancel, NextToCancel
<1>4. \A id : CP!PlaceOrder(id) <=> PlaceOrder(id)
  BY <1>1 DEF CP!queues, queues, CP!PlaceOrder, PlaceOrder, CP!Continue, Continue
<1>5. CP!StopBroker <=> StopBroker
  BY DEF CP!books, books, CP!queues, queues, CP!StopBroker, StopBroker
<1>6. \A conf : CP!TradeConfirmation(conf) <=> TradeConfirmation(conf)
  BY DEF CP!books, books, CP!control, control, CP!TradeConfirmation, TradeConfirmation
<1>7. \A symbol, target :
        CP!UpdateTargetPosition(symbol, target) <=> UpdateTargetPosition(symbol, target)
  BY DEF CP!books, books, CP!control, control, CP!UpdateTargetPosition, UpdateTargetPosition
<1>8. CP!Terminate <=> Terminate
  BY DEF CP!books, books, CP!queues, queues, CP!control, control, CP!Terminate, Terminate
<1> QED
  BY <1>1, <1>2, <1>3, <1>4, <1>5, <1>6, <1>7, <1>8

-----------------------------------------------------------------------------
(* The threads of the orders *)

\* A SimulatedOrder and where its thread is.
SimOrder ==
  [symbol : Symbols, amount : Nat, buy_sell : BOOLEAN, amount_filled : Nat,
   cancelling : BOOLEAN, final_status : {"NONE", "FILLED", "CANCELLED"},
   at : {"loop", "filling", "finished", "decided", "reporting"}]

\* An order is not filled beyond its amount, it leaves its loop filled or asked
\* to cancel, and the status it reports says which.
ThreadOK(o) ==
  /\ o.amount_filled <= o.amount
  /\ o.at = "finished" => o.cancelling \/ o.amount_filled = o.amount
  /\ o.at \in {"decided", "reporting"} =>
       \/ o.final_status = "FILLED" /\ o.amount_filled = o.amount
       \/ o.final_status = "CANCELLED" /\ o.cancelling

\* The inductive invariant of the broker: live_orders has the orders whose threads
\* have not taken them out yet.
BrokerOK ==
  /\ DOMAIN sim_orders \subseteq OrderIds
  /\ sim_orders \in [DOMAIN sim_orders -> SimOrder]
  /\ \A id \in DOMAIN sim_orders : ThreadOK(sim_orders[id])
  /\ sim_live = {id \in DOMAIN sim_orders : sim_orders[id].at # "reporting"}

\* At the start the broker has no order.
LEMMA BrokerInitOK == BrokerInit => BrokerOK
BY DEF BrokerInit, BrokerOK

\* One order changes, or none, and stays registered until it reports.
LEMMA OneOrder ==
  ASSUME BrokerOK, NEW id \in DOMAIN sim_orders, DOMAIN sim_orders' = DOMAIN sim_orders,
         \A i \in DOMAIN sim_orders \ {id} : sim_orders'[i] = sim_orders[i],
         sim_orders' \in [DOMAIN sim_orders -> SimOrder],
         ThreadOK(sim_orders'[id]),
         sim_live' = IF sim_orders'[id].at = "reporting" THEN sim_live \ {id}
                     ELSE sim_live \cup {id}
  PROVE  BrokerOK'
<1>1. \A i \in DOMAIN sim_orders' : ThreadOK(sim_orders'[i])
  BY DEF BrokerOK
<1>2. sim_live' = {i \in DOMAIN sim_orders' : sim_orders'[i].at # "reporting"}
  BY DEF BrokerOK
<1> QED
  BY <1>1, <1>2 DEF BrokerOK, ThreadOK

\* The steps of an order's thread keep the invariant.
LEMMA ThreadKeepsBrokerOK ==
  ASSUME BrokerOK, NEW id \in DOMAIN sim_orders,
         \/ TestLoop(id) \/ Decide(id) \/ Deregister(id)
         \/ \E quantity : Fill(id, quantity)
  PROVE  BrokerOK'
<1> DEFINE o == sim_orders[id]
           p == sim_orders'[id]
<1>1. /\ sim_orders \in [DOMAIN sim_orders -> SimOrder] /\ o \in SimOrder /\ ThreadOK(o)
      /\ id \in sim_live <=> o.at # "reporting"
  BY DEF BrokerOK
<1>2. /\ o.amount \in Nat /\ o.amount_filled \in Nat /\ o.cancelling \in BOOLEAN
      /\ o.symbol \in Symbols /\ o.buy_sell \in BOOLEAN
      /\ o.final_status \in {"NONE", "FILLED", "CANCELLED"}
  BY <1>1 DEF SimOrder
<1>3. CASE TestLoop(id)
  <2> DEFINE next == IF ~o.cancelling /\ o.amount_filled < o.amount THEN "filling" ELSE "finished"
  <2>1. /\ o.at = "loop" /\ sim_orders' = [sim_orders EXCEPT ![id].at = next]
        /\ sim_live' = sim_live
    BY <1>3 DEF TestLoop
  <2>2. /\ p.amount = o.amount /\ p.amount_filled = o.amount_filled
        /\ p.cancelling = o.cancelling /\ p.at = next /\ p \in SimOrder
    BY <1>1, <2>1 DEF SimOrder
  <2>3. ThreadOK(p)
    BY <1>1, <1>2, <2>2 DEF ThreadOK
  <2> QED
    BY <1>1, <2>1, <2>2, <2>3, OneOrder
<1>4. CASE Decide(id)
  <2> DEFINE final == IF o.cancelling THEN "CANCELLED" ELSE "FILLED"
  <2>1. /\ o.at = "finished" /\ sim_live' = sim_live
        /\ sim_orders' = [sim_orders EXCEPT ![id].final_status = final, ![id].at = "decided"]
    BY <1>4 DEF Decide
  <2>2. /\ p.amount = o.amount /\ p.amount_filled = o.amount_filled
        /\ p.cancelling = o.cancelling /\ p.final_status = final /\ p.at = "decided"
        /\ p \in SimOrder
    BY <1>1, <2>1 DEF SimOrder
  <2>3. ThreadOK(p)
    BY <1>1, <1>2, <2>1, <2>2 DEF ThreadOK
  <2> QED
    BY <1>1, <2>1, <2>2, <2>3, OneOrder
<1>5. CASE Deregister(id)
  <2>1. /\ o.at = "decided" /\ sim_live' = sim_live \ {id}
        /\ sim_orders' = [sim_orders EXCEPT ![id].at = "reporting"]
    BY <1>5 DEF Deregister
  <2>2. /\ p.amount = o.amount /\ p.amount_filled = o.amount_filled
        /\ p.cancelling = o.cancelling /\ p.final_status = o.final_status /\ p.at = "reporting"
        /\ p \in SimOrder
    BY <1>1, <2>1 DEF SimOrder
  <2>3. ThreadOK(p)
    BY <1>1, <1>2, <2>1, <2>2 DEF ThreadOK
  <2> QED
    BY <1>1, <2>1, <2>2, <2>3, OneOrder
<1>6. ASSUME NEW quantity, Fill(id, quantity) PROVE BrokerOK'
  <2>1. /\ o.at = "filling" /\ sim_live' = sim_live
        /\ quantity \in 1 .. o.amount - o.amount_filled
        /\ sim_orders' = [sim_orders EXCEPT ![id].amount_filled = @ + quantity, ![id].at = "loop"]
    BY <1>6 DEF Fill, FillSizes
  <2>2. /\ p.amount = o.amount /\ p.amount_filled = o.amount_filled + quantity
        /\ p.cancelling = o.cancelling /\ p.at = "loop" /\ p \in SimOrder
    <3>1. o.amount_filled + quantity \in Nat
      BY <1>2, <2>1
    <3> QED
      BY <1>1, <1>2, <2>1, <3>1 DEF SimOrder
  <2>3. ThreadOK(p)
    BY <1>1, <1>2, <2>1, <2>2 DEF ThreadOK
  <2> QED
    BY <1>1, <2>1, <2>2, <2>3, OneOrder
<1> QED
  BY <1>3, <1>4, <1>5, <1>6

\* The callback ends the thread of its order.
LEMMA ReportKeepsBrokerOK ==
  ASSUME BrokerOK, NEW id \in DOMAIN sim_orders, NEW conf, Report(id, conf)
  PROVE  BrokerOK'
<1>1. /\ sim_orders' = [i \in DOMAIN sim_orders \ {id} |-> sim_orders[i]]
      /\ sim_orders[id].at = "reporting" /\ sim_live' = sim_live
  BY DEF Report, Without, Restrict
<1>2. /\ DOMAIN sim_orders' = DOMAIN sim_orders \ {id}
      /\ \A i \in DOMAIN sim_orders' : sim_orders'[i] = sim_orders[i]
  BY <1>1
<1>3. sim_live' = {i \in DOMAIN sim_orders' : sim_orders'[i].at # "reporting"}
  BY <1>1, <1>2 DEF BrokerOK
<1> QED
  BY <1>1, <1>2, <1>3 DEF BrokerOK, ThreadOK

\* Orders are asked to cancel, whatever their threads are doing.
LEMMA AskKeepsBrokerOK ==
  ASSUME BrokerOK, UNCHANGED sim_live,
         sim_orders' \in [DOMAIN sim_orders -> {Cancelling(o) : o \in SimOrder} \cup SimOrder],
         \A id \in DOMAIN sim_orders : sim_orders'[id] \in {sim_orders[id], Cancelling(sim_orders[id])}
  PROVE  BrokerOK'
<1>1. \A o \in SimOrder :
        /\ Cancelling(o) \in SimOrder
        /\ Cancelling(o).amount = o.amount /\ Cancelling(o).amount_filled = o.amount_filled
        /\ Cancelling(o).at = o.at /\ Cancelling(o).final_status = o.final_status
        /\ Cancelling(o).cancelling
  BY DEF Cancelling, SimOrder
<1>2. \A id \in DOMAIN sim_orders : sim_orders[id] \in SimOrder
  BY DEF BrokerOK
<1>3. DOMAIN sim_orders' = DOMAIN sim_orders /\ sim_orders' \in [DOMAIN sim_orders -> SimOrder]
  BY <1>1
<1>4. ASSUME NEW id \in DOMAIN sim_orders
      PROVE  ThreadOK(sim_orders'[id]) /\ sim_orders'[id].at = sim_orders[id].at
  BY <1>1, <1>2 DEF BrokerOK, ThreadOK
<1>5. sim_live' = {i \in DOMAIN sim_orders' : sim_orders'[i].at # "reporting"}
  BY <1>3, <1>4 DEF BrokerOK
<1> QED
  BY <1>3, <1>4, <1>5 DEF BrokerOK, ThreadOK

\* A new order starts a thread.
LEMMA SubmitKeepsBrokerOK ==
  ASSUME BrokerOK, NEW id \in OrderIds, id \notin DOMAIN sim_orders, NEW symbol \in Symbols,
         NEW quantity \in Nat, NEW buy \in BOOLEAN, SubmitOrder(id, symbol, quantity, buy)
  PROVE  BrokerOK'
<1> DEFINE new == [symbol |-> symbol, amount |-> quantity, buy_sell |-> buy,
                   amount_filled |-> 0, cancelling |-> FALSE, final_status |-> "NONE", at |-> "loop"]
<1>1. new \in SimOrder /\ new.at = "loop" /\ ThreadOK(new)
  BY DEF SimOrder, ThreadOK
<1>2. /\ sim_orders' = [i \in DOMAIN sim_orders \cup {id} |-> IF i = id THEN new ELSE sim_orders[i]]
      /\ sim_live' = sim_live \cup {id}
  BY DEF SubmitOrder
<1> HIDE DEF new
<1>3. /\ DOMAIN sim_orders' = DOMAIN sim_orders \cup {id} /\ sim_orders'[id] = new
      /\ \A i \in DOMAIN sim_orders : sim_orders'[i] = sim_orders[i]
      /\ sim_orders' \in [DOMAIN sim_orders \cup {id} -> SimOrder]
  BY <1>1, <1>2 DEF BrokerOK
<1>4. \A i \in DOMAIN sim_orders' : ThreadOK(sim_orders'[i])
  BY <1>1, <1>3 DEF BrokerOK
<1>5. sim_live' = {i \in DOMAIN sim_orders' : sim_orders'[i].at # "reporting"}
  BY <1>1, <1>2, <1>3 DEF BrokerOK
<1> QED
  BY <1>3, <1>4, <1>5 DEF BrokerOK, ThreadOK

\* What a task's order is made of, from the manager's types.
LEMMA TaskTypes ==
  ASSUME CP!Types, pc = "orders"
  PROVE  task.symbol \in Symbols /\ Magnitude(task.delta) \in Nat /\ (task.delta > 0) \in BOOLEAN
BY DEF CP!Types, CP!Task, Magnitude

\* Every step keeps the broker's invariant.
LEMMA NextKeepsBrokerOK ==
  ASSUME CP!Types, BrokerOK, [Next]_vars PROVE BrokerOK'
<1>1. CASE UNCHANGED brokerVars
  BY <1>1 DEF brokerVars, BrokerOK
<1>2. CASE CancelStep
  <2>1. PICK id \in OrderIds, accepted \in BOOLEAN : CancelOrder(id, accepted)
    BY <1>2 DEF CancelStep
  <2>2. /\ sim_orders' \in [DOMAIN sim_orders -> {Cancelling(o) : o \in SimOrder} \cup SimOrder]
        /\ \A i \in DOMAIN sim_orders :
             sim_orders'[i] \in {sim_orders[i], Cancelling(sim_orders[i])}
    BY <2>1 DEF CancelOrder, BrokerOK
  <2> QED
    BY <2>1, <2>2, AskKeepsBrokerOK DEF CancelOrder
<1>3. CASE StopStep
  <2>1. /\ sim_orders' \in [DOMAIN sim_orders -> {Cancelling(o) : o \in SimOrder} \cup SimOrder]
        /\ \A i \in DOMAIN sim_orders :
             sim_orders'[i] \in {sim_orders[i], Cancelling(sim_orders[i])}
    BY <1>3 DEF StopStep, Stop, BrokerOK
  <2> QED
    BY <1>3, <2>1, AskKeepsBrokerOK DEF StopStep, Stop
<1>4. CASE PlaceStep
  <2>1. PICK id \in OrderIds :
          /\ Unused(id)
          /\ PlaceOrder(id)
          /\ SubmitOrder(id, task.symbol, Magnitude(task.delta), task.delta > 0)
    BY <1>4 DEF PlaceStep
  <2> QED
    BY <2>1, TaskTypes, SubmitKeepsBrokerOK DEF Unused, PlaceOrder
<1>5. ASSUME NEW id \in OrderIds, OrderThread(id) PROVE BrokerOK'
  <2>1. id \in DOMAIN sim_orders
    BY <1>5 DEF OrderThread
  <2>2. CASE ReportStep(id)
    BY <2>1, <2>2, ReportKeepsBrokerOK DEF ReportStep
  <2>3. CASE FillStep(id)
    BY <2>1, <2>3, ThreadKeepsBrokerOK DEF FillStep
  <2> QED
    BY <1>5, <2>1, <2>2, <2>3, ThreadKeepsBrokerOK DEF OrderThread
<1> QED
  BY <1>1, <1>2, <1>3, <1>4, <1>5
     DEF Next, RunnerStep, Manager, LoopStep, Finished, vars

-----------------------------------------------------------------------------
(* Every step is one the contract allows, or it does not see it *)

\* The orders the contract sees are the broker's, field by field.
LEMMA OpenFields ==
  /\ DOMAIN Open = DOMAIN sim_orders
  /\ \A id \in DOMAIN sim_orders :
       /\ Open[id].symbol = sim_orders[id].symbol
       /\ Open[id].quantity = sim_orders[id].amount
       /\ Open[id].side_is_buy = sim_orders[id].buy_sell
       /\ Open[id].filled = sim_orders[id].amount_filled
       /\ Open[id].unreported = sim_orders[id].amount_filled
       /\ Open[id].asked = sim_orders[id].cancelling
BY DEF Open, AsOpen

\* The initial states are initial states of the contract.
LEMMA InitRefines == TradingInit => CP!TradingInit
<1> SUFFICES ASSUME TradingInit PROVE CP!TradingInit
  OBVIOUS
<1>1. Open = << >>
  BY DEF TradingInit, BrokerInit, Open
<1> QED
  BY <1>1, SameInit DEF TradingInit, CP!TradingInit, CP!ContractInit

\* The states of a thread are hidden from the manager.
LEMMA HiddenStep ==
  ASSUME BrokerOK, NEW id \in DOMAIN sim_orders,
         TestLoop(id) \/ Decide(id) \/ Deregister(id)
  PROVE  Open' = Open
<1> DEFINE o == sim_orders[id]
           p == sim_orders'[id]
<1>1. sim_orders \in [DOMAIN sim_orders -> SimOrder] /\ o \in SimOrder
  BY DEF BrokerOK
<1>2. /\ DOMAIN sim_orders' = DOMAIN sim_orders
      /\ \A i \in DOMAIN sim_orders \ {id} : sim_orders'[i] = sim_orders[i]
  BY <1>1 DEF TestLoop, Decide, Deregister
<1>3. /\ p.symbol = o.symbol /\ p.amount = o.amount /\ p.buy_sell = o.buy_sell
      /\ p.amount_filled = o.amount_filled /\ p.cancelling = o.cancelling
  BY <1>1 DEF TestLoop, Decide, Deregister, SimOrder
<1>4. \A i \in DOMAIN sim_orders : AsOpen(sim_orders'[i]) = AsOpen(sim_orders[i])
  BY <1>2, <1>3 DEF AsOpen
<1> QED
  BY <1>2, <1>4 DEF Open

\* An order that is asked to cancel is asked in the contract.
LEMMA AskedOpen ==
  ASSUME NEW o \in SimOrder PROVE AsOpen(Cancelling(o)) = CP!Asked(AsOpen(o))
<1> DEFINE c == Cancelling(o)
           a == AsOpen(o)
           b == CP!Asked(a)
<1>1. /\ c.symbol = o.symbol /\ c.amount = o.amount /\ c.buy_sell = o.buy_sell
      /\ c.amount_filled = o.amount_filled /\ c.cancelling = TRUE
  BY DEF Cancelling, SimOrder
<1>2. /\ a \in CP!OpenOrder
      /\ a.symbol = o.symbol /\ a.quantity = o.amount /\ a.side_is_buy = o.buy_sell
      /\ a.filled = o.amount_filled /\ a.unreported = o.amount_filled
  BY DEF AsOpen, SimOrder, CP!OpenOrder
<1>3. \A r \in CP!OpenOrder :
        /\ CP!Asked(r) \in CP!OpenOrder
        /\ CP!Asked(r).symbol = r.symbol /\ CP!Asked(r).quantity = r.quantity
        /\ CP!Asked(r).side_is_buy = r.side_is_buy /\ CP!Asked(r).filled = r.filled
        /\ CP!Asked(r).unreported = r.unreported /\ CP!Asked(r).asked = TRUE
  BY DEF CP!Asked, CP!OpenOrder
<1>4. /\ b \in CP!OpenOrder
      /\ b.symbol = o.symbol /\ b.quantity = o.amount /\ b.side_is_buy = o.buy_sell
      /\ b.filled = o.amount_filled /\ b.unreported = o.amount_filled /\ b.asked = TRUE
  BY <1>2, <1>3
<1> HIDE DEF b, c
<1>5. AsOpen(c) = [symbol |-> o.symbol, quantity |-> o.amount, side_is_buy |-> o.buy_sell,
                   filled |-> o.amount_filled, unreported |-> o.amount_filled, asked |-> TRUE]
  BY <1>1 DEF AsOpen
<1>6. b = [symbol |-> o.symbol, quantity |-> o.amount, side_is_buy |-> o.buy_sell,
           filled |-> o.amount_filled, unreported |-> o.amount_filled, asked |-> TRUE]
  BY <1>4 DEF CP!OpenOrder
<1> QED
  BY <1>5, <1>6 DEF b, c

\* A cancel request is one the contract allows.
LEMMA CancelRefines ==
  ASSUME BrokerOK, CancelStep PROVE CP!CancelStep
<1>1. PICK id \in OrderIds, accepted \in BOOLEAN :
        CancelOpposing(id, accepted) /\ CancelOrder(id, accepted)
  BY DEF CancelStep
<1>2. accepted => id \in DOMAIN Open
  BY <1>1, OpenFields DEF CancelOrder, BrokerOK
<1>3. Open' = IF accepted THEN [Open EXCEPT ![id] = CP!Asked(@)] ELSE Open
  <2>1. CASE accepted
    <3>1. /\ sim_orders \in [DOMAIN sim_orders -> SimOrder] /\ id \in DOMAIN sim_orders
          /\ sim_orders' = [sim_orders EXCEPT ![id] = Cancelling(@)]
      BY <1>1, <2>1 DEF CancelOrder, BrokerOK
    <3>2. sim_orders[id] \in SimOrder
      BY <3>1
    <3>3. AsOpen(Cancelling(sim_orders[id])) = CP!Asked(AsOpen(sim_orders[id]))
      BY <3>2, AskedOpen
    <3>4. /\ DOMAIN sim_orders' = DOMAIN sim_orders /\ sim_orders'[id] = Cancelling(sim_orders[id])
          /\ \A i \in DOMAIN sim_orders \ {id} : sim_orders'[i] = sim_orders[i]
      BY <3>1
    <3> QED
      BY <2>1, <3>1, <3>3, <3>4 DEF Open
  <2>2. CASE ~accepted
    BY <1>1, <2>2 DEF CancelOrder, Open
  <2> QED
    BY <2>1, <2>2
<1>4. CP!CancelRequested(id, accepted)
  BY <1>2, <1>3 DEF CP!CancelRequested
<1> QED
  BY <1>1, <1>4, SameCalls DEF CancelStep, CP!CancelStep

\* stop asks the live orders, which the contract allows.
LEMMA StopRefines ==
  ASSUME BrokerOK, StopStep PROVE CP!StopStep
<1>1. /\ sim_orders' = [id \in DOMAIN sim_orders |->
                          IF id \in sim_live THEN Cancelling(sim_orders[id]) ELSE sim_orders[id]]
      /\ sim_live \subseteq DOMAIN sim_orders
      /\ \A id \in DOMAIN sim_orders : sim_orders[id] \in SimOrder
  BY DEF StopStep, Stop, BrokerOK
<1>2. Open' = [id \in DOMAIN Open |-> IF id \in sim_live THEN CP!Asked(Open[id]) ELSE Open[id]]
  BY <1>1, AskedOpen DEF Open
<1>3. CP!Stopped
  BY <1>1, <1>2, OpenFields DEF CP!Stopped
<1> QED
  BY <1>3, SameCalls DEF StopStep, CP!StopStep

\* A new order is one the contract takes.
LEMMA PlaceRefines ==
  ASSUME BrokerOK, PlaceStep PROVE CP!PlaceStep
<1>1. PICK id \in OrderIds :
        /\ Unused(id)
        /\ PlaceOrder(id)
        /\ SubmitOrder(id, task.symbol, Magnitude(task.delta), task.delta > 0)
  BY DEF PlaceStep
<1>2. CP!Unused(id)
  BY <1>1, OpenFields DEF Unused, CP!Unused
<1>3. CP!Submitted(id, task.symbol, Magnitude(task.delta), task.delta > 0)
  <2>1. id \notin DOMAIN Open
    BY <1>1, OpenFields DEF Unused
  <2>2. Open' = [i \in DOMAIN Open \cup {id} |->
                   IF i = id THEN [symbol |-> task.symbol, quantity |-> Magnitude(task.delta),
                                   side_is_buy |-> task.delta > 0, filled |-> 0,
                                   unreported |-> 0, asked |-> FALSE]
                   ELSE Open[i]]
    BY <1>1 DEF SubmitOrder, Open, AsOpen
  <2> QED
    BY <2>1, <2>2 DEF CP!Submitted
<1> QED
  BY <1>1, <1>2, <1>3, SameCalls DEF PlaceStep, CP!PlaceStep

\* A fill is an execution of the contract: it is capped by what is missing.
LEMMA FillRefines ==
  ASSUME BrokerOK, NEW id \in DOMAIN sim_orders, FillStep(id) PROVE CP!BrokerStep(id)
<1>1. PICK quantity \in FillSizes(sim_orders[id]) :
        /\ Fill(id, quantity)
        /\ account' = [account EXCEPT ![sim_orders[id].symbol] =
                         @ + Signed(sim_orders[id].buy_sell, quantity)]
  BY DEF FillStep
<1>2. quantity \in 1 .. Open[id].quantity - Open[id].filled /\ id \in DOMAIN Open
  BY OpenFields DEF FillSizes
<1>3. Open' = [Open EXCEPT ![id].filled = @ + quantity, ![id].unreported = @ + quantity]
  <2>1. /\ sim_orders \in [DOMAIN sim_orders -> SimOrder] /\ sim_orders[id] \in SimOrder
        /\ sim_orders' = [sim_orders EXCEPT ![id].amount_filled = @ + quantity, ![id].at = "loop"]
    BY <1>1 DEF Fill, BrokerOK
  <2>2. /\ DOMAIN sim_orders' = DOMAIN sim_orders
        /\ \A i \in DOMAIN sim_orders \ {id} : sim_orders'[i] = sim_orders[i]
    BY <2>1
  <2>3. /\ sim_orders'[id].symbol = sim_orders[id].symbol
        /\ sim_orders'[id].amount = sim_orders[id].amount
        /\ sim_orders'[id].buy_sell = sim_orders[id].buy_sell
        /\ sim_orders'[id].amount_filled = sim_orders[id].amount_filled + quantity
        /\ sim_orders'[id].cancelling = sim_orders[id].cancelling
    BY <2>1 DEF SimOrder
  <2>4. /\ DOMAIN Open' = DOMAIN Open
        /\ \A i \in DOMAIN Open \ {id} : Open'[i] = Open[i]
        /\ Open'[id] = [symbol |-> Open[id].symbol, quantity |-> Open[id].quantity,
                        side_is_buy |-> Open[id].side_is_buy, filled |-> Open[id].filled + quantity,
                        unreported |-> Open[id].unreported + quantity, asked |-> Open[id].asked]
    BY <2>2, <2>3 DEF Open, AsOpen
  <2> QED
    BY <1>2, <2>4 DEF Open, AsOpen
<1>4. CP!Executed(id, quantity)
  BY <1>2, <1>3 DEF CP!Executed
<1>5. account' = [account EXCEPT ![Open[id].symbol] =
                    @ + CP!Signed(Open[id].side_is_buy, quantity)]
  BY <1>1, OpenFields DEF CP!Signed, Signed
<1>6. UNCHANGED CP!pmVars
  BY DEF FillStep, CP!pmVars, CP!books, CP!queues, CP!control, pmVars, books, queues, control
<1>7. CP!ExecuteStep(id, quantity)
  BY <1>4, <1>5, <1>6 DEF CP!ExecuteStep
<1> QED
  BY <1>2, <1>7 DEF CP!BrokerStep

\* The callback is the order's one terminal confirmation with all its fills.
LEMMA ReportRefines ==
  ASSUME BrokerOK, NEW id \in DOMAIN sim_orders, ReportStep(id) PROVE CP!BrokerStep(id)
<1> DEFINE o == sim_orders[id]
           conf == [client_order_id |-> id, symbol |-> Open[id].symbol,
                    filled_quantity |-> Open[id].unreported,
                    side_is_buy |-> Open[id].side_is_buy, status |-> o.final_status]
<1>1. /\ o.at = "reporting" /\ TradeConfirmation(ConfirmationOf(id))
      /\ sim_orders' = [i \in DOMAIN sim_orders \ {id} |-> sim_orders[i]]
      /\ UNCHANGED account
  BY DEF ReportStep, Report, Without, Restrict
<1>2. ConfirmationOf(id) = conf
  BY OpenFields DEF ConfirmationOf
<1>3. Open' = [i \in DOMAIN Open \ {id} |-> Open[i]]
  BY <1>1 DEF Open
<1>4. /\ o.final_status \in {"FILLED", "CANCELLED"}
      /\ o.final_status = "FILLED" => o.amount_filled = o.amount
      /\ o.final_status = "CANCELLED" => o.cancelling
  BY <1>1 DEF BrokerOK, ThreadOK
<1>5. o.final_status \in CP!FinalStatuses(Open[id]) /\ o.final_status \in CP!Statuses
  BY <1>4, OpenFields DEF CP!FinalStatuses, CP!Statuses, CP!Terminal
<1>6. CP!Confirmed(id, conf)
  BY <1>3, <1>5, OpenFields DEF CP!Confirmed, CP!Without, CP!Restrict
<1>7. CP!TradeConfirmation(conf)
  BY <1>1, <1>2, SameCalls
<1>8. CP!ConfirmStep(id, o.final_status)
  BY <1>1, <1>6, <1>7 DEF CP!ConfirmStep
<1> QED
  BY <1>5, <1>8, OpenFields DEF CP!BrokerStep

\* The replay is the strategy of the contract.
LEMMA RunnerRefines ==
  ASSUME RunnerStep PROVE CP!Next \/ UNCHANGED CP!vars
<1>1. Open' = Open /\ account' = account
  BY DEF RunnerStep, brokerVars, Open
<1>2. CASE ReplayTarget
  <2>1. CP!Strategy
    BY <1>1, <1>2, SameCalls DEF ReplayTarget, CP!Strategy
  <2> QED
    BY <2>1 DEF CP!Next
<1>3. CASE FinishReplay
  <2>1. CP!Strategy
    BY <1>1, <1>3, SameCalls DEF FinishReplay, CP!Strategy
  <2> QED
    BY <2>1 DEF CP!Next
<1>4. CASE Exit
  BY <1>1, <1>4 DEF Exit, CP!vars, CP!pmVars, CP!books, CP!queues, CP!control,
                    pmVars, books, queues, control
<1> QED
  BY <1>2, <1>3, <1>4 DEF RunnerStep, Runner

\* The manager's own steps are those of the contract.
LEMMA ManagerRefines ==
  ASSUME BrokerOK, Manager PROVE CP!Next
<1>1. CASE LoopStep
  <2>1. Open' = Open /\ account' = account
    BY <1>1 DEF LoopStep, brokerVars, Open
  <2> QED
    BY <1>1, <2>1, SameLoop DEF LoopStep, CP!LoopStep, CP!Manager, CP!Next
<1>2. CASE CancelStep
  BY <1>2, CancelRefines DEF CP!Manager, CP!Next
<1>3. CASE PlaceStep
  BY <1>3, PlaceRefines DEF CP!Manager, CP!Next
<1>4. CASE StopStep
  BY <1>4, StopRefines DEF CP!Manager, CP!Next
<1> QED
  BY <1>1, <1>2, <1>3, <1>4 DEF Manager

\* The thread of an order executes, confirms, or does what nobody sees.
LEMMA ThreadRefines ==
  ASSUME BrokerOK, NEW id \in OrderIds, OrderThread(id)
  PROVE  CP!Next \/ UNCHANGED CP!vars
<1>1. id \in DOMAIN sim_orders
  BY DEF OrderThread
<1>2. CASE FillStep(id)
  BY <1>1, <1>2, FillRefines DEF CP!Next
<1>3. CASE ReportStep(id)
  BY <1>1, <1>3, ReportRefines DEF CP!Next
<1>4. CASE (TestLoop(id) \/ Decide(id) \/ Deregister(id)) /\ UNCHANGED <<pmVars, account>>
  <2>1. Open' = Open
    BY <1>1, <1>4, HiddenStep
  <2> QED
    BY <1>4, <2>1 DEF CP!vars, CP!pmVars, CP!books, CP!queues, CP!control,
                      pmVars, books, queues, control
<1> QED
  BY <1>2, <1>3, <1>4 DEF OrderThread

\* Every step of the simulated system is one of the contract, or a stutter of it.
LEMMA StepRefines ==
  ASSUME BrokerOK, [Next]_vars PROVE [CP!Next]_(CP!vars)
<1>1. CASE UNCHANGED vars
  <2>1. Open' = Open
    BY <1>1 DEF vars, brokerVars, Open
  <2> QED
    BY <1>1, <2>1 DEF vars, CP!vars, CP!pmVars, CP!books, CP!queues, CP!control,
                      pmVars, books, queues, control
<1> QED
  BY <1>1, RunnerRefines, ManagerRefines, ThreadRefines DEF Next, Finished

\* The broker's invariant and the manager's types hold together.
LEMMA Steps ==
  Spec => [](BrokerOK /\ CP!Types)
<1>1. TradingInit => BrokerOK /\ CP!Types
  BY BrokerInitOK, InitRefines, CP!TypesInit, Assumed DEF TradingInit
<1>2. BrokerOK /\ CP!Types /\ [Next]_vars => (BrokerOK /\ CP!Types)'
  BY NextKeepsBrokerOK, StepRefines, CP!NextKeepsTypes, Assumed
<1> QED
  BY <1>1, <1>2, PTL DEF Spec

\* Every behaviour is one of the contract.
LEMMA Refines == Spec => CP!Spec
<1>1. BrokerOK /\ [Next]_vars => [CP!Next]_(CP!vars)
  BY StepRefines
<1>2. Spec => TradingInit /\ []BrokerOK /\ [][Next]_vars
  BY Steps, PTL DEF Spec
<1> QED
  BY <1>1, <1>2, InitRefines, PTL DEF CP!Spec

-----------------------------------------------------------------------------
(* The contract named in SimTrading is the one proved about *)

\* Both instances have the same initial states,
LEMMA SameContractInit == CP!TradingInit <=> Contract!TradingInit
BY DEF CP!TradingInit, Contract!TradingInit, CP!Init, Contract!Init,
       CP!ContractInit, Contract!ContractInit, Open

\* the same state,
LEMMA SameContractVars == CP!vars = Contract!vars
BY DEF CP!vars, Contract!vars, CP!pmVars, Contract!pmVars, CP!books, Contract!books,
       CP!queues, Contract!queues, CP!control, Contract!control, Open

\* the same steps that call no broker,
LEMMA SameContractLoop == CP!Loop <=> Contract!Loop
BY DEF CP!books, Contract!books, CP!queues, Contract!queues, CP!Loop, Contract!Loop,
       CP!LoopTop, Contract!LoopTop,
       CP!ProcessTradeConfirmation, Contract!ProcessTradeConfirmation,
       CP!BookedFill, Contract!BookedFill, CP!Affected, Contract!Affected,
       CP!Signed, Contract!Signed, CP!ForgetOrder, Contract!ForgetOrder,
       CP!Without, Contract!Without, CP!Restrict, Contract!Restrict,
       CP!Terminal, Contract!Terminal, CP!RemoveFirst, Contract!RemoveFirst,
       CP!SelectInSeq, Contract!SelectInSeq, CP!RemoveAt, Contract!RemoveAt,
       CP!Min, Contract!Min, CP!UpdateOrder, Contract!UpdateOrder,
       CP!TradeConfirmationsDone, Contract!TradeConfirmationsDone,
       CP!ProcessTargetUpdate, Contract!ProcessTargetUpdate,
       CP!TargetUpdatesDone, Contract!TargetUpdatesDone,
       CP!Continue, Contract!Continue, CP!Reconcile, Contract!Reconcile,
       CP!WorkingPosition, Contract!WorkingPosition,
       CP!WorkingEffect, Contract!WorkingEffect, CP!Opposing, Contract!Opposing,
       CP!Range, Contract!Range, CP!SumFunction, Contract!SumFunction,
       CP!SumFunctionOnSet, Contract!SumFunctionOnSet,
       CP!FoldFunctionOnSet, Contract!FoldFunctionOnSet,
       CP!MapThenFoldSet, Contract!MapThenFoldSet

\* the same strategy,
LEMMA SameContractStrategy == CP!Strategy <=> Contract!Strategy
BY DEF CP!Strategy, Contract!Strategy, CP!UpdateTargetPosition, Contract!UpdateTargetPosition,
       CP!Terminate, Contract!Terminate, CP!books, Contract!books, CP!queues, Contract!queues,
       CP!control, Contract!control, Open

\* the same calls,
LEMMA SameContractManager == CP!Manager <=> Contract!Manager
<1>1. CP!LoopStep <=> Contract!LoopStep
  BY SameContractLoop DEF CP!LoopStep, Contract!LoopStep, Open
<1>2. CP!CancelStep <=> Contract!CancelStep
  BY DEF CP!CancelStep, Contract!CancelStep, CP!CancelOpposing, Contract!CancelOpposing,
         CP!NextToCancel, Contract!NextToCancel, CP!queues, Contract!queues,
         CP!CancelRequested, Contract!CancelRequested, CP!Asked, Contract!Asked, Open
<1>3. CP!PlaceStep <=> Contract!PlaceStep
  BY DEF CP!PlaceStep, Contract!PlaceStep, CP!Unused, Contract!Unused,
         CP!PlaceOrder, Contract!PlaceOrder, CP!Continue, Contract!Continue,
         CP!Magnitude, Contract!Magnitude, CP!queues, Contract!queues,
         CP!Submitted, Contract!Submitted, Open
<1>4. CP!StopStep <=> Contract!StopStep
  BY DEF CP!StopStep, Contract!StopStep, CP!StopBroker, Contract!StopBroker,
         CP!books, Contract!books, CP!queues, Contract!queues,
         CP!Stopped, Contract!Stopped, CP!Asked, Contract!Asked, Open
<1> QED
  BY <1>1, <1>2, <1>3, <1>4 DEF CP!Manager, Contract!Manager

\* the same broker,
LEMMA SameContractBroker == \A id : CP!BrokerStep(id) <=> Contract!BrokerStep(id)
<1>1. \A id, quantity : CP!ExecuteStep(id, quantity) <=> Contract!ExecuteStep(id, quantity)
  BY DEF CP!ExecuteStep, Contract!ExecuteStep, CP!Executed, Contract!Executed,
         CP!Signed, Contract!Signed, CP!pmVars, Contract!pmVars, CP!books, Contract!books,
         CP!queues, Contract!queues, CP!control, Contract!control, Open
<1>2. \A id, status : CP!ConfirmStep(id, status) <=> Contract!ConfirmStep(id, status)
  BY DEF CP!ConfirmStep, Contract!ConfirmStep, CP!Confirmed, Contract!Confirmed,
         CP!FinalStatuses, Contract!FinalStatuses, CP!Terminal, Contract!Terminal,
         CP!Without, Contract!Without, CP!Restrict, Contract!Restrict,
         CP!TradeConfirmation, Contract!TradeConfirmation, CP!books, Contract!books,
         CP!control, Contract!control, Open
<1> QED
  BY <1>1, <1>2 DEF CP!BrokerStep, Contract!BrokerStep, CP!Statuses, Contract!Statuses,
                    CP!Terminal, Contract!Terminal, Open

\* and so the same steps,
LEMMA SameContractNext == CP!Next <=> Contract!Next
<1>1. CP!Finished <=> Contract!Finished
  BY SameContractVars
     DEF CP!Finished, Contract!Finished, CP!vars, Contract!vars, CP!pmVars, Contract!pmVars,
         CP!books, Contract!books, CP!queues, Contract!queues, CP!control, Contract!control, Open
<1> QED
  BY <1>1, SameContractStrategy, SameContractManager, SameContractBroker
     DEF CP!Next, Contract!Next

\* stutters included.
LEMMA SameContractStep == [CP!Next]_(CP!vars) <=> [Contract!Next]_(Contract!vars)
BY SameContractNext
   DEF CP!vars, Contract!vars, CP!pmVars, Contract!pmVars, CP!books, Contract!books,
       CP!queues, Contract!queues, CP!control, Contract!control, Open

-----------------------------------------------------------------------------
(* What follows *)

\* The simulated broker keeps the contract of BrokerInterface, for any symbols,
\* ids, targets and fill sizes: every step of its threads and of the manager is
\* one the contract allows or changes nothing the contract sees.
THEOREM SimulatedBrokerKeepsContract == Spec => ImplementsContract
<1>1. CP!Spec => Contract!Spec
  BY SameContractInit, SameContractStep, PTL DEF CP!Spec, Contract!Spec
<1> QED
  BY <1>1, Refines DEF ImplementsContract

\* The manager's attributes, the simulated orders and the broker's map have
\* their types in every reachable state (position_manager.py, simulated_broker.py).
THEOREM SimTypeCorrect == Spec => []TypeOK
<1>1. BrokerOK /\ CP!Types => TypeOK
  BY DEF BrokerOK, SimOrder, TypeOK, ManagerTypeOK, CP!Types, CP!TypeOK, CP!ManagerTypeOK,
         OrderDetails, CP!OrderDetails, TradeConfirmationMessage, CP!TradeConfirmationMessage,
         Statuses, CP!Statuses, Terminal, CP!Terminal
<1> QED
  BY <1>1, Steps, PTL

\* At the top of its loop the manager trading through the simulated broker has
\* ordered exactly what its targets ask for (position_manager.py:146-197).
THEOREM SimOnTarget == Spec => []OnTargetAtLoopTop
<1>1. CP!OnTargetAtLoopTop <=> OnTargetAtLoopTop
  BY SameSum DEF CP!OnTargetAtLoopTop, OnTargetAtLoopTop, CP!Signed, Signed
<1> QED
  BY <1>1, Refines, CP!AlwaysOnTargetAtLoopTop, Assumed, PTL

\* The manager's two maps of its orders agree when it trades through the
\* simulated broker, whose callbacks come from a thread per order.
THEOREM SimIndexesAgree == Spec => []IndexesAgree
<1>1. CP!IndexesAgree <=> IndexesAgree
  BY DEF CP!IndexesAgree, IndexesAgree, CP!IsInjective, IsInjective, CP!Range, Range
<1> QED
  BY <1>1, Refines, CP!BothIndexesAgree, Assumed, PTL

\* The simulated broker is never sent more live orders than there were targets.
THEOREM SimOrdersBounded == Spec => []OrdersBoundedByUpdates
<1>1. CP!OrdersBoundedByUpdates <=> OrdersBoundedByUpdates
  BY DEF CP!OrdersBoundedByUpdates, OrdersBoundedByUpdates, CP!Cardinality, Cardinality
<1> QED
  BY <1>1, Refines, CP!OrdersAlwaysBounded, Assumed, PTL
=============================================================================
