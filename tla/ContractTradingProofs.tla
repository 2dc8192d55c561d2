----------------------- MODULE ContractTradingProofs -----------------------
(***************************************************************************)
(* What the position manager keeps with any broker that keeps the          *)
(* contract.                                                               *)
(*                                                                         *)
(* The proofs look at a step by its shape: a confirmation is booked,       *)
(* orders are asked to cancel, an order is placed, filled, reported on or  *)
(* ended, or nothing of this happens. StepCases says that every step has   *)
(* such a shape, and an invariant about orders and confirmations has one   *)
(* lemma per shape.                                                        *)
(*                                                                         *)
(* Filling and Conserved: an order's quantities add up, and no share is    *)
(* lost or counted twice on its way from the broker to the position. Both  *)
(* are sums over the queue, which QueueSum treats once: taking the first   *)
(* confirmation removes its term and shifts the others, queueing adds one. *)
(*                                                                         *)
(* OnTrack: the gap of a symbol is what its target asks beyond the         *)
(* position and the live orders; it is 0 unless the symbol is marked for   *)
(* this turn of the loop, or is the task at hand, whose delta it then is.  *)
(* Bounded adds why orders do not multiply: a gap needs an update of its   *)
(* own.                                                                    *)
(***************************************************************************)
EXTENDS ContractTrading, SumTheorems, SequenceTheorems, TLAPS

\* What the manager is doing for one symbol.
Task == [symbol : Symbols, delta : Int, cancels : SUBSET OrderIds]

\* An order as the broker keeps it.
OpenOrder == [symbol : Symbols, quantity : Nat, side_is_buy : BOOLEAN,
              filled : Nat, unreported : Nat, asked : BOOLEAN]

\* The type invariant, inductive: a task while orders are placed, and finitely many orders.
Types ==
  /\ TypeOK
  /\ pc = "orders" => task \in Task
  /\ IsFiniteSet(DOMAIN live_orders)
  /\ IsFiniteSet(DOMAIN open)

\* A signed quantity is an integer.
LEMMA SignedIsInt ==
  ASSUME NEW buy, NEW n \in Int PROVE Signed(buy, n) \in Int
BY DEF Signed

\* A sequence lists finitely many elements of its set.
LEMMA RangeIsFinite ==
  ASSUME NEW S, NEW s \in Seq(S) PROVE IsFiniteSet(Range(s)) /\ Range(s) \subseteq S
<1>1. s \in [1 .. Len(s) -> S] /\ Len(s) \in Nat
  OBVIOUS
<1>2. s \in Surjection(1 .. Len(s), Range(s))
  BY <1>1 DEF Surjection, Range
<1>3. IsFiniteSet(1 .. Len(s))
  BY <1>1, FS_Interval
<1> QED
  BY <1>1, <1>2, <1>3, FS_Surjection DEF Range

\* The working position is an integer.
LEMMA WorkingPositionIsInt ==
  ASSUME TypeOK, NEW s \in Symbols
  PROVE  WorkingPosition(s) \in Int
<1> DEFINE ids == {id \in Range(live_orders_by_symbol[s]) : id \in DOMAIN live_orders}
           effect == [id \in ids |-> WorkingEffect(live_orders[id])]
<1>1. live_orders_by_symbol[s] \in Seq(OrderIds) /\ positions[s] \in Int
  BY DEF TypeOK, ManagerTypeOK
<1>2. IsFiniteSet(ids)
  BY <1>1, RangeIsFinite, FS_Subset
<1>3. \A id \in ids : effect[id] \in Int
  <2> SUFFICES ASSUME NEW id \in ids PROVE WorkingEffect(live_orders[id]) \in Int
    OBVIOUS
  <2>1. live_orders[id] \in OrderDetails
    BY DEF TypeOK, ManagerTypeOK
  <2>2. live_orders[id].quantity - live_orders[id].filled_quantity \in Int
    BY <2>1 DEF OrderDetails
  <2> QED
    BY <2>2, SignedIsInt DEF WorkingEffect
<1>4. SumFunction(effect) \in Int
  BY <1>2, <1>3, SumFunctionIsInt
<1> QED
  BY <1>1, <1>4 DEF WorkingPosition

\* Taking an element out of a list of distinct ones.
LEMMA RemoveFirstProperties ==
  ASSUME NEW S, NEW s \in Seq(S), NEW e
  PROVE  /\ RemoveFirst(s, e) \in Seq(S)
         /\ IsInjective(s) => /\ IsInjective(RemoveFirst(s, e))
                              /\ Range(RemoveFirst(s, e)) = Range(s) \ {e}
<1> DEFINE I == {i \in 1 .. Len(s) : s[i] = e}
           r == RemoveFirst(s, e)
<1>1. Len(s) \in Nat /\ DOMAIN s = 1 .. Len(s)
  OBVIOUS
<1>2. CASE I = {}
  <2>1. r = s
    BY <1>2 DEF RemoveFirst
  <2>2. e \notin Range(s)
    BY <1>1, <1>2 DEF Range
  <2> QED
    BY <2>1, <2>2
<1>3. CASE I # {}
  <2>1. PICK k \in I : \A i \in I : k <= i
    <3>1. IsWellFoundedOn(OpToRel(<, Nat), Nat)
      BY NatLessThanWellFounded
    <3>2. I \subseteq Nat
      OBVIOUS
    <3> HIDE DEF I
    <3>3. PICK k \in I : \A i \in I : <<i, k>> \notin OpToRel(<, Nat)
      BY <1>3, <3>1, <3>2, WFMin
    <3>4. \A i \in I : ~(i < k)
      BY <3>2, <3>3 DEF OpToRel
    <3> QED
      BY <3>2, <3>4
  <2>2. Min(I) \in I /\ \A i \in I : Min(I) <= i
    <3> HIDE DEF I
    <3> QED
      BY <2>1 DEF Min
  <2> DEFINE m == Min(I)
  <2>3. r = SubSeq(s, 1, m - 1) \o SubSeq(s, m + 1, Len(s))
    BY <1>3 DEF RemoveFirst, SelectInSeq, RemoveAt
  <2>4. m \in 1 .. Len(s) /\ s[m] = e
    BY <2>2
  <2> HIDE DEF m, r, I
  <2>5. /\ SubSeq(s, 1, m - 1) \in Seq(S) /\ Len(SubSeq(s, 1, m - 1)) = m - 1
        /\ \A i \in 1 .. m - 1 : SubSeq(s, 1, m - 1)[i] = s[i]
    BY <1>1, <2>4
  <2>6. /\ SubSeq(s, m + 1, Len(s)) \in Seq(S) /\ Len(SubSeq(s, m + 1, Len(s))) = Len(s) - m
        /\ \A i \in 1 .. Len(s) - m : SubSeq(s, m + 1, Len(s))[i] = s[m + i]
    BY <1>1, <2>4
  <2>7. /\ r \in Seq(S) /\ Len(r) = Len(s) - 1
        /\ \A i \in 1 .. Len(s) - 1 : r[i] = IF i < m THEN s[i] ELSE s[i + 1]
    <3> DEFINE a == SubSeq(s, 1, m - 1)
               b == SubSeq(s, m + 1, Len(s))
    <3>1. a \in Seq(S) /\ b \in Seq(S) /\ Len(a) = m - 1 /\ Len(b) = Len(s) - m
      BY <2>5, <2>6
    <3>2. \A i \in 1 .. m - 1 : a[i] = s[i]
      BY <2>5
    <3>3. \A i \in 1 .. Len(s) - m : b[i] = s[m + i]
      BY <2>6
    <3>4. r = a \o b
      BY <2>3
    <3> HIDE DEF a, b
    <3>5. /\ r \in Seq(S) /\ Len(r) = Len(s) - 1
          /\ \A i \in 1 .. Len(s) - 1 : r[i] = IF i <= m - 1 THEN a[i] ELSE b[i - (m - 1)]
      <4>1. (m - 1) + (Len(s) - m) = Len(s) - 1
        BY <1>1, <2>4
      <4> QED
        BY <4>1, <3>1, <3>4, ConcatProperties
    <3>6. ASSUME NEW i \in 1 .. Len(s) - 1
          PROVE  r[i] = IF i < m THEN s[i] ELSE s[i + 1]
      <4>1. CASE i < m
        <5>1. i \in 1 .. m - 1 /\ r[i] = a[i]
          BY <4>1, <1>1, <2>4, <3>5
        <5> QED
          BY <4>1, <5>1, <3>2
      <4>2. CASE ~(i < m)
        <5>1. i - (m - 1) \in 1 .. Len(s) - m /\ r[i] = b[i - (m - 1)]
          BY <4>2, <1>1, <2>4, <3>5
        <5>2. m + (i - (m - 1)) = i + 1
          BY <2>4
        <5> QED
          BY <4>2, <5>1, <5>2, <3>3
      <4> QED
        BY <4>1, <4>2
    <3> QED
      BY <3>5, <3>6
  <2>8. DOMAIN r = 1 .. Len(s) - 1
    BY <2>7
  <2>9. ASSUME IsInjective(s) PROVE IsInjective(r) /\ Range(r) = Range(s) \ {e}
    <3>1. \A i, j \in 1 .. Len(s) : s[i] = s[j] => i = j
      BY <1>1, <2>9 DEF IsInjective
    <3>2. \A i \in 1 .. Len(s) - 1 : \E j \in 1 .. Len(s) : j # m /\ r[i] = s[j]
      <4> SUFFICES ASSUME NEW i \in 1 .. Len(s) - 1
                   PROVE  \E j \in 1 .. Len(s) : j # m /\ r[i] = s[j]
        OBVIOUS
      <4>1. CASE i < m
        BY <4>1, <1>1, <2>4, <2>7
      <4>2. CASE ~(i < m)
        <5>1. i + 1 \in 1 .. Len(s) /\ i + 1 # m /\ r[i] = s[i + 1]
          BY <4>2, <1>1, <2>4, <2>7
        <5> QED
          BY <5>1
      <4> QED
        BY <4>1, <4>2
    <3>3. \A j \in 1 .. Len(s) : j # m => \E i \in 1 .. Len(s) - 1 : r[i] = s[j]
      <4> SUFFICES ASSUME NEW j \in 1 .. Len(s), j # m
                   PROVE  \E i \in 1 .. Len(s) - 1 : r[i] = s[j]
        OBVIOUS
      <4>1. CASE j < m
        BY <4>1, <1>1, <2>4, <2>7
      <4>2. CASE j > m
        <5>1. j - 1 \in 1 .. Len(s) - 1 /\ ~(j - 1 < m) /\ j - 1 + 1 = j
          BY <4>2, <1>1, <2>4
        <5>2. r[j - 1] = s[j - 1 + 1]
          BY <5>1, <2>7
        <5> QED
          BY <5>1, <5>2
      <4> QED
        BY <4>1, <4>2, <1>1, <2>4
    <3>4. Range(s) \ {e} = {s[j] : j \in (1 .. Len(s)) \ {m}}
      BY <1>1, <3>1, <2>4 DEF Range
    <3>5. Range(r) = {r[i] : i \in 1 .. Len(s) - 1}
      BY <2>8 DEF Range
    <3>6. Range(r) = Range(s) \ {e}
      BY <3>2, <3>3, <3>4, <3>5
    <3>7. ASSUME NEW i \in 1 .. Len(s) - 1, NEW j \in 1 .. Len(s) - 1, r[i] = r[j]
          PROVE  i = j
      BY <3>7, <3>1, <2>7, <2>4, <1>1
    <3> QED
      BY <3>6, <3>7, <2>8 DEF IsInjective
  <2> QED
    BY <2>7, <2>9 DEF r
<1> QED
  BY <1>2, <1>3

-----------------------------------------------------------------------------
(* Types *)

\* The initial state has the types.
LEMMA TypesInit == TradingInit => Types
<1> SUFFICES ASSUME TradingInit PROVE Types
  OBVIOUS
<1> USE DEF TradingInit, Init, ContractInit
<1>1. DOMAIN live_orders = {} /\ DOMAIN open = {}
  OBVIOUS
<1>2. /\ live_orders \in [DOMAIN live_orders -> OrderDetails]
      /\ open \in [DOMAIN open -> OpenOrder]
  OBVIOUS
<1>3. /\ live_orders_by_symbol \in [Symbols -> Seq(OrderIds)]
      /\ target_updates_q \in Seq([symbol : Symbols, target : Targets])
      /\ trade_confirmations_q \in Seq(TradeConfirmationMessage)
  OBVIOUS
<1>4. updates \in 0 .. MaxUpdates
  BY ManagerAssumption
<1>5. ManagerTypeOK
  <2>1. positions \in [Symbols -> Int] /\ target_positions \in [Symbols -> Int]
    OBVIOUS
  <2>2. /\ DOMAIN live_orders \subseteq OrderIds
        /\ terminate_flag \in BOOLEAN /\ symbols_to_check \subseteq Symbols
        /\ pc \in {"top", "trades", "targets", "reconcile", "orders", "stop", "done"}
        /\ task \in [symbol : Symbols, delta : Int, cancels : SUBSET OrderIds] \cup {Null}
    BY <1>1
  <2> HIDE DEF TradingInit, Init, ContractInit
  <2> QED
    BY <1>2, <1>3, <1>4, <2>1, <2>2 DEF ManagerTypeOK
<1>6. account \in [Symbols -> Int] /\ pc # "orders"
  OBVIOUS
<1>7. DOMAIN open \subseteq OrderIds /\ IsFiniteSet(DOMAIN live_orders) /\ IsFiniteSet(DOMAIN open)
  BY <1>1, FS_EmptySet
<1> HIDE DEF TradingInit, Init, ContractInit
<1> QED
  BY <1>2, <1>5, <1>6, <1>7 DEF Types, TypeOK, OpenOrder

\* Targets and termination keep the types.
LEMMA StrategyKeepsTypes ==
  ASSUME Types, Strategy PROVE Types'
<1>1. CASE \E symbol \in Symbols, target \in Targets : UpdateTargetPosition(symbol, target)
  <2>1. PICK symbol \in Symbols, target \in Targets : UpdateTargetPosition(symbol, target)
    BY <1>1
  <2>2. target_updates_q' \in Seq([symbol : Symbols, target : Targets])
    <3> DEFINE update == [symbol |-> symbol, target |-> target]
    <3>1. update \in [symbol : Symbols, target : Targets]
      OBVIOUS
    <3>2. target_updates_q' = Append(target_updates_q, update)
      BY <2>1 DEF UpdateTargetPosition
    <3> HIDE DEF update
    <3> QED
      BY <3>1, <3>2 DEF Types, TypeOK, ManagerTypeOK
  <2>3. updates' \in 0 .. MaxUpdates
    BY <2>1, ManagerAssumption DEF UpdateTargetPosition, Types, TypeOK, ManagerTypeOK
  <2> QED
    BY <2>1, <2>2, <2>3 DEF Strategy, UpdateTargetPosition, books, control, Types, TypeOK, ManagerTypeOK
<1>2. CASE Terminate
  BY <1>2 DEF Strategy, Terminate, books, queues, control, Types, TypeOK, ManagerTypeOK
<1> QED
  BY <1>1, <1>2 DEF Strategy

\* Booking a confirmation keeps the types.
LEMMA ProcessConfirmationKeepsTypes ==
  ASSUME Types, ProcessTradeConfirmation, UNCHANGED <<open, account>> PROVE Types'
<1> DEFINE conf == Head(trade_confirmations_q)
           id == conf.client_order_id
<1>1. /\ conf \in TradeConfirmationMessage
      /\ trade_confirmations_q' \in Seq(TradeConfirmationMessage)
  BY DEF ProcessTradeConfirmation, Types, TypeOK, ManagerTypeOK
<1>2. /\ conf.symbol \in Symbols /\ id \in OrderIds /\ conf.filled_quantity \in Nat
      /\ conf.side_is_buy \in BOOLEAN /\ conf.status \in Statuses
  BY <1>1 DEF TradeConfirmationMessage
<1> HIDE DEF conf
<1>3. positions' \in [Symbols -> Int]
  <2>1. BookedFill(conf) \in Int
    BY <1>2, SignedIsInt DEF BookedFill
  <2>2. positions' = [positions EXCEPT ![conf.symbol] = @ + BookedFill(conf)]
    BY DEF ProcessTradeConfirmation, conf
  <2> QED
    BY <1>2, <2>1, <2>2 DEF Types, TypeOK, ManagerTypeOK
<1>4. symbols_to_check' \subseteq Symbols
  BY <1>2 DEF ProcessTradeConfirmation, Affected, Types, TypeOK, ManagerTypeOK, conf
<1>5. /\ DOMAIN live_orders' \subseteq OrderIds /\ IsFiniteSet(DOMAIN live_orders')
      /\ live_orders' \in [DOMAIN live_orders' -> OrderDetails]
      /\ live_orders_by_symbol' \in [Symbols -> Seq(OrderIds)]
  <2>0. /\ live_orders \in [DOMAIN live_orders -> OrderDetails]
        /\ live_orders_by_symbol \in [Symbols -> Seq(OrderIds)]
    BY DEF Types, TypeOK, ManagerTypeOK
  <2>1. CASE id \notin DOMAIN live_orders
    BY <2>1 DEF ProcessTradeConfirmation, Types, TypeOK, ManagerTypeOK, conf
  <2>2. CASE id \in DOMAIN live_orders /\ conf.status \in Terminal
    <3>1. /\ live_orders' = [i \in DOMAIN live_orders \ {id} |-> live_orders[i]]
          /\ live_orders_by_symbol' =
               [live_orders_by_symbol EXCEPT ![conf.symbol] = RemoveFirst(@, id)]
      BY <2>2 DEF ProcessTradeConfirmation, ForgetOrder, Without, Restrict, conf
    <3>2. RemoveFirst(live_orders_by_symbol[conf.symbol], id) \in Seq(OrderIds)
      BY <2>0, <1>2, RemoveFirstProperties
    <3>3. live_orders_by_symbol' \in [Symbols -> Seq(OrderIds)]
      BY <2>0, <3>1, <3>2
    <3>4. IsFiniteSet(DOMAIN live_orders \ {id})
      BY FS_RemoveElement DEF Types
    <3> QED
      BY <2>0, <3>1, <3>3, <3>4 DEF Types, TypeOK, ManagerTypeOK
  <2>3. CASE id \in DOMAIN live_orders /\ conf.status \notin Terminal
    <3>1. /\ live_orders' = [live_orders EXCEPT ![id].filled_quantity = @ + conf.filled_quantity,
                                                ![id].status = conf.status]
          /\ UNCHANGED live_orders_by_symbol
      BY <2>3 DEF ProcessTradeConfirmation, UpdateOrder, conf
    <3>2. live_orders[id] \in OrderDetails
      BY <2>0, <2>3
    <3>3. live_orders'[id] \in OrderDetails
      BY <3>1, <3>2, <2>3, <1>2 DEF OrderDetails
    <3> QED
      BY <2>0, <3>1, <3>3 DEF Types, TypeOK, ManagerTypeOK
  <2> QED
    BY <2>1, <2>2, <2>3
<1> QED
  BY <1>1, <1>3, <1>4, <1>5 DEF ProcessTradeConfirmation, Types, TypeOK, ManagerTypeOK

\* Where the thread goes is one of its places.
LEMMA ContinueIsPc ==
  ASSUME NEW S PROVE Continue(S) \in {"top", "reconcile"}
BY DEF Continue

\* The steps that call no broker keep the types.
LEMMA LoopKeepsTypes ==
  ASSUME Types, LoopStep PROVE Types'
<1>1. CASE LoopTop
  BY <1>1 DEF LoopStep, LoopTop, books, queues, Types, TypeOK, ManagerTypeOK
<1>2. CASE ProcessTradeConfirmation
  BY <1>2, ProcessConfirmationKeepsTypes DEF LoopStep
<1>3. CASE TradeConfirmationsDone
  BY <1>3 DEF LoopStep, TradeConfirmationsDone, books, queues, Types, TypeOK, ManagerTypeOK
<1>4. CASE ProcessTargetUpdate
  <2> DEFINE update == Head(target_updates_q)
  <2>1. /\ update \in [symbol : Symbols, target : Targets]
        /\ target_updates_q' \in Seq([symbol : Symbols, target : Targets])
    <3>1. target_updates_q \in Seq([symbol : Symbols, target : Targets]) /\ target_updates_q # << >>
      BY <1>4 DEF ProcessTargetUpdate, Types, TypeOK, ManagerTypeOK
    <3>2. target_updates_q' = Tail(target_updates_q)
      BY <1>4 DEF ProcessTargetUpdate
    <3> QED
      BY <3>1, <3>2, HeadTailProperties
  <2>2. update.symbol \in Symbols /\ update.target \in Int
    BY <2>1, ManagerAssumption
  <2> HIDE DEF update
  <2>3. /\ target_positions' = [target_positions EXCEPT ![update.symbol] = update.target]
        /\ symbols_to_check' = symbols_to_check \cup {update.symbol}
    BY <1>4 DEF ProcessTargetUpdate, Affected, update
  <2>4. target_positions' \in [Symbols -> Int] /\ symbols_to_check' \subseteq Symbols
    BY <2>2, <2>3 DEF Types, TypeOK, ManagerTypeOK
  <2>5. UNCHANGED <<positions, live_orders, live_orders_by_symbol, trade_confirmations_q,
                    terminate_flag, pc, task, updates, open, account>>
    BY <1>4 DEF LoopStep, ProcessTargetUpdate
  <2> QED
    BY <2>1, <2>4, <2>5 DEF Types, TypeOK, ManagerTypeOK
<1>5. CASE TargetUpdatesDone
  <2>1. pc' \in {"top", "reconcile"}
    BY <1>5, ContinueIsPc DEF TargetUpdatesDone
  <2> QED
    BY <1>5, <2>1 DEF LoopStep, TargetUpdatesDone, books, queues, Types, TypeOK, ManagerTypeOK
<1>6. ASSUME NEW symbol \in Symbols, Reconcile(symbol) PROVE Types'
  <2> DEFINE delta == target_positions[symbol] - WorkingPosition(symbol)
  <2>1. delta \in Int
    <3>1. target_positions[symbol] \in Int
      BY DEF Types, TypeOK, ManagerTypeOK
    <3>2. WorkingPosition(symbol) \in Int
      BY WorkingPositionIsInt DEF Types
    <3> QED
      BY <3>1, <3>2
  <2>2. /\ pc' \in {"top", "reconcile", "orders"}
        /\ task' \in Task \cup {Null}
        /\ pc' = "orders" => task' \in Task
    <3>1. CASE delta = 0
      BY <1>6, <3>1, ContinueIsPc DEF Reconcile, Types, TypeOK, ManagerTypeOK, Task
    <3>2. CASE delta # 0
      <4>1. Opposing(symbol, delta > 0) \subseteq OrderIds
        BY DEF Opposing, Types, TypeOK, ManagerTypeOK
      <4> HIDE DEF delta
      <4>2. [symbol |-> symbol, delta |-> delta, cancels |-> Opposing(symbol, delta > 0)] \in Task
        BY <2>1, <4>1 DEF Task
      <4> QED
        BY <1>6, <3>2, <4>2 DEF Reconcile, delta
    <3> QED
      BY <3>1, <3>2
  <2>3. symbols_to_check' \subseteq Symbols
    BY <1>6 DEF Reconcile, Types, TypeOK, ManagerTypeOK
  <2> QED
    BY <1>6, <2>2, <2>3
       DEF LoopStep, Reconcile, books, queues, Types, TypeOK, ManagerTypeOK, Task
<1> QED
  BY <1>1, <1>2, <1>3, <1>4, <1>5, <1>6 DEF LoopStep, Loop

\* A cancel request keeps the types.
LEMMA CancelKeepsTypes ==
  ASSUME Types, CancelStep PROVE Types'
<1>1. PICK id \in OrderIds, accepted \in BOOLEAN :
        CancelOpposing(id, accepted) /\ CancelRequested(id, accepted)
  BY DEF CancelStep
<1>2. /\ live_orders' \in [DOMAIN live_orders -> OrderDetails]
      /\ DOMAIN live_orders' = DOMAIN live_orders
  <2>1. \A o \in OrderDetails : [o EXCEPT !.status = "PENDING_CANCEL"] \in OrderDetails
    BY DEF OrderDetails, Statuses
  <2>2. live_orders \in [DOMAIN live_orders -> OrderDetails]
    BY DEF Types, TypeOK, ManagerTypeOK
  <2>3. \/ live_orders' = live_orders
        \/ live_orders' = [live_orders EXCEPT ![id] = [@ EXCEPT !.status = "PENDING_CANCEL"]]
    BY <1>1 DEF CancelOpposing
  <2> QED
    BY <2>1, <2>2, <2>3
<1>3. task' \in Task
  BY <1>1 DEF CancelOpposing, Types, Task
<1>4. open' \in [DOMAIN open -> OpenOrder] /\ DOMAIN open' = DOMAIN open
  <2>1. \A o \in OpenOrder : Asked(o) \in OpenOrder
    BY DEF Asked, OpenOrder
  <2>2. open \in [DOMAIN open -> OpenOrder]
    BY DEF Types, TypeOK, OpenOrder
  <2> QED
    BY <1>1, <2>1, <2>2 DEF CancelRequested
<1> QED
  BY <1>1, <1>2, <1>3, <1>4
     DEF CancelStep, CancelOpposing, queues, Types, TypeOK, ManagerTypeOK, OpenOrder, Task

\* A new order keeps the types.
LEMMA PlaceKeepsTypes ==
  ASSUME Types, PlaceStep PROVE Types'
<1>1. PICK id \in OrderIds :
        /\ Unused(id)
        /\ PlaceOrder(id)
        /\ Submitted(id, task.symbol, Magnitude(task.delta), task.delta > 0)
  BY DEF PlaceStep
<1>2. task.symbol \in Symbols /\ Magnitude(task.delta) \in Nat /\ task.delta \in Int
  BY <1>1 DEF PlaceOrder, Types, Task, Magnitude
<1>3. /\ DOMAIN live_orders' = DOMAIN live_orders \cup {id}
      /\ live_orders' \in [DOMAIN live_orders' -> OrderDetails]
      /\ DOMAIN open' = DOMAIN open \cup {id}
      /\ open' \in [DOMAIN open' -> OpenOrder]
  <2>1. [symbol |-> task.symbol, quantity |-> Magnitude(task.delta),
         side_is_buy |-> task.delta > 0, status |-> "PENDING_NEW",
         filled_quantity |-> 0] \in OrderDetails
    BY <1>2 DEF OrderDetails, Statuses
  <2>2. [symbol |-> task.symbol, quantity |-> Magnitude(task.delta),
         side_is_buy |-> task.delta > 0, filled |-> 0, unreported |-> 0,
         asked |-> FALSE] \in OpenOrder
    BY <1>2 DEF OpenOrder
  <2>3. /\ live_orders \in [DOMAIN live_orders -> OrderDetails]
        /\ open \in [DOMAIN open -> OpenOrder]
    BY DEF Types, TypeOK, ManagerTypeOK, OpenOrder
  <2>4. /\ DOMAIN live_orders' = DOMAIN live_orders \cup {id}
        /\ live_orders' \in [DOMAIN live_orders \cup {id} -> OrderDetails]
    BY <1>1, <2>1, <2>3 DEF PlaceOrder
  <2>5. /\ DOMAIN open' = DOMAIN open \cup {id}
        /\ open' \in [DOMAIN open \cup {id} -> OpenOrder]
    BY <1>1, <2>2, <2>3 DEF Submitted
  <2> QED
    BY <2>4, <2>5
<1>4. IsFiniteSet(DOMAIN live_orders') /\ IsFiniteSet(DOMAIN open')
  BY <1>3, FS_AddElement DEF Types
<1>5. live_orders_by_symbol' \in [Symbols -> Seq(OrderIds)]
  <2>1. Append(live_orders_by_symbol[task.symbol], id) \in Seq(OrderIds)
    BY <1>2 DEF Types, TypeOK, ManagerTypeOK
  <2> QED
    BY <1>1, <1>2, <2>1 DEF PlaceOrder, Types, TypeOK, ManagerTypeOK
<1>6. pc' \in {"top", "reconcile"} /\ task' = Null
  BY <1>1, ContinueIsPc DEF PlaceOrder
<1> QED
  BY <1>1, <1>3, <1>4, <1>5, <1>6
     DEF PlaceStep, PlaceOrder, queues, Types, TypeOK, ManagerTypeOK, OpenOrder

\* Stopping the broker keeps the types.
LEMMA StopKeepsTypes ==
  ASSUME Types, StopStep PROVE Types'
<1>1. open' \in [DOMAIN open -> OpenOrder] /\ DOMAIN open' = DOMAIN open
  <2>1. \A o \in OpenOrder : Asked(o) \in OpenOrder
    BY DEF Asked, OpenOrder
  <2>2. open \in [DOMAIN open -> OpenOrder]
    BY DEF Types, TypeOK, OpenOrder
  <2> QED
    BY <2>1, <2>2 DEF StopStep, Stopped
<1> QED
  BY <1>1 DEF StopStep, StopBroker, books, queues, Types, TypeOK, ManagerTypeOK, OpenOrder

\* A fill keeps the types.
LEMMA ExecuteKeepsTypes ==
  ASSUME Types, NEW id \in OrderIds, NEW quantity, ExecuteStep(id, quantity) PROVE Types'
<1>1. /\ open \in [DOMAIN open -> OpenOrder] /\ id \in DOMAIN open /\ open[id] \in OpenOrder
  BY DEF Types, TypeOK, OpenOrder, ExecuteStep, Executed
<1>2. quantity \in Nat /\ open[id].symbol \in Symbols /\ open[id].side_is_buy \in BOOLEAN
  BY <1>1 DEF ExecuteStep, Executed, OpenOrder
<1>3. /\ DOMAIN open' = DOMAIN open
      /\ open' \in [DOMAIN open -> OpenOrder]
  <2>1. open' = [open EXCEPT ![id].filled = @ + quantity, ![id].unreported = @ + quantity]
    BY DEF ExecuteStep, Executed
  <2>2. open'[id] \in OpenOrder
    BY <1>1, <1>2, <2>1 DEF OpenOrder
  <2> QED
    BY <1>1, <2>1, <2>2
<1>4. account' \in [Symbols -> Int]
  <2>1. Signed(open[id].side_is_buy, quantity) \in Int
    BY <1>2, SignedIsInt
  <2> QED
    BY <1>2, <2>1 DEF ExecuteStep, Types, TypeOK
<1> QED
  BY <1>3, <1>4 DEF ExecuteStep, pmVars, books, queues, control, Types, TypeOK, ManagerTypeOK, OpenOrder

\* The confirmation a broker sends in a state.
ConfOf(id, status) ==
  [client_order_id |-> id, symbol |-> open[id].symbol, filled_quantity |-> open[id].unreported,
   side_is_buy |-> open[id].side_is_buy, status |-> status]

\* A confirmation is a well-typed message, appended to the queue.
LEMMA ConfirmStepIs ==
  ASSUME Types, NEW id \in DOMAIN open, NEW status \in Statuses, ConfirmStep(id, status)
  PROVE  /\ ConfOf(id, status) \in TradeConfirmationMessage
         /\ TradeConfirmation(ConfOf(id, status))
         /\ \/ /\ status = "PARTIALLY_FILLED"
               /\ open' = [open EXCEPT ![id] = [@ EXCEPT !.unreported = 0]]
            \/ /\ status \in FinalStatuses(open[id])
               /\ status \in Terminal
               /\ open' = [i \in DOMAIN open \ {id} |-> open[i]]
<1>1. open[id] \in OpenOrder /\ id \in OrderIds
  BY DEF Types, TypeOK, OpenOrder
<1>2. ConfOf(id, status) \in TradeConfirmationMessage
  BY <1>1 DEF ConfOf, OpenOrder, TradeConfirmationMessage
<1>3. Confirmed(id, ConfOf(id, status)) /\ TradeConfirmation(ConfOf(id, status))
  BY DEF ConfirmStep, ConfOf
<1>4. ConfOf(id, status).status = status
  BY DEF ConfOf
<1> QED
  BY <1>2, <1>3, <1>4 DEF Confirmed, FinalStatuses, Without, Restrict

\* A confirmation keeps the types.
LEMMA ConfirmKeepsTypes ==
  ASSUME Types, NEW id \in DOMAIN open, NEW status \in Statuses, ConfirmStep(id, status)
  PROVE  Types'
<1>1. /\ ConfOf(id, status) \in TradeConfirmationMessage
      /\ TradeConfirmation(ConfOf(id, status))
  BY ConfirmStepIs
<1>2. /\ DOMAIN open' \subseteq OrderIds /\ IsFiniteSet(DOMAIN open')
      /\ open' \in [DOMAIN open' -> OpenOrder]
  <2>1. open \in [DOMAIN open -> OpenOrder] /\ open[id] \in OpenOrder
    BY DEF Types, TypeOK, OpenOrder
  <2>2. [open[id] EXCEPT !.unreported = 0] \in OpenOrder
    BY <2>1 DEF OpenOrder
  <2>3. IsFiniteSet(DOMAIN open \ {id})
    BY FS_RemoveElement DEF Types
  <2>4. CASE open' = [open EXCEPT ![id] = [@ EXCEPT !.unreported = 0]]
    BY <2>1, <2>2, <2>4 DEF Types, TypeOK
  <2>5. CASE open' = [i \in DOMAIN open \ {id} |-> open[i]]
    BY <2>1, <2>3, <2>5 DEF Types, TypeOK
  <2> QED
    BY <2>4, <2>5, ConfirmStepIs
<1>3. trade_confirmations_q' \in Seq(TradeConfirmationMessage)
  BY <1>1 DEF TradeConfirmation, Types, TypeOK, ManagerTypeOK
<1> QED
  BY <1>1, <1>2, <1>3
     DEF ConfirmStep, TradeConfirmation, books, control, Types, TypeOK, ManagerTypeOK, OpenOrder

\* A step that changes nothing keeps the types.
LEMMA StutterKeepsTypes ==
  ASSUME Types, UNCHANGED vars PROVE Types'
BY DEF vars, pmVars, books, queues, control, Types, TypeOK, ManagerTypeOK

\* Every step keeps the types.
LEMMA NextKeepsTypes ==
  ASSUME Types, [Next]_vars PROVE Types'
<1>1. CASE Strategy
  BY <1>1, StrategyKeepsTypes
<1>2. CASE Manager
  BY <1>2, LoopKeepsTypes, CancelKeepsTypes, PlaceKeepsTypes, StopKeepsTypes DEF Manager
<1>3. CASE \E id \in OrderIds : BrokerStep(id)
  BY <1>3, ExecuteKeepsTypes, ConfirmKeepsTypes DEF BrokerStep
<1>4. CASE UNCHANGED vars
  BY <1>4, StutterKeepsTypes
<1> QED
  BY <1>1, <1>2, <1>3, <1>4 DEF Next, Finished

\* The types hold in every reachable state.
LEMMA TypesHold == Spec => []Types
BY TypesInit, NextKeepsTypes, PTL DEF Spec

\* The manager and its broker keep their types, whatever the broker does.
THEOREM TypeCorrect == Spec => []TypeOK
<1>1. Types => TypeOK
  BY DEF Types
<1> QED
  BY <1>1, TypesHold, PTL

-----------------------------------------------------------------------------
(* The inductive invariant *)

\* The confirmations on their way to the manager.
Queue == trade_confirmations_q

\* The confirmation at this place ends its order.
IsFinal(i) == Queue[i].status \in Terminal

\* OrdersAccountedFor, one fact at a time.
Accounting ==
  /\ \A id \in DOMAIN open : id \in DOMAIN live_orders
  /\ \A i \in DOMAIN Queue : Queue[i].client_order_id \in DOMAIN live_orders
  /\ \A i \in DOMAIN Queue : IsFinal(i) => Queue[i].client_order_id \notin DOMAIN open
  /\ \A id \in DOMAIN live_orders :
       id \notin DOMAIN open =>
         \E i \in DOMAIN Queue : Queue[i].client_order_id = id /\ IsFinal(i)
  /\ \A i, j \in DOMAIN Queue :
       IsFinal(i) /\ Queue[j].client_order_id = Queue[i].client_order_id => j <= i

\* The manager, the broker and the confirmations agree on what an order is.
Agreement ==
  /\ \A id \in DOMAIN live_orders : live_orders[id].status \notin Terminal
  /\ \A id \in DOMAIN open :
       /\ open[id].symbol = live_orders[id].symbol
       /\ open[id].side_is_buy = live_orders[id].side_is_buy
       /\ open[id].quantity = live_orders[id].quantity
       /\ open[id].filled <= open[id].quantity
  /\ \A i \in DOMAIN Queue :
       /\ Queue[i].symbol = live_orders[Queue[i].client_order_id].symbol
       /\ Queue[i].side_is_buy = live_orders[Queue[i].client_order_id].side_is_buy

-----------------------------------------------------------------------------
(* What a step does to the orders, the confirmations and the fills *)

\* A step that touches neither orders nor confirmations.
Quiet == UNCHANGED <<live_orders, live_orders_by_symbol, trade_confirmations_q,
                     open, positions, account>>

\* The first confirmation leaves the queue.
Taken(conf) ==
  /\ 1 \in DOMAIN Queue /\ conf = Queue[1] /\ Queue' = Tail(Queue)
  /\ DOMAIN Queue' = 1 .. Len(Queue) - 1
  /\ \A i \in DOMAIN Queue' : i + 1 \in DOMAIN Queue /\ Queue'[i] = Queue[i + 1]

\* The manager books it.
Booked(conf) ==
  /\ conf \in TradeConfirmationMessage
  /\ Taken(conf)
  /\ positions' = [positions EXCEPT ![conf.symbol] = @ + BookedFill(conf)]
  /\ UNCHANGED <<open, account>>

\* The confirmation is of an order the manager does not know.
Ignores(conf) ==
  /\ conf.client_order_id \notin DOMAIN live_orders
  /\ UNCHANGED <<live_orders, live_orders_by_symbol>>

\* The confirmation ends an order the manager knows.
Forgets(conf) ==
  /\ conf.client_order_id \in DOMAIN live_orders /\ conf.status \in Terminal
  /\ live_orders' = [i \in DOMAIN live_orders \ {conf.client_order_id} |-> live_orders[i]]
  /\ live_orders_by_symbol' =
       [live_orders_by_symbol EXCEPT ![conf.symbol] = RemoveFirst(@, conf.client_order_id)]

\* The confirmation reports on an order that stays live.
Updates(conf) ==
  /\ conf.client_order_id \in DOMAIN live_orders /\ conf.status \notin Terminal
  /\ DOMAIN live_orders' = DOMAIN live_orders
  /\ \A i \in DOMAIN live_orders \ {conf.client_order_id} : live_orders'[i] = live_orders[i]
  /\ LET o == live_orders[conf.client_order_id]
         p == live_orders'[conf.client_order_id]
     IN  /\ p.symbol = o.symbol /\ p.side_is_buy = o.side_is_buy /\ p.quantity = o.quantity
         /\ p.filled_quantity = o.filled_quantity + conf.filled_quantity
         /\ p.status = conf.status
  /\ UNCHANGED live_orders_by_symbol

\* Orders are asked to cancel: only their statuses and marks change.
Asks ==
  /\ DOMAIN live_orders' = DOMAIN live_orders
  /\ \A i \in DOMAIN live_orders :
       LET o == live_orders[i]
           p == live_orders'[i]
       IN  /\ p.symbol = o.symbol /\ p.side_is_buy = o.side_is_buy /\ p.quantity = o.quantity
           /\ p.filled_quantity = o.filled_quantity
           /\ p.status = o.status \/ p.status = "PENDING_CANCEL"
  /\ DOMAIN open' = DOMAIN open
  /\ \A i \in DOMAIN open :
       LET o == open[i]
           p == open'[i]
       IN  /\ p.symbol = o.symbol /\ p.side_is_buy = o.side_is_buy /\ p.quantity = o.quantity
           /\ p.filled = o.filled /\ p.unreported = o.unreported
  /\ UNCHANGED <<live_orders_by_symbol, trade_confirmations_q, positions, account>>

\* An order is placed.
Placed(id, symbol, quantity, buy) ==
  /\ symbol \in Symbols /\ quantity \in Nat /\ buy \in BOOLEAN
  /\ Unused(id)
  /\ DOMAIN live_orders' = DOMAIN live_orders \cup {id}
  /\ \A i \in DOMAIN live_orders : live_orders'[i] = live_orders[i]
  /\ live_orders'[id] = [symbol |-> symbol, quantity |-> quantity, side_is_buy |-> buy,
                         status |-> "PENDING_NEW", filled_quantity |-> 0]
  /\ live_orders_by_symbol' = [live_orders_by_symbol EXCEPT ![symbol] = Append(@, id)]
  /\ DOMAIN open' = DOMAIN open \cup {id}
  /\ \A i \in DOMAIN open : open'[i] = open[i]
  /\ open'[id] = [symbol |-> symbol, quantity |-> quantity, side_is_buy |-> buy,
                  filled |-> 0, unreported |-> 0, asked |-> FALSE]
  /\ UNCHANGED <<trade_confirmations_q, positions, account>>

\* Some of an open order is executed.
Fills(id, quantity) ==
  /\ id \in DOMAIN open /\ quantity \in 1 .. open[id].quantity - open[id].filled
  /\ DOMAIN open' = DOMAIN open
  /\ \A i \in DOMAIN open \ {id} : open'[i] = open[i]
  /\ LET o == open[id]
         p == open'[id]
     IN  /\ p.symbol = o.symbol /\ p.side_is_buy = o.side_is_buy /\ p.quantity = o.quantity
         /\ p.filled = o.filled + quantity /\ p.unreported = o.unreported + quantity
  /\ account' = [account EXCEPT ![open[id].symbol] = @ + Signed(open[id].side_is_buy, quantity)]
  /\ UNCHANGED <<live_orders, live_orders_by_symbol, trade_confirmations_q, positions>>

\* A confirmation joins the queue.
Queued(conf) ==
  /\ Queue' = Append(Queue, conf)
  /\ DOMAIN Queue' = 1 .. Len(Queue) + 1
  /\ \A i \in DOMAIN Queue : Queue'[i] = Queue[i]
  /\ Queue'[Len(Queue) + 1] = conf

\* The broker reports what an open order has executed.
Confirms(id, conf) ==
  /\ id \in DOMAIN open
  /\ conf \in TradeConfirmationMessage
  /\ conf.client_order_id = id /\ conf.symbol = open[id].symbol
  /\ conf.side_is_buy = open[id].side_is_buy /\ conf.filled_quantity = open[id].unreported
  /\ Queued(conf)
  /\ UNCHANGED <<live_orders, live_orders_by_symbol, positions, account>>

\* The broker tells what was executed and goes on with the order,
Reports(id, conf) ==
  /\ Confirms(id, conf)
  /\ conf.status \notin Terminal
  /\ DOMAIN open' = DOMAIN open
  /\ \A i \in DOMAIN open \ {id} : open'[i] = open[i]
  /\ LET o == open[id]
         p == open'[id]
     IN  /\ p.symbol = o.symbol /\ p.side_is_buy = o.side_is_buy /\ p.quantity = o.quantity
         /\ p.filled = o.filled /\ p.unreported = 0

\* or it is done with it.
Finishes(id, conf) ==
  /\ Confirms(id, conf)
  /\ conf.status \in Terminal
  /\ open' = [i \in DOMAIN open \ {id} |-> open[i]]

\* Booking a confirmation has one of three shapes.
LEMMA BookCases ==
  ASSUME Types, ProcessTradeConfirmation, UNCHANGED <<open, account>>
  PROVE  \E conf : Booked(conf) /\ (Ignores(conf) \/ Forgets(conf) \/ Updates(conf))
<1> DEFINE conf == Head(Queue)
           id == conf.client_order_id
<1>1. Queue \in Seq(TradeConfirmationMessage) /\ Queue # << >>
  BY DEF ProcessTradeConfirmation, Types, TypeOK, ManagerTypeOK, Queue
<1>2. conf \in TradeConfirmationMessage /\ Taken(conf)
  <2>1. Queue' = Tail(Queue)
    BY DEF ProcessTradeConfirmation, Queue
  <2>2. conf \in TradeConfirmationMessage
    BY <1>1
  <2>3. 1 \in DOMAIN Queue /\ conf = Queue[1]
    BY <1>1
  <2>4. DOMAIN Tail(Queue) = 1 .. Len(Queue) - 1
    BY <1>1
  <2>5. \A i \in 1 .. Len(Queue) - 1 : i + 1 \in DOMAIN Queue /\ Tail(Queue)[i] = Queue[i + 1]
    BY <1>1
  <2> QED
    BY <2>1, <2>2, <2>3, <2>4, <2>5 DEF Taken
<1> HIDE DEF conf
<1>3. Booked(conf)
  BY <1>2 DEF Booked, ProcessTradeConfirmation, conf, Queue
<1>4. Ignores(conf) \/ Forgets(conf) \/ Updates(conf)
  <2>1. CASE id \notin DOMAIN live_orders
    BY <2>1 DEF ProcessTradeConfirmation, Ignores, conf, Queue
  <2>2. CASE id \in DOMAIN live_orders /\ conf.status \in Terminal
    BY <2>2 DEF ProcessTradeConfirmation, ForgetOrder, Forgets, Without, Restrict, conf, Queue
  <2>3. CASE id \in DOMAIN live_orders /\ conf.status \notin Terminal
    <3>1. /\ live_orders' = [live_orders EXCEPT ![id].filled_quantity = @ + conf.filled_quantity,
                                                ![id].status = conf.status]
          /\ UNCHANGED live_orders_by_symbol
      BY <2>3 DEF ProcessTradeConfirmation, UpdateOrder, conf, Queue
    <3>2. live_orders[id] \in OrderDetails
      BY <2>3 DEF Types, TypeOK, ManagerTypeOK
    <3>3. /\ live_orders'[id].symbol = live_orders[id].symbol
          /\ live_orders'[id].side_is_buy = live_orders[id].side_is_buy
          /\ live_orders'[id].quantity = live_orders[id].quantity
          /\ live_orders'[id].filled_quantity
               = live_orders[id].filled_quantity + conf.filled_quantity
          /\ live_orders'[id].status = conf.status
      BY <2>3, <3>1, <3>2 DEF OrderDetails
    <3> QED
      BY <2>3, <3>1, <3>3 DEF Updates
  <2> QED
    BY <2>1, <2>2, <2>3
<1> QED
  BY <1>3, <1>4

\* A cancel request, and a stop, only ask.
LEMMA AskCases ==
  ASSUME Types, CancelStep \/ StopStep PROVE Asks
<1>1. /\ \A i \in DOMAIN live_orders : live_orders[i] \in OrderDetails
      /\ \A i \in DOMAIN open : open[i] \in OpenOrder
  BY DEF Types, TypeOK, ManagerTypeOK, OpenOrder
<1>2. \A i \in DOMAIN open :
        /\ Asked(open[i]).symbol = open[i].symbol
        /\ Asked(open[i]).side_is_buy = open[i].side_is_buy
        /\ Asked(open[i]).quantity = open[i].quantity
        /\ Asked(open[i]).filled = open[i].filled
        /\ Asked(open[i]).unreported = open[i].unreported
  BY <1>1 DEF Asked, OpenOrder
<1>3. CASE CancelStep
  <2>1. PICK id \in OrderIds, accepted \in BOOLEAN :
          CancelOpposing(id, accepted) /\ CancelRequested(id, accepted)
    BY <1>3 DEF CancelStep
  <2>2. /\ DOMAIN open' = DOMAIN open
        /\ \A i \in DOMAIN open : open'[i] = open[i] \/ open'[i] = Asked(open[i])
    BY <2>1 DEF CancelRequested, Types, TypeOK
  <2>3. /\ DOMAIN live_orders' = DOMAIN live_orders
        /\ \A i \in DOMAIN live_orders :
             \/ live_orders'[i] = live_orders[i]
             \/ live_orders'[i] = [live_orders[i] EXCEPT !.status = "PENDING_CANCEL"]
    BY <2>1 DEF CancelOpposing, Types, TypeOK, ManagerTypeOK
  <2>4. \A i \in DOMAIN live_orders :
          /\ live_orders'[i].symbol = live_orders[i].symbol
          /\ live_orders'[i].side_is_buy = live_orders[i].side_is_buy
          /\ live_orders'[i].quantity = live_orders[i].quantity
          /\ live_orders'[i].filled_quantity = live_orders[i].filled_quantity
          /\ \/ live_orders'[i].status = live_orders[i].status
             \/ live_orders'[i].status = "PENDING_CANCEL"
    BY <1>1, <2>3 DEF OrderDetails
  <2> QED
    BY <1>2, <1>3, <2>1, <2>2, <2>3, <2>4 DEF CancelStep, CancelOpposing, queues, Asks
<1>4. CASE StopStep
  <2>1. /\ DOMAIN open' = DOMAIN open
        /\ \A i \in DOMAIN open : open'[i] = open[i] \/ open'[i] = Asked(open[i])
    BY <1>4 DEF StopStep, Stopped, Types, TypeOK
  <2> QED
    BY <1>2, <1>4, <2>1 DEF StopStep, StopBroker, books, queues, Asks
<1> QED
  BY <1>3, <1>4

\* A new order is live, listed and open, under an id nobody used.
LEMMA PlaceCases ==
  ASSUME Types, NEW id \in OrderIds, Unused(id), PlaceOrder(id),
         Submitted(id, task.symbol, Magnitude(task.delta), task.delta > 0),
         UNCHANGED account
  PROVE  Placed(id, task.symbol, Magnitude(task.delta), task.delta > 0)
<1>1. task.symbol \in Symbols /\ Magnitude(task.delta) \in Nat /\ (task.delta > 0) \in BOOLEAN
  BY DEF PlaceOrder, Types, Task, Magnitude
<1>2. id \notin DOMAIN live_orders /\ id \notin DOMAIN open
  BY DEF Unused
<1> QED
  BY <1>1, <1>2 DEF PlaceOrder, Submitted, Placed, queues

\* An execution is a fill of one open order.
LEMMA ExecuteCases ==
  ASSUME Types, NEW id \in OrderIds, NEW quantity, ExecuteStep(id, quantity)
  PROVE  Fills(id, quantity)
<1>1. /\ id \in DOMAIN open /\ open[id] \in OpenOrder
      /\ quantity \in 1 .. open[id].quantity - open[id].filled
  BY DEF Types, TypeOK, OpenOrder, ExecuteStep, Executed
<1>2. open' = [open EXCEPT ![id].filled = @ + quantity, ![id].unreported = @ + quantity]
  BY DEF ExecuteStep, Executed
<1>3. /\ open'[id].symbol = open[id].symbol
      /\ open'[id].side_is_buy = open[id].side_is_buy
      /\ open'[id].quantity = open[id].quantity
      /\ open'[id].filled = open[id].filled + quantity
      /\ open'[id].unreported = open[id].unreported + quantity
  BY <1>1, <1>2 DEF OpenOrder
<1>4. DOMAIN open' = DOMAIN open /\ \A i \in DOMAIN open \ {id} : open'[i] = open[i]
  BY <1>1, <1>2 DEF Types, TypeOK
<1> QED
  BY <1>1, <1>3, <1>4 DEF ExecuteStep, Fills, pmVars, books, queues

\* A confirmation reports on an open order, or ends it.
LEMMA ConfirmCases ==
  ASSUME Types, NEW id \in DOMAIN open, NEW status \in Statuses, ConfirmStep(id, status)
  PROVE  \E conf : Reports(id, conf) \/ Finishes(id, conf)
<1> DEFINE conf == ConfOf(id, status)
<1>1. open[id] \in OpenOrder /\ Queue \in Seq(TradeConfirmationMessage)
  BY DEF Types, TypeOK, ManagerTypeOK, OpenOrder, Queue
<1>2. /\ conf.client_order_id = id /\ conf.symbol = open[id].symbol
      /\ conf.side_is_buy = open[id].side_is_buy /\ conf.filled_quantity = open[id].unreported
      /\ conf.status = status
  BY DEF ConfOf
<1> HIDE DEF conf
<1>3. conf \in TradeConfirmationMessage /\ TradeConfirmation(conf)
  BY ConfirmStepIs DEF conf
<1>4. Queued(conf)
  <2>1. Queue' = Append(Queue, conf)
    BY <1>3 DEF TradeConfirmation, Queue
  <2> QED
    BY <1>1, <1>3, <2>1 DEF Queued
<1>5. Confirms(id, conf)
  BY <1>2, <1>3, <1>4 DEF Confirms, ConfirmStep, TradeConfirmation, books
<1>6. CASE status = "PARTIALLY_FILLED" /\ open' = [open EXCEPT ![id] = [@ EXCEPT !.unreported = 0]]
  <2>1. /\ open'[id].symbol = open[id].symbol
        /\ open'[id].side_is_buy = open[id].side_is_buy
        /\ open'[id].quantity = open[id].quantity
        /\ open'[id].filled = open[id].filled /\ open'[id].unreported = 0
    BY <1>1, <1>6 DEF OpenOrder
  <2>2. DOMAIN open' = DOMAIN open /\ \A i \in DOMAIN open \ {id} : open'[i] = open[i]
    BY <1>6 DEF Types, TypeOK
  <2>3. conf.status \notin Terminal
    BY <1>2, <1>6 DEF Terminal
  <2> QED
    BY <1>5, <2>1, <2>2, <2>3 DEF Reports
<1>7. CASE status \in Terminal /\ open' = [i \in DOMAIN open \ {id} |-> open[i]]
  BY <1>2, <1>5, <1>7 DEF Finishes
<1> QED
  BY <1>6, <1>7, ConfirmStepIs

\* Every step is one of these.
LEMMA StepCases ==
  ASSUME Types, [Next]_vars
  PROVE  \/ Quiet
         \/ \E conf : Booked(conf) /\ (Ignores(conf) \/ Forgets(conf) \/ Updates(conf))
         \/ Asks
         \/ \E id \in OrderIds : \E symbol, quantity, buy : Placed(id, symbol, quantity, buy)
         \/ \E id, quantity : Fills(id, quantity)
         \/ \E id, conf : Reports(id, conf) \/ Finishes(id, conf)
<1>1. CASE Strategy
  <2>1. Quiet
    BY <1>1 DEF Strategy, UpdateTargetPosition, Terminate, books, queues, control, Quiet
  <2> QED
    BY <2>1
<1>2. CASE LoopStep
  <2>1. CASE ProcessTradeConfirmation
    BY <1>2, <2>1, BookCases DEF LoopStep
  <2>2. CASE ~ProcessTradeConfirmation
    <3>1. Quiet
      BY <1>2, <2>2 DEF LoopStep, Loop, LoopTop, TradeConfirmationsDone, ProcessTargetUpdate,
                        TargetUpdatesDone, Reconcile, books, queues, Quiet
    <3> QED
      BY <3>1
  <2> QED
    BY <2>1, <2>2
<1>3. CASE CancelStep \/ StopStep
  BY <1>3, AskCases
<1>4. CASE PlaceStep
  BY <1>4, PlaceCases DEF PlaceStep
<1>5. CASE \E id \in OrderIds : BrokerStep(id)
  BY <1>5, ExecuteCases, ConfirmCases DEF BrokerStep
<1>6. CASE UNCHANGED vars
  <2>1. Quiet
    BY <1>6 DEF vars, pmVars, books, queues, Quiet
  <2> QED
    BY <2>1
<1> QED
  BY <1>1, <1>2, <1>3, <1>4, <1>5, <1>6 DEF Next, Manager, Finished

-----------------------------------------------------------------------------
(* Every order is owed one terminal answer *)

\* Every order the manager counts on is owed its one terminal answer.
Owed == Accounting /\ Agreement

\* The types the steps need.
LEMMA Typed ==
  ASSUME Types
  PROVE  /\ Queue \in Seq(TradeConfirmationMessage)
         /\ Len(Queue) \in Nat /\ DOMAIN Queue = 1 .. Len(Queue)
         /\ \A i \in DOMAIN Queue : Queue[i] \in TradeConfirmationMessage
         /\ DOMAIN live_orders \subseteq OrderIds /\ DOMAIN open \subseteq OrderIds
         /\ \A id \in DOMAIN live_orders : live_orders[id] \in OrderDetails
         /\ \A id \in DOMAIN open : open[id] \in OpenOrder
         /\ \A s \in Symbols : live_orders_by_symbol[s] \in Seq(OrderIds)
BY DEF Types, TypeOK, ManagerTypeOK, Queue, OpenOrder

\* At the start nothing is owed.
LEMMA OwedInit == TradingInit => Owed
BY DEF TradingInit, Init, ContractInit, Owed, Accounting, Agreement, Queue

\* Booking a confirmation keeps what is owed.
LEMMA BookKeepsOwed ==
  ASSUME Types, Owed, NEW conf, Booked(conf), Forgets(conf) \/ Updates(conf)
  PROVE  Owed'
<1> DEFINE id == conf.client_order_id
<1>1. Len(Queue) \in Nat /\ DOMAIN Queue = 1 .. Len(Queue)
  BY Typed
<1>2. /\ 1 \in DOMAIN Queue /\ conf = Queue[1] /\ DOMAIN Queue' = 1 .. Len(Queue) - 1
      /\ \A i \in DOMAIN Queue' : i + 1 \in DOMAIN Queue /\ Queue'[i] = Queue[i + 1]
      /\ UNCHANGED open
  BY DEF Booked, Taken
<1>3. CASE Forgets(conf)
  <2>1. \A i \in DOMAIN Queue' : Queue'[i].client_order_id # id
    BY <1>1, <1>2, <1>3 DEF Forgets, Owed, Accounting, IsFinal
  <2>2. id \notin DOMAIN open /\ DOMAIN live_orders' = DOMAIN live_orders \ {id}
    BY <1>2, <1>3 DEF Forgets, Owed, Accounting, IsFinal
  <2>3. \A i \in DOMAIN live_orders' : live_orders'[i] = live_orders[i]
    BY <1>3 DEF Forgets
  <2>4. ASSUME NEW i \in DOMAIN live_orders', i \notin DOMAIN open
        PROVE  \E j \in DOMAIN Queue' : Queue'[j].client_order_id = i /\ Queue'[j].status \in Terminal
    <3>1. PICK j \in DOMAIN Queue : Queue[j].client_order_id = i /\ Queue[j].status \in Terminal
      BY <2>2, <2>4 DEF Owed, Accounting, IsFinal
    <3>2. j # 1
      BY <1>2, <2>2, <2>4, <3>1
    <3>3. j - 1 \in DOMAIN Queue' /\ (j - 1) + 1 = j
      BY <1>1, <1>2, <3>2
    <3> QED
      BY <1>2, <3>1, <3>3
  <2>5. Accounting'
    BY <1>1, <1>2, <2>1, <2>2, <2>4 DEF Owed, Accounting, IsFinal
  <2>6. Agreement'
    BY <1>2, <2>1, <2>2, <2>3, <2>5 DEF Owed, Agreement, Accounting
  <2> QED
    BY <2>5, <2>6 DEF Owed
<1>4. CASE Updates(conf)
  <2>1. /\ DOMAIN live_orders' = DOMAIN live_orders
        /\ \A i \in DOMAIN live_orders :
             /\ live_orders'[i].symbol = live_orders[i].symbol
             /\ live_orders'[i].side_is_buy = live_orders[i].side_is_buy
             /\ live_orders'[i].quantity = live_orders[i].quantity
             /\ live_orders[i].status \notin Terminal => live_orders'[i].status \notin Terminal
    BY <1>4 DEF Updates
  <2>2. conf.status \notin Terminal
    BY <1>4 DEF Updates
  <2>3. ASSUME NEW i \in DOMAIN live_orders', i \notin DOMAIN open
        PROVE  \E j \in DOMAIN Queue' : Queue'[j].client_order_id = i /\ Queue'[j].status \in Terminal
    <3>1. PICK j \in DOMAIN Queue : Queue[j].client_order_id = i /\ Queue[j].status \in Terminal
      BY <2>1, <2>3 DEF Owed, Accounting, IsFinal
    <3>2. j # 1
      BY <1>2, <2>2, <3>1
    <3>3. j - 1 \in DOMAIN Queue' /\ (j - 1) + 1 = j
      BY <1>1, <1>2, <3>2
    <3> QED
      BY <1>2, <3>1, <3>3
  <2>4. Accounting'
    <3>1. /\ \A i \in DOMAIN open' : i \in DOMAIN live_orders'
          /\ \A i \in DOMAIN Queue' : Queue'[i].client_order_id \in DOMAIN live_orders'
          /\ \A i \in DOMAIN Queue' :
               Queue'[i].status \in Terminal => Queue'[i].client_order_id \notin DOMAIN open'
      BY <1>2, <2>1 DEF Owed, Accounting, IsFinal
    <3>2. \A i, j \in DOMAIN Queue' :
            Queue'[i].status \in Terminal /\ Queue'[j].client_order_id = Queue'[i].client_order_id
              => j <= i
      <4> SUFFICES ASSUME NEW i \in DOMAIN Queue', NEW j \in DOMAIN Queue',
                          Queue'[i].status \in Terminal,
                          Queue'[j].client_order_id = Queue'[i].client_order_id
                   PROVE  j <= i
        OBVIOUS
      <4>1. j + 1 <= i + 1
        BY <1>2 DEF Owed, Accounting, IsFinal
      <4> QED
        BY <1>1, <1>2, <4>1
    <3> QED
      BY <1>2, <2>3, <3>1, <3>2 DEF Accounting, IsFinal
  <2>5. Agreement'
    <3>1. \A i \in DOMAIN Queue' : Queue'[i].client_order_id \in DOMAIN live_orders
      BY <2>1, <2>4 DEF Accounting
    <3>2. \A i \in DOMAIN Queue' :
            /\ Queue'[i].symbol = live_orders'[Queue'[i].client_order_id].symbol
            /\ Queue'[i].side_is_buy = live_orders'[Queue'[i].client_order_id].side_is_buy
      BY <1>2, <2>1, <3>1 DEF Owed, Agreement
    <3>3. \A i \in DOMAIN open : i \in DOMAIN live_orders
      BY DEF Owed, Accounting
    <3>4. /\ \A i \in DOMAIN live_orders' : live_orders'[i].status \notin Terminal
          /\ \A i \in DOMAIN open :
               /\ open[i].symbol = live_orders'[i].symbol
               /\ open[i].side_is_buy = live_orders'[i].side_is_buy
               /\ open[i].quantity = live_orders'[i].quantity
               /\ open[i].filled <= open[i].quantity
      BY <2>1, <3>3 DEF Owed, Agreement
    <3> QED
      BY <1>2, <3>2, <3>4 DEF Agreement
  <2> QED
    BY <2>4, <2>5 DEF Owed
<1> QED
  BY <1>3, <1>4

\* No confirmation reaches the manager for an order it forgot.
LEMMA BookedIsKnown ==
  ASSUME Owed, NEW conf, Booked(conf) PROVE ~Ignores(conf)
BY DEF Owed, Accounting, Booked, Taken, Ignores

\* A cancel request keeps what is owed.
LEMMA AskKeepsOwed ==
  ASSUME Types, Owed, Asks PROVE Owed'
<1>1. Queue' = Queue
  BY DEF Asks, Queue
<1>2. "PENDING_CANCEL" \notin Terminal
  BY DEF Terminal
<1>3. Accounting'
  BY <1>1 DEF Asks, Owed, Accounting, IsFinal
<1>4. Agreement'
  BY <1>1, <1>2 DEF Asks, Owed, Agreement, Accounting
<1> QED
  BY <1>3, <1>4 DEF Owed

\* A new order is owed its answer.
LEMMA PlaceKeepsOwed ==
  ASSUME Types, Owed, NEW id \in OrderIds, NEW symbol, NEW quantity, NEW buy,
         Placed(id, symbol, quantity, buy)
  PROVE  Owed'
<1>1. Queue' = Queue /\ \A i \in DOMAIN Queue : Queue[i].client_order_id # id
  BY DEF Placed, Queue, Unused
<1>2. id \notin DOMAIN live_orders /\ id \notin DOMAIN open
  BY DEF Placed, Unused
<1>3. Accounting'
  BY <1>1, <1>2 DEF Placed, Owed, Accounting, IsFinal
<1>4. "PENDING_NEW" \notin Terminal /\ quantity \in Nat
  BY DEF Terminal, Placed
<1>5. Agreement'
  BY <1>1, <1>2, <1>4 DEF Placed, Owed, Agreement, Accounting
<1> QED
  BY <1>3, <1>5 DEF Owed

\* A fill keeps what is owed.
LEMMA FillKeepsOwed ==
  ASSUME Types, Owed, NEW id, NEW quantity, Fills(id, quantity) PROVE Owed'
<1>1. Queue' = Queue /\ live_orders' = live_orders /\ DOMAIN open' = DOMAIN open
  BY DEF Fills, Queue
<1>2. Accounting'
  BY <1>1 DEF Owed, Accounting, IsFinal
<1>3. open'[id].filled <= open'[id].quantity
  <2>1. open[id].quantity \in Nat /\ open[id].filled \in Nat
    BY Typed DEF Fills, OpenOrder
  <2> QED
    BY <2>1 DEF Fills
<1>4. Agreement'
  BY <1>1, <1>3 DEF Fills, Owed, Agreement, Accounting
<1> QED
  BY <1>2, <1>4 DEF Owed

\* A terminal confirmation is the answer that was owed.
LEMMA ConfirmKeepsOwed ==
  ASSUME Types, Owed, NEW id, NEW conf, Reports(id, conf) \/ Finishes(id, conf)
  PROVE  Owed'
<1>1. Len(Queue) \in Nat /\ DOMAIN Queue = 1 .. Len(Queue)
  BY Typed
<1> DEFINE n == Len(Queue) + 1
<1>2. /\ DOMAIN Queue' = DOMAIN Queue \cup {n} /\ n \notin DOMAIN Queue
      /\ \A i \in DOMAIN Queue : Queue'[i] = Queue[i] /\ i < n
      /\ Queue'[n] = conf
  <2>1. Queued(conf)
    BY DEF Reports, Finishes, Confirms
  <2>2. 1 .. n = (1 .. Len(Queue)) \cup {n} /\ n \notin 1 .. Len(Queue)
    BY <1>1
  <2>3. \A i \in 1 .. Len(Queue) : i < n
    BY <1>1
  <2> QED
    BY <1>1, <2>1, <2>2, <2>3 DEF Queued
<1> HIDE DEF n
<1>3. /\ UNCHANGED live_orders /\ id \in DOMAIN open
      /\ conf.client_order_id = id /\ conf.symbol = open[id].symbol
      /\ conf.side_is_buy = open[id].side_is_buy
  BY DEF Reports, Finishes, Confirms
<1>4. CASE Reports(id, conf)
  <2>1. DOMAIN open' = DOMAIN open /\ conf.status \notin Terminal
    BY <1>4 DEF Reports
  <2>2. Accounting'
    BY <1>1, <1>2, <1>3, <2>1 DEF Owed, Accounting, IsFinal
  <2>3. Agreement'
    BY <1>2, <1>3, <1>4, <2>1 DEF Reports, Owed, Agreement, Accounting
  <2> QED
    BY <2>2, <2>3 DEF Owed
<1>5. CASE Finishes(id, conf)
  <2>1. /\ DOMAIN open' = DOMAIN open \ {id} /\ conf.status \in Terminal
        /\ \A i \in DOMAIN open' : open'[i] = open[i]
    BY <1>5 DEF Finishes
  <2>2. Accounting'
    <3>1. /\ \A i \in DOMAIN open' : i \in DOMAIN live_orders'
          /\ \A i \in DOMAIN Queue' : Queue'[i].client_order_id \in DOMAIN live_orders'
          /\ \A i \in DOMAIN Queue' :
               Queue'[i].status \in Terminal => Queue'[i].client_order_id \notin DOMAIN open'
      BY <1>2, <1>3, <2>1 DEF Owed, Accounting, IsFinal
    <3>2. \A i \in DOMAIN Queue :
            Queue[i].status \in Terminal => Queue[i].client_order_id # id
      BY <1>3 DEF Owed, Accounting, IsFinal
    <3>3. \A i, j \in DOMAIN Queue' :
            Queue'[i].status \in Terminal /\ Queue'[j].client_order_id = Queue'[i].client_order_id
              => j <= i
      <4>1. \A i, j \in DOMAIN Queue :
              Queue[i].status \in Terminal /\ Queue[j].client_order_id = Queue[i].client_order_id
                => j <= i
        BY DEF Owed, Accounting, IsFinal
      <4>2. n \in Int /\ DOMAIN Queue \subseteq Int
        BY <1>1 DEF n
      <4> QED
        BY <1>2, <1>3, <3>2, <4>1, <4>2
    <3>4. ASSUME NEW i \in DOMAIN live_orders', i \notin DOMAIN open'
          PROVE  \E j \in DOMAIN Queue' :
                   Queue'[j].client_order_id = i /\ Queue'[j].status \in Terminal
      BY <1>2, <1>3, <2>1, <3>4 DEF Owed, Accounting, IsFinal
    <3> QED
      BY <3>1, <3>3, <3>4 DEF Accounting, IsFinal
  <2>3. Agreement'
    BY <1>2, <1>3, <2>1 DEF Owed, Agreement, Accounting
  <2> QED
    BY <2>2, <2>3 DEF Owed
<1> QED
  BY <1>4, <1>5

\* Every step keeps what is owed.
LEMMA NextKeepsOwed ==
  ASSUME Types, Owed, [Next]_vars PROVE Owed'
<1>1. CASE Quiet
  BY <1>1 DEF Quiet, Owed, Accounting, Agreement, IsFinal, Queue
<1> QED
  BY <1>1, StepCases, BookedIsKnown, BookKeepsOwed, AskKeepsOwed, PlaceKeepsOwed,
     FillKeepsOwed, ConfirmKeepsOwed

\* What is owed is so in every reachable state.
LEMMA OwedHolds == Spec => [](Types /\ Owed)
<1>1. Types /\ Owed /\ [Next]_vars => (Types /\ Owed)'
  BY NextKeepsTypes, NextKeepsOwed
<1> QED
  BY TypesInit, OwedInit, <1>1, PTL DEF Spec

\* Every order the manager counts on is owed exactly one terminal answer, and no
\* order or confirmation belongs to one it forgot, whatever the broker does.
THEOREM AllOrdersAccountedFor == Spec => []OrdersAccountedFor
<1>1. ASSUME Types, Owed PROVE OrdersAccountedFor
  BY <1>1, Typed DEF Owed, Accounting, OrdersAccountedFor, QueuedFor, IsFinal, Queue
<1> QED
  BY <1>1, OwedHolds, PTL

-----------------------------------------------------------------------------
(* The two maps of the manager *)

\* At the start both maps are empty.
LEMMA IndexInit == TradingInit => IndexesAgree
<1> SUFFICES ASSUME TradingInit PROVE IndexesAgree
  OBVIOUS
<1>1. /\ DOMAIN live_orders = {}
      /\ \A s \in Symbols : DOMAIN live_orders_by_symbol[s] = {}
  BY DEF TradingInit, Init
<1>2. \A s \in Symbols : Range(live_orders_by_symbol[s]) = {}
  BY <1>1 DEF Range
<1> QED
  BY <1>1, <1>2 DEF IndexesAgree, IsInjective

\* Only the index and the symbols of the live orders matter.
LEMMA IndexSame ==
  ASSUME IndexesAgree, UNCHANGED live_orders_by_symbol,
         DOMAIN live_orders' = DOMAIN live_orders,
         \A id \in DOMAIN live_orders : live_orders'[id].symbol = live_orders[id].symbol
  PROVE  IndexesAgree'
BY DEF IndexesAgree

\* A terminal confirmation takes its order out of both maps.
LEMMA ForgetKeepsIndex ==
  ASSUME Types, Owed, IndexesAgree, NEW conf, Booked(conf), Forgets(conf)
  PROVE  IndexesAgree'
<1> DEFINE id == conf.client_order_id
           t == conf.symbol
<1>1. id \in DOMAIN live_orders /\ live_orders[id].symbol = t /\ t \in Symbols
  BY Typed DEF Booked, Taken, Owed, Agreement, Forgets, TradeConfirmationMessage
<1>2. /\ DOMAIN live_orders' = DOMAIN live_orders \ {id}
      /\ \A i \in DOMAIN live_orders' : live_orders'[i] = live_orders[i]
      /\ \A s \in Symbols \ {t} : live_orders_by_symbol'[s] = live_orders_by_symbol[s]
      /\ live_orders_by_symbol'[t] = RemoveFirst(live_orders_by_symbol[t], id)
  BY <1>1 DEF Forgets, Types, TypeOK, ManagerTypeOK
<1>3. /\ IsInjective(live_orders_by_symbol'[t])
      /\ Range(live_orders_by_symbol'[t]) = Range(live_orders_by_symbol[t]) \ {id}
  BY <1>1, <1>2, Typed, RemoveFirstProperties DEF IndexesAgree
<1> HIDE DEF id, t
<1>4. \A s \in Symbols : IsInjective(live_orders_by_symbol'[s])
  BY <1>2, <1>3 DEF IndexesAgree
<1>5. ASSUME NEW s \in Symbols, NEW i \in OrderIds
      PROVE  i \in Range(live_orders_by_symbol'[s])
               <=> i \in DOMAIN live_orders' /\ live_orders'[i].symbol = s
  <2>1. i \in Range(live_orders_by_symbol[s])
          <=> i \in DOMAIN live_orders /\ live_orders[i].symbol = s
    BY DEF IndexesAgree
  <2>2. CASE s = t
    BY <1>2, <1>3, <2>1, <2>2
  <2>3. CASE s # t
    BY <1>1, <1>2, <2>1, <2>3
  <2> QED
    BY <2>2, <2>3
<1> QED
  BY <1>4, <1>5 DEF IndexesAgree

\* A new order enters both maps.
LEMMA PlaceKeepsIndex ==
  ASSUME Types, IndexesAgree, NEW id \in OrderIds, NEW symbol, NEW quantity, NEW buy,
         Placed(id, symbol, quantity, buy)
  PROVE  IndexesAgree'
<1> DEFINE ids == live_orders_by_symbol[symbol]
           n == Len(ids) + 1
<1>1. symbol \in Symbols /\ ids \in Seq(OrderIds) /\ id \notin DOMAIN live_orders
  BY Typed DEF Placed, Unused
<1>2. /\ DOMAIN live_orders' = DOMAIN live_orders \cup {id}
      /\ \A i \in DOMAIN live_orders : live_orders'[i] = live_orders[i]
      /\ live_orders'[id].symbol = symbol
      /\ \A s \in Symbols \ {symbol} : live_orders_by_symbol'[s] = live_orders_by_symbol[s]
      /\ live_orders_by_symbol'[symbol] = Append(ids, id)
  BY <1>1 DEF Placed, Types, TypeOK, ManagerTypeOK
<1>3. id \notin Range(ids)
  BY <1>1 DEF IndexesAgree
<1>4. IsInjective(ids)
  BY <1>1 DEF IndexesAgree
<1> HIDE DEF ids
<1>5. /\ DOMAIN ids = 1 .. Len(ids) /\ Len(ids) \in Nat
      /\ DOMAIN Append(ids, id) = (1 .. Len(ids)) \cup {n} /\ n \notin 1 .. Len(ids)
      /\ \A i \in 1 .. Len(ids) : Append(ids, id)[i] = ids[i]
      /\ Append(ids, id)[n] = id
  BY <1>1
<1> HIDE DEF n
<1>6. Range(Append(ids, id)) = Range(ids) \cup {id}
  BY <1>5 DEF Range
<1>7. IsInjective(Append(ids, id))
  <2>1. \A i \in 1 .. Len(ids) : ids[i] # id
    BY <1>3, <1>5 DEF Range
  <2>2. \A i, j \in 1 .. Len(ids) : ids[i] = ids[j] => i = j
    BY <1>4, <1>5 DEF IsInjective
  <2> QED
    BY <1>5, <2>1, <2>2 DEF IsInjective
<1>8. \A s \in Symbols : IsInjective(live_orders_by_symbol'[s])
  BY <1>2, <1>7 DEF IndexesAgree
<1>9. ASSUME NEW s \in Symbols, NEW i \in OrderIds
      PROVE  i \in Range(live_orders_by_symbol'[s])
               <=> i \in DOMAIN live_orders' /\ live_orders'[i].symbol = s
  <2>1. i \in Range(live_orders_by_symbol[s])
          <=> i \in DOMAIN live_orders /\ live_orders[i].symbol = s
    BY DEF IndexesAgree
  <2>2. CASE s = symbol
    BY <1>2, <1>6, <2>1, <2>2 DEF ids
  <2>3. CASE s # symbol
    BY <1>1, <1>2, <2>1, <2>3
  <2> QED
    BY <2>2, <2>3
<1> QED
  BY <1>8, <1>9 DEF IndexesAgree

\* Every step keeps the maps in agreement.
LEMMA NextKeepsIndex ==
  ASSUME Types, Owed, IndexesAgree, [Next]_vars PROVE IndexesAgree'
<1>1. CASE Quiet \/ \E id, quantity : Fills(id, quantity)
  BY <1>1, IndexSame DEF Quiet, Fills
<1>2. CASE \E conf : Booked(conf) /\ Updates(conf)
  BY <1>2, IndexSame DEF Updates
<1>3. CASE Asks
  BY <1>3, IndexSame DEF Asks
<1>4. CASE \E id, conf : Reports(id, conf) \/ Finishes(id, conf)
  BY <1>4, IndexSame DEF Reports, Finishes, Confirms
<1> QED
  BY <1>1, <1>2, <1>3, <1>4, StepCases, BookedIsKnown, ForgetKeepsIndex, PlaceKeepsIndex

\* The maps agree in every reachable state.
LEMMA IndexHolds == Spec => [](Types /\ Owed /\ IndexesAgree)
<1>1. Types /\ Owed /\ IndexesAgree /\ [Next]_vars => IndexesAgree'
  BY NextKeepsIndex
<1> QED
  BY IndexInit, <1>1, OwedHolds, PTL DEF Spec

\* The manager's details of an order and its index by symbol never disagree, and
\* no order is listed twice.
THEOREM BothIndexesAgree == Spec => []IndexesAgree
BY IndexHolds, PTL

-----------------------------------------------------------------------------
(* Sums over the queued confirmations *)

\* The weights of the queued confirmations of one kind.
QueueSum(kind, weight) ==
  SumFunction([i \in {j \in DOMAIN Queue : Queue[j] \in kind} |-> weight[Queue[i]]])

\* The sum over the queue is an integer.
LEMMA QueueSumIsInt ==
  ASSUME Types, NEW kind, NEW weight, \A m \in TradeConfirmationMessage : weight[m] \in Int
  PROVE  /\ IsFiniteSet({j \in DOMAIN Queue : Queue[j] \in kind})
         /\ QueueSum(kind, weight) \in Int
<1> DEFINE f == [i \in {j \in DOMAIN Queue : Queue[j] \in kind} |-> weight[Queue[i]]]
<1>1. IsFiniteSet(DOMAIN Queue)
  BY Typed, FS_Interval
<1>2. IsFiniteSet({j \in DOMAIN Queue : Queue[j] \in kind})
  BY <1>1, FS_Subset
<1>3. \A i \in DOMAIN f : f[i] \in Int
  BY Typed
<1> QED
  BY <1>2, <1>3, SumFunctionIsInt DEF QueueSum

\* A confirmation that leaves the queue takes its weight away.
LEMMA QueueSumTaken ==
  ASSUME Types, NEW kind, NEW weight, \A m \in TradeConfirmationMessage : weight[m] \in Int,
         NEW conf, Taken(conf)
  PROVE  QueueSum(kind, weight)
           = QueueSum(kind, weight)' + (IF conf \in kind THEN weight[conf] ELSE 0)
<1> DEFINE f == [i \in {j \in DOMAIN Queue : Queue[j] \in kind} |-> weight[Queue[i]]]
           g == [i \in {j \in DOMAIN Queue' : Queue'[j] \in kind} |-> weight[Queue'[i]]]
<1>1. /\ Len(Queue) \in Nat /\ DOMAIN Queue = 1 .. Len(Queue) /\ 1 \in DOMAIN Queue
      /\ DOMAIN Queue' = 1 .. Len(Queue) - 1 /\ conf = Queue[1]
      /\ \A i \in DOMAIN Queue' : Queue'[i] = Queue[i + 1]
  BY Typed DEF Taken
<1>2. IsFiniteSet(DOMAIN f) /\ \A i \in DOMAIN f : f[i] \in Int
  BY Typed, QueueSumIsInt
<1>3. DOMAIN f \subseteq Nat \ {0}
  BY <1>1
<1>4. DOMAIN g = {j \in Nat \ {0} : j + 1 \in DOMAIN f}
  <2>1. \A j \in Nat \ {0} : j \in 1 .. Len(Queue) - 1 <=> j + 1 \in 1 .. Len(Queue)
    BY <1>1
  <2>2. DOMAIN Queue' \subseteq Nat \ {0}
    BY <1>1
  <2> QED
    BY <1>1, <2>1, <2>2
<1>5. \A j \in DOMAIN g : g[j] = f[j + 1]
  BY <1>1, <1>4
<1>6. 1 \in DOMAIN f <=> conf \in kind
  BY <1>1
<1>7. conf \in kind => f[1] = weight[conf]
  BY <1>1
<1>8. QueueSum(kind, weight) = SumFunction(f) /\ QueueSum(kind, weight)' = SumFunction(g)
  BY DEF QueueSum
<1> HIDE DEF f, g
<1>9. SumFunction(f) = SumFunction(g) + (IF 1 \in DOMAIN f THEN f[1] ELSE 0)
  BY <1>2, <1>3, <1>4, <1>5, SumFunctionShifts
<1> QED
  BY <1>6, <1>7, <1>8, <1>9

\* One that joins it adds its weight.
LEMMA QueueSumQueued ==
  ASSUME Types, NEW kind, NEW weight, \A m \in TradeConfirmationMessage : weight[m] \in Int,
         NEW conf \in TradeConfirmationMessage, Queued(conf)
  PROVE  QueueSum(kind, weight)'
           = QueueSum(kind, weight) + (IF conf \in kind THEN weight[conf] ELSE 0)
<1> DEFINE f == [i \in {j \in DOMAIN Queue : Queue[j] \in kind} |-> weight[Queue[i]]]
           g == [i \in {j \in DOMAIN Queue' : Queue'[j] \in kind} |-> weight[Queue'[i]]]
           n == Len(Queue) + 1
<1>1. /\ DOMAIN Queue' = DOMAIN Queue \cup {n} /\ n \notin DOMAIN Queue
      /\ \A i \in DOMAIN Queue : Queue'[i] = Queue[i]
      /\ Queue'[n] = conf
  <2>1. Len(Queue) \in Nat /\ DOMAIN Queue = 1 .. Len(Queue)
    BY Typed
  <2>2. 1 .. n = (1 .. Len(Queue)) \cup {n} /\ n \notin 1 .. Len(Queue)
    BY <2>1
  <2> QED
    BY <2>1, <2>2 DEF Queued
<1>2. IsFiniteSet(DOMAIN f) /\ \A i \in DOMAIN f : f[i] \in Int
  BY Typed, QueueSumIsInt
<1>3. QueueSum(kind, weight) = SumFunction(f) /\ QueueSum(kind, weight)' = SumFunction(g)
  BY DEF QueueSum
<1> HIDE DEF n
<1>4. CASE conf \in kind
  <2>1. /\ n \notin DOMAIN f /\ DOMAIN g = DOMAIN f \cup {n}
        /\ \A i \in DOMAIN f : g[i] = f[i]
        /\ g[n] = weight[conf]
    BY <1>1, <1>4
  <2> HIDE DEF f, g
  <2>2. SumFunction(g) = SumFunction(f) + g[n]
    BY <1>2, <2>1, SumFunctionAdds
  <2> QED
    BY <1>3, <1>4, <2>1, <2>2
<1>5. CASE conf \notin kind
  <2>1. DOMAIN g = DOMAIN f /\ \A i \in DOMAIN f : g[i] = f[i]
    BY <1>1, <1>5
  <2>2. SumFunction(f) \in Int
    BY <1>2, SumFunctionIsInt
  <2> HIDE DEF f, g
  <2>3. SumFunction(g) = SumFunction(f)
    BY <1>2, <2>1, SumFunctionSame
  <2> QED
    BY <1>3, <1>5, <2>2, <2>3
<1> QED
  BY <1>4, <1>5

-----------------------------------------------------------------------------
(* What the manager knows of an order catches up with what happened to it *)

\* What the queued confirmations report of an order.
QueuedQuantity(id) == SumFunction([i \in QueuedFor(id) |-> Queue[i].filled_quantity])

\* FilledQuantityCatchesUp, and the same for orders the broker is done with.
Filling ==
  /\ \A id \in DOMAIN open :
       open[id].filled
         = live_orders[id].filled_quantity + open[id].unreported + QueuedQuantity(id)
  /\ \A id \in DOMAIN live_orders \ DOMAIN open :
       live_orders[id].filled_quantity + QueuedQuantity(id) <= live_orders[id].quantity

\* The confirmations of one order.
MessagesOf(id) == {m \in TradeConfirmationMessage : m.client_order_id = id}

\* What a confirmation weighs when quantities are summed.
Reported == [m \in TradeConfirmationMessage |-> m.filled_quantity]

\* These weights are integers.
LEMMA ReportedIsInt == \A m \in TradeConfirmationMessage : Reported[m] \in Int
BY DEF Reported, TradeConfirmationMessage

\* The queued quantity of an order is a sum over the queue.
LEMMA QueuedQuantityIs ==
  ASSUME Types, NEW id
  PROVE  /\ QueuedQuantity(id) = QueueSum(MessagesOf(id), Reported)
         /\ QueuedQuantity(id) \in Nat
         /\ (\A i \in DOMAIN Queue : Queue[i].client_order_id # id) => QueuedQuantity(id) = 0
<1> DEFINE kind == {j \in DOMAIN Queue : Queue[j] \in MessagesOf(id)}
           f == [i \in kind |-> Queue[i].filled_quantity]
<1>1. QueuedFor(id) = kind
  BY Typed DEF QueuedFor, MessagesOf, Queue
<1>2. [i \in kind |-> Reported[Queue[i]]] = f
  BY Typed DEF Reported
<1>3. IsFiniteSet(kind)
  BY ReportedIsInt, QueueSumIsInt
<1>4. \A i \in kind : f[i] \in Nat
  BY Typed DEF TradeConfirmationMessage
<1>5. QueuedQuantity(id) = SumFunction(f)
  BY <1>1 DEF QueuedQuantity
<1>6. (\A i \in DOMAIN Queue : Queue[i].client_order_id # id) => DOMAIN f = {}
  BY DEF MessagesOf
<1>7. QueueSum(MessagesOf(id), Reported) = SumFunction(f)
  BY <1>2 DEF QueueSum
<1>8. SumFunction(f) \in Nat
  <2> HIDE DEF kind
  <2>1. DOMAIN f = kind
    OBVIOUS
  <2> HIDE DEF f
  <2> QED
    BY <1>3, <1>4, <2>1, SumFunctionIsNat
<1>9. DOMAIN f = {} => SumFunction(f) = 0
  <2> HIDE DEF f
  <2> QED
    BY SumFunctionEmpty
<1> QED
  BY <1>5, <1>6, <1>7, <1>8, <1>9

\* So it is after a step.
LEMMA QueuedQuantityIsNext ==
  ASSUME Types', NEW id
  PROVE  /\ QueuedQuantity(id)' = QueueSum(MessagesOf(id), Reported)'
         /\ QueuedQuantity(id)' \in Nat
<1>1. (Types => /\ QueuedQuantity(id) = QueueSum(MessagesOf(id), Reported)
                /\ QueuedQuantity(id) \in Nat)'
  BY QueuedQuantityIs, PTL
<1> QED
  BY <1>1

\* Taking the first confirmation takes its quantity.
LEMMA QuantityTaken ==
  ASSUME Types, Types', NEW conf, Taken(conf), NEW id
  PROVE  QueuedQuantity(id)
           = QueuedQuantity(id)'
             + (IF conf.client_order_id = id THEN conf.filled_quantity ELSE 0)
<1>1. conf \in TradeConfirmationMessage
  BY Typed DEF Taken
<1>2. QueueSum(MessagesOf(id), Reported)
        = QueueSum(MessagesOf(id), Reported)'
          + (IF conf \in MessagesOf(id) THEN Reported[conf] ELSE 0)
  BY ReportedIsInt, QueueSumTaken
<1> QED
  BY <1>1, <1>2, QueuedQuantityIs, QueuedQuantityIsNext DEF MessagesOf, Reported

\* A confirmation that is queued adds its quantity.
LEMMA QuantityQueued ==
  ASSUME Types, Types', NEW conf \in TradeConfirmationMessage, Queued(conf), NEW id
  PROVE  QueuedQuantity(id)'
           = QueuedQuantity(id)
             + (IF conf.client_order_id = id THEN conf.filled_quantity ELSE 0)
<1>1. QueueSum(MessagesOf(id), Reported)'
        = QueueSum(MessagesOf(id), Reported)
          + (IF conf \in MessagesOf(id) THEN Reported[conf] ELSE 0)
  BY ReportedIsInt, QueueSumQueued
<1> QED
  BY <1>1, QueuedQuantityIs, QueuedQuantityIsNext DEF MessagesOf, Reported

\* The same queue holds the same quantity.
LEMMA QuantitySame ==
  ASSUME UNCHANGED trade_confirmations_q, NEW id
  PROVE  QueuedQuantity(id)' = QueuedQuantity(id)
BY DEF QueuedQuantity, QueuedFor, Queue

\* At the start nothing is filled.
LEMMA FillingInit == TradingInit => Filling
BY DEF TradingInit, Init, ContractInit, Filling

\* The fields the sums are about are numbers.
LEMMA Numbers ==
  ASSUME Types
  PROVE  /\ \A id \in DOMAIN live_orders :
              live_orders[id].quantity \in Nat /\ live_orders[id].filled_quantity \in Nat
         /\ \A id \in DOMAIN open :
              /\ open[id].quantity \in Nat /\ open[id].filled \in Nat
              /\ open[id].unreported \in Nat
BY Typed DEF OrderDetails, OpenOrder

\* Booking moves a quantity from the queue into the manager's order.
LEMMA BookKeepsFilling ==
  ASSUME Types, Types', Owed, Filling, NEW conf, Booked(conf), Forgets(conf) \/ Updates(conf)
  PROVE  Filling'
<1> DEFINE key == conf.client_order_id
<1>1. /\ conf.filled_quantity \in Nat /\ UNCHANGED open /\ Taken(conf)
      /\ \A id \in DOMAIN open : id \in DOMAIN live_orders
  BY DEF Booked, TradeConfirmationMessage, Owed, Accounting
<1>2. \A id : /\ QueuedQuantity(id) \in Nat /\ QueuedQuantity(id)' \in Nat
              /\ QueuedQuantity(id)
                   = QueuedQuantity(id)' + (IF key = id THEN conf.filled_quantity ELSE 0)
  BY <1>1, QueuedQuantityIs, QueuedQuantityIsNext, QuantityTaken
<1>3. CASE Forgets(conf)
  <2>1. /\ DOMAIN live_orders' = DOMAIN live_orders \ {key}
        /\ \A id \in DOMAIN live_orders' : live_orders'[id] = live_orders[id]
    BY <1>3 DEF Forgets
  <2>2. key \notin DOMAIN open
    BY <1>3 DEF Forgets, Booked, Taken, Owed, Accounting, IsFinal
  <2> QED
    BY <1>1, <1>2, <2>1, <2>2, Numbers DEF Filling
<1>4. CASE Updates(conf)
  <2>1. /\ DOMAIN live_orders' = DOMAIN live_orders
        /\ \A id \in DOMAIN live_orders :
             /\ live_orders'[id].quantity = live_orders[id].quantity
             /\ live_orders'[id].filled_quantity
                  = live_orders[id].filled_quantity + (IF key = id THEN conf.filled_quantity ELSE 0)
    BY <1>4, Numbers DEF Updates
  <2> QED
    BY <1>1, <1>2, <2>1, Numbers DEF Filling
<1> QED
  BY <1>3, <1>4

\* A cancel request fills nothing.
LEMMA AskKeepsFilling ==
  ASSUME Owed, Filling, Asks PROVE Filling'
<1>1. \A id : QueuedQuantity(id)' = QueuedQuantity(id)
  BY QuantitySame DEF Asks
<1> QED
  BY <1>1 DEF Asks, Filling, Owed, Accounting

\* A new order has nothing filled.
LEMMA PlaceKeepsFilling ==
  ASSUME Types, Owed, Filling, NEW id \in OrderIds, NEW symbol, NEW quantity, NEW buy,
         Placed(id, symbol, quantity, buy)
  PROVE  Filling'
<1>1. \A i : QueuedQuantity(i)' = QueuedQuantity(i)
  BY QuantitySame DEF Placed
<1>2. QueuedQuantity(id) = 0
  BY QueuedQuantityIs DEF Placed, Unused, Queue
<1>3. /\ DOMAIN live_orders' = DOMAIN live_orders \cup {id}
      /\ DOMAIN open' = DOMAIN open \cup {id}
      /\ \A i \in DOMAIN open : open'[i] = open[i]
      /\ \A i \in DOMAIN live_orders : live_orders'[i] = live_orders[i]
      /\ id \notin DOMAIN live_orders /\ id \notin DOMAIN open
      /\ open'[id].filled = 0 /\ open'[id].unreported = 0 /\ live_orders'[id].filled_quantity = 0
  BY DEF Placed, Unused
<1> QED
  BY <1>1, <1>2, <1>3 DEF Filling, Owed, Accounting

\* A fill is unreported at first.
LEMMA FillKeepsFilling ==
  ASSUME Types, Owed, Filling, NEW id, NEW quantity, Fills(id, quantity) PROVE Filling'
<1>1. \A i : QueuedQuantity(i)' = QueuedQuantity(i) /\ QueuedQuantity(i) \in Nat
  BY QuantitySame, QueuedQuantityIs DEF Fills
<1>2. quantity \in Int
  BY Numbers DEF Fills
<1>3. \A i \in DOMAIN open : i \in DOMAIN live_orders
  BY DEF Owed, Accounting
<1> QED
  BY <1>1, <1>2, <1>3, Numbers DEF Fills, Filling

\* A confirmation moves what was unreported into the queue.
LEMMA ConfirmKeepsFilling ==
  ASSUME Types, Types', Owed, Filling, NEW id, NEW conf, Reports(id, conf) \/ Finishes(id, conf)
  PROVE  Filling'
<1>1. /\ UNCHANGED live_orders /\ id \in DOMAIN open /\ Queued(conf)
      /\ conf \in TradeConfirmationMessage /\ conf.client_order_id = id
      /\ conf.filled_quantity = open[id].unreported
      /\ \A i \in DOMAIN open : i \in DOMAIN live_orders
  BY DEF Reports, Finishes, Confirms, Owed, Accounting
<1>2. \A i : /\ QueuedQuantity(i) \in Nat /\ QueuedQuantity(i)' \in Nat
             /\ QueuedQuantity(i)'
                  = QueuedQuantity(i) + (IF id = i THEN open[id].unreported ELSE 0)
  BY <1>1, QueuedQuantityIs, QueuedQuantityIsNext, QuantityQueued
<1>3. CASE Reports(id, conf)
  BY <1>1, <1>2, <1>3, Numbers DEF Reports, Filling
<1>4. CASE Finishes(id, conf)
  <2>1. DOMAIN open' = DOMAIN open \ {id} /\ \A i \in DOMAIN open' : open'[i] = open[i]
    BY <1>4 DEF Finishes
  <2>2. live_orders[id].filled_quantity + QueuedQuantity(id)' <= live_orders[id].quantity
    <3>1. open[id].filled <= open[id].quantity /\ open[id].quantity = live_orders[id].quantity
      BY <1>1 DEF Owed, Agreement
    <3> QED
      BY <1>1, <1>2, <3>1, Numbers DEF Filling
  <2> QED
    BY <1>1, <1>2, <2>1, <2>2, Numbers DEF Filling
<1> QED
  BY <1>3, <1>4

\* Every step keeps the quantities adding up.
LEMMA NextKeepsFilling ==
  ASSUME Types, Types', Owed, Filling, [Next]_vars PROVE Filling'
<1>1. CASE Quiet
  <2>1. \A id : QueuedQuantity(id)' = QueuedQuantity(id)
    BY <1>1, QuantitySame DEF Quiet
  <2> QED
    BY <1>1, <2>1 DEF Quiet, Filling
<1> QED
  BY <1>1, StepCases, BookedIsKnown, BookKeepsFilling, AskKeepsFilling, PlaceKeepsFilling,
     FillKeepsFilling, ConfirmKeepsFilling

\* The quantities add up in every reachable state.
LEMMA FillingHolds == Spec => [](Types /\ Owed /\ Filling)
<1>1. Types /\ Types' /\ Owed /\ Filling /\ [Next]_vars => Filling'
  BY NextKeepsFilling
<1> QED
  BY FillingInit, <1>1, OwedHolds, PTL DEF Spec

\* What the manager believes of an open order lags behind by exactly what is on
\* its way to it.
THEOREM FilledQuantitiesCatchUp == Spec => []FilledQuantityCatchesUp
<1>1. ASSUME Types, Owed, Filling PROVE FilledQuantityCatchesUp
  <2>1. \A id \in DOMAIN open : id \in DOMAIN live_orders
    BY <1>1 DEF Owed, Accounting
  <2> QED
    BY <1>1, <2>1, Numbers, QueuedQuantityIs DEF Filling, FilledQuantityCatchesUp, QueuedQuantity, Queue
<1> QED
  BY <1>1, FillingHolds, PTL

\* The manager never believes that more of an order was filled than it asked for.
NeverOverfilled ==
  \A id \in DOMAIN live_orders : live_orders[id].filled_quantity <= live_orders[id].quantity

\* Then the manager never believes an order overfilled.
LEMMA FillingBounds ==
  ASSUME Types, Owed, Filling PROVE NeverOverfilled
<1> SUFFICES ASSUME NEW id \in DOMAIN live_orders
             PROVE  live_orders[id].filled_quantity <= live_orders[id].quantity
  BY DEF NeverOverfilled
<1>1. QueuedQuantity(id) \in Nat
  BY QueuedQuantityIs
<1>2. CASE id \in DOMAIN open
  BY <1>1, <1>2, Numbers DEF Owed, Agreement, Filling
<1>3. CASE id \notin DOMAIN open
  BY <1>1, <1>3, Numbers DEF Filling
<1> QED
  BY <1>2, <1>3

\* This is so for every broker that keeps the contract.
THEOREM OrdersNeverOverfilled == Spec => []NeverOverfilled
BY FillingBounds, FillingHolds, PTL

-----------------------------------------------------------------------------
(* No executed fill is lost or counted twice *)

\* What the queued confirmations of a symbol will move its position by.
QueuedShares(s) ==
  SumFunction([i \in {j \in DOMAIN Queue : Queue[j].symbol = s} |->
                 Signed(Queue[i].side_is_buy, Queue[i].filled_quantity)])

\* The open orders of a symbol.
OpenOf(s) == {i \in DOMAIN open : open[i].symbol = s}

\* What was executed of the open orders of a symbol and is not confirmed yet.
UnreportedShares(s) ==
  SumFunction([id \in OpenOf(s) |-> Signed(open[id].side_is_buy, open[id].unreported)])

\* Every executed share is in a position, in the queue or unreported.
Conserved ==
  \A s \in Symbols : account[s] = positions[s] + QueuedShares(s) + UnreportedShares(s)

\* The confirmations of one symbol.
MessagesFor(s) == {m \in TradeConfirmationMessage : m.symbol = s}

\* What a confirmation weighs when shares are summed.
Shares == [m \in TradeConfirmationMessage |-> Signed(m.side_is_buy, m.filled_quantity)]

\* These weights are integers.
LEMMA SharesIsInt == \A m \in TradeConfirmationMessage : Shares[m] \in Int
<1> SUFFICES ASSUME NEW m \in TradeConfirmationMessage PROVE Shares[m] \in Int
  OBVIOUS
<1>1. m.filled_quantity \in Int
  BY DEF TradeConfirmationMessage
<1> QED
  BY <1>1, SignedIsInt DEF Shares

\* The queued shares of a symbol are a sum over the queue.
LEMMA QueuedSharesIs ==
  ASSUME Types, NEW s
  PROVE  QueuedShares(s) = QueueSum(MessagesFor(s), Shares) /\ QueuedShares(s) \in Int
<1> DEFINE kind == {j \in DOMAIN Queue : Queue[j] \in MessagesFor(s)}
<1>1. {j \in DOMAIN Queue : Queue[j].symbol = s} = kind
  BY Typed DEF MessagesFor
<1>2. [i \in kind |-> Shares[Queue[i]]]
        = [i \in kind |-> Signed(Queue[i].side_is_buy, Queue[i].filled_quantity)]
  BY Typed DEF Shares
<1>3. QueuedShares(s) = QueueSum(MessagesFor(s), Shares)
  BY <1>1, <1>2 DEF QueuedShares, QueueSum
<1> QED
  BY <1>3, SharesIsInt, QueueSumIsInt

\* So they are after a step.
LEMMA QueuedSharesIsNext ==
  ASSUME Types', NEW s
  PROVE  QueuedShares(s)' = QueueSum(MessagesFor(s), Shares)' /\ QueuedShares(s)' \in Int
<1>1. (Types => /\ QueuedShares(s) = QueueSum(MessagesFor(s), Shares)
                /\ QueuedShares(s) \in Int)'
  BY QueuedSharesIs, PTL
<1> QED
  BY <1>1

\* Taking the first confirmation takes its shares.
LEMMA SharesTaken ==
  ASSUME Types, Types', NEW conf, Taken(conf), NEW s
  PROVE  QueuedShares(s) = QueuedShares(s)' + (IF conf.symbol = s THEN BookedFill(conf) ELSE 0)
<1>1. conf \in TradeConfirmationMessage
  BY Typed DEF Taken
<1>2. QueueSum(MessagesFor(s), Shares)
        = QueueSum(MessagesFor(s), Shares)'
          + (IF conf \in MessagesFor(s) THEN Shares[conf] ELSE 0)
  BY SharesIsInt, QueueSumTaken
<1> QED
  BY <1>1, <1>2, QueuedSharesIs, QueuedSharesIsNext DEF MessagesFor, Shares, BookedFill

\* A confirmation that is queued adds its shares.
LEMMA SharesQueued ==
  ASSUME Types, Types', NEW conf \in TradeConfirmationMessage, Queued(conf), NEW s
  PROVE  QueuedShares(s)' = QueuedShares(s) + (IF conf.symbol = s THEN BookedFill(conf) ELSE 0)
<1>1. QueueSum(MessagesFor(s), Shares)'
        = QueueSum(MessagesFor(s), Shares)
          + (IF conf \in MessagesFor(s) THEN Shares[conf] ELSE 0)
  BY SharesIsInt, QueueSumQueued
<1> QED
  BY <1>1, QueuedSharesIs, QueuedSharesIsNext DEF MessagesFor, Shares, BookedFill

\* The same queue holds the same shares.
LEMMA SharesSame ==
  ASSUME UNCHANGED trade_confirmations_q, NEW s PROVE QueuedShares(s)' = QueuedShares(s)
BY DEF QueuedShares, Queue

\* The terms of the sum over open orders.
LEMMA OpenShares ==
  ASSUME Types, NEW s
  PROVE  /\ IsFiniteSet(OpenOf(s))
         /\ \A id \in OpenOf(s) : Signed(open[id].side_is_buy, open[id].unreported) \in Int
         /\ UnreportedShares(s) \in Int
<1> DEFINE f == [id \in OpenOf(s) |-> Signed(open[id].side_is_buy, open[id].unreported)]
<1>1. IsFiniteSet(OpenOf(s))
  BY FS_Subset DEF Types, OpenOf
<1>2. \A id \in OpenOf(s) : Signed(open[id].side_is_buy, open[id].unreported) \in Int
  <2> SUFFICES ASSUME NEW id \in OpenOf(s)
               PROVE  Signed(open[id].side_is_buy, open[id].unreported) \in Int
    OBVIOUS
  <2>1. open[id].unreported \in Int
    BY Numbers DEF OpenOf
  <2> QED
    BY <2>1, SignedIsInt
<1>3. DOMAIN f = OpenOf(s) /\ \A id \in DOMAIN f : f[id] \in Int
  BY <1>2
<1> HIDE DEF f
<1>4. SumFunction(f) \in Int
  BY <1>1, <1>3, SumFunctionIsInt
<1> QED
  BY <1>1, <1>2, <1>4 DEF UnreportedShares, f

\* The unreported shares of a symbol are an integer.
LEMMA UnreportedIsInt == ASSUME Types, NEW s PROVE UnreportedShares(s) \in Int
BY OpenShares

\* Orders of other symbols, or none, changed.
LEMMA UnreportedSame ==
  ASSUME Types, NEW s, OpenOf(s)' = OpenOf(s),
         \A id \in OpenOf(s) : /\ open'[id].side_is_buy = open[id].side_is_buy
                               /\ open'[id].unreported = open[id].unreported
  PROVE  UnreportedShares(s)' = UnreportedShares(s)
BY DEF UnreportedShares

\* What an order has unreported is a natural.
LEMMA UnreportedIsNat ==
  ASSUME Types PROVE \A i \in DOMAIN open : open[i].unreported \in Nat
BY Numbers

\* An order changed, which kept its symbol and side.
LEMMA UnreportedChanges ==
  ASSUME Types, Types', NEW id \in DOMAIN open, DOMAIN open' = DOMAIN open,
         \A i \in DOMAIN open \ {id} : open'[i] = open[i],
         open'[id].symbol = open[id].symbol, open'[id].side_is_buy = open[id].side_is_buy,
         NEW s
  PROVE  UnreportedShares(s)'
           = UnreportedShares(s)
             + (IF open[id].symbol = s
                  THEN Signed(open[id].side_is_buy, open'[id].unreported - open[id].unreported)
                  ELSE 0)
<1>1. OpenOf(s)' = OpenOf(s)
  BY DEF OpenOf
<1>2. UnreportedShares(s) \in Int
  BY OpenShares
<1>3. CASE open[id].symbol # s
  <2>1. UnreportedShares(s)' = UnreportedShares(s)
    BY <1>1, <1>3, UnreportedSame DEF OpenOf
  <2> QED
    BY <1>2, <1>3, <2>1
<1>4. CASE open[id].symbol = s
  <2> DEFINE f == [i \in OpenOf(s) |-> Signed(open[i].side_is_buy, open[i].unreported)]
             g == [i \in OpenOf(s)' |-> Signed(open'[i].side_is_buy, open'[i].unreported)]
  <2>1. open[id].unreported \in Nat /\ open'[id].unreported \in Nat
    <3>1. (Types => \A i \in DOMAIN open : open[i].unreported \in Nat)'
      BY UnreportedIsNat, PTL
    <3> QED
      BY <3>1, UnreportedIsNat
  <2>2. id \in OpenOf(s)
    BY <1>4 DEF OpenOf
  <2>3. /\ DOMAIN f = OpenOf(s) /\ DOMAIN g = OpenOf(s)
        /\ f[id] = Signed(open[id].side_is_buy, open[id].unreported)
        /\ g[id] = Signed(open[id].side_is_buy, open'[id].unreported)
        /\ \A i \in DOMAIN f \ {id} : g[i] = f[i]
    BY <1>1, <2>2 DEF OpenOf
  <2>4. IsFiniteSet(DOMAIN f) /\ \A i \in DOMAIN f : f[i] \in Int
    BY OpenShares
  <2>5. UnreportedShares(s)' = SumFunction(g) /\ UnreportedShares(s) = SumFunction(f)
    BY DEF UnreportedShares
  <2> HIDE DEF f, g
  <2>6. f[id] \in Int /\ g[id] \in Int
    BY <2>1, <2>3, SignedIsInt
  <2>7. SumFunction(g) = SumFunction(f) - f[id] + g[id]
    BY <2>2, <2>3, <2>4, <2>6, SumFunctionChanges
  <2>8. g[id] - f[id] = Signed(open[id].side_is_buy, open'[id].unreported - open[id].unreported)
    BY <2>1, <2>3 DEF Signed
  <2> QED
    BY <1>2, <1>4, <2>5, <2>6, <2>7, <2>8
<1> QED
  BY <1>3, <1>4

\* An order is opened, of which nothing is executed.
LEMMA UnreportedOpens ==
  ASSUME Types, NEW id, id \notin DOMAIN open, DOMAIN open' = DOMAIN open \cup {id},
         \A i \in DOMAIN open : open'[i] = open[i], open'[id].unreported = 0,
         NEW s
  PROVE  UnreportedShares(s)' = UnreportedShares(s)
<1> DEFINE f == [i \in OpenOf(s) |-> Signed(open[i].side_is_buy, open[i].unreported)]
           g == [i \in OpenOf(s)' |-> Signed(open'[i].side_is_buy, open'[i].unreported)]
<1>1. CASE open'[id].symbol # s
  <2>1. OpenOf(s)' = OpenOf(s)
    BY <1>1 DEF OpenOf
  <2> QED
    BY <2>1, UnreportedSame DEF OpenOf
<1>2. CASE open'[id].symbol = s
  <2>1. OpenOf(s)' = OpenOf(s) \cup {id} /\ id \notin OpenOf(s)
    BY <1>2 DEF OpenOf
  <2>2. g[id] = 0
    BY <2>1 DEF Signed
  <2>3. /\ id \notin DOMAIN f /\ DOMAIN g = DOMAIN f \cup {id}
        /\ \A i \in DOMAIN f : g[i] = f[i]
    BY <2>1 DEF OpenOf
  <2>4. IsFiniteSet(DOMAIN f) /\ \A i \in DOMAIN f : f[i] \in Int
    BY OpenShares
  <2>5. UnreportedShares(s)' = SumFunction(g) /\ UnreportedShares(s) = SumFunction(f)
    BY DEF UnreportedShares
  <2> HIDE DEF f, g
  <2>6. SumFunction(g) = SumFunction(f) + g[id]
    BY <2>2, <2>3, <2>4, SumFunctionAdds
  <2> QED
    BY <2>2, <2>5, <2>6, OpenShares
<1> QED
  BY <1>1, <1>2

\* An order is closed.
LEMMA UnreportedCloses ==
  ASSUME Types, NEW id \in DOMAIN open, open' = [i \in DOMAIN open \ {id} |-> open[i]], NEW s
  PROVE  UnreportedShares(s)
           = UnreportedShares(s)'
             + (IF open[id].symbol = s THEN Signed(open[id].side_is_buy, open[id].unreported)
                ELSE 0)
<1> DEFINE f == [i \in OpenOf(s)' |-> Signed(open'[i].side_is_buy, open'[i].unreported)]
           g == [i \in OpenOf(s) |-> Signed(open[i].side_is_buy, open[i].unreported)]
<1>1. CASE open[id].symbol # s
  <2>1. OpenOf(s)' = OpenOf(s)
    BY <1>1 DEF OpenOf
  <2>2. UnreportedShares(s)' = UnreportedShares(s)
    BY <1>1, <2>1, UnreportedSame DEF OpenOf
  <2> QED
    BY <1>1, <2>2, OpenShares
<1>2. CASE open[id].symbol = s
  <2>1. OpenOf(s) = OpenOf(s)' \cup {id} /\ id \notin OpenOf(s)'
    BY <1>2 DEF OpenOf
  <2>2. /\ id \notin DOMAIN f /\ DOMAIN g = DOMAIN f \cup {id}
        /\ \A i \in DOMAIN f : g[i] = f[i]
    BY <2>1 DEF OpenOf
  <2>3. IsFiniteSet(DOMAIN g) /\ \A i \in DOMAIN g : g[i] \in Int
    BY OpenShares
  <2>4. UnreportedShares(s)' = SumFunction(f) /\ UnreportedShares(s) = SumFunction(g)
    BY DEF UnreportedShares
  <2>5. g[id] = Signed(open[id].side_is_buy, open[id].unreported)
    BY <2>1
  <2> HIDE DEF f, g
  <2>6. IsFiniteSet(DOMAIN f) /\ \A i \in DOMAIN f : f[i] \in Int
    BY <2>2, <2>3, FS_Subset
  <2>7. SumFunction(g) = SumFunction(f) + g[id]
    BY <2>2, <2>3, <2>6, SumFunctionAdds
  <2> QED
    BY <1>2, <2>4, <2>5, <2>7
<1> QED
  BY <1>1, <1>2

\* At the start there is no share anywhere.
LEMMA ConservedInit == TradingInit => Conserved
<1> SUFFICES ASSUME TradingInit, NEW s \in Symbols
             PROVE  account[s] = positions[s] + QueuedShares(s) + UnreportedShares(s)
  BY DEF Conserved
<1>1. /\ account[s] = 0 /\ positions[s] = 0
      /\ DOMAIN Queue = {} /\ DOMAIN open = {}
  BY DEF TradingInit, Init, ContractInit, Queue
<1>2. QueuedShares(s) = 0
  BY <1>1, SumFunctionEmpty DEF QueuedShares
<1>3. UnreportedShares(s) = 0
  BY <1>1, SumFunctionEmpty DEF UnreportedShares, OpenOf
<1> QED
  BY <1>1, <1>2, <1>3

\* A step that moves fills from one place to the next.
LEMMA BookKeepsConserved ==
  ASSUME Types, Types', Conserved, NEW conf, Booked(conf) PROVE Conserved'
<1> SUFFICES ASSUME NEW s \in Symbols
             PROVE  account'[s] = positions'[s] + QueuedShares(s)' + UnreportedShares(s)'
  BY DEF Conserved
<1>1. UnreportedShares(s)' = UnreportedShares(s) /\ account' = account
  BY DEF Booked, UnreportedShares, OpenOf
<1>2. QueuedShares(s) = QueuedShares(s)' + (IF conf.symbol = s THEN BookedFill(conf) ELSE 0)
  BY SharesTaken DEF Booked
<1>3. /\ positions \in [Symbols -> Int]
      /\ positions' = [positions EXCEPT ![conf.symbol] = @ + BookedFill(conf)]
  BY DEF Booked, Types, TypeOK, ManagerTypeOK
<1>4. BookedFill(conf) \in Int
  <2>1. conf.filled_quantity \in Int
    BY DEF Booked, TradeConfirmationMessage
  <2> QED
    BY <2>1, SignedIsInt DEF BookedFill
<1>5. /\ UnreportedShares(s) \in Int /\ QueuedShares(s)' \in Int
      /\ account[s] = positions[s] + QueuedShares(s) + UnreportedShares(s)
  BY OpenShares, QueuedSharesIsNext DEF Conserved
<1> QED
  BY <1>1, <1>2, <1>3, <1>4, <1>5

\* A fill adds the same shares to the account and to what is unreported.
LEMMA FillKeepsConserved ==
  ASSUME Types, Types', Conserved, NEW id, NEW quantity, Fills(id, quantity) PROVE Conserved'
<1> SUFFICES ASSUME NEW s \in Symbols
             PROVE  account'[s] = positions'[s] + QueuedShares(s)' + UnreportedShares(s)'
  BY DEF Conserved
<1>1. id \in DOMAIN open /\ quantity \in Int /\ open[id].unreported \in Int
  BY Numbers DEF Fills
<1>2. UnreportedShares(s)'
        = UnreportedShares(s)
          + (IF open[id].symbol = s
               THEN Signed(open[id].side_is_buy, open'[id].unreported - open[id].unreported)
               ELSE 0)
  BY <1>1, UnreportedChanges DEF Fills
<1>3. open'[id].unreported - open[id].unreported = quantity
  BY <1>1 DEF Fills
<1>4. QueuedShares(s)' = QueuedShares(s) /\ positions' = positions
  BY SharesSame DEF Fills
<1>5. account' = [account EXCEPT ![open[id].symbol] = @ + Signed(open[id].side_is_buy, quantity)]
  BY DEF Fills
<1>6. /\ UnreportedShares(s) \in Int /\ QueuedShares(s) \in Int
      /\ account \in [Symbols -> Int] /\ positions \in [Symbols -> Int]
      /\ account[s] = positions[s] + QueuedShares(s) + UnreportedShares(s)
      /\ Signed(open[id].side_is_buy, quantity) \in Int
  BY <1>1, OpenShares, QueuedSharesIs, SignedIsInt DEF Conserved, Types, TypeOK, ManagerTypeOK
<1> QED
  BY <1>2, <1>3, <1>4, <1>5, <1>6

\* A confirmation moves unreported shares into the queue.
LEMMA ConfirmKeepsConserved ==
  ASSUME Types, Types', Conserved, NEW id, NEW conf, Reports(id, conf) \/ Finishes(id, conf)
  PROVE  Conserved'
<1> SUFFICES ASSUME NEW s \in Symbols
             PROVE  account'[s] = positions'[s] + QueuedShares(s)' + UnreportedShares(s)'
  BY DEF Conserved
<1> DEFINE reported == IF open[id].symbol = s
                         THEN Signed(open[id].side_is_buy, open[id].unreported) ELSE 0
<1>1. /\ id \in DOMAIN open /\ Queued(conf) /\ conf \in TradeConfirmationMessage
      /\ conf.symbol = open[id].symbol /\ conf.side_is_buy = open[id].side_is_buy
      /\ conf.filled_quantity = open[id].unreported
      /\ account' = account /\ positions' = positions
  BY DEF Reports, Finishes, Confirms
<1>2. open[id].unreported \in Int
  BY <1>1, Numbers
<1>3. QueuedShares(s)' = QueuedShares(s) + reported
  BY <1>1, SharesQueued DEF BookedFill
<1>4. UnreportedShares(s) = UnreportedShares(s)' + reported
  <2>1. CASE Reports(id, conf)
    <3>1. UnreportedShares(s)'
            = UnreportedShares(s)
              + (IF open[id].symbol = s
                   THEN Signed(open[id].side_is_buy, open'[id].unreported - open[id].unreported)
                   ELSE 0)
      BY <1>1, <2>1, UnreportedChanges DEF Reports
    <3>2. open'[id].unreported - open[id].unreported = - open[id].unreported
      BY <1>2, <2>1 DEF Reports
    <3>3. UnreportedShares(s) \in Int
      BY OpenShares
    <3> QED
      BY <1>2, <3>1, <3>2, <3>3 DEF Signed
  <2>2. CASE Finishes(id, conf)
    BY <1>1, <2>2, UnreportedCloses DEF Finishes
  <2> QED
    BY <2>1, <2>2
<1>5. reported \in Int
  BY <1>2, SignedIsInt
<1>6. /\ QueuedShares(s) \in Int /\ UnreportedShares(s)' \in Int
      /\ positions \in [Symbols -> Int]
      /\ account[s] = positions[s] + QueuedShares(s) + UnreportedShares(s)
  <2>1. (Types => UnreportedShares(s) \in Int)'
    BY UnreportedIsInt, PTL
  <2> QED
    BY <2>1, QueuedSharesIs DEF Conserved, Types, TypeOK, ManagerTypeOK
<1> HIDE DEF reported
<1> QED
  BY <1>1, <1>3, <1>4, <1>5, <1>6

\* Every step conserves the shares.
LEMMA NextKeepsConserved ==
  ASSUME Types, Types', Conserved, [Next]_vars PROVE Conserved'
<1>1. CASE Quiet
  BY <1>1, SharesSame DEF Quiet, Conserved, UnreportedShares, OpenOf
<1>2. CASE Asks
  <2>1. \A s : UnreportedShares(s)' = UnreportedShares(s)
    <3> SUFFICES ASSUME NEW s PROVE UnreportedShares(s)' = UnreportedShares(s)
      OBVIOUS
    <3>1. OpenOf(s)' = OpenOf(s)
      BY <1>2 DEF Asks, OpenOf
    <3> QED
      BY <1>2, <3>1, UnreportedSame DEF Asks, OpenOf
  <2> QED
    BY <1>2, <2>1, SharesSame DEF Asks, Conserved
<1>3. CASE \E id \in OrderIds : \E symbol, quantity, buy : Placed(id, symbol, quantity, buy)
  <2>1. PICK id \in OrderIds : \E symbol, quantity, buy : Placed(id, symbol, quantity, buy)
    BY <1>3
  <2>2. PICK symbol, quantity, buy : Placed(id, symbol, quantity, buy)
    BY <2>1
  <2>3. \A s : UnreportedShares(s)' = UnreportedShares(s)
    BY <2>2, UnreportedOpens DEF Placed, Unused
  <2> QED
    BY <2>2, <2>3, SharesSame DEF Placed, Conserved
<1> QED
  BY <1>1, <1>2, <1>3, StepCases, BookKeepsConserved, FillKeepsConserved, ConfirmKeepsConserved

\* The shares are conserved in every reachable state.
LEMMA ConservedHolds == Spec => [](Types /\ Conserved)
<1>1. Types /\ Types' /\ Conserved /\ [Next]_vars => Conserved'
  BY NextKeepsConserved
<1> QED
  BY ConservedInit, <1>1, TypesHold, PTL DEF Spec

\* Every executed share is in the position, in one queued confirmation or with
\* the broker, and in no two of them.
THEOREM AllFillsConserved == Spec => []FillsConserved
<1>1. Conserved => FillsConserved
  BY DEF Conserved, FillsConserved, QueuedShares, UnreportedShares, OpenOf, Queue
<1> QED
  BY <1>1, ConservedHolds, PTL

-----------------------------------------------------------------------------
(* What the live orders of a symbol may still add to its position *)

\* What an order may still add to the position.
Remaining(o) == Signed(o.side_is_buy, o.quantity - o.filled_quantity)

\* The live orders of a symbol.
OrdersOf(s) == {i \in DOMAIN live_orders : live_orders[i].symbol = s}

\* What they may still add together.
Outstanding(s) == SumFunction([id \in OrdersOf(s) |-> Remaining(live_orders[id])])

\* What an order may still add is an integer.
LEMMA RemainingIsInt ==
  ASSUME Types, NEW id \in DOMAIN live_orders PROVE Remaining(live_orders[id]) \in Int
<1>1. live_orders[id].quantity - live_orders[id].filled_quantity \in Int
  BY Numbers
<1> QED
  BY <1>1, SignedIsInt DEF Remaining

\* Finitely many integers are summed.
LEMMA OutstandingTerms ==
  ASSUME Types, NEW s
  PROVE  /\ IsFiniteSet(OrdersOf(s))
         /\ \A id \in OrdersOf(s) : Remaining(live_orders[id]) \in Int
         /\ Outstanding(s) \in Int
<1> DEFINE f == [id \in OrdersOf(s) |-> Remaining(live_orders[id])]
<1>1. IsFiniteSet(OrdersOf(s))
  BY FS_Subset DEF Types, OrdersOf
<1>2. \A id \in OrdersOf(s) : Remaining(live_orders[id]) \in Int
  BY RemainingIsInt DEF OrdersOf
<1>3. DOMAIN f = OrdersOf(s) /\ \A id \in DOMAIN f : f[id] \in Int
  BY <1>2
<1> HIDE DEF f
<1>4. SumFunction(f) \in Int
  BY <1>1, <1>3, SumFunctionIsInt
<1> QED
  BY <1>1, <1>2, <1>4 DEF Outstanding, f

\* So their sum is an integer.
LEMMA OutstandingIsInt == ASSUME Types, NEW s PROVE Outstanding(s) \in Int
BY OutstandingTerms

\* Orders that do not change leave the sum as it was.
LEMMA OutstandingSame ==
  ASSUME Types, NEW s, OrdersOf(s)' = OrdersOf(s),
         \A id \in OrdersOf(s) : Remaining(live_orders'[id]) = Remaining(live_orders[id])
  PROVE  Outstanding(s)' = Outstanding(s)
<1>1. \A id \in OrdersOf(s) : Remaining(live_orders[id])' = Remaining(live_orders[id])
  BY DEF Remaining
<1> QED
  BY <1>1 DEF Outstanding

\* Orders whose statuses alone change owe what they owed.
LEMMA OutstandingAsked ==
  ASSUME Types, Asks, NEW s PROVE Outstanding(s)' = Outstanding(s)
<1>1. OrdersOf(s)' = OrdersOf(s)
  BY DEF Asks, OrdersOf
<1>2. \A id \in OrdersOf(s) : Remaining(live_orders'[id]) = Remaining(live_orders[id])
  BY DEF Asks, OrdersOf, Remaining
<1> QED
  BY <1>1, <1>2, OutstandingSame

\* A fill leaves what is owed, and a forgotten order leaves other symbols alone.
LEMMA OutstandingBooked ==
  ASSUME Types, Types', Owed, NEW conf, Booked(conf), Forgets(conf) \/ Updates(conf), NEW s
  PROVE  /\ s # conf.symbol => Outstanding(s)' = Outstanding(s)
         /\ Updates(conf) => Outstanding(s)'
                               = Outstanding(s) - (IF s = conf.symbol THEN BookedFill(conf) ELSE 0)
<1> DEFINE key == conf.client_order_id
<1>1. /\ conf \in TradeConfirmationMessage /\ key \in DOMAIN live_orders
      /\ live_orders[key].symbol = conf.symbol /\ live_orders[key].side_is_buy = conf.side_is_buy
  BY DEF Booked, Taken, Forgets, Updates, Owed, Agreement
<1>2. s # conf.symbol => Outstanding(s)' = Outstanding(s)
  <2> SUFFICES ASSUME s # conf.symbol PROVE Outstanding(s)' = Outstanding(s)
    OBVIOUS
  <2>1. OrdersOf(s)' = OrdersOf(s)
    BY <1>1 DEF Forgets, Updates, OrdersOf
  <2>2. \A id \in OrdersOf(s) : live_orders'[id] = live_orders[id]
    BY <1>1 DEF Forgets, Updates, OrdersOf
  <2> QED
    BY <2>1, <2>2, OutstandingSame
<1>3. ASSUME Updates(conf), s = conf.symbol
      PROVE  Outstanding(s)' = Outstanding(s) - BookedFill(conf)
  <2> DEFINE f == [id \in OrdersOf(s) |-> Remaining(live_orders[id])]
             g == [id \in OrdersOf(s)' |-> Remaining(live_orders'[id])]
  <2>1. OrdersOf(s)' = OrdersOf(s) /\ key \in OrdersOf(s)
    BY <1>1, <1>3 DEF Updates, OrdersOf
  <2>2. /\ DOMAIN f = OrdersOf(s) /\ DOMAIN g = OrdersOf(s)
        /\ f[key] = Remaining(live_orders[key]) /\ g[key] = Remaining(live_orders'[key])
        /\ \A id \in DOMAIN f \ {key} : g[id] = f[id]
    BY <1>3, <2>1 DEF Updates, OrdersOf
  <2>3. IsFiniteSet(DOMAIN f) /\ \A id \in DOMAIN f : f[id] \in Int
    BY OutstandingTerms
  <2>4. Outstanding(s) = SumFunction(f) /\ Outstanding(s)' = SumFunction(g)
    BY DEF Outstanding, Remaining
  <2>5. /\ live_orders[key].quantity \in Int /\ live_orders[key].filled_quantity \in Int
        /\ conf.filled_quantity \in Int
    BY <1>1, Numbers DEF TradeConfirmationMessage
  <2>6. /\ live_orders'[key].side_is_buy = live_orders[key].side_is_buy
        /\ live_orders'[key].quantity = live_orders[key].quantity
        /\ live_orders'[key].filled_quantity
             = live_orders[key].filled_quantity + conf.filled_quantity
    BY <1>3 DEF Updates
  <2> HIDE DEF f, g
  <2>7. f[key] \in Int /\ g[key] \in Int /\ g[key] = f[key] - BookedFill(conf)
    BY <1>1, <2>2, <2>5, <2>6 DEF Remaining, BookedFill, Signed
  <2>8. SumFunction(g) = SumFunction(f) - f[key] + g[key]
    BY <2>1, <2>2, <2>3, <2>7, SumFunctionChanges
  <2>9. SumFunction(f) \in Int /\ BookedFill(conf) \in Int
    BY <2>3, <2>5, SumFunctionIsInt, SignedIsInt DEF BookedFill
  <2> QED
    BY <2>4, <2>7, <2>8, <2>9
<1> QED
  BY <1>2, <1>3, OutstandingIsInt

\* A new order owes all of its quantity.
LEMMA OutstandingPlaced ==
  ASSUME Types, NEW id, NEW symbol, NEW quantity, NEW buy,
         Placed(id, symbol, quantity, buy), NEW s
  PROVE  Outstanding(s)' = Outstanding(s) + (IF s = symbol THEN Signed(buy, quantity) ELSE 0)
<1>1. /\ id \notin DOMAIN live_orders /\ DOMAIN live_orders' = DOMAIN live_orders \cup {id}
      /\ \A i \in DOMAIN live_orders : live_orders'[i] = live_orders[i]
      /\ live_orders'[id].symbol = symbol /\ live_orders'[id].side_is_buy = buy
      /\ live_orders'[id].quantity = quantity /\ live_orders'[id].filled_quantity = 0
      /\ quantity \in Nat
  BY DEF Placed, Unused
<1>2. CASE s # symbol
  <2>1. OrdersOf(s)' = OrdersOf(s) /\ \A i \in OrdersOf(s) : live_orders'[i] = live_orders[i]
    BY <1>1, <1>2 DEF OrdersOf
  <2> QED
    BY <1>2, <2>1, OutstandingSame, OutstandingIsInt
<1>3. CASE s = symbol
  <2> DEFINE f == [i \in OrdersOf(s) |-> Remaining(live_orders[i])]
             g == [i \in OrdersOf(s)' |-> Remaining(live_orders'[i])]
  <2>1. OrdersOf(s)' = OrdersOf(s) \cup {id} /\ id \notin OrdersOf(s)
    BY <1>1, <1>3 DEF OrdersOf
  <2>2. /\ id \notin DOMAIN f /\ DOMAIN g = DOMAIN f \cup {id}
        /\ \A i \in DOMAIN f : g[i] = f[i]
        /\ g[id] = Remaining(live_orders'[id])
    BY <1>1, <2>1 DEF OrdersOf
  <2>3. IsFiniteSet(DOMAIN f) /\ \A i \in DOMAIN f : f[i] \in Int
    BY OutstandingTerms
  <2>4. Outstanding(s) = SumFunction(f) /\ Outstanding(s)' = SumFunction(g)
    BY DEF Outstanding, Remaining
  <2>5. Remaining(live_orders'[id]) = Signed(buy, quantity)
    BY <1>1 DEF Remaining
  <2>6. Signed(buy, quantity) \in Int
    BY <1>1, SignedIsInt
  <2> HIDE DEF f, g
  <2>7. SumFunction(g) = SumFunction(f) + g[id]
    BY <2>2, <2>3, <2>5, <2>6, SumFunctionAdds
  <2> QED
    BY <1>3, <2>2, <2>4, <2>5, <2>7
<1> QED
  BY <1>2, <1>3

\* _calculate_working_position counts every live order in full: none is
\* terminal, over-filled or missing from the index.
LEMMA WorkingIsOutstanding ==
  ASSUME Types, Owed, IndexesAgree, NeverOverfilled, NEW s \in Symbols
  PROVE  WorkingPosition(s) = positions[s] + Outstanding(s)
<1> DEFINE ids == {id \in Range(live_orders_by_symbol[s]) : id \in DOMAIN live_orders}
<1>1. ids = OrdersOf(s)
  <2>1. Range(live_orders_by_symbol[s]) \subseteq OrderIds
    BY Typed, RangeIsFinite
  <2> QED
    BY <2>1, Typed DEF IndexesAgree, OrdersOf
<1>2. ASSUME NEW id \in DOMAIN live_orders
      PROVE  WorkingEffect(live_orders[id]) = Remaining(live_orders[id])
  <2>1. /\ live_orders[id].status \notin Terminal
        /\ live_orders[id].filled_quantity <= live_orders[id].quantity
        /\ live_orders[id].quantity \in Nat /\ live_orders[id].filled_quantity \in Nat
    BY Numbers DEF Owed, Agreement, NeverOverfilled
  <2> QED
    BY <2>1 DEF WorkingEffect, Remaining, Signed
<1>3. [id \in ids |-> WorkingEffect(live_orders[id])]
        = [id \in OrdersOf(s) |-> Remaining(live_orders[id])]
  BY <1>1, <1>2 DEF OrdersOf
<1> QED
  BY <1>1, <1>3 DEF WorkingPosition, Outstanding

-----------------------------------------------------------------------------
(* On target at the top of the loop *)

\* How far a symbol is from its target once its orders are done.
Gap(s) == target_positions[s] - positions[s] - Outstanding(s)

\* OnTargetAtLoopTop, as it is while the loop runs: only a symbol that is yet to
\* be reconciled is off its target, and the one at hand by the order to place.
OnTrack ==
  /\ pc = "top" => symbols_to_check = {}
  /\ pc = "orders" => task.symbol \notin symbols_to_check /\ task.delta # 0
  /\ \A s \in Symbols \ symbols_to_check :
       Gap(s) = IF pc = "orders" /\ s = task.symbol THEN task.delta ELSE 0

\* What the earlier sections establish.
Sound == Types /\ Owed /\ IndexesAgree /\ Filling

\* The invariants of the other modules hold together.
LEMMA SoundHolds == Spec => []Sound
<1>1. Types /\ Owed /\ IndexesAgree /\ Filling => Sound
  BY DEF Sound
<1> QED
  BY <1>1, IndexHolds, FillingHolds, PTL

\* At the start every symbol is on track.
LEMMA OnTrackInit == TradingInit => OnTrack
<1> SUFFICES ASSUME TradingInit PROVE OnTrack
  OBVIOUS
<1>1. /\ pc = "top" /\ symbols_to_check = {} /\ DOMAIN live_orders = {}
      /\ \A s \in Symbols : positions[s] = 0 /\ target_positions[s] = 0
  BY DEF TradingInit, Init
<1>2. \A s : Outstanding(s) = 0
  BY <1>1, SumFunctionEmpty DEF Outstanding, OrdersOf
<1> QED
  BY <1>1, <1>2 DEF OnTrack, Gap

\* The gap of a symbol is an integer.
LEMMA GapIsInt == ASSUME Types, NEW s \in Symbols PROVE Gap(s) \in Int
<1>1. positions[s] \in Int /\ target_positions[s] \in Int
  BY DEF Types, TypeOK, ManagerTypeOK
<1> QED
  BY <1>1, OutstandingIsInt DEF Gap

\* Steps that move neither positions, orders nor targets.
LEMMA StillOnTrack ==
  ASSUME OnTrack, UNCHANGED <<target_positions, positions, live_orders, symbols_to_check, task>>,
         \/ pc' = pc
         \/ pc # "orders" /\ pc' # "orders" /\ (pc' = "top" => symbols_to_check = {})
  PROVE  OnTrack'
<1>1. \A s : Gap(s)' = Gap(s)
  BY DEF Gap, Outstanding, OrdersOf, Remaining
<1> QED
  BY <1>1 DEF OnTrack

\* Booking moves the gap only of a symbol that is marked.
LEMMA BookKeepsOnTrack ==
  ASSUME Sound, Types', OnTrack, LoopStep, ProcessTradeConfirmation PROVE OnTrack'
<1>1. PICK conf : Booked(conf) /\ (Forgets(conf) \/ Updates(conf))
  BY BookCases, BookedIsKnown DEF LoopStep, Sound
<1>2. /\ pc = "trades" /\ pc' = "trades" /\ UNCHANGED target_positions
      /\ symbols_to_check' = symbols_to_check \cup {conf.symbol}
  <2>1. conf = Head(trade_confirmations_q)
    BY <1>1, Typed DEF Booked, Taken, Queue, Sound
  <2> QED
    BY <2>1 DEF ProcessTradeConfirmation, Affected
<1>3. ASSUME NEW s \in Symbols \ symbols_to_check' PROVE Gap(s)' = Gap(s)
  <2>1. s # conf.symbol
    BY <1>2
  <2>2. Outstanding(s)' = Outstanding(s)
    BY <1>1, <2>1, OutstandingBooked DEF Sound
  <2>3. positions'[s] = positions[s]
    BY <1>1, <2>1 DEF Booked, Sound, Types, TypeOK, ManagerTypeOK
  <2> QED
    BY <1>2, <2>2, <2>3 DEF Gap
<1> QED
  BY <1>2, <1>3 DEF OnTrack

\* So does a new target.
LEMMA TargetKeepsOnTrack ==
  ASSUME Sound, OnTrack, LoopStep, ProcessTargetUpdate PROVE OnTrack'
<1> DEFINE update == Head(target_updates_q)
<1>1. /\ pc = "targets" /\ pc' = "targets"
      /\ UNCHANGED <<positions, live_orders>>
      /\ target_positions' = [target_positions EXCEPT ![update.symbol] = update.target]
      /\ symbols_to_check' = symbols_to_check \cup {update.symbol}
  BY DEF ProcessTargetUpdate, Affected
<1> HIDE DEF update
<1>2. ASSUME NEW s \in Symbols \ symbols_to_check' PROVE Gap(s)' = Gap(s)
  <2>1. target_positions'[s] = target_positions[s]
    BY <1>1 DEF Sound, Types, TypeOK, ManagerTypeOK
  <2>2. Outstanding(s)' = Outstanding(s)
    BY <1>1 DEF Outstanding, OrdersOf, Remaining
  <2> QED
    BY <1>1, <2>1, <2>2 DEF Gap
<1> QED
  BY <1>1, <1>2 DEF OnTrack

\* A symbol that is no longer marked has no gap, or its task has it.
LEMMA ReconcileKeepsOnTrack ==
  ASSUME Sound, OnTrack, NEW symbol \in Symbols, Reconcile(symbol) PROVE OnTrack'
<1> DEFINE delta == target_positions[symbol] - WorkingPosition(symbol)
<1>1. delta = Gap(symbol)
  <2>1. WorkingPosition(symbol) = positions[symbol] + Outstanding(symbol)
    BY WorkingIsOutstanding, FillingBounds DEF Sound
  <2>2. /\ positions[symbol] \in Int /\ target_positions[symbol] \in Int
        /\ Outstanding(symbol) \in Int
    BY OutstandingIsInt DEF Sound, Types, TypeOK, ManagerTypeOK
  <2> QED
    BY <2>1, <2>2 DEF Gap
<1>2. /\ pc = "reconcile" /\ symbols_to_check' = symbols_to_check \ {symbol}
      /\ \/ delta = 0 /\ pc' = Continue(symbols_to_check')
         \/ delta # 0 /\ pc' = "orders" /\ task'.symbol = symbol /\ task'.delta = delta
  BY DEF Reconcile
<1>3. \A s : Gap(s)' = Gap(s)
  BY DEF Reconcile, books, Gap, Outstanding, OrdersOf, Remaining
<1> HIDE DEF delta
<1> QED
  BY <1>1, <1>2, <1>3 DEF OnTrack, Continue

\* Cancelling counts on the order as before.
LEMMA CancelKeepsOnTrack ==
  ASSUME Sound, OnTrack, CancelStep PROVE OnTrack'
<1>1. Asks
  BY AskCases DEF Sound
<1>2. /\ UNCHANGED <<pc, symbols_to_check, target_positions, positions>>
      /\ task'.symbol = task.symbol /\ task'.delta = task.delta
  BY DEF CancelStep, CancelOpposing, Sound, Types, Task
<1>3. \A s : Gap(s)' = Gap(s)
  BY <1>1, <1>2, OutstandingAsked DEF Gap, Sound
<1> QED
  BY <1>2, <1>3 DEF OnTrack

\* What placing the order at hand does to the gaps.
LEMMA PlaceGaps ==
  ASSUME Types, PlaceStep
  PROVE  /\ task \in Task /\ pc = "orders" /\ pc' = Continue(symbols_to_check)
         /\ UNCHANGED <<positions, target_positions, symbols_to_check>>
         /\ \A s \in Symbols :
              Gap(s)' = Gap(s) - (IF s = task.symbol THEN task.delta ELSE 0)
<1>1. PICK id \in OrderIds :
        /\ Unused(id)
        /\ PlaceOrder(id)
        /\ Submitted(id, task.symbol, Magnitude(task.delta), task.delta > 0)
        /\ UNCHANGED account
  BY DEF PlaceStep
<1>2. Placed(id, task.symbol, Magnitude(task.delta), task.delta > 0)
  BY <1>1, PlaceCases
<1>3. /\ task \in Task /\ pc = "orders" /\ pc' = Continue(symbols_to_check)
      /\ UNCHANGED <<positions, target_positions, symbols_to_check>>
  BY <1>1 DEF PlaceOrder, Types
<1>4. Signed(task.delta > 0, Magnitude(task.delta)) = task.delta /\ task.delta \in Int
  BY <1>3 DEF Signed, Magnitude, Task
<1>5. ASSUME NEW s \in Symbols
      PROVE  Gap(s)' = Gap(s) - (IF s = task.symbol THEN task.delta ELSE 0)
  <2>1. Outstanding(s)' = Outstanding(s) + (IF s = task.symbol THEN task.delta ELSE 0)
    BY <1>2, <1>4, OutstandingPlaced
  <2>2. positions[s] \in Int /\ target_positions[s] \in Int /\ Outstanding(s) \in Int
    BY OutstandingIsInt DEF Types, TypeOK, ManagerTypeOK
  <2> QED
    BY <1>3, <1>4, <2>1, <2>2 DEF Gap
<1> QED
  BY <1>3, <1>5

\* The new order closes the gap of its symbol.
LEMMA PlaceKeepsOnTrack ==
  ASSUME Sound, OnTrack, PlaceStep PROVE OnTrack'
<1>1. /\ task \in Task /\ pc = "orders" /\ pc' = Continue(symbols_to_check)
      /\ UNCHANGED <<positions, target_positions, symbols_to_check>>
      /\ \A s \in Symbols : Gap(s)' = Gap(s) - (IF s = task.symbol THEN task.delta ELSE 0)
  BY PlaceGaps DEF Sound
<1>2. task.delta \in Int
  BY <1>1 DEF Task
<1>3. \A s \in Symbols \ symbols_to_check' : Gap(s)' = 0
  BY <1>1, <1>2 DEF OnTrack
<1> QED
  BY <1>1, <1>3 DEF OnTrack, Continue

\* Every step keeps every symbol on track.
LEMMA NextKeepsOnTrack ==
  ASSUME Sound, Types', OnTrack, [Next]_vars PROVE OnTrack'
<1>1. CASE Strategy
  BY <1>1, StillOnTrack
     DEF Strategy, UpdateTargetPosition, Terminate, books, queues, control
<1>2. CASE LoopStep
  <2>1. CASE LoopTop
    BY <2>1, StillOnTrack DEF LoopTop, books
  <2>2. CASE TradeConfirmationsDone
    BY <2>2, StillOnTrack DEF TradeConfirmationsDone, books
  <2>3. CASE TargetUpdatesDone
    BY <2>3, StillOnTrack DEF TargetUpdatesDone, Continue, books
  <2> QED
    BY <1>2, <2>1, <2>2, <2>3, BookKeepsOnTrack, TargetKeepsOnTrack, ReconcileKeepsOnTrack
       DEF LoopStep, Loop
<1>3. CASE CancelStep
  BY <1>3, CancelKeepsOnTrack
<1>4. CASE PlaceStep
  BY <1>4, PlaceKeepsOnTrack
<1>5. CASE StopStep
  BY <1>5, StillOnTrack DEF StopStep, StopBroker, books
<1>6. CASE \E id \in OrderIds : BrokerStep(id)
  BY <1>6, StillOnTrack
     DEF BrokerStep, ExecuteStep, ConfirmStep, TradeConfirmation, pmVars, books, control
<1>7. CASE UNCHANGED vars
  BY <1>7, StillOnTrack DEF vars, pmVars, books, control
<1> QED
  BY <1>1, <1>2, <1>3, <1>4, <1>5, <1>6, <1>7 DEF Next, Manager, Finished

\* Every symbol is on track in every reachable state.
LEMMA OnTrackHolds == Spec => [](Sound /\ OnTrack)
<1>1. Sound /\ Types' /\ OnTrack /\ [Next]_vars => OnTrack'
  BY NextKeepsOnTrack
<1>2. Sound => Types
  BY DEF Sound
<1> QED
  BY OnTrackInit, <1>1, <1>2, SoundHolds, PTL DEF Spec

\* At the top of the loop every symbol is on its target once its orders are
\* done, whatever was cancelled, filled or confirmed meanwhile, and whatever
\* broker that keeps the contract it trades through.
THEOREM AlwaysOnTargetAtLoopTop == Spec => []OnTargetAtLoopTop
<1>1. ASSUME Sound, OnTrack PROVE OnTargetAtLoopTop
  <2> SUFFICES ASSUME pc = "top", NEW s \in Symbols
               PROVE  target_positions[s] = positions[s] + Outstanding(s)
    BY DEF OnTargetAtLoopTop, Outstanding, OrdersOf, Remaining
  <2>1. Gap(s) = 0
    BY <1>1 DEF OnTrack
  <2>2. positions[s] \in Int /\ target_positions[s] \in Int /\ Outstanding(s) \in Int
    BY <1>1, OutstandingIsInt DEF Sound, Types, TypeOK, ManagerTypeOK
  <2> QED
    BY <2>1, <2>2 DEF Gap
<1> QED
  BY <1>1, OnTrackHolds, PTL

-----------------------------------------------------------------------------
(* Orders never multiply *)

\* The symbols that are off their target.
Off == {s \in Symbols : Gap(s) # 0}

\* OrdersBoundedByUpdates, with the orders that are yet to be placed.
Bounded ==
  /\ IsFiniteSet(Off)
  /\ Cardinality(DOMAIN live_orders) + Len(target_updates_q) + Cardinality(Off) <= updates

\* The sizes that are added are numbers.
LEMMA Sizes ==
  ASSUME Types, IsFiniteSet(Off)
  PROVE  /\ Cardinality(DOMAIN live_orders) \in Nat /\ Cardinality(Off) \in Nat
         /\ Len(target_updates_q) \in Nat /\ updates \in Nat
<1>1. target_updates_q \in Seq([symbol : Symbols, target : Targets]) /\ updates \in 0 .. MaxUpdates
  BY DEF Types, TypeOK, ManagerTypeOK
<1> QED
  BY <1>1, FS_CardinalityType, ManagerAssumption DEF Types

\* A set grows by one element at most.
LEMMA OneMore ==
  ASSUME NEW S, NEW T, NEW e, IsFiniteSet(S), T \subseteq S \cup {e}
  PROVE  IsFiniteSet(T) /\ Cardinality(T) <= Cardinality(S) + 1
<1>1. /\ IsFiniteSet(S \cup {e})
      /\ Cardinality(S \cup {e}) \in Nat /\ Cardinality(S) \in Nat
      /\ Cardinality(S \cup {e}) <= Cardinality(S) + 1
  <2>1. Cardinality(S) \in Nat
    BY FS_CardinalityType
  <2>2. CASE e \in S
    <3>1. S \cup {e} = S
      BY <2>2
    <3> QED
      BY <2>1, <3>1
  <2>3. CASE e \notin S
    <3>1. IsFiniteSet(S \cup {e}) /\ Cardinality(S \cup {e}) = Cardinality(S) + 1
      BY <2>3, FS_AddElement
    <3> QED
      BY <2>1, <3>1
  <2> QED
    BY <2>2, <2>3
<1>2. IsFiniteSet(T) /\ Cardinality(T) <= Cardinality(S \cup {e}) /\ Cardinality(T) \in Nat
  BY <1>1, FS_Subset, FS_CardinalityType
<1> QED
  BY <1>1, <1>2

\* At the start there is no order and no update.
LEMMA BoundedInit == TradingInit => Bounded
<1> SUFFICES ASSUME TradingInit PROVE Bounded
  OBVIOUS
<1>1. /\ DOMAIN live_orders = {} /\ target_updates_q = << >> /\ updates = 0
      /\ \A s \in Symbols : positions[s] = 0 /\ target_positions[s] = 0
  BY DEF TradingInit, Init
<1>2. \A s : Outstanding(s) = 0
  BY <1>1, SumFunctionEmpty DEF Outstanding, OrdersOf
<1>3. Off = {}
  BY <1>1, <1>2 DEF Off, Gap
<1>4. Len(target_updates_q) = 0
  BY <1>1
<1> QED
  BY <1>1, <1>3, <1>4, FS_EmptySet DEF Bounded

\* Steps that move no position, order or target.
LEMMA StillBounded ==
  ASSUME Bounded, UNCHANGED <<target_positions, positions, live_orders, target_updates_q, updates>>
  PROVE  Bounded'
BY DEF Bounded, Off, Gap, Outstanding, OrdersOf, Remaining

\* A target adds one update.
LEMMA UpdateKeepsBounded ==
  ASSUME Types, Bounded, NEW symbol \in Symbols, NEW target \in Targets,
         UpdateTargetPosition(symbol, target)
  PROVE  Bounded'
<1> DEFINE update == [symbol |-> symbol, target |-> target]
<1>1. Off' = Off /\ live_orders' = live_orders /\ updates' = updates + 1
      /\ target_updates_q' = Append(target_updates_q, update)
  BY DEF UpdateTargetPosition, books, Off, Gap, Outstanding, OrdersOf, Remaining
<1>2. target_updates_q \in Seq([symbol : Symbols, target : Targets])
  BY DEF Types, TypeOK, ManagerTypeOK
<1> HIDE DEF update
<1>3. Len(target_updates_q') = Len(target_updates_q) + 1
  BY <1>1, <1>2
<1> QED
  BY <1>1, <1>3, Sizes DEF Bounded

\* A forgotten order makes room for the one that may replace it.
LEMMA BookKeepsBounded ==
  ASSUME Sound, Types', Bounded, LoopStep, ProcessTradeConfirmation PROVE Bounded'
<1>1. PICK conf : Booked(conf) /\ (Forgets(conf) \/ Updates(conf))
  BY BookCases, BookedIsKnown DEF LoopStep, Sound
<1>2. UNCHANGED <<target_positions, target_updates_q, updates>>
  BY DEF ProcessTradeConfirmation
<1>3. /\ positions \in [Symbols -> Int] /\ target_positions \in [Symbols -> Int]
      /\ positions' = [positions EXCEPT ![conf.symbol] = @ + BookedFill(conf)]
      /\ conf.symbol \in Symbols
  BY <1>1 DEF Booked, TradeConfirmationMessage, Sound, Types, TypeOK, ManagerTypeOK
<1>4. CASE Forgets(conf)
  <2>1. \A s \in Symbols \ {conf.symbol} : Gap(s)' = Gap(s)
    BY <1>1, <1>2, <1>3, <1>4, OutstandingBooked DEF Gap, Sound
  <2>2. Off' \subseteq Off \cup {conf.symbol}
    BY <2>1 DEF Off
  <2>3. IsFiniteSet(Off') /\ Cardinality(Off') <= Cardinality(Off) + 1
    BY <2>2, OneMore DEF Bounded
  <2>4. Cardinality(DOMAIN live_orders') = Cardinality(DOMAIN live_orders) - 1
    <3>1. /\ conf.client_order_id \in DOMAIN live_orders
          /\ DOMAIN live_orders' = DOMAIN live_orders \ {conf.client_order_id}
      BY <1>4 DEF Forgets
    <3> QED
      BY <3>1, FS_RemoveElement DEF Sound, Types
  <2>5. /\ Cardinality(DOMAIN live_orders) \in Nat /\ Cardinality(Off) \in Nat
        /\ Len(target_updates_q) \in Nat /\ updates \in Nat
    BY Sizes DEF Sound, Bounded
  <2>6. Cardinality(Off') \in Nat
    BY <2>3, FS_CardinalityType
  <2> QED
    BY <1>2, <2>3, <2>4, <2>5, <2>6 DEF Bounded
<1>5. CASE Updates(conf)
  <2>1. BookedFill(conf) \in Int
    <3>1. conf.filled_quantity \in Int
      BY <1>1 DEF Booked, TradeConfirmationMessage
    <3> QED
      BY <3>1, SignedIsInt DEF BookedFill
  <2>2. ASSUME NEW s \in Symbols PROVE Gap(s)' = Gap(s)
    <3>1. Outstanding(s)' = Outstanding(s) - (IF s = conf.symbol THEN BookedFill(conf) ELSE 0)
      BY <1>1, <1>5, OutstandingBooked DEF Sound
    <3>2. positions'[s] = positions[s] + (IF s = conf.symbol THEN BookedFill(conf) ELSE 0)
      BY <1>3, <2>1
    <3>3. positions[s] \in Int /\ target_positions[s] \in Int /\ Outstanding(s) \in Int
      BY <1>3, OutstandingIsInt DEF Sound
    <3> QED
      BY <1>2, <2>1, <3>1, <3>2, <3>3 DEF Gap
  <2>3. Off' = Off
    BY <2>2 DEF Off
  <2> QED
    BY <1>2, <1>5, <2>3 DEF Updates, Bounded
<1> QED
  BY <1>1, <1>4, <1>5

\* A target leaves the queue for the gap it may open.
LEMMA TargetKeepsBounded ==
  ASSUME Types, Bounded, ProcessTargetUpdate PROVE Bounded'
<1> DEFINE update == Head(target_updates_q)
<1>1. /\ UNCHANGED <<positions, live_orders, updates>>
      /\ target_positions' = [target_positions EXCEPT ![update.symbol] = update.target]
      /\ target_updates_q' = Tail(target_updates_q) /\ target_updates_q # << >>
  BY DEF ProcessTargetUpdate
<1>2. Len(target_updates_q') = Len(target_updates_q) - 1
  <2>1. target_updates_q \in Seq([symbol : Symbols, target : Targets])
    BY DEF Types, TypeOK, ManagerTypeOK
  <2> QED
    BY <1>1, <2>1, HeadTailProperties
<1> HIDE DEF update
<1>3. \A s \in Symbols \ {update.symbol} : Gap(s)' = Gap(s)
  <2>1. \A s \in Symbols \ {update.symbol} : target_positions'[s] = target_positions[s]
    BY <1>1 DEF Types, TypeOK, ManagerTypeOK
  <2>2. \A s : Outstanding(s)' = Outstanding(s)
    BY <1>1 DEF Outstanding, OrdersOf, Remaining
  <2> QED
    BY <1>1, <2>1, <2>2 DEF Gap
<1>4. Off' \subseteq Off \cup {update.symbol}
  BY <1>3 DEF Off
<1>5. IsFiniteSet(Off') /\ Cardinality(Off') <= Cardinality(Off) + 1 /\ Cardinality(Off') \in Nat
  BY <1>4, OneMore, FS_CardinalityType DEF Bounded
<1>6. /\ Cardinality(DOMAIN live_orders) \in Nat /\ Cardinality(Off) \in Nat
      /\ Len(target_updates_q) \in Nat /\ updates \in Nat
  BY Sizes DEF Bounded
<1> QED
  BY <1>1, <1>2, <1>5, <1>6 DEF Bounded

\* A cancel request adds no order.
LEMMA CancelKeepsBounded ==
  ASSUME Types, Bounded, CancelStep PROVE Bounded'
<1>1. Asks
  BY AskCases
<1>2. UNCHANGED <<target_positions, positions, target_updates_q, updates>>
  BY DEF CancelStep, CancelOpposing, queues
<1>3. \A s : Gap(s)' = Gap(s)
  BY <1>1, <1>2, OutstandingAsked DEF Gap
<1>4. Off' = Off
  BY <1>3 DEF Off
<1> QED
  BY <1>1, <1>2, <1>4 DEF Asks, Bounded

\* The order at hand closes the gap it is placed for.
LEMMA PlaceKeepsBounded ==
  ASSUME Types, OnTrack, Bounded, PlaceStep PROVE Bounded'
<1>1. /\ task \in Task /\ pc = "orders"
      /\ \A s \in Symbols : Gap(s)' = Gap(s) - (IF s = task.symbol THEN task.delta ELSE 0)
  BY PlaceGaps
<1>2. task.symbol \in Symbols /\ task.delta \in Int
  BY <1>1 DEF Task
<1>3. Gap(task.symbol) = task.delta /\ task.delta # 0
  BY <1>1, <1>2 DEF OnTrack
<1>4. Off' = Off \ {task.symbol} /\ task.symbol \in Off
  BY <1>1, <1>2, <1>3, GapIsInt DEF Off
<1>5. IsFiniteSet(Off') /\ Cardinality(Off') = Cardinality(Off) - 1
  BY <1>4, FS_RemoveElement DEF Bounded
<1>6. /\ UNCHANGED <<target_updates_q, updates>>
      /\ Cardinality(DOMAIN live_orders') = Cardinality(DOMAIN live_orders) + 1
  <2>1. PICK id \in OrderIds : Unused(id) /\ PlaceOrder(id)
    BY DEF PlaceStep
  <2>2. DOMAIN live_orders' = DOMAIN live_orders \cup {id} /\ id \notin DOMAIN live_orders
    BY <2>1 DEF PlaceOrder
  <2>3. Cardinality(DOMAIN live_orders') = Cardinality(DOMAIN live_orders) + 1
    BY <2>2, FS_AddElement DEF Types
  <2> QED
    BY <2>1, <2>3 DEF PlaceOrder, queues
<1>7. /\ Cardinality(DOMAIN live_orders) \in Nat /\ Cardinality(Off) \in Nat
      /\ Len(target_updates_q) \in Nat /\ updates \in Nat
  BY Sizes DEF Bounded
<1> QED
  BY <1>5, <1>6, <1>7 DEF Bounded

\* Every step keeps the orders bounded.
LEMMA NextKeepsBounded ==
  ASSUME Sound, Types', OnTrack, Bounded, [Next]_vars PROVE Bounded'
<1>0. Types
  BY DEF Sound
<1>1. CASE Strategy
  <2>1. CASE Terminate
    BY <2>1, StillBounded DEF Terminate, books, queues
  <2> QED
    BY <1>0, <1>1, <2>1, UpdateKeepsBounded DEF Strategy
<1>2. CASE LoopStep
  <2>1. CASE LoopTop
    BY <2>1, StillBounded DEF LoopTop, books, queues
  <2>2. CASE TradeConfirmationsDone
    BY <2>2, StillBounded DEF TradeConfirmationsDone, books, queues
  <2>3. CASE TargetUpdatesDone
    BY <2>3, StillBounded DEF TargetUpdatesDone, books, queues
  <2>4. ASSUME NEW symbol \in Symbols, Reconcile(symbol) PROVE Bounded'
    BY <2>4, StillBounded DEF Reconcile, books, queues
  <2> QED
    BY <1>0, <1>2, <2>1, <2>2, <2>3, <2>4, BookKeepsBounded, TargetKeepsBounded
       DEF LoopStep, Loop
<1>3. CASE CancelStep
  BY <1>0, <1>3, CancelKeepsBounded
<1>4. CASE PlaceStep
  BY <1>0, <1>4, PlaceKeepsBounded
<1>5. CASE StopStep
  BY <1>5, StillBounded DEF StopStep, StopBroker, books, queues
<1>6. CASE \E id \in OrderIds : BrokerStep(id)
  BY <1>6, StillBounded
     DEF BrokerStep, ExecuteStep, ConfirmStep, TradeConfirmation, pmVars, books, queues
<1>7. CASE UNCHANGED vars
  BY <1>7, StillBounded DEF vars, pmVars, books, queues
<1> QED
  BY <1>1, <1>2, <1>3, <1>4, <1>5, <1>6, <1>7 DEF Next, Manager, Finished

\* The orders are bounded in every reachable state.
LEMMA BoundedHolds == Spec => [](Sound /\ OnTrack /\ Bounded)
<1>1. Sound /\ Types' /\ OnTrack /\ Bounded /\ [Next]_vars => Bounded'
  BY NextKeepsBounded
<1>2. Sound => Types
  BY DEF Sound
<1> QED
  BY BoundedInit, <1>1, <1>2, OnTrackHolds, PTL DEF Spec

\* Cancelling and replacing never multiplies orders: there are never more of
\* them than targets the strategy sent.
THEOREM OrdersAlwaysBounded == Spec => []OrdersBoundedByUpdates
<1>1. ASSUME Types, Bounded PROVE OrdersBoundedByUpdates
  BY <1>1, Sizes DEF Bounded, OrdersBoundedByUpdates
<1>2. Sound => Types
  BY DEF Sound
<1> QED
  BY <1>1, <1>2, BoundedHolds, PTL
=============================================================================
