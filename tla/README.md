# A verification of FlowManager in TLA+

FlowManager brings the positions of a trading account to the targets a strategy
asks for.  A *position manager* (Python) computes what is missing and places and
cancels orders through a *broker*; one broker simulates executions with a thread
per order, the other talks over ZeroMQ to an *order book server* (C++) around a
price-time-priority limit order book.

The modules in this directory model the parts that carry the trading logic,
check them with TLC on small instances, and prove with TLAPS, for all instances,
the safety of the order book, of the manager with any broker that keeps the
contract, that the simulated broker keeps it, and what the C++ broker's maps,
its shared socket and its reports promise.

## 1. Inventory

| Component | Source | State | Operations |
|---|---|---|---|
| Order book | `order_book/src/order_book.cpp` and the classes it uses | `bids_`, `asks_` (price to list of orders), `orders_map_` (id to order and list iterator), the orders' remaining quantity | `AddOrder` (with `MatchOrders`), `CancelOrder`, `GetOrderInfos`, `Size` |
| Order book server | `order_book/src/order_book_server.cpp` | one `OrderBook`, one REP socket | a loop: receive, parse, run one command, reply |
| Broker interface | `brokers/broker_interface.py` | none | `submit_order`, `cancel_order`, `start`, `stop`, the confirmation callback |
| Simulated broker | `brokers/simulated_broker.py` | `live_orders`; per order `amount_filled`, `cancelling` | `submit_order`, `cancel_order`, `stop`, a thread per order |
| C++ book broker | `brokers/cpp_ob_broker.py` | three id maps, a counter, a lock, a REQ socket with timeouts | the interface's calls, as requests to the server |
| Position manager | `position_manager.py` | `positions`, `target_positions`, `live_orders`, `live_orders_by_symbol`, two queues, `terminate_flag` | `update_target_position`, the callback, `terminate`, the loop of `run` |
| Strategy runner | `strategy/strategy_runner.py` | the event log | replays targets, waits and summaries, terminates the manager, joins its thread, logs a last summary, ends the process |
| HTTP API | `main_api.py` | the global instances | start-up and shutdown, target, state and market-data endpoints |

### How they interact

* Strategy or API thread to manager: a put into `target_updates_q`; `terminate`
  sets an event.
* Manager to broker: plain calls from the thread of `run`, under the manager's lock.
* Broker to manager: `_trade_confirmation_callback`, a put into
  `trade_confirmations_q`, from an order's thread (simulated broker) or from the
  manager's own thread, inside the call it made (C++ book broker).
* C++ book broker to server: one JSON request, one reply, five seconds each way.
* Server to book: one call at a time, on one thread.

### What is hard

* *Concurrency.* The manager cancels and replaces an order while the order's
  thread fills it, decides its status and reports it.  Confirmations arrive at
  any step of the loop.
* *Indirect state.* The manager acts on a *working position*: what was confirmed
  plus what its live orders may still do.  It is right only if each executed
  share is in one place at any time.
* *Redundant state.* The book keeps an order in a level and, with an iterator
  into that level, in `orders_map_`; the manager keeps two maps of live orders.
* *Loops.* `MatchOrders` runs until nothing crosses; reconciliation must bring
  every symbol to its target without growing the number of orders.
* *Shutdown.* The loop stops first, the broker afterwards; the API stops the
  broker while the manager may be in a call; the process ends without its daemon
  threads.
* *Failure.*  A timeout in the REQ socket leaves it unknown whether the server
  acted, and the socket unable to send; either process may restart and the other
  keeps what it knew.
* *A shared socket.*  The API asks for market data through the socket the
  manager's thread trades with, without a lock.

### What makes each component correct

* Order book: both sides and the index hold the same orders; no cross at rest;
  price and time priority; the trades reported are the fills made; matching ends;
  FillAndKill orders never rest.
* Position manager: no fill lost or counted twice; every order it counts on is
  owed a final answer; position plus live orders is the target; the number of
  orders is bounded by the number of targets sent.
* Broker: one terminal confirmation per order, with all its fills, never more
  than was asked for, CANCELLED only on request, and always in the end.
* C++ book broker: its maps are the resting orders of the book; every fill is
  reported once, none is invented; a failed request costs little and every call
  returns.
* Whole system: positions reach their targets.

## 2. Modules

| Module | Role |
|---|---|
| `OrderBook` | class `OrderBook`, `Order`, `Trade`: the book in detail |
| `PriceTimeBook` | the abstract book: a set of resting orders, every call one step |
| `OrderBookRefinement` | the refinement mapping from the first to the second |
| `OrderBookProofs` | the theorems about `OrderBook` and their proofs |
| `OrderBookRefinementProofs` | that `OrderBook` implements `PriceTimeBook` |
| `SumTheorems` | sums over finite domains, and an induction over finite sets |
| `BrokerInterface` | the messages between manager and brokers |
| `BrokerContract` | the abstract broker: what the interface's docstrings promise |
| `PositionManager` | class `PositionManager`, the thread of `run` step by step |
| `StrategyRunner` | the main thread of `strategy_runner.py`, with the manager it drives |
| `SimulatedBroker` | class `SimulatedBroker` and the threads of its orders |
| `ContractTrading` | the manager with any broker that keeps the contract |
| `ContractTradingProofs` | its types, the answers owed to the manager, its maps, fills, positions and targets |
| `SimTrading` | the main thread and the manager with the simulated broker; it implements `ContractTrading` |
| `SimTradingProofs` | that it does, and what it has from there |
| `StateSnapshot` | `SimTrading` with the summaries of the manager's state that the main thread logs |
| `OrderBookServer` | the loop of `order_book_server.cpp` around `PriceTimeBook`, and its REP socket |
| `CppOrderBookBroker` | class `CppOrderBookBroker`, its REQ sockets and threads, with the server |
| `OrderBookServerProofs` | what the book behind the server keeps, what its answers hold, and the fills on the wire |
| `CppOrderBookBrokerProofs` | its sockets, its maps and reports, its types, what becomes of its orders |
| `FoldTheorems` | what a fold over a sequence preserves |
| `CppTrading` | the manager with `CppOrderBookBroker`, as `main_api.py` runs them |
| `MC...` | instances of the above for TLC |

### Order book

`bids` and `asks` are functions from the prices that have a level to a sequence
of order ids; `orders_map` is the key set of `orders_map_`, and the iterator in
its entries is the order's place in the sequence (`Location`).  `orders` holds
the `Order` objects that are alive.  `CancelOrder` and `GetOrderInfos` return
within one step.  `AddOrder` is several: it is turned away (`AddDuplicate`,
`AddKilled`) or enters its level (`AddToLevel`), then `Match` is one iteration of
the inner loop of `MatchOrders`, and `Return` the removal of what is left of a
FillAndKill order and the return.  `order` is the order of the call in progress,
and while it is not `Null` no other call begins: the server runs one at a time.

The code erases a level that became empty after the inner loop and the model in
the same step as the pop that empties it; no code runs in between, because the
inner loop ends when a level is empty.  `Order::Fill` throws if the quantity is
more than what is left; that `TypeOK` is invariant shows it never does.

`PriceTimeBook` has no levels, index or loop.  It computes the trades of a new
order as one allocation: order number *n* of those it crosses, by price and
arrival, gets what is left after everything ahead of it.  An order always trades
with the first one it crosses, so that an order of no shares (which `AddOrder`
takes) is gone after one trade of nothing, and rests if it crosses none.
`OrderBookRefinement`
adds a history variable `atRest`, the abstract book of the last moment no call
ran; the abstract step happens when the call returns.

### Trading

`PositionManager` has one step for each message processed, each symbol
reconciled, each cancel and each new order, so that broker threads run between
any two of them.  Its lock is not a variable: only the thread of `run` writes
what the lock protects, and the queues are thread-safe by themselves.  Deltas are
computed per symbol as the code does, and `task` holds the symbol at hand with
the orders to cancel that are left of the code's copy of its list; they are taken
in the order they were placed (`NextToCancel`).  The set iteration over symbols
is in any order.  A defaultdict is a total function with 0 or the empty
sequence where there is no entry.  The two branches for buying and selling are
one, with the direction a parameter.

`SimulatedBroker` has a step for each read and write of an order's thread that
another thread can see: the loop test, a fill, the decision between FILLED and
CANCELLED, the removal from `live_orders` under the lock and the callback.

`BrokerContract` is what the docstrings of `broker_interface.py` promise to the
manager: an order is open until one terminal confirmation, may be executed in
pieces and confirmed in pieces, may be rejected if nothing of it was done, and is
CANCELLED only after a cancel was accepted.  `ContractTrading` checks the manager
against that, so its results hold for brokers that use partial and rejecting
confirmations, which the simulated broker never sends.  `SimTrading` implements
it.

`StrategyRunner` is the main thread: it replays targets, terminates the manager,
joins its thread and exits.  The log is not fixed, so each target may come at any
time, and a `Wait` event is the time other threads take.  The join returns after
ten seconds at the latest, so `Exit` needs nothing of the manager, and when it
happens the manager's and the orders' threads stop where they are (`Running`):
they are daemons.

`StateSnapshot` adds `log_current_summary`.  The summary can be taken where the
manager's lock is free: at the top of the loop, after it, and together with the
steps between the phases of a turn.  `details` are the orders it refers to, which
every step of the manager changes with its own; `ReadOrder` formats one of them,
in any order.  An order that a terminal confirmation removes is written to first
(`Referenced`).  While it formats, the main thread does nothing else.  The
`/state` endpoint returns the same value and formats it in the same way.

`account` in both compositions is a history variable: the sum of executed fills.

### The C++ order book broker and its server

`OrderBookServer` has an abstract book (`PriceTimeBook`, which `OrderBook`
implements) and `wire`, what travels between the server and each socket of a
client: nothing, a request or an answer.  A request is one step, because the
server has one thread and replies before it receives again.  The server's line
118 uses `new_order_status_in_book` before its declaration at line 139; the model
reads it as if it were declared first.

`CppOrderBookBroker` has the three maps as one variable, `details`, because the
code writes them together, and the lock, the counter and `self.socket` by
themselves.  A call in progress is `call[t]`; `call[t].at` is the place of thread
`t` in `_send_request_to_ob` or `stop`, and after it.  Between any two places the
other thread, the server, a timeout or a crash may act.  `state` is what ZeroMQ
keeps of a REQ socket: closed, ready to send, or awaiting an answer; a send or
receive out of turn is the error EFSM.  A closed socket whose request had not left
loses it (`Linger`), or not.  A restart of either process is an action of its own.

No lock protects `self.socket`, so each place reads or writes it once.
`self.socket is None or self.socket.closed` is two reads (`IsNone`, `IsClosed`):
in `_send_request_to_ob` (`Check`), in `start` (`Start`), behind it (`Recheck`) and
in `stop` (`Stopping`).  `Open` assigns a new socket and `Connect` reads it again;
the handler of a `ZMQError` tests it, closes it and sets it to None
(`SocketError`, `CloseSocket`, `Forget`); `send` and `recv` read it once each.
Where the other thread has set it to None in between, the `AttributeError` is
caught at the send, at the receive and at the close in `stop` (`NoSocket`,
`ShutFails`) and nowhere else: `Raise` is the call that ends with it.  For an order
or a cancel that ends the manager's thread (`dead`, a place nothing leaves but a
new process); the endpoint answers with an error and its thread goes on.

Two reductions are made here.  Loading `self.socket` and calling a method of what
was loaded is one step: the other thread can only close that socket in between,
and a call on a closed socket is a step the model has as well.  The options that
`start` sets between the assignment and the connect are one step with the
latter, for they change nothing another thread sees; an option or a connect that
finds the socket closed, or None, is in `Connect` and `Raise`.

`Stop` is the call of `stop` that ends a thread's use of the broker.  The API's
comes from the shutdown event, after `terminate` and without waiting for the
manager, whose call may be in progress and may open a socket again; it comes
after every market-data request, since one thread runs both.  The manager's comes
after its loop, which only the same event ends, so no request of the API is in
progress then (`MayCall`).  The two calls of `stop` may overlap.

`SubmitAnswered` handles the acknowledgement, the trades and the final status in
one step.  The code does the trades outside the lock, but the only other thread
never touches the maps.  It ends in `cleanup` with the lock held in the two
branches that call `_cleanup_order_maps` inside `with self._lock`.

Simplifications: a socket that one thread closes while the other is blocked on it
makes the wait fail with an error or another exception (`ReceiveBroken`).  ZeroMQ
leaves this undefined: an abort of the process is `ClientRestarts`, and a wait
that never ends is not in the model, so that `CallsReturn` is claimed for one
thread only, where it cannot happen.  Sends do not time out, and connecting fails
only on a closed socket, since neither waits for the server.  The `start` at the
beginning of `run` finds the socket that `main_api.py` has opened and is left out.
`ApplyFill` has no test of `traded_qty > 0`: orders have positive quantities, and
the book trades no empty ones then.  Prices are whole, so that `int(price)` changes
none.

`told`, `executed`, `owner` and `failures` are history variables: the
confirmations of each order, the shares it traded in the book, the order behind
each id the server knows, and a count of failed calls and timeouts.

In `CppTrading` the broker is only the branch of `submit_order` that refuses an
order without a price, because the manager gives none; the confirmation comes
inside the call (`submitting`).

## 3. Runs

| Run | Instance | What it shows |
|---|---|---|
| `order_book` | 4 ids, 2 prices, quantities 0-2, both types | types, index, no cross, FillAndKill, trades equal fills, matching shrinks the book, time priority, and the refinement of `PriceTimeBook` |
| `contract_trading` | 2 symbols, targets -1, 0, 2, 2 updates, 3 ids | fills are conserved, orders are accounted for, the maps agree, the target is met at the top of the loop, orders are bounded |
| `sim_trading` | 2 symbols, targets -1, 0, 2, 2 updates, 2 ids | the simulated broker keeps the contract, every order reports in the end, every position reaches its target |
| `sim_stop` | 1 symbol, target 2, 1 update | **violated**: what is pending at `stop` is never processed |
| `state_snapshot` | 1 symbol, target 2, 1 update | **violated**: a summary's positions and orders are of one moment |
| `cpp_broker_reliable` | 3 orders, both types, 2 prices, quantities 1-2, 2 cancels | fills are reported once, the maps are the book |
| `cpp_broker_unreliable` | manager only, 2 orders, quantities 1-2, 2 cancels, a late answer, a restart of each process | one final report per order, what is reported finished is gone, a timeout costs two calls at most, every call returns |
| `cpp_broker_shared_socket` | manager and API, 2 orders of one share, 2 cancels or requests, a server restart, the shutdown | no fill is invented, no socket stays open |
| `cpp_broker_kill` | 2 orders, both types | **violated**: a killed order's call never returns |
| `cpp_broker_polling` | manager and API, 2 orders, nothing lost | **violated**: an order is reported REJECTED and its fills never |
| `cpp_broker_raises` | manager and API, 2 orders, nothing lost | **violated**: an order whose submission fails is cleaned up |
| `cpp_trading_targets` | 1 symbol, 1 update | **violated**: no target is ever reached |

### Bounds

* Four orders at two prices give a level of three that is swept or has its middle
  cancelled, two levels on one side swept by one order, and partial fills on both
  sides.  While one of the orders has no shares there are at most three
  (`EmptyOrdersAmongThree`, in the steps of the MC module): enough for two of them to
  meet, or one between two others.
* `WordRange` is 16 where the code has 2^32: larger than every quantity and every
  level total of the instances, so no wrap is checked.  The proofs are for any.
* `MaxUpdates` bounds the targets sent.  Two updates give a reversal, in which
  an order is cancelled while it fills and another is placed behind it, or two
  symbols in one turn of the loop.  Reversals of reversals are in the proofs, which
  are for any number of updates; with three TLC takes longer than five minutes.
* `OrderIds` bounds the orders that exist at one time, not in all: an id that no
  component refers to any more is used again, where the code draws a fresh
  uuid4.  `OrdersBoundedByUpdates` shows that as many ids as updates suffice, so
  `PlaceOrder` is never held up by the bound; `contract_trading` has one more, the
  order too many that the property forbids.
* `FillDivisor` is 1 where the code has 10, so that a step may fill anything
  between one share and the whole order, as the code does for orders of
  different sizes.
* `MaxCalls` bounds the cancels and market-data requests, `MaxTimeouts` the
  receives that time out though an answer is still due (where none can come they
  always may), `MaxCrashes` the restarts of the server and `MaxRestarts` those of
  the client.  One of each is enough for a request in doubt, an id used again and
  a socket replaced under a thread;
  `Clients` bounds the orders placed: three are two that trade and one that
  rests, or one that sweeps two; the two of `cpp_broker_unreliable` are one whose
  request is in doubt and one that trades with it, in part or in full, or takes its id.
  Two `Sockets`, used again when closed and empty, are one in use and one
  that is being forgotten.
* The runs of `CppOrderBookBroker` do not check deadlock: its orders and calls
  are bounded, so that it ends.  That the manager's thread never hangs is
  `CallsReturn`, in `cpp_broker_unreliable`.  With two threads an exception may end
  the thread (`cpp_broker_raises`), so the runs with two state no liveness.
* Only `cpp_broker_reliable` and `cpp_broker_kill` have FillAndKill orders: the first
  that is killed stops the manager's thread, which the latter shows and the
  former's properties allow.
* `cpp_broker_shared_socket` has orders of one share: its subject is the socket, and
  with partial fills it takes TLC longer than five minutes, with the same result.
  Partial fills are those of `cpp_broker_reliable`.
* Symmetry over ids, clients, sockets and symbols is used in the runs that check
  safety only, and in `order_book`, whose properties are invariants and
  `[][A]_v` formulas.

### Fairness

`SimTrading` assumes weak fairness of the manager's thread as a whole and of each
order's thread: the operating system runs every runnable thread.  Nothing is
assumed of the main thread, which need not send anything, terminate the manager or end.
`CppOrderBookBroker` assumes weak fairness of what each thread does once it is in
a call, which includes the five-second timeout, and of the server's loop; nothing
is assumed of new calls, restarts or `stop`.  `CppTrading` assumes it of the
manager's thread.

With the simulated broker `TargetsReached` has an exception.  When a target
changes sides, the order in the way is cancelled and replaced, and the next
confirmation may reverse the direction again; weak fairness does not exclude that
every new order is cancelled before its first fill, for ever, and the code's
sleeps only make it unlikely.  The property says that nothing else keeps a
position from its target: either it gets there, or orders that filled nothing
report again and again.  The design notes (`r.md`, "Rapid Target Changes") leave
that to the strategy.

### Findings

1. `sim_stop`: `stop` is called when the loop has ended, asks the orders to
   cancel and waits for none; their confirmations, and those that came after the
   last turn of the loop, are never applied to the positions.
2. `cpp_broker_kill`: `submit_order` calls `_cleanup_order_maps`, which takes a
   lock that is not reentrant, inside the block that holds it.  When the book
   kills a FillAndKill order the manager's thread waits for itself.
3. `cpp_broker_polling`: a market-data request between the send and the receive
   of a submission makes one of the two fail and closes the socket of the other.
   The order is reported REJECTED though the book has it.
4. `cpp_trading_targets`: the manager's orders have no price, the C++ broker
   refuses those, and each refusal makes the manager place the next.
5. `state_snapshot`: the lock is held while the summary is put together, but the
   orders in it are the manager's own dictionaries.  A confirmation processed
   before they are formatted shows an order FILLED whose shares are in no
   position of the same summary.
6. `cpp_broker_raises`: a market-data request closes the socket between the send
   and the receive of a submission, whose error handler finds `self.socket`, and
   sets it to None before the handler closes it.  The `AttributeError` is raised
   in the handler, where nothing catches it: the order is neither rejected nor
   taken out of the maps, and the manager's thread ends.  Every other place where
   the code reads `self.socket` again after a test has the same gap (`Raise`).

Divergences seen while modelling that have no run of their own:

* `AddOrder` checks no parameter: an order of quantity 0 rests
  (`order_book.cpp:87`), although `r.md` lists it among the rejections, and the
  server calls it FILLED.  It disturbs nothing else (`order_book`); only the
  theorem `FillAndKillGone` assumes positive quantities.
* `main_api.py` uses `Optional` (line 32) without importing it, so it loads only
  where annotations are not evaluated; the models take it as imported.
* A submission whose answer is late is reported REJECTED though the book may
  execute it (`cpp_ob_broker.py:137-142`): `FillsReported` holds only when no
  request fails.
* Broker ids start again at 1 with the client process (`cpp_ob_broker.py:24`).
  With a late request of the old process and three orders, a fill of an old
  order is confirmed for a new one: `ReportsAreExecutions` is checked without
  restarts of the client.
* `r.md` (lines 209 and 627) fears that the manager sends a redundant order while
  a confirmation is delayed.  It does not: the working position counts an order
  in full until its fills are confirmed, and `OnTargetAtLoopTop` holds whatever the
  delay.
* The server matches all symbols in one book (`order_book_server.cpp:19`).

## 4. Proofs

### The order book

`OrderBookProofs` proves, for any set of ids and any prices, quantities and word
range that satisfy `BookAssumption` (words are bounded, null is no id):

* `TypeCorrect`: `TypeOK` is invariant, so quantities never underflow;
* `IndexAlwaysConsistent`: the levels and `orders_map_` agree in every state,
  during calls too;
* `NeverCrossedAtRest`: between calls no bid reaches an ask;
* `MatchingShrinksBook`: every iteration of the matching loop takes an order out
  of the index, so there are at most as many iterations as orders;
* `FillAndKillGone`: if no order has quantity 0, FillAndKill orders do not rest;
* `TradesAlwaysAccountForFill`: the trades of a call are the fills it made;
* `TimePriorityAlwaysKept`: no step lets an order of a level overtake another.

The inductive invariant `Inv` is `TypeOK`, "every listed order is alive",
`SideOK` of both sides (what `IndexConsistent` says, in a form that names
positions) and "the order of a call in progress is alive".  None of these is
inductive alone: a match keeps the types only if the two orders at the head of
their levels are live objects, which the index says; it keeps the index only if
those two orders are different, which their sides say; and what `Return` does
needs the order of the call to be alive.  The lemmas about `SideOK` say what
pushing to, erasing from and popping from one side does to it and to the other
side, and each action is then one lemma.

`NotCrossedAtRest` is inductive under `Inv`.  Its core is
`MatchingDoneIsNotCrossed`: the loop compares the best prices only, and every bid
is at most the greatest and every ask at least the least, which exist because
prices are bounded words.  `MatchRemovesOrder` says that filling two orders with
the lesser of what they have left fills one of them.  `FillAndKillGone` rests on
`OpenInv`: every listed order has something left, and a FillAndKill order is
listed only in its own call.  It assumes positive quantities, because `MustKill`
passes over an order that is filled from the start.

`TradesAlwaysAccountForFill` says of every call that its trades add up to what
the new order filled, are the new order's, and respect both limits.  Its
invariant `TradesInv` holds while a call runs; the part that needs an argument is
`RestingBelow`: orders other than the call's do not cross each other, because the
book was not crossed when the call began, so each match is between the new order
and a resting one.  The sum over the trades so far grows by the new trade
(`SumTheorems`).

`TimePriorityAlwaysKept`: what pushing to, erasing from and popping from a level
does to the places of the orders that stay in it (`KeepsTurns`), for levels of any
length.

### The order book implements the price-time book

`BookImplementsPriceTimeBook` is the refinement `order_book` checks, for any ids,
prices and quantities: `AddOrder`, with its loop, its pops, its erasures and the
removal of what a FillAndKill order leaves, is one step of `PriceTimeBook`.  The
trades are the same, in the same order, and so are the remainder, the orders that
stay, their turns, and what `CancelOrder` and `GetOrderInfos` answer.  The one
hypothesis is `NoWrap`: between calls the total of every level is below the range
of a word.  It cannot be dropped, because the code adds a level up in 32 bits
(`order_book.cpp:148`), and a book of more shares is reported smaller than it is.

`RefinementInv` relates the levels to `atRest`.  Between calls they are the same
book (`RestOK`), and the pairs of orders of a level are a strict queue for every
side and price (`QueueOK`).  During a call (`CallOK`) the *n*-th trade is with the
*n*-th of the orders the new one crosses, for what the contract says it takes of
it (`TradesInTurn`), everything else rests as it did, and the new order is last of
its level.  Three arguments carry it.

* `MatchMeets`: one of the two orders of an iteration is the new one, since the
  book was not crossed without it, and the other is ahead of all the crossed
  orders that are still in the book, since it is the head of the best level.
* `MeetsNextInTurn`: hence those ahead of it are exactly the ones traded with
  so far; each of these gave all it had, so what the new order has left is what
  the contract leaves for this one, and the iteration takes what the contract takes.
* `DoneAreHit`: when the loop ends, either the new order still rests, and then no
  crossed order does; or it is filled, and then those traded with hold all its
  quantity, so the contract leaves nothing for anyone behind them.

`AddsUp` says what a step has to do to the abstract book to be its `Add`,
`ReturnAdds` that `Return` does it.  The contract adds up what is taken of all the
orders that are crossed, the loop only of those it meets: the others contribute
zeros (`SumFunctionIgnoresZeros`).  A level is added up by places, the contract's
depth by orders (`SumFunctionRenamed`).

### The manager with any broker of the contract

`ContractTradingProofs` proves every property that the runs of `ContractTrading` check, for any symbols, ids, integer targets and number
of updates.  The proofs look at a step by its shape (a confirmation is booked, an
order is placed, filled, reported on, ended, ...), `StepCases` says that each step
has one, and each invariant has one lemma per shape.

* `TypeCorrect` from `Types`, which adds the task at hand and that the broker's
  orders are finitely many.
* `AllOrdersAccountedFor` and `BothIndexesAgree` from `Owed`: each live order is
  owed exactly one terminal answer, since it is open at the broker or that answer
  is the last of its queued confirmations and the only terminal one
  (`Accounting`), and manager, broker and queue agree on what the order is
  (`Agreement`).  That the maps agree depends on it: an order leaves both when its
  terminal answer is processed, and the confirmations before that are of an order
  that is still in them, with the symbol it is listed under.
* `FilledQuantitiesCatchUp` and `OrdersNeverOverfilled` from `Filling`: what the
  manager believes filled, plus what is queued and unreported, is what the broker
  filled, never more than the order.
* `AllFillsConserved` from `Conserved`, the same per symbol with the position.
* `AlwaysOnTargetAtLoopTop` from `OnTrack`: the *gap* of a symbol, what its target
  asks beyond its position and its live orders, is 0 unless the symbol is marked
  for this turn, or is the task at hand, whose delta is then the gap.  The
  invariant at the top of the loop alone is not inductive, since every step
  between two tops disturbs it.
* `OrdersAlwaysBounded` from `Bounded`: a new order needs a gap, and a gap an
  update of its own.

The sums over the queue, the live orders and the symbols change one term at a
time; `SumTheorems` proves what that does to `SumFunction`, by `SubsetInduction`,
an induction over the subsets of a finite set.

### The simulated broker keeps the contract

`SimulatedBrokerKeepsContract` is the refinement `sim_trading` checks, for any
instance: `SimTrading` implements `ContractTrading` with the orders of the broker
seen as open ones (`Open`).  `BrokerOK` is the invariant of the broker that its
steps need: an order is not filled beyond its amount, its thread leaves the loop
only filled or asked to cancel, the status it decides on says which, and
`live_orders` has the orders whose threads have not taken them out.  `StepRefines`
takes the steps one by one.  The contract's theorems are then
the simulated broker's, through the instance `CP` of `ContractTradingProofs`:
`SimTypeCorrect`, `SimOnTarget`, `SimIndexesAgree`, `SimOrdersBounded`.

### The C++ order book broker

`SocketInv`: an open socket is `self.socket` or a thread is blocked on it, and two
threads cannot make each other's socket ready again (`Undisturbed`), in particular
not while one of them is where it assigns `self.socket` without closing it first
(`Replacing`).  It is inductive because there are at most two threads, which
`BrokerAssumption` takes from `main_api.py`.  `Closing` says who still takes
`self.socket` away: while there is one, a thread has neither stopped the broker nor
died (`Due`), and where it is closed already a thread is about to forget it.
Together they give `ShutdownAlwaysClosesSocket` for any number of orders, calls,
losses, restarts and exceptions.

`FailuresAlwaysBounded` is for `Threads = {"pm"}`: with a second thread the
property is false, since each can make the other's call fail without a timeout.
`Alone` carries a debt: a socket that awaits an answer no call expects makes one
more call fail.

`AlwaysOneFinalReport` rests on `MapsOK`: while an order is in the maps its client
has been told nothing final, but in the call that is about to clean it up, and no
two orders of the maps are of one client.  An answer is applied by a fold over its
fills; `FoldTheorems` proves that a fold keeps what its step keeps, with the step
and the property as parameters of the module, of which a proof takes an instance.

`CppTypeCorrect` says that an order of the maps always has something left and is
never filled by less than nothing.  `Unfilled` is kept because a fill that brings
an order to its quantity or beyond takes it out.  That no fill is negative has to
come from the book: the fills of an answer are trades of `PriceTimeBook`, computed
by subtraction.  `OrderBookServerProofs` proves it.  Its invariant `BookOK` is
that the orders of a level came one after the other.  Then better prices and
older orders are a strict order of those an order crosses, the *n*-th of those
that are hit exists (`RankExists`, `NthIsHit`), and it is given what it has or
what is left after those ahead of it, never less than nothing (`TakenIsNat`).
`ServeKeepsBook` has the same for a turn of the server's loop, with any request
on the wire; `MessagesOK` says that what travels and what the calls hold has such
quantities.  `WireOK` and `SocketInv` are the part about sockets, `LockOK` that
about the lock.  That prices are integers is assumed; the broker sends
`int(price)`.

`ReportsAlwaysExecutions` is for `MaxRestarts = 0`, with any number of threads,
lost answers, timeouts and restarts of the server.  With a restart of the client
the property is false (section 3), so the assumption cannot be dropped.  The
invariant is `Backed`: for an order of the maps, what its client was told, what is
in the answers no call has received (`OnTheWay`) and what is in the answer the
manager's call is about to handle (`AtHand`) add up to no more than was executed
for that client.  A turn of the server raises the executed shares of every owner
by at least what its answer says (`TradesExecute`, `Served`); receiving an answer
moves it from the wire into one call, closing a socket or timing out only loses
it; applying its fills reports at most what it names (`FillsAdd`).  That a fill is
reported to the client it was executed for needs `OwnersOK` and `KnownOK`: an id of
the maps, of the book and of every message is of one client, and a new order gets
an id that none of them has.  The sums run over fills, trades and sockets;
`FoldTheorems` gives the steps of a fold (`FoldInSteps`) and `SumTheorems` what an
answer more or less does to a sum.

`FinishedAlwaysGone` is for `MaxRestarts = 0` too.  `FinishedIsGone` says nothing of
why an order that ended stays out of the book, so `FateInv` adds four things.

* `FateOK`: no two ids are of one client and no two requests add one order
  (`NamesOK`, `OnceOK`), so that an order which is in neither the book nor a request
  stays out of the book (`Gone`); and what rests of an order is what was not executed
  of it (`Accounts`, `SizesOK`).  The latter needs that a turn of the server executes
  exactly what it takes off the book (`AddExact` of `OrderBookServerProofs`).
* `Tallied`: the fills the maps count are those the client was told of.  With `Backed`
  and `Accounts` an order whose fills reach its quantity is not in the book, so
  FILLED is true when it is said.
* `RequestsOK` and `Traffic`: what the manager's call can still receive is its own
  request's answer, or is left over on a socket that the next send finds out of turn;
  so an answer that says CANCELLED is about the order of the call (`Own`, `LeftOver`).

With a restart of the client an id names two orders and `NamesOK` fails, though the
property does not in any state of `cpp_broker_unreliable`.

`FillsAlwaysReported` and `OpenOrdersAlwaysTracked` are for the manager's thread
alone, without timeouts and restarts, and for the two order types of the enum; the
orders, ids, prices, quantities, sockets and the number of calls are any.  The
invariant `CalmInv` adds to those above that the call is `Stuck`, waiting for its
own lock behind an order the book killed, or that four things hold (`InStep`).

* `InTurn`: client and server take turns.  There is one message at most, on
  `self.socket`, and it is the request of the call or the answer to it; in the
  places of a call that goes well (`InCall`) the socket stays open, and the places
  of `stop` (`InStop`) take it away.
* `Mirrored`: the maps are the book, but for an order whose answer is on its way or
  is being used (`Settling`).
* `Exact`: what an owner was told and what the answer at hand owes it add up to what
  was executed, and that is at most the quantity; `Tallied` is for an order of the
  maps, this is for all.
* `Decided`: a cancel is always confirmed, because its order is in the book when the
  server sees it, and nothing else ends as CANCELLED.

A fill is reported in full only if it does not exceed what the maps have left.  So
the proofs need that an order takes no more from the book than it is for
(`TakenAtMost`) and that the answer names exactly that (`FilledExactly`).  None of
the assumptions on failures can be dropped: with one timeout, one restart of the
server or one of the client TLC finds a state of the instance of
`cpp_broker_reliable` that violates either property, and with a second thread one
of the instance of `cpp_broker_polling`.

The last three theorems use `NullAssumption`: None is no status, no thread, no
request and no answer.

### What is only model-checked

* `FinishedIsGone` of `CppOrderBookBroker` through a restart of the client.
* All liveness: `OrdersTerminate`, `TargetsReached`, `CallsReturn`.

## 5. Not modelled

* Of the server: malformed requests, `PING` and the JSON types of the fields; its
  only client sends none of them.
* Of the API: routing, serialisation and a start-up that fails to connect.
* `Size`, `get_order_details`, `total_traded_by_symbol`, prices and broker ids of confirmations: read only,
  or decide nothing in the modelled parts.
* The duplicate-id branch of the simulated broker's `submit_order`: ids are
  uuid4 and never repeat.
* `OrderModify` (unused by the book), logging, the event log, the build files.

## 6. Plan

Done: the order book with its contract and proofs; the manager with a contract
broker and with the simulated one, the main thread and its summaries, with proofs
of all their safety properties; the C++ broker with its server and the shutdown,
with proofs of its sockets, maps, reports and of the end of its orders, and, where
no request fails, of its agreement with the book.  Left:

1. A composition of the manager with `CppOrderBookBroker` for a caller that gives
   prices, so that rejected and lost requests meet reconciliation.
2. Proof of `FinishedIsGone` through restarts of the client, by orders in place of
   ids.
