------------------------- MODULE CppOrderBookBroker -------------------------
(***************************************************************************)
(* position_manager/app/brokers/cpp_ob_broker.py: the broker that is a     *)
(* client of the order book server, with the server.                       *)
(*                                                                         *)
(* The manager's thread submits and cancels; the API's thread asks for     *)
(* market data through the same REQ socket, which no lock protects.  Both  *)
(* read and write self.socket one step at a time; where a thread is in its *)
(* call is call[t].at:                                                     *)
(*   check, checked      the two reads of the test of self.socket          *)
(*   start, started      the same test in start                            *)
(*   open, connect       start assigns a new socket, and reads it again    *)
(*   recheck, rechecked  the test behind start                             *)
(*   send                send_json                                         *)
(*   recv                recv_json, which reads self.socket again          *)
(*   wait                blocked in recv_json on the socket call[t].on     *)
(*   error               the handler of a ZMQError tests self.socket,      *)
(*   close, forget       closes it and sets it to None                     *)
(*   failed              the request returns None                          *)
(*   answer              the request returned call[t].answer               *)
(*   cleanup             _cleanup_order_maps, before the call returns      *)
(*   stop, stopping      the test in stop,                                 *)
(*   shut                and its close                                     *)
(*   dead                an exception has ended the manager's thread       *)
(* Orders are placed once (client order ids are uuid4) and, here, always   *)
(* with a price; SubmitUnpriced is the call without one.                   *)
(***************************************************************************)
EXTENDS OrderBookServer

CONSTANTS
  Clients,       \* client order ids
  Threads,       \* "pm", and "api" where market data is asked for
  OrderTypes,
  MaxCalls,      \* bound: calls of cancel_order and get_market_data_snapshot
  MaxTimeouts,   \* bound: receives that time out though an answer may come
  MaxCrashes,    \* bound: restarts of the server process
  MaxRestarts    \* bound: restarts of the client process

ASSUME BrokerAssumption ==
  /\ "pm" \in Threads /\ Threads \subseteq {"pm", "api"}
  /\ MaxCalls \in Nat /\ MaxTimeouts \in Nat
  /\ MaxCrashes \in Nat /\ MaxRestarts \in Nat
  /\ Prices \subseteq Int /\ Quantities \subseteq Nat \ {0}
  /\ Null \notin Sockets
  /\ Null \notin [id : Nat, type : OrderTypes, side : Book!Sides, price : Prices,
                  initial : Nat, remaining : Int]

VARIABLES
  broker_order_id_counter,
  details,     \* the three maps, by broker order id: they are changed together
  lock,        \* the thread that holds self._lock, or Null
  socket,      \* self.socket
  state,       \* of every REQ socket: closed, ready to send or awaiting
  call,        \* the call every thread is in, or NoCall
  stopped,     \* the threads whose stop has returned, the last call of each
  budget,      \* what is left of the bounds
  told,        \* history: the confirmations of every order placed
  executed,    \* history: shares of every order traded in the book
  owner,       \* history: the order behind an id the server accepted
  failures     \* history: calls that got no answer, and receives timed out

maps == <<broker_order_id_counter, details, lock>>
sockets == <<socket, state>>
history == <<told, executed, owner, failures>>
vars == <<bookVars, wire, maps, sockets, call, stopped, budget, history>>

Terminal == {"FILLED", "CANCELLED", "REJECTED"}

\* None is no status, no call, no thread, no request and no answer.
ASSUME NullAssumption ==
  /\ Null \notin Terminal \cup {"REJECTED_BY_BOOK", "stop"} \cup Threads
  /\ Null \notin [kind : {"request"}, command : {"ADD_ORDER", "CANCEL_ORDER"}, id : Nat,
                  order : {Null} \cup [id : Nat, type : OrderTypes, side : Book!Sides, price : Prices,
                                      initial : Nat, remaining : Int],
                  client : Clients]
  /\ Null \notin [kind : {"answer"}, status : {"OK", "ERROR"},
                  fills : Seq([id : Nat, quantity : Nat]),
                  final : {Null, "FILLED", "REJECTED_BY_BOOK", "WORKING", "CANCELLED", "CANCEL_REJECTED"}]

NoCall == [op |-> Null, id |-> Null, request |-> Null, at |-> "idle", on |-> Null, answer |-> Null]

\* self.socket as start leaves it, which runs before any call (main_api.py:54).
Opened(s) == [w \in Sockets |-> IF w = s THEN "ready" ELSE "closed"]

Init ==
  /\ InitServer
  /\ broker_order_id_counter = 0
  /\ details = << >>
  /\ lock = Null
  /\ socket \in Sockets
  /\ state = Opened(socket)
  /\ call = [t \in Threads |-> NoCall]
  /\ stopped = {}
  /\ budget = [calls |-> MaxCalls, timeouts |-> MaxTimeouts, crashes |-> MaxCrashes,
               restarts |-> MaxRestarts]
  /\ told = << >>
  /\ executed = [c \in Clients |-> 0]
  /\ owner = << >>
  /\ failures = [calls |-> 0, timeouts |-> 0]

-----------------------------------------------------------------------------
(* Calls begin *)

Idle(t) == call[t].at = "idle"

Begin(t, op, id, request) ==
  call' = [call EXCEPT ![t] = [op |-> op, id |-> id, request |-> request,
                               at |-> IF op = "stop" THEN "stop" ELSE "check",
                               on |-> Null, answer |-> Null]]

\* The manager calls nothing after its own stop.  The API asks for nothing once
\* its thread is in the shutdown event, which comes before either stop.
MayCall(t) ==
  /\ Idle(t)
  /\ t = "pm" => "pm" \notin stopped
  /\ t = "api" => stopped = {} /\ call["pm"].op # "stop"

NextId_Reused == IF broker_order_id_counter = 0 THEN 1 ELSE broker_order_id_counter

\* _get_next_broker_id.
NextId == broker_order_id_counter + 1

\* f[x] = v of a dictionary.
Put(f, x, v) == [y \in DOMAIN f \cup {x} |-> IF y = x THEN v ELSE f[y]]

\* submit_order up to its request.
Submit(c, type, side, price, quantity) ==
  LET order == [id |-> NextId, type |-> type, side |-> side, price |-> price,
                initial |-> quantity, remaining |-> quantity]
  IN  /\ MayCall("pm") /\ lock = Null
      /\ c \notin DOMAIN told
      /\ broker_order_id_counter' = NextId
      /\ details' = Put(details, NextId, [client |-> c, quantity |-> quantity,
                                          filled_quantity |-> 0, status |-> "PENDING_ACK"])
      /\ told' = Put(told, c, << >>)
      /\ Begin("pm", "submit", NextId,
               [kind |-> "request", command |-> "ADD_ORDER", id |-> NextId, order |-> order,
                client |-> c])
      /\ UNCHANGED <<bookVars, wire, lock, sockets, budget, executed, owner, failures>>

Confirmation(status, quantity) == [status |-> status, filled_quantity |-> quantity]

\* submit_order without a price, which is how the position manager calls it.
SubmitUnpriced(c) ==
  /\ MayCall("pm")
  /\ c \notin DOMAIN told
  /\ told' = Put(told, c, <<Confirmation("REJECTED", 0)>>)
  /\ UNCHANGED <<bookVars, wire, maps, sockets, call, budget, executed, owner, failures>>

\* cancel_order up to its request, of an order that is in the maps.
Cancel(id) ==
  /\ MayCall("pm") /\ lock = Null /\ budget.calls > 0
  /\ id \in DOMAIN details
  /\ details[id].status \notin Terminal \cup {"PENDING_CANCEL"}
  /\ details' = [details EXCEPT ![id].status = "PENDING_CANCEL"]
  /\ budget' = [budget EXCEPT !.calls = @ - 1]
  /\ Begin("pm", "cancel", id,
           [kind |-> "request", command |-> "CANCEL_ORDER", id |-> id, order |-> Null,
            client |-> details[id].client])
  /\ UNCHANGED <<bookVars, wire, broker_order_id_counter, lock, sockets, history>>

\* The market-data endpoint, which looks at the socket first.
GetMarketDataSnapshot ==
  /\ MayCall("api") /\ socket # Null /\ state[socket] # "closed" /\ budget.calls > 0
  /\ budget' = [budget EXCEPT !.calls = @ - 1]
  /\ Begin("api", "info", Null,
           [kind |-> "request", command |-> "GET_BOOK_INFO", id |-> Null, order |-> Null,
            client |-> Null])
  /\ UNCHANGED <<bookVars, wire, maps, sockets, history>>

-----------------------------------------------------------------------------
(* _send_request_to_ob *)

At(t, at) == call[t].at = at

Goto(t, at) == call' = [call EXCEPT ![t].at = at]

\* The request returns what it got.
GiveAnswer(t, answer) ==
  /\ call' = [call EXCEPT ![t].at = "answer", ![t].on = Null, ![t].answer = answer]
  /\ failures' = [failures EXCEPT !.calls = @ + (IF answer = Null /\ call[t].op # "stop" THEN 1 ELSE 0)]

\* Another thread than t is blocked on the socket.
Held(s, t) == \E u \in Threads \ {t} : call[u].on = s

\* t leaves recv_json and its reference to the socket.
Release(t, then) ==
  LET s == call[t].on
  IN  state' = [state EXCEPT ![s] = IF s = socket \/ Held(s, t) THEN then ELSE "closed"]

\* self.socket = s.  The socket it was is closed with its last reference; an
\* answer that is on its way to a closed socket is lost, a request may have left
\* (Serve) or not (Linger).
SetSocket(t, s) ==
  /\ socket' = s
  /\ state' = [w \in Sockets |-> IF w = s THEN "ready"
                                ELSE IF w = socket /\ ~Held(w, t) THEN "closed"
                                ELSE state[w]]
  /\ wire' = [w \in Sockets |-> IF state'[w] = "closed" /\ Answered(w) THEN Null ELSE wire[w]]

\* `self.socket is None or self.socket.closed` reads self.socket, and where that
\* is a socket reads it again.
IsNone(t, at, yes, no) ==
  /\ At(t, at)
  /\ Goto(t, IF socket = Null THEN yes ELSE no)
  /\ UNCHANGED <<bookVars, wire, maps, sockets, budget, history>>

IsClosed(t, at, yes, no) ==
  /\ At(t, at) /\ socket # Null
  /\ Goto(t, IF state[socket] = "closed" THEN yes ELSE no)
  /\ UNCHANGED <<bookVars, wire, maps, sockets, budget, history>>

Check(t) == IsNone(t, "check", "start", "checked") \/ IsClosed(t, "checked", "start", "send")

\* start finds no socket, or one that the other thread has opened meanwhile.
Start(t) == IsNone(t, "start", "open", "started") \/ IsClosed(t, "started", "open", "recheck")

\* A socket nobody uses any more stands for the new one.  A request that the
\* other thread sends through it leaves when it is connected, which the three
\* options set in between do not change.
Open(t) ==
  /\ At(t, "open")
  /\ \E s \in Sockets : state[s] = "closed" /\ wire[s] = Null /\ ~Held(s, t) /\ SetSocket(t, s)
  /\ Goto(t, "connect")
  /\ UNCHANGED <<bookVars, maps, budget, history>>

\* connect does not wait for the server, and fails where the other thread has
\* closed the socket.
Connect(t) == IsClosed(t, "connect", "close", "recheck")

Recheck(t) == IsNone(t, "recheck", "failed", "rechecked") \/ IsClosed(t, "rechecked", "failed", "send")

Send(t) ==
  /\ At(t, "send") /\ socket # Null /\ state[socket] = "ready"
  /\ wire' = [wire EXCEPT ![socket] = call[t].request]
  /\ state' = [state EXCEPT ![socket] = "awaiting"]
  /\ Goto(t, "recv")
  /\ UNCHANGED <<bookVars, maps, socket, budget, history>>

SendOutOfTurn_KeepSocket(t) ==
  /\ At(t, "send") /\ socket # Null /\ state[socket] # "ready"
  /\ Goto(t, "failed")
  /\ UNCHANGED <<bookVars, wire, maps, sockets, budget, history>>

\* A ZMQError: the socket still waits for the answer of a request that timed
\* out, or of the other thread (EFSM), or the other thread is closing it.
SendOutOfTurn(t) ==
  /\ At(t, "send") /\ socket # Null /\ state[socket] # "ready"
  /\ Goto(t, "error")
  /\ UNCHANGED <<bookVars, wire, maps, sockets, budget, history>>

\* The other thread has set self.socket to None: an AttributeError, which is
\* caught here.
NoSocket(t) ==
  /\ At(t, "send") \/ At(t, "recv")
  /\ socket = Null
  /\ GiveAnswer(t, Null)
  /\ UNCHANGED <<bookVars, wire, maps, sockets, budget, told, executed, owner>>

Recv(t) ==
  /\ At(t, "recv") /\ socket # Null /\ state[socket] = "awaiting"
  /\ call' = [call EXCEPT ![t].at = "wait", ![t].on = socket]
  /\ UNCHANGED <<bookVars, wire, maps, sockets, budget, history>>

\* self.socket is closed, or another one by now that has sent nothing.
RecvOutOfTurn(t) ==
  /\ At(t, "recv") /\ socket # Null /\ state[socket] # "awaiting"
  /\ Goto(t, "error")
  /\ UNCHANGED <<bookVars, wire, maps, sockets, budget, history>>

Receive(t) ==
  /\ At(t, "wait") /\ state[call[t].on] = "awaiting" /\ Answered(call[t].on)
  /\ wire' = [wire EXCEPT ![call[t].on] = Null]
  /\ Release(t, "ready")
  /\ GiveAnswer(t, wire[call[t].on])
  /\ UNCHANGED <<bookVars, maps, socket, budget, told, executed, owner>>

\* The other thread took the answer, or closed the socket, which the wait
\* notices or not.
ReceiveBroken(t) ==
  /\ At(t, "wait") /\ state[call[t].on] # "awaiting"
  /\ \E at \in {"error", "failed"} :
       /\ at = "failed" => state[call[t].on] = "closed"
       /\ call' = [call EXCEPT ![t].at = at, ![t].on = Null]
  /\ Release(t, state[call[t].on])
  /\ UNCHANGED <<bookVars, wire, maps, socket, budget, history>>

Timeout_Never(t) == FALSE

\* RCVTIMEO: always where no answer can come, a few times where one may.
Timeout(t) ==
  /\ At(t, "wait") /\ state[call[t].on] = "awaiting" /\ ~Answered(call[t].on)
  /\ \/ wire[call[t].on] = Null /\ UNCHANGED budget
     \/ /\ Requested(call[t].on) /\ budget.timeouts > 0
        /\ budget' = [budget EXCEPT !.timeouts = @ - 1]
  /\ call' = [call EXCEPT ![t].at = "answer", ![t].on = Null, ![t].answer = Null]
  /\ failures' = [calls |-> failures.calls + 1, timeouts |-> failures.timeouts + 1]
  /\ Release(t, "awaiting")
  /\ UNCHANGED <<bookVars, wire, maps, socket, told, executed, owner>>

\* The handler of a ZMQError.
SocketError(t) == IsNone(t, "error", "failed", "close")

\* What is closed is self.socket, whichever it is by now.
CloseSocket(t) ==
  /\ At(t, "close") \/ At(t, "shut")
  /\ socket # Null
  /\ state' = [state EXCEPT ![socket] = "closed"]
  /\ wire' = IF Answered(socket) THEN [wire EXCEPT ![socket] = Null] ELSE wire
  /\ Goto(t, "forget")
  /\ UNCHANGED <<bookVars, maps, socket, budget, history>>

\* self.socket = None.
Forget(t) ==
  /\ At(t, "forget")
  /\ SetSocket(t, Null)
  /\ Goto(t, "failed")
  /\ UNCHANGED <<bookVars, maps, budget, history>>

\* The request, or stop, returns None.
ReturnNone(t) ==
  /\ At(t, "failed")
  /\ GiveAnswer(t, Null)
  /\ UNCHANGED <<bookVars, wire, maps, sockets, budget, told, executed, owner>>

\* An exception that nothing in the call catches: self.socket is None where it
\* is read again, or is closed while its options are set.  It ends the manager's
\* thread; the endpoint answers with an error, and stop ends.
Raise(t) ==
  /\ \/ /\ call[t].at \in {"checked", "started", "connect", "rechecked", "close", "stopping"}
        /\ socket = Null
     \/ At(t, "connect") /\ socket # Null /\ state[socket] = "closed"
  /\ Goto(t, IF call[t].op \in {"submit", "cancel"} THEN "dead" ELSE "failed")
  /\ UNCHANGED <<bookVars, wire, maps, sockets, budget, history>>

-----------------------------------------------------------------------------
(* Calls end *)

Ok(t) == call[t].answer # Null /\ call[t].answer.status = "OK"

Return(t) == call' = [call EXCEPT ![t] = NoCall]

\* The confirmation callback, for a history of confirmations.
Tell(history_, client, confirmation) == [history_ EXCEPT ![client] = Append(@, confirmation)]

CleanedUp_Kept(orders, id) == orders

\* _cleanup_order_maps.
CleanedUp(orders, id) == Restrict(orders, DOMAIN orders \ {id})

ReportedQuantity_Total(order, fill) == order.filled_quantity + fill.quantity

\* A confirmation carries the quantity of its own fill.
ReportedQuantity(order, fill) == fill.quantity

\* One entry of "trades": the order's details, its confirmation and, when it is
\* FILLED, its removal from the maps.  Fills of unknown orders are ignored.
\* The test `traded_qty > 0` is left out: the book trades no empty quantity
\* where none is ordered, which BrokerAssumption says.
ApplyFill(s, fill) ==
  LET order == s.details[fill.id]
      filled == order.filled_quantity + fill.quantity
      status == IF filled >= order.quantity THEN "FILLED" ELSE "PARTIALLY_FILLED"
      updated == [s.details EXCEPT ![fill.id].filled_quantity = filled,
                                   ![fill.id].status = IF status = "FILLED" THEN status ELSE "WORKING"]
  IN  IF fill.id \notin DOMAIN s.details THEN s
      ELSE [details |-> IF status = "FILLED" THEN CleanedUp(updated, fill.id) ELSE updated,
            told |-> Tell(s.told, order.client, Confirmation(status, ReportedQuantity(order, fill)))]

SubmitFailed_NoCleanup(t) ==
  /\ At(t, "answer") /\ call[t].op = "submit" /\ ~Ok(t)
  /\ told' = Tell(told, call[t].request.client, Confirmation("REJECTED", 0))
  /\ Return(t)
  /\ UNCHANGED <<bookVars, wire, maps, sockets, budget, executed, owner, failures>>

\* No answer or an ERROR: the order is reported as rejected.
SubmitFailed(t) ==
  /\ At(t, "answer") /\ call[t].op = "submit" /\ ~Ok(t)
  /\ told' = Tell(told, call[t].request.client, Confirmation("REJECTED", 0))
  /\ Goto(t, "cleanup")
  /\ UNCHANGED <<bookVars, wire, maps, sockets, budget, executed, owner, failures>>

\* The order is acknowledged, its trades are applied one by one, and what the
\* book says of it in the end is handled under the lock, from which
\* _cleanup_order_maps is called in two of the branches.
SubmitAnswered(t) ==
  LET id == call[t].id
      final == call[t].answer.final
      after == FoldLeft(ApplyFill,
                        [details |-> [details EXCEPT ![id].status = "ACKNOWLEDGED"], told |-> told],
                        call[t].answer.fills)
      known == id \in DOMAIN after.details
      forced == known /\ final = "FILLED" /\ after.details[id].status # "FILLED"
      killed == known /\ final = "REJECTED_BY_BOOK"
      mark(status) == [after.details EXCEPT ![id].status = status]
  IN  /\ At(t, "answer") /\ call[t].op = "submit" /\ Ok(t) /\ lock = Null
      /\ \/ /\ forced \/ killed
            /\ details' = mark(IF killed THEN "CANCELLED" ELSE "FILLED")
            /\ told' = IF killed
                         THEN Tell(after.told, call[t].request.client, Confirmation("CANCELLED", 0))
                         ELSE after.told
            /\ lock' = t /\ Goto(t, "cleanup")
         \/ /\ ~forced /\ ~killed
            /\ details' = IF known /\ after.details[id].status = "ACKNOWLEDGED"
                            THEN mark("WORKING") ELSE after.details
            /\ told' = after.told
            /\ Return(t)
            /\ UNCHANGED lock
      /\ UNCHANGED <<bookVars, wire, broker_order_id_counter, sockets, budget, executed, owner, failures>>

CancelConfirmed_Assumed(t) == call[t].answer = Null \/ call[t].answer.final = "CANCELLED"

CancelConfirmed(t) == Ok(t) /\ call[t].answer.final = "CANCELLED"

CancelFailed(t) ==
  /\ At(t, "answer") /\ call[t].op = "cancel" /\ ~CancelConfirmed(t)
  /\ details' = [details EXCEPT ![call[t].id].status = "WORKING"]
  /\ Return(t)
  /\ UNCHANGED <<bookVars, wire, broker_order_id_counter, lock, sockets, budget, history>>

CancelAnswered(t) ==
  /\ At(t, "answer") /\ call[t].op = "cancel" /\ CancelConfirmed(t)
  /\ details' = [details EXCEPT ![call[t].id].status = "CANCELLED"]
  /\ told' = Tell(told, call[t].request.client, Confirmation("CANCELLED", 0))
  /\ Goto(t, "cleanup")
  /\ UNCHANGED <<bookVars, wire, broker_order_id_counter, lock, sockets, budget, executed, owner, failures>>

InfoReturned(t) ==
  /\ At(t, "answer") /\ call[t].op = "info"
  /\ Return(t)
  /\ UNCHANGED <<bookVars, wire, maps, sockets, budget, history>>

\* self._lock is not reentrant: a thread that comes here with the lock waits
\* for itself.
Cleanup(t) ==
  /\ At(t, "cleanup") /\ lock = Null
  /\ details' = CleanedUp(details, call[t].id)
  /\ Return(t)
  /\ UNCHANGED <<bookVars, wire, broker_order_id_counter, lock, sockets, budget, history>>

-----------------------------------------------------------------------------
(* Around the calls *)

Stop_ApiOnly(t) ==
  /\ t \notin stopped /\ Idle(t)
  /\ t = "pm" => \A u \in Threads : Idle(u) \/ call[u].op = "stop"
  /\ IF t = "api" THEN Begin(t, "stop", Null, Null) /\ UNCHANGED stopped
     ELSE stopped' = stopped \cup {t} /\ UNCHANGED call
  /\ UNCHANGED <<bookVars, wire, maps, sockets, budget, history>>

\* stop is called from the shutdown event, which does not wait for the manager's
\* call to return, and from the manager's thread after the loop that the same
\* event terminates.
Stop(t) ==
  /\ t \notin stopped /\ Idle(t)
  /\ t = "pm" => \A u \in Threads : Idle(u) \/ call[u].op = "stop"
  /\ Begin(t, "stop", Null, Null)
  /\ UNCHANGED <<bookVars, wire, maps, sockets, stopped, budget, history>>

Stopping(t) == IsNone(t, "stop", "forget", "stopping") \/ IsClosed(t, "stopping", "forget", "shut")

\* The AttributeError of a socket that is None by now is caught.
ShutFails(t) ==
  /\ At(t, "shut") /\ socket = Null
  /\ Goto(t, "forget")
  /\ UNCHANGED <<bookVars, wire, maps, sockets, budget, history>>

Stopped(t) ==
  /\ At(t, "answer") /\ call[t].op = "stop"
  /\ Return(t)
  /\ stopped' = stopped \cup {t}
  /\ UNCHANGED <<bookVars, wire, maps, sockets, budget, history>>

\* A turn of the server's loop, and what it means for the orders' owners.
ServeRequest(s) ==
  /\ Serve(s, state[s] # "closed")
  /\ LET added == wire[s].command = "ADD_ORDER" /\ reply'.order # Null
         credited(e, side) == [e EXCEPT ![owner'[side.id]] = @ + side.quantity]
         traded(e, trade) == credited(credited(e, trade.bid), trade.ask)
     IN  /\ owner' = IF added THEN Put(owner, wire[s].id, wire[s].client) ELSE owner
         /\ executed' = IF added THEN FoldLeft(traded, executed, reply'.trades) ELSE executed
  /\ UNCHANGED <<maps, sockets, call, stopped, budget, told, failures>>

\* LINGER 0: a closed socket drops the request it has not transmitted.
Linger(s) ==
  /\ Requested(s) /\ state[s] = "closed"
  /\ wire' = [wire EXCEPT ![s] = Null]
  /\ UNCHANGED <<bookVars, maps, sockets, call, stopped, budget, history>>

ServerRestarts ==
  /\ budget.crashes > 0
  /\ budget' = [budget EXCEPT !.crashes = @ - 1]
  /\ \E lost \in SUBSET Sockets :
       /\ \A s \in Sockets : state[s] = "closed" => s \in lost
       /\ RestartServer(lost)
  /\ owner' = << >>
  /\ UNCHANGED <<maps, sockets, call, stopped, told, executed, failures>>

\* The client process ends, with its threads, sockets and maps, and starts anew.
ClientRestarts ==
  /\ budget.restarts > 0
  /\ budget' = [budget EXCEPT !.restarts = @ - 1]
  /\ broker_order_id_counter' = 0
  /\ details' = << >>
  /\ lock' = Null
  /\ wire' = [s \in Sockets |-> IF Answered(s) THEN Null ELSE wire[s]]
  /\ \E s \in Sockets : wire'[s] = Null /\ socket' = s /\ state' = Opened(s)
  /\ call' = [t \in Threads |-> NoCall]
  /\ stopped' = {}
  /\ UNCHANGED <<bookVars, history>>

-----------------------------------------------------------------------------

\* What a thread does once it is in a call.
Step(t) ==
  /\ \/ Check(t) \/ Start(t) \/ Open(t) \/ Connect(t) \/ Recheck(t)
     \/ Send(t) \/ SendOutOfTurn(t) \/ NoSocket(t)
     \/ Recv(t) \/ RecvOutOfTurn(t) \/ Receive(t) \/ ReceiveBroken(t) \/ Timeout(t)
     \/ SocketError(t) \/ CloseSocket(t) \/ Forget(t) \/ ReturnNone(t) \/ Raise(t)
     \/ Stopping(t) \/ ShutFails(t)
     \/ SubmitFailed(t) \/ SubmitAnswered(t)
     \/ CancelFailed(t) \/ CancelAnswered(t)
     \/ InfoReturned(t)
     \/ Cleanup(t)
  /\ UNCHANGED stopped

\* The calls of the manager's thread and of the API's.
Calling ==
  \/ \E c \in Clients, type \in OrderTypes, side \in Book!Sides, price \in Prices,
        quantity \in Quantities : Submit(c, type, side, price, quantity)
  \/ \E c \in Clients : SubmitUnpriced(c)
  \/ \E id \in OrderIds : Cancel(id)
  \/ "api" \in Threads /\ GetMarketDataSnapshot

Next ==
  \/ Calling /\ UNCHANGED stopped
  \/ \E t \in Threads : Step(t) \/ Stop(t) \/ Stopped(t)
  \/ \E s \in Sockets : ServeRequest(s) \/ Linger(s)
  \/ ServerRestarts
  \/ ClientRestarts

Spec == Init /\ [][Next]_vars

FairSpec ==
  /\ Spec
  /\ \A t \in Threads : WF_vars(Step(t) \/ Stopped(t))
  /\ \A s \in Sockets : WF_vars(ServeRequest(s))
-----------------------------------------------------------------------------
(* Properties *)

TypeOK ==
  /\ broker_order_id_counter \in Nat
  /\ \A id \in DOMAIN details :
       /\ id \in 1 .. broker_order_id_counter
       /\ details[id].client \in DOMAIN told
       /\ details[id].filled_quantity \in 0 .. details[id].quantity - 1
  /\ lock \in Threads \cup {Null}
  /\ socket \in Sockets \cup {Null}
  /\ \A s \in Sockets :
       /\ state[s] # "closed" => s = socket \/ \E t \in Threads : call[t].on = s
       /\ Answered(s) => state[s] = "awaiting"

Filled(c) == FoldLeft(LAMBDA sum, conf : sum + conf.filled_quantity, 0, told[c])

LastStatus(c) == IF told[c] = << >> THEN Null ELSE Last(told[c]).status

\* Between the manager's calls, what an order was told of its fills is what was
\* executed of it in the book, whether it traded on entry or while it rested
\* (cpp_ob_broker.py:151-191).
FillsReported ==
  Idle("pm") => \A c \in DOMAIN told : Filled(c) = executed[c]

\* Between the manager's calls the maps are the book: every order in one is in
\* the other, with the same quantity left (cpp_ob_broker.py:27-29).
OpenOrdersTracked ==
  Idle("pm") =>
    /\ DOMAIN details = DOMAIN resting
    /\ \A id \in DOMAIN details :
         /\ details[id].client = owner[id]
         /\ details[id].quantity - details[id].filled_quantity = resting[id].remaining

\* No confirmation reports shares that were not executed for that order, though
\* threads share the socket, answers get lost and the server restarts
\* (cpp_ob_broker.py:159).  It holds while the client process lives: ids start
\* again at 1 with a new one (:24), and a late request of the old one uses them.
ReportsAreExecutions == \A c \in DOMAIN told : Filled(c) <= executed[c]

\* A terminal confirmation is the last one of its order, also for an order that
\* lives on in the book after its submission timed out (cpp_ob_broker.py:141).
OneFinalReport ==
  \A c \in DOMAIN told : \A n \in DOMAIN told[c] : told[c][n].status \in Terminal => n = Len(told[c])

\* An order that was reported FILLED or CANCELLED is not in the book
\* (cpp_ob_broker.py:172, :254).
FinishedIsGone ==
  \A id \in DOMAIN resting : LastStatus(owner[id]) \notin {"FILLED", "CANCELLED"}

\* A receive that times out costs its own call and at most the next one: the
\* REQ socket that may not send is closed and replaced (cpp_ob_broker.py:93-97).
FailuresBounded == failures.calls <= 2 * failures.timeouts

\* Once both threads have stopped the broker no socket is left open, although a
\* call that is under way while the API stops it opens another
\* (main_api.py:89, cpp_ob_broker.py:60, :78).
ShutdownClosesSocket ==
  (\A t \in Threads : t \in stopped \/ At(t, "dead")) =>
    socket = Null /\ \A s \in Sockets : state[s] = "closed"

\* Every call of the broker returns (cpp_ob_broker.py:40, :90, :226).
CallsReturn == \A t \in Threads : ~Idle(t) ~> Idle(t)

\* "Store details optimisticallly. Clean up if submission fails."
\* (cpp_ob_broker.py:113): while the process runs, an order that its client has
\* not heard of is being submitted.
FailuresCleanedUp ==
  (stopped = {} /\ \A t \in Threads : call[t].op # "stop") =>
    \A id \in DOMAIN details :
      details[id].status = "PENDING_ACK" =>
        call["pm"].op = "submit" /\ call["pm"].id = id /\ ~At("pm", "dead")
=============================================================================
