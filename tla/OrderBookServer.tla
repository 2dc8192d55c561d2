--------------------------- MODULE OrderBookServer ---------------------------
(***************************************************************************)
(* order_book/src/order_book_server.cpp: one OrderBook behind a REP        *)
(* socket.  The loop of main receives a request, runs one command on the   *)
(* book and replies before it receives the next, so a request is one step. *)
(* The book is PriceTimeBook, which OrderBook implements.                  *)
(*                                                                         *)
(* wire[s] is what travels between the server and socket s of a client:    *)
(* nothing, the request on its way or the answer on its way.  One message  *)
(* is enough, a REQ socket sends again only when it has its answer.        *)
(***************************************************************************)
EXTENDS Integers, SequencesExt

CONSTANTS OrderIds, Prices, Quantities, Null, Sockets

VARIABLES
  resting, older, reply,   \* the book, as in PriceTimeBook
  wire

bookVars == <<resting, older, reply>>

Book == INSTANCE PriceTimeBook

InitServer ==
  /\ Book!Init
  /\ wire = [s \in Sockets |-> Null]

Requested(s) == wire[s] # Null /\ wire[s].kind = "request"

Answered(s) == wire[s] # Null /\ wire[s].kind = "answer"

\* One entry of res_json["trades"]: the n-th is the bid's for odd n, the ask's
\* for even n.
Traded(trades, n) == IF n % 2 = 1 THEN trades[(n + 1) \div 2].bid ELSE trades[n \div 2].ask

Fills_BothSides(trades) ==
  [n \in 1 .. 2 * Len(trades) |->
     LET trade == trades[(n + 1) \div 2]
     IN  [id |-> Traded(trades, n).id, quantity |-> trade.bid.quantity + trade.ask.quantity]]

\* Both orders of each trade, the bid first.
Fills(trades) ==
  [n \in 1 .. 2 * Len(trades) |->
     [id |-> Traded(trades, n).id, quantity |-> Traded(trades, n).quantity]]

\* order_final_status_in_book.
FinalStatus(order) ==
  IF order.remaining = 0 THEN "FILLED"
  ELSE IF order.type = "FillAndKill" THEN "REJECTED_BY_BOOK" ELSE "WORKING"

\* res_json, of what the book returned.  The depth of the book in an answer to
\* GET_BOOK_INFO decides nothing and is left out.
Answer(r) ==
  LET json(ok, fills, final) ==
        [kind |-> "answer", status |-> IF ok THEN "OK" ELSE "ERROR", fills |-> fills, final |-> final]
  IN  CASE r.call = "AddOrder" /\ r.order = Null -> json(FALSE, << >>, Null)
        [] r.call = "AddOrder" /\ r.order # Null -> json(TRUE, Fills(r.trades), FinalStatus(r.order))
        [] r.call = "CancelOrder" -> json(r.ok, << >>, IF r.ok THEN "CANCELLED" ELSE "CANCEL_REJECTED")
        [] r.call = "GetOrderInfos" -> json(TRUE, << >>, Null)

\* One turn of the loop.  The answer has nowhere to go if the client has
\* closed its socket meanwhile.
Serve(s, open) ==
  /\ Requested(s)
  /\ \/ /\ wire[s].command = "ADD_ORDER"
        /\ Book!Add(wire[s].order) \/ Book!AddDuplicate(wire[s].order.id)
     \/ wire[s].command = "CANCEL_ORDER" /\ Book!Cancel(wire[s].id)
     \/ wire[s].command = "GET_BOOK_INFO" /\ Book!Report
  /\ wire' = [wire EXCEPT ![s] = IF open THEN Answer(reply') ELSE Null]

\* The process ends and a new one binds the address.  What it had received or
\* not yet delivered is lost; a request that a client has not transmitted yet
\* goes to the new process.
RestartServer(lost) ==
  /\ resting' = << >>
  /\ older' = {}
  /\ reply' = Null
  /\ wire' = [s \in Sockets |-> IF s \in lost THEN Null ELSE wire[s]]
=============================================================================
