---------------------------- MODULE StateSnapshot ----------------------------
(***************************************************************************)
(* The summary of the manager's state that the main thread logs, at a      *)
(* LogPosition event and before it ends: get_current_state_snapshot copies *)
(* the positions under the manager's lock, but of the orders it returns    *)
(* vars(o), the dictionaries the manager goes on writing to, and the       *)
(* caller formats them one by one after the lock is released.  The /state  *)
(* endpoint of main_api.py formats the same value in the same way.         *)
(***************************************************************************)
EXTENDS SimTrading

VARIABLE
  snapshot   \* Null, or the last summary:
             \*   taken     what the main thread was doing when it asked
             \*   working   WorkingPosition under the lock
             \*   details   the orders it holds references to, as they are now
             \*   unread    those not formatted yet
             \*   reported  what a reader adds up from the formatted part

snapshotVars == <<vars, snapshot>>

Reading == snapshot # Null /\ snapshot.unread # {}

\* The value the caller gets; the orders in it are the manager's own.
SnapshotNow ==
  [taken |-> runner, working |-> [s \in Symbols |-> WorkingPosition(s)],
   details |-> live_orders, unread |-> DOMAIN live_orders, reported |-> positions]

LastTaken == IF snapshot = Null THEN Null ELSE snapshot.taken

\* The main thread asks at any event, and once more after the join.
Asks ==
  /\ ~Reading
  /\ runner = "replay" \/ (runner = "join" /\ LastTaken # "join")

\* log_current_summary while run() is outside of the lock.
TakeSnapshot ==
  /\ Asks
  /\ pc \in {"top", "stop", "done"}
  /\ snapshot' = SnapshotNow
  /\ UNCHANGED vars

\* The same where run() lets go of the lock from one queue to the next, or
\* before it reconciles.
TakeBetween ==
  /\ Asks
  /\ TradeConfirmationsDone \/ TargetUpdatesDone
  /\ snapshot' = SnapshotNow
  /\ UNCHANGED <<runner, brokerVars, account>>

\* json.dumps comes to this order.
ReadOrder(id) ==
  /\ Reading
  /\ id \in snapshot.unread
  /\ LET o == snapshot.details[id]
     IN  snapshot' = [snapshot EXCEPT !.unread = @ \ {id},
                                      !.reported[o.symbol] = @ + WorkingEffect(o)]
  /\ UNCHANGED vars

\* An order of the summary after a step of the manager; the one a terminal
\* confirmation removes is written to before it is forgotten.
Referenced(id) ==
  IF id \in DOMAIN live_orders' THEN live_orders'[id]
  ELSE IF id \in DOMAIN live_orders
    THEN LET conf == Head(trade_confirmations_q)
         IN  [live_orders[id] EXCEPT !.filled_quantity = @ + conf.filled_quantity,
                                     !.status = conf.status]
  ELSE snapshot.details[id]

\* A step of the manager; uuid4 gives no id of the summary again.
ManagerStep ==
  /\ Manager
  /\ IF snapshot = Null THEN UNCHANGED snapshot
     ELSE /\ (DOMAIN live_orders' \ DOMAIN live_orders) \cap DOMAIN snapshot.details = {}
          /\ snapshot' = [snapshot EXCEPT !.details =
                            [id \in DOMAIN snapshot.details |-> Referenced(id)]]

\* The main thread goes on when it has formatted the summary, and ends only
\* after the last one.
MainStep ==
  /\ ~Reading
  /\ RunnerStep
  /\ runner' = "exit" => LastTaken = "join"
  /\ UNCHANGED snapshot

SnapshotInit == TradingInit /\ snapshot = Null

SnapshotNext ==
  \/ TakeSnapshot
  \/ TakeBetween
  \/ \E id \in OrderIds : ReadOrder(id)
  \/ ManagerStep
  \/ MainStep
  \/ \E id \in OrderIds : OrderThread(id) /\ UNCHANGED snapshot
  \/ Finished /\ UNCHANGED snapshot

SnapshotSpec == SnapshotInit /\ [][SnapshotNext]_snapshotVars

-----------------------------------------------------------------------------
(* Properties *)

\* "Ensure a consistent snapshot" (position_manager.py:111): the positions and
\* the orders of a summary are of one moment, so that they add up to the
\* working position the manager had when it took it.
ConsistentSnapshot ==
  snapshot # Null /\ ~Reading => snapshot.reported = snapshot.working

=============================================================================
