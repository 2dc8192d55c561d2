--------------------------- MODULE BrokerInterface ---------------------------
(***************************************************************************)
(* position_manager/app/brokers/broker_interface.py: what the position     *)
(* manager and its brokers say to each other.  An order is known by the    *)
(* client order id the manager gives it; the broker's own id, the price    *)
(* and the order type decide nothing here and are left out.                *)
(***************************************************************************)
EXTENDS Integers, Functions

CONSTANTS
  Symbols,
  OrderIds    \* client order ids; uuid4 never repeats one that is in use

Terminal == {"FILLED", "CANCELLED", "REJECTED"}

Statuses == Terminal \cup {"PENDING_NEW", "PENDING_CANCEL", "PARTIALLY_FILLED"}

TradeConfirmationMessage ==
  [client_order_id : OrderIds, symbol : Symbols, filled_quantity : Nat,
   side_is_buy : BOOLEAN, status : Statuses]

OrderDetails ==
  [symbol : Symbols, quantity : Nat, side_is_buy : BOOLEAN,
   status : Statuses, filled_quantity : Nat]

\* bs_int, applied to a quantity.
Signed(buy, quantity) == IF buy THEN quantity ELSE -quantity

\* A dictionary without one of its keys.
Without(f, key) == Restrict(f, DOMAIN f \ {key})

=============================================================================
