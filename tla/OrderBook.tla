------------------------------ MODULE OrderBook ------------------------------
(***************************************************************************)
(* What the checkout promises about orders: an idempotency key names at    *)
(* most one order for ever, an order is recorded only while all its items  *)
(* are for sale, items only ever leave the sale, and a request is told     *)
(* about the order its key names or about none.  Checkout implements it.   *)
(***************************************************************************)
CONSTANTS Requests, Keys, Widgets, KeyOf, ItemsOf, NoOrder

VARIABLES
  orders,  \* orders[k]: the request whose order carries key k, or NoOrder
  stock,   \* the widgets that are for sale
  told     \* told[r]: what request r was answered

vars == <<orders, stock, told>>

Waiting == [kind |-> "none", order |-> NoOrder]

Init ==
  /\ orders = [k \in Keys |-> NoOrder]
  /\ stock = Widgets
  /\ told = [r \in Requests |-> Waiting]

Place(r) ==
  /\ orders[KeyOf[r]] = NoOrder
  /\ ItemsOf[r] \subseteq stock
  /\ orders' = [orders EXCEPT ![KeyOf[r]] = r]
  /\ UNCHANGED <<stock, told>>

Withdraw(w) ==
  /\ stock' = stock \ {w}
  /\ UNCHANGED <<orders, told>>

Confirm(r) ==
  /\ told[r] = Waiting
  /\ orders[KeyOf[r]] # NoOrder
  /\ \E kind \in {"placed", "duplicate"} :
       /\ kind = "placed" => orders[KeyOf[r]] = r
       /\ told' = [told EXCEPT ![r] = [kind |-> kind, order |-> orders[KeyOf[r]]]]
  /\ UNCHANGED <<orders, stock>>

Refuse(r) ==
  /\ told[r] = Waiting
  /\ told' = [told EXCEPT ![r] = [kind |-> "refused", order |-> NoOrder]]
  /\ UNCHANGED <<orders, stock>>

Next ==
  \/ \E r \in Requests : Place(r) \/ Confirm(r) \/ Refuse(r)
  \/ \E w \in Widgets : Withdraw(w)

Spec == Init /\ [][Next]_vars
=============================================================================
