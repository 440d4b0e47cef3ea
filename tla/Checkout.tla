------------------------------ MODULE Checkout ------------------------------
(***************************************************************************)
(* POST /orders on top of the lock life cycle: order/service.go Create,    *)
(* the transaction of repo/order.go CreateOrder, and realtime's            *)
(* UserHoldsLock and CompletePurchase, which Create calls.  Requests of    *)
(* any number of shoppers, tabs and retries run concurrently with each     *)
(* other, with every socket message, with expiry and with the deletion of  *)
(* inventory items.                                                        *)
(*                                                                         *)
(* Grain.  One query or one Redis command is one step; the transaction is  *)
(* one step, at its commit.  A retry is another request with the same key. *)
(* All requests are for the one board of LockLifecycle, which exists.      *)
(* Prices, the buyer's particulars and the invoice mail are left out.      *)
(***************************************************************************)
EXTENDS LockLifecycle

CONSTANTS
  Requests,  \* checkout requests
  Keys,      \* idempotency keys
  KeyOf,     \* KeyOf[r]: the key request r carries
  BuyerOf,   \* BuyerOf[r]: the buyerUserId of request r
  ItemsOf,   \* ItemsOf[r]: the widgetIds of request r
  NoOrder    \* no row

(* The request body is validated: at least one widget, a key. *)
ASSUME RequestsAssumption ==
  /\ KeyOf \in [Requests -> Keys]
  /\ BuyerOf \in [Requests -> Users]
  /\ ItemsOf \in [Requests -> SUBSET Widgets]
  /\ NoOrder \notin Requests

VARIABLES
  stock,   \* the rows of smart_widgets
  orders,  \* orders[k]: the request that inserted the order with key k
  req      \* req[r]: where the handler of request r is

orderVars == <<stock, orders, req>>
vars == <<lockVars, orderVars>>

Waiting == [kind |-> "none", order |-> NoOrder]

Fresh == [pc |-> "new", w |-> NoWidget, todo |-> {}, done |-> {}, told |-> Waiting]

Init ==
  /\ LockInit
  /\ stock = Widgets
  /\ orders = [k \in Keys |-> NoOrder]
  /\ req = [r \in Requests |-> Fresh]

-----------------------------------------------------------------------------
At(r, pc) == req[r].pc = pc

Goto(r, pc) == req' = [req EXCEPT ![r].pc = pc]

Answer(r, kind, o) ==
  req' = [req EXCEPT ![r] =
            [Fresh EXCEPT !.pc = "done", !.told = [kind |-> kind, order |-> o]]]

Refuse(r) == Answer(r, "refused", NoOrder)

(* The key pre-check: only "no such row" lets the request go on. *)
CheckKey(r) ==
  /\ At(r, "new")
  /\ \/ /\ orders[KeyOf[r]] # NoOrder
        /\ Answer(r, "duplicate", orders[KeyOf[r]])
     \/ /\ orders[KeyOf[r]] = NoOrder
        /\ Goto(r, "list")
     \/ /\ Faults
        /\ Refuse(r)
  /\ UNCHANGED <<lockVars, stock, orders>>

(* ListWidgetsForOrder: fewer rows than widgetIds is ErrItemsUnavailable. *)
ListItems(r) ==
  /\ At(r, "list")
  /\ IF ItemsOf[r] \subseteq stock
     THEN req' = [req EXCEPT ![r] = [@ EXCEPT !.pc = "verify", !.todo = ItemsOf[r]]]
     ELSE Refuse(r)
  /\ UNCHANGED <<lockVars, stock, orders>>

(* Bug variant of VerifyLock: anybody's lock will do. *)
VerifyAnyLock(r, w) ==
  /\ At(r, "verify")
  /\ w \in req[r].todo
  /\ IF lock[w] # NoLock THEN req' = [req EXCEPT ![r].todo = @ \ {w}] ELSE Refuse(r)
  /\ UNCHANGED <<lockVars, stock, orders>>

(* UserHoldsLock, one widget at a time, in the order the rows came in. *)
VerifyLock(r, w) ==
  /\ At(r, "verify")
  /\ w \in req[r].todo
  /\ IF Holds(BuyerOf[r], w)
     THEN req' = [req EXCEPT ![r].todo = @ \ {w}]
     ELSE Refuse(r)
  /\ UNCHANGED <<lockVars, stock, orders>>

(* A query or a Redis command before the transaction fails. *)
StoreFails(r) ==
  /\ Faults
  /\ At(r, "list") \/ At(r, "verify")
  /\ Refuse(r)
  /\ UNCHANGED <<lockVars, stock, orders>>

(* Bug variants of Acceptable: no unique key, and no foreign key.            *)
AcceptableAnyKey(r) == ItemsOf[r] \subseteq stock
AcceptableAnyItem(r) == orders[KeyOf[r]] = NoOrder

(* The transaction can commit: the key is new (UNIQUE idempotency_key) and  *)
(* every item's row exists (order_items.widget_id references it).           *)
Acceptable(r) == orders[KeyOf[r]] = NoOrder /\ ItemsOf[r] \subseteq stock

Insert(r) == orders' = [orders EXCEPT ![KeyOf[r]] = r]

Commit(r) ==
  /\ At(r, "verify")
  /\ req[r].todo = {}
  /\ \/ /\ Acceptable(r)
        /\ Insert(r)
        /\ req' = [req EXCEPT ![r] = [@ EXCEPT !.pc = "remove", !.todo = ItemsOf[r]]]
     \/ /\ ~Acceptable(r) \/ Faults  \* a constraint, or the database, refuses
        /\ Goto(r, "lookup")
        /\ UNCHANGED orders
     \/ /\ Faults                    \* committed, but the answer is lost
        /\ Acceptable(r)
        /\ Insert(r)
        /\ Goto(r, "lookup")
  /\ UNCHANGED <<lockVars, stock>>

(* Bug variant of LookupKey: the order found is taken for the caller's own. *)
LookupKeyAsOwn(r) ==
  /\ At(r, "lookup")
  /\ IF orders[KeyOf[r]] # NoOrder THEN Answer(r, "placed", r) ELSE Refuse(r)
  /\ UNCHANGED <<lockVars, stock, orders>>

(* After a failed transaction: the order the key names, if there is one. *)
LookupKey(r) ==
  /\ At(r, "lookup")
  /\ \/ /\ orders[KeyOf[r]] # NoOrder
        /\ Answer(r, "duplicate", orders[KeyOf[r]])
     \/ /\ orders[KeyOf[r]] = NoOrder \/ Faults
        /\ Refuse(r)
  /\ UNCHANGED <<lockVars, stock, orders>>

-----------------------------------------------------------------------------
(* CompletePurchase: remove, unlock and announce each widget of the order.  *)

(* Bug variant of RemoveRow: the DELETE matches no row. *)
RemoveNothing(r, w) ==
  /\ At(r, "remove")
  /\ w \in req[r].todo
  /\ req' = [req EXCEPT ![r] = [@ EXCEPT !.pc = "unlock", !.w = w]]
  /\ UNCHANGED <<lockVars, stock, orders>>

RemoveRow(r, w) ==
  /\ At(r, "remove")
  /\ w \in req[r].todo
  /\ stock' = stock \ {w}
  /\ req' = [req EXCEPT ![r] = [@ EXCEPT !.pc = "unlock", !.w = w]]
  /\ UNCHANGED <<lockVars, orders>>

(* A deletion that fails is logged, and the loop goes on with the lock. *)
RemoveFails(r, w) ==
  /\ Faults
  /\ At(r, "remove")
  /\ w \in req[r].todo
  /\ req' = [req EXCEPT ![r] = [@ EXCEPT !.pc = "unlock", !.w = w]]
  /\ UNCHANGED <<lockVars, stock, orders>>

(* ClearLock's DEL, whoever holds the key by now ... *)
Unlock(r) ==
  /\ At(r, "unlock")
  /\ DelLock(req[r].w)
  /\ Goto(r, "untrack")
  /\ UNCHANGED <<hardlocks, expired, watcher, call, screen, won, stock, orders>>

(* ... and its SREM. *)
Untrack(r) ==
  /\ At(r, "untrack")
  /\ SRem(req[r].w)
  /\ Goto(r, "announce")
  /\ UNCHANGED <<lock, expired, watcher, call, screen, won, stock, orders>>

ClearFails(r) ==
  /\ Faults
  /\ At(r, "unlock") \/ At(r, "untrack")
  /\ Goto(r, "announce")
  /\ UNCHANGED <<lockVars, stock, orders>>

(* Bug variant of Announce: the loop does not advance. *)
AnnounceAgain(r) ==
  /\ At(r, "announce")
  /\ ShowPurchased(req[r].w)
  /\ req' = [req EXCEPT ![r] = [@ EXCEPT !.pc = "remove", !.w = NoWidget]]
  /\ UNCHANGED <<lock, hardlocks, expired, watcher, call, won, stock, orders>>

(* widget:purchased; after the last one ReleaseAllUserLocks begins. *)
Announce(r) ==
  /\ At(r, "announce")
  /\ ShowPurchased(req[r].w)
  /\ LET rest == req[r].todo \ {req[r].w} IN
       req' = [req EXCEPT ![r] =
                 [@ EXCEPT !.pc = IF rest = {} THEN "scan" ELSE "remove",
                           !.todo = IF rest = {} THEN Widgets ELSE rest,
                           !.w = NoWidget]]
  /\ UNCHANGED <<lock, hardlocks, expired, watcher, call, won, stock, orders>>

-----------------------------------------------------------------------------
(* CompletePurchase's tail: ReleaseAllUserLocks for the buyer.  "done"      *)
(* collects the buyer's locks during the scan and, once "todo" holds them,  *)
(* the ones released.                                                        *)

(* The key of w has been read, and "seen" are the buyer's locks so far. *)
Seen(r, w, seen) ==
  LET rest == req[r].todo \ {w} IN
    req' = [req EXCEPT ![r] =
              [@ EXCEPT !.pc = IF rest = {} THEN "free" ELSE "scan",
                        !.todo = IF rest = {} THEN seen ELSE rest,
                        !.done = IF rest = {} THEN {} ELSE seen]]

ScanHeld(r, w) ==
  /\ At(r, "scan")
  /\ w \in req[r].todo
  /\ Seen(r, w, IF Holds(BuyerOf[r], w) THEN req[r].done \cup {w} ELSE req[r].done)
  /\ UNCHANGED <<lockVars, stock, orders>>

(* A GET that fails skips the key; a SCAN that fails ends CompletePurchase, *)
(* which is logged, and the order is answered all the same.                  *)
ScanFails(r) ==
  /\ Faults
  /\ At(r, "scan")
  /\ \/ \E w \in req[r].todo : Seen(r, w, req[r].done)
     \/ Answer(r, "placed", r)
  /\ UNCHANGED <<lockVars, stock, orders>>

(* Bug variant of FreeDel: the step after it does not know the widget. *)
FreeDelUnnamed(r, w) ==
  /\ At(r, "free")
  /\ w \in req[r].todo
  /\ DelLock(w)
  /\ req' = [req EXCEPT ![r] = [@ EXCEPT !.pc = "freeSrem", !.todo = req[r].todo \ {w}]]
  /\ UNCHANGED <<hardlocks, expired, watcher, call, screen, won, stock, orders>>

(* ClearLock again, for a lock the buyer held when the scan read it. *)
FreeDel(r, w) ==
  /\ At(r, "free")
  /\ w \in req[r].todo
  /\ DelLock(w)
  /\ req' = [req EXCEPT ![r] =
               [@ EXCEPT !.pc = "freeSrem", !.w = w, !.todo = req[r].todo \ {w}]]
  /\ UNCHANGED <<hardlocks, expired, watcher, call, screen, won, stock, orders>>

FreeSRem(r) ==
  /\ At(r, "freeSrem")
  /\ SRem(req[r].w)
  /\ req' = [req EXCEPT ![r] =
               [@ EXCEPT !.pc = "free", !.w = NoWidget,
                         !.done = req[r].done \cup {req[r].w}]]
  /\ UNCHANGED <<lock, expired, watcher, call, screen, won, stock, orders>>

(* A ClearLock that fails is logged; the lock is not reported as released. *)
FreeFails(r) ==
  /\ Faults
  /\ \/ /\ At(r, "free")
        /\ \E w \in req[r].todo : req' = [req EXCEPT ![r].todo = @ \ {w}]
     \/ /\ At(r, "freeSrem")
        /\ req' = [req EXCEPT ![r] = [@ EXCEPT !.pc = "free", !.w = NoWidget]]
  /\ UNCHANGED <<lockVars, stock, orders>>

(* The releases are broadcast, and the request is answered. *)
Finish(r) ==
  /\ At(r, "free")
  /\ req[r].todo = {}
  /\ ShowReleased(req[r].done)
  /\ Answer(r, "placed", r)
  /\ UNCHANGED <<lock, hardlocks, expired, watcher, call, won, stock, orders>>

-----------------------------------------------------------------------------
(* The instance dies under the request: nobody is answered. *)
Die(r) ==
  /\ Faults
  /\ req[r].pc \notin {"new", "done", "dead"}
  /\ req' = [req EXCEPT ![r] = [Fresh EXCEPT !.pc = "dead"]]
  /\ UNCHANGED <<lockVars, stock, orders>>

(* inventory/service.go Remove: the row goes, the Redis keys stay. *)
DeleteItem(w) ==
  /\ w \in stock
  /\ stock' = stock \ {w}
  /\ UNCHANGED <<lockVars, orders, req>>

RequestStep(r) ==
  \/ ListItems(r)
  \/ \E w \in Widgets : VerifyLock(r, w)
  \/ StoreFails(r)
  \/ Commit(r)
  \/ LookupKey(r)
  \/ \E w \in Widgets : RemoveRow(r, w) \/ RemoveFails(r, w)
  \/ Unlock(r)
  \/ Untrack(r)
  \/ ClearFails(r)
  \/ Announce(r)
  \/ \E w \in Widgets : ScanHeld(r, w) \/ FreeDel(r, w)
  \/ ScanFails(r)
  \/ FreeSRem(r)
  \/ FreeFails(r)
  \/ Finish(r)

LockStep == LockNext /\ UNCHANGED orderVars

Next ==
  \/ LockStep
  \/ \E r \in Requests : CheckKey(r) \/ RequestStep(r) \/ Die(r)
  \/ \E w \in Widgets : DeleteItem(w)

Spec == Init /\ [][Next]_vars

(* net/http runs every handler to its end, and the stores answer. *)
FairSpec == Spec /\ LockFairness /\ \A r \in Requests : WF_vars(RequestStep(r))

-----------------------------------------------------------------------------
(* Properties.                                                               *)

Pcs == {"new", "list", "verify", "lookup", "remove", "unlock", "untrack",
        "announce", "scan", "free", "freeSrem", "done", "dead"}

Request ==
  [pc : Pcs, w : Widgets \cup {NoWidget}, todo : SUBSET Widgets, done : SUBSET Widgets,
   told : [kind : {"none", "refused", "duplicate", "placed"},
           order : Requests \cup {NoOrder}]]

(* Every variable has its type. *)
TypeOK ==
  /\ LockTypeOK
  /\ stock \in SUBSET Widgets
  /\ orders \in [Keys -> Requests \cup {NoOrder}]
  /\ req \in [Requests -> Request]
  /\ \A r \in Requests :
       req[r].pc \in {"unlock", "untrack", "announce", "freeSrem"} => req[r].w \in Widgets

Told(r) == req[r].told

(* Idempotency: requests with the same key that are told about an order are *)
(* told about the same one, and only one of them is told it placed it, in   *)
(* whatever order retries, double clicks, crashes and lost commits happen.  *)
OneOrderPerKey ==
  \A r, s \in Requests :
    /\ KeyOf[r] = KeyOf[s]
    /\ Told(r).order # NoOrder
    /\ Told(s).order # NoOrder
    => /\ Told(r).order = Told(s).order
       /\ Told(r).kind = "placed" /\ Told(s).kind = "placed" => r = s

(* "You cannot buy what you didn't reserve": the buyer of an order had won  *)
(* the lock of every widget in it.                                           *)
OrdersReserved ==
  \A k \in Keys : orders[k] # NoOrder =>
    \A w \in ItemsOf[orders[k]] : <<BuyerOf[orders[k]], w>> \in won

OrdersWith(w) == {k \in Keys : orders[k] # NoOrder /\ w \in ItemsOf[orders[k]]}

(* Once a widget's row is gone, sold or deleted, no order for it is ever    *)
(* recorded again, however long ago a request listed and verified it.       *)
NoSaleAfterRemoval ==
  [][\A w \in Widgets \ stock : w \notin stock' /\ OrdersWith(w)' = OrdersWith(w)]_vars

(* Checkout implements the abstract order book. *)
Book == INSTANCE OrderBook WITH told <- [r \in Requests |-> req[r].told]
ImplementsOrderBook == Book!Spec

(* Without faults a recorded order is carried through: its widgets leave    *)
(* the sale and every open canvas.                                           *)
OrderCarriedThrough ==
  \A r \in Requests :
    orders[KeyOf[r]] = r ~>
      /\ ItemsOf[r] \cap stock = {}
      /\ \A v \in Viewers, w \in ItemsOf[r] : ~screen[v][w].there

(* Every request that begins is answered. *)
RequestsAnswered ==
  \A r \in Requests : req[r].pc # "new" ~> req[r].pc = "done"

(* "without two users ever double-spending the same item" (ARCHITECTURE.md) *)
NoDoubleSale ==
  \A k, l \in Keys : orders[k] # NoOrder /\ orders[l] # NoOrder /\ k # l
    => ItemsOf[orders[k]] \cap ItemsOf[orders[l]] = {}
=============================================================================
