--------------------------- MODULE Checkout_proofs ---------------------------
(***************************************************************************)
(* Theorems about Checkout, for any requests, keys, carts, shoppers and    *)
(* faults.  The inductive invariant joins the one of the locks with three  *)
(* facts: the order a key names was inserted by a request with that key    *)
(* (Filed), what a request was told agrees with the row (ToldTruth), and   *)
(* what has passed verification was won by the buyer (VerifiedWon).        *)
(***************************************************************************)
EXTENDS Checkout, LockLifecycle_proofs

Filed ==
  \A k \in Keys : orders[k] # NoOrder => KeyOf[orders[k]] = k

Completing == {"remove", "unlock", "untrack", "announce", "scan", "free", "freeSrem"}

ToldTruth ==
  \A r \in Requests :
    /\ req[r].pc \in Completing => orders[KeyOf[r]] = r
    /\ req[r].pc # "done" => Told(r) = Waiting
    /\ Told(r).order # NoOrder => orders[KeyOf[r]] = Told(r).order
    /\ Told(r).kind = "placed" => Told(r).order = r

VerifiedWon ==
  \A r \in Requests : req[r].pc = "verify" =>
    \A w \in ItemsOf[r] \ req[r].todo : <<BuyerOf[r], w>> \in won

ReqType ==
  /\ req \in [Requests -> Request]
  /\ \A r \in Requests :
       req[r].pc \in {"unlock", "untrack", "announce", "freeSrem"} => req[r].w \in Widgets

OrderType == stock \in SUBSET Widgets /\ orders \in [Keys -> Requests \cup {NoOrder}]

Inv ==
  /\ LockInv
  /\ OrderType
  /\ ReqType
  /\ Filed
  /\ ToldTruth
  /\ VerifiedWon
  /\ OrdersReserved

LEMMA InitInv == Init => Inv
<1> SUFFICES ASSUME Init PROVE Inv
  OBVIOUS
<1> USE RequestsAssumption
<1>1. LockInv
  BY LockInitInv DEF Init
<1>2. ReqType
  BY DEF Init, ReqType, Request, Pcs, Fresh, Waiting
<1>3. OrderType /\ Filed /\ OrdersReserved
  BY DEF Init, OrderType, Filed, OrdersReserved
<1>4. ToldTruth /\ VerifiedWon
  BY DEF Init, ToldTruth, VerifiedWon, Told, Fresh, Waiting, Completing
<1> QED BY <1>1, <1>2, <1>3, <1>4 DEF Inv

-----------------------------------------------------------------------------
(* A step of the locks: the wins only grow.                                  *)
LEMMA WonGrows ==
  ASSUME LockNext
  PROVE  won \subseteq won'
<1>1. ASSUME NEW c \in Conns, Message(c) \/ ConnStep(c) \/ ConnError(c)
      PROVE  won \subseteq won'
  BY <1>1 DEF Message, ConnStep, ConnError, ReleaseError, Abandon, SoftLock, SoftEmit, ReleaseGet, ReleaseDel,
              ReleaseEmit, HardLock, ScanLock, PromoteExists, PromoteSet, PromoteSAdd,
              PromoteError, HardEmit
<1>2. ASSUME NEW w \in Widgets, Expire(w)
      PROVE  won \subseteq won'
  BY <1>2 DEF Expire
<1>3. ASSUME NEW i \in Instances, WatchStep(i) \/ WatchError(i)
      PROVE  won \subseteq won'
  BY <1>3 DEF WatchStep, WatchResolve, WatchError, WatchEmit
<1> QED BY <1>1, <1>2, <1>3 DEF LockNext

LEMMA LockStepInv ==
  ASSUME Inv, LockStep
  PROVE  Inv'
<1>1. LockInv'
  BY LockNextInv DEF Inv, LockStep
<1>2. won \subseteq won' /\ UNCHANGED <<stock, orders, req>>
  BY WonGrows DEF LockStep, orderVars
<1>3. OrderType' /\ ReqType' /\ Filed' /\ ToldTruth'
  BY <1>2 DEF Inv, OrderType, ReqType, Filed, ToldTruth, Told
<1>4. VerifiedWon' /\ OrdersReserved'
  BY <1>2 DEF Inv, VerifiedWon, OrdersReserved
<1> QED BY <1>1, <1>3, <1>4 DEF Inv

(* A request that moves on to state q while the orders stay as they are.    *)
LEMMA RequestInv ==
  ASSUME Inv, LockInv', NEW r \in Requests, NEW q \in Request,
         req' = [req EXCEPT ![r] = q],
         UNCHANGED <<orders, won>>,
         stock' \in SUBSET Widgets,
         q.pc \in {"unlock", "untrack", "announce", "freeSrem"} => q.w \in Widgets,
         q.pc \in Completing => orders[KeyOf[r]] = r,
         q.pc # "done" => q.told = Waiting,
         q.told.order # NoOrder => orders[KeyOf[r]] = q.told.order,
         q.told.kind = "placed" => q.told.order = r,
         q.pc = "verify" => \A w \in ItemsOf[r] \ q.todo : <<BuyerOf[r], w>> \in won
  PROVE  Inv'
<1>1. OrderType' /\ Filed' /\ OrdersReserved'
  BY DEF Inv, OrderType, Filed, OrdersReserved
<1>2. ReqType'
  BY DEF Inv, ReqType
<1>3. ToldTruth'
  BY DEF Inv, ToldTruth, ReqType, Told
<1>4. VerifiedWon'
  BY DEF Inv, VerifiedWon, ReqType
<1> QED BY <1>1, <1>2, <1>3, <1>4 DEF Inv

(* The locks' invariant when only the request moves. *)
LEMMA LocksUntouched ==
  ASSUME LockInv, UNCHANGED lockVars
  PROVE  LockInv'
BY LockNextInv

(* DEL of a lock key and SREM from the hard set preserve the locks'         *)
(* invariant, whoever runs them.                                             *)
LEMMA ClearInv ==
  ASSUME LockInv, NEW w \in Widgets,
         DelLock(w) \/ UNCHANGED lock,
         SRem(w) \/ UNCHANGED hardlocks,
         UNCHANGED <<expired, watcher, call, won>>,
         screen' \in [Viewers -> [Widgets -> Shown]]
  PROVE  LockInv'
<1>1. hardlocks' \in SUBSET Widgets
  BY DEF LockInv, LockTypeOK, SRem
<1>2. lock' \in [Widgets -> Lock \cup {NoLock}]
  BY DEF LockInv, LockTypeOK, DelLock, SetLock
<1>3. LockTypeOK' /\ CarriedWon'
  BY <1>1, <1>2 DEF LockInv, LockTypeOK, CarriedWon
<1>4. HoldersWon'
  BY DEF LockInv, HoldersWon, DelLock, SetLock, LockTypeOK
<1> QED BY <1>3, <1>4 DEF LockInv

-----------------------------------------------------------------------------
(* The steps of a request.                                                   *)

LEMMA ReqFacts ==
  ASSUME Inv, NEW r \in Requests
  PROVE  /\ req[r] \in Request
         /\ req[r].pc \in Completing => orders[KeyOf[r]] = r
         /\ req[r].pc # "done" => req[r].told = Waiting
         /\ KeyOf[r] \in Keys
         /\ BuyerOf[r] \in Users
         /\ ItemsOf[r] \in SUBSET Widgets
         /\ Waiting.order = NoOrder
         /\ Waiting.kind = "none"
         /\ stock \in SUBSET Widgets
BY RequestsAssumption DEF Inv, ReqType, ToldTruth, Told, Waiting, OrderType

(* A request is answered with what the orders say. *)
LEMMA AnswerInv ==
  ASSUME Inv, NEW r \in Requests, NEW o \in Requests \cup {NoOrder},
         NEW kind \in {"refused", "duplicate", "placed"},
         Answer(r, kind, o),
         LockInv', UNCHANGED <<orders, won, stock>>,
         o # NoOrder => orders[KeyOf[r]] = o,
         kind = "placed" => o = r
  PROVE  Inv'
<1> DEFINE q == [Fresh EXCEPT !.pc = "done", !.told = [kind |-> kind, order |-> o]]
<1>1. q \in Request /\ q.pc = "done" /\ q.told.kind = kind /\ q.told.order = o
  BY DEF Request, Pcs, Fresh, Waiting
<1>2. req' = [req EXCEPT ![r] = q] /\ stock' \in SUBSET Widgets
  BY ReqFacts DEF Answer
<1> HIDE DEF q
<1> QED BY <1>1, <1>2, RequestInv DEF Completing

LEMMA RefuseInv ==
  ASSUME Inv, NEW r \in Requests, Refuse(r), LockInv', UNCHANGED <<orders, won, stock>>
  PROVE  Inv'
BY AnswerInv DEF Refuse

LEMMA CheckKeyInv ==
  ASSUME Inv, NEW r \in Requests, CheckKey(r)
  PROVE  Inv'
<1>1. LockInv' /\ UNCHANGED <<orders, won, stock>>
  BY LocksUntouched DEF CheckKey, Inv, lockVars
<1>2. CASE orders[KeyOf[r]] # NoOrder /\ Answer(r, "duplicate", orders[KeyOf[r]])
  <2>1. orders[KeyOf[r]] \in Requests \cup {NoOrder}
    BY ReqFacts DEF Inv, OrderType
  <2> QED BY <1>1, <1>2, <2>1, AnswerInv
<1>3. CASE At(r, "new") /\ Goto(r, "list")
  <2> DEFINE q == [req[r] EXCEPT !.pc = "list"]
  <2>1. q \in Request /\ q.pc = "list" /\ q.told = req[r].told
    BY ReqFacts DEF Request, Pcs
  <2>2. req' = [req EXCEPT ![r] = q] /\ req[r].pc = "new"
    BY <1>3 DEF Goto, At, Inv, ReqType
  <2> HIDE DEF q
  <2> QED BY <1>1, <2>1, <2>2, ReqFacts, RequestInv DEF Completing
<1>4. CASE Refuse(r)
  BY <1>1, <1>4, RefuseInv
<1> QED BY <1>2, <1>3, <1>4 DEF CheckKey

LEMMA ListItemsInv ==
  ASSUME Inv, NEW r \in Requests, ListItems(r)
  PROVE  Inv'
<1>1. LockInv' /\ UNCHANGED <<orders, won, stock>>
  BY LocksUntouched DEF ListItems, Inv, lockVars
<1>2. CASE ItemsOf[r] \subseteq stock
  <2> DEFINE q == [req[r] EXCEPT !.pc = "verify", !.todo = ItemsOf[r]]
  <2>1. q \in Request /\ q.pc = "verify" /\ q.told = req[r].told /\ q.todo = ItemsOf[r]
    BY ReqFacts DEF Request, Pcs
  <2>2. req' = [req EXCEPT ![r] = q] /\ req[r].pc = "list"
    BY <1>2 DEF ListItems, At
  <2> HIDE DEF q
  <2> QED BY <1>1, <2>1, <2>2, ReqFacts, RequestInv DEF Completing
<1>3. CASE ~(ItemsOf[r] \subseteq stock)
  BY <1>1, <1>3, RefuseInv DEF ListItems
<1> QED BY <1>2, <1>3

(* A widget passes when its lock is the buyer's, so the buyer had won it.   *)
LEMMA VerifyLockInv ==
  ASSUME Inv, NEW r \in Requests, NEW w \in Widgets, VerifyLock(r, w)
  PROVE  Inv'
<1>1. LockInv' /\ UNCHANGED <<orders, won, stock>>
  BY LocksUntouched DEF VerifyLock, Inv, lockVars
<1>2. CASE Holds(BuyerOf[r], w)
  <2> DEFINE q == [req[r] EXCEPT !.todo = @ \ {w}]
  <2>1. q \in Request /\ q.pc = "verify" /\ q.told = req[r].told
        /\ q.todo = req[r].todo \ {w}
    BY ReqFacts DEF VerifyLock, At, Request
  <2>2. req' = [req EXCEPT ![r] = q] /\ req[r].pc = "verify"
    BY <1>2 DEF VerifyLock, At, Inv, ReqType
  <2>3. <<BuyerOf[r], w>> \in won
    BY <1>2 DEF Holds, Inv, LockInv, HoldersWon
  <2>4. \A x \in ItemsOf[r] \ q.todo : <<BuyerOf[r], x>> \in won
    BY <2>1, <2>2, <2>3 DEF Inv, VerifiedWon
  <2> HIDE DEF q
  <2> QED BY <1>1, <2>1, <2>2, <2>4, ReqFacts, RequestInv DEF Completing
<1>3. CASE ~Holds(BuyerOf[r], w)
  BY <1>1, <1>3, RefuseInv DEF VerifyLock
<1> QED BY <1>2, <1>3

LEMMA StoreFailsInv ==
  ASSUME Inv, NEW r \in Requests, StoreFails(r)
  PROVE  Inv'
<1>1. LockInv' /\ UNCHANGED <<orders, won, stock>>
  BY LocksUntouched DEF StoreFails, Inv, lockVars
<1> QED BY <1>1, RefuseInv DEF StoreFails

(* The transaction.  The row it inserts is the first with its key, so what  *)
(* was true of the other rows and requests stays true.                       *)
LEMMA CommitInv ==
  ASSUME Inv, NEW r \in Requests, Commit(r)
  PROVE  Inv'
<1> DEFINE q == [req[r] EXCEPT !.pc = "lookup"]
           p == [req[r] EXCEPT !.pc = "remove", !.todo = ItemsOf[r]]
<1>1. LockInv' /\ UNCHANGED <<won, stock>> /\ req[r].pc = "verify" /\ req[r].todo = {}
  BY LocksUntouched DEF Commit, Inv, lockVars, At
<1>2. q \in Request /\ q.pc = "lookup" /\ q.told = req[r].told
  BY ReqFacts DEF Request, Pcs
<1>3. p \in Request /\ p.pc = "remove" /\ p.told = req[r].told
  BY ReqFacts DEF Request, Pcs
<1>4. CASE UNCHANGED orders
  <2>1. CASE req' = [req EXCEPT ![r] = q]
    <3> HIDE DEF q
    <3> QED BY <1>1, <1>2, <1>4, <2>1, ReqFacts, RequestInv DEF Completing
  <2>2. CASE Acceptable(r) /\ Insert(r)
    <3>1. orders'[KeyOf[r]] = r /\ orders[KeyOf[r]] = NoOrder
      BY <2>2, ReqFacts DEF Acceptable, Insert, Inv, OrderType
    <3> QED BY <1>4, <3>1, RequestsAssumption
  <2> QED BY <2>1, <2>2 DEF Commit, Goto, Inv, ReqType
<1>5. CASE Acceptable(r) /\ Insert(r)
           /\ (req' = [req EXCEPT ![r] = q] \/ req' = [req EXCEPT ![r] = p])
  <2>1. orders[KeyOf[r]] = NoOrder /\ orders' = [orders EXCEPT ![KeyOf[r]] = r]
    BY <1>5 DEF Acceptable, Insert
  <2>2. PICK s \in {p, q} : req' = [req EXCEPT ![r] = s]
    BY <1>5
  <2>3. s \in Request /\ s.pc \in {"remove", "lookup"} /\ s.told = Waiting
    BY <1>1, <1>2, <1>3, <2>2, ReqFacts
  <2> HIDE DEF p, q
  <2>4. OrderType' /\ Filed'
    BY <1>1, <2>1, ReqFacts DEF Inv, OrderType, Filed
  <2>5. ReqType'
    BY <2>2, <2>3 DEF Inv, ReqType
  <2>6. ToldTruth'
    <3> SUFFICES ASSUME NEW t \in Requests
                 PROVE  /\ req'[t].pc \in Completing => orders'[KeyOf[t]] = t
                        /\ req'[t].pc # "done" => req'[t].told = Waiting
                        /\ req'[t].told.order # NoOrder
                             => orders'[KeyOf[t]] = req'[t].told.order
                        /\ req'[t].told.kind = "placed" => req'[t].told.order = t
      BY DEF ToldTruth, Told
    <3>1. CASE t = r
      BY <2>1, <2>2, <2>3, <3>1, ReqFacts DEF Inv, ReqType, OrderType
    <3>2. CASE t # r
      <4>1. req'[t] = req[t]
        BY <2>2, <3>2 DEF Inv, ReqType
      <4>2. orders[KeyOf[t]] # NoOrder => orders'[KeyOf[t]] = orders[KeyOf[t]]
        BY <2>1, RequestsAssumption DEF Inv, OrderType
      <4> QED BY <4>1, <4>2, RequestsAssumption DEF Inv, ToldTruth, Told
    <3> QED BY <3>1, <3>2
  <2>7. VerifiedWon'
    BY <1>1, <2>2, <2>3 DEF Inv, VerifiedWon, ReqType
  <2>8. OrdersReserved'
    <3>1. \A w \in ItemsOf[r] : <<BuyerOf[r], w>> \in won
      BY <1>1 DEF Inv, VerifiedWon
    <3> QED BY <1>1, <2>1, <3>1, ReqFacts DEF Inv, OrdersReserved, OrderType
  <2> QED BY <1>1, <2>4, <2>5, <2>6, <2>7, <2>8 DEF Inv
<1>6. \/ UNCHANGED orders
      \/ Acceptable(r) /\ Insert(r)
         /\ (req' = [req EXCEPT ![r] = q] \/ req' = [req EXCEPT ![r] = p])
  BY DEF Commit, Goto, Inv, ReqType
<1> QED BY <1>4, <1>5, <1>6

LEMMA LookupKeyInv ==
  ASSUME Inv, NEW r \in Requests, LookupKey(r)
  PROVE  Inv'
<1>1. LockInv' /\ UNCHANGED <<orders, won, stock>>
  BY LocksUntouched DEF LookupKey, Inv, lockVars
<1>2. CASE orders[KeyOf[r]] # NoOrder /\ Answer(r, "duplicate", orders[KeyOf[r]])
  <2>1. orders[KeyOf[r]] \in Requests \cup {NoOrder}
    BY ReqFacts DEF Inv, OrderType
  <2> QED BY <1>1, <1>2, <2>1, AnswerInv
<1>3. CASE Refuse(r)
  BY <1>1, <1>3, RefuseInv
<1> QED BY <1>2, <1>3 DEF LookupKey

-----------------------------------------------------------------------------
(* CompletePurchase.  Every step of it has an order of its own behind it.   *)

LEMMA RemoveInv ==
  ASSUME Inv, NEW r \in Requests, NEW w \in Widgets, RemoveRow(r, w) \/ RemoveFails(r, w)
  PROVE  Inv'
<1> DEFINE q == [req[r] EXCEPT !.pc = "unlock", !.w = w]
<1>1. LockInv' /\ UNCHANGED <<orders, won>> /\ stock' \in SUBSET Widgets
  BY LocksUntouched, ReqFacts DEF RemoveRow, RemoveFails, Inv, lockVars
<1>2. q \in Request /\ q.pc = "unlock" /\ q.w = w /\ q.told = req[r].told
  BY ReqFacts DEF Request, Pcs
<1>3. req' = [req EXCEPT ![r] = q] /\ req[r].pc = "remove"
  BY DEF RemoveRow, RemoveFails, At
<1> HIDE DEF q
<1> QED BY <1>1, <1>2, <1>3, ReqFacts, RequestInv DEF Completing

(* The request goes on, in CompletePurchase, to another place. *)
LEMMA CompletingInv ==
  ASSUME Inv, LockInv', NEW r \in Requests, NEW q \in Request,
         req[r].pc \in Completing,
         q.pc \in Completing, q.told = req[r].told,
         q.pc \in {"unlock", "untrack", "announce", "freeSrem"} => q.w \in Widgets,
         req' = [req EXCEPT ![r] = q],
         UNCHANGED <<orders, won, stock>>
  PROVE  Inv'
<1>1. req[r].pc \notin {"done", "verify"} /\ q.pc \notin {"done", "verify"}
  BY DEF Completing
<1> QED BY <1>1, ReqFacts, RequestInv

LEMMA ClearStepsInv ==
  ASSUME Inv, NEW r \in Requests, Unlock(r) \/ Untrack(r) \/ ClearFails(r)
  PROVE  Inv'
<1>1. req[r].pc \in {"unlock", "untrack"} /\ req[r].w \in Widgets
  BY DEF Unlock, Untrack, ClearFails, At, Inv, ReqType
<1>2. screen' \in [Viewers -> [Widgets -> Shown]]
  BY DEF Unlock, Untrack, ClearFails, Inv, LockInv, LockTypeOK, lockVars
<1>3. LockInv' /\ UNCHANGED <<orders, won, stock>>
  BY <1>1, <1>2, ClearInv DEF Unlock, Untrack, ClearFails, Inv, lockVars
<1>4. PICK pc \in {"untrack", "announce"} : req' = [req EXCEPT ![r].pc = pc]
  BY DEF Unlock, Untrack, ClearFails, Goto
<1> DEFINE q == [req[r] EXCEPT !.pc = pc]
<1>5. q \in Request /\ q.pc = pc /\ q.w = req[r].w /\ q.told = req[r].told
  BY ReqFacts DEF Request, Pcs
<1>6. req' = [req EXCEPT ![r] = q]
  BY <1>4 DEF Inv, ReqType
<1> HIDE DEF q
<1> QED BY <1>1, <1>3, <1>5, <1>6, CompletingInv DEF Completing

LEMMA AnnounceInv ==
  ASSUME Inv, NEW r \in Requests, Announce(r)
  PROVE  Inv'
<1> DEFINE rest == req[r].todo \ {req[r].w}
<1>1. req[r].pc = "announce" /\ req[r].w \in Widgets
  BY DEF Announce, At, Inv, ReqType
<1>2. screen' \in [Viewers -> [Widgets -> Shown]]
  <2>1. LockTypeOK /\ Nobody \in Users \cup {Nobody} /\ {} \in SUBSET Widgets
    BY DEF Inv, LockInv
  <2> QED BY <1>1, <2>1, ScreenType DEF Announce
<1>3. LockInv' /\ UNCHANGED <<orders, won, stock>>
  BY <1>1, <1>2, ClearInv DEF Announce, Inv
<1>4. ASSUME NEW pc \in {"scan", "remove"}, NEW todo \in SUBSET Widgets,
             req' = [req EXCEPT ![r] =
                       [req[r] EXCEPT !.pc = pc, !.todo = todo, !.w = NoWidget]]
      PROVE  Inv'
  <2> DEFINE q == [req[r] EXCEPT !.pc = pc, !.todo = todo, !.w = NoWidget]
  <2>1. q \in Request /\ q.pc = pc /\ q.told = req[r].told
    <3>1. req[r] \in Request /\ pc \in Pcs
      BY ReqFacts DEF Pcs
    <3> QED BY <3>1 DEF Request
  <2>2. req' = [req EXCEPT ![r] = q]
    BY <1>4
  <2> HIDE DEF q
  <2> QED BY <1>1, <1>3, <2>1, <2>2, CompletingInv DEF Completing
<1>5. rest \in SUBSET Widgets
  BY ReqFacts DEF Request
<1>6. CASE rest = {}
  BY <1>4, <1>6 DEF Announce
<1>7. CASE rest # {}
  BY <1>4, <1>5, <1>7 DEF Announce
<1> QED BY <1>6, <1>7

(* The scan of the buyer's locks goes on, or its result is about to be freed. *)
LEMMA SeenInv ==
  ASSUME Inv, LockInv', NEW r \in Requests, req[r].pc = "scan",
         NEW w \in Widgets, NEW seen \in SUBSET Widgets, Seen(r, w, seen),
         UNCHANGED <<orders, won, stock>>
  PROVE  Inv'
<1> DEFINE rest == req[r].todo \ {w}
<1>1. rest \in SUBSET Widgets
  BY ReqFacts DEF Request
<1>2. ASSUME NEW pc \in {"free", "scan"}, NEW todo \in SUBSET Widgets,
             NEW done \in SUBSET Widgets,
             req' = [req EXCEPT ![r] =
                       [req[r] EXCEPT !.pc = pc, !.todo = todo, !.done = done]]
      PROVE  Inv'
  <2> DEFINE q == [req[r] EXCEPT !.pc = pc, !.todo = todo, !.done = done]
  <2>1. q \in Request /\ q.pc = pc /\ q.told = req[r].told
    <3>1. req[r] \in Request /\ pc \in Pcs
      BY ReqFacts DEF Pcs
    <3> QED BY <3>1 DEF Request
  <2>2. req' = [req EXCEPT ![r] = q]
    BY <1>2
  <2> HIDE DEF q
  <2> QED BY <2>1, <2>2, CompletingInv DEF Completing
<1>3. CASE rest = {}
  BY <1>2, <1>3 DEF Seen
<1>4. CASE rest # {}
  BY <1>1, <1>2, <1>4 DEF Seen
<1> QED BY <1>3, <1>4

LEMMA ScanInv ==
  ASSUME Inv, NEW r \in Requests, ScanFails(r) \/ \E w \in Widgets : ScanHeld(r, w)
  PROVE  Inv'
<1>1. LockInv' /\ UNCHANGED <<orders, won, stock>>
  BY LocksUntouched DEF ScanHeld, ScanFails, Inv, lockVars
<1>2. req[r].pc = "scan" /\ orders[KeyOf[r]] = r /\ req[r].todo \subseteq Widgets
      /\ req[r].done \in SUBSET Widgets
  BY ReqFacts DEF ScanHeld, ScanFails, At, Completing, Request
<1>3. ASSUME NEW w \in Widgets, NEW seen \in SUBSET Widgets, Seen(r, w, seen)
      PROVE  Inv'
  BY <1>1, <1>2, <1>3, SeenInv
<1>4. CASE Answer(r, "placed", r)
  BY <1>1, <1>2, <1>4, AnswerInv
<1>5. \A w \in Widgets : req[r].done \cup {w} \in SUBSET Widgets
  BY <1>2
<1> QED BY <1>2, <1>3, <1>4, <1>5 DEF ScanHeld, ScanFails

LEMMA FreeInv ==
  ASSUME Inv, NEW r \in Requests,
         FreeSRem(r) \/ FreeFails(r) \/ \E w \in Widgets : FreeDel(r, w)
  PROVE  Inv'
<1>1. CASE FreeSRem(r)
  <2> DEFINE q == [req[r] EXCEPT !.pc = "free", !.w = NoWidget,
                              !.done = req[r].done \cup {req[r].w}]
  <2>1. req[r].pc = "freeSrem" /\ req[r].w \in Widgets /\ req' = [req EXCEPT ![r] = q]
    BY <1>1 DEF FreeSRem, At, Inv, ReqType
  <2>2. LockInv' /\ UNCHANGED <<orders, won, stock>>
    BY <1>1, <2>1, ClearInv DEF FreeSRem, Inv, LockInv, LockTypeOK
  <2>3. q \in Request /\ q.pc = "free" /\ q.told = req[r].told
    BY <2>1, ReqFacts DEF Request, Pcs
  <2> HIDE DEF q
  <2> QED BY <2>1, <2>2, <2>3, CompletingInv DEF Completing
<1>2. CASE FreeFails(r)
  <2>1. LockInv' /\ UNCHANGED <<orders, won, stock>>
    BY <1>2, LocksUntouched DEF FreeFails, Inv, lockVars
  <2>2. ASSUME NEW w \in req[r].todo, req' = [req EXCEPT ![r].todo = @ \ {w}],
               req[r].pc = "free"
        PROVE  Inv'
    <3> DEFINE q == [req[r] EXCEPT !.todo = @ \ {w}]
    <3>1. q \in Request /\ q.pc = "free" /\ q.told = req[r].told
      BY <2>2, ReqFacts DEF Request
    <3>2. req' = [req EXCEPT ![r] = q]
      BY <2>2 DEF Inv, ReqType
    <3> HIDE DEF q
    <3> QED BY <2>1, <2>2, <3>1, <3>2, CompletingInv DEF Completing
  <2>3. CASE req[r].pc = "freeSrem"
    <3> DEFINE q == [req[r] EXCEPT !.pc = "free", !.w = NoWidget]
    <3>1. q \in Request /\ q.pc = "free" /\ q.told = req[r].told
      BY ReqFacts DEF Request, Pcs
    <3>2. req' = [req EXCEPT ![r] = q]
      BY <1>2, <2>3 DEF FreeFails, At
    <3> HIDE DEF q
    <3> QED BY <2>1, <2>3, <3>1, <3>2, CompletingInv DEF Completing
  <2> QED BY <1>2, <2>2, <2>3 DEF FreeFails, At
<1>3. ASSUME NEW w \in Widgets, FreeDel(r, w)
      PROVE  Inv'
  <2> DEFINE q == [req[r] EXCEPT !.pc = "freeSrem", !.w = w,
                              !.todo = req[r].todo \ {w}]
  <2>1. req[r].pc = "free" /\ req' = [req EXCEPT ![r] = q]
    BY <1>3 DEF FreeDel, At
  <2>2. LockInv' /\ UNCHANGED <<orders, won, stock>>
    BY <1>3, ClearInv DEF FreeDel, Inv, LockInv, LockTypeOK
  <2>3. q \in Request /\ q.pc = "freeSrem" /\ q.w = w /\ q.told = req[r].told
    BY ReqFacts DEF Request, Pcs
  <2> HIDE DEF q
  <2> QED BY <2>1, <2>2, <2>3, CompletingInv DEF Completing
<1> QED BY <1>1, <1>2, <1>3

LEMMA FinishInv ==
  ASSUME Inv, NEW r \in Requests, Finish(r)
  PROVE  Inv'
<1>1. req[r].pc = "free" /\ req[r].done \in SUBSET Widgets
  BY ReqFacts DEF Finish, At, Request
<1>2. screen' \in [Viewers -> [Widgets -> Shown]]
  <2>1. \A s \in Shown : [s EXCEPT !.by = Nobody] \in Shown
    BY DEF Shown
  <2>2. screen \in [Viewers -> [Widgets -> Shown]]
    BY DEF Inv, LockInv, LockTypeOK
  <2>3. \A v \in Viewers, w \in Widgets : [screen[v][w] EXCEPT !.by = Nobody] \in Shown
    BY <2>1, <2>2
  <2> QED BY <2>2, <2>3 DEF Finish, ShowReleased
<1>3. LockInv'
  <2>1. LockTypeOK' /\ HoldersWon' /\ CarriedWon'
    BY <1>2 DEF Finish, Inv, LockInv, LockTypeOK, HoldersWon, CarriedWon
  <2> QED BY <2>1 DEF LockInv
<1>4. orders[KeyOf[r]] = r
  BY <1>1, ReqFacts DEF Completing
<1> QED BY <1>3, <1>4, AnswerInv DEF Finish

LEMMA DieInv ==
  ASSUME Inv, NEW r \in Requests, Die(r)
  PROVE  Inv'
<1> DEFINE q == [Fresh EXCEPT !.pc = "dead"]
<1>1. q \in Request /\ q.pc = "dead" /\ q.told = Waiting
  BY DEF Request, Pcs, Fresh, Waiting
<1>2. req' = [req EXCEPT ![r] = q] /\ UNCHANGED <<orders, won, stock>>
  BY DEF Die, lockVars
<1>3. LockInv'
  BY LocksUntouched DEF Die, Inv
<1> HIDE DEF q
<1> QED BY <1>1, <1>2, <1>3, ReqFacts, RequestInv DEF Completing

LEMMA DeleteItemInv ==
  ASSUME Inv, NEW w \in Widgets, DeleteItem(w)
  PROVE  Inv'
<1>1. UNCHANGED <<orders, req, won>> /\ stock' \in SUBSET Widgets
  BY DEF DeleteItem, lockVars, Inv, OrderType
<1>2. LockInv'
  BY LocksUntouched DEF DeleteItem, Inv
<1> QED
  BY <1>1, <1>2 DEF Inv, OrderType, ReqType, Filed, ToldTruth, Told, VerifiedWon,
                    OrdersReserved

LEMMA NextInv ==
  ASSUME Inv, [Next]_vars
  PROVE  Inv'
<1>1. CASE LockStep
  BY <1>1, LockStepInv
<1>2. ASSUME NEW r \in Requests, CheckKey(r)
      PROVE  Inv'
  BY <1>2, CheckKeyInv
<1>3. ASSUME NEW r \in Requests, RequestStep(r)
      PROVE  Inv'
  BY <1>3, ListItemsInv, VerifyLockInv, StoreFailsInv, CommitInv, LookupKeyInv, RemoveInv,
     ClearStepsInv, AnnounceInv, ScanInv, FreeInv, FinishInv DEF RequestStep
<1>4. ASSUME NEW r \in Requests, Die(r)
      PROVE  Inv'
  BY <1>4, DieInv
<1>5. ASSUME NEW w \in Widgets, DeleteItem(w)
      PROVE  Inv'
  BY <1>5, DeleteItemInv
<1>6. CASE UNCHANGED vars
  <2>1. LockInv' /\ UNCHANGED <<won, orders, stock, req>>
    BY <1>6, LocksUntouched DEF Inv, vars, lockVars, orderVars
  <2> QED
    BY <2>1 DEF Inv, OrderType, ReqType, Filed, ToldTruth, Told, VerifiedWon,
                OrdersReserved
<1> QED BY <1>1, <1>2, <1>3, <1>4, <1>5, <1>6 DEF Next

LEMMA Invariance == Spec => []Inv
BY InitInv, NextInv, PTL DEF Spec

-----------------------------------------------------------------------------
(* What follows from the invariant.                                          *)

(* Every variable of the checkout keeps its type. *)
THEOREM TypeCorrect == Spec => []TypeOK
<1>1. Inv => TypeOK
  BY DEF Inv, LockInv, OrderType, ReqType, TypeOK
<1> QED BY <1>1, Invariance, PTL

(* Idempotency: all requests with one key hear of the same order, and at    *)
(* most one of them placed it, whatever is retried, lost or cut short.      *)
THEOREM KeysNameOneOrder == Spec => []OneOrderPerKey
<1>1. Inv => OneOrderPerKey
  BY DEF Inv, ToldTruth, OneOrderPerKey, Told, ReqType
<1> QED BY <1>1, Invariance, PTL

(* The verification before the transaction is enough for an order to be the *)
(* buyer's own reservations, although no lock is held during it.            *)
THEOREM OrdersOnlyOfReserved == Spec => []OrdersReserved
<1>1. Inv => OrdersReserved
  BY DEF Inv
<1> QED BY <1>1, Invariance, PTL

(* The checkout does not weaken what the locks promise. *)
THEOREM HoldersStillWon == Spec => []HoldersWon
<1>1. Inv => HoldersWon
  BY DEF Inv, LockInv
<1> QED BY <1>1, Invariance, PTL

-----------------------------------------------------------------------------
(* Refinement and the action property.  A step of a request is a step of    *)
(* the order book about the same request, or one the book does not see.     *)

(* The steps that leave stock, orders and what was told alone. *)
LEMMA Unseen ==
  ASSUME Inv, NEW r \in Requests, NEW q \in Request,
         req' = [req EXCEPT ![r] = q], q.told = req[r].told,
         UNCHANGED <<stock, orders>>
  PROVE  UNCHANGED Book!vars
<1>1. \A t \in Requests : req'[t].told = req[t].told
  BY DEF Inv, ReqType
<1> QED BY <1>1 DEF Book!vars

(* An answer: Refuse, or Confirm of the order the key names. *)
LEMMA AnswerStep ==
  ASSUME Inv, NEW r \in Requests, NEW kind \in {"refused", "duplicate", "placed"},
         NEW o \in Requests \cup {NoOrder},
         Answer(r, kind, o), req[r].told = Waiting, UNCHANGED <<stock, orders>>,
         \/ kind = "refused" /\ o = NoOrder
         \/ /\ kind # "refused"
            /\ orders[KeyOf[r]] # NoOrder
            /\ o = orders[KeyOf[r]]
            /\ kind = "placed" => o = r
  PROVE  Book!Next
<1> DEFINE told == [t \in Requests |-> req[t].told]
           answer == [kind |-> kind, order |-> o]
<1>1. req' = [req EXCEPT ![r] = [Fresh EXCEPT !.pc = "done", !.told = answer]]
  BY DEF Answer
<1>2. [Fresh EXCEPT !.pc = "done", !.told = answer].told = answer
  BY DEF Fresh
<1> HIDE DEF answer
<1>3. [t \in Requests |-> req'[t].told] = [told EXCEPT ![r] = answer]
  BY <1>1, <1>2 DEF Inv, ReqType
<1>4. told[r] = Book!Waiting
  BY DEF Waiting, Book!Waiting
<1>5. CASE kind = "refused" /\ o = NoOrder
  <2>1. Book!Refuse(r)
    BY <1>3, <1>4, <1>5 DEF Book!Refuse, answer
  <2> QED BY <2>1 DEF Book!Next
<1>6. CASE kind # "refused"
  <2>1. Book!Confirm(r)
    BY <1>3, <1>4, <1>6 DEF Book!Confirm, answer
  <2> QED BY <2>1 DEF Book!Next
<1> QED BY <1>5, <1>6

(* The transaction: Place, even when its answer is lost, or nothing. *)
LEMMA CommitStep ==
  ASSUME Inv, NEW r \in Requests, Commit(r)
  PROVE  Book!Next \/ UNCHANGED Book!vars
<1> DEFINE q == [req[r] EXCEPT !.pc = "lookup"]
           p == [req[r] EXCEPT !.pc = "remove", !.todo = ItemsOf[r]]
<1>1. q \in Request /\ q.told = req[r].told /\ p \in Request /\ p.told = req[r].told
  <2>1. req[r] \in Request /\ ItemsOf[r] \in SUBSET Widgets BY ReqFacts
  <2>2. q \in Request /\ q.told = req[r].told BY <2>1 DEF Request, Pcs
  <2> DEFINE items == ItemsOf[r]
  <2> HIDE DEF items
  <2>3. items \in SUBSET Widgets BY <2>1 DEF items
  <2> DEFINE x == [req[r] EXCEPT !.pc = "remove", !.todo = items]
  <2>4. x \in Request /\ x.told = req[r].told BY <2>1, <2>3 DEF Request, Pcs
  <2> QED BY <2>2, <2>4 DEF items
<1>2. PICK s \in {p, q} : req' = [req EXCEPT ![r] = s]
  BY DEF Commit, Goto, Inv, ReqType
<1> HIDE DEF p, q
<1>3. s \in Request /\ s.told = req[r].told
  BY <1>1, <1>2
<1>4. CASE UNCHANGED orders
  BY <1>2, <1>3, <1>4, Unseen DEF Commit
<1>5. CASE Acceptable(r) /\ Insert(r)
  <2>1. \A t \in Requests : req'[t].told = req[t].told
    BY <1>2, <1>3 DEF Inv, ReqType
  <2>2. Book!Place(r)
    BY <1>5, <2>1 DEF Book!Place, Acceptable, Insert, Commit
  <2> QED BY <2>2 DEF Book!Next
<1> QED BY <1>4, <1>5 DEF Commit

LEMMA RemoveStep ==
  ASSUME Inv, NEW r \in Requests, NEW w \in Widgets, RemoveRow(r, w) \/ RemoveFails(r, w)
  PROVE  Book!Next \/ UNCHANGED Book!vars
<1> DEFINE q == [req[r] EXCEPT !.pc = "unlock", !.w = w]
<1>1. q \in Request /\ q.told = req[r].told
  BY ReqFacts DEF Request, Pcs
<1>2. req' = [req EXCEPT ![r] = q] /\ UNCHANGED orders
  BY DEF RemoveRow, RemoveFails
<1> HIDE DEF q
<1>3. CASE RemoveFails(r, w)
  BY <1>1, <1>2, <1>3, Unseen DEF RemoveFails
<1>4. CASE RemoveRow(r, w)
  <2>1. \A t \in Requests : req'[t].told = req[t].told
    BY <1>1, <1>2 DEF Inv, ReqType
  <2>2. Book!Withdraw(w)
    BY <1>2, <1>4, <2>1 DEF Book!Withdraw, RemoveRow
  <2> QED BY <2>2 DEF Book!Next
<1> QED BY <1>3, <1>4

(* The rest of a request's steps tell nobody anything and leave the book.   *)
LEMMA QuietSteps ==
  ASSUME Inv, NEW r \in Requests,
         \/ Unlock(r) \/ Untrack(r) \/ ClearFails(r) \/ Announce(r)
         \/ \E w \in Widgets : ScanHeld(r, w) \/ FreeDel(r, w)
         \/ FreeSRem(r) \/ FreeFails(r)
  PROVE  UNCHANGED Book!vars
<1> SUFFICES \A t \in Requests : req'[t].told = req[t].told
  BY DEF Unlock, Untrack, ClearFails, Announce, ScanHeld, FreeDel, FreeSRem, FreeFails,
         Book!vars
<1> USE DEF Inv, ReqType, Request
<1>1. CASE Unlock(r) \/ Untrack(r) \/ ClearFails(r)
  BY <1>1 DEF Unlock, Untrack, ClearFails, Goto
<1>2. CASE Announce(r)
  BY <1>2 DEF Announce
<1>3. ASSUME NEW w \in Widgets, ScanHeld(r, w)
      PROVE  \A t \in Requests : req'[t].told = req[t].told
  BY <1>3 DEF ScanHeld, Seen
<1>4. ASSUME NEW w \in Widgets, FreeDel(r, w)
      PROVE  \A t \in Requests : req'[t].told = req[t].told
  BY <1>4 DEF FreeDel
<1>5. CASE FreeSRem(r)
  BY <1>5 DEF FreeSRem
<1>6. CASE FreeFails(r)
  <2>1. ASSUME NEW w \in req[r].todo, req' = [req EXCEPT ![r].todo = @ \ {w}]
        PROVE  \A t \in Requests : req'[t].told = req[t].told
    BY <2>1
  <2>2. CASE req' = [req EXCEPT ![r] = [@ EXCEPT !.pc = "free", !.w = NoWidget]]
    BY <2>2
  <2> QED BY <1>6, <2>1, <2>2 DEF FreeFails
<1> QED BY <1>1, <1>2, <1>3, <1>4, <1>5, <1>6

(* Up to the transaction a request reads, and is refused or goes on. *)
LEMMA ReadSteps ==
  ASSUME Inv, NEW r \in Requests,
         \/ CheckKey(r) \/ ListItems(r) \/ StoreFails(r) \/ LookupKey(r)
         \/ \E w \in Widgets : VerifyLock(r, w)
  PROVE  Book!Next \/ UNCHANGED Book!vars
<1>1. req[r].told = Waiting /\ UNCHANGED <<stock, orders>>
  BY ReqFacts DEF CheckKey, ListItems, StoreFails, LookupKey, VerifyLock, At
<1>2. ASSUME Refuse(r)
      PROVE  Book!Next
  BY <1>1, <1>2, AnswerStep DEF Refuse
<1>3. ASSUME orders[KeyOf[r]] # NoOrder, Answer(r, "duplicate", orders[KeyOf[r]])
      PROVE  Book!Next
  <2>1. orders[KeyOf[r]] \in Requests \cup {NoOrder}
    BY ReqFacts DEF Inv, OrderType
  <2> QED BY <1>1, <1>3, <2>1, AnswerStep
<1>4. CASE Goto(r, "list")
  <2>1. \A t \in Requests : req'[t].told = req[t].told
    BY <1>4 DEF Goto, Inv, ReqType, Request
  <2> QED BY <1>1, <2>1 DEF Book!vars
<1>5. CASE req' = [req EXCEPT ![r] = [@ EXCEPT !.pc = "verify", !.todo = ItemsOf[r]]]
  <2>1. \A t \in Requests : req'[t].told = req[t].told
    BY <1>5 DEF Inv, ReqType, Request
  <2> QED BY <1>1, <2>1 DEF Book!vars
<1>6. ASSUME NEW w \in Widgets, req' = [req EXCEPT ![r].todo = @ \ {w}]
      PROVE  UNCHANGED Book!vars
  <2>1. \A t \in Requests : req'[t].told = req[t].told
    BY <1>6 DEF Inv, ReqType, Request
  <2> QED BY <1>1, <2>1 DEF Book!vars
<1> QED
  BY <1>2, <1>3, <1>4, <1>5, <1>6 DEF CheckKey, ListItems, StoreFails, LookupKey, VerifyLock

LEMMA FinishStep ==
  ASSUME Inv, NEW r \in Requests, Finish(r) \/ ScanFails(r)
  PROVE  Book!Next \/ UNCHANGED Book!vars
<1>1. req[r].told = Waiting /\ orders[KeyOf[r]] = r /\ r # NoOrder
      /\ UNCHANGED <<stock, orders>>
  BY ReqFacts, RequestsAssumption DEF Finish, ScanFails, At, Completing
<1>2. CASE Answer(r, "placed", r)
  BY <1>1, <1>2, AnswerStep
<1>3. ASSUME NEW w, Seen(r, w, req[r].done)
      PROVE  UNCHANGED Book!vars
  <2>1. \A t \in Requests : req'[t].told = req[t].told
    BY <1>3 DEF Seen, Inv, ReqType, Request
  <2> QED BY <1>1, <2>1 DEF Book!vars
<1> QED BY <1>2, <1>3 DEF Finish, ScanFails

LEMMA BookStep == Inv /\ [Next]_vars => [Book!Next]_(Book!vars)
<1> SUFFICES ASSUME Inv, [Next]_vars
             PROVE  Book!Next \/ UNCHANGED Book!vars
  OBVIOUS
<1>1. CASE LockStep \/ UNCHANGED vars
  BY <1>1 DEF LockStep, orderVars, vars, Book!vars
<1>2. ASSUME NEW r \in Requests, CheckKey(r) \/ RequestStep(r)
      PROVE  Book!Next \/ UNCHANGED Book!vars
  BY <1>2, ReadSteps, CommitStep, RemoveStep, QuietSteps, FinishStep DEF RequestStep
<1>3. ASSUME NEW r \in Requests, Die(r)
      PROVE  UNCHANGED Book!vars
  <2> DEFINE q == [Fresh EXCEPT !.pc = "dead"]
  <2>1. q \in Request /\ q.told = Waiting
    BY DEF Request, Pcs, Fresh, Waiting
  <2>2. req' = [req EXCEPT ![r] = q] /\ req[r].told = Waiting /\ UNCHANGED <<stock, orders>>
    BY <1>3, ReqFacts DEF Die
  <2> HIDE DEF q
  <2> QED BY <2>1, <2>2, Unseen
<1>4. ASSUME NEW w \in Widgets, DeleteItem(w)
      PROVE  Book!Next
  <2>1. Book!Withdraw(w)
    BY <1>4 DEF DeleteItem, Book!Withdraw
  <2> QED BY <2>1 DEF Book!Next
<1> QED BY <1>1, <1>2, <1>3, <1>4 DEF Next

(* The checkout implements the order book: whatever is retried, lost or     *)
(* interleaved, orders, stock and answers change as the book allows.        *)
THEOREM CheckoutImplementsOrderBook == Spec => ImplementsOrderBook
<1>1. Init => Book!Init
  BY DEF Init, Book!Init, Fresh, Waiting, Book!Waiting
<1> QED
  BY <1>1, BookStep, Invariance, PTL DEF Spec, ImplementsOrderBook, Book!Spec

(* No order is recorded for a widget after its row has gone, even by a      *)
(* request that listed and verified the widget while it was there.          *)
THEOREM RemovedStaysUnsold == Spec => NoSaleAfterRemoval
<1> DEFINE Stays ==
      \A w \in Widgets \ stock : w \notin stock' /\ OrdersWith(w)' = OrdersWith(w)
<1>1. Inv /\ [Next]_vars => Stays
  <2> SUFFICES ASSUME Inv, [Next]_vars, NEW w \in Widgets \ stock
               PROVE  w \notin stock' /\ OrdersWith(w)' = OrdersWith(w)
    OBVIOUS
  <2>1. CASE UNCHANGED Book!vars
    BY <2>1 DEF Book!vars, OrdersWith
  <2>2. ASSUME NEW r \in Requests, Book!Place(r)
        PROVE  w \notin stock' /\ OrdersWith(w)' = OrdersWith(w)
    <3>1. \A k \in Keys : k # KeyOf[r] => orders'[k] = orders[k]
      BY <2>2 DEF Book!Place, Inv, OrderType
    <3>2. w \notin ItemsOf[r] /\ orders[KeyOf[r]] = NoOrder /\ orders'[KeyOf[r]] = r
      BY <2>2, RequestsAssumption DEF Book!Place, Inv, OrderType
    <3>3. w \notin stock'
      BY <2>2 DEF Book!Place
    <3> QED BY <3>1, <3>2, <3>3 DEF OrdersWith
  <2>3. ASSUME NEW r \in Requests, Book!Confirm(r) \/ Book!Refuse(r)
        PROVE  w \notin stock' /\ OrdersWith(w)' = OrdersWith(w)
    BY <2>3 DEF Book!Confirm, Book!Refuse, OrdersWith
  <2>4. ASSUME NEW x \in Widgets, Book!Withdraw(x)
        PROVE  w \notin stock' /\ OrdersWith(w)' = OrdersWith(w)
    BY <2>4 DEF Book!Withdraw, OrdersWith
  <2> QED BY <2>1, <2>2, <2>3, <2>4, BookStep DEF Book!Next
<1>2. Stays => [\A w \in Widgets \ stock :
                  w \notin stock' /\ OrdersWith(w)' = OrdersWith(w)]_vars
  OBVIOUS
<1> QED BY <1>1, <1>2, Invariance, PTL DEF Spec, NoSaleAfterRemoval
=============================================================================
