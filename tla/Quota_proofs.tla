---------------------------- MODULE Quota_proofs ----------------------------
(***************************************************************************)
(* Theorems about Quota, for any users, packages, limits and calls.         *)
(***************************************************************************)
EXTENDS Quota, FiniteSetTheorems, SequenceTheorems, TLAPS

-----------------------------------------------------------------------------
(* Types.                                                                    *)

(* What a call of the package service carries, beside its type. *)
Asks(e) ==
  /\ edit[e].pc = "title" => edit[e].wish \in Wishes \cup {Kept}
  /\ edit[e].pc \in {"delete", "wait", "insert"} => edit[e].wish \in Wishes

Inv == QuotaTypeOK /\ \A e \in Edits : Asks(e)

(* The steps of a guard that has found its limit. *)
AtWork == {"decrement", "increment", "get", "init"}

LEMMA Constants ==
  /\ FreePlan \in Plans /\ SeedPlans \subseteq Plans /\ Buyers \subseteq QuotaUsers
  /\ NoLimit \notin LimitIds /\ FreeSlug \in PlanSlugs
  /\ "unborn" \notin PlanSlugs /\ "removed" \notin PlanSlugs
  /\ Settings \subseteq {"nothing", "price"} \cup PlanSlugs
  /\ \A u \in QuotaUsers : Tenant(u) \in QuotaUsers
  /\ \A res \in Resources, m \in Methods : PatternOf[<<res, m>>] \in Range(PatternOf)
  /\ \A w \in Wishes : \A x \in w : x.res \in Resources /\ x.count \in Nat \cup {Unlimited}
<1>1. \A u \in QuotaUsers : Tenant(u) \in QuotaUsers BY QuotaAssumption DEF Tenant
<1>2. \A res \in Resources, m \in Methods : PatternOf[<<res, m>>] \in Range(PatternOf)
  BY QuotaAssumption DEF Range
<1>3. "unborn" \notin PlanSlugs /\ "removed" \notin PlanSlugs BY QuotaAssumption
<1> QED BY <1>1, <1>2, <1>3, QuotaAssumption

LEMMA PassedType ==
  /\ Passed \in Guard /\ Passed.pc = "idle" /\ NoPurchase \in Purchase /\ NoPurchase.pc = "new"
  /\ NoEdit \in Edit /\ NoEdit.pc = "new" /\ NoEdit.gone = {}
BY Constants DEF Passed, Guard, Methods, NoPurchase, Purchase, NoEdit, Edit

LEMMA BlankType == Blank \in Limit /\ Blank.state = "unborn"
<1>1. (CHOOSE r \in Resources : TRUE) \in Resources BY QuotaAssumption
<1> QED BY <1>1, Constants DEF Blank, Limit

LEMMA RowType ==
  ASSUME NEW p \in Plans, NEW x, x.res \in Resources, x.count \in Nat \cup {Unlimited}
  PROVE  Row(p, x) \in Limit /\ Row(p, x).state = "live" /\ Row(p, x).count = x.count
BY DEF Row, Limit

LEMMA NewSubscriptionType ==
  ASSUME NEW p \in Plans
  PROVE  NewSubscription(p) \in Subscription /\ NewSubscription(p).plan = p
         /\ NewSubscription(p).state = "active"
BY DEF NewSubscription, Subscription

(* What the invariant says, in the pieces the proofs use. *)
LEMMA Typed ==
  ASSUME Inv
  PROVE  /\ plans \in [Plans -> PlanSlugs \cup {"unborn", "removed"}]
         /\ limits \in [LimitIds -> Limit]
         /\ subs \in [QuotaUsers -> Seq(Subscription)]
         /\ usage \in [QuotaUsers -> [LimitIds -> Seq(Nat)]]
         /\ guard \in [Gated -> Guard]
         /\ purchase \in [Purchases -> Purchase]
         /\ edit \in [Edits -> Edit]
         /\ ops \in Nat
         /\ charges \in [QuotaUsers -> [LimitIds -> Nat]]
         /\ renamed \subseteq Plans /\ crowded \subseteq QuotaUsers
         /\ \A g \in Gated :
              /\ guard[g] \in Guard
              /\ guard[g].pc # "idle" => guard[g].user \in QuotaUsers
              /\ guard[g].pc = "lookup" => guard[g].todo # {}
              /\ guard[g].pc \in AtWork => guard[g].limit \in LimitIds /\ guard[g].todo # {}
         /\ \A b \in Purchases : purchase[b] \in Purchase
              /\ (purchase[b].pc # "new" => purchase[b].user \in QuotaUsers)
         /\ \A e \in Edits : edit[e] \in Edit /\ Asks(e)
         /\ \A l \in LimitIds : limits[l] \in Limit
BY DEF Inv, QuotaTypeOK, AtWork

-----------------------------------------------------------------------------
(* The rows of counters.                                                     *)

LEMMA RowsType ==
  ASSUME NEW rows \in Seq(Nat)
  PROVE  /\ Len(rows) \in Nat /\ DOMAIN rows = 1..Len(rows)
         /\ \A i \in DOMAIN rows : rows[i] \in Nat
         /\ rows # <<>> <=> Len(rows) > 0
BY EmptySeq, LenProperties

LEMMA Increments ==
  ASSUME NEW rows \in Seq(Nat), NEW n \in Nat
  PROVE  /\ IncrementLimitUsage(rows, n) \in Seq(Nat)
         /\ DOMAIN IncrementLimitUsage(rows, n) = DOMAIN rows
         /\ Len(IncrementLimitUsage(rows, n)) = Len(rows)
         /\ \A i \in DOMAIN rows : IncrementLimitUsage(rows, n)[i] =
                                     IF rows[i] < n THEN rows[i] + 1 ELSE rows[i]
<1> DEFINE new == IncrementLimitUsage(rows, n)
<1>1. DOMAIN rows = 1..Len(rows) /\ Len(rows) \in Nat /\ \A i \in 1..Len(rows) : rows[i] \in Nat
  BY RowsType
<1>2. new = [i \in 1..Len(rows) |-> IF rows[i] < n THEN rows[i] + 1 ELSE rows[i]]
  BY <1>1 DEF IncrementLimitUsage
<1>3. \A i \in 1..Len(rows) : (IF rows[i] < n THEN rows[i] + 1 ELSE rows[i]) \in Nat
  BY <1>1
<1>4. new \in [1..Len(rows) -> Nat] BY <1>2, <1>3
<1>5. new \in Seq(Nat) BY <1>1, <1>4
<1>6. Len(new) = Len(rows) BY <1>1, <1>4, <1>5, LenProperties
<1> QED BY <1>1, <1>2, <1>5, <1>6

LEMMA Decrements ==
  ASSUME NEW rows \in Seq(Nat)
  PROVE  /\ DecrementLimitUsage(rows) \in Seq(Nat)
         /\ DOMAIN DecrementLimitUsage(rows) = DOMAIN rows
         /\ Len(DecrementLimitUsage(rows)) = Len(rows)
         /\ \A i \in DOMAIN rows : DecrementLimitUsage(rows)[i] <= rows[i]
<1> DEFINE new == DecrementLimitUsage(rows)
<1>1. DOMAIN rows = 1..Len(rows) /\ Len(rows) \in Nat /\ \A i \in 1..Len(rows) : rows[i] \in Nat
  BY RowsType
<1>2. new = [i \in 1..Len(rows) |-> IF rows[i] > 0 THEN rows[i] - 1 ELSE 0]
  BY <1>1 DEF DecrementLimitUsage
<1>3. \A i \in 1..Len(rows) : (IF rows[i] > 0 THEN rows[i] - 1 ELSE 0) \in Nat
  BY <1>1
<1>4. new \in [1..Len(rows) -> Nat] BY <1>2, <1>3
<1>5. new \in Seq(Nat) BY <1>1, <1>4
<1>6. Len(new) = Len(rows) BY <1>1, <1>4, <1>5, LenProperties
<1>7. \A i \in 1..Len(rows) : new[i] <= rows[i] BY <1>1, <1>2
<1> QED BY <1>1, <1>2, <1>5, <1>6, <1>7

LEMMA Starts ==
  ASSUME NEW rows \in Seq(Nat)
  PROVE  /\ InitializeLimitUsage(rows) \in Seq(Nat)
         /\ Len(InitializeLimitUsage(rows)) = Len(rows) + 1
         /\ DOMAIN InitializeLimitUsage(rows) = 1..(Len(rows) + 1)
         /\ \A i \in 1..Len(rows) : InitializeLimitUsage(rows)[i] = rows[i]
         /\ InitializeLimitUsage(rows)[Len(rows) + 1] = 1
<1>1. 1 \in Nat OBVIOUS
<1>2. /\ Append(rows, 1) \in Seq(Nat) /\ Len(Append(rows, 1)) = Len(rows) + 1
      /\ \A i \in 1..Len(rows) : Append(rows, 1)[i] = rows[i]
      /\ Append(rows, 1)[Len(rows) + 1] = 1
  BY <1>1, AppendProperties
<1> QED BY <1>2, LenProperties DEF InitializeLimitUsage

(* One user's counters of one limit are rewritten. *)
LEMMA UsageStep ==
  ASSUME Inv, NEW u \in QuotaUsers, NEW l \in LimitIds, NEW rows \in Seq(Nat),
         usage' = [usage EXCEPT ![u][l] = rows]
  PROVE  /\ usage' \in [QuotaUsers -> [LimitIds -> Seq(Nat)]]
         /\ usage'[u][l] = rows
         /\ \A v \in QuotaUsers, k \in LimitIds : v # u \/ k # l => usage'[v][k] = usage[v][k]
BY Typed

LEMMA ChargesStep ==
  ASSUME Inv, NEW u \in QuotaUsers, NEW l \in LimitIds,
         charges' = [charges EXCEPT ![u][l] = @ + 1]
  PROVE  /\ charges' \in [QuotaUsers -> [LimitIds -> Nat]]
         /\ charges'[u][l] = charges[u][l] + 1
         /\ \A v \in QuotaUsers, k \in LimitIds : v # u \/ k # l => charges'[v][k] = charges[v][k]
BY Typed

-----------------------------------------------------------------------------
(* The steps of a guard: r is the request it serves after the step.          *)

Moves(g, r) ==
  /\ r \in Guard /\ guard' = [guard EXCEPT ![g] = r]
  /\ r.pc # "idle" => r.user \in QuotaUsers
  /\ r.pc = "lookup" => r.todo # {}
  /\ r.pc \in AtWork => r.limit \in LimitIds /\ r.todo # {}
  /\ UNCHANGED <<plans, limits, subs, purchase, edit, renamed>>
  /\ ops' \in Nat
  /\ crowded \subseteq crowded' /\ crowded' \subseteq QuotaUsers

(* It is the same request, unless the guard is done with it. *)
Serves(g, r) ==
  r.pc # "idle" => /\ guard[g].pc # "idle" /\ r.user = guard[g].user
                   /\ r.pattern = guard[g].pattern /\ r.method = guard[g].method

LEMMA MoveFacts ==
  ASSUME Inv, NEW g \in Gated, NEW r, Moves(g, r)
  PROVE  /\ guard' \in [Gated -> Guard] /\ guard'[g] = r
         /\ \A h \in Gated : h # g => guard'[h] = guard[h]
BY Typed DEF Moves

LEMMA RequestType ==
  ASSUME Inv, NEW g \in Gated
  PROVE  guard[g] \in Guard /\ (guard[g].pc # "idle" => guard[g].user \in QuotaUsers)
BY Typed

(* A request carries on at another point. *)
LEMMA AtPoint ==
  ASSUME Inv, NEW g \in Gated, guard[g].pc # "idle",
         NEW s \in {"idle", "count", "active", "lookup", "decrement", "increment", "get", "init"}
  PROVE  LET r == [guard[g] EXCEPT !.pc = s]
         IN  /\ r \in Guard /\ r.pc = s /\ r.user \in QuotaUsers /\ Serves(g, r)
             /\ r.todo = guard[g].todo /\ r.limit = guard[g].limit /\ r.count = guard[g].count
<1> DEFINE r == [guard[g] EXCEPT !.pc = s]
<1>1. guard[g] \in Guard /\ guard[g].user \in QuotaUsers BY RequestType
<1>2. /\ r \in Guard /\ r.pc = s /\ r.user = guard[g].user
      /\ r.pattern = guard[g].pattern /\ r.method = guard[g].method
      /\ r.todo = guard[g].todo /\ r.limit = guard[g].limit /\ r.count = guard[g].count
  BY <1>1 DEF Guard
<1>3. Serves(g, r) BY <1>2 DEF Serves
<1> HIDE DEF r
<1> QED BY <1>1, <1>2, <1>3 DEF r

LEMMA FailsType ==
  ASSUME Inv, NEW u \in QuotaUsers
  PROVE  /\ Fails(u) => crowded \subseteq crowded' /\ crowded' \subseteq QuotaUsers /\ u \in crowded'
         /\ UNCHANGED crowded => crowded \subseteq crowded' /\ crowded' \subseteq QuotaUsers
BY Typed DEF Fails

LEMMA AnswerMoves ==
  ASSUME Inv, NEW g \in Gated, Answer(g), UNCHANGED guardOnly,
         crowded \subseteq crowded' /\ crowded' \subseteq QuotaUsers
  PROVE  Moves(g, Passed) /\ Serves(g, Passed) /\ Passed.pc = "idle"
<1>1. ops' \in Nat BY Typed DEF guardOnly
<1> QED BY <1>1, PassedType DEF Answer, Moves, Serves, guardOnly, AtWork

LEMMA OnwardMoves ==
  ASSUME Inv, NEW g \in Gated, Onward(g), guard[g].pc # "idle", UNCHANGED guardOnly,
         crowded \subseteq crowded' /\ crowded' \subseteq QuotaUsers
  PROVE  \E r : Moves(g, r) /\ Serves(g, r) /\ r.pc \in {"idle", "lookup"}
<1>1. ops' \in Nat BY Typed DEF guardOnly
<1> DEFINE r == [guard[g] EXCEPT !.pc = "lookup", !.todo = Later(g), !.limit = NoLimit, !.count = 0]
<1>2. CASE Later(g) = {}
  <2>1. Answer(g) BY <1>2, Typed DEF Onward, Answer
  <2> QED BY <2>1, AnswerMoves
<1>3. CASE Later(g) # {}
  <2>1. guard' = [guard EXCEPT ![g] = r] BY <1>3 DEF Onward
  <2>2. Later(g) \in SUBSET (Nat \ {0}) BY Typed DEF Later, Guard
  <2>3. /\ r \in Guard /\ r.pc = "lookup" /\ r.todo = Later(g)
        /\ r.user = guard[g].user /\ r.pattern = guard[g].pattern /\ r.method = guard[g].method
    <3>1. guard[g] \in Guard BY RequestType
    <3> DEFINE later == Later(g)
    <3> HIDE DEF later
    <3>2. later \in SUBSET (Nat \ {0}) BY <2>2 DEF later
    <3> DEFINE x == [guard[g] EXCEPT !.pc = "lookup", !.todo = later, !.limit = NoLimit, !.count = 0]
    <3>3. /\ x \in Guard /\ x.pc = "lookup" /\ x.todo = later
          /\ x.user = guard[g].user /\ x.pattern = guard[g].pattern /\ x.method = guard[g].method
      BY <3>1, <3>2 DEF Guard
    <3>4. x = r BY DEF later
    <3> HIDE DEF x, r
    <3> QED BY <3>3, <3>4 DEF later
  <2>4. Serves(g, r) /\ r.user \in QuotaUsers BY <2>3, RequestType DEF Serves
  <2> HIDE DEF r
  <2> QED BY <1>1, <1>3, <2>1, <2>3, <2>4 DEF Moves, guardOnly, AtWork
<1> QED BY <1>2, <1>3

LEMMA EnterMoves ==
  ASSUME Inv, NEW g \in Gated, NEW u \in QuotaUsers, NEW res \in Resources, NEW m \in Methods,
         Enter(g, u, res, m)
  PROVE  \E r : /\ Moves(g, r) /\ r.pc = "count" /\ r.user = Tenant(u)
                /\ r.pattern = PatternOf[<<res, m>>] /\ r.method = m
                /\ UNCHANGED <<usage, charges>>
                /\ (\E h \in Gated : guard[h].pc # "idle" /\ guard[h].user = Tenant(u))
                      => Tenant(u) \in crowded'
<1> DEFINE r == [guard[g] EXCEPT !.pc = "count", !.user = Tenant(u), !.method = m,
                                 !.pattern = PatternOf[<<res, m>>]]
<1>1. guard' = [guard EXCEPT ![g] = r] BY Typed DEF Enter
<1>2. /\ r \in Guard /\ r.pc = "count" /\ r.user = Tenant(u) /\ r.user \in QuotaUsers
      /\ r.pattern = PatternOf[<<res, m>>] /\ r.method = m
  <2>1. guard[g] \in Guard BY RequestType
  <2>2. Tenant(u) \in QuotaUsers /\ PatternOf[<<res, m>>] \in Range(PatternOf) BY Constants
  <2> DEFINE w == Tenant(u)  pattern == PatternOf[<<res, m>>]
  <2> HIDE DEF w, pattern
  <2>3. w \in QuotaUsers /\ pattern \in Range(PatternOf) BY <2>2 DEF w, pattern
  <2> DEFINE x == [guard[g] EXCEPT !.pc = "count", !.user = w, !.method = m, !.pattern = pattern]
  <2>4. x \in Guard /\ x.pc = "count" /\ x.user = w /\ x.pattern = pattern /\ x.method = m
    BY <2>1, <2>3 DEF Guard
  <2> QED BY <2>3, <2>4 DEF w, pattern
<1>3. crowded \subseteq crowded' /\ crowded' \subseteq QuotaUsers BY Typed, Constants DEF Enter
<1>4. ops' \in Nat BY Typed DEF Enter, Begin
<1> HIDE DEF r
<1>5. Moves(g, r) BY <1>1, <1>2, <1>3, <1>4 DEF Enter, Moves, AtWork
<1> QED BY <1>2, <1>5 DEF Enter

LEMMA CountMoves ==
  ASSUME Inv, NEW g \in Gated, Count(g)
  PROVE  \E r : /\ Moves(g, r) /\ Serves(g, r) /\ r.pc \in {"idle", "active"}
                /\ UNCHANGED <<usage, charges>>
<1>1. guard[g].pc = "count" /\ guard[g].user \in QuotaUsers BY Typed DEF Count
<1>2. crowded \subseteq crowded' /\ crowded' \subseteq QuotaUsers BY <1>1, FailsType DEF Count
<1>3. ASSUME Answer(g) PROVE Moves(g, Passed) /\ Serves(g, Passed) /\ Passed.pc = "idle"
  BY <1>2, <1>3, AnswerMoves DEF Count
<1>4. ASSUME guard' = [guard EXCEPT ![g].pc = "active"]
      PROVE  \E r : Moves(g, r) /\ Serves(g, r) /\ r.pc = "active"
  <2> DEFINE r == [guard[g] EXCEPT !.pc = "active"]
  <2>1. guard' = [guard EXCEPT ![g] = r] BY <1>4, Typed
  <2>2. r \in Guard /\ r.pc = "active" /\ r.user \in QuotaUsers /\ Serves(g, r) BY <1>1, AtPoint
  <2>3. ops' \in Nat BY Typed DEF Count, guardOnly
  <2> QED BY <1>2, <2>1, <2>2, <2>3 DEF Moves, Count, guardOnly, AtWork
<1> QED BY <1>3, <1>4 DEF Count

LEMMA ActiveMoves ==
  ASSUME Inv, NEW g \in Gated, Active(g)
  PROVE  \E r : /\ Moves(g, r) /\ Serves(g, r) /\ r.pc \in {"idle", "lookup"}
                /\ UNCHANGED <<usage, charges>>
<1>1. guard[g].pc = "active" /\ guard[g].user \in QuotaUsers BY Typed DEF Active
<1>2. crowded \subseteq crowded' /\ crowded' \subseteq QuotaUsers BY <1>1, FailsType DEF Active
<1> DEFINE todo == GetActiveSubscriptions(guard[g].user)
<1>3. ASSUME Answer(g) PROVE Moves(g, Passed) /\ Serves(g, Passed) /\ Passed.pc = "idle"
  BY <1>2, <1>3, AnswerMoves DEF Active
<1>4. ASSUME todo # {}, guard' = [guard EXCEPT ![g].pc = "lookup", ![g].todo = todo]
      PROVE  \E r : Moves(g, r) /\ Serves(g, r) /\ r.pc = "lookup"
  <2> DEFINE r == [guard[g] EXCEPT !.pc = "lookup", !.todo = todo]
  <2>1. guard' = [guard EXCEPT ![g] = r] BY <1>4, Typed
  <2>2. todo \in SUBSET (Nat \ {0})
    <3>1. subs[guard[g].user] \in Seq(Subscription) BY <1>1, Typed
    <3>2. DOMAIN subs[guard[g].user] = 1..Len(subs[guard[g].user])
          /\ Len(subs[guard[g].user]) \in Nat
      BY <3>1, LenProperties
    <3> QED BY <3>2 DEF GetActiveSubscriptions
  <2> HIDE DEF todo
  <2>3. r \in Guard /\ r.pc = "lookup" /\ r.user \in QuotaUsers /\ Serves(g, r) /\ r.todo = todo
    <3>1. guard[g] \in Guard BY RequestType
    <3>2. /\ r \in Guard /\ r.pc = "lookup" /\ r.todo = todo
          /\ r.user = guard[g].user /\ r.pattern = guard[g].pattern /\ r.method = guard[g].method
      BY <2>2, <3>1 DEF Guard
    <3> QED BY <1>1, <3>2 DEF Serves
  <2> HIDE DEF r
  <2>4. ops' \in Nat BY Typed DEF Active, guardOnly
  <2> QED BY <1>2, <1>4, <2>1, <2>3, <2>4 DEF Moves, Active, guardOnly, AtWork
<1> QED BY <1>3, <1>4 DEF Active

LEMMA LookUpMoves ==
  ASSUME Inv, NEW g \in Gated, LookUp(g)
  PROVE  \E r : /\ Moves(g, r) /\ Serves(g, r) /\ guard[g].pc = "lookup"
                /\ r.pc \in {"idle", "lookup", "decrement", "increment"}
                /\ r.pc \in AtWork =>
                     /\ limits[r.limit].state = "live" /\ limits[r.limit].count = r.count
                     /\ EndpointOf[limits[r.limit].res] = guard[g].pattern
                     /\ r.pc = "decrement" => guard[g].method = "DELETE"
                /\ UNCHANGED <<usage, charges>>
<1>1. guard[g].pc = "lookup" /\ guard[g].user \in QuotaUsers /\ guard[g].todo # {}
  BY Typed DEF LookUp
<1>2. crowded \subseteq crowded' /\ crowded' \subseteq QuotaUsers BY <1>1, FailsType DEF LookUp
<1> DEFINE found == ByEndpoint(PlanAsked(g), guard[g].pattern)
<1>3. ASSUME Onward(g)
      PROVE  \E r : Moves(g, r) /\ Serves(g, r) /\ r.pc \in {"idle", "lookup"}
  BY <1>1, <1>2, <1>3, OnwardMoves DEF LookUp
<1>4. ASSUME NEW l \in found, limits[l].count # Unlimited,
             guard' = [guard EXCEPT ![g] = [@ EXCEPT
                    !.pc = IF guard[g].method = "DELETE" THEN "decrement" ELSE "increment",
                    !.limit = l, !.count = limits[l].count]]
      PROVE  \E r : /\ Moves(g, r) /\ Serves(g, r) /\ r.pc \in {"decrement", "increment"}
                    /\ limits[r.limit].state = "live" /\ limits[r.limit].count = r.count
                    /\ EndpointOf[limits[r.limit].res] = guard[g].pattern
                    /\ r.pc = "decrement" => guard[g].method = "DELETE"
  <2> DEFINE s == IF guard[g].method = "DELETE" THEN "decrement" ELSE "increment"
             r == [guard[g] EXCEPT !.pc = s, !.limit = l, !.count = limits[l].count]
  <2>1. guard' = [guard EXCEPT ![g] = r] BY <1>4, Typed
  <2>2. /\ l \in LimitIds /\ limits[l].state = "live" /\ limits[l].count \in Nat
        /\ EndpointOf[limits[l].res] = guard[g].pattern
    <3>1. l \in LimitIds /\ limits[l].state = "live" /\ EndpointOf[limits[l].res] = guard[g].pattern
      BY <1>4 DEF ByEndpoint, LimitsOf
    <3>2. limits[l].count \in Nat BY <1>4, <3>1, Typed DEF Limit
    <3> QED BY <3>1, <3>2
  <2>3. s \in {"decrement", "increment"} /\ (s = "decrement" => guard[g].method = "DELETE")
    OBVIOUS
  <2> HIDE DEF s
  <2>4. /\ r \in Guard /\ r.pc = s /\ r.user \in QuotaUsers /\ Serves(g, r) /\ r.limit = l
        /\ r.todo = guard[g].todo /\ r.count = limits[l].count
    <3>1. guard[g] \in Guard BY RequestType
    <3> DEFINE n == limits[l].count
    <3> HIDE DEF n
    <3>2. n \in Nat BY <2>2 DEF n
    <3> DEFINE x == [guard[g] EXCEPT !.pc = s, !.limit = l, !.count = n]
    <3>3. /\ x \in Guard /\ x.pc = s /\ x.limit = l /\ x.count = n
          /\ x.todo = guard[g].todo /\ x.user = guard[g].user
          /\ x.pattern = guard[g].pattern /\ x.method = guard[g].method
      BY <2>2, <2>3, <3>1, <3>2 DEF Guard
    <3>4. x = r BY DEF n
    <3> HIDE DEF x, r
    <3> QED BY <1>1, <3>3, <3>4 DEF Serves, n
  <2>5. ops' \in Nat BY Typed DEF LookUp, guardOnly
  <2> HIDE DEF r
  <2>6. Moves(g, r) BY <1>1, <1>2, <2>1, <2>2, <2>3, <2>4, <2>5 DEF Moves, LookUp, guardOnly, AtWork
  <2> QED BY <2>2, <2>3, <2>4, <2>6
<1>5. UNCHANGED <<usage, charges>> BY DEF LookUp
<1>6. \/ Onward(g)
      \/ \E l \in found : /\ limits[l].count # Unlimited
                          /\ guard' = [guard EXCEPT ![g] = [@ EXCEPT
                               !.pc = IF guard[g].method = "DELETE" THEN "decrement" ELSE "increment",
                               !.limit = l, !.count = limits[l].count]]
  BY Zenon DEF LookUp
<1>7. CASE Onward(g) BY <1>1, <1>3, <1>5, <1>7 DEF AtWork
<1> QED BY <1>1, <1>4, <1>5, <1>6, <1>7

LEMMA DecrementMoves ==
  ASSUME Inv, NEW g \in Gated, Decrement(g)
  PROVE  LET u == guard[g].user  l == guard[g].limit
         IN  \E r : /\ Moves(g, r) /\ Serves(g, r) /\ r.pc \in {"idle", "lookup"}
                    /\ guard[g].pc = "decrement" /\ u \in QuotaUsers /\ l \in LimitIds
                    /\ \/ UNCHANGED usage
                       \/ usage' = [usage EXCEPT ![u][l] = DecrementLimitUsage(usage[u][l])]
                    /\ UNCHANGED charges
<1> DEFINE u == guard[g].user  l == guard[g].limit
<1>1. guard[g].pc = "decrement" /\ u \in QuotaUsers /\ l \in LimitIds
  BY Typed DEF Decrement, AtWork
<1>2. crowded \subseteq crowded' /\ crowded' \subseteq QuotaUsers
  BY <1>1, FailsType DEF Decrement
<1>3. ASSUME Answer(g) PROVE Moves(g, Passed) /\ Serves(g, Passed) /\ Passed.pc = "idle"
  BY <1>2, <1>3, AnswerMoves DEF Decrement
<1>4. ASSUME Onward(g)
      PROVE  \E r : Moves(g, r) /\ Serves(g, r) /\ r.pc \in {"idle", "lookup"}
  BY <1>1, <1>2, <1>4, OnwardMoves DEF Decrement
<1>5. \/ Answer(g) /\ UNCHANGED usage
      \/ Onward(g) /\ usage' = [usage EXCEPT ![u][l] = DecrementLimitUsage(usage[u][l])]
  BY DEF Decrement
<1>6. UNCHANGED charges BY DEF Decrement
<1> QED BY <1>1, <1>3, <1>4, <1>5, <1>6

LEMMA IncrementMoves ==
  ASSUME Inv, NEW g \in Gated, Increment(g)
  PROVE  LET u == guard[g].user  l == guard[g].limit  n == guard[g].count
             raised == IncrementLimitUsage(usage[u][l], n)
             counted == usage' = [usage EXCEPT ![u][l] = raised]
             asks == [guard[g] EXCEPT !.pc = "get"]
         IN  /\ guard[g].pc = "increment" /\ u \in QuotaUsers /\ l \in LimitIds /\ n \in Nat
             /\ \E r : /\ Moves(g, r) /\ Serves(g, r)
                       /\ \/ /\ r.pc \in {"idle", "lookup"} /\ raised # usage[u][l]
                             /\ counted /\ charges' = [charges EXCEPT ![u][l] = @ + 1]
                          \/ r = asks /\ raised = usage[u][l] /\ UNCHANGED <<usage, charges>>
                          \/ /\ r = asks /\ u \in crowded'
                             /\ UNCHANGED usage \/ counted
                             /\ UNCHANGED charges
<1> DEFINE u == guard[g].user  l == guard[g].limit  n == guard[g].count
           raised == IncrementLimitUsage(usage[u][l], n)
           counted == usage' = [usage EXCEPT ![u][l] = raised]
           asks == [guard[g] EXCEPT !.pc = "get"]
<1>1. guard[g].pc = "increment" /\ u \in QuotaUsers /\ l \in LimitIds /\ n \in Nat
  BY Typed DEF Increment, AtWork, Guard
<1>2. crowded \subseteq crowded' /\ crowded' \subseteq QuotaUsers
  BY <1>1, FailsType DEF Increment
<1>3. ASSUME Onward(g)
      PROVE  \E r : Moves(g, r) /\ Serves(g, r) /\ r.pc \in {"idle", "lookup"}
  BY <1>1, <1>2, <1>3, OnwardMoves DEF Increment
<1>4. ASSUME guard' = [guard EXCEPT ![g].pc = "get"] PROVE Moves(g, asks) /\ Serves(g, asks)
  <2>1. guard' = [guard EXCEPT ![g] = asks] BY <1>4, Typed
  <2>2. /\ asks \in Guard /\ asks.pc = "get" /\ asks.user \in QuotaUsers /\ Serves(g, asks)
        /\ asks.limit = l /\ asks.todo = guard[g].todo
    BY <1>1, AtPoint
  <2>3. ops' \in Nat BY Typed DEF Increment, guardOnly
  <2>4. guard[g].todo # {} BY <1>1, Typed DEF AtWork
  <2> HIDE DEF asks
  <2> QED BY <1>1, <1>2, <2>1, <2>2, <2>3, <2>4 DEF Moves, Increment, guardOnly, AtWork
<1>5. \/ raised # usage[u][l] /\ counted /\ charges' = [charges EXCEPT ![u][l] = @ + 1] /\ Onward(g)
      \/ raised = usage[u][l] /\ guard' = [guard EXCEPT ![g].pc = "get"] /\ UNCHANGED <<usage, charges>>
      \/ /\ Fails(u) /\ (UNCHANGED usage \/ counted) /\ UNCHANGED charges
         /\ guard' = [guard EXCEPT ![g].pc = "get"]
  BY DEF Increment
<1>6. Fails(u) => u \in crowded' BY <1>1, FailsType
<1> HIDE DEF u, l, n, raised, counted, asks
<1>7. \E r : /\ Moves(g, r) /\ Serves(g, r)
             /\ \/ /\ r.pc \in {"idle", "lookup"} /\ raised # usage[u][l]
                   /\ counted /\ charges' = [charges EXCEPT ![u][l] = @ + 1]
                \/ r = asks /\ raised = usage[u][l] /\ UNCHANGED <<usage, charges>>
                \/ /\ r = asks /\ u \in crowded'
                   /\ UNCHANGED usage \/ counted
                   /\ UNCHANGED charges
  BY <1>3, <1>4, <1>5, <1>6
<1> QED BY <1>1, <1>7 DEF u, l, n, raised, counted, asks

LEMMA GetUsageMoves ==
  ASSUME Inv, NEW g \in Gated, GetUsage(g)
  PROVE  LET u == guard[g].user  l == guard[g].limit
         IN  /\ guard[g].pc = "get" /\ u \in QuotaUsers /\ l \in LimitIds
             /\ UNCHANGED <<usage, charges>>
             /\ \E r : /\ Moves(g, r) /\ Serves(g, r)
                       /\ \/ r.pc = "idle"
                          \/ /\ r = [guard[g] EXCEPT !.pc = "init"]
                             /\ \/ usage[u][l] = <<>> \/ u \in crowded'
                                \/ \E i \in DOMAIN usage[u][l] : usage[u][l][i] = 0
<1> DEFINE u == guard[g].user  l == guard[g].limit  starts == [guard[g] EXCEPT !.pc = "init"]
<1>1. guard[g].pc = "get" /\ u \in QuotaUsers /\ l \in LimitIds
  BY Typed DEF GetUsage, AtWork
<1>2. crowded \subseteq crowded' /\ crowded' \subseteq QuotaUsers
  BY <1>1, FailsType DEF GetUsage
<1>3. ASSUME Answer(g) PROVE Moves(g, Passed) /\ Serves(g, Passed) /\ Passed.pc = "idle"
  BY <1>2, <1>3, AnswerMoves DEF GetUsage
<1>4. ASSUME guard' = [guard EXCEPT ![g].pc = "init"] PROVE Moves(g, starts) /\ Serves(g, starts)
  <2>1. guard' = [guard EXCEPT ![g] = starts] BY <1>4, Typed
  <2>2. /\ starts \in Guard /\ starts.pc = "init" /\ starts.user \in QuotaUsers /\ Serves(g, starts)
        /\ starts.limit = l /\ starts.todo = guard[g].todo
    BY <1>1, AtPoint
  <2>3. ops' \in Nat BY Typed DEF GetUsage, guardOnly
  <2>4. guard[g].todo # {} BY <1>1, Typed DEF AtWork
  <2> HIDE DEF starts
  <2> QED BY <1>1, <1>2, <2>1, <2>2, <2>3, <2>4 DEF Moves, GetUsage, guardOnly, AtWork
<1>5. \/ Answer(g)
      \/ /\ guard' = [guard EXCEPT ![g].pc = "init"]
         /\ \/ usage[u][l] = <<>> \/ Fails(u)
            \/ \E i \in DOMAIN usage[u][l] : usage[u][l][i] = 0
  BY DEF GetUsage
<1>6. Fails(u) => u \in crowded' BY <1>1, FailsType
<1>7. UNCHANGED <<usage, charges>> BY DEF GetUsage
<1> HIDE DEF u, l, starts
<1>8. \E r : /\ Moves(g, r) /\ Serves(g, r)
             /\ \/ r.pc = "idle"
                \/ /\ r = starts
                   /\ \/ usage[u][l] = <<>> \/ u \in crowded'
                      \/ \E i \in DOMAIN usage[u][l] : usage[u][l][i] = 0
  BY <1>3, <1>4, <1>5, <1>6
<1> QED BY <1>1, <1>7, <1>8 DEF u, l, starts

LEMMA InitializeMoves ==
  ASSUME Inv, NEW g \in Gated, Initialize(g)
  PROVE  LET u == guard[g].user  l == guard[g].limit
         IN  /\ guard[g].pc = "init" /\ u \in QuotaUsers /\ l \in LimitIds
             /\ \E r : Moves(g, r) /\ Serves(g, r) /\ r.pc \in {"idle", "lookup"}
             /\ \/ UNCHANGED <<usage, charges>>
                \/ /\ limits[l].state = "live"
                   /\ usage' = [usage EXCEPT ![u][l] = InitializeLimitUsage(usage[u][l])]
                   /\ charges' = [charges EXCEPT ![u][l] = @ + 1]
<1> DEFINE u == guard[g].user  l == guard[g].limit
<1>1. guard[g].pc = "init" /\ u \in QuotaUsers /\ l \in LimitIds
  BY Typed DEF Initialize, AtWork
<1>2. crowded \subseteq crowded' /\ crowded' \subseteq QuotaUsers
  BY <1>1, FailsType DEF Initialize
<1>3. ASSUME Answer(g) PROVE Moves(g, Passed) /\ Serves(g, Passed) /\ Passed.pc = "idle"
  BY <1>2, <1>3, AnswerMoves DEF Initialize
<1>4. ASSUME Onward(g)
      PROVE  \E r : Moves(g, r) /\ Serves(g, r) /\ r.pc \in {"idle", "lookup"}
  BY <1>1, <1>2, <1>4, OnwardMoves DEF Initialize
<1>5. \/ Answer(g) /\ UNCHANGED <<usage, charges>>
      \/ /\ Onward(g) /\ limits[l].state = "live"
         /\ usage' = [usage EXCEPT ![u][l] = InitializeLimitUsage(usage[u][l])]
         /\ charges' = [charges EXCEPT ![u][l] = @ + 1]
  BY DEF Initialize
<1> QED BY <1>1, <1>3, <1>4, <1>5

(* What every step of a guard keeps of the types. *)
LEMMA GuardType ==
  ASSUME Inv, NEW g \in Gated, GuardStep(g)
  PROVE  Inv'
<1>1. SUFFICES /\ \E r : Moves(g, r)
               /\ usage' \in [QuotaUsers -> [LimitIds -> Seq(Nat)]]
               /\ charges' \in [QuotaUsers -> [LimitIds -> Nat]]
  <2>1. PICK r : Moves(g, r) BY <1>1
  <2>2. /\ guard' \in [Gated -> Guard] /\ guard'[g] = r
        /\ \A h \in Gated : h # g => guard'[h] = guard[h]
    BY <2>1, MoveFacts
  <2>3. \A h \in Gated :
          /\ guard'[h].pc # "idle" => guard'[h].user \in QuotaUsers
          /\ guard'[h].pc = "lookup" => guard'[h].todo # {}
          /\ guard'[h].pc \in AtWork => guard'[h].limit \in LimitIds /\ guard'[h].todo # {}
    BY <2>1, <2>2, Typed DEF Moves
  <2>4. QuotaTypeOK'
    BY <1>1, <2>1, <2>2, <2>3, Typed DEF Moves, QuotaTypeOK, AtWork
  <2>5. \A e \in Edits : Asks(e)' BY <2>1, Typed DEF Moves, Asks
  <2> QED BY <2>4, <2>5 DEF Inv
<1>2. UNCHANGED <<usage, charges>> =>
        /\ usage' \in [QuotaUsers -> [LimitIds -> Seq(Nat)]]
        /\ charges' \in [QuotaUsers -> [LimitIds -> Nat]]
  BY Typed
<1>3. ASSUME NEW u \in QuotaUsers, NEW res \in Resources, NEW m \in Methods, Enter(g, u, res, m)
      PROVE  (\E r : Moves(g, r)) /\ UNCHANGED <<usage, charges>>
  BY <1>3, EnterMoves
<1>4. CASE Count(g) BY <1>2, <1>4, CountMoves
<1>5. CASE Active(g) BY <1>2, <1>5, ActiveMoves
<1>6. CASE LookUp(g) BY <1>2, <1>6, LookUpMoves
<1>7. CASE Decrement(g)
  <2> DEFINE u == guard[g].user  l == guard[g].limit
  <2>1. /\ \E r : Moves(g, r)
        /\ u \in QuotaUsers /\ l \in LimitIds /\ UNCHANGED charges
        /\ \/ UNCHANGED usage
           \/ usage' = [usage EXCEPT ![u][l] = DecrementLimitUsage(usage[u][l])]
    BY <1>7, DecrementMoves
  <2>2. usage[u][l] \in Seq(Nat) BY <2>1, Typed
  <2>3. DecrementLimitUsage(usage[u][l]) \in Seq(Nat) BY <2>2, Decrements
  <2> HIDE DEF u, l
  <2> QED BY <2>1, <2>3, Typed, UsageStep
<1>8. CASE Increment(g)
  <2> DEFINE u == guard[g].user  l == guard[g].limit  n == guard[g].count
             raised == IncrementLimitUsage(usage[u][l], n)
  <2>1. /\ \E r : Moves(g, r)
        /\ u \in QuotaUsers /\ l \in LimitIds /\ n \in Nat
        /\ UNCHANGED usage \/ usage' = [usage EXCEPT ![u][l] = raised]
        /\ UNCHANGED charges \/ charges' = [charges EXCEPT ![u][l] = @ + 1]
    BY <1>8, IncrementMoves
  <2>2. usage[u][l] \in Seq(Nat) BY <2>1, Typed
  <2>3. raised \in Seq(Nat) BY <2>1, <2>2, Increments
  <2> HIDE DEF u, l, n, raised
  <2>4. usage' \in [QuotaUsers -> [LimitIds -> Seq(Nat)]]
    <3>1. CASE UNCHANGED usage BY <3>1, Typed
    <3>2. CASE usage' = [usage EXCEPT ![u][l] = raised] BY Zenon, <2>1, <2>3, <3>2, UsageStep
    <3> QED BY <2>1, <3>1, <3>2
  <2>5. charges' \in [QuotaUsers -> [LimitIds -> Nat]]
    <3>1. CASE UNCHANGED charges BY <3>1, Typed
    <3>2. CASE charges' = [charges EXCEPT ![u][l] = @ + 1] BY Zenon, <2>1, <3>2, ChargesStep
    <3> QED BY <2>1, <3>1, <3>2
  <2> QED BY <2>1, <2>4, <2>5
<1>9. CASE GetUsage(g) BY <1>2, <1>9, GetUsageMoves
<1>10. CASE Initialize(g)
  <2> DEFINE u == guard[g].user  l == guard[g].limit  rows == InitializeLimitUsage(usage[u][l])
  <2>1. /\ \E r : Moves(g, r)
        /\ u \in QuotaUsers /\ l \in LimitIds
        /\ UNCHANGED usage \/ usage' = [usage EXCEPT ![u][l] = rows]
        /\ UNCHANGED charges \/ charges' = [charges EXCEPT ![u][l] = @ + 1]
    BY <1>10, InitializeMoves
  <2>2. usage[u][l] \in Seq(Nat) BY <2>1, Typed
  <2>3. rows \in Seq(Nat) BY <2>2, Starts
  <2> HIDE DEF u, l, rows
  <2>4. usage' \in [QuotaUsers -> [LimitIds -> Seq(Nat)]]
    <3>1. CASE UNCHANGED usage BY <3>1, Typed
    <3>2. CASE usage' = [usage EXCEPT ![u][l] = rows] BY Zenon, <2>1, <2>3, <3>2, UsageStep
    <3> QED BY <2>1, <3>1, <3>2
  <2>5. charges' \in [QuotaUsers -> [LimitIds -> Nat]]
    <3>1. CASE UNCHANGED charges BY <3>1, Typed
    <3>2. CASE charges' = [charges EXCEPT ![u][l] = @ + 1] BY Zenon, <2>1, <3>2, ChargesStep
    <3> QED BY <2>1, <3>1, <3>2
  <2> QED BY <2>1, <2>4, <2>5
<1> QED
  <2>1. CASE \E u \in QuotaUsers, res \in Resources, m \in Methods : Enter(g, u, res, m)
    BY <1>2, <1>3, <2>1
  <2> QED BY <1>4, <1>5, <1>6, <1>7, <1>8, <1>9, <1>10, <2>1 DEF GuardStep

-----------------------------------------------------------------------------
(* The steps of a purchase, and the end of a subscription.                   *)

(* q is the purchase after the step. *)
Buys(b, q) ==
  /\ q \in Purchase /\ purchase' = [purchase EXCEPT ![b] = q]
  /\ q.pc # "new" => q.user \in QuotaUsers
  /\ UNCHANGED purchaseOnly
  /\ ops' \in Nat
  /\ subs' \in [QuotaUsers -> Seq(Subscription)]
  /\ crowded \subseteq crowded' /\ crowded' \subseteq QuotaUsers

LEMMA BuyFacts ==
  ASSUME Inv, NEW b \in Purchases, NEW q, Buys(b, q)
  PROVE  /\ purchase' \in [Purchases -> Purchase] /\ purchase'[b] = q
         /\ \A c \in Purchases : c # b => purchase'[c] = purchase[c]
BY Typed DEF Buys

LEMMA SubscribeBuys ==
  ASSUME Inv, NEW b \in Purchases, NEW u \in Buyers, NEW p \in Plans, Subscribe(b, u, p)
  PROVE  \E q : /\ Buys(b, q) /\ q.user = u /\ q.plan = p
                /\ q.pc = (IF plans[p] = FreeSlug THEN "check" ELSE "create")
                /\ plans[p] \in PlanSlugs /\ UNCHANGED subs
                /\ (\E c \in Purchases : purchase[c].pc \in {"check", "create"}
                                           /\ purchase[c].user = u) => u \in crowded'
<1> DEFINE q == [pc |-> IF plans[p] = FreeSlug THEN "check" ELSE "create", user |-> u, plan |-> p]
<1>1. q \in Purchase /\ q.user \in QuotaUsers BY Constants DEF Purchase
<1>2. crowded \subseteq crowded' /\ crowded' \subseteq QuotaUsers
  BY Typed, Constants DEF Subscribe
<1>3. ops' \in Nat BY Typed DEF Subscribe, Begin
<1>4. Buys(b, q) BY <1>1, <1>2, <1>3, Typed DEF Subscribe, Buys
<1>5. q.user = u /\ q.plan = p /\ q.pc = (IF plans[p] = FreeSlug THEN "check" ELSE "create")
  OBVIOUS
<1> QED BY <1>4, <1>5 DEF Subscribe, Exists

LEMMA CheckFreeBuys ==
  ASSUME Inv, NEW b \in Purchases, CheckFree(b)
  PROVE  /\ purchase[b].pc = "check" /\ UNCHANGED subs
         /\ \E q : /\ Buys(b, q)
                   /\ \/ q.pc = "new"
                      \/ /\ q = [purchase[b] EXCEPT !.pc = "create"]
                         /\ GetSubscriptionByUserAndPackage(q.user, q.plan) = {}
<1>1. purchase[b].pc = "check" /\ purchase[b].user \in QuotaUsers BY Typed DEF CheckFree
<1>2. crowded \subseteq crowded' /\ crowded' \subseteq QuotaUsers
  BY <1>1, FailsType DEF CheckFree
<1>3. ops' \in Nat /\ subs' \in [QuotaUsers -> Seq(Subscription)] /\ UNCHANGED subs
  BY Typed DEF CheckFree
<1>4. ASSUME Bought(b) PROVE Buys(b, NoPurchase) /\ NoPurchase.pc = "new"
  BY <1>2, <1>3, <1>4, PassedType DEF Buys, Bought, CheckFree
<1> DEFINE q == [purchase[b] EXCEPT !.pc = "create"]
<1>5. /\ q \in Purchase /\ q.pc = "create" /\ q.user \in QuotaUsers
      /\ q.user = purchase[b].user /\ q.plan = purchase[b].plan
  BY <1>1, Typed DEF Purchase
<1>6. ASSUME purchase' = [purchase EXCEPT ![b].pc = "create"] PROVE Buys(b, q)
  BY <1>2, <1>3, <1>5, <1>6, Typed DEF Buys, CheckFree
<1>7. \/ Bought(b)
      \/ /\ purchase' = [purchase EXCEPT ![b].pc = "create"]
         /\ GetSubscriptionByUserAndPackage(purchase[b].user, purchase[b].plan) = {}
  BY DEF CheckFree
<1> HIDE DEF q
<1> QED BY <1>1, <1>3, <1>4, <1>5, <1>6, <1>7 DEF q

LEMMA CreateBuys ==
  ASSUME Inv, NEW b \in Purchases, CreateSubscription(b)
  PROVE  LET u == purchase[b].user  p == purchase[b].plan
         IN  /\ purchase[b].pc = "create" /\ u \in QuotaUsers /\ p \in Plans
             /\ Buys(b, NoPurchase)
             /\ \/ UNCHANGED subs
                \/ subs' = [subs EXCEPT ![u] = Append(subs[u], NewSubscription(p))]
<1> DEFINE u == purchase[b].user  p == purchase[b].plan
<1>1. purchase[b].pc = "create" /\ u \in QuotaUsers /\ p \in Plans
  BY Typed DEF CreateSubscription, Purchase
<1>2. crowded \subseteq crowded' /\ crowded' \subseteq QuotaUsers
  BY <1>1, FailsType DEF CreateSubscription
<1>3. ops' \in Nat BY Typed DEF CreateSubscription
<1>4. \/ UNCHANGED subs
      \/ subs' = [subs EXCEPT ![u] = Append(subs[u], NewSubscription(p))]
  BY DEF CreateSubscription
<1>5. subs' \in [QuotaUsers -> Seq(Subscription)]
  <2>1. subs[u] \in Seq(Subscription) /\ NewSubscription(p) \in Subscription
    BY <1>1, Typed, NewSubscriptionType
  <2>2. Append(subs[u], NewSubscription(p)) \in Seq(Subscription) BY <2>1, AppendProperties
  <2> HIDE DEF u, p
  <2> QED BY <1>1, <1>4, <2>2, Typed
<1>6. Buys(b, NoPurchase)
  BY <1>2, <1>3, <1>5, PassedType DEF Buys, Bought, CreateSubscription
<1> QED BY <1>1, <1>4, <1>6

LEMMA PurchaseType ==
  ASSUME Inv, NEW b \in Purchases, PurchaseStep(b)
  PROVE  Inv'
<1>1. PICK q : Buys(b, q)
  <2>1. CASE CheckFree(b) BY <2>1, CheckFreeBuys
  <2>2. CASE CreateSubscription(b) BY <2>2, CreateBuys
  <2>3. CASE \E u \in Buyers, p \in Plans : Subscribe(b, u, p) BY <2>3, SubscribeBuys
  <2> QED BY <2>1, <2>2, <2>3 DEF PurchaseStep
<1>2. /\ purchase' \in [Purchases -> Purchase] /\ purchase'[b] = q
      /\ \A c \in Purchases : c # b => purchase'[c] = purchase[c]
  BY <1>1, BuyFacts
<1>3. \A c \in Purchases : purchase'[c].pc # "new" => purchase'[c].user \in QuotaUsers
  BY <1>1, <1>2, Typed DEF Buys
<1>4. QuotaTypeOK'
  BY <1>1, <1>2, <1>3, Typed DEF Buys, purchaseOnly, QuotaTypeOK, AtWork
<1>5. \A e \in Edits : Asks(e)' BY <1>1, Typed DEF Buys, purchaseOnly, Asks
<1> QED BY <1>4, <1>5 DEF Inv

LEMMA LapseFacts ==
  ASSUME Inv, NEW u \in QuotaUsers, NEW i \in DOMAIN subs[u], Lapse(u, i)
  PROVE  /\ UNCHANGED <<purchaseOnly, purchase, crowded>> /\ ops' \in Nat
         /\ subs' \in [QuotaUsers -> Seq(Subscription)]
         /\ \A v \in QuotaUsers : v # u => subs'[v] = subs[v]
         /\ DOMAIN subs'[u] = DOMAIN subs[u]
         /\ \A j \in DOMAIN subs[u] : subs'[u][j].plan = subs[u][j].plan
                                      /\ (subs'[u][j].state # "deleted" => subs[u][j].state # "deleted")
<1> DEFINE s == subs[u]  row == [s[i] EXCEPT !.state = "ended"]  t == [s EXCEPT ![i] = row]
<1>1. s \in Seq(Subscription) /\ i \in 1..Len(s) /\ DOMAIN s = 1..Len(s)
  <2>1. s \in Seq(Subscription) BY Typed
  <2> QED BY <2>1, LenProperties
<1>2. s[i] \in Subscription BY <1>1, ElementOfSeq
<1>3. row \in Subscription /\ row.plan = s[i].plan BY <1>2 DEF Subscription
<1>4. /\ t \in Seq(Subscription) /\ Len(t) = Len(s)
      /\ \A j \in 1..Len(s) : t[j] = IF j = i THEN row ELSE s[j]
  <2> HIDE DEF s, row
  <2> QED BY <1>1, <1>3, ExceptSeq
<1>5. DOMAIN t = DOMAIN s OBVIOUS
<1>6. subs' = [subs EXCEPT ![u] = t] BY Typed DEF Lapse
<1>7. s[i].state = "active" BY DEF Lapse
<1>8. UNCHANGED <<purchaseOnly, purchase, crowded>> /\ ops' \in Nat BY Typed DEF Lapse, Begin
<1> HIDE DEF t, row
<1>9. subs' \in [QuotaUsers -> Seq(Subscription)] /\ subs'[u] = t
      /\ \A v \in QuotaUsers : v # u => subs'[v] = subs[v]
  BY <1>4, <1>6, Typed
<1> QED BY <1>1, <1>3, <1>4, <1>5, <1>7, <1>8, <1>9

LEMMA LapseType ==
  ASSUME Inv, NEW u \in QuotaUsers, NEW i \in DOMAIN subs[u], Lapse(u, i)
  PROVE  Inv'
<1>1. /\ UNCHANGED <<purchaseOnly, purchase, crowded>> /\ ops' \in Nat
      /\ subs' \in [QuotaUsers -> Seq(Subscription)]
  BY LapseFacts
<1>2. QuotaTypeOK' BY <1>1, Typed DEF purchaseOnly, QuotaTypeOK, AtWork
<1>3. \A e \in Edits : Asks(e)' BY <1>1, Typed DEF purchaseOnly, Asks
<1> QED BY <1>2, <1>3 DEF Inv

-----------------------------------------------------------------------------
(* The steps of the package service.                                         *)

(* A row of a limit is written once; after that only its state changes. *)
Keeps(l) == \/ limits'[l] = limits[l]
            \/ limits[l].state = "unborn"
            \/ limits'[l] = [limits[l] EXCEPT !.state = "removed"]

(* Counters are left alone or deleted with their limit. *)
Clears(l) == \/ \A u \in QuotaUsers : usage'[u][l] = usage[u][l]
             \/ /\ \A u \in QuotaUsers : usage'[u][l] = <<>>
                /\ limits[l].state = "unborn" \/ limits'[l].state = "removed"

(* Only a package that counts as renamed gets another slug than the free one. *)
Names(p) == p \notin renamed' =>
              /\ p \notin renamed
              /\ plans'[p] = plans[p] \/ plans'[p] \in {FreeSlug, "removed"}

(* Subscriptions are not moved to another plan and do not come back. *)
StaysSold(u) ==
  /\ DOMAIN subs'[u] = DOMAIN subs[u]
  /\ \A j \in DOMAIN subs[u] : /\ subs'[u][j].plan = subs[u][j].plan
                               /\ subs'[u][j].state # "deleted" => subs[u][j].state # "deleted"

Puts(e) ==
  /\ UNCHANGED editOnly /\ ops' \in Nat
  /\ limits' \in [LimitIds -> Limit] /\ \A l \in LimitIds : Keeps(l) /\ Clears(l)
  /\ usage' \in [QuotaUsers -> [LimitIds -> Seq(Nat)]]
  /\ plans' \in [Plans -> PlanSlugs \cup {"unborn", "removed"}]
  /\ renamed' \subseteq Plans /\ \A p \in Plans : Names(p)
  /\ subs' \in [QuotaUsers -> Seq(Subscription)] /\ \A u \in QuotaUsers : StaysSold(u)
  /\ \E q \in Edit : /\ edit' = [edit EXCEPT ![e] = q]
                     /\ q.pc = "title" => q.wish \in Wishes \cup {Kept}
                     /\ q.pc \in {"delete", "wait", "insert"} => q.wish \in Wishes

LEMMA LimitsSame ==
  ASSUME Inv, UNCHANGED <<limits, usage>>
  PROVE  /\ limits' \in [LimitIds -> Limit] /\ \A l \in LimitIds : Keeps(l) /\ Clears(l)
         /\ usage' \in [QuotaUsers -> [LimitIds -> Seq(Nat)]]
BY Typed DEF Keeps, Clears

LEMMA PlansSame ==
  ASSUME Inv, UNCHANGED <<plans, renamed>>
  PROVE  /\ plans' \in [Plans -> PlanSlugs \cup {"unborn", "removed"}]
         /\ renamed' \subseteq Plans /\ \A p \in Plans : Names(p)
BY Typed DEF Names

LEMMA SubsSame ==
  ASSUME Inv, UNCHANGED subs
  PROVE  subs' \in [QuotaUsers -> Seq(Subscription)] /\ \A u \in QuotaUsers : StaysSold(u)
BY Typed DEF StaysSold

LEMMA EditedAsks ==
  ASSUME NEW e \in Edits, Edited(e)
  PROVE  \E q \in Edit : /\ edit' = [edit EXCEPT ![e] = q]
                         /\ q.pc = "title" => q.wish \in Wishes \cup {Kept}
                         /\ q.pc \in {"delete", "wait", "insert"} => q.wish \in Wishes
BY PassedType DEF Edited

LEMMA CalledPlans ==
  ASSUME Inv, NEW p \in Plans, NEW slug \in PlanSlugs, Called(p, slug)
  PROVE  /\ plans' \in [Plans -> PlanSlugs \cup {"unborn", "removed"}]
         /\ renamed' \subseteq Plans /\ \A q \in Plans : Names(q)
<1>1. /\ plans' \in [Plans -> PlanSlugs \cup {"unborn", "removed"}]
      /\ plans'[p] = slug /\ \A q \in Plans : q # p => plans'[q] = plans[q]
  BY Typed DEF Called
<1>2. renamed' \subseteq Plans /\ renamed \subseteq renamed' /\ (slug # FreeSlug => p \in renamed')
  BY Typed DEF Called
<1> QED BY <1>1, <1>2 DEF Names

LEMMA ReplacedLimits ==
  ASSUME Inv, NEW p \in Plans, NEW gone \in SUBSET LimitIds, NEW ids,
         \A x \in DOMAIN ids : /\ x.res \in Resources /\ x.count \in Nat \cup {Unlimited}
                               /\ ids[x] \in LimitIds /\ limits[ids[x]].state = "unborn",
         limits' = Replaced(p, gone, ids)
  PROVE  /\ limits' \in [LimitIds -> Limit] /\ \A l \in LimitIds : Keeps(l)
         /\ \A l \in gone : limits[l].state = "unborn" \/ limits'[l].state = "removed"
<1>1. ASSUME NEW l \in LimitIds
      PROVE  /\ Replaced(p, gone, ids)[l] \in Limit
             /\ \/ Replaced(p, gone, ids)[l] = limits[l] /\ l \notin gone
                \/ limits[l].state = "unborn"
                \/ Replaced(p, gone, ids)[l] = [limits[l] EXCEPT !.state = "removed"]
  <2>1. CASE \E x \in DOMAIN ids : ids[x] = l
    <3> DEFINE y == CHOOSE x \in DOMAIN ids : ids[x] = l
    <3>1. y \in DOMAIN ids /\ ids[y] = l BY <2>1
    <3>2. Replaced(p, gone, ids)[l] = Row(p, y) BY <2>1 DEF Replaced
    <3> HIDE DEF y
    <3>3. Row(p, y) \in Limit BY <3>1, RowType
    <3> QED BY <3>1, <3>2, <3>3
  <2>2. CASE l \in gone /\ ~\E x \in DOMAIN ids : ids[x] = l
    <3>1. Replaced(p, gone, ids)[l] = [limits[l] EXCEPT !.state = "removed"] BY <2>2 DEF Replaced
    <3>2. limits[l] \in Limit BY Typed
    <3>3. [limits[l] EXCEPT !.state = "removed"] \in Limit BY <3>2 DEF Limit
    <3> QED BY <3>1, <3>3
  <2>3. CASE l \notin gone /\ ~\E x \in DOMAIN ids : ids[x] = l
    <3>1. Replaced(p, gone, ids)[l] = limits[l] BY <2>3 DEF Replaced
    <3> QED BY <2>3, <3>1, Typed
  <2> QED BY <2>1, <2>2, <2>3
<1>2. \A l \in LimitIds : Keeps(l) BY <1>1 DEF Keeps
<1>3. Replaced(p, gone, ids) = [l \in LimitIds |-> Replaced(p, gone, ids)[l]]
  BY DEF Replaced
<1>4. limits' \in [LimitIds -> Limit] BY <1>1, <1>3
<1>5. ASSUME NEW l \in gone PROVE limits[l].state = "unborn" \/ limits'[l].state = "removed"
  <2>1. limits'[l] = Replaced(p, gone, ids)[l] OBVIOUS
  <2>2. [limits[l] EXCEPT !.state = "removed"].state = "removed" BY Typed DEF Limit
  <2>3. l \in LimitIds OBVIOUS
  <2> QED BY <1>1, <2>1, <2>2, <2>3
<1> QED BY <1>2, <1>4, <1>5

LEMMA NewIdsFacts ==
  ASSUME Inv, NEW wish \in Wishes, NEW ids \in NewIds(wish)
  PROVE  \A x \in DOMAIN ids : /\ x.res \in Resources /\ x.count \in Nat \cup {Unlimited}
                               /\ ids[x] \in LimitIds /\ limits[ids[x]].state = "unborn"
<1>1. DOMAIN ids = wish
      /\ \A x \in wish : ids[x] \in {l \in LimitIds : limits[l].state = "unborn"}
  BY DEF NewIds
<1> QED BY <1>1, Constants

LEMMA CascadeClears ==
  ASSUME Inv, NEW gone \in SUBSET LimitIds, usage' = Cascade(gone),
         \A l \in gone : limits[l].state = "unborn" \/ limits'[l].state = "removed"
  PROVE  usage' \in [QuotaUsers -> [LimitIds -> Seq(Nat)]] /\ \A l \in LimitIds : Clears(l)
<1>1. <<>> \in Seq(Nat) OBVIOUS
<1>2. usage' \in [QuotaUsers -> [LimitIds -> Seq(Nat)]]
  <2>1. ASSUME NEW u \in QuotaUsers, NEW l \in LimitIds
        PROVE  (IF l \in gone THEN <<>> ELSE usage[u][l]) \in Seq(Nat)
    BY <1>1, Typed
  <2> QED BY <2>1 DEF Cascade
<1>3. \A u \in QuotaUsers, l \in LimitIds :
        usage'[u][l] = IF l \in gone THEN <<>> ELSE usage[u][l]
  BY DEF Cascade
<1> QED BY <1>2, <1>3 DEF Clears

LEMMA CreatePackagePuts ==
  ASSUME Inv, NEW e \in Edits, NEW p \in Plans, NEW slug \in PlanSlugs, NEW wish \in Wishes,
         CreatePackage(e, p, slug, wish)
  PROVE  Puts(e)
<1>1. PICK ids \in NewIds(wish) : limits' = Replaced(p, {}, ids) BY DEF CreatePackage
<1>2. limits' \in [LimitIds -> Limit] /\ \A l \in LimitIds : Keeps(l)
  BY <1>1, NewIdsFacts, ReplacedLimits
<1>3. usage' \in [QuotaUsers -> [LimitIds -> Seq(Nat)]] /\ \A l \in LimitIds : Clears(l)
  BY Typed DEF CreatePackage, Clears
<1>4. ops' \in Nat BY Typed DEF CreatePackage, Begin
<1> QED BY <1>2, <1>3, <1>4, CalledPlans, SubsSame, EditedAsks DEF CreatePackage, Puts

LEMMA UpdatePackagePuts ==
  ASSUME Inv, NEW e \in Edits, NEW p \in Plans, NEW wish \in Wishes \cup {Kept}, NEW sets \in Settings,
         wish \in Wishes \/ sets # "nothing", UpdatePackage(e, p, wish, sets)
  PROVE  Puts(e)
<1> DEFINE q == [NoEdit EXCEPT !.plan = p, !.wish = wish,
                   !.sets = IF p \in SystemPlans /\ sets # "nothing" THEN "price" ELSE sets,
                   !.pc = IF sets # "nothing" THEN "title" ELSE "delete"]
<1>1. q \in Edit /\ q.wish = wish /\ q.pc = (IF sets # "nothing" THEN "title" ELSE "delete")
  BY PassedType DEF Edit
<1>2. edit' = [edit EXCEPT ![e] = q] BY DEF UpdatePackage
<1>3. ops' \in Nat BY Typed DEF UpdatePackage, Begin
<1> HIDE DEF q
<1>4. \E r \in Edit : /\ edit' = [edit EXCEPT ![e] = r]
                      /\ r.pc = "title" => r.wish \in Wishes \cup {Kept}
                      /\ r.pc \in {"delete", "wait", "insert"} => r.wish \in Wishes
  BY <1>1, <1>2
<1> QED BY <1>3, <1>4, LimitsSame, PlansSame, SubsSame DEF UpdatePackage, Puts

LEMMA SetRowPlans ==
  ASSUME Inv, NEW e \in Edits, Exists(edit[e].plan), SetRow(e)
  PROVE  /\ plans' \in [Plans -> PlanSlugs \cup {"unborn", "removed"}]
         /\ renamed' \subseteq Plans /\ \A q \in Plans : Names(q)
<1>1. edit[e].plan \in Plans BY Typed DEF Edit
<1> QED BY <1>1, CalledPlans DEF SetRow, Exists

LEMMA RenamePackagePuts ==
  ASSUME Inv, NEW e \in Edits, RenamePackage(e)
  PROVE  Puts(e)
<1>1. /\ plans' \in [Plans -> PlanSlugs \cup {"unborn", "removed"}]
      /\ renamed' \subseteq Plans /\ \A q \in Plans : Names(q)
  BY SetRowPlans, PlansSame DEF RenamePackage
<1>2. \E r \in Edit : /\ edit' = [edit EXCEPT ![e] = r]
                      /\ r.pc = "title" => r.wish \in Wishes \cup {Kept}
                      /\ r.pc \in {"delete", "wait", "insert"} => r.wish \in Wishes
  <2>1. CASE Edited(e) BY <2>1, EditedAsks
  <2>2. CASE edit[e].wish # Kept /\ edit' = [edit EXCEPT ![e].pc = "delete"]
    <3> DEFINE r == [edit[e] EXCEPT !.pc = "delete"]
    <3>1. edit' = [edit EXCEPT ![e] = r] BY <2>2, Typed
    <3>2. edit[e] \in Edit /\ edit[e].wish \in Wishes BY <2>2, Typed DEF RenamePackage, Asks
    <3>3. r \in Edit /\ r.pc = "delete" /\ r.wish \in Wishes BY <3>2 DEF Edit
    <3> QED BY <3>1, <3>3
  <2> QED BY <2>1, <2>2 DEF RenamePackage
<1>3. ops' \in Nat BY Typed DEF RenamePackage
<1> QED BY <1>1, <1>2, <1>3, LimitsSame, SubsSame DEF RenamePackage, Puts

LEMMA StartDeletePuts ==
  ASSUME Inv, NEW e \in Edits, StartDelete(e)
  PROVE  Puts(e)
<1> DEFINE r == [edit[e] EXCEPT !.pc = "wait", !.snap = LimitsOf(edit[e].plan)]
<1>1. edit' = [edit EXCEPT ![e] = r] BY Typed DEF StartDelete
<1>2. edit[e] \in Edit /\ edit[e].wish \in Wishes BY Typed DEF StartDelete, Asks
<1>3. LimitsOf(edit[e].plan) \in SUBSET LimitIds BY DEF LimitsOf
<1>4. r \in Edit /\ r.pc = "wait" /\ r.wish \in Wishes BY <1>2, <1>3 DEF Edit
<1>5. ops' \in Nat BY Typed DEF StartDelete
<1> HIDE DEF r
<1>6. \E q \in Edit : /\ edit' = [edit EXCEPT ![e] = q]
                      /\ q.pc = "title" => q.wish \in Wishes \cup {Kept}
                      /\ q.pc \in {"delete", "wait", "insert"} => q.wish \in Wishes
  BY <1>1, <1>4
<1> QED BY <1>5, <1>6, LimitsSame, PlansSame, SubsSame DEF StartDelete, Puts

LEMMA DeleteLimitsPuts ==
  ASSUME Inv, NEW e \in Edits, DeleteLimits(e)
  PROVE  Puts(e)
<1> DEFINE gone == edit[e].snap \cap LimitsOf(edit[e].plan)
           r == [edit[e] EXCEPT !.pc = "insert", !.snap = {}, !.gone = gone]
<1>1. edit' = [edit EXCEPT ![e] = r] BY Typed DEF DeleteLimits
<1>2. edit[e] \in Edit /\ edit[e].wish \in Wishes BY Typed DEF DeleteLimits, Asks
<1>3. gone \in SUBSET LimitIds BY DEF LimitsOf
<1> HIDE DEF gone
<1>4. r \in Edit /\ r.pc = "insert" /\ r.wish \in Wishes BY <1>2, <1>3 DEF Edit
<1>5. ops' \in Nat BY Typed DEF DeleteLimits
<1> HIDE DEF r
<1>6. \E q \in Edit : /\ edit' = [edit EXCEPT ![e] = q]
                      /\ q.pc = "title" => q.wish \in Wishes \cup {Kept}
                      /\ q.pc \in {"delete", "wait", "insert"} => q.wish \in Wishes
  BY <1>1, <1>4
<1> QED BY <1>5, <1>6, LimitsSame, PlansSame, SubsSame DEF DeleteLimits, Puts

LEMMA ReplaceLimitsPuts ==
  ASSUME Inv, NEW e \in Edits, ReplaceLimits(e)
  PROVE  Puts(e)
<1>1. UNCHANGED editOnly /\ ops' \in Nat /\ UNCHANGED subs /\ Edited(e) BY Typed DEF ReplaceLimits
<1> DEFINE p == edit[e].plan  gone == edit[e].gone
<1>2. p \in Plans /\ gone \in SUBSET LimitIds BY Typed DEF Edit
<1>3. CASE Exists(p) /\ SetRow(e) /\ usage' = Cascade(gone)
           /\ \E ids \in NewIds(edit[e].wish) : limits' = Replaced(p, gone, ids)
  <2>1. PICK ids \in NewIds(edit[e].wish) : limits' = Replaced(p, gone, ids) BY <1>3
  <2>2. edit[e].wish \in Wishes BY Typed DEF ReplaceLimits, Asks
  <2>3. /\ limits' \in [LimitIds -> Limit] /\ \A l \in LimitIds : Keeps(l)
        /\ \A l \in gone : limits[l].state = "unborn" \/ limits'[l].state = "removed"
    <3>1. \A x \in DOMAIN ids : /\ x.res \in Resources /\ x.count \in Nat \cup {Unlimited}
                                /\ ids[x] \in LimitIds /\ limits[ids[x]].state = "unborn"
      BY <2>2, NewIdsFacts
    <3> HIDE DEF p, gone
    <3> QED BY <1>2, <2>1, <3>1, ReplacedLimits
  <2>4. usage' \in [QuotaUsers -> [LimitIds -> Seq(Nat)]] /\ \A l \in LimitIds : Clears(l)
    BY <1>2, <1>3, <2>3, CascadeClears
  <2> QED BY <1>1, <1>3, <2>3, <2>4, SetRowPlans, SubsSame, EditedAsks DEF Puts
<1>4. CASE UNCHANGED <<plans, limits, usage, renamed>>
  BY <1>1, <1>4, LimitsSame, PlansSame, SubsSame, EditedAsks DEF Puts
<1> QED BY <1>3, <1>4 DEF ReplaceLimits

LEMMA RemovePackagePuts ==
  ASSUME Inv, NEW e \in Edits, NEW p \in Plans, RemovePackage(e, p)
  PROVE  Puts(e)
<1> DEFINE q == [NoEdit EXCEPT !.plan = p, !.pc = "remove"]
<1>1. q \in Edit /\ q.pc = "remove" BY PassedType DEF Edit
<1>2. edit' = [edit EXCEPT ![e] = q] BY DEF RemovePackage
<1>3. ops' \in Nat BY Typed DEF RemovePackage, Begin
<1> HIDE DEF q
<1>4. \E r \in Edit : /\ edit' = [edit EXCEPT ![e] = r]
                      /\ r.pc = "title" => r.wish \in Wishes \cup {Kept}
                      /\ r.pc \in {"delete", "wait", "insert"} => r.wish \in Wishes
  BY <1>1, <1>2
<1> QED BY <1>3, <1>4, LimitsSame, PlansSame, SubsSame DEF RemovePackage, Puts

LEMMA DeletePackagePuts ==
  ASSUME Inv, NEW e \in Edits, DeletePackage(e)
  PROVE  Puts(e)
<1> DEFINE p == edit[e].plan  gone == LimitsOf(p)  ids == [x \in {} |-> NoLimit]
<1>1. p \in Plans /\ gone \in SUBSET LimitIds BY Typed DEF Edit, LimitsOf
<1>2. UNCHANGED editOnly /\ ops' \in Nat /\ Edited(e) BY Typed DEF DeletePackage
<1>3. /\ limits' \in [LimitIds -> Limit] /\ \A l \in LimitIds : Keeps(l)
      /\ \A l \in gone : limits[l].state = "unborn" \/ limits'[l].state = "removed"
  <2>1. DOMAIN ids = {} OBVIOUS
  <2>2. limits' = Replaced(p, gone, ids) BY DEF DeletePackage
  <2> HIDE DEF p, gone, ids
  <2> QED BY <1>1, <2>1, <2>2, ReplacedLimits
<1>4. usage' \in [QuotaUsers -> [LimitIds -> Seq(Nat)]] /\ \A l \in LimitIds : Clears(l)
  BY <1>1, <1>3, CascadeClears DEF DeletePackage
<1>5. /\ plans' \in [Plans -> PlanSlugs \cup {"unborn", "removed"}]
      /\ renamed' \subseteq Plans /\ \A q \in Plans : Names(q)
  <2>1. plans' = [plans EXCEPT ![p] = "removed"] /\ renamed' = renamed BY DEF DeletePackage
  <2> HIDE DEF p
  <2> QED BY <1>1, <2>1, Typed DEF Names
<1>6. ASSUME NEW u \in QuotaUsers
      PROVE  subs'[u] \in Seq(Subscription) /\ StaysSold(u)
  <2> DEFINE s == subs[u]
             t == [i \in DOMAIN s |-> IF s[i].plan = p THEN [s[i] EXCEPT !.state = "deleted"] ELSE s[i]]
  <2>1. subs'[u] = t BY DEF DeletePackage
  <2>2. s \in Seq(Subscription) /\ Len(s) \in Nat /\ DOMAIN s = 1..Len(s)
    <3>1. s \in Seq(Subscription) BY Typed
    <3> QED BY <3>1, LenProperties
  <2>3. \A i \in 1..Len(s) : s[i] \in Subscription BY <2>2, ElementOfSeq
  <2> HIDE DEF s
  <2>4. ASSUME NEW i \in 1..Len(s)
        PROVE  /\ t[i] \in Subscription /\ t[i].plan = s[i].plan
               /\ t[i].state # "deleted" => s[i].state # "deleted"
    <3>1. s[i] \in Subscription BY <2>3
    <3>2. [s[i] EXCEPT !.state = "deleted"] \in Subscription
          /\ [s[i] EXCEPT !.state = "deleted"].plan = s[i].plan
          /\ [s[i] EXCEPT !.state = "deleted"].state = "deleted"
      BY <3>1 DEF Subscription
    <3>3. t[i] = IF s[i].plan = p THEN [s[i] EXCEPT !.state = "deleted"] ELSE s[i] BY <2>2
    <3> HIDE DEF t
    <3> QED BY <3>1, <3>2, <3>3
  <2>5. t \in Seq(Subscription) /\ DOMAIN t = DOMAIN s
    <3>1. DOMAIN t = 1..Len(s) /\ t = [i \in 1..Len(s) |-> t[i]] BY <2>2
    <3> HIDE DEF t
    <3>2. t \in [1..Len(s) -> Subscription] BY <2>4, <3>1
    <3> QED BY <2>2, <3>1, <3>2
  <2> HIDE DEF t
  <2> QED BY <2>1, <2>2, <2>4, <2>5 DEF StaysSold, s
<1>7. subs' \in [QuotaUsers -> Seq(Subscription)]
  <2>1. subs' = [u \in QuotaUsers |-> subs'[u]] BY DEF DeletePackage
  <2> QED BY <1>6, <2>1
<1> QED BY <1>2, <1>3, <1>4, <1>5, <1>6, <1>7, EditedAsks DEF Puts

LEMMA EditPuts ==
  ASSUME Inv, NEW e \in Edits, EditStep(e)
  PROVE  Puts(e)
<1>1. Settings \ {"nothing"} \subseteq Settings OBVIOUS
<1>2. ASSUME NEW p \in Plans, NEW wish \in Wishes, NEW slug \in PlanSlugs, CreatePackage(e, p, slug, wish)
      PROVE  Puts(e)
  BY <1>2, CreatePackagePuts
<1>3. ASSUME NEW p \in Plans, NEW wish \in Wishes, NEW sets \in Settings, UpdatePackage(e, p, wish, sets)
      PROVE  Puts(e)
  BY <1>3, UpdatePackagePuts
<1>4. ASSUME NEW p \in Plans, NEW sets \in Settings \ {"nothing"}, UpdatePackage(e, p, Kept, sets)
      PROVE  Puts(e)
  BY <1>4, UpdatePackagePuts
<1>5. ASSUME NEW p \in Plans, RemovePackage(e, p) PROVE Puts(e) BY <1>5, RemovePackagePuts
<1>6. CASE RenamePackage(e) BY <1>6, RenamePackagePuts
<1>7. CASE StartDelete(e) BY <1>7, StartDeletePuts
<1>8. CASE DeleteLimits(e) BY <1>8, DeleteLimitsPuts
<1>9. CASE ReplaceLimits(e) BY <1>9, ReplaceLimitsPuts
<1>10. CASE DeletePackage(e) BY <1>10, DeletePackagePuts
<1> QED BY <1>2, <1>3, <1>4, <1>5, <1>6, <1>7, <1>8, <1>9, <1>10 DEF EditStep

LEMMA EditType ==
  ASSUME Inv, NEW e \in Edits, EditStep(e)
  PROVE  Inv'
<1>1. Puts(e) BY EditPuts
<1>2. PICK q \in Edit : /\ edit' = [edit EXCEPT ![e] = q]
                        /\ q.pc = "title" => q.wish \in Wishes \cup {Kept}
                        /\ q.pc \in {"delete", "wait", "insert"} => q.wish \in Wishes
  BY <1>1 DEF Puts
<1>3. edit' \in [Edits -> Edit] /\ edit'[e] = q /\ \A f \in Edits : f # e => edit'[f] = edit[f]
  BY <1>2, Typed
<1>4. \A f \in Edits : Asks(f)' BY <1>2, <1>3, Typed DEF Asks
<1>5. QuotaTypeOK' BY <1>1, <1>3, Typed DEF Puts, editOnly, QuotaTypeOK, AtWork
<1> QED BY <1>4, <1>5 DEF Inv

-----------------------------------------------------------------------------
(* Types and calls, put together.                                            *)

LEMMA InitInv == QuotaInit => Inv
<1> SUFFICES ASSUME QuotaInit PROVE Inv OBVIOUS
<1>1. plans \in [Plans -> PlanSlugs \cup {"unborn", "removed"}]
  <2>1. plans \in [Plans -> PlanSlugs \cup {"unborn"}] BY DEF QuotaInit
  <2> QED BY <2>1
<1>2. limits \in [LimitIds -> Limit]
  <2>1. ASSUME NEW l \in DOMAIN FirstLimits
        PROVE  Row(FirstLimits[l].plan, FirstLimits[l]) \in Limit
    BY QuotaAssumption, Constants, RowType
  <2> QED BY <2>1, BlankType DEF QuotaInit
<1>3. subs \in [QuotaUsers -> Seq(Subscription)]
  <2>1. <<NewSubscription(FreePlan)>> \in Seq(Subscription) /\ <<>> \in Seq(Subscription)
    BY Constants, NewSubscriptionType
  <2>2. subs \in [QuotaUsers -> {<<>>, <<NewSubscription(FreePlan)>>}] BY DEF QuotaInit
  <2> QED BY <2>1, <2>2
<1>4. PICK used \in SUBSET QuotaUsers :
        /\ usage = [u \in QuotaUsers |-> [l \in LimitIds |->
                      IF u \in used /\ UsedOnce(l) THEN <<1>> ELSE <<>>]]
        /\ charges = [u \in QuotaUsers |-> [l \in LimitIds |->
                        IF u \in used /\ UsedOnce(l) THEN 1 ELSE 0]]
  BY DEF QuotaInit
<1>5. usage \in [QuotaUsers -> [LimitIds -> Seq(Nat)]]
  <2>1. <<1>> \in Seq(Nat) /\ <<>> \in Seq(Nat) OBVIOUS
  <2> QED BY <1>4, <2>1
<1>6. charges \in [QuotaUsers -> [LimitIds -> Nat]]
  <2>1. 1 \in Nat /\ 0 \in Nat OBVIOUS
  <2> QED BY <1>4, <2>1
<1>7. /\ guard = [g \in Gated |-> Passed] /\ purchase = [b \in Purchases |-> NoPurchase]
      /\ edit = [e \in Edits |-> NoEdit] /\ ops = 0
      /\ renamed = SeedPlans \ {FreePlan} /\ crowded = {}
  BY DEF QuotaInit
<1>8. \A g \in Gated : guard[g] \in Guard /\ guard[g].pc = "idle" BY <1>7, PassedType
<1>9. \A b \in Purchases : purchase[b] \in Purchase /\ purchase[b].pc = "new" BY <1>7, PassedType
<1>10. \A e \in Edits : edit[e] \in Edit /\ edit[e].pc = "new" BY <1>7, PassedType
<1>11. renamed \subseteq Plans /\ crowded \subseteq QuotaUsers /\ ops \in Nat BY <1>7, Constants
<1>12. /\ guard \in [Gated -> Guard] /\ purchase \in [Purchases -> Purchase]
       /\ edit \in [Edits -> Edit]
  BY <1>7, PassedType
<1>13. QuotaTypeOK BY <1>1, <1>2, <1>3, <1>5, <1>6, <1>8, <1>9, <1>11, <1>12 DEF QuotaTypeOK
<1>14. \A e \in Edits : Asks(e) BY <1>10 DEF Asks
<1> QED BY <1>13, <1>14 DEF Inv

(* Every step is of a request, of a purchase, of time, of the package service *)
(* or of none of them.                                                        *)
LEMMA StepCases ==
  ASSUME [QuotaNext]_quotaVars
  PROVE  \/ \E g \in Gated : GuardStep(g)
         \/ \E b \in Purchases : PurchaseStep(b)
         \/ \E u \in QuotaUsers : \E i \in DOMAIN subs[u] : Lapse(u, i)
         \/ \E e \in Edits : EditStep(e)
         \/ UNCHANGED quotaVars
BY DEF QuotaNext

LEMMA InvStep == Inv /\ [QuotaNext]_quotaVars => Inv'
<1> SUFFICES ASSUME Inv, [QuotaNext]_quotaVars PROVE Inv' OBVIOUS
<1>1. CASE UNCHANGED quotaVars
  <2>1. QuotaTypeOK' BY <1>1, Typed DEF quotaVars, QuotaTypeOK, AtWork
  <2>2. \A e \in Edits : Asks(e)' BY <1>1, Typed DEF quotaVars, Asks
  <2> QED BY <2>1, <2>2 DEF Inv
<1> QED BY <1>1, StepCases, GuardType, PurchaseType, LapseType, EditType

LEMMA InvHolds == QuotaSpec => []Inv
BY InitInv, InvStep, PTL DEF QuotaSpec

(* Every variable keeps its type: counters are numbers from zero on, a guard *)
(* beyond its look-up has a limit and a plan to go on with, and a call that   *)
(* is under way has a user (limit_guard.go, subscription and package          *)
(* services).                                                                 *)
THEOREM QuotaTypeCorrect == QuotaSpec => []QuotaTypeOK
<1>1. Inv => QuotaTypeOK BY DEF Inv
<1> QED BY <1>1, InvHolds, PTL

-----------------------------------------------------------------------------
(* Counters within their limits.                                             *)

(* The limit a guard works on was there once, and the guard has its count.   *)
Knows(g) == guard[g].pc \in AtWork =>
              /\ limits[guard[g].limit].state # "unborn"
              /\ limits[guard[g].limit].count = guard[g].count

(* An id that was not given yet has no counters. *)
Fresh(l) == limits[l].state = "unborn" =>
              \A u \in QuotaUsers : usage[u][l] = <<>> /\ charges[u][l] = 0

Within(rows, n) == \A i \in DOMAIN rows : rows[i] <= 1 \/ rows[i] <= n

RowsInv == /\ \A g \in Gated : Knows(g)
           /\ \A l \in LimitIds : Fresh(l)
           /\ \A u \in QuotaUsers, l \in LimitIds : Within(usage[u][l], limits[l].count)

LEMMA MaxOfTwo ==
  ASSUME NEW a \in Int, NEW n \in Int
  PROVE  Max({a, n}) = IF n > a THEN n ELSE a
<1> DEFINE m == CHOOSE x \in {a, n} : \A y \in {a, n} : x >= y
<1>1. \E x \in {a, n} : \A y \in {a, n} : x >= y
  <2>1. CASE n > a BY <2>1
  <2>2. CASE ~(n > a) BY <2>2
  <2> QED BY <2>1, <2>2
<1>2. m \in {a, n} /\ \A y \in {a, n} : m >= y BY <1>1
<1>3. Max({a, n}) = m BY DEF Max
<1> HIDE DEF m
<1> QED BY <1>2, <1>3

LEMMA LimitCount ==
  ASSUME Inv, NEW l \in LimitIds
  PROVE  limits[l].count \in Int /\ (limits[l].count = Unlimited \/ limits[l].count \in Nat)
BY Typed DEF Limit, Unlimited

LEMMA InitRows == QuotaInit => RowsInv
<1> SUFFICES ASSUME QuotaInit PROVE RowsInv OBVIOUS
<1>1. \A g \in Gated : Knows(g) BY PassedType DEF QuotaInit, Knows, AtWork
<1>2. PICK used \in SUBSET QuotaUsers :
        /\ usage = [u \in QuotaUsers |-> [l \in LimitIds |->
                      IF u \in used /\ UsedOnce(l) THEN <<1>> ELSE <<>>]]
        /\ charges = [u \in QuotaUsers |-> [l \in LimitIds |->
                        IF u \in used /\ UsedOnce(l) THEN 1 ELSE 0]]
  BY DEF QuotaInit
<1>3. ASSUME NEW l \in LimitIds PROVE Fresh(l)
  <2>1. l \in DOMAIN FirstLimits => limits[l].state # "unborn"
    BY QuotaAssumption, Constants, RowType DEF QuotaInit
  <2>2. l \notin DOMAIN FirstLimits =>
          \A u \in QuotaUsers : usage[u][l] = <<>> /\ charges[u][l] = 0
    BY <1>2 DEF UsedOnce
  <2> QED BY <2>1, <2>2 DEF Fresh
<1>4. ASSUME NEW u \in QuotaUsers, NEW l \in LimitIds
      PROVE  Within(usage[u][l], limits[l].count)
  <2>1. usage[u][l] = <<1>> \/ usage[u][l] = <<>> BY <1>2
  <2>2. Within(<<1>>, limits[l].count) /\ Within(<<>>, limits[l].count) BY DEF Within
  <2> QED BY <2>1, <2>2
<1> QED BY <1>1, <1>3, <1>4 DEF RowsInv

(* A step that leaves the rows and the guards alone. *)
LEMMA RowsSame ==
  ASSUME RowsInv, UNCHANGED <<limits, usage, guard, charges>>
  PROVE  RowsInv'
BY DEF RowsInv, Knows, Fresh, Within

LEMMA KnowsMoves ==
  ASSUME Inv, RowsInv, NEW g \in Gated, NEW r, Moves(g, r),
         r.pc \in AtWork => /\ limits[r.limit].state # "unborn"
                            /\ limits[r.limit].count = r.count
  PROVE  \A h \in Gated : Knows(h)'
BY MoveFacts DEF Moves, RowsInv, Knows

(* The rows of one user for one limit change, and stay within it. *)
LEMMA RowsMove ==
  ASSUME Inv, RowsInv, NEW u \in QuotaUsers, NEW l \in LimitIds, NEW rows \in Seq(Nat),
         UNCHANGED limits, limits[l].state # "unborn" \/ UNCHANGED charges,
         limits[l].state # "unborn" \/ rows = usage[u][l],
         usage' = [usage EXCEPT ![u][l] = rows],
         UNCHANGED charges \/ charges' = [charges EXCEPT ![u][l] = @ + 1],
         Within(rows, limits[l].count)
  PROVE  /\ \A k \in LimitIds : Fresh(k)'
         /\ \A v \in QuotaUsers, k \in LimitIds : Within(usage'[v][k], limits'[k].count)
<1>0. usage' = [usage EXCEPT ![u][l] = rows] OBVIOUS
<1>1. /\ usage'[u][l] = rows
      /\ \A v \in QuotaUsers, k \in LimitIds : v # u \/ k # l => usage'[v][k] = usage[v][k]
  BY <1>0, Typed
<1>2. \A v \in QuotaUsers, k \in LimitIds : v # u \/ k # l => charges'[v][k] = charges[v][k]
  BY ChargesStep
<1>3. \A k \in LimitIds : Fresh(k)' BY <1>1, <1>2 DEF RowsInv, Fresh
<1>4. \A v \in QuotaUsers, k \in LimitIds : Within(usage'[v][k], limits'[k].count)
  BY <1>1 DEF RowsInv
<1> QED BY <1>3, <1>4

LEMMA RowsKept ==
  ASSUME RowsInv, UNCHANGED <<limits, usage, charges>>
  PROVE  /\ \A k \in LimitIds : Fresh(k)'
         /\ \A v \in QuotaUsers, k \in LimitIds : Within(usage'[v][k], limits'[k].count)
BY DEF RowsInv, Fresh

LEMMA GuardRows ==
  ASSUME Inv, RowsInv, NEW g \in Gated, GuardStep(g)
  PROVE  RowsInv'
<1>1. ASSUME NEW r, Moves(g, r), r.pc \notin AtWork, UNCHANGED <<usage, charges>> PROVE RowsInv'
  BY <1>1, KnowsMoves, RowsKept DEF Moves, RowsInv
<1>2. CASE \E u \in QuotaUsers, res \in Resources, m \in Methods : Enter(g, u, res, m)
  BY <1>1, <1>2, EnterMoves DEF AtWork
<1>3. CASE Count(g) BY <1>1, <1>3, CountMoves DEF AtWork
<1>4. CASE Active(g) BY <1>1, <1>4, ActiveMoves DEF AtWork
<1>5. CASE LookUp(g)
  <2>1. PICK r : /\ Moves(g, r) /\ UNCHANGED <<usage, charges>>
                 /\ r.pc \in AtWork => /\ limits[r.limit].state = "live"
                                       /\ limits[r.limit].count = r.count
    BY <1>5, LookUpMoves
  <2> QED BY <2>1, KnowsMoves, RowsKept DEF Moves, RowsInv
<1>6. CASE GetUsage(g)
  <2>1. PICK r : /\ Moves(g, r) /\ UNCHANGED <<usage, charges>>
                 /\ r.pc = "idle" \/ r = [guard[g] EXCEPT !.pc = "init"]
    BY <1>6, GetUsageMoves
  <2>2. guard[g].pc \in AtWork /\ guard[g] \in Guard BY <1>6, GetUsageMoves, Typed DEF AtWork
  <2>3. r.pc \in AtWork => r.limit = guard[g].limit /\ r.count = guard[g].count
    BY <2>1, <2>2 DEF AtWork, Guard
  <2> QED BY <2>1, <2>2, <2>3, KnowsMoves, RowsKept DEF Moves, RowsInv, Knows
<1>7. CASE Decrement(g)
  <2> DEFINE u == guard[g].user  l == guard[g].limit  rows == DecrementLimitUsage(usage[u][l])
  <2>1. PICK r : /\ Moves(g, r) /\ r.pc \in {"idle", "lookup"}
                 /\ guard[g].pc = "decrement" /\ u \in QuotaUsers /\ l \in LimitIds
                 /\ UNCHANGED usage \/ usage' = [usage EXCEPT ![u][l] = rows]
                 /\ UNCHANGED charges
    BY <1>7, DecrementMoves
  <2>2. limits[l].state # "unborn" BY <2>1 DEF RowsInv, Knows, AtWork
  <2>3. \A h \in Gated : Knows(h)' BY <2>1, KnowsMoves DEF AtWork
  <2>4. rows \in Seq(Nat) /\ Within(rows, limits[l].count)
    <3> HIDE DEF u, l
    <3>1. usage[u][l] \in Seq(Nat) /\ Within(usage[u][l], limits[l].count)
      BY <2>1, Typed DEF RowsInv
    <3>2. /\ rows \in Seq(Nat) /\ DOMAIN rows = DOMAIN usage[u][l]
          /\ \A i \in DOMAIN usage[u][l] : rows[i] <= usage[u][l][i]
          /\ Len(rows) = Len(usage[u][l])
      BY <3>1, Decrements
    <3>3. /\ \A i \in DOMAIN usage[u][l] : usage[u][l][i] \in Nat
          /\ \A i \in DOMAIN rows : rows[i] \in Nat
      BY <3>1, <3>2, RowsType
    <3>4. limits[l].count \in Int BY <2>1, LimitCount
    <3> HIDE DEF rows
    <3> QED BY <3>1, <3>2, <3>3, <3>4 DEF Within
  <2> HIDE DEF u, l, rows
  <2>5. UNCHANGED limits BY <2>1 DEF Moves
  <2>6. CASE UNCHANGED usage BY <2>1, <2>3, <2>5, <2>6, RowsKept DEF RowsInv
  <2>7. CASE usage' = [usage EXCEPT ![u][l] = rows]
    BY <2>1, <2>2, <2>3, <2>4, <2>5, <2>7, RowsMove DEF RowsInv
  <2> QED BY <2>1, <2>6, <2>7
<1>8. CASE Increment(g)
  <2> DEFINE u == guard[g].user  l == guard[g].limit  n == guard[g].count
             rows == IncrementLimitUsage(usage[u][l], n)
  <2>1. /\ guard[g].pc = "increment" /\ u \in QuotaUsers /\ l \in LimitIds /\ n \in Nat
        /\ \E r : /\ Moves(g, r)
                  /\ r.pc \in {"idle", "lookup"} \/ r = [guard[g] EXCEPT !.pc = "get"]
        /\ UNCHANGED usage \/ usage' = [usage EXCEPT ![u][l] = rows]
        /\ UNCHANGED charges \/ charges' = [charges EXCEPT ![u][l] = @ + 1]
    BY <1>8, IncrementMoves
  <2>2. limits[l].state # "unborn" /\ limits[l].count = n BY <2>1 DEF RowsInv, Knows, AtWork
  <2>3. PICK r : /\ Moves(g, r)
                 /\ r.pc \in {"idle", "lookup"} \/ r = [guard[g] EXCEPT !.pc = "get"]
    BY <2>1
  <2>4. r.pc \in AtWork => r.limit = l /\ r.count = n
    BY <2>3, Typed DEF AtWork, Guard
  <2>5. \A h \in Gated : Knows(h)' BY <2>2, <2>3, <2>4, KnowsMoves
  <2>6. rows \in Seq(Nat) /\ Within(rows, limits[l].count)
    <3> HIDE DEF u, l, n
    <3>1. usage[u][l] \in Seq(Nat) /\ Within(usage[u][l], n)
      BY <2>1, <2>2, Typed DEF RowsInv
    <3>2. /\ rows \in Seq(Nat) /\ DOMAIN rows = DOMAIN usage[u][l]
          /\ \A i \in DOMAIN usage[u][l] :
                rows[i] = IF usage[u][l][i] < n THEN usage[u][l][i] + 1 ELSE usage[u][l][i]
      BY <2>1, <3>1, Increments
    <3>3. \A i \in DOMAIN usage[u][l] : usage[u][l][i] \in Nat BY <3>1, RowsType
    <3> HIDE DEF rows
    <3> QED BY <2>1, <2>2, <3>1, <3>2, <3>3 DEF Within
  <2> HIDE DEF u, l, n, rows
  <2>7. UNCHANGED limits BY <2>3 DEF Moves
  <2>8. CASE UNCHANGED usage
    <3>1. usage' = [usage EXCEPT ![u][l] = usage[u][l]] /\ usage[u][l] \in Seq(Nat)
      BY <2>1, <2>8, Typed
    <3>2. Within(usage[u][l], limits[l].count) BY <2>1 DEF RowsInv
    <3> QED BY <2>1, <2>2, <2>5, <2>7, <3>1, <3>2, RowsMove DEF RowsInv
  <2>9. CASE usage' = [usage EXCEPT ![u][l] = rows]
    BY <2>1, <2>2, <2>5, <2>6, <2>7, <2>9, RowsMove DEF RowsInv
  <2> QED BY <2>1, <2>8, <2>9
<1>9. CASE Initialize(g)
  <2> DEFINE u == guard[g].user  l == guard[g].limit  rows == InitializeLimitUsage(usage[u][l])
  <2>1. /\ guard[g].pc = "init" /\ u \in QuotaUsers /\ l \in LimitIds
        /\ \E r : Moves(g, r) /\ r.pc \in {"idle", "lookup"}
        /\ \/ UNCHANGED <<usage, charges>>
           \/ /\ usage' = [usage EXCEPT ![u][l] = rows]
              /\ charges' = [charges EXCEPT ![u][l] = @ + 1]
    BY <1>9, InitializeMoves
  <2>2. limits[l].state # "unborn" BY <2>1 DEF RowsInv, Knows, AtWork
  <2>3. PICK r : Moves(g, r) /\ r.pc \in {"idle", "lookup"} BY <2>1
  <2>4. \A h \in Gated : Knows(h)' BY <2>3, KnowsMoves DEF AtWork
  <2>5. rows \in Seq(Nat) /\ Within(rows, limits[l].count)
    <3> HIDE DEF u, l
    <3>1. usage[u][l] \in Seq(Nat) /\ Within(usage[u][l], limits[l].count)
      BY <2>1, Typed DEF RowsInv
    <3>2. /\ rows \in Seq(Nat) /\ DOMAIN rows = 1..(Len(usage[u][l]) + 1)
          /\ \A i \in 1..Len(usage[u][l]) : rows[i] = usage[u][l][i]
          /\ rows[Len(usage[u][l]) + 1] = 1
      BY <3>1, Starts
    <3>3. DOMAIN usage[u][l] = 1..Len(usage[u][l]) /\ Len(usage[u][l]) \in Nat
      BY <3>1, RowsType
    <3>4. \A i \in DOMAIN rows : i \in DOMAIN usage[u][l] \/ i = Len(usage[u][l]) + 1
      BY <3>2, <3>3
    <3> HIDE DEF rows
    <3>5. ASSUME NEW i \in DOMAIN rows PROVE rows[i] <= 1 \/ rows[i] <= limits[l].count
      <4>1. CASE i \in DOMAIN usage[u][l] BY <3>1, <3>2, <3>3, <4>1 DEF Within
      <4>2. CASE i = Len(usage[u][l]) + 1 BY <3>2, <4>2
      <4> QED BY <3>4, <4>1, <4>2
    <3> QED BY <3>2, <3>5 DEF Within
  <2> HIDE DEF u, l, rows
  <2>6. UNCHANGED limits BY <2>3 DEF Moves
  <2>7. CASE UNCHANGED <<usage, charges>> BY <2>4, <2>6, <2>7, RowsKept DEF RowsInv
  <2>8. CASE /\ usage' = [usage EXCEPT ![u][l] = rows]
             /\ charges' = [charges EXCEPT ![u][l] = @ + 1]
    BY <2>1, <2>2, <2>4, <2>5, <2>6, <2>8, RowsMove DEF RowsInv
  <2> QED BY <2>1, <2>7, <2>8
<1> QED BY <1>2, <1>3, <1>4, <1>5, <1>6, <1>7, <1>8, <1>9 DEF GuardStep

(* A limit's row is not written again: a guard at work keeps its knowledge,  *)
(* and the counters that stay belong to the same limit.                       *)
LEMMA KeepsFacts ==
  ASSUME Inv, NEW l \in LimitIds, Keeps(l), limits' \in [LimitIds -> Limit]
  PROVE  /\ limits[l].state # "unborn" => /\ limits'[l].state # "unborn"
                                          /\ limits'[l].count = limits[l].count
                                          /\ limits'[l].res = limits[l].res
         /\ limits[l].state = "removed" => limits'[l].state = "removed"
         /\ limits[l].state # "unborn" /\ limits'[l].state = "live" => limits[l].state = "live"
<1>1. limits[l] \in Limit BY Typed
<1>2. LET r == [limits[l] EXCEPT !.state = "removed"]
      IN  r.state = "removed" /\ r.count = limits[l].count /\ r.res = limits[l].res
  BY <1>1 DEF Limit
<1> QED BY <1>1, <1>2 DEF Keeps

LEMMA EditRows ==
  ASSUME Inv, RowsInv, NEW e \in Edits, EditStep(e)
  PROVE  RowsInv'
<1>1. Puts(e) BY EditPuts
<1>2. UNCHANGED <<guard, charges>> BY <1>1 DEF Puts, editOnly
<1>3. limits' \in [LimitIds -> Limit] /\ \A l \in LimitIds : Keeps(l) /\ Clears(l)
  BY <1>1 DEF Puts
<1>4. \A l \in LimitIds : limits[l].state # "unborn" => /\ limits'[l].state # "unborn"
                                                        /\ limits'[l].count = limits[l].count
  BY <1>3, KeepsFacts
<1>5. \A g \in Gated : Knows(g)'
  BY <1>2, <1>4, Typed DEF RowsInv, Knows
<1>6. ASSUME NEW l \in LimitIds, NEW u \in QuotaUsers
      PROVE  usage'[u][l] = usage[u][l] \/ usage'[u][l] = <<>>
  BY <1>3 DEF Clears
<1>7. ASSUME NEW l \in LimitIds PROVE Fresh(l)'
  <2>1. limits'[l].state = "unborn" => limits[l].state = "unborn" BY <1>4
  <2> QED BY <1>2, <1>6, <2>1 DEF RowsInv, Fresh
<1>8. ASSUME NEW u \in QuotaUsers, NEW l \in LimitIds
      PROVE  Within(usage'[u][l], limits'[l].count)
  <2>1. Within(<<>>, limits'[l].count) BY DEF Within
  <2>2. CASE limits[l].state = "unborn"
    <3>1. usage[u][l] = <<>> BY <2>2 DEF RowsInv, Fresh
    <3> QED BY <1>6, <2>1, <3>1
  <2>3. CASE limits[l].state # "unborn" BY <1>4, <1>6, <2>1, <2>3 DEF RowsInv
  <2> QED BY <2>2, <2>3
<1> QED BY <1>5, <1>7, <1>8 DEF RowsInv

(* Purchases and time leave the guards and the counters alone. *)
LEMMA OtherSteps ==
  ASSUME Inv,
         \/ \E b \in Purchases : PurchaseStep(b)
         \/ \E u \in QuotaUsers : \E i \in DOMAIN subs[u] : Lapse(u, i)
         \/ UNCHANGED quotaVars
  PROVE  UNCHANGED <<plans, limits, usage, guard, edit, charges, renamed>> /\ crowded \subseteq crowded'
<1>1. ASSUME NEW b \in Purchases, PurchaseStep(b)
      PROVE  UNCHANGED purchaseOnly /\ crowded \subseteq crowded'
  <2>1. CASE CheckFree(b) BY <2>1, CheckFreeBuys DEF Buys
  <2>2. CASE CreateSubscription(b) BY <2>2, CreateBuys DEF Buys
  <2>3. CASE \E u \in Buyers, p \in Plans : Subscribe(b, u, p) BY <2>3, SubscribeBuys DEF Buys
  <2> QED BY <1>1, <2>1, <2>2, <2>3 DEF PurchaseStep
<1>2. ASSUME NEW u \in QuotaUsers, NEW i \in DOMAIN subs[u], Lapse(u, i)
      PROVE  UNCHANGED purchaseOnly /\ crowded \subseteq crowded'
  BY <1>2, LapseFacts
<1> QED BY <1>1, <1>2 DEF purchaseOnly, quotaVars

LEMMA RowsStep == Inv /\ RowsInv /\ [QuotaNext]_quotaVars => RowsInv'
<1> SUFFICES ASSUME Inv, RowsInv, [QuotaNext]_quotaVars PROVE RowsInv' OBVIOUS
<1>1. CASE \E g \in Gated : GuardStep(g) BY <1>1, GuardRows
<1>2. CASE \E e \in Edits : EditStep(e) BY <1>2, EditRows
<1>3. CASE \/ \E b \in Purchases : PurchaseStep(b)
           \/ \E u \in QuotaUsers : \E i \in DOMAIN subs[u] : Lapse(u, i)
           \/ UNCHANGED quotaVars
  BY <1>3, OtherSteps, RowsSame
<1> QED BY <1>1, <1>2, <1>3, StepCases

LEMMA RowsHold == QuotaSpec => [](Inv /\ RowsInv)
BY InitInv, InitRows, InvStep, RowsStep, PTL DEF QuotaSpec

(* However requests, edits of packages and failing queries interleave, no    *)
(* counter of a user passes the limit it belongs to (limit_guard.go:         *)
(* enforceLimit counts with the limit it looked up before, and the package    *)
(* service gives an edited plan new rows).                                    *)
THEOREM UsedWithinLimitHolds == QuotaSpec => []UsedWithinLimit
<1>1. Inv /\ RowsInv => UsedWithinLimit
  <2> SUFFICES ASSUME Inv, RowsInv, NEW u \in QuotaUsers, NEW l \in LimitIds,
                      NEW i \in DOMAIN usage[u][l]
               PROVE  usage[u][l][i] <= Max({1, limits[l].count})
    BY DEF UsedWithinLimit
  <2>1. usage[u][l] \in Seq(Nat) BY Typed
  <2>2. usage[u][l][i] \in Nat BY <2>1, RowsType
  <2>3. usage[u][l][i] <= 1 \/ usage[u][l][i] <= limits[l].count BY DEF RowsInv, Within
  <2>4. limits[l].count \in Int BY LimitCount
  <2> QED BY <2>2, <2>3, <2>4, MaxOfTwo
<1> QED BY <1>1, RowsHold, PTL

-----------------------------------------------------------------------------
(* One counter for a limit.                                                  *)

(* A user outside crowded has had one gated request at a time. *)
Alone(u) == \A g, h \in Gated :
  guard[g].pc # "idle" /\ guard[g].user = u /\ guard[h].pc # "idle" /\ guard[h].user = u => g = h

(* Such a user's request that could not count finds the counter used up, and *)
(* starts one when there is none.                                            *)
UsedUp(g) ==
  LET rows == usage[guard[g].user][guard[g].limit] IN
  guard[g].user \notin crowded /\ guard[g].count # 0 =>
    /\ guard[g].pc = "get" => \A i \in DOMAIN rows : rows[i] > 0
    /\ guard[g].pc = "init" => rows = <<>>

CounterInv == /\ \A u \in QuotaUsers \ crowded : Alone(u)
              /\ \A g \in Gated : UsedUp(g)
              /\ CounterUnlessRaced

LEMMA InitCounter == QuotaInit => CounterInv
<1> SUFFICES ASSUME QuotaInit PROVE CounterInv OBVIOUS
<1>1. \A g \in Gated : guard[g].pc = "idle" BY PassedType DEF QuotaInit
<1>2. \A u \in QuotaUsers, l \in LimitIds : usage[u][l] = <<1>> \/ usage[u][l] = <<>>
  BY DEF QuotaInit
<1>3. Len(<<1>>) = 1 /\ Len(<<>>) = 0 OBVIOUS
<1>4. CounterUnlessRaced
  <2>1. \A u \in QuotaUsers, l \in LimitIds : Len(usage[u][l]) <= 1
    <3> TAKE u \in QuotaUsers, l \in LimitIds
    <3>1. CASE usage[u][l] = <<1>> BY <1>3, <3>1
    <3>2. CASE usage[u][l] = <<>> BY <1>3, <3>2
    <3> QED BY <1>2, <3>1, <3>2
  <2> QED BY <2>1 DEF CounterUnlessRaced
<1> QED BY <1>1, <1>4 DEF CounterInv, Alone, UsedUp

LEMMA CounterSame ==
  ASSUME CounterInv, UNCHANGED <<limits, usage, guard>>, crowded \subseteq crowded'
  PROVE  CounterInv'
<1>1. \A u \in QuotaUsers \ crowded' : Alone(u)' BY DEF CounterInv, Alone
<1>2. \A g \in Gated : UsedUp(g)' BY DEF CounterInv, UsedUp
<1>3. CounterUnlessRaced' BY DEF CounterInv, CounterUnlessRaced
<1> QED BY <1>1, <1>2, <1>3 DEF CounterInv

LEMMA AloneMoves ==
  ASSUME Inv, CounterInv, NEW g \in Gated, NEW r, Moves(g, r),
         \/ Serves(g, r)
         \/ (\E h \in Gated : guard[h].pc # "idle" /\ guard[h].user = r.user) => r.user \in crowded'
  PROVE  \A u \in QuotaUsers \ crowded' : Alone(u)'
<1> SUFFICES ASSUME NEW u \in QuotaUsers \ crowded', NEW h \in Gated, NEW k \in Gated,
                    guard'[h].pc # "idle", guard'[h].user = u,
                    guard'[k].pc # "idle", guard'[k].user = u, h # k
             PROVE  FALSE
  BY DEF Alone
<1>1. u \notin crowded /\ Alone(u) BY DEF Moves, CounterInv
<1>2. guard'[g] = r /\ \A i \in Gated : i # g => guard'[i] = guard[i] BY MoveFacts
<1>3. CASE h # g /\ k # g BY <1>1, <1>2, <1>3 DEF Alone
<1>4. CASE h = g \/ k = g
  <2>1. PICK i \in Gated : i # g /\ guard[i].pc # "idle" /\ guard[i].user = u BY <1>2, <1>4
  <2>2. r.pc # "idle" /\ r.user = u BY <1>2, <1>4
  <2>3. CASE Serves(g, r) BY <1>1, <2>1, <2>2, <2>3 DEF Serves, Alone
  <2> QED BY <2>1, <2>2, <2>3
<1> QED BY <1>3, <1>4

(* A step of a guard that changes no counter. *)
LEMMA CounterKept ==
  ASSUME Inv, CounterInv, NEW g \in Gated, NEW r, Moves(g, r), UNCHANGED usage,
         \/ Serves(g, r)
         \/ (\E h \in Gated : guard[h].pc # "idle" /\ guard[h].user = r.user) => r.user \in crowded',
         UsedUp(g)'
  PROVE  CounterInv'
<1>1. guard'[g] = r /\ \A i \in Gated : i # g => guard'[i] = guard[i] BY MoveFacts
<1>2. crowded \subseteq crowded' /\ UNCHANGED limits BY DEF Moves
<1>3. \A h \in Gated : UsedUp(h)' BY <1>1, <1>2 DEF CounterInv, UsedUp
<1>4. CounterUnlessRaced' BY <1>2 DEF CounterInv, CounterUnlessRaced
<1> QED BY <1>3, <1>4, AloneMoves DEF CounterInv

(* One that changes the user's counters for a limit. *)
LEMMA CounterMoved ==
  ASSUME Inv, CounterInv, NEW g \in Gated, NEW r, Moves(g, r), Serves(g, r),
         guard[g].pc # "idle", NEW u \in QuotaUsers, u = guard[g].user,
         NEW l \in LimitIds, NEW rows \in Seq(Nat),
         usage' = [usage EXCEPT ![u][l] = rows],
         u \notin crowded' /\ limits[l].count # 0 => Len(rows) <= 1,
         UsedUp(g)'
  PROVE  CounterInv'
<1>1. guard'[g] = r /\ \A i \in Gated : i # g => guard'[i] = guard[i] BY MoveFacts
<1>2. crowded \subseteq crowded' /\ UNCHANGED limits BY DEF Moves
<1>3. /\ usage'[u][l] = rows
      /\ \A v \in QuotaUsers, k \in LimitIds : v # u \/ k # l => usage'[v][k] = usage[v][k]
  BY Typed
<1>4. ASSUME NEW h \in Gated, h # g, guard[h].pc \in {"get", "init"}, guard[h].user \notin crowded'
      PROVE  usage'[guard[h].user][guard[h].limit] = usage[guard[h].user][guard[h].limit]
  <2>1. guard[h].user \in QuotaUsers \ crowded /\ guard[h].limit \in LimitIds
    BY <1>2, <1>4, Typed DEF AtWork
  <2>2. Alone(guard[h].user) BY <2>1 DEF CounterInv
  <2>3. guard[h].user # u BY <1>4, <2>2 DEF Alone
  <2> QED BY <1>3, <2>1, <2>3
<1>5. ASSUME NEW h \in Gated, h # g PROVE UsedUp(h)'
  <2>1. guard'[h] = guard[h] /\ UsedUp(h) BY <1>1, <1>5 DEF CounterInv
  <2>2. CASE guard[h].pc \in {"get", "init"} /\ guard[h].user \notin crowded'
    <3>1. usage'[guard[h].user][guard[h].limit] = usage[guard[h].user][guard[h].limit]
      BY <1>4, <1>5, <2>2
    <3>2. guard[h].user \notin crowded BY <1>2, <2>2
    <3> QED BY <2>1, <3>1, <3>2 DEF UsedUp
  <2>3. CASE ~(guard[h].pc \in {"get", "init"} /\ guard[h].user \notin crowded')
    BY <2>1, <2>3 DEF UsedUp
  <2> QED BY <2>2, <2>3
<1>6. CounterUnlessRaced'
  <2> SUFFICES ASSUME NEW v \in QuotaUsers \ crowded', NEW k \in LimitIds, limits[k].count # 0
               PROVE  Len(usage'[v][k]) <= 1
    BY <1>2 DEF CounterUnlessRaced
  <2>1. CASE v = u /\ k = l BY <1>3, <2>1
  <2>2. CASE v # u \/ k # l BY <1>2, <1>3, <2>2 DEF CounterInv, CounterUnlessRaced
  <2> QED BY <2>1, <2>2
<1>7. \A h \in Gated : UsedUp(h)' BY <1>5
<1> QED BY <1>6, <1>7, AloneMoves DEF CounterInv

LEMMA CounterLength ==
  ASSUME Inv, CounterInv, NEW u \in QuotaUsers, NEW l \in LimitIds, NEW rows \in Seq(Nat),
         Len(rows) = Len(usage[u][l]), crowded \subseteq crowded'
  PROVE  u \notin crowded' /\ limits[l].count # 0 => Len(rows) <= 1
BY DEF CounterInv, CounterUnlessRaced

LEMMA UsedUpElsewhere ==
  ASSUME Inv, NEW g \in Gated, NEW r, Moves(g, r), r.pc \notin {"get", "init"}
  PROVE  UsedUp(g)'
BY MoveFacts DEF UsedUp

LEMMA GuardCounter ==
  ASSUME Inv, RowsInv, CounterInv, NEW g \in Gated, GuardStep(g)
  PROVE  CounterInv'
<1>1. ASSUME NEW r, Moves(g, r), Serves(g, r), r.pc \notin {"get", "init"}, UNCHANGED usage
      PROVE  CounterInv'
  BY <1>1, UsedUpElsewhere, CounterKept
<1>2. ASSUME NEW u \in QuotaUsers, NEW res \in Resources, NEW m \in Methods, Enter(g, u, res, m)
      PROVE  CounterInv'
  <2>1. PICK r : /\ Moves(g, r) /\ r.pc = "count" /\ r.user = Tenant(u) /\ UNCHANGED usage
                 /\ (\E h \in Gated : guard[h].pc # "idle" /\ guard[h].user = Tenant(u))
                       => Tenant(u) \in crowded'
    BY <1>2, EnterMoves
  <2> QED BY <2>1, UsedUpElsewhere, CounterKept
<1>3. CASE Count(g) BY <1>1, <1>3, CountMoves
<1>4. CASE Active(g) BY <1>1, <1>4, ActiveMoves
<1>5. CASE LookUp(g) BY <1>1, <1>5, LookUpMoves
<1>6. CASE Decrement(g)
  <2> DEFINE u == guard[g].user  l == guard[g].limit  rows == DecrementLimitUsage(usage[u][l])
  <2>1. PICK r : /\ Moves(g, r) /\ Serves(g, r) /\ r.pc \in {"idle", "lookup"}
                 /\ guard[g].pc = "decrement" /\ u \in QuotaUsers /\ l \in LimitIds
                 /\ UNCHANGED usage \/ usage' = [usage EXCEPT ![u][l] = rows]
    BY <1>6, DecrementMoves
  <2>2. rows \in Seq(Nat) /\ Len(rows) = Len(usage[u][l])
    <3>1. usage[u][l] \in Seq(Nat) BY <2>1, Typed
    <3> QED BY <3>1, Decrements
  <2>3. CASE UNCHANGED usage BY <1>1, <2>1, <2>3
  <2>4. CASE usage' = [usage EXCEPT ![u][l] = rows]
    <3>1. UsedUp(g)' BY <2>1, UsedUpElsewhere
    <3>2. crowded \subseteq crowded' BY <2>1 DEF Moves
    <3> HIDE DEF rows, l
    <3>3. u \notin crowded' /\ limits[l].count # 0 => Len(rows) <= 1
      BY <2>1, <2>2, <3>2, CounterLength
    <3> QED BY <2>1, <2>2, <2>4, <3>1, <3>3, CounterMoved
  <2> QED BY <2>1, <2>3, <2>4
<1>7. CASE Increment(g)
  <2> DEFINE u == guard[g].user  l == guard[g].limit  n == guard[g].count
             rows == IncrementLimitUsage(usage[u][l], n)  asks == [guard[g] EXCEPT !.pc = "get"]
  <2>1. /\ guard[g].pc = "increment" /\ u \in QuotaUsers /\ l \in LimitIds /\ n \in Nat
        /\ \E r : /\ Moves(g, r) /\ Serves(g, r)
                  /\ \/ r.pc \in {"idle", "lookup"} /\ usage' = [usage EXCEPT ![u][l] = rows]
                     \/ r = asks /\ rows = usage[u][l] /\ UNCHANGED usage
                     \/ /\ r = asks /\ u \in crowded'
                        /\ UNCHANGED usage \/ usage' = [usage EXCEPT ![u][l] = rows]
    BY <1>7, IncrementMoves
  <2>2. PICK r : /\ Moves(g, r) /\ Serves(g, r)
                 /\ \/ r.pc \in {"idle", "lookup"} /\ usage' = [usage EXCEPT ![u][l] = rows]
                    \/ r = asks /\ rows = usage[u][l] /\ UNCHANGED usage
                    \/ /\ r = asks /\ u \in crowded'
                       /\ UNCHANGED usage \/ usage' = [usage EXCEPT ![u][l] = rows]
    BY <2>1
  <2>3. usage[u][l] \in Seq(Nat) BY <2>1, Typed
  <2>4. /\ rows \in Seq(Nat) /\ Len(rows) = Len(usage[u][l])
        /\ \A i \in DOMAIN usage[u][l] :
              rows[i] = IF usage[u][l][i] < n THEN usage[u][l][i] + 1 ELSE usage[u][l][i]
    BY <2>1, <2>3, Increments
  <2>5. asks.pc = "get" /\ asks.user = u /\ asks.limit = l /\ asks.count = n
    BY Typed DEF Guard
  <2>6. guard'[g] = r BY <2>2, MoveFacts
  <2>7. crowded \subseteq crowded' BY <2>2 DEF Moves
  <2>8. rows = usage[u][l] /\ n # 0 => \A i \in DOMAIN usage[u][l] : usage[u][l][i] > 0
    <3>1. \A i \in DOMAIN usage[u][l] : usage[u][l][i] \in Nat BY <2>3, RowsType
    <3> HIDE DEF u, l, n, rows
    <3> QED BY <2>1, <2>4, <3>1
  <2> HIDE DEF rows, asks, n
  <2>9. UsedUp(g)'
    <3>1. CASE r.pc \in {"idle", "lookup"} BY <2>2, <3>1, UsedUpElsewhere
    <3>2. CASE r = asks /\ u \in crowded' BY <2>5, <2>6, <3>2 DEF UsedUp
    <3>3. CASE r = asks /\ rows = usage[u][l] /\ UNCHANGED usage
      BY <2>5, <2>6, <2>8, <3>3 DEF UsedUp
    <3> QED BY <2>2, <3>1, <3>2, <3>3
  <2>10. CASE UNCHANGED usage BY <2>2, <2>9, <2>10, CounterKept
  <2>11. CASE usage' = [usage EXCEPT ![u][l] = rows]
    <3> HIDE DEF l
    <3>1. u \notin crowded' /\ limits[l].count # 0 => Len(rows) <= 1
      BY <2>1, <2>4, <2>7, CounterLength
    <3> QED BY <2>1, <2>2, <2>4, <2>9, <2>11, <3>1, CounterMoved
  <2> QED BY <2>2, <2>10, <2>11
<1>8. CASE GetUsage(g)
  <2> DEFINE u == guard[g].user  l == guard[g].limit  starts == [guard[g] EXCEPT !.pc = "init"]
  <2>1. guard[g].pc = "get" /\ u \in QuotaUsers /\ l \in LimitIds /\ UNCHANGED usage
    BY <1>8, GetUsageMoves
  <2>2. PICK r : /\ Moves(g, r) /\ Serves(g, r)
                 /\ \/ r.pc = "idle"
                    \/ /\ r = starts
                       /\ \/ usage[u][l] = <<>> \/ u \in crowded'
                          \/ \E i \in DOMAIN usage[u][l] : usage[u][l][i] = 0
    BY <1>8, GetUsageMoves
  <2>3. starts.pc = "init" /\ starts.user = u /\ starts.limit = l /\ starts.count = guard[g].count
    BY Typed DEF Guard
  <2>4. guard'[g] = r BY <2>2, MoveFacts
  <2>5. crowded \subseteq crowded' BY <2>2 DEF Moves
  <2>6. u \notin crowded /\ guard[g].count # 0 => \A i \in DOMAIN usage[u][l] : usage[u][l][i] > 0
    BY <2>1 DEF CounterInv, UsedUp
  <2> HIDE DEF starts
  <2>7. UsedUp(g)'
    <3>1. CASE r.pc = "idle" BY <2>2, <3>1, UsedUpElsewhere
    <3>2. CASE r = starts /\ (usage[u][l] = <<>> \/ u \in crowded')
      BY <2>1, <2>3, <2>4, <3>2 DEF UsedUp
    <3>3. CASE r = starts /\ \E i \in DOMAIN usage[u][l] : usage[u][l][i] = 0
      BY <2>1, <2>3, <2>4, <2>5, <2>6, <3>3 DEF UsedUp
    <3> QED BY <2>2, <3>1, <3>2, <3>3
  <2> QED BY <2>1, <2>2, <2>7, CounterKept
<1>9. CASE Initialize(g)
  <2> DEFINE u == guard[g].user  l == guard[g].limit  rows == InitializeLimitUsage(usage[u][l])
  <2>1. /\ guard[g].pc = "init" /\ u \in QuotaUsers /\ l \in LimitIds
        /\ \E r : Moves(g, r) /\ Serves(g, r) /\ r.pc \in {"idle", "lookup"}
        /\ UNCHANGED usage \/ usage' = [usage EXCEPT ![u][l] = rows]
    BY <1>9, InitializeMoves
  <2>2. PICK r : Moves(g, r) /\ Serves(g, r) /\ r.pc \in {"idle", "lookup"} BY <2>1
  <2>3. CASE UNCHANGED usage BY <1>1, <2>2, <2>3
  <2>4. CASE usage' = [usage EXCEPT ![u][l] = rows]
    <3>1. usage[u][l] \in Seq(Nat) BY <2>1, Typed
    <3>2. rows \in Seq(Nat) /\ Len(rows) = Len(usage[u][l]) + 1 BY <3>1, Starts
    <3>3. limits[l].count = guard[g].count BY <2>1 DEF RowsInv, Knows, AtWork
    <3>4. crowded \subseteq crowded' BY <2>2 DEF Moves
    <3>5. u \notin crowded' /\ limits[l].count # 0 => usage[u][l] = <<>>
      BY <2>1, <3>3, <3>4 DEF CounterInv, UsedUp
    <3>6. Len(<<>>) = 0 OBVIOUS
    <3>7. UsedUp(g)' BY <2>2, UsedUpElsewhere
    <3> HIDE DEF rows, l
    <3>8. u \notin crowded' /\ limits[l].count # 0 => Len(rows) <= 1
      BY <3>2, <3>5, <3>6
    <3> QED BY <2>1, <2>2, <2>4, <3>2, <3>7, <3>8, CounterMoved
  <2> QED BY <2>1, <2>3, <2>4
<1>10. CASE \E u \in QuotaUsers, res \in Resources, m \in Methods : Enter(g, u, res, m)
  BY <1>2, <1>10
<1> QED BY <1>3, <1>4, <1>5, <1>6, <1>7, <1>8, <1>9, <1>10 DEF GuardStep

LEMMA EditCounter ==
  ASSUME Inv, RowsInv, CounterInv, NEW e \in Edits, EditStep(e)
  PROVE  CounterInv'
<1>1. Puts(e) BY EditPuts
<1>2. UNCHANGED <<guard, crowded>> BY <1>1 DEF Puts, editOnly
<1>3. limits' \in [LimitIds -> Limit] /\ \A l \in LimitIds : Keeps(l) /\ Clears(l)
  BY <1>1 DEF Puts
<1>4. \A u \in QuotaUsers, l \in LimitIds : usage'[u][l] = usage[u][l] \/ usage'[u][l] = <<>>
  BY <1>3 DEF Clears
<1>5. \A u \in QuotaUsers \ crowded' : Alone(u)' BY <1>2 DEF CounterInv, Alone
<1>6. ASSUME NEW g \in Gated PROVE UsedUp(g)'
  <2>1. CASE guard[g].pc \notin {"get", "init"} BY <1>2, <2>1 DEF UsedUp
  <2>2. CASE guard[g].pc \in {"get", "init"}
    <3>1. guard[g].user \in QuotaUsers /\ guard[g].limit \in LimitIds
      BY <2>2, Typed DEF AtWork
    <3>2. UsedUp(g) BY DEF CounterInv
    <3>3. DOMAIN <<>> = {} OBVIOUS
    <3> QED BY <1>2, <1>4, <3>1, <3>2, <3>3 DEF UsedUp
  <2> QED BY <2>1, <2>2
<1>7. ASSUME NEW u \in QuotaUsers \ crowded', NEW l \in LimitIds, limits'[l].count # 0
      PROVE  Len(usage'[u][l]) <= 1
  <2>1. Len(<<>>) = 0 OBVIOUS
  <2>2. CASE limits[l].state = "unborn"
    <3>1. usage[u][l] = <<>> BY <2>2 DEF RowsInv, Fresh
    <3> QED BY <1>4, <2>1, <3>1
  <2>3. CASE limits[l].state # "unborn"
    <3>1. limits'[l].count = limits[l].count BY <1>3, <2>3, KeepsFacts
    <3>2. Len(usage[u][l]) <= 1 BY <1>2, <1>7, <3>1 DEF CounterInv, CounterUnlessRaced
    <3> QED BY <1>4, <2>1, <3>2
  <2> QED BY <2>2, <2>3
<1> QED BY <1>5, <1>6, <1>7 DEF CounterInv, CounterUnlessRaced

LEMMA CounterStep == Inv /\ RowsInv /\ CounterInv /\ [QuotaNext]_quotaVars => CounterInv'
<1> SUFFICES ASSUME Inv, RowsInv, CounterInv, [QuotaNext]_quotaVars PROVE CounterInv' OBVIOUS
<1>1. CASE \E g \in Gated : GuardStep(g) BY <1>1, GuardCounter
<1>2. CASE \E e \in Edits : EditStep(e) BY <1>2, EditCounter
<1>3. CASE \/ \E b \in Purchases : PurchaseStep(b)
           \/ \E u \in QuotaUsers : \E i \in DOMAIN subs[u] : Lapse(u, i)
           \/ UNCHANGED quotaVars
  BY <1>3, OtherSteps, CounterSame
<1> QED BY <1>1, <1>2, <1>3, StepCases

(* Of a user whose gated requests never overlapped and none of whose queries *)
(* failed there is at most one counter per limit (limit_guard.go: a guard    *)
(* that could not count starts a counter only when it finds none).           *)
THEOREM OneCounterUnlessRaced == QuotaSpec => []CounterUnlessRaced
<1>1. CounterInv => CounterUnlessRaced BY DEF CounterInv
<1>2. QuotaSpec => [](Inv /\ RowsInv /\ CounterInv)
  BY InitInv, InitRows, InitCounter, InvStep, RowsStep, CounterStep, PTL DEF QuotaSpec
<1> QED BY <1>1, <1>2, PTL

-----------------------------------------------------------------------------
(* Requests let through.                                                     *)

(* No route that deletes gives a use of the limit back. *)
Spent(l) == \A r \in Resources : PatternOf[<<r, "DELETE">>] # EndpointOf[limits[l].res]

SeesRoute(g) ==
  /\ guard[g].pc # "idle" => \E r \in Resources : guard[g].pattern = PatternOf[<<r, guard[g].method>>]
  /\ guard[g].pc = "decrement" => ~Spent(guard[g].limit)

(* The later of the counters a user has for a limit is not the fuller one:    *)
(* they only count up together.                                              *)
Falling(rows) == /\ \A i \in DOMAIN rows : rows[i] >= 1
                 /\ \A i, j \in DOMAIN rows : i <= j => rows[i] >= rows[j]

(* Of c requests, each older counter stands for at most n and the last one    *)
(* for what it shows.                                                        *)
Counted(rows, c, n) ==
  /\ Falling(rows)
  /\ rows = <<>> => c = 0
  /\ rows # <<>> => c <= n * (Len(rows) - 1) + rows[Len(rows)]

Bounded(l) == limits[l].state = "live" /\ limits[l].count > 0 /\ Spent(l)

ChargesInv ==
  /\ \A g \in Gated : SeesRoute(g)
  /\ \A u \in QuotaUsers, l \in LimitIds :
        Bounded(l) => Counted(usage[u][l], charges[u][l], limits[l].count)

LEMMA RowsBelow ==
  ASSUME NEW rows \in Seq(Nat), NEW n \in Nat, n > 0, Within(rows, n)
  PROVE  \A i \in DOMAIN rows : rows[i] \in Nat /\ rows[i] <= n
BY RowsType DEF Within

LEMMA LastRow ==
  ASSUME NEW rows \in Seq(Nat), rows # <<>>
  PROVE  /\ Len(rows) \in DOMAIN rows /\ rows[Len(rows)] \in Nat
         /\ \A i \in DOMAIN rows : i \in Nat /\ i <= Len(rows)
<1>1. Len(rows) \in Nat /\ DOMAIN rows = 1..Len(rows) /\ Len(rows) > 0 BY RowsType
<1>2. Len(rows) \in DOMAIN rows BY <1>1
<1> QED BY <1>1, <1>2, RowsType

LEMMA SumBelow ==
  ASSUME NEW c \in Nat, NEW m \in Int, NEW k \in Int, NEW x \in Nat, NEW n \in Nat,
         c <= m + x, x <= n, m + n = k
  PROVE  c <= k
OBVIOUS

LEMMA CountedUp ==
  ASSUME NEW rows \in Seq(Nat), NEW n \in Nat, n > 0, NEW c \in Nat,
         Within(rows, n), Counted(rows, c, n)
  PROVE  LET up == IncrementLimitUsage(rows, n)
         IN  Counted(up, c, n) /\ (up # rows => Counted(up, c + 1, n))
<1> DEFINE up == IncrementLimitUsage(rows, n)
<1> SUFFICES Counted(up, c, n) /\ (up # rows => Counted(up, c + 1, n)) OBVIOUS
<1>0. Falling(rows) BY DEF Counted
<1>1. /\ up \in Seq(Nat) /\ DOMAIN up = DOMAIN rows /\ Len(up) = Len(rows)
      /\ \A i \in DOMAIN rows : up[i] = IF rows[i] < n THEN rows[i] + 1 ELSE rows[i]
  BY Increments
<1>2. \A i \in DOMAIN rows : rows[i] \in Nat /\ rows[i] <= n BY RowsBelow
<1> HIDE DEF up
<1>3. Falling(up)
  <2>1. \A i \in DOMAIN up : up[i] >= 1 BY <1>0, <1>1, <1>2 DEF Falling
  <2>2. ASSUME NEW i \in DOMAIN up, NEW j \in DOMAIN up, i <= j PROVE up[i] >= up[j]
    <3>1. rows[i] >= rows[j] BY <1>0, <1>1, <2>2 DEF Falling
    <3>2. /\ rows[i] \in Nat /\ up[i] = (IF rows[i] < n THEN rows[i] + 1 ELSE rows[i])
          /\ rows[j] \in Nat /\ up[j] = (IF rows[j] < n THEN rows[j] + 1 ELSE rows[j])
          /\ rows[i] <= n
      BY <1>1, <1>2, <2>2
    <3> DEFINE a == rows[i]  b == rows[j]
    <3> HIDE DEF a, b
    <3>3. (IF a < n THEN a + 1 ELSE a) >= (IF b < n THEN b + 1 ELSE b)
      BY <3>1, <3>2 DEF a, b
    <3> QED BY <3>2, <3>3 DEF a, b
  <2> QED BY <2>1, <2>2 DEF Falling
<1>4. rows = <<>> <=> up = <<>> BY <1>1, RowsType
<1>5. CASE rows = <<>>
  <2>1. up = rows BY <1>4, <1>5
  <2> QED BY <2>1
<1>6. CASE rows # <<>>
  <2> DEFINE z == Len(rows)  m == n * (z - 1)
  <2>1. z \in DOMAIN rows /\ \A i \in DOMAIN rows : i <= z BY <1>6, LastRow
  <2>2. Len(rows) \in Nat BY RowsType
  <2>3. m \in Int BY <2>2
  <2>4. c <= m + rows[z] BY <1>6 DEF Counted
  <2>5. up # rows => rows[z] < n
    <3> SUFFICES ASSUME rows[z] = n PROVE up = rows BY <1>2, <2>1
    <3>1. \A i \in DOMAIN rows : up[i] = rows[i]
      <4> TAKE i \in DOMAIN rows
      <4>1. rows[i] >= rows[z] BY <1>0, <2>1 DEF Falling
      <4> QED BY <1>1, <1>2, <4>1
    <3>2. Len(up) = Len(rows) /\ \A i \in 1..Len(up) : up[i] = rows[i]
      BY <1>1, <3>1, RowsType
    <3> QED BY Zenon, <1>1, <3>2, SeqEqual
  <2>6. Len(up) = z /\ up[z] = IF rows[z] < n THEN rows[z] + 1 ELSE rows[z] BY <1>1, <2>1
  <2>7. n * (Len(up) - 1) = m BY <2>6
  <2>8. rows[z] \in Nat BY <1>2, <2>1
  <2> HIDE DEF m, z
  <2>9. c <= m + up[z] /\ (up # rows => c + 1 <= m + up[z])
    <3> DEFINE a == rows[z]  b == up[z]
    <3>1. a \in Nat /\ c <= m + a /\ b = (IF a < n THEN a + 1 ELSE a) /\ (up # rows => a < n)
      BY <2>4, <2>5, <2>6, <2>8
    <3> HIDE DEF a, b
    <3>2. c <= m + b /\ (a < n => c + 1 <= m + b) BY <2>3, <3>1
    <3> QED BY <3>1, <3>2 DEF b
  <2> QED BY <1>3, <1>4, <1>6, <2>6, <2>7, <2>9 DEF Counted
<1> QED BY <1>5, <1>6

LEMMA CountedNew ==
  ASSUME NEW rows \in Seq(Nat), NEW n \in Nat, n > 0, NEW c \in Nat,
         Within(rows, n), Counted(rows, c, n)
  PROVE  Counted(InitializeLimitUsage(rows), c + 1, n)
<1> DEFINE new == InitializeLimitUsage(rows)  z == Len(rows)
<1>1. /\ new \in Seq(Nat) /\ Len(new) = z + 1 /\ DOMAIN new = 1..(z + 1)
      /\ \A i \in 1..z : new[i] = rows[i]
      /\ new[z + 1] = 1
  BY Starts
<1>2. DOMAIN rows = 1..z /\ z \in Nat BY RowsType
<1>3. \A i \in DOMAIN rows : rows[i] \in Nat /\ rows[i] <= n BY RowsBelow
<1> HIDE DEF new
<1>4. Falling(new)
  <2>1. \A i \in DOMAIN new : i \in 1..z \/ i = z + 1 BY <1>1, <1>2
  <2>2. ASSUME NEW i \in DOMAIN new PROVE new[i] \in Nat /\ new[i] >= 1
    <3>1. CASE i \in 1..z BY <1>1, <1>2, <1>3, <3>1 DEF Counted, Falling
    <3>2. CASE i = z + 1 BY <1>1, <3>2
    <3> QED BY <2>1, <3>1, <3>2
  <2>3. ASSUME NEW i \in DOMAIN new, NEW j \in DOMAIN new, i <= j PROVE new[i] >= new[j]
    <3>1. CASE j \in 1..z
      <4>1. i \in 1..z BY <1>1, <1>2, <2>3, <3>1
      <4> QED BY <1>1, <1>2, <2>3, <3>1, <4>1 DEF Counted, Falling
    <3>2. CASE j = z + 1 BY <1>1, <2>2, <3>2
    <3> QED BY <2>1, <3>1, <3>2
  <2> QED BY <2>2, <2>3 DEF Falling
<1>5. new # <<>> BY <1>1, <1>2, RowsType
<1>6. c <= n * z
  <2>1. CASE rows = <<>>
    <3>1. z = 0 BY <2>1
    <3> HIDE DEF z
    <3>2. n * z = 0 BY <3>1
    <3> QED BY <2>1, <3>2 DEF Counted
  <2>2. CASE rows # <<>>
    <3>1. c <= n * (z - 1) + rows[z] BY <2>2 DEF Counted
    <3>2. rows[z] \in Nat /\ rows[z] <= n BY <1>3, <2>2, LastRow
    <3> HIDE DEF z
    <3>3. n * (z - 1) + n = n * z BY <1>2
    <3>4. n * (z - 1) \in Int /\ n * z \in Int BY <1>2
    <3> QED BY <3>1, <3>2, <3>3, <3>4, SumBelow
  <2> QED BY <2>1, <2>2
<1>7. n * (Len(new) - 1) + new[Len(new)] = n * z + 1
  <2>1. Len(new) - 1 = z BY <1>1, <1>2
  <2> QED BY <1>1, <2>1
<1>8. n * z \in Nat BY <1>2
<1> HIDE DEF z
<1>9. c + 1 <= n * (Len(new) - 1) + new[Len(new)]
  <2> DEFINE k == n * z
  <2> HIDE DEF k
  <2>1. c + 1 <= k + 1 BY <1>6, <1>8 DEF k
  <2> QED BY <1>7, <2>1 DEF k
<1> QED BY <1>4, <1>5, <1>9 DEF Counted, new

LEMMA CountedMost ==
  ASSUME NEW rows \in Seq(Nat), NEW n \in Nat, n > 0, NEW c \in Nat,
         Within(rows, n), Counted(rows, c, n)
  PROVE  c <= n * Max({1, Len(rows)})
<1> DEFINE z == Len(rows)
<1>1. z \in Nat BY RowsType
<1>2. Max({1, z}) = IF z > 1 THEN z ELSE 1 BY <1>1, MaxOfTwo
<1>3. CASE rows = <<>>
  <2>1. c = 0 BY <1>3 DEF Counted
  <2>2. z = 0 BY <1>3
  <2>3. Max({1, z}) = 1 BY <1>2, <2>2
  <2> HIDE DEF z
  <2> QED BY <2>1, <2>3 DEF z
<1>4. CASE rows # <<>>
  <2>1. c <= n * (z - 1) + rows[z] BY <1>4 DEF Counted
  <2>2. rows[z] \in Nat /\ rows[z] <= n BY <1>4, RowsBelow, LastRow
  <2>3. z > 0 BY <1>4, RowsType
  <2>4. Max({1, z}) = z BY <1>1, <1>2, <2>3
  <2> HIDE DEF z
  <2>5. n * (z - 1) + n = n * z BY <1>1
  <2>6. n * (z - 1) \in Int /\ n * z \in Int BY <1>1
  <2>7. c <= n * z BY <2>1, <2>2, <2>5, <2>6, SumBelow
  <2> QED BY <2>4, <2>7 DEF z
<1> QED BY <1>3, <1>4

LEMMA InitCharges == QuotaInit => ChargesInv
<1> SUFFICES ASSUME QuotaInit PROVE ChargesInv OBVIOUS
<1>1. \A g \in Gated : guard[g].pc = "idle" BY PassedType DEF QuotaInit
<1>2. PICK used \in SUBSET QuotaUsers :
        /\ usage = [u \in QuotaUsers |-> [l \in LimitIds |->
                      IF u \in used /\ UsedOnce(l) THEN <<1>> ELSE <<>>]]
        /\ charges = [u \in QuotaUsers |-> [l \in LimitIds |->
                        IF u \in used /\ UsedOnce(l) THEN 1 ELSE 0]]
  BY DEF QuotaInit
<1>3. ASSUME NEW n \in Nat PROVE Counted(<<1>>, 1, n) /\ Counted(<<>>, 0, n)
  <2>1. Falling(<<1>>) /\ Falling(<<>>) BY DEF Falling
  <2>2. Len(<<1>>) = 1 /\ <<1>>[1] = 1 /\ <<1>> # <<>> OBVIOUS
  <2>3. n * (1 - 1) = 0 OBVIOUS
  <2> QED BY <2>1, <2>2, <2>3 DEF Counted
<1>4. ASSUME NEW u \in QuotaUsers, NEW l \in LimitIds, Bounded(l)
      PROVE  Counted(usage[u][l], charges[u][l], limits[l].count)
  <2>1. \/ usage[u][l] = <<1>> /\ charges[u][l] = 1
        \/ usage[u][l] = <<>> /\ charges[u][l] = 0
    BY <1>2
  <2>2. limits[l].count \in Nat BY <1>4, InitInv, LimitCount DEF Bounded
  <2> QED BY <1>3, <2>1, <2>2
<1> QED BY <1>1, <1>4 DEF ChargesInv, SeesRoute

LEMMA ChargesSame ==
  ASSUME ChargesInv, UNCHANGED <<limits, usage, guard, charges>>
  PROVE  ChargesInv'
BY DEF ChargesInv, SeesRoute, Spent, Bounded

LEMMA SeesMoves ==
  ASSUME Inv, ChargesInv, NEW g \in Gated, NEW r, Moves(g, r),
         r.pc # "idle" => \E x \in Resources : r.pattern = PatternOf[<<x, r.method>>],
         r.pc = "decrement" => ~Spent(r.limit)
  PROVE  \A h \in Gated : SeesRoute(h)'
<1>1. guard'[g] = r /\ \A i \in Gated : i # g => guard'[i] = guard[i] BY MoveFacts
<1>2. UNCHANGED limits BY DEF Moves
<1>3. ASSUME NEW h \in Gated, h # g PROVE SeesRoute(h)'
  BY <1>1, <1>2, <1>3 DEF ChargesInv, SeesRoute, Spent
<1>4. SeesRoute(g)' BY <1>1, <1>2 DEF SeesRoute, Spent
<1> QED BY <1>3, <1>4

LEMMA SeesServes ==
  ASSUME Inv, ChargesInv, NEW g \in Gated, NEW r, Serves(g, r)
  PROVE  r.pc # "idle" => \E x \in Resources : r.pattern = PatternOf[<<x, r.method>>]
BY DEF Serves, ChargesInv, SeesRoute

LEMMA CountsKept ==
  ASSUME ChargesInv, UNCHANGED <<limits, usage, charges>>
  PROVE  \A u \in QuotaUsers, l \in LimitIds :
            Bounded(l)' => Counted(usage'[u][l], charges'[u][l], limits'[l].count)
BY DEF ChargesInv, Bounded, Spent

LEMMA CountsMoved ==
  ASSUME Inv, ChargesInv, NEW u \in QuotaUsers, NEW l \in LimitIds,
         NEW rows \in Seq(Nat), UNCHANGED limits,
         usage' = [usage EXCEPT ![u][l] = rows],
         UNCHANGED charges \/ charges' = [charges EXCEPT ![u][l] = @ + 1],
         Bounded(l) => Counted(rows, charges'[u][l], limits[l].count)
  PROVE  \A v \in QuotaUsers, k \in LimitIds :
            Bounded(k)' => Counted(usage'[v][k], charges'[v][k], limits'[k].count)
<1>0. usage' = [usage EXCEPT ![u][l] = rows] OBVIOUS
<1>1. /\ usage'[u][l] = rows
      /\ \A v \in QuotaUsers, k \in LimitIds : v # u \/ k # l => usage'[v][k] = usage[v][k]
  BY <1>0, Typed
<1>2. \A v \in QuotaUsers, k \in LimitIds : v # u \/ k # l => charges'[v][k] = charges[v][k]
  BY ChargesStep
<1>3. \A k \in LimitIds : Bounded(k)' = Bounded(k) BY DEF Bounded, Spent
<1> TAKE v \in QuotaUsers, k \in LimitIds
<1>4. CASE v = u /\ k = l BY <1>1, <1>3, <1>4
<1>5. CASE v # u \/ k # l BY <1>1, <1>2, <1>3, <1>5 DEF ChargesInv
<1> QED BY <1>4, <1>5

(* What is known of a limit's counters before a step. *)
LEMMA CountsKnown ==
  ASSUME Inv, RowsInv, ChargesInv, NEW u \in QuotaUsers, NEW l \in LimitIds, Bounded(l)
  PROVE  /\ limits[l].count \in Nat /\ limits[l].count > 0
         /\ usage[u][l] \in Seq(Nat) /\ charges[u][l] \in Nat
         /\ Within(usage[u][l], limits[l].count)
         /\ Counted(usage[u][l], charges[u][l], limits[l].count)
<1>1. limits[l].count \in Nat /\ limits[l].count > 0 BY LimitCount DEF Bounded, Unlimited
<1>2. usage[u][l] \in Seq(Nat) /\ charges[u][l] \in Nat BY Typed
<1> QED BY <1>1, <1>2 DEF RowsInv, ChargesInv

LEMMA GuardCharges ==
  ASSUME Inv, RowsInv, ChargesInv, NEW g \in Gated, GuardStep(g)
  PROVE  ChargesInv'
<1>1. ASSUME NEW r, Moves(g, r), Serves(g, r), r.pc # "decrement" PROVE \A h \in Gated : SeesRoute(h)'
  BY <1>1, SeesServes, SeesMoves
<1>2. ASSUME NEW r, Moves(g, r), Serves(g, r), r.pc # "decrement", UNCHANGED <<usage, charges>>
      PROVE  ChargesInv'
  BY <1>1, <1>2, CountsKept DEF Moves, ChargesInv
<1>3. ASSUME NEW u \in QuotaUsers, NEW res \in Resources, NEW m \in Methods, Enter(g, u, res, m)
      PROVE  ChargesInv'
  <2>1. PICK r : /\ Moves(g, r) /\ r.pc = "count" /\ r.pattern = PatternOf[<<res, m>>]
                 /\ r.method = m /\ UNCHANGED <<usage, charges>>
    BY <1>3, EnterMoves
  <2> QED BY <2>1, SeesMoves, CountsKept DEF Moves, ChargesInv
<1>4. CASE Count(g) BY <1>2, <1>4, CountMoves
<1>5. CASE Active(g) BY <1>2, <1>5, ActiveMoves
<1>6. CASE LookUp(g)
  <2>1. PICK r : /\ Moves(g, r) /\ Serves(g, r) /\ guard[g].pc = "lookup"
                 /\ UNCHANGED <<usage, charges>>
                 /\ r.pc \in AtWork => /\ EndpointOf[limits[r.limit].res] = guard[g].pattern
                                       /\ r.pc = "decrement" => guard[g].method = "DELETE"
    BY <1>6, LookUpMoves
  <2>2. PICK x \in Resources : guard[g].pattern = PatternOf[<<x, guard[g].method>>]
    BY <2>1 DEF ChargesInv, SeesRoute
  <2>3. r.pc = "decrement" => ~Spent(r.limit)
    BY <2>1, <2>2 DEF Spent, AtWork
  <2> QED BY <2>1, <2>3, SeesServes, SeesMoves, CountsKept DEF Moves, ChargesInv
<1>7. CASE Decrement(g)
  <2> DEFINE u == guard[g].user  l == guard[g].limit  rows == DecrementLimitUsage(usage[u][l])
  <2>1. PICK r : /\ Moves(g, r) /\ Serves(g, r) /\ r.pc \in {"idle", "lookup"}
                 /\ guard[g].pc = "decrement" /\ u \in QuotaUsers /\ l \in LimitIds
                 /\ UNCHANGED usage \/ usage' = [usage EXCEPT ![u][l] = rows]
                 /\ UNCHANGED charges
    BY <1>7, DecrementMoves
  <2>2. ~Bounded(l) BY <2>1 DEF ChargesInv, SeesRoute, Bounded
  <2>3. rows \in Seq(Nat)
    <3>1. usage[u][l] \in Seq(Nat) BY <2>1, Typed
    <3> QED BY <3>1, Decrements
  <2>4. \A h \in Gated : SeesRoute(h)' BY <1>1, <2>1
  <2>5. UNCHANGED limits BY <2>1 DEF Moves
  <2>6. CASE UNCHANGED usage BY <1>2, <2>1, <2>6
  <2>7. CASE usage' = [usage EXCEPT ![u][l] = rows]
    <3> HIDE DEF u, l, rows
    <3> QED BY <2>1, <2>2, <2>3, <2>4, <2>5, <2>7, CountsMoved DEF ChargesInv
  <2> QED BY <2>1, <2>6, <2>7
<1>8. CASE Increment(g)
  <2> DEFINE u == guard[g].user  l == guard[g].limit  n == guard[g].count
             rows == IncrementLimitUsage(usage[u][l], n)
  <2>1. /\ guard[g].pc = "increment" /\ u \in QuotaUsers /\ l \in LimitIds /\ n \in Nat
        /\ \E r : /\ Moves(g, r) /\ Serves(g, r)
                  /\ r.pc \in {"idle", "lookup"} \/ r = [guard[g] EXCEPT !.pc = "get"]
        /\ \/ /\ rows # usage[u][l]
              /\ usage' = [usage EXCEPT ![u][l] = rows]
              /\ charges' = [charges EXCEPT ![u][l] = @ + 1]
           \/ /\ UNCHANGED usage \/ usage' = [usage EXCEPT ![u][l] = rows]
              /\ UNCHANGED charges
    BY <1>8, IncrementMoves
  <2>2. PICK r : /\ Moves(g, r) /\ Serves(g, r)
                 /\ r.pc \in {"idle", "lookup"} \/ r = [guard[g] EXCEPT !.pc = "get"]
    BY <2>1
  <2>3. r.pc # "decrement"
    <3>1. [guard[g] EXCEPT !.pc = "get"].pc = "get" BY Typed DEF Guard
    <3> QED BY <2>2, <3>1
  <2>4. \A h \in Gated : SeesRoute(h)' BY <1>1, <2>2, <2>3
  <2>5. limits[l].count = n BY <2>1 DEF RowsInv, Knows, AtWork
  <2>6. rows \in Seq(Nat)
    <3>1. usage[u][l] \in Seq(Nat) BY <2>1, Typed
    <3> QED BY <2>1, <3>1, Increments
  <2>7. Bounded(l) => /\ Counted(rows, charges[u][l], n)
                      /\ rows # usage[u][l] => Counted(rows, charges[u][l] + 1, n)
    <3> HIDE DEF u, l, n
    <3> SUFFICES ASSUME Bounded(l)
                 PROVE  /\ Counted(rows, charges[u][l], n)
                        /\ rows # usage[u][l] => Counted(rows, charges[u][l] + 1, n)
      OBVIOUS
    <3>1. /\ n \in Nat /\ n > 0 /\ usage[u][l] \in Seq(Nat) /\ charges[u][l] \in Nat
          /\ Within(usage[u][l], n) /\ Counted(usage[u][l], charges[u][l], n)
      BY <2>1, <2>5, CountsKnown
    <3> QED BY <3>1, CountedUp
  <2>8. UNCHANGED limits BY <2>2 DEF Moves
  <2> HIDE DEF u, l, n, rows
  <2>9. CASE UNCHANGED usage /\ UNCHANGED charges
    BY <2>4, <2>8, <2>9, CountsKept DEF ChargesInv
  <2>10. CASE usage' = [usage EXCEPT ![u][l] = rows] /\ UNCHANGED charges
    <3>1. Bounded(l) => Counted(rows, charges'[u][l], limits[l].count) BY <2>5, <2>7, <2>10
    <3> QED BY <2>1, <2>4, <2>6, <2>8, <2>10, <3>1, CountsMoved DEF ChargesInv
  <2>11. CASE /\ rows # usage[u][l]
              /\ usage' = [usage EXCEPT ![u][l] = rows]
              /\ charges' = [charges EXCEPT ![u][l] = @ + 1]
    <3>1. charges'[u][l] = charges[u][l] + 1 BY <2>1, <2>11, ChargesStep
    <3>2. Bounded(l) => Counted(rows, charges'[u][l], limits[l].count)
      BY <2>5, <2>7, <2>11, <3>1
    <3> QED BY <2>1, <2>4, <2>6, <2>8, <2>11, <3>2, CountsMoved DEF ChargesInv
  <2> QED BY <2>1, <2>9, <2>10, <2>11
<1>9. CASE GetUsage(g)
  <2>1. UNCHANGED <<usage, charges>> BY <1>9, GetUsageMoves
  <2>2. PICK r : /\ Moves(g, r) /\ Serves(g, r)
                 /\ r.pc = "idle" \/ r = [guard[g] EXCEPT !.pc = "init"]
    BY <1>9, GetUsageMoves
  <2>3. [guard[g] EXCEPT !.pc = "init"].pc = "init" BY Typed DEF Guard
  <2>4. r.pc # "decrement" BY <2>2, <2>3
  <2> QED BY <1>2, <2>1, <2>2, <2>4
<1>10. CASE Initialize(g)
  <2> DEFINE u == guard[g].user  l == guard[g].limit  rows == InitializeLimitUsage(usage[u][l])
  <2>1. /\ guard[g].pc = "init" /\ u \in QuotaUsers /\ l \in LimitIds
        /\ \E r : Moves(g, r) /\ Serves(g, r) /\ r.pc \in {"idle", "lookup"}
        /\ \/ UNCHANGED <<usage, charges>>
           \/ /\ usage' = [usage EXCEPT ![u][l] = rows]
              /\ charges' = [charges EXCEPT ![u][l] = @ + 1]
    BY <1>10, InitializeMoves
  <2>2. PICK r : Moves(g, r) /\ Serves(g, r) /\ r.pc \in {"idle", "lookup"} BY <2>1
  <2>3. \A h \in Gated : SeesRoute(h)' BY <1>1, <2>2
  <2>4. UNCHANGED limits BY <2>2 DEF Moves
  <2>5. CASE UNCHANGED <<usage, charges>> BY <1>2, <2>2, <2>5
  <2>6. CASE /\ usage' = [usage EXCEPT ![u][l] = rows]
             /\ charges' = [charges EXCEPT ![u][l] = @ + 1]
    <3>1. rows \in Seq(Nat)
      <4>1. usage[u][l] \in Seq(Nat) BY <2>1, Typed
      <4> QED BY <4>1, Starts
    <3> HIDE DEF u, l
    <3>2. charges'[u][l] = charges[u][l] + 1 BY <2>1, <2>6, ChargesStep
    <3>3. Bounded(l) => Counted(rows, charges[u][l] + 1, limits[l].count)
      <4> SUFFICES ASSUME Bounded(l) PROVE Counted(rows, charges[u][l] + 1, limits[l].count)
        OBVIOUS
      <4> QED BY <2>1, CountsKnown, CountedNew
    <3> HIDE DEF rows
    <3> QED BY <2>1, <2>3, <2>4, <2>6, <3>1, <3>2, <3>3, CountsMoved DEF ChargesInv
  <2> QED BY <2>1, <2>5, <2>6
<1>11. CASE \E u \in QuotaUsers, res \in Resources, m \in Methods : Enter(g, u, res, m)
  BY <1>3, <1>11
<1> QED BY <1>4, <1>5, <1>6, <1>7, <1>8, <1>9, <1>10, <1>11 DEF GuardStep

LEMMA EditCharges ==
  ASSUME Inv, RowsInv, ChargesInv, NEW e \in Edits, EditStep(e)
  PROVE  ChargesInv'
<1>1. Puts(e) BY EditPuts
<1>2. UNCHANGED <<guard, charges>> BY <1>1 DEF Puts, editOnly
<1>3. limits' \in [LimitIds -> Limit] /\ \A l \in LimitIds : Keeps(l) /\ Clears(l)
  BY <1>1 DEF Puts
<1>4. \A l \in LimitIds : limits[l].state # "unborn" =>
         limits'[l].count = limits[l].count /\ limits'[l].res = limits[l].res
  BY <1>3, KeepsFacts
<1>5. ASSUME NEW g \in Gated PROVE SeesRoute(g)'
  <2>1. SeesRoute(g) BY DEF ChargesInv
  <2>2. CASE guard[g].pc # "decrement" BY <1>2, <2>1, <2>2 DEF SeesRoute
  <2>3. CASE guard[g].pc = "decrement"
    <3>1. guard[g].limit \in LimitIds /\ limits[guard[g].limit].state # "unborn"
      BY <2>3, Typed DEF RowsInv, Knows, AtWork
    <3>2. limits'[guard[g].limit].res = limits[guard[g].limit].res BY <1>4, <3>1
    <3> QED BY <1>2, <2>1, <2>3, <3>2 DEF SeesRoute, Spent
  <2> QED BY <2>2, <2>3
<1>6. ASSUME NEW u \in QuotaUsers, NEW l \in LimitIds, Bounded(l)'
      PROVE  Counted(usage'[u][l], charges'[u][l], limits'[l].count)
  <2>1. limits'[l].state = "live" BY <1>6 DEF Bounded
  <2>2. CASE limits[l].state = "unborn"
    <3>1. usage[u][l] = <<>> /\ charges[u][l] = 0 BY <2>2 DEF RowsInv, Fresh
    <3>2. usage'[u][l] = <<>> /\ charges'[u][l] = 0 BY <1>2, <1>3, <3>1 DEF Clears
    <3>3. Falling(<<>>) BY DEF Falling
    <3> QED BY <3>2, <3>3 DEF Counted
  <2>3. CASE limits[l].state # "unborn"
    <3>1. limits[l].state = "live" BY <1>3, <2>1, <2>3, KeepsFacts
    <3>2. Bounded(l) BY <1>4, <1>6, <2>3, <3>1 DEF Bounded, Spent
    <3>3. usage'[u][l] = usage[u][l] BY <1>3, <2>1, <2>3 DEF Clears
    <3> QED BY <1>2, <1>4, <2>3, <3>2, <3>3 DEF ChargesInv
  <2> QED BY <2>2, <2>3
<1> QED BY <1>5, <1>6 DEF ChargesInv

LEMMA ChargesStepHolds == Inv /\ RowsInv /\ ChargesInv /\ [QuotaNext]_quotaVars => ChargesInv'
<1> SUFFICES ASSUME Inv, RowsInv, ChargesInv, [QuotaNext]_quotaVars PROVE ChargesInv' OBVIOUS
<1>1. CASE \E g \in Gated : GuardStep(g) BY <1>1, GuardCharges
<1>2. CASE \E e \in Edits : EditStep(e) BY <1>2, EditCharges
<1>3. CASE \/ \E b \in Purchases : PurchaseStep(b)
           \/ \E u \in QuotaUsers : \E i \in DOMAIN subs[u] : Lapse(u, i)
           \/ UNCHANGED quotaVars
  BY <1>3, OtherSteps, ChargesSame
<1> QED BY <1>1, <1>2, <1>3, StepCases

(* Where no route that deletes gives a use back, a user's requests let        *)
(* through on a limit are at most the limit for every counter that races made *)
(* (limit_guard.go: each counter counts to the limit and then refuses; a      *)
(* second one is the price of a race, and no third path lets a request past). *)
THEOREM ChargesWithinLimitHolds == QuotaSpec => []ChargesWithinLimit
<1>1. Inv /\ RowsInv /\ ChargesInv => ChargesWithinLimit
  <2> SUFFICES ASSUME Inv, RowsInv, ChargesInv, NEW u \in QuotaUsers, NEW l \in LimitIds, Bounded(l)
               PROVE  charges[u][l] <= limits[l].count * Max({1, Len(usage[u][l])})
    BY DEF ChargesWithinLimit, Bounded, Spent
  <2> QED BY CountsKnown, CountedMost
<1>2. QuotaSpec => [](Inv /\ RowsInv /\ ChargesInv)
  BY InitInv, InitRows, InitCharges, InvStep, RowsStep, ChargesStepHolds, PTL DEF QuotaSpec
<1> QED BY <1>1, <1>2, PTL

-----------------------------------------------------------------------------
(* The free plan.                                                            *)

Has(u, p) == GetSubscriptionByUserAndPackage(u, p)

Buying(b, u) == purchase[b].pc \in {"check", "create"} /\ purchase[b].user = u

(* A package not yet renamed is called free while it can be bought, so that   *)
(* buying it passes the check; the purchases of a user outside crowded follow *)
(* each other, so that what the check saw still holds when the row is made.  *)
FreeNamed(p) == plans[p] \in {FreeSlug, "unborn", "removed"}
BuysAlone(u) == \A b, c \in Purchases : Buying(b, u) /\ Buying(c, u) => b = c
FirstOfPlan(b) ==
  purchase[b].pc = "create" /\ purchase[b].user \notin crowded /\ purchase[b].plan \notin renamed
    => Has(purchase[b].user, purchase[b].plan) = {}
HasOne(u, p) == \A i, j \in Has(u, p) : i = j

FreeInv ==
  /\ \A p \in Plans \ renamed : FreeNamed(p)
  /\ \A u \in QuotaUsers \ crowded : BuysAlone(u)
  /\ \A b \in Purchases : FirstOfPlan(b)
  /\ \A u \in QuotaUsers \ crowded, p \in Plans \ renamed : HasOne(u, p)

LEMMA InitFree == QuotaInit => FreeInv
<1> SUFFICES ASSUME QuotaInit PROVE FreeInv OBVIOUS
<1>1. \A p \in Plans \ renamed : FreeNamed(p)
  BY Constants DEF QuotaInit, FreeNamed
<1>2. \A b \in Purchases : purchase[b].pc = "new" BY PassedType DEF QuotaInit
<1>3. ASSUME NEW u \in QuotaUsers, NEW p \in Plans PROVE HasOne(u, p)
  <2>1. subs[u] = <<>> \/ subs[u] = <<NewSubscription(FreePlan)>> BY DEF QuotaInit
  <2>2. \A i, j \in DOMAIN subs[u] : i = j
    <3>1. DOMAIN <<>> = {} /\ DOMAIN <<NewSubscription(FreePlan)>> = {1} OBVIOUS
    <3> QED BY <2>1, <3>1
  <2> QED BY <2>2 DEF HasOne, Has, GetSubscriptionByUserAndPackage, SubscriptionsOf
<1> QED BY <1>1, <1>2, <1>3 DEF FreeInv, BuysAlone, Buying, FirstOfPlan

LEMMA SoldLess ==
  ASSUME NEW u \in QuotaUsers, StaysSold(u), NEW p
  PROVE  Has(u, p)' \subseteq Has(u, p)
BY DEF StaysSold, Has, GetSubscriptionByUserAndPackage, SubscriptionsOf

(* No purchase makes a step. *)
LEMMA FreeKept ==
  ASSUME Inv, FreeInv, UNCHANGED purchase, crowded \subseteq crowded',
         \A p \in Plans : Names(p), \A u \in QuotaUsers : StaysSold(u)
  PROVE  FreeInv'
<1>1. \A p \in Plans \ renamed' : FreeNamed(p)' BY DEF FreeInv, Names, FreeNamed
<1>2. \A u \in QuotaUsers \ crowded' : BuysAlone(u)' BY DEF FreeInv, BuysAlone, Buying
<1>3. \A p \in Plans : p \notin renamed' => p \notin renamed BY DEF Names
<1>4. ASSUME NEW b \in Purchases PROVE FirstOfPlan(b)'
  <2> SUFFICES ASSUME purchase[b].pc = "create", purchase[b].user \notin crowded',
                      purchase[b].plan \notin renamed'
               PROVE  Has(purchase[b].user, purchase[b].plan)' = {}
    BY DEF FirstOfPlan, Has, GetSubscriptionByUserAndPackage, SubscriptionsOf
  <2>1. purchase[b].user \in QuotaUsers /\ purchase[b].plan \in Plans BY Typed DEF Purchase
  <2>2. Has(purchase[b].user, purchase[b].plan) = {}
    BY <1>3, <2>1 DEF FreeInv, FirstOfPlan
  <2>3. UNCHANGED <<purchase[b].user, purchase[b].plan>> OBVIOUS
  <2> DEFINE u == purchase[b].user  p == purchase[b].plan
  <2>4. \A i \in DOMAIN subs'[u] : subs'[u][i].state # "deleted" /\ subs'[u][i].plan = p => FALSE
    BY <2>1, <2>2 DEF StaysSold, Has, GetSubscriptionByUserAndPackage, SubscriptionsOf
  <2> QED BY <2>3, <2>4 DEF Has, GetSubscriptionByUserAndPackage, SubscriptionsOf
<1>5. \A u \in QuotaUsers \ crowded', p \in Plans \ renamed' : HasOne(u, p)'
  BY <1>3, SoldLess DEF FreeInv, HasOne
<1> QED BY <1>1, <1>2, <1>4, <1>5 DEF FreeInv

(* Who buys while nobody else buys for the same user. *)
LEMMA AloneBuys ==
  ASSUME Inv, FreeInv, NEW b \in Purchases, NEW q, Buys(b, q),
         q.pc # "new" => \/ purchase[b].pc # "new" /\ purchase[b].user = q.user
                         \/ (\E c \in Purchases : Buying(c, q.user)) => q.user \in crowded'
  PROVE  \A u \in QuotaUsers \ crowded' : BuysAlone(u)'
<1> SUFFICES ASSUME NEW u \in QuotaUsers \ crowded', NEW c \in Purchases, NEW d \in Purchases,
                    Buying(c, u)', Buying(d, u)', c # d
             PROVE  FALSE
  BY DEF BuysAlone
<1>1. u \notin crowded /\ BuysAlone(u) BY DEF Buys, FreeInv
<1>2. purchase'[b] = q /\ \A i \in Purchases : i # b => purchase'[i] = purchase[i] BY BuyFacts
<1>3. CASE c # b /\ d # b BY <1>1, <1>2, <1>3 DEF BuysAlone, Buying
<1>4. CASE c = b \/ d = b
  <2>1. PICK i \in Purchases : i # b /\ Buying(i, u) BY <1>2, <1>4 DEF Buying
  <2>2. q.pc \in {"check", "create"} /\ q.user = u BY <1>2, <1>4 DEF Buying
  <2>3. CASE purchase[b].pc # "new" /\ purchase[b].user = q.user
    <3>1. purchase[b].pc \in {"check", "create"} BY <2>3, Typed DEF Purchase
    <3> QED BY <1>1, <2>1, <2>2, <2>3, <3>1 DEF BuysAlone, Buying
  <2> QED BY <2>1, <2>2, <2>3
<1> QED BY <1>3, <1>4

(* A purchase that sells nothing yet. *)
LEMMA FreeAsked ==
  ASSUME Inv, FreeInv, NEW b \in Purchases, NEW q, Buys(b, q), UNCHANGED subs,
         q.pc # "new" => \/ purchase[b].pc # "new" /\ purchase[b].user = q.user
                         \/ (\E c \in Purchases : Buying(c, q.user)) => q.user \in crowded',
         q.pc = "create" /\ q.plan \notin renamed => Has(q.user, q.plan) = {}
  PROVE  FreeInv'
<1>1. purchase'[b] = q /\ \A i \in Purchases : i # b => purchase'[i] = purchase[i] BY BuyFacts
<1>2. UNCHANGED <<plans, renamed>> /\ crowded \subseteq crowded' BY DEF Buys, purchaseOnly
<1>3. \A p \in Plans \ renamed' : FreeNamed(p)' BY <1>2 DEF FreeInv, FreeNamed
<1>4. ASSUME NEW c \in Purchases PROVE FirstOfPlan(c)'
  <2>1. CASE c = b
    BY <1>1, <1>2, <2>1 DEF FirstOfPlan, Has, GetSubscriptionByUserAndPackage, SubscriptionsOf
  <2>2. CASE c # b
    BY <1>1, <1>2, <2>2 DEF FreeInv, FirstOfPlan, Has, GetSubscriptionByUserAndPackage, SubscriptionsOf
  <2> QED BY <2>1, <2>2
<1>5. \A u \in QuotaUsers \ crowded', p \in Plans \ renamed' : HasOne(u, p)'
  BY <1>2 DEF FreeInv, HasOne, Has, GetSubscriptionByUserAndPackage, SubscriptionsOf
<1> QED BY <1>3, <1>4, <1>5, AloneBuys DEF FreeInv

(* The row a purchase makes. *)
LEMMA FreeSold ==
  ASSUME Inv, FreeInv, NEW b \in Purchases, NEW u \in QuotaUsers, NEW p \in Plans,
         purchase[b].pc = "create", u = purchase[b].user, p = purchase[b].plan,
         Buys(b, NoPurchase), subs' = [subs EXCEPT ![u] = Append(subs[u], NewSubscription(p))]
  PROVE  FreeInv'
<1>1. /\ purchase'[b] = NoPurchase /\ NoPurchase.pc = "new"
      /\ \A i \in Purchases : i # b => purchase'[i] = purchase[i]
  BY BuyFacts, PassedType
<1>2. UNCHANGED <<plans, renamed>> /\ crowded \subseteq crowded' BY DEF Buys, purchaseOnly
<1>3. \A q \in Plans \ renamed' : FreeNamed(q)' BY <1>2 DEF FreeInv, FreeNamed
<1>4. \A v \in QuotaUsers \ crowded' : BuysAlone(v)' BY <1>1, AloneBuys
<1>5. /\ \A v \in QuotaUsers : v # u => subs'[v] = subs[v]
      /\ subs'[u] = Append(subs[u], NewSubscription(p))
  BY Typed
<1>6. ASSUME NEW v \in QuotaUsers, v # u, NEW q PROVE Has(v, q)' = Has(v, q)
  BY <1>5, <1>6 DEF Has, GetSubscriptionByUserAndPackage, SubscriptionsOf
<1>7. ASSUME NEW c \in Purchases PROVE FirstOfPlan(c)'
  <2> SUFFICES ASSUME c # b, purchase[c].pc = "create", purchase[c].user \notin crowded',
                      purchase[c].plan \notin renamed
               PROVE  Has(purchase[c].user, purchase[c].plan)' = {}
    BY <1>1, <1>2 DEF FirstOfPlan, Has, GetSubscriptionByUserAndPackage, SubscriptionsOf
  <2>1. purchase'[c] = purchase[c] /\ purchase[c].user \in QuotaUsers \ crowded
    BY <1>1, <1>2, Typed
  <2>2. purchase[c].user # u
    BY <2>1 DEF FreeInv, BuysAlone, Buying
  <2>3. Has(purchase[c].user, purchase[c].plan) = {} BY <2>1 DEF FreeInv, FirstOfPlan
  <2>4. subs'[purchase[c].user] = subs[purchase[c].user] BY <1>5, <2>1, <2>2
  <2> DEFINE v == purchase'[c].user  q == purchase'[c].plan
  <2>5. \A i \in DOMAIN subs'[v] : ~(subs'[v][i].state # "deleted" /\ subs'[v][i].plan = q)
    <3>1. \A i \in DOMAIN subs[purchase[c].user] :
            ~(/\ subs[purchase[c].user][i].state # "deleted"
              /\ subs[purchase[c].user][i].plan = purchase[c].plan)
      BY <2>3 DEF Has, GetSubscriptionByUserAndPackage, SubscriptionsOf
    <3> QED BY <2>1, <2>4, <3>1
  <2> QED BY <2>5 DEF Has, GetSubscriptionByUserAndPackage, SubscriptionsOf
<1>8. ASSUME NEW v \in QuotaUsers \ crowded', NEW q \in Plans \ renamed' PROVE HasOne(v, q)'
  <2>1. CASE v # u BY <1>2, <1>6, <2>1 DEF FreeInv, HasOne
  <2>2. CASE v = u
    <3> DEFINE s == subs[u]  n == Len(subs[u])
    <3>1. s \in Seq(Subscription) /\ NewSubscription(p) \in Subscription /\ NewSubscription(p).plan = p
      BY Typed, NewSubscriptionType
    <3>2. /\ DOMAIN s = 1..n /\ n \in Nat /\ DOMAIN subs'[u] = 1..(n + 1)
          /\ \A i \in 1..n : subs'[u][i] = s[i]
          /\ subs'[u][n + 1] = NewSubscription(p)
      BY <1>5, <3>1, AppendProperties, LenProperties
    <3>3. ASSUME NEW i \in Has(u, q)' PROVE i \in Has(u, q) \/ (i = n + 1 /\ q = p)
      <4>1. i \in 1..(n + 1) /\ subs'[u][i].plan = q /\ subs'[u][i].state # "deleted"
        BY <3>2, <3>3 DEF Has, GetSubscriptionByUserAndPackage, SubscriptionsOf
      <4>2. CASE i \in 1..n
        <5>1. i \in DOMAIN subs[u] /\ subs[u][i].plan = q /\ subs[u][i].state # "deleted"
          BY <3>2, <4>1, <4>2
        <5>2. i \in SubscriptionsOf(u) BY <5>1 DEF SubscriptionsOf
        <5>3. i \in Has(u, q) BY <5>1, <5>2 DEF Has, GetSubscriptionByUserAndPackage
        <5> QED BY <5>3
      <4>3. CASE i = n + 1 BY <3>1, <3>2, <4>1, <4>3
      <4> QED BY <3>2, <4>1, <4>2, <4>3
    <3>4. u \notin crowded /\ q \notin renamed BY <1>2, <2>2
    <3>5. q = p => Has(u, q) = {} BY <3>4 DEF FreeInv, FirstOfPlan
    <3>6. \A i, j \in Has(u, q) : i = j BY <3>4 DEF FreeInv, HasOne
    <3>7. \A i, j \in Has(u, q)' : i = j BY <3>3, <3>5, <3>6
    <3> QED BY <2>2, <3>7 DEF HasOne
  <2> QED BY <2>1, <2>2
<1> QED BY <1>3, <1>4, <1>7, <1>8 DEF FreeInv

LEMMA PurchaseFree ==
  ASSUME Inv, FreeInv, NEW b \in Purchases, PurchaseStep(b)
  PROVE  FreeInv'
<1>1. ASSUME NEW u \in Buyers, NEW p \in Plans, Subscribe(b, u, p) PROVE FreeInv'
  <2>1. PICK q : /\ Buys(b, q) /\ q.user = u /\ q.plan = p
                 /\ q.pc = (IF plans[p] = FreeSlug THEN "check" ELSE "create")
                 /\ plans[p] \in PlanSlugs /\ UNCHANGED subs
                 /\ (\E c \in Purchases : purchase[c].pc \in {"check", "create"}
                                            /\ purchase[c].user = u) => u \in crowded'
    BY <1>1, SubscribeBuys
  <2>2. p \notin renamed => plans[p] = FreeSlug
    BY <2>1, Constants DEF FreeInv, FreeNamed
  <2>3. ~(q.pc = "create" /\ q.plan \notin renamed) BY <2>1, <2>2
  <2>4. (\E c \in Purchases : Buying(c, q.user)) => q.user \in crowded' BY <2>1 DEF Buying
  <2> QED BY <2>1, <2>3, <2>4, FreeAsked
<1>2. CASE CheckFree(b)
  <2>1. PICK q : /\ Buys(b, q)
                 /\ \/ q.pc = "new"
                    \/ /\ q = [purchase[b] EXCEPT !.pc = "create"]
                       /\ GetSubscriptionByUserAndPackage(q.user, q.plan) = {}
    BY <1>2, CheckFreeBuys
  <2>2. purchase[b].pc = "check" /\ UNCHANGED subs BY <1>2, CheckFreeBuys
  <2>3. q.pc = "new" \/ q.user = purchase[b].user BY <2>1, Typed DEF Purchase
  <2> QED BY <2>1, <2>2, <2>3, FreeAsked DEF Has
<1>3. CASE CreateSubscription(b)
  <2> DEFINE u == purchase[b].user  p == purchase[b].plan
  <2>1. /\ purchase[b].pc = "create" /\ u \in QuotaUsers /\ p \in Plans
        /\ Buys(b, NoPurchase)
        /\ \/ UNCHANGED subs
           \/ subs' = [subs EXCEPT ![u] = Append(subs[u], NewSubscription(p))]
    BY <1>3, CreateBuys
  <2>2. CASE UNCHANGED subs BY <2>1, <2>2, PassedType, FreeAsked
  <2>3. CASE subs' = [subs EXCEPT ![u] = Append(subs[u], NewSubscription(p))]
    BY <2>1, <2>3, FreeSold
  <2> QED BY <2>1, <2>2, <2>3
<1>4. CASE \E u \in Buyers, p \in Plans : Subscribe(b, u, p) BY <1>1, <1>4
<1> QED BY <1>2, <1>3, <1>4 DEF PurchaseStep

LEMMA FreeStep == Inv /\ FreeInv /\ [QuotaNext]_quotaVars => FreeInv'
<1> SUFFICES ASSUME Inv, FreeInv, [QuotaNext]_quotaVars PROVE FreeInv' OBVIOUS
<1>1. UNCHANGED <<plans, renamed>> => \A p \in Plans : Names(p) BY DEF Names
<1>2. UNCHANGED subs => \A u \in QuotaUsers : StaysSold(u) BY DEF StaysSold
<1>3. ASSUME NEW g \in Gated, GuardStep(g) PROVE FreeInv'
  <2>1. \E r : Moves(g, r)
    <3>1. CASE \E u \in QuotaUsers, res \in Resources, m \in Methods : Enter(g, u, res, m)
      BY <3>1, EnterMoves
    <3> QED BY <1>3, <3>1, CountMoves, ActiveMoves, LookUpMoves, DecrementMoves,
               IncrementMoves, GetUsageMoves, InitializeMoves DEF GuardStep
  <2>2. UNCHANGED <<plans, renamed, subs, purchase>> /\ crowded \subseteq crowded'
    BY <2>1 DEF Moves
  <2> QED BY <1>1, <1>2, <2>2, FreeKept
<1>4. ASSUME NEW b \in Purchases, PurchaseStep(b) PROVE FreeInv' BY <1>4, PurchaseFree
<1>5. ASSUME NEW u \in QuotaUsers, NEW i \in DOMAIN subs[u], Lapse(u, i) PROVE FreeInv'
  <2>1. /\ UNCHANGED <<purchaseOnly, purchase, crowded>>
        /\ \A v \in QuotaUsers : v # u => subs'[v] = subs[v]
        /\ DOMAIN subs'[u] = DOMAIN subs[u]
        /\ \A j \in DOMAIN subs[u] : subs'[u][j].plan = subs[u][j].plan
             /\ (subs'[u][j].state # "deleted" => subs[u][j].state # "deleted")
    BY <1>5, LapseFacts
  <2>2. \A v \in QuotaUsers : StaysSold(v) BY <2>1 DEF StaysSold
  <2>3. UNCHANGED <<plans, renamed, purchase, crowded>> BY <2>1 DEF purchaseOnly
  <2> QED BY <1>1, <2>2, <2>3, FreeKept
<1>6. ASSUME NEW e \in Edits, EditStep(e) PROVE FreeInv'
  <2>1. Puts(e) BY <1>6, EditPuts
  <2>2. UNCHANGED <<purchase, crowded>> BY <2>1 DEF Puts, editOnly
  <2> QED BY <2>1, <2>2, FreeKept DEF Puts
<1>7. CASE UNCHANGED quotaVars
  <2>1. UNCHANGED <<plans, renamed, subs, purchase, crowded>> BY <1>7 DEF quotaVars
  <2> QED BY <1>1, <1>2, <2>1, FreeKept
<1> QED BY <1>3, <1>4, <1>5, <1>6, <1>7, StepCases

(* A user none of whose purchases overlapped or failed never has two rows of  *)
(* a package that was always called free, however often it lapses or is       *)
(* edited (subscription service: Subscribe looks for a row before it makes    *)
(* one, and no package can be bought under the free slug unseen).             *)
THEOREM FreePlanOnce == QuotaSpec => []FreePlanOnceUnlessRaced
<1>1. FreeInv => FreePlanOnceUnlessRaced
  <2> SUFFICES ASSUME FreeInv, NEW u \in QuotaUsers \ crowded, NEW p \in Plans \ renamed
               PROVE  Cardinality(GetSubscriptionByUserAndPackage(u, p)) <= 1
    BY DEF FreePlanOnceUnlessRaced
  <2>1. HasOne(u, p) BY DEF FreeInv
  <2>2. CASE Has(u, p) = {} BY <2>2, FS_EmptySet DEF Has
  <2>3. CASE Has(u, p) # {}
    <3>1. PICK i : i \in Has(u, p) BY <2>3
    <3>2. Has(u, p) = {i} BY <2>1, <3>1 DEF HasOne
    <3>3. Cardinality({i}) = 1 BY FS_Singleton
    <3> QED BY <3>2, <3>3 DEF Has
  <2> QED BY <2>2, <2>3
<1>2. QuotaSpec => [](Inv /\ FreeInv)
  BY InitInv, InitFree, InvStep, FreeStep, PTL DEF QuotaSpec
<1> QED BY <1>1, <1>2, PTL

-----------------------------------------------------------------------------
(* Sums of one number and of none: the folds of the library, written out.     *)

LEMMA SumOfOne ==
  ASSUME NEW n \in Int
  PROVE  SumSet({n}) = n
<1> DEFINE Body(f) == [s \in SUBSET {n} |->
                         IF s = {} THEN 0
                         ELSE LET x == CHOOSE x \in s : TRUE IN x + f[s \ {x}]]
           g == [s \in SUBSET {n} |-> IF s = {} THEN 0 ELSE n]
           h == CHOOSE f : f = Body(f)
<1>0. /\ SUBSET {n} = {{}, {n}} /\ (CHOOSE x \in {n} : TRUE) = n
      /\ {n} \ {n} = {} /\ {n} # {}
  OBVIOUS
<1>1. g = Body(g)
  <2>1. g[{}] = 0 /\ g[{n}] = n BY <1>0
  <2>2. g = [s \in SUBSET {n} |-> g[s]] /\ Body(g) = [s \in SUBSET {n} |-> Body(g)[s]] OBVIOUS
  <2> HIDE DEF g
  <2>3. Body(g)[{}] = 0 BY <1>0
  <2>4. Body(g)[{n}] = n + g[{}] BY <1>0
  <2> HIDE DEF Body
  <2>5. Body(g)[{n}] = n BY <2>1, <2>4
  <2>6. \A s \in SUBSET {n} : g[s] = Body(g)[s]
    <3> TAKE s \in SUBSET {n}
    <3>1. CASE s = {} BY <2>1, <2>3, <3>1
    <3>2. CASE s = {n} BY <2>1, <2>5, <3>2
    <3> QED BY <1>0, <3>1, <3>2
  <2> QED BY <2>2, <2>6, Zenon
<1>2. h = Body(h) BY <1>1
<1>3. h[{}] = 0
  <2> HIDE DEF h
  <2>1. Body(h)[{}] = 0 BY <1>0
  <2> HIDE DEF Body
  <2> QED BY <1>2, <2>1
<1>4. h[{n}] = n
  <2> HIDE DEF h
  <2>1. Body(h)[{n}] = n + h[{}] BY <1>0
  <2> HIDE DEF Body
  <2> QED BY <1>2, <1>3, <2>1
<1>5. SumSet({n}) = h[{n}] BY DEF SumSet, FoldSet, MapThenFoldSet
<1> QED BY <1>4, <1>5

LEMMA SumOnOne ==
  ASSUME NEW fun, NEW a, fun[a] \in Int
  PROVE  SumFunctionOnSet(fun, {a}) = fun[a]
<1> DEFINE Body(f) == [s \in SUBSET {a} |->
                         IF s = {} THEN 0
                         ELSE LET x == CHOOSE x \in s : TRUE IN fun[x] + f[s \ {x}]]
           g == [s \in SUBSET {a} |-> IF s = {} THEN 0 ELSE fun[a]]
           h == CHOOSE f : f = Body(f)
<1>0. /\ SUBSET {a} = {{}, {a}} /\ (CHOOSE x \in {a} : TRUE) = a
      /\ {a} \ {a} = {} /\ {a} # {}
  OBVIOUS
<1>1. g = Body(g)
  <2>1. g[{}] = 0 /\ g[{a}] = fun[a] BY <1>0
  <2>2. g = [s \in SUBSET {a} |-> g[s]] /\ Body(g) = [s \in SUBSET {a} |-> Body(g)[s]] OBVIOUS
  <2> HIDE DEF g
  <2>3. Body(g)[{}] = 0 BY <1>0
  <2>4. Body(g)[{a}] = fun[a] + g[{}] BY <1>0
  <2> HIDE DEF Body
  <2>5. Body(g)[{a}] = fun[a] BY <2>1, <2>4
  <2>6. \A s \in SUBSET {a} : g[s] = Body(g)[s]
    <3> TAKE s \in SUBSET {a}
    <3>1. CASE s = {} BY <2>1, <2>3, <3>1
    <3>2. CASE s = {a} BY <2>1, <2>5, <3>2
    <3> QED BY <1>0, <3>1, <3>2
  <2> QED BY <2>2, <2>6, Zenon
<1>2. h = Body(h) BY <1>1
<1>3. h[{}] = 0
  <2> HIDE DEF h
  <2>1. Body(h)[{}] = 0 BY <1>0
  <2> HIDE DEF Body
  <2> QED BY <1>2, <2>1
<1>4. h[{a}] = fun[a]
  <2> HIDE DEF h
  <2>1. Body(h)[{a}] = fun[a] + h[{}] BY <1>0
  <2> HIDE DEF Body
  <2> QED BY <1>2, <1>3, <2>1
<1>5. SumFunctionOnSet(fun, {a}) = h[{a}]
  BY Zenon DEF SumFunctionOnSet, FoldFunctionOnSet, MapThenFoldSet
<1> QED BY <1>4, <1>5

LEMMA SumOfNone == SumFunction(<<>>) = 0
<1> DEFINE Body(f) == [s \in SUBSET {} |->
                         IF s = {} THEN 0
                         ELSE LET x == CHOOSE x \in s : TRUE IN <<>>[x] + f[s \ {x}]]
           g == [s \in SUBSET {} |-> 0]
           h == CHOOSE f : f = Body(f)
<1>1. g = Body(g) OBVIOUS
<1>2. h = Body(h) BY <1>1
<1>3. h[{}] = 0
  <2> HIDE DEF h
  <2>1. Body(h)[{}] = 0 OBVIOUS
  <2> HIDE DEF Body
  <2> QED BY <1>2, <2>1
<1>4. SumFunction(<<>>) = SumFunctionOnSet(<<>>, {})
  <2>1. DOMAIN <<>> = {} OBVIOUS
  <2> QED BY <2>1 DEF SumFunction
<1>5. SumFunctionOnSet(<<>>, {}) = h[{}]
  BY Zenon DEF SumFunctionOnSet, FoldFunctionOnSet, MapThenFoldSet
<1> QED BY <1>3, <1>4, <1>5

-----------------------------------------------------------------------------
(* What GET /auth/me shows.                                                  *)

LEMMA QuotasActive ==
  ASSUME Inv, NEW u \in QuotaUsers
  PROVE  GetUserQuotas(u) = GetActiveSubscriptions(u)
<1>1. subs[u] \in Seq(Subscription) BY Typed
<1>2. \A i \in DOMAIN subs[u] : subs[u][i].state \in {"active", "ended", "deleted"}
  <2> TAKE i \in DOMAIN subs[u]
  <2>1. DOMAIN subs[u] = 1..Len(subs[u]) BY <1>1, LenProperties
  <2>2. subs[u][i] \in Subscription BY <1>1, <2>1, ElementOfSeq
  <2> QED BY <2>2 DEF Subscription
<1> QED BY <1>2 DEF GetUserQuotas, GetActiveSubscriptions, SubscriptionsOf

LEMMA GrantedOne ==
  ASSUME Inv, NEW u \in QuotaUsers, NEW res, NEW i, NEW l \in LimitIds,
         GetActiveSubscriptions(u) = {i}, LimitsPaidFor(u, i, res) = {l}
  PROVE  Granted(u, res) = limits[l].count
<1>1. {limits[k].count : k \in UNION {LimitsPaidFor(u, j, res) : j \in GetUserQuotas(u)}}
        = {limits[l].count}
  BY QuotasActive
<1>2. limits[l].count \in Int BY LimitCount
<1>3. SumSet({limits[l].count}) = limits[l].count BY <1>2, SumOfOne
<1> QED BY <1>1, <1>3 DEF Granted

LEMMA UsedOne ==
  ASSUME Inv, NEW u \in QuotaUsers, NEW res, NEW i \in DOMAIN subs[u], NEW l \in LimitIds,
         GetActiveSubscriptions(u) = {i}, LimitsPaidFor(u, i, res) = {l},
         SumFunction(usage[u][l]) \in Int
  PROVE  TotalUsed(u, res) = SumFunction(usage[u][l])
<1> DEFINE ofLimit == [k \in LimitIds |-> SumFunction(usage[u][k])]
           ofPlan == [j \in DOMAIN subs[u] |-> SumFunctionOnSet(ofLimit, LimitsPaidFor(u, j, res))]
<1>1. ofLimit[l] = SumFunction(usage[u][l]) OBVIOUS
<1>2. ofPlan[i] = SumFunctionOnSet(ofLimit, {l}) OBVIOUS
<1>3. TotalUsed(u, res) = SumFunctionOnSet(ofPlan, {i}) BY QuotasActive DEF TotalUsed
<1> HIDE DEF ofLimit, ofPlan
<1>4. SumFunctionOnSet(ofLimit, {l}) = ofLimit[l] BY <1>1, SumOnOne
<1>5. SumFunctionOnSet(ofPlan, {i}) = ofPlan[i] BY <1>1, <1>2, <1>4, SumOnOne
<1> QED BY <1>1, <1>2, <1>3, <1>4, <1>5

(* At most one counter: its sum, and whether it still counts. *)
LEMMA OneRow ==
  ASSUME NEW rows \in Seq(Nat), Len(rows) <= 1, NEW n \in Nat, n # 0
  PROVE  /\ SumFunction(rows) \in Nat
         /\ SumFunction(rows) < n <=> rows = <<>> \/ IncrementLimitUsage(rows, n) # rows
<1>1. Len(rows) \in Nat /\ DOMAIN rows = 1..Len(rows) /\ (rows # <<>> <=> Len(rows) > 0)
  BY RowsType
<1>2. CASE rows = <<>> BY <1>2, SumOfNone
<1>3. CASE rows # <<>>
  <2>1. DOMAIN rows = {1}
    <3>1. Len(rows) = 1 BY <1>1, <1>3
    <3>2. 1..1 = {1} OBVIOUS
    <3> QED BY <1>1, <3>1, <3>2
  <2>2. rows[1] \in Nat BY <2>1, RowsType
  <2>3. SumFunction(rows) = rows[1] BY <2>1, <2>2, SumOnOne DEF SumFunction
  <2> DEFINE up == IncrementLimitUsage(rows, n)
  <2>4. /\ up \in Seq(Nat) /\ Len(up) = Len(rows)
        /\ up[1] = IF rows[1] < n THEN rows[1] + 1 ELSE rows[1]
    BY <2>1, Increments
  <2> HIDE DEF up
  <2>5. rows[1] < n => up # rows BY <2>2, <2>4
  <2>6. ~(rows[1] < n) => up = rows
    <3> SUFFICES ASSUME ~(rows[1] < n) PROVE up = rows OBVIOUS
    <3>1. \A i \in 1..Len(rows) : up[i] = rows[i] BY <1>1, <2>1, <2>4
    <3> QED BY <2>4, <3>1, SeqEqual
  <2>7. SumFunction(rows) < n <=> rows = <<>> \/ up # rows BY <1>3, <2>3, <2>5, <2>6
  <2> QED BY <2>2, <2>3, <2>7 DEF up
<1> QED BY <1>2, <1>3

(* A user with one active subscription, one limit on a resource and at most   *)
(* one counter is shown something left exactly when the guard would let his   *)
(* next request pass (auth service: GetMe; limit_guard.go: enforceLimit).     *)
THEOREM QuotaShownHolds == QuotaSpec => []QuotaShown
<1>1. Inv => QuotaShown
  <2> SUFFICES ASSUME Inv, NEW u \in QuotaUsers, NEW res \in Resources,
                      NEW i \in DOMAIN subs[u], NEW l \in LimitIds,
                      GetActiveSubscriptions(u) = {i}, LimitsPaidFor(u, i, res) = {l},
                      Len(usage[u][l]) <= 1, limits[l].count # 0
               PROVE  Remaining(u, res) # 0 <=>
                        \/ limits[l].count = Unlimited
                        \/ usage[u][l] = <<>>
                        \/ IncrementLimitUsage(usage[u][l], limits[l].count) # usage[u][l]
    BY DEF QuotaShown
  <2>1. Granted(u, res) = limits[l].count BY GrantedOne
  <2>2. CASE limits[l].count = Unlimited
    <3>1. Remaining(u, res) = Unlimited BY <2>1, <2>2 DEF Remaining
    <3> QED BY <2>2, <3>1 DEF Unlimited
  <2>3. CASE limits[l].count # Unlimited
    <3> DEFINE n == limits[l].count  rows == usage[u][l]  used == SumFunction(rows)
    <3>1. n \in Nat /\ rows \in Seq(Nat) BY <2>3, LimitCount, Typed
    <3>2. /\ used \in Nat
          /\ used < n <=> rows = <<>> \/ IncrementLimitUsage(rows, n) # rows
      <4> HIDE DEF n, rows
      <4>1. Len(rows) <= 1 /\ n # 0 BY DEF n, rows
      <4> QED BY <3>1, <4>1, OneRow
    <3>3. TotalUsed(u, res) = used BY <3>2, UsedOne
    <3>4. Remaining(u, res) = Max({0, n - used}) BY <2>1, <2>3, <3>3 DEF Remaining
    <3> HIDE DEF n, used
    <3>5. Max({0, n - used}) = IF n - used > 0 THEN n - used ELSE 0
      <4> DEFINE d == n - used
      <4>1. d \in Int /\ 0 \in Int BY <3>1, <3>2
      <4> HIDE DEF d
      <4>2. Max({0, d}) = IF d > 0 THEN d ELSE 0 BY <4>1, MaxOfTwo
      <4> QED BY <4>2 DEF d
    <3>6. Remaining(u, res) # 0 <=> used < n BY <3>1, <3>2, <3>4, <3>5
    <3> QED BY <2>3, <3>2, <3>6 DEF n
  <2> QED BY <2>2, <2>3
<1> QED BY <1>1, InvHolds, PTL
=============================================================================
