------------------------------- MODULE Quota -------------------------------
(***************************************************************************)
(* Plans and their limits, subscriptions, the usage counters, and the limit *)
(* guard that every gated request passes (limit_guard.go, package and       *)
(* subscription services, their repositories and queries).                  *)
(*                                                                          *)
(* Grain.  One query is one step.  UpdatePackage is a transaction of several *)
(* statements under READ COMMITTED: the UPDATE of the title locks the       *)
(* package's row, the DELETE sees the limits committed when it starts, waits *)
(* for those another open transaction is deleting, and misses those it       *)
(* inserts.  Its inserts are seen by nobody before the commit and are part   *)
(* of it.  Ids are never used twice.                                         *)
(*                                                                          *)
(* A route reaches the guard under a pattern.  The guard of a group sees the *)
(* whole pattern of the route; that of a mounted router runs before the      *)
(* router has matched and sees the mount point (PatternOf).                  *)
(***************************************************************************)
EXTENDS Integers, Sequences, FiniteSets, Functions, FiniteSetsExt

CONSTANTS
  QuotaUsers,
  OwnerOf,     \* OwnerOf[u]: primary_user_id in u's token, or Nobody
  Nobody,
  Buyers,      \* the users who subscribe
  Plans,       \* ids of packages, those never created included
  FreePlan,    \* the package the seed calls free
  SeedPlans,   \* packages of the seed
  SystemPlans, \* packages without a primary user; the seed makes none
  PlanSlugs,   \* slugs that names give; packages may share one
  FreeSlug,
  Settings,    \* what an update may set in the package's row
  Kept,        \* no list of limits in the request
  FirstLimits, \* limits of the seed: a function from ids to rows
  Resources,   \* what a plan limits: the subjects of the create permissions
  EndpointOf,  \* EndpointOf[res]: the endpoint of its POST permission
  PatternOf,   \* PatternOf[<<res, method>>]: what the guard sees of the route
  Wishes,      \* lists of [res, count] an administrator may ask for
  LimitIds,
  NoLimit,
  Gated,       \* request goroutines: of routes with the limit guard,
  Purchases,   \* of POST /subscriptions,
  Edits,       \* of POST, PATCH and DELETE /packages
  QuotaFaults, \* whether queries may fail
  MaxOps,      \* bound on the calls and on the subscriptions that lapse
  MaxSubs      \* bound on a user's subscriptions

Methods == {"POST", "DELETE"}
Unlimited == -1

ASSUME QuotaAssumption ==
  /\ OwnerOf \in [QuotaUsers -> QuotaUsers \cup {Nobody}]
  /\ Buyers \subseteq QuotaUsers
  /\ FreePlan \in SeedPlans /\ SystemPlans \subseteq SeedPlans /\ SeedPlans \subseteq Plans
  /\ FreeSlug \in PlanSlugs /\ {"unborn", "removed", "nothing", "price"} \cap PlanSlugs = {}
  /\ Settings \subseteq {"nothing", "price"} \cup PlanSlugs
  /\ Resources # {} /\ DOMAIN PatternOf = Resources \X Methods
  /\ \A w \in Wishes : \A x \in w : x.res \in Resources /\ x.count \in Nat \cup {Unlimited}
  /\ \A l \in DOMAIN FirstLimits :
       /\ l \in LimitIds
       /\ FirstLimits[l].plan \in SeedPlans
       /\ FirstLimits[l].res \in Resources
       /\ FirstLimits[l].count \in Nat \cup {Unlimited}
  /\ NoLimit \notin LimitIds
  /\ QuotaFaults \in BOOLEAN
  /\ MaxOps \in Nat /\ MaxSubs \in Nat

VARIABLES
  plans,    \* plans[p]: the slug of p, "unborn" or "removed"
  limits,   \* limits[l]: a row of package_permission_limits and its state
  subs,     \* subs[u]: u's subscriptions, oldest first, deleted ones included
  usage,    \* usage[u][l]: the counters (limit_usages.used) of u for l
  guard,    \* guard[g]: the gated request g serves
  purchase, \* purchase[b]: a call of Subscribe
  edit,     \* edit[e]: a call of the package service
  ops,      \* number of calls and lapses so far
  charges,  \* history: charges[u][l]: requests let through and counted on l
  renamed,  \* history: packages that had another slug than the free one
  crowded   \* history: users with a failed query, or with two gated requests
            \* or two purchases at a time

quotaVars == <<plans, limits, subs, usage, guard, purchase, edit, ops,
               charges, renamed, crowded>>

Blank == [state |-> "unborn", plan |-> FreePlan, res |-> CHOOSE r \in Resources : TRUE,
          count |-> 0]
Row(p, x) == [state |-> "live", plan |-> p, res |-> x.res, count |-> x.count]

Passed == [pc |-> "idle", user |-> Nobody, pattern |-> "", method |-> "POST",
           todo |-> {}, limit |-> NoLimit, count |-> 0]
NewSubscription(p) == [plan |-> p, state |-> "active"]
NoPurchase == [pc |-> "new", user |-> Nobody, plan |-> FreePlan]
NoEdit == [pc |-> "new", plan |-> FreePlan, wish |-> {}, sets |-> "nothing",
           snap |-> {}, gone |-> {}]

(* Some users have the free plan, and some of those one use of each limit.  *)
UsedOnce(l) == l \in DOMAIN FirstLimits /\ FirstLimits[l].plan = FreePlan
                  /\ FirstLimits[l].count > 0

QuotaInit ==
  /\ plans \in [Plans -> PlanSlugs \cup {"unborn"}]
  /\ \A p \in Plans : /\ plans[p] # "unborn" <=> p \in SeedPlans
                      /\ plans[p] = FreeSlug <=> p = FreePlan
  /\ limits = [l \in LimitIds |-> IF l \in DOMAIN FirstLimits
                                  THEN Row(FirstLimits[l].plan, FirstLimits[l])
                                  ELSE Blank]
  /\ subs \in [QuotaUsers -> {<<>>, <<NewSubscription(FreePlan)>>}]
  /\ \A u \in QuotaUsers : OwnerOf[u] # Nobody => subs[u] = <<>>
  /\ \E used \in SUBSET {u \in QuotaUsers : subs[u] # <<>>} :
       /\ usage = [u \in QuotaUsers |-> [l \in LimitIds |->
                     IF u \in used /\ UsedOnce(l) THEN <<1>> ELSE <<>>]]
       /\ charges = [u \in QuotaUsers |-> [l \in LimitIds |->
                       IF u \in used /\ UsedOnce(l) THEN 1 ELSE 0]]
  /\ guard = [g \in Gated |-> Passed]
  /\ purchase = [b \in Purchases |-> NoPurchase]
  /\ edit = [e \in Edits |-> NoEdit]
  /\ ops = 0
  /\ renamed = SeedPlans \ {FreePlan}
  /\ crowded = {}

(* A call, or a change of the world, begins.                                *)
Begin == ops < MaxOps /\ ops' = ops + 1

Exists(p) == plans[p] \in PlanSlugs

LimitsOf(p) == {l \in LimitIds : limits[l].state = "live" /\ limits[l].plan = p}

(***************************************************************************)
(* The queries.                                                             *)
(***************************************************************************)

(* A subscription's plan never changes: its place in the list stands for it. *)
SubscriptionsOf(u) == {i \in DOMAIN subs[u] : subs[u][i].state # "deleted"}

CountUserSubscriptions(u) == Cardinality(SubscriptionsOf(u))

GetActiveSubscriptions(u) == {i \in DOMAIN subs[u] : subs[u][i].state = "active"}

ByEndpoint(p, pattern) ==
  {l \in LimitsOf(p) : EndpointOf[limits[l].res] = pattern}

GetSubscriptionByUserAndPackage(u, p) ==
  {i \in SubscriptionsOf(u) : subs[u][i].plan = p}

IncrementToAbove(rows, n) ==
  [i \in DOMAIN rows |-> IF rows[i] <= n THEN rows[i] + 1 ELSE rows[i]]

IncrementLimitUsage(rows, n) ==
  [i \in DOMAIN rows |-> IF rows[i] < n THEN rows[i] + 1 ELSE rows[i]]

DecrementLimitUsage(rows) ==
  [i \in DOMAIN rows |-> IF rows[i] > 0 THEN rows[i] - 1 ELSE 0]

InitializeLimitUsage(rows) == Append(rows, 1)

(* A transaction is deleting the limit and, by the cascade, its counters:   *)
(* whoever updates or references one of them waits for its end.             *)
Locked(l) == \E e \in Edits : l \in edit[e].gone

(***************************************************************************)
(* The limit guard.                                                         *)
(***************************************************************************)

guardOnly == <<plans, limits, subs, purchase, edit, ops, renamed>>

Fails(u) == QuotaFaults /\ crowded' = crowded \cup {u}

Tenant(u) == IF OwnerOf[u] = Nobody THEN u ELSE OwnerOf[u]

(* Middleware: a POST or DELETE with its user; other methods pass.          *)
Enter(g, u, res, method) ==
  /\ guard[g].pc = "idle" /\ Begin
  /\ guard' = [guard EXCEPT ![g] =
       [@ EXCEPT !.pc = "count", !.user = Tenant(u), !.method = method,
                 !.pattern = PatternOf[<<res, method>>]]]
  /\ crowded' = IF \E h \in Gated : guard[h].pc # "idle" /\ guard[h].user = Tenant(u)
                THEN crowded \cup {Tenant(u)} ELSE crowded
  /\ UNCHANGED <<plans, limits, subs, usage, purchase, edit, charges, renamed>>

(* The error is answered, or the handler runs: either way the guard is done. *)
Answer(g) == guard' = [guard EXCEPT ![g] = Passed]

(* The plans are asked in the order of their start dates.                   *)
PlanAsked(g) == subs[guard[g].user][Min(guard[g].todo)].plan

Later(g) == guard[g].todo \ {Min(guard[g].todo)}

OnwardPast(g) ==
  guard' = [guard EXCEPT ![g] =
    [@ EXCEPT !.pc = "lookup", !.todo = Later(g), !.limit = NoLimit, !.count = 0]]

(* The next active plan, if any.                                            *)
Onward(g) ==
  guard' = [guard EXCEPT ![g] =
    IF Later(g) = {} THEN Passed
    ELSE [@ EXCEPT !.pc = "lookup", !.todo = Later(g), !.limit = NoLimit, !.count = 0]]

(* A user without any subscription is of the back office.                   *)
Count(g) ==
  /\ guard[g].pc = "count"
  /\ \/ /\ CountUserSubscriptions(guard[g].user) = 0
        /\ Answer(g) /\ UNCHANGED crowded
     \/ /\ CountUserSubscriptions(guard[g].user) # 0
        /\ guard' = [guard EXCEPT ![g].pc = "active"]
        /\ UNCHANGED crowded
     \/ Fails(guard[g].user) /\ Answer(g)
  /\ UNCHANGED <<guardOnly, usage, charges>>

Active(g) ==
  /\ guard[g].pc = "active"
  /\ LET todo == GetActiveSubscriptions(guard[g].user) IN
     \/ /\ todo = {}
        /\ Answer(g) /\ UNCHANGED crowded
     \/ /\ todo # {}
        /\ guard' = [guard EXCEPT ![g].pc = "lookup", ![g].todo = todo]
        /\ UNCHANGED crowded
     \/ Fails(guard[g].user) /\ Answer(g)
  /\ UNCHANGED <<guardOnly, usage, charges>>

(* No row, a failed query and a limit of -1 are all taken for "unlimited".  *)
LookUp(g) ==
  /\ guard[g].pc = "lookup"
  /\ LET found == ByEndpoint(PlanAsked(g), guard[g].pattern) IN
     \/ found = {} /\ Onward(g) /\ UNCHANGED crowded
     \/ \E l \in found :
          /\ IF limits[l].count = Unlimited THEN Onward(g)
             ELSE guard' = [guard EXCEPT ![g] = [@ EXCEPT
                    !.pc = IF guard[g].method = "DELETE" THEN "decrement" ELSE "increment",
                    !.limit = l, !.count = limits[l].count]]
          /\ UNCHANGED crowded
     \/ Fails(guard[g].user) /\ Onward(g)
  /\ UNCHANGED <<guardOnly, usage, charges>>

(* A counter that is not there yet is not an error.                         *)
Decrement(g) ==
  LET u == guard[g].user  l == guard[g].limit IN
  /\ guard[g].pc = "decrement"
  /\ Locked(l) => usage[u][l] = <<>>
  /\ \/ /\ usage' = [usage EXCEPT ![u][l] = DecrementLimitUsage(@)]
        /\ Onward(g) /\ UNCHANGED crowded
     \/ Fails(u) /\ Answer(g) /\ UNCHANGED usage
  /\ UNCHANGED <<guardOnly, charges>>

(* The increment is conditional and atomic; when it counts nothing, fails   *)
(* or its answer is lost, the guard asks why.                               *)
Increment(g) ==
  LET u == guard[g].user  l == guard[g].limit
      raised == IncrementLimitUsage(usage[u][l], guard[g].count) IN
  /\ guard[g].pc = "increment"
  /\ Locked(l) => usage[u][l] = <<>>
  /\ \/ /\ raised # usage[u][l]
        /\ usage' = [usage EXCEPT ![u][l] = raised]
        /\ charges' = [charges EXCEPT ![u][l] = @ + 1]
        /\ Onward(g) /\ UNCHANGED crowded
     \/ /\ raised = usage[u][l]
        /\ guard' = [guard EXCEPT ![g].pc = "get"]
        /\ UNCHANGED <<usage, charges, crowded>>
     \/ /\ Fails(u)
        /\ usage' \in {usage, [usage EXCEPT ![u][l] = raised]}
        /\ guard' = [guard EXCEPT ![g].pc = "get"]
        /\ UNCHANGED charges
  /\ UNCHANGED guardOnly

GetUsageIgnored(g) ==
  /\ guard[g].pc = "get"
  /\ guard' = [guard EXCEPT ![g].pc = "init"]
  /\ UNCHANGED <<guardOnly, usage, charges, crowded>>

(* A used counter refuses; none, an empty one or a failed query lets the    *)
(* guard start a counter.                                                   *)
GetUsage(g) ==
  LET rows == usage[guard[g].user][guard[g].limit] IN
  /\ guard[g].pc = "get"
  /\ \/ \E i \in DOMAIN rows : rows[i] > 0 /\ Answer(g) /\ UNCHANGED crowded
     \/ /\ rows = <<>> \/ \E i \in DOMAIN rows : rows[i] = 0
        /\ guard' = [guard EXCEPT ![g].pc = "init"] /\ UNCHANGED crowded
     \/ /\ Fails(guard[g].user)
        /\ guard' = [guard EXCEPT ![g].pc = "init"]
  /\ UNCHANGED <<guardOnly, usage, charges>>

(* A counter of a limit that has been deleted meanwhile violates its key.   *)
Initialize(g) ==
  LET u == guard[g].user  l == guard[g].limit IN
  /\ guard[g].pc = "init" /\ ~Locked(l)
  /\ \/ /\ limits[l].state = "live"
        /\ usage' = [usage EXCEPT ![u][l] = InitializeLimitUsage(@)]
        /\ charges' = [charges EXCEPT ![u][l] = @ + 1]
        /\ Onward(g) /\ UNCHANGED crowded
     \/ /\ limits[l].state # "live"
        /\ Answer(g) /\ UNCHANGED <<usage, charges, crowded>>
     \/ Fails(u) /\ Answer(g) /\ UNCHANGED <<usage, charges>>
  /\ UNCHANGED guardOnly

GuardStep(g) ==
  \/ \E u \in QuotaUsers, res \in Resources, m \in Methods : Enter(g, u, res, m)
  \/ Count(g) \/ Active(g) \/ LookUp(g) \/ Decrement(g) \/ Increment(g)
  \/ GetUsage(g) \/ Initialize(g)

(***************************************************************************)
(* Subscribe: a user buys a plan for himself, and the free one only once.   *)
(***************************************************************************)

purchaseOnly == <<plans, limits, usage, guard, edit, charges, renamed>>

(* GetPackageBySlug finds one with the slug or the call ends.               *)
Subscribe(b, u, p) ==
  /\ purchase[b].pc = "new" /\ Exists(p) /\ Begin
  /\ purchase' = [purchase EXCEPT ![b] =
       [pc |-> IF plans[p] = FreeSlug THEN "check" ELSE "create", user |-> u, plan |-> p]]
  /\ crowded' = IF \E c \in Purchases : purchase[c].pc \in {"check", "create"}
                                         /\ purchase[c].user = u
                THEN crowded \cup {u} ELSE crowded
  /\ UNCHANGED <<purchaseOnly, subs>>

Bought(b) == purchase' = [purchase EXCEPT ![b] = NoPurchase]

CheckFreeActive(b) ==
  LET u == purchase[b].user IN
  /\ purchase[b].pc = "check"
  /\ IF \E i \in GetSubscriptionByUserAndPackage(u, purchase[b].plan) :
          subs[u][i].state = "active"
     THEN Bought(b) ELSE purchase' = [purchase EXCEPT ![b].pc = "create"]
  /\ UNCHANGED <<purchaseOnly, subs, ops, crowded>>

CheckFree(b) ==
  /\ purchase[b].pc = "check"
  /\ \/ /\ GetSubscriptionByUserAndPackage(purchase[b].user, purchase[b].plan) # {}
        /\ Bought(b) /\ UNCHANGED crowded
     \/ /\ GetSubscriptionByUserAndPackage(purchase[b].user, purchase[b].plan) = {}
        /\ purchase' = [purchase EXCEPT ![b].pc = "create"] /\ UNCHANGED crowded
     \/ Fails(purchase[b].user) /\ Bought(b)
  /\ UNCHANGED <<purchaseOnly, subs, ops>>

CreateSubscription(b) ==
  LET u == purchase[b].user  p == purchase[b].plan IN
  /\ purchase[b].pc = "create"
  /\ \/ /\ Exists(p) /\ CountUserSubscriptions(u) < MaxSubs
        /\ subs' = [subs EXCEPT ![u] = Append(@, NewSubscription(p))]
        /\ UNCHANGED crowded
     \/ ~Exists(p) /\ UNCHANGED <<subs, crowded>>
     \/ Fails(u) /\ UNCHANGED subs
  /\ Bought(b)
  /\ UNCHANGED <<purchaseOnly, ops>>

(* end_date passes.                                                         *)
Lapse(u, i) ==
  /\ subs[u][i].state = "active" /\ Begin
  /\ subs' = [subs EXCEPT ![u][i].state = "ended"]
  /\ UNCHANGED <<purchaseOnly, purchase, crowded>>

PurchaseStep(b) ==
  \/ \E u \in Buyers, p \in Plans : Subscribe(b, u, p)
  \/ CheckFree(b) \/ CreateSubscription(b)

(***************************************************************************)
(* The package service.                                                     *)
(***************************************************************************)

editOnly == <<guard, purchase, charges, crowded>>

(* Distinct new ids for the rows of a list.                                 *)
NewIds(wish) ==
  {f \in [wish -> {l \in LimitIds : limits[l].state = "unborn"}] :
     \A x, y \in wish : f[x] = f[y] => x = y}

Replaced(p, gone, ids) ==
  [l \in LimitIds |->
     IF \E x \in DOMAIN ids : ids[x] = l
     THEN Row(p, CHOOSE x \in DOMAIN ids : ids[x] = l)
     ELSE IF l \in gone THEN [limits[l] EXCEPT !.state = "removed"] ELSE limits[l]]

(* The counters of deleted limits go with them.                             *)
Cascade(gone) ==
  [u \in QuotaUsers |-> [l \in LimitIds |->
     IF l \in gone THEN <<>> ELSE usage[u][l]]]

Edited(e) == edit' = [edit EXCEPT ![e] = NoEdit]

(* The slug of package p becomes the one given.                             *)
Called(p, slug) ==
  /\ plans' = [plans EXCEPT ![p] = slug]
  /\ renamed' = renamed \cup {q \in {p} : slug # FreeSlug}

(* CreatePackage: the package and its limits in one transaction.            *)
CreatePackage(e, p, slug, wish) ==
  /\ edit[e].pc = "new" /\ plans[p] = "unborn" /\ Begin
  /\ \E ids \in NewIds(wish) : limits' = Replaced(p, {}, ids)
  /\ Called(p, slug)
  /\ Edited(e)
  /\ UNCHANGED <<editOnly, subs, usage>>

(* Update: the package is read; a call for one that is gone ends.  It sets   *)
(* nothing in the row, the price alone, or the name and with it the slug.   *)
UpdatePackage(e, p, wish, sets) ==
  /\ edit[e].pc = "new" /\ Exists(p) /\ Begin
  /\ edit' = [edit EXCEPT ![e] = [NoEdit EXCEPT !.plan = p, !.wish = wish,
                 !.sets = IF p \in SystemPlans /\ sets # "nothing" THEN "price" ELSE sets,
                 !.pc = IF sets # "nothing" THEN "title" ELSE "delete"]]
  /\ UNCHANGED <<editOnly, plans, limits, subs, usage, renamed>>

Naming(e, p) == edit[e].sets # "nothing" /\ edit[e].plan = p
                /\ edit[e].pc \in {"delete", "wait", "insert"}

(* What the transaction sets in the row is seen when it commits.            *)
SetRow(e) ==
  LET p == edit[e].plan
  IN  Called(p, IF edit[e].sets \in PlanSlugs THEN edit[e].sets ELSE plans[p])

(* The row is updated, and stays locked until the transaction ends: at once  *)
(* without a list of limits.                                                *)
RenamePackage(e) ==
  LET p == edit[e].plan IN
  /\ edit[e].pc = "title"
  /\ \A f \in Edits : ~Naming(f, p)
  /\ \/ /\ Exists(p) /\ edit[e].wish # Kept
        /\ edit' = [edit EXCEPT ![e].pc = "delete"]
        /\ UNCHANGED <<plans, renamed>>
     \/ Exists(p) /\ edit[e].wish = Kept /\ SetRow(e) /\ Edited(e)
     \/ (~Exists(p) \/ QuotaFaults) /\ Edited(e) /\ UNCHANGED <<plans, renamed>>
  /\ UNCHANGED <<editOnly, ops, limits, subs, usage>>

StartDelete(e) ==
  /\ edit[e].pc = "delete"
  /\ edit' = [edit EXCEPT ![e].pc = "wait", ![e].snap = LimitsOf(edit[e].plan)]
  /\ UNCHANGED <<editOnly, ops, plans, limits, subs, usage, renamed>>

DeleteLimits(e) ==
  /\ edit[e].pc = "wait"
  /\ \A l \in edit[e].snap : ~Locked(l)
  /\ edit' = [edit EXCEPT ![e].pc = "insert", ![e].snap = {},
                         ![e].gone = edit[e].snap \cap LimitsOf(edit[e].plan)]
  /\ UNCHANGED <<editOnly, ops, plans, limits, subs, usage, renamed>>

(* The inserts and the commit, or the rollback.                             *)
ReplaceLimits(e) ==
  /\ edit[e].pc = "insert"
  /\ \/ /\ Exists(edit[e].plan) /\ SetRow(e)
        /\ \E ids \in NewIds(edit[e].wish) :
             limits' = Replaced(edit[e].plan, edit[e].gone, ids)
        /\ usage' = Cascade(edit[e].gone)
     \/ /\ ~Exists(edit[e].plan) \/ QuotaFaults
        /\ UNCHANGED <<plans, limits, usage, renamed>>
  /\ Edited(e)
  /\ UNCHANGED <<editOnly, ops, subs>>

(* Remove: a package of the system, had it any, stays.  The DELETE waits for *)
(* those who hold the package's row or its limits, and takes along by the   *)
(* cascade its limits, their counters and its subscriptions.                *)
RemovePackage(e, p) ==
  /\ edit[e].pc = "new" /\ Exists(p) /\ p \notin SystemPlans /\ Begin
  /\ edit' = [edit EXCEPT ![e] = [NoEdit EXCEPT !.plan = p, !.pc = "remove"]]
  /\ UNCHANGED <<editOnly, plans, limits, subs, usage, renamed>>

DeletePackage(e) ==
  LET p == edit[e].plan  gone == LimitsOf(p) IN
  /\ edit[e].pc = "remove"
  /\ \A f \in Edits : ~Naming(f, p)
  /\ \A l \in gone : ~Locked(l)
  /\ plans' = [plans EXCEPT ![p] = "removed"]
  /\ limits' = Replaced(p, gone, [x \in {} |-> NoLimit])
  /\ usage' = Cascade(gone)
  /\ subs' = [u \in QuotaUsers |-> [i \in DOMAIN subs[u] |->
                IF subs[u][i].plan = p THEN [subs[u][i] EXCEPT !.state = "deleted"]
                ELSE subs[u][i]]]
  /\ Edited(e)
  /\ UNCHANGED <<editOnly, ops, renamed>>

EditStep(e) ==
  \/ \E p \in Plans, wish \in Wishes :
        \/ \E slug \in PlanSlugs : CreatePackage(e, p, slug, wish)
        \/ \E sets \in Settings : UpdatePackage(e, p, wish, sets)
  \/ \E p \in Plans, sets \in Settings \ {"nothing"} : UpdatePackage(e, p, Kept, sets)
  \/ RenamePackage(e) \/ StartDelete(e) \/ DeleteLimits(e) \/ ReplaceLimits(e)
  \/ \E p \in Plans : RemovePackage(e, p)
  \/ DeletePackage(e)

QuotaNext ==
  \/ \E g \in Gated : GuardStep(g)
  \/ \E b \in Purchases : PurchaseStep(b)
  \/ \E u \in QuotaUsers : \E i \in DOMAIN subs[u] : Lapse(u, i)
  \/ \E e \in Edits : EditStep(e)

QuotaSpec == QuotaInit /\ [][QuotaNext]_quotaVars

(***************************************************************************)
(* What GET /auth/me shows of the quotas: GetUserQuotas joins the active     *)
(* subscriptions, their limits and the counters, and groups by limit_count;  *)
(* GetMe adds the groups of one resource up.                                 *)
(***************************************************************************)

GetUserQuotas(u) == {i \in SubscriptionsOf(u) : subs[u][i].state # "ended"}

LimitsPaidFor(u, i, res) == {l \in LimitsOf(subs[u][i].plan) : limits[l].res = res}

Granted(u, res) ==
  LET counts == {limits[l].count : l \in
                   UNION {LimitsPaidFor(u, i, res) : i \in GetUserQuotas(u)}}
  IN  IF Unlimited \in counts THEN Unlimited ELSE SumSet(counts)

TotalUsed(u, res) ==
  LET ofLimit == [l \in LimitIds |-> SumFunction(usage[u][l])]
      ofPlan == [i \in DOMAIN subs[u] |->
                   SumFunctionOnSet(ofLimit, LimitsPaidFor(u, i, res))]
  IN  SumFunctionOnSet(ofPlan, GetUserQuotas(u))

RemainingPlain(u, res) == Max({0, Granted(u, res) - TotalUsed(u, res)})

Remaining(u, res) ==
  IF Granted(u, res) = Unlimited THEN Unlimited
  ELSE Max({0, Granted(u, res) - TotalUsed(u, res)})

(***************************************************************************)
(* Properties.                                                              *)
(***************************************************************************)

Limit == [state : {"unborn", "live", "removed"}, plan : Plans, res : Resources,
          count : Nat \cup {Unlimited}]
Subscription == [plan : Plans, state : {"active", "ended", "deleted"}]
Guard == [pc : {"idle", "count", "active", "lookup", "decrement", "increment", "get", "init"},
          user : QuotaUsers \cup {Nobody}, pattern : {""} \cup Range(PatternOf),
          method : Methods, todo : SUBSET (Nat \ {0}), limit : LimitIds \cup {NoLimit},
          count : Nat]
Purchase == [pc : {"new", "check", "create"},
             user : QuotaUsers \cup {Nobody}, plan : Plans]
Edit == [pc : {"new", "title", "delete", "wait", "insert", "remove"},
         plan : Plans, wish : Wishes \cup {{}, Kept},
         sets : Settings \cup {"nothing", "price"},
         snap : SUBSET LimitIds, gone : SUBSET LimitIds]

(* Every variable has its type; a counter is never negative, and only a call *)
(* of a user has a user.                                                     *)
QuotaTypeOK ==
  /\ plans \in [Plans -> PlanSlugs \cup {"unborn", "removed"}]
  /\ limits \in [LimitIds -> Limit]
  /\ subs \in [QuotaUsers -> Seq(Subscription)]
  /\ usage \in [QuotaUsers -> [LimitIds -> Seq(Nat)]]
  /\ guard \in [Gated -> Guard]
  /\ purchase \in [Purchases -> Purchase]
  /\ edit \in [Edits -> Edit]
  /\ ops \in Nat
  /\ charges \in [QuotaUsers -> [LimitIds -> Nat]]
  /\ renamed \subseteq Plans /\ crowded \subseteq QuotaUsers
  /\ \A g \in Gated :
       /\ guard[g].pc # "idle" => guard[g].user \in QuotaUsers
       /\ guard[g].pc = "lookup" => guard[g].todo # {}
       /\ guard[g].pc \in {"decrement", "increment", "get", "init"} =>
            guard[g].limit \in LimitIds /\ guard[g].todo # {}
  /\ \A b \in Purchases : purchase[b].pc # "new" => purchase[b].user \in QuotaUsers

(* However requests, plan edits and failing queries interleave, no counter   *)
(* passes its limit: the guard counts with the limit it read before, and the *)
(* rows of an edited plan are others.  (The counter of a limit of zero       *)
(* starts at one.)                                                           *)
UsedWithinLimit ==
  \A u \in QuotaUsers, l \in LimitIds : \A i \in DOMAIN usage[u][l] :
     usage[u][l][i] <= Max({1, limits[l].count})

(* A user whose requests never overlapped, none of whose queries failed, has *)
(* one counter per limit: a second one would let him start from zero again.  *)
CounterUnlessRaced ==
  \A u \in QuotaUsers \ crowded, l \in LimitIds :
     limits[l].count # 0 => Len(usage[u][l]) <= 1

(* Where no route that deletes gives a use back, the requests let through on *)
(* a limit are at most the limit for every counter the races made.           *)
ChargesWithinLimit ==
  \A u \in QuotaUsers, l \in LimitIds :
     /\ limits[l].state = "live" /\ limits[l].count > 0
     /\ \A r \in Resources : PatternOf[<<r, "DELETE">>] # EndpointOf[limits[l].res]
     => charges[u][l] <= limits[l].count * Max({1, Len(usage[u][l])})

(* Subscribe lets a user have a package that was always called free once,   *)
(* also after it has lapsed, unless two of his purchases overlap.  (An       *)
(* administrator may call the free package otherwise, or others free.)       *)
FreePlanOnceUnlessRaced ==
  \A u \in QuotaUsers \ crowded, p \in Plans \ renamed :
     Cardinality(GetSubscriptionByUserAndPackage(u, p)) <= 1

(* For a user with one active subscription, one limit on a resource and at   *)
(* most one counter, GET /auth/me shows something left exactly when the      *)
(* guard would let the next request through.                                 *)
QuotaShown ==
  \A u \in QuotaUsers, res \in Resources : \A i \in DOMAIN subs[u], l \in LimitIds :
     /\ GetActiveSubscriptions(u) = {i} /\ LimitsPaidFor(u, i, res) = {l}
     /\ Len(usage[u][l]) <= 1 /\ limits[l].count # 0
     => (Remaining(u, res) # 0 <=>
          \/ limits[l].count = Unlimited
          \/ usage[u][l] = <<>>
          \/ IncrementLimitUsage(usage[u][l], limits[l].count) # usage[u][l])
=============================================================================
