# LootBoard: a verification development

LootBoard (`src/`) is a shared canvas of items for sale. Shoppers open a board
in a browser, see the widgets on it and each other's cursors, lock the widgets
they want and check them out; tenants place widgets, price them and manage their
staff. A Go API (`src/services/api`) runs as any number of instances that share
PostgreSQL, Redis and RabbitMQ; a Next.js client (`src/services/web`) talks to it
over HTTP and over one websocket per canvas.

This directory holds TLA+ modules that model the concurrent core of that system and
the services of its back office, TLC configurations that check them on small instances, and proofs that TLAPS
checks for every instance. Each definition that models code is listed in
`PROJECT.json` (`map`) with the lines it stands for.

Paths below are relative to `src/services/api/internal/core` unless they begin
with `web/` (`src/services/web/src`) or `docs/` (`src/docs`).

## 1. Inventory

| component | code | state | operations |
|---|---|---|---|
| widget locks | `realtime/service.go` 278-480, 530-545 | Redis `lock:<board>:<widget>`, set `hardlocks:<board>` | acquire (SETNX), release (GET, DEL), promote (SCAN, GET, EXISTS, SET, SADD), clear (DEL, SREM) |
| expiry watcher | `realtime/service.go` 445-462, 550-588 | keyspace notifications not read yet, one subscription per instance | resolve an expiry (SREM) and broadcast the outcome |
| websocket gateway | `realtime/gateway.go` | per connection: identity, board, zones, `canMove` | dispatch one message at a time |
| hub and backplane | `realtime/hub.go` | rooms and their members, a send channel per client, one Redis channel | join, leave, unregister, emit, relay |
| zones | `realtime/zone.go` | none | which zone rooms a point or a rectangle overlaps |
| widget positions | `realtime/rabbitmq.go`, `consumer.go`, `service.go` 157-247 | Redis `widgetpos:...`, debounce timers of each instance, broker queue, row in `smart_widgets` | move, move:end, place, publish, consume |
| presence and joins | `realtime/service.go`, `gateway.go` 240-281 | Redis presence hashes, last viewports | join snapshot, peers |
| checkout | `order/service.go` 130-250, `adapters/postgresql/repo/order.go` | tables `orders`, `order_items` | create an order, complete the purchase |
| inventory | `inventory/service.go` | table `smart_widgets` | create, update, remove; CSV import |
| canvas client | `web/components/canvas/canvas-editor.tsx` | what one canvas shows of each widget | apply the lock, release, hard-lock and purchase events |
| limit guard | `auth/middleware/limit_guard.go` | rows of `limit_usages`, one or more for a user and a limit | count or give back one use, initialise a counter, refuse |
| packages, subscriptions | `package/`, `subscription/` | tables `packages`, `package_permission_limits`, `subscriptions` | create, update, remove a package with its limits; subscribe |
| accounts and tokens | `auth/service.go` | table `users`: one refresh token and one reset token each | register, sign in (password, social), refresh, log out, forget and reset a password |
| users | `user/` | table `users`: the sub-users of a tenant | create, update, remove |
| roles and Casbin policies | `role/service.go`, `adapters/casbin` | roles and their permissions, `casbin_rule`, the memory of each instance's enforcer | create, update, remove a role; bind a new user; enforce |
| boards | `boards/` | table `boards`, unique slugs | create, update, remove |
| socket auth, mail, configuration, web pages | | | not modelled, see section 5 |

How they interact:

* A **socket message** runs on its connection's reader goroutine from beginning
  to end. It calls the realtime service (Redis commands, queries), then the hub.
* The **hub** writes a broadcast to the local members of a room and then
  publishes it to the Redis channel that every instance's relay reads.
* A **lock** lives in Redis with a time to live. Its expiry reaches every
  instance's watcher, which broadcasts that the widget is free.
* **Checkout** is an HTTP request on any instance. It reads the locks in Redis,
  commits a transaction in PostgreSQL, and then walks over the sold widgets:
  delete the row, clear the lock, broadcast. A lock and an order thus live
  in two stores that no transaction spans.
* A **move** writes Redis at once and the database later, through a debounce
  timer, a durable queue and a consumer in some instance.
* A **back office** request passes the authentication, the Casbin middleware (the memory of
  the instance it reached) and, on some routes, the limit guard, which counts before
  the handler runs. Its handler is a service call of a few queries, most of them without
  a transaction; the services share tables but no state in memory.

What is hard, and what makes each component correct:

| component | hard behaviour | must hold |
|---|---|---|
| locks | calls of several commands interleave with expiry, with other shoppers' calls and with the same shopper's other tab; any command may fail | nobody holds a widget SETNX never gave them; a hard lock never becomes soft; a held widget does not change hands, unless a lock lapsed under a message; every message ends |
| watcher, canvas | every instance hears each expiry, or none does; a notification does not carry the old value | canvases agree with the locks |
| checkout | retries and double clicks with one key; a commit whose answer is lost; a crash after the commit; locks that lapse after being verified | one order per key; an order is only of reserved items that are still for sale; no item is sold twice; a recorded order is carried through |
| positions | a timer that fires while it is being stopped; two movers on two instances; broken broker connections; redelivery | the last position is never coalesced away; what the broker accepted is stored |
| hub | broadcasts run while members join, leave and disconnect; the relay does not know the sender that is skipped | no send on a closed channel; once per member; every member reached |
| limit guard, packages | requests of one tenant count, and start counters, at the same time; an administrator replaces the limits meanwhile; failed queries are taken for "none" | no counter passes its limit; one counter per limit unless requests overlap; what `/auth/me` shows is what the guard decides |
| subscriptions | the free package is looked for, then inserted | it is had once unless two purchases overlap |
| accounts | look, then insert or store, without a transaction or a unique email; tokens that carry only seconds | one account per email, one password per link, a session that ended stays ended, each unless the calls overlap; tenants are one level deep |
| roles, Casbin | two updates replace the grants and rewrite the policies rule by rule after their commits; errors leave parts; each instance has its own memory | grants are what was asked for last; a call that met no other leaves the policies equal to the grants whatever was left before |
| boards, inventory | slug, owner and board are looked at first, the row is written later by its id alone | a widget lies on a board of its own tenant; only its tenant changes a row; a creation alone never meets a taken slug |

`PROJECT.json` (`hazards`) lists these one by one, at the line where each bites.

## 2. Modules

| module | models | EXTENDS / instantiates |
|---|---|---|
| `Reservation` | abstract: a widget is free or reserved by one user | |
| `LockLifecycle` | locks, watcher, lock messages, what canvases show | instantiates `Reservation` |
| `LockHistory` | what a message counts on between two commands, and when that has lapsed (a history variable) | EXTENDS `LockLifecycle` |
| `OrderBook` | abstract: keys, orders, items for sale, answers | |
| `Checkout` | `POST /orders` composed with the locks | EXTENDS `LockLifecycle`, instantiates `OrderBook` |
| `Positions` | the write-behind path of positions | |
| `Hub` | rooms, broadcasts, relays, disconnects | |
| `Quota` | limit guard, packages and their limits, subscriptions | |
| `Policy` | roles, grants, Casbin rules and memories, the middleware | |
| `Accounts` | accounts, sessions, reset links, a tenant's users | |
| `Catalog` | boards, widgets, CSV import | |
| `MCLockLifecycle`, `MCLockHistory`, `MCCheckout`, `MCPositions`, `MCHub` | functions from model values for the runs; `MCLockHistory` also the two boards of LockSafety | |
| `MCBackOffice` | the values of the last four modules, and one specification that runs each of them | EXTENDS `Quota`, `Policy`, `Accounts`, `Catalog` |
| `LockLifecycle_proofs`, `Checkout_proofs`, `Positions_proofs`, `Hub_proofs`, `Accounts_proofs`, `Catalog_proofs`, `Policy_proofs`, `Quota_proofs` | theorems | the module they are about (`LockHistory` for the locks), and `TLAPS` |

Some definitions are not part of any specification: plausible mistakes, kept before the
definition they could be made in. `PROJECT.json` (`mutants`) names each of them with the property it breaks.

### LockLifecycle

One Redis command is one step. A connection is a process: `call[c]` is its
program counter and its locals, and it starts a message only when idle, as
`readPump` does.

* `lock`, `hardlocks`: the Redis key of each widget and the tracking set.
* `widget:lock:soft:init` is `SoftLock` (SETNX) and `SoftEmit`. A refused SETNX
  changes nothing and is not a step.
* `widget:lock:soft:release:init` is `ReleaseGet`, `ReleaseDel`, `ReleaseEmit`;
  the release is broadcast whether or not anything was released, as the code does.
* `widget:lock:hard:init` is `HardLock`, `ScanLock` for every key that
  GetUserLocks reads, `PromoteExists`, `PromoteSet`, `PromoteSAdd` for every lock,
  and `HardEmit`. Errors end the loop (`PromoteError`) or skip (`Promoted`),
  following the returns of the code.
* `Expire` removes a key at any moment and queues the notification, or loses it;
  `WatchResolve` and `WatchEmit` are the watcher of each instance.
* `screen[v]` is what a canvas shows: holder, hard flag, presence. A broadcast
  updates all canvases in one step.
* `won` is a history variable: each (user, widget) SETNX succeeded for.

`LockHistory` observes these steps and restricts none. A message counts on a widget (`CountsOn`)
from the command that read that its user holds it to the one that deletes or writes the key without asking again.
`lapsed` has the widgets whose lock expired, or was released by its own user, under such a message, until the
last message that counts on the widget is over.

### Checkout

A request is a process too: `req[r]` goes through the key pre-check (`CheckKey`),
the list of items, the verification of each lock, the transaction at its commit
(`Commit`, which may also succeed while its answer is lost, or be refused by the
unique key), `LookupKey` after a refusal, and then CompletePurchase: `RemoveRow`,
`Unlock`, `Untrack`, `Announce` for each widget, and the buyer's other locks
(`ScanHeld`, `FreeDel`, `FreeSRem`). `Die` is an instance that stops in the middle;
`DeleteItem` is a tenant's removal of an item. Retries, double clicks and other tabs are
requests with the same key. All steps of LockLifecycle go on in between.

### Positions

`Move` saves to Redis; `Publish` (a final position) stops the timer in the map
and sends; `PublishDebounced` replaces it. A timer goes through `armed`, `fired`
(its goroutine has started and waits for `r.mu`) and `flushing` (it has left `r.mu`
and will send), so a stop that comes after the firing has no effect, as in Go.
`Disconnect` loses a channel and its unacknowledged deliveries return to the
queue; `Send` reconnects lazily, and only for publishing; `Restart` is a new
instance with a new consumer. Positions are numbers in the order of the moves.

### Hub

`h.mu` is modelled by what it excludes: joins, leaves and the critical section of
`Unregister` cannot happen on an instance while one of its processes is
delivering (`Unlocked`). Each `c.write` of a delivery is a step of its own, so deliveries of several
goroutines interleave. `Close` is `close(c.send)`, after the lock is given back.
`wire[r]` holds what relay `r` has still to read. `written` and
`owed` are history variables: what was written to a connection, and what it is
still to get. A handler that emits to several rooms appears as several broadcasts,
between which the model allows the reader other messages as well.

### Quota

`guard[g]` is a goroutine in the limit guard, one query a step: `Count`, `Active`, then for each
active plan `LookUp` and `Decrement`, or `Increment` (conditional and atomic), `GetUsage` when
nothing was counted, and `Initialize`. A failed query ends the guard or is taken for "no limit",
as the code has it. A route is known by the pattern the guard sees: the guard of a mounted router
runs before the router has matched, so a `DELETE` gives nothing back there (`PatternOf`).
`edit[e]` is a call of the package service; `UpdatePackage` is a transaction whose statements wait
for each other (`RenamePackage`, `StartDelete`, `DeleteLimits`, `ReplaceLimits`), and the cascades take counters and
subscriptions along. A subscription that lapsed or was removed keeps its place in the list, marked `ended` or `deleted`, so
a place names it for good: `todo` holds the places of the active subscriptions the guard read. `purchase[b]` is `Subscribe`: `CheckFree`, then `CreateSubscription`. `charges`,
`renamed` and `crowded` are histories. `Granted`, `TotalUsed` and `Remaining` are what `GET /auth/me`
computes.

### Policy

`call[c]` is a call of the role service on an instance, or the registration that binds a new user.
The transaction of `UpdateRole` goes statement by statement (`RenameRole`, `StartDeleteGrants`,
`DeleteRolePermissions`, `CreateRolePermissions`), because without a title nothing makes two of them wait for each other.
After the commit `syncRolePolicies` reads the endpoints, removes the role's rules
(`RemoveFilteredStored`, then the memory in `RemoveFilteredKept`) and adds them one by one (`AddPolicy`,
`AddPolicyKept`; a rule the memory has is not written). `DeleteRole` and the removals after it are
`Remove`. `Restart` loads an instance's memory again. `CasbinMiddleware` is what a request is answered.
`wished`, `settled`, `crossed` and `blurred` are histories.

### Accounts

`request[c]` is a call of the auth service or of the user service: look (`find`), then create, store,
mail or change, one query a step. `people[u]` is a row of `users` with its one refresh token and one
reset token. A refresh token is a JWT of user, email and second, compared as a string. `Tick` is the
clock, `Expire` the end of a reset link. Registration fails after its commit (`bind`) as the code does,
leaving the account. `UpdateUser` and `UpdateUserProfile`, `CreateSubUser` and `DeleteUser` are the user
service, which asks nothing about the sessions of the one it changes. Seven histories say what happened
at the same time as what, so that the properties can state the exception each look-then-write leaves.

### Catalog

`task[c]` is a call of the board or inventory service: `CreateBoard`, `uniqueSlug` (a number of random
suffixes, then the clock), `InsertBoard` against the unique key; `FindBoard`, `UpdateBoard`, `DeleteBoard`;
`CreateItems` and `ImportCsv` (whose `parseCsv` is an operator on kinds of lines), `CreateSmartWidgets`;
`FindItem`, `assertBoardOwned`, `UpdateSmartWidget`, `DeleteSmartWidget`. `Sell` is what a checkout does to
a widget and `DeleteTenant` what the deletion of a user does by the cascade.

### MCBackOffice

The four modules share no state, so one run explores them side by side: an initial state
chooses the part that runs, and the others stay as they start. Each property speaks of one part only, and is checked
in the states of that part.

## 3. Runs

Every run is exhaustive. `Faults` says whether commands may fail, notifications
get lost and instances die.

| run | instance | checks | result |
|---|---|---|---|
| LockSafety | 2 shoppers with one connection each, faults, fair; a narrow board: 1 widget, 2 instances, 1 waiting notification each; a wide board: 2 widgets, every notification lost | `LockTypeOK`, `HoldersWon`, `OnlyHolderUnlessLapsed`, `ImplementsReservation`, `CallsFinish` | holds |
| LockTakeover | 2 shoppers, 1 widget, 1 instance, 1 canvas, 2 waiting notifications, no faults | `NoTakeover` | **violated** |
| LockColor | as LockTakeover, without notifications | `NoStrandedColor` | **violated** |
| CheckoutRetry | a request, its retry and another tab of one shopper, 2 keys, faults | `TypeOK`, `OneOrderPerKey`, `ImplementsOrderBook` | holds |
| CheckoutRivals | 2 shoppers, the same widget, 2 keys, faults | `OrdersReserved`, `NoSaleAfterRemoval` | holds |
| CheckoutLiveness | 2 requests of one shopper for one widget, no faults, fair | `OrderCarriedThrough`, `RequestsAnswered` | holds |
| CheckoutDoubleSale | as CheckoutRivals, without faults | `NoDoubleSale` | **violated** |
| PositionSafety | 2 movers on 2 instances, 1 widget, 2 moves and placements, all faults | `PositionsTypeOK`, `LatestNotDropped`, `SentNotForgotten` | holds |
| PositionFinal | 1 mover, 2 moves, no faults | `FinalPositionKept` | **violated** |
| PositionConsumer | 1 mover, 1 move, connections break, fair | `SentEventuallyStored` | **violated** |
| HubSafety | 1 connection on each of 2 instances, 1 worker, 1 zone, 2 joins or viewports, 2 broadcasts, 1 lost delivery | `HubTypeOK`, `NoSendOnClosed`, `OncePerConnection`, `ReachesRoom`, `InZoneRooms` | holds |
| BackOffice, `Quota` | a tenant and his sub-user, 2 guarded requests, 2 purchases, 2 edits (3 of these at most, with what lapses), 3 packages, 5 limits, faults | `QuotaTypeOK`, `UsedWithinLimit`, `CounterUnlessRaced`, `ChargesWithinLimit`, `FreePlanOnceUnlessRaced`, `QuotaShown` | holds |
| BackOffice, `Policy` | 2 instances, 2 roles, 2 permissions, 2 calls, 1 restart, faults | `PolicyTypeOK`, `GrantsReplaced`, `SettledMirrors`, `AccessFollowsGrants` | holds |
| BackOffice, `Accounts` | 3 users, 2 emails, 3 calls, 2 seconds, faults | `AccountsTypeOK`, `OneAccountUnlessRaced`, `ResetOnceUnlessRaced`, `ResetEndsSessions`, `EndedStaysEnded`, `TenantsWhole` | holds |
| BackOffice, `Catalog` | 2 tenants, 4 boards, 3 widgets, 2 calls, 2 CSV files, faults | `CatalogTypeOK`, `WidgetOnOwnBoard`, `SlugConflictOnlyIfRaced`, `OnlyOwnersChange` | holds |

What the passing runs show:

* **HoldersWon, ImplementsReservation.** Promotion writes
  the key blindly, from a list read some commands earlier. It still never
  gives a shopper a widget they have not once won, and no step turns a hard lock into
  a soft one or replaces a soft lock by another. `Reservation` states
  this as three operations: reserve when free, confirm what was once won, end.
* **OnlyHolderUnlessLapsed.** How far exclusivity holds. `NoTakeover` below shows that a lock can pass from one
  shopper to another, and the DEL of a release can hit a stranger's lock in the same way. This property names the only
  cause: a lock on the widget ended, by expiry or by its own user, under a message that had read it and is still under way. Releases and
  promotions alone, interleaved in any number, never end or take over another's lock.
* **OneOrderPerKey, ImplementsOrderBook.** Whatever retries, lost commits and
  crashes do, all requests with a key that are told of an order are told of the
  same one and one at most placed it; orders are recorded only while all
  items are for sale.
* **OrdersReserved, NoSaleAfterRemoval.** A buyer had won each item, and no order
  is recorded for an item whose row is gone, however old the list it came from.
* **CallsFinish.** A promotion loops over the locks of its user, and each of its commands finds the keys as
  the other shopper and expiry have left them; on the wide board it goes round more than once. It ends all the same, and so does every other message.
* **OrderCarriedThrough, RequestsAnswered.** A request that begins is answered, and a recorded order takes its widget
  out of the sale and off every canvas, though locks lapse, the tenant deletes the row and another cart is under way.
* **LatestNotDropped, SentNotForgotten.** Debouncing drops older positions only;
  what the broker accepted is in the queue or with a live consumer until stored.
* **NoSendOnClosed.** `close(c.send)` happens outside `h.mu`, and still no delivery can
  write to a closed channel: leaving the rooms is inside, and a delivery
  that has the client holds the read lock that leaving waits for.
* **OncePerConnection, ReachesRoom.** The relay delivers to whole rooms and every
  instance hears its own broadcasts; the instance identifier is what
  keeps duplicates and the skipped sender out. Whoever stays in the room gets
  the broadcast unless Redis lost it.
* **InZoneRooms.** Between messages a reader is in the board's room and in those of all zones
  it remembers, whatever joins and viewports came before; a closed one is in none. (It may also be in rooms
  of zones it no longer remembers, see section 5.)
* **UsedWithinLimit, CounterUnlessRaced, ChargesWithinLimit.** A counter never passes its limit, even when an edit
  replaces the limits between the guard's read and its increment: the rows of an edited package are new ones. What
  two overlapping requests, or a failed query, may bring about is a second counter; the requests
  let through are at most the limit for each counter there is, as long as no `DELETE` reaches the guard under the
  limit's endpoint and gives a use back. (The counter of a limit of 0 starts at one.)
* **FreePlanOnceUnlessRaced.** The free package is had once, also after it lapsed, unless two purchases of one user
  overlap or an administrator moved the name of the package.
* **QuotaShown.** With one active subscription, one limit on the resource and at most one counter, `/auth/me` shows
  something left exactly when the next request passes.
* **GrantsReplaced.** Grants are what was asked for last, unless two updates overlapped and one sent no title, and so
  took no lock: then each deletes what it sees and both lists stay.
* **SettledMirrors, AccessFollowsGrants.** Whatever errors, restarts and crossing calls left behind, one call on a role that meets no
  other and succeeds makes the rules equal to the grants, in the table and on the instance it
  ran on; a tenant then reaches there what his roles grant, and nothing else. The other instances learn nothing until they
  restart.
* **OneAccountUnlessRaced, ResetOnceUnlessRaced, ResetEndsSessions, EndedStaysEnded.** Each look-then-write of the auth service holds
  except in the overlap the property names; no chain of other calls, errors or deletions adds an exception.
* **TenantsWhole.** Users stay one level below a tenant who is there.
* **WidgetOnOwnBoard, OnlyOwnersChange.** The services check the owner of the row and of the board first and write by the id alone; rows never change their owner and ids are
  not used twice, so what was checked is still true, or the row is gone. No call of another tenant changes or removes a row; what removes a widget
  without a call of its tenant is a sale, or the end of the tenant.
* **SlugConflictOnlyIfRaced.** `uniqueSlug` finds a free slug whatever boards there are; only a rival takes it away.

What the violated ones show (each quotes what the repository says of itself in
`findings`):

* **NoTakeover.** PromoteToHardLocks reads EXISTS, the shopper's own lock
  lapses, another shopper wins SETNX, and the SET overwrites their lock.
* **NoStrandedColor.** Releasing a hard-locked widget broadcasts the soft release,
  which does not reset the hard flag: the free widget stays red.
* **NoDoubleSale.** The lock of the first buyer lapses after its verification; a
  second buyer locks, verifies and buys; both transactions commit, because
  nothing in the database makes a widget exclusive.
* **FinalPositionKept.** A debounce timer has fired when `Publish` stops it; its
  older position is sent after the final one and is stored last.
* **SentEventuallyStored.** After a broken connection the instance publishes again and never
  consumes again, so the message stays in the queue.

**Bounds and why they suffice.** Locks of different widgets meet only in the loops of
one promotion or one purchase. LockSafety starts on one of two boards: the wide one has two widgets, so that a promotion goes
round more than once while the other shopper works on the widget still to come; the narrow one has one, and
watchers that hear of its expiries. (Canvases, which no step of a lock reads, are followed in LockColor and CheckoutLiveness.)
The other runs of locks and checkout have one widget: their safety
is proved for any number, but that an order of several items is carried through and answered is checked for one item only
(with two items and two requests the state graph is too large to search for liveness). Two shoppers are needed for a takeover; a third adds no new kind of
step, since a call looks only at whether a key is its own. `MaxEvents`
bounds the notifications waiting for one watcher: one that finds the queue full is
lost, which `Faults` allows anyway. `MaxMoves` is
two because a property compares one position with one newer; `MaxCasts` is two
so that two deliveries meet; `MaxSubs` two, so that one connection joins and moves its
viewport, or both join. `MaxLost` is one because one loss is enough to tell a lost broadcast
from a forgotten one. HubSafety was also run once with three subscriptions (3.1 million states, no error).
In BackOffice every property is about at most two calls that overlap, and about what a
third one finds after them: `Accounts` has three calls; `Quota` two of each kind, of which three run (`MaxOps`), since
a request, an edit and another request are what a replaced limit takes; `Policy` and `Catalog` two, whose steps
already interleave with failures, restarts, sales and deletions, and what they leave behind is itself a state the
other call starts from. `MaxSubs` two tells a first subscription from a second, `MaxSecond` one tells the tokens of one second
from those of the next, `MaxRestarts` one an instance that loaded from one that did not. `x1`, `x2` and
the calls `c1` to `c3` are interchangeable, also where the parts use them for different things, and the run uses that symmetry.
The proofs below have no such bounds.

**Deadlock** is checked wherever the system has no end: not in the Hub, BackOffice and the two violated
Positions runs, where the bounds on broadcasts, calls and moves end every behaviour.

**Fairness.** Weak fairness on the steps of a call, a request, a watcher, a timer
and a consumer once they have begun: each is a goroutine that Go schedules,
and its stores answer. Commands may also fail in LockSafety, but no failure counts as the progress
fairness asks for. Nothing is assumed of what comes from outside:
messages, new requests, expiry and faults are never forced. The refuting run PositionConsumer
has the same fairness, and its counterexample ends with no fair step enabled.

## 4. Proofs

The theorems hold for any sets of users, widgets, connections, instances, requests and messages,
under the assumptions the modules name (`ConstantsAssumption`, `RequestsAssumption`,
`PositionsAssumption`, `HubAssumption`, `AccountsAssumption`, `CatalogAssumption`, `PolicyAssumption`,
`QuotaAssumption`): each connection has a user or an instance, the boards and widgets of the start have owners and slugs of their own, limits are
of a resource and not below -1, and the markers (`NoLock`, `NoMsg`, `Nil`, ...) are none of the values they stand beside.
They need no fairness and nothing about the bounds.

| theorem | statement |
|---|---|
| `LockTypeCorrect`, `HoldersAlwaysWon`, `ExclusiveUnlessLapsed`, `LocksImplementReservation` | the four safety properties of LockSafety |
| `TypeCorrect`, `KeysNameOneOrder`, `OrdersOnlyOfReserved`, `HoldersStillWon`, `RemovedStaysUnsold`, `CheckoutImplementsOrderBook` | `TypeOK`, `OneOrderPerKey`, `OrdersReserved`, `HoldersWon`, `NoSaleAfterRemoval`, `ImplementsOrderBook` of `Spec` |
| `PositionsTypeCorrect`, `DebounceKeepsLatest`, `AcceptedNotForgotten` | the three properties of PositionSafety |
| `HubTypeCorrect`, `NeverSendsOnClosed`, `AlwaysInZoneRooms`, `BroadcastReachesRoom`, `DeliveredOnce` | the five properties of HubSafety |
| `AccountsTypeCorrect`, `OneAccountCorrect`, `ResetOnceCorrect`, `ResetEndsCorrect`, `EndedStaysCorrect`, `TenantsCorrect` | the six properties of `Accounts` |
| `CatalogTypeCorrect`, `WidgetBoardCorrect`, `OwnersChangeCorrect`, `SlugConflictCorrect` | the four properties of `Catalog` |
| `QuotaTypeCorrect`, `UsedWithinLimitHolds`, `OneCounterUnlessRaced`, `ChargesWithinLimitHolds`, `FreePlanOnce`, `QuotaShownHolds` | the six properties of `Quota` |
| `PolicyTypeCorrect`, `GrantsAreReplaced`, `SettledRolesMirror`, `AccessFollowsTheGrants` | the four properties of `Policy` |

* **Locks.** `HoldersWon` is not inductive: a promotion writes a lock from the list it carries.
  The invariant `LockInv` adds `CarriedWon`: every widget in a call's list, or in its
  hands between EXISTS and SET, is one its user has won. `won` only grows, so
  it stays true whatever happens to the key meanwhile. That is also
  why every `SET` maps to `Reservation`'s `Confirm`. `OnlyHolderUnlessLapsed` rests on `CountsRight`: what a message counts
  on is true, or has lapsed. It begins to count when it reads that its user is the holder (`CountsBefore`); a lock is
  ended or written only by expiry or by a message that counts on it (`LockChanges`); and two users who count on one widget
  cannot both be right, so the first wrong one needs a lapse. The theorem also has several connections of one user.
* **Checkout.** `Inv` adds to `LockInv`, beside types, `Filed` (a row of a key is of a request
  with that key), `ToldTruth` (what a request was told of is what its key names, and only the
  request of the row is told it placed it), and `VerifiedWon` (the widgets a request has
  verified were won by its buyer). Rows of `orders` are never rewritten and
  `stock` never grows, from which the step simulation of `OrderBook` follows.
* **Positions.** The properties are inductive together with `PositionsTypeOK`, which
  says which timer the map names: the stopped or replaced timer is then one whose
  position is not the latest.
* **Hub.** Four strengthenings, each on top of `HubTypeOK`. `Parted`: a connection that is ending
  is in no room and in no delivery, so closing its channel later is safe. `Entering`: in the middle of a
  message every room of its zones has been entered or is about to be. `OwedInRoom`: what a connection is owed was
  sent to a room it is in, so the relay finds it there. `Places`: a broadcast that is not
  published is known on no other instance (`Unpublished`); on a wire it is there once and new to the
  instance (`Unread`); a sender delivers only its own broadcasts and a relay only those of other
  instances (`Sources`); and numbers make a new one differ from all there are (`Numbered`).
* **Accounts.** `Inv` adds to the types what a call carries at each point and that a stored token is its
  user's. On top of it: `Single` (two live rows, two sign-ups about to create, or one of each, with one email make it
  contested), `LinkOnce` (a link not stored yet aims at nobody, none aims at two users, and one that changed a
  password aims at nobody any more), `Reads` (a call about to store has read the resets there were), and `Ends1`,
  `Ends2` (a token signed once is stored nowhere else, and one that ended for nobody).
* **Catalog.** `OwnInv`: `TaskOwn` says that what a call looked at is still its owner's or is gone, which holds because a step
  never changes the owner of a row (`BoardsKept`, `ItemsKept`). `SlugInv`: a creation without a
  rival has a slug that is free, and the stamps given so far are below the clock.
* **Policy.** Three layers. `Inv`: the types and what a call works on at each point. `GrantInv`: two updates of one role
  that both hold a title are never both past it (`Apart`), so in a role that is not blurred one transaction at a time has
  looked at the grants, what it will delete is all there is (`OnGrants`), and a removed role has none. `MirrorInv`: a
  call that met no other knows how far the rules, in the table and in its instance's memory, are from the grants
  (`Tracks`), and a settled role has nobody at work on its policies (`Undisturbed`). What the middleware answers
  follows from the mirrored rules alone (`AccessFollows`).

* **Quota.** `Inv`: the types and what an edit asks for at each point. `RowsInv`: a guard at work has the count of its
  limit, live or removed (`Knows`), because ids are not used twice, and an id not given yet has no counters (`Fresh`); so the
  increment compares with the right number however old the read is. `CounterInv`: the requests of a user outside
  `crowded` do not meet (`Alone`), so what one found when it counted nothing is still so when it starts a counter
  (`UsedUp`). `ChargesInv`: on a limit whose uses nobody gives back, counters only grow and only together, so a later one is
  never above an earlier one (`Falling`) and, when the last is full, all are; each but the last stands for at most the
  limit and the last for what it shows (`Counted`). This needs that the `DELETE` of no resource, and not only of the
  limit's own, is seen under the limit's endpoint: the guard knows a route by its pattern alone, and another
  resource's deletion under it would give the use back. `FreeInv`: a package never
  renamed is called free while it can be bought (`FreeNamed`), and the purchases of a user outside `crowded` do not
  meet (`BuysAlone`), so the one that passed the check still finds no subscription when it makes the row (`FirstOfPlan`).
  `QuotaShown` follows from the types alone; the sums of `/auth/me` have one term there, and the folds of the library are
  written out for it (`SumOfOne`, `SumOnOne`), since nothing about longer sums can be had without induction over data.

Only model-checked: the liveness properties
(fairness and ENABLED are out of the prover's reach), and everything that is refuted.

## 5. What is not modelled, and why

Read in the code, without a run of its own:

* ReleaseLock (`realtime/service.go:313`) compares and deletes in two commands, so after a lapse in between it deletes
  the next shopper's lock (the exception of `OnlyHolderUnlessLapsed`), and it leaves the widget in `hardlocks`; a later expiry of
  a soft lock is then reported as a hard release. With several instances the SREM succeeds on one of them only,
  so the others report a soft release. Both are steps of `LockLifecycle`; canvases show them
  alike but for the color that `NoStrandedColor` is about.
* A soft lock is enough at checkout (`UserHoldsLock` does not ask for the kind).
* If RemoveWidget fails after the commit, the sold widget is still for sale.
* A second join of one connection does not leave the zone rooms of the first.
* A join enters the rooms before it reads the widgets and sends them afterwards, so its snapshot may be
  older than events the client has had already.
* Nobody calls RemovePresence: peers stay until the hash expires.
* The seed gives every package a primary user, so `IsSystem` (`package/service.go`) holds for none, and the
  protection of the system packages (`package/errors.go:9`) protects nothing: the free one may be renamed or removed, after which a
  sign-up that looks for its slug fails. `Remove` of a role does not ask whether the seed made it.
* The lifetime in a refresh token is never read: it is compared with the stored string only, and ends with it.
* The user service changes a password and leaves the sessions and links of the user; it gives a user roles
  and binds none of them in Casbin.
* Several active subscriptions: the guard asks each plan in turn and stops at the first that is used up, while `/auth/me` shows the sum. A limit
  of 0 lets one request through, since the first counter starts at one.
* The guard and the Casbin middleware of a mounted router see the pattern of the mount, not of the route.
* A CSV file without a header whose first line mentions "sku" or "name" loses that line.
* A binding (`AddGroupingPolicy`) that failed after the commit of a registration is repaired by nothing.

Left out of the modules above: the 120 ms gap between two soft locks of a user (it only refuses
attempts); `MarkPaid` and its flag (no caller); the client's local countdown; the framing of
messages (the model follows the event names); `writePump` and full send buffers (a
dropped frame is meant, `hub.go:32`); frames sent to one client; the hub of an instance whose Redis
did not answer at its start; the coordinates of zones; the text of names,
titles and descriptions; hashes and signatures; access tokens; prices, invoices, mail, rendering and the
queries that only read.
Broadcasts of locks reach all canvases in one step of `LockLifecycle`; `Hub` has their
delivery step by step, and the two are not composed: locks say what is broadcast, the hub to whom.

## 6. Plan

Done: 1. locks, 2. checkout on top of them, 3. positions, 4. the hub, 5. the limit guard with packages and
subscriptions (`Quota`), 6. roles and Casbin (`Policy`), 7. accounts and tokens (`Accounts`), 8. boards and inventory (`Catalog`).

Next, in this order:

9. **Join**: the snapshot of a join against lock and position events, composed of what
   `LockLifecycle` broadcasts and the order in which `Hub` delivers.
10. **Zones**: `CalculateOverlappingZones` and its siblings as operators, against the definition
   "the rectangle and the zone intersect" on small grids.

A theorem worth proving next: that `Hub` implements an abstract broadcast channel.
