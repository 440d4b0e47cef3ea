---------------------------- MODULE LockLifecycle ----------------------------
(***************************************************************************)
(* The soft and hard locks of one board's widgets: the Redis keys          *)
(* lock:<board>:<widget> and the set hardlocks:<board>, the three socket   *)
(* messages that change them (gateway.go: onSoftLock, onSoftRelease,       *)
(* onHardLock, with the service calls they make), the expiry of a key, the *)
(* expiry watcher of every API instance, and what the canvases of the      *)
(* viewers show after each broadcast (canvas-editor.tsx).                  *)
(*                                                                         *)
(* Grain.  One Redis command is one step: two commands of one call may be  *)
(* separated by anything.  A connection's reader handles one message at a  *)
(* time, so a connection is a process and call[c] is its program counter   *)
(* and locals.  Time is not modelled: a key may expire at any moment, and  *)
(* the 120 ms gap of AcquireSoftLock, which can only refuse an attempt, is *)
(* an attempt that does not happen.  The paid:<board>:<widget> flag is not *)
(* modelled: MarkPaid, the only operation that sets it, has no caller, so  *)
(* ResolveExpiredLock always reads it as absent.                           *)
(***************************************************************************)
EXTENDS Naturals, Sequences, FiniteSets

CONSTANTS
  Users,      \* identities of shoppers
  Widgets,    \* the widgets of the board
  Conns,      \* websocket connections
  Instances,  \* API instances that run an expiry watcher
  Viewers,    \* open canvases whose display is followed
  UserOf,     \* UserOf[c]: the user of connection c
  Nobody,     \* no user
  NoLock,     \* the key does not exist
  NoWidget,   \* no widget
  MaxEvents,  \* bound on the notifications waiting for one watcher
  Faults      \* whether calls may be cut short and notifications be lost

(* A connection belongs to one user, and the markers are none of the values *)
(* they stand beside.                                                        *)
ASSUME ConstantsAssumption ==
  /\ UserOf \in [Conns -> Users]
  /\ Nobody \notin Users
  /\ NoWidget \notin Widgets
  /\ NoLock \notin [user : Users, kind : {"soft", "hard"}]
  /\ MaxEvents \in Nat
  /\ Faults \in BOOLEAN

VARIABLES
  lock,       \* the Redis value of lock:<board>:<w>
  hardlocks,  \* the Redis set hardlocks:<board>
  expired,    \* expired[i]: notifications instance i has not read yet
  watcher,    \* watcher[i]: the outcome instance i is about to broadcast
  call,       \* call[c]: the message connection c is handling
  screen,     \* screen[v]: what canvas v shows of each widget
  won         \* history: every <<user, widget>> SETNX has succeeded for

lockVars == <<lock, hardlocks, expired, watcher, call, screen, won>>

Lock == [user : Users, kind : {"soft", "hard"}]

Soft(u) == [user |-> u, kind |-> "soft"]
Hard(u) == [user |-> u, kind |-> "hard"]

(* lock[w].user = u where lock[w] may be absent: getLock and its callers. *)
Holds(u, w) == lock[w] # NoLock /\ lock[w].user = u

Idle == [pc |-> "idle", w |-> NoWidget, todo |-> {}, mine |-> {}, done |-> {}]

Resting == [outcome |-> "none", w |-> NoWidget]

LockInit ==
  /\ lock = [w \in Widgets |-> NoLock]
  /\ hardlocks = {}
  /\ expired = [i \in Instances |-> <<>>]
  /\ watcher = [i \in Instances |-> Resting]
  /\ call = [c \in Conns |-> Idle]
  /\ screen = [v \in Viewers |->
                 [w \in Widgets |-> [by |-> Nobody, hard |-> FALSE, there |-> TRUE]]]
  /\ won = {}

-----------------------------------------------------------------------------
(* Broadcasts and the canvases that receive them.                            *)

(* Of a widget that has left a canvas ("there" is FALSE) the other fields   *)
(* mean nothing: an event about it finds nothing to update.                 *)
ShowFixed(w, u) ==
  screen' = [v \in Viewers |-> [screen[v] EXCEPT ![w] = [@ EXCEPT !.by = u]]]

(* onLockReleased leaves the hard flag of the widget as it is. *)
ShowReleased(W) ==
  screen' = [v \in Viewers |->
    [w \in Widgets |-> IF w \in W THEN [screen[v][w] EXCEPT !.by = Nobody] ELSE screen[v][w]]]

(* onHardFixed sets the flag and leaves the holder as it is. *)
ShowHard(W) ==
  screen' = [v \in Viewers |->
    [w \in Widgets |-> IF w \in W THEN [screen[v][w] EXCEPT !.hard = TRUE] ELSE screen[v][w]]]

(* onHardReleased resets both. *)
ShowHardReleased(w) ==
  screen' = [v \in Viewers |->
    [screen[v] EXCEPT ![w] = [@ EXCEPT !.by = Nobody, !.hard = FALSE]]]

ShowPurchased(w) ==
  screen' = [v \in Viewers |-> [screen[v] EXCEPT ![w] = [@ EXCEPT !.there = FALSE]]]

-----------------------------------------------------------------------------
(* Redis commands several operations share.                                  *)

SetLock(w, value) == lock' = [lock EXCEPT ![w] = value]
DelLock(w) == SetLock(w, NoLock)
SRem(w) == hardlocks' = hardlocks \ {w}

-----------------------------------------------------------------------------
(* widget:lock:soft:init.                                                    *)

(* Bug variant of SoftLock: SET instead of SETNX. *)
SoftLockBySet(c, w) ==
  /\ call[c].pc = "idle"
  /\ SetLock(w, Soft(UserOf[c]))
  /\ won' = won \cup {<<UserOf[c], w>>}
  /\ call' = [call EXCEPT ![c] = [Idle EXCEPT !.pc = "softEmit", !.w = w]]
  /\ UNCHANGED <<hardlocks, expired, watcher, screen>>

(* SETNX succeeds.  When it does not, the reply goes to the caller only and *)
(* nothing changes.                                                          *)
SoftLock(c, w) ==
  /\ call[c].pc = "idle"
  /\ lock[w] = NoLock
  /\ SetLock(w, Soft(UserOf[c]))
  /\ won' = won \cup {<<UserOf[c], w>>}
  /\ call' = [call EXCEPT ![c] = [Idle EXCEPT !.pc = "softEmit", !.w = w]]
  /\ UNCHANGED <<hardlocks, expired, watcher, screen>>

SoftEmit(c) ==
  /\ call[c].pc = "softEmit"
  /\ ShowFixed(call[c].w, UserOf[c])
  /\ call' = [call EXCEPT ![c] = Idle]
  /\ UNCHANGED <<lock, hardlocks, expired, watcher, won>>

-----------------------------------------------------------------------------
(* widget:lock:soft:release:init.  The release is broadcast whether or not  *)
(* anything was released.                                                    *)

(* Bug variant of ReleaseGet: the widget of the message is not kept. *)
ReleaseGetUnnamed(c, w) ==
  /\ call[c].pc = "idle"
  /\ call' = [call EXCEPT ![c] =
       [Idle EXCEPT !.pc = IF Holds(UserOf[c], w) THEN "del" ELSE "releaseEmit"]]
  /\ UNCHANGED <<lock, hardlocks, expired, watcher, screen, won>>

(* Bug variant of ReleaseGet: nobody asks who the holder is. *)
ReleaseGetOfAnyone(c, w) ==
  /\ call[c].pc = "idle"
  /\ call' = [call EXCEPT ![c] =
       [Idle EXCEPT !.pc = IF lock[w] # NoLock THEN "del" ELSE "releaseEmit", !.w = w]]
  /\ UNCHANGED <<lock, hardlocks, expired, watcher, screen, won>>

(* ReleaseLock reads the holder ... *)
ReleaseGet(c, w) ==
  /\ call[c].pc = "idle"
  /\ call' = [call EXCEPT ![c] =
       [Idle EXCEPT !.pc = IF Holds(UserOf[c], w) THEN "del" ELSE "releaseEmit", !.w = w]]
  /\ UNCHANGED <<lock, hardlocks, expired, watcher, screen, won>>

(* ... and deletes the key, whatever it holds by now; hardlocks keeps w. *)
ReleaseDel(c) ==
  /\ call[c].pc = "del"
  /\ DelLock(call[c].w)
  /\ call' = [call EXCEPT ![c].pc = "releaseEmit"]
  /\ UNCHANGED <<hardlocks, expired, watcher, screen, won>>

(* The GET or the DEL fails, or the reply of the DEL is lost: the error is  *)
(* dropped, and the release is broadcast all the same.                       *)
ReleaseError(c) ==
  /\ Faults
  /\ \/ /\ call[c].pc = "idle"
        /\ \E w \in Widgets :
             call' = [call EXCEPT ![c] = [Idle EXCEPT !.pc = "releaseEmit", !.w = w]]
     \/ /\ call[c].pc = "del"
        /\ call' = [call EXCEPT ![c].pc = "releaseEmit"]
  /\ UNCHANGED <<lock, hardlocks, expired, watcher, screen, won>>

ReleaseEmit(c) ==
  /\ call[c].pc = "releaseEmit"
  /\ ShowReleased({call[c].w})
  /\ call' = [call EXCEPT ![c] = Idle]
  /\ UNCHANGED <<lock, hardlocks, expired, watcher, won>>

-----------------------------------------------------------------------------
(* widget:lock:hard:init.                                                    *)

HardLock(c) ==
  /\ call[c].pc = "idle"
  /\ call' = [call EXCEPT ![c] = [Idle EXCEPT !.pc = "scan", !.todo = Widgets]]
  /\ UNCHANGED <<lock, hardlocks, expired, watcher, screen, won>>

(* The loop over the user's locks: on to the next, or to the broadcast. *)
NextLock(r) ==
  IF r.todo # {} THEN [r EXCEPT !.pc = "scan", !.w = NoWidget]
  ELSE IF r.mine # {} THEN [r EXCEPT !.pc = "exists", !.w = NoWidget]
  ELSE IF r.done # {} THEN [r EXCEPT !.pc = "hardEmit", !.w = NoWidget]
  ELSE Idle

(* Bug variant of ScanLock: the locks of every user are promoted. *)
ScanLockOfAnyone(c, w) ==
  /\ call[c].pc = "scan"
  /\ w \in call[c].todo
  /\ LET r == [call[c] EXCEPT !.todo = @ \ {w}] IN
       call' = [call EXCEPT ![c] =
                  NextLock(IF lock[w] # NoLock THEN [r EXCEPT !.mine = @ \cup {w}] ELSE r)]
  /\ UNCHANGED <<lock, hardlocks, expired, watcher, screen, won>>

(* GetUserLocks: SCAN, and a GET per key; each key is read at its own time. *)
ScanLock(c, w) ==
  /\ call[c].pc = "scan"
  /\ w \in call[c].todo
  /\ LET r == [call[c] EXCEPT !.todo = @ \ {w}] IN
       call' = [call EXCEPT ![c] =
                  NextLock(IF Holds(UserOf[c], w) THEN [r EXCEPT !.mine = @ \cup {w}] ELSE r)]
  /\ UNCHANGED <<lock, hardlocks, expired, watcher, screen, won>>

(* Bug variant of PromoteExists: a lock that ended is waited for. *)
PromoteExistsWaits(c, w) ==
  /\ call[c].pc = "exists"
  /\ w \in call[c].mine
  /\ lock[w] # NoLock
  /\ call' = [call EXCEPT ![c] = [@ EXCEPT !.mine = @ \ {w}, !.pc = "set", !.w = w]]
  /\ UNCHANGED <<lock, hardlocks, expired, watcher, screen, won>>

(* EXISTS: a lock that ended since the scan is skipped.  The test does not *)
(* look at who holds it.                                                    *)
PromoteExists(c, w) ==
  /\ call[c].pc = "exists"
  /\ w \in call[c].mine
  /\ LET r == [call[c] EXCEPT !.mine = @ \ {w}] IN
       call' = [call EXCEPT ![c] = IF lock[w] = NoLock THEN NextLock(r)
                                   ELSE [r EXCEPT !.pc = "set", !.w = w]]
  /\ UNCHANGED <<lock, hardlocks, expired, watcher, screen, won>>

(* SET: an unconditional write with a fresh 5 minute TTL. *)
PromoteSet(c) ==
  /\ call[c].pc = "set"
  /\ SetLock(call[c].w, Hard(UserOf[c]))
  /\ call' = [call EXCEPT ![c].pc = "sadd"]
  /\ UNCHANGED <<hardlocks, expired, watcher, screen, won>>

Promoted(c) == NextLock([call[c] EXCEPT !.done = @ \cup {call[c].w}])

PromoteSAdd(c) ==
  /\ call[c].pc = "sadd"
  /\ hardlocks' = hardlocks \cup {call[c].w}
  /\ call' = [call EXCEPT ![c] = Promoted(c)]
  /\ UNCHANGED <<lock, expired, watcher, screen, won>>

(* A GET, EXISTS or SET that fails, or a SET whose reply is lost, skips the *)
(* widget; a SADD that fails is only logged.                                 *)
PromoteError(c) ==
  /\ Faults
  /\ \/ /\ call[c].pc = "scan"
        /\ \E w \in call[c].todo :
             call' = [call EXCEPT ![c] = NextLock([call[c] EXCEPT !.todo = @ \ {w}])]
     \/ /\ call[c].pc = "exists"
        /\ \E w \in call[c].mine :
             call' = [call EXCEPT ![c] = NextLock([call[c] EXCEPT !.mine = @ \ {w}])]
     \/ /\ call[c].pc \in {"set", "sadd"}
        /\ call' = [call EXCEPT ![c] = NextLock(call[c])]
     \/ /\ call[c].pc = "sadd"
        /\ call' = [call EXCEPT ![c] = Promoted(c)]
  /\ UNCHANGED <<lock, hardlocks, expired, watcher, screen, won>>

HardEmit(c) ==
  /\ call[c].pc = "hardEmit"
  /\ ShowHard(call[c].done)
  /\ call' = [call EXCEPT ![c] = Idle]
  /\ UNCHANGED <<lock, hardlocks, expired, watcher, won>>

(* The instance dies, or Redis refuses a command the handler gives up on: *)
(* what remains of the call does not happen.                               *)
Abandon(c) ==
  /\ Faults
  /\ call[c].pc # "idle"
  /\ call' = [call EXCEPT ![c] = Idle]
  /\ UNCHANGED <<lock, hardlocks, expired, watcher, screen, won>>

-----------------------------------------------------------------------------
(* Expiry and the watchers.                                                  *)

(* The TTL of a key ends.  Redis publishes the key's name, without the      *)
(* value it had, to the watchers subscribed at that moment: pub/sub keeps   *)
(* nothing for the others.                                                   *)
Expire(w) ==
  /\ lock[w] # NoLock
  /\ DelLock(w)
  /\ \E heard \in SUBSET {i \in Instances : Len(expired[i]) < MaxEvents} :
       /\ Faults \/ heard = Instances
       /\ expired' = [i \in Instances |->
                        IF i \in heard THEN Append(expired[i], w) ELSE expired[i]]
  /\ UNCHANGED <<hardlocks, watcher, call, screen, won>>

(* ResolveExpiredLock: SREM says whether the lapsed lock was a hard one. *)
WatchResolve(i) ==
  /\ watcher[i] = Resting
  /\ expired[i] # <<>>
  /\ LET w == Head(expired[i]) IN
       /\ watcher' = [watcher EXCEPT ![i] =
            [outcome |-> IF w \in hardlocks THEN "hard-released" ELSE "soft", w |-> w]]
       /\ SRem(w)
  /\ expired' = [expired EXCEPT ![i] = Tail(@)]
  /\ UNCHANGED <<lock, call, screen, won>>

(* A command of ResolveExpiredLock fails: the notification is dropped, with *)
(* the SREM done or not.                                                     *)
WatchError(i) ==
  /\ Faults
  /\ watcher[i] = Resting
  /\ expired[i] # <<>>
  /\ SRem(Head(expired[i])) \/ UNCHANGED hardlocks
  /\ expired' = [expired EXCEPT ![i] = Tail(@)]
  /\ UNCHANGED <<lock, watcher, call, screen, won>>

(* StartExpiryWatcher's switch: the broadcast goes to every instance's room. *)
WatchEmit(i) ==
  /\ \/ /\ watcher[i].outcome = "soft"
        /\ ShowReleased({watcher[i].w})
     \/ /\ watcher[i].outcome = "hard-released"
        /\ ShowHardReleased(watcher[i].w)
  /\ watcher' = [watcher EXCEPT ![i] = Resting]
  /\ UNCHANGED <<lock, hardlocks, expired, call, won>>

-----------------------------------------------------------------------------
ConnStep(c) ==
  \/ SoftEmit(c)
  \/ ReleaseDel(c)
  \/ ReleaseEmit(c)
  \/ PromoteSet(c)
  \/ PromoteSAdd(c)
  \/ HardEmit(c)
  \/ \E w \in Widgets : ScanLock(c, w) \/ PromoteExists(c, w)

ConnError(c) == PromoteError(c) \/ ReleaseError(c) \/ Abandon(c)

Message(c) ==
  \/ HardLock(c)
  \/ \E w \in Widgets : SoftLock(c, w) \/ ReleaseGet(c, w)

WatchStep(i) == WatchResolve(i) \/ WatchEmit(i)

LockNext ==
  \/ \E c \in Conns : Message(c) \/ ConnStep(c) \/ ConnError(c)
  \/ \E w \in Widgets : Expire(w)
  \/ \E i \in Instances : WatchStep(i) \/ WatchError(i)

LockSpec == LockInit /\ [][LockNext]_lockVars

(* Go schedules every reader and watcher goroutine, and Redis answers: that *)
(* a command fails is never needed for a call to go on.                      *)
LockFairness ==
  /\ \A c \in Conns : WF_lockVars(ConnStep(c))
  /\ \A i \in Instances : WF_lockVars(WatchStep(i))

-----------------------------------------------------------------------------
(* Properties.                                                               *)

CallPcs == {"idle", "softEmit", "del", "releaseEmit", "scan", "exists", "set",
            "sadd", "hardEmit"}

Call == [pc : CallPcs, w : Widgets \cup {NoWidget}, todo : SUBSET Widgets,
         mine : SUBSET Widgets, done : SUBSET Widgets]

Outcome == [outcome : {"none", "soft", "hard-released"}, w : Widgets \cup {NoWidget}]

Shown == [by : Users \cup {Nobody}, hard : BOOLEAN, there : BOOLEAN]

(* Every variable has its type; a call or an outcome about a widget names   *)
(* one.                                                                      *)
LockTypeOK ==
  /\ lock \in [Widgets -> Lock \cup {NoLock}]
  /\ hardlocks \in SUBSET Widgets
  /\ expired \in [Instances -> Seq(Widgets)]
  /\ watcher \in [Instances -> Outcome]
  /\ call \in [Conns -> Call]
  /\ \A c \in Conns : call[c].pc \in {"softEmit", "del", "releaseEmit", "set", "sadd"}
                        => call[c].w \in Widgets
  /\ \A i \in Instances : watcher[i].outcome # "none" => watcher[i].w \in Widgets
  /\ screen \in [Viewers -> [Widgets -> Shown]]
  /\ won \in SUBSET (Users \X Widgets)

(* No user holds a lock on a widget, soft or hard, unless SETNX succeeded   *)
(* for that user on that widget: promotion, although it writes the key      *)
(* blindly from a list read earlier, hands nobody a widget never reserved.  *)
HoldersWon == \A w \in Widgets : lock[w] # NoLock => <<lock[w].user, w>> \in won

(* The locks implement the abstract reservation of widgets. *)
Abstract == INSTANCE Reservation
ImplementsReservation == Abstract!Spec

(* Redis and the canvases: nothing is being handled or waits to be.         *)
Quiet ==
  /\ \A c \in Conns : call[c].pc = "idle"
  /\ \A i \in Instances : watcher[i] = Resting /\ expired[i] = <<>>

(* "exactly one of the two concurrent clients gets OK"                       *)
(* (BACKEND_ARCHITECTURE.md): a held widget does not pass from one user to  *)
(* another without having been free in between.                              *)
NoTakeover ==
  [][\A w \in Widgets :
       lock[w] # NoLock /\ lock'[w] # NoLock => lock'[w].user = lock[w].user]_lockVars

(* Every message is handled to its end: the loops over the user's locks     *)
(* stop whatever other connections and expiry do to the keys meanwhile.     *)
CallsFinish == \A c \in Conns : call[c].pc # "idle" ~> call[c].pc = "idle"

(* "Lock color must be globally consistent" (BACKEND_ARCHITECTURE.md): when *)
(* nothing is under way, a canvas shows as hard-locked no free widget.      *)
NoStrandedColor ==
  Quiet => \A v \in Viewers, w \in Widgets :
             screen[v][w].hard => lock[w] # NoLock
=============================================================================
