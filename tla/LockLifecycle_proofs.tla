------------------------ MODULE LockLifecycle_proofs ------------------------
(***************************************************************************)
(* Theorems about LockLifecycle, for any users, widgets, connections,      *)
(* instances and canvases.  The inductive invariant is the type invariant  *)
(* and the fact that whatever a promotion is about to write was won: the   *)
(* list read by GetUserLocks names only widgets whose key once held the    *)
(* caller's own SETNX.                                                      *)
(***************************************************************************)
EXTENDS LockHistory, SequenceTheorems, TLAPS

(* What a call carries from its scan to its SET was won by its user. *)
CarriedWon ==
  \A c \in Conns :
    /\ \A w \in call[c].mine : <<UserOf[c], w>> \in won
    /\ call[c].pc = "set" => <<UserOf[c], call[c].w>> \in won

LockInv == LockTypeOK /\ HoldersWon /\ CarriedWon

LEMMA NextLockType ==
  ASSUME NEW r \in Call
  PROVE  /\ NextLock(r) \in Call
         /\ NextLock(r).pc \in {"idle", "scan", "exists", "hardEmit"}
         /\ NextLock(r).mine \subseteq r.mine
BY DEF NextLock, Call, CallPcs, Idle

LEMMA IdleType == Idle \in Call
BY DEF Idle, Call, CallPcs

(* Every broadcast leaves the canvases well typed. *)
LEMMA ScreenType ==
  ASSUME LockTypeOK, NEW u \in Users \cup {Nobody}, NEW W \in SUBSET Widgets, NEW w \in Widgets,
         \/ ShowFixed(w, u)
         \/ ShowReleased(W)
         \/ ShowHard(W)
         \/ ShowHardReleased(w)
         \/ ShowPurchased(w)
  PROVE  screen' \in [Viewers -> [Widgets -> Shown]]
<1>1. \A s \in Shown : /\ [s EXCEPT !.by = u] \in Shown
                       /\ [s EXCEPT !.by = Nobody] \in Shown
                       /\ [s EXCEPT !.hard = TRUE] \in Shown
                       /\ [s EXCEPT !.by = Nobody, !.hard = FALSE] \in Shown
                       /\ [s EXCEPT !.there = FALSE] \in Shown
  BY DEF Shown
<1>2. screen \in [Viewers -> [Widgets -> Shown]]
  BY DEF LockTypeOK
<1>3. CASE ShowFixed(w, u)
  BY <1>1, <1>2, <1>3 DEF ShowFixed
<1>4. CASE ShowReleased(W)
  <2>1. \A v \in Viewers, x \in Widgets : [screen[v][x] EXCEPT !.by = Nobody] \in Shown
    BY <1>1, <1>2
  <2> QED BY <1>2, <1>4, <2>1 DEF ShowReleased
<1>5. CASE ShowHard(W)
  <2>1. \A v \in Viewers, x \in Widgets : [screen[v][x] EXCEPT !.hard = TRUE] \in Shown
    BY <1>1, <1>2
  <2> QED BY <1>2, <1>5, <2>1 DEF ShowHard
<1>6. CASE ShowHardReleased(w)
  BY <1>1, <1>2, <1>6 DEF ShowHardReleased
<1>7. CASE ShowPurchased(w)
  BY <1>1, <1>2, <1>7 DEF ShowPurchased
<1> QED BY <1>3, <1>4, <1>5, <1>6, <1>7

LEMMA LockInitInv == LockInit => LockInv
<1> SUFFICES ASSUME LockInit PROVE LockInv
  OBVIOUS
<1>1. screen \in [Viewers -> [Widgets -> Shown]]
  BY DEF LockInit, Shown
<1>2. call \in [Conns -> Call] /\ \A c \in Conns : call[c].pc = "idle"
  BY IdleType DEF LockInit, Idle
<1>3. watcher \in [Instances -> Outcome] /\ expired \in [Instances -> Seq(Widgets)]
  BY DEF LockInit, Resting, Outcome
<1>4. LockTypeOK
  BY <1>1, <1>2, <1>3 DEF LockInit, LockTypeOK, Resting
<1>5. HoldersWon /\ CarriedWon
  BY DEF LockInit, HoldersWon, CarriedWon, Idle
<1> QED BY <1>4, <1>5 DEF LockInv

-----------------------------------------------------------------------------
(* The steps of a call.                                                      *)

LEMMA SoftLockInv ==
  ASSUME LockInv, NEW c \in Conns, NEW w \in Widgets, SoftLock(c, w)
  PROVE  LockInv'
<1> USE ConstantsAssumption DEF SoftLock, SetLock, LockInv
<1>1. call' \in [Conns -> Call] /\ call'[c].pc = "softEmit" /\ call'[c].w = w
      /\ call'[c].mine = {}
  BY DEF LockTypeOK, Call, CallPcs, Idle
<1>2. LockTypeOK'
  BY <1>1 DEF LockTypeOK, Lock, Soft, Call
<1>3. HoldersWon' /\ CarriedWon'
  BY <1>1 DEF HoldersWon, CarriedWon, LockTypeOK, Soft
<1> QED BY <1>2, <1>3

(* A call that only moves on, with the locks and the scan result of "mine"  *)
(* it had: the state of the board stays as it was.                           *)
LEMMA CallOnlyInv ==
  ASSUME LockInv, NEW c \in Conns, NEW r \in Call,
         call' = [call EXCEPT ![c] = r],
         UNCHANGED <<lock, won>>,
         hardlocks' \in SUBSET Widgets, UNCHANGED <<expired, watcher>>,
         screen' \in [Viewers -> [Widgets -> Shown]],
         r.pc \in {"softEmit", "del", "releaseEmit", "set", "sadd"} => r.w \in Widgets,
         \A w \in r.mine : <<UserOf[c], w>> \in won,
         r.pc = "set" => <<UserOf[c], r.w>> \in won
  PROVE  LockInv'
<1> USE DEF LockInv
<1>1. LockTypeOK'
  BY DEF LockTypeOK
<1>2. HoldersWon' /\ CarriedWon'
  BY DEF HoldersWon, CarriedWon, LockTypeOK
<1> QED BY <1>1, <1>2

LEMMA BackToIdleInv ==
  ASSUME LockInv, NEW c \in Conns,
         call' = [call EXCEPT ![c] = Idle],
         UNCHANGED <<lock, won, hardlocks, expired, watcher>>,
         screen' \in [Viewers -> [Widgets -> Shown]]
  PROVE  LockInv'
<1>1. hardlocks' \in SUBSET Widgets
  BY DEF LockInv, LockTypeOK
<1> QED BY <1>1, CallOnlyInv, IdleType DEF Idle

LEMMA EmitInv ==
  ASSUME LockInv, NEW c \in Conns, SoftEmit(c) \/ ReleaseEmit(c) \/ HardEmit(c)
  PROVE  LockInv'
<1> USE ConstantsAssumption DEF LockInv
<1>1. screen' \in [Viewers -> [Widgets -> Shown]]
  <2>1. call[c] \in Call /\ UserOf[c] \in Users
    BY DEF LockTypeOK
  <2>2. CASE SoftEmit(c)
    <3>1. call[c].w \in Widgets
      BY <2>2 DEF SoftEmit, LockTypeOK
    <3> QED BY <2>1, <2>2, <3>1, ScreenType DEF SoftEmit
  <2>3. CASE ReleaseEmit(c)
    <3>1. call[c].w \in Widgets
      BY <2>3 DEF ReleaseEmit, LockTypeOK
    <3> QED BY <2>1, <2>3, <3>1, ScreenType DEF ReleaseEmit
  <2>4. CASE HardEmit(c)
    <3>1. call[c].done \in SUBSET Widgets
      BY <2>1 DEF Call
    <3>2. CASE Widgets = {}
      BY <2>4, <3>2 DEF HardEmit, ShowHard, LockTypeOK
    <3>3. CASE Widgets # {}
      BY <2>1, <2>4, <3>1, <3>3, ScreenType DEF HardEmit
    <3> QED BY <3>2, <3>3
  <2> QED BY <2>2, <2>3, <2>4
<1> QED BY <1>1, BackToIdleInv DEF SoftEmit, ReleaseEmit, HardEmit

LEMMA ReleaseGetInv ==
  ASSUME LockInv, NEW c \in Conns, NEW w \in Widgets, ReleaseGet(c, w)
  PROVE  LockInv'
<1> DEFINE r == [Idle EXCEPT !.pc = IF Holds(UserOf[c], w) THEN "del" ELSE "releaseEmit",
                             !.w = w]
<1>1. r \in Call /\ r.mine = {} /\ r.w \in Widgets /\ r.pc # "set"
  BY DEF Call, CallPcs, Idle
<1>2. call' = [call EXCEPT ![c] = r]
  BY DEF ReleaseGet
<1>3. screen' \in [Viewers -> [Widgets -> Shown]] /\ hardlocks' \in SUBSET Widgets
  BY DEF ReleaseGet, LockInv, LockTypeOK
<1> HIDE DEF r
<1> QED BY <1>1, <1>2, <1>3, CallOnlyInv DEF ReleaseGet

LEMMA ReleaseDelInv ==
  ASSUME LockInv, NEW c \in Conns, ReleaseDel(c)
  PROVE  LockInv'
<1> USE DEF LockInv, ReleaseDel, DelLock, SetLock
<1>1. call[c] \in Call /\ call[c].pc = "del" /\ call[c].w \in Widgets
  BY DEF LockTypeOK
<1>2. [call[c] EXCEPT !.pc = "releaseEmit"] \in Call
  BY <1>1 DEF Call, CallPcs
<1>3. call' \in [Conns -> Call] /\ call'[c].pc = "releaseEmit"
      /\ call'[c].w = call[c].w /\ call'[c].mine = call[c].mine
      /\ \A d \in Conns : d # c => call'[d] = call[d]
  BY <1>1, <1>2 DEF LockTypeOK, Call
<1>4. LockTypeOK'
  BY <1>1, <1>3 DEF LockTypeOK
<1>5. HoldersWon' /\ CarriedWon'
  BY <1>1, <1>3 DEF HoldersWon, CarriedWon, LockTypeOK
<1> QED BY <1>4, <1>5

LEMMA HardLockInv ==
  ASSUME LockInv, NEW c \in Conns, HardLock(c)
  PROVE  LockInv'
<1> DEFINE r == [Idle EXCEPT !.pc = "scan", !.todo = Widgets]
<1>1. r \in Call /\ r.mine = {} /\ r.pc = "scan"
  BY DEF Call, CallPcs, Idle
<1>2. call' = [call EXCEPT ![c] = r]
  BY DEF HardLock
<1>3. screen' \in [Viewers -> [Widgets -> Shown]] /\ hardlocks' \in SUBSET Widgets
  BY DEF HardLock, LockInv, LockTypeOK
<1> HIDE DEF r
<1> QED BY <1>1, <1>2, <1>3, CallOnlyInv DEF HardLock

(* The key read by the scan holds the caller's lock, so it was won. *)
LEMMA ScanLockInv ==
  ASSUME LockInv, NEW c \in Conns, NEW w \in Widgets, ScanLock(c, w)
  PROVE  LockInv'
<1> DEFINE r == [call[c] EXCEPT !.todo = @ \ {w}]
           q == IF Holds(UserOf[c], w) THEN [r EXCEPT !.mine = @ \cup {w}] ELSE r
<1>1. call[c] \in Call
  BY DEF LockInv, LockTypeOK
<1>2. q \in Call /\ q.mine \subseteq call[c].mine \cup {x \in {w} : Holds(UserOf[c], x)}
  BY <1>1 DEF Call
<1>3. \A x \in q.mine : <<UserOf[c], x>> \in won
  BY <1>2 DEF LockInv, CarriedWon, HoldersWon, Holds
<1>4. call' = [call EXCEPT ![c] = NextLock(q)]
  BY DEF ScanLock
<1>5. screen' \in [Viewers -> [Widgets -> Shown]] /\ hardlocks' \in SUBSET Widgets
  BY DEF ScanLock, LockInv, LockTypeOK
<1> HIDE DEF q
<1>6. NextLock(q) \in Call /\ NextLock(q).mine \subseteq q.mine
      /\ NextLock(q).pc \in {"idle", "scan", "exists", "hardEmit"}
  BY <1>2, NextLockType
<1> QED BY <1>3, <1>4, <1>5, <1>6, CallOnlyInv DEF ScanLock

LEMMA PromoteExistsInv ==
  ASSUME LockInv, NEW c \in Conns, NEW w \in Widgets, PromoteExists(c, w)
  PROVE  LockInv'
<1> DEFINE r == [call[c] EXCEPT !.mine = @ \ {w}]
           q == [r EXCEPT !.pc = "set", !.w = w]
<1>1. call[c] \in Call /\ <<UserOf[c], w>> \in won
  BY DEF LockInv, LockTypeOK, CarriedWon, PromoteExists
<1>2. r \in Call /\ r.mine \subseteq call[c].mine
  BY <1>1 DEF Call
<1>3. q \in Call /\ q.mine \subseteq call[c].mine /\ q.w = w
  BY <1>1 DEF Call, CallPcs
<1>4. call' = [call EXCEPT ![c] = IF lock[w] = NoLock THEN NextLock(r) ELSE q]
  BY DEF PromoteExists
<1>5. screen' \in [Viewers -> [Widgets -> Shown]] /\ hardlocks' \in SUBSET Widgets
  BY DEF PromoteExists, LockInv, LockTypeOK
<1>6. \A x \in call[c].mine : <<UserOf[c], x>> \in won
  BY DEF LockInv, CarriedWon
<1> HIDE DEF r, q
<1>7. CASE lock[w] = NoLock
  <2>1. NextLock(r) \in Call /\ NextLock(r).mine \subseteq r.mine
        /\ NextLock(r).pc \in {"idle", "scan", "exists", "hardEmit"}
    BY <1>2, NextLockType
  <2> QED BY <1>2, <1>4, <1>5, <1>6, <1>7, <2>1, CallOnlyInv DEF PromoteExists
<1>8. CASE lock[w] # NoLock
  BY <1>1, <1>3, <1>4, <1>5, <1>6, <1>8, CallOnlyInv DEF PromoteExists
<1> QED BY <1>7, <1>8

LEMMA PromoteSetInv ==
  ASSUME LockInv, NEW c \in Conns, PromoteSet(c)
  PROVE  LockInv'
<1> USE ConstantsAssumption DEF LockInv, PromoteSet, SetLock
<1>1. call[c] \in Call /\ call[c].w \in Widgets /\ <<UserOf[c], call[c].w>> \in won
  BY DEF LockTypeOK, CarriedWon
<1>2. [call[c] EXCEPT !.pc = "sadd"] \in Call
  BY <1>1 DEF Call, CallPcs
<1>3. call' \in [Conns -> Call] /\ call'[c].pc = "sadd"
      /\ call'[c].w = call[c].w /\ call'[c].mine = call[c].mine
      /\ \A d \in Conns : d # c => call'[d] = call[d]
  BY <1>1, <1>2 DEF LockTypeOK, Call
<1>4. LockTypeOK'
  <2>1. Hard(UserOf[c]) \in Lock
    BY DEF Hard, Lock
  <2> QED BY <1>1, <1>3, <2>1 DEF LockTypeOK
<1>5. HoldersWon' /\ CarriedWon'
  BY <1>1, <1>3 DEF HoldersWon, CarriedWon, LockTypeOK, Hard
<1> QED BY <1>4, <1>5

(* The end of one round of the loop. *)
LEMMA PromotedType ==
  ASSUME LockInv, NEW c \in Conns, call[c].pc = "sadd"
  PROVE  /\ Promoted(c) \in Call
         /\ Promoted(c).pc \in {"idle", "scan", "exists", "hardEmit"}
         /\ Promoted(c).mine \subseteq call[c].mine
<1> DEFINE r == [call[c] EXCEPT !.done = @ \cup {call[c].w}]
<1>1. r \in Call /\ r.mine = call[c].mine
  BY DEF LockInv, LockTypeOK, Call
<1> HIDE DEF r
<1>2. Promoted(c) = NextLock(r)
  BY DEF Promoted, r
<1> QED BY <1>1, <1>2, NextLockType

(* On to the next lock, with no more to promote than before. *)
LEMMA MoveOnInv ==
  ASSUME LockInv, NEW c \in Conns, NEW r \in Call, r.mine \subseteq call[c].mine,
         call' = [call EXCEPT ![c] = NextLock(r)],
         UNCHANGED <<lock, won, expired, watcher, screen>>,
         hardlocks' \in SUBSET Widgets
  PROVE  LockInv'
<1>1. NextLock(r) \in Call /\ NextLock(r).mine \subseteq r.mine
      /\ NextLock(r).pc \in {"idle", "scan", "exists", "hardEmit"}
  BY NextLockType
<1>2. \A x \in call[c].mine : <<UserOf[c], x>> \in won
  BY DEF LockInv, CarriedWon
<1>3. screen' \in [Viewers -> [Widgets -> Shown]]
  BY DEF LockInv, LockTypeOK
<1> QED BY <1>1, <1>2, <1>3, CallOnlyInv

LEMMA PromoteRestInv ==
  ASSUME LockInv, NEW c \in Conns, PromoteSAdd(c) \/ PromoteError(c)
  PROVE  LockInv'
<1>1. call[c] \in Call /\ \A x \in call[c].mine : <<UserOf[c], x>> \in won
  BY DEF LockInv, LockTypeOK, CarriedWon
<1>2. screen' \in [Viewers -> [Widgets -> Shown]] /\ hardlocks' \in SUBSET Widgets
      /\ UNCHANGED <<lock, expired, watcher, screen, won>>
  BY DEF PromoteSAdd, PromoteError, LockInv, LockTypeOK
<1>3. CASE call[c].pc = "sadd" /\ call' = [call EXCEPT ![c] = Promoted(c)]
  BY <1>1, <1>2, <1>3, PromotedType, CallOnlyInv
<1>4. CASE call' = [call EXCEPT ![c] = NextLock(call[c])]
  BY <1>1, <1>2, <1>4, MoveOnInv
<1>5. ASSUME NEW w \in Widgets,
             call' = [call EXCEPT ![c] = NextLock([call[c] EXCEPT !.todo = @ \ {w}])]
      PROVE  LockInv'
  <2>1. [call[c] EXCEPT !.todo = @ \ {w}] \in Call
        /\ [call[c] EXCEPT !.todo = @ \ {w}].mine \subseteq call[c].mine
    BY <1>1 DEF Call
  <2> QED BY <1>2, <1>5, <2>1, MoveOnInv
<1>6. ASSUME NEW w \in Widgets,
             call' = [call EXCEPT ![c] = NextLock([call[c] EXCEPT !.mine = @ \ {w}])]
      PROVE  LockInv'
  <2>1. [call[c] EXCEPT !.mine = @ \ {w}] \in Call
        /\ [call[c] EXCEPT !.mine = @ \ {w}].mine \subseteq call[c].mine
    BY <1>1 DEF Call
  <2> QED BY <1>2, <1>6, <2>1, MoveOnInv
<1>7. call[c].todo \subseteq Widgets /\ call[c].mine \subseteq Widgets
  BY <1>1 DEF Call
<1> QED BY <1>3, <1>4, <1>5, <1>6, <1>7 DEF PromoteSAdd, PromoteError

LEMMA ReleaseErrorInv ==
  ASSUME LockInv, NEW c \in Conns, ReleaseError(c)
  PROVE  LockInv'
<1>1. UNCHANGED <<lock, won, expired, watcher>> /\ hardlocks' \in SUBSET Widgets
      /\ screen' \in [Viewers -> [Widgets -> Shown]]
  BY DEF ReleaseError, LockInv, LockTypeOK
<1>2. ASSUME NEW w \in Widgets,
             call' = [call EXCEPT ![c] = [Idle EXCEPT !.pc = "releaseEmit", !.w = w]]
      PROVE  LockInv'
  <2> DEFINE r == [Idle EXCEPT !.pc = "releaseEmit", !.w = w]
  <2>1. r \in Call /\ r.mine = {} /\ r.w = w /\ r.pc = "releaseEmit"
    BY DEF Call, CallPcs, Idle
  <2> HIDE DEF r
  <2> QED BY <1>1, <1>2, <2>1, CallOnlyInv DEF r
<1>3. CASE call[c].pc = "del" /\ call' = [call EXCEPT ![c].pc = "releaseEmit"]
  <2> DEFINE r == [call[c] EXCEPT !.pc = "releaseEmit"]
  <2>1. call[c] \in Call /\ call[c].w \in Widgets
        /\ \A x \in call[c].mine : <<UserOf[c], x>> \in won
    BY <1>3 DEF LockInv, LockTypeOK, CarriedWon
  <2>2. r \in Call /\ r.mine = call[c].mine /\ r.w = call[c].w /\ r.pc = "releaseEmit"
    BY <2>1 DEF Call, CallPcs
  <2>3. call' = [call EXCEPT ![c] = r]
    BY <1>3 DEF LockInv, LockTypeOK
  <2> HIDE DEF r
  <2> QED BY <1>1, <2>1, <2>2, <2>3, CallOnlyInv
<1> QED BY <1>2, <1>3 DEF ReleaseError

-----------------------------------------------------------------------------
(* Expiry and the watchers.                                                  *)

LEMMA ExpireInv ==
  ASSUME LockInv, NEW w \in Widgets, Expire(w)
  PROVE  LockInv'
<1> USE DEF LockInv, Expire, DelLock, SetLock
<1>1. expired' \in [Instances -> Seq(Widgets)]
  <2>1. PICK heard \in SUBSET Instances :
          expired' = [i \in Instances |->
                        IF i \in heard THEN Append(expired[i], w) ELSE expired[i]]
    OBVIOUS
  <2>2. \A i \in Instances : expired[i] \in Seq(Widgets)
    BY DEF LockTypeOK
  <2>3. \A i \in Instances : Append(expired[i], w) \in Seq(Widgets)
    BY <2>2, AppendProperties
  <2> QED BY <2>1, <2>2, <2>3
<1>2. LockTypeOK'
  BY <1>1 DEF LockTypeOK
<1>3. HoldersWon' /\ CarriedWon'
  BY DEF HoldersWon, CarriedWon, LockTypeOK
<1> QED BY <1>2, <1>3

LEMMA WatchResolveInv ==
  ASSUME LockInv, NEW i \in Instances, WatchResolve(i)
  PROVE  LockInv'
<1> USE DEF LockInv, WatchResolve, SRem
<1>1. expired[i] \in Seq(Widgets) /\ expired[i] # <<>>
  BY DEF LockTypeOK
<1>2. Head(expired[i]) \in Widgets /\ Tail(expired[i]) \in Seq(Widgets)
  BY <1>1, HeadTailProperties
<1>3. watcher' \in [Instances -> Outcome]
      /\ \A j \in Instances : watcher'[j].outcome # "none" => watcher'[j].w \in Widgets
  BY <1>2 DEF LockTypeOK, Outcome
<1>4. LockTypeOK'
  BY <1>2, <1>3 DEF LockTypeOK
<1>5. HoldersWon' /\ CarriedWon'
  BY DEF HoldersWon, CarriedWon
<1> QED BY <1>4, <1>5

LEMMA WatchErrorInv ==
  ASSUME LockInv, NEW i \in Instances, WatchError(i)
  PROVE  LockInv'
<1>1. expired[i] \in Seq(Widgets) /\ expired[i] # <<>>
  BY DEF WatchError, LockInv, LockTypeOK
<1>2. Tail(expired[i]) \in Seq(Widgets) /\ hardlocks' \in SUBSET Widgets
  BY <1>1, HeadTailProperties DEF WatchError, SRem, LockInv, LockTypeOK
<1>3. LockTypeOK'
  BY <1>2 DEF WatchError, LockInv, LockTypeOK
<1>4. HoldersWon' /\ CarriedWon'
  BY DEF WatchError, LockInv, HoldersWon, CarriedWon
<1> QED BY <1>3, <1>4 DEF LockInv

LEMMA RestingType == Resting \in Outcome
BY DEF Resting, Outcome

LEMMA WatchEmitInv ==
  ASSUME LockInv, NEW i \in Instances, WatchEmit(i)
  PROVE  LockInv'
<1>1. watcher[i].w \in Widgets
  BY DEF WatchEmit, LockInv, LockTypeOK
<1>2. screen' \in [Viewers -> [Widgets -> Shown]]
  <2>1. {watcher[i].w} \in SUBSET Widgets
    BY <1>1
  <2>2. Nobody \in Users \cup {Nobody} /\ LockTypeOK
    BY DEF LockInv
  <2> QED BY <1>1, <2>1, <2>2, ScreenType DEF WatchEmit
<1>3. LockTypeOK'
  BY <1>2, RestingType DEF WatchEmit, LockInv, LockTypeOK, Resting
<1>4. HoldersWon' /\ CarriedWon'
  BY DEF WatchEmit, LockInv, HoldersWon, CarriedWon
<1> QED BY <1>3, <1>4 DEF LockInv

-----------------------------------------------------------------------------
LEMMA AbandonInv ==
  ASSUME LockInv, NEW c \in Conns, Abandon(c)
  PROVE  LockInv'
<1>1. screen' \in [Viewers -> [Widgets -> Shown]]
  BY DEF Abandon, LockInv, LockTypeOK
<1> QED BY <1>1, BackToIdleInv DEF Abandon

LEMMA LockNextInv == LockInv /\ [LockNext]_lockVars => LockInv'
<1> SUFFICES ASSUME LockInv, [LockNext]_lockVars PROVE LockInv'
  OBVIOUS
<1>1. ASSUME NEW c \in Conns, Message(c) PROVE LockInv'
  BY <1>1, HardLockInv, SoftLockInv, ReleaseGetInv DEF Message
<1>2. ASSUME NEW c \in Conns, ConnStep(c) PROVE LockInv'
  BY <1>2, EmitInv, ReleaseDelInv, PromoteSetInv, PromoteRestInv, ScanLockInv,
     PromoteExistsInv DEF ConnStep
<1>3. ASSUME NEW c \in Conns, ConnError(c) PROVE LockInv'
  BY <1>3, PromoteRestInv, ReleaseErrorInv, AbandonInv DEF ConnError
<1>4. ASSUME NEW w \in Widgets, Expire(w) PROVE LockInv'
  BY <1>4, ExpireInv
<1>5. ASSUME NEW i \in Instances, WatchStep(i) \/ WatchError(i) PROVE LockInv'
  BY <1>5, WatchResolveInv, WatchErrorInv, WatchEmitInv DEF WatchStep
<1>6. CASE UNCHANGED lockVars
  BY <1>6 DEF lockVars, LockInv, LockTypeOK, HoldersWon, CarriedWon
<1> QED BY <1>1, <1>2, <1>3, <1>4, <1>5, <1>6 DEF LockNext

LEMMA LockInvariance == LockSpec => []LockInv
BY LockInitInv, LockNextInv, PTL DEF LockSpec

(* Type correctness, for any sizes of the system. *)
THEOREM LockTypeCorrect == LockSpec => []LockTypeOK
<1>1. LockInv => LockTypeOK
  BY DEF LockInv
<1> QED BY <1>1, LockInvariance, PTL

(* Nobody ever holds a lock, soft or hard, on a widget never won: a blind   *)
(* SET from a stale list cannot give a user someone else's first claim.     *)
THEOREM HoldersAlwaysWon == LockSpec => []HoldersWon
<1>1. LockInv => HoldersWon
  BY DEF LockInv
<1> QED BY <1>1, LockInvariance, PTL

-----------------------------------------------------------------------------
(* Refinement: SETNX reserves, SET confirms, DEL and expiry end, and no     *)
(* other step touches a lock.                                                *)
LEMMA AbstractStep ==
  ASSUME LockInv, LockNext
  PROVE  Abstract!Next \/ UNCHANGED <<lock, won>>
<1> USE ConstantsAssumption
<1>1. ASSUME NEW c \in Conns, Message(c)
      PROVE  Abstract!Next \/ UNCHANGED <<lock, won>>
  <2>1. ASSUME NEW w \in Widgets, SoftLock(c, w)
        PROVE  Abstract!Next
    <3>1. Abstract!Reserve(UserOf[c], w)
      BY <2>1 DEF SoftLock, SetLock, Soft, Abstract!Reserve
    <3> QED BY <3>1 DEF Abstract!Next
  <2>2. CASE HardLock(c)
    BY <2>2 DEF HardLock
  <2>3. ASSUME NEW w \in Widgets, ReleaseGet(c, w)
        PROVE  UNCHANGED <<lock, won>>
    BY <2>3 DEF ReleaseGet
  <2> QED BY <1>1, <2>1, <2>2, <2>3 DEF Message
<1>2. ASSUME NEW c \in Conns, ConnStep(c)
      PROVE  Abstract!Next \/ UNCHANGED <<lock, won>>
  <2>1. CASE PromoteSet(c)
    <3>1. call[c].w \in Widgets /\ <<UserOf[c], call[c].w>> \in won
      BY <2>1 DEF PromoteSet, LockInv, LockTypeOK, CarriedWon
    <3>2. Abstract!Confirm(UserOf[c], call[c].w)
      BY <2>1, <3>1 DEF PromoteSet, SetLock, Hard, Abstract!Confirm
    <3> QED BY <3>1, <3>2 DEF Abstract!Next
  <2>2. CASE ReleaseDel(c)
    <3>1. call[c].w \in Widgets
      BY <2>2 DEF ReleaseDel, LockInv, LockTypeOK
    <3>2. Abstract!End(call[c].w)
      BY <2>2 DEF ReleaseDel, DelLock, SetLock, Abstract!End
    <3> QED BY <3>1, <3>2 DEF Abstract!Next
  <2>3. CASE ~PromoteSet(c) /\ ~ReleaseDel(c)
    BY <1>2, <2>3 DEF ConnStep, SoftEmit, ReleaseEmit, PromoteSAdd, HardEmit,
                      ScanLock, PromoteExists
  <2> QED BY <2>1, <2>2, <2>3
<1>3. ASSUME NEW c \in Conns, ConnError(c)
      PROVE  UNCHANGED <<lock, won>>
  BY <1>3 DEF ConnError, PromoteError, ReleaseError, Abandon
<1>4. ASSUME NEW w \in Widgets, Expire(w)
      PROVE  Abstract!Next
  <2>1. Abstract!End(w)
    BY <1>4 DEF Expire, DelLock, SetLock, Abstract!End
  <2> QED BY <2>1 DEF Abstract!Next
<1>5. ASSUME NEW i \in Instances, WatchStep(i) \/ WatchError(i)
      PROVE  UNCHANGED <<lock, won>>
  BY <1>5 DEF WatchStep, WatchResolve, WatchError, WatchEmit
<1> QED BY <1>1, <1>2, <1>3, <1>4, <1>5 DEF LockNext

(* The life cycle of the locks implements the abstract reservation: every   *)
(* Redis command is one of its steps or leaves it alone.                     *)
THEOREM LocksImplementReservation == LockSpec => ImplementsReservation
<1>1. LockInit => Abstract!Init
  BY DEF LockInit, Abstract!Init
<1>2. LockInv /\ [LockNext]_lockVars => [Abstract!Next]_(Abstract!vars)
  BY AbstractStep DEF lockVars, Abstract!vars
<1> QED BY <1>1, <1>2, LockInvariance, PTL DEF LockSpec, ImplementsReservation, Abstract!Spec

-----------------------------------------------------------------------------
(* Exclusivity.  What a message counts on is true unless it lapsed: the     *)
(* lock of a user can be ended or written only by the user's own messages,  *)
(* by expiry, or by another's message that counts on holding it, and of two *)
(* users who count on one widget only one can be right.                      *)

CountsRight ==
  \A c \in Conns, w \in Widgets \ lapsed : CountsOn(c, w) => Holds(UserOf[c], w)

HistInv == LockInv /\ CountsRight

(* A step of one connection leaves the calls of the others alone.            *)
LEMMA OthersCall ==
  ASSUME call \in [Conns -> Call], NEW c \in Conns, NEW d \in Conns, d # c,
         Message(d) \/ ConnStep(d) \/ ConnError(d)
  PROVE  call'[c] = call[c]
BY DEF Message, ConnStep, ConnError, ReleaseError, Abandon, HardLock, SoftLock, ReleaseGet, SoftEmit,
       ReleaseDel, ReleaseEmit, PromoteSet, PromoteSAdd, PromoteError, HardEmit, ScanLock,
       PromoteExists

(* A call that carries no more than before, and is at neither of the         *)
(* commands that rely on it, counts on nothing new.                          *)
LEMMA CountsNoMore ==
  ASSUME NEW c \in Conns, NEW w \in Widgets,
         call'[c].mine \subseteq call[c].mine, call'[c].pc \notin {"del", "set"},
         CountsOn(c, w)'
  PROVE  CountsOn(c, w)
BY DEF CountsOn

(* What a message counts on, it counted on already, or it has just read that *)
(* its user holds the widget, and that command changed no lock.              *)
LEMMA CountsBefore ==
  ASSUME LockInv, LockNext, NEW c \in Conns, NEW w \in Widgets, CountsOn(c, w)'
  PROVE  CountsOn(c, w) \/ (Holds(UserOf[c], w) /\ lock' = lock)
<1> DEFINE Goal == CountsOn(c, w) \/ (Holds(UserOf[c], w) /\ lock' = lock)
<1>1. call \in [Conns -> Call] /\ call[c] \in Call
  BY DEF LockInv, LockTypeOK
<1>2. Idle.mine = {} /\ Idle.pc = "idle"
  BY DEF Idle
<1>3. CASE call'[c] = call[c]
  BY <1>3 DEF CountsOn
<1>4. CASE call'[c] = Idle
  BY <1>2, <1>4, CountsNoMore
<1>5. ASSUME NEW r \in Call, r.mine \subseteq call[c].mine, call'[c] = NextLock(r)
      PROVE  Goal
  BY <1>5, NextLockType, CountsNoMore
<1>6. ASSUME NEW x \in Widgets, SoftLock(c, x) \/ ReleaseGet(c, x) PROVE Goal
  <2>1. CASE SoftLock(c, x)
    <3>1. call'[c].mine = {} /\ call'[c].pc = "softEmit"
      BY <1>1, <2>1 DEF SoftLock, Idle
    <3> QED BY <3>1, CountsNoMore
  <2>2. CASE ReleaseGet(c, x)
    <3>1. /\ call'[c].mine = {} /\ call'[c].w = x /\ lock' = lock
          /\ call'[c].pc = IF Holds(UserOf[c], x) THEN "del" ELSE "releaseEmit"
      BY <1>1, <2>2 DEF ReleaseGet, Idle
    <3> QED BY <3>1 DEF CountsOn
  <2> QED BY <1>6, <2>1, <2>2
<1>7. CASE HardLock(c)
  <2>1. call'[c].mine = {} /\ call'[c].pc = "scan"
    BY <1>1, <1>7 DEF HardLock, Idle
  <2> QED BY <2>1, CountsNoMore
<1>8. CASE ReleaseError(c) \/ ReleaseDel(c) \/ PromoteSet(c)
  <2>1. call'[c].mine \subseteq call[c].mine /\ call'[c].pc \in {"releaseEmit", "sadd"}
    <3>1. CASE ReleaseError(c)
      <4>1. ASSUME NEW x \in Widgets,
                   call' = [call EXCEPT ![c] = [Idle EXCEPT !.pc = "releaseEmit", !.w = x]]
            PROVE  call'[c].mine = {} /\ call'[c].pc = "releaseEmit"
        BY <1>1, <4>1 DEF Idle
      <4>2. CASE call' = [call EXCEPT ![c].pc = "releaseEmit"]
        BY <1>1, <4>2 DEF Call
      <4> QED BY <3>1, <4>1, <4>2 DEF ReleaseError
    <3>2. CASE ReleaseDel(c)
      BY <1>1, <3>2 DEF ReleaseDel, Call
    <3>3. CASE PromoteSet(c)
      BY <1>1, <3>3 DEF PromoteSet, Call
    <3> QED BY <1>8, <3>1, <3>2, <3>3
  <2> QED BY <2>1, CountsNoMore
<1>9. ASSUME NEW x \in Widgets, ScanLock(c, x) PROVE Goal
  <2> DEFINE r == [call[c] EXCEPT !.todo = @ \ {x}]
             q == IF Holds(UserOf[c], x) THEN [r EXCEPT !.mine = @ \cup {x}] ELSE r
  <2>1. q \in Call /\ q.mine = call[c].mine \cup {y \in {x} : Holds(UserOf[c], y)}
    BY <1>1 DEF Call
  <2>2. call'[c] = NextLock(q) /\ lock' = lock
    BY <1>1, <1>9 DEF ScanLock
  <2> HIDE DEF q
  <2>3. call'[c].mine \subseteq q.mine /\ call'[c].pc \notin {"del", "set"}
    BY <2>1, <2>2, NextLockType
  <2> QED BY <2>1, <2>2, <2>3 DEF CountsOn
<1>10. ASSUME NEW x \in Widgets, PromoteExists(c, x) PROVE Goal
  <2> DEFINE r == [call[c] EXCEPT !.mine = @ \ {x}]
  <2>1. r \in Call /\ r.mine \subseteq call[c].mine /\ x \in call[c].mine
    BY <1>1, <1>10 DEF Call, PromoteExists
  <2>2. call'[c] = IF lock[x] = NoLock THEN NextLock(r) ELSE [r EXCEPT !.pc = "set", !.w = x]
    BY <1>1, <1>10 DEF PromoteExists
  <2>3. CASE lock[x] = NoLock
    BY <1>5, <2>1, <2>2, <2>3
  <2>4. CASE lock[x] # NoLock
    <3>1. call'[c].w = x /\ call'[c].mine \subseteq call[c].mine
      BY <1>1, <2>1, <2>2, <2>4 DEF Call
    <3> QED BY <2>1, <3>1 DEF CountsOn
  <2> QED BY <2>3, <2>4
<1>11. CASE PromoteSAdd(c) \/ PromoteError(c)
  <2>1. CASE call[c].pc = "sadd" /\ call'[c] = Promoted(c)
    BY <2>1, PromotedType, CountsNoMore
  <2>2. CASE call'[c] = NextLock(call[c])
    BY <1>1, <1>5, <2>2
  <2>3. ASSUME NEW x, call'[c] = NextLock([call[c] EXCEPT !.todo = @ \ {x}]) PROVE Goal
    <3>1. [call[c] EXCEPT !.todo = @ \ {x}] \in Call
          /\ [call[c] EXCEPT !.todo = @ \ {x}].mine \subseteq call[c].mine
      BY <1>1 DEF Call
    <3> QED BY <1>5, <2>3, <3>1
  <2>4. ASSUME NEW x, call'[c] = NextLock([call[c] EXCEPT !.mine = @ \ {x}]) PROVE Goal
    <3>1. [call[c] EXCEPT !.mine = @ \ {x}] \in Call
          /\ [call[c] EXCEPT !.mine = @ \ {x}].mine \subseteq call[c].mine
      BY <1>1 DEF Call
    <3> QED BY <1>5, <2>4, <3>1
  <2> QED BY <1>1, <1>11, <2>1, <2>2, <2>3, <2>4 DEF PromoteSAdd, PromoteError
<1>12. CASE SoftEmit(c) \/ ReleaseEmit(c) \/ HardEmit(c) \/ Abandon(c)
  BY <1>1, <1>4, <1>12 DEF SoftEmit, ReleaseEmit, HardEmit, Abandon
<1>13. CASE Message(c) \/ ConnStep(c) \/ ConnError(c)
  BY <1>6, <1>7, <1>8, <1>9, <1>10, <1>11, <1>12, <1>13 DEF Message, ConnStep, ConnError
<1>14. ASSUME NEW d \in Conns, d # c, Message(d) \/ ConnStep(d) \/ ConnError(d)
       PROVE  Goal
  <2>1. call'[c] = call[c]
    BY <1>1, <1>14, OthersCall
  <2> QED BY <1>3, <2>1
<1>15. CASE call' = call
  BY <1>3, <1>15
<1> QED
  BY <1>13, <1>14, <1>15 DEF LockNext, Expire, WatchStep, WatchResolve, WatchError, WatchEmit

(* How a lock comes to change.                                               *)
LEMMA LockChanges ==
  ASSUME LockInv, LockNext, NEW w \in Widgets, lock'[w] # lock[w]
  PROVE  \/ lock[w] = NoLock
         \/ lock'[w] = NoLock /\ call' = call
         \/ \E d \in Conns : /\ CountsOn(d, w)
                             /\ \A e \in Conns : e # d => call'[e] = call[e]
                             /\ call'[d] # call[d]
                             /\ lock'[w] \in {NoLock, Hard(UserOf[d])}
<1>1. lock \in [Widgets -> Lock \cup {NoLock}] /\ call \in [Conns -> Call]
  BY DEF LockInv, LockTypeOK
<1>2. ASSUME NEW x \in Widgets, Expire(x) PROVE lock'[w] = NoLock /\ call' = call
  BY <1>1, <1>2 DEF Expire, DelLock, SetLock
<1>3. ASSUME NEW d \in Conns, NEW x \in Widgets, SoftLock(d, x) PROVE lock[w] = NoLock
  BY <1>1, <1>3 DEF SoftLock, SetLock
<1>4. ASSUME NEW d \in Conns, ReleaseDel(d) \/ PromoteSet(d)
      PROVE  /\ CountsOn(d, w)
             /\ \A e \in Conns : e # d => call'[e] = call[e]
             /\ call'[d] # call[d]
             /\ lock'[w] \in {NoLock, Hard(UserOf[d])}
  <2>1. call[d].w = w /\ lock'[w] \in {NoLock, Hard(UserOf[d])}
    BY <1>1, <1>4 DEF ReleaseDel, PromoteSet, DelLock, SetLock
  <2>2. call[d].pc \in {"del", "set"} /\ call'[d].pc \in {"releaseEmit", "sadd"}
    BY <1>1, <1>4 DEF ReleaseDel, PromoteSet, Call
  <2>3. \A e \in Conns : e # d => call'[e] = call[e]
    BY <1>1, <1>4 DEF ReleaseDel, PromoteSet
  <2> QED BY <2>1, <2>2, <2>3 DEF CountsOn
<1>5. CASE lock' = lock
  BY <1>5
<1> QED
  BY <1>2, <1>3, <1>4, <1>5 DEF LockNext, Message, ConnStep, ConnError, WatchStep, HardLock, ReleaseGet,
     SoftEmit, ReleaseEmit, PromoteSAdd, PromoteError, HardEmit, ScanLock, PromoteExists,
     ReleaseError, Abandon, WatchResolve, WatchError, WatchEmit

LEMMA CountsRightStep == HistInv /\ HistoryNext => CountsRight'
<1> SUFFICES ASSUME HistInv, LockNext, Observe, NEW c \in Conns, NEW w \in Widgets,
                    w \notin lapsed', CountsOn(c, w)'
             PROVE  Holds(UserOf[c], w)'
  BY DEF CountsRight, HistoryNext
<1>1. w \notin lapsed /\ ~Lapses(w)
  BY DEF Observe
<1>2. Holds(UserOf[c], w)
  BY <1>1, CountsBefore DEF HistInv, CountsRight
<1>3. CASE lock'[w] = lock[w]
  BY <1>2, <1>3 DEF Holds
<1>4. CASE lock'[w] # lock[w]
  <2>1. CountsOn(c, w)
    BY <1>4, CountsBefore DEF HistInv
  <2>2. CASE lock'[w] = NoLock /\ call' = call
    BY <1>1, <1>2, <2>1, <2>2 DEF Lapses
  <2>3. ASSUME NEW d \in Conns, CountsOn(d, w), \A e \in Conns : e # d => call'[e] = call[e],
               lock'[w] \in {NoLock, Hard(UserOf[d])}
        PROVE  Holds(UserOf[c], w)'
    <3>1. Holds(UserOf[d], w)
      BY <1>1, <2>3 DEF HistInv, CountsRight
    <3>2. UserOf[d] = UserOf[c]
      BY <1>2, <3>1 DEF Holds
    <3>3. lock'[w] # NoLock
      BY <1>1, <1>2, <2>1, <2>3, <3>2 DEF Lapses
    <3>4. lock'[w].user = UserOf[c]
      BY <2>3, <3>2, <3>3 DEF Hard
    <3> QED BY <3>3, <3>4 DEF Holds
  <2> QED BY <1>2, <1>4, <2>2, <2>3, LockChanges DEF HistInv, Holds
<1> QED BY <1>3, <1>4

LEMMA HistInvariance == HistorySpec => []HistInv
<1>1. HistoryInit => HistInv
  <2> SUFFICES ASSUME HistoryInit PROVE HistInv
    OBVIOUS
  <2>1. \A c \in Conns : call[c] = Idle
    BY DEF HistoryInit, LockInit
  <2>2. CountsRight
    BY <2>1 DEF CountsRight, CountsOn, Idle
  <2> QED BY <2>2, LockInitInv DEF HistInv, HistoryInit
<1>2. HistInv /\ [HistoryNext]_historyVars => HistInv'
  <2>1. HistInv /\ HistoryNext => HistInv'
    BY CountsRightStep, LockNextInv DEF HistInv, HistoryNext
  <2>2. HistInv /\ UNCHANGED historyVars => HistInv'
    <3>1. UNCHANGED historyVars => UNCHANGED lockVars
      BY DEF historyVars
    <3>2. CountsRight /\ UNCHANGED historyVars => CountsRight'
      BY DEF historyVars, lockVars, CountsRight, CountsOn, Holds
    <3> QED BY <3>1, <3>2, LockNextInv DEF HistInv
  <2> QED BY <2>1, <2>2
<1> QED BY <1>1, <1>2, PTL DEF HistorySpec

(* No message ends or takes over the lock of another user unless a lock on   *)
(* the widget lapsed under a message that is still under way, although the   *)
(* commands that delete and write the key do not look at its holder.         *)
THEOREM ExclusiveUnlessLapsed == HistorySpec => OnlyHolderUnlessLapsed
<1> DEFINE Kept ==
      \A w \in Widgets \ lapsed : lock[w] # NoLock =>
        /\ lock'[w] # NoLock => lock'[w].user = lock[w].user
        /\ lock'[w] = NoLock =>
             \A c \in Conns : call'[c] # call[c] => UserOf[c] = lock[w].user
<1>1. ASSUME HistInv, LockNext PROVE Kept
  <2> SUFFICES ASSUME NEW w \in Widgets, w \notin lapsed, lock[w] # NoLock, lock'[w] # lock[w]
               PROVE  /\ lock'[w] # NoLock => lock'[w].user = lock[w].user
                      /\ lock'[w] = NoLock =>
                           \A c \in Conns : call'[c] # call[c] => UserOf[c] = lock[w].user
    OBVIOUS
  <2>1. CASE lock'[w] = NoLock /\ call' = call
    BY <2>1
  <2>2. ASSUME NEW d \in Conns, CountsOn(d, w), \A e \in Conns : e # d => call'[e] = call[e],
               lock'[w] \in {NoLock, Hard(UserOf[d])}
        PROVE  /\ lock'[w] # NoLock => lock'[w].user = lock[w].user
               /\ \A c \in Conns : call'[c] # call[c] => UserOf[c] = lock[w].user
    <3>1. lock[w].user = UserOf[d]
      BY <1>1, <2>2 DEF HistInv, CountsRight, Holds
    <3>2. Hard(UserOf[d]).user = UserOf[d]
      BY DEF Hard
    <3> QED BY <2>2, <3>1, <3>2
  <2> QED BY <1>1, <2>1, <2>2, LockChanges DEF HistInv
<1>2. HistInv /\ [HistoryNext]_historyVars => [Kept]_historyVars
  BY <1>1 DEF HistoryNext
<1> QED BY <1>2, HistInvariance, PTL DEF HistorySpec, OnlyHolderUnlessLapsed
=============================================================================
