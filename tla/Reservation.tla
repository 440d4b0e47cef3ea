----------------------------- MODULE Reservation -----------------------------
(***************************************************************************)
(* What the reservation of canvas widgets promises, whatever the calls     *)
(* that provide it look like: a widget is free or reserved by one user; a  *)
(* user becomes its holder only by reserving it while it is free; a        *)
(* reservation is confirmed (made a hard lock) only for a user who has     *)
(* reserved that widget before, and never becomes unconfirmed while it     *)
(* lasts.  It is the abstract specification LockLifecycle implements.      *)
(***************************************************************************)
CONSTANTS Users, Widgets, NoLock

VARIABLES
  lock,  \* lock[w]: NoLock, or who holds w and of which kind the lock is
  won    \* every <<user, widget>> reserved while the widget was free

vars == <<lock, won>>

Init ==
  /\ lock = [w \in Widgets |-> NoLock]
  /\ won = {}

(* A free widget is reserved: SETNX in AcquireSoftLock. *)
Reserve(u, w) ==
  /\ lock[w] = NoLock
  /\ lock' = [lock EXCEPT ![w] = [user |-> u, kind |-> "soft"]]
  /\ won' = won \cup {<<u, w>>}

(* A reservation becomes a hard lock: SET in PromoteToHardLocks. *)
Confirm(u, w) ==
  /\ <<u, w>> \in won
  /\ lock' = [lock EXCEPT ![w] = [user |-> u, kind |-> "hard"]]
  /\ UNCHANGED won

(* A reservation ends: it lapses, is released, or its widget is bought. *)
End(w) ==
  /\ lock' = [lock EXCEPT ![w] = NoLock]
  /\ UNCHANGED won

Next ==
  \E w \in Widgets :
    \/ \E u \in Users : Reserve(u, w) \/ Confirm(u, w)
    \/ End(w)

Spec == Init /\ [][Next]_vars
=============================================================================
