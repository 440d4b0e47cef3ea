---------------------------- MODULE LockHistory ----------------------------
(***************************************************************************)
(* LockLifecycle with a history variable that says when a message relies   *)
(* on a lock that has ended.  A release and a promotion ask who holds a    *)
(* key in one Redis command and delete or write it in a later one          *)
(* (ReleaseLock, PromoteToHardLocks), so between the two they count on     *)
(* what they read.  The variable observes the steps of LockLifecycle and   *)
(* keeps none of them from happening.                                      *)
(***************************************************************************)
EXTENDS LockLifecycle

VARIABLE lapsed  \* widgets whose lock ended under a message that still counts on it

historyVars == <<lockVars, lapsed>>

(* The message of c has read that its user holds w, and is to write or      *)
(* delete the key of w without asking again who holds it.                   *)
CountsOn(c, w) ==
  \/ w \in call[c].mine
  \/ call[c].pc \in {"del", "set"} /\ call[c].w = w

(* The lock of w ends under a message that counts on it, and no message of  *)
(* another user ends it: it expires, or the same user releases it.          *)
Lapses(w) ==
  /\ lock'[w] = NoLock
  /\ \E c \in Conns : /\ CountsOn(c, w) /\ Holds(UserOf[c], w)
                      /\ \A d \in Conns : UserOf[d] # UserOf[c] => call'[d] = call[d]

(* What lapsed is forgotten with the last message that counts on the widget. *)
Observe ==
  lapsed' = {w \in Widgets : /\ w \in lapsed \/ Lapses(w)
                             /\ \E c \in Conns : CountsOn(c, w)'}

HistoryInit == LockInit /\ lapsed = {}

HistoryNext == LockNext /\ Observe

HistorySpec == HistoryInit /\ [][HistoryNext]_historyVars

(* Exclusivity, with the only exception there is: a lock passes to another  *)
(* user, or is ended by another user's message, only if it or an earlier    *)
(* one on the widget lapsed under a message that is still under way.        *)
(* Neither the release's DEL nor the promotion's SET names the holder, and  *)
(* still no interleaving of messages alone, however many, does it.          *)
OnlyHolderUnlessLapsed ==
  [][\A w \in Widgets \ lapsed : lock[w] # NoLock =>
       /\ lock'[w] # NoLock => lock'[w].user = lock[w].user
       /\ lock'[w] = NoLock =>
            \A c \in Conns : call'[c] # call[c] => UserOf[c] = lock[w].user]_historyVars
=============================================================================
