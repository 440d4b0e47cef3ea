---------------------------- MODULE MCLockHistory ----------------------------
(* The shoppers of MCLockLifecycle on two boards, of which an initial state  *)
(* chooses one: on the narrow one every message is about w1 and the watchers *)
(* hear of expiries; on the wide one there are two widgets, so that a        *)
(* promotion loops, and every notification is lost.                         *)
EXTENDS MCLockLifecycle, LockHistory

CONSTANTS w1, w2

VARIABLE board

BoardInit == HistoryInit /\ board \in {"narrow", "wide"}

BoardNext ==
  /\ HistoryNext
  /\ board' = board
  /\ board = "narrow" => \A c \in Conns : call'[c].w # w2
  /\ board = "wide" => expired' = expired

BoardSpec == BoardInit /\ [][BoardNext]_<<historyVars, board>> /\ LockFairness
=============================================================================
