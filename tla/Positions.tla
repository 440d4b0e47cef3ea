------------------------------ MODULE Positions ------------------------------
(***************************************************************************)
(* The write-behind path of a widget's position: the gateway's             *)
(* onWidgetMove and onWidgetPlace, the Redis key widgetpos:<board>:<w>,    *)
(* the debounce timers of every API instance (rabbitmq.go: Publish,        *)
(* PublishDebounced, send), the durable queue widget.position, the         *)
(* consumer each instance runs, and the row in smart_widgets.              *)
(*                                                                         *)
(* Grain.  One Redis command, one query, one critical section of r.mu or   *)
(* one broker operation is one step.  A timer that has fired runs its      *)
(* callback on a goroutine of its own: between the firing, the critical    *)
(* section and the send anything may happen.  Time is not modelled: an     *)
(* armed timer may fire at any moment.  Every move goes to a position of   *)
(* its own, numbered as the moves arrive.  The broadcast of a move changes *)
(* no state of this path.                                                  *)
(***************************************************************************)
EXTENDS Naturals, Sequences, Functions

CONSTANTS
  Widgets,     \* widgets of the board
  Instances,   \* API instances: debounce timers and a consumer each
  Conns,       \* connections that may move widgets (canMove)
  InstanceOf,  \* InstanceOf[c]: the instance connection c is on
  NoMsg,       \* no message
  MaxMoves,    \* bound on the moves
  Faults       \* what may fail: commands, broker connections, instances

ASSUME PositionsAssumption ==
  /\ InstanceOf \in [Conns -> Instances]
  /\ NoMsg \notin [w : Widgets, x : Nat]
  /\ MaxMoves \in Nat
  /\ Faults \subseteq {"command", "connection", "instance"}

VARIABLES
  cache,      \* cache[w]: the Redis position, 0 if there is none
  row,        \* row[w]: the position in the database
  call,       \* call[c]: the message connection c is handling
  debounce,   \* debounce[i][w]: the timer in the map, named by its message
  armed,      \* armed[i]: timers that have neither fired nor been stopped
  fired,      \* fired[i]: callbacks that wait for r.mu
  flushing,   \* flushing[i]: callbacks that have left r.mu and will send
  up,         \* up[i]: instance i has a channel to the broker
  consuming,  \* consuming[i]: the consumer of i is subscribed
  queue,      \* the broker's queue
  inbox,      \* inbox[i]: delivered to i, not acknowledged
  hand,       \* hand[i]: the message the consumer of i is storing
  moves,      \* number of moves so far
  latest,     \* history: latest[i][w]: the last position i was given for w
  sent,       \* history: messages the broker has accepted
  stored,     \* history: messages the consumer has stored
  lost        \* history: messages a fault has dropped

timers == <<debounce, armed, fired, flushing, latest>>
broker == <<up, queue, sent>>
consumer == <<consuming, inbox, hand, stored>>
vars == <<cache, row, call, timers, broker, consumer, moves, lost>>

Msg == [w : Widgets, x : Nat]

NoCall == [pc |-> "idle", m |-> NoMsg]

Init ==
  /\ cache = [w \in Widgets |-> 0]
  /\ row = [w \in Widgets |-> 0]
  /\ call = [c \in Conns |-> NoCall]
  /\ debounce = [i \in Instances |-> [w \in Widgets |-> NoMsg]]
  /\ armed = [i \in Instances |-> {}]
  /\ fired = [i \in Instances |-> {}]
  /\ flushing = [i \in Instances |-> {}]
  /\ up = [i \in Instances |-> TRUE]
  /\ consuming = [i \in Instances |-> TRUE]
  /\ queue = <<>>
  /\ inbox = [i \in Instances |-> <<>>]
  /\ hand = [i \in Instances |-> NoMsg]
  /\ moves = 0
  /\ latest = [i \in Instances |-> [w \in Widgets |-> [m |-> NoMsg, end |-> FALSE]]]
  /\ sent = {}
  /\ stored = {}
  /\ lost = {}

-----------------------------------------------------------------------------
Goto(c, pc, m) == call' = [call EXCEPT ![c] = [pc |-> pc, m |-> m]]

Done(c) == call' = [call EXCEPT ![c] = NoCall]

Save(m) ==
  \/ cache' = [cache EXCEPT ![m.w] = m.x]
  \/ "command" \in Faults /\ UNCHANGED cache  \* the error is dropped

(* widget:move and widget:move:end begin with SaveWidgetPosition. *)
Move(c, w, end) ==
  /\ call[c].pc = "idle"
  /\ moves < MaxMoves
  /\ moves' = moves + 1
  /\ LET m == [w |-> w, x |-> moves + 1] IN
       /\ Save(m)
       /\ Goto(c, IF end THEN "publish" ELSE "debounce", m)
  /\ UNCHANGED <<row, timers, broker, consumer, lost>>

Given(i, m, end) == latest' = [latest EXCEPT ![i][m.w] = [m |-> m, end |-> end]]

(* t.Stop() on the timer in the map: no effect once it has fired. *)
Stopped(i, w) == armed[i] \ {debounce[i][w]}

(* Bug variant of Publish: the entry of the stopped timer stays in the map. *)
PublishKeepsEntry(c) ==
  /\ call[c].pc = "publish"
  /\ LET i == InstanceOf[c]  m == call[c].m IN
       /\ armed' = [armed EXCEPT ![i] = Stopped(i, m.w)]
       /\ Given(i, m, TRUE)
       /\ Goto(c, "send", m)
  /\ UNCHANGED <<cache, row, debounce, fired, flushing, broker, consumer, moves, lost>>

(* Publish: the pending timer is stopped, the message is sent at once. *)
Publish(c) ==
  /\ call[c].pc = "publish"
  /\ LET i == InstanceOf[c]  m == call[c].m IN
       /\ armed' = [armed EXCEPT ![i] = Stopped(i, m.w)]
       /\ debounce' = [debounce EXCEPT ![i][m.w] = NoMsg]
       /\ Given(i, m, TRUE)
       /\ Goto(c, "send", m)
  /\ UNCHANGED <<cache, row, fired, flushing, broker, consumer, moves, lost>>

(* Bug variant of PublishDebounced: the pending timer is kept. *)
PublishLeading(c) ==
  /\ call[c].pc = "debounce"
  /\ LET i == InstanceOf[c]  m == call[c].m IN
       /\ IF debounce[i][m.w] = NoMsg
          THEN /\ armed' = [armed EXCEPT ![i] = @ \cup {m}]
               /\ debounce' = [debounce EXCEPT ![i][m.w] = m]
          ELSE UNCHANGED <<armed, debounce>>
       /\ Given(i, m, FALSE)
  /\ Done(c)
  /\ UNCHANGED <<cache, row, fired, flushing, broker, consumer, moves, lost>>

(* PublishDebounced: the pending timer is replaced by a new one. *)
PublishDebounced(c) ==
  /\ call[c].pc = "debounce"
  /\ LET i == InstanceOf[c]  m == call[c].m IN
       /\ armed' = [armed EXCEPT ![i] = Stopped(i, m.w) \cup {m}]
       /\ debounce' = [debounce EXCEPT ![i][m.w] = m]
       /\ Given(i, m, FALSE)
  /\ Done(c)
  /\ UNCHANGED <<cache, row, fired, flushing, broker, consumer, moves, lost>>

(* send: with no channel it connects first; an error is dropped, with the   *)
(* message or, when only the broker's answer is lost, without.               *)
Send(i, m) ==
  \/ /\ queue' = Append(queue, m)
     /\ sent' = sent \cup {m}
     /\ up' = [up EXCEPT ![i] = TRUE]
     /\ UNCHANGED lost
  \/ /\ "command" \in Faults
     /\ lost' = lost \cup {m}
     /\ UNCHANGED broker

SendNow(c) ==
  /\ call[c].pc = "send"
  /\ Send(InstanceOf[c], call[c].m)
  /\ Done(c)
  /\ UNCHANGED <<cache, row, timers, consumer, moves>>

Fire(i, m) ==
  /\ m \in armed[i]
  /\ armed' = [armed EXCEPT ![i] = @ \ {m}]
  /\ fired' = [fired EXCEPT ![i] = @ \cup {m}]
  /\ UNCHANGED <<cache, row, call, debounce, flushing, latest, broker, consumer, moves, lost>>

(* The callback deletes the map's entry for its widget, whichever timer     *)
(* that names by now ...                                                     *)
Callback(i, m) ==
  /\ m \in fired[i]
  /\ fired' = [fired EXCEPT ![i] = @ \ {m}]
  /\ debounce' = [debounce EXCEPT ![i][m.w] = NoMsg]
  /\ flushing' = [flushing EXCEPT ![i] = @ \cup {m}]
  /\ UNCHANGED <<cache, row, call, armed, latest, broker, consumer, moves, lost>>

(* ... and sends the message it was made for. *)
SendLate(i, m) ==
  /\ m \in flushing[i]
  /\ flushing' = [flushing EXCEPT ![i] = @ \ {m}]
  /\ Send(i, m)
  /\ UNCHANGED <<cache, row, call, debounce, armed, fired, latest, consumer, moves>>

-----------------------------------------------------------------------------
(* widget:place writes the row, then the cache, and uses no queue. *)
Place(c, w) ==
  /\ call[c].pc = "idle"
  /\ moves < MaxMoves
  /\ moves' = moves + 1
  /\ LET m == [w |-> w, x |-> moves + 1] IN
       /\ row' = [row EXCEPT ![w] = m.x]
       /\ Goto(c, "place", m)
  /\ UNCHANGED <<cache, timers, broker, consumer, lost>>

PlaceSave(c) ==
  /\ call[c].pc = "place"
  /\ Save(call[c].m)
  /\ Done(c)
  /\ UNCHANGED <<row, timers, broker, consumer, moves, lost>>

(* The key's hour is over. *)
Lapse(w) ==
  /\ cache[w] # 0
  /\ cache' = [cache EXCEPT ![w] = 0]
  /\ UNCHANGED <<row, call, timers, broker, consumer, moves, lost>>

-----------------------------------------------------------------------------
(* The consumers share the queue: the broker deals its messages out. *)
Deliver(i) ==
  /\ consuming[i]
  /\ queue # <<>>
  /\ queue' = Tail(queue)
  /\ inbox' = [inbox EXCEPT ![i] = Append(@, Head(queue))]
  /\ UNCHANGED <<cache, row, call, timers, up, sent, consuming, hand, stored, moves, lost>>

Take(i) ==
  /\ hand[i] = NoMsg
  /\ inbox[i] # <<>>
  /\ hand' = [hand EXCEPT ![i] = Head(inbox[i])]
  /\ inbox' = [inbox EXCEPT ![i] = Tail(@)]
  /\ UNCHANGED <<cache, row, call, timers, broker, consuming, stored, moves, lost>>

(* UpdateWidgetPosition, and the acknowledgement. *)
Store(i) ==
  /\ hand[i] # NoMsg
  /\ row' = [row EXCEPT ![hand[i].w] = hand[i].x]
  /\ stored' = stored \cup {hand[i]}
  /\ hand' = [hand EXCEPT ![i] = NoMsg]
  /\ UNCHANGED <<cache, call, timers, broker, consuming, inbox, moves, lost>>

(* The update fails, or the row is gone: Nack without requeueing. *)
Drop(i) ==
  /\ "command" \in Faults
  /\ hand[i] # NoMsg
  /\ lost' = lost \cup {hand[i]}
  /\ hand' = [hand EXCEPT ![i] = NoMsg]
  /\ UNCHANGED <<cache, row, call, timers, broker, consuming, inbox, stored, moves>>

(* The messages the calls on instance i still have to send. *)
InCalls(i) == {call[c].m : c \in {d \in Conns : InstanceOf[d] = i /\ call[d].pc = "send"}}

(* Bug variant of Unacked: deliveries count as acknowledged. *)
UnackedNone(i) == <<>>

(* What the broker takes back when it loses the consumer of instance i. *)
Unacked(i) ==
  IF ~consuming[i] THEN <<>>
  ELSE (IF hand[i] = NoMsg THEN <<>> ELSE <<hand[i]>>) \o inbox[i]

(* The connection to the broker breaks; that r.channel is cleared a moment  *)
(* later shows as sends that fail.  The next send reconnects, but           *)
(* nothing subscribes again: Consume runs once, when the instance starts.   *)
(* What the consumer has in hand it still stores.                            *)
Disconnect(i) ==
  /\ "connection" \in Faults
  /\ up[i]
  /\ queue' = Unacked(i) \o queue
  /\ inbox' = [inbox EXCEPT ![i] = <<>>]
  /\ up' = [up EXCEPT ![i] = FALSE]
  /\ consuming' = [consuming EXCEPT ![i] = FALSE]
  /\ UNCHANGED <<cache, row, call, timers, sent, hand, stored, moves, lost>>

(* The instance stops and starts again: its timers, calls and callbacks are *)
(* gone, and it subscribes if it reaches the broker at once.                 *)
Restart(i) ==
  /\ "instance" \in Faults
  /\ call' = [c \in Conns |-> IF InstanceOf[c] = i THEN NoCall ELSE call[c]]
  /\ debounce' = [debounce EXCEPT ![i] = [w \in Widgets |-> NoMsg]]
  /\ armed' = [armed EXCEPT ![i] = {}]
  /\ fired' = [fired EXCEPT ![i] = {}]
  /\ flushing' = [flushing EXCEPT ![i] = {}]
  /\ lost' = lost \cup armed[i] \cup fired[i] \cup flushing[i] \cup InCalls(i)
  /\ queue' = Unacked(i) \o queue
  /\ inbox' = [inbox EXCEPT ![i] = <<>>]
  /\ hand' = [hand EXCEPT ![i] = NoMsg]
  /\ \E reached \in BOOLEAN :
       /\ up' = [up EXCEPT ![i] = reached]
       /\ consuming' = [consuming EXCEPT ![i] = reached]
  /\ UNCHANGED <<cache, row, latest, sent, stored, moves>>

-----------------------------------------------------------------------------
ConnStep(c) == Publish(c) \/ PublishDebounced(c) \/ SendNow(c) \/ PlaceSave(c)

TimerStep(i) ==
  \/ \E m \in armed[i] : Fire(i, m)
  \/ \E m \in fired[i] : Callback(i, m)
  \/ \E m \in flushing[i] : SendLate(i, m)

ConsumerStep(i) == Deliver(i) \/ Take(i) \/ Store(i)

Next ==
  \/ \E c \in Conns : ConnStep(c)
  \/ \E c \in Conns, w \in Widgets : Place(c, w) \/ \E end \in BOOLEAN : Move(c, w, end)
  \/ \E w \in Widgets : Lapse(w)
  \/ \E i \in Instances : TimerStep(i) \/ ConsumerStep(i)
  \/ \E i \in Instances : Drop(i) \/ Disconnect(i) \/ Restart(i)

Spec == Init /\ [][Next]_vars

(* Go schedules every goroutine, timers fire, and the broker delivers. *)
FairSpec ==
  /\ Spec
  /\ \A c \in Conns : WF_vars(ConnStep(c))
  /\ \A i \in Instances : WF_vars(TimerStep(i)) /\ WF_vars(ConsumerStep(i))

-----------------------------------------------------------------------------
(* Properties.                                                               *)

(* Every variable has its type, and the timer the map names for a widget is *)
(* that widget's and may still be stopped or has just fired.                *)
PositionsTypeOK ==
  /\ cache \in [Widgets -> Nat]
  /\ row \in [Widgets -> Nat]
  /\ call \in [Conns -> [pc : {"idle", "publish", "debounce", "send", "place"},
                         m : Msg \cup {NoMsg}]]
  /\ \A c \in Conns : call[c].pc # "idle" => call[c].m \in Msg
  /\ debounce \in [Instances -> [Widgets -> Msg \cup {NoMsg}]]
  /\ armed \in [Instances -> SUBSET Msg]
  /\ fired \in [Instances -> SUBSET Msg]
  /\ flushing \in [Instances -> SUBSET Msg]
  /\ \A i \in Instances, w \in Widgets : debounce[i][w] # NoMsg =>
       debounce[i][w].w = w /\ debounce[i][w] \in armed[i] \cup fired[i]
  /\ up \in [Instances -> BOOLEAN]
  /\ consuming \in [Instances -> BOOLEAN]
  /\ queue \in Seq(Msg)
  /\ inbox \in [Instances -> Seq(Msg)]
  /\ hand \in [Instances -> Msg \cup {NoMsg}]
  /\ moves \in Nat
  /\ latest \in [Instances -> [Widgets -> [m : Msg \cup {NoMsg}, end : BOOLEAN]]]
  /\ \A i \in Instances, w \in Widgets : latest[i][w].m # NoMsg => latest[i][w].m.w = w
  /\ sent \in SUBSET Msg
  /\ stored \in SUBSET Msg
  /\ lost \in SUBSET Msg

(* Debouncing drops no final position: the last position an instance was    *)
(* given for a widget waits in a timer or a callback, is being sent, or has *)
(* reached the broker, unless a fault dropped it.  However stops, firings   *)
(* and callbacks interleave, only older positions are coalesced away.       *)
LatestNotDropped ==
  \A i \in Instances, w \in Widgets :
    LET m == latest[i][w].m IN
      m # NoMsg =>
        m \in armed[i] \cup fired[i] \cup flushing[i] \cup InCalls(i) \cup sent \cup lost

(* The queue is durable end to end: a message the broker has accepted is    *)
(* queued, or in the hands of a live consumer, until it has been stored,    *)
(* whatever instances stop and connections break, unless the update failed. *)
SentNotForgotten ==
  \A m \in sent \ (stored \cup lost) :
    \/ m \in Range(queue)
    \/ \E i \in Instances : m \in Range(Unacked(i))

AtRest ==
  /\ \A c \in Conns : call[c].pc = "idle"
  /\ \A i \in Instances :
       /\ armed[i] \cup fired[i] \cup flushing[i] = {}
       /\ inbox[i] = <<>> /\ hand[i] = NoMsg
  /\ queue = <<>>

(* "the final resting position is never lost to debounce"                    *)
(* (BACKEND_ARCHITECTURE.md): when nothing is under way, the row of a       *)
(* widget has the position of the move:end that was the last move of all.   *)
FinalPositionKept ==
  AtRest => \A i \in Instances, w \in Widgets :
              latest[i][w].end /\ latest[i][w].m.x = moves => row[w] = moves

(* "reconciled by the consumer's eventual write" (BACKEND_ARCHITECTURE.md): *)
(* every message the broker has accepted is eventually stored, unless its   *)
(* update failed.                                                            *)
SentEventuallyStored ==
  \A m \in [w : Widgets, x : 1..MaxMoves] : m \in sent ~> m \in stored \cup lost
=============================================================================
