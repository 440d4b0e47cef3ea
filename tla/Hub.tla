--------------------------------- MODULE Hub ---------------------------------
(***************************************************************************)
(* The hub of every API instance (hub.go) with the connections' readers    *)
(* (gateway.go: readPump, doJoin, onViewportUpdate, the handlers that emit) *)
(* and the Redis channel that carries broadcasts between instances, for    *)
(* the rooms of one board: the board's own and one per zone.               *)
(*                                                                         *)
(* Grain.  h.mu is a readers-writer lock per instance.  JoinRoom,          *)
(* LeaveRoom and the critical section of Unregister exclude every other    *)
(* holder and are one step each.  deliverLocal holds the read lock while   *)
(* it writes to the members of a room one by one, and each such write is a *)
(* step.  A broadcast is numbered and carries who sent it, to which room,  *)
(* and whether its sender is skipped (EmitToRoomExcept).                    *)
(*                                                                         *)
(* Broadcasts come from the readers (cursors, moves and peer:joined skip   *)
(* the sender, lock messages do not) and from the goroutines of an         *)
(* instance that serve no connection: the expiry watcher and POST /orders. *)
(* Frames an instance sends to one client only are left out, and so is what *)
(* writePump does with the frames of a channel.                              *)
(***************************************************************************)
EXTENDS Naturals, Sequences, FiniteSets, Functions

CONSTANTS
  Instances,
  Conns,       \* websocket connections and their readers
  Relays,      \* the goroutines of StartBackplane
  Workers,     \* other goroutines that broadcast
  InstanceOf,  \* InstanceOf[p]: the instance process p runs on
  Board,       \* the board's room
  Zones,       \* the zones' rooms
  Viewports,   \* the sets of zones a viewport may overlap
  NoFrame,     \* no broadcast
  MaxCasts,    \* bound on the broadcasts
  MaxSubs,     \* bound on the joins and viewport updates
  MaxLost      \* bound on the broadcasts Redis does not carry to a relay

Procs == Conns \cup Relays \cup Workers
Rooms == {Board} \cup Zones

Frame == [n : Nat, from : Conns \cup Workers, room : Rooms, skip : BOOLEAN]

(* The three kinds of process are distinct, and every instance has its one  *)
(* relay: it reached Redis when it started.                                  *)
ASSUME HubAssumption ==
  /\ Conns \cap (Relays \cup Workers) = {} /\ Relays \cap Workers = {}
  /\ InstanceOf \in [Procs -> Instances]
  /\ \A c \in Conns : \E r \in Relays : InstanceOf[r] = InstanceOf[c]
  /\ \A r, s \in Relays : InstanceOf[r] = InstanceOf[s] => r = s
  /\ Board \notin Zones
  /\ Viewports \subseteq SUBSET Zones
  /\ NoFrame \notin Frame
  /\ MaxCasts \in Nat /\ MaxSubs \in Nat /\ MaxLost \in Nat

VARIABLES
  members,  \* members[room]: h.rooms of all instances together
  sub,      \* sub[c]: the reader of c: its zones and what is left to do
  cast,     \* cast[p]: the broadcast process p is delivering
  closed,   \* connections whose send channel is closed
  wire,     \* wire[r]: published and not yet read by relay r
  casts,    \* number of broadcasts so far
  subs,     \* number of joins and viewport updates so far
  written,  \* history: written[c]: broadcasts written to c, dropped or not,
            \* as long as c is open
  owed,     \* history: owed[c]: broadcasts to rooms c has been in ever since,
            \* and that have not been written to it
  lost      \* history: <<broadcast, relay>> that Redis did not carry

vars == <<members, sub, cast, closed, wire, casts, subs, written, owed, lost>>

Idle == [pc |-> "idle", m |-> NoFrame, left |-> {}]

(* A reader: the zones of c.zones, those of the message being handled, and  *)
(* the rooms it still has to leave and to join.                              *)
Connected == [pc |-> "idle", joined |-> FALSE, zones |-> {}, next |-> {},
              leave |-> {}, enter |-> {}]

Init ==
  /\ members = [room \in Rooms |-> {}]
  /\ sub = [c \in Conns |-> Connected]
  /\ cast = [p \in Procs |-> Idle]
  /\ closed = {}
  /\ wire = [r \in Relays |-> <<>>]
  /\ casts = 0
  /\ subs = 0
  /\ written = [c \in Conns |-> {}]
  /\ owed = [c \in Conns |-> {}]
  /\ lost = {}

-----------------------------------------------------------------------------
(* h.mu and the rooms.                                                       *)

(* Nobody holds the read lock of instance i. *)
Unlocked(i) == \A p \in Procs : InstanceOf[p] = i => cast[p].pc # "deliver"

(* The reader of c is between two messages. *)
Ready(c) == sub[c].pc = "idle" /\ cast[c].pc = "idle"

(* board:join:*.  A second join does not leave the rooms of the first. *)
Join(c, vp) ==
  /\ Ready(c)
  /\ subs < MaxSubs
  /\ subs' = subs + 1
  /\ sub' = [sub EXCEPT ![c] = [@ EXCEPT !.pc = "rooms", !.joined = TRUE, !.next = vp,
                                         !.leave = {}, !.enter = {Board} \cup vp]]
  /\ UNCHANGED <<members, cast, closed, wire, casts, written, owed, lost>>

(* Bug variant of Viewport: the old zones are left whole, the new ones      *)
(* joined by the difference.                                                  *)
ViewportLeavesAll(c, vp) ==
  /\ Ready(c)
  /\ subs < MaxSubs
  /\ subs' = subs + 1
  /\ sub[c].joined
  /\ sub' = [sub EXCEPT ![c] = [@ EXCEPT !.pc = "rooms", !.next = vp,
                                         !.leave = sub[c].zones,
                                         !.enter = vp \ sub[c].zones]]
  /\ UNCHANGED <<members, cast, closed, wire, casts, written, owed, lost>>

(* viewport:update: the difference of the new zones and c.zones. *)
Viewport(c, vp) ==
  /\ Ready(c)
  /\ subs < MaxSubs
  /\ subs' = subs + 1
  /\ sub[c].joined
  /\ sub' = [sub EXCEPT ![c] = [@ EXCEPT !.pc = "rooms", !.next = vp,
                                         !.leave = sub[c].zones \ vp,
                                         !.enter = vp \ sub[c].zones]]
  /\ UNCHANGED <<members, cast, closed, wire, casts, written, owed, lost>>

LeaveRoom(c, room) ==
  /\ room \in sub[c].leave
  /\ Unlocked(InstanceOf[c])
  /\ members' = [members EXCEPT ![room] = @ \ {c}]
  /\ sub' = [sub EXCEPT ![c].leave = @ \ {room}]
  /\ owed' = [owed EXCEPT ![c] = {m \in @ : m.room # room}]
  /\ UNCHANGED <<cast, closed, wire, casts, subs, written, lost>>

(* doJoin enters the board's room first. *)
JoinRoom(c, room) ==
  /\ sub[c].leave = {}
  /\ room \in sub[c].enter
  /\ Board \in sub[c].enter => room = Board
  /\ Unlocked(InstanceOf[c])
  /\ members' = [members EXCEPT ![room] = @ \cup {c}]
  /\ sub' = [sub EXCEPT ![c].enter = @ \ {room}]
  /\ UNCHANGED <<cast, closed, wire, casts, subs, written, owed, lost>>

(* c.zones becomes the zones of the message. *)
Subscribed(c) ==
  /\ sub[c].pc = "rooms"
  /\ sub[c].leave = {} /\ sub[c].enter = {}
  /\ sub' = [sub EXCEPT ![c] = [@ EXCEPT !.pc = "idle", !.zones = sub[c].next, !.next = {}]]
  /\ UNCHANGED <<members, cast, closed, wire, casts, subs, written, owed, lost>>

-----------------------------------------------------------------------------
(* The end of a connection: a read fails, and readPump's deferred Unregister *)
(* runs.                                                                      *)

(* Bug variant of Unregister: the rooms are left without h.mu. *)
UnregisterUnlocked(c) ==
  /\ Ready(c)
  /\ members' = [room \in Rooms |-> members[room] \ {c}]
  /\ sub' = [sub EXCEPT ![c] = [Connected EXCEPT !.pc = "closing"]]
  /\ owed' = [owed EXCEPT ![c] = {}]
  /\ UNCHANGED <<cast, closed, wire, casts, subs, written, lost>>

Unregister(c) ==
  /\ Ready(c)
  /\ Unlocked(InstanceOf[c])
  /\ members' = [room \in Rooms |-> members[room] \ {c}]
  /\ sub' = [sub EXCEPT ![c] = [Connected EXCEPT !.pc = "closing"]]
  /\ owed' = [owed EXCEPT ![c] = {}]
  /\ UNCHANGED <<cast, closed, wire, casts, subs, written, lost>>

(* close(c.send), after the lock is given back. *)
Close(c) ==
  /\ sub[c].pc = "closing"
  /\ closed' = closed \cup {c}
  /\ sub' = [sub EXCEPT ![c].pc = "gone"]
  /\ written' = [written EXCEPT ![c] = {}]
  /\ UNCHANGED <<members, cast, wire, casts, subs, owed, lost>>

-----------------------------------------------------------------------------
(* Broadcasts.                                                               *)

(* Bug variant of Local: one map of rooms for all instances. *)
LocalEverywhere(p, room) == members[room]

(* The members of a room of process p's instance. *)
Local(p, room) == {c \in members[room] : InstanceOf[c] = InstanceOf[p]}

Skipped(m) == IF m.skip THEN {m.from} ELSE {}

(* EmitToRoom and EmitToRoomExcept begin: the read lock is taken. *)
Emit(p, room, skip) ==
  /\ casts < MaxCasts
  /\ casts' = casts + 1
  /\ LET m == [n |-> casts + 1, from |-> p, room |-> room, skip |-> skip] IN
       /\ cast' = [cast EXCEPT ![p] = [pc |-> "deliver", m |-> m,
                                       left |-> Local(p, room) \ Skipped(m)]]
       /\ owed' = [c \in Conns |->
                     IF c \in members[room] \ Skipped(m) THEN owed[c] \cup {m} ELSE owed[c]]
  /\ UNCHANGED <<members, sub, closed, wire, subs, written, lost>>

(* A reader's: into a zone without itself, or to the board. *)
ConnEmit(c) ==
  /\ Ready(c)
  /\ sub[c].joined
  /\ \/ \E z \in Zones : Emit(c, z, TRUE)
     \/ \E skip \in BOOLEAN : Emit(c, Board, skip)

WorkerEmit(p) == cast[p].pc = "idle" /\ Emit(p, Board, FALSE)

(* c.write; that a full channel drops the frame makes no difference here. *)
Write(p, c) ==
  /\ c \in cast[p].left
  /\ cast' = [cast EXCEPT ![p].left = @ \ {c}]
  /\ written' = [written EXCEPT ![c] = @ \cup {cast[p].m}]
  /\ owed' = [owed EXCEPT ![c] = @ \ {cast[p].m}]
  /\ UNCHANGED <<members, sub, closed, wire, casts, subs, lost>>

(* Bug variant of Delivered: EmitToRoomExcept does not publish. *)
DeliveredExceptHere(p) ==
  /\ cast[p].pc = "deliver"
  /\ cast[p].left = {}
  /\ cast' = [cast EXCEPT ![p] = IF p \in Relays \/ @.m.skip THEN Idle
                                 ELSE [@ EXCEPT !.pc = "publish"]]
  /\ UNCHANGED <<members, sub, closed, wire, casts, subs, written, owed, lost>>

(* The read lock is given back; what came from Redis goes no further. *)
Delivered(p) ==
  /\ cast[p].pc = "deliver"
  /\ cast[p].left = {}
  /\ cast' = [cast EXCEPT ![p] = IF p \in Relays THEN Idle ELSE [@ EXCEPT !.pc = "publish"]]
  /\ UNCHANGED <<members, sub, closed, wire, casts, subs, written, owed, lost>>

(* PUBLISH hands the broadcast to every subscribed relay, unless the command *)
(* fails, which is logged only, or the subscription misses it.                *)
Publish(p) ==
  /\ cast[p].pc = "publish"
  /\ \E reached \in SUBSET Relays :
       /\ wire' = [r \in Relays |-> IF r \in reached THEN Append(wire[r], cast[p].m) ELSE wire[r]]
       /\ lost' = lost \cup {<<cast[p].m, r>> : r \in Relays \ reached}
       /\ reached = Relays \/ Cardinality(lost') <= MaxLost
  /\ cast' = [cast EXCEPT ![p] = Idle]
  /\ UNCHANGED <<members, sub, closed, casts, subs, written, owed>>

(* Bug variant of Relay: the instance's own broadcasts come back. *)
RelayAll(r) ==
  /\ cast[r].pc = "idle"
  /\ wire[r] # <<>>
  /\ wire' = [wire EXCEPT ![r] = Tail(@)]
  /\ LET m == Head(wire[r]) IN
       cast' = [cast EXCEPT ![r] = [pc |-> "deliver", m |-> m, left |-> Local(r, m.room)]]
  /\ UNCHANGED <<members, sub, closed, casts, subs, written, owed, lost>>

(* The relay leaves out its own instance's broadcasts and delivers the      *)
(* others to the whole room: it does not know of an excepted sender.         *)
Relay(r) ==
  /\ cast[r].pc = "idle"
  /\ wire[r] # <<>>
  /\ wire' = [wire EXCEPT ![r] = Tail(@)]
  /\ LET m == Head(wire[r]) IN
       IF InstanceOf[m.from] = InstanceOf[r] THEN UNCHANGED cast
       ELSE cast' = [cast EXCEPT ![r] = [pc |-> "deliver", m |-> m, left |-> Local(r, m.room)]]
  /\ UNCHANGED <<members, sub, closed, casts, subs, written, owed, lost>>

-----------------------------------------------------------------------------
ReaderStep(c) ==
  \/ \E room \in Rooms : LeaveRoom(c, room) \/ JoinRoom(c, room)
  \/ Subscribed(c)
  \/ Unregister(c)
  \/ Close(c)

CastStep(p) == (\E c \in Conns : Write(p, c)) \/ Delivered(p) \/ Publish(p)

Next ==
  \/ \E c \in Conns : ReaderStep(c) \/ ConnEmit(c)
  \/ \E c \in Conns, vp \in Viewports : Join(c, vp) \/ Viewport(c, vp)
  \/ \E p \in Procs : CastStep(p)
  \/ \E p \in Workers : WorkerEmit(p)
  \/ \E r \in Relays : Relay(r)

Spec == Init /\ [][Next]_vars

-----------------------------------------------------------------------------
(* Properties.                                                               *)

Reader == [pc : {"idle", "rooms", "closing", "gone"}, joined : BOOLEAN,
           zones : SUBSET Zones, next : SUBSET Zones,
           leave : SUBSET Rooms, enter : SUBSET Rooms]

Delivery == [pc : {"idle", "deliver", "publish"}, m : Frame \cup {NoFrame},
             left : SUBSET Conns]

(* Every variable has its type; a broadcast is delivered under the lock and *)
(* only to connections of its process's own instance.                        *)
HubTypeOK ==
  /\ members \in [Rooms -> SUBSET Conns]
  /\ sub \in [Conns -> Reader]
  /\ \A c \in Conns : sub[c].pc # "rooms" => sub[c].leave = {} /\ sub[c].enter = {}
  /\ cast \in [Procs -> Delivery]
  /\ \A p \in Procs :
       /\ cast[p].m = NoFrame <=> cast[p].pc = "idle"
       /\ cast[p].pc # "deliver" => cast[p].left = {}
       /\ \A c \in cast[p].left : InstanceOf[c] = InstanceOf[p]
  /\ closed \in SUBSET Conns
  /\ wire \in [Relays -> Seq(Frame)]
  /\ casts \in Nat /\ subs \in Nat
  /\ written \in [Conns -> SUBSET Frame]
  /\ owed \in [Conns -> SUBSET Frame]
  /\ lost \in SUBSET (Frame \X Relays)

(* No goroutine ever writes to a closed send channel, which would end the   *)
(* process: whoever still has a connection to write to, on whichever        *)
(* goroutine, that connection's channel is open.                             *)
NoSendOnClosed == \A p \in Procs : cast[p].left \cap closed = {}

(* A broadcast is written to a connection once, and never to the sender it  *)
(* skips, although the relays know of no exception and every instance hears *)
(* its own broadcasts on the channel.                                        *)
OncePerConnection ==
  \A p \in Procs : \A c \in cast[p].left :
    /\ cast[p].m \notin written[c]
    /\ c \notin Skipped(cast[p].m)

(* Broadcast m is on its way to connection c: on the sender's own instance  *)
(* the sender itself has still to write it; to another it is not published  *)
(* yet, or the relay there has it before it, or Redis did not carry it.      *)
UnderWay(m, c) ==
  IF InstanceOf[m.from] = InstanceOf[c]
  THEN cast[m.from].m = m /\ c \in cast[m.from].left
  ELSE \/ cast[m.from].m = m
       \/ \E r \in Relays :
            /\ InstanceOf[r] = InstanceOf[c]
            /\ \/ m \in Range(wire[r])
               \/ cast[r].m = m /\ c \in cast[r].left
               \/ <<m, r>> \in lost

(* "a broadcast reaches the whole cluster regardless of which node a client *)
(* landed on" (BACKEND_ARCHITECTURE.md): what was sent to a room c has been *)
(* in ever since and was not yet written to c is under way to it.            *)
ReachesRoom == \A c \in Conns : \A m \in owed[c] : UnderWay(m, c)

(* Between two messages a joined connection is in the board's room and in   *)
(* the rooms of all the zones its viewport overlaps, whatever joins and     *)
(* viewports came before; a closed connection is in none.                    *)
InZoneRooms ==
  \A c \in Conns :
    /\ sub[c].pc = "idle" /\ sub[c].joined =>
         \A room \in {Board} \cup sub[c].zones : c \in members[room]
    /\ c \in closed => \A room \in Rooms : c \notin members[room]
=============================================================================
