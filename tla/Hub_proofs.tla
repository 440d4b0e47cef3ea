----------------------------- MODULE Hub_proofs -----------------------------
(***************************************************************************)
(* Theorems about Hub, for any instances, connections, workers and zones,  *)
(* and whatever Redis loses.                                               *)
(***************************************************************************)
EXTENDS Hub, SequenceTheorems, TLAPS

-----------------------------------------------------------------------------
(* What the channel between the instances does to the set of its messages.    *)

LEMMA RangeAppend ==
  ASSUME NEW S, NEW s \in Seq(S), NEW e \in S
  PROVE  Range(Append(s, e)) = Range(s) \cup {e}
<1>1. /\ Append(s, e) \in Seq(S)
      /\ Len(Append(s, e)) = Len(s) + 1
      /\ \A i \in 1..Len(s) : Append(s, e)[i] = s[i]
      /\ Append(s, e)[Len(s) + 1] = e
  BY AppendProperties
<1>2. /\ Len(s) \in Nat
      /\ DOMAIN s = 1..Len(s)
      /\ DOMAIN Append(s, e) = 1..(Len(s) + 1)
  BY <1>1, LenProperties
<1>3. 1..(Len(s) + 1) = 1..Len(s) \cup {Len(s) + 1}
  BY <1>2
<1> QED BY <1>1, <1>2, <1>3 DEF Range

LEMMA RangeHeadTail ==
  ASSUME NEW S, NEW s \in Seq(S), s # <<>>
  PROVE  Range(s) = {Head(s)} \cup Range(Tail(s))
<1>1. /\ Tail(s) \in Seq(S)
      /\ Len(Tail(s)) = Len(s) - 1
      /\ \A i \in 1..Len(Tail(s)) : Tail(s)[i] = s[i + 1]
  BY HeadTailProperties
<1>2. /\ Len(s) \in Nat \ {0} /\ DOMAIN s = 1..Len(s)
      /\ DOMAIN Tail(s) = 1..(Len(s) - 1)
      /\ Head(s) = s[1]
  BY <1>1, LenProperties, EmptySeq
<1>3. \A i \in 1..Len(s) : i = 1 \/ (i - 1 \in 1..(Len(s) - 1) /\ s[i] = Tail(s)[i - 1])
  BY <1>1, <1>2
<1>4. \A i \in 1..(Len(s) - 1) : i + 1 \in 1..Len(s)
  BY <1>2
<1>5. Range(s) \subseteq {Head(s)} \cup Range(Tail(s))
  <2> SUFFICES ASSUME NEW i \in 1..Len(s)
               PROVE  s[i] \in {Head(s)} \cup Range(Tail(s))
    BY <1>2 DEF Range
  <2>1. CASE i = 1
    BY <1>2, <2>1
  <2>2. CASE i - 1 \in 1..(Len(s) - 1) /\ s[i] = Tail(s)[i - 1]
    BY <1>2, <2>2 DEF Range
  <2> QED BY <1>3, <2>1, <2>2
<1>6. {Head(s)} \cup Range(Tail(s)) \subseteq Range(s)
  BY <1>1, <1>2, <1>4 DEF Range
<1> QED BY <1>5, <1>6

(* A sequence in which nothing occurs twice. *)
Distinct(s) == \A i, j \in 1..Len(s) : s[i] = s[j] => i = j

LEMMA DistinctAppend ==
  ASSUME NEW S, NEW s \in Seq(S), NEW e \in S, Distinct(s), e \notin Range(s)
  PROVE  Distinct(Append(s, e))
<1>1. /\ Append(s, e) \in Seq(S)
      /\ Len(Append(s, e)) = Len(s) + 1
      /\ \A i \in 1..Len(s) : Append(s, e)[i] = s[i]
      /\ Append(s, e)[Len(s) + 1] = e
  BY AppendProperties
<1>2. Len(s) \in Nat /\ DOMAIN s = 1..Len(s)
  BY LenProperties
<1>3. \A i \in 1..Len(s) : s[i] # e
  BY <1>2 DEF Range
<1>4. \A i \in 1..(Len(s) + 1) : i \in 1..Len(s) \/ i = Len(s) + 1
  BY <1>2
<1> QED BY <1>1, <1>2, <1>3, <1>4 DEF Distinct

LEMMA HeadTailDistinct ==
  ASSUME NEW S, NEW s \in Seq(S), s # <<>>
  PROVE  /\ Head(s) \in S /\ Tail(s) \in Seq(S)
         /\ Range(s) = {Head(s)} \cup Range(Tail(s))
         /\ Distinct(s) => Distinct(Tail(s)) /\ Head(s) \notin Range(Tail(s))
<1>1. /\ Head(s) \in S
      /\ Tail(s) \in Seq(S)
      /\ Len(Tail(s)) = Len(s) - 1
      /\ \A i \in 1..Len(Tail(s)) : Tail(s)[i] = s[i + 1]
  BY HeadTailProperties
<1>2. /\ Len(s) \in Nat \ {0} /\ Head(s) = s[1]
      /\ DOMAIN Tail(s) = 1..(Len(s) - 1)
  BY <1>1, LenProperties, EmptySeq
<1>3. \A i \in 1..(Len(s) - 1) : i + 1 \in 1..Len(s) /\ i + 1 # 1 /\ Tail(s)[i] = s[i + 1]
  BY <1>1, <1>2
<1>4. ASSUME Distinct(s)
      PROVE  Distinct(Tail(s)) /\ Head(s) \notin Range(Tail(s))
  <2>1. \A i, j \in 1..(Len(s) - 1) : Tail(s)[i] = Tail(s)[j] => i + 1 = j + 1
    BY <1>3, <1>4 DEF Distinct
  <2>2. \A i \in 1..(Len(s) - 1) : Tail(s)[i] # s[1]
    BY <1>2, <1>3, <1>4 DEF Distinct
  <2> QED BY <1>1, <1>2, <2>1, <2>2 DEF Distinct, Range
<1> QED BY <1>1, <1>4, RangeHeadTail

-----------------------------------------------------------------------------
(* Types.                                                                    *)

LEMMA InitTypeOK == Init => HubTypeOK
BY HubAssumption, EmptySeq DEF Init, HubTypeOK, Connected, Idle, Procs,
   Reader, Delivery

(* A reader's record, changed in some of its fields. *)
LEMMA SubField ==
  ASSUME HubTypeOK, NEW c \in Conns,
         NEW s \in Reader,
         s.pc # "rooms" => s.leave = {} /\ s.enter = {},
         sub' = [sub EXCEPT ![c] = s],
         members' \in [Rooms -> SUBSET Conns],
         closed' \in SUBSET Conns, subs' \in Nat,
         written' \in [Conns -> SUBSET Frame], owed' \in [Conns -> SUBSET Frame],
         UNCHANGED <<cast, wire, casts, lost>>
  PROVE  HubTypeOK'
BY DEF HubTypeOK

LEMMA SubType ==
  ASSUME HubTypeOK, NEW c \in Conns,
         \/ \E vp \in Viewports : Join(c, vp) \/ Viewport(c, vp)
         \/ ReaderStep(c)
  PROVE  HubTypeOK'
<1> USE HubAssumption
<1>0. /\ sub[c] \in Reader
      /\ sub[c].pc # "rooms" => sub[c].leave = {} /\ sub[c].enter = {}
      /\ members \in [Rooms -> SUBSET Conns] /\ closed \in SUBSET Conns /\ subs \in Nat
      /\ written \in [Conns -> SUBSET Frame] /\ owed \in [Conns -> SUBSET Frame]
  BY DEF HubTypeOK
<1>1. ASSUME NEW vp \in Viewports, Join(c, vp)
      PROVE  HubTypeOK'
  <2> DEFINE s == [sub[c] EXCEPT !.pc = "rooms", !.joined = TRUE, !.next = vp,
                                 !.leave = {}, !.enter = {Board} \cup vp]
  <2>1. vp \in SUBSET Zones /\ {Board} \cup vp \in SUBSET Rooms
    BY DEF Rooms
  <2>2. s \in Reader /\ s.pc = "rooms"
    BY <1>0, <2>1 DEF Reader
  <2>3. subs' = subs + 1
    BY <1>1 DEF Join
  <2>4. sub' = [sub EXCEPT ![c] = s]
        /\ UNCHANGED <<members, cast, closed, wire, casts, written, owed, lost>>
    BY <1>1 DEF Join
  <2> HIDE DEF s
  <2>5. subs' \in Nat
    BY <1>0, <2>3
  <2> QED BY <1>0, <2>2, <2>4, <2>5, SubField
<1>2. ASSUME NEW vp \in Viewports, Viewport(c, vp)
      PROVE  HubTypeOK'
  <2> DEFINE s == [sub[c] EXCEPT !.pc = "rooms", !.next = vp,
                                 !.leave = sub[c].zones \ vp,
                                 !.enter = vp \ sub[c].zones]
  <2>1. vp \in SUBSET Zones /\ sub[c].zones \ vp \in SUBSET Rooms
        /\ vp \ sub[c].zones \in SUBSET Rooms
    BY <1>0 DEF Rooms, Reader
  <2>2. s \in Reader /\ s.pc = "rooms"
    BY <1>0, <2>1 DEF Reader
  <2>3. subs' = subs + 1
    BY <1>2 DEF Viewport
  <2>4. sub' = [sub EXCEPT ![c] = s]
        /\ UNCHANGED <<members, cast, closed, wire, casts, written, owed, lost>>
    BY <1>2 DEF Viewport
  <2> HIDE DEF s
  <2>5. subs' \in Nat
    BY <1>0, <2>3
  <2> QED BY <1>0, <2>2, <2>4, <2>5, SubField
<1>3. ASSUME NEW room \in Rooms, LeaveRoom(c, room)
      PROVE  HubTypeOK'
  <2> DEFINE s == [sub[c] EXCEPT !.leave = @ \ {room}]
  <2>1. s \in Reader
    BY <1>0 DEF Reader
  <2>2. s.pc # "rooms" => s.leave = {} /\ s.enter = {}
    BY <1>0 DEF Reader
  <2>3. sub' = [sub EXCEPT ![c] = s]
        /\ members' \in [Rooms -> SUBSET Conns] /\ owed' \in [Conns -> SUBSET Frame]
        /\ UNCHANGED <<cast, closed, wire, casts, subs, written, lost>>
    BY <1>0, <1>3 DEF LeaveRoom
  <2> HIDE DEF s
  <2>4. /\ closed' \in SUBSET Conns /\ subs' \in Nat
        /\ written' \in [Conns -> SUBSET Frame]
        /\ UNCHANGED <<cast, wire, casts, lost>>
    BY <1>0, <2>3
  <2> QED BY <2>2, <2>1, <2>3, <2>4, SubField
<1>4. ASSUME NEW room \in Rooms, JoinRoom(c, room)
      PROVE  HubTypeOK'
  <2> DEFINE s == [sub[c] EXCEPT !.enter = @ \ {room}]
  <2>1. s \in Reader
    BY <1>0 DEF Reader
  <2>2. s.pc # "rooms" => s.leave = {} /\ s.enter = {}
    BY <1>0 DEF Reader
  <2>3. sub' = [sub EXCEPT ![c] = s]
        /\ members' \in [Rooms -> SUBSET Conns] /\ owed' \in [Conns -> SUBSET Frame]
        /\ UNCHANGED <<cast, closed, wire, casts, subs, written, lost>>
    BY <1>0, <1>4 DEF JoinRoom
  <2> HIDE DEF s
  <2>4. /\ closed' \in SUBSET Conns /\ subs' \in Nat
        /\ written' \in [Conns -> SUBSET Frame]
        /\ UNCHANGED <<cast, wire, casts, lost>>
    BY <1>0, <2>3
  <2> QED BY <2>2, <2>1, <2>3, <2>4, SubField
<1>5. CASE Subscribed(c)
  <2> DEFINE s == [sub[c] EXCEPT !.pc = "idle", !.zones = sub[c].next, !.next = {}]
  <2>1. s \in Reader /\ s.leave = {} /\ s.enter = {}
    BY <1>0, <1>5 DEF Reader, Subscribed
  <2>2. sub' = [sub EXCEPT ![c] = s]
        /\ UNCHANGED <<members, cast, closed, wire, casts, subs, written, owed, lost>>
    BY <1>5 DEF Subscribed
  <2> HIDE DEF s
  <2> QED BY <1>0, <2>1, <2>2, SubField
<1>6. CASE Unregister(c)
  <2> DEFINE s == [Connected EXCEPT !.pc = "closing"]
  <2>1. s \in Reader /\ s.leave = {} /\ s.enter = {}
    BY DEF Connected, Reader
  <2>2. sub' = [sub EXCEPT ![c] = s]
        /\ members' \in [Rooms -> SUBSET Conns] /\ owed' \in [Conns -> SUBSET Frame]
        /\ UNCHANGED <<cast, closed, wire, casts, subs, written, lost>>
    BY <1>0, <1>6 DEF Unregister
  <2> HIDE DEF s
  <2> QED BY <1>0, <2>1, <2>2, SubField
<1>7. CASE Close(c)
  <2> DEFINE s == [sub[c] EXCEPT !.pc = "gone"]
  <2>1. s \in Reader /\ s.leave = {} /\ s.enter = {}
    BY <1>0, <1>7 DEF Reader, Close
  <2>2. sub' = [sub EXCEPT ![c] = s]
        /\ closed' \in SUBSET Conns /\ written' \in [Conns -> SUBSET Frame]
        /\ UNCHANGED <<members, cast, wire, casts, subs, owed, lost>>
    BY <1>0, <1>7 DEF Close
  <2> HIDE DEF s
  <2> QED BY <1>0, <2>1, <2>2, SubField
<1> QED BY <1>1, <1>2, <1>3, <1>4, <1>5, <1>6, <1>7 DEF ReaderStep

(* The broadcast that Emit creates. *)
Made(p, room, skip) == [n |-> casts + 1, from |-> p, room |-> room, skip |-> skip]

LEMMA MadeType ==
  ASSUME HubTypeOK, NEW p \in Conns \cup Workers, NEW room \in Rooms, NEW skip \in BOOLEAN
  PROVE  /\ Made(p, room, skip) \in Frame
         /\ Made(p, room, skip).n = casts + 1
         /\ Made(p, room, skip).from = p
         /\ Made(p, room, skip).room = room
BY DEF Made, Frame, HubTypeOK

LEMMA FrameFields ==
  ASSUME NEW m \in Frame
  PROVE  /\ m # NoFrame /\ m.n \in Nat /\ m.room \in Rooms /\ m.skip \in BOOLEAN
         /\ m.from \in Conns \cup Workers /\ m.from \in Procs /\ m.from \notin Relays
BY HubAssumption DEF Frame, Procs

(* A process's record of what it delivers, replaced. *)
LEMMA CastField ==
  ASSUME HubTypeOK, NEW p \in Procs,
         NEW k \in Delivery,
         k.m = NoFrame <=> k.pc = "idle",
         k.pc # "deliver" => k.left = {},
         \A c \in k.left : InstanceOf[c] = InstanceOf[p],
         cast' = [cast EXCEPT ![p] = k],
         wire' \in [Relays -> Seq(Frame)], casts' \in Nat,
         written' \in [Conns -> SUBSET Frame], owed' \in [Conns -> SUBSET Frame],
         lost' \in SUBSET (Frame \X Relays),
         UNCHANGED <<members, sub, closed, subs>>
  PROVE  HubTypeOK'
BY DEF HubTypeOK

LEMMA EmitType ==
  ASSUME HubTypeOK, NEW p \in Conns \cup Workers, NEW room \in Rooms, NEW skip \in BOOLEAN,
         cast[p].pc = "idle", Emit(p, room, skip)
  PROVE  HubTypeOK'
<1> DEFINE m == Made(p, room, skip)
           k == [pc |-> "deliver", m |-> m, left |-> Local(p, room) \ Skipped(m)]
<1>1. m \in Frame /\ m # NoFrame /\ p \in Procs
  BY MadeType, FrameFields DEF Procs
<1>2. /\ casts' = casts + 1
      /\ cast' = [cast EXCEPT ![p] = k]
      /\ owed' = [c \in Conns |->
                    IF c \in members[room] \ Skipped(m) THEN owed[c] \cup {m} ELSE owed[c]]
      /\ UNCHANGED <<members, sub, closed, wire, subs, written, lost>>
  BY DEF Emit, Made
<1>3. /\ Local(p, room) \ Skipped(m) \in SUBSET Conns
      /\ \A c \in Local(p, room) \ Skipped(m) : InstanceOf[c] = InstanceOf[p]
  BY DEF Local, HubTypeOK
<1> HIDE DEF m
<1>4. /\ k \in Delivery
      /\ k.m # NoFrame /\ k.pc = "deliver" /\ k.left = Local(p, room) \ Skipped(m)
  BY <1>1, <1>3 DEF Delivery
<1> HIDE DEF k
<1>5. /\ casts' \in Nat /\ owed' \in [Conns -> SUBSET Frame]
      /\ wire' \in [Relays -> Seq(Frame)] /\ written' \in [Conns -> SUBSET Frame]
      /\ lost' \in SUBSET (Frame \X Relays)
  BY <1>1, <1>2 DEF HubTypeOK
<1> QED BY <1>1, <1>2, <1>3, <1>4, <1>5, CastField

LEMMA CastType ==
  ASSUME HubTypeOK, NEW p \in Procs, CastStep(p)
  PROVE  HubTypeOK'
<1>0. /\ cast[p] \in Delivery
      /\ cast[p].m = NoFrame <=> cast[p].pc = "idle"
      /\ cast[p].pc # "deliver" => cast[p].left = {}
      /\ \A c \in cast[p].left : InstanceOf[c] = InstanceOf[p]
      /\ wire \in [Relays -> Seq(Frame)] /\ casts \in Nat
      /\ written \in [Conns -> SUBSET Frame] /\ owed \in [Conns -> SUBSET Frame]
      /\ lost \in SUBSET (Frame \X Relays)
  BY DEF HubTypeOK
<1>1. ASSUME NEW c \in Conns, Write(p, c)
      PROVE  HubTypeOK'
  <2> DEFINE k == [cast[p] EXCEPT !.left = @ \ {c}]
  <2>1. cast[p].pc = "deliver" /\ cast[p].m \in Frame
    BY <1>0, <1>1 DEF Write, Delivery
  <2>2. /\ k \in Delivery /\ k.pc = cast[p].pc /\ k.m = cast[p].m
        /\ k.left \subseteq cast[p].left
    BY <1>0 DEF Delivery
  <2>3. /\ cast' = [cast EXCEPT ![p] = k]
        /\ written' \in [Conns -> SUBSET Frame] /\ owed' \in [Conns -> SUBSET Frame]
        /\ UNCHANGED <<members, sub, closed, wire, casts, subs, lost>>
    BY <1>0, <1>1, <2>1 DEF Write
  <2> HIDE DEF k
  <2> QED BY <1>0, <2>1, <2>2, <2>3, CastField
<1>2. CASE Delivered(p)
  <2> DEFINE k == IF p \in Relays THEN Idle ELSE [cast[p] EXCEPT !.pc = "publish"]
  <2>1. k \in Delivery /\ k.left = {} /\ (k.m = NoFrame <=> k.pc = "idle")
    BY <1>0, <1>2 DEF Delivered, Idle, Delivery
  <2>2. /\ cast' = [cast EXCEPT ![p] = k]
        /\ UNCHANGED <<members, sub, closed, wire, casts, subs, written, owed, lost>>
    BY <1>2 DEF Delivered
  <2> HIDE DEF k
  <2> QED BY <1>0, <2>1, <2>2, CastField
<1>3. CASE Publish(p)
  <2>1. cast[p].m \in Frame
    BY <1>0, <1>3 DEF Publish, Delivery
  <2>2. \A r \in Relays : Append(wire[r], cast[p].m) \in Seq(Frame)
    BY <1>0, <2>1, AppendProperties
  <2>3. /\ wire' \in [Relays -> Seq(Frame)]
        /\ lost' \in SUBSET (Frame \X Relays)
    BY <1>0, <1>3, <2>1, <2>2 DEF Publish
  <2>4. /\ cast' = [cast EXCEPT ![p] = Idle]
        /\ UNCHANGED <<members, sub, closed, casts, subs, written, owed>>
    BY <1>3 DEF Publish
  <2>5. Idle \in Delivery /\ Idle.m = NoFrame /\ Idle.pc = "idle" /\ Idle.left = {}
    BY DEF Idle, Delivery
  <2> QED BY <1>0, <2>3, <2>4, <2>5, CastField
<1> QED BY <1>1, <1>2, <1>3 DEF CastStep

LEMMA RelayType ==
  ASSUME HubTypeOK, NEW r \in Relays, Relay(r)
  PROVE  HubTypeOK'
<1> DEFINE m == Head(wire[r])
           k == [pc |-> "deliver", m |-> m, left |-> Local(r, m.room)]
<1>1. wire[r] \in Seq(Frame) /\ wire[r] # <<>>
  BY DEF Relay, HubTypeOK
<1>2. m \in Frame /\ Tail(wire[r]) \in Seq(Frame)
  BY <1>1, HeadTailDistinct
<1>3. m # NoFrame /\ m.room \in Rooms /\ r \in Procs
  BY <1>2, FrameFields DEF Procs
<1>4. /\ Local(r, m.room) \in SUBSET Conns
      /\ \A c \in Local(r, m.room) : InstanceOf[c] = InstanceOf[r]
  BY <1>3 DEF Local, HubTypeOK
<1>5. /\ wire' = [wire EXCEPT ![r] = Tail(wire[r])]
      /\ UNCHANGED cast \/ cast' = [cast EXCEPT ![r] = k]
      /\ UNCHANGED <<members, sub, closed, casts, subs, written, owed, lost>>
  BY DEF Relay
<1> HIDE DEF m
<1>6. /\ k \in Delivery
      /\ k.m # NoFrame /\ k.pc = "deliver" /\ k.left = Local(r, m.room)
  BY <1>2, <1>3, <1>4 DEF Delivery
<1>7. /\ wire' \in [Relays -> Seq(Frame)] /\ casts' \in Nat
      /\ written' \in [Conns -> SUBSET Frame] /\ owed' \in [Conns -> SUBSET Frame]
      /\ lost' \in SUBSET (Frame \X Relays)
  BY <1>2, <1>5 DEF HubTypeOK
<1> HIDE DEF k
<1>8. CASE UNCHANGED cast
  BY <1>5, <1>7, <1>8 DEF HubTypeOK
<1>9. CASE cast' = [cast EXCEPT ![r] = k]
  BY <1>3, <1>4, <1>5, <1>6, <1>7, <1>9, CastField
<1> QED BY <1>5, <1>8, <1>9

(* Every broadcast begins with a process that delivers nothing. *)
LEMMA NextCases ==
  ASSUME Next
  PROVE  \/ \E c \in Conns : \/ ReaderStep(c)
                             \/ \E vp \in Viewports : Join(c, vp) \/ Viewport(c, vp)
         \/ \E p \in Conns \cup Workers, room \in Rooms, skip \in BOOLEAN :
              cast[p].pc = "idle" /\ Emit(p, room, skip)
         \/ \E p \in Procs : CastStep(p)
         \/ \E r \in Relays : Relay(r)
BY DEF Next, ConnEmit, WorkerEmit, Ready, Rooms

LEMMA NextType == HubTypeOK /\ [Next]_vars => HubTypeOK'
<1> SUFFICES ASSUME HubTypeOK, [Next]_vars
             PROVE  HubTypeOK'
  OBVIOUS
<1>1. CASE UNCHANGED vars
  BY <1>1 DEF vars, HubTypeOK
<1>2. CASE Next
  BY <1>2, NextCases, SubType, EmitType, CastType, RelayType
<1> QED BY <1>1, <1>2

(* HubTypeOK is an invariant: types, and that a delivery under an instance's *)
(* lock is only to connections of that instance.                             *)
THEOREM HubTypeCorrect == Spec => []HubTypeOK
BY InitTypeOK, NextType, PTL DEF Spec

-----------------------------------------------------------------------------
(* The end of a connection.                                                  *)

(* A connection that is ending is in no room and in no delivery.  It is what *)
(* makes NoSendOnClosed inductive: closing the channel adds no condition.    *)
Parted ==
  /\ \A c \in closed : sub[c].pc = "gone"
  /\ \A c \in Conns : sub[c].pc \in {"closing", "gone"} =>
       /\ \A room \in Rooms : c \notin members[room]
       /\ \A p \in Procs : c \notin cast[p].left

LEMMA SubParted ==
  ASSUME HubTypeOK, Parted, NEW c \in Conns,
         \/ \E vp \in Viewports : Join(c, vp) \/ Viewport(c, vp)
         \/ ReaderStep(c)
  PROVE  Parted'
<1>0. sub \in [Conns -> Reader] /\ members \in [Rooms -> SUBSET Conns] /\ closed \in SUBSET Conns
  BY DEF HubTypeOK
<1>1. ASSUME NEW vp \in Viewports, Join(c, vp) \/ Viewport(c, vp)
      PROVE  Parted'
  <2>1. /\ \A d \in Conns : sub'[d].pc = IF d = c THEN "rooms" ELSE sub[d].pc
        /\ sub[c].pc = "idle"
        /\ UNCHANGED <<members, cast, closed>>
    <3>1. CASE Join(c, vp)
      BY <1>0, <3>1 DEF Join, Ready, Reader
    <3>2. CASE Viewport(c, vp)
      BY <1>0, <3>2 DEF Viewport, Ready, Reader
    <3> QED BY <1>1, <3>1, <3>2
  <2> QED BY <1>0, <2>1 DEF Parted
<1>2. ASSUME NEW room \in Rooms, LeaveRoom(c, room)
      PROVE  Parted'
  <2>1. /\ \A d \in Conns : sub'[d].pc = sub[d].pc
        /\ \A q \in Rooms : members'[q] \subseteq members[q]
        /\ UNCHANGED <<cast, closed>>
    BY <1>0, <1>2 DEF LeaveRoom, Reader
  <2> QED BY <1>0, <2>1 DEF Parted
<1>3. ASSUME NEW room \in Rooms, JoinRoom(c, room)
      PROVE  Parted'
  <2>1. sub[c].pc = "rooms"
    BY <1>3 DEF JoinRoom, HubTypeOK
  <2>2. /\ \A d \in Conns : sub'[d].pc = sub[d].pc
        /\ \A q \in Rooms : members'[q] \subseteq members[q] \cup {c}
        /\ UNCHANGED <<cast, closed>>
    BY <1>0, <1>3 DEF JoinRoom, Reader
  <2> QED BY <1>0, <2>1, <2>2 DEF Parted
<1>4. CASE Subscribed(c)
  <2>1. /\ \A d \in Conns : sub'[d].pc = IF d = c THEN "idle" ELSE sub[d].pc
        /\ sub[c].pc = "rooms"
        /\ UNCHANGED <<members, cast, closed>>
    BY <1>0, <1>4 DEF Subscribed, Reader
  <2> QED BY <1>0, <2>1 DEF Parted
<1>5. CASE Unregister(c)
  <2>1. \A p \in Procs : c \notin cast[p].left
    BY <1>5 DEF Unregister, Unlocked, HubTypeOK
  <2>2. /\ \A d \in Conns : sub'[d].pc = IF d = c THEN "closing" ELSE sub[d].pc
        /\ \A q \in Rooms : members'[q] = members[q] \ {c}
        /\ sub[c].pc = "idle"
        /\ UNCHANGED <<cast, closed>>
    BY <1>0, <1>5 DEF Unregister, Ready, Connected, Reader
  <2> QED BY <1>0, <2>1, <2>2 DEF Parted
<1>6. CASE Close(c)
  <2>1. /\ \A d \in Conns : sub'[d].pc = IF d = c THEN "gone" ELSE sub[d].pc
        /\ sub[c].pc = "closing"
        /\ closed' = closed \cup {c}
        /\ UNCHANGED <<members, cast>>
    BY <1>0, <1>6 DEF Close, Reader
  <2> QED BY <1>0, <2>1 DEF Parted
<1> QED BY <1>1, <1>2, <1>3, <1>4, <1>5, <1>6 DEF ReaderStep

(* A delivery begins with members of the room, and then only shrinks. *)
LEMMA CastParted ==
  ASSUME HubTypeOK, Parted,
         \/ \E p \in Conns \cup Workers, room \in Rooms, skip \in BOOLEAN : Emit(p, room, skip)
         \/ \E p \in Procs : CastStep(p)
         \/ \E r \in Relays : Relay(r)
  PROVE  Parted'
<1>0. cast \in [Procs -> Delivery] /\ closed \in SUBSET Conns
  BY DEF HubTypeOK
<1>1. \A p \in Procs : \/ cast'[p].left \subseteq cast[p].left
                       \/ \E room \in Rooms : cast'[p].left \subseteq members[room]
  <2>1. ASSUME NEW p \in Conns \cup Workers, NEW room \in Rooms, NEW skip \in BOOLEAN,
               Emit(p, room, skip), NEW q \in Procs
        PROVE  cast'[q].left \subseteq cast[q].left \/ cast'[q].left \subseteq members[room]
    <3>1. cast'[q] = IF q = p THEN [pc |-> "deliver", m |-> Made(p, room, skip),
                                    left |-> Local(p, room) \ Skipped(Made(p, room, skip))]
                     ELSE cast[q]
      BY <1>0, <2>1 DEF Emit, Made
    <3> QED BY <3>1 DEF Local
  <2>2. ASSUME NEW p \in Procs, CastStep(p), NEW q \in Procs
        PROVE  cast'[q].left \subseteq cast[q].left
    <3>1. ASSUME NEW c \in Conns, Write(p, c)
          PROVE  cast'[q].left \subseteq cast[q].left
      BY <1>0, <3>1 DEF Write, Delivery
    <3>2. CASE Delivered(p) \/ Publish(p)
      BY <1>0, <3>2 DEF Delivered, Publish, Idle, Delivery
    <3> QED BY <2>2, <3>1, <3>2 DEF CastStep
  <2>3. ASSUME NEW r \in Relays, Relay(r), NEW q \in Procs
        PROVE  cast'[q].left \subseteq cast[q].left \/ \E room \in Rooms : cast'[q].left \subseteq members[room]
    <3> DEFINE m == Head(wire[r])
    <3>1. wire[r] \in Seq(Frame) /\ wire[r] # <<>>
      BY <2>3 DEF Relay, HubTypeOK
    <3>2. m.room \in Rooms
      BY <3>1, HeadTailDistinct, FrameFields
    <3>3. \/ cast' = cast
          \/ cast' = [cast EXCEPT ![r] = [pc |-> "deliver", m |-> m, left |-> Local(r, m.room)]]
      BY <2>3 DEF Relay
    <3> HIDE DEF m
    <3> QED BY <1>0, <3>2, <3>3 DEF Local
  <2> QED BY <2>1, <2>2, <2>3
<1>2. UNCHANGED <<members, sub, closed>>
  BY DEF Emit, CastStep, Write, Delivered, Publish, Relay
<1> QED BY <1>0, <1>1, <1>2 DEF Parted

LEMMA NextParted == HubTypeOK /\ Parted /\ [Next]_vars => Parted'
<1> SUFFICES ASSUME HubTypeOK, Parted, [Next]_vars
             PROVE  Parted'
  OBVIOUS
<1>1. CASE UNCHANGED vars
  BY <1>1 DEF vars, Parted
<1>2. CASE Next
  BY <1>2, NextCases, SubParted, CastParted
<1> QED BY <1>1, <1>2

LEMMA InitParted == Init => Parted
BY DEF Init, Parted, Connected, Idle, Rooms

(* No goroutine ever writes to a closed send channel, although the channel  *)
(* is closed after the lock is given back: NoSendOnClosed for every number   *)
(* of connections, instances and broadcasts.                                 *)
THEOREM NeverSendsOnClosed == Spec => []NoSendOnClosed
<1>1. HubTypeOK /\ Parted => NoSendOnClosed
  BY DEF HubTypeOK, Parted, NoSendOnClosed
<1> QED BY <1>1, InitTypeOK, NextType, InitParted, NextParted, PTL DEF Spec

-----------------------------------------------------------------------------
(* The rooms of a reader.                                                    *)

(* In the middle of a join or a viewport update, every room of the message  *)
(* has been entered or is about to be, and none of them is about to be left. *)
Entering ==
  \A c \in Conns :
    /\ sub[c].pc = "idle" /\ sub[c].joined =>
         \A room \in {Board} \cup sub[c].zones : c \in members[room]
    /\ sub[c].pc = "rooms" =>
         \A room \in {Board} \cup sub[c].next :
           /\ room \notin sub[c].leave
           /\ c \in members[room] \/ room \in sub[c].enter

LEMMA SubEntering ==
  ASSUME HubTypeOK, Entering, NEW c \in Conns,
         \/ \E vp \in Viewports : Join(c, vp) \/ Viewport(c, vp)
         \/ ReaderStep(c)
  PROVE  Entering'
<1>0. /\ sub \in [Conns -> Reader] /\ members \in [Rooms -> SUBSET Conns]
      /\ Rooms = {Board} \cup Zones /\ Board \notin Zones
      /\ \A d \in Conns : sub[d].zones \subseteq Zones /\ sub[d].next \subseteq Zones
  BY HubAssumption DEF HubTypeOK, Rooms, Reader
<1>1. ASSUME NEW vp \in Viewports, Join(c, vp)
      PROVE  Entering'
  <2>1. /\ sub'[c].pc = "rooms" /\ sub'[c].next = vp
        /\ sub'[c].leave = {} /\ sub'[c].enter = {Board} \cup vp
    <3>1. sub[c] \in Reader
      BY <1>0
    <3>2. sub'[c] = [sub[c] EXCEPT !.pc = "rooms", !.joined = TRUE, !.next = vp,
                                   !.leave = {}, !.enter = {Board} \cup vp]
      BY <1>0, <1>1 DEF Join
    <3> QED BY <3>1, <3>2 DEF Reader
  <2>2. (\A d \in Conns \ {c} : sub'[d] = sub[d]) /\ UNCHANGED members
    BY <1>0, <1>1 DEF Join
  <2> QED BY <2>1, <2>2 DEF Entering
<1>2. ASSUME NEW vp \in Viewports, Viewport(c, vp)
      PROVE  Entering'
  <2>1. /\ sub'[c].pc = "rooms" /\ sub'[c].next = vp
        /\ sub'[c].leave = sub[c].zones \ vp /\ sub'[c].enter = vp \ sub[c].zones
    <3>1. sub[c] \in Reader
      BY <1>0
    <3>2. sub'[c] = [sub[c] EXCEPT !.pc = "rooms", !.next = vp,
                                   !.leave = sub[c].zones \ vp,
                                   !.enter = vp \ sub[c].zones]
      BY <1>0, <1>2 DEF Viewport
    <3> QED BY <3>1, <3>2 DEF Reader
  <2>2. (\A d \in Conns \ {c} : sub'[d] = sub[d]) /\ UNCHANGED members
    BY <1>0, <1>2 DEF Viewport
  <2>3. sub[c].pc = "idle" /\ sub[c].joined
    BY <1>2 DEF Viewport, Ready
  <2>4. Board \notin sub[c].zones
    BY <1>0
  <2> QED BY <2>1, <2>2, <2>3, <2>4 DEF Entering
<1>3. ASSUME NEW room \in Rooms, LeaveRoom(c, room)
      PROVE  Entering'
  <2>1. /\ sub[c].pc = "rooms" /\ sub'[c].pc = "rooms" /\ sub'[c].next = sub[c].next
        /\ sub'[c].leave = sub[c].leave \ {room} /\ sub'[c].enter = sub[c].enter
        /\ room \in sub[c].leave
    BY <1>0, <1>3 DEF LeaveRoom, Reader, HubTypeOK
  <2>2. /\ \A d \in Conns \ {c} : sub'[d] = sub[d]
        /\ \A q \in Rooms, d \in Conns :
             d # c \/ q # room => (d \in members'[q] <=> d \in members[q])
    BY <1>0, <1>3 DEF LeaveRoom
  <2> QED BY <1>0, <2>1, <2>2 DEF Entering
<1>4. ASSUME NEW room \in Rooms, JoinRoom(c, room)
      PROVE  Entering'
  <2>1. /\ sub[c].pc = "rooms" /\ sub'[c].pc = "rooms" /\ sub'[c].next = sub[c].next
        /\ sub'[c].leave = sub[c].leave /\ sub'[c].enter = sub[c].enter \ {room}
    BY <1>0, <1>4 DEF JoinRoom, Reader, HubTypeOK
  <2>2. /\ \A d \in Conns \ {c} : sub'[d] = sub[d]
        /\ \A q \in Rooms : members[q] \subseteq members'[q]
        /\ c \in members'[room]
    BY <1>0, <1>4 DEF JoinRoom
  <2> QED BY <1>0, <2>1, <2>2 DEF Entering
<1>5. CASE Subscribed(c)
  <2>1. /\ sub[c].pc = "rooms" /\ sub[c].enter = {}
        /\ sub'[c].pc = "idle" /\ sub'[c].zones = sub[c].next
    BY <1>0, <1>5 DEF Subscribed, Reader
  <2>2. (\A d \in Conns \ {c} : sub'[d] = sub[d]) /\ UNCHANGED members
    BY <1>0, <1>5 DEF Subscribed
  <2> QED BY <2>1, <2>2 DEF Entering
<1>6. CASE Unregister(c)
  <2>1. sub'[c].pc = "closing"
    BY <1>0, <1>6 DEF Unregister, Connected
  <2>2. /\ \A d \in Conns \ {c} : sub'[d] = sub[d]
        /\ \A q \in Rooms : members'[q] = members[q] \ {c}
    BY <1>0, <1>6 DEF Unregister
  <2> QED BY <1>0, <2>1, <2>2 DEF Entering
<1>7. CASE Close(c)
  <2>1. sub'[c].pc = "gone"
    BY <1>0, <1>7 DEF Close, Reader
  <2>2. (\A d \in Conns \ {c} : sub'[d] = sub[d]) /\ UNCHANGED members
    BY <1>0, <1>7 DEF Close
  <2> QED BY <2>1, <2>2 DEF Entering
<1> QED BY <1>1, <1>2, <1>3, <1>4, <1>5, <1>6, <1>7 DEF ReaderStep

LEMMA NextEntering == HubTypeOK /\ Entering /\ [Next]_vars => Entering'
<1> SUFFICES ASSUME HubTypeOK, Entering, [Next]_vars
             PROVE  Entering'
  OBVIOUS
<1>1. CASE UNCHANGED <<members, sub>>
  BY <1>1 DEF Entering
<1>2. CASE \E c \in Conns : \/ ReaderStep(c)
                           \/ \E vp \in Viewports : Join(c, vp) \/ Viewport(c, vp)
  BY <1>2, SubEntering
<1>3. ASSUME Next,
             ~ \E c \in Conns : \/ ReaderStep(c)
                              \/ \E vp \in Viewports : Join(c, vp) \/ Viewport(c, vp)
      PROVE  UNCHANGED <<members, sub>>
  BY <1>3, NextCases DEF Emit, CastStep, Write, Delivered, Publish, Relay
<1> QED BY <1>1, <1>2, <1>3 DEF vars

LEMMA InitEntering == Init => Entering
BY DEF Init, Entering, Connected

(* Between two messages a joined connection is in the board's room and in   *)
(* those of all its zones, whatever joins and viewports came before, and a   *)
(* closed one in none: InZoneRooms for every number of zones.                *)
THEOREM AlwaysInZoneRooms == Spec => []InZoneRooms
<1>1. HubTypeOK /\ Parted /\ Entering => InZoneRooms
  BY DEF HubTypeOK, Parted, Entering, InZoneRooms
<1> QED BY <1>1, InitTypeOK, NextType, InitParted, NextParted, InitEntering, NextEntering, PTL
        DEF Spec

-----------------------------------------------------------------------------
(* A broadcast reaches the room.                                             *)

(* What a connection is owed was sent to a room it is in. *)
OwedInRoom == \A c \in Conns : \A m \in owed[c] : c \in members[m.room]

Owing == OwedInRoom /\ ReachesRoom

LEMMA SubOwing ==
  ASSUME HubTypeOK, Owing, NEW c \in Conns,
         \/ \E vp \in Viewports : Join(c, vp) \/ Viewport(c, vp)
         \/ ReaderStep(c)
  PROVE  Owing'
<1>0. /\ members \in [Rooms -> SUBSET Conns] /\ owed \in [Conns -> SUBSET Frame]
      /\ \A d \in Conns : \A m \in owed[d] : m.room \in Rooms
  BY FrameFields DEF HubTypeOK
<1>1. UNCHANGED <<cast, wire, lost>>
  BY DEF Join, Viewport, ReaderStep, LeaveRoom, JoinRoom, Subscribed, Unregister, Close
<1>2. ASSUME \A d \in Conns : /\ owed'[d] \subseteq owed[d]
                             /\ \A m \in owed'[d] : d \in members'[m.room]
      PROVE  Owing'
  <2>1. OwedInRoom'
    BY <1>2 DEF OwedInRoom
  <2>2. \A d \in Conns, m \in Frame : UnderWay(m, d) => UnderWay(m, d)'
    BY <1>1 DEF UnderWay
  <2>3. ReachesRoom'
    BY <1>0, <1>2, <2>2 DEF Owing, ReachesRoom
  <2> QED BY <2>1, <2>3 DEF Owing
<1>3. ASSUME UNCHANGED <<members, owed>>
      PROVE  Owing'
  BY <1>2, <1>3 DEF Owing, OwedInRoom
<1>4. ASSUME NEW room \in Rooms, LeaveRoom(c, room)
      PROVE  Owing'
  <2>1. /\ \A d \in Conns : owed'[d] \subseteq owed[d]
        /\ \A m \in owed'[c] : m.room # room
        /\ \A q \in Rooms, d \in Conns :
             d # c \/ q # room => (d \in members'[q] <=> d \in members[q])
    BY <1>0, <1>4 DEF LeaveRoom
  <2> QED BY <1>0, <1>2, <2>1 DEF Owing, OwedInRoom
<1>5. ASSUME NEW room \in Rooms, JoinRoom(c, room)
      PROVE  Owing'
  <2>1. UNCHANGED owed /\ \A q \in Rooms : members[q] \subseteq members'[q]
    BY <1>0, <1>5 DEF JoinRoom
  <2> QED BY <1>0, <1>2, <2>1 DEF Owing, OwedInRoom
<1>6. CASE Unregister(c)
  <2>1. /\ owed'[c] = {} /\ \A d \in Conns \ {c} : owed'[d] = owed[d]
        /\ \A q \in Rooms : members'[q] = members[q] \ {c}
    BY <1>0, <1>6 DEF Unregister
  <2> QED BY <1>0, <1>2, <2>1 DEF Owing, OwedInRoom
<1>7. ASSUME NEW vp \in Viewports, Join(c, vp) \/ Viewport(c, vp)
      PROVE  UNCHANGED <<members, owed>>
  BY <1>7 DEF Join, Viewport
<1>8. CASE Subscribed(c) \/ Close(c)
  BY <1>3, <1>8 DEF Subscribed, Close
<1> QED BY <1>3, <1>4, <1>5, <1>6, <1>7, <1>8 DEF ReaderStep

LEMMA EmitOwing ==
  ASSUME HubTypeOK, Owing, NEW p \in Conns \cup Workers, NEW room \in Rooms,
         NEW skip \in BOOLEAN, cast[p].pc = "idle", Emit(p, room, skip)
  PROVE  Owing'
<1>0. PICK m : m = Made(p, room, skip)
  OBVIOUS
<1>1. m \in Frame /\ m # NoFrame /\ m.from = p /\ m.room = room /\ p \in Procs
  BY <1>0, MadeType, FrameFields DEF Procs
<1>2. /\ cast' = [cast EXCEPT ![p] = [pc |-> "deliver", m |-> m,
                                      left |-> Local(p, room) \ Skipped(m)]]
      /\ owed' = [c \in Conns |->
                    IF c \in members[room] \ Skipped(m) THEN owed[c] \cup {m} ELSE owed[c]]
      /\ UNCHANGED <<members, wire, lost>>
  BY <1>0 DEF Emit, Made
<1>3. /\ cast'[p].m = m /\ cast'[p].left = Local(p, room) \ Skipped(m)
      /\ \A q \in Procs \ {p} : cast'[q] = cast[q]
      /\ cast[p].m = NoFrame
      /\ UNCHANGED <<wire, lost>>
  BY <1>1, <1>2 DEF HubTypeOK
<1>4. ASSUME NEW c \in members[room] \ Skipped(m)
      PROVE  UnderWay(m, c)'
  <2>1. InstanceOf[p] = InstanceOf[c] => c \in cast'[p].left
    BY <1>1, <1>3 DEF Local, HubTypeOK
  <2> QED BY <1>1, <1>3, <2>1 DEF UnderWay
<1>5. ASSUME NEW c \in Conns, NEW f \in owed[c]
      PROVE  UnderWay(f, c)'
  <2>1. f \in Frame /\ UnderWay(f, c)
    BY DEF HubTypeOK, Owing, ReachesRoom
  <2>2. f # NoFrame /\ f.from \in Procs /\ Relays \subseteq Procs /\ p \notin Relays
    BY <2>1, FrameFields, HubAssumption DEF Procs
  <2>3. \A q \in Procs : cast[q].m = f => cast'[q] = cast[q]
    BY <1>3, <2>2
  <2> QED BY <1>3, <2>1, <2>2, <2>3 DEF UnderWay
<1>6. ReachesRoom'
  BY <1>2, <1>4, <1>5 DEF ReachesRoom
<1>7. OwedInRoom'
  BY <1>1, <1>2 DEF Owing, OwedInRoom
<1> QED BY <1>6, <1>7 DEF Owing

LEMMA WriteOwing ==
  ASSUME HubTypeOK, Owing, NEW p \in Procs, NEW c \in Conns, Write(p, c)
  PROVE  Owing'
<1>1. /\ \A q \in Procs : cast'[q].m = cast[q].m
      /\ \A q \in Procs, d \in Conns :
           d \in cast[q].left => d \in cast'[q].left \/ (q = p /\ d = c)
      /\ UNCHANGED <<members, wire, lost>>
  BY DEF Write, HubTypeOK, Delivery
<1>2. /\ owed'[c] = owed[c] \ {cast[p].m}
      /\ \A d \in Conns \ {c} : owed'[d] = owed[d]
  BY DEF Write, HubTypeOK
<1>3. ASSUME NEW d \in Conns, NEW f \in owed'[d]
      PROVE  f \in owed[d] /\ UnderWay(f, d)'
  <2>1. f \in owed[d] /\ (d = c => f # cast[p].m)
    BY <1>2
  <2>2. f \in Frame /\ UnderWay(f, d)
    BY <2>1 DEF HubTypeOK, Owing, ReachesRoom
  <2>3. f.from \in Procs /\ Relays \subseteq Procs
    BY <2>2, FrameFields DEF Procs
  <2>4. \A q \in Procs : cast[q].m = f /\ d \in cast[q].left =>
                          cast'[q].m = f /\ d \in cast'[q].left
    BY <1>1, <2>1
  <2> QED BY <1>1, <2>1, <2>2, <2>3, <2>4 DEF UnderWay
<1> QED BY <1>1, <1>3 DEF Owing, OwedInRoom, ReachesRoom

LEMMA DeliveredOwing ==
  ASSUME HubTypeOK, Owing, NEW p \in Procs, Delivered(p)
  PROVE  Owing'
<1>1. /\ cast[p].left = {}
      /\ p \notin Relays => cast'[p].m = cast[p].m
      /\ \A q \in Procs \ {p} : cast'[q] = cast[q]
      /\ UNCHANGED <<members, wire, lost, owed>>
  BY DEF Delivered, HubTypeOK, Delivery
<1>2. ASSUME NEW d \in Conns, NEW f \in owed[d]
      PROVE  UnderWay(f, d)'
  <2>1. f \in Frame /\ UnderWay(f, d)
    BY DEF HubTypeOK, Owing, ReachesRoom
  <2>2. f.from \in Procs \ Relays /\ Relays \subseteq Procs
    BY <2>1, FrameFields DEF Procs
  <2>3. \A q \in Procs : d \in cast[q].left => cast'[q] = cast[q]
    BY <1>1
  <2>4. cast[f.from].m = f => cast'[f.from].m = f
    BY <1>1, <2>2
  <2> QED BY <1>1, <2>1, <2>2, <2>3, <2>4 DEF UnderWay
<1> QED BY <1>1, <1>2 DEF Owing, OwedInRoom, ReachesRoom

LEMMA PublishOwing ==
  ASSUME HubTypeOK, Owing, NEW p \in Procs, Publish(p)
  PROVE  Owing'
<1> DEFINE m == cast[p].m
<1>1. m \in Frame /\ cast[p].left = {}
  BY HubAssumption DEF Publish, HubTypeOK, Delivery
<1>2. PICK reached \in SUBSET Relays :
        /\ wire' = [r \in Relays |-> IF r \in reached THEN Append(wire[r], m) ELSE wire[r]]
        /\ lost' = lost \cup {<<m, r>> : r \in Relays \ reached}
  BY DEF Publish
<1>3. /\ cast' = [cast EXCEPT ![p] = Idle]
      /\ UNCHANGED <<members, owed>>
  BY DEF Publish
<1>4. \A q \in Procs \ {p} : cast'[q] = cast[q]
  BY <1>3 DEF HubTypeOK
<1> HIDE DEF m
<1>5. \A r \in Relays : /\ Range(wire[r]) \subseteq Range(wire'[r])
                        /\ m \in Range(wire'[r]) \/ <<m, r>> \in lost'
  <2> SUFFICES ASSUME NEW r \in Relays
               PROVE  /\ Range(wire[r]) \subseteq Range(wire'[r])
                      /\ m \in Range(wire'[r]) \/ <<m, r>> \in lost'
    OBVIOUS
  <2>1. wire[r] \in Seq(Frame)
    BY DEF HubTypeOK
  <2>2. CASE r \in reached
    <3>1. wire'[r] = Append(wire[r], m)
      BY <1>2, <2>2
    <3> QED BY <1>1, <2>1, <3>1, RangeAppend
  <2>3. CASE r \notin reached
    BY <1>2, <2>3
  <2> QED BY <2>2, <2>3
<1>6. ASSUME NEW d \in Conns, NEW f \in owed[d]
      PROVE  UnderWay(f, d)'
  <2>1. f \in Frame /\ UnderWay(f, d)
    BY DEF HubTypeOK, Owing, ReachesRoom
  <2>2. f.from \in Procs \ Relays /\ Relays \subseteq Procs
    BY <2>1, FrameFields DEF Procs
  <2>3. \A q \in Procs : d \in cast[q].left => cast'[q] = cast[q]
    BY <1>1, <1>4
  <2>4. cast[f.from].m = f => cast'[f.from].m = f \/ f = m
    BY <1>4, <2>2 DEF m
  <2>5. PICK r \in Relays : InstanceOf[r] = InstanceOf[d]
    BY HubAssumption
  <2>6. lost \subseteq lost'
    BY <1>2
  <2> QED BY <1>5, <2>1, <2>2, <2>3, <2>4, <2>5, <2>6 DEF UnderWay
<1> QED BY <1>3, <1>6 DEF Owing, OwedInRoom, ReachesRoom

LEMMA RelayOwing ==
  ASSUME HubTypeOK, Owing, NEW r \in Relays, Relay(r)
  PROVE  Owing'
<1> DEFINE m == Head(wire[r])
<1>1. wire[r] \in Seq(Frame) /\ wire[r] # <<>> /\ r \in Procs
  BY DEF Relay, HubTypeOK, Procs
<1>2. m \in Frame /\ Range(wire[r]) = {m} \cup Range(Tail(wire[r]))
  BY <1>1, HeadTailDistinct
<1>3. /\ wire' = [wire EXCEPT ![r] = Tail(wire[r])]
      /\ IF InstanceOf[m.from] = InstanceOf[r] THEN UNCHANGED cast
         ELSE cast' = [cast EXCEPT ![r] = [pc |-> "deliver", m |-> m, left |-> Local(r, m.room)]]
      /\ UNCHANGED <<members, owed, lost>>
      /\ cast[r].pc = "idle"
  BY DEF Relay
<1> HIDE DEF m
<1>4. /\ Range(wire'[r]) = Range(Tail(wire[r]))
      /\ \A q \in Relays \ {r} : wire'[q] = wire[q]
      /\ \A q \in Procs \ {r} : cast'[q] = cast[q]
      /\ cast[r].left = {}
      /\ InstanceOf[m.from] # InstanceOf[r] => cast'[r].m = m /\ cast'[r].left = Local(r, m.room)
  <2>1. DOMAIN wire = Relays /\ DOMAIN cast = Procs /\ cast[r].left = {}
    BY <1>1, <1>3 DEF HubTypeOK
  <2>2. wire'[r] = Tail(wire[r]) /\ \A q \in Relays \ {r} : wire'[q] = wire[q]
    BY <1>3, <2>1
  <2> DEFINE k == [pc |-> "deliver", m |-> m, left |-> Local(r, m.room)]
  <2>3. k.m = m /\ k.left = Local(r, m.room) OBVIOUS
  <2>4. cast' = IF InstanceOf[m.from] = InstanceOf[r] THEN cast ELSE [cast EXCEPT ![r] = k]
    BY <1>3
  <2> HIDE DEF k
  <2>5. /\ \A q \in Procs \ {r} : cast'[q] = cast[q]
        /\ InstanceOf[m.from] # InstanceOf[r] => cast'[r] = k
    BY <1>1, <2>1, <2>4
  <2> QED BY <2>1, <2>2, <2>3, <2>5
<1>5. ASSUME NEW d \in Conns, NEW f \in owed[d]
      PROVE  UnderWay(f, d)'
  <2>1. f \in Frame /\ UnderWay(f, d) /\ d \in members[f.room]
    BY DEF HubTypeOK, Owing, OwedInRoom, ReachesRoom
  <2>2. f.from \in Procs \ Relays /\ Relays \subseteq Procs
    BY <2>1, FrameFields DEF Procs
  <2>3. cast'[f.from] = cast[f.from]
    BY <1>4, <2>2
  <2>4. CASE InstanceOf[f.from] = InstanceOf[d]
    BY <2>1, <2>3, <2>4 DEF UnderWay
  <2>5. CASE InstanceOf[f.from] # InstanceOf[d]
    <3>1. ASSUME NEW q \in Relays, InstanceOf[q] = InstanceOf[d],
                 \/ f \in Range(wire[q])
                 \/ cast[q].m = f /\ d \in cast[q].left
                 \/ <<f, q>> \in lost
          PROVE  \/ f \in Range(wire'[q])
                 \/ cast'[q].m = f /\ d \in cast'[q].left
                 \/ <<f, q>> \in lost'
      <4>1. CASE q # r
        BY <1>3, <1>4, <2>2, <3>1, <4>1
      <4>2. CASE q = r /\ f # m
        BY <1>2, <1>3, <1>4, <3>1, <4>2
      <4>3. CASE q = r /\ f = m
        BY <1>4, <2>1, <2>5, <3>1, <4>3 DEF Local
      <4> QED BY <4>1, <4>2, <4>3
    <3> QED BY <2>1, <2>3, <2>5, <3>1 DEF UnderWay
  <2> QED BY <2>4, <2>5
<1> QED BY <1>3, <1>5 DEF Owing, OwedInRoom, ReachesRoom

LEMMA NextOwing == HubTypeOK /\ Owing /\ [Next]_vars => Owing'
<1> SUFFICES ASSUME HubTypeOK, Owing, [Next]_vars
             PROVE  Owing'
  OBVIOUS
<1>1. CASE UNCHANGED vars
  BY <1>1 DEF vars, Owing, OwedInRoom, ReachesRoom, UnderWay
<1>2. ASSUME NEW p \in Procs, CastStep(p)
      PROVE  Owing'
  BY <1>2, WriteOwing, DeliveredOwing, PublishOwing DEF CastStep
<1>3. CASE Next
  BY <1>2, <1>3, NextCases, SubOwing, EmitOwing, RelayOwing
<1> QED BY <1>1, <1>3

LEMMA InitOwing == Init => Owing
BY DEF Init, Owing, OwedInRoom, ReachesRoom

(* A broadcast reaches whoever stays in its room, on whichever instance,     *)
(* unless Redis does not carry it: ReachesRoom for any cluster.              *)
THEOREM BroadcastReachesRoom == Spec => []ReachesRoom
<1>1. Owing => ReachesRoom
  BY DEF Owing
<1> QED BY <1>1, InitTypeOK, NextType, InitOwing, NextOwing, PTL DEF Spec

-----------------------------------------------------------------------------
(* A broadcast comes once.                                                   *)

(* A sender delivers broadcasts of its own, a relay those of other instances *)
(* only, which it never publishes.                                           *)
Sources ==
  /\ \A p \in Conns \cup Workers : cast[p].m # NoFrame => cast[p].m.from = p
  /\ \A r \in Relays :
       /\ cast[r].pc # "publish"
       /\ cast[r].m # NoFrame => InstanceOf[cast[r].m.from] # InstanceOf[r]

(* The numbers of all broadcasts there are. *)
Numbered ==
  /\ \A p \in Procs : cast[p].m # NoFrame => cast[p].m.n <= casts
  /\ \A r \in Relays : \A m \in Range(wire[r]) : m.n <= casts
  /\ \A c \in Conns : \A m \in written[c] : m.n <= casts

(* What its sender has not published yet is known on no other instance. *)
Unpublished ==
  \A p \in Conns \cup Workers : cast[p].m # NoFrame =>
    /\ \A r \in Relays : cast[p].m \notin Range(wire[r]) /\ cast[r].m # cast[p].m
    /\ \A c \in Conns : InstanceOf[c] # InstanceOf[p] => cast[p].m \notin written[c]

(* What a relay has not read yet is there once, and new to its instance. *)
Unread ==
  \A r \in Relays :
    /\ Distinct(wire[r])
    /\ cast[r].m \notin Range(wire[r])
    /\ \A m \in Range(wire[r]), c \in Conns :
         InstanceOf[c] = InstanceOf[r] /\ InstanceOf[m.from] # InstanceOf[r] => m \notin written[c]

(* Every broadcast has one place: with its sender, or, for each other        *)
(* instance, on the way to its relay, with it, or behind it.                 *)
Places == Sources /\ Numbered /\ Unpublished /\ Unread /\ OncePerConnection

LEMMA WireType ==
  ASSUME HubTypeOK, NEW r \in Relays
  PROVE  wire[r] \in Seq(Frame) /\ Range(wire[r]) \subseteq Frame /\ NoFrame \notin Range(wire[r])
<1>1. wire[r] \in Seq(Frame)
  BY DEF HubTypeOK
<1>2. Range(wire[r]) \subseteq Frame
  BY <1>1, LenProperties DEF Range
<1> QED BY <1>1, <1>2, FrameFields

LEMMA CastFacts ==
  ASSUME HubTypeOK, NEW p \in Procs
  PROVE  /\ cast[p].m # NoFrame => cast[p].m \in Frame
         /\ cast[p].m = NoFrame <=> cast[p].pc = "idle"
         /\ cast[p].pc # "deliver" => cast[p].left = {}
         /\ \A c \in cast[p].left : c \in Conns /\ InstanceOf[c] = InstanceOf[p]
BY DEF HubTypeOK, Delivery

(* Where only the history of written broadcasts may shrink, nothing is lost. *)
LEMMA SubPlaces ==
  ASSUME HubTypeOK, Places, UNCHANGED <<cast, wire, casts>>,
         \A c \in Conns : written'[c] \subseteq written[c]
  PROVE  Places'
<1>1. cast' = cast /\ wire' = wire /\ casts' = casts
  OBVIOUS
<1>2. Sources'
  BY <1>1 DEF Places, Sources
<1>3. Numbered'
  BY <1>1 DEF Places, Numbered
<1>4. Unpublished'
  BY <1>1 DEF Places, Unpublished
<1>5. Unread'
  BY <1>1 DEF Places, Unread
<1>6. OncePerConnection'
  <2>1. \A p \in Procs : cast[p].left \subseteq Conns
    BY CastFacts
  <2> QED BY <1>1, <2>1 DEF Places, OncePerConnection
<1> QED BY <1>2, <1>3, <1>4, <1>5, <1>6 DEF Places

LEMMA ReaderPlaces ==
  ASSUME HubTypeOK, Places, NEW c \in Conns,
         \/ \E vp \in Viewports : Join(c, vp) \/ Viewport(c, vp)
         \/ ReaderStep(c)
  PROVE  Places'
<1>1. UNCHANGED <<cast, wire, casts>>
  BY DEF Join, Viewport, ReaderStep, LeaveRoom, JoinRoom, Subscribed, Unregister, Close
<1>2. written' = written \/ written' = [written EXCEPT ![c] = {}]
  BY DEF Join, Viewport, ReaderStep, LeaveRoom, JoinRoom, Subscribed, Unregister, Close
<1>3. \A d \in Conns : written'[d] \subseteq written[d]
  BY <1>2 DEF HubTypeOK
<1> QED BY <1>1, <1>3, SubPlaces

LEMMA EmitPlaces ==
  ASSUME HubTypeOK, Places, NEW p \in Conns \cup Workers, NEW room \in Rooms,
         NEW skip \in BOOLEAN, cast[p].pc = "idle", Emit(p, room, skip)
  PROVE  Places'
<1>0. PICK m : m = Made(p, room, skip)
  OBVIOUS
<1>1. /\ m \in Frame /\ m # NoFrame /\ m.from = p /\ m.n = casts + 1 /\ casts \in Nat
      /\ p \in Procs /\ p \notin Relays /\ Relays \subseteq Procs /\ Conns \cup Workers \subseteq Procs
  BY <1>0, MadeType, FrameFields, HubAssumption DEF Procs, HubTypeOK
<1>2. /\ casts' = casts + 1
      /\ cast' = [cast EXCEPT ![p] = [pc |-> "deliver", m |-> m,
                                      left |-> Local(p, room) \ Skipped(m)]]
      /\ UNCHANGED <<wire, written>>
  BY <1>0 DEF Emit, Made
<1>3. /\ cast'[p].m = m /\ cast'[p].left = Local(p, room) \ Skipped(m)
      /\ \A q \in Procs \ {p} : cast'[q] = cast[q]
  BY <1>1, <1>2 DEF HubTypeOK
<1>4. \A f \in Frame : f.n <= casts => f # m /\ f.n <= casts'
  BY <1>1, <1>2, FrameFields
<1>5. /\ \A r \in Relays : Range(wire[r]) \subseteq Frame
      /\ \A c \in Conns : written[c] \subseteq Frame
      /\ \A q \in Procs : cast[q].m # NoFrame => cast[q].m \in Frame
  BY WireType, CastFacts DEF HubTypeOK
<1>6. /\ \A r \in Relays : m \notin Range(wire[r])
      /\ \A c \in Conns : m \notin written[c]
      /\ \A q \in Procs : cast[q].m # m
  BY <1>1, <1>4, <1>5 DEF Places, Numbered
<1>7. m.n <= casts'
  BY <1>1, <1>2
<1>8. Sources'
  BY <1>1, <1>3 DEF Places, Sources
<1>9. Numbered'
  BY <1>1, <1>2, <1>3, <1>4, <1>5, <1>7 DEF Places, Numbered
<1>10. Unpublished'
  BY <1>1, <1>2, <1>3, <1>6 DEF Places, Unpublished
<1>11. Unread'
  BY <1>1, <1>2, <1>3 DEF Places, Unread
<1>12. OncePerConnection'
  BY <1>1, <1>2, <1>3, <1>6 DEF Places, OncePerConnection, Local, HubTypeOK
<1> QED BY <1>8, <1>9, <1>10, <1>11, <1>12 DEF Places

LEMMA WritePlaces ==
  ASSUME HubTypeOK, Places, NEW p \in Procs, NEW c \in Conns, Write(p, c)
  PROVE  Places'
<1>0. PICK m : m = cast[p].m
  OBVIOUS
<1>1. /\ c \in cast[p].left /\ InstanceOf[c] = InstanceOf[p]
      /\ m \in Frame /\ m # NoFrame
      /\ Relays \subseteq Procs /\ Conns \cup Workers \subseteq Procs
      /\ \A q \in Procs : q \in Relays \/ q \in Conns \cup Workers
  BY <1>0, CastFacts DEF Write, Procs
<1>2. /\ \A q \in Procs : /\ cast'[q].m = cast[q].m /\ cast'[q].pc = cast[q].pc
                          /\ cast'[q].left \subseteq cast[q].left
      /\ c \notin cast'[p].left
      /\ UNCHANGED <<wire, casts>>
  BY DEF Write, HubTypeOK, Delivery
<1>3. /\ written'[c] = written[c] \cup {m}
      /\ \A d \in Conns \ {c} : written'[d] = written[d]
  BY <1>0 DEF Write, HubTypeOK
<1>4. /\ p \in Conns \cup Workers => m.from = p
      /\ p \in Relays => InstanceOf[m.from] # InstanceOf[p]
      /\ m.n <= casts
  BY <1>0, <1>1 DEF Places, Sources, Numbered
<1>5. Sources' /\ Numbered'
  BY <1>1, <1>2, <1>3, <1>4 DEF Places, Sources, Numbered
<1>6. ASSUME NEW q \in Conns \cup Workers, cast[q].m = m
      PROVE  q = p
  BY <1>0, <1>1, <1>4, <1>6 DEF Places, Sources, Unpublished
<1>7. Unpublished'
  <2>1. \A q \in Conns \cup Workers, d \in Conns :
          cast[q].m # NoFrame /\ InstanceOf[d] # InstanceOf[q] => cast[q].m \notin written'[d]
    BY <1>1, <1>3, <1>6 DEF Places, Unpublished
  <2> QED BY <1>1, <1>2, <2>1 DEF Places, Unpublished
<1>8. Unread'
  <2>1. ASSUME NEW r \in Relays, NEW f \in Range(wire[r]), NEW d \in Conns,
               InstanceOf[d] = InstanceOf[r], InstanceOf[f.from] # InstanceOf[r]
        PROVE  f \notin written'[d]
    <3>1. f \notin written[d]
      BY <2>1 DEF Places, Unread
    <3>2. CASE d = c /\ f = m
      <4>1. CASE p \in Relays
        <5>1. p = r
          BY <1>1, <2>1, <3>2, <4>1, HubAssumption
        <5> QED BY <1>0, <2>1, <3>2, <5>1 DEF Places, Unread
      <4>2. CASE p \in Conns \cup Workers
        BY <1>1, <1>4, <2>1, <3>2, <4>2
      <4> QED BY <1>1, <4>1, <4>2
    <3> QED BY <1>3, <3>1, <3>2
  <2> QED BY <1>1, <1>2, <2>1 DEF Places, Unread
<1>9. OncePerConnection'
  <2>1. ASSUME NEW q \in Procs, NEW d \in cast'[q].left
        PROVE  cast[q].m \notin written'[d]
    <3>1. d \in cast[q].left /\ d \in Conns /\ InstanceOf[d] = InstanceOf[q]
          /\ cast[q].m \notin written[d]
      BY <1>2, CastFacts DEF Places, OncePerConnection
    <3>2. CASE d = c /\ cast[q].m = m
      <4>1. q # p
        BY <1>2, <3>2
      <4>2. q \in Relays
        BY <1>1, <1>6, <3>2, <4>1
      <4>3. CASE p \in Relays
        BY <1>1, <3>1, <3>2, <4>1, <4>2, <4>3, HubAssumption
      <4>4. CASE p \in Conns \cup Workers
        BY <1>0, <1>1, <3>2, <4>2, <4>4 DEF Places, Unpublished
      <4> QED BY <1>1, <4>3, <4>4
    <3> QED BY <1>3, <3>1, <3>2
  <2> QED BY <1>2, <2>1 DEF Places, OncePerConnection
<1> QED BY <1>5, <1>7, <1>8, <1>9 DEF Places

(* Every step that ends a delivery, or begins to publish, leaves the other   *)
(* processes' deliveries alone.                                              *)
LEMMA DeliveredPlaces ==
  ASSUME HubTypeOK, Places, NEW p \in Procs, Delivered(p)
  PROVE  Places'
<1>1. /\ \A q \in Procs \ {p} : cast'[q] = cast[q]
      /\ cast'[p].left = {}
      /\ p \in Relays => cast'[p].m = NoFrame /\ cast'[p].pc = "idle"
      /\ p \notin Relays => cast'[p].m = cast[p].m
      /\ UNCHANGED <<wire, casts, written>>
  BY DEF Delivered, HubTypeOK, Delivery, Idle
<1>2. /\ Relays \subseteq Procs /\ Conns \cup Workers \subseteq Procs
      /\ Relays \cap (Conns \cup Workers) = {}
  BY HubAssumption DEF Procs
<1>3. \A r \in Relays : NoFrame \notin Range(wire[r])
  BY WireType
<1>4. Sources' /\ Numbered'
  BY <1>1, <1>2 DEF Places, Sources, Numbered
<1>5. Unpublished'
  BY <1>1, <1>2 DEF Places, Unpublished
<1>6. Unread'
  BY <1>1, <1>2, <1>3 DEF Places, Unread
<1>7. OncePerConnection'
  BY <1>1 DEF Places, OncePerConnection
<1> QED BY <1>4, <1>5, <1>6, <1>7 DEF Places

LEMMA PublishPlaces ==
  ASSUME HubTypeOK, Places, NEW p \in Procs, Publish(p)
  PROVE  Places'
<1>0. PICK m : m = cast[p].m
  OBVIOUS
<1>1. /\ p \in Conns \cup Workers /\ m \in Frame /\ m # NoFrame /\ m.from = p
      /\ Relays \subseteq Procs /\ Conns \cup Workers \subseteq Procs
      /\ Relays \cap (Conns \cup Workers) = {}
  <2>1. p \notin Relays
    BY DEF Publish, Places, Sources
  <2> QED BY <1>0, <2>1, CastFacts, HubAssumption DEF Publish, Places, Sources, Procs
<1>2. PICK reached \in SUBSET Relays :
        wire' = [r \in Relays |-> IF r \in reached THEN Append(wire[r], m) ELSE wire[r]]
  BY <1>0 DEF Publish
<1>3. /\ \A q \in Procs \ {p} : cast'[q] = cast[q]
      /\ cast'[p].m = NoFrame /\ cast'[p].left = {}
      /\ UNCHANGED <<casts, written>>
  BY DEF Publish, HubTypeOK, Idle
<1>4. m.n <= casts
  BY <1>0, <1>1 DEF Places, Numbered
<1>5. \A r \in Relays : m \notin Range(wire[r]) /\ cast[r].m # m
  BY <1>0, <1>1 DEF Places, Unpublished
<1>6. \A c \in Conns : InstanceOf[c] # InstanceOf[p] => m \notin written[c]
  BY <1>0, <1>1 DEF Places, Unpublished
<1>7. ASSUME NEW r \in Relays
      PROVE  Range(wire'[r]) \subseteq Range(wire[r]) \cup {m} /\ Distinct(wire'[r])
  <2>1. wire[r] \in Seq(Frame) /\ Distinct(wire[r]) /\ m \notin Range(wire[r])
    BY <1>5, WireType DEF Places, Unread
  <2>2. wire'[r] = Append(wire[r], m) \/ wire'[r] = wire[r]
    BY <1>2
  <2>3. Range(Append(wire[r], m)) = Range(wire[r]) \cup {m} /\ Distinct(Append(wire[r], m))
    BY <1>1, <2>1, RangeAppend, DistinctAppend
  <2> QED BY <2>1, <2>2, <2>3
<1>8. Sources' /\ Numbered'
  BY <1>1, <1>3, <1>4, <1>7 DEF Places, Sources, Numbered
<1>9. Unpublished'
  <2>1. \A q \in Conns \cup Workers : q # p /\ cast[q].m # NoFrame => cast[q].m # m
    BY <1>1 DEF Places, Sources
  <2> QED BY <1>1, <1>3, <1>7, <2>1 DEF Places, Unpublished
<1>10. Unread'
  <2>1. \A r \in Relays : cast'[r] = cast[r]
    BY <1>1, <1>3
  <2> QED BY <1>1, <1>3, <1>5, <1>6, <1>7, <2>1 DEF Places, Unread
<1>11. OncePerConnection'
  BY <1>3 DEF Places, OncePerConnection
<1> QED BY <1>8, <1>9, <1>10, <1>11 DEF Places

LEMMA RelayPlaces ==
  ASSUME HubTypeOK, Places, NEW r \in Relays, Relay(r)
  PROVE  Places'
<1>0. PICK m : m = Head(wire[r])
  OBVIOUS
<1>1. wire[r] \in Seq(Frame) /\ wire[r] # <<>> /\ Distinct(wire[r])
  BY WireType DEF Relay, Places, Unread
<1>2. /\ m \in Frame /\ Range(wire[r]) = {m} \cup Range(Tail(wire[r]))
      /\ Distinct(Tail(wire[r])) /\ m \notin Range(Tail(wire[r]))
  BY <1>0, <1>1, HeadTailDistinct
<1>3. /\ m # NoFrame /\ m.room \in Rooms /\ m.from \in Procs
      /\ Relays \subseteq Procs /\ Conns \cup Workers \subseteq Procs
      /\ Relays \cap (Conns \cup Workers) = {}
  BY <1>2, FrameFields, HubAssumption DEF Procs
<1>4. /\ wire' = [wire EXCEPT ![r] = Tail(wire[r])]
      /\ IF InstanceOf[m.from] = InstanceOf[r] THEN UNCHANGED cast
         ELSE cast' = [cast EXCEPT ![r] = [pc |-> "deliver", m |-> m, left |-> Local(r, m.room)]]
      /\ UNCHANGED <<casts, written>>
      /\ cast[r].pc = "idle"
  BY <1>0 DEF Relay
<1>5. /\ wire'[r] = Tail(wire[r])
      /\ \A q \in Relays \ {r} : wire'[q] = wire[q]
      /\ \A q \in Relays : Range(wire'[q]) \subseteq Range(wire[q]) /\ Distinct(wire'[q])
  BY <1>2, <1>4 DEF HubTypeOK, Places, Unread
<1>6. CASE InstanceOf[m.from] = InstanceOf[r]
  <2>1. cast' = cast
    BY <1>4, <1>6
  <2> QED BY <1>3, <1>4, <1>5, <2>1
          DEF Places, Sources, Numbered, Unpublished, Unread, OncePerConnection
<1>7. CASE InstanceOf[m.from] # InstanceOf[r]
  <2>1. /\ cast'[r].m = m /\ cast'[r].pc = "deliver" /\ cast'[r].left = Local(r, m.room)
        /\ \A q \in Procs \ {r} : cast'[q] = cast[q]
    BY <1>3, <1>4, <1>7 DEF HubTypeOK
  <2>2. m \in Range(wire[r])
    BY <1>2
  <2>3. Sources' /\ Numbered'
    <3>1. Sources'
      BY <1>3, <1>7, <2>1 DEF Places, Sources
    <3>2. m.n <= casts
      BY <2>2 DEF Places, Numbered
    <3>3. Numbered'
      BY <1>4, <1>5, <2>1, <3>2 DEF Places, Numbered
    <3> QED BY <3>1, <3>3
  <2>4. Unpublished'
    <3> SUFFICES ASSUME NEW q \in Conns \cup Workers, cast[q].m # NoFrame
                 PROVE  /\ \A s \in Relays : cast[q].m \notin Range(wire'[s]) /\ cast'[s].m # cast[q].m
                        /\ \A c \in Conns : InstanceOf[c] # InstanceOf[q] => cast[q].m \notin written[c]
      BY <1>3, <1>4, <2>1 DEF Unpublished
    <3>1. /\ \A s \in Relays : cast[q].m \notin Range(wire[s]) /\ cast[s].m # cast[q].m
          /\ \A c \in Conns : InstanceOf[c] # InstanceOf[q] => cast[q].m \notin written[c]
      BY DEF Places, Unpublished
    <3>2. cast[q].m # m
      BY <2>2, <3>1
    <3> QED BY <1>3, <1>5, <2>1, <3>1, <3>2
  <2>5. Unread'
    BY <1>2, <1>3, <1>4, <1>5, <2>1 DEF Places, Unread
  <2>6. ASSUME NEW c \in Local(r, m.room)
        PROVE  m \notin written[c] /\ c \notin Skipped(m)
    <3>1. c \in Conns /\ InstanceOf[c] = InstanceOf[r]
      BY <1>3 DEF Local, HubTypeOK
    <3> QED BY <1>7, <2>2, <3>1 DEF Places, Unread, Skipped
  <2>7. OncePerConnection'
    BY <1>4, <2>1, <2>6 DEF Places, OncePerConnection, Skipped
  <2> QED BY <2>3, <2>4, <2>5, <2>7 DEF Places
<1> QED BY <1>6, <1>7

LEMMA NextPlaces == HubTypeOK /\ Places /\ [Next]_vars => Places'
<1> SUFFICES ASSUME HubTypeOK, Places, [Next]_vars
             PROVE  Places'
  OBVIOUS
<1>1. CASE UNCHANGED vars
  BY <1>1, SubPlaces DEF vars
<1>2. ASSUME NEW p \in Procs, CastStep(p)
      PROVE  Places'
  BY <1>2, WritePlaces, DeliveredPlaces, PublishPlaces DEF CastStep
<1>3. CASE Next
  BY <1>2, <1>3, NextCases, ReaderPlaces, EmitPlaces, RelayPlaces
<1> QED BY <1>1, <1>3

LEMMA InitPlaces == Init => Places
<1> SUFFICES ASSUME Init
             PROVE  Places
  OBVIOUS
<1>1. \A r \in Relays : wire[r] = <<>>
  BY DEF Init
<1>2. Range(<<>>) = {} /\ Distinct(<<>>)
  BY EmptySeq DEF Range, Distinct
<1>3. /\ \A p \in Procs : cast[p].m = NoFrame /\ cast[p].pc = "idle" /\ cast[p].left = {}
      /\ \A c \in Conns : written[c] = {}
      /\ Relays \subseteq Procs /\ Conns \cup Workers \subseteq Procs
  BY DEF Init, Idle, Procs
<1> QED BY <1>1, <1>2, <1>3
        DEF Places, Sources, Numbered, Unpublished, Unread, OncePerConnection

(* Nobody gets a broadcast twice, or one that skips them, although relays    *)
(* know of no exception and every instance hears its own: OncePerConnection  *)
(* for any cluster, however many broadcasts are under way.                   *)
THEOREM DeliveredOnce == Spec => []OncePerConnection
<1>1. Places => OncePerConnection
  BY DEF Places
<1> QED BY <1>1, InitTypeOK, NextType, InitPlaces, NextPlaces, PTL DEF Spec
=============================================================================
