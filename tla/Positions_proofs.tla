-------------------------- MODULE Positions_proofs --------------------------
(***************************************************************************)
(* Theorems about Positions, for any widgets, instances and connections.   *)
(* The type invariant says what the debounce map names; with it neither    *)
(* LatestNotDropped nor SentNotForgotten needs a strengthening of its own. *)
(***************************************************************************)
EXTENDS Positions, SequenceTheorems, TLAPS

-----------------------------------------------------------------------------
(* What the broker's queue and the consumers' inboxes do to the set of their  *)
(* messages.                                                                 *)

LEMMA RangeAppend ==
  ASSUME NEW S, NEW s \in Seq(S), NEW e \in S
  PROVE  Range(Append(s, e)) = Range(s) \cup {e}
<1>1. /\ Append(s, e) \in Seq(S)
      /\ Len(Append(s, e)) = Len(s) + 1
      /\ \A i \in 1..Len(s) : Append(s, e)[i] = s[i]
      /\ Append(s, e)[Len(s) + 1] = e
  BY AppendProperties
<1>2. /\ Len(s) \in Nat
      /\ DOMAIN s = 1..Len(s)
      /\ DOMAIN Append(s, e) = 1..(Len(s) + 1)
  BY <1>1, LenProperties
<1>3. 1..(Len(s) + 1) = 1..Len(s) \cup {Len(s) + 1}
  BY <1>2
<1> QED BY <1>1, <1>2, <1>3 DEF Range

LEMMA RangeHeadTail ==
  ASSUME NEW S, NEW s \in Seq(S), s # <<>>
  PROVE  Range(s) = {Head(s)} \cup Range(Tail(s))
<1>1. /\ Tail(s) \in Seq(S)
      /\ Len(Tail(s)) = Len(s) - 1
      /\ \A i \in 1..Len(Tail(s)) : Tail(s)[i] = s[i + 1]
  BY HeadTailProperties
<1>2. /\ Len(s) \in Nat \ {0} /\ DOMAIN s = 1..Len(s)
      /\ DOMAIN Tail(s) = 1..(Len(s) - 1)
      /\ Head(s) = s[1]
  BY <1>1, LenProperties, EmptySeq
<1>3. \A i \in 1..Len(s) : i = 1 \/ (i - 1 \in 1..(Len(s) - 1) /\ s[i] = Tail(s)[i - 1])
  BY <1>1, <1>2
<1>4. \A i \in 1..(Len(s) - 1) : i + 1 \in 1..Len(s)
  BY <1>2
<1>5. Range(s) \subseteq {Head(s)} \cup Range(Tail(s))
  <2> SUFFICES ASSUME NEW i \in 1..Len(s)
               PROVE  s[i] \in {Head(s)} \cup Range(Tail(s))
    BY <1>2 DEF Range
  <2>1. CASE i = 1
    BY <1>2, <2>1
  <2>2. CASE i - 1 \in 1..(Len(s) - 1) /\ s[i] = Tail(s)[i - 1]
    BY <1>2, <2>2 DEF Range
  <2> QED BY <1>3, <2>1, <2>2
<1>6. {Head(s)} \cup Range(Tail(s)) \subseteq Range(s)
  BY <1>1, <1>2, <1>4 DEF Range
<1> QED BY <1>5, <1>6

LEMMA RangeOne ==
  ASSUME NEW e
  PROVE  Range(<<e>>) = {e}
<1>1. DOMAIN <<e>> = {1} /\ <<e>>[1] = e OBVIOUS
<1> QED BY <1>1 DEF Range

LEMMA RangeEmpty == Range(<<>>) = {}
BY DEF Range

-----------------------------------------------------------------------------
(* Types.                                                                    *)

LEMMA MsgFields ==
  ASSUME NEW m \in Msg
  PROVE  m.w \in Widgets /\ m.x \in Nat /\ m # NoMsg
BY PositionsAssumption DEF Msg

LEMMA InitTypeOK == Init => PositionsTypeOK
BY PositionsAssumption, EmptySeq DEF Init, PositionsTypeOK, NoCall, Msg

(* The parts of the type invariant that a step of a connection changes. *)
CallTyped ==
  /\ call' \in [Conns -> [pc : {"idle", "publish", "debounce", "send", "place"},
                          m : Msg \cup {NoMsg}]]
  /\ \A c \in Conns : call'[c].pc # "idle" => call'[c].m \in Msg
MapTyped ==
  /\ debounce' \in [Instances -> [Widgets -> Msg \cup {NoMsg}]]
  /\ armed' \in [Instances -> SUBSET Msg]
  /\ \A i \in Instances, w \in Widgets : debounce'[i][w] # NoMsg =>
       debounce'[i][w].w = w /\ debounce'[i][w] \in armed'[i] \cup fired[i]
LatestTyped ==
  /\ latest' \in [Instances -> [Widgets -> [m : Msg \cup {NoMsg}, end : BOOLEAN]]]
  /\ \A i \in Instances, w \in Widgets : latest'[i][w].m # NoMsg => latest'[i][w].m.w = w

LEMMA GotoType ==
  ASSUME PositionsTypeOK, NEW c \in Conns, NEW m \in Msg,
         NEW pc \in {"publish", "debounce", "send", "place"}, Goto(c, pc, m)
  PROVE  CallTyped
BY DEF Goto, CallTyped, PositionsTypeOK

LEMMA DoneType ==
  ASSUME PositionsTypeOK, NEW c \in Conns, Done(c)
  PROVE  CallTyped
BY DEF Done, NoCall, CallTyped, PositionsTypeOK

(* A timer that is stopped is the one of its widget: those the map names for  *)
(* other widgets are still there.                                            *)
LEMMA MapType ==
  ASSUME PositionsTypeOK, NEW i \in Instances, NEW w \in Widgets, NEW d \in Msg \cup {NoMsg},
         NEW A \in SUBSET Msg, Stopped(i, w) \subseteq A,
         d # NoMsg => d.w = w /\ d \in A,
         debounce' = [debounce EXCEPT ![i][w] = d], armed' = [armed EXCEPT ![i] = A]
  PROVE  MapTyped
<1>1. /\ debounce' \in [Instances -> [Widgets -> Msg \cup {NoMsg}]] /\ debounce'[i][w] = d
      /\ \A j \in Instances, v \in Widgets : j # i \/ v # w => debounce'[j][v] = debounce[j][v]
  BY DEF PositionsTypeOK
<1>2. /\ armed' \in [Instances -> SUBSET Msg] /\ armed'[i] = A
      /\ \A j \in Instances : j # i => armed'[j] = armed[j]
  BY DEF PositionsTypeOK
<1>3. ASSUME NEW j \in Instances, NEW v \in Widgets, debounce'[j][v] # NoMsg
      PROVE  debounce'[j][v].w = v /\ debounce'[j][v] \in armed'[j] \cup fired[j]
  <2>1. CASE j = i /\ v = w BY <1>1, <1>2, <1>3, <2>1
  <2>2. CASE j # i BY <1>1, <1>2, <1>3, <2>2 DEF PositionsTypeOK
  <2>3. CASE j = i /\ v # w
    <3>1. /\ debounce'[i][v] = debounce[i][v] /\ debounce[i][v].w = v
          /\ debounce[i][v] \in armed[i] \cup fired[i]
      BY <1>1, <1>3, <2>3 DEF PositionsTypeOK
    <3>2. debounce[i][w] # NoMsg => debounce[i][w].w = w BY DEF PositionsTypeOK
    <3>3. debounce[i][v] # debounce[i][w] BY <1>3, <2>3, <3>1, <3>2
    <3> QED BY <1>2, <2>3, <3>1, <3>3 DEF Stopped
  <2> QED BY <2>1, <2>2, <2>3
<1> QED BY <1>1, <1>2, <1>3 DEF MapTyped

LEMMA GivenType ==
  ASSUME PositionsTypeOK, NEW i \in Instances, NEW m \in Msg, m.w \in Widgets,
         NEW end \in BOOLEAN, Given(i, m, end)
  PROVE  LatestTyped
<1> DEFINE r == [m |-> m, end |-> end]
<1>1. r \in [m : Msg \cup {NoMsg}, end : BOOLEAN] /\ r.m = m OBVIOUS
<1>2. latest' = [latest EXCEPT ![i][m.w] = r] BY DEF Given
<1> HIDE DEF r
<1>3. /\ latest' \in [Instances -> [Widgets -> [m : Msg \cup {NoMsg}, end : BOOLEAN]]]
      /\ latest'[i][m.w] = r
      /\ \A j \in Instances, v \in Widgets : j # i \/ v # m.w => latest'[j][v] = latest[j][v]
  BY <1>1, <1>2 DEF PositionsTypeOK
<1>4. \A j \in Instances, v \in Widgets : latest[j][v].m # NoMsg => latest[j][v].m.w = v
  BY DEF PositionsTypeOK
<1>5. ASSUME NEW j \in Instances, NEW v \in Widgets, latest'[j][v].m # NoMsg
      PROVE  latest'[j][v].m.w = v
  <2>1. CASE j = i /\ v = m.w BY <1>1, <1>3, <2>1
  <2>2. CASE j # i \/ v # m.w BY <1>3, <1>4, <1>5, <2>2
  <2> QED BY <2>1, <2>2
<1> QED BY <1>3, <1>5 DEF LatestTyped

LEMMA RestType ==
  ASSUME PositionsTypeOK, CallTyped, MapTyped, LatestTyped,
         UNCHANGED <<cache, row, fired, flushing, broker, consumer, moves, lost>>
  PROVE  PositionsTypeOK'
BY DEF CallTyped, MapTyped, LatestTyped, broker, consumer, PositionsTypeOK

(* Only an instance's timers change: their types, and that the map names    *)
(* timers that are still there, have to be shown anew.                       *)
LEMMA ConnType ==
  ASSUME PositionsTypeOK, NEW c \in Conns, ConnStep(c)
  PROVE  PositionsTypeOK'
<1> DEFINE i == InstanceOf[c]
           m == call[c].m
<1>1. i \in Instances
  BY PositionsAssumption
<1>2. call[c].pc # "idle" => m \in Msg /\ m.w \in Widgets /\ m.x \in Nat /\ m # NoMsg
  BY MsgFields DEF PositionsTypeOK
<1> DEFINE stop == Stopped(i, m.w)
<1>a. call[c].pc # "idle" => stop \subseteq Msg BY <1>1 DEF Stopped, PositionsTypeOK
<1>3. CASE Publish(c)
  <2>1. /\ call[c].pc = "publish" /\ armed' = [armed EXCEPT ![i] = stop]
        /\ debounce' = [debounce EXCEPT ![i][m.w] = NoMsg]
        /\ Given(i, m, TRUE) /\ Goto(c, "send", m)
        /\ UNCHANGED <<cache, row, fired, flushing, broker, consumer, moves, lost>>
    BY <1>3 DEF Publish
  <2> DEFINE w == m.w
  <2>4. w \in Widgets /\ stop \in SUBSET Msg /\ Stopped(i, w) \subseteq stop BY <1>2, <1>a, <2>1
  <2>5. armed' = [armed EXCEPT ![i] = stop] /\ debounce' = [debounce EXCEPT ![i][w] = NoMsg]
    BY <2>1
  <2>2. MapTyped
    <3> HIDE DEF i, m, stop, w
    <3> QED BY <1>1, <2>4, <2>5, MapType
  <2>3. LatestTyped /\ CallTyped BY <1>1, <1>2, <2>1, GivenType, GotoType
  <2> QED BY <2>1, <2>2, <2>3, RestType
<1>4. CASE PublishDebounced(c)
  <2>1. /\ call[c].pc = "debounce" /\ armed' = [armed EXCEPT ![i] = stop \cup {m}]
        /\ debounce' = [debounce EXCEPT ![i][m.w] = m]
        /\ Given(i, m, FALSE) /\ Done(c)
        /\ UNCHANGED <<cache, row, fired, flushing, broker, consumer, moves, lost>>
    BY <1>4 DEF PublishDebounced
  <2> DEFINE w == m.w  now == stop \cup {m}
  <2>2. /\ w \in Widgets /\ now \in SUBSET Msg /\ Stopped(i, w) \subseteq now
        /\ m \in Msg /\ m.w = w /\ m \in now
    BY <1>2, <1>a, <2>1
  <2>5. armed' = [armed EXCEPT ![i] = now] /\ debounce' = [debounce EXCEPT ![i][w] = m]
    BY <2>1
  <2>3. MapTyped
    <3>1. m.w = w BY <2>2
    <3> HIDE DEF i, m, now, w
    <3> QED BY <1>1, <2>2, <2>5, <3>1, MapType
  <2>4. LatestTyped /\ CallTyped BY <1>1, <1>2, <2>1, GivenType, DoneType
  <2> QED BY <2>1, <2>3, <2>4, RestType
<1>5. CASE SendNow(c)
  <2>1. CallTyped /\ UNCHANGED <<cache, row, timers, consumer, moves>>
    BY <1>5, DoneType DEF SendNow
  <2>2. queue' \in Seq(Msg) /\ sent' \subseteq Msg /\ lost' \subseteq Msg
        /\ up' \in [Instances -> BOOLEAN]
    <3>1. Append(queue, m) \in Seq(Msg) /\ sent \cup {m} \subseteq Msg /\ lost \cup {m} \subseteq Msg
      BY <1>2, <1>5, AppendProperties DEF SendNow, PositionsTypeOK
    <3>2. [up EXCEPT ![i] = TRUE] \in [Instances -> BOOLEAN] BY DEF PositionsTypeOK
    <3>3. /\ queue' \in {queue, Append(queue, m)} /\ sent' \in {sent, sent \cup {m}}
          /\ lost' \in {lost, lost \cup {m}} /\ up' \in {up, [up EXCEPT ![i] = TRUE]}
      BY <1>5 DEF SendNow, Send, broker
    <3> QED BY <3>1, <3>2, <3>3 DEF PositionsTypeOK
  <2> QED BY <2>1, <2>2 DEF CallTyped, timers, consumer, PositionsTypeOK
<1>6. CASE PlaceSave(c)
  BY <1>1, <1>2, <1>6 DEF PlaceSave, Save, Done, NoCall, timers, broker, consumer, PositionsTypeOK
<1> QED BY <1>3, <1>4, <1>5, <1>6 DEF ConnStep

LEMMA InputType ==
  ASSUME PositionsTypeOK, NEW c \in Conns, NEW w \in Widgets,
         Place(c, w) \/ \E end \in BOOLEAN : Move(c, w, end)
  PROVE  PositionsTypeOK'
<1> DEFINE m == [w |-> w, x |-> moves + 1]
<1>1. m \in Msg /\ m.w = w /\ m.x = moves + 1 /\ moves + 1 \in Nat
  BY DEF Msg, PositionsTypeOK
<1> HIDE DEF m
<1>2. CASE Place(c, w)
  BY <1>1, <1>2 DEF m, Place, Goto, timers, broker, consumer, PositionsTypeOK
<1>3. ASSUME NEW end \in BOOLEAN, Move(c, w, end)
      PROVE  PositionsTypeOK'
  <2>1. cache' \in [Widgets -> Nat]
    BY <1>1, <1>3 DEF m, Move, Save, PositionsTypeOK
  <2>2. call' = [call EXCEPT ![c] = [pc |-> IF end THEN "publish" ELSE "debounce", m |-> m]]
    BY <1>3 DEF m, Move, Goto
  <2>3. [pc |-> IF end THEN "publish" ELSE "debounce", m |-> m] \in
          [pc : {"idle", "publish", "debounce", "send", "place"}, m : Msg \cup {NoMsg}]
    BY <1>1
  <2>4. /\ call' \in [Conns -> [pc : {"idle", "publish", "debounce", "send", "place"},
                               m : Msg \cup {NoMsg}]]
        /\ \A d \in Conns : call'[d].pc # "idle" => call'[d].m \in Msg
    BY <1>1, <2>2, <2>3 DEF PositionsTypeOK
  <2> QED BY <1>1, <1>3, <2>1, <2>4 DEF Move, timers, broker, consumer, PositionsTypeOK
<1> QED BY <1>2, <1>3

LEMMA TimerType ==
  ASSUME PositionsTypeOK, NEW i \in Instances, TimerStep(i)
  PROVE  PositionsTypeOK'
<1>1. ASSUME NEW m \in armed[i], Fire(i, m)
      PROVE  PositionsTypeOK'
  BY <1>1 DEF Fire, broker, consumer, PositionsTypeOK
<1>2. ASSUME NEW m \in fired[i], Callback(i, m)
      PROVE  PositionsTypeOK'
  <2>1. m \in Msg /\ m.w \in Widgets
    BY MsgFields DEF PositionsTypeOK
  <2> QED BY <1>2, <2>1 DEF Callback, broker, consumer, PositionsTypeOK
<1>3. ASSUME NEW m \in flushing[i], SendLate(i, m)
      PROVE  PositionsTypeOK'
  <2>1. m \in Msg
    BY DEF PositionsTypeOK
  <2>2. Append(queue, m) \in Seq(Msg)
    BY <2>1, AppendProperties DEF PositionsTypeOK
  <2> QED BY <1>3, <2>1, <2>2 DEF SendLate, Send, broker, consumer, PositionsTypeOK
<1> QED BY <1>1, <1>2, <1>3 DEF TimerStep

(* What the broker takes back are messages. *)
LEMMA UnackedType ==
  ASSUME PositionsTypeOK, NEW i \in Instances
  PROVE  Unacked(i) \in Seq(Msg)
<1>1. <<>> \in Seq(Msg) /\ inbox[i] \in Seq(Msg)
  BY EmptySeq DEF PositionsTypeOK
<1>2. hand[i] # NoMsg => <<hand[i]>> \in Seq(Msg)
  BY DEF PositionsTypeOK
<1>3. \A s, t \in Seq(Msg) : s \o t \in Seq(Msg)
  BY ConcatProperties
<1> QED BY <1>1, <1>2, <1>3 DEF Unacked

LEMMA ConsumerType ==
  ASSUME PositionsTypeOK, NEW i \in Instances, ConsumerStep(i) \/ Drop(i)
  PROVE  PositionsTypeOK'
<1>1. CASE Deliver(i)
  <2>1. /\ Head(queue) \in Msg /\ Tail(queue) \in Seq(Msg)
        /\ Append(inbox[i], Head(queue)) \in Seq(Msg)
    BY <1>1, HeadTailProperties, AppendProperties DEF Deliver, PositionsTypeOK
  <2> QED BY <1>1, <2>1 DEF Deliver, timers, PositionsTypeOK
<1>2. CASE Take(i)
  <2>1. Head(inbox[i]) \in Msg /\ Tail(inbox[i]) \in Seq(Msg)
    BY <1>2, HeadTailProperties DEF Take, PositionsTypeOK
  <2> QED BY <1>2, <2>1 DEF Take, timers, broker, PositionsTypeOK
<1>3. CASE Store(i)
  <2>1. hand[i] \in Msg /\ hand[i].w \in Widgets /\ hand[i].x \in Nat
    BY <1>3, MsgFields DEF Store, PositionsTypeOK
  <2> QED BY <1>3, <2>1 DEF Store, timers, broker, PositionsTypeOK
<1>4. CASE Drop(i)
  BY <1>4 DEF Drop, timers, broker, PositionsTypeOK
<1> QED BY <1>1, <1>2, <1>3, <1>4 DEF ConsumerStep

LEMMA FaultType ==
  ASSUME PositionsTypeOK, NEW i \in Instances, Disconnect(i) \/ Restart(i)
  PROVE  PositionsTypeOK'
<1>1. Unacked(i) \o queue \in Seq(Msg) /\ <<>> \in Seq(Msg)
  BY UnackedType, ConcatProperties, EmptySeq DEF PositionsTypeOK
<1>2. CASE Disconnect(i)
  BY <1>1, <1>2 DEF Disconnect, timers, PositionsTypeOK
<1>3. CASE Restart(i)
  <2>1. InCalls(i) \subseteq Msg
    BY DEF InCalls, PositionsTypeOK
  <2> QED BY <1>1, <1>3, <2>1 DEF Restart, NoCall, PositionsTypeOK
<1> QED BY <1>2, <1>3

LEMMA NextType == PositionsTypeOK /\ [Next]_vars => PositionsTypeOK'
<1> SUFFICES ASSUME PositionsTypeOK, [Next]_vars
             PROVE  PositionsTypeOK'
  OBVIOUS
<1>1. ASSUME NEW w \in Widgets, Lapse(w)
      PROVE  PositionsTypeOK'
  BY <1>1 DEF Lapse, timers, broker, consumer, PositionsTypeOK
<1>2. CASE UNCHANGED vars
  BY <1>2 DEF vars, timers, broker, consumer, PositionsTypeOK
<1> QED BY <1>1, <1>2, ConnType, InputType, TimerType, ConsumerType, FaultType DEF Next

(* Every variable keeps its type, and the debounce map names, for every     *)
(* widget, a timer of that widget that may still be stopped or has just     *)
(* fired.                                                                    *)
THEOREM PositionsTypeCorrect == Spec => []PositionsTypeOK
BY InitTypeOK, NextType, PTL DEF Spec

-----------------------------------------------------------------------------
(* Where the last position an instance was given for a widget may be.       *)

Kept(i) == armed[i] \cup fired[i] \cup flushing[i] \cup InCalls(i) \cup sent \cup lost

(* An operation that drops none of the messages an instance keeps.          *)
LEMMA KeptSuffices ==
  ASSUME LatestNotDropped, latest' = latest,
         \A i \in Instances : Kept(i) \subseteq Kept(i)'
  PROVE  LatestNotDropped'
BY DEF LatestNotDropped, Kept

(* One call moves on: the messages of the others still have to be sent.     *)
LEMMA CallMoves ==
  ASSUME PositionsTypeOK, NEW c \in Conns, NEW r, call' = [call EXCEPT ![c] = r]
  PROVE  /\ \A j \in Instances : InCalls(j) \subseteq InCalls(j)' \cup {call[c].m}
         /\ call[c].pc # "send" => \A j \in Instances : InCalls(j) \subseteq InCalls(j)'
         /\ r.pc = "send" => r.m \in InCalls(InstanceOf[c])'
<1>1. call'[c] = r /\ \A d \in Conns \ {c} : call'[d] = call[d]
  BY DEF PositionsTypeOK
<1>2. ASSUME NEW j \in Instances, NEW d \in Conns, InstanceOf[d] = j, call[d].pc = "send"
      PROVE  d = c \/ call[d].m \in InCalls(j)'
  BY <1>1, <1>2 DEF InCalls
<1>3. ASSUME NEW j \in Instances
      PROVE  InCalls(j) = {call[d].m : d \in {e \in Conns : InstanceOf[e] = j /\ call[e].pc = "send"}}
  BY DEF InCalls
<1> QED BY <1>1, <1>2, <1>3 DEF InCalls

LEMMA ConnKept ==
  ASSUME PositionsTypeOK, LatestNotDropped, NEW c \in Conns, ConnStep(c)
  PROVE  LatestNotDropped'
<1> DEFINE i == InstanceOf[c]
           m == call[c].m
<1>1. i \in Instances
  BY PositionsAssumption
<1>2. call[c].pc # "idle" => m \in Msg /\ m.w \in Widgets /\ m # NoMsg
  BY MsgFields DEF PositionsTypeOK
<1>3. CASE Publish(c) \/ PublishDebounced(c)
  <2>1. /\ m \in Msg /\ m.w \in Widgets /\ m # NoMsg
        /\ call[c].pc # "send"
    BY <1>2, <1>3 DEF Publish, PublishDebounced
  <2>2. \A j \in Instances : InCalls(j) \subseteq InCalls(j)'
    BY <1>3, <2>1, CallMoves DEF Publish, PublishDebounced, Goto, Done
  <2>3. m \in armed'[i] \cup InCalls(i)'
    <3>1. CASE Publish(c)
      <4> DEFINE r == [pc |-> "send", m |-> m]
      <4>1. call' = [call EXCEPT ![c] = r] /\ r.pc = "send" /\ r.m = m
        BY <3>1 DEF Publish, Goto
      <4> HIDE DEF r
      <4> QED BY <4>1, CallMoves
    <3>2. CASE PublishDebounced(c)
      BY <1>1, <3>2 DEF PublishDebounced, PositionsTypeOK
    <3> QED BY <1>3, <3>1, <3>2
  <2>4. \A j \in Instances, w \in Widgets :
          \/ j = i /\ w = m.w
          \/ /\ latest'[j][w] = latest[j][w]
             /\ \A n \in armed[j] : n.w = w => n \in armed'[j]
    <3> SUFFICES ASSUME NEW j \in Instances, NEW w \in Widgets, ~(j = i /\ w = m.w)
                 PROVE  /\ latest'[j][w] = latest[j][w]
                        /\ \A n \in armed[j] : n.w = w => n \in armed'[j]
      OBVIOUS
    <3>1. latest'[j][w] = latest[j][w]
      <4>1. \E end \in BOOLEAN : Given(i, m, end) BY <1>3 DEF Publish, PublishDebounced
      <4>2. PICK end \in BOOLEAN : latest' = [latest EXCEPT ![i][m.w] = [m |-> m, end |-> end]]
        BY <4>1 DEF Given
      <4> DEFINE r == [m |-> m, end |-> end]
      <4> HIDE DEF r
      <4>3. latest' = [latest EXCEPT ![i][m.w] = r] BY <4>2 DEF r
      <4>4. latest \in [Instances -> [Widgets -> [m : Msg \cup {NoMsg}, end : BOOLEAN]]]
        BY DEF PositionsTypeOK
      <4> QED BY <1>1, <2>1, <4>3, <4>4
    <3>2. \/ armed'[j] = armed[j]
          \/ j = i /\ Stopped(i, m.w) \subseteq armed'[j]
      <4>1. armed \in [Instances -> SUBSET Msg]
        BY DEF PositionsTypeOK
      <4>2. CASE Publish(c)
        <5>1. armed' = [armed EXCEPT ![i] = Stopped(i, m.w)]
          BY <4>2 DEF Publish
        <5> QED BY <4>1, <5>1
      <4>3. CASE PublishDebounced(c)
        <5>1. armed' = [armed EXCEPT ![i] = Stopped(i, m.w) \cup {m}]
          BY <4>3 DEF PublishDebounced
        <5> QED BY <4>1, <5>1
      <4> QED BY <1>3, <4>2, <4>3
    <3>3. j = i => \A n \in armed[j] : n.w = w => n \in Stopped(i, m.w)
      <4>1. debounce[i][m.w] # NoMsg => debounce[i][m.w].w = m.w
        BY <1>1, <2>1 DEF PositionsTypeOK
      <4>2. armed[i] \subseteq Msg /\ NoMsg \notin Msg
        BY <1>1, PositionsAssumption DEF Msg, PositionsTypeOK
      <4> QED BY <4>1, <4>2 DEF Stopped
    <3> QED BY <3>1, <3>2, <3>3
  <2>5. latest'[i][m.w].m = m
    BY <1>1, <1>3, <2>1 DEF Publish, PublishDebounced, Given, PositionsTypeOK
  <2>6. UNCHANGED <<fired, flushing, sent, lost>>
    BY <1>3 DEF Publish, PublishDebounced, broker
  <2> SUFFICES ASSUME NEW j \in Instances, NEW w \in Widgets, latest'[j][w].m # NoMsg
               PROVE  latest'[j][w].m \in Kept(j)'
    BY DEF LatestNotDropped, Kept
  <2>7. CASE j = i /\ w = m.w
    BY <2>3, <2>5, <2>7 DEF Kept
  <2>8. CASE ~(j = i /\ w = m.w)
    <3>1. /\ latest[j][w].m = latest'[j][w].m
          /\ latest[j][w].m.w = w
          /\ latest[j][w].m \in Kept(j)
      BY <2>4, <2>8 DEF LatestNotDropped, Kept, PositionsTypeOK
    <3> QED BY <2>2, <2>4, <2>6, <2>8, <3>1 DEF Kept
  <2> QED BY <2>7, <2>8
<1>4. CASE SendNow(c)
  <2>1. /\ m \in sent' \cup lost'
        /\ sent \subseteq sent' /\ lost \subseteq lost'
        /\ UNCHANGED <<armed, fired, flushing, latest>>
    BY <1>4 DEF SendNow, Send, broker, timers
  <2>2. \A j \in Instances : InCalls(j) \subseteq InCalls(j)' \cup {m}
    BY <1>4, CallMoves DEF SendNow, Done
  <2> QED BY <2>1, <2>2, KeptSuffices DEF Kept
<1>5. CASE PlaceSave(c)
  <2>1. \A j \in Instances : InCalls(j) \subseteq InCalls(j)'
    BY <1>5, CallMoves DEF PlaceSave, Done
  <2> QED BY <1>5, <2>1, KeptSuffices DEF PlaceSave, timers, broker, Kept
<1> QED BY <1>3, <1>4, <1>5 DEF ConnStep

LEMMA InputKept ==
  ASSUME PositionsTypeOK, LatestNotDropped, NEW c \in Conns, NEW w \in Widgets,
         Place(c, w) \/ \E end \in BOOLEAN : Move(c, w, end)
  PROVE  LatestNotDropped'
<1>1. \A j \in Instances : InCalls(j) \subseteq InCalls(j)'
  <2>1. call[c].pc # "send" /\ \E r : call' = [call EXCEPT ![c] = r]
    BY DEF Place, Move, Goto
  <2> QED BY <2>1, CallMoves
<1> QED BY <1>1, KeptSuffices DEF Place, Move, timers, broker, Kept

LEMMA TimerKept ==
  ASSUME PositionsTypeOK, LatestNotDropped, NEW i \in Instances, TimerStep(i)
  PROVE  LatestNotDropped'
<1>1. ASSUME NEW m \in armed[i], Fire(i, m)
      PROVE  LatestNotDropped'
  BY <1>1, KeptSuffices DEF Fire, broker, InCalls, Kept, PositionsTypeOK
<1>2. ASSUME NEW m \in fired[i], Callback(i, m)
      PROVE  LatestNotDropped'
  BY <1>2, KeptSuffices DEF Callback, broker, InCalls, Kept, PositionsTypeOK
<1>3. ASSUME NEW m \in flushing[i], SendLate(i, m)
      PROVE  LatestNotDropped'
  BY <1>3, KeptSuffices DEF SendLate, Send, broker, InCalls, Kept, PositionsTypeOK
<1> QED BY <1>1, <1>2, <1>3 DEF TimerStep

LEMMA RestKept ==
  ASSUME PositionsTypeOK, LatestNotDropped, NEW i \in Instances,
         ConsumerStep(i) \/ Drop(i) \/ Disconnect(i)
  PROVE  LatestNotDropped'
<1>1. UNCHANGED <<call, armed, fired, flushing, latest, sent>> /\ lost \subseteq lost'
  BY DEF ConsumerStep, Deliver, Take, Store, Drop, Disconnect, timers, broker
<1> QED BY <1>1, KeptSuffices DEF InCalls, Kept

LEMMA RestartKept ==
  ASSUME PositionsTypeOK, LatestNotDropped, NEW i \in Instances, Restart(i)
  PROVE  LatestNotDropped'
<1>1. \A j \in Instances : j # i => Kept(j) \subseteq Kept(j)'
  <2> SUFFICES ASSUME NEW j \in Instances, j # i
               PROVE  Kept(j) \subseteq Kept(j)'
    OBVIOUS
  <2>1. InCalls(j) = InCalls(j)'
    BY DEF Restart, InCalls
  <2> QED BY <2>1 DEF Restart, Kept, PositionsTypeOK
<1>2. Kept(i) \subseteq Kept(i)'
  BY DEF Restart, Kept
<1> QED BY <1>1, <1>2, KeptSuffices DEF Restart

LEMMA NextKept == PositionsTypeOK /\ LatestNotDropped /\ [Next]_vars => LatestNotDropped'
<1> SUFFICES ASSUME PositionsTypeOK, LatestNotDropped, [Next]_vars
             PROVE  LatestNotDropped'
  OBVIOUS
<1>1. ASSUME NEW w \in Widgets, Lapse(w)
      PROVE  LatestNotDropped'
  BY <1>1 DEF Lapse, timers, broker, InCalls, LatestNotDropped
<1>2. CASE UNCHANGED vars
  BY <1>2 DEF vars, timers, broker, InCalls, LatestNotDropped
<1> QED BY <1>1, <1>2, ConnKept, InputKept, TimerKept, RestKept, RestartKept DEF Next

(* However the stops, firings and callbacks of an instance's timers          *)
(* interleave, the last position it was given for a widget is in a timer, in *)
(* a callback or in a call, has reached the broker, or was dropped by a      *)
(* fault.                                                                    *)
THEOREM DebounceKeepsLatest == Spec => []LatestNotDropped
<1>1. Init => LatestNotDropped
  BY DEF Init, LatestNotDropped
<1> QED BY <1>1, InitTypeOK, NextType, NextKept, PTL DEF Spec

-----------------------------------------------------------------------------
(* Where a message the broker has accepted may be.                          *)

Held(i) == IF consuming[i] THEN ({hand[i]} \ {NoMsg}) \cup Range(inbox[i]) ELSE {}

LEMMA UnackedRange ==
  ASSUME PositionsTypeOK, NEW i \in Instances
  PROVE  Range(Unacked(i)) = Held(i)
<1>1. inbox[i] \in Seq(Msg) /\ <<>> \in Seq(Msg)
  BY EmptySeq DEF PositionsTypeOK
<1>2. CASE ~consuming[i]
  BY <1>2, RangeEmpty DEF Unacked, Held
<1>3. CASE consuming[i] /\ hand[i] = NoMsg
  <2>1. Unacked(i) = <<>> \o inbox[i]
    BY <1>3 DEF Unacked
  <2> QED BY <1>1, <1>3, <2>1, RangeConcatenation, RangeEmpty DEF Held
<1>4. CASE consuming[i] /\ hand[i] # NoMsg
  <2>1. hand[i] \in Msg /\ <<hand[i]>> \in Seq(Msg)
    BY <1>4 DEF PositionsTypeOK
  <2>2. Unacked(i) = <<hand[i]>> \o inbox[i]
    BY <1>4 DEF Unacked
  <2>3. Range(<<hand[i]>>) = {hand[i]}
    BY RangeOne
  <2> DEFINE h == <<hand[i]>>
  <2>4. Range(Unacked(i)) = Range(h) \cup Range(inbox[i])
    <3>1. h \in Seq(Msg) /\ Unacked(i) = h \o inbox[i] BY <2>1, <2>2
    <3> HIDE DEF h
    <3>2. Range(h \o inbox[i]) = Range(h) \cup Range(inbox[i]) BY <1>1, <3>1, RangeConcatenation
    <3> QED BY <3>1, <3>2
  <2> QED BY <1>4, <2>3, <2>4 DEF Held
<1> QED BY <1>2, <1>3, <1>4

Known == Range(queue) \cup UNION {Held(i) : i \in Instances}

LEMMA ForgottenKnown ==
  ASSUME PositionsTypeOK
  PROVE  SentNotForgotten <=> sent \ (stored \cup lost) \subseteq Known
BY UnackedRange DEF SentNotForgotten, Known

LEMMA SendKnown ==
  ASSUME PositionsTypeOK, NEW i \in Instances, NEW m \in Msg, Send(i, m),
         sent \ (stored \cup lost) \subseteq Known,
         UNCHANGED consumer
  PROVE  sent' \ (stored' \cup lost') \subseteq Known'
<1>1. \A j \in Instances : Held(j)' = Held(j)
  BY DEF consumer, Held
<1>2. CASE sent' = sent /\ queue' = queue /\ lost \subseteq lost'
  BY <1>1, <1>2 DEF consumer, Known
<1>3. CASE sent' = sent \cup {m} /\ queue' = Append(queue, m) /\ lost' = lost
  <2>1. Range(queue') = Range(queue) \cup {m}
    BY <1>3, RangeAppend DEF PositionsTypeOK
  <2> QED BY <1>1, <1>3, <2>1 DEF consumer, Known
<1> QED BY <1>2, <1>3 DEF Send, broker

LEMMA DealKnown ==
  ASSUME PositionsTypeOK, NEW i \in Instances, ConsumerStep(i) \/ Drop(i),
         sent \ (stored \cup lost) \subseteq Known
  PROVE  sent' \ (stored' \cup lost') \subseteq Known'
<1>1. \A j \in Instances \ {i} : Held(j)' = Held(j)
  BY DEF ConsumerStep, Deliver, Take, Store, Drop, broker, Held, PositionsTypeOK
<1>2. CASE Deliver(i)
  <2>1. Range(queue) = {Head(queue)} \cup Range(queue') /\ Head(queue) \in Msg
    BY <1>2, RangeHeadTail, HeadTailProperties DEF Deliver, PositionsTypeOK
  <2>2. inbox'[i] = Append(inbox[i], Head(queue))
    BY <1>2 DEF Deliver, PositionsTypeOK
  <2>3. Range(inbox'[i]) = Range(inbox[i]) \cup {Head(queue)}
    BY <2>1, <2>2, RangeAppend DEF PositionsTypeOK
  <2>4. Held(i)' = Held(i) \cup {Head(queue)}
    BY <1>2, <2>3 DEF Deliver, Held
  <2> QED BY <1>1, <1>2, <2>1, <2>4 DEF Deliver, Known
<1>3. CASE Take(i)
  <2>1. Range(inbox[i]) = {Head(inbox[i])} \cup Range(Tail(inbox[i])) /\ Head(inbox[i]) \in Msg
    BY <1>3, RangeHeadTail, HeadTailProperties DEF Take, PositionsTypeOK
  <2>2. inbox'[i] = Tail(inbox[i]) /\ hand'[i] = Head(inbox[i]) /\ hand[i] = NoMsg
    BY <1>3 DEF Take, PositionsTypeOK
  <2>3. Held(i)' = Held(i)
    BY <1>3, <2>1, <2>2, PositionsAssumption DEF Take, Held, Msg
  <2> QED BY <1>1, <1>3, <2>3 DEF Take, broker, Known
<1>4. CASE Store(i) \/ Drop(i)
  <2>1. Held(i) \subseteq Held(i)' \cup {hand[i]}
    BY <1>4 DEF Store, Drop, Held, PositionsTypeOK
  <2>2. sent' = sent /\ queue' = queue
    BY <1>4 DEF Store, Drop, broker
  <2>3. stored' \cup lost' = stored \cup lost \cup {hand[i]}
    BY <1>4 DEF Store, Drop
  <2> QED BY <1>1, <2>1, <2>2, <2>3 DEF Known
<1> QED BY <1>2, <1>3, <1>4 DEF ConsumerStep

LEMMA RequeueKnown ==
  ASSUME PositionsTypeOK, NEW i \in Instances, Disconnect(i) \/ Restart(i),
         sent \ (stored \cup lost) \subseteq Known
  PROVE  sent' \ (stored' \cup lost') \subseteq Known'
<1>1. \A j \in Instances \ {i} : Held(j)' = Held(j)
  <2>1. ASSUME NEW j \in Instances \ {i}
        PROVE  consuming'[j] = consuming[j] /\ hand'[j] = hand[j] /\ inbox'[j] = inbox[j]
    <3>1. CASE Disconnect(i) BY <3>1 DEF Disconnect, PositionsTypeOK
    <3>2. CASE Restart(i) BY <3>2 DEF Restart, PositionsTypeOK
    <3> QED BY <3>1, <3>2
  <2> QED BY <2>1 DEF Held
<1>2. queue' = Unacked(i) \o queue
  BY DEF Disconnect, Restart
<1>3. Range(queue') = Held(i) \cup Range(queue)
  <2>1. Unacked(i) \in Seq(Msg) /\ queue \in Seq(Msg) BY UnackedType DEF PositionsTypeOK
  <2>2. Range(Unacked(i) \o queue) = Range(Unacked(i)) \cup Range(queue)
    BY <2>1, RangeConcatenation
  <2> QED BY <1>2, <2>2, UnackedRange
<1>4. sent' = sent /\ stored' = stored /\ lost \subseteq lost'
  BY DEF Disconnect, Restart
<1> QED BY <1>1, <1>3, <1>4 DEF Known

LEMMA NextKnown == PositionsTypeOK /\ SentNotForgotten /\ [Next]_vars => SentNotForgotten'
<1> SUFFICES ASSUME PositionsTypeOK, SentNotForgotten, [Next]_vars
             PROVE  SentNotForgotten'
  OBVIOUS
<1>1. sent \ (stored \cup lost) \subseteq Known
  BY ForgottenKnown
<1>2. PositionsTypeOK'
  BY NextType
<1>3. (sent \ (stored \cup lost) \subseteq Known)' => SentNotForgotten'
  BY <1>2, UnackedRange, ForgottenKnown, PTL
<1>4. CASE UNCHANGED <<queue, sent, consumer, lost>>
  BY <1>1, <1>3, <1>4 DEF consumer, Known, Held
<1>5. ASSUME NEW c \in Conns, SendNow(c)
      PROVE  SentNotForgotten'
  <2>1. InstanceOf[c] \in Instances /\ call[c].m \in Msg
    BY <1>5, PositionsAssumption DEF SendNow, PositionsTypeOK
  <2>2. Send(InstanceOf[c], call[c].m) /\ UNCHANGED consumer
    BY <1>5 DEF SendNow
  <2> QED BY <1>1, <1>3, <2>1, <2>2, SendKnown
<1>6. ASSUME NEW i \in Instances, NEW m \in flushing[i], SendLate(i, m)
      PROVE  SentNotForgotten'
  <2>1. m \in Msg
    BY DEF PositionsTypeOK
  <2>2. Send(i, m) /\ UNCHANGED consumer
    BY <1>6 DEF SendLate
  <2> QED BY <1>1, <1>3, <2>1, <2>2, SendKnown
<1>7. ASSUME NEW i \in Instances, ConsumerStep(i) \/ Drop(i)
      PROVE  SentNotForgotten'
  BY <1>1, <1>3, <1>7, DealKnown
<1>8. ASSUME NEW i \in Instances, Disconnect(i) \/ Restart(i)
      PROVE  SentNotForgotten'
  BY <1>1, <1>3, <1>8, RequeueKnown
<1>9. \/ UNCHANGED <<queue, sent, consumer, lost>>
      \/ \E c \in Conns : SendNow(c)
      \/ \E i \in Instances : \E m \in flushing[i] : SendLate(i, m)
      \/ \E i \in Instances : ConsumerStep(i) \/ Drop(i)
      \/ \E i \in Instances : Disconnect(i) \/ Restart(i)
  BY DEF Next, ConnStep, Publish, PublishDebounced, PlaceSave, Place, Move, Lapse,
         TimerStep, Fire, Callback, vars, broker, consumer
<1> QED BY <1>4, <1>5, <1>6, <1>7, <1>8, <1>9

(* The queue is durable end to end: a message the broker has accepted is     *)
(* queued or in the hands of a live consumer until it is stored, whatever    *)
(* connections break and instances stop, unless its update failed.           *)
THEOREM AcceptedNotForgotten == Spec => []SentNotForgotten
<1>1. Init => SentNotForgotten
  BY DEF Init, SentNotForgotten
<1> QED BY <1>1, InitTypeOK, NextType, NextKnown, PTL DEF Spec
=============================================================================
