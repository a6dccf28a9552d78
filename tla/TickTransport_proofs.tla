-------------------------- MODULE TickTransport_proofs --------------------------
(***************************************************************************)
(* Proofs about the transport, for every set of streams, every capacity of *)
(* the buffer and any number of events, connections and failures.          *)
(***************************************************************************)
EXTENDS TickTransport, TLAPS, SequenceTheorems

(***************************************************************************)
(* The lease.                                                              *)
(***************************************************************************)

LeaseInv ==
  /\ endpoint \in [Connections -> {"none", "active", "inactive", "closed"}]
  /\ opened \in Nat
  /\ \A c \in Connections : c > opened => endpoint[c] # "active"
  /\ OnlyLeaseHolderDispatches

(* Closing the endpoint of c, with or without its lease. *)
LEMMA ClosingKeepsLease ==
  ASSUME LeaseInv, NEW c \in Connections, UNCHANGED opened,
         endpoint' = [endpoint EXCEPT ![c] = "closed"], ReleaseLease(c)
  PROVE  LeaseInv'
BY DEF LeaseInv, OnlyLeaseHolderDispatches, ReleaseLease

LEMMA ConnectKeepsLease ==
  ASSUME LeaseInv, Connect
  PROVE  LeaseInv'
<1>1. opened' = opened + 1 /\ TakeLease(opened + 1)
  BY DEF Connect
<1>2. \A d \in Connections : endpoint'[d] = "active" => d = opened + 1
  BY <1>1 DEF LeaseInv, OnlyLeaseHolderDispatches, TakeLease
<1>3. endpoint' \in [Connections -> {"none", "active", "inactive", "closed"}]
  BY <1>1 DEF LeaseInv, TakeLease
<1> QED
  BY <1>1, <1>2, <1>3 DEF LeaseInv, OnlyLeaseHolderDispatches, TakeLease, Connections

LEMMA StepKeepsLease ==
  ASSUME LeaseInv, [Next]_vars
  PROVE  LeaseInv'
<1>1. CASE UNCHANGED <<opened, endpoint, lease>>
  BY <1>1 DEF LeaseInv, OnlyLeaseHolderDispatches
<1>2. CASE Connect
  BY <1>2, ConnectKeepsLease
<1>3. ASSUME NEW c \in Connections, RecordFails(c) \/ EndConnection(c)
      PROVE  LeaseInv'
  BY <1>3, ClosingKeepsLease DEF RecordFails, EndConnection
<1>4. CASE RestartBackend
  <2>1. \A c \in Connections : endpoint'[c] # "active" \/ endpoint[c] = "active"
    BY <1>4 DEF RestartBackend, LeaseInv
  <2> QED
    BY <1>4, <2>1 DEF RestartBackend, LeaseInv, OnlyLeaseHolderDispatches
<1>5. \/ UNCHANGED <<opened, endpoint, lease>> \/ Connect \/ RestartBackend
      \/ \E c \in Connections : RecordFails(c) \/ EndConnection(c)
  BY DEF Next, AddOn, Task, Enqueue, TakeNext, SendOk, SendFails, CutLine, DiscardFrame,
         ProcessFrame, Record, RunEngines, vars, wireVars
<1> QED
  BY <1>1, <1>2, <1>3, <1>4, <1>5

(* From the moment a newer connection is registered, nothing that arrives  *)
(* over an older one is dispatched.                                        *)
THEOREM OneConnectionFeeds == Spec => []OnlyLeaseHolderDispatches
<1>1. Init => LeaseInv
  BY DEF Init, LeaseInv, OnlyLeaseHolderDispatches
<1>2. LeaseInv => OnlyLeaseHolderDispatches
  BY DEF LeaseInv
<1> QED
  BY <1>1, <1>2, StepKeepsLease, PTL DEF Spec

(***************************************************************************)
(* The frames.  Whatever is buffered, in hand or on a wire is an event.    *)
(***************************************************************************)

Frames ==
  /\ counter \in [Streams -> Nat]
  /\ buffer \in Seq(Event)
  /\ sending \in Event \cup {NoEvent}
  /\ wire \in [Connections -> Seq(Event)]

LEMMA PutKeepsFrames ==
  ASSUME Frames, NEW s \in Streams, Enqueue(s)
  PROVE  Frames'
<1> DEFINE e == [stream |-> s, sequence |-> counter[s] + 1]
<1>1. counter[s] \in Nat /\ counter[s] < MaxSequence /\ MaxSequence \in Nat
  BY TransportAssumption DEF Frames, Enqueue, Buffer!Put
<1>2. e \in Event
  BY <1>1 DEF Event
<1>3. counter' \in [Streams -> Nat]
  BY <1>1 DEF Frames, Enqueue, Buffer!Put
<1> HIDE DEF e
<1>4. \/ buffer' = Append(buffer, e)
      \/ \E i \in DOMAIN buffer : buffer' = Append(Buffer!RemoveAt(buffer, i), e)
      \/ \E i \in DOMAIN buffer : buffer' = [buffer EXCEPT ![i] = e]
      \/ buffer' = buffer
  BY DEF Enqueue, Buffer!Put, e
<1>5. DOMAIN buffer = 1 .. Len(buffer) /\ Len(buffer) \in Nat
  BY LenProperties DEF Frames
<1>6. \A i \in DOMAIN buffer : Buffer!RemoveAt(buffer, i) \in Seq(Event)
  <2> TAKE i \in DOMAIN buffer
  <2>1. i \in 1 .. Len(buffer) /\ \A j \in 1 .. Len(buffer) : buffer[j] \in Event
    BY <1>5, ElementOfSeq DEF Frames
  <2>2. SubSeq(buffer, 1, i - 1) \in Seq(Event)
    BY <1>5, <2>1, SubSeqProperties
  <2>3. SubSeq(buffer, i + 1, Len(buffer)) \in Seq(Event)
    BY <1>5, <2>1, SubSeqProperties
  <2> QED
    BY <2>2, <2>3, ConcatProperties DEF Buffer!RemoveAt
<1>7. buffer' \in Seq(Event)
  <2>1. CASE buffer' = Append(buffer, e) \/ buffer' = buffer
    BY <1>2, <2>1, AppendProperties, SMTT(30) DEF Frames
  <2>2. ASSUME NEW i \in DOMAIN buffer, buffer' = Append(Buffer!RemoveAt(buffer, i), e)
        PROVE  buffer' \in Seq(Event)
    BY <1>2, <1>6, <2>2, AppendProperties
  <2>3. ASSUME NEW i \in DOMAIN buffer, buffer' = [buffer EXCEPT ![i] = e]
        PROVE  buffer' \in Seq(Event)
    BY <1>2, <1>5, <2>3, ExceptSeq DEF Frames
  <2> QED
    BY <1>4, <2>1, <2>2, <2>3
<1> QED
  BY <1>3, <1>7 DEF Frames, Enqueue, wireVars

(* A frame that is sent or read, or a line that loses its last frames. *)
LEMMA WireKeepsFrames ==
  ASSUME Frames,
         \/ SendOk \/ SendFails
         \/ \E c \in Connections :
              CutLine(c) \/ DiscardFrame(c) \/ ProcessFrame(c) \/ RecordFails(c) \/ EndConnection(c)
  PROVE  wire' \in [Connections -> Seq(Event)]
<1>1. ASSUME NEW c, OnWire(c, sending), sending # NoEvent
      PROVE  wire' \in [Connections -> Seq(Event)]
  <2>1. sending \in Event
    BY <1>1 DEF Frames
  <2>2. CASE c \in Connections
    <3>1. wire[c] \in Seq(Event)
      BY <2>2 DEF Frames
    <3>2. Append(wire[c], sending) \in Seq(Event)
      BY <2>1, <3>1, AppendProperties
    <3> QED
      BY <1>1, <3>2 DEF OnWire, Frames
  <2>3. CASE c \notin Connections
    BY <1>1, <2>3 DEF OnWire, Frames
  <2> QED
    BY <2>2, <2>3
<1>2. CASE SendOk \/ SendFails
  BY <1>1, <1>2 DEF SendOk, SendFails, Frames
<1>3. ASSUME NEW c \in Connections, CutLine(c)
      PROVE  wire' \in [Connections -> Seq(Event)]
  <2>1. wire[c] \in Seq(Event) /\ Len(wire[c]) \in Nat
    BY LenProperties DEF Frames
  <2>2. PICK n \in 0 .. Len(wire[c]) : wire' = [wire EXCEPT ![c] = SubSeq(wire[c], 1, n)]
    BY <1>3 DEF CutLine
  <2>3. \A i \in 1 .. n : wire[c][i] \in Event
    BY <2>1, ElementOfSeq
  <2>4. SubSeq(wire[c], 1, n) \in Seq(Event)
    BY <2>1, <2>3, SubSeqProperties
  <2> QED
    BY <2>2, <2>4 DEF Frames
<1>4. ASSUME NEW c \in Connections, DiscardFrame(c) \/ ProcessFrame(c)
      PROVE  wire' \in [Connections -> Seq(Event)]
  <2>1. wire[c] \in Seq(Event) /\ wire[c] # <<>> /\ wire' = [wire EXCEPT ![c] = Tail(wire[c])]
    BY <1>4 DEF DiscardFrame, ProcessFrame, Frames
  <2>2. Tail(wire[c]) \in Seq(Event)
    BY <2>1, HeadTailProperties
  <2> QED
    BY <2>1, <2>2 DEF Frames
<1>5. ASSUME NEW c \in Connections, RecordFails(c) \/ EndConnection(c)
      PROVE  wire' \in [Connections -> Seq(Event)]
  <2>1. <<>> \in Seq(Event)
    BY EmptySeq
  <2> QED
    BY <1>5, <2>1 DEF RecordFails, EndConnection, Frames
<1> QED
  BY <1>2, <1>3, <1>4, <1>5

LEMMA StepKeepsFrames ==
  ASSUME Frames, [Next]_vars
  PROVE  Frames'
<1>1. ASSUME NEW s \in Streams, Enqueue(s)
      PROVE  Frames'
  BY <1>1, PutKeepsFrames
<1>2. CASE TakeNext
  <2>1. Head(buffer) \in Event /\ Tail(buffer) \in Seq(Event)
    BY <1>2, HeadTailProperties DEF TakeNext, Buffer!Take, Frames
  <2> QED
    BY <1>2, <2>1 DEF TakeNext, Buffer!Take, Frames, wireVars
<1>3. CASE \/ SendOk \/ SendFails
           \/ \E c \in Connections : CutLine(c) \/ DiscardFrame(c) \/ ProcessFrame(c)
                                     \/ RecordFails(c) \/ EndConnection(c)
  <2>1. /\ counter' = counter /\ buffer' = buffer
        /\ sending' \in {sending, NoEvent}
    BY <1>3 DEF SendOk, SendFails, CutLine, DiscardFrame, ProcessFrame, RecordFails,
               EndConnection, addonVars
  <2> QED
    BY <1>3, <2>1, WireKeepsFrames DEF Frames
<1>4. CASE RestartBackend
  <2>1. wire' \in [Connections -> Seq(Event)]
    BY <1>4, EmptySeq DEF RestartBackend
  <2> QED
    BY <1>4, <2>1 DEF RestartBackend, Frames, addonVars
<1>5. CASE UNCHANGED <<counter, buffer, sending, wire>>
  BY <1>5 DEF Frames
<1>6. ASSUME NEW c \in Connections, Record(c) \/ RunEngines(c)
      PROVE  UNCHANGED <<counter, buffer, sending, wire>>
  BY <1>6 DEF Record, RunEngines, addonVars, wireVars
<1>7. Connect => UNCHANGED <<counter, buffer, sending, wire>>
  BY DEF Connect
<1>8. UNCHANGED vars => UNCHANGED <<counter, buffer, sending, wire>>
  BY DEF vars, addonVars, wireVars
<1> QED
  BY <1>1, <1>2, <1>3, <1>4, <1>5, <1>6, <1>7, <1>8 DEF Next, AddOn, Task

(***************************************************************************)
(* The intake: what the tasks have admitted since the backend's last start. *)
(***************************************************************************)

Gap == [stream : Streams, gap_from : Nat, gap_to : Nat]

Work == [stage : {"idle", "recording", "recorded"}, event : Event \cup {NoEvent},
         gap : Gap \cup {NoGap}]

(* A busy task has an event, recorded once its row is written, and no two  *)
(* tasks have the same; a gap it carries ends at this event.               *)
TasksKept ==
  /\ handler \in [Connections -> Work]
  /\ \A c \in BusyConnections :
       /\ handler[c].event \in Event
       /\ handler[c].stage = "recorded" => handler[c].event \in ticks
       /\ handler[c].gap # NoGap =>
            handler[c].event = [stream |-> handler[c].gap.stream,
                                sequence |-> handler[c].gap.gap_to]
       /\ \A d \in BusyConnections : handler[c].event = handler[d].event => c = d

(* The high-water mark of a stream was admitted, and nothing above it. *)
MarksKept ==
  /\ highest \in [Streams -> Nat]
  /\ admitted \subseteq Event /\ Pending \subseteq admitted
  /\ \A e \in admitted : e.sequence <= highest[e.stream]
  /\ \A s \in Streams : highest[s] # 0 => [stream |-> s, sequence |-> highest[s]] \in admitted

Intake ==
  /\ Frames
  /\ restarts \in Nat
  /\ gaps \subseteq Gap
  /\ applied \in Seq(Event)
  /\ TasksKept
  /\ MarksKept
  /\ LossesReported
  /\ GapsAnnounced

Missed == UNION {[stream : {g.stream}, sequence : Missing(g)] : g \in gaps}

(* The decision of evaluate. *)
LEMMA Decision ==
  ASSUME NEW prev \in Nat, NEW n \in Nat \ {0}
  PROVE  /\ Accepted(Outcome(prev, n)) <=> n > prev
         /\ Outcome(prev, n) = "gap" <=> prev # 0 /\ n > prev + 1
BY DEF Outcome, Accepted, NotSeen

LEMMA AppliedGrows ==
  ASSUME applied \in Seq(Event), NEW e \in Event, applied' = Append(applied, e)
  PROVE  applied' \in Seq(Event) /\ Applied' = Applied \cup {e}
<1>1. /\ applied' \in Seq(Event) /\ Len(applied) \in Nat /\ Len(applied') = Len(applied) + 1
      /\ \A i \in 1 .. Len(applied) : applied'[i] = applied[i]
      /\ applied'[Len(applied) + 1] = e
      /\ DOMAIN applied = 1 .. Len(applied) /\ DOMAIN applied' = 1 .. Len(applied')
  BY AppendProperties, LenProperties
<1>2. DOMAIN applied' = DOMAIN applied \cup {Len(applied) + 1}
  BY <1>1
<1> QED
  BY <1>1, <1>2 DEF Applied

LEMMA InitIntake == Init => Intake /\ Ingest!Init
<1> SUFFICES ASSUME Init PROVE Intake /\ Ingest!Init
  OBVIOUS
<1>1. Frames
  BY EmptySeq DEF Init, Buffer!Init, Frames
<1>2. BusyConnections = {} /\ Pending = {}
  BY DEF Init, BusyConnections, Pending, Idle
<1>3. TasksKept
  BY <1>2 DEF TasksKept, Init, Idle, Work
<1>4. admitted = {} /\ MarksKept
  BY <1>2 DEF MarksKept, Init, NotSeen
<1>5. LossesReported /\ GapsAnnounced /\ restarts \in Nat /\ gaps \subseteq Gap
  BY <1>2 DEF Init, LossesReported, GapsAnnounced
<1>6. applied \in Seq(Event) /\ Applied = {}
  BY EmptySeq DEF Init, Applied
<1>7. Ingest!Init
  BY <1>2, <1>6 DEF Init, Ingest!Init, NotSeen
<1> QED
  BY <1>1, <1>3, <1>4, <1>5, <1>6, <1>7 DEF Intake

(* Steps that admit nothing and finish nothing. *)
LEMMA OtherKept ==
  ASSUME Intake, Frames',
         UNCHANGED <<handler, highest, gaps, admitted, ticks, failed, announced, applied,
                     restarts>>
  PROVE  Intake' /\ UNCHANGED Ingest!vars
<1>1. BusyConnections' = BusyConnections /\ Pending' = Pending /\ Applied' = Applied
  BY DEF BusyConnections, Pending, Applied
<1>2. TasksKept' /\ MarksKept'
  BY <1>1 DEF Intake, TasksKept, MarksKept
<1>3. LossesReported' /\ GapsAnnounced'
  BY <1>1 DEF Intake, LossesReported, GapsAnnounced
<1> QED
  BY <1>1, <1>2, <1>3 DEF Intake, Ingest!vars

(* A frame that is not accepted, or one that is admitted: the losses below *)
(* it are exactly what the gap of its outcome reports.                     *)
LEMMA ProcessKept ==
  ASSUME Intake, Frames', NEW c \in Connections, ProcessFrame(c)
  PROVE  Intake' /\ (Ingest!Next \/ UNCHANGED Ingest!vars)
<1>1. PICK e \in Event : e = Head(wire[c])
  BY HeadTailProperties DEF Intake, Frames, ProcessFrame
<1>2. PICK s \in Streams, n \in 1 .. MaxSequence : e = [stream |-> s, sequence |-> n]
  BY DEF Event
<1>3. PICK prev \in Nat : prev = highest[s]
  BY DEF Intake, MarksKept
<1>4. n \in Nat \ {0}
  BY TransportAssumption
<1>5. PICK outcome : outcome = Outcome(prev, n)
  OBVIOUS
<1>6. PICK gap \in Gap : gap = StreamGap(s, prev, n)
  BY <1>4 DEF StreamGap, Gap
<1>7. /\ handler[c] = Idle
      /\ highest' = IF Accepted(outcome) THEN [highest EXCEPT ![s] = n] ELSE highest
      /\ gaps' = IF outcome = "gap" THEN gaps \cup {gap} ELSE gaps
      /\ admitted' = IF Accepted(outcome) THEN admitted \cup {e} ELSE admitted
      /\ handler' = IF Accepted(outcome)
                    THEN [handler EXCEPT ![c] =
                            Busy("recording", e, IF outcome = "gap" THEN gap ELSE NoGap)]
                    ELSE handler
      /\ UNCHANGED <<ticks, applied, announced, failed, restarts>>
  <2>1. e.stream = s /\ e.sequence = n
    BY <1>2
  <2>2. /\ outcome = Outcome(highest[e.stream], e.sequence)
        /\ gap = StreamGap(e.stream, highest[e.stream], e.sequence)
    BY <1>3, <1>5, <1>6, <2>1
  <2>3. handler[c] = Idle /\ UNCHANGED <<ticks, applied, announced, failed, restarts>>
    BY DEF ProcessFrame, storeVars
  <2>4. highest' = IF Accepted(outcome) THEN [highest EXCEPT ![s] = n] ELSE highest
    BY <1>1, <2>1, <2>2 DEF ProcessFrame
  <2>7. admitted' = IF Accepted(outcome) THEN admitted \cup {e} ELSE admitted
    BY <1>1, <2>2 DEF ProcessFrame
  <2>5. gaps' = IF outcome = "gap" THEN gaps \cup {gap} ELSE gaps
    BY <1>1, <2>2 DEF ProcessFrame
  <2>6. handler' = IF Accepted(outcome)
                   THEN [handler EXCEPT ![c] =
                           Busy("recording", e, IF outcome = "gap" THEN gap ELSE NoGap)]
                   ELSE handler
    BY <1>1, <2>2 DEF ProcessFrame
  <2> QED
    BY <2>3, <2>4, <2>5, <2>6, <2>7
<1>8. (Accepted(outcome) <=> n > prev) /\ (outcome = "gap" <=> prev # 0 /\ n > prev + 1)
  BY <1>4, <1>5, Decision
<1>9. CASE ~Accepted(outcome)
  <2>1. UNCHANGED <<handler, highest, gaps, admitted, ticks, failed, announced, applied,
                    restarts>>
    BY <1>7, <1>9 DEF Accepted
  <2> QED
    BY <2>1, OtherKept
<1>10. CASE Accepted(outcome)
  <2>1. n > prev
    BY <1>8, <1>10
  <2>2. PICK g \in Gap \cup {NoGap} : g = IF outcome = "gap" THEN gap ELSE NoGap
    OBVIOUS
  <2>3. /\ handler' = [handler EXCEPT ![c] = Busy("recording", e, g)]
        /\ highest' = [highest EXCEPT ![s] = n]
        /\ highest \in [Streams -> Nat] /\ handler \in [Connections -> Work]
    BY <1>7, <1>10, <2>2 DEF Intake, MarksKept, TasksKept
  <2>4. PICK w : w = Busy("recording", e, g)
    OBVIOUS
  <2>5. /\ w \in Work /\ w.stage = "recording" /\ w.event = e /\ w.gap = g
        /\ handler'[c] = w /\ \A d \in Connections \ {c} : handler'[d] = handler[d]
        /\ handler' \in [Connections -> Work]
    BY <2>3, <2>4 DEF Busy, Work
  <2>6. c \notin BusyConnections /\ BusyConnections' = BusyConnections \cup {c}
    BY <1>7, <2>5 DEF BusyConnections, Idle
  <2>7. Pending' = Pending \cup {e} /\ admitted' = admitted \cup {e}
    <3>1. Pending' = Pending \cup {e}
      BY <2>5, <2>6 DEF Pending, BusyConnections
    <3> QED
      BY <1>7, <1>10, <3>1
  <2>8. /\ \A t \in admitted : t \in Event /\ t.sequence <= highest[t.stream]
        /\ prev # 0 => [stream |-> s, sequence |-> prev] \in admitted
        /\ Pending \subseteq admitted
    BY <1>3 DEF Intake, MarksKept
  <2>9. \A t \in admitted : t.stream = s => t.sequence < n /\ t.sequence \in 1 .. prev
    BY <1>3, <2>1, <2>8 DEF Event
  <2>10. e \notin admitted
    BY <1>2, <2>9
  <2>11. TasksKept'
    <3>1. \A d \in BusyConnections' :
            /\ handler'[d].event \in Event
            /\ handler'[d].stage = "recorded" => handler'[d].event \in ticks'
            /\ handler'[d].gap # NoGap =>
                 handler'[d].event = [stream |-> handler'[d].gap.stream,
                                      sequence |-> handler'[d].gap.gap_to]
      <4> TAKE d \in BusyConnections'
      <4>1. CASE d = c
        BY <1>2, <1>6, <2>2, <2>5, <4>1 DEF StreamGap
      <4>2. CASE d # c
        BY <1>7, <2>5, <2>6, <4>2 DEF Intake, TasksKept, BusyConnections
      <4> QED
        BY <4>1, <4>2
    <3>2. \A d \in BusyConnections : handler[d].event \in admitted
      BY <2>8 DEF Pending
    <3>3. \A d, f \in BusyConnections' : handler'[d].event = handler'[f].event => d = f
      <4> TAKE d, f \in BusyConnections'
      <4>1. d = c \/ (d \in BusyConnections /\ handler'[d] = handler[d])
        BY <2>5, <2>6 DEF BusyConnections
      <4>2. f = c \/ (f \in BusyConnections /\ handler'[f] = handler[f])
        BY <2>5, <2>6 DEF BusyConnections
      <4>3. handler'[c].event \notin admitted
        BY <2>5, <2>10
      <4> QED
        BY <3>2, <4>1, <4>2, <4>3 DEF Intake, TasksKept
    <3> QED
      BY <2>5, <3>1, <3>3 DEF TasksKept
  <2>12. MarksKept'
    <3>1. highest' \in [Streams -> Nat] /\ highest'[s] = n
          /\ \A t \in Streams \ {s} : highest'[t] = highest[t]
      BY <1>4, <2>3
    <3>2. admitted' \subseteq Event
      BY <2>7, <2>8
    <3>3. \A t \in admitted' : t.sequence <= highest'[t.stream]
      <4> TAKE t \in admitted'
      <4>1. CASE t = e
        BY <1>2, <1>4, <3>1, <4>1
      <4>2. CASE t \in admitted /\ t.stream = s
        BY <1>4, <2>9, <3>1, <4>2
      <4>3. CASE t \in admitted /\ t.stream # s
        BY <2>8, <3>1, <4>3 DEF Event
      <4> QED
        BY <2>7, <4>1, <4>2, <4>3
    <3>4. \A t \in Streams : highest'[t] # 0 => [stream |-> t, sequence |-> highest'[t]] \in admitted'
      BY <1>2, <2>7, <3>1 DEF Intake, MarksKept
    <3>5. Pending' \subseteq admitted'
      BY <2>7, <2>8
    <3> QED
      BY <3>1, <3>2, <3>3, <3>4, <3>5 DEF MarksKept
  <2>13. \A m \in prev + 1 .. n - 1 :
           prev # 0 => \E h \in gaps' : h.stream = s /\ m \in Missing(h)
    <3> SUFFICES ASSUME NEW m \in prev + 1 .. n - 1, prev # 0
                 PROVE  \E h \in gaps' : h.stream = s /\ m \in Missing(h)
      OBVIOUS
    <3>1. outcome = "gap" /\ gap \in gaps'
      BY <1>4, <1>7, <1>8
    <3> QED
      BY <1>6, <3>1 DEF StreamGap, Missing
  <2>14. LossesReported'
    <3> SUFFICES ASSUME NEW first \in admitted', NEW last \in admitted', first.stream = last.stream,
                        NEW m \in first.sequence .. last.sequence
                 PROVE  \/ [stream |-> first.stream, sequence |-> m] \in admitted'
                        \/ \E h \in gaps' : h.stream = first.stream /\ m \in Missing(h)
      BY DEF LossesReported
    <3>1. ASSUME NEW a \in admitted, NEW b \in admitted, a.stream = b.stream,
                 NEW k \in a.sequence .. b.sequence
          PROVE  \/ [stream |-> a.stream, sequence |-> k] \in admitted'
                 \/ \E h \in gaps' : h.stream = a.stream /\ k \in Missing(h)
      <4>1. \/ [stream |-> a.stream, sequence |-> k] \in admitted
            \/ \E h \in gaps : h.stream = a.stream /\ k \in Missing(h)
        BY <3>1 DEF Intake, LossesReported
      <4> QED
        BY <1>7, <2>7, <4>1
    <3>2. CASE first \in admitted /\ last \in admitted
      BY <3>1, <3>2
    <3>3. CASE first = e
      <4>1. last = e
        BY <1>2, <1>4, <2>7, <2>9, <3>3
      <4> QED
        BY <1>2, <1>4, <2>7, <3>3, <4>1
    <3>4. CASE first \in admitted /\ last = e
      <4>1. first.stream = s /\ first.sequence \in 1 .. prev /\ prev # 0 /\ m \in Nat /\ m <= n
            /\ first.sequence <= m
        BY <1>2, <1>3, <1>4, <2>9, <3>4
      <4>2. CASE m <= prev
        <5>1. PICK top \in admitted : top = [stream |-> s, sequence |-> prev]
          BY <2>8, <4>1
        <5>2. m \in first.sequence .. top.sequence /\ first.stream = top.stream
          BY <1>3, <4>1, <4>2, <5>1
        <5> QED
          BY <3>1, <3>4, <5>2
      <4>3. CASE m \in prev + 1 .. n - 1
        BY <2>13, <4>1, <4>3
      <4>4. CASE m = n
        BY <1>2, <2>7, <4>1, <4>4
      <4> QED
        BY <1>3, <1>4, <4>1, <4>2, <4>3, <4>4
    <3> QED
      BY <2>7, <3>2, <3>3, <3>4
  <2>15. GapsAnnounced'
    <3> SUFFICES ASSUME NEW h \in gaps'
                 PROVE  \/ h \in announced
                        \/ \E d \in BusyConnections' : handler'[d].gap = h
                        \/ [stream |-> h.stream, sequence |-> h.gap_to] \in failed
      BY <1>7 DEF GapsAnnounced
    <3>1. CASE h \in gaps
      BY <2>5, <2>6, <3>1 DEF Intake, GapsAnnounced, BusyConnections
    <3>2. CASE h \notin gaps
      BY <1>7, <2>2, <2>5, <2>6, <3>2
    <3> QED
      BY <3>1, <3>2
  <2>16. Intake'
    BY <1>7, <2>11, <2>12, <2>14, <2>15 DEF Intake
  <2>17. Ingest!Admit(s, n)
    <3>1. n > highest[s] /\ highest' = [highest EXCEPT ![s] = n]
          /\ Pending' = Pending \cup {[stream |-> s, sequence |-> n]}
      BY <1>2, <1>3, <2>1, <2>3, <2>7
    <3>2. Applied' = Applied /\ failed' = failed
      BY <1>7 DEF Applied
    <3>3. CASE prev # 0 /\ n > prev + 1
      <4>1. gaps' = gaps \cup {gap}
        BY <1>7, <1>8, <3>3
      <4>2. [stream : {gap.stream}, sequence : Missing(gap)]
              = [stream : {s}, sequence : prev + 1 .. n - 1]
        BY <1>6 DEF StreamGap, Missing
      <4>3. Missed' = Missed \cup [stream : {s}, sequence : prev + 1 .. n - 1]
        BY <4>1, <4>2 DEF Missed
      <4> QED
        BY <1>3, <3>1, <3>2, <3>3, <4>3 DEF Ingest!Admit, Ingest!Skipped, Missed
    <3>4. CASE ~(prev # 0 /\ n > prev + 1)
      <4>1. gaps' = gaps
        BY <1>7, <1>8, <3>4
      <4>2. Ingest!Skipped(s, n) = {}
        <5>1. prev # 0 => prev + 1 .. n - 1 = {}
          BY <1>3, <1>4, <3>4
        <5>2. prev # 0 => [stream : {s}, sequence : prev + 1 .. n - 1] = {}
          BY <5>1
        <5> QED
          BY <1>3, <5>2 DEF Ingest!Skipped
      <4>3. Missed' = Missed
        BY <4>1 DEF Missed
      <4> QED
        BY <3>1, <3>2, <4>2, <4>3 DEF Ingest!Admit, Missed
    <3> QED
      BY <3>3, <3>4
  <2> QED
    BY <2>16, <2>17 DEF Ingest!Next
<1> QED
  BY <1>9, <1>10

-----------------------------------------------------------------------------

(* A task whose row is written. *)
LEMMA RecordKept ==
  ASSUME Intake, Frames', NEW c \in Connections, Record(c)
  PROVE  Intake' /\ UNCHANGED Ingest!vars
<1>1. PICK e \in Event : e = handler[c].event
  BY DEF Intake, TasksKept, BusyConnections, Record
<1>2. PICK w : w = [handler[c] EXCEPT !.stage = "recorded"]
  OBVIOUS
<1>3. /\ handler' = [handler EXCEPT ![c] = w] /\ ticks' = ticks \cup {e}
      /\ UNCHANGED <<highest, gaps, admitted, failed, announced, applied, restarts>>
      /\ c \in BusyConnections
  BY <1>1, <1>2 DEF Record, validatorVars, BusyConnections
<1>4. w \in Work /\ w.stage = "recorded" /\ w.event = e /\ w.gap = handler[c].gap
  <2>1. handler[c] \in Work
    BY DEF Intake, TasksKept
  <2> QED
    BY <1>1, <1>2, <2>1 DEF Work
<1>5. /\ handler' \in [Connections -> Work] /\ handler'[c] = w
      /\ \A d \in Connections \ {c} : handler'[d] = handler[d]
  BY <1>3, <1>4 DEF Intake, TasksKept
<1>6. BusyConnections' = BusyConnections
  BY <1>3, <1>4, <1>5 DEF BusyConnections
<1>7. \A d \in Connections : handler'[d].event = handler[d].event /\ handler'[d].gap = handler[d].gap
  BY <1>1, <1>4, <1>5
<1>8. Pending' = Pending /\ e \in Pending
  BY <1>1, <1>3, <1>6, <1>7 DEF Pending, BusyConnections
<1>9. admitted' = admitted
  BY <1>3
<1>10. TasksKept'
  <2>1. \A d \in BusyConnections' : handler'[d].stage = "recorded" => handler'[d].event \in ticks'
    BY <1>3, <1>4, <1>5, <1>6 DEF Intake, TasksKept, BusyConnections
  <2>2. \A d \in BusyConnections :
          /\ d \in Connections /\ handler[d].event \in Event
          /\ handler[d].gap # NoGap =>
               handler[d].event = [stream |-> handler[d].gap.stream,
                                   sequence |-> handler[d].gap.gap_to]
          /\ \A f \in BusyConnections : handler[d].event = handler[f].event => d = f
    BY DEF Intake, TasksKept, BusyConnections
  <2>3. \A d \in BusyConnections' :
          /\ handler'[d].event \in Event
          /\ handler'[d].gap # NoGap =>
               handler'[d].event = [stream |-> handler'[d].gap.stream,
                                    sequence |-> handler'[d].gap.gap_to]
    BY <1>6, <1>7, <2>2
  <2>4. \A d, f \in BusyConnections' : handler'[d].event = handler'[f].event => d = f
    <3> TAKE d, f \in BusyConnections'
    <3>1. d \in BusyConnections /\ f \in BusyConnections
      BY <1>6
    <3>2. handler'[d].event = handler[d].event /\ handler'[f].event = handler[f].event
      BY <1>7, <2>2, <3>1
    <3> QED
      BY <2>2, <3>1, <3>2
  <2> QED
    BY <1>5, <2>1, <2>3, <2>4 DEF TasksKept
<1>11. MarksKept'
  BY <1>3, <1>8, <1>9 DEF Intake, MarksKept
<1>12. LossesReported'
  BY <1>3, <1>9 DEF Intake, LossesReported
<1>13. GapsAnnounced'
  <2> SUFFICES ASSUME NEW g \in gaps
               PROVE  \/ g \in announced
                      \/ \E d \in BusyConnections' : handler'[d].gap = g
                      \/ [stream |-> g.stream, sequence |-> g.gap_to] \in failed
    BY <1>3 DEF GapsAnnounced
  <2>1. ASSUME NEW d \in BusyConnections, handler[d].gap = g
        PROVE  \E f \in BusyConnections' : handler'[f].gap = g
    BY <1>6, <1>7, <2>1 DEF BusyConnections
  <2> QED
    BY <2>1 DEF Intake, GapsAnnounced
<1>14. Applied' = Applied
  BY <1>3 DEF Applied
<1> QED
  BY <1>3, <1>8, <1>10, <1>11, <1>12, <1>13, <1>14 DEF Intake, Ingest!vars

(* A task that ends leaves the others and what was admitted as they are;   *)
(* its event is a row or counts as failed, its gap is announced or ends    *)
(* at a failed event.                                                      *)
LEMMA EndedKept ==
  ASSUME Intake, Frames', NEW c \in BusyConnections, handler' = [handler EXCEPT ![c] = Idle],
         UNCHANGED <<highest, gaps, admitted, ticks, restarts>>, applied' \in Seq(Event),
         failed \subseteq failed', failed' \subseteq failed \cup {handler[c].event},
         announced \subseteq announced',
         handler[c].event \in ticks \cup failed',
         handler[c].gap # NoGap =>
           handler[c].gap \in announced' \/ handler[c].event \in failed'
  PROVE  Intake' /\ Pending' = Pending \ {handler[c].event} /\ handler[c].event \in Pending
<1>1. /\ c \in Connections /\ handler'[c] = Idle /\ Idle \in Work
      /\ \A d \in Connections \ {c} : handler'[d] = handler[d]
      /\ handler' \in [Connections -> Work]
  BY DEF Intake, TasksKept, BusyConnections, Idle, Work
<1>2. BusyConnections' = BusyConnections \ {c}
  BY <1>1 DEF BusyConnections, Idle
<1>3. \A d \in BusyConnections' : handler'[d] = handler[d] /\ d \in BusyConnections /\ d # c
  BY <1>1, <1>2 DEF BusyConnections
<1>4. Pending' = Pending \ {handler[c].event} /\ handler[c].event \in Pending
  <2>1. \A d \in BusyConnections : handler[d].event = handler[c].event => d = c
    BY DEF Intake, TasksKept
  <2> QED
    BY <1>2, <1>3, <2>1 DEF Pending
<1>5. admitted' = admitted
  OBVIOUS
<1>6. TasksKept'
  BY <1>1, <1>3 DEF Intake, TasksKept
<1>7. MarksKept'
  BY <1>4, <1>5 DEF Intake, MarksKept
<1>8. LossesReported'
  BY <1>5 DEF Intake, LossesReported
<1>9. GapsAnnounced'
  <2> SUFFICES ASSUME NEW h \in gaps
               PROVE  \/ h \in announced'
                      \/ \E d \in BusyConnections' : handler'[d].gap = h
                      \/ [stream |-> h.stream, sequence |-> h.gap_to] \in failed'
    BY DEF GapsAnnounced
  <2>1. CASE handler[c].gap = h
    <3>1. h # NoGap
      <4>1. h \in [stream : Streams, gap_from : Nat, gap_to : Nat]
        BY DEF Intake, Gap
      <4>2. "stream" \in DOMAIN h
        BY <4>1
      <4>3. DOMAIN NoGap = {"gap_from", "gap_to"}
        BY DEF NoGap
      <4> QED
        BY <4>2, <4>3
    <3> QED
      BY <2>1, <3>1 DEF Intake, TasksKept
  <2>2. CASE handler[c].gap # h
    BY <1>1, <1>2, <2>2 DEF Intake, GapsAnnounced, BusyConnections
  <2> QED
    BY <2>1, <2>2
<1> QED
  BY <1>4, <1>6, <1>7, <1>8, <1>9 DEF Intake

LEMMA RunKept ==
  ASSUME Intake, Frames', NEW c \in Connections, RunEngines(c)
  PROVE  Intake' /\ Ingest!Next
<1>1. c \in BusyConnections /\ handler[c].stage = "recorded"
  BY DEF RunEngines, BusyConnections
<1>2. PICK e \in Event : e = handler[c].event /\ e \in ticks
  BY <1>1 DEF Intake, TasksKept
<1>3. /\ applied' = Append(applied, e) /\ handler' = [handler EXCEPT ![c] = Idle]
      /\ announced' = IF handler[c].gap # NoGap THEN announced \cup {handler[c].gap}
                      ELSE announced
      /\ UNCHANGED <<highest, gaps, admitted, ticks, failed, restarts>>
  BY <1>2 DEF RunEngines, validatorVars
<1>4. applied' \in Seq(Event) /\ Applied' = Applied \cup {e}
  BY <1>3, AppliedGrows DEF Intake
<1>5. Intake' /\ Pending' = Pending \ {e} /\ e \in Pending
  BY <1>1, <1>2, <1>3, <1>4, EndedKept
<1>6. Ingest!Complete(e)
  <2>1. Missed' = Missed
    BY <1>3 DEF Missed
  <2> QED
    BY <1>3, <1>4, <1>5, <2>1 DEF Ingest!Complete, Missed
<1> QED
  BY <1>5, <1>6 DEF Ingest!Next

LEMMA FailKept ==
  ASSUME Intake, Frames', NEW c \in Connections, RecordFails(c)
  PROVE  Intake' /\ Ingest!Next
<1>1. c \in BusyConnections
  BY DEF RecordFails, BusyConnections
<1>2. PICK e \in Event : e = handler[c].event
  BY <1>1 DEF Intake, TasksKept
<1>3. /\ failed' = failed \cup {e} /\ handler' = [handler EXCEPT ![c] = Idle]
      /\ UNCHANGED <<highest, gaps, admitted, ticks, applied, announced, restarts>>
  BY <1>2 DEF RecordFails, validatorVars
<1>4. Intake' /\ Pending' = Pending \ {e} /\ e \in Pending
  BY <1>1, <1>2, <1>3, EndedKept DEF Intake
<1>5. Ingest!Fail(e)
  <2>1. Missed' = Missed /\ Applied' = Applied
    BY <1>3 DEF Missed, Applied
  <2> QED
    BY <1>3, <1>4, <2>1 DEF Ingest!Fail, Missed
<1> QED
  BY <1>4, <1>5 DEF Ingest!Next

(* A restart: nothing is admitted yet and nobody is at work. *)
LEMMA RestartKept ==
  ASSUME Intake, Frames', RestartBackend
  PROVE  Intake' /\ Ingest!Next
<1>1. /\ \A c \in Connections : handler'[c] = Idle
      /\ handler' = [c \in Connections |-> Idle] /\ highest' = [t \in Streams |-> 0]
      /\ gaps' = {} /\ admitted' = {} /\ restarts' = restarts + 1
      /\ UNCHANGED <<ticks, applied, announced, failed>>
  BY DEF RestartBackend, storeVars, NotSeen
<1>2. BusyConnections' = {} /\ Pending' = {}
  BY <1>1 DEF BusyConnections, Pending, Idle
<1>3. TasksKept'
  BY <1>1, <1>2 DEF TasksKept, Idle, Work
<1>4. MarksKept'
  BY <1>1, <1>2 DEF MarksKept
<1>5. LossesReported' /\ GapsAnnounced'
  BY <1>1 DEF LossesReported, GapsAnnounced
<1>6. Intake'
  BY <1>1, <1>3, <1>4, <1>5 DEF Intake
<1>7. Missed' = {} /\ Applied' = Applied
  BY <1>1 DEF Missed, Applied
<1> QED
  BY <1>1, <1>2, <1>6, <1>7 DEF Ingest!Next, Ingest!Restart, Missed

LEMMA StepKept ==
  ASSUME Intake, [Next]_vars
  PROVE  Intake' /\ [Ingest!Next]_(Ingest!vars)
<1>1. Frames'
  BY StepKeepsFrames DEF Intake
<1>2. RestartBackend => Intake' /\ Ingest!Next
  BY <1>1, RestartKept
<1>3. ASSUME UNCHANGED <<handler, highest, gaps, admitted, ticks, failed, announced, applied, restarts>>
      PROVE  Intake' /\ UNCHANGED Ingest!vars
  BY <1>1, <1>3, OtherKept
<1>4. ASSUME NEW s \in Streams, Enqueue(s)
      PROVE  Intake' /\ UNCHANGED Ingest!vars
  BY <1>3, <1>4 DEF Enqueue, validatorVars, storeVars
<1>5. ASSUME TakeNext \/ SendOk \/ SendFails \/ Connect \/ UNCHANGED vars
      PROVE  Intake' /\ UNCHANGED Ingest!vars
  BY <1>3, <1>5 DEF TakeNext, SendOk, SendFails, Connect, vars, validatorVars, storeVars
<1>6. ASSUME NEW c \in Connections, CutLine(c) \/ DiscardFrame(c) \/ EndConnection(c)
      PROVE  Intake' /\ UNCHANGED Ingest!vars
  BY <1>3, <1>6 DEF CutLine, DiscardFrame, EndConnection, validatorVars, storeVars
<1> QED
  BY <1>1, <1>2, <1>4, <1>5, <1>6, ProcessKept, RecordKept, RunKept, FailKept
     DEF Next, AddOn, Task

-----------------------------------------------------------------------------

(* Between two starts of the backend, whatever was shed, skipped, lost on a line or   *)
(* left unread: a number between two admitted ones was admitted itself or  *)
(* lies in a reported gap.                                                 *)
THEOREM NoSilentLoss == Spec => []LossesReported
<1>1. Intake => LossesReported
  BY DEF Intake
<1> QED
  BY <1>1, InitIntake, StepKept, PTL DEF Spec

(* A gap is announced by the task that admits the event behind it, unless  *)
(* recording that event fails.                                             *)
THEOREM NoSilentGap == Spec => []GapsAnnounced
<1>1. Intake => GapsAnnounced
  BY DEF Intake
<1> QED
  BY <1>1, InitIntake, StepKept, PTL DEF Spec

(* Buffer, retries, several connections and tasks that outlive theirs      *)
(* implement one ordered intake.                                           *)
THEOREM TransportRefinesTickStream == Spec => ImplementsTickStream
<1> QED
  BY InitIntake, StepKept, PTL DEF Spec, ImplementsTickStream, Ingest!Spec
===============================================================================
