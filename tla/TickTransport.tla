---------------------------- MODULE TickTransport ----------------------------
(***************************************************************************)
(* The way of a market-data event from the NT_AddOn to the engines of the  *)
(* backend: outbound buffer, background sender with reconnect and retry,   *)
(* the /ws/nt connections, the single-connection lease of the backend, the *)
(* sequence validator, the tick store and the engines.                     *)
(*                                                                         *)
(* The sender is one thread; every /ws/nt connection is one task of the    *)
(* backend's event loop, and a task gives way only where it awaits: while  *)
(* the tick is written on a pool thread and while the socket is closed.    *)
(* Connections are numbered in the order they are opened.                  *)
(***************************************************************************)
EXTENDS Integers, Sequences, FiniteSets, SequenceValidator

CONSTANTS
  Streams,
  Capacity,            (* of the outbound buffer                       *)
  MaxSequence,         (* bound: events issued per stream              *)
  MaxConnections,      (* bound: connections opened; the last is good  *)
  MaxBackendRestarts,  (* bound: restarts of the backend process       *)
  MaxRecordFailures    (* bound: ticks whose recording raises          *)

ASSUME TransportAssumption ==
  /\ Capacity \in Nat \ {0}
  /\ MaxConnections \in Nat \ {0}
  /\ {MaxSequence, MaxBackendRestarts, MaxRecordFailures} \subseteq Nat

Connections == 1 .. MaxConnections

Event == [stream : Streams, sequence : 1 .. MaxSequence]

NoEvent == [stream |-> "none", sequence |-> 0]
NoConnection == 0
NoGap == [gap_from |-> 0, gap_to |-> 0]

VARIABLES
  (* NT_AddOn *)
  counter,   (* SequenceGenerator                                           *)
  buffer,    (* BoundedQueue                                                *)
  sending,   (* the event in SendWithReconnectAsync                         *)
  link,      (* the connection _socket holds                                *)
  (* the wire *)
  opened,    (* connections opened so far                                   *)
  wire,      (* per connection: frames on their way to the backend          *)
  line,      (* per connection: good, cut (unnoticed), dead (sends fail)    *)
  (* backend *)
  endpoint,  (* per connection: IngestEndpoint none, active, inactive, closed *)
  lease,     (* app.state.active_nt_endpoint                                *)
  handler,   (* per connection: what its receive loop is doing              *)
  highest,   (* SequenceValidator._highest                                  *)
  ticks,     (* rows of the tick store                                      *)
  applied,   (* events the engines were run with, in order                  *)
  gaps,      (* Stream_Gaps logged by the validator                         *)
  announced, (* Stream_Gaps announced to the clients as degraded            *)
  failed,    (* events whose recording raised                               *)
  restarts,  (* restarts of the backend so far                              *)
  (* history *)
  admitted   (* events the validator accepted since the backend's start     *)

addonVars == <<counter, buffer, sending, link>>
wireVars == <<opened, wire, line>>
validatorVars == <<highest, gaps, admitted>>
storeVars == <<ticks, applied, announced, failed>>
vars == <<addonVars, wireVars, endpoint, lease, handler, validatorVars,
          storeVars, restarts>>

Buffer == INSTANCE EventBuffer

Idle == [stage |-> "idle", event |-> NoEvent, gap |-> NoGap]
Busy(stage, e, gap) == [stage |-> stage, event |-> e, gap |-> gap]

(***************************************************************************)
(* NT_AddOn.                                                               *)
(***************************************************************************)

Enqueue(s) ==
  /\ Buffer!Put(s)
  /\ UNCHANGED <<sending, link, wireVars, endpoint, lease, handler,
                 validatorVars, storeVars, restarts>>

(* The next event is taken; one that cannot be serialized is skipped. *)
TakeNext ==
  /\ sending = NoEvent
  /\ Buffer!Take
  /\ sending' \in {Head(buffer), NoEvent}
  /\ UNCHANGED <<link, wireVars, endpoint, lease, handler, validatorVars,
                 storeVars, restarts>>

(* A frame that reaches a good line is on its way; a cut line swallows it. *)
OnWire(c, e) ==
  wire' = IF line[c] = "good" THEN [wire EXCEPT ![c] = Append(@, e)] ELSE wire

SendOk ==
  /\ sending # NoEvent
  /\ link # NoConnection
  /\ line[link] # "dead"
  /\ OnWire(link, sending)
  /\ sending' = NoEvent
  /\ UNCHANGED <<counter, buffer, link, opened, line, endpoint, lease, handler,
                 validatorVars, storeVars, restarts>>

(* Mutant: the failed socket is not closed. *)
SendFailsKeepingSocket ==
  /\ sending # NoEvent
  /\ link # NoConnection
  /\ line[link] # "good" \/ link < MaxConnections
  /\ OnWire(link, sending) \/ UNCHANGED wire
  /\ line' = [line EXCEPT ![link] = "dead"]
  /\ UNCHANGED <<counter, buffer, sending, link, opened, endpoint, lease,
                 handler, validatorVars, storeVars, restarts>>

(* SendAsync raises, possibly after the frame has left; the socket is      *)
(* closed and the same frame is tried again on the next connection.        *)
SendFails ==
  /\ sending # NoEvent
  /\ link # NoConnection
  /\ line[link] # "good" \/ link < MaxConnections
  /\ OnWire(link, sending) \/ UNCHANGED wire
  /\ line' = [line EXCEPT ![link] = "dead"]
  /\ link' = NoConnection
  /\ UNCHANGED <<counter, buffer, sending, opened, endpoint, lease, handler,
                 validatorVars, storeVars, restarts>>

(* A send on a socket known to be dead does not succeed. *)
SendOnDeadLine == link # NoConnection /\ line[link] = "dead" /\ SendFails

(***************************************************************************)
(* Opening a connection.                                                   *)
(***************************************************************************)

(* ws_nt under nt_ingest_lock: the endpoint that holds the lease stops     *)
(* dispatching before the new one is registered.                           *)
TakeLease(c) ==
  /\ endpoint' = [d \in Connections |->
                    IF d = c THEN "active"
                    ELSE IF d = lease /\ endpoint[d] = "active" THEN "inactive"
                    ELSE endpoint[d]]
  /\ lease' = c

(* EnsureConnectedAsync: the lease changes hands before the handshake is   *)
(* answered, and the client may give up waiting for the answer.            *)
Connect ==
  /\ sending # NoEvent
  /\ link = NoConnection
  /\ opened < MaxConnections
  /\ opened' = opened + 1
  /\ TakeLease(opened + 1)
  /\ \/ link' = opened + 1 /\ UNCHANGED line
     \/ /\ opened + 1 < MaxConnections
        /\ line' = [line EXCEPT ![opened + 1] = "dead"]
        /\ UNCHANGED link
  /\ UNCHANGED <<counter, buffer, sending, wire, handler, validatorVars,
                 storeVars, restarts>>

(* The network drops a connection: what is still on the way may be lost    *)
(* from some frame on, and the sender does not notice yet.                 *)
CutLine(c) ==
  /\ c < MaxConnections
  /\ c <= opened
  /\ line[c] = "good"
  /\ line' = [line EXCEPT ![c] = "cut"]
  /\ \E n \in 0 .. Len(wire[c]) :
       wire' = [wire EXCEPT ![c] = SubSeq(@, 1, n)]
  /\ UNCHANGED <<addonVars, opened, endpoint, lease, handler, validatorVars,
                 storeVars, restarts>>

(***************************************************************************)
(* The receive loop of one /ws/nt connection.                              *)
(***************************************************************************)

(* _dispatch on an endpoint that lost the lease returns at once. *)
DiscardFrame(c) ==
  /\ handler[c] = Idle
  /\ endpoint[c] = "inactive"
  /\ wire[c] # <<>>
  /\ wire' = [wire EXCEPT ![c] = Tail(@)]
  /\ UNCHANGED <<addonVars, opened, line, endpoint, lease, handler,
                 validatorVars, storeVars, restarts>>

(* One frame is received, decoded, dispatched and evaluated without giving *)
(* way; an accepted one goes to a pool thread to be recorded.              *)
ProcessFrame(c) ==
  LET e == Head(wire[c])
      prev == highest[e.stream]
      outcome == Outcome(prev, e.sequence)
      gap == StreamGap(e.stream, prev, e.sequence)
  IN
  /\ handler[c] = Idle
  /\ endpoint[c] = "active"
  /\ wire[c] # <<>>
  /\ wire' = [wire EXCEPT ![c] = Tail(@)]
  /\ highest' = IF Accepted(outcome)
                THEN [highest EXCEPT ![e.stream] = e.sequence] ELSE highest
  /\ gaps' = IF outcome = "gap" THEN gaps \cup {gap} ELSE gaps
  /\ admitted' = IF Accepted(outcome) THEN admitted \cup {e} ELSE admitted
  /\ handler' = IF Accepted(outcome)
                THEN [handler EXCEPT ![c] =
                        Busy("recording", e,
                             IF outcome = "gap" THEN gap ELSE NoGap)]
                ELSE handler
  /\ UNCHANGED <<addonVars, opened, line, endpoint, lease, storeVars, restarts>>

(* The pool thread commits the row. *)
Record(c) ==
  /\ handler[c].stage = "recording"
  /\ ticks' = ticks \cup {handler[c].event}
  /\ handler' = [handler EXCEPT ![c].stage = "recorded"]
  /\ UNCHANGED <<addonVars, wireVars, endpoint, lease, validatorVars, applied,
                 announced, failed, restarts>>

(* Mutant: a task whose endpoint lost the lease meanwhile stops there. *)
RunEnginesWhileActive(c) ==
  LET h == handler[c] IN
  /\ h.stage = "recorded"
  /\ IF endpoint[c] = "active"
     THEN /\ announced' = IF h.gap # NoGap
                          THEN announced \cup {h.gap} ELSE announced
          /\ applied' = Append(applied, h.event)
     ELSE UNCHANGED <<announced, applied>>
  /\ handler' = [handler EXCEPT ![c] = Idle]
  /\ UNCHANGED <<addonVars, wireVars, endpoint, lease, validatorVars, ticks,
                 failed, restarts>>

(* The task resumes: a gap is announced and the engines are run. *)
RunEngines(c) ==
  LET h == handler[c] IN
  /\ h.stage = "recorded"
  /\ announced' = IF h.gap # NoGap THEN announced \cup {h.gap} ELSE announced
  /\ applied' = Append(applied, h.event)
  /\ handler' = [handler EXCEPT ![c] = Idle]
  /\ UNCHANGED <<addonVars, wireVars, endpoint, lease, validatorVars, ticks,
                 failed, restarts>>

(* Mutant: a task that ends gives up the lease whoever holds it. *)
ReleaseAnyLease(c) == lease' = NoConnection

(* The finally block of ws_nt: only the holder gives the lease up. *)
ReleaseLease(c) == lease' = IF lease = c THEN NoConnection ELSE lease

(* An error of the tick store ends the receive loop of the connection.     *)
RecordFails(c) ==
  /\ handler[c].stage = "recording"
  /\ c < MaxConnections
  /\ Cardinality(failed) < MaxRecordFailures
  /\ failed' = failed \cup {handler[c].event}
  /\ handler' = [handler EXCEPT ![c] = Idle]
  /\ endpoint' = [endpoint EXCEPT ![c] = "closed"]
  /\ ReleaseLease(c)
  /\ wire' = [wire EXCEPT ![c] = <<>>]
  /\ line' = [line EXCEPT ![c] = "dead"]
  /\ UNCHANGED <<addonVars, opened, validatorVars, ticks, applied, announced,
                 restarts>>

(* The receive loop ends: the peer closed or vanished, the watchdog or a   *)
(* newer connection closed the socket.  Unread frames are gone.            *)
EndConnection(c) ==
  /\ handler[c] = Idle
  /\ \/ endpoint[c] = "inactive"
     \/ endpoint[c] = "active" /\ line[c] # "good"
     \/ endpoint[c] = "active" /\ c < MaxConnections
  /\ endpoint' = [endpoint EXCEPT ![c] = "closed"]
  /\ ReleaseLease(c)
  /\ wire' = [wire EXCEPT ![c] = <<>>]
  /\ line' = [line EXCEPT ![c] = "dead"]
  /\ UNCHANGED <<addonVars, opened, handler, validatorVars, storeVars, restarts>>

(* The process stops and starts again: the validator, the tasks and the    *)
(* connections are gone, the tick store stays.                             *)
RestartBackend ==
  /\ restarts < MaxBackendRestarts
  /\ opened < MaxConnections
  /\ restarts' = restarts + 1
  /\ endpoint' = [c \in Connections |->
                    IF c <= opened THEN "closed" ELSE endpoint[c]]
  /\ line' = [c \in Connections |-> IF c <= opened THEN "dead" ELSE line[c]]
  /\ wire' = [c \in Connections |-> <<>>]
  /\ lease' = NoConnection
  /\ handler' = [c \in Connections |-> Idle]
  /\ highest' = [s \in Streams |-> NotSeen] /\ gaps' = {} /\ admitted' = {}
  /\ UNCHANGED <<addonVars, opened, storeVars>>

Init ==
  /\ Buffer!Init
  /\ sending = NoEvent
  /\ link = NoConnection
  /\ opened = 0
  /\ wire = [c \in Connections |-> <<>>]
  /\ line = [c \in Connections |-> "good"]
  /\ endpoint = [c \in Connections |-> "none"]
  /\ lease = NoConnection
  /\ handler = [c \in Connections |-> Idle]
  /\ highest = [s \in Streams |-> NotSeen]
  /\ ticks = {} /\ applied = <<>> /\ gaps = {} /\ announced = {}
  /\ failed = {} /\ admitted = {}
  /\ restarts = 0

AddOn == (\E s \in Streams : Enqueue(s)) \/ TakeNext \/ SendOk \/ SendFails \/ Connect

Task(c) ==
  \/ DiscardFrame(c) \/ ProcessFrame(c) \/ Record(c) \/ RunEngines(c)
  \/ RecordFails(c) \/ EndConnection(c)

Next ==
  \/ AddOn
  \/ \E c \in Connections : CutLine(c) \/ Task(c)
  \/ RestartBackend

Spec == Init /\ [][Next]_vars

(* The sender thread and the tasks of the event loop are scheduled; the    *)
(* line of the last connection is good, so every failure is transient.     *)
FairSpec ==
  /\ Spec
  /\ WF_vars(TakeNext)
  /\ WF_vars(SendOk)
  /\ WF_vars(SendOnDeadLine)
  /\ WF_vars(Connect)
  /\ \A c \in Connections :
       /\ WF_vars(DiscardFrame(c) \/ ProcessFrame(c))
       /\ WF_vars(Record(c))
       /\ WF_vars(RunEngines(c))

-----------------------------------------------------------------------------

BusyConnections == {c \in Connections : handler[c].stage # "idle"}

Pending == {handler[c].event : c \in BusyConnections}

Applied == {applied[i] : i \in DOMAIN applied}

(* An endpoint that dispatches frames holds the lease: from the moment a   *)
(* newer connection is registered, nothing that is still on its way over   *)
(* an older one feeds the pipeline, in whatever order the older tasks end. *)
OnlyLeaseHolderDispatches ==
  \A c \in Connections : endpoint[c] = "active" => lease = c

(* Whatever was shed, skipped, lost on a line or left unread: a number     *)
(* between two that one run of the backend admitted was admitted itself or *)
(* lies in a Stream_Gap.                                                   *)
LossesReported ==
  \A first, last \in admitted :
    first.stream = last.stream =>
      \A n \in first.sequence .. last.sequence :
        \/ [stream |-> first.stream, sequence |-> n] \in admitted
        \/ \E g \in gaps : g.stream = first.stream /\ n \in Missing(g)

(* A logged Stream_Gap is announced to the clients as soon as the event    *)
(* that revealed it is through, unless recording that event failed.        *)
GapsAnnounced ==
  \A g \in gaps :
    \/ g \in announced
    \/ \E c \in BusyConnections : handler[c].gap = g
    \/ [stream |-> g.stream, sequence |-> g.gap_to] \in failed

Ingest == INSTANCE TickStream WITH
            top <- highest,
            pending <- Pending,
            done <- Applied,
            missed <- UNION {[stream : {g.stream}, sequence : Missing(g)] : g \in gaps}

(* Several connections, a sender that repeats frames, tasks that outlive   *)
(* their connection and restarts still behave like one ordered intake.     *)
ImplementsTickStream == Ingest!Spec

(* When the faults and the market stop, everything in the AddOn and on the *)
(* wire is worked off: no failed send or lost lease wedges the pipeline.   *)
PipelineDrains ==
  <>[](/\ buffer = <<>> /\ sending = NoEvent
       /\ \A c \in Connections :
            handler[c] = Idle /\ (endpoint[c] = "active" => wire[c] = <<>>))

=============================================================================
