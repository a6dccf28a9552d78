------------------------------ MODULE ChartFanout ------------------------------
(***************************************************************************)
(* From the backend to a chart: the registry of /ws/chart clients, its     *)
(* coalescing flush and its heartbeat (registry.py, endpoint.py), and the  *)
(* socket of one browser with the subscriptions it replays over one        *)
(* connection after another (ChartSocket.ts, the effects of LiveApp.tsx).  *)
(*                                                                         *)
(* There is one symbol.  A slot is what events are coalesced by: the quote *)
(* or the bar of one timeframe, in successive versions.  Any connection    *)
(* that is not the browser's present one is a further client.              *)
(***************************************************************************)
EXTENDS Naturals, Sequences, SequencesExt

CONSTANTS
  Charts,       (* timeframes a chart can show                               *)
  FirstChart,
  NoTf,         (* a frame without a timeframe                               *)
  Published,    (* bound: the slots that are published                       *)
  MaxVersion,   (* bound: versions of a slot                                 *)
  MaxFaults,    (* bound: connections that end                               *)
  MaxFrames     (* bound: frames the page adds to a waiting channel          *)

Quote == "quote"
Events == {Quote, "bar"}
Slots == {Quote} \cup Charts
Connections == 1 .. (MaxFaults + 1)
None == 0

ASSUME FanoutAssumption ==
  /\ FirstChart \in Charts /\ Quote \notin Charts /\ NoTf \notin Slots
  /\ Published \subseteq Slots
  /\ MaxVersion \in Nat /\ MaxFaults \in Nat /\ MaxFrames \in Nat

VARIABLES
  \* the page
  mounted, chart,
  remembered,   (* ChartSocket.subscriptions, as pairs of event and timeframe *)
  unsent,       (* ChartSocket.pending                                       *)
  hasOpened, socket, ready,
  seen,         (* per slot, the version last received                       *)
  \* the connections
  used,         (* connections made so far                                   *)
  line,         (* "up", or "cut" without anybody being told                 *)
  up, down,     (* frames on their way to the endpoint and to the page       *)
  \* the registry
  peer,         (* of a connection: none, waiting, registered, dropped, ended *)
  wanted,       (* ChartClient._subscriptions and _timeframes                *)
  silent,       (* heartbeats since the last pong                            *)
  latest,       (* per slot, the version published last                      *)
  slots,        (* _pending                                                  *)
  batch,        (* what the flush has left to broadcast                      *)
  sending       (* per connection: no, sending the head of batch, closing    *)

page == <<mounted, chart, remembered, unsent, hasOpened, socket, ready, seen>>
wire == <<used, line, up, down>>
clients == <<peer, wanted, silent>>
flush == <<latest, slots, batch, sending>>
vars == <<page, wire, clients, flush>>

OpenFrame == [type |-> "open"]
CloseFrame == [type |-> "close"]
Frame(type, event, tf) == [type |-> type, event |-> event, tf |-> tf]

(* ------------------------- a client's subscriptions --------------------- *)

NoSubscription == [events |-> {}, tfs |-> {}]

(* The timeframes are those of the bars; NoTf among them stands for all. *)
Subscribe(w, f) ==
  [events |-> w.events \cup {f.event},
   tfs |-> IF f.event = Quote THEN w.tfs
           ELSE IF NoTf \in w.tfs \cup {f.tf} THEN {NoTf}
           ELSE w.tfs \cup {f.tf}]

Unsubscribe(w, f) ==
  LET kept == IF NoTf \in w.tfs THEN w.tfs ELSE w.tfs \ {f.tf} IN
  IF f.event # Quote /\ f.tf # NoTf /\ kept # {}
  THEN [w EXCEPT !.tfs = kept]
  ELSE [events |-> w.events \ {f.event},
        tfs |-> IF f.event = Quote THEN w.tfs ELSE {}]

Wants(c, slot) ==
  /\ peer[c] = "registered"
  /\ IF slot = Quote THEN Quote \in wanted[c].events
     ELSE "bar" \in wanted[c].events /\ {slot, NoTf} \cap wanted[c].tfs # {}

(* ------------------------------- the page ------------------------------- *)

Open == socket # None /\ ready

(* Frames sent on a socket that is open go down the line, or nowhere when  *)
(* it is cut; until it opens they wait.                                    *)
Send(frames) ==
  IF Open
  THEN /\ up' = [up EXCEPT ![socket] =
                   IF line[socket] = "cut" THEN @ ELSE @ \o frames]
       /\ UNCHANGED unsent
  ELSE unsent' = unsent \o frames /\ UNCHANGED up

Room == IF Open THEN Len(up[socket]) < MaxFrames ELSE Len(unsent) < MaxFrames

(* ensureConnected, connect: a new transport replaces the present one. *)
NewSocket(c) ==
  /\ c = used + 1 /\ c \in Connections
  /\ used' = c
  /\ socket' = c
  /\ ready' = FALSE
  /\ peer' = [peer EXCEPT ![c] = "waiting"]

CloseUp(channels) ==
  IF socket = None \/ line[socket] = "cut" THEN channels
  ELSE [channels EXCEPT ![socket] = Append(@, CloseFrame)]

Mount ==
  /\ ~mounted
  /\ mounted' = TRUE
  /\ NewSocket(used + 1)
  /\ remembered' = {<<Quote, NoTf>>, <<"bar", chart>>}
  /\ unsent' = unsent \o <<Frame("subscribe", Quote, NoTf),
                           Frame("subscribe", "bar", chart)>>
  /\ UNCHANGED <<chart, hasOpened, seen, line, up, down, wanted, silent, flush>>

(* The cleanups run in the order of the effects: the socket closes and     *)
(* clears what waits, and then the subscriptions are taken back.           *)
Unmount ==
  /\ mounted
  /\ used <= MaxFaults
  /\ mounted' = FALSE
  /\ up' = CloseUp(up)
  /\ socket' = None /\ ready' = FALSE
  /\ remembered' = {}
  /\ unsent' = <<Frame("unsubscribe", Quote, NoTf),
                 Frame("unsubscribe", "bar", chart)>>
  /\ UNCHANGED <<chart, hasOpened, seen, used, line, down, clients, flush>>

(* The timeframe changes, or the effect runs again after a reconnect. *)
ShowChart(tf) ==
  /\ mounted /\ Room
  /\ chart' = tf
  /\ remembered' = (remembered \ {<<"bar", chart>>}) \cup {<<"bar", tf>>}
  /\ Send(<<Frame("unsubscribe", "bar", chart), Frame("subscribe", "bar", tf)>>)
  /\ UNCHANGED <<mounted, hasOpened, socket, ready, seen, used, line, down,
                 clients, flush>>

(* Mutant: a socket that looks open is left alone. *)
LostSocket == socket = None

(* The five-second timer finds the socket closed or idle for too long. *)
Lost == socket \notin {c \in Connections : line[c] = "up"}

ForceReconnect ==
  /\ mounted
  /\ NewSocket(used + 1)
  /\ up' = CloseUp(up)
  /\ UNCHANGED <<mounted, chart, remembered, unsent, hasOpened, seen, line, down,
                 wanted, silent, flush>>

Resent ==
  IF hasOpened
  THEN SetToSeq({Frame("subscribe", s[1], s[2]) : s \in remembered})
  ELSE <<>>

(* Mutant: the subscriptions are not replayed. *)
OnOpenWithoutReplay(c) ==
  /\ ready' = TRUE
  /\ hasOpened' = TRUE
  /\ up' = [up EXCEPT ![c] = IF line[c] = "cut" THEN @ ELSE @ \o unsent]
  /\ unsent' = <<>>

OnOpen(c) ==
  /\ ready' = TRUE
  /\ hasOpened' = TRUE
  /\ up' = [up EXCEPT ![c] = IF line[c] = "cut" THEN @ ELSE @ \o unsent \o Resent]
  /\ unsent' = <<>>

(* Mutant: a transport that was replaced is still listened to. *)
Listens(c) == TRUE

(* Only the present transport is listened to. *)
Current(c) == socket = c

Receive(c) ==
  /\ down[c] # <<>>
  /\ down' = [down EXCEPT ![c] = Tail(@)]
  /\ LET f == Head(down[c]) IN
     \/ /\ ~Current(c)
        /\ UNCHANGED <<unsent, hasOpened, socket, ready, seen, up>>
     \/ /\ Current(c) /\ f.type = "open"
        /\ OnOpen(c)
        /\ UNCHANGED <<socket, seen>>
     \/ /\ Current(c) /\ f.type = "close"
        /\ socket' = None /\ ready' = FALSE
        /\ UNCHANGED <<unsent, hasOpened, seen, up>>
     \/ /\ Current(c) /\ f.type = "event"
        /\ seen' = [seen EXCEPT ![f.slot] = f.version]
        /\ UNCHANGED <<unsent, hasOpened, socket, ready, up>>
  /\ UNCHANGED <<mounted, chart, remembered, used, line, clients, flush>>

(* The page is told that its connection is gone. *)
OnClose ==
  /\ socket # None /\ line[socket] = "cut"
  /\ socket' = None /\ ready' = FALSE
  /\ UNCHANGED <<mounted, chart, remembered, unsent, hasOpened, seen, wire,
                 clients, flush>>

(* ----------------------------- the endpoint ----------------------------- *)

Deliver(c, frame) ==
  down' = [down EXCEPT ![c] = IF line[c] = "cut" THEN @ ELSE Append(@, frame)]

(* The endpoint accepts and registers the client. *)
Accept(c) ==
  /\ peer[c] = "waiting" /\ line[c] = "up"
  /\ peer' = [peer EXCEPT ![c] = "registered"]
  /\ silent' = [silent EXCEPT ![c] = 0]
  /\ Deliver(c, OpenFrame)
  /\ UNCHANGED <<page, used, line, up, wanted, flush>>

(* What the registry knew of a client goes with it. *)
Leave(c, how) ==
  /\ peer' = [peer EXCEPT ![c] = how]
  /\ wanted' = [wanted EXCEPT ![c] = NoSubscription]
  /\ silent' = [silent EXCEPT ![c] = 0]

(* A frame of a client the registry has dropped raises, which ends the     *)
(* task, as does a close.                                                  *)
HandleFrame(c) ==
  /\ peer[c] \in {"registered", "dropped"}
  /\ up[c] # <<>>
  /\ up' = [up EXCEPT ![c] = Tail(@)]
  /\ LET f == Head(up[c]) IN
     IF peer[c] = "dropped" \/ f.type = "close"
     THEN Leave(c, "ended")
     ELSE /\ wanted' = [wanted EXCEPT ![c] =
                          IF f.type = "subscribe" THEN Subscribe(@, f)
                          ELSE Unsubscribe(@, f)]
          /\ UNCHANGED <<peer, silent>>
  /\ UNCHANGED <<page, used, line, down, flush>>

(* receive_text raises on a connection that is known to be gone. *)
EndpointEnds(c) ==
  /\ \/ peer[c] = "dropped"
     \/ peer[c] = "registered" /\ line[c] = "cut"
  /\ Leave(c, "ended")
  /\ UNCHANGED <<page, wire, flush>>

(* ----------------------------- the registry ----------------------------- *)

Drop(c) ==
  /\ Leave(c, "dropped")
  /\ Deliver(c, CloseFrame)

(* A client that has been silent for two rounds goes, any other is pinged;  *)
(* a pong arrives while the page still has this socket.                    *)
Heartbeat(c) ==
  /\ peer[c] = "registered"
  /\ line[c] = "cut" \/ ~Current(c)
  /\ IF silent[c] = 2 THEN Drop(c)
     ELSE /\ silent' = [silent EXCEPT ![c] = @ + 1]
          /\ UNCHANGED <<peer, wanted, down>>
  /\ UNCHANGED <<page, used, line, up, flush>>

(* A pending slot keeps its place and takes the newer version. *)
Enqueue(slot, version) ==
  LET event == [type |-> "event", slot |-> slot, version |-> version] IN
  slots' = IF \E i \in DOMAIN slots : slots[i].slot = slot
           THEN [i \in DOMAIN slots |-> IF slots[i].slot = slot THEN event
                                        ELSE slots[i]]
           ELSE Append(slots, event)

Publish(slot) ==
  /\ latest[slot] < MaxVersion
  /\ latest' = [latest EXCEPT ![slot] = @ + 1]
  /\ Enqueue(slot, latest[slot] + 1)
  /\ UNCHANGED <<page, wire, clients, batch, sending>>

Recipients(event) == {c \in Connections : Wants(c, event.slot)}

SendingTo(rest) ==
  [c \in Connections |->
     IF rest # <<>> /\ c \in Recipients(Head(rest)) THEN "sending" ELSE "no"]

(* Every send of one event ends before the next event is looked at. *)
Flush ==
  /\ batch = <<>> /\ slots # <<>>
  /\ batch' = slots
  /\ slots' = <<>>
  /\ sending' = SendingTo(slots)
  /\ UNCHANGED <<page, wire, clients, latest>>

BroadcastNext ==
  /\ batch # <<>>
  /\ \A c \in Connections : sending[c] = "no"
  /\ batch' = Tail(batch)
  /\ sending' = SendingTo(Tail(batch))
  /\ UNCHANGED <<page, wire, clients, latest, slots>>

SendOk(c) ==
  /\ sending[c] = "sending" /\ peer[c] = "registered"
  /\ sending' = [sending EXCEPT ![c] = "no"]
  /\ Deliver(c, Head(batch))
  /\ UNCHANGED <<page, used, line, up, clients, latest, slots, batch>>

(* Mutant: the exception of a send ends the flush of the whole batch. *)
SendFailsForAll(c) ==
  /\ sending[c] = "sending"
  /\ peer[c] # "registered" \/ line[c] = "cut"
  /\ IF peer[c] = "registered" THEN Drop(c) ELSE UNCHANGED <<clients, down>>
  /\ sending' = [d \in Connections |-> "no"]
  /\ batch' = <<>>
  /\ UNCHANGED <<page, used, line, up, latest, slots>>

(* A send that raises or takes too long costs only its own client, whose   *)
(* close the flush waits for.                                              *)
SendFails(c) ==
  /\ sending[c] = "sending"
  /\ peer[c] # "registered" \/ line[c] = "cut"
  /\ IF peer[c] = "registered"
     THEN Drop(c) /\ sending' = [sending EXCEPT ![c] = "closing"]
     ELSE UNCHANGED <<clients, down>> /\ sending' = [sending EXCEPT ![c] = "no"]
  /\ UNCHANGED <<page, used, line, up, latest, slots, batch>>

CloseEnds(c) ==
  /\ sending[c] = "closing"
  /\ sending' = [sending EXCEPT ![c] = "no"]
  /\ UNCHANGED <<page, wire, clients, latest, slots, batch>>

(* -------------------------------- faults -------------------------------- *)

(* A connection that has a successor may be lost at any moment, or stuck   *)
(* with what is on its way, which is the same to those who wait for it.    *)
CutLine(c) ==
  /\ line[c] = "up" /\ peer[c] # "none" /\ c <= MaxFaults
  /\ line' = [line EXCEPT ![c] = "cut"]
  /\ up' = [up EXCEPT ![c] = <<>>]
  /\ down' = [down EXCEPT ![c] = <<>>]
  /\ UNCHANGED <<page, used, clients, flush>>

(* A client whose line is whole but slow: a send or a ping times out. *)
SlowClient(c) ==
  /\ peer[c] = "registered" /\ line[c] = "up" /\ c <= MaxFaults
  /\ Drop(c)
  /\ sending' = [sending EXCEPT ![c] = IF @ = "sending" THEN "closing" ELSE @]
  /\ UNCHANGED <<page, used, line, up, latest, slots, batch>>

Init ==
  /\ mounted = FALSE /\ chart = FirstChart
  /\ remembered = {} /\ unsent = <<>>
  /\ hasOpened = FALSE /\ socket = None /\ ready = FALSE
  /\ seen = [s \in Slots |-> 0]
  /\ used = 0
  /\ line = [c \in Connections |-> "up"]
  /\ up = [c \in Connections |-> <<>>]
  /\ down = [c \in Connections |-> <<>>]
  /\ peer = [c \in Connections |-> "none"]
  /\ wanted = [c \in Connections |-> NoSubscription]
  /\ silent = [c \in Connections |-> 0]
  /\ latest = [s \in Slots |-> 0]
  /\ slots = <<>> /\ batch = <<>>
  /\ sending = [c \in Connections |-> "no"]

Serve(c) ==
  \/ Accept(c) \/ HandleFrame(c) \/ EndpointEnds(c) \/ Heartbeat(c)
  \/ SendOk(c) \/ SendFails(c) \/ CloseEnds(c)

Next ==
  \/ Mount \/ Unmount \/ ForceReconnect \/ OnClose
  \/ \E tf \in Charts : ShowChart(tf)
  \/ \E slot \in Published : Publish(slot)
  \/ Flush \/ BroadcastNext
  \/ \E c \in Connections : Serve(c) \/ Receive(c) \/ CutLine(c) \/ SlowClient(c)

Spec == Init /\ [][Next]_vars

(* Loops and timers run, channels deliver, a close ends by its handshake's *)
(* timeout, and the page's timer replaces a socket that is lost.           *)
Fairness ==
  /\ WF_vars(Flush) /\ WF_vars(BroadcastNext)
  /\ WF_vars(Lost /\ ForceReconnect)
  /\ \A c \in Connections :
       /\ WF_vars(Accept(c) \/ HandleFrame(c))
       /\ WF_vars(SendOk(c) \/ SendFails(c) \/ CloseEnds(c))
       /\ WF_vars(Receive(c))

FairSpec == Spec /\ Fairness

(* ------------------------------ properties ------------------------------ *)

Slotted(subscriptions) ==
  {s \in Slots : IF s = Quote THEN <<Quote, NoTf>> \in subscriptions
                 ELSE <<"bar", s>> \in subscriptions}

Attached ==
  socket \in {c \in Connections :
               ready /\ peer[c] = "registered" /\ line[c] = "up"}

Served(slot) == Attached /\ socket \in {c \in Connections : Wants(c, slot)}

(* Once the endpoint has read what the page sent, the registry sends what   *)
(* the page remembers and nothing else, after any sequence of changes of    *)
(* the chart, remounts and reconnects (subscriptions are replayed on top    *)
(* of the frames that waited).                                              *)
SubscriptionsAgree ==
  Attached /\ up[socket] = <<>> =>
    {s \in Slots : Served(s)} = Slotted(remembered)

(* Over coalescing, flushes and connections that overlap, the page never   *)
(* goes back to an older state of a slot.                                  *)
SlotsNeverGoBack == [][\A s \in Slots : seen'[s] >= seen[s]]_seen

(* An update that is pending while the client is subscribed arrives, or a   *)
(* newer one does, whatever becomes of the sends to other clients.         *)
UpdatesArrive ==
  \A s \in Published, v \in 1 .. MaxVersion :
    (Served(s) /\ latest[s] = v /\ \E i \in DOMAIN slots : slots[i].slot = s)
      ~> (seen[s] >= v \/ ~Served(s))

(* A page that stays mounted is served again after the last lost            *)
(* connection, with its subscriptions.                                      *)
ChartRecovers ==
  <>[]mounted =>
    []<>(Attached /\ {s \in Slots : Served(s)} = Slotted(remembered))
================================================================================
