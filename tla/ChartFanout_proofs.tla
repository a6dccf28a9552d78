--------------------------- MODULE ChartFanout_proofs ---------------------------
(***************************************************************************)
(* Proofs about ChartFanout for any charts, connections, versions and      *)
(* frames.                                                                 *)
(***************************************************************************)
EXTENDS ChartFanout, TLAPS, SequenceTheorems, FiniteSetTheorems

(* The commands a page sends, each about one slot, and what travels.       *)
Kinds == {"subscribe", "unsubscribe"}
Commands ==
  {Frame(k, Quote, NoTf) : k \in Kinds} \cup {Frame(k, "bar", tf) : k \in Kinds, tf \in Charts}
EventFrames == [type : {"event"}, slot : Slots, version : Nat]
UpFrames == Commands \cup {CloseFrame}
DownFrames == {OpenFrame, CloseFrame} \cup EventFrames

SlotOf(f) == IF f.event = Quote THEN Quote ELSE f.tf

(* What a client may have subscribed to: bars and their timeframes go      *)
(* together.                                                               *)
Subscriptions ==
  {w \in [events : SUBSET Events, tfs : SUBSET Charts] : "bar" \in w.events <=> w.tfs # {}}

Holds(w, s) == IF s = Quote THEN Quote \in w.events ELSE s \in w.tfs

(* Whether slot s is subscribed to once the commands of q are executed:    *)
(* the last one about s decides, and without one it stays as it was.       *)
Results(q, held, s) ==
  \/ \E i \in 1 .. Len(q) : /\ SlotOf(q[i]) = s /\ q[i].type = "subscribe"
                            /\ \A j \in 1 .. Len(q) : j > i => SlotOf(q[j]) # s
  \/ held /\ \A i \in 1 .. Len(q) : SlotOf(q[i]) # s

PeerStates == {"none", "waiting", "registered", "dropped", "ended"}

PageTypes ==
  /\ mounted \in BOOLEAN /\ chart \in Charts
  /\ remembered = IF mounted THEN {<<Quote, NoTf>>, <<"bar", chart>>} ELSE {}
  /\ unsent \in Seq(Commands)
  /\ hasOpened \in BOOLEAN /\ ready \in BOOLEAN
  /\ used \in 0 .. (MaxFaults + 1) /\ socket \in 0 .. used
  /\ seen \in [Slots -> Nat]

ConnectionTypes ==
  /\ line \in [Connections -> {"up", "cut"}]
  /\ up \in [Connections -> Seq(UpFrames)]
  /\ down \in [Connections -> Seq(DownFrames)]
  /\ peer \in [Connections -> PeerStates]
  /\ wanted \in [Connections -> Subscriptions]
  /\ silent \in [Connections -> 0 .. 2]

FlushTypes ==
  /\ latest \in [Slots -> Nat]
  /\ slots \in Seq(EventFrames) /\ batch \in Seq(EventFrames)
  /\ sending \in [Connections -> {"no", "sending", "closing"}]
  /\ \A c \in Connections : sending[c] = "sending" => batch # <<>>

(* ----------------------- which slots are subscribed to ------------------ *)

Remembers(s) == mounted /\ s \in {Quote, chart}

(* An endpoint opens a connection once, before anything else it sends.     *)
Opening ==
  /\ socket # None => mounted
  /\ ready => socket # None
  /\ \A c \in Connections :
       /\ c > used => peer[c] = "none" /\ line[c] = "up" /\ up[c] = <<>>
       /\ peer[c] \in {"none", "waiting"} => down[c] = <<>> /\ wanted[c] = NoSubscription
       /\ \A i \in 1 .. Len(down[c]) : down[c][i] = OpenFrame => i = 1
       /\ ready /\ socket = c => /\ peer[c] \notin {"none", "waiting"}
                                 /\ \A i \in 1 .. Len(down[c]) : down[c][i] # OpenFrame
       /\ ~ready /\ socket = c => up[c] = <<>> /\ wanted[c] = NoSubscription

(* The commands that wait ask for nothing the page does not remember, and  *)
(* before the first connection opens for all of it.                        *)
Waiting ==
  /\ ready => unsent = <<>> /\ hasOpened
  /\ \A s \in Slots :
       /\ Results(unsent, FALSE, s) => Remembers(s)
       /\ ~hasOpened /\ Remembers(s) => Results(unsent, FALSE, s)

(* Once the commands on their way are executed the client has what the     *)
(* page remembers.                                                         *)
Agreeing ==
  \A c \in Connections :
    socket = c /\ ready =>
      /\ up[c] \in Seq(Commands)
      /\ line[c] = "up" /\ peer[c] = "registered" =>
           \A s \in Slots : Results(up[c], Holds(wanted[c], s), s) <=> Remembers(s)

SInv == PageTypes /\ ConnectionTypes /\ Opening /\ Waiting /\ Agreeing

(* ---------------------------- versions of slots ------------------------- *)

(* Behind(f, g): f is no newer than g.                                     *)
Behind(f, g) == f.slot = g.slot => f.version <= g.version

OncePerSlot(q) == \A i, j \in 1 .. Len(q) : q[i].slot = q[j].slot => i = j

(* An event on its way to c.                                               *)
OnItsWay(c, i) == i \in 1 .. Len(down[c]) /\ down[c][i].type = "event"

(* What the page has seen is no newer than what is on its way, that no     *)
(* newer than the batch, the batch no newer than what is pending, and that *)
(* no newer than what was published.                                       *)
Flushing ==
  /\ OncePerSlot(slots) /\ OncePerSlot(batch)
  /\ \A i \in 1 .. Len(slots) : slots[i].version <= latest[slots[i].slot]
  /\ \A i \in 1 .. Len(batch) :
       /\ batch[i].version <= latest[batch[i].slot]
       /\ \A j \in 1 .. Len(slots) : Behind(batch[i], slots[j])

Travelling ==
  \A c \in Connections : \A i \in 1 .. Len(down[c]) :
    OnItsWay(c, i) =>
      /\ down[c][i].version <= latest[down[c][i].slot]
      /\ \A j \in 1 .. Len(slots) : Behind(down[c][i], slots[j])
      /\ \A j \in 1 .. Len(batch) : Behind(down[c][i], batch[j])
      /\ \A j \in 1 .. Len(down[c]) : j > i /\ OnItsWay(c, j) => Behind(down[c][i], down[c][j])

Seeing ==
  \A s \in Slots :
    /\ seen[s] <= latest[s]
    /\ \A j \in 1 .. Len(slots) : slots[j].slot = s => seen[s] <= slots[j].version
    /\ \A j \in 1 .. Len(batch) : batch[j].slot = s => seen[s] <= batch[j].version
    /\ \A c \in Connections : socket = c =>
         \A i \in 1 .. Len(down[c]) :
           OnItsWay(c, i) /\ down[c][i].slot = s => seen[s] <= down[c][i].version

VInv == FlushTypes /\ Flushing /\ Travelling /\ Seeing

IInv == SInv /\ VInv
(* ------------------------------- sequences ------------------------------ *)

LEMMA Appended ==
  ASSUME NEW S, NEW q \in Seq(S), NEW f \in S
  PROVE  /\ Append(q, f) \in Seq(S) /\ Len(q) \in Nat /\ Len(Append(q, f)) = Len(q) + 1
         /\ \A i \in 1 .. Len(q) : Append(q, f)[i] = q[i]
         /\ Append(q, f)[Len(q) + 1] = f
BY AppendProperties, LenProperties

LEMMA Shortened ==
  ASSUME NEW S, NEW q \in Seq(S), q # <<>>
  PROVE  /\ Tail(q) \in Seq(S) /\ Head(q) \in S /\ Head(q) = q[1]
         /\ Len(q) \in Nat \ {0} /\ Len(Tail(q)) = Len(q) - 1
         /\ \A i \in 1 .. Len(Tail(q)) : Tail(q)[i] = q[i + 1]
BY HeadTailProperties, LenProperties, EmptySeq

(* The sequences of the frames the page sends at once.                     *)
LEMMA TwoAppended ==
  ASSUME NEW S, NEW q \in Seq(S), NEW f \in S, NEW g \in S
  PROVE  q \o <<f, g>> = Append(Append(q, f), g)
<1>1. Append(q, f) \in Seq(S) /\ Append(q, f) = q \o <<f>>  BY AppendProperties, AppendIsConcat
<1>2. Append(Append(q, f), g) = (q \o <<f>>) \o <<g>>  BY <1>1, AppendIsConcat
<1>3. (q \o <<f>>) \o <<g>> = q \o (<<f>> \o <<g>>)  BY ConcatAssociative
<1>4. <<f>> \o <<g>> = <<f, g>>
  <2>1. <<f>> \in Seq(S) /\ <<g>> \in Seq(S) /\ <<f, g>> \in Seq(S)  OBVIOUS
  <2>2. /\ Len(<<f>>) = 1 /\ Len(<<g>>) = 1 /\ Len(<<f, g>>) = 2
        /\ <<f>>[1] = f /\ <<g>>[1] = g /\ <<f, g>>[1] = f /\ <<f, g>>[2] = g
    OBVIOUS
  <2>3. /\ <<f>> \o <<g>> \in Seq(S) /\ Len(<<f>> \o <<g>>) = 2
        /\ (<<f>> \o <<g>>)[1] = f /\ (<<f>> \o <<g>>)[2] = g
    BY <2>1, <2>2, ConcatProperties
  <2>4. \A i \in 1 .. 2 : (<<f>> \o <<g>>)[i] = <<f, g>>[i]  BY <2>2, <2>3
  <2> QED  BY <2>1, <2>2, <2>3, <2>4, SeqEqual
<1> QED  BY <1>2, <1>3, <1>4

(* ----------------------------- subscriptions ---------------------------- *)

LEMMA CommandFacts ==
  ASSUME NEW f \in Commands
  PROVE  /\ SlotOf(f) \in Slots /\ f \in UpFrames /\ f.type \in Kinds
         /\ \/ f.event = Quote /\ f.tf = NoTf /\ SlotOf(f) = Quote
            \/ f.event = "bar" /\ f.tf \in Charts /\ SlotOf(f) = f.tf
         /\ Quote \notin Charts /\ NoTf \notin Charts /\ Quote # "bar"
<1>1. Quote \notin Charts /\ NoTf \notin Charts /\ Quote # "bar"
  BY FanoutAssumption DEF Slots, Quote
<1>2. CASE f \in {Frame(k, Quote, NoTf) : k \in Kinds}
  BY <1>1, <1>2 DEF Commands, Frame, SlotOf, UpFrames, Slots
<1>3. CASE f \in {Frame(k, "bar", tf) : k \in Kinds, tf \in Charts}
  BY <1>1, <1>3 DEF Commands, Frame, SlotOf, UpFrames, Slots
<1> QED  BY <1>1, <1>2, <1>3 DEF Commands

LEMMA SubscribeAdds ==
  ASSUME NEW w \in Subscriptions, NEW f \in Commands
  PROVE  /\ Subscribe(w, f) \in Subscriptions
         /\ \A s \in Slots : Holds(Subscribe(w, f), s) <=> s = SlotOf(f) \/ Holds(w, s)
<1> DEFINE v == Subscribe(w, f)
<1>1. /\ w.events \in SUBSET Events /\ w.tfs \in SUBSET Charts /\ ("bar" \in w.events <=> w.tfs # {})
      /\ NoTf \notin w.tfs /\ Events = {Quote, "bar"}
  BY FanoutAssumption DEF Subscriptions, Slots, Events
<1>2. /\ v.events = w.events \cup {f.event}
      /\ v.tfs = IF f.event = Quote THEN w.tfs ELSE w.tfs \cup {f.tf}
      /\ v = [events |-> v.events, tfs |-> v.tfs]
  BY <1>1, CommandFacts DEF Subscribe
<1> HIDE DEF v
<1>3. CASE f.event = Quote
  BY <1>1, <1>2, <1>3, CommandFacts DEF Subscriptions, Holds, Slots, v
<1>4. CASE f.event = "bar"
  <2>1. f.tf \in Charts /\ SlotOf(f) = f.tf /\ Quote # "bar" /\ Quote \notin Charts
    BY <1>4, CommandFacts
  <2>2. /\ v.events = w.events \cup {"bar"} /\ v.tfs = w.tfs \cup {f.tf}
        /\ v \in [events : SUBSET Events, tfs : SUBSET Charts]
    BY <1>1, <1>2, <1>4, <2>1
  <2>3. v \in Subscriptions  BY <2>2 DEF Subscriptions
  <2> QED  BY <2>1, <2>2, <2>3 DEF Holds, Slots, v
<1> QED  BY <1>3, <1>4, CommandFacts

LEMMA UnsubscribeRemoves ==
  ASSUME NEW w \in Subscriptions, NEW f \in Commands
  PROVE  /\ Unsubscribe(w, f) \in Subscriptions
         /\ \A s \in Slots : Holds(Unsubscribe(w, f), s) <=> s # SlotOf(f) /\ Holds(w, s)
<1> DEFINE v == Unsubscribe(w, f)
<1>1. /\ w = [events |-> w.events, tfs |-> w.tfs]
      /\ w.events \in SUBSET Events /\ w.tfs \in SUBSET Charts /\ ("bar" \in w.events <=> w.tfs # {})
      /\ NoTf \notin w.tfs /\ Events = {Quote, "bar"}
  BY FanoutAssumption DEF Subscriptions, Slots, Events
<1>2. CASE f.event = Quote
  <2>1. v = [events |-> w.events \ {Quote}, tfs |-> w.tfs]
    BY <1>2 DEF Unsubscribe
  <2> QED  BY <1>1, <1>2, <2>1, CommandFacts DEF Subscriptions, Holds, Slots
<1>3. CASE f.event = "bar"
  <2>1. f.tf \in Charts /\ SlotOf(f) = f.tf /\ Quote # "bar" /\ NoTf \notin Charts /\ Quote \notin Charts
    BY <1>3, CommandFacts
  <2>2. CASE w.tfs \ {f.tf} # {}
    <3>1. v = [events |-> w.events, tfs |-> w.tfs \ {f.tf}]
      BY <1>1, <1>3, <2>1, <2>2 DEF Unsubscribe
    <3> QED  BY <1>1, <2>1, <2>2, <3>1 DEF Subscriptions, Holds, Slots
  <2>3. CASE w.tfs \ {f.tf} = {}
    <3>1. v = [events |-> w.events \ {"bar"}, tfs |-> {}]
      BY <1>1, <1>3, <2>1, <2>3 DEF Unsubscribe
    <3> QED  BY <1>1, <2>1, <2>3, <3>1 DEF Subscriptions, Holds, Slots
  <2> QED  BY <2>2, <2>3
<1> QED  BY <1>2, <1>3, CommandFacts

LEMMA ResultsEmpty ==
  ASSUME NEW held \in BOOLEAN, NEW s
  PROVE  Results(<<>>, held, s) <=> held
BY DEF Results

LEMMA ResultsAppend ==
  ASSUME NEW q \in Seq(Commands), NEW f \in Commands, NEW held \in BOOLEAN, NEW s \in Slots
  PROVE  /\ SlotOf(f) = s => (Results(Append(q, f), held, s) <=> f.type = "subscribe")
         /\ SlotOf(f) # s => (Results(Append(q, f), held, s) <=> Results(q, held, s))
<1> DEFINE r == Append(q, f)
<1>1. /\ Len(q) \in Nat /\ Len(r) = Len(q) + 1 /\ \A i \in 1 .. Len(q) : r[i] = q[i]
      /\ r[Len(q) + 1] = f
  BY Appended
<1> HIDE DEF r
<1>2. CASE SlotOf(f) = s
  <2>1. Len(q) + 1 \in 1 .. Len(r) /\ SlotOf(r[Len(q) + 1]) = s  BY <1>1, <1>2
  <2>2. \A i \in 1 .. Len(r) : i = Len(q) + 1 \/ Len(q) + 1 > i  BY <1>1
  <2>3. f.type = "subscribe" => Results(r, held, s)
    BY <1>1, <1>2, <2>1 DEF Results
  <2>4. Results(r, held, s) => f.type = "subscribe"
    BY <1>1, <2>1, <2>2 DEF Results
  <2> QED  BY <1>2, <2>3, <2>4 DEF r
<1>3. CASE SlotOf(f) # s
  <2>1. ASSUME Results(r, held, s) PROVE Results(q, held, s)
    <3>1. CASE \E i \in 1 .. Len(r) : /\ SlotOf(r[i]) = s /\ r[i].type = "subscribe"
                                      /\ \A j \in 1 .. Len(r) : j > i => SlotOf(r[j]) # s
      <4>1. PICK i \in 1 .. Len(r) : /\ SlotOf(r[i]) = s /\ r[i].type = "subscribe"
                                     /\ \A j \in 1 .. Len(r) : j > i => SlotOf(r[j]) # s
        BY <3>1
      <4>2. i \in 1 .. Len(q)  BY <1>1, <1>3, <4>1
      <4>3. \A j \in 1 .. Len(q) : j > i => SlotOf(q[j]) # s  BY <1>1, <4>1
      <4> QED  BY <1>1, <4>1, <4>2, <4>3 DEF Results
    <3>2. CASE held /\ \A i \in 1 .. Len(r) : SlotOf(r[i]) # s
      <4>1. \A i \in 1 .. Len(q) : SlotOf(q[i]) # s  BY <1>1, <3>2
      <4> QED  BY <3>2, <4>1 DEF Results
    <3> QED  BY <2>1, <3>1, <3>2 DEF Results
  <2>2. ASSUME Results(q, held, s) PROVE Results(r, held, s)
    <3>1. CASE \E i \in 1 .. Len(q) : /\ SlotOf(q[i]) = s /\ q[i].type = "subscribe"
                                      /\ \A j \in 1 .. Len(q) : j > i => SlotOf(q[j]) # s
      <4>1. PICK i \in 1 .. Len(q) : /\ SlotOf(q[i]) = s /\ q[i].type = "subscribe"
                                     /\ \A j \in 1 .. Len(q) : j > i => SlotOf(q[j]) # s
        BY <3>1
      <4>2. i \in 1 .. Len(r)  BY <1>1
      <4>3. ASSUME NEW j \in 1 .. Len(r), j > i PROVE SlotOf(r[j]) # s
        <5>1. CASE j = Len(q) + 1  BY <1>1, <1>3, <5>1
        <5>2. CASE j # Len(q) + 1
          <6>1. j \in 1 .. Len(q)  BY <1>1, <5>2
          <6> QED  BY <1>1, <4>1, <4>3, <6>1
        <5> QED  BY <5>1, <5>2
      <4> QED  BY <1>1, <4>1, <4>2, <4>3 DEF Results
    <3>2. CASE held /\ \A i \in 1 .. Len(q) : SlotOf(q[i]) # s
      <4>1. ASSUME NEW j \in 1 .. Len(r) PROVE SlotOf(r[j]) # s
        <5>1. CASE j = Len(q) + 1  BY <1>1, <1>3, <5>1
        <5>2. CASE j # Len(q) + 1
          <6>1. j \in 1 .. Len(q)  BY <1>1, <5>2
          <6> QED  BY <1>1, <3>2, <6>1
        <5> QED  BY <5>1, <5>2
      <4> QED  BY <3>2, <4>1 DEF Results
    <3> QED  BY <2>2, <3>1, <3>2 DEF Results
  <2> QED  BY <1>3, <2>1, <2>2 DEF r
<1> QED  BY <1>2, <1>3

LEMMA ResultsTail ==
  ASSUME NEW q \in Seq(Commands), q # <<>>, NEW held \in BOOLEAN, NEW then \in BOOLEAN, NEW s \in Slots,
         then <=> IF SlotOf(Head(q)) = s THEN Head(q).type = "subscribe" ELSE held
  PROVE  Results(Tail(q), then, s) <=> Results(q, held, s)
<1> DEFINE r == Tail(q)
<1>1. /\ Len(q) \in Nat \ {0} /\ Len(r) = Len(q) - 1 /\ \A i \in 1 .. Len(r) : r[i] = q[i + 1]
      /\ Head(q) = q[1]
  BY Shortened
<1> HIDE DEF r
<1>2. ASSUME Results(r, then, s) PROVE Results(q, held, s)
  <2>1. CASE \E i \in 1 .. Len(r) : /\ SlotOf(r[i]) = s /\ r[i].type = "subscribe"
                                    /\ \A j \in 1 .. Len(r) : j > i => SlotOf(r[j]) # s
    <3>1. PICK i \in 1 .. Len(r) : /\ SlotOf(r[i]) = s /\ r[i].type = "subscribe"
                                   /\ \A j \in 1 .. Len(r) : j > i => SlotOf(r[j]) # s
      BY <2>1
    <3>2. i + 1 \in 1 .. Len(q)  BY <1>1
    <3>3. ASSUME NEW j \in 1 .. Len(q), j > i + 1 PROVE SlotOf(q[j]) # s
      <4>1. j - 1 \in 1 .. Len(r) /\ j - 1 > i /\ (j - 1) + 1 = j  BY <1>1, <3>3
      <4>2. r[j - 1] = q[j]  BY <1>1, <4>1
      <4> QED  BY <3>1, <4>1, <4>2
    <3> QED  BY <1>1, <3>1, <3>2, <3>3 DEF Results
  <2>2. CASE then /\ \A i \in 1 .. Len(r) : SlotOf(r[i]) # s
    <3>1. \A j \in 1 .. Len(q) : j > 1 => SlotOf(q[j]) # s
      <4> SUFFICES ASSUME NEW j \in 1 .. Len(q), j > 1 PROVE SlotOf(q[j]) # s
        OBVIOUS
      <4>1. j - 1 \in 1 .. Len(r) /\ (j - 1) + 1 = j  BY <1>1
      <4>2. r[j - 1] = q[j]  BY <1>1, <4>1
      <4> QED  BY <2>2, <4>1, <4>2
    <3>2. 1 \in 1 .. Len(q)  BY <1>1
    <3>3. CASE SlotOf(q[1]) = s
      BY <1>1, <2>2, <3>1, <3>2, <3>3 DEF Results
    <3>4. CASE SlotOf(q[1]) # s
      <4>1. held  BY <1>1, <2>2, <3>4
      <4>2. \A j \in 1 .. Len(q) : SlotOf(q[j]) # s  BY <1>1, <3>1, <3>4
      <4> QED  BY <4>1, <4>2 DEF Results
    <3> QED  BY <3>3, <3>4
  <2> QED  BY <1>2, <2>1, <2>2 DEF Results
<1>3. ASSUME Results(q, held, s) PROVE Results(r, then, s)
  <2>1. CASE \E i \in 1 .. Len(q) : /\ SlotOf(q[i]) = s /\ q[i].type = "subscribe"
                                    /\ \A j \in 1 .. Len(q) : j > i => SlotOf(q[j]) # s
    <3>1. PICK i \in 1 .. Len(q) : /\ SlotOf(q[i]) = s /\ q[i].type = "subscribe"
                                   /\ \A j \in 1 .. Len(q) : j > i => SlotOf(q[j]) # s
      BY <2>1
    <3>2. \A j \in 1 .. Len(r) : j + 1 > i => SlotOf(r[j]) # s  BY <1>1, <3>1
    <3>3. CASE i = 1
      <4>1. then  BY <1>1, <3>1, <3>3
      <4>2. \A j \in 1 .. Len(r) : SlotOf(r[j]) # s  BY <1>1, <3>2, <3>3
      <4> QED  BY <4>1, <4>2 DEF Results
    <3>4. CASE i # 1
      <4>1. i - 1 \in 1 .. Len(r) /\ (i - 1) + 1 = i  BY <1>1, <3>4
      <4>2. r[i - 1] = q[i]  BY <1>1, <4>1
      <4>3. \A j \in 1 .. Len(r) : j > i - 1 => SlotOf(r[j]) # s  BY <1>1, <3>2
      <4> QED  BY <3>1, <4>1, <4>2, <4>3 DEF Results
    <3> QED  BY <3>3, <3>4
  <2>2. CASE held /\ \A i \in 1 .. Len(q) : SlotOf(q[i]) # s
    <3>1. then  BY <1>1, <2>2
    <3>2. \A j \in 1 .. Len(r) : SlotOf(r[j]) # s  BY <1>1, <2>2
    <3> QED  BY <3>1, <3>2 DEF Results
  <2> QED  BY <1>3, <2>1, <2>2 DEF Results
<1> QED  BY <1>2, <1>3 DEF r

(* -------------------------- steps of the backend ------------------------ *)

LEMMA HoldsBoolean ==
  ASSUME NEW w, NEW s
  PROVE  Holds(w, s) \in BOOLEAN
<1>1. CASE s = Quote  BY <1>1 DEF Holds
<1>2. CASE s # Quote  BY <1>2 DEF Holds
<1> QED  BY <1>1, <1>2

LEMMA ConnectionFacts ==
  ASSUME PageTypes
  PROVE  /\ Connections = 1 .. (MaxFaults + 1) /\ None \notin Connections
         /\ used \in Nat /\ socket \in Nat /\ MaxFaults \in Nat
         /\ socket # None => socket \in Connections /\ socket <= used
BY FanoutAssumption DEF Connections, None, PageTypes

LEMMA NothingSubscribed ==
  /\ NoSubscription \in Subscriptions
  /\ \A s \in Slots : Holds(NoSubscription, s) = FALSE
BY DEF NoSubscription, Subscriptions, Holds

LEMMA Delivered ==
  ASSUME ConnectionTypes, NEW c \in Connections, NEW f \in DownFrames, f # OpenFrame, Deliver(c, f)
  PROVE  \E d \in Seq(DownFrames) :
           /\ down' = [down EXCEPT ![c] = d]
           /\ \A i \in 1 .. Len(d) :
                d[i] = OpenFrame => i \in 1 .. Len(down[c]) /\ down[c][i] = OpenFrame
<1> DEFINE d == IF line[c] = "cut" THEN down[c] ELSE Append(down[c], f)
<1>1. down[c] \in Seq(DownFrames) /\ down' = [down EXCEPT ![c] = d]
  BY DEF ConnectionTypes, Deliver
<1>2. /\ Len(down[c]) \in Nat /\ Append(down[c], f) \in Seq(DownFrames)
      /\ Len(Append(down[c], f)) = Len(down[c]) + 1
      /\ \A i \in 1 .. Len(down[c]) : Append(down[c], f)[i] = down[c][i]
      /\ Append(down[c], f)[Len(down[c]) + 1] = f
  BY <1>1, Appended
<1>3. CASE line[c] = "cut"
  BY <1>1, <1>3
<1>4. CASE line[c] # "cut"
  <2>1. ASSUME NEW i \in 1 .. Len(Append(down[c], f)), Append(down[c], f)[i] = OpenFrame
        PROVE  i \in 1 .. Len(down[c]) /\ down[c][i] = OpenFrame
    <3>1. i # Len(down[c]) + 1  BY <1>2, <2>1
    <3>2. i \in 1 .. Len(down[c])  BY <1>2, <3>1
    <3> QED  BY <1>2, <2>1, <3>2
  <2> QED  BY <1>1, <1>2, <1>4, <2>1
<1> QED  BY <1>3, <1>4

(* Connections other than c stay as they are.                              *)
Elsewhere(c) ==
  \A e \in Connections \ {c} :
    /\ line'[e] = line[e] /\ up'[e] = up[e] /\ down'[e] = down[e]
    /\ peer'[e] = peer[e] /\ wanted'[e] = wanted[e]

LEMMA SStutter ==
  ASSUME SInv, UNCHANGED <<page, wire, clients>>
  PROVE  SInv'
BY DEF SInv, PageTypes, ConnectionTypes, Opening, Waiting, Agreeing, Remembers, page, wire, clients

LEMMA ConnectionMoved ==
  ASSUME SInv, NEW c \in Connections, peer[c] # "none", UNCHANGED <<page, used>>,
         ConnectionTypes', Elsewhere(c),
         peer'[c] = "waiting" => down'[c] = <<>> /\ wanted'[c] = NoSubscription, peer'[c] # "none",
         \A i \in 1 .. Len(down'[c]) : down'[c][i] = OpenFrame => i = 1,
         ready /\ socket = c =>
           /\ peer'[c] # "waiting"
           /\ \A i \in 1 .. Len(down'[c]) : down'[c][i] # OpenFrame
           /\ up'[c] \in Seq(Commands)
           /\ line'[c] = "up" /\ peer'[c] = "registered" =>
                \A s \in Slots : Results(up'[c], Holds(wanted'[c], s), s) <=> Remembers(s),
         ~ready /\ socket = c => up'[c] = <<>> /\ wanted'[c] = NoSubscription
  PROVE  SInv'
<1>1. \A e \in Connections \ {c} :
        /\ line'[e] = line[e] /\ up'[e] = up[e] /\ down'[e] = down[e]
        /\ peer'[e] = peer[e] /\ wanted'[e] = wanted[e]
  BY DEF Elsewhere
<1>2. PageTypes' /\ ConnectionTypes'
  BY DEF SInv, PageTypes, page
<1>3. c <= used
  BY ConnectionFacts DEF SInv, Opening
<1>4. Opening'
  <2>1. (socket # None => mounted)' /\ (ready => socket # None)'  BY DEF SInv, Opening, page
  <2>2. ASSUME NEW e \in Connections
        PROVE  (/\ e > used => peer[e] = "none" /\ line[e] = "up" /\ up[e] = <<>>
                /\ peer[e] \in {"none", "waiting"} => down[e] = <<>> /\ wanted[e] = NoSubscription
                /\ \A i \in 1 .. Len(down[e]) : down[e][i] = OpenFrame => i = 1
                /\ ready /\ socket = e => /\ peer[e] \notin {"none", "waiting"}
                                          /\ \A i \in 1 .. Len(down[e]) : down[e][i] # OpenFrame
                /\ ~ready /\ socket = e => up[e] = <<>> /\ wanted[e] = NoSubscription)'
    <3>1. CASE e = c
      <4>1. ~(e > used)  BY <1>3, <3>1, ConnectionFacts DEF SInv
      <4> QED  BY <1>1, <3>1, <4>1 DEF page
    <3>2. CASE e # c
      BY <1>1, <3>2 DEF SInv, Opening, page
    <3> QED  BY <3>1, <3>2
  <2> QED  BY <2>1, <2>2 DEF Opening
<1>5. Waiting'
  BY DEF SInv, Waiting, Remembers, page
<1>6. Agreeing'
  <2> SUFFICES ASSUME NEW e \in Connections, socket = e, ready
               PROVE  /\ up'[e] \in Seq(Commands)
                      /\ line'[e] = "up" /\ peer'[e] = "registered" =>
                           \A s \in Slots : Results(up'[e], Holds(wanted'[e], s), s) <=> Remembers(s)
    BY DEF Agreeing, Remembers, page
  <2>1. CASE e = c
    BY <1>1, <2>1
  <2>2. CASE e # c
    BY <1>1, <2>2 DEF SInv, Agreeing
  <2> QED  BY <2>1, <2>2
<1> QED  BY <1>2, <1>4, <1>5, <1>6 DEF SInv

(* What the invariant says of one connection.                              *)
LEMMA AtConnection ==
  ASSUME SInv, NEW c \in Connections
  PROVE  /\ peer[c] \in {"none", "waiting"} => down[c] = <<>> /\ wanted[c] = NoSubscription
         /\ \A i \in 1 .. Len(down[c]) : down[c][i] = OpenFrame => i = 1
         /\ ready /\ socket = c => /\ peer[c] \notin {"none", "waiting"}
                                   /\ \A i \in 1 .. Len(down[c]) : down[c][i] # OpenFrame
         /\ ~ready /\ socket = c => up[c] = <<>> /\ wanted[c] = NoSubscription
         /\ ready /\ socket = c =>
              /\ up[c] \in Seq(Commands)
              /\ line[c] = "up" /\ peer[c] = "registered" =>
                   \A s \in Slots : Results(up[c], Holds(wanted[c], s), s) <=> Remembers(s)
         /\ line[c] \in {"up", "cut"} /\ up[c] \in Seq(UpFrames) /\ down[c] \in Seq(DownFrames)
         /\ peer[c] \in PeerStates /\ wanted[c] \in Subscriptions /\ silent[c] \in 0 .. 2
BY DEF SInv, Opening, Agreeing, ConnectionTypes

(* The client leaves: it is dropped, or its task ends.                     *)
LEMMA LeaveKept ==
  ASSUME SInv, NEW c \in Connections, NEW how \in {"dropped", "ended"}, Leave(c, how),
         peer[c] \in {"registered", "dropped"}, UNCHANGED <<page, used, line>>,
         up' = up \/ (up' = [up EXCEPT ![c] = Tail(@)] /\ up[c] # <<>>),
         NEW d \in Seq(DownFrames), down' = [down EXCEPT ![c] = d],
         \A i \in 1 .. Len(d) : d[i] = OpenFrame => i \in 1 .. Len(down[c]) /\ down[c][i] = OpenFrame
  PROVE  SInv'
<1>1. /\ peer' = [peer EXCEPT ![c] = how] /\ wanted' = [wanted EXCEPT ![c] = NoSubscription]
      /\ silent' = [silent EXCEPT ![c] = 0]
  BY DEF Leave
<1>2. /\ up'[c] \in Seq(UpFrames) /\ up' \in [Connections -> Seq(UpFrames)]
      /\ \A e \in Connections \ {c} : up'[e] = up[e]
      /\ ready /\ socket = c => up'[c] \in Seq(Commands)
      /\ ~ready /\ socket = c => up'[c] = <<>>
  <2>1. up \in [Connections -> Seq(UpFrames)] /\ up[c] \in Seq(UpFrames)
    BY DEF SInv, ConnectionTypes
  <2>2. CASE up' = up
    BY <2>1, <2>2, AtConnection
  <2>3. CASE up' = [up EXCEPT ![c] = Tail(@)] /\ up[c] # <<>>
    <3>1. Tail(up[c]) \in Seq(UpFrames)  BY <2>1, <2>3, Shortened
    <3>2. ready /\ socket = c => Tail(up[c]) \in Seq(Commands)  BY <2>3, AtConnection, Shortened
    <3> QED  BY <2>1, <2>3, <3>1, <3>2, AtConnection
  <2> QED  BY <2>2, <2>3
<1>3. how \in PeerStates /\ NoSubscription \in Subscriptions /\ 0 \in 0 .. 2 /\ how # "waiting" /\ how # "none"
      /\ how # "registered"
  BY NothingSubscribed DEF PeerStates
<1>4. /\ \A i \in 1 .. Len(d) : d[i] = OpenFrame => i = 1
      /\ ready /\ socket = c => \A i \in 1 .. Len(d) : d[i] # OpenFrame
  BY AtConnection
<1>5. ConnectionTypes'
  BY <1>1, <1>2, <1>3 DEF SInv, ConnectionTypes
<1>6. Elsewhere(c) /\ down'[c] = d /\ peer'[c] = how /\ wanted'[c] = NoSubscription
  BY <1>1, <1>2 DEF SInv, ConnectionTypes, Elsewhere
<1>7. peer[c] # "none"
  OBVIOUS
<1> QED  BY <1>2, <1>3, <1>4, <1>5, <1>6, <1>7, ConnectionMoved

LEMMA DropKept ==
  ASSUME SInv, NEW c \in Connections, peer[c] = "registered", Drop(c), UNCHANGED <<page, used, line, up>>
  PROVE  SInv'
<1>1. CloseFrame \in DownFrames /\ CloseFrame # OpenFrame
  BY DEF DownFrames, CloseFrame, OpenFrame
<1>2. PICK d \in Seq(DownFrames) :
        /\ down' = [down EXCEPT ![c] = d]
        /\ \A i \in 1 .. Len(d) : d[i] = OpenFrame => i \in 1 .. Len(down[c]) /\ down[c][i] = OpenFrame
  BY <1>1, Delivered DEF Drop, SInv
<1> QED  BY <1>2, LeaveKept DEF Drop

LEMMA AcceptKept ==
  ASSUME SInv, NEW c \in Connections, Accept(c)
  PROVE  SInv'
<1>1. /\ peer[c] = "waiting" /\ line[c] = "up" /\ peer' = [peer EXCEPT ![c] = "registered"]
      /\ silent' = [silent EXCEPT ![c] = 0]
      /\ down' = [down EXCEPT ![c] = IF line[c] = "cut" THEN @ ELSE Append(@, OpenFrame)]
      /\ UNCHANGED <<page, used, line, up, wanted>>
  BY DEF Accept, Deliver
<1>2. down[c] = <<>> /\ wanted[c] = NoSubscription /\ ~(ready /\ socket = c)
      /\ (socket = c => up[c] = <<>>)
  BY <1>1, AtConnection
<1>3. down' = [down EXCEPT ![c] = <<OpenFrame>>]
  BY <1>1, <1>2 DEF SInv, ConnectionTypes
<1>4. <<OpenFrame>> \in Seq(DownFrames) /\ Len(<<OpenFrame>>) = 1
  BY DEF DownFrames
<1>5. ConnectionTypes'
  BY <1>1, <1>3, <1>4 DEF SInv, ConnectionTypes, PeerStates
<1>6. /\ Elsewhere(c) /\ down'[c] = <<OpenFrame>> /\ peer'[c] = "registered"
      /\ wanted'[c] = NoSubscription /\ up'[c] = up[c]
  BY <1>1, <1>2, <1>3 DEF SInv, ConnectionTypes, Elsewhere
<1>7. \A i \in 1 .. Len(down'[c]) : i = 1
  BY <1>4, <1>6
<1> QED  BY <1>1, <1>2, <1>5, <1>6, <1>7, ConnectionMoved

LEMMA HandleFrameKept ==
  ASSUME SInv, NEW c \in Connections, HandleFrame(c)
  PROVE  SInv'
<1> DEFINE f == Head(up[c])
<1>1. /\ peer[c] \in {"registered", "dropped"} /\ up[c] # <<>>
      /\ up' = [up EXCEPT ![c] = Tail(@)] /\ UNCHANGED <<page, used, line, down>>
  BY DEF HandleFrame
<1>2. up[c] \in Seq(UpFrames) /\ f \in UpFrames /\ Tail(up[c]) \in Seq(UpFrames)
  BY <1>1, AtConnection, Shortened
<1>3. CASE peer[c] = "dropped" \/ f.type = "close"
  <2>1. Leave(c, "ended")  BY <1>3 DEF HandleFrame
  <2>2. down' = [down EXCEPT ![c] = down[c]] /\ down[c] \in Seq(DownFrames)
    BY <1>1 DEF SInv, ConnectionTypes
  <2> QED  BY <1>1, <2>1, <2>2, LeaveKept
<1>4. CASE peer[c] # "dropped" /\ f.type # "close"
  <2> DEFINE w == IF f.type = "subscribe" THEN Subscribe(wanted[c], f) ELSE Unsubscribe(wanted[c], f)
  <2>1. wanted' = [wanted EXCEPT ![c] = w] /\ UNCHANGED <<peer, silent>> /\ peer[c] = "registered"
    BY <1>1, <1>4 DEF HandleFrame
  <2>2. f \in Commands
    BY <1>2, <1>4 DEF UpFrames, CloseFrame
  <2>3. /\ w \in Subscriptions
        /\ \A s \in Slots : Holds(w, s) <=> IF SlotOf(f) = s THEN f.type = "subscribe" ELSE Holds(wanted[c], s)
    <3>1. CASE f.type = "subscribe"
      BY <2>2, <3>1, SubscribeAdds, AtConnection
    <3>2. CASE f.type # "subscribe"
      BY <2>2, <3>2, UnsubscribeRemoves, AtConnection
    <3> QED  BY <3>1, <3>2
  <2> HIDE DEF w
  <2>4. ready \/ socket # c
    BY <1>1, AtConnection
  <2>5. ASSUME ready, socket = c, line[c] = "up", NEW s \in Slots
        PROVE  Results(Tail(up[c]), Holds(w, s), s) <=> Remembers(s)
    <3>1. up[c] \in Seq(Commands) /\ (Results(up[c], Holds(wanted[c], s), s) <=> Remembers(s))
      BY <2>1, <2>5, AtConnection
    <3>2. Holds(w, s) \in BOOLEAN /\ Holds(wanted[c], s) \in BOOLEAN
      BY HoldsBoolean
    <3> QED  BY <1>1, <2>3, <3>1, <3>2, ResultsTail
  <2>6. ready /\ socket = c => Tail(up[c]) \in Seq(Commands)
    BY <1>1, AtConnection, Shortened
  <2>7. ConnectionTypes'
    BY <1>1, <1>2, <2>1, <2>3 DEF SInv, ConnectionTypes
  <2>8. /\ Elsewhere(c) /\ up'[c] = Tail(up[c]) /\ wanted'[c] = w
        /\ UNCHANGED <<line, down, peer>> /\ peer[c] # "waiting" /\ peer[c] # "none"
    BY <1>1, <2>1 DEF SInv, ConnectionTypes, Elsewhere
  <2> QED  BY <1>1, <2>4, <2>5, <2>6, <2>7, <2>8, AtConnection, ConnectionMoved
<1> QED  BY <1>3, <1>4

LEMMA EndpointEndsKept ==
  ASSUME SInv, NEW c \in Connections, EndpointEnds(c)
  PROVE  SInv'
<1>1. peer[c] \in {"registered", "dropped"} /\ Leave(c, "ended") /\ UNCHANGED <<page, used, line, up, down>>
  BY DEF EndpointEnds, wire
<1>2. down' = [down EXCEPT ![c] = down[c]] /\ down[c] \in Seq(DownFrames)
  BY <1>1 DEF SInv, ConnectionTypes
<1> QED  BY <1>1, <1>2, LeaveKept

LEMMA HeartbeatKept ==
  ASSUME SInv, NEW c \in Connections, Heartbeat(c)
  PROVE  SInv'
<1>1. peer[c] = "registered" /\ UNCHANGED <<page, used, line, up>>
  BY DEF Heartbeat
<1>2. CASE silent[c] = 2
  <2>1. Drop(c)  BY <1>2 DEF Heartbeat
  <2> QED  BY <1>1, <2>1, DropKept
<1>3. CASE silent[c] # 2
  <2>1. silent' = [silent EXCEPT ![c] = @ + 1] /\ UNCHANGED <<peer, wanted, down>>
    BY <1>3 DEF Heartbeat
  <2>2. ConnectionTypes'
    <3>1. silent[c] + 1 \in 0 .. 2  BY <1>3, AtConnection
    <3> QED  BY <1>1, <2>1, <3>1 DEF SInv, ConnectionTypes
  <2>3. Elsewhere(c)  BY <1>1, <2>1 DEF Elsewhere
  <2> QED  BY <1>1, <2>1, <2>2, <2>3, AtConnection, ConnectionMoved
<1> QED  BY <1>2, <1>3

LEMMA SendKept ==
  ASSUME SInv, FlushTypes, NEW c \in Connections, SendOk(c) \/ SendFails(c)
  PROVE  SInv'
<1>1. CASE SendOk(c)
  <2>1. batch # <<>> /\ Head(batch) \in EventFrames
    BY <1>1, Shortened DEF SendOk, FlushTypes
  <2>2. Head(batch) \in DownFrames /\ Head(batch) # OpenFrame
    <3>1. Head(batch).type = "event" /\ OpenFrame.type = "open"  BY <2>1 DEF EventFrames, OpenFrame
    <3> QED  BY <2>1, <3>1 DEF DownFrames
  <2>3. PICK d \in Seq(DownFrames) :
          /\ down' = [down EXCEPT ![c] = d]
          /\ \A i \in 1 .. Len(d) : d[i] = OpenFrame => i \in 1 .. Len(down[c]) /\ down[c][i] = OpenFrame
    BY <1>1, <2>2, Delivered DEF SendOk, SInv
  <2>4. peer[c] = "registered" /\ UNCHANGED <<page, used, line, up, peer, wanted, silent>>
    BY <1>1 DEF SendOk, clients
  <2>5. /\ \A i \in 1 .. Len(d) : d[i] = OpenFrame => i = 1
        /\ ready /\ socket = c => \A i \in 1 .. Len(d) : d[i] # OpenFrame
    BY <2>3, AtConnection
  <2>6. ConnectionTypes' /\ Elsewhere(c) /\ down'[c] = d
    BY <2>3, <2>4 DEF SInv, ConnectionTypes, Elsewhere
  <2> QED  BY <2>4, <2>5, <2>6, AtConnection, ConnectionMoved
<1>2. CASE SendFails(c) /\ peer[c] = "registered"
  <2>1. Drop(c) /\ UNCHANGED <<page, used, line, up>>  BY <1>2 DEF SendFails
  <2> QED  BY <1>2, <2>1, DropKept
<1>3. CASE SendFails(c) /\ peer[c] # "registered"
  <2>1. UNCHANGED <<page, wire, clients>>  BY <1>3 DEF SendFails, wire
  <2> QED  BY <2>1, SStutter
<1> QED  BY <1>1, <1>2, <1>3

LEMMA CutLineKept ==
  ASSUME SInv, NEW c \in Connections, CutLine(c)
  PROVE  SInv'
<1>1. /\ peer[c] # "none" /\ line' = [line EXCEPT ![c] = "cut"] /\ up' = [up EXCEPT ![c] = <<>>]
      /\ down' = [down EXCEPT ![c] = <<>>] /\ UNCHANGED <<page, used, peer, wanted, silent>>
  BY DEF CutLine, clients
<1>2. <<>> \in Seq(UpFrames) /\ <<>> \in Seq(DownFrames) /\ <<>> \in Seq(Commands) /\ Len(<<>>) = 0
  OBVIOUS
<1>3. ConnectionTypes'
  BY <1>1, <1>2 DEF SInv, ConnectionTypes
<1>4. /\ Elsewhere(c) /\ line'[c] = "cut" /\ up'[c] = <<>> /\ down'[c] = <<>>
  BY <1>1 DEF SInv, ConnectionTypes, Elsewhere
<1>5. \A i \in 1 .. Len(down'[c]) : FALSE
  BY <1>2, <1>4
<1> QED  BY <1>1, <1>2, <1>3, <1>4, <1>5, AtConnection, ConnectionMoved

LEMMA SlowClientKept ==
  ASSUME SInv, NEW c \in Connections, SlowClient(c)
  PROVE  SInv'
BY DropKept DEF SlowClient

(* ---------------------------- steps of the page ------------------------- *)

(* What is remembered is about the quote and the bars of the chart.        *)
LEMMA RememberedSlots ==
  ASSUME PageTypes
  PROVE  /\ Slotted(remembered) = {s \in Slots : Remembers(s)}
         /\ Quote \in Slots /\ chart \in Slots /\ chart # Quote
<1>1. /\ Quote \notin Charts /\ NoTf \notin Charts /\ Quote # "bar" /\ chart \in Charts
      /\ Slots = {Quote} \cup Charts
  BY FanoutAssumption DEF PageTypes, Slots, Quote
<1>2. CASE mounted
  <2>1. remembered = {<<Quote, NoTf>>, <<"bar", chart>>}  BY <1>2 DEF PageTypes
  <2>2. <<Quote, NoTf>> \in remembered  BY <2>1
  <2>3. \A s \in Charts : <<"bar", s>> \in remembered <=> s = chart  BY <1>1, <2>1
  <2> QED  BY <1>1, <1>2, <2>2, <2>3 DEF Slotted, Remembers
<1>3. CASE ~mounted
  <2>1. remembered = {}  BY <1>3 DEF PageTypes
  <2> QED  BY <1>1, <1>3, <2>1 DEF Slotted, Remembers
<1> QED  BY <1>2, <1>3

LEMMA PageCommands ==
  ASSUME NEW tf \in Charts, NEW k \in Kinds
  PROVE  /\ Frame(k, Quote, NoTf) \in Commands /\ Frame(k, "bar", tf) \in Commands
         /\ SlotOf(Frame(k, Quote, NoTf)) = Quote /\ SlotOf(Frame(k, "bar", tf)) = tf
         /\ Frame(k, Quote, NoTf).type = k /\ Frame(k, "bar", tf).type = k
         /\ tf # Quote /\ tf \in Slots /\ Quote \in Slots
BY FanoutAssumption DEF Commands, Frame, SlotOf, Slots, Quote

(* Two commands more.                                                      *)
LEMMA ResultsTwo ==
  ASSUME NEW q \in Seq(Commands), NEW f \in Commands, NEW g \in Commands, NEW held \in BOOLEAN,
         NEW s \in Slots
  PROVE  /\ q \o <<f, g>> \in Seq(Commands)
         /\ SlotOf(g) = s => (Results(q \o <<f, g>>, held, s) <=> g.type = "subscribe")
         /\ SlotOf(g) # s /\ SlotOf(f) = s => (Results(q \o <<f, g>>, held, s) <=> f.type = "subscribe")
         /\ SlotOf(g) # s /\ SlotOf(f) # s => (Results(q \o <<f, g>>, held, s) <=> Results(q, held, s))
<1>1. Append(q, f) \in Seq(Commands) /\ Append(Append(q, f), g) \in Seq(Commands)
  BY Appended
<1>2. q \o <<f, g>> = Append(Append(q, f), g)
  BY TwoAppended
<1>3. /\ SlotOf(g) = s => (Results(Append(Append(q, f), g), held, s) <=> g.type = "subscribe")
      /\ SlotOf(g) # s => (Results(Append(Append(q, f), g), held, s) <=> Results(Append(q, f), held, s))
  BY <1>1, ResultsAppend
<1>4. /\ SlotOf(f) = s => (Results(Append(q, f), held, s) <=> f.type = "subscribe")
      /\ SlotOf(f) # s => (Results(Append(q, f), held, s) <=> Results(q, held, s))
  BY ResultsAppend
<1> QED  BY <1>1, <1>2, <1>3, <1>4

LEMMA Replayed ==
  ASSUME PageTypes, mounted, NEW q \in Seq(Commands), hasOpened
  PROVE  /\ q \o Resent \in Seq(Commands)
         /\ \A s \in Slots : Results(q \o Resent, FALSE, s) <=> Remembers(s) \/ Results(q, FALSE, s)
<1> DEFINE a == Frame("subscribe", Quote, NoTf)
           b == Frame("subscribe", "bar", chart)
<1>1. /\ chart \in Charts /\ a \in Commands /\ b \in Commands /\ SlotOf(a) = Quote /\ SlotOf(b) = chart
      /\ a.type = "subscribe" /\ b.type = "subscribe" /\ chart # Quote
  BY PageCommands DEF PageTypes, Kinds
<1>2. a # b  BY <1>1
<1>3. Resent = SetToSeq({a, b})
  <2>1. remembered = {<<Quote, NoTf>>, <<"bar", chart>>}  BY DEF PageTypes
  <2>2. {Frame("subscribe", s[1], s[2]) : s \in remembered} = {a, b}  BY <2>1
  <2> QED  BY <2>2 DEF Resent
<1> HIDE DEF a, b
<1>4. Resent = <<a, b>> \/ Resent = <<b, a>>
  <2>1. Cardinality({a, b}) = 2
    <3>1. IsFiniteSet({b}) /\ Cardinality({b}) = 1  BY FS_Singleton
    <3>2. {a, b} = {b} \cup {a} /\ a \notin {b}  BY <1>2
    <3>3. Cardinality({b} \cup {a}) = Cardinality({b}) + 1  BY <3>1, <3>2, FS_AddElement
    <3>4. Cardinality({a, b}) = Cardinality({b} \cup {a})  BY <3>2, Zenon
    <3>5. Cardinality({b} \cup {a}) = 1 + 1  BY <3>1, <3>3, Zenon
    <3>6. 1 + 1 = 2  OBVIOUS
    <3> QED  BY <3>4, <3>5, <3>6, Zenon
  <2>2. <<a, b>> \in [1 .. 2 -> {a, b}] /\ IsInjective(<<a, b>>)
    BY <1>2 DEF IsInjective
  <2>3. Resent \in [1 .. 2 -> {a, b}] /\ IsInjective(Resent)
    BY <1>3, <2>1, <2>2 DEF SetToSeq
  <2>4. Resent[1] \in {a, b} /\ Resent[2] \in {a, b} /\ Resent[1] # Resent[2]
    BY <2>3 DEF IsInjective
  <2>5. Resent = <<Resent[1], Resent[2]>>
    BY <2>3
  <2> QED  BY <2>4, <2>5
<1>5. ASSUME NEW s \in Slots
      PROVE  Results(q \o Resent, FALSE, s) <=> Remembers(s) \/ Results(q, FALSE, s)
  BY <1>1, <1>4, ResultsTwo DEF Remembers
<1>6. q \o Resent \in Seq(Commands)
  <2>1. Quote \in Slots  BY DEF Slots
  <2> QED  BY <1>1, <1>4, <2>1, ResultsTwo
<1> QED  BY <1>5, <1>6

(* The frames of an old connection are nobody's concern any more.          *)
LEMMA ClosedUp ==
  ASSUME SInv, up' = CloseUp(up)
  PROVE  /\ up' \in [Connections -> Seq(UpFrames)]
         /\ \A c \in Connections : socket # c => up'[c] = up[c]
<1>1. up \in [Connections -> Seq(UpFrames)] /\ CloseFrame \in UpFrames
  BY DEF SInv, ConnectionTypes, UpFrames
<1>2. CASE socket = None \/ line[socket] = "cut"
  BY <1>1, <1>2 DEF CloseUp
<1>3. CASE ~(socket = None \/ line[socket] = "cut")
  <2>1. up' = [up EXCEPT ![socket] = Append(@, CloseFrame)]  BY <1>3 DEF CloseUp
  <2>2. socket \in Connections  BY <1>3, ConnectionFacts DEF SInv
  <2>3. Append(up[socket], CloseFrame) \in Seq(UpFrames)  BY <1>1, <2>2, Appended
  <2> QED  BY <1>1, <2>1, <2>2, <2>3
<1> QED  BY <1>2, <1>3

(* A new socket, its connection not yet accepted.                          *)
LEMMA SocketMade ==
  ASSUME SInv, NewSocket(used + 1), UNCHANGED <<line, down, wanted, silent>>, mounted',
         up' \in [Connections -> Seq(UpFrames)],
         \A c \in Connections : socket # c => up'[c] = up[c]
  PROVE  /\ ConnectionTypes' /\ Opening' /\ Agreeing' /\ ~ready'
         /\ used' \in 0 .. (MaxFaults + 1) /\ socket' \in 0 .. used'
<1> DEFINE c == used + 1
<1>1. /\ c \in Connections /\ used' = c /\ socket' = c /\ ready' = FALSE
      /\ peer' = [peer EXCEPT ![c] = "waiting"]
  BY DEF NewSocket
<1>2. Connections = 1 .. (MaxFaults + 1) /\ used \in Nat /\ socket \in Nat /\ socket <= used /\ None = 0
      /\ MaxFaults \in Nat
  BY ConnectionFacts DEF SInv, PageTypes, None
<1>3. /\ peer'[c] = "waiting" /\ \A e \in Connections \ {c} : peer'[e] = peer[e]
      /\ ConnectionTypes'
  BY <1>1 DEF SInv, ConnectionTypes, PeerStates
<1>4. peer[c] = "none" /\ up'[c] = <<>> /\ down[c] = <<>> /\ wanted[c] = NoSubscription /\ Len(<<>>) = 0
  <2>1. c > used /\ socket # c  BY <1>2
  <2> QED  BY <1>1, <2>1 DEF SInv, Opening
<1>5. Opening'
  <2>1. ASSUME NEW e \in Connections
        PROVE  (/\ e > used => peer[e] = "none" /\ line[e] = "up" /\ up[e] = <<>>
                /\ peer[e] \in {"none", "waiting"} => down[e] = <<>> /\ wanted[e] = NoSubscription
                /\ \A i \in 1 .. Len(down[e]) : down[e][i] = OpenFrame => i = 1
                /\ ready /\ socket = e => /\ peer[e] \notin {"none", "waiting"}
                                          /\ \A i \in 1 .. Len(down[e]) : down[e][i] # OpenFrame
                /\ ~ready /\ socket = e => up[e] = <<>> /\ wanted[e] = NoSubscription)'
    <3>1. CASE e = c
      <4>1. ~(e > used')  BY <1>1, <1>2, <3>1
      <4>2. \A i \in 1 .. Len(down[e]) : FALSE  BY <1>4, <3>1
      <4> QED  BY <1>1, <1>3, <1>4, <3>1, <4>1, <4>2
    <3>2. CASE e # c
      <4>1. e > used' => e > used /\ socket # e  BY <1>1, <1>2
      <4> QED  BY <1>1, <1>3, <3>2, <4>1 DEF SInv, Opening
    <3> QED  BY <3>1, <3>2
  <2>2. socket' # None  BY <1>1, <1>2
  <2> QED  BY <1>1, <2>1, <2>2 DEF Opening
<1>6. Agreeing'
  BY <1>1 DEF Agreeing
<1>7. used' \in 0 .. (MaxFaults + 1) /\ socket' \in 0 .. used'
  BY <1>1, <1>2
<1> QED  BY <1>1, <1>3, <1>5, <1>6, <1>7

LEMMA MountKept ==
  ASSUME SInv, Mount
  PROVE  SInv'
<1> DEFINE f == Frame("subscribe", Quote, NoTf)
           g == Frame("subscribe", "bar", chart)
<1>1. /\ ~mounted /\ mounted' = TRUE /\ NewSocket(used + 1)
      /\ remembered' = {<<Quote, NoTf>>, <<"bar", chart>>} /\ unsent' = unsent \o <<f, g>>
      /\ UNCHANGED <<chart, hasOpened, seen, line, up, down, wanted, silent>>
  BY DEF Mount
<1>2. /\ ConnectionTypes' /\ Opening' /\ Agreeing' /\ ~ready'
      /\ used' \in 0 .. (MaxFaults + 1) /\ socket' \in 0 .. used'
  <2>1. up' \in [Connections -> Seq(UpFrames)] /\ \A c \in Connections : up'[c] = up[c]
    BY <1>1 DEF SInv, ConnectionTypes
  <2> QED  BY <1>1, <2>1, SocketMade
<1>3. /\ unsent \in Seq(Commands) /\ chart \in Charts /\ f \in Commands /\ g \in Commands
      /\ SlotOf(f) = Quote /\ SlotOf(g) = chart /\ f.type = "subscribe" /\ g.type = "subscribe"
      /\ Quote \in Slots /\ chart # Quote
  BY PageCommands DEF SInv, PageTypes, Kinds
<1> HIDE DEF f, g
<1>4. /\ unsent \o <<f, g>> \in Seq(Commands)
      /\ \A s \in Slots : Results(unsent', FALSE, s) <=> s \in {Quote, chart} \/ Results(unsent, FALSE, s)
  BY <1>1, <1>3, ResultsTwo
<1>5. PageTypes'
  BY <1>1, <1>2, <1>4 DEF SInv, PageTypes, NewSocket
<1>6. Waiting'
  BY <1>1, <1>2, <1>4 DEF SInv, Waiting, Remembers
<1> QED  BY <1>2, <1>5, <1>6 DEF SInv

LEMMA UnmountKept ==
  ASSUME SInv, Unmount
  PROVE  SInv'
<1> DEFINE f == Frame("unsubscribe", Quote, NoTf)
           g == Frame("unsubscribe", "bar", chart)
<1>1. /\ mounted' = FALSE /\ up' = CloseUp(up) /\ socket' = None /\ ready' = FALSE /\ remembered' = {}
      /\ unsent' = <<f, g>>
      /\ UNCHANGED <<chart, hasOpened, seen, used, line, down, peer, wanted, silent>>
  BY DEF Unmount, clients
<1>2. /\ chart \in Charts /\ f \in Commands /\ g \in Commands
      /\ SlotOf(f) = Quote /\ SlotOf(g) = chart /\ f.type # "subscribe" /\ g.type # "subscribe"
      /\ Quote \in Slots
  BY PageCommands DEF SInv, PageTypes, Kinds
<1> HIDE DEF f, g
<1>3. /\ unsent' \in Seq(Commands)
      /\ \A s \in Slots : ~Results(unsent', FALSE, s)
  <2>1. <<>> \in Seq(Commands) /\ <<f, g>> \in Seq(Commands)  BY <1>2
  <2>2. <<>> \o <<f, g>> = <<f, g>>  BY <2>1, ConcatEmptySeq
  <2>3. \A s \in Slots : ~Results(<<>>, FALSE, s)  BY ResultsEmpty
  <2>4. ASSUME NEW s \in Slots PROVE ~Results(<<>> \o <<f, g>>, FALSE, s)
    <3>1. CASE SlotOf(g) = s  BY <1>2, <2>1, <3>1, ResultsTwo
    <3>2. CASE SlotOf(g) # s /\ SlotOf(f) = s  BY <1>2, <2>1, <3>2, ResultsTwo
    <3>3. CASE SlotOf(g) # s /\ SlotOf(f) # s  BY <1>2, <2>1, <2>3, <3>3, ResultsTwo
    <3> QED  BY <3>1, <3>2, <3>3
  <2> QED  BY <1>1, <2>1, <2>2, <2>4
<1>4. PageTypes'
  <2>1. None \in 0 .. used  BY ConnectionFacts DEF SInv, None
  <2>2. FALSE \in BOOLEAN  OBVIOUS
  <2> QED  BY <1>1, <1>3, <2>1, <2>2 DEF SInv, PageTypes
<1>8. Waiting'
  BY <1>1, <1>3 DEF Waiting, Remembers
<1>5. ConnectionTypes'
  BY <1>1, ClosedUp DEF SInv, ConnectionTypes
<1>6. Opening'
  <2>1. None \notin Connections  BY ConnectionFacts DEF SInv
  <2>2. ASSUME NEW c \in Connections, c > used PROVE up'[c] = <<>>
    <3>1. socket # c  BY <2>2, ConnectionFacts DEF SInv, PageTypes
    <3> QED  BY <1>1, <2>2, <3>1, ClosedUp DEF SInv, Opening
  <2> QED  BY <1>1, <2>1, <2>2 DEF SInv, Opening
<1>7. Agreeing'
  BY <1>1 DEF Agreeing
<1> QED  BY <1>4, <1>5, <1>6, <1>7, <1>8 DEF SInv

LEMMA ForceReconnectKept ==
  ASSUME SInv, ForceReconnect
  PROVE  SInv'
<1>1. /\ mounted /\ NewSocket(used + 1) /\ up' = CloseUp(up)
      /\ UNCHANGED <<mounted, chart, remembered, unsent, hasOpened, seen, line, down, wanted, silent>>
  BY DEF ForceReconnect
<1>2. /\ ConnectionTypes' /\ Opening' /\ Agreeing' /\ ~ready'
      /\ used' \in 0 .. (MaxFaults + 1) /\ socket' \in 0 .. used'
  BY <1>1, ClosedUp, SocketMade
<1>3. PageTypes'
  BY <1>1, <1>2 DEF SInv, PageTypes, NewSocket
<1>4. Waiting'
  BY <1>1, <1>2 DEF SInv, Waiting, Remembers
<1> QED  BY <1>2, <1>3, <1>4 DEF SInv

LEMMA OnCloseKept ==
  ASSUME SInv, OnClose
  PROVE  SInv'
<1>1. /\ socket' = None /\ ready' = FALSE
      /\ UNCHANGED <<mounted, chart, remembered, unsent, hasOpened, seen, used, line, up, down, peer,
                     wanted, silent>>
  BY DEF OnClose, wire, clients
<1>2. None \notin Connections  BY ConnectionFacts DEF SInv
<1>3. PageTypes'
  <2>1. None \in 0 .. used  BY ConnectionFacts DEF SInv, None
  <2>2. FALSE \in BOOLEAN  OBVIOUS
  <2> QED  BY <1>1, <2>1, <2>2 DEF SInv, PageTypes
<1>4. ConnectionTypes' /\ Waiting'
  BY <1>1 DEF SInv, ConnectionTypes, Waiting, Remembers
<1>5. Opening' /\ Agreeing'
  BY <1>1, <1>2 DEF SInv, Opening, Agreeing
<1> QED  BY <1>3, <1>4, <1>5 DEF SInv

LEMMA ShowChartKept ==
  ASSUME SInv, NEW tf \in Charts, ShowChart(tf)
  PROVE  SInv'
<1> DEFINE f == Frame("unsubscribe", "bar", chart)
           g == Frame("subscribe", "bar", tf)
<1>1. /\ mounted /\ chart' = tf
      /\ remembered' = (remembered \ {<<"bar", chart>>}) \cup {<<"bar", tf>>}
      /\ Send(<<f, g>>)
      /\ UNCHANGED <<mounted, hasOpened, socket, ready, seen, used, line, down, peer, wanted, silent>>
  BY DEF ShowChart, clients
<1>2. /\ chart \in Charts /\ f \in Commands /\ g \in Commands
      /\ SlotOf(f) = chart /\ SlotOf(g) = tf /\ f.type # "subscribe" /\ g.type = "subscribe"
      /\ Quote \in Slots /\ chart # Quote /\ tf # Quote /\ Quote # "bar" /\ Commands \subseteq UpFrames
  BY PageCommands DEF SInv, PageTypes, Kinds, UpFrames, Quote
<1> HIDE DEF f, g
<1>3. remembered' = {<<Quote, NoTf>>, <<"bar", tf>>}
  <2>1. remembered = {<<Quote, NoTf>>, <<"bar", chart>>}  BY <1>1 DEF SInv, PageTypes
  <2> QED  BY <1>1, <1>2, <2>1
<1>4. ASSUME NEW q \in Seq(Commands), NEW held \in BOOLEAN, NEW s \in Slots
      PROVE  /\ q \o <<f, g>> \in Seq(Commands)
             /\ s = tf => Results(q \o <<f, g>>, held, s)
             /\ s # tf /\ s = chart => ~Results(q \o <<f, g>>, held, s)
             /\ s # tf /\ s # chart => (Results(q \o <<f, g>>, held, s) <=> Results(q, held, s))
  BY <1>2, ResultsTwo
<1>5. CASE Open
  <2>1. socket \in Connections /\ ready /\ UNCHANGED unsent
        /\ up' = [up EXCEPT ![socket] = IF line[socket] = "cut" THEN @ ELSE @ \o <<f, g>>]
    BY <1>1, <1>5, ConnectionFacts DEF Open, Send, SInv
  <2>2. /\ up[socket] \in Seq(Commands) /\ up \in [Connections -> Seq(UpFrames)]
        /\ up[socket] \o <<f, g>> \in Seq(Commands)
        /\ Seq(Commands) \subseteq Seq(UpFrames)
    BY <1>2, <1>4, <2>1, AtConnection, SeqMonotonic DEF SInv, ConnectionTypes
  <2>3. /\ up' \in [Connections -> Seq(UpFrames)]
        /\ up'[socket] = IF line[socket] = "cut" THEN up[socket] ELSE up[socket] \o <<f, g>>
        /\ \A c \in Connections : c # socket => up'[c] = up[c]
    BY <2>1, <2>2
  <2>4. PageTypes' /\ ConnectionTypes'
    BY <1>1, <1>3, <2>1, <2>3 DEF SInv, PageTypes, ConnectionTypes
  <2>5. Opening'
    <3>1. \A c \in Connections : c > used => c # socket  BY ConnectionFacts DEF SInv, PageTypes
    <3> QED  BY <1>1, <2>1, <2>3, <3>1 DEF SInv, Opening
  <2>6. Waiting'
    <3>1. unsent = <<>> /\ hasOpened  BY <2>1 DEF SInv, Waiting
    <3> QED  BY <1>1, <2>1, <3>1, ResultsEmpty DEF Waiting
  <2>7. Agreeing'
    <3> SUFFICES /\ up'[socket] \in Seq(Commands)
                 /\ line[socket] = "up" /\ peer[socket] = "registered" =>
                      \A s \in Slots : Results(up'[socket], Holds(wanted[socket], s), s) <=> s \in {Quote, tf}
      BY <1>1, <2>1 DEF Agreeing, Remembers
    <3>1. up'[socket] \in Seq(Commands)
      BY <2>2, <2>3
    <3>2. ASSUME line[socket] = "up", peer[socket] = "registered", NEW s \in Slots
          PROVE  Results(up'[socket], Holds(wanted[socket], s), s) <=> s \in {Quote, tf}
      <4>1. Results(up[socket], Holds(wanted[socket], s), s) <=> s \in {Quote, chart}
        BY <1>1, <2>1, <3>2, AtConnection DEF Remembers
      <4>2. up'[socket] = up[socket] \o <<f, g>> /\ Holds(wanted[socket], s) \in BOOLEAN
        BY <2>3, <3>2, HoldsBoolean
      <4> DEFINE r == up[socket] \o <<f, g>>
      <4>3. /\ s = tf => Results(r, Holds(wanted[socket], s), s)
            /\ s # tf /\ s = chart => ~Results(r, Holds(wanted[socket], s), s)
            /\ s # tf /\ s # chart =>
                 (Results(r, Holds(wanted[socket], s), s) <=> Results(up[socket], Holds(wanted[socket], s), s))
        BY <1>4, <2>2, <4>2
      <4> HIDE DEF r
      <4> QED  BY <1>2, <4>1, <4>2, <4>3 DEF r
    <3> QED  BY <3>1, <3>2
  <2> QED  BY <2>4, <2>5, <2>6, <2>7 DEF SInv
<1>6. CASE ~Open
  <2>1. unsent' = unsent \o <<f, g>> /\ UNCHANGED up  BY <1>1, <1>6 DEF Send
  <2>2. unsent \in Seq(Commands)  BY DEF SInv, PageTypes
  <2>3. unsent' \in Seq(Commands)  BY <1>2, <1>4, <2>1, <2>2
  <2>4. PageTypes' /\ ConnectionTypes' /\ Opening'
    BY <1>1, <1>3, <2>1, <2>3 DEF SInv, PageTypes, ConnectionTypes, Opening
  <2>5. ~ready
    BY <1>6 DEF Open, SInv, Opening
  <2>6. Waiting'
    <3> SUFFICES ASSUME NEW s \in Slots
                 PROVE  /\ Results(unsent', FALSE, s) => s \in {Quote, tf}
                        /\ ~hasOpened /\ s \in {Quote, tf} => Results(unsent', FALSE, s)
      BY <1>1, <2>5 DEF Waiting, Remembers
    <3>1. /\ Results(unsent, FALSE, s) => s \in {Quote, chart}
          /\ ~hasOpened /\ s \in {Quote, chart} => Results(unsent, FALSE, s)
      BY <1>1 DEF SInv, Waiting, Remembers
    <3> QED  BY <1>2, <1>4, <2>1, <2>2, <3>1
  <2>7. Agreeing'
    BY <1>1, <2>5 DEF Agreeing
  <2> QED  BY <2>4, <2>6, <2>7 DEF SInv
<1> QED  BY <1>5, <1>6

LEMMA ReceiveKept ==
  ASSUME SInv, NEW c \in Connections, Receive(c), FlushTypes
  PROVE  SInv'
<1> DEFINE f == Head(down[c])
           d == Tail(down[c])
<1>1. /\ down[c] # <<>> /\ down' = [down EXCEPT ![c] = d]
      /\ UNCHANGED <<mounted, chart, remembered, used, line, peer, wanted, silent>>
  BY DEF Receive, clients
<1>2. /\ d \in Seq(DownFrames) /\ f \in DownFrames /\ f = down[c][1] /\ Len(down[c]) \in Nat \ {0}
      /\ Len(d) = Len(down[c]) - 1 /\ \A i \in 1 .. Len(d) : d[i] = down[c][i + 1]
  BY <1>1, Shortened, AtConnection
<1> HIDE DEF f, d
<1>3. \A i \in 1 .. Len(d) : d[i] # OpenFrame
  <2> SUFFICES ASSUME NEW i \in 1 .. Len(d), d[i] = OpenFrame PROVE FALSE
    OBVIOUS
  <2>1. i + 1 \in 1 .. Len(down[c]) /\ down[c][i + 1] = OpenFrame /\ i + 1 # 1  BY <1>2
  <2> QED  BY <2>1, AtConnection
<1>4. /\ down' \in [Connections -> Seq(DownFrames)] /\ down'[c] = d
      /\ \A e \in Connections \ {c} : down'[e] = down[e]
  BY <1>1, <1>2 DEF SInv, ConnectionTypes
<1>5. peer[c] \notin {"none", "waiting"}
  BY <1>1, AtConnection
<1>6. CASE UNCHANGED <<unsent, hasOpened, socket, ready, seen, up>>
  <2>1. PageTypes' /\ ConnectionTypes' /\ Waiting' /\ Agreeing'
    BY <1>1, <1>4, <1>6 DEF SInv, PageTypes, ConnectionTypes, Waiting, Agreeing, Remembers
  <2>2. Opening'
    BY <1>1, <1>3, <1>4, <1>5, <1>6 DEF SInv, Opening
  <2> QED  BY <2>1, <2>2 DEF SInv
<1>7. CASE Current(c) /\ f.type = "open" /\ OnOpen(c) /\ UNCHANGED <<socket, seen>>
  <2>1. /\ socket = c /\ ready' = TRUE /\ hasOpened' = TRUE /\ unsent' = <<>>
        /\ up' = [up EXCEPT ![c] = IF line[c] = "cut" THEN @ ELSE @ \o unsent \o Resent]
        /\ UNCHANGED <<socket, seen>>
    BY <1>7 DEF Current, OnOpen
  <2>2. f = OpenFrame
    BY <1>2, <1>7 DEF DownFrames, EventFrames, OpenFrame, CloseFrame
  <2>3. ~ready /\ up[c] = <<>> /\ wanted[c] = NoSubscription
    <3>1. 1 \in 1 .. Len(down[c])  BY <1>2
    <3>2. ~ready
      <4> SUFFICES ASSUME ready PROVE FALSE
        OBVIOUS
      <4>1. \A i \in 1 .. Len(down[c]) : down[c][i] # OpenFrame  BY <2>1, AtConnection
      <4>2. down[c][1] = OpenFrame  BY <1>2, <2>2
      <4> QED  BY <3>1, <4>1, <4>2
    <3> QED  BY <2>1, <3>2, AtConnection
  <2>4. mounted /\ unsent \in Seq(Commands)
    BY <2>1, ConnectionFacts DEF SInv, Opening, PageTypes
  <2> DEFINE q == unsent \o Resent
  <2>5. /\ q \in Seq(Commands)
        /\ \A s \in Slots : Results(q, FALSE, s) <=> Remembers(s)
    <3>1. CASE hasOpened
      BY <2>4, <3>1, Replayed DEF SInv, Waiting
    <3>2. CASE ~hasOpened
      <4>1. q = unsent  BY <2>4, <3>2, ConcatEmptySeq DEF Resent
      <4> QED  BY <2>4, <3>2, <4>1 DEF SInv, Waiting
    <3> QED  BY <3>1, <3>2
  <2>6. /\ up' = [up EXCEPT ![c] = IF line[c] = "cut" THEN <<>> ELSE q]
        /\ Seq(Commands) \subseteq Seq(UpFrames) /\ <<>> \in Seq(Commands)
    <3>1. <<>> \o unsent = unsent  BY <2>4, ConcatEmptySeq
    <3>2. Commands \subseteq UpFrames  BY DEF UpFrames
    <3> QED  BY <2>1, <2>3, <3>1, <3>2, SeqMonotonic DEF SInv, ConnectionTypes
  <2> HIDE DEF q
  <2>7. /\ up' \in [Connections -> Seq(UpFrames)]
        /\ up'[c] = IF line[c] = "cut" THEN <<>> ELSE q
        /\ \A e \in Connections \ {c} : up'[e] = up[e]
    BY <2>5, <2>6 DEF SInv, ConnectionTypes
  <2>8. PageTypes'
    BY <1>1, <2>1, <2>6 DEF SInv, PageTypes
  <2>9. ConnectionTypes'
    BY <1>1, <1>4, <2>7 DEF SInv, ConnectionTypes
  <2>10. Opening'
    <3>1. c <= used /\ used \in Nat /\ Connections \subseteq Nat /\ None \notin Connections
      BY <2>1, ConnectionFacts DEF SInv, PageTypes
    <3>2. ASSUME NEW e \in Connections, e # c PROVE up'[e] = up[e] /\ down'[e] = down[e] /\ socket # e
      BY <1>4, <2>1, <2>7, <3>2
    <3> QED  BY <1>1, <1>3, <1>4, <1>5, <2>1, <3>1, <3>2 DEF SInv, Opening
  <2>11. Waiting'
    BY <1>1, <2>1, ResultsEmpty DEF Waiting
  <2>12. Agreeing'
    <3>1. up'[c] \in Seq(Commands)
      BY <2>5, <2>6, <2>7
    <3>2. ASSUME line[c] = "up", NEW s \in Slots
          PROVE  Results(up'[c], Holds(wanted[c], s), s) <=> Remembers(s)
      <4>1. Holds(wanted[c], s) = FALSE  BY <2>3, NothingSubscribed
      <4>2. up'[c] = q  BY <2>7, <3>2
      <4> QED  BY <2>5, <4>1, <4>2
    <3> QED  BY <1>1, <2>1, <3>1, <3>2 DEF Agreeing, Remembers
  <2> QED  BY <2>8, <2>9, <2>10, <2>11, <2>12 DEF SInv
<1>8. CASE socket' = None /\ ready' = FALSE /\ UNCHANGED <<unsent, hasOpened, seen, up>>
  <2>1. None \notin Connections /\ None \in 0 .. used  BY ConnectionFacts DEF SInv, None
  <2>2. FALSE \in BOOLEAN  OBVIOUS
  <2>3. PageTypes'
    BY <1>1, <1>8, <2>1, <2>2 DEF SInv, PageTypes
  <2>4. ConnectionTypes' /\ Waiting'
    BY <1>1, <1>4, <1>8 DEF SInv, ConnectionTypes, Waiting, Remembers
  <2>5. Opening' /\ Agreeing'
    BY <1>1, <1>3, <1>4, <1>5, <1>8, <2>1 DEF SInv, Opening, Agreeing
  <2> QED  BY <2>3, <2>4, <2>5 DEF SInv
<1>9. CASE f.type = "event" /\ seen' = [seen EXCEPT ![f.slot] = f.version]
           /\ UNCHANGED <<unsent, hasOpened, socket, ready, up>>
  <2>1. f.version \in Nat
    BY <1>2, <1>9 DEF DownFrames, EventFrames, OpenFrame, CloseFrame
  <2>2. PageTypes' /\ ConnectionTypes' /\ Waiting' /\ Agreeing'
    BY <1>1, <1>4, <1>9, <2>1 DEF SInv, PageTypes, ConnectionTypes, Waiting, Agreeing, Remembers
  <2>3. Opening'
    BY <1>1, <1>3, <1>4, <1>5, <1>9 DEF SInv, Opening
  <2> QED  BY <2>2, <2>3 DEF SInv
<1> QED  BY <1>6, <1>7, <1>8, <1>9 DEF Receive, f

(* ------------------------------- the flush ------------------------------ *)

LEMMA EventFacts ==
  ASSUME NEW f \in EventFrames
  PROVE  f.type = "event" /\ f.slot \in Slots /\ f.version \in Nat /\ f \in DownFrames
BY DEF EventFrames, DownFrames

(* An event among the frames that travel.                                  *)
LEMMA TravellingFacts ==
  ASSUME ConnectionTypes, NEW c \in Connections, NEW i \in 1 .. Len(down[c]), OnItsWay(c, i)
  PROVE  down[c][i] \in EventFrames
<1>1. down[c] \in Seq(DownFrames)
  BY DEF ConnectionTypes
<1>2. down[c][i] \in DownFrames
  BY <1>1, ElementOfSeq
<1>3. down[c][i].type = "event" /\ OpenFrame.type # "event" /\ CloseFrame.type # "event"
  BY DEF OnItsWay, OpenFrame, CloseFrame
<1> QED
  BY <1>2, <1>3 DEF DownFrames

(* Steps after which no event travels that did not before: the versions    *)
(* stay in order.                                                          *)
LEMMA QuietStep ==
  ASSUME VInv, ConnectionTypes, PageTypes, UNCHANGED <<latest, slots, batch, seen>>, FlushTypes',
         \A c \in Connections : \A i \in 1 .. Len(down'[c]) :
           down'[c][i].type = "event" =>
             /\ i \in 1 .. Len(down[c]) /\ down[c][i] = down'[c][i],
         socket' = socket \/ \A c \in Connections : socket' = c => down'[c] = <<>>
  PROVE  VInv'
<1>1. Flushing'
  BY DEF VInv, Flushing
<1>2. \A c \in Connections : \A i \in 1 .. Len(down'[c]) :
        OnItsWay(c, i)' => OnItsWay(c, i) /\ down[c][i] = down'[c][i]
  BY DEF OnItsWay
<1>3. Travelling'
  <2> SUFFICES ASSUME NEW c \in Connections, NEW i \in 1 .. Len(down'[c]), OnItsWay(c, i)'
               PROVE  /\ down'[c][i].version <= latest[down'[c][i].slot]
                      /\ \A j \in 1 .. Len(slots) : Behind(down'[c][i], slots[j])
                      /\ \A j \in 1 .. Len(batch) : Behind(down'[c][i], batch[j])
                      /\ \A j \in 1 .. Len(down'[c]) :
                           j > i /\ OnItsWay(c, j)' => Behind(down'[c][i], down'[c][j])
    BY DEF Travelling, Behind
  <2>1. OnItsWay(c, i) /\ down[c][i] = down'[c][i] /\ i \in 1 .. Len(down[c])
    BY <1>2 DEF OnItsWay
  <2>2. \A j \in 1 .. Len(down'[c]) : OnItsWay(c, j)' => /\ OnItsWay(c, j) /\ j \in 1 .. Len(down[c])
                                                         /\ down[c][j] = down'[c][j]
    BY <1>2 DEF OnItsWay
  <2> QED  BY <2>1, <2>2 DEF VInv, Travelling
<1>4. Seeing'
  <2> SUFFICES ASSUME NEW s \in Slots
               PROVE  /\ seen[s] <= latest[s]
                      /\ \A j \in 1 .. Len(slots) : slots[j].slot = s => seen[s] <= slots[j].version
                      /\ \A j \in 1 .. Len(batch) : batch[j].slot = s => seen[s] <= batch[j].version
                      /\ \A c \in Connections : socket' = c =>
                           \A i \in 1 .. Len(down'[c]) :
                             OnItsWay(c, i)' /\ down'[c][i].slot = s => seen[s] <= down'[c][i].version
    BY DEF Seeing
  <2>1. ASSUME NEW c \in Connections, socket' = c, NEW i \in 1 .. Len(down'[c]), OnItsWay(c, i)',
               down'[c][i].slot = s
        PROVE  seen[s] <= down'[c][i].version
    <3>1. OnItsWay(c, i) /\ down[c][i] = down'[c][i] /\ i \in 1 .. Len(down[c])
      BY <1>2, <2>1 DEF OnItsWay
    <3>2. down'[c] # <<>>
      <4> SUFFICES ASSUME down'[c] = <<>> PROVE FALSE
        OBVIOUS
      <4>1. Len(down'[c]) = 0  OBVIOUS
      <4> QED  BY <2>1, <4>1
    <3> QED  BY <2>1, <3>1, <3>2 DEF VInv, Seeing
  <2> QED  BY <2>1 DEF VInv, Seeing
<1> QED  BY <1>1, <1>3, <1>4 DEF VInv

LEMMA FlushStutter ==
  ASSUME VInv, ConnectionTypes, PageTypes, UNCHANGED <<latest, slots, batch, sending, seen>>,
         \A c \in Connections : down'[c] = down[c] \/ down'[c] = <<>>,
         socket' = socket \/ \A c \in Connections : socket' = c => down'[c] = <<>>
  PROVE  VInv'
<1>1. FlushTypes'
  BY DEF VInv, FlushTypes
<1>2. ASSUME NEW c \in Connections, NEW i \in 1 .. Len(down'[c])
      PROVE  i \in 1 .. Len(down[c]) /\ down[c][i] = down'[c][i]
  <2>1. CASE down'[c] = down[c]
    BY <2>1
  <2>2. CASE down'[c] = <<>>
    <3>1. Len(down'[c]) = 0  BY <2>2
    <3> QED  BY <3>1
  <2> QED  BY <2>1, <2>2
<1> QED  BY <1>1, <1>2, QuietStep

(* A frame that is no event is delivered.                                  *)
LEMMA OtherDelivered ==
  ASSUME VInv, SInv, NEW c \in Connections, NEW f \in {OpenFrame, CloseFrame}, Deliver(c, f),
         UNCHANGED <<latest, slots, batch, seen, socket>>, FlushTypes'
  PROVE  VInv'
<1>1. down \in [Connections -> Seq(DownFrames)] /\ f \in DownFrames /\ f.type # "event"
  BY DEF SInv, ConnectionTypes, DownFrames, OpenFrame, CloseFrame
<1>2. down' = [down EXCEPT ![c] = IF line[c] = "cut" THEN @ ELSE Append(@, f)]
  BY DEF Deliver
<1>3. ASSUME NEW e \in Connections, NEW i \in 1 .. Len(down'[e]), down'[e][i].type = "event"
      PROVE  i \in 1 .. Len(down[e]) /\ down[e][i] = down'[e][i]
  <2>1. CASE down'[e] = down[e]
    BY <2>1
  <2>2. CASE down'[e] # down[e]
    <3>1. e = c /\ down'[e] = Append(down[c], f)  BY <1>1, <1>2, <2>2
    <3>2. /\ Len(down[c]) \in Nat /\ Len(down'[e]) = Len(down[c]) + 1
          /\ \A j \in 1 .. Len(down[c]) : down'[e][j] = down[c][j]
          /\ down'[e][Len(down[c]) + 1] = f
      BY <1>1, <3>1, Appended
    <3>3. i # Len(down[c]) + 1  BY <1>1, <1>3, <3>2
    <3> QED  BY <3>1, <3>2, <3>3
  <2> QED  BY <2>1, <2>2
<1> QED  BY <1>3, QuietStep DEF SInv

LEMMA PublishKept ==
  ASSUME VInv, SInv, NEW slot \in Published, Publish(slot)
  PROVE  VInv'
<1> DEFINE v == latest[slot] + 1
           event == [type |-> "event", slot |-> slot, version |-> v]
<1>1. /\ latest' = [latest EXCEPT ![slot] = v] /\ UNCHANGED <<socket, seen, down, batch, sending>>
      /\ slots' = IF \E i \in DOMAIN slots : slots[i].slot = slot
                  THEN [i \in DOMAIN slots |-> IF slots[i].slot = slot THEN event ELSE slots[i]]
                  ELSE Append(slots, event)
  BY DEF Publish, Enqueue, page, wire, VInv, FlushTypes
<1>2. /\ latest \in [Slots -> Nat] /\ slot \in Slots /\ v \in Nat /\ slots \in Seq(EventFrames)
      /\ event \in EventFrames /\ Len(slots) \in Nat /\ DOMAIN slots = 1 .. Len(slots)
      /\ seen \in [Slots -> Nat]
  BY FanoutAssumption, LenProperties DEF VInv, FlushTypes, EventFrames, SInv, PageTypes
<1>3. /\ latest' \in [Slots -> Nat] /\ latest'[slot] = v
      /\ \A s \in Slots : latest[s] <= latest'[s]
      /\ \A s \in Slots \ {slot} : latest'[s] = latest[s]
  BY <1>1, <1>2
<1> HIDE DEF v
<1>4. v > latest[slot]
  BY <1>2 DEF v
<1> DEFINE Entry(i) == \/ i \in 1 .. Len(slots) /\ slots[i].slot # slot /\ slots'[i] = slots[i]
                       \/ slots'[i] = event
<1>5. /\ slots' \in Seq(EventFrames) /\ Len(slots') \in Nat
      /\ \A i \in 1 .. Len(slots') : Entry(i)
      /\ OncePerSlot(slots')
  <2>1. CASE \E i \in DOMAIN slots : slots[i].slot = slot
    <3>1. slots' = [i \in 1 .. Len(slots) |-> IF slots[i].slot = slot THEN event ELSE slots[i]]
      BY <1>1, <1>2, <2>1
    <3>2. slots' \in Seq(EventFrames) /\ Len(slots') = Len(slots)
      <4>1. \A i \in 1 .. Len(slots) : slots[i] \in EventFrames  BY <1>2, ElementOfSeq
      <4> QED  BY <1>2, <3>1, <4>1, IsASeq
    <3>3. \A i \in 1 .. Len(slots) : slots'[i] = IF slots[i].slot = slot THEN event ELSE slots[i]
      BY <3>1
    <3>4. \A i \in 1 .. Len(slots) : slots'[i].slot = slots[i].slot
      BY <3>3
    <3>5. OncePerSlot(slots')
      BY <3>2, <3>4 DEF VInv, Flushing, OncePerSlot
    <3> QED  BY <1>2, <3>2, <3>3, <3>5
  <2>2. CASE ~\E i \in DOMAIN slots : slots[i].slot = slot
    <3>1. slots' = Append(slots, event)  BY <1>1, <2>2
    <3>2. /\ slots' \in Seq(EventFrames) /\ Len(slots') = Len(slots) + 1
          /\ \A i \in 1 .. Len(slots) : slots'[i] = slots[i]
          /\ slots'[Len(slots) + 1] = event
      BY <1>2, <3>1, Appended
    <3>3. \A i \in 1 .. Len(slots) : slots[i].slot # slot  BY <1>2, <2>2
    <3>4. OncePerSlot(slots')
      <4> SUFFICES ASSUME NEW i \in 1 .. Len(slots'), NEW j \in 1 .. Len(slots'),
                          slots'[i].slot = slots'[j].slot
                   PROVE  i = j
        BY DEF OncePerSlot
      <4>1. event.slot = slot  OBVIOUS
      <4>2. CASE i \in 1 .. Len(slots) /\ j \in 1 .. Len(slots)
        BY <3>2, <4>2 DEF VInv, Flushing, OncePerSlot
      <4>3. CASE i = Len(slots) + 1 \/ j = Len(slots) + 1
        BY <1>2, <3>2, <3>3, <4>1, <4>3
      <4> QED  BY <1>2, <3>2, <4>2, <4>3
    <3>5. \A i \in 1 .. Len(slots') : Entry(i)
      <4> SUFFICES ASSUME NEW i \in 1 .. Len(slots') PROVE Entry(i)
        OBVIOUS
      <4>1. CASE i = Len(slots) + 1  BY <3>2, <4>1
      <4>2. CASE i # Len(slots) + 1
        <5>1. i \in 1 .. Len(slots)  BY <1>2, <3>2, <4>2
        <5> QED  BY <3>2, <3>3, <5>1
      <4> QED  BY <4>1, <4>2
    <3> QED  BY <1>2, <3>2, <3>4, <3>5
  <2> QED  BY <2>1, <2>2
<1>6. event.slot = slot /\ event.version = v
  OBVIOUS
<1> HIDE DEF event
<1>7. FlushTypes'
  BY <1>1, <1>3, <1>5 DEF VInv, FlushTypes
(* Whatever is no newer than what was published and than what was pending  *)
(* is no newer than what is pending now.                                   *)
<1>8. ASSUME NEW f \in EventFrames, f.version <= latest[f.slot],
             \A j \in 1 .. Len(slots) : Behind(f, slots[j])
      PROVE  /\ f.version <= latest'[f.slot]
             /\ \A j \in 1 .. Len(slots') : Behind(f, slots'[j])
  <2>1. f.version \in Nat /\ f.slot \in Slots  BY EventFacts
  <2>2. f.version <= latest'[f.slot]
    <3>1. latest[f.slot] \in Nat /\ latest'[f.slot] \in Nat  BY <1>2, <1>3, <2>1
    <3> QED  BY <1>3, <1>8, <2>1, <3>1
  <2>3. ASSUME NEW j \in 1 .. Len(slots') PROVE Behind(f, slots'[j])
    <3>1. CASE slots'[j] = event
      <4>1. f.slot = slot => f.version <= v
        BY <1>2, <1>4, <1>8, <2>1
      <4> QED  BY <1>6, <3>1, <4>1 DEF Behind
    <3>2. CASE slots'[j] # event
      BY <1>5, <1>8, <3>2
    <3> QED  BY <3>1, <3>2
  <2> QED  BY <2>2, <2>3
<1>9. Flushing'
  <2>1. ASSUME NEW i \in 1 .. Len(slots') PROVE slots'[i].version <= latest'[slots'[i].slot]
    <3>1. CASE slots'[i] = event  BY <1>2, <1>3, <1>6, <3>1
    <3>2. CASE slots'[i] # event
      <4>1. i \in 1 .. Len(slots) /\ slots[i].slot # slot /\ slots'[i] = slots[i]  BY <1>5, <3>2
      <4>2. slots[i] \in EventFrames  BY <1>2, <4>1, ElementOfSeq
      <4>3. latest'[slots[i].slot] = latest[slots[i].slot]  BY <1>3, <4>1, <4>2, EventFacts
      <4> QED  BY <4>1, <4>3 DEF VInv, Flushing
    <3> QED  BY <3>1, <3>2
  <2>2. ASSUME NEW i \in 1 .. Len(batch)
        PROVE  /\ batch[i].version <= latest'[batch[i].slot]
               /\ \A j \in 1 .. Len(slots') : Behind(batch[i], slots'[j])
    <3>1. batch[i] \in EventFrames  BY ElementOfSeq DEF VInv, FlushTypes
    <3> QED  BY <1>8, <3>1 DEF VInv, Flushing
  <2> QED  BY <1>1, <1>5, <2>1, <2>2 DEF VInv, Flushing, Behind
<1>10. Travelling'
  <2>1. UNCHANGED <<batch, down>>  BY <1>1
  <2> SUFFICES ASSUME NEW c \in Connections, NEW i \in 1 .. Len(down[c]), OnItsWay(c, i)
               PROVE  /\ down[c][i].version <= latest'[down[c][i].slot]
                      /\ \A j \in 1 .. Len(slots') : Behind(down[c][i], slots'[j])
                      /\ \A j \in 1 .. Len(batch) : Behind(down[c][i], batch[j])
                      /\ \A j \in 1 .. Len(down[c]) :
                           j > i /\ OnItsWay(c, j) => Behind(down[c][i], down[c][j])
    BY <2>1 DEF Travelling, Behind, OnItsWay
  <2>2. down[c][i] \in EventFrames  BY TravellingFacts DEF SInv
  <2>3. /\ down[c][i].version <= latest[down[c][i].slot]
        /\ \A j \in 1 .. Len(slots) : Behind(down[c][i], slots[j])
        /\ \A j \in 1 .. Len(batch) : Behind(down[c][i], batch[j])
        /\ \A j \in 1 .. Len(down[c]) : j > i /\ OnItsWay(c, j) => Behind(down[c][i], down[c][j])
    BY DEF VInv, Travelling
  <2> QED  BY <1>8, <2>2, <2>3
<1>11. Seeing'
  <2> SUFFICES ASSUME NEW s \in Slots
               PROVE  /\ seen[s] <= latest'[s]
                      /\ \A j \in 1 .. Len(slots') : slots'[j].slot = s => seen[s] <= slots'[j].version
    BY <1>1 DEF VInv, Seeing, OnItsWay
  <2>1. seen[s] <= latest[s] /\ seen[s] \in Nat /\ latest[s] \in Nat /\ latest'[s] \in Nat
    BY <1>2, <1>3 DEF VInv, Seeing
  <2>2. seen[s] <= latest'[s]  BY <1>3, <2>1
  <2>3. ASSUME NEW j \in 1 .. Len(slots'), slots'[j].slot = s PROVE seen[s] <= slots'[j].version
    <3>1. CASE slots'[j] = event
      BY <1>2, <1>4, <1>6, <2>1, <2>3, <3>1
    <3>2. CASE slots'[j] # event
      BY <1>5, <2>3, <3>2 DEF VInv, Seeing
    <3> QED  BY <3>1, <3>2
  <2> QED  BY <2>2, <2>3
<1> QED  BY <1>7, <1>9, <1>10, <1>11 DEF VInv

LEMMA FlushKept ==
  ASSUME VInv, SInv, Flush
  PROVE  VInv'
<1>1. /\ batch = <<>> /\ slots # <<>> /\ batch' = slots /\ slots' = <<>> /\ sending' = SendingTo(slots)
      /\ UNCHANGED <<latest, seen, socket, down>>
  BY DEF Flush, page, wire
<1>2. FlushTypes'
  BY <1>1 DEF VInv, FlushTypes, SendingTo
<1>3. \A j \in 1 .. Len(slots') : FALSE
  <2>1. Len(slots') = 0  BY <1>1
  <2> QED  BY <2>1
<1>4. Flushing'
  BY <1>1, <1>3 DEF VInv, Flushing, OncePerSlot
<1>5. Travelling'
  BY <1>1, <1>3 DEF VInv, Travelling, OnItsWay, Behind
<1>6. Seeing'
  BY <1>1, <1>3 DEF VInv, Seeing, OnItsWay
<1> QED  BY <1>2, <1>4, <1>5, <1>6 DEF VInv

LEMMA BroadcastKept ==
  ASSUME VInv, SInv, BroadcastNext
  PROVE  VInv'
<1>1. /\ batch # <<>> /\ batch' = Tail(batch) /\ sending' = SendingTo(Tail(batch))
      /\ UNCHANGED <<latest, slots, seen, socket, down>>
  BY DEF BroadcastNext, page, wire
<1>2. /\ batch' \in Seq(EventFrames) /\ Len(batch) \in Nat \ {0} /\ Len(batch') = Len(batch) - 1
      /\ \A i \in 1 .. Len(batch') : batch'[i] = batch[i + 1] /\ i + 1 \in 1 .. Len(batch)
  BY <1>1, Shortened DEF VInv, FlushTypes
<1>3. FlushTypes'
  BY <1>1, <1>2 DEF VInv, FlushTypes, SendingTo
<1>4. Flushing'
  <2>1. OncePerSlot(batch')
    BY <1>2, SMTT(30) DEF VInv, Flushing, OncePerSlot
  <2> QED  BY <1>1, <1>2, <2>1 DEF VInv, Flushing, Behind
<1>5. Travelling'
  BY <1>1, <1>2, SMTT(30) DEF VInv, Travelling, OnItsWay, Behind
<1>6. Seeing'
  BY <1>1, <1>2 DEF VInv, Seeing, OnItsWay
<1> QED  BY <1>3, <1>4, <1>5, <1>6 DEF VInv

(* The event at the head of the batch goes out on one connection.          *)
LEMMA SendOkKept ==
  ASSUME VInv, SInv, NEW c \in Connections, SendOk(c)
  PROVE  VInv'
<1> DEFINE f == Head(batch)
<1>1. /\ sending[c] = "sending" /\ sending' = [sending EXCEPT ![c] = "no"]
      /\ down' = [down EXCEPT ![c] = IF line[c] = "cut" THEN @ ELSE Append(@, f)]
      /\ UNCHANGED <<latest, slots, batch, seen, socket>>
  BY DEF SendOk, Deliver, page
<1>2. /\ batch # <<>> /\ f \in EventFrames /\ f = batch[1] /\ 1 \in 1 .. Len(batch)
  BY <1>1, Shortened DEF VInv, FlushTypes
<1>3. FlushTypes'
  BY <1>1, <1>2 DEF VInv, FlushTypes
<1> HIDE DEF f
<1>4. CASE line[c] = "cut"
  <2>1. down' = down  BY <1>1, <1>4 DEF SInv, ConnectionTypes
  <2> QED  BY <1>1, <1>3, <2>1, QuietStep DEF SInv, OnItsWay
<1>5. CASE line[c] # "cut"
  <2> DEFINE n == Len(down[c])
  <2>1. down \in [Connections -> Seq(DownFrames)] /\ f \in DownFrames
    BY <1>2, EventFacts DEF SInv, ConnectionTypes
  <2>2. /\ n \in Nat /\ Len(down'[c]) = n + 1
        /\ \A i \in 1 .. n : down'[c][i] = down[c][i]
        /\ down'[c][n + 1] = f
        /\ \A e \in Connections \ {c} : down'[e] = down[e]
    BY <1>1, <1>5, <2>1, Appended
  <2>3. /\ f.type = "event" /\ f.version \in Nat /\ f.slot \in Slots /\ f.version <= latest[f.slot]
        /\ \A j \in 1 .. Len(slots) : Behind(f, slots[j])
        /\ \A j \in 1 .. Len(batch) : Behind(f, batch[j])
    <3>1. f.version <= latest[f.slot] /\ \A j \in 1 .. Len(slots) : Behind(f, slots[j])
      BY <1>2 DEF VInv, Flushing
    <3>2. ASSUME NEW j \in 1 .. Len(batch) PROVE Behind(f, batch[j])
      <4>1. f.slot = batch[j].slot => j = 1  BY <1>2 DEF VInv, Flushing, OncePerSlot
      <4> QED  BY <1>2, <4>1, EventFacts DEF Behind
    <3> QED  BY <1>2, <3>1, <3>2, EventFacts
  <2>4. ASSUME NEW e \in Connections, NEW i \in 1 .. Len(down'[e]), OnItsWay(e, i)'
        PROVE  \/ OnItsWay(e, i) /\ i \in 1 .. Len(down[e]) /\ down'[e][i] = down[e][i]
               \/ e = c /\ i = n + 1 /\ down'[e][i] = f
    <3>1. CASE e = c /\ i = n + 1
      BY <2>2, <3>1
    <3>2. CASE e = c /\ i # n + 1
      <4>1. i \in 1 .. n  BY <2>2, <3>2
      <4> QED  BY <2>2, <2>4, <3>2, <4>1 DEF OnItsWay
    <3>3. CASE e # c
      BY <2>2, <2>4, <3>3 DEF OnItsWay
    <3> QED  BY <3>1, <3>2, <3>3
  <2>5. Flushing'
    BY <1>1 DEF VInv, Flushing
  <2>6. Travelling'
    <3> SUFFICES ASSUME NEW e \in Connections, NEW i \in 1 .. Len(down'[e]), OnItsWay(e, i)'
                 PROVE  /\ down'[e][i].version <= latest[down'[e][i].slot]
                        /\ \A j \in 1 .. Len(slots) : Behind(down'[e][i], slots[j])
                        /\ \A j \in 1 .. Len(batch) : Behind(down'[e][i], batch[j])
                        /\ \A j \in 1 .. Len(down'[e]) :
                             j > i /\ OnItsWay(e, j)' => Behind(down'[e][i], down'[e][j])
      BY <1>1 DEF Travelling, Behind
    <3>1. CASE OnItsWay(e, i) /\ i \in 1 .. Len(down[e]) /\ down'[e][i] = down[e][i]
      <4>1. /\ down[e][i].version <= latest[down[e][i].slot]
            /\ \A j \in 1 .. Len(slots) : Behind(down[e][i], slots[j])
            /\ \A j \in 1 .. Len(batch) : Behind(down[e][i], batch[j])
            /\ \A j \in 1 .. Len(down[e]) : j > i /\ OnItsWay(e, j) => Behind(down[e][i], down[e][j])
        BY <3>1 DEF VInv, Travelling
      <4>2. ASSUME NEW j \in 1 .. Len(down'[e]), j > i, OnItsWay(e, j)'
            PROVE  Behind(down'[e][i], down'[e][j])
        <5>1. CASE OnItsWay(e, j) /\ j \in 1 .. Len(down[e]) /\ down'[e][j] = down[e][j]
          BY <3>1, <4>1, <4>2, <5>1
        <5>2. CASE e = c /\ j = n + 1 /\ down'[e][j] = f
          <6>1. Behind(down[e][i], batch[1])  BY <1>2, <4>1
          <6> QED  BY <1>2, <3>1, <5>2, <6>1
        <5> QED  BY <2>4, <4>2, <5>1, <5>2
      <4> QED  BY <3>1, <4>1, <4>2
    <3>2. CASE e = c /\ i = n + 1 /\ down'[e][i] = f
      <4>1. \A j \in 1 .. Len(down'[e]) : ~(j > i)  BY <2>2, <3>2
      <4> QED  BY <2>3, <3>2, <4>1
    <3> QED  BY <2>4, <3>1, <3>2
  <2>7. Seeing'
    <3> SUFFICES ASSUME NEW s \in Slots, NEW e \in Connections, socket = e,
                        NEW i \in 1 .. Len(down'[e]), OnItsWay(e, i)', down'[e][i].slot = s
                 PROVE  seen[s] <= down'[e][i].version
      BY <1>1 DEF VInv, Seeing
    <3>1. CASE OnItsWay(e, i) /\ i \in 1 .. Len(down[e]) /\ down'[e][i] = down[e][i]
      BY <3>1 DEF VInv, Seeing
    <3>2. CASE e = c /\ i = n + 1 /\ down'[e][i] = f
      BY <1>2, <3>2 DEF VInv, Seeing
    <3> QED  BY <2>4, <3>1, <3>2
  <2> QED  BY <1>3, <2>5, <2>6, <2>7 DEF VInv
<1> QED  BY <1>4, <1>5


(* ------------------------------ other steps ----------------------------- *)

(* The client of c is dropped, and what was being sent to it is given up.  *)
LEMMA DropVKept ==
  ASSUME VInv, SInv, NEW c \in Connections, Drop(c), UNCHANGED <<latest, slots, batch, seen, socket>>,
         \/ sending' = sending
         \/ sending' = [sending EXCEPT ![c] = "closing"]
  PROVE  VInv'
<1>1. FlushTypes'
  BY DEF VInv, FlushTypes
<1>2. Deliver(c, CloseFrame)
  BY DEF Drop
<1> QED  BY <1>1, <1>2, OtherDelivered

(* Steps that leave the channels and the page as they are, and the flush   *)
(* but for what is being sent.                                             *)
LEMMA SendingStep ==
  ASSUME VInv, SInv, UNCHANGED <<latest, slots, batch, seen, socket, down>>,
         NEW c \in Connections, sending' = sending \/ sending' = [sending EXCEPT ![c] = "no"]
  PROVE  VInv'
<1>1. FlushTypes'
  BY DEF VInv, FlushTypes
<1> QED  BY <1>1, QuietStep DEF SInv

LEMMA ServeV ==
  ASSUME VInv, SInv, NEW c \in Connections, Serve(c)
  PROVE  VInv'
<1>1. CASE Accept(c)
  <2>1. Deliver(c, OpenFrame) /\ UNCHANGED <<latest, slots, batch, sending, seen, socket>>
    BY <1>1 DEF Accept, page, flush
  <2>2. FlushTypes'  BY <2>1 DEF VInv, FlushTypes
  <2> QED  BY <2>1, <2>2, OtherDelivered
<1>2. CASE HandleFrame(c) \/ EndpointEnds(c)
  BY <1>2, SendingStep DEF HandleFrame, EndpointEnds, page, wire, flush
<1>3. CASE Heartbeat(c)
  <2>1. UNCHANGED <<latest, slots, batch, sending, seen, socket>>
    BY <1>3 DEF Heartbeat, page, flush
  <2>2. Drop(c) \/ UNCHANGED down  BY <1>3 DEF Heartbeat
  <2> QED  BY <2>1, <2>2, DropVKept, SendingStep
<1>4. CASE SendOk(c)
  BY <1>4, SendOkKept
<1>5. CASE SendFails(c)
  <2>1. UNCHANGED <<latest, slots, batch, seen, socket>>
    BY <1>5 DEF SendFails, page
  <2>2. \/ Drop(c) /\ sending' = [sending EXCEPT ![c] = "closing"]
        \/ UNCHANGED down /\ sending' = [sending EXCEPT ![c] = "no"]
    BY <1>5 DEF SendFails
  <2> QED  BY <2>1, <2>2, DropVKept, SendingStep
<1>6. CASE CloseEnds(c)
  BY <1>6, SendingStep DEF CloseEnds, page, wire
<1> QED  BY <1>1, <1>2, <1>3, <1>4, <1>5, <1>6 DEF Serve

LEMMA CutV ==
  ASSUME VInv, SInv, NEW c \in Connections, CutLine(c) \/ SlowClient(c)
  PROVE  VInv'
<1>1. CASE CutLine(c)
  <2>1. /\ down' = [down EXCEPT ![c] = <<>>]
        /\ UNCHANGED <<latest, slots, batch, sending, seen, socket>>
    BY <1>1 DEF CutLine, page, flush
  <2>2. \A e \in Connections : down'[e] = down[e] \/ down'[e] = <<>>
    BY <2>1 DEF SInv, ConnectionTypes
  <2> QED  BY <2>1, <2>2, FlushStutter DEF SInv
<1>2. CASE SlowClient(c)
  <2>1. /\ Drop(c) /\ UNCHANGED <<latest, slots, batch, seen, socket>>
        /\ sending' = [sending EXCEPT ![c] = IF @ = "sending" THEN "closing" ELSE @]
    BY <1>2 DEF SlowClient, page
  <2>2. sending' = sending \/ sending' = [sending EXCEPT ![c] = "closing"]
    BY <2>1 DEF VInv, FlushTypes
  <2> QED  BY <2>1, <2>2, DropVKept
<1> QED  BY <1>1, <1>2

(* The page changes, or gets a socket nothing has been sent on yet.        *)
LEMMA PageV ==
  ASSUME VInv, SInv,
         \/ Mount \/ Unmount \/ ForceReconnect \/ OnClose
         \/ \E tf \in Charts : ShowChart(tf)
  PROVE  VInv'
<1>1. UNCHANGED <<latest, slots, batch, sending, seen, down>>
  BY DEF Mount, Unmount, ForceReconnect, OnClose, ShowChart, flush, wire
<1>2. socket' = socket \/ socket' = None \/ NewSocket(used + 1)
  BY DEF Mount, Unmount, ForceReconnect, OnClose, ShowChart
<1>3. CASE socket' = socket
  BY <1>1, <1>3, FlushStutter DEF SInv
<1>4. CASE socket' = None
  <2>1. None \notin Connections  BY ConnectionFacts DEF SInv
  <2> QED  BY <1>1, <1>4, <2>1, FlushStutter DEF SInv
<1>5. CASE NewSocket(used + 1)
  <2>1. socket' = used + 1 /\ used + 1 \in Connections  BY <1>5 DEF NewSocket
  <2>2. used + 1 > used  BY ConnectionFacts DEF SInv
  <2>3. down[used + 1] = <<>>  BY <2>1, <2>2 DEF SInv, Opening
  <2>4. \A c \in Connections : socket' = c => down'[c] = <<>>  BY <1>1, <2>1, <2>3
  <2> QED  BY <1>1, <2>4, FlushStutter DEF SInv
<1> QED  BY <1>2, <1>3, <1>4, <1>5

(* The page takes the frame at the head of the channel.                    *)
LEMMA ReceiveV ==
  ASSUME VInv, SInv, NEW c \in Connections, Receive(c)
  PROVE  /\ VInv'
         /\ \A s \in Slots : seen'[s] >= seen[s]
<1> DEFINE f == Head(down[c])
           d == Tail(down[c])
<1>1. down[c] # <<>> /\ down' = [down EXCEPT ![c] = d] /\ UNCHANGED <<latest, slots, batch, sending>>
  BY DEF Receive, flush
<1>2. /\ f \in DownFrames /\ f = down[c][1] /\ 1 \in 1 .. Len(down[c]) /\ d \in Seq(DownFrames)
      /\ Len(d) = Len(down[c]) - 1 /\ Len(down[c]) \in Nat \ {0}
      /\ \A i \in 1 .. Len(d) : d[i] = down[c][i + 1]
  BY <1>1, Shortened, AtConnection
<1>3. \/ seen' = seen /\ (socket' = socket \/ socket' = None)
      \/ socket = c /\ f.type = "event" /\ seen' = [seen EXCEPT ![f.slot] = f.version] /\ UNCHANGED socket
  BY DEF Receive, Current
<1> HIDE DEF f, d
<1>4. /\ down'[c] = d /\ \A e \in Connections \ {c} : down'[e] = down[e]
  BY <1>1 DEF SInv, ConnectionTypes
<1>5. seen \in [Slots -> Nat]
  BY DEF SInv, PageTypes
(* What still travels travelled before.                                    *)
<1> DEFINE Before(e, i) == IF e = c THEN i + 1 ELSE i
<1>6. ASSUME NEW e \in Connections, NEW i \in 1 .. Len(down'[e])
      PROVE  Before(e, i) \in 1 .. Len(down[e]) /\ down'[e][i] = down[e][Before(e, i)] /\ i \in Nat
  <2>1. CASE e = c  BY <1>2, <1>4, <1>6, <2>1
  <2>2. CASE e # c  BY <1>4, <1>6, <2>2
  <2> QED  BY <2>1, <2>2
<1>7. ASSUME NEW e \in Connections, NEW i \in 1 .. Len(down'[e]), OnItsWay(e, i)'
      PROVE  OnItsWay(e, Before(e, i))
  BY <1>6, <1>7 DEF OnItsWay
<1>8. ASSUME NEW e \in Connections, NEW i \in Nat, NEW j \in Nat, j > i
      PROVE  Before(e, j) > Before(e, i)
  BY <1>8
<1>9. Flushing'
  BY <1>1 DEF VInv, Flushing
<1>10. Travelling'
  <2> SUFFICES ASSUME NEW e \in Connections, NEW i \in 1 .. Len(down'[e]), OnItsWay(e, i)'
               PROVE  /\ down'[e][i].version <= latest[down'[e][i].slot]
                      /\ \A j \in 1 .. Len(slots) : Behind(down'[e][i], slots[j])
                      /\ \A j \in 1 .. Len(batch) : Behind(down'[e][i], batch[j])
                      /\ \A j \in 1 .. Len(down'[e]) :
                           j > i /\ OnItsWay(e, j)' => Behind(down'[e][i], down'[e][j])
    BY <1>1 DEF Travelling, Behind
  <2> DEFINE k == Before(e, i)
  <2>1. k \in 1 .. Len(down[e]) /\ down'[e][i] = down[e][k] /\ OnItsWay(e, k) /\ i \in Nat
    BY <1>6, <1>7
  <2> HIDE DEF k
  <2>2. /\ down[e][k].version <= latest[down[e][k].slot]
        /\ \A j \in 1 .. Len(slots) : Behind(down[e][k], slots[j])
        /\ \A j \in 1 .. Len(batch) : Behind(down[e][k], batch[j])
        /\ \A j \in 1 .. Len(down[e]) : j > k /\ OnItsWay(e, j) => Behind(down[e][k], down[e][j])
    BY <2>1 DEF VInv, Travelling
  <2>3. ASSUME NEW j \in 1 .. Len(down'[e]), j > i, OnItsWay(e, j)'
        PROVE  Behind(down'[e][i], down'[e][j])
    <3> DEFINE l == Before(e, j)
    <3>1. l \in 1 .. Len(down[e]) /\ down'[e][j] = down[e][l] /\ OnItsWay(e, l) /\ j \in Nat
      BY <1>6, <1>7, <2>3
    <3>2. l > k  BY <1>8, <2>1, <2>3, <3>1 DEF k
    <3> HIDE DEF l
    <3> QED  BY <2>1, <2>2, <3>1, <3>2
  <2> QED  BY <2>1, <2>2, <2>3
<1>11. CASE seen' = seen /\ (socket' = socket \/ socket' = None)
  <2>1. Seeing'
    <3> SUFFICES ASSUME NEW s \in Slots
                 PROVE  /\ seen[s] <= latest[s]
                        /\ \A j \in 1 .. Len(slots) : slots[j].slot = s => seen[s] <= slots[j].version
                        /\ \A j \in 1 .. Len(batch) : batch[j].slot = s => seen[s] <= batch[j].version
                        /\ \A e \in Connections : socket' = e =>
                             \A i \in 1 .. Len(down'[e]) :
                               OnItsWay(e, i)' /\ down'[e][i].slot = s => seen[s] <= down'[e][i].version
      BY <1>1, <1>11 DEF Seeing
    <3>1. ASSUME NEW e \in Connections, socket' = e, NEW i \in 1 .. Len(down'[e]), OnItsWay(e, i)',
                 down'[e][i].slot = s
          PROVE  seen[s] <= down'[e][i].version
      <4>1. socket = e  BY <1>11, <3>1, ConnectionFacts DEF SInv
      <4>2. Before(e, i) \in 1 .. Len(down[e]) /\ down'[e][i] = down[e][Before(e, i)]
            /\ OnItsWay(e, Before(e, i))
        BY <1>6, <1>7, <3>1
      <4> HIDE DEF Before
      <4> QED  BY <3>1, <4>1, <4>2 DEF VInv, Seeing
    <3> QED  BY <3>1 DEF VInv, Seeing
  <2>2. FlushTypes'  BY <1>1 DEF VInv, FlushTypes
  <2>3. \A s \in Slots : seen'[s] >= seen[s]  BY <1>5, <1>11
  <2> QED  BY <1>9, <1>10, <2>1, <2>2, <2>3 DEF VInv
<1>12. CASE /\ socket = c /\ f.type = "event" /\ seen' = [seen EXCEPT ![f.slot] = f.version]
            /\ UNCHANGED socket
  <2>1. OnItsWay(c, 1) /\ f \in EventFrames
    BY <1>2, <1>12, TravellingFacts DEF OnItsWay, SInv
  <2>2. /\ f.slot \in Slots /\ f.version \in Nat /\ seen[f.slot] <= f.version
        /\ f.version <= latest[f.slot]
        /\ \A j \in 1 .. Len(slots) : Behind(f, slots[j])
        /\ \A j \in 1 .. Len(batch) : Behind(f, batch[j])
        /\ \A j \in 1 .. Len(down[c]) : j > 1 /\ OnItsWay(c, j) => Behind(f, down[c][j])
    BY <1>2, <1>12, <2>1, EventFacts DEF VInv, Seeing, Travelling
  <2>3. seen'[f.slot] = f.version /\ \A s \in Slots \ {f.slot} : seen'[s] = seen[s]
    BY <1>5, <1>12, <2>2
  <2>4. Seeing'
    <3> SUFFICES ASSUME NEW s \in Slots
                 PROVE  /\ seen'[s] <= latest[s]
                        /\ \A j \in 1 .. Len(slots) : slots[j].slot = s => seen'[s] <= slots[j].version
                        /\ \A j \in 1 .. Len(batch) : batch[j].slot = s => seen'[s] <= batch[j].version
                        /\ \A i \in 1 .. Len(d) :
                             OnItsWay(c, i)' /\ d[i].slot = s => seen'[s] <= d[i].version
      BY <1>1, <1>4, <1>12 DEF Seeing
    <3>1. ASSUME NEW i \in 1 .. Len(d), OnItsWay(c, i)', d[i].slot = s
          PROVE  seen'[s] <= d[i].version
      <4>1. /\ i + 1 \in 1 .. Len(down[c]) /\ i + 1 > 1 /\ d[i] = down[c][i + 1]
            /\ OnItsWay(c, i + 1)
        BY <1>2, <1>4, <3>1 DEF OnItsWay
      <4>2. CASE s = f.slot
        <5>1. Behind(f, down[c][i + 1])  BY <2>2, <4>1
        <5> QED  BY <2>3, <3>1, <4>1, <4>2, <5>1 DEF Behind
      <4>3. CASE s # f.slot
        BY <1>12, <2>3, <3>1, <4>1, <4>3 DEF VInv, Seeing
      <4> QED  BY <4>2, <4>3
    <3>2. CASE s = f.slot
      BY <2>2, <2>3, <3>1, <3>2 DEF Behind
    <3>3. CASE s # f.slot
      BY <2>3, <3>1, <3>3 DEF VInv, Seeing
    <3> QED  BY <3>2, <3>3
  <2>5. FlushTypes'  BY <1>1 DEF VInv, FlushTypes
  <2>6. \A s \in Slots : seen'[s] >= seen[s]
    <3> TAKE s \in Slots
    <3>1. CASE s = f.slot  BY <1>5, <2>2, <2>3, <3>1
    <3>2. CASE s # f.slot  BY <1>5, <2>3, <3>2
    <3> QED  BY <3>1, <3>2
  <2> QED  BY <1>9, <1>10, <2>4, <2>5, <2>6 DEF VInv
<1> QED  BY <1>3, <1>11, <1>12

(* --------------------------- the specification -------------------------- *)

LEMMA InitEstablishes == Init => IInv
<1> SUFFICES ASSUME Init PROVE IInv
  OBVIOUS
<1>1. /\ Len(<<>>) = 0 /\ <<>> \in Seq(Commands) /\ <<>> \in Seq(EventFrames) /\ <<>> \in Seq(UpFrames)
      /\ <<>> \in Seq(DownFrames) /\ \A i \in 1 .. Len(<<>>) : FALSE
  OBVIOUS
<1>2. PageTypes
  <2>1. 0 \in 0 .. (MaxFaults + 1) /\ 0 \in 0 .. 0  BY FanoutAssumption
  <2>2. mounted \in BOOLEAN /\ hasOpened \in BOOLEAN /\ ready \in BOOLEAN  BY DEF Init
  <2>3. seen \in [Slots -> Nat] /\ chart \in Charts /\ unsent \in Seq(Commands)
    BY <1>1, FanoutAssumption DEF Init
  <2>4. used \in 0 .. (MaxFaults + 1) /\ socket \in 0 .. used  BY <2>1 DEF Init, None
  <2>5. remembered = {} /\ ~mounted  BY DEF Init
  <2> QED  BY <2>2, <2>3, <2>4, <2>5 DEF PageTypes
<1>3. ConnectionTypes
  BY <1>1, NothingSubscribed DEF Init, ConnectionTypes, PeerStates
<1>4. None \notin Connections
  BY <1>2, ConnectionFacts
<1>5. Opening
  BY <1>1, <1>4 DEF Init, Opening
<1>6. Waiting
  BY ResultsEmpty DEF Init, Waiting, Remembers
<1>7. Agreeing
  BY DEF Init, Agreeing
<1>8. FlushTypes /\ Flushing /\ Travelling
  BY <1>1 DEF Init, FlushTypes, Flushing, Travelling, OncePerSlot, OnItsWay
<1>9. Seeing
  BY <1>1 DEF Init, Seeing, OnItsWay
<1> QED  BY <1>2, <1>3, <1>5, <1>6, <1>7, <1>8, <1>9 DEF IInv, SInv, VInv

LEMMA StepKeeps ==
  ASSUME IInv, [Next]_vars
  PROVE  IInv'
<1>1. SInv /\ VInv /\ FlushTypes /\ ConnectionTypes /\ PageTypes
  BY DEF IInv, SInv, VInv
<1>2. CASE \/ Mount \/ Unmount \/ ForceReconnect \/ OnClose
           \/ \E tf \in Charts : ShowChart(tf)
  <2>1. SInv'
    BY <1>1, <1>2, MountKept, UnmountKept, ForceReconnectKept, OnCloseKept, ShowChartKept
  <2> QED  BY <1>1, <1>2, <2>1, PageV DEF IInv
<1>3. CASE \E slot \in Published : Publish(slot)
  <2>1. PICK slot \in Published : Publish(slot)  BY <1>3
  <2>2. UNCHANGED <<page, wire, clients>>  BY <2>1 DEF Publish
  <2> QED  BY <1>1, <2>1, <2>2, SStutter, PublishKept DEF IInv
<1>4. CASE Flush
  <2>1. UNCHANGED <<page, wire, clients>>  BY <1>4 DEF Flush
  <2> QED  BY <1>1, <1>4, <2>1, SStutter, FlushKept DEF IInv
<1>5. CASE BroadcastNext
  <2>1. UNCHANGED <<page, wire, clients>>  BY <1>5 DEF BroadcastNext
  <2> QED  BY <1>1, <1>5, <2>1, SStutter, BroadcastKept DEF IInv
<1>6. ASSUME NEW c \in Connections, Serve(c) PROVE IInv'
  <2>1. CASE Accept(c)  BY <1>1, <2>1, AcceptKept, <1>6, ServeV DEF IInv
  <2>2. CASE HandleFrame(c)  BY <1>1, <2>2, HandleFrameKept, <1>6, ServeV DEF IInv
  <2>3. CASE EndpointEnds(c)  BY <1>1, <2>3, EndpointEndsKept, <1>6, ServeV DEF IInv
  <2>4. CASE Heartbeat(c)  BY <1>1, <2>4, HeartbeatKept, <1>6, ServeV DEF IInv
  <2>5. CASE SendOk(c) \/ SendFails(c)  BY <1>1, <2>5, SendKept, <1>6, ServeV DEF IInv
  <2>6. CASE CloseEnds(c)
    <3>1. UNCHANGED <<page, wire, clients>>  BY <2>6 DEF CloseEnds
    <3> QED  BY <1>1, <1>6, <3>1, SStutter, ServeV DEF IInv
  <2> QED  BY <1>6, <2>1, <2>2, <2>3, <2>4, <2>5, <2>6 DEF Serve
<1>7. ASSUME NEW c \in Connections, Receive(c) PROVE IInv'
  BY <1>1, <1>7, ReceiveKept, ReceiveV DEF IInv
<1>8. ASSUME NEW c \in Connections, CutLine(c) PROVE IInv'
  BY <1>1, <1>8, CutLineKept, CutV DEF IInv
<1>9. ASSUME NEW c \in Connections, SlowClient(c) PROVE IInv'
  <2>1. peer[c] = "registered" /\ Drop(c) /\ UNCHANGED <<page, used, line, up>>
    BY <1>9 DEF SlowClient
  <2> QED  BY <1>1, <1>9, <2>1, DropKept, CutV DEF IInv
<1>10. CASE UNCHANGED vars
  <2>1. UNCHANGED <<page, wire, clients>> /\ UNCHANGED <<latest, slots, batch, sending, seen, socket, down>>
    BY <1>10 DEF vars, flush, page, wire
  <2> QED  BY <1>1, <2>1, SStutter, FlushStutter DEF IInv
<1> QED  BY <1>2, <1>3, <1>4, <1>5, <1>6, <1>7, <1>8, <1>9, <1>10 DEF Next

LEMMA Inductive == Spec => []IInv
<1>1. IInv /\ [Next]_vars => IInv'
  BY StepKeeps
<1> QED  BY InitEstablishes, <1>1, PTL DEF Spec

(* Once the endpoint has read what the page sent, the registry sends what  *)
(* the page remembers and nothing else (ChartSocket.ts replays the         *)
(* subscriptions, registry.py keeps them), over any number of connections. *)
THEOREM ChartGetsWhatItShows == Spec => []SubscriptionsAgree
<1>1. IInv => SubscriptionsAgree
  <2> SUFFICES ASSUME IInv, Attached, up[socket] = <<>>
               PROVE  {s \in Slots : Served(s)} = Slotted(remembered)
    BY DEF SubscriptionsAgree
  <2>1. SInv /\ PageTypes  BY DEF IInv, SInv
  <2>2. socket \in Connections /\ ready /\ peer[socket] = "registered" /\ line[socket] = "up"
    BY DEF Attached
  <2>3. /\ \A s \in Slots : Results(<<>>, Holds(wanted[socket], s), s) <=> Remembers(s)
        /\ wanted[socket] \in Subscriptions
    BY <2>1, <2>2, AtConnection
  <2>4. ASSUME NEW s \in Slots PROVE Wants(socket, s) <=> Holds(wanted[socket], s)
    <3>1. /\ NoTf \notin Charts /\ Slots = {Quote} \cup Charts
          /\ wanted[socket].tfs \in SUBSET Charts
          /\ "bar" \in wanted[socket].events <=> wanted[socket].tfs # {}
      BY <2>3, FanoutAssumption DEF Slots, Subscriptions
    <3> QED  BY <2>2, <3>1 DEF Wants, Holds
  <2>5. ASSUME NEW s \in Slots PROVE Served(s) <=> Remembers(s)
    <3>1. Served(s) <=> Wants(socket, s)  BY <2>2 DEF Served
    <3>2. Holds(wanted[socket], s) <=> Remembers(s)
      BY <2>3, ResultsEmpty, HoldsBoolean
    <3> QED  BY <2>4, <3>1, <3>2
  <2> QED  BY <2>1, <2>5, RememberedSlots
<1> QED  BY <1>1, Inductive, PTL

(* Over coalescing, flushes and connections that overlap, no step takes    *)
(* the page back to an older state of a slot.                              *)
THEOREM PageNeverGoesBack == Spec => SlotsNeverGoBack
<1>1. ASSUME IInv, [Next]_vars
      PROVE  [\A s \in Slots : seen'[s] >= seen[s]]_seen
  <2> SUFFICES ASSUME seen' # seen PROVE \A s \in Slots : seen'[s] >= seen[s]
    OBVIOUS
  <2>1. \E c \in Connections : Receive(c)
    BY <1>1 DEF Next, Mount, Unmount, ForceReconnect, OnClose, ShowChart, Publish, Flush, BroadcastNext,
                Serve, Accept, HandleFrame, EndpointEnds, Heartbeat, SendOk, SendFails, CloseEnds,
                CutLine, SlowClient, vars, page
  <2> QED  BY <1>1, <2>1, ReceiveV DEF IInv
<1> QED  BY <1>1, Inductive, PTL DEF Spec, SlotsNeverGoBack
=================================================================================
