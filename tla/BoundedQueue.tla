---------------------------- MODULE BoundedQueue ----------------------------
(***************************************************************************)
(* The producer half of the compiled NT_AddOn: NinjaTrader callbacks stamp *)
(* an event with the next sequence number of its stream                    *)
(* (SequenceGenerator, MarketDataNormalizer) and put it in the bounded     *)
(* buffer (BoundedQueue) that the background sender drains.                *)
(*                                                                         *)
(* The linked list _queue is the function queue from the nodes in the list *)
(* to their values.  AddLast is the only insertion, so numbering the nodes *)
(* as they are created makes list order the order of the numbers.          *)
(*                                                                         *)
(* Each monitor-guarded method is one action.  The callbacks of one stream *)
(* run on one NinjaTrader thread, and stamping a stream commutes with      *)
(* everything the other streams do, so stamping and enqueueing are one     *)
(* step.                                                                   *)
(***************************************************************************)
EXTENDS Integers, FiniteSets, Sequences

CONSTANTS
  TradeStreams,              (* streams of Channel.Trade                   *)
  QuoteStreams,              (* streams of Channel.Quote                   *)
  Capacity,                  (* Capacity of the buffer                     *)
  CriticalOverloadThreshold, (* depth at which trades may be shed          *)
  MaxSequence                (* bound: events issued per stream            *)

Streams == TradeStreams \cup QuoteStreams

ASSUME StreamsAssumption == TradeStreams \cap QuoteStreams = {}

(* The constructor rejects every other pair. *)
ASSUME CapacityAssumption ==
  /\ Capacity \in Nat \ {0}
  /\ CriticalOverloadThreshold \in 1 .. Capacity

ASSUME MaxSequenceAssumption == MaxSequence \in Nat

Event == [stream : Streams, sequence : Nat \ {0}]

(* The absence of a node in _latestQuoteNode; nodes are numbered from 1. *)
NoNode == 0

VARIABLES
  counter,            (* SequenceGenerator: last number issued per stream  *)
  queue,              (* _queue: node -> value, in node order              *)
  nextNode,           (* number of nodes created so far                    *)
  tradeNodes,         (* _tradeNodes: FIFO of the nodes holding trades     *)
  latestQuoteNode,    (* _latestQuoteNode: per quote stream                *)
  droppedTradeLog,    (* what the IDroppedTradeLogger was told             *)
  droppedTradeCount,  (* _droppedTradeCount                                *)
  coalescedQuoteCount,(* _coalescedQuoteCount                              *)
  consumer,           (* the thread in Dequeue: running, waiting, stopped  *)
  cancellation,       (* the token: none, requested, signalled             *)
  delivered           (* history: the events Dequeue has returned          *)

queueVars ==
  <<queue, nextNode, tradeNodes, latestQuoteNode, droppedTradeLog,
    droppedTradeCount, coalescedQuoteCount>>

vars == <<counter, queueVars, consumer, cancellation, delivered>>

Depth == Cardinality(DOMAIN queue)

Buffered == {queue[n] : n \in DOMAIN queue}

Issued(S) == {e \in [stream : S, sequence : 1 .. MaxSequence] :
                e.sequence <= counter[e.stream]}

(***************************************************************************)
(* List operations.                                                        *)
(***************************************************************************)

Without(n) == [m \in DOMAIN queue \ {n} |-> queue[m]]

(* list with a new last node that holds e. *)
WithLast(list, e) ==
  [m \in DOMAIN list \cup {nextNode + 1} |->
     IF m = nextNode + 1 THEN e ELSE list[m]]

IsHead(n) == n \in DOMAIN queue /\ \A m \in DOMAIN queue : n <= m

LogDroppedTrade(e) ==
  /\ droppedTradeLog' = droppedTradeLog \cup {e}
  /\ droppedTradeCount' = droppedTradeCount + 1

(***************************************************************************)
(* Enqueueing a trade.                                                     *)
(***************************************************************************)

AppendTrade(list, nodes, e) ==
  /\ queue' = WithLast(list, e)
  /\ tradeNodes' = Append(nodes, nextNode + 1)
  /\ nextNode' = nextNode + 1
  /\ UNCHANGED <<latestQuoteNode, coalescedQuoteCount>>

(* Below the threshold every trade is kept; at or above it a trade is kept *)
(* without shedding only when no trade is buffered and there is room.      *)
RetainTrade(e) ==
  /\ \/ Depth < CriticalOverloadThreshold
     \/ tradeNodes = <<>> /\ Depth < Capacity
  /\ AppendTrade(queue, tradeNodes, e)
  /\ UNCHANGED <<droppedTradeLog, droppedTradeCount>>

(* Mutant: the victim is not reported. *)
EvictOldestTradeSilently(e) ==
  /\ Depth >= CriticalOverloadThreshold
  /\ tradeNodes # <<>>
  /\ AppendTrade(Without(Head(tradeNodes)), Tail(tradeNodes), e)
  /\ UNCHANGED <<droppedTradeLog, droppedTradeCount>>

(* Mutant: the newest buffered trade is the victim. *)
EvictNewestTrade(e) ==
  /\ Depth >= CriticalOverloadThreshold
  /\ tradeNodes # <<>>
  /\ LET last == Len(tradeNodes) IN
       /\ LogDroppedTrade(queue[tradeNodes[last]])
       /\ AppendTrade(Without(tradeNodes[last]),
                      SubSeq(tradeNodes, 1, last - 1), e)

EvictOldestTrade(e) ==
  /\ Depth >= CriticalOverloadThreshold
  /\ tradeNodes # <<>>
  /\ LogDroppedTrade(queue[Head(tradeNodes)])
  /\ AppendTrade(Without(Head(tradeNodes)), Tail(tradeNodes), e)

DropIncomingTrade(e) ==
  /\ Depth >= Capacity
  /\ tradeNodes = <<>>
  /\ LogDroppedTrade(e)
  /\ UNCHANGED <<queue, nextNode, tradeNodes, latestQuoteNode,
                 coalescedQuoteCount>>

(***************************************************************************)
(* Enqueueing a quote.                                                     *)
(***************************************************************************)

(* Mutant: the first buffered quote stays the one that is overwritten. *)
RetainQuoteKeepingFirst(e) ==
  /\ Depth < Capacity
  /\ queue' = WithLast(queue, e)
  /\ nextNode' = nextNode + 1
  /\ latestQuoteNode' = [latestQuoteNode EXCEPT ![e.stream] =
                           IF @ = NoNode THEN nextNode + 1 ELSE @]
  /\ UNCHANGED <<tradeNodes, droppedTradeLog, droppedTradeCount,
                 coalescedQuoteCount>>

RetainQuote(e) ==
  /\ Depth < Capacity
  /\ queue' = WithLast(queue, e)
  /\ nextNode' = nextNode + 1
  /\ latestQuoteNode' = [latestQuoteNode EXCEPT ![e.stream] = nextNode + 1]
  /\ UNCHANGED <<tradeNodes, droppedTradeLog, droppedTradeCount,
                 coalescedQuoteCount>>

CoalesceQuote(e) ==
  /\ Depth >= Capacity
  /\ latestQuoteNode[e.stream] # NoNode
  /\ queue' = [queue EXCEPT ![latestQuoteNode[e.stream]] = e]
  /\ coalescedQuoteCount' = coalescedQuoteCount + 1
  /\ UNCHANGED <<nextNode, tradeNodes, latestQuoteNode, droppedTradeLog,
                 droppedTradeCount>>

DropIncomingQuote(e) ==
  /\ Depth >= Capacity
  /\ latestQuoteNode[e.stream] = NoNode
  /\ UNCHANGED queueVars

(***************************************************************************)
(* The producer: stamp, enqueue, and wake the consumer when retained.      *)
(***************************************************************************)

Pulse == consumer' = IF consumer = "waiting" THEN "running" ELSE consumer

(* Mutant: the waiting consumer is not woken. *)
EnqueueRetainedWithoutPulse(e) ==
  /\ \/ e.stream \in TradeStreams /\ (RetainTrade(e) \/ EvictOldestTrade(e))
     \/ e.stream \in QuoteStreams /\ (RetainQuote(e) \/ CoalesceQuote(e))
  /\ UNCHANGED consumer

EnqueueRetained(e) ==
  /\ \/ e.stream \in TradeStreams /\ (RetainTrade(e) \/ EvictOldestTrade(e))
     \/ e.stream \in QuoteStreams /\ (RetainQuote(e) \/ CoalesceQuote(e))
  /\ Pulse

EnqueueRefused(e) ==
  /\ \/ e.stream \in TradeStreams /\ DropIncomingTrade(e)
     \/ e.stream \in QuoteStreams /\ DropIncomingQuote(e)
  /\ UNCHANGED consumer

Normalize(s) ==
  LET e == [stream |-> s, sequence |-> counter[s] + 1] IN
  /\ counter[s] < MaxSequence
  /\ counter' = [counter EXCEPT ![s] = @ + 1]
  /\ EnqueueRetained(e) \/ EnqueueRefused(e)
  /\ UNCHANGED <<cancellation, delivered>>

(***************************************************************************)
(* The consumer.                                                           *)
(***************************************************************************)

(* DequeueHead(n): n is the first node.  The front of _tradeNodes is       *)
(* removed unseen when the head holds a trade; the latest-quote entry is   *)
(* removed only when it is this node.                                      *)
DequeueHead(n) ==
  /\ queue' = Without(n)
  /\ tradeNodes' = IF queue[n].stream \in TradeStreams
                   THEN Tail(tradeNodes) ELSE tradeNodes
  /\ latestQuoteNode' = [s \in QuoteStreams |->
                           IF s = queue[n].stream /\ latestQuoteNode[s] = n
                           THEN NoNode ELSE latestQuoteNode[s]]
  /\ UNCHANGED <<nextNode, droppedTradeLog, droppedTradeCount,
                 coalescedQuoteCount>>

Dequeue ==
  /\ consumer = "running"
  /\ \E n \in DOMAIN queue :
       /\ IsHead(n)
       /\ DequeueHead(n)
       /\ delivered' = delivered \cup {queue[n]}
  /\ UNCHANGED <<counter, consumer, cancellation>>

Wait ==
  /\ consumer = "running"
  /\ DOMAIN queue = {}
  /\ cancellation = "none"
  /\ consumer' = "waiting"
  /\ UNCHANGED <<counter, queueVars, cancellation, delivered>>

(* The sender loop tests the token before each Dequeue, and Dequeue tests  *)
(* it whenever it finds the buffer empty.                                  *)
StopConsumer ==
  /\ consumer = "running"
  /\ cancellation # "none"
  /\ consumer' = "stopped"
  /\ UNCHANGED <<counter, queueVars, cancellation, delivered>>

(* Cancel() sets the token and then runs the registered PulseAll, which    *)
(* has to take the monitor first.                                          *)
RequestCancellation ==
  /\ cancellation = "none"
  /\ cancellation' = "requested"
  /\ UNCHANGED <<counter, queueVars, consumer, delivered>>

PulseAll ==
  /\ cancellation = "requested"
  /\ cancellation' = "signalled"
  /\ Pulse
  /\ UNCHANGED <<counter, queueVars, delivered>>

Init ==
  /\ counter = [s \in Streams |-> 0]
  /\ queue = [n \in {} |-> {}]
  /\ nextNode = 0
  /\ tradeNodes = <<>>
  /\ latestQuoteNode = [s \in QuoteStreams |-> NoNode]
  /\ droppedTradeLog = {}
  /\ droppedTradeCount = 0
  /\ coalescedQuoteCount = 0
  /\ consumer = "running"
  /\ cancellation = "none"
  /\ delivered = {}

Next ==
  \/ \E s \in Streams : Normalize(s)
  \/ Dequeue
  \/ Wait
  \/ StopConsumer
  \/ RequestCancellation
  \/ PulseAll

Spec == Init /\ [][Next]_vars

(* The sender runs on a dedicated thread and a cancellation callback, once *)
(* due, is run; the market and the operator owe nothing.                   *)
FairSpec ==
  /\ Spec
  /\ WF_vars(Dequeue)
  /\ WF_vars(Wait)
  /\ WF_vars(StopConsumer)
  /\ WF_vars(PulseAll)

-----------------------------------------------------------------------------

TypeOK ==
  /\ counter \in [Streams -> Nat]
  /\ nextNode \in Nat
  /\ DOMAIN queue \in SUBSET (1 .. nextNode)
  /\ queue \in [DOMAIN queue -> Event]
  /\ tradeNodes \in Seq(Nat)
  /\ latestQuoteNode \in [QuoteStreams -> Nat]
  /\ droppedTradeLog \in SUBSET Event
  /\ droppedTradeCount \in Nat
  /\ coalescedQuoteCount \in Nat
  /\ consumer \in {"running", "waiting", "stopped"}
  /\ cancellation \in {"none", "requested", "signalled"}
  /\ delivered \in SUBSET Event

(* The buffer never holds more than Capacity events, whatever mixture of   *)
(* appending, shedding and overwriting led there.                          *)
CapacityRespected == Depth <= Capacity

(* _tradeNodes lists exactly the buffered trades, oldest first: the front  *)
(* that Dequeue discards unseen is the node it has just removed, and the   *)
(* node EvictOldestTradeAndLog removes is in the list.                     *)
TradeNodesMatchQueue ==
  /\ {tradeNodes[i] : i \in DOMAIN tradeNodes} =
       {n \in DOMAIN queue : queue[n].stream \in TradeStreams}
  /\ \A i, j \in DOMAIN tradeNodes : i < j => tradeNodes[i] < tradeNodes[j]

(* _latestQuoteNode points at the newest buffered quote of the stream and  *)
(* at nothing when none is buffered: coalescing never writes into a node   *)
(* that was already sent, nor over a quote that has a successor.           *)
LatestQuoteNodeMatchesQueue ==
  \A s \in QuoteStreams :
    LET nodes == {n \in DOMAIN queue : queue[n].stream = s} IN
    \/ latestQuoteNode[s] = NoNode /\ nodes = {}
    \/ latestQuoteNode[s] \in nodes /\ \A n \in nodes : n <= latestQuoteNode[s]

(* Both indexes describe the linked list: a stale one would make a later    *)
(* coalesce, shed or dequeue touch a node that was already sent.           *)
IndexesDescribeQueue == TradeNodesMatchQueue /\ LatestQuoteNodeMatchesQueue

(* The events of one stream are buffered in the order they were stamped,   *)
(* all of them stamped, and all newer than what was already handed over,   *)
(* although shedding and coalescing rewrite the middle of the list.        *)
StreamsInOrder ==
  /\ \A n \in DOMAIN queue : queue[n].sequence <= counter[queue[n].stream]
  /\ \A m, n \in DOMAIN queue :
       m < n /\ queue[m].stream = queue[n].stream
         => queue[m].sequence < queue[n].sequence
  /\ \A n \in DOMAIN queue, e \in delivered :
       queue[n].stream = e.stream => e.sequence < queue[n].sequence

(* Every issued trade is buffered, handed over or in the dropped-trade     *)
(* log, and in only one of the three: no trade disappears silently.        *)
TradesAccountedFor ==
  /\ Issued(TradeStreams) \subseteq Buffered \cup delivered \cup droppedTradeLog
  /\ droppedTradeLog \cap (Buffered \cup delivered) = {}

(* A trade is shed only in a critically deep buffer, and what is shed is   *)
(* older than every trade of its stream that stays.                        *)
SheddingKeepsFreshestTrades ==
  [][\A e \in droppedTradeLog' \ droppedTradeLog :
       /\ Depth >= CriticalOverloadThreshold
       /\ \A kept \in Buffered' :
            kept.stream = e.stream => e.sequence < kept.sequence]_vars

(* A consumer never sleeps on a buffer that holds an event: every retained *)
(* event wakes it.                                                         *)
NoSleepOnWork == consumer = "waiting" => DOMAIN queue = {}

(* Every buffered event leaves the buffer unless the sender is cancelled.  *)
BufferDrains ==
  \A s \in Streams :
    (\E e \in Buffered : e.stream = s) ~>
      ((\A e \in Buffered : e.stream # s) \/ cancellation # "none")

(* The values of the list, front to back. *)
ListOrder ==
  [i \in 1 .. Depth |->
     queue[CHOOSE n \in DOMAIN queue :
             Cardinality({m \in DOMAIN queue : m <= n}) = i]]

Buffer == INSTANCE EventBuffer WITH buffer <- ListOrder

(* The indexed list behaves like the plain buffer of EventBuffer: shedding *)
(* costs one event, coalescing replaces the newest event of the stream,    *)
(* and the sender gets the front of the list.                              *)
ImplementsEventBuffer == Buffer!Spec
=============================================================================
