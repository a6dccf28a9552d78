------------------------ MODULE BoundedQueue_proofs ------------------------
(***************************************************************************)
(* Proofs about BoundedQueue for every set of streams, every capacity and  *)
(* every threshold the constructor accepts.                                *)
(*                                                                         *)
(* The inductive invariant IInv is the conjunction of the type invariant,  *)
(* the consistency of the two indexes with the list, the order of the      *)
(* streams, the accounting of trades, and two facts only the proof needs:  *)
(* everything handed over or logged was issued.  The refinement of         *)
(* EventBuffer needs no more of the reachable states than IInv; its work   *)
(* is to say at which place of the list a node stands.                     *)
(***************************************************************************)
EXTENDS BoundedQueue, TLAPS, FiniteSetTheorems, SequenceTheorems

(* Nothing is handed over or logged that the generator has not stamped. *)
OnlyIssuedLeaves ==
  \A e \in delivered \cup droppedTradeLog : e.sequence <= counter[e.stream]

IInv ==
  /\ TypeOK
  /\ CapacityRespected
  /\ TradeNodesMatchQueue
  /\ LatestQuoteNodeMatchesQueue
  /\ StreamsInOrder
  /\ TradesAccountedFor
  /\ OnlyIssuedLeaves

USE StreamsAssumption, CapacityAssumption, MaxSequenceAssumption

(* The list is finite, so Depth is a number. *)
LEMMA DepthType ==
  ASSUME TypeOK
  PROVE  /\ IsFiniteSet(DOMAIN queue)
         /\ Depth \in Nat
<1>1. IsFiniteSet(1 .. nextNode)
  <2>1. 1 \in Int /\ nextNode \in Int
    BY DEF TypeOK
  <2>2. QED
    BY <2>1, FS_Interval, Zenon
<1>2. DOMAIN queue \in SUBSET (1 .. nextNode)
  BY DEF TypeOK
<1>3. IsFiniteSet(DOMAIN queue)
  BY <1>1, <1>2, FS_Subset
<1>4. QED
  BY <1>3, FS_CardinalityType DEF Depth

(* AddLast makes the list one node longer. *)
LEMMA WithLastDepth ==
  ASSUME TypeOK, NEW e
  PROVE  Cardinality(DOMAIN WithLast(queue, e)) = Depth + 1
<1>1. nextNode + 1 \notin DOMAIN queue
  BY DEF TypeOK
<1>2. DOMAIN WithLast(queue, e) = DOMAIN queue \cup {nextNode + 1}
  BY DEF WithLast
<1>3. QED
  BY <1>1, <1>2, DepthType, FS_AddElement DEF Depth

(* Unlinking a node and adding another keeps the length. *)
LEMMA ReplaceDepth ==
  ASSUME TypeOK, NEW e, NEW n \in DOMAIN queue
  PROVE  Cardinality(DOMAIN WithLast(Without(n), e)) = Depth
<1>1. nextNode + 1 \notin DOMAIN queue \ {n}
  BY DEF TypeOK
<1>2. DOMAIN WithLast(Without(n), e) = (DOMAIN queue \ {n}) \cup {nextNode + 1}
  BY DEF WithLast, Without
<1>3. /\ IsFiniteSet(DOMAIN queue \ {n})
      /\ Cardinality(DOMAIN queue \ {n}) = Depth - 1
  BY DepthType, FS_RemoveElement DEF Depth
<1>4. Cardinality((DOMAIN queue \ {n}) \cup {nextNode + 1}) = (Depth - 1) + 1
  BY <1>1, <1>3, FS_AddElement
<1>5. QED
  BY <1>2, <1>4, DepthType

LEMMA WithoutDepth ==
  ASSUME TypeOK, NEW n \in DOMAIN queue
  PROVE  Cardinality(DOMAIN Without(n)) = Depth - 1
  BY DepthType, FS_RemoveElement DEF Depth, Without

-----------------------------------------------------------------------------

LEMMA InitIInv == Init => IInv
<1> SUFFICES ASSUME Init PROVE IInv
  OBVIOUS
<1> USE DEF Init
<1>1. DOMAIN queue = {}
  OBVIOUS
<1>2. TypeOK
  BY <1>1 DEF TypeOK, NoNode
<1>3. CapacityRespected
  BY <1>1, FS_EmptySet DEF CapacityRespected, Depth
<1>4. TradeNodesMatchQueue
  BY <1>1 DEF TradeNodesMatchQueue
<1>5. LatestQuoteNodeMatchesQueue
  BY <1>1 DEF LatestQuoteNodeMatchesQueue
<1>6. StreamsInOrder
  BY <1>1 DEF StreamsInOrder
<1>7. Issued(TradeStreams) = {}
  BY DEF Issued, Streams
<1>8. TradesAccountedFor
  BY <1>7 DEF TradesAccountedFor
<1>9. OnlyIssuedLeaves
  BY DEF OnlyIssuedLeaves
<1>10. QED
  BY <1>2, <1>3, <1>4, <1>5, <1>6, <1>8, <1>9 DEF IInv

(* What stamping an event of stream s gives the enqueue operations. *)
Stamp(s, e) ==
  /\ s \in Streams
  /\ e = [stream |-> s, sequence |-> counter[s] + 1]
  /\ counter' = [counter EXCEPT ![s] = @ + 1]
  /\ consumer' \in {"running", "waiting", "stopped"}
  /\ UNCHANGED <<cancellation, delivered>>

LEMMA StampFacts ==
  ASSUME TypeOK, NEW s, NEW e, Stamp(s, e)
  PROVE  /\ e \in Event
         /\ e.stream = s
         /\ e.sequence = counter[s] + 1
         /\ counter' \in [Streams -> Nat]
         /\ \A t \in Streams : t # s => counter'[t] = counter[t]
         /\ counter'[s] = counter[s] + 1
         /\ counter[s] \in Nat
         /\ Issued(TradeStreams)' \subseteq Issued(TradeStreams) \cup {e}
         /\ s \notin TradeStreams => Issued(TradeStreams)' = Issued(TradeStreams)
<1> USE DEF TypeOK, Stamp
<1>1. counter[s] \in Nat /\ counter' \in [Streams -> Nat] /\ counter'[s] = counter[s] + 1
  OBVIOUS
<1>2. \A t \in Streams : t # s => counter'[t] = counter[t]
  OBVIOUS
<1>3. e \in Event /\ e.stream = s /\ e.sequence = counter[s] + 1
  BY <1>1 DEF Event
<1>4. ASSUME NEW d \in Issued(TradeStreams)', d # e
      PROVE  d \in Issued(TradeStreams)
  <2>1. /\ d \in [stream : TradeStreams, sequence : 1 .. MaxSequence]
        /\ d.sequence <= counter'[d.stream]
    BY <1>4 DEF Issued
  <2>2. d.stream \in Streams
    BY <2>1 DEF Streams
  <2>3. CASE d.stream # s
    BY <1>2, <2>1, <2>2, <2>3 DEF Issued
  <2>4. CASE d.stream = s
    <3>1. d.sequence # counter[s] + 1
      <4>1. d = [stream |-> d.stream, sequence |-> d.sequence]
        BY <2>1
      <4>2. QED
        BY <1>4, <2>4, <4>1
    <3>2. d.sequence <= counter[s]
      BY <1>1, <2>1, <2>4, <3>1
    <3>3. QED
      BY <2>1, <2>4, <3>2 DEF Issued
  <2>5. QED
    BY <2>3, <2>4
<1>5. ASSUME s \notin TradeStreams
      PROVE  Issued(TradeStreams)' = Issued(TradeStreams)
  BY <1>2, <1>5 DEF Issued, Streams
<1>6. QED
  BY <1>1, <1>2, <1>3, <1>4, <1>5

(* AddLast of a stamped event to what is left of the list after unlinking  *)
(* nodes: the three operations that create a node are instances of it.     *)
LEMMA AppendKeepsOrder ==
  ASSUME IInv, NEW s, NEW e, Stamp(s, e),
         NEW D \in SUBSET DOMAIN queue,
         queue' = WithLast([m \in D |-> queue[m]], e)
  PROVE  /\ DOMAIN queue' = D \cup {nextNode + 1}
         /\ queue'[nextNode + 1] = e
         /\ \A n \in D : n < nextNode + 1 /\ n # nextNode + 1 /\ queue'[n] = queue[n]
         /\ DOMAIN queue' \in SUBSET (1 .. nextNode + 1)
         /\ queue' \in [DOMAIN queue' -> Event]
         /\ StreamsInOrder'
<1> DEFINE k == nextNode + 1
<1>1. TypeOK /\ StreamsInOrder /\ OnlyIssuedLeaves
  BY DEF IInv
<1>2. /\ e \in Event /\ e.stream = s /\ e.sequence = counter[s] + 1
      /\ s \in Streams
      /\ \A t \in Streams : t # s => counter'[t] = counter[t]
      /\ counter'[s] = counter[s] + 1 /\ counter[s] \in Nat
  BY <1>1, StampFacts DEF Stamp
<1>3. /\ DOMAIN queue' = D \cup {k}
      /\ queue'[k] = e
      /\ \A n \in D : n < k /\ n # k /\ queue'[n] = queue[n]
  BY <1>1 DEF WithLast, TypeOK
<1>4. /\ DOMAIN queue' \in SUBSET (1 .. k)
      /\ queue' \in [DOMAIN queue' -> Event]
  BY <1>1, <1>2, <1>3 DEF TypeOK, WithLast
<1>5. \A n \in D : /\ queue[n].stream \in Streams
                   /\ queue[n].sequence \in Nat
                   /\ queue[n].sequence <= counter[queue[n].stream]
  BY <1>1 DEF TypeOK, Event, StreamsInOrder
<1>6. \A n \in D : queue[n].stream = s => queue[n].sequence < e.sequence
  BY <1>2, <1>5
<1>7. \A n \in DOMAIN queue' : queue'[n].sequence <= counter'[queue'[n].stream]
  BY <1>2, <1>3, <1>5
<1>8. \A m, n \in DOMAIN queue' :
        m < n /\ queue'[m].stream = queue'[n].stream
          => queue'[m].sequence < queue'[n].sequence
  <2> SUFFICES ASSUME NEW m \in DOMAIN queue', NEW n \in DOMAIN queue',
                      m < n, queue'[m].stream = queue'[n].stream
               PROVE  queue'[m].sequence < queue'[n].sequence
    OBVIOUS
  <2>1. m \in D
    BY <1>1, <1>3 DEF TypeOK
  <2>2. CASE n = k
    BY <1>2, <1>3, <1>6, <2>1, <2>2
  <2>3. CASE n \in D
    BY <1>1, <1>3, <2>1, <2>3 DEF StreamsInOrder
  <2>4. QED
    BY <1>3, <2>2, <2>3
<1>9. \A n \in DOMAIN queue', d \in delivered' :
        queue'[n].stream = d.stream => d.sequence < queue'[n].sequence
  <2>1. delivered' = delivered
    BY DEF Stamp
  <2>2. \A d \in delivered : d.stream = s => d.sequence < e.sequence
    BY <1>1, <1>2 DEF OnlyIssuedLeaves, TypeOK, Event
  <2>3. \A n \in D, d \in delivered :
          queue[n].stream = d.stream => d.sequence < queue[n].sequence
    BY <1>1 DEF StreamsInOrder
  <2>4. QED
    BY <1>2, <1>3, <2>1, <2>2, <2>3
<1>10. StreamsInOrder'
  BY <1>7, <1>8, <1>9 DEF StreamsInOrder
<1>11. QED
  BY <1>3, <1>4, <1>10

(* A freshly stamped event is nowhere yet. *)
LEMMA StampedIsFresh ==
  ASSUME IInv, NEW s, NEW e, Stamp(s, e)
  PROVE  e \notin Buffered \cup delivered \cup droppedTradeLog
<1>1. TypeOK /\ StreamsInOrder /\ OnlyIssuedLeaves
  BY DEF IInv
<1>2. e.stream = s /\ e.sequence = counter[s] + 1 /\ counter[s] \in Nat
  BY <1>1, StampFacts
<1>3. \A d \in Buffered \cup delivered \cup droppedTradeLog :
        d.sequence <= counter[d.stream]
  BY <1>1 DEF OnlyIssuedLeaves, StreamsInOrder, Buffered
<1>4. QED
  BY <1>2, <1>3

(* Stamping never breaks the bound on what has left the buffer, whatever   *)
(* issued trade it sheds on the way.                                       *)
LEMMA StampKeepsOnlyIssued ==
  ASSUME IInv, NEW s, NEW e, Stamp(s, e),
         droppedTradeLog' \subseteq droppedTradeLog \cup Buffered \cup {e}
  PROVE  OnlyIssuedLeaves'
<1>1. TypeOK /\ StreamsInOrder /\ OnlyIssuedLeaves
  BY DEF IInv
<1>2. /\ e.stream = s /\ e.sequence = counter[s] + 1
      /\ \A t \in Streams : t # s => counter'[t] = counter[t]
      /\ counter'[s] = counter[s] + 1 /\ counter[s] \in Nat
  BY <1>1, StampFacts
<1>3. \A d \in delivered \cup droppedTradeLog \cup Buffered :
        /\ d \in Event
        /\ d.sequence <= counter[d.stream]
  BY <1>1 DEF TypeOK, OnlyIssuedLeaves, StreamsInOrder, Buffered
<1>4. \A d \in delivered \cup droppedTradeLog \cup Buffered :
        d.sequence <= counter'[d.stream]
  BY <1>1, <1>2, <1>3, SMTT(30) DEF TypeOK, Event
<1>5. QED
  BY <1>2, <1>4 DEF OnlyIssuedLeaves, Stamp

(* One lemma per enqueue operation.                                        *)
LEMMA RetainTradeIInv ==
  ASSUME IInv, NEW s \in TradeStreams, NEW e, Stamp(s, e), RetainTrade(e)
  PROVE  IInv'
<1> DEFINE k == nextNode + 1
<1> USE DEF RetainTrade, AppendTrade
<1>1. /\ TypeOK /\ CapacityRespected /\ TradeNodesMatchQueue
      /\ LatestQuoteNodeMatchesQueue /\ StreamsInOrder
      /\ TradesAccountedFor /\ OnlyIssuedLeaves
  BY DEF IInv
<1>2. /\ e \in Event /\ e.stream = s /\ e.sequence = counter[s] + 1
      /\ counter' \in [Streams -> Nat]
      /\ \A t \in Streams : t # s => counter'[t] = counter[t]
      /\ counter'[s] = counter[s] + 1 /\ counter[s] \in Nat
      /\ Issued(TradeStreams)' \subseteq Issued(TradeStreams) \cup {e}
  BY <1>1, StampFacts
<1>3. /\ DOMAIN queue' = DOMAIN queue \cup {k}
      /\ queue'[k] = e
      /\ \A n \in DOMAIN queue : n # k /\ n < k /\ queue'[n] = queue[n]
      /\ DOMAIN queue' \in SUBSET (1 .. k)
      /\ queue' \in [DOMAIN queue' -> Event]
      /\ StreamsInOrder'
  <2>1. queue = [m \in DOMAIN queue |-> queue[m]]
    BY <1>1 DEF TypeOK
  <2>2. QED
    BY <2>1, AppendKeepsOrder
<1>4. TypeOK'
  BY <1>1, <1>2, <1>3, SMTT(30) DEF TypeOK, Stamp
<1>5. CapacityRespected'
  BY <1>1, WithLastDepth, DepthType DEF CapacityRespected, Depth
<1>6. TradeNodesMatchQueue'
  <2>1. tradeNodes \in Seq(Nat)
    BY <1>1 DEF TypeOK
  <2>2. /\ DOMAIN tradeNodes' = DOMAIN tradeNodes \cup {Len(tradeNodes) + 1}
        /\ tradeNodes'[Len(tradeNodes) + 1] = k
        /\ \A i \in DOMAIN tradeNodes : tradeNodes'[i] = tradeNodes[i]
    BY <2>1
  <2>3. {tradeNodes'[i] : i \in DOMAIN tradeNodes'} =
          {tradeNodes[i] : i \in DOMAIN tradeNodes} \cup {k}
    BY <2>2
  <2>4. {n \in DOMAIN queue' : queue'[n].stream \in TradeStreams} =
          {n \in DOMAIN queue : queue[n].stream \in TradeStreams} \cup {k}
    BY <1>2, <1>3
  <2>5. \A i \in DOMAIN tradeNodes : tradeNodes[i] < k
    BY <1>1, <1>3 DEF TradeNodesMatchQueue
  <2>6. \A i, j \in DOMAIN tradeNodes' :
           i < j => tradeNodes'[i] < tradeNodes'[j]
    BY <1>1, <2>1, <2>2, <2>5 DEF TradeNodesMatchQueue
  <2>7. QED
    BY <1>1, <2>3, <2>4, <2>6 DEF TradeNodesMatchQueue
<1>7. LatestQuoteNodeMatchesQueue'
  <2>1. ASSUME NEW q \in QuoteStreams
        PROVE  {n \in DOMAIN queue' : queue'[n].stream = q} =
               {n \in DOMAIN queue : queue[n].stream = q}
    BY <1>2, <1>3
  <2>2. QED
    BY <1>1, <2>1 DEF LatestQuoteNodeMatchesQueue
<1>8. TradesAccountedFor'
  <2>1. Buffered' = Buffered \cup {e}
    BY <1>3 DEF Buffered
  <2>2. e \notin droppedTradeLog
    BY StampedIsFresh
  <2>3. QED
    BY <1>1, <1>2, <2>1, <2>2 DEF TradesAccountedFor, Stamp
<1>9. OnlyIssuedLeaves'
  BY StampKeepsOnlyIssued
<1>10. QED
  BY <1>3, <1>4, <1>5, <1>6, <1>7, <1>8, <1>9 DEF IInv

LEMMA EvictOldestTradeIInv ==
  ASSUME IInv, NEW s \in TradeStreams, NEW e, Stamp(s, e), EvictOldestTrade(e)
  PROVE  IInv'
<1> DEFINE k == nextNode + 1
           victim == Head(tradeNodes)
           D == DOMAIN queue \ {victim}
<1> USE DEF EvictOldestTrade, AppendTrade
<1>1. /\ TypeOK /\ CapacityRespected /\ TradeNodesMatchQueue
      /\ LatestQuoteNodeMatchesQueue /\ StreamsInOrder
      /\ TradesAccountedFor /\ OnlyIssuedLeaves
  BY DEF IInv
<1>2. /\ e \in Event /\ e.stream = s /\ e.sequence = counter[s] + 1
      /\ counter' \in [Streams -> Nat]
      /\ Issued(TradeStreams)' \subseteq Issued(TradeStreams) \cup {e}
  BY <1>1, StampFacts
<1>3. /\ DOMAIN queue' = D \cup {k}
      /\ queue'[k] = e
      /\ \A n \in D : n # k /\ n < k /\ queue'[n] = queue[n]
      /\ DOMAIN queue' \in SUBSET (1 .. k)
      /\ queue' \in [DOMAIN queue' -> Event]
      /\ StreamsInOrder'
  <2>1. Without(victim) = [m \in D |-> queue[m]]
    BY DEF Without
  <2>2. QED
    BY <2>1, AppendKeepsOrder
<1>4. /\ tradeNodes \in Seq(Nat) /\ tradeNodes # <<>>
      /\ Len(tradeNodes) \in Nat /\ Len(tradeNodes) >= 1
      /\ 1 \in DOMAIN tradeNodes /\ victim = tradeNodes[1]
      /\ DOMAIN tradeNodes = 1 .. Len(tradeNodes)
  BY <1>1 DEF TypeOK
<1>5. victim \in DOMAIN queue /\ queue[victim].stream \in TradeStreams
  BY <1>1, <1>4 DEF TradeNodesMatchQueue
<1>6. queue[victim] \in Event
  BY <1>1, <1>5 DEF TypeOK
<1>7. TypeOK'
  <2>1. tradeNodes' \in Seq(Nat)
    BY <1>1, <1>4 DEF TypeOK
  <2>2. droppedTradeLog' \in SUBSET Event /\ droppedTradeCount' \in Nat
    BY <1>1, <1>6 DEF TypeOK, LogDroppedTrade
  <2>3. latestQuoteNode' = latestQuoteNode /\ nextNode' = k
    OBVIOUS
  <2>4. coalescedQuoteCount' = coalescedQuoteCount
    OBVIOUS
  <2>5. k \in Nat
    BY <1>1 DEF TypeOK
  <2> HIDE DEF EvictOldestTrade, AppendTrade, k
  <2>6. QED
    BY <1>1, <1>2, <1>3, <2>1, <2>2, <2>3, <2>4, <2>5 DEF TypeOK, Stamp
<1>8. CapacityRespected'
  BY <1>1, <1>5, ReplaceDepth DEF CapacityRespected, Depth
<1>9. TradeNodesMatchQueue'
  <2> DEFINE l == Len(tradeNodes)
  <2>1. /\ DOMAIN tradeNodes' = 1 .. l
        /\ tradeNodes'[l] = k
        /\ \A i \in 1 .. l - 1 : tradeNodes'[i] = tradeNodes[i + 1]
    BY <1>4
  <2>2. \A i \in 2 .. l : tradeNodes[i] # victim
    <3> SUFFICES ASSUME NEW i \in 2 .. l PROVE tradeNodes[1] < tradeNodes[i]
      BY <1>4
    <3>1. i \in DOMAIN tradeNodes /\ 1 < i
      BY <1>4
    <3>2. QED
      BY <1>1, <1>4, <3>1 DEF TradeNodesMatchQueue
  <2>3. {tradeNodes[i] : i \in 2 .. l} =
          {tradeNodes[i] : i \in DOMAIN tradeNodes} \ {victim}
    <3>1. DOMAIN tradeNodes = {1} \cup (2 .. l)
      BY <1>4
    <3> HIDE DEF EvictOldestTrade, AppendTrade, l
    <3>2. QED
      BY <1>4, <2>2, <3>1
  <2>4. {tradeNodes'[i] : i \in DOMAIN tradeNodes'} =
          {tradeNodes[i] : i \in 2 .. l} \cup {k}
    <3>1. ASSUME NEW i \in 2 .. l
          PROVE  i - 1 \in DOMAIN tradeNodes' /\ tradeNodes'[i - 1] = tradeNodes[i]
      <4>1. i - 1 \in 1 .. l - 1 /\ i - 1 + 1 = i
        BY <1>4
      <4>2. QED
        BY <1>4, <2>1, <4>1
    <3>2. ASSUME NEW i \in DOMAIN tradeNodes'
          PROVE  tradeNodes'[i] = k \/ \E j \in 2 .. l : tradeNodes'[i] = tradeNodes[j]
      <4>1. CASE i = l
        BY <2>1, <4>1
      <4>2. CASE i # l
        <5>1. i \in 1 .. l - 1 /\ i + 1 \in 2 .. l
          BY <1>4, <2>1, <4>2
        <5>2. QED
          BY <2>1, <5>1
      <4>3. QED
        BY <4>1, <4>2
    <3>3. l \in DOMAIN tradeNodes'
      BY <1>4, <2>1
    <3>4. tradeNodes'[l] = k
      BY <2>1
    <3> HIDE DEF EvictOldestTrade, AppendTrade, k, l
    <3>5. QED
      BY <3>1, <3>2, <3>3, <3>4
  <2>5. {n \in DOMAIN queue' : queue'[n].stream \in TradeStreams} =
          ({n \in DOMAIN queue : queue[n].stream \in TradeStreams} \ {victim})
            \cup {k}
    BY <1>2, <1>3
  <2>6. \A i \in DOMAIN tradeNodes : tradeNodes[i] \in DOMAIN queue
    BY <1>1 DEF TradeNodesMatchQueue
  <2>7. \A i \in 2 .. l : tradeNodes[i] \in D /\ tradeNodes[i] < k
    BY <1>3, <1>4, <2>2, <2>6
  <2>8. ASSUME NEW i \in DOMAIN tradeNodes', NEW j \in DOMAIN tradeNodes',
               i < j
        PROVE  tradeNodes'[i] < tradeNodes'[j]
    <3>1. /\ i \in 1 .. l - 1 /\ i + 1 \in 2 .. l
          /\ tradeNodes'[i] = tradeNodes[i + 1]
      BY <1>4, <2>1, <2>8
    <3>2. CASE j = l
      BY <2>1, <2>7, <3>1, <3>2
    <3>3. CASE j # l
      <4>1. /\ j \in 1 .. l - 1 /\ j + 1 \in 2 .. l /\ i + 1 < j + 1
            /\ tradeNodes'[j] = tradeNodes[j + 1]
        BY <1>4, <2>1, <2>8, <3>1, <3>3, SMTT(30)
      <4>2. i + 1 \in DOMAIN tradeNodes /\ j + 1 \in DOMAIN tradeNodes
        BY <1>4, <3>1, <4>1, SMTT(30)
      <4>3. QED
        BY <1>1, <3>1, <4>1, <4>2 DEF TradeNodesMatchQueue
    <3>4. QED
      BY <3>2, <3>3
  <2>9. QED
    BY <1>1, <2>3, <2>4, <2>5, <2>8 DEF TradeNodesMatchQueue
<1>10. LatestQuoteNodeMatchesQueue'
  <2>1. ASSUME NEW q \in QuoteStreams
        PROVE  {n \in DOMAIN queue' : queue'[n].stream = q} =
               {n \in DOMAIN queue : queue[n].stream = q}
    BY <1>2, <1>3, <1>5
  <2>2. QED
    BY <1>1, <2>1 DEF LatestQuoteNodeMatchesQueue
<1>11. TradesAccountedFor'
  <2>1. Buffered \subseteq Buffered' \cup {queue[victim]}
    BY <1>3 DEF Buffered
  <2>2. Buffered' = {queue[n] : n \in D} \cup {e}
    BY <1>3 DEF Buffered
  <2>3. e \notin droppedTradeLog \cup Buffered
    BY StampedIsFresh
  <2>4. queue[victim] \notin {queue[n] : n \in D}
    <3> SUFFICES ASSUME NEW n \in D, queue[n] = queue[victim]
                 PROVE  FALSE
      OBVIOUS
    <3>1. n < victim \/ victim < n
      BY <1>1, <1>5 DEF TypeOK
    <3>2. queue[victim].sequence < queue[victim].sequence
      BY <1>1, <1>5, <3>1 DEF StreamsInOrder
    <3>3. QED
      BY <1>6, <3>2 DEF Event
  <2>5. queue[victim] \notin delivered
    BY <1>1, <1>5 DEF StreamsInOrder, TypeOK, Event
  <2>6. queue[victim] \in Buffered /\ {queue[n] : n \in D} \subseteq Buffered
    BY <1>5 DEF Buffered
  <2>7. QED
    BY <1>1, <1>2, <2>1, <2>2, <2>3, <2>4, <2>5, <2>6
       DEF TradesAccountedFor, Stamp, LogDroppedTrade
<1>12. OnlyIssuedLeaves'
  <2>1. queue[victim] \in Buffered
    BY <1>5 DEF Buffered
  <2>2. QED
    BY <2>1, StampKeepsOnlyIssued DEF LogDroppedTrade
<1>13. QED
  BY <1>3, <1>7, <1>8, <1>9, <1>10, <1>11, <1>12 DEF IInv

(* The list is untouched when the incoming event is refused. *)
LEMMA RefusalKeepsOrder ==
  ASSUME IInv, NEW s, NEW e, Stamp(s, e), UNCHANGED queue
  PROVE  StreamsInOrder'
<1>1. TypeOK /\ StreamsInOrder
  BY DEF IInv
<1>2. \A t \in Streams : counter[t] \in Nat /\ counter[t] <= counter'[t]
  BY <1>1, StampFacts, SMTT(30) DEF TypeOK
<1>3. \A n \in DOMAIN queue : /\ queue[n].stream \in Streams
                              /\ queue[n].sequence \in Nat
  BY <1>1 DEF TypeOK, Event
<1>4. \A t \in Streams : counter'[t] \in Nat
  BY <1>1, StampFacts
<1>5. \A n \in DOMAIN queue : queue[n].sequence <= counter'[queue[n].stream]
  BY <1>1, <1>2, <1>3, <1>4 DEF StreamsInOrder
<1>6. QED
  BY <1>1, <1>5 DEF StreamsInOrder, Stamp

LEMMA DropIncomingTradeIInv ==
  ASSUME IInv, NEW s \in TradeStreams, NEW e, Stamp(s, e), DropIncomingTrade(e)
  PROVE  IInv'
<1> USE DEF DropIncomingTrade, LogDroppedTrade
<1>1. /\ TypeOK /\ CapacityRespected /\ TradeNodesMatchQueue
      /\ LatestQuoteNodeMatchesQueue /\ TradesAccountedFor
      /\ OnlyIssuedLeaves /\ StreamsInOrder
  BY DEF IInv
<1>2. /\ e \in Event /\ e.stream = s /\ e.sequence = counter[s] + 1
      /\ counter' \in [Streams -> Nat]
      /\ Issued(TradeStreams)' \subseteq Issued(TradeStreams) \cup {e}
  BY <1>1, StampFacts
<1>3. TypeOK'
  BY <1>1, <1>2 DEF TypeOK, Stamp
<1>4. /\ CapacityRespected' /\ TradeNodesMatchQueue'
      /\ LatestQuoteNodeMatchesQueue'
  BY <1>1 DEF CapacityRespected, Depth, TradeNodesMatchQueue,
              LatestQuoteNodeMatchesQueue
<1>5. StreamsInOrder'
  BY RefusalKeepsOrder
<1>6. TradesAccountedFor'
  <2>1. e \notin Buffered \cup delivered
    BY StampedIsFresh
  <2>2. Buffered' = Buffered
    BY DEF Buffered
  <2>3. QED
    BY <1>1, <1>2, <2>1, <2>2 DEF TradesAccountedFor, Stamp
<1>7. OnlyIssuedLeaves'
  BY StampKeepsOnlyIssued
<1>8. QED
  BY <1>3, <1>4, <1>5, <1>6, <1>7 DEF IInv

LEMMA RetainQuoteIInv ==
  ASSUME IInv, NEW s \in QuoteStreams, NEW e, Stamp(s, e), RetainQuote(e)
  PROVE  IInv'
<1> DEFINE k == nextNode + 1
<1> USE DEF RetainQuote
<1>1. /\ TypeOK /\ CapacityRespected /\ TradeNodesMatchQueue
      /\ LatestQuoteNodeMatchesQueue /\ TradesAccountedFor
      /\ OnlyIssuedLeaves /\ StreamsInOrder
  BY DEF IInv
<1>2. /\ e \in Event /\ e.stream = s /\ e.sequence = counter[s] + 1
      /\ counter' \in [Streams -> Nat] /\ s \notin TradeStreams
      /\ Issued(TradeStreams)' = Issued(TradeStreams)
  BY <1>1, StampFacts
<1>3. /\ DOMAIN queue' = DOMAIN queue \cup {k}
      /\ queue'[k] = e
      /\ \A n \in DOMAIN queue : n # k /\ n < k /\ queue'[n] = queue[n]
      /\ DOMAIN queue' \in SUBSET (1 .. k)
      /\ queue' \in [DOMAIN queue' -> Event]
      /\ StreamsInOrder'
  <2>1. queue = [m \in DOMAIN queue |-> queue[m]]
    BY <1>1 DEF TypeOK
  <2>2. QED
    BY <2>1, AppendKeepsOrder
<1>4. TypeOK'
  BY <1>1, <1>2, <1>3, SMTT(30) DEF TypeOK, Stamp
<1>5. CapacityRespected'
  BY <1>1, WithLastDepth, DepthType DEF CapacityRespected, Depth
<1>6. TradeNodesMatchQueue'
  <2>1. {n \in DOMAIN queue' : queue'[n].stream \in TradeStreams} =
          {n \in DOMAIN queue : queue[n].stream \in TradeStreams}
    BY <1>2, <1>3
  <2>2. QED
    BY <1>1, <2>1 DEF TradeNodesMatchQueue
<1>7. LatestQuoteNodeMatchesQueue'
  <2> DEFINE Nodes(q) == {n \in DOMAIN queue : queue[n].stream = q}
  <2>1. Nodes(s)' = Nodes(s) \cup {k}
    BY <1>2, <1>3
  <2>2. \A n \in Nodes(s) : n <= k
    BY <1>1, <1>3 DEF TypeOK
  <2>3. k \in Nat /\ latestQuoteNode'[s] = k
    BY <1>1, <1>2 DEF TypeOK
  <2>4. ASSUME NEW q \in QuoteStreams, q # s
        PROVE  Nodes(q)' = Nodes(q) /\ latestQuoteNode'[q] = latestQuoteNode[q]
    BY <1>1, <1>2, <1>3, <2>4 DEF TypeOK
  <2>5. ASSUME NEW q \in QuoteStreams
        PROVE  \/ latestQuoteNode'[q] = NoNode /\ Nodes(q)' = {}
               \/ /\ latestQuoteNode'[q] \in Nodes(q)'
                  /\ \A n \in Nodes(q)' : n <= latestQuoteNode'[q]
    <3>1. CASE q = s
      BY <2>1, <2>2, <2>3, <3>1
    <3>2. CASE q # s
      BY <1>1, <2>4, <3>2 DEF LatestQuoteNodeMatchesQueue
    <3>3. QED
      BY <3>1, <3>2
  <2>6. QED
    BY <2>5 DEF LatestQuoteNodeMatchesQueue
<1>8. TradesAccountedFor'
  <2>1. Buffered' = Buffered \cup {e}
    BY <1>3 DEF Buffered
  <2>2. e \notin droppedTradeLog
    BY StampedIsFresh
  <2>3. QED
    BY <1>1, <1>2, <2>1, <2>2 DEF TradesAccountedFor, Stamp
<1>9. OnlyIssuedLeaves'
  BY StampKeepsOnlyIssued
<1>10. QED
  BY <1>3, <1>4, <1>5, <1>6, <1>7, <1>8, <1>9 DEF IInv

LEMMA CoalesceQuoteIInv ==
  ASSUME IInv, NEW s \in QuoteStreams, NEW e, Stamp(s, e), CoalesceQuote(e)
  PROVE  IInv'
<1> DEFINE k == latestQuoteNode[s]
<1> USE DEF CoalesceQuote
<1>1. /\ TypeOK /\ CapacityRespected /\ TradeNodesMatchQueue
      /\ LatestQuoteNodeMatchesQueue /\ TradesAccountedFor
      /\ OnlyIssuedLeaves /\ StreamsInOrder
  BY DEF IInv
<1>2. /\ e \in Event /\ e.stream = s /\ e.sequence = counter[s] + 1
      /\ counter' \in [Streams -> Nat] /\ s \notin TradeStreams
      /\ \A t \in Streams : t # s => counter'[t] = counter[t]
      /\ counter'[s] = counter[s] + 1 /\ counter[s] \in Nat
      /\ Issued(TradeStreams)' = Issued(TradeStreams)
  BY <1>1, StampFacts
<1>3. /\ k \in DOMAIN queue /\ queue[k].stream = s
      /\ \A n \in DOMAIN queue : queue[n].stream = s => n <= k
  BY <1>1, <1>2 DEF LatestQuoteNodeMatchesQueue
<1>4. /\ DOMAIN queue' = DOMAIN queue
      /\ queue'[k] = e
      /\ \A n \in DOMAIN queue : n # k => queue'[n] = queue[n]
      /\ \A n \in DOMAIN queue : queue'[n].stream = queue[n].stream
      /\ queue' \in [DOMAIN queue -> Event]
  BY <1>1, <1>2, <1>3 DEF TypeOK
<1>5. TypeOK'
  BY <1>1, <1>2, <1>4, SMTT(30) DEF TypeOK, Stamp
<1>6. /\ CapacityRespected' /\ TradeNodesMatchQueue'
      /\ LatestQuoteNodeMatchesQueue'
  BY <1>1, <1>4 DEF CapacityRespected, Depth, TradeNodesMatchQueue,
                    LatestQuoteNodeMatchesQueue
<1>7. StreamsInOrder'
  <2>1. \A n \in DOMAIN queue : /\ n \in Nat
                                /\ queue[n].stream \in Streams
                                /\ queue[n].sequence \in Nat
                                /\ queue[n].sequence <= counter[queue[n].stream]
    BY <1>1 DEF TypeOK, Event, StreamsInOrder
  <2>2. \A n \in DOMAIN queue' : queue'[n].sequence <= counter'[queue'[n].stream]
    BY <1>2, <1>4, <2>1
  <2>3. ASSUME NEW m \in DOMAIN queue', NEW n \in DOMAIN queue',
               m < n, queue'[m].stream = queue'[n].stream
        PROVE  queue'[m].sequence < queue'[n].sequence
    <3>1. queue[m].stream = queue[n].stream
      BY <1>4, <2>3
    <3>2. m # k
      BY <1>3, <1>4, <2>1, <2>3, <3>1
    <3>3. CASE n = k
      BY <1>2, <1>3, <1>4, <2>1, <3>1, <3>2, <3>3
    <3>4. CASE n # k
      BY <1>1, <1>4, <2>3, <3>1, <3>2, <3>4 DEF StreamsInOrder
    <3>5. QED
      BY <3>3, <3>4
  <2>4. ASSUME NEW n \in DOMAIN queue', NEW d \in delivered',
               queue'[n].stream = d.stream
        PROVE  d.sequence < queue'[n].sequence
    <3>1. d \in delivered /\ d.sequence <= counter[d.stream] /\ d.sequence \in Nat
      BY <1>1, <2>4 DEF Stamp, OnlyIssuedLeaves, TypeOK, Event
    <3>2. CASE n = k
      BY <1>2, <1>4, <2>4, <3>1, <3>2
    <3>3. CASE n # k
      BY <1>1, <1>4, <2>4, <3>1, <3>3 DEF StreamsInOrder
    <3>4. QED
      BY <3>2, <3>3
  <2>5. QED
    BY <2>2, <2>3, <2>4 DEF StreamsInOrder
<1>8. TradesAccountedFor'
  <2>1. Buffered' \subseteq Buffered \cup {e}
    BY <1>4 DEF Buffered
  <2>2. ASSUME NEW d \in Issued(TradeStreams), d \in Buffered
        PROVE  d \in Buffered'
    <3>1. d.stream \in TradeStreams
      BY <2>2 DEF Issued
    <3>2. PICK n \in DOMAIN queue : queue[n] = d
      BY <2>2 DEF Buffered
    <3>3. n # k
      BY <1>2, <1>3, <3>1, <3>2
    <3>4. QED
      BY <1>4, <3>2, <3>3 DEF Buffered
  <2>3. e \notin droppedTradeLog
    BY StampedIsFresh
  <2>4. QED
    BY <1>1, <1>2, <2>1, <2>2, <2>3 DEF TradesAccountedFor, Stamp
<1>9. OnlyIssuedLeaves'
  BY StampKeepsOnlyIssued
<1>10. QED
  BY <1>5, <1>6, <1>7, <1>8, <1>9 DEF IInv

LEMMA DropIncomingQuoteIInv ==
  ASSUME IInv, NEW s \in QuoteStreams, NEW e, Stamp(s, e), DropIncomingQuote(e)
  PROVE  IInv'
<1> USE DEF DropIncomingQuote, queueVars
<1>1. /\ TypeOK /\ CapacityRespected /\ TradeNodesMatchQueue
      /\ LatestQuoteNodeMatchesQueue /\ TradesAccountedFor
      /\ OnlyIssuedLeaves /\ StreamsInOrder
  BY DEF IInv
<1>2. /\ counter' \in [Streams -> Nat]
      /\ Issued(TradeStreams)' = Issued(TradeStreams)
  BY <1>1, StampFacts
<1>3. TypeOK'
  BY <1>1, <1>2 DEF TypeOK, Stamp
<1>4. /\ CapacityRespected' /\ TradeNodesMatchQueue'
      /\ LatestQuoteNodeMatchesQueue'
  BY <1>1 DEF CapacityRespected, Depth, TradeNodesMatchQueue,
              LatestQuoteNodeMatchesQueue
<1>5. StreamsInOrder'
  BY RefusalKeepsOrder
<1>6. TradesAccountedFor'
  BY <1>1, <1>2 DEF TradesAccountedFor, Stamp, Buffered
<1>7. OnlyIssuedLeaves'
  BY StampKeepsOnlyIssued
<1>8. QED
  BY <1>3, <1>4, <1>5, <1>6, <1>7 DEF IInv

LEMMA NormalizeIInv ==
  ASSUME IInv, NEW s \in Streams, Normalize(s)
  PROVE  IInv'
<1> DEFINE e == [stream |-> s, sequence |-> counter[s] + 1]
<1>1. e.stream = s
  OBVIOUS
<1>2. consumer \in {"running", "waiting", "stopped"}
  BY DEF IInv, TypeOK
<1>3. Stamp(s, e) /\ (EnqueueRetained(e) \/ EnqueueRefused(e))
  BY <1>2 DEF Normalize, Stamp, EnqueueRetained, EnqueueRefused, Pulse
<1> HIDE DEF e
<1>4. CASE EnqueueRetained(e)
  BY <1>1, <1>3, <1>4, RetainTradeIInv, EvictOldestTradeIInv,
     RetainQuoteIInv, CoalesceQuoteIInv DEF EnqueueRetained
<1>5. CASE EnqueueRefused(e)
  BY <1>1, <1>3, <1>5, DropIncomingTradeIInv, DropIncomingQuoteIInv
     DEF EnqueueRefused
<1>6. QED
  BY <1>3, <1>4, <1>5

(* Steps that leave the buffer alone and only move the two threads. *)
LEMMA ThreadStepIInv ==
  ASSUME IInv, UNCHANGED <<counter, queueVars, delivered>>,
         consumer' \in {"running", "waiting", "stopped"},
         cancellation' \in {"none", "requested", "signalled"}
  PROVE  IInv'
  BY SMTT(30) DEF IInv, queueVars, TypeOK, CapacityRespected, Depth,
         TradeNodesMatchQueue, LatestQuoteNodeMatchesQueue, StreamsInOrder,
         TradesAccountedFor, Issued, Buffered, OnlyIssuedLeaves

LEMMA DequeueIInv ==
  ASSUME IInv, Dequeue
  PROVE  IInv'
<1>1. /\ TypeOK /\ CapacityRespected /\ TradeNodesMatchQueue
      /\ LatestQuoteNodeMatchesQueue /\ TradesAccountedFor
      /\ OnlyIssuedLeaves /\ StreamsInOrder
  BY DEF IInv
<1>2. PICK n \in DOMAIN queue :
        /\ IsHead(n)
        /\ DequeueHead(n)
        /\ delivered' = delivered \cup {queue[n]}
  BY DEF Dequeue
<1>3. UNCHANGED <<counter, consumer, cancellation>>
  BY DEF Dequeue
<1> USE DEF DequeueHead
<1>4. queue[n] \in Event /\ n \in Nat
  BY <1>1 DEF TypeOK
<1>5. /\ DOMAIN queue' = DOMAIN queue \ {n}
      /\ \A m \in DOMAIN queue' : queue'[m] = queue[m]
      /\ \A m \in DOMAIN queue : m \in Nat /\ n <= m
      /\ queue' \in [DOMAIN queue' -> Event]
  BY <1>1, <1>2 DEF Without, TypeOK, IsHead
<1>6. TypeOK'
  <2>1. DOMAIN queue' \in SUBSET (1 .. nextNode')
    BY <1>1, <1>2, <1>5 DEF TypeOK
  <2>2. tradeNodes' \in Seq(Nat)
    <3>1. CASE queue[n].stream \in TradeStreams
      <4>1. n \in {tradeNodes[i] : i \in DOMAIN tradeNodes}
        BY <1>1, <3>1 DEF TradeNodesMatchQueue
      <4>2. tradeNodes \in Seq(Nat) /\ tradeNodes # <<>>
        BY <1>1, <4>1 DEF TypeOK
      <4>3. QED
        BY <1>2, <3>1, <4>2
    <3>2. CASE queue[n].stream \notin TradeStreams
      BY <1>1, <1>2, <3>2 DEF TypeOK
    <3>3. QED
      BY <3>1, <3>2
  <2>3. latestQuoteNode' \in [QuoteStreams -> Nat]
    BY <1>1, <1>2 DEF TypeOK, NoNode
  <2>4. delivered' \in SUBSET Event
    BY <1>1, <1>2, <1>4 DEF TypeOK
  <2>5. UNCHANGED <<nextNode, droppedTradeLog, droppedTradeCount,
                    coalescedQuoteCount>>
    BY <1>2
  <2> HIDE DEF DequeueHead
  <2>6. QED
    BY <1>1, <1>3, <1>5, <2>1, <2>2, <2>3, <2>4, <2>5 DEF TypeOK
<1>7. CapacityRespected'
  BY <1>1, <1>2, WithoutDepth, DepthType DEF CapacityRespected, Depth
<1>8. TradeNodesMatchQueue'
  <2>1. CASE queue[n].stream \notin TradeStreams
    <3>1. tradeNodes' = tradeNodes
      BY <1>2, <2>1
    <3>2. {m \in DOMAIN queue' : queue'[m].stream \in TradeStreams} =
            {m \in DOMAIN queue : queue[m].stream \in TradeStreams}
      BY <1>5, <2>1
    <3>3. QED
      BY <1>1, <3>1, <3>2 DEF TradeNodesMatchQueue
  <2>2. CASE queue[n].stream \in TradeStreams
    <3> DEFINE l == Len(tradeNodes)
    <3>1. PICK h \in DOMAIN tradeNodes : tradeNodes[h] = n
      BY <1>1, <2>2 DEF TradeNodesMatchQueue
    <3>2. /\ tradeNodes \in Seq(Nat) /\ l \in Nat
          /\ DOMAIN tradeNodes = 1 .. l /\ h \in 1 .. l
      BY <1>1, <3>1 DEF TypeOK
    <3>3. \A i \in DOMAIN tradeNodes : tradeNodes[i] \in DOMAIN queue
      BY <1>1 DEF TradeNodesMatchQueue
    <3>4. h = 1
      <4>1. SUFFICES ASSUME h # 1 PROVE FALSE
        OBVIOUS
      <4>2. 1 \in DOMAIN tradeNodes /\ 1 < h
        BY <3>2, <4>1
      <4>3. tradeNodes[1] < n /\ n <= tradeNodes[1]
        BY <1>1, <1>5, <3>1, <3>3, <4>2 DEF TradeNodesMatchQueue
      <4>4. QED
        BY <1>4, <1>5, <3>3, <4>2, <4>3
    <3>5. tradeNodes' = Tail(tradeNodes) /\ tradeNodes # <<>>
      BY <1>2, <2>2, <3>2
    <3>6. /\ DOMAIN tradeNodes' = 1 .. l - 1
          /\ \A i \in 1 .. l - 1 : tradeNodes'[i] = tradeNodes[i + 1]
      BY <3>2, <3>5
    <3>7. \A i \in 1 .. l - 1 : i + 1 \in 1 .. l /\ 1 < i + 1
      BY <3>2
    <3>8. ASSUME NEW i \in DOMAIN tradeNodes', NEW j \in DOMAIN tradeNodes', i < j
          PROVE  tradeNodes'[i] < tradeNodes'[j]
      <4>1. i + 1 < j + 1 /\ i + 1 \in 1 .. l /\ j + 1 \in 1 .. l
        BY <3>6, <3>7, <3>8
      <4>2. QED
        BY <1>1, <3>2, <3>6, <3>8, <4>1 DEF TradeNodesMatchQueue
    <3>9. {tradeNodes'[i] : i \in DOMAIN tradeNodes'} =
            {tradeNodes[i] : i \in DOMAIN tradeNodes} \ {n}
      <4>1. ASSUME NEW i \in DOMAIN tradeNodes'
            PROVE  /\ tradeNodes'[i] \in {tradeNodes[j] : j \in DOMAIN tradeNodes}
                   /\ tradeNodes'[i] # n
        <5>1. i + 1 \in DOMAIN tradeNodes /\ h < i + 1 /\ tradeNodes'[i] = tradeNodes[i + 1]
          BY <3>2, <3>4, <3>6, <3>7, <4>1
        <5>2. n < tradeNodes[i + 1]
          BY <1>1, <3>1, <5>1 DEF TradeNodesMatchQueue
        <5>3. QED
          BY <1>4, <5>1, <5>2
      <4>2. ASSUME NEW j \in DOMAIN tradeNodes, tradeNodes[j] # n
            PROVE  tradeNodes[j] \in {tradeNodes'[i] : i \in DOMAIN tradeNodes'}
        <5>1. j # 1
          BY <3>1, <3>4, <4>2
        <5>2. j - 1 \in 1 .. l - 1 /\ (j - 1) + 1 = j
          BY <3>2, <4>2, <5>1
        <5>3. tradeNodes'[j - 1] = tradeNodes[j] /\ j - 1 \in DOMAIN tradeNodes'
          BY <3>6, <5>2
        <5> HIDE DEF DequeueHead
        <5>4. QED
          BY <5>3
      <4> HIDE DEF DequeueHead
      <4>3. QED
        BY <4>1, <4>2
    <3>10. {m \in DOMAIN queue' : queue'[m].stream \in TradeStreams} =
             {m \in DOMAIN queue : queue[m].stream \in TradeStreams} \ {n}
      BY <1>5
    <3>11. QED
      BY <1>1, <3>8, <3>9, <3>10 DEF TradeNodesMatchQueue
  <2>3. QED
    BY <2>1, <2>2
<1>9. LatestQuoteNodeMatchesQueue'
  <2> DEFINE Nodes(q) == {m \in DOMAIN queue : queue[m].stream = q}
  <2> SUFFICES ASSUME NEW q \in QuoteStreams
               PROVE  \/ latestQuoteNode'[q] = NoNode /\ Nodes(q)' = {}
                      \/ /\ latestQuoteNode'[q] \in Nodes(q)'
                         /\ \A m \in Nodes(q)' : m <= latestQuoteNode'[q]
    BY DEF LatestQuoteNodeMatchesQueue
  <2>1. Nodes(q)' = Nodes(q) \ {n}
    BY <1>5
  <2>2. \/ latestQuoteNode[q] = NoNode /\ Nodes(q) = {}
        \/ /\ latestQuoteNode[q] \in Nodes(q)
           /\ \A m \in Nodes(q) : m <= latestQuoteNode[q]
    BY <1>1 DEF LatestQuoteNodeMatchesQueue
  <2>3. CASE queue[n].stream = q /\ latestQuoteNode[q] = n
    <3>1. latestQuoteNode'[q] = NoNode
      BY <1>2, <2>3
    <3>2. n # NoNode
      BY <1>1 DEF TypeOK, NoNode
    <3>3. \A m \in Nodes(q) : m = n
      BY <1>4, <1>5, <2>2, <2>3, <3>2
    <3>4. QED
      BY <2>1, <3>1, <3>3
  <2>4. CASE ~ (queue[n].stream = q /\ latestQuoteNode[q] = n)
    <3>1. latestQuoteNode'[q] = latestQuoteNode[q]
      BY <1>2, <2>4
    <3>2. latestQuoteNode[q] \in Nodes(q) => latestQuoteNode[q] # n
      BY <2>4
    <3>3. QED
      BY <2>1, <2>2, <3>1, <3>2
  <2>5. QED
    BY <2>3, <2>4
<1>10. StreamsInOrder'
  <2>1. \A m \in DOMAIN queue' : n < m /\ queue[m].sequence \in Nat
    BY <1>1, <1>4, <1>5 DEF TypeOK, Event
  <2>2. \A m \in DOMAIN queue' :
          queue[m].stream = queue[n].stream => queue[n].sequence < queue[m].sequence
    BY <1>1, <1>5, <2>1 DEF StreamsInOrder
  <2>3. QED
    BY <1>1, <1>2, <1>3, <1>5, <2>2 DEF StreamsInOrder
<1>11. TradesAccountedFor'
  <2>1. Buffered = Buffered' \cup {queue[n]}
    BY <1>5 DEF Buffered
  <2>2. Issued(TradeStreams)' = Issued(TradeStreams) /\ droppedTradeLog' = droppedTradeLog
    BY <1>2, <1>3 DEF Issued
  <2>3. QED
    BY <1>1, <1>2, <2>1, <2>2 DEF TradesAccountedFor
<1>12. OnlyIssuedLeaves'
  BY <1>1, <1>2, <1>3 DEF OnlyIssuedLeaves, StreamsInOrder
<1>13. QED
  BY <1>6, <1>7, <1>8, <1>9, <1>10, <1>11, <1>12 DEF IInv

LEMMA NextIInv == IInv /\ [Next]_vars => IInv'
<1> SUFFICES ASSUME IInv, [Next]_vars PROVE IInv'
  OBVIOUS
<1>1. /\ consumer \in {"running", "waiting", "stopped"}
      /\ cancellation \in {"none", "requested", "signalled"}
  BY DEF IInv, TypeOK
<1>2. ASSUME NEW s \in Streams, Normalize(s) PROVE IInv'
  BY <1>2, NormalizeIInv
<1>3. CASE Dequeue
  BY <1>3, DequeueIInv
<1>4. CASE Wait
  BY <1>1, <1>4, ThreadStepIInv DEF Wait
<1>5. CASE StopConsumer
  BY <1>1, <1>5, ThreadStepIInv DEF StopConsumer
<1>6. CASE RequestCancellation
  BY <1>1, <1>6, ThreadStepIInv DEF RequestCancellation
<1>7. CASE PulseAll
  BY <1>1, <1>7, ThreadStepIInv DEF PulseAll, Pulse
<1>8. CASE UNCHANGED vars
  BY <1>1, <1>8, ThreadStepIInv DEF vars
<1>9. QED
  BY <1>2, <1>3, <1>4, <1>5, <1>6, <1>7, <1>8 DEF Next

-----------------------------------------------------------------------------

(* IInv holds in every reachable state. *)
LEMMA Invariance == Spec => []IInv
<1>1. Init => IInv
  BY InitIInv
<1>2. IInv /\ [Next]_vars => IInv'
  BY NextIInv
<1>3. QED
  BY <1>1, <1>2, PTL DEF Spec

(* The state of the buffer keeps its types. *)
THEOREM TypeCorrect == Spec => []TypeOK
<1>1. IInv => TypeOK
  BY DEF IInv
<1>2. QED
  BY <1>1, Invariance, PTL

(* No mixture of appending, shedding and overwriting exceeds the capacity. *)
THEOREM CapacitySafety == Spec => []CapacityRespected
<1>1. IInv => CapacityRespected
  BY DEF IInv
<1>2. QED
  BY <1>1, Invariance, PTL

(* Both indexes describe the list exactly, so that the node Dequeue and    *)
(* EvictOldestTradeAndLog unlink and the node coalescing overwrites are    *)
(* the ones the code means.                                                *)
THEOREM IndexesMatchQueue ==
  Spec => []IndexesDescribeQueue
<1>1. IInv => IndexesDescribeQueue
  BY DEF IInv, IndexesDescribeQueue
<1>2. QED
  BY <1>1, Invariance, PTL

(* Events of one stream leave the buffer in the order they were stamped.   *)
THEOREM StreamOrder == Spec => []StreamsInOrder
<1>1. IInv => StreamsInOrder
  BY DEF IInv
<1>2. QED
  BY <1>1, Invariance, PTL

(* A trade that does not reach the sender is buffered or in the log.       *)
THEOREM NoSilentTradeLoss == Spec => []TradesAccountedFor
<1>1. IInv => TradesAccountedFor
  BY DEF IInv
<1>2. QED
  BY <1>1, Invariance, PTL

-----------------------------------------------------------------------------

(* A refusal needs a full buffer and a waiting consumer an empty one, so   *)
(* an event arriving while the consumer waits is always retained.          *)
LEMMA NormalizeWakes ==
  ASSUME IInv, NoSleepOnWork, NEW s \in Streams, Normalize(s)
  PROVE  NoSleepOnWork'
<1> DEFINE e == [stream |-> s, sequence |-> counter[s] + 1]
<1>1. EnqueueRetained(e) \/ EnqueueRefused(e)
  BY DEF Normalize
<1>2. CASE EnqueueRetained(e)
  <2>1. consumer' # "waiting"
    BY <1>2 DEF EnqueueRetained, Pulse
  <2>2. QED
    BY <2>1 DEF NoSleepOnWork
<1>3. CASE EnqueueRefused(e)
  <2>1. /\ Depth >= Capacity
        /\ UNCHANGED <<queue, consumer>>
    BY <1>3 DEF EnqueueRefused, DropIncomingTrade, DropIncomingQuote, queueVars
  <2>2. DOMAIN queue # {}
    BY <2>1, FS_EmptySet DEF Depth
  <2>3. QED
    BY <2>1, <2>2 DEF NoSleepOnWork
<1>4. QED
  BY <1>1, <1>2, <1>3

(* The sender never sleeps on a buffer that holds an event.                *)
THEOREM NoLostWakeup == Spec => []NoSleepOnWork
<1>1. Init => NoSleepOnWork
  BY DEF Init, NoSleepOnWork
<1>2. ASSUME IInv, NoSleepOnWork, [Next]_vars
      PROVE  NoSleepOnWork'
  <2>1. ASSUME NEW s \in Streams, Normalize(s) PROVE NoSleepOnWork'
    BY <1>2, <2>1, NormalizeWakes
  <2>2. CASE Dequeue
    BY <2>2 DEF Dequeue, NoSleepOnWork
  <2>3. CASE Wait
    BY <2>3 DEF Wait, NoSleepOnWork, queueVars
  <2>4. CASE StopConsumer
    BY <2>4 DEF StopConsumer, NoSleepOnWork
  <2>5. CASE RequestCancellation
    BY <1>2, <2>5 DEF RequestCancellation, NoSleepOnWork, queueVars
  <2>6. CASE PulseAll
    BY <1>2, <2>6 DEF PulseAll, Pulse, NoSleepOnWork, queueVars
  <2>7. CASE UNCHANGED vars
    BY <1>2, <2>7 DEF vars, NoSleepOnWork, queueVars
  <2>8. QED
    BY <1>2, <2>1, <2>2, <2>3, <2>4, <2>5, <2>6, <2>7 DEF Next
<1>3. QED
  BY <1>1, <1>2, Invariance, PTL DEF Spec

(* A step that sheds e drops the oldest trade of a critically deep buffer, *)
(* or the incoming trade when quotes fill the buffer.                      *)
LEMMA Shedding ==
  ASSUME IInv, [Next]_vars, NEW e \in droppedTradeLog' \ droppedTradeLog
  PROVE  /\ Depth >= CriticalOverloadThreshold
         /\ \A kept \in Buffered' : kept.stream = e.stream => e.sequence < kept.sequence
<1>1. /\ TypeOK /\ TradeNodesMatchQueue /\ StreamsInOrder
  BY DEF IInv
<1>2. PICK s \in Streams : Normalize(s)
  BY DEF Next, Dequeue, DequeueHead, Wait, StopConsumer, RequestCancellation, PulseAll, queueVars, vars
<1> DEFINE new == [stream |-> s, sequence |-> counter[s] + 1]
<1>3. /\ s \in TradeStreams /\ new.stream = s /\ new.sequence = counter[s] + 1
      /\ EvictOldestTrade(new) \/ DropIncomingTrade(new)
  BY <1>2 DEF Normalize, EnqueueRetained, EnqueueRefused, RetainTrade, RetainQuote, CoalesceQuote,
              DropIncomingQuote, queueVars
<1>4. Depth \in Nat /\ counter[s] \in Nat
  BY <1>1, DepthType DEF TypeOK
<1> HIDE DEF new
<1>5. CASE EvictOldestTrade(new)
  <2> DEFINE victim == Head(tradeNodes)
             D == DOMAIN queue \ {victim}
             k == nextNode + 1
  <2>1. /\ Depth >= CriticalOverloadThreshold /\ tradeNodes # <<>> /\ e = queue[victim]
        /\ queue' = WithLast(Without(victim), new)
    BY <1>5 DEF EvictOldestTrade, LogDroppedTrade, AppendTrade
  <2>2. /\ victim = tradeNodes[1] /\ 1 \in DOMAIN tradeNodes
        /\ DOMAIN tradeNodes = 1 .. Len(tradeNodes) /\ Len(tradeNodes) \in Nat
    BY <1>1, <2>1 DEF TypeOK
  <2>3. victim \in DOMAIN queue
    BY <1>1, <2>2 DEF TradeNodesMatchQueue
  <2>4. /\ DOMAIN queue' = D \cup {k} /\ queue'[k] = new
        /\ \A n \in D : n # k => queue'[n] = queue[n]
    BY <2>1 DEF WithLast, Without
  <2>5. ASSUME NEW kept \in Buffered', kept.stream = e.stream
        PROVE  e.sequence < kept.sequence
    <3>1. PICK n \in DOMAIN queue' : kept = queue'[n]
      BY DEF Buffered
    <3>2. CASE n = k
      <4>1. e.sequence <= counter[e.stream]  BY <1>1, <2>1, <2>3 DEF StreamsInOrder
      <4>2. kept = new /\ e.stream = s  BY <1>3, <2>4, <2>5, <3>1, <3>2
      <4>3. e.sequence \in Nat  BY <1>1, <2>1, <2>3 DEF TypeOK, Event
      <4> QED  BY <1>3, <1>4, <4>1, <4>2, <4>3
    <3>3. CASE n # k
      <4>1. n \in D /\ kept = queue[n]  BY <2>4, <3>1, <3>3
      <4>2. queue[n].stream = queue[victim].stream /\ queue[victim].stream \in TradeStreams
        <5>1. queue[victim].stream \in TradeStreams
          BY <1>1, <2>2 DEF TradeNodesMatchQueue
        <5> QED  BY <2>1, <2>5, <4>1, <5>1
      <4>3. PICK i \in DOMAIN tradeNodes : tradeNodes[i] = n
        BY <1>1, <4>1, <4>2 DEF TradeNodesMatchQueue
      <4>4. 1 < i  BY <2>2, <4>1, <4>3
      <4>5. victim < n  BY <1>1, <2>2, <4>3, <4>4 DEF TradeNodesMatchQueue
      <4> QED  BY <1>1, <2>1, <2>3, <4>1, <4>2, <4>5 DEF StreamsInOrder
    <3> QED  BY <3>2, <3>3
  <2> QED  BY <2>1, <2>5
<1>6. CASE DropIncomingTrade(new)
  <2>1. /\ Depth >= Capacity /\ tradeNodes = <<>> /\ e = new /\ queue' = queue
    BY <1>6 DEF DropIncomingTrade, LogDroppedTrade
  <2>2. Depth >= CriticalOverloadThreshold
    BY <1>4, <2>1
  <2>3. ASSUME NEW kept \in Buffered', kept.stream = e.stream PROVE FALSE
    <3>1. PICK n \in DOMAIN queue : kept = queue[n]  BY <2>1 DEF Buffered
    <3>2. queue[n].stream \in TradeStreams  BY <1>3, <2>1, <2>3, <3>1
    <3>3. \E i \in DOMAIN tradeNodes : tradeNodes[i] = n
      BY <1>1, <3>1, <3>2 DEF TradeNodesMatchQueue
    <3> QED  BY <2>1, <3>3
  <2> QED  BY <2>2, <2>3
<1> QED  BY <1>3, <1>5, <1>6

(* A trade is shed only in a critically deep buffer, and what is shed is   *)
(* older than every trade of its stream that stays: the buffer keeps the   *)
(* freshest trades (EvictOldestTradeAndLog).                               *)
THEOREM SheddingIsOldestFirst == Spec => SheddingKeepsFreshestTrades
<1>1. IInv /\ [Next]_vars =>
        [\A e \in droppedTradeLog' \ droppedTradeLog :
           /\ Depth >= CriticalOverloadThreshold
           /\ \A kept \in Buffered' :
                kept.stream = e.stream => e.sequence < kept.sequence]_vars
  BY Shedding
<1>2. QED
  BY <1>1, Invariance, PTL DEF Spec, SheddingKeepsFreshestTrades

-----------------------------------------------------------------------------
(***************************************************************************)
(* The list implements EventBuffer.  A node stands in the list at its      *)
(* rank, and Listing reads a numbered list front to back.                  *)
(***************************************************************************)

Rank(D, n) == Cardinality({m \in D : m <= n})

Listing(list) ==
  [i \in 1 .. Cardinality(DOMAIN list) |->
     list[CHOOSE n \in DOMAIN list : Rank(DOMAIN list, n) = i]]

(* Ranks number the nodes from 1 in their order.                           *)
LEMMA RankType ==
  ASSUME NEW D, IsFiniteSet(D), D \subseteq Nat, NEW n \in D
  PROVE  Rank(D, n) \in 1 .. Cardinality(D) /\ Cardinality(D) \in Nat
<1> DEFINE E == {m \in D : m <= n}
<1>1. IsFiniteSet(E) /\ Cardinality(E) <= Cardinality(D)
  BY FS_Subset
<1>2. Cardinality(E) \in Nat /\ Cardinality(D) \in Nat
  BY <1>1, FS_CardinalityType
<1>3. Cardinality(E) # 0
  <2>1. n \in E  OBVIOUS
  <2> QED  BY <1>1, <2>1, FS_EmptySet
<1>4. Rank(D, n) = Cardinality(E)
  BY DEF Rank
<1> HIDE DEF E
<1> QED  BY <1>1, <1>2, <1>3, <1>4

LEMMA RankOrder ==
  ASSUME NEW D, IsFiniteSet(D), D \subseteq Nat, NEW m \in D, NEW n \in D, m < n
  PROVE  Rank(D, m) < Rank(D, n)
<1> DEFINE E == {x \in D : x <= m}
           F == {x \in D : x <= n}
<1>1. IsFiniteSet(F)
  BY FS_Subset
<1>2. E \subseteq F /\ n \in F /\ n \notin E
  <2>1. \A x \in D : x \in Nat /\ (x <= m => x <= n)  OBVIOUS
  <2>2. n <= n /\ ~(n <= m)  OBVIOUS
  <2> QED  BY <2>1, <2>2
<1>3. IsFiniteSet(E) /\ Cardinality(E) <= Cardinality(F) /\ E # F
  BY <1>1, <1>2, FS_Subset
<1>4. Cardinality(E) # Cardinality(F)
  BY <1>1, <1>2, <1>3, FS_Subset
<1>5. Cardinality(E) \in Nat /\ Cardinality(F) \in Nat
  BY <1>1, <1>3, FS_CardinalityType
<1>6. Rank(D, m) = Cardinality(E) /\ Rank(D, n) = Cardinality(F)
  BY DEF Rank
<1> HIDE DEF E, F
<1> QED  BY <1>3, <1>4, <1>5, <1>6

(* Every position of the list is the rank of a node.                       *)
LEMMA RankOnto ==
  ASSUME NEW D, IsFiniteSet(D), D \subseteq Nat, NEW i \in 1 .. Cardinality(D)
  PROVE  \E n \in D : Rank(D, n) = i
<1> DEFINE N == Cardinality(D)
           f == [n \in D |-> Rank(D, n)]
<1>1. N \in Nat
  BY FS_CardinalityType
<1>2. IsFiniteSet(1 .. N) /\ Cardinality(1 .. N) = N
  BY <1>1, FS_Interval
<1>3. \A n \in D : Rank(D, n) \in 1 .. N
  BY RankType
<1>4. \A m, n \in D : Rank(D, m) = Rank(D, n) => m = n
  <2> SUFFICES ASSUME NEW m \in D, NEW n \in D, Rank(D, m) = Rank(D, n), m # n PROVE FALSE
    OBVIOUS
  <2>1. m < n \/ n < m  OBVIOUS
  <2>2. Rank(D, m) < Rank(D, n) \/ Rank(D, n) < Rank(D, m)  BY <2>1, RankOrder
  <2>3. Rank(D, m) \in Nat /\ Rank(D, n) \in Nat  BY <1>3
  <2> QED  BY <2>2, <2>3
<1>5. f \in [D -> 1 .. N]
  BY <1>3
<1>6. f \in Injection(D, 1 .. N)
  BY <1>4, <1>5 DEF Injection, IsInjective
<1>7. f \in Surjection(D, 1 .. N)
  BY <1>2, <1>6, FS_Injection
<1>8. \E n \in D : f[n] = i
  BY <1>7 DEF Surjection
<1> QED  BY <1>8

(* A sequence that holds each node's value at the node's rank is the list  *)
(* read front to back.                                                     *)
LEMMA ListingUnique ==
  ASSUME NEW S, NEW list, IsFiniteSet(DOMAIN list), DOMAIN list \subseteq Nat,
         NEW q \in Seq(S), Len(q) = Cardinality(DOMAIN list),
         \A n \in DOMAIN list : q[Rank(DOMAIN list, n)] = list[n]
  PROVE  Listing(list) = q
<1> DEFINE D == DOMAIN list
           N == Cardinality(D)
           Node(i) == CHOOSE n \in D : Rank(D, n) = i
<1>1. ASSUME NEW i \in 1 .. N
      PROVE  list[Node(i)] = q[i]
  <2>1. \E n \in D : Rank(D, n) = i  BY RankOnto
  <2>2. Node(i) \in D /\ Rank(D, Node(i)) = i  BY <2>1
  <2> QED  BY <2>2
<1>2. Listing(list) = [i \in 1 .. N |-> list[Node(i)]]
  BY DEF Listing
<1> HIDE DEF Node, N
<1>3. q = [i \in 1 .. N |-> q[i]]
  BY DEF N
<1>4. [i \in 1 .. N |-> list[Node(i)]] = [i \in 1 .. N |-> q[i]]
  BY <1>1
<1> QED  BY <1>2, <1>3, <1>4

LEMMA ListingFacts ==
  ASSUME NEW S, NEW list, list \in [DOMAIN list -> S], IsFiniteSet(DOMAIN list), DOMAIN list \subseteq Nat
  PROVE  /\ Listing(list) \in Seq(S)
         /\ Len(Listing(list)) = Cardinality(DOMAIN list)
         /\ \A n \in DOMAIN list : Listing(list)[Rank(DOMAIN list, n)] = list[n]
<1> DEFINE D == DOMAIN list
           N == Cardinality(D)
           Node(i) == CHOOSE n \in D : Rank(D, n) = i
<1>1. N \in Nat
  BY FS_CardinalityType
<1>2. ASSUME NEW i \in 1 .. N
      PROVE  Node(i) \in D /\ Rank(D, Node(i)) = i /\ list[Node(i)] \in S
  <2>1. \E n \in D : Rank(D, n) = i  BY RankOnto
  <2>2. Node(i) \in D /\ Rank(D, Node(i)) = i  BY <2>1
  <2> QED  BY <2>2
<1>3. Listing(list) = [i \in 1 .. N |-> list[Node(i)]]
  BY DEF Listing
<1>4. ASSUME NEW n \in D
      PROVE  Rank(D, n) \in 1 .. N /\ Node(Rank(D, n)) = n
  <2> DEFINE m == Node(Rank(D, n))
  <2>1. Rank(D, n) \in 1 .. N  BY RankType
  <2>2. m \in D /\ Rank(D, m) = Rank(D, n)  BY <1>2, <2>1
  <2>3. Rank(D, n) \in Nat  BY <1>1, <2>1
  <2> HIDE DEF m
  <2>4. ~(m < n) /\ ~(n < m)
    <3>1. ~(m < n)
      <4> SUFFICES ASSUME m < n PROVE FALSE  OBVIOUS
      <4>1. Rank(D, m) < Rank(D, n)  BY <2>2, RankOrder
      <4> QED  BY <2>2, <2>3, <4>1
    <3>2. ~(n < m)
      <4> SUFFICES ASSUME n < m PROVE FALSE  OBVIOUS
      <4>1. Rank(D, n) < Rank(D, m)  BY <2>2, RankOrder
      <4> QED  BY <2>2, <2>3, <4>1
    <3> QED  BY <3>1, <3>2
  <2>5. m = n  BY <2>2, <2>4
  <2> QED  BY <2>1, <2>5 DEF m
<1> HIDE DEF Node, N
<1>5. Listing(list) \in Seq(S)
  BY <1>1, <1>2, <1>3, IsASeq
<1>6. Len(Listing(list)) = N
  BY <1>1, <1>3
<1>7. \A n \in D : Listing(list)[Rank(D, n)] = list[n]
  BY <1>3, <1>4
<1> QED  BY <1>5, <1>6, <1>7 DEF N

(* Ranks after a node is added at the end.                                 *)
LEMMA RankAfterAdd ==
  ASSUME NEW D, IsFiniteSet(D), D \subseteq Nat, NEW k \in Nat, \A m \in D : m < k
  PROVE  /\ \A m \in D : Rank(D \cup {k}, m) = Rank(D, m)
         /\ Rank(D \cup {k}, k) = Cardinality(D) + 1
<1>1. ASSUME NEW m \in D PROVE Rank(D \cup {k}, m) = Rank(D, m)
  <2>1. {x \in D \cup {k} : x <= m} = {x \in D : x <= m}  OBVIOUS
  <2> QED  BY <2>1 DEF Rank
<1>2. {x \in D \cup {k} : x <= k} = D \cup {k} /\ k \notin D
  <2>1. \A x \in D : x \in Nat /\ x <= k /\ x # k  OBVIOUS
  <2>2. k <= k  OBVIOUS
  <2> QED  BY <2>1, <2>2
<1>3. Cardinality(D \cup {k}) = Cardinality(D) + 1
  BY <1>2, FS_AddElement
<1> QED  BY <1>1, <1>2, <1>3 DEF Rank

(* Ranks after a node is unlinked.                                         *)
LEMMA RankAfterRemove ==
  ASSUME NEW D, IsFiniteSet(D), D \subseteq Nat, NEW v \in D, NEW m \in D \ {v}
  PROVE  Rank(D \ {v}, m) = IF m < v THEN Rank(D, m) ELSE Rank(D, m) - 1
<1> DEFINE E == {x \in D : x <= m}
           F == {x \in D \ {v} : x <= m}
<1>1. Rank(D, m) = Cardinality(E) /\ Rank(D \ {v}, m) = Cardinality(F)
  BY DEF Rank
<1>2. CASE m < v
  <2>1. E = F  BY <1>2
  <2> QED  BY <1>1, <1>2, <2>1
<1>3. CASE ~(m < v)
  <2>1. v \in E /\ F = E \ {v}  BY <1>3
  <2>2. IsFiniteSet(E)  BY FS_Subset
  <2>3. Cardinality(F) = Cardinality(E) - 1  BY <2>1, <2>2, FS_RemoveElement
  <2> QED  BY <1>1, <1>3, <2>3
<1> QED  BY <1>2, <1>3

(* A list of events whose nodes are numbers.                               *)
Numbered(list) ==
  /\ list \in [DOMAIN list -> Event] /\ IsFiniteSet(DOMAIN list) /\ DOMAIN list \subseteq Nat

LEMMA ListRead ==
  ASSUME TypeOK
  PROVE  /\ Numbered(queue) /\ ListOrder = Listing(queue)
         /\ ListOrder \in Seq(Event) /\ Len(ListOrder) = Depth /\ Depth \in Nat
         /\ \A n \in DOMAIN queue : n < nextNode + 1
<1>1. Numbered(queue)
  BY DepthType DEF TypeOK, Numbered
<1>2. ListOrder = Listing(queue)
  BY DEF ListOrder, Listing, Rank, Depth
<1>3. \A n \in DOMAIN queue : n < nextNode + 1
  BY DEF TypeOK
<1> QED  BY <1>1, <1>2, <1>3, DepthType, ListingFacts DEF Numbered, Depth

LEMMA ListAppended ==
  ASSUME NEW list, Numbered(list), NEW k \in Nat, \A m \in DOMAIN list : m < k, NEW e \in Event
  PROVE  LET new == [m \in DOMAIN list \cup {k} |-> IF m = k THEN e ELSE list[m]] IN
           Numbered(new) /\ Listing(new) = Append(Listing(list), e)
<1> DEFINE new == [m \in DOMAIN list \cup {k} |-> IF m = k THEN e ELSE list[m]]
           D == DOMAIN list
           L == Listing(list)
<1>1. /\ IsFiniteSet(D) /\ D \subseteq Nat /\ L \in Seq(Event) /\ Len(L) = Cardinality(D)
      /\ \A n \in D : L[Rank(D, n)] = list[n] /\ Rank(D, n) \in 1 .. Len(L)
      /\ Len(L) \in Nat
  BY ListingFacts, RankType, LenProperties DEF Numbered
<1>2. /\ DOMAIN new = D \cup {k} /\ new[k] = e /\ k \notin D
      /\ \A n \in D : n # k /\ new[n] = list[n]
  OBVIOUS
<1>3. Numbered(new) /\ IsFiniteSet(D \cup {k}) /\ Cardinality(D \cup {k}) = Len(L) + 1
  BY <1>1, <1>2, FS_AddElement DEF Numbered
<1> DEFINE q == Append(L, e)
<1>4. /\ q \in Seq(Event) /\ Len(q) = Len(L) + 1 /\ \A i \in 1 .. Len(L) : q[i] = L[i]
      /\ q[Len(L) + 1] = e
  BY <1>1, AppendProperties
<1> HIDE DEF new, L, q
<1>5. ASSUME NEW n \in D \cup {k} PROVE q[Rank(D \cup {k}, n)] = new[n]
  <2>1. CASE n = k  BY <1>1, <1>2, <1>4, <2>1, RankAfterAdd
  <2>2. CASE n # k
    <3>1. n \in D /\ Rank(D \cup {k}, n) = Rank(D, n)  BY <1>1, <2>2, RankAfterAdd
    <3> QED  BY <1>1, <1>2, <1>4, <3>1
  <2> QED  BY <2>1, <2>2
<1>6. Listing(new) = q
  <2>1. DOMAIN new \subseteq Nat  BY <1>1, <1>2
  <2>2. /\ IsFiniteSet(DOMAIN new) /\ Len(q) = Cardinality(DOMAIN new) /\ q \in Seq(Event)
        /\ \A n \in DOMAIN new : q[Rank(DOMAIN new, n)] = new[n]
    BY <1>2, <1>3, <1>4, <1>5
  <2> QED  BY <2>1, <2>2, ListingUnique
<1> QED  BY <1>3, <1>6 DEF new, q, L

LEMMA ListUnlinked ==
  ASSUME NEW list, Numbered(list), NEW v \in DOMAIN list
  PROVE  LET new == [m \in DOMAIN list \ {v} |-> list[m]] IN
           Numbered(new) /\ Listing(new) = Buffer!RemoveAt(Listing(list), Rank(DOMAIN list, v))
<1> DEFINE new == [m \in DOMAIN list \ {v} |-> list[m]]
           D == DOMAIN list
           L == Listing(list)
           N == Len(L)
           r == Rank(D, v)
<1>1. /\ IsFiniteSet(D) /\ D \subseteq Nat /\ L \in Seq(Event) /\ N = Cardinality(D)
      /\ \A n \in D : L[Rank(D, n)] = list[n] /\ Rank(D, n) \in 1 .. N
      /\ N \in Nat /\ r \in 1 .. N
  BY ListingFacts, RankType, LenProperties DEF Numbered
<1>2. DOMAIN new = D \ {v} /\ \A n \in D \ {v} : new[n] = list[n]
  OBVIOUS
<1>3. Numbered(new) /\ IsFiniteSet(D \ {v}) /\ Cardinality(D \ {v}) = N - 1
  BY <1>1, <1>2, FS_RemoveElement DEF Numbered
<1> DEFINE q == Buffer!RemoveAt(L, r)
           a == SubSeq(L, 1, r - 1)
           b == SubSeq(L, r + 1, N)
<1> HIDE DEF new, L, N, r
<1>4. /\ a \in Seq(Event) /\ Len(a) = r - 1 /\ \A i \in 1 .. r - 1 : a[i] = L[i]
  <2>1. 1 \in Int /\ r - 1 \in Int /\ \A i \in 1 .. r - 1 : L[i] \in Event
    BY <1>1, ElementOfSeq DEF N
  <2> QED  BY <1>1, <2>1, SubSeqProperties
<1>5. /\ b \in Seq(Event) /\ Len(b) = N - r /\ \A i \in 1 .. N - r : b[i] = L[r + i]
  <2>1. r + 1 \in Int /\ N \in Int /\ \A i \in r + 1 .. N : L[i] \in Event
    BY <1>1, ElementOfSeq DEF N
  <2>2. /\ b \in Seq(Event) /\ Len(b) = IF r + 1 <= N THEN N - (r + 1) + 1 ELSE 0
        /\ \A i \in 1 .. N - (r + 1) + 1 : b[i] = L[(r + 1) + i - 1]
    BY <2>1, SubSeqProperties
  <2>3. N - (r + 1) + 1 = N - r /\ \A i \in 1 .. N - r : (r + 1) + i - 1 = r + i
    BY <1>1
  <2> QED  BY <1>1, <2>2, <2>3
<1>6. q = a \o b
  BY DEF Buffer!RemoveAt, N
<1> HIDE DEF a, b, q
<1>7. /\ q \in Seq(Event) /\ Len(q) = N - 1
      /\ \A i \in 1 .. N - 1 : q[i] = IF i < r THEN L[i] ELSE L[i + 1]
  <2>1. /\ q \in Seq(Event) /\ Len(q) = Len(a) + Len(b)
        /\ \A i \in 1 .. Len(a) + Len(b) : q[i] = IF i <= Len(a) THEN a[i] ELSE b[i - Len(a)]
    BY <1>4, <1>5, <1>6, ConcatProperties
  <2>2. Len(a) + Len(b) = N - 1  BY <1>1, <1>4, <1>5
  <2>3. ASSUME NEW i \in 1 .. N - 1 PROVE q[i] = IF i < r THEN L[i] ELSE L[i + 1]
    <3>1. CASE i < r
      <4>1. i \in 1 .. r - 1 /\ i <= Len(a)  BY <1>1, <1>4, <3>1
      <4> QED  BY <1>4, <2>1, <2>2, <3>1, <4>1
    <3>2. CASE ~(i < r)
      <4>1. ~(i <= Len(a)) /\ i - Len(a) \in 1 .. N - r /\ r + (i - Len(a)) = i + 1
        BY <1>1, <1>4, <3>2
      <4> QED  BY <1>5, <2>1, <2>2, <3>2, <4>1
    <3> QED  BY <3>1, <3>2
  <2> QED  BY <2>1, <2>2, <2>3
<1>8. ASSUME NEW n \in D \ {v} PROVE q[Rank(D \ {v}, n)] = new[n]
  <2>1. Rank(D \ {v}, n) = IF n < v THEN Rank(D, n) ELSE Rank(D, n) - 1
    BY <1>1, RankAfterRemove
  <2>2. L[Rank(D, n)] = list[n] /\ Rank(D, n) \in 1 .. N /\ n \in Nat /\ v \in Nat
    BY <1>1
  <2>3. CASE n < v
    <3>1. Rank(D, n) < r  BY <1>1, <2>3, RankOrder DEF r
    <3>2. Rank(D, n) \in 1 .. N - 1  BY <1>1, <2>2, <3>1
    <3> QED  BY <1>2, <1>7, <2>1, <2>2, <2>3, <3>1, <3>2
  <2>4. CASE v < n
    <3>1. r < Rank(D, n)  BY <1>1, <2>4, RankOrder DEF r
    <3>2. Rank(D, n) - 1 \in 1 .. N - 1 /\ ~(Rank(D, n) - 1 < r) /\ (Rank(D, n) - 1) + 1 = Rank(D, n)
      BY <1>1, <2>2, <3>1
    <3>3. ~(n < v)  BY <2>2, <2>4
    <3> QED  BY <1>2, <1>7, <2>1, <2>2, <3>2, <3>3
  <2> QED  BY <2>2, <2>3, <2>4
<1>9. Listing(new) = q
  <2>1. DOMAIN new \subseteq Nat  BY <1>1, <1>2
  <2>2. /\ IsFiniteSet(DOMAIN new) /\ Len(q) = Cardinality(DOMAIN new) /\ q \in Seq(Event)
        /\ \A n \in DOMAIN new : q[Rank(DOMAIN new, n)] = new[n]
    BY <1>2, <1>3, <1>7, <1>8
  <2> QED  BY <2>1, <2>2, ListingUnique
<1> QED  BY <1>3, <1>9 DEF new, q, L, r

LEMMA ListOverwritten ==
  ASSUME NEW list, Numbered(list), NEW v \in DOMAIN list, NEW e \in Event
  PROVE  Listing([list EXCEPT ![v] = e]) = [Listing(list) EXCEPT ![Rank(DOMAIN list, v)] = e]
<1> DEFINE new == [list EXCEPT ![v] = e]
           D == DOMAIN list
           L == Listing(list)
           r == Rank(D, v)
           q == [L EXCEPT ![r] = e]
<1>1. /\ IsFiniteSet(D) /\ D \subseteq Nat /\ L \in Seq(Event) /\ Len(L) = Cardinality(D)
      /\ \A n \in D : L[Rank(D, n)] = list[n] /\ Rank(D, n) \in 1 .. Len(L)
  BY ListingFacts, RankType DEF Numbered
<1>2. /\ DOMAIN new = D /\ \A n \in D : new[n] = IF n = v THEN e ELSE list[n]
  BY DEF Numbered
<1> HIDE DEF new, L
<1>3. /\ q \in Seq(Event) /\ Len(q) = Len(L)
      /\ \A i \in 1 .. Len(L) : q[i] = IF i = r THEN e ELSE L[i]
  BY <1>1, ExceptSeq
<1> HIDE DEF q
<1>4. ASSUME NEW n \in D PROVE q[Rank(D, n)] = new[n]
  <2>1. CASE n = v  BY <1>1, <1>2, <1>3, <2>1
  <2>2. CASE n # v
    <3>1. n < v \/ v < n  BY <1>1, <2>2
    <3>2. Rank(D, n) < r \/ r < Rank(D, n)  BY <1>1, <3>1, RankOrder
    <3>3. Rank(D, n) # r
      <4>1. Rank(D, n) \in Nat /\ r \in Nat  BY <1>1
      <4> HIDE DEF r
      <4> QED  BY <3>2, <4>1
    <3> QED  BY <1>1, <1>2, <1>3, <2>2, <3>3
  <2> QED  BY <2>1, <2>2
<1> QED  BY <1>1, <1>2, <1>3, <1>4, ListingUnique DEF new, q, L

(* Every way a stamped event ends up is a Put of EventBuffer.              *)
LEMMA NormalizePuts ==
  ASSUME IInv, NEW s \in Streams, Normalize(s)
  PROVE  Buffer!Put(s)
<1> DEFINE e == [stream |-> s, sequence |-> counter[s] + 1]
           L == Listing(queue)
           k == nextNode + 1
<1>1. /\ TypeOK /\ TradeNodesMatchQueue /\ LatestQuoteNodeMatchesQueue /\ TypeOK' /\ CapacityRespected'
  BY NormalizeIInv DEF IInv
<1>2. /\ Numbered(queue) /\ ListOrder = L /\ L \in Seq(Event) /\ Len(L) = Depth /\ Depth \in Nat
      /\ \A n \in DOMAIN queue : n < k
      /\ DOMAIN L = 1 .. Depth /\ k \in Nat
  <2>1. /\ Numbered(queue) /\ ListOrder = L /\ ListOrder \in Seq(Event) /\ Len(ListOrder) = Depth
        /\ Depth \in Nat /\ \A n \in DOMAIN queue : n < k
    BY <1>1, ListRead
  <2>2. k \in Nat  BY <1>1 DEF TypeOK
  <2> HIDE DEF L, k
  <2> QED  BY <2>1, <2>2, LenProperties
<1>3. e \in Event
  BY <1>1 DEF TypeOK, Event
<1>4. ListOrder' = Listing(queue')
  BY DEF ListOrder, Listing, Rank, Depth
<1>5. Len(Listing(queue')) <= Capacity
  <2>1. IsFiniteSet(1 .. nextNode')
    <3>1. 1 \in Int /\ nextNode' \in Int  BY <1>1 DEF TypeOK
    <3> QED  BY <3>1, FS_Interval, Zenon
  <2>2. DOMAIN queue' \subseteq 1 .. nextNode' /\ queue' \in [DOMAIN queue' -> Event]
    BY <1>1 DEF TypeOK
  <2>3. Len(Listing(queue')) = Cardinality(DOMAIN queue')
    <3>1. IsFiniteSet(DOMAIN queue')  BY <2>1, <2>2, FS_Subset
    <3>2. DOMAIN queue' \subseteq Nat  BY <1>1, <2>2 DEF TypeOK
    <3> QED  BY <2>2, <3>1, <3>2, ListingFacts
  <2> QED  BY <1>1, <2>3 DEF CapacityRespected, Depth
<1>6. /\ counter[s] < MaxSequence /\ counter' = [counter EXCEPT ![s] = @ + 1]
      /\ EnqueueRetained(e) \/ EnqueueRefused(e)
  BY DEF Normalize
<1>7. e.stream = s
  OBVIOUS
<1>8. ASSUME \/ Listing(queue') = Append(L, e)
             \/ \E i \in DOMAIN L : Listing(queue') = Append(Buffer!RemoveAt(L, i), e)
             \/ \E i \in DOMAIN L :
                  /\ L[i].stream = s
                  /\ \A j \in DOMAIN L : j > i => L[j].stream # s
                  /\ Listing(queue') = [L EXCEPT ![i] = e]
             \/ Listing(queue') = L
      PROVE  Buffer!Put(s)
  <2> HIDE DEF L
  <2> QED  BY <1>2, <1>4, <1>5, <1>6, <1>8 DEF Buffer!Put
<1> HIDE DEF e
<1>9. CASE RetainTrade(e) \/ RetainQuote(e)
  <2>1. queue' = WithLast(queue, e)  BY <1>9 DEF RetainTrade, RetainQuote, AppendTrade
  <2>2. queue' = [m \in DOMAIN queue \cup {k} |-> IF m = k THEN e ELSE queue[m]]
    BY <2>1 DEF WithLast
  <2>3. Listing(queue') = Append(L, e)  BY <1>2, <1>3, <2>2, ListAppended
  <2> QED  BY <1>8, <2>3
<1>10. CASE EvictOldestTrade(e)
  <2> DEFINE victim == Head(tradeNodes)
             rest == [m \in DOMAIN queue \ {victim} |-> queue[m]]
  <2>1. tradeNodes # <<>> /\ queue' = WithLast(Without(victim), e)
    BY <1>10 DEF EvictOldestTrade, AppendTrade
  <2>2. victim \in DOMAIN queue
    <3>1. victim = tradeNodes[1] /\ 1 \in DOMAIN tradeNodes  BY <1>1, <2>1 DEF TypeOK
    <3> QED  BY <1>1, <3>1 DEF TradeNodesMatchQueue
  <2>3. Numbered(rest) /\ Listing(rest) = Buffer!RemoveAt(L, Rank(DOMAIN queue, victim))
    BY <1>2, <2>2, ListUnlinked
  <2>4. DOMAIN rest \subseteq DOMAIN queue
    OBVIOUS
  <2>5. queue' = [m \in DOMAIN rest \cup {k} |-> IF m = k THEN e ELSE rest[m]]
    BY <2>1 DEF WithLast, Without
  <2> HIDE DEF rest
  <2>6. Listing(queue') = Append(Listing(rest), e)
    BY <1>2, <1>3, <2>3, <2>4, <2>5, ListAppended
  <2>7. Rank(DOMAIN queue, victim) \in DOMAIN L
    BY <1>2, <2>2, RankType DEF Numbered, Depth
  <2> QED  BY <1>8, <2>3, <2>6, <2>7
<1>11. CASE CoalesceQuote(e) /\ s \in QuoteStreams
  <2> DEFINE v == latestQuoteNode[s]
             r == Rank(DOMAIN queue, v)
  <2>1. v # NoNode /\ queue' = [queue EXCEPT ![v] = e]
    BY <1>7, <1>11 DEF CoalesceQuote
  <2>2. /\ v \in DOMAIN queue /\ queue[v].stream = s
        /\ \A n \in DOMAIN queue : queue[n].stream = s => n <= v
    BY <1>1, <1>11, <2>1 DEF LatestQuoteNodeMatchesQueue
  <2>3. /\ IsFiniteSet(DOMAIN queue) /\ DOMAIN queue \subseteq Nat
        /\ \A n \in DOMAIN queue : L[Rank(DOMAIN queue, n)] = queue[n]
    BY <1>2, ListingFacts DEF Numbered
  <2>4. r \in 1 .. Depth
    BY <2>2, <2>3, RankType DEF Depth
  <2>5. ASSUME NEW j \in 1 .. Depth, j > r PROVE L[j].stream # s
    <3>1. PICK n \in DOMAIN queue : Rank(DOMAIN queue, n) = j
      BY <2>3, RankOnto DEF Depth
    <3>2. ~(n <= v)
      <4> SUFFICES ASSUME n <= v PROVE FALSE
        OBVIOUS
      <4>1. n # v  BY <2>5, <3>1
      <4>2. n < v  BY <2>2, <2>3, <4>1
      <4>3. j < r  BY <2>2, <2>3, <3>1, <4>2, RankOrder
      <4>4. r \in Nat  BY <2>4
      <4> HIDE DEF r
      <4> QED  BY <1>2, <2>5, <4>3, <4>4
    <3> QED  BY <2>2, <2>3, <3>1, <3>2
  <2>6. Listing(queue') = [L EXCEPT ![r] = e]
    BY <1>2, <1>3, <2>1, <2>2, ListOverwritten
  <2>7. r \in DOMAIN L /\ L[r].stream = s /\ \A j \in DOMAIN L : j > r => L[j].stream # s
    BY <1>2, <2>2, <2>3, <2>4, <2>5
  <2> QED  BY <1>8, <2>6, <2>7
<1>12. CASE DropIncomingTrade(e) \/ DropIncomingQuote(e)
  <2>1. queue' = queue  BY <1>12 DEF DropIncomingTrade, DropIncomingQuote, queueVars
  <2> QED  BY <1>8, <2>1
<1> QED  BY <1>6, <1>7, <1>9, <1>10, <1>11, <1>12 DEF EnqueueRetained, EnqueueRefused

(* The sender gets the front of the list.                                  *)
LEMMA DequeueTakes ==
  ASSUME IInv, Dequeue
  PROVE  Buffer!Take
<1> DEFINE D == DOMAIN queue
           L == Listing(queue)
<1>1. PICK n \in D : IsHead(n) /\ DequeueHead(n) /\ counter' = counter
  BY DEF Dequeue
<1>2. /\ Numbered(queue) /\ ListOrder = L /\ L \in Seq(Event) /\ Len(L) = Depth /\ Depth \in Nat
  BY ListRead DEF IInv
<1>3. ListOrder' = Listing(queue')
  BY DEF ListOrder, Listing, Rank, Depth
<1>4. queue' = [m \in D \ {n} |-> queue[m]]
  BY <1>1 DEF DequeueHead, Without
<1>5. Rank(D, n) = 1
  <2>1. {m \in D : m <= n} = {n}
    <3>1. \A m \in D : n <= m /\ m \in Nat  BY <1>1, <1>2 DEF IsHead, Numbered
    <3> QED  BY <1>1, <3>1
  <2> QED  BY <2>1, FS_Singleton DEF Rank
<1>6. Listing(queue') = Buffer!RemoveAt(L, 1)
  BY <1>1, <1>2, <1>4, <1>5, ListUnlinked
<1>7. Len(L) # 0
  <2>1. Rank(D, n) \in 1 .. Cardinality(D) /\ Cardinality(D) \in Nat
    BY <1>1, <1>2, RankType DEF Numbered
  <2> QED  BY <1>2, <1>5, <2>1 DEF Depth
<1> HIDE DEF L
<1>8. Buffer!RemoveAt(L, 1) = Tail(L)
  <2> DEFINE a == SubSeq(L, 1, 1 - 1)
             b == SubSeq(L, 1 + 1, Len(L))
  <2>1. a = <<>>
    BY SubSeqEmpty
  <2>2. b \in Seq(Event) /\ Len(b) = Len(L) - 1 /\ \A i \in 1 .. Len(L) - 1 : b[i] = L[i + 1]
    <3>1. 2 \in Int /\ Len(L) \in Int /\ \A i \in 2 .. Len(L) : L[i] \in Event
      BY <1>2, ElementOfSeq
    <3>2. /\ SubSeq(L, 2, Len(L)) \in Seq(Event)
          /\ Len(SubSeq(L, 2, Len(L))) = IF 2 <= Len(L) THEN Len(L) - 2 + 1 ELSE 0
          /\ \A i \in 1 .. Len(L) - 2 + 1 : SubSeq(L, 2, Len(L))[i] = L[2 + i - 1]
      BY <3>1, SubSeqProperties
    <3>3. Len(L) \in Nat \ {0} /\ Len(L) - 2 + 1 = Len(L) - 1
          /\ \A i \in 1 .. Len(L) - 1 : 2 + i - 1 = i + 1
      BY <1>2, <1>7
    <3>4. b = SubSeq(L, 2, Len(L))  OBVIOUS
    <3> HIDE DEF b
    <3> QED  BY <3>2, <3>3, <3>4
  <2>3. Buffer!RemoveAt(L, 1) = a \o b
    BY DEF Buffer!RemoveAt
  <2> HIDE DEF a, b
  <2>4. a \o b = b
    BY <2>1, <2>2, ConcatEmptySeq
  <2>5. /\ Tail(L) \in Seq(Event) /\ Len(Tail(L)) = Len(L) - 1
        /\ \A i \in 1 .. Len(L) - 1 : Tail(L)[i] = L[i + 1]
    BY <1>2, <1>7, HeadTailProperties, EmptySeq
  <2>6. Tail(L) = b
    BY <2>2, <2>5, SeqEqual
  <2> QED  BY <2>3, <2>4, <2>6
<1>9. L # <<>>
  BY <1>7
<1> QED  BY <1>1, <1>2, <1>3, <1>6, <1>8, <1>9 DEF Buffer!Take

(* The indexed list of BoundedQueue behaves like the plain buffer of       *)
(* EventBuffer: shedding costs one event, coalescing replaces the newest   *)
(* event of the stream, and the sender gets the front of the list.         *)
THEOREM ListImplementsBuffer == Spec => ImplementsEventBuffer
<1>1. ASSUME Init PROVE Buffer!Init
  <2>1. queue = [n \in {} |-> {}] /\ counter = [s \in Streams |-> 0]
    BY <1>1 DEF Init
  <2>2. DOMAIN queue = {} /\ Depth = 0
    BY <2>1, FS_EmptySet DEF Depth
  <2>3. ListOrder = <<>>
    BY <2>2 DEF ListOrder
  <2> QED  BY <2>1, <2>3 DEF Buffer!Init
<1>2. ASSUME IInv, [Next]_vars PROVE [Buffer!Next]_(Buffer!vars)
  <2>1. ASSUME NEW s \in Streams, Normalize(s) PROVE Buffer!Next
    BY <1>2, <2>1, NormalizePuts DEF Buffer!Next
  <2>2. CASE Dequeue
    BY <1>2, <2>2, DequeueTakes DEF Buffer!Next
  <2>3. CASE Wait \/ StopConsumer \/ RequestCancellation \/ PulseAll \/ UNCHANGED vars
    <3>1. queue' = queue /\ counter' = counter
      BY <2>3 DEF Wait, StopConsumer, RequestCancellation, PulseAll, vars, queueVars
    <3> QED  BY <3>1 DEF Buffer!vars, ListOrder, Depth
  <2> QED  BY <1>2, <2>1, <2>2, <2>3 DEF Next
<1> QED  BY <1>1, <1>2, Invariance, PTL DEF Spec, ImplementsEventBuffer, Buffer!Spec
=============================================================================
