------------------------------ MODULE BookmapFlow ------------------------------
(***************************************************************************)
(* The order flow of Bookmap from the exchange to the chart's rows: the    *)
(* bridge counts every trade into a minute (BookmapFootprintAccumulator),  *)
(* queues trades and bar snapshots for one WebSocket                       *)
(* (BookmapWebSocketSender), and the backend folds the trades into its     *)
(* engines, aligns them with the snapshots and stores rows while Bookmap   *)
(* is on the chart (pipeline.py).                                          *)
(*                                                                         *)
(* The queue stands for everything between the accumulator and the         *)
(* handler of /ws/bookmap.  One task reads a connection; while a trade is  *)
(* being recorded, the connection may already be replaced.  Which feed is  *)
(* on the chart is decided in SourceArbitration: here only that an unfit   *)
(* Bookmap feed leaves it in the step that looks, and that a fit one may   *)
(* take it.                                                                *)
(***************************************************************************)
EXTENDS ChartEngines, Sequences, Functions

CONSTANTS
  MaxQueue,   (* MAX_QUEUE of the sender                                    *)
  MaxTrades,  (* bound: trades at the exchange                              *)
  MaxFaults   (* bound: frames dropped as stale, lines cut, failing tick store *)

ASSUME FlowAssumption == MaxQueue \in Nat \ {0} /\ {MaxTrades, MaxFaults} \subseteq Nat

VARIABLES
  now,       (* the bridge: the minute of the latest timestamp              *)
  current,   (* the accumulator's open bar, with partialStart               *)
  last,      (* ... and its last closed one                                 *)
  sequence,  (* tradeSequence                                               *)
  queue,     (* frames on their way                                         *)
  line,      (* "never", "down", "connected" (no snapshots yet) or "open"   *)
  bound,     (* the backend serves a connection generation                  *)
  task,      (* its handler: idle, or recording a trade                     *)
  late,      (* the handler of the generation before it                     *)
  highest,   (* the validator's highest number in this generation           *)
  gap,       (* orderflow_gap_pending; bar_ready is its opposite            *)
  active,    (* Bookmap is _active_feed                                     *)
  bars,      (* _source_bars["bookmap"], by timeframe                       *)
  flow,      (* the delta engines, by timeframe; the ladder is that of 1    *)
  snapshots, (* _source_snapshots["bookmap"]                                *)
  known,     (* _bookmap_minute_bars and _bookmap_minute_deltas             *)
  authoritative, (* _bookmap_authoritative_footprint_times                  *)
  rows,      (* the store: bars, deltas and ladders                         *)
  faults,
  total,     (* history: trades of each minute                              *)
  seen,      (* history: the last trade the backend knows of                *)
  unseen,    (* history: since the last bar frame something gave way in a     *)
             (* full queue, or expired before the generation's first trade  *)
  final,     (* history: minutes whose closed bar was stored                *)
  shed,      (* history: minutes whose closed bar gave way in a full queue  *)
  mixed      (* history: minutes a replaced handler added a trade to        *)

bridge == <<now, current, last, sequence, total>>
link == <<line, bound>>
engines == <<bars, flow, snapshots, known, authoritative>>
history == <<total, seen, unseen, shed, final, mixed>>
vars == <<now, current, last, sequence, queue, line, bound, task, late, highest,
          gap, active, engines, rows, faults, history>>

Idle == [at |-> "idle", time |-> 0, gap |-> FALSE]
Recording(time, g) == [at |-> "recording", time |-> time, gap |-> g]

Open(m, partial) == [time |-> m, count |-> 0, partial |-> partial]
NoMinute == Open(-1, FALSE)

Faulty == faults < MaxFaults /\ faults' = faults + 1

(* ------------------------------ the bridge ------------------------------ *)

(* The oldest frames give way to the new ones. *)
Enqueue(frames) ==
  LET all == queue \o frames
      over == IF Len(all) > MaxQueue THEN Len(all) - MaxQueue ELSE 0
      lost == Range(SubSeq(all, 1, over))
  IN /\ queue' = SubSeq(all, over + 1, Len(all))
     /\ unseen' = (unseen \/ lost # {})
     /\ shed' = shed \cup {f.time : f \in {f \in lost : f.closed}}

TradeFrame(upto) == [type |-> "trade", time |-> now, count |-> 1, closed |-> FALSE,
                     partial |-> FALSE, upto |-> upto]
BarFrame(bar, closed) == [type |-> "bar", time |-> bar.time, count |-> bar.count,
                          closed |-> closed, partial |-> bar.partial,
                          upto |-> sequence]

OnTrade ==
  /\ sequence < MaxTrades
  /\ sequence' = sequence + 1
  /\ total' = [total EXCEPT ![now] = @ + 1]
  /\ LET bar == IF current = NoMinute THEN Open(now, last = NoMinute) ELSE current
     IN current' = [bar EXCEPT !.count = @ + 1]
  /\ Enqueue(<<TradeFrame(sequence')>>)
  /\ UNCHANGED <<now, last, line, bound, task, late, highest, gap, active, engines,
                 rows, faults, seen, final, mixed>>

(* A minute begins: the open bar is closed and sent. *)
OnTimestamp ==
  /\ now + 1 \in Minutes
  /\ now' = now + 1
  /\ IF current = NoMinute THEN UNCHANGED <<current, last, queue, unseen, shed>>
     ELSE /\ current' = NoMinute
          /\ last' = current
          /\ Enqueue(<<BarFrame(current, TRUE)>>)
  /\ UNCHANGED <<sequence, line, bound, task, late, highest, gap, active, engines,
                 rows, faults, total, seen, final, mixed>>

(* A frame that waited for more than two seconds; bars do not expire. *)
DropStale ==
  /\ line = "open"
  /\ queue # <<>> /\ Head(queue).type = "trade"
  /\ Faulty
  /\ queue' = Tail(queue)
  /\ unseen' = (unseen \/ highest = 0)
  /\ UNCHANGED <<bridge, line, bound, task, late, highest, gap, active, engines,
                 rows, seen, final, shed, mixed>>

(* The handler of a trade survives its generation; one of them at a time.  *)
Hands(old, running) ==
  /\ old = Idle \/ running = Idle
  /\ late' = IF running = Idle THEN old ELSE running

(* The backend starts a generation without trusting the order flow, and    *)
(* the bridge forgets what it queued while the line was down.  A handler   *)
(* of the generation before may still be recording.                        *)
Connect ==
  /\ line \in {"never", "down"}
  /\ line' = "connected"
  /\ queue' = IF line = "never" THEN queue ELSE <<>>
  /\ bound' = TRUE
  /\ Hands(late, task)
  /\ task' = Idle
  /\ highest' = 0
  /\ gap' = TRUE
  /\ unseen' = FALSE
  /\ UNCHANGED <<bridge, active, engines, rows, faults, seen, final, shed, mixed>>

(* enqueueSnapshots: the last closed bar and the open one. *)
SendSnapshots ==
  /\ line = "connected"
  /\ line' = "open"
  /\ Enqueue((IF last = NoMinute THEN <<>> ELSE <<BarFrame(last, TRUE)>>)
             \o (IF current = NoMinute THEN <<>> ELSE <<BarFrame(current, FALSE)>>))
  /\ UNCHANGED <<bridge, bound, task, late, highest, gap, active, engines, rows,
                 faults, seen, final, mixed>>

CutLine ==
  /\ line \in {"connected", "open"}
  /\ Faulty
  /\ line' = "down"
  /\ UNCHANGED <<bridge, queue, bound, task, late, highest, gap, active, engines,
                 rows, seen, unseen, final, shed, mixed>>

(* --------------------------- rows of the chart -------------------------- *)

StoreBars(table, updates) ==
  [tf \in Timeframes |-> [m \in Minutes |->
     IF \E u \in updates : u.tf = tf /\ u.time = m
     THEN LET u == CHOOSE u \in updates : u.tf = tf /\ u.time = m
          IN [by |-> "bookmap", count |-> u.count, closed |-> u.closed]
     ELSE table[tf][m]]]

StoreDeltas(table, deltas, tfs) ==
  [tf \in Timeframes |->
     IF tf \in tfs /\ deltas[tf] # NoBar
     THEN [table[tf] EXCEPT ![deltas[tf].time] =
             [by |-> "bookmap", count |-> deltas[tf].count]]
     ELSE table[tf]]

StoreLadder(table, bar) ==
  IF bar = NoBar THEN table ELSE [table EXCEPT ![bar.time] = bar.count]

(* _switch_feed to Bookmap: its last two bars and its open order flow. *)
Seeded(snaps, deltas) ==
  [bar |-> StoreBars(rows.bar, UNION {snaps[tf] : tf \in Timeframes}),
   delta |-> StoreDeltas(rows.delta, deltas, Timeframes),
   ladder |-> StoreLadder(rows.ladder, deltas[1])]

(* The rows after the evaluation of a handler, before its own are stored. *)
Evaluated(chosen, snaps, deltas) ==
  IF chosen /\ ~active THEN Seeded(snaps, deltas) ELSE rows

(* ------------------------------ the backend ----------------------------- *)

Receives == line = "open" /\ bound /\ task = Idle /\ queue # <<>>

(* Mutant: a gap in the numbers is accepted like the next number. *)
ReceiveTradeIgnoringGap ==
  /\ Receives /\ Head(queue).type = "trade"
  /\ LET f == Head(queue) IN
     /\ task' = Recording(f.time, FALSE)
     /\ highest' = f.upto
     /\ seen' = f.upto
  /\ queue' = Tail(queue)
  /\ UNCHANGED <<bridge, link, late, gap, active, engines, rows, faults, unseen,
                 final, shed, mixed>>

(* The number is judged before the tick is recorded, and the first one of  *)
(* a generation follows whatever there was.                                *)
ReceiveTrade ==
  /\ Receives /\ Head(queue).type = "trade"
  /\ LET f == Head(queue) IN
     /\ task' = Recording(f.time, highest # 0 /\ f.upto # highest + 1)
     /\ highest' = f.upto
     /\ seen' = f.upto
  /\ queue' = Tail(queue)
  /\ UNCHANGED <<bridge, link, late, gap, active, engines, rows, faults, unseen,
                 final, shed, mixed>>

(* on_bookmap_trade after the tick was recorded: a gap takes Bookmap off   *)
(* the chart before the trade is folded; the ladder of a minute that the   *)
(* trade ends is stored unless its closed bar was.                         *)
RunEngines(handler) ==
  LET time == handler.time
      closing == {u \in ClosedBy(bars, time) :
                    u.tf = 1 /\ u.time = flow[1].time /\ u.time \notin authoritative}
      moved == {tf \in Timeframes : Bucket(time, tf) >= flow[tf].time}
  IN
  /\ gap' = (gap \/ handler.gap)
  /\ active' \in IF gap' THEN {FALSE} ELSE BOOLEAN
  /\ bars' = FoldTrade(bars, time)
  /\ flow' = FoldTrade(flow, time)
  /\ snapshots' = Remember(snapshots, TradeUpdates(bars, time))
  /\ LET r == Evaluated(active', snapshots, flow) IN
     rows' = IF ~active' THEN r
             ELSE [bar |-> StoreBars(r.bar, TradeUpdates(bars, time)),
                   delta |-> StoreDeltas(r.delta, flow', moved),
                   ladder |-> IF closing = {} THEN r.ladder
                              ELSE StoreLadder(r.ladder, flow[1])]
  /\ UNCHANGED <<known, authoritative>>

TradeRecorded ==
  /\ task # Idle
  /\ RunEngines(task)
  /\ task' = Idle
  /\ UNCHANGED <<bridge, queue, link, late, highest, faults, seen, unseen, final,
                 shed, mixed>>

(* The handler of a replaced generation does not ask whether it still is   *)
(* the current one.                                                        *)
LateRecorded ==
  /\ late # Idle
  /\ RunEngines(late)
  /\ late' = Idle
  /\ mixed' = mixed \cup {late.time}
  /\ UNCHANGED <<bridge, queue, link, task, highest, faults, seen, unseen, final, shed>>

(* What a bar frame makes of the minute's order flow and of the roll-ups. *)
Native(f) == [time |-> f.time, count |-> f.count]
Rolled(f, tf, table) ==
  LET bucket == Bucket(f.time, tf) IN
  [time |-> bucket,
   count |-> RollUp([known EXCEPT ![f.time] = f.count], table, bucket, tf)]

BarUpdates(f) ==
  {Update(tf, IF tf = 1 THEN Native(f) ELSE Rolled(f, tf, rows.bar[1]),
          f.closed /\ Bucket(f.time + 1, tf) > Bucket(f.time, tf))
     : tf \in Timeframes}

(* Mutant: a closed bar does not replace the order flow of the trades. *)
SeedOpenBars(f) ==
  IF f.closed THEN flow
  ELSE [tf \in Timeframes |->
          IF tf = 1 THEN Native(f) ELSE Rolled(f, tf, rows.delta[1])]

(* seed_bar of the delta engine and seed of the footprint engine. *)
SeedBars(f) ==
  [tf \in Timeframes |->
     IF tf = 1 THEN Native(f) ELSE Rolled(f, tf, rows.delta[1])]

(* on_bookmap_bar: the snapshot replaces what the trades built; a complete *)
(* one ends the gap, and when Bookmap is or comes on the chart it is       *)
(* stored at once.                                                         *)
HandleBar ==
  /\ Receives /\ Head(queue).type = "bar"
  /\ LET f == Head(queue)
         updates == BarUpdates(f)
     IN
     /\ flow' = SeedBars(f)
     /\ bars' = [tf \in Timeframes |->
                   Reconcile(bars[tf], CHOOSE u \in updates : u.tf = tf)]
     /\ known' = [known EXCEPT ![f.time] = f.count]
     /\ authoritative' = IF f.closed /\ ~f.partial
                         THEN authoritative \cup {f.time} ELSE authoritative
     /\ snapshots' = Remember(snapshots, updates)
     /\ gap' = (gap /\ f.partial)
     /\ active' \in IF f.partial THEN {FALSE} ELSE BOOLEAN
     /\ LET r == Evaluated(active', snapshots', flow') IN
        rows' = IF ~active' THEN r
                ELSE [bar |-> StoreBars(r.bar, updates),
                      delta |-> StoreDeltas(r.delta, flow', Timeframes),
                      ladder |-> StoreLadder(r.ladder, flow'[1])]
     /\ final' = IF f.closed /\ active' THEN final \cup {f.time} ELSE final
     /\ seen' = f.upto
  /\ queue' = Tail(queue)
  /\ unseen' = FALSE
  /\ UNCHANGED <<bridge, link, task, late, highest, faults, shed, mixed>>

(* on_bookmap_disconnect, when the line is found to be cut ... *)
Disconnected ==
  /\ bound' = FALSE
  /\ gap' = TRUE
  /\ active' = FALSE

EndConnection ==
  /\ line = "down" /\ bound /\ task = Idle
  /\ Disconnected
  /\ UNCHANGED <<bridge, queue, line, task, late, highest, engines, rows, faults,
                 seen, unseen, final, shed, mixed>>

(* ... and when recording the tick raises, which ends the task. *)
RecordFails ==
  /\ task # Idle
  /\ Faulty
  /\ Disconnected
  /\ line' = "down"
  /\ task' = Idle
  /\ UNCHANGED <<bridge, queue, late, highest, engines, rows, seen, unseen, final,
                 shed, mixed>>

LateRecordFails ==
  /\ late # Idle
  /\ late' = Idle
  /\ UNCHANGED <<bridge, queue, link, task, highest, gap, active, engines, rows,
                 faults, seen, unseen, final, shed, mixed>>

(* ------------------------------ other tasks ----------------------------- *)

(* The maintenance loop finds the feed stale, or fit again. *)
Evaluate ==
  /\ active' = ~active
  /\ active' => bound /\ ~gap
  /\ rows' = Evaluated(active', snapshots, flow)
  /\ UNCHANGED <<bridge, queue, link, task, late, highest, gap, engines, faults,
                 seen, unseen, final, shed, mixed>>

(* The maintenance loop stores the forming ladder. *)
FlushForming ==
  /\ active
  /\ rows' = [rows EXCEPT !.ladder = StoreLadder(@, flow[1])]
  /\ UNCHANGED <<bridge, queue, link, task, late, highest, gap, active, engines,
                 faults, seen, unseen, final, shed, mixed>>

(* NinjaTrader's trade of minute m while it has the chart: its open rows,  *)
(* and the bars it ends.                                                   *)
NtTrade ==
  /\ ~active
  /\ \E m \in {now - 1, now} \cap Minutes, ends \in BOOLEAN :
       rows' = [rows EXCEPT
         !.bar = [tf \in Timeframes |-> [k \in Minutes |->
            IF k = Bucket(m, tf) THEN [by |-> "nt", count |-> 0, closed |-> FALSE]
            ELSE IF ends /\ k = Bucket(m - 1, tf)
                 THEN [by |-> "nt", count |-> 0, closed |-> TRUE]
            ELSE @[tf][k]]],
         !.delta = [tf \in Timeframes |->
            [@[tf] EXCEPT ![Bucket(m, tf)] = [by |-> "nt", count |-> 0]]]]
  /\ UNCHANGED <<bridge, queue, link, task, late, highest, gap, active, engines,
                 faults, seen, unseen, final, shed, mixed>>

Init ==
  /\ now = 0 /\ current = NoMinute /\ last = NoMinute /\ sequence = 0
  /\ queue = <<>> /\ line = "never" /\ bound = FALSE
  /\ task = Idle /\ late = Idle
  /\ highest = 0 /\ gap = FALSE /\ active = FALSE
  /\ bars = [tf \in Timeframes |-> NoBar]
  /\ flow = [tf \in Timeframes |-> NoBar]
  /\ snapshots = [tf \in Timeframes |-> {}]
  /\ known = [m \in Minutes |-> 0]
  /\ authoritative = {}
  /\ rows = [bar |-> [tf \in Timeframes |->
                        [m \in Minutes |-> [by |-> "none", count |-> 0, closed |-> FALSE]]],
             delta |-> [tf \in Timeframes |->
                          [m \in Minutes |-> [by |-> "none", count |-> 0]]],
             ladder |-> [m \in Minutes |-> 0]]
  /\ faults = 0
  /\ total = [m \in Minutes |-> 0]
  /\ seen = 0 /\ unseen = FALSE /\ shed = {} /\ final = {} /\ mixed = {}

Next ==
  \/ OnTrade \/ OnTimestamp
  \/ DropStale \/ Connect \/ SendSnapshots \/ CutLine
  \/ ReceiveTrade \/ TradeRecorded \/ LateRecorded \/ HandleBar
  \/ EndConnection \/ RecordFails \/ LateRecordFails
  \/ Evaluate \/ FlushForming \/ NtTrade

Spec == Init /\ [][Next]_vars

(* ------------------------------- properties ----------------------------- *)

Traded(bucket, tf) == {m \in InBucket(bucket, tf) : total[m] > 0}
Counted(bucket, tf) == SumFunction([m \in InBucket(bucket, tf) |-> total[m]])

(* A bar that is stored as closed holds every trade of its minutes once    *)
(* their closed bars have come in: stale ticks, cut lines, reconnections,  *)
(* switches and trades behind the close do not leave a final row that is   *)
(* short or counts a trade twice (reconcile_bar, _bookmap_rollup_updates). *)
(* Left aside are minutes a replaced handler added a trade to, and minutes *)
(* whose closed bar the sender shed.                                       *)
ClosedBarsComplete ==
  \A tf \in Timeframes, m \in Minutes :
    LET row == rows.bar[tf][m] IN
    /\ row.by = "bookmap" /\ row.closed
    /\ Traded(m, tf) \subseteq authoritative
    /\ InBucket(m, tf) \cap (mixed \cup shed) = {}
    => row.count = Counted(m, tf)

(* A minute whose closed bar was stored keeps its exact order flow: no     *)
(* forming ladder, switch or later trade puts an older state back          *)
(* (on_bookmap_bar, maintenance_tick, _switch_feed).                       *)
FinalOrderFlow ==
  \A m \in final \ mixed :
    /\ rows.ladder[m] = total[m]
    /\ rows.delta[1][m].by = "bookmap" => rows.delta[1][m].count = total[m]

(* When everything has come in, the open minute on the chart is what the   *)
(* bridge counted, in the bar and in the delta.  Left aside is what no     *)
(* number reveals: a trade that expired before the first one of a          *)
(* generation, and a frame the sender shed since the last bar.             *)
QuietChartIsExact ==
  /\ active /\ line = "open" /\ queue = <<>> /\ task = Idle /\ late = Idle
  /\ current # NoMinute /\ current.time \notin mixed
  /\ seen = sequence /\ ~unseen
  => /\ rows.bar[1][current.time] =
          [by |-> "bookmap", count |-> current.count, closed |-> FALSE]
     /\ rows.delta[1][current.time] = [by |-> "bookmap", count |-> current.count]
================================================================================
