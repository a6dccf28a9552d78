----------------------------- MODULE ChartEngines -----------------------------
(***************************************************************************)
(* The aggregation every trade runs through on the backend: the bars of    *)
(* BarAggregator (bar_aggregator.py), the buckets of VolumeDeltaEngine and *)
(* FootprintEngine, and the roll-up of one-minute rows to the longer       *)
(* timeframes (pipeline.py).                                               *)
(*                                                                         *)
(* Times are minutes of an open session and a timeframe is its length in   *)
(* minutes.  A bucket is abstracted to how many trades it holds: prices    *)
(* and sides are folded in the same places.                                *)
(***************************************************************************)
EXTENDS Integers, FiniteSetsExt, Functions

CONSTANTS
  Minutes,     (* the minutes of the session                               *)
  Timeframes   (* lengths in minutes; 1 is the native one                  *)

ASSUME EnginesAssumption ==
  /\ Minutes \subseteq Nat
  /\ 0 \in Minutes /\ \A m \in Minutes : 0 .. m \subseteq Minutes
  /\ Timeframes \subseteq Nat \ {0}
  /\ 1 \in Timeframes

NoBar == [time |-> -1, count |-> 0]

Bucket(time, tf) == (time \div tf) * tf
InBucket(bucket, tf) == {m \in Minutes : Bucket(m, tf) = bucket}

(* A bucket before the open one is ignored, a later one starts anew. *)
Fold(bar, time, tf) ==
  LET bucket == Bucket(time, tf) IN
  CASE bucket > bar.time -> [time |-> bucket, count |-> 1]
    [] bucket = bar.time -> [bar EXCEPT !.count = @ + 1]
    [] bucket < bar.time -> bar

FoldTrade(bars, time) == [tf \in Timeframes |-> Fold(bars[tf], time, tf)]

Update(tf, bar, closed) ==
  [tf |-> tf, time |-> bar.time, count |-> bar.count, closed |-> closed]

(* The bars a trade closes and the ones it leaves open, as published. *)
ClosedBy(bars, time) ==
  {Update(tf, bars[tf], TRUE) : tf \in
     {f \in Timeframes : bars[f] # NoBar /\ Bucket(time, f) > bars[f].time}}

TradeUpdates(bars, time) ==
  ClosedBy(bars, time) \cup
  {Update(tf, FoldTrade(bars, time)[tf], FALSE) : tf \in
     {f \in Timeframes : Bucket(time, f) >= bars[f].time}}

(* Mutant: a closed snapshot leaves the bar that the trades built. *)
ReconcileKeepingClosed(bar, update) ==
  IF ~update.closed /\ update.time >= bar.time
  THEN [time |-> update.time, count |-> update.count]
  ELSE bar

(* reconcile_bar: a closed snapshot ends the bar up to its time, an open   *)
(* one replaces it.                                                        *)
Reconcile(bar, update) ==
  CASE update.closed -> IF bar.time <= update.time THEN NoBar ELSE bar
    [] ~update.closed /\ update.time >= bar.time ->
         [time |-> update.time, count |-> update.count]
    [] ~update.closed /\ update.time < bar.time -> bar

(* The sum of a bucket's minutes: what the source sent for a minute stands *)
(* before what is stored of it.                                            *)
RollUp(known, stored, bucket, tf) ==
  SumFunction([m \in InBucket(bucket, tf) |->
                 IF known[m] > 0 THEN known[m] ELSE stored[m].count])

(* _remember_source_updates: the last two bars of each timeframe. *)
Remember(snapshots, updates) ==
  [tf \in Timeframes |->
     LET mine == {u \in updates : u.tf = tf}
         other == {u \in snapshots[tf] : \A v \in mine : v.time # u.time}
         all == mine \cup other
     IN {u \in all : Cardinality({v \in all : v.time > u.time}) < 2}]
===============================================================================
