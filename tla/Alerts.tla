------------------------------- MODULE Alerts -------------------------------
(***************************************************************************)
(* Alerts on closed bars (engines/alert_engine.py, rest/alerts.py, and the *)
(* part of pipeline.py that feeds them).  Two feeds close the same bars;   *)
(* the one on the chart stores each closed bar in the cache and then has   *)
(* the alerts evaluated.  A definition lives twice, as a row and as an     *)
(* object of the engine, and every detector keeps state in memory that is  *)
(* thrown away or rebuilt from the cache whenever a definition is edited,  *)
(* the feed on the chart changes or the backend starts.                    *)
(*                                                                         *)
(* Three kinds of detector stand for all: "gate" (bar_closes_*, volume     *)
(* delta, stacked imbalance) remembers the last bar it looked at,          *)
(* "supertrend" folds bars into recursive state, "mgann" does too and is   *)
(* checked once more against the cache after each Bookmap close.           *)
(*                                                                         *)
(* Evaluation runs on the event loop without an await: between its steps   *)
(* there is nothing but a crash.                                           *)
(***************************************************************************)
EXTENDS Integers

CONSTANTS
  Alerts,     (* ids of alerts, each created once                         *)
  Types,      (* kinds of detector a created alert may have               *)
  MaxBars,    (* bars of the timeframe the alerts are on                  *)
  MaxDisturbances, (* edits, deletions, restarts and rolls together     *)
  MaxSwitches

ASSUME AlertsAssumption ==
  /\ Types \subseteq {"gate", "supertrend", "mgann"}
  /\ {MaxBars, MaxDisturbances, MaxSwitches} \subseteq Nat

Bars == 1 .. MaxBars
Feeds == {"nt", "bookmap"}

VARIABLES
  row,        (* the stored definition of each alert                      *)
  engine,     (* the definition the engine evaluates                      *)
  patch,      (* the row a PATCH has read, while it waits for its body    *)
  created,
  fed,        (* bars each alert's detector has taken in since its reset  *)
  armed,      (* the gate has not fired for the last bar it looked at     *)
  minBar,     (* Supertrend takes in no bar before this one               *)
  events,     (* audit records of each alert and bar                      *)
  cached,     (* bars the cache holds as closed                           *)
  closed,     (* last bar each feed has closed                            *)
  remembered, (* the latest closed bars kept of each feed                 *)
  handler,    (* what is being done about the last closed bar of a feed   *)
  firing,     (* alerts whose event the running evaluation has to store   *)
  activeFeed,
  switching,  (* a switch holds the lock                                  *)
  disturbances, switches,
  shots,      (* history: times each alert came to be enabled, less the   *)
              (* events stored while it was to fire once                  *)
  since       (* history: events of each bar since the detector's reset   *)

definitionVars == <<row, engine, patch, created>>
detectorVars == <<fed, armed, minBar, since>>
feedVars == <<cached, closed, remembered, activeFeed, switching, switches>>
evaluationVars == <<handler, firing, events, shots>>
vars == <<definitionVars, detectorVars, feedVars, evaluationVars, disturbances>>

-----------------------------------------------------------------------------
Definitions == [type : Types, enabled : BOOLEAN, repeat : BOOLEAN]
Absent == [type |-> "none", enabled |-> FALSE, repeat |-> FALSE]

Idle == [phase |-> "idle", live |-> FALSE, met |-> {}, pass |-> 0]

(* The event loop is inside evaluate() or reconcile_mgann_closed_bar().    *)
Evaluating == \E f \in Feeds : handler[f].phase \in {"fired", "recorded", "checked"}

Zero == [t \in Bars |-> 0]

(* Mutant: bars of the contract before a roll are warmed with, too.      *)
WarmBarsOfBothContracts(d, bars, from) ==
  IF d.enabled /\ d.type # "gate" THEN bars ELSE {}

(* What a detector is warmed with: closed rows of the cache, for           *)
(* Supertrend none that began before the contract on the chart.            *)
WarmBars(d, bars, from) ==
  CASE ~d.enabled -> {}
    [] d.enabled /\ d.type = "supertrend" -> {t \in bars : t >= from}
    [] d.enabled /\ d.type = "mgann" -> bars
    [] OTHER -> {}

Passed(a, t) == \E u \in fed[a] : t <= u

(* upsert(): the definition replaces the old one and its detector starts   *)
(* afresh.                                                                 *)
Upsert(a, d) ==
  /\ row' = [row EXCEPT ![a] = d]
  /\ engine' = [engine EXCEPT ![a] = d]
  /\ fed' = [fed EXCEPT ![a] = WarmBars(d, cached, minBar)]
  /\ armed' = [armed EXCEPT ![a] = TRUE]
  /\ since' = [since EXCEPT ![a] = Zero]

-----------------------------------------------------------------------------
(* REST *)

Create(a, d) ==
  /\ ~Evaluating /\ a \notin created
  /\ created' = created \cup {a}
  /\ Upsert(a, d)
  /\ shots' = [shots EXCEPT ![a] = IF d.enabled THEN @ + 1 ELSE @]
  /\ UNCHANGED <<patch, minBar, feedVars, handler, firing, events, disturbances>>

(* The row is read before the body of the request is awaited ...           *)
StartPatch(a) ==
  /\ ~Evaluating /\ disturbances < MaxDisturbances
  /\ row[a] # Absent /\ patch[a] = Absent
  /\ disturbances' = disturbances + 1
  /\ patch' = [patch EXCEPT ![a] = row[a]]
  /\ UNCHANGED <<row, engine, created, detectorVars, feedVars, evaluationVars>>

(* ... and written back whole, with the named fields changed.              *)
FinishPatch(a, new, named) ==
  /\ ~Evaluating /\ patch[a] # Absent
  /\ \A field \in {"type", "enabled", "repeat"} \ named : new[field] = patch[a][field]
  /\ patch' = [patch EXCEPT ![a] = Absent]
  /\ Upsert(a, new)
  /\ shots' = [shots EXCEPT ![a] =
       IF new.enabled /\ ("enabled" \in named \/ ~row[a].enabled) THEN @ + 1 ELSE @]
  /\ UNCHANGED <<created, minBar, feedVars, handler, firing, events, disturbances>>

(* The events of an alert go with its row.                                 *)
Delete(a) ==
  /\ ~Evaluating /\ row[a] # Absent /\ disturbances < MaxDisturbances
  /\ disturbances' = disturbances + 1
  /\ Upsert(a, Absent)
  /\ events' = [events EXCEPT ![a] = Zero]
  /\ UNCHANGED <<patch, created, minBar, feedVars, handler, firing, shots>>

-----------------------------------------------------------------------------
(* The feeds *)

(* A handler is done with a bar before the next one closes, and the feeds  *)
(* are at most one bar apart.  A Bookmap bar may be a reconnect snapshot.  *)
CloseBar(f, live) ==
  /\ ~Evaluating
  /\ handler[f] = Idle /\ closed[f] < MaxBars
  /\ \A g \in Feeds : closed[g] >= closed[f] /\ (handler[g] # Idle => closed[g] > closed[f])
  /\ f = "nt" => live
  /\ closed' = [closed EXCEPT ![f] = @ + 1]
  /\ remembered' = [remembered EXCEPT ![f] = (@ \cap {closed[f]}) \cup {closed[f] + 1}]
  /\ handler' = [handler EXCEPT ![f] =
       [phase |-> "closed", live |-> live, met |-> {}, pass |-> 1]]
  /\ UNCHANGED <<definitionVars, detectorVars, cached, activeFeed, switching, switches, firing,
                 events, shots, disturbances>>

StoreBar(f) ==
  /\ ~Evaluating /\ ~switching
  /\ handler[f].phase = "closed" /\ activeFeed = f
  /\ cached' = cached \cup {closed[f]}
  /\ handler' = [handler EXCEPT ![f] =
       IF handler[f].live THEN [handler[f] EXCEPT !.phase = "stored"] ELSE Idle]
  /\ UNCHANGED <<definitionVars, detectorVars, closed, remembered, activeFeed, switching,
                 switches, firing, events, shots, disturbances>>

DropBar(f) ==
  /\ ~Evaluating
  /\ handler[f].phase = "closed" /\ activeFeed # f
  /\ handler' = [handler EXCEPT ![f] = Idle]
  /\ UNCHANGED <<definitionVars, detectorVars, feedVars, firing, events, shots, disturbances>>

(* A tick rewrites the row of the bar its feed is still building.          *)
StoreForming(f) ==
  /\ ~Evaluating /\ ~switching
  /\ handler[f] = Idle /\ activeFeed = f
  /\ closed[f] + 1 \in cached
  /\ cached' = cached \ {closed[f] + 1}
  /\ UNCHANGED <<definitionVars, detectorVars, closed, remembered, activeFeed, switching,
                 switches, evaluationVars, disturbances>>

SwitchFeed(f) ==
  /\ ~Evaluating /\ ~switching /\ activeFeed # f
  /\ switches < MaxSwitches
  /\ switches' = switches + 1
  /\ activeFeed' = f
  /\ switching' = (f \in Feeds)
  /\ UNCHANGED <<definitionVars, detectorVars, cached, closed, remembered, evaluationVars,
                 disturbances>>

(* What is remembered of the new feed is written to the cache, with the    *)
(* bar it is building when a tick of that came last, and every enabled     *)
(* Supertrend is rebuilt from the cache.                                   *)
FinishSwitch(building) ==
  /\ ~Evaluating /\ switching
  /\ switching' = FALSE
  /\ cached' = IF building
               THEN (cached \cup (remembered[activeFeed] \cap {closed[activeFeed]}))
                      \ {closed[activeFeed] + 1}
               ELSE cached \cup remembered[activeFeed]
  /\ fed' = [a \in Alerts |->
       IF engine[a].enabled /\ engine[a].type = "supertrend"
       THEN WarmBars(engine[a], cached', minBar) ELSE fed[a]]
  /\ UNCHANGED <<definitionVars, armed, minBar, since, closed, remembered, activeFeed, switches,
                 evaluationVars, disturbances>>

(* The chart goes to the next physical contract: Supertrend starts over    *)
(* with the first bar that begins after the trade that switched it.        *)
Roll ==
  /\ ~Evaluating /\ disturbances < MaxDisturbances /\ handler["nt"] = Idle
  /\ disturbances' = disturbances + 1
  /\ minBar' = closed["nt"] + 2
  /\ fed' = [a \in Alerts |-> IF engine[a].type = "supertrend" THEN {} ELSE fed[a]]
  /\ UNCHANGED <<definitionVars, armed, since, feedVars, evaluationVars>>

-----------------------------------------------------------------------------
(* Evaluation *)

(* The detector takes the bar in: a gate and an mGann state every later    *)
(* one, a Supertrend state only bars of its contract.                      *)
TakesIn(a, t) ==
  /\ engine[a].enabled
  /\ ~Passed(a, t)
  /\ engine[a].type = "supertrend" => t >= minBar

(* Mutant: Supertrend fires without a look into the audit log.           *)
FiresUnaudited(a, t, met) ==
  /\ engine[a].enabled /\ a \in met
  /\ \/ TakesIn(a, t)
     \/ /\ engine[a].type = "gate" /\ armed[a]
        /\ t \in fed[a] /\ \A u \in fed[a] : u <= t

Fires(a, t, met) ==
  /\ engine[a].enabled /\ a \in met
  /\ \/ TakesIn(a, t) /\ (engine[a].type = "supertrend" => events[a][t] = 0)
     \/ /\ engine[a].type = "gate" /\ armed[a]
        /\ t \in fed[a] /\ \A u \in fed[a] : u <= t

(* Mutant: the flag is read the wrong way round.                         *)
DisarmRepeating(fired) ==
  engine' = [a \in Alerts |->
    IF a \in fired /\ engine[a].repeat THEN [engine[a] EXCEPT !.enabled = FALSE] ELSE engine[a]]

(* One-shot alerts that fire are disabled before anything is stored.       *)
Disarm(fired) ==
  engine' = [a \in Alerts |->
    IF a \in fired /\ ~engine[a].repeat THEN [engine[a] EXCEPT !.enabled = FALSE] ELSE engine[a]]

(* The bar meets the conditions of the alerts in met.                      *)
Evaluate(f, met) ==
  LET t == closed[f]
      fired == {a \in Alerts : Fires(a, t, met)}
  IN
  /\ ~Evaluating /\ handler[f].phase = "stored"
  /\ firing' = fired
  /\ met \subseteq {a \in Alerts : engine[a].enabled}
  /\ handler' = [handler EXCEPT ![f].phase = "fired", ![f].met = met]
  /\ Disarm(fired)
  /\ fed' = [a \in Alerts |-> IF TakesIn(a, t) THEN fed[a] \cup {t} ELSE fed[a]]
  /\ armed' = [a \in Alerts |-> IF TakesIn(a, t) THEN a \notin fired ELSE armed[a] /\ a \notin fired]
  /\ UNCHANGED <<row, patch, created, minBar, since, feedVars, events, shots, disturbances>>

RecordEvents(f) ==
  /\ handler[f].phase = "fired"
  /\ handler' = [handler EXCEPT ![f].phase = "recorded"]
  /\ events' = [a \in Alerts |-> [events[a] EXCEPT ![closed[f]] = IF a \in firing THEN @ + 1 ELSE @]]
  /\ since' = [a \in Alerts |-> [since[a] EXCEPT ![closed[f]] = IF a \in firing THEN @ + 1 ELSE @]]
  /\ shots' = [a \in Alerts |-> IF a \in firing /\ ~engine[a].repeat THEN shots[a] - 1 ELSE shots[a]]
  /\ UNCHANGED <<definitionVars, fed, armed, minBar, feedVars, firing, disturbances>>

(* Mutant: one-shot alerts are disabled in memory only.                  *)
PersistEnabledInMemory(f) ==
  /\ handler[f].phase = "recorded"
  /\ firing' = {}
  /\ handler' = [handler EXCEPT ![f] =
       IF f = "bookmap" /\ handler[f].pass = 1 THEN [handler[f] EXCEPT !.phase = "checked"] ELSE Idle]
  /\ UNCHANGED <<definitionVars, detectorVars, feedVars, events, shots, disturbances>>

(* The flags of one-shot alerts follow in writes of their own.  A Bookmap  *)
(* bar goes on to the mGann reconciliation.                                *)
PersistEnabled(f) ==
  /\ handler[f].phase = "recorded"
  /\ row' = [a \in Alerts |->
       IF a \in firing /\ ~engine[a].repeat /\ row[a] # Absent
       THEN [row[a] EXCEPT !.enabled = engine[a].enabled] ELSE row[a]]
  /\ firing' = {}
  /\ handler' = [handler EXCEPT ![f] =
       IF f = "bookmap" /\ handler[f].pass = 1 THEN [handler[f] EXCEPT !.phase = "checked"] ELSE Idle]
  /\ UNCHANGED <<engine, patch, created, detectorVars, feedVars, events, shots, disturbances>>

(* Mutant: states that have taken the bar in are taken for up to date.   *)
ReconcileMgannBehind ==
  LET t == closed["bookmap"]
      rebuilt == {a \in Alerts : engine[a].enabled /\ engine[a].type = "mgann" /\ t \in cached \ fed[a]}
      fired == {a \in rebuilt : a \in handler["bookmap"].met /\ events[a][t] = 0}
  IN
  /\ handler["bookmap"].phase = "checked"
  /\ fed' = [a \in Alerts |-> IF a \in rebuilt THEN {u \in cached : u <= t} ELSE fed[a]]
  /\ firing' = fired
  /\ Disarm(fired)
  /\ handler' = [handler EXCEPT !["bookmap"].phase = "fired", !["bookmap"].pass = 2]
  /\ UNCHANGED <<row, patch, created, armed, minBar, since, feedVars, events, shots, disturbances>>

(* reconcile_mgann_closed_bar: mGann states are rebuilt from the cache up  *)
(* to this bar; a signal on it that the audit log lacks is emitted.        *)
ReconcileMgann ==
  LET t == closed["bookmap"]
      rebuilt == {a \in Alerts : engine[a].enabled /\ engine[a].type = "mgann" /\ t \in cached}
      fired == {a \in rebuilt : a \in handler["bookmap"].met /\ events[a][t] = 0}
  IN
  /\ handler["bookmap"].phase = "checked"
  /\ fed' = [a \in Alerts |-> IF a \in rebuilt THEN {u \in cached : u <= t} ELSE fed[a]]
  /\ firing' = fired
  /\ Disarm(fired)
  /\ handler' = [handler EXCEPT !["bookmap"].phase = "fired", !["bookmap"].pass = 2]
  /\ UNCHANGED <<row, patch, created, armed, minBar, since, feedVars, events, shots,
                 disturbances>>

-----------------------------------------------------------------------------
(* Alerts whose event is stored and whose flag is not.                     *)
Torn == {a \in firing : ~engine[a].repeat /\ \E f \in Feeds : handler[f].phase = "recorded"}

(* The engine is built again from the rows; what was in memory is gone.    *)
Restart ==
  /\ disturbances < MaxDisturbances
  /\ disturbances' = disturbances + 1
  /\ engine' = row
  /\ shots' = [a \in Alerts |-> IF a \in Torn THEN shots[a] + 1 ELSE shots[a]]
  /\ fed' = [a \in Alerts |-> WarmBars(row[a], cached, 0)]
  /\ armed' = [a \in Alerts |-> TRUE]
  /\ minBar' = 0
  /\ since' = [a \in Alerts |-> Zero]
  /\ patch' = [a \in Alerts |-> Absent]
  /\ remembered' = [f \in Feeds |-> {}]
  /\ handler' = [f \in Feeds |-> Idle]
  /\ firing' = {}
  /\ activeFeed' = "none" /\ switching' = FALSE
  /\ UNCHANGED <<row, created, cached, closed, switches, events>>

Init ==
  /\ row = [a \in Alerts |-> Absent]
  /\ engine = [a \in Alerts |-> Absent]
  /\ patch = [a \in Alerts |-> Absent]
  /\ created = {}
  /\ fed = [a \in Alerts |-> {}]
  /\ armed = [a \in Alerts |-> TRUE]
  /\ minBar = 0
  /\ events = [a \in Alerts |-> Zero]
  /\ since = [a \in Alerts |-> Zero]
  /\ cached = {}
  /\ closed = [f \in Feeds |-> 0]
  /\ remembered = [f \in Feeds |-> {}]
  /\ handler = [f \in Feeds |-> Idle]
  /\ firing = {}
  /\ activeFeed = "none" /\ switching = FALSE
  /\ disturbances = 0 /\ switches = 0
  /\ shots = [a \in Alerts |-> 0]

Next ==
  \/ \E a \in Alerts :
       \/ \E d \in Definitions : Create(a, d)
       \/ StartPatch(a)
       \/ \E new \in Definitions, named \in SUBSET {"enabled", "repeat"} : FinishPatch(a, new, named)
       \/ Delete(a)
  \/ \E f \in Feeds :
       \/ \E live \in BOOLEAN : CloseBar(f, live)
       \/ StoreBar(f) \/ DropBar(f) \/ StoreForming(f)
       \/ \E met \in SUBSET Alerts : Evaluate(f, met)
       \/ RecordEvents(f) \/ PersistEnabled(f)
  \/ \E f \in Feeds \cup {"none"} : SwitchFeed(f)
  \/ \E building \in BOOLEAN : FinishSwitch(building)
  \/ Roll
  \/ ReconcileMgann
  \/ Restart

Spec == Init /\ [][Next]_vars

-----------------------------------------------------------------------------
TypeOK ==
  /\ row \in [Alerts -> Definitions \cup {Absent}]
  /\ engine \in [Alerts -> Definitions \cup {Absent}]
  /\ patch \in [Alerts -> Definitions \cup {Absent}]
  /\ created \subseteq Alerts /\ firing \subseteq Alerts
  /\ fed \in [Alerts -> SUBSET Bars]
  /\ armed \in [Alerts -> BOOLEAN]
  /\ minBar \in Nat
  /\ events \in [Alerts -> [Bars -> Nat]]
  /\ since \in [Alerts -> [Bars -> Nat]]
  /\ cached \subseteq Bars
  /\ closed \in [Feeds -> 0 .. MaxBars]
  /\ remembered \in [Feeds -> SUBSET Bars]
  /\ handler \in [Feeds -> [phase : {"idle", "closed", "stored", "fired", "recorded", "checked"},
                            live : BOOLEAN, met : SUBSET Alerts, pass : 0 .. 2]]
  /\ activeFeed \in Feeds \cup {"none"} /\ switching \in BOOLEAN
  /\ {disturbances, switches} \subseteq Nat
  /\ shots \in [Alerts -> Int]

(* "one-shot" alerts are disabled after the first fire: an alert fires no  *)
(* oftener than it was enabled on request, and once more for every time a  *)
(* crash fell between its event and its flag or a PATCH wrote back the     *)
(* enabled it had read before.                                             *)
OneShotFires == \A a \in Alerts : shots[a] >= 0

(* "emit at most one alert_event for that bar-close event": whatever feeds *)
(* deliver the bar and however they take turns, a detector fires once for  *)
(* it until the detector is reset, and Supertrend, which looks into the    *)
(* audit log, even over resets.                                            *)
OncePerBar ==
  \A a \in Alerts, t \in Bars :
    since[a][t] <= 1 /\ (row[a].type = "supertrend" => events[a][t] <= 1)

(* What the engine evaluates is what REST shows and a restart will load.   *)
EngineMatchesStore == ~Evaluating => engine = row

(* A Supertrend state never joins bars of two physical contracts.          *)
StatesWithinContract ==
  \A a \in Alerts : engine[a].type = "supertrend" => \A t \in fed[a] : t >= minBar

(* The handler of feed f comes to its end without a crash.                 *)
Finishes(f) ==
  handler[f].phase \in {"fired", "recorded", "checked"} /\ handler'[f] = Idle /\ disturbances' = disturbances

(* "Only a signal on the current bar that is absent from the audit log is  *)
(* emitted": once a Bookmap close has been worked off and its row is still *)
(* closed, an mGann signal on it is in the audit log, whatever reset or    *)
(* warmed the detector, or wrote the bar, before.                          *)
MgannRecovered ==
  [][\A a \in handler["bookmap"].met :
       Finishes("bookmap") /\ closed["bookmap"] \in cached /\ engine[a].enabled /\ engine[a].type = "mgann"
         => events[a][closed["bookmap"]] > 0]_vars
=============================================================================
