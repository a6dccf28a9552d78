---------------------------- MODULE Alerts_proofs ----------------------------
(***************************************************************************)
(* Proofs about Alerts for any alerts and bounds.                          *)
(***************************************************************************)
EXTENDS Alerts, TLAPS

(* The synchronous evaluation of f's bar is between its first step and its *)
(* last.                                                                   *)
Busy(f) == handler[f].phase \in {"fired", "recorded", "checked"}
Firing == \E f \in Feeds : handler[f].phase \in {"fired", "recorded"}

Handlers ==
  [phase : {"idle", "closed", "stored", "fired", "recorded", "checked"},
   live : BOOLEAN, met : SUBSET Alerts, pass : 0 .. 2]

(* The event loop is in one evaluation at a time.                          *)
OneEvaluates == \A f, g \in Feeds : Busy(f) /\ Busy(g) => f = g

Passes ==
  \A f \in Feeds :
    /\ handler[f].phase = "idle" => handler[f] = Idle
    /\ Busy(f) => handler[f].pass \in {1, 2}
    /\ handler[f].phase \in {"closed", "stored"} => handler[f].pass = 1
    /\ handler[f].phase = "checked" => f = "bookmap"

(* No feed is ahead of a bar that is being handled, nor two bars ahead of  *)
(* the other.                                                              *)
Lag ==
  \A f, g \in Feeds :
    /\ closed[g] <= closed[f] + 1
    /\ handler[f].phase # "idle" => closed[f] \in Bars /\ closed[g] <= closed[f]

(* Nothing has been taken in or stored that no feed has closed, nor is it  *)
(* waiting for a switch, which is to a feed.                               *)
OnlyClosedBars ==
  /\ switching => activeFeed \in Feeds
  /\ \A f \in Feeds : \A t \in remembered[f] : t <= closed[f]
  /\ \A t \in cached : \E f \in Feeds : t <= closed[f]
  /\ \A a \in Alerts : \A t \in fed[a] : \E f \in Feeds : t <= closed[f]

(* The engine differs from the rows in the flags of the one-shot alerts    *)
(* that are firing, and in nothing else.                                   *)
CopiesAgree ==
  \A a \in Alerts :
    IF Firing /\ a \in firing
    THEN /\ row[a].enabled
         /\ engine[a] = IF row[a].repeat THEN row[a] ELSE [row[a] EXCEPT !.enabled = FALSE]
    ELSE engine[a] = row[a]

(* What is stored as enabled may fire once more, unless its event already  *)
(* is stored.                                                              *)
Credit ==
  \A a \in Alerts : shots[a] >= 0 /\ (row[a].enabled /\ a \notin Torn => shots[a] >= 1)

(* An alert keeps its type; one that is gone has left no events.           *)
Names ==
  \A a \in Alerts :
    /\ a \notin created => row[a] = Absent /\ patch[a] = Absent
    /\ row[a] # Absent /\ patch[a] # Absent => patch[a].type = row[a].type
    /\ row[a] = Absent => events[a] = Zero

(* A detector that fired for a bar since its reset has taken in that bar   *)
(* or a later one, and a gate is disarmed while it is the last.            *)
FiredAreFed ==
  \A a \in Alerts, t \in Bars :
    /\ since[a][t] <= events[a][t]
    /\ since[a][t] > 0 /\ row[a].type \in {"gate", "mgann"} => Passed(a, t)
    /\ since[a][t] > 0 /\ row[a].type = "gate" /\ (\A u \in fed[a] : u <= t) => ~armed[a]

(* What is about to be stored is the first event of its bar.               *)
FiringIsNew ==
  \A f \in Feeds : \A a \in firing :
    handler[f].phase = "fired" =>
      /\ since[a][closed[f]] = 0
      /\ row[a].type \in {"gate", "mgann"} => closed[f] \in fed[a]
      /\ row[a].type = "gate" => ~armed[a]
      /\ row[a].type = "supertrend" => events[a][closed[f]] = 0

(* In its second pass an mGann signal is stored or about to be.            *)
Recovering ==
  \A a \in handler["bookmap"].met :
    /\ handler["bookmap"].pass = 2 /\ closed["bookmap"] \in cached
    /\ engine[a].enabled /\ engine[a].type = "mgann"
    => /\ handler["bookmap"].phase = "fired" => a \in firing \/ events[a][closed["bookmap"]] > 0
       /\ handler["bookmap"].phase = "recorded" => events[a][closed["bookmap"]] > 0

IInv ==
  /\ TypeOK /\ OneEvaluates /\ Passes /\ Lag /\ OnlyClosedBars
  /\ CopiesAgree /\ Credit /\ Names /\ FiredAreFed /\ FiringIsNew /\ OncePerBar
  /\ StatesWithinContract /\ Recovering

-----------------------------------------------------------------------------
LEMMA DefinitionFacts ==
  ASSUME NEW d \in Definitions \cup {Absent}
  PROVE  /\ d.enabled \in BOOLEAN /\ d.repeat \in BOOLEAN
         /\ d.type \in {"gate", "supertrend", "mgann", "none"}
         /\ d.enabled => d \in Definitions
         /\ d # Absent <=> d.type # "none"
         /\ d \in Definitions => /\ d # Absent
                                 /\ [d EXCEPT !.enabled = FALSE] \in Definitions
                                 /\ [d EXCEPT !.enabled = FALSE].type = d.type
                                 /\ [d EXCEPT !.enabled = FALSE].repeat = d.repeat
                                 /\ [d EXCEPT !.enabled = FALSE].enabled = FALSE
<1>1. CASE d = Absent
  BY <1>1, AlertsAssumption DEF Absent, Definitions
<1>2. CASE d \in Definitions
  <2>1. d.type \in Types /\ d.enabled \in BOOLEAN /\ d.repeat \in BOOLEAN  BY <1>2 DEF Definitions
  <2>2. [d EXCEPT !.enabled = FALSE] \in Definitions  BY <1>2 DEF Definitions
  <2>3. /\ [d EXCEPT !.enabled = FALSE].type = d.type
        /\ [d EXCEPT !.enabled = FALSE].repeat = d.repeat
        /\ [d EXCEPT !.enabled = FALSE].enabled = FALSE
    BY <1>2 DEF Definitions
  <2>4. "none" \notin Types /\ Types \subseteq {"gate", "supertrend", "mgann"}  BY AlertsAssumption
  <2>5. Absent.type = "none"  BY DEF Absent
  <2> QED  BY <1>2, <2>1, <2>2, <2>3, <2>4, <2>5
<1> QED  BY <1>1, <1>2

(* What upsert() leaves behind while no evaluation runs.                   *)
LEMMA Upserted ==
  ASSUME IInv, ~Evaluating, NEW a \in Alerts, NEW d \in Definitions \cup {Absent}, Upsert(a, d),
         UNCHANGED <<minBar, feedVars, handler, firing>>
  PROVE  /\ row' \in [Alerts -> Definitions \cup {Absent}]
         /\ engine' \in [Alerts -> Definitions \cup {Absent}]
         /\ fed' \in [Alerts -> SUBSET Bars] /\ armed' \in [Alerts -> BOOLEAN]
         /\ since' \in [Alerts -> [Bars -> Nat]]
         /\ row'[a] = d /\ since'[a] = Zero
         /\ \A b \in Alerts \ {a} : /\ row'[b] = row[b] /\ since'[b] = since[b]
                                    /\ fed'[b] = fed[b] /\ armed'[b] = armed[b]
         /\ OneEvaluates' /\ Passes' /\ Lag' /\ OnlyClosedBars' /\ CopiesAgree' /\ FiringIsNew'
         /\ StatesWithinContract' /\ Recovering' /\ Torn = {} /\ Torn' = {}
<1>1. /\ row' = [row EXCEPT ![a] = d] /\ engine' = [engine EXCEPT ![a] = d]
      /\ fed' = [fed EXCEPT ![a] = WarmBars(d, cached, minBar)]
      /\ armed' = [armed EXCEPT ![a] = TRUE] /\ since' = [since EXCEPT ![a] = Zero]
  BY DEF Upsert
<1>2. \A f \in Feeds : ~Busy(f)  BY DEF Evaluating, Busy
<1>3. \A b \in Alerts : engine[b] = row[b]  BY <1>2 DEF IInv, CopiesAgree, Firing, Busy
<1>4. /\ WarmBars(d, cached, minBar) \subseteq cached
      /\ d.type = "supertrend" => \A u \in WarmBars(d, cached, minBar) : u >= minBar
  BY DEF WarmBars
<1>5. /\ row' \in [Alerts -> Definitions \cup {Absent}]
      /\ engine' \in [Alerts -> Definitions \cup {Absent}]
      /\ fed' \in [Alerts -> SUBSET Bars] /\ armed' \in [Alerts -> BOOLEAN]
      /\ since' \in [Alerts -> [Bars -> Nat]]
      /\ Zero \in [Bars -> Nat]
  BY <1>1, <1>4 DEF IInv, TypeOK, Zero
<1>6. \A b \in Alerts : /\ row'[b] = IF b = a THEN d ELSE row[b]
                        /\ engine'[b] = row'[b]
                        /\ fed'[b] = IF b = a THEN WarmBars(d, cached, minBar) ELSE fed[b]
                        /\ armed'[b] = IF b = a THEN TRUE ELSE armed[b]
                        /\ since'[b] = IF b = a THEN Zero ELSE since[b]
  BY <1>1, <1>3 DEF IInv, TypeOK
<1>7. OneEvaluates' /\ Passes' /\ Lag'
  BY DEF IInv, OneEvaluates, Passes, Lag, Busy, feedVars
<1>8. OnlyClosedBars'
  BY <1>4, <1>6 DEF IInv, OnlyClosedBars, feedVars
<1>9. StatesWithinContract'
  BY <1>3, <1>4, <1>6 DEF IInv, StatesWithinContract
<1>10. CopiesAgree' /\ FiringIsNew' /\ Torn = {} /\ Torn' = {}
  BY <1>2, <1>6 DEF CopiesAgree, Firing, FiringIsNew, Torn, Busy
<1>11. Recovering'
  BY <1>2 DEF Recovering, Busy, Feeds
<1> QED  BY <1>5, <1>6, <1>7, <1>8, <1>9, <1>10, <1>11

LEMMA CreateKept ==
  ASSUME IInv, NEW a \in Alerts, NEW d \in Definitions, Create(a, d)
  PROVE  IInv'
<1>1. /\ ~Evaluating /\ a \notin created /\ created' = created \cup {a} /\ Upsert(a, d)
      /\ shots' = [shots EXCEPT ![a] = IF d.enabled THEN @ + 1 ELSE @]
      /\ UNCHANGED <<patch, minBar, feedVars, handler, firing, events, disturbances>>
  BY DEF Create
<1>2. /\ row' \in [Alerts -> Definitions \cup {Absent}]
      /\ engine' \in [Alerts -> Definitions \cup {Absent}]
      /\ fed' \in [Alerts -> SUBSET Bars] /\ armed' \in [Alerts -> BOOLEAN]
      /\ since' \in [Alerts -> [Bars -> Nat]]
      /\ row'[a] = d /\ since'[a] = Zero
      /\ \A b \in Alerts \ {a} : /\ row'[b] = row[b] /\ since'[b] = since[b]
                                 /\ fed'[b] = fed[b] /\ armed'[b] = armed[b]
      /\ OneEvaluates' /\ Passes' /\ Lag' /\ OnlyClosedBars' /\ CopiesAgree' /\ FiringIsNew'
      /\ StatesWithinContract' /\ Recovering' /\ Torn = {} /\ Torn' = {}
  BY <1>1, Upserted
<1>3. patch[a] = Absent /\ events[a] = Zero /\ d # Absent
  BY <1>1, DefinitionFacts DEF IInv, Names
<1>4. TypeOK'
  <2>1. shots' \in [Alerts -> Int] /\ created' \subseteq Alerts
    BY <1>1 DEF IInv, TypeOK
  <2>2. patch' \in [Alerts -> Definitions \cup {Absent}]
    BY <1>1 DEF IInv, TypeOK
  <2> QED  BY <1>1, <1>2, <2>1, <2>2 DEF IInv, TypeOK, feedVars
<1>5. Credit'
  BY <1>1, <1>2, DefinitionFacts DEF IInv, TypeOK, Credit
<1>6. Names'
  BY <1>1, <1>2, <1>3 DEF IInv, Names
<1>7. FiredAreFed' /\ OncePerBar'
  <2>1. \A t \in Bars : since'[a][t] = 0 /\ events'[a][t] \in Nat
    BY <1>1, <1>2 DEF IInv, TypeOK, Zero
  <2>2. \A t \in Bars : row'[a].type = "supertrend" => events'[a][t] <= 1
    BY <1>1, <1>3 DEF Zero
  <2>3. \A b \in Alerts \ {a} : since'[b] = since[b] /\ events'[b] = events[b]
    BY <1>1, <1>2
  <2>4. \A b \in Alerts \ {a} : row'[b] = row[b] /\ fed'[b] = fed[b] /\ armed'[b] = armed[b]
    BY <1>2
  <2> SUFFICES ASSUME NEW b \in Alerts, NEW t \in Bars
               PROVE  /\ since'[b][t] <= events'[b][t]
                      /\ since'[b][t] > 0 /\ row'[b].type \in {"gate", "mgann"} => Passed(b, t)'
                      /\ since'[b][t] > 0 /\ row'[b].type = "gate" /\ (\A u \in fed'[b] : u <= t) => ~armed'[b]
                      /\ since'[b][t] <= 1
                      /\ row'[b].type = "supertrend" => events'[b][t] <= 1
    BY DEF FiredAreFed, OncePerBar
  <2>5. CASE b = a
    BY <2>1, <2>2, <2>5
  <2>6. CASE b # a
    BY <2>3, <2>4, <2>6 DEF IInv, FiredAreFed, OncePerBar, Passed
  <2> QED  BY <2>5, <2>6
<1> QED  BY <1>2, <1>4, <1>5, <1>6, <1>7 DEF IInv

LEMMA FinishPatchKept ==
  ASSUME IInv, NEW a \in Alerts, NEW new \in Definitions, NEW named \in SUBSET {"enabled", "repeat"},
         FinishPatch(a, new, named)
  PROVE  IInv'
<1>1. /\ ~Evaluating /\ patch[a] # Absent /\ new.type = patch[a].type
      /\ patch' = [patch EXCEPT ![a] = Absent] /\ Upsert(a, new)
      /\ shots' = [shots EXCEPT ![a] =
           IF new.enabled /\ ("enabled" \in named \/ ~row[a].enabled) THEN @ + 1 ELSE @]
      /\ UNCHANGED <<created, minBar, feedVars, handler, firing, events, disturbances>>
  BY DEF FinishPatch
<1>2. /\ row' \in [Alerts -> Definitions \cup {Absent}]
      /\ engine' \in [Alerts -> Definitions \cup {Absent}]
      /\ fed' \in [Alerts -> SUBSET Bars] /\ armed' \in [Alerts -> BOOLEAN]
      /\ since' \in [Alerts -> [Bars -> Nat]]
      /\ row'[a] = new /\ since'[a] = Zero
      /\ \A b \in Alerts \ {a} : /\ row'[b] = row[b] /\ since'[b] = since[b]
                                 /\ fed'[b] = fed[b] /\ armed'[b] = armed[b]
      /\ OneEvaluates' /\ Passes' /\ Lag' /\ OnlyClosedBars' /\ CopiesAgree' /\ FiringIsNew'
      /\ StatesWithinContract' /\ Recovering' /\ Torn = {} /\ Torn' = {}
  BY <1>1, Upserted
<1>3. /\ a \in created /\ new # Absent
      /\ row[a] = Absent => events[a] = Zero
      /\ row[a] # Absent => new.type = row[a].type
  BY <1>1, DefinitionFacts DEF IInv, Names
<1>4. TypeOK'
  <2>1. shots' \in [Alerts -> Int]
    BY <1>1 DEF IInv, TypeOK
  <2>2. patch' \in [Alerts -> Definitions \cup {Absent}]
    BY <1>1 DEF IInv, TypeOK
  <2> QED  BY <1>1, <1>2, <2>1, <2>2 DEF IInv, TypeOK, feedVars
<1>5. Credit'
  <2>1. /\ new.enabled \in BOOLEAN
        /\ \A b \in Alerts : shots[b] \in Int /\ shots[b] >= 0 /\ (row[b].enabled => shots[b] >= 1)
    BY <1>2, DefinitionFacts DEF IInv, TypeOK, Credit
  <2> QED  BY <1>1, <1>2, <2>1 DEF IInv, TypeOK, Credit
<1>6. Names'
  BY <1>1, <1>2, <1>3 DEF IInv, TypeOK, Names
<1>7. FiredAreFed' /\ OncePerBar'
  <2>1. \A t \in Bars : since'[a][t] = 0 /\ events'[a][t] \in Nat
    BY <1>1, <1>2 DEF IInv, TypeOK, Zero
  <2>2. \A t \in Bars : row'[a].type = "supertrend" => events'[a][t] <= 1
    BY <1>1, <1>2, <1>3 DEF IInv, OncePerBar, Zero
  <2>3. \A b \in Alerts \ {a} : since'[b] = since[b] /\ events'[b] = events[b]
    BY <1>1, <1>2
  <2>4. \A b \in Alerts \ {a} : row'[b] = row[b] /\ fed'[b] = fed[b] /\ armed'[b] = armed[b]
    BY <1>2
  <2> SUFFICES ASSUME NEW b \in Alerts, NEW t \in Bars
               PROVE  /\ since'[b][t] <= events'[b][t]
                      /\ since'[b][t] > 0 /\ row'[b].type \in {"gate", "mgann"} => Passed(b, t)'
                      /\ since'[b][t] > 0 /\ row'[b].type = "gate" /\ (\A u \in fed'[b] : u <= t) => ~armed'[b]
                      /\ since'[b][t] <= 1
                      /\ row'[b].type = "supertrend" => events'[b][t] <= 1
    BY DEF FiredAreFed, OncePerBar
  <2>5. CASE b = a
    BY <2>1, <2>2, <2>5
  <2>6. CASE b # a
    BY <2>3, <2>4, <2>6 DEF IInv, FiredAreFed, OncePerBar, Passed
  <2> QED  BY <2>5, <2>6
<1> QED  BY <1>2, <1>4, <1>5, <1>6, <1>7 DEF IInv

LEMMA DeleteKept ==
  ASSUME IInv, NEW a \in Alerts, Delete(a)
  PROVE  IInv'
<1>1. /\ ~Evaluating /\ disturbances < MaxDisturbances /\ disturbances' = disturbances + 1
      /\ Upsert(a, Absent) /\ events' = [events EXCEPT ![a] = Zero]
      /\ UNCHANGED <<patch, created, minBar, feedVars, handler, firing, shots>>
  BY DEF Delete
<1>2. /\ row' \in [Alerts -> Definitions \cup {Absent}]
      /\ engine' \in [Alerts -> Definitions \cup {Absent}]
      /\ fed' \in [Alerts -> SUBSET Bars] /\ armed' \in [Alerts -> BOOLEAN]
      /\ since' \in [Alerts -> [Bars -> Nat]]
      /\ row'[a] = Absent /\ since'[a] = Zero
      /\ \A b \in Alerts \ {a} : /\ row'[b] = row[b] /\ since'[b] = since[b]
                                 /\ fed'[b] = fed[b] /\ armed'[b] = armed[b]
      /\ OneEvaluates' /\ Passes' /\ Lag' /\ OnlyClosedBars' /\ CopiesAgree' /\ FiringIsNew'
      /\ StatesWithinContract' /\ Recovering' /\ Torn = {} /\ Torn' = {}
  BY <1>1, Upserted
<1>3. events' \in [Alerts -> [Bars -> Nat]] /\ events'[a] = Zero
  BY <1>1 DEF IInv, TypeOK, Zero
<1>4. TypeOK'
  BY <1>1, <1>2, <1>3 DEF IInv, TypeOK, feedVars
<1>5. Credit'
  BY <1>1, <1>2 DEF IInv, Credit, Absent
<1>6. Names'
  BY <1>1, <1>2, <1>3 DEF IInv, TypeOK, Names
<1>7. FiredAreFed' /\ OncePerBar'
  BY <1>1, <1>2, <1>3 DEF IInv, TypeOK, FiredAreFed, OncePerBar, Passed, Zero
<1> QED  BY <1>2, <1>4, <1>5, <1>6, <1>7 DEF IInv

LEMMA StartPatchKept ==
  ASSUME IInv, NEW a \in Alerts, StartPatch(a)
  PROVE  IInv'
<1>1. /\ row[a] # Absent /\ disturbances' = disturbances + 1
      /\ patch' = [patch EXCEPT ![a] = row[a]]
      /\ UNCHANGED <<row, engine, created, detectorVars, feedVars, evaluationVars>>
  BY DEF StartPatch
<1>2. TypeOK'
  BY <1>1 DEF IInv, TypeOK, detectorVars, feedVars, evaluationVars
<1>3. Names'
  BY <1>1 DEF IInv, TypeOK, Names, evaluationVars
<1>4. /\ OneEvaluates' /\ Passes' /\ Lag' /\ OnlyClosedBars' /\ CopiesAgree' /\ Credit'
      /\ FiredAreFed' /\ FiringIsNew' /\ OncePerBar' /\ StatesWithinContract' /\ Recovering'
  BY <1>1 DEF IInv, OneEvaluates, Passes, Lag, OnlyClosedBars, CopiesAgree, Credit, FiredAreFed,
              FiringIsNew, OncePerBar, StatesWithinContract, Recovering, Busy, Firing, Torn, Passed,
              detectorVars, feedVars, evaluationVars
<1> QED  BY <1>2, <1>3, <1>4 DEF IInv

(* A feed's handler goes from one step to the next outside evaluations.    *)
LEMMA HandlerMoved ==
  ASSUME IInv, ~Evaluating, NEW f \in Feeds, NEW h \in Handlers, handler' = [handler EXCEPT ![f] = h],
         h.phase \in {"idle", "closed", "stored"}, IF h.phase = "idle" THEN h = Idle ELSE h.pass = 1,
         UNCHANGED <<definitionVars, detectorVars, firing, events, shots>>
  PROVE  /\ handler' \in [Feeds -> Handlers]
         /\ handler'[f] = h /\ \A g \in Feeds \ {f} : handler'[g] = handler[g]
         /\ OneEvaluates' /\ Passes' /\ CopiesAgree' /\ Credit' /\ Names' /\ FiredAreFed'
         /\ FiringIsNew' /\ OncePerBar' /\ StatesWithinContract' /\ Recovering'
<1>1. /\ handler' \in [Feeds -> Handlers]
      /\ handler'[f] = h /\ \A g \in Feeds \ {f} : handler'[g] = handler[g]
  BY DEF IInv, TypeOK, Handlers
<1>2. \A g \in Feeds : ~Busy(g) /\ ~Busy(g)'
  BY <1>1 DEF Evaluating, Busy
<1>3. ~Firing /\ ~Firing' /\ Torn = {} /\ Torn' = {}
  BY <1>2 DEF Busy, Firing, Torn
<1>4. OneEvaluates' /\ FiringIsNew' /\ Recovering'
  BY <1>2 DEF OneEvaluates, FiringIsNew, Recovering, Busy, Feeds
<1>5. Passes'
  BY <1>1, <1>2 DEF IInv, Passes
<1>6. CopiesAgree' /\ Credit' /\ Names' /\ FiredAreFed' /\ OncePerBar' /\ StatesWithinContract'
  BY <1>3 DEF IInv, CopiesAgree, Credit, Names, FiredAreFed, Passed, OncePerBar, StatesWithinContract,
              definitionVars, detectorVars
<1> QED  BY <1>1, <1>4, <1>5, <1>6

LEMMA CloseBarKept ==
  ASSUME IInv, NEW f \in Feeds, NEW live \in BOOLEAN, CloseBar(f, live)
  PROVE  IInv'
<1> DEFINE h == [phase |-> "closed", live |-> live, met |-> {}, pass |-> 1]
<1>1. /\ ~Evaluating /\ closed[f] < MaxBars
      /\ \A g \in Feeds : closed[g] >= closed[f] /\ (handler[g] # Idle => closed[g] > closed[f])
      /\ closed' = [closed EXCEPT ![f] = @ + 1]
      /\ remembered' = [remembered EXCEPT ![f] = (@ \cap {closed[f]}) \cup {closed[f] + 1}]
      /\ handler' = [handler EXCEPT ![f] = h]
      /\ UNCHANGED <<definitionVars, detectorVars, cached, activeFeed, switching, switches, firing,
                     events, shots, disturbances>>
  BY DEF CloseBar
<1>2. h \in Handlers /\ h.phase = "closed" /\ h.pass = 1
  BY DEF Handlers
<1>3. /\ handler' \in [Feeds -> Handlers]
      /\ handler'[f] = h /\ \A g \in Feeds \ {f} : handler'[g] = handler[g]
      /\ OneEvaluates' /\ Passes' /\ CopiesAgree' /\ Credit' /\ Names' /\ FiredAreFed'
      /\ FiringIsNew' /\ OncePerBar' /\ StatesWithinContract' /\ Recovering'
  <2> HIDE DEF h
  <2> QED  BY <1>1, <1>2, HandlerMoved
<1>4. /\ closed \in [Feeds -> 0 .. MaxBars] /\ MaxBars \in Nat
      /\ closed[f] + 1 \in Bars
      /\ \A g \in Feeds : closed'[g] = IF g = f THEN closed[f] + 1 ELSE closed[g]
  BY <1>1, AlertsAssumption DEF IInv, TypeOK, Bars
<1>5. /\ closed' \in [Feeds -> 0 .. MaxBars] /\ remembered' \in [Feeds -> SUBSET Bars]
      /\ \A g \in Feeds : remembered'[g] = IF g = f THEN (remembered[f] \cap {closed[f]}) \cup {closed[f] + 1}
                                           ELSE remembered[g]
  BY <1>1, <1>4 DEF IInv, TypeOK, Bars
<1>6. TypeOK'
  BY <1>1, <1>3, <1>5 DEF IInv, TypeOK, Handlers, definitionVars, detectorVars
<1>7. Lag'
  BY <1>1, <1>3, <1>4 DEF IInv, Lag, Idle
<1>8. OnlyClosedBars'
  BY <1>1, <1>4, <1>5 DEF IInv, TypeOK, OnlyClosedBars, Bars, detectorVars
<1> QED  BY <1>3, <1>6, <1>7, <1>8 DEF IInv

LEMMA StoreBarKept ==
  ASSUME IInv, NEW f \in Feeds, StoreBar(f)
  PROVE  IInv'
<1> DEFINE h == IF handler[f].live THEN [handler[f] EXCEPT !.phase = "stored"] ELSE Idle
<1>1. /\ ~Evaluating /\ handler[f].phase = "closed"
      /\ cached' = cached \cup {closed[f]} /\ handler' = [handler EXCEPT ![f] = h]
      /\ UNCHANGED <<definitionVars, detectorVars, closed, remembered, activeFeed, switching,
                     switches, firing, events, shots, disturbances>>
  BY DEF StoreBar
<1>2. /\ closed[f] \in Bars /\ handler[f].pass = 1 /\ handler[f] \in Handlers
      /\ \A g \in Feeds : closed[g] <= closed[f]
  BY <1>1 DEF IInv, TypeOK, Passes, Lag, Handlers
<1>3. /\ h \in Handlers /\ h.phase \in {"idle", "stored"}
      /\ IF h.phase = "idle" THEN h = Idle ELSE h.pass = 1
  BY <1>2 DEF Handlers, Idle
<1>4. /\ handler' \in [Feeds -> Handlers]
      /\ handler'[f] = h /\ \A g \in Feeds \ {f} : handler'[g] = handler[g]
      /\ OneEvaluates' /\ Passes' /\ CopiesAgree' /\ Credit' /\ Names' /\ FiredAreFed'
      /\ FiringIsNew' /\ OncePerBar' /\ StatesWithinContract' /\ Recovering'
  <2> HIDE DEF h
  <2> QED  BY <1>1, <1>3, HandlerMoved
<1>5. TypeOK'
  BY <1>1, <1>2, <1>4 DEF IInv, TypeOK, Handlers, definitionVars, detectorVars
<1>6. Lag'
  BY <1>1, <1>2, <1>4 DEF IInv, Lag
<1>7. OnlyClosedBars'
  BY <1>1, <1>2 DEF IInv, OnlyClosedBars, Bars, detectorVars
<1> QED  BY <1>4, <1>5, <1>6, <1>7 DEF IInv

LEMMA DropBarKept ==
  ASSUME IInv, NEW f \in Feeds, DropBar(f)
  PROVE  IInv'
<1>1. /\ ~Evaluating /\ handler' = [handler EXCEPT ![f] = Idle]
      /\ UNCHANGED <<definitionVars, detectorVars, feedVars, firing, events, shots, disturbances>>
  BY DEF DropBar
<1>2. Idle \in Handlers /\ Idle.phase = "idle"
  BY DEF Idle, Handlers
<1>3. /\ handler' \in [Feeds -> Handlers]
      /\ handler'[f] = Idle /\ \A g \in Feeds \ {f} : handler'[g] = handler[g]
      /\ OneEvaluates' /\ Passes' /\ CopiesAgree' /\ Credit' /\ Names' /\ FiredAreFed'
      /\ FiringIsNew' /\ OncePerBar' /\ StatesWithinContract' /\ Recovering'
  BY <1>1, <1>2, HandlerMoved
<1>4. TypeOK'
  BY <1>1, <1>3 DEF IInv, TypeOK, Handlers, definitionVars, detectorVars, feedVars
<1>5. Lag' /\ OnlyClosedBars'
  BY <1>1, <1>2, <1>3 DEF IInv, Lag, OnlyClosedBars, detectorVars, feedVars
<1> QED  BY <1>3, <1>4, <1>5 DEF IInv

LEMMA StoreFormingKept ==
  ASSUME IInv, NEW f \in Feeds, StoreForming(f)
  PROVE  IInv'
<1>1. /\ ~Evaluating /\ cached' = cached \ {closed[f] + 1}
      /\ UNCHANGED <<definitionVars, detectorVars, closed, remembered, activeFeed, switching,
                     switches, evaluationVars, disturbances>>
  BY DEF StoreForming
<1>2. TypeOK'
  BY <1>1 DEF IInv, TypeOK, definitionVars, detectorVars, evaluationVars
<1>3. OnlyClosedBars'
  BY <1>1 DEF IInv, OnlyClosedBars, detectorVars
<1>4. Recovering'
  BY <1>1 DEF Recovering, Evaluating, Feeds, evaluationVars
<1>5. /\ OneEvaluates' /\ Passes' /\ Lag' /\ CopiesAgree' /\ Credit' /\ Names' /\ FiredAreFed'
      /\ FiringIsNew' /\ OncePerBar' /\ StatesWithinContract'
  BY <1>1 DEF IInv, OneEvaluates, Passes, Lag, CopiesAgree, Credit, Names, FiredAreFed, FiringIsNew,
              OncePerBar, StatesWithinContract, Busy, Firing, Torn, Passed, definitionVars,
              detectorVars, evaluationVars
<1> QED  BY <1>2, <1>3, <1>4, <1>5 DEF IInv

LEMMA SwitchFeedKept ==
  ASSUME IInv, NEW f \in Feeds \cup {"none"}, SwitchFeed(f)
  PROVE  IInv'
<1>1. /\ switches' = switches + 1 /\ activeFeed' = f /\ switching' = (f \in Feeds)
      /\ UNCHANGED <<definitionVars, detectorVars, cached, closed, remembered, evaluationVars,
                     disturbances>>
  BY DEF SwitchFeed
<1>2. TypeOK'
  BY <1>1 DEF IInv, TypeOK, definitionVars, detectorVars, evaluationVars
<1>3. /\ OneEvaluates' /\ Passes' /\ Lag' /\ OnlyClosedBars' /\ CopiesAgree' /\ Credit' /\ Names'
      /\ FiredAreFed' /\ FiringIsNew' /\ OncePerBar' /\ StatesWithinContract' /\ Recovering'
  <2>1. OnlyClosedBars' /\ Passes' /\ Lag' /\ Credit'
    BY <1>1 DEF IInv, OnlyClosedBars, Passes, Lag, Credit, Busy, Torn, definitionVars, detectorVars,
                evaluationVars
  <2>2. OneEvaluates' /\ CopiesAgree' /\ Names' /\ OncePerBar'
    BY <1>1 DEF IInv, OneEvaluates, CopiesAgree, Names, OncePerBar, Busy, Firing, definitionVars,
                detectorVars, evaluationVars
  <2>3. FiredAreFed' /\ StatesWithinContract'
    BY <1>1 DEF IInv, FiredAreFed, Passed, StatesWithinContract, definitionVars, detectorVars,
                evaluationVars
  <2>4. FiringIsNew' /\ Recovering'
    BY <1>1 DEF IInv, FiringIsNew, Recovering, definitionVars, detectorVars, evaluationVars
  <2> QED  BY <2>1, <2>2, <2>3, <2>4
<1> QED  BY <1>2, <1>3 DEF IInv

(* What a switch and a roll do to Supertrend states outside evaluations.   *)
LEMMA SupertrendRebuilt ==
  ASSUME IInv, ~Evaluating, fed' \in [Alerts -> SUBSET Bars],
         \A a \in Alerts : engine[a].type # "supertrend" => fed'[a] = fed[a],
         UNCHANGED <<definitionVars, armed, since, closed, evaluationVars>>
  PROVE  /\ OneEvaluates' /\ Passes' /\ Lag' /\ CopiesAgree' /\ Credit' /\ Names' /\ FiredAreFed'
         /\ FiringIsNew' /\ OncePerBar' /\ Recovering'
<1>1. \A f \in Feeds : ~Busy(f)  BY DEF Evaluating, Busy
<1>2. ~Firing  BY <1>1 DEF Busy, Firing
<1>3. FiredAreFed'
  BY <1>2 DEF IInv, FiredAreFed, Passed, CopiesAgree, definitionVars, evaluationVars
<1>4. FiringIsNew' /\ Recovering'
  BY <1>1 DEF FiringIsNew, Recovering, Busy, Feeds, evaluationVars
<1>5. /\ OneEvaluates' /\ Passes' /\ Lag' /\ CopiesAgree' /\ Credit' /\ Names' /\ OncePerBar'
  BY DEF IInv, OneEvaluates, Passes, Lag, CopiesAgree, Credit, Names, OncePerBar, Busy, Firing, Torn,
         definitionVars, evaluationVars
<1> QED  BY <1>3, <1>4, <1>5

LEMMA FinishSwitchKept ==
  ASSUME IInv, NEW building \in BOOLEAN, FinishSwitch(building)
  PROVE  IInv'
<1>1. /\ ~Evaluating /\ switching /\ switching' = FALSE
      /\ cached' = IF building
                   THEN (cached \cup (remembered[activeFeed] \cap {closed[activeFeed]}))
                          \ {closed[activeFeed] + 1}
                   ELSE cached \cup remembered[activeFeed]
      /\ fed' = [a \in Alerts |->
           IF engine[a].enabled /\ engine[a].type = "supertrend"
           THEN WarmBars(engine[a], cached', minBar) ELSE fed[a]]
      /\ UNCHANGED <<definitionVars, armed, minBar, since, closed, remembered, activeFeed, switches,
                     evaluationVars, disturbances>>
  BY DEF FinishSwitch
<1>2. activeFeed \in Feeds
  BY <1>1 DEF IInv, OnlyClosedBars
<1>3. /\ cached' \subseteq Bars
      /\ \A t \in cached' : \E f \in Feeds : t <= closed[f]
  <2>1. cached' \subseteq cached \cup remembered[activeFeed]  BY <1>1
  <2> QED  BY <1>2, <2>1 DEF IInv, TypeOK, OnlyClosedBars
<1>4. \A a \in Alerts : /\ fed'[a] \subseteq fed[a] \cup cached'
                        /\ engine[a].type # "supertrend" => fed'[a] = fed[a]
                        /\ engine[a].type = "supertrend" => \A t \in fed'[a] : t >= minBar
  BY <1>1 DEF IInv, StatesWithinContract, WarmBars
<1>5. fed' \in [Alerts -> SUBSET Bars]
  BY <1>1, <1>3, <1>4 DEF IInv, TypeOK
<1>6. TypeOK'
  BY <1>1, <1>3, <1>5 DEF IInv, TypeOK, definitionVars, evaluationVars
<1>7. OnlyClosedBars' /\ StatesWithinContract'
  BY <1>1, <1>3, <1>4 DEF IInv, OnlyClosedBars, StatesWithinContract, definitionVars
<1>8. /\ OneEvaluates' /\ Passes' /\ Lag' /\ CopiesAgree' /\ Credit' /\ Names' /\ FiredAreFed'
      /\ FiringIsNew' /\ OncePerBar' /\ Recovering'
  BY <1>1, <1>4, <1>5, SupertrendRebuilt
<1> QED  BY <1>6, <1>7, <1>8 DEF IInv

LEMMA RollKept ==
  ASSUME IInv, Roll
  PROVE  IInv'
<1>1. /\ ~Evaluating /\ disturbances' = disturbances + 1 /\ minBar' = closed["nt"] + 2
      /\ fed' = [a \in Alerts |-> IF engine[a].type = "supertrend" THEN {} ELSE fed[a]]
      /\ UNCHANGED <<definitionVars, armed, since, feedVars, evaluationVars>>
  BY DEF Roll
<1>2. fed' \in [Alerts -> SUBSET Bars] /\ minBar' \in Nat
  BY <1>1, AlertsAssumption DEF IInv, TypeOK, Feeds
<1>3. TypeOK'
  BY <1>1, <1>2 DEF IInv, TypeOK, definitionVars, feedVars, evaluationVars
<1>4. OnlyClosedBars' /\ StatesWithinContract'
  BY <1>1 DEF IInv, OnlyClosedBars, StatesWithinContract, definitionVars, feedVars
<1>5. /\ OneEvaluates' /\ Passes' /\ Lag' /\ CopiesAgree' /\ Credit' /\ Names' /\ FiredAreFed'
      /\ FiringIsNew' /\ OncePerBar' /\ Recovering'
  BY <1>1, <1>2, SupertrendRebuilt DEF feedVars
<1> QED  BY <1>3, <1>4, <1>5 DEF IInv

LEMMA EvaluateKept ==
  ASSUME IInv, NEW f \in Feeds, NEW met \in SUBSET Alerts, Evaluate(f, met)
  PROVE  IInv'
<1> DEFINE t == closed[f]
           fired == {a \in Alerts : Fires(a, t, met)}
<1>1. /\ handler' \in [Feeds -> Handlers]
      /\ handler'[f] = [handler[f] EXCEPT !.phase = "fired", !.met = met]
      /\ \A g \in Feeds \ {f} : handler'[g] = handler[g]
  <2> DEFINE h == [handler[f] EXCEPT !.phase = "fired", !.met = met]
  <2>1. handler \in [Feeds -> Handlers]  BY DEF IInv, TypeOK, Handlers
  <2>2. h \in Handlers  BY <2>1 DEF Handlers
  <2>3. handler' = [handler EXCEPT ![f] = h]  BY <2>1 DEF Evaluate, Handlers
  <2> QED  BY <2>1, <2>2, <2>3
<1>2. /\ handler[f].phase = "stored" /\ handler[f].pass = 1
      /\ handler'[f].phase = "fired" /\ handler'[f].pass = 1 /\ handler'[f].met = met
      /\ t \in Bars /\ \A g \in Feeds : closed[g] <= t
      /\ \A g \in Feeds : ~Busy(g)
  <2>1. handler[f].phase = "stored"  BY DEF Evaluate
  <2>2. handler[f] \in Handlers  BY DEF IInv, TypeOK, Handlers
  <2> QED  BY <1>1, <2>1, <2>2 DEF Evaluate, Evaluating, IInv, Passes, Lag, Busy, Handlers
<1>3. /\ UNCHANGED <<row, patch, created, minBar, since, feedVars, events, shots, disturbances>>
      /\ firing' = fired /\ Disarm(fired)
      /\ fed' = [a \in Alerts |-> IF TakesIn(a, t) THEN fed[a] \cup {t} ELSE fed[a]]
      /\ armed' = [a \in Alerts |-> IF TakesIn(a, t) THEN a \notin fired ELSE armed[a] /\ a \notin fired]
  BY DEF Evaluate
<1>4. \A a \in Alerts : engine[a] = row[a]
  BY <1>2 DEF IInv, CopiesAgree, Firing, Busy
<1>5. \A a \in Alerts : row[a] \in Definitions \cup {Absent}
  BY DEF IInv, TypeOK
<1>6. \A a \in fired : row[a] \in Definitions
  BY <1>4, <1>5, DefinitionFacts DEF Fires
<1>7. /\ engine' \in [Alerts -> Definitions \cup {Absent}]
      /\ \A a \in Alerts : engine'[a] = IF a \in fired /\ ~row[a].repeat
                                        THEN [row[a] EXCEPT !.enabled = FALSE] ELSE row[a]
      /\ \A a \in Alerts : engine'[a].type = row[a].type /\ (engine'[a].enabled => row[a].enabled)
  BY <1>3, <1>4, <1>5, <1>6, DefinitionFacts DEF Disarm
<1>8. \A a \in fired :
        /\ row[a].enabled /\ since[a][t] = 0
        /\ row[a].type \in {"gate", "mgann"} => t \in fed'[a]
        /\ row[a].type = "gate" => ~armed'[a]
        /\ row[a].type = "supertrend" => events[a][t] = 0
  <2> SUFFICES ASSUME NEW a \in fired
               PROVE  /\ row[a].enabled /\ since[a][t] = 0
                      /\ row[a].type \in {"gate", "mgann"} => t \in fed'[a]
                      /\ row[a].type = "gate" => ~armed'[a]
                      /\ row[a].type = "supertrend" => events[a][t] = 0
    OBVIOUS
  <2>1. since[a][t] \in Nat /\ events[a][t] \in Nat /\ since[a][t] <= events[a][t]
    BY <1>2 DEF IInv, TypeOK, FiredAreFed
  <2>2. row[a].enabled /\ row[a].type \in {"gate", "mgann", "supertrend"}
    BY <1>4, <1>5, DefinitionFacts, AlertsAssumption DEF Fires, Definitions, Absent
  <2>3. CASE TakesIn(a, t)
    <3>1. ~Passed(a, t)  BY <2>3 DEF TakesIn
    <3>2. t \in fed'[a] /\ ~armed'[a]  BY <1>3, <2>3
    <3>3. row[a].type = "supertrend" => events[a][t] = 0
      BY <1>4, <2>3, <1>2 DEF Fires, Passed
    <3>4. row[a].type \in {"gate", "mgann"} => since[a][t] = 0
      BY <3>1, <2>1, <1>2 DEF IInv, FiredAreFed
    <3> QED  BY <2>1, <2>2, <3>2, <3>3, <3>4
  <2>4. CASE ~TakesIn(a, t)
    <3>1. /\ row[a].type = "gate" /\ armed[a] /\ t \in fed[a] /\ \A u \in fed[a] : u <= t
      BY <1>4, <2>4 DEF Fires
    <3>2. since[a][t] = 0  BY <1>2, <2>1, <3>1 DEF IInv, FiredAreFed
    <3> QED  BY <1>3, <2>2, <2>4, <3>1, <3>2
  <2> QED  BY <2>3, <2>4
<1>9. TypeOK'
  <2>1. fed' \in [Alerts -> SUBSET Bars]  BY <1>2, <1>3 DEF IInv, TypeOK
  <2>2. armed' \in [Alerts -> BOOLEAN]  BY <1>3 DEF IInv, TypeOK
  <2> QED  BY <1>1, <1>3, <1>7, <2>1, <2>2 DEF IInv, TypeOK, Handlers, feedVars
<1>10. \A g \in Feeds : g # f => handler'[g] = handler[g] /\ ~Busy(g)'
  BY <1>1, <1>2 DEF Busy
<1>11. OneEvaluates'
  BY <1>10 DEF OneEvaluates
<1>12. Passes'
  BY <1>2, <1>10 DEF IInv, Passes, Busy
<1>13. Lag'
  BY <1>2, <1>3, <1>10 DEF IInv, Lag, feedVars
<1>14. OnlyClosedBars' /\ StatesWithinContract'
  BY <1>2, <1>3, <1>4, <1>7 DEF IInv, OnlyClosedBars, StatesWithinContract, TakesIn, feedVars
<1>15. CopiesAgree'
  BY <1>2, <1>3, <1>7, <1>8 DEF CopiesAgree, Firing
<1>16. Credit'
  <2>1. \A g \in Feeds : handler'[g].phase # "recorded"  BY <1>1, <1>2 DEF Busy
  <2>2. Torn = {} /\ Torn' = {}  BY <1>2, <2>1 DEF Torn, Busy
  <2> QED  BY <1>3, <2>2 DEF IInv, Credit
<1>17. Names' /\ OncePerBar'
  BY <1>3 DEF IInv, Names, OncePerBar
<1>18. FiredAreFed'
  BY <1>2, <1>3, <1>8 DEF IInv, FiredAreFed, Passed, TakesIn, TypeOK, Bars
<1>19. FiringIsNew'
  BY <1>2, <1>3, <1>8, <1>10 DEF FiringIsNew, feedVars, Busy
<1>20. Recovering'
  <2>1. handler'["bookmap"].phase = "fired" => f = "bookmap" /\ handler'["bookmap"].pass = 1
    BY <1>2, <1>10 DEF Busy, Feeds
  <2>2. handler'["bookmap"].phase # "recorded"  BY <1>2, <1>10 DEF Busy, Feeds
  <2> QED  BY <2>1, <2>2 DEF Recovering
<1> QED  BY <1>9, <1>10, <1>11, <1>12, <1>13, <1>14, <1>15, <1>16, <1>17, <1>18, <1>19, <1>20 DEF IInv

LEMMA RecordEventsKept ==
  ASSUME IInv, NEW f \in Feeds, RecordEvents(f)
  PROVE  IInv'
<1> DEFINE t == closed[f]
<1>1. /\ handler' \in [Feeds -> Handlers]
      /\ handler'[f] = [handler[f] EXCEPT !.phase = "recorded"]
      /\ \A g \in Feeds \ {f} : handler'[g] = handler[g]
  <2> DEFINE h == [handler[f] EXCEPT !.phase = "recorded"]
  <2>1. handler \in [Feeds -> Handlers]  BY DEF IInv, TypeOK, Handlers
  <2>2. h \in Handlers  BY <2>1 DEF Handlers
  <2>3. handler' = [handler EXCEPT ![f] = h]  BY <2>1 DEF RecordEvents, Handlers
  <2> QED  BY <2>1, <2>2, <2>3
<1>2. /\ handler[f].phase = "fired"
      /\ handler'[f].phase = "recorded" /\ handler'[f].pass = handler[f].pass
      /\ handler'[f].met = handler[f].met
      /\ t \in Bars /\ \A g \in Feeds : closed[g] <= t
      /\ \A g \in Feeds : g # f => handler'[g] = handler[g] /\ ~Busy(g) /\ ~Busy(g)'
  <2>1. handler[f].phase = "fired"  BY DEF RecordEvents
  <2>2. handler[f] \in Handlers  BY DEF IInv, TypeOK, Handlers
  <2>3. \A g \in Feeds : g # f => handler'[g] = handler[g] /\ ~Busy(g)
    BY <1>1, <2>1 DEF IInv, OneEvaluates, Busy
  <2> QED  BY <1>1, <2>1, <2>2, <2>3 DEF IInv, Lag, Busy, Handlers
<1>3. /\ UNCHANGED <<definitionVars, fed, armed, minBar, feedVars, firing, disturbances>>
      /\ events' = [a \in Alerts |-> [events[a] EXCEPT ![t] = IF a \in firing THEN @ + 1 ELSE @]]
      /\ since' = [a \in Alerts |-> [since[a] EXCEPT ![t] = IF a \in firing THEN @ + 1 ELSE @]]
      /\ shots' = [a \in Alerts |-> IF a \in firing /\ ~engine[a].repeat THEN shots[a] - 1 ELSE shots[a]]
  BY DEF RecordEvents
<1>4. \A a \in Alerts, u \in Bars :
        /\ events[a][u] \in Nat /\ since[a][u] \in Nat
        /\ events'[a][u] = IF a \in firing /\ u = t THEN events[a][u] + 1 ELSE events[a][u]
        /\ since'[a][u] = IF a \in firing /\ u = t THEN since[a][u] + 1 ELSE since[a][u]
  BY <1>3 DEF IInv, TypeOK
<1>5. \A a \in firing : /\ a \in Alerts /\ row[a] \in Definitions /\ row[a].enabled
                        /\ engine[a].repeat = row[a].repeat
  <2> SUFFICES ASSUME NEW a \in firing
               PROVE  /\ a \in Alerts /\ row[a] \in Definitions /\ row[a].enabled
                      /\ engine[a].repeat = row[a].repeat
    OBVIOUS
  <2>1. a \in Alerts /\ row[a] \in Definitions \cup {Absent}  BY DEF IInv, TypeOK
  <2>2. Firing  BY <1>2 DEF Firing
  <2>3. /\ row[a].enabled
        /\ engine[a] = IF row[a].repeat THEN row[a] ELSE [row[a] EXCEPT !.enabled = FALSE]
    BY <2>1, <2>2 DEF IInv, CopiesAgree
  <2> QED  BY <2>1, <2>3, DefinitionFacts
<1>6. \A a \in firing :
        /\ since[a][t] = 0
        /\ row[a].type \in {"gate", "mgann"} => t \in fed[a]
        /\ row[a].type = "gate" => ~armed[a]
        /\ row[a].type = "supertrend" => events[a][t] = 0
  BY <1>2 DEF IInv, FiringIsNew
<1>7. TypeOK'
  <2>1. events' \in [Alerts -> [Bars -> Nat]]
    <3> SUFFICES ASSUME NEW a \in Alerts
                 PROVE  [events[a] EXCEPT ![t] = IF a \in firing THEN @ + 1 ELSE @] \in [Bars -> Nat]
      BY <1>3
    <3> QED  BY <1>2 DEF IInv, TypeOK
  <2>2. since' \in [Alerts -> [Bars -> Nat]]
    <3> SUFFICES ASSUME NEW a \in Alerts
                 PROVE  [since[a] EXCEPT ![t] = IF a \in firing THEN @ + 1 ELSE @] \in [Bars -> Nat]
      BY <1>3
    <3> QED  BY <1>2 DEF IInv, TypeOK
  <2>3. shots' \in [Alerts -> Int]  BY <1>3 DEF IInv, TypeOK
  <2> QED  BY <1>1, <1>3, <2>1, <2>2, <2>3 DEF IInv, TypeOK, Handlers, definitionVars, feedVars
<1>8. OneEvaluates'
  BY <1>2 DEF OneEvaluates
<1>9. Passes'
  BY <1>2 DEF IInv, Passes, Busy
<1>10. Lag'
  BY <1>2, <1>3 DEF IInv, Lag, feedVars
<1>11. OnlyClosedBars' /\ StatesWithinContract'
  BY <1>3 DEF IInv, OnlyClosedBars, StatesWithinContract, feedVars, definitionVars
<1>12. CopiesAgree'
  <2>1. Firing /\ Firing'  BY <1>2 DEF Firing
  <2> QED  BY <1>3, <2>1 DEF IInv, CopiesAgree, definitionVars
<1>13. Credit'
  <2>1. Torn = {}  BY <1>2 DEF Torn, Busy
  <2>2. Torn' = {a \in firing : ~row[a].repeat}  BY <1>2, <1>3, <1>5 DEF Torn, definitionVars
  <2>3. \A a \in Alerts : shots[a] \in Int /\ shots[a] >= 0 /\ (row[a].enabled => shots[a] >= 1)
    BY <2>1 DEF IInv, TypeOK, Credit
  <2>4. \A a \in Alerts : shots'[a] = IF a \in firing /\ ~row[a].repeat THEN shots[a] - 1 ELSE shots[a]
    BY <1>3, <1>5
  <2> QED  BY <1>3, <1>5, <2>2, <2>3, <2>4 DEF Credit, definitionVars
<1>14. Names'
  <2>1. ASSUME NEW a \in Alerts, row[a] = Absent
        PROVE  events'[a] = Zero
    <3>1. a \notin firing  BY <1>5, <2>1, DefinitionFacts DEF IInv, TypeOK
    <3>2. events[a] = Zero  BY <2>1 DEF IInv, Names
    <3>3. events'[a] = [events[a] EXCEPT ![t] = @]  BY <1>3, <3>1
    <3> QED  BY <3>2, <3>3 DEF Zero
  <2> QED  BY <1>3, <2>1 DEF IInv, Names, definitionVars
<1>15. OncePerBar'
  BY <1>3, <1>4, <1>6 DEF IInv, OncePerBar, TypeOK, definitionVars
<1>16. FiredAreFed'
  BY <1>2, <1>3, <1>4, <1>6 DEF IInv, FiredAreFed, Passed, Bars, definitionVars
<1>17. FiringIsNew'
  BY <1>2 DEF FiringIsNew, Busy
<1>18. Recovering'
  <2> SUFFICES ASSUME f = "bookmap", NEW a \in handler[f].met, handler[f].pass = 2, t \in cached,
                      engine[a].enabled, engine[a].type = "mgann"
               PROVE  events'[a][t] > 0
    BY <1>2, <1>3 DEF Recovering, Busy, Feeds, feedVars, definitionVars
  <2>1. a \in Alerts  BY DEF IInv, TypeOK
  <2>2. a \in firing \/ events[a][t] > 0  BY <1>2 DEF IInv, Recovering
  <2> QED  BY <1>2, <1>4, <2>1, <2>2
<1> QED  BY <1>7, <1>8, <1>9, <1>10, <1>11, <1>12, <1>13, <1>14, <1>15, <1>16, <1>17, <1>18 DEF IInv

LEMMA PersistEnabledKept ==
  ASSUME IInv, NEW f \in Feeds, PersistEnabled(f)
  PROVE  IInv'
<1> DEFINE h == IF f = "bookmap" /\ handler[f].pass = 1
                THEN [handler[f] EXCEPT !.phase = "checked"] ELSE Idle
<1>1. /\ handler' \in [Feeds -> Handlers] /\ handler'[f] = h
      /\ \A g \in Feeds \ {f} : handler'[g] = handler[g]
  <2>1. handler \in [Feeds -> Handlers]  BY DEF IInv, TypeOK, Handlers
  <2>2. h \in Handlers  BY <2>1 DEF Handlers, Idle
  <2>3. handler' = [handler EXCEPT ![f] = h]  BY DEF PersistEnabled
  <2> QED  BY <2>1, <2>2, <2>3
<1>2. /\ handler[f].phase = "recorded"
      /\ handler'[f] = Idle \/ (f = "bookmap" /\ handler'[f].phase = "checked" /\ handler'[f].pass = 1)
      /\ closed[f] \in Bars /\ \A g \in Feeds : closed[g] <= closed[f]
      /\ \A g \in Feeds : g # f => handler'[g] = handler[g] /\ ~Busy(g) /\ ~Busy(g)'
  <2>1. handler[f].phase = "recorded" /\ handler[f] \in Handlers
    BY DEF PersistEnabled, IInv, TypeOK, Handlers
  <2>2. \A g \in Feeds : g # f => handler'[g] = handler[g] /\ ~Busy(g)
    BY <1>1, <2>1 DEF IInv, OneEvaluates, Busy
  <2>3. handler'[f] = Idle \/ (f = "bookmap" /\ handler'[f].phase = "checked" /\ handler'[f].pass = 1)
    <3>1. CASE f = "bookmap" /\ handler[f].pass = 1
      <4>1. handler'[f] = [handler[f] EXCEPT !.phase = "checked"]  BY <1>1, <3>1
      <4> QED  BY <2>1, <3>1, <4>1 DEF Handlers
    <3>2. CASE ~(f = "bookmap" /\ handler[f].pass = 1)
      <4>1. h = Idle  BY <3>2, Zenon
      <4> QED  BY <1>1, <4>1
    <3> QED  BY <3>1, <3>2
  <2>4. closed[f] \in Bars /\ \A g \in Feeds : closed[g] <= closed[f]
    BY <2>1 DEF IInv, Lag
  <2> QED  BY <2>1, <2>2, <2>3, <2>4 DEF Busy
<1>3. /\ UNCHANGED <<engine, patch, created, detectorVars, feedVars, events, shots, disturbances>>
      /\ firing' = {}
      /\ row' = [a \in Alerts |->
           IF a \in firing /\ ~engine[a].repeat /\ row[a] # Absent
           THEN [row[a] EXCEPT !.enabled = engine[a].enabled] ELSE row[a]]
  BY DEF PersistEnabled
<1>4. \A a \in Alerts : /\ row[a] \in Definitions \cup {Absent}
                        /\ engine[a] \in Definitions \cup {Absent}
                        /\ row'[a] = engine[a] /\ engine[a].type = row[a].type
                        /\ engine[a].enabled => row[a].enabled /\ a \notin Torn
  <2> SUFFICES ASSUME NEW a \in Alerts
               PROVE  /\ row[a] \in Definitions \cup {Absent}
                      /\ engine[a] \in Definitions \cup {Absent}
                      /\ row'[a] = engine[a] /\ engine[a].type = row[a].type
                      /\ engine[a].enabled => row[a].enabled /\ a \notin Torn
    OBVIOUS
  <2>1. row[a] \in Definitions \cup {Absent} /\ engine[a] \in Definitions \cup {Absent}
    BY DEF IInv, TypeOK
  <2>2. Firing  BY <1>2 DEF Firing
  <2>3. CASE a \notin firing
    BY <1>3, <2>1, <2>3 DEF IInv, CopiesAgree, Torn
  <2>4. CASE a \in firing
    <3>1. /\ row[a].enabled
          /\ engine[a] = IF row[a].repeat THEN row[a] ELSE [row[a] EXCEPT !.enabled = FALSE]
      BY <2>2, <2>4 DEF IInv, CopiesAgree
    <3>2. row[a] # Absent /\ engine[a].repeat = row[a].repeat /\ engine[a].type = row[a].type
      BY <2>1, <3>1, DefinitionFacts
    <3>3. CASE row[a].repeat
      BY <1>3, <2>1, <3>1, <3>2, <3>3 DEF Torn
    <3>4. CASE ~row[a].repeat
      <4>1. engine[a].enabled = FALSE  BY <2>1, <3>1, <3>4, DefinitionFacts
      <4> QED  BY <1>3, <2>1, <2>4, <3>1, <3>2, <3>4, <4>1
    <3> QED  BY <3>3, <3>4
  <2> QED  BY <2>3, <2>4
<1>5. TypeOK'
  <2>1. row' \in [Alerts -> Definitions \cup {Absent}]  BY <1>3, <1>4
  <2> QED  BY <1>1, <1>3, <2>1 DEF IInv, TypeOK, Handlers, detectorVars, feedVars
<1>6. OneEvaluates'
  BY <1>2 DEF OneEvaluates
<1>7. Passes' /\ Lag'
  BY <1>2, <1>3 DEF IInv, Passes, Lag, Busy, Idle, feedVars
<1>8. OnlyClosedBars' /\ StatesWithinContract'
  BY <1>3 DEF IInv, OnlyClosedBars, StatesWithinContract, detectorVars, feedVars
<1>9. CopiesAgree'
  BY <1>3, <1>4 DEF CopiesAgree
<1>10. Credit'
  BY <1>3, <1>4 DEF IInv, Credit, Torn
<1>11. Names' /\ OncePerBar'
  <2>1. \A a \in Alerts : row'[a].type = row[a].type /\ (row'[a] = Absent <=> row[a] = Absent)
    <3>1. \A d \in Definitions \cup {Absent} : d # Absent <=> d.type # "none"  BY DefinitionFacts
    <3> QED  BY <1>4, <3>1
  <2> QED  BY <1>3, <2>1 DEF IInv, Names, OncePerBar, detectorVars
<1>12. FiredAreFed'
  BY <1>3, <1>4 DEF IInv, FiredAreFed, Passed, detectorVars
<1>13. FiringIsNew'
  BY <1>3 DEF FiringIsNew
<1>14. Recovering'
  BY <1>2 DEF Recovering, Busy, Feeds, Idle
<1> QED  BY <1>5, <1>6, <1>7, <1>8, <1>9, <1>10, <1>11, <1>12, <1>13, <1>14 DEF IInv

LEMMA SecondPass ==
  ASSUME NEW r \in Handlers
  PROVE  [r EXCEPT !.phase = "fired", !.pass = 2] \in Handlers
<1> DEFINE q == [r EXCEPT !.phase = "fired"]
<1>1. q \in Handlers  BY DEF Handlers
<1>2. [r EXCEPT !.phase = "fired", !.pass = 2] = [q EXCEPT !.pass = 2]  BY DEF Handlers
<1> HIDE DEF q
<1>3. [q EXCEPT !.pass = 2] \in Handlers  BY <1>1 DEF Handlers
<1> QED  BY <1>2, <1>3

LEMMA ReconcileMgannKept ==
  ASSUME IInv, ReconcileMgann
  PROVE  IInv'
<1> DEFINE t == closed["bookmap"]
           rebuilt == {a \in Alerts : engine[a].enabled /\ engine[a].type = "mgann" /\ t \in cached}
           fired == {a \in rebuilt : a \in handler["bookmap"].met /\ events[a][t] = 0}
           h == [handler["bookmap"] EXCEPT !.phase = "fired", !.pass = 2]
<1>1. /\ handler' \in [Feeds -> Handlers] /\ handler'["bookmap"] = h
      /\ \A g \in Feeds \ {"bookmap"} : handler'[g] = handler[g]
  <2>1. handler \in [Feeds -> Handlers] /\ "bookmap" \in Feeds  BY DEF IInv, TypeOK, Handlers, Feeds
  <2>2. h \in Handlers
    <3>1. handler["bookmap"] \in Handlers  BY <2>1
    <3> QED  BY <3>1, SecondPass
  <2>3. handler' = [handler EXCEPT !["bookmap"] = h]  BY <2>1 DEF ReconcileMgann, Handlers
  <2> QED  BY <2>1, <2>2, <2>3
<1>2. /\ "bookmap" \in Feeds /\ handler["bookmap"].phase = "checked"
      /\ handler'["bookmap"].phase = "fired" /\ handler'["bookmap"].pass = 2
      /\ handler'["bookmap"].met = handler["bookmap"].met
      /\ t \in Bars /\ \A g \in Feeds : closed[g] <= t
      /\ \A g \in Feeds : g # "bookmap" => handler'[g] = handler[g] /\ ~Busy(g) /\ ~Busy(g)'
  <2>1. "bookmap" \in Feeds /\ handler["bookmap"].phase = "checked" /\ handler["bookmap"] \in Handlers
    BY DEF ReconcileMgann, IInv, TypeOK, Handlers, Feeds
  <2>2. \A g \in Feeds : g # "bookmap" => handler'[g] = handler[g] /\ ~Busy(g)
    BY <1>1, <2>1 DEF IInv, OneEvaluates, Busy
  <2> QED  BY <1>1, <2>1, <2>2 DEF IInv, Lag, Busy, Handlers
<1>3. /\ UNCHANGED <<row, patch, created, armed, minBar, since, feedVars, events, shots, disturbances>>
      /\ fed' = [a \in Alerts |-> IF a \in rebuilt THEN {u \in cached : u <= t} ELSE fed[a]]
      /\ firing' = fired /\ Disarm(fired)
  BY DEF ReconcileMgann
<1>4. \A a \in Alerts : engine[a] = row[a] /\ row[a] \in Definitions \cup {Absent}
  BY <1>2 DEF IInv, TypeOK, CopiesAgree, Firing, Busy
<1>5. \A a \in fired : /\ a \in Alerts /\ row[a] \in Definitions /\ row[a].enabled
                       /\ row[a].type = "mgann" /\ t \in cached /\ since[a][t] = 0 /\ t \in fed'[a]
  <2> SUFFICES ASSUME NEW a \in fired
               PROVE  /\ a \in Alerts /\ row[a] \in Definitions /\ row[a].enabled
                      /\ row[a].type = "mgann" /\ t \in cached /\ since[a][t] = 0 /\ t \in fed'[a]
    OBVIOUS
  <2>1. since[a][t] \in Nat /\ events[a][t] \in Nat /\ since[a][t] <= events[a][t]
    BY <1>2 DEF IInv, TypeOK, FiredAreFed
  <2>2. row[a] \in Definitions /\ row[a].enabled /\ row[a].type = "mgann"
    BY <1>4, DefinitionFacts
  <2>3. t \in fed'[a]  BY <1>2, <1>3 DEF Bars
  <2> QED  BY <2>1, <2>2, <2>3
<1>6. /\ engine' \in [Alerts -> Definitions \cup {Absent}]
      /\ \A a \in Alerts : engine'[a] = IF a \in fired /\ ~row[a].repeat
                                        THEN [row[a] EXCEPT !.enabled = FALSE] ELSE row[a]
      /\ \A a \in Alerts : engine'[a].type = row[a].type /\ (engine'[a].enabled => row[a].enabled)
  BY <1>3, <1>4, <1>5, DefinitionFacts DEF Disarm
<1>7. TypeOK'
  <2>1. fed' \in [Alerts -> SUBSET Bars]  BY <1>3 DEF IInv, TypeOK
  <2> QED  BY <1>1, <1>3, <1>6, <2>1 DEF IInv, TypeOK, Handlers, feedVars
<1>8. OneEvaluates'
  BY <1>2 DEF OneEvaluates
<1>9. Passes' /\ Lag'
  BY <1>2, <1>3 DEF IInv, Passes, Lag, Busy, feedVars
<1>10. OnlyClosedBars'
  BY <1>2, <1>3 DEF IInv, OnlyClosedBars, feedVars
<1>11. StatesWithinContract'
  BY <1>3, <1>4, <1>6 DEF IInv, StatesWithinContract
<1>12. CopiesAgree'
  BY <1>2, <1>3, <1>5, <1>6 DEF CopiesAgree, Firing
<1>13. Credit'
  <2>1. Torn = {} /\ Torn' = {}  BY <1>2 DEF Torn, Busy
  <2> QED  BY <1>3, <2>1 DEF IInv, Credit
<1>14. Names' /\ OncePerBar'
  BY <1>3 DEF IInv, Names, OncePerBar
<1>15. FiredAreFed'
  <2> SUFFICES ASSUME NEW a \in Alerts, NEW u \in Bars
               PROVE  /\ since[a][u] <= events[a][u]
                      /\ since[a][u] > 0 /\ row[a].type \in {"gate", "mgann"} => Passed(a, u)'
                      /\ since[a][u] > 0 /\ row[a].type = "gate" /\ (\A v \in fed'[a] : v <= u) => ~armed[a]
    BY <1>3 DEF FiredAreFed
  <2>1. CASE a \in rebuilt
    <3>1. row[a].type = "mgann" /\ t \in fed'[a]  BY <1>2, <1>3, <1>4, <2>1 DEF Bars
    <3>2. ASSUME Passed(a, u) PROVE u <= t
      <4>1. PICK v \in fed[a] : u <= v  BY <3>2 DEF Passed
      <4>2. PICK g \in Feeds : v <= closed[g]  BY <4>1 DEF IInv, OnlyClosedBars
      <4> QED  BY <1>2, <4>1, <4>2 DEF IInv, TypeOK, Bars
    <3> QED  BY <3>1, <3>2 DEF IInv, FiredAreFed, Passed
  <2>2. CASE a \notin rebuilt
    <3>1. fed'[a] = fed[a]  BY <1>3, <2>2
    <3> QED  BY <3>1 DEF IInv, FiredAreFed, Passed
  <2> QED  BY <2>1, <2>2
<1>16. FiringIsNew'
  <2> SUFFICES ASSUME NEW f \in Feeds, NEW a \in fired, handler'[f].phase = "fired"
               PROVE  /\ since'[a][closed'[f]] = 0
                      /\ row'[a].type \in {"gate", "mgann"} => closed'[f] \in fed'[a]
                      /\ row'[a].type = "gate" => ~armed'[a]
                      /\ row'[a].type = "supertrend" => events'[a][closed'[f]] = 0
    BY <1>3 DEF FiringIsNew
  <2>1. f = "bookmap"  BY <1>2 DEF Busy
  <2> QED  BY <1>3, <1>5, <2>1 DEF feedVars
<1>17. Recovering'
  <2> SUFFICES ASSUME NEW a \in handler["bookmap"].met, t \in cached, engine'[a].enabled,
                      engine'[a].type = "mgann"
               PROVE  a \in fired \/ events[a][t] > 0
    BY <1>2, <1>3 DEF Recovering, feedVars
  <2>1. a \in Alerts /\ events[a][t] \in Nat  BY <1>2 DEF IInv, TypeOK
  <2> QED  BY <1>4, <1>6, <2>1
<1> QED  BY <1>7, <1>8, <1>9, <1>10, <1>11, <1>12, <1>13, <1>14, <1>15, <1>16, <1>17 DEF IInv

LEMMA RestartKept ==
  ASSUME IInv, Restart
  PROVE  IInv'
<1>1. /\ disturbances' = disturbances + 1 /\ engine' = row
      /\ shots' = [a \in Alerts |-> IF a \in Torn THEN shots[a] + 1 ELSE shots[a]]
      /\ fed' = [a \in Alerts |-> WarmBars(row[a], cached, 0)]
      /\ armed' = [a \in Alerts |-> TRUE] /\ minBar' = 0
      /\ since' = [a \in Alerts |-> Zero] /\ patch' = [a \in Alerts |-> Absent]
      /\ remembered' = [f \in Feeds |-> {}] /\ handler' = [f \in Feeds |-> Idle] /\ firing' = {}
      /\ activeFeed' = "none" /\ switching' = FALSE
      /\ UNCHANGED <<row, created, cached, closed, switches, events>>
  BY DEF Restart
<1>2. /\ handler' \in [Feeds -> Handlers] /\ \A f \in Feeds : handler'[f] = Idle /\ ~Busy(f)'
  BY <1>1 DEF Handlers, Idle, Busy
<1>3. \A a \in Alerts : fed'[a] \subseteq cached
  BY <1>1 DEF WarmBars
<1>4. /\ fed' \in [Alerts -> SUBSET Bars] /\ since' \in [Alerts -> [Bars -> Nat]]
      /\ shots' \in [Alerts -> Int] /\ patch' \in [Alerts -> Definitions \cup {Absent}]
  BY <1>1, <1>3 DEF IInv, TypeOK, Zero
<1>5. TypeOK'
  <2>1. /\ armed' \in [Alerts -> BOOLEAN] /\ remembered' \in [Feeds -> SUBSET Bars]
        /\ disturbances' \in Nat /\ firing' \subseteq Alerts /\ minBar' \in Nat
    BY <1>1 DEF IInv, TypeOK
  <2>2. engine' \in [Alerts -> Definitions \cup {Absent}]
    BY <1>1 DEF IInv, TypeOK
  <2> QED  BY <1>1, <1>2, <1>4, <2>1, <2>2 DEF IInv, TypeOK, Handlers
<1>6. OneEvaluates' /\ Passes' /\ Lag' /\ FiringIsNew' /\ CopiesAgree' /\ Recovering'
  BY <1>1, <1>2 DEF IInv, OneEvaluates, Passes, Lag, FiringIsNew, CopiesAgree, Recovering, Idle, Feeds
<1>7. OnlyClosedBars'
  BY <1>1, <1>3 DEF IInv, OnlyClosedBars
<1>8. StatesWithinContract'
  <2>1. \A a \in Alerts : \A t \in fed'[a] : t \in Bars /\ t >= 0  BY <1>4 DEF Bars
  <2> QED  BY <1>1, <2>1 DEF StatesWithinContract
<1>9. Credit'
  BY <1>1 DEF IInv, TypeOK, Credit, Torn
<1>10. Names'
  BY <1>1 DEF IInv, Names
<1>11. FiredAreFed' /\ OncePerBar'
  BY <1>1 DEF IInv, TypeOK, FiredAreFed, OncePerBar, Zero
<1> QED  BY <1>5, <1>6, <1>7, <1>8, <1>9, <1>10, <1>11 DEF IInv

LEMMA InitEstablishes == Init => IInv
<1> SUFFICES ASSUME Init PROVE IInv
  OBVIOUS
<1> USE DEF Init
<1>1. TypeOK
  <2>1. Zero \in [Bars -> Nat]  BY DEF Zero
  <2>2. handler \in [Feeds -> Handlers]  BY DEF Handlers, Idle
  <2>3. closed \in [Feeds -> 0 .. MaxBars]  BY AlertsAssumption
  <2>4. /\ row \in [Alerts -> Definitions \cup {Absent}]
        /\ engine \in [Alerts -> Definitions \cup {Absent}]
        /\ patch \in [Alerts -> Definitions \cup {Absent}]
    OBVIOUS
  <2>5. /\ fed \in [Alerts -> SUBSET Bars] /\ armed \in [Alerts -> BOOLEAN]
        /\ events \in [Alerts -> [Bars -> Nat]] /\ since \in [Alerts -> [Bars -> Nat]]
        /\ remembered \in [Feeds -> SUBSET Bars] /\ shots \in [Alerts -> Int]
    BY <2>1
  <2>6. /\ created \subseteq Alerts /\ firing \subseteq Alerts /\ minBar \in Nat /\ cached \subseteq Bars
        /\ {disturbances, switches} \subseteq Nat
    OBVIOUS
  <2>7. activeFeed \in Feeds \cup {"none"} /\ switching \in BOOLEAN
    BY Zenon
  <2> HIDE DEF Init
  <2> QED  BY <2>2, <2>3, <2>4, <2>5, <2>6, <2>7 DEF TypeOK, Handlers
<1>2. OneEvaluates /\ Passes /\ Lag /\ OnlyClosedBars /\ CopiesAgree /\ Credit /\ Names
  BY DEF OneEvaluates, Passes, Lag, OnlyClosedBars, CopiesAgree, Credit, Names, Busy, Idle, Absent
<1>3. FiredAreFed /\ FiringIsNew /\ OncePerBar /\ StatesWithinContract
  BY DEF FiredAreFed, FiringIsNew, OncePerBar, StatesWithinContract, Zero
<1>4. Recovering
  BY DEF Recovering, Idle, Feeds
<1> QED  BY <1>1, <1>2, <1>3, <1>4 DEF IInv

LEMMA StutterKept ==
  ASSUME IInv, UNCHANGED vars
  PROVE  IInv'
BY DEF IInv, TypeOK, OneEvaluates, Passes, Lag, OnlyClosedBars, CopiesAgree, Credit, Names,
       FiredAreFed, FiringIsNew, OncePerBar, StatesWithinContract, Recovering, Busy, Firing, Torn,
       Passed, vars, definitionVars, detectorVars, feedVars, evaluationVars

LEMMA StepKeeps == IInv /\ [Next]_vars => IInv'
<1> SUFFICES ASSUME IInv, [Next]_vars PROVE IInv'
  OBVIOUS
<1>1. ASSUME NEW a \in Alerts, NEW d \in Definitions, Create(a, d) PROVE IInv'
  BY <1>1, CreateKept
<1>2. ASSUME NEW a \in Alerts, StartPatch(a) PROVE IInv'
  BY <1>2, StartPatchKept
<1>3. ASSUME NEW a \in Alerts, NEW new \in Definitions, NEW named \in SUBSET {"enabled", "repeat"},
             FinishPatch(a, new, named)
      PROVE  IInv'
  BY <1>3, FinishPatchKept
<1>4. ASSUME NEW a \in Alerts, Delete(a) PROVE IInv'
  BY <1>4, DeleteKept
<1>5. ASSUME NEW f \in Feeds, NEW live \in BOOLEAN, CloseBar(f, live) PROVE IInv'
  BY <1>5, CloseBarKept
<1>6. ASSUME NEW f \in Feeds, StoreBar(f) \/ DropBar(f) \/ StoreForming(f) PROVE IInv'
  BY <1>6, StoreBarKept, DropBarKept, StoreFormingKept
<1>7. ASSUME NEW f \in Feeds, NEW met \in SUBSET Alerts, Evaluate(f, met) PROVE IInv'
  BY <1>7, EvaluateKept
<1>8. ASSUME NEW f \in Feeds, RecordEvents(f) \/ PersistEnabled(f) PROVE IInv'
  BY <1>8, RecordEventsKept, PersistEnabledKept
<1>9. ASSUME NEW f \in Feeds \cup {"none"}, SwitchFeed(f) PROVE IInv'
  BY <1>9, SwitchFeedKept
<1>10. ASSUME NEW building \in BOOLEAN, FinishSwitch(building) PROVE IInv'
  BY <1>10, FinishSwitchKept
<1>11. CASE Roll \/ ReconcileMgann \/ Restart
  BY <1>11, RollKept, ReconcileMgannKept, RestartKept
<1>12. CASE UNCHANGED vars
  BY <1>12, StutterKept
<1> QED  BY <1>1, <1>2, <1>3, <1>4, <1>5, <1>6, <1>7, <1>8, <1>9, <1>10, <1>11, <1>12 DEF Next

LEMMA Inductive == Spec => []IInv
BY InitEstablishes, StepKeeps, PTL DEF Spec

(* An alert that is to fire once never fires oftener than it was enabled,  *)
(* crashes between its event and its flag and PATCHes that wrote back a    *)
(* stale row allowed for (evaluate, update_alert).                         *)
THEOREM FiresNoOftenerThanArmed == Spec => []OneShotFires
<1>1. IInv => OneShotFires  BY DEF IInv, Credit, OneShotFires
<1> QED  BY <1>1, Inductive, PTL

(* A detector fires once for a bar until it is reset, and Supertrend once  *)
(* for good, whichever feeds deliver the bar (_eval_supertrend, _bar_gate, *)
(* reconcile_mgann_closed_bar).                                            *)
THEOREM FiresOncePerBar == Spec => []OncePerBar
BY Inductive, PTL DEF IInv

(* Between evaluations the engine holds what the rows say, whatever was    *)
(* edited, deleted, fired or restarted (upsert, _persist_enabled).         *)
THEOREM EngineAndStoreAgree == Spec => []EngineMatchesStore
<1>1. IInv => EngineMatchesStore
  <2> SUFFICES ASSUME IInv, ~Evaluating PROVE engine = row
    BY DEF EngineMatchesStore
  <2>1. \A a \in Alerts : engine[a] = row[a]
    BY DEF IInv, CopiesAgree, Firing, Evaluating
  <2> QED  BY <2>1 DEF IInv, TypeOK
<1> QED  BY <1>1, Inductive, PTL

(* No feed switch, edit or evaluation brings a bar from before a roll into *)
(* a Supertrend state (reset_supertrend, _warm_supertrend_alert).          *)
THEOREM NoStateJoinsContracts == Spec => []StatesWithinContract
BY Inductive, PTL DEF IInv

(* When the evaluation of a Bookmap close ends, an mGann signal on it is   *)
(* in the audit log (reconcile_mgann_closed_bar).                          *)
THEOREM SignalsAreRecovered == Spec => MgannRecovered
<1> DEFINE Recovered ==
      \A a \in handler["bookmap"].met :
        Finishes("bookmap") /\ closed["bookmap"] \in cached /\ engine[a].enabled /\ engine[a].type = "mgann"
          => events[a][closed["bookmap"]] > 0
<1>1. IInv /\ [Next]_vars => [Recovered]_vars
  <2> SUFFICES ASSUME IInv, Next, Finishes("bookmap"), NEW a \in handler["bookmap"].met,
                      closed["bookmap"] \in cached, engine[a].enabled, engine[a].type = "mgann"
               PROVE  events[a][closed["bookmap"]] > 0
    OBVIOUS
  <2>1. /\ Evaluating /\ "bookmap" \in Feeds /\ handler["bookmap"] \in Handlers
        /\ Busy("bookmap") /\ handler'["bookmap"].phase = "idle" /\ disturbances' = disturbances
    BY DEF Finishes, Evaluating, Busy, Feeds, Idle, IInv, TypeOK, Handlers
  <2>2. ~Restart
    BY <2>1 DEF Restart, IInv, TypeOK
  <2>3. ~ReconcileMgann
    <3> SUFFICES ASSUME ReconcileMgann PROVE FALSE
      OBVIOUS
    <3>1. handler'["bookmap"].phase = "fired"  BY <2>1 DEF ReconcileMgann, IInv, TypeOK, Handlers
    <3> QED  BY <2>1, <3>1
  <2>4. ASSUME NEW f \in Feeds, RecordEvents(f) PROVE FALSE
    <3>1. f = "bookmap"  BY <2>1, <2>4 DEF RecordEvents, IInv, OneEvaluates, Busy
    <3>2. handler'["bookmap"].phase = "recorded"  BY <2>1, <2>4, <3>1 DEF RecordEvents, IInv, TypeOK, Handlers
    <3> QED  BY <2>1, <3>2
  <2>5. PICK f \in Feeds : PersistEnabled(f)
    BY <2>1, <2>2, <2>3, <2>4 DEF Next, Create, StartPatch, FinishPatch, Delete, CloseBar, StoreBar,
       DropBar, StoreForming, SwitchFeed, FinishSwitch, Roll, Evaluate
  <2>6. f = "bookmap" /\ handler["bookmap"].phase = "recorded"
    BY <2>1, <2>5 DEF PersistEnabled, IInv, OneEvaluates, Busy
  <2>7. handler["bookmap"].pass # 1
    <3> SUFFICES ASSUME handler["bookmap"].pass = 1 PROVE FALSE
      OBVIOUS
    <3>1. handler'["bookmap"].phase = "checked"
      BY <2>1, <2>5, <2>6 DEF PersistEnabled, IInv, TypeOK, Handlers
    <3> QED  BY <2>1, <3>1
  <2>8. handler["bookmap"].pass = 2
    BY <2>1, <2>7 DEF IInv, Passes
  <2> QED  BY <2>6, <2>8 DEF IInv, Recovering
<1> QED  BY <1>1, Inductive, PTL DEF Spec, MgannRecovered
==============================================================================
