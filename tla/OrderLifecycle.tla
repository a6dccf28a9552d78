---------------------------- MODULE OrderLifecycle ----------------------------
(***************************************************************************)
(* The life of an order between its row in the database and the broker:    *)
(* the REST handlers, the reconciliation, the GC-anchored sync, the 1R     *)
(* take profit, the SuperTrend trailing exit and the automatic mGann       *)
(* trades.                                                                 *)
(*                                                                         *)
(* A handler runs on a thread: "rest" is the event loop, which an order    *)
(* handler keeps until it returns; "engine" is the tick path, which awaits *)
(* one engine after the other; the loops have threads of their own.  Every *)
(* broker call and every database access is a step, and between two steps  *)
(* the other threads run.  A handler works on the copy of the row it read, *)
(* and writes the whole copy back.                                         *)
(***************************************************************************)
EXTENDS Broker

CONSTANTS
  Reconcilers, (* threads that reconcile: the loop, list_orders            *)
  Others,      (* further threads: subset of rest, engine, sync            *)
  Requests,    (* REST requests on an order the users make                 *)
  ManualKinds, (* kinds of order the users submit                          *)
  AutoKinds,   (* kinds of order the mGann engine submits                  *)
  MaxBars,     (* bound: closed bars                                       *)
  MaxRequests, (* bound: requests on an order, and passes of the sync      *)
  MaxFaults,   (* bound: mishaps up to a broker call that raises           *)
  MaxCrashes,  (* bound: mishaps up to a restart of the backend            *)
  None

ASSUME LifecycleAssumption ==
  /\ None \notin Orders
  /\ Reconcilers \cap {"rest", "engine", "sync"} = {}
  /\ Others \subseteq {"rest", "engine", "sync"}
  /\ Requests \subseteq {"cancel", "close", "patch", "trailing"}
  /\ ManualKinds \cup AutoKinds \subseteq {"market", "limit"}
  /\ {MaxBars, MaxRequests, MaxFaults, MaxCrashes} \subseteq Nat

Threads == Reconcilers \cup Others

VARIABLES
  row,      (* orders table                                                *)
  taken,    (* orders with the event that marks the 1R half as closed      *)
  armed,    (* orders with the event that marks the trailing as armed      *)
  rule,     (* supertrend_trailing table                                   *)
  bars,     (* closed bars so far                                          *)
  job,      (* what each thread is doing                                   *)
  halves,   (* history: 1R halves closed at the broker, by order           *)
  exits,    (* history: bars a trailing exit was sent for, by order        *)
  requests, (* requests on an order and passes of the sync                 *)
  faults,   (* broker calls that raised                                    *)
  crashes   (* restarts                                                    *)

brokerVars == <<pending, position, placed>>
storeVars == <<row, taken, armed, rule>>
historyVars == <<halves, exits>>
vars == <<brokerVars, storeVars, bars, job, historyVars, requests, faults, crashes>>

Live == {"pending_submit", "working", "filled", "sync_error"}
Final == {"rejected", "cancelled", "closed"}

(* kind: "market" or "limit", and stop orders behave like limit orders;    *)
(* source: "manual" (such an order has the 1R take profit and its trailing *)
(* switched on) or "auto"; order: the row has a broker_order_ticket; pos:  *)
(* broker_position_ticket.                                                 *)
NoRow == [status |-> "absent", lots |-> 0, kind |-> "limit", source |-> "manual",
          order |-> FALSE, pos |-> None]
Submitted(kind, source) == [NoRow EXCEPT !.status = "pending_submit", !.lots = Lots,
                                         !.kind = kind, !.source = source]

NoRule == [ticket |-> None, last |-> 0]

NoRows == [o \in Orders |-> NoRow]
NoRules == [o \in Orders |-> NoRule]

Idle == [op |-> "idle", at |-> "idle", key |-> None, mine |-> NoRow,
         todo |-> {}, rows |-> NoRows, rules |-> NoRules, listed |-> {},
         held |-> [o \in Orders |-> 0], lots |-> 0, bar |-> 0]

(* A handler of one order starts with the copy m of its row. *)
Handler(op, at, o, m) ==
  [Idle EXCEPT !.op = op, !.at = at, !.key = o, !.mine = m]

(* A pass over the orders S starts with copies of all rows. *)
Pass(op, at, S) == [Idle EXCEPT !.op = op, !.at = at, !.todo = S, !.rows = row]

(* The rest of a pass; with its last order the copies are forgotten. *)
After(j, o) ==
  IF j.todo = {o}
  THEN [j EXCEPT !.todo = {}, !.rows = NoRows, !.held = Idle.held, !.listed = {}]
  ELSE [j EXCEPT !.todo = @ \ {o}]

(* The next order of a pass, or the end of the handler. *)
Resume(j) == IF j.todo = {} THEN Idle ELSE [j EXCEPT !.at = "each"]

Becomes(t, j) == job' = [job EXCEPT ![t] = j]
Runs(t, ops, at) == job[t].op \in ops /\ job[t].at = at
StatusIs(m, s) == [m EXCEPT !.status = s]

Counted == requests < MaxRequests /\ requests' = requests + 1
Mishaps == faults + crashes
Raises == Mishaps < MaxFaults /\ faults' = faults + 1

Min2(a, b) == IF a < b THEN a ELSE b
Max2(a, b) == IF a > b THEN a ELSE b
(***************************************************************************)
(* Writing back.  update stores the whole copy, whatever the row has       *)
(* become in the meantime.                                                 *)
(***************************************************************************)

AfterSave(j) ==
  CASE j.op = "half"  -> [j EXCEPT !.at = "record"]
    [] j.op = "trail" -> [j EXCEPT !.at = "drop"]
    [] OTHER          -> Resume(j)

Save(t) ==
  /\ job[t].at = "write"
  /\ row' = [row EXCEPT ![job[t].key] = job[t].mine]
  /\ Becomes(t, AfterSave(job[t]))
  /\ UNCHANGED <<brokerVars, taken, armed, rule, bars, historyVars, requests, faults, crashes>>

(* The trailing rule goes before a REST close is written, after an exit is. *)
DropRule(t) ==
  /\ job[t].at = "drop"
  /\ rule' = [rule EXCEPT ![job[t].key] = NoRule]
  /\ Becomes(t, IF job[t].op = "close" THEN [job[t] EXCEPT !.at = "write"]
                ELSE Resume(job[t]))
  /\ UNCHANGED <<brokerVars, row, taken, armed, bars, historyVars, requests, faults, crashes>>

(***************************************************************************)
(* Placing an order: create_order, and _submit_for_signal of the engine.   *)
(***************************************************************************)

(* Mutant: the idempotency key is not looked up. *)
CreateRowUnchecked(t, o, m) ==
  /\ t \in Threads
  /\ job[t] = Idle
  /\ row' = [row EXCEPT ![o] = m]
  /\ Becomes(t, Handler("create", "call", o, m))
  /\ UNCHANGED <<brokerVars, taken, armed, rule, bars, historyVars, requests, faults, crashes>>

(* A key that has a row is not submitted again. *)
CreateRow(t, o, m) ==
  /\ t \in Threads
  /\ job[t] = Idle
  /\ row[o] = NoRow
  /\ row' = [row EXCEPT ![o] = m]
  /\ Becomes(t, Handler("create", "call", o, m))
  /\ UNCHANGED <<brokerVars, taken, armed, rule, bars, historyVars, requests, faults, crashes>>

CreateOrder(o) ==
  \E kind \in ManualKinds : CreateRow("rest", o, Submitted(kind, "manual"))

SubmitForSignal(o) ==
  \E kind \in AutoKinds : CreateRow("engine", o, Submitted(kind, "auto"))

(* The ticket of a market position is looked up, and may not be found. *)
Placed(o, m) ==
  IF m.kind = "market"
  THEN {[m EXCEPT !.status = "filled", !.pos = p] : p \in {o, None}}
  ELSE {[m EXCEPT !.status = "working", !.order = TRUE]}

(* place_order is accepted, refused, or raises with or without effect. *)
PlaceOrder(t) ==
  LET o == job[t].key
      mine == job[t].mine
      Answer(m) == Becomes(t, [job[t] EXCEPT !.at = "write", !.mine = m])
  IN
  /\ Runs(t, {"create"}, "call")
  /\ \/ Place(o, mine.kind) /\ (\E m \in Placed(o, mine) : Answer(m)) /\ UNCHANGED faults
     \/ Nothing /\ Answer(StatusIs(mine, "rejected")) /\ UNCHANGED faults
     \/ Raises /\ (Place(o, mine.kind) \/ Nothing) /\ Answer(StatusIs(mine, "rejected"))
  /\ UNCHANGED <<storeVars, bars, historyVars, requests, crashes>>

(***************************************************************************)
(* REST requests on an existing order.                                     *)
(***************************************************************************)

Request(op, at, o, n) ==
  /\ "rest" \in Threads
  /\ op \in Requests
  /\ job["rest"] = Idle
  /\ row[o] # NoRow
  /\ Counted
  /\ Becomes("rest", [Handler(op, at, o, row[o]) EXCEPT !.lots = n])
  /\ UNCHANGED <<brokerVars, storeVars, bars, historyVars, faults, crashes>>

CancelOrder(o) == Request("cancel", "check", o, 0)
CloseOrder(o) == \E n \in 1 .. row[o].lots : Request("close", "check", o, n)
PatchOrder(o) == Request("patch", "call", o, 0)

(* _broker_order_missing, _broker_position_missing *)
Missing(j) ==
  IF j.op = "cancel" THEN j.mine.order /\ j.key \notin pending
  ELSE j.mine.pos # None /\ position[j.mine.pos] = 0

Ended(j) ==
  IF j.op = "cancel"
  THEN [j EXCEPT !.at = "write", !.mine.status = "cancelled"]
  ELSE [j EXCEPT !.at = "drop", !.mine.status = "closed"]

(* Before the call and after one that failed, an order or position that is *)
(* missing at the broker ends the row; a listing that raises shows nothing *)
(* missing.                                                                *)
CheckMissing(t) ==
  LET Present == IF job[t].at = "check" THEN [job[t] EXCEPT !.at = "call"] ELSE Idle
  IN
  /\ job[t].at \in {"check", "recheck"}
  /\ \/ Becomes(t, IF Missing(job[t]) THEN Ended(job[t]) ELSE Present)
        /\ UNCHANGED faults
     \/ Raises /\ Becomes(t, Present)
  /\ UNCHANGED <<brokerVars, storeVars, bars, historyVars, requests, crashes>>

(* After a refused or raising call. *)
Failed(j) ==
  IF j.op \in {"cancel", "close"} THEN [j EXCEPT !.at = "recheck"] ELSE Resume(j)

CancelCall(t) ==
  LET j == job[t]
      possible == j.mine.order /\ j.key \in pending
  IN
  /\ Runs(t, {"cancel", "unfilled"}, "call")
  /\ \/ /\ possible /\ Remove(j.key)
        /\ Becomes(t, [j EXCEPT !.at = "write", !.mine.status = "cancelled"])
        /\ UNCHANGED faults
     \/ Nothing /\ Becomes(t, Failed(j)) /\ UNCHANGED faults
     \/ /\ Raises /\ Becomes(t, Failed(j))
        /\ Nothing \/ (possible /\ Remove(j.key))
  /\ UNCHANGED <<storeVars, bars, historyVars, requests, crashes>>

(* What an accepted close makes of the handler. *)
Closed(j) ==
  CASE j.op = "trail" -> [j EXCEPT !.at = "read"]
    [] j.op = "close" /\ j.lots = j.mine.lots -> Ended(j)
    [] OTHER -> [j EXCEPT !.at = "write", !.mine.lots = Max2(0, @ - j.lots)]

(* close_position is sent for a REST close, a 1R half or a trailing exit. *)
CloseCall(t) ==
  LET j == job[t]
      possible == j.mine.pos # None /\ position[j.mine.pos] >= j.lots
      Happens ==
        /\ possible
        /\ Reduce(j.mine.pos, j.lots)
        /\ halves' = IF j.op = "half" THEN [halves EXCEPT ![j.key] = @ + 1] ELSE halves
      NothingHappens == Nothing /\ UNCHANGED halves
  IN
  /\ Runs(t, {"close", "half", "trail"}, "call")
  /\ \/ Happens /\ Becomes(t, Closed(j)) /\ UNCHANGED faults
     \/ NothingHappens /\ Becomes(t, Failed(j)) /\ UNCHANGED faults
     \/ Raises /\ (Happens \/ NothingHappens) /\ Becomes(t, Failed(j))
  /\ exits' = IF j.op = "trail" THEN [exits EXCEPT ![j.key] = @ \cup {j.bar}] ELSE exits
  /\ UNCHANGED <<storeVars, bars, requests, crashes>>

(* modify_order is sent by a PATCH and by the anchored sync.  Refused, the *)
(* row shows a sync error; raised, only the PATCH writes it.               *)
ModifyCall(t) ==
  LET j == job[t]
      possible == IF j.mine.pos # None THEN position[j.mine.pos] > 0
                  ELSE j.mine.order /\ j.key \in pending
      Write(m) == Becomes(t, [j EXCEPT !.at = "write", !.mine = m])
  IN
  /\ Runs(t, {"patch", "sync"}, "call")
  /\ \/ possible /\ Write(j.mine) /\ UNCHANGED faults
     \/ Write(StatusIs(j.mine, "sync_error")) /\ UNCHANGED faults
     \/ Raises /\ IF j.op = "patch" THEN Write(StatusIs(j.mine, "sync_error"))
                  ELSE Becomes(t, Idle)
  /\ UNCHANGED <<brokerVars, storeVars, bars, historyVars, requests, crashes>>

(* enable_order_supertrend_trailing needs an open position of a manual     *)
(* order; the rule starts after the latest bar.                            *)
EnableTrailing(o) ==
  /\ row[o].source = "manual"
  /\ row[o].status \in {"filled", "sync_error"}
  /\ row[o].pos # None
  /\ position[row[o].pos] > 0
  /\ Request("trailing", "enable", o, 0)

StoreRule(t) ==
  /\ Runs(t, {"trailing"}, "enable")
  /\ rule' = [rule EXCEPT ![job[t].key] = [ticket |-> job[t].mine.pos, last |-> bars]]
  /\ Becomes(t, Idle)
  /\ UNCHANGED <<brokerVars, row, taken, armed, bars, historyVars, requests, faults, crashes>>

DisableTrailing(o) ==
  /\ "rest" \in Threads
  /\ "trailing" \in Requests
  /\ job["rest"] = Idle
  /\ Counted
  /\ rule' = [rule EXCEPT ![o] = NoRule]
  /\ UNCHANGED <<brokerVars, row, taken, armed, bars, job, historyVars, faults, crashes>>
(***************************************************************************)
(* A pass over the open orders of an account.  Its copies are read first;  *)
(* the broker's listings, where it needs them, later and one by one.       *)
(***************************************************************************)

Start(t, j) ==
  /\ job[t] = Idle
  /\ j.todo # {}
  /\ Becomes(t, j)
  /\ UNCHANGED <<brokerVars, storeVars, historyVars, faults, crashes>>

StartReconciliation(t) ==
  /\ t \in Reconcilers
  /\ Start(t, Pass("reconcile", "orders", {o \in Orders : row[o].status \in Live}))
  /\ UNCHANGED <<bars, requests>>

(* Mutant: positions are listed before orders. *)
ListOrdersLate(t) ==
  \/ /\ job[t].at = "orders"
     /\ Becomes(t, [job[t] EXCEPT !.at = "late", !.held = position])
     /\ UNCHANGED <<brokerVars, storeVars, bars, historyVars, requests, faults, crashes>>
  \/ /\ job[t].at = "late"
     /\ Becomes(t, [job[t] EXCEPT !.at = "each", !.listed = pending])
     /\ UNCHANGED <<brokerVars, storeVars, bars, historyVars, requests, faults, crashes>>

(* Orders are listed before positions: an order filled in between is in    *)
(* both, never in neither.                                                 *)
ListOrders(t) ==
  /\ job[t].at = "orders"
  /\ Becomes(t, [job[t] EXCEPT !.at = "positions", !.listed = pending])
  /\ UNCHANGED <<brokerVars, storeVars, bars, historyVars, requests, faults, crashes>>

ListPositions(t) ==
  /\ job[t].at = "positions"
  /\ Becomes(t, [job[t] EXCEPT !.at = "each", !.held = position])
  /\ UNCHANGED <<brokerVars, storeVars, bars, historyVars, requests, faults, crashes>>

(* A listing that raises ends the pass. *)
ListingFails(t) ==
  /\ job[t].at \in {"orders", "positions"}
  /\ Raises
  /\ Becomes(t, Idle)
  /\ UNCHANGED <<brokerVars, storeVars, bars, historyVars, requests, crashes>>

(* _match_broker_position: of the positions of the same volume the order's *)
(* own, known by the comment, else any other.                              *)
Match(o, m, held) ==
  LET alike == {p \in Orders : held[p] > 0 /\ held[p] = m.lots}
  IN  IF o \in alike THEN {o} ELSE IF alike = {} THEN {None} ELSE alike

(* The three repairs of run_account, each on the result of the one before; *)
(* p is the matched position, late tells that the grace time is over.      *)
FindTicket(o, m, p, late) ==
  IF m.status \in {"filled", "sync_error"} /\ m.pos = None
  THEN IF p # None THEN [m EXCEPT !.pos = p, !.status = "filled"]
       ELSE IF m.kind = "market" /\ late THEN StatusIs(m, "closed") ELSE m
  ELSE m

FindFill(o, m, p, listed) ==
  IF m.status \in {"working", "sync_error"} /\ m.order /\ m.pos = None /\ o \notin listed
  THEN IF p # None THEN [m EXCEPT !.pos = p, !.status = "filled"]
       ELSE StatusIs(m, "cancelled")
  ELSE m

(* Mutant: a row with a sync error is left alone.                           *)
FindCloseFilled(m, held) ==
  IF m.status = "filled" /\ m.pos # None /\ held[m.pos] = 0
  THEN StatusIs(m, "closed")
  ELSE m

FindClose(m, held) ==
  IF m.status \in {"filled", "sync_error"} /\ m.pos # None /\ held[m.pos] = 0
  THEN StatusIs(m, "closed")
  ELSE m

ReconcileOrder(t, o, late) ==
  LET j == job[t]
      rest == After(j, o)
  IN
  /\ Runs(t, {"reconcile"}, "each")
  /\ o \in j.todo
  /\ \E p \in Match(o, j.rows[o], j.held) :
       LET m == FindClose(FindFill(o, FindTicket(o, j.rows[o], p, late), p, j.listed),
                          j.held)
       IN  Becomes(t, IF m = j.rows[o] THEN Resume(rest)
                      ELSE [rest EXCEPT !.at = "write", !.key = o, !.mine = m])
  /\ UNCHANGED <<brokerVars, storeVars, bars, historyVars, requests, faults, crashes>>

(* AnchoredSyncEngine: orders whose basis has moved, each modified from    *)
(* the copy read before the pass.                                          *)
StartSync ==
  /\ "sync" \in Threads
  /\ \E S \in SUBSET {o \in Orders :
         \/ row[o].status \in {"filled", "sync_error"} /\ row[o].pos # None
         \/ row[o].status = "working" /\ row[o].order} :
       Start("sync", Pass("sync", "each", S))
  /\ Counted
  /\ UNCHANGED bars

(* cancel_unfilled_limits_at_1r *)
StartUnfilled ==
  /\ "engine" \in Threads
  /\ \E S \in SUBSET {o \in Orders : /\ row[o].source = "auto" /\ row[o].kind = "limit"
                                 /\ row[o].status = "working"} :
       Start("engine", Pass("unfilled", "each", S))
  /\ UNCHANGED <<bars, requests>>

CallNext(t, o) ==
  /\ Runs(t, {"sync", "unfilled"}, "each")
  /\ o \in job[t].todo
  /\ Becomes(t, [After(job[t], o) EXCEPT !.at = "call", !.key = o,
                                         !.mine = job[t].rows[o]])
  /\ UNCHANGED <<brokerVars, storeVars, bars, historyVars, requests, faults, crashes>>

(***************************************************************************)
(* The 1R take profit: take_profit_at_1r for manual orders,                *)
(* take_profit_half_at_1r for those of the mGann engine.                   *)
(***************************************************************************)

(* Mutant: the event of an earlier half is not looked up.                   *)
StartHalvesAgain(source) ==
  \E S \in SUBSET {o \in Orders : /\ row[o].source = source
                                 /\ row[o].status = "filled" /\ row[o].pos # None} :
    Start("engine", Pass("half", "positions", S))

(* Orders of this source whose 1R is reached and whose half is still open. *)
StartHalves(source) ==
  \E S \in SUBSET {o \in Orders : /\ row[o].source = source
                                 /\ row[o].status = "filled" /\ row[o].pos # None
                                 /\ o \notin taken} :
    Start("engine", Pass("half", "positions", S))

TakeProfitAt1R ==
  "engine" \in Threads /\ StartHalves("manual") /\ UNCHANGED <<bars, requests>>

TakeProfitHalfAt1R ==
  "engine" \in Threads /\ StartHalves("auto") /\ UNCHANGED <<bars, requests>>

(* half_close_volume of the managed volume, nothing below two lot steps *)
HalfVolume(n) == n \div 2

HalveOrder(t, o) ==
  LET j == job[t]
      m == j.rows[o]
      n == HalfVolume(Min2(m.lots, j.held[m.pos]))
      rest == After(j, o)
  IN
  /\ Runs(t, {"half"}, "each")
  /\ o \in j.todo
  /\ Becomes(t, IF n = 0 THEN Resume(rest)
                ELSE [rest EXCEPT !.at = "call", !.key = o, !.mine = m, !.lots = n])
  /\ UNCHANGED <<brokerVars, storeVars, bars, historyVars, requests, faults, crashes>>

(* The durable event; a manual order's trailing is armed next. *)
RecordHalf(t) ==
  LET j == job[t] IN
  /\ job[t].at = "record"
  /\ taken' = taken \cup {j.key}
  /\ Becomes(t, IF j.mine.source = "auto" THEN Resume(j) ELSE [j EXCEPT !.at = "arm"])
  /\ UNCHANGED <<brokerVars, row, armed, rule, bars, historyVars, requests, faults, crashes>>

(* Before it looks for candidates, take_profit_at_1r arms what an earlier  *)
(* run halved and did not arm.                                             *)
ArmAgain(o) ==
  /\ "engine" \in Threads
  /\ job["engine"] = Idle
  /\ o \in taken \ armed
  /\ row[o].source = "manual"
  /\ row[o].status \in Live
  /\ row[o].pos # None
  /\ Becomes("engine", Handler("half", "arm", o, row[o]))
  /\ UNCHANGED <<brokerVars, storeVars, bars, historyVars, requests, faults, crashes>>

Arm(t) ==
  LET j == job[t] IN
  /\ Runs(t, {"half"}, "arm")
  /\ rule' = IF rule[j.key] = NoRule
             THEN [rule EXCEPT ![j.key] = [ticket |-> j.mine.pos, last |-> bars]]
             ELSE rule
  /\ Becomes(t, [j EXCEPT !.at = "armed"])
  /\ UNCHANGED <<brokerVars, row, taken, armed, bars, historyVars, requests, faults, crashes>>

RecordArmed(t) ==
  /\ job[t].at = "armed"
  /\ armed' = armed \cup {job[t].key}
  /\ Becomes(t, Resume(job[t]))
  /\ UNCHANGED <<brokerVars, row, taken, rule, bars, historyVars, requests, faults, crashes>>

(***************************************************************************)
(* The SuperTrend trailing exit: on_closed_bar.                            *)
(***************************************************************************)

(* A bar closes, or its snapshot is delivered once more. *)
OnClosedBar(b) ==
  /\ "engine" \in Threads
  /\ b \in 1 .. Min2(bars + 1, MaxBars)
  /\ bars' = Max2(bars, b)
  /\ Start("engine", [Pass("trail", "each", {o \in Orders : /\ rule[o] # NoRule
                                                             /\ rule[o].last < b})
                        EXCEPT !.rules = rule, !.bar = b])
  /\ UNCHANGED requests

(* Mutant: the checkpoint is left to the end of a successful exit. *)
CheckpointLate(t, o) ==
  LET j == job[t]
      next == After(j, o)
  IN
  /\ Runs(t, {"trail"}, "each")
  /\ o \in j.todo
  /\ Becomes(t, [next EXCEPT !.at = "look", !.key = o])
  /\ UNCHANGED <<brokerVars, storeVars, bars, historyVars, requests, faults, crashes>>

(* The checkpoint is stored first; then a crossed rule is acted upon. *)
Checkpoint(t, o) ==
  LET j == job[t]
      next == After(j, o)
  IN
  /\ Runs(t, {"trail"}, "each")
  /\ o \in j.todo
  /\ rule' = IF rule[o] = NoRule THEN rule ELSE [rule EXCEPT ![o].last = j.bar]
  /\ \/ Becomes(t, Resume(next))
     \/ Becomes(t, [next EXCEPT !.at = "look", !.key = o])
  /\ UNCHANGED <<brokerVars, row, taken, armed, bars, historyVars, requests, faults, crashes>>

(* The whole position is closed, unless it or the row is no longer the     *)
(* rule's: then the rule goes.                                             *)
LookForExit(t) ==
  LET j == job[t]
      m == row[j.key]
      ticket == j.rules[j.key].ticket
  IN
  /\ Runs(t, {"trail"}, "look")
  /\ Becomes(t, IF position[ticket] > 0 /\ m.pos = ticket
                   /\ m.status \in {"filled", "sync_error"}
                THEN [j EXCEPT !.at = "call", !.mine = m, !.lots = position[ticket]]
                ELSE [j EXCEPT !.at = "drop"])
  /\ UNCHANGED <<brokerVars, storeVars, bars, historyVars, requests, faults, crashes>>

(* After the exit the row is read again. *)
ReadSaved(t) ==
  /\ Runs(t, {"trail"}, "read")
  /\ Becomes(t, [job[t] EXCEPT !.at = "write",
                               !.mine = StatusIs(row[job[t].key], "closed")])
  /\ UNCHANGED <<brokerVars, storeVars, bars, historyVars, requests, faults, crashes>>

(***************************************************************************)
(* The broker on its own, and restarts of the backend.                     *)
(***************************************************************************)

BrokerActs(o) ==
  /\ Fill(o) \/ EndAtBroker(o)
  /\ UNCHANGED <<storeVars, bars, job, historyVars, requests, faults, crashes>>

Crash ==
  /\ Mishaps < MaxCrashes
  /\ crashes' = crashes + 1
  /\ job' = [t \in Threads |-> Idle]
  /\ UNCHANGED <<brokerVars, storeVars, bars, historyVars, requests, faults>>

Init ==
  /\ BrokerInit
  /\ row = NoRows /\ taken = {} /\ armed = {} /\ rule = NoRules
  /\ bars = 0
  /\ job = [t \in Threads |-> Idle]
  /\ halves = [o \in Orders |-> 0]
  /\ exits = [o \in Orders |-> {}]
  /\ requests = 0
  /\ faults = 0
  /\ crashes = 0

RestRequest(o) ==
  \/ CreateOrder(o) \/ CancelOrder(o) \/ CloseOrder(o) \/ PatchOrder(o)
  \/ EnableTrailing(o) \/ DisableTrailing(o)

(* What a thread does with an order in its pass. *)
EachOrder(t, o) ==
  \/ \E late \in BOOLEAN : ReconcileOrder(t, o, late)
  \/ CallNext(t, o) \/ HalveOrder(t, o) \/ Checkpoint(t, o)

(* A step of a handler that has begun. *)
Continue(t) ==
  \/ Save(t) \/ DropRule(t) \/ PlaceOrder(t) \/ CheckMissing(t)
  \/ CancelCall(t) \/ CloseCall(t) \/ ModifyCall(t) \/ StoreRule(t)
  \/ ListOrders(t) \/ ListPositions(t) \/ ListingFails(t)
  \/ RecordHalf(t) \/ Arm(t) \/ RecordArmed(t)
  \/ LookForExit(t) \/ ReadSaved(t)
  \/ \E o \in Orders : EachOrder(t, o)

EngineStarts ==
  \/ StartUnfilled
  \/ TakeProfitAt1R \/ TakeProfitHalfAt1R
  \/ \E o \in Orders : ArmAgain(o)
  \/ \E b \in 1 .. MaxBars : OnClosedBar(b)

Next ==
  \/ \E o \in Orders : RestRequest(o) \/ SubmitForSignal(o) \/ BrokerActs(o)
  \/ \E t \in Reconcilers : StartReconciliation(t)
  \/ StartSync \/ EngineStarts
  \/ \E t \in Threads : Continue(t)
  \/ Crash

(* The reconciliation loop runs every two seconds, and the grace time of a *)
(* market order is over sooner or later.                                   *)
Spec ==
  /\ Init
  /\ [][Next]_vars
  /\ \A t \in Reconcilers :
       /\ WF_vars(StartReconciliation(t))
       /\ WF_vars(Continue(t))
       /\ \A o \in Orders : SF_vars(ReconcileOrder(t, o, TRUE))
(***************************************************************************)
(* Properties.                                                             *)
(***************************************************************************)

(* An idempotency key reaches the broker at most once, whatever is         *)
(* repeated, raises or crashes (create_order, _submit_for_signal).         *)
PlacedOnce == \A o \in Orders : placed[o] <= 1

(* The 1R half of an order is closed again only after a broker call that   *)
(* raised or a restart: take_profit_at_1r looks for its event first.       *)
HalvesBounded == \A o \in Orders : halves[o] <= 1 + Mishaps

(* ... which the engine's docstring excludes for restarts altogether.      *)
HalfTakenOnce == \A o \in Orders : halves[o] <= 1

(* A trailing exit is sent at most once for a bar, although closed-bar     *)
(* snapshots are repeated (on_closed_bar checkpoints before broker I/O).   *)
BarClosesOnce ==
  \A t \in Threads :
    Runs(t, {"trail"}, "call") => job[t].bar \notin exits[job[t].key]

(* Reconciliation ends a row with a ticket only when its order is gone    *)
(* from the broker and its volume no longer open: an order that fills      *)
(* between the two listings of run_account is never taken for cancelled,   *)
(* nor an untouched position for closed.  Left aside are rows whose volume *)
(* another handler overwrote, rows without a ticket, whose order may still *)
(* be on its way to the broker, and rows that _match_broker_position has   *)
(* linked to the position of another order, and so end with that one.      *)
Ends(t, o) ==
  /\ Runs(t, {"reconcile"}, "each")
  /\ job'[t].at = "write" /\ job'[t].key = o /\ job'[t].mine.status \in Final

Ticketed(m) == m.order \/ m.pos # None

FillNotMissed ==
  [][\A t \in Reconcilers, o \in Orders :
       Ends(t, o) /\ Ticketed(job[t].rows[o]) /\ job[t].rows[o].pos \in {o, None}
         => o \notin pending /\ position[o] # job[t].rows[o].lots]_vars

(* A row does not keep a broker ticket for ever whose order and position   *)
(* are gone at the broker (the reconciliation loop).                       *)
Unsettled(o) ==
  Gone(o) /\ row[o].status \in Live /\ Ticketed(row[o])

Settles == \A o \in Orders : Unsettled(o) ~> ~Unsettled(o)
===============================================================================
