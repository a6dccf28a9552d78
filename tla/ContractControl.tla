--------------------------- MODULE ContractControl ---------------------------
(***************************************************************************)
(* Who feeds the logical GC chart: the subscriptions of the compiled       *)
(* NT_AddOn (SubscriptionManager, NinjaTraderContractSubscriber, the       *)
(* instruments' dispatchers), the Control_Commands of the backend (ws_nt,  *)
(* ControlPlaneCoordinator) and the choice of the chart source (pipeline,  *)
(* resolver, POST /api/contracts/active).                                  *)
(*                                                                         *)
(* Every /ws/nt connection is a task of the backend's event loop with a    *)
(* ControlPlaneCoordinator of its own.  The task gives way where it awaits *)
(* a send, while a tick is recorded, and nowhere else.  A trade of a task  *)
(* that outlived its connection is synced through the coordinator that is  *)
(* bound when it goes on, which may be the one of a newer connection.      *)
(***************************************************************************)
EXTENDS Integers, Sequences, FiniteSets, SequencesExt

CONSTANTS
  Contracts,       (* futures contracts                                    *)
  Candidates,      (* gc_candidate_contracts of the backend                *)
  Instruments,     (* contracts NinjaTrader resolves                       *)
  InitialSource,   (* the candidate the backend pins when it starts        *)
  StartContract,   (* the AddOn's first Candidate_Contract                 *)
  ManualOverride,  (* ManualContractOverride of the AddOn, or NoContract   *)
  NoContract,
  MaxConnections,  (* bound: connections opened                            *)
  MaxPins,         (* bound: contracts selected over REST                  *)
  MaxBacklog,      (* bound: Control_Commands under way, calls posted to   *)
                   (* a dispatcher                                         *)
  MaxLateTasks     (* bound: tasks that outlive their connection           *)

ASSUME ControlAssumption ==
  /\ Candidates \subseteq Contracts /\ IsFiniteSet(Candidates) /\ InitialSource \in Candidates
  /\ NoContract \notin Contracts
  /\ {StartContract} \cup ({ManualOverride} \ {NoContract})
       \subseteq Instruments \cap Contracts
  /\ {MaxConnections, MaxBacklog} \subseteq Nat \ {0} /\ {MaxPins, MaxLateTasks} \subseteq Nat

Connections == 1 .. MaxConnections
NoConnection == 0

VARIABLES
  (* NT_AddOn *)
  active,        (* SubscriptionManager._activeSet                          *)
  subscriptions, (* NinjaTraderContractSubscriber._subscriptions            *)
  dispatcher,    (* per contract: what its instrument's dispatcher must run *)
  handlers,      (* per contract: handlers attached to MarketData.Update    *)
  outbox,        (* a trade that waits for the sender, or NoContract        *)
  link,          (* the open connection, or NoConnection                    *)
  opened,        (* connections opened so far                               *)
  commands,      (* Control_Commands on their way over link                 *)
  (* backend *)
  plane,         (* pipeline._control_plane: the connection it belongs to   *)
  prevNeeded,    (* per connection: ControlPlaneCoordinator._prev_needed    *)
  task,          (* per connection: what its task is doing                  *)
  override,      (* ContractResolver._override                              *)
  chartSource,   (* pipeline._chart_source_contract                         *)
  sourceSeen,    (* pipeline._chart_source_last_trade_ms is not None        *)
  pins,          (* contracts selected over REST so far                     *)
  undisturbed    (* history: nothing happened that the control plane has    *)
                 (* no answer to (see Connect and SetActiveContract)        *)

subscriptionVars == <<active, subscriptions, dispatcher>>
linkVars == <<link, opened, commands>>
sourceVars == <<override, chartSource, sourceSeen>>
vars == <<subscriptionVars, handlers, outbox, linkVars, plane, prevNeeded, task,
          sourceVars, pins, undisturbed>>

Command(action, c) == [action |-> action, contract |-> c]

(* Mutant: unsubscribes first. *)
PlanUnsubscribesFirst(prev, next) ==
  SetToSeq({Command("unsubscribe", c) : c \in prev \ next})
    \o SetToSeq({Command("subscribe", c) : c \in next \ prev})

(* plan_control_commands: subscribes first. *)
PlanControlCommands(prev, next) ==
  SetToSeq({Command("subscribe", c) : c \in next \ prev})
    \o SetToSeq({Command("unsubscribe", c) : c \in prev \ next})

(* A task: its stage, the trade it handles, and the sync it is in: through *)
(* whose coordinator, to which needed set, which commands are still due.   *)
Task(stage, trade, via, needed, due) ==
  [stage |-> stage, trade |-> trade, via |-> via, needed |-> needed, due |-> due]

At(stage) == Task(stage, NoContract, NoConnection, {}, <<>>)

(***************************************************************************)
(* NT_AddOn: subscriptions.                                                *)
(***************************************************************************)

(* Mutant: a contract that is already active is subscribed again. *)
SubscribeTwice(c) ==
  IF c \in Instruments
  THEN /\ active' = active \cup {c}
       /\ subscriptions' = subscriptions \cup {c}
       /\ dispatcher' = [dispatcher EXCEPT ![c] = Append(@, "attach")]
  ELSE UNCHANGED subscriptionVars

(* ApplySubscribe over NinjaTraderContractSubscriber.Subscribe; a contract *)
(* NinjaTrader cannot resolve is rolled back.                              *)
Subscribe(c) ==
  IF c \notin active /\ c \in Instruments
  THEN /\ active' = active \cup {c}
       /\ subscriptions' = subscriptions \cup {c}
       /\ dispatcher' = IF c \in subscriptions THEN dispatcher
                        ELSE [dispatcher EXCEPT ![c] = Append(@, "attach")]
  ELSE UNCHANGED subscriptionVars

(* ApplyUnsubscribe over NinjaTraderContractSubscriber.Unsubscribe. *)
Unsubscribe(c) ==
  IF c \in active
  THEN /\ active' = active \ {c}
       /\ subscriptions' = subscriptions \ {c}
       /\ dispatcher' = IF c \notin subscriptions THEN dispatcher
                        ELSE [dispatcher EXCEPT ![c] = Append(@, "detach")]
  ELSE UNCHANGED subscriptionVars

(* The receive loop applies one Control_Command. *)
OnControlCommand ==
  /\ link # NoConnection
  /\ commands # <<>>
  /\ \A c \in Contracts : Len(dispatcher[c]) < MaxBacklog
  /\ LET command == Head(commands) IN
       IF command.action = "subscribe" THEN Subscribe(command.contract)
       ELSE Unsubscribe(command.contract)
  /\ commands' = Tail(commands)
  /\ UNCHANGED <<handlers, outbox, link, opened, plane, prevNeeded, task,
                 sourceVars, pins, undisturbed>>

(* The dispatcher of an instrument runs what was posted, in order. *)
RunDispatcher(c) ==
  /\ dispatcher[c] # <<>>
  /\ dispatcher' = [dispatcher EXCEPT ![c] = Tail(@)]
  /\ handlers' = [handlers EXCEPT
                    ![c] = IF Head(dispatcher[c]) = "attach" THEN @ + 1 ELSE @ - 1]
  /\ UNCHANGED <<active, subscriptions, outbox, linkVars, plane, prevNeeded,
                 task, sourceVars, pins, undisturbed>>

(* A trade of a contract with a handler is enqueued. *)
OnMarketData(c) ==
  /\ handlers[c] > 0
  /\ outbox = NoContract
  /\ outbox' = c
  /\ UNCHANGED <<subscriptionVars, handlers, linkVars, plane, prevNeeded, task,
                 sourceVars, pins, undisturbed>>

(***************************************************************************)
(* Connections.                                                            *)
(***************************************************************************)

(* A sync through coordinator via to the needed set needed. *)
StartSync(c, stage, trade, via, needed) ==
  task' = [task EXCEPT ![c] =
             Task(stage, trade, via, needed,
                  PlanControlCommands(prevNeeded[via], needed))]

LateTasks == {c \in 1 .. opened : task[c].stage \notin {"ready", "closed"}}

(* Mutant: the coordinator of the previous connection is bound again. *)
ConnectKeepingCoordinator ==
  LET c == opened + 1 IN
  /\ outbox # NoContract
  /\ link = NoConnection
  /\ opened < MaxConnections
  /\ Cardinality(LateTasks) <= MaxLateTasks
  /\ link' = c
  /\ opened' = c
  /\ plane' = c
  /\ prevNeeded' = IF opened = 0 THEN prevNeeded
                   ELSE [prevNeeded EXCEPT ![c] = prevNeeded[opened]]
  /\ task' = [task EXCEPT ![c] =
                Task("announcing", NoContract, c, {override},
                     PlanControlCommands(prevNeeded'[c], {override}))]
  /\ undisturbed' = (undisturbed /\ LateTasks = {})
  /\ UNCHANGED <<subscriptionVars, handlers, outbox, commands, sourceVars, pins>>

(* EnsureConnectedAsync runs only for an event to send.  ws_nt takes the   *)
(* lease, binds its coordinator and starts to announce the needed set.  A  *)
(* task of an earlier connection that is still at work would go on through *)
(* this coordinator.                                                       *)
Connect ==
  LET c == opened + 1 IN
  /\ outbox # NoContract
  /\ link = NoConnection
  /\ opened < MaxConnections
  /\ Cardinality(LateTasks) <= MaxLateTasks
  /\ link' = c
  /\ opened' = c
  /\ plane' = c
  /\ StartSync(c, "announcing", NoContract, c, {override})
  /\ undisturbed' = (undisturbed /\ LateTasks = {})
  /\ UNCHANGED <<subscriptionVars, handlers, outbox, commands, prevNeeded,
                 sourceVars, pins>>

(* The connection is lost with the commands that are on their way. *)
LoseConnection ==
  /\ link # NoConnection
  /\ link < MaxConnections
  /\ link' = NoConnection
  /\ commands' = <<>>
  /\ UNCHANGED <<subscriptionVars, handlers, outbox, opened, plane, prevNeeded,
                 task, sourceVars, pins, undisturbed>>

(* The finally block of ws_nt unbinds the coordinator it bound. *)
Unbind(c) == plane' = IF plane = c THEN NoConnection ELSE plane

(* The receive loop of a lost connection ends. *)
EndTask(c) ==
  /\ task[c].stage = "ready"
  /\ c # link
  /\ task' = [task EXCEPT ![c] = At("closed")]
  /\ Unbind(c)
  /\ UNCHANGED <<subscriptionVars, handlers, outbox, linkVars, prevNeeded,
                 sourceVars, pins, undisturbed>>

(***************************************************************************)
(* The tasks of the backend.                                               *)
(***************************************************************************)

Syncing(c) == task[c].stage \in {"announcing", "cleaning", "syncing"}

(* send_control: over a connection that is gone the command is skipped or  *)
(* lost.                                                                   *)
SendControl(c) ==
  /\ Syncing(c)
  /\ task[c].due # <<>>
  /\ Len(commands) < MaxBacklog
  /\ task' = [task EXCEPT ![c].due = Tail(@)]
  /\ commands' = IF task[c].via = link
                 THEN Append(commands, Head(task[c].due)) ELSE commands
  /\ UNCHANGED <<subscriptionVars, handlers, outbox, link, opened, plane,
                 prevNeeded, sourceVars, pins, undisturbed>>

(* ... or the send raises, which ends the task. *)
SendControlFails(c) ==
  /\ Syncing(c)
  /\ task[c].due # <<>>
  /\ task[c].via # link
  /\ task' = [task EXCEPT ![c] = At("closed")]
  /\ Unbind(c)
  /\ link' = IF link = c THEN NoConnection ELSE link
  /\ commands' = IF link = c THEN <<>> ELSE commands
  /\ UNCHANGED <<subscriptionVars, handlers, outbox, opened, prevNeeded,
                 sourceVars, pins, undisturbed>>

(* Mutant: _announce releases nothing. *)
FinishSyncWithoutCleanup(c) ==
  /\ task[c].stage \in {"announcing", "syncing"}
  /\ task[c].due = <<>>
  /\ prevNeeded' = [prevNeeded EXCEPT ![task[c].via] = task[c].needed]
  /\ task' = [task EXCEPT ![c] = At("ready")]
  /\ UNCHANGED <<subscriptionVars, handlers, outbox, linkVars, plane,
                 sourceVars, pins, undisturbed>>

(* The sync is through.  _announce then reads the needed set again and     *)
(* releases every other candidate.                                         *)
FinishSync(c) ==
  /\ task[c].stage \in {"announcing", "syncing"}
  /\ task[c].due = <<>>
  /\ prevNeeded' = [prevNeeded EXCEPT ![task[c].via] = task[c].needed]
  /\ task' = [task EXCEPT ![c] =
                IF task[c].stage = "syncing" THEN At("ready")
                ELSE Task("cleaning", NoContract, c, {},
                          SetToSeq({Command("unsubscribe", d) :
                                      d \in Candidates \ {override}}))]
  /\ UNCHANGED <<subscriptionVars, handlers, outbox, linkVars, plane,
                 sourceVars, pins, undisturbed>>

FinishAnnounce(c) ==
  /\ task[c].stage = "cleaning"
  /\ task[c].due = <<>>
  /\ task' = [task EXCEPT ![c] = At("ready")]
  /\ UNCHANGED <<subscriptionVars, handlers, outbox, linkVars, plane,
                 prevNeeded, sourceVars, pins, undisturbed>>

(* A trade arrives over the open connection and goes to be recorded. *)
ReceiveTrade ==
  /\ link # NoConnection
  /\ outbox # NoContract
  /\ task[link].stage = "ready"
  /\ task' = [task EXCEPT ![link] = Task("recording", outbox, NoConnection, {}, <<>>)]
  /\ outbox' = NoContract
  /\ UNCHANGED <<subscriptionVars, handlers, linkVars, plane, prevNeeded,
                 sourceVars, pins, undisturbed>>

(* _sync_control_plane *)
NeededFor(source, pinned) == IF source \in Candidates THEN {source} ELSE {pinned}

(* Mutant: the source from before the switch is synced. *)
SyncBeforeSwitch(c) ==
  IF plane = NoConnection THEN task' = [task EXCEPT ![c] = At("ready")]
  ELSE StartSync(c, "syncing", NoContract, plane, NeededFor(chartSource, override))

SyncControlPlane(c) ==
  IF plane = NoConnection THEN task' = [task EXCEPT ![c] = At("ready")]
  ELSE StartSync(c, "syncing", NoContract, plane, NeededFor(chartSource', override'))

(* The recorded trade is one of the chart source. *)
ChartTrade(c) ==
  /\ task[c].stage = "recording"
  /\ task[c].trade = chartSource
  /\ sourceSeen' = TRUE
  /\ UNCHANGED <<chartSource, override>>
  /\ SyncControlPlane(c)
  /\ UNCHANGED <<subscriptionVars, handlers, outbox, linkVars, plane,
                 prevNeeded, pins, undisturbed>>

(* It is one of another contract while the chart source is live, or has    *)
(* not traded yet.                                                         *)
IgnoreTrade(c) ==
  /\ task[c].stage = "recording"
  /\ task[c].trade # chartSource
  /\ task' = [task EXCEPT ![c] = At("ready")]
  /\ UNCHANGED <<subscriptionVars, handlers, outbox, linkVars, plane,
                 prevNeeded, sourceVars, pins, undisturbed>>

(* It is one of another contract, more than _SOURCE_SWITCH_QUIET_MS after  *)
(* the last one of the chart source.                                       *)
SwitchChartSource(c) ==
  /\ task[c].stage = "recording"
  /\ task[c].trade # chartSource
  /\ sourceSeen
  /\ chartSource' = task[c].trade
  /\ override' = IF task[c].trade \in Candidates THEN task[c].trade ELSE override
  /\ SyncControlPlane(c)
  /\ UNCHANGED <<subscriptionVars, handlers, outbox, linkVars, plane,
                 prevNeeded, sourceSeen, pins, undisturbed>>

(* POST /api/contracts/active.  A selection during the announcement is     *)
(* read by the second half of it only, and nothing reports a contract that *)
(* NinjaTrader cannot resolve.                                             *)
SetActiveContract(c) ==
  /\ c \in Candidates
  /\ pins < MaxPins
  /\ pins' = pins + 1
  /\ override' = c
  /\ undisturbed' = (/\ undisturbed /\ c \in Instruments
                     /\ \A k \in Connections : task[k].stage # "announcing")
  /\ UNCHANGED <<subscriptionVars, handlers, outbox, linkVars, plane,
                 prevNeeded, task, chartSource, sourceSeen>>

Init ==
  /\ LET first == IF ManualOverride = NoContract THEN StartContract ELSE ManualOverride IN
       /\ active = IF ManualOverride = NoContract THEN {first} ELSE {}
       /\ subscriptions = {first}
       /\ dispatcher = [c \in Contracts |-> IF c = first THEN <<"attach">> ELSE <<>>]
  /\ handlers = [c \in Contracts |-> 0]
  /\ outbox = NoContract
  /\ link = NoConnection /\ opened = 0 /\ commands = <<>>
  /\ plane = NoConnection
  /\ prevNeeded = [c \in Connections |-> {}]
  /\ task = [c \in Connections |-> At("none")]
  /\ override = InitialSource /\ chartSource = InitialSource /\ sourceSeen = FALSE
  /\ pins = 0 /\ undisturbed = TRUE

AddOn ==
  \/ OnControlCommand
  \/ \E c \in Contracts : RunDispatcher(c) \/ OnMarketData(c)
  \/ Connect

BackendTask(c) ==
  \/ SendControl(c) \/ SendControlFails(c) \/ FinishSync(c) \/ FinishAnnounce(c)
  \/ ChartTrade(c) \/ IgnoreTrade(c) \/ SwitchChartSource(c)
  \/ EndTask(c)

Next ==
  \/ AddOn
  \/ LoseConnection
  \/ ReceiveTrade
  \/ \E c \in Connections : BackendTask(c)
  \/ \E c \in Contracts : SetActiveContract(c)

Spec == Init /\ [][Next]_vars

(* The threads of the AddOn, the dispatchers and the event loop run; the   *)
(* market and the operator owe nothing.                                    *)
FairSpec ==
  /\ Spec
  /\ WF_vars(OnControlCommand) /\ WF_vars(Connect) /\ WF_vars(ReceiveTrade)
  /\ \A c \in Contracts : WF_vars(RunDispatcher(c))
  /\ \A c \in Connections : WF_vars(BackendTask(c))

(* A market that keeps trading every contract somebody listens to. *)
LiquidSpec == FairSpec /\ \A c \in Contracts : SF_vars(OnMarketData(c))

-----------------------------------------------------------------------------

(* Nobody has selected a contract over REST yet. *)
Unselected == pins = 0

(* Announced, synced and every command applied. *)
Settled ==
  /\ link # NoConnection /\ commands = <<>>
  /\ task[link].stage \in {"ready", "recording"}
  /\ \A c \in Connections : ~Syncing(c)

(* "the active set and NinjaTrader subscriptions stay in sync": no command *)
(* of either connection makes the two sets differ, refused ones included.  *)
ManagerMatchesSubscriber == active = subscriptions

(* The subscriber posts to the dispatchers and forgets: however far a      *)
(* dispatcher lags behind, a contract has at most one handler (no trade is *)
(* enqueued twice), and one exactly while it is subscribed once the        *)
(* dispatcher has caught up.                                               *)
HandlersFollowSubscriptions ==
  \A c \in Contracts :
    /\ handlers[c] \in {0, 1}
    /\ dispatcher[c] = <<>> => (handlers[c] = 1 <=> c \in subscriptions)

(* "a stale deployed AddOn cannot keep multiple contracts feeding the      *)
(* logical GC chart": once a connection is announced and every command is  *)
(* applied, at most one candidate feeds the backend.                       *)
OneSourceFeeds == undisturbed /\ Settled => Cardinality(subscriptions \cap Candidates) <= 1

(* needed_contracts is a "snapshot of the currently-subscribed needed set":*)
(* once everything is applied the AddOn is subscribed to what the          *)
(* coordinator of the connection takes for subscribed, so that a later     *)
(* sync that sends nothing is right to send nothing.                       *)
BelievedSubscribed == undisturbed /\ Settled => prevNeeded[link] \subseteq subscriptions

(* "Subscribes are sent before unsubscribes so the newly-needed contracts  *)
(* are flowing before any dropped contract is released": the AddOn never   *)
(* ends up without a subscription, after which no event would ever make    *)
(* it send, reconnect or sync again.                                       *)
FeedNeverEmpty == undisturbed => subscriptions # {}

(* The contract the chart shows is subscribed, or the chart moves on: the  *)
(* chart is not left waiting for a contract nobody listens to.             *)
ChartSourceServed ==
  \A c \in Contracts :
    (chartSource = c) ~>
      (c \in subscriptions \/ chartSource # c \/ ~Unselected \/ ~undisturbed)

(* "WHEN the connection ... is lost, THE NT_AddOn SHALL attempt            *)
(* reconnection."                                                          *)
LostConnectionReopened ==
  (link = NoConnection /\ opened > 0) ~> (link # NoConnection \/ ~undisturbed)
=============================================================================
