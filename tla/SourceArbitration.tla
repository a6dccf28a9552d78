--------------------------- MODULE SourceArbitration ---------------------------
(***************************************************************************)
(* Which of the two market feeds drives the chart: the feed states of the  *)
(* pipeline (pipeline.py), the decision taken on every Bookmap frame and   *)
(* by the maintenance loop, and its application under the FIFO lock that   *)
(* also serializes every write of derived rows.  Handlers are tasks of one *)
(* event loop: they interleave wherever they await a thread or the lock.   *)
(*                                                                         *)
(* Times are ages, counted by Tick up to where the code stops telling them *)
(* apart.  What a frame carries is left open: any heartbeat, trade or bar  *)
(* may arrive.  The contract is fixed and every feed has it.               *)
(***************************************************************************)
EXTENDS Naturals, Sequences

CONSTANTS
  Never,          (* a time that has not been set                            *)
  Connections,    (* generations of /ws/bookmap; one is used again when it ended *)
  Preferred,      (* market_data_preferred_source                            *)
  BookmapStale, NtStale, Qualify, Recover, MinHold, Grace,  (* config.py      *)
  MaxLag          (* bound: a handler ends within so many units of time      *)

Sources == {"nt", "bookmap"}
Tasks == Connections \cup {"ntTask", "loop"}

None == "none"
Stay == "stay"

ASSUME ArbitrationAssumption ==
  /\ Never \notin Nat
  /\ Preferred \in Sources
  /\ {BookmapStale, NtStale, Qualify, Recover, MinHold, Grace, MaxLag}
       \subseteq Nat
  /\ Connections \cap {"ntTask", "loop", None} = {}

VARIABLES
  nt,          (* _feed_states["nt"]: connected, age of the heartbeat        *)
  bookmap,     (* _feed_states["bookmap"]                                    *)
  generation,  (* _bookmap_connection_id                                     *)
  activeFeed,  (* _active_feed                                               *)
  held,        (* age of _source_switched_at                                 *)
  started,     (* age of _source_started_at                                  *)
  lock,        (* _derived_source_lock: its holder, then who waits           *)
  tasks        (* where each handler is                                      *)

feeds == <<nt, bookmap, generation>>
arbitrationVars == <<nt, bookmap, generation, activeFeed, held, started, lock, tasks>>

AtRest ==
  [at |-> "idle", lag |-> 0, target |-> Stay, next |-> "none", atOnce |-> FALSE]
Closed == [AtRest EXCEPT !.at = "closed"]
Busy(t) == tasks[t].at \notin {"idle", "closed"}

SourceOf(t) == IF t = "ntTask" THEN "nt" ELSE "bookmap"

(* ------------------------------ eligibility ---------------------------- *)

(* A handler that received its frame lag units ago compares with that time. *)
StableFor(state, lag) == IF state.healthy = Never THEN 0 ELSE state.healthy - lag

NtEligible(state, lag) ==
  /\ state.connected
  /\ state.heartbeat # Never
  /\ state.heartbeat <= NtStale + lag

BookmapEligible(state, lag) ==
  /\ state.connected
  /\ state.heartbeat # Never
  /\ state.heartbeat <= BookmapStale + lag
  /\ state.ready
  /\ StableFor(state, lag) >= Qualify

(* Mutant: without a fallback the stale feed is kept, and NT only replaces *)
(* a feed that is there.                                                   *)
DecisionKeepingStale(n, b, lag) ==
  CASE activeFeed = None -> IF BookmapEligible(b, lag) THEN "bookmap" ELSE Stay
    [] activeFeed = "bookmap" ->
         IF ~BookmapEligible(b, lag) /\ NtEligible(n, lag) THEN "nt" ELSE Stay
    [] activeFeed = "nt" ->
         IF /\ BookmapEligible(b, lag)
            /\ held >= MinHold + lag
            /\ StableFor(b, lag) >= Recover
         THEN "bookmap" ELSE Stay

(* The feed _evaluate_source_selection asks for, or Stay. *)
Decision(n, b, lag) ==
  CASE Preferred = "nt" -> IF activeFeed = None THEN "nt" ELSE Stay
    [] Preferred # "nt" /\ activeFeed = None ->
         IF BookmapEligible(b, lag) THEN "bookmap"
         ELSE IF started >= Grace + lag /\ NtEligible(n, lag) THEN "nt" ELSE Stay
    [] Preferred # "nt" /\ activeFeed = "bookmap" ->
         IF BookmapEligible(b, lag) THEN Stay
         ELSE IF NtEligible(n, lag) THEN "nt" ELSE None
    [] Preferred # "nt" /\ activeFeed = "nt" ->
         IF /\ BookmapEligible(b, lag)
            /\ held >= MinHold + lag
            /\ StableFor(b, lag) >= Recover
         THEN "bookmap" ELSE Stay

(* ------------------------- going on after an await --------------------- *)

Queue(t, at, rest, queue) ==
  /\ tasks' = [tasks EXCEPT ![t] = [@ EXCEPT !.at = at, !.next = rest,
                                           !.atOnce = (queue = <<>>)]]
  /\ lock' = Append(queue, t)

Rest(t, state, queue) ==
  /\ tasks' = [tasks EXCEPT ![t] = state]
  /\ lock' = queue

(* The part of a handler that follows the evaluation: the write of a trade *)
(* queues in any case, that of a bar only while Bookmap is active, and the *)
(* maintenance loop flushes idle big trades and then the forming ladder.   *)
Continue(t, rest, feed, queue) ==
  CASE rest = "engines" -> Queue(t, "enter", "none", queue)
    [] rest = "bar" ->
         IF feed = "bookmap" THEN Queue(t, "enter", "none", queue)
         ELSE Rest(t, AtRest, queue)
    [] rest = "flush" ->
         \/ Queue(t, "enter", "forming", queue)
         \/ feed = "bookmap" /\ Queue(t, "enter", "none", queue)
         \/ Rest(t, AtRest, queue)
    [] rest = "forming" ->
         \/ feed = "bookmap" /\ Queue(t, "enter", "none", queue)
         \/ Rest(t, AtRest, queue)
    [] rest = "none" -> Rest(t, AtRest, queue)
    [] rest = "end" -> Rest(t, Closed, queue)

(* _evaluate_source_selection with what the handler has just made of the   *)
(* feed states; a switch waits for the lock with the decision in hand.     *)
EvaluateSourceSelection(t, n, b, lag, rest, queue) ==
  LET target == Decision(n, b, lag) IN
  IF target = Stay THEN Continue(t, rest, activeFeed, queue)
  ELSE /\ tasks' = [tasks EXCEPT ![t] = [at |-> "switch", lag |-> lag,
                                       target |-> target, next |-> rest,
                                       atOnce |-> (queue = <<>>)]]
       /\ lock' = Append(queue, t)

NoteHeartbeat(b, lag) ==
  [b EXCEPT !.connected = TRUE, !.heartbeat = lag,
            !.healthy = IF @ = Never /\ ~b.gap THEN lag ELSE @]

(* ---------------------- connections of /ws/bookmap --------------------- *)

NewGeneration ==
  [connected |-> FALSE, heartbeat |-> Never, healthy |-> Never,
   ready |-> FALSE, gap |-> TRUE]

OnBookmapConnect(c) ==
  /\ tasks[c].at = "closed"
  /\ tasks' = [tasks EXCEPT ![c] = AtRest]
  /\ generation' = c
  /\ bookmap' = NewGeneration
  /\ UNCHANGED <<nt, activeFeed, held, started, lock>>

(* The finally clause of ws_bookmap, at its end or when a handler raised. *)
EndBookmapConnection(c, queue) ==
  IF generation = c
  THEN LET b == [bookmap EXCEPT !.connected = FALSE, !.healthy = Never,
                                !.ready = FALSE, !.gap = TRUE] IN
       /\ generation' = None
       /\ bookmap' = b
       /\ EvaluateSourceSelection(c, nt, b, 0, "end", queue)
  ELSE /\ Rest(c, Closed, queue)
       /\ UNCHANGED <<generation, bookmap>>

(* The peer closes, or the next frame finds a newer connection. *)
OnBookmapDisconnect(c) ==
  /\ tasks[c].at = "idle"
  /\ EndBookmapConnection(c, lock)
  /\ UNCHANGED <<nt, activeFeed, held, started>>

Listens(c) == tasks[c].at = "idle" /\ generation = c

OnBookmapHeartbeat(c) ==
  /\ Listens(c)
  /\ \E ready \in {bookmap.ready, FALSE, ~bookmap.gap} :
       LET b == NoteHeartbeat([bookmap EXCEPT !.ready = ready], 0) IN
       /\ bookmap' = b
       /\ EvaluateSourceSelection(c, nt, b, 0, "none", lock)
  /\ UNCHANGED <<nt, generation, activeFeed, held, started>>

Await(t, at) == tasks' = [tasks EXCEPT ![t] = [AtRest EXCEPT !.at = at]]

OnBookmapTrade(c) ==
  /\ Listens(c)
  /\ Await(c, "recording")
  /\ UNCHANGED <<nt, bookmap, generation, activeFeed, held, started, lock>>

(* After the tick is recorded nobody asks again whether the connection is  *)
(* still the current one.                                                  *)
BookmapTradeRecorded(c) ==
  /\ tasks[c].at = "recording"
  /\ \/ Rest(c, AtRest, lock) /\ UNCHANGED bookmap
     \/ \E gap \in BOOLEAN :
          LET lag == tasks[c].lag
              seen == IF gap THEN [bookmap EXCEPT !.gap = TRUE, !.ready = FALSE,
                                                  !.healthy = Never]
                      ELSE bookmap
              b == NoteHeartbeat(seen, lag)
          IN /\ bookmap' = b
             /\ EvaluateSourceSelection(c, nt, b, lag, "engines", lock)
  /\ UNCHANGED <<nt, generation, activeFeed, held, started>>

(* What a bar that was accepted makes of the feed state: a complete one is *)
(* the barrier that clears the gap.                                        *)
BarAccepted(b, partial, lag) ==
  IF partial THEN [b EXCEPT !.ready = FALSE]
  ELSE [b EXCEPT !.healthy = IF b.gap THEN lag ELSE @,
                 !.gap = FALSE, !.ready = TRUE]

(* A bar that fails validation, one whose rows are embedded, and a closed  *)
(* one of an older bridge, whose ladder is rebuilt in a thread.            *)
OnBookmapBar(c) ==
  /\ Listens(c)
  /\ \E partial \in BOOLEAN :
       LET noted == NoteHeartbeat(
                      [bookmap EXCEPT !.ready = ~partial /\ ~bookmap.gap], 0)
           invalid == [noted EXCEPT !.gap = TRUE, !.ready = FALSE,
                                    !.healthy = Never]
           accepted == BarAccepted(noted, partial, 0)
       IN \/ bookmap' = invalid /\ EvaluateSourceSelection(c, nt, invalid, 0, "none", lock)
          \/ bookmap' = accepted /\ EvaluateSourceSelection(c, nt, accepted, 0, "bar", lock)
          \/ /\ bookmap' = noted
             /\ Await(c, IF partial THEN "rebuildPartial" ELSE "rebuild")
             /\ UNCHANGED lock
  /\ UNCHANGED <<nt, generation, activeFeed, held, started>>

(* The rebuilt ladder fits the bar or it does not. *)
BookmapBarRebuilt(c) ==
  /\ tasks[c].at \in {"rebuild", "rebuildPartial"}
  /\ \E b \in {bookmap, [bookmap EXCEPT !.gap = TRUE, !.ready = FALSE]} :
       LET lag == tasks[c].lag
           accepted == BarAccepted(b, tasks[c].at = "rebuildPartial", lag)
       IN /\ bookmap' = accepted
          /\ EvaluateSourceSelection(c, nt, accepted, lag, "bar", lock)
  /\ UNCHANGED <<nt, generation, activeFeed, held, started>>

(* ------------------------------- NinjaTrader ---------------------------- *)

NoteNt == nt' = [connected |-> TRUE, heartbeat |-> 0]

(* Recording the tick only delays the write, as a later trade would. *)
OnNtTrade ==
  /\ tasks["ntTask"].at = "idle"
  /\ NoteNt
  /\ Rest("ntTask", AtRest, lock) \/ Queue("ntTask", "enter", "none", lock)
  /\ UNCHANGED <<bookmap, generation, activeFeed, held, started>>

OnNtHeartbeat ==
  /\ tasks["ntTask"].at = "idle"
  /\ NoteNt
  /\ UNCHANGED <<bookmap, generation, activeFeed, held, started, lock, tasks>>

OnNtDisconnected ==
  /\ tasks["ntTask"].at = "idle"
  /\ nt' = [nt EXCEPT !.connected = FALSE]
  /\ UNCHANGED <<bookmap, generation, activeFeed, held, started, lock, tasks>>

(* ---------------------------- maintenance loop -------------------------- *)

MaintenanceTick ==
  /\ tasks["loop"].at = "idle"
  /\ LET b == IF bookmap.heartbeat # Never /\ bookmap.heartbeat > BookmapStale
              THEN [bookmap EXCEPT !.connected = FALSE, !.healthy = Never]
              ELSE bookmap
         n == IF nt.heartbeat # Never /\ nt.heartbeat > NtStale
              THEN [nt EXCEPT !.connected = FALSE]
              ELSE nt
     IN /\ nt' = n
        /\ bookmap' = b
        /\ EvaluateSourceSelection("loop", n, b, 0, "flush", lock)
  /\ UNCHANGED <<generation, activeFeed, held, started>>

(* ------------------------------ under the lock -------------------------- *)

Holds(t, at) == lock # <<>> /\ Head(lock) = t /\ tasks[t].at = at

Reach(t, at) ==
  /\ tasks' = [tasks EXCEPT ![t] = [@ EXCEPT !.at = at, !.atOnce = FALSE]]
  /\ UNCHANGED lock

(* Mutant: the check before the lock has to do. *)
EnterUnchecked(t) ==
  /\ Holds(t, "enter")
  /\ Reach(t, "writing")
  /\ UNCHANGED <<feeds, activeFeed, held, started>>

(* A writer asks again whether its source is active once it has the lock. *)
Enter(t) ==
  /\ Holds(t, "enter")
  /\ IF activeFeed = SourceOf(t) THEN Reach(t, "writing")
     ELSE Continue(t, tasks[t].next, activeFeed, Tail(lock))
  /\ UNCHANGED <<feeds, activeFeed, held, started>>

(* _switch_feed: another task may have switched meanwhile, but what the    *)
(* decision was made from is not looked at again.                          *)
SwitchFeed(t) ==
  /\ Holds(t, "switch")
  /\ IF activeFeed = tasks[t].target
     THEN /\ Continue(t, tasks[t].next, activeFeed, Tail(lock))
          /\ UNCHANGED <<activeFeed, held>>
     ELSE /\ activeFeed' = tasks[t].target
          /\ held' = tasks[t].lag
          /\ Reach(t, "logging")
  /\ UNCHANGED <<feeds, started>>

(* The switch is in the store: without a source that is all. *)
SwitchLogged(t) ==
  /\ Holds(t, "logging")
  /\ IF activeFeed = None THEN Continue(t, tasks[t].next, activeFeed, Tail(lock))
     ELSE Reach(t, "seeding")
  /\ UNCHANGED <<feeds, activeFeed, held, started>>

(* The snapshots of the new source, or the rows of a handler, are stored. *)
Written(t) ==
  /\ Holds(t, "seeding") \/ Holds(t, "writing")
  /\ Continue(t, tasks[t].next, activeFeed, Tail(lock))
  /\ UNCHANGED <<feeds, activeFeed, held, started>>

(* The store raises: the lock is released, the loop catches the exception, *)
(* and the task of a connection ends with it.                              *)
WriteRaises(t) ==
  /\ Holds(t, "logging") \/ Holds(t, "seeding") \/ Holds(t, "writing")
  /\ IF t \in Connections THEN EndBookmapConnection(t, Tail(lock))
     ELSE Rest(t, AtRest, Tail(lock)) /\ UNCHANGED <<bookmap, generation>>
  /\ UNCHANGED <<nt, activeFeed, held, started>>

(* --------------------------------- time --------------------------------- *)

Older(age, limit) ==
  IF age = Never \/ age = limit + MaxLag THEN age ELSE age + 1

Larger(m, n) == IF m > n THEN m ELSE n

(* Only threads take time: a task that was given the lock is about to run. *)
Tick ==
  /\ \A t \in Tasks : Busy(t) => tasks[t].lag < MaxLag
  /\ lock # <<>> => tasks[Head(lock)].at \notin {"enter", "switch"}
  /\ nt' = [nt EXCEPT !.heartbeat = Older(@, NtStale + 1)]
  /\ bookmap' = [bookmap EXCEPT
                   !.heartbeat = Older(@, BookmapStale + 1),
                   !.healthy = Older(@, Larger(Qualify, Recover))]
  /\ held' = Older(held, MinHold)
  /\ started' = Older(started, Grace)
  /\ tasks' = [t \in Tasks |->
                IF Busy(t) THEN [tasks[t] EXCEPT !.lag = @ + 1] ELSE tasks[t]]
  /\ UNCHANGED <<generation, activeFeed, lock>>

ArbitrationInit ==
  /\ nt = [connected |-> FALSE, heartbeat |-> Never]
  /\ bookmap = [NewGeneration EXCEPT !.gap = FALSE]
  /\ generation = None
  /\ activeFeed = IF Preferred = "nt" THEN "nt" ELSE None
  /\ held = 0
  /\ started = 0
  /\ lock = <<>>
  /\ tasks = [t \in Tasks |-> IF t \in Connections THEN Closed ELSE AtRest]

BookmapFrame(c) ==
  \/ OnBookmapHeartbeat(c) \/ OnBookmapTrade(c) \/ OnBookmapBar(c)
  \/ OnBookmapDisconnect(c) \/ OnBookmapConnect(c)

Resume(t) ==
  \/ Enter(t) \/ SwitchFeed(t) \/ SwitchLogged(t) \/ Written(t)
  \/ t \in Connections /\ (BookmapTradeRecorded(t) \/ BookmapBarRebuilt(t))

(* A task that finds the lock free does not yield. *)
AtOnce == \E t \in Tasks : tasks[t].atOnce /\ (Enter(t) \/ SwitchFeed(t))

Yielded ==
  \/ \E c \in Connections : BookmapFrame(c)
  \/ \E t \in Tasks : Resume(t) \/ WriteRaises(t)
  \/ OnNtTrade \/ OnNtHeartbeat \/ OnNtDisconnected
  \/ MaintenanceTick
  \/ Tick

ArbitrationNext ==
  \/ AtOnce
  \/ (\A t \in Tasks : ~tasks[t].atOnce) /\ Yielded

ArbitrationSpec == ArbitrationInit /\ [][ArbitrationNext]_arbitrationVars

(* The loop runs every 50 ms, a thread ends, and the lock is handed on. *)
Fairness ==
  /\ WF_arbitrationVars(MaintenanceTick)
  /\ \A t \in Tasks : WF_arbitrationVars(Resume(t))

FairSpec == ArbitrationSpec /\ Fairness

(* ------------------------------- properties ----------------------------- *)

(* Derived rows are written by one task at a time and only for the source  *)
(* the chart shows, whatever was decided while the writer waited: the      *)
(* second check of _run_trade_engines, on_bookmap_bar and maintenance_tick.*)
OnlyActiveSourceWrites ==
  \A t \in Tasks :
    tasks[t].at \in {"writing", "seeding", "logging"} =>
      /\ \A other \in Tasks \ {t} :
           tasks[other].at \notin {"writing", "seeding", "logging"}
      /\ tasks[t].at = "writing" => activeFeed = SourceOf(t)

(* A Bookmap feed that is not fit leaves the chart, also when the decision *)
(* that promoted it was outdated: the maintenance loop sees to it.         *)
UnfitBookmapLeaves ==
  (activeFeed = "bookmap" /\ ~BookmapEligible(bookmap, 0)) ~>
    (activeFeed # "bookmap" \/ BookmapEligible(bookmap, 0))

(* While NT delivers, the chart does not stay without a source. *)
ChartFindsSource == <>[]NtEligible(nt, 0) => []<>(activeFeed # None)
================================================================================
