------------------------- MODULE OrderLifecycle_proofs -------------------------
(***************************************************************************)
(* Safety of OrderLifecycle, for any number of orders, reconcilers,        *)
(* requests, bars, faults and restarts.                                    *)
(***************************************************************************)
EXTENDS OrderLifecycle, TLAPS

(***************************************************************************)
(* Rows and jobs as records.                                               *)
(***************************************************************************)

IsRow(m) == m \in [status : {m.status}, lots : {m.lots}, kind : {m.kind},
                   source : {m.source}, order : {m.order}, pos : {m.pos}]

IsJob(j) == j \in [op : {j.op}, at : {j.at}, key : {j.key}, mine : {j.mine},
                   todo : {j.todo}, rows : {j.rows}, rules : {j.rules},
                   listed : {j.listed}, held : {j.held}, lots : {j.lots},
                   bar : {j.bar}]

(* The copy of a row that exists. *)
Real(m) == IsRow(m) /\ m.status # "absent"

(* Only copies of rows that exist are handled, and so written back: an     *)
(* order that was submitted once keeps a row.                              *)
Handles(j) ==
  /\ IsJob(j)
  /\ j.op = "create" => j.at \in {"call", "write", "each"}
  /\ j.at \in {"check", "recheck", "call", "write"} => Real(j.mine)
  /\ j.at = "drop" /\ j.op # "trail" => Real(j.mine)
  /\ j.at = "check" => j.op # "trail"
  /\ j.op # "trail" => \A o \in j.todo : Real(j.rows[o])
  /\ j.todo \subseteq Orders
  /\ j.at \in {"look", "read"} \/ (j.op = "trail" /\ j.at = "call") => j.key \in Orders

Creating(j) == j.op = "create" /\ j.at = "call"
Fine(j) == Handles(j) /\ ~Creating(j)

PlacingInv ==
  /\ row = [o \in Orders |-> row[o]]
  /\ \A o \in Orders : row[o] = NoRow \/ Real(row[o])
  /\ job = [t \in Threads |-> job[t]]
  /\ \A t \in Threads : Handles(job[t])
  /\ placed \in [Orders -> {0, 1}]
  /\ \A o \in Orders : row[o] = NoRow => placed[o] = 0
  /\ \A t \in Threads : Creating(job[t]) => /\ job[t].key \in Orders
                                          /\ Real(row[job[t].key])
                                          /\ placed[job[t].key] = 0
  /\ \A t, u \in Threads :
       Creating(job[t]) /\ Creating(job[u]) /\ job[t].key = job[u].key => t = u

LEMMA IdleHandles == Fine(Idle)
  BY DEF Fine, Handles, Creating, Idle, IsJob

LEMMA NoRowIsNoCopy == ~Real(NoRow) /\ IsRow(NoRow)
  BY DEF Real, IsRow, NoRow

LEMMA StatusReal ==
  ASSUME NEW m, IsRow(m), NEW s, s # "absent"
  PROVE  Real(StatusIs(m, s))
  BY DEF Real, IsRow, StatusIs

LEMMA ResumeHandles ==
  ASSUME NEW j, Handles(j)
  PROVE  Fine(Resume(j))
<1>1. CASE j.todo = {}
  BY <1>1, IdleHandles DEF Resume
<1>2. CASE j.todo # {}
  BY <1>2 DEF Resume, Fine, Handles, Creating, IsJob
<1> QED
  BY <1>1, <1>2

LEMMA AfterHandles ==
  ASSUME NEW j, Handles(j), NEW o
  PROVE  Handles(After(j, o)) /\ After(j, o).op = j.op /\ After(j, o).at = j.at
  BY DEF After, Handles, IsJob, Idle

(* Going on with the copy m. *)
LEMMA GoOn ==
  ASSUME NEW j, Handles(j), NEW m, Real(m)
  PROVE  Fine([j EXCEPT !.at = "write", !.mine = m])
  BY DEF Fine, Handles, Creating, IsJob

(* ... with the copy it has, or one that is not written. *)
LEMMA Continued ==
  ASSUME NEW j, Handles(j), j.op # "create"
  PROVE  /\ Fine([j EXCEPT !.at = "record"])
         /\ Fine([j EXCEPT !.at = "arm"])
         /\ Fine([j EXCEPT !.at = "armed"])
         /\ Real(j.mine) => /\ Fine([j EXCEPT !.at = "recheck"])
                           /\ Fine([j EXCEPT !.at = "write"])
         /\ Real(j.mine) /\ j.op # "trail" => Fine([j EXCEPT !.at = "call"])
         /\ j.op = "trail" => Fine([j EXCEPT !.at = "drop"])
         /\ j.key \in Orders => Fine([j EXCEPT !.at = "read"])
<1> USE DEF Fine, Handles, Creating, IsJob
<1>1. Fine([j EXCEPT !.at = "record"])
  OBVIOUS
<1>2. Fine([j EXCEPT !.at = "arm"]) /\ Fine([j EXCEPT !.at = "armed"])
  OBVIOUS
<1>3. Real(j.mine) => Fine([j EXCEPT !.at = "recheck"])
  OBVIOUS
<1>4. Real(j.mine) => Fine([j EXCEPT !.at = "write"])
  OBVIOUS
<1>5. Real(j.mine) /\ j.op # "trail" => Fine([j EXCEPT !.at = "call"])
  OBVIOUS
<1>6. j.op = "trail" => Fine([j EXCEPT !.at = "drop"])
  OBVIOUS
<1>7. j.key \in Orders => Fine([j EXCEPT !.at = "read"])
  OBVIOUS
<1> QED
  BY <1>1, <1>2, <1>3, <1>4, <1>5, <1>6, <1>7

(* A step of one thread that places nothing and loses no row. *)
LEMMA QuietStep ==
  ASSUME PlacingInv, NEW t \in Threads, NEW j, Fine(j),
         job' = [job EXCEPT ![t] = j], placed' = placed,
         \/ row' = row
         \/ \E o, m : Real(m) /\ row' = [row EXCEPT ![o] = m]
  PROVE  PlacingInv'
<1>1. /\ row' = [o \in Orders |-> row'[o]]
      /\ \A o \in Orders : row'[o] = row[o] \/ Real(row'[o])
  BY DEF PlacingInv
<1>2. /\ job' = [u \in Threads |-> job'[u]]
      /\ \A u \in Threads : u # t => job'[u] = job[u]
      /\ job'[t] = j
  BY DEF PlacingInv
<1>3. \A u \in Threads : Handles(job'[u])
  BY <1>2 DEF PlacingInv, Fine
<1>4. \A u \in Threads : Creating(job'[u]) => Creating(job[u]) /\ job'[u] = job[u]
  BY <1>2 DEF Fine
<1>5. \A o \in Orders : row'[o] = NoRow \/ Real(row'[o])
  BY <1>1 DEF PlacingInv
<1>6. \A o \in Orders : row'[o] = NoRow => row[o] = NoRow
  BY <1>1, NoRowIsNoCopy
<1>7. \A o \in Orders : Real(row[o]) => Real(row'[o])
  BY <1>1
<1> QED
  BY <1>1, <1>2, <1>3, <1>4, <1>5, <1>6, <1>7 DEF PlacingInv

(***************************************************************************)
(* The actions.                                                            *)
(***************************************************************************)

LEMMA SavePlaces ==
  ASSUME PlacingInv, NEW t \in Threads, Save(t)
  PROVE  PlacingInv'
<1> DEFINE j == job[t]
<1>1. Handles(j) /\ Real(j.mine)
  BY DEF PlacingInv, Save, Handles
<1>2. Fine(AfterSave(j))
  <2>1. CASE j.op = "half"
    BY <1>1, <2>1, Continued DEF AfterSave
  <2>2. CASE j.op = "trail"
    BY <1>1, <2>2, Continued DEF AfterSave
  <2>3. CASE j.op \notin {"half", "trail"}
    BY <1>1, <2>3, ResumeHandles DEF AfterSave
  <2> QED
    BY <2>1, <2>2, <2>3
<1>3. /\ job' = [job EXCEPT ![t] = AfterSave(j)]
      /\ row' = [row EXCEPT ![j.key] = j.mine]
      /\ placed' = placed
  BY DEF Save, Becomes, brokerVars
<1> HIDE DEF j
<1> QED
  BY <1>1, <1>2, <1>3, QuietStep

LEMMA DropRulePlaces ==
  ASSUME PlacingInv, NEW t \in Threads, DropRule(t)
  PROVE  PlacingInv'
<1>1. Handles(job[t]) /\ job[t].at = "drop" /\ row' = row /\ placed' = placed
  BY DEF PlacingInv, DropRule, brokerVars
<1>2. CASE job[t].op = "close"
  <2>1. Real(job[t].mine)
    BY <1>1, <1>2 DEF Handles
  <2>2. job' = [job EXCEPT ![t] = [job[t] EXCEPT !.at = "write"]]
    BY <1>2 DEF DropRule, Becomes
  <2>3. Fine([job[t] EXCEPT !.at = "write"])
    BY <1>1, <1>2, <2>1, Continued
  <2> QED
    BY <1>1, <2>2, <2>3, QuietStep
<1>3. CASE job[t].op # "close"
  <2>1. job' = [job EXCEPT ![t] = Resume(job[t])]
    BY <1>3 DEF DropRule, Becomes
  <2> QED
    BY <1>1, <2>1, ResumeHandles, QuietStep
<1> QED
  BY <1>2, <1>3

(* A new handler of one order starts with the row it read. *)
LEMMA HandlerHandles ==
  ASSUME NEW op, NEW at, NEW o \in Orders, NEW m, op \notin {"create", "trail"}, Real(m)
  PROVE  /\ Fine(Handler(op, at, o, m))
         /\ \A n : Fine([Handler(op, at, o, m) EXCEPT !.lots = n])
<1>1. Fine(Handler(op, at, o, m))
  BY DEF Handler, Fine, Handles, Creating, IsJob, Idle
<1>2. ASSUME NEW n
      PROVE  Fine([Handler(op, at, o, m) EXCEPT !.lots = n])
  BY DEF Handler, Fine, Handles, Creating, IsJob, Idle
<1> QED
  BY <1>1, <1>2

LEMMA CreateRowPlaces ==
  ASSUME PlacingInv, NEW o \in Orders, NEW t, NEW kind, NEW source,
         CreateRow(t, o, Submitted(kind, source))
  PROVE  PlacingInv'
<1> DEFINE m == Submitted(kind, source)
           j == Handler("create", "call", o, m)
<1>1. Real(m) /\ m # NoRow
  BY DEF Real, IsRow, Submitted, NoRow
<1>2. Handles(j) /\ Creating(j) /\ j.key = o
  BY <1>1 DEF Handler, Fine, Handles, Creating, IsJob, Idle
<1>3. /\ t \in Threads /\ row[o] = NoRow /\ placed' = placed
      /\ row' = [row EXCEPT ![o] = m] /\ job' = [job EXCEPT ![t] = j]
  BY DEF CreateRow, Becomes, brokerVars
<1>4. placed[o] = 0 /\ ~Real(row[o])
  BY <1>3, NoRowIsNoCopy DEF PlacingInv
<1> HIDE DEF m, j
<1>5. /\ row' = [u \in Orders |-> row'[u]]
      /\ \A u \in Orders : row'[u] = IF u = o THEN m ELSE row[u]
  BY <1>3 DEF PlacingInv
<1>6. /\ job' = [u \in Threads |-> job'[u]]
      /\ \A u \in Threads : job'[u] = IF u = t THEN j ELSE job[u]
  BY <1>3 DEF PlacingInv
<1>7. \A u \in Threads : Creating(job[u]) => job[u].key # o
  BY <1>4 DEF PlacingInv
<1> QED
  BY <1>1, <1>2, <1>3, <1>4, <1>5, <1>6, <1>7 DEF PlacingInv

LEMMA PlaceOrderPlaces ==
  ASSUME PlacingInv, NEW t \in Threads, PlaceOrder(t)
  PROVE  PlacingInv'
<1> DEFINE j == job[t]
           o == job[t].key
<1>1. /\ Handles(j) /\ Creating(j) /\ Real(j.mine)
      /\ o \in Orders /\ Real(row[o]) /\ placed[o] = 0
  BY DEF PlacingInv, PlaceOrder, Runs, Fine, Handles, Creating
<1>2. row' = row
  BY DEF PlaceOrder, storeVars
<1>3. placed' = placed \/ placed' = [placed EXCEPT ![o] = @ + 1]
  BY DEF PlaceOrder, Place, Nothing
<1>4. PICK m : Real(m) /\ job' = [job EXCEPT ![t] = [j EXCEPT !.at = "write", !.mine = m]]
  <2>1. Real(StatusIs(j.mine, "rejected"))
    BY <1>1, StatusReal DEF Real
  <2>2. \A m \in Placed(o, j.mine) : Real(m)
    BY <1>1 DEF Placed, Real, IsRow
  <2> QED
    BY <2>1, <2>2 DEF PlaceOrder, Becomes
<1>5. Fine([j EXCEPT !.at = "write", !.mine = m])
  BY <1>1, <1>4, GoOn
<1>6. /\ job' = [u \in Threads |-> job'[u]]
      /\ \A u \in Threads : u # t => job'[u] = job[u]
      /\ Fine(job'[t])
  BY <1>4, <1>5 DEF PlacingInv
<1>7. \A u \in Threads : u # t /\ Creating(job[u]) => job[u].key # o
  BY <1>1 DEF PlacingInv
<1>8. /\ placed' \in [Orders -> {0, 1}]
      /\ \A u \in Orders : u # o => placed'[u] = placed[u]
  BY <1>1, <1>3 DEF PlacingInv
<1>9. row[o] # NoRow
  BY <1>1, NoRowIsNoCopy
<1> HIDE DEF j, o
<1> QED
  BY <1>2, <1>6, <1>7, <1>8, <1>9 DEF PlacingInv, Fine

LEMMA RequestPlaces ==
  ASSUME PlacingInv, NEW o \in Orders, NEW op, NEW at, NEW n, Request(op, at, o, n)
  PROVE  PlacingInv'
<1>1. Real(row[o]) /\ op \notin {"create", "trail"} /\ "rest" \in Threads
  BY LifecycleAssumption DEF PlacingInv, Request
<1>2. /\ job' = [job EXCEPT !["rest"] = [Handler(op, at, o, row[o]) EXCEPT !.lots = n]]
      /\ row' = row /\ placed' = placed
  BY DEF Request, Becomes, storeVars, brokerVars
<1> QED
  BY <1>1, <1>2, HandlerHandles, QuietStep

LEMMA EndedHandles ==
  ASSUME NEW j, Handles(j), Real(j.mine), j.op # "create"
  PROVE  Fine(Ended(j))
<1>1. IsJob(j) /\ j.todo \subseteq Orders /\ IsRow(j.mine)
  BY DEF Handles, Real
<1>2. CASE j.op = "cancel"
  <2>1. Real([j.mine EXCEPT !.status = "cancelled"])
    BY <1>1 DEF Real, IsRow
  <2>2. Ended(j) = [j EXCEPT !.at = "write", !.mine = [@ EXCEPT !.status = "cancelled"]]
    BY <1>2 DEF Ended
  <2> QED
    BY <1>1, <1>2, <2>1, <2>2 DEF Fine, Handles, Creating, IsJob
<1>3. CASE j.op # "cancel"
  <2>1. Real([j.mine EXCEPT !.status = "closed"])
    BY <1>1 DEF Real, IsRow
  <2>2. Ended(j) = [j EXCEPT !.at = "drop", !.mine = [@ EXCEPT !.status = "closed"]]
    BY <1>3 DEF Ended
  <2> QED
    BY <1>1, <1>3, <2>1, <2>2 DEF Fine, Handles, Creating, IsJob
<1> QED
  BY <1>2, <1>3

LEMMA CheckMissingPlaces ==
  ASSUME PlacingInv, NEW t \in Threads, CheckMissing(t)
  PROVE  PlacingInv'
<1>1. /\ Handles(job[t]) /\ Real(job[t].mine) /\ job[t].op # "create"
      /\ row' = row /\ placed' = placed
  BY DEF PlacingInv, CheckMissing, Handles, brokerVars, storeVars
<1>2. \/ job' = [job EXCEPT ![t] = Ended(job[t])]
      \/ job' = [job EXCEPT ![t] = [job[t] EXCEPT !.at = "call"]] /\ job[t].at = "check"
      \/ job' = [job EXCEPT ![t] = Idle]
  BY DEF CheckMissing, Becomes
<1>3. job[t].op # "trail" \/ job[t].at # "check"
  BY <1>1 DEF Handles
<1>4. CASE job' = [job EXCEPT ![t] = Ended(job[t])]
  BY <1>1, <1>4, EndedHandles, QuietStep
<1>5. CASE job' = [job EXCEPT ![t] = [job[t] EXCEPT !.at = "call"]] /\ job[t].at = "check"
  <2>1. Fine([job[t] EXCEPT !.at = "call"])
    BY <1>1, <1>3, <1>5, Continued
  <2> QED
    BY <1>1, <1>5, <2>1, QuietStep
<1>6. CASE job' = [job EXCEPT ![t] = Idle]
  BY <1>1, <1>6, IdleHandles, QuietStep
<1> QED
  BY <1>2, <1>4, <1>5, <1>6

LEMMA FailedHandles ==
  ASSUME NEW j, Handles(j), Real(j.mine), j.op # "create"
  PROVE  Fine(Failed(j))
  BY Continued, ResumeHandles DEF Failed

LEMMA CancelCallPlaces ==
  ASSUME PlacingInv, NEW t \in Threads, CancelCall(t)
  PROVE  PlacingInv'
<1>1. /\ Handles(job[t]) /\ Real(job[t].mine) /\ job[t].op # "create"
      /\ row' = row /\ placed' = placed
  BY DEF PlacingInv, CancelCall, Runs, Handles, storeVars, Remove, Nothing
<1>2. \/ job' = [job EXCEPT ![t] = [job[t] EXCEPT !.at = "write", !.mine.status = "cancelled"]]
      \/ job' = [job EXCEPT ![t] = Failed(job[t])]
  BY DEF CancelCall, Becomes
<1>3. LET j == [job[t] EXCEPT !.at = "write", !.mine.status = "cancelled"]
      IN  Fine(j)
  BY <1>1 DEF Fine, Handles, Creating, IsJob, Real, IsRow
<1> QED
  BY <1>1, <1>2, <1>3, FailedHandles, QuietStep

LEMMA CloseCallPlaces ==
  ASSUME PlacingInv, NEW t \in Threads, CloseCall(t)
  PROVE  PlacingInv'
<1>1. /\ Handles(job[t]) /\ Real(job[t].mine) /\ job[t].op # "create"
      /\ row' = row /\ placed' = placed
  BY DEF PlacingInv, CloseCall, Runs, Handles, storeVars, Reduce, Nothing
<1>2. \/ job' = [job EXCEPT ![t] = Closed(job[t])]
      \/ job' = [job EXCEPT ![t] = Failed(job[t])]
  BY DEF CloseCall, Becomes
<1>3. job[t].at = "call"
  BY DEF CloseCall, Runs
<1>4. Fine(Closed(job[t]))
  <2>1. CASE job[t].op = "trail"
    <3>1. job[t].key \in Orders
      BY <1>1, <1>3, <2>1 DEF Handles
    <3> QED
      BY <1>1, <2>1, <3>1, Continued DEF Closed
  <2>2. CASE job[t].op # "trail"
    <3>1. LET j == [job[t] EXCEPT !.at = "write", !.mine.lots = Max2(0, @ - job[t].lots)]
          IN  Fine(j)
      BY <1>1 DEF Fine, Handles, Creating, IsJob, Real, IsRow
    <3> QED
      BY <1>1, <2>2, <3>1, EndedHandles DEF Closed
  <2> QED
    BY <2>1, <2>2
<1> QED
  BY <1>1, <1>2, <1>4, FailedHandles, QuietStep

LEMMA ModifyCallPlaces ==
  ASSUME PlacingInv, NEW t \in Threads, ModifyCall(t)
  PROVE  PlacingInv'
<1>1. /\ Handles(job[t]) /\ Real(job[t].mine) /\ job[t].op # "create"
      /\ row' = row /\ placed' = placed
  BY DEF PlacingInv, ModifyCall, Runs, Handles, storeVars, brokerVars
<1>2. Real(StatusIs(job[t].mine, "sync_error"))
  BY <1>1, StatusReal DEF Real
<1>3. \/ \E m : Real(m) /\ job' = [job EXCEPT ![t] = [job[t] EXCEPT !.at = "write", !.mine = m]]
      \/ job' = [job EXCEPT ![t] = Idle]
  BY <1>1, <1>2 DEF ModifyCall, Becomes
<1> QED
  BY <1>1, <1>3, GoOn, IdleHandles, QuietStep

LEMMA PassHandles ==
  ASSUME NEW op, NEW at \in {"orders", "positions", "each"}, NEW S \in SUBSET Orders,
         op # "create", op = "trail" \/ \A o \in S : Real(row[o])
  PROVE  /\ Fine(Pass(op, at, S))
         /\ \A r, b : LET j == [Pass(op, at, S) EXCEPT !.rules = r, !.bar = b]
                     IN  Fine(j)
<1>1. Fine(Pass(op, at, S))
  BY DEF Pass, Fine, Handles, Creating, IsJob, Idle
<1>2. ASSUME NEW r, NEW b
      PROVE  LET j == [Pass(op, at, S) EXCEPT !.rules = r, !.bar = b]
             IN  Fine(j)
  BY DEF Pass, Fine, Handles, Creating, IsJob, Idle
<1> QED
  BY <1>1, <1>2

(* A pass starts with copies of rows that exist, the trailing exits with   *)
(* whatever is there.                                                      *)
LEMMA StartPlaces ==
  ASSUME PlacingInv, NEW t \in Threads, NEW j, Fine(j), Start(t, j)
  PROVE  PlacingInv'
<1>1. job' = [job EXCEPT ![t] = j] /\ row' = row /\ placed' = placed
  BY DEF Start, Becomes, storeVars, brokerVars
<1> QED
  BY <1>1, QuietStep

LEMMA Present ==
  ASSUME PlacingInv, NEW o \in Orders, row[o].status # "absent"
  PROVE  Real(row[o])
<1>1. row[o] # NoRow
  BY DEF NoRow
<1> QED
  BY <1>1 DEF PlacingInv

LEMMA StartReconciliationPlaces ==
  ASSUME PlacingInv, NEW t \in Reconcilers, StartReconciliation(t)
  PROVE  PlacingInv'
<1> DEFINE S == {o \in Orders : row[o].status \in Live}
<1>1. \A o \in S : Real(row[o])
  BY Present DEF Live
<1>2. Fine(Pass("reconcile", "orders", S))
  BY <1>1, PassHandles
<1>3. t \in Threads /\ Start(t, Pass("reconcile", "orders", S))
  BY DEF Threads, StartReconciliation
<1> HIDE DEF S
<1> QED
  BY <1>2, <1>3, StartPlaces

LEMMA StartSyncPlaces ==
  ASSUME PlacingInv, StartSync
  PROVE  PlacingInv'
<1>1. PICK S \in SUBSET {o \in Orders :
         \/ row[o].status \in {"filled", "sync_error"} /\ row[o].pos # None
         \/ row[o].status = "working" /\ row[o].order} :
       Start("sync", Pass("sync", "each", S))
  BY DEF StartSync
<1>2. \A o \in S : Real(row[o])
  BY <1>1, Present
<1>3. Fine(Pass("sync", "each", S))
  BY <1>2, PassHandles
<1>4. "sync" \in Threads
  BY DEF StartSync
<1> QED
  BY <1>1, <1>3, <1>4, StartPlaces

LEMMA StartUnfilledPlaces ==
  ASSUME PlacingInv, StartUnfilled
  PROVE  PlacingInv'
<1>1. PICK S \in SUBSET {o \in Orders : /\ row[o].source = "auto" /\ row[o].kind = "limit"
                                       /\ row[o].status = "working"} :
       Start("engine", Pass("unfilled", "each", S))
  BY DEF StartUnfilled
<1>2. \A o \in S : Real(row[o])
  BY <1>1, Present
<1>3. Fine(Pass("unfilled", "each", S))
  BY <1>2, PassHandles
<1>4. "engine" \in Threads
  BY DEF StartUnfilled
<1> QED
  BY <1>1, <1>3, <1>4, StartPlaces

LEMMA StartHalvesPlaces ==
  ASSUME PlacingInv, "engine" \in Threads, NEW source, StartHalves(source)
  PROVE  PlacingInv'
<1>1. PICK S \in SUBSET {o \in Orders : /\ row[o].source = source
                                       /\ row[o].status = "filled" /\ row[o].pos # None
                                       /\ o \notin taken} :
       Start("engine", Pass("half", "positions", S))
  BY DEF StartHalves
<1>2. \A o \in S : Real(row[o])
  BY <1>1, Present
<1>3. Fine(Pass("half", "positions", S))
  BY <1>2, PassHandles
<1> QED
  BY <1>1, <1>3, StartPlaces

LEMMA OnClosedBarPlaces ==
  ASSUME PlacingInv, NEW b, OnClosedBar(b)
  PROVE  PlacingInv'
<1> DEFINE S == {o \in Orders : rule[o] # NoRule /\ rule[o].last < b}
           j == [Pass("trail", "each", S) EXCEPT !.rules = rule, !.bar = b]
<1>1. Fine(j)
  BY PassHandles
<1>2. "engine" \in Threads /\ Start("engine", j)
  BY DEF OnClosedBar
<1> HIDE DEF j
<1> QED
  BY <1>1, <1>2, StartPlaces

(* Repairs keep a row a row. *)
LEMMA RepairReal ==
  ASSUME NEW o, NEW m, Real(m), NEW p, NEW late, NEW listed, NEW held
  PROVE  Real(FindClose(FindFill(o, FindTicket(o, m, p, late), p, listed), held))
<1>1. Real(FindTicket(o, m, p, late))
  BY DEF FindTicket, Real, IsRow, StatusIs
<1>2. \A n : Real(n) => Real(FindFill(o, n, p, listed))
  BY DEF FindFill, Real, IsRow, StatusIs
<1>3. \A n : Real(n) => Real(FindClose(n, held))
  BY DEF FindClose, Real, IsRow, StatusIs
<1> QED
  BY <1>1, <1>2, <1>3

(* The next call or write, with another key, copy or volume. *)
LEMMA Handled ==
  ASSUME NEW j, Handles(j), j.op # "create", NEW o \in Orders, NEW m, Real(m), NEW n
  PROVE  /\ Fine([j EXCEPT !.at = "write", !.key = o, !.mine = m])
         /\ Fine([j EXCEPT !.at = "call", !.key = o, !.mine = m])
         /\ Fine([j EXCEPT !.at = "call", !.key = o, !.mine = m, !.lots = n])
         /\ j.key \in Orders => Fine([j EXCEPT !.at = "call", !.mine = m, !.lots = n])
<1> USE DEF Fine, Handles, Creating, IsJob
<1>1. Fine([j EXCEPT !.at = "write", !.key = o, !.mine = m])
  OBVIOUS
<1>2. Fine([j EXCEPT !.at = "call", !.key = o, !.mine = m])
  OBVIOUS
<1>3. Fine([j EXCEPT !.at = "call", !.key = o, !.mine = m, !.lots = n])
  OBVIOUS
<1>4. j.key \in Orders => Fine([j EXCEPT !.at = "call", !.mine = m, !.lots = n])
  OBVIOUS
<1> QED
  BY <1>1, <1>2, <1>3, <1>4

LEMMA ReconcileOrderPlaces ==
  ASSUME PlacingInv, NEW t \in Threads, NEW o \in Orders, NEW late, ReconcileOrder(t, o, late)
  PROVE  PlacingInv'
<1> DEFINE j == job[t]
           rest == After(j, o)
<1>1. /\ Handles(j) /\ j.op = "reconcile" /\ Real(j.rows[o])
      /\ row' = row /\ placed' = placed
  BY DEF PlacingInv, ReconcileOrder, Runs, Handles, storeVars, brokerVars
<1>2. Handles(rest) /\ rest.op = "reconcile"
  BY <1>1, AfterHandles
<1>3. \/ job' = [job EXCEPT ![t] = Resume(rest)]
      \/ \E m : /\ Real(m)
               /\ job' = [job EXCEPT ![t] = [rest EXCEPT !.at = "write", !.key = o, !.mine = m]]
  BY <1>1, RepairReal DEF ReconcileOrder, Becomes
<1> HIDE DEF j, rest
<1>4. CASE job' = [job EXCEPT ![t] = Resume(rest)]
  BY <1>1, <1>2, <1>4, ResumeHandles, QuietStep
<1>5. CASE \E m : /\ Real(m)
               /\ job' = [job EXCEPT ![t] = [rest EXCEPT !.at = "write", !.key = o, !.mine = m]]
  <2>1. PICK m : /\ Real(m)
                 /\ job' = [job EXCEPT ![t] = [rest EXCEPT !.at = "write", !.key = o, !.mine = m]]
    BY <1>5
  <2>2. Fine([rest EXCEPT !.at = "write", !.key = o, !.mine = m])
    BY <1>2, <2>1, Handled
  <2> QED
    BY <1>1, <2>1, <2>2, QuietStep
<1> QED
  BY <1>3, <1>4, <1>5

LEMMA CallNextPlaces ==
  ASSUME PlacingInv, NEW t \in Threads, NEW o \in Orders, CallNext(t, o)
  PROVE  PlacingInv'
<1> DEFINE rest == After(job[t], o)
<1>1. /\ Handles(job[t]) /\ job[t].op \in {"sync", "unfilled"} /\ Real(job[t].rows[o])
      /\ row' = row /\ placed' = placed
      /\ job' = [job EXCEPT ![t] = [rest EXCEPT !.at = "call", !.key = o,
                                                !.mine = job[t].rows[o]]]
  BY DEF PlacingInv, CallNext, Runs, Handles, storeVars, brokerVars, Becomes
<1>2. Handles(rest) /\ rest.op \in {"sync", "unfilled"}
  BY <1>1, AfterHandles
<1> HIDE DEF rest
<1> QED
  BY <1>1, <1>2, Handled, QuietStep

LEMMA HalveOrderPlaces ==
  ASSUME PlacingInv, NEW t \in Threads, NEW o \in Orders, HalveOrder(t, o)
  PROVE  PlacingInv'
<1> DEFINE rest == After(job[t], o)
<1>1. /\ Handles(job[t]) /\ job[t].op = "half" /\ Real(job[t].rows[o])
      /\ row' = row /\ placed' = placed
  BY DEF PlacingInv, HalveOrder, Runs, Handles, storeVars, brokerVars
<1>2. Handles(rest) /\ rest.op = "half"
  BY <1>1, AfterHandles
<1>3. \/ job' = [job EXCEPT ![t] = Resume(rest)]
      \/ \E n : job' = [job EXCEPT ![t] = [rest EXCEPT !.at = "call", !.key = o,
                                            !.mine = job[t].rows[o], !.lots = n]]
  BY DEF HalveOrder, Becomes
<1> HIDE DEF rest
<1>4. CASE job' = [job EXCEPT ![t] = Resume(rest)]
  BY <1>1, <1>2, <1>4, ResumeHandles, QuietStep
<1>5. CASE \E n : job' = [job EXCEPT ![t] = [rest EXCEPT !.at = "call", !.key = o,
                                            !.mine = job[t].rows[o], !.lots = n]]
  <2>1. PICK n : job' = [job EXCEPT ![t] = [rest EXCEPT !.at = "call", !.key = o,
                                             !.mine = job[t].rows[o], !.lots = n]]
    BY <1>5
  <2>2. Fine([rest EXCEPT !.at = "call", !.key = o, !.mine = job[t].rows[o], !.lots = n])
    BY <1>1, <1>2, Handled
  <2> QED
    BY <1>1, <2>1, <2>2, QuietStep
<1> QED
  BY <1>3, <1>4, <1>5

LEMMA CheckpointPlaces ==
  ASSUME PlacingInv, NEW t \in Threads, NEW o \in Orders, Checkpoint(t, o)
  PROVE  PlacingInv'
<1> DEFINE rest == After(job[t], o)
<1>1. /\ Handles(job[t]) /\ job[t].op = "trail" /\ row' = row /\ placed' = placed
  BY DEF PlacingInv, Checkpoint, Runs, brokerVars
<1>2. Handles(rest) /\ rest.op = "trail"
  BY <1>1, AfterHandles
<1>3. \/ job' = [job EXCEPT ![t] = Resume(rest)]
      \/ job' = [job EXCEPT ![t] = [rest EXCEPT !.at = "look", !.key = o]]
  BY DEF Checkpoint, Becomes
<1>4. Fine([rest EXCEPT !.at = "look", !.key = o])
  BY <1>2 DEF Fine, Handles, Creating, IsJob
<1> HIDE DEF rest
<1> QED
  BY <1>1, <1>2, <1>3, <1>4, ResumeHandles, QuietStep

LEMMA LookForExitPlaces ==
  ASSUME PlacingInv, NEW t \in Threads, LookForExit(t)
  PROVE  PlacingInv'
<1> DEFINE j == job[t]
           m == row[j.key]
           n == position[j.rules[j.key].ticket]
<1>1. Handles(j) /\ j.op = "trail" /\ row' = row /\ placed' = placed
  BY DEF PlacingInv, LookForExit, Runs, storeVars, brokerVars
<1>2. CASE job' = [job EXCEPT ![t] = [j EXCEPT !.at = "drop"]]
  BY <1>1, <1>2, Continued, QuietStep
<1>3. CASE /\ m.status \in {"filled", "sync_error"}
           /\ job' = [job EXCEPT ![t] = [j EXCEPT !.at = "call", !.mine = m, !.lots = n]]
  <2>1. j.key \in Orders
    <3>1. j.at = "look"
      BY DEF LookForExit, Runs
    <3> QED
      BY <1>1, <3>1 DEF Handles
  <2>2. Real(m)
    BY <1>3, <2>1, Present
  <2> HIDE DEF j, m, n
  <2> QED
    BY <1>1, <1>3, <2>1, <2>2, Handled, QuietStep
<1> QED
  BY <1>2, <1>3 DEF LookForExit, Becomes

LEMMA ReadSavedPlaces ==
  ASSUME PlacingInv, NEW t \in Threads, ReadSaved(t)
  PROVE  PlacingInv'
<1> DEFINE m == StatusIs(row[job[t].key], "closed")
<1>0. /\ Handles(job[t]) /\ job[t].op = "trail" /\ job[t].at = "read"
      /\ row' = row /\ placed' = placed
  BY DEF PlacingInv, ReadSaved, Runs, storeVars, brokerVars
<1>1. job[t].key \in Orders
  BY <1>0 DEF Handles
<1>2. IsRow(row[job[t].key])
  BY <1>1, NoRowIsNoCopy DEF PlacingInv, Real
<1>3. Real(m)
  BY <1>2, StatusReal
<1>4. job' = [job EXCEPT ![t] = [job[t] EXCEPT !.at = "write", !.mine = m]]
  BY DEF ReadSaved, Becomes
<1> HIDE DEF m
<1> QED
  BY <1>0, <1>3, <1>4, GoOn, QuietStep

(* Steps that only change the place of a handler, or end it. *)
LEMMA PlainPlaces ==
  ASSUME PlacingInv, NEW t \in Threads,
         \/ StoreRule(t) \/ ListOrders(t) \/ ListPositions(t) \/ ListingFails(t)
         \/ RecordHalf(t) \/ Arm(t) \/ RecordArmed(t)
  PROVE  PlacingInv'
<1> DEFINE j == job[t]
<1>1. Handles(j)
  BY DEF PlacingInv
<1>2. CASE StoreRule(t) \/ ListingFails(t)
  BY <1>2, IdleHandles, QuietStep
     DEF StoreRule, ListingFails, Becomes, brokerVars, storeVars
<1>3. CASE ListOrders(t) \/ ListPositions(t)
  <2>1. j.op # "create" /\ row' = row /\ placed' = placed
    BY <1>1, <1>3 DEF Handles, ListOrders, ListPositions, brokerVars, storeVars
  <2>2. PICK k : /\ job' = [job EXCEPT ![t] = k]
                 /\ \/ k = [j EXCEPT !.at = "positions", !.listed = pending]
                    \/ k = [j EXCEPT !.at = "each", !.held = position]
    BY <1>3 DEF ListOrders, ListPositions, Becomes
  <2>3. Fine(k)
    <3>1. Fine([j EXCEPT !.at = "positions", !.listed = pending])
      BY <1>1, <2>1 DEF Fine, Handles, Creating, IsJob
    <3>2. Fine([j EXCEPT !.at = "each", !.held = position])
      BY <1>1, <2>1 DEF Fine, Handles, Creating, IsJob
    <3> QED
      BY <2>2, <3>1, <3>2
  <2> QED
    BY <2>1, <2>2, <2>3, QuietStep
<1>4. CASE RecordHalf(t) \/ Arm(t) \/ RecordArmed(t)
  <2>1. j.op # "create" /\ row' = row /\ placed' = placed
    BY <1>1, <1>4 DEF Handles, RecordHalf, Arm, Runs, RecordArmed, brokerVars
  <2>2. \/ job' = [job EXCEPT ![t] = Resume(j)]
        \/ job' = [job EXCEPT ![t] = [j EXCEPT !.at = "arm"]]
        \/ job' = [job EXCEPT ![t] = [j EXCEPT !.at = "armed"]]
    BY <1>4 DEF RecordHalf, Arm, RecordArmed, Becomes
  <2> HIDE DEF j
  <2> QED
    BY <1>1, <2>1, <2>2, ResumeHandles, Continued, QuietStep
<1> QED
  BY <1>2, <1>3, <1>4

LEMMA ArmAgainPlaces ==
  ASSUME PlacingInv, NEW o \in Orders, ArmAgain(o)
  PROVE  PlacingInv'
<1>1. "engine" \in Threads /\ row[o].status \in Live /\ row' = row /\ placed' = placed
      /\ job' = [job EXCEPT !["engine"] = Handler("half", "arm", o, row[o])]
  BY DEF ArmAgain, Becomes, storeVars, brokerVars
<1>2. Real(row[o])
  BY <1>1, Present DEF Live
<1> QED
  BY <1>1, <1>2, HandlerHandles, QuietStep

LEMMA CrashPlaces ==
  ASSUME PlacingInv, Crash
  PROVE  PlacingInv'
<1>1. row' = row /\ placed' = placed /\ job' = [t \in Threads |-> Idle]
  BY DEF Crash, storeVars, brokerVars
<1> QED
  BY <1>1, IdleHandles DEF PlacingInv, Fine

LEMMA OthersPlace ==
  ASSUME PlacingInv, NEW o \in Orders, DisableTrailing(o) \/ BrokerActs(o)
  PROVE  PlacingInv'
<1>1. row' = row /\ placed' = placed /\ job' = job
  BY DEF DisableTrailing, BrokerActs, Fill, EndAtBroker, Remove, Reduce, storeVars, brokerVars
<1> QED
  BY <1>1 DEF PlacingInv

LEMMA PlacingInvariant == Spec => []PlacingInv
<1>1. Init => PlacingInv
  BY IdleHandles DEF Init, BrokerInit, NoRows, PlacingInv, Fine
<1>2. PlacingInv /\ [Next]_vars => PlacingInv'
  <2> SUFFICES ASSUME PlacingInv, [Next]_vars PROVE PlacingInv'
    OBVIOUS
  <2>1. ASSUME NEW o \in Orders, RestRequest(o) \/ SubmitForSignal(o)
        PROVE  PlacingInv'
    BY <2>1, CreateRowPlaces, RequestPlaces, OthersPlace
       DEF RestRequest, CreateOrder, SubmitForSignal, CancelOrder, CloseOrder,
           PatchOrder, EnableTrailing
  <2>2. ASSUME NEW o \in Orders, BrokerActs(o)
        PROVE  PlacingInv'
    BY <2>2, OthersPlace
  <2>3. CASE (\E t \in Reconcilers : StartReconciliation(t)) \/ StartSync
    BY <2>3, StartReconciliationPlaces, StartSyncPlaces
  <2>4. CASE EngineStarts
    BY <2>4, StartUnfilledPlaces, StartHalvesPlaces, ArmAgainPlaces, OnClosedBarPlaces
       DEF EngineStarts, TakeProfitAt1R, TakeProfitHalfAt1R
  <2>5. ASSUME NEW t \in Threads, Continue(t)
        PROVE  PlacingInv'
    <3>1. CASE \E o \in Orders : EachOrder(t, o)
      BY <3>1, ReconcileOrderPlaces, CallNextPlaces, HalveOrderPlaces, CheckpointPlaces
         DEF EachOrder
    <3>2. CASE ~\E o \in Orders : EachOrder(t, o)
      BY <2>5, <3>2, SavePlaces, DropRulePlaces, PlaceOrderPlaces, CheckMissingPlaces,
         CancelCallPlaces, CloseCallPlaces, ModifyCallPlaces, LookForExitPlaces,
         ReadSavedPlaces, PlainPlaces
         DEF Continue
    <3> QED
      BY <3>1, <3>2
  <2>6. CASE Crash
    BY <2>6, CrashPlaces
  <2>7. CASE UNCHANGED vars
    BY <2>7 DEF PlacingInv, vars, brokerVars, storeVars
  <2>8. CASE Next
    BY <2>1, <2>2, <2>3, <2>4, <2>5, <2>6, <2>8 DEF Next
  <2> QED
    BY <2>7, <2>8
<1> QED
  BY <1>1, <1>2, PTL DEF Spec

(***************************************************************************)
(* An idempotency key reaches the broker at most once: what is submitted   *)
(* has no row yet, gets one before the call, and the row is never lost.    *)
(***************************************************************************)
THEOREM PlacedAtMostOnce == Spec => []PlacedOnce
<1>1. PlacingInv => PlacedOnce
  <2> SUFFICES ASSUME PlacingInv, NEW o \in Orders PROVE placed[o] <= 1
    BY DEF PlacedOnce
  <2>1. placed[o] \in {0, 1}
    BY DEF PlacingInv
  <2> QED
    BY <2>1
<1> QED
  BY <1>1, PlacingInvariant, PTL

(***************************************************************************)
(* The 1R half.  Only the engine takes halves, one order after the other,  *)
(* of orders without the event; between the close and the event the order  *)
(* is the one the engine has in hand.                                      *)
(***************************************************************************)

HalfJob(j, recorded) ==
  j.op = "half" =>
    /\ j.at \in {"positions", "each", "call", "write", "record", "arm", "armed"}
    /\ j.todo \cap recorded = {}
    /\ j.at \in {"call", "write", "record"} => j.key \notin j.todo
    /\ j.at = "call" => j.key \notin recorded

Halving(j, o) == j.op = "half" /\ j.at \in {"write", "record"} /\ j.key = o

HalvesInv ==
  /\ halves \in [Orders -> Nat] /\ faults \in Nat /\ crashes \in Nat
  /\ \A t \in Threads : /\ job[t].op = "half" => t = "engine"
                        /\ job[t].at = "record" => job[t].op = "half"
                        /\ HalfJob(job[t], taken)
  /\ \A o \in Orders :
       \/ halves[o] <= Mishaps
       \/ /\ halves[o] <= Mishaps + 1
          /\ o \in taken \/ \E t \in Threads : Halving(job[t], o)

(* A step that closes no half and records none. *)
LEMMA QuietHalf ==
  ASSUME PlacingInv, HalvesInv, NEW t \in Threads, NEW j,
         job' = [job EXCEPT ![t] = j],
         halves' = halves, taken' = taken, crashes' = crashes,
         faults' = faults \/ faults' = faults + 1,
         j.op = "half" => t = "engine", j.at = "record" => j.op = "half",
         HalfJob(j, taken),
         \A o : Halving(job[t], o) => Halving(j, o)
  PROVE  HalvesInv'
<1>1. /\ job'[t] = j
      /\ \A u \in Threads : u # t => job'[u] = job[u]
  BY DEF PlacingInv
<1>2. \A u \in Threads : /\ job'[u].op = "half" => u = "engine"
                         /\ job'[u].at = "record" => job'[u].op = "half"
                         /\ HalfJob(job'[u], taken)
  BY <1>1 DEF HalvesInv
<1>3. \A o : \A u \in Threads : Halving(job[u], o) => Halving(job'[u], o)
  BY <1>1
<1>4. /\ faults' \in Nat /\ Mishaps' \in Nat /\ Mishaps \in Nat /\ Mishaps <= Mishaps'
  BY DEF HalvesInv, Mishaps
<1>5. \A o \in Orders :
       \/ halves[o] <= Mishaps'
       \/ /\ halves[o] <= Mishaps' + 1
          /\ o \in taken \/ \E u \in Threads : Halving(job'[u], o)
  <2> SUFFICES ASSUME NEW o \in Orders
               PROVE  \/ halves[o] <= Mishaps'
                      \/ /\ halves[o] <= Mishaps' + 1
                         /\ o \in taken \/ \E u \in Threads : Halving(job'[u], o)
    OBVIOUS
  <2>1. halves[o] \in Nat
    BY DEF HalvesInv
  <2>2. CASE halves[o] <= Mishaps
    BY <1>4, <2>1, <2>2
  <2>3. CASE /\ halves[o] <= Mishaps + 1
             /\ o \in taken \/ \E u \in Threads : Halving(job[u], o)
    <3>1. halves[o] <= Mishaps' + 1
      BY <1>4, <2>1, <2>3
    <3> QED
      BY <1>3, <2>3, <3>1
  <2> QED
    BY <2>2, <2>3 DEF HalvesInv
<1> QED
  BY <1>2, <1>4, <1>5 DEF HalvesInv

(* A step of a handler that takes no halves. *)
LEMMA OtherHalf ==
  ASSUME PlacingInv, HalvesInv, NEW t \in Threads, NEW j,
         job' = [job EXCEPT ![t] = j],
         halves' = halves, taken' = taken, crashes' = crashes,
         faults' = faults \/ faults' = faults + 1,
         job[t].op # "half", j.op # "half", j.at # "record"
  PROVE  HalvesInv'
<1>1. HalfJob(j, taken) /\ \A o : ~Halving(job[t], o)
  BY DEF HalfJob, Halving
<1> QED
  BY <1>1, QuietHalf

(* Where other handlers go. *)
OtherJob(k) == IsJob(k) /\ k.op # "half" /\ k.at # "record"

LEMMA OtherIdle == OtherJob(Idle)
  BY DEF OtherJob, IsJob, Idle

LEMMA OtherPlaces ==
  ASSUME NEW j, IsJob(j), j.op # "half", NEW o
  PROVE  /\ OtherJob(Resume(j)) /\ OtherJob(AfterSave(j))
         /\ IsJob(After(j, o)) /\ After(j, o).op = j.op
         /\ OtherJob(Failed(j)) /\ OtherJob(Ended(j)) /\ OtherJob(Closed(j))
<1>1. OtherJob(Resume(j))
  BY OtherIdle DEF Resume, OtherJob, IsJob
<1>2. OtherJob(AfterSave(j))
  BY <1>1 DEF AfterSave, OtherJob, IsJob
<1>3. IsJob(After(j, o)) /\ After(j, o).op = j.op
  BY DEF After, IsJob
<1>4. OtherJob(Failed(j))
  BY <1>1 DEF Failed, OtherJob, IsJob
<1>5. OtherJob(Ended(j))
  BY DEF Ended, OtherJob, IsJob
<1>6. OtherJob(Closed(j))
  BY <1>5 DEF Closed, OtherJob, IsJob
<1> QED
  BY <1>1, <1>2, <1>3, <1>4, <1>5, <1>6

LEMMA OthersTakeNoHalves ==
  ASSUME PlacingInv, HalvesInv, NEW t \in Threads, Continue(t), job[t].op # "half"
  PROVE  HalvesInv'
<1> DEFINE j == job[t]
<1>1. IsJob(j) /\ j.at # "record"
  BY DEF PlacingInv, Handles, HalvesInv
<1>2. /\ halves' = halves /\ taken' = taken /\ crashes' = crashes
      /\ faults' = faults \/ faults' = faults + 1
  <2>1. CASE Save(t) \/ DropRule(t) \/ PlaceOrder(t) \/ CheckMissing(t) \/ CancelCall(t)
    BY <2>1 DEF Save, DropRule, PlaceOrder, CheckMissing, CancelCall, historyVars,
                storeVars, Raises
  <2>2. CASE CloseCall(t)
    BY <2>2 DEF CloseCall, storeVars, Raises
  <2>3. CASE ModifyCall(t) \/ StoreRule(t) \/ ListOrders(t) \/ ListPositions(t)
    BY <2>3 DEF ModifyCall, StoreRule, ListOrders, ListPositions, historyVars,
                storeVars, Raises
  <2>4. CASE ListingFails(t) \/ RecordHalf(t) \/ Arm(t) \/ RecordArmed(t)
    BY <1>1, <2>4 DEF ListingFails, RecordHalf, Arm, RecordArmed, historyVars,
                storeVars, Raises
  <2>5. CASE LookForExit(t) \/ ReadSaved(t) \/ \E o \in Orders : EachOrder(t, o)
    BY <2>5 DEF LookForExit, ReadSaved, EachOrder, ReconcileOrder, CallNext,
                HalveOrder, Checkpoint, historyVars, storeVars
  <2> QED
    BY <2>1, <2>2, <2>3, <2>4, <2>5 DEF Continue
<1>3. PICK k : job' = [job EXCEPT ![t] = k] /\ OtherJob(k)
  <2>1. CASE Save(t) \/ DropRule(t) \/ CheckMissing(t) \/ CancelCall(t) \/ CloseCall(t)
    <3>1. \/ job' = [job EXCEPT ![t] = AfterSave(j)]
          \/ job' = [job EXCEPT ![t] = Resume(j)]
          \/ job' = [job EXCEPT ![t] = Failed(j)]
          \/ job' = [job EXCEPT ![t] = Ended(j)]
          \/ job' = [job EXCEPT ![t] = Closed(j)]
          \/ job' = [job EXCEPT ![t] = Idle]
          \/ job' = [job EXCEPT ![t] = [j EXCEPT !.at = "write"]]
          \/ job' = [job EXCEPT ![t] = [j EXCEPT !.at = "call"]]
          \/ job' = [job EXCEPT ![t] = [j EXCEPT !.at = "write", !.mine.status = "cancelled"]]
      BY <2>1 DEF Save, DropRule, CheckMissing, CancelCall, CloseCall, Becomes
    <3>2. /\ OtherJob([j EXCEPT !.at = "write"]) /\ OtherJob([j EXCEPT !.at = "call"])
          /\ OtherJob([j EXCEPT !.at = "write", !.mine.status = "cancelled"])
      BY <1>1 DEF OtherJob, IsJob
    <3>3. /\ OtherJob(AfterSave(j)) /\ OtherJob(Resume(j)) /\ OtherJob(Failed(j))
          /\ OtherJob(Ended(j)) /\ OtherJob(Closed(j)) /\ OtherJob(Idle)
      BY <1>1, OtherPlaces, OtherIdle
    <3> QED
      BY <3>1, <3>2, <3>3
  <2>2. CASE PlaceOrder(t) \/ ModifyCall(t) \/ ReadSaved(t)
    <3>1. \/ \E m : job' = [job EXCEPT ![t] = [j EXCEPT !.at = "write", !.mine = m]]
          \/ job' = [job EXCEPT ![t] = Idle]
      BY <2>2 DEF PlaceOrder, ModifyCall, ReadSaved, Becomes
    <3>2. \A m : OtherJob([j EXCEPT !.at = "write", !.mine = m])
      BY <1>1 DEF OtherJob, IsJob
    <3> QED
      BY <3>1, <3>2, OtherIdle
  <2>3. CASE StoreRule(t) \/ ListingFails(t)
    BY <2>3, OtherIdle DEF StoreRule, ListingFails, Becomes
  <2>4. CASE ListOrders(t) \/ ListPositions(t) \/ LookForExit(t)
    <3>1. \/ job' = [job EXCEPT ![t] = [j EXCEPT !.at = "positions", !.listed = pending]]
          \/ job' = [job EXCEPT ![t] = [j EXCEPT !.at = "each", !.held = position]]
          \/ job' = [job EXCEPT ![t] = [j EXCEPT !.at = "drop"]]
          \/ \E m, n : job' = [job EXCEPT ![t] = [j EXCEPT !.at = "call", !.mine = m, !.lots = n]]
      BY <2>4 DEF ListOrders, ListPositions, LookForExit, Becomes
    <3>2. OtherJob([j EXCEPT !.at = "positions", !.listed = pending])
      BY <1>1 DEF OtherJob, IsJob
    <3>3. OtherJob([j EXCEPT !.at = "each", !.held = position])
      BY <1>1 DEF OtherJob, IsJob
    <3>4. OtherJob([j EXCEPT !.at = "drop"])
      BY <1>1 DEF OtherJob, IsJob
    <3>5. \A m, n : OtherJob([j EXCEPT !.at = "call", !.mine = m, !.lots = n])
      BY <1>1 DEF OtherJob, IsJob
    <3> QED
      BY <3>1, <3>2, <3>3, <3>4, <3>5
  <2>5. CASE RecordHalf(t) \/ Arm(t)
    BY <1>1, <2>5 DEF RecordHalf, Arm, Runs
  <2>6. CASE RecordArmed(t)
    BY <1>1, <2>6, OtherPlaces DEF RecordArmed, Becomes
  <2>7. ASSUME NEW o \in Orders, EachOrder(t, o)
        PROVE  \E k : job' = [job EXCEPT ![t] = k] /\ OtherJob(k)
    <3> DEFINE rest == After(j, o)
    <3>1. IsJob(rest) /\ rest.op # "half"
      BY <1>1, OtherPlaces
    <3>2. OtherJob(Resume(rest))
      BY <3>1, OtherPlaces
    <3>3. \/ job' = [job EXCEPT ![t] = Resume(rest)]
          \/ \E m : job' = [job EXCEPT ![t] = [rest EXCEPT !.at = "write", !.key = o, !.mine = m]]
          \/ \E m : job' = [job EXCEPT ![t] = [rest EXCEPT !.at = "call", !.key = o, !.mine = m]]
          \/ job' = [job EXCEPT ![t] = [rest EXCEPT !.at = "look", !.key = o]]
      BY <2>7 DEF EachOrder, ReconcileOrder, CallNext, HalveOrder, Checkpoint, Runs, Becomes
    <3> HIDE DEF rest
    <3>4. \A m : OtherJob([rest EXCEPT !.at = "write", !.key = o, !.mine = m])
      BY <3>1 DEF OtherJob, IsJob
    <3>5. \A m : OtherJob([rest EXCEPT !.at = "call", !.key = o, !.mine = m])
      BY <3>1 DEF OtherJob, IsJob
    <3>6. OtherJob([rest EXCEPT !.at = "look", !.key = o])
      BY <3>1 DEF OtherJob, IsJob
    <3> QED
      BY <3>2, <3>3, <3>4, <3>5, <3>6
  <2> QED
    BY <2>1, <2>2, <2>3, <2>4, <2>5, <2>6, <2>7 DEF Continue
<1> HIDE DEF j
<1> QED
  BY <1>2, <1>3, OtherHalf DEF OtherJob

(* What the engine does with halves. *)
HalfActions(t) ==
  \/ Save(t) \/ ListPositions(t) \/ ListingFails(t) \/ CloseCall(t)
  \/ RecordHalf(t) \/ Arm(t) \/ RecordArmed(t)
  \/ \E o \in Orders : HalveOrder(t, o)

LEMMA HalfPlaces ==
  ASSUME NEW j, IsJob(j), j.op = "half", NEW T, HalfJob(j, T)
  PROVE  /\ HalfJob(Resume(j), T)
         /\ Resume(j).at # "record"
         /\ Resume(j).op \in {"half", "idle"}
<1>1. CASE j.todo = {}
  BY <1>1 DEF Resume, Idle, HalfJob
<1>2. CASE j.todo # {}
  BY <1>2 DEF Resume, IsJob, HalfJob
<1> QED
  BY <1>1, <1>2

LEMMA HalfSaved ==
  ASSUME PlacingInv, HalvesInv, NEW t \in Threads, job[t].op = "half", Save(t)
  PROVE  HalvesInv'
<1> DEFINE j == job[t]
           k == [j EXCEPT !.at = "record"]
<1>1. IsJob(j) /\ HalfJob(j, taken) /\ t = "engine" /\ j.at = "write"
  BY DEF PlacingInv, Handles, HalvesInv, Save
<1>2. /\ job' = [job EXCEPT ![t] = k] /\ halves' = halves /\ taken' = taken
      /\ crashes' = crashes /\ faults' = faults
  BY DEF Save, AfterSave, Becomes, historyVars
<1>3. k.op = "half" /\ HalfJob(k, taken) /\ \A o : Halving(j, o) => Halving(k, o)
  BY <1>1 DEF IsJob, HalfJob, Halving
<1> HIDE DEF k
<1> QED
  BY <1>1, <1>2, <1>3, QuietHalf

LEMMA HalfListed ==
  ASSUME PlacingInv, HalvesInv, NEW t \in Threads, job[t].op = "half",
         ListPositions(t) \/ ListingFails(t)
  PROVE  HalvesInv'
<1> DEFINE j == job[t]
           k == [j EXCEPT !.at = "each", !.held = position]
<1>1. IsJob(j) /\ HalfJob(j, taken) /\ t = "engine" /\ j.at \in {"orders", "positions"}
  BY DEF PlacingInv, Handles, HalvesInv, ListPositions, ListingFails
<1>2. /\ job' = [job EXCEPT ![t] = k] \/ job' = [job EXCEPT ![t] = Idle]
      /\ halves' = halves /\ taken' = taken /\ crashes' = crashes
      /\ faults' = faults \/ faults' = faults + 1
  BY DEF ListPositions, ListingFails, Becomes, historyVars, storeVars, Raises
<1>3. k.op = "half" /\ k.at # "record" /\ HalfJob(k, taken)
  BY <1>1 DEF IsJob, HalfJob
<1>4. Idle.op # "half" /\ Idle.at # "record" /\ HalfJob(Idle, taken)
  BY DEF Idle, HalfJob
<1>5. \A o : ~Halving(j, o)
  BY <1>1 DEF Halving
<1> HIDE DEF k
<1> QED
  BY <1>1, <1>2, <1>3, <1>4, <1>5, QuietHalf

LEMMA HalfChosen ==
  ASSUME PlacingInv, HalvesInv, NEW t \in Threads, NEW o \in Orders, HalveOrder(t, o)
  PROVE  HalvesInv'
<1> DEFINE j == job[t]
           rest == After(j, o)
<1>1. /\ IsJob(j) /\ j.op = "half" /\ j.at = "each" /\ o \in j.todo
      /\ halves' = halves /\ taken' = taken /\ crashes' = crashes /\ faults' = faults
  BY DEF PlacingInv, Handles, HalveOrder, Runs, historyVars, storeVars
<1>2. HalfJob(j, taken) /\ t = "engine"
  BY <1>1 DEF HalvesInv
<1>3. /\ IsJob(rest) /\ rest.op = "half" /\ rest.at = "each"
      /\ rest.todo \subseteq j.todo /\ o \notin rest.todo
  BY <1>1 DEF After, IsJob
<1>4. o \notin taken /\ j.todo \cap taken = {} /\ \A u : ~Halving(j, u)
  BY <1>1, <1>2 DEF HalfJob, Halving
<1>5. HalfJob(rest, taken)
  BY <1>3, <1>4 DEF HalfJob
<1>6. \/ job' = [job EXCEPT ![t] = Resume(rest)]
      \/ \E m, n : job' = [job EXCEPT ![t] = [rest EXCEPT !.at = "call", !.key = o,
                                                         !.mine = m, !.lots = n]]
  BY DEF HalveOrder, Becomes
<1> HIDE DEF rest
<1>7. CASE job' = [job EXCEPT ![t] = Resume(rest)]
  BY <1>1, <1>2, <1>3, <1>4, <1>5, <1>7, HalfPlaces, QuietHalf
<1>8. ASSUME NEW m, NEW n,
             job' = [job EXCEPT ![t] = [rest EXCEPT !.at = "call", !.key = o,
                                                   !.mine = m, !.lots = n]]
      PROVE  HalvesInv'
  <2> DEFINE k == [rest EXCEPT !.at = "call", !.key = o, !.mine = m, !.lots = n]
  <2>1. k.op = "half" /\ k.at # "record" /\ HalfJob(k, taken)
    BY <1>3, <1>4 DEF IsJob, HalfJob
  <2>2. job' = [job EXCEPT ![t] = k]
    BY <1>8
  <2> HIDE DEF k
  <2> QED
    BY <1>1, <1>2, <1>4, <2>1, <2>2, QuietHalf
<1> QED
  BY <1>6, <1>7, <1>8

LEMMA HalfClosed ==
  ASSUME PlacingInv, HalvesInv, NEW t \in Threads, job[t].op = "half", CloseCall(t)
  PROVE  HalvesInv'
<1> DEFINE j == job[t]
           o == job[t].key
           k == [j EXCEPT !.at = "write", !.mine.lots = Max2(0, @ - j.lots)]
           counted == [halves EXCEPT ![o] = @ + 1]
<1>1. /\ IsJob(j) /\ HalfJob(j, taken) /\ t = "engine" /\ j.at = "call"
      /\ taken' = taken /\ crashes' = crashes
  BY DEF PlacingInv, Handles, HalvesInv, CloseCall, Runs, storeVars
<1>2. /\ \A u \in Threads : \A p : ~Halving(job[u], p)
      /\ o \notin taken
  BY <1>1 DEF HalvesInv, Halving, HalfJob
<1>3. \A p \in Orders : p \notin taken => halves[p] <= Mishaps
  BY <1>2 DEF HalvesInv
<1>4. /\ Resume(j).op = "half" => t = "engine"
      /\ Resume(j).at = "record" => Resume(j).op = "half"
      /\ HalfJob(Resume(j), taken)
  BY <1>1, HalfPlaces
<1>5. k.op = "half" /\ k.at = "write" /\ k.key = o /\ HalfJob(k, taken)
  BY <1>1 DEF IsJob, HalfJob
<1>6. \/ job' = [job EXCEPT ![t] = k] /\ halves' = counted /\ faults' = faults
      \/ job' = [job EXCEPT ![t] = Resume(j)] /\ halves' = halves /\ faults' = faults
      \/ job' = [job EXCEPT ![t] = Resume(j)] /\ halves' \in {halves, counted} /\ faults' = faults + 1
  BY DEF CloseCall, Closed, Failed, Becomes, Raises
<1> HIDE DEF k
<1>7. CASE job' = [job EXCEPT ![t] = Resume(j)] /\ halves' = halves
  BY <1>1, <1>2, <1>4, <1>6, <1>7, QuietHalf
<1>8. ASSUME NEW next, job' = [job EXCEPT ![t] = next], halves' = counted,
             next.op = "half" => t = "engine", next.at = "record" => next.op = "half",
             HalfJob(next, taken), faults' = faults + 1 \/ (faults' = faults /\ Halving(next, o))
      PROVE  HalvesInv'
  <2>1. /\ job'[t] = next
        /\ \A u \in Threads : u # t => job'[u] = job[u]
    BY <1>8 DEF PlacingInv
  <2>2. \A u \in Threads : /\ job'[u].op = "half" => u = "engine"
                           /\ job'[u].at = "record" => job'[u].op = "half"
                           /\ HalfJob(job'[u], taken)
    BY <1>8, <2>1 DEF HalvesInv
  <2>3. /\ halves' \in [Orders -> Nat]
        /\ \A p \in Orders : halves'[p] = IF p = o THEN halves[p] + 1 ELSE halves[p]
    <3>1. halves \in [Orders -> Nat]
      BY DEF HalvesInv
    <3>2. halves' = [halves EXCEPT ![o] = halves[o] + 1]
      BY <1>8
    <3> HIDE DEF o, counted
    <3>3. ASSUME NEW p \in Orders
          PROVE  halves'[p] = IF p = o THEN halves[p] + 1 ELSE halves[p]
      BY <3>1, <3>2
    <3>4. DOMAIN halves' = Orders /\ halves' = [p \in Orders |-> halves'[p]]
      BY <3>1, <3>2
    <3>5. \A p \in Orders : halves'[p] \in Nat
      BY <3>1, <3>3
    <3> QED
      BY <3>3, <3>4, <3>5
  <2>4. /\ faults' \in Nat /\ crashes \in Nat /\ Mishaps \in Nat
        /\ Mishaps' = Mishaps \/ Mishaps' = Mishaps + 1
        /\ faults' = faults + 1 => Mishaps' = Mishaps + 1
    BY <1>1, <1>8 DEF HalvesInv, Mishaps
  <2>5. ASSUME NEW p \in Orders
        PROVE  \/ halves'[p] <= Mishaps'
               \/ /\ halves'[p] <= Mishaps' + 1
                  /\ p \in taken \/ \E u \in Threads : Halving(job'[u], p)
    <3>1. halves[p] \in Nat /\ halves[p] <= Mishaps + 1
      BY <2>4 DEF HalvesInv
    <3>2. CASE p # o
      <4>1. halves'[p] = halves[p]
        BY <2>3, <3>2
      <4> QED
        BY <1>3, <2>4, <3>1, <4>1
    <3>3. CASE p = o
      <4>1. halves'[p] = halves[p] + 1 /\ halves[p] <= Mishaps
        BY <1>2, <1>3, <2>3, <3>3
      <4>2. CASE faults' = faults + 1
        BY <2>4, <3>1, <4>1, <4>2
      <4>3. CASE Halving(next, o)
        BY <2>1, <2>4, <3>1, <3>3, <4>1, <4>3
      <4> QED
        BY <1>8, <4>2, <4>3
    <3> QED
      BY <3>2, <3>3
  <2>6. halves' \in [Orders -> Nat] /\ faults' \in Nat /\ crashes' \in Nat
    BY <1>1, <2>3, <2>4
  <2>7. taken' = taken
    BY <1>1
  <2> QED
    BY <2>2, <2>5, <2>6, <2>7 DEF HalvesInv
<1>9. Halving(k, o)
  BY <1>5 DEF Halving
<1> HIDE DEF j, o, counted
<1> QED
  BY <1>1, <1>4, <1>5, <1>6, <1>7, <1>8, <1>9

LEMMA HalfRecorded ==
  ASSUME PlacingInv, HalvesInv, NEW t \in Threads, RecordHalf(t)
  PROVE  HalvesInv'
<1> DEFINE j == job[t]
           k == [j EXCEPT !.at = "arm"]
<1>1. /\ j.at = "record" /\ taken' = taken \cup {j.key} /\ halves' = halves
      /\ crashes' = crashes /\ faults' = faults
      /\ job' = [job EXCEPT ![t] = Resume(j)] \/ job' = [job EXCEPT ![t] = k]
  BY DEF RecordHalf, Becomes, historyVars
<1>2. IsJob(j) /\ j.op = "half" /\ HalfJob(j, taken) /\ t = "engine"
  BY <1>1 DEF PlacingInv, Handles, HalvesInv
<1>3. HalfJob(j, taken')
  BY <1>1, <1>2 DEF HalfJob
<1>4. /\ HalfJob(Resume(j), taken') /\ Resume(j).at # "record"
      /\ HalfJob(k, taken') /\ k.at # "record"
  BY <1>2, <1>3, HalfPlaces DEF HalfJob, IsJob
<1> HIDE DEF k
<1>5. /\ \A u \in Threads : u # t => job'[u] = job[u]
      /\ HalfJob(job'[t], taken') /\ job'[t].at # "record"
  BY <1>1, <1>4 DEF PlacingInv
<1>6. ASSUME NEW u \in Threads
      PROVE  /\ job'[u].op = "half" => u = "engine"
             /\ job'[u].at = "record" => job'[u].op = "half"
             /\ HalfJob(job'[u], taken')
  <2>1. CASE u = t
    BY <1>2, <1>5, <2>1
  <2>2. CASE u # t
    <3>1. job'[u] = job[u] /\ job[u].op # "half" /\ job[u].at # "record"
      BY <1>2, <1>5, <2>2 DEF HalvesInv
    <3> QED
      BY <3>1 DEF HalfJob
  <2> QED
    BY <2>1, <2>2
<1>7. \A o \in Orders, u \in Threads : Halving(job[u], o) => o \in taken'
  BY <1>1, <1>2 DEF HalvesInv, Halving
<1>8. Mishaps' = Mishaps
  BY <1>1 DEF Mishaps
<1> QED
  BY <1>1, <1>6, <1>7, <1>8 DEF HalvesInv

LEMMA HalfArmed ==
  ASSUME PlacingInv, HalvesInv, NEW t \in Threads, job[t].op = "half",
         Arm(t) \/ RecordArmed(t)
  PROVE  HalvesInv'
<1> DEFINE j == job[t]
           k == [j EXCEPT !.at = "armed"]
<1>1. IsJob(j) /\ HalfJob(j, taken) /\ t = "engine" /\ j.at \in {"arm", "armed"}
  BY DEF PlacingInv, Handles, HalvesInv, Arm, Runs, RecordArmed
<1>2. /\ job' = [job EXCEPT ![t] = k] \/ job' = [job EXCEPT ![t] = Resume(j)]
      /\ halves' = halves /\ taken' = taken /\ crashes' = crashes /\ faults' = faults
  BY DEF Arm, RecordArmed, Becomes, historyVars
<1>3. k.op = "half" /\ k.at # "record" /\ HalfJob(k, taken)
  BY <1>1 DEF IsJob, HalfJob
<1>4. \A o : ~Halving(j, o)
  BY <1>1 DEF Halving
<1> HIDE DEF k
<1> QED
  BY <1>1, <1>2, <1>3, <1>4, HalfPlaces, QuietHalf

LEMMA HalfContinues ==
  ASSUME PlacingInv, HalvesInv, NEW t \in Threads, job[t].op = "half", Continue(t)
  PROVE  HalvesInv'
<1>1. job[t].at \in {"positions", "each", "call", "write", "record", "arm", "armed"}
  BY DEF HalvesInv, HalfJob
<1>2. HalfActions(t)
  BY <1>1 DEF Continue, HalfActions, EachOrder, DropRule, PlaceOrder, CheckMissing,
              CancelCall, ModifyCall, StoreRule, ListOrders, LookForExit, ReadSaved,
              ReconcileOrder, CallNext, Checkpoint, Runs
<1> QED
  BY <1>2, HalfSaved, HalfListed, HalfClosed, HalfRecorded, HalfArmed, HalfChosen
     DEF HalfActions

(* A handler that begins. *)
LEMMA OtherBegins ==
  ASSUME PlacingInv, HalvesInv, NEW t \in Threads, job[t] = Idle,
         NEW k, k.op # "half", k.at # "record", job' = [job EXCEPT ![t] = k],
         UNCHANGED <<halves, taken, faults, crashes>>
  PROVE  HalvesInv'
<1>1. job[t].op # "half"
  BY DEF Idle
<1> QED
  BY <1>1, OtherHalf

LEMMA HalvesBegin ==
  ASSUME PlacingInv, HalvesInv, NEW source, "engine" \in Threads, StartHalves(source)
  PROVE  HalvesInv'
<1>1. PICK S \in SUBSET {o \in Orders : o \notin taken} :
        /\ job' = [job EXCEPT !["engine"] = Pass("half", "positions", S)]
        /\ UNCHANGED <<halves, taken, faults, crashes>>
        /\ job["engine"] = Idle
  BY DEF StartHalves, Start, Becomes, storeVars, historyVars
<1> DEFINE k == Pass("half", "positions", S)
<1>2. k.op = "half" /\ k.at = "positions" /\ k.todo = S
  BY DEF Pass, Idle
<1>3. HalfJob(k, taken) /\ \A o : ~Halving(job["engine"], o)
  BY <1>1, <1>2 DEF HalfJob, Halving, Idle
<1>4. /\ taken' = taken /\ halves' = halves /\ faults' = faults /\ crashes' = crashes
      /\ job' = [job EXCEPT !["engine"] = k]
  BY <1>1
<1> HIDE DEF k
<1> QED
  BY <1>2, <1>3, <1>4, QuietHalf

LEMMA ArmingBegins ==
  ASSUME PlacingInv, HalvesInv, NEW o \in Orders, ArmAgain(o)
  PROVE  HalvesInv'
<1> DEFINE k == Handler("half", "arm", o, row[o])
<1>1. /\ "engine" \in Threads /\ job["engine"] = Idle
      /\ job' = [job EXCEPT !["engine"] = k]
      /\ UNCHANGED <<halves, taken, faults, crashes>>
  BY DEF ArmAgain, Becomes, storeVars, historyVars
<1>2. k.op = "half" /\ k.at = "arm" /\ k.todo = {}
  BY DEF Handler, Idle
<1>3. HalfJob(k, taken) /\ \A p : ~Halving(job["engine"], p)
  BY <1>1, <1>2 DEF HalfJob, Halving, Idle
<1> HIDE DEF k
<1> QED
  BY <1>1, <1>2, <1>3, QuietHalf

LEMMA OthersBegin ==
  ASSUME PlacingInv, HalvesInv,
         \/ \E t \in Reconcilers : StartReconciliation(t)
         \/ StartSync \/ StartUnfilled \/ \E b \in 1 .. MaxBars : OnClosedBar(b)
  PROVE  HalvesInv'
<1>1. CASE \E t \in Reconcilers : StartReconciliation(t)
  <2>1. PICK t \in Reconcilers : StartReconciliation(t)
    BY <1>1
  <2>2. PICK S : /\ job' = [job EXCEPT ![t] = Pass("reconcile", "orders", S)]
                 /\ job[t] = Idle /\ UNCHANGED <<halves, taken, faults, crashes>>
    BY <2>1 DEF StartReconciliation, Start, Becomes, storeVars, historyVars
  <2>3. /\ Pass("reconcile", "orders", S).op # "half"
        /\ Pass("reconcile", "orders", S).at # "record"
    BY DEF Pass, Idle
  <2> QED
    BY <2>2, <2>3, OtherBegins DEF Threads
<1>2. CASE StartSync
  <2>1. PICK S : /\ job' = [job EXCEPT !["sync"] = Pass("sync", "each", S)]
                 /\ "sync" \in Threads /\ job["sync"] = Idle
                 /\ UNCHANGED <<halves, taken, faults, crashes>>
    BY <1>2 DEF StartSync, Start, Becomes, storeVars, historyVars
  <2>2. Pass("sync", "each", S).op # "half" /\ Pass("sync", "each", S).at # "record"
    BY DEF Pass, Idle
  <2> QED
    BY <2>1, <2>2, OtherBegins
<1>3. CASE StartUnfilled
  <2>1. PICK S : /\ job' = [job EXCEPT !["engine"] = Pass("unfilled", "each", S)]
                 /\ "engine" \in Threads /\ job["engine"] = Idle
                 /\ UNCHANGED <<halves, taken, faults, crashes>>
    BY <1>3 DEF StartUnfilled, Start, Becomes, storeVars, historyVars
  <2>2. Pass("unfilled", "each", S).op # "half" /\ Pass("unfilled", "each", S).at # "record"
    BY DEF Pass, Idle
  <2> QED
    BY <2>1, <2>2, OtherBegins
<1>4. CASE \E b \in 1 .. MaxBars : OnClosedBar(b)
  <2>1. PICK b \in 1 .. MaxBars : OnClosedBar(b)
    BY <1>4
  <2>2. PICK S : /\ job' = [job EXCEPT !["engine"] =
                              [Pass("trail", "each", S) EXCEPT !.rules = rule, !.bar = b]]
                 /\ "engine" \in Threads /\ job["engine"] = Idle
                 /\ UNCHANGED <<halves, taken, faults, crashes>>
    BY <2>1 DEF OnClosedBar, Start, Becomes, storeVars, historyVars
  <2> DEFINE k == [Pass("trail", "each", S) EXCEPT !.rules = rule, !.bar = b]
  <2>3. k.op # "half" /\ k.at # "record"
    BY DEF Pass, Idle
  <2> HIDE DEF k
  <2> QED
    BY <2>2, <2>3, OtherBegins DEF k
<1> QED
  BY <1>1, <1>2, <1>3, <1>4

LEMMA RequestBegins ==
  ASSUME PlacingInv, HalvesInv, NEW o \in Orders, RestRequest(o) \/ SubmitForSignal(o)
  PROVE  HalvesInv'
<1>1. ASSUME NEW t, NEW m, CreateRow(t, o, m)
      PROVE  HalvesInv'
  <2>1. /\ t \in Threads /\ job[t] = Idle
        /\ job' = [job EXCEPT ![t] = Handler("create", "call", o, m)]
        /\ UNCHANGED <<halves, taken, faults, crashes>>
    BY <1>1 DEF CreateRow, Becomes, historyVars
  <2>2. /\ Handler("create", "call", o, m).op # "half"
        /\ Handler("create", "call", o, m).at # "record"
    BY DEF Handler, Idle
  <2> QED
    BY <2>1, <2>2, OtherBegins
<1>2. ASSUME NEW op, op # "half", NEW at, at # "record", NEW n, Request(op, at, o, n)
      PROVE  HalvesInv'
  <2> DEFINE k == [Handler(op, at, o, row[o]) EXCEPT !.lots = n]
  <2>1. /\ "rest" \in Threads /\ job["rest"] = Idle
        /\ job' = [job EXCEPT !["rest"] = k]
        /\ UNCHANGED <<halves, taken, faults, crashes>>
    BY <1>2 DEF Request, Becomes, storeVars, historyVars
  <2>2. k.op # "half" /\ k.at # "record"
    BY <1>2 DEF Handler, Idle
  <2> HIDE DEF k
  <2> QED
    BY <2>1, <2>2, OtherBegins
<1>3. CASE DisableTrailing(o)
  BY <1>3 DEF DisableTrailing, HalvesInv, Mishaps, historyVars
<1> QED
  BY <1>1, <1>2, <1>3 DEF RestRequest, CreateOrder, SubmitForSignal, CancelOrder,
                          CloseOrder, PatchOrder, EnableTrailing

LEMMA CrashHalves ==
  ASSUME HalvesInv, Crash
  PROVE  HalvesInv'
<1>1. /\ job' = [t \in Threads |-> Idle] /\ crashes' = crashes + 1
      /\ UNCHANGED <<halves, taken, faults>>
  BY DEF Crash, storeVars, historyVars
<1>2. \A t \in Threads : /\ job'[t].op # "half" /\ job'[t].at # "record"
                         /\ HalfJob(job'[t], taken')
  BY <1>1 DEF Idle, HalfJob
<1>3. Mishaps \in Nat /\ Mishaps' = Mishaps + 1
  BY <1>1 DEF HalvesInv, Mishaps
<1>4. \A o \in Orders : halves'[o] <= Mishaps'
  BY <1>1, <1>3 DEF HalvesInv
<1> QED
  BY <1>1, <1>2, <1>4 DEF HalvesInv

LEMMA HalvesInvariant == Spec => []HalvesInv
<1>1. Init => HalvesInv
  <2> SUFFICES ASSUME Init PROVE HalvesInv
    OBVIOUS
  <2>1. \A t \in Threads : /\ job[t].op # "half" /\ job[t].at # "record"
                           /\ HalfJob(job[t], taken)
    BY DEF Init, Idle, HalfJob
  <2>2. halves \in [Orders -> Nat] /\ faults \in Nat /\ crashes \in Nat
    BY DEF Init
  <2>3. \A o \in Orders : halves[o] <= Mishaps
    <3>1. halves = [o \in Orders |-> 0] /\ faults = 0 /\ crashes = 0
      BY DEF Init
    <3>2. Mishaps = 0 /\ \A o \in Orders : halves[o] = 0
      BY <3>1 DEF Mishaps
    <3>3. 0 <= Mishaps
      BY <3>2
    <3> QED
      BY <3>2, <3>3
  <2> QED
    BY <2>1, <2>2, <2>3 DEF HalvesInv
<1>2. PlacingInv /\ HalvesInv /\ [Next]_vars => HalvesInv'
  <2> SUFFICES ASSUME PlacingInv, HalvesInv, [Next]_vars PROVE HalvesInv'
    OBVIOUS
  <2>1. ASSUME NEW o \in Orders, RestRequest(o) \/ SubmitForSignal(o)
        PROVE  HalvesInv'
    BY <2>1, RequestBegins
  <2>2. ASSUME NEW o \in Orders, BrokerActs(o)
        PROVE  HalvesInv'
    BY <2>2 DEF BrokerActs, storeVars, historyVars, HalvesInv, Mishaps
  <2>3. CASE (\E t \in Reconcilers : StartReconciliation(t)) \/ StartSync
    BY <2>3, OthersBegin
  <2>4. CASE EngineStarts
    BY <2>4, OthersBegin, HalvesBegin, ArmingBegins
       DEF EngineStarts, TakeProfitAt1R, TakeProfitHalfAt1R
  <2>5. ASSUME NEW t \in Threads, Continue(t)
        PROVE  HalvesInv'
    BY <2>5, HalfContinues, OthersTakeNoHalves
  <2>6. CASE Crash
    BY <2>6, CrashHalves
  <2>7. CASE UNCHANGED vars
    BY <2>7 DEF HalvesInv, Mishaps, vars, storeVars, historyVars
  <2>8. CASE Next
    BY <2>1, <2>2, <2>3, <2>4, <2>5, <2>6, <2>8 DEF Next
  <2> QED
    BY <2>7, <2>8
<1> QED
  BY <1>1, <1>2, PlacingInvariant, PTL DEF Spec

(***************************************************************************)
(* The 1R half of an order is closed at most once more than there were     *)
(* broker calls that raised and restarts: between the close and its event  *)
(* the engine has the order in hand, and after the event it is no          *)
(* candidate any more (take_profit_at_1r, take_profit_half_at_1r).         *)
(***************************************************************************)
THEOREM HalfClosedOncePerMishap == Spec => []HalvesBounded
<1>1. HalvesInv => HalvesBounded
  <2> SUFFICES ASSUME HalvesInv, NEW o \in Orders PROVE halves[o] <= 1 + Mishaps
    BY DEF HalvesBounded
  <2>1. halves[o] \in Nat /\ Mishaps \in Nat
    BY DEF HalvesInv, Mishaps
  <2>2. halves[o] <= Mishaps + 1
    BY <2>1 DEF HalvesInv
  <2> QED
    BY <2>1, <2>2
<1> QED
  BY <1>1, HalvesInvariant, PTL

(***************************************************************************)
(* The trailing exit.  Only the engine sends exits; what it has not looked *)
(* at yet was sent no exit for this bar or a later one, and a rule's last  *)
(* bar is never behind the exits of its order.                             *)
(***************************************************************************)

IsRule(r) == r \in [ticket : {r.ticket}, last : Nat]

Before(o, b) == \A e \in exits[o] : e < b

Noted(o) ==
  \A e \in exits[o] : e \in Nat /\ e <= bars /\ (rule[o] # NoRule => e <= rule[o].last)

BarJobIn(j, E, R, latest) ==
  j.op = "trail" =>
    /\ j.bar \in Nat /\ j.bar <= latest
    /\ j.at \in {"each", "look", "call", "read", "write", "drop"}
    /\ \A o \in j.todo : \A e \in E[o] : e < j.bar
    /\ j.at \in {"look", "call"} =>
         /\ j.key \in Orders \ j.todo
         /\ \A e \in E[j.key] : e < j.bar
         /\ R[j.key] = NoRule \/ j.bar <= R[j.key].last

BarJob(j) == BarJobIn(j, exits, rule, bars)

BarInv ==
  /\ bars \in Nat
  /\ exits = [o \in Orders |-> exits[o]]
  /\ rule = [o \in Orders |-> rule[o]]
  /\ \A o \in Orders : IsRule(rule[o])
  /\ \A o \in Orders : Noted(o)
  /\ \A t \in Threads : job[t].op = "trail" => t = "engine"
  /\ \A t \in Threads : BarJob(job[t])

(* A step that sends no exit and leaves the rules alone. *)
LEMMA QuietBar ==
  ASSUME PlacingInv, BarInv, NEW t \in Threads, NEW k,
         job' = [job EXCEPT ![t] = k], bars' = bars, exits' = exits, rule' = rule,
         k.op = "trail" => t = "engine", BarJob(k)
  PROVE  BarInv'
<1>1. \A u \in Threads : job'[u] = job[u] \/ (u = t /\ job'[u] = k)
  BY DEF PlacingInv
<1>2. ASSUME NEW u \in Threads PROVE BarJob(job[u])'
  BY <1>1 DEF BarInv, BarJob, BarJobIn, Before
<1>3. \A u \in Threads : job'[u].op = "trail" => u = "engine"
  BY <1>1 DEF BarInv
<1>4. \A o \in Orders : Noted(o)'
  BY DEF BarInv, Noted
<1> QED
  BY <1>2, <1>3, <1>4 DEF BarInv

(* A rule is dropped, or starts after the latest bar, on another thread or *)
(* after the exit.                                                         *)
LEMMA RuleBar ==
  ASSUME PlacingInv, BarInv, NEW t \in Threads, NEW k, NEW o, NEW r,
         job' = [job EXCEPT ![t] = k], bars' = bars, exits' = exits,
         rule' = [rule EXCEPT ![o] = r], r = NoRule \/ (IsRule(r) /\ r.last = bars),
         k.op = "trail" => t = "engine", BarJob(k)
  PROVE  BarInv'
<1>1. \A u \in Threads : job'[u] = job[u] \/ (u = t /\ job'[u] = k)
  BY DEF PlacingInv
<1>2. /\ rule' = [p \in Orders |-> rule'[p]]
      /\ \A p \in Orders : rule'[p] = rule[p] \/ rule'[p] = r
  BY DEF BarInv
<1>3. IsRule(NoRule)
  BY DEF IsRule, NoRule
<1>4. \A p \in Orders : IsRule(rule'[p])
  BY <1>2, <1>3 DEF BarInv
<1>5. \A p \in Orders : Noted(p)'
  BY <1>2 DEF BarInv, Noted
<1>6. \A u \in Threads : job'[u].op = "trail" => u = "engine"
  BY <1>1 DEF BarInv
<1>7. ASSUME NEW u \in Threads, job'[u].op = "trail"
      PROVE  BarJob(job[u])'
  <2> DEFINE j == job'[u]
  <2>1. BarJob(j) /\ Handles(job[u])
    BY <1>1, <1>7 DEF BarInv, PlacingInv
  <2>2. /\ j.bar \in Nat /\ j.bar <= bars
        /\ j.at \in {"each", "look", "call", "read", "write", "drop"}
        /\ \A p \in j.todo : Before(p, j.bar)
        /\ j.at \in {"look", "call"} =>
             /\ j.key \in Orders \ j.todo
             /\ Before(j.key, j.bar)
             /\ rule[j.key] = NoRule \/ j.bar <= rule[j.key].last
    BY <1>7, <2>1 DEF BarJob, BarJobIn, Before
  <2> QED
    BY <1>2, <1>7, <2>2 DEF BarJob, BarJobIn, Before
<1>8. \A u \in Threads : BarJob(job[u])'
  BY <1>7 DEF BarJob, BarJobIn
<1> QED
  BY <1>2, <1>4, <1>5, <1>6, <1>8 DEF BarInv

(* A step of a handler keeps its operation, or ends it. *)
LEMMA OpKept ==
  ASSUME PlacingInv, NEW t \in Threads, Continue(t)
  PROVE  /\ bars' = bars
         /\ \E k : /\ job' = [job EXCEPT ![t] = k]
                   /\ k.op = job[t].op \/ k.op = "idle"
<1> DEFINE j == job[t]
           Next1(k) == job' = [job EXCEPT ![t] = k] /\ (k.op = j.op \/ k.op = "idle")
<1>1. IsJob(j)
  BY DEF PlacingInv, Handles
<1>2. Idle.op = "idle"
  BY DEF Idle
<1>3. ASSUME NEW i, IsJob(i), i.op = j.op
      PROVE  /\ Resume(i).op \in {j.op, "idle"} /\ Failed(i).op \in {j.op, "idle"}
             /\ AfterSave(i).op \in {j.op, "idle"} /\ Ended(i).op = j.op
             /\ Closed(i).op = j.op
  <2>1. Resume(i).op \in {j.op, "idle"}
    BY <1>2, <1>3 DEF Resume, IsJob
  <2>2. Failed(i).op \in {j.op, "idle"}
    BY <1>3, <2>1 DEF Failed, IsJob
  <2>3. AfterSave(i).op \in {j.op, "idle"}
    BY <1>3, <2>1 DEF AfterSave, IsJob
  <2>4. Ended(i).op = j.op
    BY <1>3 DEF Ended, IsJob
  <2>5. Closed(i).op = j.op
    BY <1>3, <2>4 DEF Closed, IsJob
  <2> QED
    BY <2>1, <2>2, <2>3, <2>4, <2>5
<1>4. CASE Save(t) \/ DropRule(t) \/ CheckMissing(t) \/ CancelCall(t) \/ CloseCall(t)
  <2>1. \/ job' = [job EXCEPT ![t] = AfterSave(j)]
        \/ job' = [job EXCEPT ![t] = Resume(j)]
        \/ job' = [job EXCEPT ![t] = Failed(j)]
        \/ job' = [job EXCEPT ![t] = Ended(j)]
        \/ job' = [job EXCEPT ![t] = Closed(j)]
        \/ job' = [job EXCEPT ![t] = Idle]
        \/ job' = [job EXCEPT ![t] = [j EXCEPT !.at = "write"]]
        \/ job' = [job EXCEPT ![t] = [j EXCEPT !.at = "call"]]
        \/ job' = [job EXCEPT ![t] = [j EXCEPT !.at = "write", !.mine.status = "cancelled"]]
    BY <1>4 DEF Save, DropRule, CheckMissing, CancelCall, CloseCall, Becomes
  <2>2. /\ [j EXCEPT !.at = "write"].op = j.op /\ [j EXCEPT !.at = "call"].op = j.op
        /\ [j EXCEPT !.at = "write", !.mine.status = "cancelled"].op = j.op
    BY <1>1 DEF IsJob
  <2>3. bars' = bars
    BY <1>4 DEF Save, DropRule, CheckMissing, CancelCall, CloseCall
  <2> QED
    <3> DEFINE next == {AfterSave(j), Resume(j), Failed(j), Ended(j), Closed(j), Idle,
                        [j EXCEPT !.at = "write"], [j EXCEPT !.at = "call"],
                        [j EXCEPT !.at = "write", !.mine.status = "cancelled"]}
    <3>1. PICK k \in next : job' = [job EXCEPT ![t] = k]
      BY <2>1
    <3>2. \A i \in next : i.op = j.op \/ i.op = "idle"
      <4>1. /\ Resume(j).op \in {j.op, "idle"} /\ Failed(j).op \in {j.op, "idle"}
            /\ AfterSave(j).op \in {j.op, "idle"} /\ Ended(j).op = j.op /\ Closed(j).op = j.op
        BY <1>1, <1>3
      <4> QED
        BY <1>2, <2>2, <4>1, Zenon
    <3> QED
      BY <2>3, <3>1, <3>2
<1>5. CASE PlaceOrder(t) \/ ModifyCall(t) \/ ReadSaved(t) \/ StoreRule(t) \/ ListingFails(t)
  <2>1. \/ \E m : job' = [job EXCEPT ![t] = [j EXCEPT !.at = "write", !.mine = m]]
        \/ job' = [job EXCEPT ![t] = Idle]
    BY <1>5 DEF PlaceOrder, ModifyCall, ReadSaved, StoreRule, ListingFails, Becomes
  <2>2. \A m : [j EXCEPT !.at = "write", !.mine = m].op = j.op
    BY <1>1 DEF IsJob
  <2>3. bars' = bars
    BY <1>5 DEF PlaceOrder, ModifyCall, ReadSaved, StoreRule, ListingFails
  <2> QED
    BY <1>2, <2>1, <2>2, <2>3
<1>6. CASE ListOrders(t) \/ ListPositions(t) \/ LookForExit(t)
  <2>1. \/ job' = [job EXCEPT ![t] = [j EXCEPT !.at = "positions", !.listed = pending]]
        \/ job' = [job EXCEPT ![t] = [j EXCEPT !.at = "each", !.held = position]]
        \/ job' = [job EXCEPT ![t] = [j EXCEPT !.at = "drop"]]
        \/ \E m, n : job' = [job EXCEPT ![t] = [j EXCEPT !.at = "call", !.mine = m, !.lots = n]]
    BY <1>6 DEF ListOrders, ListPositions, LookForExit, Becomes
  <2>2. /\ [j EXCEPT !.at = "positions", !.listed = pending].op = j.op
        /\ [j EXCEPT !.at = "each", !.held = position].op = j.op
        /\ [j EXCEPT !.at = "drop"].op = j.op
        /\ \A m, n : [j EXCEPT !.at = "call", !.mine = m, !.lots = n].op = j.op
    BY <1>1 DEF IsJob
  <2>3. bars' = bars
    BY <1>6 DEF ListOrders, ListPositions, LookForExit
  <2>4. ASSUME NEW m, NEW n,
               job' = [job EXCEPT ![t] = [j EXCEPT !.at = "call", !.mine = m, !.lots = n]]
        PROVE  \E k : Next1(k)
    <3> DEFINE k == [j EXCEPT !.at = "call", !.mine = m, !.lots = n]
    <3>1. k.op = j.op /\ job' = [job EXCEPT ![t] = k]
      BY <2>2, <2>4
    <3> HIDE DEF k
    <3> QED
      BY <3>1
  <2> QED
    BY <2>1, <2>2, <2>3, <2>4
<1>7. CASE RecordHalf(t) \/ Arm(t) \/ RecordArmed(t)
  <2>1. \/ job' = [job EXCEPT ![t] = Resume(j)]
        \/ job' = [job EXCEPT ![t] = [j EXCEPT !.at = "arm"]]
        \/ job' = [job EXCEPT ![t] = [j EXCEPT !.at = "armed"]]
    BY <1>7 DEF RecordHalf, Arm, RecordArmed, Becomes
  <2>2. [j EXCEPT !.at = "arm"].op = j.op /\ [j EXCEPT !.at = "armed"].op = j.op
    BY <1>1 DEF IsJob
  <2>3. bars' = bars
    BY <1>7 DEF RecordHalf, Arm, RecordArmed
  <2> QED
    BY <1>1, <1>3, <2>1, <2>2, <2>3
<1>8. ASSUME NEW o \in Orders, EachOrder(t, o)
      PROVE  bars' = bars /\ \E k : Next1(k)
  <2> DEFINE rest == After(j, o)
  <2>1. IsJob(rest) /\ rest.op = j.op
    BY <1>1 DEF After, IsJob
  <2>2. \/ job' = [job EXCEPT ![t] = Resume(rest)]
        \/ \E m : job' = [job EXCEPT ![t] = [rest EXCEPT !.at = "write", !.key = o, !.mine = m]]
        \/ \E m : job' = [job EXCEPT ![t] = [rest EXCEPT !.at = "call", !.key = o, !.mine = m]]
        \/ \E m, n : job' = [job EXCEPT ![t] = [rest EXCEPT !.at = "call", !.key = o,
                                                           !.mine = m, !.lots = n]]
        \/ job' = [job EXCEPT ![t] = [rest EXCEPT !.at = "look", !.key = o]]
    BY <1>8 DEF EachOrder, ReconcileOrder, CallNext, HalveOrder, Checkpoint, Runs, Becomes
  <2>3. bars' = bars
    BY <1>8 DEF EachOrder, ReconcileOrder, CallNext, HalveOrder, Checkpoint
  <2> HIDE DEF rest
  <2>4. /\ \A m : [rest EXCEPT !.at = "write", !.key = o, !.mine = m].op = rest.op
        /\ \A m : [rest EXCEPT !.at = "call", !.key = o, !.mine = m].op = rest.op
        /\ \A m, n : [rest EXCEPT !.at = "call", !.key = o, !.mine = m, !.lots = n].op = rest.op
        /\ [rest EXCEPT !.at = "look", !.key = o].op = rest.op
    BY <2>1 DEF IsJob
  <2>5. ASSUME NEW m, NEW n,
               job' = [job EXCEPT ![t] = [rest EXCEPT !.at = "call", !.key = o,
                                                      !.mine = m, !.lots = n]]
        PROVE  \E k : Next1(k)
    <3> DEFINE k == [rest EXCEPT !.at = "call", !.key = o, !.mine = m, !.lots = n]
    <3>1. k.op = j.op /\ job' = [job EXCEPT ![t] = k]
      BY <2>1, <2>4, <2>5
    <3> HIDE DEF k
    <3> QED
      BY <3>1
  <2>6. ASSUME NEW i, i.op = j.op \/ i.op = "idle", job' = [job EXCEPT ![t] = i]
        PROVE  \E k : Next1(k)
    BY <2>6
  <2>7. Resume(rest).op = j.op \/ Resume(rest).op = "idle"
    BY <1>3, <2>1
  <2> HIDE DEF j, Next1
  <2> QED
    BY <2>1, <2>2, <2>3, <2>4, <2>5, <2>6, <2>7
<1> QED
  BY <1>4, <1>5, <1>6, <1>7, <1>8 DEF Continue

LEMMA NoTrail == \A k : k.op # "trail" => BarJob(k)
  BY DEF BarJob, BarJobIn

(* Another handler: its only effect here is on a rule. *)
LEMMA OthersLeaveBars ==
  ASSUME PlacingInv, BarInv, NEW t \in Threads, Continue(t), job[t].op # "trail"
  PROVE  BarInv'
<1> DEFINE j == job[t]
<1>1. PICK k : job' = [job EXCEPT ![t] = k] /\ k.op # "trail"
  BY OpKept
<1>2. bars' = bars
  BY OpKept
<1>3. k.op = "trail" => t = "engine" /\ BarJob(k)
  BY <1>1
<1>4. BarJob(k)
  BY <1>1, NoTrail
<1>5. exits' = exits
  BY DEF Continue, Save, DropRule, PlaceOrder, CheckMissing, CancelCall, CloseCall,
         ModifyCall, StoreRule, ListOrders, ListPositions, ListingFails, RecordHalf,
         Arm, RecordArmed, LookForExit, ReadSaved, EachOrder, ReconcileOrder, CallNext,
         HalveOrder, Checkpoint, Runs, historyVars
<1>6. CASE rule' = rule
  BY <1>1, <1>2, <1>4, <1>5, <1>6, QuietBar
<1>7. CASE DropRule(t)
  BY <1>1, <1>2, <1>4, <1>5, <1>7, RuleBar DEF DropRule
<1>8. CASE StoreRule(t) \/ Arm(t)
  <2>1. IsRule([ticket |-> j.mine.pos, last |-> bars])
    BY DEF IsRule, BarInv
  <2>2. \/ rule' = [rule EXCEPT ![j.key] = [ticket |-> j.mine.pos, last |-> bars]]
        \/ rule' = rule
    BY <1>8 DEF StoreRule, Arm
  <2> QED
    BY <1>1, <1>2, <1>4, <1>5, <1>6, <2>1, <2>2, RuleBar
<1>9. \/ rule' = rule \/ DropRule(t) \/ StoreRule(t) \/ Arm(t)
  BY DEF Continue, Save, PlaceOrder, CheckMissing, CancelCall, CloseCall,
         ModifyCall, ListOrders, ListPositions, ListingFails, RecordHalf,
         RecordArmed, LookForExit, ReadSaved, EachOrder, ReconcileOrder, CallNext,
         HalveOrder, Checkpoint, Runs, storeVars
<1> QED
  BY <1>6, <1>7, <1>8, <1>9

(* What the engine does with trailing exits. *)
TrailActions(t) ==
  \/ Save(t) \/ DropRule(t) \/ CloseCall(t) \/ LookForExit(t) \/ ReadSaved(t)
  \/ \E o \in Orders : Checkpoint(t, o)

LEMMA TrailPlaces ==
  ASSUME NEW j, IsJob(j), j.op = "trail", BarJob(j), NEW at, at \in {"read", "write", "drop"}
  PROVE  /\ BarJob([j EXCEPT !.at = at])
         /\ BarJob(Resume(j))
         /\ \A m : BarJob([j EXCEPT !.at = at, !.mine = m])
<1>1. BarJob(Resume(j))
  <2>1. CASE j.todo = {}
    BY <2>1 DEF Resume, Idle, BarJob, BarJobIn
  <2>2. CASE j.todo # {}
    BY <2>2 DEF Resume, IsJob, BarJob, BarJobIn
  <2> QED
    BY <2>1, <2>2
<1>2. BarJob([j EXCEPT !.at = at])
  BY DEF IsJob, BarJob, BarJobIn
<1>3. ASSUME NEW m PROVE BarJob([j EXCEPT !.at = at, !.mine = m])
  BY DEF IsJob, BarJob, BarJobIn
<1> QED
  BY <1>1, <1>2, <1>3

LEMMA TrailQuiet ==
  ASSUME PlacingInv, BarInv, NEW t \in Threads, job[t].op = "trail",
         Save(t) \/ DropRule(t) \/ LookForExit(t) \/ ReadSaved(t)
  PROVE  BarInv'
<1> DEFINE j == job[t]
<1>1. IsJob(j) /\ BarJob(j) /\ t = "engine"
  BY DEF PlacingInv, Handles, BarInv
<1>2. bars' = bars /\ exits' = exits
  BY DEF Save, DropRule, LookForExit, ReadSaved, historyVars
<1>3. CASE Save(t)
  <2>1. job' = [job EXCEPT ![t] = [j EXCEPT !.at = "drop"]] /\ rule' = rule
    BY <1>3 DEF Save, AfterSave, Becomes
  <2>2. BarJob([j EXCEPT !.at = "drop"])
    BY <1>1, TrailPlaces
  <2> HIDE DEF j
  <2> QED
    BY <1>1, <1>2, <2>1, <2>2, QuietBar
<1>4. CASE DropRule(t)
  <2>1. job' = [job EXCEPT ![t] = Resume(j)] /\ rule' = [rule EXCEPT ![j.key] = NoRule]
    BY <1>4 DEF DropRule, Becomes
  <2>2. BarJob(Resume(j))
    BY <1>1, TrailPlaces
  <2> HIDE DEF j
  <2> QED
    BY <1>1, <1>2, <2>1, <2>2, RuleBar
<1>5. CASE LookForExit(t)
  <2>1. j.at = "look" /\ rule' = rule
    BY <1>5 DEF LookForExit, Runs, storeVars
  <2>2. \/ job' = [job EXCEPT ![t] = [j EXCEPT !.at = "drop"]]
        \/ \E m, n : job' = [job EXCEPT ![t] = [j EXCEPT !.at = "call", !.mine = m, !.lots = n]]
    BY <1>5 DEF LookForExit, Becomes
  <2>3. BarJob([j EXCEPT !.at = "drop"])
    BY <1>1, TrailPlaces
  <2>4. ASSUME NEW m, NEW n PROVE BarJob([j EXCEPT !.at = "call", !.mine = m, !.lots = n])
    BY <1>1, <2>1 DEF IsJob, BarJob, BarJobIn
  <2>5. ASSUME NEW m, NEW n,
               job' = [job EXCEPT ![t] = [j EXCEPT !.at = "call", !.mine = m, !.lots = n]]
        PROVE  BarInv'
    <3> DEFINE k == [j EXCEPT !.at = "call", !.mine = m, !.lots = n]
    <3>1. BarJob(k) /\ job' = [job EXCEPT ![t] = k]
      BY <2>4, <2>5
    <3> HIDE DEF j, k
    <3> QED
      BY <1>1, <1>2, <2>1, <3>1, QuietBar
  <2> HIDE DEF j
  <2> QED
    BY <1>1, <1>2, <2>1, <2>2, <2>3, <2>5, QuietBar
<1>6. CASE ReadSaved(t)
  <2>1. PICK m : job' = [job EXCEPT ![t] = [j EXCEPT !.at = "write", !.mine = m]]
    BY <1>6 DEF ReadSaved, Becomes
  <2>2. rule' = rule
    BY <1>6 DEF ReadSaved, storeVars
  <2>3. BarJob([j EXCEPT !.at = "write", !.mine = m])
    BY <1>1, TrailPlaces
  <2> HIDE DEF j
  <2> QED
    BY <1>1, <1>2, <2>1, <2>2, <2>3, QuietBar
<1> QED
  BY <1>3, <1>4, <1>5, <1>6

LEMMA TrailCheckpoint ==
  ASSUME PlacingInv, BarInv, NEW t \in Threads, NEW o \in Orders, Checkpoint(t, o)
  PROVE  BarInv'
<1> DEFINE j == job[t]
           rest == After(j, o)
           look == [rest EXCEPT !.at = "look", !.key = o]
<1>1. /\ j.op = "trail" /\ j.at = "each" /\ o \in j.todo
      /\ bars' = bars /\ exits' = exits
      /\ rule' = IF rule[o] = NoRule THEN rule ELSE [rule EXCEPT ![o].last = j.bar]
      /\ job' = [job EXCEPT ![t] = Resume(rest)] \/ job' = [job EXCEPT ![t] = look]
  BY DEF Checkpoint, Runs, Becomes, historyVars
<1>2. IsJob(j) /\ BarJob(j) /\ t = "engine"
  BY <1>1 DEF PlacingInv, Handles, BarInv
<1>3. /\ j.bar \in Nat /\ j.bar <= bars
      /\ \A p \in j.todo : Before(p, j.bar)
      /\ Before(o, j.bar)
  BY <1>1, <1>2 DEF BarJob, BarJobIn, Before
<1>4. /\ IsJob(rest) /\ rest.op = "trail" /\ rest.at = "each" /\ rest.bar = j.bar
      /\ rest.todo \subseteq j.todo /\ o \notin rest.todo
  BY <1>1, <1>2 DEF After, IsJob
<1> HIDE DEF rest
<1>5. \A p \in Orders : \/ rule'[p] = rule[p]
                        \/ p = o /\ IsRule(rule'[p]) /\ rule'[p].last = j.bar
  <2>1. CASE rule[o] = NoRule
    BY <1>1, <2>1
  <2>2. CASE rule[o] # NoRule
    <3>1. rule' = [rule EXCEPT ![o] = [rule[o] EXCEPT !.last = j.bar]]
      BY <1>1, <2>2
    <3>2. /\ IsRule([rule[o] EXCEPT !.last = j.bar])
          /\ [rule[o] EXCEPT !.last = j.bar].last = j.bar
      BY <1>3 DEF BarInv, IsRule
    <3> QED
      BY <3>1, <3>2 DEF BarInv
  <2> QED
    BY <2>1, <2>2
<1>6. rule' = [p \in Orders |-> rule'[p]]
  BY <1>1 DEF BarInv
<1>7. rule'[o] = NoRule \/ rule'[o].last = j.bar
  <2>1. CASE rule[o] = NoRule
    BY <1>1, <2>1
  <2>2. CASE rule[o] # NoRule
    <3>1. rule' = [rule EXCEPT ![o] = [rule[o] EXCEPT !.last = j.bar]]
      BY <1>1, <2>2
    <3> QED
      BY <1>3, <3>1 DEF BarInv, IsRule
  <2> QED
    BY <2>1, <2>2
<1>8. BarJobIn(Resume(rest), exits', rule', bars')
  <2>1. CASE rest.todo = {}
    BY <2>1 DEF Resume, Idle, BarJob, BarJobIn
  <2>2. CASE rest.todo # {}
    BY <1>1, <1>3, <1>4, <2>2 DEF Resume, IsJob, BarJob, BarJobIn, Before
  <2> QED
    BY <2>1, <2>2
<1>9. look.op = "trail" /\ look.at = "look" /\ look.key = o /\ look.bar = j.bar /\ look.todo = rest.todo
  BY <1>4 DEF IsJob
<1>10. BarJobIn(look, exits', rule', bars')
  <2> HIDE DEF look
  <2> QED
    BY <1>1, <1>3, <1>4, <1>7, <1>9 DEF BarJob, BarJobIn, Before
<1>11. Resume(rest).op \in {"trail", "idle"}
  BY <1>4 DEF Resume, IsJob, Idle
<1> HIDE DEF look
<1>12. \A u \in Threads : \/ u # t /\ job'[u] = job[u] /\ job[u].op # "trail"
                          \/ u = t /\ (job'[u] = Resume(rest) \/ job'[u] = look)
  BY <1>1, <1>2 DEF PlacingInv, BarInv
<1>13. \A p \in Orders : IsRule(rule'[p]) /\ Noted(p)'
  BY <1>1, <1>3, <1>5 DEF BarInv, Noted, Before
<1>14. \A u \in Threads : BarJob(job[u])' /\ (job'[u].op = "trail" => u = "engine")
  BY <1>2, <1>8, <1>10, <1>12 DEF BarJob, BarJobIn
<1> QED
  BY <1>1, <1>6, <1>13, <1>14 DEF BarInv

LEMMA TrailCloses ==
  ASSUME PlacingInv, BarInv, NEW t \in Threads, job[t].op = "trail", CloseCall(t)
  PROVE  BarInv'
<1> DEFINE j == job[t]
           o == j.key
           k == [j EXCEPT !.at = "read"]
<1>1. /\ j.at = "call" /\ bars' = bars /\ rule' = rule
      /\ exits' = [exits EXCEPT ![o] = @ \cup {j.bar}]
      /\ job' = [job EXCEPT ![t] = k] \/ job' = [job EXCEPT ![t] = Resume(j)]
  BY DEF CloseCall, Runs, Closed, Failed, Becomes, storeVars
<1>2. IsJob(j) /\ BarJob(j) /\ t = "engine"
  BY <1>1 DEF PlacingInv, Handles, BarInv
<1>3. /\ j.bar \in Nat /\ j.bar <= bars
      /\ \A p \in j.todo : Before(p, j.bar)
      /\ o \in Orders \ j.todo
      /\ rule[o] = NoRule \/ j.bar <= rule[o].last
      /\ j.todo \subseteq Orders
  BY <1>1, <1>2 DEF BarJob, BarJobIn, Before, PlacingInv, Handles
<1>4. k.op = "trail" /\ k.at = "read" /\ k.todo = j.todo /\ k.bar = j.bar
  BY <1>2 DEF IsJob
<1>5. /\ exits' = [p \in Orders |-> exits'[p]]
      /\ \A p \in Orders : exits'[p] = IF p = o THEN exits[o] \cup {j.bar} ELSE exits[p]
  BY <1>1, <1>3 DEF BarInv
<1>6. \A p \in j.todo : \A e \in exits'[p] : e < j.bar
  BY <1>3, <1>5 DEF Before
<1>7. BarJobIn(k, exits', rule', bars')
  <2> HIDE DEF k
  <2> QED
    BY <1>1, <1>3, <1>4, <1>6 DEF BarJob, BarJobIn, Before
<1>8. BarJobIn(Resume(j), exits', rule', bars')
  <2>1. CASE j.todo = {}
    BY <2>1 DEF Resume, Idle, BarJob, BarJobIn
  <2>2. CASE j.todo # {}
    <3>1. Resume(j) = [j EXCEPT !.at = "each"]
      BY <2>2 DEF Resume
    <3>2. /\ Resume(j).op = "trail" /\ Resume(j).at = "each"
          /\ Resume(j).todo = j.todo /\ Resume(j).bar = j.bar
      BY <1>2, <3>1 DEF IsJob
    <3> QED
      BY <1>1, <1>3, <1>6, <3>2 DEF BarJob, BarJobIn, Before
  <2> QED
    BY <2>1, <2>2
<1> HIDE DEF k
<1>9. \A u \in Threads : \/ u # t /\ job'[u] = job[u] /\ job[u].op # "trail"
                         \/ u = t /\ (job'[u] = Resume(j) \/ job'[u] = k)
  BY <1>1, <1>2 DEF PlacingInv, BarInv
<1>10. \A p \in Orders : Noted(p)'
  BY <1>1, <1>3, <1>5 DEF BarInv, Noted
<1>11. \A u \in Threads : BarJob(job[u])' /\ (job'[u].op = "trail" => u = "engine")
  BY <1>2, <1>7, <1>8, <1>9 DEF BarJob, BarJobIn
<1> QED
  BY <1>1, <1>5, <1>10, <1>11 DEF BarInv

LEMMA TrailContinues ==
  ASSUME PlacingInv, BarInv, NEW t \in Threads, job[t].op = "trail", Continue(t)
  PROVE  BarInv'
<1>1. job[t].at \in {"each", "look", "call", "read", "write", "drop"}
  BY DEF BarInv, BarJob, BarJobIn
<1>2. TrailActions(t)
  BY <1>1 DEF Continue, TrailActions, EachOrder, PlaceOrder, CheckMissing, CancelCall,
              ModifyCall, StoreRule, ListOrders, ListPositions, ListingFails, RecordHalf,
              Arm, RecordArmed, ReconcileOrder, CallNext, HalveOrder, Runs
<1> QED
  BY <1>2, TrailQuiet, TrailCloses, TrailCheckpoint DEF TrailActions

(* A handler that begins, or none that moves. *)
LEMMA OtherBarBegins ==
  ASSUME PlacingInv, BarInv, NEW t \in Threads, NEW k, k.op # "trail",
         job' = [job EXCEPT ![t] = k], UNCHANGED <<bars, exits, rule>>
  PROVE  BarInv'
<1>1. BarJob(k)
  BY NoTrail
<1> QED
  BY <1>1, QuietBar

LEMMA PassBegins ==
  ASSUME PlacingInv, BarInv, NEW t \in Threads, NEW op, op # "trail", NEW at, NEW S,
         Start(t, Pass(op, at, S)), bars' = bars
  PROVE  BarInv'
<1>1. job' = [job EXCEPT ![t] = Pass(op, at, S)] /\ UNCHANGED <<bars, exits, rule>>
  BY DEF Start, Becomes, storeVars, historyVars
<1>2. Pass(op, at, S).op # "trail"
  BY DEF Pass, Idle
<1> QED
  BY <1>1, <1>2, OtherBarBegins

LEMMA HandlerBegins ==
  ASSUME PlacingInv, BarInv, NEW t \in Threads, NEW op, op # "trail", NEW at, NEW o,
         NEW m, NEW n, UNCHANGED <<bars, exits, rule>>,
         \/ job' = [job EXCEPT ![t] = Handler(op, at, o, m)]
         \/ job' = [job EXCEPT ![t] = [Handler(op, at, o, m) EXCEPT !.lots = n]]
  PROVE  BarInv'
<1>1. /\ Handler(op, at, o, m).op # "trail"
      /\ [Handler(op, at, o, m) EXCEPT !.lots = n].op # "trail"
  BY DEF Handler, Idle
<1> QED
  BY <1>1, OtherBarBegins

LEMMA ClosedBarBegins ==
  ASSUME PlacingInv, BarInv, NEW b \in Nat, OnClosedBar(b)
  PROVE  BarInv'
<1> DEFINE S == {o \in Orders : rule[o] # NoRule /\ rule[o].last < b}
           k == [Pass("trail", "each", S) EXCEPT !.rules = rule, !.bar = b]
<1>1. /\ "engine" \in Threads /\ job["engine"] = Idle
      /\ bars' = Max2(bars, b)
      /\ job' = [job EXCEPT !["engine"] = k] /\ UNCHANGED <<exits, rule>>
  BY DEF OnClosedBar, Start, Becomes, storeVars, historyVars
<1>2. bars' \in Nat /\ bars <= bars' /\ b <= bars'
  BY <1>1 DEF BarInv, Max2
<1>3. k.op = "trail" /\ k.at = "each" /\ k.todo = S /\ k.bar = b
  BY DEF Pass, Idle
<1> HIDE DEF k
<1>4. \A o \in S : \A e \in exits[o] : e < b
  BY DEF BarInv, Noted, IsRule
<1>5. BarJobIn(k, exits', rule', bars')
  BY <1>1, <1>2, <1>3, <1>4 DEF BarJobIn
<1>6. \A u \in Threads : \/ u = "engine" /\ job'[u] = k
                         \/ u # "engine" /\ job'[u] = job[u] /\ job[u].op # "trail"
  BY <1>1 DEF PlacingInv, BarInv
<1>7. \A u \in Threads : BarJob(job[u])' /\ (job'[u].op = "trail" => u = "engine")
  BY <1>5, <1>6 DEF BarJob, BarJobIn
<1>8. \A o \in Orders : Noted(o)'
  BY <1>1, <1>2 DEF BarInv, Noted
<1> QED
  BY <1>1, <1>2, <1>7, <1>8 DEF BarInv

LEMMA BarRequests ==
  ASSUME PlacingInv, BarInv, NEW o \in Orders, RestRequest(o) \/ SubmitForSignal(o)
  PROVE  BarInv'
<1>1. ASSUME NEW t, NEW m, CreateRow(t, o, m)
      PROVE  BarInv'
  <2>1. /\ t \in Threads /\ UNCHANGED <<bars, exits, rule>>
        /\ job' = [job EXCEPT ![t] = Handler("create", "call", o, m)]
    BY <1>1 DEF CreateRow, Becomes, historyVars
  <2> QED
    BY <2>1, HandlerBegins
<1>2. ASSUME NEW op, op # "trail", NEW at, NEW n, Request(op, at, o, n)
      PROVE  BarInv'
  <2>1. /\ "rest" \in Threads /\ UNCHANGED <<bars, exits, rule>>
        /\ job' = [job EXCEPT !["rest"] = [Handler(op, at, o, row[o]) EXCEPT !.lots = n]]
    BY <1>2 DEF Request, Becomes, storeVars, historyVars
  <2> QED
    BY <1>2, <2>1, HandlerBegins
<1>3. CASE DisableTrailing(o)
  <2>1. /\ "rest" \in Threads /\ job["rest"] = Idle /\ job' = job
        /\ bars' = bars /\ exits' = exits /\ rule' = [rule EXCEPT ![o] = NoRule]
    BY <1>3 DEF DisableTrailing, historyVars
  <2>2. job' = [job EXCEPT !["rest"] = Idle]
    BY <2>1 DEF PlacingInv
  <2>3. Idle.op # "trail" /\ BarJob(Idle)
    BY NoTrail DEF Idle
  <2> QED
    BY <2>1, <2>2, <2>3, RuleBar
<1> QED
  BY <1>1, <1>2, <1>3 DEF RestRequest, CreateOrder, SubmitForSignal, CancelOrder,
                          CloseOrder, PatchOrder, EnableTrailing

LEMMA BarEngineStarts ==
  ASSUME PlacingInv, BarInv, EngineStarts
  PROVE  BarInv'
<1>1. CASE StartUnfilled
  BY <1>1, PassBegins DEF StartUnfilled
<1>2. CASE TakeProfitAt1R \/ TakeProfitHalfAt1R
  BY <1>2, PassBegins DEF TakeProfitAt1R, TakeProfitHalfAt1R, StartHalves
<1>3. ASSUME NEW o \in Orders, ArmAgain(o)
      PROVE  BarInv'
  <2>1. /\ "engine" \in Threads /\ UNCHANGED <<bars, exits, rule>>
        /\ job' = [job EXCEPT !["engine"] = Handler("half", "arm", o, row[o])]
    BY <1>3 DEF ArmAgain, Becomes, storeVars, historyVars
  <2> QED
    BY <2>1, HandlerBegins
<1>4. ASSUME NEW b \in 1 .. MaxBars, OnClosedBar(b)
      PROVE  BarInv'
  <2>1. b \in Nat
    BY LifecycleAssumption
  <2> QED
    BY <1>4, <2>1, ClosedBarBegins
<1> QED
  BY <1>1, <1>2, <1>3, <1>4 DEF EngineStarts

LEMMA BarInvariant == Spec => []BarInv
<1>1. Init => BarInv
  <2> SUFFICES ASSUME Init PROVE BarInv
    OBVIOUS
  <2>1. \A t \in Threads : job[t].op # "trail" /\ BarJob(job[t])
    BY NoTrail DEF Init, Idle
  <2>2. IsRule(NoRule)
    BY DEF IsRule, NoRule
  <2>3. bars = 0 /\ exits = [o \in Orders |-> {}] /\ rule = [o \in Orders |-> NoRule]
    BY DEF Init, NoRules
  <2> QED
    BY <2>1, <2>2, <2>3 DEF BarInv, Noted
<1>2. PlacingInv /\ BarInv /\ [Next]_vars => BarInv'
  <2> SUFFICES ASSUME PlacingInv, BarInv, [Next]_vars PROVE BarInv'
    OBVIOUS
  <2>1. ASSUME NEW o \in Orders, RestRequest(o) \/ SubmitForSignal(o)
        PROVE  BarInv'
    BY <2>1, BarRequests
  <2>2. ASSUME NEW o \in Orders, BrokerActs(o)
        PROVE  BarInv'
    BY <2>2 DEF BrokerActs, storeVars, historyVars, BarInv, BarJob, Noted
  <2>3. CASE (\E t \in Reconcilers : StartReconciliation(t)) \/ StartSync
    BY <2>3, PassBegins DEF StartReconciliation, StartSync, Threads
  <2>4. CASE EngineStarts
    BY <2>4, BarEngineStarts
  <2>5. ASSUME NEW t \in Threads, Continue(t)
        PROVE  BarInv'
    BY <2>5, TrailContinues, OthersLeaveBars
  <2>6. CASE Crash
    <3>1. job' = [t \in Threads |-> Idle] /\ UNCHANGED <<bars, exits, rule>>
      BY <2>6 DEF Crash, storeVars, historyVars
    <3>2. \A t \in Threads : job'[t].op # "trail"
      BY <3>1 DEF Idle
    <3> QED
      BY <3>1, <3>2 DEF BarInv, BarJob, BarJobIn, Noted
  <2>7. CASE UNCHANGED vars
    BY <2>7 DEF BarInv, BarJob, Noted, vars, storeVars, historyVars
  <2>8. CASE Next
    BY <2>1, <2>2, <2>3, <2>4, <2>5, <2>6, <2>8 DEF Next
  <2> QED
    BY <2>7, <2>8
<1> QED
  BY <1>1, <1>2, PlacingInvariant, PTL DEF Spec

(***************************************************************************)
(* For no bar a trailing exit is sent twice, however often the snapshot of *)
(* a closed bar is repeated, whatever raises, and over restarts: the       *)
(* checkpoint is stored before the exit, and no rule starts before the     *)
(* latest bar (on_closed_bar, enable_order_supertrend_trailing).           *)
(***************************************************************************)
THEOREM OneExitPerBar == Spec => []BarClosesOnce
<1>1. BarInv => BarClosesOnce
  <2> SUFFICES ASSUME BarInv, NEW t \in Threads, Runs(t, {"trail"}, "call")
               PROVE  job[t].bar \notin exits[job[t].key]
    BY DEF BarClosesOnce
  <2>1. job[t].op = "trail" /\ job[t].at = "call"
    BY DEF Runs
  <2>2. \A e \in exits[job[t].key] : e < job[t].bar
    BY <2>1 DEF BarInv, BarJob, BarJobIn
  <2>3. job[t].bar \in Nat
    BY <2>1 DEF BarInv, BarJob, BarJobIn
  <2> QED
    BY <2>2, <2>3
<1> QED
  BY <1>1, BarInvariant, PTL

(***************************************************************************)
(* What a copy of a row says of the broker.  A row with a broker order     *)
(* was sent; one with a position of its own was filled, and its volume is  *)
(* at least what is still open; and what a reconciliation has listed       *)
(* bounds what is open of the orders it has still to come to.  This stays  *)
(* true of every copy, however old, because the broker only goes on: what  *)
(* was sent stays sent, what was filled is not pending again, and an open  *)
(* volume only shrinks.                                                    *)
(***************************************************************************)

Kept == {o \in Orders : row[o] # NoRow}
Sent == {o \in Orders : placed[o] # 0}
Opened == Sent \ pending

(* A copy m of the row of order o; S the orders sent, Q those that are not *)
(* pending any more, P the open volumes.                                   *)
Copy(o, m, S, Q, P) ==
  /\ m.lots \in Nat \ {0}
  /\ m.pos \in Orders \cup {None}
  /\ m.pos = None => m.lots = Lots
  /\ m.order => o \in S /\ m.kind # "market"
  /\ m.pos = o => o \in Q /\ P[o] <= m.lots

(* The volume a close is sent with. *)
Volume(j) ==
  /\ j.op = "close" => j.lots \in 1 .. j.mine.lots
  /\ j.op = "half" => j.lots \in 1 .. j.mine.lots - 1
  /\ j.op = "trail" /\ j.mine.pos # None => j.lots \in Nat

(* The order a handler has in hand, K the orders that have a row. *)
Hand(j, K, S, Q, P) ==
  /\ \/ j.at \in {"check", "recheck", "call", "write"}
     \/ j.at = "drop" /\ j.op # "trail"
     => j.key \in Orders /\ Copy(j.key, j.mine, S, Q, P)
  /\ j.op = "create" /\ j.at = "call" => j.mine.pos = None
  /\ j.op = "trail" /\ j.at \in {"call", "read"} => j.key \in K
  /\ j.at \in {"check", "call"} => Volume(j)

(* The orders a pass has not come to, and what was listed of them. *)
Walk(j, S, Q, P) ==
  /\ j.held \in [Orders -> 0 .. Lots]
  /\ \A o \in Orders : j.held[o] # 0 => o \in Q /\ P[o] <= j.held[o]
  /\ j.op # "trail" => \A o \in j.todo : Copy(o, j.rows[o], S, Q, P)
  /\ j.op = "half" => \A o \in j.todo : j.rows[o].pos # None
  /\ j.op = "reconcile" /\ j.at # "orders" =>
       \A o \in j.todo : j.rows[o].order /\ o \notin j.listed => o \in Q
  /\ j.op = "reconcile" /\ j.at \notin {"orders", "positions"} =>
       \A o \in j.todo : (j.rows[o].order /\ o \notin j.listed) \/ j.rows[o].pos = o
                           => P[o] <= j.held[o]

Linked(j) ==
  Hand(j, Kept, Sent, Opened, position) /\ Walk(j, Sent, Opened, position)

LinkInv ==
  /\ position \in [Orders -> 0 .. Lots]
  /\ pending \subseteq Sent
  /\ \A o \in Orders : position[o] # 0 => o \in Opened
  /\ \A o \in Orders : row[o] = NoRow \/ Copy(o, row[o], Sent, Opened, position)
  /\ \A t \in Threads : Linked(job[t])

(* The broker goes on: what was sent stays sent, what is not pending any   *)
(* more stays so, and an open volume only shrinks.                         *)
Later(S, Q, P, S2, Q2, P2) ==
  /\ S \subseteq S2 /\ Q \subseteq Q2 /\ Q \subseteq Orders
  /\ P \in [Orders -> 0 .. Lots] /\ P2 \in [Orders -> 0 .. Lots]
  /\ \A o \in Q : P2[o] <= P[o]

LEMMA Smaller ==
  ASSUME NEW S, NEW Q, NEW P, NEW S2, NEW Q2, NEW P2, Later(S, Q, P, S2, Q2, P2),
         NEW o \in Q, NEW n \in Nat, P[o] <= n
  PROVE  P2[o] <= n
<1>1. P[o] \in Nat /\ P2[o] \in Nat /\ P2[o] <= P[o]
  BY BrokerAssumption DEF Later
<1> QED
  BY <1>1

LEMMA CopyLasts ==
  ASSUME NEW S, NEW Q, NEW P, NEW S2, NEW Q2, NEW P2, Later(S, Q, P, S2, Q2, P2),
         NEW o, NEW m, Copy(o, m, S, Q, P)
  PROVE  Copy(o, m, S2, Q2, P2)
<1>1. m.pos = o => P2[o] <= m.lots
  BY Smaller DEF Copy
<1> QED
  BY <1>1 DEF Copy, Later

LEMMA WalkLasts ==
  ASSUME NEW S, NEW Q, NEW P, NEW S2, NEW Q2, NEW P2, Later(S, Q, P, S2, Q2, P2),
         NEW j, j.todo \subseteq Orders, Walk(j, S, Q, P)
  PROVE  Walk(j, S2, Q2, P2)
<1>1. Q \subseteq Q2 /\ j.held \in [Orders -> 0 .. Lots]
  BY DEF Later, Walk
<1>2. \A o \in Orders : j.held[o] \in Nat
  BY <1>1, BrokerAssumption
<1>3. \A o \in Orders : j.held[o] # 0 => o \in Q2 /\ P2[o] <= j.held[o]
  BY <1>1, <1>2, Smaller DEF Walk
<1>4. j.op # "trail" => \A o \in j.todo : Copy(o, j.rows[o], S2, Q2, P2)
  <2> SUFFICES ASSUME j.op # "trail", NEW o \in j.todo
               PROVE  Copy(o, j.rows[o], S2, Q2, P2)
    OBVIOUS
  <2>1. Copy(o, j.rows[o], S, Q, P)
    BY DEF Walk
  <2> QED
    BY <2>1, CopyLasts
<1>5. j.op = "reconcile" /\ j.at \notin {"orders", "positions"} =>
        \A o \in j.todo : (j.rows[o].order /\ o \notin j.listed) \/ j.rows[o].pos = o
                            => P2[o] <= j.held[o]
  <2> SUFFICES ASSUME j.op = "reconcile", j.at \notin {"orders", "positions"},
                      NEW o \in j.todo,
                      (j.rows[o].order /\ o \notin j.listed) \/ j.rows[o].pos = o
               PROVE  P2[o] <= j.held[o]
    OBVIOUS
  <2>1. P[o] <= j.held[o]
    BY DEF Walk
  <2>2. o \in Q
    BY DEF Walk, Copy
  <2> QED
    BY <1>2, <2>1, <2>2, Smaller
<1> QED
  BY <1>1, <1>3, <1>4, <1>5 DEF Walk

LEMMA HandLasts ==
  ASSUME NEW S, NEW Q, NEW P, NEW S2, NEW Q2, NEW P2, Later(S, Q, P, S2, Q2, P2),
         NEW K, NEW K2, K \subseteq K2, NEW j, Hand(j, K, S, Q, P)
  PROVE  Hand(j, K2, S2, Q2, P2)
BY CopyLasts DEF Hand

(* What the broker does on its own or on request.                          *)
LEMMA BrokerGoesOn ==
  ASSUME PlacingInv, LinkInv, NEW o \in Orders,
         \/ UNCHANGED brokerVars
         \/ Remove(o) \/ Fill(o)
         \/ \E n \in Nat : n <= position[o] /\ Reduce(o, n)
         \/ placed[o] = 0 /\ \E kind : Place(o, kind)
  PROVE  /\ Later(Sent, Opened, position, Sent', Opened', position')
         /\ pending' \subseteq Sent'
         /\ \A p \in Orders : position'[p] # 0 => p \in Opened'
<1>0. /\ position \in [Orders -> 0 .. Lots] /\ placed \in [Orders -> {0, 1}]
      /\ Lots \in Nat /\ Opened \subseteq Orders
      /\ \A p \in Orders : position[p] \in Nat
  BY BrokerAssumption DEF LinkInv, PlacingInv, Opened, Sent
<1>1. CASE UNCHANGED brokerVars
  <2>1. Sent' = Sent /\ Opened' = Opened /\ position' = position /\ pending' = pending
    BY <1>1 DEF brokerVars, Sent, Opened
  <2> QED
    BY <1>0, <2>1 DEF Later, LinkInv
<1>2. CASE Remove(o)
  BY <1>0, <1>2 DEF Remove, Later, LinkInv, Sent, Opened
<1>3. CASE Fill(o)
  <2>1. /\ position' \in [Orders -> 0 .. Lots]
        /\ \A p \in Orders : p # o => position'[p] = position[p]
    BY <1>0, <1>3 DEF Fill
  <2> QED
    BY <1>0, <1>3, <2>1 DEF Fill, Later, LinkInv, Sent, Opened
<1>4. ASSUME NEW n \in Nat, n <= position[o], Reduce(o, n)
      PROVE  /\ Later(Sent, Opened, position, Sent', Opened', position')
             /\ pending' \subseteq Sent'
             /\ \A p \in Orders : position'[p] # 0 => p \in Opened'
  <2>1. position[o] - n \in 0 .. Lots /\ position[o] - n <= position[o]
    BY <1>0, <1>4
  <2>2. /\ position' \in [Orders -> 0 .. Lots]
        /\ \A p \in Orders : p # o => position'[p] = position[p]
        /\ position'[o] = position[o] - n
    BY <1>0, <1>4, <2>1 DEF Reduce
  <2>3. \A p \in Orders : position'[p] <= position[p]
    BY <1>0, <2>1, <2>2
  <2>4. \A p \in Orders : position[p] = 0 => position'[p] = 0
    BY <1>0, <1>4, <2>2
  <2>5. Sent' = Sent /\ Opened' = Opened /\ pending' = pending
    BY <1>4 DEF Reduce, Sent, Opened
  <2> QED
    BY <1>0, <2>2, <2>3, <2>4, <2>5 DEF Later, LinkInv
<1>5. ASSUME placed[o] = 0, NEW kind, Place(o, kind)
      PROVE  /\ Later(Sent, Opened, position, Sent', Opened', position')
             /\ pending' \subseteq Sent'
             /\ \A p \in Orders : position'[p] # 0 => p \in Opened'
  <2>1. o \notin Sent /\ o \notin pending /\ position[o] = 0
    BY <1>5 DEF LinkInv, Sent, Opened
  <2>2. Sent' = Sent \cup {o}
    BY <1>0, <1>5 DEF Place, Sent
  <2>3. CASE kind = "market"
    <3>1. /\ position' \in [Orders -> 0 .. Lots]
          /\ \A p \in Orders : p # o => position'[p] = position[p]
          /\ pending' = pending
      BY <1>0, <1>5, <2>3 DEF Place
    <3>2. Opened' = Opened \cup {o}
      BY <2>1, <2>2, <3>1 DEF Opened
    <3> QED
      BY <1>0, <2>1, <2>2, <3>1, <3>2 DEF Later, LinkInv, Opened
  <2>4. CASE kind # "market"
    <3>1. position' = position /\ pending' = pending \cup {o}
      BY <1>5, <2>4 DEF Place
    <3>2. Opened' = Opened
      BY <2>1, <2>2, <3>1 DEF Opened
    <3> QED
      BY <1>0, <2>1, <2>2, <3>1, <3>2 DEF Later, LinkInv, Opened
  <2> QED
    BY <2>3, <2>4
<1> QED
  BY <1>1, <1>2, <1>3, <1>4, <1>5

(* A step of one thread, with what the broker does in it.                  *)
LEMMA LinkStep ==
  ASSUME PlacingInv, PlacingInv', LinkInv, NEW t \in Threads, NEW k,
         job' = [job EXCEPT ![t] = k],
         Later(Sent, Opened, position, Sent', Opened', position'),
         pending' \subseteq Sent',
         \A o \in Orders : position'[o] # 0 => o \in Opened',
         \/ row' = row
         \/ \E o, m : /\ Real(m) /\ Copy(o, m, Sent, Opened, position)
                      /\ row' = [row EXCEPT ![o] = m],
         Hand(k, Kept', Sent', Opened', position'),
         Walk(k, Sent', Opened', position')
  PROVE  LinkInv'
<1>1. \A u \in Threads : job'[u] = IF u = t THEN k ELSE job[u]
  BY DEF PlacingInv
<1>2. \A o \in Orders : \/ row'[o] = row[o]
                        \/ Real(row'[o]) /\ Copy(o, row'[o], Sent, Opened, position)
  BY DEF PlacingInv
<1>3. Kept \subseteq Kept'
  BY <1>2, NoRowIsNoCopy DEF Kept
<1>4. \A o \in Orders : row'[o] = NoRow \/ Copy(o, row'[o], Sent, Opened, position)
  BY <1>2 DEF LinkInv
<1>5. \A o \in Orders : row'[o] = NoRow \/ Copy(o, row'[o], Sent', Opened', position')
  BY <1>4, CopyLasts
<1>6. ASSUME NEW u \in Threads
      PROVE  /\ Hand(job'[u], Kept', Sent', Opened', position')
             /\ Walk(job'[u], Sent', Opened', position')
  <2>1. CASE u = t
    BY <1>1, <2>1
  <2>2. CASE u # t
    <3>1. job'[u] = job[u] /\ job[u].todo \subseteq Orders
      BY <1>1, <2>2 DEF PlacingInv, Handles
    <3>2. Hand(job[u], Kept, Sent, Opened, position) /\ Walk(job[u], Sent, Opened, position)
      BY DEF LinkInv, Linked
    <3> QED
      BY <1>3, <3>1, <3>2, HandLasts, WalkLasts
  <2> QED
    BY <2>1, <2>2
<1>7. position' \in [Orders -> 0 .. Lots]
  BY DEF Later
<1> QED
  BY <1>5, <1>6, <1>7 DEF LinkInv, Linked

(* ... and one in which the broker does nothing.                           *)
LEMMA QuietLink ==
  ASSUME PlacingInv, PlacingInv', LinkInv, NEW t \in Threads, NEW k,
         job' = [job EXCEPT ![t] = k], UNCHANGED brokerVars,
         \/ row' = row
         \/ \E o, m : /\ Real(m) /\ Copy(o, m, Sent, Opened, position)
                      /\ row' = [row EXCEPT ![o] = m],
         Linked(k)
  PROVE  LinkInv'
<1>1. Sent' = Sent /\ Opened' = Opened /\ position' = position /\ pending' = pending
  BY DEF brokerVars, Sent, Opened
<1>2. Later(Sent, Opened, position, Sent, Opened, position)
  <2>1. position \in [Orders -> 0 .. Lots] /\ Opened \subseteq Orders
    BY DEF LinkInv, Opened, Sent
  <2>2. \A o \in Opened : position[o] \in Nat
    BY <2>1, BrokerAssumption
  <2> QED
    BY <2>1, <2>2 DEF Later
<1>3. \A o \in Orders : row'[o] = row[o] \/ Real(row'[o])
  BY DEF PlacingInv
<1>4. Kept \subseteq Kept'
  BY <1>3, NoRowIsNoCopy DEF Kept
<1>5. Hand(k, Kept', Sent, Opened, position)
  BY <1>2, <1>4, HandLasts DEF Linked
<1>6. pending \subseteq Sent /\ \A o \in Orders : position[o] # 0 => o \in Opened
  BY DEF LinkInv
<1> QED
  BY <1>1, <1>2, <1>5, <1>6, LinkStep DEF Linked

(***************************************************************************)
(* Where handlers and passes go.                                           *)
(***************************************************************************)

(* The pass of a job k is that of j.                                       *)
SamePass(k, j) ==
  /\ k.op = j.op /\ k.todo = j.todo /\ k.rows = j.rows
  /\ k.listed = j.listed /\ k.held = j.held

Listing == {"orders", "positions"}

LEMMA WalkOn ==
  ASSUME NEW S, NEW Q, NEW P, NEW j, NEW k, SamePass(k, j), Walk(j, S, Q, P),
         j.at \notin Listing, k.at \notin Listing
  PROVE  Walk(k, S, Q, P)
BY DEF SamePass, Walk, Listing

LEMMA IdleLink ==
  ASSUME NEW K, NEW S, NEW Q, NEW P
  PROVE  Hand(Idle, K, S, Q, P) /\ Walk(Idle, S, Q, P)
<1>1. Hand(Idle, K, S, Q, P)
  BY DEF Idle, Hand
<1>2. Idle.held \in [Orders -> 0 .. Lots] /\ \A o \in Orders : Idle.held[o] = 0
  BY BrokerAssumption DEF Idle
<1>3. Idle.op = "idle" /\ Idle.todo = {}
  BY DEF Idle
<1>4. Walk(Idle, S, Q, P)
  BY <1>2, <1>3 DEF Walk
<1> QED
  BY <1>1, <1>4

LEMMA ResumeLink ==
  ASSUME NEW K, NEW S, NEW Q, NEW P, NEW j, Handles(j), Walk(j, S, Q, P),
         j.at \notin Listing
  PROVE  Hand(Resume(j), K, S, Q, P) /\ Walk(Resume(j), S, Q, P)
<1>1. CASE j.todo = {}
  BY <1>1, IdleLink DEF Resume
<1>2. CASE j.todo # {}
  <2> DEFINE k == [j EXCEPT !.at = "each"]
  <2>1. SamePass(k, j) /\ k.at = "each"
    BY DEF SamePass, Handles, IsJob
  <2>2. Resume(j) = k
    BY <1>2 DEF Resume
  <2> HIDE DEF k
  <2>3. Walk(k, S, Q, P)
    BY <2>1, WalkOn DEF Listing
  <2>4. Hand(k, K, S, Q, P)
    BY <2>1 DEF Hand
  <2> QED
    BY <2>2, <2>3, <2>4
<1> QED
  BY <1>1, <1>2

LEMMA AfterLink ==
  ASSUME NEW S, NEW Q, NEW P, NEW j, Handles(j), Walk(j, S, Q, P), NEW o
  PROVE  Walk(After(j, o), S, Q, P)
<1> DEFINE k == After(j, o)
<1> SUFFICES Walk(k, S, Q, P)
  OBVIOUS
<1>1. CASE j.todo = {o}
  <2>1. k.todo = {} /\ k.held = Idle.held
    BY <1>1 DEF After, Handles, IsJob
  <2>2. Idle.held \in [Orders -> 0 .. Lots] /\ \A p \in Orders : Idle.held[p] = 0
    BY BrokerAssumption DEF Idle
  <2> HIDE DEF k
  <2>3. k.held \in [Orders -> 0 .. Lots] /\ \A p \in Orders : k.held[p] = 0
    BY <2>1, <2>2
  <2>4. \A p \in k.todo : FALSE
    BY <2>1
  <2> QED
    BY <2>3, <2>4 DEF Walk
<1>2. CASE j.todo # {o}
  <2>1. /\ k.op = j.op /\ k.todo \subseteq j.todo /\ k.rows = j.rows
        /\ k.listed = j.listed /\ k.held = j.held /\ k.at = j.at
    BY <1>2 DEF After, Handles, IsJob
  <2> HIDE DEF k
  <2>2. /\ k.held \in [Orders -> 0 .. Lots]
        /\ \A p \in Orders : k.held[p] # 0 => p \in Q /\ P[p] <= k.held[p]
    BY <2>1 DEF Walk
  <2>3. /\ k.op # "trail" => \A p \in k.todo : Copy(p, k.rows[p], S, Q, P)
        /\ k.op = "half" => \A p \in k.todo : k.rows[p].pos # None
    BY <2>1 DEF Walk
  <2>4. /\ k.op = "reconcile" /\ k.at # "orders" =>
             \A p \in k.todo : k.rows[p].order /\ p \notin k.listed => p \in Q
        /\ k.op = "reconcile" /\ k.at \notin {"orders", "positions"} =>
             \A p \in k.todo :
               (k.rows[p].order /\ p \notin k.listed) \/ k.rows[p].pos = p
                 => P[p] <= k.held[p]
    BY <2>1 DEF Walk
  <2> QED
    BY <2>2, <2>3, <2>4 DEF Walk
<1> QED
  BY <1>1, <1>2

(* The status of a copy tells nothing of the broker.                       *)
LEMMA StatusLink ==
  ASSUME NEW S, NEW Q, NEW P, NEW o, NEW m, IsRow(m), Copy(o, m, S, Q, P), NEW s
  PROVE  Copy(o, StatusIs(m, s), S, Q, P)
BY DEF Copy, IsRow, StatusIs

(* Going on to write the copy m of the order in hand.                      *)
LEMMA WriteLink ==
  ASSUME NEW K, NEW S, NEW Q, NEW P, NEW j, Handles(j), Walk(j, S, Q, P),
         j.at \notin Listing, NEW m, j.key \in Orders, Copy(j.key, m, S, Q, P)
  PROVE  LET k == [j EXCEPT !.at = "write", !.mine = m]
         IN  Hand(k, K, S, Q, P) /\ Walk(k, S, Q, P)
<1> DEFINE k == [j EXCEPT !.at = "write", !.mine = m]
<1>1. SamePass(k, j) /\ k.at = "write" /\ k.key = j.key /\ k.mine = m
  BY DEF SamePass, Handles, IsJob
<1> HIDE DEF k
<1>2. Hand(k, K, S, Q, P)
  BY <1>1 DEF Hand
<1>3. Walk(k, S, Q, P)
  BY <1>1, WalkOn DEF Listing
<1> QED
  BY <1>2, <1>3 DEF k

(* Going on where the order in hand does not matter, or stays as it is.    *)
LEMMA MoveLink ==
  ASSUME NEW K, NEW S, NEW Q, NEW P, NEW j, Handles(j), Walk(j, S, Q, P),
         Hand(j, K, S, Q, P), j.at \notin Listing,
         NEW a \in {"write", "recheck", "call", "record", "arm", "armed", "drop", "read"},
         a \in {"write", "recheck", "call"} => j.key \in Orders /\ Copy(j.key, j.mine, S, Q, P),
         a = "call" => j.op \notin {"create", "trail"} /\ Volume(j),
         a = "drop" => j.op = "trail",
         a = "read" => j.key \in K
  PROVE  LET k == [j EXCEPT !.at = a]
         IN  Hand(k, K, S, Q, P) /\ Walk(k, S, Q, P)
<1> DEFINE k == [j EXCEPT !.at = a]
<1>1. SamePass(k, j) /\ k.at = a /\ k.key = j.key /\ k.mine = j.mine /\ k.lots = j.lots
  BY DEF SamePass, Handles, IsJob
<1> HIDE DEF k
<1>2. k.op = j.op
  BY <1>1 DEF SamePass
<1>3. Hand(k, K, S, Q, P)
  BY <1>1, <1>2 DEF Hand, Volume
<1>4. Walk(k, S, Q, P)
  BY <1>1, WalkOn DEF Listing
<1> QED
  BY <1>3, <1>4 DEF k

(* The next order of a pass, with a copy ...                               *)
LEMMA NextLink ==
  ASSUME NEW K, NEW S, NEW Q, NEW P, NEW j, Handles(j), Walk(j, S, Q, P),
         j.at \notin Listing, NEW o \in Orders, NEW m, Copy(o, m, S, Q, P)
  PROVE  /\ LET k == [j EXCEPT !.at = "write", !.key = o, !.mine = m]
            IN  Hand(k, K, S, Q, P) /\ Walk(k, S, Q, P)
         /\ j.op \in {"sync", "unfilled"} =>
              LET k == [j EXCEPT !.at = "call", !.key = o, !.mine = m]
              IN  Hand(k, K, S, Q, P) /\ Walk(k, S, Q, P)
<1>1. LET k == [j EXCEPT !.at = "write", !.key = o, !.mine = m]
      IN  Hand(k, K, S, Q, P) /\ Walk(k, S, Q, P)
  <2> DEFINE k == [j EXCEPT !.at = "write", !.key = o, !.mine = m]
  <2>1. SamePass(k, j) /\ k.at = "write" /\ k.key = o /\ k.mine = m
    BY DEF SamePass, Handles, IsJob
  <2> HIDE DEF k
  <2>2. Hand(k, K, S, Q, P)
    BY <2>1 DEF Hand
  <2>3. Walk(k, S, Q, P)
    BY <2>1, WalkOn DEF Listing
  <2> QED
    BY <2>2, <2>3 DEF k
<1>2. ASSUME j.op \in {"sync", "unfilled"}
      PROVE  LET k == [j EXCEPT !.at = "call", !.key = o, !.mine = m]
             IN  Hand(k, K, S, Q, P) /\ Walk(k, S, Q, P)
  <2> DEFINE k == [j EXCEPT !.at = "call", !.key = o, !.mine = m]
  <2>1. SamePass(k, j) /\ k.at = "call" /\ k.key = o /\ k.mine = m
    BY DEF SamePass, Handles, IsJob
  <2> HIDE DEF k
  <2>2. Hand(k, K, S, Q, P)
    BY <1>2, <2>1 DEF Hand, SamePass, Volume
  <2>3. Walk(k, S, Q, P)
    BY <2>1, WalkOn DEF Listing
  <2> QED
    BY <2>2, <2>3 DEF k
<1> QED
  BY <1>1, <1>2

(* ... and with a volume less than the copy's.                             *)
LEMMA NextHalfLink ==
  ASSUME NEW K, NEW S, NEW Q, NEW P, NEW j, Handles(j), Walk(j, S, Q, P),
         j.at \notin Listing, NEW o \in Orders, NEW m, Copy(o, m, S, Q, P),
         j.op = "half", NEW n \in 1 .. m.lots - 1
  PROVE  LET k == [j EXCEPT !.at = "call", !.key = o, !.mine = m, !.lots = n]
         IN  Hand(k, K, S, Q, P) /\ Walk(k, S, Q, P)
<1> DEFINE k == [j EXCEPT !.at = "call", !.key = o, !.mine = m, !.lots = n]
<1>1. SamePass(k, j) /\ k.at = "call" /\ k.key = o /\ k.mine = m /\ k.lots = n
  BY DEF SamePass, Handles, IsJob
<1> HIDE DEF k
<1>2. Hand(k, K, S, Q, P)
  BY <1>1 DEF Hand, SamePass, Volume
<1>3. Walk(k, S, Q, P)
  BY <1>1, WalkOn DEF Listing
<1> QED
  BY <1>2, <1>3 DEF k

(***************************************************************************)
(* The actions.                                                            *)
(***************************************************************************)

LEMMA SaveLinks ==
  ASSUME PlacingInv, PlacingInv', LinkInv, NEW t \in Threads, Save(t)
  PROVE  LinkInv'
<1> DEFINE j == job[t]
<1>1. /\ Handles(j) /\ Linked(j) /\ j.at \notin Listing /\ Real(j.mine)
      /\ Copy(j.key, j.mine, Sent, Opened, position)
  BY DEF PlacingInv, Save, Handles, LinkInv, Linked, Hand, Listing
<1>2. job' = [job EXCEPT ![t] = AfterSave(j)] /\ UNCHANGED brokerVars
      /\ row' = [row EXCEPT ![j.key] = j.mine]
  BY DEF Save, Becomes
<1> HIDE DEF j
<1>3. Linked(AfterSave(j))
  <2>1. CASE j.op = "half"
    BY <1>1, <2>1, MoveLink DEF AfterSave, Linked
  <2>2. CASE j.op = "trail"
    BY <1>1, <2>2, MoveLink DEF AfterSave, Linked
  <2>3. CASE j.op \notin {"half", "trail"}
    BY <1>1, <2>3, ResumeLink DEF AfterSave, Linked
  <2> QED
    BY <2>1, <2>2, <2>3
<1> QED
  BY <1>1, <1>2, <1>3, QuietLink

LEMMA DropRuleLinks ==
  ASSUME PlacingInv, PlacingInv', LinkInv, NEW t \in Threads, DropRule(t)
  PROVE  LinkInv'
<1> DEFINE j == job[t]
<1>1. /\ Handles(j) /\ Linked(j) /\ j.at = "drop" /\ j.at \notin Listing
      /\ row' = row /\ UNCHANGED brokerVars
  BY DEF PlacingInv, DropRule, LinkInv, Listing
<1>2. IF j.op = "close" THEN job' = [job EXCEPT ![t] = [j EXCEPT !.at = "write"]]
      ELSE job' = [job EXCEPT ![t] = Resume(j)]
  BY DEF DropRule, Becomes
<1> HIDE DEF j
<1>3. CASE j.op = "close"
  <2>1. j.key \in Orders /\ Copy(j.key, j.mine, Sent, Opened, position)
    BY <1>1, <1>3 DEF Linked, Hand
  <2>2. Linked([j EXCEPT !.at = "write"])
    BY <1>1, <2>1, MoveLink DEF Linked
  <2> QED
    BY <1>1, <1>2, <1>3, <2>2, QuietLink
<1>4. CASE j.op # "close"
  BY <1>1, <1>2, <1>4, ResumeLink, QuietLink DEF Linked
<1> QED
  BY <1>3, <1>4

(* A new handler of one order, with the row it submits or has read.        *)
LEMMA HandlerLink ==
  ASSUME NEW op, NEW at, NEW o \in Orders, NEW m, NEW n,
         Copy(o, m, Sent, Opened, position), LinkInv,
         op \notin {"half", "trail", "reconcile"}, op = "create" => m.pos = None,
         op = "close" => n \in 1 .. m.lots
  PROVE  /\ Linked([Handler(op, at, o, m) EXCEPT !.lots = n])
         /\ op # "close" => Linked(Handler(op, at, o, m))
<1>1. \A p \in Orders : Idle.held[p] = 0
  BY DEF Idle
<1>2. Idle.held \in [Orders -> 0 .. Lots]
  BY BrokerAssumption DEF Idle
<1>3. ASSUME NEW k, k.op = op, k.at = at, k.key = o, k.mine = m, k.todo = {},
             k.held = Idle.held, op = "close" => k.lots \in 1 .. m.lots
      PROVE  Linked(k)
  <2>1. Hand(k, Kept, Sent, Opened, position)
    BY <1>3 DEF Hand, Volume
  <2>2. k.held \in [Orders -> 0 .. Lots] /\ \A p \in Orders : k.held[p] = 0
    BY <1>1, <1>2, <1>3
  <2>3. Walk(k, Sent, Opened, position)
    BY <1>3, <2>2 DEF Walk
  <2> QED
    BY <2>1, <2>3 DEF Linked
<1>4. Linked([Handler(op, at, o, m) EXCEPT !.lots = n])
  <2> DEFINE k == [Handler(op, at, o, m) EXCEPT !.lots = n]
  <2>1. /\ k.op = op /\ k.at = at /\ k.key = o /\ k.mine = m /\ k.todo = {}
        /\ k.held = Idle.held /\ k.lots = n
    BY DEF Handler, Idle
  <2> HIDE DEF k
  <2>2. Linked(k)
    BY <1>3, <2>1
  <2> QED
    BY <2>2 DEF k
<1>5. ASSUME op # "close"
      PROVE  Linked(Handler(op, at, o, m))
  <2> DEFINE k == Handler(op, at, o, m)
  <2>1. /\ k.op = op /\ k.at = at /\ k.key = o /\ k.mine = m /\ k.todo = {}
        /\ k.held = Idle.held
    BY DEF Handler, Idle
  <2> HIDE DEF k
  <2>2. Linked(k)
    BY <1>3, <1>5, <2>1
  <2> QED
    BY <2>2 DEF k
<1> QED
  BY <1>4, <1>5

LEMMA CreateRowLinks ==
  ASSUME PlacingInv, PlacingInv', LinkInv, NEW o \in Orders, NEW t, NEW kind, NEW source,
         CreateRow(t, o, Submitted(kind, source))
  PROVE  LinkInv'
<1> DEFINE m == Submitted(kind, source)
<1>1. Real(m) /\ m.pos = None /\ m.lots = Lots /\ ~m.order
  BY DEF Real, IsRow, Submitted, NoRow
<1>2. /\ t \in Threads /\ UNCHANGED brokerVars
      /\ row' = [row EXCEPT ![o] = m]
      /\ job' = [job EXCEPT ![t] = Handler("create", "call", o, m)]
  BY DEF CreateRow, Becomes
<1> HIDE DEF m
<1>3. Copy(o, m, Sent, Opened, position)
  BY <1>1, LifecycleAssumption, BrokerAssumption DEF Copy
<1>4. Linked(Handler("create", "call", o, m))
  BY <1>1, <1>3, HandlerLink
<1> QED
  BY <1>1, <1>2, <1>3, <1>4, QuietLink

LEMMA RequestLinks ==
  ASSUME PlacingInv, PlacingInv', LinkInv, NEW o \in Orders, NEW op, NEW at, NEW n,
         op = "close" => n \in 1 .. row[o].lots, Request(op, at, o, n)
  PROVE  LinkInv'
<1>1. /\ Copy(o, row[o], Sent, Opened, position) /\ "rest" \in Threads
      /\ op \notin {"create", "half", "trail", "reconcile"}
  BY LifecycleAssumption DEF LinkInv, Request
<1>2. /\ job' = [job EXCEPT !["rest"] = [Handler(op, at, o, row[o]) EXCEPT !.lots = n]]
      /\ row' = row /\ UNCHANGED brokerVars
  BY DEF Request, Becomes, storeVars
<1>3. Linked([Handler(op, at, o, row[o]) EXCEPT !.lots = n])
  BY <1>1, HandlerLink
<1> QED
  BY <1>1, <1>2, <1>3, QuietLink

LEMMA PlaceOrderLinks ==
  ASSUME PlacingInv, PlacingInv', LinkInv, NEW t \in Threads, PlaceOrder(t)
  PROVE  LinkInv'
<1> DEFINE j == job[t]
           o == job[t].key
           mine == job[t].mine
<1>1. /\ Handles(j) /\ Linked(j) /\ j.at \notin Listing /\ Real(mine) /\ o \in Orders
      /\ placed[o] = 0 /\ mine.pos = None /\ Copy(o, mine, Sent, Opened, position)
  BY DEF PlacingInv, PlaceOrder, Runs, Handles, Creating, LinkInv, Linked, Hand, Listing
<1>2. mine.lots = Lots /\ ~mine.order /\ IsRow(mine) /\ o \notin pending /\ row' = row
      /\ placed \in [Orders -> {0, 1}] /\ position \in [Orders -> 0 .. Lots]
  BY <1>1 DEF Copy, Sent, Real, LinkInv, PlaceOrder, storeVars, PlacingInv
<1>3. /\ Place(o, mine.kind) \/ Nothing
      /\ \E m : /\ job' = [job EXCEPT ![t] = [j EXCEPT !.at = "write", !.mine = m]]
                /\ m = StatusIs(mine, "rejected") \/ (Place(o, mine.kind) /\ m \in Placed(o, mine))
  BY DEF PlaceOrder, Becomes
<1>4. PICK m : /\ job' = [job EXCEPT ![t] = [j EXCEPT !.at = "write", !.mine = m]]
               /\ m = StatusIs(mine, "rejected") \/ (Place(o, mine.kind) /\ m \in Placed(o, mine))
  BY <1>3
<1> HIDE DEF j, o, mine
<1>5. /\ Later(Sent, Opened, position, Sent', Opened', position')
      /\ pending' \subseteq Sent'
      /\ \A p \in Orders : position'[p] # 0 => p \in Opened'
  BY <1>1, <1>3, BrokerGoesOn DEF Nothing, brokerVars
<1>6. Copy(o, m, Sent', Opened', position')
  <2>1. CASE m = StatusIs(mine, "rejected")
    <3>1. Copy(o, m, Sent, Opened, position)
      BY <1>1, <1>2, <2>1, StatusLink
    <3> QED
      BY <1>5, <3>1, CopyLasts
  <2>2. CASE Place(o, mine.kind) /\ m \in Placed(o, mine)
    <3>1. o \in Sent'
      BY <1>1, <1>2, <2>2 DEF Place, Sent
    <3>2. CASE mine.kind = "market"
      <4>1. pending' = pending /\ position'[o] = Lots
        BY <1>1, <1>2, <2>2, <3>2 DEF Place
      <4>2. o \in Opened'
        BY <1>2, <3>1, <4>1 DEF Opened
      <4>3. PICK p \in {o, None} : m = [mine EXCEPT !.status = "filled", !.pos = p]
        BY <2>2, <3>2 DEF Placed
      <4>4. m.lots = Lots /\ m.pos \in {o, None} /\ ~m.order
        BY <1>2, <4>3 DEF IsRow
      <4> QED
        BY <1>1, <4>1, <4>2, <4>4, BrokerAssumption DEF Copy
    <3>3. CASE mine.kind # "market"
      <4>1. m.lots = Lots /\ m.pos = None /\ m.kind # "market"
        BY <1>1, <1>2, <2>2, <3>3 DEF Placed, IsRow
      <4> QED
        BY <1>1, <3>1, <4>1, LifecycleAssumption, BrokerAssumption DEF Copy
    <3> QED
      BY <3>2, <3>3
  <2> QED
    BY <1>4, <2>1, <2>2
<1>7. LET k == [j EXCEPT !.at = "write", !.mine = m]
      IN  Hand(k, Kept', Sent', Opened', position') /\ Walk(k, Sent', Opened', position')
  <2>1. j.todo \subseteq Orders /\ j.key = o
    BY <1>1 DEF Handles, j, o
  <2>2. Walk(j, Sent', Opened', position')
    BY <1>1, <1>5, <2>1, WalkLasts DEF Linked
  <2> QED
    BY <1>1, <1>6, <2>1, <2>2, WriteLink
<1> QED
  BY <1>2, <1>4, <1>5, <1>7, LinkStep

(* Where a missing order or position leads.                                *)
LEMMA EndedLink ==
  ASSUME NEW K, NEW S, NEW Q, NEW P, NEW j, Handles(j), Walk(j, S, Q, P),
         j.at \notin Listing, IsRow(j.mine), j.key \in Orders, Copy(j.key, j.mine, S, Q, P)
  PROVE  Hand(Ended(j), K, S, Q, P) /\ Walk(Ended(j), S, Q, P)
<1>1. CASE j.op = "cancel"
  <2>1. Ended(j) = [j EXCEPT !.at = "write", !.mine = StatusIs(j.mine, "cancelled")]
    BY <1>1 DEF Ended, StatusIs
  <2>2. Copy(j.key, StatusIs(j.mine, "cancelled"), S, Q, P)
    BY StatusLink
  <2>3. LET k == [j EXCEPT !.at = "write", !.mine = StatusIs(j.mine, "cancelled")]
        IN  Hand(k, K, S, Q, P) /\ Walk(k, S, Q, P)
    BY <2>2, WriteLink
  <2> QED
    BY <2>1, <2>3
<1>2. CASE j.op # "cancel"
  <2> DEFINE k == [j EXCEPT !.at = "drop", !.mine = StatusIs(j.mine, "closed")]
  <2>1. Ended(j) = k
    BY <1>2 DEF Ended, StatusIs
  <2>2. Copy(j.key, StatusIs(j.mine, "closed"), S, Q, P)
    BY StatusLink
  <2>3. /\ SamePass(k, j) /\ k.at = "drop" /\ k.key = j.key
        /\ k.mine = StatusIs(j.mine, "closed")
    BY DEF SamePass, Handles, IsJob
  <2> HIDE DEF k
  <2>4. Hand(k, K, S, Q, P)
    BY <2>2, <2>3 DEF Hand
  <2>5. Walk(k, S, Q, P)
    BY <2>3, WalkOn DEF Listing
  <2> QED
    BY <2>1, <2>4, <2>5
<1> QED
  BY <1>1, <1>2

(* ... and a call that failed.                                             *)
LEMMA FailedLink ==
  ASSUME NEW K, NEW S, NEW Q, NEW P, NEW j, Handles(j), Walk(j, S, Q, P),
         Hand(j, K, S, Q, P), j.at = "call"
  PROVE  Hand(Failed(j), K, S, Q, P) /\ Walk(Failed(j), S, Q, P)
<1>1. j.at \notin Listing /\ j.key \in Orders /\ Copy(j.key, j.mine, S, Q, P)
  BY DEF Listing, Hand
<1>2. CASE j.op \in {"cancel", "close"}
  BY <1>1, <1>2, MoveLink DEF Failed
<1>3. CASE j.op \notin {"cancel", "close"}
  BY <1>1, <1>3, ResumeLink DEF Failed
<1> QED
  BY <1>2, <1>3

LEMMA CheckMissingLinks ==
  ASSUME PlacingInv, PlacingInv', LinkInv, NEW t \in Threads, CheckMissing(t)
  PROVE  LinkInv'
<1> DEFINE j == job[t]
<1>1. /\ Handles(j) /\ Linked(j) /\ j.at \in {"check", "recheck"} /\ IsRow(j.mine)
      /\ j.key \in Orders /\ Copy(j.key, j.mine, Sent, Opened, position)
  BY DEF PlacingInv, LinkInv, Linked, CheckMissing, Handles, Hand, Real
<1>2. /\ \/ job' = [job EXCEPT ![t] = Ended(j)]
         \/ j.at = "check" /\ job' = [job EXCEPT ![t] = [j EXCEPT !.at = "call"]]
         \/ job' = [job EXCEPT ![t] = Idle]
      /\ row' = row /\ UNCHANGED brokerVars
  BY DEF CheckMissing, Becomes, storeVars
<1> HIDE DEF j
<1>3. j.at \notin Listing
  BY <1>1 DEF Listing
<1>4. Linked(Ended(j))
  BY <1>1, <1>3, EndedLink DEF Linked
<1>5. ASSUME j.at = "check" PROVE Linked([j EXCEPT !.at = "call"])
  <2>1. j.op \notin {"create", "trail"} /\ Volume(j)
    BY <1>1, <1>5 DEF Handles, Linked, Hand
  <2> QED
    BY <1>1, <1>3, <2>1, MoveLink DEF Linked
<1>6. Linked(Idle)
  BY IdleLink DEF Linked
<1> QED
  BY <1>2, <1>4, <1>5, <1>6, QuietLink

(* What a handler knew it knows still when the broker has gone on.         *)
LEMMA JobLasts ==
  ASSUME PlacingInv, LinkInv, NEW t \in Threads, row' = row,
         Later(Sent, Opened, position, Sent', Opened', position')
  PROVE  /\ Hand(job[t], Kept', Sent', Opened', position')
         /\ Walk(job[t], Sent', Opened', position')
<1>1. /\ job[t].todo \subseteq Orders /\ Hand(job[t], Kept, Sent, Opened, position)
      /\ Walk(job[t], Sent, Opened, position)
  BY DEF PlacingInv, Handles, LinkInv, Linked
<1>2. Kept \subseteq Kept'
  BY DEF Kept
<1> QED
  BY <1>1, <1>2, HandLasts, WalkLasts

LEMMA CancelCallLinks ==
  ASSUME PlacingInv, PlacingInv', LinkInv, NEW t \in Threads, CancelCall(t)
  PROVE  LinkInv'
<1> DEFINE j == job[t]
           m == StatusIs(j.mine, "cancelled")
<1>1. /\ Handles(j) /\ Linked(j) /\ j.at = "call" /\ IsRow(j.mine) /\ j.key \in Orders
      /\ Copy(j.key, j.mine, Sent, Opened, position)
  BY DEF PlacingInv, LinkInv, Linked, CancelCall, Runs, Handles, Hand, Real
<1>2. /\ Remove(j.key) \/ Nothing
      /\ \/ job' = [job EXCEPT ![t] = Failed(j)]
         \/ job' = [job EXCEPT ![t] = [j EXCEPT !.at = "write", !.mine = m]]
      /\ row' = row
  BY DEF CancelCall, Becomes, StatusIs, storeVars
<1>3. /\ Later(Sent, Opened, position, Sent', Opened', position')
      /\ pending' \subseteq Sent'
      /\ \A o \in Orders : position'[o] # 0 => o \in Opened'
  BY <1>1, <1>2, BrokerGoesOn DEF Nothing, brokerVars
<1>4. Hand(j, Kept', Sent', Opened', position') /\ Walk(j, Sent', Opened', position')
  BY <1>2, <1>3, JobLasts
<1>5. Copy(j.key, m, Sent', Opened', position')
  BY <1>1, <1>3, StatusLink, CopyLasts
<1> HIDE DEF j, m
<1>6. CASE job' = [job EXCEPT ![t] = Failed(j)]
  <2>1. /\ Hand(Failed(j), Kept', Sent', Opened', position')
        /\ Walk(Failed(j), Sent', Opened', position')
    BY <1>1, <1>4, FailedLink
  <2> QED
    BY <1>2, <1>3, <1>6, <2>1, LinkStep
<1>7. CASE job' = [job EXCEPT ![t] = [j EXCEPT !.at = "write", !.mine = m]]
  <2>1. LET k == [j EXCEPT !.at = "write", !.mine = m]
        IN  Hand(k, Kept', Sent', Opened', position') /\ Walk(k, Sent', Opened', position')
    BY <1>1, <1>4, <1>5, WriteLink DEF Listing
  <2> QED
    BY <1>2, <1>3, <1>7, <2>1, LinkStep
<1> QED
  BY <1>2, <1>6, <1>7

(* A close that is accepted for less than the row's volume leaves at most  *)
(* the rest open.                                                          *)
LEMMA PartClosed ==
  ASSUME NEW S, NEW Q, NEW P, NEW S2, NEW Q2, NEW P2, Later(S, Q, P, S2, Q2, P2),
         NEW o \in Orders, NEW m, IsRow(m), Copy(o, m, S, Q, P), m.pos # None,
         NEW n \in Nat, n < m.lots, n <= P[m.pos], P2[m.pos] = P[m.pos] - n
  PROVE  Copy(o, [m EXCEPT !.lots = Max2(0, @ - n)], S2, Q2, P2)
<1> DEFINE r == [m EXCEPT !.lots = Max2(0, @ - n)]
<1>1. m.lots \in Nat /\ m.lots - n \in Nat \ {0}
  BY DEF Copy
<1>2. /\ r.lots = m.lots - n /\ r.pos = m.pos /\ r.order = m.order /\ r.kind = m.kind
  BY <1>1 DEF IsRow, Max2
<1> HIDE DEF r
<1>3. CASE m.pos # o
  BY <1>1, <1>2, <1>3 DEF Copy, Later, r
<1>4. CASE m.pos = o
  <2>1. o \in Q2 /\ P[o] <= m.lots /\ P[o] \in Nat /\ P2[o] = P[o] - n /\ n <= P[o]
    BY <1>4, BrokerAssumption DEF Copy, Later
  <2>2. P2[o] <= m.lots - n
    BY <1>1, <2>1
  <2> QED
    BY <1>1, <1>2, <1>4, <2>1, <2>2 DEF Copy, Later, r
<1> QED
  BY <1>3, <1>4

LEMMA CloseCallLinks ==
  ASSUME PlacingInv, PlacingInv', LinkInv, NEW t \in Threads, CloseCall(t)
  PROVE  LinkInv'
<1> DEFINE j == job[t]
           p == job[t].mine.pos
<1>1. /\ Handles(j) /\ Linked(j) /\ j.at = "call" /\ IsRow(j.mine) /\ j.key \in Orders
      /\ j.op \in {"close", "half", "trail"}
      /\ Copy(j.key, j.mine, Sent, Opened, position) /\ Volume(j)
  BY DEF PlacingInv, LinkInv, Linked, CloseCall, Runs, Handles, Hand, Real
<1>2. p # None => p \in Orders /\ position[p] \in Nat /\ j.lots \in Nat
  BY <1>1, BrokerAssumption DEF Copy, Volume, LinkInv
<1>3. /\ \/ p # None /\ j.lots <= position[p] /\ Reduce(p, j.lots)
         \/ Nothing /\ job' = [job EXCEPT ![t] = Failed(j)]
      /\ \/ job' = [job EXCEPT ![t] = Failed(j)]
         \/ job' = [job EXCEPT ![t] = Closed(j)]
      /\ row' = row
  BY <1>2 DEF CloseCall, Becomes, storeVars
<1>4. /\ Later(Sent, Opened, position, Sent', Opened', position')
      /\ pending' \subseteq Sent'
      /\ \A o \in Orders : position'[o] # 0 => o \in Opened'
  <2>1. CASE Nothing
    BY <1>1, <2>1, BrokerGoesOn DEF Nothing, brokerVars
  <2>2. CASE p # None /\ j.lots <= position[p] /\ Reduce(p, j.lots)
    BY <1>2, <2>2, BrokerGoesOn
  <2> QED
    BY <1>3, <2>1, <2>2
<1>5. Hand(j, Kept', Sent', Opened', position') /\ Walk(j, Sent', Opened', position')
  BY <1>3, <1>4, JobLasts
<1>6. Copy(j.key, j.mine, Sent', Opened', position')
  BY <1>1, <1>4, CopyLasts
<1>7. p # None /\ Reduce(p, j.lots) => position'[p] = position[p] - j.lots
  BY <1>2 DEF Reduce, LinkInv
<1>8. p = j.mine.pos
  OBVIOUS
<1> HIDE DEF j, p
<1>9. CASE job' = [job EXCEPT ![t] = Failed(j)]
  <2>1. /\ Hand(Failed(j), Kept', Sent', Opened', position')
        /\ Walk(Failed(j), Sent', Opened', position')
    BY <1>1, <1>5, FailedLink
  <2> QED
    BY <1>3, <1>4, <1>9, <2>1, LinkStep
<1>10. CASE /\ job' = [job EXCEPT ![t] = Closed(j)]
            /\ p # None /\ j.lots <= position[p] /\ Reduce(p, j.lots)
  <2>1. CASE j.op = "trail"
    <3>1. j.key \in Kept'
      BY <1>1, <1>5, <2>1 DEF Hand
    <3>2. LET k == [j EXCEPT !.at = "read"]
          IN  Hand(k, Kept', Sent', Opened', position') /\ Walk(k, Sent', Opened', position')
      BY <1>1, <1>5, <3>1, MoveLink DEF Listing
    <3>3. Closed(j) = [j EXCEPT !.at = "read"]
      BY <2>1 DEF Closed
    <3> QED
      BY <1>3, <1>4, <1>10, <3>2, <3>3, LinkStep
  <2>2. CASE j.op = "close" /\ j.lots = j.mine.lots
    <3>1. /\ Hand(Ended(j), Kept', Sent', Opened', position')
          /\ Walk(Ended(j), Sent', Opened', position')
      BY <1>1, <1>5, <1>6, EndedLink DEF Listing
    <3>2. Closed(j) = Ended(j)
      BY <2>2 DEF Closed
    <3> QED
      BY <1>3, <1>4, <1>10, <3>1, <3>2, LinkStep
  <2>3. CASE j.op # "trail" /\ ~(j.op = "close" /\ j.lots = j.mine.lots)
    <3> DEFINE m == [j.mine EXCEPT !.lots = Max2(0, @ - j.lots)]
    <3>1. j.lots \in Nat /\ j.lots < j.mine.lots
      BY <1>1, <2>3 DEF Volume, Copy
    <3>2. Copy(j.key, m, Sent', Opened', position')
      BY <1>1, <1>4, <1>7, <1>8, <1>10, <3>1, PartClosed
    <3>3. Closed(j) = [j EXCEPT !.at = "write", !.mine = m]
      BY <2>3 DEF Closed
    <3> HIDE DEF m
    <3>4. LET k == [j EXCEPT !.at = "write", !.mine = m]
          IN  Hand(k, Kept', Sent', Opened', position') /\ Walk(k, Sent', Opened', position')
      BY <1>1, <1>5, <3>2, WriteLink DEF Listing
    <3> QED
      BY <1>3, <1>4, <1>10, <3>3, <3>4, LinkStep
  <2> QED
    BY <2>1, <2>2, <2>3
<1> QED
  BY <1>3, <1>9, <1>10

LEMMA ModifyCallLinks ==
  ASSUME PlacingInv, PlacingInv', LinkInv, NEW t \in Threads, ModifyCall(t)
  PROVE  LinkInv'
<1> DEFINE j == job[t]
<1>1. /\ Handles(j) /\ Linked(j) /\ j.at \notin Listing /\ IsRow(j.mine) /\ j.key \in Orders
      /\ Copy(j.key, j.mine, Sent, Opened, position)
  BY DEF PlacingInv, LinkInv, Linked, ModifyCall, Runs, Handles, Hand, Real, Listing
<1>2. /\ \/ \E m \in {j.mine, StatusIs(j.mine, "sync_error")} :
              job' = [job EXCEPT ![t] = [j EXCEPT !.at = "write", !.mine = m]]
         \/ job' = [job EXCEPT ![t] = Idle]
      /\ row' = row /\ UNCHANGED brokerVars
  BY DEF ModifyCall, Becomes, storeVars
<1> HIDE DEF j
<1>3. ASSUME NEW m \in {j.mine, StatusIs(j.mine, "sync_error")}
      PROVE  Linked([j EXCEPT !.at = "write", !.mine = m])
  <2>1. Copy(j.key, m, Sent, Opened, position)
    BY <1>1, StatusLink
  <2> QED
    BY <1>1, <2>1, WriteLink DEF Linked
<1>4. Linked(Idle)
  BY IdleLink DEF Linked
<1> QED
  BY <1>2, <1>3, <1>4, QuietLink

(* Steps that only move a handler on.                                      *)
LEMMA PlainLinks ==
  ASSUME PlacingInv, PlacingInv', LinkInv, NEW t \in Threads,
         StoreRule(t) \/ ListingFails(t) \/ RecordHalf(t) \/ Arm(t) \/ RecordArmed(t)
  PROVE  LinkInv'
<1> DEFINE j == job[t]
<1>1. Handles(j) /\ Linked(j)
  BY DEF PlacingInv, LinkInv
<1>2. row' = row /\ UNCHANGED brokerVars
  BY DEF StoreRule, ListingFails, RecordHalf, Arm, RecordArmed, storeVars
<1>3. \/ job' = [job EXCEPT ![t] = Idle]
      \/ /\ j.at \in {"record", "arm", "armed"}
         /\ \/ job' = [job EXCEPT ![t] = Resume(j)]
            \/ job' = [job EXCEPT ![t] = [j EXCEPT !.at = "arm"]]
            \/ job' = [job EXCEPT ![t] = [j EXCEPT !.at = "armed"]]
  BY DEF StoreRule, ListingFails, RecordHalf, Arm, RecordArmed, Becomes, Runs
<1> HIDE DEF j
<1>4. Linked(Idle)
  BY IdleLink DEF Linked
<1>5. ASSUME j.at \in {"record", "arm", "armed"}
      PROVE  /\ Linked(Resume(j)) /\ Linked([j EXCEPT !.at = "arm"])
             /\ Linked([j EXCEPT !.at = "armed"])
  <2>1. j.at \notin Listing
    BY <1>5 DEF Listing
  <2>2. Linked(Resume(j))
    BY <1>1, <2>1, ResumeLink DEF Linked
  <2>3. Linked([j EXCEPT !.at = "arm"])
    BY <1>1, <2>1, MoveLink DEF Linked
  <2>4. Linked([j EXCEPT !.at = "armed"])
    BY <1>1, <2>1, MoveLink DEF Linked
  <2> QED
    BY <2>2, <2>3, <2>4
<1> QED
  BY <1>2, <1>3, <1>4, <1>5, QuietLink

(* The listings bound what is open.                                        *)
LEMMA ListOrdersLinks ==
  ASSUME PlacingInv, PlacingInv', LinkInv, NEW t \in Threads, ListOrders(t)
  PROVE  LinkInv'
<1> DEFINE j == job[t]
           k == [j EXCEPT !.at = "positions", !.listed = pending]
<1>1. Handles(j) /\ Linked(j) /\ j.at = "orders"
  BY DEF PlacingInv, LinkInv, ListOrders
<1>2. job' = [job EXCEPT ![t] = k] /\ row' = row /\ UNCHANGED brokerVars
  BY DEF ListOrders, Becomes, storeVars
<1>3. /\ k.op = j.op /\ k.at = "positions" /\ k.todo = j.todo /\ k.rows = j.rows
      /\ k.listed = pending /\ k.held = j.held
  BY <1>1 DEF Handles, IsJob
<1> HIDE DEF j, k
<1>4. Hand(k, Kept, Sent, Opened, position)
  BY <1>3 DEF Hand
<1>5. ASSUME k.op = "reconcile", NEW o \in k.todo, k.rows[o].order, o \notin k.listed
      PROVE  o \in Opened
  <2>1. Copy(o, j.rows[o], Sent, Opened, position)
    BY <1>1, <1>3, <1>5 DEF Linked, Walk
  <2> QED
    BY <1>3, <1>5, <2>1 DEF Copy, Opened
<1>6. Walk(k, Sent, Opened, position)
  BY <1>1, <1>3, <1>5 DEF Linked, Walk
<1> QED
  BY <1>2, <1>4, <1>6, QuietLink DEF Linked

LEMMA ListPositionsLinks ==
  ASSUME PlacingInv, PlacingInv', LinkInv, NEW t \in Threads, ListPositions(t)
  PROVE  LinkInv'
<1> DEFINE j == job[t]
           k == [j EXCEPT !.at = "each", !.held = position]
<1>1. Handles(j) /\ Linked(j) /\ j.at = "positions"
  BY DEF PlacingInv, LinkInv, ListPositions
<1>2. job' = [job EXCEPT ![t] = k] /\ row' = row /\ UNCHANGED brokerVars
  BY DEF ListPositions, Becomes, storeVars
<1>3. /\ k.op = j.op /\ k.at = "each" /\ k.todo = j.todo /\ k.rows = j.rows
      /\ k.listed = j.listed /\ k.held = position
  BY <1>1 DEF Handles, IsJob
<1>4. /\ j.todo \subseteq Orders /\ position \in [Orders -> 0 .. Lots]
      /\ \A o \in Orders : position[o] # 0 => o \in Opened
  BY <1>1 DEF Handles, LinkInv
<1> HIDE DEF j, k
<1>5. \A o \in Orders : position[o] <= position[o]
  BY <1>4, BrokerAssumption
<1>6. Hand(k, Kept, Sent, Opened, position)
  BY <1>3 DEF Hand
<1>7. Walk(k, Sent, Opened, position)
  BY <1>1, <1>3, <1>4, <1>5 DEF Linked, Walk
<1> QED
  BY <1>2, <1>6, <1>7, QuietLink DEF Linked

LEMMA LookForExitLinks ==
  ASSUME PlacingInv, PlacingInv', LinkInv, NEW t \in Threads, LookForExit(t)
  PROVE  LinkInv'
<1> DEFINE j == job[t]
           m == row[j.key]
           p == j.rules[j.key].ticket
           k == [j EXCEPT !.at = "call", !.mine = m, !.lots = position[p]]
<1>1. /\ Handles(j) /\ Linked(j) /\ j.at \notin Listing /\ j.op = "trail" /\ j.key \in Orders
  BY DEF PlacingInv, LinkInv, LookForExit, Runs, Handles, Listing
<1>2. /\ \/ m.status \in {"filled", "sync_error"} /\ m.pos = p /\ job' = [job EXCEPT ![t] = k]
         \/ job' = [job EXCEPT ![t] = [j EXCEPT !.at = "drop"]]
      /\ row' = row /\ UNCHANGED brokerVars
  BY DEF LookForExit, Becomes, storeVars
<1>3. ASSUME m.status \in {"filled", "sync_error"}, m.pos = p
      PROVE  Linked(k)
  <2>1. m # NoRow
    BY <1>3 DEF NoRow
  <2>2. j.key \in Kept /\ Copy(j.key, m, Sent, Opened, position)
    BY <1>1, <2>1 DEF Kept, LinkInv
  <2>3. m.pos # None => position[p] \in Nat
    BY <1>3, <2>2, BrokerAssumption DEF Copy, LinkInv
  <2>4. /\ SamePass(k, j) /\ k.at = "call" /\ k.key = j.key /\ k.mine = m
        /\ k.lots = position[p] /\ k.op = "trail"
    BY <1>1 DEF SamePass, Handles, IsJob
  <2> HIDE DEF j, k, m, p
  <2>5. Hand(k, Kept, Sent, Opened, position)
    BY <1>1, <2>2, <2>3, <2>4 DEF Hand, Volume
  <2>6. Walk(k, Sent, Opened, position)
    BY <1>1, <2>4, WalkOn DEF Linked, Listing
  <2> QED
    BY <2>5, <2>6 DEF Linked
<1> HIDE DEF j, k
<1>4. Linked([j EXCEPT !.at = "drop"])
  BY <1>1, MoveLink DEF Linked
<1> QED
  BY <1>2, <1>3, <1>4, QuietLink

LEMMA ReadSavedLinks ==
  ASSUME PlacingInv, PlacingInv', LinkInv, NEW t \in Threads, ReadSaved(t)
  PROVE  LinkInv'
<1> DEFINE j == job[t]
           m == StatusIs(row[job[t].key], "closed")
<1>1. /\ Handles(j) /\ Linked(j) /\ j.at \notin Listing /\ j.op = "trail" /\ j.at = "read"
  BY DEF PlacingInv, LinkInv, ReadSaved, Runs, Listing
<1>2. /\ job' = [job EXCEPT ![t] = [j EXCEPT !.at = "write", !.mine = m]]
      /\ row' = row /\ UNCHANGED brokerVars
  BY DEF ReadSaved, Becomes, storeVars
<1>3. j.key \in Orders /\ row[j.key] # NoRow
  BY <1>1 DEF Linked, Hand, Kept
<1>4. Copy(j.key, row[j.key], Sent, Opened, position) /\ IsRow(row[j.key])
  BY <1>3 DEF LinkInv, PlacingInv, Real
<1>5. Copy(j.key, m, Sent, Opened, position)
  BY <1>4, StatusLink
<1> HIDE DEF j, m
<1>6. Linked([j EXCEPT !.at = "write", !.mine = m])
  BY <1>1, <1>3, <1>5, WriteLink DEF Linked
<1> QED
  BY <1>2, <1>6, QuietLink

(* A repair changes the status of a copy, and the ticket of one that has   *)
(* none to the matched position.                                           *)
Repair(o, r, p, late, listed, held) ==
  FindClose(FindFill(o, FindTicket(o, r, p, late), p, listed), held)

LEMMA RepairKeeps ==
  ASSUME NEW o, NEW r, IsRow(r), NEW p, NEW late, NEW listed, NEW held
  PROVE  LET m == Repair(o, r, p, late, listed, held)
         IN  /\ m.lots = r.lots /\ m.kind = r.kind /\ m.order = r.order
             /\ m.pos = r.pos \/ (r.pos = None /\ p # None /\ m.pos = p)
<1> DEFINE Keeps(m) == /\ IsRow(m)
                       /\ m.lots = r.lots /\ m.kind = r.kind /\ m.order = r.order
                       /\ m.pos = r.pos \/ (r.pos = None /\ p # None /\ m.pos = p)
<1>1. Keeps(FindTicket(o, r, p, late))
  BY DEF FindTicket, IsRow, StatusIs
<1>2. \A m : Keeps(m) => Keeps(FindFill(o, m, p, listed))
  BY DEF FindFill, IsRow, StatusIs
<1>3. \A m : Keeps(m) => Keeps(FindClose(m, held))
  BY DEF FindClose, IsRow, StatusIs
<1> HIDE DEF Keeps
<1>4. Keeps(Repair(o, r, p, late, listed, held))
  BY <1>1, <1>2, <1>3 DEF Repair
<1> QED
  BY <1>4 DEF Keeps

(* What is matched is open, with the volume of the copy.                   *)
LEMMA Matched ==
  ASSUME NEW o \in Orders, NEW r, NEW held \in [Orders -> 0 .. Lots],
         NEW p \in Match(o, r, held)
  PROVE  /\ p # None => p \in Orders /\ held[p] # 0 /\ held[p] = r.lots
         /\ p = None => held[o] = 0 \/ held[o] # r.lots
<1>1. \A q \in Orders : held[q] \in Nat
  BY BrokerAssumption
<1>2. None \notin Orders
  BY LifecycleAssumption
<1> QED
  BY <1>1, <1>2 DEF Match

LEMMA RepairLink ==
  ASSUME NEW S, NEW Q, NEW P, NEW j, Walk(j, S, Q, P), j.op = "reconcile",
         NEW o \in j.todo, o \in Orders, IsRow(j.rows[o]),
         NEW p \in Match(o, j.rows[o], j.held), NEW late
  PROVE  Copy(o, Repair(o, j.rows[o], p, late, j.listed, j.held), S, Q, P)
<1> DEFINE r == j.rows[o]
           m == Repair(o, j.rows[o], p, late, j.listed, j.held)
<1>1. /\ Copy(o, r, S, Q, P) /\ j.held \in [Orders -> 0 .. Lots]
      /\ \A q \in Orders : j.held[q] # 0 => q \in Q /\ P[q] <= j.held[q]
  BY DEF Walk
<1>2. /\ m.lots = r.lots /\ m.kind = r.kind /\ m.order = r.order
      /\ m.pos = r.pos \/ (r.pos = None /\ p # None /\ m.pos = p)
  BY RepairKeeps
<1>3. p # None => p \in Orders /\ j.held[p] # 0 /\ j.held[p] = r.lots
  BY <1>1, Matched
<1> HIDE DEF r, m
<1>4. Copy(o, m, S, Q, P)
  BY <1>1, <1>2, <1>3 DEF Copy
<1> QED
  BY <1>4 DEF m

LEMMA ReconcileOrderLinks ==
  ASSUME PlacingInv, PlacingInv', LinkInv, NEW t \in Threads, NEW o \in Orders, NEW late,
         ReconcileOrder(t, o, late)
  PROVE  LinkInv'
<1> DEFINE j == job[t]
           rest == After(job[t], o)
           M(p) == Repair(o, j.rows[o], p, late, j.listed, j.held)
<1>1. /\ Handles(j) /\ Linked(j) /\ j.at \notin Listing /\ j.op = "reconcile" /\ o \in j.todo
      /\ IsRow(j.rows[o])
  BY DEF PlacingInv, LinkInv, ReconcileOrder, Runs, Handles, Listing, Real
<1>2. /\ Handles(rest) /\ rest.op = "reconcile" /\ rest.at \notin Listing
      /\ Walk(rest, Sent, Opened, position)
  BY <1>1, AfterHandles, AfterLink DEF Linked
<1>3. /\ \/ job' = [job EXCEPT ![t] = Resume(rest)]
         \/ \E p \in Match(o, j.rows[o], j.held) :
              job' = [job EXCEPT ![t] = [rest EXCEPT !.at = "write", !.key = o, !.mine = M(p)]]
      /\ row' = row /\ UNCHANGED brokerVars
  BY DEF ReconcileOrder, Becomes, Repair, storeVars
<1>4. \A p \in Match(o, j.rows[o], j.held) : Copy(o, M(p), Sent, Opened, position)
  BY <1>1, RepairLink DEF Linked
<1> HIDE DEF j, rest, M
<1>5. Linked(Resume(rest))
  BY <1>2, ResumeLink DEF Linked
<1>6. ASSUME NEW p \in Match(o, j.rows[o], j.held)
      PROVE  Linked([rest EXCEPT !.at = "write", !.key = o, !.mine = M(p)])
  BY <1>2, <1>4, NextLink DEF Linked
<1> QED
  BY <1>3, <1>5, <1>6, QuietLink

LEMMA CallNextLinks ==
  ASSUME PlacingInv, PlacingInv', LinkInv, NEW t \in Threads, NEW o \in Orders, CallNext(t, o)
  PROVE  LinkInv'
<1> DEFINE j == job[t]
           rest == After(job[t], o)
           m == job[t].rows[o]
<1>1. /\ Handles(j) /\ Linked(j) /\ j.at \notin Listing /\ j.op \in {"sync", "unfilled"}
      /\ o \in j.todo
  BY DEF PlacingInv, LinkInv, CallNext, Runs, Listing
<1>2. /\ Handles(rest) /\ rest.op \in {"sync", "unfilled"} /\ rest.at \notin Listing
      /\ Walk(rest, Sent, Opened, position)
  BY <1>1, AfterHandles, AfterLink DEF Linked
<1>3. /\ job' = [job EXCEPT ![t] = [rest EXCEPT !.at = "call", !.key = o, !.mine = m]]
      /\ row' = row /\ UNCHANGED brokerVars
  BY DEF CallNext, Becomes, storeVars
<1>4. Copy(o, m, Sent, Opened, position)
  BY <1>1 DEF Linked, Walk
<1> HIDE DEF j, rest, m
<1>5. Linked([rest EXCEPT !.at = "call", !.key = o, !.mine = m])
  BY <1>2, <1>4, NextLink DEF Linked
<1> QED
  BY <1>3, <1>5, QuietLink

(* Half of a volume of at least two is less than it.                       *)
LEMMA HalfIsLess ==
  ASSUME NEW a \in Nat, NEW b \in Nat, HalfVolume(Min2(a, b)) # 0
  PROVE  HalfVolume(Min2(a, b)) \in 1 .. a - 1
<1>1. Min2(a, b) \in Nat /\ Min2(a, b) <= a
  BY DEF Min2
<1>2. ASSUME NEW n \in Nat, n <= a, n \div 2 # 0
      PROVE  n \div 2 \in 1 .. a - 1
  BY <1>2
<1> QED
  BY <1>1, <1>2 DEF HalfVolume

LEMMA HalveOrderLinks ==
  ASSUME PlacingInv, PlacingInv', LinkInv, NEW t \in Threads, NEW o \in Orders, HalveOrder(t, o)
  PROVE  LinkInv'
<1> DEFINE j == job[t]
           rest == After(job[t], o)
           m == job[t].rows[o]
           n == HalfVolume(Min2(m.lots, j.held[m.pos]))
<1>1. /\ Handles(j) /\ Linked(j) /\ j.at \notin Listing /\ j.op = "half" /\ o \in j.todo
  BY DEF PlacingInv, LinkInv, HalveOrder, Runs, Listing
<1>2. /\ Handles(rest) /\ rest.op = "half" /\ rest.at \notin Listing
      /\ Walk(rest, Sent, Opened, position)
  BY <1>1, AfterHandles, AfterLink DEF Linked
<1>3. /\ \/ job' = [job EXCEPT ![t] = Resume(rest)]
         \/ n # 0 /\ job' = [job EXCEPT ![t] = [rest EXCEPT !.at = "call", !.key = o,
                                                            !.mine = m, !.lots = n]]
      /\ row' = row /\ UNCHANGED brokerVars
  BY DEF HalveOrder, Becomes, storeVars
<1>4. /\ Copy(o, m, Sent, Opened, position) /\ m.pos \in Orders
      /\ j.held \in [Orders -> 0 .. Lots]
  BY <1>1 DEF Linked, Walk, Copy
<1>5. n # 0 => n \in 1 .. m.lots - 1
  <2>1. m.lots \in Nat /\ j.held[m.pos] \in Nat
    BY <1>4, BrokerAssumption DEF Copy
  <2> HIDE DEF j, m
  <2> QED
    BY <2>1, HalfIsLess
<1> HIDE DEF j, rest, m, n
<1>6. Linked(Resume(rest))
  BY <1>2, ResumeLink DEF Linked
<1>7. ASSUME n # 0
      PROVE  Linked([rest EXCEPT !.at = "call", !.key = o, !.mine = m, !.lots = n])
  <2>1. LET k == [rest EXCEPT !.at = "call", !.key = o, !.mine = m, !.lots = n]
        IN  Hand(k, Kept, Sent, Opened, position) /\ Walk(k, Sent, Opened, position)
    BY <1>2, <1>4, <1>5, <1>7, NextHalfLink
  <2> QED
    BY <2>1 DEF Linked
<1> QED
  BY <1>3, <1>6, <1>7, QuietLink

LEMMA CheckpointLinks ==
  ASSUME PlacingInv, PlacingInv', LinkInv, NEW t \in Threads, NEW o \in Orders, Checkpoint(t, o)
  PROVE  LinkInv'
<1> DEFINE j == job[t]
           rest == After(job[t], o)
           k == [rest EXCEPT !.at = "look", !.key = o]
<1>1. Handles(j) /\ Linked(j) /\ j.at \notin Listing /\ j.op = "trail"
  BY DEF PlacingInv, LinkInv, Checkpoint, Runs, Listing
<1>2. /\ Handles(rest) /\ rest.op = "trail" /\ rest.at \notin Listing
      /\ Walk(rest, Sent, Opened, position)
  BY <1>1, AfterHandles, AfterLink DEF Linked
<1>3. /\ \/ job' = [job EXCEPT ![t] = Resume(rest)]
         \/ job' = [job EXCEPT ![t] = k]
      /\ row' = row /\ UNCHANGED brokerVars
  BY DEF Checkpoint, Becomes
<1> HIDE DEF rest
<1>4. SamePass(k, rest) /\ k.at = "look"
  BY <1>2 DEF SamePass, Handles, IsJob
<1> HIDE DEF k
<1>5. Linked(k)
  <2>1. Hand(k, Kept, Sent, Opened, position)
    BY <1>4 DEF Hand
  <2>2. Walk(k, Sent, Opened, position)
    BY <1>2, <1>4, WalkOn DEF Listing
  <2> QED
    BY <2>1, <2>2 DEF Linked
<1>6. Linked(Resume(rest))
  BY <1>2, ResumeLink DEF Linked
<1> QED
  BY <1>3, <1>5, <1>6, QuietLink

(* A pass begins with the copies that are in the database.                 *)
LEMMA PassLink ==
  ASSUME LinkInv, NEW op, NEW at \in {"orders", "positions", "each"}, op # "create",
         op = "reconcile" => at = "orders",
         NEW S \in SUBSET {o \in Orders : row[o] # NoRow},
         op = "half" => \A o \in S : row[o].pos # None
  PROVE  Linked(Pass(op, at, S))
<1> DEFINE k == Pass(op, at, S)
<1>1. /\ k.op = op /\ k.at = at /\ k.todo = S /\ k.rows = row /\ k.held = Idle.held
  BY DEF Pass, Idle
<1>2. Idle.held \in [Orders -> 0 .. Lots] /\ \A o \in Orders : Idle.held[o] = 0
  BY BrokerAssumption DEF Idle
<1>3. \A o \in S : Copy(o, row[o], Sent, Opened, position)
  BY DEF LinkInv
<1> HIDE DEF k
<1>4. Hand(k, Kept, Sent, Opened, position)
  BY <1>1 DEF Hand
<1>5. Walk(k, Sent, Opened, position)
  BY <1>1, <1>2, <1>3 DEF Walk
<1> QED
  BY <1>4, <1>5 DEF Linked, k

(* A handler that has no copy in hand, and no orders to come to.           *)
LEMMA EmptyLink ==
  ASSUME NEW k, k.op = "trail" \/ k.todo = {}, k.held = Idle.held, k.at \in {"each", "arm"}
  PROVE  Linked(k)
<1>1. Idle.held \in [Orders -> 0 .. Lots] /\ \A o \in Orders : Idle.held[o] = 0
  BY BrokerAssumption DEF Idle
<1>2. Hand(k, Kept, Sent, Opened, position)
  BY DEF Hand
<1>3. k.held \in [Orders -> 0 .. Lots] /\ \A o \in Orders : k.held[o] = 0
  BY <1>1
<1>4. Walk(k, Sent, Opened, position)
  BY <1>3 DEF Walk
<1> QED
  BY <1>2, <1>4 DEF Linked

LEMMA StartLinks ==
  ASSUME PlacingInv, PlacingInv', LinkInv,
         \/ \E t \in Reconcilers : StartReconciliation(t)
         \/ StartSync \/ EngineStarts
  PROVE  LinkInv'
<1>1. ASSUME NEW t \in Threads, NEW k, Start(t, k), Linked(k)
      PROVE  LinkInv'
  BY <1>1, QuietLink DEF Start, Becomes, storeVars
<1>2. \A o \in Orders : row[o].status # "absent" => row[o] # NoRow
  BY DEF NoRow
<1>3. ASSUME NEW t \in Reconcilers, StartReconciliation(t)
      PROVE  LinkInv'
  <2> DEFINE S == {o \in Orders : row[o].status \in Live}
  <2>1. S \in SUBSET {o \in Orders : row[o] # NoRow}
    BY <1>2 DEF Live
  <2>2. t \in Threads /\ Start(t, Pass("reconcile", "orders", S))
    BY <1>3 DEF StartReconciliation, Threads
  <2> HIDE DEF S
  <2>3. Linked(Pass("reconcile", "orders", S))
    BY <2>1, PassLink
  <2> QED
    BY <1>1, <2>2, <2>3
<1>4. CASE StartSync
  <2>1. PICK S \in SUBSET {o \in Orders :
         \/ row[o].status \in {"filled", "sync_error"} /\ row[o].pos # None
         \/ row[o].status = "working" /\ row[o].order} :
       Start("sync", Pass("sync", "each", S))
    BY <1>4 DEF StartSync
  <2>2. S \in SUBSET {o \in Orders : row[o] # NoRow} /\ "sync" \in Threads
    BY <1>2, <1>4, <2>1 DEF StartSync
  <2>3. Linked(Pass("sync", "each", S))
    BY <2>2, PassLink
  <2> QED
    BY <1>1, <2>1, <2>2, <2>3
<1>5. CASE StartUnfilled
  <2>1. PICK S \in SUBSET {o \in Orders : /\ row[o].source = "auto" /\ row[o].kind = "limit"
                                         /\ row[o].status = "working"} :
         Start("engine", Pass("unfilled", "each", S))
    BY <1>5 DEF StartUnfilled
  <2>2. S \in SUBSET {o \in Orders : row[o] # NoRow} /\ "engine" \in Threads
    BY <1>2, <1>5, <2>1 DEF StartUnfilled
  <2>3. Linked(Pass("unfilled", "each", S))
    BY <2>2, PassLink
  <2> QED
    BY <1>1, <2>1, <2>2, <2>3
<1>6. ASSUME NEW source, "engine" \in Threads, StartHalves(source)
      PROVE  LinkInv'
  <2>1. PICK S \in SUBSET {o \in Orders : /\ row[o].source = source
                                         /\ row[o].status = "filled" /\ row[o].pos # None
                                         /\ o \notin taken} :
         Start("engine", Pass("half", "positions", S))
    BY <1>6 DEF StartHalves
  <2>2. S \in SUBSET {o \in Orders : row[o] # NoRow} /\ \A o \in S : row[o].pos # None
    BY <1>2, <2>1
  <2>3. Linked(Pass("half", "positions", S))
    BY <2>2, PassLink
  <2> QED
    BY <1>1, <1>6, <2>1, <2>3
<1>7. ASSUME NEW o \in Orders, ArmAgain(o)
      PROVE  LinkInv'
  <2> DEFINE k == Handler("half", "arm", o, row[o])
  <2>1. /\ "engine" \in Threads /\ job' = [job EXCEPT !["engine"] = k]
        /\ row' = row /\ UNCHANGED brokerVars
    BY <1>7 DEF ArmAgain, Becomes, storeVars
  <2>2. k.todo = {} /\ k.held = Idle.held /\ k.at = "arm"
    BY DEF Handler, Idle
  <2> HIDE DEF k
  <2> QED
    BY <2>1, <2>2, EmptyLink, QuietLink
<1>8. ASSUME NEW b \in 1 .. MaxBars, OnClosedBar(b)
      PROVE  LinkInv'
  <2> DEFINE S == {o \in Orders : rule[o] # NoRule /\ rule[o].last < b}
             k == [Pass("trail", "each", S) EXCEPT !.rules = rule, !.bar = b]
  <2>1. "engine" \in Threads /\ Start("engine", k)
    BY <1>8 DEF OnClosedBar
  <2>2. k.op = "trail" /\ k.held = Idle.held /\ k.at = "each"
    BY DEF Pass, Idle
  <2> HIDE DEF k
  <2> QED
    BY <1>1, <2>1, <2>2, EmptyLink
<1> QED
  BY <1>3, <1>4, <1>5, <1>6, <1>7, <1>8 DEF EngineStarts, TakeProfitAt1R, TakeProfitHalfAt1R

(* No handler takes part: the broker on its own, a rule dropped, a restart. *)
LEMMA StillLink ==
  ASSUME PlacingInv, LinkInv, row' = row,
         \A t \in Threads : job'[t] = job[t] \/ job'[t] = Idle,
         Later(Sent, Opened, position, Sent', Opened', position'),
         pending' \subseteq Sent',
         \A o \in Orders : position'[o] # 0 => o \in Opened'
  PROVE  LinkInv'
<1>1. \A o \in Orders : row'[o] = NoRow \/ Copy(o, row'[o], Sent', Opened', position')
  BY CopyLasts DEF LinkInv
<1>2. ASSUME NEW t \in Threads
      PROVE  /\ Hand(job'[t], Kept', Sent', Opened', position')
             /\ Walk(job'[t], Sent', Opened', position')
  BY JobLasts, IdleLink
<1>3. position' \in [Orders -> 0 .. Lots]
  BY DEF Later
<1> QED
  BY <1>1, <1>2, <1>3 DEF LinkInv, Linked

LEMMA OthersLink ==
  ASSUME PlacingInv, LinkInv, NEW o \in Orders, BrokerActs(o) \/ DisableTrailing(o)
  PROVE  LinkInv'
<1>1. /\ row' = row /\ job' = job
      /\ \/ UNCHANGED brokerVars
         \/ Remove(o) \/ Fill(o)
         \/ \E n \in Nat : n <= position[o] /\ Reduce(o, n)
  <2>1. CASE BrokerActs(o)
    <3>1. position[o] \in Nat /\ position[o] <= position[o]
      BY BrokerAssumption DEF LinkInv
    <3> QED
      BY <2>1, <3>1 DEF BrokerActs, EndAtBroker, storeVars
  <2>2. CASE DisableTrailing(o)
    BY <2>2 DEF DisableTrailing
  <2> QED
    BY <2>1, <2>2
<1>2. /\ Later(Sent, Opened, position, Sent', Opened', position')
      /\ pending' \subseteq Sent'
      /\ \A p \in Orders : position'[p] # 0 => p \in Opened'
  BY <1>1, BrokerGoesOn
<1> QED
  BY <1>1, <1>2, StillLink

LEMMA CrashLink ==
  ASSUME PlacingInv, LinkInv, Crash
  PROVE  LinkInv'
<1>1. /\ row' = row /\ UNCHANGED brokerVars /\ \A t \in Threads : job'[t] = Idle
  BY DEF Crash, storeVars
<1>2. /\ Sent' = Sent /\ Opened' = Opened /\ position' = position /\ pending' = pending
  BY <1>1 DEF brokerVars, Sent, Opened
<1>3. /\ pending \subseteq Sent /\ position \in [Orders -> 0 .. Lots]
      /\ \A o \in Orders : position[o] # 0 => o \in Opened
  BY DEF LinkInv
<1>4. ASSUME NEW o \in Orders
      PROVE  position[o] \in Nat
  <2>1. position[o] \in 0 .. Lots
    BY <1>3
  <2> QED
    BY <2>1, BrokerAssumption
<1>5. Later(Sent, Opened, position, Sent', Opened', position')
  BY <1>2, <1>3, <1>4 DEF Later, Opened, Sent
<1> QED
  BY <1>1, <1>2, <1>3, <1>5, StillLink

LEMMA RestLinks ==
  ASSUME PlacingInv, PlacingInv', LinkInv, NEW o \in Orders, RestRequest(o) \/ SubmitForSignal(o)
  PROVE  LinkInv'
<1>1. CASE CreateOrder(o) \/ SubmitForSignal(o)
  BY <1>1, CreateRowLinks DEF CreateOrder, SubmitForSignal
<1>2. CASE CancelOrder(o)
  BY <1>2, RequestLinks DEF CancelOrder
<1>3. CASE CloseOrder(o)
  BY <1>3, RequestLinks DEF CloseOrder
<1>4. CASE PatchOrder(o)
  BY <1>4, RequestLinks DEF PatchOrder
<1>5. CASE EnableTrailing(o)
  BY <1>5, RequestLinks DEF EnableTrailing
<1>6. CASE DisableTrailing(o)
  BY <1>6, OthersLink
<1> QED
  BY <1>1, <1>2, <1>3, <1>4, <1>5, <1>6 DEF RestRequest

LEMMA ContinueLinks ==
  ASSUME PlacingInv, PlacingInv', LinkInv, NEW t \in Threads, Continue(t)
  PROVE  LinkInv'
<1>1. CASE Save(t) \/ DropRule(t) \/ PlaceOrder(t) \/ CheckMissing(t)
  BY <1>1, SaveLinks, DropRuleLinks, PlaceOrderLinks, CheckMissingLinks
<1>2. CASE CancelCall(t) \/ CloseCall(t) \/ ModifyCall(t)
  BY <1>2, CancelCallLinks, CloseCallLinks, ModifyCallLinks
<1>3. CASE ListOrders(t) \/ ListPositions(t) \/ LookForExit(t) \/ ReadSaved(t)
  BY <1>3, ListOrdersLinks, ListPositionsLinks, LookForExitLinks, ReadSavedLinks
<1>4. CASE StoreRule(t) \/ ListingFails(t) \/ RecordHalf(t) \/ Arm(t) \/ RecordArmed(t)
  BY <1>4, PlainLinks
<1>5. ASSUME NEW o \in Orders, EachOrder(t, o)
      PROVE  LinkInv'
  BY <1>5, ReconcileOrderLinks, CallNextLinks, HalveOrderLinks, CheckpointLinks DEF EachOrder
<1> QED
  BY <1>1, <1>2, <1>3, <1>4, <1>5 DEF Continue

LEMMA LinkInvariant == Spec => []LinkInv
<1>1. Init => LinkInv
  <2> SUFFICES ASSUME Init PROVE LinkInv
    OBVIOUS
  <2>1. /\ position \in [Orders -> 0 .. Lots] /\ pending = {}
        /\ \A o \in Orders : position[o] = 0 /\ row[o] = NoRow
        /\ \A t \in Threads : job[t] = Idle
    BY BrokerAssumption DEF Init, BrokerInit, NoRows
  <2>2. Linked(Idle)
    BY IdleLink DEF Linked
  <2> QED
    BY <2>1, <2>2 DEF LinkInv
<1>2. PlacingInv /\ PlacingInv' /\ LinkInv /\ [Next]_vars => LinkInv'
  <2> SUFFICES ASSUME PlacingInv, PlacingInv', LinkInv, [Next]_vars
               PROVE  LinkInv'
    OBVIOUS
  <2>1. CASE UNCHANGED vars
    BY <2>1 DEF vars, brokerVars, storeVars, LinkInv, Linked, Kept, Sent, Opened
  <2>2. ASSUME NEW o \in Orders, RestRequest(o) \/ SubmitForSignal(o) \/ BrokerActs(o)
        PROVE  LinkInv'
    BY <2>2, RestLinks, OthersLink
  <2>3. CASE (\E t \in Reconcilers : StartReconciliation(t)) \/ StartSync \/ EngineStarts
    BY <2>3, StartLinks
  <2>4. ASSUME NEW t \in Threads, Continue(t) PROVE LinkInv'
    BY <2>4, ContinueLinks
  <2>5. CASE Crash
    BY <2>5, CrashLink
  <2> QED
    BY <2>1, <2>2, <2>3, <2>4, <2>5 DEF Next
<1> QED
  BY <1>1, <1>2, PlacingInvariant, PTL DEF Spec

(***************************************************************************)
(* What a reconciliation ends.                                             *)
(***************************************************************************)

(* Why a repair ends a row.                                                *)
LEMMA RepairEnds ==
  ASSUME NEW o, NEW r, IsRow(r), NEW p, NEW late, NEW listed, NEW held,
         NEW m, m = Repair(o, r, p, late, listed, held), m # r, m.status \in Final
  PROVE  \/ r.pos = None /\ r.kind = "market" /\ p = None
         \/ r.pos = None /\ p # None /\ held[p] = 0
         \/ r.pos = None /\ p = None /\ r.order /\ o \notin listed
         \/ r.pos # None /\ held[r.pos] = 0
<1> DEFINE f == FindTicket(o, r, p, late)
           g == FindFill(o, f, p, listed)
<1>1. m = FindClose(g, held)
  BY DEF Repair
<1>2. /\ IsRow(f) /\ f.order = r.order /\ f.kind = r.kind
      /\ \/ f = r
         \/ r.pos = None /\ p # None /\ f.pos = p /\ f.status = "filled"
         \/ r.pos = None /\ p = None /\ r.kind = "market" /\ f.status = "closed" /\ f.pos = None
  BY DEF FindTicket, StatusIs, IsRow
<1>3. \/ g = f
      \/ f.pos = None /\ p # None /\ g.pos = p /\ g.status = "filled"
      \/ /\ f.pos = None /\ p = None /\ f.order /\ o \notin listed
         /\ f.status \in {"working", "sync_error"} /\ g.status = "cancelled"
  BY <1>2 DEF FindFill, StatusIs, IsRow
<1> HIDE DEF f, g
<1>4. \/ m = g
      \/ /\ g.status \in {"filled", "sync_error"} /\ g.pos # None /\ held[g.pos] = 0
  BY <1>1 DEF FindClose
<1> QED
  BY <1>2, <1>3, <1>4 DEF Final

(* Only the repair of an order ends its row in a pass.                     *)
LEMMA EndsByRepair ==
  ASSUME PlacingInv, Next, NEW t \in Reconcilers, NEW o \in Orders, Ends(t, o)
  PROVE  \E q \in Orders, late \in BOOLEAN : ReconcileOrder(t, q, late)
<1>1. /\ t \in Threads /\ t \notin {"rest", "engine", "sync"}
      /\ job[t].op = "reconcile" /\ job[t].at = "each" /\ job'[t].at = "write"
  BY LifecycleAssumption DEF Ends, Runs, Threads
<1>2. job'[t] # job[t] /\ job[t] # Idle /\ job'[t] # Idle
  BY <1>1 DEF Idle
<1>3. \A u, k : job' = [job EXCEPT ![u] = k] => u = t
  BY <1>2 DEF PlacingInv
<1>4. ASSUME NEW u, NEW k, Start(u, k)
      PROVE  FALSE
  BY <1>2, <1>3, <1>4 DEF Start, Becomes
<1>5. ASSUME NEW u, job[u] = Idle, NEW k, Becomes(u, k)
      PROVE  FALSE
  BY <1>2, <1>3, <1>5 DEF Becomes
<1>6. ASSUME NEW q \in Orders, RestRequest(q) \/ SubmitForSignal(q) \/ BrokerActs(q)
      PROVE  FALSE
  BY <1>2, <1>5, <1>6 DEF RestRequest, CreateOrder, CancelOrder, CloseOrder, PatchOrder,
     EnableTrailing, DisableTrailing, SubmitForSignal, CreateRow, Request, BrokerActs
<1>7. ASSUME (\E u \in Reconcilers : StartReconciliation(u)) \/ StartSync \/ EngineStarts
      PROVE  FALSE
  BY <1>4, <1>5, <1>7 DEF StartReconciliation, StartSync, EngineStarts, StartUnfilled,
     TakeProfitAt1R, TakeProfitHalfAt1R, StartHalves, ArmAgain, OnClosedBar
<1>8. ~Crash
  BY <1>1, <1>2 DEF Crash
<1>9. ASSUME NEW u \in Threads, Continue(u)
      PROVE  \E q \in Orders, late \in BOOLEAN : ReconcileOrder(t, q, late)
  <2>1. u = t
    BY <1>3, <1>9, OpKept
  <2>2. ~(Save(t) \/ DropRule(t) \/ PlaceOrder(t) \/ CheckMissing(t)
          \/ CancelCall(t) \/ CloseCall(t) \/ ModifyCall(t) \/ StoreRule(t))
    BY <1>1 DEF Save, DropRule, PlaceOrder, CheckMissing, CancelCall, CloseCall, ModifyCall,
                StoreRule, Runs
  <2>3. ~(ListOrders(t) \/ ListPositions(t) \/ ListingFails(t)
          \/ RecordHalf(t) \/ Arm(t) \/ RecordArmed(t) \/ LookForExit(t) \/ ReadSaved(t))
    BY <1>1 DEF ListOrders, ListPositions, ListingFails, RecordHalf, Arm, RecordArmed,
                LookForExit, ReadSaved, Runs
  <2>4. \A q \in Orders : ~(CallNext(t, q) \/ HalveOrder(t, q) \/ Checkpoint(t, q))
    BY <1>1 DEF CallNext, HalveOrder, Checkpoint, Runs
  <2> QED
    BY <1>9, <2>1, <2>2, <2>3, <2>4 DEF Continue, EachOrder
<1> QED
  BY <1>6, <1>7, <1>8, <1>9 DEF Next

LEMMA RepairMissesNothing ==
  ASSUME PlacingInv, LinkInv, NEW t \in Threads, NEW o \in Orders, NEW q \in Orders, NEW late,
         Ends(t, o), ReconcileOrder(t, q, late), Ticketed(job[t].rows[o]),
         job[t].rows[o].pos \in {o, None}
  PROVE  o \notin pending /\ position[o] # job[t].rows[o].lots
<1> DEFINE j == job[t]
           r == j.rows[o]
           rest == After(j, q)
<1>1. /\ Handles(j) /\ Walk(j, Sent, Opened, position) /\ j.op = "reconcile" /\ j.at = "each"
      /\ q \in j.todo /\ IsJob(rest) /\ rest.at = "each" /\ Idle.at # "write"
      /\ job'[t].at = "write" /\ job'[t].key = o /\ job'[t].mine.status \in Final
  BY AfterHandles DEF PlacingInv, LinkInv, Linked, ReconcileOrder, Runs, Ends, Handles, Idle
<1>2. PICK p \in Match(q, j.rows[q], j.held) :
        LET m == Repair(q, j.rows[q], p, late, j.listed, j.held)
        IN  job'[t] = IF m = j.rows[q] THEN Resume(rest)
                      ELSE [rest EXCEPT !.at = "write", !.key = q, !.mine = m]
  BY DEF ReconcileOrder, Becomes, Repair, PlacingInv
<1> DEFINE m == Repair(q, j.rows[q], p, late, j.listed, j.held)
<1>3. Resume(rest).at # "write"
  BY <1>1 DEF Resume, IsJob
<1>4. q = o /\ m # r /\ m.status \in Final
  BY <1>1, <1>2, <1>3 DEF IsJob
<1>5. /\ Copy(o, r, Sent, Opened, position) /\ IsRow(r) /\ o \in j.todo
      /\ j.held \in [Orders -> 0 .. Lots] /\ p \in Match(o, r, j.held)
  BY <1>1, <1>4 DEF Walk, Handles, Real
<1>6. /\ r.lots \in Nat \ {0} /\ position[o] \in Nat /\ j.held[o] \in 0 .. Lots
      /\ Lots \in Nat
  BY <1>5, BrokerAssumption DEF Copy, LinkInv
<1>7. /\ p # None => j.held[p] # 0
      /\ p = None => j.held[o] = 0 \/ j.held[o] # r.lots
  BY <1>5, Matched
<1>8. \/ r.pos = None /\ r.kind = "market" /\ p = None
      \/ r.pos = None /\ p = None /\ r.order /\ o \notin j.listed
      \/ r.pos # None /\ j.held[r.pos] = 0
  BY <1>4, <1>5, <1>7, RepairEnds
<1>9. /\ r.order /\ o \notin j.listed => o \in Opened /\ position[o] <= j.held[o]
      /\ r.pos = o => o \in Opened /\ position[o] <= j.held[o]
  BY <1>1, <1>5 DEF Walk, Copy
<1>10. o \in Opened => o \notin pending
  BY DEF Opened
<1>11. r.pos \in {o, None} /\ (r.order \/ r.pos # None)
  BY DEF Ticketed
<1> HIDE DEF j, r, m
<1>12. CASE r.pos = None /\ r.kind = "market"
  BY <1>5, <1>11, <1>12 DEF Copy
<1>13. CASE r.pos = None /\ p = None /\ r.order /\ o \notin j.listed
  <2>1. r.lots = Lots /\ j.held[o] # r.lots
    BY <1>5, <1>6, <1>7, <1>13 DEF Copy
  <2>2. o \in Opened /\ position[o] <= j.held[o]
    BY <1>9, <1>13
  <2>3. position[o] # r.lots
    BY <1>6, <2>1, <2>2
  <2> QED
    BY <1>10, <2>2, <2>3 DEF r, j
<1>14. CASE r.pos # None /\ j.held[r.pos] = 0
  <2>1. o \in Opened /\ position[o] <= 0
    BY <1>9, <1>11, <1>14
  <2>2. position[o] # r.lots
    BY <1>6, <2>1
  <2> QED
    BY <1>10, <2>1, <2>2 DEF r, j
<1> QED
  BY <1>8, <1>12, <1>13, <1>14

(* A reconciliation never ends the row of an order that is pending, or     *)
(* whose position is untouched, whatever is filled, closed, written or     *)
(* restarted between its listings.                                         *)
THEOREM FillNeverMissed == Spec => FillNotMissed
<1>1. PlacingInv /\ LinkInv /\ [Next]_vars =>
        [\A t \in Reconcilers, o \in Orders :
           Ends(t, o) /\ Ticketed(job[t].rows[o]) /\ job[t].rows[o].pos \in {o, None}
             => o \notin pending /\ position[o] # job[t].rows[o].lots]_vars
  <2> SUFFICES ASSUME PlacingInv, LinkInv, Next, NEW t \in Reconcilers, NEW o \in Orders,
                      Ends(t, o), Ticketed(job[t].rows[o]), job[t].rows[o].pos \in {o, None}
               PROVE  o \notin pending /\ position[o] # job[t].rows[o].lots
    OBVIOUS
  <2>1. PICK q \in Orders, late \in BOOLEAN : ReconcileOrder(t, q, late)
    BY EndsByRepair
  <2>2. t \in Threads
    BY DEF Threads
  <2> QED
    BY <2>1, <2>2, RepairMissesNothing
<1> QED
  BY <1>1, PlacingInvariant, LinkInvariant, PTL DEF Spec, FillNotMissed
===============================================================================
