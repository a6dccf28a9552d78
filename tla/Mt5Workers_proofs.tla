--------------------------- MODULE Mt5Workers_proofs ---------------------------
(***************************************************************************)
(* The two safety properties of Mt5Workers and its refinement of           *)
(* RemoteCalls, for every set of accounts and terminals and any number of  *)
(* workers, processes, calls and faults.                                   *)
(***************************************************************************)
EXTENDS Mt5Workers, TLAPS, SequenceTheorems

(***************************************************************************)
(* The table.  A new entry evicts what it replaces and is refused by what  *)
(* it conflicts with; every other step only removes entries.               *)
(***************************************************************************)

TableInv ==
  /\ table \in [Bindings -> Nat \cup {None}]
  /\ TerminalsExclusive

(* What is neither stale nor in conflict has another terminal: the same    *)
(* login makes it stale, another one a conflict.                           *)
LEMMA KeptElsewhere ==
  ASSUME NEW b \in Bindings, NEW switch \in BOOLEAN, table[b] = None,
         NEW k \in Tabled \ Stale(b, switch),
         ~Conflicts(b, Tabled \ Stale(b, switch)),
         b.path # None \/ k.path # None
  PROVE  k.path # b.path
<1>1. k # b
  BY DEF Tabled
<1>2. k.path = b.path => k.login # b.login
  BY <1>1 DEF Stale
<1>3. k.path = b.path => ~(k.login # b.login /\ b.path # None)
  BY DEF Conflicts
<1> QED
  BY <1>2, <1>3

LEMMA OpenKeepsTable ==
  ASSUME TableInv, NEW s \in Sessions, NEW b \in Bindings, NEW switch \in BOOLEAN,
         OpenWorker(s, b, switch)
  PROVE  TableInv'
<1> DEFINE kept == [k \in Bindings |-> IF k \in Stale(b, switch) THEN None ELSE table[k]]
           w == Len(worker) + 1
<1>1. kept \in [Bindings -> Nat \cup {None}]
  BY DEF TableInv
<1>2. {k \in Bindings : kept[k] # None} = Tabled \ Stale(b, switch)
  BY DEF Tabled
<1>3. table[b] = None
  BY DEF OpenWorker
<1>4. CASE Conflicts(b, Tabled \ Stale(b, switch))
  <2>1. table' = kept
    BY <1>4 DEF OpenWorker
  <2> QED
    BY <1>1, <1>2, <2>1 DEF TableInv, TerminalsExclusive, Tabled
<1>5. CASE ~Conflicts(b, Tabled \ Stale(b, switch))
  <2>1. table' = [kept EXCEPT ![b] = w] /\ w \in Nat
    BY <1>5 DEF OpenWorker
  <2>2. table' \in [Bindings -> Nat \cup {None}]
    BY <1>1, <2>1
  <2>3. Tabled' = (Tabled \ Stale(b, switch)) \cup {b}
    BY <1>1, <1>2, <2>1, WorkersAssumption DEF Tabled
  <2>4. \A k \in Tabled \ Stale(b, switch) :
          b.path # None \/ k.path # None => k.path # b.path
    BY <1>3, <1>5, KeptElsewhere
  <2>5. TerminalsExclusive'
    BY <2>3, <2>4 DEF TableInv, TerminalsExclusive
  <2> QED
    BY <2>2, <2>5 DEF TableInv
<1> QED
  BY <1>4, <1>5

LEMMA StepKeepsTable ==
  ASSUME TableInv, [Next]_vars
  PROVE  TableInv'
<1>1. CASE UNCHANGED table
  BY <1>1 DEF TableInv, TerminalsExclusive, Tabled
<1>2. ASSUME NEW s \in Sessions, NEW b \in Bindings, NEW switch \in BOOLEAN,
             OpenWorker(s, b, switch)
      PROVE  TableInv'
  BY <1>2, OpenKeepsTable
<1>3. ASSUME NEW s \in Sessions, Drop(s)
      PROVE  TableInv'
  BY <1>3 DEF Drop, TableInv, TerminalsExclusive, Tabled
<1>4. UNCHANGED table \/ (\E s \in Sessions : Drop(s) \/
        \E b \in Bindings, switch \in BOOLEAN : OpenWorker(s, b, switch))
  <2>1. ASSUME NEW s \in Sessions, Open(s) \/ PlaceOrder(s)
        PROVE  UNCHANGED table \/ \E b \in Bindings, switch \in BOOLEAN : OpenWorker(s, b, switch)
    <3>1. CASE PlaceOrder(s)
      BY <3>1 DEF PlaceOrder, Send
    <3>2. ASSUME NEW b \in Bindings, Reuse(s, b)
          PROVE  UNCHANGED table
      BY <3>2 DEF Reuse
    <3> QED
      BY <2>1, <3>1, <3>2 DEF Open
  <2>2. ASSUME NEW s \in Sessions, Continue(s)
        PROVE  UNCHANGED table \/ Drop(s)
    BY <2>2 DEF Continue, Connect, Send, Receive, TimeOut, EndOfFile, CloseWorker, Leave
  <2>3. ASSUME NEW p \in DOMAIN process, Serve(p) \/ Die(p) \/ PrintLine(p)
        PROVE  UNCHANGED table
    BY <2>3 DEF Serve, ServeConnect, ServeOrder, Die, PrintLine
  <2> QED
    BY <2>1, <2>2, <2>3 DEF Next, vars
<1> QED
  BY <1>1, <1>2, <1>3, <1>4

(* No two workers of the table share a terminal folder.                    *)
THEOREM OneWorkerPerTerminal == Spec => []TerminalsExclusive
<1>1. Init => TableInv
  BY DEF Init, TableInv, TerminalsExclusive, Tabled
<1>2. TableInv /\ [Next]_vars => TableInv'
  BY StepKeepsTable
<1>3. TableInv => TerminalsExclusive
  BY DEF TableInv
<1> QED
  BY <1>1, <1>2, <1>3, PTL DEF Spec

(***************************************************************************)
(* The orders.  A worker serves one binding for as long as it exists, also *)
(* for sessions that still hold it when the table has forgotten it, and so *)
(* does a process.  This is not part of the state: the invariant says that *)
(* there is such an assignment, kind of the workers and home of the        *)
(* processes.                                                              *)
(***************************************************************************)

Logins == {k.login : k \in Bindings}
Holding == {"connect", "wait", "open", "drop"}

Paths == Terminals \cup {None}
Request == [id : Nat, what : {"connect", "order"}, binding : Bindings]
WorkerState == [process : Nat \cup {None}, owner : Sessions \cup {None}, next : Nat]
ProcessState ==
  [alive : BOOLEAN, path : Paths, told : BOOLEAN,
   inbox : Seq(Request), out : Seq([id : Nat, ok : BOOLEAN])]
SessionState ==
  [at : {"closed", "close"} \cup Holding, binding : Bindings \cup {None},
   worker : Nat \cup {None}, id : Nat, what : {"none", "connect", "order"},
   executed : BOOLEAN, result : {"none", "ok", "failed"}]

Typed ==
  /\ table \in [Bindings -> Nat \cup {None}]
  /\ worker \in Seq(WorkerState)
  /\ process \in Seq(ProcessState)
  /\ login \in [Terminals -> Logins \cup {None}]
  /\ session \in [Sessions -> SessionState]
  /\ faults \in Nat

(* The table and the sessions that hold a worker agree on its binding. *)
TableKept(kind) ==
  \A b \in Bindings : table[b] # None =>
    table[b] \in 1 .. Len(worker) /\ kind[table[b]] = b

SessionsKept(kind) ==
  \A s \in Sessions :
    /\ session[s].at \in Holding =>
         /\ session[s].worker \in 1 .. Len(worker)
         /\ session[s].binding = kind[session[s].worker]
    /\ session[s].at = "close" => session[s].worker \in 1 .. Len(worker)

(* A session that waits has its worker's lock, and so keeps its process. *)
WaitersOwn ==
  \A s \in Sessions : session[s].at = "wait" =>
    /\ worker[session[s].worker].owner = s
    /\ worker[session[s].worker].process # None

ProcessesOwned(kind, home) ==
  \A w \in 1 .. Len(worker) : worker[w].process # None =>
    /\ worker[w].process \in 1 .. Len(process)
    /\ home[worker[w].process] = kind[w]

WorkersKept(kind, home) ==
  TableKept(kind) /\ SessionsKept(kind) /\ WaitersOwn /\ ProcessesOwned(kind, home)

(* A process that was told its terminal is at it, and a terminal that has  *)
(* been logged in is at the login of an account that uses it.              *)
ProcessesKept(home) ==
  \A p \in 1 .. Len(process) :
    /\ \A i \in 1 .. Len(process[p].inbox) : process[p].inbox[i].binding = home[p]
    /\ home[p].path = None => process[p].path \in {None, Default}
    /\ process[p].told =>
         /\ process[p].path = Terminal(home[p].path)
         /\ \E k \in Bindings : /\ Terminal(k.path) = Terminal(home[p].path)
                                /\ login[Terminal(k.path)] = k.login

Kept(kind, home) == WorkersKept(kind, home) /\ ProcessesKept(home)

IInv ==
  /\ Typed
  /\ ConnectedOrdersReachTheirAccount
  /\ \E kind, home \in [Nat -> Bindings] : Kept(kind, home)

LEMMA TerminalsTyped ==
  /\ \A b \in Bindings : Terminal(b.path) \in Terminals /\ b.login \in Logins
  /\ \A t \in Terminals : t # None /\ Terminal(t) = t
  /\ Default \in Terminals /\ None \notin Nat /\ None \notin Sessions
  /\ None \notin Logins
BY WorkersAssumption DEF Terminal, Terminals, Logins

LEMMA InitKept == Init => IInv
<1> SUFFICES ASSUME Init PROVE IInv
  OBVIOUS
<1>1. Typed
  BY TerminalsTyped DEF Init, Typed, Closed, SessionState
<1>2. ConnectedOrdersReachTheirAccount
  BY DEF Init, ConnectedOrdersReachTheirAccount
<1>3. PICK b \in Bindings : TRUE
  BY WorkersAssumption
<1>4. [n \in Nat |-> b] \in [Nat -> Bindings]
  OBVIOUS
<1>5. Kept([n \in Nat |-> b], [n \in Nat |-> b])
  BY DEF Init, Kept, WorkersKept, TableKept, SessionsKept, WaitersOwn, ProcessesOwned,
         ProcessesKept, Closed, Holding
<1> QED
  BY <1>1, <1>2, <1>4, <1>5 DEF IInv

LEMMA FunctionIsSeq ==
  ASSUME NEW S, NEW n \in Nat, NEW f \in [1 .. n -> S]
  PROVE  f \in Seq(S) /\ Len(f) = n
<1>1. f \in Seq(S)
  BY SeqDef
<1>2. Len(f) \in Nat /\ DOMAIN f = 1 .. Len(f)
  BY <1>1, LenProperties
<1> QED
  BY <1>1, <1>2

(* What closing workers does to their processes and to themselves. *)
LEMMA ShutKeeps ==
  ASSUME Typed, NEW W
  PROVE  /\ Shut(process, W) \in Seq(ProcessState)
         /\ Len(Shut(process, W)) = Len(process)
         /\ \A p \in 1 .. Len(process) :
              /\ Shut(process, W)[p].path = process[p].path
              /\ Shut(process, W)[p].told = process[p].told
              /\ Shut(process, W)[p].inbox \in {<<>>, process[p].inbox}
<1>1. /\ DOMAIN process = 1 .. Len(process) /\ Len(process) \in Nat
      /\ \A p \in 1 .. Len(process) : process[p] \in ProcessState
  BY ElementOfSeq, LenProperties DEF Typed
<1>2. \A q \in ProcessState :
        LET r == [q EXCEPT !.alive = FALSE, !.inbox = <<>>, !.out = <<>>] IN
        r \in ProcessState /\ r.path = q.path /\ r.told = q.told /\ r.inbox = <<>>
  BY EmptySeq DEF ProcessState
<1>3. Shut(process, W) \in [1 .. Len(process) -> ProcessState]
  BY <1>1, <1>2 DEF Shut
<1>4. Shut(process, W) \in Seq(ProcessState) /\ Len(Shut(process, W)) = Len(process)
  BY <1>1, <1>3, FunctionIsSeq
<1> QED
  BY <1>1, <1>2, <1>4 DEF Shut

LEMMA ForgetKeeps ==
  ASSUME Typed, NEW W
  PROVE  /\ ForgetProcess(W) \in Seq(WorkerState)
         /\ Len(ForgetProcess(W)) = Len(worker)
         /\ \A w \in 1 .. Len(worker) :
              /\ ForgetProcess(W)[w].owner = worker[w].owner
              /\ ForgetProcess(W)[w].process =
                   IF w \in W THEN None ELSE worker[w].process
<1>1. /\ DOMAIN worker = 1 .. Len(worker) /\ Len(worker) \in Nat
      /\ \A w \in 1 .. Len(worker) : worker[w] \in WorkerState
  BY ElementOfSeq, LenProperties DEF Typed
<1>2. \A v \in WorkerState :
        LET r == [v EXCEPT !.process = None] IN
        r \in WorkerState /\ r.owner = v.owner /\ r.process = None
  BY DEF WorkerState
<1>3. ForgetProcess(W) \in [1 .. Len(worker) -> WorkerState]
  BY <1>1, <1>2 DEF ForgetProcess
<1>4. ForgetProcess(W) \in Seq(WorkerState) /\ Len(ForgetProcess(W)) = Len(worker)
  BY <1>1, <1>3, FunctionIsSeq
<1> QED
  BY <1>1, <1>2, <1>4 DEF ForgetProcess

(* Emptying inboxes and nothing else keeps what is known of processes. *)
LEMMA EmptiedKept ==
  ASSUME Typed, NEW home, ProcessesKept(home), login' = login,
         Len(process') = Len(process),
         \A p \in 1 .. Len(process) :
           /\ process'[p].path = process[p].path
           /\ process'[p].told = process[p].told
           /\ process'[p].inbox \in {<<>>, process[p].inbox}
  PROVE  ProcessesKept(home)'
BY DEF ProcessesKept

-----------------------------------------------------------------------------

(* Opening a worker: a new one has no sessions, requests or process yet.   *)
LEMMA OpenKept ==
  ASSUME Typed, NEW kind \in [Nat -> Bindings], NEW home \in [Nat -> Bindings],
         Kept(kind, home), NEW s \in Sessions, NEW b \in Bindings,
         NEW switch \in BOOLEAN, OpenWorker(s, b, switch)
  PROVE  Typed' /\ \E kept \in [Nat -> Bindings] : Kept(kept, home)'
<1> DEFINE gone == {table[k] : k \in Stale(b, switch)}
           left == [k \in Bindings |-> IF k \in Stale(b, switch) THEN None ELSE table[k]]
           w == Len(worker) + 1
<1>1. left \in [Bindings -> Nat \cup {None}] /\ \A k \in Bindings : left[k] \in {None, table[k]}
  BY DEF Typed
<1>2. process' = Shut(process, gone) /\ login' = login /\ faults' = faults
  BY DEF OpenWorker
<1>3. process' \in Seq(ProcessState) /\ ProcessesKept(home)' /\ Len(process') = Len(process)
  BY <1>2, ShutKeeps, EmptiedKept DEF Kept
<1>4. \A v \in gone : worker[v].owner = None
  BY DEF OpenWorker, Free
<1>5. Len(worker) \in Nat /\ None \notin Nat /\ None \notin Sessions
  BY TerminalsTyped DEF Typed
<1> DEFINE rest == ForgetProcess(gone)
<1>6. /\ rest \in Seq(WorkerState) /\ Len(rest) = Len(worker)
      /\ \A v \in 1 .. Len(worker) :
           /\ rest[v].owner = worker[v].owner
           /\ rest[v].process = IF v \in gone THEN None ELSE worker[v].process
  BY ForgetKeeps
<1> HIDE DEF gone, left, rest
<1>7. TableKept(kind) /\ SessionsKept(kind) /\ WaitersOwn /\ ProcessesOwned(kind, home)
  BY DEF Kept, WorkersKept
<1>8. \A t \in Sessions : session[t].at = "wait" =>
         session[t].worker \in 1 .. Len(worker) /\ session[t].worker \notin gone
  BY <1>4, <1>5, <1>7 DEF SessionsKept, WaitersOwn, Holding
<1>9. CASE Conflicts(b, Tabled \ Stale(b, switch))
  <2>1. table' = left /\ worker' = rest /\ session' = session
    BY <1>9 DEF OpenWorker, gone, left, rest
  <2>2. Typed'
    BY <1>1, <1>2, <1>3, <2>1, <1>6 DEF Typed
  <2>3. TableKept(kind)' /\ SessionsKept(kind)'
    BY <1>1, <1>7, <2>1, <1>6 DEF TableKept, SessionsKept
  <2>4. WaitersOwn'
    BY <1>7, <1>8, <2>1, <1>6 DEF WaitersOwn
  <2>5. ProcessesOwned(kind, home)'
    BY <1>3, <1>7, <2>1, <1>6 DEF ProcessesOwned
  <2> QED
    BY <1>3, <2>2, <2>3, <2>4, <2>5 DEF Kept, WorkersKept
<1>10. CASE ~Conflicts(b, Tabled \ Stale(b, switch))
  <2>1. /\ table' = [left EXCEPT ![b] = w]
        /\ worker' = Append(rest, NewWorker)
        /\ Use(s, b, w)
    BY <1>10 DEF OpenWorker, gone, left, rest, w
  <2>2. NewWorker \in WorkerState
    BY DEF NewWorker, WorkerState
  <2>3. /\ worker' \in Seq(WorkerState) /\ Len(worker') = w
        /\ \A v \in 1 .. Len(worker) : worker'[v] = rest[v]
        /\ worker'[w] = NewWorker
    BY <1>6, <2>1, <2>2, AppendProperties
  <2>4. /\ session' \in [Sessions -> SessionState]
        /\ \A t \in Sessions \ {s} : session'[t] = session[t]
        /\ session'[s].at = "connect" /\ session'[s].binding = b /\ session'[s].worker = w
    <3>1. /\ session \in [Sessions -> SessionState] /\ session[s] \in SessionState
          /\ w \in Nat
      BY <1>5 DEF Typed
    <3> DEFINE new == [Closed EXCEPT !.at = "connect", !.binding = b, !.worker = w,
                                     !.result = session[s].result]
    <3>2. /\ new \in SessionState
          /\ new.at = "connect" /\ new.binding = b /\ new.worker = w
      BY <3>1 DEF Closed, SessionState, Holding
    <3>3. session' = [session EXCEPT ![s] = new]
      BY <2>1 DEF Use
    <3> QED
      BY <3>1, <3>2, <3>3
  <2>5. Typed'
    BY <1>1, <1>2, <1>3, <1>5, <2>1, <2>3, <2>4 DEF Typed
  <2>6. PICK kept \in [Nat -> Bindings] :
          kept[w] = b /\ \A v \in 1 .. Len(worker) : kept[v] = kind[v]
    <3>1. [kind EXCEPT ![w] = b] \in [Nat -> Bindings]
      OBVIOUS
    <3>2. /\ [kind EXCEPT ![w] = b][w] = b
          /\ \A v \in 1 .. Len(worker) : [kind EXCEPT ![w] = b][v] = kind[v]
      BY <1>5
    <3> QED
      BY <3>1, <3>2
  <2>7. WorkersKept(kept, home)'
    <3>a. /\ w \in Nat /\ w # None /\ w \notin 1 .. Len(worker)
          /\ 1 .. Len(worker') = (1 .. Len(worker)) \cup {w}
      BY <1>5, <2>3
    <3> HIDE DEF w
    <3>1. TableKept(kept)'
      BY <1>1, <1>7, <2>1, <2>6, <3>a DEF TableKept
    <3>2. SessionsKept(kept)'
      BY <1>7, <2>4, <2>6, <3>a, SMTT(30) DEF SessionsKept
    <3>3. WaitersOwn'
      <4> SUFFICES ASSUME NEW t \in Sessions, session'[t].at = "wait"
                   PROVE  /\ worker'[session'[t].worker].owner = t
                          /\ worker'[session'[t].worker].process # None
        BY DEF WaitersOwn
      <4>1. session'[t] = session[t] /\ session[t].at = "wait"
        BY <2>4
      <4>2. PICK v \in 1 .. Len(worker) : v = session[t].worker /\ v \notin gone
        BY <1>8, <4>1
      <4>3. worker[v].owner = t /\ worker[v].process # None
        BY <1>7, <4>1, <4>2 DEF WaitersOwn
      <4>4. rest[v].owner = t /\ rest[v].process # None
        BY <1>6, <4>2, <4>3
      <4> QED
        BY <2>3, <4>1, <4>2, <4>4
    <3>4. ProcessesOwned(kept, home)'
      <4> SUFFICES ASSUME NEW v \in 1 .. Len(worker'), worker'[v].process # None
                   PROVE  /\ worker'[v].process \in 1 .. Len(process')
                          /\ home[worker'[v].process] = kept[v]
        BY DEF ProcessesOwned
      <4>1. v \in 1 .. Len(worker) /\ worker'[v] = rest[v]
        BY <2>3, <3>a, SMTT(30) DEF NewWorker
      <4> QED
        BY <1>3, <1>6, <1>7, <2>6, <4>1 DEF ProcessesOwned
    <3> QED
      BY <3>1, <3>2, <3>3, <3>4 DEF WorkersKept
  <2> QED
    BY <1>3, <2>5, <2>6, <2>7 DEF Kept
<1> QED
  BY <1>9, <1>10

-----------------------------------------------------------------------------

(* Sending a request: to the running process of the worker, or to a new    *)
(* one, whose home is the worker's binding.                                *)
LEMMA SendKept ==
  ASSUME Typed, NEW kind \in [Nat -> Bindings], NEW home \in [Nat -> Bindings],
         Kept(kind, home), NEW s \in Sessions, session[s].at \in {"connect", "open"},
         NEW what \in {"connect", "order"}, Send(s, what)
  PROVE  Typed' /\ \E told \in [Nat -> Bindings] : Kept(kind, told)'
<1>1. TableKept(kind) /\ SessionsKept(kind) /\ WaitersOwn /\ ProcessesOwned(kind, home)
  BY DEF Kept, WorkersKept
<1>2. PICK w \in 1 .. Len(worker) : w = session[s].worker /\ session[s].binding = kind[w]
  BY <1>1 DEF SessionsKept, Holding
<1>3. PICK old : old = worker[w].process
  OBVIOUS
<1>4. PICK running \in BOOLEAN : running = (old # None /\ process[old].alive)
  OBVIOUS
<1>5. PICK q : q = IF running THEN old ELSE Len(process) + 1
  OBVIOUS
<1>6. PICK request : request = [id |-> worker[w].next, what |-> what, binding |-> kind[w]]
  OBVIOUS
<1>7. PICK base : base = IF running THEN process ELSE Append(process, NewProcess)
  OBVIOUS
<1>8. /\ worker' = [worker EXCEPT ![w] = [process |-> q, owner |-> s, next |-> @.next + 1]]
      /\ process' = [base EXCEPT ![q].inbox = Append(@, request)]
      /\ session' = [session EXCEPT ![s].at = "wait", ![s].id = worker[w].next,
                                    ![s].what = what, ![s].executed = FALSE,
                                    ![s].result = "none"]
      /\ UNCHANGED <<table, login, orders, faults>>
      /\ worker[w].owner = None
  BY <1>2, <1>3, <1>4, <1>5, <1>6, <1>7 DEF Send, Free
<1>9. /\ worker[w] \in WorkerState /\ Len(process) \in Nat /\ Len(worker) \in Nat
      /\ \A p \in 1 .. Len(process) : process[p] \in ProcessState
      /\ session[s] \in SessionState /\ kind[w] \in Bindings
  BY ElementOfSeq, LenProperties DEF Typed
<1>10. request \in Request /\ request.binding = kind[w]
  BY <1>6, <1>9 DEF Request, WorkerState
<1>11. NewProcess \in ProcessState
  BY EmptySeq DEF NewProcess, ProcessState, Paths
<1>12. running => old \in 1 .. Len(process) /\ home[old] = kind[w]
  BY <1>1, <1>3, <1>4 DEF ProcessesOwned
<1>13. /\ base \in Seq(ProcessState) /\ Len(base) \in Nat /\ q \in 1 .. Len(base)
       /\ Len(base) = IF running THEN Len(process) ELSE Len(process) + 1
       /\ \A p \in 1 .. Len(process) : base[p] = process[p]
       /\ ~running => base[q] = NewProcess
  <2>1. CASE running
    BY <1>5, <1>7, <1>9, <1>12, <2>1 DEF Typed
  <2>2. CASE ~running
    BY <1>5, <1>7, <1>9, <1>11, <2>2, AppendProperties DEF Typed
  <2> QED
    BY <2>1, <2>2
<1>14. /\ process' \in Seq(ProcessState) /\ Len(process') = Len(base)
       /\ \A p \in 1 .. Len(base) : p # q => process'[p] = base[p]
       /\ process'[q].path = base[q].path /\ process'[q].told = base[q].told
       /\ process'[q].inbox = Append(base[q].inbox, request)
  <2>1. base[q] \in ProcessState
    BY <1>13, ElementOfSeq
  <2>2. PICK e : e = [base[q] EXCEPT !.inbox = Append(@, request)]
    OBVIOUS
  <2>3. /\ e \in ProcessState /\ e.path = base[q].path /\ e.told = base[q].told
        /\ e.inbox = Append(base[q].inbox, request)
    BY <1>10, <2>1, <2>2, AppendProperties DEF ProcessState
  <2>4. process' = [base EXCEPT ![q] = e]
    BY <1>8, <2>2
  <2> QED
    BY <1>13, <2>3, <2>4, ExceptSeq
<1>15. /\ worker' \in Seq(WorkerState) /\ Len(worker') = Len(worker)
       /\ \A v \in 1 .. Len(worker) : v # w => worker'[v] = worker[v]
       /\ worker'[w].process = q /\ worker'[w].owner = s
  <2>1. PICK e : e = [process |-> q, owner |-> s, next |-> worker[w].next + 1]
    OBVIOUS
  <2>2. e \in WorkerState /\ e.process = q /\ e.owner = s
    BY <1>9, <1>13, <2>1 DEF WorkerState
  <2>3. worker' = [worker EXCEPT ![w] = e]
    BY <1>8, <2>1
  <2> QED
    BY <2>2, <2>3, ExceptSeq DEF Typed
<1>16. /\ session' \in [Sessions -> SessionState]
       /\ \A t \in Sessions : t # s => session'[t] = session[t]
       /\ session'[s].at = "wait" /\ session'[s].worker = w /\ session'[s].binding = kind[w]
  <2>1. PICK e : e = [session[s] EXCEPT !.at = "wait", !.id = worker[w].next, !.what = what,
                                        !.executed = FALSE, !.result = "none"]
    OBVIOUS
  <2>2. e \in SessionState /\ e.at = "wait" /\ e.worker = w /\ e.binding = kind[w]
    BY <1>2, <1>9, <2>1 DEF SessionState, WorkerState, Holding
  <2>3. session' = [session EXCEPT ![s] = e]
    BY <1>8, <2>1 DEF Typed
  <2> QED
    BY <2>2, <2>3 DEF Typed
<1>17. Typed'
  BY <1>8, <1>14, <1>15, <1>16 DEF Typed
<1>18. PICK told \in [Nat -> Bindings] :
         told[q] = kind[w] /\ \A p \in 1 .. Len(process) : told[p] = home[p]
  <2>1. CASE running
    BY <1>5, <1>12, <2>1
  <2>2. CASE ~running
    <3>1. q \in Nat /\ q \notin 1 .. Len(process)
      BY <1>5, <1>9, <2>2
    <3>2. [home EXCEPT ![q] = kind[w]] \in [Nat -> Bindings]
      BY <1>9
    <3>3. /\ [home EXCEPT ![q] = kind[w]][q] = kind[w]
          /\ \A p \in 1 .. Len(process) : [home EXCEPT ![q] = kind[w]][p] = home[p]
      BY <1>9, <3>1
    <3> QED
      BY <3>2, <3>3
  <2> QED
    BY <2>1, <2>2
<1>19. \A p \in 1 .. Len(process) : p \in 1 .. Len(process')
  BY <1>9, <1>13, <1>14
<1>20. TableKept(kind)' /\ SessionsKept(kind)'
  <2>1. TableKept(kind)'
    BY <1>1, <1>8, <1>15, <1>16 DEF TableKept
  <2>2. SessionsKept(kind)'
    BY <1>1, <1>8, <1>15, <1>16 DEF SessionsKept
  <2> QED
    BY <2>1, <2>2
<1>21. WaitersOwn'
  <2> SUFFICES ASSUME NEW t \in Sessions, session'[t].at = "wait"
               PROVE  /\ worker'[session'[t].worker].owner = t
                      /\ worker'[session'[t].worker].process # None
    BY DEF WaitersOwn
  <2>1. CASE t = s
    BY <1>13, <1>15, <1>16, <2>1, TerminalsTyped
  <2>2. CASE t # s
    <3>1. session'[t] = session[t] /\ session[t].at = "wait"
      BY <1>16, <2>2
    <3>2. PICK v \in 1 .. Len(worker) : v = session[t].worker
      BY <1>1, <3>1 DEF SessionsKept, Holding
    <3>3. worker[v].owner = t /\ worker[v].process # None
      BY <1>1, <3>1, <3>2 DEF WaitersOwn
    <3>4. v # w
      BY <1>8, <3>3, TerminalsTyped
    <3> QED
      BY <1>15, <3>1, <3>2, <3>3, <3>4
  <2> QED
    BY <2>1, <2>2
<1>22. ProcessesOwned(kind, told)'
  <2> SUFFICES ASSUME NEW v \in 1 .. Len(worker'), worker'[v].process # None
               PROVE  /\ worker'[v].process \in 1 .. Len(process')
                      /\ told[worker'[v].process] = kind[v]
    BY DEF ProcessesOwned
  <2>1. CASE v = w
    BY <1>13, <1>14, <1>15, <1>18, <2>1
  <2>2. CASE v # w
    BY <1>1, <1>15, <1>18, <1>19, <2>2 DEF ProcessesOwned
  <2> QED
    BY <2>1, <2>2
<1>23. ProcessesKept(told)'
  <2> SUFFICES ASSUME NEW p \in 1 .. Len(process')
               PROVE  /\ \A i \in 1 .. Len(process'[p].inbox) :
                           process'[p].inbox[i].binding = told[p]
                      /\ told[p].path = None => process'[p].path \in {None, Default}
                      /\ process'[p].told =>
                           /\ process'[p].path = Terminal(told[p].path)
                           /\ \E k \in Bindings :
                                /\ Terminal(k.path) = Terminal(told[p].path)
                                /\ login[Terminal(k.path)] = k.login
    BY <1>8 DEF ProcessesKept
  <2>1. p \in 1 .. Len(base) /\ (p = q \/ p \in 1 .. Len(process))
    BY <1>5, <1>9, <1>13, <1>14
  <2>2. CASE p # q
    BY <1>13, <1>14, <1>18, <2>1, <2>2, SMTT(30) DEF Kept, ProcessesKept
  <2>3. CASE p = q /\ running
    <3>1. q \in 1 .. Len(process) /\ base[q] = process[q] /\ told[q] = home[q]
      BY <1>5, <1>12, <1>13, <1>18, <2>3
    <3>2. \A i \in 1 .. Len(process[q].inbox) : process[q].inbox[i].binding = told[q]
      BY <3>1 DEF Kept, ProcessesKept
    <3>3. process[q].inbox \in Seq(Request)
      BY <1>9, <3>1 DEF ProcessState
    <3>4. \A i \in 1 .. Len(process'[q].inbox) : process'[q].inbox[i].binding = told[q]
      BY <1>10, <1>14, <1>18, <3>1, <3>2, <3>3, AppendProperties
    <3>5. process'[q].path = process[q].path /\ process'[q].told = process[q].told
      BY <1>14, <3>1
    <3>6. /\ home[q].path = None => process[q].path \in {None, Default}
          /\ process[q].told =>
               /\ process[q].path = Terminal(home[q].path)
               /\ \E k \in Bindings : /\ Terminal(k.path) = Terminal(home[q].path)
                                      /\ login[Terminal(k.path)] = k.login
      BY <3>1 DEF Kept, ProcessesKept
    <3> QED
      BY <2>3, <3>1, <3>4, <3>5, <3>6
  <2>4. CASE p = q /\ ~running
    <3>1. base[q].inbox = <<>> /\ base[q].path = None /\ base[q].told = FALSE
      BY <1>13, <2>4 DEF NewProcess
    <3>2. \A i \in 1 .. Len(process'[q].inbox) : process'[q].inbox[i].binding = told[q]
      BY <1>10, <1>14, <1>18, <3>1, EmptySeq, AppendProperties
    <3> QED
      BY <1>14, <2>4, <3>1, <3>2
  <2> QED
    BY <2>2, <2>3, <2>4
<1> QED
  BY <1>17, <1>18, <1>20, <1>21, <1>22, <1>23 DEF Kept, WorkersKept

-----------------------------------------------------------------------------

(* The end of a call: the answer, the timeout or the end of the process    *)
(* gives the lock back.                                                    *)
LEMMA EndKept ==
  ASSUME Typed, NEW kind \in [Nat -> Bindings], NEW home \in [Nat -> Bindings],
         Kept(kind, home), NEW s \in Sessions, session[s].at = "wait",
         Receive(s) \/ TimeOut(s) \/ EndOfFile(s)
  PROVE  Typed' /\ Kept(kind, home)'
<1>1. TableKept(kind) /\ SessionsKept(kind) /\ WaitersOwn /\ ProcessesOwned(kind, home)
  BY DEF Kept, WorkersKept
<1>2. PICK w \in 1 .. Len(worker) :
        /\ w = session[s].worker /\ session[s].binding = kind[w]
        /\ worker[w].owner = s /\ worker[w].process # None
  BY <1>1 DEF SessionsKept, WaitersOwn, Holding
<1>3. PICK p \in 1 .. Len(process) : p = worker[w].process
  BY <1>1, <1>2 DEF ProcessesOwned
<1>4. /\ worker[w] \in WorkerState /\ Len(process) \in Nat /\ Len(worker) \in Nat
      /\ process[p] \in ProcessState /\ session[s] \in SessionState
  BY ElementOfSeq, LenProperties DEF Typed
<1>5. PICK result \in {"ok", "failed"}, after \in {p, None} :
        Settle(s, result) /\ Release(s, after)
  BY <1>2, <1>3 DEF Receive, TimeOut, EndOfFile, ProcessOf
<1>6. UNCHANGED <<table, login, orders, faults>>
  BY DEF Receive, TimeOut, EndOfFile
<1>7. /\ process' \in Seq(ProcessState) /\ Len(process') = Len(process)
      /\ \A q \in 1 .. Len(process) :
           /\ process'[q].path = process[q].path
           /\ process'[q].told = process[q].told
           /\ process'[q].inbox \in {<<>>, process[q].inbox}
  <2>1. CASE Receive(s)
    <3>1. PICK e : e = [process[p] EXCEPT !.out = Tail(@)]
      OBVIOUS
    <3>2. process' = [process EXCEPT ![p] = e] /\ process[p].out # <<>>
      BY <1>2, <1>3, <2>1, <3>1 DEF Receive, ProcessOf
    <3>3. e \in ProcessState /\ e.path = process[p].path /\ e.told = process[p].told
          /\ e.inbox = process[p].inbox
      BY <1>4, <3>1, <3>2, HeadTailProperties DEF ProcessState
    <3> QED
      BY <3>2, <3>3, ExceptSeq DEF Typed
  <2>2. CASE TimeOut(s)
    BY <2>2, ShutKeeps DEF TimeOut
  <2>3. CASE EndOfFile(s)
    BY <2>3 DEF EndOfFile, Typed
  <2> QED
    BY <2>1, <2>2, <2>3
<1>8. ProcessesKept(home)'
  BY <1>6, <1>7, EmptiedKept DEF Kept
<1>9. /\ worker' \in Seq(WorkerState) /\ Len(worker') = Len(worker)
      /\ \A v \in 1 .. Len(worker) : v # w => worker'[v] = worker[v]
      /\ worker'[w].process \in {p, None}
  <2>1. PICK e : e = [worker[w] EXCEPT !.owner = None, !.process = after]
    OBVIOUS
  <2>2. e \in WorkerState /\ e.process \in {p, None}
    BY <1>3, <1>4, <2>1 DEF WorkerState
  <2>3. worker' = [worker EXCEPT ![w] = e]
    BY <1>2, <1>5, <2>1 DEF Release
  <2> QED
    BY <2>2, <2>3, ExceptSeq DEF Typed
<1>10. /\ session' \in [Sessions -> SessionState]
       /\ \A t \in Sessions : t # s => session'[t] = session[t]
       /\ session'[s].at \in {"open", "drop"} /\ session'[s].worker = w
       /\ session'[s].binding = kind[w]
  <2>1. PICK at \in {"open", "drop"} :
          at = IF result = "ok" \/ session[s].what = "order" THEN "open" ELSE "drop"
    OBVIOUS
  <2>2. PICK e : e = [session[s] EXCEPT !.result = result, !.at = at]
    OBVIOUS
  <2>3. e \in SessionState /\ e.at = at /\ e.worker = w /\ e.binding = kind[w]
    BY <1>2, <1>4, <2>2 DEF SessionState, Holding
  <2>4. session' = [session EXCEPT ![s] = e]
    BY <1>5, <2>1, <2>2 DEF Settle, Typed
  <2> QED
    BY <2>3, <2>4 DEF Typed
<1>11. Typed'
  BY <1>6, <1>7, <1>9, <1>10 DEF Typed
<1>12. TableKept(kind)' /\ SessionsKept(kind)'
  BY <1>1, <1>6, <1>9, <1>10 DEF TableKept, SessionsKept
<1>13. WaitersOwn'
  <2> SUFFICES ASSUME NEW t \in Sessions, session'[t].at = "wait"
               PROVE  /\ worker'[session'[t].worker].owner = t
                      /\ worker'[session'[t].worker].process # None
    BY DEF WaitersOwn
  <2>1. t # s /\ session'[t] = session[t] /\ session[t].at = "wait"
    BY <1>10
  <2>2. PICK v \in 1 .. Len(worker) : v = session[t].worker
    BY <1>1, <2>1 DEF SessionsKept, Holding
  <2>3. worker[v].owner = t /\ worker[v].process # None
    BY <1>1, <2>1, <2>2 DEF WaitersOwn
  <2>4. v # w
    BY <1>2, <2>1, <2>3
  <2> QED
    BY <1>9, <2>1, <2>2, <2>3, <2>4
<1>14. ProcessesOwned(kind, home)'
  <2> SUFFICES ASSUME NEW v \in 1 .. Len(worker'), worker'[v].process # None
               PROVE  /\ worker'[v].process \in 1 .. Len(process')
                      /\ home[worker'[v].process] = kind[v]
    BY DEF ProcessesOwned
  <2>1. worker'[v].process = worker[v].process
    BY <1>3, <1>9
  <2> QED
    BY <1>1, <1>7, <1>9, <2>1 DEF ProcessesOwned
<1> QED
  BY <1>8, <1>11, <1>12, <1>13, <1>14 DEF Kept, WorkersKept

(* The steps of a session between calls. *)
LEMMA BetweenKept ==
  ASSUME Typed, NEW kind \in [Nat -> Bindings], NEW home \in [Nat -> Bindings],
         Kept(kind, home), NEW s \in Sessions,
         Leave(s) \/ Drop(s) \/ CloseWorker(s) \/ \E b \in Bindings : Reuse(s, b)
  PROVE  Typed' /\ Kept(kind, home)'
<1>1. TableKept(kind) /\ SessionsKept(kind) /\ WaitersOwn /\ ProcessesOwned(kind, home)
  BY DEF Kept, WorkersKept
<1>2. session[s] \in SessionState /\ Len(worker) \in Nat /\ Len(process) \in Nat
  BY LenProperties DEF Typed
<1>3. CASE Leave(s)
  <2>1. PICK e : e = [Closed EXCEPT !.result = session[s].result]
    OBVIOUS
  <2>2. e \in SessionState /\ e.at = "closed"
    BY <1>2, <2>1 DEF SessionState, Closed
  <2>3. session' = [session EXCEPT ![s] = e] /\ UNCHANGED <<table, worker, process, login, faults>>
    BY <1>3, <2>1 DEF Leave
  <2>4. Typed'
    BY <2>2, <2>3 DEF Typed
  <2>5. SessionsKept(kind)' /\ WaitersOwn'
    BY <1>1, <2>2, <2>3 DEF SessionsKept, WaitersOwn, Typed, Holding
  <2> QED
    BY <1>1, <2>3, <2>4, <2>5 DEF Kept, WorkersKept, TableKept, ProcessesOwned, ProcessesKept
<1>4. ASSUME NEW b \in Bindings, Reuse(s, b)
      PROVE  Typed' /\ Kept(kind, home)'
  <2>1. PICK w \in 1 .. Len(worker) : w = table[b] /\ kind[w] = b
    BY <1>1, <1>4 DEF Reuse, TableKept
  <2>2. PICK e : e = [Closed EXCEPT !.at = "connect", !.binding = b, !.worker = w,
                                    !.result = session[s].result]
    OBVIOUS
  <2>3. e \in SessionState /\ e.at = "connect" /\ e.binding = b /\ e.worker = w
    <3>1. w \in Nat
      BY <1>2
    <3> QED
      BY <1>2, <2>2, <3>1 DEF SessionState, Closed, Holding
  <2>4. session' = [session EXCEPT ![s] = e] /\ UNCHANGED <<table, worker, process, login, faults>>
    BY <1>4, <2>1, <2>2 DEF Reuse, Use
  <2>5. Typed'
    BY <2>3, <2>4 DEF Typed
  <2>6. SessionsKept(kind)' /\ WaitersOwn'
    BY <1>1, <2>1, <2>3, <2>4 DEF SessionsKept, WaitersOwn, Typed, Holding
  <2> QED
    BY <1>1, <2>4, <2>5, <2>6 DEF Kept, WorkersKept, TableKept, ProcessesOwned, ProcessesKept
<1>5. CASE Drop(s)
  <2>1. PICK b \in Bindings : b = session[s].binding
    BY <1>1, <1>2, <1>5 DEF Drop, SessionsKept, Holding, Typed
  <2>2. PICK e : e = [session[s] EXCEPT
                        !.at = IF table[b] = None THEN "closed" ELSE "close",
                        !.worker = table[b],
                        !.binding = IF table[b] = None THEN None ELSE @]
    OBVIOUS
  <2>3. /\ e \in SessionState /\ e.at \in {"closed", "close"}
        /\ e.at = "close" => e.worker \in 1 .. Len(worker)
    BY <1>1, <1>2, <2>2 DEF SessionState, TableKept, Typed
  <2>4. /\ session' = [session EXCEPT ![s] = e] /\ table' = [table EXCEPT ![b] = None]
        /\ UNCHANGED <<worker, process, login, faults>>
    BY <1>5, <2>1, <2>2 DEF Drop, Typed
  <2>5. Typed'
    BY <2>3, <2>4 DEF Typed
  <2>6. SessionsKept(kind)' /\ WaitersOwn'
    BY <1>1, <2>3, <2>4 DEF SessionsKept, WaitersOwn, Typed, Holding
  <2>7. TableKept(kind)'
    BY <1>1, <2>4 DEF TableKept, Typed
  <2> QED
    BY <1>1, <2>4, <2>5, <2>6, <2>7 DEF Kept, WorkersKept, ProcessesOwned, ProcessesKept
<1>6. CASE CloseWorker(s)
  <2>1. PICK w \in 1 .. Len(worker) : w = session[s].worker
    BY <1>1, <1>6 DEF CloseWorker, SessionsKept
  <2>2. PICK e : e = [Closed EXCEPT !.result = session[s].result]
    OBVIOUS
  <2>3. e \in SessionState /\ e.at = "closed"
    BY <1>2, <2>2 DEF SessionState, Closed
  <2>4. /\ session' = [session EXCEPT ![s] = e] /\ worker[w].owner = None
        /\ process' = Shut(process, {w}) /\ worker' = ForgetProcess({w})
        /\ UNCHANGED <<table, login, faults>>
    BY <1>6, <2>1, <2>2 DEF CloseWorker, Free
  <2>5. /\ worker' \in Seq(WorkerState) /\ Len(worker') = Len(worker)
        /\ \A v \in 1 .. Len(worker) :
             /\ worker'[v].owner = worker[v].owner
             /\ worker'[v].process = IF v = w THEN None ELSE worker[v].process
    BY <2>4, ForgetKeeps
  <2>6. /\ process' \in Seq(ProcessState) /\ Len(process') = Len(process)
        /\ ProcessesKept(home)'
    BY <2>4, ShutKeeps, EmptiedKept DEF Kept
  <2>7. Typed'
    BY <2>3, <2>4, <2>5, <2>6 DEF Typed
  <2>8. SessionsKept(kind)' /\ TableKept(kind)'
    BY <1>1, <2>3, <2>4, <2>5 DEF SessionsKept, TableKept, Typed, Holding
  <2>9. WaitersOwn'
    <3> SUFFICES ASSUME NEW t \in Sessions, session'[t].at = "wait"
                 PROVE  /\ worker'[session'[t].worker].owner = t
                        /\ worker'[session'[t].worker].process # None
      BY DEF WaitersOwn
    <3>1. t # s /\ session'[t] = session[t] /\ session[t].at = "wait"
      BY <2>3, <2>4 DEF Typed
    <3>2. PICK v \in 1 .. Len(worker) : v = session[t].worker
      BY <1>1, <3>1 DEF SessionsKept, Holding
    <3>3. worker[v].owner = t /\ worker[v].process # None
      BY <1>1, <3>1, <3>2 DEF WaitersOwn
    <3>4. v # w
      BY <2>4, <3>3, TerminalsTyped
    <3> QED
      BY <2>5, <3>1, <3>2, <3>3, <3>4
  <2>10. ProcessesOwned(kind, home)'
    BY <1>1, <2>5, <2>6 DEF ProcessesOwned
  <2> QED
    BY <2>6, <2>7, <2>8, <2>9, <2>10 DEF Kept, WorkersKept
<1> QED
  BY <1>3, <1>4, <1>5, <1>6

-----------------------------------------------------------------------------

(***************************************************************************)
(* The subprocess.                                                         *)
(***************************************************************************)

(* An answer goes to the session of the request and changes only what the  *)
(* process knows; the lock, the table and the holders stay.                *)
LEMMA AnswerKept ==
  ASSUME Typed, NEW kind \in [Nat -> Bindings], NEW home \in [Nat -> Bindings],
         Kept(kind, home), NEW p \in 1 .. Len(process), process[p].inbox # <<>>,
         NEW ok \in BOOLEAN, NEW path \in Paths, NEW told \in BOOLEAN,
         Answer(p, ok, path, told), UNCHANGED <<table, worker>>
  PROVE  /\ session' \in [Sessions -> SessionState]
         /\ process' \in Seq(ProcessState) /\ Len(process') = Len(process)
         /\ \A q \in 1 .. Len(process) : q # p => process'[q] = process[q]
         /\ process'[p].path = path /\ process'[p].told = told
         /\ \A i \in 1 .. Len(process'[p].inbox) : process'[p].inbox[i].binding = home[p]
         /\ WorkersKept(kind, home)'
<1>1. process[p] \in ProcessState /\ Len(process) \in Nat
  BY ElementOfSeq, LenProperties DEF Typed
<1>2. /\ process[p].inbox \in Seq(Request) /\ Len(process[p].inbox) \in Nat \ {0}
      /\ process[p].inbox[1] \in Request
  BY <1>1, EmptySeq, ElementOfSeq DEF ProcessState
<1>3. PICK id \in Nat : id = process[p].inbox[1].id
  BY <1>2 DEF Request
<1>4. PICK e : e = [process[p] EXCEPT !.inbox = Tail(@), !.path = path, !.told = told,
                                      !.out = Append(@, [id |-> id, ok |-> ok])]
  OBVIOUS
<1>5. process' = [process EXCEPT ![p] = e]
  BY <1>3, <1>4 DEF Answer
<1>6. /\ Tail(process[p].inbox) \in Seq(Request)
      /\ Len(Tail(process[p].inbox)) = Len(process[p].inbox) - 1
      /\ \A i \in 1 .. Len(Tail(process[p].inbox)) :
           Tail(process[p].inbox)[i] = process[p].inbox[i + 1]
  BY <1>2
<1>7. Append(process[p].out, [id |-> id, ok |-> ok]) \in Seq([id : Nat, ok : BOOLEAN])
  BY <1>1, AppendProperties DEF ProcessState
<1>8. /\ e \in ProcessState /\ e.path = path /\ e.told = told
      /\ e.inbox = Tail(process[p].inbox)
  BY <1>1, <1>4, <1>6, <1>7 DEF ProcessState
<1>9. /\ process' \in Seq(ProcessState) /\ Len(process') = Len(process)
      /\ \A q \in 1 .. Len(process) : q # p => process'[q] = process[q]
      /\ process'[p] = e
  BY <1>5, <1>8, ExceptSeq DEF Typed
<1>10. \A i \in 1 .. Len(e.inbox) : e.inbox[i].binding = home[p]
  <2>1. \A i \in 1 .. Len(process[p].inbox) : process[p].inbox[i].binding = home[p]
    BY DEF Kept, ProcessesKept
  <2> QED
    BY <1>2, <1>6, <1>8, <2>1
<1>11. /\ session' \in [Sessions -> SessionState]
       /\ \A s \in Sessions : /\ session'[s].at = session[s].at
                              /\ session'[s].worker = session[s].worker
                              /\ session'[s].binding = session[s].binding
  <2>1. \A s \in Sessions :
          /\ session[s] \in SessionState
          /\ session'[s] = [session[s] EXCEPT !.executed = @ \/ s \in Waiting(p, id)]
    BY <1>3 DEF Answer, Typed
  <2>2. \A s \in Sessions : (session[s].executed \/ s \in Waiting(p, id)) \in BOOLEAN
    OBVIOUS
  <2>3. session' = [s \in Sessions |-> session'[s]]
    BY DEF Answer
  <2>4. \A s \in Sessions : /\ session'[s] \in SessionState
                             /\ session'[s].at = session[s].at
                             /\ session'[s].worker = session[s].worker
                             /\ session'[s].binding = session[s].binding
    <3> SUFFICES ASSUME NEW s \in Sessions
                 PROVE  /\ session'[s] \in SessionState
                        /\ session'[s].at = session[s].at
                        /\ session'[s].worker = session[s].worker
                        /\ session'[s].binding = session[s].binding
      OBVIOUS
    <3>1. PICK x \in BOOLEAN : session'[s] = [session[s] EXCEPT !.executed = x]
      BY <2>1, <2>2
    <3> QED
      BY <2>1, <3>1 DEF SessionState
  <2> QED
    BY <2>3, <2>4
<1>12. WorkersKept(kind, home)'
  <2>1. TableKept(kind) /\ SessionsKept(kind) /\ WaitersOwn /\ ProcessesOwned(kind, home)
    BY DEF Kept, WorkersKept
  <2>2. TableKept(kind)' /\ SessionsKept(kind)' /\ WaitersOwn'
    BY <1>11, <2>1 DEF TableKept, SessionsKept, WaitersOwn
  <2>3. ProcessesOwned(kind, home)'
    BY <1>9, <2>1 DEF ProcessesOwned
  <2> QED
    BY <2>2, <2>3 DEF WorkersKept
<1> QED
  BY <1>8, <1>9, <1>10, <1>11, <1>12

(* Logging a terminal in leaves every connected process at an account that *)
(* uses its terminal.                                                      *)
LEMMA ConnectKept ==
  ASSUME Typed, NEW kind \in [Nat -> Bindings], NEW home \in [Nat -> Bindings],
         Kept(kind, home), NEW p \in 1 .. Len(process), ServeConnect(p)
  PROVE  Typed' /\ Kept(kind, home)'
<1>1. /\ process[p] \in ProcessState /\ process[p].inbox # <<>>
      /\ process[p].inbox[1].binding = home[p] /\ home[p] \in Bindings
      /\ Len(process) \in Nat
  <2>1. process[p] \in ProcessState /\ process[p].inbox # <<>> /\ Len(process) \in Nat
    BY ElementOfSeq, LenProperties DEF Typed, ServeConnect
  <2>2. 1 \in 1 .. Len(process[p].inbox)
    BY <2>1, EmptySeq DEF ProcessState
  <2> QED
    BY <2>1, <2>2 DEF Kept, ProcessesKept
<1>2. PICK path \in Paths :
        path = IF home[p].path = None THEN process[p].path ELSE home[p].path
  BY <1>1 DEF ProcessState, Paths, Terminals
<1>3. /\ Terminal(path) = Terminal(home[p].path)
      /\ Terminal(path) \in Terminals /\ Terminal(path) # None
      /\ home[p].path = None => path \in {None, Default} /\ Terminal(path) = Default
  <2>1. home[p].path = None => process[p].path \in {None, Default}
    BY DEF Kept, ProcessesKept
  <2> QED
    BY <1>1, <1>2, <2>1, TerminalsTyped DEF Terminal
<1>4. UNCHANGED <<table, worker>> /\ faults' \in Nat
  <2>1. faults \in Nat
    BY DEF Typed
  <2>2. UNCHANGED <<table, worker>> /\ faults' \in {faults, faults + 1}
    BY DEF ServeConnect, Faulty
  <2> QED
    BY <2>1, <2>2
<1>5. CASE /\ login' = [login EXCEPT ![Terminal(path)] = home[p].login]
           /\ Answer(p, TRUE, Terminal(path), TRUE)
  <2>1. /\ session' \in [Sessions -> SessionState]
        /\ process' \in Seq(ProcessState) /\ Len(process') = Len(process)
        /\ \A q \in 1 .. Len(process) : q # p => process'[q] = process[q]
        /\ process'[p].path = Terminal(path) /\ process'[p].told = TRUE
        /\ \A i \in 1 .. Len(process'[p].inbox) : process'[p].inbox[i].binding = home[p]
        /\ WorkersKept(kind, home)'
    <3>1. PICK told \in BOOLEAN : told = TRUE
      OBVIOUS
    <3>2. PICK at \in Paths : at = Terminal(path)
      BY <1>3 DEF Paths
    <3>3. Answer(p, told, at, told)
      BY <1>5, <3>1, <3>2
    <3>4. /\ session' \in [Sessions -> SessionState]
          /\ process' \in Seq(ProcessState) /\ Len(process') = Len(process)
          /\ \A q \in 1 .. Len(process) : q # p => process'[q] = process[q]
          /\ process'[p].path = at /\ process'[p].told = told
          /\ \A i \in 1 .. Len(process'[p].inbox) : process'[p].inbox[i].binding = home[p]
          /\ WorkersKept(kind, home)'
      BY <1>1, <1>4, <3>3, AnswerKept
    <3> QED
      BY <3>1, <3>2, <3>4
  <2>2. home[p].login \in Logins
    BY <1>1, TerminalsTyped
  <2>3. login' \in [Terminals -> Logins \cup {None}] /\ login'[Terminal(path)] = home[p].login
    BY <1>3, <1>5, <2>2 DEF Typed
  <2>4. Typed'
    BY <1>4, <2>1, <2>3 DEF Typed
  <2>5. ProcessesKept(home)'
    <3> SUFFICES ASSUME NEW q \in 1 .. Len(process')
                 PROVE  /\ \A i \in 1 .. Len(process'[q].inbox) :
                             process'[q].inbox[i].binding = home[q]
                        /\ home[q].path = None => process'[q].path \in {None, Default}
                        /\ process'[q].told =>
                             /\ process'[q].path = Terminal(home[q].path)
                             /\ \E k \in Bindings :
                                  /\ Terminal(k.path) = Terminal(home[q].path)
                                  /\ login'[Terminal(k.path)] = k.login
      BY DEF ProcessesKept
    <3>1. CASE q = p
      BY <1>1, <1>3, <2>1, <2>3, <3>1
    <3>2. CASE q # p
      <4>1. q \in 1 .. Len(process) /\ process'[q] = process[q]
        BY <2>1, <3>2
      <4>2. /\ \A i \in 1 .. Len(process[q].inbox) : process[q].inbox[i].binding = home[q]
            /\ home[q].path = None => process[q].path \in {None, Default}
            /\ process[q].told => process[q].path = Terminal(home[q].path)
        BY <4>1 DEF Kept, ProcessesKept
      <4>3. ASSUME process[q].told
            PROVE  \E k \in Bindings : /\ Terminal(k.path) = Terminal(home[q].path)
                                       /\ login'[Terminal(k.path)] = k.login
        <5>1. PICK k \in Bindings : /\ Terminal(k.path) = Terminal(home[q].path)
                                    /\ login[Terminal(k.path)] = k.login
          BY <4>1, <4>3 DEF Kept, ProcessesKept
        <5>2. CASE Terminal(k.path) = Terminal(path)
          BY <1>1, <1>3, <2>3, <5>1, <5>2
        <5>3. CASE Terminal(k.path) # Terminal(path)
          <6>1. Terminal(k.path) \in Terminals
            BY TerminalsTyped
          <6>2. login'[Terminal(k.path)] = login[Terminal(k.path)]
            BY <1>5, <5>3, <6>1 DEF Typed
          <6> QED
            BY <5>1, <6>2
        <5> QED
          BY <5>2, <5>3
      <4> QED
        BY <4>1, <4>2, <4>3
    <3> QED
      BY <3>1, <3>2
  <2> QED
    BY <2>1, <2>4, <2>5 DEF Kept
<1>6. CASE Answer(p, FALSE, path, process[p].told) /\ UNCHANGED login
  <2>1. PICK told \in BOOLEAN : told = process[p].told
    BY <1>1 DEF ProcessState
  <2>2. /\ session' \in [Sessions -> SessionState]
        /\ process' \in Seq(ProcessState) /\ Len(process') = Len(process)
        /\ \A q \in 1 .. Len(process) : q # p => process'[q] = process[q]
        /\ process'[p].path = path /\ process'[p].told = told
        /\ \A i \in 1 .. Len(process'[p].inbox) : process'[p].inbox[i].binding = home[p]
        /\ WorkersKept(kind, home)'
    <3>1. PICK ok \in BOOLEAN : Answer(p, ok, path, told)
      BY <1>6, <2>1
    <3> QED
      BY <1>1, <1>2, <1>4, <3>1, AnswerKept
  <2>3. Typed'
    BY <1>4, <1>6, <2>2 DEF Typed
  <2>4. process[p].told => path = Terminal(home[p].path)
    <3>1. process[p].told => process[p].path = Terminal(home[p].path)
      BY DEF Kept, ProcessesKept
    <3> QED
      BY <1>2, <3>1 DEF Terminal
  <2>5. ProcessesKept(home)'
    <3> SUFFICES ASSUME NEW q \in 1 .. Len(process')
                 PROVE  /\ \A i \in 1 .. Len(process'[q].inbox) :
                             process'[q].inbox[i].binding = home[q]
                        /\ home[q].path = None => process'[q].path \in {None, Default}
                        /\ process'[q].told =>
                             /\ process'[q].path = Terminal(home[q].path)
                             /\ \E k \in Bindings :
                                  /\ Terminal(k.path) = Terminal(home[q].path)
                                  /\ login[Terminal(k.path)] = k.login
      BY <1>6 DEF ProcessesKept
    <3>1. CASE q # p
      BY <2>2, <3>1 DEF Kept, ProcessesKept
    <3>2. CASE q = p
      <4>1. told => \E k \in Bindings : /\ Terminal(k.path) = Terminal(home[p].path)
                                        /\ login[Terminal(k.path)] = k.login
        BY <2>1 DEF Kept, ProcessesKept
      <4> QED
        BY <1>3, <2>1, <2>2, <2>4, <3>2, <4>1
    <3> QED
      BY <3>1, <3>2
  <2> QED
    BY <2>2, <2>3, <2>5 DEF Kept
<1>7. \/ /\ login' = [login EXCEPT ![Terminal(path)] = home[p].login]
         /\ Answer(p, TRUE, Terminal(path), TRUE)
      \/ Answer(p, FALSE, path, process[p].told) /\ UNCHANGED login
  BY <1>1, <1>2 DEF ServeConnect
<1> QED
  BY <1>5, <1>6, <1>7

(* An order changes no login.  It is executed at the process's terminal,   *)
(* which for a connected process is its own.                               *)
LEMMA OrderKept ==
  ASSUME Typed, NEW kind \in [Nat -> Bindings], NEW home \in [Nat -> Bindings],
         Kept(kind, home), ConnectedOrdersReachTheirAccount,
         NEW p \in 1 .. Len(process), ServeOrder(p)
  PROVE  Typed' /\ Kept(kind, home)' /\ ConnectedOrdersReachTheirAccount'
<1>1. /\ process[p] \in ProcessState /\ process[p].inbox # <<>>
      /\ process[p].inbox[1].binding = home[p] /\ home[p] \in Bindings
      /\ Len(process) \in Nat
  <2>1. process[p] \in ProcessState /\ process[p].inbox # <<>> /\ Len(process) \in Nat
    BY ElementOfSeq, LenProperties DEF Typed, ServeOrder
  <2>2. 1 \in 1 .. Len(process[p].inbox)
    BY <2>1, EmptySeq DEF ProcessState
  <2> QED
    BY <2>1, <2>2 DEF Kept, ProcessesKept
<1>2. PICK told \in BOOLEAN : told = process[p].told
  BY <1>1 DEF ProcessState
<1>3. PICK path \in Terminals : path = Terminal(process[p].path)
  BY <1>1, TerminalsTyped DEF ProcessState, Paths, Terminal
<1>4. PICK ok \in BOOLEAN : ok = (login[path] # None)
  OBVIOUS
<1>5. Answer(p, ok, path, told) /\ UNCHANGED <<table, worker, login, faults>>
  BY <1>2, <1>3, <1>4 DEF ServeOrder
<1>6. told => path = Terminal(home[p].path)
  <2>1. told => process[p].path = Terminal(home[p].path)
    BY <1>2 DEF Kept, ProcessesKept
  <2> QED
    BY <1>1, <1>3, <2>1, TerminalsTyped
<1>7. /\ session' \in [Sessions -> SessionState]
      /\ process' \in Seq(ProcessState) /\ Len(process') = Len(process)
      /\ \A q \in 1 .. Len(process) : q # p => process'[q] = process[q]
      /\ process'[p].path = path /\ process'[p].told = told
      /\ \A i \in 1 .. Len(process'[p].inbox) : process'[p].inbox[i].binding = home[p]
      /\ WorkersKept(kind, home)'
  <2>1. PICK at \in Paths : at = path /\ Answer(p, ok, at, told)
    BY <1>5 DEF Paths
  <2>2. /\ session' \in [Sessions -> SessionState]
        /\ process' \in Seq(ProcessState) /\ Len(process') = Len(process)
        /\ \A q \in 1 .. Len(process) : q # p => process'[q] = process[q]
        /\ process'[p].path = at /\ process'[p].told = told
        /\ \A i \in 1 .. Len(process'[p].inbox) : process'[p].inbox[i].binding = home[p]
        /\ WorkersKept(kind, home)'
    BY <1>1, <1>5, <2>1, AnswerKept
  <2> QED
    BY <2>1, <2>2
<1>8. Typed'
  BY <1>5, <1>7 DEF Typed
<1>9. home[p].path = None => path \in {None, Default}
  <2>1. home[p].path = None => process[p].path \in {None, Default}
    BY DEF Kept, ProcessesKept
  <2> QED
    BY <1>3, <2>1 DEF Terminal
<1>10. ProcessesKept(home)'
  <2> SUFFICES ASSUME NEW q \in 1 .. Len(process')
               PROVE  /\ \A i \in 1 .. Len(process'[q].inbox) :
                           process'[q].inbox[i].binding = home[q]
                      /\ home[q].path = None => process'[q].path \in {None, Default}
                      /\ process'[q].told =>
                           /\ process'[q].path = Terminal(home[q].path)
                           /\ \E k \in Bindings :
                                /\ Terminal(k.path) = Terminal(home[q].path)
                                /\ login[Terminal(k.path)] = k.login
    BY <1>5 DEF ProcessesKept
  <2>1. CASE q # p
    BY <1>7, <2>1 DEF Kept, ProcessesKept
  <2>2. CASE q = p
    <3>1. told => \E k \in Bindings : /\ Terminal(k.path) = Terminal(home[p].path)
                                      /\ login[Terminal(k.path)] = k.login
      BY <1>2 DEF Kept, ProcessesKept
    <3> QED
      BY <1>6, <1>7, <1>9, <2>2, <3>1
  <2> QED
    BY <2>1, <2>2
<1>11. ConnectedOrdersReachTheirAccount'
  <2> SUFFICES ASSUME NEW e \in orders', e.told,
                      \A k \in Bindings :
                        Terminal(k.path) = Terminal(e.binding.path) => k.login = e.binding.login
               PROVE  e.at = e.binding.login
    BY DEF ConnectedOrdersReachTheirAccount
  <2>1. CASE e \in orders
    BY <2>1 DEF ConnectedOrdersReachTheirAccount
  <2>2. CASE e = [binding |-> home[p], at |-> login[path], told |-> told]
    <3>1. PICK k \in Bindings : /\ Terminal(k.path) = Terminal(home[p].path)
                                /\ login[Terminal(k.path)] = k.login
      BY <1>2, <2>2 DEF Kept, ProcessesKept
    <3> QED
      BY <1>6, <2>2, <3>1
  <2>3. e \in orders \/ e = [binding |-> home[p], at |-> login[path], told |-> told]
    BY <1>1, <1>2, <1>3 DEF ServeOrder
  <2> QED
    BY <2>1, <2>2, <2>3
<1> QED
  BY <1>7, <1>8, <1>10, <1>11 DEF Kept

(* Dying and printing change neither what a process knows nor its requests. *)
LEMMA FaultKept ==
  ASSUME Typed, NEW kind \in [Nat -> Bindings], NEW home \in [Nat -> Bindings],
         Kept(kind, home), NEW p \in 1 .. Len(process), Die(p) \/ PrintLine(p)
  PROVE  Typed' /\ Kept(kind, home)'
<1>1. process[p] \in ProcessState /\ Len(process) \in Nat
  BY ElementOfSeq, LenProperties DEF Typed
<1>2. UNCHANGED <<table, worker, login, session>> /\ faults' \in Nat
  <2>1. faults \in Nat
    BY DEF Typed
  <2>2. UNCHANGED <<table, worker, login, session>> /\ faults' = faults + 1
    BY DEF Die, PrintLine, Faulty
  <2> QED
    BY <2>1, <2>2
<1>3. PICK e \in ProcessState :
        /\ process' = [process EXCEPT ![p] = e]
        /\ e.path = process[p].path /\ e.told = process[p].told
        /\ e.inbox \in {<<>>, process[p].inbox}
  <2>1. CASE Die(p)
    <3>1. PICK e : e = [process[p] EXCEPT !.alive = FALSE, !.inbox = <<>>]
      OBVIOUS
    <3>2. /\ e \in ProcessState /\ e.path = process[p].path /\ e.told = process[p].told
          /\ e.inbox = <<>>
      BY <1>1, <3>1, EmptySeq DEF ProcessState
    <3>3. process' = [process EXCEPT ![p] = e]
      BY <2>1, <3>1 DEF Die
    <3> QED
      BY <3>2, <3>3
  <2>2. CASE PrintLine(p)
    <3>1. Append(process[p].out, [id |-> 0, ok |-> FALSE]) \in Seq([id : Nat, ok : BOOLEAN])
      BY <1>1, AppendProperties DEF ProcessState
    <3>2. PICK e : e = [process[p] EXCEPT !.out = Append(@, [id |-> 0, ok |-> FALSE])]
      OBVIOUS
    <3>3. /\ e \in ProcessState /\ e.path = process[p].path /\ e.told = process[p].told
          /\ e.inbox = process[p].inbox
      BY <1>1, <3>1, <3>2 DEF ProcessState
    <3>4. process' = [process EXCEPT ![p] = e]
      BY <2>2, <3>2 DEF PrintLine
    <3> QED
      BY <3>3, <3>4
  <2> QED
    BY <2>1, <2>2
<1>4. /\ process' \in Seq(ProcessState) /\ Len(process') = Len(process)
      /\ \A q \in 1 .. Len(process) :
           /\ process'[q].path = process[q].path
           /\ process'[q].told = process[q].told
           /\ process'[q].inbox \in {<<>>, process[q].inbox}
  BY <1>3, ExceptSeq DEF Typed
<1>5. Typed'
  BY <1>2, <1>4 DEF Typed
<1>6. ProcessesKept(home)'
  BY <1>2, <1>4, EmptiedKept DEF Kept
<1>7. WorkersKept(kind, home)'
  BY <1>2, <1>4 DEF Kept, WorkersKept, TableKept, SessionsKept, WaitersOwn, ProcessesOwned
<1> QED
  BY <1>5, <1>6, <1>7 DEF Kept

LEMMA StepKept == IInv /\ [Next]_vars => IInv'
<1> SUFFICES ASSUME IInv, [Next]_vars PROVE IInv'
  OBVIOUS
<1>1. PICK kind \in [Nat -> Bindings], home \in [Nat -> Bindings] : Kept(kind, home)
  BY DEF IInv
<1>2. Typed /\ ConnectedOrdersReachTheirAccount
  BY DEF IInv
<1>3. ASSUME orders' = orders, Typed',
             \E k \in [Nat -> Bindings], h \in [Nat -> Bindings] : Kept(k, h)'
      PROVE  IInv'
  BY <1>2, <1>3 DEF IInv, ConnectedOrdersReachTheirAccount
<1>4. ASSUME UNCHANGED vars
      PROVE  IInv'
  <2>1. Kept(kind, home)'
    BY <1>1, <1>4 DEF vars, Kept, WorkersKept, TableKept, SessionsKept, WaitersOwn,
       ProcessesOwned, ProcessesKept
  <2>2. Typed' /\ orders' = orders
    BY <1>2, <1>4 DEF vars, Typed
  <2> QED
    BY <1>1, <1>3, <2>1, <2>2
<1>5. ASSUME NEW s \in Sessions, NEW b \in Bindings, NEW switch \in BOOLEAN,
             OpenWorker(s, b, switch)
      PROVE  IInv'
  <2>1. orders' = orders
    BY <1>5 DEF OpenWorker
  <2> QED
    BY <1>1, <1>2, <1>3, <1>5, <2>1, OpenKept
<1>6. ASSUME NEW s \in Sessions, Connect(s) \/ PlaceOrder(s)
      PROVE  IInv'
  <2>1. PICK what \in {"connect", "order"} :
          session[s].at \in {"connect", "open"} /\ Send(s, what)
    BY <1>6 DEF Connect, PlaceOrder
  <2>2. orders' = orders
    BY <2>1 DEF Send
  <2> QED
    BY <1>1, <1>2, <1>3, <2>1, <2>2, SendKept
<1>7. ASSUME NEW s \in Sessions, Receive(s) \/ TimeOut(s) \/ EndOfFile(s)
      PROVE  IInv'
  <2>1. orders' = orders /\ session[s].at = "wait"
    BY <1>7 DEF Receive, TimeOut, EndOfFile
  <2> QED
    BY <1>1, <1>2, <1>3, <1>7, <2>1, EndKept
<1>8. ASSUME NEW s \in Sessions,
             Leave(s) \/ Drop(s) \/ CloseWorker(s) \/ \E b \in Bindings : Reuse(s, b)
      PROVE  IInv'
  <2>1. orders' = orders
    BY <1>8 DEF Leave, Drop, CloseWorker, Reuse
  <2> QED
    BY <1>1, <1>2, <1>3, <1>8, <2>1, BetweenKept
<1>9. ASSUME NEW p \in DOMAIN process, Serve(p) \/ Die(p) \/ PrintLine(p)
      PROVE  IInv'
  <2>1. p \in 1 .. Len(process)
    BY <1>2, LenProperties DEF Typed
  <2>2. CASE ServeConnect(p)
    <3>1. orders' = orders
      BY <2>2 DEF ServeConnect
    <3> QED
      BY <1>1, <1>2, <1>3, <2>1, <2>2, <3>1, ConnectKept
  <2>3. CASE ServeOrder(p)
    <3>1. Typed' /\ Kept(kind, home)' /\ ConnectedOrdersReachTheirAccount'
      BY <1>1, <1>2, <2>1, <2>3, OrderKept
    <3> QED
      BY <1>1, <3>1 DEF IInv
  <2>4. CASE Die(p) \/ PrintLine(p)
    <3>1. orders' = orders
      BY <2>4 DEF Die, PrintLine
    <3> QED
      BY <1>1, <1>2, <1>3, <2>1, <2>4, <3>1, FaultKept
  <2> QED
    BY <1>9, <2>2, <2>3, <2>4 DEF Serve
<1> QED
  BY <1>4, <1>5, <1>6, <1>7, <1>8, <1>9 DEF Next, Open, Continue

(* An order executed by a connected process on a terminal no other account *)
(* uses is executed at its own login, whatever was dropped, replaced or    *)
(* killed before, and whoever still holds a worker the table has forgotten. *)
THEOREM ConnectedOrdersAreSafe == Spec => []ConnectedOrdersReachTheirAccount
<1>1. IInv => ConnectedOrdersReachTheirAccount
  BY DEF IInv
<1> QED
  BY <1>1, InitKept, StepKept, PTL DEF Spec

-----------------------------------------------------------------------------

(***************************************************************************)
(* The calls.  A worker counts its requests, and a process belongs to one  *)
(* worker only: so nothing in a pipe carries the number of a request that  *)
(* was not sent yet, and a good answer to the request a session waits for  *)
(* means that this request has been executed.                              *)
(***************************************************************************)

Lines(q) == {q[i] : i \in 1 .. Len(q)}
Piped(p) == Lines(process[p].inbox) \cup Lines(process[p].out)

OneWorkerPerProcess ==
  \A v, w \in 1 .. Len(worker) :
    worker[v].process # None /\ worker[v].process = worker[w].process => v = w

Numbered ==
  \A w \in 1 .. Len(worker) :
    /\ worker[w].next > 0
    /\ worker[w].process # None =>
         \A line \in Piped(worker[w].process) : line.id < worker[w].next

Awaited ==
  \A s \in Sessions : session[s].at = "wait" =>
    /\ session[s].id < worker[session[s].worker].next
    /\ \A line \in Lines(process[ProcessOf(s)].out) :
         line.ok /\ line.id = session[s].id => session[s].executed

CallInv == OneWorkerPerProcess /\ Numbered /\ Awaited

(* What the calls need of the invariant above: workers and processes exist *)
(* where they are referred to, and who waits owns the lock.                *)
Held ==
  /\ \A w \in 1 .. Len(worker) :
       worker[w].process # None => worker[w].process \in 1 .. Len(process)
  /\ \A s \in Sessions : session[s].at \in Holding \cup {"close"} =>
       session[s].worker \in 1 .. Len(worker)
  /\ \A s \in Sessions : session[s].at \in Holding => session[s].binding \in Bindings
  /\ WaitersOwn

LEMMA IInvHeld == IInv => Typed /\ Held
<1> SUFFICES ASSUME IInv PROVE Typed /\ Held
  OBVIOUS
<1>1. PICK kind \in [Nat -> Bindings], home \in [Nat -> Bindings] : Kept(kind, home)
  BY DEF IInv
<1>2. Typed /\ SessionsKept(kind) /\ WaitersOwn /\ ProcessesOwned(kind, home)
  BY <1>1 DEF IInv, Kept, WorkersKept
<1>3. \A w \in 1 .. Len(worker) : kind[w] \in Bindings
  BY <1>2, LenProperties DEF Typed
<1> QED
  BY <1>2, <1>3 DEF Held, SessionsKept, ProcessesOwned

LEMMA LinesOf ==
  ASSUME NEW S, NEW q \in Seq(S)
  PROVE  /\ Lines(q) \subseteq S
         /\ Lines(<<>>) = {}
         /\ \A e \in S : Lines(Append(q, e)) = Lines(q) \cup {e}
         /\ q # <<>> => /\ Head(q) \in Lines(q) /\ q[1] \in Lines(q)
                        /\ Lines(Tail(q)) \subseteq Lines(q)
<1>1. Len(q) \in Nat /\ \A i \in 1 .. Len(q) : q[i] \in S
  BY LenProperties, ElementOfSeq
<1>2. Lines(q) \subseteq S /\ Lines(<<>>) = {}
  BY <1>1 DEF Lines
<1>3. ASSUME NEW e \in S
      PROVE  Lines(Append(q, e)) = Lines(q) \cup {e}
  <2>1. /\ Len(Append(q, e)) = Len(q) + 1
        /\ \A i \in 1 .. Len(q) : Append(q, e)[i] = q[i]
        /\ Append(q, e)[Len(q) + 1] = e
    BY AppendProperties
  <2>2. 1 .. Len(q) + 1 = (1 .. Len(q)) \cup {Len(q) + 1}
    BY <1>1
  <2> QED
    BY <2>1, <2>2 DEF Lines
<1>4. ASSUME q # <<>>
      PROVE  Head(q) \in Lines(q) /\ q[1] \in Lines(q) /\ Lines(Tail(q)) \subseteq Lines(q)
  <2>1. /\ Head(q) = q[1] /\ 1 \in 1 .. Len(q)
        /\ Len(Tail(q)) = Len(q) - 1
        /\ \A i \in 1 .. Len(q) - 1 : Tail(q)[i] = q[i + 1] /\ i + 1 \in 1 .. Len(q)
    BY <1>1, <1>4, EmptySeq
  <2> QED
    BY <1>1, <2>1 DEF Lines
<1> QED
  BY <1>2, <1>3, <1>4

(* Steps that only let go: no request is sent or answered. *)
LEMMA CallsCarried ==
  ASSUME Typed, Typed', Held, Held', CallInv,
         Len(worker) \in Nat, Len(worker') \in Nat,
         \A v \in 1 .. Len(worker) :
           /\ v \in 1 .. Len(worker')
           /\ worker'[v].process \in {None, worker[v].process}
           /\ worker'[v].next = worker[v].next,
         \A v \in (1 .. Len(worker')) \ (1 .. Len(worker)) : worker'[v] = NewWorker,
         \A p \in 1 .. Len(process) :
           /\ Lines(process'[p].inbox) \subseteq Lines(process[p].inbox)
           /\ Lines(process'[p].out) \subseteq
                Lines(process[p].out) \cup {[id |-> 0, ok |-> FALSE]},
         \A t \in Sessions : session'[t].at = "wait" => session'[t] = session[t]
  PROVE  CallInv'
<1>1. OneWorkerPerProcess /\ Numbered /\ Awaited
  BY DEF CallInv
<1>2. \A v \in 1 .. Len(worker') : worker'[v].process # None =>
        v \in 1 .. Len(worker) /\ worker'[v].process = worker[v].process
  BY DEF NewWorker
<1>3. OneWorkerPerProcess'
  BY <1>1, <1>2 DEF OneWorkerPerProcess
<1>4. Numbered'
  <2> SUFFICES ASSUME NEW w \in 1 .. Len(worker')
               PROVE  /\ worker'[w].next > 0
                      /\ worker'[w].process # None =>
                           \A line \in Piped(worker[w].process)' : line.id < worker'[w].next
    BY <1>2 DEF Numbered
  <2>1. CASE w \notin 1 .. Len(worker)
    BY <1>2, <2>1 DEF NewWorker
  <2>2. CASE w \in 1 .. Len(worker)
    <3>1. worker'[w].next > 0 /\ worker'[w].next = worker[w].next
      BY <1>1, <2>2 DEF Numbered
    <3>2. ASSUME worker'[w].process # None, NEW line \in Piped(worker[w].process)'
          PROVE  line.id < worker'[w].next
      <4>1. PICK p \in 1 .. Len(process) : p = worker[w].process /\ p = worker'[w].process
        BY <1>2, <2>2, <3>2 DEF Held
      <4>2. line \in Piped(p) \/ line = [id |-> 0, ok |-> FALSE]
        BY <1>2, <2>2, <3>2, <4>1 DEF Piped
      <4>3. line \in Piped(p) => line.id < worker[w].next
        BY <1>1, <1>2, <2>2, <3>2, <4>1 DEF Numbered
      <4>4. line = [id |-> 0, ok |-> FALSE] => line.id < worker'[w].next
        BY <3>1
      <4> QED
        BY <3>1, <4>2, <4>3, <4>4
    <3> QED
      BY <3>1, <3>2
  <2> QED
    BY <2>1, <2>2
<1>5. Awaited'
  <2> SUFFICES ASSUME NEW t \in Sessions, session'[t].at = "wait"
               PROVE  /\ session'[t].id < worker'[session'[t].worker].next
                      /\ \A line \in Lines(process'[ProcessOf(t)'].out) :
                           line.ok /\ line.id = session'[t].id => session'[t].executed
    BY DEF Awaited
  <2>1. session'[t] = session[t] /\ session[t].at = "wait"
    OBVIOUS
  <2>2. PICK w \in 1 .. Len(worker) : w = session[t].worker
    BY <2>1 DEF Held, Holding
  <2>3. worker'[w].process # None
    BY <2>1, <2>2 DEF Held, WaitersOwn
  <2>4. worker'[w].process = worker[w].process /\ worker'[w].next = worker[w].next
    BY <2>2, <2>3
  <2>5. PICK p \in 1 .. Len(process) : p = worker[w].process
    BY <2>2, <2>3, <2>4 DEF Held
  <2>6. ProcessOf(t) = p /\ ProcessOf(t)' = p
    BY <2>1, <2>2, <2>4, <2>5 DEF ProcessOf
  <2>7. /\ session[t].id < worker[w].next
        /\ \A line \in Lines(process[p].out) :
             line.ok /\ line.id = session[t].id => session[t].executed
    BY <1>1, <2>1, <2>2, <2>6 DEF Awaited
  <2>8. \A line \in Lines(process'[p].out) :
          line \in Lines(process[p].out) \/ ~line.ok
    OBVIOUS
  <2> QED
    BY <2>1, <2>2, <2>4, <2>6, <2>7, <2>8
<1> QED
  BY <1>3, <1>4, <1>5 DEF CallInv

LEMMA ShutLines ==
  ASSUME Typed, NEW W, NEW p \in 1 .. Len(process)
  PROVE  /\ Lines(Shut(process, W)[p].inbox) \subseteq Lines(process[p].inbox)
         /\ Lines(Shut(process, W)[p].out) \subseteq Lines(process[p].out)
<1>1. DOMAIN process = 1 .. Len(process) /\ process[p] \in ProcessState
  BY ElementOfSeq, LenProperties DEF Typed
<1>2. LET r == [process[p] EXCEPT !.alive = FALSE, !.inbox = <<>>, !.out = <<>>] IN
      r.inbox = <<>> /\ r.out = <<>>
  BY <1>1 DEF ProcessState
<1>3. /\ Shut(process, W)[p].inbox \in {<<>>, process[p].inbox}
      /\ Shut(process, W)[p].out \in {<<>>, process[p].out}
  BY <1>1, <1>2 DEF Shut
<1>4. Lines(<<>>) = {}
  BY EmptySeq, LinesOf
<1> QED
  BY <1>3, <1>4

LEMMA ForgetNext ==
  ASSUME Typed, NEW W, NEW w \in 1 .. Len(worker)
  PROVE  /\ ForgetProcess(W)[w].process \in {None, worker[w].process}
         /\ ForgetProcess(W)[w].next = worker[w].next
<1>1. DOMAIN worker = 1 .. Len(worker) /\ worker[w] \in WorkerState
  BY ElementOfSeq, LenProperties DEF Typed
<1>2. LET r == [worker[w] EXCEPT !.process = None] IN
      r.process = None /\ r.next = worker[w].next
  BY <1>1 DEF WorkerState
<1> QED
  BY <1>1, <1>2 DEF ForgetProcess

LEMMA OpenCalls ==
  ASSUME Typed, Typed', Held, Held', CallInv,
         NEW s \in Sessions, NEW b \in Bindings, NEW switch \in BOOLEAN,
         OpenWorker(s, b, switch)
  PROVE  CallInv'
<1> DEFINE gone == {table[k] : k \in Stale(b, switch)}
<1>1. Len(worker) \in Nat /\ session \in [Sessions -> SessionState]
  BY LenProperties DEF Typed
<1>2. process' = Shut(process, gone)
  BY DEF OpenWorker
<1>3. \A p \in 1 .. Len(process) :
        /\ Lines(process'[p].inbox) \subseteq Lines(process[p].inbox)
        /\ Lines(process'[p].out) \subseteq Lines(process[p].out)
  BY <1>2, ShutLines
<1>4. \/ session' = session
      \/ session' = [session EXCEPT ![s] = [Closed EXCEPT !.at = "connect", !.binding = b,
                       !.worker = Len(worker) + 1, !.result = session[s].result]]
  BY DEF OpenWorker, Use
<1>5. \A t \in Sessions : session'[t].at = "wait" => session'[t] = session[t]
  BY <1>1, <1>4 DEF Closed
<1>6. \/ worker' = ForgetProcess(gone)
      \/ worker' = Append(ForgetProcess(gone), NewWorker)
  BY DEF OpenWorker
<1> DEFINE rest == ForgetProcess(gone)
<1>7. /\ rest \in Seq(WorkerState) /\ Len(rest) = Len(worker)
      /\ \A v \in 1 .. Len(worker) : /\ rest[v].process \in {None, worker[v].process}
                                     /\ rest[v].next = worker[v].next
  BY ForgetKeeps, ForgetNext
<1> HIDE DEF rest, gone
<1>8. NewWorker \in WorkerState
  BY DEF NewWorker, WorkerState
<1>9. /\ Len(worker') \in Nat
      /\ \A v \in 1 .. Len(worker) :
           /\ v \in 1 .. Len(worker')
           /\ worker'[v].process \in {None, worker[v].process}
           /\ worker'[v].next = worker[v].next
      /\ \A v \in (1 .. Len(worker')) \ (1 .. Len(worker)) : worker'[v] = NewWorker
  <2>1. CASE worker' = rest
    BY <1>1, <1>7, <2>1
  <2>2. CASE worker' = Append(rest, NewWorker)
    <3>1. /\ Len(worker') = Len(worker) + 1
          /\ \A v \in 1 .. Len(worker) : worker'[v] = rest[v]
          /\ worker'[Len(worker) + 1] = NewWorker
      BY <1>7, <1>8, <2>2, AppendProperties
    <3>2. \A v \in (1 .. Len(worker')) \ (1 .. Len(worker)) : v = Len(worker) + 1
      BY <1>1, <3>1
    <3> QED
      BY <1>1, <1>7, <3>1, <3>2
  <2> QED
    BY <1>6, <2>1, <2>2 DEF rest
<1> QED
  BY <1>1, <1>3, <1>5, <1>9, CallsCarried

(* Between calls, at the end of a call and when a process dies or prints.  *)
LEMMA QuietCalls ==
  ASSUME Typed, Typed', Held, Held', CallInv,
         \/ UNCHANGED vars
         \/ \E s \in Sessions : \/ Receive(s) \/ TimeOut(s) \/ EndOfFile(s)
                                \/ Leave(s) \/ Drop(s) \/ CloseWorker(s)
                                \/ \E b \in Bindings : Reuse(s, b)
         \/ \E p \in 1 .. Len(process) : Die(p) \/ PrintLine(p)
  PROVE  CallInv'
<1>1. /\ Len(worker) \in Nat /\ Len(process) \in Nat
      /\ \A w \in 1 .. Len(worker) : worker[w] \in WorkerState
      /\ \A p \in 1 .. Len(process) : process[p] \in ProcessState
      /\ session \in [Sessions -> SessionState]
      /\ DOMAIN worker = 1 .. Len(worker) /\ DOMAIN process = 1 .. Len(process)
  BY ElementOfSeq, LenProperties DEF Typed
<1> DEFINE Carried ==
             /\ Len(worker') = Len(worker)
             /\ \A v \in 1 .. Len(worker) :
                  /\ worker'[v].process \in {None, worker[v].process}
                  /\ worker'[v].next = worker[v].next
           Drained(p) ==
             /\ Lines(process'[p].inbox) \subseteq Lines(process[p].inbox)
             /\ Lines(process'[p].out) \subseteq
                  Lines(process[p].out) \cup {[id |-> 0, ok |-> FALSE]}
<1>2. Carried
  <2>1. CASE UNCHANGED worker
    BY <2>1
  <2>2. ASSUME NEW s \in Sessions, Receive(s) \/ TimeOut(s) \/ EndOfFile(s)
        PROVE  Carried
    <3>1. session[s].at = "wait"
      BY <2>2 DEF Receive, TimeOut, EndOfFile
    <3>2. PICK w \in 1 .. Len(worker) : w = session[s].worker
      BY <3>1 DEF Held, Holding
    <3>3. PICK after \in {None, worker[w].process} : Release(s, after)
      BY <2>2, <3>2 DEF Receive, TimeOut, EndOfFile, ProcessOf
    <3>4. PICK e : e = [worker[w] EXCEPT !.owner = None, !.process = after]
      OBVIOUS
    <3>5. e.process = after /\ e.next = worker[w].next /\ worker' = [worker EXCEPT ![w] = e]
      BY <1>1, <3>2, <3>3, <3>4 DEF WorkerState, Release
    <3>6. e \in WorkerState
      BY <1>1, <3>3, <3>4 DEF WorkerState
    <3> QED
      BY <1>1, <3>3, <3>5, <3>6, ExceptSeq DEF Typed
  <2>3. ASSUME NEW s \in Sessions, CloseWorker(s)
        PROVE  Carried
    <3>1. worker' = ForgetProcess({session[s].worker})
      BY <2>3 DEF CloseWorker
    <3> QED
      BY <3>1, ForgetKeeps, ForgetNext
  <2> QED
    BY <2>1, <2>2, <2>3 DEF vars, Leave, Drop, Reuse, Die, PrintLine
<1>3. \A p \in 1 .. Len(process) : Drained(p)
  <2>1. CASE UNCHANGED process
    BY <2>1
  <2>2. ASSUME NEW W, process' = Shut(process, W)
        PROVE  \A q \in 1 .. Len(process) : Drained(q)
    <3>1. \A q \in 1 .. Len(process) :
            /\ Lines(Shut(process, W)[q].inbox) \subseteq Lines(process[q].inbox)
            /\ Lines(Shut(process, W)[q].out) \subseteq Lines(process[q].out)
      BY ShutLines
    <3> QED
      BY <2>2, <3>1
  <2>3. ASSUME NEW s \in Sessions, Receive(s)
        PROVE  \A q \in 1 .. Len(process) : Drained(q)
    <3>1. PICK p \in 1 .. Len(process) : p = ProcessOf(s)
      BY <2>3 DEF Receive, Held, WaitersOwn, ProcessOf, Holding
    <3>2. PICK e : e = [process[p] EXCEPT !.out = Tail(@)]
      OBVIOUS
    <3>3. process' = [process EXCEPT ![p] = e] /\ process[p].out # <<>>
      BY <2>3, <3>1, <3>2 DEF Receive
    <3>4. /\ process[p].inbox \in Seq(Request)
          /\ process[p].out \in Seq([id : Nat, ok : BOOLEAN])
      BY <1>1 DEF ProcessState
    <3>5. Lines(Tail(process[p].out)) \subseteq Lines(process[p].out)
      BY <3>3, <3>4, LinesOf
    <3>6. e.inbox = process[p].inbox /\ e.out = Tail(process[p].out)
      BY <1>1, <3>2 DEF ProcessState
    <3>7. process'[p] = e /\ \A q \in 1 .. Len(process) : q # p => process'[q] = process[q]
      BY <1>1, <3>3
    <3> QED
      BY <3>5, <3>6, <3>7
  <2>4. ASSUME NEW p \in 1 .. Len(process), Die(p)
        PROVE  \A q \in 1 .. Len(process) : Drained(q)
    <3>1. PICK e : e = [process[p] EXCEPT !.alive = FALSE, !.inbox = <<>>]
      OBVIOUS
    <3>2. process' = [process EXCEPT ![p] = e]
      BY <2>4, <3>1 DEF Die
    <3>3. e.inbox = <<>> /\ e.out = process[p].out
      BY <1>1, <3>1 DEF ProcessState
    <3>4. Lines(<<>>) = {}
      BY EmptySeq, LinesOf
    <3>5. process'[p] = e /\ \A q \in 1 .. Len(process) : q # p => process'[q] = process[q]
      BY <1>1, <3>2
    <3> QED
      BY <3>3, <3>4, <3>5
  <2>5. ASSUME NEW p \in 1 .. Len(process), PrintLine(p)
        PROVE  \A q \in 1 .. Len(process) : Drained(q)
    <3>0. PICK S : S = [id : Nat, ok : BOOLEAN]
      OBVIOUS
    <3>1. PICK printed \in S : printed = [id |-> 0, ok |-> FALSE]
      BY <3>0
    <3>2. PICK e : e = [process[p] EXCEPT !.out = Append(@, printed)]
      OBVIOUS
    <3>3. process' = [process EXCEPT ![p] = e]
      BY <2>5, <3>1, <3>2 DEF PrintLine
    <3>4. e.inbox = process[p].inbox /\ e.out = Append(process[p].out, printed)
      BY <1>1, <3>2 DEF ProcessState
    <3>5. process[p].out \in Seq(S)
      BY <1>1, <3>0 DEF ProcessState
    <3>6. Lines(Append(process[p].out, printed)) = Lines(process[p].out) \cup {printed}
      BY <3>5, LinesOf
    <3>7. process'[p] = e /\ \A q \in 1 .. Len(process) : q # p => process'[q] = process[q]
      BY <1>1, <3>3
    <3> QED
      BY <3>1, <3>4, <3>6, <3>7
  <2> QED
    BY <2>1, <2>2, <2>3, <2>4, <2>5
       DEF vars, TimeOut, EndOfFile, Leave, Drop, CloseWorker, Reuse
<1>4. \A t \in Sessions : session'[t].at = "wait" => session'[t] = session[t]
  <2>1. CASE UNCHANGED session
    BY <2>1
  <2>2. ASSUME NEW s \in Sessions, NEW e, session' = [session EXCEPT ![s] = e], e.at # "wait"
        PROVE  \A t \in Sessions : session'[t].at = "wait" => session'[t] = session[t]
    BY <1>1, <2>2
  <2>3. ASSUME NEW s \in Sessions, NEW result, Settle(s, result)
        PROVE  \A t \in Sessions : session'[t].at = "wait" => session'[t] = session[t]
    <3>1. PICK e : e = [session[s] EXCEPT !.result = result,
                          !.at = IF result = "ok" \/ session[s].what = "order" THEN "open"
                                 ELSE "drop"]
      OBVIOUS
    <3>2. e.at # "wait" /\ session' = [session EXCEPT ![s] = e]
      BY <1>1, <2>3, <3>1 DEF Settle, SessionState
    <3> QED
      BY <2>2, <3>2
  <2>4. ASSUME NEW s \in Sessions, Drop(s)
        PROVE  \A t \in Sessions : session'[t].at = "wait" => session'[t] = session[t]
    <3>1. PICK e : e = [session[s] EXCEPT
            !.at = IF table[session[s].binding] = None THEN "closed" ELSE "close",
            !.worker = table[session[s].binding],
            !.binding = IF table[session[s].binding] = None THEN None ELSE @]
      OBVIOUS
    <3>2. e.at # "wait" /\ session' = [session EXCEPT ![s] = e]
      BY <1>1, <2>4, <3>1 DEF Drop, SessionState
    <3> QED
      BY <2>2, <3>2
  <2>5. ASSUME NEW s \in Sessions,
               Leave(s) \/ CloseWorker(s) \/ \E b \in Bindings : Reuse(s, b)
        PROVE  \A t \in Sessions : session'[t].at = "wait" => session'[t] = session[t]
    <3>1. CASE Leave(s) \/ CloseWorker(s)
      <4>1. PICK e : e = [Closed EXCEPT !.result = session[s].result]
        OBVIOUS
      <4>2. e.at # "wait" /\ session' = [session EXCEPT ![s] = e]
        BY <3>1, <4>1 DEF Leave, CloseWorker, Closed
      <4> QED
        BY <2>2, <4>2
    <3>2. ASSUME NEW b \in Bindings, Reuse(s, b)
          PROVE  \A t \in Sessions : session'[t].at = "wait" => session'[t] = session[t]
      <4>1. PICK e : e = [Closed EXCEPT !.at = "connect", !.binding = b, !.worker = table[b],
                                        !.result = session[s].result]
        OBVIOUS
      <4>2. e.at # "wait" /\ session' = [session EXCEPT ![s] = e]
        BY <3>2, <4>1 DEF Reuse, Use, Closed
      <4> QED
        BY <2>2, <4>2
    <3> QED
      BY <2>5, <3>1, <3>2
  <2> QED
    BY <2>1, <2>3, <2>4, <2>5 DEF vars, Receive, TimeOut, EndOfFile, Die, PrintLine
<1> QED
  BY <1>1, <1>2, <1>3, <1>4, CallsCarried

(* A request takes the next number of its worker, and a process nobody     *)
(* else has: no line in the pipe can answer it yet.                        *)
LEMMA SendCalls ==
  ASSUME Typed, Typed', Held, Held', CallInv, NEW s \in Sessions,
         session[s].at \in {"connect", "open"}, NEW what \in {"connect", "order"},
         Send(s, what)
  PROVE  CallInv'
<1>1. OneWorkerPerProcess /\ Numbered /\ Awaited
  BY DEF CallInv
<1>2. /\ Len(worker) \in Nat /\ Len(process) \in Nat
      /\ \A w \in 1 .. Len(worker) : worker[w] \in WorkerState
      /\ \A p \in 1 .. Len(process) : process[p] \in ProcessState
      /\ session \in [Sessions -> SessionState]
      /\ process \in Seq(ProcessState) /\ worker \in Seq(WorkerState)
  BY ElementOfSeq, LenProperties DEF Typed
<1>3. PICK w \in 1 .. Len(worker) : w = session[s].worker
  BY DEF Held, Holding
<1>4. PICK old : old = worker[w].process
  OBVIOUS
<1>5. PICK running \in BOOLEAN : running = (old # None /\ process[old].alive)
  OBVIOUS
<1>6. PICK q : q = IF running THEN old ELSE Len(process) + 1
  OBVIOUS
<1>7. PICK n \in Nat : n = worker[w].next
  BY <1>2 DEF WorkerState
<1>8. PICK request : request = [id |-> n, what |-> what, binding |-> session[s].binding]
  OBVIOUS
<1>9. PICK base : base = IF running THEN process ELSE Append(process, NewProcess)
  OBVIOUS
<1>10. /\ worker' = [worker EXCEPT ![w] = [process |-> q, owner |-> s, next |-> n + 1]]
       /\ process' = [base EXCEPT ![q].inbox = Append(@, request)]
       /\ session' = [session EXCEPT ![s].at = "wait", ![s].id = n, ![s].what = what,
                                     ![s].executed = FALSE, ![s].result = "none"]
       /\ worker[w].owner = None
  BY <1>3, <1>4, <1>5, <1>6, <1>7, <1>8, <1>9 DEF Send, Free
<1>11. running => old \in 1 .. Len(process)
  BY <1>4, <1>5 DEF Held
<1>12. NewProcess \in ProcessState /\ NewProcess.inbox = <<>> /\ NewProcess.out = <<>>
  BY EmptySeq DEF NewProcess, ProcessState, Paths
<1>13. /\ base \in Seq(ProcessState) /\ q \in 1 .. Len(base) /\ base[q] \in ProcessState
       /\ \A p \in 1 .. Len(process) : p \in 1 .. Len(base) /\ base[p] = process[p]
       /\ ~running => q \notin 1 .. Len(process) /\ base[q] = NewProcess
  <2>1. CASE running
    BY <1>2, <1>6, <1>9, <1>11, <2>1
  <2>2. CASE ~running
    <3>1. /\ base \in Seq(ProcessState) /\ Len(base) = Len(process) + 1
          /\ \A p \in 1 .. Len(process) : base[p] = process[p]
          /\ base[Len(process) + 1] = NewProcess
      BY <1>2, <1>9, <1>12, <2>2, AppendProperties
    <3> QED
      BY <1>2, <1>6, <1>12, <2>2, <3>1, SMTT(30)
  <2> QED
    BY <2>1, <2>2
<1>14. session[s].binding \in Bindings
  BY DEF Held, Holding
<1>15. request \in Request /\ request.id = n
  BY <1>7, <1>8, <1>14 DEF Request
<1>16. /\ \A p \in 1 .. Len(process) : p # q => process'[p] = process[p]
       /\ process'[q].out = base[q].out
       /\ Lines(process'[q].inbox) = Lines(base[q].inbox) \cup {request}
  <2>1. PICK e : e = [base[q] EXCEPT !.inbox = Append(@, request)]
    OBVIOUS
  <2>2. process' = [base EXCEPT ![q] = e]
    BY <1>10, <2>1
  <2>3. base[q].inbox \in Seq(Request)
    BY <1>13 DEF ProcessState
  <2>4. /\ e.out = base[q].out
        /\ e.inbox = Append(base[q].inbox, request)
    BY <1>13, <2>1 DEF ProcessState
  <2>5. e \in ProcessState
    BY <1>13, <1>15, <2>1, <2>3, AppendProperties DEF ProcessState
  <2>6. Lines(e.inbox) = Lines(base[q].inbox) \cup {request}
    BY <1>15, <2>3, <2>4, LinesOf
  <2> QED
    <3>1. /\ process'[q] = e
          /\ \A p \in 1 .. Len(base) : p # q => process'[p] = base[p]
      BY <1>13, <2>2, <2>5, ExceptSeq
    <3> QED
      BY <1>13, <2>4, <2>6, <3>1
<1>17. /\ Len(worker') = Len(worker)
       /\ \A v \in 1 .. Len(worker) : v # w => worker'[v] = worker[v]
       /\ worker'[w].process = q /\ worker'[w].next = n + 1 /\ worker'[w].owner = s
  <2>1. PICK e : e = [process |-> q, owner |-> s, next |-> n + 1]
    OBVIOUS
  <2>2. e \in WorkerState
    <3>1. q \in Nat
      BY <1>13, LenProperties
    <3> QED
      BY <2>1, <3>1 DEF WorkerState
  <2>3. worker' = [worker EXCEPT ![w] = e]
    BY <1>10, <2>1
  <2> QED
    BY <1>2, <2>1, <2>2, <2>3, ExceptSeq
<1>18. /\ \A t \in Sessions : t # s => session'[t] = session[t]
       /\ session'[s].worker = w /\ session'[s].id = n
  <2>1. PICK e : e = [session[s] EXCEPT !.at = "wait", !.id = n, !.what = what,
                                        !.executed = FALSE, !.result = "none"]
    OBVIOUS
  <2>2. e.worker = w /\ e.id = n
    BY <1>2, <1>3, <2>1 DEF SessionState
  <2>3. session' = [session EXCEPT ![s] = e]
    BY <1>2, <1>10, <2>1
  <2> QED
    BY <1>2, <2>2, <2>3
(* The process it writes to was its own or is new. *)
<1>19. \A v \in 1 .. Len(worker) : v # w /\ worker[v].process # None =>
         worker[v].process # q /\ worker[v].process \in 1 .. Len(process)
  <2> SUFFICES ASSUME NEW v \in 1 .. Len(worker), v # w, worker[v].process # None
               PROVE  worker[v].process # q /\ worker[v].process \in 1 .. Len(process)
    OBVIOUS
  <2>1. worker[v].process \in 1 .. Len(process)
    BY DEF Held
  <2>2. running => worker[v].process # q
    BY <1>1, <1>4, <1>6 DEF OneWorkerPerProcess
  <2> QED
    BY <1>13, <2>1, <2>2
<1>20. \A line \in Lines(base[q].inbox) \cup Lines(base[q].out) : line.id < n
  <2>1. CASE running
    <3>1. base[q] = process[old] /\ old = worker[w].process /\ old # None
      BY <1>4, <1>5, <1>6, <1>11, <1>13, <2>1
    <3> QED
      BY <1>1, <1>7, <3>1 DEF Numbered, Piped
  <2>2. CASE ~running
    <3>1. Lines(<<>>) = {}
      BY EmptySeq, LinesOf
    <3> QED
      BY <1>12, <1>13, <2>2, <3>1
  <2> QED
    BY <2>1, <2>2
<1>21. OneWorkerPerProcess'
  BY <1>1, <1>17, <1>19 DEF OneWorkerPerProcess
<1>22. Numbered'
  <2> SUFFICES ASSUME NEW v \in 1 .. Len(worker')
               PROVE  /\ worker'[v].next > 0
                      /\ worker'[v].process # None =>
                           \A line \in Lines(process'[worker'[v].process].inbox)
                                       \cup Lines(process'[worker'[v].process].out) :
                             line.id < worker'[v].next
    BY DEF Numbered, Piped
  <2>1. CASE v # w
    <3>1. worker'[v] = worker[v] /\ v \in 1 .. Len(worker)
      BY <1>17, <2>1
    <3>2. worker[v].process # None => process'[worker[v].process] = process[worker[v].process]
      BY <1>16, <1>19, <2>1, <3>1
    <3> QED
      BY <1>1, <3>1, <3>2 DEF Numbered, Piped
  <2>2. CASE v = w
    <3>1. \A line \in Lines(base[q].inbox) \cup Lines(base[q].out) : line.id \in Nat
      <4>1. base[q].inbox \in Seq(Request) /\ base[q].out \in Seq([id : Nat, ok : BOOLEAN])
        BY <1>13 DEF ProcessState
      <4>2. Lines(base[q].inbox) \subseteq Request
        BY <4>1, LinesOf
      <4>3. PICK S : S = [id : Nat, ok : BOOLEAN]
        OBVIOUS
      <4>4. base[q].out \in Seq(S)
        BY <4>1, <4>3
      <4>5. Lines(base[q].out) \subseteq S
        BY <4>4, LinesOf
      <4> QED
        BY <4>2, <4>3, <4>5 DEF Request
    <3>2. \A line \in Lines(base[q].inbox) \cup Lines(base[q].out) : line.id < n + 1
      BY <1>20, <3>1
    <3>3. request.id < n + 1 /\ n + 1 > 0
      BY <1>15
    <3> QED
      BY <1>16, <1>17, <2>2, <3>2, <3>3
  <2> QED
    BY <2>1, <2>2
<1>23. Awaited'
  <2> SUFFICES ASSUME NEW t \in Sessions, session'[t].at = "wait"
               PROVE  /\ session'[t].id < worker'[session'[t].worker].next
                      /\ \A line \in Lines(process'[ProcessOf(t)'].out) :
                           line.ok /\ line.id = session'[t].id => session'[t].executed
    BY DEF Awaited
  <2>1. CASE t = s
    <3>1. ProcessOf(t)' = q
      BY <1>17, <1>18, <2>1 DEF ProcessOf
    <3>2. \A line \in Lines(base[q].out) : line.id # n
      BY <1>20
    <3> QED
      BY <1>16, <1>17, <1>18, <2>1, <3>1, <3>2
  <2>2. CASE t # s
    <3>1. session'[t] = session[t] /\ session[t].at = "wait"
      BY <1>18, <2>2
    <3>2. PICK v \in 1 .. Len(worker) : v = session[t].worker
      BY <3>1 DEF Held, Holding
    <3>3. worker[v].owner = t /\ worker[v].process # None
      BY <3>1, <3>2 DEF Held, WaitersOwn
    <3>4. v # w
      BY <1>10, <3>3, TerminalsTyped
    <3>5. worker'[v] = worker[v] /\ process'[worker[v].process] = process[worker[v].process]
      BY <1>16, <1>17, <1>19, <3>3, <3>4
    <3>6. ProcessOf(t)' = worker[v].process /\ ProcessOf(t) = worker[v].process
      BY <3>1, <3>2, <3>5 DEF ProcessOf
    <3>7. /\ session[t].id < worker[v].next
          /\ \A line \in Lines(process[worker[v].process].out) :
               line.ok /\ line.id = session[t].id => session[t].executed
      BY <1>1, <3>1, <3>2, <3>6 DEF Awaited
    <3> QED
      BY <3>1, <3>2, <3>5, <3>6, <3>7
  <2> QED
    BY <2>1, <2>2
<1> QED
  BY <1>21, <1>22, <1>23 DEF CallInv

(* Who can be waiting for an answer of p: the owner of the one worker that *)
(* has p.                                                                  *)
LEMMA OneWaiter ==
  ASSUME Typed, Held, CallInv, NEW p \in 1 .. Len(process), NEW id,
         NEW s \in Waiting(p, id), NEW t \in Waiting(p, id)
  PROVE  s = t
<1>1. /\ s \in Sessions /\ session[s].at = "wait" /\ ProcessOf(s) = p
      /\ t \in Sessions /\ session[t].at = "wait" /\ ProcessOf(t) = p
  BY DEF Waiting
<1>2. /\ session[s].worker \in 1 .. Len(worker) /\ session[t].worker \in 1 .. Len(worker)
      /\ worker[session[s].worker].owner = s /\ worker[session[t].worker].owner = t
      /\ worker[session[s].worker].process # None
  BY <1>1 DEF Held, WaitersOwn, Holding
<1> QED
  BY <1>1, <1>2 DEF CallInv, OneWorkerPerProcess, ProcessOf

(* The answer has the number of a request in the pipe, and executes the    *)
(* call it answers.                                                        *)
LEMMA AnswerCalls ==
  ASSUME Typed, Held, CallInv, NEW p \in 1 .. Len(process), process[p].inbox # <<>>,
         NEW ok \in BOOLEAN, NEW path, NEW told, Answer(p, ok, path, told),
         UNCHANGED worker
  PROVE  /\ CallInv'
         /\ \E id : \A t \in Sessions :
              /\ session'[t].at = session[t].at
              /\ session'[t].result = session[t].result
              /\ session'[t].executed = (session[t].executed \/ t \in Waiting(p, id))
<1>1. OneWorkerPerProcess /\ Numbered /\ Awaited
  BY DEF CallInv
<1>2. /\ \A w \in 1 .. Len(worker) : worker[w] \in WorkerState
      /\ process[p] \in ProcessState /\ DOMAIN process = 1 .. Len(process)
      /\ session \in [Sessions -> SessionState]
  BY ElementOfSeq, LenProperties DEF Typed
<1>3. /\ process[p].inbox \in Seq(Request) /\ process[p].inbox[1] \in Request
      /\ process[p].inbox[1] \in Lines(process[p].inbox)
      /\ Lines(Tail(process[p].inbox)) \subseteq Lines(process[p].inbox)
  <2>1. process[p].inbox \in Seq(Request)
    BY <1>2 DEF ProcessState
  <2>2. /\ process[p].inbox[1] \in Lines(process[p].inbox)
        /\ Lines(Tail(process[p].inbox)) \subseteq Lines(process[p].inbox)
        /\ Lines(process[p].inbox) \subseteq Request
    BY <2>1, LinesOf
  <2> QED
    BY <2>1, <2>2
<1>4. PICK id \in Nat : id = process[p].inbox[1].id
  BY <1>3 DEF Request
<1>5. PICK S : S = [id : Nat, ok : BOOLEAN]
  OBVIOUS
<1>6. PICK reply \in S : reply = [id |-> id, ok |-> ok]
  BY <1>5
<1>7. PICK e : e = [process[p] EXCEPT !.inbox = Tail(@), !.path = path, !.told = told,
                                      !.out = Append(@, reply)]
  OBVIOUS
<1>8. process' = [process EXCEPT ![p] = e]
  BY <1>4, <1>6, <1>7 DEF Answer
<1>9. e.inbox = Tail(process[p].inbox) /\ e.out = Append(process[p].out, reply)
  BY <1>2, <1>7 DEF ProcessState
<1>10. Lines(e.out) = Lines(process[p].out) \cup {reply}
  <2>1. process[p].out \in Seq(S)
    BY <1>2, <1>5 DEF ProcessState
  <2> QED
    BY <1>9, <2>1, LinesOf
<1>11. process'[p] = e /\ \A q \in 1 .. Len(process) : q # p => process'[q] = process[q]
  BY <1>2, <1>8
<1>12. \A q \in 1 .. Len(process) :
         /\ \A line \in Lines(process'[q].inbox) \cup Lines(process'[q].out) :
              line \in Piped(q) \/ (q = p /\ line = reply)
         /\ \A line \in Lines(process'[q].out) :
              line \in Lines(process[q].out) \/ (q = p /\ line = reply)
  BY <1>3, <1>9, <1>10, <1>11 DEF Piped
<1>13. \A t \in Sessions :
         /\ session'[t].at = session[t].at
         /\ session'[t].result = session[t].result
         /\ session'[t].worker = session[t].worker /\ session'[t].id = session[t].id
         /\ session'[t].executed = (session[t].executed \/ t \in Waiting(p, id))
  <2> SUFFICES ASSUME NEW t \in Sessions
               PROVE  /\ session'[t].at = session[t].at
                      /\ session'[t].result = session[t].result
                      /\ session'[t].worker = session[t].worker
                      /\ session'[t].id = session[t].id
                      /\ session'[t].executed = (session[t].executed \/ t \in Waiting(p, id))
    OBVIOUS
  <2>1. PICK x : x = (session[t].executed \/ t \in Waiting(p, id))
    OBVIOUS
  <2>2. session'[t] = [session[t] EXCEPT !.executed = x]
    BY <1>4, <2>1 DEF Answer
  <2>3. session[t] \in SessionState
    BY <1>2
  <2>4. /\ session'[t].at = session[t].at
        /\ session'[t].result = session[t].result
        /\ session'[t].worker = session[t].worker
        /\ session'[t].id = session[t].id
        /\ session'[t].executed = x
    BY <2>2, <2>3 DEF SessionState
  <2> QED
    BY <2>1, <2>4
<1>14. \A t \in Sessions : ProcessOf(t)' = ProcessOf(t)
  BY <1>13 DEF ProcessOf
<1>15. OneWorkerPerProcess'
  BY <1>1 DEF OneWorkerPerProcess
<1>16. Numbered'
  <2> SUFFICES ASSUME NEW w \in 1 .. Len(worker)
               PROVE  /\ worker[w].next > 0
                      /\ worker[w].process # None =>
                           \A line \in Lines(process'[worker[w].process].inbox)
                                       \cup Lines(process'[worker[w].process].out) :
                             line.id < worker[w].next
    BY DEF Numbered, Piped
  <2>1. worker[w].next > 0
    BY <1>1 DEF Numbered
  <2>2. ASSUME worker[w].process # None,
               NEW line \in Lines(process'[worker[w].process].inbox)
                            \cup Lines(process'[worker[w].process].out)
        PROVE  line.id < worker[w].next
    <3>1. PICK q \in 1 .. Len(process) : q = worker[w].process
      BY <2>2 DEF Held
    <3>2. \A old \in Piped(q) : old.id < worker[w].next
      BY <1>1, <2>2, <3>1 DEF Numbered
    <3>3. q = p => reply.id < worker[w].next
      BY <1>3, <1>4, <1>6, <3>2 DEF Piped
    <3> QED
      BY <1>12, <2>2, <3>1, <3>2, <3>3
  <2> QED
    BY <2>1, <2>2
<1>17. Awaited'
  <2> SUFFICES ASSUME NEW t \in Sessions, session'[t].at = "wait"
               PROVE  /\ session'[t].id < worker'[session'[t].worker].next
                      /\ \A line \in Lines(process'[ProcessOf(t)'].out) :
                           line.ok /\ line.id = session'[t].id => session'[t].executed
    BY DEF Awaited
  <2>1. session[t].at = "wait"
    BY <1>13
  <2>2. PICK q \in 1 .. Len(process) : q = ProcessOf(t)
    BY <2>1 DEF Held, WaitersOwn, ProcessOf, Holding
  <2>3. /\ session[t].id < worker[session[t].worker].next
        /\ \A line \in Lines(process[q].out) :
             line.ok /\ line.id = session[t].id => session[t].executed
    BY <1>1, <2>1, <2>2 DEF Awaited
  <2>4. q = p /\ id = session[t].id => t \in Waiting(p, id)
    BY <2>1, <2>2 DEF Waiting
  <2>5. ASSUME NEW line \in Lines(process'[q].out), line.ok, line.id = session[t].id
        PROVE  session'[t].executed
    <3>1. CASE line \in Lines(process[q].out)
      BY <1>13, <2>3, <2>5, <3>1
    <3>2. CASE q = p /\ line = reply
      BY <1>6, <1>13, <2>4, <2>5, <3>2
    <3> QED
      BY <1>12, <2>5, <3>1, <3>2
  <2> QED
    BY <1>13, <1>14, <2>2, <2>3, <2>5
<1> QED
  BY <1>13, <1>15, <1>16, <1>17 DEF CallInv

LEMMA StepCalls == IInv /\ CallInv /\ [Next]_vars => CallInv'
<1> SUFFICES ASSUME IInv, CallInv, [Next]_vars PROVE CallInv'
  OBVIOUS
<1>1. Typed /\ Held
  BY IInvHeld
<1>2. Typed' /\ Held'
  <2>1. IInv'
    BY StepKept
  <2> QED
    BY <2>1, IInvHeld, PTL
<1>3. ASSUME NEW s \in Sessions, Open(s)
      PROVE  CallInv'
  BY <1>1, <1>2, <1>3, OpenCalls, QuietCalls DEF Open
<1>4. ASSUME NEW s \in Sessions, Continue(s) \/ PlaceOrder(s)
      PROVE  CallInv'
  <2>1. CASE Connect(s) \/ PlaceOrder(s)
    <3>1. PICK what \in {"connect", "order"} :
            session[s].at \in {"connect", "open"} /\ Send(s, what)
      BY <2>1 DEF Connect, PlaceOrder
    <3> QED
      BY <1>1, <1>2, <3>1, SendCalls
  <2>2. CASE ~(Connect(s) \/ PlaceOrder(s))
    BY <1>1, <1>2, <1>4, <2>2, QuietCalls DEF Continue
  <2> QED
    BY <2>1, <2>2
<1>5. ASSUME NEW p \in DOMAIN process, Serve(p) \/ Die(p) \/ PrintLine(p)
      PROVE  CallInv'
  <2>1. p \in 1 .. Len(process) /\ process[p] \in ProcessState
    BY <1>1, LenProperties, ElementOfSeq DEF Typed
  <2>2. CASE Serve(p)
    <3>1. PICK ok \in BOOLEAN :
            \E path, told :
              process[p].inbox # <<>> /\ Answer(p, ok, path, told) /\ UNCHANGED worker
      BY <2>2 DEF Serve, ServeConnect, ServeOrder
    <3>2. PICK path, told :
            process[p].inbox # <<>> /\ Answer(p, ok, path, told) /\ UNCHANGED worker
      BY <3>1
    <3> QED
      BY <1>1, <2>1, <3>2, AnswerCalls
  <2>3. CASE Die(p) \/ PrintLine(p)
    BY <1>1, <1>2, <2>1, <2>3, QuietCalls
  <2> QED
    BY <1>5, <2>2, <2>3
<1>6. CASE UNCHANGED vars
  BY <1>1, <1>2, <1>6, QuietCalls
<1> QED
  BY <1>3, <1>4, <1>5, <1>6 DEF Next

LEMMA InitCalls == Init => CallInv
BY DEF Init, CallInv, OneWorkerPerProcess, Numbered, Awaited, Closed

(* The mapping.  No step changes a session's call but its own sending, the *)
(* execution of its request and the end of the call.                       *)
PhaseOf == [s \in Sessions |-> IF session[s].at # "wait" THEN "idle"
                               ELSE IF session[s].executed THEN "executed" ELSE "called"]
ResultOf == [s \in Sessions |-> session[s].result]

LEMMA OtherSteps ==
  ASSUME \A t \in Sessions :
           /\ session'[t].result = session[t].result
           /\ (session'[t].at = "wait") = (session[t].at = "wait")
           /\ session[t].at = "wait" => session'[t].executed = session[t].executed
  PROVE  UNCHANGED <<PhaseOf, ResultOf>>
BY DEF PhaseOf, ResultOf

LEMMA OwnStep ==
  ASSUME NEW s \in Sessions, NEW phase, NEW result,
         \A t \in Sessions : t # s => session'[t] = session[t],
         session'[s].result = result,
         phase = IF session'[s].at # "wait" THEN "idle"
                 ELSE IF session'[s].executed THEN "executed" ELSE "called"
  PROVE  /\ PhaseOf' = [PhaseOf EXCEPT ![s] = phase]
         /\ ResultOf' = [ResultOf EXCEPT ![s] = result]
<1>1. \A t \in Sessions : PhaseOf'[t] = [PhaseOf EXCEPT ![s] = phase][t]
  BY DEF PhaseOf
<1>2. \A t \in Sessions : ResultOf'[t] = [ResultOf EXCEPT ![s] = result][t]
  BY DEF ResultOf
<1> QED
  BY <1>1, <1>2 DEF PhaseOf, ResultOf

LEMMA RemoteStep ==
  ASSUME IInv, CallInv, [Next]_vars
  PROVE  [Remote!Next]_<<PhaseOf, ResultOf>>
<1> DEFINE Stutters == UNCHANGED <<PhaseOf, ResultOf>>
<1>1. Typed /\ Held
  BY IInvHeld
<1>2. session \in [Sessions -> SessionState]
  BY <1>1 DEF Typed
<1>3. ASSUME NEW s \in Sessions, NEW e, session' = [session EXCEPT ![s] = e],
             e.at # "wait", e.result = session[s].result, session[s].at # "wait"
      PROVE  Stutters
  BY <1>2, <1>3, OtherSteps
<1>4. ASSUME UNCHANGED session
      PROVE  Stutters
  BY <1>4, OtherSteps
<1>5. ASSUME NEW s \in Sessions, Open(s)
      PROVE  Stutters
  <2>1. CASE UNCHANGED session
    BY <1>4, <2>1
  <2>2. ASSUME NEW b \in Bindings, NEW w, session[s].at = "closed", Use(s, b, w)
        PROVE  Stutters
    <3>1. PICK e : e = [Closed EXCEPT !.at = "connect", !.binding = b, !.worker = w,
                                      !.result = session[s].result]
      OBVIOUS
    <3>2. /\ e.at # "wait" /\ e.result = session[s].result
          /\ session' = [session EXCEPT ![s] = e]
      BY <2>2, <3>1 DEF Use, Closed
    <3> QED
      BY <1>3, <2>2, <3>2
  <2> QED
    BY <1>5, <2>1, <2>2 DEF Open, Reuse, OpenWorker
<1>6. ASSUME NEW s \in Sessions, Leave(s) \/ Drop(s) \/ CloseWorker(s)
      PROVE  Stutters
  <2>1. session[s] \in SessionState
    BY <1>2
  <2>2. CASE Leave(s) \/ CloseWorker(s)
    <3>1. PICK e : e = [Closed EXCEPT !.result = session[s].result]
      OBVIOUS
    <3>2. /\ e.at # "wait" /\ e.result = session[s].result
          /\ session' = [session EXCEPT ![s] = e] /\ session[s].at # "wait"
      BY <2>2, <3>1 DEF Leave, CloseWorker, Closed
    <3> QED
      BY <1>3, <3>2
  <2>3. CASE Drop(s)
    <3>1. PICK e : e = [session[s] EXCEPT
            !.at = IF table[session[s].binding] = None THEN "closed" ELSE "close",
            !.worker = table[session[s].binding],
            !.binding = IF table[session[s].binding] = None THEN None ELSE @]
      OBVIOUS
    <3>2. /\ e.at # "wait" /\ e.result = session[s].result
          /\ session' = [session EXCEPT ![s] = e] /\ session[s].at # "wait"
      BY <2>1, <2>3, <3>1 DEF Drop, SessionState
    <3> QED
      BY <1>3, <3>2
  <2> QED
    BY <1>6, <2>2, <2>3
<1>7. ASSUME NEW s \in Sessions, Connect(s) \/ PlaceOrder(s)
      PROVE  Remote!Call(s)
  <2>1. PICK what : session[s].at # "wait" /\ Send(s, what)
    BY <1>7 DEF Connect, PlaceOrder
  <2>2. PICK e : e = [session[s] EXCEPT !.at = "wait",
                        !.id = worker[session[s].worker].next, !.what = what,
                        !.executed = FALSE, !.result = "none"]
    OBVIOUS
  <2>3. session' = [session EXCEPT ![s] = e]
    BY <1>2, <2>1, <2>2 DEF Send
  <2>4. e.at = "wait" /\ e.executed = FALSE /\ e.result = "none"
    BY <1>2, <2>2 DEF SessionState
  <2>5. /\ PhaseOf' = [PhaseOf EXCEPT ![s] = "called"]
        /\ ResultOf' = [ResultOf EXCEPT ![s] = "none"]
    BY <1>2, <2>3, <2>4, OwnStep
  <2>6. PhaseOf[s] = "idle"
    BY <2>1 DEF PhaseOf
  <2> QED
    BY <2>5, <2>6 DEF Remote!Call, PhaseOf, ResultOf
(* The end of a call returns what was executed, or raises.                 *)
<1>8. ASSUME NEW s \in Sessions, Receive(s) \/ TimeOut(s) \/ EndOfFile(s)
      PROVE  Remote!Return(s) \/ Remote!Raise(s)
  <2>1. session[s].at = "wait" /\ PhaseOf[s] \in {"called", "executed"}
    BY <1>8 DEF Receive, TimeOut, EndOfFile, PhaseOf
  <2>2. ASSUME NEW result \in {"ok", "failed"}, Settle(s, result)
        PROVE  /\ PhaseOf' = [PhaseOf EXCEPT ![s] = "idle"]
               /\ ResultOf' = [ResultOf EXCEPT ![s] = result]
    <3>1. PICK at \in {"open", "drop"} :
            at = IF result = "ok" \/ session[s].what = "order" THEN "open" ELSE "drop"
      OBVIOUS
    <3>2. PICK e : e = [session[s] EXCEPT !.result = result, !.at = at]
      OBVIOUS
    <3>3. session' = [session EXCEPT ![s] = e]
      BY <1>2, <2>2, <3>1, <3>2 DEF Settle
    <3>4. e.at # "wait" /\ e.result = result
      BY <1>2, <3>2 DEF SessionState
    <3> QED
      BY <1>2, <3>3, <3>4, OwnStep
  <2>3. CASE Settle(s, "failed")
    <3>1. /\ PhaseOf' = [PhaseOf EXCEPT ![s] = "idle"]
          /\ ResultOf' = [ResultOf EXCEPT ![s] = "failed"]
      BY <2>2, <2>3
    <3> QED
      BY <2>1, <3>1 DEF Remote!Raise, PhaseOf, ResultOf
  <2>4. CASE Receive(s) /\ Settle(s, "ok")
    <3>1. PICK p \in 1 .. Len(process) : p = ProcessOf(s)
      BY <1>1, <2>1 DEF Held, WaitersOwn, ProcessOf, Holding
    <3>2. process[p].out # <<>>
      BY <2>4, <3>1 DEF Receive
    <3>3. Head(process[p].out) \in Lines(process[p].out)
      <4>1. PICK S : S = [id : Nat, ok : BOOLEAN]
        OBVIOUS
      <4>2. process[p] \in ProcessState
        BY <1>1, ElementOfSeq DEF Typed
      <4>3. process[p].out \in Seq(S)
        BY <4>1, <4>2 DEF ProcessState
      <4> QED
        BY <3>2, <4>3, LinesOf
    <3>4. PICK line : line = Head(process[p].out)
      OBVIOUS
    <3>5. line.id = session[s].id /\ line.ok
      <4>1. session'[s].result = "ok"
        BY <1>2, <2>4 DEF Settle, SessionState
      <4>2. Settle(s, IF line.id = session[s].id /\ line.ok THEN "ok" ELSE "failed")
        BY <2>4, <3>1, <3>4 DEF Receive
      <4>3. ~(line.id = session[s].id /\ line.ok) => session'[s].result = "failed"
        BY <1>2, <4>2 DEF Settle, SessionState
      <4> QED
        BY <4>1, <4>3
    <3>6. session[s].executed
      BY <2>1, <3>1, <3>3, <3>4, <3>5 DEF CallInv, Awaited
    <3>7. PhaseOf[s] = "executed"
      BY <2>1, <3>6 DEF PhaseOf
    <3>8. /\ PhaseOf' = [PhaseOf EXCEPT ![s] = "idle"]
          /\ ResultOf' = [ResultOf EXCEPT ![s] = "ok"]
      BY <2>2, <2>4
    <3> QED
      BY <3>7, <3>8 DEF Remote!Return, PhaseOf, ResultOf
  <2> QED
    BY <1>8, <2>3, <2>4 DEF Receive, TimeOut, EndOfFile
(* An answer executes the call of the one session that waits for it.       *)
<1>9. ASSUME NEW p \in DOMAIN process, Serve(p)
      PROVE  Stutters \/ \E t \in Sessions : Remote!Execute(t)
  <2>1. p \in 1 .. Len(process)
    BY <1>1, LenProperties DEF Typed
  <2>2. PICK ok \in BOOLEAN :
          \E path, told :
            process[p].inbox # <<>> /\ Answer(p, ok, path, told) /\ UNCHANGED worker
    BY <1>9 DEF Serve, ServeConnect, ServeOrder
  <2> PICK path, told :
        process[p].inbox # <<>> /\ Answer(p, ok, path, told) /\ UNCHANGED worker
    BY <2>2
  <2>3. PICK id : \A t \in Sessions :
          /\ session'[t].at = session[t].at
          /\ session'[t].result = session[t].result
          /\ session'[t].executed = (session[t].executed \/ t \in Waiting(p, id))
    BY <1>1, <2>1, <2>2, AnswerCalls
  <2>4. CASE \A t \in Waiting(p, id) : session[t].executed
    <3>1. \A t \in Sessions : session[t].executed \in BOOLEAN
      BY <1>2 DEF SessionState
    <3>2. \A t \in Sessions : session'[t].executed = session[t].executed
      BY <2>3, <2>4, <3>1
    <3> QED
      BY <2>3, <3>2, OtherSteps
  <2>5. ASSUME NEW s \in Waiting(p, id), ~session[s].executed
        PROVE  Remote!Execute(s) /\ s \in Sessions
    <3>1. s \in Sessions /\ session[s].at = "wait"
      BY <2>5 DEF Waiting
    <3>2. \A t \in Sessions : t # s => t \notin Waiting(p, id)
      BY <1>1, <2>1, <2>5, OneWaiter
    <3>3. \A t \in Sessions : session[t].executed \in BOOLEAN
      BY <1>2 DEF SessionState
    <3>4. \A t \in Sessions : t # s => session'[t].executed = session[t].executed
      BY <2>3, <3>2, <3>3
    <3>5. session'[s].executed
      BY <2>3, <2>5, <3>1
    <3>6. \A t \in Sessions : PhaseOf'[t] = [PhaseOf EXCEPT ![s] = "executed"][t]
      BY <2>3, <3>1, <3>4, <3>5 DEF PhaseOf
    <3>7. PhaseOf' = [PhaseOf EXCEPT ![s] = "executed"] /\ ResultOf' = ResultOf
      BY <2>3, <3>6 DEF PhaseOf, ResultOf
    <3>8. PhaseOf[s] = "called"
      BY <2>5, <3>1 DEF PhaseOf
    <3> QED
      BY <3>1, <3>7, <3>8 DEF Remote!Execute, PhaseOf, ResultOf
  <2> QED
    BY <2>4, <2>5
<1>10. CASE Next
  BY <1>4, <1>5, <1>6, <1>7, <1>8, <1>9, <1>10
     DEF Next, Continue, Die, PrintLine, Remote!Next
<1>11. CASE UNCHANGED vars
  BY <1>4, <1>11 DEF vars
<1> QED
  BY <1>10, <1>11

(* A session's call is executed for its own request before it returns, and *)
(* nothing is executed for a call that is over: the workers, their pipes   *)
(* and processes, with every timeout, death and stray line, implement      *)
(* RemoteCalls.                                                            *)
THEOREM WorkersImplementCalls == Spec => ImplementsRemoteCalls
<1>1. Init => IInv /\ CallInv
  BY InitKept, InitCalls
<1>2. IInv /\ CallInv /\ [Next]_vars => IInv' /\ CallInv'
  BY StepKept, StepCalls
<1>3. Init => Remote!Init
  BY DEF Init, Remote!Init, Closed
<1>4. IInv /\ CallInv /\ [Next]_vars => [Remote!Next]_<<PhaseOf, ResultOf>>
  BY RemoteStep
<1> QED
  BY <1>1, <1>2, <1>3, <1>4, PTL
     DEF Spec, ImplementsRemoteCalls, Remote!Spec, PhaseOf, ResultOf
===============================================================================
