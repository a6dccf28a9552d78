------------------------------ MODULE Mt5Workers ------------------------------
(***************************************************************************)
(* The real MT5 backend: the manager's table of workers, one for each      *)
(* binding of a login to a terminal; the worker's lock, its subprocess and *)
(* the pipes between them; and the sessions that use a worker they were    *)
(* handed, for a connect_account and the calls after it.                   *)
(***************************************************************************)
EXTENDS Naturals, FiniteSets, Sequences

CONSTANTS
  Sessions,        (* threads that open account sessions                   *)
  Bindings,        (* _TerminalBinding: login, server, path of an account  *)
  Default,         (* the terminal initialize() finds without a path       *)
  MaxWorkers,      (* bound: worker objects                                *)
  MaxProcesses,    (* bound: subprocesses                                  *)
  MaxCalls,        (* bound: calls of one worker                           *)
  MaxFaults,       (* bound: failed connects, processes that die, lines on *)
                   (* stdout that are no answer                            *)
  None

ASSUME WorkersAssumption ==
  /\ \A b \in Bindings : DOMAIN b = {"login", "server", "path"} /\ b.login # None
  /\ Bindings # {}
  /\ None \notin Sessions \cup {Default} \cup Nat
  /\ {MaxWorkers, MaxProcesses, MaxCalls, MaxFaults} \subseteq Nat

Terminals == ({b.path : b \in Bindings} \cup {Default}) \ {None}
Workers == 1 .. MaxWorkers
Processes == 1 .. MaxProcesses

VARIABLES
  table,    (* _worker_backends: worker by binding                         *)
  worker,   (* the worker objects created so far                           *)
  process,  (* the subprocesses started so far                             *)
  login,    (* which login a terminal is at                                *)
  session,  (* what each session is doing                                  *)
  orders,   (* history: orders executed                                    *)
  faults

vars == <<table, worker, process, login, session, orders, faults>>

NewWorker == [process |-> None, owner |-> None, next |-> 1]
NewProcess == [alive |-> TRUE, path |-> None, told |-> FALSE, inbox |-> <<>>, out |-> <<>>]
Closed == [at |-> "closed", binding |-> None, worker |-> None, id |-> 0,
           what |-> "none", executed |-> FALSE, result |-> "none"]

Faulty == faults < MaxFaults /\ faults' = faults + 1

Tabled == {b \in Bindings : table[b] # None}

Free(w) == worker[w].owner = None

(***************************************************************************)
(* The manager: _worker_backend_for.                                       *)
(***************************************************************************)

(* Workers an authorised or renamed account replaces. *)
Stale(b, switch) ==
  {k \in Tabled \ {b} : /\ k.path = b.path
                        /\ k.login = b.login \/ (switch /\ b.path # None)}

(* Mutant: only the login is compared.                                     *)
ConflictsByLogin(b, kept) ==
  \E k \in kept : k.login = b.login /\ k.server = b.server /\ k.path # b.path

(* _validate_worker_binding, against the entries that are left. *)
Conflicts(b, kept) ==
  \E k \in kept :
    \/ k.login = b.login /\ k.server = b.server /\ k.path # b.path
    \/ k.login # b.login /\ k.path = b.path /\ b.path # None

(* A closed worker's subprocess is shut down and terminated. *)
Shut(procs, W) ==
  [p \in DOMAIN procs |->
     IF \E w \in W : worker[w].process = p
     THEN [procs[p] EXCEPT !.alive = FALSE, !.inbox = <<>>, !.out = <<>>]
     ELSE procs[p]]

ForgetProcess(W) ==
  [w \in DOMAIN worker |-> IF w \in W THEN [worker[w] EXCEPT !.process = None] ELSE worker[w]]

Use(s, b, w) ==
  session' = [session EXCEPT ![s] = [Closed EXCEPT !.at = "connect", !.binding = b,
                                        !.worker = w, !.result = session[s].result]]

Reuse(s, b) ==
  /\ session[s].at = "closed"
  /\ table[b] # None
  /\ Use(s, b, table[b])
  /\ UNCHANGED <<table, worker, process, login, orders, faults>>

(* The manager's lock is held while a replaced worker is closed, which     *)
(* waits for the call it is in.  A conflict raises after the closing.      *)
OpenWorker(s, b, switch) ==
  LET stale == Stale(b, switch)
      gone == {table[k] : k \in stale}
      kept == [k \in Bindings |-> IF k \in stale THEN None ELSE table[k]]
      w == Len(worker) + 1
  IN
  /\ session[s].at = "closed"
  /\ table[b] = None
  /\ \A v \in gone : Free(v)
  /\ process' = Shut(process, gone)
  /\ IF Conflicts(b, Tabled \ stale)
     THEN /\ table' = kept
          /\ worker' = ForgetProcess(gone)
          /\ UNCHANGED session
     ELSE /\ w \in Workers
          /\ table' = [kept EXCEPT ![b] = w]
          /\ worker' = Append(ForgetProcess(gone), NewWorker)
          /\ Use(s, b, w)
  /\ UNCHANGED <<login, orders, faults>>

(***************************************************************************)
(* A call: Mt5WorkerProcessBackend._call_locked.                           *)
(***************************************************************************)

(* A worker whose process is gone starts another, without connecting it.   *)
Send(s, what) ==
  LET w == session[s].worker
      old == worker[w].process
      running == old # None /\ process[old].alive
      p == IF running THEN old ELSE Len(process) + 1
      request == [id |-> worker[w].next, what |-> what, binding |-> session[s].binding]
  IN
  /\ Free(w)
  /\ worker[w].next <= MaxCalls
  /\ p \in Processes
  /\ worker' = [worker EXCEPT ![w] = [process |-> p, owner |-> s, next |-> @.next + 1]]
  /\ process' = [(IF running THEN process ELSE Append(process, NewProcess))
                   EXCEPT ![p].inbox = Append(@, request)]
  /\ session' = [session EXCEPT ![s].at = "wait", ![s].id = worker[w].next,
                                ![s].what = what, ![s].executed = FALSE,
                                ![s].result = "none"]
  /\ UNCHANGED <<table, login, orders, faults>>

Connect(s) == session[s].at = "connect" /\ Send(s, "connect")
PlaceOrder(s) == session[s].at = "open" /\ Send(s, "order")

(* A failed connect_account drops the worker, any other call just raises.  *)
Settle(s, result) ==
  session' = [session EXCEPT ![s].result = result,
                ![s].at = IF result = "ok" \/ session[s].what = "order" THEN "open"
                          ELSE "drop"]

ProcessOf(s) == worker[session[s].worker].process
Release(s, p) ==
  worker' = [worker EXCEPT ![session[s].worker].owner = None,
                           ![session[s].worker].process = p]

(* Mutant: the answer's id is not compared with the request's. *)
ReceiveUnchecked(s) ==
  LET p == ProcessOf(s) IN
  /\ session[s].at = "wait"
  /\ process[p].out # <<>>
  /\ process' = [process EXCEPT ![p].out = Tail(@)]
  /\ Settle(s, IF Head(process[p].out).ok THEN "ok" ELSE "failed")
  /\ Release(s, p)
  /\ UNCHANGED <<table, login, orders, faults>>

(* A line that is no answer, or not the answer to this request, raises; it *)
(* leaves the process and the lines behind it as they are.                 *)
Receive(s) ==
  LET p == ProcessOf(s)
      line == Head(process[p].out)
  IN
  /\ session[s].at = "wait"
  /\ process[p].out # <<>>
  /\ process' = [process EXCEPT ![p].out = Tail(@)]
  /\ Settle(s, IF line.id = session[s].id /\ line.ok THEN "ok" ELSE "failed")
  /\ Release(s, p)
  /\ UNCHANGED <<table, login, orders, faults>>

(* Half a minute without a line: the process is killed. *)
TimeOut(s) ==
  /\ session[s].at = "wait"
  /\ process[ProcessOf(s)].alive
  /\ process[ProcessOf(s)].out = <<>>
  /\ process' = Shut(process, {session[s].worker})
  /\ Settle(s, "failed")
  /\ Release(s, None)
  /\ UNCHANGED <<table, login, orders, faults>>

(* Mutant: the lock is not released when the call raises.                  *)
EndOfFileLocked(s) ==
  /\ session[s].at = "wait"
  /\ ~process[ProcessOf(s)].alive
  /\ process[ProcessOf(s)].out = <<>>
  /\ Settle(s, "failed")
  /\ UNCHANGED <<table, worker, process, login, orders, faults>>

(* The process ended without an answer. *)
EndOfFile(s) ==
  /\ session[s].at = "wait"
  /\ ~process[ProcessOf(s)].alive
  /\ process[ProcessOf(s)].out = <<>>
  /\ Settle(s, "failed")
  /\ Release(s, None)
  /\ UNCHANGED <<table, process, login, orders, faults>>

Leave(s) ==
  /\ session[s].at = "open"
  /\ session' = [session EXCEPT ![s] = [Closed EXCEPT !.result = session[s].result]]
  /\ UNCHANGED <<table, worker, process, login, orders, faults>>

(* _drop_worker_backend takes the binding's worker from the table, be it   *)
(* the one that failed or not, and closes it when its call is over.        *)
Drop(s) ==
  LET b == session[s].binding IN
  /\ session[s].at = "drop"
  /\ table' = [table EXCEPT ![b] = None]
  /\ session' = [session EXCEPT ![s].at = IF table[b] = None THEN "closed" ELSE "close",
                                ![s].worker = table[b],
                                ![s].binding = IF table[b] = None THEN None ELSE @]
  /\ UNCHANGED <<worker, process, login, orders, faults>>

CloseWorker(s) ==
  LET w == session[s].worker IN
  /\ session[s].at = "close"
  /\ Free(w)
  /\ process' = Shut(process, {w})
  /\ worker' = ForgetProcess({w})
  /\ session' = [session EXCEPT ![s] = [Closed EXCEPT !.result = session[s].result]]
  /\ UNCHANGED <<table, login, orders, faults>>

(***************************************************************************)
(* The subprocess: process_worker.main and RealMt5Backend.                 *)
(***************************************************************************)

Waiting(p, id) ==
  {s \in Sessions : session[s].at = "wait" /\ ProcessOf(s) = p /\ session[s].id = id}

(* _ensure: a process that was not told a path takes the default terminal. *)
Terminal(path) == IF path = None THEN Default ELSE path

Answer(p, ok, path, told) ==
  LET id == process[p].inbox[1].id IN
  /\ process' = [process EXCEPT ![p].inbox = Tail(@), ![p].path = path,
                                ![p].told = told, ![p].out = Append(@, [id |-> id, ok |-> ok])]
  /\ session' = [s \in Sessions |->
                   [session[s] EXCEPT !.executed = @ \/ s \in Waiting(p, id)]]

(* Mutant: the terminal is initialised without its path.                   *)
ServeConnectDefault(p) ==
  LET b == process[p].inbox[1].binding IN
  /\ process[p].inbox # <<>>
  /\ process[p].inbox[1].what = "connect"
  /\ login' = [login EXCEPT ![Default] = b.login]
  /\ Answer(p, TRUE, Default, TRUE)
  /\ UNCHANGED <<table, worker, orders, faults>>

(* connect_account attaches the path it is given and logs the terminal in. *)
ServeConnect(p) ==
  LET b == process[p].inbox[1].binding
      path == IF b.path = None THEN process[p].path ELSE b.path
  IN
  /\ process[p].inbox # <<>>
  /\ process[p].inbox[1].what = "connect"
  /\ \/ /\ login' = [login EXCEPT ![Terminal(path)] = b.login]
        /\ Answer(p, TRUE, Terminal(path), TRUE)
        /\ UNCHANGED faults
     \/ Faulty /\ Answer(p, FALSE, path, process[p].told) /\ UNCHANGED login
  /\ UNCHANGED <<table, worker, orders>>

(* place_order sends to whatever login the terminal is at. *)
ServeOrder(p) ==
  LET b == process[p].inbox[1].binding
      terminal == Terminal(process[p].path)
      at == login[terminal]
  IN
  /\ process[p].inbox # <<>>
  /\ process[p].inbox[1].what = "order"
  /\ orders' = IF at = None THEN orders
               ELSE orders \cup {[binding |-> b, at |-> at, told |-> process[p].told]}
  /\ Answer(p, at # None, terminal, process[p].told)
  /\ UNCHANGED <<table, worker, login, faults>>

Die(p) ==
  /\ process[p].alive
  /\ Faulty
  /\ process' = [process EXCEPT ![p].alive = FALSE, ![p].inbox = <<>>]
  /\ UNCHANGED <<table, worker, login, session, orders>>

(* A line on stdout that is not an answer. *)
PrintLine(p) ==
  /\ process[p].alive
  /\ Faulty
  /\ process' = [process EXCEPT ![p].out = Append(@, [id |-> 0, ok |-> FALSE])]
  /\ UNCHANGED <<table, worker, login, session, orders>>

Init ==
  /\ table = [b \in Bindings |-> None]
  /\ worker = <<>>
  /\ process = <<>>
  /\ login = [t \in Terminals |-> None]
  /\ session = [s \in Sessions |-> Closed]
  /\ orders = {}
  /\ faults = 0

Open(s) ==
  \E b \in Bindings : Reuse(s, b) \/ \E switch \in BOOLEAN : OpenWorker(s, b, switch)

(* What a session does once it has begun. *)
Continue(s) ==
  \/ Connect(s) \/ Receive(s) \/ TimeOut(s) \/ EndOfFile(s)
  \/ Drop(s) \/ CloseWorker(s) \/ Leave(s)

Serve(p) == ServeConnect(p) \/ ServeOrder(p)

Next ==
  \/ \E s \in Sessions : Open(s) \/ Continue(s) \/ PlaceOrder(s)
  \/ \E p \in DOMAIN process : Serve(p) \/ Die(p) \/ PrintLine(p)

(* A session goes on: when a process does not answer, by its timeout.      *)
Spec ==
  /\ Init
  /\ [][Next]_vars
  /\ \A s \in Sessions : SF_vars(Continue(s))

(***************************************************************************)
(* Properties.                                                             *)
(***************************************************************************)

(* No two workers of the table share a terminal folder, whichever were     *)
(* evicted, dropped or refused on the way (_validate_worker_binding).      *)
TerminalsExclusive ==
  \A k, m \in Tabled : k # m /\ k.path # None => k.path # m.path

(* An order executed by a process that was connected, on a terminal no     *)
(* other account uses, is executed at its own login.                       *)
ConnectedOrdersReachTheirAccount ==
  \A e \in orders :
    /\ e.told
    /\ \A k \in Bindings :
         Terminal(k.path) = Terminal(e.binding.path) => k.login = e.binding.login
    => e.at = e.binding.login

(* A call that returns has been executed for this very request, whatever   *)
(* timed out, died or was printed before it (the ids of _call_locked).     *)
Remote == INSTANCE RemoteCalls WITH
  phase <- [s \in Sessions |-> IF session[s].at # "wait" THEN "idle"
                              ELSE IF session[s].executed THEN "executed" ELSE "called"],
  result <- [s \in Sessions |-> session[s].result]

ImplementsRemoteCalls == Remote!Spec

(* No call, drop or close leaves a session waiting for ever, neither for   *)
(* an answer nor for another session's lock (_WORKER_TIMEOUT_S).           *)
SessionsEnd ==
  \A s \in Sessions :
    session[s].at \in {"wait", "drop", "close"} ~> session[s].at \in {"open", "closed"}

(* What the documentation promises: each account has one worker, logged in *)
(* at one terminal, so that an order is executed at its own login.         *)
OrdersReachTheirAccount == \A e \in orders : e.at = e.binding.login
===============================================================================
