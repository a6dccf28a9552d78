----------------------- MODULE ContractControl_proofs -----------------------
(***************************************************************************)
(* Proofs about the subscriptions of the NT_AddOn, for every set of        *)
(* contracts, every number of connections and every backlog.               *)
(***************************************************************************)
EXTENDS ContractControl, TLAPS, SequenceTheorems, FiniteSetTheorems

Posted == {"attach", "detach"}

(* What is posted to a dispatcher alternates between attach and detach. *)
Alternates(q) == \A i \in 1 .. Len(q) - 1 : q[i] # q[i + 1]

(* The posted calls start with what the number of handlers asks for and    *)
(* end with what the subscriptions ask for.                                *)
InStep(q, n, subscribed) ==
  /\ Alternates(q)
  /\ IF Len(q) = 0 THEN n = 1 <=> subscribed
     ELSE /\ q[1] = "attach" <=> n = 0
          /\ q[Len(q)] = "attach" <=> subscribed

IInv ==
  /\ dispatcher \in [Contracts -> Seq(Posted)]
  /\ handlers \in [Contracts -> {0, 1}]
  /\ \A c \in Contracts : InStep(dispatcher[c], handlers[c], c \in subscriptions)

-----------------------------------------------------------------------------

(* Posting the call that the new subscription state asks for keeps step. *)
LEMMA PostKeepsStep ==
  ASSUME NEW q \in Seq(Posted), NEW n \in {0, 1}, NEW old \in BOOLEAN,
         InStep(q, n, old)
  PROVE  InStep(Append(q, IF old THEN "detach" ELSE "attach"), n, ~old)
<1> DEFINE x == IF old THEN "detach" ELSE "attach"
           r == Append(q, x)
<1>0. x \in Posted
  BY DEF Posted
<1>1. /\ Len(q) \in Nat /\ Len(r) = Len(q) + 1
      /\ \A i \in 1 .. Len(q) : r[i] = q[i]
      /\ r[Len(r)] = x
  <2> HIDE DEF x
  <2> QED
    BY <1>0, AppendProperties, LenProperties
<1>2. CASE Len(q) = 0
  <2>1. r[1] = x /\ Len(r) = 1
    BY <1>1, <1>2
  <2> QED
    BY <1>1, <1>2, <2>1 DEF InStep, Alternates
<1>3. CASE Len(q) # 0
  <2>1. Len(q) >= 1 /\ r[1] = q[1]
    BY <1>1, <1>3
  <2>2. q[Len(q)] # x
    BY <1>3, <2>1 DEF InStep
  <2>3. ASSUME NEW i \in 1 .. Len(r) - 1 PROVE r[i] # r[i + 1]
    <3>1. CASE i = Len(q)
      BY <1>1, <2>1, <2>2, <3>1
    <3>2. CASE i # Len(q)
      <4>1. i \in 1 .. Len(q) - 1 /\ i + 1 \in 1 .. Len(q) /\ i \in 1 .. Len(q)
        BY <1>1, <2>1, <3>2
      <4> QED
        BY <1>1, <4>1 DEF InStep, Alternates
    <3> QED
      BY <3>1, <3>2
  <2>4. r[1] = "attach" <=> n = 0
    BY <1>3, <2>1 DEF InStep
  <2>5. r[Len(r)] = "attach" <=> ~old
    BY <1>1
  <2> QED
    BY <1>1, <2>3, <2>4, <2>5 DEF InStep, Alternates
<1> QED
  BY <1>2, <1>3

(* Running the first posted call keeps step. *)
LEMMA RunKeepsStep ==
  ASSUME NEW q \in Seq(Posted), NEW n \in {0, 1}, NEW subscribed \in BOOLEAN,
         q # <<>>, InStep(q, n, subscribed),
         NEW m, m = IF Head(q) = "attach" THEN n + 1 ELSE n - 1
  PROVE  m \in {0, 1} /\ InStep(Tail(q), m, subscribed)
<1> DEFINE r == Tail(q)
<1>1. /\ Len(q) \in Nat /\ Len(q) >= 1 /\ Head(q) = q[1]
      /\ Len(r) = Len(q) - 1
      /\ \A i \in 1 .. Len(r) : r[i] = q[i + 1]
  BY HeadTailProperties, EmptySeq, LenProperties
<1>2. \A i \in 1 .. Len(q) : q[i] \in Posted
  OBVIOUS
<1>3. /\ q[1] = "attach" => n = 0 /\ m = 1
      /\ q[1] = "detach" => n = 1 /\ m = 0
      /\ q[1] \in Posted
  BY <1>1, <1>2 DEF InStep, Posted
<1>4. CASE Len(q) = 1
  <2>1. Len(r) = 0
    BY <1>1, <1>4
  <2>2. q[1] = "attach" <=> subscribed
    BY <1>4 DEF InStep
  <2>3. m \in {0, 1} /\ (m = 1 <=> subscribed)
    BY <1>3, <2>2 DEF Posted
  <2>4. Alternates(r)
    <3> SUFFICES ASSUME NEW i \in 1 .. Len(r) - 1 PROVE r[i] # r[i + 1]
      BY DEF Alternates
    <3>1. 1 .. Len(r) - 1 = {}
      <4>1. 1 .. 0 - 1 = {}
        OBVIOUS
      <4> HIDE DEF r
      <4> QED
        BY <2>1, <4>1, Zenon
    <3> QED
      BY <3>1
  <2> QED
    BY <2>1, <2>3, <2>4 DEF InStep
<1>5. CASE Len(q) # 1
  <2>1. Len(q) >= 2 /\ Len(r) # 0 /\ r[1] = q[2] /\ r[Len(r)] = q[Len(q)]
    BY <1>1, <1>5
  <2>2. q[1] # q[2] /\ q[2] \in Posted
    BY <1>1, <1>2, <2>1 DEF InStep, Alternates
  <2>3. Alternates(r)
    <3> SUFFICES ASSUME NEW i \in 1 .. Len(r) - 1 PROVE r[i] # r[i + 1]
      BY DEF Alternates
    <3>1. i \in 1 .. Len(r) /\ i + 1 \in 1 .. Len(r) /\ i + 1 \in 1 .. Len(q) - 1
      BY <1>1
    <3> QED
      BY <1>1, <3>1 DEF InStep, Alternates
  <2>4. r[1] = "attach" <=> m = 0
    BY <1>3, <2>1, <2>2 DEF Posted
  <2>5. r[Len(r)] = "attach" <=> subscribed
    BY <1>1, <2>1 DEF InStep
  <2> QED
    BY <1>3, <2>1, <2>3, <2>4, <2>5 DEF InStep, Posted
<1> QED
  BY <1>4, <1>5

-----------------------------------------------------------------------------

LEMMA Initial == Init => IInv
<1> SUFFICES ASSUME Init PROVE IInv
  OBVIOUS
<1>1. \A c \in Contracts :
        /\ dispatcher[c] = IF c \in subscriptions THEN <<"attach">> ELSE <<>>
        /\ handlers[c] = 0
  BY DEF Init
<1>2. dispatcher \in [Contracts -> Seq(Posted)] /\ handlers \in [Contracts -> {0, 1}]
  <2>1. <<"attach">> \in Seq(Posted) /\ <<>> \in Seq(Posted)
    BY DEF Posted
  <2> QED
    BY <2>1 DEF Init
<1>3. ASSUME NEW c \in Contracts
      PROVE InStep(dispatcher[c], handlers[c], c \in subscriptions)
  <2>1. CASE c \in subscriptions
    <3>1. dispatcher[c] = <<"attach">> /\ handlers[c] = 0
      BY <1>1, <2>1
    <3>2. Len(<<"attach">>) = 1 /\ <<"attach">>[1] = "attach" /\ <<"attach">> # <<>>
      OBVIOUS
    <3> QED
      BY <2>1, <3>1, <3>2 DEF InStep, Alternates
  <2>2. CASE c \notin subscriptions
    <3>1. dispatcher[c] = <<>> /\ handlers[c] = 0 /\ Len(<<>>) = 0
      BY <1>1, <2>2
    <3> QED
      BY <2>2, <3>1 DEF InStep, Alternates
  <2> QED
    BY <2>1, <2>2
<1> QED
  BY <1>2, <1>3 DEF IInv

(* A command changes the subscription and the queue of one contract only. *)
LEMMA CommandKeepsStep ==
  ASSUME NEW x, IInv, Subscribe(x) \/ Unsubscribe(x), UNCHANGED handlers
  PROVE  IInv'
<1> DEFINE posted == IF x \in subscriptions THEN "detach" ELSE "attach"
<1>1. CASE UNCHANGED <<subscriptions, dispatcher>>
  BY <1>1 DEF IInv
<1>2. CASE /\ dispatcher' = [dispatcher EXCEPT ![x] = Append(@, posted)]
           /\ \A c \in Contracts \ {x} : c \in subscriptions' <=> c \in subscriptions
           /\ x \in subscriptions' <=> x \notin subscriptions
  <2>0. \A c \in Contracts : Append(dispatcher[c], posted) \in Seq(Posted)
    <3>1. posted \in Posted
      BY DEF Posted
    <3> HIDE DEF posted
    <3> QED
      BY <3>1 DEF IInv
  <2>1. dispatcher' \in [Contracts -> Seq(Posted)]
    <3> HIDE DEF posted
    <3> QED
      BY <1>2, <2>0 DEF IInv
  <2>2. ASSUME NEW c \in Contracts
        PROVE InStep(dispatcher'[c], handlers[c], c \in subscriptions')
    <3>1. CASE c = x
      <4>1. dispatcher'[c] = Append(dispatcher[c], posted)
        BY <1>2, <3>1 DEF IInv
      <4>2. /\ dispatcher[c] \in Seq(Posted) /\ handlers[c] \in {0, 1}
            /\ InStep(dispatcher[c], handlers[c], c \in subscriptions)
        BY DEF IInv
      <4>3. InStep(Append(dispatcher[c], IF c \in subscriptions THEN "detach" ELSE "attach"),
                   handlers[c], ~(c \in subscriptions))
        <5>1. (c \in subscriptions) \in BOOLEAN
          OBVIOUS
        <5> QED
          BY <4>2, <5>1, PostKeepsStep, Zenon
      <4>4. (c \in subscriptions') = ~(c \in subscriptions)
        BY <1>2, <3>1
      <4> QED
        BY <3>1, <4>1, <4>3, <4>4
    <3>2. CASE c # x
      <4>1. dispatcher'[c] = dispatcher[c] /\ (c \in subscriptions') = (c \in subscriptions)
        BY <1>2, <3>2 DEF IInv
      <4> QED
        BY <4>1 DEF IInv
    <3> QED
      BY <3>1, <3>2
  <2> QED
    BY <2>1, <2>2 DEF IInv
<1>3. CASE /\ UNCHANGED dispatcher
           /\ \A c \in Contracts : c \in subscriptions' <=> c \in subscriptions
  <2>1. ASSUME NEW c \in Contracts
        PROVE InStep(dispatcher'[c], handlers'[c], c \in subscriptions')
    <3>1. (c \in subscriptions') = (c \in subscriptions)
      BY <1>3
    <3> QED
      BY <1>3, <3>1 DEF IInv
  <2> QED
    BY <1>3, <2>1 DEF IInv
<1> QED
  BY <1>1, <1>2, <1>3 DEF Subscribe, Unsubscribe, subscriptionVars

LEMMA DispatcherKeepsStep ==
  ASSUME NEW x \in Contracts, IInv, RunDispatcher(x)
  PROVE  IInv'
<1> DEFINE m == IF Head(dispatcher[x]) = "attach" THEN handlers[x] + 1 ELSE handlers[x] - 1
<1>1. /\ dispatcher[x] # <<>> /\ UNCHANGED subscriptions
      /\ dispatcher' = [dispatcher EXCEPT ![x] = Tail(@)]
      /\ handlers' = [handlers EXCEPT ![x] = m]
  BY DEF RunDispatcher, IInv
<1>2. m \in {0, 1} /\ InStep(Tail(dispatcher[x]), m, x \in subscriptions)
  <2>1. /\ dispatcher[x] \in Seq(Posted) /\ handlers[x] \in {0, 1}
        /\ InStep(dispatcher[x], handlers[x], x \in subscriptions)
        /\ (x \in subscriptions) \in BOOLEAN
    BY DEF IInv
  <2>2. m = IF Head(dispatcher[x]) = "attach" THEN handlers[x] + 1 ELSE handlers[x] - 1
    OBVIOUS
  <2> HIDE DEF m
  <2> QED
    BY <1>1, <2>1, <2>2, RunKeepsStep, ZenonT(30)
<1>3. Tail(dispatcher[x]) \in Seq(Posted)
  BY <1>1 DEF IInv
<1> QED
  BY <1>1, <1>2, <1>3 DEF IInv

LEMMA Inductive ==
  ASSUME IInv, [Next]_vars
  PROVE  IInv'
<1>1. CASE OnControlCommand
  BY <1>1, CommandKeepsStep DEF OnControlCommand
<1>2. ASSUME NEW c \in Contracts, RunDispatcher(c) PROVE IInv'
  BY <1>2, DispatcherKeepsStep
<1>3. CASE UNCHANGED <<subscriptionVars, handlers>>
  BY <1>3 DEF IInv, subscriptionVars
<1>4. ASSUME NEW c \in Contracts, OnMarketData(c) \/ SetActiveContract(c)
      PROVE  UNCHANGED <<subscriptionVars, handlers>>
  BY <1>4 DEF OnMarketData, SetActiveContract
<1>5. CASE Connect \/ LoseConnection \/ ReceiveTrade
  BY <1>3, <1>5 DEF Connect, LoseConnection, ReceiveTrade
<1>6. ASSUME NEW c \in Connections, BackendTask(c)
      PROVE  UNCHANGED <<subscriptionVars, handlers>>
  BY <1>6 DEF BackendTask, SendControl, SendControlFails, FinishSync, FinishAnnounce,
              ChartTrade, IgnoreTrade, SwitchChartSource, EndTask
<1>7. CASE UNCHANGED vars
  BY <1>3, <1>7 DEF vars
<1> QED
  BY <1>1, <1>2, <1>3, <1>4, <1>5, <1>6, <1>7 DEF Next, AddOn

LEMMA Strengthens == IInv => HandlersFollowSubscriptions
  BY DEF IInv, InStep, HandlersFollowSubscriptions

(* However far the dispatchers lag behind the receive loop, a contract has *)
(* at most one handler attached, and exactly the subscribed ones have one  *)
(* when the dispatchers have caught up (NinjaTraderContractSubscriber).    *)
THEOREM OneHandlerPerContract == Spec => []HandlersFollowSubscriptions
<1>1. Spec => []IInv
  BY Initial, Inductive, PTL DEF Spec
<1> QED
  BY <1>1, Strengthens, PTL

(* Unless the AddOn is started with a manual override, which is subscribed *)
(* past the SubscriptionManager, the manager and the subscriber agree.     *)
THEOREM ManagerInSync ==
  ASSUME ManualOverride = NoContract
  PROVE  Spec => []ManagerMatchesSubscriber
<1>1. Init => ManagerMatchesSubscriber
  BY DEF Init, ManagerMatchesSubscriber
<1>2. ASSUME ManagerMatchesSubscriber, [Next]_vars
      PROVE  ManagerMatchesSubscriber'
  <2>1. CASE OnControlCommand
    BY <1>2, <2>1 DEF OnControlCommand, Subscribe, Unsubscribe, subscriptionVars,
                      ManagerMatchesSubscriber
  <2>2. CASE UNCHANGED <<active, subscriptions>>
    BY <1>2, <2>2 DEF ManagerMatchesSubscriber
  <2>3. ASSUME NEW c \in Contracts,
               RunDispatcher(c) \/ OnMarketData(c) \/ SetActiveContract(c)
        PROVE  UNCHANGED <<active, subscriptions>>
    BY <2>3 DEF RunDispatcher, OnMarketData, SetActiveContract, subscriptionVars
  <2>4. CASE Connect \/ LoseConnection \/ ReceiveTrade
    BY <2>2, <2>4 DEF Connect, LoseConnection, ReceiveTrade, subscriptionVars
  <2>5. ASSUME NEW c \in Connections, BackendTask(c)
        PROVE  UNCHANGED <<active, subscriptions>>
    BY <2>5 DEF BackendTask, SendControl, SendControlFails, FinishSync, FinishAnnounce,
                ChartTrade, IgnoreTrade, SwitchChartSource, EndTask, subscriptionVars
  <2>6. CASE UNCHANGED vars
    BY <2>2, <2>6 DEF vars, subscriptionVars
  <2> QED
    BY <1>2, <2>1, <2>2, <2>3, <2>4, <2>5, <2>6 DEF Next, AddOn
<1> QED
  BY <1>1, <1>2, PTL DEF Spec

-----------------------------------------------------------------------------
(***************************************************************************)
(* What the AddOn settles on.  The commands that are on their way, applied *)
(* to the subscriptions as they are, bring about what the coordinator of   *)
(* the latest connection aims at; each command that takes a subscription   *)
(* away leaves another one behind.                                         *)
(***************************************************************************)

Commands == [action : {"subscribe", "unsubscribe"}, contract : Contracts]

(* Before the command at i, the stream s makes x a subscribed contract: its *)
(* last command about x subscribes it, or there is none and it is one now. *)
On(s, subs, i, x) ==
  \E j \in 0 .. i - 1 :
    /\ (j = 0 => x \in subs) /\ (j # 0 => s[j] = Command("subscribe", x))
    /\ \A k \in j + 1 .. i - 1 : s[k] # Command("unsubscribe", x)

Off(s, subs, i, x) ==
  \E j \in 0 .. i - 1 :
    /\ (j = 0 => x \notin subs) /\ (j # 0 => s[j] = Command("unsubscribe", x))
    /\ \A k \in j + 1 .. i - 1 : s[k] # Command("subscribe", x)

(* No command of the stream takes the last subscription away. *)
Covered(s, subs) ==
  \A i \in 1 .. Len(s) :
    s[i].action = "unsubscribe" =>
      \E x \in Instruments : x # s[i].contract /\ On(s, subs, i, x)

(* The subscriptions after a command. *)
After(subs, command) ==
  IF command.action = "unsubscribe" THEN subs \ {command.contract}
  ELSE subs \cup ({command.contract} \cap Instruments)

-----------------------------------------------------------------------------

(* The last command about x, or none, decides. *)
LEMMA OnSince ==
  ASSUME NEW s, NEW subs, NEW x, NEW i, NEW j \in 0 .. i - 1,
         (j = 0 => x \in subs) /\ (j # 0 => s[j] = Command("subscribe", x)),
         \A k \in j + 1 .. i - 1 : s[k] # Command("unsubscribe", x)
  PROVE  On(s, subs, i, x)
BY DEF On

LEMMA OffSince ==
  ASSUME NEW s, NEW subs, NEW x, NEW i, NEW j \in 0 .. i - 1,
         (j = 0 => x \notin subs) /\ (j # 0 => s[j] = Command("unsubscribe", x)),
         \A k \in j + 1 .. i - 1 : s[k] # Command("subscribe", x)
  PROVE  Off(s, subs, i, x)
BY DEF Off

(* What is appended does not matter to what came before. *)
LEMMA OnStays ==
  ASSUME NEW s \in Seq(Commands), NEW r \in Seq(Commands), NEW subs, NEW x,
         NEW i \in 1 .. Len(s) + 1, On(s, subs, i, x)
  PROVE  On(s \o r, subs, i, x)
<1>1. /\ Len(s) \in Nat /\ Len(r) \in Nat
      /\ \A k \in 1 .. Len(s) : (s \o r)[k] = s[k]
  BY ConcatProperties, LenProperties
<1>2. PICK j \in 0 .. i - 1 :
        /\ (j = 0 => x \in subs) /\ (j # 0 => s[j] = Command("subscribe", x))
        /\ \A k \in j + 1 .. i - 1 : s[k] # Command("unsubscribe", x)
  BY DEF On
<1>3. \A k \in 1 .. i - 1 : (s \o r)[k] = s[k]
  BY <1>1
<1>4. (j = 0 => x \in subs) /\ (j # 0 => (s \o r)[j] = Command("subscribe", x))
  BY <1>2, <1>3
<1>5. \A k \in j + 1 .. i - 1 : (s \o r)[k] # Command("unsubscribe", x)
  BY <1>2, <1>3
<1> QED
  BY <1>2, <1>4, <1>5, OnSince

(* What follows and does not take x away leaves it subscribed. *)
LEMMA OnGoesOn ==
  ASSUME NEW s \in Seq(Commands), NEW r \in Seq(Commands), NEW subs, NEW x,
         NEW m \in 1 .. Len(r) + 1, On(s, subs, Len(s) + 1, x),
         \A k \in 1 .. m - 1 : r[k] # Command("unsubscribe", x)
  PROVE  On(s \o r, subs, Len(s) + m, x)
<1>1. /\ Len(s) \in Nat /\ Len(r) \in Nat
      /\ \A k \in 1 .. Len(s) + Len(r) :
           (s \o r)[k] = IF k <= Len(s) THEN s[k] ELSE r[k - Len(s)]
  BY ConcatProperties, LenProperties
<1>2. PICK j \in 0 .. Len(s) :
        /\ (j = 0 => x \in subs) /\ (j # 0 => s[j] = Command("subscribe", x))
        /\ \A k \in j + 1 .. Len(s) : s[k] # Command("unsubscribe", x)
  BY <1>1 DEF On
<1>3. j \in 0 .. (Len(s) + m) - 1
  BY <1>1
<1>4. (j = 0 => x \in subs) /\ (j # 0 => (s \o r)[j] = Command("subscribe", x))
  BY <1>1, <1>2
<1>5. ASSUME NEW k \in j + 1 .. (Len(s) + m) - 1
      PROVE  (s \o r)[k] # Command("unsubscribe", x)
  <2>1. CASE k <= Len(s)
    BY <1>1, <1>2, <2>1
  <2>2. CASE k > Len(s)
    <3>1. k - Len(s) \in 1 .. m - 1 /\ (s \o r)[k] = r[k - Len(s)]
      BY <1>1, <2>2
    <3> QED
      BY <3>1
  <2> QED
    BY <1>1, <2>1, <2>2
<1>6. \A k \in j + 1 .. (Len(s) + m) - 1 : (s \o r)[k] # Command("unsubscribe", x)
  BY <1>5
<1> QED
  BY <1>3, <1>4, <1>6, OnSince

(* A subscribe at the head of what is appended makes x a subscribed one. *)
LEMMA OnFromHere ==
  ASSUME NEW s \in Seq(Commands), NEW r \in Seq(Commands), NEW subs, NEW x,
         NEW m \in 2 .. Len(r) + 1, r[1] = Command("subscribe", x),
         \A k \in 2 .. m - 1 : r[k] # Command("unsubscribe", x)
  PROVE  On(s \o r, subs, Len(s) + m, x)
<1>1. /\ Len(s) \in Nat /\ Len(r) \in Nat
      /\ \A k \in 1 .. Len(s) + Len(r) :
           (s \o r)[k] = IF k <= Len(s) THEN s[k] ELSE r[k - Len(s)]
  BY ConcatProperties, LenProperties
<1>2. PICK j \in 0 .. (Len(s) + m) - 1 :
        j = Len(s) + 1 /\ j # 0 /\ (s \o r)[j] = Command("subscribe", x)
  <2>1. /\ Len(s) + 1 \in 0 .. (Len(s) + m) - 1 /\ Len(s) + 1 # 0
        /\ Len(s) + 1 \in 1 .. Len(s) + Len(r)
        /\ ~(Len(s) + 1 <= Len(s)) /\ (Len(s) + 1) - Len(s) = 1
    BY <1>1
  <2> QED
    BY <1>1, <2>1
<1>3. ASSUME NEW k \in j + 1 .. (Len(s) + m) - 1
      PROVE  (s \o r)[k] # Command("unsubscribe", x)
  <2>1. k - Len(s) \in 2 .. m - 1 /\ (s \o r)[k] = r[k - Len(s)]
    BY <1>1, <1>2
  <2> QED
    BY <2>1
<1>4. (j = 0 => x \in subs) /\ (j # 0 => (s \o r)[j] = Command("subscribe", x))
  BY <1>2
<1>5. \A k \in j + 1 .. (Len(s) + m) - 1 : (s \o r)[k] # Command("unsubscribe", x)
  BY <1>3
<1> QED
  BY <1>2, <1>4, <1>5, OnSince

(* The same for what is not subscribed. *)
LEMMA OffGoesOn ==
  ASSUME NEW s \in Seq(Commands), NEW r \in Seq(Commands), NEW subs, NEW x,
         Off(s, subs, Len(s) + 1, x),
         \A k \in 1 .. Len(r) : r[k] # Command("subscribe", x)
  PROVE  Off(s \o r, subs, Len(s \o r) + 1, x)
<1>1. /\ Len(s) \in Nat /\ Len(r) \in Nat /\ Len(s \o r) = Len(s) + Len(r)
      /\ \A k \in 1 .. Len(s) + Len(r) :
           (s \o r)[k] = IF k <= Len(s) THEN s[k] ELSE r[k - Len(s)]
  BY ConcatProperties, LenProperties
<1>2. PICK j \in 0 .. Len(s) :
        /\ (j = 0 => x \notin subs) /\ (j # 0 => s[j] = Command("unsubscribe", x))
        /\ \A k \in j + 1 .. Len(s) : s[k] # Command("subscribe", x)
  BY <1>1 DEF Off
<1>3. j \in 0 .. (Len(s \o r) + 1) - 1
  BY <1>1
<1>4. (j = 0 => x \notin subs) /\ (j # 0 => (s \o r)[j] = Command("unsubscribe", x))
  BY <1>1, <1>2
<1>5. ASSUME NEW k \in j + 1 .. (Len(s \o r) + 1) - 1
      PROVE  (s \o r)[k] # Command("subscribe", x)
  <2>1. CASE k <= Len(s)
    BY <1>1, <1>2, <2>1
  <2>2. CASE k > Len(s)
    <3>1. k - Len(s) \in 1 .. Len(r) /\ (s \o r)[k] = r[k - Len(s)]
      BY <1>1, <2>2
    <3> QED
      BY <3>1
  <2> QED
    BY <1>1, <2>1, <2>2
<1>6. \A k \in j + 1 .. (Len(s \o r) + 1) - 1 : (s \o r)[k] # Command("subscribe", x)
  BY <1>5
<1> QED
  BY <1>3, <1>4, <1>6, OffSince

LEMMA OffFromHere ==
  ASSUME NEW s \in Seq(Commands), NEW r \in Seq(Commands), NEW subs, NEW x,
         NEW m \in 1 .. Len(r), r[m] = Command("unsubscribe", x),
         \A k \in m + 1 .. Len(r) : r[k] # Command("subscribe", x)
  PROVE  Off(s \o r, subs, Len(s \o r) + 1, x)
<1>1. /\ Len(s) \in Nat /\ Len(r) \in Nat /\ Len(s \o r) = Len(s) + Len(r)
      /\ \A k \in 1 .. Len(s) + Len(r) :
           (s \o r)[k] = IF k <= Len(s) THEN s[k] ELSE r[k - Len(s)]
  BY ConcatProperties, LenProperties
<1>2. PICK j \in 0 .. (Len(s \o r) + 1) - 1 :
        j = Len(s) + m /\ j # 0 /\ (s \o r)[j] = Command("unsubscribe", x)
  <2>1. /\ Len(s) + m \in 0 .. (Len(s \o r) + 1) - 1 /\ Len(s) + m # 0
        /\ Len(s) + m \in 1 .. Len(s) + Len(r)
        /\ ~(Len(s) + m <= Len(s)) /\ (Len(s) + m) - Len(s) = m
    BY <1>1
  <2> QED
    BY <1>1, <2>1
<1>3. ASSUME NEW k \in j + 1 .. (Len(s \o r) + 1) - 1
      PROVE  (s \o r)[k] # Command("subscribe", x)
  <2>1. k - Len(s) \in m + 1 .. Len(r) /\ (s \o r)[k] = r[k - Len(s)]
    BY <1>1, <1>2
  <2> QED
    BY <2>1
<1>4. (j = 0 => x \notin subs) /\ (j # 0 => (s \o r)[j] = Command("unsubscribe", x))
  BY <1>2
<1>5. \A k \in j + 1 .. (Len(s \o r) + 1) - 1 : (s \o r)[k] # Command("subscribe", x)
  BY <1>3
<1> QED
  BY <1>2, <1>4, <1>5, OffSince

(* Appended unsubscribes need a contract of their own to stay behind. *)
LEMMA CoveredGoesOn ==
  ASSUME NEW s \in Seq(Commands), NEW r \in Seq(Commands), NEW subs,
         Covered(s, subs),
         \A m \in 1 .. Len(r) : r[m].action = "unsubscribe" =>
           \E x \in Instruments : x # r[m].contract /\ On(s \o r, subs, Len(s) + m, x)
  PROVE  Covered(s \o r, subs)
<1>1. /\ Len(s) \in Nat /\ Len(r) \in Nat /\ Len(s \o r) = Len(s) + Len(r)
      /\ \A k \in 1 .. Len(s) + Len(r) :
           (s \o r)[k] = IF k <= Len(s) THEN s[k] ELSE r[k - Len(s)]
  BY ConcatProperties, LenProperties
<1>2. SUFFICES ASSUME NEW i \in 1 .. Len(s \o r), (s \o r)[i].action = "unsubscribe"
               PROVE  \E x \in Instruments :
                        x # (s \o r)[i].contract /\ On(s \o r, subs, i, x)
  BY DEF Covered
<1>3. CASE i <= Len(s)
  <2>1. i \in 1 .. Len(s) /\ i \in 1 .. Len(s) + 1 /\ (s \o r)[i] = s[i]
    BY <1>1, <1>3
  <2>2. PICK x \in Instruments : x # s[i].contract /\ On(s, subs, i, x)
    BY <1>2, <2>1 DEF Covered
  <2>3. On(s \o r, subs, i, x)
    BY <2>1, <2>2, OnStays
  <2> QED
    BY <2>1, <2>2, <2>3
<1>4. CASE i > Len(s)
  <2>1. PICK m \in 1 .. Len(r) : i = Len(s) + m
    <3>1. i - Len(s) \in 1 .. Len(r) /\ i = Len(s) + (i - Len(s))
      BY <1>1, <1>4
    <3> QED
      BY <3>1
  <2>2. (s \o r)[i] = r[m]
    BY <1>1, <2>1
  <2> QED
    BY <1>2, <2>1, <2>2
<1> QED
  BY <1>1, <1>3, <1>4

-----------------------------------------------------------------------------

(* The head of the stream is applied. *)
LEMMA OnApplied ==
  ASSUME NEW s \in Seq(Commands), s # <<>>, NEW subs, NEW x \in Instruments,
         NEW i \in 2 .. Len(s) + 1, On(s, subs, i, x)
  PROVE  On(Tail(s), After(subs, Head(s)), i - 1, x)
<1>1. /\ Len(s) \in Nat /\ Len(s) >= 1 /\ Head(s) = s[1] /\ Head(s) \in Commands
      /\ Len(Tail(s)) = Len(s) - 1
      /\ \A k \in 1 .. Len(s) - 1 : Tail(s)[k] = s[k + 1]
  BY HeadTailProperties, EmptySeq, LenProperties
<1>2. PICK j \in 0 .. i - 1 :
        /\ (j = 0 => x \in subs) /\ (j # 0 => s[j] = Command("subscribe", x))
        /\ \A k \in j + 1 .. i - 1 : s[k] # Command("unsubscribe", x)
  BY DEF On
<1>3. ASSUME NEW l \in 0 .. i - 2, NEW k \in l + 1 .. i - 2, k + 1 \in j + 1 .. i - 1
      PROVE  Tail(s)[k] # Command("unsubscribe", x)
  <2>1. Tail(s)[k] = s[k + 1]
    BY <1>1
  <2> QED
    BY <1>2, <1>3, <2>1
<1>4. CASE j <= 1
  <2>1. x \in After(subs, Head(s))
    <3>1. CASE j = 0
      <4>1. s[1] # Command("unsubscribe", x) /\ x \in subs
        BY <1>2, <3>1
      <4>2. Head(s).action = "unsubscribe" => Head(s).contract # x
        BY <1>1, <4>1 DEF Commands, Command
      <4> QED
        BY <4>1, <4>2 DEF After
    <3>2. CASE j = 1
      BY <1>1, <1>2, <3>2 DEF After, Command
    <3> QED
      BY <1>4, <3>1, <3>2
  <2>2. \A k \in 1 .. i - 2 : Tail(s)[k] # Command("unsubscribe", x)
    <3> TAKE k \in 1 .. i - 2
    <3>1. 0 \in 0 .. i - 2 /\ k \in 0 + 1 .. i - 2 /\ k + 1 \in j + 1 .. i - 1
      BY <1>4
    <3> QED
      BY <1>3, <3>1
  <2>3. 0 \in 0 .. (i - 1) - 1 /\ (i - 1) - 1 = i - 2
    OBVIOUS
  <2> QED
    BY <2>1, <2>2, <2>3 DEF On
<1>5. CASE j > 1
  <2>1. j - 1 \in 0 .. (i - 1) - 1 /\ j - 1 # 0 /\ Tail(s)[j - 1] = Command("subscribe", x)
    BY <1>1, <1>2, <1>5
  <2>2. \A k \in (j - 1) + 1 .. (i - 1) - 1 : Tail(s)[k] # Command("unsubscribe", x)
    <3> SUFFICES ASSUME NEW k \in (j - 1) + 1 .. (i - 1) - 1
                 PROVE  Tail(s)[k] # Command("unsubscribe", x)
      OBVIOUS
    <3>1. j - 1 \in 0 .. i - 2 /\ k \in (j - 1) + 1 .. i - 2 /\ k + 1 \in j + 1 .. i - 1
      BY <1>5
    <3> QED
      BY <3>1, <1>3
  <2> QED
    BY <2>1, <2>2 DEF On
<1> QED
  BY <1>4, <1>5

LEMMA OffApplied ==
  ASSUME NEW s \in Seq(Commands), s # <<>>, NEW subs, NEW x,
         NEW i \in 2 .. Len(s) + 1, Off(s, subs, i, x)
  PROVE  Off(Tail(s), After(subs, Head(s)), i - 1, x)
<1>1. /\ Len(s) \in Nat /\ Len(s) >= 1 /\ Head(s) = s[1] /\ Head(s) \in Commands
      /\ Len(Tail(s)) = Len(s) - 1
      /\ \A k \in 1 .. Len(s) - 1 : Tail(s)[k] = s[k + 1]
  BY HeadTailProperties, EmptySeq, LenProperties
<1>2. PICK j \in 0 .. i - 1 :
        /\ (j = 0 => x \notin subs) /\ (j # 0 => s[j] = Command("unsubscribe", x))
        /\ \A k \in j + 1 .. i - 1 : s[k] # Command("subscribe", x)
  BY DEF Off
<1>3. ASSUME NEW l \in 0 .. i - 2, NEW k \in l + 1 .. i - 2, k + 1 \in j + 1 .. i - 1
      PROVE  Tail(s)[k] # Command("subscribe", x)
  <2>1. Tail(s)[k] = s[k + 1]
    BY <1>1
  <2> QED
    BY <1>2, <1>3, <2>1
<1>4. CASE j <= 1
  <2>1. x \notin After(subs, Head(s))
    <3>1. CASE j = 0
      <4>1. s[1] # Command("subscribe", x) /\ x \notin subs
        BY <1>2, <3>1
      <4>2. Head(s).action # "unsubscribe" => Head(s).contract # x
        BY <1>1, <4>1 DEF Commands, Command
      <4> QED
        BY <4>1, <4>2 DEF After
    <3>2. CASE j = 1
      BY <1>1, <1>2, <3>2 DEF After, Command
    <3> QED
      BY <1>4, <3>1, <3>2
  <2>2. \A k \in 1 .. i - 2 : Tail(s)[k] # Command("subscribe", x)
    <3> TAKE k \in 1 .. i - 2
    <3>1. 0 \in 0 .. i - 2 /\ k \in 0 + 1 .. i - 2 /\ k + 1 \in j + 1 .. i - 1
      BY <1>4
    <3> QED
      BY <1>3, <3>1
  <2>3. 0 \in 0 .. (i - 1) - 1 /\ (i - 1) - 1 = i - 2
    OBVIOUS
  <2> QED
    BY <2>1, <2>2, <2>3 DEF Off
<1>5. CASE j > 1
  <2>1. j - 1 \in 0 .. (i - 1) - 1 /\ j - 1 # 0 /\ Tail(s)[j - 1] = Command("unsubscribe", x)
    BY <1>1, <1>2, <1>5
  <2>2. \A k \in (j - 1) + 1 .. (i - 1) - 1 : Tail(s)[k] # Command("subscribe", x)
    <3> SUFFICES ASSUME NEW k \in (j - 1) + 1 .. (i - 1) - 1
                 PROVE  Tail(s)[k] # Command("subscribe", x)
      OBVIOUS
    <3>1. j - 1 \in 0 .. i - 2 /\ k \in (j - 1) + 1 .. i - 2 /\ k + 1 \in j + 1 .. i - 1
      BY <1>5
    <3> QED
      BY <3>1, <1>3
  <2> QED
    BY <2>1, <2>2 DEF Off
<1> QED
  BY <1>4, <1>5

LEMMA CoveredApplied ==
  ASSUME NEW s \in Seq(Commands), s # <<>>, NEW subs, subs # {}, Covered(s, subs)
  PROVE  Covered(Tail(s), After(subs, Head(s))) /\ After(subs, Head(s)) # {}
<1>1. /\ Len(s) \in Nat /\ Len(s) >= 1 /\ Head(s) = s[1] /\ Head(s) \in Commands
      /\ Len(Tail(s)) = Len(s) - 1
      /\ \A k \in 1 .. Len(s) - 1 : Tail(s)[k] = s[k + 1]
  BY HeadTailProperties, EmptySeq, LenProperties
<1>2. After(subs, Head(s)) # {}
  <2>1. CASE Head(s).action = "unsubscribe"
    <3>1. PICK x \in Instruments : x # s[1].contract /\ On(s, subs, 1, x)
      BY <1>1, <2>1 DEF Covered
    <3>2. x \in subs
      BY <3>1 DEF On
    <3> QED
      BY <1>1, <2>1, <3>1, <3>2 DEF After
  <2>2. CASE Head(s).action # "unsubscribe"
    BY <2>2 DEF After
  <2> QED
    BY <2>1, <2>2
<1>3. ASSUME NEW i \in 1 .. Len(Tail(s)), Tail(s)[i].action = "unsubscribe"
      PROVE  \E x \in Instruments :
               x # Tail(s)[i].contract /\ On(Tail(s), After(subs, Head(s)), i, x)
  <2>1. /\ i + 1 \in 1 .. Len(s) /\ Tail(s)[i] = s[i + 1]
        /\ i + 1 \in 2 .. Len(s) + 1 /\ (i + 1) - 1 = i
    BY <1>1
  <2>2. PICK x \in Instruments : x # s[i + 1].contract /\ On(s, subs, i + 1, x)
    BY <1>3, <2>1 DEF Covered
  <2>3. On(Tail(s), After(subs, Head(s)), (i + 1) - 1, x)
    BY <2>1, <2>2, OnApplied
  <2> QED
    BY <2>1, <2>2, <2>3
<1> QED
  BY <1>2, <1>3 DEF Covered

(* SetToSeq lists every element of a finite set, and nothing else. *)
LEMMA ListsTheSet ==
  ASSUME NEW S, IsFiniteSet(S)
  PROVE  /\ SetToSeq(S) \in Seq(S) /\ Len(SetToSeq(S)) = Cardinality(S)
         /\ \A x \in S : \E i \in 1 .. Len(SetToSeq(S)) : SetToSeq(S)[i] = x
<1> DEFINE n == Cardinality(S)
           D == 1 .. n
<1>1. n \in Nat /\ ExistsBijection(D, S)
  BY FS_CardinalityType
<1>2. PICK f \in [D -> S] : IsInjective(f)
  BY <1>1 DEF ExistsBijection, Bijection, Injection
<1>3. SetToSeq(S) \in [D -> S] /\ IsInjective(SetToSeq(S))
  BY <1>2 DEF SetToSeq
<1>4. SetToSeq(S) \in Seq(S) /\ Len(SetToSeq(S)) = n
  BY <1>1, <1>3, SeqDef
<1>5. IsFiniteSet(D) /\ Cardinality(D) = n
  BY <1>1, FS_Interval
<1>6. SetToSeq(S) \in Injection(D, S)
  BY <1>3 DEF Injection
<1>7. SetToSeq(S) \in Surjection(D, S)
  BY <1>5, <1>6, FS_Injection
<1> QED
  BY <1>4, <1>7 DEF Surjection

LEMMA ListOfNone == SetToSeq({}) = <<>>
<1>1. IsFiniteSet({}) /\ Cardinality({}) = 0
  BY FS_EmptySet
<1>2. SetToSeq({}) \in Seq({}) /\ Len(SetToSeq({})) = 0
  BY <1>1, ListsTheSet
<1> QED
  BY <1>2, EmptySeq

LEMMA ListOfOne == \A a : SetToSeq({a}) = <<a>>
<1> TAKE a
<1>1. IsFiniteSet({a}) /\ Cardinality({a}) = 1
  BY FS_Singleton
<1>2. SetToSeq({a}) \in Seq({a}) /\ Len(SetToSeq({a})) = 1
  BY <1>1, ListsTheSet
<1>3. SetToSeq({a})[1] = a
  BY <1>2, ElementOfSeq
<1>4. <<a>> \in Seq({a}) /\ Len(<<a>>) = 1 /\ <<a>>[1] = a
  OBVIOUS
<1> QED
  BY <1>2, <1>3, <1>4, SeqEqual

LEMMA OneAndOne == \A a, b : <<a>> \o <<b>> = <<a, b>>
<1> TAKE a, b
<1>1. /\ <<a>> \in Seq({a, b}) /\ <<b>> \in Seq({a, b}) /\ <<a, b>> \in Seq({a, b})
      /\ Len(<<a>>) = 1 /\ Len(<<b>>) = 1 /\ Len(<<a, b>>) = 2
      /\ <<a>>[1] = a /\ <<b>>[1] = b /\ <<a, b>>[1] = a /\ <<a, b>>[2] = b
  OBVIOUS
<1>2. /\ <<a>> \o <<b>> \in Seq({a, b}) /\ Len(<<a>> \o <<b>>) = 2
      /\ (<<a>> \o <<b>>)[1] = a /\ (<<a>> \o <<b>>)[2] = b
  BY <1>1, ConcatProperties
<1>3. \A i \in 1 .. 2 : (<<a>> \o <<b>>)[i] = <<a, b>>[i]
  BY <1>1, <1>2
<1> QED
  BY <1>1, <1>2, <1>3, SeqEqual

(* The plans of plan_control_commands between sets of one contract. *)
LEMMA PlanOfTheFirst ==
  ASSUME NEW n
  PROVE  PlanControlCommands({}, {n}) = <<Command("subscribe", n)>>
<1>1. {Command("subscribe", c) : c \in {n} \ {}} = {Command("subscribe", n)}
  OBVIOUS
<1>2. {Command("unsubscribe", c) : c \in {} \ {n}} = {}
  OBVIOUS
<1>3. <<Command("subscribe", n)>> \o <<>> = <<Command("subscribe", n)>>
  OBVIOUS
<1> QED
  BY <1>1, <1>2, <1>3, ListOfNone, ListOfOne DEF PlanControlCommands

LEMMA PlanOfTheSame ==
  ASSUME NEW n
  PROVE  PlanControlCommands({n}, {n}) = <<>>
<1>1. {Command("subscribe", c) : c \in {n} \ {n}} = {}
  OBVIOUS
<1>2. {Command("unsubscribe", c) : c \in {n} \ {n}} = {}
  OBVIOUS
<1>3. <<>> \o <<>> = <<>>
  OBVIOUS
<1> QED
  BY <1>1, <1>2, <1>3, ListOfNone, Zenon DEF PlanControlCommands

LEMMA PlanOfAChange ==
  ASSUME NEW p, NEW n, p # n
  PROVE  PlanControlCommands({p}, {n}) =
           <<Command("subscribe", n), Command("unsubscribe", p)>>
<1>1. {Command("subscribe", c) : c \in {n} \ {p}} = {Command("subscribe", n)}
  OBVIOUS
<1>2. {Command("unsubscribe", c) : c \in {p} \ {n}} = {Command("unsubscribe", p)}
  OBVIOUS
<1>3. <<Command("subscribe", n)>> \o <<Command("unsubscribe", p)>>
        = <<Command("subscribe", n), Command("unsubscribe", p)>>
  BY OneAndOne, Zenon
<1>4. /\ SetToSeq({Command("subscribe", n)}) = <<Command("subscribe", n)>>
      /\ SetToSeq({Command("unsubscribe", p)}) = <<Command("unsubscribe", p)>>
  BY ListOfOne
<1>5. PlanControlCommands({p}, {n}) =
        SetToSeq({Command("subscribe", n)}) \o SetToSeq({Command("unsubscribe", p)})
  BY <1>1, <1>2 DEF PlanControlCommands
<1> QED
  BY <1>3, <1>4, <1>5, Zenon

(* The second half of an announcement releases every other candidate. *)
LEMMA ReleaseOfTheOthers ==
  ASSUME NEW o
  PROVE  LET r == SetToSeq({Command("unsubscribe", d) : d \in Candidates \ {o}}) IN
         /\ r \in Seq(Commands)
         /\ \A i \in 1 .. Len(r) : \E d \in Candidates \ {o} : r[i] = Command("unsubscribe", d)
         /\ \A d \in Candidates \ {o} : \E i \in 1 .. Len(r) : r[i] = Command("unsubscribe", d)
<1> DEFINE D == Candidates \ {o}
           S == {Command("unsubscribe", d) : d \in D}
           f == [d \in D |-> Command("unsubscribe", d)]
           r == SetToSeq(S)
<1>1. IsFiniteSet(D)
  BY ControlAssumption, FS_RemoveElement
<1>2. f \in Surjection(D, S)
  BY Zenon DEF Surjection
<1>3. IsFiniteSet(S)
  BY <1>1, <1>2, FS_Surjection
<1>4. /\ r \in Seq(S)
      /\ \A x \in S : \E i \in 1 .. Len(r) : r[i] = x
  BY <1>3, ListsTheSet
<1>5. S \subseteq Commands
  BY ControlAssumption DEF Commands, Command
<1>6. \A i \in 1 .. Len(r) : r[i] \in S
  BY <1>4, ElementOfSeq
<1>7. r \in Seq(Commands)
  BY <1>4, <1>5, SeqMonotonic
<1> HIDE DEF r
<1> QED
  BY <1>4, <1>6, <1>7 DEF r

Tradable == Instruments \cap Contracts
Resolvable == Candidates \cap Instruments

Tasks ==
  [stage : {"none", "announcing", "cleaning", "ready", "recording", "syncing", "closed"},
   trade : Tradable \cup {NoContract}, via : 0 .. MaxConnections,
   needed : SUBSET Contracts, due : Seq(Commands)]

Latest == task[opened]

(* The commands that are still to reach the AddOn. *)
Stream == commands \o Latest.due

(* What the coordinator of the latest connection is bringing about. *)
Goal == IF Latest.stage \in {"announcing", "syncing"} THEN Latest.needed
        ELSE prevNeeded[opened]

(* Only what NinjaTrader resolves is subscribed, traded and shown. *)
Resolved ==
  /\ active = subscriptions /\ subscriptions \subseteq Instruments
  /\ \A c \in Contracts \ Instruments : dispatcher[c] = <<>> /\ handlers[c] = 0
  /\ outbox \in Tradable \cup {NoContract}
  /\ chartSource \in Tradable
  /\ override \in Resolvable
  /\ task \in [Connections -> Tasks]
  /\ \A c \in Connections : task[c].stage = "recording" => task[c].trade \in Tradable
  /\ prevNeeded \in [Connections -> SUBSET Contracts]
  /\ commands \in Seq(Commands)

(* One task is at work, that of the latest connection, through its own     *)
(* coordinator.                                                            *)
Alone ==
  /\ opened \in 0 .. MaxConnections
  /\ link \in {NoConnection, opened} /\ plane \in {NoConnection, opened}
  /\ link = NoConnection => commands = <<>>
  /\ \A c \in Connections :
       /\ c > opened => task[c].stage = "none" /\ prevNeeded[c] = {}
       /\ c < opened => task[c].stage \in {"ready", "closed"}
  /\ opened > 0 =>
       /\ Latest.stage # "none"
       /\ Syncing(opened) => Latest.via = opened
       /\ Latest.stage \in {"ready", "recording"} => Latest.due = <<>>
       /\ link = opened => Latest.stage # "closed"
       /\ Latest.stage # "closed" => plane = opened

Aimed ==
  opened > 0 /\ Latest.stage # "closed" =>
    /\ \E t \in Resolvable : Goal = {t}
    /\ Latest.stage = "announcing" => Goal = {override}

(* The commands on their way bring the goal about, release every other     *)
(* candidate once the announcement does, and never the last subscription.  *)
Brought ==
  link # NoConnection =>
    /\ \A t \in Goal : On(Stream, subscriptions, Len(Stream) + 1, t)
    /\ Latest.stage # "announcing" =>
         \A d \in Candidates \ Goal : Off(Stream, subscriptions, Len(Stream) + 1, d)
    /\ Covered(Stream, subscriptions)

CInv ==
  undisturbed => Resolved /\ Alone /\ Aimed /\ Brought /\ subscriptions # {}

LEMMA NumbersOfConnections ==
  /\ MaxConnections \in Nat \ {0} /\ Connections = 1 .. MaxConnections
  /\ NoConnection = 0 /\ NoContract \notin Contracts
BY ControlAssumption DEF Connections, NoConnection

(* The task of an open connection is the latest one. *)
LEMMA TheLatest ==
  ASSUME Resolved, Alone, opened > 0
  PROVE  /\ opened \in Connections /\ opened # NoConnection /\ Latest \in Tasks
         /\ Latest.due \in Seq(Commands) /\ Stream \in Seq(Commands)
<1>1. opened \in Connections /\ opened # NoConnection
  BY NumbersOfConnections DEF Alone
<1>2. Latest \in Tasks
  BY <1>1 DEF Resolved, Latest
<1>3. Latest.due \in Seq(Commands) /\ commands \in Seq(Commands)
  BY <1>2 DEF Tasks, Resolved
<1> QED
  BY <1>1, <1>2, <1>3, ConcatProperties DEF Stream

LEMMA TheOneAtWork ==
  ASSUME Resolved, Alone, NEW c \in Connections,
         task[c].stage \notin {"none", "ready", "closed"}
  PROVE  c = opened /\ opened > 0 /\ Latest = task[c]
<1>1. c \in Nat /\ c > 0 /\ opened \in Nat
  BY NumbersOfConnections DEF Alone
<1>2. ~(c > opened) /\ ~(c < opened)
  BY DEF Alone
<1> QED
  BY <1>1, <1>2 DEF Latest

(* Steps that concern neither the tasks nor the subscriptions. *)
LEMMA Aside ==
  ASSUME Alone, Aimed, Brought,
         UNCHANGED <<subscriptions, linkVars, plane, prevNeeded, task, override>>
  PROVE  Alone' /\ Aimed' /\ Brought'
<1>1. UNCHANGED <<Latest, Goal, Stream>>
  BY DEF Latest, Goal, Stream, linkVars
<1>2. Alone'
  BY <1>1 DEF Alone, linkVars, Syncing
<1>3. Aimed'
  BY <1>1 DEF Aimed, linkVars
<1>4. Brought'
  BY <1>1 DEF Brought, linkVars
<1> QED
  BY <1>2, <1>3, <1>4

LEMMA DispatcherAside ==
  ASSUME Resolved, Alone, Aimed, Brought, IInv, NEW x \in Contracts, RunDispatcher(x)
  PROVE  Resolved' /\ Alone' /\ Aimed' /\ Brought'
<1>1. Alone' /\ Aimed' /\ Brought'
  BY Aside DEF RunDispatcher, subscriptionVars, sourceVars
<1>2. \A c \in Contracts \ {x} : dispatcher'[c] = dispatcher[c] /\ handlers'[c] = handlers[c]
  BY DEF RunDispatcher, IInv
<1>3. x \in Instruments
  BY DEF RunDispatcher, Resolved
<1>4. Resolved'
  BY <1>2, <1>3 DEF Resolved, RunDispatcher, sourceVars, linkVars
<1> QED
  BY <1>1, <1>4

LEMMA MarketAside ==
  ASSUME Resolved, Alone, Aimed, Brought, NEW x \in Contracts, OnMarketData(x)
  PROVE  Resolved' /\ Alone' /\ Aimed' /\ Brought'
<1>1. Alone' /\ Aimed' /\ Brought'
  BY Aside DEF OnMarketData, subscriptionVars, sourceVars
<1>2. x \in Tradable
  BY DEF OnMarketData, Resolved, Tradable
<1>3. Resolved'
  BY <1>2 DEF Resolved, OnMarketData, subscriptionVars, sourceVars, linkVars
<1> QED
  BY <1>1, <1>3

-----------------------------------------------------------------------------

(* A command leaves the wire, or passes from the task to the wire. *)
LEMMA TailOfConcat ==
  ASSUME NEW s \in Seq(Commands), NEW r \in Seq(Commands), s # <<>>
  PROVE  /\ s \o r # <<>> /\ Head(s \o r) = Head(s) /\ Head(s) \in Commands
         /\ Tail(s) \in Seq(Commands) /\ Tail(s) \o r = Tail(s \o r)
<1>1. /\ Len(s) \in Nat /\ Len(s) >= 1 /\ Len(r) \in Nat
      /\ Head(s) = s[1] /\ Head(s) \in Commands
      /\ Tail(s) \in Seq(Commands) /\ Len(Tail(s)) = Len(s) - 1
      /\ \A k \in 1 .. Len(s) - 1 : Tail(s)[k] = s[k + 1]
  BY HeadTailProperties, EmptySeq, LenProperties
<1>2. /\ s \o r \in Seq(Commands) /\ Len(s \o r) = Len(s) + Len(r)
      /\ \A k \in 1 .. Len(s) + Len(r) :
           (s \o r)[k] = IF k <= Len(s) THEN s[k] ELSE r[k - Len(s)]
  BY ConcatProperties, LenProperties
<1>3. s \o r # <<>>
  BY <1>1, <1>2
<1>4. Head(s \o r) = Head(s)
  <2>1. Head(s \o r) = (s \o r)[1]
    BY <1>2, <1>3
  <2> QED
    BY <1>1, <1>2, <2>1
<1>5. /\ Tail(s \o r) \in Seq(Commands) /\ Len(Tail(s \o r)) = Len(s) + Len(r) - 1
      /\ \A k \in 1 .. Len(s) + Len(r) - 1 : Tail(s \o r)[k] = (s \o r)[k + 1]
  BY <1>2, <1>3, HeadTailProperties
<1>6. /\ Tail(s) \o r \in Seq(Commands) /\ Len(Tail(s) \o r) = Len(s) - 1 + Len(r)
      /\ \A k \in 1 .. Len(s) - 1 + Len(r) :
           (Tail(s) \o r)[k] = IF k <= Len(s) - 1 THEN Tail(s)[k] ELSE r[k - (Len(s) - 1)]
  BY <1>1, ConcatProperties
<1>7. ASSUME NEW k \in 1 .. Len(Tail(s) \o r)
      PROVE  (Tail(s) \o r)[k] = Tail(s \o r)[k]
  <2>1. /\ k \in 1 .. Len(s) - 1 + Len(r) /\ k \in 1 .. Len(s) + Len(r) - 1
        /\ k + 1 \in 1 .. Len(s) + Len(r)
    BY <1>1, <1>6
  <2>2. CASE k <= Len(s) - 1
    BY <1>1, <1>2, <1>5, <1>6, <2>1, <2>2
  <2>3. CASE ~(k <= Len(s) - 1)
    <3>1. k - (Len(s) - 1) = (k + 1) - Len(s) /\ ~(k + 1 <= Len(s))
      BY <1>1, <2>1, <2>3
    <3> QED
      BY <1>2, <1>5, <1>6, <2>1, <2>3, <3>1
  <2> QED
    BY <2>2, <2>3
<1>8. Tail(s) \o r = Tail(s \o r)
  <2>1. Len(Tail(s) \o r) = Len(Tail(s \o r))
    BY <1>1, <1>5, <1>6
  <2> QED
    BY <1>5, <1>6, <1>7, <2>1, SeqEqual
<1> QED
  BY <1>1, <1>3, <1>4, <1>8

LEMMA PassOn ==
  ASSUME NEW s \in Seq(Commands), NEW r \in Seq(Commands), r # <<>>
  PROVE  /\ Append(s, Head(r)) \in Seq(Commands) /\ Tail(r) \in Seq(Commands)
         /\ Append(s, Head(r)) \o Tail(r) = s \o r
<1> DEFINE a == Append(s, Head(r))
<1>1. /\ Len(r) \in Nat /\ Len(r) >= 1 /\ Len(s) \in Nat
      /\ Head(r) = r[1] /\ Head(r) \in Commands
      /\ Tail(r) \in Seq(Commands) /\ Len(Tail(r)) = Len(r) - 1
      /\ \A k \in 1 .. Len(r) - 1 : Tail(r)[k] = r[k + 1]
  BY HeadTailProperties, EmptySeq, LenProperties
<1>2. /\ a \in Seq(Commands) /\ Len(a) = Len(s) + 1
      /\ \A k \in 1 .. Len(s) : a[k] = s[k]
      /\ a[Len(s) + 1] = Head(r)
  BY <1>1, AppendProperties
<1>3. /\ s \o r \in Seq(Commands) /\ Len(s \o r) = Len(s) + Len(r)
      /\ \A k \in 1 .. Len(s) + Len(r) :
           (s \o r)[k] = IF k <= Len(s) THEN s[k] ELSE r[k - Len(s)]
  BY ConcatProperties, LenProperties
<1> HIDE DEF a
<1>4. /\ a \o Tail(r) \in Seq(Commands) /\ Len(a \o Tail(r)) = Len(s) + Len(r)
      /\ \A k \in 1 .. Len(s) + Len(r) :
           (a \o Tail(r))[k] = IF k <= Len(s) + 1 THEN a[k] ELSE Tail(r)[k - (Len(s) + 1)]
  <2>1. /\ a \o Tail(r) \in Seq(Commands) /\ Len(a \o Tail(r)) = Len(a) + Len(Tail(r))
        /\ \A k \in 1 .. Len(a) + Len(Tail(r)) :
             (a \o Tail(r))[k] = IF k <= Len(a) THEN a[k] ELSE Tail(r)[k - Len(a)]
    BY <1>1, <1>2, ConcatProperties
  <2>2. Len(a) + Len(Tail(r)) = Len(s) + Len(r)
    BY <1>1, <1>2
  <2> QED
    BY <1>2, <2>1, <2>2
<1>5. ASSUME NEW k \in 1 .. Len(a \o Tail(r))
      PROVE  (a \o Tail(r))[k] = (s \o r)[k]
  <2>1. k \in 1 .. Len(s) + Len(r)
    BY <1>4
  <2>2. CASE k <= Len(s)
    BY <1>1, <1>2, <1>3, <1>4, <2>1, <2>2
  <2>3. CASE k = Len(s) + 1
    <3>1. k - Len(s) = 1 /\ ~(k <= Len(s)) /\ k <= Len(s) + 1
      BY <1>1, <2>3
    <3> QED
      BY <1>1, <1>2, <1>3, <1>4, <2>1, <2>3, <3>1
  <2>4. CASE k > Len(s) + 1
    <3>1. /\ (k - (Len(s) + 1)) + 1 = k - Len(s) /\ ~(k <= Len(s)) /\ ~(k <= Len(s) + 1)
          /\ k - (Len(s) + 1) \in 1 .. Len(r) - 1
      BY <1>1, <2>1, <2>4
    <3> QED
      BY <1>1, <1>3, <1>4, <2>1, <3>1
  <2> QED
    BY <1>1, <2>1, <2>2, <2>3, <2>4
<1>6. a \o Tail(r) = s \o r
  <2>1. Len(a \o Tail(r)) = Len(s \o r)
    BY <1>1, <1>3, <1>4
  <2> QED
    BY <1>3, <1>4, <1>5, <2>1, SeqEqual
<1> QED
  BY <1>1, <1>2, <1>6 DEF a

(* The receive loop of the AddOn applies the next command. *)
LEMMA CommandApplied ==
  ASSUME Resolved, Alone, Aimed, Brought, subscriptions # {}, IInv, OnControlCommand
  PROVE  Resolved' /\ Alone' /\ Aimed' /\ Brought' /\ subscriptions' # {}
<1> DEFINE h == Head(commands)
<1>1. /\ link # NoConnection /\ link = opened /\ opened > 0
      /\ commands # <<>> /\ commands \in Seq(Commands)
      /\ UNCHANGED <<handlers, outbox, link, opened, plane, prevNeeded, task, sourceVars>>
      /\ commands' = Tail(commands)
      /\ IF h.action = "subscribe" THEN Subscribe(h.contract) ELSE Unsubscribe(h.contract)
  BY NumbersOfConnections DEF OnControlCommand, Alone, Resolved
<1>2. opened \in Connections /\ Latest.due \in Seq(Commands) /\ Stream \in Seq(Commands)
  BY <1>1, TheLatest
<1>3. /\ Stream # <<>> /\ Head(Stream) = h /\ h \in Commands
      /\ Tail(commands) \in Seq(Commands) /\ Stream' = Tail(Stream)
  BY <1>1, <1>2, TailOfConcat DEF Stream, Latest
<1>4. /\ h.contract \in Contracts /\ h.action \in {"subscribe", "unsubscribe"}
      /\ active = subscriptions /\ subscriptions \subseteq Instruments
  BY <1>3 DEF Commands, Resolved
<1>5. subscriptions' = After(subscriptions, h) /\ active' = subscriptions'
  BY <1>1, <1>4 DEF Subscribe, Unsubscribe, After, subscriptionVars
<1>6. /\ subscriptions' \subseteq Instruments
      /\ \A c \in Contracts \ Instruments : dispatcher'[c] = dispatcher[c]
  <2>1. subscriptions' \subseteq Instruments
    BY <1>4, <1>5 DEF After
  <2>2. ASSUME NEW c \in Contracts \ Instruments PROVE dispatcher'[c] = dispatcher[c]
    BY <1>1, <1>4, <2>2 DEF Subscribe, Unsubscribe, subscriptionVars, IInv
  <2> QED
    BY <2>1, <2>2
<1>7. Resolved'
  BY <1>1, <1>3, <1>5, <1>6 DEF Resolved, sourceVars
<1>8. UNCHANGED <<Latest, Goal>>
  BY <1>1 DEF Latest, Goal
<1>9. Alone'
  BY <1>1, <1>8 DEF Alone, Syncing
<1>10. Aimed'
  BY <1>1, <1>8 DEF Aimed, sourceVars
<1>11. Goal \subseteq Instruments
  BY <1>1 DEF Alone, Aimed, Resolvable
<1>12. Covered(Tail(Stream), subscriptions') /\ subscriptions' # {}
  BY <1>1, <1>2, <1>3, <1>5, CoveredApplied DEF Brought
<1>13. /\ Len(Stream) \in Nat /\ Len(Stream) + 1 \in 2 .. Len(Stream) + 1
       /\ (Len(Stream) + 1) - 1 = Len(Tail(Stream)) + 1
  <2>1. Len(Stream) \in Nat /\ Len(Stream) >= 1 /\ Len(Tail(Stream)) = Len(Stream) - 1
    BY <1>2, <1>3, EmptySeq, HeadTailProperties
  <2> QED
    BY <2>1
<1>14. ASSUME NEW t \in Goal
       PROVE  On(Tail(Stream), subscriptions', Len(Tail(Stream)) + 1, t)
  <2>1. On(Stream, subscriptions, Len(Stream) + 1, t) /\ t \in Instruments
    BY <1>1, <1>11 DEF Brought
  <2>2. On(Tail(Stream), After(subscriptions, Head(Stream)), (Len(Stream) + 1) - 1, t)
    BY <1>2, <1>3, <1>13, <2>1, OnApplied
  <2> QED
    BY <1>3, <1>5, <1>13, <2>2
<1>15. ASSUME NEW d, Off(Stream, subscriptions, Len(Stream) + 1, d)
       PROVE  Off(Tail(Stream), subscriptions', Len(Tail(Stream)) + 1, d)
  <2>1. Off(Tail(Stream), After(subscriptions, Head(Stream)), (Len(Stream) + 1) - 1, d)
    BY <1>2, <1>3, <1>13, <1>15, OffApplied
  <2> QED
    BY <1>3, <1>5, <1>13, <2>1
<1>16. Brought'
  BY <1>1, <1>3, <1>8, <1>12, <1>14, <1>15 DEF Brought
<1> QED
  BY <1>7, <1>9, <1>10, <1>12, <1>16

-----------------------------------------------------------------------------

(* The latest task goes on as T. *)
LEMMA TaskGoesOn ==
  ASSUME Resolved, Alone, opened > 0, NEW T, T \in Tasks,
         task' = [task EXCEPT ![opened] = T], UNCHANGED opened
  PROVE  /\ Latest' = T /\ task' \in [Connections -> Tasks]
         /\ \A d \in Connections : d # opened => task'[d] = task[d]
<1>1. opened \in Connections /\ task \in [Connections -> Tasks]
  BY TheLatest DEF Resolved
<1> QED
  BY <1>1 DEF Latest

LEMMA CommandSent ==
  ASSUME Resolved, Alone, Aimed, Brought, NEW c \in Connections, SendControl(c)
  PROVE  Resolved' /\ Alone' /\ Aimed' /\ Brought'
<1> DEFINE T == [Latest EXCEPT !.due = Tail(@)]
<1>1. c = opened /\ opened > 0 /\ Latest = task[c]
  BY TheOneAtWork DEF SendControl, Syncing
<1>2. /\ opened \in Connections /\ opened # NoConnection /\ Latest \in Tasks
      /\ Latest.due \in Seq(Commands) /\ Latest.due # <<>> /\ Latest.via = opened
      /\ Latest.stage \in {"announcing", "cleaning", "syncing"}
  BY <1>1, TheLatest DEF SendControl, Syncing, Alone
<1>3. /\ Tail(Latest.due) \in Seq(Commands)
      /\ Append(commands, Head(Latest.due)) \in Seq(Commands)
      /\ Append(commands, Head(Latest.due)) \o Tail(Latest.due) = commands \o Latest.due
  BY <1>2, PassOn DEF Resolved
<1>4. /\ T \in Tasks /\ T.stage = Latest.stage /\ T.via = Latest.via
      /\ T.needed = Latest.needed /\ T.due = Tail(Latest.due) /\ T.trade = Latest.trade
  BY <1>2, <1>3 DEF Tasks
<1>5. /\ task' = [task EXCEPT ![opened] = T]
      /\ UNCHANGED <<subscriptionVars, handlers, outbox, link, opened, plane, prevNeeded,
                     sourceVars>>
      /\ commands' = IF opened = link THEN Append(commands, Head(Latest.due)) ELSE commands
  BY <1>1, <1>2 DEF SendControl
<1> HIDE DEF T
<1>6. /\ Latest' = T /\ task' \in [Connections -> Tasks]
      /\ \A d \in Connections : d # opened => task'[d] = task[d]
  BY <1>1, <1>4, <1>5, TaskGoesOn
<1>7. task'[opened] = T
  BY <1>5, <1>6 DEF Latest
<1>8. Resolved'
  BY <1>2, <1>3, <1>4, <1>5, <1>6, <1>7 DEF Resolved, subscriptionVars, sourceVars
<1>9. Alone'
  BY <1>1, <1>2, <1>4, <1>5, <1>6, <1>7, NumbersOfConnections DEF Alone, Syncing
<1>10. Goal' = Goal
  BY <1>4, <1>5, <1>6 DEF Goal
<1>11. Aimed'
  BY <1>4, <1>5, <1>6, <1>10 DEF Aimed, sourceVars
<1>12. link # NoConnection => Stream' = Stream
  BY <1>3, <1>4, <1>5, <1>6 DEF Stream, Alone
<1>13. Brought'
  BY <1>4, <1>5, <1>6, <1>10, <1>12 DEF Brought, subscriptionVars
<1> QED
  BY <1>8, <1>9, <1>11, <1>13

LEMMA ClosedTask == At("closed") \in Tasks /\ At("ready") \in Tasks
  BY NumbersOfConnections, EmptySeq DEF At, Task, Tasks

LEMMA SendRaises ==
  ASSUME Resolved, Alone, Aimed, Brought, NEW c \in Connections, SendControlFails(c)
  PROVE  Resolved' /\ Alone' /\ Aimed' /\ Brought'
<1>1. c = opened /\ opened > 0 /\ Latest = task[c]
  BY TheOneAtWork DEF SendControlFails, Syncing
<1>2. opened \in Connections /\ opened # NoConnection /\ Latest.via = opened
  BY <1>1, TheLatest DEF SendControlFails, Alone
<1>3. link = NoConnection /\ commands = <<>>
  BY <1>1, <1>2 DEF SendControlFails, Alone
<1>4. /\ task' = [task EXCEPT ![opened] = At("closed")]
      /\ UNCHANGED <<subscriptionVars, handlers, outbox, link, commands, opened,
                     prevNeeded, sourceVars>>
      /\ plane' = IF plane = opened THEN NoConnection ELSE plane
  BY <1>1, <1>2, <1>3 DEF SendControlFails, Unbind
<1>5. At("closed").stage = "closed" /\ At("closed").due = <<>>
  BY DEF At, Task
<1>6. /\ Latest' = At("closed") /\ task' \in [Connections -> Tasks]
      /\ \A d \in Connections : d # opened => task'[d] = task[d]
  BY <1>1, <1>4, TaskGoesOn, ClosedTask
<1>7. task'[opened] = At("closed")
  BY <1>4, <1>6 DEF Latest
<1>8. Resolved'
  BY <1>2, <1>4, <1>5, <1>6, <1>7 DEF Resolved, subscriptionVars, sourceVars
<1>9. Alone'
  BY <1>1, <1>2, <1>3, <1>4, <1>5, <1>6, <1>7, NumbersOfConnections DEF Alone, Syncing
<1>10. Aimed' /\ Brought'
  BY <1>3, <1>4, <1>5, <1>6 DEF Aimed, Brought
<1> QED
  BY <1>8, <1>9, <1>10

LEMMA TaskEnds ==
  ASSUME Resolved, Alone, Aimed, Brought, NEW c \in Connections, EndTask(c)
  PROVE  Resolved' /\ Alone' /\ Aimed' /\ Brought'
<1>1. /\ task' = [task EXCEPT ![c] = At("closed")]
      /\ UNCHANGED <<subscriptionVars, handlers, outbox, linkVars, prevNeeded, sourceVars>>
      /\ plane' = IF plane = c THEN NoConnection ELSE plane
      /\ task[c].stage = "ready" /\ c # link
  BY DEF EndTask, Unbind
<1>2. c \in Nat /\ c > 0 /\ opened \in Nat /\ ~(c > opened)
  BY <1>1, NumbersOfConnections DEF Alone
<1>3. At("closed").stage = "closed" /\ At("closed").due = <<>> /\ At("closed") \in Tasks
  BY ClosedTask DEF At, Task
<1>4. /\ task' \in [Connections -> Tasks] /\ task'[c] = At("closed")
      /\ \A d \in Connections : d # c => task'[d] = task[d]
  BY <1>1, <1>3 DEF Resolved
<1>5. Resolved'
  BY <1>1, <1>3, <1>4 DEF Resolved, subscriptionVars, sourceVars, linkVars
<1>6. CASE c = opened
  <2>1. link = NoConnection /\ Latest' = At("closed") /\ opened' = opened /\ link' = link
    BY <1>1, <1>2, <1>4, <1>6 DEF Latest, Alone, linkVars
  <2>2. Alone'
    BY <1>1, <1>2, <1>3, <1>4, <1>6, <2>1, NumbersOfConnections DEF Alone, Syncing, linkVars
  <2>3. Aimed' /\ Brought'
    BY <1>3, <2>1 DEF Aimed, Brought
  <2> QED
    BY <1>5, <2>2, <2>3
<1>7. CASE c < opened
  <2>1. opened \in Connections /\ opened # c
    BY <1>2, <1>7, TheLatest
  <2>2. Latest' = Latest /\ task'[opened] = task[opened]
    BY <1>1, <1>4, <2>1 DEF Latest, linkVars
  <2>3. UNCHANGED <<Goal, Stream, subscriptions, link, opened, commands, prevNeeded, override>>
    BY <1>1, <2>2 DEF Goal, Stream, linkVars, subscriptionVars, sourceVars
  <2>4. plane' = plane
    BY <1>1, <1>2, <1>7, NumbersOfConnections DEF Alone
  <2>5. Alone'
    BY <1>2, <1>3, <1>4, <1>7, <2>2, <2>3, <2>4 DEF Alone, Syncing
  <2>6. Aimed' /\ Brought'
    BY <2>2, <2>3 DEF Aimed, Brought
  <2> QED
    BY <1>5, <2>5, <2>6
<1> QED
  BY <1>2, <1>6, <1>7

(* The task goes on, has sent what it had to and keeps its goal. *)
LEMMA NothingToSend ==
  ASSUME Resolved, Alone, Aimed, Brought, opened > 0, NEW T, T \in Tasks,
         task' = [task EXCEPT ![opened] = T], Latest.due = <<>>, T.due = <<>>,
         T.stage \in {"ready", "recording"}, T.stage = "recording" => T.trade \in Tradable,
         Latest.stage \notin {"announcing", "closed"}, Goal' = Goal,
         prevNeeded' \in [Connections -> SUBSET Contracts],
         \A d \in Connections : d # opened => prevNeeded'[d] = prevNeeded[d],
         outbox' \in {outbox, NoContract},
         UNCHANGED <<subscriptionVars, handlers, linkVars, plane, override, chartSource>>
  PROVE  Resolved' /\ Alone' /\ Aimed' /\ Brought'
<1>1. opened \in Connections /\ opened # NoConnection
  BY TheLatest
<1>2. /\ Latest' = T /\ task' \in [Connections -> Tasks] /\ task'[opened] = T
      /\ \A d \in Connections : d # opened => task'[d] = task[d]
  BY TaskGoesOn DEF linkVars, Latest
<1>3. Resolved'
  BY <1>1, <1>2 DEF Resolved, subscriptionVars, linkVars
<1>4. Alone'
  BY <1>1, <1>2 DEF Alone, Syncing, linkVars
<1>5. Aimed'
  BY <1>2 DEF Aimed, linkVars
<1>6. Stream' = Stream
  BY <1>2 DEF Stream, linkVars
<1>7. Brought'
  BY <1>2, <1>6 DEF Brought, linkVars, subscriptionVars
<1> QED
  BY <1>3, <1>4, <1>5, <1>7

LEMMA AnnouncementEnds ==
  ASSUME Resolved, Alone, Aimed, Brought, NEW c \in Connections, FinishAnnounce(c)
  PROVE  Resolved' /\ Alone' /\ Aimed' /\ Brought'
<1>1. c = opened /\ opened > 0 /\ Latest = task[c]
  BY TheOneAtWork DEF FinishAnnounce
<1>2. /\ task' = [task EXCEPT ![opened] = At("ready")]
      /\ Latest.stage = "cleaning" /\ Latest.due = <<>>
      /\ UNCHANGED <<subscriptionVars, handlers, outbox, linkVars, plane, prevNeeded,
                     sourceVars>>
  BY <1>1 DEF FinishAnnounce
<1>3. At("ready") \in Tasks /\ At("ready").stage = "ready" /\ At("ready").due = <<>>
  BY ClosedTask DEF At, Task
<1>4. Goal' = Goal
  <2>1. Latest' = At("ready")
    BY <1>1, <1>2, <1>3, TaskGoesOn DEF linkVars
  <2> QED
    BY <1>2, <1>3, <2>1 DEF Goal, linkVars
<1>5. prevNeeded' \in [Connections -> SUBSET Contracts]
  BY <1>2 DEF Resolved
<1> QED
  BY <1>1, <1>2, <1>3, <1>4, <1>5, NothingToSend DEF sourceVars

LEMMA TradeIgnored ==
  ASSUME Resolved, Alone, Aimed, Brought, NEW c \in Connections, IgnoreTrade(c)
  PROVE  Resolved' /\ Alone' /\ Aimed' /\ Brought'
<1>1. c = opened /\ opened > 0 /\ Latest = task[c]
  BY TheOneAtWork DEF IgnoreTrade
<1>2. /\ task' = [task EXCEPT ![opened] = At("ready")]
      /\ Latest.stage = "recording"
      /\ UNCHANGED <<subscriptionVars, handlers, outbox, linkVars, plane, prevNeeded,
                     sourceVars>>
  BY <1>1 DEF IgnoreTrade
<1>3. At("ready") \in Tasks /\ At("ready").stage = "ready" /\ At("ready").due = <<>>
  BY ClosedTask DEF At, Task
<1>4. Goal' = Goal /\ Latest.due = <<>>
  <2>1. Latest' = At("ready")
    BY <1>1, <1>2, <1>3, TaskGoesOn DEF linkVars
  <2> QED
    BY <1>1, <1>2, <1>3, <2>1 DEF Goal, linkVars, Alone
<1>5. prevNeeded' \in [Connections -> SUBSET Contracts]
  BY <1>2 DEF Resolved
<1> QED
  BY <1>1, <1>2, <1>3, <1>4, <1>5, NothingToSend DEF sourceVars

LEMMA TradeReceived ==
  ASSUME Resolved, Alone, Aimed, Brought, ReceiveTrade
  PROVE  Resolved' /\ Alone' /\ Aimed' /\ Brought'
<1> DEFINE T == Task("recording", outbox, NoConnection, {}, <<>>)
<1>1. link = opened /\ opened > 0 /\ outbox \in Tradable
  BY NumbersOfConnections DEF ReceiveTrade, Alone, Resolved
<1>2. /\ task' = [task EXCEPT ![opened] = T]
      /\ Latest.stage = "ready" /\ outbox' = NoContract
      /\ UNCHANGED <<subscriptionVars, handlers, linkVars, plane, prevNeeded, sourceVars>>
  BY <1>1 DEF ReceiveTrade, Latest
<1>3. /\ T \in Tasks /\ T.stage = "recording" /\ T.due = <<>> /\ T.trade = outbox
  BY <1>1, NumbersOfConnections, EmptySeq DEF Task, Tasks
<1> HIDE DEF T
<1>4. Goal' = Goal /\ Latest.due = <<>>
  <2>1. Latest' = T
    BY <1>1, <1>2, <1>3, TaskGoesOn DEF linkVars
  <2> QED
    BY <1>1, <1>2, <1>3, <2>1 DEF Goal, linkVars, Alone
<1>5. prevNeeded' \in [Connections -> SUBSET Contracts]
  BY <1>2 DEF Resolved
<1> QED
  BY <1>1, <1>2, <1>3, <1>4, <1>5, NothingToSend DEF sourceVars

LEMMA SyncEnds ==
  ASSUME Resolved, Alone, Aimed, Brought, NEW c \in Connections, FinishSync(c),
         task[c].stage = "syncing"
  PROVE  Resolved' /\ Alone' /\ Aimed' /\ Brought'
<1>1. c = opened /\ opened > 0 /\ Latest = task[c]
  BY TheOneAtWork
<1>2. opened \in Connections /\ Latest \in Tasks /\ Latest.via = opened /\ Latest.due = <<>>
  BY <1>1, TheLatest DEF Alone, Syncing, FinishSync
<1>3. /\ task' = [task EXCEPT ![opened] = At("ready")]
      /\ prevNeeded' = [prevNeeded EXCEPT ![opened] = Latest.needed]
      /\ UNCHANGED <<subscriptionVars, handlers, outbox, linkVars, plane, sourceVars>>
  BY <1>1, <1>2 DEF FinishSync
<1>4. At("ready") \in Tasks /\ At("ready").stage = "ready" /\ At("ready").due = <<>>
  BY ClosedTask DEF At, Task
<1>5. /\ prevNeeded' \in [Connections -> SUBSET Contracts]
      /\ prevNeeded'[opened] = Latest.needed
      /\ \A d \in Connections : d # opened => prevNeeded'[d] = prevNeeded[d]
  BY <1>2, <1>3 DEF Resolved, Tasks
<1>6. Goal' = Goal
  <2>1. Latest' = At("ready")
    BY <1>1, <1>3, <1>4, TaskGoesOn DEF linkVars
  <2> QED
    BY <1>1, <1>3, <1>4, <1>5, <2>1 DEF Goal, linkVars
<1> QED
  BY <1>1, <1>2, <1>3, <1>4, <1>5, <1>6, NothingToSend DEF sourceVars

(* The first half of the announcement is through: what follows releases    *)
(* every candidate but the one it subscribed.                              *)
LEMMA AnnouncementGoesOn ==
  ASSUME Resolved, Alone, Aimed, Brought, NEW c \in Connections, FinishSync(c),
         task[c].stage = "announcing"
  PROVE  Resolved' /\ Alone' /\ Aimed' /\ Brought'
<1> DEFINE r == SetToSeq({Command("unsubscribe", d) : d \in Candidates \ {override}})
           T == Task("cleaning", NoContract, opened, {}, r)
<1>1. c = opened /\ opened > 0 /\ Latest = task[c]
  BY TheOneAtWork
<1>2. /\ opened \in Connections /\ opened # NoConnection /\ opened \in 0 .. MaxConnections
      /\ Latest \in Tasks /\ Latest.via = opened /\ Latest.due = <<>>
      /\ Latest.stage = "announcing" /\ plane = opened
      /\ commands \in Seq(Commands) /\ Stream \in Seq(Commands)
  BY <1>1, TheLatest DEF Alone, Syncing, FinishSync, Resolved
<1>3. /\ task' = [task EXCEPT ![opened] = T]
      /\ prevNeeded' = [prevNeeded EXCEPT ![opened] = Latest.needed]
      /\ UNCHANGED <<subscriptionVars, handlers, outbox, linkVars, plane, sourceVars>>
  BY <1>1, <1>2 DEF FinishSync
<1>4. /\ r \in Seq(Commands)
      /\ \A i \in 1 .. Len(r) :
           \E d \in Candidates \ {override} : r[i] = Command("unsubscribe", d)
      /\ \A d \in Candidates \ {override} :
           \E i \in 1 .. Len(r) : r[i] = Command("unsubscribe", d)
  BY ReleaseOfTheOthers
<1> HIDE DEF r
<1>5. /\ T \in Tasks /\ T.stage = "cleaning" /\ T.due = r /\ T.via = opened
  BY <1>2, <1>4 DEF Task, Tasks
<1> HIDE DEF T
<1>6. /\ prevNeeded' \in [Connections -> SUBSET Contracts]
      /\ prevNeeded'[opened] = Latest.needed
      /\ \A d \in Connections : d # opened => prevNeeded'[d] = prevNeeded[d]
  BY <1>2, <1>3 DEF Resolved, Tasks
<1>7. /\ Latest' = T /\ task' \in [Connections -> Tasks] /\ task'[opened] = T
      /\ \A d \in Connections : d # opened => task'[d] = task[d]
  BY <1>1, <1>3, <1>5, TaskGoesOn DEF linkVars, Latest
<1>8. Goal' = Goal /\ Goal = {override} /\ override \in Instruments
  BY <1>1, <1>2, <1>3, <1>5, <1>6, <1>7 DEF Goal, linkVars, Aimed, Resolved, Resolvable
<1>9. Resolved'
  BY <1>2, <1>3, <1>5, <1>6, <1>7 DEF Resolved, subscriptionVars, sourceVars, linkVars
<1>10. Alone'
  BY <1>2, <1>3, <1>5, <1>6, <1>7 DEF Alone, Syncing, linkVars
<1>11. Aimed'
  BY <1>1, <1>2, <1>3, <1>5, <1>7, <1>8 DEF Aimed, linkVars, sourceVars
<1>12. Stream = commands /\ Stream' = Stream \o r
  <2>1. Stream = commands
    BY <1>2, ConcatEmptySeq DEF Stream
  <2> QED
    BY <1>3, <1>5, <1>7, <2>1 DEF Stream, linkVars
<1>13. ASSUME link # NoConnection PROVE Brought'
  <2>1. On(Stream, subscriptions, Len(Stream) + 1, override) /\ Covered(Stream, subscriptions)
    BY <1>8, <1>13 DEF Brought
  <2>2. Len(Stream) \in Nat /\ Len(r) \in Nat /\ Len(Stream \o r) = Len(Stream) + Len(r)
    BY <1>2, <1>4, ConcatProperties, LenProperties
  <2>3. \A k \in 1 .. Len(r) : /\ r[k] # Command("unsubscribe", override)
                               /\ override # r[k].contract
                               /\ \A d : r[k] # Command("subscribe", d)
    <3> TAKE k \in 1 .. Len(r)
    <3>1. PICK d \in Candidates \ {override} : r[k] = Command("unsubscribe", d)
      BY <1>4
    <3>2. r[k].action = "unsubscribe" /\ r[k].contract = d
      BY <3>1 DEF Command
    <3>3. \A x : Command("subscribe", x).action = "subscribe"
      BY DEF Command
    <3>4. Command("unsubscribe", override).contract = override
      BY DEF Command
    <3> QED
      BY <3>1, <3>2, <3>3, <3>4
  <2>4. ASSUME NEW m \in 1 .. Len(r) + 1
        PROVE  On(Stream \o r, subscriptions, Len(Stream) + m, override)
    <3>1. \A k \in 1 .. m - 1 : r[k] # Command("unsubscribe", override)
      BY <2>2, <2>3
    <3> QED
      BY <1>2, <1>4, <2>1, <3>1, OnGoesOn
  <2>5. On(Stream \o r, subscriptions, Len(Stream \o r) + 1, override)
    <3>1. Len(r) + 1 \in 1 .. Len(r) + 1 /\ Len(Stream) + (Len(r) + 1) = Len(Stream \o r) + 1
      BY <2>2
    <3> QED
      BY <2>4, <3>1
  <2>6. \A m \in 1 .. Len(r) : r[m].action = "unsubscribe" =>
          \E x \in Instruments :
            x # r[m].contract /\ On(Stream \o r, subscriptions, Len(Stream) + m, x)
    <3> SUFFICES ASSUME NEW m \in 1 .. Len(r)
                 PROVE  /\ override # r[m].contract
                        /\ On(Stream \o r, subscriptions, Len(Stream) + m, override)
      BY <1>8
    <3>1. override # r[m].contract
      BY <2>3
    <3>2. m \in 1 .. Len(r) + 1
      BY <2>2
    <3> QED
      BY <2>4, <3>1, <3>2
  <2>7. Covered(Stream \o r, subscriptions)
    BY <1>2, <1>4, <2>1, <2>6, CoveredGoesOn
  <2>8. ASSUME NEW d \in Candidates \ {override}
        PROVE  Off(Stream \o r, subscriptions, Len(Stream \o r) + 1, d)
    <3>1. PICK m \in 1 .. Len(r) : r[m] = Command("unsubscribe", d)
      BY <1>4
    <3>2. \A k \in m + 1 .. Len(r) : r[k] # Command("subscribe", d)
      BY <2>2, <2>3
    <3> QED
      BY <1>2, <1>4, <3>1, <3>2, OffFromHere
  <2>9. UNCHANGED subscriptions
    BY <1>3 DEF subscriptionVars
  <2> QED
    BY <1>8, <1>12, <2>5, <2>7, <2>8, <2>9 DEF Brought
<1>14. ASSUME link = NoConnection PROVE Brought'
  BY <1>3, <1>14 DEF Brought, linkVars
<1> QED
  BY <1>9, <1>10, <1>11, <1>13, <1>14

(* A sync of the recorded trade starts. *)
LEMMA SyncStarts ==
  ASSUME Resolved, Alone, Aimed, Brought, NEW c \in Connections,
         task[c].stage = "recording", SyncControlPlane(c),
         override' \in Resolvable, chartSource' \in Tradable,
         UNCHANGED <<subscriptionVars, handlers, outbox, linkVars, plane, prevNeeded>>
  PROVE  Resolved' /\ Alone' /\ Aimed' /\ Brought'
<1> DEFINE needed == NeededFor(chartSource', override')
           plan == PlanControlCommands(prevNeeded[opened], needed)
           T == Task("syncing", NoContract, opened, needed, plan)
<1>1. c = opened /\ opened > 0 /\ Latest = task[c]
  BY TheOneAtWork
<1>2. /\ opened \in Connections /\ opened # NoConnection /\ opened \in 0 .. MaxConnections
      /\ Latest \in Tasks /\ Latest.stage = "recording" /\ Latest.due = <<>>
      /\ plane = opened /\ commands \in Seq(Commands) /\ Stream \in Seq(Commands)
  BY <1>1, TheLatest DEF Alone, Resolved
<1>3. task' = [task EXCEPT ![opened] = T]
  BY <1>1, <1>2 DEF SyncControlPlane, StartSync
<1>4. PICK n \in Resolvable : needed = {n}
  BY DEF NeededFor, Tradable, Resolvable
<1>5. PICK p \in Resolvable : Goal = {p} /\ prevNeeded[opened] = {p}
  BY <1>1, <1>2 DEF Aimed, Goal
<1>6. n \in Contracts /\ p \in Contracts /\ n \in Instruments
  BY ControlAssumption DEF Resolvable
<1>7. plan = IF p = n THEN <<>> ELSE <<Command("subscribe", n), Command("unsubscribe", p)>>
  BY <1>4, <1>5, PlanOfTheSame, PlanOfAChange
<1>8. plan \in Seq(Commands)
  <2>1. Command("subscribe", n) \in Commands /\ Command("unsubscribe", p) \in Commands
    BY <1>6 DEF Command, Commands
  <2>2. <<Command("subscribe", n), Command("unsubscribe", p)>> \in Seq(Commands)
    <3> DEFINE a == Command("subscribe", n)
               b == Command("unsubscribe", p)
    <3> HIDE DEF a, b
    <3> QED
      BY <2>1 DEF a, b
  <2> QED
    BY <1>7, <2>2, EmptySeq
<1> HIDE DEF plan, needed
<1>9. /\ T \in Tasks /\ T.stage = "syncing" /\ T.due = plan /\ T.via = opened
      /\ T.needed = {n}
  BY <1>2, <1>4, <1>6, <1>8 DEF Task, Tasks
<1> HIDE DEF T
<1>10. /\ Latest' = T /\ task' \in [Connections -> Tasks] /\ task'[opened] = T
       /\ \A d \in Connections : d # opened => task'[d] = task[d]
  BY <1>1, <1>3, <1>9, TaskGoesOn DEF linkVars, Latest
<1>11. Goal' = {n}
  BY <1>9, <1>10 DEF Goal
<1>12. Resolved'
  BY <1>2, <1>9, <1>10 DEF Resolved, subscriptionVars, linkVars
<1>13. Alone'
  BY <1>2, <1>9, <1>10 DEF Alone, Syncing, linkVars
<1>14. Aimed'
  BY <1>9, <1>10, <1>11 DEF Aimed
<1>15. Stream = commands /\ Stream' = Stream \o plan /\ UNCHANGED subscriptions
  <2>1. Stream = commands
    BY <1>2, ConcatEmptySeq DEF Stream
  <2> QED
    BY <1>9, <1>10, <2>1 DEF Stream, linkVars, subscriptionVars
<1>16. ASSUME link # NoConnection PROVE Brought'
  <2>1. /\ On(Stream, subscriptions, Len(Stream) + 1, p) /\ Covered(Stream, subscriptions)
        /\ \A d \in Candidates \ {p} : Off(Stream, subscriptions, Len(Stream) + 1, d)
    BY <1>2, <1>5, <1>16 DEF Brought
  <2>2. CASE p = n
    <3>1. Stream' = Stream
      BY <1>2, <1>7, <1>15, <2>2, ConcatEmptySeq
    <3> QED
      BY <1>11, <1>15, <2>1, <2>2, <3>1 DEF Brought
  <2>3. CASE p # n
    <3>1. /\ plan[1] = Command("subscribe", n) /\ plan[2] = Command("unsubscribe", p)
          /\ Len(plan) = 2
      BY <1>7, <2>3
    <3>2. /\ Len(Stream) \in Nat /\ Len(Stream \o plan) = Len(Stream) + 2
      <4>1. Len(Stream) \in Nat /\ Len(Stream \o plan) = Len(Stream) + Len(plan)
        BY <1>2, <1>8, ConcatProperties, LenProperties
      <4> QED
        BY <3>1, <4>1
    <3>3. /\ plan[2] # Command("unsubscribe", n)
          /\ \A d : plan[2] # Command("subscribe", d)
          /\ \A d : d # n => plan[1] # Command("subscribe", d)
          /\ plan[1].action = "subscribe" /\ plan[2].contract = p
      BY <2>3, <3>1 DEF Command
    <3>4. ASSUME NEW m \in 2 .. Len(plan) + 1
          PROVE  On(Stream \o plan, subscriptions, Len(Stream) + m, n)
      <4>1. \A k \in 2 .. m - 1 : plan[k] # Command("unsubscribe", n)
        <5> TAKE k \in 2 .. m - 1
        <5>1. k = 2
          BY <3>1
        <5> QED
          BY <3>3, <5>1
      <4> QED
        BY <1>2, <1>8, <3>1, <4>1, OnFromHere
    <3>5. On(Stream \o plan, subscriptions, Len(Stream \o plan) + 1, n)
      <4>1. 3 \in 2 .. Len(plan) + 1 /\ Len(Stream) + 3 = Len(Stream \o plan) + 1
        BY <3>1, <3>2
      <4> QED
        BY <3>4, <4>1
    <3>6. Covered(Stream \o plan, subscriptions)
      <4>1. ASSUME NEW m \in 1 .. Len(plan), plan[m].action = "unsubscribe"
            PROVE  \E x \in Instruments :
                     x # plan[m].contract /\ On(Stream \o plan, subscriptions, Len(Stream) + m, x)
        <5>1. m = 2
          <6>1. m \in {1, 2}
            BY <3>1
          <6> QED
            BY <3>3, <4>1, <6>1
        <5>2. On(Stream \o plan, subscriptions, Len(Stream) + m, n)
          BY <3>1, <3>4, <5>1
        <5> QED
          BY <1>6, <2>3, <3>3, <5>1, <5>2
      <4> QED
        BY <1>2, <1>8, <2>1, <4>1, CoveredGoesOn
    <3>7. ASSUME NEW d \in Candidates \ {n}
          PROVE  Off(Stream \o plan, subscriptions, Len(Stream \o plan) + 1, d)
      <4>1. CASE d = p
        <5>1. 2 \in 1 .. Len(plan) /\ plan[2] = Command("unsubscribe", d)
              /\ \A k \in 2 + 1 .. Len(plan) : plan[k] # Command("subscribe", d)
          BY <3>1, <4>1
        <5> QED
          BY <1>2, <1>8, <5>1, OffFromHere
      <4>2. CASE d # p
        <5>1. Off(Stream, subscriptions, Len(Stream) + 1, d)
          BY <2>1, <4>2
        <5>2. \A k \in 1 .. Len(plan) : plan[k] # Command("subscribe", d)
          <6> TAKE k \in 1 .. Len(plan)
          <6>1. k \in {1, 2}
            BY <3>1
          <6> QED
            BY <3>3, <6>1
        <5> QED
          BY <1>2, <1>8, <5>1, <5>2, OffGoesOn
      <4> QED
        BY <4>1, <4>2
    <3> QED
      BY <1>11, <1>15, <3>5, <3>6, <3>7 DEF Brought
  <2> QED
    BY <2>2, <2>3
<1>17. ASSUME link = NoConnection PROVE Brought'
  BY <1>17 DEF Brought, linkVars
<1> QED
  BY <1>12, <1>13, <1>14, <1>16, <1>17

LEMMA TradeOfTheChart ==
  ASSUME Resolved, Alone, Aimed, Brought, NEW c \in Connections, ChartTrade(c)
  PROVE  Resolved' /\ Alone' /\ Aimed' /\ Brought'
<1>1. override' \in Resolvable /\ chartSource' \in Tradable
  BY DEF ChartTrade, Resolved
<1> QED
  BY <1>1, SyncStarts DEF ChartTrade

LEMMA TradeOfAnother ==
  ASSUME Resolved, Alone, Aimed, Brought, NEW c \in Connections, SwitchChartSource(c)
  PROVE  Resolved' /\ Alone' /\ Aimed' /\ Brought'
<1>1. override' \in Resolvable /\ chartSource' \in Tradable
  BY DEF SwitchChartSource, Resolved, Resolvable, Tradable
<1> QED
  BY <1>1, SyncStarts DEF SwitchChartSource

LEMMA LineLost ==
  ASSUME Resolved, Alone, Aimed, Brought, LoseConnection
  PROVE  Resolved' /\ Alone' /\ Aimed' /\ Brought'
<1>1. /\ link' = NoConnection /\ commands' = <<>>
      /\ UNCHANGED <<subscriptionVars, handlers, outbox, opened, plane, prevNeeded,
                     task, sourceVars>>
  BY DEF LoseConnection
<1>2. UNCHANGED <<Latest, Goal>>
  BY <1>1 DEF Latest, Goal
<1>3. Resolved'
  BY <1>1, EmptySeq DEF Resolved, subscriptionVars, sourceVars
<1>4. Alone'
  BY <1>1, <1>2, NumbersOfConnections DEF Alone, Syncing
<1>5. Aimed' /\ Brought'
  BY <1>1, <1>2 DEF Aimed, Brought, sourceVars
<1> QED
  BY <1>3, <1>4, <1>5

LEMMA LineOpened ==
  ASSUME Resolved, Alone, Aimed, Brought, Connect, LateTasks = {}
  PROVE  Resolved' /\ Alone' /\ Aimed' /\ Brought'
<1> DEFINE n == opened + 1
           T == Task("announcing", NoContract, n, {override}, <<Command("subscribe", override)>>)
<1>1. /\ link = NoConnection /\ commands = <<>> /\ opened \in Nat /\ n > opened /\ n > 0
      /\ n \in Connections /\ n \in 0 .. MaxConnections /\ n # NoConnection
  BY NumbersOfConnections DEF Connect, Alone
<1>2. /\ link' = n /\ opened' = n /\ plane' = n
      /\ UNCHANGED <<subscriptionVars, handlers, outbox, commands, prevNeeded, sourceVars>>
  BY DEF Connect
<1>3. prevNeeded[n] = {}
  BY <1>1 DEF Alone
<1>4. task' = [task EXCEPT ![n] = T]
  BY <1>3, PlanOfTheFirst DEF Connect, StartSync
<1>5. /\ override \in Resolvable /\ override \in Contracts /\ override \in Instruments
      /\ Command("subscribe", override) \in Commands
  BY ControlAssumption DEF Resolved, Resolvable, Command, Commands
<1> DEFINE s == <<Command("subscribe", override)>>
<1>6. s \in Seq(Commands) /\ Len(s) = 1 /\ s[1] = Command("subscribe", override)
  <2> DEFINE a == Command("subscribe", override)
  <2> HIDE DEF a
  <2> QED
    BY <1>5 DEF a
<1> HIDE DEF s
<1>7. /\ T \in Tasks /\ T.stage = "announcing" /\ T.via = n /\ T.needed = {override}
      /\ T.due = s
  BY <1>1, <1>5, <1>6 DEF Task, Tasks, s
<1> HIDE DEF T
<1>8. /\ task' \in [Connections -> Tasks] /\ task'[n] = T /\ Latest' = T
      /\ \A d \in Connections : d # n => task'[d] = task[d]
  BY <1>1, <1>2, <1>4, <1>7 DEF Resolved, Latest
<1>9. Resolved'
  BY <1>1, <1>2, <1>7, <1>8 DEF Resolved, subscriptionVars, sourceVars
<1>10. ASSUME NEW d \in Connections
       PROVE  /\ d > n => task'[d].stage = "none" /\ prevNeeded'[d] = {}
              /\ d < n => task'[d].stage \in {"ready", "closed"}
  <2>1. d \in Nat /\ d > 0
    BY NumbersOfConnections
  <2>2. CASE d > n
    <3>1. d > opened /\ d # n /\ ~(d < n)
      BY <1>1, <2>1, <2>2
    <3> QED
      BY <1>2, <1>8, <3>1 DEF Alone
  <2>3. CASE d < n
    <3>1. d # n /\ d \in 1 .. opened /\ ~(d > n)
      BY <1>1, <2>1, <2>3
    <3>2. task[d].stage \in {"ready", "closed"}
      BY <3>1 DEF LateTasks
    <3> QED
      BY <1>8, <3>1, <3>2
  <2> QED
    BY <2>2, <2>3
<1>11. Alone'
  BY <1>1, <1>2, <1>7, <1>8, <1>10 DEF Alone, Syncing
<1>12. Goal' = {override}
  BY <1>7, <1>8 DEF Goal
<1>13. Aimed'
  BY <1>2, <1>5, <1>7, <1>8, <1>12 DEF Aimed, sourceVars
<1>14. Stream' = s
  <2>1. Stream' = <<>> \o s
    BY <1>1, <1>2, <1>7, <1>8 DEF Stream
  <2> QED
    BY <1>6, <2>1, ConcatEmptySeq
<1>15. On(s, subscriptions, Len(s) + 1, override)
  <2>1. /\ 1 \in 0 .. (Len(s) + 1) - 1 /\ s[1] = Command("subscribe", override)
        /\ \A k \in 1 + 1 .. (Len(s) + 1) - 1 : s[k] # Command("unsubscribe", override)
    BY <1>6
  <2> QED
    BY <2>1 DEF On
<1>16. Covered(s, subscriptions)
  <2>1. s[1].action = "subscribe"
    BY <1>6 DEF Command
  <2>2. \A i \in 1 .. Len(s) : i = 1
    BY <1>6
  <2> QED
    BY <2>1, <2>2 DEF Covered
<1>17. Brought'
  BY <1>2, <1>7, <1>8, <1>12, <1>14, <1>15, <1>16 DEF Brought, subscriptionVars
<1> QED
  BY <1>9, <1>11, <1>13, <1>17

LEMMA ContractSelected ==
  ASSUME Resolved, Alone, Aimed, Brought, NEW c \in Contracts, SetActiveContract(c),
         c \in Instruments, \A k \in Connections : task[k].stage # "announcing"
  PROVE  Resolved' /\ Alone' /\ Aimed' /\ Brought'
<1>1. /\ override' = c /\ c \in Resolvable
      /\ UNCHANGED <<subscriptionVars, handlers, outbox, linkVars, plane, prevNeeded,
                     task, chartSource>>
  BY DEF SetActiveContract, Resolvable
<1>2. UNCHANGED <<Latest, Goal, Stream>>
  BY <1>1 DEF Latest, Goal, Stream, linkVars
<1>3. Resolved'
  BY <1>1 DEF Resolved, subscriptionVars, linkVars
<1>4. Alone'
  BY <1>1, <1>2 DEF Alone, Syncing, linkVars
<1>5. opened > 0 => Latest.stage # "announcing"
  BY TheLatest DEF Latest
<1>6. Aimed'
  BY <1>1, <1>2, <1>5 DEF Aimed, linkVars
<1>7. Brought'
  BY <1>1, <1>2 DEF Brought, linkVars, subscriptionVars
<1> QED
  BY <1>3, <1>4, <1>6, <1>7

-----------------------------------------------------------------------------

LEMMA InitialCalm ==
  ASSUME ManualOverride = NoContract, InitialSource \in Instruments, Init
  PROVE  CInv
<1>1. /\ active = {StartContract} /\ subscriptions = {StartContract}
      /\ StartContract \in Instruments \cap Contracts
      /\ dispatcher = [c \in Contracts |-> IF c = StartContract THEN <<"attach">> ELSE <<>>]
      /\ handlers = [c \in Contracts |-> 0]
      /\ outbox = NoContract /\ link = NoConnection /\ opened = 0 /\ commands = <<>>
      /\ plane = NoConnection /\ prevNeeded = [c \in Connections |-> {}]
      /\ task = [c \in Connections |-> At("none")]
      /\ override = InitialSource /\ chartSource = InitialSource
  BY ControlAssumption DEF Init
<1>2. At("none") \in Tasks /\ At("none").stage = "none"
  BY NumbersOfConnections, EmptySeq DEF At, Task, Tasks
<1>3. InitialSource \in Resolvable /\ InitialSource \in Tradable
  BY ControlAssumption DEF Resolvable, Tradable
<1>4. Resolved
  BY <1>1, <1>2, <1>3, EmptySeq DEF Resolved
<1>5. Alone
  <2>1. \A c \in Connections : c \in Nat /\ c > 0
    BY NumbersOfConnections
  <2> QED
    BY <1>1, <1>2, <2>1, NumbersOfConnections DEF Alone
<1>6. Aimed /\ Brought
  BY <1>1 DEF Aimed, Brought
<1> QED
  BY <1>1, <1>4, <1>5, <1>6 DEF CInv

LEMMA StepCalm ==
  ASSUME IInv, CInv, [Next]_vars
  PROVE  CInv'
<1> SUFFICES ASSUME undisturbed'
             PROVE  Resolved' /\ Alone' /\ Aimed' /\ Brought' /\ subscriptions' # {}
  BY DEF CInv
<1>1. CASE UNCHANGED vars
  <2>1. undisturbed /\ UNCHANGED <<Latest, Goal, Stream>>
    BY <1>1 DEF vars, Latest, Goal, Stream, linkVars
  <2>2. Resolved /\ Alone /\ Aimed /\ Brought /\ subscriptions # {}
    BY <2>1 DEF CInv
  <2>3. Resolved'
    BY <1>1, <2>2 DEF Resolved, vars, subscriptionVars, linkVars, sourceVars
  <2>4. Alone' /\ Aimed' /\ Brought'
    BY <1>1, <2>2, Aside DEF vars, subscriptionVars, linkVars, sourceVars
  <2> QED
    BY <1>1, <2>2, <2>3, <2>4 DEF vars, subscriptionVars
<1>2. CASE Next
  <2>1. undisturbed
    BY <1>2 DEF Next, AddOn, BackendTask, OnControlCommand, RunDispatcher, OnMarketData,
                Connect, LoseConnection, ReceiveTrade, SendControl, SendControlFails,
                FinishSync, FinishAnnounce, ChartTrade, IgnoreTrade, SwitchChartSource,
                EndTask, SetActiveContract
  <2>2. Resolved /\ Alone /\ Aimed /\ Brought /\ subscriptions # {}
    BY <2>1 DEF CInv
  <2>3. CASE OnControlCommand
    BY <2>2, <2>3, CommandApplied
  <2>4. ASSUME UNCHANGED subscriptions, Resolved' /\ Alone' /\ Aimed' /\ Brought'
        PROVE  Resolved' /\ Alone' /\ Aimed' /\ Brought' /\ subscriptions' # {}
    BY <2>2, <2>4
  <2>5. ASSUME NEW c \in Contracts, RunDispatcher(c) \/ OnMarketData(c)
        PROVE  Resolved' /\ Alone' /\ Aimed' /\ Brought' /\ subscriptions' # {}
    <3>1. UNCHANGED subscriptions
      BY <2>5 DEF RunDispatcher, OnMarketData, subscriptionVars
    <3> QED
      BY <2>2, <2>4, <2>5, <3>1, DispatcherAside, MarketAside
  <2>6. CASE Connect
    <3>1. LateTasks = {} /\ UNCHANGED subscriptions
      BY <2>6 DEF Connect, subscriptionVars
    <3> QED
      BY <2>2, <2>4, <2>6, <3>1, LineOpened
  <2>7. CASE LoseConnection \/ ReceiveTrade
    <3>1. UNCHANGED subscriptions
      BY <2>7 DEF LoseConnection, ReceiveTrade, subscriptionVars
    <3> QED
      BY <2>2, <2>4, <2>7, <3>1, LineLost, TradeReceived
  <2>8. ASSUME NEW c \in Connections, BackendTask(c)
        PROVE  Resolved' /\ Alone' /\ Aimed' /\ Brought' /\ subscriptions' # {}
    <3>1. UNCHANGED subscriptions
      BY <2>8 DEF BackendTask, SendControl, SendControlFails, FinishSync, FinishAnnounce,
                  ChartTrade, IgnoreTrade, SwitchChartSource, EndTask, subscriptionVars
    <3>2. FinishSync(c) => task[c].stage \in {"announcing", "syncing"}
      BY DEF FinishSync
    <3>3. Resolved' /\ Alone' /\ Aimed' /\ Brought'
      BY <2>2, <2>8, <3>2, CommandSent, SendRaises, SyncEnds, AnnouncementGoesOn,
         AnnouncementEnds, TradeOfTheChart, TradeIgnored, TradeOfAnother, TaskEnds
         DEF BackendTask
    <3> QED
      BY <2>4, <3>1, <3>3
  <2>9. ASSUME NEW c \in Contracts, SetActiveContract(c)
        PROVE  Resolved' /\ Alone' /\ Aimed' /\ Brought' /\ subscriptions' # {}
    <3>1. /\ c \in Instruments /\ UNCHANGED subscriptions
          /\ \A k \in Connections : task[k].stage # "announcing"
      BY <2>9 DEF SetActiveContract, subscriptionVars
    <3> QED
      BY <2>2, <2>4, <2>9, <3>1, ContractSelected
  <2> QED
    BY <1>2, <2>3, <2>5, <2>6, <2>7, <2>8, <2>9 DEF Next, AddOn
<1> QED
  BY <1>1, <1>2

LEMMA CalmAlways ==
  ASSUME ManualOverride = NoContract, InitialSource \in Instruments
  PROVE  Spec => []CInv
<1>1. Spec => []IInv
  BY Initial, Inductive, PTL DEF Spec
<1>2. Init => CInv
  BY InitialCalm
<1>3. IInv /\ CInv /\ [Next]_vars => CInv'
  BY StepCalm
<1> QED
  BY <1>1, <1>2, <1>3, PTL DEF Spec

(* What is left to be done when everything is applied: nothing. *)
LEMMA WhenSettled ==
  ASSUME CInv, undisturbed, Settled
  PROVE  \E t : /\ prevNeeded[link] = {t} /\ t \in subscriptions
                /\ subscriptions \cap Candidates \subseteq {t}
<1>1. /\ link = opened /\ opened > 0 /\ link # NoConnection
      /\ Latest.stage \in {"ready", "recording"} /\ Latest.due = <<>> /\ commands = <<>>
  BY NumbersOfConnections DEF CInv, Settled, Alone, Latest
<1>2. PICK t \in Resolvable : Goal = {t} /\ prevNeeded[link] = {t}
  BY <1>1 DEF CInv, Aimed, Goal
<1>3. Stream = <<>> /\ Len(Stream) = 0
  <2>1. <<>> \o <<>> = <<>>
    OBVIOUS
  <2> QED
    BY <1>1, <2>1 DEF Stream
<1>4. On(Stream, subscriptions, 1, t)
  BY <1>1, <1>2, <1>3 DEF CInv, Brought
<1>5. \A d \in Candidates \ {t} : Off(Stream, subscriptions, 1, d)
  BY <1>1, <1>2, <1>3 DEF CInv, Brought
<1>6. t \in subscriptions
  BY <1>4 DEF On
<1>7. \A d \in Candidates \ {t} : d \notin subscriptions
  BY <1>5 DEF Off
<1> QED
  BY <1>2, <1>6, <1>7

LEMMA AtMostOne ==
  ASSUME NEW S, NEW t, S \subseteq {t}
  PROVE  Cardinality(S) <= 1
<1>1. IsFiniteSet({t}) /\ Cardinality({t}) = 1
  BY FS_Singleton
<1>2. Cardinality(S) <= Cardinality({t})
  BY <1>1, FS_Subset
<1> QED
  BY <1>1, <1>2

(* As long as no connection is opened over a task that is still at work,   *)
(* and no contract is selected that cannot be resolved or in the middle of *)
(* an announcement, one candidate at most feeds the backend whenever every *)
(* command is applied (_announce, plan_control_commands).                  *)
THEOREM OneCandidateFeeds ==
  ASSUME ManualOverride = NoContract, InitialSource \in Instruments
  PROVE  Spec => []OneSourceFeeds
<1>1. CInv => OneSourceFeeds
  BY WhenSettled, AtMostOne DEF OneSourceFeeds
<1> QED
  BY <1>1, CalmAlways, PTL

(* ... the AddOn is subscribed to what the coordinator of the connection   *)
(* takes for subscribed (ControlPlaneCoordinator.sync) ...                 *)
THEOREM BeliefIsRight ==
  ASSUME ManualOverride = NoContract, InitialSource \in Instruments
  PROVE  Spec => []BelievedSubscribed
<1>1. CInv => BelievedSubscribed
  BY WhenSettled DEF BelievedSubscribed
<1> QED
  BY <1>1, CalmAlways, PTL

(* ... and it never runs out of subscriptions, in whatever order commands  *)
(* are sent, lost with their connection and announced again.               *)
THEOREM FeedGoesOn ==
  ASSUME ManualOverride = NoContract, InitialSource \in Instruments
  PROVE  Spec => []FeedNeverEmpty
<1>1. CInv => FeedNeverEmpty
  BY DEF CInv, FeedNeverEmpty
<1> QED
  BY <1>1, CalmAlways, PTL
=============================================================================
