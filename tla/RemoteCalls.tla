------------------------------ MODULE RemoteCalls ------------------------------
(***************************************************************************)
(* What a session may rely on when it calls the terminal: a call that      *)
(* returns has been executed, a call that raises may or may not have been, *)
(* and nothing is executed for a call that is over.                        *)
(***************************************************************************)
CONSTANT Sessions

VARIABLES phase, result

Init ==
  /\ phase = [s \in Sessions |-> "idle"]
  /\ result = [s \in Sessions |-> "none"]

Call(s) ==
  /\ phase[s] = "idle"
  /\ phase' = [phase EXCEPT ![s] = "called"]
  /\ result' = [result EXCEPT ![s] = "none"]

Execute(s) ==
  /\ phase[s] = "called"
  /\ phase' = [phase EXCEPT ![s] = "executed"]
  /\ UNCHANGED result

Return(s) ==
  /\ phase[s] = "executed"
  /\ phase' = [phase EXCEPT ![s] = "idle"]
  /\ result' = [result EXCEPT ![s] = "ok"]

Raise(s) ==
  /\ phase[s] \in {"called", "executed"}
  /\ phase' = [phase EXCEPT ![s] = "idle"]
  /\ result' = [result EXCEPT ![s] = "failed"]

Next == \E s \in Sessions : Call(s) \/ Execute(s) \/ Return(s) \/ Raise(s)

Spec == Init /\ [][Next]_<<phase, result>>
===============================================================================
