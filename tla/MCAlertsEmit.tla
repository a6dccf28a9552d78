---------------------------- MODULE MCAlertsEmit ----------------------------
(***************************************************************************)
(* Alerts with one more history variable, for the promise that a condition *)
(* which is met is emitted.                                                *)
(***************************************************************************)
EXTENDS Alerts

VARIABLE watching (* alerts that were enabled when each feed's bar closed  *)

Closes(f) == closed'[f] > closed[f]

WatchInit == Init /\ watching = [f \in Feeds |-> {}]

WatchNext ==
  /\ Next
  /\ watching' = [f \in Feeds |->
       IF Closes(f) THEN {a \in Alerts : engine[a].enabled} ELSE watching[f]]

WatchSpec == WatchInit /\ [][WatchNext]_<<vars, watching>>

(* "WHEN an enabled alert condition is satisfied, THE Alert_Engine SHALL   *)
(* emit an alert_event": a live bar that meets the condition of an alert   *)
(* enabled since before it closed leaves an event when it is worked off.   *)
ConditionsEmit ==
  [][\A f \in Feeds : \A a \in handler[f].met \cap watching[f] :
       Finishes(f) => events[a][closed[f]] > 0]_<<vars, watching>>
=============================================================================
