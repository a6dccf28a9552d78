----------------------------- MODULE TickStream -----------------------------
(***************************************************************************)
(* What /ws/nt ingestion promises the engines between two starts of the    *)
(* backend: the events of a stream are admitted in the order of their      *)
(* numbers, every number skipped on the way is reported missing, and an    *)
(* admitted event is run through the engines once unless recording it      *)
(* failed.  A restart forgets where it was.                                *)
(***************************************************************************)
EXTENDS Integers

CONSTANTS Streams, MaxSequence

VARIABLES
  top,     (* highest number admitted per stream, 0 before the first *)
  pending, (* admitted events not yet settled                        *)
  done,    (* events the engines were run with                       *)
  failed,  (* events that could not be recorded                      *)
  missed   (* events reported missing since the last start           *)

vars == <<top, pending, done, failed, missed>>

Skipped(s, n) ==
  IF top[s] = 0 THEN {}
  ELSE [stream : {s}, sequence : top[s] + 1 .. n - 1]

Admit(s, n) ==
  /\ n > top[s]
  /\ missed' = missed \cup Skipped(s, n)
  /\ pending' = pending \cup {[stream |-> s, sequence |-> n]}
  /\ top' = [top EXCEPT ![s] = n]
  /\ UNCHANGED <<done, failed>>

Complete(e) ==
  /\ e \in pending
  /\ pending' = pending \ {e}
  /\ done' = done \cup {e}
  /\ UNCHANGED <<top, failed, missed>>

Fail(e) ==
  /\ e \in pending
  /\ pending' = pending \ {e}
  /\ failed' = failed \cup {e}
  /\ UNCHANGED <<top, done, missed>>

Init ==
  /\ top = [s \in Streams |-> 0]
  /\ pending = {} /\ done = {} /\ failed = {} /\ missed = {}

Restart ==
  /\ top' = [s \in Streams |-> 0]
  /\ pending' = {} /\ missed' = {}
  /\ UNCHANGED <<done, failed>>

Next ==
  \/ Restart
  \/ \E s \in Streams, n \in 1 .. MaxSequence : Admit(s, n)
  \/ \E e \in pending : Complete(e) \/ Fail(e)

Spec == Init /\ [][Next]_vars
=============================================================================
