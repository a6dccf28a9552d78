----------------------------- MODULE EventBuffer -----------------------------
(***************************************************************************)
(* What the outbound buffer of the NT_AddOn promises its two neighbours,   *)
(* whichever class implements it: the events of a stream are numbered      *)
(* without a hole, they stand in the buffer in the order they were         *)
(* numbered, and putting one event costs at most one event.                *)
(***************************************************************************)
EXTENDS Integers, Sequences, SequencesExt

CONSTANTS Streams, Capacity, MaxSequence

VARIABLES
  counter,  (* last number given to an event of each stream *)
  buffer    (* the events waiting for the sender            *)

vars == <<counter, buffer>>

Put(s) ==
  LET e == [stream |-> s, sequence |-> counter[s] + 1]
      Keep == buffer' = Append(buffer, e)
      Shed == \E i \in DOMAIN buffer :
                buffer' = Append(RemoveAt(buffer, i), e)
      Supersede == \E i \in DOMAIN buffer :
                     /\ buffer[i].stream = s
                     /\ \A j \in DOMAIN buffer : j > i => buffer[j].stream # s
                     /\ buffer' = [buffer EXCEPT ![i] = e]
      Refuse == UNCHANGED buffer
  IN
  /\ counter[s] < MaxSequence
  /\ counter' = [counter EXCEPT ![s] = @ + 1]
  /\ Keep \/ Shed \/ Supersede \/ Refuse
  /\ Len(buffer') <= Capacity

Take ==
  /\ buffer # <<>>
  /\ buffer' = Tail(buffer)
  /\ UNCHANGED counter

Init ==
  /\ counter = [s \in Streams |-> 0]
  /\ buffer = <<>>

Next == (\E s \in Streams : Put(s)) \/ Take

Spec == Init /\ [][Next]_vars
=============================================================================
