-------------------------- MODULE SequenceValidator --------------------------
(***************************************************************************)
(* The decision SequenceValidator.evaluate takes on one sequence number,   *)
(* given the highest one processed for the stream.  Numbers start at 1, so *)
(* 0 stands for a stream without an entry in _highest.                     *)
(***************************************************************************)
EXTENDS Integers

NotSeen == 0

(* Mutant: a repetition of the highest number is taken for the next one. *)
OutcomeAcceptingDuplicates(prev, sequence) ==
  CASE prev = NotSeen -> "accept"
    [] prev # NotSeen /\ sequence < prev -> "out_of_order"
    [] prev # NotSeen /\ sequence \in {prev, prev + 1} -> "accept"
    [] prev # NotSeen /\ sequence > prev + 1 -> "gap"

(* Mutant: one missing event does not make a gap. *)
OutcomeToleratingOne(prev, sequence) ==
  CASE prev = NotSeen -> "accept"
    [] prev # NotSeen /\ sequence = prev -> "duplicate"
    [] prev # NotSeen /\ sequence < prev -> "out_of_order"
    [] prev # NotSeen /\ sequence \in {prev + 1, prev + 2} -> "accept"
    [] prev # NotSeen /\ sequence > prev + 2 -> "gap"

Outcome(prev, sequence) ==
  CASE prev = NotSeen -> "accept"
    [] prev # NotSeen /\ sequence = prev -> "duplicate"
    [] prev # NotSeen /\ sequence < prev -> "out_of_order"
    [] prev # NotSeen /\ sequence = prev + 1 -> "accept"
    [] prev # NotSeen /\ sequence > prev + 1 -> "gap"

Accepted(outcome) == outcome \in {"accept", "gap"}

(* The Stream_Gap of a "gap" outcome: from and to are both received. *)
StreamGap(stream, prev, sequence) ==
  [stream |-> stream, gap_from |-> prev, gap_to |-> sequence]

Missing(gap) == gap.gap_from + 1 .. gap.gap_to - 1
=============================================================================
