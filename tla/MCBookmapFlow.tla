----------------------------- MODULE MCBookmapFlow -----------------------------
(***************************************************************************)
(* BookmapFlow over three minutes, with a timeframe of two minutes above   *)
(* the native one.                                                         *)
(***************************************************************************)
EXTENDS BookmapFlow

MCMinutes == 0 .. 2
MCTimeframes == {1, 2}
================================================================================
