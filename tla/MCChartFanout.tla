----------------------------- MODULE MCChartFanout -----------------------------
(***************************************************************************)
(* ChartFanout with two timeframes and two connections, of which the first *)
(* may be lost, slow or replaced.                                          *)
(***************************************************************************)
EXTENDS ChartFanout

CONSTANTS oneMinute, fiveMinutes
================================================================================
