------------------------------ MODULE MCAlerts ------------------------------
(* One alert of any kind; its two copies, its detector and both feeds.     *)
EXTENDS Alerts
=============================================================================
