--------------------------- MODULE MCMonitorFeed ---------------------------
(***************************************************************************)
(* The model checker needs no values of its own for the feed: its bounds   *)
(* are numbers, given in the configurations.                               *)
(***************************************************************************)
EXTENDS MonitorFeed
=============================================================================
