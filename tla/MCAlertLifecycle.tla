-------------------------- MODULE MCAlertLifecycle --------------------------
(***************************************************************************)
(* Two setups and two configurations for the model checker.  A setup may   *)
(* not be exchanged for another here: SetupsEnd is a liveness property.    *)
(***************************************************************************)
EXTENDS AlertLifecycle

CONSTANTS s1, s2, c1, c2

MCSetups  == {s1, s2}
MCConfigs == {c1, c2}
=============================================================================
