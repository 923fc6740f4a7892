------------------------- MODULE MCCronAutomations --------------------------
(***************************************************************************)
(* Instances of CronAutomations for TLC.                                   *)
(***************************************************************************)
EXTENDS CronAutomations

EveryMinute == {Minutes \ {0}}

\* Every minute, or once at minute 2.
TwoSchedules == {Minutes \ {0}, {2}}
=============================================================================
