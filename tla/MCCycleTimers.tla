---------------------------- MODULE MCCycleTimers ----------------------------
(* CycleTimers on small instances.                                           *)
EXTENDS CycleTimers

Config(refresh, ping, feeds) == [refresh |-> refresh, ping |-> ping, feeds |-> feeds]

\* Both timers on, and nothing automatic over another feed list.
MCConfigs == {Config(2, 1, "f"), Config(0, 0, "g")}
=============================================================================
