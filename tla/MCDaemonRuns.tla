---------------------------- MODULE MCDaemonRuns ----------------------------
(* Instances of DaemonRuns for TLC: two overlapping runs in session s1 and  *)
(* one run in session s2 (TwoSessions), or all runs in s1 (OneSession).     *)
EXTENDS DaemonRuns

CONSTANTS r1, r2, r3, s1, s2

Runs3 == {r1, r2, r3}
Runs2 == {r1, r2}
TwoSessions == [r \in Runs3 |-> IF r = r3 THEN s2 ELSE s1]
OneSession == [r \in Run |-> s1]
=============================================================================
