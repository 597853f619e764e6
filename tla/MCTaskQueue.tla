---------------------------- MODULE MCTaskQueue ----------------------------
(* One main thread and another; two tasks that delete themselves and one   *)
(* that adds itself again; one clearing. A budget of 1 is exceeded by one  *)
(* task of cost 2 or by the second of two of cost 1.                       *)
EXTENDS TaskQueue

CONSTANTS main, other, k1, k2, s

MCMain == {main}
MCOthers == {other}
MCTasks == {k1, k2, s}
MCStatic == {s}
MCBudgets == {1}
MCCosts == {1, 2}
=============================================================================
