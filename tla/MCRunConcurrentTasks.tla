------------------------ MODULE MCRunConcurrentTasks ------------------------
(* Three calls with up to two functions each share two workers: the last   *)
(* task of a call can end before, while and after its caller waits, and a  *)
(* call may find all workers busy with others. One is made from outside,   *)
(* one by a function of another, one by either; both workers may end up    *)
(* waiting.                                                                *)
EXTENDS RunConcurrentTasks

CONSTANTS a1, a2, b1, b2, w1, w2

MCCallers == {a1, a2}
MCOuter == {a1, b1}
MCNone == {}
MCNested == {a1, b1, b2}
MCInner == {b1, b2}
MCWorkers == {w1, w2}
=============================================================================
