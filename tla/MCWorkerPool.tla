---------------------------- MODULE MCWorkerPool ----------------------------
(* Two threads and two tasks: a Stop() while one thread is busy and a task *)
(* is stored, a count changed between Start() and Stop(), a task pushed    *)
(* behind the sentinels and left to the next Start().                      *)
EXTENDS WorkerPool

CONSTANTS w1, w2, t1, t2

MCWorkers == {w1, w2}
MCTasks == {t1, t2}
=============================================================================
