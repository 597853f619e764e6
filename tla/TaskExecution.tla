---------------------------- MODULE TaskExecution ----------------------------
(***************************************************************************)
(* What a worker pool promises: a submitted task is begun once, in the     *)
(* order of submission, and finished once by the worker that began it.     *)
(***************************************************************************)
CONSTANTS Tasks,      \* the tasks, each submitted at most once
          Workers     \* who can run one

VARIABLES backlog,    \* submitted and not begun
          before,     \* the pairs of them, the one submitted earlier first
          running,    \* running[w]: the tasks worker w has begun, at most one
          done        \* the finished tasks

Init == /\ backlog = {}
        /\ before = {}
        /\ running = [w \in Workers |-> {}]
        /\ done = {}

Submitted == backlog \cup done \cup UNION {running[w] : w \in Workers}

Submit(x) == /\ x \notin Submitted
             /\ backlog' = backlog \cup {x}
             /\ before' = before \cup (backlog \X {x})
             /\ UNCHANGED <<running, done>>

(* The task submitted first is begun.                                      *)
Begin(w, x) == /\ x \in backlog
               /\ \A y \in backlog : <<y, x>> \notin before
               /\ running[w] = {}
               /\ running' = [running EXCEPT ![w] = {x}]
               /\ backlog' = backlog \ {x}
               /\ before' = before \ ({x} \X backlog)
               /\ UNCHANGED done

Finish(w) == /\ running[w] # {}
             /\ running[w] \cap done = {}
             /\ done' = done \cup running[w]
             /\ running' = [running EXCEPT ![w] = {}]
             /\ UNCHANGED <<backlog, before>>

Next == \/ \E x \in Tasks : Submit(x)
        \/ \E w \in Workers : Finish(w) \/ \E x \in Tasks : Begin(w, x)

Spec == Init /\ [][Next]_<<backlog, before, running, done>>
=============================================================================
