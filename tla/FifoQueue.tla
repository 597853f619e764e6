------------------------------ MODULE FifoQueue ------------------------------
(***************************************************************************)
(* What ProducerConsumerQueue<T> (queue.h) promises its callers: values    *)
(* leave in the order they entered, each exactly once and unchanged, and   *)
(* every pop ends with the oldest value in the caller's variable.          *)
(***************************************************************************)
EXTENDS Sequences

CONSTANTS Consumers,  \* the threads that pop
          Values      \* what can be stored

VARIABLES queue,      \* the contents, oldest first
          item        \* item[c]: the variable consumer c pops into

Init == /\ queue = << >>
        /\ item \in [Consumers -> Values]

Enqueue(v) == /\ queue' = Append(queue, v)
              /\ UNCHANGED item

Dequeue(c) == /\ queue # << >>
              /\ item' = [item EXCEPT ![c] = Head(queue)]
              /\ queue' = Tail(queue)

Next == \/ \E v \in Values : Enqueue(v)
        \/ \E c \in Consumers : Dequeue(c)

Spec == Init /\ [][Next]_<<queue, item>>
=============================================================================
