---------------------- MODULE MCProducerConsumerQueue ----------------------
(* Two producers, two consumers and three items: two pushes can overlap,   *)
(* a consumer can be overtaken between its wakeup and its check, and both  *)
(* consumers can sleep while values arrive.                                *)
EXTENDS ProducerConsumerQueue

CONSTANTS p1, p2, c1, c2, x1, x2, x3

MCProducers == {p1, p2}
MCConsumers == {c1, c2}
MCItems == {x1, x2, x3}
=============================================================================
