---------------------------- MODULE MCStringCache ----------------------------
(* The sets are given in the configurations. Threads, objects, strings and *)
(* addresses are interchangeable, and so the symmetry is sound.            *)
EXTENDS StringCache, TLC

Symmetry == Permutations(Threads) \cup Permutations(Objects)
              \cup Permutations(Keys) \cup Permutations(Nodes)
=============================================================================
