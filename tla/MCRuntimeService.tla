-------------------------- MODULE MCRuntimeService --------------------------
(* The runs contend for the mutex of one session; ids, keys, connection     *)
(* threads and workers are interchangeable.                                 *)
EXTENDS RuntimeService, TLC

OneSession == [r \in Runs |-> CHOOSE s \in Sessions : TRUE]

Symmetry == Permutations(Runs) \cup Permutations(Keys)
            \cup Permutations(Clients) \cup Permutations(Workers)
=============================================================================
