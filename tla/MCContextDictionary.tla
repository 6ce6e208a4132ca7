------------------------- MODULE MCContextDictionary -------------------------
EXTENDS ContextDictionary, TLC

(* Workers, and the names of each level, are interchangeable.              *)
Symmetry ==
    Permutations(Worker) \cup Permutations(Schema)
=============================================================================
