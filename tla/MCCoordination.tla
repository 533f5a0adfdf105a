--------------------------- MODULE MCCoordination ---------------------------
(* Coordination on small instances: interchangeable jobs, workers and repositories. *)
EXTENDS Coordination, TLC

Interchangeable == Permutations(Jobs) \cup Permutations(Workers) \cup Permutations(Repos)
=============================================================================
