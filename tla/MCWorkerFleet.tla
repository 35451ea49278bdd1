--------------------------- MODULE MCWorkerFleet ---------------------------
\* WorkerFleet on a small instance; runs are interchangeable.
EXTENDS WorkerFleet

CONSTANTS a1, a2

MCTwo == <<a1, a2>>
RunSymmetry == Permutations(Runs)
=============================================================================
