----------------------------- MODULE MCServices -----------------------------
(***************************************************************************)
(* The services beside the pipeline on small instances.                    *)
(***************************************************************************)
EXTENDS Services, TLC

CONSTANTS t1, t2, x1, x2

SizeTwo == [s \in {x1, x2} |-> 2]
EntrySizeTwo == [hit |-> 2, miss |-> 2]
HitScores == [hit |-> 1, miss |-> 0]
OneDevice == <<x1>>

RequestSymmetry == Permutations({t1, t2})
=============================================================================
