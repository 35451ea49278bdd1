--------------------------- MODULE MCOrchestrator ---------------------------
\* Orchestrator on small instances.
EXTENDS Orchestrator, TLC

Symmetry == Permutations(Issues) \cup Permutations(Accounts) \cup Permutations(Ops)
=============================================================================
