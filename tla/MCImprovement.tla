--------------------------- MODULE MCImprovement ----------------------------
\* Improvement on small instances.
EXTENDS Improvement
=============================================================================
