------------------------ MODULE MCAssignmentEngine --------------------------
\* AssignmentEngine on small instances.
EXTENDS AssignmentEngine
=============================================================================
