--------------------------- MODULE MCLeaseManager ---------------------------
\* LeaseManager on a small instance: two identities with their own files.
EXTENDS LeaseManager, TLC

CONSTANTS merge, resource, fm, fr

MCIds == {merge, resource}
MCFiles == {fm, fr}
MCFileName == (merge :> fm) @@ (resource :> fr)
MCTTL == (merge :> 3) @@ (resource :> 2)
=============================================================================
