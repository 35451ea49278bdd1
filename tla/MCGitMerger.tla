------------------------ MODULE MCGitMerger ---------------------------------
\* GitMerger on small instances.
EXTENDS GitMerger
=============================================================================
