--------------------------- MODULE MCClusterImages ---------------------------
EXTENDS ClusterImages
CONSTANTS r1
MCRefs == {r1}
MCMaxInvocations == 3
=============================================================================
