------------------------ MODULE MCFullMatchRunner ------------------------
EXTENDS FullMatchRunner
=============================================================================
