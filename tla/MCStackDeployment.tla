------------------------- MODULE MCStackDeployment -------------------------
EXTENDS StackDeployment
=============================================================================
