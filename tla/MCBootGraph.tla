----------------------------- MODULE MCBootGraph ------------------------------
EXTENDS BootGraph
=============================================================================
