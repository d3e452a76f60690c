---------------------------- MODULE MCResponseChart ----------------------------
EXTENDS ResponseChart
=============================================================================
