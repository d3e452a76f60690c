---------------------------- MODULE MCRequestStats ----------------------------
EXTENDS RequestStats
=============================================================================
