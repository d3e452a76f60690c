------------------------------ MODULE MCLivePage ------------------------------
EXTENDS LivePage
=============================================================================
