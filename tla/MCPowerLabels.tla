---------------------------- MODULE MCPowerLabels ----------------------------
EXTENDS PowerLabels
=============================================================================
