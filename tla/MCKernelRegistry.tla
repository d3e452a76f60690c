---------------------------- MODULE MCKernelRegistry ----------------------------
EXTENDS KernelRegistry
=============================================================================
