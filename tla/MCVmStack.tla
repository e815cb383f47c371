----------------------------- MODULE MCVmStack -----------------------------
EXTENDS VmStack
=============================================================================
