------------------------- MODULE MCKernelLifecycle -------------------------
EXTENDS KernelLifecycle
=============================================================================
