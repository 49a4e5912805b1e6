----------------------------- MODULE MCMemTrace -----------------------------
EXTENDS MemTrace
=============================================================================
