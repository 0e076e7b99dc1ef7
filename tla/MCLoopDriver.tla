----------------------------- MODULE MCLoopDriver -----------------------------
EXTENDS LoopDriver
=============================================================================
