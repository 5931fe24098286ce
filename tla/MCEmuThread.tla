----------------------------- MODULE MCEmuThread -----------------------------
EXTENDS EmuThread
=============================================================================
