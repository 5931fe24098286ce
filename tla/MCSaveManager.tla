----------------------------- MODULE MCSaveManager -----------------------------
EXTENDS SaveManager
=============================================================================
