--------------------------- MODULE MCSoftRenderer ---------------------------
EXTENDS SoftRenderer
=============================================================================
