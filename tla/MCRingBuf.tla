------------------------------ MODULE MCRingBuf ------------------------------
\* RingBuf for TLC: four cells, calls of up to four bytes (one more than fits).
EXTENDS RingBuf
=============================================================================
