------------------------------ MODULE MCSpiSd ------------------------------
EXTENDS SpiSd
=============================================================================
