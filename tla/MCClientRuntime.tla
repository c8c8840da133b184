--------------------------- MODULE MCClientRuntime ---------------------------
EXTENDS ClientRuntime
=============================================================================
