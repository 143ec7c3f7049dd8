-------------------------------- MODULE MCNx --------------------------------
EXTENDS NxThread
=============================================================================
