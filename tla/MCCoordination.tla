--------------------------- MODULE MCCoordination ---------------------------
EXTENDS Coordination
CONSTANTS i1, i2
=============================================================================
