SPECIFICATION FairSpec
CONSTANT Conn = {c1, c2, c3}
INVARIANTS NilMeansClean ListenErrorSurfaces
PROPERTY ServerEnds
CHECK_DEADLOCK FALSE
