-------------------------------- MODULE MCVi --------------------------------
\* Vi on small texts and a short undo ring.
EXTENDS Vi, TLC
=============================================================================
