--------------------------- MODULE MCFrameBuffer ---------------------------
\* FrameBuffer on small buffers.  Characters are never compared with each other.
EXTENDS FrameBuffer, TLC

CharSymmetry == Permutations(Char)
=============================================================================
