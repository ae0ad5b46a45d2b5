\* Three slots, six items: the ring wraps twice, and the evicted item of one
\* lap is disposed of in the next.
SPECIFICATION Spec
CONSTANTS
    ItemCount = 3
    ZeroItem = ZeroItem
    Item = {i1, i2, i3, i4, i5, i6}
SYMMETRY ItemSymmetry
INVARIANTS
    TypeOK
    LiveNeverDisposed
    DisposedAtMostOnce
    EvictedIsDisposed
PROPERTY ImplementsUndoStack
\* destroy() ends the life of the ring.
CHECK_DEADLOCK FALSE
