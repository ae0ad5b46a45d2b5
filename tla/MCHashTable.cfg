\* Three keys, every hash function into two values, doubled up to three times:
\* sizes 1, 2, 4, 8, or 4 and 8.
SPECIFICATION Spec
CONSTANTS
    Key = {k1, k2, k3}
    Value = {v1, v2}
    EMPTY = EMPTY
    DELETED = DELETED
    NoValue = NoValue
    HashValue = {1, 3}
    Capacity = {1, 4}
    MaxUsed = 5
INVARIANTS
    TypeOK
    KeepsAnEmptyBucket
PROPERTIES
    FindsMembers
    CallsReturn
    ImplementsKeyMap
\* destroy_hasht() ends the life of a table.
CHECK_DEADLOCK FALSE
