\* Every sequence of MoveSplineFlag setter calls and &= / |= with masks
\* outside the exclusive groups, from the default and a Done word.
CONSTANTS
    InitWord <- MCInitWord
    AndMask <- MCAndMask
    OrMask <- MCOrMask

SPECIFICATION Spec
INVARIANT ExclusiveFlags
INVARIANT FieldsMatchMasks
