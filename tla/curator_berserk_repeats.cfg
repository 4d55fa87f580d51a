\* The Curator's hard enrage after its timer runs out, under every order of
\* updates, damage and evocations within one pull.
CONSTANTS
    AddTime = 2
    BoltTime = 3
    BoltEnragedTime = 1
    BerserkTime = 4
    MaxMana = 100
    Diffs = {1, 2}
    MaxPulls = 1
    MaxCasts = 2

SPECIFICATION Spec
INVARIANT BerserkCastOnce
CHECK_DEADLOCK FALSE
