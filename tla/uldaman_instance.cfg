CONSTANTS
    NumKeepers = 3
    NumWall = 2
    NumOther = 1
    SealTime = 3
    Diffs = {1, 2}
    MaxRestarts = 2
SPECIFICATION FairSpec
INVARIANT TypeOK
INVARIANT DoorsFollowProgress
INVARIANT ProgressPersisted
INVARIANT MinionsDownWithArchaedas
PROPERTY KeepersClearedBeforeAltarDoors
PROPERTY KeystoneOpensSeal
CHECK_DEADLOCK FALSE
