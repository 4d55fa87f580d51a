\* The waterfall cycle, its objects and the pipe flushes of the Dalaran
\* Sewers arena under every sequence of update diffs and pipe re-entries.
\* The arena never stops updating once started, so there is no deadlock.
CONSTANTS
    WATERFALL_TIMER_MIN = 4
    WATERFALL_TIMER_MAX = 6
    WATERFALL_WARNING_DURATION = 3
    WATERFALL_DURATION = 4
    WATERFALL_KNOCKBACK_TIMER = 1
    PIPE_KNOCKBACK_FIRST_DELAY = 3
    PIPE_KNOCKBACK_DELAY = 2
    GET_OUT_TEXTURES = 2
    PIPE_KNOCKBACK_TOTAL_COUNT = 2
    Diff = {1, 2}

SPECIFICATION FairSpec
INVARIANT TypeOK
INVARIANT WaterfallObjectsMatchStatus
PROPERTY WaterfallCycle
PROPERTY WaterfallKeepsCycling
