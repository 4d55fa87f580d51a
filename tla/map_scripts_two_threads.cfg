CONSTANTS
    m = m
    w = w
    s1 = s1
    s2 = s2
    NoEntry = NoEntry
    MapThread = m
    ScriptIds = {s1, s2}
    Commands <- MCCommands
    Delays = {0, 1}
    MaxStarts = 2
    MaxTime = 2
    Threads = {m, w}
    Scripts <- MCScripts
SPECIFICATION FairSpec
INVARIANT ExclusiveProcessing
