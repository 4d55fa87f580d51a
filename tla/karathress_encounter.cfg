\* The four creatures with up to three pulls (so a wipe can follow a
\* partial kill and be followed by a re-pull), Sharkkis' Pet_Timer of 2 on
\* diffs of 1 and 2 (so the strict test meets diff = Pet_Timer), and a
\* uint32 range of 6 so that the decrements after the summon wrap.
CONSTANTS
    MaxPulls = 3
    PetTime = 2
    Diffs = {1, 2}
    TimerWrap = 6

SPECIFICATION FairSpec
INVARIANT TypeOK
INVARIANT IdleCreaturesReset
INVARIANT PetCountdownArmed
PROPERTY EvadeSpreads
PROPERTY PullSpreads
\* Once the pulls are spent and the raid is gone the encounter idles: the
\* map keeps calling UpdateAI, which returns at UpdateVictim.
CHECK_DEADLOCK FALSE
