CONSTANTS
    p1 = p1
    p2 = p2
    p3 = p3
    e1 = e1
    e2 = e2
    i1 = i1
    i2 = i2
    c1 = c1
    a1 = a1
    a2 = a2
    NoBidder = NoBidder
    Players <- MCPlayers
    Entries <- MCEntries
    ItemIds <- MCItemIds
    AuctionIds <- MCAuctionIds
    InitItems <- MCInitItems
    InitMoney <- MCInitMoney
    MaxStack <- MCMaxStack
    Deposit <- MCDeposit
    OutBid <- MCOutBid
    AuctionCut <- MCAuctionCut
    UseCounts = {1, 2}
    MaxPacketItems = 2
    MinBids = {1}
    Buyouts = {0, 3}
    BidAmounts = {1, 2, 3}
    AuctioneerData = {TRUE, FALSE}
SPECIFICATION Spec
INVARIANT TypeOK
INVARIANT MoneyNeverCreated
INVARIANT ItemCountConserved
CHECK_DEADLOCK FALSE
