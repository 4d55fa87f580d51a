---------------------------- MODULE AuctionHouse ----------------------------
(***************************************************************************)
(* The auction house opcode handlers of WorldSession                       *)
(* (src/server/game/Handlers/AuctionHouseHandler.cpp): HandleAuctionSellItem,*)
(* HandleAuctionPlaceBid and HandleAuctionRemoveItem.  The world thread    *)
(* runs each handler to completion, so each is one atomic step.  The state *)
(* is what they change: the characters' money and items, the auctions of   *)
(* the auction house, the money sent by mail, and what the house keeps     *)
(* (deposits of cancelled auctions and auction cuts).                      *)
(*                                                                         *)
(* The mails the handlers send through AuctionHouseMgr (outbid, cancelled, *)
(* successful, won) are credited as the TrinityCore mailer does: the       *)
(* outbid and cancelled mails return the old bid to the old bidder, the    *)
(* successful mail pays the seller bid + deposit - cut, the won mail       *)
(* carries the item.  Validation failures that change nothing (a missing   *)
(* auctioneer, a bad run time, an error result sent back) are stuttering.  *)
(***************************************************************************)
EXTENDS Naturals, Sequences, SequencesExt, Functions

CONSTANTS
    Players,        \* characters at the auctioneer
    Entries,        \* item template entries
    ItemIds,        \* item GUIDs, including the ones CloneItem may allocate
    AuctionIds,     \* ids sObjectMgr->GenerateAuctionID() may return
    NoBidder,       \* ObjectGuid::Empty in AuctionEntry::Bidder
    InitItems,      \* the items the characters start with
    InitMoney,      \* [Players -> Nat]
    MaxStack,       \* [Entries -> Nat]: ItemTemplate::GetMaxStackCount
    UseCounts,      \* AuctionSellItem UseCount values sent
    MaxPacketItems, \* bound on the number of items in one sell packet
    MinBids,        \* MinBid values sent
    Buyouts,        \* BuyoutPrice values sent, 0 meaning no buyout
    BidAmounts,     \* BidAmount values sent
    AuctioneerData, \* whether the auctioneer's CreatureData is found
    Deposit(_, _),  \* AuctionHouseMgr::GetAuctionDeposit(entry, count)
    OutBid(_),      \* AuctionEntry::GetAuctionOutBid, of the current bid
    AuctionCut(_)   \* AuctionEntry::GetAuctionCut, of the bid

ASSUME NoBidder \notin Players

VARIABLES
    money,      \* Player::GetMoney per character
    mail,       \* money sent to each character by mail, not yet taken
    items,      \* the live items: GUID -> [owner, entry, count, loc]
    auctions,   \* the auction house: id -> AuctionEntry
    house       \* deposits and cuts the house has kept

vars == <<money, mail, items, auctions, house>>

Item == [owner : Players, entry : Entries, count : Nat,
         loc : {"inv", "ah", "mail"}]

PacketItem == [guid : ItemIds, use : UseCounts]

Packets == UNION {[1..n -> PacketItem] : n \in 1..MaxPacketItems}

Credit(f, who, amount) == [f EXCEPT ![who] = @ + amount]

Init ==
    /\ money = InitMoney
    /\ mail = [p \in Players |-> 0]
    /\ items = InitItems
    /\ auctions = << >>
    /\ house = 0

-----------------------------------------------------------------------------
(* HandleAuctionSellItem                                                   *)

(* Player::GetItemByGuid: an item in the character's inventory.            *)
GetItemByGuid(p, g) ==
    g \in DOMAIN items /\ items[g].owner = p /\ items[g].loc = "inv"

(* Player::GetItemCount(entry, false) over the inventory.                  *)
GetItemCount(p, e) ==
    SumFunction([g \in {h \in DOMAIN items :
                           GetItemByGuid(p, h) /\ items[h].entry = e}
                   |-> items[g].count])

FinalCount(pkt) == FoldSeq(LAMBDA pi, acc : pi.use + acc, 0, pkt)

(* Every check of the handler before the deposit is charged: the per-item  *)
(* checks of the first loop (the "Dupe Auction mop" test inside it can     *)
(* never fire, since packet.Items is not empty there), finalCount > 0, no  *)
(* GUID twice, and no item whose max stack is below finalCount.            *)
SellItemAccepted(p, pkt) ==
    /\ \A i \in DOMAIN pkt :
          LET g == pkt[i].guid IN
          /\ GetItemByGuid(p, g)
          /\ items[g].count >= pkt[i].use
          /\ GetItemCount(p, items[g].entry) >= pkt[i].use
    /\ FinalCount(pkt) > 0
    /\ IsInjective([i \in DOMAIN pkt |-> pkt[i].guid])
    /\ \A i \in DOMAIN pkt : MaxStack[items[pkt[i].guid].entry] >= FinalCount(pkt)

SellDeposit(pkt) == Deposit(items[pkt[1].guid].entry, FinalCount(pkt))

NewAuction(p, g, minBid, buyout, deposit) ==
    [owner |-> p, item |-> g, startbid |-> minBid, bid |-> 0,
     bidder |-> NoBidder, buyout |-> buyout, deposit |-> deposit]

(* Variant of RemoveUsed that reduces the stacks used in part but leaves   *)
(* the stacks used whole in the inventory.                                 *)
RemoveUsedKeepsFull(its, pkt) ==
    LET used == {pkt[i].guid : i \in DOMAIN pkt}
        use(g) == pkt[CHOOSE i \in DOMAIN pkt : pkt[i].guid = g].use
    IN  [g \in DOMAIN its |->
            IF g \in used /\ its[g].count # use(g)
            THEN [its[g] EXCEPT !.count = @ - use(g)] ELSE its[g]]

(* The loop of lines 325-345 on the clone path: a stack whose count equals *)
(* its UseCount is deleted, any other stack loses UseCount.                *)
RemoveUsed(its, pkt) ==
    LET used == {pkt[i].guid : i \in DOMAIN pkt}
        use(g) == pkt[CHOOSE i \in DOMAIN pkt : pkt[i].guid = g].use
        whole == {g \in used : its[g].count = use(g)}
    IN  [g \in DOMAIN its \ whole |->
            IF g \in used THEN [its[g] EXCEPT !.count = @ - use(g)] ELSE its[g]]

(* The deposit is charged, then the auctioneer's CreatureData is looked up *)
(* (when two-side interaction is off); when it is missing the handler      *)
(* deletes the entry and returns without giving the deposit back.          *)
SellItemNoAuctioneerData(p, pkt) ==
    /\ FALSE \in AuctioneerData
    /\ SellItemAccepted(p, pkt)
    /\ money[p] >= SellDeposit(pkt)
    /\ money' = [money EXCEPT ![p] = @ - SellDeposit(pkt)]
    /\ UNCHANGED <<mail, items, auctions, house>>

(* A single item sold whole is moved to the auction house; otherwise the  *)
(* first item is cloned with count finalCount and the used stacks are      *)
(* removed or reduced.                                                     *)
SellItem(p, pkt, minBid, buyout) ==
    /\ TRUE \in AuctioneerData
    /\ SellItemAccepted(p, pkt)
    /\ money[p] >= SellDeposit(pkt)
    /\ money' = [money EXCEPT ![p] = @ - SellDeposit(pkt)]
    /\ \E a \in AuctionIds \ DOMAIN auctions :
          LET first == pkt[1].guid IN
          IF Len(pkt) = 1 /\ items[first].count = pkt[1].use
          THEN /\ items' = [items EXCEPT ![first].loc = "ah"]
               /\ auctions' = (a :> NewAuction(p, first, minBid, buyout,
                                               SellDeposit(pkt))) @@ auctions
          ELSE \E c \in ItemIds \ DOMAIN items :
               /\ items' = (c :> [owner |-> p, entry |-> items[first].entry,
                                  count |-> FinalCount(pkt), loc |-> "ah"])
                           @@ RemoveUsed(items, pkt)
               /\ auctions' = (a :> NewAuction(p, c, minBid, buyout,
                                               SellDeposit(pkt))) @@ auctions
    /\ UNCHANGED <<mail, house>>

-----------------------------------------------------------------------------
(* HandleAuctionPlaceBid                                                   *)

(* What the bidder is charged for taking the auction to price: only the   *)
(* difference when it already holds the bid, the whole price otherwise.    *)
BidPayment(au, p, price) ==
    IF au.bidder = p THEN price - au.bid ELSE price

(* Variant of OutbidMail that refunds the previous bid also when the      *)
(* bidder raises its own bid.                                              *)
OutbidMailSelf(m, au, p) ==
    IF au.bidder = NoBidder THEN m ELSE Credit(m, au.bidder, au.bid)

(* SendAuctionOutbiddedMail: the previous bidder, if another character,    *)
(* gets its bid back.                                                      *)
OutbidMail(m, au, p) ==
    IF au.bidder \in {NoBidder, p} THEN m ELSE Credit(m, au.bidder, au.bid)

(* The bid branch: the amount is below the buyout, or there is none.       *)
IsBid(au, amount) == amount < au.buyout \/ au.buyout = 0

(* The checks of lines 379-413: not the bidder's own auction, more than   *)
(* the current bid and at least the start bid, a full outbid step unless   *)
(* buying out, and HasEnoughMoney(BidAmount) even when only the difference *)
(* will be charged.                                                        *)
BidAccepted(p, a, amount) ==
    /\ a \in DOMAIN auctions
    /\ auctions[a].owner # p
    /\ amount > auctions[a].bid /\ amount >= auctions[a].startbid
    /\ IsBid(auctions[a], amount) =>
          amount >= auctions[a].bid + OutBid(auctions[a].bid)
    /\ money[p] >= amount

PlaceBid(p, a, amount) ==
    /\ BidAccepted(p, a, amount)
    /\ IsBid(auctions[a], amount)
    /\ LET au == auctions[a] IN
       /\ money' = [money EXCEPT ![p] = @ - BidPayment(au, p, amount)]
       /\ mail' = OutbidMail(mail, au, p)
       /\ auctions' = [auctions EXCEPT ![a].bidder = p, ![a].bid = amount]
    /\ UNCHANGED <<items, house>>

(* The buyout branch: the bidder pays the buyout (not the amount sent),    *)
(* the previous bidder is refunded, the seller is mailed bid + deposit -   *)
(* cut, the buyer is mailed the item, and the auction is removed.          *)
Buyout(p, a, amount) ==
    /\ BidAccepted(p, a, amount)
    /\ ~IsBid(auctions[a], amount)
    /\ LET au == auctions[a]
           cut == AuctionCut(au.buyout)
       IN
       /\ money' = [money EXCEPT ![p] = @ - BidPayment(au, p, au.buyout)]
       /\ mail' = Credit(OutbidMail(mail, au, p), au.owner,
                         au.buyout + au.deposit - cut)
       /\ house' = house + cut
       /\ items' = [items EXCEPT ![au.item].owner = p, ![au.item].loc = "mail"]
       /\ auctions' = [b \in DOMAIN auctions \ {a} |-> auctions[b]]

-----------------------------------------------------------------------------
(* HandleAuctionRemoveItem                                                 *)

(* Variant of RemoveItem without the HasEnoughMoney(auctionCut) return.    *)
RemoveItemNoCutCheck(p, a) ==
    /\ a \in DOMAIN auctions
    /\ auctions[a].owner = p
    /\ LET au == auctions[a]
           cut == IF au.bidder = NoBidder THEN 0 ELSE AuctionCut(au.bid)
       IN
       /\ money' = [money EXCEPT ![p] = @ - cut]
       /\ mail' = IF au.bidder = NoBidder THEN mail
                  ELSE Credit(mail, au.bidder, au.bid)
       /\ house' = house + au.deposit + cut
       /\ items' = [items EXCEPT ![au.item].loc = "mail"]
       /\ auctions' = [b \in DOMAIN auctions \ {a} |-> auctions[b]]

(* The owner cancels.  With a bidder, the owner must afford the cut (else  *)
(* the handler returns silently), pays it, and the bidder is mailed its   *)
(* bid back.  The item is mailed to the owner; the deposit stays with the *)
(* house.                                                                  *)
RemoveItem(p, a) ==
    /\ a \in DOMAIN auctions
    /\ auctions[a].owner = p
    /\ LET au == auctions[a]
           cut == IF au.bidder = NoBidder THEN 0 ELSE AuctionCut(au.bid)
       IN
       /\ money[p] >= cut
       /\ money' = [money EXCEPT ![p] = @ - cut]
       /\ mail' = IF au.bidder = NoBidder THEN mail
                  ELSE Credit(mail, au.bidder, au.bid)
       /\ house' = house + au.deposit + cut
       /\ items' = [items EXCEPT ![au.item].loc = "mail"]
       /\ auctions' = [b \in DOMAIN auctions \ {a} |-> auctions[b]]

-----------------------------------------------------------------------------
(* The environment: an auction runs out (AuctionHouseMgr::Update, outside *)
(* this file).  With a bidder it is won at its bid, as a buyout is; with  *)
(* none the item goes back to its owner and the house keeps the deposit.  *)
Expire(a) ==
    /\ a \in DOMAIN auctions
    /\ LET au == auctions[a]
           cut == AuctionCut(au.bid)
       IN
       IF au.bidder = NoBidder
       THEN /\ house' = house + au.deposit
            /\ items' = [items EXCEPT ![au.item].loc = "mail"]
            /\ UNCHANGED mail
       ELSE /\ mail' = Credit(mail, au.owner, au.bid + au.deposit - cut)
            /\ house' = house + cut
            /\ items' = [items EXCEPT ![au.item].owner = au.bidder,
                                      ![au.item].loc = "mail"]
    /\ auctions' = [b \in DOMAIN auctions \ {a} |-> auctions[b]]
    /\ UNCHANGED money

Next ==
    \E p \in Players :
       \/ \E pkt \in Packets :
             \/ SellItemNoAuctioneerData(p, pkt)
             \/ \E minBid \in MinBids, buyout \in Buyouts :
                   SellItem(p, pkt, minBid, buyout)
       \/ \E a \in AuctionIds, amount \in BidAmounts :
             PlaceBid(p, a, amount) \/ Buyout(p, a, amount)
       \/ \E a \in AuctionIds : RemoveItem(p, a)
    \/ \E a \in AuctionIds : Expire(a)

Spec == Init /\ [][Next]_vars

-----------------------------------------------------------------------------
Auction == [owner : Players, item : ItemIds, startbid : MinBids,
            bid : Nat, bidder : Players \cup {NoBidder},
            buyout : Buyouts, deposit : Nat]

(* Every variable has its type; in particular no handler ever leaves a    *)
(* character with negative money, which rests on the HasEnoughMoney checks *)
(* made before each charge.                                                *)
TypeOK ==
    /\ money \in [Players -> Nat]
    /\ mail \in [Players -> Nat]
    /\ DOMAIN items \subseteq ItemIds /\ \A g \in DOMAIN items : items[g] \in Item
    /\ DOMAIN auctions \subseteq AuctionIds
    /\ \A a \in DOMAIN auctions : auctions[a] \in Auction
    /\ house \in Nat

(* The bids and deposits held by live auctions.                          *)
Escrow == SumFunction([a \in DOMAIN auctions |->
                          auctions[a].bid + auctions[a].deposit])

(* No sequence of handler calls creates money: the characters' money,    *)
(* their mail, what live auctions hold and what the house kept never add  *)
(* up to more than the characters started with, also when a sell fails    *)
(* after its deposit was taken.  It rests on the refund mail going only to *)
(* a bidder who is outbid by another character, on the seller's cut being *)
(* taken from what the bidder paid, and on the removal fee.                *)
MoneyNeverCreated ==
    SumFunction(money) + SumFunction(mail) + Escrow + house
        <= SumFunction(InitMoney)

(* The number of items, counted in stacks, is neither made nor lost by    *)
(* selling: the clone put up for auction carries exactly the counts taken  *)
(* from the stacks the packet names (HandleAuctionSellItem's clone path).  *)
TotalCount(its) == SumFunction([g \in DOMAIN its |-> its[g].count])

ItemCountConserved == TotalCount(items) = TotalCount(InitItems)

(* No item entry is made or lost: for each entry the count over all live   *)
(* items stays what it was.  The "Dupe Auction mop" comment of the sell   *)
(* handler is about this.                                                  *)
EntryCount(its, e) ==
    SumFunction([g \in {h \in DOMAIN its : its[h].entry = e} |-> its[g].count])

EntryCountConserved ==
    \A e \in Entries : EntryCount(items, e) = EntryCount(InitItems, e)

=============================================================================
