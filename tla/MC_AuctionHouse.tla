--------------------------- MODULE MC_AuctionHouse ---------------------------
(***************************************************************************)
(* AuctionHouse for TLC: three characters, so that an auction of the      *)
(* first can be bid on by the two others and one of them outbid; two      *)
(* entries; two starting stacks of the seller and one spare GUID for a    *)
(* clone; two auction slots.  The seller holds a stack of two and a single *)
(* item of another entry, so it can sell whole, sell part of a stack, and  *)
(* sell two items of different entries in one packet.  Prices are a few    *)
(* copper: what matters is the order of bid, outbid step, buyout and       *)
(* money held.  The cut is half the bid rather than the server's few       *)
(* percent, so that it is not rounded to 0 at these prices.                *)
(***************************************************************************)
EXTENDS AuctionHouse

CONSTANTS p1, p2, p3, e1, e2, i1, i2, c1, a1, a2

MCPlayers == {p1, p2, p3}
MCEntries == {e1, e2}
MCItemIds == {i1, i2, c1}
MCAuctionIds == {a1, a2}

MCInitItems ==
    (i1 :> [owner |-> p1, entry |-> e1, count |-> 2, loc |-> "inv"]) @@
    (i2 :> [owner |-> p1, entry |-> e2, count |-> 1, loc |-> "inv"])

MCInitMoney == (p1 :> 3) @@ (p2 :> 3) @@ (p3 :> 3)
MCMaxStack == [e \in MCEntries |-> 4]

MCDeposit(e, n) == 1
MCOutBid(b) == 1
MCAuctionCut(b) == b \div 2
====
