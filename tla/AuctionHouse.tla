------------------------------ MODULE AuctionHouse ------------------------------
(***************************************************************************)
(* The auction house (map/utils/auctionutils.cpp, behind packet 0x04E, and *)
(* CDataLoader::ExpireAHItems of the search server) on top of the delivery *)
(* boxes, through which it pays sellers and returns what nobody bought.    *)
(*                                                                         *)
(* Sellers and buyers work in transactions.  The search server does not:   *)
(* it collects the listings that are too old, and then for each of them    *)
(* mails the item and deletes the listing, which may be sold, withdrawn or *)
(* deleted meanwhile; and it may stop in between.                          *)
(* Left out: stacks (a listing is of one kind of good), rare goods, and a  *)
(* second expiration while one is at work.  Bounds: MaxListings.           *)
(***************************************************************************)
EXTENDS DeliveryBox

CONSTANTS
  Fee,          \* auctionFee
  ListLimit,    \* map.AH_LIST_LIMIT, 0 for none
  MaxListings   \* bound: listings ever made

Listing == [good : Goods, seller : Chars, price : Sums]
Expiry  == [id : 1..MaxListings, good : Goods, seller : Chars]

ASSUME AuctionAssumption ==
  /\ Fee \in Nat /\ ListLimit \in Nat /\ MaxListings \in Nat
  /\ None \notin Listing

VARIABLES
  listings,   \* auction_house by id; None when sold, withdrawn or deleted
  expiring,   \* listingsToExpire
  mailed,     \* the first of them has been mailed, and its listing not deleted
  copied      \* history: items the expiration has made twice

auctionVars == <<listings, expiring, mailed, copied>>
vars == <<boxVars, auctionVars>>

AuctionTypeOK ==
  /\ MailTypeOK
  /\ listings \in Seq(Listing \cup {None}) /\ Len(listings) <= MaxListings
  /\ expiring \in Seq(Expiry) /\ (mailed => expiring # <<>>)
  /\ copied \in [Goods -> Nat]

Init ==
  /\ BoxInit
  /\ listings = <<>> /\ expiring = <<>> /\ mailed = FALSE
  /\ copied = [g \in Goods |-> 0]

-----------------------------------------------------------------------------
Listed     == {i \in DOMAIN listings : listings[i] # None}
Of(seller) == {i \in Listed : listings[i].seller = seller}
Mailed(i)  == mailed /\ Head(expiring).id = i

\* An item whose listing is mailed already and that is handed out all the same.
HandedOut(i) ==
  copied' = IF Mailed(i) THEN [copied EXCEPT ![listings[i].good] = @ + 1] ELSE copied

\* ProofOfPurchase: the fee, the good and the listing.
Sell(c, g, price) ==
  /\ c \in alive /\ bag[c][g] > 0 /\ purse[c] >= Fee
  /\ ListLimit = 0 \/ Cardinality(Of(c)) < ListLimit
  /\ Len(listings) < MaxListings
  /\ bag' = [bag EXCEPT ![c][g] = @ - 1]
  /\ purse' = [purse EXCEPT ![c] = @ - Fee]
  /\ gone' = [gone EXCEPT ![Gil] = @ + Fee]
  /\ listings' = Append(listings, [good |-> g, seller |-> c, price |-> price])
  /\ UNCHANGED <<alive, outbox, inbox, queue, window, faults, expiring, mailed, copied>>

\* The cheapest listings of a good.
Cheapest(g) ==
  {i \in Listed : /\ listings[i].good = g
                  /\ \A j \in Listed : listings[j].good = g => listings[i].price <= listings[j].price}

(* Mutant: the buyer pays the price, and the seller is sent the bid.        *)
BuyAtPrice(c, g, bid) == \E i \in Cheapest(g) :
  /\ c \in alive /\ Room(c)
  /\ listings[i].price <= bid /\ purse[c] >= bid
  /\ listings' = [listings EXCEPT ![i] = None]
  /\ purse' = [purse EXCEPT ![c] = @ - listings[i].price]
  /\ bag' = [bag EXCEPT ![c][g] = @ + 1]
  /\ queue' = Posted(listings[i].seller, bid, None)
  /\ HandedOut(i)
  /\ UNCHANGED <<alive, outbox, inbox, window, gone, faults, expiring, mailed>>

\* PurchasingItems: the buyer pays the bid, auction_house_buy mails it to the
\* seller.
Buy(c, g, bid) == \E i \in Cheapest(g) :
  /\ c \in alive /\ Room(c)
  /\ listings[i].price <= bid /\ purse[c] >= bid
  /\ listings' = [listings EXCEPT ![i] = None]
  /\ purse' = [purse EXCEPT ![c] = @ - bid]
  /\ bag' = [bag EXCEPT ![c][g] = @ + 1]
  /\ queue' = Posted(listings[i].seller, bid, None)
  /\ HandedOut(i)
  /\ UNCHANGED <<alive, outbox, inbox, window, gone, faults, expiring, mailed>>

\* CancelSale: one of the seller's listings comes back.
CancelSale(c) == \E i \in Of(c) :
  /\ c \in alive /\ Room(c)
  /\ listings' = [listings EXCEPT ![i] = None]
  /\ bag' = [bag EXCEPT ![c][listings[i].good] = @ + 1]
  /\ HandedOut(i)
  /\ UNCHANGED <<alive, purse, outbox, inbox, queue, window, gone, faults, expiring, mailed>>

-----------------------------------------------------------------------------
\* ExpireAHItems collects what is listed up to some date, in any order.
ExpireCollect(last) ==
  /\ expiring = <<>> /\ last \in Listed
  /\ \E old \in SetToSeqs({i \in Listed : i <= last}) :
       expiring' = [k \in DOMAIN old |->
         [id |-> old[k], good |-> listings[old[k]].good, seller |-> listings[old[k]].seller]]
  /\ UNCHANGED <<boxVars, listings, mailed, copied>>

\* ... mails the first, whatever has become of its listing and its seller ...
ExpireMail ==
  LET e == Head(expiring)
  IN  /\ expiring # <<>> /\ ~mailed
      /\ queue' = Posted(e.seller, e.good, None)
      /\ mailed' = TRUE
      /\ copied' = IF e.id \in Listed THEN copied ELSE [copied EXCEPT ![e.good] = @ + 1]
      /\ UNCHANGED <<alive, bag, purse, outbox, inbox, window, gone, faults, listings, expiring>>

\* ... and deletes the listing, if there still is one.
ExpireDelete ==
  /\ mailed
  /\ listings' = [listings EXCEPT ![Head(expiring).id] = None]
  /\ expiring' = Tail(expiring) /\ mailed' = FALSE
  /\ UNCHANGED <<boxVars, copied>>

\* The search server stops and starts again: what was mailed stays listed.
SearchCrash ==
  /\ expiring # <<>>
  /\ LET i == Head(expiring).id
     IN  copied' = IF mailed /\ i \in Listed THEN [copied EXCEPT ![listings[i].good] = @ + 1]
                   ELSE copied
  /\ expiring' = <<>> /\ mailed' = FALSE
  /\ faults < MaxFaults /\ faults' = faults + 1
  /\ UNCHANGED <<alive, bag, purse, outbox, inbox, queue, window, gone, listings>>

\* char_delete.
DeleteSeller(c) ==
  /\ DeleteChar(c, [k \in Goods \cup {Gil} |-> Cardinality({i \in Of(c) : listings[i].good = k /\ ~Mailed(i)})])
  /\ listings' = [i \in DOMAIN listings |-> IF i \in Of(c) THEN None ELSE listings[i]]
  /\ UNCHANGED <<expiring, mailed, copied>>

Next ==
  \/ BoxNext /\ UNCHANGED auctionVars
  \/ \E c \in Chars :
       \/ \E g \in Goods, sum \in Sums : Sell(c, g, sum) \/ Buy(c, g, sum)
       \/ CancelSale(c) \/ DeleteSeller(c)
  \/ \E i \in DOMAIN listings : ExpireCollect(i)
  \/ ExpireMail \/ ExpireDelete \/ SearchCrash

Spec == Init /\ [][Next]_vars

-----------------------------------------------------------------------------
(* Properties.                                                             *)

\* Goods are neither made nor lost on the way through bags, boxes and listings
\* of all characters: except what players throw away, what goes with a deleted
\* character, what CancelSendingItem takes for an orphan, and the copies that
\* an expiration makes when it is overtaken or stops half way.
ItemsAddUp ==
  \A g \in Goods :
    InMail(g) + Cardinality({i \in Listed : listings[i].good = g /\ ~Mailed(i)}) + gone[g]
      = SumFunction([c \in Chars |-> Belongings[c][g]]) + copied[g]

\* Gil is never made, and only fees and deleted characters take any: what a
\* buyer bids is on its way to the seller.
GilAddsUp == InMail(Gil) + gone[Gil] = SumFunction(Savings)
=============================================================================
