----------------------------- MODULE TreasurePool -----------------------------
(***************************************************************************)
(* The treasure pool of a party, alliance or zone (map/treasure_pool.cpp). *)
(*                                                                         *)
(* What monsters drop waits in the pool's slots while the members lot on   *)
(* it or pass.  checkTreasureItem settles a slot - the highest lot wins,   *)
(* or a random member who has not passed, or the item is lost - and is     *)
(* called by every handler that may have changed what it looks at, and by  *)
(* the zone's tick.  Members come and go, and their bags fill and empty,   *)
(* at any time.  A pool without members is deleted, which here makes it    *)
(* the empty pool of whoever comes next.                                   *)
(*                                                                         *)
(* Every operation runs in one handler.  One that settles several slots    *)
(* in turn is a set of outcomes here: a random draw or a write that fails  *)
(* in one slot changes the bags the next one looks at.                     *)
(***************************************************************************)
EXTENDS Integers, Sequences, FiniteSets

CONSTANTS
  Chars,        \* who may be in the pool
  Items,        \* item ids that drop
  Rare,         \* kinds of which a character holds one at most
  Exclusive,    \* kinds that give way last when the pool is full
  NoRareCheck,  \* rare kinds that drop for a party whose members all have one
  NoItem,       \* id 0, of an empty slot
  PoolSize,     \* TREASUREPOOL_SIZE
  Life,         \* checks an item outlives: treasure_livetime
  ZoneWide,     \* whether the pool is a zone's
  MaxLot,       \* bound: lots are 1..MaxLot, and a pass is 0
  MaxRoom       \* bound: free inventory slots of a character

Slots == 1..PoolSize

ASSUME PoolAssumption ==
  /\ Rare \subseteq Items /\ Exclusive \subseteq Items /\ NoRareCheck \subseteq Rare
  /\ NoItem \notin Items
  /\ PoolSize \in Nat \ {0} /\ Life \in Nat
  /\ ZoneWide \in BOOLEAN
  /\ MaxLot \in Nat \ {0} /\ MaxRoom \in Nat \ {0}

VARIABLES
  members,  \* m_Members
  type,     \* m_TreasurePoolType; a party's and an alliance's behave alike
  pool,     \* [slots: m_PoolItems, count: m_count]
  bags      \* [room: each character's free slots, has: the rare kinds it holds]

vars == <<members, type, pool, bags>>

LotInfo == [member : Chars, lot : 0..MaxLot]
Slot    == [item : Items \cup {NoItem}, age : 0..(Life + 1), lotters : Seq(LotInfo)]
Empty   == [item |-> NoItem, age |-> 0, lotters |-> <<>>]
NewPool == [slots |-> [i \in Slots |-> Empty], count |-> 0]

TreasureTypeOK ==
  /\ members \subseteq Chars
  /\ type \in {"Solo", "Party", "Zone"}
  /\ pool \in [slots : [Slots -> Slot], count : Nat]
  /\ bags \in [room : [Chars -> 0..MaxRoom], has : [Chars -> SUBSET Rare]]

Unjoined == IF ZoneWide THEN "Zone" ELSE "Solo"

Init ==
  /\ members = {} /\ type = Unjoined
  /\ pool = NewPool
  /\ bags = [room |-> [c \in Chars |-> MaxRoom], has |-> [c \in Chars |-> {}]]
-----------------------------------------------------------------------------
(* What the handlers look at, in a pool p with bags b.                      *)

Occupied(p, i) == p.slots[i].item # NoItem
Lotted(p, c, i) == \E k \in DOMAIN p.slots[i].lotters : p.slots[i].lotters[k].member = c
Passed(p, c, i) ==
  \E k \in DOMAIN p.slots[i].lotters : p.slots[i].lotters[k] = [member |-> c, lot |-> 0]
AllAnswered(p, i) == Len(p.slots[i].lotters) = Cardinality(members)

(* The first of the highest lots, unless everyone who answered has passed.  *)
HighestLotters(p, i) ==
  LET ls == p.slots[i].lotters IN
  {ls[k].member : k \in {k \in DOMAIN ls :
     /\ ls[k].lot > 0
     /\ \A j \in DOMAIN ls : ls[j].lot <= ls[k].lot
     /\ \A j \in 1..(k - 1) : ls[j].lot < ls[k].lot}}

(* Mutant: whoever has room may have it.                                    *)
CandidatesPassedOrNot(p, b, i) ==
  {c \in members : b.room[c] > 0 /\ p.slots[i].item \notin b.has[c]}

(* Members with room who have not passed and may have the item.             *)
Candidates(p, b, i) ==
  {c \in members : /\ b.room[c] > 0
                   /\ ~Passed(p, c, i)
                   /\ p.slots[i].item \notin b.has[c]}

(* checkTreasureItem's condition; a slot that is forced has no time stamp.  *)
Due(p, b, i, forced) ==
  /\ Occupied(p, i)
  /\ \/ forced
     \/ p.slots[i].age > Life
     \/ \E c \in members : members = {c} /\ b.room[c] > 0
     \/ AllAnswered(p, i)
-----------------------------------------------------------------------------
(* Settling a slot.                                                         *)

(* treasureWon, treasureError and treasureLost all clear it.                *)
Cleared(p, i) ==
  [slots |-> [p.slots EXCEPT ![i] = Empty], count |-> p.count - 1]

Received(b, c, item) ==
  [room |-> [b.room EXCEPT ![c] = @ - 1],
   has  |-> [b.has EXCEPT ![c] = IF item \in Rare THEN @ \cup {item} ELSE @]]

(* Mutant: an item that could not be given is counted off twice.            *)
GivenMiscounted(p, b, c, i) ==
  {[pool |-> [Cleared(p, i) EXCEPT !.count = @ - 1], bags |-> b]}
    \cup IF p.slots[i].item \in b.has[c] THEN {}
         ELSE {[pool |-> Cleared(p, i), bags |-> Received(b, c, p.slots[i].item)]}

(* ItemClaimTransaction: refused to who has the rare item by now, and any   *)
(* write may fail (treasureError).                                          *)
Given(p, b, c, i) ==
  {[pool |-> Cleared(p, i), bags |-> b]}
    \cup IF p.slots[i].item \in b.has[c] THEN {}
         ELSE {[pool |-> Cleared(p, i), bags |-> Received(b, c, p.slots[i].item)]}

Lost(p, b, i) == {[pool |-> Cleared(p, i), bags |-> b]}

(* checkTreasureItem: the pools and bags it may leave behind.               *)
Checked(p, b, i, forced) ==
  LET highest == HighestLotters(p, i)
      chosen  == IF highest # {} THEN {c \in highest : b.room[c] > 0}
                 ELSE Candidates(p, b, i)
  IN  IF ~Due(p, b, i, forced) THEN {[pool |-> p, bags |-> b]}
      ELSE IF chosen = {} THEN Lost(p, b, i)
      ELSE UNION {Given(p, b, c, i) : c \in chosen}

(* The slots settled one after the other.                                   *)
CheckedAll(p, b) ==
  LET upTo[i \in 0..PoolSize] ==
        IF i = 0 THEN {[pool |-> p, bags |-> b]}
        ELSE UNION {Checked(s.pool, s.bags, i, FALSE) : s \in upTo[i - 1]}
  IN  upTo[PoolSize]

Become(outcomes) ==
  \E s \in outcomes : pool' = s.pool /\ bags' = s.bags
-----------------------------------------------------------------------------
(* Members.                                                                 *)

(* addMember: a new pool is Solo until someone in a party is in it.         *)
Join(c) ==
  /\ c \notin members
  /\ members' = members \cup {c}
  /\ type' \in IF type # "Solo" THEN {type}
               ELSE IF members # {} THEN {"Party"} ELSE {"Solo", "Party"}
  /\ UNCHANGED <<pool, bags>>

(* Mutant: "Zone drops do not remove previous lot info".                    *)
WithLotsOf(p, c) == p

(* The lots of everyone else, in their order.                               *)
Others(ls, c) ==
  LET upTo[n \in 0..Len(ls)] ==
        IF n = 0 THEN <<>>
        ELSE IF ls[n].member = c THEN upTo[n - 1] ELSE Append(upTo[n - 1], ls[n])
  IN  upTo[Len(ls)]

WithoutLotsOf(p, c) ==
  [p EXCEPT !.slots = [i \in Slots |->
     [p.slots[i] EXCEPT !.lotters = Others(@, c)]]]

(* delMember; the slots are not looked at again until the next check.       *)
Leave(c) ==
  /\ c \in members
  /\ members' = members \ {c}
  /\ IF members' = {} THEN pool' = NewPool /\ type' = Unjoined
     ELSE /\ pool' = WithoutLotsOf(pool, c)
          /\ type' = IF type = "Party" /\ Cardinality(members') = 1 THEN "Solo" ELSE type
  /\ UNCHANGED bags

(* ReloadTreasurePool of a member who shares the pool already: delMember    *)
(* and addMember, which forgets its lots.                                   *)
Reload(c) ==
  /\ c \in members /\ members # {c} /\ type # "Zone"
  /\ pool' = WithoutLotsOf(pool, c)
  /\ type' = "Party"
  /\ UNCHANGED <<members, bags>>
-----------------------------------------------------------------------------
(* Items.                                                                   *)

(* The slot that gives way: the oldest of the kinds that give way first.    *)
Oldest(p) ==
  LET plain   == {i \in Slots : p.slots[i].item \notin Rare \cup Exclusive}
      common  == {i \in Slots : p.slots[i].item \notin Exclusive}
      among   == IF plain # {} THEN plain ELSE IF common # {} THEN common ELSE Slots
  IN  CHOOSE i \in among : \A j \in among :
        p.slots[j].age < p.slots[i].age \/ (p.slots[j].age = p.slots[i].age /\ i <= j)

FirstFree(p) == CHOOSE i \in Slots : ~Occupied(p, i) /\ \A j \in 1..(i - 1) : Occupied(p, j)

Placed(p, item, i) ==
  [slots |-> [p.slots EXCEPT ![i].item = item, ![i].age = 0],
   count |-> p.count + 1]

(* addItem: a full pool settles its oldest slot first, and a single member  *)
(* with room has the item at once.                                          *)
AddItem(item) ==
  LET full == \A i \in Slots : Occupied(pool, i)
      i    == IF full THEN Oldest(pool) ELSE FirstFree(pool)
      made == IF full THEN Checked(pool, bags, i, TRUE)
              ELSE {[pool |-> pool, bags |-> bags]}
  IN
  /\ members # {}
  /\ item \in Rare /\ ~(type # "Solo" /\ item \in NoRareCheck) =>
       \E c \in members : item \notin bags.has[c]
  /\ Become(UNION {LET p == Placed(s.pool, item, i) IN
                   IF Cardinality(members) = 1 THEN Checked(p, s.bags, i, FALSE)
                   ELSE {[pool |-> p, bags |-> s.bags]} : s \in made})
  /\ UNCHANGED <<members, type>>

(* Once everyone has answered the slot is settled at once.                  *)
Answered(p, i) ==
  IF AllAnswered(p, i) THEN Checked(p, bags, i, FALSE) ELSE {[pool |-> p, bags |-> bags]}

(* Packet 0x041: a first lot, for an item the member may and can take.      *)
LotItem(c, i, n) ==
  /\ c \in members /\ ~Lotted(pool, c, i)
  /\ Occupied(pool, i)
  /\ bags.room[c] > 0 /\ pool.slots[i].item \notin bags.has[c]
  /\ Become(Answered([pool EXCEPT !.slots[i].lotters =
                        Append(@, [member |-> c, lot |-> n])], i))
  /\ UNCHANGED <<members, type>>

(* Packet 0x042: a pass takes back a lot; nothing asks for an item.         *)
PassItem(c, i) ==
  LET pass == [member |-> c, lot |-> 0]
      ls   == pool.slots[i].lotters
      after == IF Lotted(pool, c, i)
               THEN [k \in DOMAIN ls |-> IF ls[k].member = c THEN pass ELSE ls[k]]
               ELSE Append(ls, pass)
  IN
  /\ c \in members /\ ~Passed(pool, c, i)
  /\ Become(Answered([pool EXCEPT !.slots[i].lotters = after], i))
  /\ UNCHANGED <<members, type>>

(* The zone's tick, through the first member: nothing while m_count is 0.   *)
CheckItems ==
  LET aged == [pool EXCEPT !.slots = [i \in Slots |->
                 IF Occupied(pool, i) /\ pool.slots[i].age <= Life
                 THEN [pool.slots[i] EXCEPT !.age = @ + 1] ELSE pool.slots[i]]]
  IN
  /\ members # {} /\ pool.count # 0
  /\ Become(CheckedAll(aged, bags))
  /\ UNCHANGED <<members, type>>
-----------------------------------------------------------------------------
(* The members' bags change under other handlers.                           *)
Store(c) ==
  /\ bags.room[c] > 0
  /\ \/ bags' = [bags EXCEPT !.room[c] = @ - 1]
     \/ \E item \in Rare \ bags.has[c] : bags' = Received(bags, c, item)
  /\ UNCHANGED <<members, type, pool>>

Discard(c) ==
  /\ bags.room[c] < MaxRoom
  /\ \/ bags' = [bags EXCEPT !.room[c] = @ + 1]
     \/ \E item \in bags.has[c] :
          bags' = [bags EXCEPT !.room[c] = @ + 1, !.has[c] = @ \ {item}]
  /\ UNCHANGED <<members, type, pool>>

Next ==
  \/ \E c \in Chars : Join(c) \/ Leave(c) \/ Reload(c) \/ Store(c) \/ Discard(c)
  \/ \E item \in Items : AddItem(item)
  \/ \E c \in Chars, i \in Slots :
       PassItem(c, i) \/ \E n \in 1..MaxLot : LotItem(c, i, n)
  \/ CheckItems

Spec == Init /\ [][Next]_vars

(* Every member's tick checks the pool (zone_entities.cpp:1938).            *)
FairSpec == Spec /\ WF_vars(CheckItems)
-----------------------------------------------------------------------------
(* Who answered is still a member and answered once: no lot points at a     *)
(* character who has gone, and a slot is settled early only when everyone   *)
(* has answered.                                                            *)
LottersAreMembers ==
  \A i \in Slots :
    LET ls == pool.slots[i].lotters IN
    /\ \A k \in DOMAIN ls : ls[k].member \in members
    /\ \A j, k \in DOMAIN ls : ls[j].member = ls[k].member => j = k

(* In a pool of several, settling never hands a member the rare item it has *)
(* passed in every slot that offers it.                                     *)
PassedNeverWins ==
  [][\A c \in Chars, item \in Rare :
       /\ Cardinality(members) > 1 /\ pool'.count < pool.count
       /\ \A i \in Slots : pool.slots[i].item = item => Passed(pool, c, i)
       /\ item \in bags'.has[c]
       => item \in bags.has[c]]_vars

(* An item past its time is settled by a later check, or goes with its pool.*)
ItemsAreSettled ==
  \A i \in Slots :
    (Occupied(pool, i) /\ pool.slots[i].age = Life)
      ~> (~Occupied(pool, i) \/ pool.slots[i].age = 0)
=============================================================================
