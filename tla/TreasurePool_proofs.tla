-------------------------- MODULE TreasurePool_proofs --------------------------
(***************************************************************************)
(* Proofs about the treasure pool, for any number of members, slots, items *)
(* and lots, and however long the pool lives: types, the answers of the    *)
(* members, and that nobody wins what he has passed.                       *)
(*                                                                         *)
(* A handler may settle every slot in turn, so its outcomes are given by   *)
(* recursion over the slots.  What holds of them is shown by the principle *)
(* that a set of natural numbers has a least element: a slot after which   *)
(* it no longer holds would have a first.                                  *)
(***************************************************************************)
EXTENDS TreasurePool, FiniteSums

-----------------------------------------------------------------------------
(* What a pool and the bags are                                             *)

Pools == [slots : [Slots -> Slot], count : Nat]
Bags  == [room : [Chars -> 0..MaxRoom], has : [Chars -> SUBSET Rare]]

(* The members answered once, and no one else did.                          *)
AnswersOf(ls, ms) ==
  /\ \A k \in DOMAIN ls : ls[k].member \in ms
  /\ \A j, k \in DOMAIN ls : ls[j].member = ls[k].member => j = k

(* m_count counts the slots in use, which keeps it from going below zero.   *)
Counted(p) == p.count = Cardinality({i \in Slots : Occupied(p, i)})

GoodPool(p, ms) ==
  /\ p \in Pools
  /\ Counted(p)
  /\ \A i \in Slots : AnswersOf(p.slots[i].lotters, ms)

PoolInv ==
  /\ members \subseteq Chars /\ type \in {"Solo", "Party", "Zone"}
  /\ GoodPool(pool, members)
  /\ bags \in Bags

LEMMA PoolInvIsEnough == PoolInv => TreasureTypeOK /\ LottersAreMembers
BY DEF PoolInv, GoodPool, Pools, Bags, TreasureTypeOK, LottersAreMembers, AnswersOf

LEMMA SlotsFinite == Slots # {} /\ Slots \subseteq Nat /\ \A S \in SUBSET Slots : IsFiniteSet(S)
<1>1. IsFiniteSet(Slots) /\ 1 \in Slots
  BY FS_Interval, PoolAssumption DEF Slots
<1>2. ASSUME NEW S \in SUBSET Slots PROVE IsFiniteSet(S)
  BY <1>1, FS_Subset
<1>3. Slots \subseteq Nat
  BY DEF Slots
<1> QED BY <1>1, <1>2, <1>3

LEMMA EmptyIsSlot == Empty \in Slot /\ Empty.item = NoItem /\ Empty.lotters = <<>>
BY PoolAssumption DEF Slot, Empty

LEMMA PoolFields ==
  ASSUME NEW p \in Pools, NEW i \in Slots
  PROVE  /\ p.slots[i] \in Slot /\ p.slots[i].item \in Items \cup {NoItem}
         /\ p.slots[i].age \in 0..(Life + 1) /\ p.slots[i].lotters \in Seq(LotInfo)
         /\ p.count \in Nat /\ p.slots \in [Slots -> Slot]
BY DEF Pools, Slot

LEMMA LotsOfChars ==
  ASSUME NEW ls \in Seq(LotInfo), NEW k \in DOMAIN ls
  PROVE  ls[k] \in LotInfo /\ ls[k].member \in Chars /\ ls[k].lot \in 0..MaxLot /\ DOMAIN ls = 1..Len(ls)
<1>1. ls[k] \in LotInfo
  OBVIOUS
<1> QED BY <1>1 DEF LotInfo

LEMMA NewPoolGood ==
  ASSUME NEW ms
  PROVE  GoodPool(NewPool, ms)
<1>1. NewPool \in Pools /\ \A i \in Slots : NewPool.slots[i] = Empty
  BY EmptyIsSlot DEF NewPool, Pools
<1>2. {i \in Slots : Occupied(NewPool, i)} = {}
  BY <1>1, EmptyIsSlot DEF Occupied
<1>3. Counted(NewPool)
  BY <1>2, FS_EmptySet DEF Counted, NewPool
<1>4. AnswersOf(<<>>, ms)
  BY DEF AnswersOf
<1> QED BY <1>1, <1>3, <1>4, EmptyIsSlot DEF GoodPool

-----------------------------------------------------------------------------
(* Settling a slot                                                          *)

LEMMA ClearedGood ==
  ASSUME NEW ms, NEW p, GoodPool(p, ms), NEW i \in Slots, Occupied(p, i)
  PROVE  /\ GoodPool(Cleared(p, i), ms)
         /\ Cleared(p, i).count = p.count - 1
         /\ ~Occupied(Cleared(p, i), i)
         /\ \A j \in Slots \ {i} : Cleared(p, i).slots[j] = p.slots[j]
<1> DEFINE q == Cleared(p, i)
           In(x) == {j \in Slots : Occupied(x, j)}
<1>1. p \in Pools
  BY DEF GoodPool
<1>2. /\ q.slots[i] = Empty /\ q.slots \in [Slots -> Slot] /\ q.count = p.count - 1
      /\ \A j \in Slots \ {i} : q.slots[j] = p.slots[j]
  BY <1>1, PoolFields, EmptyIsSlot DEF Cleared
<1>3. In(q) = In(p) \ {i}
  BY <1>2, EmptyIsSlot DEF Occupied
<1>4. i \in In(p) /\ IsFiniteSet(In(p)) /\ Cardinality(In(p)) = p.count
  BY SlotsFinite DEF GoodPool, Counted
<1>5. IsFiniteSet(In(q)) /\ Cardinality(In(q)) = p.count - 1
  <2> HIDE DEF In
  <2> QED BY <1>3, <1>4, FS_RemoveElement
<1>6. q.count \in Nat
  BY <1>2, <1>5, FS_CardinalityType
<1>7. q \in Pools
  BY <1>2, <1>6 DEF Cleared, Pools
<1>8. AnswersOf(<<>>, ms)
  BY DEF AnswersOf
<1>9. Counted(q)
  BY <1>2, <1>5 DEF Counted
<1>10. ASSUME NEW j \in Slots PROVE AnswersOf(q.slots[j].lotters, ms)
  <2> HIDE DEF q
  <2> QED BY <1>2, <1>8, EmptyIsSlot DEF GoodPool
<1>11. GoodPool(q, ms)
  BY <1>7, <1>9, <1>10 DEF GoodPool
<1> QED BY <1>2, <1>11, EmptyIsSlot DEF Occupied

LEMMA ReceivedBags ==
  ASSUME NEW b \in Bags, NEW c \in Chars, b.room[c] > 0, NEW item
  PROVE  /\ Received(b, c, item) \in Bags
         /\ \A d \in Chars, x \in Rare :
              x \in Received(b, c, item).has[d] => x \in b.has[d] \/ (d = c /\ x = item)
<1>1. b.room \in [Chars -> 0..MaxRoom] /\ b.has \in [Chars -> SUBSET Rare] /\ MaxRoom \in Nat
  BY PoolAssumption DEF Bags
<1> DEFINE r == [b.room EXCEPT ![c] = @ - 1]
           h == [b.has EXCEPT ![c] = IF item \in Rare THEN @ \cup {item} ELSE @]
<1>2. r \in [Chars -> 0..MaxRoom]
  BY <1>1
<1>3. h \in [Chars -> SUBSET Rare] /\ \A d \in Chars : h[d] \subseteq b.has[d] \cup (IF d = c THEN {item} ELSE {})
  BY <1>1
<1>4. Received(b, c, item) = [room |-> r, has |-> h]
  BY DEF Received
<1> HIDE DEF r, h
<1> QED BY <1>2, <1>3, <1>4 DEF Bags

(* Who gets something new by the settling of slots of pool p has not passed *)
(* it, where it was offered.                                                *)
Deserved(p, b, b2) ==
  \A c \in Chars, x \in Rare :
    x \in b2.has[c] \ b.has[c] =>
      \E i \in Slots : p.slots[i].item = x /\ ~Passed(p, c, i)

(* What a check of slot i makes of a pool p and bags b.                     *)
Outcome(p, b, i, ms, s) ==
  /\ GoodPool(s.pool, ms) /\ s.bags \in Bags
  /\ s.pool.count <= p.count
  /\ \A j \in Slots \ {i} : s.pool.slots[j] = p.slots[j]
  /\ \A c \in Chars, x \in Rare :
       x \in s.bags.has[c] \ b.has[c] => p.slots[i].item = x /\ ~Passed(p, c, i)

LEMMA HighestHaveLotted ==
  ASSUME NEW ms, NEW p, GoodPool(p, ms), NEW i \in Slots, NEW c \in HighestLotters(p, i)
  PROVE  c \in ms /\ c \in Chars /\ ~Passed(p, c, i)
<1> DEFINE ls == p.slots[i].lotters
<1>1. PICK k \in DOMAIN ls : ls[k].lot > 0 /\ ls[k].member = c
  BY DEF HighestLotters
<1>2. ls \in Seq(LotInfo) /\ AnswersOf(ls, ms)
  BY PoolFields DEF GoodPool
<1>3. c \in ms /\ c \in Chars
  BY <1>1, <1>2, LotsOfChars DEF AnswersOf
<1>4. ASSUME NEW j \in DOMAIN ls, ls[j] = [member |-> c, lot |-> 0] PROVE FALSE
  <2>1. ls[j].member = c /\ ls[j].lot = 0
    BY <1>4
  <2>2. j = k
    BY <1>1, <1>2, <2>1 DEF AnswersOf
  <2> QED BY <1>1, <2>1, <2>2
<1> QED BY <1>3, <1>4 DEF Passed

LEMMA GivenOutcome ==
  ASSUME NEW ms, NEW p, GoodPool(p, ms), NEW b \in Bags, NEW i \in Slots, Occupied(p, i),
         NEW c \in Chars, b.room[c] > 0, ~Passed(p, c, i), NEW s \in Given(p, b, c, i)
  PROVE  Outcome(p, b, i, ms, s) /\ s.pool.count = p.count - 1
<1> DEFINE q == Cleared(p, i)
           r == Received(b, c, p.slots[i].item)
<1>1. /\ GoodPool(q, ms) /\ q.count = p.count - 1
      /\ \A j \in Slots \ {i} : q.slots[j] = p.slots[j]
  BY ClearedGood
<1>2. p.count \in Nat
  BY DEF GoodPool, Pools
<1>3. s = [pool |-> q, bags |-> b] \/ s = [pool |-> q, bags |-> r]
  BY DEF Given
<1>4. r \in Bags /\ \A d \in Chars, x \in Rare : x \in r.has[d] => x \in b.has[d] \/ (d = c /\ x = p.slots[i].item)
  BY ReceivedBags
<1> HIDE DEF q, r
<1>5. CASE s = [pool |-> q, bags |-> b]
  <2>1. s.pool = q /\ s.bags = b
    BY <1>5
  <2> QED BY <1>1, <1>2, <2>1 DEF Outcome
<1>6. CASE s = [pool |-> q, bags |-> r]
  <2>1. s.pool = q /\ s.bags = r
    BY <1>6
  <2>2. \A d \in Chars, x \in Rare : x \in r.has[d] \ b.has[d] => p.slots[i].item = x /\ ~Passed(p, d, i)
    BY <1>4
  <2> QED BY <1>1, <1>2, <1>4, <2>1, <2>2 DEF Outcome
<1> QED BY <1>3, <1>5, <1>6

LEMMA CheckedOutcome ==
  ASSUME NEW p, GoodPool(p, members), members \subseteq Chars, NEW b \in Bags, NEW i \in Slots,
         NEW forced \in BOOLEAN, NEW s \in Checked(p, b, i, forced)
  PROVE  /\ Outcome(p, b, i, members, s)
         /\ s.pool.count = IF Due(p, b, i, forced) THEN p.count - 1 ELSE p.count
<1> DEFINE highest == HighestLotters(p, i)
           chosen == IF highest # {} THEN {c \in highest : b.room[c] > 0} ELSE Candidates(p, b, i)
<1>1. p.count \in Nat
  BY DEF GoodPool, Pools
<1>2. CASE ~Due(p, b, i, forced)
  <2>1. s = [pool |-> p, bags |-> b]
    BY <1>2 DEF Checked
  <2>2. s.pool = p /\ s.bags = b
    BY <2>1
  <2> QED BY <1>1, <1>2, <2>2 DEF Outcome
<1>3. CASE Due(p, b, i, forced)
  <2>1. Occupied(p, i)
    BY <1>3 DEF Due
  <2>2. CASE chosen = {}
    <3>1. s = [pool |-> Cleared(p, i), bags |-> b]
      BY <1>3, <2>2 DEF Checked, Lost
    <3>2. s.pool = Cleared(p, i) /\ s.bags = b
      BY <3>1
    <3>3. /\ GoodPool(Cleared(p, i), members) /\ Cleared(p, i).count = p.count - 1
          /\ \A j \in Slots \ {i} : Cleared(p, i).slots[j] = p.slots[j]
      BY <2>1, ClearedGood
    <3> QED BY <1>1, <1>3, <3>2, <3>3 DEF Outcome
  <2>3. CASE chosen # {}
    <3>1. s \in UNION {Given(p, b, c, i) : c \in chosen}
      BY <1>3, <2>3 DEF Checked
    <3>2. PICK c \in chosen : s \in Given(p, b, c, i)
      BY <3>1
    <3>3. c \in Chars /\ b.room[c] > 0 /\ ~Passed(p, c, i)
      BY <3>2, HighestHaveLotted DEF Candidates
    <3> QED BY <1>3, <2>1, <3>2, <3>3, GivenOutcome
  <2> QED BY <2>2, <2>3
<1> QED BY <1>2, <1>3

-----------------------------------------------------------------------------
(* The slots settled one after the other                                    *)

(* The outcomes after the first n slots, as CheckedAll computes them.       *)
Recursion(u, n, p, b) ==
  u = [i \in 0..n |-> IF i = 0 THEN {[pool |-> p, bags |-> b]}
                      ELSE UNION {Checked(s.pool, s.bags, i, FALSE) : s \in u[i - 1]}]

LEMMA RecursionExtends ==
  ASSUME NEW p, NEW b, NEW n \in Nat \ {0}, NEW f, Recursion(f, n - 1, p, b)
  PROVE  \E g : Recursion(g, n, p, b)
<1> DEFINE after(S, i) == UNION {Checked(s.pool, s.bags, i, FALSE) : s \in S}
           g == [i \in 0..n |-> IF i = n THEN after(f[n - 1], n) ELSE f[i]]
<1> HIDE DEF after
<1>1. \A i \in 0..(n - 1) : f[i] = IF i = 0 THEN {[pool |-> p, bags |-> b]} ELSE after(f[i - 1], i)
  BY DEF Recursion, after
<1>2. ASSUME NEW i \in 0..n
      PROVE  g[i] = IF i = 0 THEN {[pool |-> p, bags |-> b]} ELSE after(g[i - 1], i)
  <2>1. CASE i = n
    <3>1. g[i - 1] = f[n - 1] /\ g[i] = after(f[n - 1], n)
      BY <2>1
    <3> QED BY <3>1, <2>1
  <2>2. CASE i # n /\ i # 0
    <3>1. g[i - 1] = f[i - 1] /\ g[i] = f[i] /\ i \in 0..(n - 1)
      BY <2>2
    <3> QED BY <3>1, <1>1, <2>2
  <2>3. CASE i # n /\ i = 0
    <3>1. g[i] = f[i] /\ i \in 0..(n - 1)
      BY <2>3
    <3> QED BY <3>1, <1>1, <2>3
  <2> QED BY <2>1, <2>2, <2>3
<1>3. g = [i \in 0..n |-> g[i]]
  OBVIOUS
<1>4. g = [i \in 0..n |-> IF i = 0 THEN {[pool |-> p, bags |-> b]} ELSE after(g[i - 1], i)]
  BY <1>2, <1>3
<1> HIDE DEF g
<1>5. Recursion(g, n, p, b)
  BY <1>4 DEF Recursion, after
<1> QED BY <1>5

LEMMA RecursionExists ==
  ASSUME NEW p, NEW b, NEW n \in Nat
  PROVE  \E f : Recursion(f, n, p, b)
<1> DEFINE Bad == {k \in Nat : ~ \E f : Recursion(f, k, p, b)}
<1> SUFFICES ASSUME Bad # {} PROVE FALSE
  OBVIOUS
<1>1. Bad \subseteq Nat
  OBVIOUS
<1>2. PICK k \in Bad : \A m \in Bad : k <= m
  <2> HIDE DEF Bad
  <2> QED BY <1>1, LeastNumber
<1>3. k \in Nat /\ ~ \E f : Recursion(f, k, p, b)
  BY <1>2
<1>4. CASE k = 0
  <2> DEFINE f == [i \in 0..0 |-> {[pool |-> p, bags |-> b]}]
  <2>1. f = [i \in 0..0 |-> IF i = 0 THEN {[pool |-> p, bags |-> b]}
                            ELSE UNION {Checked(s.pool, s.bags, i, FALSE) : s \in f[i - 1]}]
    OBVIOUS
  <2> QED BY <1>3, <1>4, <2>1 DEF Recursion
<1>5. CASE k # 0
  <2>1. k - 1 \in Nat /\ ~ (k <= k - 1) /\ k \in Nat \ {0}
    BY <1>3, <1>5
  <2>2. k - 1 \notin Bad
    <3> HIDE DEF Bad
    <3> QED BY <1>2, <2>1
  <2>3. \E f : Recursion(f, k - 1, p, b)
    BY <2>1, <2>2
  <2> QED BY <1>3, <2>1, <2>3, RecursionExtends
<1> QED BY <1>4, <1>5

LEMMA CheckedAllIsLast ==
  ASSUME NEW p, NEW b
  PROVE  \E u : Recursion(u, PoolSize, p, b) /\ CheckedAll(p, b) = u[PoolSize]
<1>1. \E f : Recursion(f, PoolSize, p, b)
  BY RecursionExists, PoolAssumption
<1>2. \E f : f = [i \in 0..PoolSize |->
                    IF i = 0 THEN {[pool |-> p, bags |-> b]}
                    ELSE UNION {Checked(s.pool, s.bags, i, FALSE) : s \in f[i - 1]}]
  BY <1>1 DEF Recursion
<1> QED BY <1>2 DEF CheckedAll, Recursion

(* After the first n slots: the others are as they were, and what was given *)
(* was deserved.                                                            *)
SettledUpTo(p, b, n, s) ==
  /\ GoodPool(s.pool, members) /\ s.bags \in Bags
  /\ s.pool.count <= p.count
  /\ \A j \in Slots : j > n => s.pool.slots[j] = p.slots[j]
  /\ Deserved(p, b, s.bags)

LEMMA SettledNext ==
  ASSUME NEW p, GoodPool(p, members), members \subseteq Chars, NEW b \in Bags, NEW n \in Slots,
         NEW r, SettledUpTo(p, b, n - 1, r), NEW s \in Checked(r.pool, r.bags, n, FALSE)
  PROVE  SettledUpTo(p, b, n, s)
<1>1. GoodPool(r.pool, members) /\ r.bags \in Bags /\ r.pool.slots[n] = p.slots[n] /\ n \in Nat
  BY DEF SettledUpTo, Slots
<1>2. Outcome(r.pool, r.bags, n, members, s)
  BY <1>1, CheckedOutcome
<1>3. s.pool.count <= p.count
  <2>1. s.pool.count \in Nat /\ r.pool.count \in Nat /\ p.count \in Nat
    BY <1>1, <1>2 DEF Outcome, GoodPool, Pools
  <2>2. s.pool.count <= r.pool.count /\ r.pool.count <= p.count
    BY <1>2 DEF Outcome, SettledUpTo
  <2> QED BY <2>1, <2>2
<1>4. \A c : Passed(r.pool, c, n) <=> Passed(p, c, n)
  BY <1>1 DEF Passed
<1>5. ASSUME NEW j \in Slots, j > n PROVE s.pool.slots[j] = p.slots[j]
  <2>1. j \in Slots \ {n} /\ j > n - 1
    BY <1>5 DEF Slots
  <2> QED BY <1>2, <2>1 DEF Outcome, SettledUpTo
<1>6. ASSUME NEW c \in Chars, NEW x \in Rare, x \in s.bags.has[c] \ b.has[c]
      PROVE  \E i \in Slots : p.slots[i].item = x /\ ~Passed(p, c, i)
  <2>1. CASE x \in r.bags.has[c]
    BY <1>6, <2>1 DEF SettledUpTo, Deserved
  <2>2. CASE x \notin r.bags.has[c]
    <3>1. r.pool.slots[n].item = x /\ ~Passed(r.pool, c, n)
      BY <1>2, <1>6, <2>2 DEF Outcome
    <3> QED BY <1>1, <1>4, <3>1
  <2> QED BY <2>1, <2>2
<1> QED BY <1>2, <1>3, <1>5, <1>6 DEF SettledUpTo, Deserved, Outcome

LEMMA CheckedAllOutcome ==
  ASSUME NEW p, GoodPool(p, members), members \subseteq Chars, NEW b \in Bags,
         NEW s \in CheckedAll(p, b)
  PROVE  SettledUpTo(p, b, PoolSize, s)
<1>1. PICK u : Recursion(u, PoolSize, p, b) /\ CheckedAll(p, b) = u[PoolSize]
  BY CheckedAllIsLast
<1> DEFINE Good(n) == \A r \in u[n] : SettledUpTo(p, b, n, r)
           Bad == {n \in 0..PoolSize : ~Good(n)}
<1>2. Good(0)
  <2>1. u[0] = {[pool |-> p, bags |-> b]}
    BY <1>1, PoolAssumption DEF Recursion
  <2>2. SettledUpTo(p, b, 0, [pool |-> p, bags |-> b])
    BY DEF SettledUpTo, Deserved, GoodPool, Pools
  <2> QED BY <2>1, <2>2
<1>3. ASSUME NEW n \in Slots, Good(n - 1) PROVE Good(n)
  <2>1. n \in 0..PoolSize /\ n # 0
    BY DEF Slots
  <2>2. u[n] = UNION {Checked(r.pool, r.bags, n, FALSE) : r \in u[n - 1]}
    BY <1>1, <2>1 DEF Recursion
  <2> SUFFICES ASSUME NEW q \in u[n] PROVE SettledUpTo(p, b, n, q)
    OBVIOUS
  <2>3. PICK r \in u[n - 1] : q \in Checked(r.pool, r.bags, n, FALSE)
    BY <2>2
  <2>4. SettledUpTo(p, b, n - 1, r)
    BY <1>3, <2>3
  <2> QED BY <2>3, <2>4, SettledNext
<1>4. Bad \subseteq Nat
  BY PoolAssumption
<1>5. Bad = {}
  <2> SUFFICES ASSUME Bad # {} PROVE FALSE
    OBVIOUS
  <2>1. PICK k \in Bad : \A m \in Bad : k <= m
    <3> HIDE DEF Bad
    <3> QED BY <1>4, LeastNumber
  <2>2. k \in 0..PoolSize /\ ~Good(k) /\ k # 0
    BY <1>2, <2>1
  <2>3. k \in Slots /\ k - 1 \in 0..PoolSize /\ ~ (k <= k - 1)
    <3> HIDE DEF Good
    <3> QED BY <2>2, PoolAssumption DEF Slots
  <2>4. k - 1 \notin Bad
    <3> HIDE DEF Bad
    <3> QED BY <2>1, <2>3
  <2>5. Good(k - 1)
    <3> HIDE DEF Good
    <3> QED BY <2>3, <2>4
  <2> HIDE DEF Good, Bad
  <2> QED BY <1>3, <2>2, <2>3, <2>5
<1>6. Good(PoolSize)
  <2> HIDE DEF Good
  <2> QED BY <1>5, PoolAssumption
<1> QED BY <1>1, <1>6

-----------------------------------------------------------------------------
(* Leaving: the lots of everyone else                                       *)

OthersUpTo(u, ls, c, n) ==
  u = [k \in 0..n |-> IF k = 0 THEN <<>>
                      ELSE IF ls[k].member = c THEN u[k - 1] ELSE Append(u[k - 1], ls[k])]

LEMMA OthersExtends ==
  ASSUME NEW ls, NEW c, NEW n \in Nat \ {0}, NEW f, OthersUpTo(f, ls, c, n - 1)
  PROVE  \E g : OthersUpTo(g, ls, c, n)
<1> DEFINE after(x, k) == IF ls[k].member = c THEN x ELSE Append(x, ls[k])
           g == [i \in 0..n |-> IF i = n THEN after(f[n - 1], n) ELSE f[i]]
<1> HIDE DEF after
<1>1. \A i \in 0..(n - 1) : f[i] = IF i = 0 THEN <<>> ELSE after(f[i - 1], i)
  BY DEF OthersUpTo, after
<1>2. ASSUME NEW i \in 0..n
      PROVE  g[i] = IF i = 0 THEN <<>> ELSE after(g[i - 1], i)
  <2>1. CASE i = n
    <3>1. g[i - 1] = f[n - 1] /\ g[i] = after(f[n - 1], n)
      BY <2>1
    <3> QED BY <3>1, <2>1
  <2>2. CASE i # n /\ i # 0
    <3>1. g[i - 1] = f[i - 1] /\ g[i] = f[i] /\ i \in 0..(n - 1)
      BY <2>2
    <3> QED BY <3>1, <1>1, <2>2
  <2>3. CASE i # n /\ i = 0
    <3>1. g[i] = f[i] /\ i \in 0..(n - 1)
      BY <2>3
    <3> QED BY <3>1, <1>1, <2>3
  <2> QED BY <2>1, <2>2, <2>3
<1>3. g = [i \in 0..n |-> g[i]]
  OBVIOUS
<1>4. g = [i \in 0..n |-> IF i = 0 THEN <<>> ELSE after(g[i - 1], i)]
  BY <1>2, <1>3
<1> HIDE DEF g
<1>5. OthersUpTo(g, ls, c, n)
  BY <1>4 DEF OthersUpTo, after
<1> QED BY <1>5

LEMMA OthersExists ==
  ASSUME NEW ls, NEW c, NEW n \in Nat
  PROVE  \E f : OthersUpTo(f, ls, c, n)
<1> DEFINE Bad == {k \in Nat : ~ \E f : OthersUpTo(f, ls, c, k)}
<1> SUFFICES ASSUME Bad # {} PROVE FALSE
  OBVIOUS
<1>1. Bad \subseteq Nat
  OBVIOUS
<1>2. PICK k \in Bad : \A m \in Bad : k <= m
  <2> HIDE DEF Bad
  <2> QED BY <1>1, LeastNumber
<1>3. k \in Nat /\ ~ \E f : OthersUpTo(f, ls, c, k)
  BY <1>2
<1>4. CASE k = 0
  <2> DEFINE f == [i \in 0..0 |-> <<>>]
  <2>1. f = [i \in 0..0 |-> IF i = 0 THEN <<>>
                            ELSE IF ls[i].member = c THEN f[i - 1] ELSE Append(f[i - 1], ls[i])]
    OBVIOUS
  <2> QED BY <1>3, <1>4, <2>1 DEF OthersUpTo
<1>5. CASE k # 0
  <2>1. k - 1 \in Nat /\ ~ (k <= k - 1) /\ k \in Nat \ {0}
    BY <1>3, <1>5
  <2>2. k - 1 \notin Bad
    <3> HIDE DEF Bad
    <3> QED BY <1>2, <2>1
  <2>3. \E f : OthersUpTo(f, ls, c, k - 1)
    BY <2>1, <2>2
  <2> QED BY <1>3, <2>1, <2>3, OthersExtends
<1> QED BY <1>4, <1>5

(* Of the first n answers, those that are not c's, each once.               *)
OthersOf(x, ls, c, n) ==
  /\ x \in Seq(LotInfo)
  /\ \A j \in 1..Len(x) : x[j].member # c /\ \E k \in 1..n : ls[k] = x[j]
  /\ \A j, k \in 1..Len(x) : x[j].member = x[k].member => j = k

LEMMA AppendOther ==
  ASSUME NEW ms, NEW ls \in Seq(LotInfo), AnswersOf(ls, ms), NEW c, NEW n \in 1..Len(ls),
         NEW x, OthersOf(x, ls, c, n - 1), ls[n].member # c
  PROVE  OthersOf(Append(x, ls[n]), ls, c, n)
<1> DEFINE y == Append(x, ls[n])
<1>1. ls[n] \in LotInfo /\ x \in Seq(LotInfo) /\ n \in Nat /\ Len(ls) \in Nat /\ DOMAIN ls = 1..Len(ls)
  BY DEF OthersOf
<1>2. /\ y \in Seq(LotInfo) /\ Len(y) = Len(x) + 1 /\ Len(x) \in Nat
      /\ y[Len(x) + 1] = ls[n] /\ \A j \in 1..Len(x) : y[j] = x[j]
  BY <1>1
<1>3. ASSUME NEW j \in 1..Len(x) PROVE y[j].member # ls[n].member
  <2>1. PICK k \in 1..(n - 1) : ls[k] = x[j]
    BY DEF OthersOf
  <2>2. k \in DOMAIN ls /\ n \in DOMAIN ls /\ k # n
    BY <1>1
  <2>3. ls[k].member # ls[n].member
    BY <2>2 DEF AnswersOf
  <2> QED BY <1>2, <2>1, <2>3
<1> HIDE DEF y
<1>4. ASSUME NEW j \in 1..Len(y) PROVE y[j].member # c /\ \E k \in 1..n : ls[k] = y[j]
  <2>1. CASE j = Len(x) + 1
    BY <1>1, <1>2, <2>1
  <2>2. CASE j \in 1..Len(x)
    <3>1. PICK k \in 1..(n - 1) : ls[k] = x[j]
      BY <2>2 DEF OthersOf
    <3>2. k \in 1..n
      BY <1>1
    <3> QED BY <1>2, <2>2, <3>1, <3>2 DEF OthersOf
  <2> QED BY <1>2, <2>1, <2>2
<1>5. ASSUME NEW j \in 1..Len(y), NEW k \in 1..Len(y), y[j].member = y[k].member PROVE j = k
  <2>1. CASE j = Len(x) + 1 \/ k = Len(x) + 1
    BY <1>2, <1>3, <1>5, <2>1
  <2>2. CASE j \in 1..Len(x) /\ k \in 1..Len(x)
    BY <1>2, <1>5, <2>2 DEF OthersOf
  <2> QED BY <1>2, <2>1, <2>2
<1> QED BY <1>2, <1>4, <1>5 DEF OthersOf, y

LEMMA OthersAnswers ==
  ASSUME NEW ms, NEW ls \in Seq(LotInfo), AnswersOf(ls, ms), NEW c
  PROVE  Others(ls, c) \in Seq(LotInfo) /\ AnswersOf(Others(ls, c), ms \ {c})
<1>1. Len(ls) \in Nat /\ DOMAIN ls = 1..Len(ls)
  OBVIOUS
<1>2. \E f : OthersUpTo(f, ls, c, Len(ls))
  BY <1>1, OthersExists
<1>3. \E f : f = [n \in 0..Len(ls) |-> IF n = 0 THEN <<>>
                     ELSE IF ls[n].member = c THEN f[n - 1] ELSE Append(f[n - 1], ls[n])]
  BY <1>2 DEF OthersUpTo
<1>4. PICK u : OthersUpTo(u, ls, c, Len(ls)) /\ Others(ls, c) = u[Len(ls)]
  BY <1>3 DEF Others, OthersUpTo
<1> DEFINE Good(n) == OthersOf(u[n], ls, c, n)
           Bad == {n \in 0..Len(ls) : ~Good(n)}
<1>5. Good(0)
  BY <1>1, <1>4 DEF OthersUpTo, OthersOf
<1>6. ASSUME NEW n \in 1..Len(ls), Good(n - 1) PROVE Good(n)
  <2>1. n \in 0..Len(ls) /\ n # 0 /\ u[n] = IF ls[n].member = c THEN u[n - 1] ELSE Append(u[n - 1], ls[n])
    <3>1. n \in 0..Len(ls) /\ n # 0
      BY <1>1
    <3> QED BY <3>1, <1>4 DEF OthersUpTo
  <2>2. CASE ls[n].member = c
    <3>1. u[n] = u[n - 1]
      BY <2>1, <2>2
    <3>2. \A k \in 1..(n - 1) : k \in 1..n
      BY <1>1
    <3> QED BY <1>6, <3>1, <3>2 DEF OthersOf
  <2>3. CASE ls[n].member # c
    BY <1>6, <2>1, <2>3, AppendOther
  <2> QED BY <2>2, <2>3
<1>7. Bad \subseteq Nat
  BY <1>1
<1>8. Bad = {}
  <2> SUFFICES ASSUME Bad # {} PROVE FALSE
    OBVIOUS
  <2>1. PICK k \in Bad : \A m \in Bad : k <= m
    <3> HIDE DEF Bad
    <3> QED BY <1>7, LeastNumber
  <2>2. k \in 0..Len(ls) /\ ~Good(k) /\ k # 0
    BY <1>5, <2>1
  <2>3. k \in 1..Len(ls) /\ k - 1 \in 0..Len(ls) /\ ~ (k <= k - 1)
    <3> HIDE DEF Good
    <3> QED BY <2>2, <1>1
  <2>4. k - 1 \notin Bad
    <3> HIDE DEF Bad
    <3> QED BY <2>1, <2>3
  <2>5. Good(k - 1)
    <3> HIDE DEF Good
    <3> QED BY <2>3, <2>4
  <2> HIDE DEF Good, Bad
  <2> QED BY <1>6, <2>2, <2>3, <2>5
<1>9. Good(Len(ls))
  <2> HIDE DEF Good
  <2> QED BY <1>1, <1>8
<1>10. OthersOf(Others(ls, c), ls, c, Len(ls))
  BY <1>4, <1>9
<1> HIDE DEF Good, Bad
<1> DEFINE x == Others(ls, c)
<1> HIDE DEF x
<1>11. x \in Seq(LotInfo) /\ DOMAIN x = 1..Len(x)
  BY <1>10 DEF OthersOf, x
<1>12. ASSUME NEW j \in DOMAIN x PROVE x[j].member \in ms \ {c}
  <2>1. PICK k \in 1..Len(ls) : ls[k] = x[j] /\ x[j].member # c
    BY <1>10, <1>11 DEF OthersOf, x
  <2> QED BY <1>1, <2>1 DEF AnswersOf
<1> QED BY <1>10, <1>11, <1>12 DEF OthersOf, AnswersOf, x

LEMMA WithoutLotsGood ==
  ASSUME NEW ms, NEW p, GoodPool(p, ms), NEW c
  PROVE  GoodPool(WithoutLotsOf(p, c), ms \ {c}) /\ WithoutLotsOf(p, c).count = p.count
<1> DEFINE q == WithoutLotsOf(p, c)
<1>1. p \in Pools
  BY DEF GoodPool
<1>2. ASSUME NEW i \in Slots
      PROVE  /\ q.slots[i] = [p.slots[i] EXCEPT !.lotters = Others(p.slots[i].lotters, c)]
             /\ q.slots[i] \in Slot /\ q.slots[i].item = p.slots[i].item
             /\ AnswersOf(q.slots[i].lotters, ms \ {c})
  <2>1. q.slots[i] = [p.slots[i] EXCEPT !.lotters = Others(p.slots[i].lotters, c)]
    BY <1>1 DEF WithoutLotsOf, Pools
  <2>2. p.slots[i] \in Slot /\ p.slots[i].lotters \in Seq(LotInfo)
    BY <1>1, PoolFields
  <2>3. Others(p.slots[i].lotters, c) \in Seq(LotInfo) /\ AnswersOf(Others(p.slots[i].lotters, c), ms \ {c})
    BY <2>2, OthersAnswers DEF GoodPool
  <2> HIDE DEF q
  <2> QED BY <2>1, <2>2, <2>3 DEF Slot
<1>3. q.count = p.count /\ q.count \in Nat /\ DOMAIN q = {"slots", "count"}
  BY <1>1 DEF WithoutLotsOf, Pools
<1>4. q = [slots |-> [i \in Slots |-> [p.slots[i] EXCEPT !.lotters = Others(p.slots[i].lotters, c)]], count |-> p.count]
  BY <1>1 DEF WithoutLotsOf, Pools
<1> HIDE DEF q
<1>5. q \in Pools
  <2>1. q.slots = [i \in Slots |-> [p.slots[i] EXCEPT !.lotters = Others(p.slots[i].lotters, c)]]
    BY <1>4
  <2>2. q.slots \in [Slots -> Slot]
    BY <2>1, <1>2
  <2> QED BY <1>3, <1>4, <2>2 DEF Pools
<1>6. Counted(q)
  <2>1. \A i \in Slots : Occupied(q, i) <=> Occupied(p, i)
    BY <1>2 DEF Occupied
  <2>2. {i \in Slots : Occupied(q, i)} = {i \in Slots : Occupied(p, i)}
    BY <2>1
  <2> QED BY <1>3, <2>2 DEF GoodPool, Counted
<1> QED BY <1>2, <1>3, <1>5, <1>6 DEF GoodPool, q

-----------------------------------------------------------------------------
(* Items                                                                    *)

(* Among the slots that may give way there is an oldest.                    *)
LEMMA OldestAmong ==
  ASSUME NEW p \in Pools, NEW among \in SUBSET Slots, among # {}
  PROVE  \E i \in among : \A j \in among :
           p.slots[j].age < p.slots[i].age \/ (p.slots[j].age = p.slots[i].age /\ i <= j)
<1> DEFINE Left(i) == Life + 1 - p.slots[i].age
           Lefts == {Left(i) : i \in among}
<1>1. \A i \in among : p.slots[i].age \in 0..(Life + 1) /\ i \in Nat /\ Life \in Nat
  BY PoolFields, PoolAssumption, SlotsFinite
<1>2. \A i \in among : Left(i) \in Nat
  BY <1>1
<1>3. Lefts \subseteq Nat /\ Lefts # {}
  <2> HIDE DEF Left
  <2> QED BY <1>2
<1>4. PICK n \in Lefts : \A m \in Lefts : n <= m
  <2> HIDE DEF Lefts
  <2> QED BY <1>3, LeastNumber
<1> DEFINE Old == {i \in among : Left(i) = n}
<1>5. Old \subseteq Nat /\ Old # {}
  <2> HIDE DEF Left
  <2> QED BY <1>1, <1>4
<1>6. PICK i \in Old : \A j \in Old : i <= j
  <2> HIDE DEF Old
  <2> QED BY <1>5, LeastNumber
<1>7. ASSUME NEW j \in among
      PROVE  p.slots[j].age < p.slots[i].age \/ (p.slots[j].age = p.slots[i].age /\ i <= j)
  <2>1. Left(i) = n /\ i \in among /\ Left(i) <= Left(j)
    <3> HIDE DEF Left
    <3> QED BY <1>4, <1>6
  <2>2. CASE Left(j) = n
    <3>1. i <= j
      <4> HIDE DEF Left
      <4> QED BY <1>6, <2>2
    <3> QED BY <1>1, <2>1, <2>2, <3>1
  <2>3. CASE Left(j) # n
    BY <1>1, <2>1, <2>3
  <2> QED BY <2>2, <2>3
<1> QED BY <1>6, <1>7

LEMMA OldestIsSlot ==
  ASSUME NEW p \in Pools
  PROVE  Oldest(p) \in Slots
<1> DEFINE plain  == {i \in Slots : p.slots[i].item \notin Rare \cup Exclusive}
           common == {i \in Slots : p.slots[i].item \notin Exclusive}
           among  == IF plain # {} THEN plain ELSE IF common # {} THEN common ELSE Slots
<1>1. among \in SUBSET Slots /\ among # {}
  BY SlotsFinite
<1>2. Oldest(p) = CHOOSE i \in among : \A j \in among :
        p.slots[j].age < p.slots[i].age \/ (p.slots[j].age = p.slots[i].age /\ i <= j)
  BY DEF Oldest
<1> HIDE DEF among
<1>3. \E i \in among : \A j \in among :
        p.slots[j].age < p.slots[i].age \/ (p.slots[j].age = p.slots[i].age /\ i <= j)
  BY <1>1, OldestAmong
<1> QED BY <1>1, <1>2, <1>3

LEMMA FirstFreeIsFree ==
  ASSUME NEW p, \E i \in Slots : ~Occupied(p, i)
  PROVE  FirstFree(p) \in Slots /\ ~Occupied(p, FirstFree(p))
<1> DEFINE free == {i \in Slots : ~Occupied(p, i)}
<1>1. free \subseteq Nat /\ free # {}
  BY SlotsFinite
<1>2. PICK i \in free : \A j \in free : i <= j
  <2> HIDE DEF free
  <2> QED BY <1>1, LeastNumber
<1>3. i \in Slots /\ ~Occupied(p, i)
  BY <1>2
<1>4. ASSUME NEW j \in 1..(i - 1) PROVE Occupied(p, j)
  <2>1. j \in Slots /\ ~ (i <= j)
    BY <1>3, PoolAssumption DEF Slots
  <2> QED BY <1>2, <2>1
<1> QED BY <1>3, <1>4 DEF FirstFree

LEMMA PlacedGood ==
  ASSUME NEW ms, NEW p, GoodPool(p, ms), NEW i \in Slots, ~Occupied(p, i), NEW item \in Items
  PROVE  /\ GoodPool(Placed(p, item, i), ms)
         /\ Placed(p, item, i).count = p.count + 1
         /\ Placed(p, item, i).slots[i].item = item
         /\ Placed(p, item, i).slots[i].lotters = p.slots[i].lotters
         /\ \A j \in Slots \ {i} : Placed(p, item, i).slots[j] = p.slots[j]
<1> DEFINE q == Placed(p, item, i)
           In(x) == {j \in Slots : Occupied(x, j)}
           new == [item |-> item, age |-> 0, lotters |-> p.slots[i].lotters]
<1>1. p \in Pools /\ p.slots[i] \in Slot
  BY PoolFields DEF GoodPool
<1>2. new \in Slot /\ new.item = item /\ new.item # NoItem
  BY <1>1, PoolAssumption DEF Slot
<1>3. q.slots = [p.slots EXCEPT ![i] = new] /\ q.count = p.count + 1
  <2>1. q.slots = [p.slots EXCEPT ![i].item = item, ![i].age = 0] /\ q.count = p.count + 1
    BY DEF Placed
  <2>2. q.slots[i] = [[p.slots[i] EXCEPT !.item = item] EXCEPT !.age = 0]
    BY <2>1, <1>1 DEF Pools
  <2>3. q.slots[i] = new
    <3> HIDE DEF q
    <3> QED BY <2>2, <1>1 DEF Slot
  <2>4. q.slots \in [Slots -> {q.slots[j] : j \in Slots}] /\ \A j \in Slots \ {i} : q.slots[j] = p.slots[j]
    BY <2>1, <1>1 DEF Pools
  <2> HIDE DEF q, new
  <2> QED BY <2>1, <2>3, <2>4, <1>1 DEF Pools
<1> HIDE DEF q, new
<1>4. /\ q.slots[i] = new /\ q.slots \in [Slots -> Slot]
      /\ \A j \in Slots \ {i} : q.slots[j] = p.slots[j]
  BY <1>1, <1>2, <1>3 DEF Pools
<1>5. In(q) = In(p) \cup {i}
  BY <1>2, <1>4 DEF Occupied
<1>6. i \notin In(p) /\ IsFiniteSet(In(p)) /\ Cardinality(In(p)) = p.count
  BY SlotsFinite DEF GoodPool, Counted
<1>7. Cardinality(In(q)) = p.count + 1
  <2> HIDE DEF In
  <2> QED BY <1>5, <1>6, FS_AddElement
<1>8. q = [slots |-> q.slots, count |-> q.count] /\ p.count \in Nat
  BY <1>1 DEF Placed, Pools, q
<1>9. q \in Pools
  BY <1>3, <1>4, <1>8 DEF Pools
<1>10. Counted(q)
  BY <1>3, <1>7 DEF Counted
<1>11. q.slots[i].lotters = p.slots[i].lotters /\ q.slots[i].item = item
  BY <1>4 DEF new
<1>12. \A j \in Slots : AnswersOf(q.slots[j].lotters, ms)
  BY <1>4, <1>11 DEF GoodPool
<1> QED BY <1>3, <1>4, <1>9, <1>10, <1>11, <1>12 DEF GoodPool, q

-----------------------------------------------------------------------------
(* Every operation keeps the pool good                                      *)

LEMMA BecomeKeeps ==
  ASSUME NEW O, \A s \in O : GoodPool(s.pool, members) /\ s.bags \in Bags,
         Become(O), members' = members
  PROVE  GoodPool(pool, members)' /\ bags' \in Bags
BY DEF Become

(* An answer of a member who has not answered, or who takes back a lot.     *)
LEMMA AnswerGood ==
  ASSUME NEW ms, NEW p, GoodPool(p, ms), NEW i \in Slots, NEW ls \in Seq(LotInfo), AnswersOf(ls, ms)
  PROVE  /\ GoodPool([p EXCEPT !.slots[i].lotters = ls], ms)
         /\ [p EXCEPT !.slots[i].lotters = ls].count = p.count
         /\ [p EXCEPT !.slots[i].lotters = ls].slots[i].lotters = ls
         /\ \A j \in Slots : /\ [p EXCEPT !.slots[i].lotters = ls].slots[j].item = p.slots[j].item
                             /\ j # i => [p EXCEPT !.slots[i].lotters = ls].slots[j] = p.slots[j]
<1> DEFINE q == [p EXCEPT !.slots[i].lotters = ls]
           new == [p.slots[i] EXCEPT !.lotters = ls]
<1>1. p \in Pools /\ p.slots[i] \in Slot
  BY PoolFields DEF GoodPool
<1>2. new \in Slot /\ new.item = p.slots[i].item /\ new.lotters = ls
  BY <1>1 DEF Slot
<1>3. q = [slots |-> [p.slots EXCEPT ![i] = new], count |-> p.count]
  BY <1>1 DEF Pools
<1> HIDE DEF q, new
<1>4. /\ q.count = p.count /\ q.slots \in [Slots -> Slot] /\ q.slots[i] = new
      /\ \A j \in Slots \ {i} : q.slots[j] = p.slots[j]
  BY <1>1, <1>2, <1>3 DEF Pools
<1>5. q \in Pools
  BY <1>1, <1>3, <1>4 DEF Pools
<1>6. \A j \in Slots : q.slots[j].item = p.slots[j].item /\ AnswersOf(q.slots[j].lotters, ms)
  BY <1>2, <1>4 DEF GoodPool
<1>7. {j \in Slots : Occupied(q, j)} = {j \in Slots : Occupied(p, j)}
  BY <1>6 DEF Occupied
<1>8. Counted(q)
  BY <1>4, <1>7 DEF GoodPool, Counted
<1> QED BY <1>2, <1>4, <1>5, <1>6, <1>8 DEF GoodPool, q

LEMMA AppendedAnswers ==
  ASSUME NEW ls \in Seq(LotInfo), NEW ms, AnswersOf(ls, ms), NEW info \in LotInfo, info.member \in ms,
         ~ \E k \in DOMAIN ls : ls[k].member = info.member
  PROVE  Append(ls, info) \in Seq(LotInfo) /\ AnswersOf(Append(ls, info), ms)
<1> DEFINE y == Append(ls, info)
<1>1. /\ y \in Seq(LotInfo) /\ Len(y) = Len(ls) + 1 /\ Len(ls) \in Nat /\ DOMAIN y = 1..Len(y)
      /\ DOMAIN ls = 1..Len(ls)
      /\ y[Len(ls) + 1] = info /\ \A j \in 1..Len(ls) : y[j] = ls[j]
  OBVIOUS
<1> HIDE DEF y
<1>2. \A j \in DOMAIN y : j = Len(ls) + 1 \/ j \in DOMAIN ls
  BY <1>1
<1>3. \A j \in DOMAIN ls : y[j] = ls[j]
  BY <1>1
<1> QED BY <1>1, <1>2, <1>3 DEF AnswersOf, y

LEMMA ReplacedAnswers ==
  ASSUME NEW ls \in Seq(LotInfo), NEW ms, AnswersOf(ls, ms), NEW info \in LotInfo, info.member \in ms,
         NEW y, y = [k \in DOMAIN ls |-> IF ls[k].member = info.member THEN info ELSE ls[k]]
  PROVE  y \in Seq(LotInfo) /\ AnswersOf(y, ms)
<1>1. DOMAIN ls = 1..Len(ls) /\ Len(ls) \in Nat
  OBVIOUS
<1>2. \A k \in DOMAIN ls : ls[k] \in LotInfo
  OBVIOUS
<1>3. \A k \in DOMAIN ls : y[k] \in LotInfo /\ y[k].member = ls[k].member
  BY <1>2
<1>4. y \in [1..Len(ls) -> LotInfo]
  BY <1>1, <1>3
<1>5. y \in Seq(LotInfo) /\ DOMAIN y = DOMAIN ls
  BY <1>1, <1>4, IsASeq
<1> QED BY <1>3, <1>5 DEF AnswersOf

(* An answer after which the slot may be settled.                           *)
LEMMA AnsweredOutcome ==
  ASSUME PoolInv, NEW p, GoodPool(p, members), NEW i \in Slots, NEW s \in Answered(p, i)
  PROVE  /\ GoodPool(s.pool, members) /\ s.bags \in Bags
         /\ \A c \in Chars, x \in Rare :
              x \in s.bags.has[c] \ bags.has[c] => p.slots[i].item = x /\ ~Passed(p, c, i)
<1>1. members \subseteq Chars /\ bags \in Bags
  BY DEF PoolInv
<1>2. CASE AllAnswered(p, i)
  <2>1. s \in Checked(p, bags, i, FALSE)
    BY <1>2 DEF Answered
  <2>2. PICK f \in BOOLEAN : f = FALSE
    OBVIOUS
  <2>3. Outcome(p, bags, i, members, s)
    BY <1>1, <2>1, <2>2, CheckedOutcome
  <2> QED BY <2>3 DEF Outcome
<1>3. CASE ~AllAnswered(p, i)
  <2>1. s = [pool |-> p, bags |-> bags]
    BY <1>3 DEF Answered
  <2>2. s.pool = p /\ s.bags = bags
    BY <2>1
  <2> QED BY <1>1, <2>2
<1> QED BY <1>2, <1>3

(* The pools of the handlers of a lot and a pass, before the check.         *)
WithLot(c, i, n) == [pool EXCEPT !.slots[i].lotters = Append(@, [member |-> c, lot |-> n])]

Replaced(c, i) ==
  [k \in DOMAIN pool.slots[i].lotters |->
     IF pool.slots[i].lotters[k].member = c THEN [member |-> c, lot |-> 0] ELSE pool.slots[i].lotters[k]]
AfterPass(c, i) ==
  IF Lotted(pool, c, i) THEN Replaced(c, i)
  ELSE Append(pool.slots[i].lotters, [member |-> c, lot |-> 0])
WithPass(c, i) == [pool EXCEPT !.slots[i].lotters = AfterPass(c, i)]

LEMMA LotGood ==
  ASSUME PoolInv, NEW c \in members, NEW i \in Slots, NEW n \in 1..MaxLot, ~Lotted(pool, c, i)
  PROVE  /\ GoodPool(WithLot(c, i, n), members)
         /\ \A d \in Chars, j \in Slots : /\ Passed(pool, d, j) => Passed(WithLot(c, i, n), d, j)
                                          /\ WithLot(c, i, n).slots[j].item = pool.slots[j].item
<1> DEFINE ls == pool.slots[i].lotters
           info == [member |-> c, lot |-> n]
           new == Append(ls, info)
           q == WithLot(c, i, n)
<1>1. GoodPool(pool, members) /\ pool \in Pools /\ members \subseteq Chars
  BY DEF PoolInv, GoodPool
<1>2. ls \in Seq(LotInfo) /\ AnswersOf(ls, members)
  BY <1>1, PoolFields DEF GoodPool
<1>3. info \in LotInfo /\ info.member = c /\ info.member \in members
  BY <1>1, PoolAssumption DEF LotInfo
<1>4. ~ \E k \in DOMAIN ls : ls[k].member = info.member
  BY <1>3 DEF Lotted
<1>5. new \in Seq(LotInfo) /\ AnswersOf(new, members) /\ \A k \in DOMAIN ls : k \in DOMAIN new /\ new[k] = ls[k]
  <2> HIDE DEF ls, info
  <2>1. new \in Seq(LotInfo) /\ AnswersOf(new, members)
    BY <1>2, <1>3, <1>4, AppendedAnswers
  <2>2. \A k \in DOMAIN ls : k \in DOMAIN new /\ new[k] = ls[k]
    BY <1>2, <1>3
  <2> QED BY <2>1, <2>2
<1>6. q = [pool EXCEPT !.slots[i].lotters = new]
  BY <1>1 DEF WithLot, Pools
<1> HIDE DEF new, q
<1>7. /\ GoodPool(q, members) /\ q.slots[i].lotters = new
      /\ \A j \in Slots : q.slots[j].item = pool.slots[j].item /\ (j # i => q.slots[j] = pool.slots[j])
  BY <1>1, <1>5, <1>6, AnswerGood
<1>8. ASSUME NEW d \in Chars, NEW j \in Slots, Passed(pool, d, j) PROVE Passed(q, d, j)
  <2>1. CASE j = i
    BY <1>5, <1>7, <1>8, <2>1 DEF Passed
  <2>2. CASE j # i
    BY <1>7, <1>8, <2>2 DEF Passed
  <2> QED BY <2>1, <2>2
<1> QED BY <1>7, <1>8 DEF q

LEMMA PassGood ==
  ASSUME PoolInv, NEW c \in members, NEW i \in Slots
  PROVE  /\ GoodPool(WithPass(c, i), members)
         /\ \A d \in Chars, j \in Slots : /\ Passed(pool, d, j) => Passed(WithPass(c, i), d, j)
                                          /\ WithPass(c, i).slots[j].item = pool.slots[j].item
<1> DEFINE ls == pool.slots[i].lotters
           info == [member |-> c, lot |-> 0]
           new == AfterPass(c, i)
           q == WithPass(c, i)
<1>1. GoodPool(pool, members) /\ pool \in Pools /\ members \subseteq Chars
  BY DEF PoolInv, GoodPool
<1>2. ls \in Seq(LotInfo) /\ AnswersOf(ls, members)
  BY <1>1, PoolFields DEF GoodPool
<1>3. info \in LotInfo /\ info.member = c /\ info.member \in members
  BY <1>1, PoolAssumption DEF LotInfo
<1>4. /\ new \in Seq(LotInfo) /\ AnswersOf(new, members)
      /\ \A k \in DOMAIN ls : k \in DOMAIN new /\ (new[k] = ls[k] \/ (ls[k].member = c /\ new[k] = info))
  <2>1. CASE Lotted(pool, c, i)
    <3>1. new = [k \in DOMAIN ls |-> IF ls[k].member = info.member THEN info ELSE ls[k]]
      BY <2>1, <1>3 DEF AfterPass, Replaced
    <3> HIDE DEF ls, info, new
    <3>2. new \in Seq(LotInfo) /\ AnswersOf(new, members)
      BY <1>2, <1>3, <3>1, ReplacedAnswers
    <3>3. \A k \in DOMAIN ls : k \in DOMAIN new /\ (new[k] = ls[k] \/ (ls[k].member = c /\ new[k] = info))
      BY <1>3, <3>1
    <3> QED BY <3>2, <3>3
  <2>2. CASE ~Lotted(pool, c, i)
    <3>1. new = Append(ls, info)
      BY <2>2 DEF AfterPass
    <3>2. ~ \E k \in DOMAIN ls : ls[k].member = info.member
      BY <2>2, <1>3 DEF Lotted
    <3> HIDE DEF ls, info, new
    <3>3. new \in Seq(LotInfo) /\ AnswersOf(new, members)
      BY <1>2, <1>3, <3>1, <3>2, AppendedAnswers
    <3>4. \A k \in DOMAIN ls : k \in DOMAIN new /\ new[k] = ls[k]
      BY <1>2, <1>3, <3>1
    <3> QED BY <3>3, <3>4
  <2> QED BY <2>1, <2>2
<1>5. q = [pool EXCEPT !.slots[i].lotters = new]
  BY DEF WithPass
<1> HIDE DEF new, q
<1>6. /\ GoodPool(q, members) /\ q.slots[i].lotters = new
      /\ \A j \in Slots : q.slots[j].item = pool.slots[j].item /\ (j # i => q.slots[j] = pool.slots[j])
  BY <1>1, <1>4, <1>5, AnswerGood
<1>7. ASSUME NEW d \in Chars, NEW j \in Slots, Passed(pool, d, j) PROVE Passed(q, d, j)
  <2>1. CASE j = i
    <3>1. PICK k \in DOMAIN ls : ls[k] = [member |-> d, lot |-> 0]
      BY <1>7, <2>1 DEF Passed
    <3>2. ls[k].member = d
      BY <3>1
    <3>3. k \in DOMAIN new /\ new[k] = [member |-> d, lot |-> 0]
      BY <1>4, <3>1, <3>2
    <3> QED BY <1>6, <2>1, <3>3 DEF Passed
  <2>2. CASE j # i
    BY <1>6, <1>7, <2>2 DEF Passed
  <2> QED BY <2>1, <2>2
<1> QED BY <1>6, <1>7 DEF q

(* The zone's tick before the slots are looked at.                          *)
AgedPool ==
  [pool EXCEPT !.slots = [i \in Slots |->
     IF Occupied(pool, i) /\ pool.slots[i].age <= Life
     THEN [pool.slots[i] EXCEPT !.age = @ + 1] ELSE pool.slots[i]]]

LEMMA AgedGood ==
  ASSUME PoolInv
  PROVE  /\ GoodPool(AgedPool, members) /\ AgedPool.count = pool.count
         /\ \A i \in Slots : /\ AgedPool.slots[i].item = pool.slots[i].item
                             /\ AgedPool.slots[i].lotters = pool.slots[i].lotters
<1> DEFINE older == [i \in Slots |->
             IF Occupied(pool, i) /\ pool.slots[i].age <= Life
             THEN [pool.slots[i] EXCEPT !.age = @ + 1] ELSE pool.slots[i]]
           q == AgedPool
<1>1. GoodPool(pool, members) /\ pool \in Pools /\ Life \in Nat
  BY PoolAssumption DEF PoolInv, GoodPool
<1>2. ASSUME NEW i \in Slots
      PROVE  /\ older[i] \in Slot /\ older[i].item = pool.slots[i].item
             /\ older[i].lotters = pool.slots[i].lotters
  <2>1. pool.slots[i] \in Slot /\ pool.slots[i].age \in 0..(Life + 1)
    BY <1>1, PoolFields
  <2>2. CASE Occupied(pool, i) /\ pool.slots[i].age <= Life
    <3>1. older[i] = [pool.slots[i] EXCEPT !.age = @ + 1]
      BY <2>2
    <3>2. pool.slots[i].age + 1 \in 0..(Life + 1)
      BY <1>1, <2>1, <2>2
    <3> HIDE DEF older
    <3> QED BY <2>1, <3>1, <3>2 DEF Slot
  <2>3. CASE ~ (Occupied(pool, i) /\ pool.slots[i].age <= Life)
    <3>1. older[i] = pool.slots[i]
      BY <2>3
    <3> HIDE DEF older
    <3> QED BY <2>1, <3>1
  <2> QED BY <2>2, <2>3
<1>3. q = [slots |-> older, count |-> pool.count] /\ DOMAIN older = Slots
  BY <1>1 DEF AgedPool, Pools
<1>4. older = [i \in Slots |-> older[i]]
  OBVIOUS
<1> HIDE DEF older, q
<1>5. older \in [Slots -> Slot]
  BY <1>2, <1>4
<1>6. q.slots = older /\ q.count = pool.count
  BY <1>3
<1>7. q \in Pools
  BY <1>1, <1>3, <1>5 DEF Pools
<1>8. {i \in Slots : Occupied(q, i)} = {i \in Slots : Occupied(pool, i)}
  BY <1>2, <1>6 DEF Occupied
<1>9. Counted(q)
  BY <1>1, <1>6, <1>8 DEF Counted, GoodPool
<1> QED BY <1>1, <1>2, <1>6, <1>7, <1>9 DEF GoodPool, q

(* What addItem may leave behind, before its own check.                     *)
LEMMA MadeRoom ==
  ASSUME PoolInv, NEW item \in Items, NEW full, full = (\A i \in Slots : Occupied(pool, i)),
         NEW i, i = (IF full THEN Oldest(pool) ELSE FirstFree(pool)),
         NEW s \in (IF full THEN Checked(pool, bags, i, TRUE) ELSE {[pool |-> pool, bags |-> bags]})
  PROVE  /\ i \in Slots /\ GoodPool(s.pool, members) /\ ~Occupied(s.pool, i) /\ s.bags \in Bags
         /\ s.pool.count + 1 >= pool.count
<1>1. GoodPool(pool, members) /\ pool \in Pools /\ members \subseteq Chars /\ bags \in Bags /\ pool.count \in Nat
  BY DEF PoolInv, GoodPool, Pools
<1>2. CASE full
  <2>1. i \in Slots /\ Occupied(pool, i)
    BY <1>1, <1>2, OldestIsSlot
  <2>2. PICK f \in BOOLEAN : f = TRUE
    OBVIOUS
  <2>3. s \in Checked(pool, bags, i, f) /\ Due(pool, bags, i, f)
    BY <1>2, <2>1, <2>2 DEF Due
  <2>4. Outcome(pool, bags, i, members, s) /\ s.pool.count = pool.count - 1
    BY <1>1, <2>1, <2>3, CheckedOutcome
  <2>5. ~Occupied(s.pool, i)
    <3>1. \A c : \A t \in Given(pool, bags, c, i) : t.pool = Cleared(pool, i)
      BY DEF Given
    <3>2. \A t \in Lost(pool, bags, i) : t.pool = Cleared(pool, i)
      BY DEF Lost
    <3>3. s.pool = Cleared(pool, i)
      BY <2>3, <3>1, <3>2 DEF Checked
    <3> QED BY <1>1, <2>1, <3>3, ClearedGood
  <2> QED BY <1>1, <2>1, <2>4, <2>5 DEF Outcome
<1>3. CASE ~full
  <2>1. s = [pool |-> pool, bags |-> bags]
    BY <1>3
  <2>2. s.pool = pool /\ s.bags = bags
    BY <2>1
  <2>3. i \in Slots /\ ~Occupied(pool, i)
    BY <1>3, FirstFreeIsFree
  <2> QED BY <1>1, <2>2, <2>3
<1> QED BY <1>2, <1>3

LEMMA AddedGood ==
  ASSUME PoolInv, NEW item \in Items, AddItem(item)
  PROVE  /\ GoodPool(pool, members)' /\ bags' \in Bags /\ UNCHANGED <<members, type>>
         /\ Cardinality(members) # 1 => pool'.count >= pool.count
<1>1. PICK full : full = (\A i \in Slots : Occupied(pool, i))
  OBVIOUS
<1>2. PICK i : i = (IF full THEN Oldest(pool) ELSE FirstFree(pool))
  OBVIOUS
<1>3. PICK made : made = (IF full THEN Checked(pool, bags, i, TRUE) ELSE {[pool |-> pool, bags |-> bags]})
  OBVIOUS
<1>4. /\ Become(UNION {IF Cardinality(members) = 1 THEN Checked(Placed(s.pool, item, i), s.bags, i, FALSE)
                       ELSE {[pool |-> Placed(s.pool, item, i), bags |-> s.bags]} : s \in made})
      /\ UNCHANGED <<members, type>>
  BY <1>1, <1>2, <1>3 DEF AddItem
<1>5. PICK s \in made :
        \E t \in (IF Cardinality(members) = 1 THEN Checked(Placed(s.pool, item, i), s.bags, i, FALSE)
                  ELSE {[pool |-> Placed(s.pool, item, i), bags |-> s.bags]}) :
          pool' = t.pool /\ bags' = t.bags
  BY <1>4 DEF Become
<1>6. /\ i \in Slots /\ GoodPool(s.pool, members) /\ ~Occupied(s.pool, i) /\ s.bags \in Bags
      /\ s.pool.count + 1 >= pool.count
  BY <1>1, <1>2, <1>3, MadeRoom
<1>7. GoodPool(Placed(s.pool, item, i), members) /\ Placed(s.pool, item, i).count = s.pool.count + 1
  BY <1>6, PlacedGood
<1>8. CASE Cardinality(members) = 1
  <2>1. PICK t \in Checked(Placed(s.pool, item, i), s.bags, i, FALSE) : pool' = t.pool /\ bags' = t.bags
    BY <1>5, <1>8
  <2>2. PICK f \in BOOLEAN : f = FALSE
    OBVIOUS
  <2>3. Outcome(Placed(s.pool, item, i), s.bags, i, members, t)
    BY <1>6, <1>7, <2>1, <2>2, CheckedOutcome DEF PoolInv
  <2> QED BY <1>4, <1>8, <2>1, <2>3 DEF Outcome
<1>9. CASE Cardinality(members) # 1
  <2>1. PICK t \in {[pool |-> Placed(s.pool, item, i), bags |-> s.bags]} : pool' = t.pool /\ bags' = t.bags
    BY <1>5, <1>9
  <2>2. pool' = Placed(s.pool, item, i) /\ bags' = s.bags
    BY <2>1
  <2> QED BY <1>4, <1>6, <1>7, <2>2
<1> QED BY <1>8, <1>9

(* Where somebody new has an item, it was given to him by a check.          *)
DeservedStep ==
  \A c \in Chars, x \in Rare :
    x \in bags'.has[c] \ bags.has[c] => \E i \in Slots : pool.slots[i].item = x /\ ~Passed(pool, c, i)

LEMMA LotStep ==
  ASSUME PoolInv, NEW c \in Chars, NEW i \in Slots, NEW n \in 1..MaxLot, LotItem(c, i, n)
  PROVE  GoodPool(pool, members)' /\ bags' \in Bags /\ UNCHANGED <<members, type>> /\ DeservedStep
<1>1. c \in members /\ ~Lotted(pool, c, i) /\ Become(Answered(WithLot(c, i, n), i)) /\ UNCHANGED <<members, type>>
  BY DEF LotItem, WithLot
<1>2. PICK s \in Answered(WithLot(c, i, n), i) : pool' = s.pool /\ bags' = s.bags
  BY <1>1 DEF Become
<1>3. /\ GoodPool(WithLot(c, i, n), members)
      /\ \A d \in Chars, j \in Slots : /\ Passed(pool, d, j) => Passed(WithLot(c, i, n), d, j)
                                       /\ WithLot(c, i, n).slots[j].item = pool.slots[j].item
  BY <1>1, LotGood
<1>4. /\ GoodPool(s.pool, members) /\ s.bags \in Bags
      /\ \A d \in Chars, x \in Rare :
           x \in s.bags.has[d] \ bags.has[d] => WithLot(c, i, n).slots[i].item = x /\ ~Passed(WithLot(c, i, n), d, i)
  BY <1>2, <1>3, AnsweredOutcome
<1> QED BY <1>1, <1>2, <1>3, <1>4 DEF DeservedStep

LEMMA PassStep ==
  ASSUME PoolInv, NEW c \in Chars, NEW i \in Slots, PassItem(c, i)
  PROVE  GoodPool(pool, members)' /\ bags' \in Bags /\ UNCHANGED <<members, type>> /\ DeservedStep
<1>1. c \in members /\ Become(Answered(WithPass(c, i), i)) /\ UNCHANGED <<members, type>>
  BY DEF PassItem, WithPass, AfterPass, Replaced
<1>2. PICK s \in Answered(WithPass(c, i), i) : pool' = s.pool /\ bags' = s.bags
  BY <1>1 DEF Become
<1>3. /\ GoodPool(WithPass(c, i), members)
      /\ \A d \in Chars, j \in Slots : /\ Passed(pool, d, j) => Passed(WithPass(c, i), d, j)
                                       /\ WithPass(c, i).slots[j].item = pool.slots[j].item
  BY <1>1, PassGood
<1>4. /\ GoodPool(s.pool, members) /\ s.bags \in Bags
      /\ \A d \in Chars, x \in Rare :
           x \in s.bags.has[d] \ bags.has[d] => WithPass(c, i).slots[i].item = x /\ ~Passed(WithPass(c, i), d, i)
  BY <1>2, <1>3, AnsweredOutcome
<1> QED BY <1>1, <1>2, <1>3, <1>4 DEF DeservedStep

LEMMA CheckStep ==
  ASSUME PoolInv, CheckItems
  PROVE  GoodPool(pool, members)' /\ bags' \in Bags /\ UNCHANGED <<members, type>> /\ DeservedStep
<1>1. Become(CheckedAll(AgedPool, bags)) /\ UNCHANGED <<members, type>>
  BY DEF CheckItems, AgedPool
<1>2. PICK s \in CheckedAll(AgedPool, bags) : pool' = s.pool /\ bags' = s.bags
  BY <1>1 DEF Become
<1>3. /\ GoodPool(AgedPool, members)
      /\ \A i \in Slots : /\ AgedPool.slots[i].item = pool.slots[i].item
                          /\ AgedPool.slots[i].lotters = pool.slots[i].lotters
  BY AgedGood
<1>4. SettledUpTo(AgedPool, bags, PoolSize, s)
  BY <1>2, <1>3, CheckedAllOutcome DEF PoolInv
<1>5. \A c \in Chars, i \in Slots : Passed(AgedPool, c, i) <=> Passed(pool, c, i)
  BY <1>3 DEF Passed
<1> QED BY <1>1, <1>2, <1>3, <1>4, <1>5 DEF SettledUpTo, Deserved, DeservedStep

-----------------------------------------------------------------------------
(* The invariant                                                            *)

LEMMA MembersStep ==
  ASSUME PoolInv, NEW c \in Chars, Join(c) \/ Leave(c) \/ Reload(c)
  PROVE  PoolInv' /\ UNCHANGED bags
<1>1. GoodPool(pool, members) /\ members \subseteq Chars /\ type \in {"Solo", "Party", "Zone"} /\ bags \in Bags
  BY DEF PoolInv
<1>2. Unjoined \in {"Solo", "Zone"}
  BY DEF Unjoined
<1>3. CASE Join(c)
  <2>1. members' = members \cup {c} /\ UNCHANGED <<pool, bags>> /\ type' \in {type, "Solo", "Party"}
    BY <1>3 DEF Join
  <2>2. GoodPool(pool, members \cup {c})
    BY <1>1 DEF GoodPool, AnswersOf
  <2> QED BY <1>1, <2>1, <2>2 DEF PoolInv
<1>4. CASE Leave(c)
  <2>1. members' = members \ {c} /\ UNCHANGED bags
    BY <1>4 DEF Leave
  <2>2. type' \in {"Solo", "Party", "Zone"}
    BY <1>1, <1>2, <1>4 DEF Leave
  <2>3. pool' = NewPool \/ pool' = WithoutLotsOf(pool, c)
    BY <1>4 DEF Leave
  <2>4. GoodPool(pool', members \ {c})
    BY <1>1, <2>3, NewPoolGood, WithoutLotsGood
  <2> QED BY <1>1, <2>1, <2>2, <2>4 DEF PoolInv
<1>5. CASE Reload(c)
  <2>1. pool' = WithoutLotsOf(pool, c) /\ type' = "Party" /\ UNCHANGED <<members, bags>>
    BY <1>5 DEF Reload
  <2>2. GoodPool(pool', members \ {c})
    BY <1>1, <2>1, WithoutLotsGood
  <2>3. GoodPool(pool', members)
    BY <2>2 DEF GoodPool, AnswersOf
  <2> QED BY <1>1, <2>1, <2>3 DEF PoolInv
<1> QED BY <1>3, <1>4, <1>5

LEMMA BagsStep ==
  ASSUME PoolInv, NEW c \in Chars, Store(c) \/ Discard(c)
  PROVE  PoolInv' /\ UNCHANGED <<members, type, pool>>
<1>1. GoodPool(pool, members) /\ members \subseteq Chars /\ type \in {"Solo", "Party", "Zone"} /\ bags \in Bags
  BY DEF PoolInv
<1>2. bags.room \in [Chars -> 0..MaxRoom] /\ bags.has \in [Chars -> SUBSET Rare] /\ MaxRoom \in Nat
      /\ DOMAIN bags = {"room", "has"} /\ bags = [room |-> bags.room, has |-> bags.has]
  BY <1>1, PoolAssumption DEF Bags
<1> DEFINE Room(d) == [bags.room EXCEPT ![c] = d]
           Has(S) == [bags.has EXCEPT ![c] = S]
<1>3. ASSUME NEW d \in 0..MaxRoom, NEW S \in SUBSET Rare
      PROVE  [room |-> Room(d), has |-> Has(S)] \in Bags
  <2>1. Room(d) \in [Chars -> 0..MaxRoom] /\ Has(S) \in [Chars -> SUBSET Rare]
    BY <1>2
  <2> HIDE DEF Room, Has
  <2> QED BY <2>1 DEF Bags
<1>4. UNCHANGED <<members, type, pool>>
  BY DEF Store, Discard
<1>5. CASE Store(c)
  <2>1. bags.room[c] > 0 /\ bags.room[c] - 1 \in 0..MaxRoom /\ bags.has[c] \in SUBSET Rare
    <3>1. bags.room[c] > 0
      BY <1>5 DEF Store
    <3>2. bags.room[c] \in 0..MaxRoom /\ bags.has[c] \in SUBSET Rare
      BY <1>2
    <3> QED BY <1>2, <3>1, <3>2
  <2>2. CASE bags' = [bags EXCEPT !.room[c] = @ - 1]
    <3>1. bags' = [room |-> Room(bags.room[c] - 1), has |-> Has(bags.has[c])]
      BY <1>2, <2>2
    <3> QED BY <1>1, <1>3, <1>4, <2>1, <3>1 DEF PoolInv
  <2>3. ASSUME NEW item \in Rare, bags' = Received(bags, c, item) PROVE bags' \in Bags
    BY <1>1, <2>1, <2>3, ReceivedBags
  <2> QED BY <1>1, <1>4, <1>5, <2>2, <2>3 DEF Store, PoolInv
<1>6. CASE Discard(c)
  <2>1. bags.room[c] + 1 \in 0..MaxRoom /\ bags.has[c] \in SUBSET Rare
    <3>1. bags.room[c] < MaxRoom
      BY <1>6 DEF Discard
    <3>2. bags.room[c] \in 0..MaxRoom /\ bags.has[c] \in SUBSET Rare
      BY <1>2
    <3> QED BY <1>2, <3>1, <3>2
  <2>2. CASE bags' = [bags EXCEPT !.room[c] = @ + 1]
    <3>1. bags' = [room |-> Room(bags.room[c] + 1), has |-> Has(bags.has[c])]
      BY <1>2, <2>2
    <3> QED BY <1>1, <1>3, <1>4, <2>1, <3>1 DEF PoolInv
  <2>3. ASSUME NEW item \in bags.has[c], bags' = [bags EXCEPT !.room[c] = @ + 1, !.has[c] = @ \ {item}]
        PROVE  bags' \in Bags
    <3>1. bags' = [room |-> Room(bags.room[c] + 1), has |-> Has(bags.has[c] \ {item})]
      BY <1>2, <2>3
    <3>2. bags.has[c] \ {item} \in SUBSET Rare
      BY <2>1
    <3> QED BY <1>3, <2>1, <3>1, <3>2
  <2> QED BY <1>1, <1>4, <1>6, <2>2, <2>3 DEF Discard, PoolInv
<1> QED BY <1>4, <1>5, <1>6

LEMMA PoolInvInit == Init => PoolInv
<1> SUFFICES ASSUME Init PROVE PoolInv
  OBVIOUS
<1>1. GoodPool(pool, members)
  BY NewPoolGood DEF Init
<1>2. bags \in Bags
  BY PoolAssumption DEF Init, Bags
<1> QED BY <1>1, <1>2 DEF Init, PoolInv, Unjoined

LEMMA PoolInvStep == PoolInv /\ [Next]_vars => PoolInv'
<1> SUFFICES ASSUME PoolInv, [Next]_vars PROVE PoolInv'
  OBVIOUS
<1>1. ASSUME GoodPool(pool, members)', bags' \in Bags, UNCHANGED <<members, type>> PROVE PoolInv'
  BY <1>1 DEF PoolInv
<1>2. CASE UNCHANGED vars
  BY <1>2 DEF vars, PoolInv, GoodPool
<1>3. ASSUME NEW c \in Chars, Join(c) \/ Leave(c) \/ Reload(c) PROVE PoolInv'
  BY <1>3, MembersStep
<1>4. ASSUME NEW c \in Chars, Store(c) \/ Discard(c) PROVE PoolInv'
  BY <1>4, BagsStep
<1>5. ASSUME NEW item \in Items, AddItem(item) PROVE PoolInv'
  BY <1>1, <1>5, AddedGood
<1>6. ASSUME NEW c \in Chars, NEW i \in Slots, PassItem(c, i) PROVE PoolInv'
  BY <1>1, <1>6, PassStep
<1>7. ASSUME NEW c \in Chars, NEW i \in Slots, NEW n \in 1..MaxLot, LotItem(c, i, n) PROVE PoolInv'
  BY <1>1, <1>7, LotStep
<1>8. CASE CheckItems
  BY <1>1, <1>8, CheckStep
<1> QED BY <1>2, <1>3, <1>4, <1>5, <1>6, <1>7, <1>8 DEF Next

(* The inductive invariant: types, m_count the number of slots in use, and  *)
(* each member's single answer.                                             *)
THEOREM PoolInvariant == Spec => []PoolInv
<1> QED BY PoolInvInit, PoolInvStep, PTL DEF Spec

(* Every reachable pool is well typed: m_count never falls below zero, no   *)
(* bag is filled beyond its room, no slot is asked for that is not there.   *)
THEOREM TreasureTypeCorrect == Spec => []TreasureTypeOK
<1> QED BY PoolInvariant, PoolInvIsEnough, PTL

(* Whoever has answered for an item is a member, and has answered once.     *)
THEOREM LotsAreOfMembers == Spec => []LottersAreMembers
<1> QED BY PoolInvariant, PoolInvIsEnough, PTL

-----------------------------------------------------------------------------
(* Who has passed does not win                                              *)

NoPassedWins ==
  \A c \in Chars, item \in Rare :
    /\ Cardinality(members) > 1 /\ pool'.count < pool.count
    /\ \A i \in Slots : pool.slots[i].item = item => Passed(pool, c, i)
    /\ item \in bags'.has[c]
    => item \in bags.has[c]

LEMMA NoPassedStep == PoolInv /\ [Next]_vars => [NoPassedWins]_vars
<1> SUFFICES ASSUME PoolInv, Next PROVE NoPassedWins
  BY DEF NoPassedWins
<1>1. ASSUME DeservedStep PROVE NoPassedWins
  BY <1>1 DEF NoPassedWins, DeservedStep
<1>2. ASSUME UNCHANGED bags PROVE NoPassedWins
  BY <1>2 DEF NoPassedWins
<1>3. ASSUME NEW c \in Chars, Join(c) \/ Leave(c) \/ Reload(c) PROVE NoPassedWins
  BY <1>2, <1>3, MembersStep
<1>4. ASSUME NEW c \in Chars, Store(c) \/ Discard(c) PROVE NoPassedWins
  <2>1. pool' = pool /\ pool.count \in Nat
    BY <1>4, BagsStep DEF PoolInv, GoodPool, Pools
  <2> QED BY <2>1 DEF NoPassedWins
<1>5. ASSUME NEW item \in Items, AddItem(item) PROVE NoPassedWins
  <2>1. Cardinality(members) # 1 => pool'.count >= pool.count
    BY <1>5, AddedGood
  <2>2. pool'.count \in Nat /\ pool.count \in Nat
    BY <1>5, AddedGood DEF PoolInv, GoodPool, Pools
  <2>3. ~ (1 > 1)
    OBVIOUS
  <2> QED BY <2>1, <2>2, <2>3 DEF NoPassedWins
<1>6. ASSUME NEW c \in Chars, NEW i \in Slots, PassItem(c, i) PROVE NoPassedWins
  BY <1>1, <1>6, PassStep
<1>7. ASSUME NEW c \in Chars, NEW i \in Slots, NEW n \in 1..MaxLot, LotItem(c, i, n) PROVE NoPassedWins
  BY <1>1, <1>7, LotStep
<1>8. CASE CheckItems
  BY <1>1, <1>8, CheckStep
<1> QED BY <1>3, <1>4, <1>5, <1>6, <1>7, <1>8 DEF Next

(* In a pool of several, nobody receives from it what he has passed in      *)
(* every slot that offers it, however many slots are settled in a row.      *)
THEOREM PassedNeverWinsHolds == Spec => PassedNeverWins
<1>1. PoolInv /\ [Next]_vars => [NoPassedWins]_vars
  BY NoPassedStep
<1> QED BY <1>1, PoolInvariant, PTL DEF Spec, PassedNeverWins, NoPassedWins

=============================================================================
