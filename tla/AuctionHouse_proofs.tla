-------------------------- MODULE AuctionHouse_proofs --------------------------
(***************************************************************************)
(* Proofs about AuctionHouse and DeliveryBox.                              *)
(*                                                                         *)
(* Three sums describe what there is: what is in the bags, what is in the  *)
(* cells of the boxes, and what is in the queues.  A step changes one term *)
(* of each of them, so that the lemmas of FiniteSums give what it changes  *)
(* of the whole.                                                           *)
(***************************************************************************)
EXTENDS AuctionHouse, FiniteSums

(* What there is, as three sums over the characters                         *)

Kinds == Goods \cup {Gil}

BagTypes(bg, pu) == bg \in [Chars -> [Goods -> Nat]] /\ pu \in [Chars -> Nat]
RowTypes(ob, ib) ==
  /\ ob \in [Chars -> [Cells -> Outgoing \cup {None}]]
  /\ ib \in [Chars -> [Cells -> Mail \cup {None}]]
QueueTypes(qu)   == qu \in [Chars -> Seq(Mail)]

BoxTypes(bg, pu, ob, ib, qu) == BagTypes(bg, pu) /\ RowTypes(ob, ib) /\ QueueTypes(qu)

Cell(o, i, k) ==
    (IF o = None \/ o.sent THEN 0 ELSE Amount(o.item, k))
  + (IF i = None THEN 0 ELSE Amount(i.item, k))

Held(b, p, o, i, q, k) ==
    (IF k = Gil THEN p ELSE b[k])
  + SumFunction([s \in Cells |-> Cell(o[s], i[s], k)])
  + SumFunction([j \in DOMAIN q |-> Amount(q[j].item, k)])

Total(bg, pu, ob, ib, qu, k) ==
  SumFunction([c \in Chars |-> Held(bg[c], pu[c], ob[c], ib[c], qu[c], k)])

InBag(b, p, k)  == IF k = Gil THEN p ELSE b[k]
InCells(o, i, k) == Sum([s \in Cells |-> Cell(o[s], i[s], k)], Cells)
Weights(k)       == [m \in Mail |-> Amount(m.item, k)]

InBags(bg, pu, k)  == [c \in Chars |-> InBag(bg[c], pu[c], k)]
InBoxes(ob, ib, k) == [c \in Chars |-> InCells(ob[c], ib[c], k)]
InQueues(qu, k)    == [c \in Chars |-> SeqSum(qu[c], Weights(k))]

LEMMA InMailIsTotal ==
  ASSUME NEW k PROVE InMail(k) = Total(bag, purse, outbox, inbox, queue, k)
BY DEF InMail, Holds, InCell, Total, Held, Cell

LEMMA AmountType ==
  ASSUME NEW k \in Kinds, NEW item \in Goods \cup Sums
  PROVE  Amount(item, k) \in Nat
BY DeliveryAssumption DEF Amount, Kinds

LEMMA WeightsType == \A k \in Kinds : Weights(k) \in [Mail -> Nat]
BY AmountType DEF Weights, Mail

LEMMA CellType ==
  ASSUME NEW k \in Kinds, NEW o \in Outgoing \cup {None}, NEW i \in Mail \cup {None}
  PROVE  Cell(o, i, k) \in Nat
<1>1. o # None => Amount(o.item, k) \in Nat
  BY AmountType DEF Outgoing
<1>2. i # None => Amount(i.item, k) \in Nat
  BY AmountType DEF Mail
<1> QED BY <1>1, <1>2 DEF Cell

LEMMA InCellsType ==
  ASSUME NEW k \in Kinds, NEW o \in [Cells -> Outgoing \cup {None}], NEW i \in [Cells -> Mail \cup {None}]
  PROVE  InCells(o, i, k) \in Nat
<1> DEFINE f == [s \in Cells |-> Cell(o[s], i[s], k)]
<1>1. \A s \in Cells : f[s] \in Nat
  BY CellType
<1> HIDE DEF f
<1>2. Sum(f, Cells) \in Nat
  BY <1>1, SumNat, DeliveryAssumption
<1> QED BY <1>2 DEF InCells, f

LEMMA TermTypes ==
  ASSUME NEW bg, NEW pu, NEW ob, NEW ib, NEW qu, BoxTypes(bg, pu, ob, ib, qu),
         NEW k \in Kinds, NEW c \in Chars
  PROVE  /\ InBags(bg, pu, k)[c] \in Nat
         /\ InBoxes(ob, ib, k)[c] \in Nat
         /\ InQueues(qu, k)[c] \in Nat
<1>1. InBag(bg[c], pu[c], k) \in Nat
  BY DEF BoxTypes, BagTypes, InBag, Kinds
<1>2. InCells(ob[c], ib[c], k) \in Nat
  <2>1. ob[c] \in [Cells -> Outgoing \cup {None}] /\ ib[c] \in [Cells -> Mail \cup {None}]
    BY DEF BoxTypes, RowTypes
  <2> QED BY <2>1, InCellsType
<1>3. SeqSum(qu[c], Weights(k)) \in Nat
  <2>1. qu[c] \in Seq(Mail)
    BY DEF BoxTypes, QueueTypes
  <2> QED BY <2>1, WeightsType, SeqSumType
<1> QED BY <1>1, <1>2, <1>3 DEF InBags, InBoxes, InQueues

LEMMA HeldIs ==
  ASSUME NEW bg, NEW pu, NEW ob, NEW ib, NEW qu, BoxTypes(bg, pu, ob, ib, qu),
         NEW k \in Kinds, NEW c \in Chars
  PROVE  Held(bg[c], pu[c], ob[c], ib[c], qu[c], k)
           = InBags(bg, pu, k)[c] + InBoxes(ob, ib, k)[c] + InQueues(qu, k)[c]
<1> DEFINE o == ob[c]
           i == ib[c]
           q == qu[c]
           f == [s \in Cells |-> Cell(o[s], i[s], k)]
           h == [j \in DOMAIN q |-> Amount(q[j].item, k)]
           w == [j \in DOMAIN q |-> Weights(k)[q[j]]]
<1>1. SumFunction(f) = InCells(o, i, k)
  <2>1. DOMAIN f = Cells
    OBVIOUS
  <2>2. SumFunction(f) = Sum(f, Cells)
    <3> HIDE DEF f
    <3> QED BY <2>1, SumFunctionIs
  <2> QED BY <2>2 DEF InCells
<1>2. SumFunction(h) = SeqSum(q, Weights(k))
  <2>1. q \in Seq(Mail)
    BY DEF BoxTypes, QueueTypes
  <2> HIDE DEF q
  <2>2. \A j \in DOMAIN q : q[j] \in Mail
    BY <2>1, LenProperties
  <2>3. h = w
    BY <2>2 DEF Weights
  <2>4. SumFunction(h) = Sum(h, DOMAIN q)
    <3>1. DOMAIN h = DOMAIN q
      OBVIOUS
    <3> HIDE DEF h
    <3> QED BY <3>1, SumFunctionIs
  <2> QED BY <2>3, <2>4 DEF SeqSum
<1>3. Held(bg[c], pu[c], o, i, q, k) = InBag(bg[c], pu[c], k) + SumFunction(f) + SumFunction(h)
  BY DEF Held, InBag
<1>4. /\ InBags(bg, pu, k)[c] = InBag(bg[c], pu[c], k)
      /\ InBoxes(ob, ib, k)[c] = InCells(o, i, k)
      /\ InQueues(qu, k)[c] = SeqSum(q, Weights(k))
  BY DEF InBags, InBoxes, InQueues
<1> QED BY <1>1, <1>2, <1>3, <1>4

(* The three sums are what there is.                                        *)
LEMMA TotalIs ==
  ASSUME NEW bg, NEW pu, NEW ob, NEW ib, NEW qu, BoxTypes(bg, pu, ob, ib, qu), NEW k \in Kinds
  PROVE  /\ Total(bg, pu, ob, ib, qu, k)
              = Sum(InBags(bg, pu, k), Chars) + Sum(InBoxes(ob, ib, k), Chars)
                  + Sum(InQueues(qu, k), Chars)
         /\ Sum(InBags(bg, pu, k), Chars) \in Nat /\ Sum(InBoxes(ob, ib, k), Chars) \in Nat
         /\ Sum(InQueues(qu, k), Chars) \in Nat
<1> DEFINE B == InBags(bg, pu, k)
           C == InBoxes(ob, ib, k)
           Q == InQueues(qu, k)
           h == [c \in Chars |-> Held(bg[c], pu[c], ob[c], ib[c], qu[c], k)]
           g == [c \in Chars |-> B[c] + C[c]]
<1>1. \A c \in Chars : B[c] \in Nat /\ C[c] \in Nat /\ Q[c] \in Nat
  BY TermTypes
<1>2. \A c \in Chars : h[c] = B[c] + C[c] + Q[c]
  BY HeldIs
<1>3. Total(bg, pu, ob, ib, qu, k) = Sum(h, Chars)
  <2>1. DOMAIN h = Chars
    OBVIOUS
  <2>2. SumFunction(h) = Sum(h, Chars)
    <3> HIDE DEF h
    <3> QED BY <2>1, SumFunctionIs
  <2> QED BY <2>2 DEF Total
<1> HIDE DEF B, C, Q, h
<1>4. \A c \in Chars : g[c] = B[c] + C[c] /\ g[c] \in Int /\ h[c] = g[c] + Q[c]
  BY <1>1, <1>2
<1> HIDE DEF g
<1>5. IsFiniteSet(Chars)
  BY DeliveryAssumption
<1>6. Sum(g, Chars) = Sum(B, Chars) + Sum(C, Chars)
  BY <1>1, <1>4, <1>5, SumPlus
<1>7. Sum(h, Chars) = Sum(g, Chars) + Sum(Q, Chars)
  BY <1>1, <1>4, <1>5, SumPlus
<1>8. Sum(B, Chars) \in Nat /\ Sum(C, Chars) \in Nat /\ Sum(Q, Chars) \in Nat
  BY <1>1, <1>5, SumNat
<1> QED BY <1>3, <1>6, <1>7, <1>8 DEF B, C, Q

SameBagsBut(bg, pu, bh, pv, c) == \A d \in Chars : d # c => bh[d] = bg[d] /\ pv[d] = pu[d]
SameRowsBut(ob, ib, oc, ic, c, s) ==
  \A d \in Chars, r \in Cells : d # c \/ r # s => oc[d][r] = ob[d][r] /\ ic[d][r] = ib[d][r]
SameQueuesBut(qu, qv, c) == \A d \in Chars : d # c => qv[d] = qu[d]

(* Someone's bag or purse changes.                                          *)
LEMMA BagsChange ==
  ASSUME NEW bg, NEW pu, NEW bh, NEW pv, BagTypes(bg, pu), BagTypes(bh, pv),
         NEW c \in Chars, SameBagsBut(bg, pu, bh, pv, c), NEW k \in Kinds
  PROVE  /\ Sum(InBags(bh, pv, k), Chars)
              = Sum(InBags(bg, pu, k), Chars) + (InBag(bh[c], pv[c], k) - InBag(bg[c], pu[c], k))
         /\ InBag(bh[c], pv[c], k) - InBag(bg[c], pu[c], k) \in Int
<1> DEFINE f == InBags(bg, pu, k)
           h == InBags(bh, pv, k)
<1>1. \A d \in Chars : f[d] = InBag(bg[d], pu[d], k) /\ h[d] = InBag(bh[d], pv[d], k)
  BY DEF InBags
<1>2. \A d \in Chars : InBag(bg[d], pu[d], k) \in Int /\ InBag(bh[d], pv[d], k) \in Int
  BY DEF InBag, Kinds, BagTypes
<1> HIDE DEF f, h
<1>3. \A d \in Chars : d # c => h[d] = f[d]
  BY <1>1 DEF SameBagsBut
<1>4. \A d \in Chars : f[d] \in Int
  BY <1>1, <1>2
<1>5. h[c] \in Int /\ IsFiniteSet(Chars)
  BY <1>1, <1>2, DeliveryAssumption
<1>6. Sum(h, Chars) = Sum(f, Chars) + h[c] - f[c]
  BY <1>3, <1>4, <1>5, SumChange
<1>7. Sum(h, Chars) = Sum(f, Chars) + (h[c] - f[c]) /\ h[c] - f[c] \in Int
  BY <1>4, <1>5, <1>6, SumType
<1> QED BY <1>1, <1>7 DEF f, h

(* A cell of someone's boxes changes.                                       *)
LEMMA BoxesChange ==
  ASSUME NEW ob, NEW ib, NEW oc, NEW ic, RowTypes(ob, ib), RowTypes(oc, ic),
         NEW c \in Chars, NEW s \in Cells, SameRowsBut(ob, ib, oc, ic, c, s), NEW k \in Kinds
  PROVE  /\ Sum(InBoxes(oc, ic, k), Chars)
              = Sum(InBoxes(ob, ib, k), Chars)
                  + (Cell(oc[c][s], ic[c][s], k) - Cell(ob[c][s], ib[c][s], k))
         /\ Cell(oc[c][s], ic[c][s], k) - Cell(ob[c][s], ib[c][s], k) \in Int
<1>0. /\ ob \in [Chars -> [Cells -> Outgoing \cup {None}]]
      /\ ib \in [Chars -> [Cells -> Mail \cup {None}]]
      /\ oc \in [Chars -> [Cells -> Outgoing \cup {None}]]
      /\ ic \in [Chars -> [Cells -> Mail \cup {None}]]
      /\ \A d \in Chars, r \in Cells : d # c \/ r # s => oc[d][r] = ob[d][r] /\ ic[d][r] = ib[d][r]
  BY DEF RowTypes, SameRowsBut
<1> DEFINE f == InBoxes(ob, ib, k)
           h == InBoxes(oc, ic, k)
<1>1. \A d \in Chars : f[d] = InCells(ob[d], ib[d], k) /\ h[d] = InCells(oc[d], ic[d], k)
  BY DEF InBoxes
<1>2. \A d \in Chars : InCells(ob[d], ib[d], k) \in Int /\ InCells(oc[d], ic[d], k) \in Int
  <2> SUFFICES ASSUME NEW d \in Chars
               PROVE  InCells(ob[d], ib[d], k) \in Int /\ InCells(oc[d], ic[d], k) \in Int
    OBVIOUS
  <2>1. /\ ob[d] \in [Cells -> Outgoing \cup {None}] /\ ib[d] \in [Cells -> Mail \cup {None}]
        /\ oc[d] \in [Cells -> Outgoing \cup {None}] /\ ic[d] \in [Cells -> Mail \cup {None}]
    BY <1>0
  <2>2. InCells(ob[d], ib[d], k) \in Nat /\ InCells(oc[d], ic[d], k) \in Nat
    BY <2>1, InCellsType
  <2> QED BY <2>2
<1>3. \A d \in Chars : d # c => h[d] = f[d]
  <2> SUFFICES ASSUME NEW d \in Chars, d # c PROVE h[d] = f[d]
    OBVIOUS
  <2>1. oc[d] = ob[d] /\ ic[d] = ib[d]
    BY <1>0
  <2> QED BY <1>1, <2>1
<1> DEFINE u == [r \in Cells |-> Cell(ob[c][r], ib[c][r], k)]
           v == [r \in Cells |-> Cell(oc[c][r], ic[c][r], k)]
<1>4. \A r \in Cells : u[r] \in Int /\ v[r] \in Int
  <2> SUFFICES ASSUME NEW r \in Cells PROVE u[r] \in Int /\ v[r] \in Int
    OBVIOUS
  <2>1. /\ ob[c][r] \in Outgoing \cup {None} /\ ib[c][r] \in Mail \cup {None}
        /\ oc[c][r] \in Outgoing \cup {None} /\ ic[c][r] \in Mail \cup {None}
    BY <1>0
  <2>2. Cell(ob[c][r], ib[c][r], k) \in Nat /\ Cell(oc[c][r], ic[c][r], k) \in Nat
    BY <2>1, CellType
  <2> QED BY <2>2
<1>5. \A r \in Cells : r # s => v[r] = u[r]
  BY <1>0
<1>6. u[s] = Cell(ob[c][s], ib[c][s], k) /\ v[s] = Cell(oc[c][s], ic[c][s], k)
  OBVIOUS
<1>7. f[c] = Sum(u, Cells) /\ h[c] = Sum(v, Cells)
  BY DEF InBoxes, InCells
<1> HIDE DEF f, h, u, v
<1>8. IsFiniteSet(Chars) /\ IsFiniteSet(Cells)
  BY DeliveryAssumption
<1>9. Sum(v, Cells) = Sum(u, Cells) + v[s] - u[s]
  BY <1>4, <1>5, <1>8, SumChange
<1>10. \A d \in Chars : f[d] \in Int
  BY <1>1, <1>2
<1>11. h[c] \in Int
  BY <1>1, <1>2
<1>12. Sum(h, Chars) = Sum(f, Chars) + h[c] - f[c]
  BY <1>3, <1>8, <1>10, <1>11, SumChange
<1>13. Sum(f, Chars) \in Int
  BY <1>8, <1>10, SumType
<1>14. Sum(h, Chars) = Sum(f, Chars) + (v[s] - u[s]) /\ v[s] - u[s] \in Int
  <2>1. u[s] \in Int /\ v[s] \in Int /\ f[c] \in Int
    BY <1>4, <1>10
  <2> QED BY <1>7, <1>9, <1>11, <1>12, <1>13, <2>1
<1> QED BY <1>6, <1>14 DEF f, h

(* Someone's queue changes.                                                 *)
LEMMA QueuesChange ==
  ASSUME NEW qu, NEW qv, QueueTypes(qu), QueueTypes(qv),
         NEW c \in Chars, SameQueuesBut(qu, qv, c), NEW k \in Kinds
  PROVE  /\ Sum(InQueues(qv, k), Chars)
              = Sum(InQueues(qu, k), Chars) + (SeqSum(qv[c], Weights(k)) - SeqSum(qu[c], Weights(k)))
         /\ SeqSum(qv[c], Weights(k)) - SeqSum(qu[c], Weights(k)) \in Int
<1> DEFINE f == InQueues(qu, k)
           h == InQueues(qv, k)
<1>1. \A d \in Chars : f[d] = SeqSum(qu[d], Weights(k)) /\ h[d] = SeqSum(qv[d], Weights(k))
  BY DEF InQueues
<1>2. \A d \in Chars : SeqSum(qu[d], Weights(k)) \in Int /\ SeqSum(qv[d], Weights(k)) \in Int
  <2> SUFFICES ASSUME NEW d \in Chars
               PROVE  SeqSum(qu[d], Weights(k)) \in Int /\ SeqSum(qv[d], Weights(k)) \in Int
    OBVIOUS
  <2>1. qu[d] \in Seq(Mail) /\ qv[d] \in Seq(Mail) /\ Weights(k) \in [Mail -> Nat]
    BY WeightsType DEF QueueTypes
  <2>2. SeqSum(qu[d], Weights(k)) \in Nat /\ SeqSum(qv[d], Weights(k)) \in Nat
    BY <2>1, SeqSumType
  <2> QED BY <2>2
<1> HIDE DEF f, h
<1>3. \A d \in Chars : d # c => h[d] = f[d]
  BY <1>1 DEF SameQueuesBut
<1>4. \A d \in Chars : f[d] \in Int
  BY <1>1, <1>2
<1>5. h[c] \in Int /\ IsFiniteSet(Chars)
  BY <1>1, <1>2, DeliveryAssumption
<1>6. Sum(h, Chars) = Sum(f, Chars) + h[c] - f[c]
  BY <1>3, <1>4, <1>5, SumChange
<1>7. Sum(h, Chars) = Sum(f, Chars) + (h[c] - f[c]) /\ h[c] - f[c] \in Int
  BY <1>4, <1>5, <1>6, SumType
<1> QED BY <1>1, <1>7 DEF f, h

-----------------------------------------------------------------------------
(* Receipts, and the mails they are for                                     *)

IsReceipt(o, b, g) == o # None /\ o.to = b /\ o.item = g /\ o.sent /\ ~o.received
Receipts(o, b, g)  == Cardinality({s \in Cells : IsReceipt(o[s], b, g)})
Mails(q, m)        == Cardinality({i \in DOMAIN q : q[i] = m})

Same(m) == [x \in Mail |-> IF x = m THEN 1 ELSE 0]
One(P)  == IF P THEN 1 ELSE 0

LEMMA SameType == \A m : Same(m) \in [Mail -> Nat]
BY DEF Same

LEMMA MailsIsSum ==
  ASSUME NEW q \in Seq(Mail), NEW m
  PROVE  Mails(q, m) = SeqSum(q, Same(m)) /\ Mails(q, m) \in Nat
<1> DEFINE I == DOMAIN q
           J == {i \in I : q[i] = m}
           f == [i \in DOMAIN q |-> Same(m)[q[i]]]
<1>1. IsFiniteSet(I) /\ \A i \in I : q[i] \in Mail
  BY LenProperties, FS_Interval
<1>2. \A i \in I : f[i] = IF i \in J THEN 1 ELSE 0
  BY <1>1 DEF Same
<1>3. J \in SUBSET I
  OBVIOUS
<1> HIDE DEF I, J, f
<1>4. Cardinality(J) = Sum(f, I)
  BY <1>1, <1>2, <1>3, CountIsSum
<1>5. Cardinality(J) \in Nat
  BY <1>1, <1>3, FS_Subset, FS_CardinalityType
<1> QED BY <1>4, <1>5 DEF Mails, SeqSum, I, J, f

LEMMA MailsAppend ==
  ASSUME NEW q \in Seq(Mail), NEW x \in Mail, NEW m
  PROVE  Mails(Append(q, x), m) = Mails(q, m) + One(x = m)
<1>1. Append(q, x) \in Seq(Mail)
  BY AppendProperties
<1>2. SeqSum(Append(q, x), Same(m)) = SeqSum(q, Same(m)) + Same(m)[x]
  BY SeqSumAppend, SameType
<1>3. Same(m)[x] = One(x = m)
  BY DEF Same, One
<1> QED BY <1>1, <1>2, <1>3, MailsIsSum

LEMMA MailsDropped ==
  ASSUME NEW q \in Seq(Mail), NEW r \in Seq(Mail), NEW i \in DOMAIN q, Dropped(r, q, i), NEW m
  PROVE  Mails(r, m) = Mails(q, m) - One(q[i] = m)
<1>1. SeqSum(r, Same(m)) = SeqSum(q, Same(m)) - Same(m)[q[i]]
  BY SeqSumDropped, SameType
<1>2. Same(m)[q[i]] = One(q[i] = m)
  <2>1. q[i] \in Mail
    BY LenProperties
  <2> QED BY <2>1 DEF Same, One
<1> QED BY <1>1, <1>2, MailsIsSum

LEMMA ReceiptsIsNat ==
  ASSUME NEW o, NEW b, NEW g PROVE Receipts(o, b, g) \in Nat
<1> DEFINE J == {s \in Cells : IsReceipt(o[s], b, g)}
<1>1. IsFiniteSet(J)
  BY FS_Subset, DeliveryAssumption
<1> HIDE DEF J
<1>2. Cardinality(J) \in Nat
  BY <1>1, FS_CardinalityType
<1> QED BY <1>2 DEF Receipts, J

(* One cell changes.                                                        *)
LEMMA ReceiptsChange ==
  ASSUME NEW o, NEW p, NEW s \in Cells, \A x \in Cells : x # s => p[x] = o[x], NEW b, NEW g
  PROVE  Receipts(p, b, g) = Receipts(o, b, g) + One(IsReceipt(p[s], b, g)) - One(IsReceipt(o[s], b, g))
<1> DEFINE J == {r \in Cells : IsReceipt(o[r], b, g)}
           K == {r \in Cells : IsReceipt(p[r], b, g)}
           f == [r \in Cells |-> One(IsReceipt(o[r], b, g))]
           h == [r \in Cells |-> One(IsReceipt(p[r], b, g))]
<1>1. /\ \A r \in Cells : f[r] = IF r \in J THEN 1 ELSE 0
      /\ \A r \in Cells : h[r] = IF r \in K THEN 1 ELSE 0
  BY DEF One
<1>2. J \in SUBSET Cells /\ K \in SUBSET Cells /\ IsFiniteSet(Cells)
  BY DeliveryAssumption
<1>3. \A r \in Cells : r # s => h[r] = f[r]
  OBVIOUS
<1>4. f[s] = One(IsReceipt(o[s], b, g)) /\ h[s] = One(IsReceipt(p[s], b, g))
  OBVIOUS
<1>5. Receipts(o, b, g) = Cardinality(J) /\ Receipts(p, b, g) = Cardinality(K)
  BY DEF Receipts
<1> HIDE DEF J, K, f, h
<1>6. Cardinality(J) = Sum(f, Cells)
  BY <1>1, <1>2, CountIsSum
<1>7. Cardinality(K) = Sum(h, Cells)
  BY <1>1, <1>2, CountIsSum
<1>8. \A r \in Cells : f[r] \in Int /\ h[r] \in Int
  BY <1>1
<1>9. Sum(h, Cells) = Sum(f, Cells) + h[s] - f[s]
  BY <1>2, <1>3, <1>8, SumChange
<1> QED BY <1>4, <1>5, <1>6, <1>7, <1>9

(* A row can only be a receipt of one kind.                                 *)
LEMMA ReceiptsSame ==
  ASSUME NEW o, NEW p, NEW b, NEW g,
         \A s \in Cells : IsReceipt(p[s], b, g) = IsReceipt(o[s], b, g)
  PROVE  Receipts(p, b, g) = Receipts(o, b, g)
<1>1. {s \in Cells : IsReceipt(p[s], b, g)} = {s \in Cells : IsReceipt(o[s], b, g)}
  OBVIOUS
<1> QED BY <1>1 DEF Receipts

-----------------------------------------------------------------------------
(* Updates                                                                  *)

Window == [box : {"none", "out", "in"}, cells : [Cells -> Copy \cup {None}]]

PutRow(f, c, s, v)  == [f EXCEPT ![c][s] = v]
PutCopy(w, c, s, v) == [w EXCEPT ![c].cells[s] = v]
PutMail(q, c, r)    == [q EXCEPT ![c] = r]
PutGood(b, c, g, n) == [b EXCEPT ![c][g] = n]

LEMMA CopyPut ==
  ASSUME NEW w \in [Chars -> Window], NEW c \in Chars, NEW s \in Cells, NEW v \in Copy \cup {None}
  PROVE  /\ PutCopy(w, c, s, v) \in [Chars -> Window]
         /\ \A d \in Chars : PutCopy(w, c, s, v)[d].box = w[d].box
         /\ \A d \in Chars, r \in Cells :
              PutCopy(w, c, s, v)[d].cells[r]
                = IF d = c /\ r = s THEN v ELSE w[d].cells[r]
<1> DEFINE x == [w[c] EXCEPT !.cells[s] = v]
           u == [w EXCEPT ![c] = x]
<1>1. PutCopy(w, c, s, v) = u
  BY DEF PutCopy
<1>2. w[c] \in Window /\ \A d \in Chars : w[d] \in Window
  OBVIOUS
<1>3. x = [box |-> w[c].box, cells |-> [w[c].cells EXCEPT ![s] = v]]
  BY <1>2 DEF Window
<1>4. x \in Window /\ x.box = w[c].box /\ x.cells = [w[c].cells EXCEPT ![s] = v]
  BY <1>2, <1>3 DEF Window
<1>5. w[c].cells \in [Cells -> Copy \cup {None}]
  BY <1>2 DEF Window
<1> HIDE DEF x
<1>6. \A d \in Chars : u[d] = IF d = c THEN x ELSE w[d]
  OBVIOUS
<1>7. u \in [Chars -> Window]
  BY <1>4
<1> HIDE DEF u
<1>8. \A r \in Cells : x.cells[r] = IF r = s THEN v ELSE w[c].cells[r]
  BY <1>4, <1>5
<1> QED BY <1>1, <1>4, <1>6, <1>7, <1>8

MarkCopy(w, c, s, b) == [w EXCEPT ![c].cells[s].sent = b]
MarkRow(f, c, s, b)  == [f EXCEPT ![c][s].sent = b]

LEMMA CopyMark ==
  ASSUME NEW w \in [Chars -> Window], NEW c \in Chars, NEW s \in Cells,
         w[c].cells[s] \in Copy, NEW b
  PROVE  MarkCopy(w, c, s, b)
           = PutCopy(w, c, s, [item |-> w[c].cells[s].item, to |-> w[c].cells[s].to, sent |-> b])
<1> DEFINE v == w[c].cells[s]
           x == [v EXCEPT !.sent = b]
<1>1. x = [item |-> v.item, to |-> v.to, sent |-> b]
  BY DEF Copy
<1>2. MarkCopy(w, c, s, b) = PutCopy(w, c, s, x)
  BY DEF PutCopy, MarkCopy
<1> QED BY <1>1, <1>2

LEMMA SentIs ==
  ASSUME NEW o \in Outgoing, NEW b
  PROVE  [o EXCEPT !.sent = b] = [item |-> o.item, to |-> o.to, sent |-> b, received |-> o.received]
BY DEF Outgoing

LEMMA RowMark ==
  ASSUME NEW f, NEW c \in Chars, NEW s \in Cells, f[c][s] \in Outgoing, NEW b
  PROVE  MarkRow(f, c, s, b)
           = PutRow(f, c, s, [item |-> f[c][s].item, to |-> f[c][s].to, sent |-> b,
                              received |-> f[c][s].received])
<1> DEFINE o == f[c][s]
           x == [o EXCEPT !.sent = b]
<1>1. x = [item |-> o.item, to |-> o.to, sent |-> b, received |-> o.received]
  BY SentIs
<1>2. MarkRow(f, c, s, b) = PutRow(f, c, s, x)
  BY DEF PutRow, MarkRow
<1> QED BY <1>1, <1>2

Fits(bg) == \A c \in Chars : SumFunction(bg[c]) <= BagSize

(* As many of a good as there is room for.                                  *)
LEMMA GoodPut ==
  ASSUME NEW bg \in [Chars -> [Goods -> Nat]], Fits(bg), NEW c \in Chars, NEW g \in Goods,
         NEW n \in Nat, n <= bg[c][g] \/ (n = bg[c][g] + 1 /\ SumFunction(bg[c]) < BagSize)
  PROVE  /\ PutGood(bg, c, g, n) \in [Chars -> [Goods -> Nat]]
         /\ Fits(PutGood(bg, c, g, n))
         /\ \A d \in Chars, x \in Goods :
              PutGood(bg, c, g, n)[d][x] = IF d = c /\ x = g THEN n ELSE bg[d][x]
         /\ \A d \in Chars : d # c => PutGood(bg, c, g, n)[d] = bg[d]
<1> DEFINE bh == [bg EXCEPT ![c][g] = n]
           f == bg[c]
           h == bh[c]
<1>1. /\ bh \in [Chars -> [Goods -> Nat]]
      /\ \A d \in Chars, x \in Goods : bh[d][x] = IF d = c /\ x = g THEN n ELSE bg[d][x]
      /\ \A d \in Chars : d # c => bh[d] = bg[d]
  OBVIOUS
<1>2. f \in [Goods -> Nat] /\ h \in [Goods -> Nat] /\ h[g] = n
      /\ \A x \in Goods : x # g => h[x] = f[x]
  BY <1>1
<1> HIDE DEF bh
<1>3. SumFunction(f) = Sum(f, Goods) /\ SumFunction(h) = Sum(h, Goods)
  <2>1. DOMAIN f = Goods /\ DOMAIN h = Goods
    BY <1>2
  <2> QED BY <2>1, SumFunctionIs
<1>4. SumFunction(f) <= BagSize /\ (n <= f[g] \/ (n = f[g] + 1 /\ SumFunction(f) < BagSize))
  BY DEF Fits
<1> HIDE DEF f, h
<1>5. IsFiniteSet(Goods) /\ BagSize \in Nat
  BY DeliveryAssumption
<1>6. Sum(h, Goods) = Sum(f, Goods) + h[g] - f[g]
  BY <1>2, <1>5, SumChange
<1>7. Sum(f, Goods) \in Nat
  BY <1>2, <1>5, SumNat
<1>8. SumFunction(h) <= BagSize
  <2>1. f[g] \in Nat
    BY <1>2
  <2> QED BY <1>2, <1>3, <1>4, <1>5, <1>6, <1>7, <2>1
<1>9. Fits(bh)
  <2>1. SumFunction(bh[c]) <= BagSize
    BY <1>8 DEF h
  <2>2. \A d \in Chars : d # c => SumFunction(bh[d]) <= BagSize
    BY <1>1 DEF Fits
  <2> QED BY <2>1, <2>2 DEF Fits
<1> QED BY <1>1, <1>9 DEF bh, PutGood

-----------------------------------------------------------------------------
(* What the handlers of the boxes keep                                      *)

MarkedWereSent(ob) ==
  \A c \in Chars, s \in Cells : ob[c][s] # None /\ ob[c][s].received => ob[c][s].sent

Shows(w, ob, ib) ==
  \A c \in Chars, s \in Cells : w[c].cells[s] # None =>
    /\ w[c].box = "out" /\ ob[c][s] # None =>
         w[c].cells[s].item = ob[c][s].item /\ w[c].cells[s].to = ob[c][s].to
    /\ w[c].box = "in" /\ ib[c][s] # None => w[c].cells[s].item = ib[c][s].item

HaveMail(ob, qu) ==
  \A a \in Chars, b \in Chars, g \in Goods :
    Receipts(ob[a], b, g) <= Mails(qu[b], [item |-> g, from |-> a])

BoxInv ==
  /\ alive \in SUBSET Chars
  /\ BoxTypes(bag, purse, outbox, inbox, queue) /\ Fits(bag) /\ MarkedWereSent(outbox)
  /\ window \in [Chars -> Window]
  /\ gone \in [Kinds -> Nat] /\ faults \in 0..MaxFaults
  /\ Shows(window, outbox, inbox)
  /\ HaveMail(outbox, queue)

(* Nothing is made or lost but what is gone.                                *)
Kept ==
  \A k \in Kinds : Total(bag', purse', outbox', inbox', queue', k) + gone'[k]
                     = Total(bag, purse, outbox, inbox, queue, k) + gone[k]

LEMMA TotalChanges ==
  ASSUME NEW bg, NEW pu, NEW ob, NEW ib, NEW qu, BoxTypes(bg, pu, ob, ib, qu),
         NEW bh, NEW pv, NEW oc, NEW ic, NEW qv, BoxTypes(bh, pv, oc, ic, qv), NEW k \in Kinds,
         NEW x \in Int, NEW y \in Int, NEW z \in Int,
         Sum(InBags(bh, pv, k), Chars) = Sum(InBags(bg, pu, k), Chars) + x,
         Sum(InBoxes(oc, ic, k), Chars) = Sum(InBoxes(ob, ib, k), Chars) + y,
         Sum(InQueues(qv, k), Chars) = Sum(InQueues(qu, k), Chars) + z
  PROVE  /\ Total(bh, pv, oc, ic, qv, k) = Total(bg, pu, ob, ib, qu, k) + x + y + z
         /\ Total(bg, pu, ob, ib, qu, k) \in Nat /\ Total(bh, pv, oc, ic, qv, k) \in Nat
<1>1. /\ Total(bg, pu, ob, ib, qu, k) = Sum(InBags(bg, pu, k), Chars) + Sum(InBoxes(ob, ib, k), Chars)
           + Sum(InQueues(qu, k), Chars)
      /\ Sum(InBags(bg, pu, k), Chars) \in Nat /\ Sum(InBoxes(ob, ib, k), Chars) \in Nat
      /\ Sum(InQueues(qu, k), Chars) \in Nat
  BY TotalIs
<1>2. /\ Total(bh, pv, oc, ic, qv, k) = Sum(InBags(bh, pv, k), Chars) + Sum(InBoxes(oc, ic, k), Chars)
           + Sum(InQueues(qv, k), Chars)
      /\ Sum(InBags(bh, pv, k), Chars) \in Nat /\ Sum(InBoxes(oc, ic, k), Chars) \in Nat
      /\ Sum(InQueues(qv, k), Chars) \in Nat
  BY TotalIs
<1> QED BY <1>1, <1>2

(* Opening and closing: an empty window shows nothing.                      *)
LEMMA WindowCleared ==
  ASSUME BoxInv, NEW c \in Chars, NEW box \in {"none", "out", "in"},
         window' = [window EXCEPT ![c] = [box |-> box, cells |-> NoCells]],
         UNCHANGED <<alive, bag, purse, outbox, inbox, queue, gone, faults>>
  PROVE  BoxInv' /\ Kept
<1> DEFINE x == [box |-> box, cells |-> NoCells]
<1>1. x \in Window /\ \A s \in Cells : x.cells[s] = None
  BY DEF Window, NoCells
<1> HIDE DEF x
<1>2. window' = [window EXCEPT ![c] = x]
  BY DEF x
<1>3. window \in [Chars -> Window] /\ Shows(window, outbox, inbox)
  BY DEF BoxInv
<1>4. window' \in [Chars -> Window] /\ window'[c] = x /\ \A d \in Chars : d # c => window'[d] = window[d]
  BY <1>1, <1>2, <1>3
<1>5. Shows(window', outbox', inbox')
  BY <1>1, <1>3, <1>4 DEF Shows
<1>6. BoxInv'
  BY <1>4, <1>5 DEF BoxInv
<1> QED BY <1>6 DEF Kept

LEMMA OldItemsKeep ==
  ASSUME BoxInv, NEW c \in Chars, SendOldItems(c)
  PROVE  BoxInv' /\ Kept
<1> DEFINE Refreshed(s) ==
       CASE window[c].box = "out" /\ outbox[c][s] # None ->
              [item |-> outbox[c][s].item, to |-> outbox[c][s].to, sent |-> outbox[c][s].sent]
         [] window[c].box = "in" /\ inbox[c][s] # None ->
              [item |-> inbox[c][s].item, to |-> None, sent |-> FALSE]
         [] OTHER -> window[c].cells[s]
<1> DEFINE x == [box |-> window[c].box, cells |-> [s \in Cells |-> Refreshed(s)]]
<1>1. window \in [Chars -> Window] /\ Shows(window, outbox, inbox)
  BY DEF BoxInv
<1>2. window[c] \in Window /\ window[c].box \in {"none", "out", "in"}
      /\ window[c].cells \in [Cells -> Copy \cup {None}]
  BY <1>1 DEF Window
<1>3. ASSUME NEW s \in Cells
      PROVE  /\ Refreshed(s) \in Copy \cup {None}
             /\ Refreshed(s) # None =>
                  /\ window[c].box = "out" /\ outbox[c][s] # None =>
                       Refreshed(s).item = outbox[c][s].item /\ Refreshed(s).to = outbox[c][s].to
                  /\ window[c].box = "in" /\ inbox[c][s] # None => Refreshed(s).item = inbox[c][s].item
  <2>1. outbox[c][s] \in Outgoing \cup {None} /\ inbox[c][s] \in Mail \cup {None}
    BY DEF BoxInv, BoxTypes, RowTypes
  <2>2. CASE window[c].box = "out" /\ outbox[c][s] # None
    <3>1. Refreshed(s) = [item |-> outbox[c][s].item, to |-> outbox[c][s].to, sent |-> outbox[c][s].sent]
      BY <2>2
    <3>2. outbox[c][s] \in Outgoing
      BY <2>1, <2>2
    <3> HIDE DEF Refreshed
    <3> QED BY <2>2, <3>1, <3>2 DEF Outgoing, Copy
  <2>3. CASE window[c].box = "in" /\ inbox[c][s] # None
    <3>1. Refreshed(s) = [item |-> inbox[c][s].item, to |-> None, sent |-> FALSE]
      BY <2>3
    <3>2. inbox[c][s] \in Mail
      BY <2>1, <2>3
    <3> HIDE DEF Refreshed
    <3> QED BY <2>3, <3>1, <3>2 DEF Mail, Copy
  <2>4. CASE ~ (window[c].box = "out" /\ outbox[c][s] # None)
             /\ ~ (window[c].box = "in" /\ inbox[c][s] # None)
    <3>1. Refreshed(s) = window[c].cells[s]
      BY <2>4
    <3> HIDE DEF Refreshed
    <3> QED BY <1>2, <2>4, <3>1
  <2> QED BY <2>2, <2>3, <2>4
<1>4. window' = [window EXCEPT ![c] = x]
  <2>1. window' = [window EXCEPT ![c].cells = [s \in Cells |-> Refreshed(s)]]
    BY DEF SendOldItems
  <2> DEFINE y == [s \in Cells |-> Refreshed(s)]
  <2>2. [window[c] EXCEPT !.cells = y] = x
    <3> HIDE DEF Refreshed
    <3> QED BY <1>2 DEF Window
  <2> HIDE DEF Refreshed, x
  <2>3. [window EXCEPT ![c].cells = y] = [window EXCEPT ![c] = [window[c] EXCEPT !.cells = y]]
    OBVIOUS
  <2> QED BY <2>1, <2>2, <2>3
<1> HIDE DEF Refreshed
<1>5. x \in Window /\ x.box = window[c].box /\ \A s \in Cells : x.cells[s] = Refreshed(s)
  BY <1>2, <1>3 DEF Window
<1> HIDE DEF x
<1>6. window' \in [Chars -> Window] /\ window'[c] = x /\ \A d \in Chars : d # c => window'[d] = window[d]
  BY <1>1, <1>4, <1>5
<1>7. UNCHANGED <<alive, bag, purse, outbox, inbox, queue, gone, faults>>
  BY DEF SendOldItems
<1>8. Shows(window', outbox', inbox')
  BY <1>1, <1>3, <1>5, <1>6, <1>7 DEF Shows
<1>9. BoxInv'
  BY <1>6, <1>7, <1>8 DEF BoxInv
<1> QED BY <1>7, <1>9 DEF Kept

(* A step changes one bag, one cell and one queue.                          *)
LEMMA OneOfEach ==
  ASSUME NEW bg, NEW pu, NEW ob, NEW ib, NEW qu, BoxTypes(bg, pu, ob, ib, qu),
         NEW bh, NEW pv, NEW oc, NEW ic, NEW qv, BoxTypes(bh, pv, oc, ic, qv),
         NEW c \in Chars, NEW a \in Chars, NEW s \in Cells, NEW d \in Chars,
         SameBagsBut(bg, pu, bh, pv, c), SameRowsBut(ob, ib, oc, ic, a, s),
         SameQueuesBut(qu, qv, d), NEW k \in Kinds
  PROVE  Total(bh, pv, oc, ic, qv, k) = Total(bg, pu, ob, ib, qu, k)
           + (InBag(bh[c], pv[c], k) - InBag(bg[c], pu[c], k))
           + (Cell(oc[a][s], ic[a][s], k) - Cell(ob[a][s], ib[a][s], k))
           + (SeqSum(qv[d], Weights(k)) - SeqSum(qu[d], Weights(k)))
<1>1. /\ BagTypes(bg, pu) /\ RowTypes(ob, ib) /\ QueueTypes(qu)
      /\ BagTypes(bh, pv) /\ RowTypes(oc, ic) /\ QueueTypes(qv)
  BY DEF BoxTypes
<1> DEFINE x == InBag(bh[c], pv[c], k) - InBag(bg[c], pu[c], k)
           y == Cell(oc[a][s], ic[a][s], k) - Cell(ob[a][s], ib[a][s], k)
           z == SeqSum(qv[d], Weights(k)) - SeqSum(qu[d], Weights(k))
<1>2. Sum(InBags(bh, pv, k), Chars) = Sum(InBags(bg, pu, k), Chars) + x /\ x \in Int
  BY <1>1, BagsChange
<1>3. Sum(InBoxes(oc, ic, k), Chars) = Sum(InBoxes(ob, ib, k), Chars) + y /\ y \in Int
  BY <1>1, BoxesChange
<1>4. Sum(InQueues(qv, k), Chars) = Sum(InQueues(qu, k), Chars) + z /\ z \in Int
  BY <1>1, QueuesChange
<1> HIDE DEF x, y, z
<1>5. Total(bh, pv, oc, ic, qv, k) = Total(bg, pu, ob, ib, qu, k) + x + y + z
  BY <1>2, <1>3, <1>4, TotalChanges
<1> QED BY <1>5 DEF x, y, z

LEMMA TotalType ==
  ASSUME NEW bg, NEW pu, NEW ob, NEW ib, NEW qu, BoxTypes(bg, pu, ob, ib, qu), NEW k \in Kinds
  PROVE  Total(bg, pu, ob, ib, qu, k) \in Nat
BY TotalIs

-----------------------------------------------------------------------------
(* Steps about one cell                                                     *)

(* What a window shows of a cell.                                           *)
ShowsCell(box, copy, row, mail) ==
  copy # None =>
    /\ box = "out" /\ row # None => copy.item = row.item /\ copy.to = row.to
    /\ box = "in" /\ mail # None => copy.item = mail.item

(* The contents of one cell, and what is shown of it, become these.         *)
CellBecomes(c, s, row, mail, copy) ==
  /\ row \in Outgoing \cup {None} /\ mail \in Mail \cup {None} /\ copy \in Copy \cup {None}
  /\ row # None /\ row.received => row.sent
  /\ ShowsCell(window[c].box, copy, row, mail)
  /\ outbox' = PutRow(outbox, c, s, row) /\ inbox' = PutRow(inbox, c, s, mail)
  /\ window' = PutCopy(window, c, s, copy)

LEMMA CellStep ==
  ASSUME BoxInv, NEW c \in Chars, NEW s \in Cells, NEW row, NEW mail, NEW copy,
         CellBecomes(c, s, row, mail, copy)
  PROVE  /\ RowTypes(outbox', inbox') /\ SameRowsBut(outbox, inbox, outbox', inbox', c, s)
         /\ outbox'[c][s] = row /\ inbox'[c][s] = mail
         /\ MarkedWereSent(outbox') /\ window' \in [Chars -> Window] /\ Shows(window', outbox', inbox')
<1>1. /\ row \in Outgoing \cup {None} /\ mail \in Mail \cup {None} /\ copy \in Copy \cup {None}
      /\ row # None /\ row.received => row.sent
  BY DEF CellBecomes
<1>2. /\ outbox \in [Chars -> [Cells -> Outgoing \cup {None}]]
      /\ inbox \in [Chars -> [Cells -> Mail \cup {None}]]
      /\ window \in [Chars -> Window]
  BY DEF BoxInv, BoxTypes, RowTypes
<1>3. /\ outbox' \in [Chars -> [Cells -> Outgoing \cup {None}]]
      /\ \A d \in Chars, r \in Cells : outbox'[d][r] = IF d = c /\ r = s THEN row ELSE outbox[d][r]
  <2>1. outbox' = PutRow(outbox, c, s, row)
    BY DEF CellBecomes
  <2> DEFINE V == Outgoing \cup {None}
  <2>2. outbox \in [Chars -> [Cells -> V]] /\ row \in V
    BY <1>1, <1>2
  <2> HIDE DEF V
  <2>3. /\ PutRow(outbox, c, s, row) \in [Chars -> [Cells -> V]]
        /\ \A d \in Chars, r \in Cells :
             PutRow(outbox, c, s, row)[d][r] = IF d = c /\ r = s THEN row ELSE outbox[d][r]
    BY <2>2 DEF PutRow
  <2> QED BY <2>1, <2>3 DEF V
<1>4. /\ inbox' \in [Chars -> [Cells -> Mail \cup {None}]]
      /\ \A d \in Chars, r \in Cells : inbox'[d][r] = IF d = c /\ r = s THEN mail ELSE inbox[d][r]
  <2>1. inbox' = PutRow(inbox, c, s, mail)
    BY DEF CellBecomes
  <2> DEFINE V == Mail \cup {None}
  <2>2. inbox \in [Chars -> [Cells -> V]] /\ mail \in V
    BY <1>1, <1>2
  <2> HIDE DEF V
  <2>3. /\ PutRow(inbox, c, s, mail) \in [Chars -> [Cells -> V]]
        /\ \A d \in Chars, r \in Cells :
             PutRow(inbox, c, s, mail)[d][r] = IF d = c /\ r = s THEN mail ELSE inbox[d][r]
    BY <2>2 DEF PutRow
  <2> QED BY <2>1, <2>3 DEF V
<1>5. /\ window' \in [Chars -> Window] /\ \A d \in Chars : window'[d].box = window[d].box
      /\ \A d \in Chars, r \in Cells :
           window'[d].cells[r] = IF d = c /\ r = s THEN copy ELSE window[d].cells[r]
  <2>1. window' = PutCopy(window, c, s, copy)
    BY DEF CellBecomes
  <2>2. window \in [Chars -> Window] /\ copy \in Copy \cup {None}
    BY <1>1, <1>2
  <2>3. /\ PutCopy(window, c, s, copy) \in [Chars -> Window]
        /\ \A d \in Chars : PutCopy(window, c, s, copy)[d].box = window[d].box
        /\ \A d \in Chars, r \in Cells :
             PutCopy(window, c, s, copy)[d].cells[r]
               = IF d = c /\ r = s THEN copy ELSE window[d].cells[r]
    BY <2>2, CopyPut
  <2> QED BY <2>1, <2>3
<1>6. MarkedWereSent(outbox')
  <2>1. MarkedWereSent(outbox)
    BY DEF BoxInv
  <2> QED BY <1>1, <1>3, <2>1 DEF MarkedWereSent
<1>7. ASSUME NEW d \in Chars, NEW r \in Cells
      PROVE  ShowsCell(window'[d].box, window'[d].cells[r], outbox'[d][r], inbox'[d][r])
  <2>1. CASE d = c /\ r = s
    <3>1. ShowsCell(window[c].box, copy, row, mail)
      BY DEF CellBecomes
    <3> QED BY <1>3, <1>4, <1>5, <2>1, <3>1
  <2>2. CASE ~ (d = c /\ r = s)
    <3>1. ShowsCell(window[d].box, window[d].cells[r], outbox[d][r], inbox[d][r])
      BY DEF BoxInv, Shows, ShowsCell
    <3> QED BY <1>3, <1>4, <1>5, <2>2, <3>1
  <2> QED BY <2>1, <2>2
<1>8. Shows(window', outbox', inbox')
  BY <1>7 DEF Shows, ShowsCell
<1>9. SameRowsBut(outbox, inbox, outbox', inbox', c, s)
  BY <1>3, <1>4 DEF SameRowsBut
<1> QED BY <1>3, <1>4, <1>5, <1>6, <1>8, <1>9 DEF RowTypes

(* What goes into a bag comes out of a cell or a queue, or the other way.   *)
Moves(c, s, row, mail, e, d) ==
  \A k \in Kinds :
      (InBag(bag'[e], purse'[e], k) - InBag(bag[e], purse[e], k))
    + (Cell(row, mail, k) - Cell(outbox[c][s], inbox[c][s], k))
    + (SeqSum(queue'[d], Weights(k)) - SeqSum(queue[d], Weights(k)))
    = gone[k] - gone'[k]

LEMMA BoxStep ==
  ASSUME BoxInv, NEW c \in Chars, NEW s \in Cells, NEW row, NEW mail, NEW copy,
         CellBecomes(c, s, row, mail, copy),
         NEW e \in Chars, NEW d \in Chars, Moves(c, s, row, mail, e, d),
         BagTypes(bag', purse'), Fits(bag'), SameBagsBut(bag, purse, bag', purse', e),
         QueueTypes(queue'), SameQueuesBut(queue, queue', d), HaveMail(outbox', queue'),
         alive' = alive, gone' \in [Kinds -> Nat], faults' \in 0..MaxFaults
  PROVE  BoxInv' /\ Kept
<1>1. /\ RowTypes(outbox', inbox') /\ SameRowsBut(outbox, inbox, outbox', inbox', c, s)
      /\ outbox'[c][s] = row /\ inbox'[c][s] = mail
      /\ MarkedWereSent(outbox') /\ window' \in [Chars -> Window] /\ Shows(window', outbox', inbox')
  BY CellStep
<1>2. BoxTypes(bag', purse', outbox', inbox', queue')
  BY <1>1 DEF BoxTypes
<1>3. BoxInv'
  BY <1>1, <1>2 DEF BoxInv
<1>4. BoxTypes(bag, purse, outbox, inbox, queue) /\ gone \in [Kinds -> Nat]
  BY DEF BoxInv
<1>5. ASSUME NEW k \in Kinds
      PROVE  Total(bag', purse', outbox', inbox', queue', k) + gone'[k]
               = Total(bag, purse, outbox, inbox, queue, k) + gone[k]
  <2> DEFINE x == InBag(bag'[e], purse'[e], k) - InBag(bag[e], purse[e], k)
             y == Cell(outbox'[c][s], inbox'[c][s], k) - Cell(outbox[c][s], inbox[c][s], k)
             z == SeqSum(queue'[d], Weights(k)) - SeqSum(queue[d], Weights(k))
  <2>1. Total(bag', purse', outbox', inbox', queue', k)
          = Total(bag, purse, outbox, inbox, queue, k) + x + y + z
    BY <1>1, <1>2, <1>4, OneOfEach
  <2>2. x + y + z = gone[k] - gone'[k]
    BY <1>1 DEF Moves
  <2>3. x \in Int /\ y \in Int /\ z \in Int
    <3>1. x \in Int
      BY <1>4, BagsChange DEF BoxTypes
    <3>2. y \in Int
      BY <1>1, <1>4, BoxesChange DEF BoxTypes
    <3>3. z \in Int
      BY <1>4, QueuesChange DEF BoxTypes
    <3> QED BY <3>1, <3>2, <3>3
  <2>4. gone[k] \in Int /\ gone'[k] \in Int
    BY <1>4
  <2>5. Total(bag, purse, outbox, inbox, queue, k) \in Int
    BY <1>4, TotalIs
  <2> HIDE DEF x, y, z
  <2> QED BY <2>1, <2>2, <2>3, <2>4, <2>5
<1> QED BY <1>3, <1>5 DEF Kept

-----------------------------------------------------------------------------
(* What happens to a cell, a bag, a queue                                   *)

InOutbox(o, k) == IF o = None \/ o.sent THEN 0 ELSE Amount(o.item, k)
InInbox(i, k)  == IF i = None THEN 0 ELSE Amount(i.item, k)

LEMMA CellIs ==
  ASSUME NEW o \in Outgoing \cup {None}, NEW i \in Mail \cup {None}, NEW k \in Kinds
  PROVE  /\ Cell(o, i, k) = InOutbox(o, k) + InInbox(i, k)
         /\ InOutbox(o, k) \in Nat /\ InInbox(i, k) \in Nat
<1>1. o # None => Amount(o.item, k) \in Nat
  BY AmountType DEF Outgoing
<1>2. i # None => Amount(i.item, k) \in Nat
  BY AmountType DEF Mail
<1> QED BY <1>1, <1>2 DEF Cell, InOutbox, InInbox

LEMMA RowsTyped ==
  ASSUME BoxInv, NEW c \in Chars, NEW s \in Cells
  PROVE  /\ outbox[c][s] \in Outgoing \cup {None} /\ inbox[c][s] \in Mail \cup {None}
         /\ window[c].cells[s] \in Copy \cup {None}
         /\ ShowsCell(window[c].box, window[c].cells[s], outbox[c][s], inbox[c][s])
         /\ outbox[c][s] # None /\ outbox[c][s].received => outbox[c][s].sent
<1>1. /\ outbox \in [Chars -> [Cells -> Outgoing \cup {None}]]
      /\ inbox \in [Chars -> [Cells -> Mail \cup {None}]]
  BY DEF BoxInv, BoxTypes, RowTypes
<1>2. window[c] \in Window
  BY DEF BoxInv
<1>3. Shows(window, outbox, inbox) /\ MarkedWereSent(outbox)
  BY DEF BoxInv
<1> QED BY <1>1, <1>2, <1>3 DEF Window, Shows, ShowsCell, MarkedWereSent

LEMMA OutboxKept ==
  ASSUME BoxInv, NEW c \in Chars, NEW s \in Cells
  PROVE  outbox = PutRow(outbox, c, s, outbox[c][s])
BY DEF BoxInv, BoxTypes, RowTypes, PutRow

LEMMA InboxKept ==
  ASSUME BoxInv, NEW c \in Chars, NEW s \in Cells
  PROVE  inbox = PutRow(inbox, c, s, inbox[c][s])
BY DEF BoxInv, BoxTypes, RowTypes, PutRow

(* What c has in the bag becomes so much more.                              *)
BagStep(c) ==
  BagTypes(bag', purse') /\ Fits(bag') /\ SameBagsBut(bag, purse, bag', purse', c)
BagGain(c, k) == InBag(bag'[c], purse'[c], k) - InBag(bag[c], purse[c], k)

LEMMA BagKept ==
  ASSUME BoxInv, NEW c \in Chars, bag' = bag, purse' = purse
  PROVE  BagStep(c) /\ \A k \in Kinds : BagGain(c, k) = 0
<1>1. BagTypes(bag, purse) /\ Fits(bag)
  BY DEF BoxInv, BoxTypes
<1>2. \A k \in Kinds : InBag(bag[c], purse[c], k) \in Int
  BY <1>1 DEF BagTypes, InBag, Kinds
<1> QED BY <1>1, <1>2 DEF BagStep, BagGain, SameBagsBut

LEMMA GoodComes ==
  ASSUME BoxInv, NEW c \in Chars, NEW g \in Goods, NEW n \in Nat,
         n <= bag[c][g] \/ (n = bag[c][g] + 1 /\ Room(c)),
         bag' = [bag EXCEPT ![c][g] = n], purse' = purse
  PROVE  BagStep(c) /\ \A k \in Kinds : BagGain(c, k) = IF k = g THEN n - bag[c][g] ELSE 0
<1>1. bag \in [Chars -> [Goods -> Nat]] /\ purse \in [Chars -> Nat] /\ Fits(bag)
  BY DEF BoxInv, BoxTypes, BagTypes
<1>2. bag' = PutGood(bag, c, g, n)
  BY DEF PutGood
<1>3. n <= bag[c][g] \/ (n = bag[c][g] + 1 /\ SumFunction(bag[c]) < BagSize)
  BY DEF Room
<1>4. /\ PutGood(bag, c, g, n) \in [Chars -> [Goods -> Nat]]
      /\ Fits(PutGood(bag, c, g, n))
      /\ \A d \in Chars, x \in Goods :
           PutGood(bag, c, g, n)[d][x] = IF d = c /\ x = g THEN n ELSE bag[d][x]
      /\ \A d \in Chars : d # c => PutGood(bag, c, g, n)[d] = bag[d]
  BY <1>1, <1>3, GoodPut
<1>5. BagStep(c)
  BY <1>1, <1>2, <1>4 DEF BagStep, BagTypes, SameBagsBut
<1>6. ASSUME NEW k \in Kinds PROVE BagGain(c, k) = IF k = g THEN n - bag[c][g] ELSE 0
  <2>1. g # Gil /\ (k = Gil \/ k \in Goods)
    BY DeliveryAssumption DEF Kinds
  <2>2. bag'[c][g] = n /\ \A x \in Goods : x # g => bag'[c][x] = bag[c][x]
    BY <1>2, <1>4
  <2>3. purse'[c] = purse[c] /\ purse[c] \in Int /\ \A x \in Goods : bag[c][x] \in Int
    BY <1>1
  <2> QED BY <2>1, <2>2, <2>3 DEF BagGain, InBag
<1> QED BY <1>5, <1>6

LEMMA PurseChanges ==
  ASSUME BoxInv, NEW c \in Chars, NEW n \in Nat,
         bag' = bag, purse' = [purse EXCEPT ![c] = n]
  PROVE  BagStep(c) /\ \A k \in Kinds : BagGain(c, k) = IF k = Gil THEN n - purse[c] ELSE 0
<1>1. bag \in [Chars -> [Goods -> Nat]] /\ purse \in [Chars -> Nat] /\ Fits(bag)
  BY DEF BoxInv, BoxTypes, BagTypes
<1>2. purse' \in [Chars -> Nat] /\ purse'[c] = n /\ \A d \in Chars : d # c => purse'[d] = purse[d]
  BY <1>1
<1>3. BagStep(c)
  BY <1>1, <1>2 DEF BagStep, BagTypes, SameBagsBut
<1>4. \A k \in Kinds : BagGain(c, k) = IF k = Gil THEN n - purse[c] ELSE 0
  <2>1. \A x \in Goods : bag[c][x] \in Int
    BY <1>1
  <2> QED BY <1>2, <2>1, DeliveryAssumption DEF BagGain, InBag, Kinds
<1> QED BY <1>3, <1>4

(* Gaining gives what is gained.                                            *)
LEMMA GainingGives ==
  ASSUME BoxInv, NEW c \in Chars, NEW item \in Goods \cup Sums, Gaining(c, item)
  PROVE  BagStep(c) /\ \A k \in Kinds : BagGain(c, k) = Amount(item, k)
<1>1. bag \in [Chars -> [Goods -> Nat]] /\ purse \in [Chars -> Nat]
  BY DEF BoxInv, BoxTypes, BagTypes
<1>2. CASE item \in Goods
  <2> DEFINE n == bag[c][item] + 1
  <2>1. n \in Nat /\ bag[c][item] \in Nat /\ n = bag[c][item] + 1
    BY <1>1, <1>2
  <2>2. Room(c) /\ bag' = [bag EXCEPT ![c][item] = n] /\ purse' = purse
    BY <1>2 DEF Gaining
  <2> HIDE DEF n
  <2>3. BagStep(c) /\ \A k \in Kinds : BagGain(c, k) = IF k = item THEN n - bag[c][item] ELSE 0
    BY <1>2, <2>1, <2>2, GoodComes
  <2>4. \A k \in Kinds : Amount(item, k) = IF k = item THEN 1 ELSE 0
    BY <1>2, DeliveryAssumption DEF Amount, Kinds
  <2> QED BY <2>1, <2>3, <2>4
<1>3. CASE item \notin Goods
  <2> DEFINE n == purse[c] + item
  <2>1. item \in Nat /\ n \in Nat /\ purse[c] \in Nat /\ n = purse[c] + item
    <3>1. item \in Sums
      BY <1>3
    <3>2. item \in Nat
      BY <3>1, DeliveryAssumption
    <3>3. purse[c] \in Nat
      BY <1>1
    <3> QED BY <3>2, <3>3
  <2>2. bag' = bag /\ purse' = [purse EXCEPT ![c] = n]
    BY <1>3 DEF Gaining
  <2> HIDE DEF n
  <2>3. BagStep(c) /\ \A k \in Kinds : BagGain(c, k) = IF k = Gil THEN n - purse[c] ELSE 0
    BY <2>1, <2>2, PurseChanges
  <2>4. \A k \in Kinds : Amount(item, k) = IF k = Gil THEN item ELSE 0
    BY <1>3, DeliveryAssumption DEF Amount, Kinds
  <2> QED BY <2>1, <2>3, <2>4
<1> QED BY <1>2, <1>3

(* Losing counts what is lost.                                              *)
LEMMA LosingCounts ==
  ASSUME BoxInv, NEW item \in Goods \cup Sums, gone' = Losing(item)
  PROVE  gone' \in [Kinds -> Nat] /\ \A k \in Kinds : gone[k] - gone'[k] = 0 - Amount(item, k)
<1>1. gone \in [Kinds -> Nat]
  BY DEF BoxInv
<1>2. CASE item \in Goods
  <2>1. item \in Kinds /\ gone' = [gone EXCEPT ![item] = gone[item] + 1]
    BY <1>2 DEF Losing, Kinds
  <2>2. \A k \in Kinds : Amount(item, k) = IF k = item THEN 1 ELSE 0
    BY <1>2, DeliveryAssumption DEF Amount, Kinds
  <2>3. gone' \in [Kinds -> Nat] /\ \A k \in Kinds : gone'[k] = IF k = item THEN gone[k] + 1 ELSE gone[k]
    BY <1>1, <2>1
  <2>4. \A k \in Kinds : gone[k] \in Int
    BY <1>1
  <2> QED BY <2>2, <2>3, <2>4
<1>3. CASE item \notin Goods
  <2>1. item \in Nat
    BY <1>3, DeliveryAssumption
  <2>2. Gil \in Kinds /\ gone' = [gone EXCEPT ![Gil] = gone[Gil] + item]
    BY <1>3 DEF Losing, Kinds
  <2>3. \A k \in Kinds : Amount(item, k) = IF k = Gil THEN item ELSE 0
    BY <1>3, DeliveryAssumption DEF Amount, Kinds
  <2>4. gone' \in [Kinds -> Nat] /\ \A k \in Kinds : gone'[k] = IF k = Gil THEN gone[k] + item ELSE gone[k]
    BY <1>1, <2>1, <2>2
  <2>5. \A k \in Kinds : gone[k] \in Int
    BY <1>1
  <2> QED BY <2>1, <2>3, <2>4, <2>5
<1> QED BY <1>2, <1>3

QueueStep(d) == QueueTypes(queue') /\ SameQueuesBut(queue, queue', d)
QueueGain(d, k) == SeqSum(queue'[d], Weights(k)) - SeqSum(queue[d], Weights(k))

LEMMA QueuesKept ==
  ASSUME BoxInv, NEW d \in Chars, queue' = queue
  PROVE  QueueStep(d) /\ \A k \in Kinds : QueueGain(d, k) = 0
<1>1. QueueTypes(queue) /\ queue[d] \in Seq(Mail)
  BY DEF BoxInv, BoxTypes, QueueTypes
<1>2. \A k \in Kinds : SeqSum(queue[d], Weights(k)) \in Nat
  BY <1>1, WeightsType, SeqSumType
<1> QED BY <1>1, <1>2 DEF QueueStep, QueueGain, SameQueuesBut

LEMMA PostedComes ==
  ASSUME BoxInv, NEW d \in Chars, NEW item \in Goods \cup Sums, NEW from \in Chars \cup {None},
         queue' = Posted(d, item, from)
  PROVE  /\ QueueStep(d) /\ \A k \in Kinds : QueueGain(d, k) = Amount(item, k)
         /\ \A b \in Chars : \A m : Mails(queue'[b], m)
              = Mails(queue[b], m) + One(b = d /\ m = [item |-> item, from |-> from])
<1> DEFINE mail == [item |-> item, from |-> from]
           q == Append(queue[d], mail)
<1>1. queue \in [Chars -> Seq(Mail)] /\ queue[d] \in Seq(Mail)
  BY DEF BoxInv, BoxTypes, QueueTypes
<1>2. mail \in Mail /\ mail.item = item
  BY DEF Mail
<1>3. queue' = [queue EXCEPT ![d] = q]
  BY DEF Posted
<1> HIDE DEF mail
<1>4. q \in Seq(Mail)
  BY <1>1, <1>2, AppendProperties
<1>5. \A k \in Kinds : SeqSum(q, Weights(k)) = SeqSum(queue[d], Weights(k)) + Amount(item, k)
  <2> SUFFICES ASSUME NEW k \in Kinds
               PROVE  SeqSum(q, Weights(k)) = SeqSum(queue[d], Weights(k)) + Amount(item, k)
    OBVIOUS
  <2>1. Weights(k) \in [Mail -> Nat] /\ Weights(k)[mail] = Amount(item, k)
    BY <1>2, WeightsType DEF Weights
  <2>2. SeqSum(q, Weights(k)) = SeqSum(queue[d], Weights(k)) + Weights(k)[mail]
    BY <1>1, <1>2, <2>1, SeqSumAppend
  <2> QED BY <2>1, <2>2
<1>6. \A m : Mails(q, m) = Mails(queue[d], m) + One(mail = m)
  BY <1>1, <1>2, MailsAppend
<1> HIDE DEF q
<1>7. queue' \in [Chars -> Seq(Mail)] /\ queue'[d] = q /\ \A b \in Chars : b # d => queue'[b] = queue[b]
  BY <1>1, <1>3, <1>4
<1>8. QueueStep(d)
  BY <1>7 DEF QueueStep, QueueTypes, SameQueuesBut
<1>9. ASSUME NEW k \in Kinds PROVE QueueGain(d, k) = Amount(item, k)
  <2>1. SeqSum(queue[d], Weights(k)) \in Nat
    BY <1>1, WeightsType, SeqSumType
  <2>2. Amount(item, k) \in Nat
    BY AmountType
  <2> QED BY <1>5, <1>7, <2>1, <2>2 DEF QueueGain
<1>10. ASSUME NEW b \in Chars, NEW m
       PROVE  Mails(queue'[b], m) = Mails(queue[b], m) + One(b = d /\ m = mail)
  <2>1. Mails(queue[b], m) \in Nat
    <3>1. queue[b] \in Seq(Mail)
      BY <1>1
    <3> QED BY <3>1, MailsIsSum
  <2>2. CASE b = d
    BY <1>6, <1>7, <2>2 DEF One
  <2>3. CASE b # d
    BY <1>7, <2>1, <2>3 DEF One
  <2> QED BY <2>2, <2>3
<1> QED BY <1>8, <1>9, <1>10 DEF mail

LEMMA MailGoes ==
  ASSUME BoxInv, NEW d \in Chars, NEW i \in DOMAIN queue[d], NEW q \in Seq(Mail),
         Dropped(q, queue[d], i), queue' = [queue EXCEPT ![d] = q]
  PROVE  /\ queue[d][i] \in Mail
         /\ QueueStep(d) /\ \A k \in Kinds : QueueGain(d, k) = 0 - Amount(queue[d][i].item, k)
         /\ \A b \in Chars : \A m : Mails(queue'[b], m)
              = Mails(queue[b], m) - One(b = d /\ m = queue[d][i])
<1> DEFINE mail == queue[d][i]
<1>1. queue \in [Chars -> Seq(Mail)] /\ queue[d] \in Seq(Mail)
  BY DEF BoxInv, BoxTypes, QueueTypes
<1>2. mail \in Mail /\ mail.item \in Goods \cup Sums
  <2>1. mail \in Mail
    BY <1>1, LenProperties
  <2> QED BY <2>1 DEF Mail
<1>3. \A k \in Kinds : SeqSum(q, Weights(k)) = SeqSum(queue[d], Weights(k)) - Amount(mail.item, k)
  <2> SUFFICES ASSUME NEW k \in Kinds
               PROVE  SeqSum(q, Weights(k)) = SeqSum(queue[d], Weights(k)) - Amount(mail.item, k)
    OBVIOUS
  <2>1. Weights(k) \in [Mail -> Nat] /\ Weights(k)[mail] = Amount(mail.item, k)
    BY <1>2, WeightsType DEF Weights
  <2>2. SeqSum(q, Weights(k)) = SeqSum(queue[d], Weights(k)) - Weights(k)[mail]
    BY <1>1, <2>1, SeqSumDropped
  <2> QED BY <2>1, <2>2
<1>4. \A m : Mails(q, m) = Mails(queue[d], m) - One(mail = m)
  BY <1>1, MailsDropped
<1> HIDE DEF mail
<1>5. queue' \in [Chars -> Seq(Mail)] /\ queue'[d] = q /\ \A b \in Chars : b # d => queue'[b] = queue[b]
  BY <1>1
<1>6. QueueStep(d)
  BY <1>5 DEF QueueStep, QueueTypes, SameQueuesBut
<1>7. ASSUME NEW k \in Kinds PROVE QueueGain(d, k) = 0 - Amount(mail.item, k)
  <2>1. SeqSum(queue[d], Weights(k)) \in Nat
    BY <1>1, WeightsType, SeqSumType
  <2>2. Amount(mail.item, k) \in Nat
    BY <1>2, AmountType
  <2> QED BY <1>3, <1>5, <2>1, <2>2 DEF QueueGain
<1>8. ASSUME NEW b \in Chars, NEW m
      PROVE  Mails(queue'[b], m) = Mails(queue[b], m) - One(b = d /\ m = mail)
  <2>1. Mails(queue[b], m) \in Nat
    <3>1. queue[b] \in Seq(Mail)
      BY <1>1
    <3> QED BY <3>1, MailsIsSum
  <2>2. CASE b = d
    BY <1>4, <1>5, <2>2 DEF One
  <2>3. CASE b # d
    BY <1>5, <2>1, <2>3 DEF One
  <2> QED BY <2>2, <2>3
<1> QED BY <1>2, <1>6, <1>7, <1>8 DEF mail

(* The mails that a cell's receipts are for come and go with them.          *)
MailFollows(c, s, row) ==
  \A a \in Chars, b \in Chars, g \in Goods :
    Mails(queue'[b], [item |-> g, from |-> a])
      >= Mails(queue[b], [item |-> g, from |-> a])
           + (IF a = c THEN One(IsReceipt(row, b, g)) - One(IsReceipt(outbox[c][s], b, g)) ELSE 0)

LEMMA MailsIsNat ==
  ASSUME NEW qu, QueueTypes(qu), NEW b \in Chars, NEW m
  PROVE  Mails(qu[b], m) \in Nat
<1>1. qu[b] \in Seq(Mail)
  BY DEF QueueTypes
<1> QED BY <1>1, MailsIsSum

LEMMA HaveMailStill ==
  ASSUME BoxInv, NEW c \in Chars, NEW s \in Cells, NEW row, NEW mail, NEW copy,
         CellBecomes(c, s, row, mail, copy), QueueTypes(queue'), MailFollows(c, s, row)
  PROVE  HaveMail(outbox', queue')
<1>1. SameRowsBut(outbox, inbox, outbox', inbox', c, s) /\ outbox'[c][s] = row
      /\ RowTypes(outbox', inbox')
  BY CellStep
<1>2. RowTypes(outbox, inbox) /\ QueueTypes(queue) /\ HaveMail(outbox, queue)
  BY DEF BoxInv, BoxTypes
<1> SUFFICES ASSUME NEW a \in Chars, NEW b \in Chars, NEW g \in Goods
             PROVE  Receipts(outbox'[a], b, g) <= Mails(queue'[b], [item |-> g, from |-> a])
  BY DEF HaveMail
<1> DEFINE m == [item |-> g, from |-> a]
<1>3. Receipts(outbox[a], b, g) <= Mails(queue[b], m)
  BY <1>2 DEF HaveMail
<1>4. Mails(queue'[b], m) >= Mails(queue[b], m)
        + (IF a = c THEN One(IsReceipt(row, b, g)) - One(IsReceipt(outbox[c][s], b, g)) ELSE 0)
  BY DEF MailFollows
<1> HIDE DEF m
<1>5. Mails(queue'[b], m) \in Nat /\ Mails(queue[b], m) \in Nat
  BY <1>2, MailsIsNat
<1>6. Receipts(outbox[a], b, g) \in Nat /\ Receipts(outbox'[a], b, g) \in Nat
  BY ReceiptsIsNat
<1>7. CASE a = c
  <2> DEFINE o == outbox[c]
             p == outbox'[c]
  <2>1. \A r \in Cells : r # s => p[r] = o[r]
    BY <1>1 DEF SameRowsBut
  <2>2. p[s] = row /\ o[s] = outbox[c][s]
    BY <1>1
  <2> HIDE DEF o, p
  <2>3. Receipts(p, b, g) = Receipts(o, b, g) + One(IsReceipt(p[s], b, g)) - One(IsReceipt(o[s], b, g))
    BY <2>1, ReceiptsChange
  <2>4. One(IsReceipt(p[s], b, g)) \in Int /\ One(IsReceipt(o[s], b, g)) \in Int
    BY DEF One
  <2>5. Receipts(p, b, g) \in Nat /\ Receipts(o, b, g) \in Nat
    BY ReceiptsIsNat
  <2>6. Mails(queue'[b], m) >= Mails(queue[b], m)
          + (One(IsReceipt(p[s], b, g)) - One(IsReceipt(o[s], b, g)))
    BY <1>4, <1>7, <2>2
  <2>7. Receipts(o, b, g) <= Mails(queue[b], m)
    BY <1>3, <1>7 DEF o
  <2>8. Receipts(p, b, g) <= Mails(queue'[b], m)
    BY <1>5, <2>3, <2>4, <2>5, <2>6, <2>7
  <2> QED BY <1>7, <2>8 DEF m, p
<1>8. CASE a # c
  <2>1. \A r \in Cells : IsReceipt(outbox'[a][r], b, g) = IsReceipt(outbox[a][r], b, g)
    BY <1>1, <1>8 DEF SameRowsBut
  <2>2. Receipts(outbox'[a], b, g) = Receipts(outbox[a], b, g)
    BY <2>1, ReceiptsSame
  <2>3. Mails(queue'[b], m) >= Mails(queue[b], m)
    BY <1>4, <1>5, <1>8
  <2>4. Receipts(outbox'[a], b, g) <= Mails(queue'[b], m)
    BY <1>3, <1>5, <1>6, <2>2, <2>3
  <2> QED BY <2>4 DEF m
<1> QED BY <1>7, <1>8

(* One cell, one bag and one queue.                                         *)
LEMMA HandlerStep ==
  ASSUME BoxInv, NEW c \in Chars, NEW s \in Cells, NEW row, NEW mail, NEW copy,
         CellBecomes(c, s, row, mail, copy),
         NEW e \in Chars, BagStep(e), NEW d \in Chars, QueueStep(d), MailFollows(c, s, row),
         \A k \in Kinds :
           BagGain(e, k) + (Cell(row, mail, k) - Cell(outbox[c][s], inbox[c][s], k)) + QueueGain(d, k)
             = gone[k] - gone'[k],
         alive' = alive, gone' \in [Kinds -> Nat], faults' \in 0..MaxFaults
  PROVE  BoxInv' /\ Kept
<1>1. QueueTypes(queue') /\ SameQueuesBut(queue, queue', d)
  BY DEF QueueStep
<1>2. HaveMail(outbox', queue')
  BY <1>1, HaveMailStill
<1>3. Moves(c, s, row, mail, e, d)
  BY DEF Moves, BagGain, QueueGain
<1>4. BagTypes(bag', purse') /\ Fits(bag') /\ SameBagsBut(bag, purse, bag', purse', e)
  BY DEF BagStep
<1> QED BY <1>1, <1>2, <1>3, <1>4, BoxStep

LEMMA NoNewReceipts ==
  ASSUME BoxInv, NEW c \in Chars, NEW s \in Cells, NEW row, QueueTypes(queue'),
         \A b \in Chars, g \in Goods : IsReceipt(row, b, g) => IsReceipt(outbox[c][s], b, g),
         \A b \in Chars : \A m : Mails(queue'[b], m) >= Mails(queue[b], m)
  PROVE  MailFollows(c, s, row)
<1>1. QueueTypes(queue)
  BY DEF BoxInv, BoxTypes
<1> SUFFICES ASSUME NEW a \in Chars, NEW b \in Chars, NEW g \in Goods
             PROVE  Mails(queue'[b], [item |-> g, from |-> a])
                      >= Mails(queue[b], [item |-> g, from |-> a])
                           + (IF a = c THEN One(IsReceipt(row, b, g)) - One(IsReceipt(outbox[c][s], b, g))
                              ELSE 0)
  BY DEF MailFollows
<1> DEFINE m == [item |-> g, from |-> a]
<1>2. Mails(queue'[b], m) >= Mails(queue[b], m)
  OBVIOUS
<1> HIDE DEF m
<1>3. Mails(queue[b], m) \in Nat /\ Mails(queue'[b], m) \in Nat
  BY <1>1, MailsIsNat
<1> DEFINE x == One(IsReceipt(row, b, g)) - One(IsReceipt(outbox[c][s], b, g))
<1>4. x = 0 \/ x = 0 - 1
  BY DEF One
<1> HIDE DEF x
<1>5. Mails(queue'[b], m) >= Mails(queue[b], m) + (IF a = c THEN x ELSE 0)
  BY <1>2, <1>3, <1>4
<1> QED BY <1>5 DEF m, x

LEMMA QueueSame ==
  ASSUME BoxInv, queue' = queue
  PROVE  \A b \in Chars : \A m : Mails(queue'[b], m) >= Mails(queue[b], m)
<1>1. QueueTypes(queue)
  BY DEF BoxInv, BoxTypes
<1>2. \A b \in Chars : \A m : Mails(queue[b], m) \in Nat
  BY <1>1, MailsIsNat
<1> QED BY <1>2

LEMMA AddKeeps ==
  ASSUME BoxInv, NEW c \in Chars, NEW s \in Cells, NEW g \in Goods, NEW r \in Chars,
         AddItemsToBeSent(c, s, g, r)
  PROVE  BoxInv' /\ Kept
<1> DEFINE row  == [item |-> g, to |-> r, sent |-> FALSE, received |-> FALSE]
           copy == [item |-> g, to |-> r, sent |-> FALSE]
           mail == inbox[c][s]
           n    == bag[c][g] - 1
<1>1. row \in Outgoing /\ row # None /\ copy \in Copy /\ row.item = g /\ row.to = r /\ ~row.sent /\ ~row.received
      /\ copy.item = row.item /\ copy.to = row.to
  <2>1. row \in Outgoing
    BY DEF Outgoing
  <2>2. copy \in Copy
    BY DEF Copy
  <2>3. row # None
    BY <2>1, DeliveryAssumption
  <2> QED BY <2>1, <2>2, <2>3
<1>2. window[c].box = "out" /\ outbox[c][s] = None
      /\ outbox' = PutRow(outbox, c, s, row) /\ window' = PutCopy(window, c, s, copy)
      /\ bag' = [bag EXCEPT ![c][g] = n] /\ bag[c][g] > 0
      /\ UNCHANGED <<alive, purse, inbox, queue, gone, faults>>
  BY DEF AddItemsToBeSent, PutRow, PutCopy
<1>3. n \in Nat /\ n <= bag[c][g] /\ n - bag[c][g] = 0 - 1
  <2>1. bag[c][g] \in Nat
    BY DEF BoxInv, BoxTypes, BagTypes
  <2> QED BY <1>2, <2>1
<1> HIDE DEF row, copy, n
<1>4. mail \in Mail \cup {None} /\ inbox' = PutRow(inbox, c, s, mail)
  BY <1>2, RowsTyped, InboxKept
<1> HIDE DEF mail
<1>5. CellBecomes(c, s, row, mail, copy)
  BY <1>1, <1>2, <1>4 DEF CellBecomes, ShowsCell
<1>6. BagStep(c) /\ \A k \in Kinds : BagGain(c, k) = IF k = g THEN 0 - 1 ELSE 0
  <2>1. bag' = [bag EXCEPT ![c][g] = n] /\ purse' = purse
    BY <1>2
  <2>2. BagStep(c) /\ \A k \in Kinds : BagGain(c, k) = IF k = g THEN n - bag[c][g] ELSE 0
    BY <1>3, <2>1, GoodComes
  <2> QED BY <1>3, <2>2
<1>7. QueueStep(c) /\ \A k \in Kinds : QueueGain(c, k) = 0
  BY <1>2, QueuesKept
<1>8. MailFollows(c, s, row)
  <2>1. \A b \in Chars, x \in Goods : IsReceipt(row, b, x) => IsReceipt(outbox[c][s], b, x)
    BY <1>1 DEF IsReceipt
  <2>2. QueueTypes(queue')
    BY <1>7 DEF QueueStep
  <2> QED BY <1>2, <2>1, <2>2, QueueSame, NoNewReceipts
<1>9. ASSUME NEW k \in Kinds
      PROVE  BagGain(c, k) + (Cell(row, mail, k) - Cell(outbox[c][s], inbox[c][s], k)) + QueueGain(c, k)
               = gone[k] - gone'[k]
  <2>1. Cell(row, mail, k) = InOutbox(row, k) + InInbox(mail, k)
        /\ InOutbox(row, k) \in Nat /\ InInbox(mail, k) \in Nat
    BY <1>1, <1>4, CellIs
  <2>2. Cell(outbox[c][s], mail, k) = 0 + InInbox(mail, k)
    <3>1. outbox[c][s] \in Outgoing \cup {None}
      BY RowsTyped
    <3>2. Cell(outbox[c][s], mail, k) = InOutbox(outbox[c][s], k) + InInbox(mail, k)
      BY <1>4, <3>1, CellIs
    <3>3. InOutbox(outbox[c][s], k) = 0
      BY <1>2 DEF InOutbox
    <3> QED BY <3>2, <3>3
  <2>3. InOutbox(row, k) = Amount(g, k)
    BY <1>1 DEF InOutbox
  <2>4. Amount(g, k) = IF k = g THEN 1 ELSE 0
    BY DeliveryAssumption DEF Amount, Kinds
  <2>5. gone[k] \in Int /\ gone' = gone
    BY <1>2 DEF BoxInv
  <2> QED BY <1>6, <1>7, <2>1, <2>2, <2>3, <2>4, <2>5 DEF mail
<1>10. alive' = alive /\ gone' \in [Kinds -> Nat] /\ faults' \in 0..MaxFaults
  BY <1>2 DEF BoxInv
<1> QED BY <1>5, <1>6, <1>7, <1>8, <1>9, <1>10, HandlerStep

LEMMA CellGain ==
  ASSUME BoxInv, NEW c \in Chars, NEW s \in Cells,
         NEW row \in Outgoing \cup {None}, NEW mail \in Mail \cup {None}, NEW k \in Kinds
  PROVE  /\ Cell(row, mail, k) - Cell(outbox[c][s], inbox[c][s], k)
              = (InOutbox(row, k) - InOutbox(outbox[c][s], k)) + (InInbox(mail, k) - InInbox(inbox[c][s], k))
         /\ InOutbox(row, k) \in Nat /\ InOutbox(outbox[c][s], k) \in Nat
         /\ InInbox(mail, k) \in Nat /\ InInbox(inbox[c][s], k) \in Nat
<1>1. outbox[c][s] \in Outgoing \cup {None} /\ inbox[c][s] \in Mail \cup {None}
  BY RowsTyped
<1>2. /\ Cell(row, mail, k) = InOutbox(row, k) + InInbox(mail, k)
      /\ InOutbox(row, k) \in Nat /\ InInbox(mail, k) \in Nat
  BY CellIs
<1>3. /\ Cell(outbox[c][s], inbox[c][s], k) = InOutbox(outbox[c][s], k) + InInbox(inbox[c][s], k)
      /\ InOutbox(outbox[c][s], k) \in Nat /\ InInbox(inbox[c][s], k) \in Nat
  BY <1>1, CellIs
<1> QED BY <1>2, <1>3

(* Only a copy changes.                                                     *)
LEMMA CopyStep ==
  ASSUME BoxInv, NEW c \in Chars, NEW s \in Cells, NEW copy \in Copy \cup {None},
         ShowsCell(window[c].box, copy, outbox[c][s], inbox[c][s]),
         window' = PutCopy(window, c, s, copy),
         UNCHANGED <<alive, bag, purse, outbox, inbox, queue, gone>>, faults' \in 0..MaxFaults
  PROVE  BoxInv' /\ Kept
<1>1. /\ outbox[c][s] \in Outgoing \cup {None} /\ inbox[c][s] \in Mail \cup {None}
      /\ outbox[c][s] # None /\ outbox[c][s].received => outbox[c][s].sent
  BY RowsTyped
<1>2. outbox' = PutRow(outbox, c, s, outbox[c][s]) /\ inbox' = PutRow(inbox, c, s, inbox[c][s])
  BY OutboxKept, InboxKept
<1>3. CellBecomes(c, s, outbox[c][s], inbox[c][s], copy)
  BY <1>1, <1>2 DEF CellBecomes
<1>4. BagStep(c) /\ \A k \in Kinds : BagGain(c, k) = 0
  BY BagKept
<1>5. QueueStep(c) /\ \A k \in Kinds : QueueGain(c, k) = 0
  BY QueuesKept
<1>6. MailFollows(c, s, outbox[c][s])
  <2>1. QueueTypes(queue')
    BY <1>5 DEF QueueStep
  <2>2. queue' = queue
    OBVIOUS
  <2> QED BY <2>1, <2>2, QueueSame, NoNewReceipts
<1>7. ASSUME NEW k \in Kinds
      PROVE  BagGain(c, k) + (Cell(outbox[c][s], inbox[c][s], k) - Cell(outbox[c][s], inbox[c][s], k))
               + QueueGain(c, k) = gone[k] - gone'[k]
  <2>1. Cell(outbox[c][s], inbox[c][s], k) \in Nat
    BY <1>1, CellType
  <2>2. gone[k] \in Int /\ gone' = gone
    BY DEF BoxInv
  <2> QED BY <1>4, <1>5, <2>1, <2>2
<1>8. alive' = alive /\ gone' \in [Kinds -> Nat]
  BY DEF BoxInv
<1> QED BY <1>3, <1>4, <1>5, <1>6, <1>7, <1>8, HandlerStep

(* A COMMIT that fails.                                                     *)
LEMMA CommitFailsType == ASSUME BoxInv, CommitFails PROVE faults' \in 0..MaxFaults
BY DeliveryAssumption DEF BoxInv, CommitFails

(* The copy that is shown, marked.                                          *)
LEMMA ShownMarked ==
  ASSUME BoxInv, NEW c \in Chars, NEW s \in Cells, window[c].cells[s] # None, NEW b \in BOOLEAN,
         NEW w, w = MarkCopy(window, c, s, b)
  PROVE  \E copy \in Copy : /\ copy # None /\ copy.item = window[c].cells[s].item
                            /\ copy.to = window[c].cells[s].to
                            /\ w = PutCopy(window, c, s, copy)
<1> DEFINE old  == window[c].cells[s]
           copy == [item |-> old.item, to |-> old.to, sent |-> b]
<1>1. old \in Copy
  BY RowsTyped
<1>2. copy \in Copy /\ copy.item = old.item /\ copy.to = old.to
  BY <1>1 DEF Copy
<1>3. window \in [Chars -> Window]
  BY DEF BoxInv
<1>4. w = PutCopy(window, c, s, copy)
  BY <1>1, <1>3, CopyMark
<1>5. copy # None
  BY <1>2, DeliveryAssumption
<1> QED BY <1>2, <1>4, <1>5

LEMMA ConfirmKeeps ==
  ASSUME BoxInv, alive \in SUBSET Chars, NEW c \in Chars, NEW s \in Cells, SendConfirmation(c, s)
  PROVE  BoxInv' /\ Kept
<1> DEFINE r    == Copied(c, s).to
           old  == outbox[c][s]
           row  == [item |-> old.item, to |-> old.to, sent |-> TRUE, received |-> old.received]
           item == Copied(c, s).item
<1>1. /\ window[c].box = "out" /\ window[c].cells[s] # None /\ r \in Chars
      /\ old # None /\ old.to = r /\ ~old.sent
      /\ window' = [window EXCEPT ![c].cells[s].sent = TRUE]
      /\ UNCHANGED <<alive, bag, purse, inbox, gone>>
  BY DEF SendConfirmation, Shown, Copied
<1>2. PICK copy \in Copy : /\ copy # None /\ copy.item = window[c].cells[s].item
                           /\ copy.to = window[c].cells[s].to
                           /\ window' = PutCopy(window, c, s, copy)
  <2>1. PICK b \in BOOLEAN : b = TRUE
    OBVIOUS
  <2>2. window' = MarkCopy(window, c, s, b)
    BY <1>1, <2>1 DEF MarkCopy
  <2> QED BY <1>1, <2>2, ShownMarked
<1>3. /\ old \in Outgoing /\ inbox[c][s] \in Mail \cup {None}
      /\ ShowsCell(window[c].box, window[c].cells[s], old, inbox[c][s])
      /\ old.received => old.sent
  BY <1>1, RowsTyped
<1>4. item = old.item /\ item \in Goods /\ r = old.to
  BY <1>1, <1>3 DEF ShowsCell, Copied, Outgoing
<1>5. row \in Outgoing /\ row.item = item /\ row.to = r /\ row.sent /\ ~row.received
  BY <1>1, <1>3, <1>4 DEF Outgoing
<1>6. row # None
  BY <1>5, DeliveryAssumption
<1>7. CASE outbox' = [outbox EXCEPT ![c][s].sent = TRUE] /\ queue' = Posted(r, item, c) /\ UNCHANGED faults
  <2>1. outbox' = PutRow(outbox, c, s, row)
    <3>1. PICK b \in BOOLEAN : b = TRUE
      OBVIOUS
    <3>2. outbox' = MarkRow(outbox, c, s, b)
      BY <1>7, <3>1 DEF MarkRow
    <3> QED BY <1>3, <3>1, <3>2, RowMark
  <2> HIDE DEF row
  <2>2. inbox' = PutRow(inbox, c, s, inbox[c][s])
    BY <1>1, InboxKept
  <2>3. CellBecomes(c, s, row, inbox[c][s], copy)
    BY <1>1, <1>2, <1>3, <1>4, <1>5, <2>1, <2>2 DEF CellBecomes, ShowsCell, Copied
  <2>4. BagStep(c) /\ \A k \in Kinds : BagGain(c, k) = 0
    BY <1>1, BagKept
  <2>5. /\ QueueStep(r) /\ \A k \in Kinds : QueueGain(r, k) = Amount(item, k)
        /\ \A b \in Chars : \A m : Mails(queue'[b], m)
             = Mails(queue[b], m) + One(b = r /\ m = [item |-> item, from |-> c])
    BY <1>1, <1>4, <1>7, PostedComes
  <2>6. MailFollows(c, s, row)
    <3> SUFFICES ASSUME NEW a \in Chars, NEW b \in Chars, NEW g \in Goods
                 PROVE  Mails(queue'[b], [item |-> g, from |-> a])
                          >= Mails(queue[b], [item |-> g, from |-> a])
                               + (IF a = c THEN One(IsReceipt(row, b, g)) - One(IsReceipt(old, b, g))
                                  ELSE 0)
      BY DEF MailFollows
    <3> DEFINE m == [item |-> g, from |-> a]
    <3>1. (m = [item |-> item, from |-> c]) <=> (g = item /\ a = c)
      OBVIOUS
    <3> DEFINE x == One(IsReceipt(row, b, g))
               y == One(IsReceipt(old, b, g))
               z == One(b = r /\ m = [item |-> item, from |-> c])
    <3>2. y = 0
      BY <1>1 DEF One, IsReceipt
    <3>3. x = One(b = r /\ g = item) /\ x \in Int
      BY <1>5, <1>6 DEF One, IsReceipt
    <3> HIDE DEF m
    <3>4. (a = c => z = x) /\ (a # c => z = 0)
      BY <3>1, <3>3 DEF One
    <3> HIDE DEF x, y, z
    <3>5. Mails(queue'[b], m) = Mails(queue[b], m) + z
      BY <2>5 DEF z
    <3>6. Mails(queue[b], m) \in Nat
      BY MailsIsNat DEF BoxInv, BoxTypes
    <3>7. Mails(queue'[b], m) >= Mails(queue[b], m) + (IF a = c THEN x - y ELSE 0)
      BY <3>5, <3>2, <3>3, <3>6, <3>4
    <3> QED BY <3>7 DEF m, x, y
  <2>7. ASSUME NEW k \in Kinds
        PROVE  BagGain(c, k) + (Cell(row, inbox[c][s], k) - Cell(outbox[c][s], inbox[c][s], k))
                 + QueueGain(r, k) = gone[k] - gone'[k]
    <3>1. /\ Cell(row, inbox[c][s], k) - Cell(outbox[c][s], inbox[c][s], k)
               = (InOutbox(row, k) - InOutbox(outbox[c][s], k)) + (InInbox(inbox[c][s], k) - InInbox(inbox[c][s], k))
          /\ InOutbox(outbox[c][s], k) \in Nat
          /\ InInbox(inbox[c][s], k) \in Nat
      BY <1>3, <1>5, CellGain
    <3>2. InOutbox(row, k) = 0 /\ InOutbox(outbox[c][s], k) = Amount(item, k)
      BY <1>1, <1>4, <1>5 DEF InOutbox
    <3>3. gone[k] \in Int /\ gone' = gone
      BY <1>1 DEF BoxInv
    <3> QED BY <2>4, <2>5, <3>1, <3>2, <3>3
  <2>8. alive' = alive /\ gone' \in [Kinds -> Nat] /\ faults' \in 0..MaxFaults
    BY <1>1, <1>7 DEF BoxInv
  <2> QED BY <1>1, <2>3, <2>4, <2>5, <2>6, <2>7, <2>8, HandlerStep
<1>8. CASE CommitFails /\ UNCHANGED <<outbox, queue>>
  <2>1. faults' \in 0..MaxFaults
    BY <1>8, CommitFailsType
  <2>2. ShowsCell(window[c].box, copy, outbox[c][s], inbox[c][s])
    BY <1>1, <1>2, <1>3 DEF ShowsCell
  <2>3. UNCHANGED <<alive, bag, purse, outbox, inbox, queue, gone>>
    BY <1>1, <1>8
  <2> QED BY <1>2, <2>1, <2>2, <2>3, CopyStep
<1> QED BY <1>7, <1>8 DEF SendConfirmation, Copied

LEMMA ReceiptHasMail ==
  ASSUME BoxInv, NEW c \in Chars, NEW s \in Cells, NEW b \in Chars, NEW g \in Goods,
         IsReceipt(outbox[c][s], b, g)
  PROVE  \E i \in DOMAIN queue[b] : queue[b][i] = [item |-> g, from |-> c]
<1> DEFINE m == [item |-> g, from |-> c]
           J == {r \in Cells : IsReceipt(outbox[c][r], b, g)}
           K == {i \in DOMAIN queue[b] : queue[b][i] = m}
<1>1. Cardinality(J) <= Cardinality(K)
  BY DEF BoxInv, HaveMail, Receipts, Mails
<1>2. IsFiniteSet(J) /\ J # {}
  BY FS_Subset, DeliveryAssumption
<1> SUFFICES K # {}
  OBVIOUS
<1> HIDE DEF J, K
<1>3. Cardinality(J) \in Nat /\ Cardinality(J) # 0
  BY <1>2, FS_CardinalityType, FS_EmptySet
<1>4. Cardinality({}) = 0
  BY FS_EmptySet
<1> QED BY <1>1, <1>3, <1>4

LEMMA CancelKeeps ==
  ASSUME BoxInv, NEW c \in Chars, NEW s \in Cells, CancelSendingItem(c, s)
  PROVE  BoxInv' /\ Kept
<1> DEFINE old  == outbox[c][s]
           r    == old.to
           item == old.item
           row  == [item |-> old.item, to |-> old.to, sent |-> FALSE, received |-> old.received]
           mail == [item |-> item, from |-> c]
           mails == {i \in DOMAIN queue[r] : queue[r][i] = mail}
<1>1. /\ window[c].box = "out" /\ window[c].cells[s] # None
      /\ old # None /\ old.sent /\ ~old.received
      /\ outbox' = [outbox EXCEPT ![c][s].sent = FALSE]
      /\ window' = [window EXCEPT ![c].cells[s].sent = FALSE]
      /\ UNCHANGED <<alive, bag, purse, inbox, gone, faults>>
  BY DEF CancelSendingItem, Shown, Copied
<1>2. PICK copy \in Copy : /\ copy # None /\ copy.item = window[c].cells[s].item
                           /\ copy.to = window[c].cells[s].to
                           /\ window' = PutCopy(window, c, s, copy)
  <2>1. PICK b \in BOOLEAN : b = FALSE
    OBVIOUS
  <2>2. window' = MarkCopy(window, c, s, b)
    BY <1>1, <2>1 DEF MarkCopy
  <2> QED BY <1>1, <2>2, ShownMarked
<1>3. /\ old \in Outgoing /\ inbox[c][s] \in Mail \cup {None}
      /\ ShowsCell(window[c].box, window[c].cells[s], old, inbox[c][s])
  BY <1>1, RowsTyped
<1>4. window[c].cells[s].item = item /\ window[c].cells[s].to = r /\ item \in Goods /\ r \in Chars
  BY <1>1, <1>3 DEF ShowsCell, Outgoing
<1>5. row \in Outgoing /\ row.item = item /\ row.to = r /\ ~row.sent /\ ~row.received
  BY <1>1, <1>3, <1>4 DEF Outgoing
<1>6. row # None
  BY <1>5, DeliveryAssumption
<1>7. outbox' = PutRow(outbox, c, s, row)
  <2>1. PICK b \in BOOLEAN : b = FALSE
    OBVIOUS
  <2>2. outbox' = MarkRow(outbox, c, s, b)
    BY <1>1, <2>1 DEF MarkRow
  <2> QED BY <1>3, <2>1, <2>2, RowMark
<1>8. \/ mails = {} /\ queue' = queue
      \/ \E i \in mails : queue' = [queue EXCEPT ![r] = RemoveAt(queue[r], i)]
  BY <1>4 DEF CancelSendingItem, Copied
<1> HIDE DEF row
<1>9. CellBecomes(c, s, row, inbox[c][s], copy)
  <2>1. inbox' = PutRow(inbox, c, s, inbox[c][s])
    BY <1>1, InboxKept
  <2> QED BY <1>1, <1>2, <1>3, <1>4, <1>5, <1>7, <2>1 DEF CellBecomes, ShowsCell
<1>10. PICK i \in DOMAIN queue[r] : queue[r][i] = mail /\ queue' = [queue EXCEPT ![r] = RemoveAt(queue[r], i)]
  <2>1. IsReceipt(old, r, item)
    BY <1>1 DEF IsReceipt
  <2>2. \E i \in DOMAIN queue[r] : queue[r][i] = mail
    BY <1>4, <2>1, ReceiptHasMail
  <2> QED BY <1>8, <2>2
<1>11. /\ QueueStep(r) /\ \A k \in Kinds : QueueGain(r, k) = 0 - Amount(item, k)
       /\ \A b \in Chars : \A m : Mails(queue'[b], m) = Mails(queue[b], m) - One(b = r /\ m = mail)
  <2> DEFINE q == RemoveAt(queue[r], i)
  <2>1. queue[r] \in Seq(Mail)
    BY <1>4 DEF BoxInv, BoxTypes, QueueTypes
  <2>2. q \in Seq(Mail) /\ Dropped(q, queue[r], i)
    BY <2>1, RemoveAtDrops
  <2>3. queue' = [queue EXCEPT ![r] = q]
    BY <1>10
  <2>4. queue[r][i] = mail /\ mail.item = item
    BY <1>10
  <2> HIDE DEF q, mail, item, r
  <2>5. /\ QueueStep(r) /\ \A k \in Kinds : QueueGain(r, k) = 0 - Amount(queue[r][i].item, k)
        /\ \A b \in Chars : \A m : Mails(queue'[b], m) = Mails(queue[b], m) - One(b = r /\ m = queue[r][i])
    BY <1>4, <2>2, <2>3, MailGoes
  <2> QED BY <2>4, <2>5
<1>12. MailFollows(c, s, row)
  <2> SUFFICES ASSUME NEW a \in Chars, NEW b \in Chars, NEW g \in Goods
               PROVE  Mails(queue'[b], [item |-> g, from |-> a])
                        >= Mails(queue[b], [item |-> g, from |-> a])
                             + (IF a = c THEN One(IsReceipt(row, b, g)) - One(IsReceipt(old, b, g))
                                ELSE 0)
    BY DEF MailFollows
  <2> DEFINE m == [item |-> g, from |-> a]
             x == One(IsReceipt(row, b, g))
             y == One(IsReceipt(old, b, g))
             z == One(b = r /\ m = mail)
  <2>1. (m = mail) <=> (g = item /\ a = c)
    OBVIOUS
  <2>2. x = 0
    BY <1>5 DEF One, IsReceipt
  <2>3. y = One(b = r /\ g = item) /\ y \in Int
    BY <1>1 DEF One, IsReceipt
  <2> HIDE DEF m, mail
  <2>4. (a = c => z = y) /\ (a # c => z = 0)
    BY <2>1, <2>3 DEF One
  <2>5. Mails(queue'[b], m) = Mails(queue[b], m) - z
    BY <1>11
  <2> HIDE DEF x, y, z
  <2>6. Mails(queue[b], m) \in Nat
    BY MailsIsNat DEF BoxInv, BoxTypes
  <2>7. Mails(queue'[b], m) >= Mails(queue[b], m) + (IF a = c THEN x - y ELSE 0)
    BY <2>2, <2>3, <2>4, <2>5, <2>6
  <2> QED BY <2>7 DEF m, x, y
<1>13. BagStep(c) /\ \A k \in Kinds : BagGain(c, k) = 0
  BY <1>1, BagKept
<1>14. ASSUME NEW k \in Kinds
       PROVE  BagGain(c, k) + (Cell(row, inbox[c][s], k) - Cell(outbox[c][s], inbox[c][s], k))
                + QueueGain(r, k) = gone[k] - gone'[k]
  <2>1. /\ Cell(row, inbox[c][s], k) - Cell(outbox[c][s], inbox[c][s], k)
             = (InOutbox(row, k) - InOutbox(outbox[c][s], k)) + (InInbox(inbox[c][s], k) - InInbox(inbox[c][s], k))
        /\ InOutbox(row, k) \in Nat
        /\ InInbox(inbox[c][s], k) \in Nat
    BY <1>3, <1>5, CellGain
  <2>2. InOutbox(row, k) = Amount(item, k) /\ InOutbox(outbox[c][s], k) = 0
    BY <1>1, <1>5, <1>6 DEF InOutbox
  <2>3. gone[k] \in Int /\ gone' = gone
    BY <1>1 DEF BoxInv
  <2> QED BY <1>11, <1>13, <2>1, <2>2, <2>3
<1>15. alive' = alive /\ gone' \in [Kinds -> Nat] /\ faults' \in 0..MaxFaults
  BY <1>1 DEF BoxInv
<1> QED BY <1>4, <1>9, <1>11, <1>12, <1>13, <1>14, <1>15, HandlerStep

(* A cell of the outgoing box is emptied, and what it held is lost or goes  *)
(* into the bag.                                                            *)
LEMMA OutboxEmptied ==
  ASSUME BoxInv, NEW c \in Chars, NEW s \in Cells, NEW copy \in Copy \cup {None},
         ShowsCell(window[c].box, copy, None, inbox[c][s]),
         window' = PutCopy(window, c, s, copy),
         outbox' = [outbox EXCEPT ![c][s] = None],
         UNCHANGED <<alive, inbox, queue>>, BagStep(c),
         \A k \in Kinds : BagGain(c, k) - InOutbox(outbox[c][s], k) = gone[k] - gone'[k],
         \A k \in Kinds : BagGain(c, k) \in Int,
         gone' \in [Kinds -> Nat], faults' \in 0..MaxFaults
  PROVE  BoxInv' /\ Kept
<1> PICK row : row = None
  OBVIOUS
<1>1. inbox[c][s] \in Mail \cup {None}
  BY RowsTyped
<1>2. CellBecomes(c, s, row, inbox[c][s], copy)
  <2>1. outbox' = PutRow(outbox, c, s, row)
    BY DEF PutRow
  <2>2. inbox' = PutRow(inbox, c, s, inbox[c][s])
    BY InboxKept
  <2> QED BY <1>1, <2>1, <2>2 DEF CellBecomes
<1>3. QueueStep(c) /\ \A k \in Kinds : QueueGain(c, k) = 0
  BY QueuesKept
<1>4. MailFollows(c, s, row)
  <2>1. QueueTypes(queue') /\ queue' = queue
    BY <1>3 DEF QueueStep
  <2>2. \A b \in Chars, g \in Goods : IsReceipt(row, b, g) => IsReceipt(outbox[c][s], b, g)
    BY DEF IsReceipt
  <2> QED BY <2>1, <2>2, QueueSame, NoNewReceipts
<1>5. ASSUME NEW k \in Kinds
      PROVE  BagGain(c, k) + (Cell(row, inbox[c][s], k) - Cell(outbox[c][s], inbox[c][s], k))
               + QueueGain(c, k) = gone[k] - gone'[k]
  <2>1. /\ Cell(row, inbox[c][s], k) - Cell(outbox[c][s], inbox[c][s], k)
             = (InOutbox(row, k) - InOutbox(outbox[c][s], k)) + (InInbox(inbox[c][s], k) - InInbox(inbox[c][s], k))
        /\ InOutbox(outbox[c][s], k) \in Nat
        /\ InInbox(inbox[c][s], k) \in Nat
    BY <1>1, CellGain
  <2>2. InOutbox(row, k) = 0
    BY DEF InOutbox
  <2>3. BagGain(c, k) \in Int /\ BagGain(c, k) - InOutbox(outbox[c][s], k) = gone[k] - gone'[k]
    OBVIOUS
  <2> QED BY <1>3, <2>1, <2>2, <2>3
<1>6. alive' = alive
  OBVIOUS
<1> QED BY <1>2, <1>3, <1>4, <1>5, <1>6, HandlerStep

LEMMA GoneIsInt == ASSUME BoxInv PROVE \A k \in Kinds : gone[k] \in Int
BY DEF BoxInv

LEMMA CancelFailsKeeps ==
  ASSUME BoxInv, NEW c \in Chars, NEW s \in Cells, CancelFails(c, s)
  PROVE  BoxInv' /\ Kept
<1> DEFINE old    == outbox[c][s]
           Stands == old.sent /\ ~old.received /\ Copied(c, s).to \in alive
<1>1. /\ window[c].box = "out" /\ window[c].cells[s] # None /\ old # None
      /\ IF Stands THEN CommitFails ELSE UNCHANGED faults
      /\ window' = [window EXCEPT ![c].cells[s].sent = @ /\ ~Stands]
      /\ outbox' = [outbox EXCEPT ![c][s] = None]
      /\ gone' = IF old.sent THEN gone ELSE Losing(old.item)
      /\ UNCHANGED <<alive, bag, purse, inbox, queue>>
  BY DEF CancelFails, Shown
<1>2. /\ old \in Outgoing /\ old.item \in Goods \cup Sums /\ window[c].cells[s] \in Copy
  <2>1. old \in Outgoing /\ window[c].cells[s] \in Copy
    BY <1>1, RowsTyped
  <2> QED BY <2>1 DEF Outgoing
<1>3. PICK copy \in Copy : window' = PutCopy(window, c, s, copy)
  <2>1. PICK b \in BOOLEAN : b = (window[c].cells[s].sent /\ ~Stands)
    OBVIOUS
  <2>2. window' = MarkCopy(window, c, s, b)
    <3> HIDE DEF Stands
    <3> QED BY <1>1, <2>1 DEF MarkCopy
  <2> QED BY <1>1, <2>2, ShownMarked
<1>4. faults' \in 0..MaxFaults
  <2>1. faults \in 0..MaxFaults
    BY DEF BoxInv
  <2> QED BY <1>1, <2>1, CommitFailsType
<1>5. BagStep(c) /\ \A k \in Kinds : BagGain(c, k) = 0
  BY <1>1, BagKept
<1>6. /\ gone' \in [Kinds -> Nat]
      /\ \A k \in Kinds : gone[k] - gone'[k] = 0 - InOutbox(old, k)
  <2>1. CASE old.sent
    <3>1. gone' = gone /\ gone \in [Kinds -> Nat]
      BY <1>1, <2>1 DEF BoxInv
    <3>2. \A k \in Kinds : InOutbox(old, k) = 0
      BY <2>1 DEF InOutbox
    <3> QED BY <3>1, <3>2
  <2>2. CASE ~old.sent
    <3>1. gone' = Losing(old.item)
      BY <1>1, <2>2
    <3>2. gone' \in [Kinds -> Nat] /\ \A k \in Kinds : gone[k] - gone'[k] = 0 - Amount(old.item, k)
      BY <1>2, <3>1, LosingCounts
    <3>3. \A k \in Kinds : InOutbox(old, k) = Amount(old.item, k)
      BY <1>1, <2>2 DEF InOutbox
    <3> QED BY <3>2, <3>3
  <2> QED BY <2>1, <2>2
<1>7. ShowsCell(window[c].box, copy, None, inbox[c][s])
  BY <1>1 DEF ShowsCell
<1>8. \A k \in Kinds : BagGain(c, k) \in Int /\ BagGain(c, k) - InOutbox(outbox[c][s], k) = gone[k] - gone'[k]
  BY <1>5, <1>6
<1> QED BY <1>1, <1>3, <1>4, <1>5, <1>6, <1>7, <1>8, OutboxEmptied

LEMMA RemoveDeliveredKeeps ==
  ASSUME BoxInv, NEW c \in Chars, RemoveDelivered(c)
  PROVE  BoxInv' /\ Kept
<1> DEFINE marked == {s \in Cells : outbox[c][s] # None /\ outbox[c][s].received}
<1>1. PICK s \in Cells : s = Min(marked) /\ outbox[c][s] # None /\ outbox[c][s].received
  <2>1. marked \in SUBSET Nat /\ marked # {}
    BY DeliveryAssumption DEF RemoveDelivered
  <2>2. \E n \in marked : \A m \in marked : n <= m
    <3> HIDE DEF marked
    <3> QED BY <2>1, LeastNumber
  <2>3. Min(marked) \in marked
    BY <2>2 DEF Min
  <2> QED BY <2>3
<1>2. /\ window[c].box = "out"
      /\ outbox' = [outbox EXCEPT ![c][s] = None]
      /\ window' = PutCopy(window, c, s, None)
      /\ UNCHANGED <<alive, bag, purse, inbox, queue, gone, faults>>
  BY <1>1 DEF RemoveDelivered, PutCopy
<1>3. outbox[c][s].sent
  BY <1>1, RowsTyped
<1>4. PICK copy : copy = None
  OBVIOUS
<1>5. copy \in Copy \cup {None} /\ window' = PutCopy(window, c, s, copy)
      /\ ShowsCell(window[c].box, copy, None, inbox[c][s])
  BY <1>2, <1>4 DEF ShowsCell
<1>6. BagStep(c) /\ \A k \in Kinds : BagGain(c, k) = 0
  BY <1>2, BagKept
<1>7. \A k \in Kinds : BagGain(c, k) \in Int /\ BagGain(c, k) - InOutbox(outbox[c][s], k) = gone[k] - gone'[k]
  <2>1. \A k \in Kinds : InOutbox(outbox[c][s], k) = 0
    BY <1>3 DEF InOutbox
  <2> QED BY <1>2, <1>6, <2>1, GoneIsInt
<1>8. gone' \in [Kinds -> Nat] /\ faults' \in 0..MaxFaults
  BY <1>2 DEF BoxInv
<1> QED BY <1>2, <1>5, <1>6, <1>7, <1>8, OutboxEmptied

(* A cell of the incoming box is emptied: what it held is lost, goes into   *)
(* the bag, or comes into a queue.                                          *)
LEMMA InboxEmptied ==
  ASSUME BoxInv, NEW c \in Chars, NEW s \in Cells, window[c].box = "in",
         window' = PutCopy(window, c, s, None),
         inbox' = [inbox EXCEPT ![c][s] = None],
         UNCHANGED <<alive, outbox>>, BagStep(c), NEW d \in Chars, QueueStep(d),
         \A b \in Chars : \A m : Mails(queue'[b], m) >= Mails(queue[b], m),
         \A k \in Kinds : BagGain(c, k) - InInbox(inbox[c][s], k) + QueueGain(d, k) = gone[k] - gone'[k],
         \A k \in Kinds : BagGain(c, k) \in Int /\ QueueGain(d, k) \in Int,
         gone' \in [Kinds -> Nat], faults' \in 0..MaxFaults
  PROVE  BoxInv' /\ Kept
<1> PICK mail : mail = None
  OBVIOUS
<1>1. /\ outbox[c][s] \in Outgoing \cup {None}
      /\ outbox[c][s] # None /\ outbox[c][s].received => outbox[c][s].sent
  BY RowsTyped
<1>2. CellBecomes(c, s, outbox[c][s], mail, mail)
  <2>1. inbox' = PutRow(inbox, c, s, mail)
    BY DEF PutRow
  <2>2. outbox' = PutRow(outbox, c, s, outbox[c][s])
    BY OutboxKept
  <2> QED BY <1>1, <2>1, <2>2 DEF CellBecomes, ShowsCell
<1>3. MailFollows(c, s, outbox[c][s])
  <2>1. QueueTypes(queue')
    BY DEF QueueStep
  <2> QED BY <2>1, NoNewReceipts
<1>4. ASSUME NEW k \in Kinds
      PROVE  BagGain(c, k) + (Cell(outbox[c][s], mail, k) - Cell(outbox[c][s], inbox[c][s], k))
               + QueueGain(d, k) = gone[k] - gone'[k]
  <2>1. /\ Cell(outbox[c][s], mail, k) - Cell(outbox[c][s], inbox[c][s], k)
             = (InOutbox(outbox[c][s], k) - InOutbox(outbox[c][s], k)) + (InInbox(mail, k) - InInbox(inbox[c][s], k))
        /\ InOutbox(outbox[c][s], k) \in Nat
        /\ InInbox(inbox[c][s], k) \in Nat
    BY <1>1, CellGain
  <2>2. InInbox(mail, k) = 0
    BY DEF InInbox
  <2>3. /\ BagGain(c, k) \in Int /\ QueueGain(d, k) \in Int
        /\ BagGain(c, k) - InInbox(inbox[c][s], k) + QueueGain(d, k) = gone[k] - gone'[k]
    OBVIOUS
  <2> QED BY <2>1, <2>2, <2>3
<1>5. alive' = alive
  OBVIOUS
<1> QED BY <1>2, <1>3, <1>4, <1>5, HandlerStep

(* What is shown of the incoming box.                                       *)
LEMMA ShownMail ==
  ASSUME BoxInv, NEW c \in Chars, NEW s \in Cells, Shown(c, "in", s), inbox[c][s] # None
  PROVE  /\ window[c].box = "in" /\ inbox[c][s] \in Mail
         /\ Copied(c, s).item = inbox[c][s].item /\ inbox[c][s].item \in Goods \cup Sums
         /\ inbox[c][s].from \in Chars \cup {None}
         /\ \A k \in Kinds : InInbox(inbox[c][s], k) = Amount(inbox[c][s].item, k)
         /\ \A k \in Kinds : Amount(inbox[c][s].item, k) \in Nat
<1>1. inbox[c][s] \in Mail
  BY RowsTyped
<1>2. ShowsCell(window[c].box, window[c].cells[s], outbox[c][s], inbox[c][s])
  BY RowsTyped
<1>3. inbox[c][s].item \in Goods \cup Sums /\ inbox[c][s].from \in Chars \cup {None}
  BY <1>1 DEF Mail
<1>4. window[c].box = "in" /\ Copied(c, s).item = inbox[c][s].item
  BY <1>2 DEF Shown, Copied, ShowsCell
<1>5. \A k \in Kinds : InInbox(inbox[c][s], k) = Amount(inbox[c][s].item, k)
  BY DEF InInbox
<1>6. \A k \in Kinds : Amount(inbox[c][s].item, k) \in Nat
  BY <1>3, AmountType
<1> QED BY <1>1, <1>3, <1>4, <1>5, <1>6

LEMMA RemoveKeeps ==
  ASSUME BoxInv, NEW c \in Chars, NEW s \in Cells, RemoveItemFromCell(c, s)
  PROVE  BoxInv' /\ Kept
<1>1. /\ Shown(c, "in", s) /\ inbox[c][s] # None
      /\ inbox' = [inbox EXCEPT ![c][s] = None]
      /\ gone' = Losing(inbox[c][s].item)
      /\ window' = PutCopy(window, c, s, None)
      /\ UNCHANGED <<alive, bag, purse, outbox, queue, faults>>
  BY DEF RemoveItemFromCell, PutCopy
<1> DEFINE item == inbox[c][s].item
<1>2. window[c].box = "in" /\ item \in Goods \cup Sums
      /\ \A k \in Kinds : InInbox(inbox[c][s], k) = Amount(item, k) /\ Amount(item, k) \in Nat
  BY <1>1, ShownMail
<1>3. gone' \in [Kinds -> Nat] /\ \A k \in Kinds : gone[k] - gone'[k] = 0 - Amount(item, k)
  BY <1>1, <1>2, LosingCounts
<1>4. BagStep(c) /\ \A k \in Kinds : BagGain(c, k) = 0
  BY <1>1, BagKept
<1>5. QueueStep(c) /\ \A k \in Kinds : QueueGain(c, k) = 0
  BY <1>1, QueuesKept
<1>6. \A b \in Chars : \A m : Mails(queue'[b], m) >= Mails(queue[b], m)
  BY <1>1, QueueSame
<1>7. /\ \A k \in Kinds : BagGain(c, k) - InInbox(inbox[c][s], k) + QueueGain(c, k) = gone[k] - gone'[k]
      /\ \A k \in Kinds : BagGain(c, k) \in Int /\ QueueGain(c, k) \in Int
  BY <1>2, <1>3, <1>4, <1>5
<1>8. faults' \in 0..MaxFaults
  BY <1>1 DEF BoxInv
<1> QED BY <1>1, <1>2, <1>3, <1>4, <1>5, <1>6, <1>7, <1>8, InboxEmptied

LEMMA TakeKeeps ==
  ASSUME BoxInv, NEW c \in Chars, NEW s \in Cells, TakeItemFromCell(c, s)
  PROVE  BoxInv' /\ Kept
<1>1. /\ Gaining(c, Copied(c, s).item)
      /\ window' = PutCopy(window, c, s, None)
      /\ UNCHANGED <<alive, queue, gone, faults>>
  BY DEF TakeItemFromCell, PutCopy
<1>2. gone' \in [Kinds -> Nat] /\ faults' \in 0..MaxFaults /\ \A k \in Kinds : gone[k] \in Int
  BY <1>1 DEF BoxInv
<1>3. CASE Shown(c, "in", s) /\ inbox[c][s] # None /\ inbox' = [inbox EXCEPT ![c][s] = None] /\ UNCHANGED outbox
  <2> DEFINE item == inbox[c][s].item
  <2>1. window[c].box = "in" /\ item \in Goods \cup Sums /\ Copied(c, s).item = item
        /\ \A k \in Kinds : InInbox(inbox[c][s], k) = Amount(item, k) /\ Amount(item, k) \in Nat
    BY <1>3, ShownMail
  <2>2. BagStep(c) /\ \A k \in Kinds : BagGain(c, k) = Amount(item, k)
    BY <1>1, <2>1, GainingGives
  <2>3. QueueStep(c) /\ \A k \in Kinds : QueueGain(c, k) = 0
    BY <1>1, QueuesKept
  <2>4. \A b \in Chars : \A m : Mails(queue'[b], m) >= Mails(queue[b], m)
    BY <1>1, QueueSame
  <2>5. /\ \A k \in Kinds : BagGain(c, k) - InInbox(inbox[c][s], k) + QueueGain(c, k) = gone[k] - gone'[k]
        /\ \A k \in Kinds : BagGain(c, k) \in Int /\ QueueGain(c, k) \in Int
    BY <1>1, <1>2, <2>1, <2>2, <2>3
  <2> QED BY <1>1, <1>2, <1>3, <2>1, <2>2, <2>3, <2>4, <2>5, InboxEmptied
<1>4. CASE Shown(c, "out", s) /\ outbox[c][s] # None /\ ~outbox[c][s].sent
             /\ outbox' = [outbox EXCEPT ![c][s] = None] /\ UNCHANGED inbox
  <2> DEFINE old  == outbox[c][s]
             item == old.item
  <2>1. old \in Outgoing /\ ShowsCell(window[c].box, window[c].cells[s], old, inbox[c][s])
    BY <1>4, RowsTyped
  <2>2. item \in Goods \cup Sums /\ Copied(c, s).item = item
    BY <1>4, <2>1 DEF Outgoing, ShowsCell, Shown, Copied
  <2>3. \A k \in Kinds : InOutbox(old, k) = Amount(item, k) /\ Amount(item, k) \in Nat
    BY <1>4, <2>2, AmountType DEF InOutbox
  <2>4. BagStep(c) /\ \A k \in Kinds : BagGain(c, k) = Amount(item, k)
    BY <1>1, <2>2, GainingGives
  <2>5. \A k \in Kinds : BagGain(c, k) \in Int /\ BagGain(c, k) - InOutbox(old, k) = gone[k] - gone'[k]
    BY <1>1, <1>2, <2>3, <2>4
  <2>6. PICK copy : copy = None
    OBVIOUS
  <2>7. copy \in Copy \cup {None} /\ window' = PutCopy(window, c, s, copy)
        /\ ShowsCell(window[c].box, copy, None, inbox[c][s])
    BY <1>1, <2>6 DEF ShowsCell
  <2> QED BY <1>1, <1>2, <1>4, <2>4, <2>5, <2>7, OutboxEmptied
<1> QED BY <1>3, <1>4 DEF TakeItemFromCell

LEMMA ReturnKeeps ==
  ASSUME BoxInv, NEW c \in Chars, NEW s \in Cells, ReturnToSender(c, s)
  PROVE  BoxInv' /\ Kept
<1> DEFINE item == inbox[c][s].item
           d    == inbox[c][s].from
<1>1. /\ Shown(c, "in", s) /\ inbox[c][s] # None /\ d # None
      /\ window' = PutCopy(window, c, s, None)
      /\ UNCHANGED <<alive, bag, purse, outbox, gone>>
  BY DEF ReturnToSender, PutCopy
<1>2. window[c].box = "in" /\ item \in Goods \cup Sums /\ Copied(c, s).item = item /\ d \in Chars
      /\ \A k \in Kinds : InInbox(inbox[c][s], k) = Amount(item, k) /\ Amount(item, k) \in Nat
  BY <1>1, ShownMail
<1>3. gone' \in [Kinds -> Nat] /\ \A k \in Kinds : gone[k] \in Int
  BY <1>1 DEF BoxInv
<1>4. CASE queue' = Posted(d, Copied(c, s).item, c) /\ inbox' = [inbox EXCEPT ![c][s] = None] /\ UNCHANGED faults
  <2>1. queue' = Posted(d, item, c)
    BY <1>2, <1>4
  <2> HIDE DEF item, d
  <2>2. /\ QueueStep(d) /\ \A k \in Kinds : QueueGain(d, k) = Amount(item, k)
        /\ \A b \in Chars : \A m : Mails(queue'[b], m)
             = Mails(queue[b], m) + One(b = d /\ m = [item |-> item, from |-> c])
    BY <1>2, <2>1, PostedComes
  <2>3. \A b \in Chars : \A m : Mails(queue'[b], m) >= Mails(queue[b], m)
    <3>1. \A b \in Chars : \A m : Mails(queue[b], m) \in Nat
      BY MailsIsNat DEF BoxInv, BoxTypes
    <3> QED BY <2>2, <3>1 DEF One
  <2>4. BagStep(c) /\ \A k \in Kinds : BagGain(c, k) = 0
    BY <1>1, BagKept
  <2>5. /\ \A k \in Kinds : BagGain(c, k) - InInbox(inbox[c][s], k) + QueueGain(d, k) = gone[k] - gone'[k]
        /\ \A k \in Kinds : BagGain(c, k) \in Int /\ QueueGain(d, k) \in Int
    BY <1>1, <1>2, <1>3, <2>2, <2>4
  <2>6. faults' \in 0..MaxFaults
    BY <1>4 DEF BoxInv
  <2> QED BY <1>1, <1>2, <1>3, <1>4, <2>2, <2>3, <2>4, <2>5, <2>6, InboxEmptied
<1>5. CASE CommitFails /\ UNCHANGED <<queue, inbox>>
  <2>1. faults' \in 0..MaxFaults
    BY <1>5, CommitFailsType
  <2>2. PICK copy : copy = None
    OBVIOUS
  <2>3. copy \in Copy \cup {None} /\ window' = PutCopy(window, c, s, copy)
        /\ ShowsCell(window[c].box, copy, outbox[c][s], inbox[c][s])
    BY <1>1, <2>2 DEF ShowsCell
  <2>4. UNCHANGED <<alive, bag, purse, outbox, inbox, queue, gone>>
    BY <1>1, <1>5
  <2> QED BY <2>1, <2>3, <2>4, CopyStep
<1> QED BY <1>4, <1>5 DEF ReturnToSender

(* Rows that are the same but for marks weigh and show the same.            *)
SameButMarks(ob, oc) ==
  \A d \in Chars, r \in Cells :
    /\ (oc[d][r] = None) <=> (ob[d][r] = None)
    /\ oc[d][r] # None => /\ oc[d][r].item = ob[d][r].item /\ oc[d][r].to = ob[d][r].to
                          /\ oc[d][r].sent <=> ob[d][r].sent

LEMMA MarksWeighNothing ==
  ASSUME NEW ob, NEW oc, NEW ib, SameButMarks(ob, oc), NEW bg, NEW pu, NEW qu,
         BoxTypes(bg, pu, ob, ib, qu), BoxTypes(bg, pu, oc, ib, qu), NEW k \in Kinds
  PROVE  Total(bg, pu, oc, ib, qu, k) = Total(bg, pu, ob, ib, qu, k)
<1>1. ASSUME NEW d \in Chars PROVE InCells(oc[d], ib[d], k) = InCells(ob[d], ib[d], k)
  <2>1. ASSUME NEW r \in Cells PROVE Cell(oc[d][r], ib[d][r], k) = Cell(ob[d][r], ib[d][r], k)
    BY DEF SameButMarks, Cell
  <2>2. [r \in Cells |-> Cell(oc[d][r], ib[d][r], k)] = [r \in Cells |-> Cell(ob[d][r], ib[d][r], k)]
    BY <2>1
  <2> QED BY <2>2 DEF InCells
<1>2. InBoxes(oc, ib, k) = InBoxes(ob, ib, k)
  BY <1>1 DEF InBoxes
<1>3. /\ Total(bg, pu, ob, ib, qu, k)
           = Sum(InBags(bg, pu, k), Chars) + Sum(InBoxes(ob, ib, k), Chars) + Sum(InQueues(qu, k), Chars)
      /\ Total(bg, pu, oc, ib, qu, k)
           = Sum(InBags(bg, pu, k), Chars) + Sum(InBoxes(oc, ib, k), Chars) + Sum(InQueues(qu, k), Chars)
  BY TotalIs
<1> QED BY <1>2, <1>3

(* One receipt of the sender is marked, or there was none.                  *)
OneMarked(mail, c, oc) ==
  LET a == mail.from
  IN  \/ /\ oc = outbox
         /\ a # None => \A r \in Cells : ~IsReceipt(outbox[a][r], c, mail.item)
      \/ /\ a # None
         /\ \E r \in Cells : /\ IsReceipt(outbox[a][r], c, mail.item)
                             /\ oc = [outbox EXCEPT ![a][r].received = TRUE]

LEMMA MarkedIsOne ==
  ASSUME NEW mail, NEW c, NEW oc \in Marked(mail, c) PROVE OneMarked(mail, c, oc)
BY DEF Marked, OneMarked, IsReceipt

MarkReceived(f, c, s, b) == [f EXCEPT ![c][s].received = b]

LEMMA ReceivedIs ==
  ASSUME NEW o \in Outgoing, NEW b
  PROVE  [o EXCEPT !.received = b] = [item |-> o.item, to |-> o.to, sent |-> o.sent, received |-> b]
BY DEF Outgoing

LEMMA ReceivedPut ==
  ASSUME NEW f, NEW c \in Chars, NEW s \in Cells, f[c][s] \in Outgoing, NEW b
  PROVE  MarkReceived(f, c, s, b)
           = PutRow(f, c, s, [item |-> f[c][s].item, to |-> f[c][s].to, sent |-> f[c][s].sent,
                              received |-> b])
<1> DEFINE o == f[c][s]
           x == [o EXCEPT !.received = b]
<1>1. x = [item |-> o.item, to |-> o.to, sent |-> o.sent, received |-> b]
  BY ReceivedIs
<1>2. MarkReceived(f, c, s, b) = PutRow(f, c, s, x)
  BY DEF PutRow, MarkReceived
<1> QED BY <1>1, <1>2

(* What marking a receipt does to the rows.                                 *)
LEMMA MarkingKeeps ==
  ASSUME BoxInv, NEW mail \in Mail, NEW c \in Chars, NEW oc, OneMarked(mail, c, oc)
  PROVE  /\ RowTypes(oc, inbox) /\ SameButMarks(outbox, oc) /\ MarkedWereSent(oc)
         /\ \A a \in Chars, b \in Chars, g \in Goods :
              /\ Receipts(oc[a], b, g) <= Receipts(outbox[a], b, g)
              /\ mail = [item |-> g, from |-> a] /\ b = c =>
                   Receipts(oc[a], b, g) = 0 \/ Receipts(oc[a], b, g) + 1 = Receipts(outbox[a], b, g)
<1> DEFINE e == mail.from
<1>1. e \in Chars \cup {None}
  BY DEF Mail
<1>2. RowTypes(outbox, inbox) /\ MarkedWereSent(outbox)
  BY DEF BoxInv, BoxTypes
<1>3. \A a \in Chars, b \in Chars, g \in Goods : Receipts(outbox[a], b, g) \in Nat
  BY ReceiptsIsNat
<1>4. CASE oc = outbox /\ (e # None => \A r \in Cells : ~IsReceipt(outbox[e][r], c, mail.item))
  <2>1. SameButMarks(outbox, oc)
    BY <1>4 DEF SameButMarks
  <2>2. ASSUME NEW a \in Chars, NEW b \in Chars, NEW g \in Goods,
               mail = [item |-> g, from |-> a], b = c
        PROVE  Receipts(oc[a], b, g) = 0
    <3>1. a = e /\ a # None /\ g = mail.item
      BY <2>2, DeliveryAssumption
    <3>2. {r \in Cells : IsReceipt(oc[a][r], b, g)} = {}
      BY <1>4, <2>2, <3>1
    <3> QED BY <3>2, FS_EmptySet DEF Receipts
  <2> QED BY <1>2, <1>3, <1>4, <2>1, <2>2
<1>5. ASSUME NEW r \in Cells, e # None, IsReceipt(outbox[e][r], c, mail.item),
             oc = [outbox EXCEPT ![e][r].received = TRUE]
      PROVE  /\ RowTypes(oc, inbox) /\ SameButMarks(outbox, oc) /\ MarkedWereSent(oc)
             /\ \A a \in Chars, b \in Chars, g \in Goods :
                  /\ Receipts(oc[a], b, g) <= Receipts(outbox[a], b, g)
                  /\ mail = [item |-> g, from |-> a] /\ b = c =>
                       Receipts(oc[a], b, g) = 0 \/ Receipts(oc[a], b, g) + 1 = Receipts(outbox[a], b, g)
  <2> DEFINE old == outbox[e][r]
             row == [item |-> old.item, to |-> old.to, sent |-> old.sent, received |-> TRUE]
             V   == Outgoing \cup {None}
  <2>1. e \in Chars /\ old \in Outgoing /\ old # None /\ old.sent /\ ~old.received
    <3>1. e \in Chars
      BY <1>1, <1>5
    <3>2. old \in Outgoing \cup {None} /\ old # None /\ old.sent /\ ~old.received
      BY <1>5, <3>1, RowsTyped DEF IsReceipt
    <3> QED BY <3>1, <3>2
  <2>2. oc = PutRow(outbox, e, r, row)
    <3>1. PICK b \in BOOLEAN : b = TRUE
      OBVIOUS
    <3>2. oc = MarkReceived(outbox, e, r, b)
      BY <1>5, <3>1 DEF MarkReceived
    <3> QED BY <2>1, <3>1, <3>2, ReceivedPut
  <2>3. row \in Outgoing /\ row.item = old.item /\ row.to = old.to /\ row.sent /\ row.received
    BY <2>1 DEF Outgoing
  <2>4. row # None /\ row \in V
    BY <2>3, DeliveryAssumption
  <2> HIDE DEF row, e
  <2>5. outbox \in [Chars -> [Cells -> V]]
    BY <1>2 DEF RowTypes
  <2> HIDE DEF V
  <2>6. /\ oc \in [Chars -> [Cells -> V]]
        /\ \A d \in Chars, t \in Cells : oc[d][t] = IF d = e /\ t = r THEN row ELSE outbox[d][t]
    <3>1. /\ PutRow(outbox, e, r, row) \in [Chars -> [Cells -> V]]
          /\ \A d \in Chars, t \in Cells :
               PutRow(outbox, e, r, row)[d][t] = IF d = e /\ t = r THEN row ELSE outbox[d][t]
      BY <2>1, <2>4, <2>5 DEF PutRow
    <3> QED BY <2>2, <3>1
  <2>7. RowTypes(oc, inbox)
    BY <1>2, <2>6 DEF RowTypes, V
  <2>8. SameButMarks(outbox, oc)
    BY <2>1, <2>3, <2>4, <2>6 DEF SameButMarks
  <2>9. MarkedWereSent(oc)
    BY <1>2, <2>3, <2>6 DEF MarkedWereSent
  <2>10. ASSUME NEW a \in Chars, NEW b \in Chars, NEW g \in Goods
         PROVE  /\ Receipts(oc[a], b, g) <= Receipts(outbox[a], b, g)
                /\ mail = [item |-> g, from |-> a] /\ b = c =>
                     Receipts(oc[a], b, g) + 1 = Receipts(outbox[a], b, g)
    <3>1. CASE a = e
      <4>a. PICK p : p = oc[e]
        OBVIOUS
      <4>b. PICK o : o = outbox[e]
        OBVIOUS
      <4>1. \A x \in Cells : x # r => p[x] = o[x]
        BY <2>1, <2>6, <4>a, <4>b
      <4>2. p[r] = row /\ o[r] = old
        BY <2>1, <2>6, <4>a, <4>b
      <4>3. Receipts(p, b, g) = Receipts(o, b, g) + One(IsReceipt(p[r], b, g)) - One(IsReceipt(o[r], b, g))
        <5>1. PICK k : k = r
          OBVIOUS
        <5>2. k \in Cells
          BY <5>1
        <5>3. \A x \in Cells : x # k => p[x] = o[x]
          BY <4>1, <5>1
        <5>4. Receipts(p, b, g) = Receipts(o, b, g) + One(IsReceipt(p[k], b, g)) - One(IsReceipt(o[k], b, g))
          BY <5>2, <5>3, ReceiptsChange
        <5> QED BY <5>1, <5>4
      <4>4. One(IsReceipt(p[r], b, g)) = 0
        BY <2>3, <4>2 DEF One, IsReceipt
      <4>5. One(IsReceipt(o[r], b, g)) \in {0, 1}
        BY DEF One
      <4>6. mail = [item |-> g, from |-> a] /\ b = c => One(IsReceipt(o[r], b, g)) = 1
        <5> SUFFICES ASSUME mail = [item |-> g, from |-> a], b = c PROVE IsReceipt(o[r], b, g)
          BY DEF One
        <5>1. g = mail.item
          OBVIOUS
        <5> QED BY <1>5, <4>2, <5>1 DEF e
      <4>7. Receipts(o, b, g) \in Nat
        BY ReceiptsIsNat
      <4>8. /\ Receipts(p, b, g) <= Receipts(o, b, g)
            /\ mail = [item |-> g, from |-> a] /\ b = c => Receipts(p, b, g) + 1 = Receipts(o, b, g)
        BY <4>3, <4>4, <4>5, <4>6, <4>7
      <4> QED BY <3>1, <4>8, <4>a, <4>b
    <3>2. CASE a # e
      <4>1. \A t \in Cells : IsReceipt(oc[a][t], b, g) = IsReceipt(outbox[a][t], b, g)
        BY <2>6, <3>2
      <4>2. Receipts(oc[a], b, g) = Receipts(outbox[a], b, g)
        BY <4>1, ReceiptsSame
      <4>3. mail # [item |-> g, from |-> a]
        BY <3>2 DEF e
      <4> QED BY <1>3, <4>2, <4>3
    <3> QED BY <3>1, <3>2
  <2> QED BY <2>7, <2>8, <2>9, <2>10
<1> QED BY <1>4, <1>5 DEF OneMarked

LEMMA NewItemKeeps ==
  ASSUME BoxInv, NEW c \in Chars, NEW s \in Cells, SendNewItems(c, s)
  PROVE  BoxInv' /\ Kept
<1> DEFINE mail == queue[c][1]
           copy == [item |-> mail.item, to |-> None, sent |-> FALSE]
           q    == Tail(queue[c])
<1>1. queue \in [Chars -> Seq(Mail)] /\ queue[c] \in Seq(Mail) /\ queue[c] # <<>>
  BY DEF BoxInv, BoxTypes, QueueTypes, SendNewItems
<1>2. Head(queue[c]) = mail /\ 1 \in DOMAIN queue[c] /\ q \in Seq(Mail) /\ Dropped(q, queue[c], 1)
  BY <1>1, TailDrops
<1>3. mail \in Mail /\ mail # None
  <2>1. mail \in Mail
    BY <1>1, <1>2, LenProperties
  <2> QED BY <2>1, DeliveryAssumption
<1>4. copy \in Copy /\ copy.item = mail.item
  BY <1>3 DEF Copy, Mail
<1>5. /\ window[c].box = "in" /\ inbox[c][s] = None
      /\ window' = PutCopy(window, c, s, copy)
      /\ \/ /\ outbox' \in Marked(mail, c) /\ inbox' = PutRow(inbox, c, s, mail)
            /\ queue' = [queue EXCEPT ![c] = q] /\ faults' = faults
         \/ CommitFails /\ UNCHANGED <<outbox, inbox, queue>>
      /\ UNCHANGED <<alive, bag, purse, gone>>
  BY <1>2 DEF SendNewItems, PutCopy, PutRow
<1> HIDE DEF copy, q
<1>6. CASE CommitFails /\ UNCHANGED <<outbox, inbox, queue>>
  <2>1. faults' \in 0..MaxFaults
    BY <1>6, CommitFailsType
  <2>2. ShowsCell(window[c].box, copy, outbox[c][s], inbox[c][s])
    BY <1>5 DEF ShowsCell
  <2> QED BY <1>4, <1>5, <1>6, <2>1, <2>2, CopyStep
<1>7. CASE /\ outbox' \in Marked(mail, c) /\ inbox' = PutRow(inbox, c, s, mail)
           /\ queue' = [queue EXCEPT ![c] = q] /\ faults' = faults
  <2>1. /\ QueueStep(c) /\ \A k \in Kinds : QueueGain(c, k) = 0 - Amount(mail.item, k)
        /\ \A b \in Chars : \A m : Mails(queue'[b], m) = Mails(queue[b], m) - One(b = c /\ m = mail)
    <3>1. PICK i \in DOMAIN queue[c] : i = 1
      BY <1>2
    <3>2. /\ QueueStep(c) /\ \A k \in Kinds : QueueGain(c, k) = 0 - Amount(queue[c][i].item, k)
          /\ \A b \in Chars : \A m : Mails(queue'[b], m) = Mails(queue[b], m) - One(b = c /\ m = queue[c][i])
      <4>1. Dropped(q, queue[c], i)
        BY <1>2, <3>1
      <4> QED BY <1>2, <1>7, <4>1, MailGoes
    <3> QED BY <3>1, <3>2
  <2>2. /\ RowTypes(outbox', inbox) /\ SameButMarks(outbox, outbox') /\ MarkedWereSent(outbox')
        /\ \A a \in Chars, b \in Chars, g \in Goods :
             /\ Receipts(outbox'[a], b, g) <= Receipts(outbox[a], b, g)
             /\ mail = [item |-> g, from |-> a] /\ b = c =>
                  Receipts(outbox'[a], b, g) = 0 \/ Receipts(outbox'[a], b, g) + 1 = Receipts(outbox[a], b, g)
    <3> HIDE DEF mail
    <3>1. PICK oc : oc = outbox'
      OBVIOUS
    <3>2. OneMarked(mail, c, oc)
      BY <1>7, <3>1, MarkedIsOne
    <3> QED BY <1>3, <3>1, <3>2, MarkingKeeps
  <2> HIDE DEF mail
  <2>3. HaveMail(outbox', queue')
    <3> SUFFICES ASSUME NEW a \in Chars, NEW b \in Chars, NEW g \in Goods
                 PROVE  Receipts(outbox'[a], b, g) <= Mails(queue'[b], [item |-> g, from |-> a])
      BY DEF HaveMail
    <3> DEFINE m == [item |-> g, from |-> a]
               x == Receipts(outbox[a], b, g)
               y == Receipts(outbox'[a], b, g)
               z == One(b = c /\ m = mail)
    <3>1. x <= Mails(queue[b], m)
      BY DEF BoxInv, HaveMail
    <3>2. Mails(queue'[b], m) = Mails(queue[b], m) - z
      BY <2>1
    <3>3. y <= x /\ (mail = m /\ b = c => y = 0 \/ y + 1 = x)
      BY <2>2
    <3>4. x \in Nat /\ y \in Nat
      BY ReceiptsIsNat
    <3>5. z = IF mail = m /\ b = c THEN 1 ELSE 0
      BY DEF One
    <3> HIDE DEF m, x, y, z
    <3>6. Mails(queue[b], m) \in Nat /\ Mails(queue'[b], m) \in Nat
      <4>1. QueueTypes(queue) /\ QueueTypes(queue')
        BY <2>1 DEF BoxInv, BoxTypes, QueueStep
      <4> QED BY <4>1, MailsIsNat
    <3>7. y <= Mails(queue'[b], m)
      BY <3>1, <3>2, <3>3, <3>4, <3>5, <3>6
    <3> QED BY <3>7 DEF m, y
  <2>4. /\ inbox' \in [Chars -> [Cells -> Mail \cup {None}]]
        /\ \A d \in Chars, r \in Cells : inbox'[d][r] = IF d = c /\ r = s THEN mail ELSE inbox[d][r]
    <3> DEFINE V == Mail \cup {None}
    <3>1. inbox \in [Chars -> [Cells -> V]] /\ mail \in V
      BY <1>3 DEF BoxInv, BoxTypes, RowTypes
    <3> HIDE DEF V
    <3>2. /\ PutRow(inbox, c, s, mail) \in [Chars -> [Cells -> V]]
          /\ \A d \in Chars, r \in Cells :
               PutRow(inbox, c, s, mail)[d][r] = IF d = c /\ r = s THEN mail ELSE inbox[d][r]
      BY <3>1 DEF PutRow
    <3> QED BY <1>7, <3>2 DEF V
  <2>5. /\ window' \in [Chars -> Window] /\ \A d \in Chars : window'[d].box = window[d].box
        /\ \A d \in Chars, r \in Cells :
             window'[d].cells[r] = IF d = c /\ r = s THEN copy ELSE window[d].cells[r]
    <3>1. window \in [Chars -> Window] /\ copy \in Copy \cup {None}
      BY <1>4 DEF BoxInv
    <3>2. /\ PutCopy(window, c, s, copy) \in [Chars -> Window]
          /\ \A d \in Chars : PutCopy(window, c, s, copy)[d].box = window[d].box
          /\ \A d \in Chars, r \in Cells :
               PutCopy(window, c, s, copy)[d].cells[r]
                 = IF d = c /\ r = s THEN copy ELSE window[d].cells[r]
      BY <3>1, CopyPut
    <3> QED BY <1>5, <3>2
  <2>6. Shows(window', outbox', inbox')
    <3>1. ASSUME NEW d \in Chars, NEW r \in Cells
          PROVE  ShowsCell(window'[d].box, window'[d].cells[r], outbox'[d][r], inbox'[d][r])
      <4>1. CASE d = c /\ r = s
        BY <1>4, <1>5, <2>4, <2>5, <4>1 DEF ShowsCell
      <4>2. CASE ~ (d = c /\ r = s)
        <5>1. ShowsCell(window[d].box, window[d].cells[r], outbox[d][r], inbox[d][r])
          BY DEF BoxInv, Shows, ShowsCell
        <5> QED BY <2>2, <2>4, <2>5, <4>2, <5>1 DEF SameButMarks, ShowsCell
      <4> QED BY <4>1, <4>2
    <3> QED BY <3>1 DEF Shows, ShowsCell
  <2>7. BagTypes(bag', purse') /\ Fits(bag') /\ QueueTypes(queue') /\ RowTypes(outbox', inbox')
    BY <1>5, <2>1, <2>2, <2>4 DEF BoxInv, BoxTypes, RowTypes, QueueStep
  <2>8. BoxInv'
    BY <1>5, <1>7, <2>2, <2>3, <2>5, <2>6, <2>7 DEF BoxInv, BoxTypes
  <2>9. /\ BoxTypes(bag, purse, outbox, inbox, queue) /\ BoxTypes(bag, purse, outbox', inbox, queue)
        /\ BoxTypes(bag', purse', outbox', inbox', queue')
    BY <2>2, <2>7 DEF BoxInv, BoxTypes
  <2>10. ASSUME NEW k \in Kinds
         PROVE  Total(bag', purse', outbox', inbox', queue', k) + gone'[k]
                  = Total(bag, purse, outbox, inbox, queue, k) + gone[k]
    <3>1. Total(bag, purse, outbox', inbox, queue, k) = Total(bag, purse, outbox, inbox, queue, k)
      BY <2>2, <2>9, MarksWeighNothing
    <3> DEFINE x == InBag(bag'[c], purse'[c], k) - InBag(bag[c], purse[c], k)
               y == Cell(outbox'[c][s], inbox'[c][s], k) - Cell(outbox'[c][s], inbox[c][s], k)
               z == SeqSum(queue'[c], Weights(k)) - SeqSum(queue[c], Weights(k))
    <3>2. SameBagsBut(bag, purse, bag', purse', c) /\ SameQueuesBut(queue, queue', c)
          /\ SameRowsBut(outbox', inbox, outbox', inbox', c, s)
      BY <1>5, <2>1, <2>4 DEF SameBagsBut, SameRowsBut, QueueStep
    <3>3. Total(bag', purse', outbox', inbox', queue', k)
            = Total(bag, purse, outbox', inbox, queue, k) + x + y + z
      BY <2>9, <3>2, OneOfEach
    <3>4. z = 0 - Amount(mail.item, k) /\ Amount(mail.item, k) \in Nat
      <4>1. mail.item \in Goods \cup Sums
        BY <1>3 DEF Mail
      <4> QED BY <2>1, <4>1, AmountType DEF QueueGain
    <3>5. x = 0
      <4>1. BagGain(c, k) = 0
        BY <1>5, BagKept
      <4> QED BY <4>1 DEF BagGain
    <3>6. y = Amount(mail.item, k)
      <4> PICK o : o = outbox'[c][s]
        OBVIOUS
      <4>1. o \in Outgoing \cup {None}
        BY <2>2 DEF RowTypes
      <4> PICK none : none = None
        OBVIOUS
      <4>2. Cell(o, mail, k) = InOutbox(o, k) + InInbox(mail, k) /\ InOutbox(o, k) \in Nat
        BY <1>3, <4>1, CellIs
      <4>3. Cell(o, none, k) = InOutbox(o, k) + InInbox(none, k)
        BY <4>1, CellIs
      <4>4. InInbox(mail, k) = Amount(mail.item, k) /\ InInbox(none, k) = 0
        BY <1>3 DEF InInbox
      <4>5. inbox'[c][s] = mail /\ inbox[c][s] = none
        BY <1>5, <2>4
      <4> QED BY <3>4, <4>2, <4>3, <4>4, <4>5
    <3>7. Total(bag, purse, outbox, inbox, queue, k) \in Int
      BY <2>9, TotalType
    <3> HIDE DEF x, y, z
    <3>8. Total(bag', purse', outbox', inbox', queue', k) = Total(bag, purse, outbox, inbox, queue, k)
      BY <3>1, <3>3, <3>4, <3>5, <3>6, <3>7
    <3> QED BY <1>5, <3>8
  <2> QED BY <2>8, <2>10 DEF Kept
<1> QED BY <1>5, <1>6, <1>7

LEMMA BoxNextKeeps == ASSUME BoxInv, BoxNext PROVE BoxInv' /\ Kept
<1>1. ASSUME NEW c \in Chars, NEW box \in {"out", "in"}, Open(c, box) PROVE BoxInv' /\ Kept
  <2>1. box \in {"none", "out", "in"}
    OBVIOUS
  <2> QED BY <1>1, <2>1, WindowCleared DEF Open
<1>2. ASSUME NEW c \in Chars, Close(c) PROVE BoxInv' /\ Kept
  <2>1. PICK box \in {"none", "out", "in"} : box = "none"
    OBVIOUS
  <2> QED BY <1>2, <2>1, WindowCleared DEF Close
<1>3. ASSUME NEW c \in Chars, SendOldItems(c) \/ RemoveDelivered(c) PROVE BoxInv' /\ Kept
  BY <1>3, OldItemsKeep, RemoveDeliveredKeeps
<1>4. ASSUME NEW c \in Chars, NEW s \in Cells, NEW g \in Goods, NEW r \in Chars,
             AddItemsToBeSent(c, s, g, r)
      PROVE  BoxInv' /\ Kept
  BY <1>4, AddKeeps
<1>5. ASSUME NEW c \in Chars, NEW s \in Cells,
             \/ SendConfirmation(c, s) \/ CancelSendingItem(c, s) \/ CancelFails(c, s)
             \/ SendNewItems(c, s) \/ ReturnToSender(c, s)
             \/ TakeItemFromCell(c, s) \/ RemoveItemFromCell(c, s)
      PROVE  BoxInv' /\ Kept
  <2>1. alive \in SUBSET Chars
    BY DEF BoxInv
  <2> QED BY <1>5, <2>1, ConfirmKeeps, CancelKeeps, CancelFailsKeeps, NewItemKeeps, ReturnKeeps,
             TakeKeeps, RemoveKeeps
<1> QED BY <1>1, <1>2, <1>3, <1>4, <1>5 DEF BoxNext

-----------------------------------------------------------------------------
(* A character is deleted                                                   *)

LEMMA SeqSumPlus ==
  ASSUME NEW q \in Seq(Mail), NEW V, NEW W, NEW X,
         \A x \in Mail : V[x] \in Nat /\ W[x] \in Nat /\ X[x] = V[x] + W[x]
  PROVE  SeqSum(q, X) = SeqSum(q, V) + SeqSum(q, W)
<1> DEFINE I == DOMAIN q
           v == [i \in DOMAIN q |-> V[q[i]]]
           w == [i \in DOMAIN q |-> W[q[i]]]
           x == [i \in DOMAIN q |-> X[q[i]]]
<1>1. IsFiniteSet(I) /\ \A i \in I : q[i] \in Mail
  BY LenProperties, FS_Interval
<1>2. \A i \in I : v[i] \in Int /\ w[i] \in Int /\ x[i] = v[i] + w[i]
  BY <1>1
<1> HIDE DEF I, v, w, x
<1>3. Sum(x, I) = Sum(v, I) + Sum(w, I)
  BY <1>1, <1>2, SumPlus
<1> QED BY <1>3 DEF SeqSum, I, v, w, x

LEMMA SeqSumBelow ==
  ASSUME NEW S, NEW q \in Seq(S), NEW V \in [S -> Nat], NEW W \in [S -> Nat],
         \A m \in S : V[m] <= W[m]
  PROVE  SeqSum(q, V) <= SeqSum(q, W)
<1> DEFINE I == DOMAIN q
           v == [i \in DOMAIN q |-> V[q[i]]]
           w == [i \in DOMAIN q |-> W[q[i]]]
<1>1. IsFiniteSet(I) /\ \A i \in I : q[i] \in S
  BY LenProperties, FS_Interval
<1>2. \A i \in I : v[i] \in Int /\ w[i] \in Int /\ v[i] <= w[i]
  BY <1>1
<1> HIDE DEF I, v, w
<1>3. Sum(v, I) <= Sum(w, I)
  BY <1>1, <1>2, SumMonotone
<1> QED BY <1>3 DEF SeqSum, I, v, w

(* Mails with a good, from whoever is in D.                                 *)
FromOf(D, g) == [x \in Mail |-> IF x.item = g /\ x.from \in D THEN 1 ELSE 0]
MailsFrom(q, g) == [d \in Chars |-> Mails(q, [item |-> g, from |-> d])]

LEMMA MailsOfSenders ==
  ASSUME NEW q \in Seq(Mail), NEW g \in Goods
  PROVE  Sum(MailsFrom(q, g), Chars) = SeqSum(q, FromOf(Chars, g))
<1> DEFINE M == MailsFrom(q, g)
           Bad == {D \in SUBSET Chars : Sum(M, D) # SeqSum(q, FromOf(D, g))}
<1>0. SUFFICES ASSUME Bad # {} PROVE FALSE
  <2>1. Chars \in SUBSET Chars
    OBVIOUS
  <2> QED BY <2>1
<1>1. IsFiniteSet(Chars)
  BY DeliveryAssumption
<1>2. PICK D \in Bad : \A U \in Bad : U \subseteq D => U = D
  <2>1. Bad \in SUBSET SUBSET Chars
    OBVIOUS
  <2> HIDE DEF Bad
  <2> QED BY <1>0, <1>1, <2>1, LeastSubset
<1>3. D \in SUBSET Chars /\ Sum(M, D) # SeqSum(q, FromOf(D, g))
  BY <1>2
<1>4. \A E : FromOf(E, g) \in [Mail -> Nat]
  BY DEF FromOf
<1>5. \A d \in Chars : M[d] = Mails(q, [item |-> g, from |-> d]) /\ M[d] \in Int
  BY MailsIsSum DEF MailsFrom
<1>6. D # {}
  <2>1. ASSUME D = {} PROVE FALSE
    <3> DEFINE W == FromOf({}, g)
               f == [i \in DOMAIN q |-> W[q[i]]]
    <3>1. IsFiniteSet(DOMAIN q) /\ \A i \in DOMAIN q : q[i] \in Mail
      BY LenProperties, FS_Interval
    <3>2. \A i \in DOMAIN q : f[i] = 0
      BY <3>1 DEF FromOf
    <3> HIDE DEF f
    <3>3. Sum(f, DOMAIN q) = 0
      BY <3>1, <3>2, SumZero
    <3>4. SeqSum(q, FromOf({}, g)) = 0
      BY <3>3 DEF SeqSum, f
    <3>5. Sum(M, {}) = 0
      BY SumEmpty
    <3> QED BY <1>3, <2>1, <3>4, <3>5
  <2> QED BY <2>1
<1>7. PICK d : d \in D
  BY <1>6
<1> DEFINE R == D \ {d}
<1>8. Sum(M, R) = SeqSum(q, FromOf(R, g))
  <2>1. R \in SUBSET Chars /\ R # D /\ R \subseteq D
    BY <1>3, <1>7
  <2>2. R \notin Bad
    <3> HIDE DEF Bad, R
    <3> QED BY <1>2, <2>1
  <2> QED BY <2>1, <2>2
<1>9. Sum(M, D) = M[d] + Sum(M, R)
  <2>1. IsFiniteSet(D) /\ \A x \in D : M[x] \in Int
    BY <1>1, <1>3, <1>5, FS_Subset
  <2> HIDE DEF M
  <2> QED BY <1>7, <2>1, SumRemove
<1>10. SeqSum(q, FromOf(D, g)) = SeqSum(q, FromOf(R, g)) + SeqSum(q, Same([item |-> g, from |-> d]))
  <2> DEFINE m == [item |-> g, from |-> d]
  <2>1. \A x \in Mail : x = m <=> x.item = g /\ x.from = d
    BY DEF Mail
  <2>2. \A x \in Mail : FromOf(D, g)[x] = FromOf(R, g)[x] + Same(m)[x]
    <3> SUFFICES ASSUME NEW x \in Mail PROVE FromOf(D, g)[x] = FromOf(R, g)[x] + Same(m)[x]
      OBVIOUS
    <3>1. Same(m)[x] = IF x.item = g /\ x.from = d THEN 1 ELSE 0
      BY <2>1 DEF Same
    <3> HIDE DEF m
    <3>2. FromOf(D, g)[x] = IF x.item = g /\ x.from \in D THEN 1 ELSE 0
      BY DEF FromOf
    <3>3. FromOf(R, g)[x] = IF x.item = g /\ x.from \in R THEN 1 ELSE 0
      BY DEF FromOf
    <3>4. x.from \in D <=> x.from \in R \/ x.from = d
      BY <1>7
    <3>5. d \notin R
      OBVIOUS
    <3> QED BY <3>1, <3>2, <3>3, <3>4, <3>5
  <2> HIDE DEF m
  <2>3. FromOf(D, g) \in [Mail -> Nat] /\ FromOf(R, g) \in [Mail -> Nat] /\ Same(m) \in [Mail -> Nat]
    BY <1>4, SameType
  <2>4. SeqSum(q, FromOf(D, g)) = SeqSum(q, FromOf(R, g)) + SeqSum(q, Same(m))
    <3>1. PICK f, h, k : f = FromOf(R, g) /\ h = Same(m) /\ k = FromOf(D, g)
      OBVIOUS
    <3>2. \A x \in Mail : f[x] \in Nat /\ h[x] \in Nat /\ k[x] = f[x] + h[x]
      BY <2>2, <2>3, <3>1
    <3>3. SeqSum(q, k) = SeqSum(q, f) + SeqSum(q, h)
      BY <3>2, SeqSumPlus
    <3> QED BY <3>1, <3>3
  <2> QED BY <2>4 DEF m
<1>11. M[d] = SeqSum(q, Same([item |-> g, from |-> d])) /\ M[d] \in Int
  <2>1. d \in Chars
    BY <1>3, <1>7
  <2> HIDE DEF M
  <2> QED BY <1>5, <2>1, MailsIsSum
<1>12. SeqSum(q, FromOf(R, g)) \in Int
  <2>1. FromOf(R, g) \in [Mail -> Nat]
    BY <1>4
  <2>2. SeqSum(q, FromOf(R, g)) \in Nat
    BY <2>1, SeqSumType
  <2> QED BY <2>2
<1> HIDE DEF M, R
<1> QED BY <1>3, <1>8, <1>9, <1>10, <1>11, <1>12

(* ... are not more than the goods there are.                               *)
LEMMA MailsInQueue ==
  ASSUME NEW q \in Seq(Mail), NEW g \in Goods
  PROVE  Sum(MailsFrom(q, g), Chars) <= SeqSum(q, Weights(g))
<1>1. g \in Kinds /\ g # Gil
  BY DeliveryAssumption DEF Kinds
<1>2. FromOf(Chars, g) \in [Mail -> Nat] /\ Weights(g) \in [Mail -> Nat]
  BY <1>1, WeightsType DEF FromOf
<1>3. \A x \in Mail : FromOf(Chars, g)[x] <= Weights(g)[x]
  BY <1>1 DEF FromOf, Weights, Amount
<1>4. SeqSum(q, FromOf(Chars, g)) <= SeqSum(q, Weights(g))
  BY <1>2, <1>3, SeqSumBelow
<1> QED BY <1>4, MailsOfSenders

(* The rows that become items to be sent again.                             *)
ForMail(row, c) == row # None /\ row.to = c /\ row.sent /\ ~row.received
Returning(ob, c, d, k) ==
  Sum([s \in Cells |-> IF d # c /\ ForMail(ob[d][s], c) THEN Amount(ob[d][s].item, k) ELSE 0], Cells)
Returns(ob, c, k) == [d \in Chars |-> Returning(ob, c, d, k)]

(* What comes back is not more than the mails that are deleted.             *)
LEMMA ReturningIs ==
  ASSUME BoxInv, NEW c \in Chars, NEW d \in Chars, NEW k \in Kinds
  PROVE  /\ Returning(outbox, c, d, k) \in Nat
         /\ d = c \/ k = Gil => Returning(outbox, c, d, k) = 0
         /\ d # c /\ k # Gil => Returning(outbox, c, d, k) = Receipts(outbox[d], c, k)
<1> DEFINE f == [s \in Cells |-> IF d # c /\ ForMail(outbox[d][s], c) THEN Amount(outbox[d][s].item, k) ELSE 0]
           J == {s \in Cells : IsReceipt(outbox[d][s], c, k)}
<1>1. IsFiniteSet(Cells)
  BY DeliveryAssumption
<1>2. ASSUME NEW s \in Cells
      PROVE  /\ f[s] \in Nat
             /\ d = c \/ k = Gil => f[s] = 0
             /\ d # c /\ k # Gil => f[s] = IF s \in J THEN 1 ELSE 0
  <2>1. f[s] = IF d # c /\ ForMail(outbox[d][s], c) THEN Amount(outbox[d][s].item, k) ELSE 0
    OBVIOUS
  <2>2. CASE ~ (d # c /\ ForMail(outbox[d][s], c))
    BY <2>1, <2>2 DEF ForMail, IsReceipt
  <2>3. CASE d # c /\ ForMail(outbox[d][s], c)
    <3>1. outbox[d][s] \in Outgoing
      BY <2>3, RowsTyped DEF ForMail
    <3>2. outbox[d][s].item \in Goods
      BY <3>1 DEF Outgoing
    <3> DEFINE item == outbox[d][s].item
    <3>3. Amount(item, k) = IF item = k THEN 1 ELSE 0
      BY <3>2, DeliveryAssumption DEF Amount
    <3>4. s \in J <=> item = k
      BY <2>3 DEF ForMail, IsReceipt
    <3>5. k = Gil => item # k
      BY <3>2, DeliveryAssumption
    <3>6. f[s] = Amount(item, k)
      BY <2>1, <2>3
    <3> HIDE DEF f, J, item
    <3> QED BY <2>3, <3>3, <3>4, <3>5, <3>6
  <2> QED BY <2>2, <2>3
<1>3. Returning(outbox, c, d, k) = Sum(f, Cells)
  BY DEF Returning
<1>4. Receipts(outbox[d], c, k) = Cardinality(J) /\ J \in SUBSET Cells
  BY DEF Receipts
<1> HIDE DEF f, J
<1>5. Sum(f, Cells) \in Nat
  BY <1>1, <1>2, SumNat
<1>6. d = c \/ k = Gil => Sum(f, Cells) = 0
  BY <1>1, <1>2, SumZero
<1>7. d # c /\ k # Gil => Cardinality(J) = Sum(f, Cells)
  BY <1>1, <1>2, <1>4, CountIsSum
<1> QED BY <1>3, <1>4, <1>5, <1>6, <1>7

LEMMA ReturnsWereMails ==
  ASSUME BoxInv, NEW c \in Chars, NEW k \in Kinds
  PROVE  /\ Sum(Returns(outbox, c, k), Chars) \in Nat
         /\ Sum(Returns(outbox, c, k), Chars) <= SeqSum(queue[c], Weights(k))
<1> DEFINE R == Returns(outbox, c, k)
<1>1. \A d \in Chars : R[d] = Returning(outbox, c, d, k) /\ R[d] \in Nat
  BY ReturningIs DEF Returns
<1>2. IsFiniteSet(Chars)
  BY DeliveryAssumption
<1>3. queue[c] \in Seq(Mail)
  BY DEF BoxInv, BoxTypes, QueueTypes
<1> HIDE DEF R
<1>4. Sum(R, Chars) \in Nat
  BY <1>1, <1>2, SumNat
<1>5. SeqSum(queue[c], Weights(k)) \in Nat
  BY <1>3, WeightsType, SeqSumType
<1>6. CASE k = Gil
  <2>1. \A d \in Chars : R[d] = 0
    BY <1>1, <1>6, ReturningIs
  <2>2. Sum(R, Chars) = 0
    BY <1>2, <2>1, SumZero
  <2> QED BY <1>5, <2>2 DEF R
<1>7. CASE k # Gil
  <2> DEFINE M == MailsFrom(queue[c], k)
  <2>1. k \in Goods
    BY <1>7 DEF Kinds
  <2>2. ASSUME NEW d \in Chars PROVE R[d] \in Int /\ M[d] \in Int /\ R[d] <= M[d]
    <3>1. M[d] = Mails(queue[c], [item |-> k, from |-> d])
      BY DEF MailsFrom
    <3>2. M[d] \in Nat
      BY <1>3, <3>1, MailsIsSum
    <3>3. Receipts(outbox[d], c, k) <= M[d]
      BY <2>1, <3>1 DEF BoxInv, HaveMail
    <3> HIDE DEF M
    <3>4. R[d] = 0 \/ R[d] = Receipts(outbox[d], c, k)
      BY <1>1, <1>7, ReturningIs
    <3> QED BY <1>1, <3>2, <3>3, <3>4
  <2>3. Sum(R, Chars) <= Sum(M, Chars)
    <3> HIDE DEF M
    <3> QED BY <1>2, <2>2, SumMonotone
  <2>4. Sum(M, Chars) <= SeqSum(queue[c], Weights(k))
    BY <1>3, <2>1, MailsInQueue
  <2>5. Sum(M, Chars) \in Nat
    <3> HIDE DEF M
    <3>1. \A d \in Chars : M[d] \in Nat
      BY <1>3, MailsIsSum DEF M, MailsFrom
    <3> QED BY <1>2, <3>1, SumNat
  <2> HIDE DEF M
  <2>6. Sum(R, Chars) <= SeqSum(queue[c], Weights(k))
    BY <1>4, <1>5, <2>3, <2>4, <2>5
  <2> QED BY <1>4, <2>6 DEF R
<1> QED BY <1>4, <1>6, <1>7 DEF R

(* The rows after a deletion.                                               *)
Unsent(row) == [item |-> row.item, to |-> row.to, sent |-> FALSE, received |-> row.received]

RowsDeleted(ob, oc, c) ==
  \A d \in Chars, s \in Cells :
    oc[d][s] = IF d = c THEN None ELSE IF ForMail(ob[d][s], c) THEN Unsent(ob[d][s]) ELSE ob[d][s]

InboxDeleted(ib, ic, c) == ic = [ib EXCEPT ![c] = NoCells]

LEMMA DeletionIs ==
  ASSUME BoxInv, NEW c \in Chars, NEW listed, DeleteChar(c, listed)
  PROVE  /\ window[c].box = "none" /\ alive' \in SUBSET Chars
         /\ bag' = [bag EXCEPT ![c] = [g \in Goods |-> 0]] /\ purse' = [purse EXCEPT ![c] = 0]
         /\ outbox' \in [Chars -> [Cells -> Outgoing \cup {None}]]
         /\ RowsDeleted(outbox, outbox', c)
         /\ inbox' = [inbox EXCEPT ![c] = NoCells] /\ queue' = [queue EXCEPT ![c] = <<>>]
         /\ \A k \in Kinds : gone'[k] = gone[k] + (Holds(c, k) + listed[k] - Sum(Returns(outbox, c, k), Chars))
         /\ \E f : gone' = [k \in Kinds |-> f[k]]
         /\ UNCHANGED <<window, faults>>
<1> DEFINE Back(row) == row # None /\ row.to = c /\ row.sent /\ ~row.received
           Returned(d, k) == SumFunction([s \in Cells |->
             IF d # c /\ Back(outbox[d][s]) THEN Amount(outbox[d][s].item, k) ELSE 0])
           Lost(k) == Holds(c, k) + listed[k] - SumFunction([d \in Chars |-> Returned(d, k)])
<1>1. /\ window[c].box = "none" /\ alive' = alive \ {c}
      /\ bag' = [bag EXCEPT ![c] = [g \in Goods |-> 0]] /\ purse' = [purse EXCEPT ![c] = 0]
      /\ outbox' = [d \in Chars |-> IF d = c THEN NoCells ELSE
           [s \in Cells |-> IF Back(outbox[d][s]) THEN [outbox[d][s] EXCEPT !.sent = FALSE]
                            ELSE outbox[d][s]]]
      /\ inbox' = [inbox EXCEPT ![c] = NoCells] /\ queue' = [queue EXCEPT ![c] = <<>>]
      /\ gone' = [k \in Goods \cup {Gil} |-> gone[k] + Lost(k)]
      /\ UNCHANGED <<window, faults>>
  BY DEF DeleteChar
<1>2. \A d \in Chars : \A k : Returned(d, k) = Returning(outbox, c, d, k)
  <2> SUFFICES ASSUME NEW d \in Chars, NEW k PROVE Returned(d, k) = Returning(outbox, c, d, k)
    OBVIOUS
  <2> DEFINE f == [s \in Cells |-> IF d # c /\ Back(outbox[d][s]) THEN Amount(outbox[d][s].item, k) ELSE 0]
  <2>1. DOMAIN f = Cells
    OBVIOUS
  <2>2. SumFunction(f) = Sum(f, Cells)
    <3> HIDE DEF f
    <3> QED BY <2>1, SumFunctionIs
  <2> QED BY <2>2 DEF Returning, ForMail
<1>3. ASSUME NEW k \in Kinds
      PROVE  SumFunction([d \in Chars |-> Returned(d, k)]) = Sum(Returns(outbox, c, k), Chars)
  <2> HIDE DEF Returned
  <2>1. [d \in Chars |-> Returned(d, k)] = Returns(outbox, c, k)
    BY <1>2 DEF Returns
  <2> DEFINE f == Returns(outbox, c, k)
  <2>2. DOMAIN f = Chars
    BY DEF Returns
  <2> HIDE DEF f
  <2>3. SumFunction(f) = Sum(f, Chars)
    BY <2>2, SumFunctionIs
  <2> QED BY <2>1, <2>3 DEF f
<1>4. \A d \in Chars, s \in Cells : ForMail(outbox[d][s], c) =>
        outbox[d][s] \in Outgoing /\ [outbox[d][s] EXCEPT !.sent = FALSE] = Unsent(outbox[d][s])
  <2> SUFFICES ASSUME NEW d \in Chars, NEW s \in Cells, ForMail(outbox[d][s], c)
               PROVE  outbox[d][s] \in Outgoing /\ [outbox[d][s] EXCEPT !.sent = FALSE] = Unsent(outbox[d][s])
    OBVIOUS
  <2>1. outbox[d][s] \in Outgoing
    BY RowsTyped DEF ForMail
  <2>2. PICK b : b = FALSE
    OBVIOUS
  <2>3. PICK o \in Outgoing : o = outbox[d][s]
    BY <2>1
  <2>4. [o EXCEPT !.sent = b] = [item |-> o.item, to |-> o.to, sent |-> b, received |-> o.received]
    BY SentIs
  <2> QED BY <2>1, <2>2, <2>3, <2>4 DEF Unsent
<1>5. RowsDeleted(outbox, outbox', c)
  <2> SUFFICES ASSUME NEW d \in Chars, NEW s \in Cells
               PROVE  outbox'[d][s] = IF d = c THEN None ELSE IF ForMail(outbox[d][s], c)
                                      THEN Unsent(outbox[d][s]) ELSE outbox[d][s]
    BY DEF RowsDeleted
  <2>1. outbox'[d] = IF d = c THEN NoCells ELSE
           [t \in Cells |-> IF Back(outbox[d][t]) THEN [outbox[d][t] EXCEPT !.sent = FALSE]
                            ELSE outbox[d][t]]
    BY <1>1
  <2>2. CASE d = c
    BY <2>1, <2>2 DEF NoCells
  <2>3. CASE d # c
    <3>1. outbox'[d][s] = IF ForMail(outbox[d][s], c) THEN [outbox[d][s] EXCEPT !.sent = FALSE] ELSE outbox[d][s]
      BY <2>1, <2>3 DEF ForMail
    <3> QED BY <1>4, <2>3, <3>1
  <2> QED BY <2>2, <2>3
<1>6. outbox' \in [Chars -> [Cells -> Outgoing \cup {None}]]
  <2>1. ASSUME NEW d \in Chars, NEW s \in Cells PROVE outbox'[d][s] \in Outgoing \cup {None}
    <3>1. outbox[d][s] \in Outgoing \cup {None}
      BY RowsTyped
    <3>2. ForMail(outbox[d][s], c) => Unsent(outbox[d][s]) \in Outgoing
      BY <1>4 DEF Unsent, Outgoing
    <3> QED BY <1>5, <3>1, <3>2 DEF RowsDeleted
  <2>2. \A d \in Chars : outbox'[d] = [s \in Cells |-> outbox'[d][s]]
    BY <1>1 DEF NoCells
  <2>3. outbox' = [d \in Chars |-> outbox'[d]]
    BY <1>1
  <2>4. \A d \in Chars : outbox'[d] \in [Cells -> Outgoing \cup {None}]
    BY <2>1, <2>2
  <2> QED BY <2>3, <2>4
<1>7. \E f : gone' = [k \in Kinds |-> f[k]]
  <2> DEFINE f == [k \in Kinds |-> gone[k] + Lost(k)]
  <2>1. gone' = f
    BY <1>1 DEF Kinds
  <2>2. f = [k \in Kinds |-> f[k]]
    OBVIOUS
  <2> HIDE DEF f
  <2> QED BY <2>1, <2>2
<1>8. ASSUME NEW k \in Kinds
      PROVE  gone'[k] = gone[k] + (Holds(c, k) + listed[k] - Sum(Returns(outbox, c, k), Chars))
  <2>1. Lost(k) = Holds(c, k) + listed[k] - Sum(Returns(outbox, c, k), Chars)
    BY <1>3
  <2> HIDE DEF Lost
  <2>2. gone'[k] = gone[k] + Lost(k)
    BY <1>1 DEF Kinds
  <2> QED BY <2>1, <2>2
<1>9. alive' \in SUBSET Chars
  BY <1>1 DEF BoxInv
<1> HIDE DEF Lost, Back
<1> QED BY <1>1, <1>5, <1>6, <1>7, <1>8, <1>9

(* What the boxes of the others hold after a deletion.                      *)
LEMMA BoxesReturned ==
  ASSUME BoxInv, NEW c \in Chars, NEW oc \in [Chars -> [Cells -> Outgoing \cup {None}]],
         RowsDeleted(outbox, oc, c), NEW k \in Kinds,
         NEW ic, InboxDeleted(inbox, ic, c), NEW d \in Chars
  PROVE  InCells(oc[d], ic[d], k)
           = (IF d = c THEN 0 ELSE InCells(outbox[d], inbox[d], k)) + Returning(outbox, c, d, k)
<1> DEFINE u == [s \in Cells |-> Cell(outbox[d][s], inbox[d][s], k)]
           v == [s \in Cells |-> Cell(oc[d][s], ic[d][s], k)]
           r == [s \in Cells |-> IF d # c /\ ForMail(outbox[d][s], c) THEN Amount(outbox[d][s].item, k) ELSE 0]
<1>1. IsFiniteSet(Cells)
  BY DeliveryAssumption
<1>2. inbox \in [Chars -> [Cells -> Mail \cup {None}]]
  BY DEF BoxInv, BoxTypes, RowTypes
<1>3. InCells(oc[d], ic[d], k) = Sum(v, Cells) /\ InCells(outbox[d], inbox[d], k) = Sum(u, Cells)
      /\ Returning(outbox, c, d, k) = Sum(r, Cells)
  BY DEF InCells, Returning
<1>4. CASE d = c
  <2>1. \A s \in Cells : v[s] = 0 /\ r[s] = 0
    <3> SUFFICES ASSUME NEW s \in Cells PROVE v[s] = 0 /\ r[s] = 0
      OBVIOUS
    <3>1. oc[d][s] = None /\ ic[d][s] = None
      BY <1>2, <1>4 DEF RowsDeleted, InboxDeleted, NoCells
    <3>2. v[s] = Cell(oc[d][s], ic[d][s], k) /\ r[s] = 0
      BY <1>4
    <3> QED BY <3>1, <3>2 DEF Cell
  <2> HIDE DEF v, r
  <2>2. Sum(v, Cells) = 0 /\ Sum(r, Cells) = 0
    BY <1>1, <2>1, SumZero
  <2> QED BY <1>3, <1>4, <2>2
<1>5. CASE d # c
  <2>1. \A s \in Cells : u[s] \in Int /\ r[s] \in Int /\ v[s] = u[s] + r[s]
    <3> SUFFICES ASSUME NEW s \in Cells PROVE u[s] \in Int /\ r[s] \in Int /\ v[s] = u[s] + r[s]
      OBVIOUS
    <3> DEFINE old == outbox[d][s]
    <3>1. ic[d][s] = inbox[d][s] /\ oc[d][s] = IF ForMail(old, c) THEN Unsent(old) ELSE old
      BY <1>2, <1>5 DEF RowsDeleted, InboxDeleted
    <3>2. old \in Outgoing \cup {None} /\ inbox[d][s] \in Mail \cup {None} /\ oc[d][s] \in Outgoing \cup {None}
      BY RowsTyped
    <3>3. u[s] = InOutbox(old, k) + InInbox(inbox[d][s], k) /\ InOutbox(old, k) \in Nat
          /\ InInbox(inbox[d][s], k) \in Nat
      BY <3>2, CellIs
    <3>4. v[s] = InOutbox(oc[d][s], k) + InInbox(inbox[d][s], k) /\ InOutbox(oc[d][s], k) \in Nat
      BY <3>1, <3>2, CellIs
    <3>5. r[s] = IF ForMail(old, c) THEN Amount(old.item, k) ELSE 0
      BY <1>5
    <3>6. CASE ForMail(old, c)
      <4>1. InOutbox(old, k) = 0
        BY <3>6 DEF ForMail, InOutbox
      <4>2. oc[d][s] = Unsent(old) /\ oc[d][s] # None
        <5>1. oc[d][s] = Unsent(old)
          BY <3>1, <3>6
        <5>2. Unsent(old) \in Outgoing
          BY <3>2, <3>6 DEF Unsent, Outgoing, ForMail
        <5> QED BY <5>1, <5>2, DeliveryAssumption
      <4>3. InOutbox(oc[d][s], k) = Amount(old.item, k)
        BY <4>2 DEF InOutbox, Unsent
      <4> HIDE DEF u, v, r
      <4> QED BY <3>3, <3>4, <3>5, <3>6, <4>1, <4>3
    <3>7. CASE ~ForMail(old, c)
      <4>1. oc[d][s] = old /\ r[s] = 0
        BY <3>1, <3>5, <3>7
      <4> HIDE DEF u, v, r
      <4> QED BY <3>3, <3>4, <4>1
    <3> QED BY <3>6, <3>7
  <2> HIDE DEF u, v, r
  <2>2. Sum(v, Cells) = Sum(u, Cells) + Sum(r, Cells)
    BY <1>1, <2>1, SumPlus
  <2> QED BY <1>3, <1>5, <2>2
<1> QED BY <1>4, <1>5

LEMMA BoxesDeleted ==
  ASSUME BoxInv, NEW c \in Chars, NEW oc \in [Chars -> [Cells -> Outgoing \cup {None}]],
         RowsDeleted(outbox, oc, c), NEW k \in Kinds,
         NEW ic, InboxDeleted(inbox, ic, c)
  PROVE  Sum(InBoxes(oc, ic, k), Chars)
           = Sum(InBoxes(outbox, inbox, k), Chars) - InBoxes(outbox, inbox, k)[c]
               + Sum(Returns(outbox, c, k), Chars)
<1> DEFINE f == InBoxes(outbox, inbox, k)
           g == [d \in Chars |-> IF d = c THEN 0 ELSE f[d]]
           h == InBoxes(oc, ic, k)
           r == Returns(outbox, c, k)
<1>1. IsFiniteSet(Chars) /\ BoxTypes(bag, purse, outbox, inbox, queue)
  BY DeliveryAssumption DEF BoxInv
<1>2. \A d \in Chars : f[d] \in Int
  <2>1. \A d \in Chars : f[d] \in Nat
    BY <1>1, TermTypes
  <2> QED BY <2>1
<1>3. \A d \in Chars : f[d] = InCells(outbox[d], inbox[d], k) /\ h[d] = InCells(oc[d], ic[d], k)
                       /\ r[d] = Returning(outbox, c, d, k)
  BY DEF InBoxes, Returns
<1>4. \A d \in Chars : g[d] \in Int /\ g[d] = (IF d = c THEN 0 ELSE f[d])
  BY <1>2
<1>5. \A d \in Chars : r[d] \in Int
  <2>1. \A d \in Chars : Returning(outbox, c, d, k) \in Nat
    BY ReturningIs
  <2> HIDE DEF r
  <2> QED BY <1>3, <2>1
<1> HIDE DEF f, g, h, r
<1>6. \A d \in Chars : h[d] = g[d] + r[d]
  <2>1. \A d \in Chars : InCells(oc[d], ic[d], k)
           = (IF d = c THEN 0 ELSE InCells(outbox[d], inbox[d], k)) + Returning(outbox, c, d, k)
    BY BoxesReturned
  <2> QED BY <1>3, <1>4, <2>1
<1>7. Sum(h, Chars) = Sum(g, Chars) + Sum(r, Chars)
  BY <1>1, <1>4, <1>5, <1>6, SumPlus
<1>8. Sum(g, Chars) = Sum(f, Chars) + g[c] - f[c]
  BY <1>1, <1>2, <1>4, SumChange
<1>9. Sum(f, Chars) \in Int /\ g[c] = 0 /\ f[c] \in Int
  BY <1>1, <1>2, <1>4, SumType
<1>10. Sum(h, Chars) = Sum(f, Chars) - f[c] + Sum(r, Chars)
  BY <1>7, <1>8, <1>9
<1> QED BY <1>10 DEF f, h, r

LEMMA DeletionKeeps ==
  ASSUME BoxInv, NEW c \in Chars, NEW listed, DeleteChar(c, listed), \A k \in Kinds : listed[k] \in Nat
  PROVE  /\ BoxInv'
         /\ \A k \in Kinds : Total(bag', purse', outbox', inbox', queue', k) + gone'[k]
                               = Total(bag, purse, outbox, inbox, queue, k) + gone[k] + listed[k]
<1>1. /\ window[c].box = "none" /\ alive' \in SUBSET Chars
      /\ bag' = [bag EXCEPT ![c] = [g \in Goods |-> 0]] /\ purse' = [purse EXCEPT ![c] = 0]
      /\ outbox' \in [Chars -> [Cells -> Outgoing \cup {None}]]
      /\ RowsDeleted(outbox, outbox', c)
      /\ inbox' = [inbox EXCEPT ![c] = NoCells] /\ queue' = [queue EXCEPT ![c] = <<>>]
      /\ \A k \in Kinds : gone'[k] = gone[k] + (Holds(c, k) + listed[k] - Sum(Returns(outbox, c, k), Chars))
      /\ \E f : gone' = [k \in Kinds |-> f[k]]
      /\ UNCHANGED <<window, faults>>
  BY DeletionIs
<1>2. /\ bag \in [Chars -> [Goods -> Nat]] /\ purse \in [Chars -> Nat] /\ Fits(bag)
      /\ inbox \in [Chars -> [Cells -> Mail \cup {None}]] /\ queue \in [Chars -> Seq(Mail)]
      /\ gone \in [Kinds -> Nat] /\ MarkedWereSent(outbox) /\ Shows(window, outbox, inbox)
      /\ HaveMail(outbox, queue) /\ BoxTypes(bag, purse, outbox, inbox, queue)
      /\ window \in [Chars -> Window] /\ faults \in 0..MaxFaults
  BY DEF BoxInv, BoxTypes, BagTypes, RowTypes, QueueTypes
<1>3. BagTypes(bag', purse') /\ SameBagsBut(bag, purse, bag', purse', c)
      /\ purse'[c] = 0 /\ \A g \in Goods : bag'[c][g] = 0
  BY <1>1, <1>2 DEF BagTypes, SameBagsBut
<1>4. Fits(bag')
  <2> DEFINE z == [g \in Goods |-> 0]
  <2>1. SumFunction(z) = 0
    <3>1. DOMAIN z = Goods /\ \A g \in Goods : z[g] = 0
      OBVIOUS
    <3> HIDE DEF z
    <3>2. SumFunction(z) = Sum(z, Goods)
      BY <3>1, SumFunctionIs
    <3> QED BY <3>1, <3>2, SumZero, DeliveryAssumption
  <2>2. bag'[c] = z /\ \A d \in Chars : d # c => bag'[d] = bag[d]
    BY <1>1, <1>2
  <2> HIDE DEF z
  <2> SUFFICES ASSUME NEW d \in Chars PROVE SumFunction(bag'[d]) <= BagSize
    BY DEF Fits
  <2>3. CASE d = c
    BY <2>1, <2>2, <2>3, DeliveryAssumption
  <2>4. CASE d # c
    BY <1>2, <2>2, <2>4 DEF Fits
  <2> QED BY <2>3, <2>4
<1>5. QueueTypes(queue') /\ SameQueuesBut(queue, queue', c) /\ queue'[c] = <<>>
  <2>1. <<>> \in Seq(Mail)
    BY EmptySeq
  <2> QED BY <1>1, <1>2, <2>1 DEF QueueTypes, SameQueuesBut
<1>6. /\ inbox' \in [Chars -> [Cells -> Mail \cup {None}]]
      /\ \A d \in Chars, s \in Cells : inbox'[d][s] = IF d = c THEN None ELSE inbox[d][s]
  <2>1. NoCells \in [Cells -> Mail \cup {None}] /\ \A s \in Cells : NoCells[s] = None
    BY DEF NoCells
  <2> QED BY <1>1, <1>2, <2>1
<1>7. RowTypes(outbox', inbox')
  BY <1>1, <1>6 DEF RowTypes
<1>8. BoxTypes(bag', purse', outbox', inbox', queue')
  BY <1>3, <1>5, <1>7 DEF BoxTypes
<1>9. ASSUME NEW d \in Chars, NEW s \in Cells
      PROVE  /\ outbox'[d][s] # None =>
                  /\ d # c /\ outbox[d][s] # None
                  /\ outbox'[d][s].item = outbox[d][s].item /\ outbox'[d][s].to = outbox[d][s].to
                  /\ outbox'[d][s].received => outbox'[d][s].sent
             /\ \A b \in Chars, g \in Goods : IsReceipt(outbox'[d][s], b, g) =>
                  b # c /\ IsReceipt(outbox[d][s], b, g)
  <2>1. outbox'[d][s] = IF d = c THEN None ELSE IF ForMail(outbox[d][s], c) THEN Unsent(outbox[d][s])
                        ELSE outbox[d][s]
    BY <1>1 DEF RowsDeleted
  <2>2. CASE d = c
    BY <2>1, <2>2 DEF IsReceipt
  <2>3. CASE d # c /\ ForMail(outbox[d][s], c)
    BY <2>1, <2>3 DEF IsReceipt, ForMail, Unsent
  <2>4. CASE d # c /\ ~ForMail(outbox[d][s], c)
    BY <1>2, <2>1, <2>4 DEF IsReceipt, ForMail, MarkedWereSent
  <2> QED BY <2>2, <2>3, <2>4
<1>10. MarkedWereSent(outbox')
  BY <1>9 DEF MarkedWereSent
<1>11. Shows(window', outbox', inbox')
  <2>1. ASSUME NEW d \in Chars, NEW s \in Cells
        PROVE  ShowsCell(window'[d].box, window'[d].cells[s], outbox'[d][s], inbox'[d][s])
    <3>1. ShowsCell(window[d].box, window[d].cells[s], outbox[d][s], inbox[d][s])
      BY RowsTyped
    <3>2. window'[d] = window[d]
      BY <1>1
    <3> QED BY <1>6, <1>9, <3>1, <3>2 DEF ShowsCell
  <2> QED BY <2>1 DEF Shows, ShowsCell
<1>12. HaveMail(outbox', queue')
  <2> SUFFICES ASSUME NEW a \in Chars, NEW b \in Chars, NEW g \in Goods
               PROVE  Receipts(outbox'[a], b, g) <= Mails(queue'[b], [item |-> g, from |-> a])
    BY DEF HaveMail
  <2> DEFINE m == [item |-> g, from |-> a]
             J == {s \in Cells : IsReceipt(outbox[a][s], b, g)}
             K == {s \in Cells : IsReceipt(outbox'[a][s], b, g)}
  <2>1. Receipts(outbox[a], b, g) = Cardinality(J) /\ Receipts(outbox'[a], b, g) = Cardinality(K)
    BY DEF Receipts
  <2>2. Receipts(outbox[a], b, g) <= Mails(queue[b], m)
    BY <1>2 DEF HaveMail
  <2>3. K \subseteq J /\ (b = c => K = {})
    BY <1>9
  <2>4. IsFiniteSet(J)
    BY FS_Subset, DeliveryAssumption
  <2> HIDE DEF J, K, m
  <2>5. Cardinality(K) <= Cardinality(J) /\ Cardinality(J) \in Nat /\ Cardinality(K) \in Nat
    BY <2>3, <2>4, FS_Subset, FS_CardinalityType
  <2>6. Mails(queue'[b], m) \in Nat /\ Mails(queue[b], m) \in Nat
    BY <1>5, MailsIsNat DEF BoxInv, BoxTypes
  <2>7. Receipts(outbox'[a], b, g) <= Mails(queue'[b], m)
    <3>1. CASE b = c
      <4>1. Cardinality(K) = 0
        BY <2>3, <3>1, FS_EmptySet
      <4> QED BY <2>1, <2>6, <4>1
    <3>2. CASE b # c
      <4>1. queue'[b] = queue[b]
        BY <1>5, <3>2 DEF SameQueuesBut
      <4> QED BY <2>1, <2>2, <2>5, <2>6, <4>1
    <3> QED BY <3>1, <3>2
  <2> QED BY <2>7 DEF m
<1>13. ASSUME NEW k \in Kinds
       PROVE  /\ gone'[k] \in Nat
              /\ Total(bag', purse', outbox', inbox', queue', k) + gone'[k]
                   = Total(bag, purse, outbox, inbox, queue, k) + gone[k] + listed[k]
  <2> DEFINE b == InBags(bag, purse, k)[c]
             i == InBoxes(outbox, inbox, k)[c]
             q == InQueues(queue, k)[c]
             r == Sum(Returns(outbox, c, k), Chars)
             x == InBag(bag'[c], purse'[c], k) - InBag(bag[c], purse[c], k)
             z == SeqSum(queue'[c], Weights(k)) - SeqSum(queue[c], Weights(k))
  <2>1. b \in Nat /\ i \in Nat /\ q \in Nat
    BY <1>2, TermTypes
  <2>2. Holds(c, k) = b + i + q
    <3>1. Holds(c, k) = Held(bag[c], purse[c], outbox[c], inbox[c], queue[c], k)
      BY DEF Holds, InCell, Held, Cell
    <3> QED BY <1>2, <3>1, HeldIs
  <2>3. b = InBag(bag[c], purse[c], k) /\ q = SeqSum(queue[c], Weights(k))
    BY DEF InBags, InQueues
  <2>4. r \in Nat /\ r <= q
    BY <2>3, ReturnsWereMails
  <2>5. listed[k] \in Nat /\ gone[k] \in Nat /\ gone'[k] = gone[k] + (b + i + q + listed[k] - r)
    BY <1>1, <1>2, <2>2
  <2>6. x = 0 - b
    <3>1. InBag(bag'[c], purse'[c], k) = 0
      BY <1>3 DEF InBag, Kinds
    <3> QED BY <2>1, <2>3, <3>1
  <2>7. z = 0 - q
    <3>1. SeqSum(queue'[c], Weights(k)) = 0
      BY <1>5, SeqSumEmpty
    <3> QED BY <2>1, <2>3, <3>1
  <2>8. Sum(InBags(bag', purse', k), Chars) = Sum(InBags(bag, purse, k), Chars) + x /\ x \in Int
    BY <1>2, <1>3, BagsChange DEF BoxTypes
  <2>9. Sum(InQueues(queue', k), Chars) = Sum(InQueues(queue, k), Chars) + z /\ z \in Int
    BY <1>2, <1>5, QueuesChange DEF BoxTypes
  <2>10. Sum(InBoxes(outbox', inbox', k), Chars) = Sum(InBoxes(outbox, inbox, k), Chars) - i + r
    <3>1. PICK oc, ic : oc = outbox' /\ ic = inbox'
      OBVIOUS
    <3>2. Sum(InBoxes(oc, ic, k), Chars)
            = Sum(InBoxes(outbox, inbox, k), Chars) - InBoxes(outbox, inbox, k)[c]
                + Sum(Returns(outbox, c, k), Chars)
      <4>1. oc \in [Chars -> [Cells -> Outgoing \cup {None}]] /\ RowsDeleted(outbox, oc, c)
            /\ InboxDeleted(inbox, ic, c)
        BY <1>1, <3>1 DEF InboxDeleted
      <4> QED BY <4>1, BoxesDeleted
    <3> QED BY <3>1, <3>2
  <2> DEFINE y == 0 - i + r
  <2>11. Sum(InBoxes(outbox, inbox, k), Chars) \in Nat
    BY <1>2, TotalIs
  <2> HIDE DEF b, i, q, r, x, z
  <2>12. y \in Int /\ Sum(InBoxes(outbox', inbox', k), Chars) = Sum(InBoxes(outbox, inbox, k), Chars) + y
    BY <2>1, <2>4, <2>10, <2>11
  <2>13. y = 0 - i + r
    OBVIOUS
  <2> HIDE DEF y
  <2>14. Total(bag', purse', outbox', inbox', queue', k)
           = Total(bag, purse, outbox, inbox, queue, k) + x + y + z
         /\ Total(bag, purse, outbox, inbox, queue, k) \in Nat
    <3>1. PICK bh, pv, oc, ic, qv : bh = bag' /\ pv = purse' /\ oc = outbox' /\ ic = inbox' /\ qv = queue'
      OBVIOUS
    <3>2. /\ BoxTypes(bh, pv, oc, ic, qv)
          /\ Sum(InBags(bh, pv, k), Chars) = Sum(InBags(bag, purse, k), Chars) + x
          /\ Sum(InBoxes(oc, ic, k), Chars) = Sum(InBoxes(outbox, inbox, k), Chars) + y
          /\ Sum(InQueues(qv, k), Chars) = Sum(InQueues(queue, k), Chars) + z
      BY <1>8, <2>8, <2>9, <2>12, <3>1
    <3>3. x \in Int /\ y \in Int /\ z \in Int
      BY <2>8, <2>9, <2>12
    <3>4. Total(bh, pv, oc, ic, qv, k) = Total(bag, purse, outbox, inbox, queue, k) + x + y + z
          /\ Total(bag, purse, outbox, inbox, queue, k) \in Nat
      <4>1. BoxTypes(bag, purse, outbox, inbox, queue)
        BY <1>2
      <4> QED BY <3>2, <3>3, <4>1, TotalChanges
    <3> QED BY <3>1, <3>4
  <2> QED BY <2>1, <2>4, <2>5, <2>6, <2>7, <2>13, <2>14
<1>14. gone' \in [Kinds -> Nat]
  BY <1>1, <1>13
<1>15. BoxInv'
  BY <1>1, <1>2, <1>4, <1>8, <1>10, <1>11, <1>12, <1>14 DEF BoxInv
<1> QED BY <1>13, <1>15

-----------------------------------------------------------------------------
(* The auction house                                                        *)

\* The listing whose item is mailed already, 0 for none.
MailedId == IF mailed THEN Head(expiring).id ELSE 0

\* What is listed of a good, apart from that one.
Left(ls, m, k) == {i \in DOMAIN ls : ls[i] # None /\ ls[i].good = k /\ i # m}
Unsold(ls, m, k) == Cardinality(Left(ls, m, k))

Start(k)      == IF k = Gil THEN SumFunction(Savings) ELSE SumFunction([c \in Chars |-> Belongings[c][k]])
Copies(co, k) == IF k = Gil THEN 0 ELSE co[k]

ListingsTyped ==
  /\ listings \in Seq(Listing \cup {None}) /\ Len(listings) <= MaxListings
  /\ expiring \in Seq(Expiry) /\ mailed \in BOOLEAN /\ (mailed => expiring # <<>>)
  /\ copied \in [Goods -> Nat]

ExpiringKnown ==
  \A k \in DOMAIN expiring :
    LET e == expiring[k]
    IN  e.id \in DOMAIN listings /\ (listings[e.id] # None => listings[e.id].good = e.good)

Balanced ==
  \A k \in Kinds :
    Total(bag, purse, outbox, inbox, queue, k) + Unsold(listings, MailedId, k) + gone[k]
      = Start(k) + Copies(copied, k)

AuctionInv == BoxInv /\ ListingsTyped /\ ExpiringKnown /\ Balanced

LEMMA StartType ==
  ASSUME NEW k \in Kinds
  PROVE  /\ Start(k) = Sum(InBags(Belongings, Savings, k), Chars)
         /\ Start(k) \in Nat
<1> DEFINE f == InBags(Belongings, Savings, k)
           h == [c \in Chars |-> Belongings[c][k]]
<1>1. Belongings \in [Chars -> [Goods -> Nat]] /\ Savings \in [Chars -> Nat] /\ IsFiniteSet(Chars)
  BY DeliveryAssumption
<1>2. DOMAIN h = Chars /\ DOMAIN Savings = Chars
  BY <1>1
<1>3. SumFunction(h) = Sum(h, Chars) /\ SumFunction(Savings) = Sum(Savings, Chars)
  <2> HIDE DEF h
  <2> QED BY <1>2, SumFunctionIs
<1>4. \A c \in Chars : f[c] = (IF k = Gil THEN Savings[c] ELSE h[c])
  BY DEF InBags, InBag
<1>5. \A c \in Chars : f[c] \in Nat
  BY <1>1, <1>4 DEF Kinds
<1> HIDE DEF f, h
<1>6. Sum(f, Chars) \in Nat
  BY <1>1, <1>5, SumNat
<1>7. CASE k = Gil
  <2>1. Sum(f, Chars) = Sum(Savings, Chars)
    BY <1>1, <1>4, <1>7, SumSame
  <2> QED BY <1>3, <1>6, <1>7, <2>1 DEF Start, f
<1>8. CASE k # Gil
  <2>1. Sum(f, Chars) = Sum(h, Chars)
    BY <1>1, <1>4, <1>8, SumSame
  <2>2. Start(k) = SumFunction(h)
    BY <1>8 DEF Start, h
  <2> QED BY <1>3, <1>6, <2>1, <2>2 DEF f
<1> QED BY <1>7, <1>8

LEMMA LeftType ==
  ASSUME NEW ls \in Seq(Listing \cup {None}), NEW m, NEW k
  PROVE  IsFiniteSet(Left(ls, m, k)) /\ Unsold(ls, m, k) \in Nat
<1>1. IsFiniteSet(DOMAIN ls)
  BY LenProperties, FS_Interval
<1>2. IsFiniteSet(Left(ls, m, k))
  BY <1>1, FS_Subset DEF Left
<1> QED BY <1>2, FS_CardinalityType DEF Unsold

IsOf(x, k)          == IF x.good = k THEN 1 ELSE 0
ListedOf(ls, i, k)  == IF ls[i] # None /\ ls[i].good = k THEN 1 ELSE 0

LEMMA LeftAppend ==
  ASSUME NEW ls, ls \in Seq(Listing \cup {None}), NEW x \in Listing, NEW m, m # Len(ls) + 1, NEW k
  PROVE  Unsold(Append(ls, x), m, k) = Unsold(ls, m, k) + IsOf(x, k)
<1> DEFINE r == Append(ls, x)
           n == Len(ls) + 1
           J == Left(ls, m, k)
<1>1. Len(ls) \in Nat /\ DOMAIN ls = 1..Len(ls)
  BY LenProperties
<1>2. /\ DOMAIN r = 1..n /\ r[n] = x /\ \A i \in 1..Len(ls) : r[i] = ls[i]
  <2>1. r \in Seq(Listing \cup {None}) /\ Len(r) = n /\ r[n] = x /\ \A i \in 1..Len(ls) : r[i] = ls[i]
    BY AppendProperties
  <2> HIDE DEF r
  <2> QED BY <2>1, LenProperties
<1>3. x # None
  BY AuctionAssumption
<1> HIDE DEF r
<1>4. \A i : i \in 1..n <=> i \in 1..Len(ls) \/ i = n
  BY <1>1
<1>5. n \notin J
  BY <1>1 DEF Left
<1>6. Left(r, m, k) = IF x.good = k THEN J \cup {n} ELSE J
  <2>1. \A i : i \in Left(r, m, k) <=> i \in J \/ (i = n /\ x.good = k)
    <3> SUFFICES ASSUME NEW i PROVE i \in Left(r, m, k) <=> i \in J \/ (i = n /\ x.good = k)
      OBVIOUS
    <3>1. CASE i \in 1..Len(ls)
      <4>1. i # n
        BY <1>1, <3>1
      <4>2. r[i] = ls[i] /\ i \in DOMAIN r /\ i \in DOMAIN ls
        BY <1>1, <1>2, <1>4, <3>1
      <4> HIDE DEF n
      <4> QED BY <4>1, <4>2 DEF Left
    <3>2. CASE i = n
      BY <1>2, <1>3, <1>4, <1>5, <3>2 DEF Left
    <3>3. CASE i \notin 1..Len(ls) /\ i # n
      BY <1>1, <1>2, <1>4, <3>3 DEF Left
    <3> QED BY <3>1, <3>2, <3>3
  <2> HIDE DEF J, n
  <2> QED BY <2>1
<1>7. IsFiniteSet(J) /\ Cardinality(J) \in Nat /\ Cardinality(J) = Unsold(ls, m, k)
  BY LeftType DEF Unsold
<1> HIDE DEF J, n
<1>8. Cardinality(J \cup {n}) = Cardinality(J) + 1
  BY <1>5, <1>7, FS_AddElement
<1>9. CASE x.good = k
  <2>1. Unsold(r, m, k) = Cardinality(J \cup {n}) /\ IsOf(x, k) = 1
    BY <1>6, <1>9 DEF Unsold, IsOf
  <2> QED BY <1>7, <1>8, <2>1 DEF r
<1>10. CASE x.good # k
  <2>1. Unsold(r, m, k) = Cardinality(J) /\ IsOf(x, k) = 0
    BY <1>6, <1>10 DEF Unsold, IsOf
  <2> QED BY <1>7, <2>1 DEF r
<1> QED BY <1>9, <1>10

LEMMA ListingRemoved ==
  ASSUME NEW ls \in Seq(Listing \cup {None}), NEW i \in DOMAIN ls, NEW r, r = [ls EXCEPT ![i] = None]
  PROVE  /\ r \in Seq(Listing \cup {None}) /\ Len(r) = Len(ls) /\ DOMAIN r = DOMAIN ls
         /\ r[i] = None /\ \A j \in DOMAIN ls : j # i => r[j] = ls[j]
<1> DEFINE S == Listing \cup {None}
<1>1. None \in S /\ ls \in Seq(S)
  OBVIOUS
<1> HIDE DEF S
<1>2. r \in Seq(S) /\ Len(r) = Len(ls)
  BY <1>1, ExceptSeq
<1>3. DOMAIN r = DOMAIN ls /\ r[i] = None /\ \A j \in DOMAIN ls : j # i => r[j] = ls[j]
  OBVIOUS
<1> QED BY <1>2, <1>3 DEF S

(* A listing goes, and is one less unless it was mailed.                    *)
Removed(r, ls, i)   == r = [ls EXCEPT ![i] = None]
Counts(ls, i, m, k) == IF ls[i].good = k /\ i # m THEN 1 ELSE 0

LEMMA LeftRemoved ==
  ASSUME NEW ls, ls \in Seq(Listing \cup {None}), NEW i, i \in DOMAIN ls, ls[i] # None, NEW m, NEW k,
         NEW r, Removed(r, ls, i)
  PROVE  Unsold(r, m, k) = Unsold(ls, m, k) - Counts(ls, i, m, k)
<1> DEFINE J == Left(ls, m, k)
<1>1. /\ DOMAIN r = DOMAIN ls /\ r[i] = None /\ \A j \in DOMAIN ls : j # i => r[j] = ls[j]
  BY DEF Removed
<1>2. IsFiniteSet(J) /\ Cardinality(J) \in Nat /\ Cardinality(J) = Unsold(ls, m, k)
  BY LeftType DEF Unsold
<1>3. Left(r, m, k) = J \ {i}
  BY <1>1 DEF Left
<1>4. i \in J <=> ls[i].good = k /\ i # m
  BY DEF Left
<1> HIDE DEF J
<1>5. Cardinality(J \ {i}) = IF i \in J THEN Cardinality(J) - 1 ELSE Cardinality(J)
  BY <1>2, FS_RemoveElement
<1>6. Unsold(r, m, k) = Cardinality(J \ {i})
  BY <1>3 DEF Unsold
<1> QED BY <1>2, <1>4, <1>5, <1>6 DEF Counts

(* A listing is mailed.                                                     *)
LEMMA LeftMailed ==
  ASSUME NEW ls, ls \in Seq(Listing \cup {None}), NEW i, i \in DOMAIN ls, NEW k
  PROVE  Unsold(ls, i, k) = Unsold(ls, 0, k) - ListedOf(ls, i, k)
<1> PICK m : m = 0
  OBVIOUS
<1> DEFINE J == Left(ls, m, k)
<1>1. IsFiniteSet(J) /\ Cardinality(J) \in Nat /\ Cardinality(J) = Unsold(ls, m, k)
  BY LeftType DEF Unsold
<1>2. \A j \in DOMAIN ls : j # 0
  BY LenProperties
<1>3. Left(ls, i, k) = J \ {i} /\ (i \in J <=> ls[i] # None /\ ls[i].good = k)
  BY <1>2 DEF Left
<1> HIDE DEF J
<1>4. Cardinality(J \ {i}) = IF i \in J THEN Cardinality(J) - 1 ELSE Cardinality(J)
  BY <1>1, FS_RemoveElement
<1>5. ListedOf(ls, i, k) = IF i \in J THEN 1 ELSE 0
  BY <1>3 DEF ListedOf
<1>6. Unsold(ls, i, k) = Cardinality(J \ {i})
  BY <1>3 DEF Unsold
<1> QED BY <1>1, <1>4, <1>5, <1>6

LEMMA MailedIdIs ==
  ASSUME AuctionInv
  PROVE  /\ listings \in Seq(Listing \cup {None})
         /\ \A i \in DOMAIN listings : i \in Nat /\ i # 0 /\ i # Len(listings) + 1
         /\ \A i \in DOMAIN listings : Mailed(i) <=> i = MailedId
         /\ MailedId # Len(listings) + 1
         /\ expiring # <<>> => /\ Head(expiring) = expiring[1] /\ 1 \in DOMAIN expiring
                               /\ Head(expiring) \in Expiry
                               /\ Head(expiring).id \in DOMAIN listings
<1>1. ListingsTyped /\ ExpiringKnown
  BY DEF AuctionInv
<1>2. listings \in Seq(Listing \cup {None}) /\ expiring \in Seq(Expiry) /\ mailed \in BOOLEAN
      /\ (mailed => expiring # <<>>)
  BY <1>1 DEF ListingsTyped
<1>3. DOMAIN listings = 1..Len(listings) /\ Len(listings) \in Nat
  BY <1>2, LenProperties
<1>4. \A i \in DOMAIN listings : i \in Nat /\ i # 0 /\ i # Len(listings) + 1
  BY <1>3
<1>5. ASSUME expiring # <<>>
      PROVE  /\ Head(expiring) = expiring[1] /\ 1 \in DOMAIN expiring /\ Head(expiring) \in Expiry
             /\ Head(expiring).id \in DOMAIN listings
  <2>1. Head(expiring) = expiring[1] /\ 1 \in DOMAIN expiring
    BY <1>2, <1>5, TailDrops
  <2>2. expiring[1] \in Expiry
    BY <1>2, <2>1, LenProperties
  <2> QED BY <1>1, <2>1, <2>2 DEF ExpiringKnown
<1>6. MailedId # Len(listings) + 1
  <2>1. CASE mailed
    BY <1>2, <1>4, <1>5, <2>1 DEF MailedId
  <2>2. CASE ~mailed
    BY <1>3, <2>2 DEF MailedId
  <2> QED BY <2>1, <2>2
<1>7. \A i \in DOMAIN listings : Mailed(i) <=> i = MailedId
  <2> SUFFICES ASSUME NEW i \in DOMAIN listings PROVE Mailed(i) <=> i = MailedId
    OBVIOUS
  <2>1. i # 0
    BY <1>4
  <2>2. CASE mailed
    BY <2>2 DEF Mailed, MailedId
  <2>3. CASE ~mailed
    BY <2>1, <2>3 DEF Mailed, MailedId
  <2> QED BY <2>2, <2>3
<1> QED BY <1>2, <1>4, <1>5, <1>6, <1>7

(* A good and some gil come into a bag, or leave it.                        *)
HasRoom(c, g, n) == n <= bag[c][g] \/ (n = bag[c][g] + 1 /\ Room(c))

LEMMA GoodAndGil ==
  ASSUME BoxInv, NEW c \in Chars, NEW g \in Goods, NEW n \in Nat, NEW p \in Nat, HasRoom(c, g, n),
         bag' = [bag EXCEPT ![c][g] = n], purse' = [purse EXCEPT ![c] = p]
  PROVE  /\ BagStep(c)
         /\ \A k \in Kinds : BagGain(c, k) = IF k = Gil THEN p - purse[c]
                                             ELSE IF k = g THEN n - bag[c][g] ELSE 0
<1>1. bag \in [Chars -> [Goods -> Nat]] /\ purse \in [Chars -> Nat] /\ Fits(bag)
  BY DEF BoxInv, BoxTypes, BagTypes
<1>2. bag' = PutGood(bag, c, g, n)
  BY DEF PutGood
<1>3. n <= bag[c][g] \/ (n = bag[c][g] + 1 /\ SumFunction(bag[c]) < BagSize)
  BY DEF HasRoom, Room
<1>4. /\ PutGood(bag, c, g, n) \in [Chars -> [Goods -> Nat]]
      /\ Fits(PutGood(bag, c, g, n))
      /\ \A d \in Chars, x \in Goods :
           PutGood(bag, c, g, n)[d][x] = IF d = c /\ x = g THEN n ELSE bag[d][x]
      /\ \A d \in Chars : d # c => PutGood(bag, c, g, n)[d] = bag[d]
  BY <1>1, <1>3, GoodPut
<1>5. purse' \in [Chars -> Nat] /\ purse'[c] = p /\ \A d \in Chars : d # c => purse'[d] = purse[d]
  BY <1>1
<1>6. BagStep(c)
  BY <1>2, <1>4, <1>5 DEF BagStep, BagTypes, SameBagsBut
<1>7. ASSUME NEW k \in Kinds
      PROVE  BagGain(c, k) = IF k = Gil THEN p - purse[c] ELSE IF k = g THEN n - bag[c][g] ELSE 0
  <2>1. k = Gil \/ (k # Gil /\ k \in Goods)
    BY DeliveryAssumption DEF Kinds
  <2>2. bag'[c][g] = n /\ \A x \in Goods : x # g => bag'[c][x] = bag[c][x]
    BY <1>2, <1>4
  <2>3. \A x \in Goods : bag[c][x] \in Int
    BY <1>1
  <2> QED BY <1>5, <2>1, <2>2, <2>3 DEF BagGain, InBag
<1> QED BY <1>6, <1>7

(* The auction house leaves the boxes as they are.                          *)
LEMMA AuctionStep ==
  ASSUME BoxInv, NEW c \in Chars, BagStep(c), NEW d \in Chars, QueueStep(d),
         \A b \in Chars : \A m : Mails(queue'[b], m) >= Mails(queue[b], m),
         UNCHANGED <<alive, outbox, inbox, window>>,
         gone' \in [Kinds -> Nat], faults' \in 0..MaxFaults
  PROVE  /\ BoxInv'
         /\ \A k \in Kinds :
              /\ Total(bag', purse', outbox', inbox', queue', k)
                   = Total(bag, purse, outbox, inbox, queue, k) + BagGain(c, k) + QueueGain(d, k)
              /\ Total(bag, purse, outbox, inbox, queue, k) \in Nat
              /\ BagGain(c, k) \in Int /\ QueueGain(d, k) \in Int
<1>1. /\ BagTypes(bag', purse') /\ Fits(bag') /\ SameBagsBut(bag, purse, bag', purse', c)
      /\ QueueTypes(queue') /\ SameQueuesBut(queue, queue', d)
  BY DEF BagStep, QueueStep
<1>2. BoxTypes(bag, purse, outbox, inbox, queue) /\ BoxTypes(bag', purse', outbox', inbox', queue')
  BY <1>1 DEF BoxInv, BoxTypes
<1>3. HaveMail(outbox', queue')
  <2> SUFFICES ASSUME NEW a \in Chars, NEW b \in Chars, NEW g \in Goods
               PROVE  Receipts(outbox'[a], b, g) <= Mails(queue'[b], [item |-> g, from |-> a])
    BY DEF HaveMail
  <2> DEFINE m == [item |-> g, from |-> a]
  <2>1. Receipts(outbox[a], b, g) <= Mails(queue[b], m)
    BY DEF BoxInv, HaveMail
  <2>2. Mails(queue'[b], m) >= Mails(queue[b], m) /\ outbox' = outbox
    OBVIOUS
  <2> HIDE DEF m
  <2>3. Mails(queue'[b], m) \in Nat /\ Mails(queue[b], m) \in Nat
    BY <1>1, MailsIsNat DEF BoxInv, BoxTypes
  <2>4. Receipts(outbox[a], b, g) \in Nat
    BY ReceiptsIsNat
  <2>5. Receipts(outbox'[a], b, g) <= Mails(queue'[b], m)
    BY <2>1, <2>2, <2>3, <2>4
  <2> QED BY <2>5 DEF m
<1>4. BoxInv'
  <2>1. /\ alive \in SUBSET Chars /\ MarkedWereSent(outbox) /\ window \in [Chars -> Window]
        /\ Shows(window, outbox, inbox)
    BY DEF BoxInv
  <2>2. alive' = alive /\ outbox' = outbox /\ inbox' = inbox /\ window' = window
    OBVIOUS
  <2> QED BY <1>1, <1>2, <1>3, <2>1, <2>2 DEF BoxInv
<1>5. ASSUME NEW k \in Kinds
      PROVE  /\ Total(bag', purse', outbox', inbox', queue', k)
                  = Total(bag, purse, outbox, inbox, queue, k) + BagGain(c, k) + QueueGain(d, k)
             /\ Total(bag, purse, outbox, inbox, queue, k) \in Nat
             /\ BagGain(c, k) \in Int /\ QueueGain(d, k) \in Int
  <2> DEFINE x == InBag(bag'[c], purse'[c], k) - InBag(bag[c], purse[c], k)
             z == SeqSum(queue'[d], Weights(k)) - SeqSum(queue[d], Weights(k))
  <2>1. Sum(InBags(bag', purse', k), Chars) = Sum(InBags(bag, purse, k), Chars) + x /\ x \in Int
    BY <1>1, <1>2, BagsChange DEF BoxTypes
  <2>2. Sum(InQueues(queue', k), Chars) = Sum(InQueues(queue, k), Chars) + z /\ z \in Int
    BY <1>1, <1>2, QueuesChange DEF BoxTypes
  <2>3. x = BagGain(c, k) /\ z = QueueGain(d, k)
    BY DEF BagGain, QueueGain
  <2> HIDE DEF x, z
  <2>4. PICK y \in Int : y = 0
    OBVIOUS
  <2>5. Sum(InBoxes(outbox', inbox', k), Chars) = Sum(InBoxes(outbox, inbox, k), Chars) + y
    <3>1. Sum(InBoxes(outbox, inbox, k), Chars) \in Nat
      BY <1>2, TotalIs
    <3> QED BY <2>4, <3>1
  <2>6. Total(bag', purse', outbox', inbox', queue', k)
          = Total(bag, purse, outbox, inbox, queue, k) + x + y + z
        /\ Total(bag, purse, outbox, inbox, queue, k) \in Nat
    <3>1. PICK bh, pv, oc, ic, qv : bh = bag' /\ pv = purse' /\ oc = outbox' /\ ic = inbox' /\ qv = queue'
      OBVIOUS
    <3>2. /\ BoxTypes(bh, pv, oc, ic, qv)
          /\ Sum(InBags(bh, pv, k), Chars) = Sum(InBags(bag, purse, k), Chars) + x
          /\ Sum(InBoxes(oc, ic, k), Chars) = Sum(InBoxes(outbox, inbox, k), Chars) + y
          /\ Sum(InQueues(qv, k), Chars) = Sum(InQueues(queue, k), Chars) + z
      BY <1>2, <2>1, <2>2, <2>5, <3>1
    <3>3. x \in Int /\ z \in Int /\ BoxTypes(bag, purse, outbox, inbox, queue)
      BY <1>2, <2>1, <2>2
    <3>4. Total(bh, pv, oc, ic, qv, k) = Total(bag, purse, outbox, inbox, queue, k) + x + y + z
          /\ Total(bag, purse, outbox, inbox, queue, k) \in Nat
      BY <3>2, <3>3, TotalChanges
    <3> QED BY <3>1, <3>4
  <2>7. BagGain(c, k) \in Int /\ QueueGain(d, k) \in Int
    BY <2>1, <2>2, <2>3
  <2> QED BY <2>3, <2>4, <2>6, <2>7
<1> QED BY <1>4, <1>5

(* The books of the auction house, after a step.                            *)
LEMMA Books ==
  ASSUME AuctionInv, NEW k \in Kinds, NEW x \in Int, NEW y \in Int, NEW z \in Int, NEW w \in Int,
         NEW T, T = Total(bag, purse, outbox, inbox, queue, k) + x,
         NEW U, U = Unsold(listings, MailedId, k) + y,
         NEW G, G = gone[k] + z, NEW C, C = Copies(copied, k) + w, x + y + z = w
  PROVE  T + U + G = Start(k) + C
<1>1. Total(bag, purse, outbox, inbox, queue, k) + Unsold(listings, MailedId, k) + gone[k]
        = Start(k) + Copies(copied, k)
  BY DEF AuctionInv, Balanced
<1>2. Unsold(listings, MailedId, k) \in Nat
  BY LeftType DEF AuctionInv, ListingsTyped
<1>3. gone[k] \in Nat
  BY DEF AuctionInv, BoxInv
<1>4. Copies(copied, k) \in Nat
  BY DEF AuctionInv, ListingsTyped, Copies, Kinds
<1>5. Start(k) \in Nat
  BY StartType
<1>6. Total(bag, purse, outbox, inbox, queue, k) \in Nat
  BY TotalType DEF AuctionInv, BoxInv
<1> QED BY <1>1, <1>2, <1>3, <1>4, <1>5, <1>6

NextBalanced(m, k) ==
  Total(bag', purse', outbox', inbox', queue', k) + Unsold(listings', m, k) + gone'[k]
    = Start(k) + Copies(copied', k)

LEMMA BalancedNext ==
  ASSUME NEW m, m = MailedId', \A k \in Kinds : NextBalanced(m, k)
  PROVE  Balanced'
BY DEF Balanced, NextBalanced

LEMMA AuctionInit == ASSUME Init PROVE AuctionInv
<1>1. /\ alive = Chars /\ bag = Belongings /\ purse = Savings
      /\ outbox = [c \in Chars |-> NoCells] /\ inbox = [c \in Chars |-> NoCells]
      /\ queue = [c \in Chars |-> <<>>]
      /\ window = [c \in Chars |-> [box |-> "none", cells |-> NoCells]]
      /\ gone = [g \in Kinds |-> 0] /\ faults = 0
      /\ listings = <<>> /\ expiring = <<>> /\ mailed = FALSE /\ copied = [g \in Goods |-> 0]
  BY DEF Init, BoxInit, Kinds
<1>2. BoxTypes(bag, purse, outbox, inbox, queue)
  <2>1. <<>> \in Seq(Mail)
    OBVIOUS
  <2> QED BY <1>1, <2>1, DeliveryAssumption DEF BoxTypes, BagTypes, RowTypes, QueueTypes, NoCells
<1>3. Fits(bag)
  BY <1>1, DeliveryAssumption DEF Fits
<1>4. HaveMail(outbox, queue)
  <2> SUFFICES ASSUME NEW a \in Chars, NEW b \in Chars, NEW g \in Goods
               PROVE  Receipts(outbox[a], b, g) <= Mails(queue[b], [item |-> g, from |-> a])
    BY DEF HaveMail
  <2> PICK m : m = [item |-> g, from |-> a]
    OBVIOUS
  <2>1. {s \in Cells : IsReceipt(outbox[a][s], b, g)} = {}
    BY <1>1 DEF IsReceipt, NoCells
  <2>2. Receipts(outbox[a], b, g) = 0
    BY <2>1, FS_EmptySet DEF Receipts
  <2>3. Mails(queue[b], m) \in Nat
    BY <1>2, MailsIsNat DEF BoxTypes
  <2> QED BY <2>2, <2>3
<1>5. BoxInv
  <2>1. window \in [Chars -> Window]
    BY <1>1 DEF Window, NoCells
  <2>2. MarkedWereSent(outbox) /\ Shows(window, outbox, inbox)
    BY <1>1 DEF MarkedWereSent, Shows, NoCells
  <2>3. gone \in [Kinds -> Nat] /\ faults \in 0..MaxFaults /\ alive \in SUBSET Chars
    BY <1>1, DeliveryAssumption
  <2> QED BY <1>2, <1>3, <1>4, <2>1, <2>2, <2>3 DEF BoxInv
<1>6. ListingsTyped
  <2>1. <<>> \in Seq(Listing \cup {None}) /\ <<>> \in Seq(Expiry) /\ Len(<<>>) = 0
    OBVIOUS
  <2>2. 0 <= MaxListings
    BY AuctionAssumption
  <2>3. copied \in [Goods -> Nat]
    BY <1>1
  <2> QED BY <1>1, <2>1, <2>2, <2>3 DEF ListingsTyped
<1>7. ExpiringKnown
  BY <1>1 DEF ExpiringKnown
<1>8. ASSUME NEW k \in Kinds
      PROVE  Total(bag, purse, outbox, inbox, queue, k) + Unsold(listings, MailedId, k) + gone[k]
               = Start(k) + Copies(copied, k)
  <2>1. Sum(InBags(bag, purse, k), Chars) = Start(k)
    BY <1>1, StartType
  <2>2. Sum(InBoxes(outbox, inbox, k), Chars) = 0
    <3> DEFINE f == InBoxes(outbox, inbox, k)
               h == [s \in Cells |-> Cell(NoCells[s], NoCells[s], k)]
    <3>1. Sum(h, Cells) = 0
      <4>1. \A s \in Cells : h[s] = 0
        BY DEF Cell, NoCells
      <4> HIDE DEF h
      <4> QED BY <4>1, SumZero, DeliveryAssumption
    <3>2. \A c \in Chars : f[c] = 0
      <4>1. InCells(NoCells, NoCells, k) = 0
        BY <3>1 DEF InCells
      <4> QED BY <1>1, <4>1 DEF InBoxes
    <3> HIDE DEF f
    <3>3. Sum(f, Chars) = 0
      BY <3>2, SumZero, DeliveryAssumption
    <3> QED BY <3>3 DEF f
  <2>3. Sum(InQueues(queue, k), Chars) = 0
    <3> DEFINE f == InQueues(queue, k)
    <3>1. \A c \in Chars : f[c] = 0
      BY <1>1, SeqSumEmpty DEF InQueues
    <3> HIDE DEF f
    <3>2. Sum(f, Chars) = 0
      BY <3>1, SumZero, DeliveryAssumption
    <3> QED BY <3>2 DEF f
  <2>4. Unsold(listings, MailedId, k) = 0
    <3>1. Left(listings, MailedId, k) = {}
      BY <1>1 DEF Left
    <3> QED BY <3>1, FS_EmptySet DEF Unsold
  <2>5. gone[k] = 0 /\ Copies(copied, k) = 0
    BY <1>1 DEF Copies, Kinds
  <2>6. Start(k) \in Nat
    BY StartType
  <2>7. Total(bag, purse, outbox, inbox, queue, k) = Start(k)
    <3>1. Total(bag, purse, outbox, inbox, queue, k)
            = Sum(InBags(bag, purse, k), Chars) + Sum(InBoxes(outbox, inbox, k), Chars)
                + Sum(InQueues(queue, k), Chars)
      BY <1>2, TotalIs
    <3> QED BY <2>1, <2>2, <2>3, <2>6, <3>1
  <2> QED BY <2>4, <2>5, <2>6, <2>7
<1> QED BY <1>5, <1>6, <1>7, <1>8 DEF AuctionInv, Balanced

(* A handler of the boxes.                                                  *)
LEMMA MailKeeps == ASSUME AuctionInv, BoxNext, UNCHANGED auctionVars PROVE AuctionInv'
<1>1. BoxInv' /\ Kept
  BY BoxNextKeeps DEF AuctionInv
<1>2. listings' = listings /\ expiring' = expiring /\ mailed' = mailed /\ copied' = copied
  BY DEF auctionVars
<1>3. ListingsTyped' /\ ExpiringKnown'
  BY <1>2 DEF AuctionInv, ListingsTyped, ExpiringKnown
<1> PICK m : m = MailedId
  OBVIOUS
<1>4. m = MailedId'
  BY <1>2 DEF MailedId
<1>5. ASSUME NEW k \in Kinds PROVE NextBalanced(m, k)
  <2>1. Total(bag, purse, outbox, inbox, queue, k) + Unsold(listings, m, k) + gone[k]
          = Start(k) + Copies(copied, k)
    BY DEF AuctionInv, Balanced
  <2>2. Total(bag', purse', outbox', inbox', queue', k) + gone'[k]
          = Total(bag, purse, outbox, inbox, queue, k) + gone[k]
    BY <1>1 DEF Kept
  <2>3. gone[k] \in Int /\ gone'[k] \in Int
    BY <1>1, GoneIsInt DEF AuctionInv, BoxInv
  <2>4. Total(bag, purse, outbox, inbox, queue, k) \in Int
    BY TotalType DEF AuctionInv, BoxInv
  <2>5. Total(bag', purse', outbox', inbox', queue', k) \in Int
    <3>1. BoxTypes(bag', purse', outbox', inbox', queue')
      BY <1>1 DEF BoxInv
    <3> QED BY <3>1, TotalType
  <2>6. Unsold(listings, m, k) \in Int
    <3>1. listings \in Seq(Listing \cup {None})
      BY DEF AuctionInv, ListingsTyped
    <3> QED BY <3>1, LeftType
  <2>7. Total(bag', purse', outbox', inbox', queue', k) + Unsold(listings, m, k) + gone'[k]
          = Start(k) + Copies(copied, k)
    <3>1. PICK T, g : T = Total(bag', purse', outbox', inbox', queue', k) /\ g = gone'[k]
      OBVIOUS
    <3>2. /\ T + g = Total(bag, purse, outbox, inbox, queue, k) + gone[k]
          /\ T \in Int /\ g \in Int
      BY <2>2, <2>3, <2>5, <3>1
    <3>3. T + Unsold(listings, m, k) + g = Start(k) + Copies(copied, k)
      BY <2>1, <2>3, <2>4, <2>6, <3>2
    <3> QED BY <3>1, <3>3
  <2> QED BY <1>2, <2>7 DEF NextBalanced
<1>6. Balanced'
  BY <1>4, <1>5, BalancedNext
<1> QED BY <1>1, <1>3, <1>6 DEF AuctionInv

(* A bag, a queue and the listings change.                                  *)
Moved(c, d, m) ==
  \A k \in Kinds : \E y, z, w \in Int :
    /\ Unsold(listings', m, k) = Unsold(listings, MailedId, k) + y
    /\ gone'[k] = gone[k] + z
    /\ Copies(copied', k) = Copies(copied, k) + w
    /\ BagGain(c, k) + QueueGain(d, k) + y + z = w

LEMMA AuctionKeeps ==
  ASSUME AuctionInv, NEW c \in Chars, BagStep(c), NEW d \in Chars, QueueStep(d),
         \A b \in Chars : \A n : Mails(queue'[b], n) >= Mails(queue[b], n),
         UNCHANGED <<alive, outbox, inbox, window>>,
         gone' \in [Kinds -> Nat], faults' \in 0..MaxFaults,
         ListingsTyped', ExpiringKnown', NEW m, m = MailedId', Moved(c, d, m)
  PROVE  AuctionInv'
<1>1. /\ BoxInv'
      /\ \A k \in Kinds :
           /\ Total(bag', purse', outbox', inbox', queue', k)
                = Total(bag, purse, outbox, inbox, queue, k) + BagGain(c, k) + QueueGain(d, k)
           /\ BagGain(c, k) \in Int /\ QueueGain(d, k) \in Int
           /\ Total(bag, purse, outbox, inbox, queue, k) \in Nat
  <2>1. BoxInv
    BY DEF AuctionInv
  <2> QED BY <2>1, AuctionStep
<1>2. ASSUME NEW k \in Kinds PROVE NextBalanced(m, k)
  <2>1. PICK y \in Int, z \in Int, w \in Int :
          /\ Unsold(listings', m, k) = Unsold(listings, MailedId, k) + y
          /\ gone'[k] = gone[k] + z
          /\ Copies(copied', k) = Copies(copied, k) + w
          /\ BagGain(c, k) + QueueGain(d, k) + y + z = w
    BY DEF Moved
  <2>2. PICK x \in Int : x = BagGain(c, k) + QueueGain(d, k)
    <3>1. BagGain(c, k) \in Int /\ QueueGain(d, k) \in Int
      BY <1>1
    <3> QED BY <3>1
  <2>3. x + y + z = w
    BY <2>1, <2>2
  <2>4. PICK T, U, G, C : /\ T = Total(bag', purse', outbox', inbox', queue', k)
                          /\ U = Unsold(listings', m, k) /\ G = gone'[k] /\ C = Copies(copied', k)
    OBVIOUS
  <2>5. T = Total(bag, purse, outbox, inbox, queue, k) + x
    <3>1. /\ T = Total(bag, purse, outbox, inbox, queue, k) + BagGain(c, k) + QueueGain(d, k)
          /\ BagGain(c, k) \in Int /\ QueueGain(d, k) \in Int
          /\ Total(bag, purse, outbox, inbox, queue, k) \in Nat
      BY <1>1, <2>4
    <3> QED BY <2>2, <3>1
  <2>6. /\ U = Unsold(listings, MailedId, k) + y /\ G = gone[k] + z
        /\ C = Copies(copied, k) + w
    BY <2>1, <2>4
  <2>7. T + U + G = Start(k) + C
    BY <2>3, <2>5, <2>6, Books
  <2> QED BY <2>4, <2>7 DEF NextBalanced
<1>3. Balanced'
  BY <1>2, BalancedNext
<1> QED BY <1>1, <1>3 DEF AuctionInv

(* Only listings change.                                                    *)
LEMMA ListingsKeep ==
  ASSUME AuctionInv, UNCHANGED <<alive, bag, purse, outbox, inbox, queue, window, gone>>,
         faults' \in 0..MaxFaults, ListingsTyped', ExpiringKnown', NEW m, m = MailedId',
         \A k \in Kinds : \E w \in Int :
           /\ Unsold(listings', m, k) = Unsold(listings, MailedId, k) + w
           /\ Copies(copied', k) = Copies(copied, k) + w
  PROVE  AuctionInv'
<1>1. BoxInv'
  BY DEF AuctionInv, BoxInv
<1>2. ASSUME NEW k \in Kinds PROVE NextBalanced(m, k)
  <2>1. PICK w \in Int :
          /\ Unsold(listings', m, k) = Unsold(listings, MailedId, k) + w
          /\ Copies(copied', k) = Copies(copied, k) + w
    OBVIOUS
  <2>2. PICK T, U, G, C : /\ T = Total(bag', purse', outbox', inbox', queue', k)
                          /\ U = Unsold(listings', m, k) /\ G = gone'[k] /\ C = Copies(copied', k)
    OBVIOUS
  <2>3. PICK x \in Int : x = 0
    OBVIOUS
  <2>4. T = Total(bag, purse, outbox, inbox, queue, k) + x
    <3>1. Total(bag, purse, outbox, inbox, queue, k) \in Nat
      BY TotalType DEF AuctionInv, BoxInv
    <3> QED BY <2>2, <2>3, <3>1
  <2>5. G = gone[k] + x
    <3>1. gone[k] \in Int
      BY GoneIsInt DEF AuctionInv
    <3> QED BY <2>2, <2>3, <3>1
  <2>6. U = Unsold(listings, MailedId, k) + w /\ C = Copies(copied, k) + w /\ x + w + x = w
    BY <2>1, <2>2, <2>3
  <2>7. T + U + G = Start(k) + C
    BY <2>4, <2>5, <2>6, Books
  <2> QED BY <2>2, <2>7 DEF NextBalanced
<1>3. Balanced'
  BY <1>2, BalancedNext
<1> QED BY <1>1, <1>3 DEF AuctionInv

(* A listing is sold or withdrawn, and its item handed out.                 *)
LEMMA ListingGoes ==
  ASSUME AuctionInv, NEW i \in Listed, listings' = [listings EXCEPT ![i] = None],
         HandedOut(i), UNCHANGED <<expiring, mailed>>
  PROVE  /\ ListingsTyped' /\ ExpiringKnown' /\ MailedId' = MailedId
         /\ \A k \in Kinds : \E y, w \in Int :
              /\ Unsold(listings', MailedId, k) = Unsold(listings, MailedId, k) + y
              /\ Copies(copied', k) = Copies(copied, k) + w
              /\ (IF listings[i].good = k THEN 1 ELSE 0) + y = w
         /\ listings[i] \in Listing
<1>1. /\ listings \in Seq(Listing \cup {None}) /\ Len(listings) <= MaxListings
      /\ expiring \in Seq(Expiry) /\ mailed \in BOOLEAN /\ (mailed => expiring # <<>>)
      /\ copied \in [Goods -> Nat]
  BY DEF AuctionInv, ListingsTyped
<1>2. i \in DOMAIN listings /\ listings[i] # None
  BY DEF Listed
<1>3. listings[i] \in Listing /\ listings[i].good \in Goods
  <2>1. listings[i] \in Listing \cup {None}
    BY <1>1, <1>2, LenProperties
  <2> QED BY <1>2, <2>1 DEF Listing
<1>4. MailedId' = MailedId
  BY DEF MailedId
<1>5. PICK ls, m : ls = listings' /\ m = MailedId
  OBVIOUS
<1>6. ls = [listings EXCEPT ![i] = None]
  BY <1>5
<1>7. /\ ls \in Seq(Listing \cup {None}) /\ Len(ls) = Len(listings) /\ DOMAIN ls = DOMAIN listings
      /\ ls[i] = None /\ \A j \in DOMAIN listings : j # i => ls[j] = listings[j]
  BY <1>1, <1>2, <1>6, ListingRemoved
<1>8. ASSUME NEW k
      PROVE  Unsold(ls, m, k) = Unsold(listings, m, k) - (IF listings[i].good = k /\ i # m THEN 1 ELSE 0)
  <2>1. listings \in Seq(Listing \cup {None})
    BY <1>1
  <2>2. Removed(ls, listings, i)
    BY <1>6 DEF Removed
  <2>3. Unsold(ls, m, k) = Unsold(listings, m, k) - Counts(listings, i, m, k)
    BY <1>2, <2>1, <2>2, LeftRemoved
  <2> QED BY <2>3 DEF Counts
<1>9. Mailed(i) <=> i = m
  BY <1>2, <1>5, MailedIdIs
<1>10. copied' = IF i = m THEN [copied EXCEPT ![listings[i].good] = @ + 1] ELSE copied
  BY <1>9 DEF HandedOut
<1>11. /\ copied' \in [Goods -> Nat]
       /\ \A k \in Goods : copied'[k] = copied[k] + (IF i = m /\ listings[i].good = k THEN 1 ELSE 0)
  BY <1>1, <1>3, <1>10
<1>12. ListingsTyped'
  <2>1. listings' \in Seq(Listing \cup {None}) /\ Len(listings') <= MaxListings
    BY <1>1, <1>5, <1>7
  <2> QED BY <1>1, <1>11, <2>1 DEF ListingsTyped
<1>13. ExpiringKnown'
  <2>1. \A k \in DOMAIN expiring :
          /\ expiring[k].id \in DOMAIN listings
          /\ listings[expiring[k].id] # None => listings[expiring[k].id].good = expiring[k].good
    BY DEF AuctionInv, ExpiringKnown
  <2>2. \A k \in DOMAIN expiring :
          /\ expiring[k].id \in DOMAIN ls
          /\ ls[expiring[k].id] # None => ls[expiring[k].id].good = expiring[k].good
    BY <1>7, <2>1
  <2> QED BY <1>5, <2>2 DEF ExpiringKnown
<1>14. ASSUME NEW k \in Kinds
       PROVE  \E y, w \in Int :
              /\ Unsold(listings', MailedId, k) = Unsold(listings, MailedId, k) + y
              /\ Copies(copied', k) = Copies(copied, k) + w
              /\ (IF listings[i].good = k THEN 1 ELSE 0) + y = w
  <2> DEFINE y == 0 - (IF listings[i].good = k /\ i # m THEN 1 ELSE 0)
             w == IF i = m /\ listings[i].good = k THEN 1 ELSE 0
  <2>1. y \in Int /\ w \in Int /\ (IF listings[i].good = k THEN 1 ELSE 0) + y = w
    OBVIOUS
  <2>2. Unsold(ls, m, k) = Unsold(listings, m, k) + y
    <3>1. Unsold(listings, m, k) \in Nat
      BY <1>1, LeftType
    <3>2. Unsold(ls, m, k) = Unsold(listings, m, k) - (IF listings[i].good = k /\ i # m THEN 1 ELSE 0)
      BY <1>8
    <3> QED BY <3>1, <3>2
  <2>3. Copies(copied', k) = Copies(copied, k) + w
    <3>1. CASE k = Gil
      <4>1. w = 0
        BY <1>3, <3>1, DeliveryAssumption
      <4> QED BY <3>1, <4>1 DEF Copies
    <3>2. CASE k # Gil
      <4>1. k \in Goods
        BY <3>2 DEF Kinds
      <4> QED BY <1>11, <3>2, <4>1 DEF Copies
    <3> QED BY <3>1, <3>2
  <2> HIDE DEF y, w
  <2>4. Unsold(listings', MailedId, k) = Unsold(listings, MailedId, k) + y
    BY <1>5, <2>2
  <2> QED BY <2>1, <2>3, <2>4
<1> QED BY <1>3, <1>4, <1>12, <1>13, <1>14

LEMMA SellKeeps ==
  ASSUME AuctionInv, NEW c \in Chars, NEW g \in Goods, NEW price \in Sums, Sell(c, g, price)
  PROVE  AuctionInv'
<1> PICK x : x = [good |-> g, seller |-> c, price |-> price]
  OBVIOUS
<1>1. /\ bag[c][g] > 0 /\ purse[c] >= Fee /\ Len(listings) < MaxListings
      /\ bag' = [bag EXCEPT ![c][g] = bag[c][g] - 1]
      /\ purse' = [purse EXCEPT ![c] = purse[c] - Fee]
      /\ gone' = [gone EXCEPT ![Gil] = gone[Gil] + Fee]
      /\ listings' = Append(listings, x)
      /\ UNCHANGED <<alive, outbox, inbox, queue, window, faults, expiring, mailed, copied>>
  BY DEF Sell
<1>2. BoxInv /\ ListingsTyped /\ ExpiringKnown
  BY DEF AuctionInv
<1>3. /\ bag \in [Chars -> [Goods -> Nat]] /\ purse \in [Chars -> Nat] /\ gone \in [Kinds -> Nat]
      /\ faults \in 0..MaxFaults
  BY <1>2 DEF BoxInv, BoxTypes, BagTypes
<1>4. /\ listings \in Seq(Listing \cup {None}) /\ expiring \in Seq(Expiry)
      /\ mailed \in BOOLEAN /\ (mailed => expiring # <<>>) /\ copied \in [Goods -> Nat]
  BY <1>2 DEF ListingsTyped
<1>5. PICK n, p : n = bag[c][g] - 1 /\ p = purse[c] - Fee
  OBVIOUS
<1>6. n \in Nat /\ p \in Nat /\ n <= bag[c][g] /\ Fee \in Nat
  BY <1>1, <1>3, <1>5, AuctionAssumption
<1>7. BagStep(c) /\ \A k \in Kinds : BagGain(c, k) = IF k = Gil THEN p - purse[c]
                                                     ELSE IF k = g THEN n - bag[c][g] ELSE 0
  <2>1. bag' = [bag EXCEPT ![c][g] = n] /\ purse' = [purse EXCEPT ![c] = p]
    BY <1>1, <1>5
  <2>2. HasRoom(c, g, n)
    BY <1>6 DEF HasRoom
  <2> QED BY <1>2, <1>6, <2>1, <2>2, GoodAndGil
<1>8. QueueStep(c) /\ \A k \in Kinds : QueueGain(c, k) = 0
  BY <1>1, <1>2, QueuesKept
<1>9. \A b \in Chars : \A m : Mails(queue'[b], m) >= Mails(queue[b], m)
  BY <1>1, <1>2, QueueSame
<1>10. gone' \in [Kinds -> Nat] /\ \A k \in Kinds : gone'[k] = gone[k] + (IF k = Gil THEN Fee ELSE 0)
  BY <1>1, <1>3, <1>6 DEF Kinds
<1>11. x \in Listing /\ x.good = g
  BY DEF Listing
<1>12. PICK r : r = listings'
  OBVIOUS
<1>13. /\ r \in Seq(Listing \cup {None}) /\ Len(r) = Len(listings) + 1
       /\ \A i \in DOMAIN listings : i \in DOMAIN r /\ r[i] = listings[i]
  <2>1. r = Append(listings, x)
    BY <1>1, <1>12
  <2>2. r \in Seq(Listing \cup {None}) /\ Len(r) = Len(listings) + 1
        /\ \A i \in 1..Len(listings) : r[i] = listings[i]
    BY <1>4, <1>11, <2>1, AppendProperties
  <2>3. DOMAIN r = 1..Len(r) /\ DOMAIN listings = 1..Len(listings) /\ Len(listings) \in Nat
    BY <1>4, <2>2, LenProperties
  <2> QED BY <2>2, <2>3
<1>14. ListingsTyped'
  <2>1. Len(r) <= MaxListings
    <3>1. Len(listings) \in Nat
      BY <1>4, LenProperties
    <3> QED BY <1>1, <1>13, <3>1, AuctionAssumption
  <2> QED BY <1>1, <1>4, <1>12, <1>13, <2>1 DEF ListingsTyped
<1>15. ExpiringKnown'
  <2>1. \A k \in DOMAIN expiring :
          /\ expiring[k].id \in DOMAIN listings
          /\ listings[expiring[k].id] # None => listings[expiring[k].id].good = expiring[k].good
    BY <1>2 DEF ExpiringKnown
  <2>2. \A k \in DOMAIN expiring :
          /\ expiring[k].id \in DOMAIN r
          /\ r[expiring[k].id] # None => r[expiring[k].id].good = expiring[k].good
    BY <1>13, <2>1
  <2> QED BY <1>1, <1>12, <2>2 DEF ExpiringKnown
<1>16. PICK m : m = MailedId
  OBVIOUS
<1>17. m = MailedId'
  BY <1>1, <1>16 DEF MailedId
<1>18. ASSUME NEW k \in Kinds
       PROVE  \E y, z, w \in Int :
         /\ Unsold(listings', m, k) = Unsold(listings, MailedId, k) + y
         /\ gone'[k] = gone[k] + z
         /\ Copies(copied', k) = Copies(copied, k) + w
         /\ BagGain(c, k) + QueueGain(c, k) + y + z = w
  <2> DEFINE y == IsOf(x, k)
             z == IF k = Gil THEN Fee ELSE 0
  <2>1. y \in Int /\ y = (IF k = g THEN 1 ELSE 0) /\ z \in Int
    BY <1>6, <1>11 DEF IsOf
  <2>2. Unsold(listings', m, k) = Unsold(listings, MailedId, k) + y
    <3>1. m # Len(listings) + 1
      BY <1>16, MailedIdIs
    <3>2. Unsold(Append(listings, x), m, k) = Unsold(listings, m, k) + y
      BY <1>4, <1>11, <3>1, LeftAppend
    <3> QED BY <1>1, <1>16, <3>2
  <2>3. gone'[k] = gone[k] + z
    BY <1>10
  <2>4. PICK w \in Int : w = 0
    OBVIOUS
  <2>5. Copies(copied', k) = Copies(copied, k) + w
    <3>1. Copies(copied, k) \in Nat
      BY <1>4 DEF Copies, Kinds
    <3> QED BY <1>1, <2>4, <3>1
  <2>6. BagGain(c, k) + QueueGain(c, k) + y + z = w
    <3>1. QueueGain(c, k) = 0 /\ purse[c] \in Int /\ bag[c][g] \in Int /\ Gil # g
      BY <1>3, <1>8, DeliveryAssumption
    <3>2. BagGain(c, k) = IF k = Gil THEN 0 - Fee ELSE IF k = g THEN 0 - 1 ELSE 0
      BY <1>5, <1>6, <1>7, <3>1
    <3> QED BY <1>6, <2>1, <2>4, <3>1, <3>2
  <2> HIDE DEF y, z
  <2> QED BY <2>1, <2>2, <2>3, <2>4, <2>5, <2>6
<1>19. Moved(c, c, m)
  BY <1>18 DEF Moved
<1>20. faults' \in 0..MaxFaults
  BY <1>1, <1>3
<1> QED BY <1>1, <1>7, <1>8, <1>9, <1>10, <1>14, <1>15, <1>17, <1>19, <1>20, AuctionKeeps

LEMMA BuyKeeps ==
  ASSUME AuctionInv, NEW c \in Chars, NEW g \in Goods, NEW bid \in Sums, Buy(c, g, bid)
  PROVE  AuctionInv'
<1>1. PICK i \in Cheapest(g) :
        /\ Room(c) /\ purse[c] >= bid
        /\ listings' = [listings EXCEPT ![i] = None]
        /\ purse' = [purse EXCEPT ![c] = purse[c] - bid]
        /\ bag' = [bag EXCEPT ![c][g] = bag[c][g] + 1]
        /\ queue' = Posted(listings[i].seller, bid, None)
        /\ HandedOut(i)
        /\ UNCHANGED <<alive, outbox, inbox, window, gone, faults, expiring, mailed>>
  BY DEF Buy
<1>2. i \in Listed /\ listings[i].good = g
  BY DEF Cheapest
<1>3. BoxInv
  BY DEF AuctionInv
<1>4. /\ bag \in [Chars -> [Goods -> Nat]] /\ purse \in [Chars -> Nat] /\ gone \in [Kinds -> Nat]
      /\ faults \in 0..MaxFaults
  BY <1>3 DEF BoxInv, BoxTypes, BagTypes
<1>5. /\ ListingsTyped' /\ ExpiringKnown' /\ MailedId' = MailedId /\ listings[i] \in Listing
      /\ \A k \in Kinds : \E y, w \in Int :
           /\ Unsold(listings', MailedId, k) = Unsold(listings, MailedId, k) + y
           /\ Copies(copied', k) = Copies(copied, k) + w
           /\ (IF listings[i].good = k THEN 1 ELSE 0) + y = w
  BY <1>1, <1>2, ListingGoes
<1>6. PICK d \in Chars : d = listings[i].seller
  BY <1>5 DEF Listing
<1>7. PICK none \in Chars \cup {None} : none = None
  OBVIOUS
<1>8. /\ QueueStep(d) /\ \A k \in Kinds : QueueGain(d, k) = Amount(bid, k)
      /\ \A b \in Chars : \A n : Mails(queue'[b], n)
           = Mails(queue[b], n) + One(b = d /\ n = [item |-> bid, from |-> none])
  <2>1. queue' = Posted(d, bid, none) /\ bid \in Goods \cup Sums
    BY <1>1, <1>6, <1>7
  <2> QED BY <1>3, <2>1, PostedComes
<1>9. ASSUME NEW b \in Chars, NEW n PROVE Mails(queue'[b], n) >= Mails(queue[b], n)
  <2>1. PICK o \in Nat : o = One(b = d /\ n = [item |-> bid, from |-> none])
    BY DEF One
  <2>2. Mails(queue[b], n) \in Nat
    BY <1>3, MailsIsNat DEF BoxInv, BoxTypes
  <2>3. Mails(queue'[b], n) = Mails(queue[b], n) + o
    BY <1>8, <2>1
  <2> QED BY <2>2, <2>3
<1>10. PICK n \in Nat, p \in Nat : n = bag[c][g] + 1 /\ p = purse[c] - bid
  BY <1>1, <1>4, DeliveryAssumption
<1>11. bid \in Nat
  BY DeliveryAssumption
<1>12. BagStep(c) /\ \A k \in Kinds : BagGain(c, k) = IF k = Gil THEN p - purse[c]
                                                      ELSE IF k = g THEN n - bag[c][g] ELSE 0
  <2>1. bag' = [bag EXCEPT ![c][g] = n] /\ purse' = [purse EXCEPT ![c] = p]
    BY <1>1, <1>10
  <2>2. HasRoom(c, g, n)
    BY <1>1, <1>10 DEF HasRoom
  <2> QED BY <1>3, <2>1, <2>2, GoodAndGil
<1>13. ASSUME NEW k \in Kinds
       PROVE  \E y, z, w \in Int :
         /\ Unsold(listings', MailedId, k) = Unsold(listings, MailedId, k) + y
         /\ gone'[k] = gone[k] + z
         /\ Copies(copied', k) = Copies(copied, k) + w
         /\ BagGain(c, k) + QueueGain(d, k) + y + z = w
  <2>1. PICK y \in Int, w \in Int :
           /\ Unsold(listings', MailedId, k) = Unsold(listings, MailedId, k) + y
           /\ Copies(copied', k) = Copies(copied, k) + w
           /\ (IF listings[i].good = k THEN 1 ELSE 0) + y = w
    BY <1>5
  <2>2. PICK z \in Int : z = 0
    OBVIOUS
  <2>3. gone'[k] = gone[k] + z
    <3>1. gone[k] \in Int /\ gone' = gone
      BY <1>1, <1>4
    <3> QED BY <2>2, <3>1
  <2>4. BagGain(c, k) + QueueGain(d, k) = IF g = k THEN 1 ELSE 0
    <3>1. QueueGain(d, k) = IF k = Gil THEN bid ELSE 0
      BY <1>8, DeliveryAssumption DEF Amount, Kinds
    <3>2. purse[c] \in Int /\ bag[c][g] \in Int /\ g # Gil
      BY <1>4, DeliveryAssumption
    <3>3. BagGain(c, k) = IF k = Gil THEN 0 - bid ELSE IF k = g THEN 1 ELSE 0
      BY <1>10, <1>11, <1>12, <3>2
    <3> QED BY <1>11, <3>1, <3>2, <3>3
  <2>5. BagGain(c, k) + QueueGain(d, k) + y + z = w
    <3>1. (IF g = k THEN 1 ELSE 0) + y = w
      BY <1>2, <2>1
    <3> QED BY <2>2, <2>4, <3>1
  <2> QED BY <2>1, <2>3, <2>5
<1>14. PICK m : m = MailedId
  OBVIOUS
<1>15. Moved(c, d, m) /\ m = MailedId'
  BY <1>5, <1>13, <1>14 DEF Moved
<1>16. gone' \in [Kinds -> Nat] /\ faults' \in 0..MaxFaults
  BY <1>1, <1>4
<1>17. UNCHANGED <<alive, outbox, inbox, window>>
  BY <1>1
<1> QED BY <1>5, <1>8, <1>9, <1>12, <1>15, <1>16, <1>17, AuctionKeeps

LEMMA CancelSaleKeeps ==
  ASSUME AuctionInv, NEW c \in Chars, CancelSale(c)
  PROVE  AuctionInv'
<1>1. PICK i \in Of(c) :
        /\ Room(c)
        /\ listings' = [listings EXCEPT ![i] = None]
        /\ bag' = [bag EXCEPT ![c][listings[i].good] = bag[c][listings[i].good] + 1]
        /\ HandedOut(i)
        /\ UNCHANGED <<alive, purse, outbox, inbox, queue, window, gone, faults, expiring, mailed>>
  BY DEF CancelSale
<1>2. i \in Listed
  BY DEF Of
<1>3. BoxInv
  BY DEF AuctionInv
<1>4. /\ bag \in [Chars -> [Goods -> Nat]] /\ gone \in [Kinds -> Nat] /\ faults \in 0..MaxFaults
  BY <1>3 DEF BoxInv, BoxTypes, BagTypes
<1>5. /\ ListingsTyped' /\ ExpiringKnown' /\ MailedId' = MailedId /\ listings[i] \in Listing
      /\ \A k \in Kinds : \E y, w \in Int :
           /\ Unsold(listings', MailedId, k) = Unsold(listings, MailedId, k) + y
           /\ Copies(copied', k) = Copies(copied, k) + w
           /\ (IF listings[i].good = k THEN 1 ELSE 0) + y = w
  BY <1>1, <1>2, ListingGoes
<1>6. PICK g \in Goods : g = listings[i].good
  BY <1>5 DEF Listing
<1>7. PICK n \in Nat : n = bag[c][g] + 1
  BY <1>4
<1>8. BagStep(c) /\ \A k \in Kinds : BagGain(c, k) = IF k = g THEN n - bag[c][g] ELSE 0
  <2>1. bag' = [bag EXCEPT ![c][g] = n] /\ purse' = purse
    BY <1>1, <1>6, <1>7
  <2>2. n = bag[c][g] + 1 /\ Room(c)
    BY <1>1, <1>7
  <2> QED BY <1>3, <2>1, <2>2, GoodComes
<1>9. QueueStep(c) /\ \A k \in Kinds : QueueGain(c, k) = 0
  BY <1>1, <1>3, QueuesKept
<1>10. \A b \in Chars : \A m : Mails(queue'[b], m) >= Mails(queue[b], m)
  BY <1>1, <1>3, QueueSame
<1>11. ASSUME NEW k \in Kinds
       PROVE  \E y, z, w \in Int :
         /\ Unsold(listings', MailedId, k) = Unsold(listings, MailedId, k) + y
         /\ gone'[k] = gone[k] + z
         /\ Copies(copied', k) = Copies(copied, k) + w
         /\ BagGain(c, k) + QueueGain(c, k) + y + z = w
  <2>1. PICK y \in Int, w \in Int :
           /\ Unsold(listings', MailedId, k) = Unsold(listings, MailedId, k) + y
           /\ Copies(copied', k) = Copies(copied, k) + w
           /\ (IF listings[i].good = k THEN 1 ELSE 0) + y = w
    BY <1>5
  <2>2. PICK z \in Int : z = 0
    OBVIOUS
  <2>3. gone'[k] = gone[k] + z
    <3>1. gone[k] \in Int /\ gone' = gone
      BY <1>1, <1>4
    <3> QED BY <2>2, <3>1
  <2>4. BagGain(c, k) = (IF g = k THEN 1 ELSE 0) /\ QueueGain(c, k) = 0
    <3>1. bag[c][g] \in Int
      BY <1>4
    <3> QED BY <1>7, <1>8, <1>9, <3>1
  <2>5. BagGain(c, k) + QueueGain(c, k) + y + z = w
    <3>1. (IF g = k THEN 1 ELSE 0) + y = w
      BY <1>6, <2>1
    <3> QED BY <2>2, <2>4, <3>1
  <2> QED BY <2>1, <2>3, <2>5
<1>12. PICK m : m = MailedId
  OBVIOUS
<1>13. Moved(c, c, m) /\ m = MailedId'
  BY <1>5, <1>11, <1>12 DEF Moved
<1>14. gone' \in [Kinds -> Nat] /\ faults' \in 0..MaxFaults
  BY <1>1, <1>4
<1>15. UNCHANGED <<alive, outbox, inbox, window>>
  BY <1>1
<1> QED BY <1>5, <1>8, <1>9, <1>10, <1>13, <1>14, <1>15, AuctionKeeps

LEMMA ListingsAre ==
  ASSUME AuctionInv
  PROVE  /\ listings \in Seq(Listing \cup {None}) /\ Len(listings) <= MaxListings
         /\ Len(listings) \in Nat /\ DOMAIN listings = 1..Len(listings)
         /\ expiring \in Seq(Expiry) /\ mailed \in BOOLEAN /\ (mailed => expiring # <<>>)
         /\ copied \in [Goods -> Nat] /\ faults \in 0..MaxFaults
         /\ \A i \in DOMAIN listings :
              /\ listings[i] \in Listing \cup {None} /\ i \in 1..MaxListings
         /\ \A k \in DOMAIN expiring :
              /\ expiring[k].id \in DOMAIN listings
              /\ listings[expiring[k].id] # None => listings[expiring[k].id].good = expiring[k].good
<1>1. ListingsTyped /\ ExpiringKnown /\ BoxInv
  BY DEF AuctionInv
<1>2. /\ listings \in Seq(Listing \cup {None}) /\ Len(listings) <= MaxListings
      /\ expiring \in Seq(Expiry) /\ mailed \in BOOLEAN /\ (mailed => expiring # <<>>)
      /\ copied \in [Goods -> Nat] /\ faults \in 0..MaxFaults
  BY <1>1 DEF ListingsTyped, BoxInv
<1>3. Len(listings) \in Nat /\ DOMAIN listings = 1..Len(listings)
      /\ \A i \in 1..Len(listings) : listings[i] \in Listing \cup {None}
  BY <1>2, LenProperties
<1>4. \A i \in 1..Len(listings) : i \in 1..MaxListings
  BY <1>2, <1>3, AuctionAssumption
<1>5. \A k \in DOMAIN expiring :
        /\ expiring[k].id \in DOMAIN listings
        /\ listings[expiring[k].id] # None => listings[expiring[k].id].good = expiring[k].good
  BY <1>1 DEF ExpiringKnown
<1> QED BY <1>2, <1>3, <1>4, <1>5

LEMMA CollectKeeps ==
  ASSUME AuctionInv, NEW last, ExpireCollect(last)
  PROVE  AuctionInv'
<1> DEFINE S == {i \in Listed : i <= last}
           Entry(i) == [id |-> i, good |-> listings[i].good, seller |-> listings[i].seller]
<1>1. PICK old \in SetToSeqs(S) : expiring' = [k \in DOMAIN old |-> Entry(old[k])]
  BY DEF ExpireCollect
<1>2. expiring = <<>> /\ UNCHANGED <<boxVars, listings, mailed, copied>>
  BY DEF ExpireCollect
<1>3. listings \in Seq(Listing \cup {None}) /\ Len(listings) <= MaxListings /\ mailed = FALSE
      /\ copied \in [Goods -> Nat] /\ faults \in 0..MaxFaults
  <2>1. mailed \in BOOLEAN /\ ~mailed
    BY <1>2, ListingsAre
  <2>2. mailed = FALSE
    BY <2>1
  <2> QED BY <2>2, ListingsAre
<1>4. S \in SUBSET DOMAIN listings /\ \A i \in S : Entry(i) \in Expiry /\ listings[i] # None
  <2>1. \A i \in S : i \in DOMAIN listings /\ listings[i] # None /\ listings[i] \in Listing
                     /\ i \in 1..MaxListings
    BY ListingsAre DEF Listed
  <2> QED BY <2>1 DEF Listing, Expiry
<1>5. Cardinality(S) \in Nat /\ old \in [1..Cardinality(S) -> S]
  <2>1. IsFiniteSet(DOMAIN listings)
    BY <1>3, LenProperties, FS_Interval
  <2>2. IsFiniteSet(S)
    BY <1>4, <2>1, FS_Subset
  <2> HIDE DEF S
  <2> QED BY <2>2, FS_CardinalityType DEF SetToSeqs
<1>6. DOMAIN expiring' = 1..Cardinality(S)
      /\ \A k \in DOMAIN expiring' : old[k] \in S /\ expiring'[k] = Entry(old[k])
  <2> HIDE DEF S, Entry
  <2> QED BY <1>1, <1>5
<1>7. expiring' \in Seq(Expiry)
  <2>1. PICK n \in Nat : n = Cardinality(S)
    BY <1>5
  <2>2. PICK x : x = expiring'
    OBVIOUS
  <2>3. x = [k \in DOMAIN old |-> Entry(old[k])] /\ DOMAIN old = 1..n
    BY <1>1, <1>5, <2>1, <2>2
  <2>4. \A k \in 1..n : Entry(old[k]) \in Expiry
    BY <1>4, <1>5, <2>1
  <2> HIDE DEF S, Entry
  <2>5. x \in [1..n -> Expiry]
    BY <2>3, <2>4
  <2>6. x \in Seq(Expiry)
    BY <2>1, <2>5, SeqDef
  <2> QED BY <2>2, <2>6
<1>8. ListingsTyped'
  BY <1>2, <1>3, <1>7 DEF ListingsTyped
<1>9. ExpiringKnown'
  <2>1. \A k \in DOMAIN expiring' :
          /\ expiring'[k].id \in DOMAIN listings
          /\ listings[expiring'[k].id] # None => listings[expiring'[k].id].good = expiring'[k].good
    <3>1. \A i \in S : Entry(i).id = i /\ Entry(i).good = listings[i].good /\ i \in DOMAIN listings
      BY <1>4
    <3> HIDE DEF S, Entry
    <3> QED BY <1>6, <3>1
  <2> QED BY <1>2, <2>1 DEF ExpiringKnown
<1>10. PICK m : m = MailedId
  OBVIOUS
<1>11. m = MailedId'
  BY <1>2, <1>3, <1>10 DEF MailedId
<1>12. ASSUME NEW k \in Kinds
       PROVE  \E w \in Int : /\ Unsold(listings', m, k) = Unsold(listings, MailedId, k) + w
                             /\ Copies(copied', k) = Copies(copied, k) + w
  <2>1. Unsold(listings, m, k) \in Nat /\ Copies(copied, k) \in Nat
    BY <1>3, LeftType DEF Copies, Kinds
  <2>2. Unsold(listings', m, k) = Unsold(listings, MailedId, k) /\ Copies(copied', k) = Copies(copied, k)
        /\ Unsold(listings, MailedId, k) \in Int
    BY <1>2, <1>10, <2>1
  <2>3. PICK w \in Int : w = 0
    OBVIOUS
  <2> QED BY <2>1, <2>2, <2>3
<1>13. UNCHANGED <<alive, bag, purse, outbox, inbox, queue, window, gone>> /\ faults' \in 0..MaxFaults
  BY <1>2, <1>3 DEF boxVars
<1> QED BY <1>8, <1>9, <1>11, <1>12, <1>13, ListingsKeep

LEMMA ExpireDeleteKeeps ==
  ASSUME AuctionInv, ExpireDelete
  PROVE  AuctionInv'
<1>1. /\ mailed /\ mailed' = FALSE /\ expiring' = Tail(expiring)
      /\ UNCHANGED <<boxVars, copied>>
  BY DEF ExpireDelete
<1>2. PICK i : i = Head(expiring).id
  OBVIOUS
<1>3. PICK ls : ls = listings'
  OBVIOUS
<1>4. ls = [listings EXCEPT ![i] = None]
  BY <1>2, <1>3 DEF ExpireDelete
<1>5. /\ listings \in Seq(Listing \cup {None}) /\ Len(listings) <= MaxListings
      /\ expiring \in Seq(Expiry) /\ expiring # <<>>
      /\ copied \in [Goods -> Nat] /\ faults \in 0..MaxFaults
  BY <1>1, ListingsAre
<1>6. i \in DOMAIN listings /\ i # 0
  BY <1>2, <1>5, MailedIdIs
<1>7. /\ ls \in Seq(Listing \cup {None}) /\ Len(ls) = Len(listings) /\ DOMAIN ls = DOMAIN listings
      /\ ls[i] = None /\ \A j \in DOMAIN listings : j # i => ls[j] = listings[j]
  BY <1>4, <1>5, <1>6, ListingRemoved
<1>8. Tail(expiring) \in Seq(Expiry) /\ Dropped(Tail(expiring), expiring, 1)
  BY <1>5, TailDrops
<1>9. ListingsTyped'
  BY <1>1, <1>3, <1>5, <1>7, <1>8 DEF ListingsTyped
<1>10. ExpiringKnown'
  <2>1. ASSUME NEW k \in DOMAIN Tail(expiring)
        PROVE  k + 1 \in DOMAIN expiring /\ Tail(expiring)[k] = expiring[k+1]
    <3>1. DOMAIN Tail(expiring) = 1..Len(Tail(expiring)) /\ Len(Tail(expiring)) \in Nat
          /\ DOMAIN expiring = 1..Len(expiring) /\ Len(expiring) \in Nat
      BY <1>5, <1>8, LenProperties
    <3>2. Len(Tail(expiring)) = Len(expiring) - 1
          /\ \A j \in 1..(Len(expiring) - 1) : Tail(expiring)[j] = IF j < 1 THEN expiring[j] ELSE expiring[j+1]
      BY <1>8 DEF Dropped
    <3> QED BY <3>1, <3>2
  <2>2. \A k \in DOMAIN expiring :
          /\ expiring[k].id \in DOMAIN ls
          /\ ls[expiring[k].id] # None => ls[expiring[k].id].good = expiring[k].good
    BY <1>7, ListingsAre
  <2>3. \A k \in DOMAIN Tail(expiring) :
          /\ Tail(expiring)[k].id \in DOMAIN ls
          /\ ls[Tail(expiring)[k].id] # None => ls[Tail(expiring)[k].id].good = Tail(expiring)[k].good
    BY <2>1, <2>2
  <2> QED BY <1>1, <1>3, <2>3 DEF ExpiringKnown
<1>11. PICK m : m = 0
  OBVIOUS
<1>12. m = MailedId' /\ i = MailedId
  BY <1>1, <1>2, <1>11 DEF MailedId
<1>13. ASSUME NEW k \in Kinds
       PROVE  \E w \in Int : /\ Unsold(listings', m, k) = Unsold(listings, MailedId, k) + w
                             /\ Copies(copied', k) = Copies(copied, k) + w
  <2>1. Left(ls, m, k) = Left(listings, i, k)
    <3>1. \A j \in DOMAIN listings : j # m
      BY <1>11, MailedIdIs
    <3> QED BY <1>7, <3>1 DEF Left
  <2>2. Unsold(ls, m, k) = Unsold(listings, i, k) /\ Unsold(listings, i, k) \in Nat
    BY <1>5, <2>1, LeftType DEF Unsold
  <2>3. Copies(copied, k) \in Nat
    BY <1>5 DEF Copies, Kinds
  <2>4. Unsold(listings', m, k) = Unsold(listings, MailedId, k) /\ Copies(copied', k) = Copies(copied, k)
        /\ Unsold(listings, MailedId, k) \in Int
    BY <1>1, <1>3, <1>12, <2>2
  <2>5. PICK w \in Int : w = 0
    OBVIOUS
  <2> QED BY <2>3, <2>4, <2>5
<1>14. UNCHANGED <<alive, bag, purse, outbox, inbox, queue, window, gone>> /\ faults' \in 0..MaxFaults
  BY <1>1, <1>5 DEF boxVars
<1> QED BY <1>9, <1>10, <1>12, <1>13, <1>14, ListingsKeep

(* What an item at the head of the expiration counts for, and its listing.  *)
LEMMA HeadIs ==
  ASSUME AuctionInv, expiring # <<>>
  PROVE  LET e == Head(expiring)
         IN  /\ e \in Expiry /\ e.id \in DOMAIN listings /\ e.id # 0
             /\ (e.id \in Listed <=> listings[e.id] # None)
             /\ (e.id \in Listed => listings[e.id].good = e.good)
             /\ \A k : ListedOf(listings, e.id, k) = IF e.id \in Listed /\ e.good = k THEN 1 ELSE 0
             /\ \A k : Unsold(listings, e.id, k) = Unsold(listings, 0, k) - ListedOf(listings, e.id, k)
             /\ \A k : Unsold(listings, 0, k) \in Nat
<1> PICK e : e = Head(expiring)
  OBVIOUS
<1>1. e \in Expiry /\ e.id \in DOMAIN listings /\ e.id # 0
  BY MailedIdIs
<1>2. e = expiring[1] /\ 1 \in DOMAIN expiring
  BY MailedIdIs
<1>3. listings[e.id] # None => listings[e.id].good = e.good
  BY <1>2, ListingsAre
<1>4. e.id \in Listed <=> listings[e.id] # None
  BY <1>1 DEF Listed
<1>5. \A k : ListedOf(listings, e.id, k) = IF e.id \in Listed /\ e.good = k THEN 1 ELSE 0
  BY <1>3, <1>4 DEF ListedOf
<1>6. listings \in Seq(Listing \cup {None})
  BY ListingsAre
<1>7. ASSUME NEW k
      PROVE  /\ Unsold(listings, e.id, k) = Unsold(listings, 0, k) - ListedOf(listings, e.id, k)
             /\ Unsold(listings, 0, k) \in Nat
  <2>1. PICK i : i = e.id
    OBVIOUS
  <2>2. Unsold(listings, i, k) = Unsold(listings, 0, k) - ListedOf(listings, i, k)
    BY <1>1, <1>6, <2>1, LeftMailed
  <2>3. PICK z : z = 0
    OBVIOUS
  <2>4. Unsold(listings, z, k) \in Nat
    BY <1>6, LeftType
  <2> QED BY <2>1, <2>2, <2>3, <2>4
<1> QED BY <1>1, <1>3, <1>4, <1>5, <1>7

LEMMA ExpireMailKeeps ==
  ASSUME AuctionInv, ExpireMail
  PROVE  AuctionInv'
<1> PICK e : e = Head(expiring)
  OBVIOUS
<1>1. /\ expiring # <<>> /\ mailed' = TRUE
      /\ queue' = Posted(e.seller, e.good, None)
      /\ copied' = IF e.id \in Listed THEN copied ELSE [copied EXCEPT ![e.good] = @ + 1]
      /\ UNCHANGED <<alive, bag, purse, outbox, inbox, window, gone, faults, listings, expiring>>
  BY DEF ExpireMail
<1>2. MailedId = 0
  BY DEF ExpireMail, MailedId
<1>3. /\ e \in Expiry /\ e.id \in DOMAIN listings
      /\ \A k : ListedOf(listings, e.id, k) = IF e.id \in Listed /\ e.good = k THEN 1 ELSE 0
      /\ \A k : Unsold(listings, e.id, k) = Unsold(listings, 0, k) - ListedOf(listings, e.id, k)
      /\ \A k : Unsold(listings, 0, k) \in Nat
  BY <1>1, HeadIs
<1>4. BoxInv
  BY DEF AuctionInv
<1>5. PICK d \in Chars, g \in Goods, none \in Chars \cup {None} :
        d = e.seller /\ g = e.good /\ none = None
  BY <1>3 DEF Expiry
<1>6. /\ QueueStep(d) /\ \A k \in Kinds : QueueGain(d, k) = Amount(g, k)
      /\ \A b \in Chars : \A n : Mails(queue'[b], n)
           = Mails(queue[b], n) + One(b = d /\ n = [item |-> g, from |-> none])
  <2>1. queue' = Posted(d, g, none) /\ g \in Goods \cup Sums
    BY <1>1, <1>5
  <2> QED BY <1>4, <2>1, PostedComes
<1>7. ASSUME NEW b \in Chars, NEW n PROVE Mails(queue'[b], n) >= Mails(queue[b], n)
  <2>1. PICK o \in Nat : o = One(b = d /\ n = [item |-> g, from |-> none])
    BY DEF One
  <2>2. Mails(queue[b], n) \in Nat
    BY <1>4, MailsIsNat DEF BoxInv, BoxTypes
  <2>3. Mails(queue'[b], n) = Mails(queue[b], n) + o
    BY <1>6, <2>1
  <2> QED BY <2>2, <2>3
<1>8. BagStep(d) /\ \A k \in Kinds : BagGain(d, k) = 0
  BY <1>1, <1>4, BagKept
<1>9. copied \in [Goods -> Nat]
  BY ListingsAre
<1>10. /\ copied' \in [Goods -> Nat]
       /\ \A k \in Goods : copied'[k] = copied[k] + (IF e.id \notin Listed /\ g = k THEN 1 ELSE 0)
  BY <1>1, <1>5, <1>9
<1>11. ListingsTyped' /\ ExpiringKnown'
  <2>1. ListingsTyped /\ ExpiringKnown
    BY DEF AuctionInv
  <2>2. ListingsTyped'
    BY <1>1, <1>10, <2>1 DEF ListingsTyped
  <2> QED BY <1>1, <2>1, <2>2 DEF ExpiringKnown
<1>12. PICK m : m = e.id
  OBVIOUS
<1>13. m = MailedId'
  BY <1>1, <1>12 DEF MailedId
<1>14. gone \in [Kinds -> Nat] /\ faults \in 0..MaxFaults
  BY <1>4 DEF BoxInv
<1>15. ASSUME NEW k \in Kinds
       PROVE  \E y, z, w \in Int :
         /\ Unsold(listings', m, k) = Unsold(listings, MailedId, k) + y
         /\ gone'[k] = gone[k] + z
         /\ Copies(copied', k) = Copies(copied, k) + w
         /\ BagGain(d, k) + QueueGain(d, k) + y + z = w
  <2> DEFINE y == IF e.id \in Listed /\ g = k THEN 0 - 1 ELSE 0
             w == IF e.id \notin Listed /\ g = k THEN 1 ELSE 0
  <2>1. Unsold(listings', m, k) = Unsold(listings, MailedId, k) + y
    <3>1. ListedOf(listings, e.id, k) = IF e.id \in Listed /\ g = k THEN 1 ELSE 0
      BY <1>3, <1>5
    <3>2. Unsold(listings, e.id, k) = Unsold(listings, 0, k) - ListedOf(listings, e.id, k)
          /\ Unsold(listings, 0, k) \in Nat
      BY <1>3
    <3>3. Unsold(listings, e.id, k) = Unsold(listings, 0, k) + y
      BY <3>1, <3>2
    <3> HIDE DEF y
    <3> QED BY <1>1, <1>2, <1>12, <3>3
  <2>2. PICK z \in Int : z = 0
    OBVIOUS
  <2>3. gone'[k] = gone[k] + z
    <3>1. gone[k] \in Int /\ gone' = gone
      BY <1>1, <1>14
    <3> QED BY <2>2, <3>1
  <2>4. Copies(copied', k) = Copies(copied, k) + w
    <3>1. CASE k = Gil
      <4>1. w = 0
        BY <3>1, DeliveryAssumption
      <4> QED BY <3>1, <4>1 DEF Copies
    <3>2. CASE k # Gil
      <4>1. k \in Goods
        BY <3>2 DEF Kinds
      <4> QED BY <1>10, <3>2, <4>1 DEF Copies
    <3> QED BY <3>1, <3>2
  <2>5. QueueGain(d, k) = (IF g = k THEN 1 ELSE 0) /\ BagGain(d, k) = 0
    BY <1>6, <1>8, DeliveryAssumption DEF Amount, Kinds
  <2>6. y \in Int /\ w \in Int /\ (IF g = k THEN 1 ELSE 0) + y = w
    OBVIOUS
  <2> HIDE DEF y, w
  <2>7. BagGain(d, k) + QueueGain(d, k) + y + z = w
    BY <2>2, <2>5, <2>6
  <2> QED BY <2>1, <2>3, <2>4, <2>6, <2>7
<1>16. Moved(d, d, m)
  BY <1>15 DEF Moved
<1>17. gone' \in [Kinds -> Nat] /\ faults' \in 0..MaxFaults /\ UNCHANGED <<alive, outbox, inbox, window>>
  BY <1>1, <1>14
<1> QED BY <1>6, <1>7, <1>8, <1>11, <1>13, <1>16, <1>17, AuctionKeeps

LEMMA SearchCrashKeeps ==
  ASSUME AuctionInv, SearchCrash
  PROVE  AuctionInv'
<1> PICK e : e = Head(expiring)
  OBVIOUS
<1>1. /\ expiring # <<>> /\ expiring' = <<>> /\ mailed' = FALSE
      /\ copied' = IF mailed /\ e.id \in Listed THEN [copied EXCEPT ![listings[e.id].good] = @ + 1]
                   ELSE copied
      /\ faults < MaxFaults /\ faults' = faults + 1
      /\ UNCHANGED <<alive, bag, purse, outbox, inbox, queue, window, gone, listings>>
  BY DEF SearchCrash
<1>2. /\ e \in Expiry /\ e.id \in DOMAIN listings
      /\ (e.id \in Listed => listings[e.id].good = e.good)
      /\ \A k : ListedOf(listings, e.id, k) = IF e.id \in Listed /\ e.good = k THEN 1 ELSE 0
      /\ \A k : Unsold(listings, e.id, k) = Unsold(listings, 0, k) - ListedOf(listings, e.id, k)
      /\ \A k : Unsold(listings, 0, k) \in Nat
  BY <1>1, HeadIs
<1>3. /\ listings \in Seq(Listing \cup {None}) /\ Len(listings) <= MaxListings
      /\ copied \in [Goods -> Nat] /\ faults \in 0..MaxFaults /\ mailed \in BOOLEAN
  BY ListingsAre
<1>4. PICK g \in Goods : g = e.good
  BY <1>2 DEF Expiry
<1>5. PICK again \in BOOLEAN : again <=> mailed /\ e.id \in Listed
  OBVIOUS
<1>6. /\ copied' \in [Goods -> Nat]
      /\ \A k \in Goods : copied'[k] = copied[k] + (IF again /\ g = k THEN 1 ELSE 0)
  <2>1. CASE again
    <3>1. copied' = [copied EXCEPT ![g] = @ + 1]
      BY <1>1, <1>2, <1>4, <1>5, <2>1
    <3> QED BY <1>3, <2>1, <3>1
  <2>2. CASE ~again
    <3>1. copied' = copied
      BY <1>1, <1>5, <2>2
    <3> QED BY <1>3, <2>2, <3>1
  <2> QED BY <2>1, <2>2
<1>7. ListingsTyped' /\ ExpiringKnown'
  <2>1. expiring' = <<>> /\ mailed' = FALSE /\ listings' = listings
    BY <1>1
  <2>2. <<>> \in Seq(Expiry)
    OBVIOUS
  <2>3. copied' \in [Goods -> Nat]
    BY <1>6
  <2>4. ListingsTyped'
    BY <1>3, <2>1, <2>2, <2>3 DEF ListingsTyped
  <2>5. ExpiringKnown'
    BY <2>1 DEF ExpiringKnown
  <2> QED BY <2>4, <2>5
<1>8. PICK m : m = 0
  OBVIOUS
<1>9. m = MailedId' /\ MailedId = IF mailed THEN e.id ELSE m
  BY <1>1, <1>8 DEF MailedId
<1>10. ASSUME NEW k \in Kinds
       PROVE  \E w \in Int : /\ Unsold(listings', m, k) = Unsold(listings, MailedId, k) + w
                             /\ Copies(copied', k) = Copies(copied, k) + w
  <2> DEFINE w == IF again /\ g = k THEN 1 ELSE 0
  <2>1. w \in Int
    OBVIOUS
  <2>2. Unsold(listings, m, k) = Unsold(listings, MailedId, k) + w
    <3>1. Unsold(listings, e.id, k) = Unsold(listings, m, k) - ListedOf(listings, e.id, k)
          /\ Unsold(listings, m, k) \in Nat
      BY <1>2, <1>8
    <3>2. CASE mailed
      <4>1. ListedOf(listings, e.id, k) = w
        BY <1>2, <1>4, <1>5, <3>2
      <4>2. MailedId = e.id
        BY <1>9, <3>2
      <4> HIDE DEF w
      <4> QED BY <2>1, <3>1, <4>1, <4>2
    <3>3. CASE ~mailed
      <4>1. w = 0 /\ MailedId = m
        BY <1>5, <1>9, <3>3
      <4> HIDE DEF w
      <4> QED BY <3>1, <4>1
    <3> QED BY <3>2, <3>3
  <2>3. Copies(copied', k) = Copies(copied, k) + w
    <3>1. CASE k = Gil
      <4>1. w = 0
        BY <3>1, DeliveryAssumption
      <4> QED BY <3>1, <4>1 DEF Copies
    <3>2. CASE k # Gil
      <4>1. k \in Goods
        BY <3>2 DEF Kinds
      <4> QED BY <1>6, <3>2, <4>1 DEF Copies
    <3> QED BY <3>1, <3>2
  <2> HIDE DEF w
  <2>4. Unsold(listings', m, k) = Unsold(listings, MailedId, k) + w
    BY <1>1, <2>2
  <2> QED BY <2>1, <2>3, <2>4
<1>11. faults' \in 0..MaxFaults
  BY <1>1, <1>3, DeliveryAssumption
<1>12. UNCHANGED <<alive, bag, purse, outbox, inbox, queue, window, gone>>
  BY <1>1
<1> QED BY <1>7, <1>9, <1>10, <1>11, <1>12, ListingsKeep

LEMMA SeqIs ==
  ASSUME NEW S, NEW n \in Nat, NEW q \in [1..n -> S]
  PROVE  q \in Seq(S) /\ Len(q) = n
<1>1. q \in Seq(S)
  BY SeqDef
<1>2. Len(q) \in Nat /\ DOMAIN q = 1..Len(q) /\ DOMAIN q = 1..n
  BY <1>1, LenProperties
<1>3. PICK l \in Nat : l = Len(q)
  BY <1>2
<1>4. 1..l = 1..n
  BY <1>2, <1>3
<1>5. ~ (l < n)
  <2>1. l < n => n \in 1..n /\ n \notin 1..l
    OBVIOUS
  <2> QED BY <1>4, <2>1
<1>6. ~ (n < l)
  <2>1. n < l => l \in 1..l /\ l \notin 1..n
    OBVIOUS
  <2> QED BY <1>4, <2>1
<1> QED BY <1>1, <1>3, <1>5, <1>6

LEMMA DeleteSellerKeeps ==
  ASSUME AuctionInv, NEW c \in Chars, DeleteSeller(c)
  PROVE  AuctionInv'
<1> DEFINE D(k) == {i \in Of(c) : listings[i].good = k /\ ~Mailed(i)}
           f == [k \in Kinds |-> Cardinality(D(k))]
<1>1. DeleteChar(c, f)
  BY DEF DeleteSeller, Kinds
<1>2. PICK ls : ls = [i \in DOMAIN listings |-> IF i \in Of(c) THEN None ELSE listings[i]]
  OBVIOUS
<1>3. listings' = ls /\ expiring' = expiring /\ mailed' = mailed /\ copied' = copied
  BY <1>2 DEF DeleteSeller
<1>4. /\ listings \in Seq(Listing \cup {None}) /\ Len(listings) <= MaxListings
      /\ Len(listings) \in Nat /\ DOMAIN listings = 1..Len(listings)
      /\ expiring \in Seq(Expiry) /\ mailed \in BOOLEAN /\ (mailed => expiring # <<>>)
      /\ copied \in [Goods -> Nat]
      /\ \A i \in DOMAIN listings : listings[i] \in Listing \cup {None}
  BY ListingsAre
<1>5. /\ DOMAIN ls = DOMAIN listings
      /\ \A i \in DOMAIN listings : ls[i] = IF i \in Of(c) THEN None ELSE listings[i]
  BY <1>2
<1>6. ls \in Seq(Listing \cup {None}) /\ Len(ls) = Len(listings)
  <2> DEFINE S == Listing \cup {None}
  <2>1. \A i \in 1..Len(listings) : (IF i \in Of(c) THEN None ELSE listings[i]) \in S
    BY <1>4
  <2> HIDE DEF S
  <2>2. ls \in [1..Len(listings) -> S]
    BY <1>2, <1>4, <2>1
  <2>3. PICK n \in Nat : n = Len(listings)
    BY <1>4
  <2>4. ls \in [1..n -> S]
    BY <2>2, <2>3
  <2>5. ls \in Seq(S) /\ Len(ls) = n
    BY <2>4, SeqIs
  <2> QED BY <2>3, <2>5 DEF S
<1>7. ListingsTyped'
  <2>1. Len(ls) <= MaxListings
    BY <1>4, <1>6
  <2> QED BY <1>3, <1>4, <1>6, <2>1 DEF ListingsTyped
<1>8. ExpiringKnown'
  <2>1. \A k \in DOMAIN expiring :
          /\ expiring[k].id \in DOMAIN ls
          /\ ls[expiring[k].id] # None => ls[expiring[k].id].good = expiring[k].good
    BY <1>5, ListingsAre
  <2> QED BY <1>3, <2>1 DEF ExpiringKnown
<1>9. PICK m : m = MailedId
  OBVIOUS
<1>10. m = MailedId'
  BY <1>3, <1>9 DEF MailedId
<1>11. ASSUME NEW k
       PROVE  /\ Unsold(ls, m, k) = Unsold(listings, m, k) - Cardinality(D(k))
              /\ Unsold(listings, m, k) \in Nat /\ Cardinality(D(k)) \in Nat
  <2> DEFINE J == Left(listings, m, k)
  <2>1. IsFiniteSet(J) /\ Cardinality(J) \in Nat
    BY <1>4, LeftType DEF Unsold
  <2>2. \A i \in DOMAIN listings : Mailed(i) <=> i = m
    BY <1>9, MailedIdIs
  <2>3. D(k) = {i \in Of(c) : listings[i].good = k /\ i # m}
    BY <2>2 DEF Of, Listed
  <2>4. D(k) \subseteq J
    BY <2>3 DEF Left, Of, Listed
  <2>5. Left(ls, m, k) = J \ D(k)
    BY <1>5, <2>3 DEF Left, Of, Listed
  <2>6. J \cap D(k) = D(k)
    BY <2>4
  <2> HIDE DEF J, D
  <2>7. IsFiniteSet(D(k))
    BY <2>1, <2>4, FS_Subset
  <2>8. Cardinality(J \ D(k)) = Cardinality(J) - Cardinality(J \cap D(k))
    BY <2>1, FS_Difference
  <2>9. Unsold(ls, m, k) = Cardinality(J \ D(k)) /\ Unsold(listings, m, k) = Cardinality(J)
    BY <2>5 DEF Unsold, J
  <2>10. Cardinality(D(k)) \in Nat
    BY <2>7, FS_CardinalityType
  <2> QED BY <2>1, <2>6, <2>8, <2>9, <2>10
<1> HIDE DEF D
<1>12. \A k \in Kinds : f[k] = Cardinality(D(k)) /\ f[k] \in Nat
  BY <1>11
<1> HIDE DEF f
<1>13. /\ BoxInv'
       /\ \A k \in Kinds : Total(bag', purse', outbox', inbox', queue', k) + gone'[k]
                             = Total(bag, purse, outbox, inbox, queue, k) + gone[k] + f[k]
  <2>1. BoxInv
    BY DEF AuctionInv
  <2>2. \A k \in Kinds : f[k] \in Nat
    BY <1>12
  <2> QED BY <1>1, <2>1, <2>2, DeletionKeeps
<1>14. ASSUME NEW k \in Kinds PROVE NextBalanced(m, k)
  <2>1. Total(bag, purse, outbox, inbox, queue, k) + Unsold(listings, m, k) + gone[k]
          = Start(k) + Copies(copied, k)
    BY <1>9 DEF AuctionInv, Balanced
  <2>2. PICK T, G, U : /\ T = Total(bag', purse', outbox', inbox', queue', k) /\ G = gone'[k]
                       /\ U = Unsold(ls, m, k)
    OBVIOUS
  <2>3. T + G = Total(bag, purse, outbox, inbox, queue, k) + gone[k] + f[k]
    BY <1>13, <2>2
  <2>4. Total(bag, purse, outbox, inbox, queue, k) \in Int /\ gone[k] \in Int
    BY TotalType, GoneIsInt DEF AuctionInv, BoxInv
  <2>5. T \in Int
    <3>1. BoxTypes(bag', purse', outbox', inbox', queue')
      BY <1>13 DEF BoxInv
    <3> QED BY <2>2, <3>1, TotalType
  <2>6. G \in Int
    BY <1>13, <2>2 DEF BoxInv
  <2>7. U = Unsold(listings, m, k) - f[k] /\ Unsold(listings, m, k) \in Nat /\ f[k] \in Nat
    BY <1>11, <1>12, <2>2
  <2>8. T + U + G = Start(k) + Copies(copied, k)
    BY <2>1, <2>3, <2>4, <2>5, <2>6, <2>7
  <2> QED BY <1>3, <2>2, <2>8 DEF NextBalanced
<1>15. Balanced'
  BY <1>10, <1>14, BalancedNext
<1> QED BY <1>7, <1>8, <1>13, <1>15 DEF AuctionInv

LEMMA AuctionNext == ASSUME AuctionInv, [Next]_vars PROVE AuctionInv'
<1>1. ASSUME NEW c \in Chars, NEW g \in Goods, NEW sum \in Sums, Sell(c, g, sum) \/ Buy(c, g, sum)
      PROVE  AuctionInv'
  BY <1>1, SellKeeps, BuyKeeps
<1>2. ASSUME NEW c \in Chars, CancelSale(c) \/ DeleteSeller(c) PROVE AuctionInv'
  BY <1>2, CancelSaleKeeps, DeleteSellerKeeps
<1>3. ASSUME NEW i, ExpireCollect(i) PROVE AuctionInv'
  BY <1>3, CollectKeeps
<1>4. CASE UNCHANGED vars
  BY <1>4 DEF vars, boxVars, auctionVars, AuctionInv, BoxInv, ListingsTyped, ExpiringKnown, Balanced,
              MailedId
<1> QED BY <1>1, <1>2, <1>3, <1>4, MailKeeps, ExpireMailKeeps, ExpireDeleteKeeps, SearchCrashKeeps
        DEF Next

-----------------------------------------------------------------------------
(* Theorems                                                                 *)

(* The inductive invariant: the boxes are sound, listings on their way to   *)
(* be expired are known, and the books balance.                             *)
THEOREM AuctionInvariant == Spec => []AuctionInv
<1>1. Init => AuctionInv
  BY AuctionInit
<1>2. AuctionInv /\ [Next]_vars => AuctionInv'
  BY AuctionNext
<1> QED BY <1>1, <1>2, PTL DEF Spec

(* Type correctness: no bag holds more than there is room for, and a row is *)
(* marked as received only if it was sent.                                  *)
THEOREM AuctionTypesHold == Spec => []AuctionTypeOK
<1>1. AuctionInv => AuctionTypeOK
  <2> SUFFICES ASSUME AuctionInv PROVE AuctionTypeOK
    OBVIOUS
  <2>1. MailTypeOK
    <3>1. BoxInv
      BY DEF AuctionInv
    <3> QED BY <3>1 DEF BoxInv, BoxTypes, BagTypes, RowTypes, QueueTypes, Fits, MarkedWereSent, Window,
                        Kinds, MailTypeOK
  <2> QED BY <2>1 DEF AuctionInv, ListingsTyped, AuctionTypeOK
<1> QED BY <1>1, AuctionInvariant, PTL

(* What a window shows of a cell with a row is what the row holds, whatever *)
(* others do to the rows meanwhile: taking an item or returning it, which   *)
(* hands out the copy, hands out what the row was for.                      *)
THEOREM WindowsShowTheRows == Spec => []WindowsShowRows
<1>1. AuctionInv => WindowsShowRows
  BY DEF AuctionInv, BoxInv, Shows, WindowsShowRows, Copied
<1> QED BY <1>1, AuctionInvariant, PTL

(* For each receipt that is not marked there is a mail on its way, so that  *)
(* CancelSendingItem finds one to delete though it does not look whether it *)
(* did.                                                                     *)
THEOREM MailIsThereToCancel == Spec => []CancelFindsTheMail
<1>1. AuctionInv => CancelFindsTheMail
  <2> SUFFICES ASSUME AuctionInv PROVE CancelFindsTheMail
    OBVIOUS
  <2>1. HaveMail(outbox, queue) /\ alive \in SUBSET Chars
    BY DEF AuctionInv, BoxInv
  <2> QED BY <2>1 DEF HaveMail, Receipts, Mails, IsReceipt, CancelFindsTheMail
<1> QED BY <1>1, AuctionInvariant, PTL

(* Goods are neither made nor lost, except for what the histories gone and  *)
(* copied say, over all bags, boxes, queues and listings.                   *)
THEOREM GoodsAddUp == Spec => []ItemsAddUp
<1>1. AuctionInv => ItemsAddUp
  <2> SUFFICES ASSUME AuctionInv, NEW g \in Goods
               PROVE  InMail(g) + Cardinality({i \in Listed : listings[i].good = g /\ ~Mailed(i)}) + gone[g]
                        = SumFunction([c \in Chars |-> Belongings[c][g]]) + copied[g]
    BY DEF ItemsAddUp
  <2>1. g \in Kinds /\ g # Gil
    BY DeliveryAssumption DEF Kinds
  <2>2. Left(listings, MailedId, g) = {i \in Listed : listings[i].good = g /\ ~Mailed(i)}
    BY MailedIdIs DEF Left, Listed
  <2>3. Total(bag, purse, outbox, inbox, queue, g) + Unsold(listings, MailedId, g) + gone[g]
          = Start(g) + Copies(copied, g)
    BY <2>1 DEF AuctionInv, Balanced
  <2>4. InMail(g) = Total(bag, purse, outbox, inbox, queue, g)
    BY InMailIsTotal
  <2> QED BY <2>1, <2>2, <2>3, <2>4 DEF Unsold, Start, Copies
<1> QED BY <1>1, AuctionInvariant, PTL

(* Gil is never made, and only fees and deleted characters take any.        *)
THEOREM GilIsKept == Spec => []GilAddsUp
<1>1. AuctionInv => GilAddsUp
  <2> SUFFICES ASSUME AuctionInv PROVE GilAddsUp
    OBVIOUS
  <2>1. Gil \in Kinds
    BY DEF Kinds
  <2>2. Unsold(listings, MailedId, Gil) = 0
    <3>1. \A i \in DOMAIN listings : listings[i] # None => listings[i].good # Gil
      BY ListingsAre, DeliveryAssumption DEF Listing
    <3>2. Left(listings, MailedId, Gil) = {}
      BY <3>1 DEF Left
    <3> QED BY <3>2, FS_EmptySet DEF Unsold
  <2>3. Total(bag, purse, outbox, inbox, queue, Gil) + Unsold(listings, MailedId, Gil) + gone[Gil]
          = Start(Gil) + Copies(copied, Gil)
    BY <2>1 DEF AuctionInv, Balanced
  <2>4. InMail(Gil) = Total(bag, purse, outbox, inbox, queue, Gil)
    BY InMailIsTotal
  <2>5. Start(Gil) = SumFunction(Savings) /\ Copies(copied, Gil) = 0 /\ Start(Gil) \in Int
    <3>1. Start(Gil) \in Nat
      BY <2>1, StartType
    <3> QED BY <3>1 DEF Start, Copies
  <2>6. Total(bag, purse, outbox, inbox, queue, Gil) \in Int /\ gone[Gil] \in Int
    BY <2>1, TotalType, GoneIsInt DEF AuctionInv, BoxInv
  <2>7. InMail(Gil) + gone[Gil] = SumFunction(Savings)
    BY <2>2, <2>3, <2>4, <2>5, <2>6
  <2> QED BY <2>7 DEF GilAddsUp
<1> QED BY <1>1, AuctionInvariant, PTL

=============================================================================
