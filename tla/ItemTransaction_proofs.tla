------------------------ MODULE ItemTransaction_proofs ------------------------
(***************************************************************************)
(* Proofs about the transaction engine, for any number of players, slots,  *)
(* kinds and transactions, and whichever writes fail:                      *)
(*   - every variable keeps its type;                                      *)
(*   - stamps and claims are one relation with one holder per stack;       *)
(*   - only the holder changes a stamped stack;                            *)
(*   - a dead claim never names a later stack;                             *)
(*   - memory and database agree;                                          *)
(*   - a rollback restores what the handler found;                         *)
(*   - handlers are atomic: the engine implements AtomicInventory.         *)
(*                                                                         *)
(* ClaimsExclusive is not inductive: that a new claim has no older one for *)
(* the same stack needs the fact that a claim names at most one place, and *)
(* this in turn that uids are drawn once.  ClaimInv adds both.             *)
(***************************************************************************)
EXTENDS ItemTransaction, TLAPS

(* Every uid was drawn, and no two places hold the same one.                *)
UidsUnique ==
  /\ nextUid # NoUid
  /\ \A p \in Players, s \in Slots : inv[p][s].uid < nextUid
  /\ \A p, q \in Players, r, s \in Slots :
       inv[p][r].uid = inv[q][s].uid /\ inv[p][r].uid # NoUid => p = q /\ r = s

(* An empty place is NoStack, and a stack has a kind.                       *)
StacksHaveKinds ==
  \A p \in Players, s \in Slots :
    /\ inv[p][s].uid = NoUid => inv[p][s] = NoStack
    /\ inv[p][s].uid # NoUid => inv[p][s].kind \in Kinds

(* The stack a claim was made for is in the place the claim names, or gone. *)
ClaimsNameOnePlace ==
  \A t \in Txs : \A c \in claims[t] :
    /\ c.uid # NoUid /\ c.uid < nextUid
    /\ \A p \in Players, s \in Slots : inv[p][s].uid = c.uid => p = c.owner /\ s = c.slot

(* Only open transactions hold claims, and a running handler has an open    *)
(* transaction.                                                             *)
OpenHold ==
  /\ \A t \in Txs : txState[t] # "Open" => claims[t] = {}
  /\ cpu # Idle => txState[cpu] = "Open"

ClaimInv ==
  /\ UidsUnique
  /\ StacksHaveKinds
  /\ ClaimsNameOnePlace
  /\ OpenHold
  /\ ClaimsExclusive

IInv == TypeOK /\ ClaimInv

-----------------------------------------------------------------------------
(* Types of the pieces                                                      *)

USE DEF NoUid

LEMMA StackType == NoStack \in Stack /\ NoRow \in Row
BY ConstantsAssumption DEF NoStack, Stack, NoRow, Row, States

(* Changing one place of a two-dimensional function.                        *)
LEMMA PutIn ==
  ASSUME NEW S, NEW f \in [Players -> [Slots -> S]], NEW p \in Players, NEW s \in Slots, NEW x \in S
  PROVE  /\ [f EXCEPT ![p][s] = x] \in [Players -> [Slots -> S]]
         /\ \A q \in Players, r \in Slots :
              [f EXCEPT ![p][s] = x][q][r] = IF q = p /\ r = s THEN x ELSE f[q][r]
OBVIOUS

(* A stack in a place has the fields it should.                             *)
LEMMA PlaceType ==
  ASSUME TypeOK, NEW p \in Players, NEW s \in Slots
  PROVE  /\ inv[p][s] \in Stack
         /\ inv[p][s].uid \in Nat /\ inv[p][s].qty \in Nat
         /\ inv[p][s].kind \in Kinds \cup {NoKind} /\ inv[p][s].state \in States
BY DEF TypeOK, Stack

LEMMA WriteType ==
  ASSUME TypeOK, NEW ok \in BOOLEAN, Write(ok)
  PROVE  faults' \in Nat
BY DEF TypeOK, Write

LEMMA ContentsType == TypeOK => Contents \in [Players -> [Slots -> Row]]
<1> SUFFICES ASSUME TypeOK, NEW p \in Players, NEW s \in Slots
             PROVE  RowOf(inv[p][s]) \in Row
  BY DEF Contents
<1> QED BY PlaceType DEF RowOf, Row

(* A stack that grows or shrinks.                                           *)
LEMMA UpdateStackEffect ==
  ASSUME TypeOK, StacksHaveKinds, NEW p \in Players, NEW s \in Slots, NEW delta \in Int,
         NEW ok \in BOOLEAN, Occupied(p, s), inv[p][s].qty + delta >= 0, UpdateStack(p, s, delta, ok)
  PROVE  /\ inv' \in [Players -> [Slots -> Stack]]
         /\ db' \in [Players -> [Slots -> Row]]
         /\ faults' \in Nat
         /\ \A q \in Players, r \in Slots :
              \/ inv'[q][r] = inv[q][r]
              \/ /\ q = p /\ r = s
                 /\ \/ inv'[q][r] = NoStack
                    \/ /\ inv'[q][r].uid = inv[q][r].uid
                       /\ inv'[q][r].kind = inv[q][r].kind
                       /\ inv'[q][r].state = inv[q][r].state
<1> DEFINE n == Updated(p, s, delta)
           k == inv[p][s].kind
           new == [inv[p][s] EXCEPT !.qty = n]
<1>1. k \in Kinds /\ StackSize[k] \in Nat
  BY ConstantsAssumption DEF StacksHaveKinds, Occupied
<1>2. n \in Nat
  BY <1>1, PlaceType DEF Updated, Lesser
<1>3. new \in Stack /\ new.uid = inv[p][s].uid /\ new.kind = k /\ new.state = inv[p][s].state
  BY <1>2, PlaceType DEF Stack
<1>4. [kind |-> k, qty |-> n] \in Row
  BY <1>1, <1>2 DEF Row
<1>5. faults' \in Nat
  BY WriteType DEF UpdateStack
<1> HIDE DEF n, k, new
<1>6. /\ db' = db \/ db' = [db EXCEPT ![p][s] = NoRow] \/ db' = [db EXCEPT ![p][s] = [kind |-> k, qty |-> n]]
      /\ inv' = inv \/ inv' = [inv EXCEPT ![p][s] = NoStack] \/ inv' = [inv EXCEPT ![p][s] = new]
  BY DEF UpdateStack, n, k, new
<1>7. db \in [Players -> [Slots -> Row]] /\ inv \in [Players -> [Slots -> Stack]]
  BY DEF TypeOK
<1>8. db' \in [Players -> [Slots -> Row]] /\ inv' \in [Players -> [Slots -> Stack]]
  <2>1. /\ [db EXCEPT ![p][s] = NoRow] \in [Players -> [Slots -> Row]]
        /\ [inv EXCEPT ![p][s] = NoStack] \in [Players -> [Slots -> Stack]]
    BY <1>7, StackType, PutIn
  <2>2. [db EXCEPT ![p][s] = [kind |-> k, qty |-> n]] \in [Players -> [Slots -> Row]]
    BY <1>4, <1>7, PutIn
  <2>3. [inv EXCEPT ![p][s] = new] \in [Players -> [Slots -> Stack]]
    BY <1>3, <1>7, PutIn
  <2> QED BY <2>1, <2>2, <2>3, <1>6, <1>7
<1>9. ASSUME NEW q \in Players, NEW r \in Slots
      PROVE  \/ inv'[q][r] = inv[q][r]
             \/ /\ q = p /\ r = s
                /\ \/ inv'[q][r] = NoStack
                   \/ /\ inv'[q][r].uid = inv[q][r].uid
                      /\ inv'[q][r].kind = inv[q][r].kind
                      /\ inv'[q][r].state = inv[q][r].state
  <2>1. CASE inv' = inv
    BY <2>1
  <2>2. CASE inv' = [inv EXCEPT ![p][s] = NoStack]
    BY <2>2, <1>7, StackType, PutIn
  <2>3. CASE inv' = [inv EXCEPT ![p][s] = new]
    BY <2>3, <1>3, <1>7, PutIn DEF k
  <2> QED BY <1>6, <2>1, <2>2, <2>3
<1> QED BY <1>5, <1>7, <1>8, <1>9

(* A stack of its own, with the next uid, in an empty place.                *)
LEMMA InsertStackEffect ==
  ASSUME TypeOK, NEW p \in Players, NEW s \in Slots, NEW k \in Kinds, NEW q \in Nat,
         NEW ok \in BOOLEAN, InsertStack(p, s, k, q, ok)
  PROVE  /\ inv' \in [Players -> [Slots -> Stack]]
         /\ db' \in [Players -> [Slots -> Row]]
         /\ faults' \in Nat
         /\ nextUid' = nextUid + 1
         /\ \A o \in Players, r \in Slots :
              \/ inv'[o][r] = inv[o][r]
              \/ /\ o = p /\ r = s
                 /\ inv'[o][r] = [uid |-> nextUid, kind |-> k, qty |-> q, state |-> "Free"]
<1> DEFINE new == [uid |-> nextUid, kind |-> k, qty |-> q, state |-> "Free"]
<1>1. new \in Stack /\ [kind |-> k, qty |-> q] \in Row
  BY DEF TypeOK, Stack, Row, States
<1>2. faults' \in Nat
  BY WriteType DEF InsertStack
<1> HIDE DEF new
<1>3. /\ nextUid' = nextUid + 1
      /\ inv' = inv \/ inv' = [inv EXCEPT ![p][s] = new]
      /\ db' = db \/ db' = [db EXCEPT ![p][s] = [kind |-> k, qty |-> q]]
  BY DEF InsertStack, new
<1>4. db \in [Players -> [Slots -> Row]] /\ inv \in [Players -> [Slots -> Stack]]
  BY DEF TypeOK
<1>5. \A o \in Players, r \in Slots : inv'[o][r] = inv[o][r] \/ (o = p /\ r = s /\ inv'[o][r] = new)
  BY <1>1, <1>3, <1>4, PutIn
<1>6. /\ inv' \in [Players -> [Slots -> Stack]]
      /\ db' \in [Players -> [Slots -> Row]]
  <2>1. [db EXCEPT ![p][s] = [kind |-> k, qty |-> q]] \in [Players -> [Slots -> Row]]
    BY <1>1, <1>4, PutIn
  <2>2. [inv EXCEPT ![p][s] = new] \in [Players -> [Slots -> Stack]]
    BY <1>1, <1>4, PutIn
  <2> QED BY <2>1, <2>2, <1>3, <1>4
<1> QED BY <1>2, <1>3, <1>5, <1>6 DEF new

-----------------------------------------------------------------------------
(* How the steps change the places, and that each way keeps ClaimInv        *)

(* Stacks may change their quantity or go.                                  *)
Kept ==
  \A q \in Players, r \in Slots :
    \/ inv'[q][r] = NoStack
    \/ /\ inv'[q][r].uid = inv[q][r].uid
       /\ inv'[q][r].kind = inv[q][r].kind
       /\ inv'[q][r].state = inv[q][r].state
       /\ inv[q][r].uid = NoUid => inv'[q][r] = inv[q][r]

LEMMA KeptPreserves ==
  ASSUME TypeOK, ClaimInv, Kept, UNCHANGED <<nextUid, txState, claims, cpu>>
  PROVE  ClaimInv'
<1> USE DEF ClaimInv, Kept
<1>1. /\ NoStack.uid = 0 /\ NoStack.state = "Free"
      /\ \A t \in Txs : \A c \in claims[t] : c \in ItemId
      /\ \A c \in ItemId : c.owner \in Players /\ c.slot \in Slots /\ c.uid \in Nat
  BY DEF NoStack, TypeOK, ItemId
<1>2. \A p \in Players, s \in Slots : inv[p][s].uid \in Nat /\ nextUid \in Nat
  BY PlaceType DEF TypeOK
<1>3. UidsUnique'
  BY <1>1, <1>2 DEF UidsUnique, ClaimsNameOnePlace
<1>4. StacksHaveKinds'
  BY <1>1 DEF StacksHaveKinds
<1>5. ClaimsNameOnePlace'
  BY <1>1 DEF ClaimsNameOnePlace
<1>6. OpenHold'
  BY DEF OpenHold
<1>7. StampsAreClaimed'
  BY <1>1 DEF ClaimsExclusive, StampsAreClaimed, IdOf
<1>8. ClaimsAreStamped'
  BY <1>1 DEF ClaimsExclusive, ClaimsAreStamped, ClaimsNameOnePlace, Resolves, IdOf
<1>9. OneHolder'
  BY DEF ClaimsExclusive, OneHolder
<1> QED BY <1>3, <1>4, <1>5, <1>6, <1>7, <1>8, <1>9 DEF ClaimsExclusive

(* A new stack comes into an empty place, with a uid no claim can have.     *)
Inserted(p, s) ==
  \A q \in Players, r \in Slots :
    \/ inv'[q][r] = inv[q][r]
    \/ /\ q = p /\ r = s
       /\ inv'[q][r].uid = nextUid
       /\ inv'[q][r].kind \in Kinds
       /\ inv'[q][r].state = "Free"

LEMMA InsertPreserves ==
  ASSUME TypeOK, ClaimInv, NEW p \in Players, NEW s \in Slots, ~Occupied(p, s), Inserted(p, s),
         nextUid' = nextUid + 1, UNCHANGED <<txState, claims, cpu>>
  PROVE  ClaimInv'
<1> USE DEF ClaimInv, Inserted, Occupied
<1>1. /\ \A t \in Txs : \A c \in claims[t] : c \in ItemId
      /\ \A c \in ItemId : c.owner \in Players /\ c.slot \in Slots /\ c.uid \in Nat
  BY DEF TypeOK, ItemId
<1>2. nextUid \in Nat /\ \A q \in Players, r \in Slots : inv[q][r].uid \in Nat
  BY PlaceType DEF TypeOK
<1>3. NoStack.state = "Free" /\ inv[p][s] = NoStack
  BY DEF NoStack, StacksHaveKinds
<1>4. UidsUnique'
  BY <1>2 DEF UidsUnique
<1>5. StacksHaveKinds'
  BY DEF StacksHaveKinds, UidsUnique
<1>6. ClaimsNameOnePlace'
  BY <1>1, <1>2 DEF ClaimsNameOnePlace
<1>7. OpenHold'
  BY DEF OpenHold
<1>8. StampsAreClaimed'
  BY <1>1 DEF ClaimsExclusive, StampsAreClaimed, IdOf
<1>9. ClaimsAreStamped'
  BY <1>1, <1>2 DEF ClaimsExclusive, ClaimsAreStamped, ClaimsNameOnePlace, Resolves, IdOf
<1>10. OneHolder'
  BY DEF ClaimsExclusive, OneHolder
<1> QED BY <1>4, <1>5, <1>6, <1>7, <1>8, <1>9, <1>10 DEF ClaimsExclusive

(* Claims are given back, and the stacks they still name with them; st is   *)
(* what the transaction becomes, Open unless it gives back all it has.      *)
LEMMA ExitPreserves ==
  ASSUME TypeOK, ClaimInv, NEW t \in Txs, NEW ids \in SUBSET claims[t], NEW st,
         inv' = Exited(ids), claims' = [claims EXCEPT ![t] = @ \ ids],
         txState' = [txState EXCEPT ![t] = st], st = txState[t] \/ ids = claims[t],
         cpu' = Idle \/ (cpu' = cpu /\ txState' = txState), nextUid' = nextUid
  PROVE  ClaimInv' /\ inv' \in [Players -> [Slots -> Stack]] /\ claims' \in [Txs -> SUBSET ItemId]
<1> DEFINE Named(p, s) == \E c \in ids : c.owner = p /\ c.slot = s /\ Resolves(c)
<1>1. /\ \A u \in Txs : claims[u] \subseteq ItemId
      /\ \A c \in ItemId : c.owner \in Players /\ c.slot \in Slots /\ c.uid \in Nat
      /\ \A u \in Txs : claims'[u] = IF u = t THEN claims[t] \ ids ELSE claims[u]
      /\ \A u \in Txs : txState'[u] = IF u = t THEN st ELSE txState[u]
  BY DEF TypeOK, ItemId
<1>2. nextUid \in Nat /\ \A q \in Players, r \in Slots : inv[q][r].uid \in Nat
  BY PlaceType DEF TypeOK
<1>3. \A p \in Players, s \in Slots :
        inv'[p][s] = IF Named(p, s) /\ inv[p][s].state = "InTransaction"
                     THEN [inv[p][s] EXCEPT !.state = "Free"] ELSE inv[p][s]
  BY DEF Exited
<1> HIDE DEF Named
<1>4. \A p \in Players, s \in Slots :
        /\ inv'[p][s] \in Stack
        /\ inv'[p][s].uid = inv[p][s].uid /\ inv'[p][s].kind = inv[p][s].kind
        /\ inv'[p][s].qty = inv[p][s].qty
        /\ inv'[p][s].state \in {inv[p][s].state, "Free"}
        /\ Named(p, s) => inv'[p][s].state # "InTransaction"
        /\ ~Named(p, s) => inv'[p][s] = inv[p][s]
  <2> SUFFICES ASSUME NEW p \in Players, NEW s \in Slots
               PROVE  /\ inv'[p][s] \in Stack
                      /\ inv'[p][s].uid = inv[p][s].uid /\ inv'[p][s].kind = inv[p][s].kind
                      /\ inv'[p][s].qty = inv[p][s].qty
                      /\ inv'[p][s].state \in {inv[p][s].state, "Free"}
                      /\ Named(p, s) => inv'[p][s].state # "InTransaction"
                      /\ ~Named(p, s) => inv'[p][s] = inv[p][s]
    OBVIOUS
  <2>1. inv[p][s] \in Stack
    BY PlaceType
  <2>2. /\ [inv[p][s] EXCEPT !.state = "Free"] \in Stack
        /\ [inv[p][s] EXCEPT !.state = "Free"].uid = inv[p][s].uid
        /\ [inv[p][s] EXCEPT !.state = "Free"].kind = inv[p][s].kind
        /\ [inv[p][s] EXCEPT !.state = "Free"].qty = inv[p][s].qty
        /\ [inv[p][s] EXCEPT !.state = "Free"].state = "Free"
    BY <2>1 DEF Stack, States
  <2>3. CASE Named(p, s) /\ inv[p][s].state = "InTransaction"
    BY <2>2, <2>3, <1>3
  <2>4. CASE ~(Named(p, s) /\ inv[p][s].state = "InTransaction")
    BY <2>1, <2>4, <1>3
  <2> QED BY <2>3, <2>4
<1>5. inv' \in [Players -> [Slots -> Stack]]
  <2>1. inv' = [p \in Players |-> [s \in Slots |-> inv'[p][s]]]
    BY DEF Exited
  <2> QED BY <2>1, <1>4
<1>6. claims' \in [Txs -> SUBSET ItemId]
  BY <1>1 DEF TypeOK
<1>7. UidsUnique'
  BY <1>2, <1>4 DEF ClaimInv, UidsUnique
<1>8. StacksHaveKinds'
  BY <1>3, <1>4 DEF ClaimInv, StacksHaveKinds, NoStack
<1>9. ClaimsNameOnePlace'
  BY <1>1, <1>4 DEF ClaimInv, ClaimsNameOnePlace
<1>10. OpenHold'
  BY <1>1 DEF ClaimInv, OpenHold
<1>11. StampsAreClaimed'
  <2> SUFFICES ASSUME NEW p \in Players, NEW s \in Slots, inv'[p][s].state = "InTransaction"
               PROVE  \E u \in Txs : txState'[u] = "Open" /\ IdOf(p, s)' \in claims'[u]
    BY DEF StampsAreClaimed
  <2>1. ~Named(p, s) /\ inv'[p][s] = inv[p][s]
    BY <1>4
  <2>2. PICK u \in Txs : txState[u] = "Open" /\ IdOf(p, s) \in claims[u]
    BY <2>1 DEF ClaimInv, ClaimsExclusive, StampsAreClaimed
  <2>3. IdOf(p, s)' = IdOf(p, s) /\ Resolves(IdOf(p, s)) /\ IdOf(p, s).owner = p /\ IdOf(p, s).slot = s
    BY <2>1 DEF IdOf, Resolves
  <2>4. IdOf(p, s) \notin ids
    BY <2>1, <2>3 DEF Named
  <2>5. u = t => st = "Open"
    BY <2>2, <2>4
  <2> QED BY <1>1, <2>2, <2>3, <2>4, <2>5
<1>12. ClaimsAreStamped'
  <2> SUFFICES ASSUME NEW u \in Txs, NEW c \in claims'[u], Resolves(c)'
               PROVE  inv'[c.owner][c.slot].state = "InTransaction" /\ c = IdOf(c.owner, c.slot)'
    BY DEF ClaimsAreStamped
  <2>1. c \in claims[u] /\ c \in ItemId /\ (u = t => c \notin ids)
    BY <1>1
  <2>2. Resolves(c)
    BY <1>1, <1>4, <2>1 DEF Resolves
  <2>3. inv[c.owner][c.slot].state = "InTransaction" /\ c = IdOf(c.owner, c.slot)
    BY <2>1, <2>2 DEF ClaimInv, ClaimsExclusive, ClaimsAreStamped
  <2>4. ~Named(c.owner, c.slot)
    <3> SUFFICES ASSUME NEW d \in ids, d.owner = c.owner, d.slot = c.slot, Resolves(d)
                 PROVE  FALSE
      BY DEF Named
    <3>1. d.uid = c.uid
      BY <2>2 DEF Resolves
    <3> QED BY <3>1, <2>1 DEF ClaimInv, ClaimsExclusive, OneHolder
  <2> QED BY <1>1, <1>4, <2>1, <2>3, <2>4 DEF IdOf
<1>13. OneHolder'
  BY <1>1 DEF ClaimInv, ClaimsExclusive, OneHolder
<1> QED BY <1>5, <1>6, <1>7, <1>8, <1>9, <1>10, <1>11, <1>12, <1>13 DEF ClaimInv, ClaimsExclusive

(* Stamping a place changes its state and nothing else.                     *)
LEMMA StampEffect ==
  ASSUME TypeOK, NEW p \in Players, NEW s \in Slots, NEW st \in States, Stamp(p, s, st)
  PROVE  /\ inv' \in [Players -> [Slots -> Stack]]
         /\ \A q \in Players, r \in Slots :
              /\ inv'[q][r].uid = inv[q][r].uid
              /\ inv'[q][r].kind = inv[q][r].kind
              /\ inv'[q][r].qty = inv[q][r].qty
              /\ inv'[q][r].state = IF q = p /\ r = s THEN st ELSE inv[q][r].state
              /\ (q # p \/ r # s) => inv'[q][r] = inv[q][r]
<1> DEFINE new == [inv[p][s] EXCEPT !.state = st]
<1>1. /\ new \in Stack /\ new.uid = inv[p][s].uid /\ new.kind = inv[p][s].kind
      /\ new.qty = inv[p][s].qty /\ new.state = st
  BY PlaceType DEF Stack
<1>2. inv' = [inv EXCEPT ![p][s] = new]
  BY DEF Stamp
<1> HIDE DEF new
<1>3. inv \in [Players -> [Slots -> Stack]]
  BY DEF TypeOK
<1>4. /\ inv' \in [Players -> [Slots -> Stack]]
      /\ \A q \in Players, r \in Slots : inv'[q][r] = IF q = p /\ r = s THEN new ELSE inv[q][r]
  BY <1>1, <1>2, <1>3, PutIn
<1> QED BY <1>1, <1>4

LEMMA ClaimPreserves ==
  ASSUME TypeOK, ClaimInv, NEW t \in Txs, NEW p \in Players, NEW s \in Slots, Claim(t, p, s)
  PROVE  TypeOK' /\ ClaimInv'
<1> DEFINE id == IdOf(p, s)
<1>1. /\ Occupied(p, s) /\ inv[p][s].state = "Free" /\ Stamp(p, s, "InTransaction")
      /\ claims' = [claims EXCEPT ![t] = @ \cup {id}]
      /\ UNCHANGED <<db, inUse, nextUid, txState, undos, cpu, phase, base, undoFailed, faults>>
  BY DEF Claim
<1>2. txState[t] = "Open"
  BY ConstantsAssumption DEF Claim, Working, ClaimInv, OpenHold
<1>3. /\ id \in ItemId /\ id.owner = p /\ id.slot = s
      /\ id.uid = inv[p][s].uid /\ id.kind = inv[p][s].kind
  BY PlaceType DEF IdOf, ItemId
<1>4. /\ inv' \in [Players -> [Slots -> Stack]]
      /\ \A q \in Players, r \in Slots :
           /\ inv'[q][r].uid = inv[q][r].uid
           /\ inv'[q][r].kind = inv[q][r].kind
           /\ inv'[q][r].qty = inv[q][r].qty
           /\ inv'[q][r].state = IF q = p /\ r = s THEN "InTransaction" ELSE inv[q][r].state
           /\ (q # p \/ r # s) => inv'[q][r] = inv[q][r]
  BY <1>1, StampEffect DEF States
<1>5. /\ claims' \in [Txs -> SUBSET ItemId]
      /\ \A u \in Txs : claims'[u] = IF u = t THEN claims[t] \cup {id} ELSE claims[u]
  BY <1>1, <1>3 DEF TypeOK
<1>6. /\ \A u \in Txs : \A c \in claims[u] : c \in ItemId
      /\ \A c \in ItemId : c.owner \in Players /\ c.slot \in Slots /\ c.uid \in Nat
  BY DEF TypeOK, ItemId
<1>7. \A q \in Players, r \in Slots : IdOf(q, r)' = IdOf(q, r)
  BY <1>4 DEF IdOf
<1> HIDE DEF id
<1>8. TypeOK'
  BY <1>1, <1>4, <1>5 DEF TypeOK
<1>9. UidsUnique'
  <2>1. UidsUnique /\ nextUid' = nextUid
    BY <1>1 DEF ClaimInv
  <2>2. \A q \in Players, r \in Slots : inv'[q][r].uid = inv[q][r].uid
    BY <1>4
  <2> QED BY <2>1, <2>2 DEF UidsUnique
<1>10. StacksHaveKinds'
  BY <1>1, <1>4 DEF ClaimInv, StacksHaveKinds, Occupied
<1>11. ClaimsNameOnePlace'
  BY <1>1, <1>3, <1>4, <1>5 DEF ClaimInv, ClaimsNameOnePlace, UidsUnique, Occupied
<1>12. OpenHold'
  BY <1>1, <1>2, <1>5 DEF ClaimInv, OpenHold
<1>13. StampsAreClaimed'
  <2> SUFFICES ASSUME NEW q \in Players, NEW r \in Slots, inv'[q][r].state = "InTransaction"
               PROVE  \E u \in Txs : txState[u] = "Open" /\ IdOf(q, r) \in claims'[u]
    BY <1>1, <1>7 DEF StampsAreClaimed
  <2>1. CASE q = p /\ r = s
    BY <2>1, <1>2, <1>5 DEF id
  <2>2. CASE q # p \/ r # s
    <3>1. inv[q][r].state = "InTransaction"
      BY <2>2, <1>4
    <3>2. PICK u \in Txs : txState[u] = "Open" /\ IdOf(q, r) \in claims[u]
      BY <3>1 DEF ClaimInv, ClaimsExclusive, StampsAreClaimed
    <3> QED BY <3>2, <1>5
  <2> QED BY <2>1, <2>2
(* The new claim is for a Free stack, and an older claim for it would be    *)
(* stamped.                                                                 *)
<1>14. ASSUME NEW u \in Txs, NEW c \in claims[u] PROVE c.uid # id.uid
  <2> SUFFICES ASSUME c.uid = id.uid PROVE FALSE
    OBVIOUS
  <2>1. c.owner = p /\ c.slot = s
    BY <1>3 DEF ClaimInv, ClaimsNameOnePlace
  <2>2. Resolves(c)
    BY <2>1, <1>3 DEF Resolves
  <2> QED BY <2>1, <2>2, <1>1 DEF ClaimInv, ClaimsExclusive, ClaimsAreStamped
<1>15. ClaimsAreStamped'
  <2> SUFFICES ASSUME NEW u \in Txs, NEW c \in claims'[u], Resolves(c)'
               PROVE  inv'[c.owner][c.slot].state = "InTransaction" /\ c = IdOf(c.owner, c.slot)'
    BY DEF ClaimsAreStamped
  <2>1. CASE c = id
    BY <2>1, <1>3, <1>4, <1>7 DEF id
  <2>2. CASE c \in claims[u]
    <3>1. Resolves(c)
      BY <2>2, <1>4, <1>6 DEF Resolves
    <3>2. inv[c.owner][c.slot].state = "InTransaction" /\ c = IdOf(c.owner, c.slot)
      BY <3>1, <2>2 DEF ClaimInv, ClaimsExclusive, ClaimsAreStamped
    <3> QED BY <3>2, <2>2, <1>4, <1>6, <1>7
  <2> QED BY <2>1, <2>2, <1>5
<1>16. OneHolder'
  BY <1>5, <1>14 DEF ClaimInv, ClaimsExclusive, OneHolder
<1> QED BY <1>8, <1>9, <1>10, <1>11, <1>12, <1>13, <1>15, <1>16 DEF ClaimInv, ClaimsExclusive

(* A stack takes up or gives up a role.                                     *)
LEMMA MarkPreserves ==
  ASSUME TypeOK, ClaimInv, NEW p \in Players, NEW s \in Slots, NEW st \in States, Mark(p, s, st)
  PROVE  TypeOK' /\ ClaimInv'
<1>1. /\ Occupied(p, s) /\ inv[p][s].state # "InTransaction" /\ st # "InTransaction"
      /\ Stamp(p, s, st)
      /\ UNCHANGED <<db, inUse, nextUid, txState, claims, undos, cpu, phase, base, undoFailed, faults>>
  BY DEF Mark
<1>2. /\ inv' \in [Players -> [Slots -> Stack]]
      /\ \A q \in Players, r \in Slots :
           /\ inv'[q][r].uid = inv[q][r].uid
           /\ inv'[q][r].kind = inv[q][r].kind
           /\ inv'[q][r].qty = inv[q][r].qty
           /\ inv'[q][r].state = IF q = p /\ r = s THEN st ELSE inv[q][r].state
           /\ (q # p \/ r # s) => inv'[q][r] = inv[q][r]
  BY <1>1, StampEffect
<1>3. /\ \A u \in Txs : \A c \in claims[u] : c \in ItemId
      /\ \A c \in ItemId : c.owner \in Players /\ c.slot \in Slots /\ c.uid \in Nat
      /\ \A q \in Players, r \in Slots : IdOf(q, r)' = IdOf(q, r)
  BY <1>2 DEF TypeOK, ItemId, IdOf
<1>4. TypeOK'
  BY <1>1, <1>2 DEF TypeOK
<1>5. UidsUnique'
  BY <1>1, <1>2 DEF ClaimInv, UidsUnique
<1>6. StacksHaveKinds'
  BY <1>1, <1>2 DEF ClaimInv, StacksHaveKinds, Occupied
<1>7. ClaimsNameOnePlace'
  BY <1>1, <1>2 DEF ClaimInv, ClaimsNameOnePlace
<1>8. OpenHold'
  BY <1>1 DEF ClaimInv, OpenHold
<1>9. StampsAreClaimed'
  BY <1>1, <1>2, <1>3 DEF ClaimInv, ClaimsExclusive, StampsAreClaimed
<1>10. ClaimsAreStamped'
  <2> SUFFICES ASSUME NEW u \in Txs, NEW c \in claims[u], Resolves(c)'
               PROVE  inv'[c.owner][c.slot].state = "InTransaction" /\ c = IdOf(c.owner, c.slot)'
    BY <1>1 DEF ClaimsAreStamped
  <2>1. Resolves(c)
    BY <1>2, <1>3 DEF Resolves
  <2>2. inv[c.owner][c.slot].state = "InTransaction" /\ c = IdOf(c.owner, c.slot)
    BY <2>1 DEF ClaimInv, ClaimsExclusive, ClaimsAreStamped
  <2>3. ~(c.owner = p /\ c.slot = s)
    BY <2>2, <1>1
  <2> QED BY <2>2, <2>3, <1>2, <1>3
<1>11. OneHolder'
  BY <1>1 DEF ClaimInv, ClaimsExclusive, OneHolder
<1> QED BY <1>4, <1>5, <1>6, <1>7, <1>8, <1>9, <1>10, <1>11 DEF ClaimInv, ClaimsExclusive

(* A stack leaves one place for an empty one.                               *)
Moved(p, s, r) == /\ inv' = [inv EXCEPT ![p][r] = inv[p][s], ![p][s] = NoStack]
                  /\ db'  = [db EXCEPT ![p][r] = db[p][s], ![p][s] = NoRow]

LEMMA MovedEffect ==
  ASSUME TypeOK, NEW p \in Players, NEW s \in Slots, NEW r \in Slots, Moved(p, s, r)
  PROVE  /\ inv' \in [Players -> [Slots -> Stack]] /\ db' \in [Players -> [Slots -> Row]]
         /\ \A q \in Players, x \in Slots :
              inv'[q][x] = IF q = p /\ x = s THEN NoStack
                           ELSE IF q = p /\ x = r THEN inv[p][s] ELSE inv[q][x]
<1> DEFINE inv1 == [inv EXCEPT ![p][r] = inv[p][s]]
           db1  == [db EXCEPT ![p][r] = db[p][s]]
<1>1. inv' = [inv1 EXCEPT ![p][s] = NoStack] /\ db' = [db1 EXCEPT ![p][s] = NoRow]
  BY DEF Moved
<1>2. /\ inv1 \in [Players -> [Slots -> Stack]] /\ db1 \in [Players -> [Slots -> Row]]
      /\ \A q \in Players, x \in Slots :
           inv1[q][x] = IF q = p /\ x = r THEN inv[p][s] ELSE inv[q][x]
  BY PutIn, PlaceType DEF TypeOK
<1> HIDE DEF inv1, db1
<1>3. /\ inv' \in [Players -> [Slots -> Stack]] /\ db' \in [Players -> [Slots -> Row]]
      /\ \A q \in Players, x \in Slots :
           inv'[q][x] = IF q = p /\ x = s THEN NoStack ELSE inv1[q][x]
  BY <1>1, <1>2, PutIn, StackType
<1> QED BY <1>2, <1>3

LEMMA MoveEffect ==
  ASSUME TypeOK, NEW p \in Players, NEW s \in Slots, NEW r \in Slots, NEW ok \in BOOLEAN,
         MoveItemTo(p, s, r, ok), NEW q \in Players, NEW x \in Slots
  PROVE  \/ inv'[q][x] = inv[q][x]
         \/ q = p /\ x = s /\ inv'[q][x] = NoStack
         \/ q = p /\ x = r /\ inv'[q][x] = inv[p][s]
<1>1. inv' = inv \/ Moved(p, s, r)
  BY DEF MoveItemTo, Moved
<1> QED BY <1>1, MovedEffect

(* A Free stack, which nobody claims, changes its place.                    *)
LEMMA MovePreserves ==
  ASSUME TypeOK, ClaimInv, NEW p \in Players, NEW s \in Slots, NEW r \in Slots, NEW ok \in BOOLEAN,
         MoveItemTo(p, s, r, ok)
  PROVE  TypeOK' /\ ClaimInv'
<1>1. /\ Occupied(p, s) /\ ~Occupied(p, r) /\ r # s /\ inv[p][s].state = "Free"
      /\ UNCHANGED <<inUse, nextUid, txState, claims, undos, cpu, phase, base, undoFailed>>
      /\ faults' \in Nat
  BY WriteType DEF MoveItemTo, FreeSlots
<1>2. CASE inv' = inv /\ db' = db
  <2>1. Kept
    BY <1>2 DEF Kept
  <2> QED BY <2>1, <1>1, <1>2, KeptPreserves DEF TypeOK
<1>3. CASE Moved(p, s, r)
  <2>3. /\ inv' \in [Players -> [Slots -> Stack]] /\ db' \in [Players -> [Slots -> Row]]
        /\ \A q \in Players, x \in Slots :
             inv'[q][x] = IF q = p /\ x = s THEN NoStack
                          ELSE IF q = p /\ x = r THEN inv[p][s] ELSE inv[q][x]
    BY <1>3, MovedEffect
  <2>4. \A q \in Players, x \in Slots :
          inv'[q][x] = IF q = p /\ x = s THEN NoStack
                       ELSE IF q = p /\ x = r THEN inv[p][s] ELSE inv[q][x]
    BY <2>3
  <2>5. TypeOK'
    BY <2>3, <1>1 DEF TypeOK
  <2>6. NoStack.uid = 0 /\ NoStack.state = "Free"
    BY DEF NoStack
  <2>7. /\ \A u \in Txs : \A c \in claims[u] : c \in ItemId
        /\ \A c \in ItemId : c.owner \in Players /\ c.slot \in Slots /\ c.uid \in Nat
    BY DEF TypeOK, ItemId
  <2>8. UidsUnique'
    <3>1. nextUid \in Nat /\ \A q \in Players, x \in Slots : inv[q][x].uid \in Nat
      BY PlaceType DEF TypeOK
    <3>2. nextUid' # NoUid /\ \A q \in Players, x \in Slots : inv'[q][x].uid < nextUid'
      BY <1>1, <2>4, <2>6, <3>1 DEF ClaimInv, UidsUnique
    <3>3. \A o, q \in Players, x, y \in Slots :
            inv'[o][x].uid = inv'[q][y].uid /\ inv'[o][x].uid # NoUid => o = q /\ x = y
      BY <1>1, <2>4, <2>6 DEF ClaimInv, UidsUnique
    <3> QED BY <3>2, <3>3 DEF UidsUnique
  <2>9. StacksHaveKinds'
    BY <2>4, <2>6 DEF ClaimInv, StacksHaveKinds, NoStack
(* Nobody has a claim on the stack that moves.                              *)
  <2>10. ASSUME NEW u \in Txs, NEW c \in claims[u] PROVE c.uid # inv[p][s].uid
    <3> SUFFICES ASSUME c.uid = inv[p][s].uid PROVE FALSE
      OBVIOUS
    <3>1. c.owner = p /\ c.slot = s
      BY DEF ClaimInv, ClaimsNameOnePlace
    <3>2. Resolves(c)
      BY <3>1 DEF Resolves
    <3> QED BY <3>1, <3>2, <1>1 DEF ClaimInv, ClaimsExclusive, ClaimsAreStamped
  <2>11. ClaimsNameOnePlace'
    BY <1>1, <2>4, <2>6, <2>10 DEF ClaimInv, ClaimsNameOnePlace
  <2>12. OpenHold'
    BY <1>1 DEF ClaimInv, OpenHold
  <2>13. StampsAreClaimed'
    <3> SUFFICES ASSUME NEW q \in Players, NEW x \in Slots, inv'[q][x].state = "InTransaction"
                 PROVE  \E u \in Txs : txState[u] = "Open" /\ IdOf(q, x)' \in claims[u]
      BY <1>1 DEF StampsAreClaimed
    <3>1. inv'[q][x] = inv[q][x]
      BY <2>4, <2>6, <1>1
    <3> QED BY <3>1 DEF ClaimInv, ClaimsExclusive, StampsAreClaimed, IdOf
  <2>14. ClaimsAreStamped'
    <3> SUFFICES ASSUME NEW u \in Txs, NEW c \in claims[u], Resolves(c)'
                 PROVE  inv'[c.owner][c.slot].state = "InTransaction" /\ c = IdOf(c.owner, c.slot)'
      BY <1>1 DEF ClaimsAreStamped
    <3>1. inv'[c.owner][c.slot] = inv[c.owner][c.slot]
      BY <2>4, <2>6, <2>7, <2>10 DEF Resolves, ClaimInv, ClaimsNameOnePlace
    <3> QED BY <3>1 DEF ClaimInv, ClaimsExclusive, ClaimsAreStamped, Resolves, IdOf
  <2>15. OneHolder'
    BY <1>1 DEF ClaimInv, ClaimsExclusive, OneHolder
  <2> QED BY <2>5, <2>8, <2>9, <2>11, <2>12, <2>13, <2>14, <2>15 DEF ClaimInv, ClaimsExclusive
<1> QED BY <1>2, <1>3 DEF MoveItemTo, Moved

-----------------------------------------------------------------------------
(* The undo log                                                             *)

LEMMA RecordType ==
  ASSUME TypeOK, NEW t \in Txs, NEW ok \in BOOLEAN, NEW u \in Undo, Record(t, ok, u)
  PROVE  undos' \in [Txs -> Seq(Undo)]
BY DEF TypeOK, Record

LEMMA PopType ==
  ASSUME TypeOK, NEW t \in Txs, undos[t] # <<>>
  PROVE  LastUndo(t) \in Undo /\ (PopUndo(t) => undos' \in [Txs -> Seq(Undo)])
<1>1. undos[t] \in Seq(Undo) /\ Len(undos[t]) \in Nat \ {0}
  BY DEF TypeOK
<1>2. LastUndo(t) \in Undo
  BY <1>1 DEF LastUndo
<1>3. SubSeq(undos[t], 1, Len(undos[t]) - 1) \in Seq(Undo)
  BY <1>1
<1> QED BY <1>2, <1>3 DEF PopUndo, TypeOK

LEMMA AddsUndoType ==
  ASSUME NEW p \in Players, NEW s \in Slots, NEW delta \in Int
  PROVE  /\ AddsUndo(p, s, delta) \in Undo
         /\ \A k \in Kinds : delta \in Nat => [AddsUndo(p, s, delta) EXCEPT !.snap = k] \in Undo
         /\ [AddsUndo(p, s, delta) EXCEPT !.snap = NoKind] \in Undo
BY DEF AddsUndo, Undo

-----------------------------------------------------------------------------
(* The actions                                                              *)

LEMMA UpdatePreserves ==
  ASSUME TypeOK, ClaimInv, NEW t \in Txs, NEW p \in Players, NEW s \in Slots, NEW delta \in Int,
         NEW ok \in BOOLEAN, CanUpdate(t, p, s, delta), UpdateStack(p, s, delta, ok),
         UNCHANGED <<nextUid, txState, claims, cpu>>
  PROVE  /\ ClaimInv' /\ faults' \in Nat
         /\ inv' \in [Players -> [Slots -> Stack]] /\ db' \in [Players -> [Slots -> Row]]
<1>1. Occupied(p, s) /\ inv[p][s].qty + delta >= 0 /\ StacksHaveKinds
  BY DEF CanUpdate, ClaimInv
<1>2. /\ inv' \in [Players -> [Slots -> Stack]] /\ db' \in [Players -> [Slots -> Row]]
      /\ faults' \in Nat
      /\ \A q \in Players, r \in Slots :
           \/ inv'[q][r] = inv[q][r]
           \/ /\ q = p /\ r = s
              /\ \/ inv'[q][r] = NoStack
                 \/ /\ inv'[q][r].uid = inv[q][r].uid
                    /\ inv'[q][r].kind = inv[q][r].kind
                    /\ inv'[q][r].state = inv[q][r].state
  BY <1>1, UpdateStackEffect
<1>3. Kept
  BY <1>1, <1>2 DEF Kept, Occupied
<1> QED BY <1>2, <1>3, KeptPreserves

LEMMA InsertStackPreserves ==
  ASSUME TypeOK, ClaimInv, NEW p \in Players, NEW s \in Slots, ~Occupied(p, s), NEW k \in Kinds,
         NEW q \in Nat, NEW ok \in BOOLEAN, InsertStack(p, s, k, q, ok),
         UNCHANGED <<txState, claims, cpu>>
  PROVE  /\ ClaimInv' /\ faults' \in Nat /\ nextUid' \in Nat
         /\ inv' \in [Players -> [Slots -> Stack]] /\ db' \in [Players -> [Slots -> Row]]
<1>1. /\ inv' \in [Players -> [Slots -> Stack]] /\ db' \in [Players -> [Slots -> Row]]
      /\ faults' \in Nat
      /\ nextUid' = nextUid + 1
      /\ \A o \in Players, r \in Slots :
           \/ inv'[o][r] = inv[o][r]
           \/ /\ o = p /\ r = s
              /\ inv'[o][r] = [uid |-> nextUid, kind |-> k, qty |-> q, state |-> "Free"]
  BY InsertStackEffect
<1>2. Inserted(p, s)
  BY <1>1 DEF Inserted
<1>3. nextUid' \in Nat
  BY <1>1 DEF TypeOK
<1> QED BY <1>1, <1>2, <1>3, InsertPreserves

(* An undo is refused, fails or applies: the log gets shorter.              *)
LEMMA UndoUpdatePreserves ==
  ASSUME IInv, NEW t \in Txs, Undoing(t), NEW p \in Players, NEW s \in Slots, NEW delta \in Int,
         UndoUpdate(t, p, s, delta)
  PROVE  IInv'
<1>1. TypeOK /\ ClaimInv /\ undos[t] # <<>>
  BY DEF IInv, Undoing
<1>2. ASSUME CanUpdate(t, p, s, delta), UpdateStack(p, s, delta, TRUE), PopUndo(t),
             UNCHANGED <<inUse, nextUid, txState, claims, cpu, phase, base, undoFailed>>
      PROVE  IInv'
  BY <1>1, <1>2, UpdatePreserves, PopType DEF IInv, TypeOK
<1>3. ASSUME Refuse(t) \/ FailUndo(t) PROVE IInv'
  <2>1. /\ PopUndo(t) /\ UNCHANGED <<inv, db, inUse, nextUid, txState, claims, cpu, phase, base>>
        /\ faults' \in Nat /\ undoFailed' \in BOOLEAN
    BY <1>1, <1>3, WriteType DEF Refuse, FailUndo, SkipUndo, TypeOK
  <2>2. Kept
    BY <2>1 DEF Kept
  <2>3. ClaimInv'
    BY <1>1, <2>1, <2>2, KeptPreserves
  <2>4. undos' \in [Txs -> Seq(Undo)]
    BY <1>1, <2>1, PopType
  <2> QED BY <1>1, <2>1, <2>3, <2>4 DEF IInv, TypeOK
<1> QED BY <1>2, <1>3 DEF UndoUpdate

LEMMA RestoreIntoPreserves ==
  ASSUME IInv, NEW t \in Txs, Undoing(t), NEW p \in Players, NEW s \in Slots, ~Occupied(p, s),
         NEW k \in Kinds, NEW q \in Nat, RestoreInto(t, p, s, k, q)
  PROVE  IInv'
<1>1. TypeOK /\ ClaimInv /\ undos[t] # <<>>
  BY DEF IInv, Undoing
<1>2. PICK ok \in BOOLEAN : InsertStack(p, s, k, q, ok)
  BY DEF RestoreInto
<1>3. /\ PopUndo(t) /\ undoFailed' \in BOOLEAN
      /\ UNCHANGED <<inUse, txState, claims, cpu, phase, base>>
  BY <1>1 DEF RestoreInto, TypeOK
<1>4. /\ ClaimInv' /\ faults' \in Nat /\ nextUid' \in Nat
      /\ inv' \in [Players -> [Slots -> Stack]] /\ db' \in [Players -> [Slots -> Row]]
  BY <1>1, <1>2, <1>3, InsertStackPreserves
<1>5. undos' \in [Txs -> Seq(Undo)]
  BY <1>1, <1>3, PopType
<1> QED BY <1>1, <1>3, <1>4, <1>5 DEF IInv, TypeOK

LEMMA RunUndoPreserves ==
  ASSUME IInv, NEW t \in Txs, RunUndo(t)
  PROVE  IInv'
<1> DEFINE u == LastUndo(t)
<1>1. Undoing(t) /\ TypeOK /\ ClaimInv
  BY DEF RunUndo, UndoDelta, UndoRestore, IInv
<1>2. u \in Undo
  BY <1>1, PopType DEF Undoing
<1>3. /\ u.owner \in Players /\ u.slot \in Slots /\ u.qty \in Int
      /\ u.snap # NoKind => u.snap \in Kinds /\ u.qty \in Nat
  BY <1>2 DEF Undo
<1>4. CASE UndoDelta(t)
  BY <1>1, <1>3, <1>4, UndoUpdatePreserves DEF UndoDelta
<1>5. CASE UndoRestore(t)
  <2> DEFINE p == u.owner
             k == u.snap
  <2> HIDE DEF u
  <2>1. \/ ~Occupied(p, u.slot) /\ RestoreInto(t, p, u.slot, k, u.qty)
        \/ \E s \in FreeSlots(p) : RestoreInto(t, p, s, k, u.qty)
        \/ Refuse(t)
        \/ UndoUpdate(t, p, 0, u.qty)
    BY <1>5 DEF UndoRestore, u
  <2>2. k # NoKind
    BY <1>5 DEF UndoRestore, u
  <2>3. CASE ~Occupied(p, u.slot) /\ RestoreInto(t, p, u.slot, k, u.qty)
    BY <2>2, <2>3, <1>1, <1>3, RestoreIntoPreserves
  <2>4. CASE \E s \in FreeSlots(p) : RestoreInto(t, p, s, k, u.qty)
    BY <2>2, <2>4, <1>1, <1>3, RestoreIntoPreserves DEF FreeSlots
  <2>5. CASE Refuse(t)
    <3>1. Kept /\ undos' \in [Txs -> Seq(Undo)]
      BY <2>5, <1>1, PopType DEF Kept, Refuse, SkipUndo, Undoing
    <3>2. ClaimInv'
      BY <2>5, <3>1, <1>1, KeptPreserves DEF Refuse, SkipUndo
    <3> QED BY <2>5, <3>1, <3>2, <1>1 DEF IInv, TypeOK, Refuse, SkipUndo
  <2>6. CASE UndoUpdate(t, p, 0, u.qty)
    <3>1. 0 \in Slots
      BY ConstantsAssumption DEF Slots
    <3> QED BY <3>1, <2>6, <1>1, <1>3, UndoUpdatePreserves
  <2> QED BY <2>1, <2>3, <2>4, <2>5, <2>6
<1> QED BY <1>4, <1>5 DEF RunUndo

LEMMA WorkPreserves ==
  ASSUME IInv, NEW t \in Txs, Work(t)
  PROVE  IInv'
<1>1. TypeOK /\ ClaimInv
  BY DEF IInv
<1>2. ASSUME NEW p \in Players, NEW s \in Slots, Claim(t, p, s) PROVE IInv'
  BY <1>1, <1>2, ClaimPreserves DEF IInv
<1>3. ASSUME NEW c \in claims[t], Release(t, c) PROVE IInv'
  <2>1. /\ inv' = Exited({c}) /\ claims' = [claims EXCEPT ![t] = @ \ {c}]
        /\ UNCHANGED <<db, inUse, nextUid, txState, undos, cpu, phase, base, undoFailed, faults>>
    BY <1>3 DEF Release
  <2>2. txState' = [txState EXCEPT ![t] = txState[t]] /\ {c} \in SUBSET claims[t]
    BY <1>1, <2>1 DEF TypeOK
  <2>3. ClaimInv' /\ inv' \in [Players -> [Slots -> Stack]] /\ claims' \in [Txs -> SUBSET ItemId]
    BY <1>1, <2>1, <2>2, ExitPreserves
  <2> QED BY <1>1, <2>1, <2>3 DEF IInv, TypeOK
<1>4. ASSUME NEW p \in Players, NEW ok \in BOOLEAN, NEW k \in Kinds, NEW q \in 1..StackSize[k],
             Give(t, p, k, q, ok)
      PROVE  IInv'
  <2> DEFINE n == Lesser(q, StackSize[k])
  <2>1. n \in Nat /\ -n \in Int
    BY ConstantsAssumption DEF Lesser
  <2> HIDE DEF n
  <2>2. PICK s \in FreeSlots(p) : InsertStack(p, s, k, n, ok) /\ Record(t, ok, AddsUndo(p, s, -n))
    BY <1>4 DEF Give, n
  <2>3. UNCHANGED <<inUse, txState, claims, cpu, phase, base, undoFailed>>
    BY <1>4 DEF Give
  <2>4. s \in Slots /\ ~Occupied(p, s)
    BY DEF FreeSlots
  <2>5. /\ ClaimInv' /\ faults' \in Nat /\ nextUid' \in Nat
        /\ inv' \in [Players -> [Slots -> Stack]] /\ db' \in [Players -> [Slots -> Row]]
    BY <1>1, <2>1, <2>2, <2>3, <2>4, InsertStackPreserves
  <2>6. undos' \in [Txs -> Seq(Undo)]
    BY <1>1, <2>1, <2>2, <2>4, AddsUndoType, RecordType
  <2> QED BY <1>1, <2>3, <2>5, <2>6 DEF IInv, TypeOK
<1>5. ASSUME NEW p \in Players, NEW s \in Slots, NEW ok \in BOOLEAN, Occupied(p, s),
             NEW q \in 1..StackSize[inv[p][s].kind], Grow(t, p, s, q, ok) \/ Take(t, p, s, q, ok)
      PROVE  IInv'
  <2>1. /\ inv[p][s].kind \in Kinds /\ inv[p][s].qty \in Nat
        /\ StackSize[inv[p][s].kind] \in Nat
        /\ q \in Nat /\ -q \in Int
    BY <1>1, <1>5, PlaceType, ConstantsAssumption DEF ClaimInv, StacksHaveKinds, Occupied
  <2>2. UNCHANGED <<inUse, nextUid, txState, claims, cpu, phase, base, undoFailed>>
    BY <1>5 DEF Grow, Take
  <2>3. \E delta \in {q, -q} : CanUpdate(t, p, s, delta) /\ UpdateStack(p, s, delta, ok)
    BY <1>5 DEF Grow, Take
  <2>4. /\ ClaimInv' /\ faults' \in Nat
        /\ inv' \in [Players -> [Slots -> Stack]] /\ db' \in [Players -> [Slots -> Row]]
    BY <1>1, <2>1, <2>2, <2>3, UpdatePreserves
  <2>5. CASE Grow(t, p, s, q, ok)
    <3> DEFINE d == -(Updated(p, s, q) - inv[p][s].qty)
    <3>1. d \in Int
      BY <2>1 DEF Updated, Lesser
    <3> HIDE DEF d
    <3>2. Record(t, ok, AddsUndo(p, s, d))
      BY <2>5 DEF Grow, d
    <3>3. undos' \in [Txs -> Seq(Undo)]
      BY <1>1, <3>1, <3>2, AddsUndoType, RecordType
    <3> QED BY <1>1, <2>2, <2>4, <3>3 DEF IInv, TypeOK
  <2>6. CASE Take(t, p, s, q, ok)
    <3> DEFINE snap == IF inv[p][s].qty = q THEN inv[p][s].kind ELSE NoKind
               u == [AddsUndo(p, s, q) EXCEPT !.snap = snap]
    <3>1. Record(t, ok, u)
      BY <2>6 DEF Take
    <3>2. snap = NoKind \/ snap \in Kinds
      BY <2>1
    <3> HIDE DEF snap
    <3>3. u \in Undo
      BY <2>1, <3>2 DEF AddsUndo, Undo
    <3> HIDE DEF u
    <3>4. undos' \in [Txs -> Seq(Undo)]
      BY <1>1, <3>1, <3>3, RecordType
    <3> QED BY <1>1, <2>2, <2>4, <3>4 DEF IInv, TypeOK
  <2> QED BY <1>5, <2>5, <2>6
<1> QED BY <1>2, <1>3, <1>4, <1>5 DEF Work

(* A transaction closes: all it held is given back.                         *)
LEMMA ClosePreserves ==
  ASSUME IInv, NEW t \in Txs, cpu = t, NEW st \in {"Committed", "RolledBack"},
         ReleaseAll(t), Closed(t, st), UNCHANGED <<db, inUse, nextUid, faults>>
  PROVE  IInv'
<1>1. TypeOK /\ ClaimInv
  BY DEF IInv
<1>2. /\ inv' = Exited(claims[t]) /\ claims' = [claims EXCEPT ![t] = {}]
      /\ txState' = [txState EXCEPT ![t] = st] /\ undos' = [undos EXCEPT ![t] = <<>>]
      /\ cpu' = Idle /\ phase' = "work" /\ base' = Contents /\ undoFailed' = FALSE
  BY DEF ReleaseAll, Closed, Forget
<1>3. claims' = [claims EXCEPT ![t] = @ \ claims[t]]
  BY <1>1, <1>2 DEF TypeOK
<1>4. ClaimInv' /\ inv' \in [Players -> [Slots -> Stack]] /\ claims' \in [Txs -> SUBSET ItemId]
  BY <1>1, <1>2, <1>3, ExitPreserves
<1>5. txState' \in [Txs -> {"New", "Open", "Committed", "RolledBack"}] /\ undos' \in [Txs -> Seq(Undo)]
  BY <1>1, <1>2 DEF TypeOK
<1> QED BY <1>1, <1>2, <1>4, <1>5, ContentsType DEF IInv, TypeOK

(* The steps that touch neither stacks nor claims.                          *)
LEMMA ControlPreserves ==
  ASSUME IInv, NEW t \in Txs,
         Enter(t) \/ Leave(t) \/ StartRollback(t) \/ UndoDone(t)
  PROVE  IInv'
<1>1. TypeOK /\ ClaimInv
  BY DEF IInv
<1>2. UNCHANGED <<inv, db, inUse, nextUid, claims, faults>>
  BY DEF Enter, Leave, StartRollback, UndoDone
<1>3. TypeOK'
  <2>1. /\ txState' = txState \/ txState' = [txState EXCEPT ![t] = "Open"]
        /\ undos' = undos \/ undos' = [undos EXCEPT ![t] = <<>>]
        /\ base' = base \/ base' = Contents
        /\ cpu' \in {cpu, t, Idle} /\ undoFailed' \in {undoFailed, FALSE}
        /\ phase' \in {phase, "work", "undo", "close"} /\ UNCHANGED <<inUse, nextUid>>
    <3>1. CASE Enter(t)
      BY <3>1 DEF Enter
    <3>2. CASE Leave(t)
      BY <3>2 DEF Leave, Forget
    <3>3. CASE StartRollback(t)
      BY <3>3 DEF StartRollback
    <3>4. CASE UndoDone(t)
      BY <3>4 DEF UndoDone
    <3> QED BY <3>1, <3>2, <3>3, <3>4
  <2>2. undos' \in [Txs -> Seq(Undo)]
    <3>1. undos \in [Txs -> Seq(Undo)] /\ [undos EXCEPT ![t] = <<>>] \in [Txs -> Seq(Undo)]
      BY <1>1 DEF TypeOK
    <3> QED BY <3>1, <2>1
  <2>3. base' \in [Players -> [Slots -> Row]]
    BY <1>1, <2>1, ContentsType DEF TypeOK
  <2> QED BY <2>1, <2>2, <2>3, <1>1, <1>2 DEF TypeOK
<1>4. /\ \A u \in Txs : txState'[u] = txState[u] \/ (u = t /\ txState'[u] = "Open")
      /\ cpu' = Idle \/ (cpu' = cpu /\ txState' = txState) \/ (cpu' = t /\ txState'[t] = "Open")
  BY <1>1 DEF Enter, Leave, StartRollback, UndoDone, TypeOK
<1>5. OpenHold'
  BY <1>1, <1>2, <1>4 DEF ClaimInv, OpenHold
<1>6. StampsAreClaimed'
  BY <1>1, <1>2, <1>4 DEF ClaimInv, ClaimsExclusive, StampsAreClaimed, IdOf
<1>7. /\ UidsUnique' /\ StacksHaveKinds' /\ ClaimsNameOnePlace'
      /\ ClaimsAreStamped' /\ OneHolder'
  BY <1>1, <1>2 DEF ClaimInv, ClaimsExclusive, UidsUnique, StacksHaveKinds, ClaimsNameOnePlace,
     ClaimsAreStamped, OneHolder, Resolves, IdOf
<1> QED BY <1>3, <1>5, <1>6, <1>7 DEF IInv, ClaimInv, ClaimsExclusive

LEMMA HandlerPreserves ==
  ASSUME IInv, NEW t \in Txs, Handler(t)
  PROVE  IInv'
<1>1. CASE Enter(t) \/ Leave(t) \/ StartRollback(t) \/ UndoDone(t)
  BY <1>1, ControlPreserves
<1>2. CASE Work(t)
  BY <1>2, WorkPreserves
<1>3. CASE RunUndo(t)
  BY <1>3, RunUndoPreserves
<1>4. CASE Commit(t)
  BY <1>4, ClosePreserves DEF Commit
<1>5. CASE FinishRollback(t)
  BY <1>5, ClosePreserves DEF FinishRollback
<1> QED BY <1>1, <1>2, <1>3, <1>4, <1>5 DEF Handler

LEMMA ElsewherePreserves ==
  ASSUME IInv, NEW p \in Players, Elsewhere(p)
  PROVE  IInv'
<1>1. TypeOK /\ ClaimInv
  BY DEF IInv
<1>2. ASSUME NEW s \in Slots, NEW st \in States, Mark(p, s, st) PROVE IInv'
  BY <1>1, <1>2, MarkPreserves DEF IInv
<1>3. ASSUME NEW s \in Slots, NEW r \in Slots, NEW ok \in BOOLEAN, MoveItemTo(p, s, r, ok) PROVE IInv'
  BY <1>1, <1>3, MovePreserves DEF IInv
<1>4. ASSUME (\E s \in Slots : StartUse(p, s)) \/ EndUse(p) PROVE IInv'
  <2>1. UNCHANGED <<inv, db, nextUid, txState, claims, undos, cpu, phase, base, undoFailed, faults>>
    BY <1>4 DEF StartUse, EndUse
  <2>2. inUse' \in [Players -> Nat]
    BY <1>1, <1>4, PlaceType DEF StartUse, EndUse, TypeOK
  <2>3. Kept
    BY <2>1 DEF Kept
  <2>4. ClaimInv'
    BY <1>1, <2>1, <2>3, KeptPreserves
  <2> QED BY <1>1, <2>1, <2>2, <2>4 DEF IInv, TypeOK
<1> QED BY <1>2, <1>3, <1>4 DEF Elsewhere

(* IInv is inductive.                                                       *)
LEMMA StepPreserves == IInv /\ [Next]_vars => IInv'
<1> SUFFICES ASSUME IInv, [Next]_vars PROVE IInv'
  OBVIOUS
<1>1. CASE UNCHANGED vars
  BY <1>1 DEF vars, IInv, TypeOK, ClaimInv, UidsUnique, StacksHaveKinds, ClaimsNameOnePlace, OpenHold,
     ClaimsExclusive, StampsAreClaimed, ClaimsAreStamped, OneHolder, Resolves, IdOf
<1>2. CASE \E t \in Txs : Handler(t)
  BY <1>2, HandlerPreserves
<1>3. CASE \E p \in Players : Elsewhere(p)
  BY <1>3, ElsewherePreserves
<1> QED BY <1>1, <1>2, <1>3 DEF Next

(* The characters as loaded satisfy it.                                     *)
LEMMA InitIInv == Init => IInv
<1> SUFFICES ASSUME Init PROVE IInv
  OBVIOUS
<1>1. inv \in [Players -> [Slots -> Stack]]
  BY LoadedAssumption DEF Init
<1>2. Contents \in [Players -> [Slots -> Row]]
  <2> SUFFICES ASSUME NEW p \in Players, NEW s \in Slots PROVE RowOf(inv[p][s]) \in Row
    BY DEF Contents
  <2> QED BY <1>1 DEF RowOf, Row, Stack
<1>3. TypeOK
  <2>1. undos \in [Txs -> Seq(Undo)] /\ claims \in [Txs -> SUBSET ItemId]
    BY DEF Init
  <2> QED BY <1>1, <1>2, <2>1, LoadedAssumption DEF Init, TypeOK
<1>4. UidsUnique /\ StacksHaveKinds
  BY LoadedAssumption DEF Init, UidsUnique, StacksHaveKinds
<1>5. \A t \in Txs : claims[t] = {}
  BY DEF Init
<1>6. ClaimsNameOnePlace /\ OpenHold
  BY <1>5 DEF Init, ClaimsNameOnePlace, OpenHold
<1>7. ClaimsExclusive
  BY <1>5, LoadedAssumption DEF Init, ClaimsExclusive, StampsAreClaimed, ClaimsAreStamped, OneHolder
<1> QED BY <1>3, <1>4, <1>6, <1>7 DEF IInv, ClaimInv

-----------------------------------------------------------------------------
(* The theorems                                                             *)

(* The invariant holds in every state the engine reaches.                   *)
THEOREM Invariant == Spec => []IInv
<1> QED BY InitIInv, StepPreserves, PTL DEF Spec

(* Type correctness, for any constants that satisfy the assumptions.        *)
THEOREM TypeCorrect == Spec => []TypeOK
<1>1. IInv => TypeOK
  BY DEF IInv
<1> QED BY <1>1, Invariant, PTL

(* The stamps the containers show and the claims the transactions hold are  *)
(* one relation, with one holder for a stack, however many transactions are *)
(* open and whichever of their writes fail.                                 *)
THEOREM ClaimsStayExclusive == Spec => []ClaimsExclusive
<1>1. IInv => ClaimsExclusive
  BY DEF IInv, ClaimInv
<1> QED BY <1>1, Invariant, PTL

-----------------------------------------------------------------------------
(* What a step does to stamped stacks and to claims                         *)

(* An update of a stamped stack is made by its holder.                      *)
LEMMA UpdateByHolder ==
  ASSUME TypeOK, StacksHaveKinds, NEW t \in Txs, NEW p \in Players, NEW s \in Slots, NEW delta \in Int,
         NEW ok \in BOOLEAN, CanUpdate(t, p, s, delta), UpdateStack(p, s, delta, ok),
         NEW q \in Players, NEW r \in Slots, inv[q][r].state = "InTransaction", inv'[q][r] # inv[q][r]
  PROVE  Holds(t, q, r)
<1>1. q = p /\ r = s
  BY UpdateStackEffect DEF CanUpdate
<1> QED BY <1>1 DEF CanUpdate, MayMutate

(* The stamp of a stack that is released is the transaction's own.          *)
LEMMA ExitByHolder ==
  ASSUME TypeOK, NEW t \in Txs, NEW ids \in SUBSET claims[t], inv' = Exited(ids),
         NEW q \in Players, NEW r \in Slots, inv'[q][r] # inv[q][r]
  PROVE  Holds(t, q, r)
<1>1. PICK c \in ids : c.owner = q /\ c.slot = r /\ Resolves(c)
  BY DEF Exited
<1> QED BY <1>1 DEF Holds, Resolves

(* Another stack than those in the container comes into an empty place.     *)
LEMMA InsertElsewhere ==
  ASSUME IInv, NEW p \in Players, NEW s \in Slots, ~Occupied(p, s), NEW k \in Kinds, NEW n \in Nat,
         NEW ok \in BOOLEAN, InsertStack(p, s, k, n, ok),
         NEW q \in Players, NEW r \in Slots, inv[q][r].state = "InTransaction"
  PROVE  inv'[q][r] = inv[q][r]
<1>1. inv'[q][r] = inv[q][r] \/ (q = p /\ r = s)
  <2>1. TypeOK
    BY DEF IInv
  <2>2. \A o \in Players, x \in Slots :
          \/ inv'[o][x] = inv[o][x]
          \/ /\ o = p /\ x = s
             /\ inv'[o][x] = [uid |-> nextUid, kind |-> k, qty |-> n, state |-> "Free"]
    BY <2>1, InsertStackEffect
  <2> QED BY <2>2
<1>2. inv[p][s].state # "InTransaction"
  BY DEF Occupied, IInv, ClaimInv, StacksHaveKinds, NoStack
<1> QED BY <1>1, <1>2

LEMMA HolderStep ==
  ASSUME IInv, Next, NEW q \in Players, NEW r \in Slots,
         inv[q][r].state = "InTransaction", inv'[q][r] # inv[q][r]
  PROVE  cpu \in Txs /\ Holds(cpu, q, r)
<1> USE DEF IInv, ClaimInv
<1>1. ASSUME NEW t \in Txs, Work(t) PROVE cpu \in Txs /\ Holds(cpu, q, r)
  <2>1. ASSUME NEW p \in Players, NEW s \in Slots, Claim(t, p, s) PROVE FALSE
    BY <2>1, StampEffect DEF Claim, States
  <2>2. ASSUME NEW c \in claims[t], Release(t, c) PROVE cpu \in Txs /\ Holds(cpu, q, r)
    <3>1. {c} \in SUBSET claims[t] /\ inv' = Exited({c}) /\ cpu = t
      BY <2>2 DEF Release, Releasing
    <3> QED BY <3>1, ExitByHolder
  <2>3. ASSUME NEW p \in Players, NEW ok \in BOOLEAN, NEW k \in Kinds, NEW n \in 1..StackSize[k],
               Give(t, p, k, n, ok)
        PROVE  FALSE
    <3> DEFINE m == Lesser(n, StackSize[k])
    <3>1. m \in Nat
      BY ConstantsAssumption DEF Lesser
    <3> HIDE DEF m
    <3>2. PICK s \in FreeSlots(p) : InsertStack(p, s, k, m, ok)
      BY <2>3 DEF Give, m
    <3> QED BY <3>1, <3>2, InsertElsewhere DEF FreeSlots
  <2>4. ASSUME NEW p \in Players, NEW s \in Slots, NEW ok \in BOOLEAN, Occupied(p, s),
               NEW n \in 1..StackSize[inv[p][s].kind], Grow(t, p, s, n, ok) \/ Take(t, p, s, n, ok)
        PROVE  cpu \in Txs /\ Holds(cpu, q, r)
    <3>1. n \in Int /\ -n \in Int
      OBVIOUS
    <3>2. \E delta \in {n, -n} : CanUpdate(t, p, s, delta) /\ UpdateStack(p, s, delta, ok)
      BY <2>4 DEF Grow, Take
    <3>3. cpu = t
      BY <2>4 DEF Grow, Take, Working
    <3> QED BY <3>1, <3>2, <3>3, UpdateByHolder
  <2> QED BY <1>1, <2>1, <2>2, <2>3, <2>4 DEF Work
<1>2. ASSUME NEW t \in Txs, RunUndo(t) PROVE cpu \in Txs /\ Holds(cpu, q, r)
  <2> DEFINE u == LastUndo(t)
  <2>1. Undoing(t) /\ cpu = t
    BY <1>2 DEF RunUndo, UndoDelta, UndoRestore, Undoing
  <2>2. u \in Undo
    BY <2>1, PopType DEF Undoing
  <2>3. /\ u.owner \in Players /\ u.slot \in Slots /\ u.qty \in Int
        /\ u.snap # NoKind => u.snap \in Kinds /\ u.qty \in Nat
    BY <2>2 DEF Undo
  <2>4. 0 \in Slots
    BY ConstantsAssumption DEF Slots
  <2> HIDE DEF u
  <2>5. ASSUME NEW s \in Slots, UndoUpdate(t, u.owner, s, u.qty) PROVE Holds(cpu, q, r)
    <3>1. CanUpdate(t, u.owner, s, u.qty) /\ UpdateStack(u.owner, s, u.qty, TRUE)
      BY <2>5 DEF UndoUpdate, Refuse, FailUndo, SkipUndo
    <3> QED BY <3>1, <2>1, <2>3, UpdateByHolder
  <2>6. ASSUME NEW s \in Slots, ~Occupied(u.owner, s), u.snap # NoKind, RestoreInto(t, u.owner, s, u.snap, u.qty)
        PROVE  FALSE
    <3>1. PICK ok \in BOOLEAN : InsertStack(u.owner, s, u.snap, u.qty, ok)
      BY <2>6 DEF RestoreInto
    <3> QED BY <3>1, <2>3, <2>6, InsertElsewhere
  <2>7. CASE UndoDelta(t)
    BY <2>1, <2>3, <2>5, <2>7 DEF UndoDelta, u
  <2>8. CASE UndoRestore(t)
    <3>1. /\ u.snap # NoKind
          /\ \/ \E s \in Slots : ~Occupied(u.owner, s) /\ RestoreInto(t, u.owner, s, u.snap, u.qty)
             \/ UndoUpdate(t, u.owner, 0, u.qty)
      BY <2>3, <2>8 DEF UndoRestore, u, FreeSlots, Refuse, SkipUndo
    <3> QED BY <3>1, <2>1, <2>4, <2>5, <2>6
  <2> QED BY <1>2, <2>7, <2>8 DEF RunUndo
<1>3. ASSUME NEW t \in Txs, Commit(t) \/ FinishRollback(t) PROVE cpu \in Txs /\ Holds(cpu, q, r)
  <2>1. inv' = Exited(claims[t]) /\ cpu = t /\ claims[t] \in SUBSET claims[t]
    BY <1>3 DEF Commit, FinishRollback, ReleaseAll
  <2> QED BY <2>1, ExitByHolder
<1>4. ASSUME NEW t \in Txs, Enter(t) \/ Leave(t) \/ StartRollback(t) \/ UndoDone(t) PROVE FALSE
  BY <1>4 DEF Enter, Leave, StartRollback, UndoDone
<1>5. ASSUME NEW p \in Players, Elsewhere(p) PROVE FALSE
  <2>1. ASSUME NEW s \in Slots, NEW st \in States, Mark(p, s, st) PROVE FALSE
    BY <2>1, StampEffect DEF Mark
  <2>2. ASSUME NEW s \in Slots, NEW x \in Slots, NEW ok \in BOOLEAN, MoveItemTo(p, s, x, ok) PROVE FALSE
    <3>1. inv[p][s].state = "Free" /\ inv[p][x].state = "Free"
      BY <2>2 DEF MoveItemTo, FreeSlots, Occupied, StacksHaveKinds, NoStack
    <3> QED BY <2>2, <3>1, MoveEffect
  <2>3. ASSUME (\E s \in Slots : StartUse(p, s)) \/ EndUse(p) PROVE FALSE
    BY <2>3 DEF StartUse, EndUse
  <2> QED BY <1>5, <2>1, <2>2, <2>3 DEF Elsewhere
<1> QED BY <1>1, <1>2, <1>3, <1>4, <1>5 DEF Next, Handler

(* A place shows a uid that was somewhere before, the next one, or none.    *)
LEMMA UidsComeFrom ==
  ASSUME IInv, Next, NEW q \in Players, NEW r \in Slots
  PROVE  \/ inv'[q][r].uid \in {NoUid, nextUid}
         \/ \E p \in Players, s \in Slots : inv'[q][r].uid = inv[p][s].uid
<1> USE DEF IInv, ClaimInv
<1> DEFINE Known == \/ inv'[q][r].uid \in {NoUid, nextUid}
                    \/ \E p \in Players, s \in Slots : inv'[q][r].uid = inv[p][s].uid
<1>1. NoStack.uid = NoUid
  BY DEF NoStack
<1>2. ASSUME inv'[q][r].uid = inv[q][r].uid \/ inv' = inv \/ inv'[q][r] = inv[q][r] PROVE Known
  BY <1>2
<1>3. ASSUME NEW t \in Txs, NEW p \in Players, NEW s \in Slots, NEW delta \in Int, NEW ok \in BOOLEAN,
             CanUpdate(t, p, s, delta), UpdateStack(p, s, delta, ok)
      PROVE  Known
  BY <1>1, <1>3, UpdateStackEffect DEF CanUpdate
<1>4. ASSUME NEW p \in Players, NEW s \in Slots, NEW k \in Kinds, NEW n \in Nat, NEW ok \in BOOLEAN,
             InsertStack(p, s, k, n, ok)
      PROVE  Known
  <2>1. \A o \in Players, x \in Slots :
          \/ inv'[o][x] = inv[o][x]
          \/ /\ o = p /\ x = s
             /\ inv'[o][x] = [uid |-> nextUid, kind |-> k, qty |-> n, state |-> "Free"]
    BY <1>4, InsertStackEffect
  <2> QED BY <2>1
<1>5. ASSUME NEW ids, inv' = Exited(ids) PROVE Known
  <2>1. inv[q][r] \in Stack
    BY PlaceType
  <2>2. [inv[q][r] EXCEPT !.state = "Free"].uid = inv[q][r].uid
    BY <2>1 DEF Stack
  <2>3. inv'[q][r].uid = inv[q][r].uid
    BY <1>5, <2>2 DEF Exited
  <2> QED BY <2>3
<1> HIDE DEF Known
<1>6. ASSUME NEW t \in Txs, Work(t) PROVE Known
  <2>1. ASSUME NEW p \in Players, NEW s \in Slots, Claim(t, p, s) PROVE Known
    BY <2>1, <1>2, StampEffect DEF Claim, States
  <2>2. ASSUME NEW p \in Players, NEW ok \in BOOLEAN, NEW k \in Kinds, NEW n \in 1..StackSize[k],
               Give(t, p, k, n, ok)
        PROVE  Known
    <3> DEFINE m == Lesser(n, StackSize[k])
    <3>1. m \in Nat
      BY ConstantsAssumption DEF Lesser
    <3> HIDE DEF m
    <3>2. PICK s \in FreeSlots(p) : InsertStack(p, s, k, m, ok)
      BY <2>2 DEF Give, m
    <3> QED BY <3>1, <3>2, <1>4 DEF FreeSlots
  <2>3. ASSUME NEW p \in Players, NEW s \in Slots, NEW ok \in BOOLEAN,
               NEW n \in 1..StackSize[inv[p][s].kind], Grow(t, p, s, n, ok) \/ Take(t, p, s, n, ok)
        PROVE  Known
    <3>1. \E delta \in {n, -n} : CanUpdate(t, p, s, delta) /\ UpdateStack(p, s, delta, ok)
      BY <2>3 DEF Grow, Take
    <3> QED BY <3>1, <1>3
  <2> QED BY <1>5, <1>6, <2>1, <2>2, <2>3 DEF Work, Release
<1>7. ASSUME NEW t \in Txs, RunUndo(t) PROVE Known
  <2> DEFINE u == LastUndo(t)
  <2>1. Undoing(t)
    BY <1>7 DEF RunUndo, UndoDelta, UndoRestore
  <2>2. u \in Undo
    BY <2>1, PopType DEF Undoing
  <2>3. /\ u.owner \in Players /\ u.slot \in Slots /\ u.qty \in Int /\ 0 \in Slots
        /\ u.snap # NoKind => u.snap \in Kinds /\ u.qty \in Nat
    BY <2>2, ConstantsAssumption DEF Undo, Slots
  <2> HIDE DEF u
  <2>4. ASSUME NEW s \in Slots, UndoUpdate(t, u.owner, s, u.qty) PROVE Known
    BY <1>2, <1>3, <2>3, <2>4 DEF UndoUpdate, Refuse, FailUndo, SkipUndo
  <2>5. ASSUME NEW s \in Slots, u.snap # NoKind, RestoreInto(t, u.owner, s, u.snap, u.qty) PROVE Known
    BY <1>4, <2>3, <2>5 DEF RestoreInto
  <2>6. CASE UndoDelta(t)
    BY <2>3, <2>4, <2>6 DEF UndoDelta, u
  <2>7. CASE UndoRestore(t)
    BY <1>2, <2>3, <2>4, <2>5, <2>7 DEF UndoRestore, u, FreeSlots, Refuse, SkipUndo
  <2> QED BY <1>7, <2>6, <2>7 DEF RunUndo
<1>8. ASSUME NEW t \in Txs,
             Commit(t) \/ FinishRollback(t) \/ Enter(t) \/ Leave(t) \/ StartRollback(t) \/ UndoDone(t)
      PROVE  Known
  BY <1>2, <1>5, <1>8 DEF Commit, FinishRollback, ReleaseAll, Enter, Leave, StartRollback, UndoDone
<1>9. ASSUME NEW p \in Players, Elsewhere(p) PROVE Known
  <2>1. ASSUME NEW s \in Slots, NEW st \in States, Mark(p, s, st) PROVE Known
    BY <2>1, <1>2, StampEffect DEF Mark
  <2>2. ASSUME NEW s \in Slots, NEW x \in Slots, NEW ok \in BOOLEAN, MoveItemTo(p, s, x, ok) PROVE Known
    <3>1. inv'[q][r] \in {inv[q][r], inv[p][s], NoStack}
      BY <2>2, MoveEffect
    <3> QED BY <3>1, <1>1 DEF Known
  <2>3. ASSUME (\E s \in Slots : StartUse(p, s)) \/ EndUse(p) PROVE Known
    BY <1>2, <2>3 DEF StartUse, EndUse
  <2> QED BY <1>9, <2>1, <2>2, <2>3 DEF Elsewhere
<1> QED BY <1>6, <1>7, <1>8, <1>9 DEF Next, Handler, Known

(* A claimed stack "may only be mutated by the transaction holding them":   *)
(* no other transaction and no other handler touches it, in work, in an     *)
(* undo or in a release.                                                    *)
THEOREM OnlyTheHolder == Spec => HolderOnly
<1>1. IInv /\ [Next]_vars =>
        [\A p \in Players, s \in Slots :
           inv[p][s].state = "InTransaction" /\ inv'[p][s] # inv[p][s]
             => cpu \in Txs /\ Holds(cpu, p, s)]_vars
  BY HolderStep
<1> QED BY <1>1, Invariant, PTL DEF Spec, HolderOnly

LEMMA DeadStep ==
  ASSUME IInv, Next, NEW t \in Txs, NEW c \in claims[t], ~Resolves(c)
  PROVE  ~Resolves(c)'
<1> USE DEF IInv, ClaimInv
<1>1. \A p \in Players, s \in Slots : inv[p][s].uid # c.uid
  BY DEF ClaimsNameOnePlace, Resolves
<1>2. c \in ItemId /\ c.uid \in Nat /\ c.uid # NoUid /\ c.uid < nextUid /\ nextUid \in Nat
  BY DEF ClaimsNameOnePlace, TypeOK, ItemId
<1>3. \A p \in Players, s \in Slots : inv'[p][s].uid # c.uid
  BY <1>1, <1>2, UidsComeFrom
<1> QED BY <1>2, <1>3 DEF Resolves, ItemId

(* A dead claim stays dead: a stack that comes into the slot has a uid the  *)
(* claim cannot have.                                                       *)
THEOREM DeadClaims == Spec => DeadClaimsStayDead
<1>1. IInv /\ [Next]_vars => [\A t \in Txs : \A c \in claims[t] : ~Resolves(c) => ~Resolves(c)']_vars
  BY DeadStep
<1> QED BY <1>1, Invariant, PTL DEF Spec, DeadClaimsStayDead

-----------------------------------------------------------------------------
(* Memory and database                                                      *)

(* Place by place: the row says what the stack says.                        *)
Synced == \A q \in Players, r \in Slots : db[q][r] = RowOf(inv[q][r])

LEMMA SyncedIsMatch == TypeOK => (Synced <=> MemoryMatchesDatabase)
<1> SUFFICES ASSUME TypeOK PROVE Synced <=> MemoryMatchesDatabase
  OBVIOUS
<1>1. db \in [Players -> [Slots -> Row]]
  BY DEF TypeOK
<1>2. \A q \in Players, r \in Slots : Contents[q][r] = RowOf(inv[q][r])
  BY DEF Contents
<1>3. Contents \in [Players -> [Slots -> Row]]
  BY ContentsType
<1>4. Synced => db = Contents
  <2> SUFFICES ASSUME Synced PROVE db = Contents
    OBVIOUS
  <2>1. ASSUME NEW q \in Players PROVE db[q] = Contents[q]
    <3>1. db[q] \in [Slots -> Row] /\ Contents[q] \in [Slots -> Row]
      BY <1>1, <1>3
    <3>2. \A r \in Slots : db[q][r] = Contents[q][r]
      BY <1>2 DEF Synced
    <3> QED BY <3>1, <3>2
  <2> QED BY <2>1, <1>1, <1>3
<1> QED BY <1>2, <1>4 DEF Synced, MemoryMatchesDatabase

(* One place takes a stack and its row, both or neither.                    *)
LEMMA PutSynced ==
  ASSUME TypeOK, Synced, NEW p \in Players, NEW s \in Slots, NEW x \in Stack, NEW row \in Row,
         row = RowOf(x),
         \/ inv' = inv /\ db' = db
         \/ inv' = [inv EXCEPT ![p][s] = x] /\ db' = [db EXCEPT ![p][s] = row]
  PROVE  Synced'
<1>1. db \in [Players -> [Slots -> Row]] /\ inv \in [Players -> [Slots -> Stack]]
  BY DEF TypeOK
<1>2. CASE inv' = inv /\ db' = db
  BY <1>2 DEF Synced, RowOf
<1>3. CASE inv' = [inv EXCEPT ![p][s] = x] /\ db' = [db EXCEPT ![p][s] = row]
  <2>1. \A q \in Players, r \in Slots :
          /\ inv'[q][r] = IF q = p /\ r = s THEN x ELSE inv[q][r]
          /\ db'[q][r] = IF q = p /\ r = s THEN row ELSE db[q][r]
    BY <1>1, <1>3, PutIn
  <2> QED BY <2>1 DEF Synced, RowOf
<1> QED BY <1>2, <1>3

LEMMA UpdateSynced ==
  ASSUME TypeOK, StacksHaveKinds, Synced, NEW t \in Txs, NEW p \in Players, NEW s \in Slots,
         NEW delta \in Int, NEW ok \in BOOLEAN, CanUpdate(t, p, s, delta), UpdateStack(p, s, delta, ok)
  PROVE  Synced'
<1> DEFINE n == Updated(p, s, delta)
           k == inv[p][s].kind
           new == [inv[p][s] EXCEPT !.qty = n]
           row == [kind |-> k, qty |-> n]
<1>1. k \in Kinds /\ StackSize[k] \in Nat
  BY ConstantsAssumption DEF StacksHaveKinds, CanUpdate, Occupied
<1>2. n \in Nat
  BY <1>1, PlaceType DEF Updated, Lesser, CanUpdate
<1>3. new \in Stack /\ row \in Row /\ row = RowOf(new) /\ NoRow = RowOf(NoStack)
  BY <1>1, <1>2, PlaceType DEF Stack, Row, RowOf, NoRow, NoStack
<1> HIDE DEF n, k, new, row
<1>4. \/ inv' = inv /\ db' = db
      \/ inv' = [inv EXCEPT ![p][s] = NoStack] /\ db' = [db EXCEPT ![p][s] = NoRow]
      \/ inv' = [inv EXCEPT ![p][s] = new] /\ db' = [db EXCEPT ![p][s] = row]
  BY DEF UpdateStack, n, k, new, row
<1> QED BY <1>3, <1>4, StackType, PutSynced

LEMMA InsertSynced ==
  ASSUME TypeOK, Synced, NEW p \in Players, NEW s \in Slots, NEW k \in Kinds,
         NEW q \in Nat, NEW ok \in BOOLEAN, InsertStack(p, s, k, q, ok)
  PROVE  Synced'
<1> DEFINE new == [uid |-> nextUid, kind |-> k, qty |-> q, state |-> "Free"]
           row == [kind |-> k, qty |-> q]
<1>1. new \in Stack /\ row \in Row /\ row = RowOf(new)
  BY DEF TypeOK, Stack, Row, States, RowOf
<1> HIDE DEF new, row
<1>2. \/ inv' = inv /\ db' = db
      \/ inv' = [inv EXCEPT ![p][s] = new] /\ db' = [db EXCEPT ![p][s] = row]
  BY DEF InsertStack, new, row
<1> QED BY <1>1, <1>2, PutSynced

(* Steps that leave kinds, quantities and rows alone.                       *)
LEMMA StateSynced ==
  ASSUME Synced, db' = db,
         \A q \in Players, r \in Slots : inv'[q][r].kind = inv[q][r].kind /\ inv'[q][r].qty = inv[q][r].qty
  PROVE  Synced'
BY DEF Synced, RowOf

LEMMA ExitSynced ==
  ASSUME TypeOK, Synced, db' = db, NEW ids, inv' = Exited(ids)
  PROVE  Synced'
<1> SUFFICES ASSUME NEW q \in Players, NEW r \in Slots
             PROVE  inv'[q][r].kind = inv[q][r].kind /\ inv'[q][r].qty = inv[q][r].qty
  BY StateSynced
<1>1. inv[q][r] \in Stack
  BY PlaceType
<1>2. /\ [inv[q][r] EXCEPT !.state = "Free"].kind = inv[q][r].kind
      /\ [inv[q][r] EXCEPT !.state = "Free"].qty = inv[q][r].qty
  BY <1>1 DEF Stack
<1> QED BY <1>2 DEF Exited

LEMMA SyncedStep ==
  ASSUME IInv, Synced, Next
  PROVE  Synced'
<1> USE DEF IInv, ClaimInv
<1>1. ASSUME inv' = inv, db' = db PROVE Synced'
  BY <1>1 DEF Synced, RowOf
<1>2. ASSUME NEW t \in Txs, Work(t) PROVE Synced'
  <2>1. ASSUME NEW p \in Players, NEW s \in Slots, Claim(t, p, s) PROVE Synced'
    BY <2>1, StampEffect, StateSynced DEF Claim, States
  <2>2. ASSUME NEW p \in Players, NEW ok \in BOOLEAN, NEW k \in Kinds, NEW n \in 1..StackSize[k],
               Give(t, p, k, n, ok)
        PROVE  Synced'
    <3> DEFINE m == Lesser(n, StackSize[k])
    <3>1. m \in Nat
      BY ConstantsAssumption DEF Lesser
    <3> HIDE DEF m
    <3>2. PICK s \in FreeSlots(p) : InsertStack(p, s, k, m, ok)
      BY <2>2 DEF Give, m
    <3> QED BY <3>1, <3>2, InsertSynced DEF FreeSlots
  <2>3. ASSUME NEW p \in Players, NEW s \in Slots, NEW ok \in BOOLEAN,
               NEW n \in 1..StackSize[inv[p][s].kind], Grow(t, p, s, n, ok) \/ Take(t, p, s, n, ok)
        PROVE  Synced'
    <3>1. \E delta \in {n, -n} : CanUpdate(t, p, s, delta) /\ UpdateStack(p, s, delta, ok)
      BY <2>3 DEF Grow, Take
    <3> QED BY <3>1, UpdateSynced
  <2> QED BY <1>2, <2>1, <2>2, <2>3, ExitSynced DEF Work, Release
<1>3. ASSUME NEW t \in Txs, RunUndo(t) PROVE Synced'
  <2> DEFINE u == LastUndo(t)
  <2>1. Undoing(t)
    BY <1>3 DEF RunUndo, UndoDelta, UndoRestore
  <2>2. u \in Undo
    BY <2>1, PopType DEF Undoing
  <2>3. /\ u.owner \in Players /\ u.slot \in Slots /\ u.qty \in Int /\ 0 \in Slots
        /\ u.snap # NoKind => u.snap \in Kinds /\ u.qty \in Nat
    BY <2>2, ConstantsAssumption DEF Undo, Slots
  <2> HIDE DEF u
  <2>4. ASSUME NEW s \in Slots, UndoUpdate(t, u.owner, s, u.qty) PROVE Synced'
    BY <1>1, <2>3, <2>4, UpdateSynced DEF UndoUpdate, Refuse, FailUndo, SkipUndo
  <2>5. ASSUME NEW s \in Slots, u.snap # NoKind, RestoreInto(t, u.owner, s, u.snap, u.qty) PROVE Synced'
    BY <2>3, <2>5, InsertSynced DEF RestoreInto
  <2>6. CASE UndoDelta(t)
    BY <2>3, <2>4, <2>6 DEF UndoDelta, u
  <2>7. CASE UndoRestore(t)
    BY <1>1, <2>3, <2>4, <2>5, <2>7 DEF UndoRestore, u, FreeSlots, Refuse, SkipUndo
  <2> QED BY <1>3, <2>6, <2>7 DEF RunUndo
<1>4. ASSUME NEW t \in Txs, Commit(t) \/ FinishRollback(t) PROVE Synced'
  BY <1>4, ExitSynced DEF Commit, FinishRollback, ReleaseAll
<1>5. ASSUME NEW t \in Txs, Enter(t) \/ Leave(t) \/ StartRollback(t) \/ UndoDone(t) PROVE Synced'
  BY <1>1, <1>5 DEF Enter, Leave, StartRollback, UndoDone
<1>6. ASSUME NEW p \in Players, Elsewhere(p) PROVE Synced'
  <2>1. ASSUME NEW s \in Slots, NEW st \in States, Mark(p, s, st) PROVE Synced'
    BY <2>1, StampEffect, StateSynced DEF Mark
  <2>2. ASSUME NEW s \in Slots, NEW r \in Slots, NEW ok \in BOOLEAN, MoveItemTo(p, s, r, ok) PROVE Synced'
    <3>1. CASE inv' = inv /\ db' = db
      BY <3>1, <1>1
    <3>2. CASE Moved(p, s, r)
      <4> DEFINE inv1 == [inv EXCEPT ![p][r] = inv[p][s]]
                 db1  == [db EXCEPT ![p][r] = db[p][s]]
      <4>1. inv' = [inv1 EXCEPT ![p][s] = NoStack] /\ db' = [db1 EXCEPT ![p][s] = NoRow]
        BY <3>2 DEF Moved
      <4>2. /\ inv1 \in [Players -> [Slots -> Stack]] /\ db1 \in [Players -> [Slots -> Row]]
            /\ \A q \in Players, x \in Slots :
                 /\ inv1[q][x] = IF q = p /\ x = r THEN inv[p][s] ELSE inv[q][x]
                 /\ db1[q][x] = IF q = p /\ x = r THEN db[p][s] ELSE db[q][x]
        BY PutIn, PlaceType DEF TypeOK
      <4> HIDE DEF inv1, db1
      <4>3. \A q \in Players, x \in Slots :
              /\ inv'[q][x] = IF q = p /\ x = s THEN NoStack ELSE inv1[q][x]
              /\ db'[q][x] = IF q = p /\ x = s THEN NoRow ELSE db1[q][x]
        BY <4>1, <4>2, PutIn, StackType
      <4>4. NoRow = RowOf(NoStack)
        BY DEF NoRow, NoStack, RowOf
      <4> SUFFICES ASSUME NEW q \in Players, NEW x \in Slots PROVE db'[q][x] = RowOf(inv'[q][x])
        BY DEF Synced, RowOf
      <4>5. db[q][x] = RowOf(inv[q][x]) /\ db[p][s] = RowOf(inv[p][s])
        BY DEF Synced
      <4> QED BY <4>2, <4>3, <4>4, <4>5
    <3> QED BY <2>2, <3>1, <3>2 DEF MoveItemTo, Moved
  <2>3. ASSUME (\E s \in Slots : StartUse(p, s)) \/ EndUse(p) PROVE Synced'
    BY <1>1, <2>3 DEF StartUse, EndUse
  <2> QED BY <1>6, <2>1, <2>2, <2>3 DEF Elsewhere
<1> QED BY <1>2, <1>3, <1>4, <1>5, <1>6 DEF Next, Handler

(* A restart loads what the players saw, whichever writes failed: a step    *)
(* that changes a stack writes its row first or takes the change back.      *)
THEOREM RestartLoadsWhatPlayersSaw == Spec => []MemoryMatchesDatabase
<1>1. Init => MemoryMatchesDatabase
  BY DEF Init, MemoryMatchesDatabase
<1>2. TypeOK' => (Synced' <=> MemoryMatchesDatabase')
  BY SyncedIsMatch, PTL
<1>3. IInv /\ IInv' /\ MemoryMatchesDatabase /\ [Next]_vars => MemoryMatchesDatabase'
  <2> SUFFICES ASSUME IInv, IInv', MemoryMatchesDatabase, [Next]_vars PROVE MemoryMatchesDatabase'
    OBVIOUS
  <2>1. Synced
    BY SyncedIsMatch DEF IInv
  <2>2. CASE UNCHANGED vars
    BY <2>2 DEF vars, MemoryMatchesDatabase, Contents
  <2>3. CASE Next
    <3>1. Synced' /\ TypeOK'
      BY <2>1, <2>3, SyncedStep DEF IInv
    <3> QED BY <3>1, <1>2
  <2> QED BY <2>2, <2>3
<1> QED BY <1>1, <1>3, Invariant, PTL DEF Spec

-----------------------------------------------------------------------------
(***************************************************************************)
(* Why a rollback restores, and what follows: handlers that are atomic.    *)
(*                                                                         *)
(* RollbackRestores is not inductive, nor is it enough to relate the log   *)
(* to what the inventories hold.  An undo may be refused because a stack   *)
(* is busy, full, or gone, and none must be: so the proof also needs that  *)
(* stacks never exceed their size (an undo would be cut off), that an item *)
(* in use cannot stack (an undo for it is trivial, and may be refused),    *)
(* and that whatever the log names may be changed by the transaction.      *)
(***************************************************************************)
USE DEF NoUid

StacksFit == \A p \in Players, s \in Slots : Fits(inv[p][s], s)

(* What a character uses is a stack it has, had, or has none of; it is one  *)
(* of those that have charges and never stack.                              *)
UseFits ==
  \A p \in Players :
    /\ inUse[p] < nextUid
    /\ \A s \in Slots : inv[p][s].uid = inUse[p] /\ Occupied(p, s) =>
         inv[p][s].kind # Gil /\ StackSize[inv[p][s].kind] = 1

(* A snapshot in an undo log is of a stack that fits where it was.          *)
SnapFits(u) == u.snap # NoKind => u.qty \in 1..StackSize[u.snap] /\ (u.snap = Gil <=> u.slot = 0)
SnapsFit == \A t \in Txs : \A i \in 1..Len(undos[t]) : SnapFits(undos[t][i])

FitInv == IInv /\ StacksFit /\ UseFits /\ SnapsFit

-----------------------------------------------------------------------------
(* What an update and an insertion do, exactly                              *)

LEMMA UpdatedBounds ==
  ASSUME TypeOK, StacksHaveKinds, NEW p \in Players, NEW s \in Slots, NEW delta \in Int,
         Occupied(p, s), inv[p][s].qty + delta >= 0
  PROVE  /\ inv[p][s].kind \in Kinds /\ StackSize[inv[p][s].kind] \in Nat \ {0}
         /\ Updated(p, s, delta) \in 0..StackSize[inv[p][s].kind]
         /\ Updated(p, s, delta) <= inv[p][s].qty + delta
         /\ inv[p][s].qty + delta <= StackSize[inv[p][s].kind] => Updated(p, s, delta) = inv[p][s].qty + delta
<1>1. inv[p][s].kind \in Kinds /\ StackSize[inv[p][s].kind] \in Nat \ {0}
  BY ConstantsAssumption DEF StacksHaveKinds, Occupied
<1> QED BY <1>1, PlaceType DEF Updated, Lesser

LEMMA UpdateExact ==
  ASSUME TypeOK, StacksHaveKinds, NEW p \in Players, NEW s \in Slots, NEW delta \in Int, NEW ok \in BOOLEAN,
         Occupied(p, s), inv[p][s].qty + delta >= 0, UpdateStack(p, s, delta, ok)
  PROVE  /\ ~ok => inv' = inv
         /\ ok => \A q \in Players, r \in Slots :
              inv'[q][r] = IF q = p /\ r = s
                           THEN IF Updated(p, s, delta) = 0 /\ inv[p][s].kind # Gil THEN NoStack
                                ELSE [inv[p][s] EXCEPT !.qty = Updated(p, s, delta)]
                           ELSE inv[q][r]
<1> DEFINE n == Updated(p, s, delta)
           k == inv[p][s].kind
           new == IF n = 0 /\ k # Gil THEN NoStack ELSE [inv[p][s] EXCEPT !.qty = n]
<1>1. n \in 0..StackSize[k] /\ StackSize[k] \in Nat
  BY UpdatedBounds
<1>2. new \in Stack
  <2>1. [inv[p][s] EXCEPT !.qty = n] \in Stack
    BY <1>1, PlaceType DEF Stack
  <2> QED BY <2>1, StackType
<1>3. ~ok => inv' = inv
  BY DEF UpdateStack
<1>4. ok => inv' = [inv EXCEPT ![p][s] = new]
  BY DEF UpdateStack
<1>5. inv \in [Players -> [Slots -> Stack]]
  BY DEF TypeOK
<1> HIDE DEF new
<1>6. ok => \A q \in Players, r \in Slots : inv'[q][r] = IF q = p /\ r = s THEN new ELSE inv[q][r]
  BY <1>2, <1>4, <1>5, PutIn
<1> QED BY <1>3, <1>6 DEF new

(* The same in the terms of the properties that follow.                     *)
LEMMA UpdateEffect ==
  ASSUME TypeOK, StacksHaveKinds, NEW p \in Players, NEW s \in Slots, NEW delta \in Int, NEW ok \in BOOLEAN,
         Occupied(p, s), inv[p][s].qty + delta >= 0, UpdateStack(p, s, delta, ok),
         NEW q \in Players, NEW r \in Slots
  PROVE  \/ inv'[q][r] = inv[q][r]
         \/ /\ q = p /\ r = s /\ ok
            /\ \/ /\ inv'[q][r] = NoStack /\ inv[q][r].kind # Gil
                  /\ Updated(p, s, delta) = 0
               \/ /\ inv'[q][r].uid = inv[q][r].uid /\ inv'[q][r].kind = inv[q][r].kind
                  /\ inv'[q][r].state = inv[q][r].state
                  /\ inv'[q][r].qty = Updated(p, s, delta)
                  /\ Updated(p, s, delta) > 0 \/ inv[q][r].kind = Gil
<1>1. inv[p][s] \in Stack
  BY PlaceType
<1>2. \A n : /\ [inv[p][s] EXCEPT !.qty = n].uid = inv[p][s].uid
             /\ [inv[p][s] EXCEPT !.qty = n].kind = inv[p][s].kind
             /\ [inv[p][s] EXCEPT !.qty = n].state = inv[p][s].state
             /\ [inv[p][s] EXCEPT !.qty = n].qty = n
  BY <1>1 DEF Stack
<1>3. /\ ~ok => inv' = inv
      /\ ok => inv'[q][r] = IF q = p /\ r = s
                            THEN IF Updated(p, s, delta) = 0 /\ inv[p][s].kind # Gil THEN NoStack
                                 ELSE [inv[p][s] EXCEPT !.qty = Updated(p, s, delta)]
                            ELSE inv[q][r]
  BY UpdateExact
<1>4. Updated(p, s, delta) \in Nat
  BY UpdatedBounds
<1> HIDE DEF Updated
<1>5. CASE ok /\ q = p /\ r = s /\ Updated(p, s, delta) = 0 /\ inv[p][s].kind # Gil
  BY <1>3, <1>5
<1>6. CASE ok /\ q = p /\ r = s /\ ~(Updated(p, s, delta) = 0 /\ inv[p][s].kind # Gil)
  <2>1. inv'[q][r] = [inv[p][s] EXCEPT !.qty = Updated(p, s, delta)]
    BY <1>3, <1>6
  <2> QED BY <2>1, <1>2, <1>4, <1>6
<1>7. CASE ~ok \/ q # p \/ r # s
  BY <1>3, <1>7
<1> QED BY <1>5, <1>6, <1>7

LEMMA InsertEffect ==
  ASSUME TypeOK, NEW p \in Players, NEW s \in Slots, NEW k \in Kinds, NEW n \in Nat, NEW ok \in BOOLEAN,
         InsertStack(p, s, k, n, ok), NEW q \in Players, NEW r \in Slots
  PROVE  inv'[q][r] = IF ok /\ q = p /\ r = s
                      THEN [uid |-> nextUid, kind |-> k, qty |-> n, state |-> "Free"] ELSE inv[q][r]
<1> DEFINE new == [uid |-> nextUid, kind |-> k, qty |-> n, state |-> "Free"]
<1>1. new \in Stack
  BY DEF TypeOK, Stack, States
<1>2. inv \in [Players -> [Slots -> Stack]] /\ inv' = IF ok THEN [inv EXCEPT ![p][s] = new] ELSE inv
  BY DEF TypeOK, InsertStack
<1> HIDE DEF new
<1>3. inv'[q][r] = IF ok /\ q = p /\ r = s THEN new ELSE inv[q][r]
  BY <1>1, <1>2, PutIn
<1> QED BY <1>3 DEF new

(* A release changes nothing but stamps, and those only to Free.            *)
LEMMA ExitEffect ==
  ASSUME TypeOK, NEW ids, inv' = Exited(ids), NEW q \in Players, NEW r \in Slots
  PROVE  /\ inv'[q][r].uid = inv[q][r].uid /\ inv'[q][r].kind = inv[q][r].kind
         /\ inv'[q][r].qty = inv[q][r].qty
         /\ inv'[q][r].state \in {inv[q][r].state, "Free"}
<1>1. inv[q][r] \in Stack
  BY PlaceType
<1>2. /\ [inv[q][r] EXCEPT !.state = "Free"].uid = inv[q][r].uid
      /\ [inv[q][r] EXCEPT !.state = "Free"].kind = inv[q][r].kind
      /\ [inv[q][r] EXCEPT !.state = "Free"].qty = inv[q][r].qty
      /\ [inv[q][r] EXCEPT !.state = "Free"].state = "Free"
  BY <1>1 DEF Stack
<1>3. inv'[q][r] \in {inv[q][r], [inv[q][r] EXCEPT !.state = "Free"]}
  BY DEF Exited
<1> QED BY <1>2, <1>3

-----------------------------------------------------------------------------
(* Stacks keep fitting                                                      *)

(* What a step may put into a place: a stack that fits, new or from a place *)
(* of the same character.                                                   *)
Fitting(q, r) ==
  /\ Fits(inv'[q][r], r)
  /\ \/ inv'[q][r].uid \in {NoUid, nextUid}
     \/ \E s \in Slots : inv'[q][r].uid = inv[q][s].uid /\ inv'[q][r].kind = inv[q][s].kind

LEMMA SameFitting ==
  ASSUME FitInv, NEW q \in Players, NEW r \in Slots,
         inv'[q][r].uid = inv[q][r].uid, inv'[q][r].kind = inv[q][r].kind,
         inv'[q][r].qty = inv[q][r].qty, inv'[q][r].state \in {inv[q][r].state, "Free"}
  PROVE  Fitting(q, r)
<1>1. Fits(inv'[q][r], r)
  BY DEF FitInv, StacksFit, Fits
<1> QED BY <1>1 DEF Fitting

LEMMA UpdateFitting ==
  ASSUME FitInv, NEW t \in Txs, NEW p \in Players, NEW s \in Slots, NEW delta \in Int, NEW ok \in BOOLEAN,
         CanUpdate(t, p, s, delta), UpdateStack(p, s, delta, ok), NEW q \in Players, NEW r \in Slots
  PROVE  Fitting(q, r)
<1>1. /\ TypeOK /\ StacksHaveKinds /\ StacksFit
      /\ Occupied(p, s) /\ inv[p][s].qty + delta >= 0
  BY DEF FitInv, IInv, ClaimInv, CanUpdate
<1>2. Updated(p, s, delta) \in 0..StackSize[inv[p][s].kind] /\ StackSize[inv[p][s].kind] \in Nat
  BY <1>1, UpdatedBounds
<1> HIDE DEF Updated
<1>3. CASE inv'[q][r] = inv[q][r]
  BY <1>3, SameFitting
<1>4. CASE inv'[q][r] = NoStack
  BY <1>4 DEF Fitting, Fits, NoStack
<1>5. CASE /\ q = p /\ r = s
           /\ inv'[q][r].uid = inv[q][r].uid /\ inv'[q][r].kind = inv[q][r].kind
           /\ inv'[q][r].state = inv[q][r].state
           /\ inv'[q][r].qty = Updated(p, s, delta)
           /\ Updated(p, s, delta) > 0 \/ inv[q][r].kind = Gil
  <2>1. Fits(inv'[q][r], r)
    BY <1>1, <1>2, <1>5 DEF StacksFit, Fits
  <2> QED BY <2>1, <1>5 DEF Fitting
<1> QED BY <1>1, <1>3, <1>4, <1>5, UpdateEffect

LEMMA InsertFitting ==
  ASSUME FitInv, NEW p \in Players, NEW s \in Slots, NEW k \in Kinds, NEW n \in 1..StackSize[k],
         k = Gil <=> s = 0, NEW ok \in BOOLEAN, InsertStack(p, s, k, n, ok), NEW q \in Players, NEW r \in Slots
  PROVE  Fitting(q, r)
<1>1. TypeOK /\ n \in Nat /\ StackSize[k] \in Nat
  BY ConstantsAssumption DEF FitInv, IInv
<1>2. CASE inv'[q][r] = inv[q][r]
  BY <1>2, SameFitting
<1>3. CASE q = p /\ r = s /\ inv'[q][r] = [uid |-> nextUid, kind |-> k, qty |-> n, state |-> "Free"]
  <2>1. Fits(inv'[q][r], r)
    BY <1>1, <1>3 DEF Fits
  <2> QED BY <2>1, <1>3 DEF Fitting
<1> QED BY <1>1, <1>2, <1>3, InsertEffect

LEMMA FittingStep ==
  ASSUME FitInv, Next, NEW q \in Players, NEW r \in Slots
  PROVE  Fitting(q, r)
<1>1. TypeOK /\ ClaimInv /\ StacksHaveKinds /\ IInv
  BY DEF FitInv, IInv, ClaimInv
<1>2. ASSUME inv' = inv PROVE Fitting(q, r)
  BY <1>2, SameFitting
<1>3. ASSUME NEW ids, inv' = Exited(ids) PROVE Fitting(q, r)
  BY <1>1, <1>3, ExitEffect, SameFitting
(* A role is taken up by another kind than gil.                             *)
<1>4. ASSUME NEW p \in Players, NEW s \in Slots, NEW st \in States, Stamp(p, s, st), inv[p][s].kind # Gil
      PROVE  Fitting(q, r)
  <2>1. /\ inv'[q][r].uid = inv[q][r].uid /\ inv'[q][r].kind = inv[q][r].kind
        /\ inv'[q][r].qty = inv[q][r].qty
        /\ inv'[q][r].state = IF q = p /\ r = s THEN st ELSE inv[q][r].state
    BY <1>1, <1>4, StampEffect
  <2>2. Fits(inv'[q][r], r)
    BY <2>1, <1>4 DEF FitInv, StacksFit, Fits
  <2> QED BY <2>1, <2>2 DEF Fitting
<1>5. ASSUME NEW t \in Txs, Work(t) PROVE Fitting(q, r)
  <2>1. ASSUME NEW p \in Players, NEW s \in Slots, Claim(t, p, s) PROVE Fitting(q, r)
    BY <2>1, <1>4 DEF Claim, States
  <2>2. ASSUME NEW p \in Players, NEW ok \in BOOLEAN, NEW k \in Kinds, NEW n \in 1..StackSize[k],
               Give(t, p, k, n, ok)
        PROVE  Fitting(q, r)
    <3> DEFINE m == Lesser(n, StackSize[k])
    <3>1. m \in 1..StackSize[k]
      BY ConstantsAssumption DEF Lesser
    <3> HIDE DEF m
    <3>2. PICK s \in FreeSlots(p) : InsertStack(p, s, k, m, ok)
      BY <2>2 DEF Give, m
    <3>3. k # Gil /\ s \in Slots /\ s # 0
      BY <2>2 DEF Give, CanAdd, FreeSlots
    <3> QED BY <3>1, <3>2, <3>3, InsertFitting
  <2>3. ASSUME NEW p \in Players, NEW s \in Slots, NEW ok \in BOOLEAN,
               NEW n \in 1..StackSize[inv[p][s].kind], Grow(t, p, s, n, ok) \/ Take(t, p, s, n, ok)
        PROVE  Fitting(q, r)
    <3>1. \E delta \in {n, -n} : CanUpdate(t, p, s, delta) /\ UpdateStack(p, s, delta, ok)
      BY <2>3 DEF Grow, Take
    <3>2. n \in Int /\ -n \in Int
      OBVIOUS
    <3> QED BY <3>1, <3>2, UpdateFitting
  <2> QED BY <1>3, <1>5, <2>1, <2>2, <2>3 DEF Work, Release
<1>6. ASSUME NEW t \in Txs, RunUndo(t) PROVE Fitting(q, r)
  <2> DEFINE u == LastUndo(t)
  <2>1. Undoing(t) /\ undos[t] # <<>> /\ Len(undos[t]) \in 1..Len(undos[t])
    BY <1>1, <1>6 DEF RunUndo, UndoDelta, UndoRestore, Undoing, TypeOK
  <2>2. u \in Undo
    BY <1>1, <2>1, PopType
  <2>3. /\ u.owner \in Players /\ u.slot \in Slots /\ u.qty \in Int /\ 0 \in Slots
        /\ u.snap # NoKind => u.snap \in Kinds
    BY <2>2, ConstantsAssumption DEF Undo, Slots
  <2>4. SnapFits(u)
    BY <2>1 DEF FitInv, SnapsFit, LastUndo
  <2> HIDE DEF u
  <2>5. ASSUME NEW s \in Slots, UndoUpdate(t, u.owner, s, u.qty) PROVE Fitting(q, r)
    BY <1>2, <2>3, <2>5, UpdateFitting DEF UndoUpdate, Refuse, FailUndo, SkipUndo
  <2>6. ASSUME NEW s \in Slots, u.snap # NoKind, u.snap = Gil <=> s = 0,
               RestoreInto(t, u.owner, s, u.snap, u.qty)
        PROVE  Fitting(q, r)
    <3>1. PICK ok \in BOOLEAN : InsertStack(u.owner, s, u.snap, u.qty, ok)
      BY <2>6 DEF RestoreInto
    <3> QED BY <3>1, <2>3, <2>4, <2>6, InsertFitting DEF SnapFits
  <2>7. CASE UndoDelta(t)
    BY <2>3, <2>5, <2>7 DEF UndoDelta, u
  <2>8. CASE UndoRestore(t)
    <3>1. /\ u.snap # NoKind
          /\ \/ RestoreInto(t, u.owner, u.slot, u.snap, u.qty)
             \/ u.snap # Gil /\ \E s \in Slots \ {0} : RestoreInto(t, u.owner, s, u.snap, u.qty)
             \/ UndoUpdate(t, u.owner, 0, u.qty)
             \/ Refuse(t)
      BY <2>8 DEF UndoRestore, u, FreeSlots
    <3> QED BY <3>1, <1>2, <2>3, <2>4, <2>5, <2>6 DEF Refuse, SkipUndo, SnapFits
  <2> QED BY <1>6, <2>7, <2>8 DEF RunUndo
<1>7. ASSUME NEW t \in Txs,
             Commit(t) \/ FinishRollback(t) \/ Enter(t) \/ Leave(t) \/ StartRollback(t) \/ UndoDone(t)
      PROVE  Fitting(q, r)
  BY <1>2, <1>3, <1>7 DEF Commit, FinishRollback, ReleaseAll, Enter, Leave, StartRollback, UndoDone
<1>8. ASSUME NEW p \in Players, Elsewhere(p) PROVE Fitting(q, r)
  <2>1. ASSUME NEW s \in Slots, NEW st \in States, Mark(p, s, st) PROVE Fitting(q, r)
    BY <2>1, <1>4 DEF Mark
  <2>2. ASSUME NEW s \in Slots, NEW x \in Slots, NEW ok \in BOOLEAN, MoveItemTo(p, s, x, ok)
        PROVE  Fitting(q, r)
    <3>1. inv[p][s].kind # Gil /\ x # 0 /\ (Occupied(p, s) => s # 0)
      BY <2>2 DEF MoveItemTo, FreeSlots, FitInv, StacksFit, Fits, Occupied
    <3>2. CASE inv'[q][r] = inv[q][r]
      BY <3>2, SameFitting
    <3>3. CASE inv'[q][r] = NoStack
      BY <3>3 DEF Fitting, Fits, NoStack
    <3>4. CASE q = p /\ r = x /\ inv'[q][r] = inv[p][s]
      <4>1. Fits(inv'[q][r], r)
        BY <3>1, <3>4 DEF FitInv, StacksFit, Fits
      <4> QED BY <3>4, <4>1 DEF Fitting
    <3> QED BY <1>1, <2>2, <3>2, <3>3, <3>4, MoveEffect
  <2>3. ASSUME (\E s \in Slots : StartUse(p, s)) \/ EndUse(p) PROVE Fitting(q, r)
    BY <1>2, <2>3 DEF StartUse, EndUse
  <2> QED BY <1>8, <2>1, <2>2, <2>3 DEF Elsewhere
<1> QED BY <1>5, <1>6, <1>7, <1>8 DEF Next, Handler

(* A step draws at most one uid, and one of another handler starts or ends  *)
(* a use.                                                                   *)
LEMMA UidsDrawn ==
  ASSUME Next
  PROVE  /\ nextUid' \in {nextUid, nextUid + 1}
         /\ \/ inUse' = inUse
            \/ \E p \in Players : EndUse(p) \/ \E s \in Slots : StartUse(p, s)
<1> DEFINE Quiet == nextUid' \in {nextUid, nextUid + 1} /\ inUse' = inUse
<1>1. ASSUME NEW t \in Txs, Work(t) PROVE Quiet
  <2>1. ASSUME NEW p \in Players, NEW s \in Slots, Claim(t, p, s) PROVE Quiet
    BY <2>1 DEF Claim
  <2>2. ASSUME NEW c, Release(t, c) PROVE Quiet
    BY <2>2 DEF Release
  <2>3. ASSUME NEW p, NEW k, NEW n, NEW ok, Give(t, p, k, n, ok) PROVE Quiet
    BY <2>3 DEF Give, InsertStack
  <2>4. ASSUME NEW p, NEW s, NEW n, NEW ok, Grow(t, p, s, n, ok) \/ Take(t, p, s, n, ok) PROVE Quiet
    BY <2>4 DEF Grow, Take
  <2> HIDE DEF Quiet
  <2> QED BY <1>1, <2>1, <2>2, <2>3, <2>4 DEF Work
<1>2. ASSUME NEW t \in Txs, RunUndo(t) PROVE Quiet
  BY <1>2 DEF RunUndo, UndoDelta, UndoRestore, UndoUpdate, RestoreInto, InsertStack, Refuse, FailUndo, SkipUndo
<1>3. ASSUME NEW t \in Txs,
             Commit(t) \/ FinishRollback(t) \/ Enter(t) \/ Leave(t) \/ StartRollback(t) \/ UndoDone(t)
      PROVE  Quiet
  BY <1>3 DEF Commit, FinishRollback, Enter, Leave, StartRollback, UndoDone
<1>4. ASSUME NEW p \in Players, Elsewhere(p)
      PROVE  Quiet \/ (nextUid' = nextUid /\ (EndUse(p) \/ \E s \in Slots : StartUse(p, s)))
  <2>1. ASSUME (\E s \in Slots : StartUse(p, s)) \/ EndUse(p) PROVE nextUid' = nextUid
    BY <2>1 DEF StartUse, EndUse
  <2>2. ASSUME NEW s \in Slots, NEW r, NEW ok, NEW st, Mark(p, s, st) \/ MoveItemTo(p, s, r, ok) PROVE Quiet
    BY <2>2 DEF Mark, MoveItemTo
  <2> QED BY <1>4, <2>1, <2>2 DEF Elsewhere
<1> HIDE DEF Quiet
<1>5. Quiet \/ \E p \in Players : nextUid' = nextUid /\ (EndUse(p) \/ \E s \in Slots : StartUse(p, s))
  BY <1>1, <1>2, <1>3, <1>4 DEF Next, Handler
<1> QED BY <1>5 DEF Quiet

LEMMA UseStep ==
  ASSUME FitInv, Next, StacksFit'
  PROVE  UseFits'
<1>1. /\ IInv /\ UseFits /\ StacksFit
      /\ \A q \in Players, r \in Slots : Fitting(q, r)
      /\ \A q \in Players, r \in Slots : inv[q][r].uid \in Nat
      /\ nextUid \in Nat /\ inUse \in [Players -> Nat]
  BY FittingStep, PlaceType DEF FitInv, IInv, TypeOK
<1>2. nextUid' \in Nat /\ nextUid' >= nextUid
  BY <1>1, UidsDrawn
<1>3. CASE inUse' = inUse
  <2> SUFFICES ASSUME NEW p \in Players
               PROVE  /\ inUse[p] < nextUid'
                      /\ \A s \in Slots : inv'[p][s].uid = inUse[p] /\ inv'[p][s].uid # NoUid =>
                           inv'[p][s].kind # Gil /\ StackSize[inv'[p][s].kind] = 1
    BY <1>3 DEF UseFits, Occupied
  <2>1. inUse[p] < nextUid /\ inUse[p] \in Nat
    BY <1>1 DEF UseFits
  <2>2. ASSUME NEW s \in Slots, inv'[p][s].uid = inUse[p], inv'[p][s].uid # NoUid
        PROVE  inv'[p][s].kind # Gil /\ StackSize[inv'[p][s].kind] = 1
    <3>1. PICK r \in Slots : inv'[p][s].uid = inv[p][r].uid /\ inv'[p][s].kind = inv[p][r].kind
      BY <1>1, <2>1, <2>2 DEF Fitting
    <3> QED BY <1>1, <2>2, <3>1 DEF UseFits, Occupied
  <2> QED BY <1>1, <1>2, <2>1, <2>2
<1>4. ASSUME NEW p \in Players, NEW s \in Slots, StartUse(p, s) PROVE UseFits'
  <2>1. /\ inv[p][s].state = "Equipped" /\ StackSize[inv[p][s].kind] = 1
        /\ inUse' = [inUse EXCEPT ![p] = inv[p][s].uid] /\ inv' = inv /\ nextUid' = nextUid
    BY <1>4 DEF StartUse
  <2>2. Occupied(p, s) /\ inv[p][s].kind # Gil /\ inv[p][s].uid < nextUid
    BY <1>1, <2>1 DEF IInv, ClaimInv, StacksHaveKinds, UidsUnique, NoStack, Occupied, StacksFit, Fits
  <2>3. \A r \in Slots : inv[p][r].uid = inv[p][s].uid => r = s
    BY <1>1, <2>2 DEF IInv, ClaimInv, UidsUnique, Occupied
  <2> QED BY <1>1, <2>1, <2>2, <2>3 DEF UseFits, Occupied
<1>5. ASSUME NEW p \in Players, EndUse(p) PROVE UseFits'
  <2>1. inUse' = [inUse EXCEPT ![p] = NoUid] /\ inv' = inv /\ nextUid' = nextUid /\ nextUid # NoUid
    BY <1>1, <1>5 DEF EndUse, IInv, ClaimInv, UidsUnique
  <2>2. \A q \in Players : inUse'[q] = inUse[q] \/ inUse'[q] = NoUid
    BY <1>1, <2>1
  <2>3. NoUid < nextUid
    BY <1>1, <2>1
  <2> QED BY <1>1, <2>1, <2>2, <2>3 DEF UseFits, Occupied
<1> QED BY <1>3, <1>4, <1>5, UidsDrawn

(* The undo of a take.                                                      *)
TakesUndo(p, s, q) ==
  [AddsUndo(p, s, q) EXCEPT !.snap = IF inv[p][s].qty = q THEN inv[p][s].kind ELSE NoKind]

(* The log of one transaction at a time changes: it gets an entry, loses    *)
(* its last, or is emptied.                                                 *)
LEMMA LogStep ==
  ASSUME IInv, Next, NEW t \in Txs
  PROVE  \/ undos'[t] = undos[t]
         \/ undos'[t] = <<>>
         \/ undos[t] # <<>> /\ undos'[t] = SubSeq(undos[t], 1, Len(undos[t]) - 1)
         \/ \E p \in Players, s \in Slots, delta \in Int :
              undos'[t] = Append(undos[t], AddsUndo(p, s, delta))
         \/ \E p \in Players, s \in Slots : \E q \in 1..StackSize[inv[p][s].kind], ok \in BOOLEAN :
              /\ Take(t, p, s, q, ok)
              /\ undos'[t] = Append(undos[t], TakesUndo(p, s, q))
<1> DEFINE Goal == \/ undos'[t] = undos[t]
                   \/ undos'[t] = <<>>
                   \/ undos[t] # <<>> /\ undos'[t] = SubSeq(undos[t], 1, Len(undos[t]) - 1)
                   \/ \E p \in Players, s \in Slots, delta \in Int :
                        undos'[t] = Append(undos[t], AddsUndo(p, s, delta))
                   \/ \E p \in Players, s \in Slots : \E q \in 1..StackSize[inv[p][s].kind], ok \in BOOLEAN :
                        /\ Take(t, p, s, q, ok)
                        /\ undos'[t] = Append(undos[t], TakesUndo(p, s, q))
<1>1. undos \in [Txs -> Seq(Undo)]
  BY DEF IInv, TypeOK
<1>2. ASSUME undos' = undos PROVE Goal
  BY <1>2
<1>3. ASSUME NEW u \in Txs, undos' = [undos EXCEPT ![u] = <<>>] PROVE Goal
  BY <1>1, <1>3
<1>4. ASSUME NEW u \in Txs, undos[u] # <<>>, PopUndo(u) PROVE Goal
  BY <1>1, <1>4 DEF PopUndo
<1>5. ASSUME NEW u \in Txs, NEW ok \in BOOLEAN, NEW x, Record(u, ok, x)
      PROVE  undos'[t] = undos[t] \/ (u = t /\ undos'[t] = Append(undos[t], x))
  BY <1>1, <1>5 DEF Record
<1>6. ASSUME NEW u \in Txs, Work(u) PROVE Goal
  <2>1. ASSUME NEW p \in Players, NEW ok \in BOOLEAN, NEW k \in Kinds, NEW n \in 1..StackSize[k],
               Give(u, p, k, n, ok)
        PROVE  Goal
    <3> DEFINE m == Lesser(n, StackSize[k])
    <3>1. -m \in Int
      BY ConstantsAssumption DEF Lesser
    <3> HIDE DEF m
    <3>2. PICK s \in FreeSlots(p) : Record(u, ok, AddsUndo(p, s, -m))
      BY <2>1 DEF Give, m
    <3> QED BY <1>5, <3>1, <3>2 DEF FreeSlots
  <2>2. ASSUME NEW p \in Players, NEW s \in Slots, Occupied(p, s), NEW ok \in BOOLEAN,
               NEW n \in 1..StackSize[inv[p][s].kind], Grow(u, p, s, n, ok)
        PROVE  Goal
    <3> DEFINE d == -(Updated(p, s, n) - inv[p][s].qty)
    <3>1. inv[p][s].qty \in Nat /\ inv[p][s].kind \in Kinds
      BY <2>2, PlaceType DEF IInv, ClaimInv, StacksHaveKinds, Occupied
    <3>2. d \in Int
      BY <3>1, ConstantsAssumption DEF Updated, Lesser
    <3> HIDE DEF d
    <3>3. Record(u, ok, AddsUndo(p, s, d))
      BY <2>2 DEF Grow, d
    <3> QED BY <1>5, <3>2, <3>3
  <2>3. ASSUME NEW p \in Players, NEW s \in Slots, NEW ok \in BOOLEAN,
               NEW n \in 1..StackSize[inv[p][s].kind], Take(u, p, s, n, ok)
        PROVE  Goal
    <3>1. Record(u, ok, TakesUndo(p, s, n))
      BY <2>3 DEF Take, TakesUndo
    <3>2. CASE u = t /\ undos'[t] = Append(undos[t], TakesUndo(p, s, n))
      BY <2>3, <3>2
    <3> QED BY <1>5, <3>1, <3>2
  <2> QED BY <1>2, <1>6, <2>1, <2>2, <2>3 DEF Work, Claim, Release
<1>7. ASSUME NEW u \in Txs, RunUndo(u) PROVE Goal
  <2>1. PopUndo(u) /\ undos[u] # <<>>
    BY <1>7 DEF RunUndo, UndoDelta, UndoRestore, UndoUpdate, RestoreInto, Refuse, FailUndo, SkipUndo, Undoing
  <2> QED BY <2>1, <1>4
<1>8. ASSUME NEW u \in Txs,
             Commit(u) \/ FinishRollback(u) \/ Enter(u) \/ Leave(u) \/ StartRollback(u) \/ UndoDone(u)
      PROVE  Goal
  <2> HIDE DEF Goal
  <2> QED BY <1>2, <1>3, <1>8 DEF Commit, FinishRollback, Closed, Enter, Leave, StartRollback, UndoDone
<1>9. ASSUME NEW p \in Players, Elsewhere(p) PROVE Goal
  <2> HIDE DEF Goal
  <2> QED BY <1>2, <1>9 DEF Elsewhere, Mark, StartUse, EndUse, MoveItemTo
<1> HIDE DEF Goal
<1>10. Goal
  BY <1>6, <1>7, <1>8, <1>9 DEF Next, Handler
<1> QED BY <1>10 DEF Goal

LEMMA SnapsStep ==
  ASSUME FitInv, Next
  PROVE  SnapsFit'
<1>1. IInv /\ SnapsFit /\ StacksFit /\ undos \in [Txs -> Seq(Undo)]
  BY DEF FitInv, IInv, TypeOK
<1> SUFFICES ASSUME NEW t \in Txs PROVE \A i \in 1..Len(undos'[t]) : SnapFits(undos'[t][i])
  BY DEF SnapsFit
<1>2. undos[t] \in Seq(Undo) /\ \A i \in 1..Len(undos[t]) : SnapFits(undos[t][i])
  BY <1>1 DEF SnapsFit
<1>3. CASE undos'[t] = undos[t] \/ undos'[t] = <<>>
  BY <1>2, <1>3
<1>4. CASE undos[t] # <<>> /\ undos'[t] = SubSeq(undos[t], 1, Len(undos[t]) - 1)
  BY <1>2, <1>4
<1>5. ASSUME NEW x, SnapFits(x), undos'[t] = Append(undos[t], x)
      PROVE  \A i \in 1..Len(undos'[t]) : SnapFits(undos'[t][i])
  BY <1>2, <1>5
<1>6. ASSUME NEW p \in Players, NEW s \in Slots, NEW delta \in Int PROVE SnapFits(AddsUndo(p, s, delta))
  BY DEF SnapFits, AddsUndo
<1>7. ASSUME NEW p \in Players, NEW s \in Slots, NEW q \in 1..StackSize[inv[p][s].kind], NEW ok \in BOOLEAN,
             Take(t, p, s, q, ok)
      PROVE  SnapFits(TakesUndo(p, s, q))
  <2> DEFINE k == IF inv[p][s].qty = q THEN inv[p][s].kind ELSE NoKind
             x == [AddsUndo(p, s, q) EXCEPT !.snap = k]
  <2>1. Occupied(p, s)
    BY <1>7 DEF Take, CanUpdate
  <2>2. k # NoKind => k = inv[p][s].kind /\ q \in 1..StackSize[k] /\ (k = Gil <=> s = 0)
    BY <1>1, <2>1 DEF StacksFit, Fits, Occupied
  <2> HIDE DEF k
  <2>3. x.snap = k /\ x.qty = q /\ x.slot = s
    BY DEF AddsUndo
  <2>4. SnapFits(x)
    BY <2>2, <2>3 DEF SnapFits
  <2> QED BY <2>4 DEF k, TakesUndo
<1>8. ASSUME NEW p \in Players, NEW s \in Slots, NEW delta \in Int,
             undos'[t] = Append(undos[t], AddsUndo(p, s, delta))
      PROVE  \A i \in 1..Len(undos'[t]) : SnapFits(undos'[t][i])
  BY <1>5, <1>6, <1>8
<1>9. ASSUME NEW p \in Players, NEW s \in Slots, NEW q \in 1..StackSize[inv[p][s].kind], NEW ok \in BOOLEAN,
             Take(t, p, s, q, ok),
             undos'[t] = Append(undos[t], TakesUndo(p, s, q))
      PROVE  \A i \in 1..Len(undos'[t]) : SnapFits(undos'[t][i])
  BY <1>5, <1>7, <1>9
<1> QED
  <2> HIDE DEF SnapFits
  <2> QED BY <1>1, <1>3, <1>4, <1>8, <1>9, LogStep

LEMMA FitStep == FitInv /\ [Next]_vars => FitInv'
<1> SUFFICES ASSUME FitInv, [Next]_vars PROVE FitInv'
  OBVIOUS
<1>1. IInv'
  BY StepPreserves DEF FitInv
<1>2. CASE UNCHANGED vars
  BY <1>1, <1>2 DEF vars, FitInv, StacksFit, UseFits, SnapsFit, Occupied
<1>3. CASE Next
  <2>1. StacksFit'
    BY <1>3, FittingStep DEF StacksFit, Fitting
  <2> QED BY <1>1, <1>3, <2>1, UseStep, SnapsStep DEF FitInv
<1> QED BY <1>2, <1>3

LEMMA InitFit == Init => FitInv
<1> SUFFICES ASSUME Init PROVE FitInv
  OBVIOUS
<1>1. IInv
  BY InitIInv
<1>2. StacksFit /\ SnapsFit
  BY LoadedAssumption DEF Init, StacksFit, SnapsFit
<1>3. \A p \in Players : inUse[p] = NoUid /\ inUse[p] < nextUid
  <2>1. FirstUid \in Nat \ {0}
    BY LoadedAssumption
  <2>2. inUse = [p \in Players |-> 0] /\ nextUid = FirstUid
    BY DEF Init
  <2>3. 0 < FirstUid
    BY <2>1
  <2>4. \A p \in Players : inUse[p] = 0
    BY <2>2
  <2> QED BY <2>2, <2>3, <2>4
<1>4. UseFits
  BY <1>3 DEF UseFits, Occupied
<1> QED BY <1>1, <1>2, <1>4 DEF FitInv

-----------------------------------------------------------------------------
(* The undo log takes the contents back to where the handler began          *)

(* Undoing u turns what the row x of its place is into y.                   *)
RowReverts(u, x, y) ==
  IF u.snap = NoKind
  THEN /\ x.kind \in Kinds
       /\ x.qty + u.qty \in 0..StackSize[x.kind]
       /\ y = IF x.qty + u.qty = 0 /\ x.kind # Gil THEN NoRow ELSE [kind |-> x.kind, qty |-> x.qty + u.qty]
  ELSE /\ x = IF u.snap = Gil THEN [kind |-> Gil, qty |-> 0] ELSE NoRow
       /\ y = [kind |-> u.snap, qty |-> u.qty]

Reverts(u, c, d) ==
  /\ \A q \in Players, r \in Slots : q # u.owner \/ r # u.slot => d[q][r] = c[q][r]
  /\ RowReverts(u, c[u.owner][u.slot], d[u.owner][u.slot])

AllContents == [Players -> [Slots -> Row]]

(* The contents the handler went through, from those it found, and all of   *)
(* them in C.                                                               *)
UnwindsIn(t, C) ==
  \E h \in [0..Len(undos[t]) -> C] :
    /\ h[0] = base
    /\ h[Len(undos[t])] = Contents
    /\ \A i \in 1..Len(undos[t]) : Reverts(undos[t][i], h[i], h[i - 1])

Unwinds(t) == UnwindsIn(t, AllContents)

(* Nothing will refuse the undo, unless there is nothing to be undone.      *)
Trivial(u) == u.snap = NoKind /\ u.qty = 0
Revertible(t, u) ==
  Occupied(u.owner, u.slot) =>
    \/ Trivial(u)
    \/ inUse[u.owner] # inv[u.owner][u.slot].uid /\ MayMutate(t, u.owner, u.slot)

LogInv(t) == Unwinds(t) /\ \A i \in 1..Len(undos[t]) : Revertible(t, undos[t][i])

(* A transaction that can be undone works and undoes in one handler.        *)
Flow ==
  /\ phase = "undo" => cpu \notin Irreversible
  /\ phase = "work" => ~undoFailed
  /\ \A t \in Txs \ Irreversible : t # cpu \/ phase = "close" => undos[t] = <<>>

UndoInv ==
  \A t \in Txs \ Irreversible : cpu = t /\ ~undoFailed =>
    /\ phase = "close" => Contents = base
    /\ phase # "close" => LogInv(t)

RollbackInv == FitInv /\ Flow /\ UndoInv

LEMMA ContentsAt == \A q \in Players, r \in Slots : Contents[q][r] = RowOf(inv[q][r])
BY DEF Contents

LEMMA NextContentsType == TypeOK' => Contents' \in [Players -> [Slots -> Row]]
<1> SUFFICES ASSUME TypeOK', NEW p \in Players, NEW s \in Slots
             PROVE  RowOf(inv'[p][s]) \in Row
  BY DEF Contents, RowOf
<1>1. inv'[p][s] \in Stack
  BY DEF TypeOK
<1> QED BY <1>1 DEF RowOf, Row, Stack

LEMMA NextContents ==
  ASSUME TypeOK', NEW d \in [Players -> [Slots -> Row]],
         \A q \in Players, r \in Slots : d[q][r] = RowOf(inv'[q][r])
  PROVE  Contents' = d
<1>1. \A q \in Players, r \in Slots : Contents'[q][r] = RowOf(inv'[q][r])
  BY DEF Contents, RowOf
<1>2. Contents' = [q \in Players |-> Contents'[q]] /\ \A q \in Players : Contents'[q] = [r \in Slots |-> Contents'[q][r]]
  BY DEF Contents
<1>3. ASSUME NEW q \in Players PROVE d[q] = Contents'[q]
  <2>1. d[q] \in [Slots -> Row]
    OBVIOUS
  <2> QED BY <2>1, <1>1, <1>2
<1> QED BY <1>2, <1>3

LEMMA SameContents ==
  ASSUME TypeOK, TypeOK',
         \A q \in Players, r \in Slots : inv'[q][r].kind = inv[q][r].kind /\ inv'[q][r].qty = inv[q][r].qty
  PROVE  Contents' = Contents
<1>1. \A q \in Players, r \in Slots : Contents[q][r] = RowOf(inv'[q][r])
  BY ContentsAt DEF RowOf
<1> QED BY <1>1, ContentsType, NextContents

(* A step keeps an undo applicable.                                         *)
LEMMA RevertibleKept ==
  ASSUME FitInv, inUse' = inUse, NEW t \in Txs, NEW u \in Undo, Revertible(t, u),
         LET a == inv[u.owner][u.slot]
             b == inv'[u.owner][u.slot]
         IN \/ b.uid = NoUid
            \/ b.uid = nextUid /\ b.state = "Free"
            \/ /\ b.uid = a.uid /\ b.kind = a.kind
               /\ Holds(t, u.owner, u.slot)' \/ b.state = "Free" \/ (b.state = a.state /\ ~Holds(t, u.owner, u.slot))
  PROVE  Revertible(t, u)'
<1>1. u.owner \in Players /\ u.slot \in Slots
  BY DEF Undo
<1>2. inUse[u.owner] < nextUid /\ inUse[u.owner] \in Nat /\ nextUid \in Nat
  BY <1>1 DEF FitInv, UseFits, IInv, TypeOK
<1> DEFINE a == inv[u.owner][u.slot]
           b == inv'[u.owner][u.slot]
<1>3. CASE b.uid = NoUid
  BY <1>3 DEF Revertible, Occupied
<1>4. CASE b.uid = nextUid /\ b.state = "Free"
  BY <1>2, <1>4 DEF Revertible, MayMutate
<1>5. CASE /\ b.uid = a.uid /\ b.kind = a.kind
           /\ Holds(t, u.owner, u.slot)' \/ b.state = "Free" \/ (b.state = a.state /\ ~Holds(t, u.owner, u.slot))
  BY <1>5 DEF Revertible, Occupied, MayMutate, Trivial
<1> QED BY <1>3, <1>4, <1>5

(* The log as it was, over the same contents.                               *)
LogStays(t) ==
  /\ undos'[t] = undos[t] /\ base' = base /\ Contents' = Contents
  /\ \A x \in Undo : Revertible(t, x) => Revertible(t, x)'

(* An entry is added for the place that changed.                            *)
Logged(t) ==
  /\ base' = base
  /\ \E u \in Undo :
       /\ undos'[t] = Append(undos[t], u)
       /\ \A q \in Players, r \in Slots : q # u.owner \/ r # u.slot => RowOf(inv'[q][r]) = RowOf(inv[q][r])
       /\ RowReverts(u, RowOf(inv'[u.owner][u.slot]), RowOf(inv[u.owner][u.slot]))
       /\ Revertible(t, u)'
  /\ \A x \in Undo : Revertible(t, x) => Revertible(t, x)'

(* The last entry is taken off when the contents are what it says.          *)
TakesBack(t) ==
  /\ undos[t] # <<>> /\ PopUndo(t) /\ base' = base
  /\ \A d \in AllContents : Reverts(LastUndo(t), Contents, d) => Contents' = d
  /\ \A x \in Undo : Revertible(t, x) => Revertible(t, x)'

LEMMA SameLog ==
  ASSUME TypeOK, NEW t \in Txs, LogStays(t)
  PROVE  /\ LogInv(t) => LogInv(t)'
         /\ \A C : UnwindsIn(t, C) => UnwindsIn(t, C)'
<1>1. \A C : UnwindsIn(t, C) => UnwindsIn(t, C)'
  BY DEF LogStays, UnwindsIn
<1>2. ASSUME LogInv(t) PROVE LogInv(t)'
  <2>1. Unwinds(t)'
    BY <1>2 DEF LogStays, LogInv, Unwinds, UnwindsIn, AllContents
  <2>2. ASSUME NEW i \in 1..Len(undos'[t]) PROVE Revertible(t, undos[t][i])'
    <3> DEFINE x == undos[t][i]
    <3>1. x \in Undo /\ Revertible(t, x) /\ undos'[t][i] = x
      BY <1>2 DEF TypeOK, LogInv, LogStays
    <3> QED BY <3>1 DEF LogStays
  <2> QED BY <2>1, <2>2 DEF LogInv
<1> QED BY <1>1, <1>2

LEMMA LongerIn ==
  ASSUME TypeOK, TypeOK', NEW t \in Txs, NEW C, UnwindsIn(t, C), Logged(t), Contents' \in C
  PROVE  UnwindsIn(t, C)'
<1> DEFINE n == Len(undos[t])
<1> PICK u \in Undo :
      /\ undos'[t] = Append(undos[t], u)
      /\ \A q \in Players, r \in Slots : q # u.owner \/ r # u.slot => RowOf(inv'[q][r]) = RowOf(inv[q][r])
      /\ RowReverts(u, RowOf(inv'[u.owner][u.slot]), RowOf(inv[u.owner][u.slot]))
  BY DEF Logged
<1>1. undos[t] \in Seq(Undo) /\ n \in Nat /\ u.owner \in Players /\ u.slot \in Slots /\ base' = base
  BY DEF TypeOK, Undo, Logged
<1>2. /\ Len(undos'[t]) = n + 1 /\ undos'[t][n + 1] = u
      /\ \A i \in 1..n : undos'[t][i] = undos[t][i]
      /\ \A i \in 1..Len(undos'[t]) : i \in 1..n \/ i = n + 1
  BY <1>1
<1>3. Reverts(u, Contents', Contents)
  <2>1. \A q \in Players, r \in Slots : Contents'[q][r] = RowOf(inv'[q][r]) /\ Contents[q][r] = RowOf(inv[q][r])
    BY DEF Contents, RowOf
  <2> QED BY <1>1, <2>1 DEF Reverts
<1>4. PICK h \in [0..n -> C] :
        /\ h[0] = base /\ h[n] = Contents
        /\ \A i \in 1..n : Reverts(undos[t][i], h[i], h[i - 1])
  BY DEF UnwindsIn
<1> DEFINE g == [i \in 0..(n + 1) |-> IF i = n + 1 THEN Contents' ELSE h[i]]
<1>5. g \in [0..(n + 1) -> C]
  BY <1>1, <1>4
<1>6. g[0] = base /\ g[n + 1] = Contents'
  BY <1>1, <1>4
<1>7. \A i \in 1..n : g[i] = h[i] /\ g[i - 1] = h[i - 1]
  BY <1>1
<1>8. g[(n + 1) - 1] = Contents
  BY <1>1, <1>4
<1> HIDE DEF n, g
<1>9. \A i \in 1..(n + 1) : Reverts(undos'[t][i], g[i], g[i - 1])
  BY <1>1, <1>2, <1>3, <1>4, <1>6, <1>7, <1>8
<1> QED BY <1>1, <1>2, <1>5, <1>6, <1>9 DEF UnwindsIn, n

LEMMA LongerLog ==
  ASSUME TypeOK, TypeOK', NEW t \in Txs, LogInv(t), Logged(t)
  PROVE  LogInv(t)'
<1>1. Unwinds(t)'
  <2>1. Contents' \in AllContents
    BY NextContentsType DEF AllContents
  <2>2. UnwindsIn(t, AllContents)
    BY DEF LogInv, Unwinds
  <2>3. UnwindsIn(t, AllContents)'
    <3> PICK C : C = AllContents
      OBVIOUS
    <3>1. UnwindsIn(t, C)'
      BY <2>1, <2>2, LongerIn
    <3> QED BY <3>1 DEF UnwindsIn, AllContents
  <2> QED BY <2>3 DEF Unwinds
<1>2. ASSUME NEW i \in 1..Len(undos'[t]) PROVE Revertible(t, undos[t][i])'
  <2>1. PICK u \in Undo : undos'[t] = Append(undos[t], u) /\ Revertible(t, u)'
    BY DEF Logged
  <2>2. undos[t] \in Seq(Undo) /\ (i \in 1..Len(undos[t]) \/ undos'[t][i] = u)
    BY <2>1 DEF TypeOK
  <2>3. CASE undos'[t][i] = u
    BY <2>1, <2>3
  <2>4. CASE i \in 1..Len(undos[t])
    <3>1. undos[t][i] \in Undo /\ Revertible(t, undos[t][i]) /\ undos'[t][i] = undos[t][i]
      BY <2>1, <2>2, <2>4 DEF LogInv
    <3> QED BY <3>1 DEF Logged
  <2> QED BY <2>2, <2>3, <2>4
<1> QED BY <1>1, <1>2 DEF LogInv

LEMMA ShorterIn ==
  ASSUME TypeOK, NEW t \in Txs, NEW C \in SUBSET AllContents, UnwindsIn(t, C), TakesBack(t)
  PROVE  UnwindsIn(t, C)' /\ Contents' \in C
<1> DEFINE n == Len(undos[t])
<1>1. undos[t] \in Seq(Undo) /\ n \in Nat \ {0} /\ base' = base
  BY DEF TypeOK, TakesBack
<1>2. undos'[t] = SubSeq(undos[t], 1, n - 1)
  BY DEF TakesBack, PopUndo, TypeOK
<1>3. /\ Len(undos'[t]) = n - 1
      /\ \A i \in 1..(n - 1) : undos'[t][i] = undos[t][i] /\ i \in 1..n
  BY <1>1, <1>2
<1>4. PICK h \in [0..n -> C] :
        /\ h[0] = base /\ h[n] = Contents
        /\ \A i \in 1..n : Reverts(undos[t][i], h[i], h[i - 1])
  BY DEF UnwindsIn
<1>5. Reverts(LastUndo(t), Contents, h[n - 1])
  <2>1. n \in 1..n
    BY <1>1
  <2>2. Reverts(undos[t][n], h[n], h[n - 1])
    <3> HIDE DEF n
    <3> QED BY <2>1, <1>4
  <2> QED BY <2>2, <1>4 DEF LastUndo
<1>6. Contents' = h[n - 1] /\ h[n - 1] \in C
  <2>1. n - 1 \in 0..n
    BY <1>1
  <2>2. h[n - 1] \in C
    <3> HIDE DEF n
    <3> QED BY <2>1, <1>4
  <2> QED BY <2>2, <1>5 DEF TakesBack
<1> DEFINE g == [i \in 0..(n - 1) |-> h[i]]
<1>7. g \in [0..(n - 1) -> C] /\ g[0] = base /\ g[n - 1] = Contents'
  BY <1>1, <1>4, <1>6
<1>8. \A i \in 1..(n - 1) : g[i] = h[i] /\ g[i - 1] = h[i - 1]
  BY <1>1
<1> HIDE DEF n, g
<1>9. \A i \in 1..(n - 1) : Reverts(undos'[t][i], g[i], g[i - 1])
  BY <1>3, <1>4, <1>8
<1> QED BY <1>1, <1>3, <1>6, <1>7, <1>9 DEF UnwindsIn

LEMMA ShorterLog ==
  ASSUME TypeOK, NEW t \in Txs, LogInv(t), TakesBack(t)
  PROVE  LogInv(t)'
<1>1. Unwinds(t)'
  <2>1. UnwindsIn(t, AllContents)
    BY DEF LogInv, Unwinds
  <2>2. UnwindsIn(t, AllContents)'
    <3> PICK C : C = AllContents
      OBVIOUS
    <3>1. UnwindsIn(t, C)'
      BY <2>1, ShorterIn
    <3> QED BY <3>1 DEF UnwindsIn, AllContents
  <2> QED BY <2>2 DEF Unwinds
<1>2. ASSUME NEW i \in 1..Len(undos'[t]) PROVE Revertible(t, undos[t][i])'
  <2>1. undos[t] \in Seq(Undo) /\ undos[t] # <<>> /\ undos'[t] = SubSeq(undos[t], 1, Len(undos[t]) - 1)
    BY DEF TakesBack, PopUndo, TypeOK
  <2>2. undos[t][i] \in Undo /\ Revertible(t, undos[t][i]) /\ undos'[t][i] = undos[t][i]
    BY <2>1 DEF LogInv
  <2> QED BY <2>2 DEF TakesBack
<1> QED BY <1>1, <1>2 DEF LogInv

(* An empty log, where a handler begins and where a rollback ends.          *)
LEMMA EmptyLog ==
  ASSUME TypeOK, NEW t \in Txs, undos[t] = <<>>
  PROVE  LogInv(t) <=> Contents = base
<1>1. Len(undos[t]) = 0
  OBVIOUS
<1>2. LogInv(t) => Contents = base
  BY <1>1 DEF LogInv, Unwinds, UnwindsIn
<1>3. ASSUME Contents = base PROVE LogInv(t)
  <2> DEFINE h == [i \in 0..0 |-> Contents]
  <2>1. h \in [0..0 -> [Players -> [Slots -> Row]]] /\ h[0] = Contents
    BY ContentsType
  <2>2. 1..0 = {}
    OBVIOUS
  <2> QED BY <1>1, <1>3, <2>1, <2>2 DEF LogInv, Unwinds, UnwindsIn, AllContents
<1> QED BY <1>2, <1>3

LEMMA EmptyLogNext ==
  ASSUME TypeOK', NEW t \in Txs, undos'[t] = <<>>, Contents' = base'
  PROVE  LogInv(t)'
<1>1. Len(undos'[t]) = 0 /\ 1..0 = {}
  OBVIOUS
<1> DEFINE h == [i \in 0..0 |-> Contents']
<1>2. h \in [0..0 -> [Players -> [Slots -> Row]]] /\ h[0] = Contents'
  BY NextContentsType
<1>3. Unwinds(t)'
  BY <1>1, <1>2 DEF Unwinds, UnwindsIn, AllContents
<1> QED BY <1>1, <1>3 DEF LogInv

-----------------------------------------------------------------------------
(* The steps of a handler and the log                                       *)

(* Steps that leave the claims alone.                                       *)
LEMMA StacksKeepUndos ==
  ASSUME FitInv, inUse' = inUse, claims' = claims, NEW t \in Txs,
         \A q \in Players, r \in Slots :
           \/ inv'[q][r].uid = NoUid
           \/ inv'[q][r].uid = nextUid /\ inv'[q][r].state = "Free"
           \/ /\ inv'[q][r].uid = inv[q][r].uid /\ inv'[q][r].kind = inv[q][r].kind
              /\ inv'[q][r].state = inv[q][r].state
  PROVE  \A x \in Undo : Revertible(t, x) => Revertible(t, x)'
<1> SUFFICES ASSUME NEW x \in Undo, Revertible(t, x) PROVE Revertible(t, x)'
  OBVIOUS
<1>1. x.owner \in Players /\ x.slot \in Slots
  BY DEF Undo
<1>2. inv'[x.owner][x.slot].uid = inv[x.owner][x.slot].uid =>
        (Holds(t, x.owner, x.slot)' <=> Holds(t, x.owner, x.slot))
  BY DEF Holds
<1> QED BY <1>1, <1>2, RevertibleKept

LEMMA UpdateKeepsUndos ==
  ASSUME FitInv, UNCHANGED <<inUse, claims>>, NEW t \in Txs, NEW p \in Players, NEW s \in Slots,
         NEW delta \in Int, NEW ok \in BOOLEAN, CanUpdate(t, p, s, delta), UpdateStack(p, s, delta, ok)
  PROVE  \A x \in Undo : Revertible(t, x) => Revertible(t, x)'
<1>1. TypeOK /\ StacksHaveKinds /\ Occupied(p, s) /\ inv[p][s].qty + delta >= 0
  BY DEF FitInv, IInv, ClaimInv, CanUpdate
<1>2. \A q \in Players, r \in Slots :
        \/ inv'[q][r] = NoStack
        \/ /\ inv'[q][r].uid = inv[q][r].uid /\ inv'[q][r].kind = inv[q][r].kind
           /\ inv'[q][r].state = inv[q][r].state
  <2> SUFFICES ASSUME NEW q \in Players, NEW r \in Slots
               PROVE  \/ inv'[q][r] = NoStack
                      \/ /\ inv'[q][r].uid = inv[q][r].uid /\ inv'[q][r].kind = inv[q][r].kind
                         /\ inv'[q][r].state = inv[q][r].state
    OBVIOUS
  <2> QED BY <1>1, UpdateEffect
<1>3. NoStack.uid = NoUid
  BY DEF NoStack
<1> QED BY <1>2, <1>3, StacksKeepUndos

LEMMA InsertKeepsUndos ==
  ASSUME FitInv, UNCHANGED <<inUse, claims>>, NEW t \in Txs, NEW p \in Players, NEW s \in Slots,
         NEW k \in Kinds, NEW n \in Nat, NEW ok \in BOOLEAN, InsertStack(p, s, k, n, ok)
  PROVE  \A x \in Undo : Revertible(t, x) => Revertible(t, x)'
<1>1. \A q \in Players, r \in Slots :
        \/ inv'[q][r] = inv[q][r]
        \/ inv'[q][r] = [uid |-> nextUid, kind |-> k, qty |-> n, state |-> "Free"]
  <2> SUFFICES ASSUME NEW q \in Players, NEW r \in Slots
               PROVE  \/ inv'[q][r] = inv[q][r]
                      \/ inv'[q][r] = [uid |-> nextUid, kind |-> k, qty |-> n, state |-> "Free"]
    OBVIOUS
  <2> QED BY InsertEffect DEF FitInv, IInv
<1> QED BY <1>1, StacksKeepUndos

(* A claim makes a stack the transaction's own; a release leaves it Free.   *)
LEMMA ClaimKeepsUndos ==
  ASSUME FitInv, NEW t \in Txs, NEW p \in Players, NEW s \in Slots, Claim(t, p, s)
  PROVE  \A x \in Undo : Revertible(t, x) => Revertible(t, x)'
<1> SUFFICES ASSUME NEW x \in Undo, Revertible(t, x) PROVE Revertible(t, x)'
  OBVIOUS
<1>1. TypeOK /\ x.owner \in Players /\ x.slot \in Slots
  BY DEF Undo, FitInv, IInv
<1>2. /\ inUse' = inUse /\ Stamp(p, s, "InTransaction")
      /\ claims' = [claims EXCEPT ![t] = @ \cup {IdOf(p, s)}]
  BY DEF Claim
<1>3. /\ inv'[x.owner][x.slot].uid = inv[x.owner][x.slot].uid
      /\ inv'[x.owner][x.slot].kind = inv[x.owner][x.slot].kind
      /\ inv'[x.owner][x.slot].state =
           IF x.owner = p /\ x.slot = s THEN "InTransaction" ELSE inv[x.owner][x.slot].state
  BY <1>1, <1>2, StampEffect DEF States
<1>4. claims'[t] = claims[t] \cup {IdOf(p, s)} /\ IdOf(p, s).uid = inv[p][s].uid
  BY <1>1, <1>2 DEF TypeOK, IdOf
<1>5. Holds(t, x.owner, x.slot) => Holds(t, x.owner, x.slot)'
  BY <1>3, <1>4 DEF Holds
<1>6. x.owner = p /\ x.slot = s => Holds(t, x.owner, x.slot)'
  <2> SUFFICES ASSUME x.owner = p, x.slot = s PROVE Holds(t, x.owner, x.slot)'
    OBVIOUS
  <2>1. IdOf(p, s) \in claims'[t] /\ IdOf(p, s).uid = inv'[x.owner][x.slot].uid
    BY <1>3, <1>4
  <2> QED BY <2>1 DEF Holds
<1> QED BY <1>1, <1>2, <1>3, <1>5, <1>6, RevertibleKept

LEMMA ReleaseKeepsUndos ==
  ASSUME FitInv, NEW t \in Txs, NEW c \in claims[t], Release(t, c)
  PROVE  \A x \in Undo : Revertible(t, x) => Revertible(t, x)'
<1> SUFFICES ASSUME NEW x \in Undo, Revertible(t, x) PROVE Revertible(t, x)'
  OBVIOUS
<1> DEFINE a == inv[x.owner][x.slot]
           b == inv'[x.owner][x.slot]
<1>1. TypeOK /\ ClaimInv /\ x.owner \in Players /\ x.slot \in Slots
  BY DEF Undo, FitInv, IInv
<1>2. /\ inUse' = inUse /\ inv' = Exited({c})
      /\ claims' = [claims EXCEPT ![t] = @ \ {c}]
  BY DEF Release
<1>3. b.uid = a.uid /\ b.kind = a.kind /\ b.state \in {a.state, "Free"}
  BY <1>1, <1>2, ExitEffect
<1>4. claims'[t] = claims[t] \ {c}
  BY <1>1, <1>2 DEF TypeOK
<1>5. ASSUME c.uid = a.uid PROVE b.state = "Free"
  <2>1. c.owner = x.owner /\ c.slot = x.slot /\ Resolves(c)
    BY <1>1, <1>5 DEF ClaimInv, ClaimsNameOnePlace, Resolves
  <2>2. a.state = "InTransaction"
    BY <1>1, <2>1 DEF ClaimInv, ClaimsExclusive, ClaimsAreStamped
  <2>3. b = [a EXCEPT !.state = "Free"]
    BY <1>1, <1>2, <2>1, <2>2 DEF Exited
  <2> QED BY <1>1, <2>3, PlaceType DEF Stack
<1>6. Holds(t, x.owner, x.slot) => Holds(t, x.owner, x.slot)' \/ b.state = "Free"
  BY <1>3, <1>4, <1>5 DEF Holds
<1> QED BY <1>1, <1>2, <1>3, <1>6, RevertibleKept

(* The two writes once they have landed.                                    *)
LandsAs(p, s, n) ==
  /\ \A o \in Players, r \in Slots : o # p \/ r # s => inv'[o][r] = inv[o][r]
  /\ IF n = 0 /\ inv[p][s].kind # Gil
     THEN inv'[p][s] = NoStack
     ELSE /\ inv'[p][s].uid = inv[p][s].uid /\ inv'[p][s].kind = inv[p][s].kind
          /\ inv'[p][s].state = inv[p][s].state /\ inv'[p][s].qty = n

LEMMA UpdateLands ==
  ASSUME TypeOK, StacksHaveKinds, NEW p \in Players, NEW s \in Slots, NEW delta \in Int,
         Occupied(p, s), inv[p][s].qty + delta >= 0, UpdateStack(p, s, delta, TRUE)
  PROVE  LandsAs(p, s, Updated(p, s, delta))
<1> DEFINE n == Updated(p, s, delta)
           gone == n = 0 /\ inv[p][s].kind # Gil
           some == [inv[p][s] EXCEPT !.qty = n]
           new == IF gone THEN NoStack ELSE some
<1>1. n \in Nat /\ inv[p][s] \in Stack
  BY UpdatedBounds, PlaceType
<1>2. inv' = [inv EXCEPT ![p][s] = new]
  BY DEF UpdateStack
<1> HIDE DEF n
<1>3. some \in Stack
  BY <1>1 DEF Stack
<1>4. /\ some.uid = inv[p][s].uid /\ some.kind = inv[p][s].kind
      /\ some.state = inv[p][s].state /\ some.qty = n
  BY <1>1 DEF Stack
<1>5. new \in Stack
  BY <1>3, StackType
<1> HIDE DEF new
<1>6. \A o \in Players, r \in Slots : inv'[o][r] = IF o = p /\ r = s THEN new ELSE inv[o][r]
  BY <1>2, <1>5, PutIn DEF TypeOK
<1>7. inv'[p][s] = new
  BY <1>6
<1> HIDE DEF some
<1>8. CASE gone
  BY <1>6, <1>7, <1>8 DEF new, n, LandsAs
<1>9. CASE ~gone
  BY <1>4, <1>6, <1>7, <1>9 DEF new, n, LandsAs
<1> QED BY <1>8, <1>9

InsertsAs(p, s, k, n) ==
  /\ \A o \in Players, r \in Slots : o # p \/ r # s => inv'[o][r] = inv[o][r]
  /\ inv'[p][s] = [uid |-> nextUid, kind |-> k, qty |-> n, state |-> "Free"]

LEMMA InsertLands ==
  ASSUME TypeOK, NEW p \in Players, NEW s \in Slots, NEW k \in Kinds, NEW n \in Nat,
         InsertStack(p, s, k, n, TRUE)
  PROVE  InsertsAs(p, s, k, n)
<1> DEFINE new == [uid |-> nextUid, kind |-> k, qty |-> n, state |-> "Free"]
<1>1. new \in Stack /\ inv \in [Players -> [Slots -> Stack]]
  BY DEF TypeOK, Stack, States
<1>2. inv' = [inv EXCEPT ![p][s] = new]
  BY DEF InsertStack
<1> HIDE DEF new
<1>3. \A o \in Players, r \in Slots : inv'[o][r] = IF o = p /\ r = s THEN new ELSE inv[o][r]
  BY <1>1, <1>2, PutIn
<1> QED BY <1>3 DEF new, InsertsAs

(* Each of the steps that change a stack records what takes it back.        *)
LEMMA GiveLog ==
  ASSUME FitInv, TypeOK', NEW t \in Txs, NEW p \in Players, NEW k \in Kinds,
         NEW q \in 1..StackSize[k], Give(t, p, k, q, TRUE)
  PROVE  Logged(t)
<1> DEFINE m == Lesser(q, StackSize[k])
<1>1. m \in 1..StackSize[k] /\ m \in Nat /\ -m \in Int /\ StackSize[k] \in Nat
  BY ConstantsAssumption DEF Lesser
<1> HIDE DEF m
<1>2. PICK s \in FreeSlots(p) : InsertStack(p, s, k, m, TRUE) /\ Record(t, TRUE, AddsUndo(p, s, -m))
  BY DEF Give, m
<1>3. UNCHANGED <<inUse, claims, base>> /\ k # Gil
  BY DEF Give, CanAdd
<1> DEFINE u == AddsUndo(p, s, -m)
<1>4. /\ u \in Undo /\ u.owner = p /\ u.slot = s /\ u.snap = NoKind /\ u.qty = -m
      /\ s \in Slots /\ ~Occupied(p, s) /\ TypeOK /\ ClaimInv
  BY <1>1, AddsUndoType DEF AddsUndo, FreeSlots, FitInv, IInv
<1>5. undos'[t] = Append(undos[t], u)
  BY <1>2, <1>4 DEF Record, TypeOK
<1>6. /\ \A o \in Players, r \in Slots : o # p \/ r # s => inv'[o][r] = inv[o][r]
      /\ inv'[p][s] = [uid |-> nextUid, kind |-> k, qty |-> m, state |-> "Free"]
  BY <1>1, <1>2, <1>4, InsertLands DEF InsertsAs
<1>7. RowOf(inv[p][s]) = NoRow /\ RowOf(inv'[p][s]) = [kind |-> k, qty |-> m]
  BY <1>4, <1>6 DEF Occupied, ClaimInv, StacksHaveKinds, NoStack, NoRow, RowOf
<1>8. RowReverts(u, RowOf(inv'[p][s]), RowOf(inv[p][s]))
  BY <1>1, <1>3, <1>4, <1>7 DEF RowReverts
<1>9. \A x \in Undo : Revertible(t, x) => Revertible(t, x)'
  BY <1>1, <1>2, <1>3, <1>4, InsertKeepsUndos
<1>10. Revertible(t, u)'
  <2>1. inUse'[p] # inv'[p][s].uid
    BY <1>3, <1>4, <1>6 DEF FitInv, UseFits, TypeOK
  <2>2. MayMutate(t, p, s)'
    BY <2>1, <1>4, <1>6 DEF MayMutate
  <2> QED BY <2>1, <2>2, <1>4 DEF Revertible
<1> HIDE DEF u
<1>11. \A o \in Players, r \in Slots : o # p \/ r # s => RowOf(inv'[o][r]) = RowOf(inv[o][r])
  BY <1>6 DEF RowOf
<1> QED BY <1>3, <1>4, <1>5, <1>8, <1>9, <1>10, <1>11 DEF Logged

LEMMA GrowLog ==
  ASSUME FitInv, TypeOK', NEW t \in Txs, NEW p \in Players, NEW s \in Slots,
         NEW q \in 1..StackSize[inv[p][s].kind], Grow(t, p, s, q, TRUE)
  PROVE  Logged(t)
<1> DEFINE x == inv[p][s].qty
           k == inv[p][s].kind
           n == Updated(p, s, q)
<1> PICK u : u = AddsUndo(p, s, -(n - x))
  OBVIOUS
<1>1. /\ CanUpdate(t, p, s, q) /\ UpdateStack(p, s, q, TRUE) /\ Record(t, TRUE, u)
      /\ UNCHANGED <<inUse, claims, base>>
  BY DEF Grow
<1>2. /\ Occupied(p, s) /\ x + q >= 0 /\ MayMutate(t, p, s)
      /\ TypeOK /\ ClaimInv /\ StacksHaveKinds /\ q \in Int
  BY <1>1 DEF CanUpdate, FitInv, IInv, ClaimInv
<1>3. k \in Kinds /\ StackSize[k] \in Nat \ {0} /\ x \in Nat
  BY <1>2, UpdatedBounds, PlaceType
<1>4. x <= StackSize[k] /\ (k # Gil => x > 0)
  BY <1>2 DEF FitInv, StacksFit, Fits, Occupied
<1>5. n \in 1..StackSize[k] /\ (StackSize[k] = 1 /\ k # Gil => n - x = 0)
  BY <1>3, <1>4 DEF Updated, Lesser
<1> HIDE DEF n
<1>6. u \in Undo /\ u.owner = p /\ u.slot = s /\ u.snap = NoKind /\ u.qty = -(n - x)
  BY <1>3, <1>5, AddsUndoType DEF AddsUndo
<1>7. undos'[t] = Append(undos[t], u)
  BY <1>1, <1>2 DEF Record, TypeOK
<1>8. /\ \A o \in Players, r \in Slots : o # p \/ r # s => inv'[o][r] = inv[o][r]
      /\ inv'[p][s].kind = k /\ inv'[p][s].qty = n
      /\ inv'[p][s].uid = inv[p][s].uid /\ inv'[p][s].state = inv[p][s].state
  <2>1. n # 0
    BY <1>5
  <2> QED BY <1>1, <1>2, <2>1, UpdateLands DEF n, LandsAs
<1>9. \A o \in Players, r \in Slots : o # p \/ r # s => RowOf(inv'[o][r]) = RowOf(inv[o][r])
  BY <1>8
<1>10. RowReverts(u, RowOf(inv'[p][s]), RowOf(inv[p][s]))
  <2>1. RowOf(inv'[p][s]) = [kind |-> k, qty |-> n] /\ RowOf(inv[p][s]) = [kind |-> k, qty |-> x]
    BY <1>8 DEF RowOf
  <2>2. n + -(n - x) = x /\ x \in 0..StackSize[k]
    BY <1>3, <1>4, <1>5
  <2>3. x = 0 => k = Gil
    BY <1>3, <1>4
  <2> HIDE DEF x, k
  <2> QED BY <1>3, <1>6, <2>1, <2>2, <2>3 DEF RowReverts
<1>11. \A y \in Undo : Revertible(t, y) => Revertible(t, y)'
  BY <1>1, <1>2, UpdateKeepsUndos
<1>12. Revertible(t, u)'
  <2>1. CASE inUse[p] = inv[p][s].uid
    <3>1. Trivial(u)
      BY <2>1, <1>2, <1>5, <1>6 DEF FitInv, UseFits, Trivial
    <3> QED BY <3>1 DEF Revertible, Trivial
  <2>2. CASE inUse[p] # inv[p][s].uid
    <3>1. Holds(t, p, s) => Holds(t, p, s)'
      BY <1>1, <1>8 DEF Holds
    <3>2. MayMutate(t, p, s)'
      BY <3>1, <1>1, <1>2, <1>8, <2>2 DEF MayMutate
    <3> QED BY <3>2, <1>1, <1>6, <1>8, <2>2 DEF Revertible
  <2> QED BY <2>1, <2>2
<1> QED BY <1>1, <1>2, <1>6, <1>7, <1>9, <1>10, <1>11, <1>12 DEF Logged

LEMMA TakeLog ==
  ASSUME FitInv, TypeOK', NEW t \in Txs, NEW p \in Players, NEW s \in Slots,
         NEW q \in 1..StackSize[inv[p][s].kind], Take(t, p, s, q, TRUE)
  PROVE  Logged(t)
<1> DEFINE x == inv[p][s].qty
           k == inv[p][s].kind
           n == Updated(p, s, -q)
<1> PICK u : u = TakesUndo(p, s, q)
  OBVIOUS
<1>1. /\ CanUpdate(t, p, s, -q) /\ UpdateStack(p, s, -q, TRUE) /\ Record(t, TRUE, u)
      /\ UNCHANGED <<inUse, claims, base>>
  BY DEF Take, TakesUndo
<1>2. /\ Occupied(p, s) /\ x + -q >= 0 /\ MayMutate(t, p, s)
      /\ TypeOK /\ ClaimInv /\ StacksHaveKinds /\ -q \in Int
  BY <1>1 DEF CanUpdate, FitInv, IInv, ClaimInv
<1>3. k \in Kinds /\ StackSize[k] \in Nat \ {0} /\ x \in Nat /\ q \in 1..StackSize[k]
  BY <1>2, UpdatedBounds, PlaceType
<1>4. x <= StackSize[k]
  BY <1>2 DEF FitInv, StacksFit, Fits, Occupied
<1>5. n = x - q /\ q <= x
  <2>1. x + -q <= StackSize[k] /\ x + -q = x - q /\ q <= x
    BY <1>2, <1>3, <1>4
  <2> QED BY <1>2, <2>1, UpdatedBounds
<1> HIDE DEF n
<1>6. /\ u.owner = p /\ u.slot = s /\ u.qty = q
      /\ u.snap = IF x = q THEN k ELSE NoKind
  BY DEF TakesUndo, AddsUndo
<1>7. u \in Undo
  <2>1. u = [owner |-> p, slot |-> s, snap |-> IF x = q THEN k ELSE NoKind, qty |-> q]
    BY DEF TakesUndo, AddsUndo
  <2>2. q \in Nat /\ q \in Int
    BY <1>3
  <2> HIDE DEF x, k
  <2> QED BY <1>3, <2>1, <2>2 DEF Undo
<1>8. undos'[t] = Append(undos[t], u)
  BY <1>1, <1>2 DEF Record, TypeOK
<1>9. /\ \A o \in Players, r \in Slots : o # p \/ r # s => inv'[o][r] = inv[o][r]
      /\ IF n = 0 /\ k # Gil
         THEN inv'[p][s] = NoStack
         ELSE /\ inv'[p][s].kind = k /\ inv'[p][s].qty = n
              /\ inv'[p][s].uid = inv[p][s].uid /\ inv'[p][s].state = inv[p][s].state
  BY <1>1, <1>2, UpdateLands DEF n, LandsAs
<1>10. \A o \in Players, r \in Slots : o # p \/ r # s => RowOf(inv'[o][r]) = RowOf(inv[o][r])
  BY <1>9
<1>11. /\ RowOf(inv[p][s]) = [kind |-> k, qty |-> x]
       /\ RowOf(inv'[p][s]) = IF n = 0 /\ k # Gil THEN NoRow ELSE [kind |-> k, qty |-> n]
  BY <1>9 DEF RowOf, NoStack, NoRow
<1>12. RowReverts(u, RowOf(inv'[p][s]), RowOf(inv[p][s]))
  <2> HIDE DEF x, k
  <2>1. CASE x = q
    BY <2>1, <1>3, <1>5, <1>6, <1>11, ConstantsAssumption DEF RowReverts
  <2>2. CASE x # q
    <3>1. n # 0 /\ n + q = x /\ x \in 0..StackSize[k] /\ x # 0
      BY <2>2, <1>3, <1>4, <1>5
    <3> QED BY <2>2, <3>1, <1>3, <1>6, <1>11 DEF RowReverts
  <2> QED BY <2>1, <2>2
<1>13. \A y \in Undo : Revertible(t, y) => Revertible(t, y)'
  BY <1>1, <1>2, UpdateKeepsUndos
<1>14. Revertible(t, u)'
  <2>1. CASE n = 0 /\ k # Gil
    BY <2>1, <1>6, <1>9 DEF Revertible, Occupied, NoStack
  <2>2. CASE ~(n = 0 /\ k # Gil)
    <3>1. inUse[p] # inv[p][s].uid
      <4>1. inUse[p] = inv[p][s].uid => k # Gil /\ StackSize[k] = 1
        BY <1>2 DEF FitInv, UseFits
      <4> QED BY <4>1, <2>2, <1>3, <1>4, <1>5
    <3>2. Holds(t, p, s) => Holds(t, p, s)'
      BY <1>1, <1>9, <2>2 DEF Holds
    <3>3. MayMutate(t, p, s)'
      BY <3>1, <3>2, <1>1, <1>2, <1>9, <2>2 DEF MayMutate
    <3> QED BY <3>1, <3>3, <1>1, <1>6, <1>9, <2>2 DEF Revertible
  <2> QED BY <2>1, <2>2
<1> QED BY <1>1, <1>2, <1>6, <1>7, <1>8, <1>10, <1>12, <1>13, <1>14 DEF Logged

(* A step whose write failed.                                               *)
LEMMA StillLog ==
  ASSUME NEW t \in Txs, UNCHANGED <<inv, inUse, claims, undos, base>>
  PROVE  LogStays(t)
BY DEF LogStays, Contents, Revertible, Occupied, MayMutate, Holds

(* A claim or a release changes stamps only.                                *)
LEMMA StampsLeaveContents ==
  ASSUME FitInv, TypeOK', NEW t \in Txs,
         \/ \E p \in Players, s \in Slots : Claim(t, p, s)
         \/ \E c \in claims[t] : Release(t, c)
         \/ Commit(t) \/ FinishRollback(t)
  PROVE  Contents' = Contents
<1>1. TypeOK
  BY DEF FitInv, IInv
<1>2. ASSUME NEW p \in Players, NEW s \in Slots, Claim(t, p, s) PROVE Contents' = Contents
  <2>1. Stamp(p, s, "InTransaction")
    BY <1>2 DEF Claim
  <2>2. \A q \in Players, r \in Slots : inv'[q][r].kind = inv[q][r].kind /\ inv'[q][r].qty = inv[q][r].qty
    BY <1>1, <2>1, StampEffect DEF States
  <2> QED BY <1>1, <2>2, SameContents
<1>3. ASSUME NEW ids, inv' = Exited(ids) PROVE Contents' = Contents
  <2>1. \A q \in Players, r \in Slots : inv'[q][r].kind = inv[q][r].kind /\ inv'[q][r].qty = inv[q][r].qty
    BY <1>1, <1>3, ExitEffect
  <2> QED BY <1>1, <2>1, SameContents
<1> QED BY <1>2, <1>3 DEF Release, Commit, FinishRollback, ReleaseAll

LEMMA WorkLog ==
  ASSUME FitInv, TypeOK', NEW t \in Txs, Work(t)
  PROVE  Logged(t) \/ LogStays(t)
<1>1. TypeOK
  BY DEF FitInv, IInv
<1>2. ASSUME NEW p \in Players, NEW s \in Slots, Claim(t, p, s) PROVE LogStays(t)
  <2>1. Contents' = Contents /\ UNCHANGED <<undos, base>>
    BY <1>2, StampsLeaveContents DEF Claim
  <2> QED BY <1>2, <2>1, ClaimKeepsUndos DEF LogStays
<1>3. ASSUME NEW c \in claims[t], Release(t, c) PROVE LogStays(t)
  <2>1. Contents' = Contents /\ UNCHANGED <<undos, base>>
    BY <1>3, StampsLeaveContents DEF Release
  <2> QED BY <1>3, <2>1, ReleaseKeepsUndos DEF LogStays
<1>4. ASSUME NEW p \in Players, NEW k \in Kinds, NEW q \in 1..StackSize[k], NEW ok \in BOOLEAN, Give(t, p, k, q, ok)
      PROVE  Logged(t) \/ LogStays(t)
  <2>1. CASE ok = TRUE
    BY <1>4, <2>1, GiveLog
  <2>2. CASE ok = FALSE
    BY <1>4, <2>2, StillLog DEF Give, InsertStack, Record
  <2> QED BY <2>1, <2>2
<1>5. ASSUME NEW p \in Players, NEW s \in Slots, NEW q \in 1..StackSize[inv[p][s].kind], NEW ok \in BOOLEAN,
             Grow(t, p, s, q, ok)
      PROVE  Logged(t) \/ LogStays(t)
  <2>1. CASE ok = TRUE
    BY <1>5, <2>1, GrowLog
  <2>2. CASE ok = FALSE
    BY <1>5, <2>2, StillLog DEF Grow, UpdateStack, Record
  <2> QED BY <2>1, <2>2
<1>6. ASSUME NEW p \in Players, NEW s \in Slots, NEW q \in 1..StackSize[inv[p][s].kind], NEW ok \in BOOLEAN,
             Take(t, p, s, q, ok)
      PROVE  Logged(t) \/ LogStays(t)
  <2>1. CASE ok = TRUE
    BY <1>6, <2>1, TakeLog
  <2>2. CASE ok = FALSE
    BY <1>6, <2>2, StillLog DEF Take, UpdateStack, Record
  <2> QED BY <2>1, <2>2
<1> QED BY <1>2, <1>3, <1>4, <1>5, <1>6 DEF Work

-----------------------------------------------------------------------------
(* The steps of a rollback and the log                                      *)

LEMMA LastUndoType ==
  ASSUME FitInv, NEW t \in Txs, LogInv(t), undos[t] # <<>>
  PROVE  /\ LastUndo(t) \in Undo /\ LastUndo(t).owner \in Players /\ LastUndo(t).slot \in Slots
         /\ LastUndo(t).qty \in Int
         /\ LastUndo(t).snap # NoKind => LastUndo(t).snap \in Kinds
         /\ SnapFits(LastUndo(t)) /\ Revertible(t, LastUndo(t))
<1>1. TypeOK /\ undos[t] \in Seq(Undo) /\ Len(undos[t]) \in 1..Len(undos[t])
  BY DEF FitInv, IInv, TypeOK
<1>2. LastUndo(t) \in Undo
  BY <1>1, PopType
<1>3. SnapFits(LastUndo(t)) /\ Revertible(t, LastUndo(t))
  BY <1>1 DEF FitInv, SnapsFit, LogInv, LastUndo
<1> QED BY <1>2, <1>3 DEF Undo

(* Both kinds of undo that change a stack add to it what fits.              *)
LEMMA AddingReverts ==
  ASSUME FitInv, NEW u \in Undo, SnapFits(u), u.snap \in {NoKind, Gil},
         NEW d \in [Players -> [Slots -> Row]], Reverts(u, Contents, d)
  PROVE  /\ Occupied(u.owner, u.slot)
         /\ inv[u.owner][u.slot].qty + u.qty \in 0..StackSize[inv[u.owner][u.slot].kind]
         /\ d[u.owner][u.slot] =
              IF inv[u.owner][u.slot].qty + u.qty = 0 /\ inv[u.owner][u.slot].kind # Gil THEN NoRow
              ELSE [kind |-> inv[u.owner][u.slot].kind, qty |-> inv[u.owner][u.slot].qty + u.qty]
         /\ \A q \in Players, r \in Slots : q # u.owner \/ r # u.slot => d[q][r] = RowOf(inv[q][r])
<1> DEFINE p == u.owner
           s == u.slot
           x == inv[p][s]
<1>1. p \in Players /\ s \in Slots /\ u.qty \in Int /\ TypeOK /\ ClaimInv
  BY DEF Undo, FitInv, IInv
<1>2. RowReverts(u, RowOf(x), d[p][s])
  BY <1>1, ContentsAt DEF Reverts
<1>3. RowOf(x).kind = x.kind /\ RowOf(x).qty = x.qty /\ x.qty \in Nat
  BY <1>1, PlaceType DEF RowOf
<1>4. /\ x.kind \in Kinds
      /\ x.qty + u.qty \in 0..StackSize[x.kind]
      /\ d[p][s] = IF x.qty + u.qty = 0 /\ x.kind # Gil THEN NoRow
                   ELSE [kind |-> x.kind, qty |-> x.qty + u.qty]
  <2>1. CASE u.snap = NoKind
    BY <1>2, <1>3, <2>1 DEF RowReverts
  <2>2. CASE u.snap = Gil
    <3>1. u.snap # NoKind /\ u.qty \in 1..StackSize[Gil] /\ StackSize[Gil] \in Nat
      BY <2>2, ConstantsAssumption DEF SnapFits
    <3>2. x.kind = Gil /\ x.qty = 0 /\ d[p][s] = [kind |-> Gil, qty |-> u.qty]
      BY <1>2, <1>3, <2>2, <3>1 DEF RowReverts
    <3> QED BY <3>1, <3>2, ConstantsAssumption
  <2> QED BY <2>1, <2>2
<1>5. Occupied(p, s)
  BY <1>1, <1>4, ConstantsAssumption DEF ClaimInv, StacksHaveKinds, Occupied, NoStack
<1>6. \A q \in Players, r \in Slots : q # p \/ r # s => d[q][r] = RowOf(inv[q][r])
  BY ContentsAt DEF Reverts
<1> QED BY <1>4, <1>5, <1>6

LEMMA UndoUpdateLog ==
  ASSUME FitInv, TypeOK', NEW t \in Txs, LogInv(t), undos[t] # <<>>, ~undoFailed',
         LastUndo(t).snap \in {NoKind, Gil},
         UndoUpdate(t, LastUndo(t).owner, LastUndo(t).slot, LastUndo(t).qty)
  PROVE  TakesBack(t)
<1> PICK u : u = LastUndo(t)
  OBVIOUS
<1> DEFINE p == u.owner
           s == u.slot
           e == u.qty
<1>1. u \in Undo /\ p \in Players /\ s \in Slots /\ e \in Int /\ SnapFits(u) /\ Revertible(t, u)
  BY LastUndoType
<1>2. TypeOK /\ StacksHaveKinds
  BY DEF FitInv, IInv, ClaimInv
<1>3. UndoUpdate(t, p, s, e) /\ u.snap \in {NoKind, Gil}
  OBVIOUS
<1>4. CASE /\ CanUpdate(t, p, s, e) /\ UpdateStack(p, s, e, TRUE) /\ PopUndo(t)
           /\ UNCHANGED <<inUse, claims, base>>
  <2>1. ASSUME NEW d \in [Players -> [Slots -> Row]], Reverts(u, Contents, d) PROVE Contents' = d
    <3>1. /\ Occupied(p, s) /\ inv[p][s].qty + e \in 0..StackSize[inv[p][s].kind]
          /\ d[p][s] = IF inv[p][s].qty + e = 0 /\ inv[p][s].kind # Gil THEN NoRow
                       ELSE [kind |-> inv[p][s].kind, qty |-> inv[p][s].qty + e]
          /\ \A q \in Players, r \in Slots : q # p \/ r # s => d[q][r] = RowOf(inv[q][r])
      BY <1>1, <1>3, <2>1, AddingReverts
    <3>2. inv[p][s].qty + e >= 0 /\ Updated(p, s, e) = inv[p][s].qty + e
      <4>1. StackSize[inv[p][s].kind] \in Nat /\ inv[p][s].qty \in Nat
        BY <1>1, <1>2, <3>1, PlaceType, ConstantsAssumption DEF StacksHaveKinds, Occupied
      <4>2. inv[p][s].qty + e >= 0 /\ inv[p][s].qty + e <= StackSize[inv[p][s].kind]
        <5>1. inv[p][s].qty + e \in 0..StackSize[inv[p][s].kind]
          BY <3>1
        <5> QED BY <4>1, <5>1
      <4> QED BY <4>2 DEF Updated, Lesser
    <3>3. /\ \A q \in Players, r \in Slots : q # p \/ r # s => inv'[q][r] = inv[q][r]
          /\ IF inv[p][s].qty + e = 0 /\ inv[p][s].kind # Gil
             THEN inv'[p][s] = NoStack
             ELSE inv'[p][s].kind = inv[p][s].kind /\ inv'[p][s].qty = inv[p][s].qty + e
      <4>1. LandsAs(p, s, Updated(p, s, e))
        BY <1>1, <1>2, <1>4, <3>1, <3>2, UpdateLands
      <4> QED BY <3>2, <4>1 DEF LandsAs
    <3>4. RowOf(inv'[p][s]) = d[p][s]
      <4>1. CASE inv[p][s].qty + e = 0 /\ inv[p][s].kind # Gil
        <5>1. inv'[p][s] = NoStack /\ d[p][s] = NoRow
          BY <3>1, <3>3, <4>1
        <5> QED BY <5>1 DEF RowOf, NoStack, NoRow
      <4>2. CASE ~(inv[p][s].qty + e = 0 /\ inv[p][s].kind # Gil)
        <5>1. /\ inv'[p][s].kind = inv[p][s].kind /\ inv'[p][s].qty = inv[p][s].qty + e
              /\ d[p][s] = [kind |-> inv[p][s].kind, qty |-> inv[p][s].qty + e]
          BY <3>1, <3>3, <4>2
        <5> QED BY <5>1 DEF RowOf
      <4> QED BY <4>1, <4>2
    <3>5. \A q \in Players, r \in Slots : d[q][r] = RowOf(inv'[q][r])
      BY <3>1, <3>3, <3>4
    <3> QED BY <3>5, NextContents
  <2>2. \A x \in Undo : Revertible(t, x) => Revertible(t, x)'
    BY <1>1, <1>4, UpdateKeepsUndos
  <2> QED BY <1>2, <1>4, <2>1, <2>2 DEF TakesBack, AllContents
<1>5. CASE FailUndo(t)
  BY <1>5 DEF FailUndo
<1>6. CASE ~CanUpdate(t, p, s, e) /\ Refuse(t)
  <2>1. UNCHANGED <<inv, inUse, claims, base>> /\ PopUndo(t)
    BY <1>6 DEF Refuse, SkipUndo
  <2>2. ASSUME NEW d \in [Players -> [Slots -> Row]], Reverts(u, Contents, d) PROVE Contents' = d
    <3>1. /\ Occupied(p, s) /\ inv[p][s].qty + e \in 0..StackSize[inv[p][s].kind]
          /\ d[p][s] = IF inv[p][s].qty + e = 0 /\ inv[p][s].kind # Gil THEN NoRow
                       ELSE [kind |-> inv[p][s].kind, qty |-> inv[p][s].qty + e]
          /\ \A q \in Players, r \in Slots : q # p \/ r # s => d[q][r] = RowOf(inv[q][r])
      BY <1>1, <1>3, <2>2, AddingReverts
    <3>2. ~MayMutate(t, p, s)
      <4>1. inv[p][s].qty + e >= 0
        BY <3>1
      <4> QED BY <4>1, <1>6, <3>1 DEF CanUpdate
    <3>3. e = 0
      BY <1>1, <3>1, <3>2 DEF Revertible, Trivial
    <3>4. inv[p][s].qty \in Nat /\ (inv[p][s].kind # Gil => inv[p][s].qty > 0)
      BY <1>1, <1>2, <3>1, PlaceType DEF FitInv, StacksFit, Fits, Occupied
    <3>5. d[p][s] = RowOf(inv[p][s])
      <4>1. inv[p][s].qty + e = inv[p][s].qty
        BY <3>3, <3>4
      <4>2. ~(inv[p][s].qty = 0 /\ inv[p][s].kind # Gil)
        BY <3>4
      <4> QED BY <3>1, <4>1, <4>2 DEF RowOf
    <3>6. \A q \in Players, r \in Slots : d[q][r] = RowOf(inv'[q][r])
      BY <2>1, <3>1, <3>5
    <3> QED BY <3>6, NextContents
  <2>3. \A x \in Undo : Revertible(t, x) => Revertible(t, x)'
    BY <2>1 DEF Revertible, Occupied, MayMutate, Holds
  <2> QED BY <1>2, <2>1, <2>2, <2>3 DEF TakesBack, AllContents
<1> QED BY <1>3, <1>4, <1>5, <1>6 DEF UndoUpdate

LEMMA LastReverts ==
  ASSUME TypeOK, NEW t \in Txs, LogInv(t), undos[t] # <<>>
  PROVE  \E d \in [Players -> [Slots -> Row]] : Reverts(LastUndo(t), Contents, d)
<1> DEFINE n == Len(undos[t])
           R == AllContents
<1>1. n \in Nat \ {0}
  BY DEF TypeOK
<1>2. PICK h \in [0..n -> R] :
        /\ h[n] = Contents
        /\ \A i \in 1..n : Reverts(undos[t][i], h[i], h[i - 1])
  BY DEF LogInv, Unwinds, UnwindsIn
<1>3. n \in 1..n /\ n - 1 \in 0..n
  BY <1>1
<1> HIDE DEF R, n
<1>4. h[n - 1] \in R /\ Reverts(undos[t][n], h[n], h[n - 1])
  BY <1>2, <1>3
<1> QED BY <1>2, <1>4 DEF LastUndo, n, R, AllContents

LEMMA UndoRestoreLog ==
  ASSUME FitInv, TypeOK', NEW t \in Txs, LogInv(t), ~undoFailed', UndoRestore(t)
  PROVE  TakesBack(t)
<1> PICK u : u = LastUndo(t)
  OBVIOUS
<1>1. undos[t] # <<>> /\ u.snap # NoKind
  BY DEF UndoRestore, Undoing
<1> DEFINE p == u.owner
           s == u.slot
<1>2. /\ u \in Undo /\ p \in Players /\ s \in Slots /\ u.snap \in Kinds
      /\ u.qty \in 1..StackSize[u.snap] /\ (u.snap = Gil => s = 0)
  BY <1>1, LastUndoType DEF SnapFits
<1>3. TypeOK /\ StacksHaveKinds /\ u.qty \in Nat
  BY <1>2, ConstantsAssumption DEF FitInv, IInv, ClaimInv
<1>4. RowOf(inv[p][s]) = IF u.snap = Gil THEN [kind |-> Gil, qty |-> 0] ELSE NoRow
  <2>1. PICK d \in [Players -> [Slots -> Row]] : Reverts(u, Contents, d)
    BY <1>1, <1>3, LastReverts
  <2> QED BY <1>1, <1>2, <2>1, ContentsAt DEF Reverts, RowReverts
<1>5. Occupied(p, s) <=> u.snap = Gil
  <2>1. inv[p][s].kind = IF u.snap = Gil THEN Gil ELSE NoKind
    BY <1>4 DEF RowOf, NoRow
  <2>2. Occupied(p, s) <=> inv[p][s].kind # NoKind
    BY <1>2, <1>3, ConstantsAssumption DEF StacksHaveKinds, Occupied, NoStack
  <2> QED BY <2>1, <2>2, ConstantsAssumption
<1>6. \/ u.snap # Gil /\ RestoreInto(t, p, s, u.snap, u.qty)
      \/ u.snap = Gil /\ UndoUpdate(t, p, s, u.qty)
  BY <1>2, <1>5 DEF UndoRestore
<1>7. CASE u.snap = Gil
  BY <1>1, <1>6, <1>7, UndoUpdateLog
<1>8. CASE u.snap # Gil
  <2>1. /\ InsertStack(p, s, u.snap, u.qty, TRUE) /\ PopUndo(t)
        /\ UNCHANGED <<inUse, claims, base>>
    BY <1>6, <1>8 DEF RestoreInto
  <2>2. /\ \A o \in Players, r \in Slots : o # p \/ r # s => inv'[o][r] = inv[o][r]
        /\ inv'[p][s] = [uid |-> nextUid, kind |-> u.snap, qty |-> u.qty, state |-> "Free"]
    <3>1. InsertsAs(p, s, u.snap, u.qty)
      BY <1>2, <1>3, <2>1, InsertLands
    <3> QED BY <3>1 DEF InsertsAs
  <2>3. ASSUME NEW d \in [Players -> [Slots -> Row]], Reverts(u, Contents, d) PROVE Contents' = d
    <3>1. d[p][s] = [kind |-> u.snap, qty |-> u.qty]
      BY <1>1, <2>3 DEF Reverts, RowReverts
    <3>2. \A q \in Players, r \in Slots : q # p \/ r # s => d[q][r] = RowOf(inv[q][r])
      BY <2>3, ContentsAt DEF Reverts
    <3>3. \A q \in Players, r \in Slots : d[q][r] = RowOf(inv'[q][r])
      BY <2>2, <3>1, <3>2 DEF RowOf
    <3> QED BY <3>3, NextContents
  <2>4. \A x \in Undo : Revertible(t, x) => Revertible(t, x)'
    BY <1>2, <1>3, <2>1, InsertKeepsUndos
  <2> QED BY <1>1, <1>3, <2>1, <2>3, <2>4 DEF TakesBack, AllContents
<1> QED BY <1>7, <1>8

LEMMA RunUndoLog ==
  ASSUME FitInv, TypeOK', NEW t \in Txs, LogInv(t), ~undoFailed', RunUndo(t)
  PROVE  TakesBack(t)
<1>1. CASE UndoDelta(t)
  BY <1>1, UndoUpdateLog DEF UndoDelta, Undoing
<1>2. CASE UndoRestore(t)
  BY <1>2, UndoRestoreLog
<1> QED BY <1>1, <1>2 DEF RunUndo

-----------------------------------------------------------------------------
(* What a handler leaves alone                                              *)

OthersKeepTheirs(t) == \A u \in Txs : u # t => undos'[u] = undos[u] /\ claims'[u] = claims[u]

LEMMA WorkControl ==
  ASSUME TypeOK, NEW t \in Txs, Work(t)
  PROVE  /\ cpu = t /\ phase \in {"work", "close"} /\ UNCHANGED <<txState, cpu, phase, base, undoFailed>>
         /\ OthersKeepTheirs(t)
         /\ phase = "work" \/ t \in Irreversible \/ \E c \in claims[t] : Release(t, c)
<1> DEFINE Fact == /\ cpu = t /\ UNCHANGED <<txState, cpu, phase, base, undoFailed>>
                   /\ OthersKeepTheirs(t)
<1>0. undos \in [Txs -> Seq(Undo)] /\ claims \in [Txs -> SUBSET ItemId]
  BY DEF TypeOK
<1>1. ASSUME NEW p \in Players, NEW s \in Slots, Claim(t, p, s) PROVE Fact /\ Working(t)
  BY <1>0, <1>1 DEF Claim, Working, OthersKeepTheirs
<1>2. ASSUME NEW c \in claims[t], Release(t, c) PROVE Fact /\ Releasing(t)
  BY <1>0, <1>2 DEF Release, Releasing, OthersKeepTheirs
<1>3. ASSUME NEW p \in Players, NEW ok \in BOOLEAN, NEW k \in Kinds, NEW q \in 1..StackSize[k], Give(t, p, k, q, ok)
      PROVE  Fact /\ Working(t)
  BY <1>0, <1>3 DEF Give, Working, Record, OthersKeepTheirs
<1>4. ASSUME NEW p \in Players, NEW ok \in BOOLEAN, NEW s \in Slots, NEW q \in 1..StackSize[inv[p][s].kind],
             Grow(t, p, s, q, ok) \/ Take(t, p, s, q, ok)
      PROVE  Fact /\ Working(t)
  BY <1>0, <1>4 DEF Grow, Take, Working, Record, OthersKeepTheirs
<1> HIDE DEF Fact
<1>5. Fact /\ (Working(t) \/ (Releasing(t) /\ \E c \in claims[t] : Release(t, c)))
  BY <1>1, <1>2, <1>3, <1>4 DEF Work
<1> QED BY <1>5 DEF Fact, Working, Releasing

LEMMA RunUndoControl ==
  ASSUME TypeOK, NEW t \in Txs, RunUndo(t)
  PROVE  /\ cpu = t /\ phase = "undo" /\ UNCHANGED <<txState, cpu, phase, base, claims>>
         /\ OthersKeepTheirs(t)
         /\ undoFailed' \in {undoFailed, TRUE}
<1> DEFINE Fact == /\ UNCHANGED <<txState, cpu, phase, base, claims>> /\ PopUndo(t)
                   /\ undoFailed' \in {undoFailed, TRUE}
<1>a. ASSUME Refuse(t) \/ FailUndo(t) PROVE Fact
  BY <1>a DEF Refuse, FailUndo, SkipUndo
<1>b. ASSUME NEW p, NEW s, NEW delta, UndoUpdate(t, p, s, delta) PROVE Fact
  BY <1>a, <1>b DEF UndoUpdate
<1>c. ASSUME NEW p, NEW s, NEW k, NEW q, RestoreInto(t, p, s, k, q) PROVE Fact
  BY <1>c DEF RestoreInto
<1>1. Undoing(t) /\ Fact
  <2> HIDE DEF Fact
  <2> QED BY <1>a, <1>b, <1>c DEF RunUndo, UndoDelta, UndoRestore
<1> QED BY <1>1 DEF TypeOK, Undoing, PopUndo, OthersKeepTheirs

LEMMA ClosedControl ==
  ASSUME TypeOK, NEW t \in Txs, Commit(t) \/ FinishRollback(t)
  PROVE  /\ cpu = t /\ cpu' = Idle /\ phase' = "work" /\ undoFailed' = FALSE
         /\ undos' = [undos EXCEPT ![t] = <<>>] /\ claims' = [claims EXCEPT ![t] = {}]
         /\ OthersKeepTheirs(t)
BY DEF Commit, FinishRollback, ReleaseAll, Closed, Forget, OthersKeepTheirs, TypeOK

LEMMA ElsewhereControl ==
  ASSUME NEW p \in Players, Elsewhere(p)
  PROVE  cpu = Idle /\ UNCHANGED <<txState, claims, undos, cpu, phase, base, undoFailed>>
BY DEF Elsewhere, Mark, StartUse, EndUse, MoveItemTo

LEMMA FlowStep == IInv /\ Flow /\ [Next]_vars => Flow'
<1> SUFFICES ASSUME IInv, Flow, [Next]_vars PROVE Flow'
  OBVIOUS
<1>1. TypeOK /\ undos \in [Txs -> Seq(Undo)] /\ Idle \notin Txs
  BY ConstantsAssumption DEF IInv, TypeOK
<1>2. CASE UNCHANGED vars
  BY <1>2 DEF vars, Flow
<1>3. ASSUME NEW t \in Txs, Work(t) PROVE Flow'
  <2>1. phase = "close" /\ t \notin Irreversible => undos' = undos
    BY <1>1, <1>3, WorkControl DEF Release
  <2> QED BY <1>1, <1>3, <2>1, WorkControl DEF Flow, OthersKeepTheirs
<1>4. ASSUME NEW t \in Txs, RunUndo(t) PROVE Flow'
  BY <1>1, <1>4, RunUndoControl DEF Flow, OthersKeepTheirs
<1>5. ASSUME NEW t \in Txs, Commit(t) \/ FinishRollback(t) PROVE Flow'
  <2>1. cpu = t /\ cpu' = Idle /\ phase' = "work" /\ undoFailed' = FALSE /\ undos' = [undos EXCEPT ![t] = <<>>]
    BY <1>1, <1>5, ClosedControl
  <2>2. \A u \in Txs \ Irreversible : undos'[u] = <<>>
    BY <1>1, <2>1 DEF Flow
  <2> QED BY <2>1, <2>2 DEF Flow
<1>6. ASSUME NEW t \in Txs, Enter(t) PROVE Flow'
  BY <1>1, <1>6 DEF Flow, Enter
<1>7. ASSUME NEW t \in Txs, Leave(t) PROVE Flow'
  BY <1>1, <1>7 DEF Flow, Leave, Forget
<1>8. ASSUME NEW t \in Txs, StartRollback(t) PROVE Flow'
  BY <1>1, <1>8 DEF Flow, StartRollback
<1>9. ASSUME NEW t \in Txs, UndoDone(t) PROVE Flow'
  BY <1>1, <1>9 DEF Flow, UndoDone
<1>10. ASSUME NEW p \in Players, Elsewhere(p) PROVE Flow'
  BY <1>10, ElsewhereControl DEF Flow
<1> QED BY <1>2, <1>3, <1>4, <1>5, <1>6, <1>7, <1>8, <1>9, <1>10 DEF Next, Handler

LEMMA UndoInvStep == FitInv /\ Flow /\ UndoInv /\ [Next]_vars /\ FitInv' => UndoInv'
<1> SUFFICES ASSUME FitInv, Flow, UndoInv, [Next]_vars, FitInv' PROVE UndoInv'
  OBVIOUS
<1>1. TypeOK /\ TypeOK' /\ Idle \notin Txs
  BY ConstantsAssumption DEF FitInv, IInv
<1>2. CASE UNCHANGED vars
  <2>1. UNCHANGED <<inv, inUse, claims, undos, base, cpu, phase, undoFailed>> /\ Contents' = Contents
    BY <1>2 DEF vars, Contents
  <2>2. \A t \in Txs : LogInv(t) => LogInv(t)'
    BY <1>1, <2>1, StillLog, SameLog
  <2> QED BY <2>1, <2>2 DEF UndoInv
<1>3. ASSUME NEW t \in Txs, Work(t) PROVE UndoInv'
  <2>1. CASE phase = "close" /\ t \notin Irreversible
    <3>1. Contents' = Contents
      BY <1>1, <1>3, <2>1, WorkControl, StampsLeaveContents
    <3> QED BY <1>1, <1>3, <2>1, <3>1, WorkControl DEF UndoInv
  <2>2. CASE phase = "work" /\ t \notin Irreversible
    <3>1. ~undoFailed' => LogInv(t)'
      <4>1. Logged(t) \/ LogStays(t)
        BY <1>1, <1>3, WorkLog
      <4>2. ~undoFailed' => LogInv(t)
        BY <1>1, <1>3, <2>2, WorkControl DEF UndoInv
      <4> QED BY <1>1, <4>1, <4>2, LongerLog, SameLog
    <3>2. cpu' = t /\ phase' = "work"
      BY <1>1, <1>3, <2>2, WorkControl
    <3> QED BY <3>1, <3>2 DEF UndoInv
  <2>3. CASE t \in Irreversible
    BY <1>1, <1>3, <2>3, WorkControl DEF UndoInv
  <2> QED BY <1>1, <1>3, <2>1, <2>2, <2>3, WorkControl
<1>4. ASSUME NEW t \in Txs, RunUndo(t) PROVE UndoInv'
  <2>1. cpu' = t /\ phase' = "undo" /\ t \notin Irreversible
    BY <1>1, <1>4, RunUndoControl DEF Flow
  <2>2. ~undoFailed' => LogInv(t)'
    <3> SUFFICES ASSUME ~undoFailed' PROVE LogInv(t)'
      OBVIOUS
    <3>1. cpu = t /\ phase = "undo" /\ undoFailed' \in {undoFailed, TRUE}
      BY <1>1, <1>4, RunUndoControl
    <3>2. ~undoFailed
      BY <3>1, Zenon
    <3>3. LogInv(t)
      BY <2>1, <3>1, <3>2 DEF UndoInv
    <3> QED BY <1>1, <1>4, <3>3, RunUndoLog, ShorterLog
  <2> QED BY <2>1, <2>2 DEF UndoInv
<1>5. ASSUME cpu' = Idle PROVE UndoInv'
  BY <1>1, <1>5 DEF UndoInv
<1>6. ASSUME NEW t \in Txs, Enter(t) PROVE UndoInv'
  <2>1. cpu' = t /\ phase' = "work" /\ base' = Contents /\ Contents' = Contents
    BY <1>6 DEF Enter, Contents
  <2>2. t \notin Irreversible => undos'[t] = <<>>
    BY <1>1, <1>6 DEF Enter, Flow
  <2>3. undos'[t] = <<>> => LogInv(t)'
    BY <1>1, <2>1, EmptyLogNext
  <2> QED BY <2>1, <2>2, <2>3 DEF UndoInv
<1>7. ASSUME NEW t \in Txs, StartRollback(t) PROVE UndoInv'
  <2>1. t \notin Irreversible => cpu = t /\ cpu' = t /\ phase = "work" /\ phase' = "undo" /\ UNCHANGED <<inv, inUse, claims, undos, base, undoFailed>>
    BY <1>7 DEF StartRollback
  <2>2. t \notin Irreversible /\ ~undoFailed' => LogInv(t)'
    BY <1>1, <2>1, StillLog, SameLog DEF UndoInv
  <2>3. cpu' = t /\ (t \notin Irreversible => phase' = "undo")
    BY <1>7 DEF StartRollback
  <2> QED BY <2>2, <2>3 DEF UndoInv
<1>8. ASSUME NEW t \in Txs, UndoDone(t) PROVE UndoInv'
  <2>1. t \notin Irreversible /\ ~undoFailed => Contents = base
    BY <1>1, <1>8, EmptyLog DEF UndoDone, UndoInv
  <2>2. cpu' = t /\ phase' = "close" /\ UNCHANGED <<undoFailed, base>> /\ Contents' = Contents
    BY <1>8 DEF UndoDone, Contents
  <2> QED BY <2>1, <2>2 DEF UndoInv
<1>9. ASSUME NEW p \in Players, Elsewhere(p) PROVE UndoInv'
  BY <1>5, <1>9, ElsewhereControl
<1>10. ASSUME NEW t \in Txs, Commit(t) \/ FinishRollback(t) \/ Leave(t) PROVE UndoInv'
  BY <1>1, <1>5, <1>10, ClosedControl DEF Leave
<1> QED BY <1>2, <1>3, <1>4, <1>6, <1>7, <1>8, <1>9, <1>10 DEF Next, Handler

LEMMA InitRollback == Init => RollbackInv
<1> SUFFICES ASSUME Init PROVE RollbackInv
  OBVIOUS
<1>1. FitInv /\ Idle \notin Txs
  BY InitFit, ConstantsAssumption
<1>2. phase = "work" /\ undoFailed = FALSE /\ cpu = Idle /\ \A t \in Txs : undos[t] = <<>>
  BY DEF Init
<1>3. Flow /\ UndoInv
  BY <1>1, <1>2 DEF Flow, UndoInv
<1> QED BY <1>1, <1>3 DEF RollbackInv

LEMMA RollbackStep == RollbackInv /\ [Next]_vars => RollbackInv'
<1> SUFFICES ASSUME RollbackInv, [Next]_vars PROVE RollbackInv'
  OBVIOUS
<1>1. FitInv'
  BY FitStep DEF RollbackInv
<1>2. Flow'
  BY FlowStep DEF RollbackInv, FitInv
<1>3. UndoInv'
  BY <1>1, UndoInvStep DEF RollbackInv
<1> QED BY <1>1, <1>2, <1>3 DEF RollbackInv

(* The invariant of the undo log: between the moment a handler begins and   *)
(* the moment its rollback has run its undos, the log takes the inventories *)
(* back to what the handler found (transaction.cpp, recordUndo_, rollback). *)
THEOREM LogAlwaysUnwinds == Spec => []RollbackInv
<1>1. Init => RollbackInv
  BY InitRollback
<1>2. RollbackInv /\ [Next]_vars => RollbackInv'
  BY RollbackStep
<1> QED BY <1>1, <1>2, PTL DEF Spec

LEMMA OnlyUndoDone ==
  ASSUME TypeOK, Next, phase = "undo", phase' = "close"
  PROVE  \E t \in Txs : UndoDone(t)
<1>1. ASSUME NEW t \in Txs, Work(t) PROVE FALSE
  BY <1>1, WorkControl
<1>2. ASSUME NEW t \in Txs, RunUndo(t) PROVE FALSE
  BY <1>2, RunUndoControl
<1>3. ASSUME NEW t \in Txs, Enter(t) \/ Leave(t) \/ Commit(t) \/ StartRollback(t) \/ FinishRollback(t) PROVE FALSE
  BY <1>3 DEF Enter, Leave, Commit, StartRollback, FinishRollback
<1>4. ASSUME NEW p \in Players, Elsewhere(p) PROVE FALSE
  BY <1>4, ElsewhereControl
<1> QED BY <1>1, <1>2, <1>3, <1>4 DEF Next, Handler

(* A rollback none of whose own writes fails leaves every slot of every     *)
(* player as the handler found it (Transaction::rollback).                  *)
THEOREM RollbackRestoresAll == Spec => RollbackRestores
<1> DEFINE Restores == phase = "undo" /\ phase' = "close" /\ ~undoFailed => Contents = base
<1>1. RollbackInv /\ [Next]_vars => [Restores]_vars
  <2> SUFFICES ASSUME RollbackInv, Next, phase = "undo", phase' = "close", ~undoFailed
               PROVE  Contents = base
    OBVIOUS
  <2>1. TypeOK /\ Flow /\ UndoInv
    BY DEF RollbackInv, FitInv, IInv
  <2>2. PICK t \in Txs : UndoDone(t)
    BY <2>1, OnlyUndoDone
  <2>3. cpu = t /\ undos[t] = <<>> /\ t \notin Irreversible
    BY <2>1, <2>2 DEF UndoDone, Flow
  <2>4. LogInv(t)
    BY <2>1, <2>3 DEF UndoInv
  <2> QED BY <2>1, <2>3, <2>4, EmptyLog
<1> QED BY <1>1, LogAlwaysUnwinds, PTL DEF Spec, RollbackRestores

-----------------------------------------------------------------------------
(* The engine implements AtomicInventory                                    *)

LEMMA HeldIs ==
  ASSUME NEW t \in Txs, NEW p \in Players, NEW s \in Slots
  PROVE  <<p, s>> \in Held(t) <=> inv[p][s].state = "InTransaction" /\ IdOf(p, s) \in claims[t]
BY DEF Held

(* What one transaction holds no other touches: a step of t, or of another  *)
(* handler (t is Idle then), leaves the rest held and as it was.            *)
LEMMA OthersUntouched ==
  ASSUME IInv, Next, NEW t, cpu \in {t, Idle}, OthersKeepTheirs(t), NEW u \in Txs, u # t
  PROVE  /\ Held(u)' = Held(u)
         /\ \A x \in Held(u) : inv'[x[1]][x[2]] = inv[x[1]][x[2]]
<1>1. claims'[u] = claims[u] /\ ClaimInv /\ TypeOK /\ Idle \notin Txs
  BY ConstantsAssumption DEF OthersKeepTheirs, IInv
<1>2. ASSUME NEW p \in Players, NEW s \in Slots, <<p, s>> \in Held(u) PROVE inv'[p][s] = inv[p][s]
  <2> SUFFICES ASSUME inv'[p][s] # inv[p][s] PROVE FALSE
    OBVIOUS
  <2>1. inv[p][s].state = "InTransaction" /\ IdOf(p, s) \in claims[u] /\ IdOf(p, s).uid = inv[p][s].uid
    BY <1>2, HeldIs DEF IdOf
  <2>2. cpu \in Txs /\ Holds(cpu, p, s)
    BY <2>1, HolderStep
  <2>3. PICK c \in claims[cpu] : c.uid = inv[p][s].uid
    BY <2>2 DEF Holds
  <2>4. cpu = u
    BY <1>1, <2>1, <2>2, <2>3 DEF ClaimInv, ClaimsExclusive, OneHolder
  <2> QED BY <1>1, <2>2, <2>4
<1>3. ASSUME NEW p \in Players, NEW s \in Slots PROVE <<p, s>> \in Held(u) <=> <<p, s>> \in Held(u)'
  <2>1. <<p, s>> \in Held(u)' <=> inv'[p][s].state = "InTransaction" /\ IdOf(p, s)' \in claims[u]
    BY <1>1 DEF Held
  <2>2. CASE <<p, s>> \in Held(u)
    BY <1>2, <2>1, <2>2, HeldIs DEF IdOf
  <2>3. CASE <<p, s>> \in Held(u)'
    <3> PICK c : c = IdOf(p, s)'
      OBVIOUS
    <3>1. c \in claims[u] /\ c.owner = p /\ c.slot = s /\ c.uid = inv'[p][s].uid
      BY <2>1, <2>3 DEF IdOf
    <3>2. Resolves(c)'
      BY <3>1 DEF Resolves
    <3>3. Resolves(c)
      BY <3>1, <3>2, DeadStep
    <3>4. inv[p][s].state = "InTransaction" /\ c = IdOf(p, s)
      BY <1>1, <3>1, <3>3 DEF ClaimInv, ClaimsExclusive, ClaimsAreStamped
    <3>5. <<p, s>> \in Held(u)
      BY <3>1, <3>4, HeldIs
    <3> QED BY <2>3, <3>5
  <2> QED BY <2>2, <2>3
<1>4. Held(u) \subseteq Players \X Slots /\ Held(u)' \subseteq Players \X Slots
  BY DEF Held
<1>5. Held(u)' = Held(u)
  BY <1>3, <1>4
<1> QED BY <1>2, <1>4, <1>5

(* Two transactions hold nothing in common.                                 *)
LEMMA HeldApartNext ==
  ASSUME ClaimInv', NEW t \in Txs, NEW u \in Txs, t # u
  PROVE  Held(t)' \cap Held(u)' = {}
<1> SUFFICES ASSUME NEW x \in Held(t)', x \in Held(u)' PROVE FALSE
  OBVIOUS
<1> QED BY DEF Held, ClaimInv, ClaimsExclusive, OneHolder

(* While a handler runs, what others hold is what it was when it began.     *)
OthersSame ==
  \A u \in Txs : cpu # Idle /\ u # cpu =>
    \A x \in Held(u) : Contents[x[1]][x[2]] = base[x[1]][x[2]]

AtomicInv == RollbackInv /\ OthersSame

LEMMA OthersSameStep == RollbackInv /\ OthersSame /\ [Next]_vars => OthersSame'
<1> SUFFICES ASSUME RollbackInv, OthersSame, [Next]_vars PROVE OthersSame'
  OBVIOUS
<1>1. IInv /\ TypeOK /\ Idle \notin Txs
  BY ConstantsAssumption DEF RollbackInv, FitInv, IInv
<1>2. CASE UNCHANGED vars
  BY <1>2 DEF vars, OthersSame, Held, IdOf, Contents
<1>3. ASSUME cpu' = Idle PROVE OthersSame'
  BY <1>3 DEF OthersSame
<1>4. ASSUME NEW t \in Txs, Next, cpu = t, cpu' = t, base' = base, OthersKeepTheirs(t) PROVE OthersSame'
  <2> SUFFICES ASSUME NEW u \in Txs, u # t, NEW x \in Held(u)'
               PROVE  Contents'[x[1]][x[2]] = base[x[1]][x[2]]
    BY <1>4 DEF OthersSame
  <2>1. x \in Held(u) /\ inv'[x[1]][x[2]] = inv[x[1]][x[2]]
    BY <1>1, <1>4, OthersUntouched
  <2>2. Contents[x[1]][x[2]] = base[x[1]][x[2]]
    BY <1>1, <1>4, <2>1 DEF OthersSame
  <2>3. x[1] \in Players /\ x[2] \in Slots
    BY <2>1 DEF Held
  <2> QED BY <2>1, <2>2, <2>3 DEF Contents
<1>5. ASSUME NEW t \in Txs, Enter(t) PROVE OthersSame'
  <2>1. base' = Contents'
    BY <1>5 DEF Enter, Contents
  <2> QED BY <2>1 DEF OthersSame
<1>6. ASSUME NEW t \in Txs, Next, Work(t) \/ RunUndo(t) PROVE OthersSame'
  BY <1>1, <1>4, <1>6, WorkControl, RunUndoControl
<1>7. ASSUME NEW t \in Txs, Next, StartRollback(t) \/ UndoDone(t) PROVE OthersSame'
  <2>1. cpu = t /\ UNCHANGED <<cpu, base, claims>> /\ OthersKeepTheirs(t)
    BY <1>1, <1>7 DEF StartRollback, UndoDone, OthersKeepTheirs, TypeOK
  <2> QED BY <1>4, <1>7, <2>1
<1>8. ASSUME NEW t \in Txs, Commit(t) \/ FinishRollback(t) \/ Leave(t) PROVE OthersSame'
  BY <1>1, <1>3, <1>8, ClosedControl DEF Leave
<1>9. ASSUME NEW p \in Players, Elsewhere(p) PROVE OthersSame'
  BY <1>3, <1>9, ElsewhereControl
<1> QED BY <1>2, <1>5, <1>6, <1>7, <1>8, <1>9 DEF Next, Handler

LEMMA AtomicInvStep == AtomicInv /\ [Next]_vars => AtomicInv'
BY RollbackStep, OthersSameStep DEF AtomicInv

LEMMA InitAtomic == Init => AtomicInv /\ Atomic!Init
<1> SUFFICES ASSUME Init PROVE AtomicInv /\ Atomic!Init
  OBVIOUS
<1>1. RollbackInv /\ OthersSame
  BY InitRollback DEF Init, OthersSame
<1>2. Visible = [p \in Players |-> [s \in Slots |->
                   [kind |-> Loaded[p][s].kind, qty |-> Loaded[p][s].qty]]]
  BY DEF Init, Visible, Contents, RowOf
<1>3. [t \in Txs |-> Held(t)] = [t \in Txs |-> {}]
  <2>1. \A t \in Txs : Held(t) = {}
    BY DEF Init, Held
  <2> QED BY <2>1
<1>4. txState = [t \in Txs |-> "New"]
  BY DEF Init
<1> QED BY <1>1, <1>2, <1>3, <1>4 DEF AtomicInv, Atomic!Init

HeldMap == [t \in Txs |-> Held(t)]

(* What changes for the places a handler's step leaves to others.           *)
LEMMA HeldMapStep ==
  ASSUME AtomicInv, Next, IInv', NEW t \in Txs, cpu \in {t, Idle}, OthersKeepTheirs(t)
  PROVE  /\ HeldMap' = [HeldMap EXCEPT ![t] = HeldMap'[t]]
         /\ HeldMap'[t] \subseteq Atomic!Place \ Atomic!HeldByOthers(t)
         /\ \A x \in Atomic!HeldByOthers(t) :
              /\ x[1] \in Players /\ x[2] \in Slots
              /\ Contents'[x[1]][x[2]] = Contents[x[1]][x[2]]
              /\ cpu = t => Contents[x[1]][x[2]] = base[x[1]][x[2]]
<1>1. IInv /\ Idle \notin Txs /\ OthersSame /\ ClaimInv'
  BY ConstantsAssumption DEF AtomicInv, RollbackInv, FitInv, IInv
<1>2. \A u \in Txs : u # t => Held(u)' = Held(u)
  BY <1>1, OthersUntouched
<1>3. \A u \in Txs : u # t => Held(t)' \cap Held(u)' = {}
  BY <1>1, HeldApartNext
<1>4. HeldMap' = [HeldMap EXCEPT ![t] = HeldMap'[t]]
  BY <1>2 DEF HeldMap
<1>5. Atomic!HeldByOthers(t) = UNION {Held(u) : u \in Txs \ {t}}
  BY DEF Atomic!HeldByOthers
<1>6. HeldMap'[t] \subseteq Atomic!Place \ Atomic!HeldByOthers(t)
  <2> SUFFICES ASSUME NEW x \in Held(t)' PROVE x \in Players \X Slots /\ x \notin UNION {Held(u) : u \in Txs \ {t}}
    BY <1>5 DEF HeldMap, Atomic!Place
  <2>1. x \in Players \X Slots
    BY DEF Held
  <2> QED BY <1>2, <1>3, <2>1
<1>7. ASSUME NEW u \in Txs, u # t, NEW x \in Held(u)
      PROVE  /\ x[1] \in Players /\ x[2] \in Slots
             /\ Contents'[x[1]][x[2]] = Contents[x[1]][x[2]]
             /\ cpu = t => Contents[x[1]][x[2]] = base[x[1]][x[2]]
  <2>1. x[1] \in Players /\ x[2] \in Slots
    BY DEF Held
  <2>2. inv'[x[1]][x[2]] = inv[x[1]][x[2]]
    BY <1>1, <1>7, OthersUntouched
  <2>3. Contents'[x[1]][x[2]] = Contents[x[1]][x[2]]
    BY <2>1, <2>2 DEF Contents
  <2>4. cpu = t => Contents[x[1]][x[2]] = base[x[1]][x[2]]
    BY <1>1, <1>7 DEF OthersSame
  <2> QED BY <2>1, <2>3, <2>4
<1>8. \A x \in Atomic!HeldByOthers(t) :
        /\ x[1] \in Players /\ x[2] \in Slots
        /\ Contents'[x[1]][x[2]] = Contents[x[1]][x[2]]
        /\ cpu = t => Contents[x[1]][x[2]] = base[x[1]][x[2]]
  BY <1>5, <1>7
<1> QED BY <1>4, <1>6, <1>8

(* A step inside a handler reserves and releases, and shows no more.        *)
LEMMA ImplementsReserve ==
  ASSUME AtomicInv, Next, IInv', NEW t \in Txs, OthersKeepTheirs(t),
         cpu = t, UNCHANGED <<cpu, base, txState>>
  PROVE  Atomic!Reserve(t)
<1>1. txState[t] = "Open" /\ t # Idle
  BY ConstantsAssumption DEF AtomicInv, RollbackInv, FitInv, IInv, ClaimInv, OpenHold
<1>2. Visible' = Visible
  BY <1>1 DEF Visible
<1>3. /\ HeldMap' = [HeldMap EXCEPT ![t] = HeldMap'[t]]
      /\ HeldMap'[t] \subseteq Atomic!Place \ Atomic!HeldByOthers(t)
  BY HeldMapStep
<1> QED BY <1>1, <1>2, <1>3 DEF Atomic!Reserve, HeldMap

(* The end of a handler shows all it did, and nothing on others' places.    *)
LEMMA ShowsItsEffect ==
  ASSUME AtomicInv, Next, IInv', NEW t \in Txs, OthersKeepTheirs(t), cpu = t, cpu' = Idle
  PROVE  Atomic!TakeEffect(t)
<1>1. t # Idle /\ TypeOK'
  BY ConstantsAssumption DEF IInv
<1>2. Visible = base /\ Visible' = Contents'
  BY <1>1 DEF Visible
<1>3. Contents' \in [Players -> [Slots -> Row]]
  BY <1>1, NextContentsType
<1>4. \A x \in Atomic!HeldByOthers(t) : Contents'[x[1]][x[2]] = base[x[1]][x[2]]
  BY HeldMapStep
<1> QED BY <1>2, <1>3, <1>4 DEF Atomic!TakeEffect, Atomic!At, Atomic!Row, Row

LEMMA ImplementsStutter ==
  ASSUME UNCHANGED <<inv, claims, txState>>, Visible' = Visible
  PROVE  UNCHANGED Atomic!vars
BY DEF Held, IdOf, Atomic!vars

(* An open transaction takes up its work again: nothing seen from outside.  *)
LEMMA ImplementsEnter ==
  ASSUME TypeOK, NEW t \in Txs, Enter(t)
  PROVE  [Atomic!Next]_(Atomic!vars)
<1>1. cpu = Idle /\ cpu' = t /\ t # Idle /\ base' = Contents /\ UNCHANGED <<inv, claims>>
  BY ConstantsAssumption DEF Enter
<1>2. Visible' = Visible
  BY <1>1 DEF Visible
<1>3. CASE txState[t] = "New"
  <2>1. Atomic!Open(t)
    BY <1>1, <1>2, <1>3 DEF Enter, Atomic!Open, Held, IdOf
  <2> QED BY <2>1 DEF Atomic!Next
<1>4. CASE txState[t] = "Open"
  <2>1. txState' = txState
    BY <1>4 DEF Enter, TypeOK
  <2> QED BY <1>1, <1>2, <2>1, ImplementsStutter
<1> QED BY <1>3, <1>4 DEF Enter

LEMMA ImplementsLeave ==
  ASSUME AtomicInv, Next, IInv', NEW t \in Txs, Leave(t)
  PROVE  [Atomic!Next]_(Atomic!vars)
<1>1. /\ cpu = t /\ cpu' = Idle /\ t # Idle /\ UNCHANGED <<inv, claims, txState>>
      /\ OthersKeepTheirs(t) /\ TypeOK /\ txState[t] = "Open"
  BY ConstantsAssumption
     DEF Leave, OthersKeepTheirs, AtomicInv, RollbackInv, FitInv, IInv, ClaimInv, OpenHold
<1>2. CASE t \in Irreversible
  <2>1. /\ HeldMap' = [HeldMap EXCEPT ![t] = HeldMap'[t]]
        /\ HeldMap'[t] \subseteq Atomic!Place \ Atomic!HeldByOthers(t)
    BY <1>1, HeldMapStep
  <2>2. Atomic!TakeEffect(t)
    BY <1>1, ShowsItsEffect
  <2>3. Atomic!Advance(t)
    BY <1>1, <1>2, <2>1, <2>2 DEF Atomic!Advance, HeldMap
  <2> QED BY <2>3 DEF Atomic!Next
<1>3. CASE t \notin Irreversible
  <2>1. undos[t] = <<>> /\ phase = "work" /\ ~undoFailed
    BY <1>3 DEF Leave, AtomicInv, RollbackInv, Flow
  <2>2. LogInv(t)
    BY <1>1, <1>3, <2>1 DEF AtomicInv, RollbackInv, UndoInv
  <2>3. Contents = base
    BY <1>1, <2>1, <2>2, EmptyLog
  <2>4. Visible' = Visible
    BY <1>1, <2>3 DEF Visible, Contents
  <2> QED BY <1>1, <2>4, ImplementsStutter
<1> QED BY <1>2, <1>3

LEMMA ImplementsCommit ==
  ASSUME AtomicInv, Next, IInv', NEW t \in Txs, Commit(t)
  PROVE  [Atomic!Next]_(Atomic!vars)
<1>1. /\ cpu = t /\ cpu' = Idle /\ t # Idle /\ OthersKeepTheirs(t) /\ TypeOK /\ txState[t] = "Open"
      /\ claims' = [claims EXCEPT ![t] = {}] /\ txState' = [txState EXCEPT ![t] = "Committed"]
  BY ConstantsAssumption, ClosedControl
     DEF Commit, Closed, AtomicInv, RollbackInv, FitInv, IInv, ClaimInv, OpenHold
<1>2. HeldMap'[t] = {}
  BY <1>1 DEF HeldMap, Held, TypeOK
<1>3. HeldMap' = [HeldMap EXCEPT ![t] = {}]
  BY <1>1, <1>2, HeldMapStep
<1>4. Atomic!TakeEffect(t)
  BY <1>1, ShowsItsEffect
<1>5. Atomic!Commit(t)
  BY <1>1, <1>3, <1>4 DEF Atomic!Commit, HeldMap
<1> QED BY <1>5 DEF Atomic!Next

LEMMA ImplementsAbort ==
  ASSUME AtomicInv, Next, IInv', ~undoFailed, NEW t \in Txs, FinishRollback(t)
  PROVE  [Atomic!Next]_(Atomic!vars)
<1>1. /\ cpu = t /\ cpu' = Idle /\ t # Idle /\ OthersKeepTheirs(t) /\ TypeOK /\ txState[t] = "Open"
      /\ claims' = [claims EXCEPT ![t] = {}] /\ txState' = [txState EXCEPT ![t] = "RolledBack"]
  BY ConstantsAssumption, ClosedControl
     DEF FinishRollback, Closed, AtomicInv, RollbackInv, FitInv, IInv, ClaimInv, OpenHold
<1>2. HeldMap'[t] = {}
  BY <1>1 DEF HeldMap, Held, TypeOK
<1>3. HeldMap' = [HeldMap EXCEPT ![t] = {}]
  BY <1>1, <1>2, HeldMapStep
<1>4. Atomic!TakeEffect(t)
  BY <1>1, ShowsItsEffect
<1>5. ASSUME t \notin Irreversible PROVE Visible' = Visible
  <2>1. Contents = base
    BY <1>1, <1>5 DEF FinishRollback, AtomicInv, RollbackInv, UndoInv
  <2>2. Contents' = Contents
    BY StampsLeaveContents DEF AtomicInv, RollbackInv, IInv
  <2> QED BY <1>1, <2>1, <2>2 DEF Visible
<1>6. Atomic!Abort(t)
  BY <1>1, <1>3, <1>4, <1>5 DEF Atomic!Abort, HeldMap
<1> QED BY <1>6 DEF Atomic!Next

LEMMA ImplementsRearrange ==
  ASSUME AtomicInv, Next, IInv', NEW p \in Players, Elsewhere(p)
  PROVE  [Atomic!Next]_(Atomic!vars)
<1>1. cpu = Idle /\ UNCHANGED <<txState, claims, undos, cpu>> /\ IInv /\ TypeOK' /\ Idle \notin Txs
  BY ElsewhereControl, ConstantsAssumption DEF AtomicInv, RollbackInv, FitInv, IInv
<1>2. Visible = Contents /\ Visible' = Contents'
  BY <1>1 DEF Visible
<1>3. Contents' \in [Players -> [Slots -> Row]]
  BY <1>1, NextContentsType
<1>4. ASSUME NEW t \in Txs
      PROVE  /\ Held(t)' = Held(t)
             /\ \A x \in Held(t) : Contents'[x[1]][x[2]] = Contents[x[1]][x[2]]
  <2>1. /\ Held(t)' = Held(t)
        /\ \A x \in Held(t) : inv'[x[1]][x[2]] = inv[x[1]][x[2]]
    BY <1>1, OthersUntouched DEF OthersKeepTheirs
  <2>2. \A x \in Held(t) : x[1] \in Players /\ x[2] \in Slots
    BY DEF Held
  <2> QED BY <2>1, <2>2 DEF Contents
<1>5. HeldMap' = HeldMap
  BY <1>4 DEF HeldMap
<1>6. Atomic!Rearrange
  BY <1>1, <1>2, <1>3, <1>4, <1>5 DEF Atomic!Rearrange, Atomic!At, Atomic!Row, Row, HeldMap
<1> QED BY <1>6 DEF Atomic!Next

LEMMA AtomicStep ==
  AtomicInv /\ ~undoFailed /\ [Next]_vars => [Atomic!Next]_(Atomic!vars)
<1> SUFFICES ASSUME AtomicInv, ~undoFailed, [Next]_vars PROVE [Atomic!Next]_(Atomic!vars)
  OBVIOUS
<1>1. TypeOK /\ IInv'
  BY StepPreserves DEF AtomicInv, RollbackInv, FitInv, IInv
<1>2. CASE UNCHANGED vars
  <2>1. UNCHANGED <<inv, claims, txState>> /\ Visible' = Visible
    BY <1>2 DEF vars, Visible, Contents
  <2> QED BY <2>1, ImplementsStutter
<1>3. ASSUME NEW t \in Txs, Next, Work(t) \/ RunUndo(t) PROVE [Atomic!Next]_(Atomic!vars)
  <2>1. Atomic!Reserve(t)
    BY <1>1, <1>3, WorkControl, RunUndoControl, ImplementsReserve
  <2> QED BY <2>1 DEF Atomic!Next
<1>4. ASSUME NEW t \in Txs, StartRollback(t) \/ UndoDone(t) PROVE [Atomic!Next]_(Atomic!vars)
  <2>1. UNCHANGED <<inv, claims, txState, cpu, base>>
    BY <1>4 DEF StartRollback, UndoDone
  <2> QED BY <2>1, ImplementsStutter DEF Visible, Contents
<1>5. ASSUME NEW t \in Txs, Next, Handler(t) PROVE [Atomic!Next]_(Atomic!vars)
  BY <1>1, <1>3, <1>4, <1>5, ImplementsEnter, ImplementsLeave, ImplementsCommit, ImplementsAbort DEF Handler
<1>6. ASSUME NEW p \in Players, Next, Elsewhere(p) PROVE [Atomic!Next]_(Atomic!vars)
  BY <1>1, <1>6, ImplementsRearrange
<1> QED BY <1>2, <1>5, <1>6 DEF Next

(* As long as no undo of a rollback fails, the engine is AtomicInventory:   *)
(* a handler's transaction takes effect at once or not at all, and never    *)
(* on what another has reserved (Transaction::commit, Transaction::rollback *)
(* and reversible()).                                                       *)
THEOREM EngineIsAtomic == Spec /\ []~undoFailed => ImplementsAtomic
<1>1. Init => AtomicInv /\ Atomic!Init
  BY InitAtomic
<1>2. AtomicInv /\ [Next]_vars => AtomicInv'
  BY AtomicInvStep
<1>3. AtomicInv /\ ~undoFailed /\ [Next]_vars => [Atomic!Next]_(Atomic!vars)
  BY AtomicStep
<1> QED BY <1>1, <1>2, <1>3, PTL DEF Spec, ImplementsAtomic, Atomic!Spec

LEMMA NoFaultStep ==
  ASSUME MaxFaults = 0, TypeOK, ~undoFailed, [Next]_vars
  PROVE  ~undoFailed'
<1>1. ~(faults < MaxFaults)
  BY DEF TypeOK
<1>2. CASE UNCHANGED vars
  BY <1>2 DEF vars
<1>3. ASSUME NEW t \in Txs, Work(t) PROVE undoFailed' = undoFailed
  BY <1>3, WorkControl
<1>4. ASSUME NEW t \in Txs, RunUndo(t) PROVE undoFailed' = undoFailed
  <2>1. ~Write(FALSE)
    BY <1>1 DEF Write
  <2>2. ASSUME Refuse(t) \/ FailUndo(t) PROVE undoFailed' = undoFailed
    BY <2>1, <2>2 DEF Refuse, FailUndo
  <2>3. ASSUME NEW p, NEW s, NEW delta, UndoUpdate(t, p, s, delta) PROVE undoFailed' = undoFailed
    BY <2>2, <2>3 DEF UndoUpdate
  <2>4. ASSUME NEW p, NEW s, NEW k, NEW q, RestoreInto(t, p, s, k, q) PROVE undoFailed' = undoFailed
    BY <2>1, <2>4 DEF RestoreInto, InsertStack
  <2> QED BY <1>4, <2>2, <2>3, <2>4 DEF RunUndo, UndoDelta, UndoRestore
<1>5. ASSUME NEW t \in Txs, Commit(t) \/ FinishRollback(t) \/ Leave(t) \/ Enter(t) PROVE ~undoFailed'
  BY <1>5, ClosedControl DEF Leave, Forget, Enter
<1>6. ASSUME NEW t \in Txs, StartRollback(t) \/ UndoDone(t) PROVE undoFailed' = undoFailed
  BY <1>6 DEF StartRollback, UndoDone
<1>7. ASSUME NEW p \in Players, Elsewhere(p) PROVE undoFailed' = undoFailed
  BY <1>7, ElsewhereControl
<1>8. undoFailed' = undoFailed \/ ~undoFailed'
  BY <1>2, <1>3, <1>4, <1>5, <1>6, <1>7 DEF Next, Handler, vars
<1> QED BY <1>8, Zenon

(* In particular when every write lands.                                    *)
THEOREM AtomicWithoutFaults == ASSUME MaxFaults = 0 PROVE Spec => ImplementsAtomic
<1>1. Init => TypeOK /\ ~undoFailed
  BY InitIInv DEF Init, IInv
<1>2. TypeOK /\ ~undoFailed /\ [Next]_vars => ~undoFailed'
  BY NoFaultStep
<1> QED BY <1>1, <1>2, TypeCorrect, EngineIsAtomic, PTL DEF Spec

=============================================================================
