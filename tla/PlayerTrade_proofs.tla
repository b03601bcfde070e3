-------------------------- MODULE PlayerTrade_proofs --------------------------
(***************************************************************************)
(* Proofs about the trades between two players, for any number of players, *)
(* trades, window slots and purchases, and whichever writes fail:          *)
(*   - every step of a trade or a purchase is a step of the engine, so     *)
(*     what the engine's own proofs show holds of trades as well;          *)
(*   - every variable of the trades keeps its type;                        *)
(*   - both sides of an open trade find it, each through the other;        *)
(*   - what is staged in a window is held for it;                          *)
(*   - a trade that commits swaps what both sides had seen;                *)
(*   - no moment of a trade has less of anything than it began with.       *)
(***************************************************************************)
EXTENDS PlayerTrade, ItemTransaction_proofs, FiniteSums

USE DEF NoUid

(* What an occupied slot of a window holds: the id of a stack, which is     *)
(* never that of an empty place, and a quantity.                            *)
StackId   == [owner : Players, slot : Slots, uid : Nat \ {NoUid}, kind : Kinds]
StageType == {NoStage} \cup [item : StackId, qty : Nat \ {0}]

Ops   == {"none", "unstage", "stage", "leave", "exchange", "close"}
Job   == [op : Ops, side : 1..2, slot : Window, from : Slots, qty : Nat, leaver : Players \cup {Nobody}]
Steps == {"give", "take", "release"} \X (1..2) \X Window

TradeTyped ==
  /\ place \in [Players -> Targids \cup {Away}]
  /\ pending \in [Players -> [entity : Entity, initiator : BOOLEAN]]
  /\ sides \in [Txs -> [1..2 -> Entity]]
  /\ stage \in [Txs -> [1..2 -> [Window -> StageType]]]
  /\ accepted \in [Txs -> [1..2 -> BOOLEAN]]
  /\ job \in Job
  /\ todo \subseteq Steps

(* An open trade has two players, also while it closes.                     *)
SidesArePlayers ==
  \A t \in Trades : txState[t] = "Open" => \A i \in 1..2 : sides[t][i].id \in Players

(* Staging nothing is unstaging, and gil goes into the gil slot.            *)
JobFits ==
  /\ job.op = "stage" => job.qty # 0
  /\ job.op \in {"unstage", "stage"} => (job.slot = GilSlot <=> job.from = 0)

(* What an exchange has left to do, it does with stacks that are staged.    *)
TodoIsStaged ==
  todo # {} => /\ cpu \in Trades /\ job.op = "exchange"
               /\ \A x \in todo : Item(cpu, x[2], x[3]).uid # NoUid

TypedInv == TradeTyped /\ SidesArePlayers /\ JobFits /\ TodoIsStaged

-----------------------------------------------------------------------------
(* Types of the pieces                                                      *)

LEMMA PairType ==
  ASSUME NEW S, NEW a \in S, NEW b \in S
  PROVE  <<a, b>> \in [1..2 -> S] /\ <<a, b>>[1] = a /\ <<a, b>>[2] = b
OBVIOUS

LEMMA TradeConstants ==
  /\ Trades \subseteq Txs /\ Idle \notin Txs /\ Nobody \notin Players /\ Away \notin Targids
  /\ 0 \in Slots /\ GilSlot \in Window /\ Window \subseteq Nat
  /\ Restless \subseteq Players /\ Purchases \subseteq Txs /\ Purchases \cap Trades = {}
BY TradeAssumption, ConstantsAssumption DEF Slots, Window, GilSlot, Purchases

LEMMA EmptyTypes ==
  /\ NoEntity \in Entity /\ NoPending \in [entity : Entity, initiator : BOOLEAN]
  /\ NoStage \in StageType /\ EmptyWindow \in [Window -> StageType]
  /\ NoJob \in Job
  /\ NoEntity.id = Nobody /\ NoPending.entity = NoEntity /\ NoStage.item.uid = NoUid /\ NoStage.qty = 0
  /\ NoJob.leaver = Nobody /\ NoJob.op = "none"
<1>1. NoStage.item.uid = NoUid /\ NoStage.qty = 0
  BY DEF NoStage, NoItem
<1>2. NoJob \in Job
  BY TradeConstants DEF NoJob, Job, Ops, GilSlot
<1> QED BY <1>1, <1>2 DEF NoEntity, Entity, NoPending, StageType, EmptyWindow, NoJob

LEMMA StageTypes ==
  ASSUME NEW x \in StageType
  PROVE  /\ x.item \in ItemId \cup {NoItem} /\ x.qty \in Nat /\ x.item.uid \in Nat
         /\ x.item = NoItem <=> x.qty = 0
         /\ x.item.uid = NoUid <=> x = NoStage
         /\ x.item.uid # NoUid => x.item \in StackId /\ x.qty \in Nat \ {0}
<1>1. CASE x = NoStage
  BY <1>1 DEF NoStage, NoItem
<1>2. CASE x \in [item : StackId, qty : Nat \ {0}]
  <2>1. x.item \in StackId /\ x.qty \in Nat \ {0}
    BY <1>2
  <2>2. x.item.owner \in Players /\ NoItem.owner \notin Players /\ x.item.uid \in Nat \ {NoUid}
    BY <2>1, TradeConstants DEF StackId, NoItem
  <2>3. x.item \in ItemId
    BY <2>1 DEF StackId, ItemId
  <2> QED BY <2>1, <2>2, <2>3 DEF NoStage, NoItem
<1> QED BY <1>1, <1>2 DEF StageType

(* The types of a trade are those the runs check.                           *)
LEMMA TypedIsTypeOK == TradeTyped => TradeTypeOK
<1> SUFFICES ASSUME TradeTyped PROVE TradeTypeOK
  OBVIOUS
<1>1. ASSUME NEW t \in Txs, NEW i \in 1..2, NEW n \in Window
      PROVE  stage[t][i][n] \in StageType /\ sides[t][i] \in Entity /\ accepted[t][i] \in BOOLEAN
  BY DEF TradeTyped
<1>2. job.op \in Ops
  BY DEF TradeTyped, Job
<1>3. \A p \in Players : pending[p].entity \in Entity /\ pending[p].initiator \in BOOLEAN
  BY DEF TradeTyped
<1> QED
  BY <1>1, <1>2, <1>3, StageTypes DEF TradeTyped, TradeTypeOK, Ops

LEMMA FoundPlayers ==
  ASSUME TradeTyped, NEW p \in Players
  PROVE  /\ EntityOf(p) \in Entity
         /\ Partner(p) \in Players \cup {Nobody}
         /\ Partner(p) # Nobody => /\ pending[p].entity.id = Partner(p)
                                   /\ pending[Partner(p)].entity.id = p
         /\ \A t : SideOf(t, p) \in 1..2
         /\ \A t \in ActiveTrade(p) : t \in Trades /\ txState[t] = "Open"
<1>1. pending[p].entity.id \in Players \cup {Nobody}
  BY DEF TradeTyped, Entity
<1>2. EntityOf(p) \in Entity
  BY DEF TradeTyped, Entity, EntityOf
<1>3. \A t : SideOf(t, p) \in 1..2
  BY DEF SideOf
<1>4. \A t \in ActiveTrade(p) : t \in Trades /\ txState[t] = "Open"
  BY DEF ActiveTrade, Local
<1> QED BY <1>1, <1>2, <1>3, <1>4 DEF Partner, Resolved

-----------------------------------------------------------------------------
(* Every step of a trade is a step of the engine                            *)

(* More than a stack holds never lands: it is as if a full stack was given. *)
LEMMA CutOff ==
  ASSUME NEW k \in Kinds, NEW q \in Nat \ {0}, NEW n \in Nat
  PROVE  \E m \in 1..StackSize[k] :
           /\ Lesser(q, StackSize[k]) = Lesser(m, StackSize[k])
           /\ Lesser(n + q, StackSize[k]) = Lesser(n + m, StackSize[k])
           /\ n + q >= 0 /\ n + m >= 0
<1>1. StackSize[k] \in Nat \ {0}
  BY ConstantsAssumption
<1> QED BY <1>1 DEF Lesser

LEMMA GiveIsWork ==
  ASSUME NEW t \in Txs, NEW p \in Players, NEW k \in Kinds, NEW q \in Nat \ {0}, NEW ok \in BOOLEAN,
         Give(t, p, k, q, ok)
  PROVE  Work(t)
<1>1. PICK m \in 1..StackSize[k] : Lesser(q, StackSize[k]) = Lesser(m, StackSize[k])
  BY CutOff, 0 \in Nat
<1>2. Give(t, p, k, m, ok)
  BY <1>1 DEF Give
<1> QED BY <1>1, <1>2 DEF Work

LEMMA GrowIsWork ==
  ASSUME FitInv, NEW t \in Txs, NEW p \in Players, NEW s \in Slots, NEW q \in Nat \ {0}, NEW ok \in BOOLEAN,
         Grow(t, p, s, q, ok)
  PROVE  Work(t)
<1>1. Occupied(p, s) /\ inv[p][s].kind \in Kinds /\ inv[p][s].qty \in Nat
  BY DEF Grow, CanUpdate, FitInv, IInv, ClaimInv, StacksHaveKinds, Occupied, TypeOK, Stack
<1>2. PICK m \in 1..StackSize[inv[p][s].kind] :
         /\ Lesser(inv[p][s].qty + q, StackSize[inv[p][s].kind]) = Lesser(inv[p][s].qty + m, StackSize[inv[p][s].kind])
         /\ inv[p][s].qty + m >= 0
  BY <1>1, CutOff
<1>3. Updated(p, s, q) = Updated(p, s, m)
  BY <1>2 DEF Updated
<1>4. CanUpdate(t, p, s, m)
  BY <1>1, <1>2 DEF Grow, CanUpdate
<1>5. UpdateStack(p, s, m, ok)
  BY <1>3 DEF Grow, UpdateStack
<1>6. Grow(t, p, s, m, ok)
  BY <1>3, <1>4, <1>5 DEF Grow
<1> QED BY <1>1, <1>2, <1>6 DEF Work

LEMMA TakeIsWork ==
  ASSUME FitInv, NEW t \in Txs, NEW p \in Players, NEW s \in Slots, NEW q \in Nat \ {0}, NEW ok \in BOOLEAN,
         Take(t, p, s, q, ok)
  PROVE  Work(t)
<1>1. Occupied(p, s) /\ inv[p][s].kind \in Kinds /\ inv[p][s].qty \in Nat
  BY DEF Take, CanUpdate, FitInv, IInv, ClaimInv, StacksHaveKinds, Occupied, TypeOK, Stack
<1>2. inv[p][s].qty <= StackSize[inv[p][s].kind] /\ StackSize[inv[p][s].kind] \in Nat
  BY <1>1, ConstantsAssumption DEF FitInv, StacksFit, Fits, Occupied
<1>3. inv[p][s].qty + (-q) >= 0
  BY DEF Take, CanUpdate
<1>4. q \in 1..StackSize[inv[p][s].kind]
  BY <1>1, <1>2, <1>3
<1> QED BY <1>1, <1>4 DEF Work

(* A stack that is staged, and who staged it and who is to have it.         *)
LEMMA StagedItem ==
  ASSUME TypedInv, NEW t \in Trades, txState[t] = "Open", NEW i \in 1..2, NEW n \in Window
  PROVE  /\ stage[t][i][n] \in StageType
         /\ sides[t][i].id \in Players /\ sides[t][Other(i)].id \in Players
         /\ Item(t, i, n).uid # NoUid =>
              /\ Item(t, i, n) \in StackId
              /\ Item(t, i, n).owner \in Players /\ Item(t, i, n).slot \in Slots /\ Item(t, i, n).kind \in Kinds
              /\ stage[t][i][n].qty \in Nat \ {0}
<1>1. Other(i) \in 1..2 /\ t \in Txs
  BY TradeConstants DEF Other
<1>2. stage[t][i][n] \in StageType
  BY <1>1 DEF TypedInv, TradeTyped
<1>3. sides[t][i].id \in Players /\ sides[t][Other(i)].id \in Players
  BY <1>1 DEF TypedInv, SidesArePlayers
<1> QED BY <1>2, <1>3, StageTypes DEF Item, StackId

LEMMA ReleaseIsWork ==
  ASSUME NEW t \in Txs, NEW i, NEW n, ReleaseSlot(t, i, n)
  PROVE  Work(t) \/ UNCHANGED vars
<1>1. CASE Item(t, i, n) \in claims[t]
  BY <1>1 DEF ReleaseSlot, Work
<1> QED BY <1>1 DEF ReleaseSlot, UnchangedEngine

LEMMA StagingIsWork ==
  ASSUME FitInv, TypedInv, NEW t \in Trades, SetSlotUnstages(t) \/ SetSlotStages(t)
  PROVE  Work(t) \/ UNCHANGED vars
<1>1. t \in Txs /\ cpu = t /\ txState[t] = "Open" /\ job.side \in 1..2 /\ job.from \in Slots
  BY TradeConstants DEF SetSlotUnstages, SetSlotStages, FitInv, IInv, ClaimInv, OpenHold, TypedInv, TradeTyped, Job
<1>2. ASSUME Claim(t, sides[t][job.side].id, job.from) PROVE Work(t)
  BY <1>1, <1>2 DEF TypedInv, SidesArePlayers, Work
<1> QED BY <1>1, <1>2, ReleaseIsWork DEF SetSlotUnstages, SetSlotStages, UnchangedEngine

LEMMA ExchangeIsWork ==
  ASSUME FitInv, TypedInv, NEW t \in Trades, ExchangeStep(t)
  PROVE  Work(t) \/ UNCHANGED vars
<1>1. t \in Txs /\ cpu = t /\ txState[t] = "Open" /\ 0 \in Slots
  BY TradeConstants DEF ExchangeStep, FitInv, IInv, ClaimInv, OpenHold
<1>2. PICK x \in todo : \/ x[1] = "give" /\ DeliverSlot(t, x)
                        \/ x[1] = "take" /\ ConsumeSlot(t, x)
                        \/ x[1] = "release" /\ ReleaseSlot(t, x[2], x[3])
  BY DEF ExchangeStep
<1> DEFINE i == x[2]
           n == x[3]
           c == Item(t, i, n)
           q == stage[t][i][n].qty
<1>3. i \in 1..2 /\ n \in Window /\ c.uid # NoUid
  BY <1>1 DEF TypedInv, TradeTyped, TodoIsStaged, Steps
<1>4. /\ c.owner \in Players /\ c.slot \in Slots /\ c.kind \in Kinds /\ q \in Nat \ {0}
      /\ sides[t][Other(i)].id \in Players
  BY <1>1, <1>3, StagedItem
<1> HIDE DEF i, n, c, q
<1>5. CASE DeliverSlot(t, x)
  <2>1. \/ UnchangedEngine
        \/ \E ok \in BOOLEAN : \/ Give(t, sides[t][Other(i)].id, c.kind, q, ok)
                               \/ Grow(t, sides[t][Other(i)].id, 0, q, ok)
    BY <1>5 DEF DeliverSlot, i, n, c, q
  <2> QED BY <1>1, <1>4, <2>1, GiveIsWork, GrowIsWork DEF UnchangedEngine
<1>6. CASE ConsumeSlot(t, x)
  <2>1. UnchangedEngine \/ \E ok \in BOOLEAN : Take(t, c.owner, c.slot, q, ok)
    BY <1>6 DEF ConsumeSlot, i, n, c, q
  <2> QED BY <1>1, <1>4, <2>1, TakeIsWork DEF UnchangedEngine
<1> QED BY <1>1, <1>2, <1>5, <1>6, ReleaseIsWork

LEMMA PurchaseIsHandler ==
  ASSUME FitInv, NEW t \in Txs, NEW p \in Restless, Purchase(t, p)
  PROVE  t \in Purchases /\ Handler(t) /\ UNCHANGED tradeVars
         /\ (Enter(t) \/ Work(t) \/ Commit(t))
<1>1. p \in Players /\ 0 \in Slots
  BY TradeConstants
<1>2. ASSUME Take(t, p, 0, 1, TRUE) PROVE Work(t)
  <2>1. 1 \in Nat \ {0} /\ TRUE \in BOOLEAN
    OBVIOUS
  <2>2. \A s \in Slots, q \in Nat \ {0}, ok \in BOOLEAN : Take(t, p, s, q, ok) => Work(t)
    BY <1>1, TakeIsWork
  <2> QED BY <1>1, <1>2, <2>1, <2>2
<1> QED BY <1>2 DEF Purchase, Handler

LEMMA HandshakeIsEngine ==
  ASSUME TypedInv, Handshake
  PROVE  UNCHANGED vars \/ \E t \in Trades : Enter(t)
<1> USE DEF UnchangedEngine
<1>1. ASSUME NEW p \in Players, NEW t \in ActiveTrade(p) PROVE t \in Trades
  BY FoundPlayers DEF TypedInv
<1>2. ASSUME NEW p \in Players, NEW q \in Players, NEW aged \in BOOLEAN, Request(p, q, aged) PROVE UNCHANGED vars
  BY <1>2 DEF Request
<1>3. ASSUME NEW p \in Players, NEW t \in Trades, NEW near \in BOOLEAN, StartTrade(p, t, near)
      PROVE  UNCHANGED vars \/ Enter(t)
  BY <1>3 DEF StartTrade
<1>4. ASSUME NEW p \in Players, CancelTrade(p) \/ LeaveZone(p)
      PROVE  UNCHANGED vars \/ \E t \in Trades : Enter(t)
  BY <1>1, <1>4 DEF CancelTrade, LeaveZone, Abort
<1>5. ASSUME NEW p \in Players, NEW a \in Targids, EnterZone(p, a) PROVE UNCHANGED vars
  BY <1>5 DEF EnterZone
<1> QED BY <1>2, <1>3, <1>4, <1>5 DEF Handshake

(* A handler of the engine runs, or nothing of the engine changes.          *)
EngineMove == UNCHANGED vars \/ (\E t \in Txs : Handler(t)) \/ (\E p \in Players : Elsewhere(p))

LEMMA TradeMoves ==
  ASSUME FitInv, TypedInv, TradeNext
  PROVE  EngineMove
<1>0. Trades \subseteq Txs /\ Restless \subseteq Players
  BY TradeConstants
<1>1. ASSUME NEW t \in Txs, Work(t) \/ UNCHANGED vars PROVE EngineMove
  BY <1>1 DEF EngineMove, Handler
<1>2. ASSUME NEW t \in Txs, Enter(t) \/ Leave(t) \/ Commit(t) \/ StartRollback(t) \/ RunUndo(t) \/ UndoDone(t) \/ FinishRollback(t)
      PROVE  EngineMove
  BY <1>2 DEF EngineMove, Handler
<1>3. CASE Handshake
  <2>1. UNCHANGED vars \/ \E t \in Trades : Enter(t)
    BY <1>3, HandshakeIsEngine
  <2> QED BY <1>0, <1>2, <2>1 DEF EngineMove
<1>4. CASE Staging
  <2>1. PICK t \in Trades : \/ \E p \in Players, n \in Window, s \in Slots : \E q \in 0..inv[p][s].qty : SetSlot(p, t, n, s, q)
                            \/ SetSlotUnstages(t) \/ SetSlotStages(t) \/ LeaveTrade(t)
    BY <1>4 DEF Staging
  <2>2. t \in Txs
    BY <1>0
  <2>3. ASSUME NEW p, NEW n, NEW s, NEW q, SetSlot(p, t, n, s, q) PROVE Enter(t)
    BY <2>3 DEF SetSlot
  <2>4. LeaveTrade(t) => Leave(t)
    BY DEF LeaveTrade
  <2>5. SetSlotUnstages(t) \/ SetSlotStages(t) => Work(t) \/ UNCHANGED vars
    BY StagingIsWork
  <2> QED BY <1>1, <1>2, <2>1, <2>2, <2>3, <2>4, <2>5
<1>5. CASE Exchanging
  <2>1. PICK t \in Trades : \/ \E p \in Players, near \in BOOLEAN : Make(p, t, near)
                            \/ ExchangeStep(t) \/ CommitTrade(t) \/ RollBackTrade(t)
    BY <1>5 DEF Exchanging
  <2>2. t \in Txs
    BY <1>0
  <2>3. ASSUME NEW p, NEW near, Make(p, t, near) PROVE Enter(t)
    BY <2>3 DEF Make
  <2>4. CommitTrade(t) => Commit(t)
    BY DEF CommitTrade
  <2>5. RollBackTrade(t) => StartRollback(t) \/ RunUndo(t) \/ UndoDone(t) \/ FinishRollback(t)
    BY DEF RollBackTrade
  <2>6. ExchangeStep(t) => Work(t) \/ UNCHANGED vars
    BY ExchangeIsWork
  <2> QED BY <1>1, <1>2, <2>1, <2>2, <2>3, <2>4, <2>5, <2>6
<1>6. ASSUME NEW t \in Txs, NEW p \in Restless, Purchase(t, p) PROVE EngineMove
  BY <1>6, PurchaseIsHandler DEF EngineMove
<1>7. ASSUME NEW p \in Restless, Elsewhere(p) PROVE EngineMove
  BY <1>0, <1>7 DEF EngineMove
<1> QED BY <1>3, <1>4, <1>5, <1>6, <1>7 DEF TradeNext

LEMMA EngineStep == FitInv /\ TypedInv /\ [TradeNext]_allVars => [Next]_vars
<1>1. UNCHANGED allVars => UNCHANGED vars
  BY DEF allVars
<1> QED BY <1>1, TradeMoves DEF EngineMove, Next

-----------------------------------------------------------------------------
(* Trades keep their types                                                  *)

LEMMA EnterEffect ==
  ASSUME TypeOK, NEW t \in Txs, Enter(t)
  PROVE  /\ cpu = Idle /\ cpu' = t /\ UNCHANGED <<inv, claims>>
         /\ txState[t] \in {"New", "Open"} /\ txState'[t] = "Open"
         /\ \A u \in Txs \ {t} : txState'[u] = txState[u]
BY DEF Enter, TypeOK

LEMMA ClosedEffect ==
  ASSUME TypeOK, NEW t \in Txs, Commit(t) \/ FinishRollback(t)
  PROVE  /\ cpu = t /\ cpu' = Idle /\ txState'[t] \notin {"New", "Open"}
         /\ \A u \in Txs \ {t} : txState'[u] = txState[u]
BY DEF Commit, FinishRollback, Closed, TypeOK

LEMMA NothingToDo ==
  ASSUME TypedInv, cpu = Idle \/ cpu \notin Trades \/ job.op # "exchange"
  PROVE  todo = {}
BY TradeConstants DEF TypedInv, TodoIsStaged

(* No step but the accepting of a request opens a trade.                    *)
NoneOpens == \A u \in Trades : txState'[u] = "Open" => txState[u] = "Open"

LEMMA ActiveStaysOpen ==
  ASSUME TypeOK, TradeTyped, NEW p \in Players, NEW t \in ActiveTrade(p), Enter(t)
  PROVE  NoneOpens /\ UNCHANGED txState /\ t \in Trades /\ t \in Txs
<1>1. t \in Trades /\ t \in Txs /\ txState[t] = "Open"
  BY FoundPlayers, TradeConstants
<1> QED BY <1>1 DEF Enter, TypeOK, NoneOpens

LEMMA TypedFrom ==
  ASSUME TypedInv, TradeTyped', JobFits', TodoIsStaged', NoneOpens, UNCHANGED sides
  PROVE  TypedInv'
BY DEF TypedInv, SidesArePlayers, NoneOpens

LEMMA RequestTyped ==
  ASSUME FitInv, TypedInv, NEW p \in Players, NEW q \in Players, NEW aged \in BOOLEAN, Request(p, q, aged)
  PROVE  TypedInv'
<1>1. UNCHANGED <<place, sides, stage, accepted, job, todo, txState, cpu>> /\ todo = {}
  BY NothingToDo DEF Request, UnchangedEngine, vars
<1>2. pending' \in [Players -> [entity : Entity, initiator : BOOLEAN]]
  BY FoundPlayers, EmptyTypes DEF Request, TypedInv, TradeTyped
<1> QED BY <1>1, <1>2, TypedFrom DEF TypedInv, TradeTyped, JobFits, TodoIsStaged, NoneOpens

LEMMA StartTradeTyped ==
  ASSUME FitInv, TypedInv, NEW p \in Players, NEW t \in Trades, NEW near \in BOOLEAN, StartTrade(p, t, near)
  PROVE  TypedInv'
<1>0. TypeOK /\ TradeTyped /\ t \in Txs
  BY TradeConstants DEF FitInv, IInv, TypedInv
<1>1. PICK q \in Players : q = Partner(p)
  BY <1>0, FoundPlayers DEF StartTrade
<1>2. UNCHANGED <<place, stage, accepted, todo>> /\ cpu = Idle /\ todo = {}
  BY NothingToDo DEF StartTrade, Enter
<1>3. CASE Enter(t) /\ sides' = [sides EXCEPT ![t] = <<EntityOf(p), EntityOf(q)>>] /\ UNCHANGED pending
           /\ job' = [NoJob EXCEPT !.op = "leave"]
  <2>1. <<EntityOf(p), EntityOf(q)>> \in [1..2 -> Entity]
    BY <1>0, FoundPlayers, PairType
  <2>2. TradeTyped'
    BY <1>0, <1>2, <1>3, <2>1, EmptyTypes DEF TradeTyped, Job, Ops
  <2>3. JobFits' /\ TodoIsStaged'
    BY <1>2, <1>3, EmptyTypes DEF JobFits, TodoIsStaged, NoJob
  <2>4. \A i \in 1..2 : sides'[t][i].id \in Players
    BY <1>0, <1>3 DEF TradeTyped, EntityOf
  <2>5. \A u \in Trades \ {t} : txState'[u] = txState[u] /\ sides'[u] = sides[u]
    BY <1>0, <1>3, EnterEffect, TradeConstants DEF TradeTyped
  <2> QED BY <2>2, <2>3, <2>4, <2>5 DEF TypedInv, SidesArePlayers
<1>4. CASE pending' = [pending EXCEPT ![p] = NoPending, ![q] = NoPending] /\ UNCHANGED <<sides, job>> /\ UnchangedEngine
  <2>1. UNCHANGED <<txState, cpu>>
    BY <1>4 DEF UnchangedEngine, vars
  <2>2. pending' \in [Players -> [entity : Entity, initiator : BOOLEAN]]
    BY <1>0, <1>4, EmptyTypes DEF TradeTyped
  <2> QED BY <1>2, <1>4, <2>1, <2>2, TypedFrom DEF TypedInv, TradeTyped, JobFits, TodoIsStaged, NoneOpens
<1> QED BY <1>1, <1>3, <1>4 DEF StartTrade

LEMMA CleanedType ==
  ASSUME TradeTyped, NEW t
  PROVE  Cleaned(t) \in [Players -> [entity : Entity, initiator : BOOLEAN]]
BY EmptyTypes DEF Cleaned, TradeTyped

LEMMA AbortTyped ==
  ASSUME FitInv, TypedInv, NEW p \in Players, NEW t \in ActiveTrade(p), NEW q \in Players \cup {Nobody}, Abort(t, q)
  PROVE  TypedInv'
<1>0. TypeOK /\ TradeTyped
  BY DEF FitInv, IInv, TypedInv
<1>1. UNCHANGED <<place, sides, stage, accepted, todo>> /\ todo = {} /\ NoneOpens
  BY <1>0, NothingToDo, ActiveStaysOpen DEF Abort, Enter
<1>2. job' \in Job /\ job'.op = "close"
  BY EmptyTypes DEF Abort, Job, Ops
<1>3. TradeTyped'
  BY <1>0, <1>1, <1>2, CleanedType DEF TradeTyped, Abort
<1> QED BY <1>1, <1>2, <1>3, TypedFrom DEF JobFits, TodoIsStaged

LEMMA ClosingTyped ==
  ASSUME FitInv, TypedInv, NEW p \in Players, CancelTrade(p) \/ LeaveZone(p)
  PROVE  TypedInv'
<1>1. ASSUME NEW t \in ActiveTrade(p), Abort(t, Nobody) \/ Abort(t, p) PROVE TypedInv'
  BY <1>1, AbortTyped
<1>2. ASSUME cpu = Idle, UNCHANGED <<sides, stage, accepted, job, todo>>, UnchangedEngine,
             pending' \in [Players -> [entity : Entity, initiator : BOOLEAN]],
             place' \in [Players -> Targids \cup {Away}]
      PROVE  TypedInv'
  BY <1>2, NothingToDo, TypedFrom
     DEF TypedInv, TradeTyped, JobFits, TodoIsStaged, NoneOpens, UnchangedEngine, vars
<1>3. Partner(p) \in Players \cup {Nobody}
  BY FoundPlayers DEF TypedInv
<1>4. ASSUME pending' = [pending EXCEPT ![p] = NoPending, ![Partner(p)] = NoPending]
                \/ pending' = [pending EXCEPT ![p] = NoPending]
      PROVE  pending' \in [Players -> [entity : Entity, initiator : BOOLEAN]]
  BY <1>3, <1>4, EmptyTypes DEF TypedInv, TradeTyped
<1>5. ASSUME place' = [place EXCEPT ![p] = Away] \/ place' = place
      PROVE  place' \in [Players -> Targids \cup {Away}]
  BY <1>5 DEF TypedInv, TradeTyped
<1> QED BY <1>1, <1>2, <1>4, <1>5 DEF CancelTrade, LeaveZone

LEMMA EnterZoneTyped ==
  ASSUME TypedInv, NEW p \in Players, NEW a \in Targids, EnterZone(p, a)
  PROVE  TypedInv'
<1>1. UNCHANGED <<pending, sides, stage, accepted, job, todo, txState, cpu>> /\ todo = {}
  BY NothingToDo DEF EnterZone, UnchangedEngine, vars
<1>2. place' \in [Players -> Targids \cup {Away}]
  BY DEF EnterZone, TypedInv, TradeTyped
<1> QED BY <1>1, <1>2, TypedFrom DEF TypedInv, TradeTyped, JobFits, TodoIsStaged, NoneOpens

LEMMA SetSlotTyped ==
  ASSUME FitInv, TypedInv, NEW p \in Players, NEW t \in Trades, NEW n \in Window, NEW s \in Slots,
         NEW q \in Nat, SetSlot(p, t, n, s, q)
  PROVE  TypedInv'
<1>0. TypeOK /\ TradeTyped /\ t \in ActiveTrade(p) /\ Enter(t)
  BY DEF FitInv, IInv, TypedInv, SetSlot
<1>1. UNCHANGED <<place, pending, sides, stage, todo>> /\ todo = {} /\ NoneOpens
  BY <1>0, NothingToDo, ActiveStaysOpen DEF SetSlot, Enter
<1>2. job' \in Job /\ job'.op = "unstage" /\ (job'.slot = GilSlot <=> job'.from = 0)
  BY <1>0, FoundPlayers DEF SetSlot, Job, Ops
<1>3. accepted' \in [Txs -> [1..2 -> BOOLEAN]]
  <2>1. <<FALSE, FALSE>> \in [1..2 -> BOOLEAN]
    BY PairType
  <2> QED BY <1>0, <2>1 DEF SetSlot, TradeTyped
<1> QED BY <1>0, <1>1, <1>2, <1>3, TypedFrom DEF JobFits, TodoIsStaged, TradeTyped

(* A slot of a window is emptied, or gets a stack.                          *)
SlotBecomes(t, i, n, x) ==
  /\ stage' \in [Txs -> [1..2 -> [Window -> StageType]]]
  /\ stage'[t][i][n] = x
  /\ \A u \in Txs, j \in 1..2, m \in Window :
       u # t \/ j # i \/ m # n => stage'[u][j][m] = stage[u][j][m]

LEMMA StageChange ==
  ASSUME TradeTyped, NEW t \in Txs, NEW i \in 1..2, NEW n \in Window, NEW x \in StageType,
         stage' = [stage EXCEPT ![t][i][n] = x]
  PROVE  SlotBecomes(t, i, n, x)
BY DEF TradeTyped, SlotBecomes

LEMMA UnstagedChange ==
  ASSUME TradeTyped, NEW t \in Txs, NEW i \in 1..2, NEW n \in Window, Unstaged(t, i, n)
  PROVE  SlotBecomes(t, i, n, NoStage)
BY EmptyTypes, StageChange DEF Unstaged

(* What a handler of one trade leaves alone while it stages or exchanges.   *)
LEMMA WorkLeaves ==
  ASSUME FitInv, NEW t \in Txs, Work(t) \/ UNCHANGED vars
  PROVE  UNCHANGED <<txState, cpu>> /\ NoneOpens
<1>1. TypeOK
  BY DEF FitInv, IInv
<1>2. UNCHANGED <<txState, cpu>>
  BY <1>1, WorkControl DEF vars
<1> QED BY <1>2 DEF NoneOpens

LEMMA StagingTyped ==
  ASSUME FitInv, TypedInv, NEW t \in Trades, SetSlotUnstages(t) \/ SetSlotStages(t)
  PROVE  TypedInv'
<1>0. TradeTyped /\ t \in Txs /\ cpu = t /\ txState[t] = "Open" /\ job.side \in 1..2 /\ job.slot \in Window
      /\ job.from \in Slots /\ job.qty \in Nat
  BY TradeConstants DEF SetSlotUnstages, SetSlotStages, FitInv, IInv, ClaimInv, OpenHold, TypedInv, TradeTyped, Job
<1>1. UNCHANGED <<place, pending, sides, accepted, todo>> /\ todo = {}
  BY NothingToDo DEF SetSlotUnstages, SetSlotStages
<1>2. NoneOpens
  BY <1>0, StagingIsWork, WorkLeaves
<1>3. job' \in Job /\ job'.op \in {"leave", "stage"} /\ job'.slot = job.slot /\ job'.from = job.from /\ job'.qty = job.qty
      /\ (job'.op = "stage" => job.op = "unstage" /\ job.qty # 0)
  <2>1. job' = [job EXCEPT !.op = "leave"] \/ (job' = [job EXCEPT !.op = "stage"] /\ job.qty # 0 /\ job.op = "unstage")
    BY DEF SetSlotUnstages, SetSlotStages
  <2> QED BY <1>0, <2>1 DEF TradeTyped, Job, Ops
<1>4. JobFits'
  BY <1>3 DEF JobFits, TypedInv
<1>5. stage' \in [Txs -> [1..2 -> [Window -> StageType]]]
  <2>1. ASSUME NEW n \in Window, Unstaged(t, job.side, n) PROVE stage' \in [Txs -> [1..2 -> [Window -> StageType]]]
    BY <1>0, <2>1, UnstagedChange DEF SlotBecomes
  <2>2. ASSUME Stageable(t, job.from, job.qty), job.op = "stage",
               stage' = [stage EXCEPT ![t][job.side][job.slot] =
                           [item |-> IdOf(sides[t][job.side].id, job.from), qty |-> job.qty]]
        PROVE  stage' \in [Txs -> [1..2 -> [Window -> StageType]]]
    <3> PICK p : p = sides[t][job.side].id
      OBVIOUS
    <3>1. p \in Players /\ job.qty \in Nat \ {0}
      BY <1>0, <2>2 DEF TypedInv, SidesArePlayers, JobFits
    <3>2. inv[p][job.from].uid \in Nat \ {NoUid} /\ inv[p][job.from].kind \in Kinds
      BY <1>0, <2>2, <3>1 DEF Stageable, Occupied, FitInv, IInv, TypeOK, ClaimInv, StacksHaveKinds, Stack
    <3>3. [item |-> IdOf(p, job.from), qty |-> job.qty] \in StageType
      BY <1>0, <3>1, <3>2 DEF StageType, StackId, IdOf
    <3> QED BY <1>0, <2>2, <3>3, StageChange DEF SlotBecomes
  <2> QED BY <1>0, <2>1, <2>2 DEF SetSlotUnstages, SetSlotStages, ReleaseSlot, Twice, Staged, TradeTyped
<1>6. TodoIsStaged'
  BY <1>1 DEF TodoIsStaged
<1>7. TradeTyped'
  BY <1>0, <1>1, <1>3, <1>5 DEF TradeTyped
<1> QED BY <1>1, <1>2, <1>4, <1>6, <1>7, TypedFrom

LEMMA LeaveTradeTyped ==
  ASSUME FitInv, TypedInv, NEW t \in Trades, LeaveTrade(t)
  PROVE  TypedInv'
<1>1. UNCHANGED <<place, pending, sides, stage, accepted, todo, txState>> /\ todo = {} /\ job' = NoJob
  BY NothingToDo DEF LeaveTrade, Leave
<1> QED BY <1>1, EmptyTypes, TypedFrom DEF TypedInv, TradeTyped, JobFits, TodoIsStaged, NoneOpens

LEMMA MakeTyped ==
  ASSUME FitInv, TypedInv, NEW p \in Players, NEW t \in Trades, NEW near \in BOOLEAN, Make(p, t, near)
  PROVE  TypedInv'
<1>0. TypeOK /\ TradeTyped /\ t \in ActiveTrade(p) /\ Enter(t) /\ SideOf(t, p) \in 1..2 /\ t \in Txs
  BY FoundPlayers, TradeConstants DEF FitInv, IInv, TypedInv, Make
<1>1. UNCHANGED <<place, pending, sides, stage>> /\ NoneOpens /\ cpu' = t
  BY <1>0, NothingToDo, ActiveStaysOpen DEF Make, Enter
<1>2. /\ job' \in {[NoJob EXCEPT !.op = "leave"], [NoJob EXCEPT !.op = "close"], [NoJob EXCEPT !.op = "exchange"]}
      /\ todo' = {} \/ (todo' = Exchange(t) /\ job' = [NoJob EXCEPT !.op = "exchange"])
  BY DEF Make
<1>3. job' \in Job /\ job'.op \in {"leave", "close", "exchange"}
      /\ (todo' = {} \/ (todo' = Exchange(t) /\ job'.op = "exchange"))
  BY <1>2, EmptyTypes DEF Job, Ops
<1>4. accepted' \in [Txs -> [1..2 -> BOOLEAN]]
  BY <1>0 DEF Make, TradeTyped
<1>5. \A x \in Exchange(t) : x \in Steps /\ x[3] \in Staged(t, x[2])
  BY DEF Exchange, Deliveries, Consumptions, Steps, Staged
<1>6. TodoIsStaged'
  BY <1>1, <1>3, <1>5 DEF TodoIsStaged, Staged, Item
<1>7. TradeTyped' /\ JobFits'
  BY <1>0, <1>1, <1>3, <1>4, <1>5 DEF TradeTyped, JobFits
<1> QED BY <1>1, <1>6, <1>7, TypedFrom

(* A stack is given, then taken, then released: while something is to be    *)
(* done with a stack it is staged.                                          *)
LEMMA ReleasedLast ==
  ASSUME NEW x \in Steps, NEW y \in Steps, x # y, x[1] = "release", Before(x, y)
  PROVE  x[2] # y[2] \/ x[3] # y[3]
<1>1. /\ x = <<x[1], x[2], x[3]>> /\ x[2] \in 1..2 /\ x[3] \in Window
      /\ y = <<y[1], y[2], y[3]>> /\ y[2] \in 1..2 /\ y[3] \in Window
      /\ y[1] \in {"give", "take", "release"} /\ Window \subseteq Nat
  <2>1. \A z \in Steps : /\ z[1] \in {"give", "take", "release"} /\ z[2] \in 1..2 /\ z[3] \in Window
                         /\ z = <<z[1], z[2], z[3]>>
    BY DEF Steps
  <2> QED BY <2>1, TradeConstants
<1> SUFFICES ASSUME x[2] = y[2], x[3] = y[3] PROVE FALSE
  OBVIOUS
<1>2. y[1] # "release"
  BY <1>1
<1>3. ~InOrder(x, y)
  BY <1>1 DEF InOrder
<1> QED BY <1>1, <1>2, <1>3 DEF Before

LEMMA ExchangeTyped ==
  ASSUME FitInv, TypedInv, NEW t \in Trades, ExchangeStep(t)
  PROVE  TypedInv'
<1>0. TradeTyped /\ t \in Txs /\ cpu = t /\ txState[t] = "Open" /\ job.op = "exchange" /\ todo \subseteq Steps /\ job \in Job
  BY TradeConstants DEF ExchangeStep, FitInv, IInv, ClaimInv, OpenHold, TypedInv, TradeTyped
<1>1. UNCHANGED <<place, pending, sides, accepted>>
  BY DEF ExchangeStep
<1>2. UNCHANGED cpu /\ NoneOpens
  BY <1>0, ExchangeIsWork, WorkLeaves
<1>3. PICK x \in todo :
         /\ \A y \in todo \ {x} : Before(x, y)
         /\ \/ x[1] = "give" /\ DeliverSlot(t, x) /\ UNCHANGED stage
            \/ x[1] = "take" /\ ConsumeSlot(t, x) /\ UNCHANGED stage
            \/ x[1] = "release" /\ ReleaseSlot(t, x[2], x[3]) /\ Done(x)
  BY DEF ExchangeStep
<1>4. x \in Steps /\ x[2] \in 1..2 /\ x[3] \in Window
  BY <1>0, <1>3 DEF Steps
<1>5. \/ todo' = todo \ {x} /\ job' = job
      \/ todo' = {} /\ job' = [job EXCEPT !.op = "close"]
  BY <1>3 DEF DeliverSlot, ConsumeSlot, Done, Failed
<1>6. job' \in Job /\ job'.op \in {"exchange", "close"} /\ todo' \subseteq todo /\ (todo' # {} => job'.op = "exchange")
  BY <1>0, <1>5 DEF Job, Ops
<1>7. stage' \in [Txs -> [1..2 -> [Window -> StageType]]] /\ (\A y \in todo' : Item(t, y[2], y[3])' = Item(t, y[2], y[3]))
  <2>1. CASE UNCHANGED stage
    BY <1>0, <2>1 DEF TradeTyped, Item
  <2>2. CASE x[1] = "release" /\ ReleaseSlot(t, x[2], x[3]) /\ Done(x)
    <3> PICK i \in 1..2, n \in Window : i = x[2] /\ n = x[3]
      BY <1>4
    <3>1. SlotBecomes(t, i, n, NoStage)
      BY <1>0, <2>2, UnstagedChange DEF ReleaseSlot
    <3>2. /\ stage' \in [Txs -> [1..2 -> [Window -> StageType]]]
          /\ \A j \in 1..2, m \in Window : j # x[2] \/ m # x[3] => stage'[t][j][m] = stage[t][j][m]
      BY <1>0, <3>1 DEF SlotBecomes
    <3>3. \A y \in todo' : y \in Steps /\ (x[2] # y[2] \/ x[3] # y[3])
      BY <1>0, <1>3, <1>4, <2>2, ReleasedLast DEF Done
    <3>4. \A y \in todo' : y[2] \in 1..2 /\ y[3] \in Window
      BY <3>3 DEF Steps
    <3> QED BY <3>2, <3>3, <3>4 DEF Item
  <2> QED BY <1>3, <2>1, <2>2
<1>8. TodoIsStaged'
  <2>1. \A y \in todo' : Item(t, y[2], y[3]).uid # NoUid
    BY <1>0, <1>6 DEF TypedInv, TodoIsStaged
  <2> QED BY <1>0, <1>2, <1>6, <1>7, <2>1 DEF TodoIsStaged
<1>9. TradeTyped' /\ JobFits'
  BY <1>0, <1>1, <1>6, <1>7 DEF TradeTyped, JobFits
<1> QED BY <1>1, <1>2, <1>8, <1>9, TypedFrom

LEMMA RemovedTyped ==
  ASSUME FitInv, TypedInv, NEW t \in Trades, Removed(t), Commit(t) \/ FinishRollback(t),
         place' \in [Players -> Targids \cup {Away}]
  PROVE  TypedInv'
<1>0. TypeOK /\ TradeTyped /\ t \in Txs
  BY TradeConstants DEF FitInv, IInv, TypedInv
<1>1. txState'[t] # "Open" /\ \A u \in Txs \ {t} : txState'[u] = txState[u]
  BY <1>0, ClosedEffect
<1>2. <<NoEntity, NoEntity>> \in [1..2 -> Entity] /\ <<FALSE, FALSE>> \in [1..2 -> BOOLEAN]
      /\ <<EmptyWindow, EmptyWindow>> \in [1..2 -> [Window -> StageType]]
  BY EmptyTypes, PairType
<1>3. sides' \in [Txs -> [1..2 -> Entity]] /\ (\A u \in Txs \ {t} : sides'[u] = sides[u])
  BY <1>0, <1>2 DEF Removed, TradeTyped
<1>4. stage' \in [Txs -> [1..2 -> [Window -> StageType]]] /\ accepted' \in [Txs -> [1..2 -> BOOLEAN]]
  BY <1>0, <1>2 DEF Removed, TradeTyped
<1>5. job' = NoJob /\ todo' = {} /\ pending' \in [Players -> [entity : Entity, initiator : BOOLEAN]]
  BY <1>0, CleanedType DEF Removed
<1>6. TradeTyped' /\ JobFits' /\ TodoIsStaged'
  BY <1>3, <1>4, <1>5, EmptyTypes DEF TradeTyped, JobFits, TodoIsStaged
<1>7. SidesArePlayers'
  BY <1>0, <1>1, <1>3, TradeConstants DEF SidesArePlayers, TypedInv
<1> QED BY <1>6, <1>7 DEF TypedInv

LEMMA SameTyped ==
  ASSUME TypedInv, UNCHANGED tradeVars, NoneOpens, todo # {} => UNCHANGED cpu
  PROVE  TypedInv'
BY TypedFrom DEF tradeVars, TypedInv, TradeTyped, JobFits, TodoIsStaged, Item

LEMMA RollBackTyped ==
  ASSUME FitInv, TypedInv, NEW t \in Trades, RollBackTrade(t)
  PROVE  TypedInv'
<1>0. TypeOK /\ t \in Txs /\ todo = {}
  BY TradeConstants, NothingToDo DEF FitInv, IInv, RollBackTrade
<1>1. CASE (StartRollback(t) \/ RunUndo(t) \/ UndoDone(t)) /\ UNCHANGED tradeVars
  <2>1. UNCHANGED txState
    BY <1>0, <1>1, RunUndoControl DEF StartRollback, UndoDone
  <2> QED BY <1>0, <1>1, <2>1, SameTyped DEF NoneOpens
<1>2. CASE FinishRollback(t) /\ Removed(t) /\ place' = [p \in Players |-> IF p = job.leaver THEN Away ELSE place[p]]
  <2>1. place' \in [Players -> Targids \cup {Away}]
    BY <1>2 DEF TypedInv, TradeTyped
  <2> QED BY <1>2, <2>1, RemovedTyped
<1> QED BY <1>1, <1>2 DEF RollBackTrade

LEMMA CommitTyped ==
  ASSUME FitInv, TypedInv, NEW t \in Trades, CommitTrade(t)
  PROVE  TypedInv'
BY RemovedTyped DEF CommitTrade, TypedInv, TradeTyped

(* A purchase changes no trade.                                             *)
LEMMA PurchaseLeaves ==
  ASSUME FitInv, NEW t \in Txs, NEW p \in Restless, Purchase(t, p)
  PROVE  /\ NoneOpens /\ UNCHANGED tradeVars
         /\ \A u \in Trades : txState'[u] = txState[u] /\ cpu # u /\ cpu' # u
<1>1. TypeOK /\ t \in Txs /\ (\A u \in Trades : u \in Txs /\ u # t /\ u # Idle)
      /\ (Enter(t) \/ Work(t) \/ Commit(t)) /\ UNCHANGED tradeVars
  BY PurchaseIsHandler, TradeConstants DEF FitInv, IInv
<1>2. \A u \in Trades : txState'[u] = txState[u] /\ cpu # u /\ cpu' # u
  BY <1>1, EnterEffect, ClosedEffect, WorkControl
<1> QED BY <1>1, <1>2 DEF NoneOpens

LEMMA TypedStep == FitInv /\ TypedInv /\ [TradeNext]_allVars => TypedInv'
<1> SUFFICES ASSUME FitInv, TypedInv, [TradeNext]_allVars PROVE TypedInv'
  OBVIOUS
<1>1. CASE UNCHANGED allVars
  <2>1. UNCHANGED <<tradeVars, txState, cpu>>
    BY <1>1 DEF allVars, vars
  <2> QED BY <2>1, SameTyped DEF NoneOpens
<1>2. CASE Handshake
  BY <1>2, RequestTyped, StartTradeTyped, ClosingTyped, EnterZoneTyped DEF Handshake
<1>3. CASE Staging
  <2>1. \A p \in Players, s \in Slots : 0..inv[p][s].qty \subseteq Nat
    OBVIOUS
  <2> QED BY <1>3, <2>1, SetSlotTyped, StagingTyped, LeaveTradeTyped DEF Staging
<1>4. CASE Exchanging
  BY <1>4, MakeTyped, ExchangeTyped, CommitTyped, RollBackTyped DEF Exchanging
<1>5. ASSUME NEW t \in Txs, NEW p \in Restless, Purchase(t, p) PROVE TypedInv'
  <2>1. todo = {} \/ UNCHANGED cpu
    BY <1>5, PurchaseLeaves DEF TypedInv, TodoIsStaged
  <2> QED BY <1>5, <2>1, PurchaseLeaves, SameTyped
<1>6. ASSUME NEW p \in Restless, Elsewhere(p), UNCHANGED tradeVars PROVE TypedInv'
  BY <1>6, ElsewhereControl, SameTyped, TradeConstants DEF NoneOpens
<1> QED BY <1>1, <1>2, <1>3, <1>4, <1>5, <1>6 DEF TradeNext

LEMMA EntityIs ==
  ASSUME NEW p
  PROVE  EntityOf(p).id = p /\ EntityOf(p).act = place[p]
BY DEF EntityOf

LEMMA InitTyped == TradeInit => TypedInv
<1> SUFFICES ASSUME TradeInit PROVE TypedInv
  OBVIOUS
<1>1. place \in [Players -> Targids \cup {Away}]
  <2>1. \E f : f \in Injection(Players, Targids)
    BY TradeAssumption
  <2>2. place \in Injection(Players, Targids)
    BY <2>1 DEF TradeInit
  <2> QED BY <2>2 DEF Injection
<1>2. /\ <<NoEntity, NoEntity>> \in [1..2 -> Entity]
      /\ <<EmptyWindow, EmptyWindow>> \in [1..2 -> [Window -> StageType]]
      /\ <<FALSE, FALSE>> \in [1..2 -> BOOLEAN]
  BY EmptyTypes, PairType
<1>3. TradeTyped
  BY <1>1, <1>2, EmptyTypes DEF TradeInit, TradeTyped
<1>4. \A t \in Txs : txState[t] = "New"
  BY DEF TradeInit, Init
<1> QED BY <1>3, <1>4, TradeConstants, EmptyTypes DEF TypedInv, SidesArePlayers, JobFits, TodoIsStaged, TradeInit

-----------------------------------------------------------------------------
(* Both sides of a trade find it                                            *)

(* Each has the other as he is in the zone now.                             *)
Mutually(p, q) ==
  /\ pending[p].entity = EntityOf(q)
  /\ pending[q].entity = EntityOf(p)
  /\ place[p] # Away /\ place[q] # Away
  /\ p # q

(* Two TradePendings that name each other are of one request, or neither    *)
(* would still stand: someone who left has none, and a stale one is never   *)
(* answered in kind.                                                        *)
PairsAgree ==
  \A p, q \in Players :
    pending[p].entity.id = q /\ pending[q].entity.id = p => Mutually(p, q)

Parties(t) == {sides[t][1].id, sides[t][2].id}
Closing(t) == cpu = t /\ job.op = "close"

(* A trade is open between two who have each other, until it closes.        *)
SidesAgree ==
  \A t \in Trades : txState[t] = "Open" /\ ~Closing(t) =>
    \E p, q \in Players : /\ Mutually(p, q)
                          /\ sides[t][1] = EntityOf(p)
                          /\ sides[t][2] = EntityOf(q)

TradesApart ==
  \A t, u \in Trades :
    t # u /\ txState[t] = "Open" /\ txState[u] = "Open" => Parties(t) \cap Parties(u) = {}

(* Whoever leaves the zone while in a trade is one of its sides, and his    *)
(* TradePending has gone.                                                   *)
LeaverLeft ==
  job.leaver # Nobody =>
    /\ Closing(cpu) /\ cpu \in Trades
    /\ job.leaver \in Parties(cpu)
    /\ pending[job.leaver] = NoPending

MutualInv == PairsAgree /\ SidesAgree /\ TradesApart /\ LeaverLeft

(* A player without a trade is on neither side of an open one, and neither  *)
(* is the partner he may have.                                              *)
LEMMA NotASide ==
  ASSUME TypedInv, MutualInv, cpu = Idle, NEW p \in Players, ActiveTrade(p) = {},
         NEW t \in Trades, txState[t] = "Open"
  PROVE  p \notin Parties(t) /\ Partner(p) \notin Parties(t)
<1>1. PICK a \in Players, b \in Players : /\ Mutually(a, b)
                                          /\ sides[t][1] = EntityOf(a)
                                          /\ sides[t][2] = EntityOf(b)
  BY TradeConstants DEF MutualInv, SidesAgree, Closing
<1>2. Parties(t) = {a, b} /\ t \in Local(a)
  BY <1>1, EntityIs DEF Parties, Local
<1>3. p # a
  BY <1>2 DEF ActiveTrade
<1>4. Partner(b) = a /\ pending[b].entity.id = a
  <2>1. a # Nobody
    BY TradeConstants
  <2>2. pending[b].entity.id = a /\ pending[b].entity.act = place[a] /\ pending[a].entity.id = b /\ place[a] # Away
    BY <1>1, EntityIs DEF Mutually
  <2> QED BY <2>1, <2>2 DEF Partner, Resolved
<1>5. p # b
  <2> SUFFICES ASSUME p = b PROVE FALSE
    OBVIOUS
  <2>1. Partner(p) = a /\ a # Nobody
    BY <1>4, TradeConstants
  <2> QED BY <2>1, <1>2 DEF ActiveTrade
<1>6. Partner(p) # a
  <2> SUFFICES ASSUME Partner(p) = a PROVE FALSE
    OBVIOUS
  <2> QED BY <1>2, TradeConstants DEF ActiveTrade
<1>7. Partner(p) # b
  <2> SUFFICES ASSUME Partner(p) = b PROVE FALSE
    OBVIOUS
  <2>1. pending[b].entity.id = p
    BY FoundPlayers, TradeConstants DEF TypedInv
  <2> QED BY <2>1, <1>3, <1>4
<1> QED BY <1>2, <1>3, <1>5, <1>6, <1>7

(* A player who finds a trade is one of its sides.                          *)
LEMMA IsASide ==
  ASSUME TypedInv, MutualInv, cpu = Idle, NEW p \in Players, NEW t \in ActiveTrade(p)
  PROVE  \E a, b \in Players : /\ Mutually(a, b) /\ p \in {a, b}
                               /\ sides[t][1] = EntityOf(a) /\ sides[t][2] = EntityOf(b)
<1>1. t \in Trades /\ txState[t] = "Open"
  BY FoundPlayers DEF TypedInv
<1>2. PICK a \in Players, b \in Players : /\ Mutually(a, b)
                                          /\ sides[t][1] = EntityOf(a)
                                          /\ sides[t][2] = EntityOf(b)
  BY <1>1, TradeConstants DEF MutualInv, SidesAgree, Closing
<1>3. pending[a].entity.id = b /\ sides[t][1].id = a
  BY <1>2, EntityIs DEF Mutually
<1>4. sides[t][1].id = p \/ (sides[t][1].id = Partner(p) /\ Partner(p) # Nobody)
  BY DEF ActiveTrade, Local
<1>5. p \in {a, b}
  BY <1>3, <1>4, FoundPlayers DEF TypedInv
<1> QED BY <1>2, <1>5

(* The pairs that stay: TradePendings that are cleared in pairs leave the   *)
(* others as they were.                                                     *)
LEMMA ClearedPairs ==
  ASSUME TypedInv, PairsAgree, UNCHANGED place,
         \A p \in Players : pending'[p] = pending[p] \/ pending'[p] = NoPending
  PROVE  PairsAgree'
<1> SUFFICES ASSUME NEW p \in Players, NEW q \in Players, pending'[p].entity.id = q, pending'[q].entity.id = p
             PROVE  Mutually(p, q)'
  BY DEF PairsAgree
<1>1. pending'[p] = pending[p] /\ pending'[q] = pending[q]
  BY EmptyTypes, TradeConstants
<1> QED BY <1>1 DEF PairsAgree, Mutually, EntityOf

(* A trade stays as it is when its two sides do.                            *)
LEMMA SideStays ==
  ASSUME TypedInv, NEW a \in Players, NEW b \in Players, NEW t, Mutually(a, b),
         sides[t][1] = EntityOf(a) /\ sides[t][2] = EntityOf(b), sides'[t] = sides[t],
         \A p \in {a, b} : pending'[p] = pending[p] /\ place'[p] = place[p]
  PROVE  \E p, q \in Players : /\ Mutually(p, q)'
                               /\ sides'[t][1] = EntityOf(p)'
                               /\ sides'[t][2] = EntityOf(q)'
<1>1. Mutually(a, b)' /\ EntityOf(a)' = EntityOf(a) /\ EntityOf(b)' = EntityOf(b)
  BY DEF Mutually, EntityOf
<1> QED BY <1>1

(* All the trades that are open after a step were open before, with the     *)
(* same sides, who have kept their TradePendings and their places.          *)
LEMMA SidesKept ==
  ASSUME TypedInv, MutualInv,
         \A t \in Trades : txState'[t] = "Open" /\ ~Closing(t)' =>
           /\ txState[t] = "Open" /\ ~Closing(t) /\ sides'[t] = sides[t]
           /\ \A p \in Parties(t) : pending'[p] = pending[p] /\ place'[p] = place[p]
  PROVE  SidesAgree'
<1> SUFFICES ASSUME NEW t \in Trades, txState'[t] = "Open", ~Closing(t)'
             PROVE  \E p, q \in Players : /\ Mutually(p, q)'
                                          /\ sides'[t][1] = EntityOf(p)'
                                          /\ sides'[t][2] = EntityOf(q)'
  BY DEF SidesAgree
<1>1. txState[t] = "Open" /\ ~Closing(t) /\ sides'[t] = sides[t]
      /\ \A p \in Parties(t) : pending'[p] = pending[p] /\ place'[p] = place[p]
  OBVIOUS
<1>2. PICK a \in Players, b \in Players : /\ Mutually(a, b)
                                          /\ sides[t][1] = EntityOf(a)
                                          /\ sides[t][2] = EntityOf(b)
  BY <1>1 DEF MutualInv, SidesAgree
<1>3. \A p \in {a, b} : pending'[p] = pending[p] /\ place'[p] = place[p]
  BY <1>1, <1>2, EntityIs DEF Parties
<1> QED BY <1>1, <1>2, <1>3, SideStays

LEMMA ApartKept ==
  ASSUME MutualInv, \A t \in Trades : txState'[t] = "Open" => txState[t] = "Open" /\ sides'[t] = sides[t]
  PROVE  TradesApart'
BY DEF MutualInv, TradesApart, Parties

(* A step that changes neither places, TradePendings nor sides, and closes  *)
(* nobody out of the zone.                                                  *)
LEMMA MutualKept ==
  ASSUME TypedInv, MutualInv, UNCHANGED <<place, pending, sides>>, NoneOpens,
         \A t \in Trades : txState'[t] = "Open" /\ Closing(t) => Closing(t)',
         job'.leaver = Nobody \/ (UNCHANGED <<cpu, job>>)
  PROVE  MutualInv'
<1>1. PairsAgree'
  BY ClearedPairs DEF MutualInv
<1>2. SidesAgree'
  BY SidesKept DEF NoneOpens
<1>3. TradesApart'
  BY ApartKept DEF NoneOpens
<1>4. LeaverLeft'
  BY DEF MutualInv, LeaverLeft, Closing, Parties
<1> QED BY <1>1, <1>2, <1>3, <1>4 DEF MutualInv

(* Between two handlers, TradePendings and places of players who are in no  *)
(* trade change.                                                            *)
LEMMA OutsideTrades ==
  ASSUME TypedInv, MutualInv, PairsAgree', cpu = Idle, UNCHANGED <<sides, job, txState, cpu>>,
         NEW S, \A t \in Trades : txState[t] = "Open" => Parties(t) \cap S = {},
         \A p \in Players \ S : pending'[p] = pending[p] /\ place'[p] = place[p]
  PROVE  MutualInv'
<1>1. \A t \in Trades : txState[t] = "Open" => Parties(t) \subseteq Players \ S
  BY DEF TypedInv, SidesArePlayers, Parties
<1>2. \A t \in Trades : ~Closing(t) /\ ~Closing(t)'
  BY TradeConstants DEF Closing
<1>3. SidesAgree'
  BY <1>1, <1>2, SidesKept
<1>4. TradesApart'
  BY ApartKept
<1>5. LeaverLeft'
  <2>1. job.leaver = Nobody
    BY TradeConstants DEF MutualInv, LeaverLeft
  <2> QED BY <2>1 DEF LeaverLeft
<1> QED BY <1>3, <1>4, <1>5 DEF MutualInv

LEMMA RequestMutual ==
  ASSUME TypedInv, MutualInv, NEW p \in Players, NEW q \in Players, NEW aged \in BOOLEAN, Request(p, q, aged)
  PROVE  MutualInv'
<1>1. /\ cpu = Idle /\ UNCHANGED <<place, sides, job, txState, cpu>>
      /\ p # q /\ place[p] # Away /\ place[q] # Away /\ ActiveTrade(p) = {} /\ ActiveTrade(q) = {}
      /\ pending[q].entity.id # p
  BY DEF Request, UnchangedEngine, vars
<1>2. pending \in [Players -> [entity : Entity, initiator : BOOLEAN]]
  BY DEF TypedInv, TradeTyped
<1>3. CASE Partner(p) # Nobody
  <2>1. pending' = [pending EXCEPT ![Partner(p)] = NoPending, ![p] = NoPending]
    BY <1>3 DEF Request
  <2>2. \A r \in Players : pending'[r] = pending[r] \/ pending'[r] = NoPending
    BY <1>2, <2>1
  <2>3. PairsAgree'
    BY <1>1, <2>2, ClearedPairs DEF MutualInv
  <2> DEFINE S == {p, Partner(p)}
  <2>4. \A t \in Trades : txState[t] = "Open" => Parties(t) \cap S = {}
    BY <1>1, NotASide
  <2>5. \A r \in Players \ S : pending'[r] = pending[r] /\ place'[r] = place[r]
    BY <1>1, <1>2, <2>1
  <2> HIDE DEF S
  <2> QED BY <1>1, <2>3, <2>4, <2>5, OutsideTrades
<1>4. CASE Partner(p) = Nobody
  <2>1. pending' = [pending EXCEPT ![p] = [entity |-> EntityOf(q), initiator |-> TRUE],
                                   ![q] = [entity |-> EntityOf(p), initiator |-> FALSE]]
    BY <1>4 DEF Request
  <2>2. /\ pending'[p].entity = EntityOf(q) /\ pending'[q].entity = EntityOf(p)
        /\ \A r \in Players \ {p, q} : pending'[r] = pending[r]
    BY <1>1, <1>2, <2>1
  <2>3. Mutually(p, q)' /\ Mutually(q, p)'
    BY <1>1, <2>2 DEF Mutually, EntityOf
  <2>4. PairsAgree'
    <3> SUFFICES ASSUME NEW a \in Players, NEW b \in Players,
                        pending'[a].entity.id = b, pending'[b].entity.id = a
                 PROVE  Mutually(a, b)'
      BY DEF PairsAgree
    <3>1. CASE a \notin {p, q} /\ b \notin {p, q}
      BY <1>1, <2>2, <3>1 DEF MutualInv, PairsAgree, Mutually, EntityOf
    <3>2. CASE a \in {p, q} \/ b \in {p, q}
      <4>1. pending'[p].entity.id = q /\ pending'[q].entity.id = p
        BY <2>2, EntityIs
      <4>2. {a, b} = {p, q}
        BY <3>2, <4>1
      <4> QED BY <1>1, <2>3, <4>1, <4>2
    <3> QED BY <3>1, <3>2
  <2> DEFINE S == {p, q}
  <2>5. \A t \in Trades : txState[t] = "Open" => Parties(t) \cap S = {}
    BY <1>1, NotASide
  <2>6. \A r \in Players \ S : pending'[r] = pending[r] /\ place'[r] = place[r]
    BY <1>1, <2>2
  <2> HIDE DEF S
  <2> QED BY <1>1, <2>4, <2>5, <2>6, OutsideTrades
<1> QED BY <1>3, <1>4

LEMMA StartTradeMutual ==
  ASSUME FitInv, TypedInv, MutualInv, NEW p \in Players, NEW t \in Trades, NEW near \in BOOLEAN, StartTrade(p, t, near)
  PROVE  MutualInv'
<1>0. TypeOK /\ t \in Txs /\ cpu = Idle /\ UNCHANGED place /\ ActiveTrade(p) = {} /\ Trades \subseteq Txs /\ Idle \notin Trades
  BY TradeConstants DEF StartTrade, Enter, FitInv, IInv
<1>1. PICK q \in Players : q = Partner(p)
  BY FoundPlayers DEF StartTrade, TypedInv
<1>2. pending \in [Players -> [entity : Entity, initiator : BOOLEAN]] /\ sides \in [Txs -> [1..2 -> Entity]]
  BY DEF TypedInv, TradeTyped
<1>3. Mutually(p, q)
  BY <1>1, FoundPlayers, TradeConstants DEF TypedInv, MutualInv, PairsAgree
<1>4. CASE /\ Enter(t) /\ ActiveTrade(q) = {} /\ txState[t] = "New"
           /\ sides' = [sides EXCEPT ![t] = <<EntityOf(p), EntityOf(q)>>] /\ UNCHANGED pending
           /\ job' = [NoJob EXCEPT !.op = "leave"]
  <2>1. \A u \in Trades \ {t} : txState'[u] = txState[u] /\ sides'[u] = sides[u]
    BY <1>0, <1>2, <1>4, EnterEffect
  <2>2. sides'[t][1] = EntityOf(p) /\ sides'[t][2] = EntityOf(q)
    BY <1>0, <1>2, <1>4
  <2>3. Mutually(p, q)' /\ EntityOf(p)' = EntityOf(p) /\ EntityOf(q)' = EntityOf(q)
    BY <1>0, <1>3, <1>4 DEF Mutually, EntityOf
  <2>4. PairsAgree'
    BY <1>0, <1>4, ClearedPairs DEF MutualInv
  <2>5. job'.op = "leave" /\ job'.leaver = Nobody
    BY <1>4, EmptyTypes DEF NoJob
  <2>6. SidesAgree'
    <3> SUFFICES ASSUME NEW u \in Trades, txState'[u] = "Open"
                 PROVE  \E a, b \in Players : /\ Mutually(a, b)'
                                              /\ sides'[u][1] = EntityOf(a)'
                                              /\ sides'[u][2] = EntityOf(b)'
      BY DEF SidesAgree
    <3>1. CASE u = t
      BY <2>2, <2>3, <3>1
    <3>2. CASE u # t
      <4>1. txState[u] = "Open" /\ ~Closing(u)
        BY <1>0, <2>1, <3>2 DEF Closing
      <4>2. PICK a \in Players, b \in Players : /\ Mutually(a, b)
                                                /\ sides[u][1] = EntityOf(a)
                                                /\ sides[u][2] = EntityOf(b)
        BY <4>1 DEF MutualInv, SidesAgree
      <4> QED BY <1>0, <1>4, <2>1, <3>2, <4>2, SideStays
    <3> QED BY <3>1, <3>2
  <2>7. TradesApart'
    <3>1. \A u \in Trades \ {t} : txState'[u] = "Open" => {p, q} \cap Parties(u) = {} /\ Parties(u)' = Parties(u)
      BY <1>0, <1>4, <2>1, NotASide DEF Parties
    <3>2. Parties(t)' = {p, q}
      BY <2>2, EntityIs DEF Parties
    <3>3. \A u \in Trades \ {t} : txState'[u] = "Open" => txState[u] = "Open"
      BY <2>1
    <3> QED BY <3>1, <3>2, <3>3 DEF TradesApart, MutualInv
  <2>8. LeaverLeft'
    BY <2>5 DEF LeaverLeft
  <2> QED BY <2>4, <2>6, <2>7, <2>8 DEF MutualInv
<1>5. CASE pending' = [pending EXCEPT ![p] = NoPending, ![q] = NoPending] /\ UNCHANGED <<sides, job>> /\ UnchangedEngine
  <2>1. UNCHANGED <<txState, cpu>>
    BY <1>5 DEF UnchangedEngine, vars
  <2>2. PairsAgree'
    BY <1>0, <1>2, <1>5, ClearedPairs DEF MutualInv
  <2> DEFINE S == {p, q}
  <2>3. \A u \in Trades : txState[u] = "Open" => Parties(u) \cap S = {}
    BY <1>0, <1>1, NotASide
  <2>4. \A r \in Players \ S : pending'[r] = pending[r] /\ place'[r] = place[r]
    BY <1>0, <1>2, <1>5
  <2> HIDE DEF S
  <2> QED BY <1>0, <1>5, <2>1, <2>2, <2>3, <2>4, OutsideTrades
<1> QED BY <1>1, <1>4, <1>5 DEF StartTrade

(* Cleaning the sides of one trade leaves the TradePendings of others.      *)
LEMMA CleanedOnly ==
  ASSUME TypedInv, MutualInv, NEW t \in Trades, txState[t] = "Open", pending' = Cleaned(t)
  PROVE  /\ \A p \in Players : pending'[p] = pending[p] \/ pending'[p] = NoPending
         /\ \A u \in Trades \ {t} : txState[u] = "Open" =>
              \A p \in Parties(u) : p \in Players /\ p \notin Parties(t) /\ pending'[p] = pending[p]
<1>1. \A p \in Players : /\ pending'[p] = pending[p] \/ pending'[p] = NoPending
                         /\ p \notin {Who(t, 1), Who(t, 2)} => pending'[p] = pending[p]
  BY DEF Cleaned
<1>2. Who(t, 1) \in {sides[t][1].id, Nobody} /\ Who(t, 2) \in {sides[t][2].id, Nobody}
  BY DEF Who, Resolved
<1>3. \A u \in Trades \ {t} : txState[u] = "Open" => Parties(u) \subseteq Players /\ Parties(u) \cap Parties(t) = {}
  BY DEF TypedInv, SidesArePlayers, Parties, MutualInv, TradesApart
<1>4. ASSUME NEW u \in Trades \ {t}, txState[u] = "Open", NEW p \in Parties(u)
      PROVE  p \in Players /\ p \notin Parties(t) /\ pending'[p] = pending[p]
  <2>1. p \in Players /\ p \notin Parties(t)
    BY <1>3, <1>4
  <2>2. p # Nobody /\ p # sides[t][1].id /\ p # sides[t][2].id
    BY <2>1, TradeConstants DEF Parties
  <2> QED BY <1>1, <1>2, <2>1, <2>2
<1> QED BY <1>1, <1>4

LEMMA AbortMutual ==
  ASSUME FitInv, TypedInv, MutualInv, NEW p \in Players, NEW t \in ActiveTrade(p), NEW q \in {p, Nobody}, Abort(t, q)
  PROVE  MutualInv'
<1>0. TypeOK /\ TradeTyped /\ cpu = Idle /\ cpu' = t /\ UNCHANGED <<place, sides, txState>> /\ Idle \notin Trades
      /\ t \in Trades /\ txState[t] = "Open" /\ pending' = Cleaned(t)
  BY FoundPlayers, TradeConstants DEF Abort, Enter, FitInv, IInv, TypedInv, TypeOK
<1>1. job'.op = "close" /\ job'.leaver = q
  BY EmptyTypes DEF Abort, Job, NoJob
<1>2. UNCHANGED txState
  BY <1>0, ActiveStaysOpen DEF Abort
<1>3. /\ \A r \in Players : pending'[r] = pending[r] \/ pending'[r] = NoPending
      /\ \A u \in Trades \ {t} : txState[u] = "Open" =>
              \A r \in Parties(u) : r \in Players /\ r \notin Parties(t) /\ pending'[r] = pending[r]
  BY <1>0, CleanedOnly
<1>4. PairsAgree'
  BY <1>0, <1>3, ClearedPairs DEF MutualInv
<1>5. SidesAgree'
  BY <1>0, <1>1, <1>2, <1>3, SidesKept DEF Closing
<1>6. TradesApart'
  BY <1>0, <1>2, ApartKept
<1>7. LeaverLeft'
  <2> SUFFICES ASSUME q = p, p # Nobody
               PROVE  p \in Parties(t) /\ pending'[p] = NoPending
    BY <1>0, <1>1 DEF LeaverLeft, Closing, Parties
  <2>1. PICK a \in Players, b \in Players : /\ Mutually(a, b) /\ p \in {a, b}
                                            /\ sides[t][1] = EntityOf(a) /\ sides[t][2] = EntityOf(b)
    BY <1>0, IsASide
  <2>2. Parties(t) = {a, b} /\ Who(t, 1) = a /\ Who(t, 2) = b
    BY <2>1, EntityIs, TradeConstants DEF Parties, Who, Resolved, Mutually
  <2> QED BY <1>0, <2>1, <2>2 DEF Cleaned
<1> QED BY <1>4, <1>5, <1>6, <1>7 DEF MutualInv

LEMMA ClosingMutual ==
  ASSUME FitInv, TypedInv, MutualInv, NEW p \in Players, CancelTrade(p) \/ LeaveZone(p)
  PROVE  MutualInv'
<1>0. place \in [Players -> Targids \cup {Away}] /\ pending \in [Players -> [entity : Entity, initiator : BOOLEAN]]
      /\ Partner(p) \in Players \cup {Nobody}
  BY FoundPlayers DEF TypedInv, TradeTyped
<1>1. ASSUME NEW t \in ActiveTrade(p), Abort(t, Nobody) \/ Abort(t, p) PROVE MutualInv'
  BY <1>1, AbortMutual
<1>2. CASE /\ cpu = Idle /\ ActiveTrade(p) = {} /\ UNCHANGED <<place, sides, job>> /\ UnchangedEngine
           /\ pending' = [pending EXCEPT ![p] = NoPending, ![Partner(p)] = NoPending]
  <2>1. \A r \in Players : pending'[r] = pending[r] \/ pending'[r] = NoPending
    BY <1>0, <1>2
  <2>2. PairsAgree' /\ UNCHANGED <<txState, cpu>>
    BY <1>2, <2>1, ClearedPairs DEF MutualInv, UnchangedEngine, vars
  <2> DEFINE S == {p, Partner(p)}
  <2>3. \A u \in Trades : txState[u] = "Open" => Parties(u) \cap S = {}
    BY <1>2, NotASide
  <2>4. \A r \in Players \ S : pending'[r] = pending[r] /\ place'[r] = place[r]
    BY <1>0, <1>2
  <2> HIDE DEF S
  <2> QED BY <1>2, <2>2, <2>3, <2>4, OutsideTrades
<1>3. CASE /\ cpu = Idle /\ ActiveTrade(p) = {} /\ UNCHANGED <<sides, job>> /\ UnchangedEngine
           /\ pending' = [pending EXCEPT ![p] = NoPending] /\ place' = [place EXCEPT ![p] = Away]
  <2>1. /\ \A r \in Players \ {p} : pending'[r] = pending[r] /\ place'[r] = place[r]
        /\ pending'[p].entity.id = Nobody /\ UNCHANGED <<txState, cpu>>
    BY <1>0, <1>3, EmptyTypes DEF UnchangedEngine, vars
  <2>2. PairsAgree'
    <3> SUFFICES ASSUME NEW a \in Players, NEW b \in Players,
                        pending'[a].entity.id = b, pending'[b].entity.id = a
                 PROVE  Mutually(a, b)'
      BY DEF PairsAgree
    <3>1. a # p /\ b # p
      BY <2>1, TradeConstants
    <3> QED BY <2>1, <3>1 DEF MutualInv, PairsAgree, Mutually, EntityOf
  <2> DEFINE S == {p}
  <2>3. \A u \in Trades : txState[u] = "Open" => Parties(u) \cap S = {}
    BY <1>3, NotASide
  <2>4. \A r \in Players \ S : pending'[r] = pending[r] /\ place'[r] = place[r]
    BY <2>1
  <2> HIDE DEF S
  <2> QED BY <1>3, <2>1, <2>2, <2>3, <2>4, OutsideTrades
<1> QED BY <1>1, <1>2, <1>3 DEF CancelTrade, LeaveZone

LEMMA EnterZoneMutual ==
  ASSUME TypedInv, MutualInv, NEW p \in Players, NEW a \in Targids, EnterZone(p, a)
  PROVE  MutualInv'
<1>1. cpu = Idle /\ place[p] = Away /\ UNCHANGED <<pending, sides, job, txState, cpu>>
      /\ \A r \in Players \ {p} : place'[r] = place[r]
  BY DEF EnterZone, UnchangedEngine, vars, TypedInv, TradeTyped
<1>2. PairsAgree'
  <2> SUFFICES ASSUME NEW x \in Players, NEW y \in Players,
                      pending[x].entity.id = y, pending[y].entity.id = x
               PROVE  Mutually(x, y)'
    BY <1>1 DEF PairsAgree
  <2>1. Mutually(x, y)
    BY DEF MutualInv, PairsAgree
  <2>2. x # p /\ y # p
    BY <1>1, <2>1 DEF Mutually
  <2> QED BY <1>1, <2>1, <2>2 DEF Mutually, EntityOf
<1> DEFINE S == {p}
<1>3. ASSUME NEW t \in Trades, txState[t] = "Open" PROVE Parties(t) \cap S = {}
  <2>1. PICK x \in Players, y \in Players : Mutually(x, y) /\ sides[t][1] = EntityOf(x) /\ sides[t][2] = EntityOf(y)
    BY <1>1, <1>3, TradeConstants DEF MutualInv, SidesAgree, Closing
  <2> QED BY <1>1, <2>1, EntityIs DEF Parties, Mutually
<1>4. \A r \in Players \ S : pending'[r] = pending[r] /\ place'[r] = place[r]
  BY <1>1
<1> HIDE DEF S
<1> QED BY <1>1, <1>2, <1>3, <1>4, OutsideTrades

(* A trade that is removed takes nothing from the others.                   *)
LEMMA RemovedMutual ==
  ASSUME FitInv, TypedInv, MutualInv, NEW t \in Trades, Removed(t), Commit(t) \/ FinishRollback(t),
         \/ UNCHANGED place /\ job.op = "exchange"
         \/ place' = [p \in Players |-> IF p = job.leaver THEN Away ELSE place[p]]
  PROVE  MutualInv'
<1>0. TypeOK /\ t \in Txs /\ cpu = t /\ cpu' = Idle /\ Idle \notin Trades /\ txState[t] = "Open"
  BY ClosedEffect, TradeConstants DEF FitInv, IInv, ClaimInv, OpenHold
<1>1. txState'[t] # "Open" /\ \A u \in Trades \ {t} : txState'[u] = txState[u] /\ sides'[u] = sides[u]
  BY <1>0, ClosedEffect, TradeConstants DEF Removed, TypedInv, TradeTyped
<1>2. pending' = Cleaned(t) /\ job' = NoJob
  BY DEF Removed
<1>3. /\ \A r \in Players : pending'[r] = pending[r] \/ pending'[r] = NoPending
      /\ \A u \in Trades \ {t} : txState[u] = "Open" =>
              \A r \in Parties(u) : r \in Players /\ r \notin Parties(t) /\ pending'[r] = pending[r]
  BY <1>0, <1>2, CleanedOnly
<1>4. job.leaver # Nobody => job.leaver \in Parties(t) /\ pending[job.leaver] = NoPending
  BY <1>0 DEF MutualInv, LeaverLeft
<1>5. \A r \in Players : r # job.leaver => place'[r] = place[r]
  OBVIOUS
<1>6. job.leaver = Nobody => \A r \in Players : place'[r] = place[r]
  BY <1>5, TradeConstants
<1>7. PairsAgree'
  <2> SUFFICES ASSUME NEW a \in Players, NEW b \in Players,
                      pending'[a].entity.id = b, pending'[b].entity.id = a
               PROVE  Mutually(a, b)'
    BY DEF PairsAgree
  <2>1. pending'[a] = pending[a] /\ pending'[b] = pending[b]
    BY <1>3, EmptyTypes, TradeConstants
  <2>2. a # job.leaver /\ b # job.leaver
    BY <1>4, <2>1, EmptyTypes, TradeConstants
  <2> QED BY <1>5, <2>1, <2>2 DEF MutualInv, PairsAgree, Mutually, EntityOf
<1>8. SidesAgree'
  <2> SUFFICES ASSUME NEW u \in Trades, txState'[u] = "Open"
               PROVE  /\ txState[u] = "Open" /\ ~Closing(u) /\ sides'[u] = sides[u]
                      /\ \A p \in Parties(u) : pending'[p] = pending[p] /\ place'[p] = place[p]
    BY SidesKept
  <2>1. u # t /\ txState[u] = "Open" /\ sides'[u] = sides[u] /\ ~Closing(u)
    BY <1>0, <1>1 DEF Closing
  <2>2. \A p \in Parties(u) : p \in Players /\ pending'[p] = pending[p] /\ p # job.leaver
    BY <1>3, <1>4, <2>1, TradeConstants
  <2> QED BY <1>5, <2>1, <2>2
<1>9. TradesApart'
  BY <1>1, ApartKept
<1>10. LeaverLeft'
  BY <1>2, EmptyTypes DEF LeaverLeft
<1> QED BY <1>7, <1>8, <1>9, <1>10 DEF MutualInv

LEMMA StagingMutual ==
  ASSUME FitInv, TypedInv, MutualInv, Staging
  PROVE  MutualInv'
<1>0. TypeOK /\ TradeTyped /\ \A t \in Trades : t # Idle /\ t \in Txs
  BY TradeConstants DEF FitInv, IInv, TypedInv
<1>1. ASSUME NEW p \in Players, NEW t \in Trades, NEW n, NEW s, NEW q, SetSlot(p, t, n, s, q) PROVE MutualInv'
  <2>1. NoneOpens /\ cpu = Idle
    BY <1>0, <1>1, ActiveStaysOpen DEF SetSlot, Enter
  <2>2. job'.leaver = Nobody /\ UNCHANGED <<place, pending, sides>>
    BY <1>1 DEF SetSlot
  <2> QED BY <1>0, <2>1, <2>2, MutualKept DEF Closing
<1>2. ASSUME NEW t \in Trades, SetSlotUnstages(t) \/ SetSlotStages(t) PROVE MutualInv'
  <2>1. NoneOpens /\ UNCHANGED cpu
    BY <1>0, <1>2, StagingIsWork, WorkLeaves
  <2>2. UNCHANGED <<place, pending, sides>> /\ cpu = t /\ job.op # "close"
    BY <1>2 DEF SetSlotUnstages, SetSlotStages
  <2>3. job'.leaver = job.leaver
    <3>1. \E x : job' = [job EXCEPT !.op = x]
      BY <1>2 DEF SetSlotUnstages, SetSlotStages
    <3> QED BY <1>0, <3>1 DEF TradeTyped, Job
  <2>4. job.leaver = Nobody
    BY <2>2 DEF MutualInv, LeaverLeft, Closing
  <2> QED BY <2>1, <2>2, <2>3, <2>4, MutualKept DEF Closing
<1>3. ASSUME NEW t \in Trades, LeaveTrade(t) PROVE MutualInv'
  <2>1. UNCHANGED <<place, pending, sides, txState>> /\ cpu = t /\ job.op # "close" /\ job' = NoJob
    BY <1>3 DEF LeaveTrade, Leave
  <2> QED BY <2>1, MutualKept, EmptyTypes DEF Closing, NoneOpens
<1> QED BY <1>1, <1>2, <1>3 DEF Staging

LEMMA ExchangingMutual ==
  ASSUME FitInv, TypedInv, MutualInv, Exchanging
  PROVE  MutualInv'
<1>0. TypeOK /\ TradeTyped /\ \A t \in Trades : t # Idle /\ t \in Txs
  BY TradeConstants DEF FitInv, IInv, TypedInv
<1>1. ASSUME NEW p \in Players, NEW t \in Trades, NEW near \in BOOLEAN, Make(p, t, near) PROVE MutualInv'
  <2>1. NoneOpens /\ cpu = Idle
    BY <1>0, <1>1, ActiveStaysOpen DEF Make, Enter
  <2>2. (\E x : job' = [NoJob EXCEPT !.op = x]) /\ UNCHANGED <<place, pending, sides>>
    BY <1>1 DEF Make
  <2>3. job'.leaver = Nobody
    BY <2>2, EmptyTypes DEF NoJob
  <2> QED BY <1>0, <2>1, <2>2, <2>3, MutualKept DEF Closing
<1>2. ASSUME NEW t \in Trades, ExchangeStep(t) PROVE MutualInv'
  <2>1. NoneOpens /\ UNCHANGED cpu
    BY <1>0, <1>2, ExchangeIsWork, WorkLeaves
  <2>2. UNCHANGED <<place, pending, sides>> /\ cpu = t /\ job.op # "close"
    BY <1>2 DEF ExchangeStep
  <2>3. job' = job \/ job' = [job EXCEPT !.op = "close"]
    BY <1>2 DEF ExchangeStep, DeliverSlot, ConsumeSlot, Done, Failed
  <2>4. job'.leaver = job.leaver
    BY <1>0, <2>3 DEF TradeTyped, Job
  <2>5. job.leaver = Nobody
    BY <2>2 DEF MutualInv, LeaverLeft, Closing
  <2> QED BY <2>1, <2>2, <2>4, <2>5, MutualKept DEF Closing
<1>3. ASSUME NEW t \in Trades, CommitTrade(t) PROVE MutualInv'
  BY <1>3, RemovedMutual DEF CommitTrade
<1>4. ASSUME NEW t \in Trades, RollBackTrade(t) PROVE MutualInv'
  <2>1. CASE (StartRollback(t) \/ RunUndo(t) \/ UndoDone(t)) /\ UNCHANGED tradeVars
    <3>1. UNCHANGED <<txState, cpu>>
      BY <1>0, <2>1, RunUndoControl DEF StartRollback, UndoDone
    <3> QED BY <2>1, <3>1, MutualKept DEF NoneOpens, Closing, tradeVars
  <2>2. CASE FinishRollback(t) /\ Removed(t) /\ place' = [p \in Players |-> IF p = job.leaver THEN Away ELSE place[p]]
    BY <2>2, RemovedMutual
  <2> QED BY <1>4, <2>1, <2>2 DEF RollBackTrade
<1> QED BY <1>1, <1>2, <1>3, <1>4 DEF Exchanging

LEMMA MutualStep == FitInv /\ TypedInv /\ MutualInv /\ [TradeNext]_allVars => MutualInv'
<1> SUFFICES ASSUME FitInv, TypedInv, MutualInv, [TradeNext]_allVars PROVE MutualInv'
  OBVIOUS
<1>1. CASE UNCHANGED allVars
  <2>1. UNCHANGED <<place, pending, sides, txState, cpu, job>>
    BY <1>1 DEF allVars, vars, tradeVars
  <2> QED BY <2>1, MutualKept DEF NoneOpens, Closing
<1>2. CASE Handshake
  BY <1>2, RequestMutual, StartTradeMutual, ClosingMutual, EnterZoneMutual DEF Handshake
<1>3. ASSUME NEW t \in Txs, NEW p \in Restless, Purchase(t, p) PROVE MutualInv'
  <2>1. /\ NoneOpens /\ UNCHANGED <<place, pending, sides, job>>
        /\ \A u \in Trades : txState'[u] = txState[u] /\ cpu # u /\ cpu' # u
    BY <1>3, PurchaseLeaves DEF tradeVars
  <2>2. job.leaver = Nobody
    BY <2>1 DEF MutualInv, LeaverLeft
  <2> QED BY <2>1, <2>2, MutualKept DEF Closing
<1>4. ASSUME NEW p \in Restless, Elsewhere(p), UNCHANGED tradeVars PROVE MutualInv'
  <2>1. UNCHANGED <<place, pending, sides, txState, cpu, job>>
    BY <1>4, ElsewhereControl, TradeConstants DEF tradeVars
  <2> QED BY <2>1, MutualKept DEF NoneOpens, Closing
<1> QED BY <1>1, <1>2, <1>3, <1>4, StagingMutual, ExchangingMutual DEF TradeNext

LEMMA InitMutual == TradeInit => MutualInv
<1> SUFFICES ASSUME TradeInit PROVE MutualInv
  OBVIOUS
<1>1. \A p \in Players : pending[p].entity.id = Nobody
  BY EmptyTypes DEF TradeInit
<1>2. \A t \in Trades : txState[t] = "New"
  BY TradeConstants DEF TradeInit, Init
<1>3. job.leaver = Nobody
  BY EmptyTypes DEF TradeInit
<1> QED BY <1>1, <1>2, <1>3, TradeConstants DEF MutualInv, PairsAgree, SidesAgree, TradesApart, LeaverLeft

-----------------------------------------------------------------------------
(* What is staged is held                                                   *)

(* An exchange takes what was staged, so that it is no longer held.         *)
Busy(t) == cpu = t /\ job.op \in {"exchange", "close"}

HeldFor(t, i, n) ==
  LET c == Item(t, i, n)
  IN /\ c.slot # 0
     /\ c \in claims[t]
     /\ Resolves(c)
     /\ inv[c.owner][c.slot].qty >= stage[t][i][n].qty
     /\ c.owner = sides[t][i].id

(* The gil slot has gil, which is not held; each other one has a stack of   *)
(* its own, so that releasing it leaves the others held.                    *)
WindowHeld(t, i) ==
  \A n \in Staged(t, i) :
    /\ n = GilSlot => Item(t, i, n).slot = 0
    /\ n # GilSlot => HeldFor(t, i, n)
    /\ \A m \in Staged(t, i) \ {n} : Item(t, i, n).slot # Item(t, i, m).slot

StageHeld == \A t \in Trades : txState[t] = "Open" /\ ~Busy(t) => \A i \in 1..2 : WindowHeld(t, i)

NothingStaged == \A t \in Trades : txState[t] # "Open" => \A i \in 1..2 : Staged(t, i) = {}

StagedInv == StageHeld /\ NothingStaged

(* A claim of a transaction whose handler does not run is out of reach.     *)
LEMMA HoldsOn ==
  ASSUME IInv, [Next]_vars, NEW u \in Txs, cpu # u, NEW c \in claims[u], Resolves(c)
  PROVE  inv'[c.owner][c.slot] = inv[c.owner][c.slot] /\ Resolves(c)'
<1>1. c.owner \in Players /\ c.slot \in Slots
  BY DEF IInv, TypeOK, ItemId
<1>2. inv'[c.owner][c.slot] = inv[c.owner][c.slot]
  <2> SUFFICES ASSUME Next, inv'[c.owner][c.slot] # inv[c.owner][c.slot] PROVE FALSE
    BY DEF vars
  <2>1. inv[c.owner][c.slot].state = "InTransaction" /\ inv[c.owner][c.slot].uid = c.uid
    BY DEF IInv, ClaimInv, ClaimsExclusive, ClaimsAreStamped, Resolves
  <2>2. cpu \in Txs /\ Holds(cpu, c.owner, c.slot)
    BY <1>1, <2>1, HolderStep
  <2>3. PICK d \in claims[cpu] : d.uid = c.uid
    BY <2>1, <2>2 DEF Holds
  <2> QED BY <2>2, <2>3 DEF IInv, ClaimInv, ClaimsExclusive, OneHolder
<1> QED BY <1>2 DEF Resolves

LEMMA ClaimsOfOthers ==
  ASSUME TypeOK, [Next]_vars, NEW u \in Txs, cpu # u
  PROVE  claims'[u] = claims[u]
<1>1. ASSUME NEW t \in Txs, Handler(t) PROVE claims'[u] = claims[u]
  <2>1. CASE Enter(t)
    BY <2>1 DEF Enter
  <2>2. CASE Work(t)
    BY <2>2, WorkControl DEF OthersKeepTheirs
  <2>3. CASE RunUndo(t)
    BY <2>3, RunUndoControl
  <2>4. CASE Commit(t) \/ FinishRollback(t)
    BY <2>4, ClosedControl DEF OthersKeepTheirs
  <2>5. CASE Leave(t) \/ StartRollback(t) \/ UndoDone(t)
    BY <2>5 DEF Leave, StartRollback, UndoDone
  <2> QED BY <1>1, <2>1, <2>2, <2>3, <2>4, <2>5 DEF Handler
<1>2. ASSUME NEW p \in Players, Elsewhere(p) PROVE claims'[u] = claims[u]
  BY <1>2, ElsewhereControl
<1>3. CASE UNCHANGED vars
  BY <1>3 DEF vars
<1> QED BY <1>1, <1>2, <1>3 DEF Next

(* The window of a trade whose handler does not run stays held.             *)
LEMMA OtherWindow ==
  ASSUME IInv, TypedInv, [Next]_vars, NEW u \in Trades, cpu # u, NEW i \in 1..2, WindowHeld(u, i),
         stage'[u] = stage[u], sides'[u] = sides[u]
  PROVE  WindowHeld(u, i)'
<1>1. u \in Txs /\ TypeOK
  BY TradeConstants DEF IInv
<1>2. claims'[u] = claims[u]
  BY <1>1, ClaimsOfOthers
<1>3. Staged(u, i)' = Staged(u, i) /\ \A n : Item(u, i, n)' = Item(u, i, n)
  BY DEF Staged, Item
<1>4. ASSUME NEW n \in Staged(u, i), HeldFor(u, i, n) PROVE HeldFor(u, i, n)'
  <2> PICK c : c = Item(u, i, n)
    OBVIOUS
  <2>1. c \in claims[u] /\ Resolves(c)
    BY <1>4 DEF HeldFor
  <2>2. inv'[c.owner][c.slot] = inv[c.owner][c.slot] /\ Resolves(c)'
    BY <1>1, <2>1, HoldsOn
  <2>3. Item(u, i, n)' = c /\ stage'[u][i][n] = stage[u][i][n]
    BY <1>3
  <2> QED BY <1>2, <1>4, <2>1, <2>2, <2>3 DEF HeldFor
<1> QED BY <1>3, <1>4 DEF WindowHeld

(* What one step of a handler may do to the stacks its trade holds.         *)
KeepsHolding(t, gone) ==
  /\ claims[t] \ gone \subseteq claims'[t]
  /\ \A q \in Players, r \in Slots : inv'[q][r].uid = inv[q][r].uid /\ inv'[q][r].qty = inv[q][r].qty

LEMMA StillHeld ==
  ASSUME TypeOK, NEW t \in Txs, NEW gone, KeepsHolding(t, gone), NEW i \in 1..2, NEW n \in Window,
         HeldFor(t, i, n), Item(t, i, n) \notin gone, UNCHANGED sides, stage'[t][i][n] = stage[t][i][n]
  PROVE  HeldFor(t, i, n)'
<1> PICK c : c = Item(t, i, n)
  OBVIOUS
<1>1. c \in claims[t] /\ c.owner \in Players /\ c.slot \in Slots /\ Item(t, i, n)' = c
  <2>1. c \in claims[t]
    BY DEF HeldFor
  <2>2. c \in ItemId
    BY <2>1 DEF TypeOK
  <2>3. Item(t, i, n)' = c
    BY DEF Item
  <2> QED BY <2>1, <2>2, <2>3 DEF ItemId
<1>2. c \in claims'[t] /\ inv'[c.owner][c.slot].uid = inv[c.owner][c.slot].uid
      /\ inv'[c.owner][c.slot].qty = inv[c.owner][c.slot].qty
  BY <1>1 DEF KeepsHolding
<1> QED BY <1>1, <1>2 DEF HeldFor, Resolves

LEMMA ReleaseKeeps ==
  ASSUME TypeOK, NEW t \in Txs, NEW i \in 1..2, NEW n \in Window, ReleaseSlot(t, i, n)
  PROVE  KeepsHolding(t, {Item(t, i, n)})
<1> PICK c : c = Item(t, i, n)
  OBVIOUS
<1>1. CASE c \in claims[t]
  <2>1. inv' = Exited({c}) /\ claims' = [claims EXCEPT ![t] = @ \ {c}]
    BY <1>1 DEF ReleaseSlot, Release
  <2>2. claims'[t] = claims[t] \ {c}
    BY <2>1 DEF TypeOK
  <2> QED BY <2>1, <2>2, ExitEffect DEF KeepsHolding
<1>2. CASE c \notin claims[t]
  BY <1>2 DEF ReleaseSlot, UnchangedEngine, vars, KeepsHolding
<1> QED BY <1>1, <1>2

(* Two stacks in the windows of a trade are different ones.                 *)
LEMMA StagedApart ==
  ASSUME TypedInv, NEW t \in Txs, NEW i \in 1..2, NEW j \in 1..2, NEW n \in Window, NEW m \in Window,
         WindowHeld(t, i), WindowHeld(t, j), sides[t][1].id # sides[t][2].id,
         i # j \/ n # m, m # GilSlot, m \in Staged(t, j)
  PROVE  Item(t, i, n) # Item(t, j, m)
<1>1. Item(t, j, m).uid # NoUid /\ HeldFor(t, j, m)
  BY DEF Staged, WindowHeld
<1>2. CASE n \notin Staged(t, i)
  BY <1>1, <1>2 DEF Staged
<1>3. CASE n \in Staged(t, i) /\ i = j
  BY <1>3 DEF WindowHeld
<1>4. CASE n \in Staged(t, i) /\ i # j /\ n = GilSlot
  <2>1. Item(t, i, n).slot = 0
    BY <1>4 DEF WindowHeld
  <2> QED BY <1>1, <2>1 DEF HeldFor
<1>5. CASE n \in Staged(t, i) /\ i # j /\ n # GilSlot
  <2>1. HeldFor(t, i, n)
    BY <1>5 DEF WindowHeld
  <2>2. Item(t, i, n).owner = sides[t][i].id /\ Item(t, j, m).owner = sides[t][j].id
    BY <1>1, <2>1 DEF HeldFor
  <2> QED BY <1>5, <2>2
<1> QED BY <1>2, <1>3, <1>4, <1>5

LEMMA ReleaseHeld ==
  ASSUME TypeOK, TypedInv, NEW t \in Txs, NEW i \in 1..2, NEW n \in Window, ReleaseSlot(t, i, n),
         \A k \in 1..2 : WindowHeld(t, k), sides[t][1].id # sides[t][2].id, UNCHANGED sides, NEW j \in 1..2
  PROVE  WindowHeld(t, j)'
<1>1. SlotBecomes(t, i, n, NoStage)
  BY UnstagedChange DEF ReleaseSlot, TypedInv
<1>2. Item(t, i, n)'.uid = NoUid
  BY <1>1, EmptyTypes DEF SlotBecomes, Item
<1>3. ASSUME NEW m \in Staged(t, j)'
      PROVE  m \in Staged(t, j) /\ (j # i \/ m # n) /\ stage'[t][j][m] = stage[t][j][m] /\ Item(t, j, m)' = Item(t, j, m)
  <2>1. m \in Window /\ Item(t, j, m)'.uid # NoUid
    BY DEF Staged
  <2>2. j # i \/ m # n
    BY <1>2, <2>1
  <2>3. stage'[t][j][m] = stage[t][j][m]
    BY <1>1, <2>1, <2>2 DEF SlotBecomes
  <2> QED BY <2>1, <2>2, <2>3 DEF Staged, Item
<1>4. KeepsHolding(t, {Item(t, i, n)})
  BY ReleaseKeeps
<1>5. ASSUME NEW m \in Staged(t, j)', m # GilSlot PROVE HeldFor(t, j, m)'
  <2>1. m \in Window /\ m \in Staged(t, j) /\ (j # i \/ m # n) /\ stage'[t][j][m] = stage[t][j][m] /\ HeldFor(t, j, m)
    BY <1>3, <1>5 DEF Staged, WindowHeld
  <2>2. Item(t, j, m) \notin {Item(t, i, n)}
    BY <1>5, <2>1, StagedApart
  <2> QED BY <1>4, <2>1, <2>2, StillHeld
<1> QED BY <1>3, <1>5 DEF WindowHeld

(* A stack that is staged is claimed first, unless it is gil.               *)
LEMMA ClaimKeeps ==
  ASSUME TypeOK, NEW t \in Txs, NEW p \in Players, NEW s \in Slots,
         IF s = 0 THEN UnchangedEngine ELSE Claim(t, p, s)
  PROVE  /\ KeepsHolding(t, {})
         /\ s # 0 => IdOf(p, s) \in claims'[t]
<1>1. CASE s = 0
  BY <1>1 DEF UnchangedEngine, vars, KeepsHolding
<1>2. CASE s # 0
  <2>1. Stamp(p, s, "InTransaction") /\ claims' = [claims EXCEPT ![t] = @ \cup {IdOf(p, s)}]
    BY <1>2 DEF Claim
  <2>2. claims'[t] = claims[t] \cup {IdOf(p, s)}
    BY <2>1 DEF TypeOK
  <2>3. "InTransaction" \in States
    BY DEF States
  <2> QED BY <1>2, <2>1, <2>2, <2>3, StampEffect DEF KeepsHolding
<1> QED BY <1>1, <1>2

(* A stack of the player's own comes into a slot of his window.             *)
Stages(t, i, n, p, s, q) ==
  /\ p = sides[t][i].id
  /\ n = GilSlot <=> s = 0
  /\ Occupied(p, s) /\ inv[p][s].kind \in Kinds /\ q <= inv[p][s].qty
  /\ IF s = 0 THEN UnchangedEngine ELSE Claim(t, p, s)
  /\ stage' = [stage EXCEPT ![t][i][n] = [item |-> IdOf(p, s), qty |-> q]]
  /\ \A m \in Staged(t, i) \ {n} : Item(t, i, m).slot # s

LEMMA ClaimHeld ==
  ASSUME TypeOK, TypedInv, NEW t \in Txs, NEW i \in 1..2, NEW n \in Window, NEW s \in Slots, NEW q \in Nat \ {0},
         NEW p \in Players, Stages(t, i, n, p, s, q),
         \A k \in 1..2 : WindowHeld(t, k), UNCHANGED sides, NEW j \in 1..2
  PROVE  WindowHeld(t, j)'
<1>0. /\ p = sides[t][i].id
      /\ n = GilSlot <=> s = 0
      /\ Occupied(p, s) /\ inv[p][s].kind \in Kinds /\ q <= inv[p][s].qty
      /\ IF s = 0 THEN UnchangedEngine ELSE Claim(t, p, s)
      /\ stage' = [stage EXCEPT ![t][i][n] = [item |-> IdOf(p, s), qty |-> q]]
      /\ \A m \in Staged(t, i) \ {n} : Item(t, i, m).slot # s
  BY DEF Stages
<1> DEFINE x == [item |-> IdOf(p, s), qty |-> q]
<1>1. inv[p][s].uid \in Nat \ {NoUid} /\ inv[p][s].qty \in Nat
  <2>1. inv[p][s] \in Stack
    BY PlaceType
  <2> QED BY <1>0, <2>1 DEF Stack, Occupied
<1>2. x \in StageType
  BY <1>0, <1>1 DEF StageType, StackId, IdOf
<1>3. SlotBecomes(t, i, n, x)
  BY <1>0, <1>2, StageChange DEF TypedInv
<1>4. KeepsHolding(t, {}) /\ (s # 0 => IdOf(p, s) \in claims'[t])
  BY <1>0, ClaimKeeps
<1>5. Item(t, i, n)' = IdOf(p, s) /\ stage'[t][i][n].qty = q /\ IdOf(p, s).slot = s
  <2>1. stage'[t][i][n] = x /\ x.item = IdOf(p, s) /\ x.qty = q
    BY <1>3 DEF SlotBecomes
  <2>2. IdOf(p, s).slot = s
    BY DEF IdOf
  <2> HIDE DEF x
  <2> QED BY <2>1, <2>2 DEF Item
<1> HIDE DEF x
<1>6. ASSUME NEW m \in Staged(t, j)', j # i \/ m # n
      PROVE  m \in Staged(t, j) /\ stage'[t][j][m] = stage[t][j][m] /\ Item(t, j, m)' = Item(t, j, m)
  BY <1>3, <1>6 DEF Staged, SlotBecomes, Item
<1>7. n # GilSlot => HeldFor(t, i, n)'
  <2> SUFFICES ASSUME n # GilSlot PROVE HeldFor(t, i, n)'
    OBVIOUS
  <2> PICK c : c = IdOf(p, s)
    OBVIOUS
  <2>1. c.owner = p /\ c.slot = s /\ c.uid = inv[p][s].uid /\ s # 0 /\ c \in claims'[t]
    BY <1>0, <1>4 DEF IdOf
  <2>2. inv'[p][s].uid = inv[p][s].uid /\ inv'[p][s].qty >= q
    BY <1>0, <1>1, <1>4 DEF KeepsHolding
  <2>3. Item(t, i, n)' = c /\ sides'[t][i].id = p
    BY <1>0, <1>5
  <2> QED BY <1>5, <2>1, <2>2, <2>3 DEF HeldFor, Resolves
<1>8. ASSUME NEW m \in Staged(t, j)', m # GilSlot PROVE HeldFor(t, j, m)'
  <2>1. CASE j = i /\ m = n
    BY <1>7, <1>8, <2>1
  <2>2. CASE j # i \/ m # n
    <3>1. m \in Window /\ HeldFor(t, j, m) /\ stage'[t][j][m] = stage[t][j][m] /\ Item(t, j, m) \notin {}
      BY <1>6, <1>8, <2>2 DEF WindowHeld, Staged
    <3> QED BY <1>4, <3>1, StillHeld
  <2> QED BY <2>1, <2>2
<1>9. ASSUME NEW m \in Staged(t, j)', NEW o \in Staged(t, j)' \ {m}
      PROVE  Item(t, j, m)'.slot # Item(t, j, o)'.slot
  <2>1. CASE j = i /\ m = n
    <3>1. o \in Staged(t, i) \ {n} /\ Item(t, j, o)' = Item(t, i, o)
      BY <1>6, <1>9, <2>1
    <3> QED BY <1>0, <1>5, <2>1, <3>1
  <2>2. CASE j = i /\ o = n
    <3>1. m \in Staged(t, i) \ {n} /\ Item(t, j, m)' = Item(t, i, m)
      BY <1>6, <1>9, <2>2
    <3> QED BY <1>0, <1>5, <2>2, <3>1
  <2>3. CASE j # i \/ (m # n /\ o # n)
    BY <1>6, <1>9, <2>3 DEF WindowHeld
  <2> QED BY <2>1, <2>2, <2>3
<1>10. ASSUME NEW m \in Staged(t, j)', m = GilSlot PROVE Item(t, j, m)'.slot = 0
  <2>1. CASE j = i /\ m = n
    BY <1>0, <1>5, <1>10, <2>1
  <2>2. CASE j # i \/ m # n
    BY <1>6, <1>10, <2>2 DEF WindowHeld
  <2> QED BY <2>1, <2>2
<1> QED BY <1>8, <1>9, <1>10 DEF WindowHeld

LEMMA SameWindow ==
  ASSUME NEW t, NEW i, WindowHeld(t, i), UNCHANGED <<inv, claims, stage, sides>>
  PROVE  WindowHeld(t, i)'
<1>1. Staged(t, i)' = Staged(t, i) /\ \A n : Item(t, i, n)' = Item(t, i, n)
  BY DEF Staged, Item
<1>2. \A n : HeldFor(t, i, n) => HeldFor(t, i, n)'
  BY <1>1 DEF HeldFor, Resolves
<1> QED BY <1>1, <1>2 DEF WindowHeld

(* Between two handlers nothing of a window changes; the trade that opens   *)
(* has empty windows.                                                       *)
LEMMA IdleStaged ==
  ASSUME IInv, TypedInv, StagedInv, [Next]_vars, cpu = Idle, UNCHANGED stage,
         \A u \in Trades : \/ txState'[u] = txState[u] /\ sides'[u] = sides[u]
                           \/ txState[u] = "New"
  PROVE  StagedInv'
<1>0. \A u \in Trades : cpu # u
  BY TradeConstants
<1>1. ASSUME NEW u \in Trades, txState'[u] = "Open", NEW i \in 1..2 PROVE WindowHeld(u, i)'
  <2>1. CASE txState'[u] = txState[u] /\ sides'[u] = sides[u]
    <3>1. WindowHeld(u, i)
      BY <1>0, <1>1, <2>1 DEF StagedInv, StageHeld, Busy
    <3> QED BY <1>0, <2>1, <3>1, OtherWindow
  <2>2. CASE txState[u] = "New"
    <3>1. Staged(u, i)' = {}
      BY <2>2 DEF StagedInv, NothingStaged, Staged, Item
    <3> QED BY <3>1 DEF WindowHeld
  <2> QED BY <2>1, <2>2
<1>2. NothingStaged'
  BY DEF StagedInv, NothingStaged, Staged, Item
<1> QED BY <1>1, <1>2 DEF StagedInv, StageHeld

(* While the handler of one transaction runs the windows of the others are  *)
(* out of its reach.                                                        *)
LEMMA RunningStaged ==
  ASSUME IInv, TypedInv, StagedInv, [Next]_vars, NEW t \in Txs, cpu = t,
         \A u \in Trades \ {t} : txState'[u] = txState[u] /\ sides'[u] = sides[u] /\ stage'[u] = stage[u],
         t \in Trades =>
           /\ txState'[t] = "Open" /\ ~Busy(t)' => \A i \in 1..2 : WindowHeld(t, i)'
           /\ txState'[t] # "Open" => \A i \in 1..2 : Staged(t, i)' = {}
  PROVE  StagedInv'
<1>1. ASSUME NEW u \in Trades, txState'[u] = "Open", ~Busy(u)', NEW i \in 1..2 PROVE WindowHeld(u, i)'
  <2>1. CASE u # t
    <3>1. WindowHeld(u, i)
      BY <1>1, <2>1 DEF StagedInv, StageHeld, Busy
    <3> QED BY <1>1, <2>1, <3>1, OtherWindow
  <2> QED BY <1>1, <2>1
<1>2. ASSUME NEW u \in Trades, txState'[u] # "Open", NEW i \in 1..2 PROVE Staged(u, i)' = {}
  <2>1. CASE u # t
    BY <1>2, <2>1 DEF StagedInv, NothingStaged, Staged, Item
  <2> QED BY <1>2, <2>1
<1> QED BY <1>1, <1>2 DEF StagedInv, StageHeld, NothingStaged

(* The two sides of a trade that is being staged are two players.           *)
LEMMA TwoSides ==
  ASSUME MutualInv, NEW t \in Trades, txState[t] = "Open", ~Closing(t)
  PROVE  sides[t][1].id # sides[t][2].id
BY EntityIs DEF MutualInv, SidesAgree, Mutually

LEMMA StagingStaged ==
  ASSUME FitInv, TypedInv, MutualInv, StagedInv, NEW t \in Trades, SetSlotUnstages(t) \/ SetSlotStages(t)
  PROVE  \A j \in 1..2 : WindowHeld(t, j)'
<1>0. /\ TypeOK /\ IInv /\ TradeTyped /\ t \in Txs /\ cpu = t /\ txState[t] = "Open"
      /\ job.op \in {"unstage", "stage"} /\ job.side \in 1..2 /\ job.slot \in Window
      /\ job.from \in Slots /\ job.qty \in Nat /\ UNCHANGED sides
  BY TradeConstants DEF SetSlotUnstages, SetSlotStages, FitInv, IInv, ClaimInv, OpenHold, TypedInv, TradeTyped, Job
<1>1. (\A k \in 1..2 : WindowHeld(t, k)) /\ sides[t][1].id # sides[t][2].id
  BY <1>0, TwoSides DEF StagedInv, StageHeld, Busy, Closing
<1>2. ASSUME NEW n \in Window, ReleaseSlot(t, job.side, n), NEW j \in 1..2 PROVE WindowHeld(t, j)'
  BY <1>0, <1>1, <1>2, ReleaseHeld
<1>3. ASSUME UnchangedEngine, UNCHANGED stage, NEW j \in 1..2 PROVE WindowHeld(t, j)'
  BY <1>0, <1>1, <1>3, SameWindow DEF UnchangedEngine, vars
<1>4. ASSUME job.op = "stage", Twice(t) = {}, Stageable(t, job.from, job.qty),
             IF job.from = 0 THEN UnchangedEngine ELSE Claim(t, sides[t][job.side].id, job.from),
             stage' = [stage EXCEPT ![t][job.side][job.slot] =
                         [item |-> IdOf(sides[t][job.side].id, job.from), qty |-> job.qty]],
             NEW j \in 1..2
      PROVE  WindowHeld(t, j)'
  <2> PICK i \in 1..2, n \in Window, s \in Slots : i = job.side /\ n = job.slot /\ s = job.from
    BY <1>0
  <2> PICK q \in Nat \ {0} : q = job.qty
    BY <1>0, <1>4 DEF TypedInv, JobFits
  <2> PICK p \in Players : p = sides[t][i].id
    BY <1>0 DEF TypedInv, SidesArePlayers
  <2>1. n = GilSlot <=> s = 0
    BY <1>0 DEF TypedInv, JobFits
  <2>2. Occupied(p, s) /\ inv[p][s].kind \in Kinds /\ q <= inv[p][s].qty
    BY <1>0, <1>4 DEF Stageable, Occupied, IInv, ClaimInv, StacksHaveKinds
  <2>3. \A m \in Staged(t, i) \ {n} : Item(t, i, m).slot # s
    BY <1>4 DEF Twice
  <2>4. /\ IF s = 0 THEN UnchangedEngine ELSE Claim(t, p, s)
        /\ stage' = [stage EXCEPT ![t][i][n] = [item |-> IdOf(p, s), qty |-> q]]
    BY <1>4
  <2>5. Stages(t, i, n, p, s, q)
    BY <2>1, <2>2, <2>3, <2>4 DEF Stages
  <2> QED BY <1>0, <1>1, <2>5, ClaimHeld
<1>5. \/ \E n \in Window : ReleaseSlot(t, job.side, n)
      \/ UnchangedEngine /\ UNCHANGED stage
      \/ /\ job.op = "stage" /\ Twice(t) = {} /\ Stageable(t, job.from, job.qty)
         /\ IF job.from = 0 THEN UnchangedEngine ELSE Claim(t, sides[t][job.side].id, job.from)
         /\ stage' = [stage EXCEPT ![t][job.side][job.slot] =
                        [item |-> IdOf(sides[t][job.side].id, job.from), qty |-> job.qty]]
  BY <1>0 DEF SetSlotUnstages, SetSlotStages, Twice, Staged
<1> QED BY <1>2, <1>3, <1>4, <1>5

LEMMA RunningIsOpen ==
  ASSUME FitInv, NEW t \in Trades, cpu = t
  PROVE  t \in Txs /\ txState[t] = "Open"
BY TradeConstants DEF FitInv, IInv, ClaimInv, OpenHold

LEMMA HandshakeStaged ==
  ASSUME FitInv, TypedInv, StagedInv, Handshake, [Next]_vars
  PROVE  StagedInv'
<1>0. TypeOK /\ IInv /\ TradeTyped /\ Trades \subseteq Txs
  BY TradeConstants DEF FitInv, IInv, TypedInv
<1>1. UNCHANGED stage /\ cpu = Idle
  BY DEF Handshake, Request, StartTrade, CancelTrade, LeaveZone, EnterZone, Abort, Enter
<1>2. ASSUME NEW p \in Players, NEW q \in Players, NEW aged \in BOOLEAN, Request(p, q, aged)
      PROVE  UNCHANGED <<txState, sides>>
  BY <1>2 DEF Request, UnchangedEngine, vars
<1>3. ASSUME NEW p \in Players, NEW t \in Trades, NEW near \in BOOLEAN, StartTrade(p, t, near)
      PROVE  \A u \in Trades : (txState'[u] = txState[u] /\ sides'[u] = sides[u]) \/ txState[u] = "New"
  <2>1. CASE Enter(t) /\ txState[t] = "New" /\ sides' = [sides EXCEPT ![t] = <<EntityOf(p), EntityOf(Partner(p))>>]
    BY <1>0, <2>1, EnterEffect DEF TradeTyped
  <2>2. CASE UNCHANGED sides /\ UnchangedEngine
    BY <2>2 DEF UnchangedEngine, vars
  <2> QED BY <1>3, <2>1, <2>2 DEF StartTrade
<1>4. ASSUME NEW p \in Players, CancelTrade(p) \/ LeaveZone(p) PROVE UNCHANGED <<txState, sides>>
  <2>1. ASSUME NEW t \in ActiveTrade(p), NEW q, Abort(t, q) PROVE UNCHANGED <<txState, sides>>
    BY <1>0, <2>1, ActiveStaysOpen DEF Abort
  <2> QED BY <1>4, <2>1 DEF CancelTrade, LeaveZone, UnchangedEngine, vars
<1>5. ASSUME NEW p \in Players, NEW a \in Targids, EnterZone(p, a) PROVE UNCHANGED <<txState, sides>>
  BY <1>5 DEF EnterZone, UnchangedEngine, vars
<1>6. \A u \in Trades : (txState'[u] = txState[u] /\ sides'[u] = sides[u]) \/ txState[u] = "New"
  BY <1>2, <1>3, <1>4, <1>5 DEF Handshake
<1> QED BY <1>0, <1>1, <1>6, IdleStaged

LEMMA StagingStepStaged ==
  ASSUME FitInv, TypedInv, MutualInv, StagedInv, Staging, [Next]_vars
  PROVE  StagedInv'
<1>0. TypeOK /\ IInv /\ TradeTyped /\ Trades \subseteq Txs
  BY TradeConstants DEF FitInv, IInv, TypedInv
<1>1. ASSUME NEW p \in Players, NEW t \in Trades, NEW n, NEW s, NEW q, SetSlot(p, t, n, s, q) PROVE StagedInv'
  <2>1. UNCHANGED <<txState, sides, stage>> /\ cpu = Idle
    BY <1>0, <1>1, ActiveStaysOpen DEF SetSlot, Enter
  <2> QED BY <1>0, <2>1, IdleStaged
<1>2. ASSUME NEW t \in Trades, SetSlotUnstages(t) \/ SetSlotStages(t) PROVE StagedInv'
  <2>1. /\ t \in Txs /\ cpu = t /\ txState[t] = "Open" /\ UNCHANGED <<sides, txState>>
        /\ job.side \in 1..2 /\ job.slot \in Window
    BY <1>0, <1>2, StagingIsWork, WorkLeaves, RunningIsOpen
       DEF SetSlotUnstages, SetSlotStages, TradeTyped, Job
  <2>2. \A u \in Trades \ {t} : stage'[u] = stage[u]
    BY <1>0, <1>2 DEF SetSlotUnstages, SetSlotStages, ReleaseSlot, Unstaged, TradeTyped
  <2>3. \A i \in 1..2 : WindowHeld(t, i)'
    BY <1>2, StagingStaged
  <2> QED BY <1>0, <2>1, <2>2, <2>3, RunningStaged
<1>3. ASSUME NEW t \in Trades, LeaveTrade(t) PROVE StagedInv'
  <2>1. /\ t \in Txs /\ cpu = t /\ txState[t] = "Open" /\ ~Busy(t)
        /\ UNCHANGED <<sides, txState, stage, inv, claims>>
    BY <1>0, <1>3, RunningIsOpen DEF LeaveTrade, Leave, Busy
  <2>2. \A i \in 1..2 : WindowHeld(t, i)'
    BY <2>1, SameWindow DEF StagedInv, StageHeld
  <2> QED BY <1>0, <2>1, <2>2, RunningStaged
<1> QED BY <1>1, <1>2, <1>3 DEF Staging

LEMMA RemovedStaged ==
  ASSUME FitInv, TypedInv, StagedInv, [Next]_vars, NEW t \in Trades, Removed(t), Commit(t) \/ FinishRollback(t)
  PROVE  StagedInv'
<1>0. TypeOK /\ IInv /\ TradeTyped /\ Trades \subseteq Txs /\ t \in Txs
  BY TradeConstants DEF FitInv, IInv, TypedInv
<1>1. cpu = t /\ txState'[t] # "Open" /\ \A u \in Txs \ {t} : txState'[u] = txState[u]
  BY <1>0, ClosedEffect
<1>2. \A u \in Trades \ {t} : sides'[u] = sides[u] /\ stage'[u] = stage[u]
  BY <1>0 DEF Removed, TradeTyped
<1>3. stage'[t] = <<EmptyWindow, EmptyWindow>>
  BY <1>0 DEF Removed, TradeTyped
<1>4. \A i \in 1..2 : Staged(t, i)' = {}
  BY <1>3, EmptyTypes DEF Staged, Item, EmptyWindow
<1> QED BY <1>0, <1>1, <1>2, <1>4, RunningStaged

LEMMA ExchangingStaged ==
  ASSUME FitInv, TypedInv, StagedInv, Exchanging, [Next]_vars
  PROVE  StagedInv'
<1>0. TypeOK /\ IInv /\ TradeTyped /\ Trades \subseteq Txs
  BY TradeConstants DEF FitInv, IInv, TypedInv
<1>1. ASSUME NEW p \in Players, NEW t \in Trades, NEW near \in BOOLEAN, Make(p, t, near) PROVE StagedInv'
  <2>1. UNCHANGED <<txState, sides, stage>> /\ cpu = Idle
    BY <1>0, <1>1, ActiveStaysOpen DEF Make, Enter
  <2> QED BY <1>0, <2>1, IdleStaged
<1>2. ASSUME NEW t \in Trades, ExchangeStep(t) PROVE StagedInv'
  <2>1. t \in Txs /\ cpu = t /\ txState[t] = "Open" /\ UNCHANGED <<sides, txState, cpu>>
    BY <1>0, <1>2, ExchangeIsWork, WorkLeaves, RunningIsOpen DEF ExchangeStep
  <2>2. \A u \in Trades \ {t} : stage'[u] = stage[u]
    BY <1>0, <1>2 DEF ExchangeStep, ReleaseSlot, Unstaged, TradeTyped
  <2>3. job' = job \/ job' = [job EXCEPT !.op = "close"]
    BY <1>2 DEF ExchangeStep, DeliverSlot, ConsumeSlot, Done, Failed
  <2>4. job'.op \in {"exchange", "close"}
    BY <1>0, <1>2, <2>3 DEF ExchangeStep, TradeTyped, Job
  <2> QED BY <1>0, <2>1, <2>2, <2>4, RunningStaged DEF Busy
<1>3. ASSUME NEW t \in Trades, CommitTrade(t) PROVE StagedInv'
  BY <1>3, RemovedStaged DEF CommitTrade
<1>4. ASSUME NEW t \in Trades, RollBackTrade(t) PROVE StagedInv'
  <2>1. CASE (StartRollback(t) \/ RunUndo(t) \/ UndoDone(t)) /\ UNCHANGED tradeVars
    <3>1. /\ t \in Txs /\ cpu = t /\ txState[t] = "Open" /\ UNCHANGED <<txState, cpu, sides, stage, job>>
      BY <1>0, <2>1, RunUndoControl, RunningIsOpen DEF StartRollback, UndoDone, tradeVars
    <3>2. Busy(t)'
      BY <1>4, <3>1 DEF RollBackTrade, Busy
    <3> QED BY <1>0, <3>1, <3>2, RunningStaged
  <2>2. CASE FinishRollback(t) /\ Removed(t)
    BY <2>2, RemovedStaged
  <2> QED BY <1>4, <2>1, <2>2 DEF RollBackTrade
<1> QED BY <1>1, <1>2, <1>3, <1>4 DEF Exchanging

LEMMA StagedStep == FitInv /\ TypedInv /\ MutualInv /\ StagedInv /\ [TradeNext]_allVars => StagedInv'
<1> SUFFICES ASSUME FitInv, TypedInv, MutualInv, StagedInv, [TradeNext]_allVars PROVE StagedInv'
  OBVIOUS
<1>0. TypeOK /\ IInv /\ [Next]_vars /\ Trades \subseteq Txs
  BY EngineStep, TradeConstants DEF FitInv, IInv
<1>1. CASE UNCHANGED allVars
  <2>1. UNCHANGED <<inv, claims, txState, cpu, sides, stage, job>>
    BY <1>1 DEF allVars, vars, tradeVars
  <2>2. \A t, i : WindowHeld(t, i) => WindowHeld(t, i)'
    BY <2>1, SameWindow
  <2> QED BY <2>1, <2>2 DEF StagedInv, StageHeld, NothingStaged, Busy, Staged, Item
<1>2. CASE Handshake
  BY <1>0, <1>2, HandshakeStaged
<1>3. CASE Staging
  BY <1>0, <1>3, StagingStepStaged
<1>4. CASE Exchanging
  BY <1>0, <1>4, ExchangingStaged
<1>5. ASSUME NEW t \in Txs, NEW p \in Restless, Purchase(t, p) PROVE StagedInv'
  <2>1. /\ UNCHANGED <<sides, stage>>
        /\ \A u \in Trades : txState'[u] = txState[u]
    BY <1>5, PurchaseLeaves DEF tradeVars
  <2>2. t \notin Trades /\ cpu \in {t, Idle}
    <3>1. t \notin Trades /\ (Enter(t) \/ Work(t) \/ Commit(t))
      BY <1>5, PurchaseIsHandler, TradeConstants
    <3> QED BY <1>0, <3>1, WorkControl DEF Enter, Commit
  <2>3. CASE cpu = Idle
    BY <1>0, <2>1, <2>3, IdleStaged
  <2>4. CASE cpu = t
    BY <1>0, <2>1, <2>2, <2>4, RunningStaged
  <2> QED BY <2>2, <2>3, <2>4
<1>6. ASSUME NEW p \in Restless, Elsewhere(p), UNCHANGED tradeVars PROVE StagedInv'
  <2>1. UNCHANGED <<sides, stage, txState>> /\ cpu = Idle
    BY <1>6, ElsewhereControl, TradeConstants DEF tradeVars
  <2> QED BY <1>0, <2>1, IdleStaged
<1> QED BY <1>1, <1>2, <1>3, <1>4, <1>5, <1>6 DEF TradeNext

LEMMA InitStaged == TradeInit => StagedInv
<1> SUFFICES ASSUME TradeInit PROVE StagedInv
  OBVIOUS
<1>1. \A t \in Trades : txState[t] = "New"
  BY TradeConstants DEF TradeInit, Init
<1>2. \A t \in Trades, i \in 1..2 : Staged(t, i) = {}
  <2>1. \A t \in Trades, i \in 1..2 : stage[t][i] = EmptyWindow
    BY TradeConstants DEF TradeInit
  <2> QED BY <2>1, EmptyTypes DEF Staged, Item, EmptyWindow
<1> QED BY <1>1, <1>2 DEF StagedInv, StageHeld, NothingStaged

-----------------------------------------------------------------------------
(* What holds of every trade                                                *)

TradeInv == FitInv /\ TypedInv /\ MutualInv /\ StagedInv

(* The invariant holds in every state the trades reach.                     *)
THEOREM TradeInvariant == TradeSpec => []TradeInv
<1>1. TradeInit => TradeInv
  BY InitFit, InitTyped, InitMutual, InitStaged DEF TradeInit, TradeInv
<1>2. TradeInv /\ [TradeNext]_allVars => TradeInv'
  BY EngineStep, FitStep, TypedStep, MutualStep, StagedStep DEF TradeInv
<1> QED BY <1>1, <1>2, PTL DEF TradeSpec

(* The handlers of the trades use the engine as it is meant to be used:     *)
(* whatever they and the rest of the server do to inventories and claims is *)
(* a behaviour of the engine.                                               *)
THEOREM TradesRunOnTheEngine == TradeSpec => Spec
<1>1. TradeInit => Init
  BY DEF TradeInit
<1>2. TradeInv /\ [TradeNext]_allVars => [Next]_vars
  BY EngineStep DEF TradeInv
<1> QED BY <1>1, <1>2, TradeInvariant, PTL DEF TradeSpec, Spec

(* So a trade that fails half way gives both players back what they had,    *)
(* unless a write of the rollback itself fails.                             *)
THEOREM FailedTradesRestore == TradeSpec => RollbackRestores
BY TradesRunOnTheEngine, RollbackRestoresAll, PTL

(* Type correctness of the trades.                                          *)
THEOREM TradesKeepTypes == TradeSpec => []TradeTypeOK
<1>1. TradeInv => TradeTypeOK
  BY TypedIsTypeOK DEF TradeInv, TypedInv
<1> QED BY <1>1, TradeInvariant, PTL

(* Whatever is requested, answered, cancelled, left and entered in any      *)
(* order by any number of players: between handlers an open trade is found  *)
(* by both its sides, and nobody is in two of them.                         *)
THEOREM BothSidesFindTheTrade == TradeSpec => []OpenTradeIsMutual
<1>1. ASSUME TradeInv PROVE OpenTradeIsMutual
  <2> SUFFICES ASSUME cpu = Idle, NEW t \in Trades, txState[t] = "Open"
               PROVE  /\ \E p, q \in Players :
                           /\ Who(t, 1) = p /\ Who(t, 2) = q /\ p # q
                           /\ Partner(p) = q /\ Partner(q) = p
                      /\ \A u \in Trades \ {t} : txState[u] = "Open" =>
                           {sides[t][1].id, sides[t][2].id} \cap {sides[u][1].id, sides[u][2].id} = {}
    BY DEF OpenTradeIsMutual
  <2>1. PICK p \in Players, q \in Players : /\ Mutually(p, q)
                                            /\ sides[t][1] = EntityOf(p)
                                            /\ sides[t][2] = EntityOf(q)
    BY <1>1, TradeConstants DEF TradeInv, MutualInv, SidesAgree, Closing
  <2>2. p # Nobody /\ q # Nobody /\ p # q
    BY <2>1, TradeConstants DEF Mutually
  <2>3. Resolved(EntityOf(p)) = p /\ Resolved(EntityOf(q)) = q
    BY <2>1, <2>2, EntityIs DEF Resolved, Mutually
  <2>4. Who(t, 1) = p /\ Who(t, 2) = q /\ Partner(p) = q /\ Partner(q) = p
    BY <2>1, <2>2, <2>3, EntityIs DEF Who, Partner, Mutually
  <2>5. \A u \in Trades \ {t} : txState[u] = "Open" =>
          {sides[t][1].id, sides[t][2].id} \cap {sides[u][1].id, sides[u][2].id} = {}
    BY <1>1 DEF TradeInv, MutualInv, TradesApart, Parties
  <2> QED BY <2>2, <2>4, <2>5
<1>2. TradeInv => OpenTradeIsMutual
  BY <1>1
<1> QED BY <1>2, TradeInvariant, PTL

(* Between handlers every staged stack but gil is there, claimed by its     *)
(* trade, in the quantity that is offered and of the player who offers it,  *)
(* whatever the rest of the server did since.                               *)
THEOREM StagedStaysHeld == TradeSpec => []StagedIsHeld
<1>1. ASSUME TradeInv PROVE StagedIsHeld
  <2> SUFFICES ASSUME cpu = Idle, NEW t \in Trades, txState[t] = "Open", NEW i \in 1..2,
                      NEW n \in Staged(t, i) \ {GilSlot}
               PROVE  HeldFor(t, i, n)
    BY DEF StagedIsHeld, HeldFor
  <2>1. WindowHeld(t, i)
    BY <1>1, TradeConstants DEF TradeInv, StagedInv, StageHeld, Busy
  <2> QED BY <2>1 DEF WindowHeld
<1>2. TradeInv => StagedIsHeld
  BY <1>1
<1> QED BY <1>2, TradeInvariant, PTL

-----------------------------------------------------------------------------
(* The gil of a character stays in its place                                *)

LEMMA GilStays ==
  ASSUME FitInv, [Next]_vars, NEW o \in Players, inv[o][0].uid # NoUid
  PROVE  inv'[o][0].uid = inv[o][0].uid
<1> DEFINE Stays == inv'[o][0].uid = inv[o][0].uid
<1>0. TypeOK /\ IInv /\ StacksHaveKinds /\ 0 \in Slots /\ inv[o][0].kind = Gil
  BY TradeConstants DEF FitInv, IInv, ClaimInv, StacksFit, Fits
<1>1. ASSUME inv' = inv PROVE Stays
  BY <1>1
<1>2. ASSUME NEW t \in Txs, NEW p \in Players, NEW s \in Slots, NEW delta \in Int, NEW ok \in BOOLEAN,
             CanUpdate(t, p, s, delta), UpdateStack(p, s, delta, ok)
      PROVE  Stays
  BY <1>0, <1>2, UpdateEffect DEF CanUpdate
<1>3. ASSUME NEW p \in Players, NEW s \in Slots, NEW k \in Kinds, NEW n \in Nat, NEW ok \in BOOLEAN,
             InsertStack(p, s, k, n, ok), ~Occupied(p, s)
      PROVE  Stays
  <2>1. \A x \in Players, y \in Slots :
          \/ inv'[x][y] = inv[x][y]
          \/ /\ x = p /\ y = s
             /\ inv'[x][y] = [uid |-> nextUid, kind |-> k, qty |-> n, state |-> "Free"]
    BY <1>0, <1>3, InsertStackEffect
  <2>2. inv'[o][0] = inv[o][0] \/ (o = p /\ 0 = s)
    BY <1>0, <2>1
  <2> QED BY <1>3, <2>2 DEF Occupied
<1>4. ASSUME NEW ids, inv' = Exited(ids) PROVE Stays
  BY <1>0, <1>4, ExitEffect
<1>5. ASSUME NEW p \in Players, NEW s \in Slots, NEW st \in States, Stamp(p, s, st) PROVE Stays
  BY <1>0, <1>5, StampEffect
<1> HIDE DEF Stays
<1>6. ASSUME NEW t \in Txs, Work(t) PROVE Stays
  <2>1. ASSUME NEW p \in Players, NEW s \in Slots, Claim(t, p, s) PROVE Stays
    BY <2>1, <1>5 DEF Claim, States
  <2>2. ASSUME NEW p \in Players, NEW ok \in BOOLEAN, NEW k \in Kinds, NEW n \in 1..StackSize[k],
               Give(t, p, k, n, ok)
        PROVE  Stays
    <3> DEFINE m == Lesser(n, StackSize[k])
    <3>1. m \in Nat
      BY ConstantsAssumption DEF Lesser
    <3> HIDE DEF m
    <3>2. PICK s \in FreeSlots(p) : InsertStack(p, s, k, m, ok)
      BY <2>2 DEF Give, m
    <3> QED BY <3>1, <3>2, <1>3 DEF FreeSlots
  <2>3. ASSUME NEW p \in Players, NEW s \in Slots, NEW ok \in BOOLEAN,
               NEW n \in 1..StackSize[inv[p][s].kind], Grow(t, p, s, n, ok) \/ Take(t, p, s, n, ok)
        PROVE  Stays
    <3>1. \E delta \in {n, -n} : CanUpdate(t, p, s, delta) /\ UpdateStack(p, s, delta, ok)
      BY <2>3 DEF Grow, Take
    <3>2. n \in Int /\ -n \in Int
      OBVIOUS
    <3> QED BY <3>1, <3>2, <1>2
  <2> QED BY <1>4, <1>6, <2>1, <2>2, <2>3 DEF Work, Release
<1>7. ASSUME NEW t \in Txs, RunUndo(t) PROVE Stays
  <2> DEFINE u == LastUndo(t)
  <2>1. Undoing(t)
    BY <1>7 DEF RunUndo, UndoDelta, UndoRestore
  <2>2. u \in Undo
    BY <1>0, <2>1, PopType DEF Undoing
  <2>3. /\ u.owner \in Players /\ u.slot \in Slots /\ u.qty \in Int
        /\ u.snap # NoKind => u.snap \in Kinds /\ u.qty \in Nat
    BY <2>2 DEF Undo
  <2> HIDE DEF u
  <2>4. ASSUME NEW s \in Slots, UndoUpdate(t, u.owner, s, u.qty) PROVE Stays
    BY <1>1, <1>2, <2>3, <2>4 DEF UndoUpdate, Refuse, FailUndo, SkipUndo
  <2>5. ASSUME NEW s \in Slots, ~Occupied(u.owner, s), u.snap # NoKind, RestoreInto(t, u.owner, s, u.snap, u.qty)
        PROVE  Stays
    BY <1>3, <2>3, <2>5 DEF RestoreInto
  <2>6. CASE UndoDelta(t)
    BY <2>3, <2>4, <2>6 DEF UndoDelta, u
  <2>7. CASE UndoRestore(t)
    BY <1>0, <1>1, <2>3, <2>4, <2>5, <2>7 DEF UndoRestore, u, FreeSlots, Refuse, SkipUndo
  <2> QED BY <1>7, <2>6, <2>7 DEF RunUndo
<1>8. ASSUME NEW t \in Txs,
             Commit(t) \/ FinishRollback(t) \/ Enter(t) \/ Leave(t) \/ StartRollback(t) \/ UndoDone(t)
      PROVE  Stays
  BY <1>1, <1>4, <1>8 DEF Commit, FinishRollback, ReleaseAll, Enter, Leave, StartRollback, UndoDone
<1>9. ASSUME NEW p \in Players, Elsewhere(p) PROVE Stays
  <2>1. ASSUME NEW s \in Slots, NEW st \in States, Mark(p, s, st) PROVE Stays
    BY <2>1, <1>5 DEF Mark
  <2>2. ASSUME NEW s \in Slots, NEW x \in Slots, NEW ok \in BOOLEAN, MoveItemTo(p, s, x, ok) PROVE Stays
    <3>1. inv[p][s].kind # Gil /\ x # 0
      BY <2>2 DEF MoveItemTo, FreeSlots
    <3>2. inv'[o][0] = inv[o][0]
      BY <1>0, <2>2, <3>1, MoveEffect
    <3> QED BY <3>2 DEF Stays
  <2>3. ASSUME (\E s \in Slots : StartUse(p, s)) \/ EndUse(p) PROVE Stays
    BY <1>1, <2>3 DEF StartUse, EndUse
  <2> QED BY <1>9, <2>1, <2>2, <2>3 DEF Elsewhere
<1>10. CASE UNCHANGED vars
  BY <1>1, <1>10 DEF vars
<1> QED BY <1>6, <1>7, <1>8, <1>9, <1>10 DEF Next, Handler, Stays

-----------------------------------------------------------------------------
(* What an accept stands for                                                *)

(* A window and the other one, as the player who accepts sees them.         *)
Seen(t, i) == [mine |-> stage[t][i], theirs |-> stage[t][Other(i)]]

WindowType == [Window -> StageType]
AgreedTyped == agreed \in [Txs -> [1..2 -> [mine : WindowType, theirs : WindowType]]]

Accepts(t)  == \A i \in 1..2 : accepted[t][i] => agreed[t][i] = Seen(t, i)
NoAccept(t) == \A i \in 1..2 : ~accepted[t][i]
Changing(t) == cpu = t /\ job.op \in {"unstage", "stage"}

(* While an accept stands both windows are as they were when it was given.  *)
AgreedInv ==
  /\ AgreedTyped
  /\ \A t \in Trades :
       /\ txState[t] = "Open" /\ ~Busy(t) => Accepts(t)
       /\ txState[t] # "Open" \/ Changing(t) => NoAccept(t)

LEMMA SeenType ==
  ASSUME TradeTyped, NEW t \in Txs, NEW i \in 1..2
  PROVE  /\ Seen(t, i) \in [mine : WindowType, theirs : WindowType]
         /\ Seen(t, i).mine = stage[t][i] /\ Seen(t, i).theirs = stage[t][Other(i)]
<1>1. Other(i) \in 1..2
  BY DEF Other
<1> QED BY <1>1 DEF Seen, TradeTyped, WindowType

(* What a step may do to the accepts of a trade.                            *)
AcceptsKept(u) ==
  \/ NoAccept(u)'
  \/ Busy(u)' /\ txState'[u] = "Open"
  \/ Accepts(u)' /\ txState'[u] = "Open" /\ ~Changing(u)'
  \/ /\ accepted'[u] = accepted[u] /\ agreed'[u] = agreed[u] /\ stage'[u] = stage[u]
     /\ txState'[u] = "Open" /\ ~Busy(u)' => txState[u] = "Open" /\ ~Busy(u)
     /\ txState'[u] # "Open" => txState[u] # "Open"
     /\ ~Changing(u)'

LEMMA AgreedKept ==
  ASSUME AgreedInv, AgreedTyped', \A u \in Trades : AcceptsKept(u)
  PROVE  AgreedInv'
<1> SUFFICES ASSUME NEW u \in Trades
             PROVE  /\ txState'[u] = "Open" /\ ~Busy(u)' => Accepts(u)'
                    /\ txState'[u] # "Open" \/ Changing(u)' => NoAccept(u)'
  BY DEF AgreedInv
<1>1. CASE NoAccept(u)'
  BY <1>1 DEF NoAccept, Accepts
<1>2. CASE Busy(u)' /\ txState'[u] = "Open"
  BY <1>2 DEF Busy, Changing
<1>3. CASE Accepts(u)' /\ txState'[u] = "Open" /\ ~Changing(u)'
  BY <1>3
<1>4. CASE /\ accepted'[u] = accepted[u] /\ agreed'[u] = agreed[u] /\ stage'[u] = stage[u]
           /\ txState'[u] = "Open" /\ ~Busy(u)' => txState[u] = "Open" /\ ~Busy(u)
           /\ txState'[u] # "Open" => txState[u] # "Open"
           /\ ~Changing(u)'
  <2>1. (Accepts(u) => Accepts(u)') /\ (NoAccept(u) => NoAccept(u)')
    BY <1>4 DEF Accepts, NoAccept, Seen
  <2> QED BY <1>4, <2>1 DEF AgreedInv
<1> QED BY <1>1, <1>2, <1>3, <1>4 DEF AcceptsKept

(* The gil that is staged is that of the player who offers it, and there.   *)
GilAt(t, i) ==
  GilSlot \in Staged(t, i) =>
    LET c == Item(t, i, GilSlot)
    IN c.owner = sides[t][i].id /\ c.slot = 0 /\ c.kind = Gil /\ Resolves(c)

GilHeld == \A t \in Trades : txState[t] = "Open" /\ ~Busy(t) => \A i \in 1..2 : GilAt(t, i)

SeenInv == AgreedInv /\ GilHeld

LEMMA GilKept ==
  ASSUME FitInv, TypedInv, [Next]_vars, NEW u \in Trades, txState[u] = "Open", NEW i \in 1..2, GilAt(u, i),
         stage'[u][i][GilSlot] = stage[u][i][GilSlot], sides'[u] = sides[u]
  PROVE  GilAt(u, i)'
<1> SUFFICES ASSUME GilSlot \in Staged(u, i)' PROVE GilAt(u, i)'
  BY DEF GilAt
<1> PICK c : c = Item(u, i, GilSlot)
  OBVIOUS
<1>1. Item(u, i, GilSlot)' = c /\ c.uid # NoUid /\ GilSlot \in Staged(u, i)
  BY DEF Item, Staged
<1>2. c.owner = sides[u][i].id /\ c.slot = 0 /\ c.kind = Gil /\ inv[c.owner][0].uid = c.uid
  BY <1>1 DEF GilAt, Resolves
<1>3. c.owner \in Players
  BY <1>1, StagedItem, TradeConstants
<1>4. inv'[c.owner][0].uid = c.uid
  BY <1>1, <1>2, <1>3, GilStays
<1> QED BY <1>1, <1>2, <1>4 DEF GilAt, Resolves

(* A step concerns one trade, if any, and leaves the others alone.          *)
Concerns(t) ==
  /\ cpu \in {t, Idle} /\ cpu' \in {t, Idle}
  /\ \A u \in Trades \ {t} :
       /\ txState'[u] = txState[u] /\ sides'[u] = sides[u] /\ stage'[u] = stage[u]
       /\ accepted'[u] = accepted[u] /\ agreed'[u] = agreed[u]

LEMMA SeenElsewhere ==
  ASSUME FitInv, TypedInv, [Next]_vars, SeenInv, AgreedTyped', NEW t, Concerns(t),
         t \in Trades =>
           /\ AcceptsKept(t)
           /\ txState'[t] = "Open" /\ ~Busy(t)' => \A i \in 1..2 : GilAt(t, i)'
  PROVE  SeenInv'
<1>1. ASSUME NEW u \in Trades, u # t
      PROVE  /\ ~Busy(u) /\ ~Changing(u)' /\ txState'[u] = txState[u] /\ sides'[u] = sides[u] /\ stage'[u] = stage[u]
             /\ accepted'[u] = accepted[u] /\ agreed'[u] = agreed[u]
  BY <1>1, TradeConstants DEF Concerns, Busy, Changing
<1>2. \A u \in Trades : AcceptsKept(u)
  <2> SUFFICES ASSUME NEW u \in Trades, u # t PROVE AcceptsKept(u)
    OBVIOUS
  <2> QED BY <1>1 DEF AcceptsKept
<1>3. AgreedInv'
  BY <1>2, AgreedKept DEF SeenInv
<1>4. GilHeld'
  <2> SUFFICES ASSUME NEW u \in Trades, u # t, txState'[u] = "Open", NEW i \in 1..2
               PROVE  GilAt(u, i)'
    BY DEF GilHeld
  <2>1. txState[u] = "Open" /\ GilAt(u, i)
    BY <1>1 DEF SeenInv, GilHeld
  <2> QED BY <1>1, <2>1, GilKept
<1> QED BY <1>3, <1>4 DEF SeenInv

(* A step of no trade.                                                      *)
LEMMA SeenByOthers ==
  ASSUME FitInv, TypedInv, [Next]_vars, SeenInv, NEW t, t \notin Trades,
         cpu \in {t, Idle}, cpu' \in {t, Idle}, UNCHANGED <<sides, stage, accepted, agreed>>,
         \A u \in Trades : txState'[u] = txState[u]
  PROVE  SeenInv'
<1>1. Concerns(t) /\ AgreedTyped'
  BY DEF Concerns, SeenInv, AgreedInv, AgreedTyped
<1> QED BY <1>1, SeenElsewhere

(* A step of a trade that neither stages nor accepts.                       *)
LEMMA SeenStays ==
  ASSUME FitInv, TypedInv, [Next]_vars, SeenInv, NEW t \in Trades, cpu \in {t, Idle}, cpu' \in {t, Idle},
         txState[t] = "Open", UNCHANGED <<txState, sides, stage, accepted, agreed>>,
         Busy(t) => Busy(t)', ~Changing(t)'
  PROVE  SeenInv'
<1>1. Concerns(t) /\ AgreedTyped' /\ AcceptsKept(t)
  BY DEF Concerns, SeenInv, AgreedInv, AgreedTyped, AcceptsKept
<1>2. txState'[t] = "Open" /\ ~Busy(t)' => \A i \in 1..2 : GilAt(t, i)'
  BY GilKept DEF SeenInv, GilHeld
<1> QED BY <1>1, <1>2, SeenElsewhere

LEMMA AgreedTypes ==
  ASSUME TradeTyped, AgreedTyped, NEW t \in Txs, NEW i \in 1..2,
         \/ agreed' = [agreed EXCEPT ![t] = <<NotAgreed, NotAgreed>>]
         \/ agreed' = [agreed EXCEPT ![t][i] = Seen(t, i)]
  PROVE  AgreedTyped' /\ \A u \in Txs \ {t} : agreed'[u] = agreed[u]
<1> DEFINE R == [mine : WindowType, theirs : WindowType]
<1>1. NotAgreed \in R
  BY EmptyTypes DEF NotAgreed, WindowType
<1>2. <<NotAgreed, NotAgreed>> \in [1..2 -> R] /\ Seen(t, i) \in R
  BY <1>1, PairType, SeenType
<1> HIDE DEF R
<1>3. agreed \in [Txs -> [1..2 -> R]]
  BY DEF AgreedTyped, R
<1>4. agreed' \in [Txs -> [1..2 -> R]]
  BY <1>2, <1>3
<1> QED BY <1>3, <1>4 DEF AgreedTyped, R

LEMMA HandshakeSeen ==
  ASSUME FitInv, TypedInv, StagedInv, SeenInv, [Next]_vars, Handshake
  PROVE  SeenInv'
<1>0. TypeOK /\ TradeTyped /\ Trades \subseteq Txs /\ Idle \notin Trades
  BY TradeConstants DEF FitInv, IInv, TypedInv
<1>1. UNCHANGED <<stage, accepted, agreed>> /\ cpu = Idle
  BY DEF Handshake, Request, StartTrade, CancelTrade, LeaveZone, EnterZone, Abort, Enter
<1>2. ASSUME UnchangedEngine, UNCHANGED sides PROVE SeenInv'
  <2>1. UNCHANGED <<cpu, txState>>
    BY <1>2 DEF UnchangedEngine, vars
  <2> QED BY <1>0, <1>1, <1>2, <2>1, SeenByOthers
<1>3. ASSUME NEW p \in Players, NEW t \in ActiveTrade(p), NEW q, Abort(t, q) PROVE SeenInv'
  <2>1. t \in Trades /\ txState[t] = "Open" /\ UNCHANGED <<txState, sides>> /\ cpu' = t
    BY <1>0, <1>3, ActiveStaysOpen, FoundPlayers DEF Abort, Enter
  <2>2. job'.op = "close"
    BY <1>3, EmptyTypes DEF Abort, Job, NoJob
  <2> QED BY <1>0, <1>1, <2>1, <2>2, SeenStays DEF Busy, Changing
<1>4. ASSUME NEW p \in Players, NEW t \in Trades, Enter(t), txState[t] = "New", NEW x,
             sides' = [sides EXCEPT ![t] = x], job' = [NoJob EXCEPT !.op = "leave"]
      PROVE  SeenInv'
  <2>1. /\ cpu' = t /\ \A u \in Trades \ {t} : txState'[u] = txState[u] /\ sides'[u] = sides[u]
    BY <1>0, <1>4, EnterEffect DEF TradeTyped
  <2>2. NoAccept(t)
    BY <1>4 DEF SeenInv, AgreedInv
  <2>3. Concerns(t) /\ AgreedTyped' /\ AcceptsKept(t)
    BY <1>1, <2>1, <2>2 DEF Concerns, SeenInv, AgreedInv, AgreedTyped, AcceptsKept, NoAccept
  <2>4. \A i \in 1..2 : GilAt(t, i)'
    BY <1>1, <1>4 DEF StagedInv, NothingStaged, GilAt, Staged, Item
  <2> QED BY <2>3, <2>4, SeenElsewhere
<1>5. ASSUME NEW p \in Players, NEW t \in Trades, NEW near \in BOOLEAN, StartTrade(p, t, near) PROVE SeenInv'
  BY <1>2, <1>4, <1>5 DEF StartTrade
<1>6. ASSUME NEW p \in Players, CancelTrade(p) \/ LeaveZone(p) PROVE SeenInv'
  BY <1>2, <1>3, <1>6 DEF CancelTrade, LeaveZone
<1> QED BY <1>2, <1>5, <1>6 DEF Handshake, Request, EnterZone

LEMMA SetSlotSeen ==
  ASSUME FitInv, TypedInv, SeenInv, [Next]_vars, NEW p \in Players, NEW t \in Trades,
         NEW n, NEW s, NEW q, SetSlot(p, t, n, s, q)
  PROVE  SeenInv'
<1>0. TypeOK /\ TradeTyped /\ t \in Txs /\ t \in ActiveTrade(p) /\ Enter(t) /\ AgreedTyped
  BY TradeConstants DEF FitInv, IInv, TypedInv, SetSlot, SeenInv, AgreedInv
<1>1. cpu = Idle /\ cpu' = t /\ txState[t] = "Open" /\ UNCHANGED <<txState, sides, stage>>
  BY <1>0, ActiveStaysOpen, FoundPlayers DEF SetSlot, Enter
<1>2. agreed' = [agreed EXCEPT ![t] = <<NotAgreed, NotAgreed>>] /\ accepted' = [accepted EXCEPT ![t] = <<FALSE, FALSE>>]
  BY DEF SetSlot
<1>3. NoAccept(t)' /\ \A u \in Trades \ {t} : accepted'[u] = accepted[u]
  BY <1>0, <1>2, TradeConstants DEF NoAccept, TradeTyped
<1>4. 1 \in 1..2
  OBVIOUS
<1>5. AgreedTyped' /\ \A u \in Txs \ {t} : agreed'[u] = agreed[u]
  BY <1>0, <1>2, <1>4, AgreedTypes
<1>6. Concerns(t) /\ AcceptsKept(t)
  BY <1>1, <1>3, <1>5, TradeConstants DEF Concerns, AcceptsKept
<1>7. \A i \in 1..2 : GilAt(t, i)'
  BY <1>1, GilKept, TradeConstants DEF SeenInv, GilHeld, Busy
<1> QED BY <1>5, <1>6, <1>7, SeenElsewhere

(* A slot that is emptied takes no gil away from another window.            *)
LEMMA ReleaseGil ==
  ASSUME FitInv, TypedInv, [Next]_vars, NEW t \in Trades, txState[t] = "Open", UNCHANGED sides,
         NEW i \in 1..2, NEW n \in Window, NEW x \in StageType, SlotBecomes(t, i, n, x),
         x = NoStage \/ n # GilSlot, NEW j \in 1..2, GilAt(t, j)
  PROVE  GilAt(t, j)'
<1>0. t \in Txs /\ GilSlot \in Window
  BY TradeConstants
<1>1. CASE j = i /\ n = GilSlot
  <2>1. stage'[t][j][GilSlot] = NoStage
    BY <1>1 DEF SlotBecomes
  <2>2. Item(t, j, GilSlot)'.uid = NoUid
    BY <2>1, EmptyTypes DEF Item
  <2> QED BY <2>2 DEF GilAt, Staged
<1>2. CASE j # i \/ n # GilSlot
  <2>1. stage'[t][j][GilSlot] = stage[t][j][GilSlot]
    BY <1>0, <1>2 DEF SlotBecomes
  <2> QED BY <2>1, GilKept
<1> QED BY <1>1, <1>2

LEMMA StagingGil ==
  ASSUME FitInv, TypedInv, SeenInv, [Next]_vars, NEW t \in Trades, SetSlotUnstages(t) \/ SetSlotStages(t), NEW j \in 1..2
  PROVE  GilAt(t, j)'
<1>0. /\ TypeOK /\ IInv /\ TradeTyped /\ t \in Txs /\ cpu = t /\ txState[t] = "Open"
      /\ job.op \in {"unstage", "stage"} /\ job.side \in 1..2 /\ job.slot \in Window
      /\ job.from \in Slots /\ job.qty \in Nat /\ UNCHANGED sides
  BY TradeConstants DEF SetSlotUnstages, SetSlotStages, FitInv, IInv, ClaimInv, OpenHold, TypedInv, TradeTyped, Job
<1>1. GilAt(t, j)
  BY <1>0 DEF SeenInv, GilHeld, Busy
<1>2. ASSUME NEW n \in Window, ReleaseSlot(t, job.side, n) PROVE GilAt(t, j)'
  <2>1. SlotBecomes(t, job.side, n, NoStage) /\ NoStage \in StageType
    BY <1>0, <1>2, UnstagedChange, EmptyTypes DEF ReleaseSlot
  <2> QED BY <1>0, <1>1, <2>1, ReleaseGil
<1>3. ASSUME UNCHANGED stage PROVE GilAt(t, j)'
  BY <1>0, <1>1, <1>3, GilKept
<1>4. ASSUME job.op = "stage", Stageable(t, job.from, job.qty),
             IF job.from = 0 THEN UnchangedEngine ELSE Claim(t, sides[t][job.side].id, job.from),
             stage' = [stage EXCEPT ![t][job.side][job.slot] =
                         [item |-> IdOf(sides[t][job.side].id, job.from), qty |-> job.qty]]
      PROVE  GilAt(t, j)'
  <2> PICK i \in 1..2, n \in Window, s \in Slots : i = job.side /\ n = job.slot /\ s = job.from
    BY <1>0
  <2> PICK q \in Nat \ {0} : q = job.qty
    BY <1>0, <1>4 DEF TypedInv, JobFits
  <2> PICK p \in Players : p = sides[t][i].id
    BY <1>0 DEF TypedInv, SidesArePlayers
  <2> DEFINE x == [item |-> IdOf(p, s), qty |-> q]
  <2>1. n = GilSlot <=> s = 0
    BY <1>0 DEF TypedInv, JobFits
  <2>2. Occupied(p, s) /\ inv[p][s].kind \in Kinds /\ inv[p][s].uid \in Nat \ {NoUid}
    BY <1>0, <1>4, PlaceType DEF Stageable, Occupied, IInv, ClaimInv, StacksHaveKinds
  <2>3. x \in StageType /\ x.item = IdOf(p, s)
    BY <2>2 DEF StageType, StackId, IdOf
  <2>4. stage' = [stage EXCEPT ![t][i][n] = x]
    BY <1>4
  <2> HIDE DEF x
  <2>5. SlotBecomes(t, i, n, x)
    BY <1>0, <2>3, <2>4, StageChange
  <2>6. CASE n # GilSlot
    BY <1>0, <1>1, <2>3, <2>5, <2>6, ReleaseGil
  <2>7. CASE n = GilSlot /\ j # i
    <3>1. stage'[t][j][GilSlot] = stage[t][j][GilSlot]
      BY <1>0, <2>5, <2>7, TradeConstants DEF SlotBecomes
    <3> QED BY <1>0, <1>1, <3>1, GilKept
  <2>8. CASE n = GilSlot /\ j = i
    <3>1. Item(t, j, GilSlot)' = IdOf(p, 0) /\ UNCHANGED inv /\ sides'[t][j].id = p
      BY <1>0, <1>4, <2>1, <2>3, <2>5, <2>8 DEF SlotBecomes, Item, UnchangedEngine, vars
    <3>2. inv[p][0].kind = Gil
      <4>1. Fits(inv[p][0], 0)
        BY <2>1, <2>8 DEF FitInv, StacksFit
      <4> QED BY <2>1, <2>2, <2>8, <4>1 DEF Fits
    <3> PICK c : c = IdOf(p, 0)
      OBVIOUS
    <3>3. c.owner = p /\ c.slot = 0 /\ c.kind = Gil /\ c.uid = inv[p][0].uid
      BY <3>2 DEF IdOf
    <3> QED BY <3>1, <3>3 DEF GilAt, Resolves
  <2> QED BY <2>6, <2>7, <2>8
<1>5. \/ \E n \in Window : ReleaseSlot(t, job.side, n)
      \/ UNCHANGED stage
      \/ /\ job.op = "stage" /\ Stageable(t, job.from, job.qty)
         /\ IF job.from = 0 THEN UnchangedEngine ELSE Claim(t, sides[t][job.side].id, job.from)
         /\ stage' = [stage EXCEPT ![t][job.side][job.slot] =
                        [item |-> IdOf(sides[t][job.side].id, job.from), qty |-> job.qty]]
  BY <1>0 DEF SetSlotUnstages, SetSlotStages, Twice, Staged
<1> QED BY <1>2, <1>3, <1>4, <1>5

LEMMA StagingSeen ==
  ASSUME FitInv, TypedInv, SeenInv, [Next]_vars, Staging
  PROVE  SeenInv'
<1>0. TypeOK /\ TradeTyped /\ Trades \subseteq Txs /\ Idle \notin Trades
  BY TradeConstants DEF FitInv, IInv, TypedInv
<1>1. ASSUME NEW t \in Trades, SetSlotUnstages(t) \/ SetSlotStages(t) PROVE SeenInv'
  <2>1. /\ cpu = t /\ cpu' = t /\ txState'[t] = "Open" /\ UNCHANGED <<sides, txState, accepted, agreed>>
        /\ job.side \in 1..2 /\ job.slot \in Window /\ Changing(t)
    BY <1>0, <1>1, StagingIsWork, WorkLeaves, RunningIsOpen
       DEF SetSlotUnstages, SetSlotStages, TradeTyped, Job, Changing
  <2>2. \A u \in Trades \ {t} : stage'[u] = stage[u]
    BY <1>0, <1>1 DEF SetSlotUnstages, SetSlotStages, ReleaseSlot, Unstaged, TradeTyped
  <2>3. NoAccept(t)'
    BY <2>1 DEF SeenInv, AgreedInv, NoAccept
  <2>4. Concerns(t) /\ AgreedTyped' /\ AcceptsKept(t)
    BY <2>1, <2>2, <2>3 DEF Concerns, SeenInv, AgreedInv, AgreedTyped, AcceptsKept
  <2> QED BY <1>1, <2>4, StagingGil, SeenElsewhere
<1>2. ASSUME NEW t \in Trades, LeaveTrade(t) PROVE SeenInv'
  <2>1. /\ cpu = t /\ cpu' = Idle /\ txState[t] = "Open" /\ ~Busy(t)
        /\ UNCHANGED <<sides, txState, stage, accepted, agreed>>
    BY <1>0, <1>2, RunningIsOpen DEF LeaveTrade, Leave, Busy
  <2> QED BY <1>0, <2>1, SeenStays DEF Changing
<1> QED BY <1>1, <1>2, SetSlotSeen DEF Staging

LEMMA MakeSeen ==
  ASSUME FitInv, TypedInv, SeenInv, [Next]_vars, NEW p \in Players, NEW t \in Trades, NEW near, Make(p, t, near)
  PROVE  SeenInv'
<1> PICK i : i = SideOf(t, p)
  OBVIOUS
<1>0. TypeOK /\ TradeTyped /\ t \in Txs /\ t \in ActiveTrade(p) /\ Enter(t) /\ AgreedTyped /\ i \in 1..2
  BY TradeConstants, FoundPlayers DEF FitInv, IInv, TypedInv, Make, SeenInv, AgreedInv
<1>1. cpu = Idle /\ cpu' = t /\ txState[t] = "Open" /\ UNCHANGED <<txState, sides, stage>>
  BY <1>0, ActiveStaysOpen, FoundPlayers DEF Make, Enter
<1>2. agreed' = [agreed EXCEPT ![t][i] = Seen(t, i)] /\ accepted' = [accepted EXCEPT ![t][i] = TRUE]
  BY DEF Make, Seen
<1>3. AgreedTyped' /\ \A u \in Txs \ {t} : agreed'[u] = agreed[u]
  BY <1>0, <1>2, AgreedTypes
<1>4. \A u \in Trades \ {t} : accepted'[u] = accepted[u]
  BY <1>0, <1>2 DEF TradeTyped
<1>5. job'.op \in {"leave", "close", "exchange"}
  <2>1. job' \in {[NoJob EXCEPT !.op = "leave"], [NoJob EXCEPT !.op = "close"], [NoJob EXCEPT !.op = "exchange"]}
    BY DEF Make
  <2> QED BY <2>1, EmptyTypes DEF Job
<1>6. Accepts(t)
  BY <1>1, TradeConstants DEF SeenInv, AgreedInv, Busy
<1>7. Accepts(t)'
  <2> SUFFICES ASSUME NEW j \in 1..2, accepted'[t][j] PROVE agreed'[t][j] = Seen(t, j)'
    BY DEF Accepts
  <2>1. Seen(t, j)' = Seen(t, j)
    BY <1>1 DEF Seen
  <2>2. CASE j = i
    <3>1. agreed'[t][i] = Seen(t, i)
      BY <1>0, <1>2 DEF AgreedTyped
    <3> QED BY <2>1, <2>2, <3>1
  <2>3. CASE j # i
    <3>1. agreed'[t][j] = agreed[t][j] /\ accepted'[t][j] = accepted[t][j]
      BY <1>0, <1>2, <2>3 DEF AgreedTyped, TradeTyped
    <3> QED BY <1>6, <2>1, <3>1 DEF Accepts
  <2> QED BY <2>2, <2>3
<1>8. Concerns(t) /\ AcceptsKept(t)
  BY <1>1, <1>3, <1>4, <1>5, <1>7, TradeConstants DEF Concerns, AcceptsKept, Changing
<1>9. \A j \in 1..2 : GilAt(t, j)'
  BY <1>1, GilKept, TradeConstants DEF SeenInv, GilHeld, Busy
<1> QED BY <1>3, <1>8, <1>9, SeenElsewhere

LEMMA RemovedSeen ==
  ASSUME FitInv, TypedInv, SeenInv, [Next]_vars, NEW t \in Trades, Removed(t), Commit(t) \/ FinishRollback(t)
  PROVE  SeenInv'
<1>0. TypeOK /\ TradeTyped /\ Trades \subseteq Txs /\ t \in Txs /\ AgreedTyped
  BY TradeConstants DEF FitInv, IInv, TypedInv, SeenInv, AgreedInv
<1>1. cpu = t /\ cpu' = Idle /\ txState'[t] # "Open" /\ \A u \in Txs \ {t} : txState'[u] = txState[u]
  BY <1>0, ClosedEffect
<1>2. \A u \in Trades \ {t} : sides'[u] = sides[u] /\ stage'[u] = stage[u] /\ accepted'[u] = accepted[u]
  BY <1>0 DEF Removed, TradeTyped
<1>3. /\ accepted' = [accepted EXCEPT ![t] = <<FALSE, FALSE>>]
      /\ agreed' = [agreed EXCEPT ![t] = <<NotAgreed, NotAgreed>>]
  BY DEF Removed
<1>4. 1 \in 1..2
  OBVIOUS
<1>5. AgreedTyped' /\ \A u \in Txs \ {t} : agreed'[u] = agreed[u]
  BY <1>0, <1>3, <1>4, AgreedTypes
<1>6. NoAccept(t)'
  <2>1. accepted \in [Txs -> [1..2 -> BOOLEAN]] /\ t \in Txs
    BY <1>0 DEF TradeTyped
  <2> PICK r : r = <<FALSE, FALSE>>
    OBVIOUS
  <2>2. accepted'[t] = r
    BY <1>3, <2>1
  <2>3. r \in [1..2 -> {FALSE}]
    BY PairType
  <2>4. \A i \in 1..2 : r[i] = FALSE
    BY <2>3
  <2> QED BY <2>2, <2>4 DEF NoAccept
<1>7. Concerns(t) /\ AcceptsKept(t)
  BY <1>0, <1>1, <1>2, <1>5, <1>6 DEF Concerns, AcceptsKept
<1> QED BY <1>1, <1>5, <1>7, SeenElsewhere

LEMMA ExchangingSeen ==
  ASSUME FitInv, TypedInv, SeenInv, [Next]_vars, Exchanging
  PROVE  SeenInv'
<1>0. TypeOK /\ TradeTyped /\ Trades \subseteq Txs /\ Idle \notin Trades
  BY TradeConstants DEF FitInv, IInv, TypedInv
<1>1. ASSUME NEW t \in Trades, ExchangeStep(t) PROVE SeenInv'
  <2>1. cpu = t /\ cpu' = t /\ txState'[t] = "Open" /\ UNCHANGED <<sides, txState, accepted, agreed>>
    BY <1>0, <1>1, ExchangeIsWork, WorkLeaves, RunningIsOpen DEF ExchangeStep
  <2>2. \A u \in Trades \ {t} : stage'[u] = stage[u]
    BY <1>0, <1>1 DEF ExchangeStep, ReleaseSlot, Unstaged, TradeTyped
  <2>3. job' = job \/ job' = [job EXCEPT !.op = "close"]
    BY <1>1 DEF ExchangeStep, DeliverSlot, ConsumeSlot, Done, Failed
  <2>4. Busy(t)'
    BY <1>0, <1>1, <2>1, <2>3 DEF ExchangeStep, TradeTyped, Job, Busy
  <2>5. Concerns(t) /\ AgreedTyped' /\ AcceptsKept(t)
    BY <2>1, <2>2, <2>4 DEF Concerns, SeenInv, AgreedInv, AgreedTyped, AcceptsKept
  <2> QED BY <2>4, <2>5, SeenElsewhere
<1>2. ASSUME NEW t \in Trades, RollBackTrade(t) PROVE SeenInv'
  <2>1. CASE (StartRollback(t) \/ RunUndo(t) \/ UndoDone(t)) /\ UNCHANGED tradeVars
    <3>1. /\ t \in Txs /\ cpu = t /\ txState[t] = "Open" /\ UNCHANGED <<txState, cpu, sides, stage, accepted, agreed, job>>
      BY <1>0, <2>1, RunUndoControl, RunningIsOpen DEF StartRollback, UndoDone, tradeVars
    <3>2. Busy(t)' /\ ~Changing(t)'
      BY <1>2, <3>1 DEF RollBackTrade, Busy, Changing
    <3> QED BY <3>1, <3>2, SeenStays
  <2>2. CASE FinishRollback(t) /\ Removed(t)
    BY <2>2, RemovedSeen
  <2> QED BY <1>2, <2>1, <2>2 DEF RollBackTrade
<1>3. ASSUME NEW t \in Trades, CommitTrade(t) PROVE SeenInv'
  BY <1>3, RemovedSeen DEF CommitTrade
<1> QED BY <1>1, <1>2, <1>3, MakeSeen DEF Exchanging

LEMMA SeenStep ==
  FitInv /\ TypedInv /\ StagedInv /\ SeenInv /\ [TradeNext]_allVars => SeenInv'
<1> SUFFICES ASSUME FitInv, TypedInv, StagedInv, SeenInv, [TradeNext]_allVars PROVE SeenInv'
  OBVIOUS
<1>0. [Next]_vars /\ TypeOK /\ Trades \subseteq Txs /\ Idle \notin Trades
  BY EngineStep, TradeConstants DEF FitInv, IInv
<1>1. CASE UNCHANGED allVars
  <2>1. UNCHANGED <<txState, cpu, sides, stage, accepted, agreed, job, inv>>
    BY <1>1 DEF allVars, vars, tradeVars
  <2>2. \A t : /\ (Busy(t)' <=> Busy(t)) /\ (Changing(t)' <=> Changing(t))
               /\ (Accepts(t)' <=> Accepts(t)) /\ (NoAccept(t)' <=> NoAccept(t))
               /\ \A i : GilAt(t, i) => GilAt(t, i)'
    BY <2>1 DEF Busy, Changing, Accepts, NoAccept, GilAt, Staged, Item, Resolves, Seen
  <2> QED BY <2>1, <2>2 DEF SeenInv, AgreedInv, AgreedTyped, GilHeld
<1>2. CASE Handshake
  BY <1>0, <1>2, HandshakeSeen
<1>3. CASE Staging
  BY <1>0, <1>3, StagingSeen
<1>4. CASE Exchanging
  BY <1>0, <1>4, ExchangingSeen
<1>5. ASSUME NEW t \in Txs, NEW p \in Restless, Purchase(t, p) PROVE SeenInv'
  <2>1. UNCHANGED <<sides, stage, accepted, agreed>> /\ (\A u \in Trades : txState'[u] = txState[u])
    BY <1>5, PurchaseLeaves DEF tradeVars
  <2>2. t \notin Trades /\ cpu \in {t, Idle} /\ cpu' \in {t, Idle}
    <3>1. t \notin Trades /\ (Enter(t) \/ Work(t) \/ Commit(t))
      BY <1>5, PurchaseIsHandler, TradeConstants
    <3> QED BY <1>0, <3>1, WorkControl, ClosedControl DEF Enter
  <2> QED BY <1>0, <2>1, <2>2, SeenByOthers
<1>6. ASSUME NEW p \in Restless, Elsewhere(p), UNCHANGED tradeVars PROVE SeenInv'
  <2>1. UNCHANGED <<sides, stage, accepted, agreed, txState, cpu>> /\ cpu = Idle
    BY <1>6, ElsewhereControl, TradeConstants DEF tradeVars
  <2> QED BY <1>0, <2>1, SeenByOthers
<1> QED BY <1>1, <1>2, <1>3, <1>4, <1>5, <1>6 DEF TradeNext

LEMMA InitSeen == TradeInit => SeenInv
<1> SUFFICES ASSUME TradeInit PROVE SeenInv
  OBVIOUS
<1> DEFINE R == [mine : WindowType, theirs : WindowType]
<1>1. NotAgreed \in R
  BY EmptyTypes DEF NotAgreed, WindowType
<1>2. <<NotAgreed, NotAgreed>> \in [1..2 -> R]
  BY <1>1, PairType
<1> HIDE DEF R
<1>3. agreed \in [Txs -> [1..2 -> R]]
  BY <1>2 DEF TradeInit
<1>4. AgreedTyped
  BY <1>3 DEF AgreedTyped, R
<1>5. \A t \in Trades : txState[t] = "New" /\ NoAccept(t)
  BY TradeConstants DEF TradeInit, Init, NoAccept
<1> QED BY <1>4, <1>5 DEF SeenInv, AgreedInv, GilHeld

-----------------------------------------------------------------------------
(* What a player has of a kind, and what has been handed over               *)

LEMMA TradeFinite == IsFiniteSet(Slots) /\ IsFiniteSet(Window) /\ IsFiniteSet(Players)
<1>1. IsFiniteSet(Slots)
  BY FS_Interval, ConstantsAssumption DEF Slots
<1>2. IsFiniteSet(TradeSlots \cup {GilSlot})
  BY FS_AddElement, TradeAssumption
<1>3. TradeSlots \cup {GilSlot} = Window
  BY DEF Window
<1> QED BY <1>1, <1>2, <1>3, TradeAssumption

Amount(row, k) == IF row.kind = k THEN row.qty ELSE 0

LEMMA TotalIs ==
  \A c, p, k : TotalOf(c, p, k) = Sum([s \in Slots |-> Amount(c[p][s], k)], Slots)
<1> SUFFICES ASSUME NEW c, NEW p, NEW k
             PROVE  TotalOf(c, p, k) = Sum([s \in Slots |-> Amount(c[p][s], k)], Slots)
  OBVIOUS
<1>1. TotalOf(c, p, k) = SumFunction([s \in Slots |-> Amount(c[p][s], k)])
  BY DEF TotalOf, Amount
<1>2. DOMAIN [s \in Slots |-> Amount(c[p][s], k)] = Slots
  OBVIOUS
<1> QED BY <1>1, <1>2, SumFunctionIs

LEMMA AmountType ==
  ASSUME NEW c \in AllContents, NEW p \in Players, NEW s \in Slots, NEW k
  PROVE  Amount(c[p][s], k) \in Nat
<1>1. c[p][s] \in Row
  BY DEF AllContents
<1> QED BY <1>1 DEF Amount, Row

LEMMA TotalType ==
  ASSUME NEW c \in AllContents, NEW p \in Players, NEW k
  PROVE  TotalOf(c, p, k) \in Nat
<1> DEFINE f == [s \in Slots |-> Amount(c[p][s], k)]
<1>1. \A s \in Slots : f[s] \in Nat
  BY AmountType
<1> HIDE DEF f
<1>2. Sum(f, Slots) \in Nat
  BY <1>1, TradeFinite, SumNat
<1> QED BY <1>2, TotalIs DEF f

LEMMA TotalChange ==
  ASSUME NEW c \in AllContents, NEW d \in AllContents, NEW p \in Players, NEW s \in Slots, NEW k,
         \A r \in Slots : r # s => d[p][r] = c[p][r]
  PROVE  TotalOf(d, p, k) = TotalOf(c, p, k) + Amount(d[p][s], k) - Amount(c[p][s], k)
<1> DEFINE f == [r \in Slots |-> Amount(c[p][r], k)]
           h == [r \in Slots |-> Amount(d[p][r], k)]
<1>1. (\A r \in Slots : f[r] \in Int) /\ h[s] \in Int
  BY AmountType
<1>2. \A r \in Slots : r # s => h[r] = f[r]
  OBVIOUS
<1>3. f[s] = Amount(c[p][s], k) /\ h[s] = Amount(d[p][s], k)
  OBVIOUS
<1>4. TotalOf(c, p, k) = Sum(f, Slots) /\ TotalOf(d, p, k) = Sum(h, Slots)
  BY TotalIs
<1> HIDE DEF f, h
<1>5. Sum(h, Slots) = Sum(f, Slots) + h[s] - f[s]
  BY <1>1, <1>2, TradeFinite, SumChange
<1> QED BY <1>3, <1>4, <1>5

LEMMA TotalSame ==
  ASSUME NEW c, NEW d, NEW p, NEW k, d[p] = c[p]
  PROVE  TotalOf(d, p, k) = TotalOf(c, p, k)
BY DEF TotalOf

(* Of a window W, what its slots in D amount to of a kind.                  *)
OfSlot(W, n, k) == IF W[n].item.kind = k THEN W[n].qty ELSE 0
Share(W, D, k) == Sum([n \in Window |-> IF n \in D THEN OfSlot(W, n, k) ELSE 0], Window)

LEMMA ShareIs ==
  \A W, D, k : Share(W, D, k) = Sum([n \in Window |-> IF n \in D THEN OfSlot(W, n, k) ELSE 0], Window)
BY DEF Share

LEMMA SlotAmount ==
  ASSUME NEW W \in WindowType, NEW n \in Window, NEW k
  PROVE  OfSlot(W, n, k) \in Nat
<1>1. W[n] \in StageType
  BY DEF WindowType
<1> QED BY <1>1, StageTypes DEF OfSlot

LEMMA ShareType ==
  ASSUME NEW W \in WindowType, NEW D, NEW k
  PROVE  Share(W, D, k) \in Nat
<1> DEFINE f == [n \in Window |-> IF n \in D THEN OfSlot(W, n, k) ELSE 0]
<1>1. \A n \in Window : f[n] \in Nat
  BY SlotAmount
<1> HIDE DEF f
<1>2. Sum(f, Window) \in Nat
  BY <1>1, TradeFinite, SumNat
<1> QED BY <1>2, ShareIs DEF f

LEMMA ShareNone ==
  ASSUME NEW W \in WindowType, NEW D, NEW k, \A n \in Window : n \in D => W[n].qty = 0
  PROVE  Share(W, D, k) = 0
<1> DEFINE f == [n \in Window |-> IF n \in D THEN OfSlot(W, n, k) ELSE 0]
<1>1. \A n \in Window : f[n] = 0
  BY DEF OfSlot
<1> HIDE DEF f
<1>2. Sum(f, Window) = 0
  BY <1>1, TradeFinite, SumZero
<1> QED BY <1>2, ShareIs DEF f

LEMMA ShareAll ==
  ASSUME NEW W \in WindowType, NEW D, NEW k, \A n \in Window : n \notin D => W[n].qty = 0
  PROVE  Share(W, D, k) = Offered(W, k)
<1> DEFINE f == [n \in Window |-> IF n \in D THEN OfSlot(W, n, k) ELSE 0]
           h == [n \in Window |-> IF W[n].item.kind = k THEN W[n].qty ELSE 0]
<1>1. \A n \in Window : f[n] = h[n]
  BY DEF OfSlot
<1>2. Offered(W, k) = SumFunction(h) /\ DOMAIN h = Window
  BY DEF Offered
<1> HIDE DEF f, h
<1>3. Sum(f, Window) = Sum(h, Window)
  BY <1>1, TradeFinite, SumSame
<1>4. SumFunction(h) = Sum(h, Window)
  BY <1>2, SumFunctionIs
<1> QED BY <1>2, <1>3, <1>4, ShareIs DEF f

LEMMA ShareAdd ==
  ASSUME NEW W \in WindowType, NEW D, NEW k, NEW n \in Window, n \notin D
  PROVE  Share(W, D \cup {n}, k) = Share(W, D, k) + OfSlot(W, n, k)
<1> DEFINE f == [m \in Window |-> IF m \in D THEN OfSlot(W, m, k) ELSE 0]
           h == [m \in Window |-> IF m \in D \cup {n} THEN OfSlot(W, m, k) ELSE 0]
<1>1. (\A m \in Window : f[m] \in Int) /\ h[n] \in Int
  BY SlotAmount
<1>2. \A m \in Window : m # n => h[m] = f[m]
  OBVIOUS
<1>3. f[n] = 0 /\ h[n] = OfSlot(W, n, k)
  OBVIOUS
<1>4. Share(W, D, k) = Sum(f, Window) /\ Share(W, D \cup {n}, k) = Sum(h, Window)
  BY ShareIs
<1> HIDE DEF f, h
<1>5. Sum(h, Window) = Sum(f, Window) + h[n] - f[n]
  BY <1>1, <1>2, TradeFinite, SumChange
<1>6. Sum(f, Window) \in Int
  BY <1>1, TradeFinite, SumType
<1> QED BY <1>1, <1>3, <1>4, <1>5, <1>6

LEMMA ShareGrows ==
  ASSUME NEW W \in WindowType, NEW D, NEW E, NEW k, \A n \in Window : n \in D => n \in E
  PROVE  Share(W, D, k) <= Share(W, E, k)
<1> DEFINE f == [m \in Window |-> IF m \in D THEN OfSlot(W, m, k) ELSE 0]
           h == [m \in Window |-> IF m \in E THEN OfSlot(W, m, k) ELSE 0]
<1>1. \A m \in Window : f[m] \in Int /\ h[m] \in Int /\ f[m] <= h[m]
  BY SlotAmount
<1> HIDE DEF f, h
<1>2. Sum(f, Window) <= Sum(h, Window)
  BY <1>1, TradeFinite, SumMonotone
<1> QED BY <1>2, ShareIs DEF f, h

-----------------------------------------------------------------------------
(* The exchange                                                             *)

Offer(t, i, n) == agreed[t][i].mine[n]

(* Both saw the same two windows.                                           *)
Agreement(t) == agreed[t][1].theirs = agreed[t][2].mine /\ agreed[t][2].theirs = agreed[t][1].mine

(* An offer is of a stack of its own, in a quantity a stack can have.       *)
OfferFits(t, i, n) ==
  LET x == Offer(t, i, n)
  IN x.item.uid # NoUid =>
       /\ x.item.owner = sides[t][i].id
       /\ n = GilSlot <=> x.item.slot = 0
       /\ n = GilSlot <=> x.item.kind = Gil
       /\ n # GilSlot => x.qty <= StackSize[x.item.kind]
       /\ \A m \in Window \ {n} : Offer(t, i, m).item.uid # NoUid => Offer(t, i, m).item.slot # x.item.slot

(* What is still to be done can be done: the stack to be taken is there,    *)
(* and it is not taken before it is given.                                  *)
Takable(c) == Resolves(c) /\ inv[c.owner][c.slot].kind = c.kind
HasRoom(p, q) == Occupied(p, 0) /\ inv[p][0].qty + q <= StackSize[Gil]
StepFits(t, x) ==
  /\ stage[t][x[2]][x[3]] = Offer(t, x[2], x[3])
  /\ x[1] = "give" => <<"take", x[2], x[3]>> \in todo
  /\ x[1] = "take" => Takable(Offer(t, x[2], x[3]).item)
  /\ x[1] = "give" /\ x[3] = GilSlot => HasRoom(sides[t][Other(x[2])].id, Offer(t, x[2], x[3]).qty)

Passed(T, a, i) == {n \in Window : <<a, i, n>> \notin T}
Given(t, i, k) == Share(agreed[t][i].mine, Passed(todo, "give", i), k)
Taken(t, i, k) == Share(agreed[t][i].mine, Passed(todo, "take", i), k)

(* What each has, is what he had with what he was given and without what    *)
(* was taken; nobody else has more or less.                                 *)
Exact(t) ==
  /\ \A i \in 1..2, k \in Kinds :
       TotalOf(Contents, sides[t][i].id, k) =
         TotalOf(base, sides[t][i].id, k) + Given(t, Other(i), k) - Taken(t, i, k)
  /\ \A p \in Players : p \notin Parties(t) => Contents[p] = base[p]

Swapping(t) == cpu = t /\ job.op = "exchange"

Swap(t) ==
  /\ Agreement(t)
  /\ \A i \in 1..2, n \in Window : OfferFits(t, i, n)
  /\ \A x \in todo : StepFits(t, x)
  /\ Exact(t)

SwapInv == \A t \in Trades : Swapping(t) => Swap(t)

(* When the exchange begins both windows are as both saw them, and held.    *)
LEMMA HeldOffers ==
  ASSUME FitInv, TypedInv, MutualInv, StagedInv, SeenInv, NEW t \in Trades, txState[t] = "Open", ~Busy(t),
         NEW i \in 1..2, NEW n \in Staged(t, i)
  PROVE  LET c == Item(t, i, n)
         IN /\ c.owner = sides[t][i].id /\ c.owner \in Players /\ c.slot \in Slots /\ c.kind \in Kinds
            /\ n = GilSlot <=> c.slot = 0
            /\ n = GilSlot <=> c.kind = Gil
            /\ Resolves(c) /\ inv[c.owner][c.slot].kind = c.kind
            /\ n # GilSlot => stage[t][i][n].qty <= StackSize[c.kind]
<1> PICK c : c = Item(t, i, n)
  OBVIOUS
<1>0. TypeOK /\ IInv /\ t \in Txs /\ WindowHeld(t, i) /\ GilAt(t, i)
  BY TradeConstants DEF FitInv, IInv, StagedInv, StageHeld, SeenInv, GilHeld
<1>1. n \in Window /\ c.uid # NoUid
  BY DEF Staged
<1>2. /\ c.owner \in Players /\ c.slot \in Slots /\ c.kind \in Kinds /\ stage[t][i][n].qty \in Nat
  BY <1>1, StagedItem
<1>3. Resolves(c) /\ c.owner = sides[t][i].id /\ (n = GilSlot <=> c.slot = 0)
  BY <1>0 DEF WindowHeld, HeldFor, GilAt
<1>4. Fits(inv[c.owner][c.slot], c.slot) /\ inv[c.owner][c.slot].uid # NoUid
  BY <1>1, <1>2, <1>3 DEF FitInv, StacksFit, Resolves
<1>5. inv[c.owner][c.slot].kind = c.kind
  <2>1. CASE n = GilSlot
    <3>1. c.kind = Gil /\ c.slot = 0
      BY <1>0, <2>1 DEF GilAt
    <3> QED BY <1>4, <3>1 DEF Fits
  <2>2. CASE n # GilSlot
    <3>1. c \in claims[t]
      BY <1>0, <2>2 DEF WindowHeld, HeldFor
    <3>2. c = IdOf(c.owner, c.slot)
      BY <1>0, <1>3, <3>1 DEF IInv, ClaimInv, ClaimsExclusive, ClaimsAreStamped
    <3> QED BY <3>2 DEF IdOf
  <2> QED BY <2>1, <2>2
<1>6. n = GilSlot <=> c.kind = Gil
  BY <1>3, <1>4, <1>5 DEF Fits
<1>7. n # GilSlot => stage[t][i][n].qty <= StackSize[c.kind]
  <2> SUFFICES ASSUME n # GilSlot PROVE stage[t][i][n].qty <= StackSize[c.kind]
    OBVIOUS
  <2>1. inv[c.owner][c.slot].qty >= stage[t][i][n].qty
    BY <1>0 DEF WindowHeld, HeldFor
  <2>2. inv[c.owner][c.slot].qty <= StackSize[c.kind] /\ inv[c.owner][c.slot].qty \in Nat /\ StackSize[c.kind] \in Nat
    BY <1>0, <1>2, <1>4, <1>5, PlaceType, ConstantsAssumption DEF Fits
  <2> QED BY <1>2, <2>1, <2>2
<1> QED BY <1>2, <1>3, <1>5, <1>6, <1>7

LEMMA MakeSwap ==
  ASSUME FitInv, TypedInv, TypedInv', MutualInv, StagedInv, SeenInv, SeenInv', NEW p \in Players, NEW t \in Trades,
         NEW near, Make(p, t, near), job'.op = "exchange"
  PROVE  Swap(t)'
<1> PICK i : i = SideOf(t, p)
  OBVIOUS
<1>0. TypeOK /\ TradeTyped /\ t \in Txs /\ t \in ActiveTrade(p) /\ Enter(t) /\ AgreedTyped /\ AgreedTyped' /\ i \in 1..2
      /\ Other(i) \in 1..2
  BY TradeConstants, FoundPlayers DEF FitInv, IInv, TypedInv, Make, SeenInv, AgreedInv, Other
<1>1. cpu = Idle /\ txState[t] = "Open" /\ ~Busy(t) /\ UNCHANGED <<sides, stage, inv, claims>> /\ base' = Contents
  BY <1>0, ActiveStaysOpen, FoundPlayers, TradeConstants DEF Make, Enter, Busy
<1>2. accepted[t][Other(i)] /\ CanReceive(t, 1) /\ CanReceive(t, 2) /\ todo' = Exchange(t)
  <2>1. NoJob.op = "none" /\ \A z : [NoJob EXCEPT !.op = z].op = z
    BY EmptyTypes DEF NoJob
  <2> QED BY <2>1 DEF Make
<1>3. \A j \in 1..2 : agreed'[t][j] = Seen(t, j)
  <2>1. agreed' = [agreed EXCEPT ![t][i] = Seen(t, i)]
    BY DEF Make, Seen
  <2>2. agreed'[t][i] = Seen(t, i) /\ agreed'[t][Other(i)] = agreed[t][Other(i)]
    BY <1>0, <2>1 DEF AgreedTyped, Other
  <2>3. agreed[t][Other(i)] = Seen(t, Other(i))
    BY <1>0, <1>1, <1>2 DEF SeenInv, AgreedInv, Accepts
  <2> QED BY <1>0, <2>2, <2>3 DEF Other
<1>4. \A j \in 1..2 : agreed'[t][j].mine = stage[t][j] /\ agreed'[t][j].theirs = stage[t][Other(j)]
  BY <1>0, <1>3, SeenType
<1>5. Agreement(t)'
  <2>1. Other(1) = 2 /\ Other(2) = 1 /\ 1 \in 1..2 /\ 2 \in 1..2
    BY DEF Other
  <2> QED BY <1>4, <2>1 DEF Agreement
<1>6. \A j \in 1..2, n \in Window : Offer(t, j, n)' = stage[t][j][n]
  BY <1>4 DEF Offer
<1>7. ASSUME NEW j \in 1..2, NEW n \in Window PROVE OfferFits(t, j, n)'
  <2> SUFFICES ASSUME n \in Staged(t, j) PROVE OfferFits(t, j, n)'
    BY <1>6 DEF OfferFits, Staged, Item
  <2> PICK c : c = Item(t, j, n)
    OBVIOUS
  <2>1. /\ c.owner = sides[t][j].id /\ (n = GilSlot <=> c.slot = 0) /\ (n = GilSlot <=> c.kind = Gil)
        /\ n # GilSlot => stage[t][j][n].qty <= StackSize[c.kind]
    BY <1>1, HeldOffers
  <2>2. \A m \in Window \ {n} : Item(t, j, m).uid # NoUid => Item(t, j, m).slot # c.slot
    BY <1>1 DEF StagedInv, StageHeld, WindowHeld, Staged
  <2> QED BY <1>1, <1>6, <2>1, <2>2 DEF OfferFits, Item
<1>8. ASSUME NEW x \in Exchange(t)
      PROVE  /\ x[2] \in 1..2 /\ x[3] \in Staged(t, x[2]) /\ x[3] \in Window
             /\ x[1] = "give" => <<"take", x[2], x[3]>> \in Exchange(t)
  BY DEF Exchange, Deliveries, Consumptions, Staged
<1>9. ASSUME NEW x \in todo' PROVE StepFits(t, x)'
  <2> PICK j \in 1..2, n \in Window : j = x[2] /\ n = x[3] /\ n \in Staged(t, j)
    BY <1>2, <1>8
  <2> PICK c : c = Item(t, j, n)
    OBVIOUS
  <2>1. Offer(t, j, n)' = stage[t][j][n] /\ stage[t][j][n].item = c
    BY <1>6 DEF Item
  <2>2. Takable(c)
    BY <1>1, HeldOffers DEF Takable
  <2>3. x[1] = "give" => <<"take", j, n>> \in todo'
    BY <1>2, <1>8
  <2> PICK q : q = sides[t][Other(j)].id
    OBVIOUS
  <2>4. n = GilSlot => HasRoom(q, stage[t][j][n].qty)
    <3>1. CanReceive(t, j)
      BY <1>2
    <3> QED BY <3>1 DEF CanReceive, HasRoom
  <2>5. sides'[t][Other(j)].id = q /\ Takable(c)' /\ inv' = inv
    BY <1>1, <2>2 DEF Takable, Resolves
  <2>6. n = GilSlot => HasRoom(q, stage[t][j][n].qty)'
    BY <1>1, <2>4, <2>5 DEF HasRoom, Occupied
  <2> QED BY <1>1, <2>1, <2>3, <2>5, <2>6 DEF StepFits, Takable, HasRoom, Resolves, Occupied
<1>10. Exact(t)'
  <2>1. Contents' = base'
    BY <1>1 DEF Contents, RowOf
  <2>2. ASSUME NEW j \in 1..2, NEW a \in {"give", "take"}, NEW k PROVE Share(agreed'[t][j].mine, Passed(todo', a, j), k) = 0
    <3> PICK W, D : W = stage[t][j] /\ D = Passed(todo', a, j)
      OBVIOUS
    <3>1. W \in WindowType
      BY <1>0 DEF TradeTyped, WindowType
    <3>2. ASSUME NEW n \in Window, n \in D PROVE W[n].qty = 0
      <4>1. <<a, j, n>> \notin Exchange(t)
        BY <1>2, <3>2 DEF Passed
      <4>2. n \notin Staged(t, j)
        BY <4>1 DEF Exchange, Deliveries, Consumptions
      <4>3. W[n] \in StageType /\ W[n].item.uid = NoUid
        BY <3>1, <4>2 DEF WindowType, Staged, Item
      <4> QED BY <4>3, StageTypes, EmptyTypes
    <3> QED BY <1>4, <3>1, <3>2, ShareNone
  <2>3. \A j \in 1..2, k \in Kinds : Given(t, j, k)' = 0 /\ Taken(t, j, k)' = 0
    BY <2>2 DEF Given, Taken
  <2>4. ASSUME NEW j \in 1..2, NEW k \in Kinds
        PROVE  TotalOf(Contents, sides[t][j].id, k)' = TotalOf(base, sides[t][j].id, k)'
                 + Given(t, Other(j), k)' - Taken(t, j, k)'
    <3>1. Other(j) \in 1..2 /\ sides[t][j].id \in Players
      BY <1>1 DEF Other, TypedInv, SidesArePlayers
    <3>2. TotalOf(Contents, sides[t][j].id, k) \in Nat
      BY <1>0, <3>1, ContentsType, TotalType DEF AllContents
    <3>3. TotalOf(Contents, sides[t][j].id, k)' = TotalOf(base, sides[t][j].id, k)'
      BY <2>1
    <3>4. TotalOf(base, sides[t][j].id, k)' = TotalOf(Contents, sides[t][j].id, k)
      BY <1>1 DEF TotalOf
    <3> QED BY <2>3, <3>1, <3>2, <3>3, <3>4
  <2> QED BY <2>1, <2>4 DEF Exact
<1> QED BY <1>5, <1>7, <1>9, <1>10 DEF Swap

(* One place has n more of a kind, and no other place has changed.          *)
Gains(p, s, k, n) ==
  /\ \A q \in Players, r \in Slots : q # p \/ r # s => inv'[q][r] = inv[q][r]
  /\ \A m \in Kinds : Amount(RowOf(inv'[p][s]), m) = Amount(RowOf(inv[p][s]), m) + (IF m = k THEN n ELSE 0)

(* A stack that was there is there.                                         *)
StaysAt(p, s) == Occupied(p, s) => inv'[p][s].uid = inv[p][s].uid /\ inv'[p][s].kind = inv[p][s].kind

LEMMA GiveGains ==
  ASSUME FitInv, NEW t \in Txs, NEW p \in Players, NEW k \in Kinds, NEW q \in Nat \ {0},
         q <= StackSize[k], Give(t, p, k, q, TRUE)
  PROVE  \E s \in Slots \ {0} : Gains(p, s, k, q) /\ StaysAt(p, s)
<1>0. TypeOK /\ StacksHaveKinds /\ NoKind \notin Kinds
  BY ConstantsAssumption DEF FitInv, IInv, ClaimInv
<1>1. Lesser(q, StackSize[k]) = q
  BY DEF Lesser
<1> PICK s \in FreeSlots(p) : InsertStack(p, s, k, q, TRUE)
  BY <1>1 DEF Give
<1>2. s \in Slots \ {0} /\ ~Occupied(p, s)
  BY DEF FreeSlots
<1>3. InsertsAs(p, s, k, q)
  BY <1>0, <1>2, InsertLands
<1>4. inv[p][s] = NoStack
  BY <1>0, <1>2 DEF StacksHaveKinds, Occupied
<1>5. RowOf(inv'[p][s]) = [kind |-> k, qty |-> q] /\ RowOf(inv[p][s]) = [kind |-> NoKind, qty |-> 0]
  BY <1>3, <1>4 DEF InsertsAs, RowOf, NoStack
<1>6. ASSUME NEW m \in Kinds
      PROVE  Amount(RowOf(inv'[p][s]), m) = Amount(RowOf(inv[p][s]), m) + (IF m = k THEN q ELSE 0)
  BY <1>0, <1>5 DEF Amount
<1> QED BY <1>2, <1>3, <1>6 DEF InsertsAs, Gains, StaysAt

LEMMA LandGains ==
  ASSUME FitInv, NEW p \in Players, NEW s \in Slots, NEW n \in Int, Occupied(p, s),
         inv[p][s].qty + n \in 0..StackSize[inv[p][s].kind], UpdateStack(p, s, n, TRUE)
  PROVE  /\ Gains(p, s, inv[p][s].kind, n)
         /\ inv[p][s].kind = Gil => StaysAt(p, s)
<1>0. TypeOK /\ StacksHaveKinds /\ NoKind \notin Kinds
  BY ConstantsAssumption DEF FitInv, IInv, ClaimInv
<1> PICK k : k = inv[p][s].kind
  OBVIOUS
<1>1. inv[p][s].qty \in Nat /\ k \in Kinds /\ StackSize[k] \in Nat
  BY <1>0, PlaceType, UpdatedBounds
<1>2. Updated(p, s, n) = inv[p][s].qty + n
  BY <1>0, <1>1, UpdatedBounds
<1>3. LandsAs(p, s, inv[p][s].qty + n)
  <2>1. inv[p][s].qty + n >= 0
    BY <1>1
  <2>2. LandsAs(p, s, Updated(p, s, n))
    BY <1>0, <2>1, UpdateLands
  <2> QED BY <1>2, <2>2
<1>4. ASSUME NEW m \in Kinds
      PROVE  Amount(RowOf(inv'[p][s]), m) = Amount(RowOf(inv[p][s]), m) + (IF m = k THEN n ELSE 0)
  <2>1. Amount(RowOf(inv[p][s]), m) = IF m = k THEN inv[p][s].qty ELSE 0
    BY DEF Amount, RowOf
  <2>2. Amount(RowOf(inv'[p][s]), m) = IF m = k THEN inv[p][s].qty + n ELSE 0
    <3>1. CASE inv[p][s].qty + n = 0 /\ k # Gil
      <4>1. RowOf(inv'[p][s]) = [kind |-> NoKind, qty |-> 0]
        BY <1>3, <3>1 DEF LandsAs, RowOf, NoStack
      <4> QED BY <1>0, <3>1, <4>1 DEF Amount
    <3>2. CASE ~(inv[p][s].qty + n = 0 /\ k # Gil)
      <4>1. RowOf(inv'[p][s]) = [kind |-> k, qty |-> inv[p][s].qty + n]
        BY <1>3, <3>2 DEF LandsAs, RowOf
      <4> QED BY <4>1 DEF Amount
    <3> QED BY <3>1, <3>2
  <2> QED BY <1>1, <2>1, <2>2
<1>5. k = Gil => StaysAt(p, s)
  BY <1>3 DEF LandsAs, StaysAt
<1> QED BY <1>3, <1>4, <1>5 DEF LandsAs, Gains

LEMMA GainedTotal ==
  ASSUME TypeOK, TypeOK', NEW p \in Players, NEW s \in Slots, NEW k \in Kinds, NEW n \in Int,
         Gains(p, s, k, n), NEW a \in Players
  PROVE  /\ \A m \in Kinds : TotalOf(Contents', a, m) = TotalOf(Contents, a, m) + (IF a = p /\ m = k THEN n ELSE 0)
         /\ a # p => Contents'[a] = Contents[a]
<1> PICK c, d : c = Contents /\ d = Contents'
  OBVIOUS
<1>1. c \in AllContents /\ d \in AllContents
  BY ContentsType, NextContentsType DEF AllContents
<1>2. \A q \in Players, r \in Slots : c[q][r] = RowOf(inv[q][r]) /\ d[q][r] = RowOf(inv'[q][r])
  BY ContentsAt DEF Contents
<1>3. \A q \in Players, r \in Slots : q # p \/ r # s => d[q][r] = c[q][r]
  BY <1>2 DEF Gains
<1>4. \A m \in Kinds : Amount(d[p][s], m) = Amount(c[p][s], m) + (IF m = k THEN n ELSE 0)
  BY <1>2 DEF Gains
<1>5. CASE a = p
  <2> SUFFICES ASSUME NEW m \in Kinds PROVE TotalOf(d, p, m) = TotalOf(c, p, m) + (IF m = k THEN n ELSE 0)
    BY <1>5
  <2>1. TotalOf(d, p, m) = TotalOf(c, p, m) + Amount(d[p][s], m) - Amount(c[p][s], m)
    BY <1>1, <1>3, TotalChange
  <2>2. TotalOf(c, p, m) \in Nat /\ Amount(c[p][s], m) \in Nat
    BY <1>1, TotalType, AmountType
  <2> QED BY <1>4, <2>1, <2>2
<1>6. CASE a # p
  <2>1. d[a] = c[a]
    <3>1. d[a] \in [Slots -> Row] /\ c[a] \in [Slots -> Row] /\ \A r \in Slots : d[a][r] = c[a][r]
      BY <1>1, <1>3, <1>6 DEF AllContents
    <3> QED BY <3>1
  <2>2. \A m \in Kinds : TotalOf(d, a, m) = TotalOf(c, a, m) /\ TotalOf(c, a, m) \in Nat
    BY <1>1, <2>1, TotalSame, TotalType
  <2> QED BY <1>6, <2>1, <2>2
<1> QED BY <1>5, <1>6

LEMMA SharePasses ==
  ASSUME NEW W \in WindowType, NEW T, NEW a, NEW i, NEW n \in Window, <<a, i, n>> \in T, NEW m
  PROVE  Share(W, Passed(T \ {<<a, i, n>>}, a, i), m) = Share(W, Passed(T, a, i), m) + OfSlot(W, n, m)
<1> PICK D : D = Passed(T, a, i)
  OBVIOUS
<1>1. Passed(T \ {<<a, i, n>>}, a, i) = D \cup {n} /\ n \notin D
  BY DEF Passed
<1>2. Share(W, D \cup {n}, m) = Share(W, D, m) + OfSlot(W, n, m)
  BY <1>1, ShareAdd
<1> QED BY <1>1, <1>2

LEMMA ExactStep ==
  ASSUME TypeOK, TypeOK', AgreedTyped, NEW t \in Txs, NEW i \in 1..2, NEW n \in Window, NEW a, NEW j, NEW d,
         \/ a = "give" /\ j = Other(i) /\ d = Offer(t, i, n).qty
         \/ a = "take" /\ j = i /\ d = -Offer(t, i, n).qty,
         <<a, i, n>> \in todo, todo' = todo \ {<<a, i, n>>}, UNCHANGED <<agreed, sides, base>>,
         Offer(t, i, n).qty \in Nat, Offer(t, i, n).item.kind \in Kinds,
         \A l \in 1..2 : sides[t][l].id \in Players, sides[t][1].id # sides[t][2].id,
         NEW s \in Slots, Gains(sides[t][j].id, s, Offer(t, i, n).item.kind, d), Exact(t)
  PROVE  Exact(t)'
<1> PICK k, q, W : k = Offer(t, i, n).item.kind /\ q = Offer(t, i, n).qty /\ W = agreed[t][i].mine
  OBVIOUS
<1>0. j \in 1..2 /\ d \in Int /\ q \in Nat /\ k \in Kinds /\ sides[t][j].id \in Players
  BY DEF Other
<1>1. ASSUME NEW o \in Players
      PROVE  /\ \A m \in Kinds : TotalOf(Contents', o, m) = TotalOf(Contents, o, m) + (IF o = sides[t][j].id /\ m = k THEN d ELSE 0)
             /\ o # sides[t][j].id => Contents'[o] = Contents[o]
  <2>1. Gains(sides[t][j].id, s, k, d)
    OBVIOUS
  <2> QED BY <1>0, <2>1, GainedTotal
<1>2. \A m : OfSlot(W, n, m) = IF m = k THEN q ELSE 0
  BY DEF OfSlot, Offer
<1>3. ASSUME NEW b \in {"give", "take"}, NEW l \in 1..2, NEW m \in Kinds
      PROVE  /\ Share(agreed[t][l].mine, Passed(todo, b, l), m) \in Nat
             /\ Share(agreed'[t][l].mine, Passed(todo', b, l), m) =
                  Share(agreed[t][l].mine, Passed(todo, b, l), m) + (IF a = b /\ l = i /\ m = k THEN q ELSE 0)
  <2> PICK V, D, E : V = agreed[t][l].mine /\ D = Passed(todo, b, l) /\ E = Passed(todo', b, l)
    OBVIOUS
  <2>1. agreed' = agreed /\ E = Passed(todo \ {<<a, i, n>>}, b, l) /\ V \in WindowType
    BY DEF AgreedTyped
  <2>2. Share(V, D, m) \in Nat
    BY <2>1, ShareType
  <2>3. CASE a = b /\ i = l
    <3>1. Share(V, E, m) = Share(V, D, m) + OfSlot(V, n, m)
      BY <2>1, <2>3, SharePasses
    <3>2. OfSlot(V, n, m) = IF m = k THEN q ELSE 0
      BY <1>2, <2>3
    <3> QED BY <2>1, <2>2, <2>3, <3>1, <3>2
  <2>4. CASE a # b \/ i # l
    <3>1. Passed(todo \ {<<a, i, n>>}, b, l) = Passed(todo, b, l)
      BY <2>4 DEF Passed
    <3>2. Share(V, E, m) = Share(V, D, m)
      BY <2>1, <3>1
    <3> QED BY <2>1, <2>2, <2>4, <3>2
  <2> QED BY <2>3, <2>4
<1>4. ASSUME NEW l \in 1..2, NEW m \in Kinds
      PROVE  TotalOf(Contents', sides[t][l].id, m) =
               TotalOf(base, sides[t][l].id, m) + Given(t, Other(l), m)' - Taken(t, l, m)'
  <2>0. Other(l) \in 1..2 /\ (l = j <=> sides[t][l].id = sides[t][j].id)
    BY <1>0 DEF Other
  <2>1. /\ Given(t, Other(l), m) \in Nat
        /\ Given(t, Other(l), m)' = Given(t, Other(l), m) + (IF a = "give" /\ Other(l) = i /\ m = k THEN q ELSE 0)
    BY <1>3, <2>0 DEF Given
  <2>2. /\ Taken(t, l, m) \in Nat
        /\ Taken(t, l, m)' = Taken(t, l, m) + (IF a = "take" /\ l = i /\ m = k THEN q ELSE 0)
    BY <1>3 DEF Taken
  <2>3. TotalOf(Contents', sides[t][l].id, m) = TotalOf(Contents, sides[t][l].id, m) + (IF l = j /\ m = k THEN d ELSE 0)
    BY <1>1, <2>0
  <2>4. TotalOf(Contents, sides[t][l].id, m) = TotalOf(base, sides[t][l].id, m) + Given(t, Other(l), m) - Taken(t, l, m)
    BY DEF Exact
  <2>5. TotalOf(base, sides[t][l].id, m) \in Nat
    BY TotalType DEF TypeOK, AllContents
  <2>6. CASE a = "give"
    <3>1. l = j <=> Other(l) = i
      BY <2>6 DEF Other
    <3>2. d = q
      BY <2>6
    <3> QED BY <1>0, <2>1, <2>2, <2>3, <2>4, <2>5, <2>6, <3>1, <3>2
  <2>7. CASE a = "take"
    <3>1. d = -q /\ j = i
      BY <2>7
    <3> QED BY <1>0, <2>1, <2>2, <2>3, <2>4, <2>5, <2>7, <3>1
  <2> QED BY <2>6, <2>7
<1>5. ASSUME NEW o \in Players, o \notin Parties(t) PROVE Contents'[o] = base[o]
  <2>1. o # sides[t][j].id
    BY <1>0, <1>5 DEF Parties
  <2> QED BY <1>1, <1>5, <2>1 DEF Exact
<1>6. UNCHANGED <<sides, base>>
  OBVIOUS
<1> QED BY <1>4, <1>5, <1>6 DEF Exact, Parties

LEMMA StepItem ==
  ASSUME FitInv, TypedInv, NEW t \in Trades, cpu = t, Swap(t), NEW x \in todo
  PROVE  /\ x[1] \in {"give", "take", "release"} /\ x[2] \in 1..2 /\ x[3] \in Window /\ x = <<x[1], x[2], x[3]>>
         /\ sides[t][1].id \in Players /\ sides[t][2].id \in Players /\ sides[t][Other(x[2])].id \in Players
         /\ LET o == Offer(t, x[2], x[3])
            IN /\ o = stage[t][x[2]][x[3]] /\ o.qty \in Nat \ {0}
               /\ o.item.uid # NoUid /\ o.item.owner = sides[t][x[2]].id
               /\ o.item.owner \in Players /\ o.item.slot \in Slots /\ o.item.kind \in Kinds
<1>1. x \in Steps /\ Item(t, x[2], x[3]).uid # NoUid
  <2>1. x \in Steps
    BY DEF TypedInv, TradeTyped
  <2>2. Item(t, x[2], x[3]).uid # 0
    BY DEF TypedInv, TodoIsStaged
  <2> QED BY <2>1, <2>2
<1>2. x[1] \in {"give", "take", "release"} /\ x[2] \in 1..2 /\ x[3] \in Window /\ x = <<x[1], x[2], x[3]>>
  BY <1>1 DEF Steps
<1>3. txState[t] = "Open"
  BY RunningIsOpen
<1>4. sides[t][1].id \in Players /\ sides[t][2].id \in Players /\ Other(x[2]) \in 1..2
  BY <1>2, <1>3 DEF TypedInv, SidesArePlayers, Other
<1> PICK o : o = Offer(t, x[2], x[3])
  OBVIOUS
<1>5. o = stage[t][x[2]][x[3]] /\ o.item = Item(t, x[2], x[3])
  BY DEF Swap, StepFits, Item
<1>6. o.item.owner = sides[t][x[2]].id
  <2>1. OfferFits(t, x[2], x[3])
    BY <1>2 DEF Swap
  <2> QED BY <1>1, <1>5, <2>1 DEF OfferFits
<1>7. o.item.owner \in Players /\ o.item.slot \in Slots /\ o.item.kind \in Kinds /\ o.qty \in Nat \ {0}
  BY <1>1, <1>2, <1>3, <1>5, StagedItem
<1> QED BY <1>1, <1>2, <1>4, <1>5, <1>6, <1>7

LEMMA StillFits ==
  ASSUME NEW t \in Trades, Swap(t), NEW x \in todo, todo' = todo \ {x},
         NEW y \in todo', Before(x, y), UNCHANGED <<agreed, sides>>,
         stage'[t][y[2]][y[3]] = stage[t][y[2]][y[3]],
         y[1] = "take" =>
           LET c == Offer(t, y[2], y[3]).item
           IN inv'[c.owner][c.slot].uid = inv[c.owner][c.slot].uid /\ inv'[c.owner][c.slot].kind = inv[c.owner][c.slot].kind,
         y[1] = "give" /\ y[3] = GilSlot =>
           LET p == sides[t][Other(y[2])].id IN inv'[p][0] = inv[p][0]
  PROVE  StepFits(t, y)'
<1>1. y \in todo /\ StepFits(t, y)
  BY DEF Swap
<1> PICK o : o = Offer(t, y[2], y[3])
  OBVIOUS
<1>2. Offer(t, y[2], y[3])' = o
  BY DEF Offer
<1>3. y[1] = "give" => <<"take", y[2], y[3]>> \in todo'
  <2> SUFFICES ASSUME y[1] = "give" PROVE <<"take", y[2], y[3]>> \in todo'
    OBVIOUS
  <2>1. <<"take", y[2], y[3]>> \in todo
    BY <1>1 DEF StepFits
  <2>2. x[1] = "give"
    BY DEF Before
  <2>3. x # <<"take", y[2], y[3]>>
    BY <2>2
  <2> QED BY <2>1, <2>3
<1>4. (stage[t][y[2]][y[3]] = Offer(t, y[2], y[3]))'
  BY <1>1, <1>2 DEF StepFits
<1>5. (y[1] = "take" => Takable(Offer(t, y[2], y[3]).item))'
  BY <1>1, <1>2 DEF StepFits, Takable, Resolves
<1>6. (y[1] = "give" /\ y[3] = GilSlot => HasRoom(sides[t][Other(y[2])].id, Offer(t, y[2], y[3]).qty))'
  BY <1>1, <1>2 DEF StepFits, HasRoom, Occupied
<1> QED BY <1>3, <1>4, <1>5, <1>6 DEF StepFits

LEMMA FailedCloses ==
  ASSUME TypedInv, Failed
  PROVE  job'.op = "close"
<1>1. job \in Job
  BY DEF TypedInv, TradeTyped
<1> QED BY <1>1 DEF Failed, Job

LEMMA DeliverGains ==
  ASSUME FitInv, TypedInv, NEW t \in Trades, cpu = t, Swap(t), NEW x \in todo, x[1] = "give",
         DeliverSlot(t, x), job'.op = "exchange"
  PROVE  /\ todo' = todo \ {x} /\ base' = base
         /\ \E s \in Slots : /\ Gains(sides[t][Other(x[2])].id, s, Offer(t, x[2], x[3]).item.kind, Offer(t, x[2], x[3]).qty)
                             /\ StaysAt(sides[t][Other(x[2])].id, s)
                             /\ s = 0 => x[3] = GilSlot
<1> PICK i, n : i = x[2] /\ n = x[3]
  OBVIOUS
<1> PICK o, p : o = Offer(t, i, n) /\ p = sides[t][Other(i)].id
  OBVIOUS
<1>0. TypeOK /\ t \in Txs /\ 0 \in Slots
  BY TradeConstants DEF FitInv, IInv
<1>1. i \in 1..2 /\ n \in Window /\ p \in Players
  BY StepItem
<1>2. o = stage[t][i][n] /\ o.qty \in Nat \ {0} /\ o.item.uid # NoUid /\ o.item.kind \in Kinds
  BY StepItem
<1>3. OfferFits(t, i, n) /\ StepFits(t, x)
  BY <1>1 DEF Swap
<1>4. (n = GilSlot <=> o.item.kind = Gil) /\ (n # GilSlot => o.qty <= StackSize[o.item.kind])
  BY <1>2, <1>3 DEF OfferFits
<1>5. Resolves(o.item)
  <2> PICK y : y = <<"take", i, n>>
    OBVIOUS
  <2>1. y \in todo /\ y[1] = "take" /\ y[2] = i /\ y[3] = n
    BY <1>3 DEF StepFits
  <2>2. StepFits(t, y)
    BY <2>1 DEF Swap
  <2> QED BY <2>1, <2>2 DEF StepFits, Takable
<1>6. ~Failed
  BY FailedCloses
<1>7. \/ o.item.kind # Gil /\ Give(t, p, o.item.kind, o.qty, TRUE) /\ Done(x)
      \/ o.item.kind = Gil /\ Grow(t, p, 0, o.qty, TRUE) /\ Done(x)
  BY <1>2, <1>5, <1>6 DEF DeliverSlot, Item
<1>8. CASE o.item.kind # Gil /\ Give(t, p, o.item.kind, o.qty, TRUE) /\ Done(x)
  <2>1. \E s \in Slots \ {0} : Gains(p, s, o.item.kind, o.qty) /\ StaysAt(p, s)
    BY <1>0, <1>1, <1>2, <1>4, <1>8, GiveGains
  <2> QED BY <1>8, <2>1 DEF Give, Done
<1>9. CASE o.item.kind = Gil /\ Grow(t, p, 0, o.qty, TRUE) /\ Done(x)
  <2>1. HasRoom(p, o.qty)
    BY <1>3, <1>4, <1>9 DEF StepFits
  <2>2. inv[p][0].kind = Gil
    BY <1>0, <1>1, <2>1 DEF FitInv, StacksFit, Fits, HasRoom, Occupied
  <2>3. inv[p][0].qty \in Nat
    BY <1>0, <1>1, PlaceType
  <2>4. Gil \in Kinds /\ StackSize[Gil] \in Nat
    BY <1>2, <1>9, ConstantsAssumption
  <2>5. Occupied(p, 0) /\ UpdateStack(p, 0, o.qty, TRUE)
    BY <1>9, <2>1 DEF Grow, HasRoom
  <2> PICK z, g : z = inv[p][0].qty /\ g = o.qty
    OBVIOUS
  <2>6. z + g \in 0..StackSize[inv[p][0].kind] /\ g \in Int
    <3>1. z + g <= StackSize[Gil]
      BY <2>1 DEF HasRoom
    <3> QED BY <1>2, <2>2, <2>3, <2>4, <3>1
  <2>7. Gains(p, 0, inv[p][0].kind, g) /\ (inv[p][0].kind = Gil => StaysAt(p, 0))
    BY <1>0, <1>1, <2>5, <2>6, LandGains
  <2>8. Gains(p, 0, o.item.kind, o.qty) /\ StaysAt(p, 0)
    BY <1>9, <2>2, <2>7
  <2>9. todo' = todo \ {x} /\ base' = base
    BY <1>9 DEF Grow, Done
  <2> QED BY <1>0, <1>4, <1>9, <2>8, <2>9
<1> QED BY <1>7, <1>8, <1>9

LEMMA GiveSwap ==
  ASSUME FitInv, TypeOK', TypedInv, AgreedTyped, NEW t \in Trades, cpu = t, sides[t][1].id # sides[t][2].id, Swap(t),
         NEW x \in todo, x[1] = "give", todo' = todo \ {x}, \A y \in todo' : Before(x, y),
         UNCHANGED <<agreed, sides, base, stage>>, NEW s \in Slots,
         Gains(sides[t][Other(x[2])].id, s, Offer(t, x[2], x[3]).item.kind, Offer(t, x[2], x[3]).qty),
         StaysAt(sides[t][Other(x[2])].id, s), s = 0 => x[3] = GilSlot
  PROVE  (\A y \in todo' : StepFits(t, y)') /\ Exact(t)'
<1> PICK i, n, p : i = x[2] /\ n = x[3] /\ p = sides[t][Other(i)].id
  OBVIOUS
<1>0. TypeOK /\ t \in Txs /\ 0 \in Slots
  BY TradeConstants DEF FitInv, IInv
<1>1. i \in 1..2 /\ n \in Window /\ x = <<"give", i, n>> /\ p \in Players /\ sides[t][1].id \in Players /\ sides[t][2].id \in Players
  BY StepItem
<1>2. Offer(t, i, n).qty \in Nat \ {0} /\ Offer(t, i, n).item.kind \in Kinds
  BY StepItem
<1>3. Exact(t)'
  <2>1. Exact(t) /\ \A l \in 1..2 : sides[t][l].id \in Players
    BY <1>1 DEF Swap
  <2>2. <<"give", i, n>> \in todo /\ todo' = todo \ {<<"give", i, n>>}
    BY <1>1
  <2>3. UNCHANGED <<agreed, sides, base>> /\ Gains(sides[t][Other(i)].id, s, Offer(t, i, n).item.kind, Offer(t, i, n).qty)
    OBVIOUS
  <2> QED BY <1>0, <1>1, <1>2, <2>1, <2>2, <2>3, ExactStep
<1>4. ASSUME NEW y \in todo' PROVE StepFits(t, y)'
  <2>1. y \in todo /\ y # x /\ Before(x, y)
    OBVIOUS
  <2>2. y[2] \in 1..2 /\ y[3] \in Window /\ y = <<y[1], y[2], y[3]>> /\ sides[t][Other(y[2])].id \in Players
    BY <2>1, StepItem
  <2> PICK c : c = Offer(t, y[2], y[3]).item
    OBVIOUS
  <2>3. c.uid # NoUid /\ c.owner \in Players /\ c.slot \in Slots
    BY <2>1, StepItem
  <2>4. ASSUME y[1] = "take"
        PROVE  inv'[c.owner][c.slot].uid = inv[c.owner][c.slot].uid /\ inv'[c.owner][c.slot].kind = inv[c.owner][c.slot].kind
    <3>1. Occupied(c.owner, c.slot)
      BY <2>1, <2>3, <2>4 DEF Swap, StepFits, Takable, Resolves, Occupied
    <3> QED BY <2>3, <3>1 DEF Gains, StaysAt
  <2>5. ASSUME y[1] = "give", y[3] = GilSlot
        PROVE  inv'[sides[t][Other(y[2])].id][0] = inv[sides[t][Other(y[2])].id][0]
    <3>1. sides[t][Other(y[2])].id # p \/ s # 0
      <4> SUFFICES ASSUME n = GilSlot, sides[t][Other(y[2])].id = p PROVE FALSE
        OBVIOUS
      <4>1. y[2] # i
        BY <1>1, <2>1, <2>2, <2>5
      <4> QED BY <1>1, <2>2, <4>1 DEF Other
    <3> QED BY <1>0, <2>2, <3>1 DEF Gains
  <2>6. UNCHANGED <<agreed, sides>> /\ stage' = stage
    OBVIOUS
  <2> QED BY <2>1, <2>4, <2>5, <2>6, StillFits
<1> QED BY <1>3, <1>4

LEMMA LeavesEnough ==
  ASSUME NEW n \in Nat, NEW q \in Nat, NEW M \in Nat, n <= M, n + (-q) >= 0
  PROVE  n + (-q) \in 0..M /\ -q \in Int
OBVIOUS

LEMMA ConsumeGains ==
  ASSUME FitInv, TypedInv, NEW t \in Trades, cpu = t, Swap(t), NEW x \in todo, x[1] = "take",
         ConsumeSlot(t, x), job'.op = "exchange"
  PROVE  /\ todo' = todo \ {x} /\ base' = base
         /\ Gains(sides[t][x[2]].id, Offer(t, x[2], x[3]).item.slot, Offer(t, x[2], x[3]).item.kind, -Offer(t, x[2], x[3]).qty)
<1> PICK i, n : i = x[2] /\ n = x[3]
  OBVIOUS
<1> PICK o, p, s, q : o = Offer(t, i, n) /\ p = sides[t][i].id /\ s = o.item.slot /\ q = o.qty
  OBVIOUS
<1>0. TypeOK /\ StacksHaveKinds /\ t \in Txs
  BY TradeConstants DEF FitInv, IInv, ClaimInv
<1>1. o = stage[t][i][n] /\ o.item.owner = p /\ p \in Players /\ s \in Slots /\ q \in Nat \ {0}
  BY StepItem
<1>2. inv[p][s].kind = o.item.kind
  <2>1. StepFits(t, x)
    BY DEF Swap
  <2> QED BY <1>1, <2>1 DEF StepFits, Takable
<1>3. ~Failed
  BY FailedCloses
<1>4. CanUpdate(t, p, s, -q) /\ Take(t, p, s, q, TRUE) /\ Done(x)
  BY <1>1, <1>3 DEF ConsumeSlot, Item
<1>5. Occupied(p, s) /\ inv[p][s].qty + (-q) >= 0 /\ UpdateStack(p, s, -q, TRUE)
  BY <1>4 DEF CanUpdate, Take
<1>6. inv[p][s].qty \in Nat /\ inv[p][s].kind \in Kinds /\ StackSize[inv[p][s].kind] \in Nat
  <2>1. inv[p][s].qty \in Nat
    BY <1>0, <1>1, PlaceType
  <2>2. inv[p][s].kind \in Kinds
    BY <1>0, <1>1, <1>5 DEF StacksHaveKinds, Occupied
  <2> QED BY <2>1, <2>2, ConstantsAssumption
<1>7. inv[p][s].qty <= StackSize[inv[p][s].kind]
  BY <1>1, <1>5 DEF FitInv, StacksFit, Fits, Occupied
<1>8. inv[p][s].qty + (-q) \in 0..StackSize[inv[p][s].kind] /\ -q \in Int
  BY <1>1, <1>5, <1>6, <1>7, LeavesEnough
<1>9. Gains(p, s, inv[p][s].kind, -q)
  BY <1>1, <1>5, <1>8, LandGains
<1>10. todo' = todo \ {x} /\ base' = base
  BY <1>4 DEF Take, Done
<1> QED BY <1>2, <1>9, <1>10

LEMMA TakeSwap ==
  ASSUME FitInv, TypeOK', TypedInv, AgreedTyped, NEW t \in Trades, cpu = t, sides[t][1].id # sides[t][2].id, Swap(t),
         NEW x \in todo, x[1] = "take", todo' = todo \ {x}, \A y \in todo' : Before(x, y),
         UNCHANGED <<agreed, sides, base, stage>>,
         Gains(sides[t][x[2]].id, Offer(t, x[2], x[3]).item.slot, Offer(t, x[2], x[3]).item.kind, -Offer(t, x[2], x[3]).qty)
  PROVE  (\A y \in todo' : StepFits(t, y)') /\ Exact(t)'
<1> PICK i, n, p, s : i = x[2] /\ n = x[3] /\ p = sides[t][i].id /\ s = Offer(t, i, n).item.slot
  OBVIOUS
<1>0. TypeOK /\ t \in Txs
  BY TradeConstants DEF FitInv, IInv
<1>1. i \in 1..2 /\ n \in Window /\ x = <<"take", i, n>> /\ p \in Players /\ sides[t][1].id \in Players /\ sides[t][2].id \in Players
  BY StepItem
<1>2. /\ Offer(t, i, n).qty \in Nat \ {0} /\ Offer(t, i, n).item.kind \in Kinds /\ s \in Slots
      /\ Offer(t, i, n).item.uid # NoUid /\ Offer(t, i, n).item.owner = p
  BY StepItem
<1>3. Exact(t)'
  <2>1. Exact(t) /\ \A l \in 1..2 : sides[t][l].id \in Players
    BY <1>1 DEF Swap
  <2>2. <<"take", i, n>> \in todo /\ todo' = todo \ {<<"take", i, n>>}
    BY <1>1
  <2>3. UNCHANGED <<agreed, sides, base>> /\ Gains(sides[t][i].id, s, Offer(t, i, n).item.kind, -Offer(t, i, n).qty)
    OBVIOUS
  <2> QED BY <1>0, <1>1, <1>2, <2>1, <2>2, <2>3, ExactStep
<1>4. ASSUME NEW y \in todo' PROVE StepFits(t, y)'
  <2>1. y \in todo /\ y # x /\ Before(x, y)
    OBVIOUS
  <2> PICK j, m : j = y[2] /\ m = y[3]
    OBVIOUS
  <2> PICK c : c = Offer(t, j, m).item
    OBVIOUS
  <2>2. j \in 1..2 /\ m \in Window /\ y = <<y[1], j, m>>
    BY <2>1, StepItem
  <2>3. c.uid # NoUid /\ c.owner = sides[t][j].id /\ c.owner \in Players /\ c.slot \in Slots
    BY <2>1, StepItem
  <2>4. y[1] # "give"
    BY <2>1 DEF Before
  <2>5. ASSUME y[1] = "take"
        PROVE  inv'[c.owner][c.slot].uid = inv[c.owner][c.slot].uid /\ inv'[c.owner][c.slot].kind = inv[c.owner][c.slot].kind
    <3>1. j # i \/ m # n
      BY <1>1, <2>1, <2>2, <2>5
    <3>2. c.owner # p \/ c.slot # s
      <4>1. CASE j # i
        BY <1>1, <2>2, <2>3, <4>1
      <4>2. CASE j = i /\ m # n
        <5>1. OfferFits(t, i, n)
          BY <1>1 DEF Swap
        <5>2. Offer(t, i, m).item = c
          BY <4>2
        <5> QED BY <1>2, <2>2, <2>3, <4>2, <5>1, <5>2 DEF OfferFits
      <4> QED BY <3>1, <4>1, <4>2
    <3> QED BY <2>3, <3>2 DEF Gains
  <2>6. UNCHANGED <<agreed, sides>> /\ stage' = stage
    OBVIOUS
  <2> QED BY <2>1, <2>4, <2>5, <2>6, StillFits
<1> QED BY <1>3, <1>4

LEMMA ReleaseSwap ==
  ASSUME FitInv, TypeOK', TypedInv, AgreedTyped, NEW t \in Trades, cpu = t, Swap(t),
         NEW x \in todo, x[1] = "release", todo' = todo \ {x}, \A y \in todo' : Before(x, y),
         UNCHANGED <<agreed, sides>>, ReleaseSlot(t, x[2], x[3])
  PROVE  (\A y \in todo' : StepFits(t, y)') /\ Exact(t)'
<1> PICK i, n : i = x[2] /\ n = x[3]
  OBVIOUS
<1>0. TypeOK /\ t \in Txs /\ i \in 1..2 /\ n \in Window /\ x = <<"release", i, n>>
  BY TradeConstants, StepItem DEF FitInv, IInv
<1>1. base' = base /\ Contents' = Contents
  <2>1. CASE UnchangedEngine
    BY <2>1 DEF UnchangedEngine, vars, Contents, RowOf
  <2>2. CASE \E c \in claims[t] : Release(t, c)
    BY <1>0, <2>2, StampsLeaveContents DEF Release
  <2> QED BY <2>1, <2>2 DEF ReleaseSlot
<1>2. \A q \in Players, r \in Slots : inv'[q][r].uid = inv[q][r].uid /\ inv'[q][r].kind = inv[q][r].kind
  <2>1. CASE UnchangedEngine
    BY <2>1 DEF UnchangedEngine, vars
  <2>2. CASE \E c \in claims[t] : Release(t, c)
    BY <1>0, <2>2, ExitEffect DEF Release
  <2> QED BY <2>1, <2>2 DEF ReleaseSlot
<1>3. \A b \in {"give", "take"}, l \in 1..2 : Passed(todo', b, l) = Passed(todo, b, l)
  BY <1>0 DEF Passed
<1>4. Exact(t)'
  <2>1. \A l \in 1..2, k \in Kinds : Given(t, l, k)' = Given(t, l, k) /\ Taken(t, l, k)' = Taken(t, l, k)
    BY <1>3 DEF Given, Taken
  <2>2. \A l \in 1..2 : Other(l) \in 1..2
    BY DEF Other
  <2>3. Exact(t) /\ UNCHANGED <<sides, base>>
    BY <1>1 DEF Swap
  <2>4. ASSUME NEW l \in 1..2, NEW k \in Kinds
        PROVE  TotalOf(Contents', sides[t][l].id, k) =
                 TotalOf(base, sides[t][l].id, k) + Given(t, Other(l), k)' - Taken(t, l, k)'
    BY <1>1, <2>1, <2>2, <2>3 DEF Exact
  <2>5. \A p \in Players : p \notin Parties(t) => Contents'[p] = base[p]
    BY <1>1, <2>3 DEF Exact
  <2> QED BY <2>3, <2>4, <2>5 DEF Exact, Parties
<1>5. ASSUME NEW y \in todo' PROVE StepFits(t, y)'
  <2>1. y \in todo /\ Before(x, y)
    OBVIOUS
  <2>2. y[2] \in 1..2 /\ y[3] \in Window
    BY <2>1, StepItem
  <2>3. y[1] # "give" /\ (y[2] # i \/ y[3] # n)
    <3>1. i \in Int /\ n \in Int
      BY <1>0, TradeConstants
    <3> QED BY <1>0, <2>1, <3>1 DEF Before, InOrder
  <2> PICK c : c = Offer(t, y[2], y[3]).item
    OBVIOUS
  <2>4. c.owner \in Players /\ c.slot \in Slots
    BY <2>1, StepItem
  <2>5. inv'[c.owner][c.slot].uid = inv[c.owner][c.slot].uid /\ inv'[c.owner][c.slot].kind = inv[c.owner][c.slot].kind
    BY <1>2, <2>4
  <2>6. stage'[t][y[2]][y[3]] = stage[t][y[2]][y[3]]
    <3>1. Unstaged(t, i, n)
      BY DEF ReleaseSlot
    <3> QED BY <1>0, <2>2, <2>3, <3>1 DEF Unstaged, TypedInv, TradeTyped
  <2>7. UNCHANGED <<agreed, sides>>
    OBVIOUS
  <2> QED BY <2>1, <2>3, <2>5, <2>6, <2>7, StillFits
<1> QED BY <1>4, <1>5

LEMMA ExchangeSwap ==
  ASSUME FitInv, TypeOK', TypedInv, MutualInv, SeenInv, NEW t \in Trades, ExchangeStep(t), Swap(t), job'.op = "exchange"
  PROVE  Swap(t)'
<1>0. TypeOK /\ t \in Txs /\ cpu = t /\ AgreedTyped /\ sides[t][1].id # sides[t][2].id
  BY RunningIsOpen, TwoSides DEF FitInv, IInv, ExchangeStep, SeenInv, AgreedInv, Closing
<1> PICK x \in todo :
      /\ \A y \in todo \ {x} : Before(x, y)
      /\ \/ x[1] = "give" /\ DeliverSlot(t, x) /\ UNCHANGED stage
         \/ x[1] = "take" /\ ConsumeSlot(t, x) /\ UNCHANGED stage
         \/ x[1] = "release" /\ ReleaseSlot(t, x[2], x[3]) /\ Done(x)
  BY DEF ExchangeStep
<1>1. UNCHANGED <<agreed, sides>>
  BY DEF ExchangeStep
<1>2. (\A y \in todo' : StepFits(t, y)') /\ Exact(t)'
  <2>1. CASE x[1] = "give" /\ DeliverSlot(t, x) /\ UNCHANGED stage
    <3>1. todo' = todo \ {x} /\ base' = base
      BY <1>0, <2>1, DeliverGains
    <3> PICK s \in Slots : /\ Gains(sides[t][Other(x[2])].id, s, Offer(t, x[2], x[3]).item.kind, Offer(t, x[2], x[3]).qty)
                           /\ StaysAt(sides[t][Other(x[2])].id, s)
                           /\ s = 0 => x[3] = GilSlot
      BY <1>0, <2>1, DeliverGains
    <3>2. UNCHANGED <<agreed, sides, base, stage>> /\ \A y \in todo' : Before(x, y)
      BY <1>1, <2>1, <3>1
    <3> QED BY <1>0, <2>1, <3>1, <3>2, GiveSwap
  <2>2. CASE x[1] = "take" /\ ConsumeSlot(t, x) /\ UNCHANGED stage
    <3>1. /\ todo' = todo \ {x} /\ base' = base
          /\ Gains(sides[t][x[2]].id, Offer(t, x[2], x[3]).item.slot, Offer(t, x[2], x[3]).item.kind, -Offer(t, x[2], x[3]).qty)
      BY <1>0, <2>2, ConsumeGains
    <3>2. UNCHANGED <<agreed, sides, base, stage>> /\ \A y \in todo' : Before(x, y)
      BY <1>1, <2>2, <3>1
    <3> QED BY <1>0, <2>2, <3>1, <3>2, TakeSwap
  <2>3. CASE x[1] = "release" /\ ReleaseSlot(t, x[2], x[3]) /\ Done(x)
    <3>1. todo' = todo \ {x} /\ \A y \in todo' : Before(x, y)
      BY <2>3 DEF Done
    <3> QED BY <1>0, <1>1, <2>3, <3>1, ReleaseSwap
  <2> QED BY <2>1, <2>2, <2>3
<1>3. Agreement(t)' /\ \A i \in 1..2, n \in Window : OfferFits(t, i, n)'
  <2>1. Agreement(t) /\ \A i \in 1..2, n \in Window : OfferFits(t, i, n)
    BY DEF Swap
  <2> QED BY <1>1, <2>1 DEF Agreement, OfferFits, Offer
<1> QED BY <1>2, <1>3 DEF Swap

(* Nothing else leaves a trade in its exchange.                             *)
LEMMA OnlySwaps ==
  ASSUME FitInv, TypedInv, [TradeNext]_allVars, NEW t \in Trades, Swapping(t)'
  PROVE  \/ UNCHANGED allVars
         \/ \E p \in Players, near \in BOOLEAN : Make(p, t, near)
         \/ ExchangeStep(t) /\ Swapping(t)
<1>0. cpu' = t /\ job'.op = "exchange" /\ t # Idle /\ TradeTyped /\ TypeOK /\ job \in Job
  BY TradeConstants DEF Swapping, TypedInv, TradeTyped, FitInv, IInv
<1>1. CASE Handshake
  <2>1. \A op : op # "exchange" => [NoJob EXCEPT !.op = op].op # "exchange" /\ \A l : [NoJob EXCEPT !.op = op, !.leaver = l].op # "exchange"
    BY EmptyTypes DEF Job
  <2>2. ASSUME NEW u, NEW q, Abort(u, q) PROVE FALSE
    BY <1>0, <2>1, <2>2 DEF Abort
  <2>3. ASSUME NEW p \in Players, NEW u \in Trades, NEW near \in BOOLEAN, StartTrade(p, u, near) PROVE FALSE
    BY <1>0, <2>1, <2>3 DEF StartTrade, UnchangedEngine, vars
  <2> QED BY <1>0, <1>1, <2>2, <2>3 DEF Handshake, Request, CancelTrade, LeaveZone, EnterZone, UnchangedEngine, vars
<1>2. CASE Staging
  <2>1. ASSUME NEW u, SetSlotUnstages(u) \/ SetSlotStages(u) PROVE FALSE
    BY <1>0, <2>1 DEF SetSlotUnstages, SetSlotStages, Job
  <2>2. ASSUME NEW p, NEW u, NEW n, NEW s, NEW q, SetSlot(p, u, n, s, q) PROVE FALSE
    BY <1>0, <2>2 DEF SetSlot
  <2>3. ASSUME NEW u, LeaveTrade(u) PROVE FALSE
    BY <1>0, <2>3, EmptyTypes DEF LeaveTrade
  <2> QED BY <1>2, <2>1, <2>2, <2>3 DEF Staging
<1>3. ASSUME NEW u \in Trades, NEW p \in Players, NEW near \in BOOLEAN, Make(p, u, near) PROVE u = t
  BY <1>0, <1>3 DEF Make, Enter
<1>4. ASSUME NEW u \in Trades, ExchangeStep(u) PROVE u = t /\ Swapping(t)
  <2>1. u \in Txs
    BY TradeConstants
  <2>2. cpu' = cpu
    BY <1>0, <1>4, <2>1, ExchangeIsWork, WorkControl DEF vars
  <2> QED BY <1>0, <1>4, <2>2 DEF ExchangeStep, Swapping
<1>5. ASSUME NEW u \in Trades, CommitTrade(u) \/ RollBackTrade(u) PROVE FALSE
  BY <1>0, <1>5, EmptyTypes DEF CommitTrade, RollBackTrade, Removed, tradeVars
<1>6. ASSUME NEW u \in Txs, NEW p \in Restless, Purchase(u, p) PROVE FALSE
  BY <1>0, <1>6, PurchaseLeaves
<1>7. ASSUME NEW p \in Restless, Elsewhere(p) PROVE FALSE
  BY <1>0, <1>7, ElsewhereControl, TradeConstants
<1> QED BY <1>1, <1>2, <1>3, <1>4, <1>5, <1>6, <1>7 DEF TradeNext, Exchanging

LEMMA SwapStep ==
  ASSUME FitInv, TypedInv, MutualInv, StagedInv, SeenInv, SwapInv, [TradeNext]_allVars
  PROVE  SwapInv'
<1>0. TypeOK' /\ TypedInv' /\ SeenInv'
  BY EngineStep, FitStep, TypedStep, SeenStep DEF FitInv, IInv
<1> SUFFICES ASSUME NEW t \in Trades, Swapping(t)' PROVE Swap(t)'
  BY DEF SwapInv
<1>1. CASE UNCHANGED allVars
  <2>1. UNCHANGED <<inv, cpu, base, sides, stage, agreed, job, todo>>
    BY <1>1 DEF allVars, vars, tradeVars
  <2>2. Swap(t)
    BY <2>1 DEF SwapInv, Swapping
  <2>3. Contents' = Contents /\ UNCHANGED <<base, sides>>
    BY <2>1 DEF Contents, RowOf
  <2>4. \A i, k : Given(t, i, k)' = Given(t, i, k) /\ Taken(t, i, k)' = Taken(t, i, k)
    BY <2>1 DEF Given, Taken
  <2>5. Exact(t)'
    BY <2>2, <2>3, <2>4 DEF Swap, Exact, Parties
  <2>6. \A x \in todo' : StepFits(t, x)'
    BY <2>1, <2>2 DEF Swap, StepFits, Offer, Takable, Resolves, HasRoom, Occupied
  <2>7. Agreement(t)' /\ \A i \in 1..2, n \in Window : OfferFits(t, i, n)'
    BY <2>1, <2>2 DEF Swap, Agreement, OfferFits, Offer
  <2> QED BY <2>5, <2>6, <2>7 DEF Swap
<1>2. ASSUME NEW p \in Players, NEW near \in BOOLEAN, Make(p, t, near) PROVE Swap(t)'
  BY <1>0, <1>2, MakeSwap DEF Swapping
<1>3. CASE ExchangeStep(t) /\ Swapping(t)
  BY <1>0, <1>3, ExchangeSwap DEF SwapInv, Swapping
<1> QED BY <1>1, <1>2, <1>3, OnlySwaps

LEMMA InitSwap == TradeInit => SwapInv
BY TradeConstants DEF TradeInit, Init, SwapInv, Swapping

SwapsInv == TradeInv /\ SeenInv /\ SwapInv

LEMMA ExactCommit ==
  ASSUME SwapsInv, TypeOK', NEW t \in Trades, CommitTrade(t)
  PROVE  SwapsAsAgreed(t)
<1> PICK V, W : V = agreed[t][1].mine /\ W = agreed[t][1].theirs
  OBVIOUS
<1>0. FitInv /\ TypeOK /\ t \in Txs /\ cpu = t /\ AgreedTyped /\ todo = {} /\ job.op = "exchange"
  BY TradeConstants DEF SwapsInv, TradeInv, FitInv, IInv, CommitTrade, Commit, SeenInv, AgreedInv
<1>1. Swap(t)
  BY <1>0 DEF SwapsInv, SwapInv, Swapping
<1>2. Contents' = Contents
  BY <1>0, StampsLeaveContents DEF CommitTrade
<1>3. V \in WindowType /\ W \in WindowType /\ agreed[t][2] \in [mine : WindowType, theirs : WindowType]
  BY <1>0 DEF AgreedTyped
<1>4. agreed[t][2].mine = W /\ agreed[t][2].theirs = V
  BY <1>1 DEF Swap, Agreement
<1>5. agreed[t][2] = [mine |-> W, theirs |-> V]
  BY <1>3, <1>4
<1>6. \A a, i, k, U : U \in WindowType => Share(U, Passed(todo, a, i), k) = Offered(U, k)
  <2> SUFFICES ASSUME NEW a, NEW i, NEW k, NEW U \in WindowType PROVE Share(U, Passed(todo, a, i), k) = Offered(U, k)
    OBVIOUS
  <2>1. Passed(todo, a, i) = Window
    BY <1>0 DEF Passed
  <2> QED BY <2>1, ShareAll
<1>7. ASSUME NEW k \in Kinds
      PROVE  /\ TotalOf(Contents, sides[t][1].id, k) = TotalOf(base, sides[t][1].id, k) - Offered(V, k) + Offered(W, k)
             /\ TotalOf(Contents, sides[t][2].id, k) = TotalOf(base, sides[t][2].id, k) - Offered(W, k) + Offered(V, k)
  <2>1. Given(t, 1, k) = Offered(V, k) /\ Taken(t, 1, k) = Offered(V, k) /\ Given(t, 2, k) = Offered(W, k) /\ Taken(t, 2, k) = Offered(W, k)
    BY <1>3, <1>4, <1>6 DEF Given, Taken
  <2>2. Other(1) = 2 /\ Other(2) = 1 /\ 1 \in 1..2 /\ 2 \in 1..2
    BY DEF Other
  <2>3. /\ TotalOf(Contents, sides[t][1].id, k) = TotalOf(base, sides[t][1].id, k) + Given(t, 2, k) - Taken(t, 1, k)
        /\ TotalOf(Contents, sides[t][2].id, k) = TotalOf(base, sides[t][2].id, k) + Given(t, 1, k) - Taken(t, 2, k)
    BY <1>1, <2>2 DEF Swap, Exact
  <2>4. \A i \in 1..2 : sides[t][i].id \in Players
    BY <1>0, RunningIsOpen DEF SwapsInv, TradeInv, TypedInv, SidesArePlayers
  <2>5. TotalOf(base, sides[t][1].id, k) \in Nat /\ TotalOf(base, sides[t][2].id, k) \in Nat
    BY <1>0, <2>2, <2>4, TotalType DEF TypeOK, AllContents
  <2>6. Offered(V, k) \in Nat /\ Offered(W, k) \in Nat
    BY <1>3, <1>6, ShareType
  <2> QED BY <2>1, <2>3, <2>5, <2>6
<1> QED BY <1>2, <1>5, <1>7 DEF SwapsAsAgreed

(* Only the exchange commits a trade.                                       *)
LEMMA OnlyCommits ==
  ASSUME FitInv, TypedInv, TradeNext, NEW t \in Trades, txState[t] = "Open", txState'[t] = "Committed"
  PROVE  CommitTrade(t)
<1>0. TypeOK /\ TradeTyped /\ Trades \subseteq Txs /\ t \in Txs
  BY TradeConstants DEF FitInv, IInv, TypedInv
<1>1. ASSUME NEW u \in Trades, Enter(u) PROVE FALSE
  BY <1>0, <1>1, EnterEffect
<1>2. ASSUME NEW u \in Txs, Work(u) \/ RunUndo(u) \/ UNCHANGED vars PROVE FALSE
  BY <1>0, <1>2, WorkControl, RunUndoControl DEF vars
<1>3. CASE Handshake
  BY <1>0, <1>1, <1>2, <1>3, HandshakeIsEngine
<1>4. CASE Staging
  <2>1. ASSUME NEW u \in Trades, SetSlotUnstages(u) \/ SetSlotStages(u) PROVE FALSE
    BY <1>0, <1>2, <2>1, StagingIsWork
  <2>2. ASSUME NEW u \in Trades, LeaveTrade(u) PROVE FALSE
    BY <2>2 DEF LeaveTrade, Leave
  <2>3. ASSUME NEW p, NEW u \in Trades, NEW n, NEW s, NEW q, SetSlot(p, u, n, s, q) PROVE FALSE
    BY <1>1, <2>3 DEF SetSlot
  <2> QED BY <1>4, <2>1, <2>2, <2>3 DEF Staging
<1>5. CASE Exchanging
  <2>1. ASSUME NEW u \in Trades, NEW p \in Players, NEW near \in BOOLEAN, Make(p, u, near) PROVE FALSE
    BY <1>1, <2>1 DEF Make
  <2>2. ASSUME NEW u \in Trades, ExchangeStep(u) PROVE FALSE
    BY <1>0, <1>2, <2>2, ExchangeIsWork
  <2>3. ASSUME NEW u \in Trades, RollBackTrade(u) PROVE FALSE
    <3>1. CASE StartRollback(u) \/ RunUndo(u) \/ UndoDone(u)
      BY <1>0, <1>2, <3>1 DEF StartRollback, UndoDone
    <3>2. CASE FinishRollback(u)
      <4>1. txState' = [txState EXCEPT ![u] = "RolledBack"]
        BY <3>2 DEF FinishRollback, Closed
      <4> QED BY <1>0, <4>1 DEF TypeOK
    <3> QED BY <2>3, <3>1, <3>2 DEF RollBackTrade
  <2>4. ASSUME NEW u \in Trades, CommitTrade(u) PROVE u = t
    <3>1. txState' = [txState EXCEPT ![u] = "Committed"]
      BY <2>4 DEF CommitTrade, Commit, Closed
    <3> QED BY <1>0, <3>1 DEF TypeOK
  <2> QED BY <1>5, <2>1, <2>2, <2>3, <2>4 DEF Exchanging
<1>6. ASSUME NEW u \in Txs, NEW p \in Restless, Purchase(u, p) PROVE FALSE
  BY <1>6, PurchaseLeaves
<1>7. ASSUME NEW p \in Restless, Elsewhere(p) PROVE FALSE
  BY <1>7, ElsewhereControl, TradeConstants
<1> QED BY <1>3, <1>4, <1>5, <1>6, <1>7 DEF TradeNext

LEMMA SwapsInvariant == TradeSpec => []SwapsInv
<1>1. TradeInit => SeenInv /\ SwapInv
  BY InitSeen, InitSwap
<1>2. TradeInv /\ SeenInv /\ SwapInv /\ [TradeNext]_allVars => (SeenInv /\ SwapInv)'
  BY SeenStep, SwapStep DEF TradeInv
<1>3. TradeInv /\ SeenInv /\ SwapInv <=> SwapsInv
  BY DEF SwapsInv
<1> QED BY <1>1, <1>2, <1>3, TradeInvariant, PTL DEF TradeSpec

(* A trade that commits moved exactly what both players had seen.           *)
THEOREM SwapsAreExact == TradeSpec => SwapIsExact
<1>1. ASSUME SwapsInv, SwapsInv', TradeNext, NEW t \in Trades, txState[t] = "Open", txState'[t] = "Committed"
      PROVE  SwapsAsAgreed(t)
  <2>1. FitInv /\ TypedInv /\ TypeOK'
    BY <1>1 DEF SwapsInv, TradeInv, FitInv, IInv
  <2>2. CommitTrade(t)
    BY <1>1, <2>1, OnlyCommits
  <2> QED BY <1>1, <2>1, <2>2, ExactCommit
<1>2. SwapsInv /\ SwapsInv' /\ [TradeNext]_allVars =>
        [\A t \in Trades : txState[t] = "Open" /\ txState'[t] = "Committed" => SwapsAsAgreed(t)]_allVars
  BY <1>1
<1> QED BY <1>2, SwapsInvariant, PTL DEF TradeSpec, SwapIsExact

-----------------------------------------------------------------------------
(* What the players have together                                           *)

Grand(c, k) == SumFunction([p \in Players |-> TotalOf(c, p, k)])
Covers(b) == {c \in AllContents : \A k \in Kinds : Grand(c, k) >= Grand(b, k)}

(* No moment of a trade has less of anything than it began with, and none   *)
(* of those its rollback would come back through.                           *)
Keeps(t, C) == Contents \in C /\ (t \notin Irreversible /\ phase # "close" => UnwindsIn(t, C))
LossInv == \A t \in Trades : cpu = t /\ ~undoFailed => Keeps(t, Covers(base))

LEMMA CoversItself == ASSUME NEW c \in AllContents PROVE c \in Covers(c)
<1>1. ASSUME NEW k \in Kinds PROVE Grand(c, k) \in Int
  <2> DEFINE f == [p \in Players |-> TotalOf(c, p, k)]
  <2>1. \A p \in Players : f[p] \in Int
    BY TotalType
  <2>2. Grand(c, k) = SumFunction(f) /\ DOMAIN f = Players
    BY DEF Grand
  <2> HIDE DEF f
  <2> QED BY <2>1, <2>2, SumFunctionIs, TradeFinite, SumType
<1> QED BY <1>1 DEF Covers

LEMMA TwoCover ==
  ASSUME NEW b \in AllContents, NEW c \in AllContents, NEW p \in Players, NEW q \in Players, p # q,
         \A r \in Players : r \notin {p, q} => c[r] = b[r],
         \A k \in Kinds : TotalOf(c, p, k) + TotalOf(c, q, k) >= TotalOf(b, p, k) + TotalOf(b, q, k)
  PROVE  c \in Covers(b)
<1> SUFFICES ASSUME NEW k \in Kinds PROVE Grand(c, k) >= Grand(b, k)
  BY DEF Covers
<1> DEFINE f == [r \in Players |-> TotalOf(b, r, k)]
           h == [r \in Players |-> TotalOf(c, r, k)]
<1>1. \A r \in Players : f[r] \in Nat /\ h[r] \in Nat
  BY TotalType
<1>2. \A r \in Players : r \notin {p, q} => h[r] = f[r]
  BY TotalSame
<1>3. h[p] + h[q] >= f[p] + f[q]
  OBVIOUS
<1>4. Grand(b, k) = SumFunction(f) /\ Grand(c, k) = SumFunction(h) /\ DOMAIN f = Players /\ DOMAIN h = Players
  BY DEF Grand
<1> HIDE DEF f, h
<1>5. Sum(h, Players) = Sum(f, Players) + (h[p] - f[p]) + (h[q] - f[q])
  <2>1. (\A r \in Players : f[r] \in Int) /\ h[p] \in Int /\ h[q] \in Int
    BY <1>1
  <2> QED BY <1>2, <2>1, TradeFinite, SumChangeTwo
<1>6. Sum(f, Players) \in Int
  BY <1>1, TradeFinite, SumType
<1> QED BY <1>1, <1>3, <1>4, <1>5, <1>6, SumFunctionIs

(* In an exchange what has been taken has been given before.                *)
LEMMA SwapCovers ==
  ASSUME TypeOK', AgreedTyped', NEW t \in Trades, sides'[t][1].id \in Players, sides'[t][2].id \in Players,
         sides'[t][1].id # sides'[t][2].id, Swap(t)'
  PROVE  Contents' \in Covers(base')
<1> PICK c, b, p, q, T : c = Contents' /\ b = base' /\ p = sides'[t][1].id /\ q = sides'[t][2].id /\ T = todo'
  OBVIOUS
<1> PICK V, W : V = agreed'[t][1].mine /\ W = agreed'[t][2].mine
  OBVIOUS
<1>0. c \in AllContents /\ b \in AllContents /\ V \in WindowType /\ W \in WindowType /\ p \in Players /\ q \in Players /\ p # q
  BY NextContentsType, TradeConstants DEF TypeOK, AllContents, AgreedTyped
<1>1. Other(1) = 2 /\ Other(2) = 1 /\ 1 \in 1..2 /\ 2 \in 1..2
  BY DEF Other
<1>2. Exact(t)' /\ \A x \in T : StepFits(t, x)'
  BY DEF Swap
<1>3. \A r \in Players : r \notin {p, q} => c[r] = b[r]
  BY <1>2 DEF Exact, Parties
<1>4. ASSUME NEW i \in 1..2, NEW n \in Window, n \in Passed(T, "take", i) PROVE n \in Passed(T, "give", i)
  <2> SUFFICES ASSUME <<"give", i, n>> \in T PROVE FALSE
    BY <1>4 DEF Passed
  <2> PICK x \in T : x = <<"give", i, n>>
    OBVIOUS
  <2>1. StepFits(t, x)' /\ x[1] = "give" /\ x[2] = i /\ x[3] = n
    BY <1>2
  <2>2. <<"take", i, n>> \in T
    BY <2>1 DEF StepFits
  <2> QED BY <1>4, <2>2 DEF Passed
<1>5. ASSUME NEW k \in Kinds PROVE TotalOf(c, p, k) + TotalOf(c, q, k) >= TotalOf(b, p, k) + TotalOf(b, q, k)
  <2> PICK gv, tv, gw, tw : /\ gv = Share(V, Passed(T, "give", 1), k) /\ tv = Share(V, Passed(T, "take", 1), k)
                            /\ gw = Share(W, Passed(T, "give", 2), k) /\ tw = Share(W, Passed(T, "take", 2), k)
    OBVIOUS
  <2>1. gv \in Nat /\ tv \in Nat /\ gw \in Nat /\ tw \in Nat
    BY <1>0, ShareType
  <2>2. tv <= gv /\ tw <= gw
    BY <1>0, <1>1, <1>4, ShareGrows
  <2>3. TotalOf(c, p, k) = TotalOf(b, p, k) + gw - tv
    BY <1>1, <1>2 DEF Exact, Given, Taken
  <2>4. TotalOf(c, q, k) = TotalOf(b, q, k) + gv - tw
    BY <1>1, <1>2 DEF Exact, Given, Taken
  <2>5. TotalOf(b, p, k) \in Nat /\ TotalOf(b, q, k) \in Nat
    BY <1>0, TotalType
  <2> QED BY <2>1, <2>2, <2>3, <2>4, <2>5
<1>6. c \in Covers(b)
  BY <1>0, <1>3, <1>5, TwoCover
<1> QED BY <1>6

LEMMA EnterKeeps ==
  ASSUME TypeOK', NEW t \in Txs, NEW C, Contents' \in C, base' = Contents',
         t \notin Irreversible => undos'[t] = <<>>
  PROVE  Keeps(t, C)'
<1>1. ASSUME undos'[t] = <<>> PROVE UnwindsIn(t, C)'
  <2>1. Len(undos'[t]) = 0 /\ 1..0 = {}
    BY <1>1
  <2> DEFINE h == [i \in 0..0 |-> Contents']
  <2>2. h \in [0..0 -> C] /\ h[0] = Contents'
    OBVIOUS
  <2> HIDE DEF h
  <2> QED BY <2>1, <2>2 DEF UnwindsIn
<1> QED BY <1>1 DEF Keeps

LEMMA WorkKeeps ==
  ASSUME FitInv, TypeOK', NEW t \in Txs, NEW C, Keeps(t, C), Work(t) \/ UNCHANGED vars, Contents' \in C
  PROVE  Keeps(t, C)'
<1>1. TypeOK
  BY DEF FitInv, IInv
<1>2. phase' = phase
  BY <1>1, WorkControl DEF vars
<1>3. Logged(t) \/ LogStays(t)
  BY WorkLog, StillLog DEF vars
<1>4. UnwindsIn(t, C) => UnwindsIn(t, C)'
  BY <1>1, <1>3, LongerIn, SameLog
<1> QED BY <1>2, <1>4 DEF Keeps

LEMMA UndoKeeps ==
  ASSUME RollbackInv, TypeOK', NEW t \in Txs, NEW C \in SUBSET AllContents, Keeps(t, C), RunUndo(t), ~undoFailed'
  PROVE  Keeps(t, C)'
<1>1. TypeOK /\ FitInv /\ Flow /\ UndoInv
  BY DEF RollbackInv, FitInv, IInv
<1>2. cpu = t /\ phase = "undo" /\ undoFailed' \in {undoFailed, TRUE}
  BY <1>1, RunUndoControl
<1>3. ~undoFailed
  BY <1>2, Zenon
<1>4. t \notin Irreversible
  BY <1>1, <1>2 DEF Flow
<1>5. LogInv(t)
  BY <1>1, <1>2, <1>3, <1>4 DEF UndoInv
<1>6. TakesBack(t)
  BY <1>1, <1>5, RunUndoLog
<1>7. UnwindsIn(t, C)
  BY <1>2, <1>4 DEF Keeps
<1>8. UnwindsIn(t, C)' /\ Contents' \in C
  BY <1>1, <1>6, <1>7, ShorterIn
<1> QED BY <1>8 DEF Keeps

(* The steps after which the handler of a trade runs.                       *)
LEMMA TradeRuns ==
  ASSUME FitInv, TypedInv, [TradeNext]_allVars, NEW t \in Trades, cpu' = t
  PROVE  \/ UNCHANGED vars
         \/ Enter(t)
         \/ SetSlotUnstages(t) \/ SetSlotStages(t)
         \/ ExchangeStep(t)
         \/ StartRollback(t) \/ RunUndo(t) \/ UndoDone(t)
<1>0. t # Idle /\ TypeOK /\ Trades \subseteq Txs
  BY TradeConstants DEF FitInv, IInv
<1>1. CASE UNCHANGED allVars
  BY <1>1 DEF allVars
<1>2. ASSUME NEW u \in Txs, Enter(u) PROVE u = t
  BY <1>2 DEF Enter
<1>3. ASSUME NEW u \in Txs, Leave(u) \/ Commit(u) \/ FinishRollback(u) PROVE FALSE
  BY <1>0, <1>3 DEF Leave, Commit, FinishRollback, Closed
<1>4. CASE Handshake
  BY <1>0, <1>2, <1>4, HandshakeIsEngine
<1>5. ASSUME NEW u \in Trades, NEW p, NEW n, NEW s, NEW q, SetSlot(p, u, n, s, q) PROVE Enter(t)
  BY <1>0, <1>2, <1>5 DEF SetSlot
<1>6. ASSUME NEW u \in Trades, SetSlotUnstages(u) \/ SetSlotStages(u) PROVE UNCHANGED vars \/ u = t
  <2>1. Work(u) \/ UNCHANGED vars
    BY <1>6, StagingIsWork
  <2> QED BY <1>0, <1>6, <2>1, WorkControl DEF SetSlotUnstages, SetSlotStages
<1>7. ASSUME NEW u \in Trades, LeaveTrade(u) PROVE FALSE
  BY <1>0, <1>3, <1>7 DEF LeaveTrade
<1>8. ASSUME NEW u \in Trades, NEW p, NEW near, Make(p, u, near) PROVE Enter(t)
  BY <1>0, <1>2, <1>8 DEF Make
<1>9. ASSUME NEW u \in Trades, ExchangeStep(u) PROVE UNCHANGED vars \/ u = t
  <2>1. Work(u) \/ UNCHANGED vars
    BY <1>9, ExchangeIsWork
  <2> QED BY <1>0, <1>9, <2>1, WorkControl DEF ExchangeStep
<1>10. ASSUME NEW u \in Trades, CommitTrade(u) PROVE FALSE
  BY <1>0, <1>3, <1>10 DEF CommitTrade
<1>11. ASSUME NEW u \in Trades, RollBackTrade(u)
       PROVE  StartRollback(t) \/ RunUndo(t) \/ UndoDone(t)
  <2>1. StartRollback(u) \/ RunUndo(u) \/ UndoDone(u)
    BY <1>0, <1>3, <1>11 DEF RollBackTrade
  <2>2. u = t
    BY <1>0, <2>1, RunUndoControl DEF StartRollback, UndoDone
  <2> QED BY <2>1, <2>2
<1>12. ASSUME NEW u \in Txs, NEW p \in Restless, Purchase(u, p) PROVE FALSE
  BY <1>12, PurchaseLeaves
<1>13. ASSUME NEW p \in Restless, Elsewhere(p) PROVE FALSE
  BY <1>0, <1>13, ElsewhereControl, TradeConstants
<1>14. CASE Staging
  BY <1>5, <1>6, <1>7, <1>14 DEF Staging
<1>15. CASE Exchanging
  BY <1>8, <1>9, <1>10, <1>11, <1>15 DEF Exchanging
<1> QED BY <1>1, <1>4, <1>12, <1>13, <1>14, <1>15 DEF TradeNext

LEMMA StagingMovesNothing ==
  ASSUME FitInv, TypedInv, TypeOK', NEW t \in Trades, SetSlotUnstages(t) \/ SetSlotStages(t)
  PROVE  Contents' = Contents
<1>1. t \in Txs /\ cpu = t /\ job.side \in 1..2 /\ job.from \in Slots
  BY TradeConstants DEF TypedInv, TradeTyped, Job, SetSlotUnstages, SetSlotStages
<1>2. sides[t][job.side].id \in Players
  BY <1>1, RunningIsOpen DEF TypedInv, SidesArePlayers
<1>3. UNCHANGED vars => Contents' = Contents
  BY DEF Contents, RowOf, vars
<1>4. ASSUME NEW i, NEW n, ReleaseSlot(t, i, n) PROVE Contents' = Contents
  <2>1. UNCHANGED vars \/ \E c \in claims[t] : Release(t, c)
    BY <1>4 DEF ReleaseSlot, UnchangedEngine
  <2> QED BY <1>1, <1>3, <2>1, StampsLeaveContents
<1>5. ASSUME Claim(t, sides[t][job.side].id, job.from) PROVE Contents' = Contents
  BY <1>1, <1>2, <1>5, StampsLeaveContents
<1> QED BY <1>3, <1>4, <1>5 DEF SetSlotUnstages, SetSlotStages, UnchangedEngine

(* A step of the exchange that does not go on with it has failed.           *)
LEMMA FailureMovesNothing ==
  ASSUME TypedInv, NEW t \in Trades, ExchangeStep(t), job'.op # "exchange"
  PROVE  Contents' = Contents
<1>1. ~\E x \in todo : Done(x)
  BY DEF Done, ExchangeStep
<1>2. inv' = inv
  <2>1. PICK x \in todo : \/ DeliverSlot(t, x)
                          \/ ConsumeSlot(t, x)
                          \/ Done(x)
    BY DEF ExchangeStep
  <2>2. ASSUME NEW p, NEW s, NEW k, NEW q,
               \/ Give(t, p, k, q, FALSE) \/ Grow(t, p, s, q, FALSE) \/ Take(t, p, s, q, FALSE) \/ UnchangedEngine
        PROVE  inv' = inv
    BY <2>2 DEF Give, Grow, Take, InsertStack, UpdateStack, UnchangedEngine, vars
  <2>3. CASE DeliverSlot(t, x)
    BY <1>1, <2>2, <2>3 DEF DeliverSlot
  <2>4. CASE ConsumeSlot(t, x)
    BY <1>1, <2>2, <2>4 DEF ConsumeSlot
  <2> QED BY <1>1, <2>1, <2>3, <2>4
<1> QED BY <1>2 DEF Contents, RowOf

LEMMA LossStep ==
  ASSUME SwapsInv, SwapsInv', RollbackInv, LossInv, [TradeNext]_allVars
  PROVE  LossInv'
<1>0. FitInv /\ TypedInv /\ TypedInv' /\ TypeOK /\ TypeOK' /\ Flow
  BY DEF SwapsInv, TradeInv, RollbackInv, FitInv, IInv
<1> SUFFICES ASSUME NEW t \in Trades, cpu' = t, ~undoFailed' PROVE Keeps(t, Covers(base))'
  BY DEF LossInv
<1> PICK C : C = Covers(base')
  OBVIOUS
<1>1. Covers(base)' = C /\ C \in SUBSET AllContents
  BY DEF Covers
<1> SUFFICES Keeps(t, C)'
  BY <1>1 DEF Keeps, UnwindsIn
<1>2. t \in Txs /\ t # Idle
  BY TradeConstants
<1>3. Contents' \in AllContents
  BY <1>0, NextContentsType DEF AllContents
<1>4. ASSUME base' = base, cpu = t, ~undoFailed PROVE Keeps(t, C)
  BY <1>4 DEF LossInv
<1>5. ASSUME Work(t) \/ UNCHANGED vars
      PROVE  base' = base /\ cpu = t /\ ~undoFailed
  BY <1>0, <1>2, <1>5, WorkControl DEF vars
<1>6. ASSUME Work(t) \/ UNCHANGED vars, Contents' = Contents PROVE Keeps(t, C)'
  <2>1. Keeps(t, C)
    BY <1>4, <1>5, <1>6
  <2>2. Contents' \in C
    BY <1>6, <2>1 DEF Keeps
  <2> QED BY <1>0, <1>2, <1>6, <2>1, <2>2, WorkKeeps
<1>7. CASE UNCHANGED vars
  BY <1>6, <1>7 DEF vars, Contents, RowOf
<1>8. CASE Enter(t)
  <2>1. base' = Contents' /\ undos' = undos /\ cpu = Idle
    BY <1>8 DEF Enter, Contents, RowOf
  <2>2. Contents' \in C
    BY <1>3, <2>1, CoversItself
  <2>3. t \notin Irreversible => undos'[t] = <<>>
    BY <1>0, <1>2, <2>1 DEF Flow
  <2> QED BY <1>0, <1>2, <2>1, <2>2, <2>3, EnterKeeps
<1>9. CASE SetSlotUnstages(t) \/ SetSlotStages(t)
  BY <1>0, <1>6, <1>9, StagingIsWork, StagingMovesNothing
<1>10. CASE ExchangeStep(t)
  <2>1. Work(t) \/ UNCHANGED vars
    BY <1>0, <1>10, ExchangeIsWork
  <2>2. CASE job'.op = "exchange"
    <3>1. Swap(t)'
      BY <2>2 DEF SwapsInv, SwapInv, Swapping
    <3>2. sides'[t][1].id \in Players /\ sides'[t][2].id \in Players /\ sides'[t][1].id # sides'[t][2].id
      <4>1. sides' = sides /\ cpu = t /\ ~Closing(t)
        BY <1>10 DEF ExchangeStep, Closing
      <4>2. txState[t] = "Open"
        BY <1>0, <4>1, RunningIsOpen
      <4>3. sides[t][1].id # sides[t][2].id
        BY <4>1, <4>2, TwoSides DEF SwapsInv, TradeInv
      <4> QED BY <1>0, <4>1, <4>2, <4>3 DEF TypedInv, SidesArePlayers
    <3>3. AgreedTyped'
      BY DEF SwapsInv, SeenInv, AgreedInv
    <3>4. Contents' \in C
      BY <1>0, <3>1, <3>2, <3>3, SwapCovers
    <3>5. Keeps(t, C)
      BY <1>4, <1>5, <2>1
    <3> QED BY <1>0, <1>2, <2>1, <3>4, <3>5, WorkKeeps
  <2>3. CASE job'.op # "exchange"
    BY <1>0, <1>6, <1>10, <2>1, <2>3, FailureMovesNothing
  <2> QED BY <2>2, <2>3
<1>11. CASE StartRollback(t) \/ UndoDone(t)
  <2>1. UNCHANGED <<inv, base, cpu, undoFailed>> /\ Contents' = Contents
    BY <1>11 DEF StartRollback, UndoDone, Contents, RowOf
  <2>2. Keeps(t, C)
    BY <1>4, <2>1
  <2>3. CASE phase' = "close"
    BY <2>1, <2>2, <2>3 DEF Keeps
  <2>4. CASE phase' # "close" /\ t \notin Irreversible
    <3>1. phase = "work" /\ undos' = undos
      BY <1>11, <2>4 DEF StartRollback, UndoDone
    <3>2. UnwindsIn(t, C)
      BY <2>2, <2>4, <3>1 DEF Keeps
    <3>3. UnwindsIn(t, C)'
      BY <2>1, <3>1, <3>2 DEF UnwindsIn
    <3> QED BY <2>1, <2>2, <3>3 DEF Keeps
  <2> QED BY <2>1, <2>2, <2>3, <2>4 DEF Keeps
<1>12. CASE RunUndo(t)
  <2>1. base' = base /\ cpu = t /\ undoFailed' \in {undoFailed, TRUE}
    BY <1>0, <1>2, <1>12, RunUndoControl
  <2>2. ~undoFailed
    BY <2>1, Zenon
  <2>3. Keeps(t, C)
    BY <1>4, <2>1, <2>2
  <2> QED BY <1>0, <1>1, <1>2, <1>12, <2>3, UndoKeeps
<1> QED BY <1>0, <1>7, <1>8, <1>9, <1>10, <1>11, <1>12, TradeRuns

(* A crash in the middle of a trade loses nothing.                          *)
THEOREM NothingGetsLost == TradeSpec => []NothingIsLost
<1>1. TradeInit => LossInv
  BY TradeConstants DEF TradeInit, Init, LossInv
<1>2. SwapsInv /\ SwapsInv' /\ RollbackInv /\ LossInv /\ [TradeNext]_allVars => LossInv'
  BY LossStep
<1>3. LossInv /\ MemoryMatchesDatabase => NothingIsLost
  <2> SUFFICES ASSUME LossInv, db = Contents, cpu \in Trades, ~undoFailed, NEW k \in Kinds
               PROVE  Grand(db, k) >= Grand(base, k)
    BY DEF NothingIsLost, MemoryMatchesDatabase, Grand
  <2>1. Contents \in Covers(base)
    BY DEF LossInv, Keeps
  <2> QED BY <2>1 DEF Covers
<1>4. TradeSpec => []RollbackInv /\ []MemoryMatchesDatabase
  BY TradesRunOnTheEngine, LogAlwaysUnwinds, RestartLoadsWhatPlayersSaw, PTL
<1> QED BY <1>1, <1>2, <1>3, <1>4, SwapsInvariant, PTL DEF TradeSpec
=============================================================================
