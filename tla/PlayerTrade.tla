------------------------------ MODULE PlayerTrade ------------------------------
(***************************************************************************)
(* Trades between two players: the handshake of packets 0x032 and 0x033,   *)
(* the staging of 0x034, and the exchange of                               *)
(* items/transactions/player_trade.cpp, on top of the transaction engine.  *)
(*                                                                         *)
(* A request sets TradePending on both players.  The accepter creates and  *)
(* owns the transaction; the trade is found from either player through the *)
(* pair of TradePendings.  Each player stages stacks (each one claimed),   *)
(* accepts, and the second accept exchanges the goods.  Leaving the zone,  *)
(* a cancel or a failed exchange closes the trade.                         *)
(*                                                                         *)
(* A handler that touches the inventories runs in steps (`job', `todo'),   *)
(* each of them a step of the engine, with cpu = its transaction.          *)
(***************************************************************************)
EXTENDS ItemTransaction, FiniteSets, Functions

CONSTANTS
  Trades,     \* the transactions of Txs that are player trades; the others are purchases
  TradeSlots, \* the item slots of a trade window; slot 0, the gil slot, comes on top
  Exclusive,  \* kinds that cannot be traded
  Targids,    \* entity indices of the zone
  Nobody, Away,
  Restless,   \* the players who also shop, equip, sell and move things meanwhile
  Entrances   \* bound: how often a player may come back to the zone

GilSlot  == 0
Window   == {GilSlot} \cup TradeSlots
NoEntity == [id |-> Nobody, act |-> Away]
Entity   == [id : Players \cup {Nobody}, act : Targids \cup {Away}]
NoItem   == [owner |-> Nobody, slot |-> 0, uid |-> 0, kind |-> NoKind]
NoStage  == [item |-> NoItem, qty |-> 0]
EmptyWindow == [n \in Window |-> NoStage]
NotAgreed   == [mine |-> EmptyWindow, theirs |-> EmptyWindow]
NoPending == [entity |-> NoEntity, initiator |-> FALSE]
NoJob    == [op |-> "none", side |-> 1, slot |-> 0, from |-> 0, qty |-> 0, leaver |-> Nobody]

ASSUME TradeAssumption ==
  /\ Trades \subseteq Txs
  /\ TradeSlots \subseteq Nat \ {0}
  /\ Nobody \notin Players
  /\ Restless \subseteq Players
  /\ Away \notin Targids
  /\ Injection(Players, Targids) # {}
  /\ Entrances \in Nat
  /\ IsFiniteSet(Players) /\ IsFiniteSet(TradeSlots)

VARIABLES
  place,     \* the targid of a player in the zone, or Away
  entered,   \* how often a player came back, for the bound
  pending,   \* TradePending
  sides,     \* sides[t][i].who
  stage,     \* sides[t][i].slots
  accepted,  \* sides[t][i].accepted
  agreed,    \* history: the window each side saw when it last accepted
  job,       \* the running trade handler
  todo       \* what its exchange has left to do

tradeVars == <<place, entered, pending, sides, stage, accepted, agreed, job, todo>>
allVars == <<vars, tradeVars>>

-----------------------------------------------------------------------------
(* Finding players and trades                                               *)

EntityOf(p) == [id |-> p, act |-> place[p]]

(* The entity at that index of the zone, if it is still the same character. *)
Resolved(e) == IF e.id # Nobody /\ place[e.id] = e.act /\ e.act # Away THEN e.id ELSE Nobody

Partner(p) ==
  LET q == Resolved(pending[p].entity)
  IN IF q # Nobody /\ pending[q].entity.id = p THEN q ELSE Nobody

Local(p) == {t \in Trades : txState[t] = "Open" /\ sides[t][1].id = p}

(* Mutant: a trade is known only to its owner.                              *)
ActiveTradeOfOwner(p) == Local(p)

(* activePlayerTradeTransaction: its own, or its partner's.                 *)
ActiveTrade(p) ==
  IF Local(p) # {} THEN Local(p)
  ELSE IF Partner(p) # Nobody THEN Local(Partner(p)) ELSE {}

SideOf(t, p) == IF sides[t][1].id = p THEN 1 ELSE 2
Other(i)     == 3 - i
Who(t, i)    == Resolved(sides[t][i])

Item(t, i, n) == stage[t][i][n].item
Staged(t, i)  == {n \in Window : Item(t, i, n).uid # 0}

-----------------------------------------------------------------------------
(* The handshake: 0x032 and 0x033                                           *)

UnchangedEngine == UNCHANGED vars

(* An unanswered invite blocks others for sixty seconds: `aged' says that   *)
(* they have passed.                                                        *)
Request(p, q, aged) ==
  /\ cpu = Idle
  /\ p # q /\ place[p] # Away /\ place[q] # Away
  /\ ActiveTrade(p) = {}
  /\ pending[q].entity.id # p
  /\ ActiveTrade(q) = {}
  /\ pending[q].entity.act # Away => aged
  /\ LET old == Partner(p)
     IN pending' = IF old # Nobody
                   THEN [pending EXCEPT ![old] = NoPending, ![p] = NoPending]
                   ELSE [pending EXCEPT
                          ![p] = [entity |-> EntityOf(q), initiator |-> TRUE],
                          ![q] = [entity |-> EntityOf(p), initiator |-> FALSE]]
  /\ UNCHANGED <<place, entered, sides, stage, accepted, agreed, job, todo>>
  /\ UnchangedEngine

(* Start: the accepter creates the trade.  `near' is the distance check, as *)
(* the players may have walked anywhere since the last packet.              *)
StartTrade(p, t, near) ==
  LET q == Partner(p)
  IN /\ q # Nobody
     /\ ActiveTrade(p) = {}
     /\ ~pending[p].initiator
     /\ \/ /\ near /\ ActiveTrade(q) = {}
           /\ t \in Trades /\ txState[t] = "New"
           /\ Enter(t)
           /\ sides' = [sides EXCEPT ![t] = <<EntityOf(p), EntityOf(q)>>]
           /\ UNCHANGED pending
           /\ job' = [NoJob EXCEPT !.op = "leave"]
        \/ /\ ~near \/ ActiveTrade(q) # {}
           /\ cpu = Idle
           /\ pending' = [pending EXCEPT ![p] = NoPending, ![q] = NoPending]
           /\ UNCHANGED <<sides, job>>
           /\ UnchangedEngine
     /\ UNCHANGED <<place, entered, stage, accepted, agreed, todo>>

-----------------------------------------------------------------------------
(* Staging: 0x034                                                           *)

(* Mutant: the slot forgets the quantity but not the stack.                 *)
UnstagedQuantity(t, i, n) == stage' = [stage EXCEPT ![t][i][n].qty = 0]
Unstaged(t, i, n) == stage' = [stage EXCEPT ![t][i][n] = NoStage]

(* Mutant: only a complete restaging takes the accepts back.                *)
SetSlotKeepsAccepts(p, t, n, s, q) ==
  /\ t \in ActiveTrade(p) /\ Partner(p) # Nobody
  /\ (n = GilSlot) <=> (s = 0)
  /\ Enter(t)
  /\ accepted' = [accepted EXCEPT ![t][SideOf(t, p)] = FALSE]
  /\ job' = [op |-> "unstage", side |-> SideOf(t, p), slot |-> n, from |-> s, qty |-> q, leaver |-> Nobody]
  /\ UNCHANGED <<place, entered, pending, sides, stage, agreed, todo>>

(* setSlot: any change of a window takes both accepts back.                 *)
SetSlot(p, t, n, s, q) ==
  /\ t \in ActiveTrade(p) /\ Partner(p) # Nobody
  /\ (n = GilSlot) <=> (s = 0)
  /\ Enter(t)
  /\ accepted' = [accepted EXCEPT ![t] = <<FALSE, FALSE>>]
  /\ job' = [op |-> "unstage", side |-> SideOf(t, p), slot |-> n, from |-> s, qty |-> q, leaver |-> Nobody]
  /\ agreed' = [agreed EXCEPT ![t] = <<NotAgreed, NotAgreed>>]
  /\ UNCHANGED <<place, entered, pending, sides, stage, todo>>

(* Mutant: the claim goes and the stage stays.                              *)
ReleaseSlotOnlyClaim(t, i, n) ==
  /\ IF Item(t, i, n) \in claims[t] THEN Release(t, Item(t, i, n)) ELSE UnchangedEngine
  /\ UNCHANGED stage

(* releaseSlot: gil was never claimed, so there may be nothing to release.  *)
ReleaseSlot(t, i, n) ==
  /\ IF Item(t, i, n) \in claims[t] THEN Release(t, Item(t, i, n)) ELSE UnchangedEngine
  /\ Unstaged(t, i, n)

SetSlotUnstages(t) ==
  /\ cpu = t /\ job.op = "unstage"
  /\ ReleaseSlot(t, job.side, job.slot)
  /\ job' = [job EXCEPT !.op = IF job.qty = 0 THEN "leave" ELSE "stage"]
  /\ UNCHANGED <<place, entered, pending, sides, accepted, agreed, todo>>

Twice(t) == {n \in Staged(t, job.side) \ {job.slot} : Item(t, job.side, n).slot = job.from}

Stageable(t, s, q) ==
  LET p == sides[t][job.side].id
      k == inv[p][s].kind
  IN /\ Occupied(p, s)
     /\ k \notin Exclusive
     /\ q <= inv[p][s].qty
     /\ ~(k \in Rare /\ HasItem(sides[t][Other(job.side)].id, k))
     /\ k = Gil \/ inv[p][s].state = "Free"

(* The same stack twice drops the earlier stage; a refusal stages nothing.  *)
SetSlotStages(t) ==
  LET i == job.side
      p == sides[t][i].id
  IN /\ cpu = t /\ job.op = "stage"
     /\ \/ \E n \in Twice(t) : ReleaseSlot(t, i, n)
        \/ /\ Twice(t) = {} /\ ~Stageable(t, job.from, job.qty)
           /\ UnchangedEngine /\ UNCHANGED stage
        \/ /\ Twice(t) = {} /\ Stageable(t, job.from, job.qty)
           /\ IF job.from = 0 THEN UnchangedEngine ELSE Claim(t, p, job.from)
           /\ stage' = [stage EXCEPT ![t][i][job.slot] =
                          [item |-> IdOf(p, job.from), qty |-> job.qty]]
     /\ job' = [job EXCEPT !.op = "leave"]
     /\ UNCHANGED <<place, entered, pending, sides, accepted, agreed, todo>>

(* A handler that leaves the trade open.                                    *)
LeaveTrade(t) ==
  /\ job.op = "leave"
  /\ Leave(t)
  /\ job' = NoJob
  /\ UNCHANGED <<place, entered, pending, sides, stage, accepted, agreed, todo>>

-----------------------------------------------------------------------------
(* Closing                                                                  *)

Cleaned(t) ==
  [p \in Players |-> IF p \in {Who(t, 1), Who(t, 2)} THEN NoPending ELSE pending[p]]

(* The trade is found, and will be rolled back and removed; `leaver' is the *)
(* player whose departure closes it.                                        *)
Abort(t, leaver) ==
  /\ Enter(t)
  /\ pending' = Cleaned(t)
  /\ job' = [NoJob EXCEPT !.op = "close", !.leaver = leaver]
  /\ UNCHANGED <<place, entered, sides, stage, accepted, agreed, todo>>

CancelTrade(p) ==
  /\ Partner(p) # Nobody
  /\ \/ \E t \in ActiveTrade(p) : Abort(t, Nobody)
     \/ /\ cpu = Idle /\ ActiveTrade(p) = {}
        /\ pending' = [pending EXCEPT ![p] = NoPending, ![Partner(p)] = NoPending]
        /\ UNCHANGED <<place, entered, sides, stage, accepted, agreed, job, todo>>
        /\ UnchangedEngine

(* removeCharFromZone: zoning, logging out, or a session that timed out.    *)
LeaveZone(p) ==
  /\ place[p] # Away
  /\ \/ \E t \in ActiveTrade(p) : Abort(t, p)
     \/ /\ cpu = Idle /\ ActiveTrade(p) = {}
        /\ pending' = [pending EXCEPT ![p] = NoPending]
        /\ place' = [place EXCEPT ![p] = Away]
        /\ UNCHANGED <<entered, sides, stage, accepted, agreed, job, todo>>
        /\ UnchangedEngine

EnterZone(p, a) ==
  /\ cpu = Idle
  /\ place[p] = Away
  /\ entered[p] < Entrances
  /\ \A q \in Players : place[q] # a
  /\ place' = [place EXCEPT ![p] = a]
  /\ entered' = [entered EXCEPT ![p] = @ + 1]
  /\ UNCHANGED <<pending, sides, stage, accepted, agreed, job, todo>>
  /\ UnchangedEngine

(* closeAndRemove once nothing is left to undo: claims and object are gone. *)
Removed(t) ==
  /\ sides' = [sides EXCEPT ![t] = <<NoEntity, NoEntity>>]
  /\ stage' = [stage EXCEPT ![t] = <<EmptyWindow, EmptyWindow>>]
  /\ accepted' = [accepted EXCEPT ![t] = <<FALSE, FALSE>>]
  /\ agreed' = [agreed EXCEPT ![t] = <<NotAgreed, NotAgreed>>]
  /\ pending' = Cleaned(t)
  /\ job' = NoJob
  /\ todo' = {}

RollBackTrade(t) ==
  /\ job.op = "close"
  /\ \/ /\ StartRollback(t) \/ RunUndo(t) \/ UndoDone(t)
        /\ UNCHANGED tradeVars
     \/ /\ FinishRollback(t)
        /\ Removed(t)
        /\ place' = [p \in Players |-> IF p = job.leaver THEN Away ELSE place[p]]
        /\ UNCHANGED entered

-----------------------------------------------------------------------------
(* The exchange: Make                                                       *)

CanReceive(t, i) ==
  LET p == sides[t][Other(i)].id
  IN \/ Staged(t, i) = {}
     \/ /\ Cardinality(FreeSlots(p)) >= Cardinality(Staged(t, i))
        /\ GilSlot \in Staged(t, i) =>
             /\ Occupied(p, 0)
             /\ inv[p][0].qty + stage[t][i][GilSlot].qty <= StackSize[Gil]
        /\ \A n \in Staged(t, i) : Resolves(Item(t, i, n)) =>
             ~(Item(t, i, n).kind \in Rare /\ HasItem(p, Item(t, i, n).kind))

(* What is done for one side: each of its stacks is given to the other, and *)
(* later taken from it and released.                                        *)
Deliveries(t, i)   == {"give"} \X {i} \X Staged(t, i)
Consumptions(t, i) == {"take", "release"} \X {i} \X Staged(t, i)

Exchange(t) == UNION {Deliveries(t, i) \cup Consumptions(t, i) : i \in 1..2}

InOrder(x, y) ==
  \/ x[2] < y[2]
  \/ x[2] = y[2] /\ x[3] < y[3]
  \/ x[2] = y[2] /\ x[3] = y[3] /\ x[1] = "take"

(* Mutant: take from both sides before delivering.                          *)
ConsumesFirst(x, y) ==
  \/ x[1] # "give" /\ y[1] = "give"
  \/ (x[1] = "give" <=> y[1] = "give") /\ InOrder(x, y)

(* Deliver to both sides before consuming either; first one side, then the  *)
(* other, in the order of the slots of its window.                          *)
Before(x, y) ==
  \/ x[1] = "give" /\ y[1] # "give"
  \/ (x[1] = "give" <=> y[1] = "give") /\ InOrder(x, y)

Make(p, t, near) ==
  LET i == SideOf(t, p)
      both == accepted[t][Other(i)]
      canExchange == near /\ Who(t, 1) # Nobody /\ Who(t, 2) # Nobody
                          /\ CanReceive(t, 1) /\ CanReceive(t, 2)
  IN /\ Partner(p) # Nobody
     /\ t \in ActiveTrade(p)
     /\ Enter(t)
     /\ accepted' = [accepted EXCEPT ![t][i] = TRUE]
     /\ agreed' = [agreed EXCEPT ![t][i] = [mine |-> stage[t][i], theirs |-> stage[t][Other(i)]]]
     /\ job' = [NoJob EXCEPT !.op = CASE ~both -> "leave"
                                      [] both /\ canExchange -> "exchange"
                                      [] OTHER -> "close"]
     /\ todo' = IF both /\ canExchange THEN Exchange(t) ELSE {}
     /\ UNCHANGED <<place, entered, pending, sides, stage>>

(* One step of the exchange; a step that fails turns it into a rollback.    *)
Done(x) == todo' = todo \ {x} /\ UNCHANGED job

(* Mutant: a step that fails is tried again.                                *)
FailedAgain == UNCHANGED <<todo, job>>
Failed  == todo' = {} /\ job' = [job EXCEPT !.op = "close"]

DeliverSlot(t, x) ==
  LET i == x[2]
      n == x[3]
      c == Item(t, i, n)
      p == sides[t][Other(i)].id
      q == stage[t][i][n].qty
  IN \/ ~Resolves(c) /\ UnchangedEngine /\ Done(x)
     \/ /\ Resolves(c)
        /\ \/ c.kind # Gil /\ Give(t, p, c.kind, q, TRUE) /\ Done(x)
           \/ c.kind # Gil /\ Give(t, p, c.kind, q, FALSE) /\ Failed
           \/ c.kind # Gil /\ ~CanAdd(p, c.kind) /\ UnchangedEngine /\ Failed
           \/ c.kind = Gil /\ Grow(t, p, 0, q, TRUE) /\ Done(x)
           \/ c.kind = Gil /\ Grow(t, p, 0, q, FALSE) /\ Failed

ConsumeSlot(t, x) ==
  LET c == Item(t, x[2], x[3])
      q == stage[t][x[2]][x[3]].qty
      can == Resolves(c) /\ CanUpdate(t, c.owner, c.slot, -q)
  IN \/ can /\ Take(t, c.owner, c.slot, q, TRUE) /\ Done(x)
     \/ can /\ Take(t, c.owner, c.slot, q, FALSE) /\ Failed
     \/ ~can /\ UnchangedEngine /\ Failed

ExchangeStep(t) ==
  /\ cpu = t /\ job.op = "exchange"
  /\ \E x \in todo :
       /\ \A y \in todo \ {x} : Before(x, y)
       /\ \/ x[1] = "give" /\ DeliverSlot(t, x) /\ UNCHANGED stage
          \/ x[1] = "take" /\ ConsumeSlot(t, x) /\ UNCHANGED stage
          \/ x[1] = "release" /\ ReleaseSlot(t, x[2], x[3]) /\ Done(x)
  /\ UNCHANGED <<place, entered, pending, sides, accepted, agreed>>

CommitTrade(t) ==
  /\ job.op = "exchange" /\ todo = {}
  /\ Commit(t)
  /\ Removed(t)
  /\ UNCHANGED <<place, entered>>

-----------------------------------------------------------------------------
(* The rest of the server: a purchase pays from the gil a trade may have    *)
(* staged, which is not claimed; the other handlers mark and move stacks.   *)
Purchases == Txs \ Trades

Purchase(t, p) ==
  /\ t \in Purchases
  /\ \/ Enter(t) /\ txState[t] = "New"
     \/ Take(t, p, 0, 1, TRUE)
     \/ undos[t] # <<>> /\ Commit(t)
  /\ UNCHANGED tradeVars

TradeInit ==
  /\ Init
  /\ place = CHOOSE f \in Injection(Players, Targids) : TRUE
  /\ entered = [p \in Players |-> 0]
  /\ pending = [p \in Players |-> NoPending]
  /\ sides = [t \in Txs |-> <<NoEntity, NoEntity>>]
  /\ stage = [t \in Txs |-> <<EmptyWindow, EmptyWindow>>]
  /\ accepted = [t \in Txs |-> <<FALSE, FALSE>>]
  /\ agreed = [t \in Txs |-> <<NotAgreed, NotAgreed>>]
  /\ job = NoJob
  /\ todo = {}

Handshake ==
  \/ \E p, q \in Players, aged \in BOOLEAN : Request(p, q, aged)
  \/ \E p \in Players, t \in Trades, near \in BOOLEAN : StartTrade(p, t, near)
  \/ \E p \in Players : CancelTrade(p)
  \/ \E p \in Players : LeaveZone(p)
  \/ \E p \in Players, a \in Targids : EnterZone(p, a)

Staging ==
  \E t \in Trades :
    \/ \E p \in Players, n \in Window, s \in Slots : \E q \in 0..inv[p][s].qty : SetSlot(p, t, n, s, q)
    \/ SetSlotUnstages(t) \/ SetSlotStages(t) \/ LeaveTrade(t)

Exchanging ==
  \E t \in Trades :
    \/ \E p \in Players, near \in BOOLEAN : Make(p, t, near)
    \/ ExchangeStep(t) \/ CommitTrade(t) \/ RollBackTrade(t)

TradeNext ==
  \/ Handshake \/ Staging \/ Exchanging
  \/ \E t \in Txs, p \in Restless : Purchase(t, p)
  \/ \E p \in Restless : Elsewhere(p) /\ UNCHANGED tradeVars

TradeSpec == TradeInit /\ [][TradeNext]_allVars

(* A handler that began runs to its end.                                    *)
RunHandler(t) ==
  \/ SetSlotUnstages(t) \/ SetSlotStages(t) \/ LeaveTrade(t)
  \/ ExchangeStep(t) \/ CommitTrade(t) \/ RollBackTrade(t)

FairTradeSpec == TradeSpec /\ \A t \in Trades : WF_allVars(RunHandler(t))

-----------------------------------------------------------------------------
(* Properties                                                               *)

(* The variables have their types; a slot of a window has a stack exactly   *)
(* when it has a quantity.                                                  *)
TradeTypeOK ==
  /\ place \in [Players -> Targids \cup {Away}]
  /\ \A p \in Players : /\ pending[p].entity \in Entity
                         /\ pending[p].initiator \in BOOLEAN
  /\ \A t \in Txs : \A i \in 1..2 :
       /\ sides[t][i] \in Entity
       /\ accepted[t][i] \in BOOLEAN
       /\ \A n \in Window : /\ stage[t][i][n].item \in ItemId \cup {NoItem}
                             /\ stage[t][i][n].qty \in Nat
                             /\ stage[t][i][n].item = NoItem <=> stage[t][i][n].qty = 0
  /\ job.op \in {"none", "unstage", "stage", "leave", "exchange", "close"}

(* Between handlers, the two sides of an open trade are in the zone and     *)
(* each has its TradePending on the other, so that both find the trade and  *)
(* either can close it; nobody is a side of two open trades.                *)
OpenTradeIsMutual ==
  cpu = Idle => \A t \in Trades : txState[t] = "Open" =>
    /\ \E p, q \in Players :
         /\ Who(t, 1) = p /\ Who(t, 2) = q /\ p # q
         /\ Partner(p) = q /\ Partner(q) = p
    /\ \A u \in Trades \ {t} : txState[u] = "Open" =>
         {sides[t][1].id, sides[t][2].id} \cap {sides[u][1].id, sides[u][2].id} = {}

(* What is staged in a window is held for it: every staged stack but gil    *)
(* resolves to a stack the trade has claimed, of at least that quantity.    *)
StagedIsHeld ==
  cpu = Idle => \A t \in Trades : txState[t] = "Open" =>
    \A i \in 1..2 : \A n \in Staged(t, i) \ {GilSlot} :
      LET c == Item(t, i, n) IN
      /\ c \in claims[t] /\ Resolves(c)
      /\ inv[c.owner][c.slot].qty >= stage[t][i][n].qty
      /\ c.owner = sides[t][i].id

TotalOf(contents, p, k) ==
  SumFunction([s \in Slots |-> IF contents[p][s].kind = k THEN contents[p][s].qty ELSE 0])

Offered(window, k) ==
  SumFunction([n \in Window |-> IF window[n].item.kind = k THEN window[n].qty ELSE 0])

(* In the step that commits t, each side has what he had when the handler   *)
(* began, less his own offer and with the other's, as both had seen them.   *)
SwapsAsAgreed(t) ==
  LET one == sides[t][1].id
      two == sides[t][2].id
      gave1 == agreed[t][1].mine
      gave2 == agreed[t][1].theirs
  IN /\ agreed[t][2] = [mine |-> gave2, theirs |-> gave1]
     /\ \A k \in Kinds :
          /\ TotalOf(Contents', one, k) = TotalOf(base, one, k) - Offered(gave1, k) + Offered(gave2, k)
          /\ TotalOf(Contents', two, k) = TotalOf(base, two, k) - Offered(gave2, k) + Offered(gave1, k)

(* A trade that commits moved exactly what both players saw when they       *)
(* accepted: whatever one of them restaged, spent or received in between,   *)
(* each ends with what he had, less his offer, plus the other's.            *)
SwapIsExact ==
  [][\A t \in Trades : txState[t] = "Open" /\ txState'[t] = "Committed" => SwapsAsAgreed(t)]_allVars

(* Delivering before consuming means that no moment of an exchange or of    *)
(* its rollback has less of anything in the database than it began with: a  *)
(* crash in the middle of a trade loses nothing.                            *)
NothingIsLost ==
  cpu \in Trades /\ ~undoFailed => \A k \in Kinds :
    SumFunction([p \in Players |-> TotalOf(db, p, k)])
      >= SumFunction([p \in Players |-> TotalOf(base, p, k)])

(* An exchange or a close that began ends: the trade is committed or rolled *)
(* back, it holds nothing, and neither player is in it any more.  A step    *)
(* that fails cannot leave both players in a trade nobody can leave.        *)
TradeCloses ==
  \A t \in Trades :
    (cpu = t /\ job.op \in {"exchange", "close"}) ~>
      /\ txState[t] \in {"Committed", "RolledBack"}
      /\ claims[t] = {}
      /\ \A p \in Players : t \notin ActiveTrade(p)
=============================================================================
