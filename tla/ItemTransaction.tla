---------------------------- MODULE ItemTransaction ----------------------------
(***************************************************************************)
(* The transaction engine of the map server (map/items/transaction.cpp).   *)
(* Every player owns a row of slots: slot 0 is the gil, slots 1..Size are  *)
(* the places a stack can be.  A stack carries a uid drawn once and never  *)
(* again, and one of the states of enums/item_state.h.                     *)
(*                                                                         *)
(* A transaction claims stacks (stamps them InTransaction), changes the    *)
(* inventories step by step with an undo recorded for every step, and ends *)
(* with a commit or a rollback.  Several transactions are open at a time   *)
(* and a claim outlives the packet handler that took it, but the server    *)
(* runs one handler at a time: `cpu' is the transaction whose handler is   *)
(* running, and nothing else changes the inventories until it returns.     *)
(* Every write to the database may fail; memory and database are separate  *)
(* variables for that reason.                                              *)
(***************************************************************************)
EXTENDS Integers, Sequences

CONSTANTS
  Players,       \* characters on this map server
  Size,          \* slots of a container, besides the gil slot 0
  Kinds,         \* item ids
  Gil,           \* the currency, one of Kinds
  NoKind,        \* what an empty slot holds
  StackSize,     \* [Kinds -> the most one stack holds]
  Rare,          \* kinds of which a character holds at most one stack
  Ammo,          \* kinds whose stack is spent while it is equipped
  Txs,           \* transaction objects
  Idle,          \* `cpu' between two handlers
  Irreversible,  \* transactions whose reversible() is false (synthesis)
  Loaded,        \* the stacks the characters have when they are loaded
  FirstUid,      \* the uid counter after loading them
  MaxUid, MaxUndos, MaxFaults   \* bounds on uids drawn, undos kept, writes failed

Slots  == 0..Size
NoUid  == 0             \* of an empty slot, and of no stack in use
States == {"Free", "Equipped", "Bazaar", "InTransaction"}
Row    == [kind : Kinds \cup {NoKind}, qty : Nat]
NoRow  == [kind |-> NoKind, qty |-> 0]
Stack  == [uid : Nat, kind : Kinds \cup {NoKind}, qty : Nat, state : States]
NoStack == [uid |-> NoUid, kind |-> NoKind, qty |-> 0, state |-> "Free"]

(* ItemId: the stack it was made from, found again by owner, slot and uid. *)
ItemId == [owner : Players, slot : Slots, uid : Nat, kind : Kinds \cup {NoKind}]

(* An undo either adds qty to the stack in the slot (snap = NoKind) or puts *)
(* back the qty of snap that a take consumed to nothing.                    *)
Undo == [owner : Players, slot : Slots, snap : {NoKind}, qty : Int]
          \cup [owner : Players, slot : Slots, snap : Kinds, qty : Nat]

ASSUME ConstantsAssumption ==
  /\ Size \in Nat
  /\ Gil \in Kinds
  /\ NoKind \notin Kinds
  /\ StackSize \in [Kinds -> Nat \ {0}]
  /\ Idle \notin Txs
  /\ MaxUid \in Nat
  /\ MaxUndos \in Nat
  /\ MaxFaults \in Nat

(* What fits in a place: setQuantity cuts a quantity off at the stack size, *)
(* slot 0 is that of the gil, which alone keeps a row of quantity 0 and is  *)
(* never worn or sold.                                                      *)
Fits(stack, s) ==
  stack.uid # NoUid =>
    /\ stack.qty <= StackSize[stack.kind]
    /\ stack.kind # Gil => stack.qty > 0
    /\ stack.kind = Gil <=> s = 0
    /\ stack.kind = Gil => stack.state = "Free"

ASSUME LoadedAssumption ==
  /\ FirstUid \in Nat \ {0}
  /\ Loaded \in [Players -> [Slots -> Stack]]
  /\ \A p \in Players, s \in Slots :
       /\ Loaded[p][s].uid < FirstUid
       /\ Loaded[p][s].state # "InTransaction"
       /\ Loaded[p][s].uid = 0 => Loaded[p][s] = NoStack
       /\ Loaded[p][s].uid # 0 => Loaded[p][s].kind \in Kinds
       /\ Fits(Loaded[p][s], s)
  /\ \A p, q \in Players, r, s \in Slots :
       Loaded[p][r].uid = Loaded[q][s].uid /\ Loaded[p][r].uid # 0 => p = q /\ r = s

VARIABLES
  inv,       \* inv[p][s]: the stack in memory, NoStack when the slot is empty
  db,        \* db[p][s]: the char_inventory row
  inUse,     \* inUse[p]: the stack p's CItemState uses, or NoUid
  nextUid,   \* allocItemUid's counter
  txState,   \* txState[t]: "New" until constructed, then TransactionState
  claims,    \* claims[t]: Transaction::claims_
  undos,     \* undos[t]: Transaction::undos_
  cpu,       \* the transaction whose handler runs, or Idle
  phase,     \* "work", then in a rollback "undo" and "close"
  base,      \* what the inventories held when the running handler began
  undoFailed,\* a write failed in an undo of the running rollback
  faults     \* database writes that failed

vars == <<inv, db, inUse, nextUid, txState, claims, undos, cpu, phase, base, undoFailed, faults>>

RowOf(stack) == [kind |-> stack.kind, qty |-> stack.qty]
Contents == [p \in Players |-> [s \in Slots |-> RowOf(inv[p][s])]]

-----------------------------------------------------------------------------
(* Containers and claims                                                    *)

Occupied(p, s)   == inv[p][s].uid # NoUid
FreeSlots(p)     == {s \in Slots \ {0} : ~Occupied(p, s)}
FirstFree(p, s)  == s \in FreeSlots(p) /\ \A r \in FreeSlots(p) : s <= r
HasItem(p, k)    == \E s \in Slots : Occupied(p, s) /\ inv[p][s].kind = k
IdOf(p, s)       == [owner |-> p, slot |-> s, uid |-> inv[p][s].uid, kind |-> inv[p][s].kind]

(* Mutant: an id that stands for whatever stack of its kind is in the slot. *)
ResolvesByKind(c) == inv[c.owner][c.slot].kind = c.kind
Resolves(c)      == inv[c.owner][c.slot].uid = c.uid
Holds(t, p, s)   == \E c \in claims[t] : c.uid = inv[p][s].uid
Lesser(a, b)     == IF a <= b THEN a ELSE b

(* Mutant: a stamp is no obstacle.                                          *)
MayMutateStamped(t, p, s) ==
  Holds(t, p, s) \/ (inUse[p] # inv[p][s].uid /\ inv[p][s].state \in {"Free", "InTransaction"})

(* Who may change a stack: not the user of an item in use, and for a busy   *)
(* stack only its holder, or anyone if it is equipped ammo.                 *)
MayMutate(t, p, s) ==
  \/ Holds(t, p, s)
  \/ /\ inUse[p] # inv[p][s].uid
     /\ \/ inv[p][s].state = "Free"
        \/ inv[p][s].state = "Equipped" /\ inv[p][s].kind \in Ammo

(* Mutant: the quantity is not compared.                                    *)
CanUpdateAnyway(t, p, s, delta) == Occupied(p, s) /\ MayMutate(t, p, s)

CanUpdate(t, p, s, delta) ==
  /\ Occupied(p, s)
  /\ inv[p][s].qty + delta >= 0
  /\ MayMutate(t, p, s)

Updated(p, s, delta) == Lesser(inv[p][s].qty + delta, StackSize[inv[p][s].kind])

(* A database write: it lands, or it is one of the MaxFaults that do not.   *)
Write(ok) == \/ ok /\ UNCHANGED faults
             \/ ~ok /\ faults < MaxFaults /\ faults' = faults + 1

(* applyItemUpdate past its guards: the row is written first, and the stack *)
(* follows only when the write landed.  Currency stays at quantity 0.       *)
UpdateStack(p, s, delta, ok) ==
  LET q    == Updated(p, s, delta)
      k    == inv[p][s].kind
      gone == q = 0 /\ k # Gil
  IN /\ Write(ok)
     /\ db'  = IF ~ok THEN db ELSE
               [db EXCEPT ![p][s] = IF gone THEN NoRow ELSE [kind |-> k, qty |-> q]]
     /\ inv' = IF ~ok THEN inv ELSE
               [inv EXCEPT ![p][s] = IF gone THEN NoStack ELSE [@ EXCEPT !.qty = q]]

(* Mutant: the stack stays in the container when the INSERT failed.         *)
InsertStackKept(p, s, k, q, ok) ==
  /\ nextUid' = nextUid + 1
  /\ Write(ok)
  /\ inv' = [inv EXCEPT ![p][s] = [uid |-> nextUid, kind |-> k, qty |-> q, state |-> "Free"]]
  /\ db'  = IF ~ok THEN db ELSE [db EXCEPT ![p][s] = [kind |-> k, qty |-> q]]

(* applyAddItem and restoreItem once they know the slot: the new stack goes *)
(* into the container first and is removed again when the INSERT fails.     *)
InsertStack(p, s, k, q, ok) ==
  /\ nextUid' = nextUid + 1
  /\ Write(ok)
  /\ inv' = IF ~ok THEN inv ELSE
            [inv EXCEPT ![p][s] = [uid |-> nextUid, kind |-> k, qty |-> q, state |-> "Free"]]
  /\ db'  = IF ~ok THEN db ELSE [db EXCEPT ![p][s] = [kind |-> k, qty |-> q]]

CanAdd(p, k) == k # Gil /\ ~(k \in Rare /\ HasItem(p, k)) /\ FreeSlots(p) # {}

Stamp(p, s, st) == inv' = [inv EXCEPT ![p][s].state = st]

-----------------------------------------------------------------------------
(* The initial state: the characters as loaded, no transaction constructed  *)

Init ==
  /\ inv = Loaded
  /\ db = Contents
  /\ inUse = [p \in Players |-> NoUid]
  /\ nextUid = FirstUid
  /\ txState = [t \in Txs |-> "New"]
  /\ claims = [t \in Txs |-> {}]
  /\ undos = [t \in Txs |-> <<>>]
  /\ cpu = Idle
  /\ phase = "work"
  /\ base = Contents
  /\ undoFailed = FALSE
  /\ faults = 0

-----------------------------------------------------------------------------
(* Handlers: the constructor or the lookup of an open transaction starts    *)
(* one, and it returns with the transaction left open or closed.            *)

Enter(t) ==
  /\ cpu = Idle
  /\ txState[t] \in {"New", "Open"}
  /\ txState' = [txState EXCEPT ![t] = "Open"]
  /\ cpu' = t
  /\ phase' = "work"
  /\ base' = Contents
  /\ undoFailed' = FALSE
  /\ UNCHANGED <<inv, db, inUse, nextUid, claims, undos, faults>>

(* Between handlers the history variables keep no more than they need.      *)
Forget == base' = Contents /\ undoFailed' = FALSE

(* Only a transaction that never undoes keeps work done across handlers.    *)
Leave(t) ==
  /\ cpu = t
  /\ phase = "work"
  /\ undos[t] = <<>> \/ t \in Irreversible
  /\ cpu' = Idle
  /\ Forget
  /\ UNCHANGED <<inv, db, inUse, nextUid, txState, claims, undos, phase, faults>>

(* Of the doRollbacks only that of a synthesis does more than release.      *)
Working(t)   == cpu = t /\ (phase = "work" \/ (phase = "close" /\ t \in Irreversible))
Releasing(t) == cpu = t /\ phase \in {"work", "close"}

-----------------------------------------------------------------------------
(* Claims                                                                   *)

(* Mutant: a stack in another transaction can be claimed too.               *)
ClaimBusy(t, p, s) ==
  /\ Working(t)
  /\ Occupied(p, s)
  /\ inv[p][s].kind # Gil
  /\ inv[p][s].state \in {"Free", "InTransaction"}
  /\ Stamp(p, s, "InTransaction")
  /\ claims' = [claims EXCEPT ![t] = @ \cup {IdOf(p, s)}]
  /\ UNCHANGED <<db, inUse, nextUid, txState, undos, cpu, phase, base, undoFailed, faults>>

(* claim: only a Free stack, and gil never.                                 *)
Claim(t, p, s) ==
  /\ Working(t)
  /\ Occupied(p, s)
  /\ inv[p][s].kind # Gil
  /\ inv[p][s].state = "Free"
  /\ Stamp(p, s, "InTransaction")
  /\ claims' = [claims EXCEPT ![t] = @ \cup {IdOf(p, s)}]
  /\ UNCHANGED <<db, inUse, nextUid, txState, undos, cpu, phase, base, undoFailed, faults>>

(* A stack that was consumed to nothing no longer resolves: only the claim  *)
(* goes.                                                                    *)
Exited(ids) ==
  [p \in Players |-> [s \in Slots |->
     IF /\ \E c \in ids : c.owner = p /\ c.slot = s /\ Resolves(c)
        /\ inv[p][s].state = "InTransaction"
     THEN [inv[p][s] EXCEPT !.state = "Free"] ELSE inv[p][s]]]

Release(t, c) ==
  /\ Releasing(t)
  /\ c \in claims[t]
  /\ inv' = Exited({c})
  /\ claims' = [claims EXCEPT ![t] = @ \ {c}]
  /\ UNCHANGED <<db, inUse, nextUid, txState, undos, cpu, phase, base, undoFailed, faults>>

ReleaseAll(t) ==
  /\ inv' = Exited(claims[t])
  /\ claims' = [claims EXCEPT ![t] = {}]

-----------------------------------------------------------------------------
(* Steps of the work.  ok says whether the database write landed; a step    *)
(* whose guards refuse changes nothing and needs no action.                 *)

Record(t, ok, undo) ==
  /\ Len(undos[t]) < MaxUndos
  /\ undos' = IF ok THEN [undos EXCEPT ![t] = Append(@, undo)] ELSE undos

AddsUndo(p, s, delta) == [owner |-> p, slot |-> s, snap |-> NoKind, qty |-> delta]

(* give: a stack of its own, in the first free slot.                        *)
Give(t, p, k, q, ok) ==
  /\ Working(t)
  /\ nextUid < MaxUid
  /\ CanAdd(p, k)
  /\ \E s \in FreeSlots(p) :
       /\ FirstFree(p, s)
       /\ InsertStack(p, s, k, Lesser(q, StackSize[k]), ok)
       /\ Record(t, ok, AddsUndo(p, s, -Lesser(q, StackSize[k])))
  /\ UNCHANGED <<inUse, txState, claims, cpu, phase, base, undoFailed>>

(* Mutant: the undo takes back what was asked.                              *)
GrowRecordingRequest(t, p, s, q, ok) ==
  /\ Working(t)
  /\ CanUpdate(t, p, s, q)
  /\ UpdateStack(p, s, q, ok)
  /\ Record(t, ok, AddsUndo(p, s, -q))
  /\ UNCHANGED <<inUse, nextUid, txState, claims, cpu, phase, base, undoFailed>>

(* mergeInto, earn and a give of currency: a stack grows up to its limit,   *)
(* and the undo takes back what landed rather than what was asked.          *)
Grow(t, p, s, q, ok) ==
  /\ Working(t)
  /\ CanUpdate(t, p, s, q)
  /\ UpdateStack(p, s, q, ok)
  /\ Record(t, ok, AddsUndo(p, s, -(Updated(p, s, q) - inv[p][s].qty)))
  /\ UNCHANGED <<inUse, nextUid, txState, claims, cpu, phase, base, undoFailed>>

(* take and pay.  A stack taken whole is kept as a snapshot.                *)
Take(t, p, s, q, ok) ==
  /\ Working(t)
  /\ CanUpdate(t, p, s, -q)
  /\ UpdateStack(p, s, -q, ok)
  /\ Record(t, ok, [AddsUndo(p, s, q) EXCEPT
                      !.snap = IF inv[p][s].qty = q THEN inv[p][s].kind ELSE NoKind])
  /\ UNCHANGED <<inUse, nextUid, txState, claims, cpu, phase, base, undoFailed>>

-----------------------------------------------------------------------------
(* Closing                                                                  *)

Closed(t, st) ==
  /\ txState' = [txState EXCEPT ![t] = st]
  /\ undos' = [undos EXCEPT ![t] = <<>>]
  /\ cpu' = Idle
  /\ phase' = "work"
  /\ Forget

Commit(t) ==
  /\ cpu = t
  /\ phase = "work"
  /\ ReleaseAll(t)
  /\ Closed(t, "Committed")
  /\ UNCHANGED <<db, inUse, nextUid, faults>>

(* Mutant: every transaction is closed without running its undos.           *)
StartRollbackWithoutUndo(t) ==
  /\ cpu = t
  /\ phase = "work"
  /\ phase' = "close"
  /\ undos' = [undos EXCEPT ![t] = <<>>]
  /\ UNCHANGED <<inv, db, inUse, nextUid, txState, claims, cpu, base, undoFailed, faults>>

(* rollback: a synthesis drops its undos, the others run them.              *)
StartRollback(t) ==
  /\ cpu = t
  /\ phase = "work"
  /\ IF t \in Irreversible
     THEN phase' = "close" /\ undos' = [undos EXCEPT ![t] = <<>>]
     ELSE phase' = "undo" /\ UNCHANGED undos
  /\ UNCHANGED <<inv, db, inUse, nextUid, txState, claims, cpu, base, undoFailed, faults>>

LastUndo(t)  == undos[t][Len(undos[t])]
PopUndo(t)   == undos' = [undos EXCEPT ![t] = SubSeq(@, 1, Len(@) - 1)]
Undoing(t)   == cpu = t /\ phase = "undo" /\ undos[t] # <<>>

(* Mutant: an undo that did not apply is tried again.                       *)
RetryUndo(t) == UNCHANGED <<inv, db, inUse, nextUid, txState, claims, undos, cpu, phase, base>>

(* An undo that is refused, or whose write fails, is logged and skipped.    *)
SkipUndo(t) ==
  /\ PopUndo(t)
  /\ UNCHANGED <<inv, db, inUse, nextUid, txState, claims, cpu, phase, base>>

Refuse(t)   == SkipUndo(t) /\ UNCHANGED <<faults, undoFailed>>
FailUndo(t) == SkipUndo(t) /\ Write(FALSE) /\ undoFailed' = TRUE

UndoUpdate(t, p, s, delta) ==
  \/ /\ CanUpdate(t, p, s, delta)
     /\ UpdateStack(p, s, delta, TRUE)
     /\ PopUndo(t)
     /\ UNCHANGED <<inUse, nextUid, txState, claims, cpu, phase, base, undoFailed>>
  \/ CanUpdate(t, p, s, delta) /\ FailUndo(t)
  \/ ~CanUpdate(t, p, s, delta) /\ Refuse(t)

UndoDelta(t) ==
  LET u == LastUndo(t)
  IN /\ Undoing(t)
     /\ u.snap = NoKind
     /\ UndoUpdate(t, u.owner, u.slot, u.qty)

(* restoreItem: into the slot it left, or wherever it fits when that slot   *)
(* is taken.  Gil never leaves slot 0, so it is added to what is there.     *)
RestoreInto(t, p, s, k, q) ==
  /\ \/ InsertStack(p, s, k, q, TRUE) /\ UNCHANGED undoFailed
     \/ InsertStack(p, s, k, q, FALSE) /\ undoFailed' = TRUE
  /\ PopUndo(t)
  /\ UNCHANGED <<inUse, txState, claims, cpu, phase, base>>

UndoRestore(t) ==
  LET u == LastUndo(t)
      p == u.owner
      k == u.snap
  IN /\ Undoing(t)
     /\ k # NoKind
     /\ \/ ~Occupied(p, u.slot) /\ RestoreInto(t, p, u.slot, k, u.qty)
        \/ /\ Occupied(p, u.slot)
           /\ k # Gil
           /\ \/ CanAdd(p, k) /\ \E s \in FreeSlots(p) :
                    FirstFree(p, s) /\ RestoreInto(t, p, s, k, u.qty)
              \/ ~CanAdd(p, k) /\ Refuse(t)
        \/ Occupied(p, u.slot) /\ k = Gil /\ UndoUpdate(t, p, 0, u.qty)

UndoDone(t) ==
  /\ cpu = t
  /\ phase = "undo"
  /\ undos[t] = <<>>
  /\ phase' = "close"
  /\ UNCHANGED <<inv, db, inUse, nextUid, txState, claims, undos, cpu, base, undoFailed, faults>>

(* After doRollback, whose steps run in phase "close".                      *)
FinishRollback(t) ==
  /\ cpu = t
  /\ phase = "close"
  /\ ReleaseAll(t)
  /\ Closed(t, "RolledBack")
  /\ UNCHANGED <<db, inUse, nextUid, faults>>

-----------------------------------------------------------------------------
(* What the other handlers do to the slots of a player                      *)

(* items::mark: a role is acquired from Free and given up to Free, and a    *)
(* claimed stack takes part in neither.                                     *)
Mark(p, s, st) ==
  /\ cpu = Idle
  /\ Occupied(p, s)
  /\ inv[p][s].kind # Gil
  /\ inv[p][s].state # "InTransaction"
  /\ \/ st \in {"Equipped", "Bazaar"} /\ inv[p][s].state = "Free"
     \/ st = "Free" /\ inv[p][s].state # "Free"
  /\ Stamp(p, s, st)
  /\ UNCHANGED <<db, inUse, nextUid, txState, claims, undos, cpu, phase, base, undoFailed, faults>>

(* CItemState on a worn item, which has charges and never stacks; a         *)
(* consumable is claimed instead.                                           *)
StartUse(p, s) ==
  /\ cpu = Idle
  /\ inUse[p] = NoUid
  /\ inv[p][s].state = "Equipped"
  /\ StackSize[inv[p][s].kind] = 1
  /\ inUse' = [inUse EXCEPT ![p] = inv[p][s].uid]
  /\ UNCHANGED <<inv, db, nextUid, txState, claims, undos, cpu, phase, base, undoFailed, faults>>

EndUse(p) ==
  /\ cpu = Idle
  /\ inUse[p] # NoUid
  /\ inUse' = [inUse EXCEPT ![p] = NoUid]
  /\ UNCHANGED <<inv, db, nextUid, txState, claims, undos, cpu, phase, base, undoFailed, faults>>

(* A whole stack moves to an empty slot, its uid with it; the move is taken *)
(* back when the row does not follow.                                       *)
MoveItemTo(p, s, r, ok) ==
  /\ cpu = Idle
  /\ inv[p][s].kind # Gil
  /\ Occupied(p, s)
  /\ inv[p][s].state = "Free"
  /\ r \in FreeSlots(p)
  /\ Write(ok)
  /\ inv' = IF ~ok THEN inv ELSE [inv EXCEPT ![p][r] = inv[p][s], ![p][s] = NoStack]
  /\ db'  = IF ~ok THEN db  ELSE [db EXCEPT ![p][r] = db[p][s], ![p][s] = NoRow]
  /\ UNCHANGED <<inUse, nextUid, txState, claims, undos, cpu, phase, base, undoFailed>>

-----------------------------------------------------------------------------
Work(t) ==
  \/ \E p \in Players, s \in Slots : Claim(t, p, s)
  \/ \E c \in claims[t] : Release(t, c)
  \/ \E p \in Players, ok \in BOOLEAN :
       \/ \E k \in Kinds : \E q \in 1..StackSize[k] : Give(t, p, k, q, ok)
       \/ \E s \in Slots : Occupied(p, s) /\
            \E q \in 1..StackSize[inv[p][s].kind] :
               Grow(t, p, s, q, ok) \/ Take(t, p, s, q, ok)

RunUndo(t) == UndoDelta(t) \/ UndoRestore(t)

Handler(t) ==
  \/ Enter(t) \/ Leave(t) \/ Work(t)
  \/ Commit(t) \/ StartRollback(t) \/ RunUndo(t) \/ UndoDone(t) \/ FinishRollback(t)

Elsewhere(p) ==
  \/ \E s \in Slots, st \in States : Mark(p, s, st)
  \/ \E s \in Slots : StartUse(p, s)
  \/ EndUse(p)
  \/ \E s, r \in Slots, ok \in BOOLEAN : MoveItemTo(p, s, r, ok)

Next == (\E t \in Txs : Handler(t)) \/ (\E p \in Players : Elsewhere(p))

Spec == Init /\ [][Next]_vars

(* The main loop runs a rollback it began to its end.                       *)
FairSpec ==
  /\ Spec
  /\ \A t \in Txs : WF_vars(RunUndo(t) \/ UndoDone(t)) /\ WF_vars(FinishRollback(t))

-----------------------------------------------------------------------------
(* Properties                                                               *)

(* Every variable has its type, an undo log only names stacks that exist,   *)
(* and only a handler that runs is in a phase other than "work".            *)
TypeOK ==
  /\ inv \in [Players -> [Slots -> Stack]]
  /\ db \in [Players -> [Slots -> Row]]
  /\ inUse \in [Players -> Nat]
  /\ nextUid \in Nat
  /\ txState \in [Txs -> {"New", "Open", "Committed", "RolledBack"}]
  /\ claims \in [Txs -> SUBSET ItemId]
  /\ undos \in [Txs -> Seq(Undo)]
  /\ cpu \in Txs \cup {Idle}
  /\ phase \in {"work", "undo", "close"}
  /\ base \in [Players -> [Slots -> Row]]
  /\ undoFailed \in BOOLEAN
  /\ faults \in Nat

(* A stamped stack is claimed by an open transaction.                       *)
StampsAreClaimed ==
  \A p \in Players, s \in Slots :
    inv[p][s].state = "InTransaction" =>
      \E t \in Txs : txState[t] = "Open" /\ IdOf(p, s) \in claims[t]

(* A claim that still resolves names the stack it was made from, stamped.   *)
ClaimsAreStamped ==
  \A t \in Txs : \A c \in claims[t] :
    Resolves(c) => /\ inv[c.owner][c.slot].state = "InTransaction"
                   /\ c = IdOf(c.owner, c.slot)

(* No two transactions hold one stack.                                      *)
OneHolder ==
  \A t, u \in Txs : \A c \in claims[t], d \in claims[u] :
    c.uid = d.uid => t = u /\ c = d

(* "Claimed stacks are stamped InTransaction": the stamps and the claims of *)
(* the open transactions are one relation, and each stack has one holder.   *)
ClaimsExclusive == StampsAreClaimed /\ ClaimsAreStamped /\ OneHolder

(* The database holds what memory holds, whichever writes failed: what a    *)
(* restart would load is what the players see (transaction.cpp:115).        *)
MemoryMatchesDatabase == db = Contents

(* A claimed stack "may only be mutated by the transaction holding them"    *)
(* (transaction.h): its quantity, its kind and its place change only in a   *)
(* step of the holder, and no other handler takes the stamp away.           *)
HolderOnly ==
  [][\A p \in Players, s \in Slots :
       inv[p][s].state = "InTransaction" /\ inv'[p][s] # inv[p][s]
         => cpu \in Txs /\ Holds(cpu, p, s)]_vars

(* A rollback none of whose own writes fails leaves every slot of every     *)
(* player as the handler found it, whatever order the steps had: no undo is *)
(* ever refused because a stack is busy, gone, elsewhere or full.           *)
RollbackRestores ==
  [][phase = "undo" /\ phase' = "close" /\ ~undoFailed => Contents = base]_vars

(* A claim on a stack that is gone never comes to mean a later stack in the *)
(* same slot.                                                               *)
DeadClaimsStayDead ==
  [][\A t \in Txs : \A c \in claims[t] : ~Resolves(c) => ~Resolves(c)']_vars

(* A rollback that began ends, even if none of its undos applies, and gives *)
(* back every stack it held.                                                *)
RollbackEnds ==
  \A t \in Txs : (cpu = t /\ phase = "undo") ~> (txState[t] = "RolledBack" /\ claims[t] = {})

(* Handlers seen from outside: the inventories change only when one ends.   *)
Visible == IF cpu = Idle THEN Contents ELSE base
Held(t) == {x \in Players \X Slots :
              /\ inv[x[1]][x[2]].state = "InTransaction"
              /\ IdOf(x[1], x[2]) \in claims[t]}

Atomic == INSTANCE AtomicInventory
            WITH stock <- Visible, held <- [t \in Txs |-> Held(t)], status <- txState

(* With every write landing, the engine implements transactions that never  *)
(* touch each other's reserved places and, unless they are irreversible,    *)
(* are atomic.                                                              *)
ImplementsAtomic == Atomic!Spec
=============================================================================
