---------------------------- MODULE AtomicInventory ----------------------------
(***************************************************************************)
(* What the transaction engine promises its callers (transaction.h:47-59):  *)
(* a transaction reserves places of the inventories, which no other can     *)
(* change while it is open, and takes effect at once when it commits or not *)
(* at all when it aborts.  One that is not reversible (transaction.h:116)   *)
(* takes effect bit by bit, but never on what another has reserved.         *)
(***************************************************************************)
EXTENDS Naturals

CONSTANTS Players, Slots, Kinds, NoKind, Txs, Irreversible, Loaded

VARIABLES
  stock,   \* stock[p][s]: kind and quantity of the stack in each place
  held,    \* held[t]: the places t has reserved
  status   \* status[t]

vars == <<stock, held, status>>

Row     == [kind : Kinds \cup {NoKind}, qty : Nat]
Place   == Players \X Slots
At(c, x) == c[x[1]][x[2]]

HeldByOthers(t) == UNION {held[u] : u \in Txs \ {t}}

Init ==
  /\ stock = [p \in Players |-> [s \in Slots |->
                [kind |-> Loaded[p][s].kind, qty |-> Loaded[p][s].qty]]]
  /\ held = [t \in Txs |-> {}]
  /\ status = [t \in Txs |-> "New"]

Open(t) ==
  /\ status[t] = "New"
  /\ status' = [status EXCEPT ![t] = "Open"]
  /\ UNCHANGED <<stock, held>>

(* Reserves places nobody else holds, or gives some of its own back.        *)
Reserve(t) ==
  /\ status[t] = "Open"
  /\ held'[t] \subseteq Place \ HeldByOthers(t)
  /\ held' = [held EXCEPT ![t] = held'[t]]
  /\ UNCHANGED <<stock, status>>

TakeEffect(t) ==
  /\ stock' \in [Players -> [Slots -> Row]]
  /\ \A x \in HeldByOthers(t) : At(stock', x) = At(stock, x)

Advance(t) ==
  /\ status[t] = "Open" /\ t \in Irreversible
  /\ held'[t] \subseteq Place \ HeldByOthers(t)
  /\ held' = [held EXCEPT ![t] = held'[t]]
  /\ TakeEffect(t)
  /\ UNCHANGED status

Commit(t) ==
  /\ status[t] = "Open"
  /\ status' = [status EXCEPT ![t] = "Committed"]
  /\ held' = [held EXCEPT ![t] = {}]
  /\ TakeEffect(t)

Abort(t) ==
  /\ status[t] = "Open"
  /\ status' = [status EXCEPT ![t] = "RolledBack"]
  /\ held' = [held EXCEPT ![t] = {}]
  /\ IF t \in Irreversible THEN TakeEffect(t) ELSE UNCHANGED stock

(* The rest of the server moves what nobody holds.                          *)
Rearrange ==
  /\ stock' \in [Players -> [Slots -> Row]]
  /\ \A t \in Txs : \A x \in held[t] : At(stock', x) = At(stock, x)
  /\ UNCHANGED <<held, status>>

Next ==
  \/ \E t \in Txs : Open(t) \/ Reserve(t) \/ Advance(t) \/ Commit(t) \/ Abort(t)
  \/ Rearrange

Spec == Init /\ [][Next]_vars
=============================================================================
