------------------------------ MODULE DeliveryBox ------------------------------
(***************************************************************************)
(* Delivery boxes (map/utils/dboxutils.cpp, behind packet 0x04D, and the   *)
(* triggers delivery_box_insert and char_delete of sql/triggers.sql).      *)
(*                                                                         *)
(* All mail is rows of one table that all map processes share.  A player   *)
(* works on copies of some of them, in UContainer: what the window of the  *)
(* one box shows that is open.  Others change the rows meanwhile.  An item *)
(* to be sent leaves the bag for a cell of the sender's outgoing box; when *)
(* it is sent, the row stays as a receipt, and another row waits for the   *)
(* receiver until a cell of the incoming box takes it.                     *)
(*                                                                         *)
(* A step is a handler, and a database transaction is atomic; a COMMIT may *)
(* fail, which undoes the rows and not what the handler did in memory.     *)
(* Left out: failed statements inside a transaction (they undo all of it), *)
(* rare items, items who may not be delivered, gil sent by players.  The   *)
(* client asks for what fits the box that is open and what it shows of it. *)
(* Bounds: MaxFaults, MaxDeletions.                                        *)
(***************************************************************************)
EXTENDS Integers, Sequences, FiniteSets, SequencesExt

CONSTANTS
  Chars,         \* characters
  Goods,         \* kinds of items, with their quantity
  Gil,           \* the name of the currency
  Sums,          \* sums of gil that may come by mail
  Cells,         \* cells of each box (slots 0 to 7)
  None,          \* no row, no copy, or no sender
  Belongings,    \* what is in the bags at first
  BagSize,       \* items a bag holds
  Savings,       \* the gil they have at first
  MaxInflight,   \* map.DELIVERY_BOX_MAX_INFLIGHT
  MaxFaults,     \* bound: COMMITs that fail, and stops of the search server
  MaxDeletions   \* bound: characters deleted

Outgoing == [item : Goods, to : Chars, sent : BOOLEAN, received : BOOLEAN]
Mail     == [item : Goods \cup Sums, from : Chars \cup {None}]
Copy     == [item : Goods \cup Sums, to : Chars \cup {None}, sent : BOOLEAN]

ASSUME DeliveryAssumption ==
  /\ IsFiniteSet(Chars) /\ IsFiniteSet(Goods) /\ IsFiniteSet(Cells) /\ Cells \subseteq Nat
  /\ Sums \subseteq Nat \ {0} /\ Goods \cap Sums = {} /\ Gil \notin Goods
  /\ None \notin Chars \cup Outgoing \cup Mail \cup Copy
  /\ Belongings \in [Chars -> [Goods -> Nat]] /\ Savings \in [Chars -> Nat]
  /\ BagSize \in Nat /\ \A c \in Chars : SumFunction(Belongings[c]) <= BagSize
  /\ MaxInflight \in Nat /\ MaxFaults \in Nat /\ MaxDeletions \in Nat

VARIABLES
  alive,       \* the characters that exist
  bag, purse,  \* the inventory: items, and gil
  outbox,      \* rows of box 2, by cell
  inbox,       \* rows of box 1 with a slot below 8
  queue,       \* rows of box 1 with a slot from 8 on, in their order
  window,      \* UContainer: the box that is open, and the copies in its cells
  gone,        \* history: what was thrown away, spent or deleted
  faults

boxVars == <<alive, bag, purse, outbox, inbox, queue, window, gone, faults>>

MailTypeOK ==
  /\ alive \subseteq Chars
  /\ bag \in [Chars -> [Goods -> Nat]] /\ purse \in [Chars -> Nat]
  /\ \A c \in Chars : SumFunction(bag[c]) <= BagSize
  /\ outbox \in [Chars -> [Cells -> Outgoing \cup {None}]]
  /\ inbox  \in [Chars -> [Cells -> Mail \cup {None}]]
  /\ queue  \in [Chars -> Seq(Mail)]
  /\ window \in [Chars -> [box : {"none", "out", "in"}, cells : [Cells -> Copy \cup {None}]]]
  /\ gone \in [Goods \cup {Gil} -> Nat]
  /\ faults \in 0..MaxFaults
  /\ \A c \in Chars, s \in Cells :
       outbox[c][s] # None /\ outbox[c][s].received => outbox[c][s].sent

NoCells == [s \in Cells |-> None]

BoxInit ==
  /\ alive = Chars
  /\ bag = Belongings /\ purse = Savings
  /\ outbox = [c \in Chars |-> NoCells]
  /\ inbox = [c \in Chars |-> NoCells]
  /\ queue = [c \in Chars |-> <<>>]
  /\ window = [c \in Chars |-> [box |-> "none", cells |-> NoCells]]
  /\ gone = [g \in Goods \cup {Gil} |-> 0]
  /\ faults = 0

-----------------------------------------------------------------------------
Room(c) == SumFunction(bag[c]) < BagSize

\* isDeliveryBoxInflightAtCapacity
AtCapacity(c) == Len(queue[c]) >= MaxInflight

Shown(c, box, s) == window[c].box = box /\ window[c].cells[s] # None
Copied(c, s)     == window[c].cells[s]

\* A COMMIT that fails.
CommitFails == faults < MaxFaults /\ faults' = faults + 1

\* delivery_box_insert gives a new row of the incoming box the last place.
Posted(c, item, from) ==
  [queue EXCEPT ![c] = Append(@, [item |-> item, from |-> from])]

Gaining(c, item) ==
  IF item \in Goods THEN /\ Room(c)
                         /\ bag' = [bag EXCEPT ![c][item] = @ + 1] /\ UNCHANGED purse
  ELSE purse' = [purse EXCEPT ![c] = @ + item] /\ UNCHANGED bag

Losing(item) == IF item \in Goods THEN [gone EXCEPT ![item] = @ + 1]
                ELSE [gone EXCEPT ![Gil] = @ + item]

-----------------------------------------------------------------------------
(* Mutant: the copies of the other box stay.                                *)
OpenKeeping(c, box) ==
  /\ c \in alive /\ window[c].box # box
  /\ window' = [window EXCEPT ![c].box = box]
  /\ UNCHANGED <<alive, bag, purse, outbox, inbox, queue, gone, faults>>

\* OpenSendBox, OpenRecvBox.
Open(c, box) ==
  /\ c \in alive /\ window[c].box # box
  /\ window' = [window EXCEPT ![c] = [box |-> box, cells |-> NoCells]]
  /\ UNCHANGED <<alive, bag, purse, outbox, inbox, queue, gone, faults>>

\* CloseMailWindow; a character who leaves the zone has no window either.
Close(c) ==
  /\ window[c].box # "none"
  /\ window' = [window EXCEPT ![c] = [box |-> "none", cells |-> NoCells]]
  /\ UNCHANGED <<alive, bag, purse, outbox, inbox, queue, gone, faults>>

\* SendOldItems: a cell without a row keeps its copy.
SendOldItems(c) ==
  /\ window[c].box # "none"
  /\ window' = [window EXCEPT ![c].cells = [s \in Cells |->
       CASE window[c].box = "out" /\ outbox[c][s] # None ->
              [item |-> outbox[c][s].item, to |-> outbox[c][s].to, sent |-> outbox[c][s].sent]
         [] window[c].box = "in" /\ inbox[c][s] # None ->
              [item |-> inbox[c][s].item, to |-> None, sent |-> FALSE]
         [] OTHER -> @[s]]]
  /\ UNCHANGED <<alive, bag, purse, outbox, inbox, queue, gone, faults>>

\* AddItemsToBeSent: the row is refused if the cell has one the window does not
\* show.
AddItemsToBeSent(c, s, g, r) ==
  /\ window[c].box = "out" /\ window[c].cells[s] = None
  /\ bag[c][g] > 0 /\ r \in alive
  /\ outbox[c][s] = None
  /\ outbox' = [outbox EXCEPT ![c][s] =
       [item |-> g, to |-> r, sent |-> FALSE, received |-> FALSE]]
  /\ bag' = [bag EXCEPT ![c][g] = @ - 1]
  /\ window' = [window EXCEPT ![c].cells[s] = [item |-> g, to |-> r, sent |-> FALSE]]
  /\ UNCHANGED <<alive, purse, inbox, queue, gone, faults>>

\* SendConfirmation: the copy is marked inside the transaction.
SendConfirmation(c, s) ==
  LET r == Copied(c, s).to
  IN  /\ Shown(c, "out", s) /\ ~Copied(c, s).sent
      /\ r \in alive /\ ~AtCapacity(r)
      /\ outbox[c][s] # None /\ outbox[c][s].to = r /\ ~outbox[c][s].sent
      /\ window' = [window EXCEPT ![c].cells[s].sent = TRUE]
      /\ \/ /\ outbox' = [outbox EXCEPT ![c][s].sent = TRUE]
            /\ queue' = Posted(r, Copied(c, s).item, c)
            /\ UNCHANGED faults
         \/ CommitFails /\ UNCHANGED <<outbox, queue>>
      /\ UNCHANGED <<alive, bag, purse, inbox, gone>>

\* CancelSendingItem, while the receipt stands: some mail from this sender with
\* such an item is deleted, if there is one.  (The code looks whether the first
\* statement found its row, not whether the second did.)
CancelSendingItem(c, s) ==
  LET copy  == Copied(c, s)
      mails == {i \in DOMAIN queue[copy.to] : queue[copy.to][i] = [item |-> copy.item, from |-> c]}
  IN  /\ Shown(c, "out", s) /\ copy.sent /\ copy.to \in alive
      /\ outbox[c][s] # None /\ outbox[c][s].sent /\ ~outbox[c][s].received
      /\ outbox' = [outbox EXCEPT ![c][s].sent = FALSE]
      /\ \/ mails = {} /\ UNCHANGED queue
         \/ \E i \in mails : queue' = [queue EXCEPT ![copy.to] = RemoveAt(@, i)]
      /\ window' = [window EXCEPT ![c].cells[s].sent = FALSE]
      /\ UNCHANGED <<alive, bag, purse, inbox, gone, faults>>

\* CancelSendingItem otherwise: the row is deleted as an orphan, and nothing
\* else; one that was not sent still holds the item.
CancelFails(c, s) ==
  LET copy  == Copied(c, s)
      row   == outbox[c][s]
      Stands == row.sent /\ ~row.received /\ copy.to \in alive
  IN  /\ Shown(c, "out", s) /\ copy.sent /\ row # None /\ row.item = copy.item
      /\ IF Stands THEN CommitFails ELSE UNCHANGED faults
      /\ window' = [window EXCEPT ![c].cells[s].sent = @ /\ ~Stands]
      /\ outbox' = [outbox EXCEPT ![c][s] = None]
      /\ gone' = IF row.sent THEN gone ELSE Losing(row.item)
      /\ UNCHANGED <<alive, bag, purse, inbox, queue>>

(* Mutant: an item not sent yet is taken for a receipt.                     *)
MarkedUnsent(mail, c) ==
  LET receipts == {s \in Cells :
        /\ mail.from # None /\ outbox[mail.from][s] # None
        /\ outbox[mail.from][s].to = c /\ outbox[mail.from][s].item = mail.item
        /\ ~outbox[mail.from][s].received}
  IN  IF receipts = {} THEN {outbox}
      ELSE {[outbox EXCEPT ![mail.from][s].received = TRUE] : s \in receipts}

\* The sender's receipt is marked, one of those for such an item; a mail from
\* the auction house, or one sent back, may have none.
Marked(mail, c) ==
  LET receipts == {s \in Cells :
        /\ mail.from # None /\ outbox[mail.from][s] # None
        /\ outbox[mail.from][s].to = c /\ outbox[mail.from][s].item = mail.item
        /\ outbox[mail.from][s].sent /\ ~outbox[mail.from][s].received}
  IN  IF receipts = {} THEN {outbox}
      ELSE {[outbox EXCEPT ![mail.from][s].received = TRUE] : s \in receipts}

\* SendNewItems: the first mail in the queue comes into a cell.  The copy is
\* put there inside the transaction.
SendNewItems(c, s) ==
  LET mail == Head(queue[c])
  IN  /\ window[c].box = "in" /\ window[c].cells[s] = None
      /\ queue[c] # <<>> /\ inbox[c][s] = None
      /\ window' = [window EXCEPT ![c].cells[s] = [item |-> mail.item, to |-> None, sent |-> FALSE]]
      /\ \/ /\ outbox' \in Marked(mail, c)
            /\ inbox' = [inbox EXCEPT ![c][s] = mail]
            /\ queue' = [queue EXCEPT ![c] = Tail(@)]
            /\ UNCHANGED faults
         \/ CommitFails /\ UNCHANGED <<outbox, inbox, queue>>
      /\ UNCHANGED <<alive, bag, purse, gone>>

\* RemoveDeliveredItemFromSendingBox: the first receipt that is marked.
RemoveDelivered(c) ==
  LET marked == {s \in Cells : outbox[c][s] # None /\ outbox[c][s].received}
      s == Min(marked)
  IN  /\ window[c].box = "out" /\ marked # {}
      /\ window[c].cells[s] # None /\ Copied(c, s).sent
      /\ outbox' = [outbox EXCEPT ![c][s] = None]
      /\ window' = [window EXCEPT ![c].cells[s] = None]
      /\ UNCHANGED <<alive, bag, purse, inbox, queue, gone, faults>>

\* ReturnToSender, whether or not that character still exists.  The copy is
\* deleted inside the transaction.
ReturnToSender(c, s) ==
  LET row == inbox[c][s]
  IN  /\ Shown(c, "in", s) /\ row # None /\ row.from # None
      /\ ~AtCapacity(row.from)
      /\ window' = [window EXCEPT ![c].cells[s] = None]
      /\ \/ /\ queue' = Posted(row.from, Copied(c, s).item, c)
            /\ inbox' = [inbox EXCEPT ![c][s] = None]
            /\ UNCHANGED faults
         \/ CommitFails /\ UNCHANGED <<queue, inbox>>
      /\ UNCHANGED <<alive, bag, purse, outbox, gone>>

(* Mutant: a row that was sent is taken back as well.                       *)
TakeAnyItemFromCell(c, s) ==
  /\ \/ /\ Shown(c, "in", s) /\ inbox[c][s] # None
        /\ inbox' = [inbox EXCEPT ![c][s] = None] /\ UNCHANGED outbox
     \/ /\ Shown(c, "out", s) /\ outbox[c][s] # None
        /\ outbox' = [outbox EXCEPT ![c][s] = None] /\ UNCHANGED inbox
  /\ Gaining(c, Copied(c, s).item)
  /\ window' = [window EXCEPT ![c].cells[s] = None]
  /\ UNCHANGED <<alive, queue, gone, faults>>

\* TakeItemFromCell: the row is deleted, and a clone of the copy given.
TakeItemFromCell(c, s) ==
  /\ \/ /\ Shown(c, "in", s) /\ inbox[c][s] # None
        /\ inbox' = [inbox EXCEPT ![c][s] = None] /\ UNCHANGED outbox
     \/ /\ Shown(c, "out", s) /\ outbox[c][s] # None /\ ~outbox[c][s].sent
        /\ outbox' = [outbox EXCEPT ![c][s] = None] /\ UNCHANGED inbox
  /\ Gaining(c, Copied(c, s).item)
  /\ window' = [window EXCEPT ![c].cells[s] = None]
  /\ UNCHANGED <<alive, queue, gone, faults>>

\* RemoveItemFromCell: thrown away.
RemoveItemFromCell(c, s) ==
  /\ Shown(c, "in", s) /\ inbox[c][s] # None
  /\ inbox' = [inbox EXCEPT ![c][s] = None]
  /\ gone' = Losing(inbox[c][s].item)
  /\ window' = [window EXCEPT ![c].cells[s] = None]
  /\ UNCHANGED <<alive, bag, purse, outbox, queue, faults>>

-----------------------------------------------------------------------------
(* What there is.                                                          *)

\* An item counts for its own kind, and a sum of gil for as much as it is.
Amount(item, k) ==
  IF k = Gil THEN IF item \in Goods THEN 0 ELSE item
  ELSE IF item = k THEN 1 ELSE 0

\* What is in a cell of both boxes: a row that was sent is only a receipt.
InCell(c, s, k) ==
    (IF outbox[c][s] = None \/ outbox[c][s].sent THEN 0 ELSE Amount(outbox[c][s].item, k))
  + (IF inbox[c][s] = None THEN 0 ELSE Amount(inbox[c][s].item, k))

\* What a character has of a good, or of gil, in the bag, the boxes and the queue.
Holds(c, k) ==
    (IF k = Gil THEN purse[c] ELSE bag[c][k])
  + SumFunction([s \in Cells |-> InCell(c, s, k)])
  + SumFunction([i \in DOMAIN queue[c] |-> Amount(queue[c][i].item, k)])

InMail(k) == SumFunction([c \in Chars |-> Holds(c, k)])

\* char_delete: the character's rows go, and what it had listed at the auction
\* house; receipts of mail it has not fetched become items to be sent again.
DeleteChar(c, listed) ==
  LET Back(row) == row # None /\ row.to = c /\ row.sent /\ ~row.received
      Returned(d, k) == SumFunction([s \in Cells |->
        IF d # c /\ Back(outbox[d][s]) THEN Amount(outbox[d][s].item, k) ELSE 0])
      Lost(k) == Holds(c, k) + listed[k] - SumFunction([d \in Chars |-> Returned(d, k)])
  IN  /\ c \in alive /\ window[c].box = "none"
      /\ Cardinality(Chars \ alive) < MaxDeletions
      /\ alive' = alive \ {c}
      /\ bag' = [bag EXCEPT ![c] = [g \in Goods |-> 0]] /\ purse' = [purse EXCEPT ![c] = 0]
      /\ outbox' = [d \in Chars |-> IF d = c THEN NoCells ELSE
           [s \in Cells |-> IF Back(outbox[d][s]) THEN [outbox[d][s] EXCEPT !.sent = FALSE]
                            ELSE outbox[d][s]]]
      /\ inbox' = [inbox EXCEPT ![c] = NoCells]
      /\ queue' = [queue EXCEPT ![c] = <<>>]
      /\ gone' = [k \in Goods \cup {Gil} |-> gone[k] + Lost(k)]
      /\ UNCHANGED <<window, faults>>

\* What the handlers of packet 0x04D do.
BoxNext == \E c \in Chars :
  \/ \E box \in {"out", "in"} : Open(c, box)
  \/ Close(c) \/ SendOldItems(c) \/ RemoveDelivered(c)
  \/ \E s \in Cells :
       \/ \E g \in Goods, r \in Chars \ {c} : AddItemsToBeSent(c, s, g, r)
       \/ SendConfirmation(c, s) \/ CancelSendingItem(c, s) \/ CancelFails(c, s)
       \/ SendNewItems(c, s) \/ ReturnToSender(c, s)
       \/ TakeItemFromCell(c, s) \/ RemoveItemFromCell(c, s)

-----------------------------------------------------------------------------
(* Properties.                                                             *)

\* A sender who takes a mail back finds it: there are as many mails on their
\* way as receipts not marked yet, though mail is matched by sender and item
\* only, comes back from its receivers, and CancelSendingItem does not look
\* whether it has deleted one.
CancelFindsTheMail ==
  \A a \in alive, b \in alive, g \in Goods :
    Cardinality({s \in Cells : /\ outbox[a][s] # None /\ outbox[a][s].to = b
                               /\ outbox[a][s].item = g
                               /\ outbox[a][s].sent /\ ~outbox[a][s].received})
      <= Cardinality({i \in DOMAIN queue[b] : queue[b][i] = [item |-> g, from |-> a]})

\* What a window shows of a cell with a row is what the row holds, and to whom
\* it goes: TakeItemFromCell and ReturnToSender hand out the copy for the row.
WindowsShowRows ==
  \A c \in Chars, s \in Cells : window[c].cells[s] # None =>
    /\ window[c].box = "out" /\ outbox[c][s] # None =>
         Copied(c, s).item = outbox[c][s].item /\ Copied(c, s).to = outbox[c][s].to
    /\ window[c].box = "in" /\ inbox[c][s] # None => Copied(c, s).item = inbox[c][s].item
=============================================================================
