-------------------------- MODULE PartySystem_proofs --------------------------
(***************************************************************************)
(* Proofs about parties, for any number of characters, processes, acts and *)
(* crashes: the types, however hasty the players are; and, while they act  *)
(* only when messages and ticks are done, that no party has two leaders,   *)
(* that the copies follow the rows, that a party keeps a leader for as     *)
(* long as it has members, and that it never has too many.                 *)
(*                                                                         *)
(* None of these is inductive.  PartyInv says what the copies may be while *)
(* messages are under way: every copy knows its leader by its id, old as   *)
(* the id may be (Leads); whoever is not in the copy of its party is       *)
(* marked, or a reload is on its way to it (LateAreTold); the members of a *)
(* copy agree (Agree), and nobody else has the id it had before (StaleOK), *)
(* so that whichever of its members comes first brings it up to date; and  *)
(* while an answer is awaited, nothing else is under way (AnswerAlone).    *)
(*                                                                         *)
(* CareInv says the same of the rows: every party has its leader among its *)
(* members and no more of them than allowed (Cared), but for those that    *)
(* the code leaves behind (abandoned), all of a party or none, and for the *)
(* members of a party that has ended, to whom that is still to be told     *)
(* (Doomed).  A handler is judged by Heeded, a removal by Cuts, a new      *)
(* member by Joins.                                                        *)
(***************************************************************************)
EXTENDS PartySystem, FiniteSetTheorems, FunctionTheorems, TLAPS


Worlds ==
  [party  : [Chars -> Objects \cup {None}],
   cparty : [Objects -> CParty \cup {None}],
   rows   : [Chars -> Row \cup {None}],
   reload : [Chars -> BOOLEAN],
   sent   : Seq(Message),
   lost   : SUBSET Chars]

\* What every world is: who has a party has an object that is used.
Proper(w) == /\ w \in Worlds
             /\ \A c \in Chars : w.party[c] # None => w.cparty[w.party[c]] # None

LEMMA UnusedIsFree ==
  ASSUME PartyAssumption, NoneAssumption, NEW w \in Worlds, NEW c \in Chars, w.party[c] = None
  PROVE  /\ Unused(w) \in Objects
         /\ Members(w, Unused(w)) = {}
<1>1. /\ IsFiniteSet(Chars) /\ Cardinality(Chars) \in Nat
      /\ IsFiniteSet(Chars \ {c}) /\ Cardinality(Chars \ {c}) = Cardinality(Chars) - 1
  BY FS_CardinalityType, FS_RemoveElement DEF PartyAssumption
<1>2. Cardinality(Objects) = Cardinality(Chars)
  <2>1. 1 \in Int /\ Cardinality(Chars) \in Int /\ Cardinality(Chars) >= 0  BY <1>1
  <2>2. Cardinality(1..Cardinality(Chars)) =
          IF 1 > Cardinality(Chars) THEN 0 ELSE Cardinality(Chars) - 1 + 1
    BY <2>1, FS_Interval
  <2> QED  BY <2>1, <2>2 DEF Objects
<1>3. ASSUME \A o \in Objects : Members(w, o) # {}  PROVE FALSE
  <2> DEFINE S == Chars \ {c}
             f == [d \in S |-> w.party[d]]
             T == {f[d] : d \in S}
  <2>1. f \in Surjection(S, T)
    BY DEF Surjection
  <2>2. IsFiniteSet(T) /\ Cardinality(T) <= Cardinality(S)
    BY <2>1, <1>1, FS_Surjection
  <2>3. Objects \subseteq T
    <3>1. SUFFICES ASSUME NEW o \in Objects PROVE o \in T
      OBVIOUS
    <3>2. PICK d \in Chars : w.party[d] = o
      BY <1>3 DEF Members
    <3>3. d # c
      BY <3>2 DEF NoneAssumption
    <3> QED  BY <3>2, <3>3
  <2>4. Cardinality(Objects) <= Cardinality(T)
    BY <2>2, <2>3, FS_Subset
  <2>5. Cardinality(T) \in Nat
    BY <2>2, FS_CardinalityType
  <2> HIDE DEF S, f, T
  <2> QED  BY <2>2, <2>4, <2>5, <1>1, <1>2 DEF S
<1>4. \E o \in Objects : Members(w, o) = {}
  BY <1>3
<1> QED  BY <1>4 DEF Unused

Sends(w, v, m) == v.sent = Append(w.sent, m)

LEMMA MarkedIs ==
  ASSUME NEW w \in Worlds, NEW S
  PROVE  /\ Marked(w, S) \in Worlds
         /\ Marked(w, S).party = w.party /\ Marked(w, S).cparty = w.cparty
         /\ Marked(w, S).rows = w.rows
         /\ Marked(w, S).sent = w.sent /\ Marked(w, S).lost = w.lost
         /\ \A c \in Chars : Marked(w, S).reload[c] <=> w.reload[c] \/ (c \in S /\ stage[c] = "in")
BY DEF Marked, Worlds

LEMMA SendingIs ==
  ASSUME NEW w \in Worlds, NEW m \in Message
  PROVE  /\ Sending(w, m) \in Worlds
         /\ Sending(w, m).party = w.party /\ Sending(w, m).cparty = w.cparty
         /\ Sending(w, m).rows = w.rows /\ Sending(w, m).reload = w.reload
         /\ Sends(w, Sending(w, m), m) /\ Sending(w, m).lost = w.lost
<1>1. w.sent \in Seq(Message)
  BY DEF Worlds
<1> DEFINE s == Append(w.sent, m)
<1>2. s \in Seq(Message)
  BY <1>1
<1>3. Sending(w, m) = [w EXCEPT !.sent = s]
  BY DEF Sending, Worlds
<1> HIDE DEF s
<1>4. /\ Sending(w, m) \in Worlds
      /\ Sending(w, m).party = w.party /\ Sending(w, m).cparty = w.cparty
      /\ Sending(w, m).rows = w.rows /\ Sending(w, m).reload = w.reload
      /\ Sending(w, m).sent = s /\ Sending(w, m).lost = w.lost
  BY <1>2, <1>3 DEF Worlds
<1> QED  BY <1>4 DEF s, Sends

LEMMA WithoutIs ==
  ASSUME NEW w \in Worlds, NEW S
  PROVE  /\ Without(w, S) \in Worlds
         /\ Without(w, S).party = w.party /\ Without(w, S).cparty = w.cparty
         /\ Without(w, S).reload = w.reload
         /\ Without(w, S).sent = w.sent /\ Without(w, S).lost = w.lost
         /\ \A c \in Chars : Without(w, S).rows[c] = IF c \in S THEN None ELSE w.rows[c]
BY DEF Without, Worlds

LEMMA NotNone ==
  ASSUME NoneAssumption
  PROVE  /\ \A id \in Chars, l \in BOOLEAN :
               LET r == [party |-> id, leader |-> l] IN r \in Row /\ r # None
         /\ \A id \in Chars, l \in Chars \cup {None} :
               LET r == [id |-> id, leader |-> l] IN r \in CParty /\ r # None
<1>1. \A id \in Chars, l \in BOOLEAN : [party |-> id, leader |-> l] \in Row
  BY DEF Row
<1>2. \A id \in Chars, l \in Chars \cup {None} : [id |-> id, leader |-> l] \in CParty
  BY DEF CParty
<1>3. None \notin Row /\ None \notin CParty
  BY NoneAssumption DEF NoneAssumption
<1> QED  BY <1>1, <1>2, <1>3

LEMMA SetLeaderIs ==
  ASSUME NoneAssumption, NEW w \in Worlds, NEW o \in Objects, w.cparty[o] # None, NEW c \in Chars
  PROVE  LET v == SetLeader(w, o, c)
             i == w.cparty[o].id
         IN  /\ v \in Worlds /\ v.party = w.party /\ v.sent = w.sent /\ v.lost = w.lost
             /\ v.cparty[o] # None /\ v.cparty[o].id = c
             /\ v.cparty[o].leader = IF w.party[c] = o THEN c ELSE None
             /\ \A q \in Objects : q # o => v.cparty[q] = w.cparty[q]
             /\ \A d \in Chars : v.reload[d] <=> w.reload[d] \/ (w.party[d] = o /\ stage[d] = "in")
             /\ \A d \in Chars : v.rows[d] = None <=> w.rows[d] = None
             /\ \A d \in Chars : w.rows[d] # None =>
                   /\ v.rows[d].party = IF w.rows[d].party = i THEN c ELSE w.rows[d].party
                   /\ v.rows[d].leader <=> d = c \/ (w.rows[d].leader /\ w.rows[d].party # i)
<1> DEFINE id == w.cparty[o].id
           Renamed(d) == IF w.rows[d].party = id THEN [party |-> c, leader |-> FALSE] ELSE w.rows[d]
           Led(d) == IF d = c THEN [Renamed(d) EXCEPT !.leader = TRUE] ELSE Renamed(d)
           R == [d \in Chars |-> IF w.rows[d] = None THEN None ELSE Led(d)]
           e == [id |-> c, leader |-> IF w.party[c] = o THEN c ELSE None]
           C == [w.cparty EXCEPT ![o] = e]
           u == [w EXCEPT !.rows = R, !.cparty = C]
           v == Marked(u, Members(w, o))
<1>1. SetLeader(w, o, c) = v
  BY DEF SetLeader, Worlds
<1>2. \A d \in Chars : w.rows[d] # None =>
        /\ Led(d) \in Row
        /\ Led(d).party = IF w.rows[d].party = id THEN c ELSE w.rows[d].party
        /\ Led(d).leader <=> d = c \/ (w.rows[d].leader /\ w.rows[d].party # id)
  <2>1. SUFFICES ASSUME NEW d \in Chars, w.rows[d] # None
                 PROVE  /\ Led(d) \in Row
                        /\ Led(d).party = IF w.rows[d].party = id THEN c ELSE w.rows[d].party
                        /\ Led(d).leader <=> d = c \/ (w.rows[d].leader /\ w.rows[d].party # id)
    OBVIOUS
  <2> DEFINE r == Renamed(d)
  <2>2. w.rows[d] \in Row
    BY <2>1 DEF Worlds
  <2>3. /\ r \in Row
        /\ r.party = IF w.rows[d].party = id THEN c ELSE w.rows[d].party
        /\ r.leader <=> w.rows[d].leader /\ w.rows[d].party # id
    BY <2>2 DEF Row
  <2>4. Led(d) = IF d = c THEN [r EXCEPT !.leader = TRUE] ELSE r
    OBVIOUS
  <2> HIDE DEF r, Led
  <2> QED  BY <2>3, <2>4 DEF Row
<1>3. e \in CParty /\ e # None /\ e.id = c /\ e.leader = IF w.party[c] = o THEN c ELSE None
  BY NotNone
<1> HIDE DEF e
<1>4. R \in [Chars -> Row \cup {None}] /\ C \in [Objects -> CParty \cup {None}]
  BY <1>2, <1>3 DEF Worlds
<1>5. C[o] = e /\ \A q \in Objects : q # o => C[q] = w.cparty[q]
  BY DEF Worlds
<1>6. u \in Worlds /\ u.party = w.party /\ u.cparty = C /\ u.rows = R /\ u.reload = w.reload
      /\ u.sent = w.sent /\ u.lost = w.lost
  BY <1>4 DEF Worlds
<1>7. \A d \in Chars : d \in Members(w, o) <=> w.party[d] = o
  BY DEF Members
<1> HIDE DEF R, C, u, Led
<1>8. \A d \in Chars : R[d] = IF w.rows[d] = None THEN None ELSE Led(d)
  BY DEF R
<1>9. \A d \in Chars : w.rows[d] # None => Led(d) # None
  BY <1>2, NoneAssumption DEF NoneAssumption
<1>10. /\ v \in Worlds /\ v.party = u.party /\ v.cparty = u.cparty /\ v.rows = u.rows
       /\ v.sent = u.sent /\ v.lost = u.lost
       /\ \A d \in Chars : v.reload[d] <=> u.reload[d] \/ (d \in Members(w, o) /\ stage[d] = "in")
  BY <1>6, MarkedIs
<1> HIDE DEF v
<1>11. v \in Worlds /\ v.party = w.party /\ v.sent = w.sent /\ v.lost = w.lost
  BY <1>6, <1>10
<1>12. /\ v.cparty[o] # None /\ v.cparty[o].id = c
       /\ v.cparty[o].leader = IF w.party[c] = o THEN c ELSE None
       /\ \A q \in Objects : q # o => v.cparty[q] = w.cparty[q]
  BY <1>3, <1>5, <1>6, <1>10
<1>13. \A d \in Chars : v.reload[d] <=> w.reload[d] \/ (w.party[d] = o /\ stage[d] = "in")
  BY <1>6, <1>7, <1>10
<1>14. \A d \in Chars : v.rows[d] = IF w.rows[d] = None THEN None ELSE Led(d)
  BY <1>6, <1>8, <1>10
<1>15. \A d \in Chars : v.rows[d] = None <=> w.rows[d] = None
  BY <1>9, <1>14
<1>16. \A d \in Chars : w.rows[d] # None =>
          /\ v.rows[d].party = IF w.rows[d].party = id THEN c ELSE w.rows[d].party
          /\ v.rows[d].leader <=> d = c \/ (w.rows[d].leader /\ w.rows[d].party # id)
  BY <1>2, <1>14
<1> QED  BY <1>1, <1>11, <1>12, <1>13, <1>15, <1>16

LEMMA InsertedIs ==
  ASSUME NoneAssumption, NEW w \in Worlds, NEW c \in Chars, NEW id \in Chars
  PROVE  LET v == Inserted(w, c, id)
         IN  /\ v \in Worlds /\ v.party = w.party /\ v.cparty = w.cparty
             /\ v.reload = w.reload /\ v.sent = w.sent /\ v.lost = w.lost
             /\ \A d \in Chars : d # c \/ w.rows[d] # None \/ server[d] = None => v.rows[d] = w.rows[d]
             /\ w.rows[c] = None /\ server[c] # None =>
                  v.rows[c] # None /\ v.rows[c].party = id /\ ~v.rows[c].leader
<1> DEFINE r == [party |-> id, leader |-> FALSE]
           R == [w.rows EXCEPT ![c] = r]
           v == Inserted(w, c, id)
<1>1. r \in Row /\ r # None /\ r.party = id /\ ~r.leader
  BY NotNone
<1> HIDE DEF r
<1>2. R \in [Chars -> Row \cup {None}] /\ R[c] = r /\ \A d \in Chars : d # c => R[d] = w.rows[d]
  BY <1>1 DEF Worlds
<1>3. v = IF w.rows[c] # None \/ server[c] = None THEN w ELSE [w EXCEPT !.rows = R]
  BY DEF Inserted, Worlds, r
<1> HIDE DEF R, v
<1>4. CASE w.rows[c] # None \/ server[c] = None
  BY <1>3, <1>4 DEF v
<1>5. CASE ~(w.rows[c] # None \/ server[c] = None)
  <2>1. /\ v \in Worlds /\ v.party = w.party /\ v.cparty = w.cparty /\ v.rows = R
        /\ v.reload = w.reload /\ v.sent = w.sent /\ v.lost = w.lost
    BY <1>2, <1>3, <1>5 DEF Worlds
  <2> QED  BY <1>1, <1>2, <1>5, <2>1 DEF v
<1> QED  BY <1>4, <1>5

LEMMA ReloadingIsMessage ==
  \A id \in Chars : Reloading(id) \in Message
BY DEF Reloading, Message

\* w with c in the party of the object o.
LEMMA AddedIs ==
  ASSUME NoneAssumption, NEW w \in Worlds, NEW o \in Objects, w.cparty[o] # None, NEW c \in Chars
  PROVE  LET v == Added(w, o, c)
             id == w.cparty[o].id
         IN  /\ v \in Worlds /\ v.cparty = w.cparty /\ v.lost = w.lost
             /\ Sends(w, v, Reloading(id))
             /\ v.party[c] = o /\ \A d \in Chars \ {c} : v.party[d] = w.party[d]
             /\ \A d \in Chars : v.reload[d] <=> w.reload[d] \/ (d = c /\ stage[d] = "in")
             /\ \A d \in Chars : d # c \/ w.rows[d] # None \/ server[d] = None => v.rows[d] = w.rows[d]
             /\ w.rows[c] = None /\ server[c] # None =>
                  v.rows[c] # None /\ v.rows[c].party = id /\ ~v.rows[c].leader
<1> DEFINE i == w.cparty[o].id
           w1 == [w EXCEPT !.party[c] = o]
           w2 == Inserted(w1, c, i)
           w3 == Sending(w2, Reloading(i))
           v  == Marked(w3, {c})
<1>1. i \in Chars
  BY DEF Worlds, CParty
<1>2. /\ w1 \in Worlds
      /\ w1.party[c] = o /\ \A d \in Chars \ {c} : w1.party[d] = w.party[d]
      /\ w1.cparty = w.cparty /\ w1.rows = w.rows
      /\ w1.reload = w.reload /\ w1.sent = w.sent /\ w1.lost = w.lost
  BY DEF Worlds
<1>3. Added(w, o, c) = v
  BY DEF Added
<1> HIDE DEF w1, i
<1>4. /\ w2 \in Worlds /\ w2.party = w1.party /\ w2.cparty = w1.cparty
      /\ w2.reload = w1.reload /\ w2.sent = w1.sent /\ w2.lost = w1.lost
      /\ \A d \in Chars : d # c \/ w1.rows[d] # None \/ server[d] = None => w2.rows[d] = w1.rows[d]
      /\ w1.rows[c] = None /\ server[c] # None =>
           w2.rows[c] # None /\ w2.rows[c].party = i /\ ~w2.rows[c].leader
  BY <1>1, <1>2, InsertedIs
<1> HIDE DEF w2
<1>5. /\ w3 \in Worlds
      /\ w3.party = w2.party /\ w3.cparty = w2.cparty /\ w3.rows = w2.rows
      /\ w3.reload = w2.reload /\ Sends(w2, w3, Reloading(i)) /\ w3.lost = w2.lost
  BY <1>1, <1>4, SendingIs, ReloadingIsMessage
<1> HIDE DEF w3
<1>6. /\ v \in Worlds /\ v.party = w3.party /\ v.cparty = w3.cparty /\ v.rows = w3.rows
      /\ v.sent = w3.sent /\ v.lost = w3.lost
      /\ \A d \in Chars : v.reload[d] <=> w3.reload[d] \/ (d \in {c} /\ stage[d] = "in")
  BY <1>5, MarkedIs
<1> HIDE DEF v
<1>7. Sends(w, v, Reloading(i))
  BY <1>2, <1>4, <1>5, <1>6 DEF Sends
<1>8. /\ v \in Worlds /\ v.cparty = w.cparty /\ v.lost = w.lost
      /\ v.party[c] = o /\ \A d \in Chars \ {c} : v.party[d] = w.party[d]
      /\ \A d \in Chars : v.reload[d] <=> w.reload[d] \/ (d = c /\ stage[d] = "in")
  BY <1>2, <1>4, <1>5, <1>6
<1>9. /\ \A d \in Chars : d # c \/ w.rows[d] # None \/ server[d] = None => v.rows[d] = w.rows[d]
      /\ w.rows[c] = None /\ server[c] # None =>
           v.rows[c] # None /\ v.rows[c].party = i /\ ~v.rows[c].leader
  BY <1>2, <1>4, <1>5, <1>6
<1> QED  BY <1>3, <1>7, <1>8, <1>9 DEF i

LEMMA AddedByIdIs ==
  ASSUME NoneAssumption, NEW w \in Worlds, NEW o \in Objects, w.cparty[o] # None, NEW c \in Chars,
         ~IsFull(w, o)
  PROVE  LET v == AddedById(w, o, c)
             id == w.cparty[o].id
         IN  /\ v \in Worlds /\ v.party = w.party /\ v.cparty = w.cparty
             /\ v.reload = w.reload /\ v.lost = w.lost
             /\ Sends(w, v, Reloading(id))
             /\ \A d \in Chars : d # c \/ w.rows[d] # None \/ server[d] = None => v.rows[d] = w.rows[d]
             /\ w.rows[c] = None /\ server[c] # None =>
                  v.rows[c] # None /\ v.rows[c].party = id /\ ~v.rows[c].leader
<1> DEFINE i == w.cparty[o].id
           w2 == Inserted(w, c, i)
           v == Sending(w2, Reloading(i))
<1>1. i \in Chars
  BY DEF Worlds, CParty
<1>2. AddedById(w, o, c) = v
  BY DEF AddedById
<1> HIDE DEF i
<1>3. /\ w2 \in Worlds /\ w2.party = w.party /\ w2.cparty = w.cparty
      /\ w2.reload = w.reload /\ w2.sent = w.sent /\ w2.lost = w.lost
      /\ \A d \in Chars : d # c \/ w.rows[d] # None \/ server[d] = None => w2.rows[d] = w.rows[d]
      /\ w.rows[c] = None /\ server[c] # None =>
           w2.rows[c] # None /\ w2.rows[c].party = i /\ ~w2.rows[c].leader
  BY <1>1, InsertedIs
<1> HIDE DEF w2
<1>4. /\ v \in Worlds
      /\ v.party = w2.party /\ v.cparty = w2.cparty /\ v.rows = w2.rows
      /\ v.reload = w2.reload /\ Sends(w2, v, Reloading(i)) /\ v.lost = w2.lost
  BY <1>1, <1>3, SendingIs, ReloadingIsMessage
<1> HIDE DEF v
<1>5. Sends(w, v, Reloading(i))
  BY <1>3, <1>4 DEF Sends
<1> QED  BY <1>2, <1>3, <1>4, <1>5 DEF i

LEMMA FoundedIs ==
  ASSUME PartyAssumption, NoneAssumption,
         NEW w \in Worlds, NEW c \in Chars, w.party[c] = None
  PROVE  LET v == Founded(w, c)
             o == Unused(w)
         IN  /\ v \in Worlds /\ v.lost = w.lost
             /\ o \in Objects /\ \A d \in Chars : w.party[d] # o
             /\ v.party[c] = o /\ \A d \in Chars \ {c} : v.party[d] = w.party[d]
             /\ v.cparty[o] # None /\ v.cparty[o].id = c /\ v.cparty[o].leader = c
             /\ \A q \in Objects : q # o => v.cparty[q] = w.cparty[q]
             /\ Sends(w, v, Reloading(c))
             /\ \A d \in Chars : v.reload[d] <=> w.reload[d] \/ (d = c /\ stage[d] = "in")
             /\ \A d \in Chars \ {c} : v.rows[d] = None <=> w.rows[d] = None
             /\ \A d \in Chars \ {c} : w.rows[d] # None =>
                   /\ v.rows[d].party = w.rows[d].party
                   /\ v.rows[d].leader <=> w.rows[d].leader /\ w.rows[d].party # c
             /\ w.rows[c] = None /\ server[c] # None =>
                   v.rows[c] # None /\ v.rows[c].party = c /\ v.rows[c].leader
<1> DEFINE o == Unused(w)
           e == [id |-> c, leader |-> None]
           w1 == [w EXCEPT !.cparty[o] = e]
           w2 == Added(w1, o, c)
           v  == SetLeader(w2, o, c)
<1>1. o \in Objects /\ \A d \in Chars : w.party[d] # o
  BY UnusedIsFree DEF Members
<1>2. e \in CParty /\ e # None /\ e.id = c
  BY NotNone
<1>3. Founded(w, c) = v
  BY DEF Founded
<1> HIDE DEF o, e
<1>4. /\ w1 \in Worlds /\ w1.party = w.party /\ w1.rows = w.rows
      /\ w1.cparty[o] = e /\ \A q \in Objects : q # o => w1.cparty[q] = w.cparty[q]
      /\ w1.reload = w.reload /\ w1.sent = w.sent /\ w1.lost = w.lost
  BY <1>1, <1>2 DEF Worlds
<1> HIDE DEF w1
<1>5. w1.cparty[o] # None /\ w1.cparty[o].id = c
  BY <1>2, <1>4
<1>6. /\ w2 \in Worlds /\ w2.cparty = w1.cparty /\ w2.lost = w1.lost
      /\ Sends(w1, w2, Reloading(w1.cparty[o].id))
      /\ w2.party[c] = o /\ \A d \in Chars \ {c} : w2.party[d] = w1.party[d]
      /\ \A d \in Chars : w2.reload[d] <=> w1.reload[d] \/ (d = c /\ stage[d] = "in")
      /\ \A d \in Chars : d # c \/ w1.rows[d] # None \/ server[d] = None => w2.rows[d] = w1.rows[d]
      /\ w1.rows[c] = None /\ server[c] # None =>
           w2.rows[c] # None /\ w2.rows[c].party = w1.cparty[o].id /\ ~w2.rows[c].leader
  BY <1>1, <1>4, <1>5, AddedIs
<1> HIDE DEF w2
<1>7. w2.cparty[o] # None /\ w2.cparty[o].id = c
  BY <1>5, <1>6
<1>8. \A d \in Chars : w2.party[d] = o => d = c
  BY <1>1, <1>4, <1>6
<1>9. /\ v \in Worlds /\ v.party = w2.party /\ v.sent = w2.sent /\ v.lost = w2.lost
      /\ v.cparty[o] # None /\ v.cparty[o].id = c
      /\ v.cparty[o].leader = IF w2.party[c] = o THEN c ELSE None
      /\ \A q \in Objects : q # o => v.cparty[q] = w2.cparty[q]
      /\ \A d \in Chars : v.reload[d] <=> w2.reload[d] \/ (w2.party[d] = o /\ stage[d] = "in")
      /\ \A d \in Chars : v.rows[d] = None <=> w2.rows[d] = None
      /\ \A d \in Chars : w2.rows[d] # None =>
            /\ v.rows[d].party = IF w2.rows[d].party = w2.cparty[o].id THEN c ELSE w2.rows[d].party
            /\ v.rows[d].leader <=> d = c \/ (w2.rows[d].leader /\ w2.rows[d].party # w2.cparty[o].id)
  BY <1>1, <1>6, <1>7, SetLeaderIs
<1> HIDE DEF v
<1>10. \A d \in Chars : v.reload[d] <=> w.reload[d] \/ (d = c /\ stage[d] = "in")
  BY <1>4, <1>6, <1>8, <1>9
<1>11. \A d \in Chars \ {c} : w2.rows[d] = w.rows[d]
  BY <1>4, <1>6
<1>12. /\ \A d \in Chars \ {c} : v.rows[d] = None <=> w.rows[d] = None
       /\ \A d \in Chars \ {c} : w.rows[d] # None =>
             /\ v.rows[d].party = w.rows[d].party
             /\ v.rows[d].leader <=> w.rows[d].leader /\ w.rows[d].party # c
  BY <1>7, <1>9, <1>11
<1>13. w.rows[c] = None /\ server[c] # None =>
          v.rows[c] # None /\ v.rows[c].party = c /\ v.rows[c].leader
  BY <1>4, <1>5, <1>6, <1>7, <1>9
<1>14. /\ v \in Worlds /\ v.lost = w.lost
       /\ v.party[c] = o /\ \A d \in Chars \ {c} : v.party[d] = w.party[d]
       /\ v.cparty[o] # None /\ v.cparty[o].id = c /\ v.cparty[o].leader = c
       /\ \A q \in Objects : q # o => v.cparty[q] = w.cparty[q]
  BY <1>4, <1>6, <1>9
<1>15. Sends(w, v, Reloading(c))
  BY <1>4, <1>5, <1>6, <1>9 DEF Sends
<1> QED  BY <1>1, <1>3, <1>10, <1>12, <1>13, <1>14, <1>15 DEF o

\* What is as it was in the object q and in all others but o.
OthersKept(w, v, o) == \A q \in Objects : q # o => v.cparty[q] = w.cparty[q]

\* Those who are missed share a party with one of S, which it leads, and which
\* is not that of o.
LEMMA MissedIs ==
  ASSUME NEW w, NEW o, NEW S
  PROVE  /\ Missed(w, o, S) \in SUBSET Chars
         /\ \A d \in Chars : d \in Missed(w, o, S) <=>
              \E c \in S : /\ w.rows[c] # None /\ w.rows[c].leader
                          /\ w.rows[c].party # w.cparty[o].id
                          /\ d # c /\ d \in RowsOf(w, w.rows[c].party)
<1>1. \A c : Orphans(w, c) \in SUBSET Chars
  BY DEF Orphans, RowsOf
<1>2. Missed(w, o, S) \in SUBSET Chars
  BY <1>1 DEF Missed
<1>3. ASSUME NEW d \in Chars
      PROVE  d \in Missed(w, o, S) <=>
              \E c \in S : /\ w.rows[c] # None /\ w.rows[c].leader
                          /\ w.rows[c].party # w.cparty[o].id
                          /\ d # c /\ d \in RowsOf(w, w.rows[c].party)
  BY DEF Missed, Orphans
<1> QED  BY <1>2, <1>3

\* v is w without the object o, its members here and their rows.
DisbandedAs(w, o, v) ==
  /\ v \in Worlds
  /\ \A d \in Chars : v.party[d] = IF w.party[d] = o THEN None ELSE w.party[d]
  /\ \A d \in Chars : v.rows[d] = IF w.party[d] = o THEN None ELSE w.rows[d]
  /\ v.cparty[o] = None /\ OthersKept(w, v, o)
  /\ \A d \in Chars : v.reload[d] <=> w.reload[d] \/ (w.party[d] = o /\ stage[d] = "in")
  /\ \A d \in Chars : d \in v.lost <=>
        \/ d \in w.lost
        \/ d \in RowsOf(w, w.cparty[o].id) /\ w.party[d] # o /\ stage[d] # "in"
        \/ d \in Missed(w, o, Members(w, o))

Disbanding(id) == [type |-> "Disband", party |-> id]

LEMMA EitherDisbandedIs ==
  ASSUME NoneAssumption, NEW w \in Worlds, NEW o \in Objects, w.cparty[o] # None, NEW b \in BOOLEAN
  PROVE  LET v == Disbanded(w, o, b)
         IN  /\ DisbandedAs(w, o, v)
             /\ IF b THEN Sends(w, v, Disbanding(w.cparty[o].id)) ELSE v.sent = w.sent
<1> DEFINE id == w.cparty[o].id
           all == Members(w, o)
           w0 == Without(w, all)
           P == [c \in Chars |-> IF c \in all THEN None ELSE w.party[c]]
           C == [w.cparty EXCEPT ![o] = None]
           missed == Missed(w, o, all)
           L == w.lost \cup {c \in RowsOf(w, id) \ all : stage[c] # "in"} \cup missed
           w1 == [w0 EXCEPT !.party = P, !.cparty = C, !.lost = L]
           w2 == Marked(w1, all)
           m == [type |-> "Disband", party |-> id]
           v == IF b THEN Sending(w2, m) ELSE w2
<1>1. id \in Chars
  BY DEF Worlds, CParty
<1>2. m \in Message
  BY <1>1 DEF Message
<1>3. \A d \in Chars : d \in all <=> w.party[d] = o
  BY DEF Members
<1>4. /\ w0 \in Worlds /\ w0.party = w.party /\ w0.cparty = w.cparty
      /\ w0.reload = w.reload /\ w0.sent = w.sent /\ w0.lost = w.lost
      /\ \A c \in Chars : w0.rows[c] = IF c \in all THEN None ELSE w.rows[c]
  BY WithoutIs
<1>16. missed \in SUBSET Chars
  BY MissedIs
<1>5. Disbanded(w, o, b) = v
  <2> HIDE DEF missed
  <2>1. [w0 EXCEPT !.party = [c \in Chars |-> IF c \in all THEN None ELSE @[c]],
                   !.cparty[o] = None,
                   !.lost = @ \cup {c \in RowsOf(w, id) \ all : stage[c] # "in"} \cup missed] = w1
    BY <1>4 DEF Worlds
  <2> QED  BY <2>1 DEF Disbanded, missed
<1> HIDE DEF missed
<1>6. P \in [Chars -> Objects \cup {None}] /\ C \in [Objects -> CParty \cup {None}] /\ L \in SUBSET Chars
  BY <1>16 DEF Worlds, RowsOf
<1>7. /\ \A d \in Chars : P[d] = IF w.party[d] = o THEN None ELSE w.party[d]
      /\ C[o] = None /\ \A q \in Objects : q # o => C[q] = w.cparty[q]
      /\ \A d \in Chars : d \in L <=> \/ d \in w.lost
                                      \/ d \in RowsOf(w, id) /\ w.party[d] # o /\ stage[d] # "in"
                                      \/ d \in missed
  BY <1>3 DEF Worlds
<1> HIDE DEF P, C, L, w0, all, m, id
<1>8. /\ w1 \in Worlds /\ w1.party = P /\ w1.cparty = C /\ w1.rows = w0.rows
      /\ w1.reload = w0.reload /\ w1.sent = w0.sent /\ w1.lost = L
  BY <1>4, <1>6 DEF Worlds
<1> HIDE DEF w1
<1>9. /\ w2 \in Worlds /\ w2.party = w1.party /\ w2.cparty = w1.cparty /\ w2.rows = w1.rows
      /\ w2.sent = w1.sent /\ w2.lost = w1.lost
      /\ \A d \in Chars : w2.reload[d] <=> w1.reload[d] \/ (d \in all /\ stage[d] = "in")
  BY <1>8, MarkedIs
<1> HIDE DEF w2
<1>10. /\ v \in Worlds /\ v.party = w2.party /\ v.cparty = w2.cparty /\ v.rows = w2.rows
       /\ v.reload = w2.reload /\ v.lost = w2.lost
       /\ IF b THEN Sends(w2, v, m) ELSE v.sent = w2.sent
  <2>1. CASE b
    <3>1. v = Sending(w2, m)
      BY <2>1
    <3>2. /\ Sending(w2, m) \in Worlds
          /\ Sending(w2, m).party = w2.party /\ Sending(w2, m).cparty = w2.cparty
          /\ Sending(w2, m).rows = w2.rows /\ Sending(w2, m).reload = w2.reload
          /\ Sends(w2, Sending(w2, m), m) /\ Sending(w2, m).lost = w2.lost
      BY <1>2, <1>9, SendingIs
    <3> HIDE DEF v
    <3> QED  BY <2>1, <3>1, <3>2
  <2>2. CASE ~b
    BY <2>2, <1>9
  <2> QED  BY <2>1, <2>2
<1> HIDE DEF v
<1>11. IF b THEN Sends(w, v, m) ELSE v.sent = w.sent
  BY <1>4, <1>8, <1>9, <1>10 DEF Sends
<1>12. /\ v \in Worlds
       /\ \A d \in Chars : v.party[d] = IF w.party[d] = o THEN None ELSE w.party[d]
       /\ \A d \in Chars : v.rows[d] = IF w.party[d] = o THEN None ELSE w.rows[d]
       /\ v.cparty[o] = None /\ OthersKept(w, v, o)
  BY <1>3, <1>4, <1>7, <1>8, <1>9, <1>10 DEF OthersKept
<1>13. /\ \A d \in Chars : v.reload[d] <=> w.reload[d] \/ (w.party[d] = o /\ stage[d] = "in")
       /\ \A d \in Chars : d \in v.lost <=>
             \/ d \in w.lost
             \/ d \in RowsOf(w, id) /\ w.party[d] # o /\ stage[d] # "in"
             \/ d \in missed
  BY <1>3, <1>4, <1>7, <1>8, <1>9, <1>10
<1>14. DisbandedAs(w, o, v)
  BY <1>12, <1>13 DEF DisbandedAs, id, missed, all
<1> QED  BY <1>5, <1>11, <1>14 DEF m, id, Disbanding

LEMMA DisbandedIs ==
  ASSUME NoneAssumption, NEW w \in Worlds, NEW o \in Objects, w.cparty[o] # None
  PROVE  /\ DisbandedAs(w, o, Disbanded(w, o, TRUE))
         /\ Sends(w, Disbanded(w, o, TRUE), Disbanding(w.cparty[o].id))
         /\ DisbandedAs(w, o, Disbanded(w, o, FALSE))
         /\ Disbanded(w, o, FALSE).sent = w.sent
<1>1. LET v == Disbanded(w, o, TRUE)
      IN  DisbandedAs(w, o, v) /\ IF TRUE THEN Sends(w, v, Disbanding(w.cparty[o].id)) ELSE v.sent = w.sent
  <2> DEFINE b == TRUE
  <2>1. b \in BOOLEAN  OBVIOUS
  <2> HIDE DEF b
  <2>2. LET v == Disbanded(w, o, b)
        IN  DisbandedAs(w, o, v) /\ IF b THEN Sends(w, v, Disbanding(w.cparty[o].id)) ELSE v.sent = w.sent
    BY <2>1, EitherDisbandedIs
  <2> QED  BY <2>2 DEF b
<1>2. LET v == Disbanded(w, o, FALSE)
      IN  DisbandedAs(w, o, v) /\ IF FALSE THEN Sends(w, v, Disbanding(w.cparty[o].id)) ELSE v.sent = w.sent
  <2> DEFINE b == FALSE
  <2>1. b \in BOOLEAN  OBVIOUS
  <2> HIDE DEF b
  <2>2. LET v == Disbanded(w, o, b)
        IN  DisbandedAs(w, o, v) /\ IF b THEN Sends(w, v, Disbanding(w.cparty[o].id)) ELSE v.sent = w.sent
    BY <2>1, EitherDisbandedIs
  <2> QED  BY <2>2 DEF b
<1> QED  BY <1>1, <1>2

LEMMA UnlinkedIs ==
  ASSUME NoneAssumption, NEW w \in Worlds, NEW c \in Chars, NEW o \in Objects,
         w.party[c] = o, w.cparty[o] # None
  PROVE  LET v == Unlinked(w, c)
         IN  /\ v \in Worlds /\ v.rows = w.rows /\ v.reload = w.reload
             /\ v.sent = w.sent /\ v.lost = w.lost
             /\ v.party[c] = None /\ \A d \in Chars \ {c} : v.party[d] = w.party[d]
             /\ OthersKept(w, v, o)
             /\ v.cparty[o] = None <=> \A d \in Chars \ {c} : w.party[d] # o
             /\ v.cparty[o] # None =>
                   /\ v.cparty[o].id = w.cparty[o].id
                   /\ v.cparty[o].leader = IF w.cparty[o].leader = c THEN None ELSE w.cparty[o].leader
<1> DEFINE v == Unlinked(w, c)
           k == w.cparty[o]
           r == IF k.leader = c THEN [k EXCEPT !.leader = None] ELSE k
           e == IF Members(w, o) = {c} THEN None ELSE r
           C == [w.cparty EXCEPT ![o] = e]
           P == [w.party EXCEPT ![c] = None]
<1>1. k \in CParty
  BY DEF Worlds
<1>2. r \in CParty /\ r.id = k.id /\ r.leader = IF k.leader = c THEN None ELSE k.leader
  BY <1>1 DEF CParty
<1>3. r # None
  BY <1>2, NoneAssumption DEF NoneAssumption
<1>4. Members(w, o) = {c} <=> \A d \in Chars \ {c} : w.party[d] # o
  BY DEF Members
<1>5. v = [w EXCEPT !.party = P, !.cparty = C]
  BY DEF Unlinked, Worlds
<1> HIDE DEF r
<1>6. e \in CParty \cup {None}
  BY <1>2
<1> HIDE DEF e
<1>7. C \in [Objects -> CParty \cup {None}] /\ P \in [Chars -> Objects \cup {None}]
      /\ C[o] = e /\ (\A q \in Objects : q # o => C[q] = w.cparty[q])
      /\ P[c] = None /\ \A d \in Chars \ {c} : P[d] = w.party[d]
  BY <1>6 DEF Worlds
<1> HIDE DEF C, P, v
<1>8. /\ v \in Worlds /\ v.rows = w.rows /\ v.reload = w.reload /\ v.sent = w.sent
      /\ v.lost = w.lost /\ v.party = P /\ v.cparty = C
  BY <1>5, <1>7 DEF Worlds
<1>9. e = IF \A d \in Chars \ {c} : w.party[d] # o THEN None ELSE r
  BY <1>4 DEF e
<1>10. v.party[c] = None /\ (\A d \in Chars \ {c} : v.party[d] = w.party[d]) /\ OthersKept(w, v, o)
  BY <1>7, <1>8 DEF OthersKept
<1>11. v.cparty[o] = e
  BY <1>7, <1>8
<1>12. v.cparty[o] = None <=> \A d \in Chars \ {c} : w.party[d] # o
  BY <1>3, <1>9, <1>11
<1>13. v.cparty[o] # None =>
         /\ v.cparty[o].id = w.cparty[o].id
         /\ v.cparty[o].leader = IF w.cparty[o].leader = c THEN None ELSE w.cparty[o].leader
  BY <1>2, <1>9, <1>11
<1> QED  BY <1>8, <1>10, <1>12, <1>13 DEF v

LEMMA LosingIs ==
  ASSUME NEW w \in Worlds, NEW L \in SUBSET Chars
  PROVE  LET v == [w EXCEPT !.lost = L]
         IN  /\ v \in Worlds /\ v.party = w.party /\ v.cparty = w.cparty /\ v.rows = w.rows
             /\ v.sent = w.sent /\ v.reload = w.reload /\ v.lost = L
BY DEF Worlds

LEMMA DroppedIs ==
  ASSUME NoneAssumption, NEW w \in Worlds, NEW c \in Chars, NEW o \in Objects,
         w.party[c] = o, w.cparty[o] # None
  PROVE  LET v == Dropped(w, c)
         IN  /\ v \in Worlds /\ v.reload = w.reload
             /\ Sends(w, v, Reloading(w.cparty[o].id))
             /\ \A d \in Chars : v.rows[d] = IF d = c THEN None ELSE w.rows[d]
             /\ v.party[c] = None /\ \A d \in Chars \ {c} : v.party[d] = w.party[d]
             /\ OthersKept(w, v, o)
             /\ v.cparty[o] = None <=> \A d \in Chars \ {c} : w.party[d] # o
             /\ v.cparty[o] # None =>
                   /\ v.cparty[o].id = w.cparty[o].id
                   /\ v.cparty[o].leader = IF w.cparty[o].leader = c THEN None ELSE w.cparty[o].leader
<1> DEFINE u == Unlinked(w, c)
           x == Without(u, {c})
           L == w.lost \cup Missed(w, o, {c})
           t == [x EXCEPT !.lost = L]
           v == Sending(t, Reloading(w.cparty[o].id))
<1>1. /\ u \in Worlds /\ u.rows = w.rows /\ u.reload = w.reload
      /\ u.sent = w.sent /\ u.lost = w.lost
      /\ u.party[c] = None /\ \A d \in Chars \ {c} : u.party[d] = w.party[d]
      /\ OthersKept(w, u, o)
      /\ u.cparty[o] = None <=> \A d \in Chars \ {c} : w.party[d] # o
      /\ u.cparty[o] # None =>
            /\ u.cparty[o].id = w.cparty[o].id
            /\ u.cparty[o].leader = IF w.cparty[o].leader = c THEN None ELSE w.cparty[o].leader
  BY UnlinkedIs
<1> HIDE DEF u
<1>12. /\ x \in Worlds /\ x.party = u.party /\ x.cparty = u.cparty /\ x.reload = u.reload
      /\ x.sent = u.sent /\ x.lost = u.lost
      /\ \A d \in Chars : x.rows[d] = IF d \in {c} THEN None ELSE u.rows[d]
  BY <1>1, WithoutIs
<1>2. Dropped(w, c) = v
  <2>1. [x EXCEPT !.lost = @ \cup Missed(w, o, {c})] = t
    <3> DEFINE M == Missed(w, o, {c})
    <3> HIDE DEF x, M
    <3>1. [x EXCEPT !.lost = @ \cup M] = [x EXCEPT !.lost = w.lost \cup M]
      BY <1>1, <1>12
    <3> QED  BY <3>1 DEF M
  <2> QED  BY <2>1 DEF Dropped, Id, u
<1>10. L \in SUBSET Chars
  BY MissedIs DEF Worlds
<1> HIDE DEF x, L
<1>11. LET y == [x EXCEPT !.lost = L]
       IN  /\ y \in Worlds /\ y.party = x.party /\ y.cparty = x.cparty /\ y.rows = x.rows
           /\ y.sent = x.sent /\ y.reload = x.reload /\ y.lost = L
  BY <1>12, <1>10, LosingIs
<1>3. /\ t \in Worlds /\ t.party = u.party /\ t.cparty = u.cparty /\ t.reload = u.reload
      /\ t.sent = u.sent /\ t.lost = L
      /\ \A d \in Chars : t.rows[d] = IF d \in {c} THEN None ELSE u.rows[d]
  BY <1>12, <1>11
<1> HIDE DEF t
<1>4. w.cparty[o].id \in Chars
  BY DEF Worlds, CParty
<1>5. /\ v \in Worlds /\ v.party = t.party /\ v.cparty = t.cparty
      /\ v.rows = t.rows /\ v.reload = t.reload
      /\ Sends(t, v, Reloading(w.cparty[o].id)) /\ v.lost = t.lost
  BY <1>3, <1>4, SendingIs, ReloadingIsMessage
<1> HIDE DEF v
<1>6. Sends(w, v, Reloading(w.cparty[o].id))
  BY <1>1, <1>3, <1>5 DEF Sends
<1>7. OthersKept(w, v, o)
  BY <1>1, <1>3, <1>5 DEF OthersKept
<1>8. /\ v \in Worlds /\ v.reload = w.reload
      /\ v.party[c] = None /\ \A d \in Chars \ {c} : v.party[d] = w.party[d]
      /\ \A d \in Chars : v.rows[d] = IF d = c THEN None ELSE w.rows[d]
  BY <1>1, <1>3, <1>5
<1>9. /\ v.cparty[o] = None <=> \A d \in Chars \ {c} : w.party[d] # o
      /\ v.cparty[o] # None =>
            /\ v.cparty[o].id = w.cparty[o].id
            /\ v.cparty[o].leader = IF w.cparty[o].leader = c THEN None ELSE w.cparty[o].leader
  BY <1>1, <1>3, <1>5
<1> QED  BY <1>2, <1>6, <1>7, <1>8, <1>9

LEMMA DroppedLoses ==
  ASSUME NoneAssumption, NEW w \in Worlds, NEW c \in Chars, NEW o \in Objects,
         w.party[c] = o, w.cparty[o] # None
  PROVE  Dropped(w, c).lost = w.lost \cup Missed(w, o, {c})
<1> DEFINE x == Without(Unlinked(w, c), {c})
           M == Missed(w, o, {c})
           t == [x EXCEPT !.lost = @ \cup M]
           m == Reloading(Id(w, c))
<1>1. Unlinked(w, c) \in Worlds /\ Unlinked(w, c).lost = w.lost
  BY UnlinkedIs
<1>2. x \in Worlds /\ x.lost = w.lost
  BY <1>1, WithoutIs
<1>3. Dropped(w, c) = Sending(t, m)
  BY DEF Dropped
<1> HIDE DEF x, M, m
<1>4. t.lost = w.lost \cup M
  BY <1>2 DEF Worlds
<1>5. Sending(t, m).lost = t.lost
  <2>1. DOMAIN t = DOMAIN x
    BY <1>2 DEF Worlds
  <2> QED  BY <1>2, <2>1 DEF Sending, Worlds
<1> QED  BY <1>3, <1>4, <1>5 DEF M

LEMMA RefreshedIs ==
  ASSUME NoneAssumption, NEW w \in Worlds, NEW o \in Objects, w.cparty[o] # None
  PROVE  LET v == Refreshed(w, o)
             l == v.cparty[o].leader
             Lead(c) == /\ w.party[c] = o /\ w.rows[c] # None
                        /\ w.rows[c].party = w.cparty[o].id /\ w.rows[c].leader
         IN  /\ v \in Worlds /\ v.party = w.party /\ v.rows = w.rows
             /\ v.sent = w.sent /\ v.lost = w.lost
             /\ OthersKept(w, v, o)
             /\ v.cparty[o] # None /\ v.cparty[o].id = w.cparty[o].id
             /\ \/ l \in Chars /\ Lead(l)
                \/ l = None /\ \A c \in Chars : ~Lead(c)
             /\ \A d \in Chars : v.reload[d] <=> w.reload[d] /\ w.party[d] # o
<1> DEFINE v == Refreshed(w, o)
           k == w.cparty[o]
           Lead(c) == /\ w.party[c] = o /\ w.rows[c] # None
                      /\ w.rows[c].party = k.id /\ w.rows[c].leader
           lead == {c \in Members(w, o) : c \in RowsOf(w, w.cparty[o].id) /\ w.rows[c].leader}
           l == IF lead = {} THEN None ELSE CHOOSE c \in lead : TRUE
           e == [k EXCEPT !.leader = l]
           C == [w.cparty EXCEPT ![o] = e]
           R == [c \in Chars |-> w.reload[c] /\ c \notin Members(w, o)]
<1>1. \A c : c \in lead <=> c \in Chars /\ Lead(c)
  BY DEF Members, RowsOf
<1>2. v = [w EXCEPT !.cparty = C, !.reload = R]
  BY DEF Refreshed, Worlds
<1>3. \/ l \in Chars /\ Lead(l)
      \/ l = None /\ \A c \in Chars : ~Lead(c)
  <2>1. CASE lead = {}
    BY <1>1, <2>1
  <2>2. CASE lead # {}
    <3>1. l \in lead
      BY <2>2
    <3> HIDE DEF l, lead
    <3> QED  BY <3>1, <1>1
  <2> QED  BY <2>1, <2>2
<1> HIDE DEF l, lead
<1>4. k \in CParty
  BY DEF Worlds
<1>5. e \in CParty /\ e.id = k.id /\ e.leader = l
  BY <1>3, <1>4 DEF CParty
<1>6. e # None
  BY <1>5, NoneAssumption DEF NoneAssumption
<1> HIDE DEF e
<1>7. /\ C \in [Objects -> CParty \cup {None}]
      /\ C[o] = e /\ \A q \in Objects : q # o => C[q] = w.cparty[q]
  BY <1>5 DEF Worlds
<1>8. R \in [Chars -> BOOLEAN] /\ \A d \in Chars : R[d] <=> w.reload[d] /\ w.party[d] # o
  BY DEF Worlds, Members
<1> HIDE DEF C, R, v
<1>9. /\ v \in Worlds /\ v.party = w.party /\ v.rows = w.rows /\ v.sent = w.sent
      /\ v.lost = w.lost /\ v.cparty = C /\ v.reload = R
  BY <1>2, <1>7, <1>8 DEF Worlds
<1>10. v.cparty[o].leader = l /\ v.cparty[o] # None /\ v.cparty[o].id = k.id /\ OthersKept(w, v, o)
  BY <1>5, <1>6, <1>7, <1>9 DEF OthersKept
<1> HIDE DEF k, Lead
<1> QED  BY <1>3, <1>8, <1>9, <1>10 DEF v, Lead, k

LEMMA PushedIs ==
  ASSUME PartyAssumption, NoneAssumption, NEW w \in Worlds, NEW c \in Chars,
         w.party[c] = None, w.rows[c] # None, NEW v \in Pushed(w, c),
         \A d \in Chars : w.party[d] # None => w.cparty[w.party[d]] # None
  PROVE  \E o \in Objects :
           /\ v \in Worlds /\ v.rows = w.rows /\ v.reload = w.reload
           /\ v.sent = w.sent /\ v.lost = w.lost
           /\ v.party[c] = o /\ \A d \in Chars \ {c} : v.party[d] = w.party[d]
           /\ OthersKept(w, v, o)
           /\ v.cparty[o] # None /\ v.cparty[o].id = w.rows[c].party
           /\ \/ \E d \in Chars : /\ Found(server[c], d) /\ w.party[d] = o
                                  /\ w.cparty[o].id = w.rows[c].party
              \/ /\ \A d \in Chars : w.party[d] # o
                 /\ \A d \in Chars : Found(server[c], d) /\ w.party[d] # None
                                       => Id(w, d) # w.rows[c].party
<1> DEFINE i == w.rows[c].party
           here == {d \in Chars : Found(server[c], d) /\ w.party[d] # None /\ Id(w, d) = i}
           known == {w.party[d] : d \in here}
           l(o) == IF w.rows[c].leader THEN c ELSE IF w.cparty[o] = None THEN None ELSE w.cparty[o].leader
           e(o) == [id |-> i, leader |-> l(o)]
           Into(o) == [w EXCEPT !.party[c] = o, !.cparty[o] = e(o)]
<1>1. PICK o \in IF known = {} THEN {Unused(w)} ELSE known : v = Into(o)
  BY DEF Pushed
<1>2. i \in Chars
  BY DEF Worlds, Row
<1>3. /\ o \in Objects
      /\ \/ \E d \in Chars : Found(server[c], d) /\ w.party[d] = o /\ w.cparty[o].id = i
         \/ /\ \A d \in Chars : w.party[d] # o
            /\ \A d \in Chars : Found(server[c], d) /\ w.party[d] # None => Id(w, d) # i
  <2>1. CASE known = {}
    <3>1. o = Unused(w)
      BY <1>1, <2>1
    <3>2. o \in Objects /\ \A d \in Chars : w.party[d] # o
      BY <3>1, UnusedIsFree DEF Members
    <3>3. \A d \in Chars : Found(server[c], d) /\ w.party[d] # None => Id(w, d) # i
      BY <2>1
    <3> QED  BY <3>2, <3>3
  <2>2. CASE known # {}
    <3>1. PICK d \in here : o = w.party[d]
      BY <1>1, <2>2
    <3>2. d \in Chars /\ Found(server[c], d) /\ w.party[d] # None /\ w.cparty[o].id = i
      BY <3>1 DEF Id
    <3>3. o \in Objects
      BY <3>1, <3>2 DEF Worlds
    <3> QED  BY <3>1, <3>2, <3>3
  <2> QED  BY <2>1, <2>2
<1>4. l(o) \in Chars \cup {None}
  BY <1>3 DEF Worlds, CParty
<1>5. e(o) \in CParty /\ e(o) # None /\ e(o).id = i
  BY <1>2, <1>4, NotNone
<1> HIDE DEF e, i
<1>6. /\ v \in Worlds /\ v.rows = w.rows /\ v.reload = w.reload
      /\ v.sent = w.sent /\ v.lost = w.lost
      /\ v.party[c] = o /\ (\A d \in Chars \ {c} : v.party[d] = w.party[d])
      /\ (\A q \in Objects : q # o => v.cparty[q] = w.cparty[q]) /\ v.cparty[o] = e(o)
  BY <1>1, <1>3, <1>5 DEF Worlds
<1>7. OthersKept(w, v, o) /\ v.cparty[o] # None /\ v.cparty[o].id = i
  BY <1>5, <1>6 DEF OthersKept
<1> QED  BY <1>3, <1>6, <1>7 DEF i

\* v is w after c, who is in o, has been removed: as a member, as the leader of
\* nobody else, or as a leader whose party goes over to d.
RemovedAs(w, c, o, v) ==
  LET i == w.cparty[o].id
  IN  \/ w.cparty[o].leader # c /\ v = Dropped(w, c)
      \/ /\ w.cparty[o].leader = c
         /\ \A d \in RowsOf(w, i) : w.rows[d].leader
         /\ v = Disbanded(w, o, TRUE)
      \/ /\ w.cparty[o].leader = c
         /\ \E d \in RowsOf(w, i) :
              /\ ~w.rows[d].leader
              /\ v = IF w.party[d] = o /\ d = c THEN Disbanded(SetLeader(w, o, d), o, TRUE)
                     ELSE Dropped(SetLeader(w, o, d), c)

LEMMA RemovedIs ==
  ASSUME PartyAssumption, NoneAssumption, NEW w, Proper(w), NEW c \in Chars, NEW o \in Objects,
         w.party[c] = o, NEW v \in Removed(w, c)
  PROVE  RemovedAs(w, c, o, v)
<1> DEFINE i == w.cparty[o].id
           heirs == {d \in RowsOf(w, i) : ~w.rows[d].leader}
           led == IF heirs = {} THEN {w} ELSE {SetLeader(w, o, d) : d \in heirs}
<1>1. o # None /\ w \in Worlds /\ w.cparty[o] # None /\ c # None
  BY NoneAssumption, PartyAssumption DEF NoneAssumption, PartyAssumption, Proper
<1>2. LeadsIn(w, c) <=> w.cparty[o].leader = c
  BY <1>1 DEF LeadsIn
<1>3. IF LeadsIn(w, c)
      THEN \E u \in led : v = IF LeadsIn(u, c) THEN Disbanded(u, o, TRUE) ELSE Dropped(u, c)
      ELSE v = Dropped(w, c)
  <2>1. Removed(w, c) = IF LeadsIn(w, c)
                        THEN {IF LeadsIn(u, c) THEN Disbanded(u, o, TRUE) ELSE Dropped(u, c) : u \in led}
                        ELSE {Dropped(w, c)}
    BY DEF Removed
  <2> HIDE DEF led
  <2> QED  BY <2>1
<1>4. CASE w.cparty[o].leader # c
  BY <1>2, <1>3, <1>4 DEF RemovedAs
<1>5. CASE w.cparty[o].leader = c /\ heirs = {}
  <2>1. PICK u \in led : v = IF LeadsIn(u, c) THEN Disbanded(u, o, TRUE) ELSE Dropped(u, c)
    BY <1>2, <1>3, <1>5
  <2>2. u = w
    BY <1>5
  <2>3. v = Disbanded(w, o, TRUE)
    BY <1>2, <1>5, <2>1, <2>2
  <2>4. \A d \in RowsOf(w, i) : w.rows[d].leader
    BY <1>5
  <2> HIDE DEF i, heirs, led
  <2> QED  BY <1>5, <2>3, <2>4 DEF i, RemovedAs
<1>6. CASE w.cparty[o].leader = c /\ heirs # {}
  <2>1. PICK u \in led : v = IF LeadsIn(u, c) THEN Disbanded(u, o, TRUE) ELSE Dropped(u, c)
    BY <1>2, <1>3, <1>6
  <2>2. PICK d \in heirs : u = SetLeader(w, o, d)
    BY <1>6, <2>1
  <2>3. d \in Chars /\ d \in RowsOf(w, i) /\ ~w.rows[d].leader
    BY <2>2 DEF RowsOf
  <2>4. /\ u.party = w.party
        /\ u.cparty[o].leader = IF w.party[d] = o THEN d ELSE None
    BY <1>1, <2>2, <2>3, SetLeaderIs
  <2>5. LeadsIn(u, c) <=> w.party[d] = o /\ d = c
    BY <1>1, <2>4 DEF LeadsIn
  <2> HIDE DEF i
  <2>6. v = IF w.party[d] = o /\ d = c THEN Disbanded(SetLeader(w, o, d), o, TRUE)
            ELSE Dropped(SetLeader(w, o, d), c)
    BY <2>1, <2>2, <2>5
  <2> QED  BY <1>6, <2>3, <2>6 DEF i, RemovedAs
<1> QED  BY <1>4, <1>5, <1>6

-----------------------------------------------------------------------------
(* Every handler makes a proper world of a proper one.                     *)

LEMMA SetLeaderIsProper ==
  ASSUME NoneAssumption, NEW w, Proper(w), NEW o \in Objects, w.cparty[o] # None, NEW c \in Chars
  PROVE  Proper(SetLeader(w, o, c))
<1> DEFINE v == SetLeader(w, o, c)
<1>1. /\ v \in Worlds /\ v.party = w.party /\ v.cparty[o] # None
      /\ \A q \in Objects : q # o => v.cparty[q] = w.cparty[q]
  BY SetLeaderIs DEF Proper
<1> HIDE DEF v
<1>2. \A d \in Chars : v.party[d] # None => v.cparty[v.party[d]] # None
  BY <1>1 DEF Proper, Worlds
<1> QED  BY <1>1, <1>2 DEF Proper, v

LEMMA DisbandedIsProper ==
  ASSUME NoneAssumption, NEW w, Proper(w), NEW o \in Objects, NEW v, DisbandedAs(w, o, v)
  PROVE  Proper(v)
BY DEF Proper, Worlds, OthersKept, DisbandedAs

LEMMA UnlinkedIsProper ==
  ASSUME NoneAssumption, NEW w, Proper(w), NEW c \in Chars, w.party[c] # None
  PROVE  Proper(Unlinked(w, c)) /\ Proper(Dropped(w, c))
<1> DEFINE o == w.party[c]
<1>1. w \in Worlds /\ o \in Objects /\ w.cparty[o] # None
  BY DEF Proper, Worlds
<1>2. ASSUME NEW v \in Worlds, v.party[c] = None, \A d \in Chars \ {c} : v.party[d] = w.party[d],
             OthersKept(w, v, o), v.cparty[o] = None <=> \A d \in Chars \ {c} : w.party[d] # o
      PROVE  Proper(v)
  <2>1. SUFFICES ASSUME NEW d \in Chars, v.party[d] # None
                 PROVE  v.cparty[v.party[d]] # None
    BY <1>2 DEF Proper
  <2>2. d # c /\ v.party[d] = w.party[d] /\ w.party[d] \in Objects /\ w.cparty[w.party[d]] # None
    BY <1>2, <2>1 DEF Proper, Worlds
  <2>3. CASE w.party[d] = o
    BY <1>2, <2>2, <2>3
  <2>4. CASE w.party[d] # o
    BY <1>2, <2>2, <2>4 DEF OthersKept
  <2> QED  BY <2>3, <2>4
<1>3. LET v == Unlinked(w, c)
      IN  /\ v \in Worlds /\ v.party[c] = None /\ \A d \in Chars \ {c} : v.party[d] = w.party[d]
          /\ OthersKept(w, v, o) /\ (v.cparty[o] = None <=> \A d \in Chars \ {c} : w.party[d] # o)
  BY <1>1, UnlinkedIs
<1>4. LET v == Dropped(w, c)
      IN  /\ v \in Worlds /\ v.party[c] = None /\ \A d \in Chars \ {c} : v.party[d] = w.party[d]
          /\ OthersKept(w, v, o) /\ (v.cparty[o] = None <=> \A d \in Chars \ {c} : w.party[d] # o)
  BY <1>1, DroppedIs
<1> HIDE DEF o
<1> QED  BY <1>2, <1>3, <1>4

LEMMA ProperBut ==
  ASSUME NEW w, Proper(w), NEW v \in Worlds, NEW o \in Objects, v.party = w.party,
         OthersKept(w, v, o), v.cparty[o] # None
  PROVE  Proper(v)
<1>1. \A d \in Chars : v.party[d] # None => v.cparty[v.party[d]] # None
  BY DEF Proper, Worlds, OthersKept
<1> QED  BY <1>1 DEF Proper

LEMMA RefreshedIsProper ==
  ASSUME NoneAssumption, NEW w, Proper(w), NEW o \in Objects, w.cparty[o] # None
  PROVE  Proper(Refreshed(w, o))
<1> DEFINE v == Refreshed(w, o)
<1>1. /\ v \in Worlds /\ v.party = w.party /\ OthersKept(w, v, o) /\ v.cparty[o] # None
  BY RefreshedIs DEF Proper
<1> HIDE DEF v
<1>2. \A d \in Chars : v.party[d] # None => v.cparty[v.party[d]] # None
  BY <1>1 DEF Proper, Worlds, OthersKept
<1> QED  BY <1>1, <1>2 DEF Proper, v

LEMMA RemovedIsProper ==
  ASSUME PartyAssumption, NoneAssumption, NEW w, Proper(w), NEW c \in Chars, w.party[c] # None,
         NEW v \in Removed(w, c)
  PROVE  Proper(v)
<1> DEFINE o == w.party[c]
<1>1. w \in Worlds /\ o \in Objects /\ w.cparty[o] # None
  BY DEF Proper, Worlds
<1>2. Proper(Dropped(w, c)) /\ Proper(Disbanded(w, o, TRUE))
  BY <1>1, UnlinkedIsProper, DisbandedIsProper, DisbandedIs
<1>3. ASSUME NEW d \in Chars
      PROVE  Proper(Dropped(SetLeader(w, o, d), c)) /\ Proper(Disbanded(SetLeader(w, o, d), o, TRUE))
  <2>1. Proper(SetLeader(w, o, d))
    BY <1>1, SetLeaderIsProper
  <2>2. SetLeader(w, o, d).party = w.party /\ SetLeader(w, o, d).cparty[o] # None
    BY <1>1, SetLeaderIs
  <2>3. SetLeader(w, o, d) \in Worlds
    BY <2>1 DEF Proper
  <2>4. DisbandedAs(SetLeader(w, o, d), o, Disbanded(SetLeader(w, o, d), o, TRUE))
    BY <1>1, <2>2, <2>3, DisbandedIs
  <2> QED  BY <1>1, <2>1, <2>2, <2>4, UnlinkedIsProper, DisbandedIsProper
<1> DEFINE i == w.cparty[o].id
<1>5. \/ w.cparty[o].leader # c /\ v = Dropped(w, c)
      \/ /\ w.cparty[o].leader = c
         /\ \A d \in RowsOf(w, i) : w.rows[d].leader
         /\ v = Disbanded(w, o, TRUE)
      \/ /\ w.cparty[o].leader = c
         /\ \E d \in RowsOf(w, i) :
              /\ ~w.rows[d].leader
              /\ v = IF w.party[d] = o /\ d = c THEN Disbanded(SetLeader(w, o, d), o, TRUE)
                     ELSE Dropped(SetLeader(w, o, d), c)
  <2>1. RemovedAs(w, c, o, v)
    BY <1>1, RemovedIs
  <2> QED  BY <2>1 DEF RemovedAs
<1> HIDE DEF o, i
<1>6. CASE v = Dropped(w, c) \/ v = Disbanded(w, o, TRUE)
  BY <1>2, <1>6
<1>7. CASE \E d \in RowsOf(w, i) : v = IF w.party[d] = o /\ d = c THEN Disbanded(SetLeader(w, o, d), o, TRUE)
                                    ELSE Dropped(SetLeader(w, o, d), c)
  <2>1. PICK d \in RowsOf(w, i) : v = IF w.party[d] = o /\ d = c THEN Disbanded(SetLeader(w, o, d), o, TRUE)
                                    ELSE Dropped(SetLeader(w, o, d), c)
    BY <1>7
  <2>2. d \in Chars
    BY DEF RowsOf
  <2> QED  BY <2>1, <2>2, <1>3
<1> QED  BY <1>5, <1>6, <1>7

LEMMA AddedIsProper ==
  ASSUME NoneAssumption, NEW w, Proper(w), NEW o \in Objects, w.cparty[o] # None, NEW c \in Chars
  PROVE  Proper(Added(w, o, c)) /\ Proper(AddedById(w, o, c))
<1> DEFINE v == Added(w, o, c)
           u == AddedById(w, o, c)
<1>1. v \in Worlds /\ v.cparty = w.cparty /\ v.party[c] = o /\ \A d \in Chars \ {c} : v.party[d] = w.party[d]
  BY AddedIs DEF Proper
<1>2. u \in Worlds /\ u.cparty = w.cparty /\ u.party = w.party
  <2>1. CASE IsFull(w, o)
    <3>1. u = w
      BY <2>1 DEF AddedById
    <3> QED  BY <3>1 DEF Proper
  <2>2. CASE ~IsFull(w, o)
    BY <2>2, AddedByIdIs DEF Proper
  <2> QED  BY <2>1, <2>2
<1> HIDE DEF u, v
<1>3. Proper(v)
  BY <1>1 DEF Proper
<1>4. Proper(u)
  BY <1>2 DEF Proper
<1> QED  BY <1>3, <1>4 DEF u, v

LEMMA FoundedIsProper ==
  ASSUME PartyAssumption, NoneAssumption, NEW w, Proper(w), NEW c \in Chars, w.party[c] = None
  PROVE  Proper(Founded(w, c))
<1> DEFINE v == Founded(w, c)
           o == Unused(w)
<1>1. /\ v \in Worlds /\ o \in Objects /\ \A d \in Chars : w.party[d] # o
      /\ v.party[c] = o /\ \A d \in Chars \ {c} : v.party[d] = w.party[d]
      /\ v.cparty[o] # None /\ \A q \in Objects : q # o => v.cparty[q] = w.cparty[q]
  BY FoundedIs DEF Proper
<1> HIDE DEF v, o
<1>2. SUFFICES ASSUME NEW d \in Chars, v.party[d] # None
               PROVE  v.cparty[v.party[d]] # None
  BY <1>1 DEF Proper, v
<1>3. CASE d = c
  BY <1>1, <1>3
<1>4. CASE d # c
  <2>1. v.party[d] = w.party[d] /\ w.party[d] \in Objects /\ w.cparty[w.party[d]] # None
    BY <1>1, <1>2, <1>4 DEF Proper, Worlds
  <2>2. w.party[d] # o
    BY <1>1
  <2> QED  BY <1>1, <2>1, <2>2
<1> QED  BY <1>3, <1>4

LEMMA PushedIsProper ==
  ASSUME PartyAssumption, NoneAssumption, NEW w, Proper(w), NEW c \in Chars, w.party[c] = None,
         w.rows[c] # None, NEW v \in Pushed(w, c)
  PROVE  Proper(v) /\ v.party[c] # None
<1>1. PICK o \in Objects :
           /\ v \in Worlds
           /\ v.party[c] = o /\ \A d \in Chars \ {c} : v.party[d] = w.party[d]
           /\ OthersKept(w, v, o) /\ v.cparty[o] # None
  <2>1. w \in Worlds /\ \A d \in Chars : w.party[d] # None => w.cparty[w.party[d]] # None
    BY DEF Proper
  <2> QED  BY <2>1, PushedIs
<1>2. \A d \in Chars : v.party[d] # None => v.cparty[v.party[d]] # None
  BY <1>1 DEF Proper, Worlds, OthersKept
<1> QED  BY <1>1, <1>2, NoneAssumption DEF Proper, NoneAssumption

LEMMA UnmarkedIs ==
  ASSUME NEW w \in Worlds, NEW c \in Chars
  PROVE  LET v == [w EXCEPT !.reload[c] = FALSE]
         IN  /\ v \in Worlds /\ v.party = w.party /\ v.cparty = w.cparty /\ v.rows = w.rows
             /\ v.sent = w.sent /\ v.lost = w.lost
             /\ \A d \in Chars : v.reload[d] <=> w.reload[d] /\ d # c
BY DEF Worlds

LEMMA AsProper ==
  ASSUME NEW w, Proper(w), NEW v \in Worlds, v.party = w.party, v.cparty = w.cparty
  PROVE  Proper(v)
BY DEF Proper

LEMMA RenamedIs ==
  ASSUME NoneAssumption, NEW w \in Worlds, NEW o \in Objects, w.cparty[o] # None, NEW id \in Chars
  PROVE  LET v == [w EXCEPT !.cparty[o].id = id]
         IN  /\ v \in Worlds /\ v.party = w.party /\ v.rows = w.rows /\ v.reload = w.reload
             /\ v.sent = w.sent /\ v.lost = w.lost
             /\ OthersKept(w, v, o) /\ v.cparty[o] # None /\ v.cparty[o].id = id
             /\ v.cparty[o].leader = w.cparty[o].leader
<1> DEFINE e == [w.cparty[o] EXCEPT !.id = id]
           C == [w.cparty EXCEPT ![o] = e]
           v == [w EXCEPT !.cparty = C]
<1>1. [w EXCEPT !.cparty[o].id = id] = v
  BY DEF Worlds
<1>2. e \in CParty /\ e.id = id /\ e.leader = w.cparty[o].leader
  BY DEF Worlds, CParty
<1>3. e # None
  BY <1>2, NoneAssumption DEF NoneAssumption
<1> HIDE DEF e
<1>4. C \in [Objects -> CParty \cup {None}] /\ C[o] = e /\ \A q \in Objects : q # o => C[q] = w.cparty[q]
  BY <1>2 DEF Worlds
<1> HIDE DEF C
<1>5. v \in Worlds /\ v.party = w.party /\ v.rows = w.rows /\ v.reload = w.reload
      /\ v.sent = w.sent /\ v.lost = w.lost /\ v.cparty = C
  BY <1>4 DEF Worlds
<1> HIDE DEF v
<1>6. OthersKept(w, v, o)
  BY <1>4, <1>5 DEF OthersKept
<1> QED  BY <1>1, <1>2, <1>3, <1>4, <1>5, <1>6

LEMMA DeletedIsProper ==
  ASSUME PartyAssumption, NoneAssumption, NEW w, Proper(w), NEW c \in Chars, w.party[c] # None,
         NEW v \in Deleted(w, c)
  PROVE  Proper(v)
<1> DEFINE o == w.party[c]
<1>1. o \in Objects
  BY DEF Proper, Worlds
<1>2. \E u \in Removed(w, c) \cup {Unlinked(w, c)} : v = IF u.cparty[o] = None THEN u ELSE Refreshed(u, o)
  BY DEF Deleted
<1>3. PICK u \in Removed(w, c) \cup {Unlinked(w, c)} : v = IF u.cparty[o] = None THEN u ELSE Refreshed(u, o)
  BY <1>2
<1>4. Proper(u)
  BY RemovedIsProper, UnlinkedIsProper
<1> QED  BY <1>1, <1>3, <1>4, RefreshedIsProper

LEMMA UpToDateIsProper ==
  ASSUME PartyAssumption, NoneAssumption, NEW w, Proper(w), NEW c \in Chars, NEW v \in UpToDate(w, c)
  PROVE  Proper(v)
<1> USE DEF Proper
<1>1. CASE w.rows[c] # None /\ w.party[c] # None
  <2> DEFINE o == w.party[c]
             id == w.rows[c].party
             u == [w EXCEPT !.cparty[o].id = id]
  <2>1. o \in Objects /\ w.cparty[o] # None /\ id \in Chars
    BY <1>1 DEF Worlds, Row
  <2>2. /\ u \in Worlds /\ u.party = w.party /\ OthersKept(w, u, o) /\ u.cparty[o] # None
    BY <2>1, RenamedIs
  <2>3. v = Refreshed(u, u.party[c])
    BY <1>1 DEF UpToDate
  <2> HIDE DEF u
  <2>4. Proper(u)
    BY <2>1, <2>2, ProperBut
  <2>5. v = Refreshed(u, o)
    BY <2>2, <2>3
  <2> QED  BY <2>1, <2>2, <2>4, <2>5, RefreshedIsProper
<1>2. CASE w.rows[c] # None /\ w.party[c] = None
  <2>1. PICK u \in Pushed(w, c) : v = Refreshed(u, u.party[c])
    BY <1>2 DEF UpToDate
  <2>2. Proper(u) /\ u.party[c] # None
    BY <1>2, PushedIsProper
  <2>3. u.party[c] \in Objects /\ u.cparty[u.party[c]] # None
    BY <2>2 DEF Worlds
  <2> QED  BY <2>1, <2>2, <2>3, RefreshedIsProper
<1>3. CASE w.rows[c] = None
  <2>1. PICK u \in IF w.party[c] # None THEN Deleted(w, c) ELSE {w} : v = [u EXCEPT !.reload[c] = FALSE]
    BY <1>3 DEF UpToDate
  <2>2. Proper(u)
    BY <2>1, DeletedIsProper
  <2>3. v \in Worlds /\ v.party = u.party /\ v.cparty = u.cparty
    BY <2>1, <2>2, UnmarkedIs
  <2> QED  BY <2>2, <2>3, AsProper
<1> QED  BY <1>1, <1>2, <1>3

-----------------------------------------------------------------------------
(* Types.                                                                  *)

LEMMA WorldIs ==
  ASSUME PartyTypeOK
  PROVE  /\ Proper(World)
         /\ World.party = party /\ World.cparty = cparty /\ World.rows = rows
         /\ World.reload = reload /\ World.sent = <<>> /\ World.lost = {}
<1>1. <<>> \in Seq(Message) /\ {} \in SUBSET Chars
  OBVIOUS
<1> QED  BY <1>1 DEF World, Proper, Worlds, PartyTypeOK

LEMMA BecomesIs ==
  ASSUME PartyTypeOK, NEW p \in Procs \cup {None}, NEW w, Proper(w), Becomes(p, w)
  PROVE  /\ party' \in [Chars -> Objects \cup {None}]
         /\ cparty' \in [Objects -> CParty \cup {None}]
         /\ \A c \in Chars : party'[c] # None => cparty'[party'[c]] # None
         /\ rows' \in [Chars -> Row \cup {None}]
         /\ reload' \in [Chars -> BOOLEAN]
         /\ toWorld' \in [Procs -> Seq(Message)]
         /\ abandoned' \subseteq Chars
<1>1. /\ party' = w.party /\ cparty' = w.cparty /\ rows' = w.rows /\ reload' = w.reload
      /\ toWorld' = [toWorld EXCEPT ![p] = @ \o w.sent]
      /\ abandoned' = Abandoned(w)
  BY DEF Becomes
<1>2. /\ w.party \in [Chars -> Objects \cup {None}]
      /\ w.cparty \in [Objects -> CParty \cup {None}]
      /\ \A c \in Chars : w.party[c] # None => w.cparty[w.party[c]] # None
      /\ w.rows \in [Chars -> Row \cup {None}] /\ w.reload \in [Chars -> BOOLEAN]
      /\ w.sent \in Seq(Message)
  BY DEF Proper, Worlds
<1>3. toWorld' \in [Procs -> Seq(Message)]
  <2>1. toWorld \in [Procs -> Seq(Message)]
    BY DEF PartyTypeOK
  <2>2. CASE p \in Procs
    <3>1. toWorld[p] \o w.sent \in Seq(Message)
      BY <1>2, <2>1, <2>2
    <3> QED  BY <1>1, <2>1, <2>2, <3>1
  <2>3. CASE p \notin Procs
    <3>1. toWorld' = toWorld
      BY <1>1, <2>1, <2>3
    <3> QED  BY <2>1, <3>1
  <2> QED  BY <2>2, <2>3
<1>4. Abandoned(w) \subseteq Chars
  BY DEF Abandoned
<1> QED  BY <1>1, <1>2, <1>3, <1>4

\* The types of what a handler does not make of the world.
Around ==
  /\ server' \in [Chars -> Procs \cup {None}]
  /\ stage' \in [Chars -> {"in", "zoning", "quitting", "away"}]
  /\ invite' \in [Chars -> Chars \cup {None}]
  /\ toMap' \in [Procs -> Seq(Message)]
  /\ acts' \in 0..MaxActs /\ crashes' \in 0..MaxCrashes

LEMMA TypeStep ==
  ASSUME PartyTypeOK, NEW p \in Procs \cup {None}, NEW w, Proper(w), Becomes(p, w), Around
  PROVE  PartyTypeOK'
<1>1. /\ party' \in [Chars -> Objects \cup {None}]
      /\ cparty' \in [Objects -> CParty \cup {None}]
      /\ \A c \in Chars : party'[c] # None => cparty'[party'[c]] # None
      /\ rows' \in [Chars -> Row \cup {None}]
      /\ reload' \in [Chars -> BOOLEAN]
      /\ toWorld' \in [Procs -> Seq(Message)]
      /\ abandoned' \subseteq Chars
  BY BecomesIs
<1> QED  BY <1>1 DEF Around, PartyTypeOK

LEMMA Kept ==
  ASSUME PartyTypeOK
  PROVE  /\ \A c \in Chars : server[c] \in Procs \cup {None}
         /\ stage \in [Chars -> {"in", "zoning", "quitting", "away"}]
         /\ server \in [Chars -> Procs \cup {None}]
         /\ invite \in [Chars -> Chars \cup {None}]
         /\ toMap \in [Procs -> Seq(Message)]
         /\ acts \in 0..MaxActs /\ crashes \in 0..MaxCrashes
BY DEF PartyTypeOK

LEMMA ActsIs ==
  ASSUME PartyAssumption, PartyTypeOK, NEW c \in Chars, Acts(c)
  PROVE  acts' \in 0..MaxActs /\ crashes' \in 0..MaxCrashes
BY DEF Acts, PartyTypeOK, PartyAssumption

LEMMA InviteTypes ==
  ASSUME PartyAssumption, NoneAssumption, PartyTypeOK, NEW a \in Chars, NEW b \in Chars, Invite(a, b)
  PROVE  PartyTypeOK'
<1> DEFINE m == [type |-> "Invite", from |-> a, to |-> b]
<1>1. Proper(World) /\ World \in Worlds
  BY WorldIs DEF Proper
<1>2. m \in Message
  BY DEF Message
<1>3. Proper(Sending(World, m))
  BY <1>1, <1>2, SendingIs, AsProper
<1>4. Acts(a) /\ UNCHANGED <<server, stage, toMap>>
  BY DEF Invite
<1>5. \E w \in {World, Sending(World, m)} : Becomes(server[a], w)
  BY DEF Invite
<1>6. invite' \in [Chars -> Chars \cup {None}]
  BY Kept DEF Invite
<1>7. Around
  BY <1>4, <1>6, ActsIs, Kept DEF Around
<1> QED  BY <1>1, <1>3, <1>5, <1>7, TypeStep, Kept

LEMMA JoinedIsProper ==
  ASSUME PartyAssumption, NoneAssumption, NEW w, Proper(w), NEW a \in Chars, NEW b \in Chars
  PROVE  Proper(Joined(w, a, b))
<1> DEFINE w1 == IF w.party[a] = None THEN Founded(w, a) ELSE w
<1>1. Proper(w1)
  BY FoundedIsProper
<1>2. Joined(w, a, b) = IF LeadsIn(w1, a) /\ ~IsFull(w1, w1.party[a]) THEN Added(w1, w1.party[a], b) ELSE w1
  BY DEF Joined
<1> HIDE DEF w1
<1>3. CASE LeadsIn(w1, a)
  <2>1. w1.party[a] \in Objects /\ w1.cparty[w1.party[a]] # None
    BY <1>1, <1>3 DEF LeadsIn, Proper, Worlds
  <2> QED  BY <1>1, <1>2, <2>1, AddedIsProper
<1> QED  BY <1>1, <1>2, <1>3

LEMMA AcceptTypes ==
  ASSUME PartyAssumption, NoneAssumption, PartyTypeOK, NEW b \in Chars, Accept(b)
  PROVE  PartyTypeOK'
<1> DEFINE a == invite[b]
           m == [type |-> "Answer", from |-> a, to |-> b]
<1>1. Proper(World) /\ World \in Worlds
  BY WorldIs DEF Proper
<1>2. a \in Chars
  BY Kept DEF Accept
<1>3. m \in Message
  BY <1>2 DEF Message
<1> HIDE DEF a
<1>4. Proper(Sending(World, m))
  BY <1>1, <1>3, SendingIs, AsProper
<1>5. Proper(Joined(World, a, b))
  BY <1>1, <1>2, JoinedIsProper
<1>6. Acts(b) /\ UNCHANGED <<server, stage, toMap>> /\ invite' = [invite EXCEPT ![b] = None]
  BY DEF Accept
<1>7. \E w \in {World, Sending(World, m), Joined(World, a, b)} : Becomes(server[b], w)
  BY DEF Accept, a
<1>8. Around
  BY <1>6, ActsIs, Kept DEF Around
<1> HIDE DEF m
<1> QED  BY <1>1, <1>4, <1>5, <1>7, <1>8, TypeStep, Kept

LEMMA DeclineTypes ==
  ASSUME PartyAssumption, NoneAssumption, PartyTypeOK, NEW b \in Chars, Decline(b)
  PROVE  PartyTypeOK'
<1>1. Proper(World)
  BY WorldIs
<1>2. /\ Acts(b) /\ UNCHANGED <<server, stage, toMap>> /\ invite' = [invite EXCEPT ![b] = None]
      /\ Becomes(server[b], World)
  BY DEF Decline
<1>3. Around
  BY <1>2, ActsIs, Kept DEF Around
<1> QED  BY <1>1, <1>2, <1>3, TypeStep, Kept

LEMMA LeaveTypes ==
  ASSUME PartyAssumption, NoneAssumption, PartyTypeOK, NEW c \in Chars, Leave(c)
  PROVE  PartyTypeOK'
<1>1. Proper(World) /\ World.party = party
  BY WorldIs
<1>2. /\ Acts(c) /\ UNCHANGED <<server, stage, invite, toMap>>
      /\ party[c] # None
  BY DEF Leave
<1>3. PICK w \in Removed(World, c) : Becomes(server[c], w)
  BY DEF Leave
<1>4. Proper(w)
  BY <1>1, <1>2, RemovedIsProper
<1>5. Around
  BY <1>2, ActsIs, Kept DEF Around
<1> QED  BY <1>3, <1>4, <1>5, TypeStep, Kept

LEMMA LedObject ==
  ASSUME NoneAssumption, PartyTypeOK, NEW c \in Chars, LeadsIn(World, c)
  PROVE  /\ party[c] \in Objects /\ party[c] # None /\ cparty[party[c]] # None
         /\ cparty[party[c]].leader = c /\ Id(World, c) \in Chars
<1>1. Proper(World) /\ World.party = party /\ World.cparty = cparty
  BY WorldIs
<1>2. party[c] # None /\ cparty[party[c]].leader = c /\ party[c] \in Objects
  BY <1>1 DEF LeadsIn, PartyTypeOK
<1>3. cparty[party[c]] # None /\ cparty[party[c]] \in CParty
  BY <1>2 DEF PartyTypeOK
<1>4. Id(World, c) \in Chars
  BY <1>1, <1>3 DEF Id, CParty
<1> QED  BY <1>2, <1>3, <1>4

LEMMA BreakupTypes ==
  ASSUME PartyAssumption, NoneAssumption, PartyTypeOK, NEW c \in Chars, Breakup(c)
  PROVE  PartyTypeOK'
<1>1. Proper(World) /\ World \in Worlds /\ World.cparty = cparty
  BY WorldIs DEF Proper
<1>2. /\ Acts(c) /\ UNCHANGED <<server, stage, invite, toMap>>
      /\ LeadsIn(World, c) /\ Becomes(server[c], Disbanded(World, party[c], TRUE))
  BY DEF Breakup
<1>3. party[c] \in Objects /\ cparty[party[c]] # None
  BY <1>2, LedObject
<1>4. Proper(Disbanded(World, party[c], TRUE))
  BY <1>1, <1>3, DisbandedIs, DisbandedIsProper
<1>5. Around
  BY <1>2, ActsIs, Kept DEF Around
<1> QED  BY <1>2, <1>4, <1>5, TypeStep, Kept

Kicking(c) == [type |-> "Kick", to |-> c]

\* v is w without the row of c, and tells the others and c.
KickedAs(w, a, c, v) ==
  /\ v \in Worlds /\ v.party = w.party /\ v.cparty = w.cparty /\ v.reload = w.reload
  /\ v.lost = w.lost
  /\ v.sent = Append(Append(w.sent, Reloading(Id(w, a))), Kicking(c))
  /\ \A d \in Chars : v.rows[d] = IF d = c THEN None ELSE w.rows[d]

LEMMA KickedIs ==
  ASSUME NEW w \in Worlds, NEW a \in Chars, Id(w, a) \in Chars, NEW c \in Chars,
         NEW v \in Kicked(w, a, c)
  PROVE  KickedAs(w, a, c, v)
<1> DEFINE s == Without(w, {c})
           t == Sending(s, Reloading(Id(w, a)))
           m == [type |-> "Kick", to |-> c]
<1>1. /\ s \in Worlds /\ s.party = w.party /\ s.cparty = w.cparty /\ s.reload = w.reload
      /\ s.sent = w.sent /\ s.lost = w.lost
      /\ \A d \in Chars : s.rows[d] = IF d \in {c} THEN None ELSE w.rows[d]
  BY WithoutIs
<1>2. v = Sending(t, m)
  BY DEF Kicked
<1> HIDE DEF s
<1>3. /\ t \in Worlds /\ t.party = s.party /\ t.cparty = s.cparty /\ t.rows = s.rows
      /\ t.reload = s.reload /\ Sends(s, t, Reloading(Id(w, a))) /\ t.lost = s.lost
  BY <1>1, SendingIs, ReloadingIsMessage
<1>4. Sends(w, t, Reloading(Id(w, a)))
  BY <1>1, <1>3 DEF Sends
<1>5. m \in Message
  BY DEF Message
<1> HIDE DEF t, m
<1>6. /\ v \in Worlds /\ v.party = t.party /\ v.cparty = t.cparty /\ v.rows = t.rows
      /\ v.reload = t.reload /\ Sends(t, v, m) /\ v.lost = t.lost
  BY <1>2, <1>3, <1>5, SendingIs
<1>7. /\ v \in Worlds /\ v.party = w.party /\ v.cparty = w.cparty /\ v.reload = w.reload
      /\ v.lost = w.lost
      /\ \A d \in Chars : v.rows[d] = IF d = c THEN None ELSE w.rows[d]
  BY <1>1, <1>3, <1>6
<1>8. v.sent = Append(Append(w.sent, Reloading(Id(w, a))), m)
  BY <1>4, <1>6 DEF Sends
<1> QED  BY <1>7, <1>8 DEF KickedAs, Kicking, m

LEMMA KickTypes ==
  ASSUME PartyAssumption, NoneAssumption, PartyTypeOK, NEW a \in Chars, NEW c \in Chars, Kick(a, c)
  PROVE  PartyTypeOK'
<1>1. Proper(World) /\ World \in Worlds /\ World.party = party /\ World.cparty = cparty
  BY WorldIs DEF Proper
<1>2. Acts(a) /\ UNCHANGED <<server, stage, invite, toMap>> /\ LeadsIn(World, a)
  BY DEF Kick
<1>3. PICK w \in IF party[c] = party[a] THEN Removed(World, c)
                 ELSE IF c \in RowsOf(World, a) THEN Kicked(World, a, c) ELSE {} : Becomes(server[a], w)
  BY DEF Kick
<1>4. Proper(w)
  <2>1. CASE party[c] = party[a]
    <3>1. World.party[c] # None
      BY <1>1, <1>2, <2>1, LedObject
    <3> QED  BY <1>1, <1>3, <2>1, <3>1, RemovedIsProper
  <2>2. CASE party[c] # party[a]
    <3>1. w \in Kicked(World, a, c)
      BY <1>3, <2>2
    <3>2. w \in Worlds /\ w.party = World.party /\ w.cparty = World.cparty
      <4>1. KickedAs(World, a, c, w)
        BY <1>1, <1>2, <3>1, LedObject, KickedIs
      <4> QED  BY <4>1 DEF KickedAs
    <3> QED  BY <1>1, <3>2, AsProper
  <2> QED  BY <2>1, <2>2
<1>5. Around
  BY <1>2, ActsIs, Kept DEF Around
<1> QED  BY <1>3, <1>4, <1>5, TypeStep, Kept

LEMMA GiveLeadTypes ==
  ASSUME PartyAssumption, NoneAssumption, PartyTypeOK, NEW a \in Chars, NEW b \in Chars, GiveLead(a, b)
  PROVE  PartyTypeOK'
<1> DEFINE u == SetLeader(World, party[a], b)
<1>1. Proper(World) /\ World.cparty = cparty
  BY WorldIs
<1>2. Acts(a) /\ UNCHANGED <<server, stage, invite, toMap>> /\ LeadsIn(World, a)
      /\ Becomes(server[a], Sending(u, Reloading(b)))
  BY DEF GiveLead
<1>3. Proper(u)
  BY <1>1, <1>2, LedObject, SetLeaderIsProper
<1> HIDE DEF u
<1>4. Proper(Sending(u, Reloading(b)))
  <2>1. u \in Worlds
    BY <1>3 DEF Proper
  <2> QED  BY <1>3, <2>1, SendingIs, ReloadingIsMessage, AsProper
<1>5. Around
  BY <1>2, ActsIs, Kept DEF Around
<1> QED  BY <1>2, <1>4, <1>5, TypeStep, Kept

LEMMA LogInTypes ==
  ASSUME PartyAssumption, PartyTypeOK, NEW c \in Chars, NEW p \in Procs, LogIn(c, p)
  PROVE  PartyTypeOK'
BY DEF LogIn, PartyTypeOK, PartyAssumption

LEMMA ZoneInTypes ==
  ASSUME PartyTypeOK, NEW c \in Chars, ZoneIn(c)
  PROVE  PartyTypeOK'
BY DEF ZoneIn, PartyTypeOK

LEMMA ZoneOutTypes ==
  ASSUME PartyAssumption, NoneAssumption, PartyTypeOK, NEW c \in Chars, ZoneOut(c)
  PROVE  PartyTypeOK'
<1> DEFINE w == [World EXCEPT !.reload[c] = FALSE]
<1>1. Proper(World) /\ World \in Worlds
  BY WorldIs DEF Proper
<1>2. Proper(w)
  <2>1. w \in Worlds /\ w.party = World.party /\ w.cparty = World.cparty
    BY <1>1, UnmarkedIs
  <2> HIDE DEF w
  <2> QED  BY <1>1, <2>1, AsProper
<1>3. /\ Acts(c) /\ UNCHANGED <<server, toMap>> /\ Becomes(server[c], w)
      /\ stage' = [stage EXCEPT ![c] = "zoning"]
      /\ invite' = [invite EXCEPT ![c] = None]
  BY DEF ZoneOut
<1> HIDE DEF w
<1>4. Around
  BY <1>3, ActsIs, Kept DEF Around
<1> QED  BY <1>2, <1>3, <1>4, TypeStep, Kept

LEMMA LogOutTypes ==
  ASSUME PartyAssumption, NoneAssumption, PartyTypeOK, NEW c \in Chars, LogOut(c)
  PROVE  PartyTypeOK'
<1>1. Proper(World) /\ World.party = party
  BY WorldIs
<1>2. PICK u \in IF party[c] = None THEN {World} ELSE Removed(World, c) :
        Becomes(server[c], [u EXCEPT !.reload[c] = FALSE])
  BY DEF LogOut
<1>3. Proper(u)
  BY <1>1, <1>2, RemovedIsProper
<1> DEFINE w == [u EXCEPT !.reload[c] = FALSE]
<1>4. Proper(w)
  <2>1. u \in Worlds
    BY <1>3 DEF Proper
  <2>2. w \in Worlds /\ w.party = u.party /\ w.cparty = u.cparty
    BY <2>1, UnmarkedIs
  <2> HIDE DEF w
  <2> QED  BY <1>3, <2>2, AsProper
<1>5. /\ Acts(c) /\ UNCHANGED <<server, toMap>> /\ Becomes(server[c], w)
      /\ stage' = [stage EXCEPT ![c] = "quitting"]
      /\ invite' = [invite EXCEPT ![c] = None]
  BY <1>2 DEF LogOut
<1> HIDE DEF w
<1>6. Around
  BY <1>5, ActsIs, Kept DEF Around
<1> QED  BY <1>4, <1>5, <1>6, TypeStep, Kept

LEMMA DepartTypes ==
  ASSUME PartyAssumption, NoneAssumption, PartyTypeOK, NEW c \in Chars, NEW q \in Procs, Depart(c, q)
  PROVE  PartyTypeOK'
<1>1. Proper(World) /\ World.party = party /\ World.cparty = cparty
  BY WorldIs
<1> DEFINE u == Unlinked(World, c)
           v == Sending(u, Reloading(Id(World, c)))
<1>2. IF party[c] = None THEN Becomes(server[c], World)
      ELSE Becomes(server[c], u) \/ Becomes(server[c], v)
  BY DEF Depart
<1>3. ASSUME party[c] # None PROVE Proper(u) /\ Proper(v)
  <2>1. Proper(u) /\ u \in Worlds
    BY <1>1, <1>3, UnlinkedIsProper DEF Proper
  <2>2. Id(World, c) \in Chars
    BY <1>1, <1>3 DEF Id, CParty, PartyTypeOK
  <2> HIDE DEF u
  <2> QED  BY <2>1, <2>2, SendingIs, ReloadingIsMessage, AsProper
<1>4. PICK w : Proper(w) /\ Becomes(server[c], w)
  BY <1>1, <1>2, <1>3
<1>5. Around
  BY Kept DEF Around, Depart
<1> QED  BY <1>4, <1>5, TypeStep, Kept

LEMMA ClosedAround ==
  ASSUME PartyTypeOK, NEW c \in Chars, Closed(c)
  PROVE  Around
BY Kept DEF Closed, Around

LEMMA QuitTypes ==
  ASSUME PartyAssumption, NoneAssumption, PartyTypeOK, NEW c \in Chars, Quit(c)
  PROVE  PartyTypeOK'
<1>1. Proper(World) /\ World \in Worlds
  BY WorldIs DEF Proper
<1>2. Proper(Without(World, {c}))
  BY <1>1, WithoutIs, AsProper
<1>3. Closed(c) /\ Becomes(server[c], Without(World, {c}))
  BY DEF Quit
<1> QED  BY <1>2, <1>3, ClosedAround, TypeStep, Kept

LEMMA TimeOutTypes ==
  ASSUME PartyAssumption, NoneAssumption, PartyTypeOK, NEW c \in Chars, TimeOut(c)
  PROVE  PartyTypeOK'
<1> DEFINE gone == Without(World, {c})
<1>1. Proper(World) /\ World \in Worlds /\ World.party = party
  BY WorldIs DEF Proper
<1>2. gone \in Worlds /\ gone.party = World.party /\ gone.cparty = World.cparty
  BY <1>1, WithoutIs
<1>3. Closed(c)
  BY DEF TimeOut
<1> DEFINE Ends(u, L) == [u EXCEPT !.reload[c] = FALSE, !.lost = L]
<1>4. \E u, L : /\ u = gone \/ (party[c] # None /\ u \in Removed(gone, c))
                /\ L \in SUBSET Chars \/ (\E K \in SUBSET Chars : L = u.lost \cup K)
                /\ Becomes(server[c], Ends(u, L))
  <2>1. Orphans(World, c) \in SUBSET Chars /\ {} \in SUBSET Chars
    BY DEF Orphans, RowsOf
  <2> HIDE DEF gone
  <2>2. CASE party[c] # None
    <3>1. PICK u \in Removed(gone, c) : 
            Becomes(server[c], [u EXCEPT !.reload[c] = FALSE,
               !.lost = @ \cup IF stage[c] = "in" \/ LeadsIn(World, c) THEN {} ELSE Orphans(World, c)])
      BY <2>2 DEF TimeOut, gone
    <3> DEFINE K == IF stage[c] = "in" \/ LeadsIn(World, c) THEN {} ELSE Orphans(World, c)
    <3>2. K \in SUBSET Chars
      BY <2>1
    <3> HIDE DEF K
    <3>3. Becomes(server[c], Ends(u, u.lost \cup K))
      BY <3>1 DEF K
    <3> HIDE DEF Ends
    <3> QED  BY <2>2, <3>2, <3>3
  <2>3. CASE party[c] = None
    <3>1. Becomes(server[c], Ends(gone, Orphans(World, c)))
      BY <2>3 DEF TimeOut, gone
    <3> HIDE DEF Ends
    <3> QED  BY <2>1, <3>1
  <2> QED  BY <2>2, <2>3
<1>5. PICK u, L : /\ u = gone \/ (party[c] # None /\ u \in Removed(gone, c))
                  /\ L \in SUBSET Chars \/ (\E K \in SUBSET Chars : L = u.lost \cup K)
                  /\ Becomes(server[c], Ends(u, L))
  BY <1>4
<1> HIDE DEF gone
<1>6. Proper(gone)
  BY <1>1, <1>2, AsProper
<1>7. Proper(u) /\ u \in Worlds
  BY <1>1, <1>2, <1>5, <1>6, RemovedIsProper DEF Proper
<1>8. L \in SUBSET Chars
  BY <1>5, <1>7 DEF Worlds
<1>9. Ends(u, L) \in Worlds /\ Ends(u, L).party = u.party /\ Ends(u, L).cparty = u.cparty
  BY <1>7, <1>8 DEF Worlds
<1> HIDE DEF Ends
<1>10. Proper(Ends(u, L))
  BY <1>7, <1>9, AsProper
<1> QED  BY <1>3, <1>5, <1>10, ClosedAround, TypeStep, Kept

LEMMA CrashTypes ==
  ASSUME PartyAssumption, NoneAssumption, PartyTypeOK, NEW p \in Procs, Crash(p)
  PROVE  PartyTypeOK'
<1> DEFINE gone == {c \in Chars : server[c] = p}
           w == [Without(World, gone) EXCEPT !.lost = UNION {Orphans(World, c) : c \in gone}]
<1>1. World \in Worlds /\ World.party = party /\ World.rows = rows
  BY WorldIs DEF Proper
<1>2. w.rows \in [Chars -> Row \cup {None}]
  <2>1. Without(World, gone) \in Worlds
    BY <1>1, WithoutIs
  <2> HIDE DEF gone
  <2>2. w.rows = Without(World, gone).rows
    BY <2>1 DEF Worlds
  <2> QED  BY <2>1, <2>2 DEF Worlds
<1>3. /\ crashes < MaxCrashes /\ crashes' = crashes + 1
      /\ server' = [c \in Chars |-> IF c \in gone THEN None ELSE server[c]]
      /\ stage'  = [c \in Chars |-> IF c \in gone THEN "away" ELSE stage[c]]
      /\ party'  = [c \in Chars |-> IF c \in gone THEN None ELSE party[c]]
      /\ cparty' = [o \in Objects |-> IF Members(World, o) \subseteq gone THEN None ELSE cparty[o]]
      /\ invite' = [c \in Chars |-> IF c \in gone THEN None ELSE invite[c]]
      /\ reload' = [c \in Chars |-> c \notin gone /\ reload[c]]
      /\ rows'   = w.rows
      /\ abandoned' = Abandoned(w)
      /\ toWorld' = [toWorld EXCEPT ![p] = <<>>]
      /\ toMap'   = [toMap EXCEPT ![p] = <<>>]
      /\ UNCHANGED acts
  BY DEF Crash
<1>4. abandoned' \subseteq Chars
  BY <1>3 DEF Abandoned
<1> HIDE DEF gone, w
<1>5. \A c \in Chars : party'[c] # None => cparty'[party'[c]] # None
  <2>1. SUFFICES ASSUME NEW c \in Chars, party'[c] # None PROVE cparty'[party'[c]] # None
    OBVIOUS
  <2>2. c \notin gone /\ party'[c] = party[c] /\ party[c] \in Objects /\ cparty[party[c]] # None
    BY <1>3, <2>1 DEF PartyTypeOK
  <2>3. c \in Members(World, party[c])
    BY <1>1 DEF Members
  <2> QED  BY <1>3, <2>2, <2>3
<1>6. crashes' \in 0..MaxCrashes /\ acts' \in 0..MaxActs
  BY <1>3 DEF PartyTypeOK, PartyAssumption
<1>7. /\ server' \in [Chars -> Procs \cup {None}]
      /\ stage' \in [Chars -> {"in", "zoning", "quitting", "away"}]
      /\ party' \in [Chars -> Objects \cup {None}]
      /\ cparty' \in [Objects -> CParty \cup {None}]
      /\ reload' \in [Chars -> BOOLEAN]
      /\ invite' \in [Chars -> Chars \cup {None}]
  BY <1>3 DEF PartyTypeOK
<1>8. toWorld' \in [Procs -> Seq(Message)] /\ toMap' \in [Procs -> Seq(Message)]
  <2>1. <<>> \in Seq(Message)
    OBVIOUS
  <2> QED  BY <1>3, <2>1 DEF PartyTypeOK
<1> QED  BY <1>2, <1>3, <1>4, <1>5, <1>6, <1>7, <1>8 DEF PartyTypeOK

LEMMA TickTypes ==
  ASSUME PartyAssumption, NoneAssumption, PartyTypeOK, NEW c \in Chars, Tick(c)
  PROVE  PartyTypeOK'
<1>1. Proper(World)
  BY WorldIs
<1>2. PICK w \in UpToDate(World, c) :
        Becomes(server[c], IF Alone(w, c) THEN Disbanded(w, w.party[c], TRUE) ELSE w)
  BY DEF Tick
<1>3. Proper(w)
  BY <1>1, UpToDateIsProper
<1>4. ASSUME Alone(w, c) PROVE Proper(Disbanded(w, w.party[c], TRUE))
  <2>1. w \in Worlds /\ w.party[c] \in Objects /\ w.cparty[w.party[c]] # None
    BY <1>3, <1>4 DEF Alone, Proper, Worlds
  <2> QED  BY <1>3, <2>1, DisbandedIs, DisbandedIsProper
<1>5. Around
  BY Kept DEF Around, Tick
<1> QED  BY <1>2, <1>3, <1>4, <1>5, TypeStep, Kept

LEMMA QueueTypes ==
  ASSUME NEW s \in Seq(Message), s # <<>>
  PROVE  Head(s) \in Message /\ Tail(s) \in Seq(Message)
OBVIOUS

LEMMA WorldHandlesTypes ==
  ASSUME PartyTypeOK, NEW p \in Procs, WorldHandles(p)
  PROVE  PartyTypeOK'
<1>1. toWorld[p] \in Seq(Message) /\ toWorld[p] # <<>>
  BY DEF WorldHandles, PartyTypeOK
<1> DEFINE m == Head(toWorld[p])
<1>2. m \in Message /\ Tail(toWorld[p]) \in Seq(Message)
  BY <1>1, QueueTypes
<1> HIDE DEF m
<1>3. /\ toMap' = [q \in Procs |-> IF q \in Forward(m) THEN Append(toMap[q], m) ELSE toMap[q]]
      /\ toWorld' = [toWorld EXCEPT ![p] = Tail(@)]
      /\ UNCHANGED <<server, stage, party, cparty, rows, reload, invite, abandoned, acts, crashes>>
  BY DEF WorldHandles, m
<1>4. toWorld' \in [Procs -> Seq(Message)]
  BY <1>2, <1>3 DEF PartyTypeOK
<1>5. \A q \in Procs : Append(toMap[q], m) \in Seq(Message) /\ toMap[q] \in Seq(Message)
  BY <1>2 DEF PartyTypeOK
<1>6. toMap' \in [Procs -> Seq(Message)]
  BY <1>3, <1>5
<1> QED  BY <1>3, <1>4, <1>6 DEF PartyTypeOK

LEMMA HandleAnswerIsProper ==
  ASSUME PartyAssumption, NoneAssumption, PartyTypeOK, NEW p \in Procs, NEW m \in Message,
         m.type = "Answer"
  PROVE  Proper(HandleAnswer(p, m)) /\ m.from \in Chars /\ m.to \in Chars
<1>1. m.from \in Chars /\ m.to \in Chars
  BY DEF Message
<1>2. Proper(World) /\ World.party = party
  BY WorldIs
<1> DEFINE w == IF party[m.from] = None THEN Founded(World, m.from) ELSE World
<1>3. Proper(w)
  BY <1>1, <1>2, FoundedIsProper
<1> HIDE DEF w
<1>4. ASSUME LeadsIn(w, m.from) PROVE Proper(AddedById(w, w.party[m.from], m.to))
  <2>1. w.party[m.from] \in Objects /\ w.cparty[w.party[m.from]] # None
    BY <1>1, <1>3, <1>4 DEF LeadsIn, Proper, Worlds
  <2> QED  BY <1>1, <1>3, <2>1, AddedIsProper
<1>5. \/ HandleAnswer(p, m) = World \/ HandleAnswer(p, m) = w
      \/ LeadsIn(w, m.from) /\ HandleAnswer(p, m) = AddedById(w, w.party[m.from], m.to)
  BY DEF HandleAnswer, w
<1> QED  BY <1>1, <1>2, <1>3, <1>4, <1>5

LEMMA MarkedIsProper ==
  ASSUME PartyTypeOK, NEW S
  PROVE  Proper(Marked(World, S))
<1>1. Proper(World) /\ World \in Worlds
  BY WorldIs DEF Proper
<1> QED  BY <1>1, MarkedIs, AsProper

\* w is the world after a Disband: nobody here is in that party, or the object o
\* is gone, and who is here with another one is abandoned.
DisbandHandledAs(p, m, w) ==
  \/ /\ w = World
     /\ \A c \in Chars : Found(p, c) /\ party[c] # None => Id(World, c) # m.party
  \/ \E o \in Objects, L \in SUBSET Chars :
        /\ \E c \in Chars : Found(p, c) /\ party[c] = o
        /\ o # None /\ cparty[o] # None /\ cparty[o].id = m.party
        /\ L = Disbanded(World, o, FALSE).lost
                 \cup {c \in RowsOf(World, m.party) : Found(p, c) /\ party[c] # o}
        /\ w = [Disbanded(World, o, FALSE) EXCEPT !.lost = L]

LEMMA HandleDisbandIs ==
  ASSUME NoneAssumption, PartyTypeOK, NEW p \in Procs, NEW m, NEW w \in HandleDisband(p, m)
  PROVE  DisbandHandledAs(p, m, w)
<1> DEFINE here == {c \in Chars : Found(p, c) /\ party[c] # None /\ Id(World, c) = m.party}
           known == {party[c] : c \in here}
           missing(o) == {c \in RowsOf(World, m.party) : Found(p, c) /\ party[c] # o}
<1>1. World \in Worlds /\ World.party = party /\ World.cparty = cparty
  BY WorldIs DEF Proper
<1>2. HandleDisband(p, m) = IF known = {} THEN {World}
             ELSE {[Disbanded(World, o, FALSE) EXCEPT !.lost = @ \cup missing(o)] : o \in known}
  BY DEF HandleDisband
<1> HIDE DEF missing
<1>3. CASE known = {}
  <2>1. \A c \in Chars : Found(p, c) /\ party[c] # None => Id(World, c) # m.party
    BY <1>3
  <2> QED  BY <1>2, <1>3, <2>1 DEF DisbandHandledAs
<1>4. CASE known # {}
  <2>1. PICK o \in known : w = [Disbanded(World, o, FALSE) EXCEPT !.lost = @ \cup missing(o)]
    <3> HIDE DEF known
    <3> QED  BY <1>2, <1>4
  <2>2. PICK c \in Chars : Found(p, c) /\ party[c] = o /\ o # None /\ Id(World, c) = m.party
    BY <2>1
  <2>3. o \in Objects /\ cparty[o] # None /\ cparty[o].id = m.party
    BY <1>1, <2>2 DEF PartyTypeOK, Id
  <2> DEFINE u == Disbanded(World, o, FALSE)
             L == u.lost \cup missing(o)
  <2>4. u.lost \in SUBSET Chars
    <3>1. DisbandedAs(World, o, u)
      BY <1>1, <2>3, DisbandedIs
    <3> QED  BY <3>1 DEF DisbandedAs, Worlds
  <2>5. L \in SUBSET Chars
    BY <2>4 DEF missing, RowsOf
  <2>6. w = [u EXCEPT !.lost = L]
    BY <2>1
  <2>7. L = u.lost \cup {d \in RowsOf(World, m.party) : Found(p, d) /\ party[d] # o}
    BY DEF missing
  <2> HIDE DEF L, known, here, missing
  <2> QED  BY <2>2, <2>3, <2>5, <2>6, <2>7 DEF DisbandHandledAs
<1> QED  BY <1>3, <1>4

LEMMA HandleDisbandIsProper ==
  ASSUME NoneAssumption, PartyTypeOK, NEW p \in Procs, NEW m, NEW w \in HandleDisband(p, m)
  PROVE  Proper(w)
<1>1. Proper(World) /\ World \in Worlds /\ World.cparty = cparty
  BY WorldIs DEF Proper
<1>2. CASE w = World
  BY <1>1, <1>2
<1>3. CASE \E o \in Objects, L \in SUBSET Chars :
               /\ cparty[o] # None
               /\ w = [Disbanded(World, o, FALSE) EXCEPT !.lost = L]
  <2>1. PICK o \in Objects, L \in SUBSET Chars :
               /\ cparty[o] # None
               /\ w = [Disbanded(World, o, FALSE) EXCEPT !.lost = L]
    BY <1>3
  <2> DEFINE u == Disbanded(World, o, FALSE)
  <2>2. Proper(u) /\ u \in Worlds
    BY <1>1, <2>1, DisbandedIs, DisbandedIsProper DEF Proper
  <2> HIDE DEF u
  <2>3. w \in Worlds /\ w.party = u.party /\ w.cparty = u.cparty
    BY <2>1, <2>2, LosingIs DEF u
  <2> QED  BY <2>2, <2>3, AsProper
<1>4. DisbandHandledAs(p, m, w)
  BY HandleDisbandIs
<1> QED  BY <1>2, <1>3, <1>4 DEF DisbandHandledAs

LEMMA MapHandlesIs ==
  ASSUME PartyTypeOK, NEW p \in Procs, MapHandles(p)
  PROVE  LET m == Head(toMap[p])
         IN  /\ toMap[p] \in Seq(Message) /\ toMap[p] # <<>>
             /\ m \in Message /\ Tail(toMap[p]) \in Seq(Message)
             /\ toMap' = [toMap EXCEPT ![p] = Tail(@)]
             /\ UNCHANGED <<server, stage, acts, crashes>>
             /\ m.type = "Invite" => invite' \in {invite, [invite EXCEPT ![m.to] = m.from]}
             /\ m.type # "Invite" => invite' = invite
             /\ \E w : /\ Becomes(p, w)
                       /\ \/ m.type = "Reload"  /\ w = HandleReload(p, m)
                          \/ m.type = "Kick"    /\ w = HandleKick(p, m)
                          \/ m.type = "Disband" /\ w \in HandleDisband(p, m)
                          \/ m.type = "Answer"  /\ w = HandleAnswer(p, m)
                          \/ m.type = "Invite"  /\ w = World
<1> DEFINE m == Head(toMap[p])
<1>1. toMap[p] \in Seq(Message) /\ toMap[p] # <<>>
  BY DEF MapHandles, PartyTypeOK
<1>2. m \in Message /\ Tail(toMap[p]) \in Seq(Message)
  BY <1>1, QueueTypes
<1> HIDE DEF m
<1>3. PICK w \in CASE m.type = "Reload"  -> {HandleReload(p, m)}
                       [] m.type = "Kick"    -> {HandleKick(p, m)}
                       [] m.type = "Disband" -> HandleDisband(p, m)
                       [] m.type = "Answer"  -> {HandleAnswer(p, m)}
                       [] m.type = "Invite"  -> {World} : Becomes(p, w)
  BY DEF MapHandles, m
<1>4. /\ toMap' = [toMap EXCEPT ![p] = Tail(@)]
      /\ UNCHANGED <<server, stage, acts, crashes>>
      /\ invite' = IF m.type = "Invite" /\ Found(p, m.to)
                         /\ party[m.to] = None /\ invite[m.to] = None
                      THEN [invite EXCEPT ![m.to] = m.from] ELSE invite
  BY DEF MapHandles, m
<1>5. m.type \in {"Reload", "Kick", "Disband", "Answer", "Invite"}
  BY <1>2 DEF Message
<1>6. \/ m.type = "Reload"  /\ w = HandleReload(p, m)
      \/ m.type = "Kick"    /\ w = HandleKick(p, m)
      \/ m.type = "Disband" /\ w \in HandleDisband(p, m)
      \/ m.type = "Answer"  /\ w = HandleAnswer(p, m)
      \/ m.type = "Invite"  /\ w = World
  BY <1>3, <1>5
<1> QED  BY <1>1, <1>2, <1>3, <1>4, <1>6 DEF m

LEMMA MapHandlesTypes ==
  ASSUME PartyAssumption, NoneAssumption, PartyTypeOK, NEW p \in Procs, MapHandles(p)
  PROVE  PartyTypeOK'
<1> DEFINE m == Head(toMap[p])
<1>1. /\ toMap[p] \in Seq(Message) /\ toMap[p] # <<>>
      /\ m \in Message /\ Tail(toMap[p]) \in Seq(Message)
      /\ toMap' = [toMap EXCEPT ![p] = Tail(@)]
      /\ UNCHANGED <<server, stage, acts, crashes>>
      /\ m.type = "Invite" => invite' \in {invite, [invite EXCEPT ![m.to] = m.from]}
      /\ m.type # "Invite" => invite' = invite
      /\ \E w : /\ Becomes(p, w)
                /\ \/ m.type = "Reload"  /\ w = HandleReload(p, m)
                   \/ m.type = "Kick"    /\ w = HandleKick(p, m)
                   \/ m.type = "Disband" /\ w \in HandleDisband(p, m)
                   \/ m.type = "Answer"  /\ w = HandleAnswer(p, m)
                   \/ m.type = "Invite"  /\ w = World
  BY MapHandlesIs
<1> HIDE DEF m
<1>2. PICK w : /\ Becomes(p, w)
               /\ \/ m.type = "Reload"  /\ w = HandleReload(p, m)
                  \/ m.type = "Kick"    /\ w = HandleKick(p, m)
                  \/ m.type = "Disband" /\ w \in HandleDisband(p, m)
                  \/ m.type = "Answer"  /\ w = HandleAnswer(p, m)
                  \/ m.type = "Invite"  /\ w = World
  BY <1>1
<1>3. Proper(w)
  <2>1. Proper(World)
    BY WorldIs
  <2>2. Proper(HandleReload(p, m)) /\ Proper(HandleKick(p, m))
    BY MarkedIsProper DEF HandleReload, HandleKick
  <2> QED  BY <1>1, <1>2, <2>1, <2>2, HandleDisbandIsProper, HandleAnswerIsProper
<1>4. m.type = "Invite" => m.from \in Chars
  BY <1>1 DEF Message
<1>5. invite' \in [Chars -> Chars \cup {None}]
  BY <1>1, <1>4, Kept
<1>6. toMap' \in [Procs -> Seq(Message)]
  BY <1>1, Kept
<1>7. Around
  BY <1>1, <1>5, <1>6, Kept DEF Around
<1> QED  BY <1>2, <1>3, <1>7, TypeStep

LEMMA InitTypes ==
  ASSUME PartyAssumption, NoneAssumption, Init
  PROVE  PartyTypeOK
<1>1. PICK S \in SUBSET Chars, a \in Chars :
    /\ S # {} => a \in S /\ Cardinality(S) \in 2..MaxMembers
    /\ server \in [Chars -> Procs]
    /\ LET hosts == {server[c] : c \in S}
       IN  \E copy \in [hosts -> 1..Cardinality(hosts)] :
             /\ S # {} => copy[server[a]] = 1
             /\ \A p, q \in hosts : p # q => copy[p] # copy[q]
             /\ party = [c \in Chars |-> IF c \in S THEN copy[server[c]] ELSE None]
    /\ stage  = [c \in Chars |-> "in"]
    /\ rows   = [c \in Chars |-> IF c \in S THEN [party |-> a, leader |-> c = a] ELSE None]
    /\ cparty = [o \in Objects |->
                   IF \A c \in S : party[c] # o THEN None
                   ELSE [id |-> a, leader |-> IF party[a] = o THEN a ELSE None]]
    /\ reload = [c \in Chars |-> FALSE]
    /\ invite \in [Chars -> {a, None}]
    /\ \A c \in S \cup {a} : invite[c] = None
    /\ Cardinality(S) = MaxMembers => \A c \in Chars : invite[c] = None
    /\ toWorld = [p \in Procs |-> <<>>] /\ toMap = [p \in Procs |-> <<>>]
    /\ abandoned = {}
    /\ acts = 0 /\ crashes = 0
  BY DEF Init
<1> DEFINE hosts == {server[c] : c \in S}
<1>2. 1..Cardinality(hosts) \subseteq Objects
  <2> DEFINE f == [c \in S |-> server[c]]
             T == {f[c] : c \in S}
  <2>1. IsFiniteSet(S) /\ Cardinality(S) <= Cardinality(Chars)
    BY FS_Subset DEF PartyAssumption
  <2>2. f \in Surjection(S, T)
    BY DEF Surjection
  <2>3. IsFiniteSet(T) /\ Cardinality(T) <= Cardinality(S)
    BY <2>1, <2>2, FS_Surjection
  <2>4. T = hosts
    OBVIOUS
  <2>5. Cardinality(T) \in Nat /\ Cardinality(S) \in Nat /\ Cardinality(Chars) \in Nat
    BY <2>1, <2>3, FS_CardinalityType DEF PartyAssumption
  <2> HIDE DEF f, T, hosts
  <2> QED  BY <2>1, <2>3, <2>4, <2>5 DEF Objects
<1>3. PICK copy \in [hosts -> 1..Cardinality(hosts)] :
         party = [c \in Chars |-> IF c \in S THEN copy[server[c]] ELSE None]
  BY <1>1
<1>4. party \in [Chars -> Objects \cup {None}]
  <2>1. \A c \in S : copy[server[c]] \in 1..Cardinality(hosts)
    BY <1>3
  <2> HIDE DEF hosts
  <2> QED  BY <1>2, <1>3, <2>1
<1>5. \A l \in Chars \cup {None} : [id |-> a, leader |-> l] \in CParty /\ [id |-> a, leader |-> l] # None
  BY NotNone
<1>6. cparty \in [Objects -> CParty \cup {None}]
  BY <1>1, <1>5
<1>7. \A c \in Chars : party[c] # None => cparty[party[c]] # None
  BY <1>1, <1>3, <1>4, <1>5
<1>8. rows \in [Chars -> Row \cup {None}]
  <2>1. \A c \in Chars : [party |-> a, leader |-> c = a] \in Row
    BY DEF Row
  <2> QED  BY <1>1, <2>1
<1>9. /\ server \in [Chars -> Procs \cup {None}]
      /\ stage \in [Chars -> {"in", "zoning", "quitting", "away"}]
      /\ reload \in [Chars -> BOOLEAN]
      /\ invite \in [Chars -> Chars \cup {None}]
      /\ abandoned \subseteq Chars
  BY <1>1
<1>10. acts \in 0..MaxActs /\ crashes \in 0..MaxCrashes
  BY <1>1 DEF PartyAssumption
<1>11. toWorld \in [Procs -> Seq(Message)] /\ toMap \in [Procs -> Seq(Message)]
  <2>1. <<>> \in Seq(Message)
    OBVIOUS
  <2> QED  BY <1>1, <2>1
<1> QED  BY <1>4, <1>6, <1>7, <1>8, <1>9, <1>10, <1>11 DEF PartyTypeOK

LEMMA NextTypes ==
  ASSUME PartyAssumption, NoneAssumption, PartyTypeOK, [Next]_vars
  PROVE  PartyTypeOK'
<1>1. CASE Play
  BY <1>1, AcceptTypes, DeclineTypes, LeaveTypes, BreakupTypes, ZoneOutTypes, LogOutTypes,
     InviteTypes, KickTypes, GiveLeadTypes, LogInTypes DEF Play
<1>2. CASE Sessions
  BY <1>2, ZoneInTypes, QuitTypes, TimeOutTypes, DepartTypes, CrashTypes DEF Sessions
<1>3. CASE Settle
  BY <1>3, TickTypes, WorldHandlesTypes, MapHandlesTypes DEF Settle
<1>4. CASE UNCHANGED vars
  BY <1>4 DEF vars, PartyTypeOK
<1> QED  BY <1>1, <1>2, <1>3, <1>4 DEF Next

\* The types hold however hasty the players are: no handler uses an object that
\* has been deleted, of the fixed number of names there is always one free for
\* a new party, and no queue gets anything but messages.
THEOREM PartyTypesHold == Spec => []PartyTypeOK
<1> USE PartyAssumption, NoneAssumption
<1>1. Init => PartyTypeOK
  BY InitTypes
<1>2. PartyTypeOK /\ [Next]_vars => PartyTypeOK'
  BY NextTypes
<1> QED  BY <1>1, <1>2, PTL DEF Spec

-----------------------------------------------------------------------------
(* The invariant, of a world and the characters in a zone.                 *)

\* The messages of a queue.
Posted(s) == {s[k] : k \in 1..Len(s)}

LEMMA PostedIs ==
  ASSUME NEW s \in Seq(Message)
  PROVE  /\ \A m \in Message : Posted(Append(s, m)) = Posted(s) \cup {m}
         /\ \A t \in Seq(Message) : Posted(s \o t) = Posted(s) \cup Posted(t)
         /\ s # <<>> => Posted(s) = {Head(s)} \cup Posted(Tail(s))
         /\ Posted(s) = {} <=> s = <<>>
         /\ Posted(s) \subseteq Message
<1>1. ASSUME NEW m \in Message PROVE Posted(Append(s, m)) = Posted(s) \cup {m}
  <2>1. /\ Len(Append(s, m)) = Len(s) + 1 /\ Len(s) \in Nat
        /\ \A k \in 1..Len(s) : Append(s, m)[k] = s[k]
        /\ Append(s, m)[Len(s) + 1] = m
    OBVIOUS
  <2> QED  BY <2>1 DEF Posted
<1>2. ASSUME NEW t \in Seq(Message) PROVE Posted(s \o t) = Posted(s) \cup Posted(t)
  <2>1. /\ Len(s \o t) = Len(s) + Len(t) /\ Len(s) \in Nat /\ Len(t) \in Nat
        /\ \A k \in 1..Len(s) : (s \o t)[k] = s[k]
        /\ \A k \in 1..Len(t) : (s \o t)[Len(s) + k] = t[k]
    OBVIOUS
  <2>2. ASSUME NEW k \in 1..Len(s \o t) PROVE (s \o t)[k] \in Posted(s) \cup Posted(t)
    <3>1. CASE k <= Len(s)
      BY <2>1, <3>1 DEF Posted
    <3>2. CASE k > Len(s)
      <4>1. k - Len(s) \in 1..Len(t) /\ k = Len(s) + (k - Len(s))
        BY <2>1, <3>2
      <4> QED  BY <2>1, <4>1 DEF Posted
    <3> QED  BY <3>1, <3>2, <2>1
  <2>3. \A k \in 1..Len(s) : k \in 1..Len(s \o t)
    BY <2>1
  <2>4. \A k \in 1..Len(t) : Len(s) + k \in 1..Len(s \o t)
    BY <2>1
  <2>5. Posted(s) \subseteq Posted(s \o t)
    BY <2>1, <2>3 DEF Posted
  <2>6. Posted(t) \subseteq Posted(s \o t)
    BY <2>1, <2>4 DEF Posted
  <2>7. Posted(s \o t) \subseteq Posted(s) \cup Posted(t)
    BY <2>2 DEF Posted
  <2> QED  BY <2>5, <2>6, <2>7
<1>3. ASSUME s # <<>> PROVE Posted(s) = {Head(s)} \cup Posted(Tail(s))
  <2>1. /\ Len(s) \in Nat \ {0} /\ Len(Tail(s)) = Len(s) - 1 /\ Head(s) = s[1]
        /\ \A k \in 1..Len(Tail(s)) : Tail(s)[k] = s[k + 1]
    BY <1>3
  <2>2. ASSUME NEW k \in 1..Len(s) PROVE s[k] \in {Head(s)} \cup Posted(Tail(s))
    <3>1. CASE k = 1
      BY <2>1, <3>1
    <3>2. CASE k # 1
      <4>1. k - 1 \in 1..Len(Tail(s)) /\ k = (k - 1) + 1
        BY <2>1, <3>2
      <4> QED  BY <2>1, <4>1 DEF Posted
    <3> QED  BY <3>1, <3>2
  <2>3. Posted(s) \subseteq {Head(s)} \cup Posted(Tail(s))
    BY <2>2 DEF Posted
  <2>4. \A k \in 1..Len(Tail(s)) : k + 1 \in 1..Len(s)
    BY <2>1
  <2>5. Posted(Tail(s)) \subseteq Posted(s)
    BY <2>1, <2>4 DEF Posted
  <2>6. Head(s) \in Posted(s)
    BY <2>1 DEF Posted
  <2> QED  BY <2>3, <2>5, <2>6
<1>4. Posted(s) = {} <=> s = <<>>
  <2>1. Len(s) \in Nat /\ (s = <<>> <=> Len(s) = 0)
    OBVIOUS
  <2>2. ASSUME Len(s) # 0 PROVE s[1] \in Posted(s)
    BY <2>1, <2>2 DEF Posted
  <2>3. ASSUME Len(s) = 0 PROVE Posted(s) = {}
    BY <2>3 DEF Posted
  <2> QED  BY <2>1, <2>2, <2>3
<1>5. Posted(s) \subseteq Message
  BY DEF Posted
<1> QED  BY <1>1, <1>2, <1>3, <1>4, <1>5


\* Who is marked as leader is the one whose id the row has.
FlagIsId(w) ==
  \A c \in Chars : w.rows[c] # None => (w.rows[c].leader <=> w.rows[c].party = c)

\* A copy knows its leader exactly if the leader is among its members.
KnowsLeader(w) ==
  \A c \in Chars : w.party[c] # None =>
    w.cparty[w.party[c]].leader =
      IF w.party[Id(w, c)] = w.party[c] THEN Id(w, c) ELSE None

\* Such a leader, but for those in S, has the row of one.
LeadersAreIn(w, S) ==
  \A c \in Chars :
    w.party[c] # None /\ w.party[Id(w, c)] = w.party[c] /\ Id(w, c) \notin S =>
      w.rows[Id(w, c)] # None /\ w.rows[Id(w, c)].party = Id(w, c)

\* Who has a row is in the copy of that party.
Settled(w, Z) ==
  \A c \in Z : w.rows[c] # None => w.party[c] # None /\ Id(w, c) = w.rows[c].party

\* The members of a copy have the same party in the rows.
Agree(w, Z) ==
  \A c, e \in Z :
    w.rows[c] # None /\ w.rows[e] # None /\ w.party[c] = w.party[e] /\ w.party[c] # None
      => w.rows[c].party = w.rows[e].party

\* In a copy with an id of the past.
Stale(w, c) == w.rows[c] # None /\ w.party[c] # None /\ Id(w, c) # w.rows[c].party

\* Nobody has that id any more; if the new leader is here it has the row of one;
\* and nobody whom the copy is about to lose is in it.
StaleOK(w, Z) ==
  \A c \in Z : Stale(w, c) =>
    /\ RowsOf(w, Id(w, c)) = {}
    /\ LET y == w.rows[c].party
       IN  w.party[y] = w.party[c] => w.rows[y] # None /\ w.rows[y].party = y
    /\ \A g \in Chars : w.party[g] = w.party[c] /\ w.rows[g] = None => ~w.reload[g]

\* The lead has gone from i to d: the copies have the one id or the other.
HandedOn(w, Z, i, d) ==
  /\ i # d /\ RowsOf(w, i) = {} /\ w.rows[d] # None /\ w.rows[d].party = d
  /\ \A c \in Z : w.rows[c] # None =>
        w.party[c] # None /\ (Id(w, c) = w.rows[c].party \/ (Id(w, c) = i /\ w.rows[c].party = d))
  /\ \A g \in Chars : w.reload[g] /\ w.party[g] # None => Id(w, g) # i

Leads(w, S) == FlagIsId(w) /\ KnowsLeader(w) /\ LeadersAreIn(w, S)

-----------------------------------------------------------------------------
LEMMA IdIs ==
  ASSUME NEW w, Proper(w), NEW c \in Chars, w.party[c] # None
  PROVE  /\ w.party[c] \in Objects /\ w.cparty[w.party[c]] # None
         /\ Id(w, c) = w.cparty[w.party[c]].id /\ Id(w, c) \in Chars
BY DEF Proper, Worlds, CParty, Id

LEMMA RowIs ==
  ASSUME NEW w \in Worlds, NEW c \in Chars, w.rows[c] # None
  PROVE  w.rows[c].party \in Chars /\ w.rows[c].leader \in BOOLEAN
BY DEF Worlds, Row

-----------------------------------------------------------------------------
(* What leaving does to those who stay.                                    *)

\* v is w after those in S have left their copies, or never had one, and may
\* have lost their rows; their copies have forgotten them.
Sheds(w, v, S) ==
  /\ \A c \in Chars : v.party[c] = IF c \in S THEN None ELSE w.party[c]
  /\ \A c \in Chars : v.rows[c] = w.rows[c] \/ (c \in S /\ v.rows[c] = None)
  /\ \A c \in Chars \ S : w.party[c] # None =>
       /\ v.cparty[w.party[c]].id = w.cparty[w.party[c]].id
       /\ v.cparty[w.party[c]].leader =
            IF w.cparty[w.party[c]].leader \in S THEN None ELSE w.cparty[w.party[c]].leader

LEMMA ShedIds ==
  ASSUME NEW w, NEW v, NEW S, Sheds(w, v, S)
  PROVE  /\ \A c \in Chars : v.party[c] # None =>
               c \notin S /\ v.party[c] = w.party[c] /\ Id(v, c) = Id(w, c)
         /\ \A c \in Chars : v.rows[c] # None => v.rows[c] = w.rows[c]
         /\ \A i : RowsOf(v, i) \subseteq RowsOf(w, i)
<1>1. \A c \in Chars : v.party[c] # None =>
               c \notin S /\ v.party[c] = w.party[c] /\ Id(v, c) = Id(w, c)
  BY DEF Sheds, Id
<1>2. \A c \in Chars : v.rows[c] # None => v.rows[c] = w.rows[c]
  BY DEF Sheds
<1>3. \A i : RowsOf(v, i) \subseteq RowsOf(w, i)
  BY <1>2 DEF RowsOf
<1> QED  BY <1>1, <1>2, <1>3

\* Nobody is left whose leader has gone unnoticed.
LEMMA ShedLeads ==
  ASSUME NoneAssumption, NEW w, Proper(w), NEW v, NEW S, Sheds(w, v, S), Leads(w, S), None \notin S
  PROVE  Leads(v, {})
<1>1. /\ \A c \in Chars : v.party[c] # None =>
               c \notin S /\ v.party[c] = w.party[c] /\ Id(v, c) = Id(w, c)
      /\ \A c \in Chars : v.rows[c] # None => v.rows[c] = w.rows[c]
  BY ShedIds
<1>2. FlagIsId(v)
  BY <1>1 DEF FlagIsId, Leads
<1>3. KnowsLeader(v)
  <2>1. SUFFICES ASSUME NEW c \in Chars, v.party[c] # None
                 PROVE  v.cparty[v.party[c]].leader =
                          IF v.party[Id(v, c)] = v.party[c] THEN Id(v, c) ELSE None
    BY DEF KnowsLeader
  <2> DEFINE x == Id(w, c)
  <2>2. /\ c \notin S /\ v.party[c] = w.party[c] /\ Id(v, c) = x /\ x \in Chars
        /\ w.party[c] # None
    BY <1>1, <2>1, IdIs
  <2>3. w.cparty[w.party[c]].leader = IF w.party[x] = w.party[c] THEN x ELSE None
    BY <2>2 DEF Leads, KnowsLeader
  <2>4. v.cparty[w.party[c]].leader =
          IF w.cparty[w.party[c]].leader \in S THEN None ELSE w.cparty[w.party[c]].leader
    BY <2>2 DEF Sheds
  <2>5. v.party[x] = IF x \in S THEN None ELSE w.party[x]
    BY <2>2 DEF Sheds
  <2> HIDE DEF x
  <2> QED  BY <2>2, <2>3, <2>4, <2>5
<1>4. LeadersAreIn(v, {})
  <2>1. SUFFICES ASSUME NEW c \in Chars, v.party[c] # None, v.party[Id(v, c)] = v.party[c]
                 PROVE  v.rows[Id(v, c)] # None /\ v.rows[Id(v, c)].party = Id(v, c)
    BY DEF LeadersAreIn
  <2> DEFINE x == Id(w, c)
  <2>2. /\ c \notin S /\ v.party[c] = w.party[c] /\ Id(v, c) = x /\ x \in Chars
        /\ w.party[c] # None
    BY <1>1, <2>1, IdIs
  <2> HIDE DEF x
  <2>3. x \notin S /\ w.party[x] = w.party[c]
    BY <1>1, <2>1, <2>2
  <2>4. w.rows[x] # None /\ w.rows[x].party = x
    BY <2>2, <2>3 DEF Leads, LeadersAreIn, x
  <2>5. v.rows[x] = w.rows[x]
    BY <2>2, <2>3 DEF Sheds
  <2> QED  BY <2>2, <2>4, <2>5
<1> QED  BY <1>2, <1>3, <1>4 DEF Leads

LEMMA ShedSettled ==
  ASSUME NEW w, NEW v, NEW S, Sheds(w, v, S), NEW Z \in SUBSET Chars, Settled(w, Z),
         \A c \in Z \cap S : v.rows[c] = None
  PROVE  Settled(v, Z)
<1>1. /\ \A c \in Chars : v.party[c] # None =>
               c \notin S /\ v.party[c] = w.party[c] /\ Id(v, c) = Id(w, c)
      /\ \A c \in Chars : v.rows[c] # None => v.rows[c] = w.rows[c]
  BY ShedIds
<1>2. \A c \in Z : v.rows[c] # None => v.party[c] = w.party[c]
  BY DEF Sheds
<1> QED  BY <1>1, <1>2 DEF Settled

LEMMA ShedHandedOn ==
  ASSUME NEW w, NEW v, NEW S, Sheds(w, v, S), NEW Z \in SUBSET Chars, NEW i \in Chars, NEW d \in Chars \ S,
         HandedOn(w, Z, i, d), \A c \in Z \cap S : v.rows[c] = None,
         \A c \in Chars : v.reload[c] /\ v.party[c] # None => w.reload[c]
  PROVE  HandedOn(v, Z, i, d)
<1>1. /\ \A c \in Chars : v.party[c] # None =>
               c \notin S /\ v.party[c] = w.party[c] /\ Id(v, c) = Id(w, c)
      /\ \A c \in Chars : v.rows[c] # None => v.rows[c] = w.rows[c]
      /\ RowsOf(v, i) \subseteq RowsOf(w, i)
  BY ShedIds
<1>2. \A c \in Z : v.rows[c] # None => v.party[c] = w.party[c]
  BY DEF Sheds
<1>3. v.rows[d] # None /\ v.rows[d].party = d
  BY DEF Sheds, HandedOn
<1> QED  BY <1>1, <1>2, <1>3 DEF HandedOn

LEMMA ShedStaleOK ==
  ASSUME NEW w, Proper(w), NEW v, NEW S, Sheds(w, v, S), NEW Z \in SUBSET Chars, Agree(w, Z), StaleOK(w, Z),
         \A c \in Chars : v.reload[c] /\ v.party[c] # None => w.reload[c]
  PROVE  Agree(v, Z) /\ StaleOK(v, Z) /\ \A c \in Z : Stale(v, c) => Stale(w, c)
<1>1. /\ \A c \in Chars : v.party[c] # None =>
               c \notin S /\ v.party[c] = w.party[c] /\ Id(v, c) = Id(w, c)
      /\ \A c \in Chars : v.rows[c] # None => v.rows[c] = w.rows[c]
      /\ \A i : RowsOf(v, i) \subseteq RowsOf(w, i)
  BY ShedIds
<1>2. \A c \in Z : Stale(v, c) => Stale(w, c)
  BY <1>1 DEF Stale
<1>3. Agree(v, Z)
  BY <1>1 DEF Agree
<1>4. StaleOK(v, Z)
  <2>1. SUFFICES ASSUME NEW c \in Z, Stale(v, c)
                 PROVE  /\ RowsOf(v, Id(v, c)) = {}
                        /\ LET y == v.rows[c].party
                           IN  v.party[y] = v.party[c] => v.rows[y] # None /\ v.rows[y].party = y
                        /\ \A g \in Chars : v.party[g] = v.party[c] /\ v.rows[g] = None => ~v.reload[g]
    BY DEF StaleOK
  <2> DEFINE y == w.rows[c].party
  <2>2. Stale(w, c) /\ v.rows[c] = w.rows[c] /\ v.party[c] = w.party[c] /\ v.party[c] # None
        /\ v.rows[c] # None /\ Id(v, c) = Id(w, c)
    BY <1>1, <1>2, <2>1 DEF Stale
  <2>3. y \in Chars
    BY <2>2, RowIs DEF Proper
  <2>4. /\ RowsOf(w, Id(w, c)) = {}
        /\ w.party[y] = w.party[c] => w.rows[y] # None /\ w.rows[y].party = y
        /\ \A g \in Chars : w.party[g] = w.party[c] /\ w.rows[g] = None => ~w.reload[g]
    BY <2>2 DEF StaleOK
  <2> HIDE DEF y
  <2>5. v.party[y] = v.party[c] => v.rows[y] # None /\ v.rows[y].party = y
    <3>1. ASSUME v.party[y] = v.party[c] PROVE v.rows[y] # None /\ v.rows[y].party = y
      <4>1. y \notin S /\ w.party[y] = w.party[c]
        BY <1>1, <2>2, <2>3, <3>1
      <4>2. v.rows[y] = w.rows[y]
        BY <2>3, <4>1 DEF Sheds
      <4> QED  BY <2>4, <4>1, <4>2
    <3> QED  BY <3>1
  <2>6. \A g \in Chars : v.party[g] = v.party[c] /\ v.rows[g] = None => ~v.reload[g]
    <3>1. SUFFICES ASSUME NEW g \in Chars, v.party[g] = v.party[c], v.rows[g] = None, v.reload[g] PROVE FALSE
      OBVIOUS
    <3>2. g \notin S /\ w.party[g] = w.party[c] /\ w.reload[g]
      BY <1>1, <2>2, <3>1
    <3>3. w.rows[g] = None
      BY <3>1, <3>2 DEF Sheds
    <3> QED  BY <2>4, <3>2, <3>3
  <2>7. v.rows[c].party = y
    BY <2>2 DEF y
  <2> QED  BY <1>1, <2>2, <2>4, <2>5, <2>6, <2>7
<1> QED  BY <1>2, <1>3, <1>4

-----------------------------------------------------------------------------
(* Leaving, disbanding, and handing on the lead.                           *)

\* A leader a copy names is its member and has its id.
LEMMA LeaderIsMember ==
  ASSUME PartyAssumption, NEW w, KnowsLeader(w), NEW c \in Chars, w.party[c] # None,
         NEW l \in Chars, w.cparty[w.party[c]].leader = l
  PROVE  w.party[l] = w.party[c] /\ Id(w, c) = l /\ Id(w, l) = l
<1>1. l # None
  BY DEF PartyAssumption
<1>2. w.cparty[w.party[c]].leader = IF w.party[Id(w, c)] = w.party[c] THEN Id(w, c) ELSE None
  BY DEF KnowsLeader
<1>3. Id(w, c) = l /\ w.party[l] = w.party[c]
  BY <1>1, <1>2
<1> QED  BY <1>3 DEF Id

LEMMA UnlinkedSheds ==
  ASSUME PartyAssumption, NoneAssumption, NEW w, Proper(w), KnowsLeader(w), NEW c \in Chars, w.party[c] # None
  PROVE  Sheds(w, Unlinked(w, c), {c}) /\ Sheds(w, Dropped(w, c), {c})
<1> DEFINE o == w.party[c]
<1>1. w \in Worlds /\ o \in Objects /\ w.cparty[o] # None
  BY DEF Proper, Worlds
<1> HIDE DEF o
<1>2. w.party[c] = o
  BY DEF o
<1>3. ASSUME NEW v,
             v.party[c] = None, \A d \in Chars \ {c} : v.party[d] = w.party[d],
             OthersKept(w, v, o),
             v.cparty[o] = None <=> \A d \in Chars \ {c} : w.party[d] # o,
             v.cparty[o] # None =>
                   /\ v.cparty[o].id = w.cparty[o].id
                   /\ v.cparty[o].leader = IF w.cparty[o].leader = c THEN None ELSE w.cparty[o].leader,
             \A d \in Chars : v.rows[d] = w.rows[d] \/ (d = c /\ v.rows[d] = None)
      PROVE  Sheds(w, v, {c})
  <2>1. \A d \in Chars : v.party[d] = IF d \in {c} THEN None ELSE w.party[d]
    BY <1>3
  <2>2. ASSUME NEW d \in Chars \ {c}, w.party[d] # None
        PROVE  /\ v.cparty[w.party[d]].id = w.cparty[w.party[d]].id
               /\ v.cparty[w.party[d]].leader =
                    IF w.cparty[w.party[d]].leader \in {c} THEN None ELSE w.cparty[w.party[d]].leader
    <3>1. w.party[d] \in Objects /\ w.cparty[w.party[d]] # None
      BY <2>2 DEF Proper, Worlds
    <3>2. CASE w.party[d] = o
      BY <1>3, <3>1, <3>2
    <3>3. CASE w.party[d] # o
      <4>1. v.cparty[w.party[d]] = w.cparty[w.party[d]]
        BY <1>3, <3>1, <3>3 DEF OthersKept
      <4>2. w.cparty[w.party[d]].leader # c
        BY <1>2, <2>2, <3>3, LeaderIsMember
      <4> QED  BY <4>1, <4>2
    <3> QED  BY <3>2, <3>3
  <2> QED  BY <1>3, <2>1, <2>2 DEF Sheds
<1>4. Sheds(w, Unlinked(w, c), {c})
  <2> DEFINE v == Unlinked(w, c)
  <2>1. /\ v \in Worlds /\ v.rows = w.rows /\ v.reload = w.reload
        /\ v.sent = w.sent /\ v.lost = w.lost
        /\ v.party[c] = None /\ \A d \in Chars \ {c} : v.party[d] = w.party[d]
        /\ OthersKept(w, v, o)
        /\ v.cparty[o] = None <=> \A d \in Chars \ {c} : w.party[d] # o
        /\ v.cparty[o] # None =>
              /\ v.cparty[o].id = w.cparty[o].id
              /\ v.cparty[o].leader = IF w.cparty[o].leader = c THEN None ELSE w.cparty[o].leader
    BY <1>1, <1>2, UnlinkedIs
  <2> HIDE DEF v
  <2>2. \A d \in Chars : v.rows[d] = w.rows[d] \/ (d = c /\ v.rows[d] = None)
    BY <2>1
  <2>3. Sheds(w, v, {c})
    BY <1>3, <2>1, <2>2
  <2> QED  BY <2>3 DEF v
<1>5. Sheds(w, Dropped(w, c), {c})
  <2> DEFINE v == Dropped(w, c)
  <2>1. /\ v \in Worlds /\ v.reload = w.reload
        /\ Sends(w, v, Reloading(w.cparty[o].id))
        /\ \A d \in Chars : v.rows[d] = IF d = c THEN None ELSE w.rows[d]
        /\ v.party[c] = None /\ \A d \in Chars \ {c} : v.party[d] = w.party[d]
        /\ OthersKept(w, v, o)
        /\ v.cparty[o] = None <=> \A d \in Chars \ {c} : w.party[d] # o
        /\ v.cparty[o] # None =>
              /\ v.cparty[o].id = w.cparty[o].id
              /\ v.cparty[o].leader = IF w.cparty[o].leader = c THEN None ELSE w.cparty[o].leader
    BY <1>1, <1>2, DroppedIs
  <2> HIDE DEF v
  <2>2. \A d \in Chars : v.rows[d] = w.rows[d] \/ (d = c /\ v.rows[d] = None)
    BY <2>1
  <2>3. Sheds(w, v, {c})
    BY <1>3, <2>1, <2>2
  <2> QED  BY <2>3 DEF v
<1> QED  BY <1>4, <1>5

LEMMA DisbandedSheds ==
  ASSUME PartyAssumption, NoneAssumption, NEW w, Proper(w), KnowsLeader(w), NEW o \in Objects, NEW v,
         DisbandedAs(w, o, v)
  PROVE  Sheds(w, v, Members(w, o))
<1> DEFINE S == Members(w, o)
<1>1. \A d \in Chars : d \in S <=> w.party[d] = o
  BY DEF Members
<1> HIDE DEF S
<1>2. \A d \in Chars : v.party[d] = IF d \in S THEN None ELSE w.party[d]
  BY <1>1 DEF DisbandedAs
<1>3. \A d \in Chars : v.rows[d] = w.rows[d] \/ (d \in S /\ v.rows[d] = None)
  BY <1>1 DEF DisbandedAs
<1>4. ASSUME NEW d \in Chars \ S, w.party[d] # None
      PROVE  /\ v.cparty[w.party[d]].id = w.cparty[w.party[d]].id
             /\ v.cparty[w.party[d]].leader =
                  IF w.cparty[w.party[d]].leader \in S THEN None ELSE w.cparty[w.party[d]].leader
  <2>1. w.party[d] \in Objects /\ w.party[d] # o
    BY <1>1, <1>4 DEF Proper, Worlds
  <2>2. v.cparty[w.party[d]] = w.cparty[w.party[d]]
    BY <2>1 DEF DisbandedAs, OthersKept
  <2>3. \A l \in S : l \in Chars /\ w.party[l] = o
    BY DEF Members, S
  <2>4. w.cparty[w.party[d]].leader \notin S
    BY <1>4, <2>1, <2>3, LeaderIsMember
  <2> QED  BY <2>2, <2>4
<1>5. Sheds(w, v, S)
  BY <1>2, <1>3, <1>4 DEF Sheds
<1> QED  BY <1>5 DEF S

\* The lead goes over to d.
LEMMA HandOver ==
  ASSUME PartyAssumption, NoneAssumption, NEW w, Proper(w), NEW o \in Objects, NEW c \in Chars,
         w.party[c] = o, w.cparty[o].leader = c, NEW d \in Chars, d # c, d \in RowsOf(w, c),
         Leads(w, {c})
  PROVE  LET v == SetLeader(w, o, d)
         IN  /\ Leads(v, {}) /\ v.cparty[o].leader # c /\ v.cparty[o].id = d
             /\ \A Z \in SUBSET Chars : Settled(w, Z) /\ (\A g \in Chars : ~w.reload[g])
                                          => HandedOn(v, Z, c, d)
<1> DEFINE v == SetLeader(w, o, d)
<1>1. w \in Worlds /\ w.cparty[o] # None /\ o # None
  BY DEF Proper, Worlds, NoneAssumption
<1>2. Id(w, c) = c /\ w.cparty[o].id = c
  BY <1>1, LeaderIsMember DEF Leads, Id
<1>3. /\ v \in Worlds /\ v.party = w.party
      /\ v.cparty[o] # None /\ v.cparty[o].id = d
      /\ v.cparty[o].leader = IF w.party[d] = o THEN d ELSE None
      /\ \A q \in Objects : q # o => v.cparty[q] = w.cparty[q]
      /\ \A e \in Chars : v.reload[e] <=> w.reload[e] \/ (w.party[e] = o /\ stage[e] = "in")
      /\ \A e \in Chars : v.rows[e] = None <=> w.rows[e] = None
      /\ \A e \in Chars : w.rows[e] # None =>
            /\ v.rows[e].party = IF w.rows[e].party = c THEN d ELSE w.rows[e].party
            /\ v.rows[e].leader <=> e = d \/ (w.rows[e].leader /\ w.rows[e].party # c)
  BY <1>1, <1>2, SetLeaderIs
<1> HIDE DEF v
<1>4. w.rows[d] # None /\ w.rows[d].party = c
  BY DEF RowsOf
<1>5. \A e \in Chars : w.rows[e] # None => (w.rows[e].leader <=> w.rows[e].party = e)
  BY DEF Leads, FlagIsId
<1>6. \A e \in Chars : v.party[e] # None =>
         Id(v, e) = IF w.party[e] = o THEN d ELSE Id(w, e)
  BY <1>3 DEF Id, Proper, Worlds
<1>7. FlagIsId(v)
  BY <1>3, <1>4, <1>5 DEF FlagIsId
<1>8. KnowsLeader(v)
  <2>1. SUFFICES ASSUME NEW e \in Chars, v.party[e] # None
                 PROVE  v.cparty[v.party[e]].leader =
                          IF v.party[Id(v, e)] = v.party[e] THEN Id(v, e) ELSE None
    BY DEF KnowsLeader
  <2>2. CASE w.party[e] = o
    BY <1>3, <1>6, <2>1, <2>2
  <2>3. CASE w.party[e] # o
    <3>1. w.cparty[w.party[e]].leader = IF w.party[Id(w, e)] = w.party[e] THEN Id(w, e) ELSE None
      BY <1>3, <2>1 DEF Leads, KnowsLeader
    <3>2. v.cparty[w.party[e]] = w.cparty[w.party[e]]
      BY <1>3, <2>1, <2>3 DEF Proper, Worlds
    <3> QED  BY <1>3, <1>6, <2>1, <2>3, <3>1, <3>2
  <2> QED  BY <2>2, <2>3
<1>9. LeadersAreIn(v, {})
  <2>1. SUFFICES ASSUME NEW e \in Chars, v.party[e] # None, v.party[Id(v, e)] = v.party[e]
                 PROVE  v.rows[Id(v, e)] # None /\ v.rows[Id(v, e)].party = Id(v, e)
    BY DEF LeadersAreIn
  <2>2. CASE w.party[e] = o
    BY <1>3, <1>4, <1>6, <2>1, <2>2
  <2>3. CASE w.party[e] # o
    <3> DEFINE x == Id(w, e)
    <3>1. Id(v, e) = x /\ x \in Chars /\ w.party[e] # None
      BY <1>3, <1>6, <2>1, <2>3, IdIs
    <3> HIDE DEF x
    <3>2. w.party[x] = w.party[e] /\ x # c
      BY <1>3, <2>1, <2>3, <3>1
    <3>3. w.rows[x] # None /\ w.rows[x].party = x
      BY <3>1, <3>2 DEF Leads, LeadersAreIn, x
    <3> QED  BY <1>3, <3>1, <3>2, <3>3
  <2> QED  BY <2>2, <2>3
<1>10. v.cparty[o].leader # c
  BY <1>3 DEF PartyAssumption
<1>11. ASSUME NEW Z \in SUBSET Chars, Settled(w, Z), \A g \in Chars : ~w.reload[g]
       PROVE  HandedOn(v, Z, c, d)
  <2>1. RowsOf(v, c) = {}
    BY <1>3 DEF RowsOf
  <2>2. v.rows[d] # None /\ v.rows[d].party = d
    BY <1>3, <1>4
  <2>3. \A g \in Chars : v.reload[g] /\ v.party[g] # None => Id(v, g) # c
    BY <1>3, <1>6, <1>11
  <2>4. ASSUME NEW e \in Z, v.rows[e] # None
        PROVE  v.party[e] # None /\ (Id(v, e) = v.rows[e].party \/ (Id(v, e) = c /\ v.rows[e].party = d))
    <3>1. w.rows[e] # None /\ w.party[e] # None /\ Id(w, e) = w.rows[e].party
      BY <1>3, <1>11, <2>4 DEF Settled
    <3>2. w.party[e] = o => Id(w, e) = c
      BY <1>2 DEF Id
    <3> QED  BY <1>3, <1>6, <3>1, <3>2
  <2> QED  BY <2>1, <2>2, <2>3, <2>4 DEF HandedOn
<1>12. /\ Leads(v, {}) /\ v.cparty[o].leader # c /\ v.cparty[o].id = d
       /\ \A Z \in SUBSET Chars : Settled(w, Z) /\ (\A g \in Chars : ~w.reload[g])
                                    => HandedOn(v, Z, c, d)
  BY <1>3, <1>7, <1>8, <1>9, <1>10, <1>11 DEF Leads
<1> QED  BY <1>12 DEF v

-----------------------------------------------------------------------------
(* Removals at rest.                                                       *)

\* Who has a row is in its copy, or in none and will hear of it.
Clear(w, Z) ==
  \A c \in Z : w.rows[c] # None =>
    IF w.party[c] = None THEN Reloading(w.rows[c].party) \in Posted(w.sent)
    ELSE Id(w, c) = w.rows[c].party

\* What a handler may make of a world that was settled.
Fits(w, Z) ==
  /\ Leads(w, {})
  /\ \A m \in Posted(w.sent) : m.type # "Answer"
  /\ \/ Clear(w, Z)
     \/ /\ \A m \in Posted(w.sent) : m.type # "Kick"
        /\ \E i, d \in Chars : HandedOn(w, Z, i, d) /\ Reloading(d) \in Posted(w.sent)

\* Nobody gets a copy or a row.
Shrinks(w, v) ==
  \A c \in Chars : /\ v.party[c] # None => v.party[c] = w.party[c]
                   /\ v.rows[c] # None => w.rows[c] # None

LEMMA MoreLeads ==
  ASSUME NEW w, NEW S, NEW T, Leads(w, S), S \subseteq T
  PROVE  Leads(w, T)
BY DEF Leads, LeadersAreIn

LEMMA SettledIsClear ==
  ASSUME NEW w, NEW Z, Settled(w, Z)
  PROVE  Clear(w, Z)
BY DEF Settled, Clear

LEMMA ReloadingIs ==
  ASSUME NEW id \in Chars
  PROVE  Reloading(id) \in Message /\ Reloading(id).type = "Reload" /\ Reloading(id).party = id
BY DEF Reloading, Message

LEMMA DisbandingIs ==
  ASSUME NEW id \in Chars
  PROVE  Disbanding(id) \in Message /\ Disbanding(id).type = "Disband" /\ Disbanding(id).party = id
BY DEF Disbanding, Message

\* The first message of a handler.
LEMMA FirstSent ==
  ASSUME NEW w, NEW v, w.sent = <<>>, NEW m \in Message, Sends(w, v, m)
  PROVE  Posted(v.sent) = {m}
<1>1. <<>> \in Seq(Message)
  OBVIOUS
<1>2. Posted(<<>>) = {}
  BY <1>1, PostedIs
<1>3. Posted(Append(<<>>, m)) = Posted(<<>>) \cup {m}
  BY <1>1, PostedIs
<1>4. v.sent = Append(<<>>, m)
  BY DEF Sends
<1> QED  BY <1>2, <1>3, <1>4

LEMMA RemovedFits ==
  ASSUME PartyAssumption, NoneAssumption, NEW w, Proper(w), NEW Z \in SUBSET Chars,
         NEW c \in Chars, w.party[c] # None, Leads(w, {c}), Settled(w, Z),
         \A g \in Chars : ~w.reload[g], w.sent = <<>>, NEW v \in Removed(w, c)
  PROVE  Fits(v, Z) /\ Shrinks(w, v) /\ v.party[c] = None /\ v.rows[c] = None
<1> DEFINE o == w.party[c]
<1>1. w \in Worlds /\ o \in Objects /\ w.cparty[o] # None /\ w.cparty[o].id \in Chars
  BY IdIs DEF Proper
<1>2. None \notin Chars
  BY DEF PartyAssumption
<1> HIDE DEF o
<1>3. w.party[c] = o
  BY DEF o
<1>4. RemovedAs(w, c, o, v)
  BY <1>1, <1>3, RemovedIs
<1>5. CASE w.cparty[o].leader # c /\ v = Dropped(w, c)
  <2>1. Sheds(w, v, {c})
    BY <1>3, <1>5, UnlinkedSheds DEF Leads, o
  <2>2. /\ Sends(w, v, Reloading(w.cparty[o].id))
        /\ \A d \in Chars : v.rows[d] = IF d = c THEN None ELSE w.rows[d]
        /\ v.party[c] = None /\ \A d \in Chars \ {c} : v.party[d] = w.party[d]
    BY <1>1, <1>3, <1>5, DroppedIs
  <2>3. Leads(v, {}) /\ Settled(v, Z)
    BY <1>2, <2>1, <2>2, ShedLeads, ShedSettled
  <2>4. Posted(v.sent) = {Reloading(w.cparty[o].id)}
    BY <1>1, <2>2, FirstSent, ReloadingIs
  <2>5. \A m \in Posted(v.sent) : m.type = "Reload"
    BY <1>1, <2>4, ReloadingIs
  <2> QED  BY <2>2, <2>3, <2>5, SettledIsClear DEF Fits, Shrinks
<1>6. CASE v = Disbanded(w, o, TRUE) /\ w.cparty[o].leader = c
  <2>1. DisbandedAs(w, o, v) /\ Sends(w, v, Disbanding(w.cparty[o].id))
    BY <1>1, <1>6, DisbandedIs
  <2>2. Sheds(w, v, Members(w, o))
    BY <1>1, <2>1, DisbandedSheds DEF Leads
  <2>3. Leads(w, Members(w, o)) /\ None \notin Members(w, o)
    BY <1>2, <1>3, MoreLeads DEF Members
  <2>4. Leads(v, {})
    BY <2>2, <2>3, ShedLeads
  <2>5. \A d \in Members(w, o) : v.rows[d] = None
    BY <2>1 DEF DisbandedAs, Members
  <2>6. Settled(v, Z)
    BY <2>2, <2>5, ShedSettled
  <2>7. Posted(v.sent) = {Disbanding(w.cparty[o].id)}
    BY <1>1, <2>1, FirstSent, DisbandingIs
  <2>8. \A m \in Posted(v.sent) : m.type = "Disband"
    BY <1>1, <2>7, DisbandingIs
  <2>9. Shrinks(w, v) /\ v.party[c] = None /\ v.rows[c] = None
    BY <1>3, <2>1 DEF DisbandedAs, Shrinks
  <2> QED  BY <2>4, <2>6, <2>8, <2>9, SettledIsClear DEF Fits
<1>7. CASE /\ w.cparty[o].leader = c
           /\ \E d \in RowsOf(w, w.cparty[o].id) :
              /\ ~w.rows[d].leader
              /\ v = IF w.party[d] = o /\ d = c THEN Disbanded(SetLeader(w, o, d), o, TRUE)
                     ELSE Dropped(SetLeader(w, o, d), c)
  <2>1. PICK d \in RowsOf(w, w.cparty[o].id) :
              /\ ~w.rows[d].leader
              /\ v = IF w.party[d] = o /\ d = c THEN Disbanded(SetLeader(w, o, d), o, TRUE)
                     ELSE Dropped(SetLeader(w, o, d), c)
    BY <1>7
  <2>2. w.cparty[o].id = c
    BY <1>3, <1>7, <1>2, <1>1, LeaderIsMember DEF Leads, Id, NoneAssumption
  <2>3. d \in Chars /\ w.rows[d] # None /\ w.rows[d].party = c /\ d \in RowsOf(w, c)
    BY <2>1, <2>2 DEF RowsOf
  <2>4. d # c
    BY <2>1, <2>3 DEF Leads, FlagIsId
  <2> DEFINE u == SetLeader(w, o, d)
  <2>5. Proper(u) /\ u.party = w.party /\ u.sent = <<>> /\ u.rows[d] # None
        /\ \A e \in Chars : u.rows[e] = None <=> w.rows[e] = None
    BY <1>1, <2>3, SetLeaderIs, SetLeaderIsProper
  <2>6. /\ Leads(u, {}) /\ u.cparty[o].leader # c /\ u.cparty[o].id = d
        /\ \A Y \in SUBSET Chars : Settled(w, Y) /\ (\A g \in Chars : ~w.reload[g])
                                     => HandedOn(u, Y, c, d)
    BY <1>1, <1>3, <1>7, <2>3, <2>4, HandOver
  <2>7. v = Dropped(u, c)
    BY <2>1, <2>4
  <2> HIDE DEF u
  <2>8. u \in Worlds /\ u.party[c] = o /\ u.party[c] # None /\ u.cparty[o] # None
    BY <1>1, <1>3, <2>5 DEF Proper, NoneAssumption
  <2>9. Sheds(u, v, {c})
    BY <2>5, <2>6, <2>7, <2>8, UnlinkedSheds DEF Leads
  <2>10. /\ v.reload = u.reload
         /\ Sends(u, v, Reloading(u.cparty[o].id))
         /\ \A e \in Chars : v.rows[e] = IF e = c THEN None ELSE u.rows[e]
         /\ v.party[c] = None /\ \A e \in Chars \ {c} : v.party[e] = u.party[e]
    BY <1>1, <2>7, <2>8, DroppedIs
  <2>11. Leads(u, {c})
    BY <2>6, MoreLeads
  <2>12. Leads(v, {})
    BY <1>2, <2>5, <2>9, <2>11, ShedLeads
  <2>13. HandedOn(u, Z, c, d)
    BY <2>6
  <2>14. HandedOn(v, Z, c, d)
    BY <2>3, <2>4, <2>9, <2>10, <2>13, ShedHandedOn
  <2>15. Posted(v.sent) = {Reloading(d)}
    <3>1. Sends(u, v, Reloading(d)) /\ Reloading(d) \in Message
      BY <2>3, <2>6, <2>10, ReloadingIs
    <3> QED  BY <2>5, <3>1, FirstSent
  <2>16. \A m \in Posted(v.sent) : m.type = "Reload"
    BY <2>3, <2>15, ReloadingIs
  <2>17. Shrinks(w, v)
    BY <2>5, <2>10 DEF Shrinks
  <2> QED  BY <2>3, <2>10, <2>12, <2>14, <2>15, <2>16, <2>17 DEF Fits
<1> QED  BY <1>4, <1>5, <1>6, <1>7 DEF RemovedAs

-----------------------------------------------------------------------------
(* New parties and new members.                                            *)

\* All that a new party of one changes.
FoundedAs(w, c, o, v) ==
  /\ Proper(v) /\ Leads(v, {}) /\ v.party[c] = o /\ v.cparty[o].leader = c
  /\ \A d \in Chars \ {c} : v.party[d] = w.party[d] /\ w.party[d] # o
  /\ v.rows[c] # None /\ v.rows[c].party = c
  /\ \A d \in Chars \ {c} : v.rows[d] = None <=> w.rows[d] = None
  /\ \A d \in Chars \ {c} : w.rows[d] # None => v.rows[d].party = w.rows[d].party
  /\ Sends(w, v, Reloading(c))
  /\ \A Z \in SUBSET Chars : Settled(w, Z) => Settled(v, Z)

LEMMA FoundedLeads ==
  ASSUME PartyAssumption, NoneAssumption, NEW w, Proper(w), NEW c \in Chars,
         w.party[c] = None, w.rows[c] = None, server[c] # None, Leads(w, {})
  PROVE  \E o \in Objects : FoundedAs(w, c, o, Founded(w, c))
<1> DEFINE v == Founded(w, c)
           o == Unused(w)
<1>1. w \in Worlds
  BY DEF Proper
<1>2. /\ v \in Worlds /\ v.lost = w.lost
      /\ o \in Objects /\ \A d \in Chars : w.party[d] # o
      /\ v.party[c] = o /\ \A d \in Chars \ {c} : v.party[d] = w.party[d]
      /\ v.cparty[o] # None /\ v.cparty[o].id = c /\ v.cparty[o].leader = c
      /\ \A q \in Objects : q # o => v.cparty[q] = w.cparty[q]
      /\ Sends(w, v, Reloading(c))
      /\ \A d \in Chars : v.reload[d] <=> w.reload[d] \/ (d = c /\ stage[d] = "in")
      /\ \A d \in Chars \ {c} : v.rows[d] = None <=> w.rows[d] = None
      /\ \A d \in Chars \ {c} : w.rows[d] # None =>
            /\ v.rows[d].party = w.rows[d].party
            /\ v.rows[d].leader <=> w.rows[d].leader /\ w.rows[d].party # c
      /\ w.rows[c] = None /\ server[c] # None =>
            v.rows[c] # None /\ v.rows[c].party = c /\ v.rows[c].leader
  BY <1>1, FoundedIs
<1>3. Proper(v)
  BY FoundedIsProper
<1> HIDE DEF v, o
<1>4. v.rows[c] # None /\ v.rows[c].party = c /\ v.rows[c].leader
  BY <1>2
<1>5. FlagIsId(v)
  <2>1. SUFFICES ASSUME NEW d \in Chars, v.rows[d] # None
                 PROVE  v.rows[d].leader <=> v.rows[d].party = d
    BY DEF FlagIsId
  <2>2. CASE d = c
    BY <1>4, <2>2
  <2>3. CASE d # c
    <3>1. w.rows[d] # None /\ (w.rows[d].leader <=> w.rows[d].party = d)
      BY <1>2, <2>1, <2>3 DEF Leads, FlagIsId
    <3> QED  BY <1>2, <2>3, <3>1
  <2> QED  BY <2>2, <2>3
<1>6. ASSUME NEW d \in Chars \ {c}, v.party[d] # None
      PROVE  /\ w.party[d] = v.party[d] /\ w.party[d] # o /\ v.cparty[v.party[d]] = w.cparty[w.party[d]]
             /\ Id(v, d) = Id(w, d) /\ Id(w, d) \in Chars
  <2>1. w.party[d] = v.party[d] /\ w.party[d] # o
    BY <1>2
  <2>2. w.party[d] \in Objects /\ Id(w, d) \in Chars
    BY <1>6, <2>1, IdIs
  <2>3. v.cparty[v.party[d]] = w.cparty[w.party[d]]
    BY <1>2, <2>1, <2>2
  <2> QED  BY <2>1, <2>2, <2>3 DEF Id
<1>7. Id(v, c) = c
  BY <1>2 DEF Id
<1>8. KnowsLeader(v)
  <2>1. SUFFICES ASSUME NEW d \in Chars, v.party[d] # None
                 PROVE  v.cparty[v.party[d]].leader =
                          IF v.party[Id(v, d)] = v.party[d] THEN Id(v, d) ELSE None
    BY DEF KnowsLeader
  <2>2. CASE d = c
    BY <1>2, <1>7, <2>2
  <2>3. CASE d # c
    <3> DEFINE x == Id(w, d)
    <3>1. /\ w.party[d] = v.party[d] /\ w.party[d] # o /\ v.cparty[v.party[d]] = w.cparty[w.party[d]]
          /\ Id(v, d) = x /\ x \in Chars
      BY <1>6, <2>1, <2>3
    <3>2. w.cparty[w.party[d]].leader = IF w.party[x] = w.party[d] THEN x ELSE None
      BY <2>1, <3>1 DEF Leads, KnowsLeader
    <3> HIDE DEF x
    <3>3. CASE x = c
      BY <1>2, <2>1, <3>1, <3>2, <3>3
    <3>4. CASE x # c
      BY <1>2, <3>1, <3>2, <3>4
    <3> QED  BY <3>3, <3>4
  <2> QED  BY <2>2, <2>3
<1>9. LeadersAreIn(v, {})
  <2>1. SUFFICES ASSUME NEW d \in Chars, v.party[d] # None, v.party[Id(v, d)] = v.party[d]
                 PROVE  v.rows[Id(v, d)] # None /\ v.rows[Id(v, d)].party = Id(v, d)
    BY DEF LeadersAreIn
  <2>2. CASE d = c
    BY <1>4, <1>7, <2>2
  <2>3. CASE d # c
    <3> DEFINE x == Id(w, d)
    <3>1. /\ w.party[d] = v.party[d] /\ w.party[d] # o /\ Id(v, d) = x /\ x \in Chars
      BY <1>6, <2>1, <2>3
    <3> HIDE DEF x
    <3>2. x # c /\ w.party[x] = w.party[d]
      BY <1>2, <2>1, <3>1
    <3>3. w.rows[x] # None /\ w.rows[x].party = x
      BY <2>1, <3>1, <3>2 DEF Leads, LeadersAreIn, x
    <3> QED  BY <1>2, <3>1, <3>2, <3>3
  <2> QED  BY <2>2, <2>3
<1>10. ASSUME NEW Z \in SUBSET Chars, Settled(w, Z) PROVE Settled(v, Z)
  <2>1. SUFFICES ASSUME NEW d \in Z, v.rows[d] # None
                 PROVE  v.party[d] # None /\ Id(v, d) = v.rows[d].party
    BY DEF Settled
  <2>2. CASE d = c
    BY <1>2, <1>4, <1>7, <2>2 DEF NoneAssumption
  <2>3. CASE d # c
    <3>1. w.rows[d] # None /\ w.party[d] # None /\ Id(w, d) = w.rows[d].party
      BY <1>2, <1>10, <2>1, <2>3 DEF Settled
    <3> QED  BY <1>2, <1>6, <2>3, <3>1
  <2> QED  BY <2>2, <2>3
<1>11. FoundedAs(w, c, o, v)
  BY <1>2, <1>3, <1>4, <1>5, <1>8, <1>9, <1>10 DEF FoundedAs, Leads
<1> QED  BY <1>2, <1>11 DEF v

\* A character comes to the copy its leader a has.
LEMMA AddedLeads ==
  ASSUME PartyAssumption, NoneAssumption, NEW w, Proper(w), NEW a \in Chars, NEW o \in Objects,
         w.party[a] = o, w.cparty[o].leader = a, NEW c \in Chars, c # a,
         w.party[c] = None, w.rows[c] = None, server[c] # None, Leads(w, {})
  PROVE  LET v == Added(w, o, c)
         IN  /\ Proper(v) /\ Leads(v, {}) /\ v.party[c] = o
             /\ \A d \in Chars \ {c} : v.party[d] = w.party[d] /\ v.rows[d] = w.rows[d]
             /\ Sends(w, v, Reloading(a))
             /\ \A Z \in SUBSET Chars : Settled(w, Z) => Settled(v, Z)
<1> DEFINE v == Added(w, o, c)
<1>1. w \in Worlds /\ o # None /\ w.cparty[o] # None
  BY DEF Proper, NoneAssumption
<1>2. w.cparty[o].id = a
  BY <1>1, LeaderIsMember DEF Leads, Id
<1>3. /\ v \in Worlds /\ v.cparty = w.cparty
      /\ Sends(w, v, Reloading(a))
      /\ v.party[c] = o /\ \A d \in Chars \ {c} : v.party[d] = w.party[d]
      /\ \A d \in Chars : d # c \/ w.rows[d] # None \/ server[d] = None => v.rows[d] = w.rows[d]
      /\ w.rows[c] = None /\ server[c] # None =>
             v.rows[c] # None /\ v.rows[c].party = a /\ ~v.rows[c].leader
  BY <1>1, <1>2, AddedIs
<1>4. Proper(v)
  BY <1>1, AddedIsProper
<1> HIDE DEF v
<1>5. /\ v.rows[c] # None /\ v.rows[c].party = a /\ ~v.rows[c].leader
      /\ \A d \in Chars \ {c} : v.rows[d] = w.rows[d]
  BY <1>3
<1>6. FlagIsId(v)
  BY <1>5 DEF FlagIsId, Leads
<1>7. Id(v, c) = a /\ \A d \in Chars \ {c} : Id(v, d) = Id(w, d)
  BY <1>2, <1>3 DEF Id
<1>8. KnowsLeader(v)
  <2>1. SUFFICES ASSUME NEW d \in Chars, v.party[d] # None
                 PROVE  v.cparty[v.party[d]].leader =
                          IF v.party[Id(v, d)] = v.party[d] THEN Id(v, d) ELSE None
    BY DEF KnowsLeader
  <2>2. CASE d = c
    BY <1>3, <1>7, <2>2
  <2>3. CASE d # c
    <3> DEFINE x == Id(w, d)
    <3>1. w.party[d] = v.party[d] /\ Id(v, d) = x /\ x \in Chars
      BY <1>3, <1>7, <2>1, <2>3, IdIs
    <3>2. w.cparty[w.party[d]].leader = IF w.party[x] = w.party[d] THEN x ELSE None
      BY <2>1, <3>1 DEF Leads, KnowsLeader
    <3>3. w.party[d] = o => x = a
      BY <1>2 DEF Id
    <3> HIDE DEF x
    <3>4. CASE x = c
      BY <1>3, <2>1, <3>1, <3>2, <3>3, <3>4
    <3>5. CASE x # c
      BY <1>3, <3>1, <3>2, <3>5
    <3> QED  BY <3>4, <3>5
  <2> QED  BY <2>2, <2>3
<1>9. LeadersAreIn(v, {})
  <2>1. SUFFICES ASSUME NEW d \in Chars, v.party[d] # None, v.party[Id(v, d)] = v.party[d]
                 PROVE  v.rows[Id(v, d)] # None /\ v.rows[Id(v, d)].party = Id(v, d)
    BY DEF LeadersAreIn
  <2>2. w.rows[a] # None /\ w.rows[a].party = a
    BY <1>1, <1>2 DEF Leads, LeadersAreIn, Id
  <2>3. CASE v.party[d] = o
    <3>1. Id(v, d) = a
      BY <1>2, <1>3, <2>3 DEF Id
    <3> QED  BY <1>5, <2>2, <3>1
  <2>4. CASE v.party[d] # o
    <3> DEFINE x == Id(w, d)
    <3>1. d # c /\ w.party[d] = v.party[d] /\ Id(v, d) = x /\ x \in Chars
      BY <1>3, <1>7, <2>1, <2>4, IdIs
    <3> HIDE DEF x
    <3>2. x # c /\ w.party[x] = w.party[d]
      BY <1>3, <2>1, <2>4, <3>1
    <3>3. w.rows[x] # None /\ w.rows[x].party = x
      BY <2>1, <3>1, <3>2 DEF Leads, LeadersAreIn, x
    <3> QED  BY <1>5, <3>1, <3>2, <3>3
  <2> QED  BY <2>3, <2>4
<1>10. ASSUME NEW Z \in SUBSET Chars, Settled(w, Z) PROVE Settled(v, Z)
  BY <1>1, <1>3, <1>5, <1>7, <1>10 DEF Settled
<1>11. /\ Proper(v) /\ Leads(v, {}) /\ v.party[c] = o
       /\ \A d \in Chars \ {c} : v.party[d] = w.party[d] /\ v.rows[d] = w.rows[d]
       /\ Sends(w, v, Reloading(a))
       /\ \A Z \in SUBSET Chars : Settled(w, Z) => Settled(v, Z)
  BY <1>3, <1>4, <1>5, <1>6, <1>8, <1>9, <1>10 DEF Leads
<1> QED  BY <1>11 DEF v

\* A character elsewhere gets the row alone.
LEMMA AddedByIdLeads ==
  ASSUME PartyAssumption, NoneAssumption, NEW w, Proper(w), NEW a \in Chars, NEW o \in Objects,
         w.party[a] = o, w.cparty[o].leader = a, NEW c \in Chars, c # a,
         w.rows[c] = None, server[c] # None, Leads(w, {}), ~IsFull(w, o)
  PROVE  LET v == AddedById(w, o, c)
         IN  /\ Proper(v) /\ Leads(v, {}) /\ v.party = w.party /\ v.cparty = w.cparty
             /\ v.rows[c] # None /\ v.rows[c].party = a
             /\ \A d \in Chars \ {c} : v.rows[d] = w.rows[d]
             /\ Sends(w, v, Reloading(a))
<1> DEFINE v == AddedById(w, o, c)
<1>1. w \in Worlds /\ o # None /\ w.cparty[o] # None
  BY DEF Proper, NoneAssumption
<1>2. w.cparty[o].id = a
  BY <1>1, LeaderIsMember DEF Leads, Id
<1>3. /\ v \in Worlds /\ v.party = w.party /\ v.cparty = w.cparty
      /\ Sends(w, v, Reloading(a))
      /\ \A d \in Chars : d # c \/ w.rows[d] # None \/ server[d] = None => v.rows[d] = w.rows[d]
      /\ w.rows[c] = None /\ server[c] # None =>
             v.rows[c] # None /\ v.rows[c].party = a /\ ~v.rows[c].leader
  BY <1>1, <1>2, AddedByIdIs
<1>4. Proper(v)
  BY <1>1, AddedIsProper
<1> HIDE DEF v
<1>5. /\ v.rows[c] # None /\ v.rows[c].party = a /\ ~v.rows[c].leader
      /\ \A d \in Chars \ {c} : v.rows[d] = w.rows[d]
  BY <1>3
<1>6. FlagIsId(v)
  BY <1>5 DEF FlagIsId, Leads
<1>7. \A d \in Chars : Id(v, d) = Id(w, d)
  BY <1>3 DEF Id
<1>8. KnowsLeader(v)
  BY <1>3, <1>7 DEF KnowsLeader, Leads
<1>9. LeadersAreIn(v, {})
  <2>1. SUFFICES ASSUME NEW d \in Chars, v.party[d] # None, v.party[Id(v, d)] = v.party[d]
                 PROVE  v.rows[Id(v, d)] # None /\ v.rows[Id(v, d)].party = Id(v, d)
    BY DEF LeadersAreIn
  <2> DEFINE x == Id(w, d)
  <2>2. Id(v, d) = x /\ x \in Chars /\ w.party[d] # None /\ w.party[x] = w.party[d]
    BY <1>3, <1>7, <2>1, IdIs
  <2>3. w.rows[x] # None /\ w.rows[x].party = x
    BY <2>2 DEF Leads, LeadersAreIn
  <2> HIDE DEF x
  <2> QED  BY <1>5, <2>2, <2>3
<1>10. /\ Proper(v) /\ Leads(v, {}) /\ v.party = w.party /\ v.cparty = w.cparty
       /\ v.rows[c] # None /\ v.rows[c].party = a
       /\ \A d \in Chars \ {c} : v.rows[d] = w.rows[d]
       /\ Sends(w, v, Reloading(a))
  BY <1>3, <1>4, <1>5, <1>6, <1>8, <1>9 DEF Leads
<1> QED  BY <1>10 DEF v

-----------------------------------------------------------------------------
(* Invitations at rest.                                                    *)

Zone == {c \in Chars : stage[c] = "in"}

\* Who is in a party is in memory, and on one process with the others of its
\* copy; who has a row has a session.
Hosted(w) ==
  /\ \A c \in Chars : w.party[c] # None => stage[c] \in {"in", "zoning"}
  /\ \A c, d \in Chars : w.party[c] # None /\ w.party[c] = w.party[d] => server[c] = server[d]
  /\ \A c \in Chars : w.rows[c] # None => server[c] # None /\ stage[c] # "quitting"

LEMMA ShrinksHosted ==
  ASSUME NEW w, NEW v, Hosted(w), Shrinks(w, v)
  PROVE  Hosted(v)
BY DEF Hosted, Shrinks

LEMMA SameLeads ==
  ASSUME NEW w, Proper(w), NEW v, v.cparty = w.cparty,
         \A c \in Chars : v.party[c] = w.party[c] /\ v.rows[c] = w.rows[c]
  PROVE  /\ \A S : Leads(w, S) => Leads(v, S)
         /\ \A Z \in SUBSET Chars : Settled(w, Z) => Settled(v, Z)
         /\ Hosted(w) => Hosted(v)
<1>1. \A c \in Chars : w.party[c] # None => Id(v, c) = Id(w, c) /\ Id(w, c) \in Chars
  BY IdIs DEF Id
<1>2. ASSUME NEW S, Leads(w, S) PROVE Leads(v, S)
  <2>1. FlagIsId(v)
    BY <1>2 DEF Leads, FlagIsId
  <2>2. KnowsLeader(v)
    BY <1>1, <1>2 DEF Leads, KnowsLeader
  <2>3. LeadersAreIn(v, S)
    BY <1>1, <1>2 DEF Leads, LeadersAreIn
  <2> QED  BY <2>1, <2>2, <2>3 DEF Leads
<1>3. ASSUME NEW Z \in SUBSET Chars, Settled(w, Z) PROVE Settled(v, Z)
  BY <1>1, <1>3 DEF Settled
<1>4. ASSUME Hosted(w) PROVE Hosted(v)
  BY <1>4 DEF Hosted
<1> QED  BY <1>2, <1>3, <1>4

LEMMA MoreSent ==
  ASSUME NEW w \in Worlds, NEW v, NEW m \in Message, Sends(w, v, m)
  PROVE  Posted(v.sent) = Posted(w.sent) \cup {m}
<1>1. w.sent \in Seq(Message)
  BY DEF Worlds
<1> QED  BY <1>1, PostedIs DEF Sends

OnlyReloads(w) == \A m \in Posted(w.sent) : m.type = "Reload"

LEMMA OneMoreReload ==
  ASSUME NEW w \in Worlds, NEW v, NEW id \in Chars, Sends(w, v, Reloading(id)), OnlyReloads(w)
  PROVE  OnlyReloads(v) /\ Reloading(id) \in Posted(v.sent)
<1>1. Reloading(id) \in Message /\ Reloading(id).type = "Reload"
  BY ReloadingIs
<1>2. Posted(v.sent) = Posted(w.sent) \cup {Reloading(id)}
  BY <1>1, MoreSent
<1> QED  BY <1>1, <1>2 DEF OnlyReloads

LEMMA NothingSent ==
  ASSUME NEW w, w.sent = <<>>
  PROVE  OnlyReloads(w) /\ Posted(w.sent) = {}
<1>1. <<>> \in Seq(Message)
  OBVIOUS
<1>2. Posted(<<>>) = {}
  BY <1>1, PostedIs
<1> QED  BY <1>2 DEF OnlyReloads

LEMMA SettledFits ==
  ASSUME NEW w, Leads(w, {}), NEW Z, Settled(w, Z), OnlyReloads(w)
  PROVE  Fits(w, Z)
BY SettledIsClear DEF Fits, OnlyReloads

\* What it takes to invite or to be invited.
Ready(w) ==
  /\ Proper(w) /\ Leads(w, {}) /\ Hosted(w) /\ Settled(w, Zone) /\ OnlyReloads(w)

LEMMA FoundedReady ==
  ASSUME PartyAssumption, NoneAssumption, NEW w, Ready(w), NEW a \in Zone, server[a] # None,
         w.party[a] = None
  PROVE  LET v == Founded(w, a)
         IN  /\ Ready(v) /\ LeadsIn(v, a) /\ v.rows[a] # None
             /\ \A c \in Chars \ {a} : v.party[c] = w.party[c]
             /\ \A c \in Chars \ {a} : v.rows[c] = None <=> w.rows[c] = None
<1>1. w.rows[a] = None /\ a \in Chars
  BY DEF Ready, Settled, Zone
<1> DEFINE v == Founded(w, a)
<1>2. PICK o \in Objects : FoundedAs(w, a, o, v)
  BY <1>1, FoundedLeads DEF Ready
<1> HIDE DEF v
<1>3. /\ Proper(v) /\ Leads(v, {}) /\ v.party[a] = o /\ v.cparty[o].leader = a
      /\ \A d \in Chars \ {a} : v.party[d] = w.party[d] /\ w.party[d] # o
      /\ v.rows[a] # None
      /\ \A d \in Chars \ {a} : v.rows[d] = None <=> w.rows[d] = None
      /\ Sends(w, v, Reloading(a))
      /\ Settled(v, Zone)
  BY <1>2 DEF FoundedAs, Ready, Zone
<1>4. OnlyReloads(v)
  BY <1>1, <1>3, OneMoreReload DEF Ready, Proper
<1>5. Hosted(v)
  BY <1>3 DEF Hosted, Ready, Zone
<1>6. LeadsIn(v, a)
  BY <1>3 DEF LeadsIn, NoneAssumption
<1> QED  BY <1>3, <1>4, <1>5, <1>6 DEF Ready, v

LEMMA LeadsInIs ==
  ASSUME NEW w, Proper(w), NEW a \in Chars, LeadsIn(w, a)
  PROVE  /\ w.party[a] \in Objects /\ w.cparty[w.party[a]] # None
         /\ w.cparty[w.party[a]].leader = a /\ w.party[a] # None
BY DEF LeadsIn, Proper, Worlds

LEMMA JoinedFits ==
  ASSUME PartyAssumption, NoneAssumption, NEW w, Ready(w), NEW a \in Zone, NEW b \in Zone,
         server[a] = server[b], server[b] # None, w.party[b] = None
  PROVE  Ready(Joined(w, a, b))
<1> DEFINE u == IF w.party[a] = None THEN Founded(w, a) ELSE w
           o == u.party[a]
           v == Added(u, o, b)
<1>1. a \in Chars /\ b \in Chars /\ w.rows[b] = None
  BY DEF Ready, Settled, Zone
<1>2. Joined(w, a, b) = IF LeadsIn(u, a) /\ ~IsFull(u, o) THEN v ELSE u
  BY DEF Joined
<1>3. /\ Ready(u) /\ u.party[a] # None
      /\ IF a = b THEN u.rows[b] # None ELSE u.rows[b] = None /\ u.party[b] = None
  <2>1. CASE w.party[a] = None
    <3>1. LET x == Founded(w, a)
          IN  /\ Ready(x) /\ LeadsIn(x, a) /\ x.rows[a] # None
              /\ \A c \in Chars \ {a} : x.party[c] = w.party[c]
              /\ \A c \in Chars \ {a} : x.rows[c] = None <=> w.rows[c] = None
      BY <2>1, FoundedReady
    <3>2. u = Founded(w, a)
      BY <2>1
    <3> HIDE DEF u
    <3> QED  BY <1>1, <3>1, <3>2 DEF LeadsIn
  <2>2. CASE w.party[a] # None
    BY <1>1, <2>2
  <2> QED  BY <2>1, <2>2
<1> HIDE DEF u
<1>4. ASSUME LeadsIn(u, a) PROVE Ready(v)
  <2>1. /\ o \in Objects /\ u.cparty[o] # None /\ u.cparty[o].leader = a /\ o # None
        /\ Proper(u) /\ u \in Worlds
    BY <1>1, <1>3, <1>4, LeadsInIs DEF Ready, Proper
  <2>2. u.cparty[o].id = a
    BY <1>1, <1>3, <2>1, LeaderIsMember DEF Ready, Leads, Id
  <2>3. CASE a # b
    <3>1. /\ Proper(v) /\ Leads(v, {}) /\ v.party[b] = o
          /\ \A d \in Chars \ {b} : v.party[d] = u.party[d] /\ v.rows[d] = u.rows[d]
          /\ Sends(u, v, Reloading(a))
          /\ \A Z \in SUBSET Chars : Settled(u, Z) => Settled(v, Z)
      BY <1>1, <1>3, <2>1, <2>3, AddedLeads DEF Ready
    <3> HIDE DEF v
    <3>2. OnlyReloads(v)
      BY <1>1, <1>3, <2>1, <3>1, OneMoreReload DEF Ready
    <3>3. Settled(v, Zone)
      BY <1>3, <3>1 DEF Ready, Zone
    <3>4. Hosted(v)
      <4>1. \A c \in Chars : v.party[c] # None => stage[c] \in {"in", "zoning"}
        BY <1>3, <3>1 DEF Hosted, Ready, Zone
      <4>2. \A c \in Chars : v.party[c] = o => server[c] = server[b]
        BY <1>1, <1>3, <2>1, <3>1 DEF Hosted, Ready
      <4>3. \A c, d \in Chars : v.party[c] # None /\ v.party[c] = v.party[d] => server[c] = server[d]
        <5>1. SUFFICES ASSUME NEW c \in Chars, NEW d \in Chars, v.party[c] # None, v.party[c] = v.party[d]
                       PROVE server[c] = server[d]
          OBVIOUS
        <5>2. CASE v.party[c] = o
          BY <4>2, <5>1, <5>2
        <5>3. CASE v.party[c] # o
          BY <1>3, <3>1, <5>1, <5>3 DEF Hosted, Ready
        <5> QED  BY <5>2, <5>3
      <4>4. \A c \in Chars : v.rows[c] # None => server[c] # None /\ stage[c] # "quitting"
        BY <1>3, <3>1 DEF Hosted, Ready, Zone
      <4> QED  BY <4>1, <4>3, <4>4 DEF Hosted
    <3> QED  BY <3>1, <3>2, <3>3, <3>4 DEF Ready
  <2>4. CASE a = b
    <3>1. /\ v \in Worlds /\ v.cparty = u.cparty
          /\ Sends(u, v, Reloading(a))
          /\ v.party[b] = o /\ \A d \in Chars \ {b} : v.party[d] = u.party[d]
          /\ \A d \in Chars : d # b \/ u.rows[d] # None \/ server[d] = None => v.rows[d] = u.rows[d]
      BY <1>1, <2>1, <2>2, AddedIs
    <3>2. Proper(v)
      BY <1>1, <2>1, AddedIsProper
    <3>3. u.party[b] = o /\ u.rows[b] # None
      BY <1>3, <2>4
    <3> HIDE DEF v, o
    <3>4. \A c \in Chars : v.party[c] = u.party[c] /\ v.rows[c] = u.rows[c]
      BY <3>1, <3>3
    <3>5. OnlyReloads(v)
      BY <1>1, <1>3, <2>1, <3>1, OneMoreReload DEF Ready
    <3>6. Zone \in SUBSET Chars
      BY DEF Zone
    <3> QED  BY <1>3, <3>1, <3>2, <3>4, <3>5, <3>6, SameLeads DEF Ready
  <2> QED  BY <2>3, <2>4
<1> QED  BY <1>2, <1>3, <1>4

-----------------------------------------------------------------------------
(* Break-ups, kicks, and answers at rest.                                  *)

LEMMA DisbandedLeads ==
  ASSUME PartyAssumption, NoneAssumption, NEW w, Proper(w), NEW o \in Objects, NEW v,
         DisbandedAs(w, o, v), NEW S, Leads(w, S), S \subseteq Members(w, o)
  PROVE  /\ Leads(v, {}) /\ Shrinks(w, v)
         /\ \A Z \in SUBSET Chars : Settled(w, Z) => Settled(v, Z)
<1>1. Sheds(w, v, Members(w, o))
  BY DisbandedSheds DEF Leads
<1>2. Leads(w, Members(w, o)) /\ None \notin Members(w, o)
  BY MoreLeads DEF Members, PartyAssumption
<1>3. Leads(v, {})
  BY <1>1, <1>2, ShedLeads
<1>4. \A d \in Members(w, o) : v.rows[d] = None
  BY DEF DisbandedAs, Members
<1>5. \A Z \in SUBSET Chars : Settled(w, Z) => Settled(v, Z)
  BY <1>1, <1>4, ShedSettled
<1>6. Shrinks(w, v)
  BY DEF DisbandedAs, Shrinks
<1> QED  BY <1>3, <1>5, <1>6

LEMMA DisbandedFits ==
  ASSUME PartyAssumption, NoneAssumption, NEW w, Ready(w), w.sent = <<>>, NEW o \in Objects, w.cparty[o] # None
  PROVE  LET v == Disbanded(w, o, TRUE) IN Proper(v) /\ Fits(v, Zone) /\ Shrinks(w, v)
<1> DEFINE v == Disbanded(w, o, TRUE)
<1>1. w \in Worlds /\ Proper(w) /\ w.cparty[o].id \in Chars /\ {} \subseteq Members(w, o)
  BY DEF Ready, Proper, Worlds, CParty
<1>2. DisbandedAs(w, o, v) /\ Sends(w, v, Disbanding(w.cparty[o].id))
  BY <1>1, DisbandedIs
<1> HIDE DEF v
<1>3. Proper(v)
  BY <1>1, <1>2, DisbandedIsProper
<1>4. Leads(v, {}) /\ Shrinks(w, v) /\ \A Z \in SUBSET Chars : Settled(w, Z) => Settled(v, Z)
  BY <1>1, <1>2, DisbandedLeads DEF Ready
<1>5. Settled(v, Zone)
  BY <1>4 DEF Ready, Zone
<1>6. Posted(v.sent) = {Disbanding(w.cparty[o].id)}
  BY <1>1, <1>2, FirstSent, DisbandingIs
<1>7. \A m \in Posted(v.sent) : m.type = "Disband"
  BY <1>1, <1>6, DisbandingIs
<1> QED  BY <1>3, <1>4, <1>5, <1>7, SettledIsClear DEF Fits, v

LEMMA KickingIs ==
  ASSUME NEW c \in Chars
  PROVE  Kicking(c) \in Message /\ Kicking(c).type = "Kick" /\ Kicking(c).to = c
BY DEF Kicking, Message

LEMMA KickedFits ==
  ASSUME PartyAssumption, NoneAssumption, NEW w, Ready(w), w.sent = <<>>, NEW a \in Chars, LeadsIn(w, a),
         NEW c \in RowsOf(w, a), c # a, NEW v \in Kicked(w, a, c)
  PROVE  Proper(v) /\ Fits(v, Zone) /\ Shrinks(w, v)
<1>1. c \in Chars /\ w.rows[c] # None /\ w.rows[c].party = a
  BY DEF RowsOf
<1>2. w \in Worlds /\ Proper(w) /\ Id(w, a) \in Chars
  BY LeadsInIs, IdIs DEF Ready, Proper
<1>3. KickedAs(w, a, c, v)
  BY <1>1, <1>2, KickedIs
<1>4. /\ v \in Worlds /\ v.party = w.party /\ v.cparty = w.cparty
      /\ v.sent = Append(Append(<<>>, Reloading(Id(w, a))), Kicking(c))
      /\ \A d \in Chars : v.rows[d] = IF d = c THEN None ELSE w.rows[d]
  BY <1>3 DEF KickedAs
<1>5. Proper(v)
  BY <1>2, <1>4, AsProper
<1>6. \A d \in Chars : Id(v, d) = Id(w, d)
  BY <1>4 DEF Id
<1>7. FlagIsId(v) /\ KnowsLeader(v)
  BY <1>4, <1>6 DEF Ready, Leads, FlagIsId, KnowsLeader
<1>8. LeadersAreIn(v, {})
  <2>1. SUFFICES ASSUME NEW d \in Chars, v.party[d] # None, v.party[Id(v, d)] = v.party[d]
                 PROVE  v.rows[Id(v, d)] # None /\ v.rows[Id(v, d)].party = Id(v, d)
    BY DEF LeadersAreIn
  <2> DEFINE x == Id(w, d)
  <2>2. Id(v, d) = x /\ x \in Chars /\ w.party[d] # None /\ w.party[x] = w.party[d]
    BY <1>2, <1>4, <1>6, <2>1, IdIs
  <2>3. w.rows[x] # None /\ w.rows[x].party = x
    BY <2>2 DEF Ready, Leads, LeadersAreIn
  <2> HIDE DEF x
  <2> QED  BY <1>1, <1>4, <2>2, <2>3
<1>9. Settled(v, Zone)
  BY <1>4, <1>6 DEF Ready, Settled, Zone
<1>10. Shrinks(w, v)
  BY <1>4 DEF Shrinks
<1>11. \A m \in Posted(v.sent) : m.type \in {"Reload", "Kick"}
  <2> DEFINE s == Append(<<>>, Reloading(Id(w, a)))
  <2>1. <<>> \in Seq(Message) /\ Reloading(Id(w, a)) \in Message
    BY <1>2, ReloadingIs
  <2>2. s \in Seq(Message) /\ Posted(<<>>) = {} /\ Posted(s) = Posted(<<>>) \cup {Reloading(Id(w, a))}
    <3>1. Posted(<<>>) = {}
      BY <2>1, PostedIs
    <3>2. \A m \in Message : Posted(Append(<<>>, m)) = Posted(<<>>) \cup {m}
      BY <2>1, PostedIs
    <3>3. s \in Seq(Message)
      BY <2>1
    <3> QED  BY <2>1, <3>1, <3>2, <3>3
  <2> HIDE DEF s
  <2>3. Posted(Append(s, Kicking(c))) = Posted(s) \cup {Kicking(c)}
    BY <1>1, <2>2, PostedIs, KickingIs
  <2>4. v.sent = Append(s, Kicking(c))
    BY <1>4 DEF s
  <2> QED  BY <1>1, <1>2, <2>2, <2>3, <2>4, ReloadingIs, KickingIs
<1> QED  BY <1>5, <1>7, <1>8, <1>9, <1>10, <1>11, SettledIsClear DEF Fits, Leads

LEMMA GivenFits ==
  ASSUME PartyAssumption, NoneAssumption, NEW w, Ready(w), w.sent = <<>>, \A g \in Chars : ~w.reload[g],
         NEW a \in Chars, LeadsIn(w, a), NEW b \in RowsOf(w, Id(w, a)), b # a
  PROVE  LET v == Sending(SetLeader(w, w.party[a], b), Reloading(b))
         IN  Proper(v) /\ Fits(v, Zone) /\ Shrinks(w, v)
<1> DEFINE o == w.party[a]
           u == SetLeader(w, o, b)
           v == Sending(u, Reloading(b))
<1>1. /\ w \in Worlds /\ Proper(w) /\ o \in Objects /\ w.cparty[o] # None /\ o # None
      /\ w.cparty[o].leader = a
  BY LeadsInIs DEF Ready, Proper
<1>2. Id(w, a) = a
  BY <1>1, LeaderIsMember DEF Ready, Leads
<1>3. b \in Chars /\ b \in RowsOf(w, a)
  BY <1>2 DEF RowsOf
<1>4. Leads(w, {a})
  BY MoreLeads DEF Ready
<1> HIDE DEF o
<1>5. w.party[a] = o
  BY DEF o
<1>6. /\ Leads(u, {})
      /\ \A Z \in SUBSET Chars : Settled(w, Z) /\ (\A g \in Chars : ~w.reload[g])
                                   => HandedOn(u, Z, a, b)
  BY <1>1, <1>3, <1>4, <1>5, HandOver
<1>7. HandedOn(u, Zone, a, b)
  BY <1>6 DEF Ready, Zone
<1>8. /\ u \in Worlds /\ u.party = w.party /\ u.sent = <<>>
      /\ \A d \in Chars : u.rows[d] = None <=> w.rows[d] = None
  BY <1>1, <1>3, SetLeaderIs
<1>9. Proper(u)
  BY <1>1, <1>3, SetLeaderIsProper
<1> HIDE DEF u
<1>10. /\ v \in Worlds
       /\ v.party = u.party /\ v.cparty = u.cparty /\ v.rows = u.rows /\ v.reload = u.reload
       /\ Sends(u, v, Reloading(b))
  BY <1>3, <1>8, SendingIs, ReloadingIs
<1> HIDE DEF v
<1>11. Proper(v)
  BY <1>9, <1>10, AsProper
<1>12. Leads(v, {})
  BY <1>6, <1>9, <1>10, SameLeads
<1>13. HandedOn(v, Zone, a, b)
  <2>1. \A c \in Chars : Id(v, c) = Id(u, c)
    BY <1>10 DEF Id
  <2>2. RowsOf(v, a) = RowsOf(u, a)
    BY <1>10 DEF RowsOf
  <2> QED  BY <1>7, <1>10, <2>1, <2>2 DEF HandedOn, Zone
<1>14. Posted(v.sent) = {Reloading(b)}
  BY <1>3, <1>8, <1>10, FirstSent, ReloadingIs
<1>15. \A m \in Posted(v.sent) : m.type = "Reload"
  BY <1>3, <1>14, ReloadingIs
<1>16. Shrinks(w, v)
  BY <1>8, <1>10 DEF Shrinks
<1>17. Proper(v) /\ Fits(v, Zone) /\ Shrinks(w, v)
  BY <1>3, <1>11, <1>12, <1>13, <1>14, <1>15, <1>16 DEF Fits
<1> QED  BY <1>17 DEF v, u, o

LEMMA AnswerFits ==
  ASSUME PartyAssumption, NoneAssumption, PartyTypeOK, Ready(World), NEW p \in Procs,
         NEW m \in Message, m.type = "Answer",
         m.to \in Zone, server[m.to] # None, party[m.to] = None, rows[m.to] = None
  PROVE  LET v == HandleAnswer(p, m) IN Fits(v, Zone) /\ Hosted(v)
<1> DEFINE a == m.from
           b == m.to
           w == IF party[a] = None THEN Founded(World, a) ELSE World
           o == w.party[a]
           v == AddedById(w, o, b)
<1>1. a \in Chars /\ b \in Chars
  BY DEF Message
<1>2. World.party = party /\ World.rows = rows
  BY WorldIs
<1>3. None \notin Procs
  BY DEF PartyAssumption
<1>4. \/ HandleAnswer(p, m) = World
      \/ Found(p, a) /\ HandleAnswer(p, m) = w
      \/ Found(p, a) /\ LeadsIn(w, a) /\ w.rows[b] = None /\ HandleAnswer(p, m) = v
  BY DEF HandleAnswer
<1>5. ASSUME Found(p, a)
      PROVE  Ready(w) /\ w.party[a] # None /\ w.party[b] = (IF a = b THEN w.party[a] ELSE None)
             /\ (a = b => w.rows[b] # None)
  <2>1. a \in Zone /\ server[a] # None
    BY <1>1, <1>3, <1>5 DEF Found, Zone
  <2>2. CASE party[a] = None
    <3>1. LET x == Founded(World, a)
          IN  /\ Ready(x) /\ LeadsIn(x, a) /\ x.rows[a] # None
              /\ \A c \in Chars \ {a} : x.party[c] = party[c]
      BY <1>2, <2>1, <2>2, FoundedReady
    <3>2. w = Founded(World, a)
      BY <2>2
    <3> HIDE DEF w
    <3> QED  BY <1>1, <3>1, <3>2 DEF LeadsIn
  <2>3. CASE party[a] # None
    BY <1>1, <1>2, <2>3
  <2> QED  BY <2>2, <2>3
<1> HIDE DEF w
<1>6. ASSUME Ready(w) PROVE Fits(w, Zone) /\ Hosted(w)
  BY <1>6, SettledFits DEF Ready
<1>7. Fits(World, Zone) /\ Hosted(World)
  BY SettledFits DEF Ready
<1>8. ASSUME Found(p, a), LeadsIn(w, a), w.rows[b] = None PROVE Fits(v, Zone) /\ Hosted(v)
  <2>1. Ready(w) /\ a # b /\ w.party[b] = None
    BY <1>5, <1>8
  <2>2. /\ o \in Objects /\ w.cparty[o] # None /\ w.cparty[o].leader = a /\ o # None
        /\ Proper(w) /\ w \in Worlds
    BY <1>1, <1>8, <2>1, LeadsInIs DEF Ready, Proper
  <2>3. CASE IsFull(w, o)
    <3>1. v = w
      BY <2>3 DEF AddedById
    <3> QED  BY <1>6, <2>1, <3>1
  <2>4. CASE ~IsFull(w, o)
    <3>1. /\ Proper(v) /\ Leads(v, {}) /\ v.party = w.party /\ v.cparty = w.cparty
          /\ v.rows[b] # None /\ v.rows[b].party = a
          /\ \A d \in Chars \ {b} : v.rows[d] = w.rows[d]
          /\ Sends(w, v, Reloading(a))
      BY <1>1, <1>8, <2>1, <2>2, <2>4, AddedByIdLeads DEF Ready
    <3> HIDE DEF v
    <3>2. OnlyReloads(v) /\ Reloading(a) \in Posted(v.sent)
      BY <1>1, <2>1, <2>2, <3>1, OneMoreReload DEF Ready
    <3>3. \A c \in Chars : Id(v, c) = Id(w, c)
      BY <3>1 DEF Id
    <3>4. Clear(v, Zone)
      BY <2>1, <3>1, <3>2, <3>3 DEF Clear, Ready, Settled, Zone
    <3>5. Hosted(v)
      BY <2>1, <3>1 DEF Hosted, Ready, Zone
    <3> QED  BY <3>1, <3>2, <3>4, <3>5 DEF Fits, OnlyReloads
  <2> QED  BY <2>3, <2>4
<1> HIDE DEF v
<1> QED  BY <1>4, <1>5, <1>6, <1>7, <1>8

-----------------------------------------------------------------------------
(* What may be done to parties while messages are under way.               *)

\* Not in the copy of its party, and not marked.
Late(w, c) == /\ w.rows[c] # None /\ ~w.reload[c]
              /\ w.party[c] = None \/ Id(w, c) # w.rows[c].party

\* What a world is while messages and ticks are under way.
Sound(w) ==
  Proper(w) /\ Leads(w, {}) /\ Hosted(w) /\ Agree(w, Zone) /\ StaleOK(w, Zone)

\* Nobody is worse off in v than in w.
Advances(w, v) ==
  \A c \in Zone : /\ Late(v, c) => Late(w, c) /\ v.rows[c] = w.rows[c]
                  /\ Stale(v, c) => Stale(w, c)

LEMMA AdvancesFurther ==
  ASSUME NEW w, NEW v, NEW u, Advances(w, v), Advances(v, u)
  PROVE  Advances(w, u)
BY DEF Advances

\* w but for the copy o.
LeadsBut(w, o) ==
  /\ FlagIsId(w)
  /\ \A c \in Chars : w.party[c] # None /\ w.party[c] # o =>
       /\ w.cparty[w.party[c]].leader = IF w.party[Id(w, c)] = w.party[c] THEN Id(w, c) ELSE None
       /\ w.party[Id(w, c)] = w.party[c] =>
            w.rows[Id(w, c)] # None /\ w.rows[Id(w, c)].party = Id(w, c)

\* RefreshFlags finds the leader of a copy with the right id.
LEMMA RefreshedSound ==
  ASSUME PartyAssumption, NoneAssumption, NEW w, Proper(w), Hosted(w), NEW o \in Objects, w.cparty[o] # None,
         NEW y \in Chars, w.cparty[o].id = y,
         LeadsBut(w, o), w.party[y] = o => w.rows[y] # None /\ w.rows[y].party = y,
         Agree(w, Zone), StaleOK(w, Zone),
         \A e \in Zone : w.rows[e] # None /\ w.party[e] = o => w.rows[e].party = y
  PROVE  LET v == Refreshed(w, o)
         IN  Sound(v) /\ Advances(w, v) /\ v.sent = w.sent /\ v.party = w.party /\ v.rows = w.rows
<1> DEFINE v == Refreshed(w, o)
           l == v.cparty[o].leader
           Lead(c) == /\ w.party[c] = o /\ w.rows[c] # None
                      /\ w.rows[c].party = y /\ w.rows[c].leader
<1>1. w \in Worlds /\ o # None /\ None \notin Chars
  BY DEF Proper, NoneAssumption, PartyAssumption
<1>2. /\ v \in Worlds /\ v.party = w.party /\ v.rows = w.rows /\ v.sent = w.sent
      /\ OthersKept(w, v, o)
      /\ v.cparty[o] # None /\ v.cparty[o].id = y
      /\ \/ l \in Chars /\ Lead(l)
         \/ l = None /\ \A c \in Chars : ~Lead(c)
      /\ \A d \in Chars : v.reload[d] <=> w.reload[d] /\ w.party[d] # o
  BY <1>1, RefreshedIs
<1>3. Proper(v)
  BY RefreshedIsProper
<1> HIDE DEF v, l
<1>4. FlagIsId(w) /\ FlagIsId(v)
  BY <1>2 DEF FlagIsId, LeadsBut
<1>5. l = IF w.party[y] = o THEN y ELSE None
  <2>1. \A c \in Chars : Lead(c) => c = y
    BY <1>4 DEF FlagIsId
  <2>2. w.party[y] = o => Lead(y)
    BY <1>4 DEF FlagIsId
  <2> HIDE DEF Lead
  <2>3. Lead(y) => w.party[y] = o
    BY DEF Lead
  <2> QED  BY <1>2, <2>1, <2>2, <2>3
<1>6. ASSUME NEW c \in Chars, w.party[c] # None
      PROVE  Id(v, c) = (IF w.party[c] = o THEN y ELSE Id(w, c)) /\ Id(v, c) = Id(w, c)
  <2>1. w.party[c] \in Objects
    BY <1>6, IdIs
  <2>2. CASE w.party[c] = o
    BY <1>2, <2>2 DEF Id
  <2>3. CASE w.party[c] # o
    BY <1>2, <2>1, <2>3 DEF Id, OthersKept
  <2> QED  BY <2>2, <2>3
<1>7. KnowsLeader(v) /\ LeadersAreIn(v, {})
  <2>1. SUFFICES ASSUME NEW c \in Chars, v.party[c] # None
                 PROVE  /\ v.cparty[v.party[c]].leader =
                             IF v.party[Id(v, c)] = v.party[c] THEN Id(v, c) ELSE None
                        /\ v.party[Id(v, c)] = v.party[c] =>
                             v.rows[Id(v, c)] # None /\ v.rows[Id(v, c)].party = Id(v, c)
    BY DEF KnowsLeader, LeadersAreIn
  <2>2. CASE w.party[c] = o
    BY <1>2, <1>5, <1>6, <2>1, <2>2 DEF l
  <2>3. CASE w.party[c] # o
    <3>1. /\ w.cparty[w.party[c]].leader = IF w.party[Id(w, c)] = w.party[c] THEN Id(w, c) ELSE None
          /\ w.party[Id(w, c)] = w.party[c] =>
               w.rows[Id(w, c)] # None /\ w.rows[Id(w, c)].party = Id(w, c)
      BY <1>2, <2>1, <2>3 DEF LeadsBut
    <3>2. w.party[c] \in Objects
      BY <1>2, <2>1, IdIs
    <3>3. v.cparty[w.party[c]] = w.cparty[w.party[c]]
      BY <1>2, <2>3, <3>2 DEF OthersKept
    <3> QED  BY <1>2, <1>6, <2>1, <2>3, <3>1, <3>3
  <2> QED  BY <2>2, <2>3
<1>8. Hosted(v) /\ Agree(v, Zone)
  BY <1>2 DEF Hosted, Agree
<1>9. \A c \in Zone : Stale(v, c) => Stale(w, c) /\ w.party[c] # o
  BY <1>2, <1>6 DEF Stale, Zone
<1>10. StaleOK(v, Zone)
  <2>1. SUFFICES ASSUME NEW c \in Zone, Stale(v, c)
                 PROVE  /\ RowsOf(v, Id(v, c)) = {}
                        /\ LET z == v.rows[c].party
                           IN  v.party[z] = v.party[c] => v.rows[z] # None /\ v.rows[z].party = z
                        /\ \A g \in Chars : v.party[g] = v.party[c] /\ v.rows[g] = None => ~v.reload[g]
    BY DEF StaleOK
  <2>2. Stale(w, c) /\ c \in Chars /\ w.party[c] # None
    BY <1>2, <1>9, <2>1 DEF Zone, Stale
  <2>3. Id(v, c) = Id(w, c) /\ RowsOf(v, Id(v, c)) = RowsOf(w, Id(w, c))
    BY <1>2, <1>6, <2>2 DEF RowsOf
  <2> QED  BY <1>2, <2>2, <2>3 DEF StaleOK
<1>11. \A c \in Zone : Late(v, c) => Late(w, c)
  <2>1. SUFFICES ASSUME NEW c \in Zone, Late(v, c) PROVE Late(w, c)
    OBVIOUS
  <2>2. c \in Chars
    BY DEF Zone
  <2>3. CASE w.party[c] = o
    BY <1>1, <1>2, <1>6, <2>1, <2>2, <2>3 DEF Late
  <2>4. CASE w.party[c] # o
    BY <1>2, <1>6, <2>1, <2>2, <2>4 DEF Late
  <2> QED  BY <2>3, <2>4
<1>12. Sound(v) /\ Advances(w, v)
  BY <1>2, <1>3, <1>4, <1>7, <1>8, <1>9, <1>10, <1>11 DEF Sound, Advances, Leads
<1> QED  BY <1>2, <1>12 DEF v

LEMMA UnmarkedSound ==
  ASSUME NEW w, Sound(w), NEW c \in Chars, w.rows[c] = None
  PROVE  LET v == [w EXCEPT !.reload[c] = FALSE]
         IN  Sound(v) /\ Advances(w, v) /\ v.sent = w.sent /\ v.party = w.party
<1> DEFINE v == [w EXCEPT !.reload[c] = FALSE]
<1>1. w \in Worlds /\ Proper(w)
  BY DEF Sound, Proper
<1>2. /\ v \in Worlds /\ v.party = w.party /\ v.cparty = w.cparty /\ v.rows = w.rows
      /\ v.sent = w.sent
      /\ \A d \in Chars : v.reload[d] <=> w.reload[d] /\ d # c
  BY <1>1, UnmarkedIs
<1> HIDE DEF v
<1>3. Proper(v) /\ Leads(v, {}) /\ Hosted(v)
  BY <1>1, <1>2, AsProper, SameLeads DEF Sound
<1>4. \A d \in Chars : Id(v, d) = Id(w, d)
  BY <1>2 DEF Id
<1>5. Agree(v, Zone)
  BY <1>2 DEF Sound, Agree
<1>6. \A d \in Zone : (Stale(v, d) <=> Stale(w, d)) /\ RowsOf(v, Id(v, d)) = RowsOf(w, Id(w, d))
  BY <1>2, <1>4 DEF Stale, RowsOf, Zone
<1>7. StaleOK(v, Zone)
  BY <1>2, <1>6 DEF Sound, StaleOK
<1>8. \A d \in Zone : Late(v, d) => Late(w, d)
  BY <1>2, <1>4 DEF Late, Zone
<1>9. Sound(v) /\ Advances(w, v)
  BY <1>2, <1>3, <1>5, <1>6, <1>7, <1>8 DEF Sound, Advances
<1> QED  BY <1>2, <1>9 DEF v

\* What those who leave do to the others, at any time.
LEMMA ShedSound ==
  ASSUME PartyAssumption, NoneAssumption, NEW w, Sound(w), NEW v, Proper(v), NEW S \in SUBSET Chars, Sheds(w, v, S),
         \A c \in Chars : v.reload[c] /\ v.party[c] # None => w.reload[c],
         \A c \in Chars \ S : w.reload[c] => v.reload[c],
         \A c \in S : v.rows[c] = None
  PROVE  Sound(v) /\ Advances(w, v)
<1>1. Leads(w, S) /\ Proper(w) /\ None \notin S
  BY MoreLeads DEF Sound, PartyAssumption
<1>2. Leads(v, {})
  BY <1>1, ShedLeads
<1>3. /\ \A c \in Chars : v.party[c] # None =>
               c \notin S /\ v.party[c] = w.party[c] /\ Id(v, c) = Id(w, c)
      /\ \A c \in Chars : v.rows[c] # None => v.rows[c] = w.rows[c]
  BY ShedIds
<1>4. Hosted(v)
  BY <1>3 DEF Hosted, Sound
<1>5. Agree(v, Zone) /\ StaleOK(v, Zone) /\ \A c \in Zone : Stale(v, c) => Stale(w, c)
  BY <1>1, ShedStaleOK DEF Sound, Zone
<1>6. ASSUME NEW c \in Zone, Late(v, c) PROVE Late(w, c) /\ v.rows[c] = w.rows[c]
  <2>1. c \in Chars /\ c \notin S /\ v.rows[c] = w.rows[c] /\ v.rows[c] # None
    BY <1>3, <1>6 DEF Late, Zone
  <2>2. v.party[c] = w.party[c] /\ ~w.reload[c]
    BY <1>6, <2>1 DEF Sheds, Late
  <2>3. v.party[c] # None => Id(v, c) = Id(w, c)
    BY <1>3, <2>1
  <2> QED  BY <1>6, <2>1, <2>2, <2>3 DEF Late
<1> QED  BY <1>2, <1>4, <1>5, <1>6 DEF Sound, Advances

LEMMA DisbandedSound ==
  ASSUME PartyAssumption, NoneAssumption, NEW w, Sound(w), NEW o \in Objects, NEW v, DisbandedAs(w, o, v)
  PROVE  Sound(v) /\ Advances(w, v)
<1>1. Proper(w) /\ KnowsLeader(w)
  BY DEF Sound, Leads
<1>2. Sheds(w, v, Members(w, o)) /\ Proper(v)
  BY <1>1, DisbandedSheds, DisbandedIsProper
<1>3. /\ \A c \in Chars : v.reload[c] /\ v.party[c] # None => w.reload[c]
      /\ \A c \in Chars \ Members(w, o) : w.reload[c] => v.reload[c]
      /\ \A c \in Members(w, o) : v.rows[c] = None
      /\ Members(w, o) \in SUBSET Chars
  BY DEF DisbandedAs, Members
<1> QED  BY <1>2, <1>3, ShedSound

-----------------------------------------------------------------------------
(* A marked character is brought up to date.                               *)

LEMMA KeptSound ==
  ASSUME NEW w, Proper(w), Leads(w, {}), NEW o
  PROVE  LeadsBut(w, o)
BY DEF Leads, LeadsBut, KnowsLeader, LeadersAreIn

\* A member whose copy gets the id of the row.
LEMMA RenamedSound ==
  ASSUME PartyAssumption, NoneAssumption, NEW w, Sound(w), NEW c \in Zone, w.rows[c] # None,
         NEW o \in Objects, w.party[c] = o
  PROVE  LET u == [w EXCEPT !.cparty[o].id = w.rows[c].party]
             v == Refreshed(u, o)
         IN  Sound(v) /\ Advances(w, v) /\ v.sent = w.sent /\ v.party = w.party /\ v.rows = w.rows
<1> DEFINE y == w.rows[c].party
           u == [w EXCEPT !.cparty[o].id = y]
           v == Refreshed(u, o)
<1>1. /\ c \in Chars /\ w \in Worlds /\ Proper(w) /\ o # None /\ w.cparty[o] # None /\ y \in Chars
  BY RowIs DEF Zone, Sound, Proper, NoneAssumption
<1>2. /\ u \in Worlds /\ u.party = w.party /\ u.rows = w.rows /\ u.reload = w.reload
      /\ u.sent = w.sent
      /\ OthersKept(w, u, o) /\ u.cparty[o] # None /\ u.cparty[o].id = y
  BY <1>1, RenamedIs
<1> HIDE DEF u, y
<1>3. Proper(u)
  BY <1>1, <1>2, ProperBut
<1>4. ASSUME NEW e \in Chars, w.party[e] # None, w.party[e] # o
      PROVE  Id(u, e) = Id(w, e) /\ u.cparty[w.party[e]] = w.cparty[w.party[e]]
  <2>1. w.party[e] \in Objects
    BY <1>1, <1>4, IdIs
  <2> QED  BY <1>2, <1>4, <2>1 DEF Id, OthersKept
<1>5. \A e \in Chars : w.party[e] = o => Id(u, e) = y
  BY <1>2 DEF Id
<1>6. LeadsBut(u, o)
  <2>1. LeadsBut(w, o)
    BY <1>1, KeptSound DEF Sound
  <2>2. FlagIsId(u)
    BY <1>2, <2>1 DEF LeadsBut, FlagIsId
  <2> QED  BY <1>2, <1>4, <2>1, <2>2 DEF LeadsBut
<1>7. u.party[y] = o => u.rows[y] # None /\ u.rows[y].party = y
  <2>1. CASE Id(w, c) = y
    <3>1. w.party[y] = o => w.rows[y] # None /\ w.rows[y].party = y
      BY <1>1, <2>1 DEF Sound, Leads, LeadersAreIn
    <3> QED  BY <1>2, <3>1
  <2>2. CASE Id(w, c) # y
    <3>1. Stale(w, c)
      BY <1>1, <2>2 DEF Stale, y
    <3>2. w.party[y] = o => w.rows[y] # None /\ w.rows[y].party = y
      BY <3>1 DEF Sound, StaleOK, y
    <3> QED  BY <1>2, <3>2
  <2> QED  BY <2>1, <2>2
<1>8. \A e \in Zone : u.rows[e] # None /\ u.party[e] = o => u.rows[e].party = y
  BY <1>1, <1>2 DEF Sound, Agree, y
<1>9. Hosted(u) /\ Agree(u, Zone)
  BY <1>2 DEF Sound, Hosted, Agree
<1>10. \A e \in Zone : Stale(u, e) => Stale(w, e) /\ w.party[e] # o
  BY <1>2, <1>4, <1>5, <1>8 DEF Stale, Zone
<1>11. StaleOK(u, Zone)
  <2>1. SUFFICES ASSUME NEW e \in Zone, Stale(u, e)
                 PROVE  /\ RowsOf(u, Id(u, e)) = {}
                        /\ LET z == u.rows[e].party
                           IN  u.party[z] = u.party[e] => u.rows[z] # None /\ u.rows[z].party = z
                        /\ \A g \in Chars : u.party[g] = u.party[e] /\ u.rows[g] = None => ~u.reload[g]
    BY DEF StaleOK
  <2>2. e \in Chars /\ Stale(w, e) /\ w.party[e] # None /\ w.party[e] # o
    BY <1>2, <1>10, <2>1 DEF Zone, Stale
  <2>3. RowsOf(u, Id(u, e)) = RowsOf(w, Id(w, e))
    BY <1>2, <1>4, <2>2 DEF RowsOf
  <2> QED  BY <1>2, <2>2, <2>3 DEF Sound, StaleOK
<1>12. \A e \in Zone : Late(u, e) => Late(w, e)
  <2>1. SUFFICES ASSUME NEW e \in Zone, Late(u, e) PROVE Late(w, e)
    OBVIOUS
  <2>2. e \in Chars /\ u.rows[e] # None
    BY <2>1 DEF Zone, Late
  <2>3. CASE w.party[e] = o
    <3>1. u.rows[e].party = y /\ Id(u, e) = y /\ u.party[e] # None
      BY <1>1, <1>2, <1>5, <1>8, <2>2, <2>3
    <3> QED  BY <2>1, <3>1 DEF Late
  <2>4. CASE w.party[e] # o
    BY <1>2, <1>4, <2>1, <2>2, <2>4 DEF Late
  <2> QED  BY <2>3, <2>4
<1>13. Advances(w, u)
  BY <1>2, <1>10, <1>12 DEF Advances
<1>14. Sound(v) /\ Advances(u, v) /\ v.sent = u.sent /\ v.party = u.party /\ v.rows = u.rows
  BY <1>1, <1>2, <1>3, <1>6, <1>7, <1>8, <1>9, <1>11, RefreshedSound
<1> HIDE DEF v
<1>15. Sound(v) /\ Advances(w, v) /\ v.sent = w.sent /\ v.party = w.party /\ v.rows = w.rows
  BY <1>2, <1>13, <1>14, AdvancesFurther
<1> QED  BY <1>15 DEF v, u, y

\* A member who gets a copy.
LEMMA PushedSound ==
  ASSUME PartyAssumption, NoneAssumption, NEW w, Sound(w), NEW c \in Zone, w.rows[c] # None,
         w.party[c] = None, NEW u \in Pushed(w, c)
  PROVE  LET v == Refreshed(u, u.party[c])
         IN  Sound(v) /\ Advances(w, v) /\ v.sent = w.sent /\ v.party = u.party
<1> DEFINE y == w.rows[c].party
           v == Refreshed(u, u.party[c])
<1>1. /\ c \in Chars /\ w \in Worlds /\ Proper(w) /\ y \in Chars
      /\ \A d \in Chars : w.party[d] # None => w.cparty[w.party[d]] # None
  BY RowIs DEF Zone, Sound, Proper
<1>2. \E o \in Objects :
           /\ u \in Worlds /\ u.rows = w.rows /\ u.reload = w.reload
           /\ u.sent = w.sent /\ u.lost = w.lost
           /\ u.party[c] = o /\ \A d \in Chars \ {c} : u.party[d] = w.party[d]
           /\ OthersKept(w, u, o)
           /\ u.cparty[o] # None /\ u.cparty[o].id = w.rows[c].party
           /\ \/ \E d \in Chars : /\ Found(server[c], d) /\ w.party[d] = o
                                  /\ w.cparty[o].id = w.rows[c].party
              \/ /\ \A d \in Chars : w.party[d] # o
                 /\ \A d \in Chars : Found(server[c], d) /\ w.party[d] # None
                                       => Id(w, d) # w.rows[c].party
  BY <1>1, PushedIs
<1>3. PICK o \in Objects :
           /\ u \in Worlds /\ u.rows = w.rows /\ u.reload = w.reload /\ u.sent = w.sent
           /\ u.party[c] = o /\ \A d \in Chars \ {c} : u.party[d] = w.party[d]
           /\ OthersKept(w, u, o)
           /\ u.cparty[o] # None /\ u.cparty[o].id = y
           /\ \/ \E d \in Chars : /\ Found(server[c], d) /\ w.party[d] = o
                                  /\ w.cparty[o].id = y
              \/ \A d \in Chars : w.party[d] # o
  BY <1>2
<1> HIDE DEF y
<1>4. Proper(u) /\ o # None
  BY <1>1, PushedIsProper DEF NoneAssumption
<1>5. ASSUME NEW e \in Chars, w.party[e] = o
      PROVE  /\ w.party[e] # None /\ Id(w, e) = y /\ server[e] = server[c] /\ stage[e] \in {"in", "zoning"}
             /\ w.party[y] = o => w.rows[y] # None /\ w.rows[y].party = y
  <2>1. PICK d \in Chars : Found(server[c], d) /\ w.party[d] = o /\ w.cparty[o].id = y
    BY <1>3, <1>5
  <2>2. server[e] = server[d] /\ server[d] = server[c] /\ stage[e] \in {"in", "zoning"}
    BY <1>4, <1>5, <2>1 DEF Sound, Hosted, Found
  <2>3. Id(w, e) = y
    BY <1>5, <2>1 DEF Id
  <2>4. w.party[y] = o => w.rows[y] # None /\ w.rows[y].party = y
    BY <1>4, <1>5, <2>3 DEF Sound, Leads, LeadersAreIn
  <2> QED  BY <1>4, <1>5, <2>2, <2>3, <2>4
<1>6. ASSUME NEW e \in Chars, u.party[e] # None, u.party[e] # o
      PROVE  /\ e # c /\ w.party[e] = u.party[e] /\ Id(u, e) = Id(w, e)
             /\ u.cparty[u.party[e]] = w.cparty[w.party[e]] /\ Id(w, e) \in Chars
  <2>1. e # c /\ w.party[e] = u.party[e]
    BY <1>3, <1>6
  <2>2. w.party[e] \in Objects /\ Id(w, e) \in Chars
    BY <1>1, <1>6, <2>1, IdIs
  <2> QED  BY <1>3, <1>6, <2>1, <2>2 DEF Id, OthersKept
<1>7. \A e \in Chars : u.party[e] = o => Id(u, e) = y
  BY <1>3 DEF Id
<1>8. LeadsBut(u, o)
  <2>1. FlagIsId(u)
    BY <1>3 DEF Sound, Leads, FlagIsId
  <2>2. ASSUME NEW e \in Chars, u.party[e] # None, u.party[e] # o
        PROVE  /\ u.cparty[u.party[e]].leader = IF u.party[Id(u, e)] = u.party[e] THEN Id(u, e) ELSE None
               /\ u.party[Id(u, e)] = u.party[e] =>
                    u.rows[Id(u, e)] # None /\ u.rows[Id(u, e)].party = Id(u, e)
    <3> DEFINE x == Id(w, e)
    <3>1. /\ e # c /\ w.party[e] = u.party[e] /\ Id(u, e) = x
          /\ u.cparty[u.party[e]] = w.cparty[w.party[e]] /\ x \in Chars
      BY <1>6, <2>2
    <3>2. /\ w.cparty[w.party[e]].leader = IF w.party[x] = w.party[e] THEN x ELSE None
          /\ w.party[x] = w.party[e] => w.rows[x] # None /\ w.rows[x].party = x
      BY <2>2, <3>1 DEF Sound, Leads, KnowsLeader, LeadersAreIn
    <3> HIDE DEF x
    <3>3. CASE x = c
      BY <1>3, <2>2, <3>1, <3>2, <3>3
    <3>4. CASE x # c
      BY <1>3, <3>1, <3>2, <3>4
    <3> QED  BY <3>3, <3>4
  <2> QED  BY <2>1, <2>2 DEF LeadsBut
<1>9. u.party[y] = o => u.rows[y] # None /\ u.rows[y].party = y
  <2>1. CASE y = c
    BY <1>1, <1>3, <2>1 DEF y
  <2>2. CASE y # c
    BY <1>1, <1>3, <1>5, <2>2
  <2> QED  BY <2>1, <2>2
<1>10. ASSUME NEW e \in Zone, u.rows[e] # None, u.party[e] = o PROVE u.rows[e].party = y
  <2>1. CASE e = c
    BY <1>3, <2>1 DEF y
  <2>2. CASE e # c
    <3>1. e \in Chars /\ w.party[e] = o /\ w.rows[e] # None
      BY <1>3, <1>10, <2>2 DEF Zone
    <3>2. Id(w, e) = y
      BY <1>5, <3>1
    <3>3. c \in RowsOf(w, y)
      BY <1>1 DEF RowsOf, y
    <3>4. ~Stale(w, e)
      BY <3>2, <3>3 DEF Sound, StaleOK
    <3> QED  BY <1>3, <1>4, <3>1, <3>2, <3>4 DEF Stale
  <2> QED  BY <2>1, <2>2
<1>11. Hosted(u)
  <2>1. ASSUME NEW e \in Chars, u.party[e] = o
        PROVE  server[e] = server[c] /\ stage[e] \in {"in", "zoning"}
    <3>1. CASE e = c
      BY <3>1 DEF Zone
    <3>2. CASE e # c
      BY <1>3, <1>5, <2>1, <3>2
    <3> QED  BY <3>1, <3>2
  <2>2. \A e \in Chars : u.party[e] # None => stage[e] \in {"in", "zoning"}
    BY <1>6, <2>1 DEF Sound, Hosted
  <2>3. ASSUME NEW e \in Chars, NEW f \in Chars, u.party[e] # None, u.party[e] = u.party[f]
        PROVE  server[e] = server[f]
    <3>1. CASE u.party[e] = o
      BY <2>1, <2>3, <3>1
    <3>2. CASE u.party[e] # o
      BY <1>6, <2>3, <3>2 DEF Sound, Hosted
    <3> QED  BY <3>1, <3>2
  <2>4. \A e \in Chars : u.rows[e] # None => server[e] # None /\ stage[e] # "quitting"
    BY <1>3 DEF Sound, Hosted
  <2> QED  BY <2>2, <2>3, <2>4 DEF Hosted
<1>12. Agree(u, Zone)
  <2>1. SUFFICES ASSUME NEW e \in Zone, NEW f \in Zone, u.rows[e] # None, u.rows[f] # None,
                        u.party[e] = u.party[f], u.party[e] # None
                 PROVE  u.rows[e].party = u.rows[f].party
    BY DEF Agree
  <2>2. CASE u.party[e] = o
    BY <1>10, <2>1, <2>2
  <2>3. CASE u.party[e] # o
    <3>1. e \in Chars /\ f \in Chars
      BY DEF Zone
    <3>2. w.party[e] = u.party[e] /\ w.party[f] = u.party[f]
      BY <1>6, <2>1, <2>3, <3>1
    <3> QED  BY <1>3, <2>1, <3>2 DEF Sound, Agree
  <2> QED  BY <2>2, <2>3
<1>13. \A e \in Zone : Stale(u, e) => Stale(w, e) /\ u.party[e] # o /\ u.party[e] # None
  <2>1. SUFFICES ASSUME NEW e \in Zone, Stale(u, e)
                 PROVE Stale(w, e) /\ u.party[e] # o /\ u.party[e] # None
    OBVIOUS
  <2>2. e \in Chars /\ u.rows[e] # None /\ u.party[e] # None /\ Id(u, e) # u.rows[e].party
    BY <2>1 DEF Stale, Zone
  <2>3. u.party[e] # o
    BY <1>7, <1>10, <2>2
  <2> QED  BY <1>3, <1>6, <2>2, <2>3 DEF Stale
<1>14. StaleOK(u, Zone)
  <2>1. SUFFICES ASSUME NEW e \in Zone, Stale(u, e)
                 PROVE  /\ RowsOf(u, Id(u, e)) = {}
                        /\ LET z == u.rows[e].party
                           IN  u.party[z] = u.party[e] => u.rows[z] # None /\ u.rows[z].party = z
                        /\ \A g \in Chars : u.party[g] = u.party[e] /\ u.rows[g] = None => ~u.reload[g]
    BY DEF StaleOK
  <2>2. e \in Chars /\ Stale(w, e) /\ u.party[e] # o /\ u.party[e] # None /\ w.rows[e] # None
    BY <1>13, <2>1 DEF Zone, Stale
  <2>3. Id(u, e) = Id(w, e) /\ w.party[e] = u.party[e]
    BY <1>6, <2>2
  <2>4. RowsOf(u, Id(u, e)) = RowsOf(w, Id(w, e))
    BY <1>3, <2>3 DEF RowsOf
  <2> DEFINE z == w.rows[e].party
  <2>5. /\ RowsOf(w, Id(w, e)) = {}
        /\ w.party[z] = w.party[e] => w.rows[z] # None /\ w.rows[z].party = z
        /\ \A g \in Chars : w.party[g] = w.party[e] /\ w.rows[g] = None => ~w.reload[g]
    BY <2>2 DEF Sound, StaleOK
  <2>6. u.rows[e].party = z /\ z \in Chars
    BY <1>1, <1>3, <2>2, RowIs
  <2>7. u.party[z] = u.party[e] => w.party[z] = w.party[e]
    BY <1>3, <2>2, <2>3, <2>6
  <2>8. \A g \in Chars : u.party[g] = u.party[e] => w.party[g] = w.party[e]
    BY <1>3, <2>2, <2>3
  <2> HIDE DEF z
  <2> QED  BY <1>3, <2>4, <2>5, <2>6, <2>7, <2>8
<1>15. \A e \in Zone : Late(u, e) => Late(w, e)
  <2>1. SUFFICES ASSUME NEW e \in Zone, Late(u, e) PROVE Late(w, e)
    OBVIOUS
  <2>2. e \in Chars /\ u.rows[e] # None
    BY <2>1 DEF Zone, Late
  <2>3. CASE u.party[e] = o
    BY <1>4, <1>7, <1>10, <2>1, <2>2, <2>3 DEF Late
  <2>4. CASE u.party[e] # o /\ u.party[e] # None
    BY <1>3, <1>6, <2>1, <2>2, <2>4 DEF Late
  <2>5. CASE u.party[e] = None
    BY <1>3, <1>4, <2>1, <2>2, <2>5 DEF Late
  <2> QED  BY <2>3, <2>4, <2>5
<1>16. Advances(w, u)
  BY <1>3, <1>13, <1>15 DEF Advances
<1>17. Sound(v) /\ Advances(u, v) /\ v.sent = u.sent /\ v.party = u.party
  BY <1>1, <1>3, <1>4, <1>8, <1>9, <1>10, <1>11, <1>12, <1>14, RefreshedSound
<1> HIDE DEF v
<1>18. Sound(v) /\ Advances(w, v) /\ v.sent = w.sent /\ v.party = u.party
  BY <1>3, <1>16, <1>17, AdvancesFurther
<1> QED  BY <1>18 DEF v

\* A member who has lost the row leaves the copy, which it did not lead.
LEMMA DeletedSound ==
  ASSUME PartyAssumption, NoneAssumption, NEW w, Sound(w), NEW c \in Chars, w.rows[c] = None,
         NEW o \in Objects, w.party[c] = o, w.reload[c], NEW v \in Deleted(w, c)
  PROVE  Sound(v) /\ Advances(w, v) /\ v.sent = w.sent /\ v.party[c] = None /\ v.rows[c] = None
<1> DEFINE u == Unlinked(w, c)
<1>1. /\ w \in Worlds /\ Proper(w) /\ o # None /\ w.cparty[o] # None /\ None \notin Chars
  BY DEF Sound, Proper, NoneAssumption, PartyAssumption
<1>2. ~LeadsIn(w, c)
  <2>1. SUFFICES ASSUME w.cparty[o].leader = c PROVE FALSE
    BY DEF LeadsIn
  <2>2. Id(w, c) = c
    BY <1>1, <2>1, LeaderIsMember DEF Sound, Leads
  <2> QED  BY <1>1, <2>2 DEF Sound, Leads, LeadersAreIn
<1>3. v = IF u.cparty[o] = None THEN u ELSE Refreshed(u, o)
  BY <1>2 DEF Deleted
<1>4. /\ u \in Worlds /\ u.rows = w.rows /\ u.reload = w.reload
      /\ u.sent = w.sent
      /\ u.party[c] = None /\ \A d \in Chars \ {c} : u.party[d] = w.party[d]
      /\ u.cparty[o] # None => u.cparty[o].id = w.cparty[o].id
  BY <1>1, UnlinkedIs
<1>5. Sheds(w, u, {c}) /\ Proper(u)
  BY <1>1, UnlinkedSheds, UnlinkedIsProper DEF Sound, Leads
<1> HIDE DEF u
<1>6. Sound(u) /\ Advances(w, u)
  BY <1>4, <1>5, ShedSound
<1>7. CASE u.cparty[o] = None
  BY <1>3, <1>4, <1>6, <1>7
<1>8. CASE u.cparty[o] # None
  <2> DEFINE y == u.cparty[o].id
  <2>1. y \in Chars /\ y = w.cparty[o].id
    BY <1>4, <1>8 DEF Worlds, CParty
  <2> HIDE DEF y
  <2>2. u.cparty[o].id = y
    BY DEF y
  <2>3. LeadsBut(u, o)
    BY <1>5, <1>6, KeptSound DEF Sound
  <2>4. u.party[y] = o => u.rows[y] # None /\ u.rows[y].party = y
    <3>1. ASSUME u.party[y] = o PROVE Id(u, y) = y /\ u.party[y] # None
      BY <1>1, <2>2, <3>1 DEF Id
    <3> QED  BY <1>6, <2>1, <3>1 DEF Sound, Leads, LeadersAreIn
  <2>5. ASSUME NEW e \in Zone, u.rows[e] # None, u.party[e] = o PROVE u.rows[e].party = y
    <3>1. e \in Chars /\ w.party[e] = o /\ w.rows[e] # None /\ Id(w, e) = y
      BY <1>1, <1>4, <2>1, <2>5 DEF Zone, Id
    <3>2. ~Stale(w, e)
      BY <3>1 DEF Sound, StaleOK
    <3> QED  BY <1>1, <1>4, <3>1, <3>2 DEF Stale
  <2>6. Agree(u, Zone) /\ StaleOK(u, Zone) /\ Hosted(u)
    BY <1>6 DEF Sound
  <2> DEFINE x == Refreshed(u, o)
  <2>7. Sound(x) /\ Advances(u, x) /\ x.sent = u.sent /\ x.party = u.party /\ x.rows = u.rows
    BY <1>5, <1>8, <2>1, <2>2, <2>3, <2>4, <2>5, <2>6, RefreshedSound
  <2>8. v = x
    BY <1>3, <1>8
  <2> HIDE DEF x
  <2> QED  BY <1>4, <1>6, <2>7, <2>8, AdvancesFurther
<1> QED  BY <1>7, <1>8

LEMMA UpToDateSound ==
  ASSUME PartyAssumption, NoneAssumption, NEW w, Sound(w), NEW c \in Zone, w.reload[c], NEW v \in UpToDate(w, c)
  PROVE  Sound(v) /\ Advances(w, v) /\ v.sent = w.sent
<1>1. c \in Chars /\ Proper(w) /\ w \in Worlds
  BY DEF Zone, Sound, Proper
<1>2. CASE w.rows[c] # None /\ w.party[c] # None
  <2> DEFINE o == w.party[c]
             u == [w EXCEPT !.cparty[o].id = w.rows[c].party]
  <2>1. o \in Objects /\ w.party[c] = o
    BY <1>1, <1>2, IdIs
  <2>2. u.party = w.party
    BY <1>1 DEF Worlds
  <2>3. v = Refreshed(u, u.party[c])
    BY <1>2 DEF UpToDate
  <2>4. v = Refreshed(u, o)
    BY <2>2, <2>3
  <2> HIDE DEF o
  <2>5. LET x == Refreshed(u, o)
        IN  Sound(x) /\ Advances(w, x) /\ x.sent = w.sent /\ x.party = w.party /\ x.rows = w.rows
    BY <1>2, <2>1, RenamedSound
  <2> HIDE DEF u
  <2> QED  BY <2>4, <2>5
<1>3. CASE w.rows[c] # None /\ w.party[c] = None
  <2>1. PICK u \in Pushed(w, c) : v = Refreshed(u, u.party[c])
    BY <1>3 DEF UpToDate
  <2> QED  BY <1>3, <2>1, PushedSound
<1>4. CASE w.rows[c] = None
  <2>1. PICK u \in IF w.party[c] # None THEN Deleted(w, c) ELSE {w} : v = [u EXCEPT !.reload[c] = FALSE]
    BY <1>4 DEF UpToDate
  <2>2. Sound(u) /\ Advances(w, u) /\ u.sent = w.sent /\ u.rows[c] = None
    <3>1. CASE w.party[c] # None
      <4>1. w.party[c] \in Objects /\ u \in Deleted(w, c)
        BY <1>1, <2>1, <3>1, IdIs
      <4> QED  BY <1>1, <1>4, <4>1, DeletedSound
    <3>2. CASE w.party[c] = None
      BY <1>4, <2>1, <3>2 DEF Advances
    <3> QED  BY <3>1, <3>2
  <2>3. LET x == [u EXCEPT !.reload[c] = FALSE]
        IN  Sound(x) /\ Advances(u, x) /\ x.sent = u.sent /\ x.party = u.party
    BY <1>1, <2>2, UnmarkedSound
  <2>4. Sound(v) /\ Advances(u, v) /\ v.sent = u.sent
    BY <2>1, <2>3
  <2> QED  BY <2>2, <2>4, AdvancesFurther
<1> QED  BY <1>2, <1>3, <1>4

-----------------------------------------------------------------------------
(* The inductive invariant.                                                *)

Homes == \A c \in Chars : stage[c] # "away" => server[c] \in Procs

\* A process will be told to reload a party.
Told(id, p) ==
  \/ \E q \in Procs : Reloading(id) \in Posted(toWorld[q])
  \/ p \in Procs /\ Reloading(id) \in Posted(toMap[p])

LateAreTold == \A c \in Zone : Late(World, c) => Told(rows[c].party, server[c])

\* No message of a type is under way.
NoneUnderWay(t) == \A q \in Procs : \A m \in Posted(toWorld[q]) \cup Posted(toMap[q]) : m.type # t

\* Nobody is kicked while a copy has an id of the past.
StaleUnkicked == (\E c \in Zone : Stale(World, c)) => NoneUnderWay("Kick")

Awaited(m) ==
  /\ m.to \in Zone /\ party[m.to] = None /\ rows[m.to] = None
  /\ \A c \in Chars : ~reload[c]

\* Whoever has accepted is waited for by everybody else.
AnswerAlone ==
  /\ \A p \in Procs : \A m \in Posted(toWorld[p]) : m.type = "Answer" =>
       /\ toWorld[p] = <<m>> /\ Awaited(m)
       /\ \A q \in Procs : toMap[q] = <<>> /\ (q # p => toWorld[q] = <<>>)
  /\ \A p \in Procs : \A m \in Posted(toMap[p]) : m.type = "Answer" =>
       /\ toMap[p] = <<m>> /\ Awaited(m)
       /\ \A q \in Procs : toWorld[q] = <<>> /\ (q # p => toMap[q] = <<>>)

PartyInv ==
  PartyTypeOK /\ Homes /\ Sound(World) /\ LateAreTold /\ StaleUnkicked /\ AnswerAlone

-----------------------------------------------------------------------------
LEMMA NextWorld ==
  ASSUME NEW p, NEW w, Becomes(p, w)
  PROVE  /\ World'.party = w.party /\ World'.cparty = w.cparty /\ World'.rows = w.rows
         /\ World'.reload = w.reload
BY DEF World, Becomes

LEMMA NextLeads ==
  ASSUME NEW p, NEW w, Becomes(p, w), Proper(w), Leads(w, {}), Hosted(w)', PartyTypeOK'
  PROVE  Leads(World, {})' /\ Hosted(World)' /\ Proper(World)'
<1>1. /\ World'.party = w.party /\ World'.cparty = w.cparty /\ World'.rows = w.rows
      /\ World'.reload = w.reload
  BY NextWorld
<1>2. Leads(World', {})
  BY <1>1, SameLeads
<1>3. Leads(World, {})'
  BY <1>2
<1>4. Hosted(World)'
  BY <1>1 DEF Hosted
<1>5. World' \in Worlds
  <2>1. <<>> \in Seq(Message) /\ {} \in SUBSET Chars
    OBVIOUS
  <2> QED  BY <2>1 DEF World, Worlds, PartyTypeOK
<1>6. Proper(World')
  BY <1>1, <1>5, AsProper
<1>7. Proper(World)'
  BY <1>6
<1> QED  BY <1>3, <1>4, <1>7

\* What is looked at in a world.
LEMMA SameSound ==
  ASSUME NEW w, NEW v, v.party = w.party, v.cparty = w.cparty, v.rows = w.rows, v.reload = w.reload
  PROVE  /\ \A Z : Agree(w, Z) => Agree(v, Z)
         /\ \A Z : StaleOK(w, Z) => StaleOK(v, Z)
         /\ \A c : Late(v, c) <=> Late(w, c)
         /\ \A c : Stale(v, c) <=> Stale(w, c)
<1>1. \A c : Id(v, c) = Id(w, c)
  BY DEF Id
<1>2. \A i : RowsOf(v, i) = RowsOf(w, i)
  BY DEF RowsOf
<1>3. \A c : (Late(v, c) <=> Late(w, c)) /\ (Stale(v, c) <=> Stale(w, c))
  BY <1>1 DEF Late, Stale
<1>4. \A Z : Agree(w, Z) => Agree(v, Z)
  BY DEF Agree
<1>5. ASSUME NEW Z, StaleOK(w, Z) PROVE StaleOK(v, Z)
  BY <1>1, <1>2, <1>3, <1>5 DEF StaleOK
<1> QED  BY <1>3, <1>4, <1>5

LEMMA SentIs ==
  ASSUME PartyTypeOK, NEW p \in Procs, NEW w, Proper(w), Becomes(p, w)
  PROVE  \A q \in Procs :
           /\ Posted(toWorld'[q]) = Posted(toWorld[q]) \cup (IF q = p THEN Posted(w.sent) ELSE {})
           /\ q # p => toWorld'[q] = toWorld[q]
           /\ toWorld[q] = <<>> => toWorld'[q] = IF q = p THEN w.sent ELSE <<>>
<1>1. toWorld \in [Procs -> Seq(Message)] /\ w.sent \in Seq(Message)
  BY DEF PartyTypeOK, Proper, Worlds
<1>2. toWorld' = [toWorld EXCEPT ![p] = @ \o w.sent]
  BY DEF Becomes
<1>3. toWorld'[p] = toWorld[p] \o w.sent /\ \A q \in Procs : q # p => toWorld'[q] = toWorld[q]
  BY <1>1, <1>2
<1>4. Posted(toWorld[p] \o w.sent) = Posted(toWorld[p]) \cup Posted(w.sent)
  BY <1>1, PostedIs
<1>5. toWorld[p] = <<>> => toWorld[p] \o w.sent = w.sent
  BY <1>1
<1> QED  BY <1>3, <1>4, <1>5

LEMMA NoPost == Posted(<<>>) = {}
<1>1. <<>> \in Seq(Message)
  OBVIOUS
<1> QED  BY <1>1, PostedIs

LEMMA FitsSound ==
  ASSUME NEW w, Proper(w), NEW Z \in SUBSET Chars, Fits(w, Z)
  PROVE  /\ Agree(w, Z) /\ StaleOK(w, Z)
         /\ \A c \in Z : Late(w, c) => Reloading(w.rows[c].party) \in Posted(w.sent)
         /\ (\E c \in Z : Stale(w, c)) => \A m \in Posted(w.sent) : m.type # "Kick"
<1>1. CASE Clear(w, Z)
  <2>1. \A c \in Z : ~Stale(w, c)
    BY <1>1 DEF Clear, Stale
  <2>2. \A c \in Z : Late(w, c) => Reloading(w.rows[c].party) \in Posted(w.sent)
    BY <1>1 DEF Clear, Late
  <2>3. Agree(w, Z)
    BY <1>1 DEF Clear, Agree, Id
  <2> QED  BY <2>1, <2>2, <2>3 DEF StaleOK
<1>2. CASE /\ \A m \in Posted(w.sent) : m.type # "Kick"
           /\ \E i, d \in Chars : HandedOn(w, Z, i, d) /\ Reloading(d) \in Posted(w.sent)
  <2>1. PICK i \in Chars, d \in Chars : HandedOn(w, Z, i, d) /\ Reloading(d) \in Posted(w.sent)
    BY <1>2
  <2>2. /\ i # d /\ RowsOf(w, i) = {} /\ w.rows[d] # None /\ w.rows[d].party = d
        /\ \A c \in Z : w.rows[c] # None =>
              w.party[c] # None /\ (Id(w, c) = w.rows[c].party \/ (Id(w, c) = i /\ w.rows[c].party = d))
        /\ \A g \in Chars : w.reload[g] /\ w.party[g] # None => Id(w, g) # i
    BY <2>1 DEF HandedOn
  <2>3. \A c \in Z : w.rows[c] # None => w.rows[c].party # i
    BY <2>2 DEF RowsOf
  <2>4. Agree(w, Z)
    <3>1. SUFFICES ASSUME NEW c \in Z, NEW e \in Z, w.rows[c] # None, w.rows[e] # None,
                          w.party[c] = w.party[e], w.party[c] # None
                   PROVE  w.rows[c].party = w.rows[e].party
      BY DEF Agree
    <3>2. Id(w, c) = Id(w, e)
      BY <3>1 DEF Id
    <3> QED  BY <2>2, <2>3, <3>1, <3>2
  <2>5. \A c \in Z : Stale(w, c) => Id(w, c) = i /\ w.rows[c].party = d /\ w.party[c] # None
    BY <2>2 DEF Stale
  <2>6. \A c \in Z : Late(w, c) => w.rows[c].party = d
    BY <2>2 DEF Late
  <2>7. \A c, g \in Chars : w.party[g] = w.party[c] => Id(w, g) = Id(w, c)
    BY DEF Id
  <2>8. StaleOK(w, Z)
    BY <2>2, <2>5, <2>7 DEF StaleOK
  <2> QED  BY <1>2, <2>1, <2>4, <2>6, <2>8
<1> QED  BY <1>1, <1>2 DEF Fits

LEMMA LessSound ==
  ASSUME NEW w, NEW Z, NEW Y \in SUBSET Z
  PROVE  /\ Agree(w, Z) => Agree(w, Y)
         /\ StaleOK(w, Z) => StaleOK(w, Y)
BY DEF Agree, StaleOK

\* An act of a player when nothing is under way.
LEMMA CalmStep ==
  ASSUME PartyAssumption, NoneAssumption, PartyTypeOK, PartyTypeOK', Homes', NEW p \in Procs,
         NEW w, Proper(w), Becomes(p, w), Hosted(w)',
         NEW Z \in SUBSET Chars, Fits(w, Z), Zone' \subseteq Z,
         \A q \in Procs : toWorld[q] = <<>> /\ toMap'[q] = <<>>
  PROVE  PartyInv'
<1>1. /\ World'.party = w.party /\ World'.cparty = w.cparty /\ World'.rows = w.rows
      /\ World'.reload = w.reload /\ rows' = w.rows
  BY NextWorld DEF Becomes
<1>2. Leads(World, {})' /\ Hosted(World)' /\ Proper(World)'
  BY NextLeads DEF Fits
<1>3. /\ Agree(w, Z) /\ StaleOK(w, Z)
      /\ \A c \in Z : Late(w, c) => Reloading(w.rows[c].party) \in Posted(w.sent)
      /\ (\E c \in Z : Stale(w, c)) => \A m \in Posted(w.sent) : m.type # "Kick"
  BY FitsSound
<1> DEFINE Y == Zone'
<1> HIDE DEF Y
<1>4. Y \in SUBSET Z
  BY DEF Y
<1>5. Agree(w, Y) /\ StaleOK(w, Y)
  BY <1>3, <1>4, LessSound
<1>6. Agree(World', Y) /\ StaleOK(World', Y)
  BY <1>1, <1>5, SameSound
<1>7. Sound(World)'
  BY <1>2, <1>6 DEF Sound, Y
<1>8. \A q \in Procs :
           /\ Posted(toWorld[q]) = {}
           /\ Posted(toWorld'[q]) = Posted(toWorld[q]) \cup (IF q = p THEN Posted(w.sent) ELSE {})
           /\ Posted(toMap'[q]) = {}
  BY SentIs, NoPost
<1>9. \A q \in Procs : \A m \in Posted(toWorld'[q]) : m \in Posted(w.sent)
  BY <1>8
<1>10. LateAreTold'
  <2>1. SUFFICES ASSUME NEW c \in Y, Late(World', c)
                 PROVE  \E q \in Procs : Reloading(rows'[c].party) \in Posted(toWorld'[q])
    BY DEF LateAreTold, Told, Y
  <2>2. Late(w, c)
    BY <1>1, <2>1, SameSound
  <2>3. Reloading(w.rows[c].party) \in Posted(toWorld'[p])
    BY <1>3, <1>4, <1>8, <2>1, <2>2
  <2> QED  BY <1>1, <2>3
<1>11. StaleUnkicked'
  <2>1. SUFFICES ASSUME NEW c \in Y, Stale(World', c) PROVE NoneUnderWay("Kick")'
    BY DEF StaleUnkicked, Y
  <2>2. Stale(w, c)
    BY <1>1, <2>1, SameSound
  <2> QED  BY <1>3, <1>4, <1>8, <1>9, <2>2 DEF NoneUnderWay
<1>12. AnswerAlone'
  BY <1>8, <1>9 DEF AnswerAlone, Fits
<1> QED  BY <1>7, <1>10, <1>11, <1>12 DEF PartyInv

-----------------------------------------------------------------------------
(* The players' acts.                                                      *)

\* Nothing is under way, and every copy is as the rows are.
AtRest ==
  /\ Ready(World) /\ World.sent = <<>> /\ \A c \in Chars : ~World.reload[c]
  /\ \A q \in Procs : toWorld[q] = <<>> /\ toMap[q] = <<>>

LEMMA CalmIs ==
  ASSUME PartyInv, Calm
  PROVE  AtRest
<1>1. PartyTypeOK /\ Sound(World) /\ LateAreTold
  BY DEF PartyInv
<1>2. /\ World.party = party /\ World.cparty = cparty /\ World.rows = rows
      /\ World.reload = reload /\ World.sent = <<>>
  BY <1>1, WorldIs
<1>3. (\A c \in Chars : ~World.reload[c]) /\ \A q \in Procs : toWorld[q] = <<>> /\ toMap[q] = <<>>
  BY <1>2 DEF Calm
<1>4. \A q \in Procs : Posted(toWorld[q]) = {} /\ Posted(toMap[q]) = {}
  BY <1>3, NoPost
<1>5. Settled(World, Zone)
  <2>1. SUFFICES ASSUME NEW c \in Zone, World.rows[c] # None,
                        ~(World.party[c] # None /\ Id(World, c) = World.rows[c].party)
                 PROVE  FALSE
    BY DEF Settled
  <2>2. c \in Chars
    BY DEF Zone
  <2>3. Late(World, c)
    BY <1>3, <2>1, <2>2 DEF Late
  <2>4. Told(rows[c].party, server[c])
    BY <1>1, <2>3 DEF LateAreTold
  <2> QED  BY <1>4, <2>4 DEF Told
<1>6. OnlyReloads(World)
  BY <1>2, NothingSent
<1> QED  BY <1>1, <1>2, <1>3, <1>5, <1>6 DEF AtRest, Ready, Sound

\* Nobody comes or goes.
LEMMA CalmAct ==
  ASSUME PartyAssumption, NoneAssumption, PartyInv, AtRest, PartyTypeOK', NEW p \in Procs,
         NEW w, Proper(w), Becomes(p, w), Fits(w, Zone), Hosted(w),
         server' = server, stage' = stage, toMap' = toMap
  PROVE  PartyInv'
<1>1. Homes'
  BY DEF PartyInv, Homes
<1>2. Hosted(w)'
  BY DEF Hosted
<1> DEFINE Z == Zone
<1>3. Zone' = Z
  BY DEF Zone
<1>4. Z \in SUBSET Chars
  BY DEF Zone
<1>5. PartyTypeOK
  BY DEF PartyInv
<1>6. \A q \in Procs : toWorld[q] = <<>> /\ toMap'[q] = <<>>
  BY DEF AtRest
<1>7. Fits(w, Z)
  OBVIOUS
<1> HIDE DEF Z
<1> QED  BY <1>1, <1>2, <1>3, <1>4, <1>5, <1>6, <1>7, CalmStep

LEMMA ActorIs ==
  ASSUME PartyAssumption, PartyInv, ~Hasty, NEW c \in Chars, Acts(c)
  PROVE  AtRest /\ server[c] \in Procs /\ server[c] # None /\ c \in Zone
<1>1. stage[c] = "in" /\ Calm
  BY DEF Acts, Unhurried
<1>2. Homes
  BY DEF PartyInv
<1>3. server[c] \in Procs
  BY <1>1, <1>2 DEF Homes
<1> QED  BY <1>1, <1>3, CalmIs DEF Zone, PartyAssumption

\* A message alone changes nothing yet.
LEMMA AskedFits ==
  ASSUME NEW w, Ready(w), w.sent = <<>>, NEW m \in Message, m.type # "Answer", NEW v, v = Sending(w, m)
  PROVE  Proper(v) /\ Fits(v, Zone) /\ Hosted(v)
<1>1. Proper(w) /\ w \in Worlds
  BY DEF Ready, Proper
<1>2. v \in Worlds /\ v.party = w.party /\ v.cparty = w.cparty /\ v.rows = w.rows /\ Sends(w, v, m)
  BY <1>1, SendingIs
<1>3. Proper(v)
  BY <1>1, <1>2, AsProper
<1>4. Zone \in SUBSET Chars
  BY DEF Zone
<1>5. Leads(v, {}) /\ Settled(v, Zone) /\ Hosted(v)
  BY <1>1, <1>2, <1>4, SameLeads DEF Ready
<1>6. Posted(v.sent) = {m}
  BY <1>2, FirstSent
<1> QED  BY <1>3, <1>5, <1>6, SettledIsClear DEF Fits

LEMMA WorldFits ==
  ASSUME NEW w, Ready(w)
  PROVE  Proper(w) /\ Fits(w, Zone) /\ Hosted(w)
BY SettledFits DEF Ready

-----------------------------------------------------------------------------
LEMMA InviteInv ==
  ASSUME PartyAssumption, NoneAssumption, PartyInv, ~Hasty, NEW a \in Chars, NEW b \in Chars, Invite(a, b)
  PROVE  PartyInv'
<1>1. AtRest /\ server[a] \in Procs
  BY ActorIs DEF Invite
<1>2. Ready(World) /\ World.sent = <<>>
  BY <1>1 DEF AtRest
<1>3. PartyTypeOK'
  BY InviteTypes DEF PartyInv
<1>4. server' = server /\ stage' = stage /\ toMap' = toMap
  BY DEF Invite
<1> DEFINE m == [type |-> "Invite", from |-> a, to |-> b]
<1>5. \/ Becomes(server[a], World)
      \/ Becomes(server[a], Sending(World, m))
  BY DEF Invite
<1>6. PICK w : Becomes(server[a], w) /\ (w = World \/ w = Sending(World, m))
  BY <1>5
<1>7. m \in Message /\ m.type # "Answer"
  BY DEF Message
<1>8. Proper(w) /\ Fits(w, Zone) /\ Hosted(w)
  <2>1. CASE w = World
    BY <1>2, <2>1, WorldFits
  <2>2. CASE w = Sending(World, m)
    <3> HIDE DEF m
    <3> QED  BY <1>2, <1>7, <2>2, AskedFits
  <2> QED  BY <1>6, <2>1, <2>2
<1> QED  BY <1>1, <1>3, <1>4, <1>6, <1>8, CalmAct

LEMMA DeclineInv ==
  ASSUME PartyAssumption, NoneAssumption, PartyInv, ~Hasty, NEW b \in Chars, Decline(b)
  PROVE  PartyInv'
<1>1. AtRest /\ server[b] \in Procs
  BY ActorIs DEF Decline
<1>2. PICK w : Becomes(server[b], w) /\ w = World
  BY DEF Decline
<1>3. Proper(w) /\ Fits(w, Zone) /\ Hosted(w)
  BY <1>1, <1>2, WorldFits DEF AtRest
<1>4. PartyTypeOK'
  BY DeclineTypes DEF PartyInv
<1>5. server' = server /\ stage' = stage /\ toMap' = toMap
  BY DEF Decline
<1> QED  BY <1>1, <1>2, <1>3, <1>4, <1>5, CalmAct

\* Who leaves a party at rest.
LEMMA LeaverFits ==
  ASSUME PartyAssumption, NoneAssumption, AtRest, NEW c \in Chars, party[c] # None, PartyTypeOK,
         NEW w \in Removed(World, c)
  PROVE  Proper(w) /\ Fits(w, Zone) /\ Hosted(w) /\ w.party[c] = None /\ w.rows[c] = None
<1>1. Ready(World) /\ World.sent = <<>> /\ (\A g \in Chars : ~World.reload[g]) /\ World.party = party
  BY WorldIs DEF AtRest
<1>2. Proper(World) /\ Leads(World, {}) /\ Hosted(World) /\ Settled(World, Zone)
  BY <1>1 DEF Ready
<1>3. Leads(World, {c})
  BY <1>2, MoreLeads
<1>4. Zone \in SUBSET Chars
  BY DEF Zone
<1>5. Proper(w)
  BY <1>1, <1>2, RemovedIsProper
<1>6. Fits(w, Zone) /\ Shrinks(World, w) /\ w.party[c] = None /\ w.rows[c] = None
  BY <1>1, <1>2, <1>3, <1>4, RemovedFits
<1>7. Hosted(w)
  BY <1>2, <1>6, ShrinksHosted
<1> QED  BY <1>5, <1>6, <1>7

LEMMA LeaveInv ==
  ASSUME PartyAssumption, NoneAssumption, PartyInv, ~Hasty, NEW c \in Chars, Leave(c)
  PROVE  PartyInv'
<1>1. AtRest /\ server[c] \in Procs
  BY ActorIs DEF Leave
<1>2. PICK w \in Removed(World, c) : Becomes(server[c], w)
  BY DEF Leave
<1>3. party[c] # None /\ PartyTypeOK
  BY DEF Leave, PartyInv
<1>4. Proper(w) /\ Fits(w, Zone) /\ Hosted(w)
  BY <1>1, <1>2, <1>3, LeaverFits
<1>5. PartyTypeOK'
  BY <1>3, LeaveTypes
<1>6. server' = server /\ stage' = stage /\ toMap' = toMap
  BY DEF Leave
<1> QED  BY <1>1, <1>2, <1>4, <1>5, <1>6, CalmAct

LEMMA BreakupInv ==
  ASSUME PartyAssumption, NoneAssumption, PartyInv, ~Hasty, NEW c \in Chars, Breakup(c)
  PROVE  PartyInv'
<1>1. AtRest /\ server[c] \in Procs
  BY ActorIs DEF Breakup
<1>2. PartyTypeOK /\ LeadsIn(World, c)
  BY DEF Breakup, PartyInv
<1>3. PICK w : Becomes(server[c], w) /\ w = Disbanded(World, party[c], TRUE)
  BY DEF Breakup
<1>4. Ready(World) /\ World.sent = <<>> /\ World.cparty = cparty
  BY <1>1, <1>2, WorldIs DEF AtRest
<1>5. party[c] \in Objects /\ World.cparty[party[c]] # None
  BY <1>2, <1>4, LedObject
<1>6. Proper(w) /\ Fits(w, Zone) /\ Shrinks(World, w)
  BY <1>3, <1>4, <1>5, DisbandedFits
<1>7. Hosted(w)
  BY <1>4, <1>6, ShrinksHosted DEF Ready
<1>8. PartyTypeOK'
  BY <1>2, BreakupTypes
<1>9. server' = server /\ stage' = stage /\ toMap' = toMap
  BY DEF Breakup
<1> QED  BY <1>1, <1>3, <1>6, <1>7, <1>8, <1>9, CalmAct

LEMMA KickInv ==
  ASSUME PartyAssumption, NoneAssumption, PartyInv, ~Hasty, NEW a \in Chars, NEW c \in Chars, Kick(a, c)
  PROVE  PartyInv'
<1>1. AtRest /\ server[a] \in Procs
  BY ActorIs DEF Kick
<1>2. PartyTypeOK /\ LeadsIn(World, a) /\ a # c
  BY DEF Kick, PartyInv
<1>3. Ready(World) /\ World.sent = <<>> /\ World.party = party /\ Proper(World)
  BY <1>1, <1>2, WorldIs DEF AtRest
<1>4. party[a] # None
  BY <1>2, LedObject
<1>5. PICK w : /\ Becomes(server[a], w)
               /\ \/ party[c] # None /\ w \in Removed(World, c)
                  \/ c \in RowsOf(World, a) /\ w \in Kicked(World, a, c)
  BY <1>4 DEF Kick
<1>6. Proper(w) /\ Fits(w, Zone) /\ Hosted(w)
  <2>1. CASE party[c] # None /\ w \in Removed(World, c)
    BY <1>1, <1>2, <2>1, LeaverFits
  <2>2. CASE c \in RowsOf(World, a) /\ w \in Kicked(World, a, c)
    <3>1. Proper(w) /\ Fits(w, Zone) /\ Shrinks(World, w)
      BY <1>2, <1>3, <2>2, KickedFits
    <3> QED  BY <1>3, <3>1, ShrinksHosted DEF Ready
  <2> QED  BY <1>5, <2>1, <2>2
<1>7. PartyTypeOK'
  BY <1>2, KickTypes
<1>8. server' = server /\ stage' = stage /\ toMap' = toMap
  BY DEF Kick
<1> QED  BY <1>1, <1>5, <1>6, <1>7, <1>8, CalmAct

LEMMA GiveLeadInv ==
  ASSUME PartyAssumption, NoneAssumption, PartyInv, ~Hasty, NEW a \in Chars, NEW b \in Chars, GiveLead(a, b)
  PROVE  PartyInv'
<1>1. AtRest /\ server[a] \in Procs
  BY ActorIs DEF GiveLead
<1>2. PartyTypeOK /\ LeadsIn(World, a) /\ a # b /\ b \in RowsOf(World, Id(World, a))
  BY DEF GiveLead, PartyInv
<1>3. Ready(World) /\ World.sent = <<>> /\ World.party = party /\ \A g \in Chars : ~World.reload[g]
  BY <1>1, <1>2, WorldIs DEF AtRest
<1>4. PICK w : Becomes(server[a], w) /\ w = Sending(SetLeader(World, World.party[a], b), Reloading(b))
  BY <1>3 DEF GiveLead
<1>5. Proper(w) /\ Fits(w, Zone) /\ Shrinks(World, w)
  BY <1>2, <1>3, <1>4, GivenFits
<1>6. Hosted(w)
  BY <1>3, <1>5, ShrinksHosted DEF Ready
<1>7. PartyTypeOK'
  BY <1>2, GiveLeadTypes
<1>8. server' = server /\ stage' = stage /\ toMap' = toMap
  BY DEF GiveLead
<1> QED  BY <1>1, <1>4, <1>5, <1>6, <1>7, <1>8, CalmAct

-----------------------------------------------------------------------------
\* An answer that is sent is all that is under way.
LEMMA AnsweringInv ==
  ASSUME PartyAssumption, NoneAssumption, PartyInv, AtRest, PartyTypeOK', NEW p \in Procs,
         NEW m \in Message, m.type = "Answer", m.to \in Zone, party[m.to] = None,
         NEW w, w = Sending(World, m), Becomes(p, w),
         server' = server, stage' = stage, toMap' = toMap
  PROVE  PartyInv'
<1>1. /\ Ready(World) /\ World.sent = <<>> /\ (\A c \in Chars : ~World.reload[c])
      /\ \A q \in Procs : toWorld[q] = <<>> /\ toMap[q] = <<>>
  BY DEF AtRest
<1>2. PartyTypeOK
  BY DEF PartyInv
<1>3. /\ Proper(World) /\ World \in Worlds /\ World.party = party /\ World.rows = rows
      /\ World.reload = reload /\ World.cparty = cparty
  BY <1>2, WorldIs DEF Proper
<1>4. /\ w \in Worlds /\ w.party = party /\ w.cparty = cparty /\ w.rows = rows /\ w.reload = reload
      /\ Sends(World, w, m)
  BY <1>3, SendingIs
<1>5. Proper(w)
  BY <1>3, <1>4, AsProper
<1>6. Zone \in SUBSET Chars /\ Zone' = Zone
  BY DEF Zone
<1>7. Leads(w, {}) /\ Settled(w, Zone) /\ Hosted(w)
  BY <1>1, <1>3, <1>4, <1>6, SameLeads DEF Ready
<1>8. Posted(w.sent) = {m}
  BY <1>1, <1>4, FirstSent
<1>9. Hosted(w)'
  BY <1>7 DEF Hosted
<1>10. Leads(World, {})' /\ Hosted(World)' /\ Proper(World)'
  BY <1>5, <1>7, <1>9, NextLeads
<1>11. /\ World'.party = w.party /\ World'.cparty = w.cparty /\ World'.rows = w.rows
       /\ World'.reload = w.reload /\ rows' = w.rows /\ party' = w.party /\ reload' = w.reload
  BY NextWorld DEF Becomes
<1>12. \A c \in Zone : ~Late(w, c) /\ ~Stale(w, c)
  BY <1>7 DEF Settled, Late, Stale
<1>13. Agree(w, Zone) /\ StaleOK(w, Zone)
  BY <1>7, <1>12 DEF Agree, StaleOK, Settled, Id
<1> DEFINE Z == Zone
<1>14. Agree(World', Z) /\ StaleOK(World', Z) /\ \A c \in Z : ~Late(World', c) /\ ~Stale(World', c)
  BY <1>11, <1>12, <1>13, SameSound
<1>15. Agree(World, Zone)' /\ StaleOK(World, Zone)' /\ \A c \in Zone' : ~Late(World', c) /\ ~Stale(World', c)
  BY <1>6, <1>14
<1>16. Sound(World)'
  BY <1>10, <1>15 DEF Sound
<1>17. LateAreTold' /\ StaleUnkicked'
  BY <1>15 DEF LateAreTold, StaleUnkicked
<1>18. Homes'
  BY DEF PartyInv, Homes
<1>19. Awaited(m)'
  <2>1. rows[m.to] = None
    BY <1>1, <1>3 DEF Ready, Settled
  <2> QED  BY <1>1, <1>3, <1>4, <1>6, <1>11, <2>1 DEF Awaited
<1>20. \A q \in Procs : /\ toMap'[q] = <<>> /\ Posted(toMap'[q]) = {}
                        /\ q # p => toWorld'[q] = <<>> /\ Posted(toWorld'[q]) = {}
  BY <1>1, <1>2, <1>5, SentIs, NoPost
<1>21. toWorld'[p] = w.sent
  BY <1>1, <1>2, <1>5, SentIs
<1>22. w.sent = <<m>>
  BY <1>1, <1>4 DEF Sends
<1>23. AnswerAlone'
  BY <1>8, <1>19, <1>20, <1>21, <1>22 DEF AnswerAlone
<1> QED  BY <1>16, <1>17, <1>18, <1>23 DEF PartyInv

LEMMA AcceptInv ==
  ASSUME PartyAssumption, NoneAssumption, PartyInv, ~Hasty, NEW b \in Chars, Accept(b)
  PROVE  PartyInv'
<1>1. AtRest /\ server[b] \in Procs /\ server[b] # None /\ b \in Zone
  BY ActorIs DEF Accept
<1>2. PartyTypeOK
  BY DEF PartyInv
<1>3. PartyTypeOK'
  BY <1>2, AcceptTypes
<1>4. server' = server /\ stage' = stage /\ toMap' = toMap
  BY DEF Accept
<1> DEFINE a == invite[b]
           m == [type |-> "Answer", from |-> a, to |-> b]
<1>5. a \in Chars
  BY <1>2, Kept DEF Accept
<1>6. Ready(World) /\ World.party = party
  BY <1>1, <1>2, WorldIs DEF AtRest
<1>7. PICK w : /\ Becomes(server[b], w)
               /\ \/ w = World
                  \/ party[b] = None /\ Found(server[b], a) /\ w = Joined(World, a, b)
                  \/ party[b] = None /\ w = Sending(World, m)
  BY DEF Accept
<1>8. CASE w = World
  BY <1>1, <1>3, <1>4, <1>6, <1>7, <1>8, WorldFits, CalmAct
<1>9. CASE party[b] = None /\ Found(server[b], a) /\ w = Joined(World, a, b)
  <2>1. a \in Zone /\ server[a] = server[b]
    BY <1>5, <1>9 DEF Found, Zone
  <2>2. Ready(w)
    BY <1>1, <1>6, <1>9, <2>1, JoinedFits
  <2> QED  BY <1>1, <1>3, <1>4, <1>7, <2>2, WorldFits, CalmAct
<1>10. CASE party[b] = None /\ w = Sending(World, m)
  <2>1. m \in Message /\ m.type = "Answer" /\ m.to = b
    BY <1>5 DEF Message
  <2> HIDE DEF m
  <2> QED  BY <1>1, <1>3, <1>4, <1>7, <1>10, <2>1, AnsweringInv
<1> QED  BY <1>7, <1>8, <1>9, <1>10

-----------------------------------------------------------------------------
(* Who zones or logs out.                                                  *)

\* Fewer marks.
LEMMA UnmarkedFits ==
  ASSUME NEW w, Proper(w), NEW Z \in SUBSET Chars, Fits(w, Z), NEW v \in Worlds,
         v.party = w.party, v.cparty = w.cparty, v.rows = w.rows, v.sent = w.sent,
         \A g \in Chars : v.reload[g] => w.reload[g]
  PROVE  Proper(v) /\ Fits(v, Z)
<1>1. Proper(v)
  BY AsProper
<1>2. Leads(v, {})
  BY SameLeads DEF Fits
<1>3. \A c : Id(v, c) = Id(w, c)
  BY DEF Id
<1>4. \A i : RowsOf(v, i) = RowsOf(w, i)
  BY DEF RowsOf
<1>5. Clear(w, Z) => Clear(v, Z)
  BY <1>3 DEF Clear
<1>6. \A i, d \in Chars : HandedOn(w, Z, i, d) => HandedOn(v, Z, i, d)
  BY <1>3, <1>4 DEF HandedOn
<1> QED  BY <1>1, <1>2, <1>5, <1>6 DEF Fits

\* Everybody is as it was, but who has come or gone.
LEMMA Comings ==
  ASSUME NEW w, Hosted(w), NEW c \in Chars, \A d \in Chars \ {c} : server'[d] = server[d] /\ stage'[d] = stage[d],
         w.party[c] # None => server'[c] = server[c] /\ stage'[c] \in {"in", "zoning"},
         w.rows[c] # None => server'[c] # None /\ stage'[c] # "quitting"
  PROVE  Hosted(w)'
<1>1. \A d \in Chars : w.party[d] # None => server'[d] = server[d] /\ stage'[d] \in {"in", "zoning"}
  BY DEF Hosted
<1>2. \A d, e \in Chars : w.party[d] # None /\ w.party[d] = w.party[e] => server'[d] = server'[e]
  BY <1>1 DEF Hosted
<1>3. \A d \in Chars : w.rows[d] # None => server'[d] # None /\ stage'[d] # "quitting"
  BY DEF Hosted
<1> QED  BY <1>1, <1>2, <1>3 DEF Hosted

LEMMA ZoneOutInv ==
  ASSUME PartyAssumption, NoneAssumption, PartyInv, ~Hasty, NEW c \in Chars, ZoneOut(c)
  PROVE  PartyInv'
<1>1. AtRest /\ server[c] \in Procs /\ server[c] # None
  BY ActorIs DEF ZoneOut
<1>2. PartyTypeOK /\ Homes
  BY DEF PartyInv
<1>3. PartyTypeOK'
  BY <1>2, ZoneOutTypes
<1>4. server' = server /\ stage' = [stage EXCEPT ![c] = "zoning"] /\ toMap' = toMap
  BY DEF ZoneOut
<1>5. Ready(World) /\ Proper(World) /\ World \in Worlds /\ Hosted(World)
  BY <1>1 DEF AtRest, Ready, Proper
<1>6. PICK w : Becomes(server[c], w) /\ w = [World EXCEPT !.reload[c] = FALSE]
  BY DEF ZoneOut
<1>7. /\ w \in Worlds /\ w.party = World.party /\ w.cparty = World.cparty /\ w.rows = World.rows
      /\ w.sent = World.sent /\ \A d \in Chars : w.reload[d] => World.reload[d]
  BY <1>5, <1>6, UnmarkedIs
<1> DEFINE Z == Zone
<1>8. Z \in SUBSET Chars
  BY DEF Zone
<1>9. Proper(w) /\ Fits(w, Z)
  BY <1>5, <1>7, <1>8, WorldFits, UnmarkedFits
<1>10. Hosted(w)
  BY <1>5, <1>7 DEF Hosted
<1>11. /\ \A d \in Chars \ {c} : server'[d] = server[d] /\ stage'[d] = stage[d]
       /\ server'[c] = server[c] /\ stage'[c] = "zoning"
  BY <1>2, <1>4, Kept
<1>12. Hosted(w)'
  BY <1>1, <1>10, <1>11, Comings
<1>13. Homes'
  BY <1>1, <1>2, <1>11 DEF Homes
<1>14. Zone' \subseteq Z
  BY <1>11 DEF Zone
<1>15. \A q \in Procs : toWorld[q] = <<>> /\ toMap'[q] = <<>>
  BY <1>1, <1>4 DEF AtRest
<1> HIDE DEF Z
<1> QED  BY <1>1, <1>2, <1>3, <1>6, <1>8, <1>9, <1>12, <1>13, <1>14, <1>15, CalmStep

LEMMA LogOutInv ==
  ASSUME PartyAssumption, NoneAssumption, PartyInv, ~Hasty, NEW c \in Chars, LogOut(c)
  PROVE  PartyInv'
<1>1. AtRest /\ server[c] \in Procs /\ server[c] # None /\ c \in Zone
  BY ActorIs DEF LogOut
<1>2. PartyTypeOK /\ Homes
  BY DEF PartyInv
<1>3. PartyTypeOK'
  BY <1>2, LogOutTypes
<1>4. server' = server /\ stage' = [stage EXCEPT ![c] = "quitting"] /\ toMap' = toMap
  BY DEF LogOut
<1>5. Ready(World) /\ Settled(World, Zone) /\ World.party = party
  BY <1>1, <1>2, WorldIs DEF AtRest, Ready
<1>6. PICK u, w : /\ Becomes(server[c], w) /\ w = [u EXCEPT !.reload[c] = FALSE]
                  /\ \/ party[c] = None /\ u = World
                     \/ party[c] # None /\ u \in Removed(World, c)
  <2>1. PICK u \in IF party[c] = None THEN {World} ELSE Removed(World, c) :
               Becomes(server[c], [u EXCEPT !.reload[c] = FALSE])
    BY DEF LogOut
  <2> QED  BY <2>1
<1> DEFINE Z == Zone
<1>7. Z \in SUBSET Chars
  BY DEF Zone
<1>8. Proper(u) /\ Fits(u, Z) /\ Hosted(u) /\ u.party[c] = None /\ u.rows[c] = None
  <2>1. CASE party[c] = None /\ u = World
    BY <1>1, <1>5, <2>1, WorldFits DEF Settled
  <2>2. CASE party[c] # None /\ u \in Removed(World, c)
    BY <1>1, <1>2, <2>2, LeaverFits
  <2> QED  BY <1>6, <2>1, <2>2
<1>9. /\ w \in Worlds /\ w.party = u.party /\ w.cparty = u.cparty /\ w.rows = u.rows
      /\ w.sent = u.sent /\ \A d \in Chars : w.reload[d] => u.reload[d]
  BY <1>6, <1>8, UnmarkedIs DEF Proper
<1>10. Proper(w) /\ Fits(w, Z) /\ Hosted(w)
  <2>1. Hosted(w)
    BY <1>8, <1>9 DEF Hosted
  <2> QED  BY <1>7, <1>8, <1>9, <2>1, UnmarkedFits
<1>11. /\ \A d \in Chars \ {c} : server'[d] = server[d] /\ stage'[d] = stage[d]
       /\ server'[c] = server[c] /\ stage'[c] = "quitting"
  BY <1>2, <1>4, Kept
<1>12. Hosted(w)'
  BY <1>8, <1>9, <1>10, <1>11, Comings
<1>13. Homes'
  BY <1>1, <1>2, <1>11 DEF Homes
<1>14. Zone' \subseteq Z
  BY <1>11 DEF Zone
<1>15. \A q \in Procs : toWorld[q] = <<>> /\ toMap'[q] = <<>>
  BY <1>1, <1>4 DEF AtRest
<1> HIDE DEF Z
<1> QED  BY <1>1, <1>2, <1>3, <1>6, <1>7, <1>10, <1>12, <1>13, <1>14, <1>15, CalmStep

LEMMA DepartedFits ==
  ASSUME PartyAssumption, NoneAssumption, NEW w, Ready(w), w.sent = <<>>, NEW c \in Chars \ Zone,
         w.party[c] # None, NEW v, v = Unlinked(w, c) \/ v = Sending(Unlinked(w, c), Reloading(Id(w, c)))
  PROVE  Proper(v) /\ Fits(v, Zone) /\ Hosted(v) /\ v.party[c] = None
<1>1. PICK u : u = Unlinked(w, c)
  OBVIOUS
<1>2. Proper(w) /\ w \in Worlds /\ Leads(w, {}) /\ KnowsLeader(w) /\ Hosted(w) /\ Settled(w, Zone)
  BY DEF Ready, Proper, Leads
<1>3. Proper(u) /\ Sheds(w, u, {c})
  BY <1>1, <1>2, UnlinkedSheds, UnlinkedIsProper
<1>4. w.party[c] \in Objects /\ w.cparty[w.party[c]] # None /\ Id(w, c) \in Chars
  BY <1>2, IdIs
<1>5. u.party[c] = None /\ u.sent = <<>> /\ u.rows = w.rows /\ \A d \in Chars \ {c} : u.party[d] = w.party[d]
  BY <1>1, <1>2, <1>4, UnlinkedIs
<1>6. Zone \in SUBSET Chars /\ c \notin Zone /\ None \notin {c}
  BY DEF Zone, PartyAssumption
<1>7. Leads(u, {})
  BY <1>2, <1>3, <1>6, MoreLeads, ShedLeads
<1>8. Settled(u, Zone)
  BY <1>2, <1>3, <1>6, ShedSettled
<1>9. Hosted(u)
  BY <1>2, <1>5, ShrinksHosted DEF Shrinks
<1>10. Ready(u)
  BY <1>3, <1>5, <1>7, <1>8, <1>9, NothingSent DEF Ready
<1>11. CASE v = u
  BY <1>5, <1>10, <1>11, WorldFits
<1>12. CASE v = Sending(u, Reloading(Id(w, c)))
  <2>1. PICK m : m = Reloading(Id(w, c))
    OBVIOUS
  <2>2. m \in Message /\ m.type = "Reload"
    BY <1>4, <2>1, ReloadingIs
  <2>3. Proper(v) /\ Fits(v, Zone) /\ Hosted(v)
    BY <1>5, <1>10, <1>12, <2>1, <2>2, AskedFits
  <2>4. v.party = u.party
    BY <1>3, <1>12, <2>1, <2>2, SendingIs DEF Proper
  <2> QED  BY <1>5, <2>3, <2>4
<1> QED  BY <1>1, <1>11, <1>12

LEMMA DepartInv ==
  ASSUME PartyAssumption, NoneAssumption, PartyInv, ~Hasty, NEW c \in Chars, NEW q \in Procs, Depart(c, q)
  PROVE  PartyInv'
<1>1. PartyTypeOK /\ Homes /\ stage[c] = "zoning" /\ Calm
  BY DEF PartyInv, Depart, Unhurried
<1>2. AtRest /\ server[c] \in Procs /\ c \notin Zone
  BY <1>1, CalmIs DEF Homes, Zone
<1>3. PartyTypeOK'
  BY <1>1, DepartTypes
<1>4. server' = [server EXCEPT ![c] = q] /\ stage' = [stage EXCEPT ![c] = "away"] /\ toMap' = toMap
  BY DEF Depart
<1>5. Ready(World) /\ World.sent = <<>> /\ World.party = party
  BY <1>1, <1>2, WorldIs DEF AtRest
<1>6. PICK w : /\ Becomes(server[c], w)
               /\ \/ party[c] = None /\ w = World
                  \/ /\ party[c] # None
                     /\ w = Unlinked(World, c) \/ w = Sending(Unlinked(World, c), Reloading(Id(World, c)))
  BY DEF Depart
<1>7. Proper(w) /\ Fits(w, Zone) /\ Hosted(w) /\ w.party[c] = None
  <2>1. CASE party[c] = None /\ w = World
    BY <1>5, <2>1, WorldFits
  <2>2. CASE /\ party[c] # None
             /\ w = Unlinked(World, c) \/ w = Sending(Unlinked(World, c), Reloading(Id(World, c)))
    BY <1>2, <1>5, <2>2, DepartedFits
  <2> QED  BY <1>6, <2>1, <2>2
<1>8. /\ \A d \in Chars \ {c} : server'[d] = server[d] /\ stage'[d] = stage[d]
      /\ server'[c] = q /\ stage'[c] = "away" /\ q # None
  BY <1>1, <1>4, Kept DEF PartyAssumption
<1>9. Hosted(w)'
  BY <1>7, <1>8, Comings
<1>10. Homes'
  BY <1>1, <1>8 DEF Homes
<1> DEFINE Z == Zone
<1>11. Zone' \subseteq Z /\ Z \in SUBSET Chars
  BY <1>8 DEF Zone
<1>12. \A r \in Procs : toWorld[r] = <<>> /\ toMap'[r] = <<>>
  BY <1>2, <1>4 DEF AtRest
<1>13. Fits(w, Z)
  BY <1>7
<1> HIDE DEF Z
<1> QED  BY <1>1, <1>2, <1>3, <1>6, <1>7, <1>9, <1>10, <1>11, <1>12, <1>13, CalmStep

-----------------------------------------------------------------------------
(* Who comes, and who is gone.                                             *)

\* Who is in no zone comes or goes; the parties stay as they are.
LEMMA AsideStep ==
  ASSUME PartyAssumption, NoneAssumption, PartyInv, PartyTypeOK', Homes', Hosted(World)',
         Zone' = Zone, \A c \in Zone : server'[c] = server[c],
         party' = party, cparty' = cparty, rows' = rows, reload' = reload,
         toWorld' = toWorld, toMap' = toMap
  PROVE  PartyInv'
<1>1. /\ PartyTypeOK /\ Sound(World) /\ LateAreTold /\ StaleUnkicked /\ AnswerAlone
  BY DEF PartyInv
<1>2. World' = World
  BY DEF World
<1>3. Sound(World)'
  <2>1. Leads(World', {}) /\ Proper(World') /\ Agree(World', Zone) /\ StaleOK(World', Zone)
    BY <1>1, <1>2 DEF Sound
  <2>2. Agree(World', Zone') /\ StaleOK(World', Zone')
    BY <2>1
  <2>3. Leads(World, {})' /\ Proper(World)' /\ Agree(World, Zone)' /\ StaleOK(World, Zone)'
    BY <2>1, <2>2
  <2> QED  BY <2>3 DEF Sound
<1>4. LateAreTold'
  <2>1. SUFFICES ASSUME NEW c \in Zone, Late(World, c)
                 PROVE  \/ \E q \in Procs : Reloading(rows[c].party) \in Posted(toWorld[q])
                        \/ server[c] \in Procs /\ Reloading(rows[c].party) \in Posted(toMap[server[c]])
    BY <1>2 DEF LateAreTold, Told
  <2> QED  BY <1>1, <2>1 DEF LateAreTold, Told
<1>5. StaleUnkicked'
  BY <1>1, <1>2 DEF StaleUnkicked, NoneUnderWay
<1>6. AnswerAlone'
  BY <1>1 DEF AnswerAlone, Awaited
<1> QED  BY <1>3, <1>4, <1>5, <1>6 DEF PartyInv

LEMMA LogInInv ==
  ASSUME PartyAssumption, NoneAssumption, PartyInv, NEW c \in Chars, NEW p \in Procs, LogIn(c, p)
  PROVE  PartyInv'
<1>1. PartyTypeOK /\ Homes /\ Sound(World) /\ None \notin Procs
  BY DEF PartyInv, PartyAssumption
<1>2. PartyTypeOK'
  BY <1>1, LogInTypes
<1>3. /\ server[c] = None /\ server' = [server EXCEPT ![c] = p] /\ stage' = stage
      /\ party' = party /\ cparty' = cparty /\ rows' = rows /\ reload' = reload
      /\ toWorld' = toWorld /\ toMap' = toMap
  BY DEF LogIn
<1>4. /\ stage[c] = "away" /\ server'[c] = p
      /\ \A d \in Chars \ {c} : server'[d] = server[d] /\ stage'[d] = stage[d]
  BY <1>1, <1>3, Kept DEF Homes
<1>5. Homes'
  BY <1>1, <1>3, <1>4 DEF Homes
<1>6. Zone' = Zone /\ \A d \in Zone : server'[d] = server[d]
  BY <1>3, <1>4 DEF Zone
<1>7. PICK w : w = World
  OBVIOUS
<1>8. Hosted(w) /\ w.party[c] = None
  BY <1>1, <1>4, <1>7 DEF Sound, Hosted
<1>9. stage'[c] = "away"
  BY <1>3, <1>4
<1>10. Hosted(w)'
  BY <1>1, <1>4, <1>8, <1>9, Comings
<1>11. World' = w
  BY <1>3, <1>7 DEF World
<1>12. Hosted(World)'
  BY <1>10, <1>11
<1> QED  BY <1>1, <1>2, <1>3, <1>5, <1>6, <1>12, AsideStep

LEMMA QuitInv ==
  ASSUME PartyAssumption, NoneAssumption, PartyInv, NEW c \in Chars, Quit(c)
  PROVE  PartyInv'
<1>1. PartyTypeOK /\ Homes /\ Sound(World) /\ stage[c] = "quitting"
  BY DEF PartyInv, Quit
<1>2. PartyTypeOK'
  BY <1>1, QuitTypes
<1>3. /\ server' = [server EXCEPT ![c] = None] /\ stage' = [stage EXCEPT ![c] = "away"]
      /\ toMap' = toMap
  BY DEF Quit, Closed
<1>4. /\ server'[c] = None /\ stage'[c] = "away"
      /\ \A d \in Chars \ {c} : server'[d] = server[d] /\ stage'[d] = stage[d]
  BY <1>1, <1>3, Kept
<1>5. Homes'
  BY <1>1, <1>4 DEF Homes
<1>6. Zone' = Zone /\ \A d \in Zone : server'[d] = server[d]
  BY <1>1, <1>4 DEF Zone
<1>7. PICK w : w = World
  OBVIOUS
<1>8. /\ w \in Worlds /\ w.party = party /\ w.rows = rows /\ w.cparty = cparty /\ w.reload = reload
      /\ w.sent = <<>> /\ Hosted(w)
  BY <1>1, <1>7, WorldIs DEF Sound, Proper
<1>9. w.party[c] = None /\ w.rows[c] = None
  BY <1>1, <1>8 DEF Hosted
<1>10. PICK v : Becomes(server[c], v) /\ v = Without(w, {c})
  BY <1>7 DEF Quit
<1>11. /\ v \in Worlds /\ v.party = w.party /\ v.cparty = w.cparty /\ v.reload = w.reload /\ v.sent = w.sent
       /\ \A d \in Chars : v.rows[d] = w.rows[d]
  BY <1>8, <1>9, <1>10, WithoutIs
<1>12. v.rows = w.rows
  BY <1>8, <1>11 DEF Worlds
<1>13. toWorld' = toWorld
  <2>1. toWorld \in [Procs -> Seq(Message)] /\ server[c] \in Procs
    BY <1>1 DEF PartyTypeOK, Homes
  <2>2. toWorld' = [toWorld EXCEPT ![server[c]] = @ \o <<>>]
    BY <1>8, <1>10, <1>11 DEF Becomes
  <2>3. toWorld[server[c]] \o <<>> = toWorld[server[c]]
    BY <2>1
  <2> QED  BY <2>1, <2>2, <2>3
<1>14. party' = party /\ cparty' = cparty /\ rows' = rows /\ reload' = reload
  BY <1>8, <1>10, <1>11, <1>12 DEF Becomes
<1>15. Hosted(w)'
  BY <1>4, <1>8, <1>9, Comings
<1>16. World' = w
  BY <1>7, <1>14 DEF World
<1>17. Hosted(World)'
  BY <1>15, <1>16
<1> QED  BY <1>1, <1>2, <1>3, <1>5, <1>6, <1>13, <1>14, <1>17, AsideStep

-----------------------------------------------------------------------------
\* Nothing is sent, and everybody is in the copy of its party, or in none and marked.
LEMMA QuietStep ==
  ASSUME PartyAssumption, NoneAssumption, PartyTypeOK', Homes', Hosted(World)',
         NEW w, Proper(w), Leads(w, {}), w = World',
         NEW Z \in SUBSET Chars, Zone' = Z,
         \A c \in Z : w.rows[c] # None =>
            IF w.party[c] = None THEN w.reload[c] ELSE Id(w, c) = w.rows[c].party,
         \A q \in Procs : toWorld'[q] = <<>> /\ toMap'[q] = <<>>
  PROVE  PartyInv'
<1>1. Agree(w, Z)
  BY DEF Agree, Id
<1>2. \A c \in Z : ~Late(w, c) /\ ~Stale(w, c)
  BY DEF Late, Stale
<1>3. StaleOK(w, Z)
  BY <1>2 DEF StaleOK
<1>4. Agree(World, Zone)' /\ StaleOK(World, Zone)' /\ Leads(World, {})' /\ Proper(World)'
  BY <1>1, <1>3
<1>5. Sound(World)'
  BY <1>4 DEF Sound
<1>6. LateAreTold' /\ StaleUnkicked'
  BY <1>2 DEF LateAreTold, StaleUnkicked
<1>7. \A q \in Procs : Posted(toWorld'[q]) = {} /\ Posted(toMap'[q]) = {}
  BY NoPost
<1>8. AnswerAlone'
  BY <1>7 DEF AnswerAlone
<1> QED  BY <1>5, <1>6, <1>8 DEF PartyInv

LEMMA ZoneInInv ==
  ASSUME PartyAssumption, NoneAssumption, PartyInv, ~Hasty, NEW c \in Chars, ZoneIn(c)
  PROVE  PartyInv'
<1>1. PartyTypeOK /\ Homes /\ stage[c] = "away" /\ server[c] # None /\ Calm
  BY DEF PartyInv, ZoneIn, Unhurried
<1>2. AtRest
  BY <1>1, CalmIs
<1>3. PartyTypeOK'
  BY <1>1, ZoneInTypes
<1>4. /\ stage' = [stage EXCEPT ![c] = "in"] /\ reload' = [reload EXCEPT ![c] = TRUE]
      /\ server' = server /\ party' = party /\ cparty' = cparty /\ rows' = rows
      /\ toWorld' = toWorld /\ toMap' = toMap
  BY DEF ZoneIn
<1>5. /\ stage'[c] = "in" /\ server'[c] = server[c] /\ reload'[c]
      /\ \A d \in Chars \ {c} : server'[d] = server[d] /\ stage'[d] = stage[d]
  <2>1. reload \in [Chars -> BOOLEAN]
    BY <1>1 DEF PartyTypeOK
  <2> QED  BY <1>1, <1>4, <2>1, Kept
<1>6. PICK w : w = World
  OBVIOUS
<1>7. /\ Proper(w) /\ Leads(w, {}) /\ Hosted(w) /\ Settled(w, Zone)
      /\ w.party = party /\ w.cparty = cparty /\ w.rows = rows
  BY <1>1, <1>2, <1>6, WorldIs DEF AtRest, Ready
<1>8. PICK v : v = World'
  OBVIOUS
<1>9. /\ v.party = w.party /\ v.cparty = w.cparty /\ v.rows = w.rows /\ v.reload = reload'
  BY <1>4, <1>6, <1>8 DEF World
<1>10. Leads(v, {})
  BY <1>7, <1>9, SameLeads
<1>11. Proper(v)
  <2>1. v \in Worlds
    <3>1. <<>> \in Seq(Message) /\ {} \in SUBSET Chars
      OBVIOUS
    <3> QED  BY <1>3, <1>8, <3>1 DEF World, Worlds, PartyTypeOK
  <2> QED  BY <1>7, <1>9, <2>1, AsProper
<1>12. w.party[c] = None
  BY <1>1, <1>7 DEF Hosted
<1>13. Hosted(w)'
  BY <1>1, <1>5, <1>7, <1>12, Comings
<1>14. Hosted(World)'
  BY <1>8, <1>9, <1>13 DEF Hosted
<1>15. Homes'
  <2>1. server[c] \in Procs
    BY <1>1, Kept
  <2> QED  BY <1>1, <1>5, <2>1 DEF Homes
<1> DEFINE Z == Zone'
<1>16. Zone' = Z /\ Z \in SUBSET Chars /\ \A d \in Z : d = c \/ d \in Zone
  BY <1>5 DEF Zone
<1>17. \A d \in Z : v.rows[d] # None =>
            IF v.party[d] = None THEN v.reload[d] ELSE Id(v, d) = v.rows[d].party
  <2>1. SUFFICES ASSUME NEW d \in Z, v.rows[d] # None
                 PROVE  IF v.party[d] = None THEN v.reload[d] ELSE Id(v, d) = v.rows[d].party
    OBVIOUS
  <2>2. CASE d = c
    BY <1>5, <1>9, <1>12, <2>2
  <2>3. CASE d # c
    BY <1>7, <1>9, <1>16, <2>1, <2>3 DEF Settled, Id
  <2> QED  BY <2>2, <2>3
<1>18. \A q \in Procs : toWorld'[q] = <<>> /\ toMap'[q] = <<>>
  BY <1>2, <1>4 DEF AtRest
<1> HIDE DEF Z
<1> QED  BY <1>3, <1>8, <1>10, <1>11, <1>14, <1>15, <1>16, <1>17, <1>18, QuietStep

\* v is w without the row of c.
Forgets(w, v, c) ==
  /\ v.party = w.party /\ v.cparty = w.cparty
  /\ \A d \in Chars : v.rows[d] = IF d = c THEN None ELSE w.rows[d]

\* A character in no party is forgotten.
LEMMA ForgottenSheds ==
  ASSUME PartyAssumption, NEW w, Proper(w), KnowsLeader(w), NEW c \in Chars, w.party[c] = None,
         NEW v, Forgets(w, v, c)
  PROVE  Sheds(w, v, {c})
<1>1. \A d \in Chars : w.party[d] # None => w.cparty[w.party[d]].leader # c
  <2>1. SUFFICES ASSUME NEW d \in Chars, w.party[d] # None, w.cparty[w.party[d]].leader = c
                 PROVE  FALSE
    OBVIOUS
  <2>2. w.party[c] = w.party[d]
    BY <2>1, LeaderIsMember
  <2> QED  BY <2>1, <2>2
<1> QED  BY <1>1 DEF Sheds, Forgets

\* What is left of a world at rest without the row of c.
LEMMA WithoutLeads ==
  ASSUME NEW w, Proper(w), Leads(w, {}), NEW c \in Chars, NEW v, Forgets(w, v, c)
  PROVE  Leads(v, {c}) /\ \A Z \in SUBSET Chars : Settled(w, Z) => Settled(v, Z)
<1>1. /\ v.party = w.party /\ v.cparty = w.cparty /\ \A d : Id(v, d) = Id(w, d)
      /\ \A d \in Chars : v.rows[d] = IF d = c THEN None ELSE w.rows[d]
  BY DEF Id, Forgets
<1>2. FlagIsId(v)
  BY <1>1 DEF Leads, FlagIsId
<1>3. KnowsLeader(v)
  BY <1>1 DEF Leads, KnowsLeader
<1>4. LeadersAreIn(v, {c})
  <2>1. SUFFICES ASSUME NEW d \in Chars, v.party[d] # None, v.party[Id(v, d)] = v.party[d], Id(v, d) \notin {c}
                 PROVE  v.rows[Id(v, d)] # None /\ v.rows[Id(v, d)].party = Id(v, d)
    BY DEF LeadersAreIn
  <2>2. Id(v, d) \in Chars
    BY <1>1, <2>1, IdIs
  <2> QED  BY <1>1, <2>1, <2>2 DEF Leads, LeadersAreIn
<1>5. \A Z \in SUBSET Chars : Settled(w, Z) => Settled(v, Z)
  BY <1>1 DEF Settled
<1> QED  BY <1>2, <1>3, <1>4, <1>5 DEF Leads

LEMMA TimedOutFits ==
  ASSUME PartyAssumption, NoneAssumption, AtRest, PartyTypeOK, NEW c \in Chars,
         NEW u, u = Without(World, {c}),
         NEW v, \/ party[c] = None /\ v = u
                \/ party[c] # None /\ v \in Removed(u, c)
  PROVE  Proper(v) /\ Fits(v, Zone) /\ Hosted(v) /\ v.party[c] = None /\ v.rows[c] = None
<1>1. PICK w : w = World
  OBVIOUS
<1>2. /\ Proper(w) /\ w \in Worlds /\ Leads(w, {}) /\ KnowsLeader(w) /\ Hosted(w) /\ Settled(w, Zone)
      /\ w.sent = <<>> /\ w.party = party /\ \A g \in Chars : ~w.reload[g]
  BY <1>1, WorldIs DEF AtRest, Ready, Leads, Proper
<1>3. /\ u \in Worlds /\ u.party = w.party /\ u.cparty = w.cparty /\ u.reload = w.reload /\ u.sent = w.sent
      /\ \A d \in Chars : u.rows[d] = IF d = c THEN None ELSE w.rows[d]
  BY <1>1, <1>2, WithoutIs
<1>4. Proper(u)
  BY <1>2, <1>3, AsProper
<1>5. Zone \in SUBSET Chars /\ None \notin {c}
  BY DEF Zone, PartyAssumption
<1>6. Leads(u, {c}) /\ Settled(u, Zone)
  <2>1. Leads(u, {c}) /\ \A Z \in SUBSET Chars : Settled(w, Z) => Settled(u, Z)
    <3>1. Forgets(w, u, c)
      BY <1>3 DEF Forgets
    <3> QED  BY <1>2, <3>1, WithoutLeads
  <2> QED  BY <1>2, <1>5, <2>1
<1>7. Shrinks(w, u)
  BY <1>3 DEF Shrinks
<1>8. CASE party[c] = None /\ v = u
  <2>1. Sheds(w, u, {c})
    BY <1>2, <1>3, <1>8, ForgottenSheds DEF Forgets
  <2>2. Leads(w, {c})
    BY <1>2, MoreLeads
  <2>3. Leads(u, {})
    BY <1>2, <1>5, <2>1, <2>2, ShedLeads
  <2>4. Fits(u, Zone)
    BY <1>2, <1>3, <1>6, <2>3, NothingSent, SettledFits
  <2>5. Hosted(u)
    BY <1>2, <1>7, ShrinksHosted
  <2> QED  BY <1>2, <1>3, <1>4, <1>8, <2>4, <2>5
<1>9. CASE party[c] # None /\ v \in Removed(u, c)
  <2>1. u.party[c] # None /\ u.sent = <<>> /\ \A g \in Chars : ~u.reload[g]
    BY <1>2, <1>3, <1>9
  <2>2. Proper(v)
    BY <1>4, <1>9, <2>1, RemovedIsProper
  <2>3. Fits(v, Zone) /\ Shrinks(u, v) /\ v.party[c] = None /\ v.rows[c] = None
    BY <1>4, <1>5, <1>6, <1>9, <2>1, RemovedFits
  <2>4. Hosted(u)
    BY <1>2, <1>7, ShrinksHosted
  <2>5. Hosted(v)
    BY <2>3, <2>4, ShrinksHosted
  <2> QED  BY <2>2, <2>3, <2>5
<1> QED  BY <1>8, <1>9

LEMMA TimeOutInv ==
  ASSUME PartyAssumption, NoneAssumption, PartyInv, ~Hasty, NEW c \in Chars, TimeOut(c)
  PROVE  PartyInv'
<1>1. PartyTypeOK /\ Homes /\ server[c] # None /\ Calm
  BY DEF PartyInv, TimeOut, Unhurried
<1>2. AtRest /\ server[c] \in Procs
  BY <1>1, CalmIs, Kept
<1>3. PartyTypeOK'
  BY <1>1, TimeOutTypes
<1>4. /\ server' = [server EXCEPT ![c] = None] /\ stage' = [stage EXCEPT ![c] = "away"]
      /\ toMap' = toMap
  BY DEF TimeOut, Closed
<1>5. PICK u : u = Without(World, {c})
  OBVIOUS
<1>6. \E v, w, L : /\ Becomes(server[c], w)
                   /\ \/ party[c] = None /\ v = u
                      \/ party[c] # None /\ v \in Removed(u, c)
                   /\ L = v.lost \cup Orphans(World, c) \/ L = v.lost \cup {} \/ L = Orphans(World, c)
                   /\ w = [v EXCEPT !.reload[c] = FALSE, !.lost = L]
  <2>1. CASE party[c] # None
    <3>1. PICK v \in Removed(u, c) :
             Becomes(server[c], [v EXCEPT
                  !.reload[c] = FALSE,
                  !.lost = @ \cup IF stage[c] = "in" \/ LeadsIn(World, c) THEN {}
                                  ELSE Orphans(World, c)])
      BY <1>5, <2>1 DEF TimeOut
    <3>2. \E L : /\ L = v.lost \cup IF stage[c] = "in" \/ LeadsIn(World, c) THEN {} ELSE Orphans(World, c)
                 /\ Becomes(server[c], [v EXCEPT !.reload[c] = FALSE, !.lost = L])
      BY <3>1
    <3> QED  BY <2>1, <3>2
  <2>2. CASE party[c] = None
    <3>1. Becomes(server[c], [u EXCEPT !.reload[c] = FALSE, !.lost = Orphans(World, c)])
      BY <1>5, <2>2 DEF TimeOut
    <3> QED  BY <2>2, <3>1
  <2> QED  BY <2>1, <2>2
<1>7. PICK v, w, L :
         /\ Becomes(server[c], w)
         /\ \/ party[c] = None /\ v = u
            \/ party[c] # None /\ v \in Removed(u, c)
         /\ L = v.lost \cup Orphans(World, c) \/ L = v.lost \cup {} \/ L = Orphans(World, c)
         /\ w = [v EXCEPT !.reload[c] = FALSE, !.lost = L]
  BY <1>6
<1> DEFINE Z == Zone
<1>8. Z \in SUBSET Chars
  BY DEF Zone
<1>9. Proper(v) /\ Fits(v, Z) /\ Hosted(v) /\ v.party[c] = None /\ v.rows[c] = None
  BY <1>1, <1>2, <1>5, <1>7, TimedOutFits
<1>10. v \in Worlds /\ L \in SUBSET Chars
  BY <1>7, <1>9 DEF Proper, Worlds, Orphans, RowsOf
<1>11. PICK x : x = [v EXCEPT !.reload[c] = FALSE]
  OBVIOUS
<1>12. /\ x \in Worlds /\ x.party = v.party /\ x.cparty = v.cparty /\ x.rows = v.rows
       /\ x.sent = v.sent /\ \A d \in Chars : x.reload[d] => v.reload[d]
  BY <1>10, <1>11, UnmarkedIs
<1>13. w = [x EXCEPT !.lost = L]
  BY <1>7, <1>10, <1>11 DEF Worlds
<1>14. /\ w \in Worlds /\ w.party = v.party /\ w.cparty = v.cparty /\ w.rows = v.rows
       /\ w.sent = v.sent /\ \A d \in Chars : w.reload[d] => v.reload[d]
  BY <1>10, <1>12, <1>13, LosingIs
<1>15. Proper(w) /\ Fits(w, Z)
  BY <1>8, <1>9, <1>14, UnmarkedFits
<1>16. Hosted(w)
  BY <1>9, <1>14 DEF Hosted
<1>17. /\ \A d \in Chars \ {c} : server'[d] = server[d] /\ stage'[d] = stage[d]
       /\ server'[c] = None /\ stage'[c] = "away"
  BY <1>1, <1>4, Kept
<1>18. Hosted(w)'
  BY <1>9, <1>14, <1>16, <1>17, Comings
<1>19. Homes'
  BY <1>1, <1>17 DEF Homes
<1>20. Zone' \subseteq Z
  BY <1>17 DEF Zone
<1>21. \A q \in Procs : toWorld[q] = <<>> /\ toMap'[q] = <<>>
  BY <1>2, <1>4 DEF AtRest
<1> HIDE DEF Z
<1> QED  BY <1>1, <1>2, <1>3, <1>7, <1>8, <1>15, <1>18, <1>19, <1>20, <1>21, CalmStep

LEMMA CrashInv ==
  ASSUME PartyAssumption, NoneAssumption, PartyInv, ~Hasty, NEW p \in Procs, Crash(p)
  PROVE  PartyInv'
<1> DEFINE gone == {c \in Chars : server[c] = p}
<1>1. PartyTypeOK /\ Homes /\ Calm
  BY DEF PartyInv, Crash, Unhurried
<1>2. AtRest
  BY <1>1, CalmIs
<1>3. PartyTypeOK'
  BY <1>1, CrashTypes
<1>4. PICK w : w = World
  OBVIOUS
<1>5. /\ Proper(w) /\ w \in Worlds /\ Leads(w, {}) /\ KnowsLeader(w) /\ Hosted(w) /\ Settled(w, Zone)
      /\ w.party = party /\ w.cparty = cparty /\ w.rows = rows
  BY <1>1, <1>2, <1>4, WorldIs DEF AtRest, Ready, Leads, Proper
<1>6. /\ server' = [c \in Chars |-> IF c \in gone THEN None ELSE server[c]]
      /\ stage'  = [c \in Chars |-> IF c \in gone THEN "away" ELSE stage[c]]
      /\ party'  = [c \in Chars |-> IF c \in gone THEN None ELSE party[c]]
      /\ cparty' = [o \in Objects |-> IF Members(World, o) \subseteq gone THEN None ELSE cparty[o]]
      /\ toWorld' = [toWorld EXCEPT ![p] = <<>>]
      /\ toMap'   = [toMap EXCEPT ![p] = <<>>]
  BY DEF Crash
<1>7. \A c \in Chars : rows'[c] = IF c \in gone THEN None ELSE rows[c]
  <2>1. PICK u : u = Without(w, gone)
    OBVIOUS
  <2>2. u \in Worlds /\ \A c \in Chars : u.rows[c] = IF c \in gone THEN None ELSE w.rows[c]
    BY <1>5, <2>1, WithoutIs
  <2>3. rows' = [u EXCEPT !.lost = UNION {Orphans(World, c) : c \in gone}].rows
    BY <1>4, <2>1 DEF Crash
  <2>4. rows' = u.rows
    BY <2>2, <2>3 DEF Worlds
  <2> QED  BY <1>5, <2>2, <2>4
<1>8. /\ \A c \in gone : server'[c] = None /\ stage'[c] = "away" /\ c \in Chars
      /\ \A c \in Chars \ gone : server'[c] = server[c] /\ stage'[c] = stage[c]
  BY <1>6
<1>9. PICK v : v = World'
  OBVIOUS
<1>10. v.party = party' /\ v.cparty = cparty' /\ v.rows = rows' /\ v.reload = reload'
  BY <1>9 DEF World
<1>11. Proper(v)
  <2>1. <<>> \in Seq(Message) /\ {} \in SUBSET Chars
    OBVIOUS
  <2>2. v \in Worlds
    BY <1>3, <1>9, <2>1 DEF World, Worlds, PartyTypeOK
  <2> QED  BY <1>3, <1>10, <2>2 DEF Proper, PartyTypeOK
<1>12. Sheds(w, v, gone)
  <2>1. \A c \in Chars : v.party[c] = IF c \in gone THEN None ELSE w.party[c]
    BY <1>5, <1>6, <1>10
  <2>2. \A c \in Chars : v.rows[c] = w.rows[c] \/ (c \in gone /\ v.rows[c] = None)
    BY <1>5, <1>7, <1>10
  <2>3. SUFFICES ASSUME NEW c \in Chars \ gone, w.party[c] # None
                 PROVE  /\ v.cparty[w.party[c]] = w.cparty[w.party[c]]
                        /\ w.cparty[w.party[c]].leader \notin gone
    BY <2>1, <2>2 DEF Sheds
  <2>4. w.party[c] \in Objects
    BY <1>5, <2>3, IdIs
  <2>5. ~(Members(World, w.party[c]) \subseteq gone)
    BY <1>4, <2>3 DEF Members
  <2>6. v.cparty[w.party[c]] = w.cparty[w.party[c]]
    BY <1>5, <1>6, <1>10, <2>4, <2>5
  <2>7. w.cparty[w.party[c]].leader \notin gone
    <3>1. SUFFICES ASSUME NEW l \in gone, w.cparty[w.party[c]].leader = l PROVE FALSE
      OBVIOUS
    <3>2. l \in Chars /\ w.party[l] = w.party[c]
      BY <1>5, <2>3, <3>1, LeaderIsMember
    <3>3. server[l] = server[c]
      BY <1>5, <2>3, <3>2 DEF Hosted
    <3> QED  BY <2>3, <3>1, <3>3
  <2> QED  BY <2>6, <2>7
<1>13. None \notin gone
  BY DEF PartyAssumption
<1>14. Leads(w, gone)
  BY <1>5, MoreLeads
<1>15. Leads(v, {})
  BY <1>5, <1>12, <1>13, <1>14, ShedLeads
<1>16. /\ \A c \in Chars : v.party[c] # None => v.party[c] = w.party[c] /\ c \in Chars \ gone
       /\ \A c \in Chars : v.rows[c] # None => w.rows[c] # None /\ c \in Chars \ gone
  BY <1>5, <1>6, <1>7, <1>10
<1>17. Hosted(v)'
  <2>1. \A c \in Chars : v.party[c] # None => stage'[c] \in {"in", "zoning"}
    BY <1>5, <1>8, <1>16 DEF Hosted
  <2>2. \A c, d \in Chars : v.party[c] # None /\ v.party[c] = v.party[d] => server'[c] = server'[d]
    BY <1>5, <1>8, <1>16 DEF Hosted
  <2>3. \A c \in Chars : v.rows[c] # None => server'[c] # None /\ stage'[c] # "quitting"
    BY <1>5, <1>8, <1>16 DEF Hosted
  <2> QED  BY <2>1, <2>2, <2>3 DEF Hosted
<1>18. Hosted(World)'
  BY <1>9, <1>17 DEF Hosted
<1>19. Homes'
  BY <1>1, <1>8 DEF Homes
<1> DEFINE Z == Zone'
<1>20. Zone' = Z /\ Z \in SUBSET Chars /\ Z \subseteq Zone \ gone
  BY <1>8 DEF Zone
<1>21. Settled(v, Z)
  <2>1. Zone \in SUBSET Chars
    BY DEF Zone
  <2>2. \A c \in Zone \cap gone : v.rows[c] = None
    BY <1>16
  <2>3. Settled(v, Zone)
    BY <1>5, <1>12, <2>1, <2>2, ShedSettled
  <2> QED  BY <1>20, <2>3 DEF Settled
<1>22. \A q \in Procs : toWorld'[q] = <<>> /\ toMap'[q] = <<>>
  <2>1. \A q \in Procs : toWorld[q] = <<>> /\ toMap[q] = <<>>
    BY <1>2 DEF AtRest
  <2> QED  BY <1>1, <1>6, <2>1 DEF PartyTypeOK
<1>23. \A c \in Z : v.rows[c] # None =>
            IF v.party[c] = None THEN v.reload[c] ELSE Id(v, c) = v.rows[c].party
  BY <1>21 DEF Settled
<1> HIDE DEF Z
<1> QED  BY <1>3, <1>9, <1>11, <1>15, <1>18, <1>19, <1>20, <1>22, <1>23, QuietStep

-----------------------------------------------------------------------------
(* Ticks and messages.                                                     *)

\* A tick, or the handling of a message that is no answer.
LEMMA SettleStep ==
  ASSUME PartyAssumption, NoneAssumption, PartyInv, PartyTypeOK', NEW p \in Procs,
         NEW w, Sound(w), Becomes(p, w), server' = server, stage' = stage,
         \A c \in Zone : Late(w, c) =>
            \/ \E q \in Procs : Reloading(w.rows[c].party) \in Posted(toWorld[q])
            \/ server[c] \in Procs /\ Reloading(w.rows[c].party) \in Posted(toMap'[server[c]]),
         \A m \in Posted(w.sent) : m.type \notin {"Kick", "Answer"},
         \A q \in Procs : Posted(toMap'[q]) \subseteq Posted(toMap[q]),
         NoneUnderWay("Answer"),
         (\E c \in Zone : Stale(w, c)) => NoneUnderWay("Kick")
  PROVE  PartyInv'
<1>1. PartyTypeOK /\ Homes
  BY DEF PartyInv
<1>2. Proper(w) /\ Leads(w, {}) /\ Hosted(w) /\ Agree(w, Zone) /\ StaleOK(w, Zone)
  BY DEF Sound
<1>3. Hosted(w)'
  BY <1>2 DEF Hosted
<1>4. Leads(World, {})' /\ Hosted(World)' /\ Proper(World)'
  BY <1>2, <1>3, NextLeads
<1>5. /\ World'.party = w.party /\ World'.cparty = w.cparty /\ World'.rows = w.rows
      /\ World'.reload = w.reload /\ rows' = w.rows
  BY NextWorld DEF Becomes
<1> DEFINE Z == Zone
<1>6. Zone' = Z
  BY DEF Zone
<1>7. /\ Agree(World', Z) /\ StaleOK(World', Z)
      /\ \A c : Late(World', c) <=> Late(w, c)
      /\ \A c : Stale(World', c) <=> Stale(w, c)
  BY <1>2, <1>5, SameSound
<1>8. Agree(World, Zone)' /\ StaleOK(World, Zone)'
  BY <1>6, <1>7
<1>9. Sound(World)'
  BY <1>4, <1>8 DEF Sound
<1>10. \A q \in Procs : Posted(toWorld'[q]) = Posted(toWorld[q]) \cup (IF q = p THEN Posted(w.sent) ELSE {})
  BY <1>1, <1>2, SentIs
<1>11. LateAreTold'
  <2>1. SUFFICES ASSUME NEW c \in Z, Late(w, c)
                 PROVE  \/ \E q \in Procs : Reloading(rows'[c].party) \in Posted(toWorld'[q])
                        \/ server'[c] \in Procs /\ Reloading(rows'[c].party) \in Posted(toMap'[server'[c]])
    BY <1>6, <1>7 DEF LateAreTold, Told
  <2>2. CASE \E q \in Procs : Reloading(w.rows[c].party) \in Posted(toWorld[q])
    BY <1>5, <1>10, <2>2
  <2>3. CASE server[c] \in Procs /\ Reloading(w.rows[c].party) \in Posted(toMap'[server[c]])
    BY <1>5, <2>3
  <2> QED  BY <2>1, <2>2, <2>3
<1>12. StaleUnkicked'
  <2>1. SUFFICES ASSUME NEW c \in Z, Stale(w, c)
                 PROVE  \A q \in Procs : \A m \in Posted(toWorld'[q]) \cup Posted(toMap'[q]) : m.type # "Kick"
    BY <1>6, <1>7 DEF StaleUnkicked, NoneUnderWay
  <2>2. NoneUnderWay("Kick")
    BY <2>1
  <2> QED  BY <1>10, <2>2 DEF NoneUnderWay
<1>13. AnswerAlone'
  BY <1>10 DEF AnswerAlone, NoneUnderWay
<1>14. Homes'
  BY <1>1 DEF Homes
<1> QED  BY <1>9, <1>11, <1>12, <1>13, <1>14 DEF PartyInv

\* While a character is marked no answer is awaited.
LEMMA NoAnswers ==
  ASSUME PartyInv, NEW c \in Chars, reload[c]
  PROVE  NoneUnderWay("Answer")
BY DEF PartyInv, AnswerAlone, Awaited, NoneUnderWay

LEMMA AdvancesSettles ==
  ASSUME PartyInv, NEW w, Advances(World, w)
  PROVE  /\ \A c \in Zone : Late(w, c) => Late(World, c) /\ Told(w.rows[c].party, server[c])
         /\ (\E c \in Zone : Stale(w, c)) => NoneUnderWay("Kick")
<1>1. PartyTypeOK /\ LateAreTold /\ StaleUnkicked
  BY DEF PartyInv
<1>2. World.rows = rows
  BY <1>1, WorldIs
<1>3. \A c \in Zone : Late(w, c) => Late(World, c) /\ Told(w.rows[c].party, server[c])
  BY <1>1, <1>2 DEF Advances, LateAreTold
<1>4. (\E c \in Zone : Stale(w, c)) => NoneUnderWay("Kick")
  BY <1>1 DEF Advances, StaleUnkicked
<1> QED  BY <1>3, <1>4

LEMMA TickInv ==
  ASSUME PartyAssumption, NoneAssumption, PartyInv, NEW c \in Chars, Tick(c)
  PROVE  PartyInv'
<1>1. PartyTypeOK /\ Homes /\ Sound(World) /\ stage[c] = "in" /\ reload[c]
  BY DEF PartyInv, Tick
<1>2. server[c] \in Procs /\ c \in Zone
  BY <1>1 DEF Homes, Zone
<1>3. PartyTypeOK'
  BY <1>1, TickTypes
<1>4. server' = server /\ stage' = stage /\ toMap' = toMap
  BY DEF Tick
<1>5. PICK u, w : /\ u \in UpToDate(World, c) /\ Becomes(server[c], w)
                  /\ w = IF Alone(u, c) THEN Disbanded(u, u.party[c], TRUE) ELSE u
  <2>1. PICK u \in UpToDate(World, c) :
               Becomes(server[c], IF Alone(u, c) THEN Disbanded(u, u.party[c], TRUE) ELSE u)
    BY DEF Tick
  <2> QED  BY <2>1
<1>6. World.reload[c] /\ World.sent = <<>>
  BY <1>1, WorldIs
<1>7. Sound(u) /\ Advances(World, u) /\ u.sent = <<>>
  BY <1>1, <1>2, <1>5, <1>6, UpToDateSound
<1>8. /\ Sound(w) /\ Advances(World, w)
      /\ \A m \in Posted(w.sent) : m.type \notin {"Kick", "Answer"}
  <2>1. CASE Alone(u, c)
    <3>1. Proper(u) /\ u \in Worlds /\ u.party[c] # None
      BY <1>7, <2>1 DEF Sound, Proper, Alone
    <3>2. u.party[c] \in Objects /\ u.cparty[u.party[c]] # None /\ Id(u, c) = u.cparty[u.party[c]].id /\ Id(u, c) \in Chars
      BY <3>1, IdIs
    <3>3. DisbandedAs(u, u.party[c], w) /\ Sends(u, w, Disbanding(Id(u, c)))
      BY <1>5, <2>1, <3>1, <3>2, DisbandedIs
    <3>4. Sound(w) /\ Advances(u, w)
      BY <1>7, <3>2, <3>3, DisbandedSound
    <3>5. PICK m : m = Disbanding(Id(u, c))
      OBVIOUS
    <3>6. m \in Message /\ m.type = "Disband"
      BY <3>2, <3>5, DisbandingIs
    <3>7. Posted(w.sent) = {m}
      BY <1>7, <3>3, <3>5, <3>6, FirstSent
    <3> QED  BY <1>7, <3>4, <3>6, <3>7, AdvancesFurther
  <2>2. CASE ~Alone(u, c)
    BY <1>5, <1>7, <2>2, NoPost
  <2> QED  BY <2>1, <2>2
<1>9. NoneUnderWay("Answer")
  BY <1>1, NoAnswers
<1>10. /\ \A d \in Zone : Late(w, d) => Told(w.rows[d].party, server[d])
       /\ (\E d \in Zone : Stale(w, d)) => NoneUnderWay("Kick")
  BY <1>8, AdvancesSettles
<1>11. \A d \in Zone : Late(w, d) =>
            \/ \E q \in Procs : Reloading(w.rows[d].party) \in Posted(toWorld[q])
            \/ server[d] \in Procs /\ Reloading(w.rows[d].party) \in Posted(toMap'[server[d]])
  BY <1>4, <1>10 DEF Told
<1>12. \A q \in Procs : Posted(toMap'[q]) \subseteq Posted(toMap[q])
  BY <1>4
<1> QED  BY <1>2, <1>3, <1>4, <1>5, <1>8, <1>9, <1>10, <1>11, <1>12, SettleStep

\* The head of a queue, and what is left of it.
LEMMA HeadIs ==
  ASSUME NEW s \in Seq(Message), s # <<>>
  PROVE  /\ Head(s) \in Message /\ Tail(s) \in Seq(Message)
         /\ Posted(s) = {Head(s)} \cup Posted(Tail(s))
         /\ \A m \in Message : s = <<m>> => Head(s) = m /\ Tail(s) = <<>>
<1>1. Head(s) \in Message /\ Tail(s) \in Seq(Message)
  BY QueueTypes
<1>2. Posted(s) = {Head(s)} \cup Posted(Tail(s))
  BY PostedIs
<1>3. \A m \in Message : s = <<m>> => Head(s) = m /\ Tail(s) = <<>>
  OBVIOUS
<1> QED  BY <1>1, <1>2, <1>3

\* An answer is all there is: no other message can be the first of a queue.
LEMMA NoAnswerBeside ==
  ASSUME PartyInv, NEW p \in Procs, NEW m,
         \/ toWorld[p] # <<>> /\ m = Head(toWorld[p])
         \/ toMap[p] # <<>> /\ m = Head(toMap[p]),
         m.type # "Answer"
  PROVE  NoneUnderWay("Answer")
<1>1. /\ AnswerAlone /\ toWorld \in [Procs -> Seq(Message)] /\ toMap \in [Procs -> Seq(Message)]
  BY DEF PartyInv, PartyTypeOK
<1>2. \A x : Head(<<x>>) = x
  OBVIOUS
<1>3. \A q \in Procs : \A x \in Posted(toWorld[q]) : x.type # "Answer"
  <2>1. SUFFICES ASSUME NEW q \in Procs, NEW x \in Posted(toWorld[q]), x.type = "Answer" PROVE FALSE
    OBVIOUS
  <2>2. /\ toWorld[q] = <<x>>
        /\ \A r \in Procs : toMap[r] = <<>> /\ (r # q => toWorld[r] = <<>>)
    BY <1>1, <2>1 DEF AnswerAlone
  <2>3. p = q /\ m = Head(toWorld[q])
    BY <2>2
  <2> QED  BY <1>2, <2>1, <2>2, <2>3
<1>4. \A q \in Procs : \A x \in Posted(toMap[q]) : x.type # "Answer"
  <2>1. SUFFICES ASSUME NEW q \in Procs, NEW x \in Posted(toMap[q]), x.type = "Answer" PROVE FALSE
    OBVIOUS
  <2>2. /\ toMap[q] = <<x>>
        /\ \A r \in Procs : toWorld[r] = <<>> /\ (r # q => toMap[r] = <<>>)
    BY <1>1, <2>1 DEF AnswerAlone
  <2>3. p = q /\ m = Head(toMap[q])
    BY <2>2
  <2> QED  BY <1>2, <2>1, <2>2, <2>3
<1> QED  BY <1>3, <1>4 DEF NoneUnderWay

\* Only messages move.
LEMMA WorldHandlesInv ==
  ASSUME PartyAssumption, NoneAssumption, PartyInv, NEW p \in Procs, WorldHandles(p)
  PROVE  PartyInv'
<1>1. /\ PartyTypeOK /\ Homes /\ Sound(World) /\ LateAreTold /\ StaleUnkicked /\ AnswerAlone
      /\ toWorld \in [Procs -> Seq(Message)] /\ toMap \in [Procs -> Seq(Message)]
  BY DEF PartyInv, PartyTypeOK
<1>2. PartyTypeOK'
  BY <1>1, WorldHandlesTypes
<1>19. PICK m : m = Head(toWorld[p])
  OBVIOUS
<1>3. /\ toWorld[p] # <<>> /\ toWorld' = [toWorld EXCEPT ![p] = Tail(@)]
      /\ toMap' = [q \in Procs |-> IF q \in Forward(m) THEN Append(toMap[q], m) ELSE toMap[q]]
      /\ server' = server /\ stage' = stage /\ party' = party /\ cparty' = cparty /\ rows' = rows
      /\ reload' = reload
  BY <1>19 DEF WorldHandles
<1>4. /\ m \in Message /\ Posted(toWorld[p]) = {m} \cup Posted(Tail(toWorld[p]))
      /\ \A x \in Message : toWorld[p] = <<x>> => m = x /\ Tail(toWorld[p]) = <<>>
  BY <1>1, <1>3, <1>19, HeadIs
<1>20. PICK F : F = Forward(m)
  OBVIOUS
<1>5. m.type \in {"Reload", "Disband"} => F = {server[c] : c \in RowsOf(World, m.party)}
  BY <1>20 DEF Forward
<1>6. m.type = "Answer" => F = {server[m.from]}
  <2>1. m.type = "Answer" => F = {server[c] : c \in {m.from}}
    BY <1>20 DEF Forward
  <2> QED  BY <2>1
<1>7. m \in Posted(toWorld[p])
  BY <1>4
<1>8. \A q \in Procs : /\ q # p => toWorld'[q] = toWorld[q]
                       /\ q \in F => toMap'[q] = Append(toMap[q], m)
                       /\ q \notin F => toMap'[q] = toMap[q]
  BY <1>1, <1>3, <1>20
<1>9. toWorld'[p] = Tail(toWorld[p])
  BY <1>1, <1>3
<1>10. \A q \in Procs : Posted(toMap'[q]) = Posted(toMap[q]) \cup (IF q \in F THEN {m} ELSE {})
  <2>1. SUFFICES ASSUME NEW q \in Procs
                 PROVE  Posted(toMap'[q]) = Posted(toMap[q]) \cup (IF q \in F THEN {m} ELSE {})
    OBVIOUS
  <2>2. Posted(Append(toMap[q], m)) = Posted(toMap[q]) \cup {m}
    BY <1>1, <1>4, PostedIs
  <2> QED  BY <1>8, <2>2
<1>11. World' = World
  BY <1>3 DEF World
<1>12. Sound(World)'
  <2>1. Zone' = Zone
    BY <1>3 DEF Zone
  <2>2. PICK w : w = World
    OBVIOUS
  <2>3. Proper(w) /\ Leads(w, {}) /\ Hosted(w) /\ Agree(w, Zone) /\ StaleOK(w, Zone) /\ w = World'
    BY <1>1, <1>11, <2>2 DEF Sound
  <2>4. Hosted(w)'
    BY <1>3, <2>3 DEF Hosted
  <2>5. Hosted(World)'
    BY <2>3, <2>4
  <2>6. Agree(w, Zone') /\ StaleOK(w, Zone')
    BY <2>1, <2>3
  <2>7. Agree(World, Zone)' /\ StaleOK(World, Zone)' /\ Proper(World)' /\ Leads(World, {})'
    BY <2>3, <2>6
  <2> QED  BY <2>5, <2>7 DEF Sound
<1>13. LateAreTold'
  <2>1. SUFFICES ASSUME NEW c \in Zone, Late(World, c)
                 PROVE  \/ \E q \in Procs : Reloading(rows[c].party) \in Posted(toWorld'[q])
                        \/ server[c] \in Procs /\ Reloading(rows[c].party) \in Posted(toMap'[server[c]])
    BY <1>3, <1>11 DEF LateAreTold, Told, Zone
  <2>2. c \in Chars /\ server[c] \in Procs /\ World.rows = rows /\ rows[c] # None
    BY <1>1, <2>1, WorldIs DEF Zone, Homes, Late
  <2>3. Told(rows[c].party, server[c])
    BY <1>1, <2>1 DEF LateAreTold
  <2>4. CASE Reloading(rows[c].party) \in Posted(toMap[server[c]])
    BY <1>10, <2>2, <2>4
  <2>5. ASSUME NEW q \in Procs, Reloading(rows[c].party) \in Posted(toWorld[q])
        PROVE  \/ \E r \in Procs : Reloading(rows[c].party) \in Posted(toWorld'[r])
               \/ server[c] \in Procs /\ Reloading(rows[c].party) \in Posted(toMap'[server[c]])
    <3>1. CASE q = p /\ Reloading(rows[c].party) = m
      <4>1. m.type = "Reload" /\ m.party = rows[c].party
        BY <3>1 DEF Reloading
      <4>2. c \in RowsOf(World, m.party)
        BY <2>2, <4>1 DEF RowsOf
      <4>3. server[c] \in F
        BY <1>5, <4>1, <4>2
      <4> QED  BY <1>10, <2>2, <3>1, <4>3
    <3>2. CASE q = p /\ Reloading(rows[c].party) # m
      BY <1>4, <1>9, <2>5, <3>2
    <3>3. CASE q # p
      BY <1>8, <2>5, <3>3
    <3> QED  BY <3>1, <3>2, <3>3
  <2> QED  BY <2>3, <2>4, <2>5 DEF Told
<1>14. \A q \in Procs : Posted(toWorld'[q]) \subseteq Posted(toWorld[q])
  BY <1>4, <1>8, <1>9
<1>15. ASSUME NEW t, NoneUnderWay(t)
       PROVE  \A q \in Procs : \A x \in Posted(toWorld'[q]) \cup Posted(toMap'[q]) : x.type # t
  BY <1>7, <1>10, <1>14, <1>15 DEF NoneUnderWay
<1>16. StaleUnkicked'
  <2>1. SUFFICES ASSUME NEW c \in Zone, Stale(World, c)
                 PROVE  \A q \in Procs : \A x \in Posted(toWorld'[q]) \cup Posted(toMap'[q]) : x.type # "Kick"
    BY <1>3, <1>11 DEF StaleUnkicked, NoneUnderWay, Zone
  <2>2. NoneUnderWay("Kick")
    BY <1>1, <2>1 DEF StaleUnkicked
  <2> QED  BY <1>15, <2>2
<1>17. AnswerAlone'
  <2>1. CASE m.type # "Answer"
    <3>1. NoneUnderWay("Answer")
      BY <1>3, <1>19, <2>1, NoAnswerBeside
    <3>2. \A q \in Procs : \A x \in Posted(toWorld'[q]) \cup Posted(toMap'[q]) : x.type # "Answer"
      BY <1>15, <3>1
    <3> QED  BY <3>2 DEF AnswerAlone
  <2>2. CASE m.type = "Answer"
    <3>1. /\ toWorld[p] = <<m>> /\ Awaited(m)
          /\ \A q \in Procs : toMap[q] = <<>> /\ (q # p => toWorld[q] = <<>>)
      BY <1>1, <1>7, <2>2 DEF AnswerAlone
    <3>2. \A q \in Procs : toWorld'[q] = <<>> /\ Posted(toWorld'[q]) = {}
      BY <1>4, <1>8, <1>9, <3>1, NoPost
    <3>3. Awaited(m)'
      <4>1. Zone' = Zone
        BY <1>3 DEF Zone
      <4> QED  BY <1>3, <3>1, <4>1 DEF Awaited
    <3>4. \A q \in Procs : toMap'[q] = IF q \in F THEN <<m>> ELSE <<>>
      BY <1>8, <3>1
    <3>5. \A q \in Procs : Posted(toMap'[q]) = IF q \in F THEN {m} ELSE {}
      BY <1>10, <3>1, NoPost
    <3>6. ASSUME NEW q \in Procs, NEW x \in Posted(toMap'[q])
          PROVE  /\ x = m /\ toMap'[q] = <<m>>
                 /\ \A r \in Procs : r # q => toMap'[r] = <<>>
      BY <1>6, <2>2, <3>4, <3>5, <3>6
    <3> QED  BY <3>2, <3>3, <3>6 DEF AnswerAlone
  <2> QED  BY <2>1, <2>2
<1>18. Homes'
  BY <1>1, <1>3 DEF Homes
<1> QED  BY <1>2, <1>12, <1>13, <1>16, <1>17, <1>18 DEF PartyInv

\* Whose rows are in a party, or anybody while no copy has an id of the past,
\* may be marked.
LEMMA MarkedSound ==
  ASSUME PartyTypeOK, Sound(World), NEW S, NEW w, w = Marked(World, S),
         \/ \A c \in S : c \in Chars => rows[c] # None
         \/ \A c \in Zone : ~Stale(World, c)
  PROVE  /\ Sound(w) /\ Advances(World, w) /\ w.sent = <<>>
         /\ \A c \in Zone \cap S : w.reload[c]
<1>1. PICK x : x = World
  OBVIOUS
<1>2. /\ Proper(x) /\ x \in Worlds /\ Leads(x, {}) /\ Hosted(x) /\ Agree(x, Zone) /\ StaleOK(x, Zone)
      /\ x.rows = rows /\ x.sent = <<>>
  BY <1>1, WorldIs DEF Sound, Proper
<1>3. /\ w \in Worlds /\ w.party = x.party /\ w.cparty = x.cparty /\ w.rows = x.rows /\ w.sent = x.sent
      /\ \A c \in Chars : w.reload[c] <=> x.reload[c] \/ (c \in S /\ stage[c] = "in")
  BY <1>1, <1>2, MarkedIs
<1>4. Proper(w) /\ Leads(w, {}) /\ Hosted(w)
  BY <1>2, <1>3, SameLeads, AsProper
<1>5. (\A c : Id(w, c) = Id(x, c)) /\ \A i : RowsOf(w, i) = RowsOf(x, i)
  BY <1>3 DEF Id, RowsOf
<1>6. \A c : Stale(w, c) <=> Stale(x, c)
  BY <1>3, <1>5 DEF Stale
<1>7. Agree(w, Zone)
  BY <1>2, <1>3 DEF Agree
<1>8. StaleOK(w, Zone)
  <2>1. CASE \A c \in Zone : ~Stale(World, c)
    BY <1>1, <1>6, <2>1 DEF StaleOK
  <2>2. CASE \A c \in S : c \in Chars => rows[c] # None
    <3>1. \A g \in Chars : w.rows[g] = None => (w.reload[g] <=> x.reload[g])
      BY <1>2, <1>3, <2>2
    <3> QED  BY <1>2, <1>3, <1>5, <1>6, <3>1 DEF StaleOK
  <2> QED  BY <2>1, <2>2
<1>9. \A c \in Zone : Late(w, c) => Late(x, c)
  BY <1>3, <1>5 DEF Late, Zone
<1>10. Advances(World, w)
  BY <1>1, <1>3, <1>6, <1>9 DEF Advances
<1>11. \A c \in Zone \cap S : w.reload[c]
  BY <1>3 DEF Zone
<1> QED  BY <1>2, <1>3, <1>4, <1>7, <1>8, <1>10, <1>11 DEF Sound

LEMMA DisbandHandledSound ==
  ASSUME PartyAssumption, NoneAssumption, PartyTypeOK, Sound(World), NEW p \in Procs, NEW m,
         NEW w \in HandleDisband(p, m)
  PROVE  Sound(w) /\ Advances(World, w) /\ w.sent = <<>>
<1>1. PICK x : x = World
  OBVIOUS
<1>2. Proper(x) /\ x \in Worlds /\ x.sent = <<>> /\ x.party = party /\ x.cparty = cparty /\ x.rows = rows
  BY <1>1, WorldIs DEF Proper
<1>3. Proper(w)
  BY HandleDisbandIsProper
<1>4. DisbandHandledAs(p, m, w)
  BY HandleDisbandIs
<1>5. CASE w = World
  BY <1>1, <1>2, <1>5 DEF Advances
<1>6. ASSUME NEW o \in Objects, NEW L \in SUBSET Chars, cparty[o] # None,
             w = [Disbanded(World, o, FALSE) EXCEPT !.lost = L]
      PROVE  Sound(w) /\ Advances(World, w) /\ w.sent = <<>>
  <2>1. PICK v : v = Disbanded(x, o, FALSE)
    OBVIOUS
  <2>2. DisbandedAs(x, o, v) /\ v.sent = <<>>
    BY <1>2, <1>6, <2>1, DisbandedIs
  <2>3. Sound(v) /\ Advances(x, v)
    BY <1>1, <2>2, DisbandedSound
  <2>4. v \in Worlds
    BY <2>2 DEF DisbandedAs
  <2>5. /\ w.party = v.party /\ w.cparty = v.cparty /\ w.rows = v.rows /\ w.reload = v.reload
        /\ w.sent = v.sent
    BY <1>1, <1>6, <2>1, <2>4, LosingIs
  <2>6. Leads(w, {}) /\ Hosted(w)
    BY <2>3, <2>5, SameLeads DEF Sound
  <2>7. /\ Agree(w, Zone) /\ StaleOK(w, Zone)
        /\ \A c : Late(w, c) <=> Late(v, c)
        /\ \A c : Stale(w, c) <=> Stale(v, c)
    BY <2>3, <2>5, SameSound DEF Sound
  <2> QED  BY <1>1, <1>3, <2>2, <2>3, <2>5, <2>6, <2>7 DEF Sound, Advances
<1> QED  BY <1>4, <1>5, <1>6 DEF DisbandHandledAs

\* The one answer is under way to process p.
LEMMA AnswerIs ==
  ASSUME PartyInv, NEW p \in Procs, toMap[p] # <<>>, Head(toMap[p]).type = "Answer"
  PROVE  /\ Ready(World) /\ Awaited(Head(toMap[p]))
         /\ \A q \in Procs : toWorld[q] = <<>> /\ (q # p => toMap[q] = <<>>)
         /\ Tail(toMap[p]) = <<>>
<1>1. PICK m : m = Head(toMap[p])
  OBVIOUS
<1>2. /\ PartyTypeOK /\ Sound(World) /\ LateAreTold /\ AnswerAlone /\ toMap[p] \in Seq(Message)
  BY DEF PartyInv, PartyTypeOK
<1>3. m \in Message /\ m \in Posted(toMap[p])
  BY <1>1, <1>2, HeadIs
<1>4. /\ toMap[p] = <<m>> /\ Awaited(m)
      /\ \A q \in Procs : toWorld[q] = <<>> /\ (q # p => toMap[q] = <<>>)
  BY <1>1, <1>2, <1>3 DEF AnswerAlone
<1>5. Tail(toMap[p]) = <<>> /\ Posted(toMap[p]) = {m}
  BY <1>1, <1>2, <1>3, <1>4, HeadIs, NoPost
<1>6. \A q \in Procs : Posted(toWorld[q]) = {} /\ (q # p => Posted(toMap[q]) = {})
  BY <1>4, NoPost
<1>7. /\ World.party = party /\ World.cparty = cparty /\ World.rows = rows
      /\ World.reload = reload /\ World.sent = <<>>
  BY <1>2, WorldIs
<1>8. Settled(World, Zone)
  <2>1. SUFFICES ASSUME NEW c \in Zone, World.rows[c] # None,
                        ~(World.party[c] # None /\ Id(World, c) = World.rows[c].party)
                 PROVE  FALSE
    BY DEF Settled
  <2>2. c \in Chars /\ ~World.reload[c]
    BY <1>4, <1>7 DEF Zone, Awaited
  <2>3. Late(World, c)
    BY <2>1, <2>2 DEF Late
  <2>4. Told(rows[c].party, server[c])
    BY <1>2, <2>3 DEF LateAreTold
  <2>5. Reloading(rows[c].party) = m
    BY <1>5, <1>6, <2>4 DEF Told
  <2>6. Reloading(rows[c].party).type = "Reload"
    BY DEF Reloading
  <2> QED  BY <1>1, <2>5, <2>6
<1>9. OnlyReloads(World)
  BY <1>7, NothingSent
<1>10. Ready(World)
  BY <1>2, <1>8, <1>9 DEF Ready, Sound
<1> QED  BY <1>1, <1>4, <1>5, <1>10

LEMMA MapHandlesInv ==
  ASSUME PartyAssumption, NoneAssumption, PartyInv, NEW p \in Procs, MapHandles(p)
  PROVE  PartyInv'
<1>1. /\ PartyTypeOK /\ Homes /\ Sound(World) /\ toMap \in [Procs -> Seq(Message)]
  BY DEF PartyInv, PartyTypeOK
<1>2. PartyTypeOK'
  BY <1>1, MapHandlesTypes
<1>3. PICK m : m = Head(toMap[p])
  OBVIOUS
<1>4. /\ toMap[p] # <<>> /\ m \in Message /\ toMap' = [toMap EXCEPT ![p] = Tail(@)]
      /\ server' = server /\ stage' = stage
  BY <1>1, <1>3, MapHandlesIs
<1>5. PICK w : /\ Becomes(p, w)
               /\ \/ m.type = "Reload"  /\ w = HandleReload(p, m)
                  \/ m.type = "Kick"    /\ w = HandleKick(p, m)
                  \/ m.type = "Disband" /\ w \in HandleDisband(p, m)
                  \/ m.type = "Answer"  /\ w = HandleAnswer(p, m)
                  \/ m.type = "Invite"  /\ w = World
  BY <1>1, <1>3, MapHandlesIs
<1>6. toMap'[p] = Tail(toMap[p]) /\ \A q \in Procs : q # p => toMap'[q] = toMap[q]
  BY <1>1, <1>4
<1>7. Posted(toMap[p]) = {m} \cup Posted(toMap'[p])
  BY <1>1, <1>3, <1>4, <1>6, HeadIs
<1>8. \A q \in Procs : Posted(toMap'[q]) \subseteq Posted(toMap[q])
  BY <1>6, <1>7
<1>9. CASE m.type = "Answer"
  <2>1. /\ Ready(World) /\ Awaited(m)
        /\ \A q \in Procs : toWorld[q] = <<>> /\ toMap'[q] = <<>>
    BY <1>3, <1>4, <1>6, <1>9, AnswerIs
  <2>2. m.to \in Zone /\ server[m.to] # None /\ party[m.to] = None /\ rows[m.to] = None
    BY <1>1, <2>1 DEF Awaited, Homes, Zone, PartyAssumption
  <2>3. w = HandleAnswer(p, m)
    BY <1>5, <1>9
  <2>4. Fits(w, Zone) /\ Hosted(w)
    BY <1>1, <1>4, <1>9, <2>1, <2>2, <2>3, AnswerFits
  <2>5. Proper(w)
    BY <1>1, <1>4, <1>9, <2>3, HandleAnswerIsProper
  <2>6. Hosted(w)'
    BY <1>4, <2>4 DEF Hosted
  <2>7. Homes'
    BY <1>1, <1>4 DEF Homes
  <2> DEFINE Z == Zone
  <2>8. Z \in SUBSET Chars /\ Zone' \subseteq Z /\ Fits(w, Z)
    BY <1>4, <2>4 DEF Zone
  <2> HIDE DEF Z
  <2> QED  BY <1>1, <1>2, <1>5, <2>1, <2>5, <2>6, <2>7, <2>8, CalmStep
<1>10. CASE m.type # "Answer"
  <2>1. NoneUnderWay("Answer")
    BY <1>3, <1>4, <1>10, NoAnswerBeside
  <2>2. m \in Posted(toMap[p])
    BY <1>7
  <2>3. /\ Sound(w) /\ Advances(World, w) /\ w.sent = <<>>
        /\ m.type = "Reload" => \A c \in Chars : Found(p, c) /\ c \in RowsOf(World, m.party) => w.reload[c]
    <3>1. CASE m.type = "Reload"
      <4> DEFINE S == {c \in RowsOf(World, m.party) : Found(p, c)}
      <4>1. w = Marked(World, S)
        BY <1>5, <3>1 DEF HandleReload
      <4>2. \A c \in S : c \in Chars => rows[c] # None
        BY <1>1, WorldIs DEF RowsOf
      <4>3. \A c \in Chars : Found(p, c) /\ c \in RowsOf(World, m.party) => c \in Zone \cap S
        BY DEF Found, Zone
      <4> HIDE DEF S
      <4> QED  BY <1>1, <4>1, <4>2, <4>3, MarkedSound
    <3>2. CASE m.type = "Kick"
      <4>1. w = Marked(World, {m.to} \cap {c \in Chars : Found(p, c)})
        BY <1>5, <3>2 DEF HandleKick
      <4>2. \A c \in Zone : ~Stale(World, c)
        BY <2>2, <3>2 DEF PartyInv, StaleUnkicked, NoneUnderWay
      <4> QED  BY <1>1, <3>2, <4>1, <4>2, MarkedSound
    <3>3. CASE m.type = "Disband"
      <4>1. w \in HandleDisband(p, m)
        BY <1>5, <3>3
      <4> QED  BY <1>1, <3>3, <4>1, DisbandHandledSound
    <3>4. CASE m.type = "Invite"
      <4>1. w = World
        BY <1>5, <3>4
      <4> QED  BY <1>1, <3>4, <4>1, WorldIs DEF Advances
    <3> QED  BY <1>5, <1>10, <3>1, <3>2, <3>3, <3>4
  <2>4. /\ \A d \in Zone : Late(w, d) => Late(World, d) /\ Told(w.rows[d].party, server[d])
        /\ (\E d \in Zone : Stale(w, d)) => NoneUnderWay("Kick")
    BY <2>3, AdvancesSettles
  <2>5. \A d \in Zone : Late(w, d) =>
            \/ \E q \in Procs : Reloading(w.rows[d].party) \in Posted(toWorld[q])
            \/ server[d] \in Procs /\ Reloading(w.rows[d].party) \in Posted(toMap'[server[d]])
    <3>1. SUFFICES ASSUME NEW d \in Zone, Late(w, d), server[d] \in Procs,
                          Reloading(w.rows[d].party) \in Posted(toMap[server[d]])
                   PROVE  Reloading(w.rows[d].party) \in Posted(toMap'[server[d]])
      BY <2>4 DEF Told
    <3>2. CASE server[d] = p /\ Reloading(w.rows[d].party) = m
      <4>1. m.type = "Reload" /\ m.party = w.rows[d].party
        BY <3>2 DEF Reloading
      <4>2. w.rows[d] = World.rows[d] /\ w.rows[d] # None /\ ~w.reload[d] /\ d \in Chars
        BY <2>3, <3>1 DEF Advances, Late, Zone
      <4>3. d \in RowsOf(World, m.party) /\ Found(p, d)
        BY <3>2, <4>1, <4>2 DEF RowsOf, Found, Zone
      <4> QED  BY <2>3, <4>1, <4>2, <4>3
    <3>3. CASE server[d] = p /\ Reloading(w.rows[d].party) # m
      BY <1>7, <3>1, <3>3
    <3>4. CASE server[d] # p
      BY <1>6, <3>1, <3>4
    <3> QED  BY <3>2, <3>3, <3>4
  <2>6. \A x \in Posted(w.sent) : x.type \notin {"Kick", "Answer"}
    BY <2>3, NoPost
  <2> QED  BY <1>2, <1>4, <1>5, <1>8, <2>1, <2>3, <2>4, <2>5, <2>6, SettleStep
<1> QED  BY <1>9, <1>10

-----------------------------------------------------------------------------
(* What follows of it.                                                     *)

LEMMA InitInv ==
  ASSUME PartyAssumption, NoneAssumption, Init
  PROVE  PartyInv
<1>1. PartyTypeOK
  BY InitTypes
<1>2. PICK S \in SUBSET Chars, a \in Chars :
    /\ S # {} => a \in S /\ Cardinality(S) \in 2..MaxMembers
    /\ server \in [Chars -> Procs]
    /\ LET hosts == {server[c] : c \in S}
       IN  \E copy \in [hosts -> 1..Cardinality(hosts)] :
             /\ S # {} => copy[server[a]] = 1
             /\ \A p, q \in hosts : p # q => copy[p] # copy[q]
             /\ party = [c \in Chars |-> IF c \in S THEN copy[server[c]] ELSE None]
    /\ stage  = [c \in Chars |-> "in"]
    /\ rows   = [c \in Chars |-> IF c \in S THEN [party |-> a, leader |-> c = a] ELSE None]
    /\ cparty = [o \in Objects |->
                   IF \A c \in S : party[c] # o THEN None
                   ELSE [id |-> a, leader |-> IF party[a] = o THEN a ELSE None]]
    /\ reload = [c \in Chars |-> FALSE]
    /\ invite \in [Chars -> {a, None}]
    /\ \A c \in S \cup {a} : invite[c] = None
    /\ Cardinality(S) = MaxMembers => \A c \in Chars : invite[c] = None
    /\ toWorld = [p \in Procs |-> <<>>] /\ toMap = [p \in Procs |-> <<>>]
    /\ abandoned = {}
    /\ acts = 0 /\ crashes = 0
  BY DEF Init
<1> DEFINE hosts == {server[c] : c \in S}
<1>3. PICK copy \in [hosts -> 1..Cardinality(hosts)] :
             /\ \A p, q \in hosts : p # q => copy[p] # copy[q]
             /\ party = [c \in Chars |-> IF c \in S THEN copy[server[c]] ELSE None]
  BY <1>2
<1>4. PICK w : w = World
  OBVIOUS
<1>5. /\ Proper(w) /\ w.party = party /\ w.cparty = cparty /\ w.rows = rows /\ w.reload = reload
  BY <1>1, <1>4, WorldIs
<1>6. \A c \in S : c \in Chars /\ party[c] = copy[server[c]] /\ server[c] \in hosts
  BY <1>3
<1>7. \A c \in Chars : party[c] # None => c \in S /\ party[c] \in Objects
  BY <1>1, <1>3 DEF PartyTypeOK
<1>8. \A c \in Chars : /\ rows[c] # None => c \in S
                       /\ c \in S => rows[c] = [party |-> a, leader |-> c = a]
  BY <1>2
<1>9. \A c \in Chars : party[c] # None =>
         cparty[party[c]] = [id |-> a, leader |-> IF party[a] = party[c] THEN a ELSE None]
  BY <1>2, <1>7
<1>10. \A c \in Chars : w.party[c] # None =>
         Id(w, c) = a /\ w.cparty[w.party[c]].leader = IF w.party[a] = w.party[c] THEN a ELSE None
  <2>1. SUFFICES ASSUME NEW c \in Chars, party[c] # None
                 PROVE  /\ cparty[party[c]].id = a
                        /\ cparty[party[c]].leader = IF party[a] = party[c] THEN a ELSE None
    BY <1>5 DEF Id
  <2>2. PICK l : l = IF party[a] = party[c] THEN a ELSE None
    OBVIOUS
  <2>3. cparty[party[c]] = [id |-> a, leader |-> l]
    BY <1>9, <2>1, <2>2
  <2> QED  BY <2>2, <2>3
<1>11. S # {} => a \in S
  BY <1>2
<1>12. FlagIsId(w)
  <2>1. SUFFICES ASSUME NEW c \in Chars, rows[c] # None
                 PROVE  rows[c].leader <=> rows[c].party = c
    BY <1>5 DEF FlagIsId
  <2>2. PICK l \in BOOLEAN : l <=> c = a
    OBVIOUS
  <2>3. rows[c] = [party |-> a, leader |-> l]
    BY <1>8, <2>1, <2>2
  <2> QED  BY <2>2, <2>3
<1>13. KnowsLeader(w)
  BY <1>10 DEF KnowsLeader
<1>14. \A c \in S : rows[c] # None /\ rows[c].party = a
  <2>1. SUFFICES ASSUME NEW c \in S PROVE rows[c] # None /\ rows[c].party = a
    OBVIOUS
  <2>2. [party |-> a, leader |-> c = a] \in Row
    BY DEF Row
  <2>3. rows[c] = [party |-> a, leader |-> c = a]
    BY <1>6, <1>8
  <2> QED  BY <2>2, <2>3, NotNone DEF NoneAssumption
<1>15. LeadersAreIn(w, {})
  BY <1>5, <1>7, <1>10, <1>11, <1>14 DEF LeadersAreIn
<1>16. Hosted(w)
  <2>1. \A c, d \in Chars : party[c] # None /\ party[c] = party[d] => server[c] = server[d]
    BY <1>3, <1>6, <1>7
  <2>2. \A c \in Chars : stage[c] = "in" /\ server[c] \in Procs /\ server[c] # None
    BY <1>2 DEF PartyAssumption
  <2> QED  BY <1>5, <2>1, <2>2 DEF Hosted
<1>17. \A c \in S : party[c] # None
  <2>1. SUFFICES ASSUME NEW c \in S PROVE party[c] # None
    OBVIOUS
  <2>2. IsFiniteSet(S)
    BY FS_Subset DEF PartyAssumption
  <2>3. IsFiniteSet(hosts) /\ Cardinality(hosts) <= Cardinality(S)
    <3> DEFINE f == [d \in S |-> server[d]]
    <3>1. f \in Surjection(S, hosts)
      BY DEF Surjection
    <3> QED  BY <2>2, <3>1, FS_Surjection
  <2>4. Cardinality(S) <= Cardinality(Chars) /\ Cardinality(S) \in Nat /\ Cardinality(Chars) \in Nat /\ Cardinality(hosts) \in Nat
    BY <2>2, <2>3, FS_Subset, FS_CardinalityType DEF PartyAssumption
  <2>5. copy[server[c]] \in Objects
    BY <1>3, <1>6, <2>3, <2>4 DEF Objects
  <2> QED  BY <1>6, <2>5 DEF NoneAssumption
<1>18. \A c \in Zone : w.rows[c] # None => w.party[c] # None /\ Id(w, c) = w.rows[c].party
  BY <1>5, <1>8, <1>10, <1>14, <1>17 DEF Zone
<1>19. \A c \in Zone : ~Late(w, c) /\ ~Stale(w, c)
  BY <1>18 DEF Late, Stale
<1>20. Agree(w, Zone) /\ StaleOK(w, Zone)
  BY <1>18, <1>19 DEF Agree, StaleOK, Id
<1>21. Sound(World)
  BY <1>4, <1>5, <1>12, <1>13, <1>15, <1>16, <1>20 DEF Sound, Leads
<1>22. LateAreTold /\ StaleUnkicked
  BY <1>4, <1>19 DEF LateAreTold, StaleUnkicked
<1>23. \A q \in Procs : Posted(toWorld[q]) = {} /\ Posted(toMap[q]) = {}
  BY <1>2, NoPost
<1>24. AnswerAlone
  BY <1>23 DEF AnswerAlone
<1>25. Homes
  BY <1>2 DEF Homes
<1> QED  BY <1>1, <1>21, <1>22, <1>24, <1>25 DEF PartyInv

LEMMA NextInv ==
  ASSUME PartyAssumption, NoneAssumption, PartyInv, ~Hasty, Next
  PROVE  PartyInv'
<1>1. CASE Play
  <2>1. PICK a \in Chars :
          \/ Accept(a) \/ Decline(a) \/ Leave(a) \/ Breakup(a) \/ ZoneOut(a) \/ LogOut(a)
          \/ \E b \in Chars : Invite(a, b) \/ Kick(a, b) \/ GiveLead(a, b)
          \/ \E p \in Procs : LogIn(a, p)
    BY <1>1 DEF Play
  <2>2. ASSUME NEW b \in Chars, Invite(a, b) \/ Kick(a, b) \/ GiveLead(a, b) PROVE PartyInv'
    BY <2>2, InviteInv, KickInv, GiveLeadInv
  <2>3. ASSUME NEW p \in Procs, LogIn(a, p) PROVE PartyInv'
    BY <2>3, LogInInv
  <2>4. CASE Accept(a) \/ Decline(a) \/ Leave(a) \/ Breakup(a) \/ ZoneOut(a) \/ LogOut(a)
    BY <2>4, AcceptInv, DeclineInv, LeaveInv, BreakupInv, ZoneOutInv, LogOutInv
  <2> QED  BY <2>1, <2>2, <2>3, <2>4
<1>2. CASE Sessions
  <2>1. ASSUME NEW c \in Chars, ZoneIn(c) \/ Quit(c) \/ TimeOut(c) \/ \E p \in Procs : Depart(c, p)
        PROVE  PartyInv'
    BY <2>1, ZoneInInv, QuitInv, TimeOutInv, DepartInv
  <2>2. ASSUME NEW p \in Procs, Crash(p) PROVE PartyInv'
    BY <2>2, CrashInv
  <2> QED  BY <1>2, <2>1, <2>2 DEF Sessions
<1>3. CASE Settle
  <2>1. ASSUME NEW c \in Chars, Tick(c) PROVE PartyInv'
    BY <2>1, TickInv
  <2>2. ASSUME NEW p \in Procs, WorldHandles(p) \/ MapHandles(p) PROVE PartyInv'
    BY <2>2, WorldHandlesInv, MapHandlesInv
  <2> QED  BY <1>3, <2>1, <2>2 DEF Settle
<1> QED  BY <1>1, <1>2, <1>3 DEF Next

LEMMA SameInv ==
  ASSUME PartyAssumption, NoneAssumption, PartyInv, UNCHANGED vars
  PROVE  PartyInv'
<1>1. /\ party' = party /\ cparty' = cparty /\ rows' = rows /\ reload' = reload
      /\ toWorld' = toWorld /\ toMap' = toMap /\ server' = server /\ stage' = stage
  BY DEF vars
<1>2. PartyTypeOK'
  BY NextTypes DEF PartyInv
<1>3. Homes' /\ Zone' = Zone
  BY <1>1 DEF PartyInv, Homes, Zone
<1>4. Hosted(World)'
  BY <1>1 DEF PartyInv, Sound, Hosted, World
<1> QED  BY <1>1, <1>2, <1>3, <1>4, AsideStep

THEOREM PartyInvHolds == ~Hasty => (Spec => []PartyInv)
<1>1. SUFFICES ASSUME ~Hasty PROVE Spec => []PartyInv
  OBVIOUS
<1>2. Init => PartyInv
  BY PartyAssumption, NoneAssumption, InitInv
<1>3. PartyInv /\ [Next]_vars => PartyInv'
  BY <1>1, PartyAssumption, NoneAssumption, NextInv, SameInv
<1> QED  BY <1>2, <1>3, PTL DEF Spec

LEMMA PartyInvShows ==
  ASSUME PartyAssumption, NoneAssumption, PartyInv
  PROVE  LeadersOwnParty /\ CopiesFollowRows
<1>1. PartyTypeOK /\ Sound(World) /\ Leads(World, {}) /\ Proper(World)
  BY DEF PartyInv, Sound
<1>2. World.party = party /\ World.cparty = cparty /\ World.rows = rows
  BY <1>1, WorldIs
<1>3. LeadersOwnParty
  BY <1>1, <1>2 DEF Leads, FlagIsId, LeadersOwnParty
<1>4. CopiesFollowRows
  <2>1. SUFFICES ASSUME Calm, NEW c \in Chars, stage[c] = "in", rows[c] # None
                 PROVE  /\ party[c] # None
                        /\ Id(World, c) = rows[c].party
                        /\ cparty[party[c]].leader =
                             IF party[rows[c].party] = party[c] THEN rows[c].party ELSE None
    BY DEF CopiesFollowRows
  <2>2. Settled(World, Zone)
    BY <2>1, CalmIs DEF AtRest, Ready
  <2>3. party[c] # None /\ Id(World, c) = rows[c].party
    BY <1>2, <2>1, <2>2 DEF Settled, Zone
  <2> QED  BY <1>1, <1>2, <2>3 DEF Leads, KnowsLeader
<1> QED  BY <1>3, <1>4

\* Who is marked as leader leads the party that has its id.
THEOREM LeadersOwnPartyHolds == ~Hasty => (Spec => []LeadersOwnParty)
<1>1. PartyInv => LeadersOwnParty
  BY PartyAssumption, NoneAssumption, PartyInvShows
<1> QED  BY <1>1, PartyInvHolds, PTL

\* Once messages and ticks are done, every copy agrees with the rows.
THEOREM CopiesFollowRowsHolds == ~Hasty => (Spec => []CopiesFollowRows)
<1>1. PartyInv => CopiesFollowRows
  BY PartyAssumption, NoneAssumption, PartyInvShows
<1> QED  BY <1>1, PartyInvHolds, PTL

-----------------------------------------------------------------------------
(* Parties and their leaders, and the size of them.                        *)

\* The party i has its leader.
LedIn(w, i) == w.rows[i] # None /\ w.rows[i].party = i

\* The members of a party are abandoned all of them or none (A), and but for
\* those of T, every other party has its leader and is of the right size.
Cared(w, A, T) ==
  /\ \A c \in A : w.rows[c] # None /\ RowsOf(w, w.rows[c].party) \subseteq A
  /\ \A c \in Chars : w.rows[c] # None /\ c \notin A \cup T => LedIn(w, w.rows[c].party)
  /\ \A i \in Chars : Cardinality(RowsOf(w, i) \ A) <= MaxMembers

\* Some member of i is abandoned already, or is so from now on.
Dead(w, A, i) == (A \cup w.lost) \cap RowsOf(w, i) # {}

\* The same of a world a handler has made.
Heeded(w, A, T) ==
  /\ \A c \in Chars : w.rows[c] # None /\ c \notin T =>
       LedIn(w, w.rows[c].party) \/ Dead(w, A, w.rows[c].party)
  /\ \A i \in Chars : Dead(w, A, i) \/ Cardinality(RowsOf(w, i)) <= MaxMembers

\* v is w without the rows of those in X; the party i goes over to d.
Moves(w, v, i, d, X) ==
  \A c \in Chars :
    IF c \in X \/ w.rows[c] = None THEN v.rows[c] = None
    ELSE /\ v.rows[c] # None
         /\ v.rows[c].party = IF w.rows[c].party = i THEN d ELSE w.rows[c].party

\* The party goes over to a member, and whose leader goes without an heir is lost,
\* but for those of T, who will follow.
Cuts(w, v, i, d, X, T) ==
  /\ Moves(w, v, i, d, X)
  /\ i # d => d \in RowsOf(w, i) \ X
  /\ \A x \in X : LedIn(w, x) /\ (x = i => i = d) => RowsOf(v, x) \subseteq v.lost \cup T

\* Those of S, who had no party, are with a now.
Joins(w, v, a, S) ==
  /\ \A c \in S : w.rows[c] = None /\ v.rows[c] # None /\ v.rows[c].party = a
  /\ \A c \in Chars \ S : /\ v.rows[c] = None <=> w.rows[c] = None
                          /\ w.rows[c] # None => v.rows[c].party = w.rows[c].party

-----------------------------------------------------------------------------
LEMMA InRows ==
  ASSUME NEW w, NEW i, NEW c
  PROVE  c \in RowsOf(w, i) <=> c \in Chars /\ w.rows[c] # None /\ w.rows[c].party = i
BY DEF RowsOf

LEMMA FewRows ==
  ASSUME PartyAssumption, NEW S \in SUBSET Chars, NEW R \in SUBSET S
  PROVE  /\ Cardinality(S) \in Nat /\ Cardinality(R) <= Cardinality(S)
         /\ Cardinality(R) \in Nat /\ (R = {} => Cardinality(R) <= MaxMembers)
<1>1. IsFiniteSet(S) /\ IsFiniteSet(R)
  BY FS_Subset DEF PartyAssumption
<1>2. /\ Cardinality(S) \in Nat /\ Cardinality(R) \in Nat /\ Cardinality(R) <= Cardinality(S)
  BY <1>1, FS_Subset, FS_CardinalityType
<1>3. R = {} => Cardinality(R) = 0
  BY FS_EmptySet
<1> QED  BY <1>2, <1>3 DEF PartyAssumption

\* Whom an abandoned member is with is abandoned.
LEMMA DeadIs ==
  ASSUME PartyAssumption, NEW w, NEW A, NEW T, Cared(w, A, T), NEW i \in Chars
  PROVE  \/ RowsOf(w, i) \subseteq A
         \/ A \cap RowsOf(w, i) = {} /\ Cardinality(RowsOf(w, i)) <= MaxMembers
<1>1. CASE A \cap RowsOf(w, i) = {}
  <2>1. RowsOf(w, i) \ A = RowsOf(w, i)
    BY <1>1
  <2> QED  BY <1>1, <2>1 DEF Cared
<1>2. CASE A \cap RowsOf(w, i) # {}
  BY <1>2 DEF Cared, RowsOf
<1> QED  BY <1>1, <1>2

\* A handler that takes rows away, and may hand on one party.
LEMMA CutsHeed ==
  ASSUME PartyAssumption, NEW w \in Worlds, NEW A \in SUBSET Chars, NEW D, Cared(w, A, D),
         NEW v, NEW i \in Chars, NEW d \in Chars, NEW X, NEW T, Cuts(w, v, i, d, X, T),
         i # d => D = {},
         \A c \in D : c \in Chars /\ v.rows[c] # None => c \in v.lost \cup T
  PROVE  Heeded(v, A, T)
<1>1. ASSUME NEW c \in Chars, v.rows[c] # None, c \notin T
      PROVE  LedIn(v, v.rows[c].party) \/ Dead(v, A, v.rows[c].party)
  <2> DEFINE j == v.rows[c].party
             k == w.rows[c].party
  <2>1. /\ c \notin X /\ w.rows[c] # None
        /\ j = IF k = i THEN d ELSE k
        /\ c \in RowsOf(v, j)
    BY <1>1 DEF Cuts, Moves, RowsOf
  <2>2. CASE c \in A \cup v.lost
    BY <2>1, <2>2 DEF Dead
  <2>3. CASE c \notin A \cup v.lost
    <3>1. LedIn(w, k)
      BY <1>1, <2>1, <2>3 DEF Cared
    <3>2. CASE k = i /\ i # d
      <4>1. d \in Chars /\ d \notin X /\ w.rows[d] # None /\ w.rows[d].party = i /\ j = d
        BY <2>1, <3>2 DEF Cuts, RowsOf
      <4>2. v.rows[d] # None /\ v.rows[d].party = d
        BY <4>1 DEF Cuts, Moves
      <4> QED  BY <4>1, <4>2 DEF LedIn
    <3>3. CASE k # i \/ i = d
      <4>1. j = k
        BY <2>1, <3>3
      <4>2. CASE k \in X
        <5>1. RowsOf(v, k) \subseteq v.lost \cup T
          BY <3>1, <3>3, <4>2 DEF Cuts
        <5> QED  BY <1>1, <2>1, <2>3, <4>1, <5>1
      <4>3. CASE k \notin X
        <5>1. w.rows[k] # None /\ w.rows[k].party = k
          BY <3>1 DEF LedIn
        <5>2. k \in Chars
          BY <2>1, <1>1, RowIs
        <5> QED  BY <3>3, <4>1, <4>3, <5>1, <5>2 DEF Cuts, Moves, LedIn
      <4> QED  BY <4>2, <4>3
    <3> QED  BY <3>2, <3>3
  <2> QED  BY <2>2, <2>3
<1>2. ASSUME NEW j \in Chars, ~Dead(v, A, j)
      PROVE  Cardinality(RowsOf(v, j)) <= MaxMembers
  <2>1. RowsOf(v, j) \in SUBSET Chars /\ \A c \in RowsOf(v, j) : c \notin A
    BY <1>2 DEF Dead, RowsOf
  <2>2. ASSUME NEW k \in Chars, RowsOf(v, j) \subseteq RowsOf(w, k), A \cap RowsOf(w, k) = {}
        PROVE  Cardinality(RowsOf(v, j)) <= MaxMembers
    <3>1. RowsOf(w, k) \in SUBSET Chars
      BY DEF RowsOf
    <3>2. Cardinality(RowsOf(w, k)) <= MaxMembers
      <4>1. RowsOf(w, k) \ A = RowsOf(w, k)
        BY <2>2
      <4> QED  BY <4>1 DEF Cared
    <3>3. /\ Cardinality(RowsOf(w, k)) \in Nat /\ Cardinality(RowsOf(v, j)) \in Nat
          /\ Cardinality(RowsOf(v, j)) <= Cardinality(RowsOf(w, k))
      BY <2>2, <3>1, FewRows
    <3> QED  BY <3>2, <3>3 DEF PartyAssumption
  <2>3. CASE RowsOf(v, j) = {}
    BY <2>1, <2>3, FewRows
  <2>4. CASE RowsOf(v, j) # {} /\ j = d /\ i # d
    <3>1. /\ d \in Chars /\ d \notin X /\ w.rows[d] # None /\ w.rows[d].party = i
          /\ d \in RowsOf(w, i) /\ D = {}
      BY <2>4 DEF Cuts, RowsOf
    <3>2. d \in RowsOf(v, j) /\ d \notin A
      BY <2>1, <2>4, <3>1 DEF Cuts, Moves, RowsOf
    <3>3. A \cap RowsOf(w, i) = {}
      BY <3>1, <3>2, DeadIs
    <3>4. RowsOf(v, j) \subseteq RowsOf(w, i)
      <4>1. SUFFICES ASSUME NEW c \in RowsOf(v, j) PROVE c \in RowsOf(w, i)
        OBVIOUS
      <4>2. c \in Chars /\ v.rows[c] # None /\ v.rows[c].party = d /\ c \notin A
        BY <2>1, <2>4 DEF RowsOf
      <4>3. w.rows[c] # None /\ (w.rows[c].party = i \/ w.rows[c].party = d)
        BY <4>2 DEF Cuts, Moves
      <4>4. w.rows[c].party = d => LedIn(w, d)
        BY <3>1, <4>2, <4>3 DEF Cared
      <4>5. w.rows[c].party = i
        BY <2>4, <3>1, <4>3, <4>4 DEF LedIn
      <4> QED  BY <4>2, <4>3, <4>5 DEF RowsOf
    <3> QED  BY <2>2, <3>3, <3>4
  <2>5. CASE RowsOf(v, j) # {} /\ (j # d \/ i = d)
    <3>1. RowsOf(v, j) \subseteq RowsOf(w, j)
      BY <2>5 DEF Cuts, Moves, RowsOf
    <3>2. ~(RowsOf(w, j) \subseteq A)
      BY <2>1, <2>5, <3>1
    <3>3. A \cap RowsOf(w, j) = {}
      BY <3>2, DeadIs
    <3> QED  BY <2>2, <3>1, <3>3
  <2> QED  BY <2>3, <2>4, <2>5
<1> QED  BY <1>1, <1>2 DEF Heeded

\* A handler that adds members to a party that has room.
LEMMA JoinsHeed ==
  ASSUME PartyAssumption, NEW w \in Worlds, NEW A \in SUBSET Chars, Cared(w, A, {}),
         NEW v, NEW a \in Chars, NEW S \in SUBSET Chars, Joins(w, v, a, S),
         a \in S \/ LedIn(w, a),
         S # {} => Dead(v, A, a) \/ Cardinality(RowsOf(v, a)) <= MaxMembers
  PROVE  Heeded(v, A, {})
<1>1. ASSUME NEW c \in Chars, v.rows[c] # None
      PROVE  LedIn(v, v.rows[c].party) \/ Dead(v, A, v.rows[c].party)
  <2> DEFINE j == v.rows[c].party
  <2>1. CASE c \in S
    <3>1. j = a
      BY <2>1 DEF Joins
    <3>2. LedIn(v, a)
      BY DEF Joins, LedIn
    <3> QED  BY <3>1, <3>2
  <2>2. CASE c \notin S
    <3>1. w.rows[c] # None /\ j = w.rows[c].party
      BY <1>1, <2>2 DEF Joins
    <3>2. CASE c \in A
      BY <1>1, <3>2 DEF Dead, RowsOf
    <3>3. CASE c \notin A
      <4>1. LedIn(w, j) /\ j \in Chars
        BY <3>1, <3>3, RowIs DEF Cared
      <4>2. LedIn(v, j)
        BY <4>1 DEF LedIn, Joins
      <4> QED  BY <4>2
    <3> QED  BY <3>2, <3>3
  <2> QED  BY <2>1, <2>2
<1>2. ASSUME NEW j \in Chars, ~Dead(v, A, j)
      PROVE  Cardinality(RowsOf(v, j)) <= MaxMembers
  <2>1. RowsOf(v, j) \in SUBSET Chars /\ \A c \in RowsOf(v, j) : c \notin A
    BY <1>2 DEF Dead, RowsOf
  <2>2. CASE j = a /\ S # {}
    BY <1>2, <2>2
  <2>3. CASE ~(j = a /\ S # {})
    <3>1. RowsOf(v, j) = RowsOf(w, j)
      BY <2>3 DEF Joins, RowsOf
    <3>2. CASE RowsOf(w, j) = {}
      BY <2>1, <3>1, <3>2, FewRows
    <3>3. CASE RowsOf(w, j) # {}
      <4>1. ~(RowsOf(w, j) \subseteq A)
        BY <2>1, <3>1, <3>3
      <4> QED  BY <3>1, <4>1, DeadIs
    <3> QED  BY <3>2, <3>3
  <2> QED  BY <2>2, <2>3
<1> QED  BY <1>1, <1>2 DEF Heeded

\* What is as it was.
LEMMA SameRowsHeed ==
  ASSUME PartyAssumption, NEW w \in Worlds, NEW A \in SUBSET Chars, NEW T, Cared(w, A, T),
         NEW v, v.rows = w.rows
  PROVE  Heeded(v, A, T)
<1>1. ASSUME NEW c \in Chars, v.rows[c] # None, c \notin T
      PROVE  LedIn(v, v.rows[c].party) \/ Dead(v, A, v.rows[c].party)
  BY <1>1 DEF Cared, LedIn, Dead, RowsOf
<1>2. ASSUME NEW j \in Chars
      PROVE  Dead(v, A, j) \/ Cardinality(RowsOf(v, j)) <= MaxMembers
  <2>1. RowsOf(v, j) = RowsOf(w, j) /\ RowsOf(w, j) \in SUBSET Chars
    BY DEF RowsOf
  <2>2. CASE RowsOf(w, j) \subseteq A
    <3>1. RowsOf(v, j) # {} => Dead(v, A, j)
      BY <2>1, <2>2 DEF Dead
    <3>2. RowsOf(v, j) = {} => Cardinality(RowsOf(v, j)) <= MaxMembers
      BY <2>1, FewRows
    <3> QED  BY <3>1, <3>2
  <2> QED  BY <2>1, <2>2, DeadIs
<1> QED  BY <1>1, <1>2 DEF Heeded

\* A party whose end is announced has no leader.
Ended(v) == \A i \in Chars : Disbanding(i) \in Posted(v.sent) => ~LedIn(v, i)

LEMMA NoneEnded ==
  ASSUME NEW v, \A m \in Posted(v.sent) : m.type # "Disband"
  PROVE  Ended(v)
BY DEF Ended, Disbanding

\* Who leaves, and has led, leaves nobody behind, or an heir.
LEMMA RemovedCuts ==
  ASSUME PartyAssumption, NoneAssumption, NEW w, Proper(w),
         NEW c \in Chars, w.party[c] # None, Leads(w, {c}), w.sent = <<>>, NEW v \in Removed(w, c)
  PROVE  /\ \E i, d \in Chars, X \in SUBSET Chars : c \in X /\ Cuts(w, v, i, d, X, {})
         /\ LeadsIn(w, c) => RowsOf(v, c) = {}
         /\ Ended(v)
<1> DEFINE o == w.party[c]
<1>1. w \in Worlds /\ o \in Objects /\ w.cparty[o] # None /\ w.cparty[o].id \in Chars
  BY IdIs DEF Proper
<1>2. None \notin Chars
  BY DEF PartyAssumption
<1> HIDE DEF o
<1>3. w.party[c] = o /\ (LeadsIn(w, c) <=> w.cparty[o].leader = c)
  BY DEF o, LeadsIn
<1>4. RemovedAs(w, c, o, v)
  BY <1>1, <1>3, RemovedIs
<1>5. CASE w.cparty[o].leader # c /\ v = Dropped(w, c)
  <2>1. /\ Sends(w, v, Reloading(w.cparty[o].id))
        /\ \A d \in Chars : v.rows[d] = IF d = c THEN None ELSE w.rows[d]
    BY <1>1, <1>3, <1>5, DroppedIs
  <2>2. v.lost = w.lost \cup Missed(w, o, {c})
    BY <1>1, <1>3, <1>5, DroppedLoses
  <2>3. w.cparty[o].id # c
    BY <1>2, <1>3, <1>5 DEF Leads, KnowsLeader, Id
  <2>4. Moves(w, v, c, c, {c})
    BY <2>1 DEF Moves
  <2>5. LedIn(w, c) => RowsOf(v, c) \subseteq v.lost
    <3>1. SUFFICES ASSUME LedIn(w, c), NEW d \in RowsOf(v, c)
                   PROVE  d \in Missed(w, o, {c})
      BY <2>2
    <3>2. d \in Chars /\ d # c /\ d \in RowsOf(w, c)
      BY <2>1, <3>1 DEF RowsOf
    <3>3. w.rows[c] # None /\ w.rows[c].leader /\ w.rows[c].party = c
      BY <3>1 DEF LedIn, Leads, FlagIsId
    <3> QED  BY <2>3, <3>2, <3>3, MissedIs
  <2>6. Cuts(w, v, c, c, {c}, {})
    BY <2>4, <2>5 DEF Cuts
  <2>7. Posted(v.sent) = {Reloading(w.cparty[o].id)}
    BY <1>1, <2>1, FirstSent, ReloadingIs
  <2>8. Ended(v)
    BY <1>1, <2>7, ReloadingIs, NoneEnded
  <2>9. c \in {c} /\ {c} \in SUBSET Chars
    OBVIOUS
  <2>10. \E i, d \in Chars, X \in SUBSET Chars : c \in X /\ Cuts(w, v, i, d, X, {})
    BY <2>6, <2>9
  <2> QED  BY <1>3, <1>5, <2>8, <2>10
<1>6. CASE /\ v = Disbanded(w, o, TRUE) /\ w.cparty[o].leader = c
           /\ \A d \in RowsOf(w, w.cparty[o].id) : w.rows[d].leader
  <2>1. DisbandedAs(w, o, v) /\ Sends(w, v, Disbanding(w.cparty[o].id))
    BY <1>1, <1>6, DisbandedIs
  <2>2. w.cparty[o].id = c
    BY <1>3, <1>6, <1>2, <1>1, LeaderIsMember DEF Leads, Id, NoneAssumption
  <2>3. RowsOf(w, c) \subseteq {c}
    BY <1>6, <2>2 DEF RowsOf, Leads, FlagIsId
  <2>4. RowsOf(v, c) = {}
    BY <1>3, <2>1, <2>3 DEF DisbandedAs, RowsOf
  <2> DEFINE X == Members(w, o)
  <2>5. c \in X /\ X \in SUBSET Chars
    BY <1>3 DEF Members
  <2>6. Moves(w, v, c, c, X)
    BY <2>1 DEF Moves, DisbandedAs, Members
  <2>7. ASSUME NEW x \in X, LedIn(w, x)
        PROVE  RowsOf(v, x) \subseteq v.lost
    <3>1. CASE x = c
      BY <2>4, <3>1
    <3>2. CASE x # c
      <4>1. SUFFICES ASSUME NEW d \in RowsOf(v, x) PROVE d \in v.lost
        OBVIOUS
      <4>2. d \in Chars /\ d # x /\ d \in RowsOf(w, x)
        BY <2>1, <2>7, <4>1 DEF DisbandedAs, RowsOf, Members
      <4>3. w.rows[x] # None /\ w.rows[x].leader /\ w.rows[x].party = x /\ x \in Chars
        BY <2>5, <2>7 DEF LedIn, Leads, FlagIsId
      <4>4. d \in Missed(w, o, X)
        BY <2>2, <2>7, <3>2, <4>2, <4>3, MissedIs
      <4> QED  BY <2>1, <4>2, <4>4 DEF DisbandedAs
    <3> QED  BY <3>1, <3>2
  <2>8. Cuts(w, v, c, c, X, {})
    BY <2>6, <2>7 DEF Cuts
  <2>9. Posted(v.sent) = {Disbanding(c)}
    BY <1>1, <2>1, <2>2, FirstSent, DisbandingIs
  <2>10. Ended(v)
    <3>1. SUFFICES ASSUME NEW i \in Chars, Disbanding(i) = Disbanding(c) PROVE ~LedIn(v, i)
      BY <2>9 DEF Ended
    <3>2. i = c
      BY <3>1, DisbandingIs
    <3> QED  BY <2>4, <3>2 DEF LedIn, RowsOf
  <2>11. \E i, d \in Chars, Y \in SUBSET Chars : c \in Y /\ Cuts(w, v, i, d, Y, {})
    BY <2>5, <2>8
  <2> QED  BY <2>4, <2>10, <2>11
<1>7. CASE /\ w.cparty[o].leader = c
           /\ \E d \in RowsOf(w, w.cparty[o].id) :
              /\ ~w.rows[d].leader
              /\ v = IF w.party[d] = o /\ d = c THEN Disbanded(SetLeader(w, o, d), o, TRUE)
                     ELSE Dropped(SetLeader(w, o, d), c)
  <2>1. PICK d \in RowsOf(w, w.cparty[o].id) :
              /\ ~w.rows[d].leader
              /\ v = IF w.party[d] = o /\ d = c THEN Disbanded(SetLeader(w, o, d), o, TRUE)
                     ELSE Dropped(SetLeader(w, o, d), c)
    BY <1>7
  <2>2. w.cparty[o].id = c
    BY <1>3, <1>7, <1>2, <1>1, LeaderIsMember DEF Leads, Id, NoneAssumption
  <2>3. d \in Chars /\ w.rows[d] # None /\ w.rows[d].party = c /\ d \in RowsOf(w, c)
    BY <2>1, <2>2 DEF RowsOf
  <2>4. d # c
    BY <2>1, <2>3 DEF Leads, FlagIsId
  <2> DEFINE u == SetLeader(w, o, d)
  <2>5. /\ u \in Worlds /\ u.party = w.party /\ u.sent = w.sent
        /\ u.cparty[o] # None /\ u.cparty[o].id = d
        /\ \A e \in Chars : u.rows[e] = None <=> w.rows[e] = None
        /\ \A e \in Chars : w.rows[e] # None =>
              u.rows[e].party = IF w.rows[e].party = c THEN d ELSE w.rows[e].party
    BY <1>1, <2>2, <2>3, SetLeaderIs
  <2>7. v = Dropped(u, c)
    BY <2>1, <2>4
  <2> HIDE DEF u
  <2>8. u \in Worlds /\ u.party[c] = o /\ u.cparty[o] # None
    BY <1>1, <1>3, <2>5
  <2>9. /\ Sends(u, v, Reloading(u.cparty[o].id))
        /\ \A e \in Chars : v.rows[e] = IF e = c THEN None ELSE u.rows[e]
    BY <1>1, <2>7, <2>8, DroppedIs
  <2>10. Moves(w, v, c, d, {c})
    BY <2>5, <2>9 DEF Moves
  <2>11. Cuts(w, v, c, d, {c}, {})
    BY <2>3, <2>4, <2>10 DEF Cuts
  <2>12. RowsOf(v, c) = {}
    BY <2>4, <2>5, <2>9 DEF RowsOf
  <2>13. Posted(v.sent) = {Reloading(d)}
    <3>1. Sends(u, v, Reloading(d)) /\ Reloading(d) \in Message
      BY <2>3, <2>5, <2>9, ReloadingIs
    <3> QED  BY <2>5, <3>1, FirstSent
  <2>14. Ended(v)
    BY <2>3, <2>13, ReloadingIs, NoneEnded
  <2>15. c \in {c} /\ {c} \in SUBSET Chars
    OBVIOUS
  <2>16. \E i, e \in Chars, X \in SUBSET Chars : c \in X /\ Cuts(w, v, i, e, X, {})
    BY <2>3, <2>11, <2>15
  <2> QED  BY <2>12, <2>14, <2>16
<1> QED  BY <1>4, <1>5, <1>6, <1>7 DEF RemovedAs

-----------------------------------------------------------------------------
(* The second invariant.                                                   *)

\* The end of the party i is announced to a process.
Announced(i) ==
  \E q \in Procs : Disbanding(i) \in Posted(toWorld[q]) \cup Posted(toMap[q])

\* The party of c has ended, and c will be told so.
Doomed(c) ==
  /\ c \in Zone /\ party[c] # None /\ rows[c] # None /\ Id(World, c) = rows[c].party
  /\ LET m == Disbanding(rows[c].party)
     IN  (\E q \in Procs : m \in Posted(toWorld[q])) \/ m \in Posted(toMap[server[c]])

AllDoomed == {c \in Chars : Doomed(c)}

CareInv ==
  /\ Cared(World, abandoned, AllDoomed)
  /\ \A i \in Chars : Announced(i) => ~LedIn(World, i)

-----------------------------------------------------------------------------
LEMMA SameCared ==
  ASSUME NEW w, NEW v, v.rows = w.rows, NEW A, NEW T, Cared(w, A, T),
         NEW U, \A c \in T : c \in Chars /\ w.rows[c] # None => c \in U
  PROVE  Cared(v, A, U)
<1>1. /\ \A i : RowsOf(v, i) = RowsOf(w, i)
      /\ \A i : LedIn(w, i) => LedIn(v, i)
  BY DEF RowsOf, LedIn
<1>2. \A c \in A : v.rows[c] # None /\ RowsOf(v, v.rows[c].party) \subseteq A
  BY <1>1 DEF Cared
<1>3. \A c \in Chars : v.rows[c] # None /\ c \notin A \cup U => LedIn(v, v.rows[c].party)
  BY <1>1 DEF Cared
<1>4. \A i \in Chars : Cardinality(RowsOf(v, i) \ A) <= MaxMembers
  BY <1>1 DEF Cared
<1> QED  BY <1>2, <1>3, <1>4 DEF Cared

\* Abandoned is whoever shares a party with one who is.
LEMMA HeededCares ==
  ASSUME PartyAssumption, NEW w \in Worlds, NEW T, Heeded(w, abandoned, T)
  PROVE  Cared(w, Abandoned(w), T)
<1> DEFINE A == Abandoned(w)
<1>1. \A c \in Chars : c \in A <=> w.rows[c] # None /\ Dead(w, abandoned, w.rows[c].party)
  BY DEF Abandoned, Dead
<1>2. A \subseteq Chars
  BY DEF Abandoned
<1> HIDE DEF A
<1>3. ASSUME NEW c \in A
      PROVE  w.rows[c] # None /\ RowsOf(w, w.rows[c].party) \subseteq A
  BY <1>1, <1>2 DEF RowsOf
<1>4. \A c \in Chars : w.rows[c] # None /\ c \notin A \cup T => LedIn(w, w.rows[c].party)
  BY <1>1 DEF Heeded
<1>5. ASSUME NEW i \in Chars
      PROVE  Cardinality(RowsOf(w, i) \ A) <= MaxMembers
  <2>1. RowsOf(w, i) \in SUBSET Chars /\ RowsOf(w, i) \ A \in SUBSET RowsOf(w, i)
    BY DEF RowsOf
  <2>2. CASE Dead(w, abandoned, i)
    <3>1. RowsOf(w, i) \ A = {}
      BY <1>1, <2>2 DEF RowsOf
    <3> QED  BY <2>1, <3>1, FewRows
  <2>3. CASE ~Dead(w, abandoned, i)
    <3>1. Cardinality(RowsOf(w, i)) <= MaxMembers
      BY <2>3 DEF Heeded
    <3>2. /\ Cardinality(RowsOf(w, i)) \in Nat /\ Cardinality(RowsOf(w, i) \ A) \in Nat
          /\ Cardinality(RowsOf(w, i) \ A) <= Cardinality(RowsOf(w, i))
      BY <2>1, FewRows
    <3> QED  BY <3>1, <3>2 DEF PartyAssumption
  <2> QED  BY <2>2, <2>3
<1> QED  BY <1>3, <1>4, <1>5 DEF Cared, A

LEMMA CareStep ==
  ASSUME PartyAssumption, NEW w \in Worlds, rows' = w.rows, abandoned' = Abandoned(w),
         NEW T, Heeded(w, abandoned, T),
         \A c \in T : c \in Chars /\ w.rows[c] # None => Doomed(c)',
         \A i \in Chars : Announced(i)' => ~LedIn(w, i)
  PROVE  CareInv'
<1>1. Cared(w, Abandoned(w), T)
  BY HeededCares
<1>2. PICK v : v = World'
  OBVIOUS
<1>3. v.rows = w.rows
  BY <1>2 DEF World
<1>4. PICK U : U = AllDoomed'
  OBVIOUS
<1>5. \A c \in T : c \in Chars /\ w.rows[c] # None => c \in U
  BY <1>4 DEF AllDoomed
<1>6. Cared(v, Abandoned(w), U)
  BY <1>1, <1>3, <1>5, SameCared
<1>7. Cared(World, abandoned, AllDoomed)'
  BY <1>2, <1>4, <1>6
<1>8. \A i \in Chars : LedIn(v, i) <=> LedIn(w, i)
  BY <1>3 DEF LedIn
<1>9. \A i \in Chars : LedIn(World, i)' <=> LedIn(v, i)
  BY <1>2
<1> QED  BY <1>7, <1>8, <1>9 DEF CareInv

\* Rows stay as they are.
LEMMA CareKept ==
  ASSUME CareInv, rows' = rows, abandoned' = abandoned,
         \A c \in Chars : Doomed(c) => Doomed(c)',
         \A i \in Chars : Announced(i)' => Announced(i)
  PROVE  CareInv'
<1>1. PICK w : w = World
  OBVIOUS
<1>2. PICK v : v = World'
  OBVIOUS
<1>3. v.rows = w.rows
  BY <1>1, <1>2 DEF World
<1>4. PICK T : T = AllDoomed
  OBVIOUS
<1>5. PICK U : U = AllDoomed'
  OBVIOUS
<1>6. \A c \in T : c \in U
  BY <1>4, <1>5 DEF AllDoomed
<1>7. Cared(w, abandoned, T)
  BY <1>1, <1>4 DEF CareInv
<1>8. Cared(v, abandoned, U)
  BY <1>3, <1>6, <1>7, SameCared
<1>9. Cared(World, abandoned, AllDoomed)'
  BY <1>2, <1>5, <1>8
<1>10. \A i \in Chars : LedIn(World, i)' <=> LedIn(World, i)
  BY DEF LedIn, World
<1> QED  BY <1>9, <1>10 DEF CareInv

\* At rest nobody is doomed.
LEMMA RestIs ==
  ASSUME PartyInv, AtRest, CareInv
  PROVE  Cared(World, abandoned, {}) /\ \A c \in Chars : ~Doomed(c)
<1>1. \A q \in Procs : Posted(toWorld[q]) = {} /\ Posted(toMap[q]) = {}
  BY NoPost DEF AtRest
<1>2. \A c \in Chars : ~Doomed(c)
  <2>1. SUFFICES ASSUME NEW c \in Chars, Doomed(c) PROVE FALSE
    OBVIOUS
  <2>2. server[c] \in Procs
    BY <2>1 DEF Doomed, Zone, PartyInv, Homes
  <2> QED  BY <1>1, <2>1, <2>2 DEF Doomed
<1>3. PICK w : w = World
  OBVIOUS
<1>4. Cared(w, abandoned, AllDoomed)
  BY <1>3 DEF CareInv
<1>5. \A c \in AllDoomed : c \in Chars /\ w.rows[c] # None => c \in {}
  BY <1>2 DEF AllDoomed
<1>6. Cared(w, abandoned, {})
  BY <1>4, <1>5, SameCared
<1> QED  BY <1>2, <1>3, <1>6

\* What the run checks.
LEMMA CareShows ==
  ASSUME PartyAssumption, PartyInv, CareInv
  PROVE  LeaderIsHandedOn /\ NotOverfull
<1>1. NotOverfull
  BY DEF CareInv, Cared, NotOverfull
<1>2. ASSUME Calm, NEW c \in Chars \ abandoned, rows[c] # None
      PROVE  rows[rows[c].party] # None /\ rows[rows[c].party].leader
  <2>1. AtRest
    BY <1>2, CalmIs
  <2>2. Cared(World, abandoned, {})
    BY <2>1, RestIs
  <2>3. LedIn(World, rows[c].party)
    BY <1>2, <2>2 DEF Cared, World
  <2>4. World \in Worlds /\ FlagIsId(World)
    BY DEF PartyInv, Sound, Leads, Proper
  <2>5. rows[c].party \in Chars
    BY <1>2, <2>4, RowIs DEF World
  <2> QED  BY <2>3, <2>4, <2>5 DEF LedIn, FlagIsId, World
<1> QED  BY <1>1, <1>2 DEF LeaderIsHandedOn

-----------------------------------------------------------------------------
(* The players' acts, again.                                               *)

\* A handler that finds everything at rest.
LEMMA CareAct ==
  ASSUME PartyAssumption, PartyInv, AtRest, NEW p \in Procs,
         NEW w, Proper(w), Becomes(p, w), toMap' = toMap,
         NEW T, Heeded(w, abandoned, T), Ended(w),
         \A c \in T : c \in Chars /\ w.rows[c] # None => Doomed(c)'
  PROVE  CareInv'
<1>1. w \in Worlds /\ PartyTypeOK
  BY DEF Proper, PartyInv
<1>2. rows' = w.rows /\ abandoned' = Abandoned(w)
  BY DEF Becomes
<1>3. \A q \in Procs : Posted(toWorld[q]) = {} /\ Posted(toMap[q]) = {}
  BY NoPost DEF AtRest
<1>4. \A q \in Procs : /\ Posted(toWorld'[q]) \subseteq Posted(w.sent)
                       /\ Posted(toMap'[q]) = {}
  BY <1>1, <1>3, SentIs
<1>5. \A i \in Chars : Announced(i)' => Disbanding(i) \in Posted(w.sent)
  BY <1>4 DEF Announced
<1>6. \A i \in Chars : Announced(i)' => ~LedIn(w, i)
  BY <1>5 DEF Ended
<1> QED  BY <1>1, <1>2, <1>6, CareStep

\* A handler that leaves the rows alone.
LEMMA SameRowsAct ==
  ASSUME PartyAssumption, PartyInv, CareInv, AtRest, NEW p \in Procs,
         NEW w, Proper(w), Becomes(p, w), toMap' = toMap, w.rows = rows, Ended(w)
  PROVE  CareInv'
<1>1. World \in Worlds /\ World.rows = rows /\ abandoned \in SUBSET Chars
  BY WorldIs DEF PartyInv, Proper, PartyTypeOK
<1>2. Cared(World, abandoned, {})
  BY RestIs
<1>3. Heeded(w, abandoned, {})
  BY <1>1, <1>2, SameRowsHeed
<1> QED  BY <1>3, CareAct

\* A handler that takes rows away, and may hand on one party.
LEMMA CutsAct ==
  ASSUME PartyAssumption, PartyInv, CareInv, AtRest, NEW p \in Procs,
         NEW w, Proper(w), Becomes(p, w), toMap' = toMap, Ended(w),
         NEW i \in Chars, NEW d \in Chars, NEW X, Cuts(World, w, i, d, X, {})
  PROVE  CareInv'
<1>1. World \in Worlds /\ abandoned \in SUBSET Chars
  BY WorldIs DEF PartyInv, Proper, PartyTypeOK
<1>2. PICK v : v = World
  OBVIOUS
<1>3. Cared(v, abandoned, {}) /\ v \in Worlds /\ Cuts(v, w, i, d, X, {})
  BY <1>1, <1>2, RestIs
<1>4. Heeded(w, abandoned, {})
  BY <1>1, <1>3, CutsHeed
<1> QED  BY <1>4, CareAct

\* The same, of who leaves a party at rest.
LEMMA RemovedAct ==
  ASSUME PartyAssumption, NoneAssumption, PartyInv, CareInv, AtRest, NEW p \in Procs,
         NEW c \in Chars, party[c] # None, NEW w \in Removed(World, c),
         NEW v, Proper(v), v.rows = w.rows, v.lost = w.lost, v.sent = w.sent,
         Becomes(p, v), toMap' = toMap
  PROVE  CareInv'
<1>1. PICK u : u = World
  OBVIOUS
<1>2. Proper(u) /\ Leads(u, {c}) /\ u.sent = <<>> /\ u.party[c] # None /\ w \in Removed(u, c)
  <2>1. Leads(World, {c})
    BY MoreLeads DEF AtRest, Ready
  <2> QED  BY <1>1, <2>1, WorldIs DEF PartyInv
<1>3. PICK i, d \in Chars, X \in SUBSET Chars : c \in X /\ Cuts(u, w, i, d, X, {})
  BY <1>2, RemovedCuts
<1>4. Ended(w)
  BY <1>2, RemovedCuts
<1>5. Cuts(World, v, i, d, X, {})
  BY <1>1, <1>3 DEF Cuts, Moves, RowsOf
<1>6. Ended(v)
  BY <1>4 DEF Ended, LedIn
<1> QED  BY <1>5, <1>6, CutsAct
-----------------------------------------------------------------------------
LEMMA InviteCare ==
  ASSUME PartyAssumption, NoneAssumption, PartyInv, CareInv, ~Hasty, NEW a \in Chars, NEW b \in Chars,
         Invite(a, b)
  PROVE  CareInv'
<1>1. Acts(a) /\ AtRest /\ server[a] \in Procs /\ toMap' = toMap
  BY ActorIs DEF Invite
<1> DEFINE m == [type |-> "Invite", from |-> a, to |-> b]
<1>2. m \in Message /\ m.type = "Invite"
  BY DEF Message
<1> HIDE DEF m
<1>3. PICK w : Becomes(server[a], w) /\ (w = World \/ w = Sending(World, m))
  BY DEF Invite, m
<1>4. PICK u : u = World
  OBVIOUS
<1>5. Ready(u) /\ u.sent = <<>> /\ u \in Worlds /\ u.rows = rows
  BY <1>1, <1>4, WorldIs DEF AtRest, PartyInv, Proper
<1>6. Proper(w) /\ w.rows = rows /\ \A n \in Posted(w.sent) : n.type # "Disband"
  <2>1. CASE w = u
    BY <1>5, <2>1, NoPost DEF Ready
  <2>2. CASE w = Sending(u, m)
    <3>1. w.rows = rows /\ Sends(u, w, m)
      BY <1>2, <1>5, <2>2, SendingIs
    <3>2. Posted(w.sent) = {m}
      BY <1>2, <1>5, <3>1, FirstSent
    <3>3. Proper(w)
      BY <1>2, <1>5, <2>2, AskedFits
    <3> QED  BY <1>2, <3>1, <3>2, <3>3
  <2> QED  BY <1>3, <1>4, <2>1, <2>2
<1>7. Ended(w)
  BY <1>6, NoneEnded
<1> QED  BY <1>1, <1>3, <1>6, <1>7, SameRowsAct

LEMMA DeclineCare ==
  ASSUME PartyAssumption, NoneAssumption, PartyInv, CareInv, ~Hasty, NEW b \in Chars, Decline(b)
  PROVE  CareInv'
<1>1. Acts(b) /\ AtRest /\ server[b] \in Procs /\ toMap' = toMap /\ Becomes(server[b], World)
  BY ActorIs DEF Decline
<1>2. PICK w : w = World
  OBVIOUS
<1>3. Proper(w) /\ w.rows = rows /\ w.sent = <<>>
  BY <1>2, WorldIs DEF PartyInv
<1>4. Ended(w)
  BY <1>3, NoPost, NoneEnded
<1> QED  BY <1>1, <1>2, <1>3, <1>4, SameRowsAct

LEMMA LeaveCare ==
  ASSUME PartyAssumption, NoneAssumption, PartyInv, CareInv, ~Hasty, NEW c \in Chars, Leave(c)
  PROVE  CareInv'
<1>1. Acts(c) /\ AtRest /\ server[c] \in Procs /\ toMap' = toMap /\ party[c] # None
  BY ActorIs DEF Leave
<1>2. PICK w \in Removed(World, c) : Becomes(server[c], w)
  BY DEF Leave
<1>3. Proper(w)
  BY <1>1, LeaverFits DEF PartyInv
<1> QED  BY <1>1, <1>2, <1>3, RemovedAct

\* Members elsewhere will be told that the party has ended.
LEMMA BreakupCare ==
  ASSUME PartyAssumption, NoneAssumption, PartyInv, CareInv, ~Hasty, NEW c \in Chars, Breakup(c)
  PROVE  CareInv'
<1>1. /\ Acts(c) /\ AtRest /\ server[c] \in Procs /\ toMap' = toMap /\ UNCHANGED <<server, stage>>
      /\ LeadsIn(World, c) /\ Becomes(server[c], Disbanded(World, party[c], TRUE))
  BY ActorIs DEF Breakup
<1>2. PICK u : u = World
  OBVIOUS
<1>3. /\ Ready(u) /\ u.sent = <<>> /\ u \in Worlds /\ Proper(u) /\ PartyTypeOK
      /\ u.party = party /\ u.rows = rows /\ u.cparty = cparty /\ abandoned \in SUBSET Chars
  BY <1>1, <1>2, WorldIs DEF AtRest, PartyInv, Proper, PartyTypeOK
<1>4. PICK o : o = u.party[c]
  OBVIOUS
<1>5. /\ o \in Objects /\ u.cparty[o] # None /\ u.cparty[o].leader = c /\ u.party[c] = o
      /\ u.party[c] # None
  BY <1>1, <1>2, <1>3, <1>4, LeadsInIs
<1>6. u.cparty[o].id = c
  BY <1>3, <1>5, LeaderIsMember DEF Ready, Leads, Id
<1>7. PICK w : w = Disbanded(u, o, TRUE)
  OBVIOUS
<1>8. DisbandedAs(u, o, w) /\ Sends(u, w, Disbanding(c))
  BY <1>3, <1>5, <1>6, <1>7, DisbandedIs
<1>9. Proper(w) /\ Becomes(server[c], w)
  BY <1>1, <1>2, <1>3, <1>4, <1>5, <1>7, <1>8, DisbandedIsProper
<1> DEFINE X == Members(u, o)
           T == {d \in Zone : d \in RowsOf(u, c) /\ u.party[d] # o}
<1>10. Moves(u, w, c, c, X)
  BY <1>8 DEF Moves, DisbandedAs, Members
<1>11. ASSUME NEW x \in X, LedIn(u, x)
       PROVE  RowsOf(w, x) \subseteq w.lost \cup T
  <2>1. SUFFICES ASSUME NEW d \in RowsOf(w, x) PROVE d \in w.lost \cup T
    OBVIOUS
  <2>2. d \in Chars /\ u.party[d] # o /\ d \in RowsOf(u, x) /\ u.party[x] = o /\ x \in Chars
    BY <1>8, <2>1 DEF DisbandedAs, RowsOf, Members
  <2>3. CASE x = c
    <3>1. CASE stage[d] = "in"
      BY <2>2, <2>3, <3>1 DEF Zone
    <3>2. CASE stage[d] # "in"
      BY <1>6, <1>8, <2>2, <2>3, <3>2 DEF DisbandedAs
    <3> QED  BY <3>1, <3>2
  <2>4. CASE x # c
    <3>1. u.rows[x] # None /\ u.rows[x].leader /\ u.rows[x].party = x
      BY <1>3, <1>11, <2>2 DEF LedIn, Ready, Leads, FlagIsId
    <3>2. d # x
      BY <2>2
    <3>3. d \in Missed(u, o, X)
      BY <1>6, <1>11, <2>2, <2>4, <3>1, <3>2, MissedIs
    <3> QED  BY <1>8, <2>2, <3>3 DEF DisbandedAs
  <2> QED  BY <2>3, <2>4
<1>12. Cuts(u, w, c, c, X, T)
  BY <1>10, <1>11 DEF Cuts
<1>13. \A d \in T : d \in Chars => Doomed(d)'
  <2>1. SUFFICES ASSUME NEW d \in T PROVE Doomed(d)'
    OBVIOUS
  <2>2. /\ d \in Chars /\ d \in Zone /\ rows[d] # None /\ rows[d].party = c
        /\ party[d] # o
    BY <1>3, <2>1 DEF RowsOf
  <2>3. party[d] # None /\ Id(u, d) = c /\ party[d] \in Objects
    BY <1>3, <2>2, IdIs DEF Ready, Settled
  <2>4. party'[d] = party[d] /\ rows'[d] = rows[d] /\ cparty'[party[d]] = cparty[party[d]]
    BY <1>3, <1>8, <1>9, <2>2, <2>3 DEF Becomes, DisbandedAs, OthersKept
  <2>5. Id(World, d)' = c
    BY <1>3, <2>3, <2>4 DEF Id, World
  <2>6. Disbanding(c) \in Posted(toWorld'[server[c]])
    <3>1. Posted(w.sent) = {Disbanding(c)}
      BY <1>3, <1>8, FirstSent, DisbandingIs
    <3>2. Disbanding(c) \in Posted(w.sent)
      BY <3>1
    <3>3. PICK p : p = server[c]
      OBVIOUS
    <3>4. PartyTypeOK /\ p \in Procs /\ Proper(w) /\ Becomes(p, w)
      BY <1>1, <1>3, <1>9, <3>3
    <3>5. Posted(toWorld'[p]) = Posted(toWorld[p]) \cup Posted(w.sent)
      BY <3>4, SentIs
    <3> QED  BY <3>2, <3>3, <3>5
  <2>7. Zone' = Zone
    BY <1>1 DEF Zone
  <2> QED  BY <1>1, <2>2, <2>3, <2>4, <2>5, <2>6, <2>7 DEF Doomed
<1>14. Ended(w)
  <2>1. Posted(w.sent) = {Disbanding(c)}
    BY <1>3, <1>8, FirstSent, DisbandingIs
  <2>2. SUFFICES ASSUME NEW i \in Chars, Disbanding(i) = Disbanding(c) PROVE ~LedIn(w, i)
    BY <2>1 DEF Ended
  <2>3. i = c
    BY <2>2, DisbandingIs
  <2> QED  BY <1>5, <1>8, <2>3 DEF LedIn, DisbandedAs
<1>15. Cared(u, abandoned, {})
  BY <1>1, <1>2, RestIs
<1> HIDE DEF X, T
<1>16. Heeded(w, abandoned, T)
  BY <1>3, <1>12, <1>15, CutsHeed
<1> QED  BY <1>1, <1>9, <1>13, <1>14, <1>16, CareAct

LEMMA KickCare ==
  ASSUME PartyAssumption, NoneAssumption, PartyInv, CareInv, ~Hasty, NEW a \in Chars, NEW c \in Chars, Kick(a, c)
  PROVE  CareInv'
<1>1. /\ Acts(a) /\ AtRest /\ server[a] \in Procs /\ toMap' = toMap
      /\ LeadsIn(World, a) /\ a # c
  BY ActorIs DEF Kick
<1>2. PICK u : u = World
  OBVIOUS
<1>3. /\ Ready(u) /\ u.sent = <<>> /\ u \in Worlds /\ Proper(u) /\ PartyTypeOK
      /\ u.party = party /\ u.rows = rows
  BY <1>1, <1>2, WorldIs DEF AtRest, PartyInv, Proper
<1>4. CASE /\ party[c] = party[a]
           /\ \E w \in Removed(World, c) : Becomes(server[a], w)
  <2>1. PICK w \in Removed(World, c) : Becomes(server[a], w)
    BY <1>4
  <2>2. party[c] # None
    BY <1>1, <1>4 DEF LeadsIn, World
  <2>3. Proper(w)
    BY <1>1, <1>3, <2>2, LeaverFits
  <2> QED  BY <1>1, <2>1, <2>2, <2>3, RemovedAct
<1>5. CASE /\ c \in RowsOf(World, a)
           /\ \E w \in Kicked(World, a, c) : Becomes(server[a], w)
  <2>1. PICK w \in Kicked(u, a, c) : Becomes(server[a], w)
    BY <1>2, <1>5
  <2>2. c \in RowsOf(u, a) /\ LeadsIn(u, a)
    BY <1>1, <1>2, <1>5
  <2>3. Id(u, a) \in Chars
    BY <1>3, <2>2, LeadsInIs, IdIs
  <2>4. KickedAs(u, a, c, w)
    BY <1>3, <2>1, <2>3, KickedIs
  <2>5. Proper(w)
    BY <1>1, <1>3, <2>1, <2>2, KickedFits
  <2>6. \A m \in Posted(w.sent) : m.type # "Disband"
    <3>1. PICK r : r = Reloading(Id(u, a))
      OBVIOUS
    <3>2. PICK k : k = Kicking(c)
      OBVIOUS
    <3>3. r \in Message /\ k \in Message /\ r.type = "Reload" /\ k.type = "Kick"
      BY <2>3, <3>1, <3>2, ReloadingIs, KickingIs
    <3>4. <<>> \in Seq(Message) /\ Append(<<>>, r) \in Seq(Message)
      BY <3>3
    <3>5. w.sent = Append(Append(<<>>, r), k)
      BY <1>3, <2>4, <3>1, <3>2 DEF KickedAs
    <3>6. Posted(w.sent) = {r} \cup {k}
      <4>1. PICK s : s = <<>>
        OBVIOUS
      <4>2. PICK t : t = Append(s, r)
        OBVIOUS
      <4>3. s \in Seq(Message) /\ t \in Seq(Message) /\ w.sent = Append(t, k) /\ Posted(s) = {}
        BY <3>4, <3>5, <4>1, <4>2, NoPost
      <4>4. Posted(t) = Posted(s) \cup {r}
        BY <3>3, <4>2, <4>3, PostedIs
      <4>5. Posted(w.sent) = Posted(t) \cup {k}
        BY <3>3, <4>3, PostedIs
      <4> QED  BY <4>3, <4>4, <4>5
    <3> QED  BY <3>3, <3>6
  <2>7. Ended(w)
    BY <2>6, NoneEnded
  <2>8. Moves(u, w, a, a, {c})
    BY <2>4 DEF KickedAs, Moves
  <2>9. ~LedIn(u, c)
    BY <1>1, <2>2 DEF LedIn, RowsOf
  <2>10. Cuts(World, w, a, a, {c}, {})
    BY <1>2, <2>8, <2>9 DEF Cuts
  <2> QED  BY <1>1, <2>1, <2>5, <2>7, <2>10, CutsAct
<1> QED  BY <1>4, <1>5 DEF Kick, World

LEMMA GiveLeadCare ==
  ASSUME PartyAssumption, NoneAssumption, PartyInv, CareInv, ~Hasty, NEW a \in Chars, NEW b \in Chars,
         GiveLead(a, b)
  PROVE  CareInv'
<1>1. /\ Acts(a) /\ AtRest /\ server[a] \in Procs /\ toMap' = toMap
      /\ LeadsIn(World, a) /\ a # b /\ b \in RowsOf(World, Id(World, a))
      /\ Becomes(server[a], Sending(SetLeader(World, party[a], b), Reloading(b)))
  BY ActorIs DEF GiveLead
<1>2. PICK u : u = World
  OBVIOUS
<1>3. /\ Ready(u) /\ u.sent = <<>> /\ u \in Worlds /\ Proper(u) /\ u.party = party
      /\ \A g \in Chars : ~u.reload[g]
  BY <1>1, <1>2, WorldIs DEF AtRest, PartyInv, Proper
<1>4. PICK o : o = u.party[a]
  OBVIOUS
<1>5. o \in Objects /\ u.cparty[o] # None /\ u.cparty[o].leader = a /\ u.party[a] # None
  BY <1>1, <1>2, <1>3, <1>4, LeadsInIs
<1>6. PICK v : v = SetLeader(u, o, b)
  OBVIOUS
<1>7. PICK w : w = Sending(v, Reloading(b))
  OBVIOUS
<1>8. PICK i : i = u.cparty[o].id
  OBVIOUS
<1>9. i \in Chars /\ Id(u, a) = i /\ b \in RowsOf(u, i) /\ b \in RowsOf(u, Id(u, a))
  BY <1>1, <1>2, <1>3, <1>4, <1>5, <1>8, IdIs
<1>10. /\ v \in Worlds /\ v.sent = u.sent
       /\ \A d \in Chars : v.rows[d] = None <=> u.rows[d] = None
       /\ \A d \in Chars : u.rows[d] # None =>
             v.rows[d].party = IF u.rows[d].party = i THEN b ELSE u.rows[d].party
  BY <1>3, <1>5, <1>6, <1>8, SetLeaderIs
<1>11. w.rows = v.rows /\ Sends(v, w, Reloading(b))
  BY <1>7, <1>10, ReloadingIs, SendingIs
<1>12. Proper(w)
  BY <1>1, <1>2, <1>3, <1>4, <1>6, <1>7, <1>9, GivenFits
<1>13. Posted(w.sent) = {Reloading(b)}
  BY <1>3, <1>10, <1>11, FirstSent, ReloadingIs
<1>14. Ended(w)
  BY <1>13, ReloadingIs, NoneEnded
<1>15. Moves(u, w, i, b, {})
  BY <1>10, <1>11 DEF Moves
<1>16. Cuts(World, w, i, b, {}, {})
  BY <1>2, <1>9, <1>15 DEF Cuts
<1>17. Becomes(server[a], w)
  BY <1>1, <1>2, <1>3, <1>4, <1>6, <1>7
<1> QED  BY <1>1, <1>9, <1>12, <1>14, <1>16, <1>17, CutsAct

\* A new party may take over the id of one that is abandoned.
LEMMA FoundedGrows ==
  ASSUME PartyAssumption, NoneAssumption, NEW w, Ready(w), NEW a \in Zone, server[a] # None,
         w.party[a] = None, NEW A \in SUBSET Chars, Cared(w, A, {}), NEW u, u = Founded(w, a)
  PROVE  /\ Ready(u) /\ LeadsIn(u, a) /\ Joins(w, u, a, {a})
         /\ Dead(u, A, a) \/ Cardinality(RowsOf(u, a)) <= MaxMembers
<1>1. /\ a \in Chars /\ w \in Worlds /\ w.rows[a] = None
      /\ Proper(w) /\ Leads(w, {})
  BY DEF Ready, Settled, Zone, Proper
<1>2. Ready(u) /\ LeadsIn(u, a)
  BY FoundedReady
<1>3. \E o \in Objects : FoundedAs(w, a, o, u)
  BY <1>1, FoundedLeads
<1>4. Joins(w, u, a, {a})
  BY <1>1, <1>3 DEF FoundedAs, Joins
<1>5. CASE RowsOf(w, a) = {}
  <2>1. RowsOf(u, a) = {a}
    BY <1>1, <1>4, <1>5 DEF Joins, RowsOf
  <2>2. IsFiniteSet({a}) /\ Cardinality({a}) = 1
    BY FS_Singleton
  <2> QED  BY <1>2, <1>4, <2>1, <2>2 DEF PartyAssumption
<1>6. CASE RowsOf(w, a) # {}
  <2>1. PICK c \in RowsOf(w, a) : TRUE
    BY <1>6
  <2>2. c \in Chars /\ w.rows[c] # None /\ w.rows[c].party = a /\ c # a
    BY <1>1, <2>1 DEF RowsOf
  <2>3. c \in A
    BY <1>1, <2>2 DEF Cared, LedIn
  <2>4. c \in RowsOf(u, a)
    BY <1>4, <2>2 DEF Joins, RowsOf
  <2>5. Dead(u, A, a)
    BY <2>3, <2>4 DEF Dead
  <2> QED  BY <1>2, <1>4, <2>5
<1> QED  BY <1>5, <1>6

\* There is room for one more.
LEMMA OneMoreGrows ==
  ASSUME PartyAssumption, NEW w, Proper(w), Leads(w, {}), NEW a \in Chars, LeadsIn(w, a),
         ~IsFull(w, w.party[a]), NEW b \in Chars, NEW v, Joins(w, v, a, {b})
  PROVE  LedIn(w, a) /\ Cardinality(RowsOf(v, a)) <= MaxMembers
<1>1. PICK o : o = w.party[a]
  OBVIOUS
<1>2. o \in Objects /\ w.cparty[o] # None /\ w.cparty[o].leader = a /\ w.party[a] # None
  BY <1>1, LeadsInIs
<1>3. Id(w, a) = a /\ w.cparty[o].id = a
  BY <1>1, <1>2, LeaderIsMember DEF Leads, Id
<1>4. LedIn(w, a)
  BY <1>2, <1>3 DEF Leads, LeadersAreIn, LedIn
<1>5. ~(Cardinality(RowsOf(w, a)) >= MaxMembers)
  BY <1>1, <1>3 DEF IsFull
<1>6. RowsOf(v, a) = RowsOf(w, a) \cup {b} /\ b \notin RowsOf(w, a)
  BY DEF Joins, RowsOf
<1>7. RowsOf(w, a) \in SUBSET Chars /\ IsFiniteSet(Chars)
  BY DEF RowsOf, PartyAssumption
<1>8. IsFiniteSet(RowsOf(w, a)) /\ Cardinality(RowsOf(w, a)) \in Nat
  BY <1>7, FS_Subset, FS_CardinalityType
<1>9. Cardinality(RowsOf(v, a)) = Cardinality(RowsOf(w, a)) + 1
  BY <1>6, <1>8, FS_AddElement
<1> QED  BY <1>4, <1>5, <1>8, <1>9 DEF PartyAssumption

LEMMA JoinsMore ==
  ASSUME NEW w, NEW u, NEW v, NEW a \in Chars, NEW S \in SUBSET Chars, NEW b \in Chars,
         Joins(w, u, a, S), Joins(u, v, a, {b})
  PROVE  Joins(w, v, a, S \cup {b})
<1>1. b \notin S
  BY DEF Joins
<1>2. \A c \in S \cup {b} : w.rows[c] = None /\ v.rows[c] # None /\ v.rows[c].party = a
  <2>1. w.rows[b] = None /\ v.rows[b] # None /\ v.rows[b].party = a
    BY <1>1 DEF Joins
  <2>2. \A c \in S : w.rows[c] = None /\ v.rows[c] # None /\ v.rows[c].party = a
    BY <1>1 DEF Joins
  <2> QED  BY <2>1, <2>2
<1>3. \A c \in Chars \ (S \cup {b}) : /\ v.rows[c] = None <=> w.rows[c] = None
                                      /\ w.rows[c] # None => v.rows[c].party = w.rows[c].party
  BY DEF Joins
<1> QED  BY <1>2, <1>3 DEF Joins

\* Somebody who has accepted joins the inviter, or there is no room.
LEMMA JoinerHeeds ==
  ASSUME PartyAssumption, NoneAssumption, NEW w, Ready(w), NEW a \in Zone, server[a] # None,
         NEW A \in SUBSET Chars, Cared(w, A, {}),
         NEW u, u = IF w.party[a] = None THEN Founded(w, a) ELSE w,
         NEW b \in Chars, NEW v,
         \/ v = u
         \/ LeadsIn(u, a) /\ ~IsFull(u, u.party[a]) /\ Joins(u, v, a, {b})
  PROVE  Heeded(v, A, {})
<1>1. a \in Chars /\ w \in Worlds
  BY DEF Ready, Zone, Proper
<1>2. CASE w.party[a] = None
  <2>1. /\ Ready(u) /\ LeadsIn(u, a) /\ Joins(w, u, a, {a})
        /\ Dead(u, A, a) \/ Cardinality(RowsOf(u, a)) <= MaxMembers
    BY <1>2, FoundedGrows
  <2>2. CASE v = u
    <3>1. {a} \in SUBSET Chars /\ a \in {a} /\ Joins(w, v, a, {a})
      BY <1>1, <2>1, <2>2
    <3> QED  BY <1>1, <2>1, <2>2, <3>1, JoinsHeed
  <2>3. CASE LeadsIn(u, a) /\ ~IsFull(u, u.party[a]) /\ Joins(u, v, a, {b})
    <3>1. Cardinality(RowsOf(v, a)) <= MaxMembers
      BY <1>1, <2>1, <2>3, OneMoreGrows DEF Ready
    <3>2. PICK S : S = {a} \cup {b}
      OBVIOUS
    <3>3. {a} \in SUBSET Chars /\ S \in SUBSET Chars /\ a \in S
      BY <1>1, <3>2
    <3>4. Joins(w, v, a, S)
      BY <1>1, <2>1, <2>3, <3>2, <3>3, JoinsMore
    <3> QED  BY <1>1, <3>1, <3>3, <3>4, JoinsHeed
  <2> QED  BY <2>2, <2>3
<1>3. CASE w.party[a] # None /\ v = u
  BY <1>1, <1>3, SameRowsHeed
<1>4. CASE w.party[a] # None /\ LeadsIn(u, a) /\ ~IsFull(u, u.party[a]) /\ Joins(u, v, a, {b})
  <2>1. u = w
    BY <1>4
  <2>2. LedIn(w, a) /\ Cardinality(RowsOf(v, a)) <= MaxMembers
    BY <1>1, <1>4, <2>1, OneMoreGrows DEF Ready
  <2>3. {b} \in SUBSET Chars /\ Joins(w, v, a, {b})
    BY <1>4, <2>1
  <2> QED  BY <1>1, <2>2, <2>3, JoinsHeed
<1> QED  BY <1>2, <1>3, <1>4

LEMMA JoinedHeeds ==
  ASSUME PartyAssumption, NoneAssumption, NEW w, Ready(w), NEW a \in Zone, NEW b \in Zone,
         server[a] = server[b], server[b] # None, w.party[b] = None,
         NEW A \in SUBSET Chars, Cared(w, A, {})
  PROVE  Heeded(Joined(w, a, b), A, {})
<1>1. PICK u : u = IF w.party[a] = None THEN Founded(w, a) ELSE w
  OBVIOUS
<1>2. PICK v : v = Joined(w, a, b)
  OBVIOUS
<1>3. v = IF LeadsIn(u, a) /\ ~IsFull(u, u.party[a]) THEN Added(u, u.party[a], b) ELSE u
  BY <1>1, <1>2 DEF Joined
<1>4. a \in Chars /\ b \in Chars /\ w.rows[b] = None
  BY DEF Ready, Settled, Zone
<1>5. Ready(u)
  BY <1>1, FoundedReady
<1>6. CASE v = u
  BY <1>1, <1>2, <1>4, <1>6, JoinerHeeds
<1>7. CASE LeadsIn(u, a) /\ ~IsFull(u, u.party[a]) /\ v = Added(u, u.party[a], b) /\ a # b
  <2>1. PICK o : o = u.party[a]
    OBVIOUS
  <2>2. o \in Objects /\ u.cparty[o] # None /\ u.cparty[o].leader = a
    BY <1>4, <1>5, <1>7, <2>1, LeadsInIs DEF Ready
  <2>3. u.cparty[o].id = a
    BY <1>4, <1>5, <1>7, <2>1, <2>2, LeaderIsMember DEF Ready, Leads, Id, LeadsIn
  <2>4. u.rows[b] = None /\ u.party[b] = None
    <3>1. CASE w.party[a] = None
      <4>1. u = Founded(w, a)
        BY <1>1, <3>1
      <4>2. /\ \A c \in Chars \ {a} : u.party[c] = w.party[c]
            /\ \A c \in Chars \ {a} : u.rows[c] = None <=> w.rows[c] = None
        BY <1>4, <3>1, <4>1, FoundedReady
      <4> QED  BY <1>4, <1>7, <4>2
    <3>2. CASE w.party[a] # None
      BY <1>1, <1>4, <3>2
    <3> QED  BY <3>1, <3>2
  <2>5. /\ \A d \in Chars \ {b} : v.rows[d] = u.rows[d]
        /\ v.rows[b] # None /\ v.rows[b].party = a
    BY <1>4, <1>5, <1>7, <2>1, <2>2, <2>3, <2>4, AddedIs DEF Ready, Proper
  <2>6. Joins(u, v, a, {b})
    BY <1>4, <2>4, <2>5 DEF Joins
  <2>7. LeadsIn(u, a) /\ ~IsFull(u, u.party[a]) /\ Joins(u, v, a, {b})
    BY <1>7, <2>6
  <2>8. server[a] # None /\ b \in Chars
    BY <1>4
  <2>9. Heeded(v, A, {})
    BY <1>1, <2>7, <2>8, JoinerHeeds
  <2> QED  BY <1>2, <2>9
<1>8. CASE LeadsIn(u, a) /\ ~IsFull(u, u.party[a]) /\ v = Added(u, u.party[a], b) /\ a = b
  <2>1. PICK o : o = u.party[a]
    OBVIOUS
  <2>2. o \in Objects /\ u.cparty[o] # None /\ u.cparty[o].leader = a /\ u.party[a] # None
    BY <1>4, <1>5, <1>8, <2>1, LeadsInIs DEF Ready
  <2>3. u.rows[a] # None
    BY <1>4, <1>5, <2>1, <2>2, LeaderIsMember DEF Ready, Leads, LeadersAreIn, Id
  <2>4. \A d \in Chars : v.rows[d] = u.rows[d]
    BY <1>4, <1>5, <1>8, <2>1, <2>2, <2>3, AddedIs DEF Ready, Proper
  <2>5. Heeded(u, A, {})
    BY <1>1, <1>4, JoinerHeeds
  <2>6. v.lost = u.lost
    BY <1>4, <1>5, <1>8, <2>1, <2>2, AddedIs DEF Ready, Proper
  <2>7. \A i : RowsOf(v, i) = RowsOf(u, i)
    BY <2>4 DEF RowsOf
  <2>8. ASSUME NEW d \in Chars, v.rows[d] # None
        PROVE  LedIn(v, v.rows[d].party) \/ Dead(v, A, v.rows[d].party)
    <3>1. u.rows[d] # None /\ v.rows[d].party = u.rows[d].party /\ u.rows[d].party \in Chars
      BY <1>5, <2>4, <2>8, RowIs DEF Ready, Proper
    <3>2. LedIn(u, u.rows[d].party) \/ Dead(u, A, u.rows[d].party)
      BY <2>5, <3>1 DEF Heeded
    <3> QED  BY <2>4, <2>6, <2>7, <3>1, <3>2 DEF Dead, LedIn
  <2>9. \A i \in Chars : Dead(v, A, i) \/ Cardinality(RowsOf(v, i)) <= MaxMembers
    BY <2>5, <2>6, <2>7 DEF Heeded, Dead
  <2> QED  BY <1>2, <2>8, <2>9 DEF Heeded
<1> QED  BY <1>3, <1>6, <1>7, <1>8

LEMMA AcceptCare ==
  ASSUME PartyAssumption, NoneAssumption, PartyInv, CareInv, ~Hasty, NEW b \in Chars, Accept(b)
  PROVE  CareInv'
<1>1. AtRest /\ server[b] \in Procs /\ server[b] # None /\ b \in Zone /\ toMap' = toMap
  BY ActorIs DEF Accept
<1> DEFINE a == invite[b]
           m == [type |-> "Answer", from |-> a, to |-> b]
<1>2. a \in Chars
  BY Kept DEF Accept, PartyInv
<1>3. PICK u : u = World
  OBVIOUS
<1>4. /\ Ready(u) /\ u.party = party /\ u.sent = <<>> /\ u.rows = rows /\ u \in Worlds
      /\ Cared(u, abandoned, {}) /\ abandoned \in SUBSET Chars
  BY <1>1, <1>3, RestIs, WorldIs DEF AtRest, PartyInv, Proper, PartyTypeOK
<1>5. PICK w : /\ Becomes(server[b], w)
               /\ \/ w = u
                  \/ party[b] = None /\ Found(server[b], a) /\ w = Joined(u, a, b)
                  \/ party[b] = None /\ w = Sending(u, m)
  BY <1>3 DEF Accept
<1>6. CASE w = u
  <2>1. Proper(w) /\ w.rows = rows /\ Ended(w)
    BY <1>4, <1>6, NoPost, NoneEnded DEF Ready
  <2> QED  BY <1>1, <1>5, <2>1, SameRowsAct
<1>7. CASE party[b] = None /\ Found(server[b], a) /\ w = Joined(u, a, b)
  <2>1. a \in Zone /\ server[a] = server[b] /\ u.party[b] = None
    BY <1>2, <1>4, <1>7 DEF Found, Zone
  <2>2. Ready(w)
    BY <1>1, <1>4, <1>7, <2>1, JoinedFits
  <2>3. Heeded(w, abandoned, {})
    BY <1>1, <1>4, <1>7, <2>1, JoinedHeeds
  <2>4. \A n \in Posted(w.sent) : n.type # "Disband"
    BY <2>2 DEF Ready, OnlyReloads
  <2>5. Ended(w) /\ Proper(w)
    BY <2>2, <2>4, NoneEnded DEF Ready
  <2> QED  BY <1>1, <1>5, <2>3, <2>5, CareAct
<1>8. CASE party[b] = None /\ w = Sending(u, m)
  <2>1. m \in Message /\ m.type = "Answer"
    BY <1>2 DEF Message
  <2> HIDE DEF m
  <2>2. w.rows = rows /\ Sends(u, w, m) /\ Proper(w)
    <3>1. w.rows = u.rows /\ Sends(u, w, m) /\ w \in Worlds /\ w.party = u.party /\ w.cparty = u.cparty
      BY <1>4, <1>8, <2>1, SendingIs
    <3>2. Proper(w)
      BY <1>4, <3>1, AsProper DEF Ready
    <3> QED  BY <1>4, <3>1, <3>2
  <2>3. Posted(w.sent) = {m}
    BY <1>4, <2>1, <2>2, FirstSent
  <2>4. Ended(w)
    BY <2>1, <2>3, NoneEnded
  <2> QED  BY <1>1, <1>5, <2>2, <2>4, SameRowsAct
<1> QED  BY <1>5, <1>6, <1>7, <1>8

-----------------------------------------------------------------------------
(* Who comes and goes, again.                                              *)

LEMMA ZoneOutCare ==
  ASSUME PartyAssumption, NoneAssumption, PartyInv, CareInv, ~Hasty, NEW c \in Chars, ZoneOut(c)
  PROVE  CareInv'
<1>1. AtRest /\ server[c] \in Procs /\ toMap' = toMap
  BY ActorIs DEF ZoneOut
<1>2. PICK u : u = World
  OBVIOUS
<1>3. u \in Worlds /\ Proper(u) /\ u.rows = rows /\ u.sent = <<>>
  BY <1>1, <1>2, WorldIs DEF PartyInv, Proper
<1>4. PICK w : Becomes(server[c], w) /\ w = [u EXCEPT !.reload[c] = FALSE]
  BY <1>2 DEF ZoneOut
<1>5. w \in Worlds /\ w.party = u.party /\ w.cparty = u.cparty /\ w.rows = u.rows /\ w.sent = u.sent
  BY <1>3, <1>4, UnmarkedIs
<1>6. Proper(w)
  BY <1>3, <1>5, AsProper
<1>7. Ended(w)
  BY <1>3, <1>5, NoPost, NoneEnded
<1> QED  BY <1>1, <1>3, <1>4, <1>5, <1>6, <1>7, SameRowsAct

LEMMA LogOutCare ==
  ASSUME PartyAssumption, NoneAssumption, PartyInv, CareInv, ~Hasty, NEW c \in Chars, LogOut(c)
  PROVE  CareInv'
<1>1. AtRest /\ server[c] \in Procs /\ toMap' = toMap /\ PartyTypeOK
  BY ActorIs DEF LogOut, PartyInv
<1>2. PICK u, w : /\ Becomes(server[c], w) /\ w = [u EXCEPT !.reload[c] = FALSE]
                  /\ \/ party[c] = None /\ u = World
                     \/ party[c] # None /\ u \in Removed(World, c)
  <2>1. PICK u \in IF party[c] = None THEN {World} ELSE Removed(World, c) :
               Becomes(server[c], [u EXCEPT !.reload[c] = FALSE])
    BY DEF LogOut
  <2> QED  BY <2>1
<1>3. Proper(u)
  BY <1>1, <1>2, LeaverFits, WorldIs
<1>4. /\ w \in Worlds /\ w.party = u.party /\ w.cparty = u.cparty /\ w.rows = u.rows
      /\ w.sent = u.sent /\ w.lost = u.lost
  BY <1>2, <1>3, UnmarkedIs DEF Proper
<1>5. Proper(w)
  BY <1>3, <1>4, AsProper
<1>6. CASE party[c] = None /\ u = World
  <2>1. w.rows = rows /\ w.sent = <<>>
    BY <1>1, <1>4, <1>6, WorldIs
  <2>2. Ended(w)
    BY <2>1, NoPost, NoneEnded
  <2> QED  BY <1>1, <1>2, <1>5, <2>1, <2>2, SameRowsAct
<1>7. CASE party[c] # None /\ u \in Removed(World, c)
  BY <1>1, <1>2, <1>4, <1>5, <1>7, RemovedAct
<1> QED  BY <1>2, <1>6, <1>7

LEMMA DepartCare ==
  ASSUME PartyAssumption, NoneAssumption, PartyInv, CareInv, ~Hasty, NEW c \in Chars, NEW q \in Procs,
         Depart(c, q)
  PROVE  CareInv'
<1>1. PartyTypeOK /\ Homes /\ stage[c] = "zoning" /\ Calm /\ toMap' = toMap
  BY DEF PartyInv, Depart, Unhurried
<1>2. AtRest /\ server[c] \in Procs /\ c \in Chars \ Zone
  BY <1>1, CalmIs DEF Homes, Zone
<1>3. PICK u : u = World
  OBVIOUS
<1>4. Ready(u) /\ u.sent = <<>> /\ u.party = party /\ u.rows = rows /\ Proper(u) /\ u \in Worlds
  BY <1>1, <1>2, <1>3, WorldIs DEF AtRest, Ready, Proper
<1>5. PICK w : /\ Becomes(server[c], w)
               /\ \/ party[c] = None /\ w = u
                  \/ party[c] # None /\ w = Unlinked(u, c)
                  \/ party[c] # None /\ w = Sending(Unlinked(u, c), Reloading(Id(u, c)))
  BY <1>3 DEF Depart
<1>6. CASE w = u
  <2>1. Ended(w)
    BY <1>4, <1>6, NoPost, NoneEnded
  <2> QED  BY <1>2, <1>1, <1>4, <1>5, <1>6, <2>1, SameRowsAct
<1>7. CASE party[c] # None /\ (w = Unlinked(u, c) \/ w = Sending(Unlinked(u, c), Reloading(Id(u, c))))
  <2>1. Proper(w)
    BY <1>2, <1>4, <1>7, DepartedFits
  <2>2. PICK x : x = Unlinked(u, c)
    OBVIOUS
  <2>3. u.party[c] \in Objects /\ u.cparty[u.party[c]] # None /\ Id(u, c) \in Chars
    BY <1>4, <1>7, IdIs
  <2>4. x \in Worlds /\ x.rows = rows /\ x.sent = <<>>
    BY <1>4, <2>2, <2>3, UnlinkedIs
  <2>5. CASE w = x
    <3>1. Ended(w)
      BY <2>4, <2>5, NoPost, NoneEnded
    <3> QED  BY <1>1, <1>2, <1>5, <2>1, <2>4, <2>5, <3>1, SameRowsAct
  <2>6. CASE w = Sending(x, Reloading(Id(u, c)))
    <3>1. PICK m : m = Reloading(Id(u, c))
      OBVIOUS
    <3>2. m \in Message /\ m.type = "Reload"
      BY <2>3, <3>1, ReloadingIs
    <3>3. w.rows = rows /\ Sends(x, w, m)
      BY <2>4, <2>6, <3>1, <3>2, SendingIs
    <3>4. Posted(w.sent) = {m}
      BY <2>4, <3>2, <3>3, FirstSent
    <3>5. Ended(w)
      BY <3>2, <3>4, NoneEnded
    <3> QED  BY <1>1, <1>2, <1>5, <2>1, <3>3, <3>5, SameRowsAct
  <2> QED  BY <1>7, <2>2, <2>5, <2>6
<1> QED  BY <1>5, <1>6, <1>7

LEMMA ZoneInCare ==
  ASSUME PartyAssumption, NoneAssumption, PartyInv, CareInv, ~Hasty, NEW c \in Chars, ZoneIn(c)
  PROVE  CareInv'
<1>1. Calm /\ rows' = rows /\ abandoned' = abandoned /\ toWorld' = toWorld /\ toMap' = toMap
  BY DEF ZoneIn, Unhurried
<1>2. AtRest
  BY <1>1, CalmIs
<1>3. \A d \in Chars : ~Doomed(d)
  BY <1>2, RestIs
<1>4. \A i \in Chars : Announced(i)' => Announced(i)
  BY <1>1 DEF Announced
<1> QED  BY <1>1, <1>3, <1>4, CareKept

LEMMA LogInCare ==
  ASSUME PartyAssumption, NoneAssumption, PartyInv, CareInv, NEW c \in Chars, NEW p \in Procs, LogIn(c, p)
  PROVE  CareInv'
<1>1. /\ server[c] = None /\ server' = [server EXCEPT ![c] = p] /\ stage' = stage
      /\ party' = party /\ cparty' = cparty /\ rows' = rows /\ reload' = reload
      /\ toWorld' = toWorld /\ toMap' = toMap /\ abandoned' = abandoned
  BY DEF LogIn
<1>2. c \notin Zone /\ \A d \in Chars \ {c} : server'[d] = server[d]
  BY <1>1, Kept DEF PartyInv, Homes, Zone, PartyAssumption
<1>3. Zone' = Zone
  BY <1>1 DEF Zone
<1>4. \A d \in Chars : Doomed(d) => Doomed(d)'
  <2>1. SUFFICES ASSUME NEW d \in Chars, Doomed(d) PROVE Doomed(d)'
    OBVIOUS
  <2>2. d \in Zone /\ server'[d] = server[d]
    BY <1>2, <2>1 DEF Doomed
  <2>3. World' = World
    BY <1>1 DEF World
  <2>4. Id(World, d)' = Id(World, d)
    BY <2>3 DEF Id
  <2> QED  BY <1>1, <1>3, <2>1, <2>2, <2>4 DEF Doomed
<1>5. \A i \in Chars : Announced(i)' => Announced(i)
  BY <1>1 DEF Announced
<1> QED  BY <1>1, <1>4, <1>5, CareKept

LEMMA QuitCare ==
  ASSUME PartyAssumption, NoneAssumption, PartyInv, CareInv, NEW c \in Chars, Quit(c)
  PROVE  CareInv'
<1>1. PartyTypeOK /\ Homes /\ Sound(World) /\ stage[c] = "quitting" /\ server[c] \in Procs
  BY DEF PartyInv, Quit, Homes
<1>2. /\ server' = [server EXCEPT ![c] = None] /\ stage' = [stage EXCEPT ![c] = "away"]
      /\ toMap' = toMap
  BY DEF Quit, Closed
<1>3. Zone' = Zone /\ \A d \in Zone : server'[d] = server[d]
  BY <1>1, <1>2, Kept DEF Zone
<1>4. PICK w : w = World
  OBVIOUS
<1>5. /\ w \in Worlds /\ w.party = party /\ w.rows = rows /\ w.cparty = cparty /\ w.reload = reload
      /\ w.sent = <<>> /\ Hosted(w) /\ Proper(w)
  BY <1>1, <1>4, WorldIs DEF Sound, Proper
<1>6. w.rows[c] = None
  BY <1>1, <1>5 DEF Hosted
<1>7. PICK v : Becomes(server[c], v) /\ v = Without(w, {c})
  BY <1>4 DEF Quit
<1>8. /\ v \in Worlds /\ v.party = w.party /\ v.cparty = w.cparty /\ v.sent = w.sent
      /\ \A d \in Chars : v.rows[d] = w.rows[d]
  BY <1>5, <1>6, <1>7, WithoutIs
<1>9. v.rows = w.rows /\ Proper(v)
  BY <1>5, <1>8, AsProper DEF Worlds
<1>10. \A q \in Procs : Posted(toWorld'[q]) = Posted(toWorld[q])
  <2>1. Posted(v.sent) = {}
    BY <1>5, <1>8, NoPost
  <2>2. PICK p : p = server[c]
    OBVIOUS
  <2>3. PartyTypeOK /\ p \in Procs /\ Proper(v) /\ Becomes(p, v)
    BY <1>1, <1>7, <1>9, <2>2
  <2>4. \A q \in Procs : Posted(toWorld'[q]) = Posted(toWorld[q]) \cup (IF q = p THEN Posted(v.sent) ELSE {})
    BY <2>3, SentIs
  <2> QED  BY <2>1, <2>4
<1>11. rows' = v.rows /\ abandoned' = Abandoned(v) /\ party' = party /\ cparty' = cparty /\ rows' = rows
  BY <1>5, <1>7, <1>8, <1>9 DEF Becomes
<1>12. PICK T : T = AllDoomed
  OBVIOUS
<1>13. Cared(w, abandoned, T) /\ abandoned \in SUBSET Chars
  BY <1>1, <1>4, <1>12 DEF CareInv, PartyTypeOK
<1>14. Heeded(v, abandoned, T)
  BY <1>5, <1>9, <1>13, SameRowsHeed
<1>15. \A d \in Chars : Doomed(d) => Doomed(d)'
  <2>1. SUFFICES ASSUME NEW d \in Chars, Doomed(d) PROVE Doomed(d)'
    OBVIOUS
  <2>2. d \in Zone /\ server'[d] = server[d]
    BY <1>3, <2>1 DEF Doomed
  <2>3. Id(World, d)' = Id(World, d)
    BY <1>11 DEF Id, World
  <2> QED  BY <1>2, <1>3, <1>10, <1>11, <2>1, <2>2, <2>3 DEF Doomed
<1>16. \A d \in T : d \in Chars /\ v.rows[d] # None => Doomed(d)'
  BY <1>12, <1>15 DEF AllDoomed
<1>17. \A i \in Chars : Announced(i)' => Announced(i)
  BY <1>2, <1>10 DEF Announced
<1>18. \A i \in Chars : Announced(i)' => ~LedIn(v, i)
  <2>1. SUFFICES ASSUME NEW i \in Chars, Announced(i)' PROVE ~LedIn(v, i)
    OBVIOUS
  <2>2. ~LedIn(World, i)
    BY <1>17, <2>1 DEF CareInv
  <2> QED  BY <1>4, <1>9, <2>2 DEF LedIn
<1> QED  BY <1>8, <1>11, <1>14, <1>16, <1>18, CareStep

\* Who times out has nobody left, or an heir, or those it leaves are lost.
LEMMA TimedOutCuts ==
  ASSUME PartyAssumption, NoneAssumption, AtRest, PartyTypeOK, NEW c \in Chars,
         NEW u, u = Without(World, {c}),
         NEW v, \/ party[c] = None /\ v = u
                \/ party[c] # None /\ v \in Removed(u, c),
         NEW z, z.rows = v.rows, z.sent = v.sent, v.lost \subseteq z.lost,
         party[c] = None \/ ~(stage[c] = "in" \/ LeadsIn(World, c)) => Orphans(World, c) \subseteq z.lost
  PROVE  Ended(z) /\ \E i, d \in Chars, X \in SUBSET Chars : Cuts(World, z, i, d, X, {})
<1>1. PICK w : w = World
  OBVIOUS
<1>2. /\ Proper(w) /\ w \in Worlds /\ Leads(w, {}) /\ Settled(w, Zone)
      /\ w.sent = <<>> /\ w.party = party
  BY <1>1, WorldIs DEF AtRest, Ready, Proper
<1>3. /\ u \in Worlds /\ u.party = w.party /\ u.cparty = w.cparty /\ u.sent = w.sent
      /\ \A d \in Chars : u.rows[d] = IF d = c THEN None ELSE w.rows[d]
  BY <1>1, <1>2, WithoutIs
<1>4. LedIn(w, c) => Orphans(w, c) = RowsOf(w, c) \ {c}
  BY <1>2 DEF LedIn, Leads, FlagIsId, Orphans
<1>5. CASE party[c] = None /\ v = u
  <2>1. Moves(w, z, c, c, {c})
    BY <1>3, <1>5 DEF Moves
  <2>2. LedIn(w, c) => RowsOf(z, c) \subseteq z.lost
    <3>1. LedIn(w, c) => Orphans(w, c) \subseteq z.lost
      BY <1>1, <1>5
    <3>2. RowsOf(z, c) \subseteq RowsOf(w, c) \ {c}
      <4>1. \A g \in Chars : z.rows[g] = IF g = c THEN None ELSE w.rows[g]
        BY <1>3, <1>5
      <4> QED  BY <4>1 DEF RowsOf
    <3> QED  BY <1>4, <3>1, <3>2
  <2>3. Cuts(w, z, c, c, {c}, {})
    BY <2>1, <2>2 DEF Cuts
  <2>4. Ended(z)
    BY <1>2, <1>3, <1>5, NoPost, NoneEnded
  <2>5. {c} \in SUBSET Chars
    OBVIOUS
  <2> QED  BY <1>1, <2>3, <2>4, <2>5
<1>6. CASE party[c] # None /\ v \in Removed(u, c)
  <2>1. Proper(u) /\ u.party[c] # None /\ u.sent = <<>>
    BY <1>2, <1>3, <1>6, AsProper
  <2>2. Leads(u, {c})
    BY <1>2, <1>3, WithoutLeads DEF Forgets
  <2>3. PICK i, d \in Chars, X \in SUBSET Chars : c \in X /\ Cuts(u, v, i, d, X, {})
    BY <1>6, <2>1, <2>2, RemovedCuts
  <2>4. (LeadsIn(u, c) => RowsOf(v, c) = {}) /\ Ended(v)
    BY <1>6, <2>1, <2>2, RemovedCuts
  <2>5. Ended(z)
    BY <2>4 DEF Ended, LedIn
  <2>6. Moves(w, z, i, d, X)
    <3>1. Moves(u, v, i, d, X)
      BY <2>3 DEF Cuts
    <3>2. \A g \in Chars : z.rows[g] = v.rows[g] /\ (g \in X \/ u.rows[g] = w.rows[g])
      BY <1>3, <2>3
    <3>3. SUFFICES ASSUME NEW g \in Chars
                   PROVE  IF g \in X \/ w.rows[g] = None THEN z.rows[g] = None
                          ELSE /\ z.rows[g] # None
                               /\ z.rows[g].party = IF w.rows[g].party = i THEN d ELSE w.rows[g].party
      BY DEF Moves
    <3>4. IF g \in X \/ u.rows[g] = None THEN v.rows[g] = None
          ELSE /\ v.rows[g] # None
               /\ v.rows[g].party = IF u.rows[g].party = i THEN d ELSE u.rows[g].party
      BY <3>1 DEF Moves
    <3>5. CASE g \in X
      BY <3>2, <3>4, <3>5
    <3>6. CASE g \notin X
      BY <3>2, <3>4, <3>6
    <3> QED  BY <3>5, <3>6
  <2>7. i # d => d \in RowsOf(w, i) \ X
    BY <1>3, <2>3 DEF Cuts, RowsOf
  <2>8. RowsOf(z, c) = RowsOf(v, c)
    BY DEF RowsOf
  <2>9. ASSUME NEW x \in X, LedIn(w, x), x = i => i = d
        PROVE  RowsOf(z, x) \subseteq z.lost
    <3>1. CASE x # c
      <4>1. LedIn(u, x)
        BY <1>3, <2>9, <3>1 DEF LedIn
      <4>2. RowsOf(v, x) \subseteq v.lost
        BY <2>3, <2>9, <4>1 DEF Cuts
      <4> QED  BY <4>2 DEF RowsOf
    <3>2. CASE x = c /\ LeadsIn(w, c)
      <4>1. LeadsIn(u, c)
        BY <1>3, <3>2 DEF LeadsIn
      <4> QED  BY <2>4, <2>8, <3>2, <4>1
    <3>3. CASE x = c /\ ~LeadsIn(w, c)
      <4>1. stage[c] # "in"
        <5>1. SUFFICES ASSUME c \in Zone PROVE FALSE
          BY DEF Zone
        <5>2. w.rows[c] # None /\ w.rows[c].party = c
          BY <2>9, <3>3 DEF LedIn
        <5>3. w.party[c] # None /\ Id(w, c) = c
          BY <1>2, <5>1, <5>2 DEF Settled
        <5> QED  BY <1>2, <3>3, <5>3 DEF Leads, KnowsLeader, LeadsIn
      <4>2. Orphans(w, c) \subseteq z.lost
        BY <1>1, <3>3, <4>1
      <4>3. RowsOf(z, c) \subseteq RowsOf(w, c) \ {c}
        <5>1. \A g \in RowsOf(z, c) : g \in Chars /\ z.rows[g] # None /\ z.rows[g].party = c
          BY DEF RowsOf
        <5>2. \A g \in RowsOf(z, c) : /\ g \notin X /\ g # c /\ w.rows[g] # None
                                      /\ c = IF w.rows[g].party = i THEN d ELSE w.rows[g].party
          BY <2>3, <2>6, <5>1 DEF Moves
        <5>3. i # d => d # c
          BY <2>3, <2>7
        <5> QED  BY <5>1, <5>2, <5>3 DEF RowsOf
      <4> QED  BY <1>4, <2>9, <3>3, <4>2, <4>3
    <3> QED  BY <3>1, <3>2, <3>3
  <2>10. Cuts(w, z, i, d, X, {})
    BY <2>6, <2>7, <2>9 DEF Cuts
  <2> QED  BY <1>1, <2>5, <2>10
<1> QED  BY <1>5, <1>6

LEMMA TimeOutCare ==
  ASSUME PartyAssumption, NoneAssumption, PartyInv, CareInv, ~Hasty, NEW c \in Chars, TimeOut(c)
  PROVE  CareInv'
<1>1. PartyTypeOK /\ Homes /\ server[c] # None /\ Calm /\ toMap' = toMap
  BY DEF PartyInv, TimeOut, Unhurried, Closed
<1>2. AtRest /\ server[c] \in Procs
  BY <1>1, CalmIs, Kept
<1>3. PICK u : u = Without(World, {c})
  OBVIOUS
<1>4. PICK O : O = Orphans(World, c)
  OBVIOUS
<1> DEFINE Aside == ~(stage[c] = "in" \/ LeadsIn(World, c))
<1>5. \E v, w, L : /\ Becomes(server[c], w)
                   /\ \/ party[c] = None /\ v = u /\ L = O
                      \/ party[c] # None /\ v \in Removed(u, c) /\ L = v.lost \cup IF Aside THEN O ELSE {}
                   /\ w = [v EXCEPT !.reload[c] = FALSE, !.lost = L]
  <2>1. CASE party[c] # None
    <3>1. PICK v \in Removed(u, c) :
             Becomes(server[c], [v EXCEPT
                  !.reload[c] = FALSE,
                  !.lost = @ \cup IF stage[c] = "in" \/ LeadsIn(World, c) THEN {} ELSE O])
      BY <1>3, <1>4, <2>1 DEF TimeOut
    <3>2. \E L : /\ L = v.lost \cup IF stage[c] = "in" \/ LeadsIn(World, c) THEN {} ELSE O
                 /\ Becomes(server[c], [v EXCEPT !.reload[c] = FALSE, !.lost = L])
      BY <3>1
    <3>3. PICK L : /\ L = v.lost \cup IF stage[c] = "in" \/ LeadsIn(World, c) THEN {} ELSE O
                   /\ Becomes(server[c], [v EXCEPT !.reload[c] = FALSE, !.lost = L])
      BY <3>2
    <3>4. L = v.lost \cup IF Aside THEN O ELSE {}
      BY <3>3
    <3> QED  BY <2>1, <3>3, <3>4
  <2>2. CASE party[c] = None
    <3>1. Becomes(server[c], [u EXCEPT !.reload[c] = FALSE, !.lost = O])
      BY <1>3, <1>4, <2>2 DEF TimeOut
    <3> QED  BY <2>2, <3>1
  <2> QED  BY <2>1, <2>2
<1>6. PICK v, w, L :
         /\ Becomes(server[c], w)
         /\ \/ party[c] = None /\ v = u /\ L = O
            \/ party[c] # None /\ v \in Removed(u, c) /\ L = v.lost \cup IF Aside THEN O ELSE {}
         /\ w = [v EXCEPT !.reload[c] = FALSE, !.lost = L]
  BY <1>5
<1>7. Proper(v)
  BY <1>1, <1>2, <1>3, <1>6, TimedOutFits
<1>8. v \in Worlds /\ L \in SUBSET Chars
  BY <1>4, <1>6, <1>7 DEF Proper, Worlds, Orphans, RowsOf
<1>9. PICK x : x = [v EXCEPT !.reload[c] = FALSE]
  OBVIOUS
<1>10. /\ x \in Worlds /\ x.party = v.party /\ x.cparty = v.cparty /\ x.rows = v.rows
       /\ x.sent = v.sent
  BY <1>8, <1>9, UnmarkedIs
<1>11. w = [x EXCEPT !.lost = L]
  BY <1>6, <1>8, <1>9 DEF Worlds
<1>12. /\ w \in Worlds /\ w.party = v.party /\ w.cparty = v.cparty /\ w.rows = v.rows
       /\ w.sent = v.sent /\ w.lost = L
  BY <1>8, <1>10, <1>11, LosingIs
<1>13. Proper(w)
  BY <1>7, <1>12, AsProper
<1>14. v.lost \subseteq w.lost
  <2>1. u.lost = {}
    BY <1>1, <1>3, WithoutIs, WorldIs DEF Proper
  <2> QED  BY <1>6, <1>12, <2>1
<1>15. party[c] = None \/ Aside => O \subseteq w.lost
  BY <1>6, <1>12
<1>16. Ended(w) /\ \E i, d \in Chars, X \in SUBSET Chars : Cuts(World, w, i, d, X, {})
  <2>1. party[c] = None \/ ~(stage[c] = "in" \/ LeadsIn(World, c)) => Orphans(World, c) \subseteq w.lost
    BY <1>4, <1>15
  <2>2. \/ party[c] = None /\ v = u
        \/ party[c] # None /\ v \in Removed(u, c)
    BY <1>6
  <2> HIDE DEF Aside
  <2> QED  BY <1>1, <1>2, <1>3, <1>12, <1>14, <2>1, <2>2, TimedOutCuts
<1>17. PICK i, d \in Chars, X \in SUBSET Chars : Cuts(World, w, i, d, X, {})
  BY <1>16
<1> HIDE DEF Aside
<1> QED  BY <1>1, <1>2, <1>6, <1>13, <1>16, <1>17, CutsAct

LEMMA CrashCare ==
  ASSUME PartyAssumption, NoneAssumption, PartyInv, CareInv, ~Hasty, NEW p \in Procs, Crash(p)
  PROVE  CareInv'
<1>1. PartyTypeOK /\ Calm
  BY DEF PartyInv, Crash, Unhurried
<1>2. AtRest
  BY <1>1, CalmIs
<1>3. PICK gone : gone = {c \in Chars : server[c] = p}
  OBVIOUS
<1>4. PICK u : u = World
  OBVIOUS
<1>5. /\ u \in Worlds /\ Leads(u, {}) /\ Cared(u, abandoned, {}) /\ abandoned \in SUBSET Chars
  BY <1>1, <1>2, <1>4, RestIs DEF AtRest, Ready, Proper, PartyTypeOK
<1>6. PICK L : L = UNION {Orphans(u, c) : c \in gone}
  OBVIOUS
<1>7. PICK w : w = [Without(u, gone) EXCEPT !.lost = L]
  OBVIOUS
<1>8. rows' = w.rows /\ abandoned' = Abandoned(w)
  BY <1>3, <1>4, <1>6, <1>7 DEF Crash
<1>9. toWorld' = [toWorld EXCEPT ![p] = <<>>] /\ toMap' = [toMap EXCEPT ![p] = <<>>]
  BY DEF Crash
<1>10. L \in SUBSET Chars
  <2>1. \A c \in gone : Orphans(u, c) \subseteq Chars
    BY DEF Orphans, RowsOf
  <2> QED  BY <1>6, <2>1
<1>11. PICK v : v = Without(u, gone)
  OBVIOUS
<1>12. v \in Worlds /\ \A d \in Chars : v.rows[d] = IF d \in gone THEN None ELSE u.rows[d]
  BY <1>5, <1>11, WithoutIs
<1>13. w \in Worlds /\ w.lost = L /\ \A d \in Chars : w.rows[d] = IF d \in gone THEN None ELSE u.rows[d]
  BY <1>7, <1>10, <1>11, <1>12, LosingIs
<1>14. Heeded(w, abandoned, {})
  <2>1. CASE gone = {}
    <3>1. w.rows = u.rows
      BY <1>5, <1>13, <2>1 DEF Worlds
    <3> QED  BY <1>5, <3>1, SameRowsHeed
  <2>2. CASE gone # {}
    <3>1. PICK i \in gone : i \in Chars
      BY <1>3, <2>2
    <3>2. Moves(u, w, i, i, gone)
      BY <1>13 DEF Moves
    <3>3. ASSUME NEW x \in gone, LedIn(u, x)
          PROVE  RowsOf(w, x) \subseteq L
      <4>1. Orphans(u, x) = RowsOf(u, x) \ {x}
        BY <1>3, <1>5, <3>3 DEF LedIn, Leads, FlagIsId, Orphans
      <4>2. Orphans(u, x) \subseteq L
        BY <1>6
      <4>3. RowsOf(w, x) \subseteq RowsOf(u, x) \ {x}
        BY <1>13 DEF RowsOf
      <4> QED  BY <4>1, <4>2, <4>3
    <3>4. Cuts(u, w, i, i, gone, {})
      BY <1>13, <3>2, <3>3 DEF Cuts
    <3> QED  BY <1>5, <3>1, <3>4, CutsHeed
  <2> QED  BY <2>1, <2>2
<1>15. \A q \in Procs : toWorld'[q] = <<>> /\ toMap'[q] = <<>>
  BY <1>1, <1>2, <1>9 DEF AtRest, PartyTypeOK
<1>16. \A i \in Chars : ~Announced(i)'
  BY <1>15, NoPost DEF Announced
<1> QED  BY <1>8, <1>13, <1>14, <1>16, CareStep

-----------------------------------------------------------------------------
(* Ticks, again.                                                           *)

\* An update keeps the rows, and nobody who has one loses its copy.
LEMMA UpToDateKeeps ==
  ASSUME PartyAssumption, NoneAssumption, NEW w, Sound(w), NEW c \in Zone, w.reload[c], NEW v \in UpToDate(w, c)
  PROVE  /\ v.rows = w.rows /\ v.lost = w.lost
         /\ \A d \in Chars : w.party[d] # None /\ w.rows[d] # None => v.party[d] = w.party[d]
         /\ v.party[c] # None => v.rows[c] # None /\ Id(v, c) = v.rows[c].party
<1>1. c \in Chars /\ Proper(w) /\ w \in Worlds
  BY DEF Zone, Sound, Proper
<1>2. CASE w.rows[c] # None /\ w.party[c] # None
  <2>1. PICK o : o = w.party[c]
    OBVIOUS
  <2>2. PICK i : i = w.rows[c].party
    OBVIOUS
  <2>3. o \in Objects /\ w.cparty[o] # None /\ i \in Chars
    BY <1>1, <1>2, <2>1, <2>2, IdIs, RowIs
  <2>4. PICK u : u = [w EXCEPT !.cparty[o].id = i]
    OBVIOUS
  <2>5. /\ u \in Worlds /\ u.party = w.party /\ u.rows = w.rows /\ u.lost = w.lost
        /\ u.cparty[o] # None /\ u.cparty[o].id = i
    BY <1>1, <2>3, <2>4, RenamedIs
  <2>6. v = Refreshed(u, u.party[c])
    BY <1>2, <2>1, <2>2, <2>4 DEF UpToDate
  <2>7. v = Refreshed(u, o)
    BY <2>1, <2>5, <2>6
  <2>8. v.party = u.party /\ v.rows = u.rows /\ v.lost = u.lost /\ v.cparty[o].id = i
    BY <2>3, <2>5, <2>7, RefreshedIs
  <2> QED  BY <1>2, <2>1, <2>2, <2>5, <2>8 DEF Id
<1>3. CASE w.rows[c] # None /\ w.party[c] = None
  <2>1. PICK u \in Pushed(w, c) : v = Refreshed(u, u.party[c])
    BY <1>3 DEF UpToDate
  <2>2. \A d \in Chars : w.party[d] # None => w.cparty[w.party[d]] # None
    BY <1>1 DEF Proper
  <2>3. PICK o \in Objects :
           /\ u \in Worlds /\ u.rows = w.rows /\ u.lost = w.lost
           /\ u.party[c] = o /\ \A d \in Chars \ {c} : u.party[d] = w.party[d]
           /\ u.cparty[o] # None /\ u.cparty[o].id = w.rows[c].party
    BY <1>1, <1>3, <2>1, <2>2, PushedIs
  <2>4. v.party = u.party /\ v.rows = u.rows /\ v.lost = u.lost /\ v.cparty[o].id = u.cparty[o].id
    BY <2>1, <2>3, RefreshedIs
  <2> QED  BY <1>3, <2>3, <2>4 DEF Id
<1>4. CASE w.rows[c] = None
  <2>1. PICK u \in IF w.party[c] # None THEN Deleted(w, c) ELSE {w} : v = [u EXCEPT !.reload[c] = FALSE]
    BY <1>4 DEF UpToDate
  <2>2. /\ u \in Worlds /\ u.rows = w.rows /\ u.lost = w.lost /\ u.party[c] = None
        /\ \A d \in Chars \ {c} : u.party[d] = w.party[d]
    <3>1. CASE w.party[c] = None
      BY <1>1, <2>1, <3>1
    <3>2. CASE w.party[c] # None
      <4>1. PICK o : o = w.party[c]
        OBVIOUS
      <4>2. o \in Objects /\ w.cparty[o] # None /\ o # None /\ None \notin Chars
        BY <1>1, <3>2, <4>1, IdIs DEF PartyAssumption
      <4>3. ~LeadsIn(w, c)
        <5>1. SUFFICES ASSUME w.cparty[o].leader = c PROVE FALSE
          BY <4>1 DEF LeadsIn
        <5>2. Id(w, c) = c
          BY <1>1, <3>2, <4>1, <5>1, LeaderIsMember DEF Sound, Leads
        <5> QED  BY <1>1, <1>4, <3>2, <5>2 DEF Sound, Leads, LeadersAreIn
      <4>4. PICK x : x = Unlinked(w, c)
        OBVIOUS
      <4>5. u = IF x.cparty[o] = None THEN x ELSE Refreshed(x, o)
        BY <2>1, <3>2, <4>1, <4>3, <4>4 DEF Deleted
      <4>6. /\ x \in Worlds /\ x.rows = w.rows /\ x.lost = w.lost
            /\ x.party[c] = None /\ \A d \in Chars \ {c} : x.party[d] = w.party[d]
        BY <1>1, <4>1, <4>2, <4>4, UnlinkedIs
      <4>7. CASE x.cparty[o] = None
        BY <4>5, <4>6, <4>7
      <4>8. CASE x.cparty[o] # None
        BY <4>2, <4>5, <4>6, <4>8, RefreshedIs
      <4> QED  BY <4>7, <4>8
    <3> QED  BY <3>1, <3>2
  <2>3. v.party = u.party /\ v.rows = u.rows /\ v.lost = u.lost
    BY <1>1, <2>1, <2>2, UnmarkedIs
  <2> QED  BY <1>4, <2>2, <2>3
<1> QED  BY <1>2, <1>3, <1>4

\* Who is doomed stays so as long as it has its row and its copy.
LEMMA StillDoomed ==
  ASSUME PartyTypeOK, NEW p \in Procs, NEW w, Proper(w), Becomes(p, w),
         server' = server, stage' = stage, NEW d \in Chars, Doomed(d),
         w.rows[d] # None, w.rows[d].party = rows[d].party,
         w.party[d] # None, Id(w, d) = rows[d].party,
         Disbanding(rows[d].party) \in Posted(toMap[server[d]])
           => Disbanding(rows[d].party) \in Posted(toMap'[server[d]])
  PROVE  Doomed(d)'
<1>1. PICK m : m = Disbanding(rows[d].party)
  OBVIOUS
<1>2. \A q \in Procs : m \in Posted(toWorld[q]) => m \in Posted(toWorld'[q])
  BY SentIs
<1>3. party' = w.party /\ rows' = w.rows /\ cparty' = w.cparty
  BY DEF Becomes
<1>4. Id(World, d)' = Id(w, d)
  BY <1>3 DEF Id, World
<1>5. d \in Zone' /\ rows'[d].party = rows[d].party
  BY <1>3 DEF Doomed, Zone
<1>6. (\E q \in Procs : m \in Posted(toWorld[q])) \/ m \in Posted(toMap[server[d]])
  BY <1>1 DEF Doomed
<1>7. (\E q \in Procs : m \in Posted(toWorld'[q])) \/ m \in Posted(toMap'[server'[d]])
  BY <1>1, <1>2, <1>6
<1>8. m = Disbanding(rows'[d].party)
  BY <1>1, <1>5
<1> QED  BY <1>3, <1>4, <1>5, <1>7, <1>8 DEF Doomed

\* No end is announced but by the handler.
LEMMA NewlyAnnounced ==
  ASSUME PartyTypeOK, NEW p \in Procs, NEW w, Proper(w), Becomes(p, w),
         \A q \in Procs : Posted(toMap'[q]) \subseteq Posted(toMap[q])
  PROVE  \A i \in Chars : Announced(i)' => Announced(i) \/ Disbanding(i) \in Posted(w.sent)
<1>1. \A q \in Procs : Posted(toWorld'[q]) \subseteq Posted(toWorld[q]) \cup Posted(w.sent)
  BY SentIs
<1> QED  BY <1>1 DEF Announced

LEMMA TickCare ==
  ASSUME PartyAssumption, NoneAssumption, PartyInv, CareInv, NEW c \in Chars, Tick(c)
  PROVE  CareInv'
<1>1. PartyTypeOK /\ Homes /\ Sound(World) /\ stage[c] = "in" /\ reload[c]
  BY DEF PartyInv, Tick
<1>2. PICK p : p = server[c]
  OBVIOUS
<1>3. p \in Procs /\ c \in Zone
  BY <1>1, <1>2 DEF Homes, Zone
<1>4. server' = server /\ stage' = stage /\ toMap' = toMap
  BY DEF Tick
<1>5. PICK r : r = World
  OBVIOUS
<1>6. PICK u, w : /\ u \in UpToDate(r, c) /\ Becomes(p, w)
                  /\ w = IF Alone(u, c) THEN Disbanded(u, u.party[c], TRUE) ELSE u
  <2>1. PICK u \in UpToDate(r, c) :
               Becomes(p, IF Alone(u, c) THEN Disbanded(u, u.party[c], TRUE) ELSE u)
    BY <1>2, <1>5 DEF Tick
  <2> QED  BY <2>1
<1>7. /\ r.reload[c] /\ r.sent = <<>> /\ r.party = party /\ r.rows = rows /\ Sound(r) /\ r \in Worlds
      /\ Proper(r)
  BY <1>1, <1>5, WorldIs DEF Proper
<1>8. Sound(u) /\ Advances(r, u) /\ u.sent = <<>> /\ Proper(u) /\ u \in Worlds
  BY <1>3, <1>6, <1>7, UpToDateSound DEF Sound, Proper
<1>9. /\ u.rows = rows
      /\ \A d \in Chars : party[d] # None /\ rows[d] # None => u.party[d] = party[d]
      /\ u.party[c] # None => u.rows[c] # None /\ Id(u, c) = u.rows[c].party
  BY <1>3, <1>6, <1>7, UpToDateKeeps
<1>10. PICK T : T = AllDoomed
  OBVIOUS
<1>11. Cared(r, abandoned, T) /\ abandoned \in SUBSET Chars /\ \A d \in T : d \in Chars /\ Doomed(d)
  BY <1>1, <1>5, <1>10 DEF CareInv, PartyTypeOK, AllDoomed
<1>12. ASSUME NEW d \in T
       PROVE  u.party[d] = party[d] /\ party[d] # None /\ rows[d] # None /\ Id(u, d) = rows[d].party
  <2>1. d \in Zone /\ party[d] # None /\ rows[d] # None /\ Id(r, d) = rows[d].party
    BY <1>5, <1>11 DEF Doomed
  <2>2. ~Stale(r, d)
    BY <1>7, <2>1 DEF Stale
  <2>3. ~Stale(u, d)
    BY <1>8, <2>1, <2>2 DEF Advances
  <2> QED  BY <1>9, <1>11, <2>1, <2>3 DEF Stale
<1>13. \A q \in Procs : Posted(toMap'[q]) \subseteq Posted(toMap[q])
  BY <1>4
<1>14. CASE ~Alone(u, c)
  <2>1. w = u
    BY <1>6, <1>14
  <2>2. Heeded(w, abandoned, T)
    BY <1>7, <1>9, <1>11, <2>1, SameRowsHeed
  <2>3. \A d \in T : Doomed(d)'
    <3>1. SUFFICES ASSUME NEW d \in T PROVE Doomed(d)'
      OBVIOUS
    <3>2. d \in Chars /\ Doomed(d) /\ Proper(w) /\ Becomes(p, w)
      BY <1>6, <1>8, <1>11, <2>1
    <3>3. /\ w.rows[d] # None /\ w.rows[d].party = rows[d].party
          /\ w.party[d] # None /\ Id(w, d) = rows[d].party
      BY <1>9, <1>12, <2>1
    <3> QED  BY <1>1, <1>3, <1>4, <3>3, <3>2, StillDoomed
  <2>4. \A i \in Chars : Announced(i)' => ~LedIn(w, i)
    <3>1. SUFFICES ASSUME NEW i \in Chars, Announced(i)' PROVE ~LedIn(w, i)
      OBVIOUS
    <3>2. Announced(i)
      <4>1. Disbanding(i) \notin Posted(w.sent)
        BY <1>8, <2>1, NoPost
      <4> QED  BY <1>1, <1>3, <1>6, <1>8, <1>13, <2>1, <3>1, <4>1, NewlyAnnounced
    <3>3. ~LedIn(r, i)
      BY <1>5, <3>2 DEF CareInv
    <3> QED  BY <1>7, <1>9, <2>1, <3>3 DEF LedIn
  <2>5. rows' = w.rows /\ abandoned' = Abandoned(w) /\ w \in Worlds
    BY <1>6, <1>8, <2>1 DEF Becomes
  <2> QED  BY <2>2, <2>3, <2>4, <2>5, CareStep
<1>15. CASE Alone(u, c)
  <2>1. PICK o : o = u.party[c]
    OBVIOUS
  <2>2. o \in Objects /\ o # None /\ u.cparty[o] # None /\ Id(u, c) = u.cparty[o].id /\ Id(u, c) \in Chars
    BY <1>3, <1>8, <1>15, <2>1, IdIs DEF Alone, Zone
  <2>3. PICK i : i = Id(u, c)
    OBVIOUS
  <2>4. c \in Chars /\ i \in Chars /\ u.rows[c] # None /\ u.rows[c].party = i
    BY <1>3, <1>9, <2>1, <2>2, <2>3 DEF Zone
  <2>5. \A d \in Chars : u.party[d] = o <=> d = c
    BY <1>15, <2>1, <2>4 DEF Alone, Members
  <2>6. RowsOf(u, i) = {c}
    <3>1. Cardinality(RowsOf(u, i)) = 1 /\ c \in RowsOf(u, i)
      BY <1>15, <2>3, <2>4 DEF Alone, RowsOf
    <3>2. IsFiniteSet(RowsOf(u, i))
      <4>1. RowsOf(u, i) \in SUBSET Chars /\ IsFiniteSet(Chars)
        BY DEF RowsOf, PartyAssumption
      <4> QED  BY <4>1, FS_Subset
    <3>3. PICK x : RowsOf(u, i) = {x}
      BY <3>1, <3>2, FS_Singleton
    <3> QED  BY <3>1, <3>3
  <2>7. DisbandedAs(u, o, w) /\ Sends(u, w, Disbanding(i))
    BY <1>6, <1>8, <1>15, <2>1, <2>2, <2>3, DisbandedIs
  <2>8. Proper(w) /\ w \in Worlds
    BY <1>8, <2>2, <2>7, DisbandedIsProper DEF DisbandedAs
  <2>9. \A d \in Chars : w.rows[d] = IF d = c THEN None ELSE r.rows[d]
    BY <1>7, <1>9, <2>5, <2>7 DEF DisbandedAs
  <2>10. RowsOf(w, i) = {}
    BY <1>7, <1>9, <2>6, <2>9 DEF RowsOf
  <2>11. Moves(r, w, i, i, {c})
    BY <2>9 DEF Moves
  <2>12. \A x \in {c} : LedIn(r, x) => RowsOf(w, x) = {}
    BY <1>7, <1>9, <2>4, <2>10 DEF LedIn
  <2>13. Cuts(r, w, i, i, {c}, T)
    BY <2>11, <2>12 DEF Cuts
  <2>14. Heeded(w, abandoned, T)
    BY <1>7, <1>11, <2>4, <2>13, CutsHeed
  <2>15. \A d \in T : d \in Chars /\ w.rows[d] # None => Doomed(d)'
    <3>1. SUFFICES ASSUME NEW d \in T, d \in Chars, w.rows[d] # None PROVE Doomed(d)'
      OBVIOUS
    <3>2. d # c /\ w.rows[d] = rows[d]
      BY <1>7, <2>9, <3>1
    <3>3. u.party[d] = party[d] /\ party[d] # None /\ Id(u, d) = rows[d].party
      BY <1>12
    <3>4. w.party[d] = u.party[d] /\ u.party[d] # o
      BY <2>5, <2>7, <3>1, <3>2 DEF DisbandedAs
    <3>5. u.party[d] \in Objects
      BY <1>8, <3>1, <3>3, IdIs
    <3>6. Id(w, d) = Id(u, d)
      BY <2>7, <3>4, <3>5 DEF Id, DisbandedAs, OthersKept
    <3> QED  BY <1>1, <1>3, <1>4, <1>6, <1>11, <2>8, <3>1, <3>2, <3>3, <3>4, <3>6, StillDoomed
  <2>16. \A j \in Chars : Announced(j)' => ~LedIn(w, j)
    <3>1. SUFFICES ASSUME NEW j \in Chars, Announced(j)' PROVE ~LedIn(w, j)
      OBVIOUS
    <3>2. Announced(j) \/ Disbanding(j) \in Posted(w.sent)
      BY <1>1, <1>3, <1>6, <1>13, <2>8, <3>1, NewlyAnnounced
    <3>3. CASE Announced(j)
      <4>1. ~LedIn(r, j)
        BY <1>5, <3>3 DEF CareInv
      <4> QED  BY <2>9, <4>1 DEF LedIn
    <3>4. CASE Disbanding(j) \in Posted(w.sent)
      <4>1. Posted(w.sent) = {Disbanding(i)}
        BY <1>8, <2>4, <2>7, FirstSent, DisbandingIs
      <4>2. j = i
        BY <2>4, <3>4, <4>1, DisbandingIs
      <4> QED  BY <2>10, <4>2 DEF LedIn, RowsOf
    <3> QED  BY <3>2, <3>3, <3>4
  <2>17. rows' = w.rows /\ abandoned' = Abandoned(w)
    BY <1>6 DEF Becomes
  <2> QED  BY <2>8, <2>14, <2>15, <2>16, <2>17, CareStep
<1> QED  BY <1>14, <1>15

-----------------------------------------------------------------------------
(* Messages, again.                                                        *)

\* Only messages move; the end of a party goes to whoever is still in it.
LEMMA WorldHandlesCare ==
  ASSUME PartyAssumption, NoneAssumption, PartyInv, CareInv, NEW p \in Procs, WorldHandles(p)
  PROVE  CareInv'
<1>1. /\ PartyTypeOK /\ Homes
      /\ toWorld \in [Procs -> Seq(Message)] /\ toMap \in [Procs -> Seq(Message)]
  BY DEF PartyInv, PartyTypeOK
<1>2. PICK m : m = Head(toWorld[p])
  OBVIOUS
<1>3. /\ toWorld[p] # <<>> /\ toWorld' = [toWorld EXCEPT ![p] = Tail(@)]
      /\ toMap' = [q \in Procs |-> IF q \in Forward(m) THEN Append(toMap[q], m) ELSE toMap[q]]
      /\ server' = server /\ stage' = stage /\ party' = party /\ cparty' = cparty /\ rows' = rows
      /\ reload' = reload /\ abandoned' = abandoned
  BY <1>2 DEF WorldHandles
<1>4. m \in Message /\ Posted(toWorld[p]) = {m} \cup Posted(Tail(toWorld[p]))
  BY <1>1, <1>2, <1>3, HeadIs
<1>5. PICK F : F = Forward(m)
  OBVIOUS
<1>6. m.type = "Disband" => F = {server[c] : c \in RowsOf(World, m.party)}
  BY <1>5 DEF Forward
<1>7. \A q \in Procs : /\ q # p => toWorld'[q] = toWorld[q]
                       /\ q \in F => toMap'[q] = Append(toMap[q], m)
                       /\ q \notin F => toMap'[q] = toMap[q]
  BY <1>1, <1>3, <1>5
<1>8. toWorld'[p] = Tail(toWorld[p])
  BY <1>1, <1>3
<1>9. \A q \in Procs : Posted(toMap'[q]) = Posted(toMap[q]) \cup (IF q \in F THEN {m} ELSE {})
  <2>1. SUFFICES ASSUME NEW q \in Procs
                 PROVE  Posted(toMap'[q]) = Posted(toMap[q]) \cup (IF q \in F THEN {m} ELSE {})
    OBVIOUS
  <2>2. Posted(Append(toMap[q], m)) = Posted(toMap[q]) \cup {m}
    BY <1>1, <1>4, PostedIs
  <2> QED  BY <1>7, <2>2
<1>10. \A d \in Chars : Doomed(d) => Doomed(d)'
  <2>1. SUFFICES ASSUME NEW d \in Chars, Doomed(d) PROVE Doomed(d)'
    OBVIOUS
  <2>2. PICK x : x = Disbanding(rows[d].party)
    OBVIOUS
  <2>3. /\ d \in Zone /\ server[d] \in Procs /\ rows[d] # None
        /\ (\E q \in Procs : x \in Posted(toWorld[q])) \/ x \in Posted(toMap[server[d]])
    BY <1>1, <2>1, <2>2 DEF Doomed, Zone, Homes
  <2>5. ASSUME NEW q \in Procs, x \in Posted(toWorld[q])
        PROVE  (\E r \in Procs : x \in Posted(toWorld'[r])) \/ x \in Posted(toMap'[server[d]])
    <3>1. CASE q = p /\ x = m
      <4>1. m.type = "Disband" /\ m.party = rows[d].party
        BY <2>2, <3>1 DEF Disbanding
      <4>2. d \in RowsOf(World, m.party)
        BY <1>1, <2>3, <4>1, WorldIs DEF RowsOf
      <4>3. server[d] \in F
        BY <1>6, <4>1, <4>2
      <4> QED  BY <1>9, <2>3, <3>1, <4>3
    <3>2. CASE q = p /\ x # m
      BY <1>4, <1>8, <2>5, <3>2
    <3>3. CASE q # p
      BY <1>7, <2>5, <3>3
    <3> QED  BY <3>1, <3>2, <3>3
  <2>6. (\E r \in Procs : x \in Posted(toWorld'[r])) \/ x \in Posted(toMap'[server'[d]])
    <3>1. CASE x \in Posted(toMap[server[d]])
      BY <1>3, <1>9, <2>3, <3>1
    <3>2. CASE \E q \in Procs : x \in Posted(toWorld[q])
      BY <1>3, <2>5, <3>2
    <3> QED  BY <2>3, <3>1, <3>2
  <2>7. Id(World, d)' = Id(World, d) /\ Zone' = Zone
    BY <1>3 DEF Id, World, Zone
  <2>8. x = Disbanding(rows'[d].party)
    BY <1>3, <2>2
  <2> QED  BY <1>3, <2>1, <2>6, <2>7, <2>8 DEF Doomed
<1>11. \A i \in Chars : Announced(i)' => Announced(i)
  <2>1. \A q \in Procs : Posted(toWorld'[q]) \subseteq Posted(toWorld[q])
    BY <1>4, <1>7, <1>8
  <2>2. \A q \in Procs : Posted(toMap'[q]) \subseteq Posted(toMap[q]) \cup Posted(toWorld[p])
    BY <1>4, <1>9
  <2> QED  BY <2>1, <2>2 DEF Announced
<1> QED  BY <1>3, <1>10, <1>11, CareKept

-----------------------------------------------------------------------------
\* Rows stay as they are, and the message is not the end of a party.
LEMMA SameRowsHandled ==
  ASSUME PartyAssumption, NoneAssumption, PartyInv, CareInv, NEW p \in Procs,
         NEW w, Proper(w), Becomes(p, w), server' = server, stage' = stage,
         \A q \in Procs : Posted(toMap'[q]) \subseteq Posted(toMap[q]),
         w.party = party, w.cparty = cparty, w.rows = rows, w.sent = <<>>,
         \A d \in Chars : Doomed(d) /\ Disbanding(rows[d].party) \in Posted(toMap[server[d]])
           => Disbanding(rows[d].party) \in Posted(toMap'[server[d]])
  PROVE  CareInv'
<1>1. PartyTypeOK /\ w \in Worlds
  BY DEF PartyInv, Proper
<1>2. PICK r : r = World
  OBVIOUS
<1>3. r \in Worlds /\ r.party = party /\ r.cparty = cparty /\ r.rows = rows
  BY <1>1, <1>2, WorldIs DEF Proper
<1>4. PICK T : T = AllDoomed
  OBVIOUS
<1>5. Cared(r, abandoned, T) /\ abandoned \in SUBSET Chars /\ \A d \in T : d \in Chars /\ Doomed(d)
  BY <1>1, <1>2, <1>4 DEF CareInv, PartyTypeOK, AllDoomed
<1>6. Heeded(w, abandoned, T)
  BY <1>3, <1>5, SameRowsHeed
<1>7. \A d \in T : Doomed(d)'
  <2>1. SUFFICES ASSUME NEW d \in T PROVE Doomed(d)'
    OBVIOUS
  <2>2. d \in Chars /\ Doomed(d)
    BY <1>5
  <2>3. /\ w.rows[d] # None /\ w.rows[d].party = rows[d].party
        /\ w.party[d] # None /\ Id(r, d) = rows[d].party
    BY <1>2, <2>2 DEF Doomed
  <2>4. Id(w, d) = rows[d].party
    BY <1>3, <2>3 DEF Id
  <2> QED  BY <1>1, <2>2, <2>3, <2>4, StillDoomed
<1>8. \A i \in Chars : Announced(i)' => ~LedIn(w, i)
  <2>1. SUFFICES ASSUME NEW i \in Chars, Announced(i)' PROVE ~LedIn(w, i)
    OBVIOUS
  <2>2. Disbanding(i) \notin Posted(w.sent)
    BY NoPost
  <2>3. Announced(i)
    BY <1>1, <2>1, <2>2, NewlyAnnounced
  <2>4. ~LedIn(r, i)
    BY <1>2, <2>3 DEF CareInv
  <2> QED  BY <1>3, <2>4 DEF LedIn
<1>9. rows' = w.rows /\ abandoned' = Abandoned(w)
  BY DEF Becomes
<1> QED  BY <1>1, <1>5, <1>6, <1>7, <1>8, <1>9, CareStep

\* Those who lose a row with the copy are no leaders, or those who miss them are
\* lost; who is not in the copy is lost, or will still be told.
LEMMA DisbandHandledCare ==
  ASSUME PartyAssumption, NoneAssumption, PartyInv, CareInv, NEW p \in Procs,
         NEW m \in Message, m.type = "Disband", m \in Posted(toMap[p]),
         NEW w \in HandleDisband(p, m), Becomes(p, w), server' = server, stage' = stage,
         \A q \in Procs : Posted(toMap'[q]) \subseteq Posted(toMap[q]),
         \A q \in Procs : \A x \in Posted(toMap[q]) : q # p \/ x # m => x \in Posted(toMap'[q])
  PROVE  CareInv'
<1>1. /\ PartyTypeOK /\ Proper(w) /\ Sound(World) /\ Homes /\ DisbandHandledAs(p, m, w)
  BY HandleDisbandIsProper, HandleDisbandIs DEF PartyInv
<1>2. PICK r : r = World
  OBVIOUS
<1>3. /\ r \in Worlds /\ r.party = party /\ r.cparty = cparty /\ r.rows = rows /\ r.sent = <<>>
      /\ FlagIsId(r) /\ Proper(r)
  BY <1>1, <1>2, WorldIs DEF Proper, Sound, Leads
<1>4. PICK i : i = m.party
  OBVIOUS
<1>5. i \in Chars /\ m = Disbanding(i)
  BY <1>4 DEF Message, Disbanding
<1>6. \A d \in Chars : Doomed(d) => d \in Zone /\ server[d] \in Procs
  BY <1>1 DEF Doomed, Zone, Homes
<1>7. CASE /\ w = World
           /\ \A c \in Chars : Found(p, c) /\ party[c] # None => Id(World, c) # m.party
  <2>1. ASSUME NEW d \in Chars, Doomed(d), Disbanding(rows[d].party) \in Posted(toMap[server[d]])
        PROVE  Disbanding(rows[d].party) \in Posted(toMap'[server[d]])
    <3>1. d \in Zone /\ party[d] # None /\ Id(World, d) = rows[d].party /\ server[d] \in Procs
      BY <1>6, <2>1 DEF Doomed
    <3>2. server[d] = p => Id(World, d) # m.party
      BY <1>7, <2>1, <3>1 DEF Found, Zone
    <3>3. server[d] = p => Disbanding(rows[d].party) # m
      BY <3>1, <3>2 DEF Disbanding
    <3> QED  BY <2>1, <3>1, <3>3
  <2>2. w.party = party /\ w.cparty = cparty /\ w.rows = rows /\ w.sent = <<>>
    BY <1>2, <1>3, <1>7
  <2> QED  BY <1>1, <2>1, <2>2, SameRowsHandled
<1>8. ASSUME NEW o \in Objects, NEW L \in SUBSET Chars,
             o # None, cparty[o] # None, cparty[o].id = i,
             L = Disbanded(r, o, FALSE).lost \cup {c \in RowsOf(r, i) : Found(p, c) /\ party[c] # o},
             w = [Disbanded(r, o, FALSE) EXCEPT !.lost = L]
      PROVE  CareInv'
  <2>1. PICK v : v = Disbanded(r, o, FALSE)
    OBVIOUS
  <2>2. DisbandedAs(r, o, v) /\ v.sent = <<>> /\ v \in Worlds
    <3>1. r \in Worlds /\ r.cparty[o] # None
      BY <1>3, <1>8
    <3>2. DisbandedAs(r, o, v) /\ v.sent = r.sent
      BY <2>1, <3>1, DisbandedIs
    <3> QED  BY <1>3, <3>2 DEF DisbandedAs
  <2>3. /\ w \in Worlds /\ w.party = v.party /\ w.cparty = v.cparty /\ w.rows = v.rows
        /\ w.sent = v.sent /\ w.lost = L
    <3>1. w = [v EXCEPT !.lost = L]
      BY <1>8, <2>1
    <3> QED  BY <2>2, <3>1, LosingIs
  <2>4. PICK X : X = Members(r, o)
    OBVIOUS
  <2>5. \A d \in Chars : w.rows[d] = IF d \in X THEN None ELSE r.rows[d]
    BY <2>2, <2>3, <2>4 DEF DisbandedAs, Members
  <2>6. PICK D : D = AllDoomed
    OBVIOUS
  <2>7. Cared(r, abandoned, D) /\ abandoned \in SUBSET Chars /\ \A d \in D : d \in Chars /\ Doomed(d)
    BY <1>1, <1>2, <2>6 DEF CareInv, PartyTypeOK, AllDoomed
  <2>8. PICK T : T = {d \in D : server[d] # p \/ rows[d].party # i}
    OBVIOUS
  <2>9. \A d \in D : d \in Chars /\ w.rows[d] # None => d \in w.lost \cup T
    <3>1. SUFFICES ASSUME NEW d \in D, d \in Chars, w.rows[d] # None, d \notin T
                   PROVE  d \in L
      BY <2>3
    <3>2. server[d] = p /\ rows[d].party = i /\ d \in Zone
      BY <1>6, <2>7, <2>8, <3>1
    <3>3. party[d] # o /\ rows[d] # None
      BY <1>3, <2>4, <2>5, <3>1 DEF Members
    <3>4. d \in RowsOf(r, i) /\ Found(p, d)
      BY <1>3, <3>1, <3>2, <3>3 DEF RowsOf, Found, Zone
    <3> QED  BY <1>8, <3>3, <3>4
  <2>10. Moves(r, w, i, i, X)
    BY <2>5 DEF Moves
  <2>11. ASSUME NEW x \in X, LedIn(r, x)
         PROVE  RowsOf(w, x) \subseteq w.lost
    <3>1. x \in Chars /\ r.rows[x] # None /\ r.rows[x].party = x /\ r.rows[x].leader
      BY <1>3, <2>4, <2>11 DEF Members, LedIn, FlagIsId
    <3>2. x # i
      <4>1. Announced(i)
        BY <1>5 DEF Announced
      <4>2. ~LedIn(World, i)
        BY <1>5, <4>1 DEF CareInv
      <4> QED  BY <1>2, <2>11, <4>2
    <3>3. SUFFICES ASSUME NEW d \in RowsOf(w, x) PROVE d \in L
      BY <2>3
    <3>4. d \in Chars /\ d # x /\ d \in RowsOf(r, x)
      BY <2>5, <3>3 DEF RowsOf
    <3>5. d \in Missed(r, o, X)
      BY <1>3, <1>8, <3>1, <3>2, <3>4, MissedIs
    <3>6. d \in v.lost
      BY <2>2, <2>4, <3>4, <3>5 DEF DisbandedAs
    <3> QED  BY <1>8, <2>1, <3>6
  <2>12. Cuts(r, w, i, i, X, T)
    BY <2>10, <2>11 DEF Cuts
  <2>13. Heeded(w, abandoned, T)
    BY <1>3, <1>5, <2>7, <2>9, <2>12, CutsHeed
  <2>14. \A d \in T : d \in Chars /\ w.rows[d] # None => Doomed(d)'
    <3>1. SUFFICES ASSUME NEW d \in T, d \in Chars, w.rows[d] # None PROVE Doomed(d)'
      OBVIOUS
    <3>2. Doomed(d) /\ server[d] \in Procs /\ (server[d] # p \/ rows[d].party # i)
      BY <1>6, <2>7, <2>8, <3>1
    <3>3. party[d] # None /\ Id(r, d) = rows[d].party /\ d \notin X /\ w.rows[d] = rows[d]
      BY <1>2, <1>3, <2>5, <3>1, <3>2 DEF Doomed
    <3>4. w.party[d] = party[d] /\ party[d] # o
      BY <1>3, <2>2, <2>3, <2>4, <3>1, <3>3 DEF DisbandedAs, Members
    <3>5. party[d] \in Objects
      BY <1>3, <3>1, <3>3, IdIs
    <3>6. Id(w, d) = Id(r, d)
      BY <1>3, <2>2, <2>3, <3>4, <3>5 DEF Id, DisbandedAs, OthersKept
    <3>7. server[d] # p \/ Disbanding(rows[d].party) # m
      BY <1>4, <3>2 DEF Disbanding
    <3>8. Disbanding(rows[d].party) \in Posted(toMap[server[d]])
            => Disbanding(rows[d].party) \in Posted(toMap'[server[d]])
      BY <3>2, <3>7
    <3> QED  BY <1>1, <3>1, <3>2, <3>3, <3>4, <3>6, <3>8, StillDoomed
  <2>15. \A j \in Chars : Announced(j)' => ~LedIn(w, j)
    <3>1. SUFFICES ASSUME NEW j \in Chars, Announced(j)' PROVE ~LedIn(w, j)
      OBVIOUS
    <3>2. Disbanding(j) \notin Posted(w.sent)
      BY <2>2, <2>3, NoPost
    <3>3. Announced(j)
      BY <1>1, <3>1, <3>2, NewlyAnnounced
    <3>4. ~LedIn(r, j)
      BY <1>2, <3>3 DEF CareInv
    <3> QED  BY <2>5, <3>4 DEF LedIn
  <2>16. rows' = w.rows /\ abandoned' = Abandoned(w)
    BY DEF Becomes
  <2> QED  BY <2>3, <2>13, <2>14, <2>15, <2>16, CareStep
<1> QED  BY <1>1, <1>2, <1>4, <1>7, <1>8 DEF DisbandHandledAs

LEMMA AnswerHeeds ==
  ASSUME PartyAssumption, NoneAssumption, PartyTypeOK, NEW r, r = World, Ready(r), NEW p \in Procs,
         NEW m \in Message, m.type = "Answer",
         m.to \in Zone, server[m.to] # None, party[m.to] = None, rows[m.to] = None,
         NEW A \in SUBSET Chars, Cared(r, A, {}), NEW x, x = HandleAnswer(p, m)
  PROVE  Heeded(x, A, {}) /\ OnlyReloads(x)
<1>1. PICK a, b \in Chars : a = m.from /\ b = m.to
  BY DEF Message
<1>2. PICK u : u = IF party[a] = None THEN Founded(r, a) ELSE r
  OBVIOUS
<1>3. PICK o : o = u.party[a]
  OBVIOUS
<1>4. PICK v : v = AddedById(u, o, b)
  OBVIOUS
<1>5. /\ r.party = party /\ r.rows = rows /\ r \in Worlds /\ r.sent = <<>>
      /\ b \in Zone /\ server[b] # None /\ party[b] = None /\ rows[b] = None
  BY <1>1, WorldIs DEF Ready, Proper
<1>6. \/ x = r
      \/ Found(p, a) /\ x = u
      \/ Found(p, a) /\ LeadsIn(u, a) /\ u.rows[b] = None /\ x = v
  BY <1>1, <1>2, <1>3, <1>4 DEF HandleAnswer
<1>7. ASSUME Found(p, a) PROVE a \in Zone /\ server[a] # None
  BY <1>1, <1>7 DEF Found, Zone, PartyAssumption
<1>8. ASSUME Found(p, a) PROVE Ready(u) /\ (a = b => u.rows[b] # None)
  <2>1. CASE party[a] = None
    <3>1. u = Founded(r, a) /\ r.party[a] = None
      BY <1>2, <1>5, <2>1
    <3>2. Ready(u) /\ u.rows[a] # None
      BY <1>7, <1>8, <3>1, FoundedReady
    <3> QED  BY <3>2
  <2>2. CASE party[a] # None
    BY <1>2, <1>5, <2>2
  <2> QED  BY <2>1, <2>2
<1>9. u = IF r.party[a] = None THEN Founded(r, a) ELSE r
  BY <1>2, <1>5
<1>10. CASE x = r
  <2>1. Heeded(x, A, {})
    BY <1>5, <1>10, SameRowsHeed
  <2> QED  BY <1>10, <2>1 DEF Ready
<1>11. CASE Found(p, a) /\ x = u
  <2>1. Heeded(x, A, {})
    BY <1>7, <1>9, <1>11, JoinerHeeds
  <2> QED  BY <1>8, <1>11, <2>1 DEF Ready
<1>12. CASE Found(p, a) /\ LeadsIn(u, a) /\ u.rows[b] = None /\ x = v /\ IsFull(u, o)
  <2>1. x = u
    BY <1>4, <1>12 DEF AddedById
  <2> QED  BY <1>11, <1>12, <2>1
<1>13. CASE Found(p, a) /\ LeadsIn(u, a) /\ u.rows[b] = None /\ x = v /\ ~IsFull(u, o)
  <2>1. Ready(u) /\ a # b
    BY <1>8, <1>13
  <2>2. /\ o \in Objects /\ u.cparty[o] # None /\ u.cparty[o].leader = a /\ o # None
        /\ Proper(u) /\ u \in Worlds
    BY <1>3, <1>13, <2>1, LeadsInIs DEF Ready, Proper
  <2>3. /\ v.rows[b] # None /\ v.rows[b].party = a
        /\ \A d \in Chars \ {b} : v.rows[d] = u.rows[d]
        /\ Sends(u, v, Reloading(a))
    BY <1>3, <1>4, <1>5, <1>13, <2>1, <2>2, AddedByIdLeads DEF Ready
  <2>4. Joins(u, x, a, {b})
    BY <1>13, <2>3 DEF Joins
  <2>5. LeadsIn(u, a) /\ ~IsFull(u, u.party[a]) /\ Joins(u, x, a, {b})
    BY <1>3, <1>13, <2>4
  <2>6. a \in Zone /\ server[a] # None
    BY <1>7, <1>13
  <2>7. Heeded(x, A, {})
    BY <1>9, <2>5, <2>6, JoinerHeeds
  <2>8. OnlyReloads(v)
    BY <2>1, <2>2, <2>3, OneMoreReload DEF Ready
  <2> QED  BY <1>13, <2>7, <2>8
<1> QED  BY <1>6, <1>10, <1>11, <1>12, <1>13

LEMMA MapHandlesCare ==
  ASSUME PartyAssumption, NoneAssumption, PartyInv, CareInv, NEW p \in Procs, MapHandles(p)
  PROVE  CareInv'
<1>1. /\ PartyTypeOK /\ Homes /\ Sound(World) /\ toMap \in [Procs -> Seq(Message)]
  BY DEF PartyInv, PartyTypeOK
<1>2. PICK r : r = World
  OBVIOUS
<1>3. /\ r \in Worlds /\ Proper(r) /\ r.party = party /\ r.cparty = cparty /\ r.rows = rows
      /\ r.sent = <<>>
  BY <1>1, <1>2, WorldIs DEF Proper
<1>4. PICK m : m = Head(toMap[p])
  OBVIOUS
<1>5. /\ toMap[p] # <<>> /\ m \in Message /\ toMap' = [toMap EXCEPT ![p] = Tail(@)]
      /\ server' = server /\ stage' = stage
  BY <1>1, <1>4, MapHandlesIs
<1>6. PICK w : /\ Becomes(p, w)
               /\ \/ m.type = "Reload"  /\ w = HandleReload(p, m)
                  \/ m.type = "Kick"    /\ w = HandleKick(p, m)
                  \/ m.type = "Disband" /\ w \in HandleDisband(p, m)
                  \/ m.type = "Answer"  /\ w = HandleAnswer(p, m)
                  \/ m.type = "Invite"  /\ w = World
  BY <1>1, <1>4, MapHandlesIs
<1>7. toMap'[p] = Tail(toMap[p]) /\ \A q \in Procs : q # p => toMap'[q] = toMap[q]
  BY <1>1, <1>5
<1>8. Posted(toMap[p]) = {m} \cup Posted(toMap'[p])
  BY <1>1, <1>4, <1>5, <1>7, HeadIs
<1>9. \A q \in Procs : Posted(toMap'[q]) \subseteq Posted(toMap[q])
  BY <1>7, <1>8
<1>10. \A q \in Procs : \A x \in Posted(toMap[q]) : q # p \/ x # m => x \in Posted(toMap'[q])
  BY <1>7, <1>8
<1>11. CASE m.type \in {"Reload", "Kick", "Invite"}
  <2>1. w = r \/ \E S : w = Marked(r, S)
    BY <1>2, <1>6, <1>11 DEF HandleReload, HandleKick
  <2>2. /\ w \in Worlds /\ w.party = r.party /\ w.cparty = r.cparty /\ w.rows = r.rows
        /\ w.sent = r.sent
    BY <1>3, <2>1, MarkedIs
  <2>3. Proper(w)
    BY <1>3, <2>2, AsProper
  <2>4. ASSUME NEW d \in Chars, Doomed(d), Disbanding(rows[d].party) \in Posted(toMap[server[d]])
        PROVE  Disbanding(rows[d].party) \in Posted(toMap'[server[d]])
    <3>1. server[d] \in Procs
      BY <1>1, <2>4 DEF Doomed, Zone, Homes
    <3>2. Disbanding(rows[d].party) # m
      BY <1>11 DEF Disbanding
    <3> QED  BY <1>10, <2>4, <3>1, <3>2
  <2>5. w.party = party /\ w.cparty = cparty /\ w.rows = rows /\ w.sent = <<>>
    BY <1>3, <2>2
  <2> QED  BY <1>5, <1>6, <1>9, <2>3, <2>4, <2>5, SameRowsHandled
<1>12. CASE m.type = "Disband"
  <2>1. w \in HandleDisband(p, m) /\ m \in Posted(toMap[p])
    BY <1>6, <1>8, <1>12
  <2>2. m \in Message /\ m.type = "Disband" /\ Becomes(p, w) /\ server' = server /\ stage' = stage
    BY <1>5, <1>6, <1>12
  <2> QED  BY <1>9, <1>10, <2>1, <2>2, DisbandHandledCare
<1>13. CASE m.type = "Answer"
  <2>1. /\ Ready(r) /\ Awaited(m) /\ Tail(toMap[p]) = <<>>
        /\ \A q \in Procs : toWorld[q] = <<>> /\ (q # p => toMap[q] = <<>>)
    BY <1>2, <1>4, <1>5, <1>13, AnswerIs
  <2>2. \A q \in Procs : toWorld[q] = <<>> /\ toMap'[q] = <<>>
    BY <1>7, <2>1
  <2>3. \A q \in Procs : Posted(toWorld[q]) = {} /\ Posted(toMap'[q]) = {}
    BY <2>2, NoPost
  <2>4. m.to \in Zone /\ server[m.to] # None /\ party[m.to] = None /\ rows[m.to] = None
    BY <1>1, <2>1 DEF Awaited, Homes, Zone, PartyAssumption
  <2>5. w = HandleAnswer(p, m)
    BY <1>6, <1>13
  <2>6. ASSUME NEW d \in Chars PROVE ~Doomed(d)
    <3>1. \A q \in Procs : \A x \in Posted(toWorld[q]) \cup Posted(toMap[q]) : x = m
      BY <1>7, <1>8, <2>1, <2>3, NoPost
    <3>2. Disbanding(rows[d].party) # m
      BY <1>13 DEF Disbanding
    <3>3. d \in Zone => server[d] \in Procs
      BY <1>1 DEF Homes, Zone
    <3> QED  BY <3>1, <3>2, <3>3 DEF Doomed
  <2>7. Cared(r, abandoned, {}) /\ abandoned \in SUBSET Chars
    <3>1. AllDoomed = {}
      BY <2>6 DEF AllDoomed
    <3> QED  BY <1>1, <1>2, <3>1 DEF CareInv, PartyTypeOK
  <2>8. Heeded(w, abandoned, {}) /\ OnlyReloads(w)
    BY <1>1, <1>2, <1>5, <1>13, <2>1, <2>4, <2>5, <2>7, AnswerHeeds
  <2>9. Proper(w)
    BY <1>1, <1>5, <1>13, <2>5, HandleAnswerIsProper
  <2>10. \A i \in Chars : ~Announced(i)'
    <3>1. SUFFICES ASSUME NEW i \in Chars, Announced(i)' PROVE FALSE
      OBVIOUS
    <3>2. \A q \in Procs : Posted(toWorld'[q]) \subseteq Posted(w.sent)
      BY <1>1, <1>6, <2>3, <2>9, SentIs
    <3>3. Disbanding(i) \notin Posted(w.sent)
      BY <2>8, DisbandingIs DEF OnlyReloads
    <3> QED  BY <2>3, <3>1, <3>2, <3>3 DEF Announced
  <2>11. rows' = w.rows /\ abandoned' = Abandoned(w) /\ w \in Worlds
    BY <1>6, <2>9 DEF Becomes, Proper
  <2> QED  BY <2>8, <2>10, <2>11, CareStep
<1> QED  BY <1>6, <1>11, <1>12, <1>13

LEMMA InitCare ==
  ASSUME PartyAssumption, NoneAssumption, Init
  PROVE  CareInv
<1>1. PICK S \in SUBSET Chars, a \in Chars :
        /\ S # {} => a \in S /\ Cardinality(S) \in 2..MaxMembers
        /\ rows = [c \in Chars |-> IF c \in S THEN [party |-> a, leader |-> c = a] ELSE None]
        /\ abandoned = {}
        /\ toWorld = [q \in Procs |-> <<>>] /\ toMap = [q \in Procs |-> <<>>]
  BY DEF Init
<1>2. PICK w : w = World
  OBVIOUS
<1>3. \A c \in Chars : /\ w.rows[c] # None <=> c \in S
                       /\ c \in S => w.rows[c].party = a
  <2>1. w.rows = rows
    BY <1>2 DEF World
  <2>2. \A c \in S : rows[c] # None /\ rows[c].party = a
    <3>1. SUFFICES ASSUME NEW c \in S PROVE rows[c] # None /\ rows[c].party = a
      OBVIOUS
    <3>2. PICK l \in BOOLEAN : l = (c = a)
      OBVIOUS
    <3>3. rows[c] = [party |-> a, leader |-> l]
      BY <1>1, <3>2
    <3> QED  BY <3>3, NotNone
  <2>3. \A c \in Chars \ S : rows[c] = None
    BY <1>1
  <2> QED  BY <2>1, <2>2, <2>3
<1>4. \A q \in Procs : Posted(toWorld[q]) = {} /\ Posted(toMap[q]) = {}
  BY <1>1, NoPost
<1>5. \A c \in Chars : w.rows[c] # None => LedIn(w, w.rows[c].party)
  BY <1>1, <1>3 DEF LedIn
<1>6. ASSUME NEW i \in Chars
      PROVE  Cardinality(RowsOf(w, i) \ {}) <= MaxMembers
  <2>1. RowsOf(w, i) \ {} = RowsOf(w, i) /\ RowsOf(w, i) \in SUBSET Chars
    BY DEF RowsOf
  <2>2. CASE RowsOf(w, i) = {}
    BY <2>1, <2>2, FewRows
  <2>3. CASE RowsOf(w, i) # {}
    <3>1. RowsOf(w, i) = S /\ S # {}
      BY <1>3, <2>3 DEF RowsOf
    <3> QED  BY <1>1, <2>1, <3>1 DEF PartyAssumption
  <2> QED  BY <2>2, <2>3
<1>7. Cared(w, {}, AllDoomed)
  BY <1>5, <1>6 DEF Cared
<1>8. \A i \in Chars : ~Announced(i)
  BY <1>4 DEF Announced
<1> QED  BY <1>1, <1>2, <1>7, <1>8 DEF CareInv

-----------------------------------------------------------------------------
(* The theorems about leaders and sizes.                                   *)

LEMMA NextCare ==
  ASSUME PartyAssumption, NoneAssumption, PartyInv, CareInv, ~Hasty, Next
  PROVE  CareInv'
<1>1. CASE Play
  <2>1. PICK a \in Chars :
          \/ Accept(a) \/ Decline(a) \/ Leave(a) \/ Breakup(a) \/ ZoneOut(a) \/ LogOut(a)
          \/ \E b \in Chars : Invite(a, b) \/ Kick(a, b) \/ GiveLead(a, b)
          \/ \E p \in Procs : LogIn(a, p)
    BY <1>1 DEF Play
  <2>2. ASSUME NEW b \in Chars, Invite(a, b) \/ Kick(a, b) \/ GiveLead(a, b) PROVE CareInv'
    BY <2>2, InviteCare, KickCare, GiveLeadCare
  <2>3. ASSUME NEW p \in Procs, LogIn(a, p) PROVE CareInv'
    BY <2>3, LogInCare
  <2>4. CASE Accept(a) \/ Decline(a) \/ Leave(a) \/ Breakup(a) \/ ZoneOut(a) \/ LogOut(a)
    BY <2>4, AcceptCare, DeclineCare, LeaveCare, BreakupCare, ZoneOutCare, LogOutCare
  <2> QED  BY <2>1, <2>2, <2>3, <2>4
<1>2. CASE Sessions
  <2>1. ASSUME NEW c \in Chars, ZoneIn(c) \/ Quit(c) \/ TimeOut(c) \/ \E p \in Procs : Depart(c, p)
        PROVE  CareInv'
    BY <2>1, ZoneInCare, QuitCare, TimeOutCare, DepartCare
  <2>2. ASSUME NEW p \in Procs, Crash(p) PROVE CareInv'
    BY <2>2, CrashCare
  <2> QED  BY <1>2, <2>1, <2>2 DEF Sessions
<1>3. CASE Settle
  <2>1. ASSUME NEW c \in Chars, Tick(c) PROVE CareInv'
    BY <2>1, TickCare
  <2>2. ASSUME NEW p \in Procs, WorldHandles(p) \/ MapHandles(p) PROVE CareInv'
    BY <2>2, WorldHandlesCare, MapHandlesCare
  <2> QED  BY <1>3, <2>1, <2>2 DEF Settle
<1> QED  BY <1>1, <1>2, <1>3 DEF Next

LEMMA SameCare ==
  ASSUME PartyInv, CareInv, UNCHANGED vars
  PROVE  CareInv'
<1>1. /\ party' = party /\ cparty' = cparty /\ rows' = rows /\ reload' = reload
      /\ toWorld' = toWorld /\ toMap' = toMap /\ server' = server /\ stage' = stage
      /\ abandoned' = abandoned
  BY DEF vars
<1>2. \A c \in Chars : Doomed(c) => Doomed(c)'
  BY <1>1 DEF Doomed, Zone, World, Id
<1>3. \A i \in Chars : Announced(i)' => Announced(i)
  BY <1>1 DEF Announced
<1> QED  BY <1>1, <1>2, <1>3, CareKept

\* Both invariants: of the copies, and of who leads the rows.
THEOREM CareInvHolds == ~Hasty => (Spec => [](PartyInv /\ CareInv))
<1>1. SUFFICES ASSUME ~Hasty PROVE Spec => [](PartyInv /\ CareInv)
  OBVIOUS
<1>2. Init => PartyInv /\ CareInv
  BY PartyAssumption, NoneAssumption, InitInv, InitCare
<1>3. PartyInv /\ CareInv /\ [Next]_vars => PartyInv' /\ CareInv'
  <2>1. ASSUME PartyInv, CareInv, Next PROVE PartyInv' /\ CareInv'
    BY <1>1, <2>1, PartyAssumption, NoneAssumption, NextInv, NextCare
  <2>2. ASSUME PartyInv, CareInv, UNCHANGED vars PROVE PartyInv' /\ CareInv'
    BY <2>2, PartyAssumption, NoneAssumption, SameInv, SameCare
  <2> QED  BY <2>1, <2>2
<1> QED  BY <1>2, <1>3, PTL DEF Spec

\* A party that still has members has a leader among them, once messages are
\* done, whoever left it and however.
THEOREM LeaderIsHandedOnHolds == ~Hasty => (Spec => []LeaderIsHandedOn)
<1>1. PartyInv /\ CareInv => LeaderIsHandedOn
  BY PartyAssumption, CareShows
<1> QED  BY <1>1, CareInvHolds, PTL

\* No party has more rows than it may have members, whoever was told to join it.
THEOREM NotOverfullHolds == ~Hasty => (Spec => []NotOverfull)
<1>1. PartyInv /\ CareInv => NotOverfull
  BY PartyAssumption, CareShows
<1> QED  BY <1>1, CareInvHolds, PTL

=============================================================================
