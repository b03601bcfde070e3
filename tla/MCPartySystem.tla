---------------------------- MODULE MCPartySystem ----------------------------
(***************************************************************************)
(* PartySystem for TLC.  Characters and processes are interchangeable, so   *)
(* one initial state of each kind is enough; unlike a SYMMETRY, this may be *)
(* used to check liveness.                                                  *)
(***************************************************************************)
EXTENDS PartySystem

MCChars == 1..4

\* Leader, members, invited, others: in this order; and, within each kind,
\* those on p before those on other processes, where p is the first one's.
Rank(c) == IF rows[c] # None THEN IF rows[c].leader THEN 8 ELSE 6
           ELSE IF invite[c] # None THEN 4 ELSE IF c \in {invite[d] : d \in Chars} THEN 2 ELSE 0
Place(c, p) == Rank(c) + (IF server[c] = p THEN 1 ELSE 0)

Ordered == \E p \in Procs : /\ p = CHOOSE q \in Procs : TRUE
                            /\ server[1] = p
                            /\ \A c, d \in Chars : c < d => Place(c, p) >= Place(d, p)

MCInit == Init /\ Ordered

MCSpec == MCInit /\ [][Next]_vars /\ WF_vars(Settle)
=============================================================================
