------------------------- MODULE PersistSweep_proofs -------------------------
(***************************************************************************)
(* PersistSweep for any characters, facets and values, and any number of   *)
(* failed writes.  The argument rests on the lock: worker and main thread  *)
(* are never both writing (Locked), so a character cannot finish leaving   *)
(* while the worker holds rows of it (WritingIsIn), and a row the worker   *)
(* still has to start on belongs to someone present or entered in          *)
(* `flushed' (QueuedIsKnown).  Of the rows that will be written, those of  *)
(* a facet nothing has flagged since are what memory holds (Fresh).        *)
(***************************************************************************)
EXTENDS PersistSweep, TLAPS

Locked == ~(sweep = "writing" /\ teardown = "writing")

LeaverIsIn ==
  /\ teardown # "idle" =>
       /\ leaving \in Chars
       /\ place[leaving] # "out"
       /\ owed[leaving] = {}
       /\ \A r \in rows : r.char = leaving /\ r.value = mem[r.char][r.facet]
  /\ teardown = "idle" => rows = {}

IdleIsEmpty == sweep = "idle" => batch = {}

WritingIsIn == sweep = "writing" => \A r \in batch : place[r.char] # "out"

QueuedIsKnown ==
  sweep = "queued" => \A r \in batch : place[r.char] # "out" \/ r.char \in flushed

(* The row will be written, and not by a writer that holds the lock now     *)
(* against the character's own teardown.                                    *)
Live(r) == /\ sweep = "writing" \/ r.char \notin flushed
           /\ ~(teardown = "writing" /\ r.char = leaving)

Fresh ==
  \A r \in batch :
    r.facet \notin Direct /\ Live(r) /\ Settled(r.char, r.facet)
      => r.value = mem[r.char][r.facet]

PInv == PersistTypeOK /\ Locked /\ LeaverIsIn /\ IdleIsEmpty /\ WritingIsIn
          /\ QueuedIsKnown /\ Fresh
-----------------------------------------------------------------------------
(* The facets written next are among those to write.                        *)
LEMMA NextRowsAreRows == \A rs : NextRows(rs) \subseteq rs
BY DEF NextRows

(* A facet's transaction changes the database only to a row it writes.      *)
LEMMA WriteFacetWrites ==
  ASSUME PersistTypeOK, NEW rs, rs \subseteq Rows, WriteFacet(rs)
  PROVE  /\ db' \in [Chars -> [Facets -> Values]]
         /\ faults' \in 0..MaxFaults
         /\ forgotten' \subseteq Chars \X Facets
         /\ \A c \in Chars, f \in Facets :
              \/ db'[c][f] = db[c][f]
              \/ \E r \in rs : r.char = c /\ r.facet = f /\ db'[c][f] = r.value
<1>1. CASE /\ db' = [c \in Chars |-> [f \in Facets |->
                 IF <<c, f>> \in PairsOf(rs)
                 THEN (CHOOSE r \in rs : r.char = c /\ r.facet = f).value
                 ELSE db[c][f]]]
           /\ UNCHANGED <<faults, forgotten>>
  <2>1. ASSUME NEW c \in Chars, NEW f \in Facets, <<c, f>> \in PairsOf(rs)
        PROVE  \E r \in rs : r.char = c /\ r.facet = f /\ db'[c][f] = r.value
    <3>1. PICK q \in rs : q.char = c /\ q.facet = f
      BY <2>1 DEF PairsOf
    <3>2. DEFINE r == CHOOSE r \in rs : r.char = c /\ r.facet = f
    <3>3. r \in rs /\ r.char = c /\ r.facet = f
      BY <3>1
    <3>4. db'[c][f] = r.value
      BY <1>1, <2>1
    <3> QED BY <3>3, <3>4
  <2>2. ASSUME NEW c \in Chars, NEW f \in Facets
        PROVE  /\ \/ db'[c][f] = db[c][f]
                  \/ \E r \in rs : r.char = c /\ r.facet = f /\ db'[c][f] = r.value
               /\ db'[c][f] \in Values
    <3>1. CASE <<c, f>> \in PairsOf(rs)
      BY <2>1, <3>1 DEF Rows
    <3>2. CASE <<c, f>> \notin PairsOf(rs)
      <4>1. db'[c][f] = db[c][f]
        BY <1>1, <3>2
      <4> QED BY <4>1 DEF PersistTypeOK
    <3> QED BY <3>1, <3>2
  <2>3. db' \in [Chars -> [Facets -> Values]]
    <3>1. \A c \in Chars : db'[c] = [f \in Facets |-> db'[c][f]]
      BY <1>1
    <3>2. \A c \in Chars : db'[c] \in [Facets -> Values]
      BY <2>2, <3>1
    <3>3. db' = [c \in Chars |-> db'[c]]
      BY <1>1
    <3> QED BY <3>2, <3>3
  <2> QED BY <1>1, <2>2, <2>3 DEF PersistTypeOK
<1>2. CASE /\ faults < MaxFaults
           /\ faults' = faults + 1
           /\ forgotten' = forgotten \cup Unwritten(rs)
           /\ UNCHANGED db
  <2>1. Unwritten(rs) \subseteq Chars \X Facets
    BY DEF Unwritten, PairsOf, Rows
  <2>2. faults' \in 0..MaxFaults
    BY <1>2, PersistAssumption DEF PersistTypeOK
  <2> QED BY <1>2, <2>1, <2>2 DEF PersistTypeOK
<1> QED BY <1>1, <1>2 DEF WriteFacet
-----------------------------------------------------------------------------
(* The rows of a character are rows, and hold what memory does.             *)
LEMMA RowsOfAreRows ==
  ASSUME PersistTypeOK, NEW c \in Chars, NEW flags \in SUBSET Facets
  PROVE  /\ RowsOf(c, flags) \subseteq Rows
         /\ \A r \in RowsOf(c, flags) :
              r.char = c /\ r.facet \in flags /\ r.value = mem[c][r.facet]
BY DEF RowsOf, Rows, PersistTypeOK

LEMMA InitInv == Init => PInv
<1> SUFFICES ASSUME Init PROVE PInv
  OBVIOUS
<1>1. PersistTypeOK
  <2>1. mem \in [Chars -> [Facets -> Values]]
    BY PersistAssumption DEF Init
  <2>2. faults \in 0..MaxFaults
    BY PersistAssumption DEF Init
  <2> QED BY <2>1, <2>2 DEF Init, PersistTypeOK
<1> QED BY <1>1 DEF Init, PInv, Locked, LeaverIsIn, IdleIsEmpty, WritingIsIn,
                    QueuedIsKnown, Fresh
-----------------------------------------------------------------------------
(* Every step preserves the invariant: the changes on the main thread first.*)

LEMMA ChangeInv ==
  ASSUME PInv, NEW c \in Chars, NEW f \in Facets, NEW v \in Values,
         Change(c, f, v)
  PROVE  PInv'
<1> USE DEF PInv, Change, MainFree, flushVars, sweepVars
<1>1. PersistTypeOK'
  BY DEF PersistTypeOK
<1>2. LeaverIsIn'
  BY DEF LeaverIsIn
<1>3. Fresh'
  <2> SUFFICES ASSUME NEW r \in batch, r.facet \notin Direct, Live(r)',
                      Settled(r.char, r.facet)'
               PROVE  r.value = mem'[r.char][r.facet]
    BY DEF Fresh
  <2>1. r \in Rows
    BY DEF PersistTypeOK
  <2>2. <<r.char, r.facet>> # <<c, f>>
    BY <2>1 DEF Settled, PersistTypeOK
  <2>3. mem'[r.char][r.facet] = mem[r.char][r.facet]
    BY <2>1, <2>2 DEF PersistTypeOK, Rows
  <2>4. owed[r.char] \subseteq owed'[r.char]
    BY <2>1 DEF PersistTypeOK, Rows
  <2>5. Live(r) /\ Settled(r.char, r.facet)
    BY <2>4 DEF Live, Settled
  <2> QED BY <2>3, <2>5 DEF Fresh
<1> QED BY <1>1, <1>2, <1>3 DEF Locked, IdleIsEmpty, WritingIsIn, QueuedIsKnown

LEMMA SaveDirectlyInv ==
  ASSUME PInv, NEW c \in Chars, NEW f \in Facets, NEW v \in Values,
         SaveDirectly(c, f, v)
  PROVE  PInv'
<1> USE DEF PInv, SaveDirectly, MainFree, flushVars, sweepVars
<1>1. PersistTypeOK'
  <2>1. faults' \in 0..MaxFaults
    BY PersistAssumption DEF PersistTypeOK
  <2>2. mem' \in [Chars -> [Facets -> Values]]
    BY DEF PersistTypeOK
  <2>3. db' \in [Chars -> [Facets -> Values]]
    <3>1. CASE db' = [db EXCEPT ![c][f] = v]
      BY <3>1 DEF PersistTypeOK
    <3>2. CASE UNCHANGED db
      BY <3>2 DEF PersistTypeOK
    <3> QED BY <3>1, <3>2
  <2>4. forgotten' \subseteq Chars \X Facets
    BY DEF PersistTypeOK
  <2> QED BY <2>1, <2>2, <2>3, <2>4 DEF PersistTypeOK
<1>2. LeaverIsIn'
  BY DEF LeaverIsIn
<1>3. Fresh'
  <2> SUFFICES ASSUME NEW r \in batch, r.facet \notin Direct, Live(r)',
                      Settled(r.char, r.facet)'
               PROVE  r.value = mem'[r.char][r.facet]
    BY DEF Fresh
  <2>1. r \in Rows
    BY DEF PersistTypeOK
  <2>3. mem'[r.char][r.facet] = mem[r.char][r.facet]
    BY <2>1 DEF PersistTypeOK, Rows
  <2>4. Live(r) /\ Settled(r.char, r.facet)
    BY DEF Live, Settled
  <2> QED BY <2>3, <2>4 DEF Fresh
<1> QED BY <1>1, <1>2, <1>3 DEF Locked, IdleIsEmpty, WritingIsIn, QueuedIsKnown

(* A character who returns may find rows of its last visit in the queue;    *)
(* it is still entered, so the worker will drop them.                       *)
LEMMA ZoneInInv ==
  ASSUME PInv, NEW c \in Chars, ZoneIn(c)
  PROVE  PInv'
<1> USE DEF PInv, ZoneIn, MainFree, flushVars, sweepVars
<1>1. PersistTypeOK'
  <2>1. mem' \in [Chars -> [Facets -> Values]]
    BY DEF PersistTypeOK
  <2>2. owed' \in [Chars -> SUBSET Facets]
    BY PersistAssumption DEF PersistTypeOK
  <2>3. place' \in [Chars -> {"in", "departing", "out"}]
    BY DEF PersistTypeOK
  <2> QED BY <2>1, <2>2, <2>3 DEF PersistTypeOK
<1>2. LeaverIsIn'
  BY DEF LeaverIsIn
<1>3. WritingIsIn' /\ QueuedIsKnown'
  BY DEF WritingIsIn, QueuedIsKnown, PersistTypeOK, Rows
<1>4. Fresh'
  <2> SUFFICES ASSUME NEW r \in batch, r.facet \notin Direct, Live(r)',
                      Settled(r.char, r.facet)'
               PROVE  r.value = mem'[r.char][r.facet]
    BY DEF Fresh
  <2>1. r \in Rows /\ r.char \in Chars
    BY DEF PersistTypeOK, Rows
  <2>2. r.char # c
    BY <2>1 DEF Live, WritingIsIn, QueuedIsKnown, IdleIsEmpty, PersistTypeOK
  <2>3. mem'[r.char] = mem[r.char] /\ owed'[r.char] = owed[r.char]
    BY <2>1, <2>2 DEF PersistTypeOK
  <2>4. Live(r) /\ Settled(r.char, r.facet)
    BY <2>3 DEF Live, Settled
  <2> QED BY <2>3, <2>4 DEF Fresh
<1> QED BY <1>1, <1>2, <1>3, <1>4 DEF Locked, IdleIsEmpty

LEMMA DepartInv ==
  ASSUME PInv, NEW c \in Chars, Depart(c)
  PROVE  PInv'
<1> USE DEF PInv, Depart, MainFree, flushVars, sweepVars, dbVars
<1>1. \A d \in Chars : place'[d] = "out" <=> place[d] = "out"
  BY DEF PersistTypeOK
<1>2. PersistTypeOK'
  BY DEF PersistTypeOK
<1>3. LeaverIsIn' /\ WritingIsIn' /\ QueuedIsKnown'
  BY <1>1 DEF LeaverIsIn, WritingIsIn, QueuedIsKnown, PersistTypeOK, Rows
<1>4. Fresh'
  BY DEF Fresh, Live, Settled
<1> QED BY <1>2, <1>3, <1>4 DEF Locked, IdleIsEmpty
-----------------------------------------------------------------------------
(* The sweep.                                                               *)

LEMMA CollectInv ==
  ASSUME PInv, Collect
  PROVE  PInv'
<1> USE DEF PInv, Collect, MainFree, flushVars, dbVars
<1>1. \A r \in batch' : /\ r \in Rows
                        /\ place[r.char] # "out"
                        /\ r.value = mem[r.char][r.facet]
  <2> SUFFICES ASSUME NEW c \in Chars, place[c] = "in", NEW r \in RowsOf(c, owed[c])
               PROVE  /\ r \in Rows
                      /\ place[r.char] # "out"
                      /\ r.value = mem[r.char][r.facet]
    OBVIOUS
  <2>1. owed[c] \in SUBSET Facets
    BY DEF PersistTypeOK
  <2> QED BY <2>1, RowsOfAreRows
<1>2. PersistTypeOK'
  <2>1. owed' \in [Chars -> SUBSET Facets]
    BY DEF PersistTypeOK
  <2>2. batch' \subseteq Rows
    BY <1>1
  <2> QED BY <2>1, <2>2 DEF PersistTypeOK
<1>3. LeaverIsIn'
  BY DEF LeaverIsIn
<1> QED BY <1>1, <1>2, <1>3 DEF Locked, IdleIsEmpty, WritingIsIn, QueuedIsKnown, Fresh

LEMMA SweepStartInv ==
  ASSUME PInv, SweepStart
  PROVE  PInv'
<1> USE DEF PInv, SweepStart, flushVars, charVars
<1>1. batch' = {r \in batch : r.char \notin flushed}
  OBVIOUS
<1>2. PersistTypeOK'
  <2>1. Unwritten({r \in batch : r.char \in flushed}) \subseteq Chars \X Facets
    BY DEF Unwritten, PairsOf, Rows, PersistTypeOK
  <2> QED BY <1>1, <2>1 DEF PersistTypeOK
<1>3. LeaverIsIn'
  BY DEF LeaverIsIn
<1>4. WritingIsIn'
  BY <1>1 DEF WritingIsIn, QueuedIsKnown
<1>5. Fresh'
  BY <1>1 DEF Fresh, Live, Settled, Locked
<1> QED BY <1>2, <1>3, <1>4, <1>5 DEF Locked, IdleIsEmpty, QueuedIsKnown

LEMMA SweepWriteInv ==
  ASSUME PInv, SweepWrite
  PROVE  PInv'
<1> USE DEF PInv, SweepWrite, flushVars, charVars
<1>1. NextRows(batch) \subseteq batch
  BY NextRowsAreRows
<1>2. PersistTypeOK'
  <2>1. NextRows(batch) \subseteq Rows
    BY <1>1 DEF PersistTypeOK
  <2>2. /\ db' \in [Chars -> [Facets -> Values]]
        /\ faults' \in 0..MaxFaults
        /\ forgotten' \subseteq Chars \X Facets
    BY <2>1, WriteFacetWrites
  <2> QED BY <2>2 DEF PersistTypeOK
<1>3. LeaverIsIn'
  BY DEF LeaverIsIn
<1>4. Fresh'
  BY DEF Fresh, Live, Settled
<1> QED BY <1>2, <1>3, <1>4 DEF Locked, IdleIsEmpty, WritingIsIn, QueuedIsKnown

LEMMA SweepDoneInv ==
  ASSUME PInv, SweepDone
  PROVE  PInv'
<1> USE DEF PInv, SweepDone, flushVars, charVars, dbVars
<1>1. PersistTypeOK'
  BY DEF PersistTypeOK
<1>2. LeaverIsIn'
  BY DEF LeaverIsIn
<1> QED BY <1>1, <1>2 DEF Locked, IdleIsEmpty, WritingIsIn, QueuedIsKnown, Fresh
-----------------------------------------------------------------------------
(* The teardown.                                                            *)

(* The rows a flush collects are the leaver's, as memory holds them, and    *)
(* its effects are among them; nothing else of memory has changed.          *)
LEMMA BeginFlushRows ==
  ASSUME PersistTypeOK, NEW c \in Chars, NEW v \in Values, BeginFlush(c, v)
  PROVE  /\ mem' \in [Chars -> [Facets -> Values]]
         /\ owed' \in [Chars -> SUBSET Facets]
         /\ rows' \subseteq Rows
         /\ \A r \in rows' : r.char = c /\ r.value = mem'[r.char][r.facet]
         /\ \A f \in owed[c] \cup {Effects} : <<c, f>> \in PairsOf(rows')
         /\ \A d \in Chars, f \in Facets :
              mem'[d][f] # mem[d][f] => d = c /\ f = Effects
         /\ owed'[c] = {}
         /\ \A d \in Chars \ {c} : owed'[d] = owed[d]
<1> USE DEF BeginFlush
<1>1. mem' \in [Chars -> [Facets -> Values]]
  BY PersistAssumption DEF PersistTypeOK
<1>2. /\ owed' \in [Chars -> SUBSET Facets]
      /\ owed'[c] = {}
      /\ \A d \in Chars \ {c} : owed'[d] = owed[d]
  BY DEF PersistTypeOK
<1>3. owed[c] \cup {Effects} \subseteq Facets
  BY PersistAssumption DEF PersistTypeOK
<1>4. /\ rows' \subseteq Rows
      /\ \A r \in rows' : r.char = c /\ r.value = mem'[r.char][r.facet]
  BY <1>1, <1>3 DEF Rows
<1>5. ASSUME NEW f \in owed[c] \cup {Effects}
      PROVE  <<c, f>> \in PairsOf(rows')
  <2>1. [char |-> c, facet |-> f, value |-> mem'[c][f]] \in rows'
    OBVIOUS
  <2> QED BY <2>1 DEF PairsOf
<1>6. \A d \in Chars, f \in Facets : mem'[d][f] # mem[d][f] => d = c /\ f = Effects
  BY PersistAssumption DEF PersistTypeOK
<1> QED BY <1>1, <1>2, <1>4, <1>5, <1>6

LEMMA TeardownInv ==
  ASSUME PInv, NEW c \in Chars, NEW v \in Values, Teardown(c, v)
  PROVE  PInv'
<1> USE DEF PInv, MainFree, sweepVars
<1> BeginFlush(c, v)
  BY DEF Teardown
<1>a. /\ place' = place /\ db' = db /\ faults' = faults /\ UNCHANGED sweepVars
      /\ leaving' = c /\ teardown' = "waiting" /\ again' \in BOOLEAN /\ flushed' = flushed
      /\ forgotten' \subseteq forgotten /\ place[c] # "out"
  BY DEF Teardown, BeginFlush
<1>b. /\ mem' \in [Chars -> [Facets -> Values]] /\ owed' \in [Chars -> SUBSET Facets]
      /\ rows' \subseteq Rows /\ owed'[c] = {}
      /\ \A r \in rows' : r.char = c /\ r.value = mem'[r.char][r.facet]
  BY BeginFlushRows
<1>1. PersistTypeOK'
  BY <1>a, <1>b DEF PersistTypeOK
<1>2. LeaverIsIn'
  BY <1>a, <1>b DEF LeaverIsIn
<1>3. Fresh'
  <2> SUFFICES ASSUME NEW r \in batch, r.facet \notin Direct, Live(r)',
                      Settled(r.char, r.facet)'
               PROVE  r.value = mem'[r.char][r.facet]
    BY DEF Fresh, BeginFlush
  <2>1. r \in Rows /\ r.char \in Chars /\ r.facet \in Facets
    BY DEF PersistTypeOK, Rows
  <2>2. mem'[r.char][r.facet] = mem[r.char][r.facet]
    BY <2>1, BeginFlushRows DEF Settled
  <2>3. r.facet \notin owed[r.char]
    BY <2>1, BeginFlushRows DEF Settled
  <2>4. rows = {}
    BY DEF LeaverIsIn, Teardown
  <2>5. Live(r) /\ Settled(r.char, r.facet)
    BY <2>3, <2>4 DEF Live, Settled, PairsOf, Teardown, BeginFlush
  <2> QED BY <2>2, <2>5 DEF Fresh
<1> QED BY <1>1, <1>2, <1>3 DEF Locked, IdleIsEmpty, WritingIsIn, QueuedIsKnown,
                               Teardown, BeginFlush

LEMMA FlushStartInv ==
  ASSUME PInv, FlushStart
  PROVE  PInv'
<1> USE DEF PInv, FlushStart, charVars, sweepVars, dbVars
<1>1. PersistTypeOK'
  BY DEF PersistTypeOK
<1>2. LeaverIsIn'
  BY DEF LeaverIsIn
<1>3. Fresh'
  BY DEF Fresh, Live, Settled
<1> QED BY <1>1, <1>2, <1>3 DEF Locked, IdleIsEmpty, WritingIsIn, QueuedIsKnown

LEMMA FlushWriteInv ==
  ASSUME PInv, FlushWrite
  PROVE  PInv'
<1> USE DEF PInv, FlushWrite, charVars, sweepVars
<1>1. NextRows(rows) \subseteq rows
  BY NextRowsAreRows
<1>2. PersistTypeOK'
  <2>1. NextRows(rows) \subseteq Rows
    BY <1>1 DEF PersistTypeOK
  <2>2. /\ db' \in [Chars -> [Facets -> Values]]
        /\ faults' \in 0..MaxFaults
        /\ forgotten' \subseteq Chars \X Facets
    BY <2>1, WriteFacetWrites
  <2> QED BY <2>2 DEF PersistTypeOK
<1>3. LeaverIsIn'
  BY DEF LeaverIsIn
<1>4. Fresh'
  <2> SUFFICES ASSUME NEW r \in batch, r.facet \notin Direct, Live(r)',
                      Settled(r.char, r.facet)'
               PROVE  r.value = mem[r.char][r.facet]
    BY DEF Fresh
  <2>1. \A q \in rows : q.char # r.char
    BY DEF Live, LeaverIsIn
  <2>2. Live(r) /\ Settled(r.char, r.facet)
    BY <2>1 DEF Live, Settled, PairsOf
  <2> QED BY <2>2 DEF Fresh
<1> QED BY <1>2, <1>3, <1>4 DEF Locked, IdleIsEmpty, WritingIsIn, QueuedIsKnown

(* Whoever leaves is entered first, so that its rows are not live.          *)
LEMMA FlushDoneInv ==
  ASSUME PInv, FlushDone
  PROVE  PInv'
<1> USE DEF PInv, FlushDone, sweepVars, dbVars
<1>1. leaving \in Chars
  BY DEF LeaverIsIn
<1>2. PersistTypeOK'
  BY <1>1 DEF PersistTypeOK
<1>3. LeaverIsIn'
  BY DEF LeaverIsIn
<1>4. sweep # "writing"
  BY DEF Locked
<1>5. QueuedIsKnown'
  BY <1>1 DEF QueuedIsKnown, PersistTypeOK, Rows
<1>6. Fresh'
  BY <1>4 DEF Fresh, Live, Settled
<1> QED BY <1>2, <1>3, <1>4, <1>5, <1>6 DEF Locked, IdleIsEmpty, WritingIsIn

LEMMA FlushAgainInv ==
  ASSUME PInv, NEW v \in Values, FlushAgain(v)
  PROVE  PInv'
<1> USE DEF PInv, sweepVars
<1> BeginFlush(leaving, v) /\ leaving \in Chars
  BY DEF FlushAgain, LeaverIsIn
<1>a. /\ place' = place /\ db' = db /\ faults' = faults /\ UNCHANGED sweepVars
      /\ leaving' = leaving /\ teardown' = "waiting" /\ again' = FALSE
      /\ flushed' = flushed \cup {leaving}
      /\ forgotten' \subseteq forgotten /\ place[leaving] # "out"
  BY DEF FlushAgain, BeginFlush, LeaverIsIn
<1>b. /\ mem' \in [Chars -> [Facets -> Values]] /\ owed' \in [Chars -> SUBSET Facets]
      /\ rows' \subseteq Rows /\ owed'[leaving] = {}
      /\ \A r \in rows' : r.char = leaving /\ r.value = mem'[r.char][r.facet]
  BY BeginFlushRows
<1>1. PersistTypeOK'
  BY <1>a, <1>b DEF PersistTypeOK
<1>2. LeaverIsIn'
  BY <1>a, <1>b DEF LeaverIsIn
<1>3. sweep # "writing" /\ sweep' = sweep
  BY DEF Locked, FlushAgain, BeginFlush
<1>4. Fresh'
  <2> SUFFICES ASSUME NEW r \in batch, r.facet \notin Direct, Live(r)',
                      Settled(r.char, r.facet)'
               PROVE  r.value = mem'[r.char][r.facet]
    BY DEF Fresh, BeginFlush
  <2>1. r \in Rows /\ r.char \in Chars /\ r.facet \in Facets
    BY DEF PersistTypeOK, Rows
  <2>2. r.char # leaving /\ r.char \notin flushed
    BY <1>3 DEF Live, FlushAgain
  <2>3. mem'[r.char][r.facet] = mem[r.char][r.facet] /\ owed'[r.char] = owed[r.char]
    BY <2>1, <2>2, BeginFlushRows
  <2>4. rows = {}
    BY DEF FlushAgain
  <2>5. Live(r) /\ Settled(r.char, r.facet)
    BY <2>2, <2>3, <2>4 DEF Live, Settled, PairsOf
  <2> QED BY <2>3, <2>5 DEF Fresh
<1> QED BY <1>1, <1>2, <1>3, <1>4 DEF Locked, IdleIsEmpty, WritingIsIn,
                                    QueuedIsKnown, FlushAgain, BeginFlush
-----------------------------------------------------------------------------
LEMMA NextInv == PInv /\ [Next]_vars => PInv'
<1> SUFFICES ASSUME PInv, [Next]_vars PROVE PInv'
  OBVIOUS
<1>1. CASE UNCHANGED vars
  BY <1>1 DEF vars, charVars, dbVars, sweepVars, flushVars, PInv, PersistTypeOK,
              Locked, LeaverIsIn, IdleIsEmpty, WritingIsIn, QueuedIsKnown, Fresh,
              Live, Settled
<1>2. CASE Next
  BY <1>2, ChangeInv, SaveDirectlyInv, ZoneInInv, DepartInv, CollectInv, SweepStartInv,
     SweepWriteInv, SweepDoneInv, TeardownInv, FlushStartInv, FlushWriteInv,
     FlushDoneInv, FlushAgainInv
  DEF Next
<1> QED BY <1>1, <1>2

(* The invariant holds of every behaviour.                                  *)
THEOREM PersistInvariant == Spec => []PInv
BY InitInv, NextInv, PTL DEF Spec

(* Every reachable state is well typed.                                     *)
THEOREM PersistTypeCorrect == Spec => []PersistTypeOK
<1>1. PInv => PersistTypeOK
  BY DEF PInv
<1> QED BY <1>1, PersistInvariant, PTL
-----------------------------------------------------------------------------
(* A step changes the database of a facet only by a handler's direct save,  *)
(* or to a row of a writer that holds the lock.                             *)
LEMMA DatabaseChanges ==
  ASSUME PInv, [Next]_vars, NEW c \in Chars, NEW f \in Facets,
         db'[c][f] # db[c][f]
  PROVE  /\ place[c] # "out"
         /\ f \in Direct \/ db'[c][f] = mem[c][f] \/ ~Settled(c, f)
<1> USE DEF PInv
<1>1. ASSUME NEW d \in Chars, NEW g \in Facets, NEW v \in Values,
             SaveDirectly(d, g, v)
      PROVE  c = d /\ f = g /\ place[d] # "out" /\ g \in Direct
  BY <1>1 DEF SaveDirectly, PersistTypeOK
<1>2. CASE SweepWrite
  <2>1. NextRows(batch) \subseteq batch /\ batch \subseteq Rows
    BY NextRowsAreRows DEF PersistTypeOK
  <2>2. WriteFacet(NextRows(batch))
    BY <1>2 DEF SweepWrite
  <2>3. PICK r \in batch : r.char = c /\ r.facet = f /\ db'[c][f] = r.value
    BY <2>1, <2>2, WriteFacetWrites
  <2>4. place[c] # "out" /\ Live(r)
    BY <1>2, <2>3 DEF WritingIsIn, SweepWrite, Live, Locked
  <2> QED BY <2>3, <2>4 DEF Fresh
<1>3. CASE FlushWrite
  <2>1. NextRows(rows) \subseteq rows /\ rows \subseteq Rows
    BY NextRowsAreRows DEF PersistTypeOK
  <2>2. WriteFacet(NextRows(rows))
    BY <1>3 DEF FlushWrite
  <2>3. PICK r \in rows : r.char = c /\ r.facet = f /\ db'[c][f] = r.value
    BY <2>1, <2>2, WriteFacetWrites
  <2> QED BY <1>3, <2>3 DEF LeaverIsIn, FlushWrite
<1>4. CASE UNCHANGED db
  BY <1>4
<1> QED BY <1>1, <1>2, <1>3, <1>4
        DEF Next, vars, dbVars, Change, ZoneIn, Depart, Collect, SweepStart, SweepDone,
            Teardown, BeginFlush, FlushStart, FlushDone, FlushAgain

(* Sweeps and teardowns do not interleave: nothing is written of a          *)
(* character who is out.                                                    *)
THEOREM NothingWrittenAfterLeaving == Spec => LeftForGood
<1>1. PInv /\ [Next]_vars => [\A c \in Chars : place[c] = "out" => db'[c] = db[c]]_vars
  <2> SUFFICES ASSUME PInv, [Next]_vars, vars' # vars, NEW c \in Chars, place[c] = "out"
               PROVE  db'[c] = db[c]
    BY DEF vars
  <2>1. PersistTypeOK /\ PersistTypeOK'
    BY NextInv DEF PInv
  <2>2. \A f \in Facets : db'[c][f] = db[c][f]
    BY DatabaseChanges
  <2>3. db[c] \in [Facets -> Values] /\ db'[c] \in [Facets -> Values]
    BY <2>1 DEF PersistTypeOK
  <2> QED BY <2>2, <2>3
<1> QED BY <1>1, PersistInvariant, PTL DEF Spec, LeftForGood

(* A facet at rest that the database has right stays right.                 *)
THEOREM NoStaleOverwrite == Spec => NeverGoesBack
<1>1. PInv /\ [Next]_vars
        => [\A c \in Chars, f \in Facets \ Direct :
              Settled(c, f) /\ db[c][f] = mem[c][f] => db'[c][f] = db[c][f]]_vars
  BY DatabaseChanges DEF vars
<1> QED BY <1>1, PersistInvariant, PTL DEF Spec, NeverGoesBack
-----------------------------------------------------------------------------
(* What differs from the database is accounted for, facet by facet.         *)
Tracked(c, f) ==
  mem[c][f] # db[c][f] =>
    \/ f \in owed[c]
    \/ <<c, f>> \in PairsOf(batch) \cup PairsOf(rows)
    \/ <<c, f>> \in forgotten

(* A facet's transaction either writes a row of every facet it has, or is   *)
(* remembered for those that nothing else will write.                       *)
LEMMA WriteFacetTracks ==
  ASSUME NEW rs, WriteFacet(rs), NEW c \in Chars, NEW f \in Facets
  PROVE  /\ forgotten \subseteq forgotten'
         /\ <<c, f>> \notin PairsOf(rs) => db'[c][f] = db[c][f]
         /\ <<c, f>> \in PairsOf(rs) =>
              \/ \E r \in rs : r.char = c /\ r.facet = f /\ db'[c][f] = r.value
              \/ /\ db'[c][f] = db[c][f]
                 /\ mem[c][f] # db[c][f] /\ f \notin owed[c] => <<c, f>> \in forgotten'
<1>1. CASE /\ db' = [d \in Chars |-> [g \in Facets |->
                 IF <<d, g>> \in PairsOf(rs)
                 THEN (CHOOSE r \in rs : r.char = d /\ r.facet = g).value
                 ELSE db[d][g]]]
           /\ UNCHANGED <<faults, forgotten>>
  <2>1. ASSUME <<c, f>> \in PairsOf(rs)
        PROVE  \E r \in rs : r.char = c /\ r.facet = f /\ db'[c][f] = r.value
    <3>1. PICK q \in rs : q.char = c /\ q.facet = f
      BY <2>1 DEF PairsOf
    <3>2. DEFINE r == CHOOSE r \in rs : r.char = c /\ r.facet = f
    <3>3. r \in rs /\ r.char = c /\ r.facet = f
      BY <3>1
    <3>4. db'[c][f] = r.value
      BY <1>1, <2>1
    <3> QED BY <3>3, <3>4
  <2>2. <<c, f>> \notin PairsOf(rs) => db'[c][f] = db[c][f]
    BY <1>1
  <2> QED BY <1>1, <2>1, <2>2
<1>2. CASE forgotten' = forgotten \cup Unwritten(rs) /\ UNCHANGED db
  BY <1>2 DEF Unwritten
<1> QED BY <1>1, <1>2 DEF WriteFacet

LEMMA TrackedStep ==
  ASSUME PInv, [Next]_vars, NEW c \in Chars, NEW f \in Facets \ Direct, Tracked(c, f)
  PROVE  Tracked(c, f)'
<1> USE DEF PInv
<1>1. ASSUME NEW d \in Chars, NEW g \in Facets, NEW v \in Values, Change(d, g, v)
      PROVE  Tracked(c, f)'
  <2>1. CASE c = d /\ f = g
    BY <1>1, <2>1 DEF Change, Tracked, PersistTypeOK
  <2>2. CASE ~(c = d /\ f = g)
    <3>1. mem'[c][f] = mem[c][f] /\ owed[c] \subseteq owed'[c]
      BY <1>1, <2>2 DEF Change, PersistTypeOK
    <3>2. <<c, f>> \in forgotten => <<c, f>> \in forgotten'
      BY <1>1, <2>2 DEF Change
    <3> QED BY <1>1, <3>1, <3>2 DEF Change, Tracked, sweepVars, flushVars
  <2> QED BY <2>1, <2>2
<1>2. ASSUME NEW d \in Chars, NEW g \in Facets, NEW v \in Values, SaveDirectly(d, g, v)
      PROVE  Tracked(c, f)'
  <2>1. <<c, f>> # <<d, g>>
    BY <1>2 DEF SaveDirectly
  <2>2. mem'[c][f] = mem[c][f]
    BY <1>2, <2>1 DEF SaveDirectly, PersistTypeOK
  <2>3. db'[c][f] = db[c][f]
    BY <1>2, <2>1 DEF SaveDirectly, PersistTypeOK
  <2>4. <<c, f>> \in forgotten => <<c, f>> \in forgotten'
    BY <1>2, <2>1 DEF SaveDirectly
  <2> QED BY <1>2, <2>2, <2>3, <2>4 DEF SaveDirectly, Tracked, sweepVars, flushVars
<1>3. ASSUME NEW d \in Chars, ZoneIn(d)
      PROVE  Tracked(c, f)'
  <2>1. CASE c = d
    <3>1. mem'[c] = db'[c]
      BY <1>3, <2>1 DEF ZoneIn, PersistTypeOK
    <3> QED BY <3>1 DEF Tracked
  <2>2. CASE c # d
    <3>1. mem'[c] = mem[c] /\ owed'[c] = owed[c]
      BY <1>3, <2>2 DEF ZoneIn, PersistTypeOK
    <3>2. <<c, f>> \in forgotten => <<c, f>> \in forgotten'
      BY <1>3, <2>2 DEF ZoneIn
    <3> QED BY <1>3, <3>1, <3>2 DEF ZoneIn, Tracked, sweepVars, flushVars
  <2> QED BY <2>1, <2>2
<1>4. CASE Collect
  <2>1. batch = {} /\ PairsOf(batch) = {}
    BY <1>4 DEF Collect, IdleIsEmpty, PairsOf
  <2>2. ASSUME f \in owed[c], place[c] = "in"
        PROVE  <<c, f>> \in PairsOf(batch')
    <3>1. [char |-> c, facet |-> f, value |-> mem[c][f]] \in RowsOf(c, owed[c])
      BY <2>2 DEF RowsOf
    <3>2. [char |-> c, facet |-> f, value |-> mem[c][f]] \in batch'
      BY <1>4, <2>2, <3>1 DEF Collect
    <3> QED BY <3>2 DEF PairsOf
  <2>3. f \in owed[c] /\ place[c] # "in" => f \in owed'[c]
    BY <1>4 DEF Collect, PersistTypeOK
  <2> QED BY <1>4, <2>1, <2>2, <2>3 DEF Collect, Tracked, dbVars, flushVars
<1>5. CASE SweepStart
  <2>1. ASSUME <<c, f>> \in PairsOf(batch), <<c, f>> \notin PairsOf(batch'),
               mem[c][f] # db[c][f], f \notin owed[c]
        PROVE  <<c, f>> \in forgotten'
    <3>1. <<c, f>> \in PairsOf({r \in batch : r.char \in flushed})
      BY <1>5, <2>1 DEF SweepStart, PairsOf
    <3>2. <<c, f>> \in Unwritten({r \in batch : r.char \in flushed})
      BY <2>1, <3>1 DEF Unwritten
    <3> QED BY <1>5, <3>2 DEF SweepStart
  <2>2. forgotten \subseteq forgotten'
    BY <1>5 DEF SweepStart
  <2> QED BY <1>5, <2>1, <2>2 DEF SweepStart, Tracked, charVars, flushVars
<1>6. CASE SweepWrite
  <2> DEFINE rs == NextRows(batch)
  <2> WriteFacet(rs)
    BY <1>6 DEF SweepWrite
  <2>1. /\ forgotten \subseteq forgotten'
        /\ <<c, f>> \notin PairsOf(rs) => db'[c][f] = db[c][f]
        /\ <<c, f>> \in PairsOf(rs) =>
             \/ \E r \in rs : r.char = c /\ r.facet = f /\ db'[c][f] = r.value
             \/ /\ db'[c][f] = db[c][f]
                /\ mem[c][f] # db[c][f] /\ f \notin owed[c] => <<c, f>> \in forgotten'
    BY WriteFacetTracks
  <2>2. UNCHANGED <<mem, owed, rows>>
    BY <1>6 DEF SweepWrite, charVars, flushVars
  <2>3. CASE <<c, f>> \notin PairsOf(rs)
    <3>1. <<c, f>> \in PairsOf(batch) => <<c, f>> \in PairsOf(batch')
      BY <1>6, <2>3 DEF SweepWrite, PairsOf
    <3> QED BY <2>1, <2>2, <2>3, <3>1 DEF Tracked
  <2>4. CASE \E r \in rs : r.char = c /\ r.facet = f /\ db'[c][f] = r.value
    <3>1. PICK r \in rs : r.char = c /\ r.facet = f /\ db'[c][f] = r.value
      BY <2>4
    <3>2. r \in batch /\ Live(r)
      BY <1>6, NextRowsAreRows DEF SweepWrite, Live, Locked
    <3>3. Settled(c, f) => mem[c][f] = db'[c][f]
      BY <3>1, <3>2 DEF Fresh
    <3> QED BY <2>2, <3>3 DEF Tracked, Settled
  <2>5. CASE /\ db'[c][f] = db[c][f]
             /\ mem[c][f] # db[c][f] /\ f \notin owed[c] => <<c, f>> \in forgotten'
    BY <2>2, <2>5 DEF Tracked
  <2> QED BY <2>1, <2>3, <2>4, <2>5
<1>7. CASE FlushWrite
  <2> DEFINE rs == NextRows(rows)
  <2> WriteFacet(rs)
    BY <1>7 DEF FlushWrite
  <2>1. /\ forgotten \subseteq forgotten'
        /\ <<c, f>> \notin PairsOf(rs) => db'[c][f] = db[c][f]
        /\ <<c, f>> \in PairsOf(rs) =>
             \/ \E r \in rs : r.char = c /\ r.facet = f /\ db'[c][f] = r.value
             \/ /\ db'[c][f] = db[c][f]
                /\ mem[c][f] # db[c][f] /\ f \notin owed[c] => <<c, f>> \in forgotten'
    BY WriteFacetTracks
  <2>2. UNCHANGED <<mem, owed, batch>>
    BY <1>7 DEF FlushWrite, charVars, sweepVars
  <2>3. CASE <<c, f>> \notin PairsOf(rs)
    <3>1. <<c, f>> \in PairsOf(rows) => <<c, f>> \in PairsOf(rows')
      BY <1>7, <2>3 DEF FlushWrite, PairsOf
    <3> QED BY <2>1, <2>2, <2>3, <3>1 DEF Tracked
  <2>4. CASE \E r \in rs : r.char = c /\ r.facet = f /\ db'[c][f] = r.value
    <3>1. PICK r \in rs : r.char = c /\ r.facet = f /\ db'[c][f] = r.value
      BY <2>4
    <3>2. r \in rows
      BY NextRowsAreRows
    <3>3. mem[c][f] = db'[c][f]
      BY <1>7, <3>1, <3>2 DEF FlushWrite, LeaverIsIn
    <3> QED BY <2>2, <3>3 DEF Tracked
  <2>5. CASE /\ db'[c][f] = db[c][f]
             /\ mem[c][f] # db[c][f] /\ f \notin owed[c] => <<c, f>> \in forgotten'
    BY <2>2, <2>5 DEF Tracked
  <2> QED BY <2>1, <2>3, <2>4, <2>5
<1>8. ASSUME NEW d \in Chars, NEW v \in Values, BeginFlush(d, v), rows = {}
      PROVE  Tracked(c, f)'
  <2>1. mem'[c][f] # mem[c][f] => <<c, f>> \in PairsOf(rows')
    BY <1>8, BeginFlushRows
  <2>2. f \in owed[c] => f \in owed'[c] \/ <<c, f>> \in PairsOf(rows')
    BY <1>8, BeginFlushRows
  <2>3. <<c, f>> \in forgotten => <<c, f>> \in forgotten' \/ <<c, f>> \in PairsOf(rows')
    BY <1>8, BeginFlushRows DEF BeginFlush
  <2>4. PairsOf(rows) = {}
    BY <1>8 DEF PairsOf
  <2>5. db' = db /\ batch' = batch
    BY <1>8 DEF BeginFlush, sweepVars
  <2> QED BY <2>1, <2>2, <2>3, <2>4, <2>5 DEF Tracked
<1>9. ASSUME NEW d \in Chars, NEW v \in Values, Teardown(d, v)
      PROVE  Tracked(c, f)'
  BY <1>8, <1>9 DEF Teardown, MainFree, LeaverIsIn
<1>10. ASSUME NEW v \in Values, FlushAgain(v)
       PROVE  Tracked(c, f)'
  BY <1>8, <1>10 DEF FlushAgain, LeaverIsIn
<1>11. ASSUME NEW d \in Chars, Depart(d)
       PROVE  Tracked(c, f)'
  BY <1>11 DEF Depart, Tracked, dbVars, sweepVars, flushVars
<1>12. CASE SweepDone \/ FlushStart \/ FlushDone \/ UNCHANGED vars
  BY <1>12 DEF SweepDone, FlushStart, FlushDone, vars, Tracked, charVars, dbVars,
               sweepVars, flushVars
<1> QED BY <1>1, <1>2, <1>3, <1>4, <1>5, <1>6, <1>7, <1>9, <1>10, <1>11,
       <1>12 DEF Next

(* No change is lost while others write: memory and database differ only by *)
(* what is flagged, on its way, or known to have been dropped or failed.    *)
THEOREM NothingSlipsThrough == Spec => []OwedOrOnItsWay
<1>1. Init => OwedOrOnItsWay
  BY DEF Init, OwedOrOnItsWay
<1>2. PInv /\ OwedOrOnItsWay /\ [Next]_vars => OwedOrOnItsWay'
  <2> SUFFICES ASSUME PInv, OwedOrOnItsWay, [Next]_vars,
                      NEW c \in Chars, NEW f \in Facets \ Direct
               PROVE  Tracked(c, f)'
    BY DEF OwedOrOnItsWay, Tracked
  <2>1. Tracked(c, f)
    BY DEF OwedOrOnItsWay, Tracked
  <2> QED BY <2>1, TrackedStep
<1> QED BY <1>1, <1>2, PersistInvariant, PTL DEF Spec
=============================================================================
