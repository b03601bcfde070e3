----------------------------- MODULE PersistSweep -----------------------------
(***************************************************************************)
(* How characters reach the database (map/persist_batch.cpp, and           *)
(* MapEngine::persistSweep in map/map_engine.cpp).                         *)
(*                                                                         *)
(* What a character is made of is split into facets: position, status      *)
(* effects, equipment, appearance, character variables.  A change on the   *)
(* main thread alters memory and flags its facet.  Every few seconds the   *)
(* main thread collects the rows of all flagged facets, clears the flags   *)
(* and hands the rows to a worker thread, which writes them one facet      *)
(* after the other, each in a transaction of its own.  A character who     *)
(* leaves the zone is written at once by the main thread instead.  The two *)
(* writers share the lock of `flushedAtTeardown' and the set it guards:    *)
(* the characters whose rows the worker must drop.                         *)
(*                                                                         *)
(* Memory and database hold, per character and facet, one of a small set   *)
(* of Values.  mem[c] of a character who has left is what the player last  *)
(* saw of it; the program reads it no more.                                *)
(***************************************************************************)
EXTENDS Integers, Sequences

CONSTANTS
  Chars,        \* characters played on this map server
  Values,       \* what a facet can be
  WriteOrder,   \* the facets, in the order writeRows writes them
  Effects,      \* the facet every teardown rewrites
  LoadFlags,    \* the facets loading worn equipment flags: Equip and Look
  Direct,       \* the facets some handlers also write at once: Equip
  Initial,      \* what the database holds of every character and facet
  None,         \* no character is being torn down
  MaxFaults     \* bound: database transactions that fail

Facets == {WriteOrder[i] : i \in 1..Len(WriteOrder)}
Rows   == [char : Chars, facet : Facets, value : Values]

ASSUME PersistAssumption ==
  /\ WriteOrder \in Seq(STRING)
  /\ Effects \in Facets
  /\ LoadFlags \subseteq Facets \ {Effects}
  /\ Direct \subseteq Facets
  /\ Initial \in Values
  /\ None \notin Chars
  /\ MaxFaults \in Nat

VARIABLES
  place,      \* place[c]: "in" a zone, "departing" from it, or "out"
  mem, db,    \* mem[c][f], db[c][f]: the facet in memory, in the database
  owed,       \* owed[c]: CCharEntity's persist_ flags, and charVarChanges
  sweep,      \* the sweep: "idle", "queued" on the worker pool, "writing"
  batch,      \* the sweep's rows
  teardown,   \* the flush: "idle", "waiting" for the lock, "writing"
  leaving,    \* whom it writes, or None
  again,      \* a timed out session is flushed once more after the first
  rows,       \* the flush's rows
  flushed,    \* flushedAtTeardown
  faults,     \* database transactions failed so far
  forgotten   \* facets whose last row was lost, though nothing owes it

flushVars == <<teardown, leaving, again, rows>>
sweepVars == <<sweep, batch>>
charVars  == <<place, mem, owed>>
dbVars    == <<db, faults, forgotten>>
vars == <<charVars, dbVars, sweepVars, flushVars, flushed>>

PersistTypeOK ==
  /\ place \in [Chars -> {"in", "departing", "out"}]
  /\ mem \in [Chars -> [Facets -> Values]]
  /\ db \in [Chars -> [Facets -> Values]]
  /\ owed \in [Chars -> SUBSET Facets]
  /\ sweep \in {"idle", "queued", "writing"}
  /\ batch \subseteq Rows
  /\ teardown \in {"idle", "waiting", "writing"}
  /\ leaving \in Chars \cup {None}
  /\ again \in BOOLEAN
  /\ rows \subseteq Rows
  /\ flushed \subseteq Chars
  /\ faults \in 0..MaxFaults
  /\ forgotten \subseteq Chars \X Facets

Init ==
  /\ place = [c \in Chars |-> "out"]
  /\ mem = [c \in Chars |-> [f \in Facets |-> Initial]]
  /\ db = mem
  /\ owed = [c \in Chars |-> {}]
  /\ sweep = "idle" /\ batch = {}
  /\ teardown = "idle" /\ leaving = None /\ again = FALSE /\ rows = {}
  /\ flushed = {}
  /\ faults = 0
  /\ forgotten = {}

(* The main thread is free unless it is inside persist::flush.              *)
MainFree == teardown = "idle"

-----------------------------------------------------------------------------
(* Changes on the main thread.                                              *)

(* setPersist, or setVolatileCharVar: the facet changes and is flagged.     *)
Change(c, f, v) ==
  /\ MainFree /\ place[c] # "out"
  /\ v # mem[c][f]
  /\ mem' = [mem EXCEPT ![c][f] = v]
  /\ owed' = [owed EXCEPT ![c] = @ \cup {f}]
  /\ forgotten' = forgotten \ {<<c, f>>}
  /\ UNCHANGED <<place, db, faults, sweepVars, flushVars, flushed>>

(* The linkshell handlers change the equipment and call SaveCharEquip: a    *)
(* transaction on the main thread's own connection, without lock or flag.   *)
SaveDirectly(c, f, v) ==
  /\ MainFree /\ place[c] # "out" /\ f \in Direct
  /\ v # mem[c][f]
  /\ mem' = [mem EXCEPT ![c][f] = v]
  /\ \/ /\ db' = [db EXCEPT ![c][f] = v]
        /\ forgotten' = forgotten \ {<<c, f>>}
        /\ UNCHANGED faults
     \/ /\ faults < MaxFaults
        /\ faults' = faults + 1
        /\ forgotten' = forgotten \cup {<<c, f>>}
        /\ UNCHANGED db
  /\ UNCHANGED <<place, owed, sweepVars, flushVars, flushed>>

(* LoadChar reads every facet; LoadStatusEffects ends by clearing its flag, *)
(* and putting the worn equipment on flags Equip and Look.                  *)
ZoneIn(c) ==
  /\ MainFree /\ place[c] = "out"
  /\ place' = [place EXCEPT ![c] = "in"]
  /\ mem' = [mem EXCEPT ![c] = db[c]]
  /\ \E flags \in {{}, LoadFlags} : owed' = [owed EXCEPT ![c] = flags]
  /\ forgotten' = forgotten \ ({c} \X Facets)
  /\ UNCHANGED <<db, faults, sweepVars, flushVars, flushed>>

(* A zone line, a warp or a logout sets the status Disappear or Shutdown;   *)
(* the teardown follows with the zone's tick, or when the session times out.*)
Depart(c) ==
  /\ MainFree /\ place[c] = "in"
  /\ place' = [place EXCEPT ![c] = "departing"]
  /\ UNCHANGED <<mem, owed, dbVars, sweepVars, flushVars, flushed>>
-----------------------------------------------------------------------------
(* Writing rows.                                                            *)

(* PersistBatch::add: one row for every flagged facet.                      *)
RowsOf(c, flags) ==
  {[char |-> c, facet |-> f, value |-> mem[c][f]] : f \in flags}

PairsOf(rs) == {<<r.char, r.facet>> : r \in rs}

(* The facets whose rows are gone unwritten although memory, unflagged,     *)
(* differs from the database.                                               *)
Unwritten(rs) ==
  {x \in PairsOf(rs) : x[2] \notin owed[x[1]] /\ mem[x[1]][x[2]] # db[x[1]][x[2]]}

(* writeRows takes the facets in order; one without rows is skipped.        *)
NextRows(rs) ==
  LET i == CHOOSE i \in 1..Len(WriteOrder) :
             /\ \E r \in rs : r.facet = WriteOrder[i]
             /\ \A j \in 1..(i - 1) : \A r \in rs : r.facet # WriteOrder[j]
  IN  {r \in rs : r.facet = WriteOrder[i]}

(* One facet's transaction: all of its rows, or none when it fails, which   *)
(* nobody checks.                                                           *)
WriteFacet(rs) ==
  \/ /\ db' = [c \in Chars |-> [f \in Facets |->
                 IF <<c, f>> \in PairsOf(rs)
                 THEN (CHOOSE r \in rs : r.char = c /\ r.facet = f).value
                 ELSE db[c][f]]]
     /\ UNCHANGED <<faults, forgotten>>
  \/ /\ faults < MaxFaults
     /\ faults' = faults + 1
     /\ forgotten' = forgotten \cup Unwritten(rs)
     /\ UNCHANGED db
-----------------------------------------------------------------------------
(* The sweep.                                                               *)

(* Mutant: no sweep while a teardown is remembered.                         *)
CollectUnlessFlushed ==
  /\ MainFree /\ sweep = "idle" /\ flushed = {}
  /\ sweep' = "queued"
  /\ batch' = UNION {RowsOf(c, owed[c]) : c \in {d \in Chars : place[d] = "in"}}
  /\ owed' = [c \in Chars |-> IF place[c] = "in" THEN {} ELSE owed[c]]
  /\ UNCHANGED <<place, mem, dbVars, flushVars, flushed>>

(* MapEngine::persistSweep up to its co_await, in one go on the main        *)
(* thread; departing characters are left to their teardown.  The interval   *)
(* awaits it, so that sweeps do not overlap.                                *)
Collect ==
  /\ MainFree /\ sweep = "idle"
  /\ sweep' = "queued"
  /\ batch' = UNION {RowsOf(c, owed[c]) : c \in {d \in Chars : place[d] = "in"}}
  /\ owed' = [c \in Chars |-> IF place[c] = "in" THEN {} ELSE owed[c]]
  /\ UNCHANGED <<place, mem, dbVars, flushVars, flushed>>

(* Mutant: the batch is written as it was collected.                        *)
SweepStartKeepingAll ==
  /\ sweep = "queued" /\ teardown # "writing"
  /\ sweep' = "writing"
  /\ flushed' = {}
  /\ UNCHANGED <<charVars, dbVars, batch, flushVars>>

(* PersistBatch::write takes the lock, drops the rows of the characters     *)
(* flushed at teardown and forgets whom those were.                         *)
SweepStart ==
  LET dropped == {r \in batch : r.char \in flushed} IN
  /\ sweep = "queued" /\ teardown # "writing"
  /\ sweep' = "writing"
  /\ batch' = batch \ dropped
  /\ forgotten' = forgotten \cup Unwritten(dropped)
  /\ flushed' = {}
  /\ UNCHANGED <<charVars, db, faults, flushVars>>

SweepWrite ==
  /\ sweep = "writing" /\ batch # {}
  /\ WriteFacet(NextRows(batch))
  /\ batch' = batch \ NextRows(batch)
  /\ UNCHANGED <<charVars, sweep, flushVars, flushed>>

(* Mutant: the flags are cleared once the rows are written.                 *)
SweepDoneClearing ==
  /\ sweep = "writing" /\ batch = {}
  /\ sweep' = "idle"
  /\ owed' = [c \in Chars |-> {}]
  /\ UNCHANGED <<place, mem, dbVars, batch, flushVars, flushed>>

SweepDone ==
  /\ sweep = "writing" /\ batch = {}
  /\ sweep' = "idle"
  /\ UNCHANGED <<charVars, dbVars, batch, flushVars, flushed>>
-----------------------------------------------------------------------------
(* The teardown: removeCharFromZone, and before it cleanupSessions for a    *)
(* session that timed out, call persist::flush.                             *)

(* DropEffectsForTransition may change the effects; they are flagged in any *)
(* case, the flagged rows are collected, and the main thread waits for the  *)
(* lock.                                                                    *)
BeginFlush(c, v) ==
  /\ mem' = [mem EXCEPT ![c][Effects] = v]
  /\ rows' = {[char |-> c, facet |-> f, value |-> mem'[c][f]] :
                f \in owed[c] \cup {Effects}}
  /\ owed' = [owed EXCEPT ![c] = {}]
  /\ leaving' = c
  /\ teardown' = "waiting"
  /\ forgotten' = forgotten \ {<<c, Effects>>}
  /\ UNCHANGED <<place, db, faults, sweepVars>>

Teardown(c, v) ==
  /\ MainFree /\ place[c] # "out"
  /\ BeginFlush(c, v)
  /\ again' \in BOOLEAN
  /\ UNCHANGED flushed

(* Mutant: the teardown does not wait for the worker.                       *)
FlushStartUnlocked ==
  /\ teardown = "waiting"
  /\ teardown' = "writing"
  /\ UNCHANGED <<charVars, dbVars, sweepVars, leaving, again, rows, flushed>>

FlushStart ==
  /\ teardown = "waiting" /\ sweep # "writing"
  /\ teardown' = "writing"
  /\ UNCHANGED <<charVars, dbVars, sweepVars, leaving, again, rows, flushed>>

FlushWrite ==
  /\ teardown = "writing" /\ rows # {}
  /\ WriteFacet(NextRows(rows))
  /\ rows' = rows \ NextRows(rows)
  /\ UNCHANGED <<charVars, sweepVars, teardown, leaving, again, flushed>>

(* Mutant: the character is let go before it is entered.                    *)
FlushDoneLate ==
  /\ teardown = "writing" /\ rows = {} /\ ~again
  /\ place' = [place EXCEPT ![leaving] = "out"]
  /\ teardown' = "idle" /\ leaving' = None
  /\ flushed' = flushed \cup {leaving'}
  /\ UNCHANGED <<mem, owed, dbVars, sweepVars, again, rows>>

(* The character is entered in the set as the lock is let go; then either   *)
(* it is out, or removeCharFromZone flushes it a second time.               *)
FlushDone ==
  /\ teardown = "writing" /\ rows = {} /\ ~again
  /\ flushed' = flushed \cup {leaving}
  /\ place' = [place EXCEPT ![leaving] = "out"]
  /\ teardown' = "idle" /\ leaving' = None
  /\ UNCHANGED <<mem, owed, dbVars, sweepVars, again, rows>>

FlushAgain(v) ==
  /\ teardown = "writing" /\ rows = {} /\ again
  /\ flushed' = flushed \cup {leaving}
  /\ BeginFlush(leaving, v)
  /\ again' = FALSE
-----------------------------------------------------------------------------
Next ==
  \/ \E c \in Chars, f \in Facets, v \in Values :
       Change(c, f, v) \/ SaveDirectly(c, f, v)
  \/ \E c \in Chars : ZoneIn(c) \/ Depart(c)
  \/ \E c \in Chars, v \in Values : Teardown(c, v)
  \/ Collect \/ SweepStart \/ SweepWrite \/ SweepDone
  \/ FlushStart \/ FlushWrite \/ FlushDone
  \/ \E v \in Values : FlushAgain(v)

Spec == Init /\ [][Next]_vars

(* The worker runs what it is given and gets the lock in the end: the main  *)
(* thread lets go of it between two teardowns.  A timer starts the sweeps,  *)
(* whatever else the main thread does, and who departs is torn down.        *)
FairSpec ==
  /\ Spec
  /\ SF_vars(Collect)
  /\ \A c \in Chars :
       SF_vars(place[c] = "departing" /\ \E v \in Values : Teardown(c, v))
  /\ SF_vars(SweepStart) /\ WF_vars(SweepWrite) /\ WF_vars(SweepDone)
  /\ WF_vars(FlushStart) /\ WF_vars(FlushWrite) /\ WF_vars(FlushDone)
  /\ WF_vars(\E v \in Values : FlushAgain(v))
-----------------------------------------------------------------------------
(* "Held for the duration of any write so sweeps and teardowns can't        *)
(* interleave" (persist_batch.cpp:37): once a character is out, no write    *)
(* still under way changes what the next server to load it will read.       *)
LeftForGood == [][\A c \in Chars : place[c] = "out" => db'[c] = db[c]]_vars

(* A facet the database holds as memory does, and that owes nothing, is not *)
(* overwritten with what a batch took earlier, in this or an earlier visit. *)
Settled(c, f) == f \notin owed[c] /\ <<c, f>> \notin PairsOf(rows)
NeverGoesBack ==
  [][\A c \in Chars, f \in Facets \ Direct :
       Settled(c, f) /\ db[c][f] = mem[c][f] => db'[c][f] = db[c][f]]_vars

(* A change made while a sweep or a teardown is writing is not lost with    *)
(* it: what differs from the database is flagged or on its way, unless its  *)
(* row was dropped or its transaction failed.                               *)
OwedOrOnItsWay ==
  \A c \in Chars, f \in Facets \ Direct :
    mem[c][f] # db[c][f] =>
      \/ f \in owed[c]
      \/ <<c, f>> \in PairsOf(batch) \cup PairsOf(rows)
      \/ <<c, f>> \in forgotten

(* Whatever is flagged is collected in the end, by a sweep or a teardown:   *)
(* waiting for each other's lock the two never stop.                        *)
FlagsDrain ==
  \A c \in Chars, f \in Facets : f \in owed[c] ~> f \notin owed[c]
=============================================================================
