------------------------------ MODULE PartySystem ------------------------------
(***************************************************************************)
(* Parties whose members are spread over several map processes             *)
(* (map/party.cpp, the party packets 0x06E to 0x077, the party's part of   *)
(* map/utils/charutils.cpp, map/ipc_client.cpp and world/ipc_server.cpp).  *)
(*                                                                         *)
(* A party is the rows of accounts_parties with its id, which is the       *)
(* charid of its leader.  Every process has copies: CParty objects, which  *)
(* the characters in its memory point to, with an id and a leader of their *)
(* own.  Who changes the rows sends a message, which the world server      *)
(* passes on to the processes the rows name at that time; these mark their *)
(* characters, and a marked character brings its copy up to date with the  *)
(* rows at the end of its next tick.                                       *)
(*                                                                         *)
(* A row is dropped with the row of its character in accounts_sessions,    *)
(* whose server_addr is `server'.  A character in memory is on that        *)
(* process (RowStands of MapSessions).                                     *)
(*                                                                         *)
(* Left out: alliances (m_PAlliance is null), trusts, the quarter master   *)
(* and level sync, which are flags of a row that are set and refreshed as  *)
(* the leader's is; who of several is the oldest member.                   *)
(* Bounds: MaxActs, MaxCrashes.                                            *)
(***************************************************************************)
EXTENDS Integers, Sequences, FiniteSets

CONSTANTS
  Chars,       \* characters
  Procs,       \* map processes
  None,        \* no process, party, row, leader or invitation
  MaxMembers,  \* the members of a full party
  Hasty,       \* whether players act before messages and ticks are done
  MaxActs,     \* bound: acts of players
  MaxCrashes   \* bound: map processes that crash and restart

ASSUME PartyAssumption ==
  /\ IsFiniteSet(Chars) /\ None \notin Chars \cup Procs
  /\ MaxMembers \in Nat \ {0} /\ MaxActs \in Nat /\ MaxCrashes \in Nat
  /\ Hasty \in BOOLEAN

VARIABLES
  server,     \* the process accounts_sessions names, or None without a row
  stage,      \* in a zone, removed from it (zoning, quitting), or not in memory
  party,      \* PParty: the CParty object of a character in memory, or None
  cparty,     \* the CParty objects: id and leader; None when nobody uses it
  rows,       \* accounts_parties
  reload,     \* m_reloadParty
  invite,     \* InvitePending
  toWorld,    \* messages to the world server, per process
  toMap,      \* messages from the world server, per process
  abandoned,  \* history: members of parties whose leader or end somebody missed
  acts, crashes

vars == <<server, stage, party, cparty, rows, reload, invite, toWorld, toMap,
          abandoned, acts, crashes>>

\* Names for the objects: one process has no more than it has characters.
Objects == 1..Cardinality(Chars)

Row    == [party : Chars, leader : BOOLEAN]
CParty == [id : Chars, leader : Chars \cup {None}]

\* No value is taken for the absence of one.
ASSUME NoneAssumption == None \notin Objects \cup Row \cup CParty

Message == [type : {"Reload", "Disband"}, party : Chars]
             \cup [type : {"Invite", "Answer"}, from : Chars, to : Chars]
             \cup [type : {"Kick"}, to : Chars]

PartyTypeOK ==
  /\ server \in [Chars -> Procs \cup {None}]
  /\ stage \in [Chars -> {"in", "zoning", "quitting", "away"}]
  /\ party \in [Chars -> Objects \cup {None}]
  /\ cparty \in [Objects -> CParty \cup {None}]
  /\ \A c \in Chars : party[c] # None => cparty[party[c]] # None
  /\ rows \in [Chars -> Row \cup {None}]
  /\ reload \in [Chars -> BOOLEAN]
  /\ invite \in [Chars -> Chars \cup {None}]
  /\ toWorld \in [Procs -> Seq(Message)] /\ toMap \in [Procs -> Seq(Message)]
  /\ abandoned \subseteq Chars
  /\ acts \in 0..MaxActs /\ crashes \in 0..MaxCrashes

\* Nobody has a party, or some have one whose copies are as the rows are; its
\* leader may have invited others.  The names of the objects do not matter.
Init ==
  \E S \in SUBSET Chars, a \in Chars :
    /\ S # {} => a \in S /\ Cardinality(S) \in 2..MaxMembers
    /\ server \in [Chars -> Procs]
    /\ LET hosts == {server[c] : c \in S}
       IN  \E copy \in [hosts -> 1..Cardinality(hosts)] :
             /\ S # {} => copy[server[a]] = 1
             /\ \A p, q \in hosts : p # q => copy[p] # copy[q]
             /\ party = [c \in Chars |-> IF c \in S THEN copy[server[c]] ELSE None]
    /\ stage  = [c \in Chars |-> "in"]
    /\ rows   = [c \in Chars |-> IF c \in S THEN [party |-> a, leader |-> c = a] ELSE None]
    /\ cparty = [o \in Objects |->
                   IF \A c \in S : party[c] # o THEN None
                   ELSE [id |-> a, leader |-> IF party[a] = o THEN a ELSE None]]
    /\ reload = [c \in Chars |-> FALSE]
    /\ invite \in [Chars -> {a, None}]
    /\ \A c \in S \cup {a} : invite[c] = None
    /\ Cardinality(S) = MaxMembers => \A c \in Chars : invite[c] = None
    /\ toWorld = [p \in Procs |-> <<>>] /\ toMap = [p \in Procs |-> <<>>]
    /\ abandoned = {}
    /\ acts = 0 /\ crashes = 0

\* zoneutils::GetChar on process p.
Found(p, c) == server[c] = p /\ stage[c] = "in"

-----------------------------------------------------------------------------
(* What a handler does to the parties, as a function of a "world" w: the   *)
(* objects, the rows and the marks, what it sends, and who is abandoned.   *)

World == [party |-> party, cparty |-> cparty, rows |-> rows, reload |-> reload,
          sent |-> <<>>, lost |-> {}]

Members(w, o)  == {c \in Chars : w.party[c] = o}
RowsOf(w, id)  == {c \in Chars : w.rows[c] # None /\ w.rows[c].party = id}
Id(w, c)       == w.cparty[w.party[c]].id
LeadsIn(w, c)  == w.party[c] # None /\ w.cparty[w.party[c]].leader = c
Marked(w, S)   == [w EXCEPT !.reload = [c \in Chars |-> @[c] \/ (c \in S /\ stage[c] = "in")]]
Sending(w, m)  == [w EXCEPT !.sent = Append(@, m)]
Without(w, S)  == [w EXCEPT !.rows = [c \in Chars |-> IF c \in S THEN None ELSE @[c]]]
Reloading(id)  == [type |-> "Reload", party |-> id]

\* IsFull: the members here, or those in the database.
IsFull(w, o) == \/ Cardinality(Members(w, o)) >= MaxMembers
                \/ Cardinality(RowsOf(w, w.cparty[o].id)) >= MaxMembers

Unused(w) == CHOOSE o \in Objects : Members(w, o) = {}

(* Mutant: the party keeps its id.                                          *)
SetLeaderKeepingId(w, o, c) ==
  LET id == w.cparty[o].id
      Led(d) == [w.rows[d] EXCEPT !.leader = IF d = c THEN TRUE ELSE @ /\ w.rows[d].party # id]
  IN  Marked([w EXCEPT
        !.rows = [d \in Chars |-> IF w.rows[d] = None THEN None ELSE Led(d)],
        !.cparty[o] = [id |-> id, leader |-> IF w.party[c] = o THEN c ELSE None]],
        Members(w, o))

\* The rows of the party take the new leader's id; the flag is set in the row
\* of the new leader.  Dismissing the trusts marks the members.
SetLeader(w, o, c) ==
  LET id == w.cparty[o].id
      Renamed(d) == IF w.rows[d].party = id THEN [party |-> c, leader |-> FALSE] ELSE w.rows[d]
      Led(d) == IF d = c THEN [Renamed(d) EXCEPT !.leader = TRUE] ELSE Renamed(d)
  IN  Marked([w EXCEPT
        !.rows = [d \in Chars |-> IF w.rows[d] = None THEN None ELSE Led(d)],
        !.cparty[o] = [id |-> c, leader |-> IF w.party[c] = o THEN c ELSE None]],
        Members(w, o))

\* The insertion fails for who has a row, or no session.
Inserted(w, c, id) ==
  IF w.rows[c] # None \/ server[c] = None THEN w
  ELSE [w EXCEPT !.rows[c] = [party |-> id, leader |-> FALSE]]

\* AddMember of a character in memory, of which there is room.
Added(w, o, c) ==
  LET id == w.cparty[o].id
  IN  Marked(Sending(Inserted([w EXCEPT !.party[c] = o], c, id), Reloading(id)), {c})

(* Mutant: only the members in memory count.                                *)
AddedByIdUncounted(w, o, c) ==
  LET id == w.cparty[o].id
  IN  IF Cardinality(Members(w, o)) >= MaxMembers THEN w
      ELSE Sending(Inserted(w, c, id), Reloading(id))

\* AddMember of a character by its id: only the row.
AddedById(w, o, c) ==
  LET id == w.cparty[o].id
  IN  IF IsFull(w, o) THEN w ELSE Sending(Inserted(w, c, id), Reloading(id))

\* A new CParty for c, who has none.
Founded(w, c) ==
  LET o  == Unused(w)
      w1 == [w EXCEPT !.cparty[o] = [id |-> c, leader |-> None]]
  IN  SetLeader(Added(w1, o, c), o, c)

\* History: who misses the leader c once c's row is gone.
Orphans(w, c) == IF w.rows[c] # None /\ w.rows[c].leader
                 THEN RowsOf(w, w.rows[c].party) \ {c} ELSE {}

\* History: who misses those of S that lead another party than that of the object
\* o, and lose their rows with it.
Missed(w, o, S) ==
  UNION {Orphans(w, c) : c \in {c \in S : w.rows[c] # None /\ w.rows[c].party # w.cparty[o].id}}

\* The object is deleted; its members here lose their rows.  The processes of
\* the others are told; nobody tells a character who is in no zone.
Disbanded(w, o, playerInitiated) ==
  LET id  == w.cparty[o].id
      all == Members(w, o)
      w1  == Marked([Without(w, all) EXCEPT
               !.party  = [c \in Chars |-> IF c \in all THEN None ELSE @[c]],
               !.cparty[o] = None,
               !.lost = @ \cup {c \in RowsOf(w, id) \ all : stage[c] # "in"}
                          \cup Missed(w, o, all)], all)
  IN  IF playerInitiated THEN Sending(w1, [type |-> "Disband", party |-> id]) ELSE w1

(* Mutant: the pointer stays.                                               *)
UnlinkedDangling(w, c) ==
  LET o == w.party[c]
  IN  [w EXCEPT !.cparty[o] = IF Members(w, o) = {c} THEN None
                              ELSE IF @.leader = c THEN [@ EXCEPT !.leader = None] ELSE @]

\* c's pointer goes; an object nobody points to is as good as gone.
Unlinked(w, c) ==
  LET o == w.party[c]
  IN  [w EXCEPT !.party[c] = None,
                !.cparty[o] = IF Members(w, o) = {c} THEN None
                              ELSE IF @.leader = c THEN [@ EXCEPT !.leader = None] ELSE @]

\* Who is removed loses its row, whichever party it is of.
Dropped(w, c) ==
  Sending([Without(Unlinked(w, c), {c}) EXCEPT !.lost = @ \cup Missed(w, w.party[c], {c})],
          Reloading(Id(w, c)))

(* Mutant: the leader is not replaced.                                      *)
RemovedUnreplaced(w, c) == {Dropped(w, c)}

\* RemoveMember, with RemovePartyLeader for the leader: the party goes over to
\* some other member, wherever that is, or is disbanded.
Removed(w, c) ==
  LET o     == w.party[c]
      heirs == {d \in RowsOf(w, w.cparty[o].id) : ~w.rows[d].leader}
      led   == IF heirs = {} THEN {w} ELSE {SetLeader(w, o, d) : d \in heirs}
  IN  IF LeadsIn(w, c)
      THEN {IF LeadsIn(v, c) THEN Disbanded(v, o, TRUE) ELSE Dropped(v, c) : v \in led}
      ELSE {Dropped(w, c)}

\* CParty::ReloadParty: RefreshFlags, and no member is marked any more.
Refreshed(w, o) ==
  LET lead == {c \in Members(w, o) : c \in RowsOf(w, w.cparty[o].id) /\ w.rows[c].leader}
  IN  [w EXCEPT !.cparty[o].leader = IF lead = {} THEN None ELSE CHOOSE c \in lead : TRUE,
                !.reload = [c \in Chars |-> @[c] /\ c \notin Members(w, o)]]

\* DelMember, for a character without a row: as RemoveMember, but no row is
\* deleted and no message sent for who is not the leader.
Deleted(w, c) ==
  LET o == w.party[c]
  IN  IF LeadsIn(w, c)
      THEN {IF v.cparty[o] = None THEN v ELSE Refreshed(v, o) : v \in Removed(w, c)}
      ELSE LET v == Unlinked(w, c) IN {IF v.cparty[o] = None THEN v ELSE Refreshed(v, o)}

\* PushMember, into a copy of the party that is on this process or new.
Pushed(w, c) ==
  LET id    == w.rows[c].party
      known == {w.party[d] : d \in {d \in Chars : /\ Found(server[c], d)
                                                  /\ w.party[d] # None /\ Id(w, d) = id}}
      Into(o) == [w EXCEPT !.party[c] = o,
                           !.cparty[o] = [id |-> id, leader |-> IF w.rows[c].leader THEN c
                                                     ELSE IF @ = None THEN None ELSE @.leader]]
  IN  {Into(o) : o \in IF known = {} THEN {Unused(w)} ELSE known}

(* Mutant: the mark of a character without a party stays.                   *)
UpToDateStillMarked(w, c) ==
  IF w.rows[c] # None
  THEN {Refreshed(v, v.party[c]) : v \in
          IF w.party[c] # None THEN {[w EXCEPT !.cparty[w.party[c]].id = w.rows[c].party]}
          ELSE Pushed(w, c)}
  ELSE IF w.party[c] # None THEN Deleted(w, c) ELSE {w}

\* charutils::ReloadParty, up to the last paragraph.
UpToDate(w, c) ==
  IF w.rows[c] # None
  THEN {Refreshed(v, v.party[c]) : v \in
          IF w.party[c] # None THEN {[w EXCEPT !.cparty[w.party[c]].id = w.rows[c].party]}
          ELSE Pushed(w, c)}
  ELSE {[v EXCEPT !.reload[c] = FALSE] : v \in
          IF w.party[c] # None THEN Deleted(w, c) ELSE {w}}

\* A party of one is disbanded.
Alone(w, c) == /\ w.party[c] # None /\ Members(w, w.party[c]) = {c}
               /\ Cardinality(RowsOf(w, Id(w, c))) = 1

-----------------------------------------------------------------------------
\* Who shares a party with someone abandoned is so as well.
Abandoned(w) ==
  {c \in Chars : /\ w.rows[c] # None
                 /\ (abandoned \cup w.lost) \cap RowsOf(w, w.rows[c].party) # {}}

\* The handler of process p has made the world w.
Becomes(p, w) ==
  /\ party' = w.party /\ cparty' = w.cparty /\ rows' = w.rows /\ reload' = w.reload
  /\ toWorld' = [toWorld EXCEPT ![p] = @ \o w.sent]
  /\ abandoned' = Abandoned(w)

Calm == /\ \A p \in Procs : toWorld[p] = <<>> /\ toMap[p] = <<>>
        /\ \A c \in Chars : ~reload[c]

\* Unless the players are hasty, what has gone before has reached everyone when
\* one of them acts, comes, goes or is lost: messages and ticks take less than
\* a second.
Unhurried == Hasty \/ Calm

Acts(c) == /\ stage[c] = "in" /\ Unhurried
           /\ acts < MaxActs /\ acts' = acts + 1
           /\ UNCHANGED crashes

-----------------------------------------------------------------------------
(* The packets.                                                            *)

Invite(a, b) ==
  /\ Acts(a) /\ a # b /\ server[b] # None
  /\ party[a] = None \/ (LeadsIn(World, a) /\ ~IsFull(World, party[a]))
  /\ IF Found(server[a], b)
     THEN /\ party[b] = None /\ invite[b] = None
          /\ invite' = [invite EXCEPT ![b] = a]
          /\ Becomes(server[a], World)
     ELSE /\ Becomes(server[a], Sending(World, [type |-> "Invite", from |-> a, to |-> b]))
          /\ UNCHANGED invite
  /\ UNCHANGED <<server, stage, toMap>>

\* The inviter, unless in another party by now, founds one if need be.
Joined(w, a, b) ==
  LET w1 == IF w.party[a] = None THEN Founded(w, a) ELSE w
  IN  IF LeadsIn(w1, a) /\ ~IsFull(w1, w1.party[a]) THEN Added(w1, w1.party[a], b) ELSE w1

\* An inviter who is not found as it was, by target index, is asked through
\* the world server.
Accept(b) ==
  LET a == invite[b]
      p == server[b]
  IN  /\ Acts(b) /\ a # None
      /\ invite' = [invite EXCEPT ![b] = None]
      /\ \/ party[b] # None /\ Becomes(p, World)
         \/ party[b] = None /\ Found(p, a) /\ Becomes(p, Joined(World, a, b))
         \/ party[b] = None /\ Becomes(p, Sending(World, [type |-> "Answer", from |-> a, to |-> b]))
      /\ UNCHANGED <<server, stage, toMap>>

Decline(b) ==
  /\ Acts(b) /\ invite[b] # None
  /\ invite' = [invite EXCEPT ![b] = None]
  /\ Becomes(server[b], World)
  /\ UNCHANGED <<server, stage, toMap>>

Leave(c) ==
  /\ Acts(c) /\ party[c] # None
  /\ \E w \in Removed(World, c) : Becomes(server[c], w)
  /\ UNCHANGED <<server, stage, invite, toMap>>

Breakup(c) ==
  /\ Acts(c) /\ LeadsIn(World, c)
  /\ Becomes(server[c], Disbanded(World, party[c], TRUE))
  /\ UNCHANGED <<server, stage, invite, toMap>>

\* A member on another process loses the row, and is told of it.
Kicked(w, a, v) ==
  {Sending(Sending(Without(w, {v}), Reloading(Id(w, a))), [type |-> "Kick", to |-> v])}

Kick(a, v) ==
  /\ Acts(a) /\ LeadsIn(World, a) /\ a # v
  /\ \E w \in IF party[v] = party[a] THEN Removed(World, v)
              ELSE IF v \in RowsOf(World, a) THEN Kicked(World, a, v) ELSE {} :
        Becomes(server[a], w)
  /\ UNCHANGED <<server, stage, invite, toMap>>

GiveLead(a, b) ==
  /\ Acts(a) /\ LeadsIn(World, a) /\ a # b
  /\ b \in RowsOf(World, Id(World, a))
  /\ Becomes(server[a], Sending(SetLeader(World, party[a], b), Reloading(b)))
  /\ UNCHANGED <<server, stage, invite, toMap>>

-----------------------------------------------------------------------------
(* Coming and going.                                                       *)

LogIn(c, p) ==
  /\ server[c] = None /\ acts < MaxActs /\ acts' = acts + 1
  /\ server' = [server EXCEPT ![c] = p]
  /\ UNCHANGED <<stage, party, cparty, rows, reload, invite, toWorld, toMap, abandoned, crashes>>

ZoneIn(c) ==
  /\ stage[c] = "away" /\ server[c] # None
  /\ Unhurried
  /\ stage' = [stage EXCEPT ![c] = "in"]
  /\ reload' = [reload EXCEPT ![c] = TRUE]
  /\ UNCHANGED <<server, party, cparty, rows, invite, toWorld, toMap, abandoned, acts, crashes>>

\* removeCharFromZone: who zones stays in the party, who logs out leaves it.
ZoneOut(c) ==
  /\ Acts(c)
  /\ stage' = [stage EXCEPT ![c] = "zoning"]
  /\ invite' = [invite EXCEPT ![c] = None]
  /\ Becomes(server[c], [World EXCEPT !.reload[c] = FALSE])
  /\ UNCHANGED <<server, toMap>>

LogOut(c) ==
  /\ Acts(c)
  /\ stage' = [stage EXCEPT ![c] = "quitting"]
  /\ invite' = [invite EXCEPT ![c] = None]
  /\ \E w \in IF party[c] = None THEN {World} ELSE Removed(World, c) :
        Becomes(server[c], [w EXCEPT !.reload[c] = FALSE])
  /\ UNCHANGED <<server, toMap>>

\* The character who zones is destroyed once the client has been sent on, and
\* popped from its party; from a mog house, nobody is told.
Depart(c, q) ==
  /\ stage[c] = "zoning" /\ Unhurried
  /\ stage' = [stage EXCEPT ![c] = "away"]
  /\ server' = [server EXCEPT ![c] = q]
  /\ IF party[c] = None THEN Becomes(server[c], World)
     ELSE \/ Becomes(server[c], Unlinked(World, c))
          \/ Becomes(server[c], Sending(Unlinked(World, c), Reloading(Id(World, c))))
  /\ UNCHANGED <<invite, toMap, acts, crashes>>

Closed(c) == /\ stage' = [stage EXCEPT ![c] = "away"]
             /\ server' = [server EXCEPT ![c] = None]
             /\ invite' = [invite EXCEPT ![c] = None]
             /\ UNCHANGED <<toMap, acts, crashes>>

\* destroySession after logging out.
Quit(c) ==
  /\ stage[c] = "quitting"
  /\ Closed(c)
  /\ Becomes(server[c], Without(World, {c}))

\* cleanupSessions: the rows are deleted first; a character in memory is then
\* removed as if logging out.
TimeOut(c) ==
  LET gone == Without(World, {c})
  IN  /\ Unhurried
      /\ server[c] # None /\ stage[c] \in {"in", "zoning", "away"}
      /\ Closed(c)
      /\ IF party[c] # None
         THEN \E w \in Removed(gone, c) :
                Becomes(server[c], [w EXCEPT
                  !.reload[c] = FALSE,
                  !.lost = @ \cup IF stage[c] = "in" \/ LeadsIn(World, c) THEN {}
                                  ELSE Orphans(World, c)])
         ELSE Becomes(server[c], [gone EXCEPT !.reload[c] = FALSE, !.lost = Orphans(World, c)])

Crash(p) ==
  LET gone == {c \in Chars : server[c] = p}
      w    == [Without(World, gone) EXCEPT !.lost = UNION {Orphans(World, c) : c \in gone}]
  IN  /\ Unhurried /\ crashes < MaxCrashes /\ crashes' = crashes + 1
      /\ server' = [c \in Chars |-> IF c \in gone THEN None ELSE server[c]]
      /\ stage'  = [c \in Chars |-> IF c \in gone THEN "away" ELSE stage[c]]
      /\ party'  = [c \in Chars |-> IF c \in gone THEN None ELSE party[c]]
      /\ cparty' = [o \in Objects |-> IF Members(World, o) \subseteq gone THEN None ELSE cparty[o]]
      /\ invite' = [c \in Chars |-> IF c \in gone THEN None ELSE invite[c]]
      /\ reload' = [c \in Chars |-> c \notin gone /\ reload[c]]
      /\ rows'   = w.rows
      /\ abandoned' = Abandoned(w)
      /\ toWorld' = [toWorld EXCEPT ![p] = <<>>]
      /\ toMap'   = [toMap EXCEPT ![p] = <<>>]
      /\ UNCHANGED acts

-----------------------------------------------------------------------------
(* Ticks and messages.                                                     *)

\* PostTick of a marked character.
Tick(c) ==
  /\ stage[c] = "in" /\ reload[c]
  /\ \E w \in UpToDate(World, c) :
       Becomes(server[c], IF Alone(w, c) THEN Disbanded(w, w.party[c], TRUE) ELSE w)
  /\ UNCHANGED <<server, stage, invite, toMap, acts, crashes>>

(* Mutant: a reload goes to the leader's process only.                      *)
ForwardToLeader(m) ==
  {server[c] : c \in CASE m.type \in {"Reload", "Disband"} -> {m.party}
                       [] m.type \in {"Invite", "Kick"}    -> {m.to}
                       [] m.type = "Answer"                -> {m.from}}

\* To the process of a character, or to those of all who have a row.
Forward(m) ==
  {server[c] : c \in CASE m.type \in {"Reload", "Disband"} -> RowsOf(World, m.party)
                       [] m.type \in {"Invite", "Kick"}    -> {m.to}
                       [] m.type = "Answer"                -> {m.from}}

WorldHandles(p) ==
  /\ toWorld[p] # <<>>
  /\ LET m == Head(toWorld[p])
     IN  toMap' = [q \in Procs |-> IF q \in Forward(m) THEN Append(toMap[q], m) ELSE toMap[q]]
  /\ toWorld' = [toWorld EXCEPT ![p] = Tail(@)]
  /\ UNCHANGED <<server, stage, party, cparty, rows, reload, invite, abandoned, acts, crashes>>

HandleReload(p, m) == Marked(World, {c \in RowsOf(World, m.party) : Found(p, c)})

HandleKick(p, m) == Marked(World, {m.to} \cap {c \in Chars : Found(p, c)})

\* The copy of the party, if a character in a zone has it.  Whoever joined here
\* since, or left that copy, is not one of its members, and is not told again.
HandleDisband(p, m) ==
  LET known == {party[c] : c \in {c \in Chars : /\ Found(p, c) /\ party[c] # None
                                                /\ Id(World, c) = m.party}}
      missing(o) == {c \in RowsOf(World, m.party) : Found(p, c) /\ party[c] # o}
  IN  IF known = {} THEN {World}
      ELSE {[Disbanded(World, o, FALSE) EXCEPT !.lost = @ \cup missing(o)] : o \in known}

\* The invited character has accepted on another process.  Between two leaders
\* this makes an alliance instead.
HandleAnswer(p, m) ==
  LET Leads(c) == rows[c] # None /\ rows[c].leader
      w == IF party[m.from] = None THEN Founded(World, m.from) ELSE World
  IN  IF ~Found(p, m.from) \/ (Leads(m.from) /\ Leads(m.to)) THEN World
      ELSE IF LeadsIn(w, m.from) /\ w.rows[m.to] = None
      THEN AddedById(w, w.party[m.from], m.to) ELSE w

MapHandles(p) ==
  /\ toMap[p] # <<>>
  /\ LET m == Head(toMap[p])
     IN  /\ \E w \in CASE m.type = "Reload"  -> {HandleReload(p, m)}
                       [] m.type = "Kick"    -> {HandleKick(p, m)}
                       [] m.type = "Disband" -> HandleDisband(p, m)
                       [] m.type = "Answer"  -> {HandleAnswer(p, m)}
                       [] m.type = "Invite"  -> {World} : Becomes(p, w)
         /\ invite' = IF m.type = "Invite" /\ Found(p, m.to)
                         /\ party[m.to] = None /\ invite[m.to] = None
                      THEN [invite EXCEPT ![m.to] = m.from] ELSE invite
  /\ toMap' = [toMap EXCEPT ![p] = Tail(@)]
  /\ UNCHANGED <<server, stage, acts, crashes>>

-----------------------------------------------------------------------------
Play == \E a \in Chars :
  \/ Accept(a) \/ Decline(a) \/ Leave(a) \/ Breakup(a) \/ ZoneOut(a) \/ LogOut(a)
  \/ \E b \in Chars : Invite(a, b) \/ Kick(a, b) \/ GiveLead(a, b)
  \/ \E p \in Procs : LogIn(a, p)

Sessions == \/ \E c \in Chars : ZoneIn(c) \/ Quit(c) \/ TimeOut(c) \/ \E p \in Procs : Depart(c, p)
            \/ \E p \in Procs : Crash(p)

Settle == \/ \E c \in Chars : Tick(c)
          \/ \E p \in Procs : WorldHandles(p) \/ MapHandles(p)

Next == Play \/ Sessions \/ Settle

Spec == Init /\ [][Next]_vars

\* Zones tick, and messages arrive.
FairSpec == Spec /\ WF_vars(Settle)

-----------------------------------------------------------------------------
(* Properties.                                                             *)

\* Who is marked as leader leads the party that has its id: no party has two
\* leaders, though the flag and the id are written by separate statements
\* (SetLeader) and by several processes.
LeadersOwnParty == \A c \in Chars : rows[c] # None /\ rows[c].leader => rows[c].party = c

\* Processes add members by their own count and the database's; no party
\* grows beyond its size (IsFull, AddMember), unless it was abandoned: the
\* leader it lost may come back to lead another party under the same id.
NotOverfull ==
  \A id \in Chars : Cardinality(RowsOf(World, id) \ abandoned) <= MaxMembers

\* Once messages and ticks are done, every copy agrees with the rows: who has a
\* row is in a copy with its id, which knows the leader if the leader is among
\* its members (PartyReload, charutils::ReloadParty).
CopiesFollowRows ==
  Calm => \A c \in Chars : stage[c] = "in" /\ rows[c] # None =>
    /\ party[c] # None
    /\ Id(World, c) = rows[c].party
    /\ cparty[party[c]].leader =
         IF party[rows[c].party] = party[c] THEN rows[c].party ELSE None

\* Who has lost its row is in no party once messages and ticks are done: the
\* victim of a kick, whom a PartyReload does not reach, gets its own message.
KickIsHeard ==
  Calm => \A c \in Chars : stage[c] = "in" /\ rows[c] = None => party[c] = None

\* A party is left without a leader only by a leader whose session ends in no
\* zone or with its process, or who is removed through an old copy of the party
\* it was in before, or for members who are in no zone when the party is
\* disbanded: the lead is handed on in every other case.
LeaderIsHandedOn ==
  Calm => \A c \in Chars \ abandoned : rows[c] # None =>
            rows[rows[c].party] # None /\ rows[rows[c].party].leader

\* No update of a party sets off updates for ever.
QuietsDown == []<>Calm
=============================================================================
