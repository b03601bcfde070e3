------------------------------ MODULE MapSessions ------------------------------
(***************************************************************************)
(* How one character is handed from one map process to the next            *)
(* (map/map_session_container.cpp, map/map_networking.cpp, the handlers of *)
(* map/ipc_client.cpp and world/ipc_server.cpp, login/data_session.cpp).   *)
(*                                                                         *)
(* The zones are spread over several map processes.  A process knows the   *)
(* client by its address: `sess[p][a]' is the session, with the loaded     *)
(* character in it, or None; `pending[p]' is the session prepared for a    *)
(* client that is expected.  What the processes share is in the database:  *)
(* `row', the character's row of accounts_sessions, and `chars', what was  *)
(* saved of the character, with a version number for its data.  Messages   *)
(* between processes go through the world server, in the order in which    *)
(* they were sent on each connection.  The client's datagrams may be lost, *)
(* sent again and, as far as an 0x00A goes, arrive long after they were    *)
(* sent.                                                                   *)
(*                                                                         *)
(* Time passes in units of MAX_TIME_LASTUPDATE, one minute: a session not  *)
(* heard of for one unit is cleaned up before the next unit ends.          *)
(*                                                                         *)
(* One tick of the zone is one step: SendToZone or SendDisconnect followed *)
(* by removeCharFromZone.  A zone that is full refuses, which changes      *)
(* nothing.  Bounds: MaxLogins, MaxHops, MaxVersion, MaxStrays, MaxCrashes.*)
(***************************************************************************)
EXTENDS Integers, Sequences, FiniteSets

CONSTANTS
  Procs,        \* map processes
  Zones,        \* zones of the world
  Host,         \* the process each zone runs on (zone_settings)
  Addrs,        \* addresses (IP and port) the client may use
  LoginServer,  \* a sender of messages that is no map process
  Home,         \* where the character is at first
  None,         \* no session, character, row or zone
  MaxLogins,    \* bound: characters selected in the lobby
  MaxHops,      \* bound: changes of zone between two logins
  MaxVersion,   \* bound: changes of the character's data
  MaxStrays,    \* bound: 0x00A datagrams that arrive late
  MaxCrashes    \* bound: map processes that crash and restart

ASSUME SessionsAssumption ==
  /\ Host \in [Zones -> Procs]
  /\ Home \in Zones
  /\ LoginServer \notin Procs
  /\ None \notin Zones \cup Procs
  /\ {MaxLogins, MaxHops, MaxVersion, MaxStrays, MaxCrashes} \subseteq Nat

VARIABLES
  sess,      \* per process and address: MapSession, or None
  pending,   \* per process: None, or the age of the pending session
  row,       \* the character's row of accounts_sessions, or None
  chars,     \* what is saved of the character
  toWorld,   \* messages to the world server, per sender
  toMap,     \* messages from the world server, per map process
  client,    \* the player's client
  told,      \* processes the client has been told to send an 0x00A to
  logins, strays, crashes

vars == <<sess, pending, row, chars, toWorld, toMap, client, told, logins, strays, crashes>>
ipc  == <<toWorld, toMap>>

\* A key of the login server, and how often incrementBlowfish has been applied.
Keys      == (1..MaxLogins) \X (0..MaxHops)
Scrambled == <<0, 0>>

(* Mutant: the wrong part of the key is incremented.                        *)
IncrementedElsewhere(key) == <<key[1] + 1, key[2]>>

Incremented(key) == <<key[1], key[2] + 1>>

Ages   == 0..1     \* units since last_update
Waits  == 0..2     \* units since last_zoneout_time; 2 is two minutes and more

Character == [v : 0..MaxVersion, zone : Zones \cup {None}, dest : Zones \cup {None},
              prev : Zones, out : {"none", "zone", "logout"}]
Session   == [status : {"Waiting", "Accepted", "PendingZone"}, char : Character \cup {None},
              key : Keys \cup {Scrambled}, old : Keys \cup {Scrambled}, decrypted : BOOLEAN,
              shuttingDown : 0..2, ipp : Procs \cup {None}, forced : BOOLEAN, age : Ages]
Row       == [server : Procs, seen : BOOLEAN, key : Keys, waited : Waits]
Message   == [type : {"AccountLogin", "KillSession"}] \cup [type : {"CharZone"}, zone : Zones]

\* None is told from the age of a pending session, from a row and a character.
ASSUME NoneAssumption == None \notin Ages /\ None \notin Row /\ None \notin Character

SessionTypeOK ==
  /\ sess \in [Procs -> [Addrs -> Session \cup {None}]]
  /\ pending \in [Procs -> Ages \cup {None}]
  /\ row \in Row \cup {None}
  /\ chars \in [v : 0..MaxVersion, zone : Zones, prev : Zones]
  /\ toWorld \in [Procs \cup {LoginServer} -> Seq(Message)]
  /\ toMap \in [Procs -> Seq(Message)]
  /\ client \in [phase : {"off", "lobby", "entering", "playing"}, addr : Addrs,
                 proc : Procs, key : Keys \cup {Scrambled}]
  /\ told \subseteq Procs \X Addrs
  /\ logins \in 0..MaxLogins /\ strays \in 0..MaxStrays /\ crashes \in 0..MaxCrashes

Init ==
  /\ sess = [p \in Procs |-> [a \in Addrs |-> None]]
  /\ pending = [p \in Procs |-> None]
  /\ row = None
  /\ chars = [v |-> 0, zone |-> Home, prev |-> Home]
  /\ toWorld = [s \in Procs \cup {LoginServer} |-> <<>>]
  /\ toMap = [p \in Procs |-> <<>>]
  /\ client \in [phase : {"off"}, addr : Addrs, proc : {Host[Home]}, key : {Scrambled}]
  /\ told = {}
  /\ logins = 0 /\ strays = 0 /\ crashes = 0

\* Messages between processes take milliseconds.  Between two ticks of a zone,
\* and while the player acts in the lobby, they arrive; datagrams overtake them.
Delivered == /\ \A s \in DOMAIN toWorld : toWorld[s] = <<>>
             /\ \A p \in Procs : toMap[p] = <<>>

InZone(p, a) == sess[p][a] # None /\ sess[p][a].char # None /\ sess[p][a].char.zone # None

-----------------------------------------------------------------------------
(* The client and the login server.                                        *)

\* The player authenticates: every map process is told to give up what it
\* still has of the account.
Authenticate ==
  /\ Delivered
  /\ client.phase = "off" /\ logins < MaxLogins
  /\ client' = [client EXCEPT !.phase = "lobby"]
  /\ toWorld' = [toWorld EXCEPT ![LoginServer] = Append(@, [type |-> "AccountLogin"])]
  /\ UNCHANGED <<sess, pending, row, chars, toMap, told, logins, strays, crashes>>

\* A row whose client was not seen at its destination for two minutes is
\* dropped; last_zoneout_time of a row nobody has used yet is long ago.
RowIsFree == row # None => ~row.seen /\ row.waited = 2

\* The character is selected: with any other row of the account the client
\* is refused, else it gets a row, and its process is told to expect it.
SelectCharacter(a) ==
  LET key == <<logins + 1, 0>>
      p   == Host[chars.zone]
  IN  /\ Delivered
      /\ client.phase = "lobby" /\ logins < MaxLogins
      /\ RowIsFree
      /\ row' = [server |-> p, seen |-> FALSE, key |-> key, waited |-> 2]
      /\ client' = [phase |-> "entering", addr |-> a, proc |-> p, key |-> key]
      /\ told' = told \cup {<<p, a>>}
      /\ logins' = logins + 1
      /\ toWorld' = [toWorld EXCEPT ![LoginServer] =
                       Append(@, [type |-> "CharZone", zone |-> chars.zone])]
      /\ UNCHANGED <<sess, pending, chars, toMap, strays, crashes>>

\* The player closes the client, or it crashes.
Vanish ==
  /\ client.phase # "off"
  /\ client' = [client EXCEPT !.phase = "off"]
  /\ UNCHANGED <<sess, pending, row, chars, ipc, told, logins, strays, crashes>>

\* The client has received the answer to its 0x00A.
Welcomed ==
  LET s == sess[client.proc][client.addr]
  IN  /\ client.phase = "entering"
      /\ InZone(client.proc, client.addr) /\ s.status = "Accepted" /\ s.key = client.key
      /\ client' = [client EXCEPT !.phase = "playing"]
      /\ UNCHANGED <<sess, pending, row, chars, ipc, told, logins, strays, crashes>>

-----------------------------------------------------------------------------
(* An unencrypted 0x00A arrives at process p from address a.               *)

Loaded == [v |-> chars.v, zone |-> None, dest |-> chars.zone, prev |-> chars.prev, out |-> "none"]

\* The client is not known but expected: the pending session is used up, and
\* a session is created if there is a row.  The packet itself is dropped.
LoginCreates(p, a) ==
  /\ sess[p][a] = None /\ pending[p] # None
  /\ pending' = [pending EXCEPT ![p] = None]
  /\ IF row = None
     THEN UNCHANGED <<sess, toWorld>>
     ELSE /\ sess' = [sess EXCEPT ![p][a] =
               [status |-> "Waiting", char |-> Loaded, key |-> row.key, old |-> Scrambled,
                decrypted |-> FALSE, shuttingDown |-> 0, ipp |-> None, forced |-> FALSE,
                age |-> 0]]
          /\ toWorld' = IF chars.zone # chars.prev
                        THEN [toWorld EXCEPT ![p] = Append(@, [type |-> "KillSession"])]
                        ELSE toWorld
  /\ UNCHANGED <<row, chars, toMap>>

\* Who is zoning is loaded anew, with the key of the row.
Reloaded(s) == IF s.status = "PendingZone"
               THEN [s EXCEPT !.char = Loaded, !.key = row.key, !.ipp = None]
               ELSE [s EXCEPT !.ipp = None]

(* Mutant: the zone is entered wherever it runs.                            *)
EnteredAnywhere(p, s) ==
  [s EXCEPT !.status = "Accepted", !.shuttingDown = 0,
            !.char = [s.char EXCEPT !.zone = s.char.dest, !.dest = None]]

\* The 0x00A handler, once per login or change of zone.  A character whose
\* zone is not on this process is to go to its home point instead.
Entered(p, s) ==
  LET c == s.char
  IN  [s EXCEPT !.status = "Accepted", !.shuttingDown = 0,
                !.char = IF Host[c.dest] = p THEN [c EXCEPT !.zone = c.dest, !.dest = None] ELSE c]

LoginHandled(p, a) ==
  LET s == sess[p][a]
      r == Reloaded(s)
  IN  /\ s # None
      /\ s.status = "PendingZone" => row # None
      /\ ~(s.status = "Accepted" /\ s.decrypted)
      /\ IF s.status = "Accepted"
         THEN /\ sess' = [sess EXCEPT ![p][a] = IF r.forced THEN r ELSE [r EXCEPT !.age = 0]]
              /\ UNCHANGED row
         ELSE /\ sess' = [sess EXCEPT ![p][a] = Entered(p, r)]
              /\ row' = IF row # None /\ Host[r.char.dest] = p
                        THEN [row EXCEPT !.server = p, !.seen = TRUE, !.waited = 2] ELSE row
      /\ UNCHANGED <<pending, chars, ipc>>

\* Without a row there is no key: the old character is gone all the same.
LoginUnloadable(p, a) ==
  LET s == sess[p][a]
  IN  /\ s # None /\ s.status = "PendingZone" /\ row = None
      /\ sess' = [sess EXCEPT ![p][a] = IF s.shuttingDown = 1 THEN None
                                        ELSE [s EXCEPT !.char = None]]
      /\ UNCHANGED <<pending, row, chars, ipc>>

Login(p, a) == LoginCreates(p, a) \/ LoginHandled(p, a) \/ LoginUnloadable(p, a)

ClientSendsLogin ==
  /\ client.phase = "entering"
  /\ Login(client.proc, client.addr)
  /\ UNCHANGED <<client, told, logins, strays, crashes>>

LateLogin(p, a) ==
  /\ <<p, a>> \in told /\ strays < MaxStrays
  /\ strays' = strays + 1
  /\ Login(p, a)
  /\ UNCHANGED <<client, told, logins, crashes>>

-----------------------------------------------------------------------------
(* An encrypted datagram of a client that plays.                           *)

\* The client receives an 0x00B, or does not.
Redirected(proc) ==
  \/ UNCHANGED <<client, told>>
  \/ /\ client' = [client EXCEPT !.phase = "entering", !.proc = proc, !.key = Incremented(@)]
     /\ told' = told \cup {<<proc, client.addr>>}

(* Mutant: the previous key is not kept.                                    *)
RekeyedForgetting(s) == [s EXCEPT !.key = Incremented(@), !.decrypted = FALSE]

\* incrementBlowfish: the previous key is kept for a client that misses the 0x00B.
Rekeyed(s) == [s EXCEPT !.key = Incremented(@), !.old = s.key, !.decrypted = FALSE]

\* The answer to a packet of the current key carries what the character's
\* list holds.  With an 0x00B the row goes over to the next process, the key
\* is incremented and the character destroyed.
PacketAnswered(p, a) ==
  LET s == sess[p][a]
      c == s.char
  IN  /\ s # None /\ client.key = s.key /\ c # None /\ c.out = "none"
      /\ sess' = [sess EXCEPT ![p][a] =
           [s EXCEPT !.decrypted = TRUE,
                     !.age = IF s.status = "Accepted" /\ ~s.forced THEN 0 ELSE s.age]]
      /\ UNCHANGED <<pending, row, chars, ipc, client, told>>

SendZoneOut(p, a) ==
  LET s    == sess[p][a]
      next == Host[s.char.dest]
  IN  /\ s # None /\ client.key = s.key /\ s.char # None /\ s.char.out = "zone"
      /\ row' = IF row = None THEN None
                ELSE [server |-> next, seen |-> FALSE, key |-> Incremented(s.key), waited |-> 0]
      /\ sess' = [sess EXCEPT ![p][a] = Rekeyed([s EXCEPT !.status = "PendingZone",
                                                          !.char = None, !.ipp = next])]
      /\ toWorld' = [toWorld EXCEPT ![p] = Append(@, [type |-> "CharZone", zone |-> s.char.dest])]
      /\ Redirected(next)
      /\ UNCHANGED <<pending, chars, toMap>>

\* destroySession, for who is logging out.
Closed(p, a) == /\ sess' = [sess EXCEPT ![p][a] = None]
                /\ row' = None

\* A client that logs out is told, or at least its session is closed.
SendLogOut(p, a) ==
  LET s == sess[p][a]
  IN  /\ s # None /\ s.shuttingDown = 1
      /\ Closed(p, a)
      /\ \/ UNCHANGED client
         \/ /\ client.key = s.key /\ s.char # None
            /\ client' = [client EXCEPT !.phase = "lobby"]
      /\ UNCHANGED <<pending, chars, ipc, told>>

\* The client still uses the previous key: it has missed the 0x00B.
SendZoneOutAgain(p, a) ==
  LET s == sess[p][a]
  IN  /\ s # None /\ s.status = "PendingZone" /\ s.char = None
      /\ client.key # s.key /\ client.key = s.old /\ s.ipp # None
      /\ Redirected(s.ipp)
      /\ UNCHANGED <<sess, pending, row, chars, ipc>>

ClientSends ==
  /\ client.phase = "playing"
  /\ LET p == client.proc
         a == client.addr
     IN  \/ PacketAnswered(p, a) \/ SendZoneOut(p, a)
         \/ SendLogOut(p, a)     \/ SendZoneOutAgain(p, a)
  /\ UNCHANGED <<logins, strays, crashes>>

-----------------------------------------------------------------------------
(* The character in its zone.                                              *)

\* Something about the character changes in memory.
Play(p, a) ==
  /\ InZone(p, a) /\ sess[p][a].char.v < MaxVersion
  /\ sess' = [sess EXCEPT ![p][a].char.v = @ + 1]
  /\ UNCHANGED <<pending, row, chars, ipc, client, told, logins, strays, crashes>>

\* Some handler, or the sweep, saves it.
SaveChar(p, a) ==
  /\ InZone(p, a)
  /\ chars' = [chars EXCEPT !.v = sess[p][a].char.v]
  /\ UNCHANGED <<sess, pending, row, ipc, client, told, logins, strays, crashes>>

\* removeCharFromZone, for a character leaving for good (1) or zoning (2).
Removed(s, reason, out) ==
  [s EXCEPT !.status = "PendingZone", !.shuttingDown = reason,
            !.char = [@ EXCEPT !.zone = None, !.out = out]]

ZoneOut(p, a) ==
  LET s == sess[p][a]
      c == s.char
  IN  /\ Delivered
      /\ InZone(p, a) /\ s.status = "Accepted"
      /\ s.key[2] < MaxHops
      /\ \E z \in Zones :
           LET prev == IF z = c.zone THEN c.prev ELSE c.zone
           IN  /\ chars' = [v |-> c.v, zone |-> z, prev |-> prev]
               /\ sess' = [sess EXCEPT ![p][a] =
                    Removed([s EXCEPT !.char.dest = z, !.char.prev = c.zone], 2, "zone")]
      /\ UNCHANGED <<pending, row, ipc, client, told, logins, strays, crashes>>

LogOut(p, a) ==
  /\ Delivered
  /\ InZone(p, a) /\ sess[p][a].status = "Accepted"
  /\ chars' = [chars EXCEPT !.v = sess[p][a].char.v]
  /\ sess' = [sess EXCEPT ![p][a] = Removed(@, 1, "logout")]
  /\ UNCHANGED <<pending, row, ipc, client, told, logins, strays, crashes>>

-----------------------------------------------------------------------------
(* cleanupSessions, and the passing of time.                               *)

(* Mutant: every session counts as played elsewhere.                        *)
OnOtherMapAlways(p) == row # None

OnOtherMap(p) == row # None /\ row.server # p

\* The character is taken from its zone, which saves it, whether or not it is
\* already played on another process.
SessionTimesOut(p, a) ==
  LET s == sess[p][a]
  IN  /\ s # None /\ s.age = 1
      /\ sess' = [sess EXCEPT ![p][a] = None]
      /\ row' = IF OnOtherMap(p) THEN row ELSE None
      /\ chars' = IF s.char = None THEN chars ELSE [chars EXCEPT !.v = s.char.v]
      /\ UNCHANGED <<pending, ipc, client, told, logins, strays, crashes>>

PendingTimesOut(p) ==
  /\ pending[p] = 1
  /\ pending' = [pending EXCEPT ![p] = None]
  /\ row' = None
  /\ UNCHANGED <<sess, chars, ipc, client, told, logins, strays, crashes>>

\* One unit of time passes; who had timed out before is cleaned up by then.
Tick ==
  /\ Delivered
  /\ \A p \in Procs : pending[p] # 1 /\ \A a \in Addrs : sess[p][a] # None => sess[p][a].age = 0
  /\ \/ \E p \in Procs : pending[p] # None \/ \E a \in Addrs : sess[p][a] # None
     \/ row # None /\ row.waited < 2
  /\ pending' = [p \in Procs |-> IF pending[p] = None THEN None ELSE 1]
  /\ sess' = [p \in Procs |-> [a \in Addrs |->
                IF sess[p][a] = None THEN None ELSE [sess[p][a] EXCEPT !.age = 1]]]
  /\ row' = IF row # None /\ row.waited < 2 THEN [row EXCEPT !.waited = @ + 1] ELSE row
  /\ UNCHANGED <<chars, ipc, client, told, logins, strays, crashes>>

\* A process crashes; what it had in memory is lost, and when it starts again
\* it drops the rows that name it.
Crash(p) ==
  /\ crashes < MaxCrashes
  /\ crashes' = crashes + 1
  /\ sess' = [sess EXCEPT ![p] = [a \in Addrs |-> None]]
  /\ pending' = [pending EXCEPT ![p] = None]
  /\ toMap' = [toMap EXCEPT ![p] = <<>>]
  /\ toWorld' = [toWorld EXCEPT ![p] = <<>>]
  /\ row' = IF row # None /\ row.server = p THEN None ELSE row
  /\ UNCHANGED <<chars, client, told, logins, strays>>

-----------------------------------------------------------------------------
(* The world server passes messages on; the map processes handle them.     *)

Forward(m) ==
  CASE m.type = "CharZone"     -> {Host[m.zone]}
    [] m.type = "KillSession"  -> IF chars.prev = chars.zone THEN {} ELSE {Host[chars.prev]}
    [] m.type = "AccountLogin" -> Procs

WorldHandles(src) ==
  /\ toWorld[src] # <<>>
  /\ LET m == Head(toWorld[src])
     IN  toMap' = [p \in Procs |-> IF p \in Forward(m) THEN Append(toMap[p], m) ELSE toMap[p]]
  /\ toWorld' = [toWorld EXCEPT ![src] = Tail(@)]
  /\ UNCHANGED <<sess, pending, row, chars, client, told, logins, strays, crashes>>

\* The sessions of the character on p; a search finds any of them.
Known(p) == {a \in Addrs : sess[p][a] # None}

\* A session is kept alive for the client, or one is prepared.
HandleCharZone(p) ==
  IF Known(p) = {}
  THEN /\ pending' = [pending EXCEPT ![p] = 0]
       /\ UNCHANGED <<sess, row>>
  ELSE /\ \E a \in Known(p) :
            sess' = [sess EXCEPT ![p][a].age = IF sess[p][a].forced THEN @ ELSE 0]
       /\ UNCHANGED <<pending, row>>

(* Mutant: the row goes with the session.                                   *)
HandleKillSessionWithRow(p) ==
  /\ IF Known(p) = {}
     THEN UNCHANGED <<sess, row>>
     ELSE \E a \in Known(p) :
            IF sess[p][a].status # "PendingZone" THEN UNCHANGED <<sess, row>>
            ELSE sess' = [sess EXCEPT ![p][a] = None] /\ row' = None
  /\ UNCHANGED pending

\* Only a session whose character has left is closed.
HandleKillSession(p) ==
  /\ IF Known(p) = {}
     THEN UNCHANGED <<sess, row>>
     ELSE \E a \in Known(p) :
            IF sess[p][a].status # "PendingZone" THEN UNCHANGED <<sess, row>>
            ELSE /\ sess' = [sess EXCEPT ![p][a] = None]
                 /\ row' = IF sess[p][a].shuttingDown = 1 THEN None ELSE row
  /\ UNCHANGED pending

\* Nothing the old client sends is understood, and its session cannot be kept
\* alive.
HandleAccountLogin(p) ==
  /\ IF Known(p) = {} THEN UNCHANGED sess
     ELSE \E a \in Known(p) :
            sess' = [sess EXCEPT ![p][a] =
                       [@ EXCEPT !.forced = TRUE, !.key = Scrambled, !.old = Scrambled]]
  /\ UNCHANGED <<pending, row>>

MapHandles(p) ==
  /\ toMap[p] # <<>>
  /\ toMap' = [toMap EXCEPT ![p] = Tail(@)]
  /\ CASE Head(toMap[p]).type = "CharZone"     -> HandleCharZone(p)
       [] Head(toMap[p]).type = "KillSession"  -> HandleKillSession(p)
       [] Head(toMap[p]).type = "AccountLogin" -> HandleAccountLogin(p)
  /\ UNCHANGED <<chars, toWorld, client, told, logins, strays, crashes>>

-----------------------------------------------------------------------------
Cleanup == \E p \in Procs : PendingTimesOut(p) \/ \E a \in Addrs : SessionTimesOut(p, a)
Deliver == \/ \E s \in Procs \cup {LoginServer} : WorldHandles(s)
           \/ \E p \in Procs : MapHandles(p)

Next ==
  \/ Authenticate \/ Vanish \/ Welcomed \/ ClientSendsLogin \/ ClientSends
  \/ \E a \in Addrs : SelectCharacter(a)
  \/ \E p \in Procs, a \in Addrs :
       LateLogin(p, a) \/ Play(p, a) \/ SaveChar(p, a) \/ ZoneOut(p, a) \/ LogOut(p, a)
  \/ \E p \in Procs : Crash(p)
  \/ Cleanup \/ Deliver \/ Tick

Spec == Init /\ [][Next]_vars

\* The timers of the processes run, and messages arrive.
FairSpec == Spec /\ WF_vars(Cleanup) /\ WF_vars(Deliver) /\ WF_vars(Tick)

-----------------------------------------------------------------------------
(* Properties.                                                             *)

\* However the datagrams and messages fall, the character is in a zone of at
\* most one map process, in one session (the hand-over in send_parse, and the
\* 0x00A handler that refuses zones of other processes).
OneOwner == \A p, q \in Procs : \A a, b \in Addrs :
              InZone(p, a) /\ InZone(q, b) => p = q /\ a = b

\* Saved data is overwritten by older data only when a session is cleaned up
\* whose character is in no zone: a copy loaded for a late 0x00A, which has
\* waited while the character was played on another process.  This holds while
\* at most one 0x00A has come late: with two such copies, a character can be
\* loaded from what the first of them saved and overwrite the second.
OlderOnlyFromLeftovers ==
  [][strays <= 1 /\ chars'.v < chars.v =>
       \E p \in Procs, a \in Addrs :
         sess[p][a] # None /\ sess'[p][a] = None /\ ~InZone(p, a)]_vars

\* The row of a character in a zone stands, and names its process: no
\* time-out, message or login elsewhere removes it (cleanupSessions deletes
\* the row of a pending session without looking).
RowStands == \A p \in Procs, a \in Addrs : InZone(p, a) => row # None /\ row.server = p

\* A client that plays is understood by the session it writes to, with the
\* current key or, while it may have missed the 0x00B, with the one before;
\* unless its account has logged in again, or a late 0x00A was taken for it.
ClientIsUnderstood ==
  LET s == sess[client.proc][client.addr]
  IN  client.phase = "playing" /\ s # None /\ ~s.forced /\ strays = 0
        => \/ s.key = client.key
           \/ s.status = "PendingZone" /\ s.old = client.key

\* Once the player stays away, no session is left anywhere, and no row that
\* would keep the player from logging in again.
SessionsDrain ==
  <>[](client.phase = "off")
    => <>[](/\ RowIsFree
            /\ \A p \in Procs : pending[p] = None /\ \A a \in Addrs : sess[p][a] = None)

\* "Player session is attached to this map process and has stopped
\* responding": only then is the player saved (map_session_container.cpp:249).
OtherMapIsSpared ==
  [][\A p \in Procs, a \in Addrs :
       sess[p][a] # None /\ sess'[p][a] = None /\ OnOtherMap(p) => chars'.v = chars.v]_vars
=============================================================================
