--------------------------- MODULE MapSessions_proofs ---------------------------
(***************************************************************************)
(* That a character is in a zone of at most one map process, that its row  *)
(* stands while it is, and that its client is understood: for any number   *)
(* of processes, zones, addresses, late datagrams and crashes.  And that,  *)
(* with one late datagram, only a session that is cleaned up saves older   *)
(* data over newer.                                                        *)
(***************************************************************************)
EXTENDS MapSessions, TLAPS

\* A session on process p, while the zone saved of the character is z.  In a
\* zone is only an accepted session, in the saved zone, which runs on p.  A
\* session that waits for its 0x00A and whose zone runs on p was loaded from
\* what is saved still.  Who is to be sent elsewhere has left the zone, and
\* the key can be incremented once more.
SessionOK(p, s, z) ==
  /\ s \in Session
  /\ s.char # None /\ s.char.zone # None =>
       s.status = "Accepted" /\ s.char.zone = z /\ Host[z] = p
  /\ s.status = "Waiting" =>
       /\ s.char \in Character /\ s.char.zone = None /\ s.char.dest \in Zones
       /\ s.char.out = "none"
       /\ Host[s.char.dest] = p => s.char.dest = z
  /\ s.char # None /\ s.char.out = "zone" =>
       s.char.dest \in Zones /\ s.status = "PendingZone" /\ s.key[2] < MaxHops
  /\ s.old \in Keys => s.old[2] < MaxHops

\* A process has one session of the character at most, and prepares one only
\* when it has none.
OnePerProcess ==
  /\ \A p \in Procs : \A a, b \in Addrs : sess[p][a] # None /\ sess[p][b] # None => a = b
  /\ \A p \in Procs : pending[p] # None => \A a \in Addrs : sess[p][a] = None

Placed == \A p \in Procs, a \in Addrs :
            sess[p][a] # None => SessionOK(p, sess[p][a], chars.zone)

ClientHasKey == client.phase \in {"entering", "playing"} => client.key \in Keys

Handover == SessionTypeOK /\ OnePerProcess /\ Placed /\ ClientHasKey

-----------------------------------------------------------------------------
SessType == sess \in [Procs -> [Addrs -> Session \cup {None}]]

\* What the constants are (SessionsAssumption).
LEMMA Constants ==
  /\ Host \in [Zones -> Procs] /\ Home \in Zones /\ None \notin Zones \cup Procs
  /\ MaxLogins \in Nat /\ MaxHops \in Nat /\ MaxVersion \in Nat
  /\ MaxStrays \in Nat /\ MaxCrashes \in Nat
  BY SessionsAssumption DEF SessionsAssumption

\* A key of the login server, incremented once more, is one (incrementBlowfish).
LEMMA KeyNext ==
  ASSUME NEW k \in Keys, k[2] < MaxHops
  PROVE  Incremented(k) \in Keys
  BY Constants DEF Keys, Incremented

\* The key of a newly selected character is one (generate_key).
LEMMA KeyFirst ==
  ASSUME SessionTypeOK, logins < MaxLogins
  PROVE  <<logins + 1, 0>> \in Keys
  BY Constants DEF SessionTypeOK, Keys

\* The scrambled key is none of the login server's; where a key could be
\* incremented, so could the scrambled one.
LEMMA KeyScrambled ==
  /\ Scrambled \notin Keys
  /\ \A k \in Keys \cup {Scrambled} : k[2] < MaxHops => Scrambled[2] < MaxHops
  BY Constants DEF Keys, Scrambled

\* A character just loaded is in no zone and is to go where it was saved
\* (charutils::LoadChar).
LEMMA LoadedIsSaved ==
  ASSUME SessionTypeOK
  PROVE  /\ Loaded \in Character /\ chars.zone \in Zones
         /\ Loaded.zone = None /\ Loaded.dest = chars.zone /\ Loaded.out = "none"
  BY DEF SessionTypeOK, Loaded, Character

\* A session is sound whatever its age, its previous peer and what it has
\* decrypted so far.
LEMMA StaysOK ==
  ASSUME NEW p, NEW s, NEW z, SessionOK(p, s, z), NEW t \in Session,
         t.char = s.char, t.status = s.status, t.old = s.old, t.key = s.key
  PROVE  SessionOK(p, t, z)
  BY DEF SessionOK

\* A step that replaces or closes one session, and neither moves the saved
\* character nor expects a client, keeps all sessions sound.
LEMMA Replaced ==
  ASSUME Handover, NEW p \in Procs, NEW a \in Addrs, NEW t,
         sess[p][a] # None, t = None \/ SessionOK(p, t, chars.zone),
         sess' = [sess EXCEPT ![p][a] = t], chars'.zone = chars.zone,
         \A q \in Procs : pending'[q] # None => pending[q] # None
  PROVE  SessType' /\ OnePerProcess' /\ Placed'
<1>1. /\ sess \in [Procs -> [Addrs -> Session \cup {None}]]
      /\ t \in Session \cup {None}
  BY DEF Handover, SessionTypeOK, SessionOK
<1>2. SessType'
  BY <1>1 DEF SessType
<1>3. \A q \in Procs, b \in Addrs : sess'[q][b] = IF q = p /\ b = a THEN t ELSE sess[q][b]
  BY <1>1
<1>4. OnePerProcess'
  BY <1>3 DEF Handover, OnePerProcess
<1>5. Placed'
  <2> SUFFICES ASSUME NEW q \in Procs, NEW b \in Addrs, sess'[q][b] # None
               PROVE  SessionOK(q, sess'[q][b], chars.zone)
    BY DEF Placed
  <2> QED BY <1>3 DEF Handover, Placed
<1> QED BY <1>2, <1>4, <1>5

\* A step that touches no session, moves no saved character and expects no
\* client keeps all sessions sound.
LEMMA Untouched ==
  ASSUME Handover, sess' = sess, chars'.zone = chars.zone,
         \A q \in Procs : pending'[q] # None => pending[q] # None
  PROVE  SessType' /\ OnePerProcess' /\ Placed'
  BY DEF Handover, SessionTypeOK, SessType, OnePerProcess, Placed

-----------------------------------------------------------------------------
\* The types of everything but the sessions.
RestType ==
  /\ pending \in [Procs -> Ages \cup {None}]
  /\ row \in Row \cup {None}
  /\ chars \in [v : 0..MaxVersion, zone : Zones, prev : Zones]
  /\ toWorld \in [Procs \cup {LoginServer} -> Seq(Message)]
  /\ toMap \in [Procs -> Seq(Message)]
  /\ client \in [phase : {"off", "lobby", "entering", "playing"}, addr : Addrs,
                 proc : Procs, key : Keys \cup {Scrambled}]
  /\ told \subseteq Procs \X Addrs
  /\ logins \in 0..MaxLogins /\ strays \in 0..MaxStrays /\ crashes \in 0..MaxCrashes

\* The invariant, put together from what the lemmas below establish.
LEMMA Together ==
  /\ SessType /\ RestType /\ OnePerProcess /\ Placed /\ ClientHasKey <=> Handover
  /\ SessType' /\ RestType' /\ OnePerProcess' /\ Placed' /\ ClientHasKey' <=> Handover'
  BY DEF Handover, SessionTypeOK, SessType, RestType

\* A message appended to a sender's queue leaves the queues well typed.
LEMMA Sending ==
  ASSUME SessionTypeOK, NEW s \in Procs \cup {LoginServer}, NEW m \in Message
  PROVE  [toWorld EXCEPT ![s] = Append(@, m)] \in [Procs \cup {LoginServer} -> Seq(Message)]
<1>1. toWorld[s] \in Seq(Message)
  BY DEF SessionTypeOK
<1>2. Append(toWorld[s], m) \in Seq(Message)
  BY <1>1
<1> QED BY <1>2 DEF SessionTypeOK

\* The messages the processes send are messages.
LEMMA Messages ==
  /\ [type |-> "AccountLogin"] \in Message /\ [type |-> "KillSession"] \in Message
  /\ \A z \in Zones : [type |-> "CharZone", zone |-> z] \in Message
  BY DEF Message

\* At first nobody has a session.
LEMMA InitHandover == Init => Handover
<1> SUFFICES ASSUME Init PROVE Handover
  OBVIOUS
<1>1. SessType /\ OnePerProcess /\ Placed
  BY DEF Init, SessType, OnePerProcess, Placed
<1>2. RestType /\ ClientHasKey
  BY Constants DEF Init, RestType, ClientHasKey, Ages
<1> QED BY <1>1, <1>2, Together

\* The player authenticates, selects the character, goes away, or is welcomed.
LEMMA PlayerStep ==
  ASSUME Handover, \/ Authenticate \/ Vanish \/ Welcomed
                   \/ \E a \in Addrs : SelectCharacter(a)
  PROVE  Handover'
<1>1. SessionTypeOK /\ RestType /\ ClientHasKey
  BY Together DEF Handover
<1>2. sess' = sess /\ chars' = chars /\ pending' = pending
  BY DEF Authenticate, Vanish, Welcomed, SelectCharacter
<1>3. SessType' /\ OnePerProcess' /\ Placed'
  BY <1>2, Untouched
<1>4. RestType' /\ ClientHasKey'
  <2>1. CASE Authenticate
    BY <2>1, <1>1, Sending, Messages DEF Authenticate, RestType, ClientHasKey
  <2>2. CASE Vanish
    BY <2>2, <1>1 DEF Vanish, RestType, ClientHasKey, ipc
  <2>3. CASE Welcomed
    BY <2>3, <1>1 DEF Welcomed, RestType, ClientHasKey, ipc
  <2>4. ASSUME NEW a \in Addrs, SelectCharacter(a) PROVE RestType' /\ ClientHasKey'
    <3> DEFINE key == <<logins + 1, 0>>
    <3>1. key \in Keys /\ Host[chars.zone] \in Procs /\ logins + 1 \in 0..MaxLogins
      BY <2>4, <1>1, KeyFirst, Constants DEF SelectCharacter, RestType
    <3>2. toWorld' \in [Procs \cup {LoginServer} -> Seq(Message)]
      BY <2>4, <1>1, Sending, Messages, LoadedIsSaved DEF SelectCharacter
    <3> HIDE DEF key
    <3>3. /\ row' = [server |-> Host[chars.zone], seen |-> FALSE, key |-> key, waited |-> 2]
          /\ client' = [phase |-> "entering", addr |-> a, proc |-> Host[chars.zone], key |-> key]
          /\ told' = told \cup {<<Host[chars.zone], a>>} /\ logins' = logins + 1
          /\ UNCHANGED <<sess, pending, chars, toMap, strays, crashes>>
      BY <2>4 DEF SelectCharacter, key
    <3>4. row' \in Row
      BY <3>1, <3>3 DEF Row, Waits
    <3> QED BY <1>1, <3>1, <3>2, <3>3, <3>4 DEF RestType, ClientHasKey
  <2> QED BY <2>1, <2>2, <2>3, <2>4
<1> QED BY <1>3, <1>4, Together

-----------------------------------------------------------------------------
\* The part of it that an 0x00A can change.
PartType ==
  /\ pending \in [Procs -> Ages \cup {None}]
  /\ row \in Row \cup {None}
  /\ chars \in [v : 0..MaxVersion, zone : Zones, prev : Zones]
  /\ toWorld \in [Procs \cup {LoginServer} -> Seq(Message)]
  /\ toMap \in [Procs -> Seq(Message)]

\* The session created for an expected client is sound: the process had none,
\* and the character is on its way to where it was saved.
LEMMA CreatedOK ==
  ASSUME Handover, NEW p \in Procs, NEW a \in Addrs, LoginCreates(p, a)
  PROVE  SessType' /\ PartType' /\ OnePerProcess' /\ Placed'
<1>1. SessionTypeOK /\ SessType /\ PartType /\ OnePerProcess /\ Placed
  BY Together DEF Handover, RestType, PartType
<1>2. \A q \in Procs : pending'[q] = IF q = p THEN None ELSE pending[q]
  BY <1>1 DEF LoginCreates, PartType
<1>3. PartType'
  <2>1. toWorld' \in [Procs \cup {LoginServer} -> Seq(Message)]
    <3> DEFINE m == [type |-> "KillSession"]
    <3>1. toWorld' = toWorld \/ toWorld' = [toWorld EXCEPT ![p] = Append(@, m)]
      BY DEF LoginCreates
    <3>2. [toWorld EXCEPT ![p] = Append(@, m)] \in [Procs \cup {LoginServer} -> Seq(Message)]
      BY <1>1, Sending, Messages
    <3> QED BY <1>1, <3>1, <3>2 DEF PartType
  <2>2. pending' \in [Procs -> Ages \cup {None}] /\ UNCHANGED <<row, chars, toMap>>
    BY <1>1 DEF LoginCreates, PartType
  <2> QED BY <1>1, <2>1, <2>2 DEF PartType
<1>4. CASE row = None
  BY <1>2, <1>3, <1>4, Untouched DEF LoginCreates
<1>5. CASE row # None
  <2> DEFINE t == [status |-> "Waiting", char |-> Loaded, key |-> row.key, old |-> Scrambled,
                   decrypted |-> FALSE, shuttingDown |-> 0, ipp |-> None, forced |-> FALSE,
                   age |-> 0]
  <2>1. t \in Session
    BY <1>1, <1>5, LoadedIsSaved DEF PartType, Row, Session, Ages
  <2>2. SessionOK(p, t, chars.zone)
    BY <1>1, <2>1, KeyScrambled, LoadedIsSaved DEF SessionOK
  <2>3. sess' = [sess EXCEPT ![p][a] = t] /\ chars' = chars
    BY <1>5 DEF LoginCreates
  <2>4. \A b \in Addrs : sess[p][b] = None
    BY <1>1 DEF LoginCreates, OnePerProcess
  <2> HIDE DEF t
  <2>5. \A q \in Procs, b \in Addrs : sess'[q][b] = IF q = p /\ b = a THEN t ELSE sess[q][b]
    BY <1>1, <2>3 DEF SessType
  <2>6. SessType'
    BY <1>1, <2>1, <2>3 DEF SessType
  <2>7. OnePerProcess'
    <3>1. \A q \in Procs : \A b, c \in Addrs : sess'[q][b] # None /\ sess'[q][c] # None => b = c
      BY <1>1, <2>4, <2>5 DEF OnePerProcess
    <3>2. \A q \in Procs : pending'[q] # None => \A b \in Addrs : sess'[q][b] = None
      BY <1>1, <1>2, <2>5 DEF OnePerProcess
    <3> QED BY <3>1, <3>2 DEF OnePerProcess
  <2>8. Placed'
    <3> SUFFICES ASSUME NEW q \in Procs, NEW b \in Addrs, sess'[q][b] # None
                 PROVE  SessionOK(q, sess'[q][b], chars'.zone)
      BY DEF Placed
    <3> QED BY <1>1, <2>2, <2>3, <2>5 DEF Placed
  <2> QED BY <1>3, <2>6, <2>7, <2>8
<1> QED BY <1>4, <1>5

\* Loading the character of a session that zones gives what is saved.
LEMMA ReloadedOK ==
  ASSUME SessionTypeOK, NEW p \in Procs, NEW s, SessionOK(p, s, chars.zone),
         s.status = "PendingZone" => row # None
  PROVE  /\ Reloaded(s) \in Session
         /\ Reloaded(s).status = s.status /\ Reloaded(s).old = s.old
         /\ s.status # "PendingZone" => Reloaded(s).char = s.char /\ Reloaded(s).key = s.key
         /\ s.status = "PendingZone" => Reloaded(s).char = Loaded
<1>1. CASE s.status = "PendingZone"
  <2>1. row.key \in Keys
    BY <1>1 DEF SessionTypeOK, Row
  <2> QED BY <1>1, <2>1, LoadedIsSaved DEF Reloaded, SessionOK, Session
<1>2. CASE s.status # "PendingZone"
  BY <1>2 DEF Reloaded, SessionOK, Session
<1> QED BY <1>1, <1>2

\* An accepted session with another character is a session.
LEMMA AcceptedType ==
  ASSUME NEW s \in Session, NEW d \in Character
  PROVE  LET t == [s EXCEPT !.status = "Accepted", !.shuttingDown = 0, !.char = d]
         IN  t \in Session /\ t.status = "Accepted" /\ t.char = d /\ t.old = s.old
<1> DEFINE t1 == [s EXCEPT !.status = "Accepted"]
           t2 == [t1 EXCEPT !.shuttingDown = 0]
           t3 == [t2 EXCEPT !.char = d]
<1>1. t1 \in Session /\ t1.status = "Accepted" /\ t1.old = s.old
  BY DEF Session
<1> HIDE DEF t1
<1>2. t2 \in Session /\ t2.status = "Accepted" /\ t2.old = s.old
  BY <1>1 DEF Session
<1> HIDE DEF t2
<1>3. t3 \in Session /\ t3.status = "Accepted" /\ t3.old = s.old /\ t3.char = d
  BY <1>2 DEF Session
<1>4. t3 = [s EXCEPT !.status = "Accepted", !.shuttingDown = 0, !.char = d]
  BY DEF t1, t2, Session
<1> QED BY <1>3, <1>4

\* The 0x00A handler puts the character in the saved zone, and only where
\* that zone runs.
LEMMA EnteredOK ==
  ASSUME SessionTypeOK, NEW p \in Procs, NEW s, SessionOK(p, s, chars.zone),
         s.status = "PendingZone" => row # None, s.status # "Accepted"
  PROVE  SessionOK(p, Entered(p, Reloaded(s)), chars.zone)
<1> DEFINE r == Reloaded(s)
           c == r.char
           e == Entered(p, r)
<1>1. r \in Session /\ r.old = s.old /\ r.status = s.status
  BY ReloadedOK
<1>2. /\ c \in Character /\ c.zone = None /\ c.dest \in Zones
      /\ Host[c.dest] = p => c.dest = chars.zone
      /\ c.out = "none"
  <2>1. CASE s.status = "PendingZone"
    BY <2>1, ReloadedOK, LoadedIsSaved
  <2>2. CASE s.status = "Waiting"
    BY <2>2, ReloadedOK DEF SessionOK
  <2> QED BY <2>1, <2>2 DEF SessionOK, Session
<1> HIDE DEF r
<1> DEFINE d == IF Host[c.dest] = p THEN [c EXCEPT !.zone = c.dest, !.dest = None] ELSE c
<1>3. /\ d \in Character /\ d.out = "none"
      /\ d.zone # None => d.zone = chars.zone /\ Host[chars.zone] = p
  BY <1>2, Constants DEF Character
<1>4. e = [r EXCEPT !.status = "Accepted", !.shuttingDown = 0, !.char = d]
  BY DEF Entered
<1> HIDE DEF c, d, e
<1>5. /\ e \in Session /\ e.status = "Accepted" /\ e.char = d /\ e.old = s.old
  BY <1>1, <1>3, <1>4, AcceptedType
<1>6. SessionOK(p, e, chars.zone)
  BY <1>3, <1>5 DEF SessionOK
<1> QED BY <1>6 DEF e, r

\* A row that has seen its client at a process is a row.
LEMMA SeenType ==
  ASSUME NEW k \in Row, NEW p \in Procs
  PROVE  [k EXCEPT !.server = p, !.seen = TRUE, !.waited = 2] \in Row
<1> DEFINE k1 == [k EXCEPT !.server = p]
           k2 == [k1 EXCEPT !.seen = TRUE]
           k3 == [k2 EXCEPT !.waited = 2]
<1>1. k1 \in Row
  BY DEF Row
<1> HIDE DEF k1
<1>2. k2 \in Row
  BY <1>1 DEF Row
<1> HIDE DEF k2
<1>3. k3 \in Row
  BY <1>2 DEF Row, Waits
<1>4. k3 = [k EXCEPT !.server = p, !.seen = TRUE, !.waited = 2]
  BY DEF k1, k2, Row
<1> QED BY <1>3, <1>4

\* What an 0x00A does keeps all sessions sound, expected or not.
LEMMA LoginOK ==
  ASSUME Handover, NEW p \in Procs, NEW a \in Addrs, Login(p, a)
  PROVE  SessType' /\ PartType' /\ OnePerProcess' /\ Placed'
<1> DEFINE s == sess[p][a]
           r == Reloaded(s)
<1>1. /\ SessionTypeOK /\ PartType
      /\ s # None => SessionOK(p, s, chars.zone)
  BY Together DEF Handover, RestType, PartType, Placed
<1>2. CASE LoginCreates(p, a)
  BY <1>2, CreatedOK
<1>3. CASE LoginHandled(p, a)
  <2>1. s # None /\ SessionOK(p, s, chars.zone) /\ (s.status = "PendingZone" => row # None)
    BY <1>1, <1>3 DEF LoginHandled
  <2>2. UNCHANGED <<pending, chars, toWorld, toMap>>
    BY <1>3 DEF LoginHandled, ipc
  <2>3. CASE s.status = "Accepted"
    <3> DEFINE t == IF r.forced THEN r ELSE [r EXCEPT !.age = 0]
    <3>1. r = [s EXCEPT !.ipp = None] /\ s \in Session
      BY <2>1, <2>3 DEF Reloaded, SessionOK
    <3>2. /\ t \in Session /\ t.char = s.char /\ t.status = s.status
          /\ t.old = s.old /\ t.key = s.key
      <4>1. /\ r \in Session /\ r.char = s.char /\ r.status = s.status
            /\ r.old = s.old /\ r.key = s.key
        BY <3>1 DEF Session
      <4> HIDE DEF r
      <4> QED BY <4>1 DEF Session, Ages
    <3>3. sess' = [sess EXCEPT ![p][a] = t] /\ row' = row
      BY <1>3, <2>3 DEF LoginHandled
    <3> HIDE DEF t
    <3>4. SessionOK(p, t, chars.zone)
      BY <2>1, <3>2, StaysOK
    <3> QED BY <1>1, <2>1, <2>2, <3>3, <3>4, Replaced DEF PartType
  <2>4. CASE s.status # "Accepted"
    <3> DEFINE t == Entered(p, r)
    <3>1. SessionOK(p, t, chars.zone)
      BY <1>1, <2>1, <2>4, EnteredOK
    <3>2. sess' = [sess EXCEPT ![p][a] = t]
      BY <1>3, <2>4 DEF LoginHandled
    <3>3. row' \in Row \cup {None}
      <4>1. \/ row' = row
            \/ row # None /\ row' = [row EXCEPT !.server = p, !.seen = TRUE, !.waited = 2]
        BY <1>3, <2>4 DEF LoginHandled
      <4>2. CASE row' = row
        BY <1>1, <4>2 DEF PartType
      <4>3. CASE row # None /\ row' = [row EXCEPT !.server = p, !.seen = TRUE, !.waited = 2]
        <5>1. row \in Row
          BY <1>1, <4>3 DEF PartType
        <5>2. [row EXCEPT !.server = p, !.seen = TRUE, !.waited = 2] \in Row
          BY <5>1, SeenType
        <5> QED BY <4>3, <5>2
      <4> QED BY <4>1, <4>2, <4>3
    <3> HIDE DEF t
    <3> QED BY <1>1, <2>1, <2>2, <3>1, <3>2, <3>3, Replaced DEF PartType
  <2> QED BY <2>3, <2>4
<1>4. CASE LoginUnloadable(p, a)
  <2>1. /\ s # None /\ SessionOK(p, s, chars.zone) /\ s.status = "PendingZone"
        /\ UNCHANGED <<pending, row, chars, toWorld, toMap>>
    BY <1>1, <1>4 DEF LoginUnloadable, ipc
  <2> DEFINE t == IF s.shuttingDown = 1 THEN None ELSE [s EXCEPT !.char = None]
  <2>2. sess' = [sess EXCEPT ![p][a] = t]
    BY <1>4 DEF LoginUnloadable
  <2>3. t = None \/ SessionOK(p, t, chars.zone)
    <3> DEFINE u == [s EXCEPT !.char = None]
    <3>1. u \in Session /\ u.status = "PendingZone" /\ u.char = None /\ u.old = s.old
      BY <2>1 DEF SessionOK, Session
    <3>2. SessionOK(p, u, chars.zone)
      BY <2>1, <3>1 DEF SessionOK
    <3> QED BY <3>2
  <2> HIDE DEF t
  <2> QED BY <1>1, <2>1, <2>2, <2>3, Replaced DEF PartType
<1> QED BY <1>2, <1>3, <1>4 DEF Login

\* An 0x00A the client sends, or one that comes late.
LEMMA LoginStep ==
  ASSUME Handover, \/ ClientSendsLogin
                   \/ \E p \in Procs, a \in Addrs : LateLogin(p, a)
  PROVE  Handover'
<1>1. RestType /\ ClientHasKey
  BY Together
<1>2. CASE ClientSendsLogin
  <2>1. Login(client.proc, client.addr) /\ client.proc \in Procs /\ client.addr \in Addrs
    BY <1>1, <1>2 DEF ClientSendsLogin, RestType
  <2>2. SessType' /\ PartType' /\ OnePerProcess' /\ Placed'
    BY <2>1, LoginOK
  <2>3. RestType' /\ ClientHasKey'
    BY <1>1, <1>2, <2>2 DEF ClientSendsLogin, RestType, PartType, ClientHasKey
  <2> QED BY <2>2, <2>3, Together
<1>3. ASSUME NEW p \in Procs, NEW a \in Addrs, LateLogin(p, a) PROVE Handover'
  <2>1. SessType' /\ PartType' /\ OnePerProcess' /\ Placed'
    BY <1>3, LoginOK DEF LateLogin
  <2>2. strays' \in 0..MaxStrays
    BY <1>1, <1>3, Constants DEF LateLogin, RestType
  <2>3. RestType' /\ ClientHasKey'
    BY <1>1, <1>3, <2>1, <2>2 DEF LateLogin, RestType, PartType, ClientHasKey
  <2> QED BY <2>1, <2>3, Together
<1> QED BY <1>2, <1>3

-----------------------------------------------------------------------------
\* A datagram of the client that plays: an ordinary packet, or one whose
\* answer sends the character elsewhere or closes the session.
LEMMA ClientStep ==
  ASSUME Handover, ClientSends
  PROVE  Handover'
<1> DEFINE p == client.proc
           a == client.addr
           s == sess[p][a]
<1>1. /\ SessionTypeOK /\ RestType /\ p \in Procs /\ a \in Addrs
      /\ client.key \in Keys /\ UNCHANGED <<logins, strays, crashes>>
      /\ s # None => SessionOK(p, s, chars.zone)
  BY Together DEF Handover, RestType, ClientSends, Placed, ClientHasKey
<1> HIDE DEF p, a
<1>2. ASSUME NEW q \in Procs, Redirected(q), client.key[2] < MaxHops
      PROVE  /\ client' \in [phase : {"off", "lobby", "entering", "playing"}, addr : Addrs,
                             proc : Procs, key : Keys \cup {Scrambled}]
             /\ told' \subseteq Procs \X Addrs /\ ClientHasKey'
  <2>1. CASE UNCHANGED <<client, told>>
    BY <2>1, <1>1, Together DEF RestType, ClientHasKey
  <2>2. CASE /\ client' = [client EXCEPT !.phase = "entering", !.proc = q, !.key = Incremented(@)]
             /\ told' = told \cup {<<q, client.addr>>}
    <3>1. Incremented(client.key) \in Keys
      BY <1>1, <1>2, KeyNext
    <3>2. client' = [phase |-> "entering", addr |-> client.addr, proc |-> q,
                     key |-> Incremented(client.key)]
      BY <1>1, <2>2 DEF RestType
    <3> QED BY <1>1, <2>2, <3>1, <3>2 DEF RestType, ClientHasKey
  <2> QED BY <1>2, <2>1, <2>2 DEF Redirected
<1>3. CASE PacketAnswered(p, a)
  <2> DEFINE n == IF s.status = "Accepted" /\ ~s.forced THEN 0 ELSE s.age
             t == [s EXCEPT !.decrypted = TRUE, !.age = n]
  <2>1. /\ s # None /\ sess' = [sess EXCEPT ![p][a] = t]
        /\ UNCHANGED <<pending, row, chars, toWorld, toMap, client, told>>
    BY <1>1, <1>3 DEF PacketAnswered, ipc, SessionTypeOK
  <2>2. s \in Session /\ n \in Ages
    BY <1>1, <2>1 DEF SessionOK, Session, Ages
  <2> HIDE DEF n
  <2>3. /\ t \in Session /\ t.char = s.char /\ t.status = s.status
        /\ t.old = s.old /\ t.key = s.key
    BY <2>2 DEF Session
  <2>4. SessionOK(p, t, chars.zone)
    BY <1>1, <2>1, <2>3, StaysOK
  <2> HIDE DEF t
  <2>5. SessType' /\ OnePerProcess' /\ Placed'
    BY <1>1, <2>1, <2>4, Replaced
  <2>6. RestType' /\ ClientHasKey'
    BY <1>1, <2>1, Together DEF RestType, ClientHasKey
  <2> QED BY <2>5, <2>6, Together
<1>4. CASE SendZoneOut(p, a)
  <2> DEFINE next == Host[s.char.dest]
             u == [s EXCEPT !.status = "PendingZone", !.char = None, !.ipp = next]
             t == Rekeyed(u)
  <2>1. /\ s # None /\ SessionOK(p, s, chars.zone) /\ s \in Session /\ client.key = s.key
        /\ s.char.dest \in Zones /\ next \in Procs /\ s.key[2] < MaxHops
    BY <1>1, <1>4, Constants DEF SendZoneOut, SessionOK
  <2>2. /\ row' = IF row = None THEN None
                  ELSE [server |-> next, seen |-> FALSE, key |-> Incremented(s.key), waited |-> 0]
        /\ sess' = [sess EXCEPT ![p][a] = t]
        /\ toWorld' = [toWorld EXCEPT ![p] =
                         Append(@, [type |-> "CharZone", zone |-> s.char.dest])]
        /\ Redirected(next)
        /\ UNCHANGED <<pending, chars, toMap>>
    BY <1>4 DEF SendZoneOut
  <2>3. s.key \in Keys /\ Incremented(s.key) \in Keys
    BY <1>1, <2>1, KeyNext
  <2> HIDE DEF next
  <2>4. SessionOK(p, t, chars.zone)
    <3>1. u \in Session /\ u.status = "PendingZone" /\ u.char = None /\ u.key = s.key
      BY <2>1 DEF Session
    <3> HIDE DEF u
    <3>2. t = [u EXCEPT !.key = Incremented(s.key), !.old = s.key, !.decrypted = FALSE]
      BY <3>1 DEF Rekeyed, Session
    <3>3. t \in Session /\ t.status = "PendingZone" /\ t.char = None /\ t.old = s.key
      <4> DEFINE t1 == [u EXCEPT !.key = Incremented(s.key)]
                 t2 == [t1 EXCEPT !.old = s.key]
                 t3 == [t2 EXCEPT !.decrypted = FALSE]
      <4>1. t1 \in Session /\ t1.status = "PendingZone" /\ t1.char = None
        BY <2>3, <3>1 DEF Session
      <4>2. t3 = t
        BY <3>1, <3>2 DEF Session
      <4> HIDE DEF t1, t
      <4>3. t2 \in Session /\ t2.status = "PendingZone" /\ t2.char = None /\ t2.old = s.key
        BY <2>3, <4>1 DEF Session
      <4> HIDE DEF t2
      <4>4. t3 \in Session /\ t3.status = "PendingZone" /\ t3.char = None /\ t3.old = s.key
        BY <4>3 DEF Session
      <4> QED BY <4>2, <4>4
    <3> HIDE DEF t
    <3> QED BY <2>1, <3>3 DEF SessionOK
  <2> HIDE DEF t
  <2>5. SessType' /\ OnePerProcess' /\ Placed'
    BY <1>1, <2>1, <2>2, <2>4, Replaced
  <2>6. row' \in Row \cup {None}
    BY <2>1, <2>2, <2>3 DEF Row, Waits
  <2>7. toWorld' \in [Procs \cup {LoginServer} -> Seq(Message)]
    BY <1>1, <2>1, <2>2, Sending, Messages
  <2>8. RestType' /\ ClientHasKey'
    BY <1>1, <1>2, <2>1, <2>2, <2>6, <2>7 DEF RestType
  <2> QED BY <2>5, <2>8, Together
<1>5. CASE SendLogOut(p, a)
  <2>1. /\ s # None /\ sess' = [sess EXCEPT ![p][a] = None] /\ row' = None
        /\ UNCHANGED <<pending, chars, toWorld, toMap, told>>
        /\ client' = client \/ client' = [client EXCEPT !.phase = "lobby"]
    BY <1>5 DEF SendLogOut, Closed, ipc
  <2>2. SessType' /\ OnePerProcess' /\ Placed'
    BY <1>1, <2>1, Replaced
  <2>3. RestType' /\ ClientHasKey'
    BY <1>1, <2>1, Together DEF RestType, ClientHasKey
  <2> QED BY <2>2, <2>3, Together
<1>6. CASE SendZoneOutAgain(p, a)
  <2>1. /\ s # None /\ s.ipp \in Procs /\ Redirected(s.ipp) /\ client.key[2] < MaxHops
        /\ UNCHANGED <<sess, pending, row, chars, toWorld, toMap>>
    BY <1>1, <1>6 DEF SendZoneOutAgain, ipc, SessionOK, Session
  <2>2. SessType' /\ OnePerProcess' /\ Placed'
    BY <2>1, Untouched
  <2>3. RestType' /\ ClientHasKey'
    BY <1>1, <1>2, <2>1 DEF RestType
  <2> QED BY <2>2, <2>3, Together
<1> QED BY <1>3, <1>4, <1>5, <1>6 DEF ClientSends, p, a

-----------------------------------------------------------------------------
\* A character in a zone is the only one of its process, and where it is saved.
LEMMA InZoneFacts ==
  ASSUME Handover, NEW p \in Procs, NEW a \in Addrs, InZone(p, a)
  PROVE  LET s == sess[p][a]
         IN  /\ s # None /\ SessionOK(p, s, chars.zone) /\ s \in Session
             /\ s.char \in Character /\ s.char.zone \in Zones
             /\ s.status = "Accepted" /\ s.char.zone = chars.zone /\ Host[chars.zone] = p
             /\ s.char.out # "zone"
             /\ \A b \in Addrs : sess[p][b] # None => b = a
<1> DEFINE s == sess[p][a]
<1>1. /\ s # None /\ SessionOK(p, s, chars.zone) /\ s.char # None /\ s.char.zone # None
      /\ \A b \in Addrs : sess[p][b] # None => b = a
  BY DEF Handover, InZone, Placed, OnePerProcess
<1>2. s \in Session /\ s.char \in Character /\ s.char.zone \in Zones
  BY <1>1 DEF SessionOK, Session, Character
<1>3. /\ s.status = "Accepted" /\ s.char.zone = chars.zone /\ Host[chars.zone] = p
      /\ s.char.out # "zone"
  BY <1>1 DEF SessionOK
<1> QED BY <1>1, <1>2, <1>3

\* The character in its zone is played and saved, and logs out.
LEMMA ZoneStep ==
  ASSUME Handover, NEW p \in Procs, NEW a \in Addrs,
         Play(p, a) \/ SaveChar(p, a) \/ LogOut(p, a)
  PROVE  Handover'
<1> DEFINE s == sess[p][a]
           c == s.char
<1>1. /\ SessionTypeOK /\ RestType /\ ClientHasKey
      /\ s # None /\ SessionOK(p, s, chars.zone) /\ s \in Session
      /\ c \in Character /\ c.zone \in Zones /\ s.status = "Accepted"
      /\ c.zone = chars.zone /\ Host[chars.zone] = p /\ c.out # "zone"
      /\ UNCHANGED <<pending, row, toWorld, toMap, client, told, logins, strays, crashes>>
  BY Together, InZoneFacts DEF Handover, Play, SaveChar, LogOut, ipc
<1>2. CASE Play(p, a)
  <2> DEFINE d == [c EXCEPT !.v = @ + 1]
             t == [s EXCEPT !.char = d]
  <2>1. sess' = [sess EXCEPT ![p][a] = t] /\ chars' = chars
    BY <1>1, <1>2 DEF Play, SessionTypeOK, Session, Character
  <2>2. d \in Character /\ d.zone = c.zone /\ d.out = c.out /\ d.dest = c.dest
    BY <1>1, <1>2, Constants DEF Play, Character
  <2> HIDE DEF d
  <2>3. t \in Session /\ t.char = d /\ t.status = s.status /\ t.old = s.old /\ t.key = s.key
    BY <1>1, <2>2 DEF Session
  <2> HIDE DEF t
  <2>4. SessionOK(p, t, chars.zone)
    BY <1>1, <2>2, <2>3 DEF SessionOK
  <2>5. SessType' /\ OnePerProcess' /\ Placed'
    BY <1>1, <2>1, <2>4, Replaced
  <2>6. RestType' /\ ClientHasKey'
    BY <1>1, <2>1 DEF RestType, ClientHasKey
  <2> QED BY <2>5, <2>6, Together
<1>3. CASE SaveChar(p, a)
  <2>1. sess' = sess /\ chars' = [chars EXCEPT !.v = c.v] /\ c.v \in 0..MaxVersion
    BY <1>1, <1>3 DEF SaveChar, Character
  <2>2. chars' \in [v : 0..MaxVersion, zone : Zones, prev : Zones] /\ chars'.zone = chars.zone
    BY <1>1, <2>1 DEF RestType
  <2>3. SessType' /\ OnePerProcess' /\ Placed'
    BY <1>1, <2>1, <2>2, Untouched
  <2>4. RestType' /\ ClientHasKey'
    BY <1>1, <2>2 DEF RestType, ClientHasKey
  <2> QED BY <2>3, <2>4, Together
<1>4. CASE LogOut(p, a)
  <2> DEFINE t == Removed(s, 1, "logout")
  <2>1. /\ sess' = [sess EXCEPT ![p][a] = t] /\ chars' = [chars EXCEPT !.v = c.v]
        /\ c.v \in 0..MaxVersion
    BY <1>1, <1>4 DEF LogOut, Character
  <2>2. chars' \in [v : 0..MaxVersion, zone : Zones, prev : Zones] /\ chars'.zone = chars.zone
    BY <1>1, <2>1 DEF RestType
  <2>3. SessionOK(p, t, chars.zone)
    <3> DEFINE d == [c EXCEPT !.zone = None, !.out = "logout"]
               t1 == [s EXCEPT !.status = "PendingZone"]
               t2 == [t1 EXCEPT !.shuttingDown = 1]
               t3 == [t2 EXCEPT !.char = d]
    <3>1. t = t3
      BY <1>1 DEF Removed, Session
    <3>2. d \in Character /\ d.zone = None /\ d.out = "logout"
      BY <1>1 DEF Character
    <3>3. t1 \in Session /\ t1.status = "PendingZone" /\ t1.old = s.old
      BY <1>1 DEF Session
    <3> HIDE DEF d, t, t1
    <3>4. t2 \in Session /\ t2.status = "PendingZone" /\ t2.old = s.old
      BY <3>3 DEF Session
    <3> HIDE DEF t2
    <3>5. t3 \in Session /\ t3.status = "PendingZone" /\ t3.old = s.old /\ t3.char = d
      BY <3>2, <3>4 DEF Session
    <3> QED BY <1>1, <3>1, <3>2, <3>5 DEF SessionOK
  <2> HIDE DEF t
  <2>4. SessType' /\ OnePerProcess' /\ Placed'
    BY <1>1, <2>1, <2>2, <2>3, Replaced
  <2>5. RestType' /\ ClientHasKey'
    BY <1>1, <2>2 DEF RestType, ClientHasKey
  <2> QED BY <2>4, <2>5, Together
<1> QED BY <1>2, <1>3, <1>4

\* The character leaves for another zone, which is saved: no other session of
\* the character can have been about to enter a zone.
LEMMA ZoneOutStep ==
  ASSUME Handover, NEW p \in Procs, NEW a \in Addrs, ZoneOut(p, a)
  PROVE  Handover'
<1> DEFINE s == sess[p][a]
           c == s.char
<1>1. /\ SessionTypeOK /\ SessType /\ RestType /\ OnePerProcess /\ Placed /\ ClientHasKey
      /\ s # None /\ SessionOK(p, s, chars.zone) /\ s \in Session
      /\ c \in Character /\ c.zone \in Zones /\ Host[chars.zone] = p
      /\ \A b \in Addrs : sess[p][b] # None => b = a
      /\ s.key[2] < MaxHops
      /\ UNCHANGED <<pending, row, toWorld, toMap, client, told, logins, strays, crashes>>
  BY Together, InZoneFacts DEF Handover, ZoneOut, ipc
<1> DEFINE prev(z) == IF z = c.zone THEN c.prev ELSE c.zone
           t(z) == Removed([s EXCEPT !.char.dest = z, !.char.prev = c.zone], 2, "zone")
<1>2. PICK z \in Zones : /\ chars' = [v |-> c.v, zone |-> z, prev |-> prev(z)]
                         /\ sess' = [sess EXCEPT ![p][a] = t(z)]
  BY DEF ZoneOut
<1>3. chars' \in [v : 0..MaxVersion, zone : Zones, prev : Zones] /\ chars'.zone = z
  BY <1>1, <1>2 DEF Character
<1>4. SessionOK(p, t(z), z)
  <2> DEFINE d == [c EXCEPT !.dest = z, !.prev = c.zone]
             e == [d EXCEPT !.zone = None, !.out = "zone"]
             s1 == [s EXCEPT !.char = d]
             t1 == [s1 EXCEPT !.status = "PendingZone"]
             t2 == [t1 EXCEPT !.shuttingDown = 2]
             t3 == [t2 EXCEPT !.char = e]
  <2>1. s1 = [s EXCEPT !.char.dest = z, !.char.prev = c.zone]
    BY <1>1 DEF Session, Character
  <2>2. s1 \in Session /\ s1.char = d /\ s1.old = s.old /\ s1.key = s.key
    <3>1. d \in Character
      BY <1>1 DEF Character
    <3> HIDE DEF d
    <3> QED BY <1>1, <3>1 DEF Session
  <2>3. t(z) = [s1 EXCEPT !.status = "PendingZone", !.shuttingDown = 2, !.char = e]
    BY <2>1, <2>2 DEF Removed
  <2>4. e \in Character /\ e.zone = None /\ e.out = "zone" /\ e.dest = z
    <3>1. d \in Character /\ d.dest = z
      BY <1>1 DEF Character
    <3> HIDE DEF d
    <3> QED BY <3>1 DEF Character
  <2> HIDE DEF e, d, t
  <2>5. t1 \in Session /\ t1.status = "PendingZone" /\ t1.old = s.old /\ t1.key = s.key
    BY <2>2 DEF Session
  <2>6. t3 = t(z)
    BY <2>2, <2>3 DEF Session
  <2> HIDE DEF s1, t1
  <2>7. t2 \in Session /\ t2.status = "PendingZone" /\ t2.old = s.old /\ t2.key = s.key
    BY <2>5 DEF Session
  <2> HIDE DEF t2
  <2>8. /\ t3 \in Session /\ t3.status = "PendingZone" /\ t3.old = s.old
        /\ t3.key = s.key /\ t3.char = e
    BY <2>4, <2>7 DEF Session
  <2> QED BY <1>1, <2>4, <2>6, <2>8 DEF SessionOK
<1> HIDE DEF t
<1>5. \A q \in Procs, b \in Addrs :
        sess'[q][b] = IF q = p /\ b = a THEN t(z) ELSE sess[q][b]
  BY <1>1, <1>2 DEF SessType
<1>6. SessType'
  BY <1>1, <1>2, <1>4 DEF SessType, SessionOK
<1>7. OnePerProcess'
  BY <1>1, <1>5 DEF OnePerProcess
<1>8. Placed'
  <2> SUFFICES ASSUME NEW q \in Procs, NEW b \in Addrs, sess'[q][b] # None
               PROVE  SessionOK(q, sess'[q][b], z)
    BY <1>3 DEF Placed
  <2>1. CASE q = p /\ b = a
    BY <1>4, <1>5, <2>1
  <2>2. CASE ~(q = p /\ b = a)
    <3>1. sess'[q][b] = sess[q][b] /\ q # p
      BY <1>1, <1>5, <2>2
    <3>2. SessionOK(q, sess[q][b], chars.zone)
      BY <1>1, <3>1 DEF Placed
    <3> QED BY <1>1, <3>1, <3>2 DEF SessionOK
  <2> QED BY <2>1, <2>2
<1>9. RestType' /\ ClientHasKey'
  BY <1>1, <1>3 DEF RestType, ClientHasKey
<1> QED BY <1>6, <1>7, <1>8, <1>9, Together

-----------------------------------------------------------------------------
\* Sessions and pending sessions are cleaned up.
LEMMA CleanupStep ==
  ASSUME Handover, Cleanup
  PROVE  Handover'
<1>1. SessionTypeOK /\ RestType /\ ClientHasKey
  BY Together DEF Handover
<1>2. ASSUME NEW p \in Procs, PendingTimesOut(p) PROVE Handover'
  <2>1. SessType' /\ OnePerProcess' /\ Placed'
    BY <1>1, <1>2, Untouched DEF PendingTimesOut, RestType
  <2>2. RestType' /\ ClientHasKey'
    BY <1>1, <1>2 DEF PendingTimesOut, RestType, ClientHasKey, ipc
  <2> QED BY <2>1, <2>2, Together
<1>3. ASSUME NEW p \in Procs, NEW a \in Addrs, SessionTimesOut(p, a) PROVE Handover'
  <2> DEFINE s == sess[p][a]
  <2>1. /\ s # None /\ s \in Session /\ sess' = [sess EXCEPT ![p][a] = None]
        /\ row' \in {row, None}
        /\ chars' = IF s.char = None THEN chars ELSE [chars EXCEPT !.v = s.char.v]
        /\ UNCHANGED <<pending, toWorld, toMap, client, told, logins, strays, crashes>>
    BY <1>1, <1>3 DEF SessionTimesOut, ipc, SessionTypeOK
  <2>2. s.char # None => s.char.v \in 0..MaxVersion
    BY <2>1 DEF Session, Character
  <2>3. chars' \in [v : 0..MaxVersion, zone : Zones, prev : Zones] /\ chars'.zone = chars.zone
    BY <1>1, <2>1, <2>2 DEF RestType
  <2>4. SessType' /\ OnePerProcess' /\ Placed'
    BY <1>1, <2>1, <2>3, Replaced
  <2>5. RestType' /\ ClientHasKey'
    BY <1>1, <2>1, <2>3 DEF RestType, ClientHasKey
  <2> QED BY <2>4, <2>5, Together
<1> QED BY <1>2, <1>3 DEF Cleanup

\* A unit of time passes for all sessions.
LEMMA TickStep ==
  ASSUME Handover, Tick
  PROVE  Handover'
<1>1. SessType /\ RestType /\ OnePerProcess /\ Placed /\ ClientHasKey
  BY Together
<1> DEFINE t(p, a) == IF sess[p][a] = None THEN None ELSE [sess[p][a] EXCEPT !.age = 1]
<1>2. /\ sess' = [p \in Procs |-> [a \in Addrs |-> t(p, a)]]
      /\ pending' = [p \in Procs |-> IF pending[p] = None THEN None ELSE 1]
      /\ row' = IF row # None /\ row.waited < 2 THEN [row EXCEPT !.waited = @ + 1] ELSE row
      /\ UNCHANGED <<chars, toWorld, toMap, client, told, logins, strays, crashes>>
  BY DEF Tick, ipc
<1>3. ASSUME NEW p \in Procs, NEW a \in Addrs, sess[p][a] # None
      PROVE  SessionOK(p, t(p, a), chars.zone)
  <2> DEFINE s == sess[p][a]
             u == [s EXCEPT !.age = 1]
  <2>1. s \in Session /\ SessionOK(p, s, chars.zone)
    BY <1>1, <1>3 DEF Placed, SessionOK
  <2>2. /\ u \in Session /\ u.char = s.char /\ u.status = s.status
        /\ u.old = s.old /\ u.key = s.key
    BY <2>1 DEF Session, Ages
  <2> HIDE DEF u
  <2>3. SessionOK(p, u, chars.zone)
    BY <2>1, <2>2, StaysOK
  <2> QED BY <1>3, <2>3 DEF u
<1>4. \A p \in Procs, a \in Addrs :
        sess'[p][a] = t(p, a) /\ (sess[p][a] = None => t(p, a) = None)
  BY <1>2
<1>5. \A p \in Procs, a \in Addrs : t(p, a) \in Session \cup {None}
  BY <1>3 DEF SessionOK
<1> HIDE DEF t
<1>6. SessType'
  BY <1>2, <1>5 DEF SessType
<1>7. OnePerProcess'
  BY <1>1, <1>2, <1>4 DEF OnePerProcess
<1>8. Placed'
  BY <1>2, <1>3, <1>4 DEF Placed
<1>9. row' \in Row \cup {None}
  <2>1. CASE row # None /\ row.waited < 2
    <3> DEFINE k == [row EXCEPT !.waited = @ + 1]
    <3>1. row \in Row /\ row' = k
      BY <1>1, <1>2, <2>1 DEF RestType
    <3>2. row.waited + 1 \in Waits
      BY <2>1, <3>1 DEF Row, Waits
    <3>3. k \in Row
      BY <3>1, <3>2 DEF Row
    <3> QED BY <3>1, <3>3
  <2>2. CASE ~(row # None /\ row.waited < 2)
    BY <1>1, <1>2, <2>2 DEF RestType
  <2> QED BY <2>1, <2>2
<1>10. RestType' /\ ClientHasKey'
  BY <1>1, <1>2, <1>9 DEF RestType, ClientHasKey, Ages
<1> QED BY <1>6, <1>7, <1>8, <1>10, Together

\* A process loses what it had in memory, and its row.
LEMMA CrashStep ==
  ASSUME Handover, NEW p \in Procs, Crash(p)
  PROVE  Handover'
<1>1. SessType /\ RestType /\ OnePerProcess /\ Placed /\ ClientHasKey
  BY Together
<1>2. /\ sess' = [sess EXCEPT ![p] = [a \in Addrs |-> None]]
      /\ pending' = [pending EXCEPT ![p] = None]
      /\ toMap' = [toMap EXCEPT ![p] = <<>>] /\ toWorld' = [toWorld EXCEPT ![p] = <<>>]
      /\ row' \in {row, None} /\ crashes' = crashes + 1 /\ crashes < MaxCrashes
      /\ UNCHANGED <<chars, client, told, logins, strays>>
  BY DEF Crash
<1>3. \A q \in Procs : /\ pending'[q] = IF q = p THEN None ELSE pending[q]
                       /\ \A b \in Addrs : sess'[q][b] = IF q = p THEN None ELSE sess[q][b]
  BY <1>1, <1>2 DEF SessType, RestType
<1>4. SessType'
  BY <1>1, <1>2 DEF SessType
<1>5. OnePerProcess'
  BY <1>1, <1>3 DEF OnePerProcess
<1>6. Placed'
  BY <1>1, <1>2, <1>3 DEF Placed
<1>7. RestType' /\ ClientHasKey'
  BY <1>1, <1>2, Constants DEF RestType, ClientHasKey
<1> QED BY <1>4, <1>5, <1>6, <1>7, Together

\* The world server passes a message on, or a map process handles one.
LEMMA DeliverStep ==
  ASSUME Handover, Deliver
  PROVE  Handover'
<1>1. SessionTypeOK /\ RestType /\ ClientHasKey /\ OnePerProcess /\ Placed
  BY Together DEF Handover
<1>2. ASSUME NEW s \in Procs \cup {LoginServer}, WorldHandles(s) PROVE Handover'
  <2> DEFINE m == Head(toWorld[s])
  <2>1. toWorld[s] \in Seq(Message) /\ toWorld[s] # <<>>
    BY <1>1, <1>2 DEF WorldHandles, RestType
  <2>2. m \in Message /\ Tail(toWorld[s]) \in Seq(Message)
    BY <2>1
  <2>3. /\ toWorld' = [toWorld EXCEPT ![s] = Tail(@)]
        /\ toMap' = [p \in Procs |-> IF p \in Forward(m) THEN Append(toMap[p], m) ELSE toMap[p]]
        /\ UNCHANGED <<sess, pending, row, chars, client, told, logins, strays, crashes>>
    BY <1>2 DEF WorldHandles
  <2> HIDE DEF m
  <2>4. \A p \in Procs : toMap[p] \in Seq(Message) /\ Append(toMap[p], m) \in Seq(Message)
    BY <1>1, <2>2 DEF RestType
  <2>5. toMap' \in [Procs -> Seq(Message)]
    BY <2>3, <2>4
  <2>6. toWorld' \in [Procs \cup {LoginServer} -> Seq(Message)]
    BY <1>1, <2>2, <2>3 DEF RestType
  <2>7. SessType' /\ OnePerProcess' /\ Placed'
    BY <1>1, <2>3, Untouched
  <2>8. RestType' /\ ClientHasKey'
    BY <1>1, <2>3, <2>5, <2>6 DEF RestType, ClientHasKey
  <2> QED BY <2>7, <2>8, Together
<1>3. ASSUME NEW p \in Procs, MapHandles(p) PROVE Handover'
  <2>1. toMap' \in [Procs -> Seq(Message)]
    <3>1. toMap[p] \in Seq(Message) /\ toMap[p] # <<>> /\ toMap' = [toMap EXCEPT ![p] = Tail(@)]
      BY <1>1, <1>3 DEF MapHandles, RestType
    <3>2. Tail(toMap[p]) \in Seq(Message)
      BY <3>1
    <3> QED BY <1>1, <3>1, <3>2 DEF RestType
  <2>2. Head(toMap[p]) \in Message
    BY <1>1, <1>3 DEF MapHandles, RestType
  <2>3. HandleCharZone(p) \/ HandleKillSession(p) \/ HandleAccountLogin(p)
    BY <1>3, <2>2 DEF MapHandles, Message
  <2>4. UNCHANGED <<chars, toWorld, client, told, logins, strays, crashes>>
    BY <1>3 DEF MapHandles
  <2>5. ASSUME NEW a \in Addrs, NEW t, sess[p][a] # None, t = None \/ SessionOK(p, t, chars.zone),
               sess' = [sess EXCEPT ![p][a] = t], pending' = pending, row' \in {row, None}
        PROVE  Handover'
    <3>1. SessType' /\ OnePerProcess' /\ Placed'
      BY <2>4, <2>5, Replaced
    <3>2. RestType' /\ ClientHasKey'
      BY <1>1, <2>1, <2>4, <2>5 DEF RestType, ClientHasKey
    <3> QED BY <3>1, <3>2, Together
  <2>6. ASSUME UNCHANGED <<sess, pending, row>> PROVE Handover'
    <3>1. SessType' /\ OnePerProcess' /\ Placed'
      BY <2>4, <2>6, Untouched
    <3>2. RestType' /\ ClientHasKey'
      BY <1>1, <2>1, <2>4, <2>6 DEF RestType, ClientHasKey
    <3> QED BY <3>1, <3>2, Together
  <2>7. CASE HandleCharZone(p)
    <3>1. CASE Known(p) = {}
      <4>1. sess' = sess /\ row' = row /\ pending' = [pending EXCEPT ![p] = 0]
        BY <2>7, <3>1 DEF HandleCharZone
      <4>2. \A a \in Addrs : sess[p][a] = None
        BY <3>1 DEF Known
      <4>3. OnePerProcess' /\ Placed' /\ SessType'
        BY <1>1, <2>4, <4>1, <4>2 DEF OnePerProcess, Placed, SessionTypeOK, SessType, RestType
      <4>4. RestType' /\ ClientHasKey'
        BY <1>1, <2>1, <2>4, <4>1 DEF RestType, ClientHasKey, Ages
      <4> QED BY <4>3, <4>4, Together
    <3>2. CASE Known(p) # {}
      <4> DEFINE n(a) == IF sess[p][a].forced THEN sess[p][a].age ELSE 0
                 t(a) == [sess[p][a] EXCEPT !.age = n(a)]
      <4>1. PICK a \in Known(p) : sess' = [sess EXCEPT ![p][a] = t(a)]
        BY <1>1, <2>7, <3>2 DEF HandleCharZone, Known, SessionTypeOK, Session
      <4>2. /\ a \in Addrs /\ sess[p][a] # None /\ SessionOK(p, sess[p][a], chars.zone)
            /\ sess[p][a] \in Session /\ pending' = pending /\ row' = row
        BY <1>1, <2>7, <3>2 DEF HandleCharZone, Known, Placed, SessionOK
      <4>3. n(a) \in Ages
        BY <4>2 DEF Session, Ages
      <4> HIDE DEF n
      <4>4. /\ t(a) \in Session /\ t(a).char = sess[p][a].char
            /\ t(a).status = sess[p][a].status
            /\ t(a).old = sess[p][a].old /\ t(a).key = sess[p][a].key
        BY <4>2, <4>3 DEF Session
      <4> HIDE DEF t
      <4>5. SessionOK(p, t(a), chars.zone)
        BY <4>2, <4>4, StaysOK
      <4> QED BY <2>5, <4>1, <4>2, <4>5
    <3> QED BY <3>1, <3>2
  <2>8. CASE HandleKillSession(p)
    <3>1. CASE UNCHANGED <<sess, pending, row>>
      BY <2>6, <3>1
    <3>2. CASE ~UNCHANGED <<sess, pending, row>>
      <4>1. PICK a \in Known(p) : /\ sess' = [sess EXCEPT ![p][a] = None]
                                  /\ row' \in {row, None} /\ pending' = pending
        BY <2>8, <3>2 DEF HandleKillSession
      <4> QED BY <2>5, <4>1 DEF Known
    <3> QED BY <3>1, <3>2
  <2>9. CASE HandleAccountLogin(p)
    <3>1. CASE UNCHANGED <<sess, pending, row>>
      BY <2>6, <3>1
    <3>2. CASE ~UNCHANGED <<sess, pending, row>>
      <4> DEFINE t(a) == [sess[p][a] EXCEPT !.forced = TRUE, !.key = Scrambled, !.old = Scrambled]
      <4>1. PICK a \in Known(p) : sess' = [sess EXCEPT ![p][a] = t(a)]
        BY <2>9, <3>2 DEF HandleAccountLogin
      <4> DEFINE s == sess[p][a]
                 t1 == [s EXCEPT !.forced = TRUE]
                 t2 == [t1 EXCEPT !.key = Scrambled]
                 t3 == [t2 EXCEPT !.old = Scrambled]
      <4>2. /\ a \in Addrs /\ s # None /\ SessionOK(p, s, chars.zone)
            /\ s \in Session /\ pending' = pending /\ row' = row
        BY <1>1, <2>9 DEF HandleAccountLogin, Known, Placed, SessionOK
      <4>3. t1 \in Session /\ t1.char = s.char /\ t1.status = s.status
        BY <4>2 DEF Session
      <4>4. t3 = t(a)
        BY <4>2 DEF Session
      <4> HIDE DEF t, t1
      <4>5. t2 \in Session /\ t2.char = s.char /\ t2.status = s.status /\ t2.key = Scrambled
        BY <4>3 DEF Session
      <4> HIDE DEF t2
      <4>6. /\ t3 \in Session /\ t3.char = s.char /\ t3.status = s.status
            /\ t3.key = Scrambled /\ t3.old = Scrambled
        BY <4>5 DEF Session
      <4> HIDE DEF t3
      <4>7. s.key \in Keys \cup {Scrambled}
        BY <4>2 DEF Session
      <4>8. SessionOK(p, t3, chars.zone)
        BY <4>2, <4>6, <4>7, KeyScrambled DEF SessionOK
      <4> QED BY <2>5, <4>1, <4>2, <4>4, <4>8
    <3> QED BY <3>1, <3>2
  <2> QED BY <2>3, <2>7, <2>8, <2>9
<1> QED BY <1>2, <1>3 DEF Deliver

-----------------------------------------------------------------------------
\* Every step keeps the invariant.
LEMMA NextHandover == Handover /\ [Next]_vars => Handover'
<1> SUFFICES ASSUME Handover, [Next]_vars PROVE Handover'
  OBVIOUS
<1>1. CASE UNCHANGED vars
  BY <1>1 DEF vars, Handover, SessionTypeOK, OnePerProcess, Placed, ClientHasKey
<1>2. CASE \/ Authenticate \/ Vanish \/ Welcomed \/ \E a \in Addrs : SelectCharacter(a)
  BY <1>2, PlayerStep
<1>3. CASE ClientSendsLogin \/ \E p \in Procs, a \in Addrs : LateLogin(p, a)
  BY <1>3, LoginStep
<1>4. CASE ClientSends
  BY <1>4, ClientStep
<1>5. CASE \E p \in Procs, a \in Addrs : Play(p, a) \/ SaveChar(p, a) \/ LogOut(p, a)
  BY <1>5, ZoneStep
<1>6. CASE \E p \in Procs, a \in Addrs : ZoneOut(p, a)
  BY <1>6, ZoneOutStep
<1>7. CASE \E p \in Procs : Crash(p)
  BY <1>7, CrashStep
<1>8. CASE Cleanup
  BY <1>8, CleanupStep
<1>9. CASE Deliver
  BY <1>9, DeliverStep
<1>10. CASE Tick
  BY <1>10, TickStep
<1> QED BY <1>1, <1>2, <1>3, <1>4, <1>5, <1>6, <1>7, <1>8, <1>9, <1>10 DEF Next

\* The invariant holds whatever the client, the world server and the clock do.
THEOREM HandoverHolds == Spec => []Handover
  BY InitHandover, NextHandover, PTL DEF Spec

\* The sessions, rows and messages are what their types say: in particular no
\* key is incremented past the last (incrementBlowfish), and a character about
\* to be sent on always knows where (send_parse reads its destination).
THEOREM SessionsTypeCorrect == Spec => []SessionTypeOK
<1>1. Handover => SessionTypeOK
  BY DEF Handover
<1> QED BY <1>1, HandoverHolds, PTL

\* However datagrams and messages fall, the character is in a zone of at most
\* one map process, in one session: whoever is in a zone is in the one that is
\* saved, which runs on one process, and a process has one session of it.
THEOREM OneOwnerHolds == Spec => []OneOwner
<1>1. Handover => OneOwner
  <2> SUFFICES ASSUME Handover, NEW p \in Procs, NEW q \in Procs,
                      NEW a \in Addrs, NEW b \in Addrs, InZone(p, a), InZone(q, b)
               PROVE  p = q /\ a = b
    BY DEF OneOwner
  <2>1. p = q
    BY InZoneFacts
  <2> QED BY <2>1, InZoneFacts
<1> QED BY <1>1, HandoverHolds, PTL

-----------------------------------------------------------------------------
(* The row of accounts_sessions: who counts on it, and what it names.     *)
\* The process of the saved zone.
Here == Host[chars.zone]

\* In a zone, or about to enter one.
Expecting(p, a) ==
  \/ InZone(p, a)
  \/ sess[p][a] # None /\ sess[p][a].status = "Waiting" /\ Host[sess[p][a].char.dest] = p

\* The character has left.
Leftover(p, a) == sess[p][a] # None /\ sess[p][a].status = "PendingZone"

Posted(q) == {q[k] : k \in 1..Len(q)}
Expectation(z) == [type |-> "CharZone", zone |-> z]
Kill == [type |-> "KillSession"]

OnTheWay(z) == \/ \E s \in Procs \cup {LoginServer} : Expectation(z) \in Posted(toWorld[s])
               \/ \E p \in Procs : Expectation(z) \in Posted(toMap[p])
KillOnTheWay(q) == Kill \in Posted(toWorld[Here]) \cup Posted(toMap[q])

\* A client is expected only where the character is saved.
ExpectedHere ==
  /\ \A p \in Procs : pending[p] # None => p = Here
  /\ \A z \in Zones : OnTheWay(z) => z = chars.zone
  /\ \A p \in Procs, z \in Zones : Expectation(z) \in Posted(toMap[p]) => Host[z] = p

Claimed == \/ \E p \in Procs, a \in Addrs : Expecting(p, a)
           \/ \E p \in Procs : pending[p] # None
           \/ \E z \in Zones : OnTheWay(z)

\* While anybody counts on the row, it names that process.
RowNamed ==
  /\ \A p \in Procs, a \in Addrs : Expecting(p, a) => row # None
  /\ Claimed /\ row # None => row.server = Here

\* Who logs out is still in the saved zone; who zones is to go to the saved one.
Departing ==
  \A p \in Procs, a \in Addrs : sess[p][a] # None =>
    /\ sess[p][a].shuttingDown = 1 => Leftover(p, a) /\ p = Here
    /\ sess[p][a].char # None /\ sess[p][a].char.out = "zone" =>
         Leftover(p, a) /\ sess[p][a].char.dest = chars.zone

\* A session is left where the character came from; as soon as there is one
\* where the character is now, the other is about to be closed.
LeftoversEnd ==
  \A q \in Procs, b \in Addrs : Leftover(q, b) /\ q # Here =>
    /\ Host[chars.prev] = q
    /\ \A a \in Addrs : Expecting(Here, a) \/ Leftover(Here, a) => KillOnTheWay(q)

RowInv == ExpectedHere /\ RowNamed /\ Departing /\ LeftoversEnd

\* Nothing of what the invariant is about but that t may be gone, or its character.
Alike(s, t) ==
  t # None =>
    /\ s # None /\ t.status = s.status /\ t.shuttingDown = s.shuttingDown
    /\ \/ t.char = s.char
       \/ t.char = None /\ t.status # "Waiting"
       \/ /\ s.char # None
          /\ t.char.zone = s.char.zone /\ t.char.dest = s.char.dest /\ t.char.out = s.char.out

SavedAsBefore == chars'.zone = chars.zone /\ chars'.prev = chars.prev

\* A client may be expected here; a message that is to close a leftover goes only
\* with it.
MessagesKept ==
  /\ \A z \in Zones : OnTheWay(z)' => OnTheWay(z) \/ z = chars.zone
  /\ \A p \in Procs, z \in Zones :
       (Expectation(z) \in Posted(toMap[p]))' => (Expectation(z) \in Posted(toMap[p]) \/ Host[z] = p)
  /\ \A q \in Procs, a, b \in Addrs :
       /\ Leftover(q, b)' /\ sess'[Here][a] # None /\ q # Here /\ Host[chars.prev] = q
       /\ KillOnTheWay(q)
       => KillOnTheWay(q)'

\* The same, and no client is newly expected.
SameMessages == MessagesKept /\ \A z \in Zones : OnTheWay(z)' => OnTheWay(z)

-----------------------------------------------------------------------------
\* The character is expected only where it is saved.
LEMMA ExpectingIs ==
  ASSUME Handover, NEW p \in Procs, NEW a \in Addrs, Expecting(p, a)
  PROVE  p = Here /\ sess[p][a] # None /\ ~Leftover(p, a)
<1>1. CASE InZone(p, a)
  BY <1>1, InZoneFacts DEF Here, Leftover
<1>2. CASE ~InZone(p, a)
  <2>1. sess[p][a] # None /\ sess[p][a].status = "Waiting" /\ Host[sess[p][a].char.dest] = p
    BY <1>2 DEF Expecting
  <2>2. SessionOK(p, sess[p][a], chars.zone)
    BY <2>1 DEF Handover, Placed
  <2> QED  BY <2>1, <2>2 DEF SessionOK, Here, Leftover
<1> QED  BY <1>1, <1>2

\* The saved zone runs on a map process.
LEMMA HereIs ==
  ASSUME Handover
  PROVE  Here \in Procs /\ chars.zone \in Zones /\ chars.prev \in Zones
BY Constants DEF Handover, SessionTypeOK, Here

\* The saved zone stays; who is left elsewhere has been left before, and who is
\* here has been.
LEMMA RowStep ==
  ASSUME Handover, RowInv, SavedAsBefore, MessagesKept, Departing', RowNamed',
         \A p \in Procs, a \in Addrs : Leftover(p, a)' /\ p # Here => Leftover(p, a),
         \A a \in Addrs : Expecting(Here, a)' \/ Leftover(Here, a)' => Expecting(Here, a) \/ Leftover(Here, a),
         \A p \in Procs : pending'[p] # None => pending[p] # None \/ p = Here
  PROVE  RowInv'
<1>1. Here' = Here /\ chars'.zone = chars.zone /\ chars'.prev = chars.prev /\ Here \in Procs
  BY HereIs DEF Here, SavedAsBefore
<1>2. ExpectedHere'
  BY <1>1 DEF ExpectedHere, RowInv, MessagesKept
<1>3. LeftoversEnd'
  <2>1. SUFFICES ASSUME NEW q \in Procs, NEW b \in Addrs, Leftover(q, b)', q # Here
                 PROVE  /\ Host[chars.prev] = q
                        /\ \A a \in Addrs : (Expecting(Here, a) \/ Leftover(Here, a))' => KillOnTheWay(q)'
    BY <1>1 DEF LeftoversEnd
  <2>2. Host[chars.prev] = q /\ \A a \in Addrs : Expecting(Here, a) \/ Leftover(Here, a) => KillOnTheWay(q)
    BY <2>1 DEF LeftoversEnd, RowInv
  <2>3. ASSUME NEW a \in Addrs, Expecting(Here, a)' \/ Leftover(Here, a)' PROVE KillOnTheWay(q)'
    <3>1. Expecting(Here, a) \/ Leftover(Here, a)
      BY <2>3
    <3>2. sess'[Here][a] # None
      BY <1>1, <2>3 DEF Expecting, Leftover, InZone
    <3> QED  BY <2>1, <2>2, <3>1, <3>2 DEF MessagesKept
  <2>4. ASSUME NEW a \in Addrs, (Expecting(Here, a) \/ Leftover(Here, a))' PROVE KillOnTheWay(q)'
    BY <1>1, <2>3, <2>4
  <2> QED  BY <2>2, <2>4
<1> QED  BY <1>2, <1>3 DEF RowInv

\* Sessions change in nothing the invariant is about, or go, and the saved
\* process may come to expect a client that was on its way already.
LEMMA AlikeOrExpected ==
  ASSUME Handover, RowInv, SavedAsBefore, SameMessages,
         \A p \in Procs, a \in Addrs : Alike(sess[p][a], sess'[p][a]),
         \A p \in Procs : pending'[p] # None => pending[p] # None \/ p = Here,
         (\E p \in Procs : pending'[p] # None) => Claimed,
         row' # None => row # None /\ row'.server = row.server,
         row' = None => row = None \/ \A p \in Procs, a \in Addrs : ~Expecting(p, a)'
  PROVE  RowInv'
<1>1. Here' = Here /\ chars'.zone = chars.zone /\ chars'.prev = chars.prev /\ Here \in Procs
  BY HereIs DEF Here, SavedAsBefore
<1>2. ASSUME NEW p \in Procs, NEW a \in Addrs
      PROVE  (Expecting(p, a)' => Expecting(p, a)) /\ (Leftover(p, a)' => Leftover(p, a))
  <2>1. Alike(sess[p][a], sess'[p][a])
    OBVIOUS
  <2> QED  BY <2>1 DEF Alike, Expecting, Leftover, InZone
<1>3. Claimed' => Claimed
  BY <1>2 DEF Claimed, SameMessages
<1>4. RowNamed'
  BY <1>1, <1>2, <1>3 DEF RowNamed, RowInv
<1>5. Departing'
  <2>1. SUFFICES ASSUME NEW p \in Procs, NEW a \in Addrs, sess'[p][a] # None
                 PROVE  /\ sess'[p][a].shuttingDown = 1 => Leftover(p, a)' /\ p = Here
                        /\ sess'[p][a].char # None /\ sess'[p][a].char.out = "zone" =>
                             Leftover(p, a)' /\ sess'[p][a].char.dest = chars.zone
    BY <1>1 DEF Departing
  <2>2. Alike(sess[p][a], sess'[p][a])
    OBVIOUS
  <2> QED  BY <2>1, <2>2 DEF Alike, Departing, Leftover, RowInv
<1>6. \A a \in Addrs : Expecting(Here, a)' \/ Leftover(Here, a)' => Expecting(Here, a) \/ Leftover(Here, a)
  <2>1. SUFFICES ASSUME NEW a \in Addrs
                 PROVE  Expecting(Here, a)' \/ Leftover(Here, a)' => Expecting(Here, a) \/ Leftover(Here, a)
    OBVIOUS
  <2>2. PICK p \in Procs : p = Here
    BY <1>1
  <2>3. Alike(sess[p][a], sess'[p][a])
    OBVIOUS
  <2> QED  BY <1>1, <2>2, <2>3 DEF Alike, Expecting, Leftover, InZone
<1>7. MessagesKept
  BY DEF SameMessages, MessagesKept
<1>8. \A p \in Procs, a \in Addrs : Leftover(p, a)' /\ p # Here => Leftover(p, a)
  BY <1>2
<1> QED  BY <1>4, <1>5, <1>6, <1>7, <1>8, RowStep

\* The same where no client is newly expected.
LEMMA AlikeStep ==
  ASSUME Handover, RowInv, SavedAsBefore, SameMessages,
         \A p \in Procs, a \in Addrs : Alike(sess[p][a], sess'[p][a]),
         \A p \in Procs : pending'[p] # None => pending[p] # None,
         row' # None => row # None /\ row'.server = row.server,
         row' = None => row = None \/ \A p \in Procs, a \in Addrs : ~Expecting(p, a)'
  PROVE  RowInv'
<1>1. (\E p \in Procs : pending'[p] # None) => Claimed
  BY DEF Claimed
<1> QED  BY <1>1, AlikeOrExpected

-----------------------------------------------------------------------------
\* A message posted is in the queue; the first message and the others make the queue.
LEMMA PostedIs ==
  ASSUME NEW s \in Seq(Message)
  PROVE  /\ \A m \in Message : Posted(Append(s, m)) = Posted(s) \cup {m}
         /\ s # <<>> => Posted(s) = {Head(s)} \cup Posted(Tail(s))
         /\ Posted(s) = {} <=> s = <<>>
         /\ Posted(s) \subseteq Message
<1>1. ASSUME NEW m \in Message PROVE Posted(Append(s, m)) = Posted(s) \cup {m}
  <2>1. /\ Len(Append(s, m)) = Len(s) + 1 /\ Len(s) \in Nat
        /\ \A k \in 1..Len(s) : Append(s, m)[k] = s[k]
        /\ Append(s, m)[Len(s) + 1] = m
    OBVIOUS
  <2> QED  BY <2>1 DEF Posted
<1>2. ASSUME s # <<>> PROVE Posted(s) = {Head(s)} \cup Posted(Tail(s))
  <2>1. /\ Len(s) \in Nat \ {0} /\ Len(Tail(s)) = Len(s) - 1 /\ Head(s) = s[1]
        /\ \A k \in 1..Len(Tail(s)) : Tail(s)[k] = s[k + 1]
    BY <1>2
  <2>2. ASSUME NEW k \in 1..Len(s) PROVE s[k] \in {Head(s)} \cup Posted(Tail(s))
    <3>1. CASE k = 1
      BY <2>1, <3>1
    <3>2. CASE k # 1
      <4>1. k - 1 \in 1..Len(Tail(s)) /\ k = (k - 1) + 1
        BY <2>1, <3>2
      <4> QED  BY <2>1, <4>1 DEF Posted
    <3> QED  BY <3>1, <3>2
  <2>3. Posted(s) \subseteq {Head(s)} \cup Posted(Tail(s))
    BY <2>2 DEF Posted
  <2>4. \A k \in 1..Len(Tail(s)) : k + 1 \in 1..Len(s)
    BY <2>1
  <2>5. Posted(Tail(s)) \subseteq Posted(s)
    BY <2>1, <2>4 DEF Posted
  <2>6. Head(s) \in Posted(s)
    BY <2>1 DEF Posted
  <2> QED  BY <2>3, <2>5, <2>6
<1>3. Posted(s) = {} <=> s = <<>>
  <2>1. Len(s) \in Nat /\ (s = <<>> <=> Len(s) = 0)
    OBVIOUS
  <2>2. ASSUME Len(s) # 0 PROVE s[1] \in Posted(s)
    BY <2>1, <2>2 DEF Posted
  <2>3. ASSUME Len(s) = 0 PROVE Posted(s) = {}
    BY <2>3 DEF Posted
  <2> QED  BY <2>1, <2>2, <2>3
<1>4. Posted(s) \subseteq Message
  BY DEF Posted
<1> QED  BY <1>1, <1>2, <1>3, <1>4

\* The first message of a queue is taken from it.
LEMMA PostIs ==
  ASSUME NEW s \in Seq(Message), s # <<>>
  PROVE  /\ Head(s) \in Message /\ Tail(s) \in Seq(Message)
         /\ Posted(s) = {Head(s)} \cup Posted(Tail(s))
<1>1. Head(s) \in Message /\ Tail(s) \in Seq(Message)
  OBVIOUS
<1> QED  BY <1>1, PostedIs

\* An empty queue holds no message.
LEMMA NoPost == Posted(<<>>) = {}
<1>1. <<>> \in Seq(Message)
  OBVIOUS
<1> QED  BY <1>1, PostedIs

\* What the queues are.
LEMMA Queues ==
  ASSUME Handover
  PROVE  /\ toWorld \in [Procs \cup {LoginServer} -> Seq(Message)]
         /\ toMap \in [Procs -> Seq(Message)]
BY DEF Handover, SessionTypeOK

\* A session that has been replaced is as it was, and the others are.
LEMMA OneAlike ==
  ASSUME Handover, NEW p \in Procs, NEW a \in Addrs, NEW t,
         sess' = [sess EXCEPT ![p][a] = t], Alike(sess[p][a], t)
  PROVE  \A q \in Procs, b \in Addrs : Alike(sess[q][b], sess'[q][b])
<1>1. \A q \in Procs, b \in Addrs :
        sess'[q][b] = IF q = p /\ b = a THEN t ELSE sess[q][b]
  BY DEF Handover, SessionTypeOK
<1>2. \A s : Alike(s, s)
  BY DEF Alike
<1> QED  BY <1>1, <1>2

\* Sessions that have not changed are alike.
LEMMA NoneMoved ==
  ASSUME Handover, sess' = sess
  PROVE  \A q \in Procs, b \in Addrs : Alike(sess[q][b], sess'[q][b])
BY DEF Alike

\* Nothing is sent and nothing received.
LEMMA NoMessages ==
  ASSUME SavedAsBefore, toWorld' = toWorld, toMap' = toMap
  PROVE  SameMessages
BY DEF SavedAsBefore, SameMessages, MessagesKept, OnTheWay, KillOnTheWay, Here

\* Nothing is sent, no row goes; sessions may go, and clients no more be expected.
LEMMA AsideStep ==
  ASSUME Handover, RowInv, SavedAsBefore, toWorld' = toWorld, toMap' = toMap, row' = row,
         \A p \in Procs, a \in Addrs : Alike(sess[p][a], sess'[p][a]),
         \A p \in Procs : pending'[p] # None => pending[p] # None
  PROVE  RowInv'
<1>1. SameMessages
  BY NoMessages
<1> QED  BY <1>1, AlikeStep

\* The client goes away, or has received the answer to its 0x00A.
LEMMA VanishRow ==
  ASSUME Handover, RowInv, Vanish \/ Welcomed
  PROVE  RowInv'
<1>1. sess' = sess /\ pending' = pending /\ row' = row /\ chars' = chars /\ toWorld' = toWorld /\ toMap' = toMap
  BY DEF Vanish, Welcomed, ipc
<1> QED  BY <1>1, NoneMoved, AsideStep DEF SavedAsBefore

\* The processes are told to give up the account; no client is expected for it.
LEMMA AuthenticateRow ==
  ASSUME Handover, RowInv, Authenticate
  PROVE  RowInv'
<1> DEFINE m == [type |-> "AccountLogin"]
<1>1. /\ sess' = sess /\ pending' = pending /\ row' = row /\ chars' = chars /\ toMap' = toMap
      /\ toWorld' = [toWorld EXCEPT ![LoginServer] = Append(@, m)]
  BY DEF Authenticate
<1>2. m \in Message /\ m.type = "AccountLogin"
  BY Messages
<1> HIDE DEF m
<1>3. \A s \in Procs \cup {LoginServer} :
        /\ Posted(toWorld[s]) \subseteq Posted(toWorld'[s])
        /\ Posted(toWorld'[s]) \subseteq Posted(toWorld[s]) \cup {m}
  <2>1. SUFFICES ASSUME NEW s \in Procs \cup {LoginServer}
                 PROVE  /\ Posted(toWorld[s]) \subseteq Posted(toWorld'[s])
                        /\ Posted(toWorld'[s]) \subseteq Posted(toWorld[s]) \cup {m}
    OBVIOUS
  <2>2. toWorld[s] \in Seq(Message) /\ toWorld'[s] \in {toWorld[s], Append(toWorld[s], m)}
    BY <1>1, Queues
  <2>3. Posted(Append(toWorld[s], m)) = Posted(toWorld[s]) \cup {m}
    BY <1>2, <2>2, PostedIs
  <2> QED  BY <2>2, <2>3
<1>4. SavedAsBefore
  BY <1>1 DEF SavedAsBefore
<1>5. \A z \in Zones : Expectation(z) # m
  BY <1>2 DEF Expectation
<1>6. Here \in Procs /\ Here' = Here
  BY <1>1, HereIs DEF Here
<1>7. SameMessages
  BY <1>1, <1>3, <1>5, <1>6 DEF SameMessages, MessagesKept, OnTheWay, KillOnTheWay
<1> QED  BY <1>1, <1>4, <1>7, NoneMoved, AlikeStep

-----------------------------------------------------------------------------
\* One session changes in nothing the invariant is about.
LEMMA OneAside ==
  ASSUME Handover, RowInv, NEW p \in Procs, NEW a \in Addrs, NEW t,
         sess' = [sess EXCEPT ![p][a] = t], Alike(sess[p][a], t),
         SavedAsBefore, toWorld' = toWorld, toMap' = toMap, row' = row, pending' = pending
  PROVE  RowInv'
<1>1. \A q \in Procs, b \in Addrs : Alike(sess[q][b], sess'[q][b])
  BY OneAlike
<1> QED  BY <1>1, AsideStep

\* A session is one, and sound.
LEMMA SessionIs ==
  ASSUME Handover, NEW p \in Procs, NEW a \in Addrs, sess[p][a] # None
  PROVE  SessionOK(p, sess[p][a], chars.zone) /\ sess[p][a] \in Session
BY DEF Handover, Placed, SessionOK

\* The character of a session that zones is gone, or the session is.
LEMMA UnloadableRow ==
  ASSUME Handover, RowInv, NEW p \in Procs, NEW a \in Addrs, LoginUnloadable(p, a)
  PROVE  RowInv'
<1> DEFINE s == sess[p][a]
           u == [s EXCEPT !.char = None]
           t == IF s.shuttingDown = 1 THEN None ELSE u
<1>1. /\ s # None /\ s.status = "PendingZone" /\ sess' = [sess EXCEPT ![p][a] = t]
      /\ pending' = pending /\ row' = row /\ chars' = chars /\ toWorld' = toWorld /\ toMap' = toMap
  BY DEF LoginUnloadable, ipc
<1>2. s \in Session
  BY <1>1, SessionIs
<1>3. Alike(s, t)
  <2>1. u.status = s.status /\ u.shuttingDown = s.shuttingDown /\ u.char = None
    BY <1>2 DEF Session
  <2> QED  BY <1>1, <2>1 DEF Alike
<1> HIDE DEF t
<1> QED  BY <1>1, <1>3, OneAside DEF SavedAsBefore

\* An 0x00A for a session that has been accepted already.
LEMMA AcceptedAgainRow ==
  ASSUME Handover, RowInv, NEW p \in Procs, NEW a \in Addrs, LoginHandled(p, a),
         sess[p][a].status = "Accepted"
  PROVE  RowInv'
<1> DEFINE s == sess[p][a]
           r == Reloaded(s)
           t == IF r.forced THEN r ELSE [r EXCEPT !.age = 0]
<1>1. /\ s # None /\ sess' = [sess EXCEPT ![p][a] = t]
      /\ pending' = pending /\ row' = row /\ chars' = chars /\ toWorld' = toWorld /\ toMap' = toMap
  BY DEF LoginHandled, ipc
<1>2. s \in Session
  BY <1>1, SessionIs
<1>3. r = [s EXCEPT !.ipp = None]
  BY DEF Reloaded
<1>4. r.status = s.status /\ r.shuttingDown = s.shuttingDown /\ r.char = s.char /\ r \in Session
  BY <1>2, <1>3 DEF Session
<1> HIDE DEF r
<1>5. t.status = s.status /\ t.shuttingDown = s.shuttingDown /\ t.char = s.char
  BY <1>4 DEF Session
<1>6. Alike(s, t)
  BY <1>1, <1>5 DEF Alike
<1> HIDE DEF t
<1> QED  BY <1>1, <1>6, OneAside DEF SavedAsBefore

\* An ordinary packet of the client.
LEMMA PacketRow ==
  ASSUME Handover, RowInv, NEW p \in Procs, NEW a \in Addrs, PacketAnswered(p, a)
  PROVE  RowInv'
<1> DEFINE s == sess[p][a]
           n == IF s.status = "Accepted" /\ ~s.forced THEN 0 ELSE s.age
           t == [s EXCEPT !.decrypted = TRUE, !.age = n]
<1>1. /\ s # None /\ sess' = [sess EXCEPT ![p][a] = t]
      /\ pending' = pending /\ row' = row /\ chars' = chars /\ toWorld' = toWorld /\ toMap' = toMap
  BY DEF PacketAnswered, ipc, Handover, SessionTypeOK
<1>2. s \in Session
  BY <1>1, SessionIs
<1> HIDE DEF n
<1>3. t.status = s.status /\ t.shuttingDown = s.shuttingDown /\ t.char = s.char
  BY <1>2 DEF Session
<1>4. Alike(s, t)
  BY <1>1, <1>3 DEF Alike
<1> HIDE DEF t
<1> QED  BY <1>1, <1>4, OneAside DEF SavedAsBefore

\* The client is told once more where to go.
LEMMA AgainRow ==
  ASSUME Handover, RowInv, NEW p \in Procs, NEW a \in Addrs, SendZoneOutAgain(p, a)
  PROVE  RowInv'
<1>1. sess' = sess /\ pending' = pending /\ row' = row /\ chars' = chars /\ toWorld' = toWorld /\ toMap' = toMap
  BY DEF SendZoneOutAgain, ipc
<1> QED  BY <1>1, NoneMoved, AsideStep DEF SavedAsBefore

\* The character is played, or saved.
LEMMA PlayRow ==
  ASSUME Handover, RowInv, NEW p \in Procs, NEW a \in Addrs, Play(p, a) \/ SaveChar(p, a)
  PROVE  RowInv'
<1> DEFINE s == sess[p][a]
           c == s.char
           d == [c EXCEPT !.v = @ + 1]
           t == [s EXCEPT !.char = d]
<1>1. /\ s # None /\ s \in Session /\ c \in Character /\ c # None
      /\ pending' = pending /\ row' = row /\ toWorld' = toWorld /\ toMap' = toMap
  BY InZoneFacts DEF Play, SaveChar, InZone, ipc
<1>2. CASE Play(p, a)
  <2>1. d.zone = c.zone /\ d.dest = c.dest /\ d.out = c.out
    BY <1>1 DEF Character
  <2>2. sess' = [sess EXCEPT ![p][a] = t] /\ chars' = chars
    BY <1>1, <1>2 DEF Play, Handover, SessionTypeOK, Session, Character
  <2> HIDE DEF d
  <2>3. t.status = s.status /\ t.shuttingDown = s.shuttingDown /\ t.char = d
    BY <1>1 DEF Session
  <2>4. Alike(s, t)
    BY <1>1, <2>1, <2>3 DEF Alike
  <2> HIDE DEF t
  <2> QED  BY <1>1, <2>2, <2>4, OneAside DEF SavedAsBefore
<1>3. CASE SaveChar(p, a)
  <2>1. sess' = sess /\ chars' = [chars EXCEPT !.v = s.char.v]
    BY <1>3 DEF SaveChar
  <2>2. SavedAsBefore
    BY <2>1 DEF SavedAsBefore, Handover, SessionTypeOK
  <2> QED  BY <1>1, <2>1, <2>2, NoneMoved, AsideStep
<1> QED  BY <1>2, <1>3

\* One session is closed, and its process has no other: unless the row goes too.
LEMMA ClosedRow ==
  ASSUME Handover, RowInv, NEW p \in Procs, NEW a \in Addrs, sess[p][a] # None,
         sess' = [sess EXCEPT ![p][a] = None], pending' = pending,
         SavedAsBefore, toWorld' = toWorld, toMap' = toMap,
         row' # row => row' = None /\ (row = None \/ p = Here \/ row.server = p)
  PROVE  RowInv'
<1>1. \A q \in Procs, b \in Addrs :
        sess'[q][b] = IF q = p /\ b = a THEN None ELSE sess[q][b]
  BY DEF Handover, SessionTypeOK
<1>2. \A q \in Procs, b \in Addrs : Alike(sess[q][b], sess'[q][b])
  BY <1>1 DEF Alike
<1>3. SameMessages
  BY NoMessages
<1>4. ASSUME row' # row, row # None, NEW q \in Procs, NEW b \in Addrs, Expecting(q, b)'
      PROVE  FALSE
  <2>1. sess'[q][b] # None
    BY <1>4 DEF Expecting, InZone
  <2>2. sess'[q][b] = sess[q][b] /\ ~(q = p /\ b = a)
    BY <1>1, <2>1
  <2>3. Expecting(q, b)
    BY <1>4, <2>2 DEF Expecting, InZone
  <2>4. q = Here /\ sess[q][b] # None
    BY <2>3, ExpectingIs
  <2>5. row.server = Here
    BY <1>4, <2>3 DEF RowInv, RowNamed, Claimed
  <2>6. p = Here
    BY <1>4, <2>5
  <2> QED  BY <2>2, <2>4, <2>6 DEF Handover, OnePerProcess
<1>5. row' = None => row = None \/ \A q \in Procs, b \in Addrs : ~Expecting(q, b)'
  BY <1>4
<1> QED  BY <1>2, <1>3, <1>5, AlikeStep

\* Who logs out is where the character is saved: its row goes with its session.
LEMMA SendLogOutRow ==
  ASSUME Handover, RowInv, NEW p \in Procs, NEW a \in Addrs, SendLogOut(p, a)
  PROVE  RowInv'
<1>1. /\ sess[p][a] # None /\ sess[p][a].shuttingDown = 1
      /\ sess' = [sess EXCEPT ![p][a] = None] /\ row' = None
      /\ pending' = pending /\ chars' = chars /\ toWorld' = toWorld /\ toMap' = toMap
  BY DEF SendLogOut, Closed, ipc
<1>2. p = Here
  BY <1>1 DEF RowInv, Departing
<1> QED  BY <1>1, <1>2, ClosedRow DEF SavedAsBefore

\* A session that times out takes the row along where the row names its process;
\* so does a pending session, which waits where nobody has entered.
LEMMA CleanupRow ==
  ASSUME Handover, RowInv, Cleanup
  PROVE  RowInv'
<1>1. ASSUME NEW p \in Procs, NEW a \in Addrs, SessionTimesOut(p, a) PROVE RowInv'
  <2>1. /\ sess[p][a] # None /\ sess' = [sess EXCEPT ![p][a] = None]
        /\ row' = IF OnOtherMap(p) THEN row ELSE None
        /\ chars' = chars \/ chars' = [chars EXCEPT !.v = sess[p][a].char.v]
        /\ pending' = pending /\ toWorld' = toWorld /\ toMap' = toMap
    BY <1>1 DEF SessionTimesOut, ipc
  <2>2. SavedAsBefore
    BY <2>1 DEF SavedAsBefore, Handover, SessionTypeOK
  <2>3. row' # row => row' = None /\ (row = None \/ row.server = p)
    BY <2>1 DEF OnOtherMap
  <2> QED  BY <2>1, <2>2, <2>3, ClosedRow
<1>2. ASSUME NEW p \in Procs, PendingTimesOut(p) PROVE RowInv'
  <2>1. /\ pending[p] = 1 /\ pending' = [pending EXCEPT ![p] = None] /\ row' = None
        /\ sess' = sess /\ chars' = chars /\ toWorld' = toWorld /\ toMap' = toMap
    BY <1>2 DEF PendingTimesOut, ipc
  <2>2. p = Here /\ pending[p] # None
    BY <2>1, NoneAssumption DEF RowInv, ExpectedHere, Ages
  <2>3. \A q \in Procs, a \in Addrs : ~Expecting(q, a)
    BY <2>2, ExpectingIs DEF Handover, OnePerProcess
  <2>4. \A q \in Procs, a \in Addrs : ~Expecting(q, a)'
    BY <2>1, <2>3 DEF Expecting, InZone
  <2>5. SavedAsBefore /\ SameMessages
    BY <2>1, NoMessages DEF SavedAsBefore
  <2>6. \A q \in Procs : pending'[q] # None => pending[q] # None
    BY <2>1 DEF Handover, SessionTypeOK
  <2> QED  BY <2>1, <2>4, <2>5, <2>6, NoneMoved, AlikeStep
<1> QED  BY <1>1, <1>2 DEF Cleanup

-----------------------------------------------------------------------------
\* Sessions age, and the row does.
LEMMA TickRow ==
  ASSUME Handover, RowInv, Tick
  PROVE  RowInv'
<1> DEFINE t(p, a) == [sess[p][a] EXCEPT !.age = 1]
<1>1. /\ sess' = [p \in Procs |-> [a \in Addrs |-> IF sess[p][a] = None THEN None ELSE t(p, a)]]
      /\ pending' = [p \in Procs |-> IF pending[p] = None THEN None ELSE 1]
      /\ row' = IF row # None /\ row.waited < 2 THEN [row EXCEPT !.waited = @ + 1] ELSE row
      /\ chars' = chars /\ toWorld' = toWorld /\ toMap' = toMap
  BY DEF Tick, ipc
<1>2. ASSUME NEW p \in Procs, NEW a \in Addrs PROVE Alike(sess[p][a], sess'[p][a])
  <2>1. sess'[p][a] = IF sess[p][a] = None THEN None ELSE t(p, a)
    BY <1>1
  <2>2. CASE sess[p][a] = None
    BY <2>1, <2>2 DEF Alike
  <2>3. CASE sess[p][a] # None
    <3>1. sess[p][a] \in Session
      BY <2>3, SessionIs
    <3>2. /\ t(p, a).status = sess[p][a].status /\ t(p, a).char = sess[p][a].char
          /\ t(p, a).shuttingDown = sess[p][a].shuttingDown
      BY <3>1 DEF Session
    <3> QED  BY <2>1, <2>3, <3>2 DEF Alike
  <2> QED  BY <2>2, <2>3
<1>3. \A p \in Procs : pending'[p] # None => pending[p] # None
  BY <1>1
<1>4. /\ row' # None => row # None /\ row'.server = row.server
      /\ row' = None => row = None
  <2>1. row \in Row \cup {None} /\ row' \in Row \cup {None}
    BY TickStep DEF Handover, SessionTypeOK
  <2>2. CASE row # None /\ row.waited < 2
    <3> DEFINE k == [row EXCEPT !.waited = @ + 1]
    <3>1. row' = k /\ row \in Row /\ k.server = row.server
      BY <1>1, <2>1, <2>2 DEF Row
    <3>2. k \in Row
      <4>1. row.waited + 1 \in Waits
        BY <2>2, <3>1 DEF Row, Waits
      <4> QED  BY <3>1, <4>1 DEF Row
    <3> QED  BY <2>2, <3>1, <3>2, NoneAssumption
  <2>3. CASE ~(row # None /\ row.waited < 2)
    BY <1>1, <2>3
  <2> QED  BY <2>2, <2>3
<1>5. SavedAsBefore /\ SameMessages
  BY <1>1, NoMessages DEF SavedAsBefore
<1> QED  BY <1>2, <1>3, <1>4, <1>5, AlikeStep

\* What a process forgets is expected by nobody but itself.
LEMMA CrashRow ==
  ASSUME Handover, RowInv, NEW p \in Procs, Crash(p)
  PROVE  RowInv'
<1>1. /\ sess' = [sess EXCEPT ![p] = [a \in Addrs |-> None]]
      /\ pending' = [pending EXCEPT ![p] = None]
      /\ toMap' = [toMap EXCEPT ![p] = <<>>] /\ toWorld' = [toWorld EXCEPT ![p] = <<>>]
      /\ row' = IF row # None /\ row.server = p THEN None ELSE row
      /\ chars' = chars
  BY DEF Crash
<1>2. \A q \in Procs : /\ pending'[q] = IF q = p THEN None ELSE pending[q]
                       /\ toMap'[q] = IF q = p THEN <<>> ELSE toMap[q]
                       /\ \A b \in Addrs : sess'[q][b] = IF q = p THEN None ELSE sess[q][b]
  BY <1>1 DEF Handover, SessionTypeOK
<1>3. \A s \in Procs \cup {LoginServer} : toWorld'[s] = IF s = p THEN <<>> ELSE toWorld[s]
  BY <1>1, Queues
<1>4. \A q \in Procs, b \in Addrs : Alike(sess[q][b], sess'[q][b])
  BY <1>2 DEF Alike
<1>5. SavedAsBefore
  BY <1>1 DEF SavedAsBefore
<1>6. Here' = Here /\ Here \in Procs
  BY <1>1, HereIs DEF Here
<1>7. SameMessages
  <2>1. /\ \A s \in Procs \cup {LoginServer} : Posted(toWorld'[s]) \subseteq Posted(toWorld[s])
        /\ \A q \in Procs : Posted(toMap'[q]) \subseteq Posted(toMap[q])
    BY <1>2, <1>3, NoPost
  <2>2. ASSUME NEW q \in Procs, NEW a \in Addrs, NEW b \in Addrs, Leftover(q, b)', sess'[Here][a] # None, KillOnTheWay(q)
        PROVE  KillOnTheWay(q)'
    <3>1. q # p /\ Here # p
      BY <1>2, <1>6, <2>2 DEF Leftover
    <3> QED  BY <1>2, <1>3, <1>6, <2>2, <3>1 DEF KillOnTheWay
  <2> QED  BY <2>1, <2>2 DEF SameMessages, MessagesKept, OnTheWay
<1>8. ASSUME NEW q \in Procs, NEW b \in Addrs, Expecting(q, b)', row # None, row.server = p PROVE FALSE
  <2>1. q # p /\ Expecting(q, b)
    BY <1>2, <1>8 DEF Expecting, InZone
  <2> QED  BY <1>8, <2>1, ExpectingIs DEF RowInv, RowNamed, Claimed
<1>9. row' # None => row # None /\ row'.server = row.server
  BY <1>1
<1>10. row' = None => row = None \/ \A q \in Procs, b \in Addrs : ~Expecting(q, b)'
  BY <1>1, <1>8
<1>11. \A q \in Procs : pending'[q] # None => pending[q] # None
  BY <1>2
<1> QED  BY <1>4, <1>5, <1>7, <1>9, <1>10, <1>11, AlikeStep

\* A message goes on to where it is for.
LEMMA WorldHandlesMessages ==
  ASSUME Handover, NEW s \in Procs \cup {LoginServer}, WorldHandles(s)
  PROVE  SavedAsBefore /\ SameMessages
<1>1. PICK m : m = Head(toWorld[s])
  OBVIOUS
<1>2. /\ toWorld[s] # <<>> /\ toWorld' = [toWorld EXCEPT ![s] = Tail(@)]
      /\ toMap' = [p \in Procs |-> IF p \in Forward(m) THEN Append(toMap[p], m) ELSE toMap[p]]
      /\ sess' = sess /\ pending' = pending /\ row' = row /\ chars' = chars
  BY <1>1 DEF WorldHandles
<1>3. m \in Message /\ Posted(toWorld[s]) = {m} \cup Posted(Tail(toWorld[s]))
  BY <1>1, <1>2, Queues, PostIs
<1>4. /\ toWorld'[s] = Tail(toWorld[s])
      /\ \A x \in Procs \cup {LoginServer} : x # s => toWorld'[x] = toWorld[x]
  BY <1>2, Queues
<1>5. \A p \in Procs : Posted(toMap'[p]) = Posted(toMap[p]) \cup (IF p \in Forward(m) THEN {m} ELSE {})
  <2>1. SUFFICES ASSUME NEW p \in Procs
                 PROVE  Posted(toMap'[p]) = Posted(toMap[p]) \cup (IF p \in Forward(m) THEN {m} ELSE {})
    OBVIOUS
  <2>2. toMap[p] \in Seq(Message) /\ toMap'[p] = IF p \in Forward(m) THEN Append(toMap[p], m) ELSE toMap[p]
    BY <1>2, Queues
  <2> QED  BY <1>3, <2>2, PostedIs
<1>6. SavedAsBefore /\ Here' = Here /\ Here \in Procs
  BY <1>2, HereIs DEF SavedAsBefore, Here
<1>7. ASSUME NEW z \in Zones, m = Expectation(z) PROVE Forward(m) = {Host[z]}
  <2>1. m.type = "CharZone" /\ m.zone = z
    BY <1>7 DEF Expectation
  <2> QED  BY <2>1 DEF Forward
<1>8. \A z \in Zones : OnTheWay(z)' => OnTheWay(z)
  BY <1>3, <1>4, <1>5 DEF OnTheWay
<1>9. \A p \in Procs, z \in Zones :
        (Expectation(z) \in Posted(toMap[p]))' => Expectation(z) \in Posted(toMap[p]) \/ Host[z] = p
  BY <1>5, <1>7
<1>10. ASSUME NEW q \in Procs, q # Here, Host[chars.prev] = q, KillOnTheWay(q) PROVE KillOnTheWay(q)'
  <2>1. CASE m = Kill
    <3>1. Forward(m) = {q}
      <4>1. m.type = "KillSession" /\ chars.prev # chars.zone
        BY <1>10, <2>1 DEF Kill, Here
      <4> QED  BY <1>10, <4>1 DEF Forward
    <3>2. Kill \in Posted(toMap'[q])
      BY <1>5, <2>1, <3>1
    <3> QED  BY <3>2 DEF KillOnTheWay
  <2>2. CASE m # Kill
    BY <1>3, <1>4, <1>5, <1>6, <1>10, <2>2 DEF KillOnTheWay
  <2> QED  BY <2>1, <2>2
<1>11. SameMessages
  BY <1>8, <1>9, <1>10 DEF SameMessages, MessagesKept
<1> QED  BY <1>6, <1>11

\* A message on its way on changes no row.
LEMMA WorldHandlesRow ==
  ASSUME Handover, RowInv, NEW s \in Procs \cup {LoginServer}, WorldHandles(s)
  PROVE  RowInv'
<1>1. sess' = sess /\ pending' = pending /\ row' = row
  BY DEF WorldHandles
<1> QED  BY <1>1, WorldHandlesMessages, NoneMoved, AlikeStep

\* A message leaves its queue; if it was to close a session that has been left,
\* that is closed.
LEMMA HandledMessages ==
  ASSUME Handover, NEW p \in Procs, toMap[p] # <<>>, toMap' = [toMap EXCEPT ![p] = Tail(@)],
         toWorld' = toWorld, SavedAsBefore,
         Head(toMap[p]) = Kill => \A a \in Addrs : ~Leftover(p, a)'
  PROVE  SameMessages
<1>1. Posted(toMap[p]) = {Head(toMap[p])} \cup Posted(Tail(toMap[p]))
  BY Queues, PostIs
<1>2. toMap'[p] = Tail(toMap[p]) /\ \A q \in Procs : q # p => toMap'[q] = toMap[q]
  BY Queues
<1>3. \A q \in Procs : Posted(toMap'[q]) \subseteq Posted(toMap[q])
  BY <1>1, <1>2
<1>4. Here' = Here
  BY DEF Here, SavedAsBefore
<1>5. ASSUME NEW q \in Procs, NEW b \in Addrs, Leftover(q, b)', KillOnTheWay(q)
      PROVE  KillOnTheWay(q)'
  <2>1. Kill \in Posted(toMap[q]) => Kill \in Posted(toMap'[q])
    BY <1>1, <1>2, <1>5
  <2> QED  BY <1>4, <1>5, <2>1 DEF KillOnTheWay
<1> QED  BY <1>3, <1>5 DEF SameMessages, MessagesKept, OnTheWay

\* A client is expected where the character is saved: a session is kept for it,
\* or prepared.
LEMMA CharZoneRow ==
  ASSUME Handover, RowInv, NEW p \in Procs, MapHandles(p), HandleCharZone(p),
         Head(toMap[p]).type = "CharZone"
  PROVE  RowInv'
<1>1. PICK m : m = Head(toMap[p])
  OBVIOUS
<1>2. /\ toMap[p] # <<>> /\ toMap' = [toMap EXCEPT ![p] = Tail(@)]
      /\ toWorld' = toWorld /\ chars' = chars /\ row' = row
  BY DEF MapHandles, HandleCharZone
<1>3. m \in Message /\ m.type = "CharZone" /\ Posted(toMap[p]) = {m} \cup Posted(Tail(toMap[p]))
  BY <1>1, <1>2, Queues, PostIs
<1>4. PICK z \in Zones : m = Expectation(z)
  BY <1>3 DEF Message, Expectation
<1>5. OnTheWay(z) /\ p = Here
  <2>1. Expectation(z) \in Posted(toMap[p])
    BY <1>3, <1>4
  <2> QED  BY <2>1 DEF RowInv, ExpectedHere, OnTheWay, Here
<1>6. SavedAsBefore
  BY <1>2 DEF SavedAsBefore
<1>7. m # Kill
  BY <1>3 DEF Kill
<1>8. SameMessages
  BY <1>1, <1>2, <1>6, <1>7, HandledMessages
<1>9. Claimed
  BY <1>5 DEF Claimed
<1>10. CASE Known(p) = {}
  <2>1. sess' = sess /\ pending' = [pending EXCEPT ![p] = 0]
    BY <1>10 DEF HandleCharZone
  <2>2. \A q \in Procs : pending'[q] # None => pending[q] # None \/ q = Here
    BY <1>5, <2>1 DEF Handover, SessionTypeOK
  <2> QED  BY <1>2, <1>6, <1>8, <1>9, <2>1, <2>2, NoneMoved, AlikeOrExpected
<1>11. CASE Known(p) # {}
  <2> DEFINE n(a) == IF sess[p][a].forced THEN sess[p][a].age ELSE 0
             t(a) == [sess[p][a] EXCEPT !.age = n(a)]
  <2>1. PICK a \in Known(p) : sess' = [sess EXCEPT ![p][a] = t(a)]
    BY <1>11 DEF HandleCharZone, Known, Handover, SessionTypeOK, Session
  <2>2. a \in Addrs /\ sess[p][a] # None /\ sess[p][a] \in Session /\ pending' = pending
    BY <1>11, <2>1, SessionIs DEF HandleCharZone, Known
  <2> HIDE DEF n
  <2>3. /\ t(a).status = sess[p][a].status /\ t(a).char = sess[p][a].char
        /\ t(a).shuttingDown = sess[p][a].shuttingDown
    BY <2>2 DEF Session
  <2>4. Alike(sess[p][a], t(a))
    BY <2>2, <2>3 DEF Alike
  <2> HIDE DEF t
  <2>5. \A q \in Procs, b \in Addrs : Alike(sess[q][b], sess'[q][b])
    BY <2>1, <2>2, <2>4, OneAlike
  <2> QED  BY <1>2, <1>6, <1>8, <2>2, <2>5, AlikeStep
<1> QED  BY <1>10, <1>11

\* The old client is not understood any more, which changes no row.
LEMMA AccountLoginRow ==
  ASSUME Handover, RowInv, NEW p \in Procs, MapHandles(p), HandleAccountLogin(p),
         Head(toMap[p]).type = "AccountLogin"
  PROVE  RowInv'
<1>1. /\ toMap[p] # <<>> /\ toMap' = [toMap EXCEPT ![p] = Tail(@)]
      /\ toWorld' = toWorld /\ chars' = chars /\ row' = row /\ pending' = pending
  BY DEF MapHandles, HandleAccountLogin
<1>2. SavedAsBefore
  BY <1>1 DEF SavedAsBefore
<1>3. Head(toMap[p]) # Kill
  BY DEF Kill
<1>4. SameMessages
  BY <1>1, <1>2, <1>3, HandledMessages
<1>5. CASE sess' = sess
  BY <1>1, <1>2, <1>4, <1>5, NoneMoved, AlikeStep
<1>6. CASE sess' # sess
  <2> DEFINE t(a) == [sess[p][a] EXCEPT !.forced = TRUE, !.key = Scrambled, !.old = Scrambled]
  <2>1. PICK a \in Known(p) : sess' = [sess EXCEPT ![p][a] = t(a)]
    BY <1>6 DEF HandleAccountLogin
  <2>2. a \in Addrs /\ sess[p][a] # None /\ sess[p][a] \in Session
    BY <2>1, SessionIs DEF Known
  <2>3. /\ t(a).status = sess[p][a].status /\ t(a).char = sess[p][a].char
        /\ t(a).shuttingDown = sess[p][a].shuttingDown
    BY <2>2 DEF Session
  <2>4. Alike(sess[p][a], t(a))
    BY <2>2, <2>3 DEF Alike
  <2> HIDE DEF t
  <2>5. \A q \in Procs, b \in Addrs : Alike(sess[q][b], sess'[q][b])
    BY <2>1, <2>2, <2>4, OneAlike
  <2> QED  BY <1>1, <1>2, <1>4, <2>5, AlikeStep
<1> QED  BY <1>5, <1>6

\* Only a session that has been left is closed; a row goes with who logs out.
LEMMA KillSessionRow ==
  ASSUME Handover, RowInv, NEW p \in Procs, MapHandles(p), HandleKillSession(p),
         Head(toMap[p]).type = "KillSession"
  PROVE  RowInv'
<1>1. /\ toMap[p] # <<>> /\ toMap' = [toMap EXCEPT ![p] = Tail(@)]
      /\ toWorld' = toWorld /\ chars' = chars /\ pending' = pending
  BY DEF MapHandles, HandleKillSession
<1>2. SavedAsBefore
  BY <1>1 DEF SavedAsBefore
<1>3. CASE sess' = sess /\ row' = row /\ \A a \in Addrs : ~Leftover(p, a)
  <2>1. \A a \in Addrs : ~Leftover(p, a)'
    BY <1>3 DEF Leftover
  <2>2. SameMessages
    BY <1>1, <1>2, <2>1, HandledMessages
  <2> QED  BY <1>1, <1>2, <1>3, <2>2, NoneMoved, AlikeStep
<1>4. CASE \E a \in Addrs : Leftover(p, a)
  <2>1. PICK a \in Addrs : Leftover(p, a)
    BY <1>4
  <2>2. \A b \in Addrs : sess[p][b] # None => b = a
    BY <2>1 DEF Leftover, Handover, OnePerProcess
  <2>3. Known(p) = {a}
    BY <2>1, <2>2 DEF Known, Leftover
  <2>4. sess' = [sess EXCEPT ![p][a] = None] /\ row' = IF sess[p][a].shuttingDown = 1 THEN None ELSE row
    BY <2>1, <2>3 DEF HandleKillSession, Leftover
  <2>5. \A q \in Procs, b \in Addrs : sess'[q][b] = IF q = p /\ b = a THEN None ELSE sess[q][b]
    BY <2>4 DEF Handover, SessionTypeOK
  <2>6. \A b \in Addrs : ~Leftover(p, b)'
    BY <2>2, <2>5 DEF Leftover
  <2>7. SameMessages
    BY <1>1, <1>2, <2>6, HandledMessages
  <2>8. \A q \in Procs, b \in Addrs : Alike(sess[q][b], sess'[q][b])
    BY <2>5 DEF Alike
  <2>9. ASSUME row' # row PROVE \A q \in Procs, b \in Addrs : ~Expecting(q, b)'
    <3>1. p = Here
      BY <2>1, <2>4, <2>9 DEF RowInv, Departing, Leftover
    <3>2. ASSUME NEW q \in Procs, NEW b \in Addrs, Expecting(q, b)' PROVE FALSE
      <4>1. Expecting(q, b) /\ sess'[q][b] # None
        BY <2>5, <3>2 DEF Expecting, InZone
      <4> QED  BY <2>2, <2>5, <3>1, <4>1, ExpectingIs
    <3> QED  BY <3>2
  <2>10. row' # None => row # None /\ row'.server = row.server
    BY <2>4
  <2>11. row' = None => row = None \/ \A q \in Procs, b \in Addrs : ~Expecting(q, b)'
    BY <2>4, <2>9
  <2> QED  BY <1>1, <1>2, <2>7, <2>8, <2>10, <2>11, AlikeStep
<1>5. CASE \A a \in Addrs : ~Leftover(p, a)
  <2>1. sess' = sess /\ row' = row
    BY <1>5 DEF HandleKillSession, Known, Leftover
  <2> QED  BY <1>3, <1>5, <2>1
<1> QED  BY <1>4, <1>5

\* A map process handles a message.
LEMMA MapHandlesRow ==
  ASSUME Handover, RowInv, NEW p \in Procs, MapHandles(p)
  PROVE  RowInv'
<1>1. Head(toMap[p]) \in Message
  BY Queues, PostIs DEF MapHandles
<1>2. Head(toMap[p]).type \in {"CharZone", "KillSession", "AccountLogin"}
  BY <1>1 DEF Message
<1>3. CASE Head(toMap[p]).type = "CharZone"
  BY <1>3, CharZoneRow DEF MapHandles
<1>4. CASE Head(toMap[p]).type = "KillSession"
  BY <1>4, KillSessionRow DEF MapHandles
<1>5. CASE Head(toMap[p]).type = "AccountLogin"
  BY <1>5, AccountLoginRow DEF MapHandles
<1> QED  BY <1>2, <1>3, <1>4, <1>5

-----------------------------------------------------------------------------
\* A session is replaced, and the others are what they were.
LEMMA OneReplaced ==
  ASSUME Handover, NEW p \in Procs, NEW a \in Addrs, NEW t, sess' = [sess EXCEPT ![p][a] = t]
  PROVE  /\ \A q \in Procs, b \in Addrs :
              sess'[q][b] = IF q = p /\ b = a THEN t ELSE sess[q][b]
         /\ \A q \in Procs, b \in Addrs : q # p \/ b # a =>
              /\ Expecting(q, b)' <=> Expecting(q, b)
              /\ Leftover(q, b)' <=> Leftover(q, b)
<1>1. \A q \in Procs, b \in Addrs :
        sess'[q][b] = IF q = p /\ b = a THEN t ELSE sess[q][b]
  BY DEF Handover, SessionTypeOK
<1> QED  BY <1>1 DEF Expecting, Leftover, InZone

\* A session changes its status; it was expected, or left, before.
LEMMA ReplacedRow ==
  ASSUME Handover, RowInv, NEW p \in Procs, NEW a \in Addrs, NEW t,
         sess' = [sess EXCEPT ![p][a] = t], pending' = pending, SavedAsBefore, MessagesKept,
         t.shuttingDown = 1 => t.status = "PendingZone" /\ p = Here,
         t.char # None => t.char.out # "zone",
         t.status = "PendingZone" => Leftover(p, a) \/ (p = Here /\ Expecting(p, a)),
         Expecting(p, a)' => row # None /\ (Expecting(p, a) \/ Leftover(p, a)),
         \/ row' = row /\ (row = None \/ (Claimed' => Claimed))
         \/ row # None /\ row' # None /\ row'.server = Here
  PROVE  RowInv'
<1>1. /\ \A q \in Procs, b \in Addrs :
              sess'[q][b] = IF q = p /\ b = a THEN t ELSE sess[q][b]
      /\ \A q \in Procs, b \in Addrs : q # p \/ b # a =>
              /\ Expecting(q, b)' <=> Expecting(q, b)
              /\ Leftover(q, b)' <=> Leftover(q, b)
  BY OneReplaced
<1>2. Here' = Here /\ chars'.zone = chars.zone /\ Here \in Procs
  BY HereIs DEF Here, SavedAsBefore
<1>3. RowNamed'
  <2>1. ASSUME NEW q \in Procs, NEW b \in Addrs, Expecting(q, b)' PROVE row' # None
    <3>1. row # None
      BY <1>1, <2>1 DEF RowInv, RowNamed
    <3> QED  BY <3>1
  <2>2. ASSUME Claimed', row' # None PROVE row'.server = Here
    BY <2>2 DEF RowInv, RowNamed
  <2> QED  BY <1>2, <2>1, <2>2 DEF RowNamed
<1>4. Departing'
  <2>1. SUFFICES ASSUME NEW q \in Procs, NEW b \in Addrs, sess'[q][b] # None
                 PROVE  /\ sess'[q][b].shuttingDown = 1 => Leftover(q, b)' /\ q = Here
                        /\ sess'[q][b].char # None /\ sess'[q][b].char.out = "zone" =>
                             Leftover(q, b)' /\ sess'[q][b].char.dest = chars.zone
    BY <1>2 DEF Departing
  <2>2. CASE q = p /\ b = a
    <3>1. sess'[q][b] = t
      BY <1>1, <2>2
    <3> QED  BY <2>1, <2>2, <3>1 DEF Leftover
  <2>3. CASE ~(q = p /\ b = a)
    <3>1. sess'[q][b] = sess[q][b] /\ (Leftover(q, b)' <=> Leftover(q, b))
      BY <1>1, <2>3
    <3> QED  BY <2>1, <3>1 DEF RowInv, Departing
  <2> QED  BY <2>2, <2>3
<1>5. Leftover(p, a)' => Leftover(p, a) \/ (p = Here /\ Expecting(p, a))
  BY <1>1 DEF Leftover
<1>6. \A q \in Procs, b \in Addrs : Leftover(q, b)' /\ q # Here => Leftover(q, b)
  BY <1>1, <1>5
<1>7. \A b \in Addrs : Expecting(Here, b)' \/ Leftover(Here, b)' => Expecting(Here, b) \/ Leftover(Here, b)
  <2>1. PICK q \in Procs : q = Here
    BY <1>2
  <2>2. ASSUME NEW b \in Addrs
        PROVE  Expecting(q, b)' \/ Leftover(q, b)' => Expecting(q, b) \/ Leftover(q, b)
    <3>1. CASE q = p /\ b = a
      BY <1>5, <3>1
    <3>2. CASE ~(q = p /\ b = a)
      BY <1>1, <3>2
    <3> QED  BY <3>1, <3>2
  <2> QED  BY <1>2, <2>1, <2>2
<1> QED  BY <1>3, <1>4, <1>6, <1>7, RowStep

\* No client is newly expected but at (p, a).
LEMMA ClaimedStays ==
  ASSUME Handover, NEW p \in Procs, NEW a \in Addrs, NEW t,
         sess' = [sess EXCEPT ![p][a] = t], pending' = pending, SameMessages,
         ~Expecting(p, a)'
  PROVE  Claimed' => Claimed
<1>1. \A q \in Procs, b \in Addrs : q # p \/ b # a => (Expecting(q, b)' <=> Expecting(q, b))
  BY OneReplaced
<1> QED  BY <1>1 DEF Claimed, SameMessages

\* The character leaves for good: its session is left where it is saved.
LEMMA LogOutRow ==
  ASSUME Handover, RowInv, NEW p \in Procs, NEW a \in Addrs, LogOut(p, a)
  PROVE  RowInv'
<1> DEFINE s == sess[p][a]
           d == [s.char EXCEPT !.zone = None, !.out = "logout"]
           t == [s EXCEPT !.status = "PendingZone", !.shuttingDown = 1, !.char = d]
<1>1. /\ InZone(p, a) /\ s # None /\ s \in Session /\ s.char \in Character /\ p = Here
      /\ chars' = [chars EXCEPT !.v = s.char.v]
      /\ pending' = pending /\ row' = row /\ toWorld' = toWorld /\ toMap' = toMap
  BY InZoneFacts DEF LogOut, ipc, Here
<1>2. sess' = [sess EXCEPT ![p][a] = t]
  BY <1>1 DEF LogOut, Removed, Handover, SessionTypeOK, Session
<1>3. d.zone = None /\ d.out = "logout"
  BY <1>1 DEF Character
<1> HIDE DEF d
<1>4. t.status = "PendingZone" /\ t.shuttingDown = 1 /\ t.char = d
  BY <1>1 DEF Session
<1> HIDE DEF t
<1>5. SavedAsBefore
  BY <1>1 DEF SavedAsBefore, Handover, SessionTypeOK
<1>6. SameMessages /\ MessagesKept
  BY <1>1, <1>5, NoMessages DEF SameMessages
<1>7. Expecting(p, a)
  BY <1>1 DEF Expecting
<1>8. ~Expecting(p, a)'
  <2>1. sess'[p][a] = t
    BY <1>2 DEF Handover, SessionTypeOK
  <2> QED  BY <1>3, <1>4, <2>1 DEF Expecting, InZone
<1>9. Claimed' => Claimed
  BY <1>1, <1>2, <1>6, <1>8, ClaimedStays
<1>10. /\ t.shuttingDown = 1 => t.status = "PendingZone" /\ p = Here
       /\ t.char # None => t.char.out # "zone"
       /\ t.status = "PendingZone" => Leftover(p, a) \/ (p = Here /\ Expecting(p, a))
       /\ Expecting(p, a)' => row # None /\ (Expecting(p, a) \/ Leftover(p, a))
  BY <1>1, <1>3, <1>4, <1>7, <1>8
<1>11. \/ row' = row /\ (row = None \/ (Claimed' => Claimed))
       \/ row # None /\ row' # None /\ row'.server = Here
  BY <1>1, <1>9
<1> QED  BY <1>1, <1>2, <1>5, <1>6, <1>10, <1>11, ReplacedRow

\* An 0x00A that lets a character into its zone, or finds it on another process.
LEMMA EnteredRow ==
  ASSUME Handover, RowInv, NEW p \in Procs, NEW a \in Addrs, LoginHandled(p, a),
         sess[p][a].status # "Accepted"
  PROVE  RowInv'
<1> DEFINE s == sess[p][a]
           r == Reloaded(s)
           c == r.char
           d == IF Host[c.dest] = p THEN [c EXCEPT !.zone = c.dest, !.dest = None] ELSE c
           t == Entered(p, r)
           k == [row EXCEPT !.server = p, !.seen = TRUE, !.waited = 2]
<1>1. /\ s # None /\ (s.status = "PendingZone" => row # None)
      /\ sess' = [sess EXCEPT ![p][a] = t]
      /\ row' = IF row # None /\ Host[r.char.dest] = p THEN k ELSE row
      /\ pending' = pending /\ chars' = chars /\ toWorld' = toWorld /\ toMap' = toMap
  BY DEF LoginHandled, ipc
<1>2. SessionOK(p, s, chars.zone) /\ s \in Session /\ SessionTypeOK
  BY <1>1, SessionIs DEF Handover
<1>3. /\ r \in Session
      /\ s.status # "PendingZone" => r.char = s.char
      /\ s.status = "PendingZone" => r.char = Loaded
  BY <1>1, <1>2, ReloadedOK
<1>4. /\ c \in Character /\ c.zone = None /\ c.out = "none" /\ c.dest \in Zones
      /\ Host[c.dest] = p => p = Here /\ (Expecting(p, a) \/ Leftover(p, a))
  <2>1. CASE s.status = "PendingZone"
    <3>1. c = Loaded
      BY <1>3, <2>1
    <3> HIDE DEF c
    <3>2. /\ c \in Character /\ chars.zone \in Zones
          /\ c.zone = None /\ c.dest = chars.zone /\ c.out = "none"
      BY <1>2, <3>1, LoadedIsSaved
    <3>3. Leftover(p, a)
      BY <1>1, <2>1 DEF Leftover
    <3> QED  BY <3>2, <3>3 DEF Here
  <2>2. CASE s.status = "Waiting"
    <3>1. c = s.char
      BY <1>3, <2>2
    <3> HIDE DEF c
    <3>2. /\ c \in Character /\ c.zone = None /\ c.dest \in Zones /\ c.out = "none"
          /\ Host[c.dest] = p => c.dest = chars.zone
      BY <1>2, <2>2, <3>1 DEF SessionOK
    <3>3. Host[c.dest] = p => Expecting(p, a)
      BY <1>1, <2>2, <3>1 DEF Expecting
    <3> QED  BY <3>2, <3>3 DEF Here
  <2> QED  BY <1>2, <2>1, <2>2 DEF Session
<1> HIDE DEF r
<1>5. d \in Character /\ d.out = "none" /\ (d.zone # None => Host[c.dest] = p)
  BY <1>4 DEF Character
<1>6. t = [r EXCEPT !.status = "Accepted", !.shuttingDown = 0, !.char = d]
  BY DEF Entered
<1> HIDE DEF d, t, c
<1>7. t.status = "Accepted" /\ t.shuttingDown = 0 /\ t.char = d
  BY <1>3, <1>6 DEF Session
<1>8. SavedAsBefore
  BY <1>1 DEF SavedAsBefore
<1>9. SameMessages /\ MessagesKept
  BY <1>1, <1>8, NoMessages DEF SameMessages
<1>10. Expecting(p, a)' => Host[c.dest] = p
  <2>1. sess'[p][a] = t
    BY <1>1 DEF Handover, SessionTypeOK
  <2> QED  BY <1>5, <1>7, <2>1 DEF Expecting, InZone
<1>11. Host[c.dest] = p => row # None
  <2>1. CASE Expecting(p, a)
    BY <2>1 DEF RowInv, RowNamed
  <2>2. CASE Leftover(p, a)
    BY <1>1, <2>2 DEF Leftover
  <2> QED  BY <1>4, <2>1, <2>2
<1>12. \/ row' = row /\ (row = None \/ (Claimed' => Claimed))
       \/ row # None /\ row' # None /\ row'.server = Here
  <2>1. CASE Host[c.dest] = p
    <3>1. row \in Row /\ row' = k
      BY <1>1, <1>11, <2>1 DEF Handover, SessionTypeOK, c
    <3>2. k \in Row /\ k.server = p
      BY <3>1, SeenType DEF Row
    <3> HIDE DEF k
    <3> QED  BY <1>4, <1>11, <2>1, <3>1, <3>2, NoneAssumption
  <2>2. CASE Host[c.dest] # p
    <3>1. row' = row
      BY <1>1, <2>2 DEF c
    <3>2. ~Expecting(p, a)'
      BY <1>10, <2>2
    <3>3. Claimed' => Claimed
      BY <1>1, <1>9, <3>2, ClaimedStays
    <3> QED  BY <3>1, <3>3
  <2> QED  BY <2>1, <2>2
<1>13. /\ t.shuttingDown = 1 => t.status = "PendingZone" /\ p = Here
       /\ t.char # None => t.char.out # "zone"
       /\ t.status = "PendingZone" => Leftover(p, a) \/ (p = Here /\ Expecting(p, a))
       /\ Expecting(p, a)' => row # None /\ (Expecting(p, a) \/ Leftover(p, a))
  BY <1>4, <1>5, <1>7, <1>10, <1>11
<1>14. pending' = pending /\ sess' = [sess EXCEPT ![p][a] = t]
  BY <1>1
<1> QED  BY <1>8, <1>9, <1>12, <1>13, <1>14, ReplacedRow

\* A sender posts a message.
LEMMA PostedTo ==
  ASSUME Handover, NEW s \in Procs \cup {LoginServer}, NEW m \in Message,
         toWorld' = [toWorld EXCEPT ![s] = Append(@, m)]
  PROVE  /\ Posted(toWorld'[s]) = Posted(toWorld[s]) \cup {m}
         /\ \A x \in Procs \cup {LoginServer} : x # s => toWorld'[x] = toWorld[x]
<1>1. toWorld'[s] = Append(toWorld[s], m) /\ toWorld[s] \in Seq(Message)
  BY Queues
<1>2. Posted(Append(toWorld[s], m)) = Posted(toWorld[s]) \cup {m}
  BY <1>1, PostedIs
<1> QED  BY <1>1, <1>2, Queues

\* The saved process is told to expect the client.
LEMMA ExpectationSent ==
  ASSUME Handover, NEW s \in Procs \cup {LoginServer}, SavedAsBefore,
         toWorld' = [toWorld EXCEPT ![s] = Append(@, Expectation(chars.zone))], toMap' = toMap
  PROVE  MessagesKept
<1>1. PICK m : m = Expectation(chars.zone)
  OBVIOUS
<1>2. m \in Message /\ \A z \in Zones : Expectation(z) = m => z = chars.zone
  BY <1>1, Messages, HereIs DEF Expectation
<1>3. /\ Posted(toWorld'[s]) = Posted(toWorld[s]) \cup {m}
      /\ \A x \in Procs \cup {LoginServer} : x # s => toWorld'[x] = toWorld[x]
  BY <1>1, <1>2, PostedTo
<1>4. Here' = Here /\ Here \in Procs
  BY HereIs DEF SavedAsBefore, Here
<1>5. \A z \in Zones : OnTheWay(z)' => OnTheWay(z) \/ z = chars.zone
  BY <1>2, <1>3 DEF OnTheWay
<1>6. \A q \in Procs : KillOnTheWay(q) => KillOnTheWay(q)'
  BY <1>3, <1>4 DEF KillOnTheWay
<1> QED  BY <1>5, <1>6 DEF MessagesKept

\* The client is told where to go: the row names the saved process from now on,
\* which is told to expect the client.
LEMMA SendZoneOutRow ==
  ASSUME Handover, RowInv, NEW p \in Procs, NEW a \in Addrs, SendZoneOut(p, a),
         client.phase = "playing"
  PROVE  RowInv'
<1> DEFINE s == sess[p][a]
           next == Host[s.char.dest]
           u == [s EXCEPT !.status = "PendingZone", !.char = None, !.ipp = next]
           t == Rekeyed(u)
           k == [server |-> next, seen |-> FALSE, key |-> Incremented(s.key), waited |-> 0]
<1>1. /\ s # None /\ s.char # None /\ s.char.out = "zone" /\ client.key = s.key
      /\ row' = IF row = None THEN None ELSE k
      /\ sess' = [sess EXCEPT ![p][a] = t]
      /\ toWorld' = [toWorld EXCEPT ![p] = Append(@, [type |-> "CharZone", zone |-> s.char.dest])]
      /\ pending' = pending /\ chars' = chars /\ toMap' = toMap
  BY DEF SendZoneOut
<1>2. SessionOK(p, s, chars.zone) /\ s \in Session
  BY <1>1, SessionIs
<1>3. Leftover(p, a) /\ s.char.dest = chars.zone /\ next = Here
  BY <1>1 DEF RowInv, Departing, Here
<1>4. t.status = "PendingZone" /\ t.char = None /\ t.shuttingDown = s.shuttingDown
  <2>1. /\ u.status = "PendingZone" /\ u.char = None /\ u.shuttingDown = s.shuttingDown
        /\ u \in [DOMAIN u -> {u[x] : x \in DOMAIN u}]
        /\ DOMAIN u = DOMAIN s /\ {"status", "char", "shuttingDown"} \subseteq DOMAIN s
    BY <1>2 DEF Session
  <2> HIDE DEF u
  <2> QED  BY <2>1 DEF Rekeyed
<1>5. SavedAsBefore
  BY <1>1 DEF SavedAsBefore
<1>6. toWorld' = [toWorld EXCEPT ![p] = Append(@, Expectation(chars.zone))]
  BY <1>1, <1>3 DEF Expectation
<1>7. MessagesKept
  BY <1>1, <1>5, <1>6, ExpectationSent
<1>8. row' # None => row # None /\ row'.server = Here
  BY <1>1, <1>3
<1>9. row # None => row' # None
  <2>1. SUFFICES ASSUME row # None PROVE row' # None
    OBVIOUS
  <2>2. row' = k /\ Incremented(s.key) \in Keys
    <3>1. s.key \in Keys /\ s.key[2] < MaxHops
      BY <1>1, <1>2 DEF Handover, ClientHasKey, SessionOK
    <3> QED  BY <1>1, <2>1, <3>1, KeyNext
  <2>3. k \in Row
    BY <1>3, <2>2, HereIs DEF Row, Waits
  <2> QED  BY <2>2, <2>3, NoneAssumption
<1> HIDE DEF t, k, next
<1>10. ~Expecting(p, a)'
  <2>1. sess'[p][a] = t
    BY <1>1 DEF Handover, SessionTypeOK
  <2> QED  BY <1>4, <2>1 DEF Expecting, InZone
<1>11. /\ t.shuttingDown = 1 => t.status = "PendingZone" /\ p = Here
       /\ t.char # None => t.char.out # "zone"
       /\ t.status = "PendingZone" => Leftover(p, a) \/ (p = Here /\ Expecting(p, a))
       /\ Expecting(p, a)' => row # None /\ (Expecting(p, a) \/ Leftover(p, a))
  BY <1>1, <1>3, <1>4, <1>10 DEF RowInv, Departing
<1>12. \/ row' = row /\ (row = None \/ (Claimed' => Claimed))
       \/ row # None /\ row' # None /\ row'.server = Here
  BY <1>1, <1>8, <1>9
<1> QED  BY <1>1, <1>5, <1>7, <1>11, <1>12, ReplacedRow

\* The player selects the character; the row is new and names the saved process.
LEMMA SelectCharacterRow ==
  ASSUME Handover, RowInv, NEW a \in Addrs, SelectCharacter(a)
  PROVE  RowInv'
<1> DEFINE key == <<logins + 1, 0>>
           k == [server |-> Host[chars.zone], seen |-> FALSE, key |-> key, waited |-> 2]
<1>1. /\ row' = k /\ logins < MaxLogins
      /\ toWorld' = [toWorld EXCEPT ![LoginServer] = Append(@, Expectation(chars.zone))]
      /\ sess' = sess /\ pending' = pending /\ chars' = chars /\ toMap' = toMap
  BY DEF SelectCharacter, Expectation
<1>2. row' # None /\ row'.server = Here /\ Here' = Here
  <2>1. key \in Keys
    BY <1>1, KeyFirst DEF Handover
  <2>2. k \in Row
    BY <2>1, HereIs DEF Row, Waits, Here
  <2> QED  BY <1>1, <2>2, NoneAssumption DEF Here
<1>3. SavedAsBefore
  BY <1>1 DEF SavedAsBefore
<1>4. MessagesKept
  BY <1>1, <1>3, ExpectationSent
<1>5. RowNamed'
  BY <1>2 DEF RowNamed
<1>6. Departing'
  BY <1>1, <1>2 DEF RowInv, Departing, Leftover
<1>7. /\ \A p \in Procs, b \in Addrs : Leftover(p, b)' => Leftover(p, b)
      /\ \A b \in Addrs : Expecting(Here, b)' \/ Leftover(Here, b)' => Expecting(Here, b) \/ Leftover(Here, b)
      /\ \A p \in Procs : pending'[p] # None => pending[p] # None \/ p = Here
  BY <1>1, <1>2 DEF Expecting, Leftover, InZone
<1> QED  BY <1>3, <1>4, <1>5, <1>6, <1>7, RowStep

-----------------------------------------------------------------------------
\* Where the client is expected it gets a session; what is left of the character
\* elsewhere is to be closed.
LEMMA LoginCreatesRow ==
  ASSUME Handover, RowInv, NEW p \in Procs, NEW a \in Addrs, LoginCreates(p, a)
  PROVE  RowInv'
<1>1. /\ pending[p] # None /\ pending' = [pending EXCEPT ![p] = None]
      /\ row' = row /\ chars' = chars /\ toMap' = toMap
  BY DEF LoginCreates
<1>2. \A q \in Procs : pending'[q] # None => pending[q] # None
  BY <1>1 DEF Handover, SessionTypeOK
<1>3. /\ p = Here /\ Here' = Here /\ SavedAsBefore /\ chars.zone \in Zones
      /\ \A b \in Addrs : sess[p][b] = None
  BY <1>1, HereIs DEF RowInv, ExpectedHere, Handover, OnePerProcess, Here, SavedAsBefore
<1>4. CASE row = None
  <2>1. sess' = sess /\ toWorld' = toWorld
    BY <1>4 DEF LoginCreates
  <2> QED  BY <1>1, <1>2, <1>3, <2>1, NoneMoved, AsideStep
<1>5. CASE row # None
  <2> DEFINE t == [status |-> "Waiting", char |-> Loaded, key |-> row.key, old |-> Scrambled,
                   decrypted |-> FALSE, shuttingDown |-> 0, ipp |-> None, forced |-> FALSE,
                   age |-> 0]
  <2>1. /\ sess' = [sess EXCEPT ![p][a] = t]
        /\ toWorld' = IF chars.zone # chars.prev
                      THEN [toWorld EXCEPT ![p] = Append(@, Kill)] ELSE toWorld
    BY <1>5 DEF LoginCreates, Kill
  <2>2. t.status = "Waiting" /\ t.char = Loaded /\ t.shuttingDown = 0
    OBVIOUS
  <2> HIDE DEF t
  <2>3. Loaded \in Character /\ Loaded.out = "none"
    BY LoadedIsSaved DEF Handover
  <2>4. /\ \A q \in Procs, b \in Addrs : sess'[q][b] = IF q = p /\ b = a THEN t ELSE sess[q][b]
        /\ \A q \in Procs, b \in Addrs : q # p \/ b # a =>
              /\ Expecting(q, b)' <=> Expecting(q, b)
              /\ Leftover(q, b)' <=> Leftover(q, b)
    BY <2>1, OneReplaced
  <2>5. ~Leftover(p, a)'
    BY <2>2, <2>4 DEF Leftover
  <2>6. PICK m : m = Kill
    OBVIOUS
  <2>7. m \in Message /\ \A z \in Zones : Expectation(z) # m
    BY <2>6, Messages DEF Kill, Expectation
  <2>8. ASSUME chars.zone # chars.prev
        PROVE  /\ Posted(toWorld'[p]) = Posted(toWorld[p]) \cup {m}
               /\ \A x \in Procs \cup {LoginServer} : x # p => toWorld'[x] = toWorld[x]
    <3>1. toWorld' = [toWorld EXCEPT ![p] = Append(@, m)]
      BY <2>1, <2>6, <2>8
    <3> QED  BY <2>7, <3>1, PostedTo
  <2>9. \A z \in Zones : OnTheWay(z)' => OnTheWay(z)
    <3>1. CASE chars.zone = chars.prev
      BY <1>1, <2>1, <3>1 DEF OnTheWay
    <3>2. CASE chars.zone # chars.prev
      BY <1>1, <2>7, <2>8, <3>2 DEF OnTheWay
    <3> QED  BY <3>1, <3>2
  <2>10. ExpectedHere'
    BY <1>1, <1>2, <1>3, <2>9 DEF RowInv, ExpectedHere
  <2>11. RowNamed'
    <3>1. row.server = Here
      BY <1>1, <1>5 DEF RowInv, RowNamed, Claimed
    <3> QED  BY <1>1, <1>3, <1>5, <3>1 DEF RowNamed
  <2>12. Departing'
    <3>1. SUFFICES ASSUME NEW q \in Procs, NEW b \in Addrs, sess'[q][b] # None
                   PROVE  /\ sess'[q][b].shuttingDown = 1 => Leftover(q, b)' /\ q = Here
                          /\ sess'[q][b].char # None /\ sess'[q][b].char.out = "zone" =>
                               Leftover(q, b)' /\ sess'[q][b].char.dest = chars.zone
      BY <1>1, <1>3 DEF Departing
    <3>2. CASE q = p /\ b = a
      BY <2>2, <2>3, <2>4, <3>2
    <3>3. CASE ~(q = p /\ b = a)
      <4>1. sess'[q][b] = sess[q][b] /\ (Leftover(q, b)' <=> Leftover(q, b))
        BY <2>4, <3>3
      <4> QED  BY <3>1, <4>1 DEF RowInv, Departing
    <3> QED  BY <3>2, <3>3
  <2>13. LeftoversEnd'
    <3>1. SUFFICES ASSUME NEW q \in Procs, NEW b \in Addrs, Leftover(q, b)', q # Here
                   PROVE  Host[chars.prev] = q /\ KillOnTheWay(q)'
      BY <1>1, <1>3 DEF LeftoversEnd
    <3>2. Leftover(q, b)
      BY <1>3, <2>4, <3>1
    <3>3. Host[chars.prev] = q
      BY <3>1, <3>2 DEF RowInv, LeftoversEnd
    <3>4. chars.zone # chars.prev
      BY <3>1, <3>3 DEF Here
    <3>5. Kill \in Posted(toWorld'[p])
      BY <2>6, <2>8, <3>4
    <3> QED  BY <1>3, <3>3, <3>5 DEF KillOnTheWay
  <2> QED  BY <2>10, <2>11, <2>12, <2>13 DEF RowInv
<1> QED  BY <1>4, <1>5

\* The session of a character that has left zone y for zone z.
ZonedOut(s, z, y) == Removed([s EXCEPT !.char.dest = z, !.char.prev = y], 2, "zone")

\* It stays with the session until the client has been told where to go.
LEMMA RemovedIs ==
  ASSUME NEW s \in Session, s.char \in Character, NEW z \in Zones, NEW y \in Zones
  PROVE  LET t == ZonedOut(s, z, y)
         IN  /\ t.status = "PendingZone" /\ t.shuttingDown = 2
             /\ t.char.zone = None /\ t.char.out = "zone" /\ t.char.dest = z
<1> DEFINE c == s.char
           d == [c EXCEPT !.dest = z, !.prev = y]
           e == [d EXCEPT !.zone = None, !.out = "zone"]
           s1 == [s EXCEPT !.char = d]
<1>1. s1 = [s EXCEPT !.char.dest = z, !.char.prev = y]
  BY DEF Session, Character
<1>2. e.zone = None /\ e.out = "zone" /\ e.dest = z /\ d \in Character
  BY DEF Character
<1>3. s1 \in Session /\ s1.char = d
  BY <1>2 DEF Session
<1>4. Removed(s1, 2, "zone") = [s1 EXCEPT !.status = "PendingZone", !.shuttingDown = 2, !.char = e]
  BY <1>3 DEF Removed
<1> HIDE DEF e, d
<1>5. \A x \in Session : LET w == [x EXCEPT !.status = "PendingZone", !.shuttingDown = 2, !.char = e]
                         IN  w.status = "PendingZone" /\ w.shuttingDown = 2 /\ w.char = e
  BY DEF Session
<1> HIDE DEF s1
<1> QED  BY <1>1, <1>2, <1>3, <1>4, <1>5 DEF ZonedOut

\* The character leaves its zone: what was left of it elsewhere is closed by now,
\* and nobody expects it.
LEMMA ZoneOutRow ==
  ASSUME Handover, RowInv, NEW p \in Procs, NEW a \in Addrs, ZoneOut(p, a)
  PROVE  RowInv'
<1> DEFINE s == sess[p][a]
           c == s.char
           prev(z) == IF z = c.zone THEN c.prev ELSE c.zone
           t(z) == ZonedOut(s, z, c.zone)
<1>1. /\ Delivered /\ InZone(p, a)
      /\ row' = row /\ pending' = pending /\ toWorld' = toWorld /\ toMap' = toMap
  BY DEF ZoneOut, ipc
<1>2. /\ s # None /\ s \in Session /\ c \in Character /\ c.zone \in Zones
      /\ c.zone = chars.zone /\ p = Here
      /\ \A b \in Addrs : sess[p][b] # None => b = a
  BY <1>1, InZoneFacts DEF Here
<1>3. PICK z \in Zones : /\ chars' = [v |-> c.v, zone |-> z, prev |-> prev(z)]
                         /\ sess' = [sess EXCEPT ![p][a] = t(z)]
  BY DEF ZoneOut, ZonedOut
<1>4. /\ t(z).status = "PendingZone" /\ t(z).shuttingDown = 2
      /\ t(z).char.zone = None /\ t(z).char.out = "zone" /\ t(z).char.dest = z
  BY <1>2, RemovedIs
<1> HIDE DEF t
<1>5. chars'.zone = z /\ chars'.prev = prev(z) /\ Here' = Host[z]
  BY <1>3 DEF Here
<1>6. \A q \in Procs, b \in Addrs : sess'[q][b] = IF q = p /\ b = a THEN t(z) ELSE sess[q][b]
  BY <1>3 DEF Handover, SessionTypeOK
<1>7. /\ \A x \in Procs \cup {LoginServer} : Posted(toWorld[x]) = {}
      /\ \A q \in Procs : Posted(toMap[q]) = {}
  BY <1>1, Queues, NoPost DEF Delivered
<1>8. \A q \in Procs, b \in Addrs : Leftover(q, b) => q = p
  <2>1. \A q \in Procs : ~KillOnTheWay(q)
    BY <1>2, <1>7 DEF KillOnTheWay
  <2>2. Expecting(Here, a)
    BY <1>1, <1>2 DEF Expecting
  <2> QED  BY <1>2, <2>1, <2>2 DEF RowInv, LeftoversEnd
<1>9. \A q \in Procs : pending[q] = None
  BY <1>2 DEF RowInv, ExpectedHere, Handover, OnePerProcess
<1>10. \A q \in Procs, b \in Addrs : ~Expecting(q, b)'
  <2>1. SUFFICES ASSUME NEW q \in Procs, NEW b \in Addrs, Expecting(q, b)' PROVE FALSE
    OBVIOUS
  <2>2. CASE q = p /\ b = a
    BY <1>4, <1>6, <2>1, <2>2 DEF Expecting, InZone
  <2>3. CASE ~(q = p /\ b = a)
    <3>1. sess'[q][b] = sess[q][b]
      BY <1>6, <2>3
    <3>2. Expecting(q, b)
      BY <2>1, <3>1 DEF Expecting, InZone
    <3> QED  BY <1>2, <2>3, <3>2, ExpectingIs
  <2> QED  BY <2>2, <2>3
<1>11. \A x \in Zones : ~OnTheWay(x)'
  BY <1>1, <1>7 DEF OnTheWay
<1>12. ExpectedHere'
  BY <1>1, <1>7, <1>9, <1>11 DEF ExpectedHere
<1>13. RowNamed'
  BY <1>1, <1>9, <1>10, <1>11 DEF RowNamed, Claimed
<1>14. \A q \in Procs, b \in Addrs : ~(q = p /\ b = a) /\ sess'[q][b] # None =>
         sess'[q][b] = sess[q][b] /\ ~Leftover(q, b) /\ ~Leftover(q, b)'
  <2>1. SUFFICES ASSUME NEW q \in Procs, NEW b \in Addrs, ~(q = p /\ b = a), sess'[q][b] # None
                 PROVE  sess'[q][b] = sess[q][b] /\ ~Leftover(q, b) /\ ~Leftover(q, b)'
    OBVIOUS
  <2>2. sess'[q][b] = sess[q][b] /\ q # p
    BY <1>2, <1>6, <2>1
  <2> QED  BY <1>8, <2>2 DEF Leftover
<1>15. Departing'
  <2>1. SUFFICES ASSUME NEW q \in Procs, NEW b \in Addrs, sess'[q][b] # None
                 PROVE  /\ sess'[q][b].shuttingDown = 1 => (Leftover(q, b)' /\ q = Here')
                        /\ sess'[q][b].char # None /\ sess'[q][b].char.out = "zone" =>
                             (Leftover(q, b)' /\ sess'[q][b].char.dest = chars'.zone)
    BY DEF Departing
  <2>2. CASE q = p /\ b = a
    <3>1. sess'[q][b] = t(z)
      BY <1>6, <2>2
    <3>2. Leftover(q, b)'
      BY <1>4, <2>1, <3>1 DEF Leftover
    <3> QED  BY <1>4, <1>5, <3>1, <3>2
  <2>3. CASE ~(q = p /\ b = a)
    <3>1. sess'[q][b] = sess[q][b] /\ ~Leftover(q, b)
      BY <1>14, <2>1, <2>3
    <3> QED  BY <2>1, <3>1 DEF RowInv, Departing
  <2> QED  BY <2>2, <2>3
<1>16. LeftoversEnd'
  <2>1. SUFFICES ASSUME NEW q \in Procs, NEW b \in Addrs, Leftover(q, b)', q # Here'
                 PROVE  /\ Host[chars'.prev] = q
                        /\ \A d \in Addrs : (Expecting(Here, d) \/ Leftover(Here, d))' => KillOnTheWay(q)'
    BY DEF LeftoversEnd
  <2>2. q = p /\ b = a
    BY <1>14, <2>1 DEF Leftover
  <2>3. Host[chars'.prev] = q
    <3>1. z # c.zone
      BY <1>2, <1>5, <2>1, <2>2 DEF Here
    <3> QED  BY <1>2, <1>5, <2>2, <3>1 DEF Here
  <2>4. PICK h \in Procs : h = Host[z]
    BY Constants
  <2>5. \A d \in Addrs : ~Expecting(h, d)' /\ ~Leftover(h, d)'
    <3>1. h # p
      BY <1>5, <2>1, <2>2, <2>4
    <3> QED  BY <1>10, <1>14, <3>1 DEF Leftover
  <2>6. ASSUME NEW d \in Addrs PROVE ~(Expecting(Here, d) \/ Leftover(Here, d))'
    <3>1. (Expecting(Here, d))' <=> Expecting(h, d)'
      BY <1>5, <2>4 DEF Expecting, InZone
    <3>2. (Leftover(Here, d))' <=> Leftover(h, d)'
      BY <1>5, <2>4 DEF Leftover
    <3> QED  BY <2>5, <3>1, <3>2
  <2> QED  BY <2>3, <2>6
<1> QED  BY <1>12, <1>13, <1>15, <1>16 DEF RowInv

\* At first there is no session, and no message.
LEMMA InitRow == Init => RowInv
<1> SUFFICES ASSUME Init PROVE RowInv
  OBVIOUS
<1>1. /\ \A p \in Procs, a \in Addrs : sess[p][a] = None
      /\ \A p \in Procs : pending[p] = None /\ Posted(toMap[p]) = {}
      /\ \A s \in Procs \cup {LoginServer} : Posted(toWorld[s]) = {}
  BY NoPost DEF Init
<1>2. \A z \in Zones : ~OnTheWay(z)
  BY <1>1 DEF OnTheWay
<1>3. \A p \in Procs, a \in Addrs : ~Expecting(p, a) /\ ~Leftover(p, a)
  BY <1>1 DEF Expecting, Leftover, InZone
<1> QED  BY <1>1, <1>2, <1>3 DEF RowInv, ExpectedHere, RowNamed, Claimed, Departing, LeftoversEnd

\* An 0x00A, expected or late.
LEMMA LoginRow ==
  ASSUME Handover, RowInv, NEW p \in Procs, NEW a \in Addrs, Login(p, a)
  PROVE  RowInv'
<1>1. CASE LoginCreates(p, a)
  BY <1>1, LoginCreatesRow
<1>2. CASE LoginHandled(p, a)
  BY <1>2, AcceptedAgainRow, EnteredRow
<1>3. CASE LoginUnloadable(p, a)
  BY <1>3, UnloadableRow
<1> QED  BY <1>1, <1>2, <1>3 DEF Login

\* A datagram of the client that plays.
LEMMA ClientSendsRow ==
  ASSUME Handover, RowInv, ClientSends
  PROVE  RowInv'
<1> DEFINE p == client.proc
           a == client.addr
<1>1. p \in Procs /\ a \in Addrs /\ client.phase = "playing"
  BY DEF ClientSends, Handover, SessionTypeOK
<1> HIDE DEF p, a
<1>2. CASE PacketAnswered(p, a)
  BY <1>1, <1>2, PacketRow
<1>3. CASE SendZoneOut(p, a)
  BY <1>1, <1>3, SendZoneOutRow
<1>4. CASE SendLogOut(p, a)
  BY <1>1, <1>4, SendLogOutRow
<1>5. CASE SendZoneOutAgain(p, a)
  BY <1>1, <1>5, AgainRow
<1> QED  BY <1>2, <1>3, <1>4, <1>5 DEF ClientSends, p, a

\* Every step keeps the row.
LEMMA NextRow == Handover /\ RowInv /\ [Next]_vars => RowInv'
<1> SUFFICES ASSUME Handover, RowInv, [Next]_vars PROVE RowInv'
  OBVIOUS
<1>1. CASE Authenticate
  BY <1>1, AuthenticateRow
<1>2. CASE Vanish \/ Welcomed
  BY <1>2, VanishRow
<1>3. CASE ClientSendsLogin
  BY <1>3, LoginRow DEF ClientSendsLogin, Handover, SessionTypeOK
<1>4. CASE ClientSends
  BY <1>4, ClientSendsRow
<1>5. ASSUME NEW a \in Addrs, SelectCharacter(a) PROVE RowInv'
  BY <1>5, SelectCharacterRow
<1>6. ASSUME NEW p \in Procs, NEW a \in Addrs, LateLogin(p, a) PROVE RowInv'
  BY <1>6, LoginRow DEF LateLogin
<1>7. ASSUME NEW p \in Procs, NEW a \in Addrs, Play(p, a) \/ SaveChar(p, a) PROVE RowInv'
  BY <1>7, PlayRow
<1>8. ASSUME NEW p \in Procs, NEW a \in Addrs, ZoneOut(p, a) PROVE RowInv'
  BY <1>8, ZoneOutRow
<1>9. ASSUME NEW p \in Procs, NEW a \in Addrs, LogOut(p, a) PROVE RowInv'
  BY <1>9, LogOutRow
<1>10. ASSUME NEW p \in Procs, Crash(p) PROVE RowInv'
  BY <1>10, CrashRow
<1>11. CASE Cleanup
  BY <1>11, CleanupRow
<1>12. CASE Deliver
  BY <1>12, WorldHandlesRow, MapHandlesRow DEF Deliver
<1>13. CASE Tick
  BY <1>13, TickRow
<1>14. CASE UNCHANGED vars
  <2>1. sess' = sess /\ pending' = pending /\ row' = row /\ chars' = chars /\ toWorld' = toWorld /\ toMap' = toMap
    BY <1>14 DEF vars
  <2> QED  BY <2>1, NoneMoved, AsideStep DEF SavedAsBefore
<1> QED  BY <1>1, <1>2, <1>3, <1>4, <1>5, <1>6, <1>7, <1>8, <1>9, <1>10, <1>11, <1>12, <1>13, <1>14
         DEF Next

\* A client is expected only where the character is saved, and who counts on the
\* row finds it there, naming that process; what is left elsewhere of the
\* character is about to be closed (cleanupSessions, destroySession and the
\* handlers of KillSession and CharZone together).
THEOREM RowInvHolds == Spec => [](Handover /\ RowInv)
<1>1. Init => Handover /\ RowInv
  BY InitHandover, InitRow
<1>2. Handover /\ RowInv /\ [Next]_vars => (Handover /\ RowInv)'
  BY NextHandover, NextRow
<1> QED  BY <1>1, <1>2, PTL DEF Spec

\* The row of a character in a zone stands and names its process.
THEOREM RowStandsHolds == Spec => []RowStands
<1>1. Handover /\ RowInv => RowStands
  <2>1. SUFFICES ASSUME Handover, RowInv, NEW p \in Procs, NEW a \in Addrs, InZone(p, a)
                 PROVE  row # None /\ row.server = p
    BY DEF RowStands
  <2>2. Expecting(p, a) /\ p = Here
    BY <2>1, ExpectingIs DEF Expecting
  <2> QED  BY <2>1, <2>2 DEF RowInv, RowNamed, Claimed
<1> QED  BY <1>1, RowInvHolds, PTL

-----------------------------------------------------------------------------
(* The keys of the session and of its client.                             *)
\* A session t that has become of s understands whom s understood.
KeysKept(s, t) ==
  t # None => /\ s # None
              /\ \/ t.forced
                 \/ /\ t.forced = s.forced /\ t.key = s.key /\ t.old = s.old
                    /\ s.status = "PendingZone" => t.status = "PendingZone"

\* The client goes on playing, or plays no more; nothing comes late.
PlaysOn == /\ client' = client \/ client'.phase # "playing"
           /\ strays' = 0 => strays = 0

\* If every session understands whom it understood, so does the client's.
LEMMA UnderstoodStep ==
  ASSUME Handover, ClientIsUnderstood, PlaysOn,
         \A p \in Procs, a \in Addrs : KeysKept(sess[p][a], sess'[p][a])
  PROVE  ClientIsUnderstood'
<1> DEFINE p == client.proc
           a == client.addr
<1>1. p \in Procs /\ a \in Addrs
  BY DEF Handover, SessionTypeOK
<1>2. CASE client'.phase # "playing"
  BY <1>2 DEF ClientIsUnderstood
<1>3. CASE client' = client
  <2>1. KeysKept(sess[p][a], sess'[p][a]) /\ (strays' = 0 => strays = 0)
    BY <1>1 DEF PlaysOn
  <2> QED  BY <1>3, <2>1 DEF ClientIsUnderstood, KeysKept
<1> QED  BY <1>2, <1>3 DEF PlaysOn

\* One session is replaced by one that understands the same client.
LEMMA OneKept ==
  ASSUME Handover, ClientIsUnderstood, PlaysOn, NEW p \in Procs, NEW a \in Addrs, NEW t,
         sess' = [sess EXCEPT ![p][a] = t], KeysKept(sess[p][a], t)
  PROVE  ClientIsUnderstood'
<1>1. \A q \in Procs, b \in Addrs :
        sess'[q][b] = IF q = p /\ b = a THEN t ELSE sess[q][b]
  BY DEF Handover, SessionTypeOK
<1>2. \A s : KeysKept(s, s)
  BY DEF KeysKept
<1>3. \A q \in Procs, b \in Addrs : KeysKept(sess[q][b], sess'[q][b])
  BY <1>1, <1>2
<1> QED  BY <1>3, UnderstoodStep

\* No session changes.
LEMMA SameUnderstood ==
  ASSUME Handover, ClientIsUnderstood, PlaysOn, sess' = sess
  PROVE  ClientIsUnderstood'
<1>1. \A q \in Procs, b \in Addrs : KeysKept(sess[q][b], sess'[q][b])
  BY DEF KeysKept
<1> QED  BY <1>1, UnderstoodStep

\* The player comes and goes.
LEMMA PlayerUnderstood ==
  ASSUME Handover, ClientIsUnderstood,
         \/ Authenticate \/ Vanish \/ Welcomed \/ ClientSendsLogin
         \/ \E a \in Addrs : SelectCharacter(a)
         \/ \E p \in Procs, a \in Addrs : LateLogin(p, a)
  PROVE  ClientIsUnderstood'
<1>1. client \in [phase : {"off", "lobby", "entering", "playing"}, addr : Addrs,
                  proc : Procs, key : Keys \cup {Scrambled}]
      /\ strays \in Nat
  BY Constants DEF Handover, SessionTypeOK
<1>2. CASE \/ Authenticate \/ Vanish \/ \E a \in Addrs : SelectCharacter(a)
  <2>1. client'.phase # "playing"
    BY <1>1, <1>2 DEF Authenticate, Vanish, SelectCharacter
  <2> QED  BY <2>1 DEF ClientIsUnderstood
<1>3. CASE ClientSendsLogin
  <2>1. client'.phase # "playing"
    BY <1>3 DEF ClientSendsLogin
  <2> QED  BY <2>1 DEF ClientIsUnderstood
<1>4. CASE Welcomed
  <2>1. /\ sess' = sess /\ client'.proc = client.proc /\ client'.addr = client.addr
        /\ client'.key = client.key /\ sess[client.proc][client.addr].key = client.key
    BY <1>1, <1>4 DEF Welcomed
  <2> QED  BY <2>1 DEF ClientIsUnderstood
<1>5. ASSUME NEW p \in Procs, NEW a \in Addrs, LateLogin(p, a) PROVE ClientIsUnderstood'
  <2>1. strays' # 0
    BY <1>1, <1>5 DEF LateLogin
  <2> QED  BY <2>1 DEF ClientIsUnderstood
<1> QED  BY <1>2, <1>3, <1>4, <1>5

\* What the client sends is answered; where it is told to go elsewhere and does
\* not hear of it, its key is the one before.
LEMMA SendsUnderstood ==
  ASSUME Handover, ClientIsUnderstood, ClientSends
  PROVE  ClientIsUnderstood'
<1> DEFINE p == client.proc
           a == client.addr
           s == sess[p][a]
<1>1. /\ p \in Procs /\ a \in Addrs /\ strays' = strays
      /\ client \in [phase : {"off", "lobby", "entering", "playing"}, addr : Addrs,
                     proc : Procs, key : Keys \cup {Scrambled}]
  BY DEF ClientSends, Handover, SessionTypeOK
<1> HIDE DEF p, a
<1>2. \A q : Redirected(q) => PlaysOn
  BY <1>1 DEF Redirected, PlaysOn
<1>3. CASE PacketAnswered(p, a)
  <2> DEFINE n == IF s.status = "Accepted" /\ ~s.forced THEN 0 ELSE s.age
             t == [s EXCEPT !.decrypted = TRUE, !.age = n]
  <2>1. s # None /\ client' = client /\ sess' = [sess EXCEPT ![p][a] = t]
    BY <1>1, <1>3 DEF PacketAnswered, Handover, SessionTypeOK
  <2>2. s \in Session
    BY <1>1, <2>1, SessionIs
  <2> HIDE DEF n
  <2>3. t.forced = s.forced /\ t.key = s.key /\ t.old = s.old /\ t.status = s.status
    BY <2>2 DEF Session
  <2>4. KeysKept(s, t) /\ PlaysOn
    BY <1>1, <2>1, <2>3 DEF KeysKept, PlaysOn
  <2> HIDE DEF t
  <2> QED  BY <1>1, <2>1, <2>4, OneKept
<1>4. CASE SendZoneOut(p, a)
  <2> DEFINE next == Host[s.char.dest]
             u == [s EXCEPT !.status = "PendingZone", !.char = None, !.ipp = next]
             t == Rekeyed(u)
  <2>1. s # None /\ client.key = s.key /\ Redirected(next) /\ sess' = [sess EXCEPT ![p][a] = t]
    BY <1>4 DEF SendZoneOut
  <2>2. s \in Session
    BY <1>1, <2>1, SessionIs
  <2> HIDE DEF next
  <2>3. t.old = s.key /\ t.status = "PendingZone"
    <3>1. /\ u.status = "PendingZone" /\ u.key = s.key
          /\ u \in [DOMAIN u -> {u[x] : x \in DOMAIN u}]
          /\ DOMAIN u = DOMAIN s /\ {"status", "key", "old"} \subseteq DOMAIN s
      BY <2>2 DEF Session
    <3> HIDE DEF u
    <3> QED  BY <3>1 DEF Rekeyed
  <2> HIDE DEF t
  <2>4. sess'[p][a] = t
    BY <1>1, <2>1 DEF Handover, SessionTypeOK
  <2>5. CASE client' = client
    BY <2>1, <2>3, <2>4, <2>5 DEF ClientIsUnderstood, p, a
  <2>6. CASE client'.phase # "playing"
    BY <2>6 DEF ClientIsUnderstood
  <2> QED  BY <1>2, <2>1, <2>5, <2>6 DEF PlaysOn
<1>5. CASE SendLogOut(p, a)
  <2>1. /\ sess' = [sess EXCEPT ![p][a] = None]
        /\ client' = client \/ client' = [client EXCEPT !.phase = "lobby"]
    BY <1>5 DEF SendLogOut, Closed
  <2>2. PlaysOn /\ KeysKept(s, None)
    BY <1>1, <2>1 DEF PlaysOn, KeysKept
  <2> QED  BY <1>1, <2>1, <2>2, OneKept
<1>6. CASE SendZoneOutAgain(p, a)
  <2>1. sess' = sess /\ Redirected(s.ipp)
    BY <1>6 DEF SendZoneOutAgain
  <2> QED  BY <1>2, <2>1, SameUnderstood
<1> QED  BY <1>3, <1>4, <1>5, <1>6 DEF ClientSends, p, a

\* The character is played, leaves its zone, or is saved.
LEMMA ZoneUnderstood ==
  ASSUME Handover, ClientIsUnderstood, NEW p \in Procs, NEW a \in Addrs,
         Play(p, a) \/ SaveChar(p, a) \/ ZoneOut(p, a) \/ LogOut(p, a)
  PROVE  ClientIsUnderstood'
<1> DEFINE s == sess[p][a]
           c == s.char
<1>1. /\ s # None /\ s \in Session /\ c \in Character /\ c.zone \in Zones
      /\ client' = client /\ strays' = strays
  BY InZoneFacts DEF Play, SaveChar, ZoneOut, LogOut
<1>2. PlaysOn
  BY <1>1 DEF PlaysOn
<1>3. CASE SaveChar(p, a)
  <2>1. sess' = sess
    BY <1>3 DEF SaveChar
  <2> QED  BY <1>2, <2>1, SameUnderstood
<1>4. CASE Play(p, a)
  <2> DEFINE d == [c EXCEPT !.v = @ + 1]
             t == [s EXCEPT !.char = d]
  <2>1. sess' = [sess EXCEPT ![p][a] = t]
    BY <1>1, <1>4 DEF Play, Handover, SessionTypeOK, Session, Character
  <2> HIDE DEF d
  <2>2. t.forced = s.forced /\ t.key = s.key /\ t.old = s.old /\ t.status = s.status
    BY <1>1 DEF Session
  <2>3. KeysKept(s, t)
    BY <1>1, <2>2 DEF KeysKept
  <2> HIDE DEF t
  <2> QED  BY <1>2, <2>1, <2>3, OneKept
<1>5. CASE LogOut(p, a)
  <2> DEFINE d == [c EXCEPT !.zone = None, !.out = "logout"]
             t == [s EXCEPT !.status = "PendingZone", !.shuttingDown = 1, !.char = d]
  <2>1. sess' = [sess EXCEPT ![p][a] = t]
    BY <1>1, <1>5 DEF LogOut, Removed, Handover, SessionTypeOK, Session
  <2> HIDE DEF d
  <2>2. t.forced = s.forced /\ t.key = s.key /\ t.old = s.old /\ t.status = "PendingZone"
    BY <1>1 DEF Session
  <2>3. KeysKept(s, t)
    BY <1>1, <2>2 DEF KeysKept
  <2> HIDE DEF t
  <2> QED  BY <1>2, <2>1, <2>3, OneKept
<1>6. CASE ZoneOut(p, a)
  <2>1. PICK z \in Zones : sess' = [sess EXCEPT ![p][a] = ZonedOut(s, z, c.zone)]
    BY <1>6 DEF ZoneOut, ZonedOut
  <2> DEFINE t == ZonedOut(s, z, c.zone)
             d == [c EXCEPT !.dest = z, !.prev = c.zone]
             e == [d EXCEPT !.zone = None, !.out = "zone"]
             s1 == [s EXCEPT !.char = d]
  <2>2. s1 = [s EXCEPT !.char.dest = z, !.char.prev = c.zone] /\ d \in Character
    BY <1>1 DEF Session, Character
  <2> HIDE DEF d
  <2>3. s1 \in Session /\ s1.char = d /\ s1.forced = s.forced /\ s1.key = s.key /\ s1.old = s.old
    BY <1>1, <2>2 DEF Session
  <2>4. t = [s1 EXCEPT !.status = "PendingZone", !.shuttingDown = 2, !.char = e]
    BY <2>2, <2>3 DEF ZonedOut, Removed
  <2> HIDE DEF e, s1, t
  <2>5. t.forced = s.forced /\ t.key = s.key /\ t.old = s.old /\ t.status = "PendingZone"
    BY <2>3, <2>4 DEF Session
  <2>6. KeysKept(s, t)
    BY <1>1, <2>5 DEF KeysKept
  <2>7. sess' = [sess EXCEPT ![p][a] = t]
    BY <2>1 DEF t
  <2> QED  BY <1>2, <2>6, <2>7, OneKept
<1> QED  BY <1>3, <1>4, <1>5, <1>6

\* Time passes, sessions are cleaned up, and processes crash.
LEMMA TimeUnderstood ==
  ASSUME Handover, ClientIsUnderstood, Cleanup \/ Tick \/ \E p \in Procs : Crash(p)
  PROVE  ClientIsUnderstood'
<1>1. PlaysOn
  BY DEF Cleanup, PendingTimesOut, SessionTimesOut, Tick, Crash, PlaysOn
<1>2. ASSUME NEW p \in Procs, NEW a \in Addrs, SessionTimesOut(p, a) PROVE ClientIsUnderstood'
  <2>1. sess' = [sess EXCEPT ![p][a] = None] /\ KeysKept(sess[p][a], None)
    BY <1>2 DEF SessionTimesOut, KeysKept
  <2> QED  BY <1>1, <2>1, OneKept
<1>3. ASSUME NEW p \in Procs, PendingTimesOut(p) PROVE ClientIsUnderstood'
  BY <1>1, <1>3, SameUnderstood DEF PendingTimesOut
<1>4. CASE Tick
  <2> DEFINE t(p, a) == [sess[p][a] EXCEPT !.age = 1]
  <2>1. sess' = [p \in Procs |-> [a \in Addrs |-> IF sess[p][a] = None THEN None ELSE t(p, a)]]
    BY <1>4 DEF Tick
  <2>2. ASSUME NEW p \in Procs, NEW a \in Addrs PROVE KeysKept(sess[p][a], sess'[p][a])
    <3>1. sess'[p][a] = IF sess[p][a] = None THEN None ELSE t(p, a)
      BY <2>1
    <3>2. CASE sess[p][a] = None
      BY <3>1, <3>2 DEF KeysKept
    <3>3. CASE sess[p][a] # None
      <4>1. sess[p][a] \in Session
        BY <3>3, SessionIs
      <4>2. /\ t(p, a).status = sess[p][a].status /\ t(p, a).forced = sess[p][a].forced
            /\ t(p, a).key = sess[p][a].key /\ t(p, a).old = sess[p][a].old
        BY <4>1 DEF Session
      <4> QED  BY <3>1, <3>3, <4>2 DEF KeysKept
    <3> QED  BY <3>2, <3>3
  <2> QED  BY <1>1, <2>2, UnderstoodStep
<1>5. ASSUME NEW p \in Procs, Crash(p) PROVE ClientIsUnderstood'
  <2>1. sess' = [sess EXCEPT ![p] = [a \in Addrs |-> None]]
    BY <1>5 DEF Crash
  <2>2. \A q \in Procs, b \in Addrs : sess'[q][b] = IF q = p THEN None ELSE sess[q][b]
    BY <2>1 DEF Handover, SessionTypeOK
  <2>3. \A q \in Procs, b \in Addrs : KeysKept(sess[q][b], sess'[q][b])
    BY <2>2 DEF KeysKept
  <2> QED  BY <1>1, <2>3, UnderstoodStep
<1> QED  BY <1>2, <1>3, <1>4, <1>5 DEF Cleanup

\* Messages keep sessions alive, close them, or make them deaf for good.
LEMMA DeliverUnderstood ==
  ASSUME Handover, ClientIsUnderstood, Deliver
  PROVE  ClientIsUnderstood'
<1>1. PlaysOn
  BY DEF Deliver, WorldHandles, MapHandles, PlaysOn
<1>2. ASSUME NEW s \in Procs \cup {LoginServer}, WorldHandles(s) PROVE ClientIsUnderstood'
  BY <1>1, <1>2, SameUnderstood DEF WorldHandles
<1>3. ASSUME NEW p \in Procs, MapHandles(p) PROVE ClientIsUnderstood'
  <2>1. Head(toMap[p]) \in Message
    BY <1>3, Queues, PostIs DEF MapHandles
  <2>2. HandleCharZone(p) \/ HandleKillSession(p) \/ HandleAccountLogin(p)
    BY <1>3, <2>1 DEF MapHandles, Message
  <2>3. CASE sess' = sess
    BY <1>1, <2>3, SameUnderstood
  <2>4. CASE HandleCharZone(p) /\ sess' # sess
    <3> DEFINE n(a) == IF sess[p][a].forced THEN sess[p][a].age ELSE 0
               t(a) == [sess[p][a] EXCEPT !.age = n(a)]
    <3>1. PICK a \in Known(p) : sess' = [sess EXCEPT ![p][a] = t(a)]
      BY <2>4 DEF HandleCharZone, Known, Handover, SessionTypeOK, Session
    <3>2. a \in Addrs /\ sess[p][a] # None /\ sess[p][a] \in Session
      BY <3>1, SessionIs DEF Known
    <3> HIDE DEF n
    <3>3. /\ t(a).status = sess[p][a].status /\ t(a).forced = sess[p][a].forced
          /\ t(a).key = sess[p][a].key /\ t(a).old = sess[p][a].old
      BY <3>2 DEF Session
    <3>4. KeysKept(sess[p][a], t(a))
      BY <3>2, <3>3 DEF KeysKept
    <3> HIDE DEF t
    <3> QED  BY <1>1, <3>1, <3>2, <3>4, OneKept
  <2>5. CASE HandleKillSession(p) /\ sess' # sess
    <3>1. PICK a \in Known(p) : sess' = [sess EXCEPT ![p][a] = None]
      BY <2>5 DEF HandleKillSession
    <3>2. a \in Addrs /\ KeysKept(sess[p][a], None)
      BY <3>1 DEF Known, KeysKept
    <3> QED  BY <1>1, <3>1, <3>2, OneKept
  <2>6. CASE HandleAccountLogin(p) /\ sess' # sess
    <3> DEFINE t(a) == [sess[p][a] EXCEPT !.forced = TRUE, !.key = Scrambled, !.old = Scrambled]
    <3>1. PICK a \in Known(p) : sess' = [sess EXCEPT ![p][a] = t(a)]
      BY <2>6 DEF HandleAccountLogin
    <3>2. a \in Addrs /\ sess[p][a] # None /\ sess[p][a] \in Session
      BY <3>1, SessionIs DEF Known
    <3>3. t(a).forced
      BY <3>2 DEF Session
    <3>4. KeysKept(sess[p][a], t(a))
      BY <3>2, <3>3 DEF KeysKept
    <3> HIDE DEF t
    <3> QED  BY <1>1, <3>1, <3>2, <3>4, OneKept
  <2> QED  BY <2>2, <2>3, <2>4, <2>5, <2>6
<1> QED  BY <1>2, <1>3 DEF Deliver

\* Every step leaves the client understood.
LEMMA NextUnderstood == Handover /\ ClientIsUnderstood /\ [Next]_vars => ClientIsUnderstood'
<1> SUFFICES ASSUME Handover, ClientIsUnderstood, [Next]_vars PROVE ClientIsUnderstood'
  OBVIOUS
<1>1. CASE \/ Authenticate \/ Vanish \/ Welcomed \/ ClientSendsLogin
           \/ \E a \in Addrs : SelectCharacter(a)
           \/ \E p \in Procs, a \in Addrs : LateLogin(p, a)
  BY <1>1, PlayerUnderstood
<1>2. CASE ClientSends
  BY <1>2, SendsUnderstood
<1>3. ASSUME NEW p \in Procs, NEW a \in Addrs,
             Play(p, a) \/ SaveChar(p, a) \/ ZoneOut(p, a) \/ LogOut(p, a)
      PROVE  ClientIsUnderstood'
  BY <1>3, ZoneUnderstood
<1>4. CASE Cleanup \/ Tick \/ \E p \in Procs : Crash(p)
  BY <1>4, TimeUnderstood
<1>5. CASE Deliver
  BY <1>5, DeliverUnderstood
<1>6. CASE UNCHANGED vars
  <2>1. PlaysOn /\ sess' = sess
    BY <1>6 DEF vars, PlaysOn
  <2> QED  BY <2>1, SameUnderstood
<1> QED  BY <1>1, <1>2, <1>3, <1>4, <1>5, <1>6 DEF Next

\* A client that plays is understood by its session, with the current key or with
\* the one before (incrementBlowfish, and the previous key that recv_parse
\* tries), unless the account has logged in again or a late 0x00A was taken for it.
THEOREM ClientIsUnderstoodHolds == Spec => []ClientIsUnderstood
<1>1. Init => ClientIsUnderstood
  BY DEF Init, ClientIsUnderstood
<1>2. Init => Handover /\ ClientIsUnderstood
  BY <1>1, InitHandover
<1>3. Handover /\ ClientIsUnderstood /\ [Next]_vars => (Handover /\ ClientIsUnderstood)'
  BY NextHandover, NextUnderstood
<1> QED  BY <1>2, <1>3, PTL DEF Spec

-----------------------------------------------------------------------------
(* Old copies of the character, and what they are saved over.              *)
\* The row names process p, and has seen its client there.
Keeps(p) == row # None /\ row.server = p /\ row.seen

\* Accepted, but in no zone: the zone of the character runs elsewhere.
Stuck(p, a) == sess[p][a] # None /\ sess[p][a].status = "Accepted" /\ ~InZone(p, a)

\* The character has left its zone; the client is not told where to go yet.
Departed(p, a) == Leftover(p, a) /\ sess[p][a].char # None

\* The one session that can go on.
Solo(p, a) == Departed(p, a) \/ (Stuck(p, a) /\ Keeps(p))

\* A copy nobody counts on.
Loose(p, a) == Stuck(p, a) /\ ~Keeps(p)

Announced == (\E p \in Procs : pending[p] # None) \/ (\E z \in Zones : OnTheWay(z))

\* What waits may enter; what is accepted, or logs out, has a character, which is
\* not to be told where to go; the row of who is in a zone has seen the client.
StatusKnown ==
  \A p \in Procs, a \in Addrs : sess[p][a] # None =>
    /\ sess[p][a].status = "Waiting" => Expecting(p, a)
    /\ sess[p][a].status = "Accepted" => sess[p][a].char # None
    /\ sess[p][a].shuttingDown = 1 => sess[p][a].char # None /\ sess[p][a].char.out # "zone"
    /\ InZone(p, a) => Keeps(p)

\* Who has left and not been told, or is stuck with the row, is in the way of
\* everybody else.
SoloAlone ==
  \A p \in Procs, a \in Addrs : Solo(p, a) =>
    /\ Keeps(p) /\ ~Announced
    /\ \A q \in Procs, b \in Addrs :
         (q # p \/ b # a) /\ sess[q][b] # None => Stuck(q, b)

\* The row has moved on from a session whose client was told; it was told the
\* process that is saved.
ToldGone ==
  \A p \in Procs, a \in Addrs : sess[p][a] # None =>
    /\ Leftover(p, a) /\ sess[p][a].char = None /\ p # Here => ~Keeps(p)
    /\ sess[p][a].ipp # None => Leftover(p, a) /\ sess[p][a].ipp = Here

\* Elsewhere than where it is saved, the client finds no session to load it from.
EntersHere ==
  LET s == sess[client.proc][client.addr]
  IN  client.phase = "entering" /\ client.proc # Here /\ s # None => s.char # None

\* While at most one 0x00A has come late: who may play is not behind what is
\* saved, and the one loose copy is behind everything.
Ages2 ==
  strays <= 1 =>
    /\ \A p \in Procs, a \in Addrs : Expecting(p, a) => chars.v <= sess[p][a].char.v
    /\ \A p \in Procs, a \in Addrs : Loose(p, a) =>
         /\ strays = 1 /\ sess[p][a].char.v <= chars.v
         /\ \A q \in Procs, b \in Addrs : sess[q][b] # None /\ sess[q][b].char # None =>
              sess[p][a].char.v <= sess[q][b].char.v
         /\ \A q \in Procs, b \in Addrs : Loose(q, b) => q = p /\ b = a

AgeInv == StatusKnown /\ SoloAlone /\ ToldGone /\ EntersHere /\ Ages2

\* Nothing of a session that the invariant is about but that it may be gone, or
\* its character played.
Kept(s, t) ==
  t # None =>
    /\ s # None /\ t.status = s.status /\ t.shuttingDown = s.shuttingDown
    /\ t.ipp = s.ipp \/ t.ipp = None
    /\ t.char = None <=> s.char = None
    /\ s.char # None =>
         /\ t.char.zone = s.char.zone /\ t.char.dest = s.char.dest /\ t.char.out = s.char.out
         /\ s.char.v <= t.char.v
         /\ s.char.zone = None => t.char.v = s.char.v

\* What is saved is left alone, or it is what a session has: that of a character
\* in a zone, or one that is closed.
Saves ==
  \/ chars'.v = chars.v
  \/ \E p \in Procs, a \in Addrs :
       /\ sess[p][a] # None /\ sess[p][a].char # None /\ chars'.v = sess[p][a].char.v
       /\ InZone(p, a) \/ sess'[p][a] = None

\* Nobody gains or loses the row but whose session is closed.
RowKept == \A p \in Procs, a \in Addrs : sess'[p][a] # None => (Keeps(p)' <=> Keeps(p))

\* The client goes elsewhere only where it is expected.
ClientKept == \/ client' = client \/ client'.phase # "entering" \/ client'.proc = Here

-----------------------------------------------------------------------------
\* Versions are numbers.
LEMMA VersionsAre ==
  ASSUME Handover
  PROVE  /\ chars.v \in Int /\ strays \in Nat
         /\ \A p \in Procs, a \in Addrs : sess[p][a] # None /\ sess[p][a].char # None =>
              sess[p][a].char.v \in Int
<1>1. chars.v \in Int /\ strays \in Nat
  BY Constants DEF Handover, SessionTypeOK
<1>2. ASSUME NEW p \in Procs, NEW a \in Addrs, sess[p][a] # None, sess[p][a].char # None
      PROVE  sess[p][a].char.v \in Int
  <2>1. sess[p][a].char \in Character
    BY <1>2, SessionIs DEF Session
  <2> QED  BY <2>1, Constants DEF Character
<1> QED  BY <1>1, <1>2

\* What a session that has been kept has been before.
LEMMA KeptIs ==
  ASSUME NEW p \in Procs, NEW a \in Addrs, Kept(sess[p][a], sess'[p][a]), sess'[p][a] # None
  PROVE  /\ sess[p][a] # None
         /\ InZone(p, a)' <=> InZone(p, a)
         /\ Leftover(p, a)' <=> Leftover(p, a)
         /\ Departed(p, a)' <=> Departed(p, a)
         /\ Stuck(p, a)' <=> Stuck(p, a)
         /\ sess[p][a].char # None => (Expecting(p, a)' <=> Expecting(p, a))
<1>1. /\ sess[p][a] # None /\ sess'[p][a].status = sess[p][a].status
      /\ sess'[p][a].char = None <=> sess[p][a].char = None
      /\ sess[p][a].char # None => /\ sess'[p][a].char.zone = sess[p][a].char.zone
                                   /\ sess'[p][a].char.dest = sess[p][a].char.dest
  BY DEF Kept
<1>2. InZone(p, a)' <=> InZone(p, a)
  BY <1>1 DEF InZone
<1>3. Leftover(p, a)' <=> Leftover(p, a)
  BY <1>1 DEF Leftover
<1>4. Departed(p, a)' <=> Departed(p, a)
  BY <1>1, <1>3 DEF Departed
<1>5. Stuck(p, a)' <=> Stuck(p, a)
  BY <1>1, <1>2 DEF Stuck
<1>6. sess[p][a].char # None => (Expecting(p, a)' <=> Expecting(p, a))
  BY <1>1, <1>2 DEF Expecting
<1> QED  BY <1>1, <1>2, <1>3, <1>4, <1>5, <1>6

\* Whoever may play has a character.
LEMMA ExpectingHas ==
  ASSUME Handover, NEW p \in Procs, NEW a \in Addrs, Expecting(p, a)
  PROVE  sess[p][a] # None /\ sess[p][a].char # None
<1>1. CASE InZone(p, a)
  BY <1>1 DEF InZone
<1>2. CASE ~InZone(p, a)
  <2>1. sess[p][a] # None /\ sess[p][a].status = "Waiting"
    BY <1>2 DEF Expecting
  <2>2. sess[p][a].char \in Character
    BY <2>1, SessionIs DEF SessionOK
  <2> QED  BY <2>1, <2>2, NoneAssumption
<1> QED  BY <1>1, <1>2

-----------------------------------------------------------------------------
\* Sessions that have been kept, and a row nobody gains or loses, are in nobody's
\* way that they have not been in before.
LEMMA KeptAlone ==
  ASSUME Handover, AgeInv,
         \A p \in Procs, a \in Addrs : Kept(sess[p][a], sess'[p][a]), RowKept,
         Announced' => Announced \/ \A p \in Procs : ~Keeps(p)
  PROVE  SoloAlone'
<1>1. ASSUME NEW p \in Procs, NEW a \in Addrs, Solo(p, a)' PROVE Solo(p, a) /\ Keeps(p)'
  <2>1. sess'[p][a] # None
    BY <1>1 DEF Solo, Departed, Leftover, Stuck
  <2>2. Kept(sess[p][a], sess'[p][a]) /\ (Keeps(p)' <=> Keeps(p))
    BY <2>1 DEF RowKept
  <2>3. Solo(p, a)
    BY <1>1, <2>1, <2>2, KeptIs DEF Solo
  <2> QED  BY <2>2, <2>3 DEF AgeInv, SoloAlone
<1>2. SUFFICES ASSUME NEW p \in Procs, NEW a \in Addrs, Solo(p, a)'
               PROVE  /\ Keeps(p)' /\ ~Announced'
                      /\ \A q \in Procs, b \in Addrs :
                           (q # p \/ b # a) /\ sess'[q][b] # None => Stuck(q, b)'
  BY DEF SoloAlone
<1>3. /\ Solo(p, a) /\ Keeps(p) /\ ~Announced
      /\ \A q \in Procs, b \in Addrs : (q # p \/ b # a) /\ sess[q][b] # None => Stuck(q, b)
  BY <1>1, <1>2 DEF AgeInv, SoloAlone
<1>4. ASSUME NEW q \in Procs, NEW b \in Addrs, q # p \/ b # a, sess'[q][b] # None
      PROVE  Stuck(q, b)'
  <2>1. Kept(sess[q][b], sess'[q][b])
    OBVIOUS
  <2> QED  BY <1>3, <1>4, <2>1, KeptIs
<1> QED  BY <1>1, <1>2, <1>3, <1>4

\* Sessions that have been kept stay sound, and so does what clients were told.
LEMMA KeptKnown ==
  ASSUME Handover, AgeInv, chars'.zone = chars.zone,
         \A p \in Procs, a \in Addrs : Kept(sess[p][a], sess'[p][a]), RowKept, ClientKept
  PROVE  StatusKnown' /\ ToldGone' /\ EntersHere'
<1>1. Here' = Here
  BY DEF Here
<1>2. StatusKnown'
  <2>1. SUFFICES ASSUME NEW p \in Procs, NEW a \in Addrs, sess'[p][a] # None
                 PROVE  /\ sess'[p][a].status = "Waiting" => Expecting(p, a)'
                        /\ sess'[p][a].status = "Accepted" => sess'[p][a].char # None
                        /\ sess'[p][a].shuttingDown = 1 => sess'[p][a].char # None /\ sess'[p][a].char.out # "zone"
                        /\ InZone(p, a)' => Keeps(p)'
    BY DEF StatusKnown
  <2>2. Kept(sess[p][a], sess'[p][a])
    OBVIOUS
  <2>3. /\ sess[p][a] # None /\ sess'[p][a].status = sess[p][a].status
        /\ sess'[p][a].shuttingDown = sess[p][a].shuttingDown
        /\ sess'[p][a].char = None <=> sess[p][a].char = None
        /\ sess[p][a].char # None => sess'[p][a].char.out = sess[p][a].char.out
    BY <2>1, <2>2 DEF Kept
  <2>4. /\ sess[p][a].status = "Waiting" => Expecting(p, a)
        /\ sess[p][a].status = "Accepted" => sess[p][a].char # None
        /\ sess[p][a].shuttingDown = 1 => sess[p][a].char # None /\ sess[p][a].char.out # "zone"
        /\ InZone(p, a) => Keeps(p)
    BY <2>3 DEF AgeInv, StatusKnown
  <2>5. /\ InZone(p, a)' <=> InZone(p, a)
        /\ sess[p][a].char # None => (Expecting(p, a)' <=> Expecting(p, a))
    BY <2>1, <2>2, KeptIs
  <2>6. Keeps(p)' <=> Keeps(p)
    BY <2>1 DEF RowKept
  <2> QED  BY <2>3, <2>4, <2>5, <2>6, ExpectingHas
<1>3. ToldGone'
  <2>1. SUFFICES ASSUME NEW p \in Procs, NEW a \in Addrs, sess'[p][a] # None
                 PROVE  /\ Leftover(p, a)' /\ sess'[p][a].char = None /\ p # Here => ~Keeps(p)'
                        /\ sess'[p][a].ipp # None => Leftover(p, a)' /\ sess'[p][a].ipp = Here
    BY <1>1 DEF ToldGone
  <2>2. Kept(sess[p][a], sess'[p][a]) /\ (Keeps(p)' <=> Keeps(p))
    BY <2>1 DEF RowKept
  <2>3. /\ sess[p][a] # None /\ (sess'[p][a].ipp = sess[p][a].ipp \/ sess'[p][a].ipp = None)
        /\ sess'[p][a].char = None <=> sess[p][a].char = None
        /\ Leftover(p, a)' <=> Leftover(p, a)
    BY <2>1, <2>2, KeptIs DEF Kept
  <2> QED  BY <2>2, <2>3 DEF AgeInv, ToldGone
<1>4. EntersHere'
  <2> DEFINE p == client.proc
             a == client.addr
  <2>1. p \in Procs /\ a \in Addrs
    BY DEF Handover, SessionTypeOK
  <2>2. CASE client' = client
    <3>1. Kept(sess[p][a], sess'[p][a])
      BY <2>1
    <3> QED  BY <1>1, <2>2, <3>1 DEF AgeInv, EntersHere, Kept
  <2>3. CASE client'.phase # "entering" \/ client'.proc = Here
    BY <1>1, <2>3 DEF EntersHere
  <2> QED  BY <2>2, <2>3 DEF ClientKept
<1> QED  BY <1>2, <1>3, <1>4

\* Only a character in a zone, or a copy that is closed, is saved: what is left
\* is behind neither, and the loose copy ahead of neither.
LEMMA KeptAges ==
  ASSUME Handover, Handover', AgeInv, strays' \in Nat, strays <= strays',
         \A p \in Procs, a \in Addrs : Kept(sess[p][a], sess'[p][a]), RowKept, Saves
  PROVE  Ages2'
<1> SUFFICES ASSUME strays' <= 1 
             PROVE  /\ \A p \in Procs, a \in Addrs : Expecting(p, a)' => chars'.v <= sess'[p][a].char.v
                    /\ \A p \in Procs, a \in Addrs : Loose(p, a)' =>
                         /\ strays' = 1 /\ sess'[p][a].char.v <= chars'.v
                         /\ \A q \in Procs, b \in Addrs : sess'[q][b] # None /\ sess'[q][b].char # None =>
                              sess'[p][a].char.v <= sess'[q][b].char.v
                         /\ \A q \in Procs, b \in Addrs : Loose(q, b)' => q = p /\ b = a
  BY DEF Ages2
<1>1. /\ strays <= 1 /\ strays \in Nat /\ chars.v \in Int
      /\ \A p \in Procs, a \in Addrs : Expecting(p, a) => chars.v <= sess[p][a].char.v
      /\ \A p \in Procs, a \in Addrs : Loose(p, a) =>
           /\ strays = 1 /\ sess[p][a].char.v <= chars.v
           /\ \A q \in Procs, b \in Addrs : sess[q][b] # None /\ sess[q][b].char # None =>
                sess[p][a].char.v <= sess[q][b].char.v
           /\ \A q \in Procs, b \in Addrs : Loose(q, b) => q = p /\ b = a
  BY VersionsAre DEF AgeInv, Ages2
<1>2. ASSUME NEW p \in Procs, NEW a \in Addrs, sess'[p][a] # None, sess'[p][a].char # None
      PROVE  /\ sess[p][a] # None /\ sess[p][a].char # None
             /\ sess[p][a].char.v \in Int /\ sess'[p][a].char.v \in Int
             /\ sess[p][a].char.v <= sess'[p][a].char.v
             /\ ~InZone(p, a) => sess'[p][a].char.v = sess[p][a].char.v
             /\ Expecting(p, a)' <=> Expecting(p, a)
             /\ Stuck(p, a)' <=> Stuck(p, a)
  <2>1. Kept(sess[p][a], sess'[p][a])
    OBVIOUS
  <2>2. /\ sess[p][a] # None /\ sess[p][a].char # None
        /\ Expecting(p, a)' <=> Expecting(p, a)
        /\ Stuck(p, a)' <=> Stuck(p, a)
    BY <1>2, <2>1, KeptIs DEF Kept
  <2>3. sess[p][a].char.v \in Int
    BY <2>2, VersionsAre
  <2>4. sess'[p][a].char.v \in Int
    <3>1. sess'[p][a] \in Session
      BY <1>2 DEF Handover, SessionTypeOK
    <3>2. sess'[p][a].char \in Character
      BY <1>2, <3>1 DEF Session
    <3> QED  BY <3>2, Constants DEF Character
  <2> QED  BY <1>2, <2>4, <2>1, <2>2, <2>3 DEF Kept, InZone
<1>3. ASSUME NEW p \in Procs, NEW a \in Addrs, Loose(p, a)'
      PROVE  /\ sess'[p][a] # None /\ sess'[p][a].char # None /\ Loose(p, a)
             /\ sess'[p][a].char.v = sess[p][a].char.v
  <2>1. sess'[p][a] # None
    BY <1>3 DEF Loose, Stuck
  <2>2. Kept(sess[p][a], sess'[p][a]) /\ (Keeps(p)' <=> Keeps(p))
    BY <2>1 DEF RowKept
  <2>3. Stuck(p, a) /\ sess[p][a].char # None
    <3>1. Stuck(p, a)
      BY <1>3, <2>1, <2>2, KeptIs DEF Loose
    <3> QED  BY <3>1 DEF Stuck, AgeInv, StatusKnown
  <2>4. sess'[p][a].char # None
    BY <2>1, <2>2, <2>3 DEF Kept
  <2> QED  BY <1>2, <1>3, <2>1, <2>2, <2>3, <2>4 DEF Loose, Stuck
<1>4. ASSUME NEW p \in Procs, NEW a \in Addrs, Expecting(p, a)'
      PROVE  /\ sess'[p][a] # None /\ sess'[p][a].char # None /\ Expecting(p, a) /\ p = Here
             /\ sess[p][a].char.v \in Int /\ sess'[p][a].char.v \in Int
             /\ sess[p][a].char.v <= sess'[p][a].char.v
  <2>1. sess'[p][a] # None
    BY <1>4 DEF Expecting, InZone
  <2>2. Kept(sess[p][a], sess'[p][a])
    OBVIOUS
  <2>3. sess'[p][a].char # None
    <3>1. sess[p][a] # None /\ sess'[p][a].status = sess[p][a].status /\ (InZone(p, a)' <=> InZone(p, a))
          /\ (sess'[p][a].char = None <=> sess[p][a].char = None)
      BY <2>1, <2>2, KeptIs DEF Kept
    <3>2. CASE sess'[p][a].status = "Waiting"
      BY <3>1, <3>2, ExpectingHas DEF AgeInv, StatusKnown
    <3>3. CASE sess'[p][a].status # "Waiting"
      BY <1>4, <3>1, <3>3 DEF Expecting, InZone
    <3> QED  BY <3>2, <3>3
  <2> QED  BY <1>2, <1>4, <2>1, <2>3, ExpectingIs
<1>5. ASSUME NEW p \in Procs, NEW a \in Addrs, Loose(p, a)'
      PROVE  /\ strays' = 1
             /\ \A q \in Procs, b \in Addrs : sess'[q][b] # None /\ sess'[q][b].char # None =>
                  sess'[p][a].char.v <= sess'[q][b].char.v
             /\ \A q \in Procs, b \in Addrs : Loose(q, b)' => q = p /\ b = a
  <2>1. /\ sess'[p][a] # None /\ sess'[p][a].char # None /\ Loose(p, a)
        /\ sess'[p][a].char.v = sess[p][a].char.v
    BY <1>3, <1>5
  <2>2. sess[p][a].char.v \in Int /\ strays' = 1
    BY <1>1, <1>2, <2>1
  <2>3. ASSUME NEW q \in Procs, NEW b \in Addrs, sess'[q][b] # None, sess'[q][b].char # None
        PROVE  sess'[p][a].char.v <= sess'[q][b].char.v
    <3>1. /\ sess[q][b] # None /\ sess[q][b].char # None /\ sess[q][b].char.v \in Int
          /\ sess'[q][b].char.v \in Int /\ sess[q][b].char.v <= sess'[q][b].char.v
      BY <1>2, <2>3
    <3>2. sess[p][a].char.v <= sess[q][b].char.v
      BY <1>1, <2>1, <3>1
    <3> QED  BY <2>1, <2>2, <3>1, <3>2
  <2>4. \A q \in Procs, b \in Addrs : Loose(q, b)' => q = p /\ b = a
    BY <1>1, <1>3, <2>1
  <2> QED  BY <2>2, <2>3, <2>4
<1>6. CASE chars'.v = chars.v
  <2>1. ASSUME NEW p \in Procs, NEW a \in Addrs, Expecting(p, a)'
        PROVE  chars'.v <= sess'[p][a].char.v
    BY <1>1, <1>4, <1>6, <2>1
  <2>2. ASSUME NEW p \in Procs, NEW a \in Addrs, Loose(p, a)'
        PROVE  sess'[p][a].char.v <= chars'.v
    BY <1>1, <1>3, <1>6, <2>2
  <2> QED  BY <1>5, <2>1, <2>2
<1>7. ASSUME NEW p \in Procs, NEW a \in Addrs, sess[p][a] # None, sess[p][a].char # None,
             chars'.v = sess[p][a].char.v, InZone(p, a) \/ sess'[p][a] = None
      PROVE  /\ \A q \in Procs, b \in Addrs : Expecting(q, b)' => chars'.v <= sess'[q][b].char.v
             /\ \A q \in Procs, b \in Addrs : Loose(q, b)' => sess'[q][b].char.v <= chars'.v
  <2>1. chars'.v \in Int
    BY <1>7, VersionsAre
  <2>2. ASSUME NEW q \in Procs, NEW b \in Addrs, Loose(q, b)' PROVE sess'[q][b].char.v <= chars'.v
    BY <1>1, <1>3, <1>7, <2>2
  <2>3. ASSUME NEW q \in Procs, NEW b \in Addrs, Expecting(q, b)' PROVE chars'.v <= sess'[q][b].char.v
    <3>1. /\ Expecting(q, b) /\ q = Here /\ sess[q][b] # None /\ sess'[q][b] # None
          /\ sess[q][b].char.v \in Int /\ sess'[q][b].char.v \in Int
          /\ sess[q][b].char.v <= sess'[q][b].char.v
      BY <1>4, <2>3, ExpectingHas
    <3>2. CASE q = p /\ b = a
      BY <1>7, <3>1, <3>2
    <3>3. CASE ~(q = p /\ b = a)
      <4>1. ~Expecting(p, a)
        BY <1>7, <3>1, <3>3, ExpectingIs DEF Handover, OnePerProcess
      <4>2. ~Departed(p, a) /\ ~Solo(p, a)
        <5>1. ~Stuck(q, b)
          BY <3>1 DEF Stuck, Expecting
        <5> QED  BY <3>1, <3>3, <5>1 DEF AgeInv, SoloAlone, Solo
      <4>3. Loose(p, a)
        <5>1. sess[p][a].status \in {"Waiting", "Accepted", "PendingZone"}
          BY <1>7, SessionIs DEF Session
        <5>2. sess[p][a].status # "Waiting" /\ ~InZone(p, a)
          BY <1>7, <4>1 DEF AgeInv, StatusKnown, Expecting
        <5> QED  BY <1>7, <4>2, <5>1, <5>2 DEF Departed, Solo, Leftover, Stuck, Loose
      <4>4. sess[p][a].char.v <= sess[q][b].char.v
        BY <1>1, <3>1, <4>3, ExpectingHas
      <4> QED  BY <1>7, <2>1, <3>1, <4>4
    <3> QED  BY <3>2, <3>3
  <2> QED  BY <2>2, <2>3
<1>8. CASE chars'.v # chars.v
  <2>1. PICK p \in Procs, a \in Addrs :
          /\ sess[p][a] # None /\ sess[p][a].char # None /\ chars'.v = sess[p][a].char.v
          /\ InZone(p, a) \/ sess'[p][a] = None
    BY <1>8 DEF Saves
  <2> QED  BY <1>5, <1>7, <2>1
<1> QED  BY <1>6, <1>8

\* A step that keeps sessions and row, and saves what a session has.
LEMMA KeptStep ==
  ASSUME Handover, Handover', AgeInv, chars'.zone = chars.zone, strays' = strays \/ strays' = strays + 1,
         \A p \in Procs, a \in Addrs : Kept(sess[p][a], sess'[p][a]), RowKept, ClientKept, Saves,
         Announced' => Announced \/ \A p \in Procs : ~Keeps(p)
  PROVE  AgeInv'
<1>1. strays' \in Nat /\ strays <= strays'
  BY VersionsAre
<1> QED  BY <1>1, KeptAlone, KeptKnown, KeptAges DEF AgeInv

-----------------------------------------------------------------------------
\* One session is replaced by one that is kept.
LEMMA OneIsKept ==
  ASSUME Handover, NEW p \in Procs, NEW a \in Addrs, NEW t,
         sess' = [sess EXCEPT ![p][a] = t], Kept(sess[p][a], t)
  PROVE  \A q \in Procs, b \in Addrs : Kept(sess[q][b], sess'[q][b])
<1>1. \A q \in Procs, b \in Addrs :
        sess'[q][b] = IF q = p /\ b = a THEN t ELSE sess[q][b]
  BY DEF Handover, SessionTypeOK
<1>2. ASSUME NEW q \in Procs, NEW b \in Addrs PROVE Kept(sess[q][b], sess[q][b])
  BY VersionsAre DEF Kept
<1> QED  BY <1>1, <1>2

\* No session changes.
LEMMA AllAreKept ==
  ASSUME Handover, sess' = sess
  PROVE  \A q \in Procs, b \in Addrs : Kept(sess[q][b], sess'[q][b])
BY VersionsAre DEF Kept

\* Fewer clients are announced.
LEMMA LessAnnounced ==
  ASSUME \A z \in Zones : OnTheWay(z)' => OnTheWay(z),
         \A p \in Procs : pending'[p] # None => pending[p] # None
  PROVE  Announced' => Announced
BY DEF Announced

\* No message is sent or received, and none prepared for.
LEMMA QuietAge ==
  ASSUME Handover, Handover', AgeInv, chars'.zone = chars.zone, strays' = strays \/ strays' = strays + 1,
         \A p \in Procs, a \in Addrs : Kept(sess[p][a], sess'[p][a]), RowKept, ClientKept, Saves,
         toWorld' = toWorld, toMap' = toMap, \A p \in Procs : pending'[p] # None => pending[p] # None
  PROVE  AgeInv'
<1>1. \A z \in Zones : OnTheWay(z)' => OnTheWay(z)
  BY DEF OnTheWay
<1> QED  BY <1>1, LessAnnounced, KeptStep

\* Nor does the row change, or what is saved.
LEMMA AsideAge ==
  ASSUME Handover, Handover', AgeInv, chars' = chars, strays' = strays \/ strays' = strays + 1,
         \A p \in Procs, a \in Addrs : Kept(sess[p][a], sess'[p][a]), ClientKept, row' = row,
         toWorld' = toWorld, toMap' = toMap, pending' = pending
  PROVE  AgeInv'
<1>1. RowKept /\ Saves
  BY DEF RowKept, Keeps, Saves
<1> QED  BY <1>1, QuietAge

\* The player authenticates, goes away, or is welcomed.
LEMMA PlayerAge ==
  ASSUME Handover, Handover', AgeInv, Authenticate \/ Vanish \/ Welcomed
  PROVE  AgeInv'
<1>1. /\ sess' = sess /\ pending' = pending /\ row' = row /\ chars' = chars /\ toMap' = toMap
      /\ strays' = strays
  BY DEF Authenticate, Vanish, Welcomed, ipc
<1>2. ClientKept
  BY DEF Authenticate, Vanish, Welcomed, ClientKept, Handover, SessionTypeOK
<1>3. CASE Authenticate
  <2> DEFINE m == [type |-> "AccountLogin"]
  <2>1. toWorld' = [toWorld EXCEPT ![LoginServer] = Append(@, m)] /\ m \in Message
    BY <1>3, Messages DEF Authenticate
  <2>2. \A z \in Zones : Expectation(z) # m
    BY DEF Expectation
  <2> HIDE DEF m
  <2>3. /\ Posted(toWorld'[LoginServer]) = Posted(toWorld[LoginServer]) \cup {m}
        /\ \A x \in Procs \cup {LoginServer} : x # LoginServer => toWorld'[x] = toWorld[x]
    <3>1. PICK s \in Procs \cup {LoginServer} : s = LoginServer
      OBVIOUS
    <3>2. toWorld' = [toWorld EXCEPT ![s] = Append(@, m)]
      BY <2>1, <3>1
    <3>3. /\ Posted(toWorld'[s]) = Posted(toWorld[s]) \cup {m}
          /\ \A x \in Procs \cup {LoginServer} : x # s => toWorld'[x] = toWorld[x]
      BY <2>1, <3>2, PostedTo
    <3> QED  BY <3>1, <3>3
  <2>4. \A z \in Zones : OnTheWay(z)' => OnTheWay(z)
    BY <1>1, <2>2, <2>3 DEF OnTheWay
  <2>5. Announced' => Announced
    BY <1>1, <2>4, LessAnnounced
  <2>6. RowKept /\ Saves
    BY <1>1 DEF RowKept, Keeps, Saves
  <2> QED  BY <1>1, <1>2, <2>5, <2>6, AllAreKept, KeptStep
<1>4. CASE Vanish \/ Welcomed
  <2>1. toWorld' = toWorld
    BY <1>4 DEF Vanish, Welcomed, ipc
  <2> QED  BY <1>1, <1>2, <2>1, AllAreKept, AsideAge
<1> QED  BY <1>3, <1>4

\* A character is selected only when no row keeps anybody.
LEMMA SelectCharacterAge ==
  ASSUME Handover, Handover', AgeInv, NEW a \in Addrs, SelectCharacter(a)
  PROVE  AgeInv'
<1> DEFINE key == <<logins + 1, 0>>
           k == [server |-> Host[chars.zone], seen |-> FALSE, key |-> key, waited |-> 2]
<1>1. /\ sess' = sess /\ row' = k /\ chars' = chars /\ RowIsFree /\ strays' = strays
      /\ client'.proc = Here
  BY DEF SelectCharacter, Here
<1>2. k.seen = FALSE
  OBVIOUS
<1> HIDE DEF k
<1>3. \A p \in Procs : ~Keeps(p) /\ ~Keeps(p)'
  BY <1>1, <1>2 DEF Keeps, RowIsFree
<1>4. RowKept /\ ClientKept /\ Saves
  BY <1>1, <1>3 DEF RowKept, ClientKept, Saves
<1> QED  BY <1>1, <1>3, <1>4, AllAreKept, KeptStep

\* An 0x00A for a session that has been accepted.
LEMMA AcceptedAgainAge ==
  ASSUME Handover, Handover', AgeInv, NEW p \in Procs, NEW a \in Addrs, LoginHandled(p, a),
         sess[p][a].status = "Accepted", strays' = strays \/ strays' = strays + 1, client' = client
  PROVE  AgeInv'
<1> DEFINE s == sess[p][a]
           r == Reloaded(s)
           t == IF r.forced THEN r ELSE [r EXCEPT !.age = 0]
<1>1. /\ s # None /\ sess' = [sess EXCEPT ![p][a] = t]
      /\ pending' = pending /\ row' = row /\ chars' = chars /\ toWorld' = toWorld /\ toMap' = toMap
  BY DEF LoginHandled, ipc
<1>2. s \in Session /\ (s.char # None => s.char.v \in Int)
  BY <1>1, SessionIs, VersionsAre
<1>3. r = [s EXCEPT !.ipp = None]
  BY DEF Reloaded
<1>4. /\ r.status = s.status /\ r.shuttingDown = s.shuttingDown /\ r.char = s.char /\ r.ipp = None
      /\ r \in Session
  BY <1>2, <1>3 DEF Session
<1> HIDE DEF r
<1>5. /\ t.status = s.status /\ t.shuttingDown = s.shuttingDown /\ t.char = s.char /\ t.ipp = None
  BY <1>4 DEF Session
<1>6. Kept(s, t)
  BY <1>1, <1>2, <1>5 DEF Kept
<1> HIDE DEF t
<1>7. \A q \in Procs, b \in Addrs : Kept(sess[q][b], sess'[q][b])
  BY <1>1, <1>6, OneIsKept
<1>8. ClientKept
  BY DEF ClientKept
<1> QED  BY <1>1, <1>7, <1>8, AsideAge

\* Without a row there is nobody left to be told where to go.
LEMMA UnloadableAge ==
  ASSUME Handover, Handover', AgeInv, NEW p \in Procs, NEW a \in Addrs, LoginUnloadable(p, a),
         strays' = strays \/ strays' = strays + 1, client' = client
  PROVE  AgeInv'
<1> DEFINE s == sess[p][a]
           u == [s EXCEPT !.char = None]
           t == IF s.shuttingDown = 1 THEN None ELSE u
<1>1. /\ s # None /\ s.status = "PendingZone" /\ row = None /\ sess' = [sess EXCEPT ![p][a] = t]
      /\ pending' = pending /\ row' = row /\ chars' = chars /\ toWorld' = toWorld /\ toMap' = toMap
  BY DEF LoginUnloadable, ipc
<1>2. s \in Session
  BY <1>1, SessionIs
<1>3. s.char = None
  BY <1>1 DEF AgeInv, SoloAlone, Solo, Departed, Leftover, Keeps
<1>4. Kept(s, t)
  <2>1. u.status = s.status /\ u.shuttingDown = s.shuttingDown /\ u.char = None /\ u.ipp = s.ipp
    BY <1>2 DEF Session
  <2> QED  BY <1>1, <1>3, <2>1 DEF Kept
<1> HIDE DEF t
<1>5. \A q \in Procs, b \in Addrs : Kept(sess[q][b], sess'[q][b])
  BY <1>1, <1>4, OneIsKept
<1>6. ClientKept
  BY DEF ClientKept
<1> QED  BY <1>1, <1>5, <1>6, AsideAge

\* A session is closed; its process has no other, and takes no row along but its own.
LEMMA ClosedAge ==
  ASSUME Handover, Handover', AgeInv, NEW p \in Procs, NEW a \in Addrs, sess[p][a] # None,
         sess' = [sess EXCEPT ![p][a] = None], pending' = pending, strays' = strays,
         row' # row => row' = None /\ (row = None \/ row.server = p),
         chars'.zone = chars.zone, Saves, ClientKept,
         \A z \in Zones : OnTheWay(z)' => OnTheWay(z)
  PROVE  AgeInv'
<1>1. Kept(sess[p][a], None)
  BY DEF Kept
<1>2. \A q \in Procs, b \in Addrs : Kept(sess[q][b], sess'[q][b])
  BY <1>1, OneIsKept
<1>3. \A q \in Procs, b \in Addrs : sess'[q][b] = IF q = p /\ b = a THEN None ELSE sess[q][b]
  BY DEF Handover, SessionTypeOK
<1>4. RowKept
  <2>1. SUFFICES ASSUME NEW q \in Procs, NEW b \in Addrs, sess'[q][b] # None
                 PROVE  Keeps(q)' <=> Keeps(q)
    BY DEF RowKept
  <2>2. CASE row' = row
    BY <2>2 DEF Keeps
  <2>3. CASE row' # row
    <3>1. q # p
      BY <1>3, <2>1 DEF Handover, OnePerProcess
    <3> QED  BY <2>3, <3>1 DEF Keeps
  <2> QED  BY <2>2, <2>3
<1>5. Announced' => Announced
  BY LessAnnounced
<1> QED  BY <1>2, <1>4, <1>5, KeptStep

\* An ordinary packet.
LEMMA PacketAge ==
  ASSUME Handover, Handover', AgeInv, NEW p \in Procs, NEW a \in Addrs, PacketAnswered(p, a),
         strays' = strays
  PROVE  AgeInv'
<1> DEFINE s == sess[p][a]
           n == IF s.status = "Accepted" /\ ~s.forced THEN 0 ELSE s.age
           t == [s EXCEPT !.decrypted = TRUE, !.age = n]
<1>1. /\ s # None /\ sess' = [sess EXCEPT ![p][a] = t] /\ client' = client
      /\ pending' = pending /\ row' = row /\ chars' = chars /\ toWorld' = toWorld /\ toMap' = toMap
  BY DEF PacketAnswered, ipc, Handover, SessionTypeOK
<1>2. s \in Session /\ (s.char # None => s.char.v \in Int)
  BY <1>1, SessionIs, VersionsAre
<1> HIDE DEF n
<1>3. t.status = s.status /\ t.shuttingDown = s.shuttingDown /\ t.char = s.char /\ t.ipp = s.ipp
  BY <1>2 DEF Session
<1>4. Kept(s, t) /\ ClientKept
  BY <1>1, <1>2, <1>3 DEF Kept, ClientKept
<1> HIDE DEF t
<1>5. \A q \in Procs, b \in Addrs : Kept(sess[q][b], sess'[q][b])
  BY <1>1, <1>4, OneIsKept
<1> QED  BY <1>1, <1>4, <1>5, AsideAge

\* Who logs out has the row, which goes with the session.
LEMMA SendLogOutAge ==
  ASSUME Handover, Handover', RowInv, AgeInv, NEW p \in Procs, NEW a \in Addrs, SendLogOut(p, a),
         strays' = strays
  PROVE  AgeInv'
<1>1. /\ sess[p][a] # None /\ sess[p][a].shuttingDown = 1
      /\ sess' = [sess EXCEPT ![p][a] = None] /\ row' = None
      /\ client' = client \/ client' = [client EXCEPT !.phase = "lobby"]
      /\ pending' = pending /\ chars' = chars /\ toWorld' = toWorld /\ toMap' = toMap
  BY DEF SendLogOut, Closed, ipc
<1>2. Departed(p, a)
  BY <1>1 DEF Departed, RowInv, Departing, AgeInv, StatusKnown
<1>3. row.server = p
  BY <1>2 DEF AgeInv, SoloAlone, Solo, Keeps
<1>4. ClientKept /\ Saves
  BY <1>1 DEF ClientKept, Saves, Handover, SessionTypeOK
<1>5. \A z \in Zones : OnTheWay(z)' => OnTheWay(z)
  BY <1>1 DEF OnTheWay
<1> QED  BY <1>1, <1>3, <1>4, <1>5, ClosedAge

\* The client is told again; that process is the saved one still.
LEMMA AgainAge ==
  ASSUME Handover, Handover', AgeInv, NEW p \in Procs, NEW a \in Addrs, SendZoneOutAgain(p, a),
         strays' = strays
  PROVE  AgeInv'
<1>1. /\ sess' = sess /\ pending' = pending /\ row' = row /\ chars' = chars
      /\ toWorld' = toWorld /\ toMap' = toMap
      /\ sess[p][a] # None /\ sess[p][a].ipp # None /\ Redirected(sess[p][a].ipp)
  BY DEF SendZoneOutAgain, ipc
<1>2. sess[p][a].ipp = Here
  BY <1>1 DEF AgeInv, ToldGone
<1>3. ClientKept
  BY <1>1, <1>2 DEF Redirected, ClientKept, Handover, SessionTypeOK
<1> QED  BY <1>1, <1>3, AllAreKept, AsideAge

\* The character is played, or saved.
LEMMA PlayAge ==
  ASSUME Handover, Handover', AgeInv, NEW p \in Procs, NEW a \in Addrs, Play(p, a) \/ SaveChar(p, a)
  PROVE  AgeInv'
<1> DEFINE s == sess[p][a]
           c == s.char
           d == [c EXCEPT !.v = @ + 1]
           t == [s EXCEPT !.char = d]
<1>1. /\ s # None /\ s \in Session /\ c \in Character /\ c # None /\ c.zone # None /\ c.v \in Int
      /\ InZone(p, a)
      /\ pending' = pending /\ row' = row /\ toWorld' = toWorld /\ toMap' = toMap
      /\ client' = client /\ strays' = strays
  BY InZoneFacts, VersionsAre DEF Play, SaveChar, InZone, ipc
<1>2. ClientKept
  BY <1>1 DEF ClientKept
<1>3. CASE Play(p, a)
  <2>1. d.zone = c.zone /\ d.dest = c.dest /\ d.out = c.out /\ c.v <= d.v /\ d \in Character
    <3>1. c.v + 1 \in 0..MaxVersion
      BY <1>1, <1>3, Constants DEF Play, Character
    <3> QED  BY <1>1, <3>1 DEF Character
  <2>2. sess' = [sess EXCEPT ![p][a] = t] /\ chars' = chars
    BY <1>1, <1>3 DEF Play, Handover, SessionTypeOK, Session, Character
  <2> HIDE DEF d
  <2>3. /\ t.status = s.status /\ t.shuttingDown = s.shuttingDown /\ t.char = d
        /\ t.ipp = s.ipp /\ d # None
    BY <1>1, <2>1, NoneAssumption DEF Session
  <2>4. Kept(s, t)
    BY <1>1, <2>1, <2>3 DEF Kept
  <2> HIDE DEF t
  <2>5. \A q \in Procs, b \in Addrs : Kept(sess[q][b], sess'[q][b])
    BY <2>2, <2>4, OneIsKept
  <2> QED  BY <1>1, <1>2, <2>2, <2>5, AsideAge
<1>4. CASE SaveChar(p, a)
  <2>1. sess' = sess /\ chars' = [chars EXCEPT !.v = c.v]
    BY <1>4 DEF SaveChar
  <2>2. chars'.zone = chars.zone /\ chars'.v = c.v
    BY <2>1 DEF Handover, SessionTypeOK
  <2>3. Saves /\ RowKept
    BY <1>1, <2>2 DEF Saves, RowKept, Keeps
  <2> QED  BY <1>1, <1>2, <2>1, <2>2, <2>3, AllAreKept, QuietAge
<1> QED  BY <1>3, <1>4

\* What times out saves what it has.
LEMMA CleanupAge ==
  ASSUME Handover, Handover', RowInv, AgeInv, Cleanup
  PROVE  AgeInv'
<1>1. ASSUME NEW p \in Procs, NEW a \in Addrs, SessionTimesOut(p, a) PROVE AgeInv'
  <2>1. /\ sess[p][a] # None /\ sess' = [sess EXCEPT ![p][a] = None]
        /\ row' = IF OnOtherMap(p) THEN row ELSE None
        /\ chars' = IF sess[p][a].char = None THEN chars ELSE [chars EXCEPT !.v = sess[p][a].char.v]
        /\ pending' = pending /\ toWorld' = toWorld /\ toMap' = toMap
        /\ client' = client /\ strays' = strays
    BY <1>1 DEF SessionTimesOut, ipc
  <2>2. /\ chars'.zone = chars.zone
        /\ sess[p][a].char # None => chars'.v = sess[p][a].char.v
    BY <2>1 DEF Handover, SessionTypeOK
  <2>3. sess'[p][a] = None
    BY <2>1 DEF Handover, SessionTypeOK
  <2>4. Saves
    BY <2>1, <2>2, <2>3 DEF Saves
  <2>5. row' # row => row' = None /\ (row = None \/ row.server = p)
    BY <2>1 DEF OnOtherMap
  <2>6. ClientKept /\ \A z \in Zones : OnTheWay(z)' => OnTheWay(z)
    BY <2>1 DEF ClientKept, OnTheWay
  <2> QED  BY <2>1, <2>2, <2>4, <2>5, <2>6, ClosedAge
<1>2. ASSUME NEW p \in Procs, PendingTimesOut(p) PROVE AgeInv'
  <2>1. /\ pending[p] = 1 /\ pending' = [pending EXCEPT ![p] = None] /\ row' = None
        /\ sess' = sess /\ chars' = chars /\ toWorld' = toWorld /\ toMap' = toMap
        /\ client' = client /\ strays' = strays
    BY <1>2 DEF PendingTimesOut, ipc
  <2>2. p = Here /\ pending[p] # None
    BY <2>1, NoneAssumption DEF RowInv, ExpectedHere, Ages
  <2>3. ASSUME NEW q \in Procs, NEW b \in Addrs, sess[q][b] # None PROVE ~Keeps(q)
    <3>1. q # Here
      BY <2>2, <2>3 DEF Handover, OnePerProcess
    <3>2. row # None => row.server = Here
      BY <2>2 DEF RowInv, RowNamed, Claimed
    <3> QED  BY <3>1, <3>2 DEF Keeps
  <2>4. RowKept
    BY <2>1, <2>3 DEF RowKept, Keeps
  <2>5. \A q \in Procs : pending'[q] # None => pending[q] # None
    BY <2>1 DEF Handover, SessionTypeOK
  <2>6. ClientKept /\ Saves
    BY <2>1 DEF ClientKept, Saves
  <2> QED  BY <2>1, <2>4, <2>5, <2>6, AllAreKept, QuietAge
<1> QED  BY <1>1, <1>2 DEF Cleanup

\* Time passes: sessions age, and the row does.
LEMMA TickAge ==
  ASSUME Handover, Handover', AgeInv, Tick
  PROVE  AgeInv'
<1> DEFINE t(p, a) == [sess[p][a] EXCEPT !.age = 1]
           k == [row EXCEPT !.waited = @ + 1]
<1>1. /\ sess' = [p \in Procs |-> [a \in Addrs |-> IF sess[p][a] = None THEN None ELSE t(p, a)]]
      /\ pending' = [p \in Procs |-> IF pending[p] = None THEN None ELSE 1]
      /\ row' = IF row # None /\ row.waited < 2 THEN k ELSE row
      /\ chars' = chars /\ toWorld' = toWorld /\ toMap' = toMap /\ client' = client
      /\ strays' = strays
  BY DEF Tick, ipc
<1>2. ASSUME NEW p \in Procs, NEW a \in Addrs PROVE Kept(sess[p][a], sess'[p][a])
  <2>1. sess'[p][a] = IF sess[p][a] = None THEN None ELSE t(p, a)
    BY <1>1
  <2>2. CASE sess[p][a] = None
    BY <2>1, <2>2 DEF Kept
  <2>3. CASE sess[p][a] # None
    <3>1. sess[p][a] \in Session /\ (sess[p][a].char # None => sess[p][a].char.v \in Int)
      BY <2>3, SessionIs, VersionsAre
    <3>2. /\ t(p, a).status = sess[p][a].status /\ t(p, a).char = sess[p][a].char
          /\ t(p, a).shuttingDown = sess[p][a].shuttingDown /\ t(p, a).ipp = sess[p][a].ipp
      BY <3>1 DEF Session
    <3> QED  BY <2>1, <2>3, <3>1, <3>2 DEF Kept
  <2> QED  BY <2>2, <2>3
<1>3. \A p \in Procs : pending'[p] # None => pending[p] # None
  BY <1>1
<1>4. RowKept
  <2>1. CASE row # None /\ row.waited < 2
    <3>1. row' = k /\ row \in Row
      BY <1>1, <2>1 DEF Handover, SessionTypeOK
    <3>2. k.server = row.server /\ k.seen = row.seen
      BY <3>1 DEF Row
    <3>3. k \in Row
      <4>1. row.waited + 1 \in Waits
        BY <2>1, <3>1 DEF Row, Waits
      <4> QED  BY <3>1, <4>1 DEF Row
    <3>4. row' # None
      BY <3>1, <3>3, NoneAssumption
    <3> QED  BY <2>1, <3>1, <3>2, <3>4 DEF RowKept, Keeps
  <2>2. CASE ~(row # None /\ row.waited < 2)
    <3>1. row' = row
      BY <1>1, <2>2
    <3> QED  BY <3>1 DEF RowKept, Keeps
  <2> QED  BY <2>1, <2>2
<1>5. ClientKept /\ Saves
  BY <1>1 DEF ClientKept, Saves
<1> QED  BY <1>1, <1>2, <1>3, <1>4, <1>5, QuietAge

\* A process loses its sessions, its messages, and the row that names it.
LEMMA CrashAge ==
  ASSUME Handover, Handover', AgeInv, NEW p \in Procs, Crash(p)
  PROVE  AgeInv'
<1>1. /\ sess' = [sess EXCEPT ![p] = [a \in Addrs |-> None]]
      /\ pending' = [pending EXCEPT ![p] = None]
      /\ toMap' = [toMap EXCEPT ![p] = <<>>] /\ toWorld' = [toWorld EXCEPT ![p] = <<>>]
      /\ row' = IF row # None /\ row.server = p THEN None ELSE row
      /\ chars' = chars /\ client' = client /\ strays' = strays
  BY DEF Crash
<1>2. \A q \in Procs : /\ pending'[q] = IF q = p THEN None ELSE pending[q]
                       /\ toMap'[q] = IF q = p THEN <<>> ELSE toMap[q]
                       /\ \A b \in Addrs : sess'[q][b] = IF q = p THEN None ELSE sess[q][b]
  BY <1>1 DEF Handover, SessionTypeOK
<1>3. \A s \in Procs \cup {LoginServer} : toWorld'[s] = IF s = p THEN <<>> ELSE toWorld[s]
  BY <1>1, Queues
<1>4. ASSUME NEW q \in Procs, NEW b \in Addrs PROVE Kept(sess[q][b], sess'[q][b])
  <2>1. sess'[q][b] = IF q = p THEN None ELSE sess[q][b]
    BY <1>2
  <2> QED  BY <2>1, VersionsAre DEF Kept
<1>5. RowKept
  <2>1. SUFFICES ASSUME NEW q \in Procs, NEW b \in Addrs, sess'[q][b] # None
                 PROVE  Keeps(q)' <=> Keeps(q)
    BY DEF RowKept
  <2>2. q # p
    BY <1>2, <2>1
  <2> QED  BY <1>1, <2>2 DEF Keeps
<1>6. \A z \in Zones : OnTheWay(z)' => OnTheWay(z)
  BY <1>2, <1>3, NoPost DEF OnTheWay
<1>7. Announced' => Announced
  BY <1>2, <1>6, LessAnnounced
<1>8. ClientKept /\ Saves
  BY <1>1 DEF ClientKept, Saves
<1> QED  BY <1>1, <1>4, <1>5, <1>7, <1>8, KeptStep

\* A message goes on.
LEMMA WorldHandlesAge ==
  ASSUME Handover, Handover', AgeInv, NEW s \in Procs \cup {LoginServer}, WorldHandles(s)
  PROVE  AgeInv'
<1>1. /\ sess' = sess /\ pending' = pending /\ row' = row /\ chars' = chars /\ client' = client
      /\ strays' = strays
  BY DEF WorldHandles
<1>2. \A z \in Zones : OnTheWay(z)' => OnTheWay(z)
  BY WorldHandlesMessages DEF SameMessages
<1>3. Announced' => Announced
  BY <1>1, <1>2, LessAnnounced
<1>4. RowKept /\ ClientKept /\ Saves
  BY <1>1 DEF RowKept, Keeps, ClientKept, Saves
<1> QED  BY <1>1, <1>3, <1>4, AllAreKept, KeptStep

\* A map process handles a message: it comes to expect a client that was on its
\* way, or closes a session that was left; whose row goes with it had the row.
LEMMA MapHandlesAge ==
  ASSUME Handover, Handover', RowInv, AgeInv, NEW p \in Procs, MapHandles(p)
  PROVE  AgeInv'
<1>1. /\ toMap[p] # <<>> /\ toMap' = [toMap EXCEPT ![p] = Tail(@)]
      /\ chars' = chars /\ toWorld' = toWorld /\ client' = client /\ strays' = strays
  BY DEF MapHandles
<1>2. PICK m : m = Head(toMap[p])
  OBVIOUS
<1>3. m \in Message /\ Posted(toMap[p]) = {m} \cup Posted(Tail(toMap[p]))
  BY <1>1, <1>2, Queues, PostIs
<1>4. \A q \in Procs : Posted(toMap'[q]) \subseteq Posted(toMap[q])
  BY <1>1, <1>3, Queues
<1>5. \A z \in Zones : OnTheWay(z)' => OnTheWay(z)
  BY <1>1, <1>4 DEF OnTheWay
<1>6. ClientKept /\ Saves
  BY <1>1 DEF ClientKept, Saves
<1>7. CASE m.type = "CharZone"
  <2>1. HandleCharZone(p) /\ row' = row
    BY <1>2, <1>7 DEF MapHandles, HandleCharZone
  <2>2. PICK z \in Zones : m = Expectation(z)
    BY <1>3, <1>7 DEF Message, Expectation
  <2>3. Announced
    <3>1. Expectation(z) \in Posted(toMap[p])
      BY <1>3, <2>2
    <3> QED  BY <3>1 DEF Announced, OnTheWay
  <2>4. RowKept
    BY <2>1 DEF RowKept, Keeps
  <2>5. CASE Known(p) = {}
    <3>1. sess' = sess
      BY <2>1, <2>5 DEF HandleCharZone
    <3> QED  BY <1>1, <1>6, <2>3, <2>4, <3>1, AllAreKept, KeptStep
  <2>6. CASE Known(p) # {}
    <3> DEFINE n(a) == IF sess[p][a].forced THEN sess[p][a].age ELSE 0
               t(a) == [sess[p][a] EXCEPT !.age = n(a)]
    <3>1. PICK a \in Known(p) : sess' = [sess EXCEPT ![p][a] = t(a)]
      BY <2>1, <2>6 DEF HandleCharZone, Known, Handover, SessionTypeOK, Session
    <3>2. /\ a \in Addrs /\ sess[p][a] # None /\ sess[p][a] \in Session
          /\ sess[p][a].char # None => sess[p][a].char.v \in Int
      BY <3>1, SessionIs, VersionsAre DEF Known
    <3> HIDE DEF n
    <3>3. /\ t(a).status = sess[p][a].status /\ t(a).char = sess[p][a].char
          /\ t(a).shuttingDown = sess[p][a].shuttingDown /\ t(a).ipp = sess[p][a].ipp
      BY <3>2 DEF Session
    <3>4. Kept(sess[p][a], t(a))
      BY <3>2, <3>3 DEF Kept
    <3> HIDE DEF t
    <3>5. \A q \in Procs, b \in Addrs : Kept(sess[q][b], sess'[q][b])
      BY <3>1, <3>2, <3>4, OneIsKept
    <3> QED  BY <1>1, <1>6, <2>3, <2>4, <3>5, KeptStep
  <2> QED  BY <2>5, <2>6
<1>8. CASE m.type = "KillSession"
  <2>1. HandleKillSession(p) /\ pending' = pending
    BY <1>2, <1>8 DEF MapHandles, HandleKillSession
  <2>2. CASE sess' = sess /\ row' = row
    <3>1. RowKept
      BY <2>2 DEF RowKept, Keeps
    <3>2. Announced' => Announced
      BY <1>5, <2>1, LessAnnounced
    <3> QED  BY <1>1, <1>6, <2>2, <3>1, <3>2, AllAreKept, KeptStep
  <2>3. ASSUME NEW a \in Addrs, sess[p][a] # None, sess' = [sess EXCEPT ![p][a] = None],
               row' = IF sess[p][a].shuttingDown = 1 THEN None ELSE row
        PROVE  AgeInv'
    <3>1. ASSUME row' # row PROVE row' = None /\ (row = None \/ row.server = p)
      <4>1. Departed(p, a)
        BY <2>3, <3>1 DEF Departed, RowInv, Departing, AgeInv, StatusKnown
      <4> QED  BY <2>3, <3>1, <4>1 DEF AgeInv, SoloAlone, Solo, Keeps
    <3> QED  BY <1>1, <1>5, <1>6, <2>1, <2>3, <3>1, ClosedAge
  <2> QED  BY <2>1, <2>2, <2>3 DEF HandleKillSession, Known
<1>9. CASE m.type = "AccountLogin"
  <2>1. HandleAccountLogin(p) /\ row' = row /\ pending' = pending
    BY <1>2, <1>9 DEF MapHandles, HandleAccountLogin
  <2>2. RowKept
    BY <2>1 DEF RowKept, Keeps
  <2>3. Announced' => Announced
    BY <1>5, <2>1, LessAnnounced
  <2>4. CASE sess' = sess
    BY <1>1, <1>6, <2>2, <2>3, <2>4, AllAreKept, KeptStep
  <2>5. CASE sess' # sess
    <3> DEFINE t(a) == [sess[p][a] EXCEPT !.forced = TRUE, !.key = Scrambled, !.old = Scrambled]
    <3>1. PICK a \in Known(p) : sess' = [sess EXCEPT ![p][a] = t(a)]
      BY <2>1, <2>5 DEF HandleAccountLogin
    <3>2. /\ a \in Addrs /\ sess[p][a] # None /\ sess[p][a] \in Session
          /\ sess[p][a].char # None => sess[p][a].char.v \in Int
      BY <3>1, SessionIs, VersionsAre DEF Known
    <3>3. /\ t(a).status = sess[p][a].status /\ t(a).char = sess[p][a].char
          /\ t(a).shuttingDown = sess[p][a].shuttingDown /\ t(a).ipp = sess[p][a].ipp
      BY <3>2 DEF Session
    <3>4. Kept(sess[p][a], t(a))
      BY <3>2, <3>3 DEF Kept
    <3> HIDE DEF t
    <3>5. \A q \in Procs, b \in Addrs : Kept(sess[q][b], sess'[q][b])
      BY <3>1, <3>2, <3>4, OneIsKept
    <3> QED  BY <1>1, <1>6, <2>2, <2>3, <3>5, KeptStep
  <2> QED  BY <2>4, <2>5
<1> QED  BY <1>3, <1>7, <1>8, <1>9 DEF Message

-----------------------------------------------------------------------------
\* The sessions other than the one that is replaced.
LEMMA OthersAre ==
  ASSUME Handover, NEW p \in Procs, NEW a \in Addrs, NEW t, sess' = [sess EXCEPT ![p][a] = t]
  PROVE  /\ sess'[p][a] = t
         /\ \A q \in Procs, b \in Addrs : q # p \/ b # a =>
              /\ sess'[q][b] = sess[q][b]
              /\ InZone(q, b)' <=> InZone(q, b)
              /\ Expecting(q, b)' <=> Expecting(q, b)
              /\ Leftover(q, b)' <=> Leftover(q, b)
              /\ Departed(q, b)' <=> Departed(q, b)
              /\ Stuck(q, b)' <=> Stuck(q, b)
<1>1. \A q \in Procs, b \in Addrs : sess'[q][b] = IF q = p /\ b = a THEN t ELSE sess[q][b]
  BY DEF Handover, SessionTypeOK
<1>2. ASSUME NEW q \in Procs, NEW b \in Addrs, q # p \/ b # a
      PROVE  /\ sess'[q][b] = sess[q][b]
             /\ InZone(q, b)' <=> InZone(q, b)
             /\ Expecting(q, b)' <=> Expecting(q, b)
             /\ Leftover(q, b)' <=> Leftover(q, b)
             /\ Departed(q, b)' <=> Departed(q, b)
             /\ Stuck(q, b)' <=> Stuck(q, b)
  <2>1. sess'[q][b] = sess[q][b]
    BY <1>1, <1>2
  <2>2. /\ InZone(q, b)' <=> InZone(q, b)
        /\ Leftover(q, b)' <=> Leftover(q, b)
    BY <2>1 DEF InZone, Leftover
  <2>3. Expecting(q, b)' <=> Expecting(q, b)
    BY <2>1, <2>2 DEF Expecting
  <2>4. Departed(q, b)' <=> Departed(q, b)
    BY <2>1, <2>2 DEF Departed
  <2>5. Stuck(q, b)' <=> Stuck(q, b)
    BY <2>1, <2>2 DEF Stuck
  <2> QED  BY <2>1, <2>2, <2>3, <2>4, <2>5
<1> QED  BY <1>1, <1>2

\* What is loaded is what is saved, and in no zone.
LEMMA LoadedAge ==
  ASSUME Handover
  PROVE  /\ Loaded \in Character /\ Loaded.zone = None /\ Loaded.dest = chars.zone
         /\ Loaded.v = chars.v
<1>1. Loaded \in Character
  BY LoadedIsSaved DEF Handover
<1> QED  BY <1>1 DEF Loaded

\* A client that was announced gets a session: nobody is in its way.
LEMMA LoginCreatesAge ==
  ASSUME Handover, Handover', RowInv, AgeInv, NEW p \in Procs, NEW a \in Addrs, LoginCreates(p, a),
         strays' = strays \/ strays' = strays + 1, client' = client
  PROVE  AgeInv'
<1>1. /\ pending[p] # None /\ pending' = [pending EXCEPT ![p] = None]
      /\ row' = row /\ chars' = chars /\ toMap' = toMap
  BY DEF LoginCreates
<1>2. \A q \in Procs : pending'[q] # None => pending[q] # None
  BY <1>1 DEF Handover, SessionTypeOK
<1>3. /\ p = Here /\ Here' = Here /\ \A b \in Addrs : sess[p][b] = None
  BY <1>1 DEF RowInv, ExpectedHere, Handover, OnePerProcess, Here
<1>4. \A q \in Procs, b \in Addrs : ~Solo(q, b)
  BY <1>1 DEF AgeInv, SoloAlone, Announced
<1>5. CASE row = None
  <2>1. sess' = sess /\ toWorld' = toWorld
    BY <1>5 DEF LoginCreates
  <2>2. RowKept /\ ClientKept /\ Saves
    BY <1>1 DEF RowKept, Keeps, ClientKept, Saves
  <2> QED  BY <1>1, <1>2, <2>1, <2>2, AllAreKept, QuietAge
<1>6. CASE row # None
  <2> DEFINE t == [status |-> "Waiting", char |-> Loaded, key |-> row.key, old |-> Scrambled,
                   decrypted |-> FALSE, shuttingDown |-> 0, ipp |-> None, forced |-> FALSE,
                   age |-> 0]
  <2>1. sess' = [sess EXCEPT ![p][a] = t]
    BY <1>6 DEF LoginCreates
  <2>2. t.status = "Waiting" /\ t.char = Loaded /\ t.shuttingDown = 0 /\ t.ipp = None
    OBVIOUS
  <2> HIDE DEF t
  <2>3. /\ Loaded \in Character /\ Loaded.zone = None /\ Loaded.dest = chars.zone
        /\ Loaded.v = chars.v /\ Loaded # None
    BY LoadedAge, NoneAssumption
  <2>4. /\ sess'[p][a] = t
        /\ \A q \in Procs, b \in Addrs : q # p \/ b # a =>
              /\ sess'[q][b] = sess[q][b]
              /\ InZone(q, b)' <=> InZone(q, b)
              /\ Expecting(q, b)' <=> Expecting(q, b)
              /\ Leftover(q, b)' <=> Leftover(q, b)
              /\ Departed(q, b)' <=> Departed(q, b)
              /\ Stuck(q, b)' <=> Stuck(q, b)
    BY <2>1, OthersAre
  <2>5. \A q \in Procs : Keeps(q)' <=> Keeps(q)
    BY <1>1 DEF Keeps
  <2>6. (t # None => Expecting(p, a)') /\ ~InZone(p, a)' /\ ~Leftover(p, a)' /\ ~Stuck(p, a)' /\ ~Departed(p, a)'
    BY <1>3, <2>2, <2>3, <2>4 DEF Expecting, InZone, Leftover, Stuck, Departed, Here
  <2>7. StatusKnown'
    <3>1. SUFFICES ASSUME NEW q \in Procs, NEW b \in Addrs, sess'[q][b] # None
                   PROVE  /\ sess'[q][b].status = "Waiting" => Expecting(q, b)'
                          /\ sess'[q][b].status = "Accepted" => sess'[q][b].char # None
                          /\ sess'[q][b].shuttingDown = 1 => sess'[q][b].char # None /\ sess'[q][b].char.out # "zone"
                          /\ InZone(q, b)' => Keeps(q)'
      BY DEF StatusKnown
    <3>2. CASE q = p /\ b = a
      BY <2>2, <2>4, <2>6, <3>1, <3>2
    <3>3. CASE ~(q = p /\ b = a)
      BY <2>4, <2>5, <3>1, <3>3 DEF AgeInv, StatusKnown
    <3> QED  BY <3>2, <3>3
  <2>8. SoloAlone'
    BY <1>4, <2>4, <2>5, <2>6 DEF SoloAlone, Solo
  <2>9. ToldGone'
    <3>1. SUFFICES ASSUME NEW q \in Procs, NEW b \in Addrs, sess'[q][b] # None
                   PROVE  /\ Leftover(q, b)' /\ sess'[q][b].char = None /\ q # Here => ~Keeps(q)'
                          /\ sess'[q][b].ipp # None => Leftover(q, b)' /\ sess'[q][b].ipp = Here
      BY <1>3 DEF ToldGone
    <3>2. CASE q = p /\ b = a
      BY <2>2, <2>4, <2>6, <3>2
    <3>3. CASE ~(q = p /\ b = a)
      BY <2>4, <2>5, <3>1, <3>3 DEF AgeInv, ToldGone
    <3> QED  BY <3>2, <3>3
  <2>10. EntersHere'
    <3>1. SUFFICES ASSUME client.phase = "entering", client.proc # Here,
                          sess'[client.proc][client.addr] # None
                   PROVE  sess'[client.proc][client.addr].char # None
      BY <1>3 DEF EntersHere
    <3>2. client.proc \in Procs /\ client.addr \in Addrs
      BY DEF Handover, SessionTypeOK
    <3> QED  BY <1>3, <2>4, <3>1, <3>2 DEF AgeInv, EntersHere
  <2>11. Ages2'
    <3> SUFFICES ASSUME strays' <= 1
                 PROVE  /\ \A q \in Procs, b \in Addrs : Expecting(q, b)' => chars'.v <= sess'[q][b].char.v
                        /\ \A q \in Procs, b \in Addrs : Loose(q, b)' =>
                             /\ strays' = 1 /\ sess'[q][b].char.v <= chars'.v
                             /\ \A x \in Procs, y \in Addrs : sess'[x][y] # None /\ sess'[x][y].char # None =>
                                  sess'[q][b].char.v <= sess'[x][y].char.v
                             /\ \A x \in Procs, y \in Addrs : Loose(x, y)' => x = q /\ y = b
      BY DEF Ages2
    <3>1. /\ strays <= 1 /\ strays \in Nat /\ chars.v \in Int /\ chars'.v = chars.v
          /\ \A q \in Procs, b \in Addrs : Expecting(q, b) => chars.v <= sess[q][b].char.v
          /\ \A q \in Procs, b \in Addrs : Loose(q, b) =>
               /\ strays = 1 /\ sess[q][b].char.v <= chars.v
               /\ \A x \in Procs, y \in Addrs : sess[x][y] # None /\ sess[x][y].char # None =>
                    sess[q][b].char.v <= sess[x][y].char.v
               /\ \A x \in Procs, y \in Addrs : Loose(x, y) => x = q /\ y = b
      BY <1>1, VersionsAre DEF AgeInv, Ages2
    <3>2. sess'[p][a].char.v = chars.v
      BY <2>2, <2>3, <2>4
    <3>3. ASSUME NEW q \in Procs, NEW b \in Addrs, Expecting(q, b)' PROVE chars'.v <= sess'[q][b].char.v
      <4>1. CASE q = p /\ b = a
        BY <3>1, <3>2, <4>1
      <4>2. CASE ~(q = p /\ b = a)
        BY <2>4, <3>1, <3>3, <4>2
      <4> QED  BY <4>1, <4>2
    <3>4. ASSUME NEW q \in Procs, NEW b \in Addrs, Loose(q, b)'
          PROVE  (q # p \/ b # a) /\ Loose(q, b) /\ sess'[q][b] = sess[q][b]
      BY <2>4, <2>5, <2>6, <3>4 DEF Loose
    <3>5. ASSUME NEW q \in Procs, NEW b \in Addrs, Loose(q, b)',
                 NEW x \in Procs, NEW y \in Addrs, sess'[x][y] # None, sess'[x][y].char # None
          PROVE  sess'[q][b].char.v <= sess'[x][y].char.v
      <4>1. CASE x = p /\ y = a
        BY <3>1, <3>2, <3>4, <3>5, <4>1
      <4>2. CASE ~(x = p /\ y = a)
        <5>1. sess'[x][y] = sess[x][y]
          BY <2>4, <4>2
        <5> QED  BY <3>1, <3>4, <3>5, <5>1
      <4> QED  BY <4>1, <4>2
    <3>6. ASSUME NEW q \in Procs, NEW b \in Addrs, Loose(q, b)'
          PROVE  /\ strays' = 1 /\ sess'[q][b].char.v <= chars'.v
                 /\ \A x \in Procs, y \in Addrs : Loose(x, y)' => x = q /\ y = b
      BY <3>1, <3>4, <3>6
    <3> QED  BY <3>3, <3>5, <3>6
  <2> QED  BY <2>7, <2>8, <2>9, <2>10, <2>11 DEF AgeInv
<1> QED  BY <1>5, <1>6

-----------------------------------------------------------------------------
\* What the 0x00A handler makes of a session that was not accepted yet: in its
\* zone, with the row, where the character is saved; accepted with the saved
\* data, and in no zone, on another process.
EnteredAs(p, a, t) ==
  /\ t.status = "Accepted" /\ t.shuttingDown = 0 /\ t.ipp = None
  /\ t.char \in Character /\ t.char # None
  /\ p = Here => /\ t.char.zone # None /\ row # None
                 /\ \A q \in Procs : Keeps(q)' <=> q = p
  /\ p # Here => /\ t.char.zone = None /\ row' = row
                 /\ sess[p][a].status = "PendingZone"
  /\ t.char.v = chars.v \/ (Expecting(p, a) /\ t.char.v = sess[p][a].char.v)

\* The handler makes that of it, and touches nothing else but the row.
LEMMA EnteredIs ==
  ASSUME Handover, RowInv, AgeInv, NEW p \in Procs, NEW a \in Addrs, LoginHandled(p, a),
         sess[p][a].status # "Accepted"
  PROVE  /\ sess[p][a] # None
         /\ pending' = pending /\ chars' = chars /\ toWorld' = toWorld /\ toMap' = toMap
         /\ \E t : sess' = [sess EXCEPT ![p][a] = t] /\ EnteredAs(p, a, t)
<1> DEFINE s == sess[p][a]
           r == Reloaded(s)
           c == r.char
           d == IF Host[c.dest] = p THEN [c EXCEPT !.zone = c.dest, !.dest = None] ELSE c
           t == Entered(p, r)
           k == [row EXCEPT !.server = p, !.seen = TRUE, !.waited = 2]
<1>1. /\ s # None /\ (s.status = "PendingZone" => row # None)
      /\ sess' = [sess EXCEPT ![p][a] = t]
      /\ row' = IF row # None /\ Host[r.char.dest] = p THEN k ELSE row
      /\ pending' = pending /\ chars' = chars /\ toWorld' = toWorld /\ toMap' = toMap
  BY DEF LoginHandled, ipc
<1>2. SessionOK(p, s, chars.zone) /\ s \in Session /\ SessionTypeOK
  BY <1>1, SessionIs DEF Handover
<1>3. /\ r \in Session /\ r.ipp = None
      /\ s.status # "PendingZone" => r.char = s.char
      /\ s.status = "PendingZone" => r.char = Loaded
  <2>1. CASE s.status = "PendingZone"
    BY <1>1, <1>2, <2>1, ReloadedOK DEF Reloaded, Session
  <2>2. CASE s.status # "PendingZone"
    BY <1>1, <1>2, <2>2, ReloadedOK DEF Reloaded, Session
  <2> QED  BY <2>1, <2>2
<1>4. /\ c \in Character /\ c.zone = None /\ c.dest \in Zones
      /\ Host[c.dest] = p <=> p = Here
      /\ p # Here => s.status = "PendingZone"
      /\ c.v = chars.v \/ (Expecting(p, a) /\ c.v = s.char.v)
      /\ p = Here => row # None
  <2>1. CASE s.status = "PendingZone"
    <3>1. c = Loaded
      BY <1>3, <2>1
    <3> HIDE DEF c
    <3>2. /\ c \in Character /\ chars.zone \in Zones
          /\ c.zone = None /\ c.dest = chars.zone /\ c.v = chars.v
      BY <3>1, LoadedAge, HereIs
    <3> QED  BY <1>1, <2>1, <3>2 DEF Here
  <2>2. CASE s.status = "Waiting"
    <3>1. c = s.char
      BY <1>3, <2>2
    <3> HIDE DEF c
    <3>2. c \in Character /\ c.zone = None /\ c.dest \in Zones
      BY <1>2, <2>2, <3>1 DEF SessionOK
    <3>3. Expecting(p, a)
      BY <1>1, <2>2 DEF AgeInv, StatusKnown
    <3>4. p = Here /\ row # None
      BY <3>3, ExpectingIs DEF RowInv, RowNamed
    <3>5. Host[c.dest] = p
      BY <2>2, <3>1, <3>2, <3>3 DEF Expecting, InZone
    <3> QED  BY <2>2, <3>1, <3>2, <3>3, <3>4, <3>5
  <2> QED  BY <1>2, <2>1, <2>2 DEF Session
<1> HIDE DEF r
<1>5. /\ d \in Character /\ d.v = c.v /\ (Host[c.dest] = p => d.zone = c.dest)
      /\ Host[c.dest] # p => d.zone = None
  BY <1>4 DEF Character
<1>6. t = [r EXCEPT !.status = "Accepted", !.shuttingDown = 0, !.char = d]
  BY DEF Entered
<1> HIDE DEF d, t
<1>7. t.status = "Accepted" /\ t.shuttingDown = 0 /\ t.char = d /\ t.ipp = None
  BY <1>3, <1>6 DEF Session
<1>8. ASSUME p = Here PROVE \A q \in Procs : Keeps(q)' <=> q = p
  <2>1. row \in Row /\ row' = k
    BY <1>1, <1>2, <1>4, <1>8 DEF SessionTypeOK
  <2>2. k \in Row /\ k.server = p /\ k.seen
    BY <2>1, SeenType DEF Row
  <2> HIDE DEF k
  <2> QED  BY <2>1, <2>2, NoneAssumption DEF Keeps
<1>9. ASSUME p # Here PROVE row' = row
  BY <1>1, <1>4, <1>9
<1> HIDE DEF c, k
<1>10. EnteredAs(p, a, t)
  <2>1. t.char \in Character /\ t.char # None /\ t.char.v = c.v
    BY <1>5, <1>7, NoneAssumption
  <2>2. p = Here => t.char.zone # None
    BY <1>4, <1>5, <1>7, Constants
  <2>3. p # Here => t.char.zone = None
    BY <1>4, <1>5, <1>7
  <2> QED  BY <1>4, <1>7, <1>8, <1>9, <2>1, <2>2, <2>3 DEF EnteredAs
<1> QED  BY <1>1, <1>10

\* The character enters its zone: nobody is in its way, or else it could not.
LEMMA EnteredHereAge ==
  ASSUME Handover, Handover', RowInv, AgeInv, NEW p \in Procs, NEW a \in Addrs, LoginHandled(p, a),
         sess[p][a].status # "Accepted", p = Here,
         strays' = strays \/ strays' = strays + 1, client' = client
  PROVE  AgeInv'
<1>1. /\ sess[p][a] # None
      /\ pending' = pending /\ chars' = chars /\ toWorld' = toWorld /\ toMap' = toMap
  BY EnteredIs
<1>2. PICK t : sess' = [sess EXCEPT ![p][a] = t] /\ EnteredAs(p, a, t)
  BY EnteredIs
<1>3. /\ t.status = "Accepted" /\ t.shuttingDown = 0 /\ t.ipp = None /\ t.char # None
      /\ t.char.zone # None
      /\ \A q \in Procs : Keeps(q)' <=> q = p
      /\ t.char.v = chars.v \/ (Expecting(p, a) /\ t.char.v = sess[p][a].char.v)
  BY <1>2 DEF EnteredAs
<1>4. /\ sess'[p][a] = t
      /\ \A q \in Procs, b \in Addrs : q # p \/ b # a =>
            /\ sess'[q][b] = sess[q][b]
            /\ InZone(q, b)' <=> InZone(q, b)
            /\ Expecting(q, b)' <=> Expecting(q, b)
            /\ Leftover(q, b)' <=> Leftover(q, b)
            /\ Departed(q, b)' <=> Departed(q, b)
            /\ Stuck(q, b)' <=> Stuck(q, b)
  BY <1>2, OthersAre
<1>5. Here' = Here
  BY <1>1 DEF Here
<1>6. ASSUME NEW q \in Procs, NEW b \in Addrs, ~(q = p /\ b = a), sess'[q][b] # None
      PROVE  q # p /\ ~Expecting(q, b) /\ ~Keeps(q)' /\ ~Solo(q, b)
  <2>1. q # p
    BY <1>1, <1>4, <1>6 DEF Handover, OnePerProcess
  <2>2. ~Expecting(q, b) /\ ~Keeps(q)'
    BY <1>3, <2>1, ExpectingIs
  <2>3. ~Solo(q, b)
    BY <1>1, <2>1 DEF AgeInv, SoloAlone, Stuck
  <2> QED  BY <2>1, <2>2, <2>3
<1>7. ~Leftover(p, a)' /\ ~Stuck(p, a)' /\ ~Departed(p, a)'
  BY <1>3, <1>4 DEF InZone, Leftover, Stuck, Departed
<1>8. StatusKnown'
  <2>1. SUFFICES ASSUME NEW q \in Procs, NEW b \in Addrs, sess'[q][b] # None
                 PROVE  /\ sess'[q][b].status = "Waiting" => Expecting(q, b)'
                        /\ sess'[q][b].status = "Accepted" => sess'[q][b].char # None
                        /\ sess'[q][b].shuttingDown = 1 => sess'[q][b].char # None /\ sess'[q][b].char.out # "zone"
                        /\ InZone(q, b)' => Keeps(q)'
    BY DEF StatusKnown
  <2>2. CASE q = p /\ b = a
    BY <1>3, <1>4, <2>2
  <2>3. CASE ~(q = p /\ b = a)
    BY <1>4, <1>6, <2>1, <2>3 DEF AgeInv, StatusKnown, Expecting
  <2> QED  BY <2>2, <2>3
<1>9. \A q \in Procs, b \in Addrs : ~Solo(q, b)'
  <2>1. ASSUME NEW q \in Procs, NEW b \in Addrs, Solo(q, b)' PROVE FALSE
    <3>1. ~(q = p /\ b = a) /\ sess'[q][b] # None
      BY <1>7, <2>1 DEF Solo, Departed, Leftover, Stuck
    <3> QED  BY <1>4, <1>6, <2>1, <3>1 DEF Solo
  <2> QED  BY <2>1
<1>10. SoloAlone'
  BY <1>9 DEF SoloAlone
<1>11. ToldGone'
  <2>1. SUFFICES ASSUME NEW q \in Procs, NEW b \in Addrs, sess'[q][b] # None
                 PROVE  /\ Leftover(q, b)' /\ sess'[q][b].char = None /\ q # Here => ~Keeps(q)'
                        /\ sess'[q][b].ipp # None => Leftover(q, b)' /\ sess'[q][b].ipp = Here
    BY <1>5 DEF ToldGone
  <2>2. CASE q = p /\ b = a
    BY <1>3, <1>4, <1>7, <2>2
  <2>3. CASE ~(q = p /\ b = a)
    BY <1>4, <1>6, <2>1, <2>3 DEF AgeInv, ToldGone
  <2> QED  BY <2>2, <2>3
<1>12. EntersHere'
  <2>1. SUFFICES ASSUME client.phase = "entering", client.proc # Here,
                        sess'[client.proc][client.addr] # None
                 PROVE  sess'[client.proc][client.addr].char # None
    BY <1>5 DEF EntersHere
  <2>2. client.proc \in Procs /\ client.addr \in Addrs
    BY DEF Handover, SessionTypeOK
  <2> QED  BY <1>4, <2>1, <2>2 DEF AgeInv, EntersHere
<1>13. Ages2'
  <2> SUFFICES ASSUME strays' <= 1
               PROVE  /\ \A q \in Procs, b \in Addrs : Expecting(q, b)' => chars'.v <= sess'[q][b].char.v
                      /\ \A q \in Procs, b \in Addrs : Loose(q, b)' =>
                           /\ strays' = 1 /\ sess'[q][b].char.v <= chars'.v
                           /\ \A x \in Procs, y \in Addrs : sess'[x][y] # None /\ sess'[x][y].char # None =>
                                sess'[q][b].char.v <= sess'[x][y].char.v
                           /\ \A x \in Procs, y \in Addrs : Loose(x, y)' => x = q /\ y = b
    BY DEF Ages2
  <2>1. /\ strays <= 1 /\ strays \in Nat /\ chars.v \in Int /\ chars'.v = chars.v
        /\ \A q \in Procs, b \in Addrs : Expecting(q, b) => chars.v <= sess[q][b].char.v
        /\ \A q \in Procs, b \in Addrs : Loose(q, b) =>
             /\ strays = 1 /\ sess[q][b].char.v <= chars.v
             /\ \A x \in Procs, y \in Addrs : sess[x][y] # None /\ sess[x][y].char # None =>
                  sess[q][b].char.v <= sess[x][y].char.v
             /\ \A x \in Procs, y \in Addrs : Loose(x, y) => x = q /\ y = b
    BY <1>1, VersionsAre DEF AgeInv, Ages2
  <2>2. sess'[p][a].char.v = t.char.v /\ chars.v <= t.char.v
    BY <1>3, <1>4, <2>1
  <2>3. ASSUME NEW q \in Procs, NEW b \in Addrs, Expecting(q, b)' PROVE chars'.v <= sess'[q][b].char.v
    <3>1. CASE q = p /\ b = a
      BY <2>1, <2>2, <3>1
    <3>2. CASE ~(q = p /\ b = a)
      BY <1>4, <2>1, <2>3, <3>2
    <3> QED  BY <3>1, <3>2
  <2>4. ASSUME NEW q \in Procs, NEW b \in Addrs, Loose(q, b)'
        PROVE  (q # p \/ b # a) /\ Loose(q, b) /\ sess'[q][b] = sess[q][b]
    <3>1. ~(q = p /\ b = a) /\ sess'[q][b] # None
      BY <1>7, <2>4 DEF Loose, Stuck
    <3>2. Stuck(q, b) /\ ~Solo(q, b)
      BY <1>4, <1>6, <2>4, <3>1 DEF Loose
    <3> QED  BY <1>4, <3>1, <3>2 DEF Loose, Solo
  <2>5. ASSUME NEW q \in Procs, NEW b \in Addrs, Loose(q, b)',
               NEW x \in Procs, NEW y \in Addrs, sess'[x][y] # None, sess'[x][y].char # None
        PROVE  sess'[q][b].char.v <= sess'[x][y].char.v
    <3>1. Loose(q, b) /\ sess'[q][b] = sess[q][b]
      BY <2>4, <2>5
    <3>2. CASE x = p /\ y = a
      <4>1. CASE t.char.v = chars.v
        BY <2>1, <2>2, <3>1, <3>2, <4>1
      <4>2. CASE Expecting(p, a) /\ t.char.v = sess[p][a].char.v
        <5>1. sess[p][a] # None /\ sess[p][a].char # None
          BY <4>2, ExpectingHas
        <5> QED  BY <2>1, <2>2, <3>1, <3>2, <4>2, <5>1
      <4> QED  BY <1>3, <4>1, <4>2
    <3>3. CASE ~(x = p /\ y = a)
      <4>1. sess'[x][y] = sess[x][y]
        BY <1>4, <3>3
      <4> QED  BY <2>1, <3>1, <2>5, <4>1
    <3> QED  BY <3>2, <3>3
  <2>6. ASSUME NEW q \in Procs, NEW b \in Addrs, Loose(q, b)'
        PROVE  /\ strays' = 1 /\ sess'[q][b].char.v <= chars'.v
               /\ \A x \in Procs, y \in Addrs : Loose(x, y)' => x = q /\ y = b
    BY <2>1, <2>4, <2>6
  <2> QED  BY <2>3, <2>5, <2>6
<1> QED  BY <1>8, <1>10, <1>11, <1>12, <1>13 DEF AgeInv

\* On another process the copy is stuck.  Where the character had not been sent on
\* yet it is the only one that can; else it is a loose one, behind everything.
LEMMA EnteredElsewhereAge ==
  ASSUME Handover, Handover', RowInv, AgeInv, NEW p \in Procs, NEW a \in Addrs, LoginHandled(p, a),
         sess[p][a].status # "Accepted", p # Here,
         (strays' = strays /\ sess[p][a].char # None) \/ strays' = strays + 1, client' = client
  PROVE  AgeInv'
<1>1. /\ sess[p][a] # None
      /\ pending' = pending /\ chars' = chars /\ toWorld' = toWorld /\ toMap' = toMap
  BY EnteredIs
<1>2. PICK t : sess' = [sess EXCEPT ![p][a] = t] /\ EnteredAs(p, a, t)
  BY EnteredIs
<1>3. /\ t.status = "Accepted" /\ t.shuttingDown = 0 /\ t.ipp = None /\ t.char # None
      /\ t.char.zone = None /\ row' = row /\ Leftover(p, a)
      /\ t.char.v = chars.v
  BY <1>1, <1>2, ExpectingIs DEF EnteredAs, Leftover
<1>4. /\ sess'[p][a] = t
      /\ \A q \in Procs, b \in Addrs : q # p \/ b # a =>
            /\ sess'[q][b] = sess[q][b]
            /\ InZone(q, b)' <=> InZone(q, b)
            /\ Expecting(q, b)' <=> Expecting(q, b)
            /\ Leftover(q, b)' <=> Leftover(q, b)
            /\ Departed(q, b)' <=> Departed(q, b)
            /\ Stuck(q, b)' <=> Stuck(q, b)
  BY <1>2, OthersAre
<1>5. Here' = Here /\ \A q \in Procs : Keeps(q)' <=> Keeps(q)
  BY <1>1, <1>3 DEF Here, Keeps
<1>6. /\ ~InZone(p, a)' /\ ~Leftover(p, a)' /\ ~Departed(p, a)' /\ ~Expecting(p, a)'
      /\ ~Stuck(p, a)
  BY <1>3, <1>4 DEF InZone, Leftover, Departed, Expecting, Stuck
<1>7. sess[p][a].char # None <=> Departed(p, a)
  BY <1>3 DEF Departed
<1>8. Departed(p, a) => /\ Keeps(p) /\ ~Announced
                        /\ \A q \in Procs, b \in Addrs : (q # p \/ b # a) /\ sess[q][b] # None => Stuck(q, b)
  BY DEF AgeInv, SoloAlone, Solo
<1>9. ~Departed(p, a) => ~Keeps(p) /\ strays' = strays + 1
  BY <1>1, <1>3, <1>7 DEF AgeInv, ToldGone
<1>10. \A q \in Procs, b \in Addrs : q # p \/ b # a => ~Solo(q, b)
  BY <1>1, <1>6 DEF AgeInv, SoloAlone
<1>11. StatusKnown'
  <2>1. SUFFICES ASSUME NEW q \in Procs, NEW b \in Addrs, sess'[q][b] # None
                 PROVE  /\ sess'[q][b].status = "Waiting" => Expecting(q, b)'
                        /\ sess'[q][b].status = "Accepted" => sess'[q][b].char # None
                        /\ sess'[q][b].shuttingDown = 1 => sess'[q][b].char # None /\ sess'[q][b].char.out # "zone"
                        /\ InZone(q, b)' => Keeps(q)'
    BY DEF StatusKnown
  <2>2. CASE q = p /\ b = a
    BY <1>3, <1>4, <1>6, <2>2
  <2>3. CASE ~(q = p /\ b = a)
    BY <1>4, <1>5, <2>1, <2>3 DEF AgeInv, StatusKnown
  <2> QED  BY <2>2, <2>3
<1>12. SoloAlone'
  <2>1. SUFFICES ASSUME NEW q \in Procs, NEW b \in Addrs, Solo(q, b)'
                 PROVE  /\ Keeps(q)' /\ ~Announced'
                        /\ \A x \in Procs, y \in Addrs :
                             (x # q \/ y # b) /\ sess'[x][y] # None => Stuck(x, y)'
    BY DEF SoloAlone
  <2>2. q = p /\ b = a
    BY <1>4, <1>5, <1>10, <2>1 DEF Solo
  <2>3. Keeps(p) /\ Departed(p, a)
    BY <1>5, <1>6, <1>9, <2>1, <2>2 DEF Solo
  <2>4. ~Announced'
    BY <1>1, <1>8, <2>3 DEF Announced, OnTheWay
  <2> QED  BY <1>4, <1>5, <1>8, <2>2, <2>3, <2>4
<1>13. ToldGone'
  <2>1. SUFFICES ASSUME NEW q \in Procs, NEW b \in Addrs, sess'[q][b] # None
                 PROVE  /\ Leftover(q, b)' /\ sess'[q][b].char = None /\ q # Here => ~Keeps(q)'
                        /\ sess'[q][b].ipp # None => Leftover(q, b)' /\ sess'[q][b].ipp = Here
    BY <1>5 DEF ToldGone
  <2>2. CASE q = p /\ b = a
    BY <1>3, <1>4, <1>6, <2>2
  <2>3. CASE ~(q = p /\ b = a)
    BY <1>4, <1>5, <2>1, <2>3 DEF AgeInv, ToldGone
  <2> QED  BY <2>2, <2>3
<1>14. EntersHere'
  <2>1. SUFFICES ASSUME client.phase = "entering", client.proc # Here,
                        sess'[client.proc][client.addr] # None
                 PROVE  sess'[client.proc][client.addr].char # None
    BY <1>5 DEF EntersHere
  <2>2. client.proc \in Procs /\ client.addr \in Addrs
    BY DEF Handover, SessionTypeOK
  <2> QED  BY <1>3, <1>4, <2>1, <2>2 DEF AgeInv, EntersHere
<1>15. Ages2'
  <2> SUFFICES ASSUME strays' <= 1
               PROVE  /\ \A q \in Procs, b \in Addrs : Expecting(q, b)' => chars'.v <= sess'[q][b].char.v
                      /\ \A q \in Procs, b \in Addrs : Loose(q, b)' =>
                           /\ strays' = 1 /\ sess'[q][b].char.v <= chars'.v
                           /\ \A x \in Procs, y \in Addrs : sess'[x][y] # None /\ sess'[x][y].char # None =>
                                sess'[q][b].char.v <= sess'[x][y].char.v
                           /\ \A x \in Procs, y \in Addrs : Loose(x, y)' => x = q /\ y = b
    BY DEF Ages2
  <2>1. /\ strays <= 1 /\ strays \in Nat /\ chars.v \in Int /\ chars'.v = chars.v
        /\ \A q \in Procs, b \in Addrs : Expecting(q, b) => chars.v <= sess[q][b].char.v
        /\ \A q \in Procs, b \in Addrs : Loose(q, b) =>
             /\ strays = 1 /\ sess[q][b].char.v <= chars.v
             /\ \A x \in Procs, y \in Addrs : sess[x][y] # None /\ sess[x][y].char # None =>
                  sess[q][b].char.v <= sess[x][y].char.v
             /\ \A x \in Procs, y \in Addrs : Loose(x, y) => x = q /\ y = b
    BY <1>1, VersionsAre DEF AgeInv, Ages2
  <2>2. sess'[p][a].char.v = chars.v
    BY <1>3, <1>4
  <2>3. ASSUME NEW q \in Procs, NEW b \in Addrs, Expecting(q, b)' PROVE chars'.v <= sess'[q][b].char.v
    <3>1. ~(q = p /\ b = a)
      BY <1>6, <2>3
    <3> QED  BY <1>4, <2>1, <2>3, <3>1
  <2>4. ASSUME NEW q \in Procs, NEW b \in Addrs, Loose(q, b)', q # p \/ b # a
        PROVE  Loose(q, b) /\ sess'[q][b] = sess[q][b]
    BY <1>4, <1>5, <2>4 DEF Loose
  <2>5. CASE Departed(p, a)
    <3>1. ASSUME NEW q \in Procs, NEW b \in Addrs, Loose(q, b)'
          PROVE  (q # p \/ b # a) /\ Loose(q, b) /\ sess'[q][b] = sess[q][b]
      <4>1. ~(q = p /\ b = a)
        BY <1>5, <1>8, <2>5, <3>1 DEF Loose
      <4> QED  BY <2>4, <3>1, <4>1
    <3>2. ASSUME NEW q \in Procs, NEW b \in Addrs, Loose(q, b)',
                 NEW x \in Procs, NEW y \in Addrs, sess'[x][y] # None, sess'[x][y].char # None
          PROVE  sess'[q][b].char.v <= sess'[x][y].char.v
      <4>1. CASE x = p /\ y = a
        BY <2>1, <2>2, <3>1, <3>2, <4>1
      <4>2. CASE ~(x = p /\ y = a)
        <5>1. sess'[x][y] = sess[x][y]
          BY <1>4, <4>2
        <5> QED  BY <2>1, <3>1, <3>2, <5>1
      <4> QED  BY <4>1, <4>2
    <3>3. ASSUME NEW q \in Procs, NEW b \in Addrs, Loose(q, b)'
          PROVE  /\ strays' = 1 /\ sess'[q][b].char.v <= chars'.v
                 /\ \A x \in Procs, y \in Addrs : Loose(x, y)' => x = q /\ y = b
      BY <2>1, <3>1, <3>3
    <3> QED  BY <2>3, <3>2, <3>3
  <2>6. CASE ~Departed(p, a)
    <3>1. strays = 0 /\ strays' = 1
      BY <1>9, <2>1, <2>6
    <3>2. \A q \in Procs, b \in Addrs : ~Loose(q, b) /\ ~Solo(q, b)
      BY <1>6, <1>10, <2>1, <2>6, <3>1 DEF Solo
    <3>3. ASSUME NEW q \in Procs, NEW b \in Addrs, Loose(q, b)' PROVE q = p /\ b = a
      BY <2>4, <3>2, <3>3
    <3>4. ASSUME NEW x \in Procs, NEW y \in Addrs, sess'[x][y] # None, sess'[x][y].char # None
          PROVE  chars.v <= sess'[x][y].char.v
      <4>1. CASE x = p /\ y = a
        BY <2>1, <2>2, <4>1
      <4>2. CASE ~(x = p /\ y = a)
        <5>1. sess'[x][y] = sess[x][y]
          BY <1>4, <4>2
        <5>2. sess[x][y].status \in {"Waiting", "Accepted", "PendingZone"}
          BY <3>4, <5>1, SessionIs DEF Session
        <5>3. Expecting(x, y)
          BY <3>2, <3>4, <5>1, <5>2
          DEF AgeInv, StatusKnown, Solo, Loose, Stuck, Departed, Leftover, Expecting
        <5> QED  BY <2>1, <5>1, <5>3
      <4> QED  BY <4>1, <4>2
    <3> QED  BY <2>1, <2>2, <2>3, <3>1, <3>3, <3>4
  <2> QED  BY <2>5, <2>6
<1> QED  BY <1>11, <1>12, <1>13, <1>14, <1>15 DEF AgeInv

\* An 0x00A: the client sends it only to where it has been told to go.
LEMMA LoginAge ==
  ASSUME Handover, Handover', RowInv, AgeInv, NEW p \in Procs, NEW a \in Addrs, Login(p, a),
         client' = client,
         \/ strays' = strays /\ (p # Here /\ sess[p][a] # None => sess[p][a].char # None)
         \/ strays' = strays + 1
  PROVE  AgeInv'
<1>1. CASE LoginCreates(p, a)
  BY <1>1, LoginCreatesAge
<1>2. CASE LoginHandled(p, a)
  <2>1. sess[p][a] # None
    BY <1>2 DEF LoginHandled
  <2>2. CASE sess[p][a].status = "Accepted"
    BY <1>2, <2>2, AcceptedAgainAge
  <2>3. CASE sess[p][a].status # "Accepted" /\ p = Here
    BY <1>2, <2>3, EnteredHereAge
  <2>4. CASE sess[p][a].status # "Accepted" /\ p # Here
    <3>1. (strays' = strays /\ sess[p][a].char # None) \/ strays' = strays + 1
      BY <2>1, <2>4
    <3> QED  BY <1>2, <2>4, <3>1, EnteredElsewhereAge
  <2> QED  BY <2>2, <2>3, <2>4
<1>3. CASE LoginUnloadable(p, a)
  BY <1>3, UnloadableAge
<1> QED  BY <1>1, <1>2, <1>3 DEF Login

-----------------------------------------------------------------------------
\* The client is told where to go, or was to be: the row has gone ahead, and whoever
\* else has a copy is stuck with it.
LEMMA SendZoneOutAge ==
  ASSUME Handover, Handover', RowInv, AgeInv, NEW p \in Procs, NEW a \in Addrs, SendZoneOut(p, a),
         client.phase = "playing", strays' = strays
  PROVE  AgeInv'
<1> DEFINE s == sess[p][a]
           next == Host[s.char.dest]
           u == [s EXCEPT !.status = "PendingZone", !.char = None, !.ipp = next]
           t == Rekeyed(u)
           k == [server |-> next, seen |-> FALSE, key |-> Incremented(s.key), waited |-> 0]
<1>1. /\ s # None /\ s.char # None /\ s.char.out = "zone"
      /\ row' = IF row = None THEN None ELSE k
      /\ sess' = [sess EXCEPT ![p][a] = t] /\ Redirected(next)
      /\ pending' = pending /\ chars' = chars /\ toMap' = toMap
  BY DEF SendZoneOut
<1>2. s \in Session
  BY <1>1, SessionIs
<1>3. Leftover(p, a) /\ next = Here /\ Departed(p, a)
  BY <1>1 DEF RowInv, Departing, Here, Departed
<1>4. /\ Keeps(p)
      /\ \A q \in Procs, b \in Addrs : (q # p \/ b # a) /\ sess[q][b] # None => Stuck(q, b)
  BY <1>3 DEF AgeInv, SoloAlone, Solo
<1>5. t.status = "PendingZone" /\ t.char = None /\ t.shuttingDown = s.shuttingDown /\ t.ipp = Here
  <2>1. /\ u.status = "PendingZone" /\ u.char = None /\ u.shuttingDown = s.shuttingDown /\ u.ipp = Here
        /\ u \in [DOMAIN u -> {u[x] : x \in DOMAIN u}]
        /\ DOMAIN u = DOMAIN s /\ {"status", "char", "shuttingDown", "ipp"} \subseteq DOMAIN s
    BY <1>2, <1>3 DEF Session
  <2> HIDE DEF u
  <2> QED  BY <2>1 DEF Rekeyed
<1>6. s.shuttingDown # 1
  BY <1>1 DEF AgeInv, StatusKnown
<1>7. k.seen = FALSE
  OBVIOUS
<1> HIDE DEF t, k
<1>8. Here' = Here /\ \A q \in Procs : ~Keeps(q)'
  BY <1>1, <1>7 DEF Here, Keeps
<1>9. /\ sess'[p][a] = t
      /\ \A q \in Procs, b \in Addrs : q # p \/ b # a =>
            /\ sess'[q][b] = sess[q][b]
            /\ InZone(q, b)' <=> InZone(q, b)
            /\ Expecting(q, b)' <=> Expecting(q, b)
            /\ Leftover(q, b)' <=> Leftover(q, b)
            /\ Departed(q, b)' <=> Departed(q, b)
            /\ Stuck(q, b)' <=> Stuck(q, b)
  BY <1>1, OthersAre
<1>10. /\ ~InZone(p, a)' /\ ~Departed(p, a)' /\ ~Stuck(p, a)' /\ ~Expecting(p, a)'
       /\ sess'[p][a] # None => Leftover(p, a)'
  BY <1>5, <1>9 DEF InZone, Departed, Stuck, Expecting, Leftover
<1>11. ASSUME NEW q \in Procs, NEW b \in Addrs, ~(q = p /\ b = a), sess'[q][b] # None
       PROVE  /\ q # p /\ sess'[q][b] = sess[q][b] /\ Stuck(q, b) /\ ~Keeps(q)
              /\ ~InZone(q, b)' /\ ~Leftover(q, b)' /\ ~Departed(q, b)' /\ ~Expecting(q, b)'
  <2>1. sess'[q][b] = sess[q][b] /\ Stuck(q, b)
    BY <1>4, <1>9, <1>11
  <2>2. q # p /\ ~Keeps(q)
    BY <1>1, <1>4, <1>11, <2>1 DEF Handover, OnePerProcess, Keeps
  <2> QED  BY <1>9, <1>11, <2>1, <2>2 DEF Stuck, InZone, Leftover, Departed, Expecting
<1>12. StatusKnown'
  <2>1. SUFFICES ASSUME NEW q \in Procs, NEW b \in Addrs, sess'[q][b] # None
                 PROVE  /\ sess'[q][b].status = "Waiting" => Expecting(q, b)'
                        /\ sess'[q][b].status = "Accepted" => sess'[q][b].char # None
                        /\ sess'[q][b].shuttingDown = 1 => sess'[q][b].char # None /\ sess'[q][b].char.out # "zone"
                        /\ InZone(q, b)' => Keeps(q)'
    BY DEF StatusKnown
  <2>2. CASE q = p /\ b = a
    BY <1>5, <1>6, <1>9, <1>10, <2>2
  <2>3. CASE ~(q = p /\ b = a)
    BY <1>9, <1>11, <2>1, <2>3 DEF AgeInv, StatusKnown
  <2> QED  BY <2>2, <2>3
<1>13. SoloAlone'
  <2>1. \A q \in Procs, b \in Addrs : ~Solo(q, b)'
    BY <1>8, <1>10, <1>11 DEF Solo, Departed, Leftover
  <2> QED  BY <2>1 DEF SoloAlone
<1>14. ToldGone'
  <2>1. SUFFICES ASSUME NEW q \in Procs, NEW b \in Addrs, sess'[q][b] # None
                 PROVE  sess'[q][b].ipp # None => Leftover(q, b)' /\ sess'[q][b].ipp = Here
    BY <1>8 DEF ToldGone
  <2>2. CASE q = p /\ b = a
    BY <1>5, <1>9, <1>10, <2>1, <2>2
  <2>3. CASE ~(q = p /\ b = a)
    BY <1>9, <1>11, <2>1, <2>3 DEF AgeInv, ToldGone
  <2> QED  BY <2>2, <2>3
<1>15. EntersHere'
  <2>1. client'.phase # "entering" \/ client'.proc = Here
    BY <1>1, <1>3 DEF Redirected, Handover, SessionTypeOK
  <2> QED  BY <1>8, <2>1 DEF EntersHere
<1>16. Ages2'
  <2> SUFFICES ASSUME strays' <= 1
               PROVE  /\ \A q \in Procs, b \in Addrs : Expecting(q, b)' => chars'.v <= sess'[q][b].char.v
                      /\ \A q \in Procs, b \in Addrs : Loose(q, b)' =>
                           /\ strays' = 1 /\ sess'[q][b].char.v <= chars'.v
                           /\ \A x \in Procs, y \in Addrs : sess'[x][y] # None /\ sess'[x][y].char # None =>
                                sess'[q][b].char.v <= sess'[x][y].char.v
                           /\ \A x \in Procs, y \in Addrs : Loose(x, y)' => x = q /\ y = b
    BY DEF Ages2
  <2>1. /\ chars'.v = chars.v
        /\ \A q \in Procs, b \in Addrs : Loose(q, b) =>
             /\ strays = 1 /\ sess[q][b].char.v <= chars.v
             /\ \A x \in Procs, y \in Addrs : sess[x][y] # None /\ sess[x][y].char # None =>
                  sess[q][b].char.v <= sess[x][y].char.v
             /\ \A x \in Procs, y \in Addrs : Loose(x, y) => x = q /\ y = b
    BY <1>1 DEF AgeInv, Ages2
  <2>2. ASSUME NEW q \in Procs, NEW b \in Addrs, Expecting(q, b)' PROVE FALSE
    <3>1. sess'[q][b] # None /\ ~(q = p /\ b = a)
      BY <1>10, <2>2 DEF Expecting, InZone
    <3> QED  BY <1>11, <2>2, <3>1
  <2>3. ASSUME NEW q \in Procs, NEW b \in Addrs, Loose(q, b)'
        PROVE  Loose(q, b) /\ sess'[q][b] = sess[q][b]
    <3>1. sess'[q][b] # None /\ ~(q = p /\ b = a)
      BY <1>10, <2>3 DEF Loose, Stuck
    <3> QED  BY <1>11, <3>1 DEF Loose
  <2>4. ASSUME NEW x \in Procs, NEW y \in Addrs, sess'[x][y] # None, sess'[x][y].char # None
        PROVE  sess'[x][y] = sess[x][y]
    BY <1>5, <1>9, <2>4
  <2> QED  BY <2>1, <2>2, <2>3, <2>4
<1> QED  BY <1>12, <1>13, <1>14, <1>15, <1>16 DEF AgeInv

\* The character leaves its zone, with what it has been saved with: whoever else
\* has a copy is stuck with it, and nobody is announced.
LEMMA LeaveAge ==
  ASSUME Handover, Handover', RowInv, AgeInv, NEW p \in Procs, NEW a \in Addrs, NEW t,
         Delivered, InZone(p, a), sess' = [sess EXCEPT ![p][a] = t],
         t.status = "PendingZone", t.char # None, t.char.zone = None, t.char.v = sess[p][a].char.v,
         t.ipp = None, t.shuttingDown = 1 => t.char.out # "zone",
         chars'.v = sess[p][a].char.v, row' = row, pending' = pending, toWorld' = toWorld,
         toMap' = toMap, client' = client, strays' = strays
  PROVE  AgeInv'
<1>1. /\ Keeps(p) /\ p = Here /\ Expecting(p, a) /\ sess[p][a] # None /\ sess[p][a].char # None
  BY InZoneFacts DEF AgeInv, StatusKnown, InZone, Here, Expecting
<1>2. /\ \A x \in Procs \cup {LoginServer} : Posted(toWorld[x]) = {}
      /\ \A q \in Procs : Posted(toMap[q]) = {}
  BY Queues, NoPost DEF Delivered
<1>3. ~Announced'
  <2>1. \A q \in Procs : pending[q] = None
    BY <1>1 DEF RowInv, ExpectedHere, Handover, OnePerProcess
  <2> QED  BY <1>2, <2>1 DEF Announced, OnTheWay
<1>4. /\ sess'[p][a] = t
      /\ \A q \in Procs, b \in Addrs : q # p \/ b # a =>
            /\ sess'[q][b] = sess[q][b]
            /\ InZone(q, b)' <=> InZone(q, b)
            /\ Expecting(q, b)' <=> Expecting(q, b)
            /\ Leftover(q, b)' <=> Leftover(q, b)
            /\ Departed(q, b)' <=> Departed(q, b)
            /\ Stuck(q, b)' <=> Stuck(q, b)
  BY OthersAre
<1>5. \A q \in Procs : Keeps(q)' <=> Keeps(q)
  BY DEF Keeps
<1>6. /\ ~InZone(p, a)' /\ ~Stuck(p, a)'
      /\ sess'[p][a].status # "Waiting"
  BY <1>4 DEF InZone, Stuck
<1>7. ASSUME NEW q \in Procs, NEW b \in Addrs, ~(q = p /\ b = a), sess'[q][b] # None
      PROVE  /\ q # p /\ sess'[q][b] = sess[q][b] /\ ~Keeps(q)
             /\ Stuck(q, b) /\ ~InZone(q, b) /\ ~Leftover(q, b) /\ ~Expecting(q, b)
  <2>1. sess'[q][b] = sess[q][b] /\ q # p
    BY <1>1, <1>4, <1>7 DEF Handover, OnePerProcess
  <2>2. ~Expecting(q, b) /\ ~InZone(q, b) /\ ~Keeps(q)
    BY <1>1, <2>1, ExpectingIs DEF Expecting, Keeps
  <2>3. ~Leftover(q, b)
    <3>1. ~KillOnTheWay(q)
      BY <1>1, <1>2 DEF KillOnTheWay
    <3> QED  BY <1>1, <2>1, <3>1 DEF RowInv, LeftoversEnd
  <2>4. sess[q][b].status \in {"Waiting", "Accepted", "PendingZone"}
    BY <1>7, <2>1, SessionIs DEF Session
  <2>5. sess[q][b].status = "Accepted"
    BY <1>7, <2>1, <2>2, <2>3, <2>4 DEF Leftover, AgeInv, StatusKnown
  <2> QED  BY <1>7, <2>1, <2>2, <2>3, <2>5 DEF Stuck
<1>8. StatusKnown'
  <2>1. SUFFICES ASSUME NEW q \in Procs, NEW b \in Addrs, sess'[q][b] # None
                 PROVE  /\ sess'[q][b].status = "Waiting" => Expecting(q, b)'
                        /\ sess'[q][b].status = "Accepted" => sess'[q][b].char # None
                        /\ sess'[q][b].shuttingDown = 1 => sess'[q][b].char # None /\ sess'[q][b].char.out # "zone"
                        /\ InZone(q, b)' => Keeps(q)'
    BY DEF StatusKnown
  <2>2. CASE q = p /\ b = a
    BY <1>4, <1>6, <2>2
  <2>3. CASE ~(q = p /\ b = a)
    BY <1>4, <1>5, <1>7, <2>1, <2>3 DEF AgeInv, StatusKnown
  <2> QED  BY <2>2, <2>3
<1>9. SoloAlone'
  <2>1. SUFFICES ASSUME NEW q \in Procs, NEW b \in Addrs, Solo(q, b)'
                 PROVE  /\ Keeps(q)' /\ ~Announced'
                        /\ \A x \in Procs, y \in Addrs :
                             (x # q \/ y # b) /\ sess'[x][y] # None => Stuck(x, y)'
    BY DEF SoloAlone
  <2>2. sess'[q][b] # None
    BY <2>1 DEF Solo, Departed, Leftover, Stuck
  <2>3. q = p /\ b = a
    BY <1>4, <1>5, <1>7, <2>1, <2>2 DEF Solo, Departed
  <2> QED  BY <1>1, <1>3, <1>4, <1>5, <1>7, <2>3
<1>10. ToldGone'
  <2>1. SUFFICES ASSUME NEW q \in Procs, NEW b \in Addrs, sess'[q][b] # None
                 PROVE  /\ (Leftover(q, b)' => sess'[q][b].char # None)
                        /\ sess'[q][b].ipp = None
    BY DEF ToldGone
  <2>2. CASE q = p /\ b = a
    BY <1>4, <2>2
  <2>3. CASE ~(q = p /\ b = a)
    BY <1>4, <1>7, <2>1, <2>3 DEF AgeInv, ToldGone
  <2> QED  BY <2>2, <2>3
<1>11. ASSUME NEW q \in Procs, NEW b \in Addrs, sess'[q][b] # None PROVE sess'[q][b].char # None
  <2>1. CASE q = p /\ b = a
    BY <1>4, <2>1
  <2>2. CASE ~(q = p /\ b = a)
    BY <1>7, <1>11, <2>2 DEF AgeInv, StatusKnown, Stuck
  <2> QED  BY <2>1, <2>2
<1>12. EntersHere'
  <2>1. client.proc \in Procs /\ client.addr \in Addrs
    BY DEF Handover, SessionTypeOK
  <2> QED  BY <1>11, <2>1 DEF EntersHere
<1>13. Ages2'
  <2> SUFFICES ASSUME strays' <= 1
               PROVE  /\ \A q \in Procs, b \in Addrs : Expecting(q, b)' => chars'.v <= sess'[q][b].char.v
                      /\ \A q \in Procs, b \in Addrs : Loose(q, b)' =>
                           /\ strays' = 1 /\ sess'[q][b].char.v <= chars'.v
                           /\ \A x \in Procs, y \in Addrs : sess'[x][y] # None /\ sess'[x][y].char # None =>
                                sess'[q][b].char.v <= sess'[x][y].char.v
                           /\ \A x \in Procs, y \in Addrs : Loose(x, y)' => x = q /\ y = b
    BY DEF Ages2
  <2>1. \A q \in Procs, b \in Addrs : Loose(q, b) =>
             /\ strays = 1
             /\ \A x \in Procs, y \in Addrs : sess[x][y] # None /\ sess[x][y].char # None =>
                  sess[q][b].char.v <= sess[x][y].char.v
             /\ \A x \in Procs, y \in Addrs : Loose(x, y) => x = q /\ y = b
    BY DEF AgeInv, Ages2
  <2>2. ASSUME NEW q \in Procs, NEW b \in Addrs, Expecting(q, b)' PROVE FALSE
    <3>1. sess'[q][b] # None /\ ~(q = p /\ b = a)
      BY <1>6, <2>2 DEF Expecting, InZone
    <3> QED  BY <1>4, <1>7, <2>2, <3>1
  <2>3. ASSUME NEW q \in Procs, NEW b \in Addrs, Loose(q, b)'
        PROVE  Loose(q, b) /\ sess'[q][b] = sess[q][b]
    <3>1. sess'[q][b] # None /\ ~(q = p /\ b = a)
      BY <1>6, <2>3 DEF Loose, Stuck
    <3> QED  BY <1>7, <3>1 DEF Loose
  <2>4. ASSUME NEW q \in Procs, NEW b \in Addrs, Loose(q, b)',
               NEW x \in Procs, NEW y \in Addrs, sess'[x][y] # None, sess'[x][y].char # None
        PROVE  sess'[q][b].char.v <= sess'[x][y].char.v
    <3>1. Loose(q, b) /\ sess'[q][b] = sess[q][b]
      BY <2>3, <2>4
    <3>2. CASE x = p /\ y = a
      BY <1>1, <1>4, <2>1, <3>1, <3>2
    <3>3. CASE ~(x = p /\ y = a)
      <4>1. sess'[x][y] = sess[x][y]
        BY <1>4, <3>3
      <4> QED  BY <2>1, <2>4, <3>1, <4>1
    <3> QED  BY <3>2, <3>3
  <2>5. ASSUME NEW q \in Procs, NEW b \in Addrs, Loose(q, b)'
        PROVE  /\ strays' = 1 /\ sess'[q][b].char.v <= chars'.v
               /\ \A x \in Procs, y \in Addrs : Loose(x, y)' => x = q /\ y = b
    BY <1>1, <2>1, <2>3, <2>5
  <2> QED  BY <2>2, <2>4, <2>5
<1> QED  BY <1>8, <1>9, <1>10, <1>12, <1>13 DEF AgeInv

-----------------------------------------------------------------------------
\* Who leaves a zone has the same data, and was not told where to go.
LEMMA ZonedOutKeeps ==
  ASSUME NEW s \in Session, s.char \in Character, NEW z \in Zones, NEW y \in Zones
  PROVE  LET t == ZonedOut(s, z, y)
         IN  t.ipp = s.ipp /\ t.char.v = s.char.v /\ t.char \in Character
<1> DEFINE c == s.char
           d == [c EXCEPT !.dest = z, !.prev = y]
           e == [d EXCEPT !.zone = None, !.out = "zone"]
           s1 == [s EXCEPT !.char = d]
<1>1. s1 = [s EXCEPT !.char.dest = z, !.char.prev = y]
  BY DEF Session, Character
<1>2. e.v = c.v /\ e \in Character /\ d \in Character
  BY DEF Character
<1>3. s1 \in Session /\ s1.char = d /\ s1.ipp = s.ipp
  BY <1>2 DEF Session
<1>4. Removed(s1, 2, "zone") = [s1 EXCEPT !.status = "PendingZone", !.shuttingDown = 2, !.char = e]
  BY <1>3 DEF Removed
<1> HIDE DEF e, d
<1>5. \A x \in Session : LET w == [x EXCEPT !.status = "PendingZone", !.shuttingDown = 2, !.char = e]
                         IN  w.ipp = x.ipp /\ w.char = e
  BY DEF Session
<1> HIDE DEF s1
<1> QED  BY <1>1, <1>2, <1>3, <1>4, <1>5 DEF ZonedOut

\* The character leaves for another zone.
LEMMA ZoneOutAge ==
  ASSUME Handover, Handover', RowInv, AgeInv, NEW p \in Procs, NEW a \in Addrs, ZoneOut(p, a)
  PROVE  AgeInv'
<1> DEFINE s == sess[p][a]
           c == s.char
           prev(z) == IF z = c.zone THEN c.prev ELSE c.zone
           t(z) == ZonedOut(s, z, c.zone)
<1>1. /\ Delivered /\ InZone(p, a) /\ s.status = "Accepted"
      /\ row' = row /\ pending' = pending /\ toWorld' = toWorld /\ toMap' = toMap
      /\ client' = client /\ strays' = strays
  BY DEF ZoneOut, ipc
<1>2. s # None /\ s \in Session /\ c \in Character /\ c.zone \in Zones
  BY <1>1, InZoneFacts
<1>3. PICK z \in Zones : /\ chars' = [v |-> c.v, zone |-> z, prev |-> prev(z)]
                         /\ sess' = [sess EXCEPT ![p][a] = t(z)]
  BY DEF ZoneOut, ZonedOut
<1>4. /\ t(z).status = "PendingZone" /\ t(z).shuttingDown = 2 /\ t(z).char.zone = None
      /\ t(z).ipp = s.ipp /\ t(z).char.v = c.v /\ t(z).char \in Character
  BY <1>2, RemovedIs, ZonedOutKeeps
<1> HIDE DEF t
<1>5. s.ipp = None
  BY <1>1, <1>2 DEF AgeInv, ToldGone, Leftover
<1>6. t(z).char # None /\ t(z).shuttingDown # 1 /\ t(z).ipp = None
  BY <1>4, <1>5, NoneAssumption
<1>7. chars'.v = c.v
  BY <1>3
<1> QED  BY <1>1, <1>3, <1>4, <1>6, <1>7, LeaveAge

\* The character leaves for good.
LEMMA LogOutAge ==
  ASSUME Handover, Handover', RowInv, AgeInv, NEW p \in Procs, NEW a \in Addrs, LogOut(p, a)
  PROVE  AgeInv'
<1> DEFINE s == sess[p][a]
           d == [s.char EXCEPT !.zone = None, !.out = "logout"]
           t == [s EXCEPT !.status = "PendingZone", !.shuttingDown = 1, !.char = d]
<1>1. /\ Delivered /\ InZone(p, a) /\ s.status = "Accepted"
      /\ s # None /\ s \in Session /\ s.char \in Character
      /\ chars' = [chars EXCEPT !.v = s.char.v]
      /\ pending' = pending /\ row' = row /\ toWorld' = toWorld /\ toMap' = toMap
      /\ client' = client /\ strays' = strays
  BY InZoneFacts DEF LogOut, ipc
<1>2. sess' = [sess EXCEPT ![p][a] = t]
  BY <1>1 DEF LogOut, Removed, Handover, SessionTypeOK, Session
<1>3. d.zone = None /\ d.out = "logout" /\ d.v = s.char.v /\ d \in Character
  BY <1>1 DEF Character
<1> HIDE DEF d
<1>4. t.status = "PendingZone" /\ t.char = d /\ t.ipp = s.ipp
  BY <1>1 DEF Session
<1> HIDE DEF t
<1>5. s.ipp = None
  BY <1>1 DEF AgeInv, ToldGone, Leftover
<1>6. /\ t.char # None /\ t.char.zone = None /\ t.char.v = s.char.v /\ t.ipp = None
      /\ t.char.out # "zone"
  BY <1>3, <1>4, <1>5, NoneAssumption
<1>7. chars'.v = s.char.v
  BY <1>1 DEF Handover, SessionTypeOK
<1> QED  BY <1>1, <1>2, <1>4, <1>6, <1>7, LeaveAge

\* A datagram of the client that plays.
LEMMA ClientSendsAge ==
  ASSUME Handover, Handover', RowInv, AgeInv, ClientSends
  PROVE  AgeInv'
<1> DEFINE p == client.proc
           a == client.addr
<1>1. p \in Procs /\ a \in Addrs /\ client.phase = "playing" /\ strays' = strays
  BY DEF ClientSends, Handover, SessionTypeOK
<1> HIDE DEF p, a
<1>2. CASE PacketAnswered(p, a)
  BY <1>1, <1>2, PacketAge
<1>3. CASE SendZoneOut(p, a)
  BY <1>1, <1>3, SendZoneOutAge
<1>4. CASE SendLogOut(p, a)
  BY <1>1, <1>4, SendLogOutAge
<1>5. CASE SendZoneOutAgain(p, a)
  BY <1>1, <1>5, AgainAge
<1> QED  BY <1>2, <1>3, <1>4, <1>5 DEF ClientSends, p, a

\* At first there is no session.
LEMMA InitAge == Init => AgeInv
<1> SUFFICES ASSUME Init PROVE AgeInv
  OBVIOUS
<1>1. /\ \A p \in Procs, a \in Addrs : sess[p][a] = None
      /\ client.phase # "entering"
  BY DEF Init
<1>2. \A p \in Procs, a \in Addrs : /\ ~Expecting(p, a) /\ ~Stuck(p, a) /\ ~Departed(p, a)
                                    /\ ~Solo(p, a) /\ ~Loose(p, a)
  BY <1>1 DEF Expecting, InZone, Stuck, Departed, Leftover, Solo, Loose
<1> QED  BY <1>1, <1>2 DEF AgeInv, StatusKnown, SoloAlone, ToldGone, EntersHere, Ages2

\* Every step keeps the copies in order.
LEMMA NextAge == Handover /\ Handover' /\ RowInv /\ AgeInv /\ [Next]_vars => AgeInv'
<1> SUFFICES ASSUME Handover, Handover', RowInv, AgeInv, [Next]_vars PROVE AgeInv'
  OBVIOUS
<1>1. CASE Authenticate \/ Vanish \/ Welcomed
  BY <1>1, PlayerAge
<1>2. CASE ClientSendsLogin
  <2>1. PICK p \in Procs, a \in Addrs : p = client.proc /\ a = client.addr
    BY DEF Handover, SessionTypeOK
  <2>2. Login(p, a) /\ client' = client /\ strays' = strays /\ client.phase = "entering"
    BY <1>2, <2>1 DEF ClientSendsLogin
  <2>3. p # Here /\ sess[p][a] # None => sess[p][a].char # None
    BY <2>1, <2>2 DEF AgeInv, EntersHere
  <2> QED  BY <2>2, <2>3, LoginAge
<1>3. CASE ClientSends
  BY <1>3, ClientSendsAge
<1>4. ASSUME NEW a \in Addrs, SelectCharacter(a) PROVE AgeInv'
  BY <1>4, SelectCharacterAge
<1>5. ASSUME NEW p \in Procs, NEW a \in Addrs, LateLogin(p, a) PROVE AgeInv'
  BY <1>5, LoginAge DEF LateLogin
<1>6. ASSUME NEW p \in Procs, NEW a \in Addrs, Play(p, a) \/ SaveChar(p, a) PROVE AgeInv'
  BY <1>6, PlayAge
<1>7. ASSUME NEW p \in Procs, NEW a \in Addrs, ZoneOut(p, a) PROVE AgeInv'
  BY <1>7, ZoneOutAge
<1>8. ASSUME NEW p \in Procs, NEW a \in Addrs, LogOut(p, a) PROVE AgeInv'
  BY <1>8, LogOutAge
<1>9. ASSUME NEW p \in Procs, Crash(p) PROVE AgeInv'
  BY <1>9, CrashAge
<1>10. CASE Cleanup
  BY <1>10, CleanupAge
<1>11. CASE Deliver
  BY <1>11, WorldHandlesAge, MapHandlesAge DEF Deliver
<1>12. CASE Tick
  BY <1>12, TickAge
<1>13. CASE UNCHANGED vars
  <2>1. /\ sess' = sess /\ pending' = pending /\ row' = row /\ chars' = chars
        /\ toWorld' = toWorld /\ toMap' = toMap /\ client' = client /\ strays' = strays
    BY <1>13 DEF vars
  <2>2. ClientKept
    BY <2>1 DEF ClientKept
  <2> QED  BY <2>1, <2>2, AllAreKept, AsideAge
<1> QED  BY <1>1, <1>2, <1>3, <1>4, <1>5, <1>6, <1>7, <1>8, <1>9, <1>10, <1>11, <1>12, <1>13
         DEF Next

\* Who may play is not behind what is saved, as long as one 0x00A at most has come
\* late; the copy made for that one is behind everything (LoadChar in the 0x00A
\* handler, and removeCharFromZone, which saves whatever it takes from a zone).
THEOREM AgeInvHolds == Spec => [](Handover /\ RowInv /\ AgeInv)
<1>1. Init => Handover /\ RowInv /\ AgeInv
  BY InitHandover, InitRow, InitAge
<1>2. Handover /\ RowInv /\ AgeInv /\ [Next]_vars => (Handover /\ RowInv /\ AgeInv)'
  <2>1. Handover /\ [Next]_vars => Handover'
    BY NextHandover
  <2> QED  BY <2>1, NextRow, NextAge
<1> QED  BY <1>1, <1>2, PTL DEF Spec

\* What a step saves is what a session has.
LEMMA StepSaves ==
  ASSUME Handover, [Next]_vars
  PROVE  Saves
<1>1. ASSUME NEW p \in Procs, NEW a \in Addrs, SaveChar(p, a) \/ ZoneOut(p, a) \/ LogOut(p, a)
      PROVE  Saves
  <2>1. InZone(p, a)
    BY <1>1 DEF SaveChar, ZoneOut, LogOut
  <2>2. chars'.v = sess[p][a].char.v
    <3>1. CASE ZoneOut(p, a)
      <4>1. PICK z \in Zones :
              chars' = [v |-> sess[p][a].char.v, zone |-> z,
                        prev |-> IF z = sess[p][a].char.zone THEN sess[p][a].char.prev
                                 ELSE sess[p][a].char.zone]
        BY <3>1 DEF ZoneOut
      <4> QED  BY <4>1
    <3>2. CASE SaveChar(p, a) \/ LogOut(p, a)
      BY <3>2 DEF SaveChar, LogOut, Handover, SessionTypeOK
    <3> QED  BY <1>1, <3>1, <3>2
  <2> QED  BY <2>1, <2>2 DEF Saves, InZone
<1>2. ASSUME NEW p \in Procs, NEW a \in Addrs, SessionTimesOut(p, a) PROVE Saves
  <2>1. sess[p][a] # None /\ sess'[p][a] = None
    BY <1>2 DEF SessionTimesOut, Handover, SessionTypeOK
  <2>2. CASE sess[p][a].char = None
    BY <1>2, <2>2 DEF SessionTimesOut, Saves
  <2>3. CASE sess[p][a].char # None
    <3>1. chars'.v = sess[p][a].char.v
      BY <1>2, <2>3 DEF SessionTimesOut, Handover, SessionTypeOK
    <3> QED  BY <2>1, <2>3, <3>1 DEF Saves
  <2> QED  BY <2>2, <2>3
<1>3. CASE chars' = chars
  BY <1>3 DEF Saves
<1>4. CASE Next
  <2>1. ASSUME NEW p \in Procs, NEW a \in Addrs, Login(p, a) PROVE chars' = chars
    BY <2>1 DEF Login, LoginCreates, LoginHandled, LoginUnloadable
  <2>2. CASE ClientSendsLogin
    <3>1. client.proc \in Procs /\ client.addr \in Addrs
      BY DEF Handover, SessionTypeOK
    <3> QED  BY <1>3, <2>1, <2>2, <3>1 DEF ClientSendsLogin
  <2>3. ASSUME NEW p \in Procs, NEW a \in Addrs, LateLogin(p, a) PROVE Saves
    BY <1>3, <2>1, <2>3 DEF LateLogin
  <2>4. CASE ClientSends
    <3>1. chars' = chars
      BY <2>4 DEF ClientSends, PacketAnswered, SendZoneOut, SendLogOut, SendZoneOutAgain
    <3> QED  BY <1>3, <3>1
  <2>5. CASE Authenticate \/ Vanish \/ Welcomed \/ Tick \/ \E a \in Addrs : SelectCharacter(a)
    <3>1. chars' = chars
      BY <2>5 DEF Authenticate, Vanish, Welcomed, Tick, SelectCharacter
    <3> QED  BY <1>3, <3>1
  <2>6. ASSUME NEW p \in Procs, NEW a \in Addrs, Play(p, a) PROVE Saves
    BY <1>3, <2>6 DEF Play
  <2>7. ASSUME NEW p \in Procs, Crash(p) \/ PendingTimesOut(p) \/ MapHandles(p) PROVE Saves
    BY <1>3, <2>7 DEF Crash, PendingTimesOut, MapHandles
  <2>8. ASSUME NEW s \in Procs \cup {LoginServer}, WorldHandles(s) PROVE Saves
    BY <1>3, <2>8 DEF WorldHandles
  <2>9. CASE Cleanup
    BY <1>2, <2>7, <2>9 DEF Cleanup
  <2>10. CASE Deliver
    BY <2>7, <2>8, <2>10 DEF Deliver
  <2> QED  BY <1>1, <1>4, <2>2, <2>3, <2>4, <2>5, <2>6, <2>7, <2>9, <2>10 DEF Next
<1>5. CASE UNCHANGED vars
  BY <1>3, <1>5 DEF vars
<1> QED  BY <1>4, <1>5

\* Older data overwrites newer only from a session that is cleaned up, and whose
\* character is in no zone.
THEOREM OlderOnlyHolds == Spec => OlderOnlyFromLeftovers
<1>1. ASSUME Handover, RowInv, AgeInv, [Next]_vars, strays <= 1, chars'.v < chars.v
      PROVE  \E p \in Procs, a \in Addrs :
               sess[p][a] # None /\ sess'[p][a] = None /\ ~InZone(p, a)
  <2>1. chars.v \in Int /\ Saves
    BY <1>1, VersionsAre, StepSaves
  <2>2. PICK p \in Procs, a \in Addrs :
          /\ sess[p][a] # None /\ sess[p][a].char # None /\ chars'.v = sess[p][a].char.v
          /\ InZone(p, a) \/ sess'[p][a] = None
    BY <1>1, <2>1 DEF Saves
  <2>3. ~InZone(p, a)
    <3>1. SUFFICES ASSUME InZone(p, a) PROVE FALSE
      OBVIOUS
    <3>2. chars.v <= sess[p][a].char.v
      BY <1>1, <3>1 DEF AgeInv, Ages2, Expecting
    <3>3. sess[p][a].char.v \in Int
      BY <1>1, <2>2, VersionsAre
    <3> QED  BY <1>1, <2>1, <2>2, <3>2, <3>3
  <2> QED  BY <2>2, <2>3
<1>2. Handover /\ RowInv /\ AgeInv /\ [Next]_vars =>
        [strays <= 1 /\ chars'.v < chars.v =>
           \E p \in Procs, a \in Addrs :
             sess[p][a] # None /\ sess'[p][a] = None /\ ~InZone(p, a)]_vars
  BY <1>1
<1>3. Spec => [][Next]_vars
  BY PTL DEF Spec
<1> QED  BY <1>2, <1>3, AgeInvHolds, PTL DEF OlderOnlyFromLeftovers
=============================================================================
