--------------------------- MODULE HttpServerProofs ---------------------------
(***************************************************************************)
(* The safety properties of HttpServer, for any number of connections and  *)
(* any configuration: types, RegistryIsValid, OneWriter, StillAccepting,   *)
(* StopClosesServed and NothingStartedAfterDestroy.                        *)
(*                                                                         *)
(* The invariant is Inv: every record is Sound by itself and is Placed     *)
(* with regard to the registry and the acceptor, and an open acceptor has  *)
(* a connection that waits to be accepted.  A step of one connection is    *)
(* handled by SlotInv, which asks of the new record that it is Sound, that *)
(* it is Placed, and that it does not leave the accept loop.               *)
(***************************************************************************)
EXTENDS HttpServer, TLAPS

\* What is true of every connection by itself.
Sound(r) ==
  /\ r \in Connection
  /\ (r.op # "none") <=> (r.phase \in OpPhases)
  /\ r.op = "posted" => r.phase = "write"
  /\ r.running => r.phase \in UserPhases
  /\ r.held => r.phase = "response"
  /\ r.part # "none" => r.phase = "response" /\ r.queued > 0
  /\ r.moved => r.phase \in {"upgrade", "dropped"}

\* A registered connection is neither free nor upgraded; one that is served
\* without being registered has been closed by a stop(), or missed by it.
Placed(r, registered) ==
  /\ registered => r.phase \notin {"free", "upgrade"} /\ ~r.moved
  /\ r.phase \in Served \ {"upgrade"} => registered \/ r.down \/ r.missed
  /\ r.phase = "accept" => registered \/ r.missed \/ r.op \in {"failed", "aborted"}

\* async_accept is pending on an open acceptor only: closing it aborts it.
NoneWaits == \A c \in Conns : conn[c].phase = "accept" => conn[c].op # "pending"

\* The connection that will be accepted next.
SomeoneAccepts == \E c \in Conns : conn[c].phase = "accept" /\ conn[c].op # "aborted"

Inv ==
  /\ conn \in [Conns -> Connection]
  /\ registry \subseteq Conns
  /\ acceptor \in {"none", "open", "closed"}
  /\ owner \in {"alive", "destroying", "destroyed"}
  /\ stopAt \in {"idle", "acceptorClosed"}
  /\ ioRunning \in BOOLEAN /\ crashed \in BOOLEAN
  /\ \A c \in Conns : Sound(conn[c]) /\ Placed(conn[c], c \in registry)
  /\ acceptor # "open" => NoneWaits
  /\ stopAt = "acceptorClosed" => acceptor = "closed"
  /\ acceptor = "open" /\ owner = "alive" /\ ~crashed => SomeoneAccepts

\* q differs from r in its timer only.
Kept(r, q) ==
  /\ q.phase = r.phase /\ q.op = r.op /\ q.part = r.part /\ q.queued = r.queued /\ q.running = r.running
  /\ q.held = r.held /\ q.down = r.down /\ q.moved = r.moved /\ q.missed = r.missed

-----------------------------------------------------------------------------
(* The helpers *)

LEMMA Phases ==
  /\ ReadPhases = {"header", "content", "size", "chunk", "crlf"}
  /\ NetPhases = {"header", "content", "size", "chunk", "crlf", "handshake", "write"}
  /\ OpPhases = {"header", "content", "size", "chunk", "crlf", "handshake", "write", "accept"}
  /\ UserPhases = {"upgrade", "tooLarge", "response"}
  /\ Served = {"header", "content", "size", "chunk", "crlf", "handshake", "write",
               "upgrade", "tooLarge", "response"}
BY DEF ReadPhases, NetPhases, OpPhases, UserPhases, Served

LEMMA Settings ==
  InternalIo \in BOOLEAN /\ MaxParts \in Nat /\ MaxParts > 0 /\ 0 \in 0..MaxParts
BY ConfigAssumption

\* set_timeout() and cancel_timeout() touch the timer only.
LEMMA SetTimerKeeps ==
  ASSUME NEW r \in Connection, NEW b
  PROVE  SetTimer(r, b) \in Connection /\ Kept(r, SetTimer(r, b))
<1>1. (r.stale \/ r.timer = "due") \in BOOLEAN
  OBVIOUS
<1>2. (IF b THEN "armed" ELSE "off") \in {"off", "armed", "due"}
  OBVIOUS
<1>3. ASSUME NEW s \in BOOLEAN, NEW t \in {"off", "armed", "due"}
      PROVE  LET q == [r EXCEPT !.stale = s, !.timer = t]
             IN  q \in Connection /\ Kept(r, q)
  BY DEF Connection, Kept
<1> QED BY <1>1, <1>2, <1>3 DEF SetTimer

LEMMA CancelTimerKeeps ==
  ASSUME NEW r \in Connection
  PROVE  CancelTimer(r) \in Connection /\ Kept(r, CancelTimer(r))
BY SetTimerKeeps DEF CancelTimer

LEMMA KeptSound ==
  ASSUME NEW r, Sound(r), NEW q \in Connection, Kept(r, q)
  PROVE  Sound(q) /\ \A b \in BOOLEAN : Placed(r, b) => Placed(q, b)
BY DEF Sound, Placed, Kept

LEMMA TimedSound ==
  ASSUME NEW r, Sound(r), NEW b
  PROVE  /\ Sound(SetTimer(r, b)) /\ Kept(r, SetTimer(r, b))
         /\ \A i \in BOOLEAN : Placed(r, i) => Placed(SetTimer(r, b), i)
         /\ Sound(CancelTimer(r)) /\ Kept(r, CancelTimer(r))
         /\ \A i \in BOOLEAN : Placed(r, i) => Placed(CancelTimer(r), i)
<1>1. r \in Connection
  BY DEF Sound
<1>2. /\ SetTimer(r, b) \in Connection /\ Kept(r, SetTimer(r, b))
      /\ CancelTimer(r) \in Connection /\ Kept(r, CancelTimer(r))
  BY <1>1, SetTimerKeeps, CancelTimerKeeps
<1> QED BY <1>2, KeptSound

\* The chain drops its references: whatever the connection was, it only waits
\* for its deleter.
LEMMA DropSound ==
  ASSUME NEW r, Sound(r)
  PROVE  /\ Sound(Drop(r)) /\ Drop(r).phase = "dropped"
         /\ \A b \in BOOLEAN : Placed(r, b) => Placed(Drop(r), b)
<1>1. r \in Connection
  BY DEF Sound
<1>2. PICK b \in BOOLEAN, n \in 0..MaxParts :
        /\ ~b
        /\ Drop(r) = [r EXCEPT !.phase = "dropped", !.op = "none", !.part = "none",
                               !.queued = n, !.running = b, !.held = b]
  BY Settings, Zenon DEF Drop
<1> DEFINE q == Drop(r)
<1> HIDE DEF q
<1>3. /\ q \in Connection /\ q.phase = "dropped" /\ q.op = "none" /\ q.part = "none"
      /\ ~q.running /\ ~q.held /\ q.moved = r.moved
  BY <1>1, <1>2 DEF Connection, q
<1>4. Sound(q)
  BY <1>3, Phases DEF Sound
<1>5. \A i \in BOOLEAN : Placed(r, i) => Placed(q, i)
  BY <1>3, Phases DEF Placed
<1> QED BY <1>3, <1>4, <1>5 DEF q

\* The next read of a connection that is served, or has just been accepted.
LEMMA StartSound ==
  ASSUME NEW r, Sound(r), NEW p \in NetPhases, ~r.running, ~r.held,
         r.phase \in NetPhases \/ (r.phase = "accept" /\ r.op = "ok")
  PROVE  /\ Sound(Start(r, p)) /\ Start(r, p).phase = p
         /\ \A b \in BOOLEAN : Placed(r, b) => Placed(Start(r, p), b)
<1>1. r \in Connection
  BY DEF Sound
<1> DEFINE q == Start(r, p)
<1>2. p \in OpPhases \cup UserPhases \cup {"free", "dropped"}
  BY Phases
<1>3. /\ q \in Connection /\ q.phase = p /\ q.op = "pending" /\ q.part = r.part /\ q.queued = r.queued
      /\ q.running = r.running /\ q.held = r.held /\ q.down = r.down
      /\ q.moved = r.moved /\ q.missed = r.missed
  BY <1>1, <1>2 DEF Start, Connection
<1> HIDE DEF q
<1>4. Sound(q)
  BY <1>3, Phases DEF Sound
<1>5. \A i \in BOOLEAN : Placed(r, i) => Placed(q, i)
  BY <1>3, Phases DEF Placed
<1> QED BY <1>3, <1>4, <1>5 DEF q

LEMMA ReadSound ==
  ASSUME NEW r, Sound(r), ~r.running, ~r.held,
         r.phase \in NetPhases \/ (r.phase = "accept" /\ r.op = "ok")
  PROVE  /\ Sound(Read(r)) /\ Read(r).phase = "header"
         /\ \A b \in BOOLEAN : Placed(r, b) => Placed(Read(r), b)
<1> DEFINE s == SetTimer(r, timeout.request)
<1>1. Sound(s) /\ Kept(r, s) /\ \A i \in BOOLEAN : Placed(r, i) => Placed(s, i)
  BY TimedSound
<1>2. Read(r) = Start(s, "header")
  BY DEF Read, Start
<1> HIDE DEF s
<1>3. ~s.running /\ ~s.held /\ (s.phase \in NetPhases \/ (s.phase = "accept" /\ s.op = "ok"))
  BY <1>1 DEF Kept
<1> QED BY <1>1, <1>2, <1>3, StartSound, Phases

\* The record of a connection that close() has shut down.
LEMMA ClosedIs ==
  ASSUME NEW r \in Connection, r.phase \in Served
  PROVE  LET q == Close(r) IN
         /\ q \in Connection /\ q.down
         /\ q.op = (IF r.op = "pending" THEN "failed" ELSE r.op)
         /\ q.part = (IF r.part = "pending" THEN "failed" ELSE r.part) /\ q.queued = r.queued
         /\ q.phase = r.phase /\ q.running = r.running /\ q.held = r.held
         /\ q.moved = r.moved /\ q.missed = r.missed
<1> DEFINE Ops == {"none", "posted", "pending", "ok", "failed", "aborted"}
           Parts == {"none", "posted", "pending", "ok", "failed"}
           Closed(x, y, d) == [r EXCEPT !.down = d, !.op = x, !.part = y]
           o == IF r.op = "pending" THEN "failed" ELSE r.op
           w == IF r.part = "pending" THEN "failed" ELSE r.part
<1>1. ASSUME NEW x \in Ops, NEW y \in Parts, NEW d \in BOOLEAN
      PROVE  LET q == Closed(x, y, d) IN
             /\ q \in Connection /\ q.down = d /\ q.op = x /\ q.part = y /\ q.queued = r.queued
             /\ q.phase = r.phase /\ q.running = r.running /\ q.held = r.held
             /\ q.moved = r.moved /\ q.missed = r.missed
  BY DEF Connection
<1>2. o \in Ops /\ w \in Parts
  BY DEF Connection
<1>3. PICK d \in BOOLEAN : d /\ Close(r) = Closed(o, w, d)
  <2>1. Close(r) = Closed(o, w, TRUE)
    BY DEF Close
  <2> QED BY <2>1, Zenon
<1> DEFINE q == Close(r)
<1>4. q = Closed(o, w, d)
  BY <1>3
<1> HIDE DEF Ops, Parts, Closed, o, w, q
<1>5. /\ q \in Connection /\ q.down = d /\ q.op = o /\ q.part = w /\ q.queued = r.queued
      /\ q.phase = r.phase /\ q.running = r.running /\ q.held = r.held
      /\ q.moved = r.moved /\ q.missed = r.missed
  BY <1>1, <1>2, <1>4
<1> QED BY <1>3, <1>5 DEF o, w, q

\* close(): a pending operation fails; the phase stays.
LEMMA CloseSound ==
  ASSUME NEW r, Sound(r)
  PROVE  /\ Sound(Close(r)) /\ Close(r).phase = r.phase
         /\ r.phase \in Served => Close(r).down
         /\ r.phase \notin Served => Close(r) = r
         /\ Close(r).moved = r.moved /\ Close(r).missed = r.missed
         /\ \A b \in BOOLEAN : Placed(r, b) => Placed(Close(r), b)
<1>1. CASE r.phase \notin Served
  BY <1>1 DEF Close
<1>2. CASE r.phase \in Served
  <2>0. r \in Connection
    BY DEF Sound
  <2> DEFINE q == Close(r)
  <2>1. /\ q \in Connection /\ q.down
        /\ q.op = (IF r.op = "pending" THEN "failed" ELSE r.op)
        /\ q.part = (IF r.part = "pending" THEN "failed" ELSE r.part) /\ q.queued = r.queued
        /\ q.phase = r.phase /\ q.running = r.running /\ q.held = r.held
        /\ q.moved = r.moved /\ q.missed = r.missed
    BY <1>2, <2>0, ClosedIs
  <2> HIDE DEF q
  <2>2. Sound(q)
    BY <2>1 DEF Sound
  <2>3. \A i \in BOOLEAN : Placed(r, i) => Placed(q, i)
    BY <1>2, <2>1, Phases DEF Placed
  <2> QED BY <1>2, <2>1, <2>2, <2>3 DEF q
<1> QED BY <1>1, <1>2

\* User code starts: the resource function, an upgrade, or the answer 413.
LEMMA UserSound ==
  ASSUME NEW r, Sound(r), r.phase \in NetPhases, NEW p \in UserPhases
  PROVE  LET q == [r EXCEPT !.phase = p, !.op = "none", !.running = TRUE] IN
         /\ Sound(q) /\ q.phase = p
         /\ p = "upgrade" => Placed(q, FALSE)
         /\ p # "upgrade" => \A b \in BOOLEAN : Placed(r, b) => Placed(q, b)
<1> DEFINE q == [r EXCEPT !.phase = p, !.op = "none", !.running = TRUE]
<1>0. r \in Connection
  BY DEF Sound
<1>1. PICK t \in BOOLEAN : t /\ q = [r EXCEPT !.phase = p, !.op = "none", !.running = t]
  BY Zenon
<1>2. p \in OpPhases \cup UserPhases \cup {"free", "dropped"}
  OBVIOUS
<1> HIDE DEF q
<1>3. /\ q \in Connection /\ q.phase = p /\ q.op = "none" /\ q.part = r.part /\ q.queued = r.queued
      /\ q.running /\ q.held = r.held /\ q.down = r.down
      /\ q.moved = r.moved /\ q.missed = r.missed
  BY <1>0, <1>1, <1>2 DEF Connection
<1>4. ~r.held /\ r.part = "none" /\ ~r.moved
  BY Phases, <1>0 DEF Sound
<1>5. Sound(q)
  BY <1>3, <1>4, Phases DEF Sound
<1>6. p = "upgrade" => Placed(q, FALSE)
  BY <1>3, <1>4, Phases DEF Placed
<1>7. p # "upgrade" => \A i \in BOOLEAN : Placed(r, i) => Placed(q, i)
  BY <1>3, <1>4, Phases DEF Placed
<1> QED BY <1>3, <1>5, <1>6, <1>7 DEF q

\* The Response is deleted, or not yet.
LEMMA ReleaseSound ==
  ASSUME NEW r, Sound(r), r.phase = "response"
  PROVE  /\ Sound(Release(r)) /\ Release(r).phase \in {"response", "write"}
         /\ \A b \in BOOLEAN : Placed(r, b) => Placed(Release(r), b)
<1>1. CASE ~r.running /\ ~r.held /\ r.part = "none"
  <2>0. r \in Connection
    BY DEF Sound
  <2> DEFINE n == 0
             q == [r EXCEPT !.phase = "write", !.op = "posted", !.queued = n]
  <2>1. "write" \in OpPhases
    BY Phases
  <2>2. /\ q \in Connection /\ q.phase = "write" /\ q.op = "posted" /\ q.part = r.part
        /\ q.running = r.running /\ q.held = r.held /\ q.down = r.down
        /\ q.moved = r.moved /\ q.missed = r.missed
    <3>1. n \in 0..MaxParts
      BY Settings
    <3> HIDE DEF n
    <3> QED BY <2>0, <2>1, <3>1 DEF Connection
  <2>3. Release(r) = q
    BY <1>1 DEF Release
  <2> HIDE DEF q
  <2>4. Sound(q)
    BY <1>1, <2>2, Phases DEF Sound
  <2>5. \A i \in BOOLEAN : Placed(r, i) => Placed(q, i)
    BY <2>2, Phases DEF Placed
  <2> QED BY <2>2, <2>3, <2>4, <2>5
<1>2. CASE ~(~r.running /\ ~r.held /\ r.part = "none")
  BY <1>2 DEF Release
<1> QED BY <1>1, <1>2

LEMMA BlankSound == Sound(Blank) /\ Placed(Blank, FALSE) /\ Blank.phase = "free"
BY Phases, Settings DEF Sound, Placed, Blank, Connection

LEMMA NewSound ==
  ASSUME NEW d, NEW open \in BOOLEAN
  PROVE  LET q == NewConnection(d, open) IN
         /\ Sound(q) /\ Placed(q, TRUE) /\ q.phase = "accept"
         /\ q.op = IF open THEN "pending" ELSE "failed"
<1> DEFINE o == IF open THEN "pending" ELSE "failed"
           q == [Blank EXCEPT !.phase = "accept", !.op = o]
<1>1. o \in {"pending", "failed"}
  OBVIOUS
<1>2. NewConnection(d, open) = q
  BY DEF NewConnection
<1> HIDE DEF o
<1>3. /\ q \in Connection /\ q.phase = "accept" /\ q.op = o /\ q.part = "none"
      /\ ~q.running /\ ~q.held /\ ~q.moved
  <2>1. /\ Blank \in Connection /\ Blank.part = "none"
        /\ ~Blank.running /\ ~Blank.held /\ ~Blank.moved
    BY BlankSound DEF Sound, Blank
  <2>2. o \in {"none", "posted", "pending", "ok", "failed", "aborted"} /\ "accept" \in OpPhases
    BY <1>1, Phases
  <2> HIDE DEF Blank
  <2> QED BY <2>1, <2>2 DEF Connection
<1> HIDE DEF q
<1>4. Sound(q) /\ Placed(q, TRUE)
  BY <1>1, <1>3, Phases DEF Sound, Placed
<1> QED BY <1>2, <1>3, <1>4 DEF o

-----------------------------------------------------------------------------
(* Steps of one connection *)

\* What a step that gives one connection a new record has to show.
LEMMA SlotInv ==
  ASSUME Inv, NEW c \in Conns, NEW q, Sound(q), Placed(q, c \in registry'),
         conn' = [conn EXCEPT ![c] = q],
         registry' \subseteq Conns,
         \A d \in Conns \ {c} : (d \in registry') <=> (d \in registry),
         q.phase = "accept" => conn[c].phase = "accept" /\ (q.op = "pending" => conn[c].op = "pending"),
         conn[c].phase = "accept" /\ conn[c].op # "aborted" /\ owner = "alive" =>
           q.phase = "accept" /\ q.op # "aborted",
         UNCHANGED <<acceptor, owner, stopAt, ioRunning>>,
         crashed' \in BOOLEAN, ~crashed
  PROVE  Inv'
<1>0. /\ conn' = [conn EXCEPT ![c] = q] /\ registry' \subseteq Conns
      /\ \A d \in Conns \ {c} : (d \in registry') <=> (d \in registry)
      /\ UNCHANGED <<acceptor, owner, stopAt, ioRunning>> /\ crashed' \in BOOLEAN
  OBVIOUS
<1>1. q \in Connection
  BY DEF Sound
<1>2. conn' \in [Conns -> Connection] /\ conn'[c] = q /\ \A d \in Conns \ {c} : conn'[d] = conn[d]
  BY <1>0, <1>1 DEF Inv
<1>3. ASSUME NEW d \in Conns PROVE Sound(conn'[d]) /\ Placed(conn'[d], d \in registry')
  <2>1. CASE d = c
    BY <1>2, <2>1
  <2>2. CASE d # c
    <3>1. Sound(conn[d]) /\ Placed(conn[d], d \in registry)
      BY DEF Inv
    <3> QED BY <1>0, <1>2, <2>2, <3>1 DEF Placed
  <2> QED BY <2>1, <2>2
<1>4. (acceptor # "open" => NoneWaits)'
  <2> SUFFICES ASSUME acceptor' # "open", NEW d \in Conns, conn'[d].phase = "accept"
               PROVE  conn'[d].op # "pending"
    BY DEF NoneWaits
  <2>1. NoneWaits
    BY <1>0 DEF Inv
  <2> QED BY <1>2, <2>1 DEF NoneWaits
<1>5. (acceptor = "open" /\ owner = "alive" /\ ~crashed => SomeoneAccepts)'
  <2> SUFFICES ASSUME acceptor' = "open", owner' = "alive" PROVE SomeoneAccepts'
    OBVIOUS
  <2>1. PICK d \in Conns : conn[d].phase = "accept" /\ conn[d].op # "aborted"
    BY <1>0 DEF Inv, SomeoneAccepts
  <2>2. conn'[d].phase = "accept" /\ conn'[d].op # "aborted"
    BY <1>0, <1>2, <2>1
  <2> QED BY <2>2 DEF SomeoneAccepts
<1> QED BY <1>0, <1>2, <1>3, <1>4, <1>5 DEF Inv

\* The same for a connection that is not being accepted and stays where it is.
LEMMA PlainInv ==
  ASSUME Inv, NEW c \in Conns, NEW q, Sound(q),
         \A b \in BOOLEAN : Placed(conn[c], b) => Placed(q, b),
         conn' = [conn EXCEPT ![c] = q],
         conn[c].phase # "accept", q.phase # "accept",
         UNCHANGED <<registry, acceptor, owner, stopAt, ioRunning>>,
         crashed' \in BOOLEAN, ~crashed
  PROVE  Inv'
<1>1. registry' = registry /\ registry \subseteq Conns
  BY DEF Inv
<1>2. Placed(conn[c], c \in registry)
  BY DEF Inv
<1>3. (c \in registry) \in BOOLEAN
  OBVIOUS
<1>4. Placed(q, c \in registry')
  BY <1>1, <1>2, <1>3
<1> QED BY <1>1, <1>4, SlotInv

LEMMA SlotSound == ASSUME Inv, NEW c \in Conns PROVE Sound(conn[c]) /\ conn[c] \in Connection
BY DEF Inv, Sound

LEMMA GlobalsKept ==
  ASSUME Inv, UNCHANGED Globals
  PROVE  /\ UNCHANGED <<registry, acceptor, owner, stopAt, ioRunning>>
         /\ crashed' = crashed /\ crashed' \in BOOLEAN
BY DEF Inv, Globals

\* A handler that is refused, or that ends the session.
LEMMA DropInv ==
  ASSUME Inv, NEW c \in Conns, NEW r, Sound(r), \A b \in BOOLEAN : Placed(conn[c], b) => Placed(r, b),
         conn' = [conn EXCEPT ![c] = Drop(r)], conn[c].phase # "accept",
         UNCHANGED <<registry, acceptor, owner, stopAt, ioRunning>>,
         crashed' \in BOOLEAN, ~crashed
  PROVE  Inv'
<1>1. Sound(Drop(r)) /\ Drop(r).phase = "dropped"
      /\ \A b \in BOOLEAN : Placed(r, b) => Placed(Drop(r), b)
  BY DropSound
<1> HIDE DEF Drop
<1> QED BY <1>1, PlainInv

LEMMA RefusedInv ==
  ASSUME Inv, NEW c \in Conns, conn[c].phase # "accept", Refused(c),
         UNCHANGED <<registry, acceptor, owner, stopAt, ioRunning>>,
         crashed' \in BOOLEAN, ~crashed
  PROVE  Inv'
BY SlotSound, DropInv DEF Refused

LEMMA HandshakeHandlerInv == ASSUME Inv, NEW c \in Conns, HandshakeHandler(c) PROVE Inv'
<1>1. ~crashed /\ conn[c].phase = "handshake" /\ UNCHANGED Globals
  BY DEF HandshakeHandler, Queued
<1>2. CASE Refused(c)
  BY <1>1, <1>2, GlobalsKept, RefusedInv
<1>3. CASE conn' = [conn EXCEPT ![c] = Drop(conn[c])]
  BY <1>1, <1>3, GlobalsKept, SlotSound, DropInv
<1>4. CASE conn' = [conn EXCEPT ![c] = Read(CancelTimer(conn[c]))]
  <2> DEFINE r == CancelTimer(conn[c])
  <2>1. Sound(r) /\ Kept(conn[c], r) /\ \A i \in BOOLEAN : Placed(conn[c], i) => Placed(r, i)
    BY SlotSound, TimedSound
  <2>2. r.phase \in NetPhases /\ ~r.running /\ ~r.held
    BY <1>1, <2>1, Phases, SlotSound DEF Sound, Kept
  <2> HIDE DEF r
  <2>3. /\ Sound(Read(r)) /\ Read(r).phase = "header"
        /\ \A b \in BOOLEAN : Placed(r, b) => Placed(Read(r), b)
    BY <2>1, <2>2, ReadSound
  <2>4. conn' = [conn EXCEPT ![c] = Read(r)]
    BY <1>4 DEF r
  <2> QED BY <1>1, <2>1, <2>3, <2>4, GlobalsKept, PlainInv
<1>5. \/ Refused(c)
      \/ conn' = [conn EXCEPT ![c] = Drop(conn[c])]
      \/ conn' = [conn EXCEPT ![c] = Read(CancelTimer(conn[c]))]
  BY DEF HandshakeHandler
<1> QED BY <1>2, <1>3, <1>4, <1>5

\* The next read of the chain of a handler that runs with record r.
LEMMA StartInv ==
  ASSUME Inv, NEW c \in Conns, NEW r, Sound(r), r.phase \in NetPhases,
         \A b \in BOOLEAN : Placed(conn[c], b) => Placed(r, b),
         NEW p \in NetPhases, conn' = [conn EXCEPT ![c] = Start(r, p)], conn[c].phase # "accept",
         UNCHANGED <<registry, acceptor, owner, stopAt, ioRunning>>,
         crashed' \in BOOLEAN, ~crashed
  PROVE  Inv'
<1>1. ~r.running /\ ~r.held
  BY Phases DEF Sound
<1>2. /\ Sound(Start(r, p)) /\ Start(r, p).phase = p
      /\ \A b \in BOOLEAN : Placed(r, b) => Placed(Start(r, p), b)
  BY <1>1, StartSound
<1> HIDE DEF Start
<1> QED BY <1>2, PlainInv, Phases

LEMMA TooLargeInv ==
  ASSUME Inv, NEW c \in Conns, NEW r, Sound(r), r.phase \in NetPhases,
         \A b \in BOOLEAN : Placed(conn[c], b) => Placed(r, b),
         conn' = [conn EXCEPT ![c] = TooLarge(r)], conn[c].phase # "accept",
         UNCHANGED <<registry, acceptor, owner, stopAt, ioRunning>>,
         crashed' \in BOOLEAN, ~crashed
  PROVE  Inv'
<1>1. /\ Sound(TooLarge(r)) /\ TooLarge(r).phase = "tooLarge"
      /\ \A b \in BOOLEAN : Placed(r, b) => Placed(TooLarge(r), b)
  BY UserSound, Phases DEF TooLarge
<1> QED BY <1>1, PlainInv

LEMMA FindResourceInv ==
  ASSUME Inv, NEW c \in Conns, NEW r, Sound(r), r.phase \in NetPhases, conn[c].phase # "accept",
         \A b \in BOOLEAN : Placed(conn[c], b) => Placed(r, b),
         FindResource(c, r), UNCHANGED <<acceptor, owner, stopAt, ioRunning, crashed>>, ~crashed
  PROVE  Inv'
<1>0. crashed' \in BOOLEAN /\ UNCHANGED <<acceptor, owner, stopAt, ioRunning>>
  BY DEF Inv
<1> DEFINE u == [r EXCEPT !.phase = "upgrade", !.op = "none", !.running = TRUE]
           s == [r EXCEPT !.phase = "response", !.op = "none", !.running = TRUE]
<1>1. CASE conn' = [conn EXCEPT ![c] = u] /\ registry' = registry \ {c}
  <2>1. Sound(u) /\ u.phase = "upgrade" /\ Placed(u, FALSE)
    BY UserSound, Phases
  <2> HIDE DEF u
  <2>2. c \notin registry'
    BY <1>1
  <2>3. Placed(u, c \in registry')
    BY <2>1, <2>2 DEF Placed
  <2>4. registry' \subseteq Conns /\ \A d \in Conns \ {c} : (d \in registry') <=> (d \in registry)
    BY <1>1 DEF Inv
  <2> QED BY <1>0, <1>1, <2>1, <2>3, <2>4, SlotInv
<1>2. CASE conn' = [conn EXCEPT ![c] = s] /\ UNCHANGED registry
  <2>1. Sound(s) /\ s.phase = "response" /\ \A b \in BOOLEAN : Placed(r, b) => Placed(s, b)
    BY UserSound, Phases
  <2> HIDE DEF s
  <2> QED BY <1>0, <1>2, <2>1, PlainInv
<1>3. CASE conn' = [conn EXCEPT ![c] = Drop(r)] /\ UNCHANGED registry
  BY <1>0, <1>3, DropInv
<1> QED BY <1>1, <1>2, <1>3 DEF FindResource

\* The outcomes of a read handler that runs with record r.
LEMMA ReadOnInv ==
  ASSUME Inv, NEW c \in Conns, NEW r, Sound(r), r.phase \in NetPhases, conn[c].phase # "accept",
         \A b \in BOOLEAN : Placed(conn[c], b) => Placed(r, b),
         NEW q \in {Drop(r), TooLarge(r)} \cup {Start(r, p) : p \in NetPhases},
         conn' = [conn EXCEPT ![c] = q], UNCHANGED Globals, ~crashed
  PROVE  Inv'
<1>0. /\ UNCHANGED <<registry, acceptor, owner, stopAt, ioRunning>>
      /\ crashed' \in BOOLEAN
  BY GlobalsKept
<1>1. CASE q = Drop(r)
  BY <1>0, <1>1, DropInv
<1>2. CASE q = TooLarge(r)
  BY <1>0, <1>2, TooLargeInv
<1>3. CASE \E p \in NetPhases : q = Start(r, p)
  BY <1>0, <1>3, StartInv
<1> QED BY <1>1, <1>2, <1>3

LEMMA HeaderHandlerInv == ASSUME Inv, NEW c \in Conns, HeaderHandler(c) PROVE Inv'
<1> DEFINE r == ContentTimer(conn[c])
           D == Drop(conn[c])
           E == {Drop(r), TooLarge(r), Start(r, "content"), Start(r, "size")}
<1>0. /\ ~crashed /\ conn[c].phase = "header"
      /\ UNCHANGED <<acceptor, owner, stopAt, ioRunning, timeout, crashed>>
  BY DEF HeaderHandler, Queued
<1>1. /\ Sound(conn[c]) /\ Sound(r) /\ r.phase \in NetPhases
      /\ \A i \in BOOLEAN : Placed(conn[c], i) => Placed(r, i)
  <2>1. Sound(conn[c])
    BY SlotSound
  <2>2. r = SetTimer(conn[c], timeout.content)
    BY DEF ContentTimer
  <2>3. Sound(r) /\ Kept(conn[c], r) /\ \A i \in BOOLEAN : Placed(conn[c], i) => Placed(r, i)
    BY <2>1, <2>2, TimedSound
  <2> HIDE DEF r
  <2> QED BY <1>0, <2>1, <2>3, Phases DEF Kept
<1>2. \/ Refused(c) /\ UNCHANGED registry
      \/ conn' = [conn EXCEPT ![c] = D] /\ UNCHANGED registry
      \/ \E q \in E : conn' = [conn EXCEPT ![c] = q] /\ UNCHANGED registry
      \/ FindResource(c, r)
  BY DEF HeaderHandler
<1> HIDE DEF r
<1>3. CASE Refused(c) /\ UNCHANGED registry
  BY <1>0, <1>3, RefusedInv DEF Inv
<1>4. CASE conn' = [conn EXCEPT ![c] = D] /\ UNCHANGED registry
  BY <1>0, <1>1, <1>4, DropInv DEF Inv
<1>5. CASE \E q \in E : conn' = [conn EXCEPT ![c] = q] /\ UNCHANGED registry
  <2>1. E \subseteq {Drop(r), TooLarge(r)} \cup {Start(r, p) : p \in NetPhases}
    BY Phases
  <2>2. UNCHANGED Globals
    BY <1>0, <1>5 DEF Globals
  <2> HIDE DEF E
  <2>3. PICK q \in E : conn' = [conn EXCEPT ![c] = q]
    BY <1>5
  <2>4. q \in {Drop(r), TooLarge(r)} \cup {Start(r, p) : p \in NetPhases}
    BY <2>1
  <2>5. conn[c].phase # "accept" /\ ~crashed
    BY <1>0
  <2> QED BY <1>1, <2>2, <2>3, <2>4, <2>5, ReadOnInv
<1>6. CASE FindResource(c, r)
  BY <1>0, <1>1, <1>6, FindResourceInv
<1> QED BY <1>2, <1>3, <1>4, <1>5, <1>6

\* The other reads set no timer.
LEMMA ReadRestInv ==
  ASSUME Inv, NEW c \in Conns, ContentHandler(c) \/ SizeHandler(c) \/ ChunkHandler(c) PROVE Inv'
<1> DEFINE r == conn[c]
           E == {Drop(r), TooLarge(r)} \cup {Start(r, p) : p \in NetPhases}
<1>0. /\ ~crashed /\ conn[c].phase \in {"content", "size", "chunk"}
      /\ UNCHANGED <<acceptor, owner, stopAt, ioRunning, timeout, crashed>>
  BY DEF ContentHandler, SizeHandler, ChunkHandler, Queued, Globals
<1>1. Sound(r) /\ r.phase \in NetPhases
  BY <1>0, SlotSound, Phases
<1>2. \/ Refused(c) /\ UNCHANGED registry
      \/ \E q \in E : conn' = [conn EXCEPT ![c] = q] /\ UNCHANGED registry
      \/ FindResource(c, r)
  <2>1. CASE ContentHandler(c)
    BY <2>1 DEF ContentHandler
  <2>2. CASE ChunkHandler(c)
    BY <2>2, Phases DEF ChunkHandler, Globals
  <2>3. CASE SizeHandler(c)
    <3>1. {"chunk", "crlf", "size"} \subseteq NetPhases
      BY Phases
    <3>2. {Drop(r), TooLarge(r)} \cup {Start(r, p) : p \in {"chunk", "crlf", "size"}} \subseteq E
      BY <3>1
    <3>3. Drop(r) \in E
      OBVIOUS
    <3> HIDE DEF E
    <3> QED BY <2>3, <3>2, <3>3 DEF SizeHandler
  <2> QED BY <2>1, <2>2, <2>3
<1>3. CASE Refused(c) /\ UNCHANGED registry
  BY <1>0, <1>3, RefusedInv DEF Inv
<1>4. CASE \E q \in E : conn' = [conn EXCEPT ![c] = q] /\ UNCHANGED registry
  <2>1. UNCHANGED Globals
    BY <1>0, <1>4 DEF Globals
  <2>2. PICK q \in E : conn' = [conn EXCEPT ![c] = q]
    BY <1>4
  <2>3. conn[c].phase # "accept" /\ ~crashed
    BY <1>0
  <2> QED BY <1>1, <2>1, <2>2, <2>3, ReadOnInv
<1>5. CASE FindResource(c, r)
  BY <1>0, <1>1, <1>5, FindResourceInv
<1> QED BY <1>2, <1>3, <1>4, <1>5

\* The end of a chunk, which may throw.
LEMMA CrlfHandlerInv == ASSUME Inv, NEW c \in Conns, CrlfHandler(c) PROVE Inv'
<1>0. /\ ~crashed /\ conn[c].phase = "crlf" /\ crashed' \in BOOLEAN
      /\ UNCHANGED <<registry, acceptor, owner, stopAt, ioRunning>>
  BY DEF CrlfHandler, Queued, Inv
<1>1. Sound(conn[c]) /\ conn[c].phase \in NetPhases /\ "size" \in NetPhases
  BY <1>0, SlotSound, Phases
<1>2. \/ Refused(c)
      \/ conn' = [conn EXCEPT ![c] = Start(conn[c], "size")]
      \/ conn' = [conn EXCEPT ![c] = Drop(conn[c])]
  BY DEF CrlfHandler
<1>3. CASE Refused(c)
  BY <1>0, <1>3, RefusedInv
<1>4. CASE conn' = [conn EXCEPT ![c] = Start(conn[c], "size")]
  BY <1>0, <1>1, <1>4, StartInv
<1>5. CASE conn' = [conn EXCEPT ![c] = Drop(conn[c])]
  BY <1>0, <1>1, <1>5, DropInv
<1> QED BY <1>2, <1>3, <1>4, <1>5

\* The user code of a handler returns.
LEMMA HandlerReturnsInv ==
  ASSUME Inv, NEW c \in Conns, TooLargeReturns(c) \/ UpgradeReturns(c) PROVE Inv'
<1>1. /\ ~crashed /\ conn[c].phase \in {"tooLarge", "upgrade"} /\ UNCHANGED Globals
      /\ conn' = [conn EXCEPT ![c] = Drop(conn[c])]
  BY DEF TooLargeReturns, UpgradeReturns
<1> QED BY <1>1, SlotSound, GlobalsKept, DropInv

\* The socket of an upgraded connection, which is not registered, is moved out.
LEMMA MoveSocketInv == ASSUME Inv, NEW c \in Conns, MoveSocket(c) PROVE Inv'
<1>1. PICK m \in BOOLEAN : m /\ conn' = [conn EXCEPT ![c].moved = m]
  BY Zenon DEF MoveSocket
<1>2. ~crashed /\ conn[c].phase = "upgrade" /\ UNCHANGED Globals
  BY DEF MoveSocket
<1> DEFINE q == [conn[c] EXCEPT !.moved = m]
<1>3. /\ q \in Connection /\ q.phase = "upgrade" /\ q.op = conn[c].op /\ q.part = conn[c].part /\ q.queued = conn[c].queued
      /\ q.running = conn[c].running /\ q.held = conn[c].held /\ q.down = conn[c].down
      /\ q.missed = conn[c].missed
  BY <1>2, SlotSound DEF Connection
<1>4. conn' = [conn EXCEPT ![c] = q]
  BY <1>1
<1> HIDE DEF q
<1>5. Sound(q)
  BY <1>2, <1>3, SlotSound DEF Sound
<1>6. Placed(conn[c], c \in registry)
  BY DEF Inv
<1>7. c \notin registry
  BY <1>2, <1>6 DEF Placed
<1>8. Placed(q, c \in registry')
  BY <1>2, <1>3, <1>7, GlobalsKept DEF Placed
<1>9. registry' \subseteq Conns /\ \A d \in Conns \ {c} : (d \in registry') <=> (d \in registry)
  BY <1>2, GlobalsKept DEF Inv
<1> QED BY <1>2, <1>3, <1>4, <1>5, <1>8, <1>9, GlobalsKept, SlotInv

\* An operation, or the write of a part, moves on.
LEMMA OpInv ==
  ASSUME Inv, NEW c \in Conns, conn[c].phase \in NetPhases, NEW o \in {"pending", "ok", "failed"},
         conn' = [conn EXCEPT ![c].op = o], UNCHANGED Globals, ~crashed
  PROVE  Inv'
<1> DEFINE q == [conn[c] EXCEPT !.op = o]
<1>1. /\ q \in Connection /\ q.phase = conn[c].phase /\ q.op = o /\ q.part = conn[c].part /\ q.queued = conn[c].queued
      /\ q.running = conn[c].running /\ q.held = conn[c].held /\ q.down = conn[c].down
      /\ q.moved = conn[c].moved /\ q.missed = conn[c].missed
  BY SlotSound DEF Connection
<1>2. conn' = [conn EXCEPT ![c] = q]
  OBVIOUS
<1> HIDE DEF q
<1>3. Sound(q)
  BY <1>1, SlotSound, Phases DEF Sound
<1>4. \A b \in BOOLEAN : Placed(conn[c], b) => Placed(q, b)
  BY <1>1, Phases DEF Placed
<1> QED BY <1>1, <1>2, <1>3, <1>4, GlobalsKept, PlainInv, Phases

\* The values of `part`.
PartStates == {"none", "posted", "pending", "ok", "failed"}

\* What is posted or written is in the queue.
InQueue(p, n) == n \in 0..MaxParts /\ (p # "none" => n > 0)

LEMMA PartSound ==
  ASSUME NEW r, Sound(r), r.phase = "response",
         NEW p \in PartStates, NEW n, InQueue(p, n)
  PROVE  LET q == [r EXCEPT !.part = p, !.queued = n] IN
         /\ Sound(q) /\ q.phase = "response"
         /\ \A b \in BOOLEAN : Placed(r, b) => Placed(q, b)
<1> DEFINE q == [r EXCEPT !.part = p, !.queued = n]
<1>1. r \in Connection
  BY DEF Sound
<1>2. /\ q \in Connection /\ q.phase = r.phase /\ q.op = r.op /\ q.part = p /\ q.queued = n
      /\ q.running = r.running /\ q.held = r.held /\ q.down = r.down
      /\ q.moved = r.moved /\ q.missed = r.missed
  BY <1>1 DEF Connection, PartStates, InQueue
<1> HIDE DEF q
<1>3. Sound(q)
  BY <1>2 DEF Sound, InQueue
<1>4. \A b \in BOOLEAN : Placed(r, b) => Placed(q, b)
  BY <1>2 DEF Placed
<1> QED BY <1>2, <1>3, <1>4 DEF q

\* What send() and the steps of the chain of parts make of the record: the chain
\* goes on as it is or with another part, or it ends and its reference goes.
PartMoves(r, q) ==
  \/ \E p \in PartStates, n \in 0..MaxParts :
       /\ q = [r EXCEPT !.part = p, !.queued = n]
       /\ InQueue(p, n)
       /\ p = "pending" => GateOpen \/ r.part = "pending"
  \/ \E n \in 0..MaxParts : q = Release([r EXCEPT !.part = "none", !.queued = n])

LEMMA PartRecord ==
  ASSUME NEW r \in Connection, Sound(r)
  PROVE  /\ r.queued \in 0..MaxParts
         /\ \A p : [r EXCEPT !.part = p] = [r EXCEPT !.part = p, !.queued = r.queued]
BY DEF Connection

LEMMA NetCompletesInv == ASSUME Inv, NEW c \in Conns, NetCompletes(c) \/ RunWrite(c) PROVE Inv'
<1>1. CASE NetCompletes(c)
  BY <1>1, OpInv DEF NetCompletes
<1>2. CASE RunWrite(c)
  <2>1. ~crashed /\ conn[c].phase = "write" /\ UNCHANGED Globals
    BY <1>2 DEF RunWrite
  <2>2. CASE Refused(c)
    BY <2>1, <2>2, GlobalsKept, RefusedInv
  <2>3. CASE conn' = [conn EXCEPT ![c].op = "pending"]
    BY <2>1, <2>3, OpInv, Phases
  <2> QED BY <1>2, <2>2, <2>3 DEF RunWrite
<1> QED BY <1>1, <1>2

\* send() and the chain of writes of parts.
LEMMA PartStepsAre ==
  ASSUME Inv, NEW c \in Conns, SendPart(c) \/ PartCompletes(c) \/ PartSteps(c)
  PROVE  /\ ~crashed /\ UNCHANGED Globals
         /\ Sound(conn[c]) /\ conn[c].phase = "response"
         /\ \E q : PartMoves(conn[c], q) /\ conn' = [conn EXCEPT ![c] = q]
<1> DEFINE r == conn[c]
<1>1. ~crashed /\ UNCHANGED Globals
  BY DEF SendPart, PartCompletes, PartSteps, RunPart, PartHandler
<1>2. Sound(r) /\ r \in Connection /\ r.phase = "response"
  BY SlotSound DEF SendPart, PartCompletes, PartSteps, RunPart, PartHandler, Sound
<1>3. /\ r.queued \in 0..MaxParts /\ (r.part # "none" => r.queued > 0)
      /\ r.part \in PartStates
  BY <1>2 DEF Sound, Connection, PartStates
<1>4. ASSUME NEW p \in PartStates, InQueue(p, r.queued),
             p = "pending" => GateOpen \/ r.part = "pending", conn' = [conn EXCEPT ![c].part = p]
      PROVE  \E q : PartMoves(r, q) /\ conn' = [conn EXCEPT ![c] = q]
  <2> DEFINE q == [r EXCEPT !.part = p, !.queued = r.queued]
  <2>1. [r EXCEPT !.part = p] = q
    BY <1>2, PartRecord
  <2>2. conn' = [conn EXCEPT ![c] = q]
    BY <1>4, <2>1
  <2>3. PartMoves(r, q)
    BY <1>3, <1>4 DEF PartMoves
  <2> QED BY <2>2, <2>3
<1>5. ASSUME SendPart(c) PROVE \E q : PartMoves(r, q) /\ conn' = [conn EXCEPT ![c] = q]
  <2> DEFINE p == IF r.queued = 0 THEN "posted" ELSE r.part
             n == r.queued + 1
             q == [r EXCEPT !.part = p, !.queued = n]
  <2>1. conn' = [conn EXCEPT ![c] = [r EXCEPT !.queued = n, !.part = p]]
    BY <1>5 DEF SendPart, Inv
  <2>2. [r EXCEPT !.queued = n, !.part = p] = q
    BY <1>2 DEF Connection
  <2>3. conn' = [conn EXCEPT ![c] = q]
    BY <2>1, <2>2
  <2>4. n \in 0..MaxParts /\ InQueue(p, n) /\ p \in PartStates
        /\ (p = "pending" => r.part = "pending")
    BY <1>3, <1>5, Settings DEF SendPart, PartStates, InQueue
  <2> HIDE DEF n, p
  <2>5. PartMoves(r, q)
    BY <2>4 DEF PartMoves
  <2> QED BY <2>3, <2>5
<1>6. ASSUME PartCompletes(c) PROVE \E q : PartMoves(r, q) /\ conn' = [conn EXCEPT ![c] = q]
  <2>1. PICK p \in {"ok", "failed"} : r.part = "pending" /\ conn' = [conn EXCEPT ![c].part = p]
    BY <1>6 DEF PartCompletes
  <2>2. p \in PartStates /\ InQueue(p, r.queued) /\ p # "pending"
    BY <1>3, <2>1 DEF PartStates, InQueue
  <2> QED BY <1>4, <2>1, <2>2
<1>7. ASSUME NEW n \in 0..MaxParts,
             conn' = [conn EXCEPT ![c] = Release([r EXCEPT !.part = "none", !.queued = n])]
      PROVE  \E q : PartMoves(r, q) /\ conn' = [conn EXCEPT ![c] = q]
  BY <1>7 DEF PartMoves
<1>8. ASSUME RunPart(c) PROVE \E q : PartMoves(r, q) /\ conn' = [conn EXCEPT ![c] = q]
  <2>1. CASE GateOpen
    <3>1. conn' = [conn EXCEPT ![c].part = "pending"]
      BY <1>8, <2>1 DEF RunPart
    <3>2. "pending" \in PartStates /\ InQueue("pending", r.queued)
      BY <1>3, <1>8 DEF RunPart, PartStates, InQueue
    <3> QED BY <1>4, <2>1, <3>1, <3>2
  <2>2. CASE ~GateOpen
    <3>1. conn' = [conn EXCEPT ![c] = Release([r EXCEPT !.part = "none"])]
      BY <1>8, <2>2 DEF RunPart
    <3>2. [r EXCEPT !.part = "none"] = [r EXCEPT !.part = "none", !.queued = r.queued]
      BY <1>2, PartRecord
    <3> HIDE DEF Release
    <3>3. conn' = [conn EXCEPT ![c] = Release([r EXCEPT !.part = "none", !.queued = r.queued])]
      BY <3>1, <3>2
    <3> QED BY <1>3, <1>7, <3>3
  <2> QED BY <2>1, <2>2
<1>9. ASSUME PartHandler(c) PROVE \E q : PartMoves(r, q) /\ conn' = [conn EXCEPT ![c] = q]
  <2>1. conn' = [conn EXCEPT ![c] = AfterPart(r)] /\ r.part \in {"ok", "failed"}
    BY <1>9 DEF PartHandler
  <2>2. CASE GateOpen /\ r.part = "ok" /\ r.queued > 1
    <3> DEFINE n == r.queued - 1
               q == [r EXCEPT !.part = "posted", !.queued = n]
    <3>1. conn' = [conn EXCEPT ![c] = q]
      BY <2>1, <2>2 DEF AfterPart
    <3>2. n \in 0..MaxParts /\ InQueue("posted", n) /\ "posted" \in PartStates
      BY <1>3, <2>2, Settings DEF PartStates, InQueue
    <3> HIDE DEF n
    <3>3. PartMoves(r, q)
      BY <3>2 DEF PartMoves
    <3> QED BY <3>1, <3>3
  <2>3. CASE ~(GateOpen /\ r.part = "ok" /\ r.queued > 1)
    <3> DEFINE n == IF GateOpen THEN 0 ELSE r.queued
    <3>1. AfterPart(r) = Release([r EXCEPT !.part = "none", !.queued = n])
      BY <2>3 DEF AfterPart
    <3>2. n \in 0..MaxParts
      BY <1>3, Settings
    <3> HIDE DEF n, AfterPart, Release
    <3>3. conn' = [conn EXCEPT ![c] = Release([r EXCEPT !.part = "none", !.queued = n])]
      BY <2>1, <3>1
    <3> QED BY <1>7, <3>2, <3>3
  <2> QED BY <2>2, <2>3
<1> QED BY <1>1, <1>2, <1>5, <1>6, <1>8, <1>9 DEF PartSteps

LEMMA PartInv ==
  ASSUME Inv, NEW c \in Conns, SendPart(c) \/ PartCompletes(c) \/ PartSteps(c) PROVE Inv'
<1>1. ~crashed /\ UNCHANGED Globals /\ Sound(conn[c]) /\ conn[c].phase = "response"
  BY PartStepsAre
<1>2. PICK q : PartMoves(conn[c], q) /\ conn' = [conn EXCEPT ![c] = q]
  BY PartStepsAre
<1>3. /\ Sound(q) /\ q.phase \in {"response", "write"}
      /\ \A b \in BOOLEAN : Placed(conn[c], b) => Placed(q, b)
  <2>1. ASSUME NEW p \in PartStates, NEW n \in 0..MaxParts,
               InQueue(p, n), q = [conn[c] EXCEPT !.part = p, !.queued = n]
        PROVE  /\ Sound(q) /\ q.phase \in {"response", "write"}
               /\ \A b \in BOOLEAN : Placed(conn[c], b) => Placed(q, b)
    <3> DEFINE s == [conn[c] EXCEPT !.part = p, !.queued = n]
    <3>1. Sound(s) /\ s.phase = "response" /\ \A b \in BOOLEAN : Placed(conn[c], b) => Placed(s, b)
      BY <1>1, <2>1, PartSound
    <3>2. q = s
      BY <2>1
    <3> HIDE DEF s
    <3> QED BY <3>1, <3>2
  <2>2. ASSUME NEW n \in 0..MaxParts, q = Release([conn[c] EXCEPT !.part = "none", !.queued = n])
        PROVE  /\ Sound(q) /\ q.phase \in {"response", "write"}
               /\ \A b \in BOOLEAN : Placed(conn[c], b) => Placed(q, b)
    <3> DEFINE s == [conn[c] EXCEPT !.part = "none", !.queued = n]
    <3>1. Sound(s) /\ s.phase = "response" /\ \A b \in BOOLEAN : Placed(conn[c], b) => Placed(s, b)
      <4>1. InQueue("none", n) /\ "none" \in PartStates
        BY DEF InQueue, PartStates
      <4> QED BY <1>1, <4>1, PartSound
    <3>2. q = Release(s)
      BY <2>2
    <3> HIDE DEF s
    <3> QED BY <3>1, <3>2, ReleaseSound
  <2> QED BY <1>2, <2>1, <2>2 DEF PartMoves
<1> QED BY <1>1, <1>2, <1>3, GlobalsKept, PlainInv

\* The resource function or the user lets go of the Response.
LEMMA LetGoInv ==
  ASSUME Inv, NEW c \in Conns, ResourceReturns(c) \/ UserReleases(c) PROVE Inv'
<1>1. ~crashed /\ UNCHANGED Globals
  BY DEF ResourceReturns, UserReleases
<1>2. Sound(conn[c]) /\ conn[c].phase = "response"
  BY SlotSound DEF ResourceReturns, UserReleases, Sound
<1>3. PICK b \in BOOLEAN, k \in BOOLEAN :
        conn' = [conn EXCEPT ![c] = Release([conn[c] EXCEPT !.running = b, !.held = k])]
  <2>1. CASE ResourceReturns(c)
    BY <2>1, Zenon DEF ResourceReturns
  <2>2. CASE UserReleases(c)
    <3>1. PICK k \in BOOLEAN : conn' = [conn EXCEPT ![c] = Release([conn[c] EXCEPT !.held = k])]
      BY <2>2, Zenon DEF UserReleases
    <3>2. [conn[c] EXCEPT !.held = k] = [conn[c] EXCEPT !.running = conn[c].running, !.held = k]
      BY <1>2 DEF Sound, Connection
    <3>3. conn[c].running \in BOOLEAN
      BY <1>2 DEF Sound, Connection
    <3>4. conn' = [conn EXCEPT ![c] = Release([conn[c] EXCEPT !.running = conn[c].running, !.held = k])]
      BY <3>1, <3>2
    <3> QED BY <3>3, <3>4
  <2> QED BY <2>1, <2>2
<1> DEFINE q == [conn[c] EXCEPT !.running = b, !.held = k]
<1>4. /\ q \in Connection /\ q.phase = "response" /\ q.op = conn[c].op /\ q.part = conn[c].part /\ q.queued = conn[c].queued
      /\ q.running = b /\ q.held = k /\ q.down = conn[c].down
      /\ q.moved = conn[c].moved /\ q.missed = conn[c].missed
  BY <1>2 DEF Sound, Connection
<1>5. conn' = [conn EXCEPT ![c] = Release(q)]
  BY <1>3
<1> HIDE DEF q
<1>6. Sound(q)
  BY <1>2, <1>4, Phases DEF Sound
<1>7. \A i \in BOOLEAN : Placed(conn[c], i) => Placed(q, i)
  BY <1>2, <1>4 DEF Placed
<1>8. /\ Sound(Release(q)) /\ Release(q).phase \in {"response", "write"}
      /\ \A i \in BOOLEAN : Placed(q, i) => Placed(Release(q), i)
  BY <1>4, <1>6, ReleaseSound
<1> QED BY <1>1, <1>2, <1>5, <1>7, <1>8, GlobalsKept, PlainInv

\* The response is written: the next request, or the end.
LEMMA WriteHandlerInv == ASSUME Inv, NEW c \in Conns, WriteHandler(c) PROVE Inv'
<1> DEFINE r == CancelTimer(conn[c])
<1>0. ~crashed /\ conn[c].phase = "write" /\ UNCHANGED Globals
  BY DEF WriteHandler, Queued
<1>1. Sound(r) /\ Kept(conn[c], r) /\ \A i \in BOOLEAN : Placed(conn[c], i) => Placed(r, i)
  BY SlotSound, TimedSound
<1>2. \/ Refused(c)
      \/ conn' = [conn EXCEPT ![c] = Read(r)]
      \/ conn' = [conn EXCEPT ![c] = Drop(r)]
  BY DEF WriteHandler
<1>3. r.phase \in NetPhases /\ ~r.running /\ ~r.held
  BY <1>0, <1>1, Phases, SlotSound DEF Sound, Kept
<1> HIDE DEF r
<1>4. CASE Refused(c)
  BY <1>0, <1>4, GlobalsKept, RefusedInv
<1>5. CASE conn' = [conn EXCEPT ![c] = Drop(r)]
  BY <1>0, <1>1, <1>5, GlobalsKept, DropInv
<1>6. CASE conn' = [conn EXCEPT ![c] = Read(r)]
  <2>1. /\ Sound(Read(r)) /\ Read(r).phase = "header"
        /\ \A b \in BOOLEAN : Placed(r, b) => Placed(Read(r), b)
    BY <1>1, <1>3, ReadSound
  <2> QED BY <1>0, <1>1, <1>6, <2>1, GlobalsKept, PlainInv
<1> QED BY <1>2, <1>4, <1>5, <1>6

-----------------------------------------------------------------------------
(* Accepting *)

LEMMA AcceptCompletesInv == ASSUME Inv, NEW c \in Conns, AcceptCompletes(c) PROVE Inv'
<1>0. /\ ~crashed /\ conn[c].phase = "accept" /\ conn[c].op = "pending" /\ UNCHANGED Globals
  BY DEF AcceptCompletes
<1>1. PICK o \in {"ok", "failed"} : conn' = [conn EXCEPT ![c].op = o]
  BY DEF AcceptCompletes
<1> DEFINE q == [conn[c] EXCEPT !.op = o]
<1>2. /\ q \in Connection /\ q.phase = conn[c].phase /\ q.op = o /\ q.part = conn[c].part /\ q.queued = conn[c].queued
      /\ q.running = conn[c].running /\ q.held = conn[c].held /\ q.down = conn[c].down
      /\ q.moved = conn[c].moved /\ q.missed = conn[c].missed
  BY SlotSound DEF Connection
<1>3. conn' = [conn EXCEPT ![c] = q]
  BY <1>1
<1> HIDE DEF q
<1>4. Sound(q)
  BY <1>0, <1>2, SlotSound, Phases DEF Sound
<1>5. registry' = registry /\ registry \subseteq Conns /\ Placed(conn[c], c \in registry)
  BY <1>0, GlobalsKept DEF Inv
<1>6. Placed(q, c \in registry')
  BY <1>0, <1>2, <1>5, Phases DEF Placed
<1> QED BY <1>0, <1>2, <1>3, <1>4, <1>5, <1>6, GlobalsKept, SlotInv

\* What the accept handler makes of its connection.
LEMMA AcceptedSound ==
  ASSUME NEW r, Sound(r), r.phase = "accept"
  PROVE  /\ Sound(Accepted(r)) /\ Accepted(r).phase \in {"dropped", "handshake", "header"}
         /\ \A b \in BOOLEAN : Placed(r, b) => Placed(Accepted(r), b)
<1>0. ~r.running /\ ~r.held
  BY Phases DEF Sound
<1>1. CASE r.op # "ok"
  BY <1>1, DropSound DEF Accepted
<1>2. CASE r.op = "ok" /\ Tls
  <2> DEFINE s == SetTimer(r, timeout.request)
  <2>1. Sound(s) /\ Kept(r, s) /\ \A i \in BOOLEAN : Placed(r, i) => Placed(s, i)
    BY TimedSound
  <2>2. Accepted(r) = Start(s, "handshake")
    BY <1>2 DEF Accepted
  <2> HIDE DEF s
  <2>3. ~s.running /\ ~s.held /\ s.phase = "accept" /\ s.op = "ok"
    BY <1>0, <1>2, <2>1 DEF Kept
  <2> QED BY <2>1, <2>2, <2>3, StartSound, Phases
<1>3. CASE r.op = "ok" /\ ~Tls
  BY <1>0, <1>3, ReadSound DEF Accepted
<1> QED BY <1>1, <1>2, <1>3

\* A new connection d joins the accept loop, while c leaves it or is as it was.
LEMMA JoinInv ==
  ASSUME Inv, NEW c \in Conns, NEW d \in Conns, c # d, NEW x, Sound(x),
         \A b \in BOOLEAN : Placed(conn[c], b) => Placed(x, b),
         x.phase # "accept" \/ x = conn[c],
         acceptor' \in {"none", "open", "closed"}, stopAt = "acceptorClosed" => acceptor' = "closed",
         acceptor' # "open" => NoneWaits,
         NEW open \in BOOLEAN, open <=> (acceptor' = "open"),
         conn' = [conn EXCEPT ![c] = x, ![d] = NewConnection(d, open)],
         registry' = registry \cup {d},
         UNCHANGED <<owner, stopAt>>, ioRunning' \in BOOLEAN, crashed' \in BOOLEAN
  PROVE  Inv'
<1> DEFINE y == NewConnection(d, open)
<1>1. /\ Sound(y) /\ Placed(y, TRUE) /\ y.phase = "accept"
      /\ y.op = IF open THEN "pending" ELSE "failed"
  BY NewSound
<1>2. conn' = [conn EXCEPT ![c] = x, ![d] = y]
  OBVIOUS
<1> HIDE DEF y
<1>3. x \in Connection /\ y \in Connection
  BY <1>1 DEF Sound
<1>4. /\ conn' \in [Conns -> Connection] /\ conn'[c] = x /\ conn'[d] = y
      /\ \A e \in Conns \ {c, d} : conn'[e] = conn[e]
  BY <1>2, <1>3 DEF Inv
<1>5. registry' = registry \cup {d} /\ registry' \subseteq Conns
  BY DEF Inv
<1>6. ASSUME NEW e \in Conns PROVE Sound(conn'[e]) /\ Placed(conn'[e], e \in registry')
  <2>1. Sound(conn[e]) /\ Placed(conn[e], e \in registry)
    BY DEF Inv
  <2>2. CASE e = c
    <3>1. (e \in registry') <=> (e \in registry)
      BY <1>5, <2>2
    <3>2. (e \in registry) \in BOOLEAN
      OBVIOUS
    <3>3. Placed(x, e \in registry)
      BY <2>1, <2>2, <3>2
    <3> QED BY <1>4, <2>2, <3>1, <3>3 DEF Placed
  <2>3. CASE e = d
    BY <1>1, <1>4, <1>5, <2>3 DEF Placed
  <2>4. CASE e # c /\ e # d
    <3>1. (e \in registry') <=> (e \in registry)
      BY <1>5, <2>4
    <3> QED BY <1>4, <2>1, <2>4, <3>1 DEF Placed
  <2> QED BY <2>2, <2>3, <2>4
<1>7. acceptor' # "open" => NoneWaits'
  BY <1>1, <1>4 DEF NoneWaits
<1>8. acceptor' = "open" => SomeoneAccepts'
  BY <1>1, <1>4 DEF SomeoneAccepts
<1>9. /\ owner' \in {"alive", "destroying", "destroyed"}
      /\ stopAt' \in {"idle", "acceptorClosed"}
      /\ stopAt' = "acceptorClosed" => acceptor' = "closed"
  BY DEF Inv
<1> QED BY <1>4, <1>5, <1>6, <1>7, <1>8, <1>9 DEF Inv

LEMMA AcceptHandlerInv == ASSUME Inv, NEW c \in Conns, AcceptHandler(c) PROVE Inv'
<1>0. /\ ~crashed /\ conn[c].phase = "accept"
      /\ UNCHANGED <<acceptor, owner, stopAt, ioRunning, crashed>>
  BY DEF AcceptHandler, Queued
<1>1. Sound(conn[c]) /\ conn[c] \in Connection
  BY SlotSound
<1> DEFINE x == Accepted(conn[c])
           D == Drop(conn[c])
<1>2. /\ Sound(x) /\ x.phase # "accept"
      /\ \A b \in BOOLEAN : Placed(conn[c], b) => Placed(x, b)
  BY <1>0, <1>1, AcceptedSound
<1>3. /\ Sound(D) /\ D.phase = "dropped"
      /\ \A b \in BOOLEAN : Placed(conn[c], b) => Placed(D, b)
  BY <1>1, DropSound
<1>4. Placed(conn[c], c \in registry) /\ (c \in registry) \in BOOLEAN
      /\ registry \subseteq Conns /\ crashed \in BOOLEAN
  BY DEF Inv
<1>5. CASE Refused(c) /\ UNCHANGED registry
  <2>1. owner # "alive" /\ conn' = [conn EXCEPT ![c] = D]
    BY <1>5 DEF Refused, GateOpen
  <2> HIDE DEF D
  <2>2. Placed(D, c \in registry')
    BY <1>3, <1>4, <1>5
  <2> QED BY <1>0, <1>3, <1>4, <1>5, <2>1, <2>2, SlotInv
<1>6. CASE conn[c].op = "aborted" /\ conn' = [conn EXCEPT ![c] = x] /\ UNCHANGED registry
  <2> HIDE DEF x
  <2>1. Placed(x, c \in registry')
    BY <1>2, <1>4, <1>6
  <2> QED BY <1>0, <1>2, <1>4, <1>6, <2>1, SlotInv
<1>7. ASSUME NEW d \in Conns, conn[d].phase = "free",
             conn' = [conn EXCEPT ![c] = x, ![d] = NewConnection(d, acceptor = "open")],
             registry' = registry \cup {d}
      PROVE  Inv'
  <2>1. c # d
    BY <1>0, <1>7
  <2>2. /\ acceptor' \in {"none", "open", "closed"} /\ ioRunning' \in BOOLEAN
        /\ stopAt = "acceptorClosed" => acceptor' = "closed"
        /\ acceptor' # "open" => NoneWaits
    BY <1>0 DEF Inv
  <2>3. (acceptor = "open") \in BOOLEAN /\ ((acceptor = "open") <=> (acceptor' = "open"))
    BY <1>0
  <2>4. UNCHANGED <<owner, stopAt>> /\ crashed' \in BOOLEAN
    BY <1>0, <1>4
  <2> HIDE DEF x
  <2> QED BY <1>2, <1>7, <2>1, <2>2, <2>3, <2>4, JoinInv
<1> QED BY <1>5, <1>6, <1>7 DEF AcceptHandler

\* start() lists a connection that waits on an open acceptor.
LEMMA StartServerInv == ASSUME Inv, StartServer PROVE Inv'
<1>1. PICK d \in Conns :
        /\ conn[d].phase = "free"
        /\ conn' = [conn EXCEPT ![d] = NewConnection(d, TRUE)]
        /\ registry' = registry \cup {d}
  BY DEF StartServer
<1>2. /\ stopAt = "idle" /\ acceptor' = "open" /\ ioRunning' \in BOOLEAN
      /\ UNCHANGED <<owner, stopAt, crashed>>
  BY DEF StartServer
<1> DEFINE y == NewConnection(d, TRUE)
<1>3. Sound(y) /\ Placed(y, TRUE) /\ y.phase = "accept" /\ y.op = "pending"
  BY NewSound
<1>4. conn' = [conn EXCEPT ![d] = y]
  BY <1>1
<1> HIDE DEF y
<1>5. conn' \in [Conns -> Connection] /\ conn'[d] = y /\ \A e \in Conns \ {d} : conn'[e] = conn[e]
  BY <1>3, <1>4 DEF Inv, Sound
<1>6. ASSUME NEW e \in Conns PROVE Sound(conn'[e]) /\ Placed(conn'[e], e \in registry')
  <2>1. Sound(conn[e]) /\ Placed(conn[e], e \in registry)
    BY DEF Inv
  <2>2. CASE e = d
    BY <1>1, <1>3, <1>5, <2>2 DEF Placed
  <2>3. CASE e # d
    <3>1. (e \in registry') <=> (e \in registry)
      BY <1>1, <2>3
    <3> QED BY <1>5, <2>1, <2>3, <3>1 DEF Placed
  <2> QED BY <2>2, <2>3
<1>7. SomeoneAccepts'
  BY <1>3, <1>5 DEF SomeoneAccepts
<1>8. registry' \subseteq Conns
  BY <1>1 DEF Inv
<1> QED BY <1>2, <1>5, <1>6, <1>7, <1>8 DEF Inv

-----------------------------------------------------------------------------
(* Timers, the deleter, stop() and the destructor *)

LEMMA TimerSound ==
  ASSUME NEW r \in Connection, NEW t \in {"off", "armed", "due"}, NEW s \in BOOLEAN
  PROVE  /\ [r EXCEPT !.timer = t] \in Connection /\ Kept(r, [r EXCEPT !.timer = t])
         /\ [r EXCEPT !.stale = s] \in Connection /\ Kept(r, [r EXCEPT !.stale = s])
BY DEF Connection, Kept

\* A step that touches the timer of a connection, and may close it.
LEMMA TimerStepInv ==
  ASSUME Inv, NEW c \in Conns, NEW r \in Connection, Kept(conn[c], r),
         NEW q \in {r, Close(r)}, conn' = [conn EXCEPT ![c] = q],
         UNCHANGED <<registry, acceptor, owner, stopAt, ioRunning>>, crashed' \in BOOLEAN, ~crashed
  PROVE  Inv'
<1>1. Sound(conn[c]) /\ Placed(conn[c], c \in registry)
      /\ registry \subseteq Conns /\ (c \in registry) \in BOOLEAN
  BY DEF Inv
<1>2. Sound(r) /\ \A b \in BOOLEAN : Placed(conn[c], b) => Placed(r, b)
  BY <1>1, KeptSound
<1>3. /\ Sound(Close(r)) /\ Close(r).phase = r.phase
      /\ r.phase \notin Served => Close(r) = r
      /\ \A b \in BOOLEAN : Placed(r, b) => Placed(Close(r), b)
  BY <1>2, CloseSound
<1>4. Sound(q) /\ q.phase = r.phase /\ (r.phase \notin Served => q = r)
      /\ \A b \in BOOLEAN : Placed(r, b) => Placed(q, b)
  BY <1>2, <1>3
<1>5. Placed(q, c \in registry')
  BY <1>1, <1>2, <1>4
<1>6. conn[c].phase = "accept" \/ q.phase = "accept" =>
        /\ conn[c].phase = "accept" /\ q.phase = "accept" /\ q.op = conn[c].op
  BY <1>4, Phases DEF Kept
<1> QED BY <1>1, <1>4, <1>5, <1>6, SlotInv

LEMMA TimerExpiresInv == ASSUME Inv, NEW c \in Conns, TimerExpires(c) PROVE Inv'
<1>1. ~crashed /\ UNCHANGED Globals /\ conn' = [conn EXCEPT ![c] = [conn[c] EXCEPT !.timer = "due"]]
  BY DEF TimerExpires
<1>2. /\ [conn[c] EXCEPT !.timer = "due"] \in Connection
      /\ Kept(conn[c], [conn[c] EXCEPT !.timer = "due"])
  BY SlotSound, TimerSound
<1> QED BY <1>1, <1>2, GlobalsKept, TimerStepInv

LEMMA ExpireInv ==
  ASSUME Inv, NEW c \in Conns, NEW r \in Connection, Kept(conn[c], r), Expire(c, r),
         UNCHANGED <<registry, acceptor, owner, stopAt, ioRunning>>, ~crashed
  PROVE  Inv'
<1>1. crashed' \in BOOLEAN
  BY DEF Expire, Connection, Inv
<1>2. conn' = [conn EXCEPT ![c] = r] \/ conn' = [conn EXCEPT ![c] = Close(r)]
  BY DEF Expire
<1>3. PICK q \in {r, Close(r)} : conn' = [conn EXCEPT ![c] = q]
  BY <1>2
<1> QED BY <1>1, <1>3, TimerStepInv

LEMMA TimerHandlersInv == ASSUME Inv, NEW c \in Conns, TimerHandlers(c) PROVE Inv'
<1>1. ~crashed /\ UNCHANGED <<registry, acceptor, owner, stopAt, ioRunning>>
  BY DEF TimerHandlers, TimerHandler, StaleTimerHandler
<1>2. CASE TimerHandler(c)
  <2> DEFINE r == [conn[c] EXCEPT !.timer = "off"]
  <2>1. r \in Connection /\ Kept(conn[c], r)
    BY SlotSound, TimerSound
  <2>2. Expire(c, r)
    BY <1>2 DEF TimerHandler
  <2> HIDE DEF r
  <2> QED BY <1>1, <2>1, <2>2, ExpireInv
<1>3. CASE StaleTimerHandler(c)
  <2>1. PICK s \in BOOLEAN : Expire(c, [conn[c] EXCEPT !.stale = s])
    BY <1>3, Zenon DEF StaleTimerHandler
  <2> DEFINE r == [conn[c] EXCEPT !.stale = s]
  <2>2. r \in Connection /\ Kept(conn[c], r)
    BY SlotSound, TimerSound
  <2>3. Expire(c, r)
    BY <2>1
  <2> HIDE DEF r
  <2> QED BY <1>1, <2>2, <2>3, ExpireInv
<1> QED BY <1>2, <1>3 DEF TimerHandlers

LEMMA DeleteInv == ASSUME Inv, NEW c \in Conns, Delete(c) PROVE Inv'
<1>1. /\ ~crashed /\ conn[c].phase = "dropped" /\ conn' = [conn EXCEPT ![c] = Blank]
      /\ registry' = registry \ {c} /\ UNCHANGED <<acceptor, owner, stopAt, ioRunning, crashed>>
  BY DEF Delete
<1>2. /\ registry' \subseteq Conns /\ crashed' \in BOOLEAN
      /\ \A d \in Conns \ {c} : (d \in registry') <=> (d \in registry)
  BY <1>1 DEF Inv
<1>3. c \notin registry'
  BY <1>1
<1>4. Placed(Blank, c \in registry')
  BY <1>3, BlankSound DEF Placed
<1> HIDE DEF Blank
<1> QED BY <1>1, <1>2, <1>4, BlankSound, SlotInv

\* Closing the acceptor aborts what waits on it.
LEMMA StopAcceptorInv == ASSUME Inv, StopAcceptor PROVE Inv'
<1>1. /\ acceptor' = "closed" /\ stopAt' = "acceptorClosed"
      /\ conn' = [c \in Conns |-> IF conn[c].phase = "accept" /\ conn[c].op = "pending"
                                    THEN [conn[c] EXCEPT !.op = "aborted"] ELSE conn[c]]
      /\ UNCHANGED <<registry, owner, ioRunning, crashed>>
  BY DEF StopAcceptor
<1>2. ASSUME NEW c \in Conns
      PROVE  /\ Sound(conn'[c]) /\ Placed(conn'[c], c \in registry)
             /\ conn'[c].phase = "accept" => conn'[c].op # "pending"
  <2>1. conn[c] \in Connection /\ Sound(conn[c]) /\ Placed(conn[c], c \in registry)
    BY DEF Inv, Sound
  <2>2. CASE conn[c].phase = "accept" /\ conn[c].op = "pending"
    <3> DEFINE q == [conn[c] EXCEPT !.op = "aborted"]
    <3>1. /\ q \in Connection /\ q.phase = "accept" /\ q.op = "aborted" /\ q.part = conn[c].part /\ q.queued = conn[c].queued
          /\ q.running = conn[c].running /\ q.held = conn[c].held /\ q.moved = conn[c].moved
      BY <2>1, <2>2 DEF Connection
    <3>2. conn'[c] = q
      BY <1>1, <2>2
    <3> HIDE DEF q
    <3> QED BY <2>1, <2>2, <3>1, <3>2, Phases DEF Sound, Placed
  <2>3. CASE ~(conn[c].phase = "accept" /\ conn[c].op = "pending")
    BY <1>1, <2>1, <2>3
  <2> QED BY <2>2, <2>3
<1>3. conn' \in [Conns -> Connection]
  <2>1. \A c \in Conns : conn'[c] \in Connection
    BY <1>2 DEF Sound
  <2> QED BY <1>1, <2>1
<1>4. \A c \in Conns : Sound(conn'[c]) /\ Placed(conn'[c], c \in registry')
  BY <1>1, <1>2 DEF Placed
<1> QED BY <1>1, <1>2, <1>3, <1>4 DEF Inv, NoneWaits

\* What stop() makes of each connection: those that are served and were not
\* upgraded are shut down, or missed.
LEMMA StoppedSound ==
  ASSUME Inv, StopConnections, NEW c \in Conns
  PROVE  /\ Sound(conn'[c]) /\ Placed(conn'[c], FALSE)
         /\ conn'[c].phase = "accept" => conn'[c].op # "pending"
<1>1. conn[c] \in Connection /\ Sound(conn[c]) /\ Placed(conn[c], c \in registry)
  BY DEF Inv, Sound
<1>2. NoneWaits
  BY DEF Inv, StopConnections
<1> DEFINE r == IF c \in registry THEN Close(conn[c]) ELSE conn[c]
           m == r.missed \/ (conn[c].phase = "accept" /\ conn[c].op = "ok")
           q == [r EXCEPT !.missed = m]
<1>3. conn'[c] = q
  BY DEF StopConnections
<1>4. /\ Sound(r) /\ r.phase = conn[c].phase /\ r.moved = conn[c].moved /\ r.missed = conn[c].missed
      /\ c \in registry /\ r.phase \in Served => r.down
      /\ c \notin registry \/ r.phase \notin Served => r = conn[c]
  BY <1>1, CloseSound
<1> HIDE DEF r
<1>5. r \in Connection
  BY <1>4 DEF Sound
<1>6. m \in BOOLEAN
  BY <1>5 DEF Connection
<1>7. m <=> (conn[c].missed \/ (conn[c].phase = "accept" /\ conn[c].op = "ok"))
  BY <1>4
<1> HIDE DEF m
<1>8. /\ q \in Connection /\ q.phase = r.phase /\ q.op = r.op /\ q.part = r.part /\ q.queued = r.queued
      /\ q.running = r.running /\ q.held = r.held /\ q.down = r.down
      /\ q.moved = r.moved /\ q.missed = m
  BY <1>5, <1>6 DEF Connection
<1> HIDE DEF q
<1>9. Sound(q)
  BY <1>4, <1>8 DEF Sound
<1>10. q.phase = "accept" => q.op = conn[c].op /\ q.op # "pending"
  BY <1>2, <1>4, <1>8, Phases DEF NoneWaits
<1>11. q.phase = "accept" => q.missed \/ q.op \in {"failed", "aborted"}
  BY <1>1, <1>4, <1>7, <1>8, <1>10, Phases DEF Sound, Connection
<1>12. q.phase \in Served \ {"upgrade"} => q.down \/ q.missed
  BY <1>1, <1>4, <1>7, <1>8 DEF Placed
<1> QED BY <1>3, <1>9, <1>10, <1>11, <1>12 DEF Placed

LEMMA StopConnectionsInv == ASSUME Inv, StopConnections PROVE Inv'
<1>1. /\ registry' = {} /\ stopAt' = "idle" /\ acceptor' = acceptor /\ acceptor = "closed"
      /\ ioRunning' \in BOOLEAN /\ crashed' \in BOOLEAN
      /\ owner' \in {"alive", "destroying", "destroyed"}
  BY Settings DEF StopConnections, Inv
<1>2. \A c \in Conns : Sound(conn'[c]) /\ Placed(conn'[c], FALSE)
                       /\ (conn'[c].phase = "accept" => conn'[c].op # "pending")
  BY StoppedSound
<1>3. conn' \in [Conns -> Connection]
  <2>1. \A c \in Conns : conn'[c] \in Connection
    BY <1>2 DEF Sound
  <2> QED BY <2>1 DEF StopConnections
<1>4. \A c \in Conns : Placed(conn'[c], c \in registry')
  BY <1>1, <1>2 DEF Placed
<1> QED BY <1>1, <1>2, <1>3, <1>4 DEF Inv, NoneWaits

LEMMA DestroyInv == ASSUME Inv, Destroy PROVE Inv'
<1>1. /\ UNCHANGED <<conn, registry, acceptor, stopAt, ioRunning, crashed>>
      /\ owner' \in {"destroying", "destroyed"}
  BY DEF Destroy
<1> QED BY <1>1 DEF Inv, NoneWaits

-----------------------------------------------------------------------------
(* The invariant *)

LEMMA InitInv == Init => Inv
<1> SUFFICES ASSUME Init PROVE Inv
  OBVIOUS
<1>1. Blank \in Connection
  BY BlankSound DEF Sound
<1>2. conn \in [Conns -> Connection] /\ \A c \in Conns : conn[c] = Blank
  BY <1>1 DEF Init
<1>3. \A c \in Conns : Sound(conn[c]) /\ Placed(conn[c], c \in registry)
  BY <1>2, BlankSound DEF Init, Placed
<1>4. NoneWaits
  BY <1>2, BlankSound DEF NoneWaits
<1> QED BY <1>2, <1>3, <1>4 DEF Init, Inv

LEMMA NextInv == Inv /\ [Next]_vars => Inv'
<1> SUFFICES ASSUME Inv, [Next]_vars PROVE Inv'
  OBVIOUS
<1>1. CASE UNCHANGED vars
  BY <1>1 DEF vars, Inv, NoneWaits, SomeoneAccepts
<1>2. ASSUME NEW c \in Conns, ConnStep(c) PROVE Inv'
  <2>1. CASE Handlers(c)
    BY <2>1, AcceptHandlerInv, HandshakeHandlerInv, HeaderHandlerInv, ReadRestInv, CrlfHandlerInv,
       NetCompletesInv, WriteHandlerInv DEF Handlers, ReadHandlers
  <2>2. CASE PartSteps(c) \/ UserSteps(c) \/ PartCompletes(c)
    BY <2>2, PartInv, LetGoInv DEF UserSteps
  <2>3. CASE HandlerReturns(c)
    BY <2>3, HandlerReturnsInv, MoveSocketInv DEF HandlerReturns
  <2>4. CASE AcceptCompletes(c) \/ NetCompletes(c)
    BY <2>4, AcceptCompletesInv, NetCompletesInv
  <2>5. CASE TimerHandlers(c) \/ TimerExpires(c) \/ Delete(c)
    BY <2>5, TimerHandlersInv, TimerExpiresInv, DeleteInv
  <2> QED BY <1>2, <2>1, <2>2, <2>3, <2>4, <2>5 DEF ConnStep
<1>3. CASE StartServer \/ StopAcceptor \/ StopConnections \/ Destroy
  BY <1>3, StartServerInv, StopAcceptorInv, StopConnectionsInv, DestroyInv
<1> QED BY <1>1, <1>2, <1>3 DEF Next

\* A server keeps the timeouts it was configured with.
LEMMA TimeoutStays == Spec => [](timeout \in Timeouts)
<1>1. Init => timeout \in Timeouts
  BY DEF Init
<1>2. [Next]_vars => UNCHANGED timeout
  <2>1. ASSUME NEW c \in Conns, ConnStep(c) PROVE timeout' = timeout
    BY <2>1 DEF ConnStep, Handlers, ReadHandlers, PartSteps, UserSteps, HandlerReturns, TimerHandlers,
         AcceptHandler, HandshakeHandler, HeaderHandler, ContentHandler, SizeHandler, ChunkHandler,
         CrlfHandler, RunWrite, WriteHandler, RunPart, PartHandler, SendPart, ResourceReturns,
         UserReleases, TooLargeReturns, MoveSocket, UpgradeReturns, TimerHandler, StaleTimerHandler,
         AcceptCompletes, NetCompletes, PartCompletes, TimerExpires, Delete, Globals
  <2> QED BY <2>1 DEF Next, vars, StartServer, StopAcceptor, StopConnections, Destroy
<1>3. timeout \in Timeouts /\ [Next]_vars => (timeout \in Timeouts)'
  BY <1>2
<1> QED BY <1>1, <1>3, PTL DEF Spec

LEMMA Invariance == Spec => []Inv
BY InitInv, NextInv, PTL DEF Spec

-----------------------------------------------------------------------------
(* After the destructor *)

\* q is not further than r: no operation was started, no user code entered.
NoStart(r, q) ==
  /\ q.op = "pending" => r.op = "pending"
  /\ q.part = "pending" => r.part = "pending"
  /\ q.running => r.running

LEMMA DropStarts ==
  ASSUME NEW r \in Connection
  PROVE  NoStart(r, Drop(r))
<1>1. PICK b \in BOOLEAN, n \in 0..MaxParts :
        /\ ~b
        /\ Drop(r) = [r EXCEPT !.phase = "dropped", !.op = "none", !.part = "none",
                               !.queued = n, !.running = b, !.held = b]
  BY Settings, Zenon DEF Drop
<1> QED BY <1>1 DEF Connection, NoStart

LEMMA CloseStarts ==
  ASSUME NEW r \in Connection
  PROVE  NoStart(r, Close(r)) /\ Close(r) \in Connection
<1>1. CASE r.phase \notin Served
  BY <1>1 DEF Close, NoStart
<1>2. CASE r.phase \in Served
  <2> DEFINE q == Close(r)
  <2>1. /\ q \in Connection /\ q.running = r.running
        /\ q.op = (IF r.op = "pending" THEN "failed" ELSE r.op)
        /\ q.part = (IF r.part = "pending" THEN "failed" ELSE r.part) /\ q.queued = r.queued
    BY <1>2, ClosedIs
  <2> HIDE DEF q
  <2>2. NoStart(r, q)
    BY <2>1 DEF NoStart
  <2> QED BY <2>1, <2>2 DEF q
<1> QED BY <1>1, <1>2

LEMMA ReleaseStarts ==
  ASSUME NEW r \in Connection
  PROVE  NoStart(r, Release(r))
BY Settings DEF Release, NoStart, Connection

LEMMA NoStartTransitive ==
  ASSUME NEW r, NEW s, NEW q, NoStart(r, s), NoStart(s, q)
  PROVE  NoStart(r, q)
BY DEF NoStart

\* A step of one connection.
LEMMA SlotStarts ==
  ASSUME Inv, NEW c \in Conns, NEW q, NoStart(conn[c], q), conn' = [conn EXCEPT ![c] = q]
  PROVE  \A d \in Conns : NoStart(conn[d], conn'[d])
<1>1. conn'[c] = q /\ \A d \in Conns \ {c} : conn'[d] = conn[d]
  BY DEF Inv
<1> QED BY <1>1 DEF NoStart

\* Every handler is refused.
LEMMA HandlersStart ==
  ASSUME Inv, ~GateOpen, NEW c \in Conns, Handlers(c)
  PROVE  \A d \in Conns : NoStart(conn[d], conn'[d])
<1>1. conn' = [conn EXCEPT ![c] = Drop(conn[c])]
  <2>1. CASE AcceptHandler(c) \/ HandshakeHandler(c) \/ RunWrite(c) \/ WriteHandler(c)
    BY <2>1 DEF AcceptHandler, HandshakeHandler, RunWrite, WriteHandler, Refused
  <2>2. CASE HeaderHandler(c) \/ ContentHandler(c) \/ SizeHandler(c) \/ ChunkHandler(c) \/ CrlfHandler(c)
    BY <2>2 DEF HeaderHandler, ContentHandler, SizeHandler, ChunkHandler, CrlfHandler, Refused
  <2> QED BY <2>1, <2>2 DEF Handlers, ReadHandlers
<1>2. NoStart(conn[c], Drop(conn[c]))
  BY SlotSound, DropStarts
<1> HIDE DEF Drop
<1> QED BY <1>1, <1>2, SlotStarts

\* The Response outlives the server: what is sent through it is not written.
LEMMA ResponseStarts ==
  ASSUME Inv, ~GateOpen, NEW c \in Conns, PartSteps(c) \/ UserSteps(c) \/ PartCompletes(c)
  PROVE  \A d \in Conns : NoStart(conn[d], conn'[d])
<1>0. conn[c] \in Connection
  BY SlotSound
<1>2. ASSUME NEW s \in Connection, NoStart(conn[c], s), conn' = [conn EXCEPT ![c] = Release(s)]
      PROVE  \A d \in Conns : NoStart(conn[d], conn'[d])
  <2>1. NoStart(conn[c], Release(s))
    BY <1>2, ReleaseStarts, NoStartTransitive
  <2> QED BY <1>2, <2>1, SlotStarts
<1>3. ASSUME NEW s \in Connection, NoStart(conn[c], s), conn' = [conn EXCEPT ![c] = s]
      PROVE  \A d \in Conns : NoStart(conn[d], conn'[d])
  BY <1>3, SlotStarts
<1>4. CASE SendPart(c) \/ PartCompletes(c) \/ PartSteps(c)
  <2>1. PICK q : PartMoves(conn[c], q) /\ conn' = [conn EXCEPT ![c] = q]
    BY <1>4, PartStepsAre
  <2>2. ASSUME NEW p \in PartStates, NEW n \in 0..MaxParts,
               p = "pending" => conn[c].part = "pending"
        PROVE  LET s == [conn[c] EXCEPT !.part = p, !.queued = n]
               IN  s \in Connection /\ NoStart(conn[c], s)
    BY <1>0, <2>2 DEF Connection, NoStart, PartStates
  <2>3. CASE \E p \in PartStates, n \in 0..MaxParts :
               q = [conn[c] EXCEPT !.part = p, !.queued = n] /\ (p = "pending" => conn[c].part = "pending")
    BY <1>3, <2>1, <2>2, <2>3
  <2>4. CASE \E n \in 0..MaxParts : q = Release([conn[c] EXCEPT !.part = "none", !.queued = n])
    <3>1. PICK n \in 0..MaxParts : q = Release([conn[c] EXCEPT !.part = "none", !.queued = n])
      BY <2>4
    <3> DEFINE s == [conn[c] EXCEPT !.part = "none", !.queued = n]
    <3>2. s \in Connection /\ NoStart(conn[c], s)
      <4>1. "none" \in PartStates
        BY DEF PartStates
      <4> QED BY <2>2, <4>1
    <3>3. conn' = [conn EXCEPT ![c] = Release(s)]
      BY <2>1, <3>1
    <3> HIDE DEF s
    <3> QED BY <1>2, <3>2, <3>3
  <2> QED BY <2>1, <2>3, <2>4 DEF PartMoves
<1>5. CASE ResourceReturns(c)
  <2>1. PICK b \in BOOLEAN, k \in BOOLEAN :
          ~b /\ conn' = [conn EXCEPT ![c] = Release([conn[c] EXCEPT !.running = b, !.held = k])]
    BY <1>5, Zenon DEF ResourceReturns
  <2> DEFINE s == [conn[c] EXCEPT !.running = b, !.held = k]
  <2>2. s \in Connection /\ NoStart(conn[c], s)
    BY <1>0, <2>1 DEF Connection, NoStart
  <2>3. conn' = [conn EXCEPT ![c] = Release(s)]
    BY <2>1
  <2> HIDE DEF s
  <2> QED BY <1>2, <2>2, <2>3
<1>6. CASE UserReleases(c)
  <2>1. PICK k \in BOOLEAN : conn' = [conn EXCEPT ![c] = Release([conn[c] EXCEPT !.held = k])]
    BY <1>6, Zenon DEF UserReleases
  <2> DEFINE s == [conn[c] EXCEPT !.held = k]
  <2>2. s \in Connection /\ NoStart(conn[c], s)
    BY <1>0, <2>1 DEF Connection, NoStart
  <2>3. conn' = [conn EXCEPT ![c] = Release(s)]
    BY <2>1
  <2> HIDE DEF s
  <2> QED BY <1>2, <2>2, <2>3
<1> QED BY <1>4, <1>5, <1>6 DEF UserSteps

\* Timers still expire and close, operations still complete.
LEMMA RestStarts ==
  ASSUME Inv, NEW c \in Conns,
         \/ HandlerReturns(c) \/ TimerHandlers(c) \/ TimerExpires(c) \/ Delete(c)
         \/ AcceptCompletes(c) \/ NetCompletes(c)
  PROVE  \A d \in Conns : NoStart(conn[d], conn'[d])
<1>0. conn[c] \in Connection
  BY SlotSound
<1>1. ASSUME NEW s \in Connection, NoStart(conn[c], s),
             NEW q \in {s, Close(s), Drop(s)}, conn' = [conn EXCEPT ![c] = q]
      PROVE  \A d \in Conns : NoStart(conn[d], conn'[d])
  <2>1. NoStart(conn[c], q)
    BY <1>1, CloseStarts, DropStarts, NoStartTransitive
  <2> QED BY <1>1, <2>1, SlotStarts
<1>2. CASE TooLargeReturns(c) \/ UpgradeReturns(c)
  <2>1. conn' = [conn EXCEPT ![c] = Drop(conn[c])] /\ NoStart(conn[c], conn[c])
    BY <1>2 DEF TooLargeReturns, UpgradeReturns, NoStart
  <2> QED BY <1>0, <1>1, <2>1
<1>3. CASE MoveSocket(c)
  <2>1. PICK m \in BOOLEAN : conn' = [conn EXCEPT ![c].moved = m]
    BY <1>3, Zenon DEF MoveSocket
  <2> DEFINE s == [conn[c] EXCEPT !.moved = m]
  <2>2. s \in Connection /\ NoStart(conn[c], s) /\ conn' = [conn EXCEPT ![c] = s]
    BY <1>0, <2>1 DEF Connection, NoStart
  <2> HIDE DEF s
  <2> QED BY <1>1, <2>2
<1>4. CASE TimerExpires(c) \/ TimerHandler(c)
  <2>1. PICK t \in {"off", "due"} :
          \/ conn' = [conn EXCEPT ![c] = [conn[c] EXCEPT !.timer = t]]
          \/ conn' = [conn EXCEPT ![c] = Close([conn[c] EXCEPT !.timer = t])]
    BY <1>4 DEF TimerExpires, TimerHandler, Expire
  <2> DEFINE s == [conn[c] EXCEPT !.timer = t]
  <2>2. s \in Connection /\ NoStart(conn[c], s)
    BY <1>0 DEF Connection, NoStart
  <2>3. conn' = [conn EXCEPT ![c] = s] \/ conn' = [conn EXCEPT ![c] = Close(s)]
    BY <2>1
  <2> HIDE DEF s
  <2> QED BY <1>1, <2>2, <2>3
<1>5. CASE StaleTimerHandler(c)
  <2>1. PICK b \in BOOLEAN : Expire(c, [conn[c] EXCEPT !.stale = b])
    BY <1>5, Zenon DEF StaleTimerHandler
  <2> DEFINE s == [conn[c] EXCEPT !.stale = b]
  <2>2. s \in Connection /\ NoStart(conn[c], s)
    BY <1>0 DEF Connection, NoStart
  <2>3. conn' = [conn EXCEPT ![c] = s] \/ conn' = [conn EXCEPT ![c] = Close(s)]
    BY <2>1 DEF Expire
  <2> HIDE DEF s
  <2> QED BY <1>1, <2>2, <2>3
<1>6. CASE Delete(c)
  <2>1. NoStart(conn[c], Blank) /\ conn' = [conn EXCEPT ![c] = Blank]
    BY <1>6 DEF Delete, NoStart, Blank
  <2> HIDE DEF Blank
  <2> QED BY <2>1, SlotStarts
<1>7. CASE AcceptCompletes(c) \/ NetCompletes(c)
  <2>1. PICK o \in {"ok", "failed"} : conn' = [conn EXCEPT ![c].op = o]
    BY <1>7 DEF AcceptCompletes, NetCompletes
  <2> DEFINE s == [conn[c] EXCEPT !.op = o]
  <2>2. s \in Connection /\ NoStart(conn[c], s) /\ conn' = [conn EXCEPT ![c] = s]
    BY <1>0, <2>1 DEF Connection, NoStart
  <2> HIDE DEF s
  <2> QED BY <1>1, <2>2
<1> QED BY <1>2, <1>3, <1>4, <1>5, <1>6, <1>7 DEF HandlerReturns, TimerHandlers

LEMMA StopStarts ==
  ASSUME Inv, StopConnections, NEW c \in Conns
  PROVE  NoStart(conn[c], conn'[c])
<1> DEFINE r == IF c \in registry THEN Close(conn[c]) ELSE conn[c]
           m == r.missed \/ (conn[c].phase = "accept" /\ conn[c].op = "ok")
<1>1. conn'[c] = [r EXCEPT !.missed = m]
  BY DEF StopConnections
<1>2. r \in Connection /\ NoStart(conn[c], r)
  <2>1. NoStart(conn[c], conn[c])
    BY DEF NoStart
  <2> QED BY <2>1, SlotSound, CloseStarts
<1> HIDE DEF r, m
<1>3. NoStart(r, [r EXCEPT !.missed = m])
  BY <1>2 DEF Connection, NoStart
<1> QED BY <1>1, <1>2, <1>3, NoStartTransitive

-----------------------------------------------------------------------------
(* The theorems *)

\* Every variable has its type; an operation is outstanding exactly in the
\* phases that have one, user code is on the stack only where it is called, and
\* the part that is posted or written is still in its queue.
THEOREM TypeCorrect == Spec => []TypeOK
<1>1. Inv /\ timeout \in Timeouts => TypeOK
  BY DEF Inv, TypeOK, Sound
<1> QED BY <1>1, Invariance, TimeoutStays, PTL

\* connections->set never holds a deleted connection, nor one whose socket
\* on_upgrade has moved out: stop() may walk over its raw pointers.
THEOREM RegistryValid == Spec => []RegistryIsValid
<1>1. Inv => RegistryIsValid
  BY DEF Inv, RegistryIsValid, Placed
<1> QED BY <1>1, Invariance, PTL

\* The rest of a Response is not written while a part of it is.
THEOREM SingleWriter == Spec => []OneWriter
<1>1. Inv => OneWriter
  BY DEF Inv, OneWriter, Sound
<1> QED BY <1>1, Invariance, PTL

\* An accept that fails does not end the accept loop.
THEOREM AcceptingGoesOn == Spec => []StillAccepting
<1>1. Inv => StillAccepting
  BY DEF Inv, StillAccepting, SomeoneAccepts
<1> QED BY <1>1, Invariance, PTL

\* stop() shuts down every connection that is served, but for those that were
\* upgraded and those whose accept had completed without its handler having run.
THEOREM StopCloses == Spec => StopClosesServed
<1>1. Inv /\ [Next]_vars =>
        [stopAt = "acceptorClosed" /\ stopAt' = "idle" =>
           \A c \in Conns : conn'[c].phase \in Served \ {"upgrade"} => conn'[c].down \/ conn'[c].missed]_vars
  <2> SUFFICES ASSUME Inv, Next, stopAt = "acceptorClosed", stopAt' = "idle", NEW c \in Conns,
                      conn'[c].phase \in Served \ {"upgrade"}
               PROVE  conn'[c].down \/ conn'[c].missed
    OBVIOUS
  <2>1. ASSUME NEW d \in Conns, ConnStep(d) PROVE stopAt' = stopAt
    BY <2>1 DEF ConnStep, Handlers, ReadHandlers, PartSteps, UserSteps, HandlerReturns, TimerHandlers,
         AcceptHandler, HandshakeHandler, HeaderHandler, ContentHandler, SizeHandler, ChunkHandler,
         CrlfHandler, RunWrite, WriteHandler, RunPart, PartHandler, SendPart, ResourceReturns,
         UserReleases, TooLargeReturns, MoveSocket, UpgradeReturns, TimerHandler, StaleTimerHandler,
         AcceptCompletes, NetCompletes, PartCompletes, TimerExpires, Delete, Globals
  <2>2. StopConnections
    BY <2>1 DEF Next, StartServer, StopAcceptor, Destroy
  <2>3. Placed(conn'[c], FALSE)
    BY <2>2, StoppedSound
  <2> QED BY <2>3 DEF Placed
<1> QED BY <1>1, Invariance, PTL DEF Spec, StopClosesServed

\* Once ~ServerBase() is done, the server's handlers, its posted closures and
\* the Responses that outlive it start nothing, for any number of them.
THEOREM NothingAfterDestroy == Spec => NothingStartedAfterDestroy
<1>1. Inv /\ [Next]_vars =>
        [owner = "destroyed" =>
           \A c \in Conns : /\ conn'[c].op = "pending" => conn[c].op = "pending"
                            /\ conn'[c].part = "pending" => conn[c].part = "pending"
                            /\ conn'[c].running => conn[c].running]_vars
  <2> SUFFICES ASSUME Inv, Next, owner = "destroyed"
               PROVE  \A c \in Conns : NoStart(conn[c], conn'[c])
    BY DEF NoStart
  <2>0. ~GateOpen
    BY DEF GateOpen
  <2>1. ASSUME NEW d \in Conns, ConnStep(d) PROVE \A c \in Conns : NoStart(conn[c], conn'[c])
    BY <2>0, <2>1, HandlersStart, ResponseStarts, RestStarts DEF ConnStep
  <2>2. CASE StopConnections
    BY <2>2, StopStarts
  <2>3. ~(StartServer \/ StopAcceptor \/ Destroy)
    BY DEF StartServer, StopAcceptor, Destroy
  <2> QED BY <2>1, <2>2, <2>3 DEF Next
<1> QED BY <1>1, Invariance, PTL DEF Spec, NothingStartedAfterDestroy

=============================================================================
