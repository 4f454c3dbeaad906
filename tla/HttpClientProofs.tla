--------------------------- MODULE HttpClientProofs ---------------------------
(***************************************************************************)
(* That a connection of the pool serves one request at a time, and that    *)
(* the client implements what Exchange promises its callers, for any       *)
(* number of requests, whatever the servers answer and the timers do.      *)
(*                                                                         *)
(* A request holds its connection from get_connection() until in_use is    *)
(* cleared for it.  The invariant says that a connection which is held is  *)
(* in use or has carried a stream of events, and that no two requests hold *)
(* one that has not.  The connection of a second attempt is fresh: nobody  *)
(* else has had it, and it is not replaced again, so that a request is     *)
(* written twice at most.                                                  *)
(*                                                                         *)
(* The actions end in Leaves(), which deletes what nobody refers to; so    *)
(* the invariant is an operator of the sessions, the connections and the   *)
(* pool, proved for the arguments of Leaves() and then for what it leaves. *)
(*                                                                         *)
(* After it: that what leaves the pool while it is used is closed, with    *)
(* the exemptions of LeavesPoolClosed, that whoever waits on an open       *)
(* socket does so under a timer (TimedInv), and that the pool keeps one    *)
(* unused connection open (FewUnused), of finitely many requests.          *)
(***************************************************************************)
EXTENDS HttpClient, FiniteSetTheorems, TLAPS

BeforeWrite == ConnectPhases \cup {"start"}
Early == BeforeWrite \cup {"write", "header"}

\* The session s has its connection to itself, but for streams of events.
Holds(s) ==
  \/ s.phase \in OpPhases \cup {"start"}
  \/ s.phase \in {"prune", "callback"} /\ s.next # "done"

\* A session by itself.
SessionOk(s, r, o) ==
  /\ s \in Session
  /\ (s.op # "none") <=> (s.phase \in OpPhases)
  /\ s.phase \in Active => s.conn \in Conns
  /\ s.phase \in HandlerPhases => o = "alive"
  /\ s.phase = "idle" => s.told = "unasked" /\ s.sent = 0
  /\ s.phase \in Early => s.told = "asked"
  /\ s.phase \in BeforeWrite => s.sent = IF s.conn = Second(r) THEN 1 ELSE 0
  /\ s.phase \in {"write", "header"} => s.sent = IF s.conn = Second(r) THEN 2 ELSE 1
  /\ s.phase \in ReplyPhases \cup {"prune"} => s.told \in {"asked", "part"}
  /\ s.phase \in ReplyPhases => s.sent > 0
  /\ s.phase \in {"prune", "callback"} /\ s.next # "done" => ~s.ec /\ s.sent > 0
  /\ s.phase = "callback" /\ s.next # "done" => s.told = "part"

\* A session and its connection x.
ConnectionOk(s, r, x) ==
  /\ Holds(s) => x.in_use \/ x.stream
  /\ s.phase \in Early /\ s.conn = Second(r) => ~x.attempt_reconnect /\ ~x.stream

\* The request of the session s has made its i-th connection.
HasMade(s, r, i) ==
  /\ s.phase # "idle"
  /\ i = 2 => ~(s.phase \in Early /\ s.conn # Second(r))

State(q, c, p, o) ==
  /\ DOMAIN q = Requests /\ c \in [Conns -> Connection] /\ p \subseteq Conns
  /\ o \in {"alive", "destroying", "destroyed"} /\ config \in Configs
  /\ \A k \in p : c[k].sock # "free"
  /\ \A r \in Requests :
       SessionOk(q[r], r, o) /\ (Holds(q[r]) => ConnectionOk(q[r], r, c[q[r].conn]))
  /\ \A r, s \in Requests :
       r # s /\ Holds(q[r]) /\ Holds(q[s]) /\ q[r].conn = q[s].conn => c[q[r].conn].stream
  /\ \A r \in Requests, i \in {1, 2} :
       <<r, i>> \in p \/ (\E s \in Requests : q[s].conn = <<r, i>>) => HasMade(q[r], r, i)

IInv == req \in [Requests -> Session] /\ State(req, conn, pool, owner)

-----------------------------------------------------------------------------
(* Records *)

LEMMA PhaseNames ==
  /\ "idle" \notin Active /\ "done" \notin Active /\ "dropped" \notin Active
  /\ OpPhases \cap HandlerPhases = {} /\ Early \subseteq Active /\ ReplyPhases \subseteq OpPhases
  /\ Early \cap ReplyPhases = {} /\ Early \cap {"prune", "callback"} = {}
  /\ BeforeWrite \subseteq Early /\ "write" \notin BeforeWrite /\ "header" \notin BeforeWrite
  /\ "done" \notin ReplyPhases
BY DEF Active, OpPhases, HandlerPhases, Early, BeforeWrite, ReplyPhases, ConnectPhases

\* What the end of Leaves() does to a session.
LEMMA LetGo ==
  ASSUME NEW s, NEW r \in Requests, NEW o, SessionOk(s, r, o), s.phase \notin Active
  PROVE  /\ SessionOk([s EXCEPT !.conn = NoConn], r, o) /\ ~Holds([s EXCEPT !.conn = NoConn])
         /\ [s EXCEPT !.conn = NoConn].phase = s.phase /\ [s EXCEPT !.conn = NoConn].conn = NoConn
<1> DEFINE t == [s EXCEPT !.conn = NoConn]
<1>1. s \in Session
  BY DEF SessionOk
<1>2. /\ t \in Session /\ t.phase = s.phase /\ t.op = s.op /\ t.told = s.told /\ t.sent = s.sent
      /\ t.conn = NoConn
  BY <1>1 DEF Session
<1>3. ~Holds(t)
  BY <1>2 DEF Holds, Active, HandlerPhases
<1> HIDE DEF t
<1>4. SessionOk(t, r, o)
  <2>1. (t.op # "none") <=> (t.phase \in OpPhases)
    BY <1>2 DEF SessionOk
  <2>2. t.phase = "idle" => t.told = "unasked" /\ t.sent = 0
    BY <1>2 DEF SessionOk
  <2>3. /\ t.phase \notin Active /\ t.phase \notin HandlerPhases /\ t.phase \notin Early
        /\ t.phase \notin BeforeWrite /\ t.phase \notin {"write", "header"}
        /\ t.phase \notin ReplyPhases \cup {"prune"} /\ t.phase \notin {"prune", "callback"}
    BY <1>2, PhaseNames DEF Active, HandlerPhases, OpPhases
  <2> QED  BY <1>2, <2>1, <2>2, <2>3 DEF SessionOk
<1> QED  BY <1>2, <1>3, <1>4 DEF t

LEMMA LeavesKeeps ==
  ASSUME NEW q, NEW c, NEW p, NEW o, State(q, c, p, o), Leaves(q, c, p, o)
  PROVE  IInv'
<1> DEFINE kept == p \cup {q[r].conn : r \in {s \in Requests : q[s].phase \in Active}}
<1>1. /\ pool' = p /\ owner' = o /\ config' = config
      /\ conn' = [k \in Conns |-> IF k \in kept THEN c[k] ELSE NoObject]
      /\ req' = [r \in Requests |-> [q[r] EXCEPT !.conn = IF @ \in kept THEN @ ELSE NoConn]]
  BY DEF Leaves
<1>2. \A r \in Requests : q[r].phase \in Active => q[r].conn \in kept
  OBVIOUS
<1>3. p \subseteq kept
  OBVIOUS
<1> HIDE DEF kept
<1>4. ASSUME NEW r \in Requests
      PROVE  /\ SessionOk(q[r], r, o) /\ q[r] \in Session /\ SessionOk(req'[r], r, o)
             /\ req'[r].phase = q[r].phase
             /\ req'[r].conn = NoConn \/ req'[r].conn = q[r].conn
             /\ Holds(req'[r]) => Holds(q[r]) /\ req'[r] = q[r] /\ q[r].conn \in kept \cap Conns
  <2>1. SessionOk(q[r], r, o) /\ q[r] \in Session
    BY DEF State, SessionOk
  <2>2. CASE q[r].conn \in kept
    <3>1. req'[r] = q[r]
      BY <1>1, <2>1, <2>2 DEF Session
    <3>2. Holds(q[r]) => q[r].phase \in Active
      BY DEF Holds, Active, HandlerPhases
    <3> QED  BY <2>1, <2>2, <3>1, <3>2 DEF SessionOk
  <2>3. CASE q[r].conn \notin kept
    <3>1. req'[r] = [q[r] EXCEPT !.conn = NoConn]
      BY <1>1, <2>3
    <3>2. q[r].phase \notin Active
      BY <1>2, <2>3
    <3> QED  BY <2>1, <3>1, <3>2, LetGo
  <2> QED  BY <2>2, <2>3
<1>5. conn' \in [Conns -> Connection]
  <2>1. NoObject \in Connection
    BY DEF NoObject, NewConn, Connection
  <2>2. c \in [Conns -> Connection]
    BY DEF State
  <2> QED  BY <1>1, <2>1, <2>2
<1>6. \A k \in pool' : conn'[k].sock # "free"
  BY <1>1, <1>3 DEF State
<1>7. ASSUME NEW r \in Requests
      PROVE  SessionOk(req'[r], r, owner') /\ (Holds(req'[r]) => ConnectionOk(req'[r], r, conn'[req'[r].conn]))
  <2>1. SessionOk(req'[r], r, owner')
    BY <1>1, <1>4
  <2>2. ASSUME Holds(req'[r]) PROVE ConnectionOk(req'[r], r, conn'[req'[r].conn])
    <3>1. Holds(q[r]) /\ req'[r] = q[r] /\ conn'[q[r].conn] = c[q[r].conn]
      BY <1>1, <1>4, <2>2
    <3>2. ConnectionOk(q[r], r, c[q[r].conn])
      BY <3>1 DEF State
    <3> QED  BY <3>1, <3>2
  <2> QED  BY <2>1, <2>2
<1>8. ASSUME NEW r \in Requests, NEW s \in Requests,
             r # s, Holds(req'[r]), Holds(req'[s]), req'[r].conn = req'[s].conn
      PROVE  conn'[req'[r].conn].stream
  <2>1. Holds(q[r]) /\ Holds(q[s]) /\ q[r].conn = q[s].conn /\ req'[r].conn = q[r].conn
        /\ conn'[q[r].conn] = c[q[r].conn]
    BY <1>1, <1>4, <1>8
  <2>2. c[q[r].conn].stream
    BY <1>8, <2>1 DEF State
  <2> QED  BY <2>1, <2>2
<1>9. ASSUME NEW r \in Requests, NEW i \in {1, 2},
             <<r, i>> \in pool' \/ \E s \in Requests : req'[s].conn = <<r, i>>
      PROVE  HasMade(req'[r], r, i)
  <2>1. <<r, i>> \in Conns /\ <<r, i>> # NoConn
    BY ClientAssumption DEF Conns
  <2>2. <<r, i>> \in p \/ \E s \in Requests : q[s].conn = <<r, i>>
    BY <1>1, <1>4, <1>9, <2>1
  <2>3. HasMade(q[r], r, i)
    BY <2>2 DEF State
  <2>4. req'[r].phase \in Early => req'[r] = q[r]
    <3>1. req'[r].phase \in Early => Holds(req'[r])
      BY DEF Holds, Early, BeforeWrite, OpPhases
    <3> QED  BY <3>1, <1>4
  <2> QED  BY <1>4, <2>3, <2>4 DEF HasMade
<1>10. DOMAIN req' = Requests /\ pool' \subseteq Conns /\ config' \in Configs
       /\ owner' \in {"alive", "destroying", "destroyed"}
  BY <1>1 DEF State
<1>11. req' \in [Requests -> Session]
  BY <1>1, <1>7 DEF SessionOk
<1> QED  BY <1>5, <1>6, <1>7, <1>8, <1>9, <1>10, <1>11 DEF IInv, State

\* y is the connection x but for its socket and timers.
Flags(x, y) ==
  /\ x \in Connection /\ y \in Connection
  /\ y.in_use = x.in_use /\ y.stream = x.stream /\ y.attempt_reconnect = x.attempt_reconnect
  /\ x.sock # "free" => y.sock # "free"

LEMMA SameFlags ==
  ASSUME NEW x \in Connection
  PROVE  Flags(x, x)
BY DEF Flags

LEMMA TimerFlags ==
  ASSUME NEW x \in Connection, NEW enabled \in BOOLEAN
  PROVE  Flags(x, SetTimer(x, enabled)) /\ SetTimer(x, enabled).sock = x.sock
<1>1. PICK b \in BOOLEAN : b <=> x.timer = "due"
  <2>1. CASE x.timer = "due"
    <3>1. TRUE <=> x.timer = "due"
      BY <2>1
    <3> QED  BY <3>1, Zenon
  <2>2. CASE x.timer # "due"
    <3>1. FALSE <=> x.timer = "due"
      BY <2>2
    <3> QED  BY <3>1, Zenon
  <2> QED  BY <2>1, <2>2
<1>2. PICK t \in {"armed", "off"} : t = IF enabled THEN "armed" ELSE "off"
  OBVIOUS
<1>3. SetTimer(x, enabled) = [x EXCEPT !.stale = x.stale \/ b, !.timer = t]
  BY <1>1, <1>2 DEF SetTimer
<1>4. (x.stale \/ b) \in BOOLEAN
  OBVIOUS
<1> QED  BY <1>3, <1>4 DEF Flags, Connection

LEMMA SockFlags ==
  ASSUME NEW x \in Connection, NEW sock \in {"new", "connecting", "open", "shut", "down"}
  PROVE  Flags(x, [x EXCEPT !.sock = sock]) /\ [x EXCEPT !.sock = sock].sock = sock
BY DEF Flags, Connection

LEMMA ClosedFlags ==
  ASSUME NEW x \in Connection
  PROVE  Flags(x, Closed(x))
BY DEF Flags, Connection, Closed

LEMMA ExpiredFlags ==
  ASSUME NEW x \in Connection
  PROVE  /\ \A t \in {"off", "due"} : Flags(x, [x EXCEPT !.timer = t])
         /\ Flags(x, [x EXCEPT !.stale = FALSE])
BY DEF Flags, Connection

LEMMA FlagsTwice ==
  ASSUME NEW x, NEW y, NEW z, Flags(x, y), Flags(y, z)
  PROVE  Flags(x, z)
BY DEF Flags

LEMMA StartFields ==
  ASSUME NEW s \in Session, NEW phase \in OpPhases
  PROVE  /\ Start(s, phase) \in Session /\ Start(s, phase).phase = phase
         /\ Start(s, phase).op = "pending" /\ Start(s, phase).conn = s.conn
         /\ Start(s, phase).told = s.told /\ Start(s, phase).sent = s.sent
         /\ Start(s, phase).next = "done"
BY DEF Start, Session, Active

LEMMA TellingFields ==
  ASSUME NEW s \in Session, NEW ec \in BOOLEAN, NEW next \in ReplyPhases \cup {"done"}
  PROVE  /\ Telling(s, ec, next) \in Session /\ Telling(s, ec, next).phase = "prune"
         /\ Telling(s, ec, next).op = "none" /\ Telling(s, ec, next).conn = s.conn
         /\ Telling(s, ec, next).told = s.told /\ Telling(s, ec, next).sent = s.sent
         /\ Telling(s, ec, next).next = next /\ Telling(s, ec, next).ec = ec
BY DEF Telling, Session, Active, HandlerPhases

\* An operation that is aborted, or fails.
LEMMA OpEnds ==
  ASSUME NEW s, NEW r \in Requests, NEW o, SessionOk(s, r, o), s.op = "pending",
         NEW e \in {"aborted", "failed"}
  PROVE  /\ SessionOk([s EXCEPT !.op = e], r, o) /\ [s EXCEPT !.op = e].phase = s.phase
         /\ [s EXCEPT !.op = e].conn = s.conn /\ [s EXCEPT !.op = e].next = s.next
<1> DEFINE t == [s EXCEPT !.op = e]
<1>1. s \in Session /\ s.phase \in OpPhases /\ s.phase \notin HandlerPhases
  BY PhaseNames DEF SessionOk
<1>2. /\ t \in Session /\ t.phase = s.phase /\ t.op = e /\ t.told = s.told /\ t.sent = s.sent
      /\ t.conn = s.conn /\ t.next = s.next
  BY <1>1 DEF Session
<1>3. t.phase \notin {"prune", "callback"}
  BY <1>1, <1>2 DEF HandlerPhases
<1> HIDE DEF t
<1>4. SessionOk(t, r, o)
  BY <1>1, <1>2, <1>3 DEF SessionOk
<1> QED  BY <1>2, <1>4 DEF t

-----------------------------------------------------------------------------
(* What steps keep *)

LEMMA ConnTypes ==
  ASSUME IInv
  PROVE  /\ \A k \in Conns : conn[k] \in Connection
         /\ \A r \in Requests : SessionOk(req[r], r, owner) /\ req[r] \in Session
         /\ \A r \in Requests : req[r].phase \in Active => req[r].conn \in Conns
         /\ DOMAIN req = Requests /\ DOMAIN conn = Conns /\ pool \subseteq Conns
         /\ config \in Configs /\ config.timeout \in BOOLEAN /\ config.timeout_connect \in BOOLEAN
<1>1. config \in Configs
  BY DEF IInv, State
<1> QED  BY <1>1, ClientAssumption DEF IInv, State, SessionOk

\* Sessions may end or be cut, and connections be closed: nobody gets one.
LEMMA ManyStep ==
  ASSUME IInv, NEW q, DOMAIN q = Requests, NEW c \in [Conns -> Connection],
         NEW p \in SUBSET pool, NEW o \in {"alive", "destroying", "destroyed"},
         \A k \in Conns : Flags(conn[k], c[k]),
         \A r \in Requests :
           /\ SessionOk(q[r], r, o) /\ q[r].conn = req[r].conn
           /\ Holds(q[r]) => Holds(req[r])
           /\ q[r].phase \in Early => req[r].phase \in Early
           /\ q[r].phase = "idle" => req[r].phase = "idle"
  PROVE  State(q, c, p, o)
<1>1. \A k \in p : c[k].sock # "free"
  BY DEF IInv, State, Flags
<1>2. ASSUME NEW r \in Requests, Holds(q[r]) PROVE ConnectionOk(q[r], r, c[q[r].conn])
  <2>1. Holds(req[r]) /\ ConnectionOk(req[r], r, conn[req[r].conn])
    BY <1>2 DEF IInv, State
  <2>2. q[r].conn \in Conns
    BY <1>2 DEF Holds, SessionOk, Active, HandlerPhases
  <2>3. Flags(conn[q[r].conn], c[q[r].conn])
    BY <2>2
  <2> QED  BY <1>2, <2>1, <2>3 DEF ConnectionOk, Flags
<1>3. ASSUME NEW r \in Requests, NEW s \in Requests,
             r # s, Holds(q[r]), Holds(q[s]), q[r].conn = q[s].conn
      PROVE  c[q[r].conn].stream
  <2>1. conn[q[r].conn].stream
    BY <1>3 DEF IInv, State
  <2>2. q[r].conn \in Conns
    BY <1>3 DEF Holds, SessionOk, Active, HandlerPhases
  <2> QED  BY <2>1, <2>2 DEF Flags
<1>4. ASSUME NEW r \in Requests, NEW i \in {1, 2},
             <<r, i>> \in p \/ \E s \in Requests : q[s].conn = <<r, i>>
      PROVE  HasMade(q[r], r, i)
  <2>1. HasMade(req[r], r, i)
    BY <1>4 DEF IInv, State
  <2> QED  BY <2>1 DEF HasMade
<1>5. p \subseteq Conns /\ config \in Configs
  BY DEF IInv, State
<1> QED  BY <1>1, <1>2, <1>3, <1>4, <1>5 DEF State

\* The chain of r goes on, or is over, with the connection it has.
LEMMA OwnStep ==
  ASSUME IInv, NEW r \in Requests, NEW k \in Conns, k = req[r].conn, req[r].phase \in Active,
         NEW s, SessionOk(s, r, owner), s.conn = k,
         Holds(s) => Holds(req[r]), s.phase \in Early => req[r].phase \in Early, s.phase # "idle",
         NEW x \in Connection, conn[k].sock # "free" => x.sock # "free",
         conn[k].stream => x.stream, Holds(s) => ConnectionOk(s, r, x),
         Holds(req[r]) \/ Flags(conn[k], x),
         NEW c, c = [conn EXCEPT ![k] = x], NEW p \in SUBSET pool
  PROVE  State([req EXCEPT ![r] = s], c, p, owner)
<1> DEFINE q == [req EXCEPT ![r] = s]
<1>1. /\ DOMAIN q = Requests /\ q[r] = s /\ \A v \in Requests \ {r} : q[v] = req[v]
      /\ c \in [Conns -> Connection] /\ c[k] = x /\ \A j \in Conns \ {k} : c[j] = conn[j]
  BY DEF IInv, State
<1> HIDE DEF q
<1>2. \A j \in p : c[j].sock # "free"
  BY <1>1 DEF IInv, State
<1>3. \A v \in Requests : SessionOk(q[v], v, owner)
  BY <1>1 DEF IInv, State
<1>4. \A v \in Requests : q[v].conn = req[v].conn /\ (Holds(q[v]) => Holds(req[v]))
  BY <1>1
<1>5. \A v \in Requests : Holds(q[v]) => q[v].conn \in Conns
  BY <1>3 DEF Holds, SessionOk, Active, HandlerPhases
<1>6. ASSUME NEW v \in Requests, Holds(q[v]) PROVE ConnectionOk(q[v], v, c[q[v].conn])
  <2>1. CASE v = r
    BY <1>1, <1>6, <2>1
  <2>2. CASE v # r
    <3>1. q[v] = req[v] /\ Holds(req[v]) /\ ConnectionOk(req[v], v, conn[req[v].conn])
      BY <1>1, <1>6, <2>2 DEF IInv, State
    <3>2. CASE req[v].conn # k
      BY <1>1, <1>5, <1>6, <3>1, <3>2
    <3>3. CASE req[v].conn = k
      <4>1. CASE Flags(conn[k], x)
        BY <1>1, <3>1, <3>3, <4>1 DEF ConnectionOk, Flags
      <4>2. CASE Holds(req[r])
        <5>1. conn[k].stream
          BY <2>2, <3>1, <3>3, <4>2 DEF IInv, State
        <5> QED  BY <1>1, <3>1, <3>3, <5>1 DEF ConnectionOk
      <4> QED  BY <4>1, <4>2
    <3> QED  BY <3>2, <3>3
  <2> QED  BY <2>1, <2>2
<1>7. ASSUME NEW v \in Requests, NEW w \in Requests,
             v # w, Holds(q[v]), Holds(q[w]), q[v].conn = q[w].conn
      PROVE  c[q[v].conn].stream
  <2>1. conn[q[v].conn].stream /\ q[v].conn \in Conns
    BY <1>4, <1>5, <1>7 DEF IInv, State
  <2> QED  BY <1>1, <2>1
<1>8. ASSUME NEW v \in Requests, NEW i \in {1, 2},
             <<v, i>> \in p \/ \E w \in Requests : q[w].conn = <<v, i>>
      PROVE  HasMade(q[v], v, i)
  <2>1. HasMade(req[v], v, i)
    BY <1>4, <1>8 DEF IInv, State
  <2> QED  BY <1>1, <1>4, <2>1 DEF HasMade
<1>9. p \subseteq Conns /\ config \in Configs /\ owner \in {"alive", "destroying", "destroyed"}
  BY DEF IInv, State
<1>10. State(q, c, p, owner)
  BY <1>1, <1>2, <1>3, <1>6, <1>7, <1>8, <1>9 DEF State
<1> QED  BY <1>10 DEF q

-----------------------------------------------------------------------------
(* The building blocks of the actions *)

LEMMA CloseKeeps ==
  ASSUME IInv, NEW q, DOMAIN q = Requests, NEW c \in [Conns -> Connection],
         NEW ks, NEW p \in SUBSET pool, NEW o \in {"alive", "destroying", "destroyed"},
         \A k \in Conns : Flags(conn[k], c[k]),
         \A r \in Requests :
           /\ SessionOk(q[r], r, o) /\ q[r].conn = req[r].conn
           /\ Holds(q[r]) => Holds(req[r])
           /\ q[r].phase \in Early => req[r].phase \in Early
           /\ q[r].phase = "idle" => req[r].phase = "idle",
         CloseAll(q, c, ks, p, o)
  PROVE  IInv'
<1> DEFINE cut == {r \in Requests : /\ q[r].conn \in ks /\ q[r].op = "pending"
                                    /\ c[q[r].conn].sock \in {"open", "shut", "down"}}
           ended(aborted) ==
             [r \in Requests |-> IF r \notin cut THEN q[r]
                ELSE [q[r] EXCEPT !.op = IF r \in aborted THEN "aborted" ELSE "failed"]]
           closed == [k \in Conns |-> IF k \in ks THEN Closed(c[k]) ELSE c[k]]
<1>1. PICK aborted \in SUBSET cut : Leaves(ended(aborted), closed, p, o)
  BY DEF CloseAll
<1>2. closed \in [Conns -> Connection] /\ \A k \in Conns : Flags(conn[k], closed[k])
  <2>1. ASSUME NEW k \in Conns PROVE closed[k] \in Connection /\ Flags(conn[k], closed[k])
    <3>1. c[k] \in Connection /\ Flags(conn[k], c[k]) /\ Flags(c[k], Closed(c[k]))
      BY ClosedFlags
    <3>2. CASE k \in ks
      <4>1. Flags(conn[k], Closed(c[k]))
        BY <3>1, FlagsTwice
      <4> QED  BY <3>2, <4>1 DEF Flags
    <3> QED  BY <3>1, <3>2
  <2> QED  BY <2>1
<1>3. ASSUME NEW r \in Requests
      PROVE  LET t == ended(aborted)[r]
             IN  /\ SessionOk(t, r, o) /\ t.phase = q[r].phase /\ t.conn = q[r].conn
                 /\ Holds(t) => Holds(q[r])
  <2>1. CASE r \notin cut
    BY <2>1
  <2>2. CASE r \in cut
    <3>1. PICK e \in {"aborted", "failed"} : e = IF r \in aborted THEN "aborted" ELSE "failed"
      OBVIOUS
    <3>2. ended(aborted)[r] = [q[r] EXCEPT !.op = e]
      BY <2>2, <3>1
    <3>3. q[r].op = "pending" /\ SessionOk(q[r], r, o)
      BY <2>2
    <3> HIDE DEF ended, closed, cut
    <3> DEFINE t == [q[r] EXCEPT !.op = e]
    <3>4. SessionOk(t, r, o) /\ t.phase = q[r].phase /\ t.conn = q[r].conn /\ t.next = q[r].next
      BY <3>3, OpEnds
    <3> HIDE DEF t
    <3>5. Holds(t) => Holds(q[r])
      BY <3>4 DEF Holds
    <3> QED  BY <3>2, <3>4, <3>5 DEF t
  <2> QED  BY <2>1, <2>2
<1>4. DOMAIN ended(aborted) = Requests
  OBVIOUS
<1> HIDE DEF ended, closed, cut
<1>5. State(ended(aborted), closed, p, o)
  BY <1>2, <1>3, <1>4, ManyStep
<1> QED  BY <1>1, <1>5, LeavesKeeps

\* A session whose chain has an operation.
LEMMA OpFacts ==
  ASSUME IInv, NEW r \in Requests, req[r].phase \in OpPhases \cup {"start"}
  PROVE  /\ Holds(req[r]) /\ req[r].conn \in Conns /\ req[r] \in Session /\ req[r].phase \in Active
         /\ SessionOk(req[r], r, owner)
         /\ ConnectionOk(req[r], r, conn[req[r].conn])
         /\ conn[req[r].conn] \in Connection
         /\ req[r].told \in {"asked", "part"} /\ req[r].sent \in 0..2
         /\ req[r].phase \in Early \/ req[r].phase \in ReplyPhases
<1>1. Holds(req[r]) /\ req[r].phase \in Active
  BY DEF Holds, Active, HandlerPhases
<1>2. SessionOk(req[r], r, owner) /\ req[r] \in Session /\ req[r].conn \in Conns
  BY <1>1, ConnTypes
<1>3. ConnectionOk(req[r], r, conn[req[r].conn])
  BY <1>1 DEF IInv, State
<1>4. req[r].phase \in Early \/ req[r].phase \in ReplyPhases
  BY DEF OpPhases, Early, BeforeWrite
<1>5. req[r].told \in {"asked", "part"} /\ req[r].sent \in 0..2
  BY <1>2, <1>4 DEF SessionOk, Session
<1> QED  BY <1>1, <1>2, <1>3, <1>4, <1>5, ConnTypes

LEMMA EndStep ==
  ASSUME IInv, owner = "alive", NEW r \in Requests, NEW k, k = req[r].conn, req[r].phase \in OpPhases,
         NEW ec \in BOOLEAN, NEW next \in ReplyPhases \cup {"done"}, NEW p \in SUBSET pool,
         NEW x \in Connection, conn[k].sock # "free" => x.sock # "free", conn[k].stream => x.stream,
         next # "done" => ~ec /\ x.stream /\ req[r].sent > 0,
         TellEnd(r, ec, next, [conn EXCEPT ![k] = x], p)
  PROVE  IInv'
<1> DEFINE s == Telling(req[r], ec, next)
           y == [CancelTimer(x) EXCEPT !.in_use = FALSE]
<1>1. /\ Holds(req[r]) /\ k \in Conns /\ req[r] \in Session /\ req[r].phase \in Active
      /\ SessionOk(req[r], r, owner) /\ conn[k] \in Connection
      /\ req[r].told \in {"asked", "part"} /\ req[r].sent \in 0..2
  BY OpFacts
<1>2. /\ s \in Session /\ s.phase = "prune" /\ s.op = "none" /\ s.conn = k
      /\ s.told = req[r].told /\ s.sent = req[r].sent /\ s.next = next /\ s.ec = ec
  BY <1>1, TellingFields
<1>3. /\ y \in Connection /\ y.sock = x.sock /\ y.stream = x.stream
  <2>1. CancelTimer(x) \in Connection /\ CancelTimer(x).sock = x.sock /\ CancelTimer(x).stream = x.stream
    BY TimerFlags DEF Flags, CancelTimer
  <2> QED  BY <2>1 DEF Connection
<1>4. Leaves([req EXCEPT ![r] = s], [conn EXCEPT ![k] = y], p, owner)
  <2>1. [[conn EXCEPT ![k] = x] EXCEPT ![k] = [CancelTimer([conn EXCEPT ![k] = x][k]) EXCEPT !.in_use = FALSE]]
          = [conn EXCEPT ![k] = y]
    <3>1. [conn EXCEPT ![k] = x][k] = x
      BY <1>1, ConnTypes
    <3> QED  BY <3>1
  <2> QED  BY <2>1 DEF TellEnd, Becomes
<1> HIDE DEF s, y
<1>5. SessionOk(s, r, owner)
  <2>1. s.phase \notin OpPhases /\ s.phase \notin Early /\ s.phase # "idle"
        /\ s.phase \notin BeforeWrite /\ s.phase \notin ReplyPhases
    BY <1>2, PhaseNames DEF HandlerPhases
  <2> QED  BY <1>1, <1>2, <2>1 DEF SessionOk
<1>6. s.phase \notin Early /\ s.phase # "idle"
  BY <1>2, PhaseNames
<1>7. Holds(s) => ConnectionOk(s, r, y)
  <2>1. Holds(s) => next # "done"
    BY <1>2, PhaseNames DEF Holds, HandlerPhases
  <2> QED  BY <1>3, <1>6, <2>1 DEF ConnectionOk
<1>8. State([req EXCEPT ![r] = s], [conn EXCEPT ![k] = y], p, owner)
  BY <1>1, <1>2, <1>3, <1>5, <1>6, <1>7, OwnStep
<1> QED  BY <1>4, <1>8, LeavesKeeps

LEMMA ErrorStep ==
  ASSUME IInv, owner = "alive", NEW r \in Requests, req[r].phase \in OpPhases,
         NEW ec \in BOOLEAN, NEW p \in SUBSET pool, TellEnd(r, ec, "done", conn, p)
  PROVE  IInv'
<1>1. conn[req[r].conn] \in Connection /\ req[r].conn \in Conns
  BY OpFacts
<1>2. conn = [conn EXCEPT ![req[r].conn] = conn[req[r].conn]]
  BY <1>1 DEF IInv, State
<1>3. TellEnd(r, ec, "done", [conn EXCEPT ![req[r].conn] = conn[req[r].conn]], p)
  BY <1>2
<1> QED  BY <1>1, <1>3, EndStep

\* A step of the chain which leaves the flags of the connection.
LEMMA GoOn ==
  ASSUME IInv, NEW r \in Requests, NEW k, k = req[r].conn, req[r].phase \in Active,
         NEW s, SessionOk(s, r, owner), s.conn = k,
         Holds(s) => Holds(req[r]), s.phase \in Early => req[r].phase \in Early, s.phase # "idle",
         NEW x, Flags(conn[k], x), NEW p \in SUBSET pool,
         Becomes([req EXCEPT ![r] = s], [conn EXCEPT ![k] = x], p)
  PROVE  IInv'
<1>1. k \in Conns /\ x \in Connection
  BY ConnTypes DEF Flags
<1>2. conn[k].stream => x.stream
  BY DEF Flags
<1>3. Holds(s) => ConnectionOk(s, r, x)
  <2> SUFFICES ASSUME Holds(s) PROVE ConnectionOk(s, r, x)
    OBVIOUS
  <2>1. ConnectionOk(req[r], r, conn[k])
    BY DEF IInv, State
  <2> QED  BY <2>1 DEF ConnectionOk, Flags
<1>4. State([req EXCEPT ![r] = s], [conn EXCEPT ![k] = x], p, owner)
  BY <1>1, <1>2, <1>3, OwnStep DEF Flags
<1> QED  BY <1>4, LeavesKeeps DEF Becomes

\* The same without a change of the connection.
LEMMA GoOnWith ==
  ASSUME IInv, NEW r \in Requests, req[r].phase \in Active,
         NEW s, SessionOk(s, r, owner), s.conn = req[r].conn,
         Holds(s) => Holds(req[r]), s.phase \in Early => req[r].phase \in Early, s.phase # "idle",
         NEW p \in SUBSET pool, Becomes([req EXCEPT ![r] = s], conn, p)
  PROVE  IInv'
<1>1. req[r].conn \in Conns /\ conn[req[r].conn] \in Connection
  BY ConnTypes
<1>2. conn = [conn EXCEPT ![req[r].conn] = conn[req[r].conn]]
  BY <1>1 DEF IInv, State
<1>3. Becomes([req EXCEPT ![r] = s], [conn EXCEPT ![req[r].conn] = conn[req[r].conn]], p)
  BY <1>2
<1> QED  BY <1>1, <1>3, SameFlags, GoOn

LEMMA MoreStep ==
  ASSUME IInv, owner = "alive", NEW r \in Requests, req[r].phase \in ReplyPhases,
         NEW next \in ReplyPhases, NEW p \in SUBSET pool, TellMore(r, next, p)
  PROVE  IInv'
<1> DEFINE s == Telling(req[r], FALSE, next)
<1>1. /\ Holds(req[r]) /\ req[r] \in Session /\ req[r].phase \in Active
      /\ req[r].told \in {"asked", "part"} /\ req[r].sent > 0
      /\ SessionOk(req[r], r, owner)
  BY OpFacts, PhaseNames DEF SessionOk
<1>2. /\ s \in Session /\ s.phase = "prune" /\ s.op = "none" /\ s.conn = req[r].conn
      /\ s.told = req[r].told /\ s.sent = req[r].sent /\ s.next = next /\ s.ec = FALSE
  BY <1>1 DEF Telling, Session, Active, HandlerPhases
<1>3. Becomes([req EXCEPT ![r] = s], conn, p)
  BY DEF TellMore
<1> HIDE DEF s
<1>4. s.phase \notin Early /\ s.phase # "idle" /\ s.phase \notin OpPhases
      /\ s.phase \notin BeforeWrite /\ s.phase \notin ReplyPhases
  BY <1>2, PhaseNames DEF HandlerPhases
<1>5. SessionOk(s, r, owner)
  BY <1>1, <1>2, <1>4 DEF SessionOk
<1> QED  BY <1>1, <1>2, <1>3, <1>4, <1>5, GoOnWith

\* The next operation of the chain, which is not before its header.
LEMMA NextOp ==
  ASSUME IInv, NEW r \in Requests, req[r].phase \in Active, Holds(req[r]), NEW phase \in ReplyPhases,
         req[r].told \in {"asked", "part"}, req[r].sent > 0
  PROVE  /\ SessionOk(Start(req[r], phase), r, owner) /\ Start(req[r], phase).conn = req[r].conn
         /\ Start(req[r], phase).phase \notin Early /\ Start(req[r], phase).phase # "idle"
<1> DEFINE s == Start(req[r], phase)
<1>1. req[r] \in Session /\ req[r].conn \in Conns /\ phase \in OpPhases
  BY ConnTypes, PhaseNames
<1>2. /\ s \in Session /\ s.phase = phase /\ s.op = "pending" /\ s.conn = req[r].conn
      /\ s.told = req[r].told /\ s.sent = req[r].sent
  BY <1>1, StartFields
<1> HIDE DEF s
<1>3. /\ phase \notin Early /\ phase # "idle" /\ phase \notin BeforeWrite /\ phase \notin HandlerPhases
      /\ phase \notin {"write", "header"} /\ phase \notin {"prune", "callback"}
  BY PhaseNames DEF ReplyPhases, HandlerPhases
<1>4. SessionOk(s, r, owner)
  BY <1>1, <1>2, <1>3 DEF SessionOk
<1> QED  BY <1>2, <1>3, <1>4 DEF s

\* ... and one of connect() or the write.
LEMMA EarlyOp ==
  ASSUME IInv, NEW r \in Requests, req[r].phase \in BeforeWrite, NEW phase \in ConnectPhases
  PROVE  /\ SessionOk(Start(req[r], phase), r, owner) /\ Start(req[r], phase).conn = req[r].conn
         /\ Start(req[r], phase).phase # "idle"
<1> DEFINE s == Start(req[r], phase)
<1>1. /\ phase \in OpPhases /\ req[r].phase \in OpPhases \cup {"start"} /\ phase \in BeforeWrite
  BY DEF OpPhases, BeforeWrite
<1>2. req[r] \in Session /\ req[r].conn \in Conns /\ SessionOk(req[r], r, owner)
  BY <1>1, OpFacts
<1>3. /\ s \in Session /\ s.phase = phase /\ s.op = "pending" /\ s.conn = req[r].conn
      /\ s.told = req[r].told /\ s.sent = req[r].sent
  BY <1>1, <1>2, StartFields
<1> HIDE DEF s
<1>4. /\ phase # "idle" /\ phase \notin HandlerPhases /\ phase \notin ReplyPhases
      /\ phase \notin {"write", "header"} /\ phase \notin {"prune", "callback"}
  BY DEF ReplyPhases, HandlerPhases, ConnectPhases
<1>5. req[r].told = "asked" /\ req[r].sent = IF req[r].conn = Second(r) THEN 1 ELSE 0
  BY <1>2, PhaseNames DEF SessionOk
<1>6. SessionOk(s, r, owner)
  BY <1>1, <1>2, <1>3, <1>4, <1>5 DEF SessionOk
<1> QED  BY <1>3, <1>4, <1>6 DEF s

LEMMA WriteStep ==
  ASSUME IInv, NEW r \in Requests, NEW k, k = req[r].conn, req[r].phase \in BeforeWrite,
         NEW x, Flags(conn[k], x), Write(r, k, [conn EXCEPT ![k] = x])
  PROVE  IInv'
<1> DEFINE s == [Start(req[r], "write") EXCEPT !.sent = @ + 1]
           y == SetTimer(x, config.timeout)
<1>1. req[r].phase \in OpPhases \cup {"start"} /\ "write" \in OpPhases /\ req[r].phase \in Early
  BY PhaseNames DEF OpPhases, BeforeWrite
<1>2. /\ Holds(req[r]) /\ k \in Conns /\ req[r] \in Session /\ req[r].phase \in Active
      /\ SessionOk(req[r], r, owner)
  BY <1>1, OpFacts
<1>3. req[r].told = "asked" /\ req[r].sent = IF k = Second(r) THEN 1 ELSE 0
  BY <1>1, <1>2 DEF SessionOk
<1>4. /\ s \in Session /\ s.phase = "write" /\ s.op = "pending" /\ s.conn = k
      /\ s.told = req[r].told /\ s.sent = req[r].sent + 1
  <2>1. /\ Start(req[r], "write") \in Session /\ Start(req[r], "write").phase = "write"
        /\ Start(req[r], "write").op = "pending" /\ Start(req[r], "write").conn = k
        /\ Start(req[r], "write").told = req[r].told /\ Start(req[r], "write").sent = req[r].sent
    BY <1>1, <1>2, StartFields
  <2>2. req[r].sent + 1 \in 0..2
    BY <1>3
  <2> QED  BY <2>1, <2>2 DEF Session
<1>5. Flags(conn[k], y)
  BY TimerFlags, FlagsTwice, ConnTypes DEF Flags
<1>6. Becomes([req EXCEPT ![r] = s], [conn EXCEPT ![k] = y], pool)
  <2>1. [conn EXCEPT ![k] = x][k] = x
    BY <1>2, ConnTypes
  <2>2. [[conn EXCEPT ![k] = x] EXCEPT ![k] = SetTimer([conn EXCEPT ![k] = x][k], config.timeout)]
          = [conn EXCEPT ![k] = y]
    BY <2>1
  <2>3. Becomes([req EXCEPT ![r] = [Start(req[r], "write") EXCEPT !.sent = @ + 1]],
                [[conn EXCEPT ![k] = x] EXCEPT
                   ![k] = SetTimer([conn EXCEPT ![k] = x][k], config.timeout)], pool)
    BY DEF Write
  <2> QED  BY <2>2, <2>3, Zenon
<1> HIDE DEF s, y
<1>7. SessionOk(s, r, owner)
  <2>1. /\ "write" \in Early /\ "write" \notin BeforeWrite /\ "write" \notin HandlerPhases
        /\ "write" \notin ReplyPhases \cup {"prune"} /\ "write" \notin {"prune", "callback"}
    BY DEF Early, BeforeWrite, ConnectPhases, HandlerPhases, ReplyPhases
  <2>2. s.sent = IF s.conn = Second(r) THEN 2 ELSE 1
    BY <1>3, <1>4
  <2> QED  BY <1>1, <1>2, <1>3, <1>4, <2>1, <2>2 DEF SessionOk
<1> QED  BY <1>1, <1>2, <1>4, <1>5, <1>6, <1>7, GoOn

-----------------------------------------------------------------------------
(* The actions *)

LEMMA InitInv == Init => IInv
<1> SUFFICES ASSUME Init PROVE IInv
  OBVIOUS
<1>1. /\ req = [r \in Requests |-> NotAsked] /\ conn = [k \in Conns |-> NoObject]
      /\ pool = {} /\ owner = "alive" /\ config \in Configs
  BY DEF Init
<1>2. NoObject \in Connection
  BY DEF NoObject, NewConn, Connection
<1>3. /\ NotAsked \in Session /\ NotAsked.phase = "idle" /\ NotAsked.op = "none"
      /\ NotAsked.conn = NoConn /\ NotAsked.told = "unasked" /\ NotAsked.sent = 0
  BY DEF NotAsked, Session
<1>4. ~Holds(NotAsked)
  BY <1>3, PhaseNames DEF Holds, Active, HandlerPhases
<1>5. ASSUME NEW r \in Requests PROVE SessionOk(NotAsked, r, "alive")
  <2>1. /\ "idle" \notin OpPhases /\ "idle" \notin HandlerPhases /\ "idle" \notin Early
        /\ "idle" \notin BeforeWrite /\ "idle" \notin {"write", "header"}
        /\ "idle" \notin ReplyPhases \cup {"prune"} /\ "idle" \notin {"prune", "callback"}
    BY PhaseNames DEF Active
  <2> QED  BY <1>3, <2>1, PhaseNames DEF SessionOk
<1>6. ASSUME NEW r \in Requests, NEW i \in {1, 2} PROVE <<r, i>> # NoConn
  BY ClientAssumption
<1> HIDE DEF NotAsked
<1> QED  BY <1>1, <1>2, <1>3, <1>4, <1>5, <1>6 DEF IInv, State

LEMMA Asked ==
  ASSUME IInv, NEW r \in Requests, GetConnection(r)
  PROVE  IInv'
<1>1. owner = "alive" /\ req[r].phase = "idle" /\ pool \subseteq Conns
  BY ConnTypes DEF GetConnection
<1> DEFINE unused == {k \in pool : ~conn[k].in_use}
<1>2. PICK k \in IF unused # {} THEN unused ELSE {First(r)} :
        Becomes([req EXCEPT ![r] = [@ EXCEPT !.phase = "start", !.conn = k, !.told = "asked",
                                      !.caller = IF config.sync THEN "waiting" ELSE req[r].caller]],
                [conn EXCEPT ![k] = [(IF k \in unused THEN conn[k] ELSE NewConn) EXCEPT
                                       !.in_use = TRUE, !.attempt_reconnect = TRUE]],
                pool \cup {k})
  BY DEF GetConnection
<1>3. First(r) \in Conns /\ k \in Conns
  BY <1>1 DEF Conns, First
<1>4. k = First(r) \/ (k \in pool /\ ~conn[k].in_use)
  BY <1>2
<1>5. ASSUME NEW i \in {1, 2}
      PROVE  <<r, i>> \notin pool /\ \A v \in Requests : req[v].conn # <<r, i>>
  BY <1>1 DEF IInv, State, HasMade
<1>6. k # Second(r)
  BY <1>4, <1>5 DEF First, Second
<1> DEFINE c0 == IF k \in unused THEN conn[k] ELSE NewConn
           x == [c0 EXCEPT !.in_use = TRUE, !.attempt_reconnect = TRUE]
           caller == IF config.sync THEN "waiting" ELSE req[r].caller
           s == [req[r] EXCEPT !.phase = "start", !.conn = k, !.told = "asked", !.caller = caller]
           q == [req EXCEPT ![r] = s]
           c == [conn EXCEPT ![k] = x]
           p == pool \cup {k}
<1>7. Leaves(q, c, p, owner)
  BY <1>2 DEF Becomes
<1>8. c0 \in Connection /\ c0.sock # "free" /\ (k \in pool => c0 = conn[k])
  <2>1. NewConn \in Connection /\ NewConn.sock # "free"
    BY DEF NewConn, Connection
  <2>2. k \in pool => k \in unused
    <3>1. First(r) \notin pool
      BY <1>5 DEF First
    <3> QED  BY <1>4, <3>1
  <2>3. \A j \in pool : conn[j] \in Connection /\ conn[j].sock # "free"
    BY ConnTypes DEF IInv, State
  <2> HIDE DEF NewConn
  <2> QED  BY <2>1, <2>2, <2>3
<1> HIDE DEF c0
<1>9. x \in Connection /\ x.sock # "free" /\ (x.in_use = TRUE) /\ x.stream = c0.stream
  BY <1>8 DEF Connection
<1>10. SessionOk(req[r], r, owner) /\ req[r] \in Session
  BY ConnTypes
<1>11. caller \in {"none", "waiting", "collecting", "thrown", "returned", "dangling"}
  BY <1>10 DEF Session
<1> HIDE DEF caller, unused
<1>12. /\ s \in Session /\ s.phase = "start" /\ s.op = req[r].op /\ s.conn = k
       /\ s.told = "asked" /\ s.sent = req[r].sent
  BY <1>3, <1>10, <1>11 DEF Session, Active, HandlerPhases
<1> HIDE DEF s, x
<1>13. /\ "start" \in Early /\ "start" \in BeforeWrite /\ "start" \notin OpPhases
       /\ "start" \notin ReplyPhases \cup {"prune"} /\ "start" \notin {"prune", "callback"}
       /\ "start" \notin {"write", "header"} /\ "start" # "idle"
  BY DEF Early, BeforeWrite, OpPhases, ConnectPhases, ReplyPhases
<1>14. SessionOk(s, r, owner)
  <2>1. req[r].op = "none" /\ req[r].sent = 0
    BY <1>1, <1>10, PhaseNames DEF SessionOk, Active
  <2> QED  BY <1>1, <1>3, <1>6, <1>12, <1>13, <2>1 DEF SessionOk
<1>15. ConnectionOk(s, r, x)
  BY <1>6, <1>9, <1>12 DEF ConnectionOk
<1>16. /\ DOMAIN q = Requests /\ q[r] = s /\ \A v \in Requests \ {r} : q[v] = req[v]
       /\ c \in [Conns -> Connection] /\ c[k] = x /\ \A j \in Conns \ {k} : c[j] = conn[j]
  BY <1>3, <1>9 DEF IInv, State
<1> HIDE DEF q, c
<1>17. ASSUME NEW v \in Requests \ {r}, Holds(req[v])
       PROVE  /\ req[v].conn \in Conns /\ ConnectionOk(req[v], v, conn[req[v].conn])
              /\ req[v].conn = k => /\ x.stream = conn[k].stream /\ conn[k].stream
                                    /\ ~(req[v].phase \in Early /\ req[v].conn = Second(v))
  <2>1. req[v].conn \in Conns /\ ConnectionOk(req[v], v, conn[req[v].conn])
    BY <1>17 DEF IInv, State, Holds, SessionOk, Active, HandlerPhases
  <2>2. ASSUME req[v].conn = k
        PROVE  x.stream = conn[k].stream /\ conn[k].stream
               /\ ~(req[v].phase \in Early /\ req[v].conn = Second(v))
    <3>1. k # First(r)
      BY <1>5, <2>2 DEF First
    <3>2. k \in pool /\ ~conn[k].in_use
      BY <1>4, <3>1
    <3> QED  BY <1>8, <1>9, <1>17, <2>1, <2>2, <3>2 DEF ConnectionOk
  <2> QED  BY <2>1, <2>2
<1>18. ASSUME NEW v \in Requests
       PROVE  SessionOk(q[v], v, owner) /\ (Holds(q[v]) => ConnectionOk(q[v], v, c[q[v].conn]))
  <2>1. CASE v = r
    BY <1>12, <1>14, <1>15, <1>16, <2>1
  <2>2. CASE v # r
    <3>1. q[v] = req[v] /\ SessionOk(req[v], v, owner)
      BY <1>16, <2>2, ConnTypes
    <3>2. ASSUME Holds(req[v]) PROVE ConnectionOk(req[v], v, c[req[v].conn])
      <4>1. CASE req[v].conn = k
        BY <1>16, <1>17, <2>2, <3>2, <4>1 DEF ConnectionOk
      <4>2. CASE req[v].conn # k
        BY <1>16, <1>17, <2>2, <3>2, <4>2
      <4> QED  BY <4>1, <4>2
    <3> QED  BY <3>1, <3>2
  <2> QED  BY <2>1, <2>2
<1>19. ASSUME NEW v \in Requests, NEW w \in Requests,
              v # w, Holds(q[v]), Holds(q[w]), q[v].conn = q[w].conn
       PROVE  c[q[v].conn].stream
  <2>1. CASE v = r
    BY <1>12, <1>16, <1>17, <1>19, <2>1
  <2>2. CASE w = r
    BY <1>12, <1>16, <1>17, <1>19, <2>2
  <2>3. CASE v # r /\ w # r
    <3>1. q[v] = req[v] /\ q[w] = req[w]
      BY <1>16, <2>3
    <3>2. conn[req[v].conn].stream
      BY <1>19, <3>1 DEF IInv, State
    <3> QED  BY <1>16, <1>17, <1>19, <2>3, <3>1, <3>2
  <2> QED  BY <2>1, <2>2, <2>3
<1>20. ASSUME NEW v \in Requests, NEW i \in {1, 2},
              <<v, i>> \in p \/ \E w \in Requests : q[w].conn = <<v, i>>
       PROVE  HasMade(q[v], v, i)
  <2>1. CASE v = r
    <3>1. i = 1
      <4>1. <<r, 2>> \notin p
        BY <1>5, <1>6 DEF Second
      <4>2. \A w \in Requests : q[w].conn # <<r, 2>>
        BY <1>5, <1>6, <1>12, <1>16 DEF Second
      <4> QED  BY <1>20, <2>1, <4>1, <4>2
    <3> QED  BY <1>12, <1>16, <2>1, <3>1 DEF HasMade
  <2>2. CASE v # r
    <3>1. k = <<v, i>> => k \in pool
      BY <1>4, <2>2 DEF First
    <3>2. <<v, i>> \in pool \/ \E w \in Requests : req[w].conn = <<v, i>>
      BY <1>12, <1>16, <1>20, <3>1
    <3>3. HasMade(req[v], v, i)
      BY <3>2 DEF IInv, State
    <3> QED  BY <1>16, <2>2, <3>3
  <2> QED  BY <2>1, <2>2
<1>21. \A j \in p : j \in Conns /\ c[j].sock # "free"
  BY <1>1, <1>3, <1>9, <1>16 DEF IInv, State
<1>22. State(q, c, p, owner)
  BY <1>16, <1>18, <1>19, <1>20, <1>21 DEF IInv, State
<1> QED  BY <1>7, <1>22, LeavesKeeps

LEMMA Again ==
  ASSUME IInv, owner = "alive", NEW r \in Requests, req[r].phase \in {"write", "header"}, Retry(r)
  PROVE  IInv'
<1> DEFINE k == req[r].conn
           n == Second(r)
<1>1. /\ req[r].phase \in OpPhases /\ req[r].phase \in Early
      /\ k \in Conns /\ req[r] \in Session /\ req[r].phase \in Active
      /\ Holds(req[r]) /\ SessionOk(req[r], r, owner) /\ ConnectionOk(req[r], r, conn[k])
  BY OpFacts, PhaseNames DEF OpPhases, Early
<1>2. CASE TellError(r)
  BY <1>1, <1>2, ErrorStep DEF TellError
<1>3. CASE ~TellError(r)
  <2>1. Reconnect(r, FALSE) /\ conn[k].attempt_reconnect
    BY <1>3 DEF Retry
  <2>2. /\ k \in pool
        /\ Becomes([req EXCEPT ![r] = [@ EXCEPT !.phase = "start", !.op = "none", !.conn = n]],
                   [conn EXCEPT ![n] = [NewConn EXCEPT !.in_use = TRUE, !.attempt_reconnect = FALSE]],
                   (pool \ {k}) \cup {n})
    BY <1>3, <2>1 DEF Reconnect
  <2>3. k # n
    BY <1>1, <2>1 DEF ConnectionOk
  <2>4. n \in Conns
    BY DEF Conns, Second
  <2>5. n \notin pool /\ \A v \in Requests : req[v].conn # n
    <3>1. ~HasMade(req[r], r, 2)
      BY <1>1, <2>3 DEF HasMade
    <3> QED  BY <3>1 DEF IInv, State, Second
  <2> DEFINE s == [req[r] EXCEPT !.phase = "start", !.op = "none", !.conn = n]
             x == [NewConn EXCEPT !.in_use = TRUE, !.attempt_reconnect = FALSE]
             q == [req EXCEPT ![r] = s]
             c == [conn EXCEPT ![n] = x]
             p == (pool \ {k}) \cup {n}
  <2>6. Leaves(q, c, p, owner)
    BY <2>2 DEF Becomes
  <2>7. x \in Connection /\ x.sock # "free" /\ (x.in_use = TRUE) /\ (x.stream = FALSE)
        /\ (x.attempt_reconnect = FALSE)
    BY DEF NewConn, Connection
  <2>8. /\ s \in Session /\ s.phase = "start" /\ s.op = "none" /\ s.conn = n
        /\ s.told = req[r].told /\ s.sent = req[r].sent
    BY <1>1, <2>4 DEF Session, Active, HandlerPhases
  <2> HIDE DEF s, x
  <2>9. /\ "start" \in Early /\ "start" \in BeforeWrite /\ "start" \notin OpPhases
        /\ "start" \notin ReplyPhases \cup {"prune"} /\ "start" \notin {"prune", "callback"}
        /\ "start" \notin {"write", "header"} /\ "start" # "idle"
    BY DEF Early, BeforeWrite, OpPhases, ConnectPhases, ReplyPhases
  <2>10. SessionOk(s, r, owner)
    <3>1. req[r].told = "asked" /\ req[r].sent = 1
      BY <1>1, <2>3 DEF SessionOk
    <3> QED  BY <2>4, <2>8, <2>9, <3>1 DEF SessionOk
  <2>11. ConnectionOk(s, r, x)
    BY <2>7 DEF ConnectionOk
  <2>12. /\ DOMAIN q = Requests /\ q[r] = s /\ \A v \in Requests \ {r} : q[v] = req[v]
         /\ c \in [Conns -> Connection] /\ c[n] = x /\ \A j \in Conns \ {n} : c[j] = conn[j]
    BY <2>4, <2>7 DEF IInv, State
  <2> HIDE DEF q, c
  <2>13. ASSUME NEW v \in Requests
         PROVE  SessionOk(q[v], v, owner) /\ (Holds(q[v]) => ConnectionOk(q[v], v, c[q[v].conn]))
    <3>1. CASE v = r
      BY <2>8, <2>10, <2>11, <2>12, <3>1
    <3>2. CASE v # r
      <4>1. q[v] = req[v] /\ SessionOk(req[v], v, owner)
        BY <2>12, <3>2, ConnTypes
      <4>2. ASSUME Holds(req[v]) PROVE ConnectionOk(req[v], v, c[req[v].conn])
        <5>1. req[v].conn \in Conns /\ ConnectionOk(req[v], v, conn[req[v].conn])
          BY <4>2 DEF IInv, State, Holds, SessionOk, Active, HandlerPhases
        <5> QED  BY <2>5, <2>12, <5>1
      <4> QED  BY <4>1, <4>2
    <3> QED  BY <3>1, <3>2
  <2>14. ASSUME NEW v \in Requests, NEW w \in Requests,
                v # w, Holds(q[v]), Holds(q[w]), q[v].conn = q[w].conn
         PROVE  c[q[v].conn].stream
    <3>1. v # r /\ w # r
      BY <2>5, <2>8, <2>12, <2>14
    <3>2. q[v] = req[v] /\ q[w] = req[w]
      BY <2>12, <3>1
    <3>3. conn[req[v].conn].stream /\ req[v].conn \in Conns
      BY <2>14, <3>2 DEF IInv, State, Holds, SessionOk, Active, HandlerPhases
    <3> QED  BY <2>5, <2>12, <3>2, <3>3
  <2>15. ASSUME NEW v \in Requests, NEW i \in {1, 2},
                <<v, i>> \in p \/ \E w \in Requests : q[w].conn = <<v, i>>
         PROVE  HasMade(q[v], v, i)
    <3>1. CASE v = r
      BY <2>8, <2>9, <2>12, <3>1 DEF HasMade
    <3>2. CASE v # r
      <4>1. n # <<v, i>>
        BY <3>2 DEF Second
      <4>2. <<v, i>> \in pool \/ \E w \in Requests : req[w].conn = <<v, i>>
        BY <2>8, <2>12, <2>15, <4>1
      <4>3. HasMade(req[v], v, i)
        BY <4>2 DEF IInv, State
      <4> QED  BY <2>12, <3>2, <4>3
    <3> QED  BY <3>1, <3>2
  <2>16. \A j \in p : j \in Conns /\ c[j].sock # "free"
    BY <2>4, <2>7, <2>12 DEF IInv, State
  <2>17. State(q, c, p, owner)
    BY <2>12, <2>13, <2>14, <2>15, <2>16 DEF IInv, State
  <2> QED  BY <2>6, <2>17, LeavesKeeps
<1> QED  BY <1>2, <1>3

LEMMA Connecting ==
  ASSUME IInv, NEW r \in Requests, Connect(r) \/ ConnectHandler(r) \/ ConnectFails(r)
  PROVE  IInv'
<1> DEFINE k == req[r].conn
<1>1. req[r].phase \in BeforeWrite /\ req[r].phase \in OpPhases \cup {"start"}
  BY PhaseNames DEF Connect, ConnectHandler, ConnectFails, Entered, BeforeWrite, OpPhases
<1>2. /\ k \in Conns /\ conn[k] \in Connection /\ req[r].phase \in Active /\ Holds(req[r])
      /\ req[r].phase \in Early
  BY <1>1, OpFacts, PhaseNames
<1>3. CASE Connect(r)
  <2>1. conn = [conn EXCEPT ![k] = conn[k]] /\ Flags(conn[k], conn[k])
    BY <1>2, SameFlags, ConnTypes DEF IInv, State
  <2>2. CASE Write(r, k, conn)
    <3>1. Write(r, k, [conn EXCEPT ![k] = conn[k]])
      BY <2>1, <2>2
    <3> QED  BY <1>1, <2>1, <3>1, WriteStep
  <2>3. CASE Becomes([req EXCEPT ![r] = Start(@, "resolve")],
                     [conn EXCEPT ![k] = SetTimer(@, config.timeout_connect)], pool)
    <3>1. "resolve" \in ConnectPhases
      BY DEF ConnectPhases
    <3>2. Flags(conn[k], SetTimer(conn[k], config.timeout_connect))
      BY <1>2, TimerFlags, ConnTypes
    <3> QED  BY <1>1, <1>2, <2>3, <3>1, <3>2, EarlyOp, GoOn
  <2> QED  BY <1>3, <2>2, <2>3 DEF Connect
<1>4. CASE ConnectHandler(r)
  <2> DEFINE next == AfterConnect(req[r].phase)
             sock == CASE next = "connect" -> "connecting"
                       [] req[r].phase = "connect" -> "open"
                       [] OTHER -> conn[k].sock
             x == [CancelTimer(conn[k]) EXCEPT !.sock = sock]
             c == [conn EXCEPT ![k] = x]
  <2>1. \/ next = "write" /\ Write(r, k, c)
        \/ /\ next # "write"
           /\ Becomes([req EXCEPT ![r] = Start(@, next)],
                      [c EXCEPT ![k] = SetTimer(@, config.timeout_connect)], pool)
    BY <1>4 DEF ConnectHandler
  <2>2. next \in {"connect", "write", "proxyWrite", "proxyRead", "handshake"}
    <3>1. req[r].phase \in ConnectPhases
      BY <1>4 DEF ConnectHandler, Entered
    <3> QED  BY <3>1 DEF AfterConnect, ConnectPhases
  <2>3. Flags(conn[k], x)
    <3>1. Flags(conn[k], CancelTimer(conn[k]))
      BY <1>2, TimerFlags DEF CancelTimer
    <3>2. sock \in {"connecting", "open"} \/ sock = conn[k].sock
      OBVIOUS
    <3> HIDE DEF next
    <3>3. CASE sock \in {"connecting", "open"}
      BY <3>1, <3>3 DEF Flags, Connection
    <3>4. CASE sock = conn[k].sock
      BY <3>1, <3>4 DEF Flags, Connection
    <3> QED  BY <3>2, <3>3, <3>4
  <2> HIDE DEF next, x
  <2>4. CASE next = "write" /\ Write(r, k, c)
    BY <1>1, <2>3, <2>4, WriteStep
  <2>5. CASE /\ next # "write"
             /\ Becomes([req EXCEPT ![r] = Start(@, next)],
                        [c EXCEPT ![k] = SetTimer(@, config.timeout_connect)], pool)
    <3>1. next \in ConnectPhases
      BY <2>2, <2>5 DEF ConnectPhases
    <3> DEFINE y == SetTimer(x, config.timeout_connect)
    <3>2. Flags(conn[k], y)
      BY <2>3, TimerFlags, FlagsTwice, ConnTypes DEF Flags
    <3>3. [c EXCEPT ![k] = SetTimer(c[k], config.timeout_connect)] = [conn EXCEPT ![k] = y]
      <4>1. c[k] = x
        BY <1>2, ConnTypes
      <4> QED  BY <4>1
    <3> HIDE DEF y
    <3>4. Becomes([req EXCEPT ![r] = Start(req[r], next)], [conn EXCEPT ![k] = y], pool)
      BY <2>5, <3>3
    <3> QED  BY <1>1, <1>2, <3>1, <3>2, <3>4, EarlyOp, GoOn
  <2> QED  BY <2>1, <2>4, <2>5
<1>5. CASE ConnectFails(r)
  <2> DEFINE x == [conn[k] EXCEPT !.sock = IF @ = "new" THEN @ ELSE "down"]
  <2>1. Flags(conn[k], x)
    BY <1>2 DEF Flags, Connection
  <2>2. TellEnd(r, TRUE, "done", [conn EXCEPT ![k] = x], pool)
    <3>1. [conn EXCEPT ![k].sock = IF @ = "new" THEN @ ELSE "down"] = [conn EXCEPT ![k] = x]
      BY <1>2
    <3> QED  BY <1>5, <3>1 DEF ConnectFails
  <2>3. owner = "alive" /\ req[r].phase \in OpPhases
    BY <1>5 DEF ConnectFails, Entered, OpPhases
  <2> HIDE DEF x
  <2> QED  BY <1>2, <2>1, <2>2, <2>3, EndStep DEF Flags
<1> QED  BY <1>3, <1>4, <1>5

LEMMA Header ==
  ASSUME IInv, NEW r \in Requests, WriteHandler(r) \/ HeaderHandler(r)
  PROVE  IInv'
<1> DEFINE k == req[r].conn
<1>1. req[r].phase \in {"write", "header"} /\ owner = "alive"
  BY DEF WriteHandler, HeaderHandler, Entered
<1>2. /\ req[r].phase \in OpPhases /\ req[r].phase \in Early
      /\ k \in Conns /\ conn[k] \in Connection /\ req[r] \in Session /\ req[r].phase \in Active
      /\ Holds(req[r]) /\ SessionOk(req[r], r, owner) /\ ConnectionOk(req[r], r, conn[k])
  BY <1>1, OpFacts, PhaseNames DEF OpPhases, Early
<1>3. req[r].told = "asked" /\ req[r].sent > 0 /\ req[r].sent = IF k = Second(r) THEN 2 ELSE 1
  BY <1>1, <1>2 DEF SessionOk
<1>4. CASE WriteHandler(r)
  <2> DEFINE s == Start(req[r], "header")
  <2>1. Becomes([req EXCEPT ![r] = s], conn, pool)
    BY <1>4 DEF WriteHandler, ReadNext
  <2>2. "header" \in OpPhases
    BY DEF OpPhases
  <2>3. /\ s \in Session /\ s.phase = "header" /\ s.op = "pending" /\ s.conn = k
        /\ s.told = req[r].told /\ s.sent = req[r].sent
    BY <1>2, <2>2, StartFields
  <2> HIDE DEF s
  <2>4. /\ "header" \in Early /\ "header" \notin BeforeWrite /\ "header" \notin HandlerPhases
        /\ "header" \notin ReplyPhases \cup {"prune"} /\ "header" \notin {"prune", "callback"}
    BY DEF Early, BeforeWrite, ConnectPhases, HandlerPhases, ReplyPhases
  <2>5. SessionOk(s, r, owner)
    BY <1>2, <1>3, <2>2, <2>3, <2>4 DEF SessionOk
  <2> QED  BY <1>2, <2>1, <2>3, <2>5, GoOnWith
<1>5. CASE HeaderHandler(r)
  <2> DEFINE x == [conn[k] EXCEPT !.attempt_reconnect = TRUE]
             y == [x EXCEPT !.stream = TRUE]
             c == [conn EXCEPT ![k] = x]
  <2>1. x \in Connection /\ x.sock = conn[k].sock /\ x.in_use = conn[k].in_use /\ x.stream = conn[k].stream
    BY <1>2 DEF Connection
  <2>2. y \in Connection /\ y.sock = conn[k].sock /\ (y.stream = TRUE)
    BY <1>2 DEF Connection
  <2>3. [conn EXCEPT ![k].attempt_reconnect = TRUE] = c
    BY <1>2
  <2>4. [c EXCEPT ![k].stream = TRUE] = [conn EXCEPT ![k] = y]
    <3>1. c[k] = x
      BY <1>2, ConnTypes
    <3> QED  BY <3>1
  <2> HIDE DEF x, y, c
  <2>5. \/ \E ec \in BOOLEAN : TellEnd(r, ec, "done", c, pool)
        \/ \E phase \in Answers[r] \ {"events"} :
             Becomes([req EXCEPT ![r] = Start(@, phase)], c, pool)
        \/ TellEnd(r, FALSE, "events", [c EXCEPT ![k].stream = TRUE], pool)
    BY <1>5, <2>3 DEF HeaderHandler
  <2>6. CASE \E ec \in BOOLEAN : TellEnd(r, ec, "done", c, pool)
    BY <1>1, <1>2, <2>1, <2>6, EndStep DEF c
  <2>7. CASE \E phase \in Answers[r] \ {"events"} :
               Becomes([req EXCEPT ![r] = Start(@, phase)], c, pool)
    <3>1. PICK phase \in ReplyPhases : Becomes([req EXCEPT ![r] = Start(@, phase)], c, pool)
      <4>1. Answers[r] \subseteq ReplyPhases
        BY ClientAssumption DEF ReplyPhases
      <4> QED  BY <2>7, <4>1
    <3> DEFINE s == Start(req[r], phase)
    <3>2. /\ SessionOk(s, r, owner) /\ s.conn = k /\ s.phase \notin Early /\ s.phase # "idle"
      BY <1>2, <1>3, NextOp
    <3> HIDE DEF s
    <3>3. Holds(s) => ConnectionOk(s, r, x)
      BY <1>2, <2>1, <3>2 DEF ConnectionOk
    <3>4. State([req EXCEPT ![r] = s], c, pool, owner)
      BY <1>2, <2>1, <3>2, <3>3, OwnStep DEF c
    <3>5. Leaves([req EXCEPT ![r] = s], c, pool, owner)
      BY <3>1 DEF Becomes, s
    <3> QED  BY <3>4, <3>5, LeavesKeeps
  <2>8. CASE TellEnd(r, FALSE, "events", [c EXCEPT ![k].stream = TRUE], pool)
    <3>1. TellEnd(r, FALSE, "events", [conn EXCEPT ![k] = y], pool)
      BY <2>4, <2>8
    <3>2. "events" \in ReplyPhases \cup {"done"}
      BY DEF ReplyPhases
    <3> QED  BY <1>1, <1>2, <1>3, <2>2, <3>1, <3>2, EndStep
  <2> QED  BY <2>5, <2>6, <2>7, <2>8
<1> QED  BY <1>4, <1>5

LEMMA Content ==
  ASSUME IInv, NEW r \in Requests,
         \/ BodyHandler(r) \/ UntilHandler(r) \/ UntilEnds(r) \/ SizeHandler(r) \/ ChunkHandler(r)
         \/ EventHandler(r) \/ ContentFails(r)
  PROVE  IInv'
<1>1. owner = "alive" /\ req[r].phase \in ReplyPhases
  BY DEF BodyHandler, UntilHandler, UntilEnds, SizeHandler, ChunkHandler, EventHandler, ContentFails,
         Entered, ReplyPhases
<1>2. req[r].phase \in OpPhases
  BY <1>1, PhaseNames
<1>3. /\ req[r].phase \in Active /\ Holds(req[r]) /\ req[r].told \in {"asked", "part"}
      /\ SessionOk(req[r], r, owner) /\ req[r].sent > 0
  BY <1>1, <1>2, OpFacts DEF SessionOk
<1>4. ASSUME NEW ec \in BOOLEAN, NEW p \in SUBSET pool, TellEnd(r, ec, "done", conn, p) PROVE IInv'
  BY <1>1, <1>2, <1>4, ErrorStep
<1>5. ASSUME NEW next \in ReplyPhases, NEW p \in SUBSET pool, TellMore(r, next, p) PROVE IInv'
  BY <1>1, <1>5, MoreStep
<1>6. ASSUME NEW next \in ReplyPhases, ReadNext(r, next) PROVE IInv'
  <2>1. Becomes([req EXCEPT ![r] = Start(req[r], next)], conn, pool)
    BY <1>6 DEF ReadNext
  <2> QED  BY <1>3, <2>1, NextOp, GoOnWith
<1>7. {"body", "until", "size", "chunk", "crlf", "events"} = ReplyPhases
  BY DEF ReplyPhases
<1>8. pool \in SUBSET pool /\ pool \ {req[r].conn} \in SUBSET pool /\ TRUE \in BOOLEAN /\ FALSE \in BOOLEAN
  OBVIOUS
<1>9. CASE BodyHandler(r)
  <2>1. CASE TellEnd(r, FALSE, "done", conn, pool)
    BY <1>4, <1>8, <2>1
  <2>2. CASE TellMore(r, "body", pool)
    BY <1>5, <1>7, <1>8, <2>2
  <2> QED  BY <1>9, <2>1, <2>2 DEF BodyHandler
<1>10. CASE UntilHandler(r)
  BY <1>5, <1>7, <1>8, <1>10 DEF UntilHandler
<1>11. CASE UntilEnds(r)
  <2>1. CASE TellEnd(r, FALSE, "done", conn, pool \ {req[r].conn})
    BY <1>4, <1>8, <2>1
  <2>2. CASE TellEnd(r, TRUE, "done", conn, pool)
    BY <1>4, <1>8, <2>2
  <2> QED  BY <1>11, <2>1, <2>2 DEF UntilEnds, TellError
<1>12. CASE SizeHandler(r)
  <2>1. ASSUME NEW next \in {"chunk", "crlf", "size"}, ReadNext(r, next) \/ TellMore(r, next, pool)
        PROVE  IInv'
    BY <1>5, <1>6, <1>7, <1>8, <2>1
  <2>2. ASSUME NEW ec \in BOOLEAN, TellEnd(r, ec, "done", conn, pool) PROVE IInv'
    BY <1>4, <1>8, <2>2
  <2> QED  BY <1>12, <2>1, <2>2 DEF SizeHandler
<1>13. CASE ChunkHandler(r)
  <2>1. PICK next \in ReplyPhases : ReadNext(r, next)
    BY <1>7, <1>13 DEF ChunkHandler
  <2> QED  BY <1>6, <2>1
<1>14. CASE EventHandler(r)
  BY <1>5, <1>7, <1>8, <1>14 DEF EventHandler
<1>15. CASE ContentFails(r)
  <2>1. TellEnd(r, TRUE, "done", conn, pool)
    BY <1>15 DEF ContentFails, TellError
  <2> QED  BY <1>4, <1>8, <2>1
<1> QED  BY <1>9, <1>10, <1>11, <1>12, <1>13, <1>14, <1>15

LEMMA FirstErrors ==
  ASSUME IInv, NEW r \in Requests, FirstFailure(r) \/ BufferFull(r)
  PROVE  IInv'
<1>1. owner = "alive"
  BY DEF FirstFailure, BufferFull, Entered
<1>2. req[r].phase \in OpPhases
  BY DEF FirstFailure, BufferFull, Entered, OpPhases, ReplyPhases
<1>3. CASE TellError(r)
  <2>1. TellEnd(r, TRUE, "done", conn, pool) /\ pool \in SUBSET pool
    BY <1>3 DEF TellError
  <2> QED  BY <1>1, <1>2, <2>1, ErrorStep
<1>4. CASE req[r].phase \in {"write", "header"} /\ Retry(r)
  BY <1>1, <1>4, Again
<1> QED  BY <1>3, <1>4 DEF FirstFailure, BufferFull, Entered

LEMMA Calling ==
  ASSUME IInv, NEW r \in Requests, Prune(r)
  PROVE  IInv'
<1>1. req[r].phase = "prune" /\ req[r].phase \in Active /\ SessionOk(req[r], r, owner) /\ req[r] \in Session
  BY ConnTypes DEF Prune, Active, HandlerPhases
<1>2. PICK p \in SUBSET pool : CallUser(r, p)
  BY DEF Prune
<1> DEFINE s == [req[r] EXCEPT !.phase = "callback", !.told = Told(req[r])]
<1>3. Becomes([req EXCEPT ![r] = s], conn, p)
  BY <1>2 DEF CallUser
<1>4. Told(req[r]) \in {"answered", "part"} /\ (req[r].next # "done" => Told(req[r]) = "part")
  BY <1>1 DEF Told, SessionOk
<1>5. /\ s \in Session /\ s.phase = "callback" /\ s.op = req[r].op /\ s.conn = req[r].conn
      /\ s.told = Told(req[r]) /\ s.sent = req[r].sent /\ s.next = req[r].next /\ (s.ec = req[r].ec)
  BY <1>1, <1>4 DEF Session, Active, HandlerPhases
<1> HIDE DEF s
<1>6. /\ "callback" \notin OpPhases /\ "callback" \notin Early /\ "callback" # "idle"
      /\ "callback" \notin BeforeWrite /\ "callback" \notin ReplyPhases \cup {"prune"}
      /\ "prune" \notin OpPhases /\ "callback" \notin {"write", "header"}
      /\ "callback" \in HandlerPhases /\ "prune" \in HandlerPhases
  BY DEF OpPhases, Early, BeforeWrite, ConnectPhases, ReplyPhases, HandlerPhases
<1>7. SessionOk(s, r, owner)
  <2>1. req[r].conn \in Conns /\ owner = "alive" /\ req[r].op = "none"
    BY <1>1, <1>6, ConnTypes DEF SessionOk
  <2>2. s.next # "done" => ~s.ec /\ s.sent > 0 /\ s.told = "part"
    BY <1>1, <1>4, <1>5 DEF SessionOk
  <2> QED  BY <1>5, <1>6, <2>1, <2>2 DEF SessionOk
<1>8. Holds(s) => Holds(req[r])
  BY <1>1, <1>5, <1>6 DEF Holds
<1> QED  BY <1>1, <1>3, <1>5, <1>6, <1>7, <1>8, GoOnWith

\* The session of a callback that has returned, and of a synchronous request.
LEMMA ContinuedOk ==
  ASSUME IInv, NEW r \in Requests, req[r].phase = "callback"
  PROVE  LET s == Continued(req[r])
         IN  /\ SessionOk(s, r, owner) /\ s.conn = req[r].conn /\ s.phase \notin Early /\ s.phase # "idle"
             /\ Holds(s) => Holds(req[r])
<1> DEFINE s == Continued(req[r])
<1>1. /\ SessionOk(req[r], r, owner) /\ req[r] \in Session /\ req[r].conn \in Conns
      /\ req[r].phase \in Active /\ req[r].next \in ReplyPhases \cup {"done"}
  BY ConnTypes DEF Active, HandlerPhases, Session
<1>2. CASE req[r].next # "done"
  <2>1. Holds(req[r]) /\ req[r].told = "part" /\ req[r].sent > 0
    BY <1>1, <1>2 DEF Holds, SessionOk
  <2>2. s = Start(req[r], req[r].next)
    BY <1>2 DEF Continued
  <2> QED  BY <1>1, <1>2, <2>1, <2>2, NextOp
<1>3. CASE req[r].next = "done"
  <2>1. /\ s \in Session /\ s.phase = "done" /\ s.op = req[r].op /\ s.conn = req[r].conn
        /\ s.told = req[r].told /\ s.sent = req[r].sent
    BY <1>1, <1>3 DEF Continued, Session
  <2> HIDE DEF s
  <2>2. /\ "done" \notin OpPhases /\ "done" \notin Early /\ "done" \notin BeforeWrite
        /\ "done" \notin ReplyPhases \cup {"prune"} /\ "done" \notin {"write", "header"}
        /\ "done" \notin HandlerPhases /\ "done" \notin Active /\ "callback" \notin OpPhases
    BY DEF Active, OpPhases, Early, BeforeWrite, ConnectPhases, ReplyPhases, HandlerPhases
  <2>3. req[r].op = "none"
    BY <1>1, <2>2 DEF SessionOk
  <2>4. SessionOk(s, r, owner)
    BY <2>1, <2>2, <2>3 DEF SessionOk
  <2>5. ~Holds(s)
    BY <2>1, <2>2 DEF Holds
  <2> QED  BY <2>1, <2>2, <2>4, <2>5 DEF s
<1> QED  BY <1>2, <1>3

Callers == {"none", "waiting", "collecting", "thrown", "returned", "dangling"}

LEMMA CallerOk ==
  ASSUME NEW s, NEW r \in Requests, NEW o, SessionOk(s, r, o), NEW caller \in Callers
  PROVE  LET t == [s EXCEPT !.caller = caller]
         IN  /\ SessionOk(t, r, o) /\ t.phase = s.phase /\ t.conn = s.conn
             /\ Holds(t) <=> Holds(s)
<1> DEFINE t == [s EXCEPT !.caller = caller]
<1>1. s \in Session
  BY DEF SessionOk
<1>2. /\ t \in Session /\ t.phase = s.phase /\ t.op = s.op /\ t.conn = s.conn /\ t.told = s.told
      /\ t.sent = s.sent /\ t.next = s.next /\ t.ec = s.ec
  BY <1>1 DEF Session, Callers
<1> HIDE DEF t
<1>3. SessionOk(t, r, o)
  BY <1>2 DEF SessionOk
<1>4. Holds(t) <=> Holds(s)
  BY <1>2 DEF Holds
<1> QED  BY <1>2, <1>3, <1>4 DEF t

LEMMA Returning ==
  ASSUME IInv, NEW r \in Requests, CallbackReturns(r) \/ SyncCallback(r)
  PROVE  IInv'
<1> DEFINE s == Continued(req[r])
<1>1. req[r].phase = "callback" /\ req[r].phase \in Active
  BY DEF CallbackReturns, SyncCallback, Active, HandlerPhases
<1>2. /\ SessionOk(s, r, owner) /\ s.conn = req[r].conn /\ s.phase \notin Early /\ s.phase # "idle"
      /\ Holds(s) => Holds(req[r])
  BY <1>1, ContinuedOk
<1>3. CASE Becomes([req EXCEPT ![r] = s], conn, pool)
  <2> HIDE DEF s
  <2> QED  BY <1>1, <1>2, <1>3, GoOnWith
<1>4. CASE \E caller \in Callers : Becomes([req EXCEPT ![r] = [s EXCEPT !.caller = caller]], conn, pool)
  <2> HIDE DEF s
  <2>1. PICK caller \in Callers : Becomes([req EXCEPT ![r] = [s EXCEPT !.caller = caller]], conn, pool)
    BY <1>4
  <2> DEFINE t == [s EXCEPT !.caller = caller]
  <2>2. /\ SessionOk(t, r, owner) /\ t.phase = s.phase /\ t.conn = s.conn
        /\ Holds(t) <=> Holds(s)
    BY <1>2, CallerOk
  <2> HIDE DEF t
  <2>3. Becomes([req EXCEPT ![r] = t], conn, pool)
    BY <2>1 DEF t
  <2> QED  BY <1>1, <1>2, <2>2, <2>3, GoOnWith
<1>5. CASE CloseAll([req EXCEPT ![r].caller = "thrown"], conn, {req[r].conn}, pool, owner)
  <2> DEFINE t == [req[r] EXCEPT !.caller = "thrown"]
             q == [req EXCEPT ![r] = t]
  <2>1. SessionOk(req[r], r, owner) /\ "thrown" \in Callers
    BY ConnTypes DEF Callers
  <2>2. /\ SessionOk(t, r, owner) /\ t.phase = req[r].phase /\ t.conn = req[r].conn
        /\ Holds(t) <=> Holds(req[r])
    BY <2>1, CallerOk
  <2> HIDE DEF t
  <2>3. DOMAIN q = Requests /\ q[r] = t /\ \A v \in Requests \ {r} : q[v] = req[v]
    BY ConnTypes
  <2>4. CloseAll(q, conn, {req[r].conn}, pool, owner)
    BY <1>5 DEF t
  <2> HIDE DEF q
  <2>5. \A v \in Requests :
          /\ SessionOk(q[v], v, owner) /\ q[v].conn = req[v].conn
          /\ Holds(q[v]) => Holds(req[v])
          /\ q[v].phase \in Early => req[v].phase \in Early
          /\ q[v].phase = "idle" => req[v].phase = "idle"
    BY <2>2, <2>3, ConnTypes
  <2>6. conn \in [Conns -> Connection] /\ \A k \in Conns : Flags(conn[k], conn[k])
    BY SameFlags DEF IInv, State
  <2>7. owner \in {"alive", "destroying", "destroyed"} /\ pool \in SUBSET pool
    BY DEF IInv, State
  <2> QED  BY <2>3, <2>4, <2>5, <2>6, <2>7, CloseKeeps
<1>6. CASE CallbackReturns(r)
  BY <1>3, <1>6 DEF CallbackReturns
<1>7. CASE SyncCallback(r)
  <2> DEFINE caller ==
        CASE req[r].caller = "thrown" -> "thrown"
          [] req[r].caller \in {"returned", "dangling"} -> "dangling"
          [] req[r].ec -> "thrown"
          [] req[r].next \in {"done", "events"} /\ ~req[r].ec -> "returned"
          [] OTHER -> "collecting"
  <2>1. caller \in Callers
    BY DEF Callers
  <2>2. \/ Becomes([req EXCEPT ![r] = [s EXCEPT !.caller = caller]], conn, pool)
        \/ CloseAll([req EXCEPT ![r].caller = "thrown"], conn, {req[r].conn}, pool, owner)
    BY <1>7 DEF SyncCallback
  <2> HIDE DEF caller, s
  <2> QED  BY <1>4, <1>5, <2>1, <2>2
<1> QED  BY <1>6, <1>7

-----------------------------------------------------------------------------
(* The network, the timers and the destructor *)

\* Connections are closed, which cuts operations; nothing else happens to sessions.
LEMMA OnlyClosed ==
  ASSUME IInv, NEW c \in [Conns -> Connection], \A k \in Conns : Flags(conn[k], c[k]),
         NEW ks, NEW p \in SUBSET pool, NEW o \in {"alive", "destroying", "destroyed"},
         \A r \in Requests : SessionOk(req[r], r, o), CloseAll(req, c, ks, p, o)
  PROVE  IInv'
<1>1. DOMAIN req = Requests
  BY ConnTypes
<1> QED  BY <1>1, CloseKeeps

LEMMA ConnKept ==
  ASSUME IInv
  PROVE  /\ conn \in [Conns -> Connection] /\ \A k \in Conns : Flags(conn[k], conn[k])
         /\ \A r \in Requests : SessionOk(req[r], r, owner)
         /\ owner \in {"alive", "destroying", "destroyed"} /\ pool \in SUBSET pool /\ {} \in SUBSET pool
BY SameFlags, ConnTypes DEF IInv, State

\* One connection changes, but for its flags.
LEMMA OneConn ==
  ASSUME IInv, NEW k \in Conns, NEW x, Flags(conn[k], x), NEW c, c = [conn EXCEPT ![k] = x]
  PROVE  c \in [Conns -> Connection] /\ \A j \in Conns : Flags(conn[j], c[j])
<1>1. x \in Connection
  BY DEF Flags
<1>2. c \in [Conns -> Connection] /\ c[k] = x /\ \A j \in Conns \ {k} : c[j] = conn[j]
  BY <1>1, ConnKept
<1> QED  BY <1>2, ConnKept

LEMMA Network ==
  ASSUME IInv, NEW k \in Conns, PeerCloses(k) \/ Timer(k)
  PROVE  IInv'
<1>1. /\ conn[k] \in Connection /\ DOMAIN req = Requests /\ owner \in {"alive", "destroying", "destroyed"}
      /\ \A r \in Requests : SessionOk(req[r], r, owner)
      /\ pool \in SUBSET pool
  BY ConnTypes, ConnKept
<1>2. ASSUME NEW x, Flags(conn[k], x), Becomes(req, [conn EXCEPT ![k] = x], pool) PROVE IInv'
  <2> DEFINE c == [conn EXCEPT ![k] = x]
  <2>1. c \in [Conns -> Connection] /\ \A j \in Conns : Flags(conn[j], c[j])
    BY <1>2, OneConn
  <2>2. Leaves(req, c, pool, owner)
    BY <1>2 DEF Becomes
  <2> HIDE DEF c
  <2>3. State(req, c, pool, owner)
    BY <1>1, <2>1, ManyStep
  <2> QED  BY <2>2, <2>3, LeavesKeeps
<1>3. ASSUME NEW x, Flags(conn[k], x), CloseAll(req, [conn EXCEPT ![k] = x], {k}, pool, owner) PROVE IInv'
  <2> DEFINE c == [conn EXCEPT ![k] = x]
  <2>1. c \in [Conns -> Connection] /\ \A j \in Conns : Flags(conn[j], c[j])
    BY <1>3, OneConn
  <2>2. CloseAll(req, c, {k}, pool, owner)
    BY <1>3
  <2> HIDE DEF c
  <2> QED  BY <1>1, <2>1, <2>2, OnlyClosed
<1>4. CASE PeerCloses(k)
  <2>1. Becomes(req, [conn EXCEPT ![k] = [conn[k] EXCEPT !.sock = "shut"]], pool)
    BY <1>4 DEF PeerCloses
  <2> QED  BY <1>1, <1>2, <2>1, SockFlags
<1>5. CASE TimerExpires(k)
  <2>1. Becomes(req, [conn EXCEPT ![k] = [conn[k] EXCEPT !.timer = "due"]], pool)
    BY <1>5 DEF TimerExpires
  <2> QED  BY <1>1, <1>2, <2>1, ExpiredFlags
<1>6. CASE TimerHandler(k)
  <2>1. CloseAll(req, [conn EXCEPT ![k] = [conn[k] EXCEPT !.timer = "off"]], {k}, pool, owner)
    BY <1>6 DEF TimerHandler
  <2> QED  BY <1>1, <1>3, <2>1, ExpiredFlags
<1>7. CASE StaleTimerHandler(k)
  <2>1. CloseAll(req, [conn EXCEPT ![k] = [conn[k] EXCEPT !.stale = FALSE]], {k}, pool, owner)
    BY <1>7 DEF StaleTimerHandler
  <2> QED  BY <1>1, <1>3, <2>1, ExpiredFlags
<1> QED  BY <1>4, <1>5, <1>6, <1>7 DEF Timer

\* The session of a handler that has been dropped.
LEMMA DroppedOk ==
  ASSUME NEW s, NEW r \in Requests, NEW o, NEW o2, SessionOk(s, r, o), s.phase \in OpPhases
  PROVE  LET t == [s EXCEPT !.phase = "dropped", !.op = "none"]
         IN  /\ SessionOk(t, r, o2) /\ t.conn = s.conn /\ t.phase = "dropped" /\ ~Holds(t)
             /\ t.phase \notin Early /\ t.phase # "idle"
<1> DEFINE t == [s EXCEPT !.phase = "dropped", !.op = "none"]
<1>1. s \in Session
  BY DEF SessionOk
<1>2. t \in Session /\ t.phase = "dropped" /\ t.op = "none" /\ t.conn = s.conn
  BY <1>1 DEF Session
<1> HIDE DEF t
<1>3. /\ "dropped" \notin OpPhases \cup {"start"} /\ "dropped" \notin Early /\ "dropped" \notin BeforeWrite
      /\ "dropped" \notin ReplyPhases \cup {"prune"} /\ "dropped" \notin {"write", "header"}
      /\ "dropped" \notin HandlerPhases /\ "dropped" \notin Active /\ "dropped" \notin {"prune", "callback"}
  BY DEF Active, OpPhases, Early, BeforeWrite, ConnectPhases, ReplyPhases, HandlerPhases
<1>4. SessionOk(t, r, o2)
  BY <1>2, <1>3 DEF SessionOk
<1> QED  BY <1>2, <1>3, <1>4 DEF t, Holds

LEMMA Dropping ==
  ASSUME IInv, NEW r \in Requests, DroppedHandler(r)
  PROVE  IInv'
<1> DEFINE k == req[r].conn
           t == [req[r] EXCEPT !.phase = "dropped", !.op = "none"]
           x == IF req[r].phase \in ConnectPhases THEN CancelTimer(conn[k]) ELSE conn[k]
<1>1. /\ req[r].phase \in OpPhases
      /\ Becomes([req EXCEPT ![r] = t], [conn EXCEPT ![k] = x], pool)
  BY DEF DroppedHandler
<1>2. conn[k] \in Connection /\ SessionOk(req[r], r, owner) /\ req[r].phase \in Active
  BY <1>1, OpFacts
<1>3. /\ SessionOk(t, r, owner) /\ t.conn = k /\ t.phase = "dropped" /\ ~Holds(t)
      /\ t.phase \notin Early /\ t.phase # "idle"
  BY <1>1, <1>2, DroppedOk
<1>4. Flags(conn[k], x)
  BY <1>2, TimerFlags, SameFlags DEF CancelTimer
<1>5. pool \in SUBSET pool
  OBVIOUS
<1> HIDE DEF t, x
<1> QED  BY <1>1, <1>2, <1>3, <1>4, <1>5, GoOn

LEMMA Destroying ==
  ASSUME IInv, DestroyStops \/ DestroyCloses
  PROVE  IInv'
<1>1. CASE DestroyStops
  <2>1. /\ \A r \in Requests : req[r].phase \notin HandlerPhases
        /\ owner' = "destroying" /\ UNCHANGED <<req, conn, pool, config>>
    BY <1>1 DEF DestroyStops
  <2>2. \A r \in Requests : SessionOk(req[r], r, "destroying")
    BY <2>1 DEF IInv, State, SessionOk
  <2>3. State(req, conn, pool, "destroying")
    BY <2>2 DEF IInv, State
  <2> QED  BY <2>1, <2>3 DEF IInv, State
<1>2. CASE DestroyCloses
  <2>1. owner = "destroying"
    BY <1>2 DEF DestroyCloses
  <2>2. ASSUME NEW r \in Requests PROVE SessionOk(req[r], r, "destroyed")
    BY <2>1 DEF IInv, State, SessionOk
  <2>3. CASE CloseAll(req, conn, pool, {}, "destroyed")
    BY <2>2, <2>3, ConnKept, OnlyClosed
  <2>4. CASE Leaves([r \in Requests |-> IF req[r].phase \in OpPhases
                                          THEN [req[r] EXCEPT !.phase = "dropped", !.op = "none"]
                                          ELSE req[r]],
                    conn, {}, "destroyed")
    <3> DEFINE t(r) == [req[r] EXCEPT !.phase = "dropped", !.op = "none"]
               q == [r \in Requests |-> IF req[r].phase \in OpPhases THEN t(r) ELSE req[r]]
    <3>1. DOMAIN q = Requests /\ \A r \in Requests : q[r] = IF req[r].phase \in OpPhases THEN t(r) ELSE req[r]
      OBVIOUS
    <3>2. Leaves(q, conn, {}, "destroyed")
      BY <2>4
    <3>3. ASSUME NEW r \in Requests, req[r].phase \in OpPhases
          PROVE  /\ SessionOk(t(r), r, "destroyed") /\ t(r).conn = req[r].conn /\ ~Holds(t(r))
                 /\ t(r).phase \notin Early /\ t(r).phase # "idle"
      BY <3>3, <2>2, DroppedOk
    <3> HIDE DEF q, t
    <3>4. \A r \in Requests :
            /\ SessionOk(q[r], r, "destroyed") /\ q[r].conn = req[r].conn
            /\ Holds(q[r]) => Holds(req[r])
            /\ q[r].phase \in Early => req[r].phase \in Early
            /\ q[r].phase = "idle" => req[r].phase = "idle"
      BY <2>2, <3>1, <3>3
    <3>5. State(q, conn, {}, "destroyed")
      BY <3>1, <3>4, ConnKept, ManyStep
    <3> QED  BY <3>2, <3>5, LeavesKeeps
  <2> QED  BY <1>2, <2>3, <2>4 DEF DestroyCloses
<1> QED  BY <1>1, <1>2

LEMMA NextInv == IInv /\ [Next]_vars => IInv'
<1> SUFFICES ASSUME IInv, [Next]_vars PROVE IInv'
  OBVIOUS
<1>1. ASSUME NEW r \in Requests, Inside(r) PROVE IInv'
  BY <1>1, Connecting, Calling, Returning DEF Inside
<1>2. ASSUME NEW r \in Requests, Success(r) PROVE IInv'
  BY <1>2, Connecting, Header, Content DEF Success
<1>3. ASSUME NEW r \in Requests, Failure(r) PROVE IInv'
  BY <1>3, Connecting, FirstErrors, Content DEF Failure
<1>4. ASSUME NEW r \in Requests, CloseResponse(r) PROVE IInv'
  <2>1. CloseAll(req, conn, {req[r].conn}, pool, owner)
    BY <1>4 DEF CloseResponse
  <2> QED  BY <2>1, ConnKept, OnlyClosed
<1>5. CASE Stop
  <2>1. CloseAll(req, conn, pool, {}, owner)
    BY <1>5 DEF Stop
  <2> QED  BY <2>1, ConnKept, OnlyClosed
<1>6. CASE UNCHANGED vars
  <2>1. req' = req /\ conn' = conn /\ pool' = pool /\ owner' = owner /\ config' = config
    BY <1>6 DEF vars
  <2> QED  BY <2>1 DEF IInv, State
<1> QED  BY <1>1, <1>2, <1>3, <1>4, <1>5, <1>6, Asked, FirstErrors, Dropping, Network, Destroying DEF Next

-----------------------------------------------------------------------------
(* The theorems *)

\* What a request holds is in use, and held by it alone, until a stream of events has
\* begun; the connection of a second attempt is fresh and is not replaced (client_http.hpp:473-484,
\* :629-646).
THEOREM Invariant == Spec => []IInv
BY InitInv, NextInv, PTL DEF Spec

\* The types of the sessions and connections; that the pool holds no connection which has been deleted,
\* and that a session has an operation just in the phases which wait for one.
THEOREM TypeCorrect == Spec => []TypeOK
<1>1. IInv => TypeOK
  <2> SUFFICES ASSUME IInv PROVE TypeOK
    OBVIOUS
  <2>1. /\ req \in [Requests -> Session] /\ conn \in [Conns -> Connection] /\ pool \subseteq Conns
        /\ \A k \in pool : conn[k].sock # "free"
        /\ owner \in {"alive", "destroying", "destroyed"} /\ config \in Configs
    BY DEF IInv, State
  <2>2. \A r \in Requests : (req[r].op # "none") <=> (req[r].phase \in OpPhases)
    BY ConnTypes DEF SessionOk
  <2> QED  BY <2>1, <2>2 DEF TypeOK
<1> QED  BY <1>1, Invariant, PTL

\* Two requests never run on one connection, whoever clears in_use and prunes the pool
\* when, but for connections that have carried a stream of events (client_http.hpp:473-484, :613).
THEOREM OneAtATime == Spec => []OneRequestPerConnection
<1>1. IInv => OneRequestPerConnection
  BY DEF IInv, State, Holds, OneRequestPerConnection
<1> QED  BY <1>1, Invariant, PTL

-----------------------------------------------------------------------------
(* What the callers are told: every step is one of Exchange, or none *)

ToldOf(q) == [r \in Requests |-> q[r].told]
SentOf(q) == [r \in Requests |-> q[r].sent]

\* The callers have been told the same by the sessions q.
Quiet(q) ==
  /\ \A r \in Requests : q[r] \in Session
  /\ \A r \in Requests : q[r].told = req[r].told /\ q[r].sent = req[r].sent

LEMMA LeavesTells ==
  ASSUME NEW q, NEW c, NEW p, NEW o, \A r \in Requests : q[r] \in Session, Leaves(q, c, p, o)
  PROVE  ToldOf(req') = ToldOf(q) /\ SentOf(req') = SentOf(q) /\ owner' = o
<1> DEFINE kept == p \cup {q[r].conn : r \in {s \in Requests : q[s].phase \in Active}}
<1>1. owner' = o /\ req' = [r \in Requests |-> [q[r] EXCEPT !.conn = IF @ \in kept THEN @ ELSE NoConn]]
  BY DEF Leaves
<1> HIDE DEF kept
<1>2. \A r \in Requests : req'[r].told = q[r].told /\ req'[r].sent = q[r].sent
  BY <1>1 DEF Session
<1> QED  BY <1>1, <1>2 DEF ToldOf, SentOf

LEMMA QuietLeaves ==
  ASSUME NEW q, NEW c, NEW p, NEW o, Quiet(q), o = owner, Leaves(q, c, p, o)
  PROVE  UNCHANGED Promise!vars
<1>1. ToldOf(req') = ToldOf(q) /\ SentOf(req') = SentOf(q) /\ owner' = o
  BY LeavesTells DEF Quiet
<1>2. ToldOf(q) = ToldOf(req) /\ SentOf(q) = SentOf(req)
  BY DEF Quiet, ToldOf, SentOf
<1>3. ToldOf(req') = ToldOf(req) /\ SentOf(req') = SentOf(req) /\ owner' = owner
  BY <1>1, <1>2
<1> QED  BY <1>3 DEF Promise!vars, ToldOf, SentOf

\* One session goes on.
LEMMA QuietStep ==
  ASSUME IInv, NEW r \in Requests, NEW s \in Session, s.told = req[r].told, s.sent = req[r].sent,
         NEW c, NEW p, Becomes([req EXCEPT ![r] = s], c, p)
  PROVE  UNCHANGED Promise!vars
<1> DEFINE q == [req EXCEPT ![r] = s]
<1>1. q[r] = s /\ \A v \in Requests \ {r} : q[v] = req[v]
  BY ConnTypes
<1>2. Leaves(q, c, p, owner)
  BY DEF Becomes
<1> HIDE DEF q
<1>3. Quiet(q)
  BY <1>1, ConnTypes DEF Quiet
<1> QED  BY <1>2, <1>3, QuietLeaves

LEMMA QuietRead ==
  ASSUME IInv, NEW r \in Requests, NEW phase \in OpPhases, NEW c, NEW p,
         Becomes([req EXCEPT ![r] = Start(@, phase)], c, p)
  PROVE  UNCHANGED Promise!vars
<1>1. req[r] \in Session
  BY ConnTypes
<1>2. /\ Start(req[r], phase) \in Session /\ Start(req[r], phase).told = req[r].told
      /\ Start(req[r], phase).sent = req[r].sent
  BY <1>1, StartFields
<1>3. Becomes([req EXCEPT ![r] = Start(req[r], phase)], c, p)
  OBVIOUS
<1> QED  BY <1>2, <1>3, QuietStep

LEMMA QuietTelling ==
  ASSUME IInv, NEW r \in Requests, NEW ec \in BOOLEAN, NEW next \in ReplyPhases \cup {"done"}, NEW c, NEW p,
         Becomes([req EXCEPT ![r] = Telling(@, ec, next)], c, p)
  PROVE  UNCHANGED Promise!vars
<1>1. req[r] \in Session
  BY ConnTypes
<1>2. /\ Telling(req[r], ec, next) \in Session /\ Telling(req[r], ec, next).told = req[r].told
      /\ Telling(req[r], ec, next).sent = req[r].sent
  BY <1>1, TellingFields
<1>3. Becomes([req EXCEPT ![r] = Telling(req[r], ec, next)], c, p)
  OBVIOUS
<1> QED  BY <1>2, <1>3, QuietStep

\* The end of a reply is told by Prune(), not when it is noticed.
LEMMA QuietEnd ==
  ASSUME IInv, NEW r \in Requests, NEW ec \in BOOLEAN, NEW next \in ReplyPhases \cup {"done"}, NEW c, NEW p,
         TellEnd(r, ec, next, c, p)
  PROVE  UNCHANGED Promise!vars
BY QuietTelling DEF TellEnd

LEMMA QuietError ==
  ASSUME IInv, NEW r \in Requests, TellError(r)
  PROVE  UNCHANGED Promise!vars
<1>1. TRUE \in BOOLEAN /\ "done" \in ReplyPhases \cup {"done"}
  OBVIOUS
<1>2. TellEnd(r, TRUE, "done", conn, pool)
  BY DEF TellError
<1> QED  BY <1>1, <1>2, QuietEnd

LEMMA QuietClose ==
  ASSUME NEW q, Quiet(q), NEW c, NEW ks, NEW p, NEW o, o = owner, CloseAll(q, c, ks, p, o)
  PROVE  UNCHANGED Promise!vars
<1> DEFINE cut == {r \in Requests : /\ q[r].conn \in ks /\ q[r].op = "pending"
                                    /\ c[q[r].conn].sock \in {"open", "shut", "down"}}
           ended(aborted) ==
             [r \in Requests |-> IF r \notin cut THEN q[r]
                ELSE [q[r] EXCEPT !.op = IF r \in aborted THEN "aborted" ELSE "failed"]]
           closed == [k \in Conns |-> IF k \in ks THEN Closed(c[k]) ELSE c[k]]
<1>1. PICK aborted \in SUBSET cut : Leaves(ended(aborted), closed, p, o)
  BY DEF CloseAll
<1> HIDE DEF closed, cut
<1>2. \A r \in Requests :
        /\ ended(aborted)[r] \in Session
        /\ ended(aborted)[r].told = q[r].told /\ ended(aborted)[r].sent = q[r].sent
  BY DEF Quiet, Session
<1>3. Quiet(ended(aborted))
  BY <1>2 DEF Quiet
<1> HIDE DEF ended
<1> QED  BY <1>1, <1>3, QuietLeaves

LEMMA AskedTold ==
  ASSUME IInv, NEW r \in Requests, GetConnection(r)
  PROVE  Promise!Ask(r)
<1>1. owner = "alive" /\ req[r].phase = "idle" /\ SessionOk(req[r], r, owner) /\ req[r] \in Session
  BY ConnTypes DEF GetConnection
<1>2. PICK k, c, p :
        /\ k \in Conns
        /\ Becomes([req EXCEPT ![r] = [@ EXCEPT !.phase = "start", !.conn = k, !.told = "asked",
                                         !.caller = IF config.sync THEN "waiting" ELSE req[r].caller]], c, p)
  <2>1. First(r) \in Conns /\ pool \subseteq Conns
    BY ConnTypes DEF Conns, First
  <2> QED  BY <2>1 DEF GetConnection
<1> DEFINE caller == IF config.sync THEN "waiting" ELSE req[r].caller
           s == [req[r] EXCEPT !.phase = "start", !.conn = k, !.told = "asked", !.caller = caller]
           q == [req EXCEPT ![r] = s]
<1>3. Leaves(q, c, p, owner)
  BY <1>2 DEF Becomes
<1>4. caller \in {"none", "waiting", "collecting", "thrown", "returned", "dangling"}
  BY <1>1 DEF Session
<1> HIDE DEF caller
<1>5. s \in Session /\ s.told = "asked" /\ s.sent = req[r].sent
  <2>1. k \in Conns
    BY <1>2
  <2> QED  BY <1>1, <1>4, <2>1 DEF Session, Active, HandlerPhases
<1> HIDE DEF s
<1>6. q[r] = s /\ \A v \in Requests \ {r} : q[v] = req[v]
  BY ConnTypes
<1> HIDE DEF q
<1>7. \A v \in Requests : q[v] \in Session
  BY <1>5, <1>6, ConnTypes
<1>8. ToldOf(req') = ToldOf(q) /\ SentOf(req') = SentOf(q) /\ owner' = owner
  BY <1>3, <1>7, LeavesTells
<1>9. ToldOf(q) = [ToldOf(req) EXCEPT ![r] = "asked"] /\ SentOf(q) = SentOf(req)
  BY <1>5, <1>6 DEF ToldOf, SentOf
<1>10. ToldOf(req)[r] = "unasked"
  BY <1>1 DEF ToldOf, SessionOk
<1> QED  BY <1>1, <1>8, <1>9, <1>10 DEF Promise!Ask, ToldOf, SentOf

LEMMA WriteSends ==
  ASSUME IInv, owner = "alive", NEW r \in Requests, req[r].phase \in BeforeWrite, NEW k, NEW c, Write(r, k, c)
  PROVE  Promise!Send(r)
<1>1. req[r].phase \in OpPhases \cup {"start"} /\ "write" \in OpPhases
  BY DEF OpPhases, BeforeWrite
<1>2. req[r] \in Session /\ SessionOk(req[r], r, owner)
  BY <1>1, OpFacts
<1>3. req[r].told = "asked" /\ req[r].sent \in {0, 1}
  BY <1>2, PhaseNames DEF SessionOk
<1> DEFINE s == [Start(req[r], "write") EXCEPT !.sent = @ + 1]
           q == [req EXCEPT ![r] = s]
           d == [c EXCEPT ![k] = SetTimer(@, config.timeout)]
<1>4. Leaves(q, d, pool, owner)
  BY DEF Becomes, Write
<1>5. s \in Session /\ s.told = "asked" /\ s.sent = req[r].sent + 1
  <2>1. /\ Start(req[r], "write") \in Session /\ Start(req[r], "write").told = req[r].told
        /\ Start(req[r], "write").sent = req[r].sent
    BY <1>1, <1>2, StartFields
  <2>2. req[r].sent + 1 \in 0..2
    BY <1>3
  <2> QED  BY <1>3, <2>1, <2>2 DEF Session
<1> HIDE DEF s, d
<1>6. q[r] = s /\ \A v \in Requests \ {r} : q[v] = req[v]
  BY ConnTypes
<1> HIDE DEF q
<1>7. \A v \in Requests : q[v] \in Session
  BY <1>5, <1>6, ConnTypes
<1>8. ToldOf(req') = ToldOf(q) /\ SentOf(req') = SentOf(q) /\ owner' = owner
  BY <1>4, <1>7, LeavesTells
<1>9. ToldOf(q) = ToldOf(req) /\ SentOf(q) = [SentOf(req) EXCEPT ![r] = @ + 1]
  BY <1>3, <1>5, <1>6 DEF ToldOf, SentOf
<1>10. ToldOf(req)[r] = "asked" /\ SentOf(req)[r] < 2
  BY <1>3 DEF ToldOf, SentOf
<1>11. (owner' = "alive") = (owner = "alive")
  BY <1>8
<1> QED  BY <1>8, <1>9, <1>10, <1>11 DEF Promise!Send, ToldOf, SentOf

LEMMA ConnectTells ==
  ASSUME IInv, NEW r \in Requests, Connect(r) \/ ConnectHandler(r)
  PROVE  Promise!Send(r) \/ UNCHANGED Promise!vars
<1>1. CASE Connect(r)
  <2>1. req[r].phase = "start" /\ "start" \in BeforeWrite /\ "start" \in HandlerPhases
    BY <1>1 DEF Connect, BeforeWrite, HandlerPhases
  <2>2. owner = "alive"
    BY <2>1, ConnTypes DEF SessionOk
  <2>3. "resolve" \in OpPhases
    BY DEF OpPhases, ConnectPhases
  <2> QED  BY <1>1, <2>1, <2>2, <2>3, WriteSends, QuietRead DEF Connect
<1>2. CASE ConnectHandler(r)
  <2>1. owner = "alive" /\ req[r].phase \in ConnectPhases /\ req[r].phase \in BeforeWrite
    BY <1>2 DEF ConnectHandler, Entered, BeforeWrite
  <2>2. AfterConnect(req[r].phase) \in OpPhases
    BY <2>1 DEF AfterConnect, ConnectPhases, OpPhases
  <2>3. \/ \E c : Write(r, req[r].conn, c)
        \/ \E c : Becomes([req EXCEPT ![r] = Start(@, AfterConnect(req[r].phase))], c, pool)
    BY <1>2 DEF ConnectHandler
  <2> QED  BY <2>1, <2>2, <2>3, WriteSends, QuietRead
<1> QED  BY <1>1, <1>2

LEMMA CallTells ==
  ASSUME IInv, NEW r \in Requests, Prune(r)
  PROVE  Promise!Part(r) \/ Promise!Answer(r)
<1>1. /\ req[r].phase = "prune" /\ SessionOk(req[r], r, owner) /\ req[r] \in Session
      /\ "prune" \in HandlerPhases
  BY ConnTypes DEF Prune, HandlerPhases
<1>2. owner = "alive" /\ req[r].told \in {"asked", "part"} /\ (req[r].next # "done" => req[r].sent > 0)
  BY <1>1 DEF SessionOk
<1>3. PICK p : CallUser(r, p)
  BY DEF Prune
<1> DEFINE s == [req[r] EXCEPT !.phase = "callback", !.told = Told(req[r])]
           q == [req EXCEPT ![r] = s]
<1>4. Leaves(q, conn, p, owner)
  BY <1>3 DEF CallUser, Becomes
<1>5. Told(req[r]) = "answered" \/ (Told(req[r]) = "part" /\ req[r].sent > 0)
  BY <1>2 DEF Told
<1>6. s \in Session /\ s.told = Told(req[r]) /\ s.sent = req[r].sent
  BY <1>1, <1>5 DEF Session, Active, HandlerPhases
<1> HIDE DEF s
<1>7. q[r] = s /\ \A v \in Requests \ {r} : q[v] = req[v]
  BY ConnTypes
<1> HIDE DEF q
<1>8. \A v \in Requests : q[v] \in Session
  BY <1>6, <1>7, ConnTypes
<1>9. ToldOf(req') = ToldOf(q) /\ SentOf(req') = SentOf(q) /\ owner' = owner
  BY <1>4, <1>8, LeavesTells
<1>10. ToldOf(q) = [ToldOf(req) EXCEPT ![r] = Told(req[r])] /\ SentOf(q) = SentOf(req)
  BY <1>6, <1>7 DEF ToldOf, SentOf
<1>11. ToldOf(req)[r] \in {"asked", "part"} /\ SentOf(req)[r] = req[r].sent
  BY <1>2 DEF ToldOf, SentOf
<1>12. (owner' = "alive") = (owner = "alive")
  BY <1>9
<1>13. CASE Told(req[r]) = "answered"
  BY <1>2, <1>9, <1>10, <1>11, <1>12, <1>13 DEF Promise!Answer, ToldOf, SentOf
<1>14. CASE Told(req[r]) = "part" /\ req[r].sent > 0
  BY <1>2, <1>9, <1>10, <1>11, <1>12, <1>14 DEF Promise!Part, ToldOf, SentOf
<1> QED  BY <1>5, <1>13, <1>14

\* The handlers of the reply, and the errors, tell nobody: they end in Prune().
LEMMA RepliesTell ==
  ASSUME IInv, NEW r \in Requests,
         \/ WriteHandler(r) \/ HeaderHandler(r) \/ BodyHandler(r) \/ UntilHandler(r) \/ SizeHandler(r)
         \/ ChunkHandler(r) \/ EventHandler(r) \/ Failure(r) \/ BufferFull(r)
  PROVE  UNCHANGED Promise!vars
<1>1. ASSUME NEW ec \in BOOLEAN, NEW c, NEW p, TellEnd(r, ec, "done", c, p) PROVE UNCHANGED Promise!vars
  BY <1>1, QuietEnd
<1>2. ASSUME NEW next \in ReplyPhases, NEW p, TellMore(r, next, p) PROVE UNCHANGED Promise!vars
  <2>1. Becomes([req EXCEPT ![r] = Telling(@, FALSE, next)], conn, p)
    BY <1>2 DEF TellMore
  <2>2. FALSE \in BOOLEAN
    OBVIOUS
  <2> QED  BY <2>1, <2>2, QuietTelling
<1>3. ASSUME NEW phase \in OpPhases, ReadNext(r, phase) PROVE UNCHANGED Promise!vars
  BY <1>3, QuietRead DEF ReadNext
<1>4. /\ {"body", "until", "size", "chunk", "crlf", "events"} = ReplyPhases
      /\ ReplyPhases \subseteq OpPhases /\ "header" \in OpPhases /\ TRUE \in BOOLEAN /\ FALSE \in BOOLEAN
  BY DEF ReplyPhases, OpPhases
<1>5. ASSUME Retry(r) PROVE UNCHANGED Promise!vars
  <2>1. CASE TellError(r)
    BY <2>1, QuietError
  <2>2. CASE ~TellError(r)
    <3> DEFINE n == Second(r)
               s == [req[r] EXCEPT !.phase = "start", !.op = "none", !.conn = n]
    <3>1. PICK c, p : Becomes([req EXCEPT ![r] = s], c, p)
      BY <1>5, <2>2 DEF Retry, Reconnect
    <3>2. req[r] \in Session /\ n \in Conns
      BY ConnTypes DEF Conns, Second
    <3>3. s \in Session /\ s.told = req[r].told /\ s.sent = req[r].sent
      BY <3>2 DEF Session, Active, HandlerPhases
    <3> HIDE DEF s
    <3> QED  BY <3>1, <3>3, QuietStep
  <2> QED  BY <2>1, <2>2
<1>6. CASE WriteHandler(r)
  BY <1>3, <1>4, <1>6 DEF WriteHandler
<1>7. CASE HeaderHandler(r)
  <2> DEFINE c == [conn EXCEPT ![req[r].conn].attempt_reconnect = TRUE]
             d == [c EXCEPT ![req[r].conn].stream = TRUE]
  <2>1. \/ \E ec \in BOOLEAN : TellEnd(r, ec, "done", c, pool)
        \/ \E phase \in Answers[r] \ {"events"} : Becomes([req EXCEPT ![r] = Start(@, phase)], c, pool)
        \/ TellEnd(r, FALSE, "events", d, pool)
    BY <1>7 DEF HeaderHandler
  <2>2. Answers[r] \subseteq OpPhases
    BY ClientAssumption, <1>4
  <2>3. "events" \in ReplyPhases \cup {"done"}
    BY <1>4
  <2> HIDE DEF c, d
  <2>4. CASE \E ec \in BOOLEAN : TellEnd(r, ec, "done", c, pool)
    BY <1>1, <2>4
  <2>5. CASE \E phase \in Answers[r] \ {"events"} : Becomes([req EXCEPT ![r] = Start(@, phase)], c, pool)
    BY <2>2, <2>5, QuietRead
  <2>6. CASE TellEnd(r, FALSE, "events", d, pool)
    BY <1>4, <2>3, <2>6, QuietEnd
  <2> QED  BY <2>1, <2>4, <2>5, <2>6
<1>8. CASE BodyHandler(r)
  BY <1>1, <1>2, <1>4, <1>8 DEF BodyHandler
<1>9. CASE UntilHandler(r)
  BY <1>2, <1>4, <1>9 DEF UntilHandler
<1>10. CASE SizeHandler(r)
  <2>1. ASSUME NEW next \in {"chunk", "crlf", "size"}, ReadNext(r, next) \/ TellMore(r, next, pool)
        PROVE  UNCHANGED Promise!vars
    BY <1>2, <1>3, <1>4, <2>1
  <2>2. ASSUME NEW ec \in BOOLEAN, TellEnd(r, ec, "done", conn, pool) PROVE UNCHANGED Promise!vars
    BY <1>1, <2>2
  <2> QED  BY <1>10, <2>1, <2>2 DEF SizeHandler
<1>11. CASE ChunkHandler(r)
  <2>1. PICK next \in {"crlf", "size"} : ReadNext(r, next)
    BY <1>11 DEF ChunkHandler
  <2> QED  BY <1>3, <1>4, <2>1
<1>12. CASE EventHandler(r)
  BY <1>2, <1>4, <1>12 DEF EventHandler
<1>13. CASE ConnectFails(r)
  BY <1>1, <1>4, <1>13 DEF ConnectFails
<1>14. CASE FirstFailure(r)
  BY <1>5, <1>14, QuietError DEF FirstFailure
<1>15. CASE UntilEnds(r)
  BY <1>1, <1>4, <1>15, QuietError DEF UntilEnds
<1>16. CASE ContentFails(r)
  BY <1>16, QuietError DEF ContentFails
<1>17. CASE BufferFull(r)
  BY <1>5, <1>17, QuietError DEF BufferFull
<1> QED  BY <1>6, <1>7, <1>8, <1>9, <1>10, <1>11, <1>12, <1>13, <1>14, <1>15, <1>16, <1>17 DEF Failure

\* When the user's callback returns, nothing more has been told.
LEMMA ReturnsTell ==
  ASSUME IInv, NEW r \in Requests, CallbackReturns(r) \/ SyncCallback(r)
  PROVE  UNCHANGED Promise!vars
<1> DEFINE s == Continued(req[r])
<1>1. req[r] \in Session /\ req[r].phase = "callback"
  BY ConnTypes DEF CallbackReturns, SyncCallback
<1>2. s \in Session /\ s.told = req[r].told /\ s.sent = req[r].sent
  <2>1. CASE req[r].next = "done"
    BY <1>1, <2>1 DEF Continued, Session
  <2>2. CASE req[r].next # "done"
    <3>1. req[r].next \in OpPhases
      BY <1>1, <2>2 DEF Session, OpPhases
    <3>2. s = Start(req[r], req[r].next)
      BY <2>2 DEF Continued
    <3> QED  BY <1>1, <3>1, <3>2, StartFields
  <2> QED  BY <2>1, <2>2
<1> HIDE DEF s
<1>3. ASSUME NEW x \in Session, NEW caller \in Callers
      PROVE  /\ [x EXCEPT !.caller = caller] \in Session
             /\ [x EXCEPT !.caller = caller].told = x.told /\ [x EXCEPT !.caller = caller].sent = x.sent
  BY DEF Session, Callers
<1>4. CASE Becomes([req EXCEPT ![r] = s], conn, pool)
  BY <1>2, <1>4, QuietStep
<1>5. CASE \E caller \in Callers : Becomes([req EXCEPT ![r] = [s EXCEPT !.caller = caller]], conn, pool)
  <2>1. PICK caller \in Callers : Becomes([req EXCEPT ![r] = [s EXCEPT !.caller = caller]], conn, pool)
    BY <1>5
  <2> DEFINE t == [s EXCEPT !.caller = caller]
  <2>2. t \in Session /\ t.told = req[r].told /\ t.sent = req[r].sent
    BY <1>2, <1>3
  <2>3. Becomes([req EXCEPT ![r] = t], conn, pool)
    BY <2>1
  <2> HIDE DEF t
  <2> QED  BY <2>2, <2>3, QuietStep
<1>6. CASE CloseAll([req EXCEPT ![r].caller = "thrown"], conn, {req[r].conn}, pool, owner)
  <2> DEFINE t == [req[r] EXCEPT !.caller = "thrown"]
             q == [req EXCEPT ![r] = t]
  <2>1. t \in Session /\ t.told = req[r].told /\ t.sent = req[r].sent
    BY <1>1 DEF Session
  <2>2. CloseAll(q, conn, {req[r].conn}, pool, owner)
    BY <1>6
  <2> HIDE DEF t
  <2>3. q[r] = t /\ \A v \in Requests \ {r} : q[v] = req[v]
    BY ConnTypes
  <2> HIDE DEF q
  <2>4. Quiet(q)
    BY <2>1, <2>3, ConnTypes DEF Quiet
  <2> QED  BY <2>2, <2>4, QuietClose
<1>7. CASE CallbackReturns(r)
  BY <1>4, <1>7 DEF CallbackReturns, s
<1>8. CASE SyncCallback(r)
  <2> DEFINE caller ==
        CASE req[r].caller = "thrown" -> "thrown"
          [] req[r].caller \in {"returned", "dangling"} -> "dangling"
          [] req[r].ec -> "thrown"
          [] req[r].next \in {"done", "events"} /\ ~req[r].ec -> "returned"
          [] OTHER -> "collecting"
  <2>1. caller \in Callers
    BY DEF Callers
  <2>2. \/ Becomes([req EXCEPT ![r] = [s EXCEPT !.caller = caller]], conn, pool)
        \/ CloseAll([req EXCEPT ![r].caller = "thrown"], conn, {req[r].conn}, pool, owner)
    BY <1>8 DEF SyncCallback, s
  <2> HIDE DEF caller
  <2> QED  BY <1>5, <1>6, <2>1, <2>2
<1> QED  BY <1>7, <1>8

\* Neither do the network, the timers, close() and stop().
LEMMA OthersTell ==
  ASSUME IInv,
         \/ \E r \in Requests : DroppedHandler(r) \/ CloseResponse(r)
         \/ \E k \in Conns : PeerCloses(k) \/ Timer(k)
         \/ Stop
  PROVE  UNCHANGED Promise!vars
<1>1. Quiet(req)
  BY ConnTypes DEF Quiet
<1>2. CASE \E r \in Requests : DroppedHandler(r)
  <2>1. PICK r \in Requests : DroppedHandler(r)
    BY <1>2
  <2> DEFINE t == [req[r] EXCEPT !.phase = "dropped", !.op = "none"]
  <2>2. PICK c : Becomes([req EXCEPT ![r] = t], c, pool)
    BY <2>1 DEF DroppedHandler
  <2>3. req[r] \in Session
    BY ConnTypes
  <2>4. t \in Session /\ t.told = req[r].told /\ t.sent = req[r].sent
    BY <2>3 DEF Session
  <2> HIDE DEF t
  <2> QED  BY <2>2, <2>4, QuietStep
<1>3. ASSUME NEW r \in Requests, CloseResponse(r) PROVE UNCHANGED Promise!vars
  BY <1>1, <1>3, QuietClose DEF CloseResponse
<1>4. CASE Stop
  BY <1>1, <1>4, QuietClose DEF Stop
<1>5. ASSUME NEW k \in Conns, PeerCloses(k) \/ Timer(k) PROVE UNCHANGED Promise!vars
  <2>1. ASSUME NEW c, Becomes(req, c, pool) PROVE UNCHANGED Promise!vars
    BY <1>1, <2>1, QuietLeaves DEF Becomes
  <2>2. ASSUME NEW c, CloseAll(req, c, {k}, pool, owner) PROVE UNCHANGED Promise!vars
    BY <1>1, <2>2, QuietClose
  <2>3. CASE PeerCloses(k)
    BY <2>1, <2>3 DEF PeerCloses
  <2>4. CASE TimerExpires(k)
    BY <2>1, <2>4 DEF TimerExpires
  <2>5. CASE TimerHandler(k)
    BY <2>2, <2>5 DEF TimerHandler
  <2>6. CASE StaleTimerHandler(k)
    BY <2>2, <2>6 DEF StaleTimerHandler
  <2> QED  BY <1>5, <2>3, <2>4, <2>5, <2>6 DEF Timer
<1> QED  BY <1>2, <1>3, <1>4, <1>5

\* The destructor leaves, and what it closes tells nobody.
LEMMA DestroyTells ==
  ASSUME IInv, DestroyStops \/ DestroyCloses
  PROVE  Promise!Leave \/ UNCHANGED Promise!vars
<1>1. CASE DestroyStops
  <2>1. owner = "alive" /\ owner' = "destroying" /\ req' = req
    BY <1>1 DEF DestroyStops
  <2> QED  BY <2>1 DEF Promise!Leave
<1>2. CASE DestroyCloses
  <2>1. owner = "destroying"
    BY <1>2 DEF DestroyCloses
  <2>2. ASSUME NEW q, NEW c, NEW p, Quiet(q), Leaves(q, c, p, "destroyed") PROVE UNCHANGED Promise!vars
    <3>1. ToldOf(req') = ToldOf(q) /\ SentOf(req') = SentOf(q) /\ owner' = "destroyed"
      BY <2>2, LeavesTells DEF Quiet
    <3>2. ToldOf(q) = ToldOf(req) /\ SentOf(q) = SentOf(req)
      BY <2>2 DEF Quiet, ToldOf, SentOf
    <3>3. ToldOf(req') = ToldOf(req) /\ SentOf(req') = SentOf(req)
      BY <3>1, <3>2
    <3>4. (owner' = "alive") = (owner = "alive")
      BY <2>1, <3>1
    <3> QED  BY <3>3, <3>4 DEF Promise!vars, ToldOf, SentOf
  <2>3. CASE CloseAll(req, conn, pool, {}, "destroyed")
    <3> DEFINE cut == {r \in Requests : /\ req[r].conn \in pool /\ req[r].op = "pending"
                                        /\ conn[req[r].conn].sock \in {"open", "shut", "down"}}
               ended(aborted) ==
                 [r \in Requests |-> IF r \notin cut THEN req[r]
                    ELSE [req[r] EXCEPT !.op = IF r \in aborted THEN "aborted" ELSE "failed"]]
               closed == [k \in Conns |-> IF k \in pool THEN Closed(conn[k]) ELSE conn[k]]
    <3>1. PICK aborted \in SUBSET cut : Leaves(ended(aborted), closed, {}, "destroyed")
      BY <2>3 DEF CloseAll
    <3> HIDE DEF closed, cut
    <3>2. \A r \in Requests : req[r] \in Session
      BY ConnTypes
    <3>3. Quiet(ended(aborted))
      BY <3>2 DEF Quiet, Session
    <3> HIDE DEF ended
    <3> QED  BY <2>2, <3>1, <3>3
  <2>4. CASE Leaves([r \in Requests |-> IF req[r].phase \in OpPhases
                                          THEN [req[r] EXCEPT !.phase = "dropped", !.op = "none"]
                                          ELSE req[r]],
                    conn, {}, "destroyed")
    <3> DEFINE q == [r \in Requests |-> IF req[r].phase \in OpPhases
                                          THEN [req[r] EXCEPT !.phase = "dropped", !.op = "none"]
                                          ELSE req[r]]
    <3>1. Leaves(q, conn, {}, "destroyed")
      BY <2>4
    <3>2. \A r \in Requests : req[r] \in Session
      BY ConnTypes
    <3>3. ASSUME NEW r \in Requests
          PROVE  q[r] \in Session /\ q[r].told = req[r].told /\ q[r].sent = req[r].sent
      <4>1. CASE req[r].phase \in OpPhases
        <5>1. q[r] = [req[r] EXCEPT !.phase = "dropped", !.op = "none"]
          BY <4>1
        <5> HIDE DEF q
        <5> QED  BY <3>2, <5>1 DEF Session
      <4>2. CASE req[r].phase \notin OpPhases
        BY <3>2, <4>2
      <4> QED  BY <4>1, <4>2
    <3> HIDE DEF q
    <3>4. Quiet(q)
      BY <3>3 DEF Quiet
    <3> QED  BY <2>2, <3>1, <3>4
  <2> QED  BY <1>2, <2>3, <2>4 DEF DestroyCloses
<1> QED  BY <1>1, <1>2

LEMMA InitRefines == Init => Promise!Init
<1> SUFFICES ASSUME Init PROVE Promise!Init
  OBVIOUS
<1>1. NotAsked.told = "unasked" /\ NotAsked.sent = 0
  BY DEF NotAsked
<1>2. \A r \in Requests : req[r] = NotAsked
  BY DEF Init
<1>3. (owner = "alive") = TRUE
  BY DEF Init
<1> QED  BY <1>1, <1>2, <1>3 DEF Promise!Init

LEMMA NextRefines == IInv /\ [Next]_vars => [Promise!Next]_Promise!vars
<1> SUFFICES ASSUME IInv, [Next]_vars PROVE Promise!Next \/ UNCHANGED Promise!vars
  OBVIOUS
<1>1. ASSUME NEW r \in Requests, GetConnection(r) PROVE Promise!Next
  BY <1>1, AskedTold DEF Promise!Next
<1>2. ASSUME NEW r \in Requests, Inside(r) PROVE Promise!Next \/ UNCHANGED Promise!vars
  BY <1>2, ConnectTells, CallTells, ReturnsTell DEF Inside, Promise!Next
<1>3. ASSUME NEW r \in Requests, Success(r) PROVE Promise!Next \/ UNCHANGED Promise!vars
  BY <1>3, ConnectTells, RepliesTell DEF Success, Promise!Next
<1>4. ASSUME NEW r \in Requests, Failure(r) \/ BufferFull(r) PROVE UNCHANGED Promise!vars
  BY <1>4, RepliesTell
<1>5. ASSUME DestroyStops \/ DestroyCloses PROVE Promise!Next \/ UNCHANGED Promise!vars
  BY <1>5, DestroyTells DEF Promise!Next
<1>6. CASE UNCHANGED vars
  BY <1>6 DEF vars, Promise!vars
<1> QED  BY <1>1, <1>2, <1>3, <1>4, <1>5, <1>6, OthersTell DEF Next

\* The client implements the promise of request() (KeepsPromise): every step is one of Exchange
\* or none, so that with all retries, parts, timeouts and the destructor the end of a reply
\* is told at most once, after its parts, and a request is written twice at most.
THEOREM Refinement == Spec => KeepsPromise
<1>1. Spec => []IInv
  BY Invariant
<1> QED  BY <1>1, InitRefines, NextRefines, PTL DEF Spec, KeepsPromise, Promise!Spec

-----------------------------------------------------------------------------
(* What stop() can still reach *)

\* The ways by which a connection that r uses may be lost by stop().
Excused(r, k) ==
  \/ conn[k].sock \in {"new", "connecting"}
  \/ req[r].phase = "until"
  \/ conn[k].stream
  \/ \E s \in Requests : req[s].phase = "prune" /\ req[s].ec /\ req[s].conn = k

\* The connection of r, if it leaves the pool in this step.
Reached(r) ==
  LET k == req[r].conn IN
    /\ req[r].phase \in OpPhases /\ req'[r].conn = k
    /\ k \in pool /\ k \notin pool'
    => conn'[k].sock = "down" \/ Excused(r, k)

\* Somebody else who holds the connection shares a stream of events.
LEMMA SharedStreams ==
  ASSUME IInv, NEW r \in Requests, req[r].phase \in OpPhases,
         NEW s \in Requests, s # r, Holds(req[s]), req[s].conn = req[r].conn
  PROVE  Excused(r, req[r].conn)
<1>1. Holds(req[r])
  BY OpFacts
<1> QED  BY <1>1 DEF IInv, State, Excused

\* Nothing leaves the pool in most steps.
LEMMA PoolGrows ==
  ASSUME pool \subseteq pool', NEW r \in Requests
  PROVE  Reached(r)
BY DEF Reached

LEMMA OwnLeaves ==
  ASSUME IInv, NEW r \in Requests, NEW s \in Requests, req[s].phase \in OpPhases,
         pool \ {req[s].conn} \subseteq pool', r # s \/ req[s].phase = "until"
  PROVE  Reached(r)
<1> SUFFICES ASSUME req[r].phase \in OpPhases, req[r].conn \in pool, req[r].conn \notin pool'
             PROVE  Excused(r, req[r].conn)
  BY DEF Reached
<1>1. req[r].conn = req[s].conn
  OBVIOUS
<1>2. CASE r = s
  BY <1>2 DEF Excused
<1>3. CASE r # s
  <2>1. Holds(req[s])
    BY OpFacts
  <2> QED  BY <1>1, <1>3, <2>1, SharedStreams
<1> QED  BY <1>2, <1>3

\* An error of s, or a second attempt.
LEMMA RetryReaches ==
  ASSUME IInv, NEW r \in Requests, NEW s \in Requests, req[s].phase \in OpPhases, Retry(s)
  PROVE  Reached(r)
<1>1. CASE TellError(s)
  <2>1. pool' = pool
    BY <1>1 DEF TellError, TellEnd, Becomes, Leaves
  <2> QED  BY <2>1, PoolGrows
<1>2. CASE ~TellError(s)
  <2> DEFINE n == Second(s)
             k == req[s].conn
             p == (pool \ {k}) \cup {n}
             x == [NewConn EXCEPT !.in_use = TRUE, !.attempt_reconnect = FALSE]
             t == [req[s] EXCEPT !.phase = "start", !.op = "none", !.conn = n]
             q == [req EXCEPT ![s] = t]
  <2>1. Leaves(q, [conn EXCEPT ![n] = x], p, owner)
    BY <1>2 DEF Retry, Reconnect, Becomes
  <2>2. n \in p /\ pool \ {k} \subseteq p
    OBVIOUS
  <2>3. CASE r = s
    <3>1. req[s] \in Session /\ n \in Conns /\ q[s] = t
      BY ConnTypes DEF Conns, Second
    <3>2. t \in Session /\ t.conn = n
      BY <3>1 DEF Session, Active, HandlerPhases
    <3> HIDE DEF q, t, x, p, n
    <3>3. pool' = p
      BY <2>1 DEF Leaves
    <3> DEFINE held == {q[v].conn : v \in {w \in Requests : q[w].phase \in Active}}
    <3>4. req'[s] = [q[s] EXCEPT !.conn = IF q[s].conn \in p \cup held THEN q[s].conn ELSE NoConn]
      BY <2>1 DEF Leaves
    <3> HIDE DEF held
    <3>5. req'[s] = [t EXCEPT !.conn = n]
      BY <2>2, <3>1, <3>2, <3>4
    <3>6. req'[s].conn = n
      BY <3>2, <3>5 DEF Session
    <3> QED  BY <2>2, <2>3, <3>3, <3>6 DEF Reached
  <2>4. CASE r # s
    <3> HIDE DEF p
    <3>1. pool' = p
      BY <2>1 DEF Leaves
    <3> QED  BY <2>2, <2>4, <3>1, OwnLeaves
  <2> QED  BY <2>3, <2>4
<1> QED  BY <1>1, <1>2

LEMMA PruneReaches ==
  ASSUME IInv, NEW r \in Requests, NEW s \in Requests, Prune(s)
  PROVE  Reached(r)
<1> DEFINE left == IF req[s].ec THEN pool \ {req[s].conn} ELSE pool
           unused == {k \in left : ~conn[k].in_use}
<1>1. left \ unused \subseteq pool'
  BY DEF Prune, CallUser, Becomes, Leaves
<1> SUFFICES ASSUME req[r].phase \in OpPhases, req[r].conn \in pool, req[r].conn \notin pool'
             PROVE  Excused(r, req[r].conn)
  BY DEF Reached
<1>2. req[r].conn \notin left \/ ~conn[req[r].conn].in_use
  BY <1>1
<1>3. CASE req[r].conn \notin left
  BY <1>3 DEF Excused, Prune
<1>4. CASE ~conn[req[r].conn].in_use
  <2>1. Holds(req[r]) /\ ConnectionOk(req[r], r, conn[req[r].conn])
    BY OpFacts
  <2> QED  BY <1>4, <2>1 DEF ConnectionOk, Excused
<1> QED  BY <1>2, <1>3, <1>4

\* stop() closes all it takes out of the pool.
LEMMA CloseReaches ==
  ASSUME IInv, NEW r \in Requests, NEW o, CloseAll(req, conn, pool, {}, o)
  PROVE  Reached(r)
<1> DEFINE cut == {v \in Requests : /\ req[v].conn \in pool /\ req[v].op = "pending"
                                    /\ conn[req[v].conn].sock \in {"open", "shut", "down"}}
           ended(aborted) ==
             [v \in Requests |-> IF v \notin cut THEN req[v]
                ELSE [req[v] EXCEPT !.op = IF v \in aborted THEN "aborted" ELSE "failed"]]
           closed == [k \in Conns |-> IF k \in pool THEN Closed(conn[k]) ELSE conn[k]]
<1>1. PICK aborted \in SUBSET cut : Leaves(ended(aborted), closed, {}, o)
  BY DEF CloseAll
<1> HIDE DEF cut
<1> DEFINE q == ended(aborted)
<1> SUFFICES ASSUME req[r].phase \in OpPhases, req[r].conn \in pool
             PROVE  conn'[req[r].conn].sock = "down" \/ Excused(r, req[r].conn)
  BY DEF Reached
<1> DEFINE k == req[r].conn
<1>2. k \in Conns /\ conn[k] \in Connection /\ conn[k].sock # "free" /\ req[r] \in Session
  BY OpFacts DEF IInv, State
<1>3. q[r].phase \in Active /\ q[r].conn = k
  <2>1. req[r].phase \in Active
    BY OpFacts
  <2> QED  BY <1>2, <2>1 DEF Session
<1>4. closed[k] = Closed(conn[k])
  BY <1>2
<1> HIDE DEF q, closed, ended
<1>5. conn'[k] = closed[k]
  BY <1>1, <1>2, <1>3 DEF Leaves, q
<1>6. conn'[k].sock = "down" \/ conn[k].sock \in {"new", "connecting"}
  BY <1>2, <1>4, <1>5 DEF Closed, Connection
<1> QED  BY <1>6 DEF Excused

\* With its own io_service the client destroys the sessions: nobody has a connection.
LEMMA DestroyReaches ==
  ASSUME IInv, NEW r \in Requests, DestroyCloses
  PROVE  Reached(r)
<1>1. CASE CloseAll(req, conn, pool, {}, "destroyed")
  BY <1>1, CloseReaches
<1>2. CASE Leaves([v \in Requests |-> IF req[v].phase \in OpPhases
                                        THEN [req[v] EXCEPT !.phase = "dropped", !.op = "none"]
                                        ELSE req[v]],
                  conn, {}, "destroyed")
  <2> DEFINE t(v) == [req[v] EXCEPT !.phase = "dropped", !.op = "none"]
             q == [v \in Requests |-> IF req[v].phase \in OpPhases THEN t(v) ELSE req[v]]
             kept == {} \cup {q[v].conn : v \in {w \in Requests : q[w].phase \in Active}}
  <2>1. ASSUME NEW v \in Requests PROVE q[v] \in Session /\ q[v].phase \notin Active
    <3>1. req[v] \in Session /\ req[v].phase \notin HandlerPhases
      BY ConnTypes DEF DestroyCloses, SessionOk
    <3>2. CASE req[v].phase \in OpPhases
      <4>1. q[v] = t(v)
        BY <3>2
      <4>2. t(v) \in Session /\ t(v).phase = "dropped"
        BY <3>1 DEF Session
      <4> HIDE DEF q, t
      <4> QED  BY <4>1, <4>2, PhaseNames
    <3>3. CASE req[v].phase \notin OpPhases
      BY <3>1, <3>3 DEF Active
    <3> QED  BY <3>2, <3>3
  <2>2. kept = {}
    BY <2>1
  <2>3. req' = [v \in Requests |-> [q[v] EXCEPT !.conn = IF @ \in kept THEN @ ELSE NoConn]]
    BY <1>2 DEF Leaves
  <2> HIDE DEF q, kept
  <2>4. req'[r] = [q[r] EXCEPT !.conn = NoConn]
    BY <2>2, <2>3
  <2>5. req'[r].conn = NoConn
    BY <2>1, <2>4 DEF Session
  <2>6. req[r].phase \in OpPhases => req[r].conn # NoConn
    BY OpFacts, ClientAssumption DEF Conns
  <2> QED  BY <2>5, <2>6 DEF Reached
<1> QED  BY <1>1, <1>2 DEF DestroyCloses

\* The other steps take nothing out of the pool, but for the handlers that read until the server closes.
LEMMA ChainReaches ==
  ASSUME IInv, NEW r \in Requests, NEW s \in Requests,
         \/ GetConnection(s) \/ Inside(s) \/ Success(s) \/ Failure(s) \/ BufferFull(s)
         \/ DroppedHandler(s) \/ CloseResponse(s)
  PROVE  Reached(r)
<1>1. ASSUME pool' = pool PROVE Reached(r)
  BY <1>1, PoolGrows
<1>2. CASE GetConnection(s)
  <2>1. pool \subseteq pool'
    BY <1>2 DEF GetConnection, Becomes, Leaves
  <2> QED  BY <2>1, PoolGrows
<1>3. CASE Inside(s)
  <2>1. Connect(s) \/ CallbackReturns(s) \/ SyncCallback(s) => pool' = pool
    BY DEF Connect, CallbackReturns, SyncCallback, CloseAll, Write, Becomes, Leaves
  <2> QED  BY <1>1, <1>3, <2>1, PruneReaches DEF Inside
<1>4. CASE Success(s)
  <2>1. ConnectHandler(s) => pool' = pool
    BY DEF ConnectHandler, Write, Becomes, Leaves
  <2>2. WriteHandler(s) \/ ChunkHandler(s) \/ EventHandler(s) => pool' = pool
    BY DEF WriteHandler, ChunkHandler, EventHandler, ReadNext, TellMore, Becomes, Leaves
  <2>3. HeaderHandler(s) => pool' = pool
    BY DEF HeaderHandler, TellEnd, Becomes, Leaves
  <2>4. BodyHandler(s) \/ SizeHandler(s) => pool' = pool
    BY DEF BodyHandler, SizeHandler, TellEnd, TellMore, ReadNext, Becomes, Leaves
  <2>5. UntilHandler(s) => req[s].phase = "until" /\ pool' = pool \ {req[s].conn}
    BY DEF UntilHandler, Entered, TellMore, Becomes, Leaves
  <2>6. "until" \in OpPhases
    BY DEF OpPhases, ReplyPhases
  <2> QED  BY <1>1, <1>4, <2>1, <2>2, <2>3, <2>4, <2>5, <2>6, OwnLeaves DEF Success
<1>5. CASE Failure(s)
  <2>1. ConnectFails(s) \/ ContentFails(s) => pool' = pool
    BY DEF ConnectFails, ContentFails, TellError, TellEnd, Becomes, Leaves
  <2>2. UntilEnds(s) => req[s].phase = "until" /\ pool \ {req[s].conn} \subseteq pool'
    BY DEF UntilEnds, Entered, TellError, TellEnd, Becomes, Leaves
  <2>3. "until" \in OpPhases /\ "write" \in OpPhases /\ "header" \in OpPhases
    BY DEF OpPhases, ReplyPhases
  <2>4. CASE FirstFailure(s)
    <3>1. TellError(s) => pool' = pool
      BY DEF TellError, TellEnd, Becomes, Leaves
    <3> QED  BY <1>1, <2>3, <2>4, <3>1, RetryReaches DEF FirstFailure, Entered
  <2> QED  BY <1>1, <1>5, <2>1, <2>2, <2>3, <2>4, OwnLeaves DEF Failure
<1>6. CASE BufferFull(s)
  <2>1. TellError(s) => pool' = pool
    BY DEF TellError, TellEnd, Becomes, Leaves
  <2>2. "header" \in OpPhases
    BY DEF OpPhases
  <2> QED  BY <1>1, <1>6, <2>1, <2>2, RetryReaches DEF BufferFull
<1>7. CASE DroppedHandler(s)
  <2>1. pool' = pool
    BY <1>7 DEF DroppedHandler, Becomes, Leaves
  <2> QED  BY <1>1, <2>1
<1>8. CASE CloseResponse(s)
  <2>1. pool' = pool
    BY <1>8 DEF CloseResponse, CloseAll, Leaves
  <2> QED  BY <1>1, <2>1
<1> QED  BY <1>2, <1>3, <1>4, <1>5, <1>6, <1>7, <1>8

LEMMA NextReaches ==
  ASSUME IInv, [Next]_vars, NEW r \in Requests
  PROVE  Reached(r)
<1>1. ASSUME NEW k \in Conns, PeerCloses(k) \/ Timer(k) PROVE Reached(r)
  <2>1. pool' = pool
    BY <1>1 DEF PeerCloses, Timer, TimerExpires, TimerHandler, StaleTimerHandler, CloseAll, Becomes, Leaves
  <2> QED  BY <2>1, PoolGrows
<1>2. CASE Stop
  BY <1>2, CloseReaches DEF Stop
<1>3. CASE DestroyStops \/ UNCHANGED vars
  <2>1. pool' = pool
    BY <1>3 DEF DestroyStops, vars
  <2> QED  BY <2>1, PoolGrows
<1> QED  BY <1>1, <1>2, <1>3, ChainReaches, DestroyReaches DEF Next

\* A connection that a request uses leaves the pool only closed or not connected yet, but for the three
\* ways by which stop() loses sight of it and leaves it open: read until the server closes it, shared
\* for a stream of events, or given up by another request that used it before
\* (client_http.hpp:373-379, :246-261).
THEOREM LeavesClosed == Spec => LeavesPoolClosed
<1>1. IInv /\ [Next]_vars =>
        [\A r \in Requests : LET k == req[r].conn IN
           /\ req[r].phase \in OpPhases /\ req'[r].conn = k
           /\ k \in pool /\ k \notin pool'
           => \/ conn'[k].sock = "down"
              \/ conn[k].sock \in {"new", "connecting"}
              \/ req[r].phase = "until"
              \/ conn[k].stream
              \/ \E s \in Requests : req[s].phase = "prune" /\ req[s].ec /\ req[s].conn = k]_vars
  BY NextReaches DEF Reached, Excused
<1> QED  BY <1>1, Invariant, PTL DEF Spec, LeavesPoolClosed

-----------------------------------------------------------------------------
(* Whoever waits on an open socket does so under a timer *)

Timeouts == config.timeout /\ config.timeout_connect

\* The session waits for its connection, or will when the user's callback has returned.
Waits(s) == s.op = "pending" \/ (s.phase \in {"prune", "callback"} /\ s.next # "done")

\* The session s and its connection x: an operation that was cut had its socket closed.
TimedOk(s, x) ==
  /\ Waits(s) /\ x.sock = "open" /\ ~x.stream => x.timer \in {"armed", "due"}
  /\ s.op \in {"failed", "aborted"} => x.sock # "open" \/ x.stream

\* What a session must be for its connection to be kept while it waits.
Ready(s) ==
  /\ s \in Session
  /\ s.op # "none" => s.phase \in OpPhases
  /\ s.phase \in Active => s.conn \in Conns

Timed(q, c) == \A r \in Requests : q[r].conn \in Conns => TimedOk(q[r], c[q[r].conn])

LEMMA ReadyOk ==
  ASSUME NEW s, NEW r, NEW o, SessionOk(s, r, o)
  PROVE  Ready(s)
BY DEF SessionOk, Ready

LEMMA IdleTimed ==
  ASSUME NEW s, Ready(s), NEW x, s.phase \notin Active \/ s.phase = "start" \/ (s.op = "none" /\ s.next = "done")
  PROVE  TimedOk(s, x) /\ ~Waits(s)
<1>1. s.op = "none"
  <2>1. "start" \notin OpPhases
    BY DEF OpPhases, ConnectPhases, ReplyPhases
  <2> QED  BY <2>1 DEF Ready, Active
<1>2. ~Waits(s)
  BY <1>1 DEF Waits, Active, HandlerPhases
<1> QED  BY <1>1, <1>2 DEF TimedOk

LEMMA WaitingHolds ==
  ASSUME NEW s, Ready(s), Waits(s) \/ s.op \in {"failed", "aborted"}
  PROVE  Holds(s) /\ s.phase \in Active /\ s.conn \in Conns
BY DEF Ready, Waits, Holds, Active, HandlerPhases

LEMMA LeavesTimed ==
  ASSUME NEW q, NEW c, NEW p, NEW o, \A r \in Requests : Ready(q[r]), Timed(q, c), Leaves(q, c, p, o)
  PROVE  Timed(req, conn)'
<1> DEFINE kept == p \cup {q[r].conn : r \in {s \in Requests : q[s].phase \in Active}}
<1>1. /\ conn' = [k \in Conns |-> IF k \in kept THEN c[k] ELSE NoObject]
      /\ req' = [r \in Requests |-> [q[r] EXCEPT !.conn = IF @ \in kept THEN @ ELSE NoConn]]
  BY DEF Leaves
<1>2. \A r \in Requests : q[r].phase \in Active => q[r].conn \in kept
  OBVIOUS
<1> HIDE DEF kept
<1> SUFFICES ASSUME NEW r \in Requests, req'[r].conn \in Conns
             PROVE  TimedOk(req'[r], conn'[req'[r].conn])
  BY DEF Timed
<1>3. q[r] \in Session /\ Ready(q[r])
  BY DEF Ready
<1>4. CASE q[r].conn \in kept
  <2>1. req'[r] = q[r]
    BY <1>1, <1>3, <1>4 DEF Session
  <2>2. conn'[q[r].conn] = c[q[r].conn]
    BY <1>1, <1>4, <2>1
  <2> QED  BY <2>1, <2>2 DEF Timed
<1>5. CASE q[r].conn \notin kept
  <2>1. req'[r].conn = NoConn
    BY <1>1, <1>3, <1>5 DEF Session
  <2> QED  BY <2>1, ClientAssumption DEF Conns
<1> QED  BY <1>4, <1>5

\* The chain of r goes on with the connection it has.
LEMMA TimedOwn ==
  ASSUME IInv, Timed(req, conn), NEW r \in Requests, NEW k \in Conns, k = req[r].conn,
         NEW s, Ready(s), s.conn = k, NEW x, conn[k].stream => x.stream,
         Holds(req[r]) \/ (x.sock = conn[k].sock /\ x.timer = conn[k].timer /\ x.stream = conn[k].stream),
         TimedOk(s, x), NEW p, Becomes([req EXCEPT ![r] = s], [conn EXCEPT ![k] = x], p)
  PROVE  Timed(req, conn)'
<1> DEFINE q == [req EXCEPT ![r] = s]
           c == [conn EXCEPT ![k] = x]
<1>1. /\ q[r] = s /\ \A v \in Requests \ {r} : q[v] = req[v]
      /\ c[k] = x /\ \A j \in Conns \ {k} : c[j] = conn[j]
  BY ConnTypes
<1>2. Leaves(q, c, p, owner)
  BY DEF Becomes
<1> HIDE DEF q, c
<1>3. ASSUME NEW v \in Requests PROVE Ready(q[v]) /\ (q[v].conn \in Conns => TimedOk(q[v], c[q[v].conn]))
  <2>1. CASE v = r
    BY <1>1, <2>1
  <2>2. CASE v # r
    <3>1. q[v] = req[v] /\ Ready(req[v])
      BY <1>1, <2>2, ConnTypes, ReadyOk
    <3>2. ASSUME req[v].conn \in Conns PROVE TimedOk(req[v], c[req[v].conn])
      <4>1. TimedOk(req[v], conn[req[v].conn])
        BY <3>2 DEF Timed
      <4>2. CASE req[v].conn # k
        BY <1>1, <3>2, <4>1, <4>2
      <4>3. CASE req[v].conn = k
        <5>1. CASE x.sock = conn[k].sock /\ x.timer = conn[k].timer /\ x.stream = conn[k].stream
          BY <1>1, <4>1, <4>3, <5>1 DEF TimedOk
        <5>2. CASE Holds(req[r]) /\ Holds(req[v])
          <6>1. conn[k].stream
            BY <2>2, <4>3, <5>2 DEF IInv, State
          <6> QED  BY <1>1, <4>3, <6>1 DEF TimedOk
        <5>3. CASE ~Holds(req[v])
          BY <3>1, <5>3, WaitingHolds DEF TimedOk
        <5> QED  BY <5>1, <5>2, <5>3
      <4> QED  BY <4>2, <4>3
    <3> QED  BY <3>1, <3>2
  <2> QED  BY <2>1, <2>2
<1> QED  BY <1>2, <1>3, LeavesTimed DEF Timed

LEMMA TimedSame ==
  ASSUME IInv, Timed(req, conn), NEW r \in Requests, req[r].phase \in Active,
         NEW s, Ready(s), s.conn = req[r].conn, TimedOk(s, conn[req[r].conn]),
         NEW p, Becomes([req EXCEPT ![r] = s], conn, p)
  PROVE  Timed(req, conn)'
<1> DEFINE k == req[r].conn
<1>1. k \in Conns /\ conn = [conn EXCEPT ![k] = conn[k]]
  BY ConnTypes, ConnKept
<1>2. Becomes([req EXCEPT ![r] = s], [conn EXCEPT ![k] = conn[k]], p)
  BY <1>1
<1> QED  BY <1>1, <1>2, TimedOwn

\* Connections are closed, and the timers of those may have gone before.
LEMMA TimedClose ==
  ASSUME NEW q, NEW c, NEW ks, NEW p, NEW o, c \in [Conns -> Connection],
         \A r \in Requests : Ready(q[r]),
         \A r \in Requests : q[r].conn \in Conns \ ks => TimedOk(q[r], c[q[r].conn]),
         CloseAll(q, c, ks, p, o)
  PROVE  Timed(req, conn)'
<1> DEFINE cut == {r \in Requests : /\ q[r].conn \in ks /\ q[r].op = "pending"
                                    /\ c[q[r].conn].sock \in {"open", "shut", "down"}}
           ended(aborted) ==
             [r \in Requests |-> IF r \notin cut THEN q[r]
                ELSE [q[r] EXCEPT !.op = IF r \in aborted THEN "aborted" ELSE "failed"]]
           closed == [k \in Conns |-> IF k \in ks THEN Closed(c[k]) ELSE c[k]]
<1>1. PICK aborted \in SUBSET cut : Leaves(ended(aborted), closed, p, o)
  BY DEF CloseAll
<1>2. ASSUME NEW r \in Requests
      PROVE  LET t == ended(aborted)[r]
             IN  Ready(t) /\ (t.conn \in Conns => TimedOk(t, closed[t.conn]))
  <2>1. Ready(q[r]) /\ q[r] \in Session
    BY DEF Ready
  <2>2. CASE r \notin cut
    <3>1. ended(aborted)[r] = q[r]
      BY <2>2
    <3>2. ASSUME q[r].conn \in Conns PROVE TimedOk(q[r], closed[q[r].conn])
      <4>1. CASE q[r].conn \in ks
        <5>1. closed[q[r].conn] = Closed(c[q[r].conn]) /\ c[q[r].conn] \in Connection
          BY <3>2, <4>1
        <5> HIDE DEF closed
        <5>2. closed[q[r].conn].sock # "open"
          BY <5>1 DEF Closed, Connection
        <5> QED  BY <5>2 DEF TimedOk
      <4>2. CASE q[r].conn \notin ks
        <5>1. closed[q[r].conn] = c[q[r].conn]
          BY <3>2, <4>2
        <5> QED  BY <3>2, <4>2, <5>1
      <4> QED  BY <4>1, <4>2
    <3> QED  BY <2>1, <3>1, <3>2
  <2>3. CASE r \in cut
    <3>1. PICK e \in {"aborted", "failed"} : e = IF r \in aborted THEN "aborted" ELSE "failed"
      OBVIOUS
    <3> DEFINE t == [q[r] EXCEPT !.op = e]
    <3>2. ended(aborted)[r] = t
      BY <2>3, <3>1
    <3>3. q[r].op = "pending" /\ q[r].conn \in ks
      BY <2>3
    <3>4. t \in Session /\ t.op = e /\ t.phase = q[r].phase /\ t.conn = q[r].conn
      BY <2>1 DEF Session
    <3> HIDE DEF t, ended, cut
    <3>5. Ready(t)
      BY <2>1, <3>3, <3>4 DEF Ready
    <3>6. ASSUME t.conn \in Conns PROVE TimedOk(t, closed[t.conn])
      <4>1. closed[t.conn] = Closed(c[t.conn]) /\ c[t.conn] \in Connection
        BY <3>3, <3>4, <3>6
      <4> HIDE DEF closed
      <4>2. closed[t.conn].sock # "open"
        BY <4>1 DEF Closed, Connection
      <4> QED  BY <4>2 DEF TimedOk
    <3> QED  BY <3>2, <3>5, <3>6
  <2> QED  BY <2>2, <2>3
<1> HIDE DEF ended, closed, cut
<1>3. Timed(ended(aborted), closed)
  BY <1>2 DEF Timed
<1> QED  BY <1>1, <1>2, <1>3, LeavesTimed

-----------------------------------------------------------------------------
(* ... by the building blocks of the actions *)

LEMMA TimedTellEnd ==
  ASSUME IInv, Timed(req, conn), NEW r \in Requests, NEW k, k = req[r].conn, req[r].phase \in OpPhases,
         NEW ec \in BOOLEAN, NEW next \in ReplyPhases \cup {"done"}, NEW p,
         NEW x \in Connection, conn[k].stream => x.stream, next # "done" => x.stream,
         TellEnd(r, ec, next, [conn EXCEPT ![k] = x], p)
  PROVE  Timed(req, conn)'
<1> DEFINE s == Telling(req[r], ec, next)
           y == [CancelTimer(x) EXCEPT !.in_use = FALSE]
<1>1. Holds(req[r]) /\ k \in Conns /\ req[r] \in Session
  BY OpFacts
<1>2. /\ s \in Session /\ s.phase = "prune" /\ s.op = "none" /\ s.conn = k /\ s.next = next
  BY <1>1, TellingFields
<1>3. y.stream = x.stream
  <2>1. CancelTimer(x) \in Connection /\ CancelTimer(x).stream = x.stream
    BY TimerFlags DEF Flags, CancelTimer
  <2> QED  BY <2>1 DEF Connection
<1>4. Becomes([req EXCEPT ![r] = s], [conn EXCEPT ![k] = y], p)
  <2>1. [[conn EXCEPT ![k] = x] EXCEPT ![k] = [CancelTimer([conn EXCEPT ![k] = x][k]) EXCEPT !.in_use = FALSE]]
          = [conn EXCEPT ![k] = y]
    <3>1. [conn EXCEPT ![k] = x][k] = x
      BY <1>1, ConnTypes
    <3> QED  BY <3>1
  <2> QED  BY <2>1 DEF TellEnd
<1> HIDE DEF s, y
<1>5. Ready(s)
  BY <1>1, <1>2 DEF Ready
<1>6. TimedOk(s, y)
  BY <1>2, <1>3, <1>5, IdleTimed DEF TimedOk
<1> QED  BY <1>1, <1>2, <1>3, <1>4, <1>5, <1>6, TimedOwn

LEMMA TimedEnd ==
  ASSUME IInv, Timed(req, conn), NEW r \in Requests, req[r].phase \in OpPhases,
         NEW ec \in BOOLEAN, NEW p, TellEnd(r, ec, "done", conn, p)
  PROVE  Timed(req, conn)'
<1>1. conn[req[r].conn] \in Connection /\ req[r].conn \in Conns
  BY OpFacts
<1>2. conn = [conn EXCEPT ![req[r].conn] = conn[req[r].conn]]
  BY <1>1, ConnKept
<1>3. TellEnd(r, ec, "done", [conn EXCEPT ![req[r].conn] = conn[req[r].conn]], p)
  BY <1>2
<1> QED  BY <1>1, <1>3, TimedTellEnd

LEMMA TimedMore ==
  ASSUME IInv, Timed(req, conn), NEW r \in Requests, req[r].phase \in OpPhases, req[r].op # "none",
         NEW next \in ReplyPhases, NEW p, TellMore(r, next, p)
  PROVE  Timed(req, conn)'
<1> DEFINE s == Telling(req[r], FALSE, next)
           x == conn[req[r].conn]
<1>1. req[r] \in Session /\ req[r].conn \in Conns /\ req[r].phase \in Active
  BY OpFacts
<1>2. s \in Session /\ s.op = "none" /\ s.conn = req[r].conn
  BY <1>1 DEF Telling, Session, Active, HandlerPhases
<1>3. Becomes([req EXCEPT ![r] = s], conn, p)
  BY DEF TellMore
<1> HIDE DEF s
<1>4. Ready(s)
  BY <1>1, <1>2 DEF Ready
<1>5. TimedOk(s, x)
  <2>1. TimedOk(req[r], x)
    BY <1>1 DEF Timed
  <2>2. req[r].op = "pending" \/ req[r].op \in {"failed", "aborted"}
    BY <1>1 DEF Session
  <2> QED  BY <1>2, <2>1, <2>2 DEF TimedOk, Waits
<1> QED  BY <1>1, <1>2, <1>3, <1>4, <1>5, TimedSame

\* An operation under the timer of the last one, or of the last part.
LEMMA TimedGoOn ==
  ASSUME IInv, Timed(req, conn), NEW r \in Requests, req[r].phase \in Active, Waits(req[r]),
         NEW s \in Session, s.phase \in OpPhases, s.op = "pending", s.conn = req[r].conn,
         Becomes([req EXCEPT ![r] = s], conn, pool)
  PROVE  Timed(req, conn)'
<1>1. req[r].conn \in Conns /\ TimedOk(req[r], conn[req[r].conn])
  BY ConnTypes DEF Timed
<1>2. Ready(s) /\ TimedOk(s, conn[req[r].conn])
  BY <1>1 DEF Ready, TimedOk, Waits
<1> QED  BY <1>2, TimedSame

LEMMA TimedRead ==
  ASSUME IInv, Timed(req, conn), NEW r \in Requests, req[r].op = "pending",
         NEW phase \in OpPhases, ReadNext(r, phase)
  PROVE  Timed(req, conn)'
<1>1. req[r] \in Session /\ req[r].phase \in Active
  BY ConnTypes DEF SessionOk, Active
<1>2. /\ Start(req[r], phase) \in Session /\ Start(req[r], phase).phase = phase
      /\ Start(req[r], phase).op = "pending" /\ Start(req[r], phase).conn = req[r].conn
  BY <1>1, StartFields
<1>3. Waits(req[r])
  BY DEF Waits
<1>4. Becomes([req EXCEPT ![r] = Start(req[r], phase)], conn, pool)
  BY DEF ReadNext
<1> HIDE DEF Start
<1> QED  BY <1>1, <1>2, <1>3, <1>4, TimedGoOn

\* A timer is armed with the operation.
LEMMA TimedArmed ==
  ASSUME IInv, Timed(req, conn), NEW r \in Requests, req[r].phase \in BeforeWrite,
         NEW k, k = req[r].conn, NEW x \in Connection, x.stream = conn[k].stream,
         NEW s \in Session, s.phase \in OpPhases, s.op = "pending", s.conn = k,
         Becomes([req EXCEPT ![r] = s], [conn EXCEPT ![k] = SetTimer(x, TRUE)], pool)
  PROVE  Timed(req, conn)'
<1> DEFINE y == SetTimer(x, TRUE)
<1>1. Holds(req[r]) /\ k \in Conns
  BY OpFacts DEF BeforeWrite, OpPhases
<1>2. y.stream = x.stream
  BY TimerFlags DEF Flags
<1>3. y.timer = "armed"
  BY DEF SetTimer, Connection
<1> HIDE DEF y
<1>4. Ready(s) /\ TimedOk(s, y)
  BY <1>1, <1>3 DEF Ready, TimedOk
<1> QED  BY <1>1, <1>2, <1>4, TimedOwn DEF y

LEMMA TimedWrite ==
  ASSUME IInv, Timeouts, Timed(req, conn), NEW r \in Requests, req[r].phase \in BeforeWrite,
         NEW k, k = req[r].conn, NEW x \in Connection, x.stream = conn[k].stream,
         Write(r, k, [conn EXCEPT ![k] = x])
  PROVE  Timed(req, conn)'
<1> DEFINE s == [Start(req[r], "write") EXCEPT !.sent = @ + 1]
<1>1. "write" \in OpPhases /\ req[r].phase \in OpPhases \cup {"start"}
  BY DEF OpPhases, BeforeWrite
<1>2. req[r] \in Session /\ k \in Conns /\ SessionOk(req[r], r, owner)
  BY <1>1, OpFacts
<1>3. s \in Session /\ s.phase = "write" /\ s.op = "pending" /\ s.conn = k
  <2>1. /\ Start(req[r], "write") \in Session /\ Start(req[r], "write").phase = "write"
        /\ Start(req[r], "write").op = "pending" /\ Start(req[r], "write").conn = k
        /\ Start(req[r], "write").sent = req[r].sent
    BY <1>1, <1>2, StartFields
  <2>2. req[r].sent + 1 \in 0..2
    BY <1>2 DEF SessionOk
  <2> QED  BY <2>1, <2>2 DEF Session
<1>4. config.timeout = TRUE
  BY ConnTypes DEF Timeouts
<1>5. Becomes([req EXCEPT ![r] = s], [conn EXCEPT ![k] = SetTimer(x, TRUE)], pool)
  <2>1. [conn EXCEPT ![k] = x][k] = x
    BY <1>2, ConnTypes
  <2>2. [[conn EXCEPT ![k] = x] EXCEPT ![k] = SetTimer([conn EXCEPT ![k] = x][k], config.timeout)]
          = [conn EXCEPT ![k] = SetTimer(x, TRUE)]
    BY <1>4, <2>1
  <2>3. Becomes([req EXCEPT ![r] = [Start(req[r], "write") EXCEPT !.sent = @ + 1]],
                [[conn EXCEPT ![k] = x] EXCEPT
                   ![k] = SetTimer([conn EXCEPT ![k] = x][k], config.timeout)], pool)
    BY DEF Write
  <2> QED  BY <2>2, <2>3, Zenon
<1> HIDE DEF s
<1> QED  BY <1>1, <1>3, <1>5, TimedArmed

-----------------------------------------------------------------------------
(* ... and by the actions *)

LEMMA TimedAsked ==
  ASSUME IInv, Timed(req, conn), NEW r \in Requests, GetConnection(r)
  PROVE  Timed(req, conn)'
<1> DEFINE unused == {k \in pool : ~conn[k].in_use}
           caller == IF config.sync THEN "waiting" ELSE req[r].caller
<1>1. PICK k \in IF unused # {} THEN unused ELSE {First(r)} :
        Becomes([req EXCEPT ![r] = [req[r] EXCEPT !.phase = "start", !.conn = k, !.told = "asked",
                                      !.caller = caller]],
                [conn EXCEPT ![k] = [(IF k \in unused THEN conn[k] ELSE NewConn) EXCEPT
                                       !.in_use = TRUE, !.attempt_reconnect = TRUE]],
                pool \cup {k})
  BY DEF GetConnection
<1> DEFINE x == [(IF k \in unused THEN conn[k] ELSE NewConn) EXCEPT !.in_use = TRUE, !.attempt_reconnect = TRUE]
           s == [req[r] EXCEPT !.phase = "start", !.conn = k, !.told = "asked", !.caller = caller]
           q == [req EXCEPT ![r] = s]
           c == [conn EXCEPT ![k] = x]
<1>2. req[r].phase = "idle" /\ req[r] \in Session /\ SessionOk(req[r], r, owner) /\ k \in Conns
  BY ConnTypes DEF GetConnection, Conns, First
<1>3. s \in Session /\ s.phase = "start" /\ s.op = req[r].op /\ s.conn = k
  <2>1. caller \in Callers
    BY <1>2 DEF Session, Callers
  <2> HIDE DEF caller
  <2> QED  BY <1>2, <2>1 DEF Session, Active, HandlerPhases, Callers
<1>4. Ready(s)
  <2>1. req[r].op = "none"
    BY <1>2, PhaseNames DEF SessionOk, Active
  <2> HIDE DEF s
  <2> QED  BY <1>2, <1>3, <2>1 DEF Ready
<1>5. k \in unused => x.stream = conn[k].stream
  BY ConnTypes DEF Connection
<1>6. k \in unused \/ k = First(r)
  OBVIOUS
<1>7. \A v \in Requests : req[v].conn # First(r)
  BY <1>2 DEF IInv, State, HasMade, First
<1>8. Leaves(q, c, pool \cup {k}, owner)
  BY <1>1 DEF Becomes
<1> HIDE DEF s, x
<1>9. /\ q[r] = s /\ \A v \in Requests \ {r} : q[v] = req[v]
      /\ c[k] = x /\ \A j \in Conns \ {k} : c[j] = conn[j]
  BY <1>2, ConnTypes
<1> HIDE DEF q, c
<1>10. ASSUME NEW v \in Requests PROVE Ready(q[v]) /\ (q[v].conn \in Conns => TimedOk(q[v], c[q[v].conn]))
  <2>1. CASE v = r
    BY <1>3, <1>4, <1>9, <2>1, IdleTimed
  <2>2. CASE v # r
    <3>1. q[v] = req[v] /\ Ready(req[v])
      BY <1>9, <2>2, ConnTypes, ReadyOk
    <3>2. CASE req[v].conn # k
      BY <1>9, <3>1, <3>2 DEF Timed
    <3>3. CASE req[v].conn = k
      <4>1. k \in unused /\ x.stream = conn[k].stream /\ ~conn[k].in_use
        BY <1>5, <1>6, <1>7, <3>3
      <4>2. Holds(req[v]) => conn[k].stream
        BY <3>3, <4>1 DEF IInv, State, ConnectionOk
      <4>3. TimedOk(req[v], x)
        BY <3>1, <4>1, <4>2, WaitingHolds DEF TimedOk
      <4> QED  BY <1>9, <3>1, <3>3, <4>3
    <3> QED  BY <3>2, <3>3
  <2> QED  BY <2>1, <2>2
<1> QED  BY <1>8, <1>10, LeavesTimed DEF Timed

LEMMA TimedRetry ==
  ASSUME IInv, Timed(req, conn), NEW r \in Requests, req[r].phase \in {"write", "header"}, Retry(r)
  PROVE  Timed(req, conn)'
<1> DEFINE k == req[r].conn
           n == Second(r)
<1>1. /\ req[r].phase \in OpPhases /\ req[r].phase \in Early
      /\ req[r] \in Session /\ ConnectionOk(req[r], r, conn[k]) /\ Holds(req[r])
      /\ n \in Conns
  BY OpFacts, PhaseNames DEF OpPhases, Early, Conns, Second
<1>2. CASE TellError(r)
  <2>1. TellEnd(r, TRUE, "done", conn, pool) /\ TRUE \in BOOLEAN
    BY <1>2 DEF TellError
  <2> QED  BY <1>1, <2>1, TimedEnd
<1>3. CASE ~TellError(r)
  <2> DEFINE s == [req[r] EXCEPT !.phase = "start", !.op = "none", !.conn = n]
             x == [NewConn EXCEPT !.in_use = TRUE, !.attempt_reconnect = FALSE]
             q == [req EXCEPT ![r] = s]
             c == [conn EXCEPT ![n] = x]
             p == (pool \ {k}) \cup {n}
  <2>1. conn[k].attempt_reconnect /\ Leaves(q, c, p, owner)
    BY <1>3 DEF Retry, Reconnect, Becomes
  <2>2. \A v \in Requests : req[v].conn # n
    <3>1. k # n
      BY <1>1, <2>1 DEF ConnectionOk
    <3>2. ~HasMade(req[r], r, 2)
      BY <1>1, <3>1 DEF HasMade
    <3> QED  BY <3>2 DEF IInv, State, Second
  <2>3. s \in Session /\ s.phase = "start" /\ s.op = "none" /\ s.conn = n
    BY <1>1 DEF Session, Active, HandlerPhases
  <2> HIDE DEF s, x, n, p
  <2>4. Ready(s)
    BY <1>1, <2>3 DEF Ready
  <2>5. /\ q[r] = s /\ \A v \in Requests \ {r} : q[v] = req[v]
        /\ \A j \in Conns \ {n} : c[j] = conn[j]
    BY ConnTypes
  <2> HIDE DEF q, c
  <2>6. ASSUME NEW v \in Requests PROVE Ready(q[v]) /\ (q[v].conn \in Conns => TimedOk(q[v], c[q[v].conn]))
    <3>1. CASE v = r
      BY <2>3, <2>4, <2>5, <3>1, IdleTimed
    <3>2. CASE v # r
      BY <2>2, <2>5, <3>2, ConnTypes, ReadyOk DEF Timed
    <3> QED  BY <3>1, <3>2
  <2> QED  BY <2>1, <2>6, LeavesTimed DEF Timed
<1> QED  BY <1>2, <1>3

LEMMA TimedConnecting ==
  ASSUME IInv, Timeouts, Timed(req, conn), NEW r \in Requests,
         Connect(r) \/ ConnectHandler(r) \/ ConnectFails(r)
  PROVE  Timed(req, conn)'
<1> DEFINE k == req[r].conn
<1>1. req[r].phase \in BeforeWrite /\ req[r].phase \in OpPhases \cup {"start"}
  BY PhaseNames DEF Connect, ConnectHandler, ConnectFails, Entered, BeforeWrite, OpPhases
<1>2. /\ k \in Conns /\ conn[k] \in Connection /\ req[r] \in Session
      /\ conn = [conn EXCEPT ![k] = conn[k]] /\ config.timeout_connect = TRUE
  BY <1>1, OpFacts, ConnKept, ConnTypes DEF Timeouts
<1>3. ASSUME NEW phase \in ConnectPhases
      PROVE  /\ Start(req[r], phase) \in Session /\ Start(req[r], phase).phase \in OpPhases
             /\ Start(req[r], phase).op = "pending" /\ Start(req[r], phase).conn = k
  <2>1. phase \in OpPhases
    BY DEF OpPhases
  <2> QED  BY <1>2, <2>1, StartFields
<1>4. CASE Connect(r)
  <2>1. CASE Write(r, k, conn)
    <3>1. Write(r, k, [conn EXCEPT ![k] = conn[k]])
      BY <1>2, <2>1
    <3> QED  BY <1>1, <1>2, <3>1, TimedWrite
  <2>2. CASE Becomes([req EXCEPT ![r] = Start(@, "resolve")],
                     [conn EXCEPT ![k] = SetTimer(@, config.timeout_connect)], pool)
    <3>1. "resolve" \in ConnectPhases
      BY DEF ConnectPhases
    <3>2. Becomes([req EXCEPT ![r] = Start(req[r], "resolve")], [conn EXCEPT ![k] = SetTimer(conn[k], TRUE)], pool)
      BY <1>2, <2>2
    <3> QED  BY <1>1, <1>2, <1>3, <3>1, <3>2, TimedArmed
  <2> QED  BY <1>4, <2>1, <2>2 DEF Connect
<1>5. CASE ConnectHandler(r)
  <2> DEFINE next == AfterConnect(req[r].phase)
             sock == CASE next = "connect" -> "connecting"
                       [] req[r].phase = "connect" -> "open"
                       [] OTHER -> conn[k].sock
             x == [CancelTimer(conn[k]) EXCEPT !.sock = sock]
             c == [conn EXCEPT ![k] = x]
  <2>1. \/ next = "write" /\ Write(r, k, c)
        \/ /\ next # "write"
           /\ Becomes([req EXCEPT ![r] = Start(@, next)],
                      [c EXCEPT ![k] = SetTimer(@, config.timeout_connect)], pool)
    BY <1>5 DEF ConnectHandler
  <2>2. next \in {"connect", "write", "proxyWrite", "proxyRead", "handshake"}
    <3>1. req[r].phase \in ConnectPhases
      BY <1>5 DEF ConnectHandler, Entered
    <3> QED  BY <3>1 DEF AfterConnect, ConnectPhases
  <2>3. x \in Connection /\ x.stream = conn[k].stream
    <3>1. Flags(conn[k], CancelTimer(conn[k])) /\ CancelTimer(conn[k]).sock = conn[k].sock
      BY <1>2, TimerFlags DEF CancelTimer
    <3>2. sock \in {"connecting", "open"} \/ sock = conn[k].sock
      OBVIOUS
    <3> HIDE DEF next
    <3>3. CASE sock \in {"connecting", "open"}
      BY <3>1, <3>3 DEF Flags, Connection
    <3>4. CASE sock = conn[k].sock
      BY <3>1, <3>4 DEF Flags, Connection
    <3> QED  BY <3>2, <3>3, <3>4
  <2> HIDE DEF next, x
  <2>4. CASE next = "write" /\ Write(r, k, c)
    BY <1>1, <2>3, <2>4, TimedWrite
  <2>5. CASE /\ next # "write"
             /\ Becomes([req EXCEPT ![r] = Start(@, next)],
                        [c EXCEPT ![k] = SetTimer(@, config.timeout_connect)], pool)
    <3>1. next \in ConnectPhases
      BY <2>2, <2>5 DEF ConnectPhases
    <3>2. [c EXCEPT ![k] = SetTimer(c[k], config.timeout_connect)] = [conn EXCEPT ![k] = SetTimer(x, TRUE)]
      <4>1. c[k] = x
        BY <1>2, ConnTypes
      <4> QED  BY <1>2, <4>1
    <3>3. Becomes([req EXCEPT ![r] = Start(req[r], next)], [conn EXCEPT ![k] = SetTimer(x, TRUE)], pool)
      BY <2>5, <3>2
    <3> QED  BY <1>1, <1>3, <2>3, <3>1, <3>3, TimedArmed
  <2> QED  BY <2>1, <2>4, <2>5
<1>6. CASE ConnectFails(r)
  <2> DEFINE x == [conn[k] EXCEPT !.sock = IF @ = "new" THEN @ ELSE "down"]
  <2>1. x \in Connection /\ x.stream = conn[k].stream
    BY <1>2 DEF Connection
  <2>2. TellEnd(r, TRUE, "done", [conn EXCEPT ![k] = x], pool)
    <3>1. [conn EXCEPT ![k].sock = IF @ = "new" THEN @ ELSE "down"] = [conn EXCEPT ![k] = x]
      BY <1>2
    <3> QED  BY <1>6, <3>1 DEF ConnectFails
  <2>3. req[r].phase \in OpPhases /\ TRUE \in BOOLEAN
    BY <1>6 DEF ConnectFails, Entered, OpPhases
  <2> HIDE DEF x
  <2> QED  BY <1>2, <2>1, <2>2, <2>3, TimedTellEnd
<1> QED  BY <1>4, <1>5, <1>6

LEMMA TimedHeader ==
  ASSUME IInv, Timed(req, conn), NEW r \in Requests, HeaderHandler(r)
  PROVE  Timed(req, conn)'
<1> DEFINE k == req[r].conn
           x == [conn[k] EXCEPT !.attempt_reconnect = TRUE]
           y == [x EXCEPT !.stream = TRUE]
           c == [conn EXCEPT ![k] = x]
<1>1. req[r].phase = "header" /\ req[r].op = "pending" /\ req[r].phase \in OpPhases
  BY DEF HeaderHandler, Entered, Succeeds, OpPhases
<1>2. k \in Conns /\ conn[k] \in Connection /\ req[r] \in Session /\ Holds(req[r])
  BY <1>1, OpFacts
<1>3. x \in Connection /\ x.sock = conn[k].sock /\ x.stream = conn[k].stream /\ x.timer = conn[k].timer
  BY <1>2 DEF Connection
<1>4. y \in Connection /\ (y.stream = TRUE)
  BY <1>2 DEF Connection
<1>5. [conn EXCEPT ![k].attempt_reconnect = TRUE] = c
  BY <1>2
<1>6. [c EXCEPT ![k].stream = TRUE] = [conn EXCEPT ![k] = y]
  <2>1. c[k] = x
    BY <1>2, ConnTypes
  <2> QED  BY <2>1
<1> HIDE DEF x, y, c
<1>7. \/ \E ec \in BOOLEAN : TellEnd(r, ec, "done", c, pool)
      \/ \E phase \in Answers[r] \ {"events"} : Becomes([req EXCEPT ![r] = Start(@, phase)], c, pool)
      \/ TellEnd(r, FALSE, "events", [c EXCEPT ![k].stream = TRUE], pool)
  BY <1>5 DEF HeaderHandler
<1>8. CASE \E ec \in BOOLEAN : TellEnd(r, ec, "done", c, pool)
  BY <1>1, <1>3, <1>8, TimedTellEnd DEF c
<1>9. CASE \E phase \in Answers[r] \ {"events"} : Becomes([req EXCEPT ![r] = Start(@, phase)], c, pool)
  <2>1. PICK phase \in OpPhases : Becomes([req EXCEPT ![r] = Start(req[r], phase)], c, pool)
    <3>1. Answers[r] \subseteq OpPhases
      BY ClientAssumption DEF ReplyPhases, OpPhases
    <3> QED  BY <1>9, <3>1
  <2> DEFINE s == Start(req[r], phase)
  <2>2. s \in Session /\ s.phase = phase /\ s.op = "pending" /\ s.conn = k
    BY <1>2, StartFields
  <2>3. Becomes([req EXCEPT ![r] = s], [conn EXCEPT ![k] = x], pool)
    BY <2>1 DEF c
  <2> HIDE DEF s
  <2>4. Ready(s)
    BY <1>2, <2>2 DEF Ready
  <2>5. TimedOk(s, x)
    <3>1. TimedOk(req[r], conn[k])
      BY <1>2 DEF Timed
    <3> QED  BY <1>1, <1>3, <2>2, <3>1 DEF TimedOk, Waits
  <2> QED  BY <1>2, <1>3, <2>2, <2>3, <2>4, <2>5, TimedOwn
<1>10. CASE TellEnd(r, FALSE, "events", [c EXCEPT ![k].stream = TRUE], pool)
  <2>1. TellEnd(r, FALSE, "events", [conn EXCEPT ![k] = y], pool)
    BY <1>6, <1>10
  <2>2. "events" \in ReplyPhases \cup {"done"} /\ FALSE \in BOOLEAN
    BY DEF ReplyPhases
  <2> QED  BY <1>1, <1>4, <2>1, <2>2, TimedTellEnd
<1> QED  BY <1>7, <1>8, <1>9, <1>10

LEMMA TimedContent ==
  ASSUME IInv, Timed(req, conn), NEW r \in Requests,
         \/ WriteHandler(r) \/ BodyHandler(r) \/ UntilHandler(r) \/ UntilEnds(r) \/ SizeHandler(r)
         \/ ChunkHandler(r) \/ EventHandler(r) \/ ContentFails(r) \/ FirstFailure(r) \/ BufferFull(r)
  PROVE  Timed(req, conn)'
<1>1. req[r].phase \in OpPhases
  BY DEF WriteHandler, BodyHandler, UntilHandler, UntilEnds, SizeHandler, ChunkHandler, EventHandler,
         ContentFails, FirstFailure, BufferFull, Entered, ReplyPhases, OpPhases
<1>2. ASSUME NEW ec \in BOOLEAN, NEW p, TellEnd(r, ec, "done", conn, p) PROVE Timed(req, conn)'
  BY <1>1, <1>2, TimedEnd
<1>3. ASSUME NEW next \in ReplyPhases, NEW p, req[r].op # "none", TellMore(r, next, p) PROVE Timed(req, conn)'
  BY <1>1, <1>3, TimedMore
<1>4. ASSUME NEW phase \in OpPhases, req[r].op = "pending", ReadNext(r, phase) PROVE Timed(req, conn)'
  BY <1>4, TimedRead
<1>5. /\ {"body", "until", "size", "chunk", "crlf", "events"} = ReplyPhases
      /\ ReplyPhases \subseteq OpPhases /\ "header" \in OpPhases /\ TRUE \in BOOLEAN /\ FALSE \in BOOLEAN
  BY DEF ReplyPhases, OpPhases
<1>6. CASE WriteHandler(r)
  BY <1>4, <1>5, <1>6 DEF WriteHandler, Succeeds
<1>7. CASE BodyHandler(r)
  BY <1>2, <1>3, <1>5, <1>7 DEF BodyHandler, Succeeds
<1>8. CASE UntilHandler(r)
  <2>1. req[r].op # "none"
    BY <1>8 DEF UntilHandler, Succeeds, FailsWith
  <2> QED  BY <1>3, <1>5, <1>8, <2>1 DEF UntilHandler
<1>9. CASE UntilEnds(r)
  BY <1>2, <1>5, <1>9 DEF UntilEnds, TellError
<1>10. CASE SizeHandler(r)
  <2>1. req[r].op = "pending"
    BY <1>10 DEF SizeHandler, Succeeds
  <2>2. ASSUME NEW next \in {"chunk", "crlf", "size"}, ReadNext(r, next) \/ TellMore(r, next, pool)
        PROVE  Timed(req, conn)'
    BY <1>3, <1>4, <1>5, <2>1, <2>2
  <2>3. ASSUME NEW ec \in BOOLEAN, TellEnd(r, ec, "done", conn, pool) PROVE Timed(req, conn)'
    BY <1>2, <2>3
  <2> QED  BY <1>10, <2>2, <2>3 DEF SizeHandler
<1>11. CASE ChunkHandler(r)
  <2>1. PICK next \in {"crlf", "size"} : ReadNext(r, next)
    BY <1>11 DEF ChunkHandler
  <2>2. req[r].op = "pending"
    BY <1>11 DEF ChunkHandler, Succeeds
  <2> QED  BY <1>4, <1>5, <2>1, <2>2
<1>12. CASE EventHandler(r)
  BY <1>3, <1>5, <1>12 DEF EventHandler, Succeeds
<1>13. CASE ContentFails(r)
  BY <1>2, <1>5, <1>13 DEF ContentFails, TellError
<1>14. ASSUME TellError(r) PROVE Timed(req, conn)'
  BY <1>2, <1>5, <1>14 DEF TellError
<1>15. CASE FirstFailure(r)
  BY <1>14, <1>15, TimedRetry DEF FirstFailure, Entered
<1>16. CASE BufferFull(r)
  BY <1>14, <1>16, TimedRetry DEF BufferFull
<1> QED  BY <1>6, <1>7, <1>8, <1>9, <1>10, <1>11, <1>12, <1>13, <1>15, <1>16

LEMMA TimedCalling ==
  ASSUME IInv, Timed(req, conn), NEW r \in Requests, Prune(r)
  PROVE  Timed(req, conn)'
<1>1. /\ req[r].phase = "prune" /\ req[r].phase \in Active /\ req[r] \in Session
      /\ SessionOk(req[r], r, owner) /\ req[r].conn \in Conns
  BY ConnTypes DEF Prune, Active, HandlerPhases
<1>2. PICK p : CallUser(r, p)
  BY DEF Prune
<1> DEFINE s == [req[r] EXCEPT !.phase = "callback", !.told = Told(req[r])]
<1>3. Becomes([req EXCEPT ![r] = s], conn, p)
  BY <1>2 DEF CallUser
<1>4. s \in Session /\ s.phase = "callback" /\ s.op = req[r].op /\ s.conn = req[r].conn /\ s.next = req[r].next
  BY <1>1 DEF Told, Session, Active, HandlerPhases
<1>5. req[r].op = "none"
  BY <1>1, PhaseNames DEF SessionOk, HandlerPhases
<1> HIDE DEF s
<1>6. Ready(s)
  BY <1>1, <1>4, <1>5 DEF Ready
<1>7. TimedOk(s, conn[req[r].conn])
  <2>1. TimedOk(req[r], conn[req[r].conn])
    BY <1>1 DEF Timed
  <2> QED  BY <1>1, <1>4, <1>5, <2>1 DEF TimedOk, Waits
<1> QED  BY <1>1, <1>3, <1>4, <1>6, <1>7, TimedSame

LEMMA TimedReturning ==
  ASSUME IInv, Timed(req, conn), NEW r \in Requests, CallbackReturns(r) \/ SyncCallback(r)
  PROVE  Timed(req, conn)'
<1> DEFINE s == Continued(req[r])
           x == conn[req[r].conn]
<1>1. /\ req[r].phase = "callback" /\ req[r].phase \in Active /\ req[r] \in Session
      /\ SessionOk(req[r], r, owner) /\ req[r].conn \in Conns
  BY ConnTypes DEF CallbackReturns, SyncCallback, Active, HandlerPhases
<1>2. req[r].op = "none" /\ TimedOk(req[r], x)
  BY <1>1, PhaseNames DEF SessionOk, HandlerPhases, Timed
<1>3. Ready(s) /\ s.conn = req[r].conn /\ TimedOk(s, x)
  <2>1. CASE req[r].next = "done"
    <3>1. s \in Session /\ s.phase = "done" /\ s.op = "none" /\ s.conn = req[r].conn /\ s.next = "done"
      BY <1>1, <1>2, <2>1 DEF Continued, Session
    <3> HIDE DEF s
    <3>2. Ready(s)
      BY <1>1, <3>1 DEF Ready
    <3> QED  BY <3>1, <3>2, IdleTimed
  <2>2. CASE req[r].next # "done"
    <3>1. req[r].next \in OpPhases
      BY <1>1, <2>2 DEF Session, OpPhases
    <3>2. s = Start(req[r], req[r].next)
      BY <2>2 DEF Continued
    <3>3. s \in Session /\ s.phase \in OpPhases /\ s.op = "pending" /\ s.conn = req[r].conn
      BY <1>1, <3>1, <3>2, StartFields
    <3> HIDE DEF s
    <3>4. Ready(s)
      BY <1>1, <3>3 DEF Ready
    <3>5. TimedOk(s, x)
      BY <1>1, <1>2, <2>2, <3>3 DEF TimedOk, Waits
    <3> QED  BY <3>3, <3>4, <3>5
  <2> QED  BY <2>1, <2>2
<1> HIDE DEF s, x
<1>4. ASSUME NEW u, Ready(u), TimedOk(u, x), NEW caller \in Callers
      PROVE  LET t == [u EXCEPT !.caller = caller] IN Ready(t) /\ TimedOk(t, x) /\ t.conn = u.conn
  <2> DEFINE t == [u EXCEPT !.caller = caller]
  <2>1. t \in Session /\ t.phase = u.phase /\ t.op = u.op /\ t.conn = u.conn /\ t.next = u.next
    BY <1>4 DEF Ready, Session, Callers
  <2> HIDE DEF t
  <2>2. Ready(t) /\ TimedOk(t, x)
    BY <1>4, <2>1 DEF Ready, TimedOk, Waits
  <2> QED  BY <2>1, <2>2 DEF t
<1>5. CASE CallbackReturns(r)
  <2>1. Becomes([req EXCEPT ![r] = s], conn, pool)
    BY <1>5 DEF CallbackReturns, s
  <2> QED  BY <1>1, <1>3, <2>1, TimedSame DEF x
<1>6. CASE SyncCallback(r)
  <2> DEFINE caller ==
        CASE req[r].caller = "thrown" -> "thrown"
          [] req[r].caller \in {"returned", "dangling"} -> "dangling"
          [] req[r].ec -> "thrown"
          [] req[r].next \in {"done", "events"} /\ ~req[r].ec -> "returned"
          [] OTHER -> "collecting"
  <2>1. caller \in Callers /\ "thrown" \in Callers
    BY DEF Callers
  <2>2. \/ Becomes([req EXCEPT ![r] = [s EXCEPT !.caller = caller]], conn, pool)
        \/ CloseAll([req EXCEPT ![r].caller = "thrown"], conn, {req[r].conn}, pool, owner)
    BY <1>6 DEF SyncCallback, s
  <2> HIDE DEF caller
  <2>3. CASE Becomes([req EXCEPT ![r] = [s EXCEPT !.caller = caller]], conn, pool)
    <3> DEFINE t == [s EXCEPT !.caller = caller]
    <3>1. Ready(t) /\ TimedOk(t, x) /\ t.conn = req[r].conn
      BY <1>3, <1>4, <2>1
    <3>2. Becomes([req EXCEPT ![r] = t], conn, pool)
      BY <2>3
    <3> HIDE DEF t
    <3> QED  BY <1>1, <3>1, <3>2, TimedSame DEF x
  <2>4. CASE CloseAll([req EXCEPT ![r].caller = "thrown"], conn, {req[r].conn}, pool, owner)
    <3> DEFINE t == [req[r] EXCEPT !.caller = "thrown"]
               q == [req EXCEPT ![r] = t]
    <3>1. Ready(t) /\ TimedOk(t, x) /\ t.conn = req[r].conn
      BY <1>1, <1>2, <1>4, <2>1, ReadyOk
    <3>2. CloseAll(q, conn, {req[r].conn}, pool, owner)
      BY <2>4
    <3> HIDE DEF t
    <3>3. q[r] = t /\ \A v \in Requests \ {r} : q[v] = req[v]
      BY ConnTypes
    <3> HIDE DEF q
    <3>4. \A v \in Requests : Ready(q[v])
      BY <3>1, <3>3, ConnTypes, ReadyOk
    <3>5. \A v \in Requests : q[v].conn \in Conns \ {req[r].conn} => TimedOk(q[v], conn[q[v].conn])
      BY <3>1, <3>3 DEF Timed
    <3> QED  BY <3>2, <3>4, <3>5, ConnKept, TimedClose
  <2> QED  BY <2>2, <2>3, <2>4
<1> QED  BY <1>5, <1>6

LEMMA TimedDropping ==
  ASSUME IInv, Timed(req, conn), NEW r \in Requests, DroppedHandler(r)
  PROVE  Timed(req, conn)'
<1> DEFINE k == req[r].conn
           t == [req[r] EXCEPT !.phase = "dropped", !.op = "none"]
           x == IF req[r].phase \in ConnectPhases THEN CancelTimer(conn[k]) ELSE conn[k]
<1>1. /\ req[r].phase \in OpPhases
      /\ Becomes([req EXCEPT ![r] = t], [conn EXCEPT ![k] = x], pool)
  BY DEF DroppedHandler
<1>2. k \in Conns /\ conn[k] \in Connection /\ req[r] \in Session /\ Holds(req[r])
  BY <1>1, OpFacts
<1>3. t \in Session /\ t.phase = "dropped" /\ t.op = "none" /\ t.conn = k
  BY <1>2 DEF Session
<1>4. x.stream = conn[k].stream
  BY <1>2, TimerFlags DEF CancelTimer, Flags
<1> HIDE DEF t, x
<1>5. Ready(t)
  BY <1>2, <1>3 DEF Ready
<1>6. TimedOk(t, x)
  BY <1>3, <1>5, PhaseNames, IdleTimed
<1> QED  BY <1>1, <1>2, <1>3, <1>4, <1>5, <1>6, TimedOwn

LEMMA TimedNetwork ==
  ASSUME IInv, Timed(req, conn), NEW k \in Conns, PeerCloses(k) \/ Timer(k)
  PROVE  Timed(req, conn)'
<1>1. conn[k] \in Connection /\ \A r \in Requests : Ready(req[r])
  BY ConnTypes, ReadyOk
<1>2. ASSUME NEW x \in Connection, x.stream = conn[k].stream,
             x.sock = "open" => conn[k].sock = "open",
             conn[k].timer \in {"armed", "due"} => x.timer \in {"armed", "due"},
             Becomes(req, [conn EXCEPT ![k] = x], pool)
      PROVE  Timed(req, conn)'
  <2> DEFINE c == [conn EXCEPT ![k] = x]
  <2>1. c[k] = x /\ \A j \in Conns \ {k} : c[j] = conn[j]
    BY ConnTypes
  <2>2. Leaves(req, c, pool, owner)
    BY <1>2 DEF Becomes
  <2> HIDE DEF c
  <2>3. ASSUME NEW r \in Requests, req[r].conn \in Conns PROVE TimedOk(req[r], c[req[r].conn])
    <3>1. TimedOk(req[r], conn[req[r].conn])
      BY <2>3 DEF Timed
    <3> QED  BY <1>2, <2>1, <2>3, <3>1 DEF TimedOk
  <2> QED  BY <1>1, <2>2, <2>3, LeavesTimed DEF Timed
<1>3. ASSUME NEW x \in Connection, CloseAll(req, [conn EXCEPT ![k] = x], {k}, pool, owner)
      PROVE  Timed(req, conn)'
  <2> DEFINE c == [conn EXCEPT ![k] = x]
  <2>1. c \in [Conns -> Connection] /\ \A j \in Conns \ {k} : c[j] = conn[j]
    BY ConnKept
  <2>2. CloseAll(req, c, {k}, pool, owner)
    BY <1>3
  <2> HIDE DEF c
  <2>3. \A r \in Requests : req[r].conn \in Conns \ {k} => TimedOk(req[r], c[req[r].conn])
    BY <2>1 DEF Timed
  <2> QED  BY <1>1, <2>1, <2>2, <2>3, TimedClose
<1>4. CASE PeerCloses(k)
  <2> DEFINE x == [conn[k] EXCEPT !.sock = "shut"]
  <2>1. Becomes(req, [conn EXCEPT ![k] = x], pool)
    BY <1>4 DEF PeerCloses
  <2>2. x \in Connection /\ x.stream = conn[k].stream /\ x.sock = "shut" /\ x.timer = conn[k].timer
    BY <1>1 DEF Connection
  <2> HIDE DEF x
  <2> QED  BY <1>2, <2>1, <2>2
<1>5. CASE TimerExpires(k)
  <2> DEFINE x == [conn[k] EXCEPT !.timer = "due"]
  <2>1. Becomes(req, [conn EXCEPT ![k] = x], pool)
    BY <1>5 DEF TimerExpires
  <2>2. x \in Connection /\ x.stream = conn[k].stream /\ x.sock = conn[k].sock /\ x.timer = "due"
    BY <1>1 DEF Connection
  <2> HIDE DEF x
  <2> QED  BY <1>2, <2>1, <2>2
<1>6. CASE TimerHandler(k)
  <2>1. CloseAll(req, [conn EXCEPT ![k] = [conn[k] EXCEPT !.timer = "off"]], {k}, pool, owner)
    BY <1>6 DEF TimerHandler
  <2>2. [conn[k] EXCEPT !.timer = "off"] \in Connection
    BY <1>1 DEF Connection
  <2> QED  BY <1>3, <2>1, <2>2
<1>7. CASE StaleTimerHandler(k)
  <2>1. CloseAll(req, [conn EXCEPT ![k] = [conn[k] EXCEPT !.stale = FALSE]], {k}, pool, owner)
    BY <1>7 DEF StaleTimerHandler
  <2>2. [conn[k] EXCEPT !.stale = FALSE] \in Connection
    BY <1>1 DEF Connection
  <2> QED  BY <1>3, <2>1, <2>2
<1> QED  BY <1>4, <1>5, <1>6, <1>7 DEF Timer

LEMMA TimedClosed ==
  ASSUME IInv, Timed(req, conn), NEW ks, NEW p, NEW o, CloseAll(req, conn, ks, p, o)
  PROVE  Timed(req, conn)'
<1>1. \A r \in Requests : Ready(req[r])
  BY ConnTypes, ReadyOk
<1>2. \A r \in Requests : req[r].conn \in Conns \ ks => TimedOk(req[r], conn[req[r].conn])
  BY DEF Timed
<1> QED  BY <1>1, <1>2, ConnKept, TimedClose

LEMMA TimedDestroy ==
  ASSUME IInv, Timed(req, conn), DestroyCloses
  PROVE  Timed(req, conn)'
<1>1. CASE CloseAll(req, conn, pool, {}, "destroyed")
  BY <1>1, TimedClosed
<1>2. CASE Leaves([r \in Requests |-> IF req[r].phase \in OpPhases
                                        THEN [req[r] EXCEPT !.phase = "dropped", !.op = "none"]
                                        ELSE req[r]],
                  conn, {}, "destroyed")
  <2> DEFINE t(r) == [req[r] EXCEPT !.phase = "dropped", !.op = "none"]
             q == [r \in Requests |-> IF req[r].phase \in OpPhases THEN t(r) ELSE req[r]]
  <2>1. Leaves(q, conn, {}, "destroyed")
    BY <1>2
  <2>2. \A r \in Requests : q[r] = IF req[r].phase \in OpPhases THEN t(r) ELSE req[r]
    OBVIOUS
  <2>3. ASSUME NEW r \in Requests PROVE Ready(q[r]) /\ (q[r].conn \in Conns => TimedOk(q[r], conn[q[r].conn]))
    <3>1. Ready(req[r]) /\ req[r] \in Session
      BY ConnTypes, ReadyOk
    <3>2. CASE req[r].phase \notin OpPhases
      BY <2>2, <3>1, <3>2 DEF Timed
    <3>3. CASE req[r].phase \in OpPhases
      <4>1. t(r) \in Session /\ t(r).phase = "dropped" /\ t(r).op = "none"
        BY <3>1 DEF Session
      <4>2. q[r] = t(r)
        BY <2>2, <3>3
      <4> HIDE DEF t, q
      <4>3. Ready(t(r))
        BY <4>1, PhaseNames DEF Ready
      <4> QED  BY <4>1, <4>2, <4>3, PhaseNames, IdleTimed
    <3> QED  BY <3>2, <3>3
  <2> HIDE DEF q
  <2> QED  BY <2>1, <2>3, LeavesTimed DEF Timed
<1> QED  BY <1>1, <1>2 DEF DestroyCloses

\* The settings never change.
LEMMA ConfigStays == [Next]_vars => config' = config
<1>1. ASSUME NEW q, NEW c, NEW p, NEW o, Leaves(q, c, p, o) PROVE config' = config
  BY <1>1 DEF Leaves
<1>2. ASSUME NEW q, NEW c, NEW p, Becomes(q, c, p) PROVE config' = config
  BY <1>1, <1>2 DEF Becomes
<1>3. ASSUME NEW q, NEW c, NEW ks, NEW p, NEW o, CloseAll(q, c, ks, p, o) PROVE config' = config
  BY <1>1, <1>3 DEF CloseAll
<1>4. ASSUME NEW r, NEW ec, NEW next, NEW c, NEW p, TellEnd(r, ec, next, c, p) PROVE config' = config
  BY <1>2, <1>4 DEF TellEnd
<1>5. ASSUME NEW r, TellError(r) PROVE config' = config
  BY <1>4, <1>5 DEF TellError
<1>6. ASSUME NEW r, NEW next, NEW p, TellMore(r, next, p) PROVE config' = config
  BY <1>2, <1>6 DEF TellMore
<1>7. ASSUME NEW r, NEW next, ReadNext(r, next) PROVE config' = config
  BY <1>2, <1>7 DEF ReadNext
<1>8. ASSUME NEW r, NEW k, NEW c, Write(r, k, c) PROVE config' = config
  BY <1>2, <1>8 DEF Write
<1>9. ASSUME NEW r, Retry(r) PROVE config' = config
  BY <1>2, <1>5, <1>9 DEF Retry, Reconnect
<1>10. ASSUME NEW r \in Requests, GetConnection(r) \/ Inside(r) \/ CloseResponse(r) \/ DroppedHandler(r)
       PROVE  config' = config
  BY <1>2, <1>3, <1>8, <1>10
     DEF GetConnection, Inside, Connect, Prune, CallUser, CallbackReturns, SyncCallback, CloseResponse, DroppedHandler
<1>11. ASSUME NEW r \in Requests, Success(r) PROVE config' = config
  <2>1. ConnectHandler(r) => config' = config
    BY <1>2, <1>8 DEF ConnectHandler
  <2>2. WriteHandler(r) \/ ChunkHandler(r) \/ EventHandler(r) \/ UntilHandler(r) => config' = config
    BY <1>6, <1>7 DEF WriteHandler, ChunkHandler, EventHandler, UntilHandler
  <2>3. HeaderHandler(r) => config' = config
    BY <1>2, <1>4 DEF HeaderHandler
  <2>4. BodyHandler(r) \/ SizeHandler(r) => config' = config
    BY <1>4, <1>6, <1>7 DEF BodyHandler, SizeHandler
  <2> QED  BY <1>11, <2>1, <2>2, <2>3, <2>4 DEF Success
<1>12. ASSUME NEW r \in Requests, Failure(r) \/ BufferFull(r) PROVE config' = config
  BY <1>4, <1>5, <1>9, <1>12 DEF Failure, BufferFull, ConnectFails, FirstFailure, UntilEnds, ContentFails
<1>13. ASSUME NEW k \in Conns, PeerCloses(k) \/ Timer(k) PROVE config' = config
  BY <1>2, <1>3, <1>13 DEF PeerCloses, Timer, TimerExpires, TimerHandler, StaleTimerHandler
<1>14. Stop \/ DestroyStops \/ DestroyCloses \/ UNCHANGED vars => config' = config
  BY <1>1, <1>3 DEF Stop, DestroyStops, DestroyCloses, vars
<1> QED  BY <1>10, <1>11, <1>12, <1>13, <1>14 DEF Next

TimedInv == IInv /\ (Timeouts => Timed(req, conn))

LEMMA NextTimed == TimedInv /\ [Next]_vars => TimedInv'
<1> SUFFICES ASSUME TimedInv, [Next]_vars, Timeouts PROVE Timed(req, conn)'
  BY NextInv, ConfigStays DEF TimedInv, Timeouts
<1>1. IInv /\ Timed(req, conn)
  BY DEF TimedInv
<1>2. ASSUME NEW r \in Requests, Inside(r) PROVE Timed(req, conn)'
  BY <1>1, <1>2, TimedConnecting, TimedCalling, TimedReturning DEF Inside
<1>3. ASSUME NEW r \in Requests, Success(r) PROVE Timed(req, conn)'
  BY <1>1, <1>3, TimedConnecting, TimedHeader, TimedContent DEF Success
<1>4. ASSUME NEW r \in Requests, Failure(r) \/ BufferFull(r) PROVE Timed(req, conn)'
  BY <1>1, <1>4, TimedConnecting, TimedContent DEF Failure
<1>5. ASSUME NEW r \in Requests, CloseResponse(r) PROVE Timed(req, conn)'
  BY <1>1, <1>5, TimedClosed DEF CloseResponse
<1>6. CASE Stop
  BY <1>1, <1>6, TimedClosed DEF Stop
<1>7. CASE DestroyStops \/ UNCHANGED vars
  <2>1. req' = req /\ conn' = conn
    BY <1>7 DEF DestroyStops, vars
  <2> QED  BY <1>1, <2>1 DEF Timed
<1> QED  BY <1>1, <1>2, <1>3, <1>4, <1>5, <1>6, <1>7, TimedAsked, TimedDropping, TimedNetwork, TimedDestroy
         DEF Next

\* With both timeouts set, whoever waits on an open socket that carries no stream of events does so
\* under a timer that is armed or has just expired, however requests end and hand their connections
\* on (client_http.hpp:168-181, :314-320).  Not whoever waits for the resolver or for connect().
THEOREM NobodyWaitsForever == Spec => []WaitsUnderTimer
<1>1. Init => TimedInv
  <2> SUFFICES ASSUME Init PROVE Timed(req, conn)
    BY InitInv DEF TimedInv
  <2>1. \A r \in Requests : req[r].conn = NoConn
    BY DEF Init, NotAsked
  <2> QED  BY <2>1, ClientAssumption DEF Timed, Conns
<1>2. TimedInv => WaitsUnderTimer
  <2> SUFFICES ASSUME IInv, Timed(req, conn), NEW r \in Requests, req[r].op = "pending",
                      conn[req[r].conn].sock = "open", ~conn[req[r].conn].stream
               PROVE  conn[req[r].conn].timer \in {"armed", "due"}
    BY DEF TimedInv, Timeouts, WaitsUnderTimer
  <2>1. Ready(req[r]) /\ Waits(req[r])
    BY ConnTypes, ReadyOk DEF Waits
  <2>2. TimedOk(req[r], conn[req[r].conn])
    BY <2>1, WaitingHolds DEF Timed
  <2> QED  BY <2>1, <2>2 DEF TimedOk
<1> QED  BY <1>1, <1>2, NextTimed, PTL DEF Spec

-----------------------------------------------------------------------------
(* The pool keeps one unused connection, and one for every request that has to prune it *)

UnusedOf(c, p) == {k \in p : ~c[k].in_use}
PruningOf(q) == {r \in Requests : q[r].phase = "prune"}
FewUnused(q, c, p) == Cardinality(UnusedOf(c, p)) <= 1 + Cardinality(PruningOf(q))

LEMMA FiniteConns ==
  ASSUME IsFiniteSet(Requests)
  PROVE  IsFiniteSet(Conns)
<1>1. {1, 2} = {1} \cup {2} /\ IsFiniteSet({1})
  BY FS_Singleton
<1>2. IsFiniteSet({1, 2})
  BY <1>1, FS_AddElement
<1> QED  BY <1>2, FS_Product DEF Conns

LEMMA FiniteFew ==
  ASSUME IsFiniteSet(Requests), NEW q, NEW c, NEW p \in SUBSET Conns
  PROVE  /\ IsFiniteSet(UnusedOf(c, p)) /\ Cardinality(UnusedOf(c, p)) \in Nat
         /\ IsFiniteSet(PruningOf(q)) /\ Cardinality(PruningOf(q)) \in Nat
<1>1. UnusedOf(c, p) \in SUBSET Conns /\ PruningOf(q) \in SUBSET Requests
  BY DEF UnusedOf, PruningOf
<1>2. IsFiniteSet(UnusedOf(c, p)) /\ IsFiniteSet(PruningOf(q))
  BY <1>1, FiniteConns, FS_Subset
<1> QED  BY <1>2, FS_CardinalityType

LEMMA LeavesFew ==
  ASSUME NEW q, NEW c, NEW p \in SUBSET Conns, NEW o, \A r \in Requests : q[r] \in Session,
         Leaves(q, c, p, o)
  PROVE  UnusedOf(conn, pool)' = UnusedOf(c, p) /\ PruningOf(req)' = PruningOf(q)
<1> DEFINE kept == p \cup {q[r].conn : r \in {s \in Requests : q[s].phase \in Active}}
<1>1. /\ pool' = p /\ conn' = [k \in Conns |-> IF k \in kept THEN c[k] ELSE NoObject]
      /\ req' = [r \in Requests |-> [q[r] EXCEPT !.conn = IF @ \in kept THEN @ ELSE NoConn]]
  BY DEF Leaves
<1>2. p \subseteq kept
  OBVIOUS
<1> HIDE DEF kept
<1>3. \A k \in p : conn'[k] = c[k]
  BY <1>1, <1>2
<1>4. \A r \in Requests : req'[r].phase = q[r].phase
  BY <1>1 DEF Session
<1> QED  BY <1>1, <1>3, <1>4 DEF UnusedOf, PruningOf

\* No more are unused, and no fewer requests have to prune.
LEMMA FewStep ==
  ASSUME IsFiniteSet(Requests), IInv, FewUnused(req, conn, pool),
         NEW q, NEW c, NEW p \in SUBSET Conns, NEW o, \A r \in Requests : q[r] \in Session,
         Leaves(q, c, p, o),
         UnusedOf(c, p) \subseteq UnusedOf(conn, pool), PruningOf(req) \subseteq PruningOf(q)
  PROVE  FewUnused(req, conn, pool)'
<1>1. UnusedOf(conn, pool)' = UnusedOf(c, p) /\ PruningOf(req)' = PruningOf(q)
  BY LeavesFew
<1>2. /\ IsFiniteSet(UnusedOf(conn, pool)) /\ Cardinality(UnusedOf(conn, pool)) \in Nat
      /\ Cardinality(PruningOf(req)) \in Nat
      /\ Cardinality(UnusedOf(c, p)) \in Nat /\ IsFiniteSet(PruningOf(q)) /\ Cardinality(PruningOf(q)) \in Nat
  BY ConnTypes, FiniteFew
<1>3. Cardinality(UnusedOf(c, p)) <= Cardinality(UnusedOf(conn, pool))
  BY <1>2, FS_Subset
<1>4. Cardinality(PruningOf(req)) <= Cardinality(PruningOf(q))
  BY <1>2, FS_Subset
<1> QED  BY <1>1, <1>2, <1>3, <1>4 DEF FewUnused

\* The chain of r, which does not have to prune, goes on; its connection is in use as it was.
LEMMA FewOwn ==
  ASSUME IsFiniteSet(Requests), IInv, FewUnused(req, conn, pool),
         NEW r \in Requests, req[r].phase # "prune", NEW s \in Session,
         NEW k, NEW x, k \in Conns => x.in_use = conn[k].in_use, NEW p \in SUBSET pool,
         Becomes([req EXCEPT ![r] = s], [conn EXCEPT ![k] = x], p)
  PROVE  FewUnused(req, conn, pool)'
<1> DEFINE q == [req EXCEPT ![r] = s]
           c == [conn EXCEPT ![k] = x]
<1>1. q[r] = s /\ \A v \in Requests \ {r} : q[v] = req[v]
  BY ConnTypes
<1>2. \A j \in Conns : c[j] = IF j = k THEN x ELSE conn[j]
  BY ConnTypes
<1>3. Leaves(q, c, p, owner)
  BY DEF Becomes
<1> HIDE DEF q, c
<1>4. p \in SUBSET Conns
  BY ConnTypes
<1>5. UnusedOf(c, p) \subseteq UnusedOf(conn, pool)
  BY <1>2, <1>4 DEF UnusedOf
<1>6. PruningOf(req) \subseteq PruningOf(q)
  BY <1>1 DEF PruningOf
<1>7. \A v \in Requests : q[v] \in Session
  BY <1>1, ConnTypes
<1> QED  BY <1>3, <1>4, <1>5, <1>6, <1>7, FewStep

LEMMA FewSame ==
  ASSUME IsFiniteSet(Requests), IInv, FewUnused(req, conn, pool),
         NEW r \in Requests, req[r].phase # "prune", NEW s \in Session, NEW p \in SUBSET pool,
         Becomes([req EXCEPT ![r] = s], conn, p)
  PROVE  FewUnused(req, conn, pool)'
<1> DEFINE q == [req EXCEPT ![r] = s]
<1>1. q[r] = s /\ \A v \in Requests \ {r} : q[v] = req[v]
  BY ConnTypes
<1>2. Leaves(q, conn, p, owner)
  BY DEF Becomes
<1> HIDE DEF q
<1>3. p \in SUBSET Conns /\ \A v \in Requests : q[v] \in Session
  BY <1>1, ConnTypes
<1>4. UnusedOf(conn, p) \subseteq UnusedOf(conn, pool) /\ PruningOf(req) \subseteq PruningOf(q)
  BY <1>1 DEF UnusedOf, PruningOf
<1> QED  BY <1>2, <1>3, <1>4, FewStep

\* A connection is freed by a request that has to prune the pool next.
LEMMA FewEnd ==
  ASSUME IsFiniteSet(Requests), IInv, FewUnused(req, conn, pool),
         NEW r \in Requests, req[r].phase \in OpPhases, NEW ec \in BOOLEAN,
         NEW next \in ReplyPhases \cup {"done"}, NEW p \in SUBSET pool, NEW c,
         \A j \in Conns \ {req[r].conn} : c[j] = conn[j], TellEnd(r, ec, next, c, p)
  PROVE  FewUnused(req, conn, pool)'
<1> DEFINE k == req[r].conn
           s == Telling(req[r], ec, next)
           q == [req EXCEPT ![r] = s]
           d == [c EXCEPT ![k] = [CancelTimer(@) EXCEPT !.in_use = FALSE]]
<1>1. req[r] \in Session /\ req[r].phase # "prune" /\ p \in SUBSET Conns
  BY OpFacts, ConnTypes, PhaseNames DEF HandlerPhases
<1>2. s \in Session /\ s.phase = "prune"
  BY <1>1, TellingFields
<1>3. Leaves(q, d, p, owner)
  BY DEF TellEnd, Becomes
<1>4. \A j \in Conns \ {k} : d[j] = conn[j]
  OBVIOUS
<1> HIDE DEF s, d
<1>5. q[r] = s /\ \A v \in Requests \ {r} : q[v] = req[v]
  BY ConnTypes
<1> HIDE DEF q
<1>6. \A v \in Requests : q[v] \in Session
  BY <1>2, <1>5, ConnTypes
<1>7. UnusedOf(conn, pool)' = UnusedOf(d, p) /\ PruningOf(req)' = PruningOf(q)
  BY <1>1, <1>3, <1>6, LeavesFew
<1>8. /\ IsFiniteSet(UnusedOf(conn, pool)) /\ Cardinality(UnusedOf(conn, pool)) \in Nat
      /\ IsFiniteSet(PruningOf(req)) /\ Cardinality(PruningOf(req)) \in Nat
      /\ IsFiniteSet(UnusedOf(d, p)) /\ Cardinality(UnusedOf(d, p)) \in Nat
      /\ IsFiniteSet(PruningOf(q)) /\ Cardinality(PruningOf(q)) \in Nat
  BY <1>1, ConnTypes, FiniteFew
<1>9. UnusedOf(d, p) \subseteq UnusedOf(conn, pool) \cup {k}
  BY <1>1, <1>4 DEF UnusedOf
<1>10. PruningOf(q) = PruningOf(req) \cup {r} /\ r \notin PruningOf(req)
  BY <1>1, <1>2, <1>5 DEF PruningOf
<1> HIDE DEF k
<1>11. /\ IsFiniteSet(UnusedOf(conn, pool) \cup {k})
       /\ Cardinality(UnusedOf(conn, pool) \cup {k}) <= Cardinality(UnusedOf(conn, pool)) + 1
       /\ Cardinality(UnusedOf(conn, pool) \cup {k}) \in Nat
  <2> DEFINE U == UnusedOf(conn, pool)
  <2>1. IsFiniteSet(U) /\ Cardinality(U) \in Nat
    BY <1>8
  <2> HIDE DEF U
  <2>2. /\ IsFiniteSet(U \cup {k})
        /\ Cardinality(U \cup {k}) = IF k \in U THEN Cardinality(U) ELSE Cardinality(U) + 1
    BY <2>1, FS_AddElement
  <2> QED  BY <2>1, <2>2 DEF U
<1>12. Cardinality(UnusedOf(d, p)) <= Cardinality(UnusedOf(conn, pool) \cup {k})
  BY <1>9, <1>11, FS_Subset
<1>13. Cardinality(PruningOf(q)) = Cardinality(PruningOf(req)) + 1
  BY <1>8, <1>10, FS_AddElement
<1> QED  BY <1>7, <1>8, <1>11, <1>12, <1>13 DEF FewUnused

LEMMA FewClose ==
  ASSUME IsFiniteSet(Requests), IInv, FewUnused(req, conn, pool),
         NEW q, NEW c \in [Conns -> Connection], NEW ks, NEW p \in SUBSET pool, NEW o,
         \A r \in Requests : q[r] \in Session /\ q[r].phase = req[r].phase,
         \A k \in Conns : Flags(conn[k], c[k]), CloseAll(q, c, ks, p, o)
  PROVE  FewUnused(req, conn, pool)'
<1> DEFINE cut == {r \in Requests : /\ q[r].conn \in ks /\ q[r].op = "pending"
                                    /\ c[q[r].conn].sock \in {"open", "shut", "down"}}
           ended(aborted) ==
             [r \in Requests |-> IF r \notin cut THEN q[r]
                ELSE [q[r] EXCEPT !.op = IF r \in aborted THEN "aborted" ELSE "failed"]]
           closed == [k \in Conns |-> IF k \in ks THEN Closed(c[k]) ELSE c[k]]
<1>1. PICK aborted \in SUBSET cut : Leaves(ended(aborted), closed, p, o)
  BY DEF CloseAll
<1>2. \A k \in Conns : closed[k].in_use = conn[k].in_use
  BY ClosedFlags DEF Flags
<1> HIDE DEF closed, cut
<1>3. \A r \in Requests : ended(aborted)[r] \in Session /\ ended(aborted)[r].phase = req[r].phase
  BY DEF Session
<1> HIDE DEF ended
<1>4. p \in SUBSET Conns
  BY ConnTypes
<1>5. UnusedOf(closed, p) \subseteq UnusedOf(conn, pool) /\ PruningOf(req) \subseteq PruningOf(ended(aborted))
  BY <1>2, <1>3, <1>4 DEF UnusedOf, PruningOf
<1> QED  BY <1>1, <1>3, <1>4, <1>5, FewStep

LEMMA FewClosed ==
  ASSUME IsFiniteSet(Requests), IInv, FewUnused(req, conn, pool),
         NEW ks, NEW p \in SUBSET pool, NEW o, CloseAll(req, conn, ks, p, o)
  PROVE  FewUnused(req, conn, pool)'
BY ConnKept, ConnTypes, FewClose

LEMMA FewAsked ==
  ASSUME IsFiniteSet(Requests), IInv, FewUnused(req, conn, pool), NEW r \in Requests, GetConnection(r)
  PROVE  FewUnused(req, conn, pool)'
<1> DEFINE unused == {k \in pool : ~conn[k].in_use}
           caller == IF config.sync THEN "waiting" ELSE req[r].caller
<1>1. PICK k \in IF unused # {} THEN unused ELSE {First(r)} :
        Becomes([req EXCEPT ![r] = [req[r] EXCEPT !.phase = "start", !.conn = k, !.told = "asked",
                                      !.caller = caller]],
                [conn EXCEPT ![k] = [(IF k \in unused THEN conn[k] ELSE NewConn) EXCEPT
                                       !.in_use = TRUE, !.attempt_reconnect = TRUE]],
                pool \cup {k})
  BY DEF GetConnection
<1> DEFINE old == IF k \in unused THEN conn[k] ELSE NewConn
           x == [old EXCEPT !.in_use = TRUE, !.attempt_reconnect = TRUE]
           s == [req[r] EXCEPT !.phase = "start", !.conn = k, !.told = "asked", !.caller = caller]
           q == [req EXCEPT ![r] = s]
           c == [conn EXCEPT ![k] = x]
<1>2. req[r].phase = "idle" /\ req[r] \in Session /\ k \in Conns /\ pool \subseteq Conns
  BY ConnTypes DEF GetConnection, Conns, First
<1>3. s \in Session
  <2>1. caller \in Callers
    BY <1>2 DEF Session, Callers
  <2> HIDE DEF caller
  <2> QED  BY <1>2, <2>1 DEF Session, Active, HandlerPhases, Callers
<1>4. x.in_use = TRUE
  <2>1. old \in Connection
    BY <1>2, ConnTypes DEF NewConn, Connection
  <2> HIDE DEF old
  <2> QED  BY <2>1 DEF Connection
<1>5. Leaves(q, c, pool \cup {k}, owner)
  BY <1>1 DEF Becomes
<1> HIDE DEF s, x
<1>6. /\ q[r] = s /\ \A v \in Requests \ {r} : q[v] = req[v]
      /\ c[k] = x /\ \A j \in Conns \ {k} : c[j] = conn[j]
  BY <1>2, ConnTypes
<1> HIDE DEF q, c
<1>7. UnusedOf(c, pool \cup {k}) \subseteq UnusedOf(conn, pool)
  BY <1>2, <1>4, <1>6 DEF UnusedOf
<1>8. PruningOf(req) \subseteq PruningOf(q)
  BY <1>2, <1>6 DEF PruningOf
<1>9. pool \cup {k} \in SUBSET Conns /\ \A v \in Requests : q[v] \in Session
  BY <1>2, <1>3, <1>6, ConnTypes
<1> QED  BY <1>5, <1>7, <1>8, <1>9, FewStep

LEMMA FewError ==
  ASSUME IsFiniteSet(Requests), IInv, FewUnused(req, conn, pool), NEW r \in Requests,
         req[r].phase \in OpPhases, TellError(r)
  PROVE  FewUnused(req, conn, pool)'
<1>1. TellEnd(r, TRUE, "done", conn, pool) /\ TRUE \in BOOLEAN
  BY DEF TellError
<1> QED  BY <1>1, FewEnd

LEMMA FewRetry ==
  ASSUME IsFiniteSet(Requests), IInv, FewUnused(req, conn, pool), NEW r \in Requests,
         req[r].phase \in {"write", "header"}, Retry(r)
  PROVE  FewUnused(req, conn, pool)'
<1> DEFINE k == req[r].conn
           n == Second(r)
<1>1. req[r].phase \in OpPhases /\ req[r].phase # "prune" /\ n \in Conns /\ req[r] \in Session
      /\ pool \subseteq Conns
  BY ConnTypes DEF OpPhases, Conns, Second
<1>2. CASE TellError(r)
  BY <1>1, <1>2, FewError
<1>3. CASE ~TellError(r)
  <2> DEFINE s == [req[r] EXCEPT !.phase = "start", !.op = "none", !.conn = n]
             x == [NewConn EXCEPT !.in_use = TRUE, !.attempt_reconnect = FALSE]
             q == [req EXCEPT ![r] = s]
             c == [conn EXCEPT ![n] = x]
             p == (pool \ {k}) \cup {n}
  <2>1. Leaves(q, c, p, owner)
    BY <1>3 DEF Retry, Reconnect, Becomes
  <2>2. s \in Session
    BY <1>1 DEF Session, Active, HandlerPhases
  <2>3. x.in_use = TRUE
    BY DEF NewConn
  <2> HIDE DEF s, x, n
  <2>4. q[r] = s /\ \A v \in Requests \ {r} : q[v] = req[v]
    BY ConnTypes
  <2>5. \A j \in Conns : c[j] = IF j = n THEN x ELSE conn[j]
    BY ConnTypes
  <2> HIDE DEF q, c
  <2>6. UnusedOf(c, p) \subseteq UnusedOf(conn, pool)
    BY <1>1, <2>3, <2>5 DEF UnusedOf
  <2>7. PruningOf(req) \subseteq PruningOf(q)
    BY <1>1, <2>4 DEF PruningOf
  <2>8. p \in SUBSET Conns /\ \A v \in Requests : q[v] \in Session
    BY <1>1, <2>2, <2>4, ConnTypes
  <2> HIDE DEF p
  <2> QED  BY <2>1, <2>6, <2>7, <2>8, FewStep
<1> QED  BY <1>2, <1>3

LEMMA FewMore ==
  ASSUME IsFiniteSet(Requests), IInv, FewUnused(req, conn, pool), NEW r \in Requests,
         req[r].phase \in OpPhases, NEW next \in ReplyPhases, NEW p \in SUBSET pool, TellMore(r, next, p)
  PROVE  FewUnused(req, conn, pool)'
<1>1. req[r] \in Session /\ req[r].phase # "prune" /\ FALSE \in BOOLEAN
  BY OpFacts, PhaseNames DEF HandlerPhases
<1>2. Telling(req[r], FALSE, next) \in Session
  BY <1>1, TellingFields
<1>3. Becomes([req EXCEPT ![r] = Telling(req[r], FALSE, next)], conn, p)
  BY DEF TellMore
<1> QED  BY <1>1, <1>2, <1>3, FewSame

LEMMA FewRead ==
  ASSUME IsFiniteSet(Requests), IInv, FewUnused(req, conn, pool), NEW r \in Requests,
         req[r].phase \in OpPhases, NEW phase \in OpPhases, ReadNext(r, phase)
  PROVE  FewUnused(req, conn, pool)'
<1>1. req[r] \in Session /\ req[r].phase # "prune"
  BY OpFacts, PhaseNames DEF HandlerPhases
<1>2. Start(req[r], phase) \in Session
  BY <1>1, StartFields
<1>3. Becomes([req EXCEPT ![r] = Start(req[r], phase)], conn, pool)
  BY DEF ReadNext
<1> QED  BY <1>1, <1>2, <1>3, FewSame

\* What remains unused when a request has pruned the pool.
LEMMA FewPruned ==
  ASSUME IsFiniteSet(Requests), IInv, FewUnused(req, conn, pool), NEW r \in Requests, Prune(r)
  PROVE  FewUnused(req, conn, pool)'
<1> DEFINE left == IF req[r].ec THEN pool \ {req[r].conn} ELSE pool
           unused == {k \in left : ~conn[k].in_use}
           s == [req[r] EXCEPT !.phase = "callback", !.told = Told(req[r])]
           q == [req EXCEPT ![r] = s]
<1>1. left \subseteq Conns /\ req[r] \in Session
  BY ConnTypes
<1>2. PICK p \in SUBSET Conns : CallUser(r, p) /\ (UnusedOf(conn, p) = {} \/ \E k : UnusedOf(conn, p) = {k})
  <2>1. CASE unused = {} /\ CallUser(r, left)
    <3>1. UnusedOf(conn, left) = {}
      BY <2>1 DEF UnusedOf
    <3> QED  BY <1>1, <2>1, <3>1
  <2>2. CASE \E k \in unused : CallUser(r, (left \ unused) \cup {k})
    <3>1. PICK k \in unused : CallUser(r, (left \ unused) \cup {k})
      BY <2>2
    <3>2. UnusedOf(conn, (left \ unused) \cup {k}) = {k}
      BY DEF UnusedOf
    <3> QED  BY <1>1, <3>1, <3>2
  <2> QED  BY <2>1, <2>2 DEF Prune
<1>3. Leaves(q, conn, p, owner)
  BY <1>2 DEF CallUser, Becomes
<1>4. s \in Session
  BY <1>1 DEF Told, Session, Active, HandlerPhases
<1> HIDE DEF s
<1>5. \A v \in Requests : q[v] \in Session
  BY <1>4, ConnTypes
<1> HIDE DEF q
<1>6. UnusedOf(conn, pool)' = UnusedOf(conn, p) /\ PruningOf(req)' = PruningOf(q)
  BY <1>2, <1>3, <1>5, LeavesFew
<1>7. Cardinality(UnusedOf(conn, p)) <= 1
  <2>1. CASE UnusedOf(conn, p) = {}
    BY <2>1, FS_EmptySet
  <2>2. CASE \E k : UnusedOf(conn, p) = {k}
    <3>1. PICK k : UnusedOf(conn, p) = {k}
      BY <2>2
    <3>2. Cardinality({k}) = 1
      BY FS_Singleton
    <3> QED  BY <3>1, <3>2
  <2> QED  BY <1>2, <2>1, <2>2
<1>8. Cardinality(PruningOf(q)) \in Nat /\ Cardinality(UnusedOf(conn, p)) \in Nat
  BY <1>2, FiniteFew
<1> QED  BY <1>6, <1>7, <1>8 DEF FewUnused

LEMMA FewWrite ==
  ASSUME IsFiniteSet(Requests), IInv, FewUnused(req, conn, pool),
         NEW r \in Requests, req[r].phase \in BeforeWrite,
         NEW k, k = req[r].conn, NEW x, Flags(conn[k], x), Write(r, k, [conn EXCEPT ![k] = x])
  PROVE  FewUnused(req, conn, pool)'
<1> DEFINE s == [Start(req[r], "write") EXCEPT !.sent = @ + 1]
           y == SetTimer(x, config.timeout)
<1>1. "write" \in OpPhases /\ req[r].phase \in OpPhases \cup {"start"} /\ req[r].phase # "prune"
  BY DEF OpPhases, BeforeWrite, ConnectPhases
<1>2. req[r] \in Session /\ k \in Conns /\ SessionOk(req[r], r, owner)
  BY <1>1, OpFacts
<1>3. s \in Session
  <2>1. Start(req[r], "write") \in Session /\ Start(req[r], "write").sent = req[r].sent
    BY <1>1, <1>2, StartFields
  <2>2. req[r].sent + 1 \in 0..2
    BY <1>2 DEF SessionOk
  <2> QED  BY <2>1, <2>2 DEF Session
<1>4. y.in_use = conn[k].in_use
  BY TimerFlags, ConnTypes DEF Flags
<1>5. Becomes([req EXCEPT ![r] = s], [conn EXCEPT ![k] = y], pool)
  <2>1. [conn EXCEPT ![k] = x][k] = x
    BY <1>2, ConnTypes
  <2>2. [[conn EXCEPT ![k] = x] EXCEPT ![k] = SetTimer([conn EXCEPT ![k] = x][k], config.timeout)]
          = [conn EXCEPT ![k] = y]
    BY <2>1
  <2>3. Becomes([req EXCEPT ![r] = [Start(req[r], "write") EXCEPT !.sent = @ + 1]],
                [[conn EXCEPT ![k] = x] EXCEPT
                   ![k] = SetTimer([conn EXCEPT ![k] = x][k], config.timeout)], pool)
    BY DEF Write
  <2> QED  BY <2>2, <2>3, Zenon
<1> HIDE DEF s, y
<1> QED  BY <1>1, <1>3, <1>4, <1>5, FewOwn

LEMMA FewConnecting ==
  ASSUME IsFiniteSet(Requests), IInv, FewUnused(req, conn, pool), NEW r \in Requests,
         Connect(r) \/ ConnectHandler(r) \/ ConnectFails(r)
  PROVE  FewUnused(req, conn, pool)'
<1> DEFINE k == req[r].conn
<1>1. req[r].phase \in BeforeWrite /\ req[r].phase \in OpPhases \cup {"start"} /\ req[r].phase # "prune"
  BY PhaseNames DEF Connect, ConnectHandler, ConnectFails, Entered, BeforeWrite, OpPhases, ConnectPhases
<1>2. /\ k \in Conns /\ conn[k] \in Connection /\ req[r] \in Session
      /\ conn = [conn EXCEPT ![k] = conn[k]] /\ Flags(conn[k], conn[k])
  BY <1>1, OpFacts, ConnKept
<1>3. ASSUME NEW phase \in ConnectPhases PROVE Start(req[r], phase) \in Session
  <2>1. phase \in OpPhases
    BY DEF OpPhases
  <2> QED  BY <1>2, <2>1, StartFields
<1>4. CASE Connect(r)
  <2>1. CASE Write(r, k, conn)
    <3>1. Write(r, k, [conn EXCEPT ![k] = conn[k]])
      BY <1>2, <2>1
    <3> QED  BY <1>1, <1>2, <3>1, FewWrite
  <2>2. CASE Becomes([req EXCEPT ![r] = Start(@, "resolve")],
                     [conn EXCEPT ![k] = SetTimer(@, config.timeout_connect)], pool)
    <3>1. "resolve" \in ConnectPhases
      BY DEF ConnectPhases
    <3>2. SetTimer(conn[k], config.timeout_connect).in_use = conn[k].in_use
      BY <1>2, TimerFlags, ConnTypes DEF Flags
    <3> QED  BY <1>1, <1>3, <2>2, <3>1, <3>2, FewOwn
  <2> QED  BY <1>4, <2>1, <2>2 DEF Connect
<1>5. CASE ConnectHandler(r)
  <2> DEFINE next == AfterConnect(req[r].phase)
             sock == CASE next = "connect" -> "connecting"
                       [] req[r].phase = "connect" -> "open"
                       [] OTHER -> conn[k].sock
             x == [CancelTimer(conn[k]) EXCEPT !.sock = sock]
             c == [conn EXCEPT ![k] = x]
  <2>1. \/ next = "write" /\ Write(r, k, c)
        \/ /\ next # "write"
           /\ Becomes([req EXCEPT ![r] = Start(@, next)],
                      [c EXCEPT ![k] = SetTimer(@, config.timeout_connect)], pool)
    BY <1>5 DEF ConnectHandler
  <2>2. next \in {"connect", "write", "proxyWrite", "proxyRead", "handshake"}
    <3>1. req[r].phase \in ConnectPhases
      BY <1>5 DEF ConnectHandler, Entered
    <3> QED  BY <3>1 DEF AfterConnect, ConnectPhases
  <2>3. Flags(conn[k], x)
    <3>1. Flags(conn[k], CancelTimer(conn[k])) /\ CancelTimer(conn[k]).sock = conn[k].sock
      BY <1>2, TimerFlags DEF CancelTimer
    <3>2. sock \in {"connecting", "open"} \/ sock = conn[k].sock
      OBVIOUS
    <3> HIDE DEF next
    <3>3. CASE sock \in {"connecting", "open"}
      BY <3>1, <3>3 DEF Flags, Connection
    <3>4. CASE sock = conn[k].sock
      BY <3>1, <3>4 DEF Flags, Connection
    <3> QED  BY <3>2, <3>3, <3>4
  <2> HIDE DEF next, x
  <2>4. CASE next = "write" /\ Write(r, k, c)
    BY <1>1, <2>3, <2>4, FewWrite
  <2>5. CASE /\ next # "write"
             /\ Becomes([req EXCEPT ![r] = Start(@, next)],
                        [c EXCEPT ![k] = SetTimer(@, config.timeout_connect)], pool)
    <3>1. next \in ConnectPhases
      BY <2>2, <2>5 DEF ConnectPhases
    <3> DEFINE y == SetTimer(x, config.timeout_connect)
    <3>2. y.in_use = conn[k].in_use
      BY <2>3, TimerFlags, ConnTypes DEF Flags
    <3>3. [c EXCEPT ![k] = SetTimer(c[k], config.timeout_connect)] = [conn EXCEPT ![k] = y]
      <4>1. c[k] = x
        BY <1>2, ConnTypes
      <4> QED  BY <4>1
    <3> HIDE DEF y
    <3>4. Becomes([req EXCEPT ![r] = Start(req[r], next)], [conn EXCEPT ![k] = y], pool)
      BY <2>5, <3>3
    <3> QED  BY <1>1, <1>3, <3>1, <3>2, <3>4, FewOwn
  <2> QED  BY <2>1, <2>4, <2>5
<1>6. CASE ConnectFails(r)
  <2> DEFINE c == [conn EXCEPT ![k].sock = IF @ = "new" THEN @ ELSE "down"]
  <2>1. \A j \in Conns \ {k} : c[j] = conn[j]
    OBVIOUS
  <2>2. TellEnd(r, TRUE, "done", c, pool) /\ TRUE \in BOOLEAN /\ req[r].phase \in OpPhases
    BY <1>6 DEF ConnectFails, Entered, OpPhases
  <2> HIDE DEF c
  <2> QED  BY <2>1, <2>2, FewEnd
<1> QED  BY <1>4, <1>5, <1>6

LEMMA FewContent ==
  ASSUME IsFiniteSet(Requests), IInv, FewUnused(req, conn, pool), NEW r \in Requests,
         \/ WriteHandler(r) \/ HeaderHandler(r) \/ BodyHandler(r) \/ UntilHandler(r) \/ UntilEnds(r)
         \/ SizeHandler(r) \/ ChunkHandler(r) \/ EventHandler(r) \/ ContentFails(r)
         \/ FirstFailure(r) \/ BufferFull(r)
  PROVE  FewUnused(req, conn, pool)'
<1>1. req[r].phase \in OpPhases
  BY DEF WriteHandler, HeaderHandler, BodyHandler, UntilHandler, UntilEnds, SizeHandler, ChunkHandler,
         EventHandler, ContentFails, FirstFailure, BufferFull, Entered, ReplyPhases, OpPhases
<1>2. ASSUME NEW ec \in BOOLEAN, NEW p \in SUBSET pool, TellEnd(r, ec, "done", conn, p)
      PROVE  FewUnused(req, conn, pool)'
  BY <1>1, <1>2, FewEnd
<1>3. ASSUME NEW next \in ReplyPhases, NEW p \in SUBSET pool, TellMore(r, next, p)
      PROVE  FewUnused(req, conn, pool)'
  BY <1>1, <1>3, FewMore
<1>4. ASSUME NEW phase \in OpPhases, ReadNext(r, phase) PROVE FewUnused(req, conn, pool)'
  BY <1>1, <1>4, FewRead
<1>5. /\ {"body", "until", "size", "chunk", "crlf", "events"} = ReplyPhases
      /\ ReplyPhases \subseteq OpPhases /\ "header" \in OpPhases /\ TRUE \in BOOLEAN /\ FALSE \in BOOLEAN
      /\ pool \in SUBSET pool /\ pool \ {req[r].conn} \in SUBSET pool
  BY DEF ReplyPhases, OpPhases
<1>6. CASE WriteHandler(r)
  BY <1>4, <1>5, <1>6 DEF WriteHandler
<1>7. CASE HeaderHandler(r)
  <2> DEFINE k == req[r].conn
             x == [conn[k] EXCEPT !.attempt_reconnect = TRUE]
             c == [conn EXCEPT ![k].attempt_reconnect = TRUE]
             d == [c EXCEPT ![k].stream = TRUE]
  <2>1. k \in Conns /\ conn[k] \in Connection /\ req[r] \in Session /\ req[r].phase # "prune"
    BY <1>1, OpFacts, PhaseNames DEF HandlerPhases
  <2>2. \A j \in Conns \ {k} : c[j] = conn[j] /\ d[j] = conn[j]
    <3>1. DOMAIN c = Conns /\ \A j \in Conns \ {k} : c[j] = conn[j]
      BY ConnTypes
    <3> HIDE DEF c
    <3>2. \A j \in Conns \ {k} : d[j] = c[j]
      BY <3>1
    <3> QED  BY <3>1, <3>2
  <2>3. c = [conn EXCEPT ![k] = x] /\ x.in_use = conn[k].in_use
    BY <2>1 DEF Connection
  <2> HIDE DEF c, d, x
  <2>4. \/ \E ec \in BOOLEAN : TellEnd(r, ec, "done", c, pool)
        \/ \E phase \in Answers[r] \ {"events"} : Becomes([req EXCEPT ![r] = Start(@, phase)], c, pool)
        \/ TellEnd(r, FALSE, "events", d, pool)
    BY <1>7 DEF HeaderHandler, c, d
  <2>5. CASE \E ec \in BOOLEAN : TellEnd(r, ec, "done", c, pool)
    BY <1>1, <1>5, <2>2, <2>5, FewEnd
  <2>6. CASE \E phase \in Answers[r] \ {"events"} : Becomes([req EXCEPT ![r] = Start(@, phase)], c, pool)
    <3>1. PICK phase \in OpPhases : Becomes([req EXCEPT ![r] = Start(req[r], phase)], c, pool)
      <4>1. Answers[r] \subseteq OpPhases
        BY ClientAssumption, <1>5
      <4> QED  BY <2>6, <4>1
    <3>2. Start(req[r], phase) \in Session
      BY <2>1, StartFields
    <3>3. Becomes([req EXCEPT ![r] = Start(req[r], phase)], [conn EXCEPT ![k] = x], pool)
      BY <2>3, <3>1
    <3> QED  BY <1>5, <2>1, <2>3, <3>2, <3>3, FewOwn
  <2>7. CASE TellEnd(r, FALSE, "events", d, pool)
    <3>1. "events" \in ReplyPhases \cup {"done"}
      BY <1>5
    <3> QED  BY <1>1, <1>5, <2>2, <2>7, <3>1, FewEnd
  <2> QED  BY <2>4, <2>5, <2>6, <2>7
<1>8. CASE BodyHandler(r)
  BY <1>2, <1>3, <1>5, <1>8 DEF BodyHandler
<1>9. CASE UntilHandler(r)
  BY <1>3, <1>5, <1>9 DEF UntilHandler
<1>10. CASE UntilEnds(r)
  BY <1>2, <1>5, <1>10 DEF UntilEnds, TellError
<1>11. CASE SizeHandler(r)
  <2>1. ASSUME NEW next \in {"chunk", "crlf", "size"}, ReadNext(r, next) \/ TellMore(r, next, pool)
        PROVE  FewUnused(req, conn, pool)'
    BY <1>3, <1>4, <1>5, <2>1
  <2>2. ASSUME NEW ec \in BOOLEAN, TellEnd(r, ec, "done", conn, pool) PROVE FewUnused(req, conn, pool)'
    BY <1>2, <1>5, <2>2
  <2> QED  BY <1>11, <2>1, <2>2 DEF SizeHandler
<1>12. CASE ChunkHandler(r)
  <2>1. PICK next \in {"crlf", "size"} : ReadNext(r, next)
    BY <1>12 DEF ChunkHandler
  <2> QED  BY <1>4, <1>5, <2>1
<1>13. CASE EventHandler(r)
  BY <1>3, <1>5, <1>13 DEF EventHandler
<1>14. CASE ContentFails(r)
  BY <1>1, <1>14, FewError DEF ContentFails
<1>15. CASE FirstFailure(r)
  BY <1>1, <1>15, FewError, FewRetry DEF FirstFailure, Entered
<1>16. CASE BufferFull(r)
  BY <1>1, <1>16, FewError, FewRetry DEF BufferFull
<1> QED  BY <1>6, <1>7, <1>8, <1>9, <1>10, <1>11, <1>12, <1>13, <1>14, <1>15, <1>16

LEMMA FewReturning ==
  ASSUME IsFiniteSet(Requests), IInv, FewUnused(req, conn, pool), NEW r \in Requests,
         CallbackReturns(r) \/ SyncCallback(r)
  PROVE  FewUnused(req, conn, pool)'
<1> DEFINE s == Continued(req[r])
<1>1. req[r].phase = "callback" /\ req[r].phase # "prune" /\ req[r] \in Session
  BY ConnTypes DEF CallbackReturns, SyncCallback
<1>2. s \in Session
  BY <1>1, ContinuedOk DEF SessionOk
<1> HIDE DEF s
<1>3. ASSUME NEW u \in Session, NEW caller \in Callers
      PROVE  [u EXCEPT !.caller = caller] \in Session /\ [u EXCEPT !.caller = caller].phase = u.phase
  BY DEF Session, Callers
<1>4. pool \in SUBSET pool
  OBVIOUS
<1>5. CASE CallbackReturns(r)
  <2>1. Becomes([req EXCEPT ![r] = s], conn, pool)
    BY <1>5 DEF CallbackReturns, s
  <2> QED  BY <1>1, <1>2, <1>4, <2>1, FewSame
<1>6. CASE SyncCallback(r)
  <2> DEFINE caller ==
        CASE req[r].caller = "thrown" -> "thrown"
          [] req[r].caller \in {"returned", "dangling"} -> "dangling"
          [] req[r].ec -> "thrown"
          [] req[r].next \in {"done", "events"} /\ ~req[r].ec -> "returned"
          [] OTHER -> "collecting"
  <2>1. caller \in Callers /\ "thrown" \in Callers
    BY DEF Callers
  <2>2. \/ Becomes([req EXCEPT ![r] = [s EXCEPT !.caller = caller]], conn, pool)
        \/ CloseAll([req EXCEPT ![r].caller = "thrown"], conn, {req[r].conn}, pool, owner)
    BY <1>6 DEF SyncCallback, s
  <2> HIDE DEF caller
  <2>3. CASE Becomes([req EXCEPT ![r] = [s EXCEPT !.caller = caller]], conn, pool)
    BY <1>1, <1>2, <1>3, <1>4, <2>1, <2>3, FewSame
  <2>4. CASE CloseAll([req EXCEPT ![r].caller = "thrown"], conn, {req[r].conn}, pool, owner)
    <3> DEFINE t == [req[r] EXCEPT !.caller = "thrown"]
               q == [req EXCEPT ![r] = t]
    <3>1. t \in Session /\ t.phase = req[r].phase
      BY <1>1, <1>3, <2>1
    <3>2. CloseAll(q, conn, {req[r].conn}, pool, owner)
      BY <2>4
    <3> HIDE DEF t
    <3>3. q[r] = t /\ \A v \in Requests \ {r} : q[v] = req[v]
      BY ConnTypes
    <3> HIDE DEF q
    <3>4. \A v \in Requests : q[v] \in Session /\ q[v].phase = req[v].phase
      BY <3>1, <3>3, ConnTypes
    <3> QED  BY <1>4, <3>2, <3>4, ConnKept, FewClose
  <2> QED  BY <2>2, <2>3, <2>4
<1> QED  BY <1>5, <1>6

LEMMA FewOthers ==
  ASSUME IsFiniteSet(Requests), IInv, FewUnused(req, conn, pool),
         \/ \E r \in Requests : DroppedHandler(r) \/ CloseResponse(r)
         \/ \E k \in Conns : PeerCloses(k) \/ Timer(k)
         \/ Stop \/ DestroyStops \/ DestroyCloses
  PROVE  FewUnused(req, conn, pool)'
<1>1. /\ pool \in SUBSET pool /\ {} \in SUBSET pool /\ pool \in SUBSET Conns
      /\ \A r \in Requests : req[r] \in Session /\ req[r].phase = req[r].phase
  BY ConnTypes
<1>2. ASSUME NEW r \in Requests, DroppedHandler(r) PROVE FewUnused(req, conn, pool)'
  <2> DEFINE k == req[r].conn
             t == [req[r] EXCEPT !.phase = "dropped", !.op = "none"]
             x == IF req[r].phase \in ConnectPhases THEN CancelTimer(conn[k]) ELSE conn[k]
  <2>1. req[r].phase \in OpPhases /\ Becomes([req EXCEPT ![r] = t], [conn EXCEPT ![k] = x], pool)
    BY <1>2 DEF DroppedHandler
  <2>2. conn[k] \in Connection /\ req[r] \in Session /\ req[r].phase # "prune"
    BY <2>1, OpFacts, PhaseNames DEF HandlerPhases
  <2>3. t \in Session
    BY <2>2 DEF Session
  <2>4. x.in_use = conn[k].in_use
    BY <2>2, TimerFlags DEF CancelTimer, Flags
  <2> HIDE DEF t, x
  <2> QED  BY <1>1, <2>1, <2>2, <2>3, <2>4, FewOwn
<1>3. ASSUME NEW r \in Requests, CloseResponse(r) PROVE FewUnused(req, conn, pool)'
  BY <1>1, <1>3, FewClosed DEF CloseResponse
<1>4. ASSUME NEW k \in Conns, PeerCloses(k) \/ Timer(k) PROVE FewUnused(req, conn, pool)'
  <2>1. conn[k] \in Connection
    BY ConnTypes
  <2>2. ASSUME NEW x, Flags(conn[k], x), Becomes(req, [conn EXCEPT ![k] = x], pool)
        PROVE  FewUnused(req, conn, pool)'
    <3> DEFINE c == [conn EXCEPT ![k] = x]
    <3>1. \A j \in Conns : Flags(conn[j], c[j])
      BY <2>2, OneConn
    <3>2. Leaves(req, c, pool, owner)
      BY <2>2 DEF Becomes
    <3> HIDE DEF c
    <3>3. UnusedOf(c, pool) \subseteq UnusedOf(conn, pool)
      BY <1>1, <3>1 DEF UnusedOf, Flags
    <3> QED  BY <1>1, <3>2, <3>3, FewStep
  <2>3. ASSUME NEW x, Flags(conn[k], x), CloseAll(req, [conn EXCEPT ![k] = x], {k}, pool, owner)
        PROVE  FewUnused(req, conn, pool)'
    <3> DEFINE c == [conn EXCEPT ![k] = x]
    <3>1. c \in [Conns -> Connection] /\ \A j \in Conns : Flags(conn[j], c[j])
      BY <2>3, OneConn
    <3>2. CloseAll(req, c, {k}, pool, owner)
      BY <2>3
    <3> HIDE DEF c
    <3> QED  BY <1>1, <3>1, <3>2, FewClose
  <2>4. CASE PeerCloses(k)
    <3>1. Becomes(req, [conn EXCEPT ![k] = [conn[k] EXCEPT !.sock = "shut"]], pool)
      BY <2>4 DEF PeerCloses
    <3> QED  BY <2>1, <2>2, <3>1, SockFlags
  <2>5. CASE TimerExpires(k)
    <3>1. Becomes(req, [conn EXCEPT ![k] = [conn[k] EXCEPT !.timer = "due"]], pool)
      BY <2>5 DEF TimerExpires
    <3> QED  BY <2>1, <2>2, <3>1, ExpiredFlags
  <2>6. CASE TimerHandler(k)
    <3>1. CloseAll(req, [conn EXCEPT ![k] = [conn[k] EXCEPT !.timer = "off"]], {k}, pool, owner)
      BY <2>6 DEF TimerHandler
    <3> QED  BY <2>1, <2>3, <3>1, ExpiredFlags
  <2>7. CASE StaleTimerHandler(k)
    <3>1. CloseAll(req, [conn EXCEPT ![k] = [conn[k] EXCEPT !.stale = FALSE]], {k}, pool, owner)
      BY <2>7 DEF StaleTimerHandler
    <3> QED  BY <2>1, <2>3, <3>1, ExpiredFlags
  <2> QED  BY <1>4, <2>4, <2>5, <2>6, <2>7 DEF Timer
<1>5. CASE Stop
  BY <1>1, <1>5, FewClosed DEF Stop
<1>6. CASE DestroyStops
  <2>1. req' = req /\ conn' = conn /\ pool' = pool
    BY <1>6 DEF DestroyStops
  <2> QED  BY <2>1 DEF FewUnused, UnusedOf, PruningOf
<1>7. CASE DestroyCloses
  <2>1. pool' = {}
    BY <1>7 DEF DestroyCloses, CloseAll, Leaves
  <2>2. UnusedOf(conn, pool)' = {}
    BY <2>1 DEF UnusedOf
  <2>3. Cardinality(UnusedOf(conn, pool)') = 0
    BY <2>2, FS_EmptySet
  <2>4. Cardinality(PruningOf(req)') \in Nat
    <3>1. PruningOf(req)' \in SUBSET Requests
      BY DEF PruningOf
    <3> QED  BY <3>1, FS_Subset, FS_CardinalityType
  <2> QED  BY <2>3, <2>4 DEF FewUnused
<1> QED  BY <1>2, <1>3, <1>4, <1>5, <1>6, <1>7

LEMMA NextFew ==
  ASSUME IsFiniteSet(Requests), IInv, FewUnused(req, conn, pool), [Next]_vars
  PROVE  FewUnused(req, conn, pool)'
<1>1. ASSUME NEW r \in Requests, Inside(r) PROVE FewUnused(req, conn, pool)'
  BY <1>1, FewConnecting, FewPruned, FewReturning DEF Inside
<1>2. ASSUME NEW r \in Requests, Success(r) PROVE FewUnused(req, conn, pool)'
  BY <1>2, FewConnecting, FewContent DEF Success
<1>3. ASSUME NEW r \in Requests, Failure(r) \/ BufferFull(r) PROVE FewUnused(req, conn, pool)'
  BY <1>3, FewConnecting, FewContent DEF Failure
<1>4. CASE UNCHANGED vars
  BY <1>4 DEF vars, FewUnused, UnusedOf, PruningOf
<1> QED  BY <1>1, <1>2, <1>3, <1>4, FewAsked, FewOthers DEF Next

\* With finitely many requests, the pool keeps one unused connection and one more for every request
\* that has freed its connection and not pruned the pool yet (client_http.hpp:246-261).
THEOREM KeepsOneOpen == IsFiniteSet(Requests) => (Spec => []OneKeptOpen)
<1> SUFFICES ASSUME IsFiniteSet(Requests) PROVE Spec => []OneKeptOpen
  OBVIOUS
<1>1. Init => FewUnused(req, conn, pool)
  <2> SUFFICES ASSUME Init PROVE FewUnused(req, conn, pool)
    OBVIOUS
  <2>1. UnusedOf(conn, pool) = {} /\ {} \in SUBSET Conns /\ pool = {}
    BY DEF Init, UnusedOf
  <2> QED  BY <2>1, FiniteFew, FS_EmptySet DEF FewUnused
<1>2. IInv /\ FewUnused(req, conn, pool) /\ [Next]_vars => FewUnused(req, conn, pool)'
  BY NextFew
<1>3. FewUnused(req, conn, pool) => OneKeptOpen
  BY DEF FewUnused, UnusedOf, PruningOf, OneKeptOpen
<1> QED  BY <1>1, <1>2, <1>3, Invariant, PTL DEF Spec

=============================================================================
