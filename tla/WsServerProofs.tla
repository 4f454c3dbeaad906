---------------------------- MODULE WsServerProofs ----------------------------
(***************************************************************************)
(* Type correctness, ListedAreOpen and ToldOnce of WsServer, for any       *)
(* number of connections and any bound on the queue.                       *)
(*                                                                         *)
(* The invariant is Inv: every record is Sound, and a connection is listed *)
(* exactly when its record says so.  Most steps go through Becomes, so the *)
(* work is to show of each new record that it is Sound and that it Follows *)
(* the old one (it opens only where WriteHandshakeHandler opens it).       *)
(***************************************************************************)
EXTENDS WsServer, TLAPS

\* What is true of every connection by itself.  A close frame is sent at most
\* twice: once by the user's send_close(), once in the phase "reply".
Sound(r) ==
  /\ r \in Connection
  /\ (r.op # "none") <=> (r.phase \in NetPhases)
  /\ (r.writer # "none") <=> (r.queued > 0)
  /\ r.closing => r.held
  /\ r.queued <= MaxQueued + r.closes
  /\ r.closing => r.closes <= 1
  /\ r.closing /\ r.closes = 1 => r.phase = "ended"
  /\ r.phase = "reply" => r.closes <= 1
  /\ r.phase \in HandshakePhases \cup {"free"} =>
       r.told = "nothing" /\ r.queued = 0 /\ r.closes = 0 /\ ~r.held /\ ~r.unlisted
  /\ r.phase \in OpenPhases => r.told = "open" \/ (r.phase = "reply" /\ r.told = "error")
  /\ r.phase = "ended" => r.told \notin {"open", "twice"}
  /\ r.phase = "ended" /\ r.told = "nothing" => r.queued = 0 /\ ~r.held

Listing ==
  \A c \in Conns :
    (c \in listed) <=> (conn[c].phase \in OpenPhases /\ conn[c].told = "open" /\ ~conn[c].unlisted)

Inv ==
  /\ conn \in [Conns -> Connection]
  /\ listed \subseteq Conns
  /\ acceptor \in {"none", "open", "closed"}
  /\ accepting \in {"none", "pending", "ok", "failed", "aborted"}
  /\ stopAt \in {"idle", "acceptorClosed"}
  /\ ioRunning \in BOOLEAN /\ destroyed \in BOOLEAN
  /\ \A c \in Conns : Sound(conn[c])
  /\ Listing

\* q may be what Becomes makes of s without a change of the listing but an erase.
Follows(s, q) ==
  /\ q.phase \in OpenPhases /\ q.told = "open" =>
       s.phase \in OpenPhases /\ s.told = "open" /\ (q.unlisted <=> s.unlisted)
  /\ q.phase \notin OpenPhases \cup {"ended"} => s.phase \notin OpenPhases

\* q differs from r in its chain and its timer only.
Kept(r, q) ==
  /\ q.told = r.told /\ q.writer = r.writer /\ q.queued = r.queued /\ q.closes = r.closes
  /\ q.closing = r.closing /\ q.held = r.held /\ q.unlisted = r.unlisted

-----------------------------------------------------------------------------
(* The helpers *)

LEMMA Phases ==
  /\ NetPhases = {"tls", "readHandshake", "writeHandshake", "head", "length", "content"}
  /\ HandshakePhases = {"tls", "readHandshake", "writeHandshake"}
  /\ ReadPhases = {"head", "length", "content"}
  /\ OpenPhases = {"head", "length", "content", "opening", "message", "reply"}
  /\ RunningPhases = {"opening", "message", "reply"}
BY DEF NetPhases, HandshakePhases, ReadPhases, OpenPhases, RunningPhases

LEMMA Booleans == TimeoutRequest \in BOOLEAN /\ TimeoutIdle \in BOOLEAN
BY ConfigAssumption

LEMMA Bound == MaxQueued \in Nat \ {0}
BY ConfigAssumption

\* set_timeout() and cancel_timeout() touch the timer only.
LEMMA SetTimerKeeps ==
  ASSUME NEW r \in Connection, NEW b \in BOOLEAN
  PROVE  /\ SetTimer(r, b) \in Connection
         /\ Kept(r, SetTimer(r, b))
         /\ SetTimer(r, b).phase = r.phase /\ SetTimer(r, b).op = r.op
<1>1. (r.stale \/ r.timer = "due") \in BOOLEAN
  OBVIOUS
<1>2. (IF b THEN "armed" ELSE "off") \in {"off", "armed", "due"}
  OBVIOUS
<1>3. ASSUME NEW s \in BOOLEAN, NEW t \in {"off", "armed", "due"}
      PROVE  LET q == [r EXCEPT !.stale = s, !.timer = t]
             IN  q \in Connection /\ Kept(r, q) /\ q.phase = r.phase /\ q.op = r.op
  BY DEF Connection, Kept
<1> QED BY <1>1, <1>2, <1>3 DEF SetTimer

LEMMA CancelTimerKeeps ==
  ASSUME NEW r \in Connection
  PROVE  /\ CancelTimer(r) \in Connection
         /\ Kept(r, CancelTimer(r))
         /\ CancelTimer(r).phase = r.phase /\ CancelTimer(r).op = r.op
BY SetTimerKeeps DEF CancelTimer

LEMMA StartKeeps ==
  ASSUME NEW r \in Connection, NEW p \in NetPhases, NEW b \in BOOLEAN
  PROVE  /\ Start(r, p, b) \in Connection
         /\ Kept(r, Start(r, p, b))
         /\ Start(r, p, b).phase = p /\ Start(r, p, b).op = "pending"
<1> DEFINE q == SetTimer(r, b)
<1>1. q \in Connection /\ Kept(r, q)
  BY SetTimerKeeps
<1>2. Start(r, p, b) = [q EXCEPT !.phase = p, !.op = "pending"]
  BY DEF Start
<1>3. p \in NetPhases \cup RunningPhases \cup {"free", "ended"}
  OBVIOUS
<1> HIDE DEF q
<1>4. [q EXCEPT !.phase = p, !.op = "pending"] \in Connection
  BY <1>1, <1>3 DEF Connection
<1>5. Kept(q, [q EXCEPT !.phase = p, !.op = "pending"])
  BY <1>1 DEF Connection, Kept
<1>6. /\ [q EXCEPT !.phase = p, !.op = "pending"].phase = p
      /\ [q EXCEPT !.phase = p, !.op = "pending"].op = "pending"
  BY <1>1 DEF Connection
<1> QED BY <1>1, <1>2, <1>4, <1>5, <1>6 DEF Kept

LEMMA ReadMessageKeeps ==
  ASSUME NEW r \in Connection
  PROVE  /\ ReadMessage(r) \in Connection
         /\ Kept(r, ReadMessage(r))
         /\ ReadMessage(r).phase = "head" /\ ReadMessage(r).op = "posted"
<1> DEFINE q == Start(r, "head", TimeoutIdle)
<1>1. q \in Connection /\ Kept(r, q) /\ q.phase = "head"
  BY StartKeeps, Booleans, Phases
<1>2. ReadMessage(r) = [q EXCEPT !.op = "posted"]
  BY DEF ReadMessage
<1> HIDE DEF q
<1> QED BY <1>1, <1>2 DEF Connection, Kept

LEMMA EndKeeps ==
  ASSUME NEW r \in Connection
  PROVE  /\ End(r) \in Connection
         /\ Kept(r, End(r))
         /\ End(r).phase = "ended" /\ End(r).op = "none"
BY DEF End, Connection, Kept

\* The chain moves on within the handshake, or ends there, or within the open phases.
LEMMA ChainSound ==
  ASSUME NEW r, Sound(r), NEW q \in Connection, Kept(r, q),
         (q.op # "none") <=> (q.phase \in NetPhases),
         \/ q.phase = r.phase
         \/ r.phase \in HandshakePhases \cup {"free"} /\ q.phase \in HandshakePhases \cup {"ended"}
         \/ r.phase \in OpenPhases \ {"reply"} /\ q.phase \in OpenPhases \ {"reply"}
  PROVE  Sound(q) /\ Follows(r, q)
BY Phases, Bound DEF Sound, Follows, Kept, Connection

\* send() to a connection that is open, or ended after it was.
LEMMA EnqueueSound ==
  ASSUME NEW r \in Connection, r.queued < MaxQueued + 2
  PROVE  /\ Enqueue(r) \in Connection
         /\ Enqueue(r).queued = r.queued + 1
         /\ Enqueue(r).writer = IF r.queued = 0 THEN "posted" ELSE r.writer
         /\ Enqueue(r).phase = r.phase /\ Enqueue(r).op = r.op
         /\ Enqueue(r).told = r.told /\ Enqueue(r).closes = r.closes
         /\ Enqueue(r).closing = r.closing /\ Enqueue(r).held = r.held
         /\ Enqueue(r).unlisted = r.unlisted
<1> DEFINE q == [r EXCEPT !.queued = @ + 1]
<1>1. /\ q \in Connection /\ q.queued = r.queued + 1
      /\ q.phase = r.phase /\ q.op = r.op /\ q.told = r.told /\ q.closes = r.closes
      /\ q.closing = r.closing /\ q.held = r.held /\ q.unlisted = r.unlisted
      /\ q.writer = r.writer
  BY Bound DEF Connection
<1>2. CASE r.queued # 0
  <2>1. Enqueue(r) = q
    BY <1>2 DEF Enqueue
  <2> QED BY <1>1, <1>2, <2>1
<1>3. CASE r.queued = 0
  <2> DEFINE s == SetTimer(q, TimeoutIdle)
  <2>1. s \in Connection /\ Kept(q, s) /\ s.phase = q.phase /\ s.op = q.op
    BY <1>1, SetTimerKeeps, Booleans
  <2>2. Enqueue(r) = [s EXCEPT !.writer = "posted"]
    BY <1>3 DEF Enqueue
  <2> HIDE DEF q, s
  <2> QED BY <1>1, <1>3, <2>1, <2>2 DEF Connection, Kept
<1> QED BY <1>2, <1>3

\* close() ends what is pending.
LEMMA CloseSound ==
  ASSUME NEW r, Sound(r)
  PROVE  Sound(Close(r)) /\ Follows(r, Close(r)) /\ Close(r).unlisted = r.unlisted
                         /\ Close(r).phase = r.phase /\ Close(r).told = r.told
<1>0. r \in Connection
  BY DEF Sound
<1> DEFINE o == IF r.op = "pending" THEN "failed" ELSE r.op
           w == IF r.writer = "pending" THEN "failed" ELSE r.writer
<1>1. /\ o \in {"none", "posted", "pending", "ok", "failed"}
      /\ w \in {"none", "posted", "pending", "ok", "failed"}
      /\ (o # "none") <=> (r.op # "none")
      /\ (w # "none") <=> (r.writer # "none")
  BY DEF Sound, Connection
<1>2. Close(r) = [r EXCEPT !.down = TRUE, !.op = o, !.writer = w]
  BY DEF Close
<1> DEFINE Closed(x, y, d) == [r EXCEPT !.down = d, !.op = x, !.writer = y]
           Ops == {"none", "posted", "pending", "ok", "failed"}
<1>3. ASSUME NEW x \in Ops, NEW y \in Ops, NEW d \in BOOLEAN
      PROVE  /\ Closed(x, y, d) \in Connection
             /\ Closed(x, y, d).op = x /\ Closed(x, y, d).writer = y
             /\ Closed(x, y, d).phase = r.phase /\ Closed(x, y, d).told = r.told
             /\ Closed(x, y, d).queued = r.queued /\ Closed(x, y, d).closes = r.closes
             /\ Closed(x, y, d).closing = r.closing /\ Closed(x, y, d).held = r.held
             /\ Closed(x, y, d).unlisted = r.unlisted
  BY <1>0 DEF Connection
<1>4. PICK d \in BOOLEAN : Close(r) = Closed(o, w, d)
  BY <1>2, Zenon
<1> DEFINE q == Close(r)
<1> o \in Ops /\ w \in Ops
  BY <1>1
<1> HIDE DEF o, w, q, Closed, Ops
<1>5. /\ q \in Connection /\ q.op = o /\ q.writer = w
      /\ q.phase = r.phase /\ q.told = r.told /\ q.queued = r.queued /\ q.closes = r.closes
      /\ q.closing = r.closing /\ q.held = r.held /\ q.unlisted = r.unlisted
  BY <1>3, <1>4 DEF q
<1>6. Sound(q)
  BY <1>1, <1>5 DEF Sound
<1>7. Follows(r, q)
  BY <1>5 DEF Follows
<1> QED BY <1>5, <1>6, <1>7 DEF q

LEMMA BlankSound == Sound(Blank)
BY Phases, Bound DEF Sound, Blank, Connection

-----------------------------------------------------------------------------
(* Steps of one connection *)

\* What a step that gives one connection a new record has to show.
LEMMA SlotInv ==
  ASSUME Inv, NEW c \in Conns, NEW r, Sound(r), Follows(conn[c], r),
         conn' = [conn EXCEPT ![c] = r],
         listed' = IF r.phase = "ended" \/ r.told = "error" THEN listed \ {c} ELSE listed,
         acceptor' \in {"none", "open", "closed"},
         accepting' \in {"none", "pending", "ok", "failed", "aborted"},
         UNCHANGED <<stopAt, ioRunning, destroyed>>
  PROVE  Inv'
<1>1. /\ conn' = [conn EXCEPT ![c] = r]
      /\ listed' = IF r.phase = "ended" \/ r.told = "error" THEN listed \ {c} ELSE listed
      /\ UNCHANGED <<stopAt, ioRunning, destroyed>>
  OBVIOUS
<1>2. r \in Connection
  BY DEF Sound
<1>3. conn' \in [Conns -> Connection] /\ conn'[c] = r
      /\ \A d \in Conns \ {c} : conn'[d] = conn[d]
  BY <1>1, <1>2 DEF Inv
<1>4. \A d \in Conns : Sound(conn'[d])
  BY <1>3 DEF Inv
<1>5. Listing'
  <2> SUFFICES ASSUME NEW d \in Conns
               PROVE  (d \in listed') <=> /\ conn'[d].phase \in OpenPhases
                                          /\ conn'[d].told = "open" /\ ~conn'[d].unlisted
    BY DEF Listing
  <2>1. CASE d # c
    BY <1>1, <1>3, <2>1 DEF Inv, Listing
  <2>2. CASE d = c
    <3>0. (c \in listed) <=> /\ conn[c].phase \in OpenPhases
                             /\ conn[c].told = "open" /\ ~conn[c].unlisted
      BY DEF Inv, Listing
    <3>1. CASE r.phase = "ended" \/ r.told = "error"
      BY <1>1, <1>3, <2>2, <3>1, Phases
    <3>2. CASE r.phase # "ended" /\ r.told # "error"
      <4>1. (d \in listed') <=> (c \in listed)
        BY <1>1, <2>2, <3>2
      <4>2. CASE r.phase \in OpenPhases
        <5>1. r.told = "open"
          BY <3>2, <4>2 DEF Sound
        <5> QED BY <1>3, <2>2, <3>0, <4>1, <4>2, <5>1 DEF Follows
      <4>3. CASE r.phase \notin OpenPhases
        BY <1>3, <2>2, <3>0, <3>2, <4>1, <4>3 DEF Follows
      <4> QED BY <4>2, <4>3
    <3> QED BY <3>1, <3>2
  <2> QED BY <2>1, <2>2
<1>6. listed' \subseteq Conns
  BY <1>1 DEF Inv
<1> QED BY <1>1, <1>3, <1>4, <1>5, <1>6 DEF Inv

LEMMA BecomesInv ==
  ASSUME Inv, NEW c \in Conns, NEW r, Sound(r), Follows(conn[c], r), Becomes(c, r)
  PROVE  Inv'
<1>1. acceptor \in {"none", "open", "closed"}
  BY DEF Inv
<1>2. accepting \in {"none", "pending", "ok", "failed", "aborted"}
  BY DEF Inv
<1> QED BY <1>1, <1>2, SlotInv DEF Becomes

\* The same for a chain that moves on.
LEMMA ChainInv ==
  ASSUME Inv, NEW c \in Conns, NEW q \in Connection, Kept(conn[c], q),
         (q.op # "none") <=> (q.phase \in NetPhases),
         \/ q.phase = conn[c].phase
         \/ /\ conn[c].phase \in HandshakePhases \cup {"free"}
            /\ q.phase \in HandshakePhases \cup {"ended"}
         \/ /\ conn[c].phase \in OpenPhases \ {"reply"}
            /\ q.phase \in OpenPhases \ {"reply"},
         Becomes(c, q)
  PROVE  Inv'
BY ChainSound, BecomesInv DEF Inv

LEMMA KeptTransitive ==
  ASSUME NEW r, NEW s, NEW q, Kept(r, s), Kept(s, q)
  PROVE  Kept(r, q)
BY DEF Kept

\* What a read handler starts from: the connection with its timer cancelled.
LEMMA HandlerStarts ==
  ASSUME Inv, NEW c \in Conns
  PROVE  LET r == CancelTimer(conn[c]) IN
         /\ conn[c] \in Connection /\ Sound(conn[c])
         /\ r \in Connection /\ Kept(conn[c], r) /\ r.phase = conn[c].phase /\ r.op = conn[c].op
         /\ Sound(r) /\ Follows(conn[c], r)
<1>1. conn[c] \in Connection /\ Sound(conn[c])
  BY DEF Inv
<1>2. /\ CancelTimer(conn[c]) \in Connection /\ Kept(conn[c], CancelTimer(conn[c]))
      /\ CancelTimer(conn[c]).phase = conn[c].phase /\ CancelTimer(conn[c]).op = conn[c].op
  BY <1>1, CancelTimerKeeps
<1>3. (CancelTimer(conn[c]).op # "none") <=> (CancelTimer(conn[c]).phase \in NetPhases)
  BY <1>1, <1>2 DEF Sound
<1> QED BY <1>1, <1>2, <1>3, ChainSound

LEMMA FollowsKept ==
  ASSUME NEW s, NEW r, NEW q, Kept(s, r), r.phase = s.phase, Follows(r, q)
  PROVE  Follows(s, q)
BY DEF Kept, Follows

\* A failed operation, told as an error.
LEMMA LostSound ==
  ASSUME NEW r, Sound(r), r.phase \in NetPhases
  PROVE  Sound(TellError(End(r))) /\ Follows(r, TellError(End(r)))
<1> DEFINE e == End(r)
<1>1. e \in Connection /\ Kept(r, e) /\ e.phase = "ended" /\ e.op = "none"
  BY EndKeeps DEF Sound
<1>2. r.told \in {"nothing", "open"}
  BY Phases DEF Sound
<1>3. TellError(e) = [e EXCEPT !.told = "error"]
  BY <1>1, <1>2 DEF TellError, Kept
<1> HIDE DEF e
<1>4. Sound([e EXCEPT !.told = "error"])
  BY <1>1, Phases, Bound DEF Sound, Kept, Connection
<1>5. Follows(r, [e EXCEPT !.told = "error"])
  BY <1>1 DEF Follows, Connection
<1> QED BY <1>3, <1>4, <1>5 DEF e

\* on_close after the chain's end, for a connection that was open.
LEMMA ClosedSound ==
  ASSUME NEW r \in Connection, NEW e \in Connection, Kept(r, e),
         e.phase = "ended", e.op = "none",
         r.told \in {"open", "error"},
         (r.writer # "none") <=> (r.queued > 0), r.closing => r.held,
         r.queued <= MaxQueued + r.closes, r.closing => r.closes <= 1
  PROVE  Sound(TellClose(e)) /\ Follows(r, TellClose(e))
<1> DEFINE t == IF e.told = "open" THEN "closed" ELSE "errorClosed"
<1>1. TellClose(e) = [e EXCEPT !.told = t]
  BY DEF TellClose, Kept
<1>2. t \in {"closed", "errorClosed"}
  OBVIOUS
<1> HIDE DEF t
<1>3. Sound([e EXCEPT !.told = t])
  BY <1>2, Phases, Bound DEF Sound, Kept, Connection
<1>4. Follows(r, [e EXCEPT !.told = t])
  BY Phases DEF Follows, Connection
<1> QED BY <1>1, <1>3, <1>4

\* send_close() in a handler: at its test, or past it when a close was sent.
LEMMA ReplySound ==
  ASSUME NEW r, Sound(r), r.phase \in ReadPhases
  PROVE  Sound(Reply(r)) /\ Follows(r, Reply(r))
<1>1. r \in Connection /\ r.told = "open"
  BY Phases DEF Sound
<1>2. CASE r.closes > 0
  <2>1. Reply(r) = TellClose(End(r))
    BY <1>2 DEF Reply
  <2> QED BY <1>1, <2>1, EndKeeps, ClosedSound DEF Sound
<1>3. CASE ~(r.closes > 0)
  <2>1. Reply(r) = [r EXCEPT !.phase = "reply", !.op = "none"]
    BY <1>3 DEF Reply
  <2> DEFINE q == [r EXCEPT !.phase = "reply", !.op = "none"]
  <2>2. /\ q \in Connection /\ q.phase = "reply" /\ q.op = "none"
        /\ q.told = r.told /\ q.writer = r.writer /\ q.queued = r.queued
        /\ q.closes = r.closes /\ q.closing = r.closing /\ q.held = r.held
        /\ q.unlisted = r.unlisted
    BY <1>1, Phases DEF Connection
  <2> HIDE DEF q
  <2>3. r.closes = 0
    BY <1>1, <1>3 DEF Connection
  <2>4. Sound(q)
    BY <1>1, <2>2, <2>3, Phases, Bound DEF Sound
  <2>5. Follows(r, q)
    BY <1>1, <2>2, Phases DEF Follows
  <2> QED BY <2>1, <2>4, <2>5 DEF q
<1> QED BY <1>2, <1>3

LEMMA TooBigSound ==
  ASSUME NEW r, Sound(r), r.phase \in ReadPhases
  PROVE  Sound(Reply(TellError(r))) /\ Follows(r, Reply(TellError(r)))
<1> DEFINE e == TellError(r)
<1>1. r \in Connection /\ r.told = "open"
  BY Phases DEF Sound
<1>2. e = [r EXCEPT !.told = "error"]
  BY <1>1 DEF TellError
<1> HIDE DEF e
<1>3. /\ e \in Connection /\ e.told = "error" /\ e.phase = r.phase /\ e.op = r.op
      /\ e.writer = r.writer /\ e.queued = r.queued /\ e.closes = r.closes
      /\ e.closing = r.closing /\ e.held = r.held /\ e.unlisted = r.unlisted
  BY <1>1, <1>2 DEF Connection
<1>4. CASE e.closes > 0
  <2>1. Reply(e) = TellClose(End(e))
    BY <1>4 DEF Reply
  <2>2. Sound(TellClose(End(e)))
    BY <1>3, EndKeeps, ClosedSound DEF Sound
  <2>3. /\ End(e) \in Connection /\ End(e).phase = "ended"
    BY <1>3, EndKeeps
  <2>4. TellClose(End(e)).phase = "ended"
    BY <2>3 DEF TellClose, Connection
  <2>5. Follows(r, TellClose(End(e)))
    BY <2>4, Phases DEF Follows
  <2> QED BY <2>1, <2>2, <2>5 DEF e
<1>5. CASE ~(e.closes > 0)
  <2>1. Reply(e) = [e EXCEPT !.phase = "reply", !.op = "none"]
    BY <1>5 DEF Reply
  <2> DEFINE q == [e EXCEPT !.phase = "reply", !.op = "none"]
  <2>2. /\ q \in Connection /\ q.phase = "reply" /\ q.op = "none"
        /\ q.told = e.told /\ q.writer = e.writer /\ q.queued = e.queued
        /\ q.closes = e.closes /\ q.closing = e.closing /\ q.held = e.held
        /\ q.unlisted = e.unlisted
    BY <1>3, Phases DEF Connection
  <2> HIDE DEF q
  <2>3. r.closes = 0
    BY <1>1, <1>3, <1>5 DEF Connection
  <2>4. Sound(q)
    BY <1>1, <1>3, <2>2, <2>3, Phases, Bound DEF Sound
  <2>5. Follows(r, q)
    BY <1>1, <1>3, <2>2, Phases DEF Follows
  <2> QED BY <2>1, <2>4, <2>5 DEF q, e
<1> QED BY <1>4, <1>5

\* A message of the user, or a pong.
LEMMA SendSound ==
  ASSUME NEW r, Sound(r), r.queued < MaxQueued, r.phase \notin HandshakePhases \cup {"free"},
         r.phase = "ended" /\ r.told = "nothing" => r.held /\ ~r.held
  PROVE  /\ Sound(Enqueue(r)) /\ Follows(r, Enqueue(r))
         /\ Enqueue(r).phase = r.phase /\ Enqueue(r).op = r.op
<1>1. r \in Connection /\ r.queued < MaxQueued + 2
  BY Bound DEF Sound, Connection
<1> DEFINE q == Enqueue(r)
<1>2. /\ q \in Connection
      /\ q.queued = r.queued + 1
      /\ q.writer = IF r.queued = 0 THEN "posted" ELSE r.writer
      /\ q.phase = r.phase /\ q.op = r.op /\ q.told = r.told /\ q.closes = r.closes
      /\ q.closing = r.closing /\ q.held = r.held /\ q.unlisted = r.unlisted
  BY <1>1, EnqueueSound
<1> HIDE DEF q
<1>3. Sound(q)
  BY <1>1, <1>2, Phases, Bound DEF Sound, Connection
<1>4. Follows(r, q)
  BY <1>2 DEF Follows
<1> QED BY <1>2, <1>3, <1>4 DEF q

\* The chain of writes moves on.
LEMMA WriterSound ==
  ASSUME NEW r, Sound(r), r.writer # "none", NEW w \in {"posted", "pending", "ok", "failed"}
  PROVE  Sound([r EXCEPT !.writer = w]) /\ Follows(r, [r EXCEPT !.writer = w])
BY Phases, Bound DEF Sound, Follows, Connection

LEMMA WriteHandshakesKeep ==
  ASSUME NEW r \in Connection, NEW q \in WriteHandshakes(r)
  PROVE  /\ q \in Connection /\ Kept(r, q) /\ q.phase \in {"ended", "writeHandshake"}
         /\ (q.op # "none") <=> (q.phase \in NetPhases)
<1>1. CASE q = End(r)
  BY <1>1, EndKeeps, Phases
<1>2. CASE \E b \in BOOLEAN :
             q = [Start(r, "writeHandshake", TimeoutRequest) EXCEPT !.switching = b]
  <2>1. PICK b \in BOOLEAN :
          q = [Start(r, "writeHandshake", TimeoutRequest) EXCEPT !.switching = b]
    BY <1>2
  <2> DEFINE s == Start(r, "writeHandshake", TimeoutRequest)
  <2>2. s \in Connection /\ Kept(r, s) /\ s.phase = "writeHandshake" /\ s.op = "pending"
    BY StartKeeps, Booleans, Phases
  <2> HIDE DEF s
  <2> QED BY <2>1, <2>2, Phases DEF Connection, Kept, s
<1> QED BY <1>1, <1>2 DEF WriteHandshakes

\* A chain of reads goes on.
LEMMA ReadMessageContinues ==
  ASSUME NEW r, Sound(r), r.phase \in ReadPhases
  PROVE  /\ Sound(ReadMessage(r)) /\ Follows(r, ReadMessage(r))
         /\ ReadMessage(r).phase = "head"
<1>1. r \in Connection
  BY DEF Sound
<1>2. /\ ReadMessage(r) \in Connection /\ Kept(r, ReadMessage(r))
      /\ ReadMessage(r).phase = "head" /\ ReadMessage(r).op = "posted"
  BY <1>1, ReadMessageKeeps
<1> QED BY <1>2, ChainSound, Phases

LEMMA StartContinues ==
  ASSUME NEW r, Sound(r), r.phase \in ReadPhases, NEW p \in ReadPhases
  PROVE  Sound(Start(r, p, TimeoutIdle)) /\ Follows(r, Start(r, p, TimeoutIdle))
<1>1. r \in Connection /\ p \in NetPhases /\ p \in OpenPhases \ {"reply"}
  BY Phases DEF Sound
<1> DEFINE q == Start(r, p, TimeoutIdle)
<1>2. q \in Connection /\ Kept(r, q) /\ q.phase = p /\ q.op = "pending"
  BY <1>1, StartKeeps, Booleans
<1> HIDE DEF q
<1>3. Sound(q) /\ Follows(r, q)
  BY <1>1, <1>2, ChainSound, Phases
<1> QED BY <1>3 DEF q

LEMMA ReadContentsSound ==
  ASSUME NEW r, Sound(r), r.phase \in ReadPhases, NEW q \in ReadContents(r)
  PROVE  Sound(q) /\ Follows(r, q)
<1>1. "content" \in ReadPhases
  BY Phases
<1>2. q = Reply(TellError(r)) \/ q = Start(r, "content", TimeoutIdle)
  BY DEF ReadContents
<1> QED BY <1>1, <1>2, TooBigSound, StartContinues

-----------------------------------------------------------------------------
(* The actions *)

LEMMA AcceptHandlerInv == ASSUME Inv, AcceptHandler PROVE Inv'
<1>1. accepting' \in {"none", "pending", "ok", "failed", "aborted"}
  BY DEF AcceptHandler
<1>2. acceptor' \in {"none", "open", "closed"}
  BY DEF AcceptHandler, Inv
<1>3. CASE accepting # "ok"
  BY <1>1, <1>3 DEF AcceptHandler, Inv, Listing
<1>4. CASE accepting = "ok"
  <2> DEFINE first == IF Tls THEN "tls" ELSE "readHandshake"
             r == Start(Blank, first, TimeoutRequest)
  <2>1. PICK d \in Conns : conn[d].phase = "free" /\ conn' = [conn EXCEPT ![d] = r]
    BY <1>4 DEF AcceptHandler
  <2>2. first \in HandshakePhases /\ first \in NetPhases
    BY Phases
  <2>3. Blank \in Connection /\ Blank.phase = "free" /\ Blank.told = "nothing"
    BY BlankSound DEF Sound, Blank
  <2> HIDE DEF first
  <2>4. r \in Connection /\ Kept(Blank, r) /\ r.phase = first /\ r.op = "pending"
    BY <2>2, <2>3, StartKeeps, Booleans
  <2> HIDE DEF r
  <2>5. Sound(r)
    BY <2>2, <2>3, <2>4, BlankSound, ChainSound, Phases
  <2>6. Follows(conn[d], r)
    BY <2>1, <2>2, <2>4, Phases DEF Follows
  <2>7. listed' = IF r.phase = "ended" \/ r.told = "error" THEN listed \ {d} ELSE listed
    BY <2>2, <2>3, <2>4, Phases DEF Kept, AcceptHandler
  <2> QED BY <1>1, <1>2, <2>1, <2>5, <2>6, <2>7, SlotInv DEF AcceptHandler
<1> QED BY <1>3, <1>4

LEMMA UpgradeInv == ASSUME Inv, NEW d \in Conns, Upgrade(d) PROVE Inv'
<1>1. PICK r \in WriteHandshakes(Blank) : Becomes(d, r)
  BY DEF Upgrade
<1>2. Blank \in Connection /\ Blank.phase = "free" /\ conn[d].phase = "free"
  BY BlankSound DEF Sound, Blank, Upgrade
<1>3. /\ r \in Connection /\ Kept(Blank, r) /\ r.phase \in {"ended", "writeHandshake"}
      /\ (r.op # "none") <=> (r.phase \in NetPhases)
  BY <1>2, WriteHandshakesKeep
<1>4. Sound(r)
  BY <1>2, <1>3, BlankSound, ChainSound, Phases
<1>5. Follows(conn[d], r)
  BY <1>2, <1>3, Phases DEF Follows
<1> QED BY <1>1, <1>4, <1>5, BecomesInv

LEMMA TlsHandlerInv == ASSUME Inv, NEW c \in Conns, TlsHandler(c) PROVE Inv'
<1> DEFINE r == CancelTimer(conn[c])
           q == IF r.op = "ok" THEN Start(r, "readHandshake", TimeoutRequest) ELSE End(r)
<1>1. Becomes(c, q) /\ conn[c].phase = "tls"
  BY DEF TlsHandler, Queued
<1>2. r \in Connection /\ Kept(conn[c], r)
  BY HandlerStarts
<1> HIDE DEF r
<1>3. /\ q \in Connection /\ Kept(r, q) /\ q.phase \in {"readHandshake", "ended"}
      /\ (q.op # "none") <=> (q.phase \in NetPhases)
  <2>1. CASE r.op = "ok"
    <3> DEFINE s == Start(r, "readHandshake", TimeoutRequest)
    <3>1. s \in Connection /\ Kept(r, s) /\ s.phase = "readHandshake" /\ s.op = "pending"
      BY <1>2, StartKeeps, Booleans, Phases
    <3>2. q = s
      BY <2>1
    <3> HIDE DEF s, q
    <3> QED BY <3>1, <3>2, Phases
  <2>2. CASE r.op # "ok"
    BY <1>2, <2>2, EndKeeps, Phases
  <2> QED BY <2>1, <2>2
<1> HIDE DEF q
<1>4. Kept(conn[c], q)
  BY <1>2, <1>3 DEF Kept
<1> QED BY <1>1, <1>3, <1>4, ChainInv, Phases

LEMMA ReadHandshakeHandlerInv ==
  ASSUME Inv, NEW c \in Conns, ReadHandshakeHandler(c) PROVE Inv'
<1> DEFINE r == CancelTimer(conn[c])
<1>1. \E q \in {End(r)} \cup WriteHandshakes(r) : Becomes(c, q)
  BY DEF ReadHandshakeHandler
<1>2. conn[c].phase = "readHandshake"
  BY DEF ReadHandshakeHandler, Queued
<1>3. r \in Connection /\ Kept(conn[c], r)
  BY HandlerStarts
<1> HIDE DEF r
<1>4. PICK q \in {End(r)} \cup WriteHandshakes(r) : Becomes(c, q)
  BY <1>1
<1>5. /\ q \in Connection /\ Kept(r, q) /\ q.phase \in {"ended", "writeHandshake"}
      /\ (q.op # "none") <=> (q.phase \in NetPhases)
  BY <1>3, EndKeeps, WriteHandshakesKeep, Phases
<1>6. Kept(conn[c], q)
  BY <1>3, <1>5 DEF Kept
<1> QED BY <1>2, <1>4, <1>5, <1>6, ChainInv, Phases

LEMMA WriteHandshakeHandlerInv ==
  ASSUME Inv, NEW c \in Conns, WriteHandshakeHandler(c) PROVE Inv'
<1> DEFINE r == CancelTimer(conn[c])
<1>1. conn[c].phase = "writeHandshake"
  BY DEF WriteHandshakeHandler, Queued
<1>2. /\ r \in Connection /\ Kept(conn[c], r) /\ r.phase = conn[c].phase
      /\ Sound(conn[c]) /\ Sound(r)
  BY HandlerStarts
<1>3. CASE Becomes(c, End(r))
  <2> HIDE DEF r
  <2>1. End(r) \in Connection /\ Kept(r, End(r)) /\ End(r).phase = "ended" /\ End(r).op = "none"
    BY <1>2, EndKeeps
  <2>2. Kept(conn[c], End(r))
    BY <1>2, <2>1 DEF Kept
  <2> QED BY <1>1, <1>3, <2>1, <2>2, ChainInv, Phases
<1>4. CASE Becomes(c, TellError(End(r)))
  <2> HIDE DEF r
  <2>1. Sound(TellError(End(r))) /\ Follows(r, TellError(End(r)))
    BY <1>1, <1>2, LostSound, Phases
  <2>2. Follows(conn[c], TellError(End(r)))
    BY <1>2, <2>1, FollowsKept
  <2> QED BY <1>4, <2>1, <2>2, BecomesInv
<1>5. CASE /\ conn' = [conn EXCEPT ![c] = Opened(r)]
           /\ listed' = listed \cup {c}
           /\ UNCHANGED <<acceptor, accepting, stopAt, ioRunning, destroyed>>
  <2> DEFINE q == Opened(r)
  <2>9. q = [r EXCEPT !.phase = "opening", !.op = "none", !.told = "open"]
    BY DEF Opened
  <2> HIDE DEF r
  <2>0. r \in Connection
    BY <1>2
  <2> HIDE DEF q
  <2>1. /\ q \in Connection /\ q.phase = "opening" /\ q.op = "none" /\ q.told = "open"
        /\ q.writer = r.writer /\ q.queued = r.queued /\ q.closes = r.closes
        /\ q.closing = r.closing /\ q.held = r.held /\ q.unlisted = r.unlisted
    BY <2>0, <2>9 DEF Connection, RunningPhases
  <2>2. conn' = [conn EXCEPT ![c] = q]
    BY <1>5 DEF q
  <2>3. Sound(q)
    BY <1>1, <1>2, <2>1, Phases, Bound DEF Sound
  <2>4. ~q.unlisted
    BY <1>1, <1>2, <2>1, Phases DEF Sound
  <2>5. conn' \in [Conns -> Connection] /\ conn'[c] = q /\ \A d \in Conns \ {c} : conn'[d] = conn[d]
    BY <2>1, <2>2 DEF Inv
  <2>6. \A d \in Conns : Sound(conn'[d])
    BY <2>3, <2>5 DEF Inv
  <2>7. Listing'
    BY <1>5, <2>1, <2>4, <2>5, Phases DEF Inv, Listing
  <2> QED BY <1>5, <2>5, <2>6, <2>7 DEF Inv
<1>6. \/ Becomes(c, End(r))
      \/ Becomes(c, TellError(End(r)))
      \/ /\ conn' = [conn EXCEPT ![c] = Opened(r)]
         /\ listed' = listed \cup {c}
         /\ UNCHANGED <<acceptor, accepting, stopAt, ioRunning, destroyed>>
  BY DEF WriteHandshakeHandler
<1> QED BY <1>3, <1>4, <1>5, <1>6

\* on_open and on_message return: the next message.
LEMMA UserReturnsInv == ASSUME Inv, NEW c \in Conns, UserReturns(c) PROVE Inv'
<1>1. conn[c].phase \in {"opening", "message"} /\ Becomes(c, ReadMessage(conn[c]))
  BY DEF UserReturns, OpenReturns, MessageReturns
<1>2. /\ ReadMessage(conn[c]) \in Connection /\ Kept(conn[c], ReadMessage(conn[c]))
      /\ ReadMessage(conn[c]).phase = "head" /\ ReadMessage(conn[c]).op = "posted"
  BY ReadMessageKeeps DEF Inv
<1> QED BY <1>1, <1>2, ChainInv, Phases

\* An operation of the chain is posted, started or completed.
LEMMA OpInv ==
  ASSUME Inv, NEW c \in Conns, NEW o \in {"pending", "ok", "failed"}, conn[c].op # "none",
         Becomes(c, [conn[c] EXCEPT !.op = o])
  PROVE  Inv'
<1> DEFINE q == [conn[c] EXCEPT !.op = o]
<1>1. conn[c] \in Connection /\ Sound(conn[c])
  BY DEF Inv
<1>2. q \in Connection /\ Kept(conn[c], q) /\ q.phase = conn[c].phase /\ q.op = o
  BY <1>1 DEF Connection, Kept
<1>3. (q.op # "none") <=> (q.phase \in NetPhases)
  BY <1>1, <1>2 DEF Sound
<1> QED BY <1>2, <1>3, ChainInv

LEMMA ReadMovesInv ==
  ASSUME Inv, NEW c \in Conns, RunRead(c) \/ NetSucceeds(c) \/ NetFails(c) PROVE Inv'
BY OpInv DEF RunRead, NetSucceeds, NetFails

\* The handlers of messages.
LEMMA HeadHandlerInv == ASSUME Inv, NEW c \in Conns, HeadHandler(c) PROVE Inv'
<1> DEFINE r == CancelTimer(conn[c])
<1>1. conn[c].phase = "head"
  BY DEF HeadHandler, Queued
<1>2. \/ Becomes(c, TellError(End(r)))
      \/ \E q \in {ReadMessage(r), Reply(r), Start(r, "length", TimeoutIdle)}
                    \cup ReadContents(r) : Becomes(c, q)
  BY DEF HeadHandler
<1>3. /\ r \in Connection /\ Kept(conn[c], r) /\ r.phase = "head"
      /\ Sound(r) /\ Follows(conn[c], r) /\ r.phase = conn[c].phase
  BY <1>1, HandlerStarts
<1> HIDE DEF r
<1>4. CASE Becomes(c, TellError(End(r)))
  BY <1>3, <1>4, LostSound, FollowsKept, BecomesInv, Phases
<1>5. CASE Becomes(c, ReadMessage(r))
  BY <1>3, <1>5, ReadMessageContinues, FollowsKept, BecomesInv, Phases
<1>6. CASE Becomes(c, Reply(r))
  BY <1>3, <1>6, ReplySound, FollowsKept, BecomesInv, Phases
<1>7. CASE Becomes(c, Start(r, "length", TimeoutIdle))
  BY <1>3, <1>7, StartContinues, FollowsKept, BecomesInv, Phases
<1>8. CASE \E q \in ReadContents(r) : Becomes(c, q)
  BY <1>3, <1>8, ReadContentsSound, FollowsKept, BecomesInv, Phases
<1> QED BY <1>2, <1>4, <1>5, <1>6, <1>7, <1>8

LEMMA LengthHandlerInv == ASSUME Inv, NEW c \in Conns, LengthHandler(c) PROVE Inv'
<1> DEFINE r == CancelTimer(conn[c])
<1>1. conn[c].phase = "length"
  BY DEF LengthHandler, Queued
<1>2. \/ Becomes(c, TellError(End(r)))
      \/ \E q \in ReadContents(r) : Becomes(c, q)
  BY DEF LengthHandler
<1>3. /\ r \in Connection /\ Kept(conn[c], r) /\ r.phase = "length"
      /\ Sound(r) /\ Follows(conn[c], r) /\ r.phase = conn[c].phase
  BY <1>1, HandlerStarts
<1> HIDE DEF r
<1>4. CASE Becomes(c, TellError(End(r)))
  BY <1>3, <1>4, LostSound, FollowsKept, BecomesInv, Phases
<1>5. CASE \E q \in ReadContents(r) : Becomes(c, q)
  BY <1>3, <1>5, ReadContentsSound, FollowsKept, BecomesInv, Phases
<1> QED BY <1>2, <1>4, <1>5

LEMMA ContentHandlerInv == ASSUME Inv, NEW c \in Conns, ContentHandler(c) PROVE Inv'
<1> DEFINE r == CancelTimer(conn[c])
           m == [r EXCEPT !.phase = "message", !.op = "none"]
<1>1. conn[c].phase = "content"
  BY DEF ContentHandler, Queued
<1>2. \/ Becomes(c, TellError(End(r)))
      \/ Becomes(c, Reply(r))
      \/ r.queued < MaxQueued /\ Becomes(c, ReadMessage(Enqueue(r)))
      \/ Becomes(c, ReadMessage(r))
      \/ Becomes(c, m)
  BY DEF ContentHandler
<1>3. /\ r \in Connection /\ Kept(conn[c], r) /\ r.phase = "content"
      /\ Sound(r) /\ Follows(conn[c], r) /\ r.phase = conn[c].phase
  BY <1>1, HandlerStarts
<1> HIDE DEF r
<1>4. CASE Becomes(c, TellError(End(r)))
  BY <1>3, <1>4, LostSound, FollowsKept, BecomesInv, Phases
<1>5. CASE Becomes(c, Reply(r))
  BY <1>3, <1>5, ReplySound, FollowsKept, BecomesInv, Phases
<1>6. CASE r.queued < MaxQueued /\ Becomes(c, ReadMessage(Enqueue(r)))
  <2> DEFINE e == Enqueue(r)
  <2>1. Sound(e) /\ Follows(r, e) /\ e.phase = "content"
    BY <1>3, <1>6, SendSound, Phases
  <2> HIDE DEF e
  <2>2. Sound(ReadMessage(e)) /\ ReadMessage(e).phase = "head" /\ Follows(e, ReadMessage(e))
    BY <2>1, ReadMessageContinues, Phases
  <2>3. Follows(r, ReadMessage(e))
    BY <1>3, <2>1, <2>2, Phases DEF Follows
  <2>4. Follows(conn[c], ReadMessage(e))
    BY <1>3, <2>3, FollowsKept
  <2> QED BY <1>6, <2>2, <2>4, BecomesInv DEF e
<1>7. CASE Becomes(c, ReadMessage(r))
  BY <1>3, <1>7, ReadMessageContinues, FollowsKept, BecomesInv, Phases
<1>8. CASE Becomes(c, m)
  <2>1. m \in Connection /\ Kept(r, m) /\ m.phase = "message" /\ m.op = "none"
    BY <1>3 DEF Connection, Kept, RunningPhases
  <2> HIDE DEF m
  <2>2. Sound(m) /\ Follows(r, m)
    BY <1>3, <2>1, ChainSound, Phases
  <2> QED BY <1>3, <1>8, <2>2, FollowsKept, BecomesInv
<1> QED BY <1>2, <1>4, <1>5, <1>6, <1>7, <1>8

\* send_close() in a handler finds close_sent false once only; the user's may
\* have found it false before it was set.
LEMMA ReplySendsInv == ASSUME Inv, NEW c \in Conns, ReplySends(c) PROVE Inv'
<1> DEFINE s == conn[c]
           a == [s EXCEPT !.closes = @ + 1]
           e == Enqueue(a)
<1>1. s.phase = "reply" /\ Becomes(c, TellClose(End(e)))
  BY DEF ReplySends
<1>2. s \in Connection /\ Sound(s)
  BY DEF Inv
<1> HIDE DEF s
<1>3. s.told \in {"open", "error"} /\ s.closes \in 0..1 /\ (s.closing => s.closes = 0)
      /\ s.queued \in Nat /\ s.queued <= MaxQueued + s.closes
  BY <1>1, <1>2, Phases, Bound DEF Sound, Connection
<1>4. /\ a \in Connection /\ a.closes = s.closes + 1 /\ a.queued = s.queued /\ a.writer = s.writer
      /\ a.phase = s.phase /\ a.op = s.op /\ a.told = s.told
      /\ a.closing = s.closing /\ a.held = s.held /\ a.unlisted = s.unlisted
  BY <1>2, <1>3 DEF Connection
<1> HIDE DEF a
<1>5. a.queued < MaxQueued + 2
  BY <1>3, <1>4, Bound
<1>6. /\ e \in Connection /\ e.queued = a.queued + 1
      /\ e.writer = (IF a.queued = 0 THEN "posted" ELSE a.writer)
      /\ e.phase = a.phase /\ e.told = a.told /\ e.closes = a.closes
      /\ e.closing = a.closing /\ e.held = a.held /\ e.unlisted = a.unlisted
  BY <1>4, <1>5, EnqueueSound
<1> HIDE DEF e
<1>7. /\ e.told \in {"open", "error"}
      /\ (e.writer # "none") <=> (e.queued > 0)
      /\ e.closing => e.held
      /\ e.queued <= MaxQueued + e.closes
      /\ e.closing => e.closes <= 1
  BY <1>2, <1>3, <1>4, <1>6, Bound DEF Sound
<1>8. /\ End(e) \in Connection /\ Kept(e, End(e)) /\ End(e).phase = "ended" /\ End(e).op = "none"
  BY <1>6, EndKeeps
<1>9. Sound(TellClose(End(e)))
  BY <1>6, <1>7, <1>8, ClosedSound
<1>10. TellClose(End(e)).phase = "ended"
  BY <1>8 DEF TellClose, Connection
<1>11. Follows(s, TellClose(End(e)))
  BY <1>10, Phases DEF Follows
<1> QED BY <1>1, <1>9, <1>11, BecomesInv DEF s

\* What the user does with a connection.
LEMMA HeldIsOpen ==
  ASSUME NEW r, Sound(r), r.held
  PROVE  r.phase \notin HandshakePhases \cup {"free"} /\ ~(r.phase = "ended" /\ r.told = "nothing")
BY DEF Sound

LEMMA GrabInv == ASSUME Inv, NEW c \in Conns, Grab(c) PROVE Inv'
<1>1. PICK b \in BOOLEAN : b /\ Becomes(c, [conn[c] EXCEPT !.held = b])
  BY Zenon DEF Grab
<1>2. conn[c] \in Connection /\ Sound(conn[c]) /\ conn[c].phase \in OpenPhases
  BY DEF Inv, Grab, Listing
<1> DEFINE s == conn[c]
           q == [s EXCEPT !.held = b]
<1> HIDE DEF s
<1>3. /\ q \in Connection /\ q.held = b /\ q.phase = s.phase /\ q.op = s.op /\ q.told = s.told
      /\ q.writer = s.writer /\ q.queued = s.queued /\ q.closes = s.closes
      /\ q.closing = s.closing /\ q.unlisted = s.unlisted
  BY <1>2 DEF Connection, s
<1> HIDE DEF q
<1>4. Sound(q)
  BY <1>1, <1>2, <1>3, Phases DEF Sound, s
<1>5. Follows(s, q)
  BY <1>3 DEF Follows
<1> QED BY <1>1, <1>4, <1>5, BecomesInv DEF s, q

LEMMA SendInv == ASSUME Inv, NEW c \in Conns, Send(c) PROVE Inv'
<1>1. conn[c].held /\ conn[c].queued < MaxQueued /\ Becomes(c, Enqueue(conn[c]))
  BY DEF Send
<1>2. Sound(conn[c])
  BY DEF Inv
<1>3. Sound(Enqueue(conn[c])) /\ Follows(conn[c], Enqueue(conn[c]))
  BY <1>1, <1>2, HeldIsOpen, SendSound
<1> QED BY <1>1, <1>3, BecomesInv

LEMMA UserTestsCloseInv == ASSUME Inv, NEW c \in Conns, UserTestsClose(c) PROVE Inv'
<1>1. PICK b \in BOOLEAN : b /\ Becomes(c, [conn[c] EXCEPT !.closing = b])
  BY Zenon DEF UserTestsClose
<1>2. conn[c] \in Connection /\ Sound(conn[c]) /\ conn[c].held /\ conn[c].closes = 0
  BY DEF Inv, UserTestsClose
<1> DEFINE s == conn[c]
           q == [s EXCEPT !.closing = b]
<1> HIDE DEF s
<1>3. /\ q \in Connection /\ q.closing = b /\ q.phase = s.phase /\ q.op = s.op /\ q.told = s.told
      /\ q.writer = s.writer /\ q.queued = s.queued /\ q.closes = s.closes
      /\ q.held = s.held /\ q.unlisted = s.unlisted
  BY <1>2 DEF Connection, s
<1> HIDE DEF q
<1>4. Sound(q)
  BY <1>2, <1>3 DEF Sound, s
<1>5. Follows(s, q)
  BY <1>3 DEF Follows
<1> QED BY <1>1, <1>4, <1>5, BecomesInv DEF s, q

LEMMA UserSendsCloseInv == ASSUME Inv, NEW c \in Conns, UserSendsClose(c) PROVE Inv'
<1> DEFINE s == conn[c]
<1>1. PICK b \in BOOLEAN : ~b /\ Becomes(c, Enqueue([s EXCEPT !.closing = b, !.closes = @ + 1]))
  BY Zenon DEF UserSendsClose
<1>2. s \in Connection /\ Sound(s) /\ s.closing
  BY DEF Inv, UserSendsClose
<1> DEFINE a == [s EXCEPT !.closing = b, !.closes = @ + 1]
           e == Enqueue(a)
<1> HIDE DEF s
<1>3. s.closes \in 0..1 /\ s.queued \in Nat /\ s.queued <= MaxQueued + s.closes /\ s.held
  BY <1>2, Bound DEF Sound, Connection
<1>4. /\ a \in Connection /\ a.closes = s.closes + 1 /\ a.closing = b
      /\ a.queued = s.queued /\ a.writer = s.writer /\ a.phase = s.phase /\ a.op = s.op
      /\ a.told = s.told /\ a.held = s.held /\ a.unlisted = s.unlisted
  <2>1. ASSUME NEW n \in 0..2
        PROVE  LET x == [s EXCEPT !.closing = b, !.closes = n] IN
               /\ x \in Connection /\ x.closes = n /\ x.closing = b
               /\ x.queued = s.queued /\ x.writer = s.writer /\ x.phase = s.phase /\ x.op = s.op
               /\ x.told = s.told /\ x.held = s.held /\ x.unlisted = s.unlisted
    BY <1>2 DEF Connection
  <2>2. s.closes + 1 \in 0..2
    BY <1>3
  <2> QED BY <2>1, <2>2
<1> HIDE DEF a
<1>5. a.queued < MaxQueued + 2
  BY <1>3, <1>4, Bound
<1>6. /\ e \in Connection /\ e.queued = a.queued + 1
      /\ e.writer = (IF a.queued = 0 THEN "posted" ELSE a.writer)
      /\ e.phase = a.phase /\ e.op = a.op /\ e.told = a.told /\ e.closes = a.closes
      /\ e.closing = a.closing /\ e.held = a.held /\ e.unlisted = a.unlisted
  BY <1>4, <1>5, EnqueueSound
<1> HIDE DEF e
<1>7. Sound(e)
  BY <1>1, <1>2, <1>3, <1>4, <1>6, HeldIsOpen, Phases, Bound DEF Sound
<1>8. Follows(s, e)
  BY <1>4, <1>6 DEF Follows
<1> QED BY <1>1, <1>7, <1>8, BecomesInv DEF s, a, e

LEMMA UserReleasesInv == ASSUME Inv, NEW c \in Conns, UserReleases(c) PROVE Inv'
<1>1. PICK b \in BOOLEAN : ~b /\ Becomes(c, [conn[c] EXCEPT !.held = b])
  BY Zenon DEF UserReleases
<1>2. conn[c] \in Connection /\ Sound(conn[c]) /\ ~conn[c].closing
  BY DEF Inv, UserReleases
<1> DEFINE s == conn[c]
           q == [s EXCEPT !.held = b]
<1> HIDE DEF s
<1>3. /\ q \in Connection /\ q.held = b /\ q.phase = s.phase /\ q.op = s.op /\ q.told = s.told
      /\ q.writer = s.writer /\ q.queued = s.queued /\ q.closes = s.closes
      /\ q.closing = s.closing /\ q.unlisted = s.unlisted
  BY <1>2 DEF Connection, s
<1> HIDE DEF q
<1>4. Sound(q)
  BY <1>1, <1>2, <1>3 DEF Sound, s
<1>5. Follows(s, q)
  BY <1>3 DEF Follows
<1> QED BY <1>1, <1>4, <1>5, BecomesInv DEF s, q

\* The chain of writes.
LEMMA WriterMovesInv ==
  ASSUME Inv, NEW c \in Conns, RunSend(c) \/ SendCompletes(c) PROVE Inv'
<1>1. Sound(conn[c])
  BY DEF Inv
<1>2. conn[c].writer # "none" /\ \E w \in {"pending", "ok", "failed"} :
        Becomes(c, [conn[c] EXCEPT !.writer = w])
  BY DEF RunSend, SendCompletes
<1> QED BY <1>1, <1>2, WriterSound, BecomesInv

LEMMA SendHandlerInv == ASSUME Inv, NEW c \in Conns, SendHandler(c) PROVE Inv'
<1> DEFINE s == conn[c]
           r == SetTimer(s, TimeoutIdle)
           left == IF r.writer = "ok" THEN r.queued - 1 ELSE 0
           done == [r EXCEPT !.writer = "none", !.queued = 0]
           t == SetTimer(r, TimeoutIdle)
           next == [t EXCEPT !.writer = "posted", !.queued = left]
<1>1. Becomes(c, IF left = 0 THEN done ELSE next) /\ s.writer # "none"
  BY DEF SendHandler
<1>2. s \in Connection /\ Sound(s)
  BY DEF Inv
<1> HIDE DEF s
<1>3. r \in Connection /\ Kept(s, r) /\ r.phase = s.phase /\ r.op = s.op
  BY <1>2, SetTimerKeeps, Booleans
<1>4. Sound(r) /\ Follows(s, r)
  BY <1>2, <1>3, ChainSound DEF Sound
<1> HIDE DEF r
<1>5. t \in Connection /\ Kept(r, t) /\ t.phase = r.phase /\ t.op = r.op
  BY <1>3, SetTimerKeeps, Booleans
<1>6. Sound(t) /\ Follows(r, t)
  BY <1>4, <1>5, ChainSound DEF Sound
<1> HIDE DEF t
<1>7. r.queued \in 1..(MaxQueued + 2) /\ t.queued = r.queued /\ r.queued <= MaxQueued + t.closes
  BY <1>1, <1>3, <1>4, <1>5, Bound DEF Sound, Kept, Connection
<1>8. CASE left = 0
  <2>1. /\ done \in Connection /\ done.writer = "none" /\ done.queued = 0
        /\ done.phase = r.phase /\ done.op = r.op /\ done.told = r.told
        /\ done.closes = r.closes /\ done.closing = r.closing /\ done.held = r.held
        /\ done.unlisted = r.unlisted
    <3>1. 0 \in 0..(MaxQueued + 2)
      BY Bound
    <3> QED BY <1>3, <3>1 DEF Connection
  <2> HIDE DEF done, left
  <2>2. Sound(done)
    BY <1>4, <2>1, Bound DEF Sound, Connection
  <2>3. Follows(s, done)
    BY <1>4, <2>1 DEF Follows
  <2> QED BY <1>1, <1>8, <2>2, <2>3, BecomesInv DEF s
<1>9. CASE left # 0
  <2>1. left \in 1..(MaxQueued + 2) /\ left <= t.queued
    BY <1>7, <1>9, Bound
  <2> HIDE DEF left, done
  <2>2. /\ next \in Connection /\ next.writer = "posted" /\ next.queued = left
        /\ next.phase = t.phase /\ next.op = t.op /\ next.told = t.told
        /\ next.closes = t.closes /\ next.closing = t.closing /\ next.held = t.held
        /\ next.unlisted = t.unlisted
    <3>1. left \in 0..(MaxQueued + 2)
      BY <2>1, Bound
    <3> QED BY <1>5, <3>1 DEF Connection
  <2> HIDE DEF next
  <2>3. t.queued > 0 /\ t.queued \in Nat /\ MaxQueued + t.closes \in Nat /\ t.closes \in Nat
    BY <1>5, <1>7, Bound DEF Connection
  <2>4. Sound(next)
    BY <1>6, <2>1, <2>2, <2>3, Bound DEF Sound
  <2>5. Follows(s, next)
    BY <1>4, <1>6, <2>2, <1>5 DEF Follows, Kept
  <2> QED BY <1>1, <1>9, <2>4, <2>5, BecomesInv DEF s
<1> QED BY <1>8, <1>9

\* Timers close, whatever the connection does by then.
LEMMA TimerExpiresInv == ASSUME Inv, NEW c \in Conns, TimerExpires(c) PROVE Inv'
<1> DEFINE q == [conn[c] EXCEPT !.timer = "due"]
<1>1. conn[c] \in Connection /\ Sound(conn[c]) /\ Becomes(c, q)
  BY DEF Inv, TimerExpires
<1>2. q \in Connection /\ Kept(conn[c], q) /\ q.phase = conn[c].phase /\ q.op = conn[c].op
  BY <1>1 DEF Connection, Kept
<1>3. (q.op # "none") <=> (q.phase \in NetPhases)
  BY <1>1, <1>2 DEF Sound
<1> QED BY <1>1, <1>2, <1>3, ChainInv

LEMMA CloseInv ==
  ASSUME Inv, NEW c \in Conns, NEW q \in Connection, Kept(conn[c], q),
         q.phase = conn[c].phase, q.op = conn[c].op, Becomes(c, Close(q))
  PROVE  Inv'
<1>1. (q.op # "none") <=> (q.phase \in NetPhases)
  BY DEF Inv, Sound
<1>2. Sound(q)
  BY <1>1, ChainSound DEF Inv
<1>3. Sound(Close(q)) /\ Follows(q, Close(q))
  BY <1>2, CloseSound
<1> QED BY <1>3, FollowsKept, BecomesInv

LEMMA TimerHandlersInv ==
  ASSUME Inv, NEW c \in Conns, TimerHandler(c) \/ StaleTimerHandler(c) PROVE Inv'
<1>1. conn[c] \in Connection
  BY DEF Inv
<1>2. CASE TimerHandler(c)
  <2> DEFINE q == [conn[c] EXCEPT !.timer = "off"]
  <2>1. q \in Connection /\ Kept(conn[c], q) /\ q.phase = conn[c].phase /\ q.op = conn[c].op
    BY <1>1 DEF Connection, Kept
  <2> QED BY <1>2, <2>1, CloseInv DEF TimerHandler
<1>3. CASE StaleTimerHandler(c)
  <2>1. PICK b \in BOOLEAN : Becomes(c, Close([conn[c] EXCEPT !.stale = b]))
    BY <1>3, Zenon DEF StaleTimerHandler
  <2> DEFINE q == [conn[c] EXCEPT !.stale = b]
  <2>2. q \in Connection /\ Kept(conn[c], q) /\ q.phase = conn[c].phase /\ q.op = conn[c].op
    BY <1>1 DEF Connection, Kept
  <2> QED BY <2>1, <2>2, CloseInv
<1> QED BY <1>2, <1>3

LEMMA DeleteInv == ASSUME Inv, NEW c \in Conns, Delete(c) PROVE Inv'
<1>1. conn[c].phase = "ended" /\ Becomes(c, Blank)
  BY DEF Delete
<1>2. Follows(conn[c], Blank)
  BY <1>1, Phases DEF Follows, Blank
<1> QED BY <1>1, <1>2, BlankSound, BecomesInv

\* stop(): what is listed is closed, and nothing is listed afterwards.
LEMMA StopConnectionsInv == ASSUME Inv, StopConnections PROVE Inv'
<1>1. /\ conn' = [c \in Conns |->
                    IF c \in listed THEN Close([conn[c] EXCEPT !.unlisted = TRUE]) ELSE conn[c]]
      /\ listed' = {} /\ stopAt' = "idle"
      /\ UNCHANGED <<acceptor, accepting, destroyed>>
  BY DEF StopConnections
<1>2. ASSUME NEW c \in Conns
      PROVE  Sound(conn'[c]) /\ ~(conn'[c].phase \in OpenPhases /\ conn'[c].told = "open"
                                                               /\ ~conn'[c].unlisted)
  <2>1. conn[c] \in Connection /\ Sound(conn[c])
    BY DEF Inv
  <2>2. CASE c \notin listed
    BY <1>1, <2>1, <2>2 DEF Inv, Listing
  <2>3. CASE c \in listed
    <3>1. PICK b \in BOOLEAN : b /\ conn'[c] = Close([conn[c] EXCEPT !.unlisted = b])
      <4>1. conn'[c] = Close([conn[c] EXCEPT !.unlisted = TRUE])
        BY <1>1, <2>3, Zenon
      <4> QED BY <4>1, Zenon
    <3> DEFINE q == [conn[c] EXCEPT !.unlisted = b]
    <3>2. conn[c].phase \in OpenPhases
      BY <2>3 DEF Inv, Listing
    <3>3. /\ q \in Connection /\ q.unlisted = b /\ q.phase = conn[c].phase /\ q.op = conn[c].op
          /\ q.told = conn[c].told /\ q.writer = conn[c].writer /\ q.queued = conn[c].queued
          /\ q.closes = conn[c].closes /\ q.closing = conn[c].closing /\ q.held = conn[c].held
      BY <2>1 DEF Connection
    <3>4. conn'[c] = Close(q)
      BY <3>1
    <3> HIDE DEF q
    <3>5. Sound(q)
      BY <2>1, <3>2, <3>3, Phases DEF Sound
    <3>6. Sound(Close(q)) /\ Close(q).unlisted = q.unlisted
      BY <3>5, CloseSound
    <3> QED BY <3>1, <3>3, <3>4, <3>6
  <2> QED BY <2>2, <2>3
<1>3. conn' \in [Conns -> Connection]
  <2>1. \A c \in Conns : conn'[c] \in Connection
    BY <1>2 DEF Sound
  <2> QED BY <1>1, <2>1
<1>4. Listing'
  BY <1>1, <1>2 DEF Listing
<1>5. ioRunning' \in BOOLEAN
  BY DEF StopConnections, Inv
<1> QED BY <1>1, <1>2, <1>3, <1>4, <1>5 DEF Inv

LEMMA DestroyInv == ASSUME Inv, Destroy PROVE Inv'
<1>1. /\ conn' = [c \in Conns |-> Blank] /\ listed' = {}
      /\ acceptor' = "none" /\ accepting' = "none" /\ destroyed' \in BOOLEAN
      /\ UNCHANGED <<stopAt, ioRunning>>
  BY DEF Destroy
<1>2. Blank \in Connection /\ Blank.phase \notin OpenPhases
  BY BlankSound, Phases DEF Sound, Blank
<1> QED BY <1>1, <1>2, BlankSound DEF Inv, Listing

LEMMA AcceptorInv ==
  ASSUME Inv, StartServer \/ AcceptCompletes \/ StopAcceptor \/ StopAccept PROVE Inv'
<1>1. /\ UNCHANGED <<conn, listed, destroyed>>
      /\ acceptor' \in {"none", "open", "closed"}
      /\ accepting' \in {"none", "pending", "ok", "failed", "aborted"}
      /\ stopAt' \in {"idle", "acceptorClosed"} /\ ioRunning' \in BOOLEAN
  BY DEF Inv, StartServer, AcceptCompletes, StopAcceptor, StopAccept, CloseAcceptor
<1> QED BY <1>1 DEF Inv, Listing

-----------------------------------------------------------------------------
(* The theorems *)

LEMMA InitInv == Init => Inv
<1> SUFFICES ASSUME Init PROVE Inv
  OBVIOUS
<1>1. Blank \in Connection /\ Blank.phase \notin OpenPhases
  BY BlankSound, Phases DEF Sound, Blank
<1> QED BY <1>1, BlankSound DEF Init, Inv, Listing

LEMMA NextInv == Inv /\ [Next]_vars => Inv'
<1> SUFFICES ASSUME Inv, [Next]_vars PROVE Inv'
  OBVIOUS
<1>1. CASE UNCHANGED vars
  BY <1>1 DEF vars, Inv, Listing
<1>2. ASSUME NEW c \in Conns, ConnStep(c) PROVE Inv'
  <2>1. CASE Upgrade(c) \/ HandshakeHandlers(c)
    BY <2>1, UpgradeInv, TlsHandlerInv, ReadHandshakeHandlerInv, WriteHandshakeHandlerInv
       DEF HandshakeHandlers
  <2>2. CASE MessageHandlers(c)
    BY <2>2, ReadMovesInv, HeadHandlerInv, LengthHandlerInv, ContentHandlerInv, ReplySendsInv
       DEF MessageHandlers
  <2>3. CASE UserSteps(c)
    BY <2>3, GrabInv, SendInv, UserTestsCloseInv, UserSendsCloseInv, UserReleasesInv, UserReturnsInv
       DEF UserSteps
  <2>4. CASE WriterSteps(c) \/ SendCompletes(c)
    BY <2>4, WriterMovesInv, SendHandlerInv DEF WriterSteps
  <2>5. CASE NetSucceeds(c) \/ NetFails(c)
    BY <2>5, ReadMovesInv
  <2>6. CASE TimerExpires(c) \/ TimerHandler(c) \/ StaleTimerHandler(c) \/ Delete(c)
    BY <2>6, TimerExpiresInv, TimerHandlersInv, DeleteInv
  <2> QED BY <1>2, <2>1, <2>2, <2>3, <2>4, <2>5, <2>6 DEF ConnStep
<1>3. CASE StartServer \/ AcceptCompletes \/ StopAcceptor \/ StopAccept
  BY <1>3, AcceptorInv
<1>4. CASE AcceptHandler \/ StopConnections \/ Destroy
  BY <1>4, AcceptHandlerInv, StopConnectionsInv, DestroyInv
<1> QED BY <1>1, <1>2, <1>3, <1>4 DEF Next

LEMMA Invariance == Spec => []Inv
BY InitInv, NextInv, PTL DEF Spec

\* Every variable has its type; an operation is outstanding exactly in the
\* phases that have one, and a write exactly while frames are queued.
THEOREM TypeCorrect == Spec => []TypeOK
<1>1. Inv => TypeOK
  BY DEF Inv, TypeOK, Sound
<1> QED BY <1>1, Invariance, PTL

\* get_connections() returns exactly the connections that were opened and are
\* not over, for any number of them (connection_open, _close and _error, stop).
THEOREM ListedExactly == Spec => []ListedAreOpen
<1>1. Inv => ListedAreOpen
  BY DEF Inv, Listing, ListedAreOpen
<1> QED BY <1>1, Invariance, PTL

\* Whoever ends an opened connection, the user is told exactly once: by on_close,
\* by on_error, or by one after the other when a message was too big.
THEOREM EndToldOnce == Spec => []ToldOnce
<1>1. Inv => ToldOnce
  <2> SUFFICES ASSUME Inv, NEW c \in Conns
               PROVE  /\ conn[c].told # "twice"
                      /\ conn[c].phase \in HandshakePhases => conn[c].told = "nothing"
                      /\ conn[c].phase = "ended" => conn[c].told # "open"
    BY DEF ToldOnce
  <2>1. Sound(conn[c])
    BY DEF Inv
  <2> QED BY <2>1, Phases DEF Sound, Connection
<1> QED BY <1>1, Invariance, PTL

=============================================================================
