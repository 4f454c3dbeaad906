---------------------------- MODULE WsClientProofs ----------------------------
(***************************************************************************)
(* The WebSocket client: type correctness and ToldOnce of WsClient, for    *)
(* any number of connections, any bound on the queue and all settings; and *)
(* that the reader of WsFrames keeps in step with the bytes it counts and  *)
(* makes of them the messages sent, for any frames, sizes and limits.      *)
(*                                                                         *)
(* The invariant of WsClient is Inv: every record is Sound, and the client *)
(* is destroyed just when continue_lock() may refuse.  Most steps go       *)
(* through Becomes or Handler, so the work is to show of each new record   *)
(* that it is Sound.                                                       *)
(***************************************************************************)
EXTENDS WsClient, WsFrames, FiniteSetTheorems, TLAPS

-----------------------------------------------------------------------------
(* WsClient: what is true of every connection by itself *)

BeforePhases == ConnectPhases \cup SetupPhases
OpenPhases == ReadPhases \cup UserPhases

\* How many close frames there are, or will be by those that have found close_sent
\* false: the user, the idle timer and the handler of a read, each at most once.
CloseFrames(r) ==
  r.closes + (IF "user" \in r.closers THEN 1 ELSE 0) + (IF "timer" \in r.closers THEN 1 ELSE 0)
           + (IF r.phase = "reply" THEN 1 ELSE 0)

\* What the user has been told agrees with how far the chain of reads is.
ToldSound(r) ==
  /\ r.phase \in BeforePhases \cup {"free"} => r.told = "nothing"
  /\ r.phase \in OpenPhases => r.told = "open"
  /\ r.phase = "reply" => r.told \in {"open", "error"}
  /\ r.phase = "ended" => r.told # "twice"
  /\ r.phase = "ended" /\ r.told \in {"nothing", "open"} => r.refused
  /\ r.refused => r.phase = "ended"

Sound(r) ==
  /\ r \in Connection
  /\ (r.op # "none") <=> (r.phase \in NetPhases)
  /\ (r.writer # "none") <=> (r.queued > 0)
  /\ r.queued <= MaxQueued + r.closes
  /\ CloseFrames(r) <= 3
  /\ ToldSound(r)

\* What the destructor's wait for continue_lock() gives: no handler runs after it, and
\* none is refused before.
Inv ==
  /\ conn \in [Conns -> Connection]
  /\ connection \in Conns \cup {NoConn, Other}
  /\ ioRunning \in BOOLEAN /\ destroyed \in BOOLEAN /\ config \in Configs
  /\ \A c \in Conns :
       /\ Sound(conn[c])
       /\ conn[c].refused => destroyed
       /\ destroyed => conn[c].phase \notin RunningPhases
       /\ connection = c => conn[c].phase # "free"

\* q differs from r in its chain, its timer and its socket only.
Kept(r, q) ==
  /\ q.told = r.told /\ q.refused = r.refused /\ q.writer = r.writer /\ q.queued = r.queued
  /\ q.closes = r.closes /\ q.closers = r.closers /\ q.held = r.held

Closers == {"user", "timer"}

-----------------------------------------------------------------------------
(* The helpers *)

LEMMA Phases ==
  /\ ConnectPhases = {"resolve", "connect"}
  /\ SetupPhases = {"proxyWrite", "proxyRead", "tls", "writeUpgrade", "readUpgrade"}
  /\ ReadPhases = {"head", "length", "content"}
  /\ UserPhases = {"opening", "message"}
  /\ RunningPhases = {"opening", "message", "reply"}
  /\ NetPhases = {"resolve", "connect", "proxyWrite", "proxyRead", "tls", "writeUpgrade",
                  "readUpgrade", "head", "length", "content"}
  /\ BeforePhases = {"resolve", "connect", "proxyWrite", "proxyRead", "tls", "writeUpgrade",
                     "readUpgrade"}
  /\ OpenPhases = {"head", "length", "content", "opening", "message"}
BY DEF ConnectPhases, SetupPhases, ReadPhases, UserPhases, RunningPhases, NetPhases, BeforePhases,
       OpenPhases

LEMMA Bound == MaxQueued \in Nat \ {0}
BY ConfigAssumption

LEMMA Fields ==
  ASSUME NEW r \in Connection
  PROVE  /\ r.phase \in NetPhases \cup RunningPhases \cup {"free", "ended"}
         /\ r.queued \in Nat /\ r.closes \in 0..3 /\ r.closers \subseteq Closers
         /\ r.held \in BOOLEAN /\ r.refused \in BOOLEAN
BY Bound DEF Connection, Closers

\* cancel_timeout() and set_timeout() touch the timer only.
LEMMA DropTimerKeeps ==
  ASSUME NEW r \in Connection
  PROVE  /\ DropTimer(r) \in Connection /\ Kept(r, DropTimer(r))
         /\ DropTimer(r).phase = r.phase /\ DropTimer(r).op = r.op
<1> DEFINE stale == IF r.timer = "due" THEN r.stale \cup {r.kind} ELSE r.stale
<1>1. stale \in SUBSET {"request", "idle"}
  BY DEF Connection
<1>2. DropTimer(r) = [r EXCEPT !.stale = stale, !.timer = "off"]
  BY DEF DropTimer, Connection
<1> HIDE DEF stale
<1>3. DropTimer(r) \in Connection
  <2> DEFINE q == [r EXCEPT !.stale = stale]
  <2>1. q \in Connection
    BY <1>1 DEF Connection
  <2>2. DropTimer(r) = [q EXCEPT !.timer = "off"]
    BY <1>2 DEF Connection
  <2> HIDE DEF q
  <2> QED  BY <2>1, <2>2 DEF Connection
<1>4. Kept(r, DropTimer(r)) /\ DropTimer(r).phase = r.phase /\ DropTimer(r).op = r.op
  BY <1>2 DEF Connection, Kept
<1> QED  BY <1>3, <1>4

LEMMA SetTimerKeeps ==
  ASSUME NEW r \in Connection, NEW kind \in {"request", "idle"}
  PROVE  /\ SetTimer(r, kind) \in Connection /\ Kept(r, SetTimer(r, kind))
         /\ SetTimer(r, kind).phase = r.phase /\ SetTimer(r, kind).op = r.op
<1> DEFINE d == DropTimer(r)
           a == [d EXCEPT !.timer = "armed", !.kind = kind]
<1>1. d \in Connection /\ Kept(r, d) /\ d.phase = r.phase /\ d.op = r.op
  BY DropTimerKeeps
<1>2. SetTimer(r, kind) = a \/ SetTimer(r, kind) = d
  BY DEF SetTimer
<1> HIDE DEF d
<1>3. a \in Connection /\ Kept(d, a) /\ a.phase = d.phase /\ a.op = d.op
  <2>1. a \in Connection
    <3> DEFINE b == [d EXCEPT !.timer = "armed"]
    <3>1. b \in Connection
      BY <1>1 DEF Connection
    <3>2. a = [b EXCEPT !.kind = kind]
      OBVIOUS
    <3> HIDE DEF a, b
    <3>3. CASE kind = "request"
      BY <3>1, <3>2, <3>3 DEF Connection
    <3>4. CASE kind = "idle"
      BY <3>1, <3>2, <3>4 DEF Connection
    <3> QED  BY <3>3, <3>4
  <2>2. Kept(d, a) /\ a.phase = d.phase /\ a.op = d.op
    BY <1>1 DEF Connection, Kept
  <2> QED  BY <2>1, <2>2
<1> HIDE DEF a
<1>4. Kept(r, a) /\ a.phase = r.phase /\ a.op = r.op
  BY <1>1, <1>3 DEF Kept
<1> QED  BY <1>1, <1>2, <1>3, <1>4

LEMMA StartKeeps ==
  ASSUME NEW r \in Connection, NEW p \in NetPhases, NEW kind \in {"request", "idle"}
  PROVE  /\ Start(r, p, kind) \in Connection /\ Kept(r, Start(r, p, kind))
         /\ Start(r, p, kind).phase = p /\ Start(r, p, kind).op = "pending"
<1> DEFINE q == SetTimer(r, kind)
<1>1. q \in Connection /\ Kept(r, q)
  BY SetTimerKeeps
<1>2. Start(r, p, kind) = [q EXCEPT !.phase = p, !.op = "pending"]
  BY DEF Start
<1> HIDE DEF q
<1> DEFINE s == [q EXCEPT !.phase = p, !.op = "pending"]
<1>3. p \in NetPhases \cup RunningPhases \cup {"free", "ended"}
  OBVIOUS
<1>4. s \in Connection
  BY <1>1, <1>3 DEF Connection
<1>5. Kept(q, s) /\ s.phase = p /\ s.op = "pending"
  BY <1>1 DEF Connection, Kept
<1> HIDE DEF s
<1> QED  BY <1>1, <1>2, <1>4, <1>5 DEF Kept, s

LEMMA ReadMessageKeeps ==
  ASSUME NEW r \in Connection
  PROVE  /\ ReadMessage(r) \in Connection /\ Kept(r, ReadMessage(r))
         /\ ReadMessage(r).phase = "head" /\ ReadMessage(r).op = "posted"
<1> DEFINE q == Start(r, "head", "idle")
<1>1. q \in Connection /\ Kept(r, q) /\ q.phase = "head"
  BY StartKeeps, Phases
<1>2. ReadMessage(r) = [q EXCEPT !.op = "posted"]
  BY DEF ReadMessage
<1> HIDE DEF q
<1> QED  BY <1>1, <1>2 DEF Connection, Kept

LEMMA EndKeeps ==
  ASSUME NEW r \in Connection
  PROVE  /\ End(r) \in Connection /\ Kept(r, End(r))
         /\ End(r).phase = "ended" /\ End(r).op = "none"
BY DEF End, Connection, Kept

LEMMA BlankSound == Sound(Blank) /\ Blank.phase = "free" /\ ~Blank.refused
BY Phases, Bound DEF Sound, ToldSound, CloseFrames, Blank, Connection

\* The chain moves on before the connection is open, or while it is.
LEMMA ChainSound ==
  ASSUME NEW r, Sound(r), NEW q \in Connection, Kept(r, q),
         (q.op # "none") <=> (q.phase \in NetPhases),
         \/ q.phase = r.phase
         \/ r.phase \in BeforePhases \cup {"free"} /\ q.phase \in BeforePhases
         \/ r.phase \in OpenPhases /\ q.phase \in OpenPhases
  PROVE  Sound(q) /\ (q.refused <=> r.refused)
<1>1. ToldSound(q)
  BY Phases DEF Sound, ToldSound, Kept
<1>2. CloseFrames(q) <= 3
  <2>1. r.closes \in Nat
    BY Fields DEF Sound
  <2>2. q.closes = r.closes /\ q.closers = r.closers /\ (q.phase = "reply" => r.phase = "reply")
    BY Phases DEF Kept
  <2> QED  BY <2>1, <2>2 DEF Sound, CloseFrames
<1>3. ((q.writer # "none") <=> (q.queued > 0)) /\ q.queued <= MaxQueued + q.closes
  BY DEF Sound, Kept
<1> QED  BY <1>1, <1>2, <1>3 DEF Sound, Kept

LEMMA SameTimer ==
  ASSUME NEW r, Sound(r)
  PROVE  /\ Sound(DropTimer(r)) /\ Kept(r, DropTimer(r))
         /\ DropTimer(r).phase = r.phase /\ DropTimer(r).op = r.op
<1>1. /\ DropTimer(r) \in Connection /\ Kept(r, DropTimer(r))
      /\ DropTimer(r).phase = r.phase /\ DropTimer(r).op = r.op
  BY DropTimerKeeps DEF Sound
<1> QED  BY <1>1, ChainSound DEF Sound

LEMMA NewTimer ==
  ASSUME NEW r, Sound(r), NEW kind \in {"request", "idle"}
  PROVE  /\ Sound(SetTimer(r, kind)) /\ Kept(r, SetTimer(r, kind))
         /\ SetTimer(r, kind).phase = r.phase /\ SetTimer(r, kind).op = r.op
<1>1. /\ SetTimer(r, kind) \in Connection /\ Kept(r, SetTimer(r, kind))
      /\ SetTimer(r, kind).phase = r.phase /\ SetTimer(r, kind).op = r.op
  BY SetTimerKeeps DEF Sound
<1> QED  BY <1>1, ChainSound DEF Sound

-----------------------------------------------------------------------------
(* What handlers may leave *)

\* A chain that ends, with something told or refused.
LEMMA EndedSound ==
  ASSUME NEW r, Sound(r), NEW q \in Connection, q.phase = "ended", q.op = "none",
         q.writer = r.writer, q.queued = r.queued, q.closes = r.closes, q.closers = r.closers,
         q.told # "twice", q.told \in {"nothing", "open"} => q.refused
  PROVE  Sound(q)
<1>1. CloseFrames(q) <= 3
  <2>1. r.closes \in Nat
    BY Fields DEF Sound
  <2> QED  BY <2>1 DEF Sound, CloseFrames
<1>2. ToldSound(q)
  BY Phases DEF ToldSound
<1>3. ((q.writer # "none") <=> (q.queued > 0)) /\ q.queued <= MaxQueued + q.closes
  BY DEF Sound
<1>4. ~((q.op # "none")) /\ q.phase \notin NetPhases
  BY Phases
<1> QED  BY <1>1, <1>2, <1>3, <1>4 DEF Sound

LEMMA ToldAndRefused ==
  ASSUME NEW r, Sound(r)
  PROVE  /\ r \in Connection /\ r.refused \in BOOLEAN
         /\ r.phase \in NetPhases => r.told \in {"nothing", "open"} /\ ~r.refused
         /\ r.phase \in OpenPhases => r.told = "open" /\ ~r.refused
         /\ r.phase = "reply" => r.told \in {"open", "error"} /\ ~r.refused
         /\ r.phase \notin {"free"} => r.phase \in NetPhases \cup RunningPhases \cup {"ended"}
<1>1. r \in Connection /\ ToldSound(r)
  BY DEF Sound
<1> QED  BY <1>1, Phases, Fields DEF ToldSound

\* An operation that failed is told as an error.
LEMMA LostSound ==
  ASSUME NEW r, Sound(r), r.phase \in NetPhases
  PROVE  /\ Sound(TellError(End(r))) /\ ~TellError(End(r)).refused
         /\ TellError(End(r)).phase = "ended"
<1> DEFINE e == End(r)
           q == [e EXCEPT !.told = "error"]
<1>1. r \in Connection /\ r.told \in {"nothing", "open"} /\ ~r.refused
  BY ToldAndRefused
<1>2. e \in Connection /\ Kept(r, e) /\ e.phase = "ended" /\ e.op = "none"
  BY <1>1, EndKeeps
<1>3. TellError(e) = q
  BY <1>1, <1>2 DEF TellError, Kept
<1> HIDE DEF e
<1>4. /\ q \in Connection /\ q.phase = "ended" /\ q.op = "none" /\ q.told = "error"
      /\ q.writer = e.writer /\ q.queued = e.queued /\ q.closes = e.closes
      /\ q.closers = e.closers /\ q.refused = e.refused
  BY <1>2 DEF Connection
<1> HIDE DEF q
<1>5. Sound(q)
  BY <1>2, <1>4, EndedSound DEF Kept
<1> QED  BY <1>1, <1>2, <1>3, <1>4, <1>5 DEF Kept, e

\* continue_lock() refuses the handler: nothing is told.
LEMMA RefusedSound ==
  ASSUME NEW r, Sound(r), r.phase \in NetPhases
  PROVE  Sound(Refused(r)) /\ Refused(r).phase = "ended"
<1> DEFINE e == End(r)
<1>1. r \in Connection /\ r.told \in {"nothing", "open"}
  BY ToldAndRefused
<1>2. e \in Connection /\ Kept(r, e) /\ e.phase = "ended" /\ e.op = "none"
  BY <1>1, EndKeeps
<1>3. PICK b \in BOOLEAN : b /\ Refused(r) = [e EXCEPT !.refused = b]
  BY Zenon DEF Refused
<1> DEFINE q == [e EXCEPT !.refused = b]
<1> HIDE DEF e
<1>4. /\ q \in Connection /\ q.phase = "ended" /\ q.op = "none" /\ q.told = e.told
      /\ q.writer = e.writer /\ q.queued = e.queued /\ q.closes = e.closes
      /\ q.closers = e.closers /\ q.refused = b
  BY <1>2 DEF Connection
<1>5. Refused(r) = q
  BY <1>3 DEF e
<1> HIDE DEF q
<1>6. Sound(q)
  <2>1. q.refused /\ q.told # "twice"
    BY <1>1, <1>2, <1>3, <1>4 DEF Kept
  <2> QED  BY <1>2, <1>4, <2>1, EndedSound DEF Kept
<1> QED  BY <1>4, <1>5, <1>6

\* on_close, of a connection that was open.
LEMMA ClosedSound ==
  ASSUME NEW r, Sound(r), r.told \in {"open", "error"}, ~r.refused
  PROVE  /\ Sound(TellClose(End(r))) /\ ~TellClose(End(r)).refused
         /\ TellClose(End(r)).phase = "ended"
<1> DEFINE e == End(r)
           t == IF e.told = "open" THEN "closed" ELSE "errorClosed"
           q == [e EXCEPT !.told = t]
<1>1. e \in Connection /\ Kept(r, e) /\ e.phase = "ended" /\ e.op = "none"
  BY EndKeeps DEF Sound
<1>2. TellClose(e) = q
  BY <1>1 DEF TellClose, Kept
<1>3. t \in {"closed", "errorClosed"}
  OBVIOUS
<1> HIDE DEF e, t
<1>4. /\ q \in Connection /\ q.phase = "ended" /\ q.op = "none" /\ q.told = t
      /\ q.writer = e.writer /\ q.queued = e.queued /\ q.closes = e.closes
      /\ q.closers = e.closers /\ q.refused = e.refused
  BY <1>1, <1>3 DEF Connection
<1> HIDE DEF q
<1>5. Sound(q)
  BY <1>1, <1>3, <1>4, EndedSound DEF Kept
<1> QED  BY <1>1, <1>2, <1>4, <1>5 DEF Kept, e

\* send_close() in the handler of a read, at its test of close_sent.
LEMMA AtReply ==
  ASSUME NEW r, Sound(r), r.phase \in ReadPhases, r.closes = 0, NEW t \in {"open", "error"},
         NEW q, q = [r EXCEPT !.phase = "reply", !.op = "none", !.told = t]
  PROVE  Sound(q) /\ ~q.refused /\ q.phase = "reply"
<1>1. r \in Connection /\ ~r.refused
  BY ToldAndRefused, Phases
<1>2. /\ q \in Connection /\ q.phase = "reply" /\ q.op = "none" /\ q.told = t
      /\ q.writer = r.writer /\ q.queued = r.queued /\ q.closes = r.closes
      /\ q.closers = r.closers /\ q.refused = r.refused
  <2> DEFINE a == [r EXCEPT !.phase = "reply"]
             b == [a EXCEPT !.op = "none"]
  <2>1. a \in Connection /\ q = [b EXCEPT !.told = t]
    BY <1>1, Phases DEF Connection
  <2> HIDE DEF a, b
  <2>2. b \in Connection
    BY <2>1 DEF Connection, b
  <2>3. q \in Connection
    BY <2>1, <2>2 DEF Connection
  <2>4. /\ q.phase = "reply" /\ q.op = "none" /\ q.told = t
        /\ q.writer = r.writer /\ q.queued = r.queued /\ q.closes = r.closes
        /\ q.closers = r.closers /\ q.refused = r.refused
    BY <1>1 DEF Connection
  <2> QED  BY <2>3, <2>4
<1>3. CloseFrames(q) <= 3
  BY <1>2 DEF CloseFrames
<1>4. ToldSound(q)
  BY <1>1, <1>2, Phases DEF ToldSound
<1>5. ((q.writer # "none") <=> (q.queued > 0)) /\ q.queued <= MaxQueued + q.closes
  BY <1>2 DEF Sound
<1> QED  BY <1>1, <1>2, <1>3, <1>4, <1>5, Phases DEF Sound

LEMMA ReplySound ==
  ASSUME NEW r, Sound(r), r.phase \in ReadPhases
  PROVE  Sound(Reply(r)) /\ ~Reply(r).refused /\ Reply(r).phase # "free"
<1>1. r \in Connection /\ r.told = "open" /\ ~r.refused /\ r.closes \in Nat
  BY ToldAndRefused, Fields, Phases
<1>2. CASE r.closes > 0
  <2>1. Reply(r) = TellClose(End(r))
    BY <1>2 DEF Reply
  <2> QED  BY <1>1, <2>1, ClosedSound
<1>3. CASE ~(r.closes > 0)
  <2>1. Reply(r) = [r EXCEPT !.phase = "reply", !.op = "none", !.told = "open"]
    BY <1>1, <1>3 DEF Reply, Connection
  <2>2. r.closes = 0
    BY <1>1, <1>3
  <2> QED  BY <2>1, <2>2, AtReply
<1> QED  BY <1>2, <1>3

\* A message that is too big: an error, and then a close.
LEMMA TooBigSound ==
  ASSUME NEW r, Sound(r), r.phase \in ReadPhases
  PROVE  /\ Sound(Reply(TellError(r))) /\ ~Reply(TellError(r)).refused
         /\ Reply(TellError(r)).phase # "free"
<1> DEFINE e == TellError(r)
<1>1. r \in Connection /\ r.told = "open" /\ ~r.refused /\ r.closes \in Nat
  BY ToldAndRefused, Fields, Phases
<1>2. e = [r EXCEPT !.told = "error"]
  BY <1>1 DEF TellError
<1>3. /\ e \in Connection /\ e.told = "error" /\ e.phase = r.phase /\ e.op = r.op
      /\ e.writer = r.writer /\ e.queued = r.queued /\ e.closes = r.closes
      /\ e.closers = r.closers /\ e.refused = r.refused
  BY <1>1, <1>2 DEF Connection
<1>4. CASE r.closes > 0
  <2> DEFINE f == End(e)
             q == [f EXCEPT !.told = "errorClosed"]
  <2> HIDE DEF e
  <2>1. Reply(e) = TellClose(f)
    BY <1>3, <1>4 DEF Reply
  <2>2. f \in Connection /\ Kept(e, f) /\ f.phase = "ended" /\ f.op = "none"
    BY <1>3, EndKeeps
  <2>3. TellClose(f) = q
    BY <1>3, <2>2 DEF TellClose, Kept
  <2> HIDE DEF f
  <2>4. /\ q \in Connection /\ q.phase = "ended" /\ q.op = "none" /\ q.told = "errorClosed"
        /\ q.writer = f.writer /\ q.queued = f.queued /\ q.closes = f.closes
        /\ q.closers = f.closers /\ q.refused = f.refused
    BY <2>2 DEF Connection
  <2> HIDE DEF q
  <2>5. Sound(q)
    BY <1>3, <2>2, <2>4, EndedSound DEF Kept
  <2> QED  BY <1>1, <1>3, <2>1, <2>2, <2>3, <2>4, <2>5 DEF Kept, e
<1>5. CASE ~(r.closes > 0)
  <2>1. Reply(e) = [e EXCEPT !.phase = "reply", !.op = "none"]
    <3> HIDE DEF e
    <3> QED  BY <1>3, <1>5 DEF Reply
  <2>2. Reply(e) = [r EXCEPT !.phase = "reply", !.op = "none", !.told = "error"]
    <3> HIDE DEF e
    <3> QED  BY <1>1, <1>2, <2>1 DEF Connection
  <2>3. r.closes = 0
    BY <1>1, <1>5
  <2> HIDE DEF e
  <2> QED  BY <2>2, <2>3, AtReply DEF e
<1> QED  BY <1>4, <1>5

\* A chain of reads goes on.
LEMMA StartContinues ==
  ASSUME NEW r, Sound(r), NEW p \in NetPhases, NEW kind \in {"request", "idle"},
         \/ r.phase \in BeforePhases \cup {"free"} /\ p \in BeforePhases
         \/ r.phase \in OpenPhases /\ p \in OpenPhases
  PROVE  /\ Sound(Start(r, p, kind)) /\ ~Start(r, p, kind).refused
         /\ Start(r, p, kind).phase = p
<1> DEFINE q == Start(r, p, kind)
<1>1. q \in Connection /\ Kept(r, q) /\ q.phase = p /\ q.op = "pending"
  BY StartKeeps DEF Sound
<1>2. ~r.refused
  BY Phases DEF Sound, ToldSound
<1> HIDE DEF q
<1>3. Sound(q) /\ (q.refused <=> r.refused)
  BY <1>1, ChainSound
<1> QED  BY <1>1, <1>2, <1>3 DEF q

LEMMA ReadMessageContinues ==
  ASSUME NEW r, Sound(r), r.phase \in OpenPhases
  PROVE  Sound(ReadMessage(r)) /\ ~ReadMessage(r).refused /\ ReadMessage(r).phase = "head"
<1> DEFINE q == ReadMessage(r)
<1>1. q \in Connection /\ Kept(r, q) /\ q.phase = "head" /\ q.op = "posted"
  BY ReadMessageKeeps DEF Sound
<1>2. ~r.refused
  BY Phases DEF Sound, ToldSound
<1> HIDE DEF q
<1>3. Sound(q) /\ (q.refused <=> r.refused)
  BY <1>1, ChainSound, Phases
<1> QED  BY <1>1, <1>2, <1>3 DEF q

LEMMA ReadContentsSound ==
  ASSUME NEW r, Sound(r), r.phase \in ReadPhases, NEW q \in ReadContents(r)
  PROVE  Sound(q) /\ ~q.refused /\ q.phase # "free"
<1>1. q = Reply(TellError(r)) \/ q = Start(r, "content", "idle")
  BY DEF ReadContents
<1>2. CASE q = Reply(TellError(r))
  BY <1>2, TooBigSound
<1>3. CASE q = Start(r, "content", "idle")
  <2>1. r.phase \in OpenPhases /\ "content" \in OpenPhases /\ "content" \in NetPhases
    BY Phases
  <2> QED  BY <1>3, <2>1, StartContinues
<1> QED  BY <1>1, <1>2, <1>3

-----------------------------------------------------------------------------
(* The send queue, and the socket *)

LEMMA EnqueueFields ==
  ASSUME NEW r \in Connection, r.queued < MaxQueued + 3, (r.writer # "none") <=> (r.queued > 0)
  PROVE  LET q == Enqueue(r) IN
         /\ q \in Connection /\ q.queued = r.queued + 1 /\ q.writer # "none"
         /\ q.phase = r.phase /\ q.op = r.op /\ q.told = r.told /\ q.refused = r.refused
         /\ q.closes = r.closes /\ q.closers = r.closers /\ q.held = r.held
<1> DEFINE n == r.queued + 1
           a == [r EXCEPT !.queued = n]
<1>1. n \in 0..(MaxQueued + 3) /\ r.queued \in Nat
  BY Bound DEF Connection
<1>2. a \in Connection
  <2> HIDE DEF n
  <2> QED  BY <1>1 DEF Connection
<1>3. /\ a.queued = n /\ a.writer = r.writer
      /\ a.phase = r.phase /\ a.op = r.op /\ a.told = r.told /\ a.refused = r.refused
      /\ a.closes = r.closes /\ a.closers = r.closers /\ a.held = r.held
  BY DEF Connection
<1>4. a = [r EXCEPT !.queued = @ + 1]
  BY DEF Connection
<1> HIDE DEF a
<1>5. CASE r.queued # 0
  <2>1. Enqueue(r) = a
    BY <1>4, <1>5 DEF Enqueue
  <2>2. r.writer # "none"
    BY <1>1, <1>5
  <2> QED  BY <1>2, <1>3, <2>1, <2>2
<1>6. CASE r.queued = 0
  <2> DEFINE s == SetTimer(a, "idle")
             q == [s EXCEPT !.writer = "posted"]
  <2>1. s \in Connection /\ Kept(a, s) /\ s.phase = a.phase /\ s.op = a.op
    BY <1>2, SetTimerKeeps
  <2>2. Enqueue(r) = q
    BY <1>4, <1>6 DEF Enqueue
  <2> HIDE DEF s
  <2>3. /\ q \in Connection /\ q.writer = "posted" /\ q.queued = s.queued
        /\ q.phase = s.phase /\ q.op = s.op /\ q.told = s.told /\ q.refused = s.refused
        /\ q.closes = s.closes /\ q.closers = s.closers /\ q.held = s.held
    BY <2>1 DEF Connection
  <2> HIDE DEF q
  <2> QED  BY <1>3, <2>1, <2>2, <2>3 DEF Kept
<1> QED  BY <1>5, <1>6

\* A message of the user, or a pong.
LEMMA SendSound ==
  ASSUME NEW r, Sound(r), r.queued < MaxQueued
  PROVE  /\ Sound(Enqueue(r)) /\ Enqueue(r).phase = r.phase
         /\ Enqueue(r).refused = r.refused
<1> DEFINE q == Enqueue(r)
<1>1. r \in Connection /\ r.queued < MaxQueued + 3 /\ r.queued \in Nat /\ r.closes \in 0..3
  BY Bound, Fields DEF Sound
<1>2. (r.writer # "none") <=> (r.queued > 0)
  BY DEF Sound
<1>3. /\ q \in Connection /\ q.queued = r.queued + 1 /\ q.writer # "none"
      /\ q.phase = r.phase /\ q.op = r.op /\ q.told = r.told /\ q.refused = r.refused
      /\ q.closes = r.closes /\ q.closers = r.closers
  BY <1>1, <1>2, EnqueueFields
<1> HIDE DEF q
<1>4. ((q.writer # "none") <=> (q.queued > 0)) /\ q.queued <= MaxQueued + q.closes
  BY <1>1, <1>3, Bound
<1>5. CloseFrames(q) <= 3
  BY <1>3 DEF Sound, CloseFrames
<1>6. ToldSound(q) /\ ((q.op # "none") <=> (q.phase \in NetPhases))
  BY <1>3 DEF Sound, ToldSound
<1> QED  BY <1>3, <1>4, <1>5, <1>6 DEF Sound, q

LEMMA EnqueueCloseFields ==
  ASSUME NEW r \in Connection, r.queued <= MaxQueued + r.closes, r.closes <= 2,
         (r.writer # "none") <=> (r.queued > 0)
  PROVE  LET q == EnqueueClose(r) IN
         /\ q \in Connection /\ q.queued = r.queued + 1 /\ q.writer # "none"
         /\ q.closes = r.closes + 1 /\ q.queued <= MaxQueued + q.closes /\ q.queued > 0
         /\ q.phase = r.phase /\ q.op = r.op /\ q.told = r.told /\ q.refused = r.refused
         /\ q.closers = r.closers /\ q.held = r.held
<1> DEFINE n == r.closes + 1
           a == [r EXCEPT !.closes = n]
<1>1. n \in 0..3 /\ r.queued \in Nat /\ r.closes \in Nat
  BY Fields
<1>2. a \in Connection
  <2> HIDE DEF n
  <2> QED  BY <1>1 DEF Connection
<1>3. /\ a.closes = n /\ a.queued = r.queued /\ a.writer = r.writer
      /\ a.phase = r.phase /\ a.op = r.op /\ a.told = r.told /\ a.refused = r.refused
      /\ a.closers = r.closers /\ a.held = r.held
  BY DEF Connection
<1>4. EnqueueClose(r) = Enqueue(a)
  <2>1. a = [r EXCEPT !.closes = @ + 1]
    BY DEF Connection
  <2> QED  BY <2>1 DEF EnqueueClose
<1> HIDE DEF a
<1>5. a.queued < MaxQueued + 3 /\ ((a.writer # "none") <=> (a.queued > 0))
  BY <1>1, <1>3, Bound
<1> DEFINE q == Enqueue(a)
<1>6. /\ q \in Connection /\ q.queued = a.queued + 1 /\ q.writer # "none"
      /\ q.phase = a.phase /\ q.op = a.op /\ q.told = a.told /\ q.refused = a.refused
      /\ q.closes = a.closes /\ q.closers = a.closers /\ q.held = a.held
  BY <1>2, <1>5, EnqueueFields
<1> HIDE DEF q
<1>7. q.queued <= MaxQueued + q.closes /\ q.queued > 0
  BY <1>1, <1>3, <1>6, Bound
<1> QED  BY <1>3, <1>4, <1>6, <1>7 DEF q

\* One of those that have found close_sent false sends its close frame.
LEMMA CloserSound ==
  ASSUME NEW r, Sound(r), NEW k \in Closers, k \in r.closers
  PROVE  LET q == EnqueueClose([r EXCEPT !.closers = @ \ {k}]) IN
         Sound(q) /\ q.phase = r.phase /\ q.refused = r.refused
<1> DEFINE rest == r.closers \ {k}
           a == [r EXCEPT !.closers = rest]
           q == EnqueueClose(a)
<1>1. r \in Connection /\ r.closes \in 0..3 /\ rest \subseteq Closers
  BY Fields DEF Sound
<1>2. /\ a \in Connection /\ a.closers = rest /\ a.closes = r.closes /\ a.queued = r.queued
      /\ a.writer = r.writer /\ a.phase = r.phase /\ a.op = r.op /\ a.told = r.told
      /\ a.refused = r.refused
  <2> HIDE DEF rest
  <2> QED  BY <1>1 DEF Connection, Closers
<1>3. a = [r EXCEPT !.closers = @ \ {k}]
  BY <1>1 DEF Connection
<1> HIDE DEF a
<1>4. r.closes <= 2 /\ CloseFrames(a) = CloseFrames(r) - 1
  BY <1>1, <1>2 DEF Sound, CloseFrames, Closers
<1>5. a.queued <= MaxQueued + a.closes /\ a.closes <= 2 /\ ((a.writer # "none") <=> (a.queued > 0))
  BY <1>2, <1>4 DEF Sound
<1>6. /\ q \in Connection /\ q.queued = a.queued + 1 /\ q.writer # "none"
      /\ q.closes = a.closes + 1 /\ q.queued <= MaxQueued + q.closes /\ q.queued > 0
      /\ q.phase = a.phase /\ q.op = a.op /\ q.told = a.told /\ q.refused = a.refused
      /\ q.closers = a.closers
  BY <1>2, <1>5, EnqueueCloseFields
<1> HIDE DEF q, rest
<1>7. CloseFrames(q) <= 3
  BY <1>1, <1>2, <1>4, <1>6 DEF Sound, CloseFrames
<1>8. ToldSound(q) /\ ((q.op # "none") <=> (q.phase \in NetPhases))
  BY <1>2, <1>6 DEF Sound, ToldSound
<1>9. Sound(q)
  BY <1>6, <1>7, <1>8 DEF Sound
<1> QED  BY <1>2, <1>3, <1>6, <1>9 DEF q

\* The handler of a read sends its close frame, and connection_close() follows.
LEMMA ReplyFrameSound ==
  ASSUME NEW r, Sound(r), r.phase = "reply"
  PROVE  LET q == TellClose(End(EnqueueClose(r))) IN
         Sound(q) /\ q.phase = "ended" /\ ~q.refused
<1>1. r \in Connection /\ r.closes \in 0..3 /\ r.told \in {"open", "error"} /\ ~r.refused
  BY ToldAndRefused, Fields DEF Sound
<1>2. r.closes <= 2
  BY <1>1 DEF Sound, CloseFrames
<1>3. r.queued <= MaxQueued + r.closes /\ ((r.writer # "none") <=> (r.queued > 0))
  BY DEF Sound
<1> DEFINE e == EnqueueClose(r)
           f == End(e)
           t == IF f.told = "open" THEN "closed" ELSE "errorClosed"
           q == [f EXCEPT !.told = t]
<1>4. /\ e \in Connection /\ e.queued = r.queued + 1 /\ e.writer # "none"
      /\ e.closes = r.closes + 1 /\ e.queued <= MaxQueued + e.closes /\ e.queued > 0
      /\ e.phase = r.phase /\ e.told = r.told /\ e.refused = r.refused
      /\ e.closers = r.closers
  BY <1>1, <1>2, <1>3, EnqueueCloseFields
<1> HIDE DEF e
<1>5. f \in Connection /\ Kept(e, f) /\ f.phase = "ended" /\ f.op = "none"
  BY <1>4, EndKeeps
<1>6. TellClose(f) = q
  BY <1>1, <1>4, <1>5 DEF TellClose, Kept
<1>7. t \in {"closed", "errorClosed"}
  OBVIOUS
<1> HIDE DEF f, t
<1>8. /\ q \in Connection /\ q.phase = "ended" /\ q.op = "none" /\ q.told = t
      /\ q.writer = f.writer /\ q.queued = f.queued /\ q.closes = f.closes
      /\ q.closers = f.closers /\ q.refused = f.refused
  BY <1>5, <1>7 DEF Connection
<1> HIDE DEF q
<1>9. CloseFrames(q) <= 3
  BY <1>1, <1>4, <1>5, <1>8 DEF Sound, CloseFrames, Kept
<1>10. ToldSound(q) /\ ~q.refused
  BY <1>1, <1>4, <1>5, <1>7, <1>8, Phases DEF ToldSound, Kept
<1>11. Sound(q)
  BY <1>4, <1>5, <1>8, <1>9, <1>10, Phases DEF Sound, Kept
<1> QED  BY <1>6, <1>8, <1>10, <1>11 DEF e, f

\* close() ends what is pending.
LEMMA CloseSound ==
  ASSUME NEW r, Sound(r)
  PROVE  Sound(Close(r)) /\ Close(r).phase = r.phase /\ Close(r).refused = r.refused
<1>1. r \in Connection
  BY DEF Sound
<1> DEFINE o == IF r.op = "pending" THEN "failed" ELSE r.op
           w == IF r.writer = "pending" THEN "failed" ELSE r.writer
<1>2. /\ o \in {"none", "posted", "pending", "ok", "failed"}
      /\ w \in {"none", "posted", "pending", "ok", "failed", "dead"}
      /\ (o # "none") <=> (r.op # "none")
      /\ (w # "none") <=> (r.writer # "none")
  BY <1>1 DEF Connection
<1>3. PICK d \in BOOLEAN : d
  OBVIOUS
<1> DEFINE q == [r EXCEPT !.down = d, !.op = o, !.writer = w]
<1>4. Close(r) = q \/ Close(r) = r
  <2>1. d = TRUE
    BY <1>3
  <2>2. [r EXCEPT !.down = TRUE, !.op = IF @ = "pending" THEN "failed" ELSE @,
                  !.writer = IF @ = "pending" THEN "failed" ELSE @] = q
    BY <1>1, <2>1 DEF Connection
  <2> QED  BY <2>2 DEF Close
<1> HIDE DEF o, w
<1>5. /\ q \in Connection /\ q.op = o /\ q.writer = w
      /\ q.phase = r.phase /\ q.told = r.told /\ q.refused = r.refused /\ q.queued = r.queued
      /\ q.closes = r.closes /\ q.closers = r.closers
  <2> DEFINE a == [r EXCEPT !.down = d]
             b == [a EXCEPT !.op = o]
  <2>1. a \in Connection
    BY <1>1 DEF Connection
  <2> HIDE DEF a
  <2>2. b \in Connection
    BY <1>2, <2>1 DEF Connection
  <2> HIDE DEF b
  <2>3. [b EXCEPT !.writer = w] \in Connection
    BY <1>2, <2>2 DEF Connection
  <2>4. q \in Connection
    BY <2>3 DEF a, b
  <2>5. /\ q.op = o /\ q.writer = w
        /\ q.phase = r.phase /\ q.told = r.told /\ q.refused = r.refused /\ q.queued = r.queued
        /\ q.closes = r.closes /\ q.closers = r.closers
    BY <1>1 DEF Connection
  <2> QED  BY <2>4, <2>5
<1> HIDE DEF q
<1>6. CloseFrames(q) <= 3
  BY <1>5 DEF Sound, CloseFrames
<1>7. ToldSound(q)
  BY <1>5 DEF Sound, ToldSound
<1>8. Sound(q)
  BY <1>2, <1>5, <1>6, <1>7 DEF Sound
<1> QED  BY <1>4, <1>5, <1>8

-----------------------------------------------------------------------------
(* Steps of one connection *)

\* What a step that gives one connection a new record has to show.
LEMMA BecomesInv ==
  ASSUME Inv, NEW c \in Conns, NEW q, Becomes(c, q), Sound(q), q.refused => destroyed,
         destroyed => q.phase \notin RunningPhases, connection = c => q.phase # "free"
  PROVE  Inv'
<1>1. q \in Connection
  BY DEF Sound
<1>2. conn' \in [Conns -> Connection] /\ conn'[c] = q
      /\ \A d \in Conns \ {c} : conn'[d] = conn[d]
  BY <1>1 DEF Inv, Becomes
<1>3. UNCHANGED <<connection, ioRunning, destroyed, config>>
  BY DEF Becomes
<1>4. ASSUME NEW d \in Conns
      PROVE  /\ Sound(conn'[d])
             /\ conn'[d].refused => destroyed
             /\ destroyed => conn'[d].phase \notin RunningPhases
             /\ connection = d => conn'[d].phase # "free"
  <2>1. CASE d = c
    BY <1>2, <2>1
  <2>2. CASE d # c
    BY <1>2, <2>2 DEF Inv
  <2> QED  BY <2>1, <2>2
<1>5. \A d \in Conns : Sound(conn[d])'
  BY <1>4 DEF Sound, ToldSound, CloseFrames
<1> QED  BY <1>2, <1>3, <1>4, <1>5 DEF Inv

\* The same for a step that leaves the chain of reads where it is.
LEMMA SameChainInv ==
  ASSUME Inv, NEW c \in Conns, NEW q, Becomes(c, q), Sound(q),
         q.phase = conn[c].phase, q.refused = conn[c].refused
  PROVE  Inv'
BY BecomesInv DEF Inv

LEMMA KeptInv ==
  ASSUME Inv, NEW c \in Conns, NEW q \in Connection, Becomes(c, q), Kept(conn[c], q),
         q.phase = conn[c].phase, (q.op # "none") <=> (conn[c].op # "none")
  PROVE  Inv'
<1>1. Sound(conn[c])
  BY DEF Inv
<1>2. (q.op # "none") <=> (q.phase \in NetPhases)
  BY <1>1 DEF Sound
<1>3. Sound(q)
  BY <1>1, <1>2, ChainSound
<1>4. q.refused = conn[c].refused
  BY DEF Kept
<1> QED  BY <1>3, <1>4, SameChainInv

\* A handler of the chain of reads, whatever becomes of its operation.
LEMMA HandlerInv ==
  ASSUME Inv, NEW c \in Conns, NEW phase \in NetPhases, NEW outcomes, Handler(c, phase, outcomes),
         ASSUME NEW q \in outcomes PROVE Sound(q) /\ ~q.refused /\ q.phase # "free"
  PROVE  Inv'
<1> DEFINE r == DropTimer(conn[c])
<1>1. Sound(conn[c]) /\ conn[c].phase = phase
  BY DEF Inv, Handler
<1>2. Sound(r) /\ r.phase \in NetPhases
  BY <1>1, SameTimer
<1>3. \/ destroyed /\ Becomes(c, Refused(r))
      \/ ~destroyed /\ Becomes(c, TellError(End(r)))
      \/ ~destroyed /\ \E s \in outcomes : Becomes(c, s)
  <2>1. destroyed \in BOOLEAN
    BY DEF Inv
  <2> QED  BY <2>1 DEF Handler
<1> HIDE DEF r
<1>4. CASE destroyed /\ Becomes(c, Refused(r))
  <2>1. Sound(Refused(r)) /\ Refused(r).phase = "ended"
    BY <1>2, RefusedSound
  <2> QED  BY <1>4, <2>1, BecomesInv, Phases
<1>5. CASE ~destroyed /\ Becomes(c, TellError(End(r)))
  <2>1. /\ Sound(TellError(End(r))) /\ ~TellError(End(r)).refused
        /\ TellError(End(r)).phase = "ended"
    BY <1>2, LostSound
  <2> QED  BY <1>5, <2>1, BecomesInv
<1>6. CASE ~destroyed /\ \E s \in outcomes : Becomes(c, s)
  BY <1>6, BecomesInv
<1> QED  BY <1>3, <1>4, <1>5, <1>6

\* What a handler of that phase finds after cancel_timeout().
LEMMA Finds ==
  ASSUME Inv, NEW c \in Conns, NEW phase, NEW outcomes, Handler(c, phase, outcomes)
  PROVE  Sound(DropTimer(conn[c])) /\ DropTimer(conn[c]).phase = phase
<1>1. Sound(conn[c]) /\ conn[c].phase = phase
  BY DEF Inv, Handler
<1> QED  BY <1>1, SameTimer

\* Of Connected(), the next operation is one of those that come before the upgrade.
LEMMA NextBefore ==
  ASSUME NEW r, Sound(r), r.phase \in BeforePhases,
         NEW q \in {Start(r, p, "request") : p \in BeforePhases}
  PROVE  Sound(q) /\ ~q.refused /\ q.phase # "free"
<1>1. PICK p \in BeforePhases : q = Start(r, p, "request")
  OBVIOUS
<1>2. p \in NetPhases /\ p # "free"
  BY Phases
<1> QED  BY <1>1, <1>2, StartContinues

LEMMA SetupInv == ASSUME Inv, NEW c \in Conns, SetupHandlers(c) PROVE Inv'
<1> DEFINE r == DropTimer(conn[c])
           Befores == {Start(r, p, "request") : p \in BeforePhases}
<1>1. ASSUME NEW phase \in BeforePhases, NEW outcomes, Handler(c, phase, outcomes),
             \A q \in outcomes : \/ q \in Befores
                                 \/ q = TellError(End(r))
                                 \/ q = Opened(r)
      PROVE  Inv'
  <2>1. Sound(r) /\ r.phase = phase /\ phase \in NetPhases
    BY <1>1, Finds, Phases
  <2> HIDE DEF r
  <2>2. ASSUME NEW q \in outcomes PROVE Sound(q) /\ ~q.refused /\ q.phase # "free"
    <3>1. CASE q \in Befores
      BY <1>1, <2>1, <3>1, NextBefore
    <3>2. CASE q = TellError(End(r))
      BY <2>1, <3>2, LostSound
    <3>3. CASE q = Opened(r)
      <4>1. r \in Connection /\ ~r.refused
        BY <2>1, ToldAndRefused
      <4>2. q = [r EXCEPT !.phase = "opening", !.op = "none", !.told = "open"]
        BY <3>3 DEF Opened
      <4>3. q \in Connection
        <5>1. "opening" \in NetPhases \cup RunningPhases \cup {"free", "ended"}
          BY Phases
        <5> QED  BY <4>1, <4>2, <5>1 DEF Connection
      <4>4. /\ q.phase = "opening" /\ q.op = "none" /\ q.told = "open"
            /\ q.writer = r.writer /\ q.queued = r.queued /\ q.closes = r.closes
            /\ q.closers = r.closers /\ q.refused = r.refused
        BY <4>1, <4>2 DEF Connection
      <4>5. CloseFrames(q) <= 3
        <5>1. r.phase # "reply"
          BY <1>1, <2>1, Phases
        <5> QED  BY <2>1, <4>4, <5>1 DEF Sound, CloseFrames
      <4>6. ToldSound(q)
        BY <4>1, <4>4, Phases DEF ToldSound
      <4>7. ((q.op # "none") <=> (q.phase \in NetPhases))
            /\ ((q.writer # "none") <=> (q.queued > 0)) /\ q.queued <= MaxQueued + q.closes
        BY <2>1, <4>4, Phases DEF Sound
      <4> QED  BY <4>1, <4>3, <4>4, <4>5, <4>6, <4>7 DEF Sound
    <3> QED  BY <1>1, <3>1, <3>2, <3>3
  <2> QED  BY <1>1, <2>1, <2>2, HandlerInv
<1> HIDE DEF r
<1>2. {"resolve", "connect", "proxyWrite", "proxyRead", "tls", "writeUpgrade", "readUpgrade"}
        = BeforePhases
  BY Phases
<1>3. /\ Start(r, "connect", "request") \in Befores /\ Upgrade(r) \in Befores
      /\ Handshake(r) \in Befores /\ Connected(r) \in Befores
      /\ Start(r, "proxyRead", "request") \in Befores
      /\ Start(r, "readUpgrade", "request") \in Befores
  BY <1>2 DEF Upgrade, Handshake, Connected
<1> HIDE DEF Befores
<1>4. CASE ResolveHandler(c)
  BY <1>1, <1>2, <1>3, <1>4 DEF ResolveHandler, r
<1>5. CASE ConnectHandler(c)
  BY <1>1, <1>2, <1>3, <1>5 DEF ConnectHandler, r
<1>6. CASE ProxyWriteHandler(c)
  BY <1>1, <1>2, <1>3, <1>6 DEF ProxyWriteHandler, r
<1>7. CASE ProxyReadHandler(c)
  BY <1>1, <1>2, <1>3, <1>7 DEF ProxyReadHandler, r
<1>8. CASE TlsHandler(c)
  BY <1>1, <1>2, <1>3, <1>8 DEF TlsHandler, r
<1>9. CASE WriteUpgradeHandler(c)
  BY <1>1, <1>2, <1>3, <1>9 DEF WriteUpgradeHandler, r
<1>10. CASE ReadUpgradeHandler(c)
  BY <1>1, <1>2, <1>3, <1>10 DEF ReadUpgradeHandler, r
<1> QED  BY <1>4, <1>5, <1>6, <1>7, <1>8, <1>9, <1>10 DEF SetupHandlers

\* The handlers of messages.
LEMMA ReadsInv ==
  ASSUME Inv, NEW c \in Conns, HeadHandler(c) \/ LengthHandler(c) \/ ContentHandler(c)
  PROVE  Inv'
<1> DEFINE r == DropTimer(conn[c])
           answers == IF r.queued < MaxQueued THEN {ReadMessage(Enqueue(r))} ELSE {}
           m == [r EXCEPT !.phase = "message", !.op = "none"]
<1>1. ASSUME NEW phase \in ReadPhases, NEW outcomes, Handler(c, phase, outcomes),
             \A q \in outcomes : \/ q \in {ReadMessage(r), Reply(r), Start(r, "length", "idle"), m}
                                 \/ q \in ReadContents(r) \/ q \in answers
      PROVE  Inv'
  <2>1. Sound(r) /\ r.phase = phase /\ phase \in NetPhases /\ r.phase \in OpenPhases
    BY <1>1, Finds, Phases
  <2> HIDE DEF r
  <2>2. ASSUME NEW q \in outcomes PROVE Sound(q) /\ ~q.refused /\ q.phase # "free"
    <3>1. CASE q = ReadMessage(r)
      BY <2>1, <3>1, ReadMessageContinues
    <3>2. CASE q = Reply(r)
      BY <1>1, <2>1, <3>2, ReplySound
    <3>3. CASE q = Start(r, "length", "idle")
      <4>1. "length" \in OpenPhases /\ "length" \in NetPhases
        BY Phases
      <4> QED  BY <2>1, <3>3, <4>1, StartContinues
    <3>4. CASE q \in ReadContents(r)
      BY <1>1, <2>1, <3>4, ReadContentsSound
    <3>5. CASE q \in answers
      <4>1. r.queued < MaxQueued /\ q = ReadMessage(Enqueue(r))
        BY <3>5
      <4>2. Sound(Enqueue(r)) /\ Enqueue(r).phase \in OpenPhases
        BY <2>1, <4>1, SendSound
      <4> QED  BY <4>1, <4>2, ReadMessageContinues
    <3>6. CASE q = m
      <4>1. r \in Connection /\ ~r.refused
        BY <2>1, ToldAndRefused
      <4>2. m \in Connection
        <5> DEFINE a == [r EXCEPT !.phase = "message"]
        <5>1. "message" \in NetPhases \cup RunningPhases \cup {"free", "ended"}
          BY Phases
        <5>2. a \in Connection /\ m = [a EXCEPT !.op = "none"]
          BY <4>1, <5>1 DEF Connection
        <5> HIDE DEF a, m
        <5> QED  BY <5>2 DEF Connection
      <4>3. Kept(r, m) /\ m.phase = "message" /\ m.op = "none"
        BY <4>1 DEF Connection, Kept
      <4> HIDE DEF m
      <4>4. (m.op # "none") <=> (m.phase \in NetPhases)
        BY <4>3, Phases
      <4>5. m.phase \in OpenPhases
        BY <4>3, Phases
      <4>6. Sound(m) /\ (m.refused <=> r.refused)
        BY <2>1, <4>2, <4>3, <4>4, <4>5, ChainSound
      <4> QED  BY <3>6, <4>1, <4>3, <4>6
    <3> QED  BY <1>1, <3>1, <3>2, <3>3, <3>4, <3>5, <3>6
  <2> QED  BY <1>1, <2>1, <2>2, HandlerInv
<1>2. {"head", "length", "content"} = ReadPhases
  BY Phases
<1> HIDE DEF r, answers, m
<1>3. CASE HeadHandler(c)
  BY <1>1, <1>2, <1>3 DEF HeadHandler, r
<1>4. CASE LengthHandler(c)
  BY <1>1, <1>2, <1>4 DEF LengthHandler, r
<1>5. CASE ContentHandler(c)
  BY <1>1, <1>2, <1>5 DEF ContentHandler, r, m, answers
<1> QED  BY <1>3, <1>4, <1>5

LEMMA ReplySendsInv == ASSUME Inv, NEW c \in Conns, ReplySends(c) PROVE Inv'
<1>1. conn[c].phase = "reply" /\ Sound(conn[c]) /\ Becomes(c, TellClose(End(EnqueueClose(conn[c]))))
  BY DEF ReplySends, Inv
<1> DEFINE q == TellClose(End(EnqueueClose(conn[c])))
<1>2. Sound(q) /\ q.phase = "ended" /\ ~q.refused
  BY <1>1, ReplyFrameSound
<1>3. Becomes(c, q)
  BY <1>1
<1> HIDE DEF q
<1> QED  BY <1>2, <1>3, BecomesInv, Phases

\* An operation of the chain is started or completed.
LEMMA OpInv ==
  ASSUME Inv, NEW c \in Conns, NEW o \in {"pending", "ok", "failed"}, conn[c].op # "none",
         Becomes(c, [conn[c] EXCEPT !.op = o])
  PROVE  Inv'
<1> DEFINE q == [conn[c] EXCEPT !.op = o]
<1>1. conn[c] \in Connection
  BY DEF Inv
<1>2. q \in Connection /\ Kept(conn[c], q) /\ q.phase = conn[c].phase /\ q.op = o
  BY <1>1 DEF Connection, Kept
<1> HIDE DEF q
<1> QED  BY <1>2, KeptInv DEF q

LEMMA ReadMovesInv ==
  ASSUME Inv, NEW c \in Conns, RunRead(c) \/ NetSucceeds(c) \/ NetFails(c)
  PROVE  Inv'
<1>1. CASE NetSucceeds(c) \/ NetFails(c)
  BY <1>1, OpInv DEF NetSucceeds, NetFails
<1>2. CASE RunRead(c) /\ ~destroyed
  BY <1>2, OpInv DEF RunRead
<1>3. CASE RunRead(c) /\ destroyed
  <2>1. conn[c].phase = "head" /\ Sound(conn[c]) /\ Becomes(c, Refused(conn[c]))
    BY <1>3 DEF RunRead, Inv
  <2>2. Sound(Refused(conn[c])) /\ Refused(conn[c]).phase = "ended"
    BY <2>1, RefusedSound, Phases
  <2> QED  BY <1>3, <2>1, <2>2, BecomesInv, Phases
<1> QED  BY <1>1, <1>2, <1>3

\* on_open and on_message return: the next message.
LEMMA UserReturnsInv ==
  ASSUME Inv, NEW c \in Conns, OpenReturns(c) \/ MessageReturns(c)
  PROVE  Inv'
<1>1. conn[c].phase \in OpenPhases /\ Sound(conn[c]) /\ Becomes(c, ReadMessage(conn[c]))
  BY Phases DEF OpenReturns, MessageReturns, Inv
<1>2. /\ Sound(ReadMessage(conn[c])) /\ ~ReadMessage(conn[c]).refused
      /\ ReadMessage(conn[c]).phase = "head"
  BY <1>1, ReadMessageContinues
<1> QED  BY <1>1, <1>2, BecomesInv, Phases

-----------------------------------------------------------------------------
(* The user, the chain of writes and the timers *)

LEMMA GrabInv == ASSUME Inv, NEW c \in Conns, Grab(c) \/ UserReleases(c) PROVE Inv'
<1>1. PICK b \in BOOLEAN : Becomes(c, [conn[c] EXCEPT !.held = b])
  BY Zenon DEF Grab, UserReleases
<1> DEFINE r == conn[c]
           q == [r EXCEPT !.held = b]
<1>2. r \in Connection /\ Sound(r)
  BY DEF Inv
<1>3. Becomes(c, q)
  BY <1>1
<1> HIDE DEF r
<1>4. /\ q \in Connection /\ q.phase = r.phase /\ q.op = r.op /\ q.told = r.told
      /\ q.refused = r.refused /\ q.writer = r.writer /\ q.queued = r.queued
      /\ q.closes = r.closes /\ q.closers = r.closers
  BY <1>2 DEF Connection
<1> HIDE DEF q
<1>5. Sound(q)
  BY <1>2, <1>4 DEF Sound, ToldSound, CloseFrames
<1> QED  BY <1>3, <1>4, <1>5, SameChainInv DEF r

LEMMA SendInv == ASSUME Inv, NEW c \in Conns, Send(c) PROVE Inv'
<1>1. conn[c].queued < MaxQueued /\ Becomes(c, Enqueue(conn[c])) /\ Sound(conn[c])
  BY DEF Send, Inv
<1> QED  BY <1>1, SendSound, SameChainInv

\* The user, or the idle timer, has found close_sent false.
LEMMA TestsCloseSound ==
  ASSUME NEW r, Sound(r), r.closes = 0, NEW k \in Closers
  PROVE  LET q == [r EXCEPT !.closers = @ \cup {k}] IN
         Sound(q) /\ q.phase = r.phase /\ q.refused = r.refused
<1> DEFINE some == r.closers \cup {k}
           q == [r EXCEPT !.closers = some]
<1>1. r \in Connection /\ some \subseteq Closers
  BY Fields DEF Sound
<1>2. q = [r EXCEPT !.closers = @ \cup {k}]
  BY <1>1 DEF Connection
<1> HIDE DEF some
<1>3. /\ q \in Connection /\ q.phase = r.phase /\ q.op = r.op /\ q.told = r.told
      /\ q.refused = r.refused /\ q.writer = r.writer /\ q.queued = r.queued
      /\ q.closes = r.closes /\ q.closers = some
  BY <1>1 DEF Connection, Closers
<1> HIDE DEF q
<1>4. CloseFrames(q) <= 3
  BY <1>3 DEF CloseFrames
<1>5. Sound(q)
  BY <1>3, <1>4 DEF Sound, ToldSound
<1> QED  BY <1>2, <1>3, <1>5

LEMMA UserCloseInv ==
  ASSUME Inv, NEW c \in Conns, UserTestsClose(c) \/ UserSendsClose(c) \/ TimerSendsClose(c)
  PROVE  Inv'
<1>1. Sound(conn[c]) /\ "user" \in Closers /\ "timer" \in Closers
  BY DEF Inv, Closers
<1>2. CASE UserTestsClose(c)
  <2> DEFINE q == [conn[c] EXCEPT !.closers = @ \cup {"user"}]
  <2>1. conn[c].closes = 0 /\ Becomes(c, q)
    BY <1>2 DEF UserTestsClose
  <2>2. Sound(q) /\ q.phase = conn[c].phase /\ q.refused = conn[c].refused
    BY <1>1, <2>1, TestsCloseSound
  <2> HIDE DEF q
  <2> QED  BY <2>1, <2>2, SameChainInv
<1>3. ASSUME NEW k \in Closers, k \in conn[c].closers,
             Becomes(c, EnqueueClose([conn[c] EXCEPT !.closers = @ \ {k}]))
      PROVE  Inv'
  <2> DEFINE q == EnqueueClose([conn[c] EXCEPT !.closers = @ \ {k}])
  <2>1. Sound(q) /\ q.phase = conn[c].phase /\ q.refused = conn[c].refused
    BY <1>1, <1>3, CloserSound
  <2>2. Becomes(c, q)
    BY <1>3
  <2> HIDE DEF q
  <2> QED  BY <2>1, <2>2, SameChainInv
<1>4. CASE UserSendsClose(c)
  BY <1>1, <1>3, <1>4 DEF UserSendsClose
<1>5. CASE TimerSendsClose(c)
  BY <1>1, <1>3, <1>5 DEF TimerSendsClose
<1> QED  BY <1>2, <1>4, <1>5

LEMMA UserClosesInv == ASSUME Inv, NEW c \in Conns, UserCloses(c) PROVE Inv'
<1>1. Sound(conn[c]) /\ Becomes(c, Close(conn[c]))
  BY DEF UserCloses, Inv
<1> QED  BY <1>1, CloseSound, SameChainInv

\* The chain of writes: what it leaves is a queue no longer than it was.
LEMMA WriterSound ==
  ASSUME NEW r, Sound(r), NEW q \in Connection, q.queued <= r.queued,
         (q.writer # "none") <=> (q.queued > 0),
         q.phase = r.phase, q.op = r.op, q.told = r.told, q.refused = r.refused,
         q.closes = r.closes, q.closers = r.closers
  PROVE  Sound(q)
<1>1. r \in Connection /\ r.queued \in Nat /\ r.closes \in Nat /\ q.queued \in Nat
  BY Fields DEF Sound
<1>2. q.queued <= MaxQueued + q.closes
  BY <1>1, Bound DEF Sound
<1>3. CloseFrames(q) <= 3 /\ ToldSound(q)
  BY DEF Sound, CloseFrames, ToldSound
<1> QED  BY <1>2, <1>3 DEF Sound

\* A writer that goes on, or stops, with what is left in the queue.
LEMMA WriterInv ==
  ASSUME Inv, NEW c \in Conns, NEW r, Sound(r),
         r.phase = conn[c].phase, r.refused = conn[c].refused,
         NEW w \in {"none", "posted", "pending", "ok", "failed", "dead"},
         NEW n \in Nat, n <= r.queued, n = 0 <=> w = "none",
         Becomes(c, [r EXCEPT !.writer = w, !.queued = n])
  PROVE  Inv'
<1> DEFINE q == [r EXCEPT !.writer = w, !.queued = n]
<1>1. r \in Connection /\ r.queued \in 0..(MaxQueued + 3)
  BY DEF Sound, Connection
<1>2. n \in 0..(MaxQueued + 3)
  BY <1>1, Bound
<1>3. /\ q \in Connection /\ q.writer = w /\ q.queued = n
      /\ q.phase = r.phase /\ q.op = r.op /\ q.told = r.told /\ q.refused = r.refused
      /\ q.closes = r.closes /\ q.closers = r.closers
  <2> DEFINE a == [r EXCEPT !.writer = w]
             b == [a EXCEPT !.queued = n]
  <2>1. a \in Connection
    BY <1>1 DEF Connection
  <2>2. q = b
    OBVIOUS
  <2> HIDE DEF a
  <2>3. b \in Connection
    BY <1>2, <2>1 DEF Connection
  <2>4. /\ q.writer = w /\ q.queued = n
        /\ q.phase = r.phase /\ q.op = r.op /\ q.told = r.told /\ q.refused = r.refused
        /\ q.closes = r.closes /\ q.closers = r.closers
    BY <1>1 DEF Connection
  <2> QED  BY <2>2, <2>3, <2>4
<1>4. Becomes(c, q)
  OBVIOUS
<1> HIDE DEF q
<1>5. q.queued <= r.queued /\ ((q.writer # "none") <=> (q.queued > 0))
  BY <1>3
<1>6. Sound(q)
  BY <1>3, <1>5, WriterSound
<1> QED  BY <1>3, <1>4, <1>6, SameChainInv

LEMMA WriterMovesInv ==
  ASSUME Inv, NEW c \in Conns, RunSend(c) \/ SendCompletes(c)
  PROVE  Inv'
<1> DEFINE r == conn[c]
           n == r.queued
<1>1. Sound(r) /\ r \in Connection /\ n \in Nat /\ n <= r.queued
  <2>1. Sound(r)
    BY DEF Inv
  <2> QED  BY <2>1, Fields DEF Sound
<1>2. PICK w \in {"pending", "ok", "failed", "dead"} : Becomes(c, [r EXCEPT !.writer = w])
  BY DEF RunSend, SendCompletes
<1>3. w \in {"none", "posted", "pending", "ok", "failed", "dead"}
  OBVIOUS
<1>4. n = 0 <=> w = "none"
  <2>1. r.writer # "none"
    BY DEF RunSend, SendCompletes
  <2> QED  BY <1>1, <2>1 DEF Sound
<1>5. [r EXCEPT !.writer = w] = [r EXCEPT !.writer = w, !.queued = n]
  BY <1>1 DEF Connection
<1>6. Becomes(c, [r EXCEPT !.writer = w, !.queued = n])
  BY <1>2, <1>5
<1>7. r.phase = conn[c].phase /\ r.refused = conn[c].refused
  OBVIOUS
<1> HIDE DEF r, n
<1> QED  BY <1>1, <1>3, <1>4, <1>6, <1>7, WriterInv

LEMMA SendHandlerInv == ASSUME Inv, NEW c \in Conns, SendHandler(c) PROVE Inv'
<1> DEFINE s == conn[c]
           r == SetTimer(s, "idle")
           n == r.queued
           left == IF r.writer = "ok" THEN n - 1 ELSE 0
           t == SetTimer(r, "idle")
<1>1. s.writer # "none" /\ Sound(s) /\ s.phase = conn[c].phase /\ s.refused = conn[c].refused
  BY DEF SendHandler, Inv
<1>2. \/ Becomes(c, [r EXCEPT !.writer = "dead"])
      \/ left = 0 /\ Becomes(c, [r EXCEPT !.writer = "none", !.queued = 0])
      \/ left # 0 /\ Becomes(c, [t EXCEPT !.writer = "posted", !.queued = left])
  <2>1. destroyed \in BOOLEAN
    BY DEF Inv
  <2> QED  BY <2>1 DEF SendHandler
<1> HIDE DEF s
<1>3. Sound(r) /\ Kept(s, r) /\ r.phase = s.phase
  BY <1>1, NewTimer
<1> HIDE DEF r
<1>4. Sound(t) /\ Kept(r, t) /\ t.phase = r.phase
  BY <1>3, NewTimer
<1> HIDE DEF t
<1>5. r.phase = conn[c].phase /\ r.refused = conn[c].refused
  BY <1>1, <1>3 DEF Kept
<1>6. t.phase = conn[c].phase /\ t.refused = conn[c].refused /\ t.queued = n
  BY <1>4, <1>5 DEF Kept
<1>7. r \in Connection /\ n \in Nat /\ n > 0 /\ n <= r.queued
  <2>1. r \in Connection /\ r.writer # "none"
    BY <1>1, <1>3 DEF Kept, Sound
  <2>2. n \in Nat
    BY <2>1, Fields
  <2> QED  BY <1>3, <2>1, <2>2 DEF Sound
<1>8. ASSUME NEW w \in {"dead"}, Becomes(c, [r EXCEPT !.writer = w]) PROVE Inv'
  <2>1. [r EXCEPT !.writer = w] = [r EXCEPT !.writer = w, !.queued = n]
    BY <1>7 DEF Connection
  <2>2. Becomes(c, [r EXCEPT !.writer = w, !.queued = n])
    BY <1>8, <2>1
  <2>3. n = 0 <=> w = "none"
    BY <1>7
  <2>4. w \in {"none", "posted", "pending", "ok", "failed", "dead"}
    OBVIOUS
  <2> HIDE DEF n
  <2> QED  BY <1>3, <1>5, <1>7, <2>2, <2>3, <2>4, WriterInv
<1>9. ASSUME NEW w \in {"none"}, NEW m \in {0}, Becomes(c, [r EXCEPT !.writer = w, !.queued = m])
      PROVE  Inv'
  <2>1. m \in Nat /\ m <= r.queued /\ (m = 0 <=> w = "none")
    BY <1>7
  <2>2. w \in {"none", "posted", "pending", "ok", "failed", "dead"}
    OBVIOUS
  <2> QED  BY <1>3, <1>5, <1>9, <2>1, <2>2, WriterInv
<1>10. ASSUME NEW w \in {"posted"}, left # 0, Becomes(c, [t EXCEPT !.writer = w, !.queued = left])
       PROVE  Inv'
  <2>1. left \in Nat /\ left <= t.queued /\ (left = 0 <=> w = "none")
    BY <1>6, <1>7, <1>10
  <2>2. w \in {"none", "posted", "pending", "ok", "failed", "dead"}
    OBVIOUS
  <2> HIDE DEF left
  <2> QED  BY <1>4, <1>6, <1>10, <2>1, <2>2, WriterInv
<1> HIDE DEF left, n
<1> QED  BY <1>2, <1>8, <1>9, <1>10

\* A timer expires; its handler runs, late when the timer was replaced.
LEMMA FiredInv ==
  ASSUME Inv, NEW c \in Conns, NEW a \in Connection, Kept(conn[c], a), a.phase = conn[c].phase,
         a.op = conn[c].op, NEW kind, Becomes(c, Fired(a, kind))
  PROVE  Inv'
<1>1. Sound(conn[c])
  BY DEF Inv
<1>2. (a.op # "none") <=> (a.phase \in NetPhases)
  BY <1>1 DEF Sound
<1>3. Sound(a) /\ a.refused = conn[c].refused
  <2>1. Sound(a)
    BY <1>1, <1>2, ChainSound
  <2> QED  BY <2>1 DEF Kept
<1>4. CASE Becomes(c, Close(a))
  <2>1. Sound(Close(a)) /\ Close(a).phase = conn[c].phase /\ Close(a).refused = conn[c].refused
    BY <1>3, CloseSound
  <2> QED  BY <1>4, <2>1, SameChainInv
<1>5. CASE a.closes = 0 /\ Becomes(c, [a EXCEPT !.closers = @ \cup {"timer"}])
  <2> DEFINE q == [a EXCEPT !.closers = @ \cup {"timer"}]
  <2>1. "timer" \in Closers /\ a.closes = 0
    BY <1>5 DEF Closers
  <2>2. Sound(q) /\ q.phase = a.phase /\ q.refused = a.refused
    BY <1>3, <2>1, TestsCloseSound
  <2>3. Becomes(c, q)
    BY <1>5
  <2> HIDE DEF q
  <2>4. q.phase = conn[c].phase /\ q.refused = conn[c].refused
    BY <1>3, <2>2
  <2> QED  BY <2>2, <2>3, <2>4, SameChainInv
<1>6. a.closes \in Nat
  BY Fields
<1> QED  BY <1>4, <1>5, <1>6 DEF Fired

LEMMA TimersInv ==
  ASSUME Inv, NEW c \in Conns, TimerExpires(c) \/ TimerHandler(c) \/ StaleTimerHandler(c)
  PROVE  Inv'
<1> DEFINE r == conn[c]
           a(t) == [r EXCEPT !.timer = t]
<1>1. r \in Connection
  BY DEF Inv
<1>2. ASSUME NEW t \in {"off", "due"}
      PROVE  /\ a(t) \in Connection /\ Kept(r, a(t))
             /\ a(t).phase = r.phase /\ a(t).op = r.op
  BY <1>1 DEF Connection, Kept
<1>3. CASE TimerExpires(c)
  <2>1. Becomes(c, a("due"))
    BY <1>3 DEF TimerExpires
  <2>2. /\ a("due") \in Connection /\ Kept(r, a("due"))
        /\ a("due").phase = r.phase /\ a("due").op = r.op
    BY <1>2
  <2> DEFINE q == a("due")
  <2> HIDE DEF a
  <2> QED  BY <2>1, <2>2, KeptInv
<1>4. CASE TimerHandler(c)
  <2>1. Becomes(c, Fired(a("off"), r.kind))
    BY <1>4 DEF TimerHandler
  <2>2. /\ a("off") \in Connection /\ Kept(r, a("off"))
        /\ a("off").phase = r.phase /\ a("off").op = r.op
    BY <1>2
  <2> HIDE DEF a
  <2> QED  BY <2>1, <2>2, FiredInv
<1>5. CASE StaleTimerHandler(c)
  <2>1. PICK kind \in r.stale : Becomes(c, Fired([r EXCEPT !.stale = @ \ {kind}], kind))
    BY <1>5 DEF StaleTimerHandler
  <2> DEFINE rest == r.stale \ {kind}
             b == [r EXCEPT !.stale = rest]
  <2>2. rest \in SUBSET {"request", "idle"}
    BY <1>1 DEF Connection
  <2>3. [r EXCEPT !.stale = @ \ {kind}] = b
    BY <1>1 DEF Connection
  <2>4. Becomes(c, Fired(b, kind))
    BY <2>1, <2>3
  <2> HIDE DEF rest
  <2>5. b \in Connection /\ Kept(r, b) /\ b.phase = r.phase /\ b.op = r.op
    BY <1>1, <2>2 DEF Connection, Kept
  <2> HIDE DEF b
  <2> QED  BY <2>4, <2>5, FiredInv
<1> QED  BY <1>3, <1>4, <1>5

LEMMA DeleteInv == ASSUME Inv, NEW c \in Conns, Delete(c) PROVE Inv'
<1>1. connection # c /\ Becomes(c, Blank)
  BY DEF Delete
<1>2. Sound(Blank) /\ ~Blank.refused /\ Blank.phase \notin RunningPhases
  BY BlankSound, Phases
<1> QED  BY <1>1, <1>2, BecomesInv

-----------------------------------------------------------------------------
(* start(), stop() and the destructor *)

LEMMA ApartFromSlots == NoConn \notin Conns /\ Other \notin Conns
BY ConfigAssumption

LEMMA StartClientInv == ASSUME Inv, StartClient PROVE Inv'
<1> DEFINE q == Start(Blank, "resolve", "request")
<1>1. Sound(q) /\ ~q.refused /\ q.phase = "resolve"
  <2>1. Sound(Blank) /\ Blank.phase = "free" /\ ~Blank.refused /\ Blank \in Connection
    BY BlankSound DEF Sound
  <2>2. /\ q \in Connection /\ Kept(Blank, q) /\ q.phase = "resolve" /\ q.op = "pending"
    BY <2>1, StartKeeps, Phases
  <2> HIDE DEF q
  <2>3. (q.op # "none") <=> (q.phase \in NetPhases)
    BY <2>2, Phases
  <2>4. q.phase \in BeforePhases
    BY <2>2, Phases
  <2> QED  BY <2>1, <2>2, <2>3, <2>4, ChainSound
<1>2. PICK c \in Conns \cup {Other} :
        /\ connection' = c
        /\ \/ c = Other /\ UNCHANGED conn
           \/ c \in Conns /\ conn' = [conn EXCEPT ![c] = q]
  BY DEF StartClient
<1> HIDE DEF q
<1>3. ~destroyed /\ ioRunning' = TRUE /\ UNCHANGED <<destroyed, config>>
  BY DEF StartClient
<1>4. q \in Connection
  BY <1>1 DEF Sound
<1>5. conn' \in [Conns -> Connection]
  BY <1>2, <1>4 DEF Inv
<1>6. ASSUME NEW d \in Conns
      PROVE  /\ Sound(conn'[d]) /\ (conn'[d].refused => destroyed)
             /\ connection' = d => conn'[d].phase # "free"
  <2>1. CASE conn'[d] = q
    BY <1>1, <2>1
  <2>2. CASE conn'[d] = conn[d] /\ c # d
    BY <1>2, <2>2 DEF Inv
  <2>3. conn'[d] = q \/ (conn'[d] = conn[d] /\ c # d)
    <3>1. conn \in [Conns -> Connection]
      BY DEF Inv
    <3>2. CASE c = Other /\ UNCHANGED conn
      BY <3>2, ApartFromSlots
    <3>3. CASE c \in Conns /\ conn' = [conn EXCEPT ![c] = q]
      <4>1. CASE c = d
        BY <3>1, <3>3, <4>1
      <4>2. CASE c # d
        BY <3>1, <3>3, <4>2
      <4> QED  BY <4>1, <4>2
    <3> QED  BY <1>2, <3>2, <3>3
  <2> QED  BY <2>1, <2>2, <2>3
<1>7. \A d \in Conns : Sound(conn[d])'
  BY <1>6 DEF Sound, ToldSound, CloseFrames
<1> QED  BY <1>2, <1>3, <1>5, <1>6, <1>7 DEF Inv

LEMMA StoppedSound ==
  ASSUME NEW r, Sound(r)
  PROVE  /\ Sound(Stopped(r)) /\ Stopped(r).phase = r.phase /\ Stopped(r).refused = r.refused
<1> DEFINE d == Close(r)
<1>1. Sound(d) /\ d.phase = r.phase /\ d.refused = r.refused
  BY CloseSound
<1>2. PICK b \in BOOLEAN : Stopped(r) = [d EXCEPT !.stopped = b]
  <2>1. HasSocket(r) \in BOOLEAN
    BY Zenon DEF HasSocket
  <2> QED  BY <2>1, Zenon DEF Stopped
<1> DEFINE q == [d EXCEPT !.stopped = b]
<1>3. d \in Connection
  BY <1>1 DEF Sound
<1> HIDE DEF d
<1>4. /\ q \in Connection /\ Kept(d, q) /\ q.phase = d.phase /\ q.op = d.op
  BY <1>3 DEF Connection, Kept
<1> HIDE DEF q
<1>5. (q.op # "none") <=> (q.phase \in NetPhases)
  BY <1>1, <1>4 DEF Sound
<1>6. Sound(q) /\ q.refused = d.refused
  <2>1. Sound(q)
    BY <1>1, <1>4, <1>5, ChainSound
  <2> QED  BY <1>4, <2>1 DEF Kept
<1> QED  BY <1>1, <1>2, <1>4, <1>6 DEF q

LEMMA CloseCurrentKeeps ==
  ASSUME Inv, CloseCurrent
  PROVE  /\ conn' \in [Conns -> Connection] /\ ioRunning' \in BOOLEAN
         /\ \A c \in Conns : /\ Sound(conn'[c]) /\ conn'[c].phase = conn[c].phase
                             /\ conn'[c].refused = conn[c].refused
<1>1. ASSUME NEW c \in Conns
      PROVE  Sound(conn[c]) /\ Sound(Stopped(conn[c])) /\ Stopped(conn[c]) \in Connection
             /\ Stopped(conn[c]).phase = conn[c].phase
             /\ Stopped(conn[c]).refused = conn[c].refused
  <2>1. Sound(conn[c])
    BY DEF Inv
  <2>2. Sound(Stopped(conn[c])) /\ Stopped(conn[c]).phase = conn[c].phase
        /\ Stopped(conn[c]).refused = conn[c].refused
    BY <2>1, StoppedSound
  <2> QED  BY <2>1, <2>2 DEF Sound
<1>2. \/ conn' = conn
      \/ connection \in Conns /\ conn' = [conn EXCEPT ![connection] = Stopped(conn[connection])]
  BY Zenon DEF CloseCurrent
<1>3. conn \in [Conns -> Connection]
  BY DEF Inv
<1>4. conn' \in [Conns -> Connection]
  BY <1>1, <1>2, <1>3
<1>5. ASSUME NEW c \in Conns PROVE conn'[c] = conn[c] \/ conn'[c] = Stopped(conn[c])
  BY <1>2, <1>3
<1>6. ioRunning' \in BOOLEAN
  BY Zenon DEF CloseCurrent
<1>7. ASSUME NEW c \in Conns
      PROVE  Sound(conn'[c]) /\ conn'[c].phase = conn[c].phase
             /\ conn'[c].refused = conn[c].refused
  BY <1>1, <1>5
<1> QED  BY <1>4, <1>6, <1>7

LEMMA StopInv == ASSUME Inv, Stop PROVE Inv'
<1>1. CloseCurrent /\ UNCHANGED <<connection, destroyed, config>>
  BY DEF Stop
<1>2. /\ conn' \in [Conns -> Connection] /\ ioRunning' \in BOOLEAN
      /\ \A c \in Conns : /\ Sound(conn'[c]) /\ conn'[c].phase = conn[c].phase
                          /\ conn'[c].refused = conn[c].refused
  BY <1>1, CloseCurrentKeeps
<1>3. \A c \in Conns : Sound(conn[c])'
  BY <1>2 DEF Sound, ToldSound, CloseFrames
<1> QED  BY <1>1, <1>2, <1>3 DEF Inv

LEMMA DestroyInv == ASSUME Inv, Destroy PROVE Inv'
<1>1. /\ CloseCurrent /\ UNCHANGED config /\ connection' = NoConn /\ destroyed' = TRUE
      /\ \A c \in Conns : conn[c].phase \notin RunningPhases
  BY DEF Destroy
<1>2. /\ conn' \in [Conns -> Connection] /\ ioRunning' \in BOOLEAN
      /\ \A c \in Conns : /\ Sound(conn'[c]) /\ conn'[c].phase = conn[c].phase
                          /\ conn'[c].refused = conn[c].refused
  BY <1>1, CloseCurrentKeeps
<1>3. \A c \in Conns : Sound(conn[c])'
  BY <1>2 DEF Sound, ToldSound, CloseFrames
<1>4. \A c \in Conns : connection' # c /\ conn'[c].phase \notin RunningPhases
  BY <1>1, <1>2, ApartFromSlots
<1> QED  BY <1>1, <1>2, <1>3, <1>4 DEF Inv

\* No connection changes.
LEMMA NothingInv ==
  ASSUME Inv, UNCHANGED <<conn, connection, destroyed, config>>, ioRunning' \in BOOLEAN
  PROVE  Inv'
BY DEF Inv, Sound, ToldSound, CloseFrames

-----------------------------------------------------------------------------
(* The theorems about WsClient *)

LEMMA ConnStepInv == ASSUME Inv, NEW c \in Conns, ConnStep(c) PROVE Inv'
<1>1. CASE SetupHandlers(c)
  BY <1>1, SetupInv
<1>2. CASE MessageHandlers(c)
  BY <1>2, ReadMovesInv, ReadsInv, ReplySendsInv DEF MessageHandlers
<1>3. CASE UserSteps(c)
  BY <1>3, GrabInv, SendInv, UserCloseInv, UserClosesInv, UserReturnsInv DEF UserSteps
<1>4. CASE WriterSteps(c) \/ SendCompletes(c)
  BY <1>4, WriterMovesInv, SendHandlerInv DEF WriterSteps
<1>5. CASE NetSucceeds(c) \/ NetFails(c)
  BY <1>5, ReadMovesInv
<1>6. CASE TimerExpires(c) \/ TimerHandlers(c)
  BY <1>6, TimersInv, UserCloseInv DEF TimerHandlers
<1>7. CASE Delete(c)
  BY <1>7, DeleteInv
<1> QED  BY <1>1, <1>2, <1>3, <1>4, <1>5, <1>6, <1>7 DEF ConnStep

LEMMA InitInv == Init => Inv
<1> SUFFICES ASSUME Init PROVE Inv
  OBVIOUS
<1>1. Sound(Blank) /\ Blank \in Connection /\ ~Blank.refused
  BY BlankSound DEF Sound
<1>2. /\ conn = [c \in Conns |-> Blank] /\ connection = NoConn /\ config \in Configs
      /\ destroyed = FALSE
  BY DEF Init
<1>3. ioRunning \in BOOLEAN
  BY Zenon DEF Init
<1>4. \A c \in Conns : conn[c] = Blank /\ connection # c
  BY <1>2, ApartFromSlots
<1>5. conn \in [Conns -> Connection]
  BY <1>1, <1>2
<1> QED  BY <1>1, <1>2, <1>3, <1>4, <1>5 DEF Inv

LEMMA NextInv == Inv /\ [Next]_vars => Inv'
<1> SUFFICES ASSUME Inv, [Next]_vars PROVE Inv'
  OBVIOUS
<1>1. CASE \E c \in Conns : ConnStep(c)
  BY <1>1, ConnStepInv
<1>2. CASE StartClient
  BY <1>2, StartClientInv
<1>3. CASE Stop
  BY <1>3, StopInv
<1>4. CASE RunReturns
  BY <1>4, NothingInv DEF RunReturns
<1>5. CASE Destroy
  BY <1>5, DestroyInv
<1>6. CASE UNCHANGED vars
  <2>1. UNCHANGED <<conn, connection, destroyed, config>> /\ ioRunning' = ioRunning
    BY <1>6 DEF vars
  <2>2. ioRunning' \in BOOLEAN
    BY <2>1 DEF Inv
  <2> QED  BY <2>1, <2>2, NothingInv
<1> QED  BY <1>1, <1>2, <1>3, <1>4, <1>5, <1>6 DEF Next

LEMMA Invariance == Spec => []Inv
BY InitInv, NextInv, PTL DEF Spec

\* A connection has the type and the shape that TypeOK gives it: an operation exactly in
\* the phases that wait for one, a writer exactly when its queue holds something, and no
\* more than three close frames, whoever calls send_close() at whatever time.
THEOREM TypeCorrect == Spec => []TypeOK
<1>1. Inv => TypeOK
  BY DEF Inv, Sound, TypeOK
<1> QED  BY <1>1, Invariance, PTL

\* on_error and on_close: the user is told once of the end of every connection that any
\* number of start() calls make, unless the destructor has returned, and never after it.
THEOREM EndToldOnce == Spec => []ToldOnce
<1>1. Inv => ToldOnce
  <2> SUFFICES ASSUME Inv, NEW c \in Conns
               PROVE  /\ conn[c].told # "twice"
                      /\ conn[c].phase = "ended" /\ conn[c].told \in {"nothing", "open"}
                           => conn[c].refused
                      /\ conn[c].refused => destroyed
                      /\ destroyed => conn[c].phase \notin RunningPhases
    BY DEF ToldOnce
  <2> DEFINE r == conn[c]
  <2>1. Sound(r) /\ (r.refused => destroyed) /\ (destroyed => r.phase \notin RunningPhases)
    BY DEF Inv
  <2> HIDE DEF r
  <2>2. r.phase \in NetPhases \cup RunningPhases \cup {"free", "ended"} /\ ToldSound(r)
    BY <2>1, Fields DEF Sound
  <2>3. r.told # "twice"
    BY <2>2, Phases DEF ToldSound
  <2> QED  BY <2>1, <2>2, <2>3 DEF ToldSound, r
<1> QED  BY <1>1, Invariance, PTL

-----------------------------------------------------------------------------
(* WsFrames: the reader and the bytes it counts *)

\* Where the reader is and how many bytes it counts support each other: the place
\* where a part ends depends on what was asked for, and that on the count.
FramesInv == FramesTypeOK /\ ReadsInStep

\* The reads and the counts for the next n bytes fit together: after a read of n bytes the
\* count is again what has been read beyond them (client_ws.hpp:503-600).
LEMMA CountsFit ==
  ASSUME NEW n \in Nat, additional \in Nat, head \in Nat, tail \in Nat,
         additional = tail - head, Arrives(n)
  PROVE  /\ tail' \in Nat /\ Left(n) \in Nat
         /\ Left(n) = tail' - (head + n)
         /\ Left(n) = 0 => tail' = head + n
BY DEF Arrives, Need, Left

\* What is appended to a message leaves it a message.
LEMMA Appending ==
  ASSUME NEW m \in Message, NEW f \in Frame, Word \in Nat \ {0}, head \in Nat, EndOfContent(f) \in Nat
  PROVE  Joined(m, f) \in Message
<1>1. f.length \in Nat
  BY DEF Frame
<1>2. (m.length + f.length) % Word \in 0..(Word - 1)
  BY <1>1 DEF Message
<1>3. Append(m.parts, <<head, EndOfContent(f)>>) \in Seq(Nat \X Nat)
  BY DEF Message
<1>4. QED
  BY <1>2, <1>3 DEF Joined, Message

LEMMA FramesInitInv == FramesInit => FramesInv
<1>1. SUFFICES ASSUME FramesInit PROVE FramesInv
  OBVIOUS
<1>2. tail \in Nat
  BY <1>1, FramesAssumption DEF FramesInit, Carried
<1>3. NoMessage \in Message
  BY FramesAssumption DEF NoMessage, Message
<1>4. QED
  BY <1>1, <1>2, <1>3 DEF FramesInit, FramesInv, FramesTypeOK, ReadsInStep, Steps

\* The frame being read is a frame.
LEMMA ReadingFrame ==
  ASSUME FramesTypeOK, reading <= Len(stream)
  PROVE  /\ stream[reading] \in Frame
         /\ stream[reading].length \in Nat /\ stream[reading].ext \in {0, 2, 8}
<1>1. stream \in Seq(Frame) /\ reading \in 1..Len(stream)
  BY FramesAssumption DEF FramesTypeOK
<1>2. stream[reading] \in Frame
  BY <1>1
<1>3. QED
  BY <1>2 DEF Frame

LEMMA HeaderStep == FramesInv /\ FrameHeaderHandler => FramesInv'
<1> SUFFICES ASSUME FramesInv, FrameHeaderHandler PROVE FramesInv'
  OBVIOUS
<1> DEFINE f == stream[reading]
<1>1. step = "header" /\ head = begin /\ additional = tail - head
  BY DEF FramesInv, ReadsInStep, FrameHeaderHandler, Steps
<1>2. /\ f \in Frame /\ f.length \in Nat /\ f.ext \in {0, 2, 8}
      /\ additional \in Nat /\ head \in Nat /\ tail \in Nat /\ begin \in Nat /\ reading <= Len(stream)
  BY ReadingFrame DEF FramesInv, FrameHeaderHandler, FramesTypeOK
<1>3. tail' \in Nat /\ Left(2) \in Nat /\ Left(2) = tail' - (head + 2)
  BY <1>1, <1>2, CountsFit DEF FrameHeaderHandler
<1>4. UNCHANGED <<stream, reading, begin, fragmented, received, pongs>>
  BY DEF FrameHeaderHandler
<1>5. CASE tail' = tail /\ tail = head
  <2>1. additional' = 0 /\ step' = step /\ head' = head
    BY <1>5 DEF FrameHeaderHandler
  <2>2. QED
    BY <1>1, <1>2, <1>3, <1>4, <1>5, <2>1 DEF FramesInv, FramesTypeOK, ReadsInStep, Steps
<1>6. CASE ~(tail' = tail /\ tail = head)
  <2>1. head' = head + 2 /\ additional' = Left(2)
    BY <1>6 DEF FrameHeaderHandler
  <2>2. step' \in {"masked", "length", "tooBig", "content"}
    BY <1>6 DEF FrameHeaderHandler, ReadContent
  <2>3. step' = "content" => f.ext = 0
    BY <1>2, <1>6 DEF FrameHeaderHandler, ReadContent
  <2>4. ReadsInStep'
    BY <1>1, <1>2, <1>3, <1>4, <2>1, <2>2, <2>3 DEF ReadsInStep, Steps
  <2>5. FramesTypeOK'
    BY <1>2, <1>3, <1>4, <2>1, <2>2 DEF FramesInv, FramesTypeOK, Steps
  <2>6. QED
    BY <2>4, <2>5 DEF FramesInv
<1>7. QED
  BY <1>5, <1>6

LEMMA LengthStep == FramesInv /\ FrameLengthHandler => FramesInv'
<1> SUFFICES ASSUME FramesInv, FrameLengthHandler PROVE FramesInv'
  OBVIOUS
<1> DEFINE f == stream[reading]
<1>1. step = "length" /\ head = begin + 2 /\ additional = tail - head
  BY DEF FramesInv, ReadsInStep, FrameLengthHandler, Steps
<1>2. /\ f \in Frame /\ f.length \in Nat /\ f.ext \in Nat
      /\ additional \in Nat /\ head \in Nat /\ tail \in Nat /\ begin \in Nat /\ reading <= Len(stream)
  BY ReadingFrame DEF FramesInv, FrameLengthHandler, FramesTypeOK
<1>3. tail' \in Nat /\ Left(f.ext) \in Nat /\ Left(f.ext) = tail' - (head + f.ext)
  BY <1>1, <1>2, CountsFit DEF FrameLengthHandler
<1>4. /\ UNCHANGED <<stream, reading, begin, fragmented, received, pongs>>
      /\ head' = head + f.ext /\ additional' = Left(f.ext) /\ step' \in {"tooBig", "content"}
  BY DEF FrameLengthHandler, ReadContent
<1>5. ReadsInStep'
  BY <1>1, <1>2, <1>3, <1>4 DEF ReadsInStep, Steps
<1>6. FramesTypeOK'
  BY <1>2, <1>3, <1>4 DEF FramesInv, FramesTypeOK, Steps
<1>7. QED
  BY <1>5, <1>6 DEF FramesInv

LEMMA ContentStep == FramesInv /\ FrameContentHandler => FramesInv'
<1> SUFFICES ASSUME FramesInv, FrameContentHandler PROVE FramesInv'
  OBVIOUS
<1> DEFINE f == stream[reading]
<1>1. step = "content" /\ head = begin + 2 + f.ext /\ additional = tail - head
  BY DEF FramesInv, ReadsInStep, FrameContentHandler, Steps
<1>2. /\ f \in Frame /\ f.length \in Nat /\ f.ext \in Nat /\ reading \in Nat
      /\ additional \in Nat /\ head \in Nat /\ tail \in Nat /\ begin \in Nat
  <2>1. f \in Frame /\ f.length \in Nat /\ f.ext \in {0, 2, 8}
    BY <1>1, ReadingFrame DEF FramesInv, FramesTypeOK
  <2> HIDE DEF f
  <2> QED  BY <2>1 DEF FramesInv, FramesTypeOK
<1>3. /\ tail' \in Nat /\ Left(f.length) \in Nat /\ Left(f.length) = tail' - (head + f.length)
      /\ Left(f.length) = 0 => tail' = head + f.length
  BY <1>1, <1>2, CountsFit DEF FrameContentHandler
<1>4. EndOfContent(f) = head + f.length
  BY <1>2, <1>3 DEF EndOfContent
<1>5. /\ UNCHANGED stream /\ reading' = reading + 1 /\ begin' = begin + Size(f)
      /\ head' = head + f.length /\ additional' = Left(f.length)
  BY <1>4 DEF FrameContentHandler
<1>6. step' \in {"header", "closed"}
  BY DEF FrameContentHandler, ControlHandler, CloseHandler, FragmentHandler, MessageHandler
<1>7. ReadsInStep'
  BY <1>1, <1>2, <1>3, <1>5, <1>6 DEF ReadsInStep, Steps, Size
<1>8. NoMessage \in Message
  BY FramesAssumption DEF NoMessage, Message
<1>9. Joined(fragmented, f) \in Message
  <2>1. fragmented \in Message /\ EndOfContent(f) \in Nat
    BY <1>2, <1>4 DEF FramesInv, FramesTypeOK
  <2>2. QED
    BY <1>2, <2>1, Appending, FramesAssumption
<1>10. <<head, EndOfContent(f)>> \in Nat \X Nat
  BY <1>2, <1>4
<1>11. fragmented' \in Message /\ received' \in Seq(Message) /\ pongs' \in Seq(Nat \X Nat)
  <2>1. fragmented \in Message /\ received \in Seq(Message) /\ pongs \in Seq(Nat \X Nat)
    BY DEF FramesInv, FramesTypeOK
  <2>2. CASE ControlHandler(f)
    <3>1. fragmented' = fragmented /\ received' = received
      BY <2>2 DEF ControlHandler
    <3>2. pongs' = pongs \/ pongs' = Append(pongs, <<head, EndOfContent(f)>>)
      BY <2>2 DEF ControlHandler
    <3>3. ASSUME NEW c \in Nat \X Nat PROVE Append(pongs, c) \in Seq(Nat \X Nat)
      BY <2>1
    <3>4. Append(pongs, <<head, EndOfContent(f)>>) \in Seq(Nat \X Nat)
      BY <1>10, <3>3, Zenon
    <3>5. QED
      BY <2>1, <3>1, <3>2, <3>4
  <2>3. CASE CloseHandler(f)
    BY <2>1, <2>3 DEF CloseHandler
  <2>4. CASE FragmentHandler(f)
    BY <1>9, <2>1, <2>4 DEF FragmentHandler
  <2>5. CASE MessageHandler(f)
    BY <1>8, <1>9, <2>1, <2>5 DEF MessageHandler
  <2>6. QED
    BY <2>2, <2>3, <2>4, <2>5 DEF FrameContentHandler
<1>12. FramesTypeOK'
  <2>1. stream' \in Streams /\ reading' \in Nat \ {0}
    BY <1>2, <1>5 DEF FramesInv, FramesTypeOK
  <2>2. begin' \in Nat
    BY <1>2, <1>5 DEF Size
  <2>3. head' \in Nat /\ tail' \in Nat /\ additional' \in Nat
    BY <1>2, <1>3, <1>5
  <2>4. QED
    BY <1>6, <1>11, <2>1, <2>2, <2>3 DEF FramesTypeOK, Steps
<1>13. QED
  BY <1>7, <1>12 DEF FramesInv

LEMMA FramesNextInv == FramesInv /\ [FramesNext]_framesVars => FramesInv'
<1> SUFFICES ASSUME FramesInv, [FramesNext]_framesVars PROVE FramesInv'
  OBVIOUS
<1>1. CASE FrameHeaderHandler
  BY <1>1, HeaderStep
<1>2. CASE FrameLengthHandler
  BY <1>2, LengthStep
<1>3. CASE FrameContentHandler
  BY <1>3, ContentStep
<1>4. CASE ReadFails
  BY <1>4 DEF ReadFails, FramesInv, FramesTypeOK, ReadsInStep, Steps
<1>5. CASE UNCHANGED framesVars
  BY <1>5 DEF framesVars, FramesInv, FramesTypeOK, ReadsInStep, Steps
<1>6. QED
  BY <1>1, <1>2, <1>3, <1>4, <1>5 DEF FramesNext

\* The state is well typed: no subtraction of num_additional_bytes wraps.
THEOREM FramesTypeCorrect == FramesSpec => []FramesTypeOK
<1>1. FramesInv => FramesTypeOK
  BY DEF FramesInv
<1>2. QED
  BY <1>1, FramesInitInv, FramesNextInv, PTL DEF FramesSpec

\* The reader takes for a frame's header, length and content the bytes which are,
\* whatever frames come and however much of them the handshake read.
THEOREM ReaderInStep == FramesSpec => []ReadsInStep
<1>1. FramesInv => ReadsInStep
  BY DEF FramesInv
<1>2. QED
  BY <1>1, FramesInitInv, FramesNextInv, PTL DEF FramesSpec

-----------------------------------------------------------------------------
(* WsFrames: what InOrder makes of a set to which a larger number is added *)

\* e is the one increasing enumeration of S.
Enumerates(S, e) ==
  /\ S \subseteq Nat \ {0} /\ IsFiniteSet(S)
  /\ e \in [1..Cardinality(S) -> S] /\ Increasing(e)
  /\ \A s \in [1..Cardinality(S) -> S] : Increasing(s) => s = e

LEMMA InOrderIs ==
  ASSUME NEW S, NEW e, Enumerates(S, e)
  PROVE  InOrder(S) = e
<1> DEFINE Sorted(s) == s \in [1..Cardinality(S) -> S] /\ Increasing(s)
<1>1. Sorted(e) /\ \A s : Sorted(s) => s = e
  BY DEF Enumerates
<1>2. InOrder(S) = CHOOSE s : Sorted(s)
  BY DEF InOrder
<1> HIDE DEF Sorted
<1> QED  BY <1>1, <1>2

LEMMA EnumeratesNothing == Enumerates({}, <<>>)
<1>1. IsFiniteSet({}) /\ Cardinality({}) = 0 /\ 1..0 = {}
  BY FS_EmptySet
<1>2. <<>> \in [1..0 -> {}] /\ \A s \in [1..0 -> {}] : s = <<>>
  BY <1>1
<1>3. Increasing(<<>>)
  BY DEF Increasing
<1> QED  BY <1>1, <1>2, <1>3 DEF Enumerates

LEMMA EnumeratesMore ==
  ASSUME NEW S, NEW e, Enumerates(S, e), NEW m \in Nat \ {0}, \A i \in S : i < m
  PROVE  Enumerates(S \cup {m}, Append(e, m))
<1> DEFINE T == S \cup {m}
           k == Cardinality(S)
<1>1. S \subseteq Nat /\ IsFiniteSet(S) /\ m \notin S /\ k \in Nat
  BY FS_CardinalityType DEF Enumerates
<1>2. IsFiniteSet(T) /\ Cardinality(T) = k + 1
  BY <1>1, FS_AddElement
<1>3. e \in [1..k -> S] /\ Increasing(e)
  BY DEF Enumerates
<1>4. e \in Seq(S) /\ Len(e) = k
  BY <1>1, <1>3
<1> DEFINE a == Append(e, m)
<1>5. a \in [1..(k + 1) -> T] /\ a[k + 1] = m /\ \A i \in 1..k : a[i] = e[i]
  <2>1. a \in Seq(T) /\ Len(a) = k + 1 /\ a[k + 1] = m
    BY <1>1, <1>4
  <2>2. \A i \in 1..k : a[i] = e[i]
    BY <1>1, <1>4
  <2>3. a \in [1..(k + 1) -> T]
    <3> HIDE DEF a, T
    <3>1. a \in [1..Len(a) -> T]
      BY <2>1
    <3> QED  BY <2>1, <3>1
  <2> QED  BY <2>1, <2>2, <2>3
<1>6. Increasing(a)
  <2> SUFFICES ASSUME NEW i \in 1..(k + 1), NEW j \in 1..(k + 1), i < j PROVE a[i] < a[j]
    BY <1>5 DEF Increasing
  <2>1. i \in 1..k /\ a[i] = e[i] /\ e[i] \in S
    BY <1>1, <1>3, <1>5
  <2>2. CASE j = k + 1
    BY <1>5, <2>1, <2>2
  <2>3. CASE j # k + 1
    <3>1. j \in 1..k
      BY <1>1, <2>3
    <3>2. e[i] < e[j]
      BY <1>3, <2>1, <3>1 DEF Increasing
    <3> QED  BY <1>5, <2>1, <3>1, <3>2
  <2> QED  BY <2>2, <2>3
<1> HIDE DEF a, k
<1>7. ASSUME NEW s \in [1..(k + 1) -> T], Increasing(s) PROVE s = a
  <2>1. s[k + 1] = m
    <3>1. SUFFICES ASSUME s[k + 1] # m PROVE FALSE
      OBVIOUS
    <3>2. k + 1 \in 1..(k + 1) /\ s[k + 1] \in S
      BY <1>1, <1>7, <3>1
    <3>3. \A i \in 1..(k + 1) : s[i] \in S
      <4> SUFFICES ASSUME NEW i \in 1..(k + 1), s[i] = m PROVE FALSE
        BY <1>7
      <4>1. i # k + 1 /\ i < k + 1
        BY <1>1, <3>1
      <4>2. s[i] < s[k + 1]
        BY <1>7, <3>2, <4>1 DEF Increasing
      <4>3. s[k + 1] \in Nat /\ s[k + 1] < m
        BY <1>1, <3>2
      <4> QED  BY <4>2, <4>3
    <3>4. s \in [1..(k + 1) -> S]
      BY <1>7, <3>3
    <3>5. IsFiniteSet(1..(k + 1)) /\ Cardinality(1..(k + 1)) = k + 1
      BY <1>1, FS_Interval
    <3>6. Cardinality(S) < Cardinality(1..(k + 1))
      BY <1>1, <3>5 DEF k
    <3>7. PICK i \in 1..(k + 1), j \in 1..(k + 1) : i # j /\ s[i] = s[j]
      BY <1>1, <3>4, <3>5, <3>6, FS_PigeonHole
    <3>8. s[i] < s[j] \/ s[j] < s[i]
      <4>1. DOMAIN s = 1..(k + 1)
        BY <1>7
      <4>2. i \in Nat /\ j \in Nat
        BY <1>1, <3>7
      <4>3. CASE i < j
        BY <1>7, <3>7, <4>1, <4>3 DEF Increasing
      <4>4. CASE j < i
        BY <1>7, <3>7, <4>1, <4>4 DEF Increasing
      <4> QED  BY <3>7, <4>2, <4>3, <4>4
    <3>9. s[i] \in Nat
      <4>1. s[i] \in S
        BY <3>3
      <4> QED  BY <1>1, <4>1
    <3>10. ~(s[i] < s[i])
      BY <3>9
    <3> QED  BY <3>7, <3>8, <3>10
  <2> DEFINE t == [i \in 1..k |-> s[i]]
  <2>2. \A i \in 1..k : i \in 1..(k + 1) /\ i < k + 1
    BY <1>1
  <2>3. t \in [1..k -> S]
    <3> SUFFICES ASSUME NEW i \in 1..k PROVE s[i] \in S
      OBVIOUS
    <3>1. s[i] < s[k + 1]
      BY <1>1, <1>7, <2>2 DEF Increasing
    <3> QED  BY <1>1, <1>7, <2>1, <2>2, <3>1
  <2>4. Increasing(t)
    BY <1>7, <2>2 DEF Increasing
  <2>5. t = e
    BY <2>3, <2>4 DEF Enumerates, k
  <2>6. \A i \in 1..(k + 1) : s[i] = a[i]
    <3> SUFFICES ASSUME NEW i \in 1..(k + 1) PROVE s[i] = a[i]
      OBVIOUS
    <3>1. CASE i = k + 1
      BY <1>5, <2>1, <3>1
    <3>2. CASE i # k + 1
      <4>1. i \in 1..k
        BY <1>1, <3>2
      <4>2. s[i] = t[i]
        BY <4>1
      <4> QED  BY <1>5, <2>5, <4>1, <4>2
    <3> QED  BY <3>1, <3>2
  <2> HIDE DEF T
  <2>7. s = [i \in 1..(k + 1) |-> s[i]] /\ a = [i \in 1..(k + 1) |-> a[i]]
    BY <1>5, <1>7
  <2>8. [i \in 1..(k + 1) |-> s[i]] = [i \in 1..(k + 1) |-> a[i]]
    BY <2>6, Zenon
  <2> QED  BY <2>7, <2>8, Zenon
<1>8. T \subseteq Nat \ {0}
  BY DEF Enumerates
<1> QED  BY <1>2, <1>5, <1>6, <1>7, <1>8 DEF Enumerates, a

-----------------------------------------------------------------------------
(* WsFrames: where a frame starts *)

\* s says where each of the first n frames starts.
Starts(n, s) == s = [k \in 1..n |-> IF k = 1 THEN 0 ELSE s[k - 1] + Size(stream[k - 1])]

\* Frame n starts after b bytes: the recursion has one solution up to n.
Placed(n, b) ==
  \E s : /\ Starts(n, s) /\ s[n] = b
         /\ \A t : Starts(n, t) => t = s

LEMMA PlacedFirst == Placed(1, 0)
<1> DEFINE s == [k \in 1..1 |-> 0]
<1>1. 1..1 = {1}
  OBVIOUS
<1>2. Starts(1, s) /\ s[1] = 0
  BY <1>1 DEF Starts
<1>3. ASSUME NEW t, Starts(1, t) PROVE t = s
  BY <1>1, <1>3 DEF Starts
<1> QED  BY <1>2, <1>3 DEF Placed

LEMMA PlacedIs ==
  ASSUME NEW n, NEW b, Placed(n, b)
  PROVE  StartOf(n) = b
<1>1. PICK s : Starts(n, s) /\ s[n] = b /\ \A t : Starts(n, t) => t = s
  BY DEF Placed
<1>2. s = CHOOSE t : Starts(n, t)
  BY <1>1
<1>3. StartOf(n) = (CHOOSE t : Starts(n, t))[n]
  BY DEF StartOf, Starts
<1> QED  BY <1>1, <1>2, <1>3

LEMMA PlacedNext ==
  ASSUME NEW n \in Nat \ {0}, NEW b, Placed(n, b)
  PROVE  Placed(n + 1, b + Size(stream[n]))
<1>1. PICK s : Starts(n, s) /\ s[n] = b /\ \A t : Starts(n, t) => t = s
  BY DEF Placed
<1> DEFINE c == b + Size(stream[n])
           u == [k \in 1..(n + 1) |-> IF k = n + 1 THEN c ELSE s[k]]
<1>2. \A k \in 1..n : k \in 1..(n + 1) /\ k # n + 1 /\ (k # 1 => k - 1 \in 1..n)
  OBVIOUS
<1>3. n + 1 \in 1..(n + 1) /\ (n + 1) - 1 = n /\ n + 1 # 1 /\ n \in 1..n
  OBVIOUS
<1>4. \A k \in 1..n : s[k] = IF k = 1 THEN 0 ELSE s[k - 1] + Size(stream[k - 1])
  BY <1>1 DEF Starts
<1> HIDE DEF c
<1>5. \A k \in 1..n : u[k] = s[k]
  BY <1>2
<1>6. u[n + 1] = c
  BY <1>3
<1>7. c = u[n] + Size(stream[n])
  BY <1>1, <1>3, <1>5 DEF c
<1>8. \A k \in 1..(n + 1) : u[k] = IF k = 1 THEN 0 ELSE u[k - 1] + Size(stream[k - 1])
  <2> SUFFICES ASSUME NEW k \in 1..(n + 1)
               PROVE u[k] = IF k = 1 THEN 0 ELSE u[k - 1] + Size(stream[k - 1])
    OBVIOUS
  <2> HIDE DEF u
  <2>1. CASE k = n + 1
    BY <1>3, <1>6, <1>7, <2>1
  <2>2. CASE k # n + 1
    <3>1. k \in 1..n
      BY <2>2
    <3>2. u[k] = s[k] /\ (k # 1 => u[k - 1] = s[k - 1])
      BY <1>2, <1>5, <3>1
    <3> QED  BY <1>4, <3>1, <3>2
  <2> QED  BY <2>1, <2>2
<1>9. Starts(n + 1, u)
  <2>1. u = [k \in 1..(n + 1) |-> u[k]]
    OBVIOUS
  <2> HIDE DEF u
  <2> QED  BY <1>8, <2>1 DEF Starts
<1>10. ASSUME NEW t, Starts(n + 1, t) PROVE t = u
  <2> DEFINE r == [k \in 1..n |-> t[k]]
  <2>1. \A k \in 1..(n + 1) : t[k] = IF k = 1 THEN 0 ELSE t[k - 1] + Size(stream[k - 1])
    BY <1>10 DEF Starts
  <2>2. \A k \in 1..n : r[k] = t[k] /\ (k # 1 => r[k - 1] = t[k - 1])
    BY <1>2
  <2>3. \A k \in 1..n : r[k] = IF k = 1 THEN 0 ELSE r[k - 1] + Size(stream[k - 1])
    BY <1>2, <2>1, <2>2
  <2>4. r = s
    <3>1. r = [k \in 1..n |-> r[k]]
      OBVIOUS
    <3> HIDE DEF r
    <3>2. Starts(n, r)
      BY <2>3, <3>1 DEF Starts
    <3> QED  BY <1>1, <3>2
  <2>5. \A k \in 1..n : t[k] = s[k]
    BY <2>2, <2>4
  <2>6. t[n + 1] = c
    BY <1>1, <1>3, <2>1, <2>5 DEF c
  <2>7. \A k \in 1..(n + 1) : t[k] = u[k]
    <3> SUFFICES ASSUME NEW k \in 1..(n + 1) PROVE t[k] = u[k]
      OBVIOUS
    <3> HIDE DEF u
    <3>1. CASE k = n + 1
      BY <1>6, <2>6, <3>1
    <3>2. CASE k # n + 1
      <4>1. k \in 1..n
        BY <3>2
      <4> QED  BY <1>5, <2>5, <4>1
    <3> QED  BY <3>1, <3>2
  <2>8. t = [k \in 1..(n + 1) |-> t[k]] /\ u = [k \in 1..(n + 1) |-> u[k]]
    BY <1>10 DEF Starts
  <2> HIDE DEF u
  <2>9. [k \in 1..(n + 1) |-> t[k]] = [k \in 1..(n + 1) |-> u[k]]
    BY <2>7, Zenon
  <2> QED  BY <2>8, <2>9, Zenon
<1> HIDE DEF u
<1> QED  BY <1>6, <1>9, <1>10 DEF Placed, c

-----------------------------------------------------------------------------
(* WsFrames: what one more frame adds to what the frames mean *)

\* The data frames since the last message.
Open(n) == {i \in Data(n) : \A k \in Finals(n) : k < i}

LEMMA FrameAdded ==
  ASSUME NEW n \in Nat, NEW f, f = stream[n + 1]
  PROVE  /\ Data(n) \subseteq 1..n /\ Finals(n) \subseteq 1..n
         /\ Open(n) \subseteq 1..n /\ Pings(n) \subseteq 1..n
         /\ f.kind # "data" => Finals(n + 1) = Finals(n) /\ Open(n + 1) = Open(n)
         /\ (f.kind = "data" /\ ~f.fin) =>
              Finals(n + 1) = Finals(n) /\ Open(n + 1) = Open(n) \cup {n + 1}
         /\ (f.kind = "data" /\ f.fin) =>
              Finals(n + 1) = Finals(n) \cup {n + 1} /\ Open(n + 1) = {}
         /\ f.kind = "data" => PartsOf(n + 1) = Open(n) \cup {n + 1}
         /\ f.kind = "ping" => Pings(n + 1) = Pings(n) \cup {n + 1}
         /\ f.kind # "ping" => Pings(n + 1) = Pings(n)
<1> DEFINE m == n + 1
<1>1. /\ m - 1 = n /\ m \in 1..m /\ m \notin 1..n
      /\ \A i : i \in 1..m <=> (i \in 1..n \/ i = m)
      /\ \A i \in 1..n : i < m
      /\ \A i \in 1..m : ~(m < i) /\ ~(i < i)
  OBVIOUS
<1>2. Data(n) \subseteq 1..n /\ Finals(n) \subseteq Data(n) /\ Open(n) \subseteq Data(n)
      /\ Pings(n) \subseteq 1..n
  BY DEF Data, Finals, Open, Pings
<1>3. f = stream[m]
  OBVIOUS
<1> HIDE DEF m
<1>4. f.kind # "data" => Data(m) = Data(n)
  BY <1>1, <1>3 DEF Data
<1>5. f.kind = "data" => Data(m) = Data(n) \cup {m}
  BY <1>1, <1>3 DEF Data
<1>6. f.kind # "data" => Finals(m) = Finals(n) /\ Open(m) = Open(n)
  BY <1>4 DEF Finals, Open
<1>7. (f.kind = "data" /\ ~f.fin) => Finals(m) = Finals(n)
  BY <1>3, <1>5 DEF Finals
<1>8. (f.kind = "data" /\ f.fin) => Finals(m) = Finals(n) \cup {m}
  BY <1>3, <1>5 DEF Finals
<1>9. \A k \in Finals(n) : k < m
  BY <1>1, <1>2
<1>10. (f.kind = "data" /\ ~f.fin) => Open(m) = Open(n) \cup {m}
  BY <1>5, <1>7, <1>9 DEF Open
<1>11. (f.kind = "data" /\ f.fin) => Open(m) = {}
  <2> SUFFICES ASSUME f.kind = "data", f.fin, NEW i \in Open(m) PROVE FALSE
    OBVIOUS
  <2>1. m < i /\ i \in 1..m
    BY <1>8 DEF Open, Data
  <2> QED  BY <1>1, <2>1
<1>12. f.kind = "data" => PartsOf(m) = Open(n) \cup {m}
  BY <1>1, <1>5, <1>9 DEF PartsOf, Open
<1>13. f.kind = "ping" => Pings(m) = Pings(n) \cup {m}
  BY <1>1, <1>3 DEF Pings
<1>14. f.kind # "ping" => Pings(m) = Pings(n)
  BY <1>1, <1>3 DEF Pings
<1> QED  BY <1>2, <1>6, <1>7, <1>8, <1>10, <1>11, <1>12, <1>13, <1>14 DEF m

\* S has an order.
Ordered(S) == Enumerates(S, InOrder(S))

LEMMA PayloadAdded ==
  ASSUME NEW S, Ordered(S), NEW m \in Nat \ {0}, \A i \in S : i < m
  PROVE  /\ Ordered(S \cup {m})
         /\ InOrder(S \cup {m}) = Append(InOrder(S), m)
         /\ Payloads(S \cup {m}) = Append(Payloads(S), Payload(m))
<1> DEFINE T == S \cup {m}
           e == InOrder(S)
           a == Append(e, m)
           k == Cardinality(S)
<1>1. Enumerates(T, a)
  BY EnumeratesMore DEF Ordered
<1>2. InOrder(T) = a
  <2> HIDE DEF T, a
  <2> QED  BY <1>1, InOrderIs
<1>3. k \in Nat /\ e \in [1..k -> S]
  BY FS_CardinalityType DEF Ordered, Enumerates
<1> HIDE DEF e, k
<1>4. e \in Seq(S) /\ Len(e) = k /\ DOMAIN e = 1..k
  BY <1>3
<1>5. DOMAIN a = 1..(k + 1) /\ a[k + 1] = m /\ \A i \in 1..k : a[i] = e[i]
  BY <1>3, <1>4
<1> DEFINE p == [i \in 1..k |-> Payload(e[i])]
           q == [i \in 1..(k + 1) |-> Payload(a[i])]
<1>6. Payloads(S) = p
  BY <1>4 DEF Payloads, e
<1>7. Payloads(T) = q
  <2> HIDE DEF T, a
  <2> QED  BY <1>2, <1>5 DEF Payloads
<1>8. q = Append(p, Payload(m))
  <2>1. p = [i \in 1..k |-> p[i]] /\ Len(p) = k
    BY <1>3
  <2>2. Append(p, Payload(m)) = [i \in 1..(k + 1) |-> IF i = k + 1 THEN Payload(m) ELSE p[i]]
    BY <1>3, <2>1
  <2>3. \A i \in 1..(k + 1) : q[i] = IF i = k + 1 THEN Payload(m) ELSE p[i]
    <3> SUFFICES ASSUME NEW i \in 1..(k + 1)
                 PROVE q[i] = IF i = k + 1 THEN Payload(m) ELSE p[i]
      OBVIOUS
    <3> HIDE DEF a
    <3>1. CASE i = k + 1
      BY <1>5, <3>1
    <3>2. CASE i # k + 1
      <4>1. i \in 1..k
        BY <1>3, <3>2
      <4> QED  BY <1>5, <3>2, <4>1
    <3> QED  BY <3>1, <3>2
  <2>4. q = [i \in 1..(k + 1) |-> q[i]]
    OBVIOUS
  <2> HIDE DEF q
  <2>5. [i \in 1..(k + 1) |-> q[i]]
          = [i \in 1..(k + 1) |-> IF i = k + 1 THEN Payload(m) ELSE p[i]]
    BY <2>3, Zenon
  <2> QED  BY <2>2, <2>4, <2>5, Zenon
<1>9. Ordered(T)
  <2> HIDE DEF T, a
  <2> QED  BY <1>1, <1>2 DEF Ordered
<1> QED  BY <1>2, <1>6, <1>7, <1>8, <1>9 DEF e

\* What on_message has been called with when n frames have been read.
AllMeant(n) ==
  LET ends == InOrder(Finals(n)) IN [k \in DOMAIN ends |-> Meaning(PartsOf(ends[k]))]

LEMMA MeaningAdded ==
  ASSUME NEW n \in Nat, Ordered(Finals(n)), Finals(n) \subseteq 1..n,
         Finals(n + 1) = Finals(n) \cup {n + 1}
  PROVE  AllMeant(n + 1) = Append(AllMeant(n), Meaning(PartsOf(n + 1)))
<1> DEFINE m == n + 1
           e == InOrder(Finals(n))
           a == Append(e, m)
           k == Cardinality(Finals(n))
<1>1. m \in Nat \ {0} /\ \A i \in Finals(n) : i < m
  OBVIOUS
<1>2. InOrder(Finals(m)) = a
  <2> HIDE DEF m
  <2>1. Finals(m) = Finals(n) \cup {m}
    BY DEF m
  <2> QED  BY <1>1, <2>1, PayloadAdded
<1>3. k \in Nat /\ e \in [1..k -> Finals(n)]
  BY FS_CardinalityType DEF Ordered, Enumerates
<1> HIDE DEF e, k, m
<1>4. e \in Seq(Finals(n)) /\ Len(e) = k /\ DOMAIN e = 1..k
  BY <1>3
<1>5. DOMAIN a = 1..(k + 1) /\ a[k + 1] = m /\ \A i \in 1..k : a[i] = e[i]
  BY <1>3, <1>4
<1> DEFINE p == [i \in 1..k |-> Meaning(PartsOf(e[i]))]
           q == [i \in 1..(k + 1) |-> Meaning(PartsOf(a[i]))]
<1>6. AllMeant(n) = p
  BY <1>4 DEF AllMeant, e
<1>7. AllMeant(m) = q
  <2> HIDE DEF a
  <2> QED  BY <1>2, <1>5 DEF AllMeant
<1>8. q = Append(p, Meaning(PartsOf(m)))
  <2>1. p = [i \in 1..k |-> p[i]] /\ Len(p) = k
    BY <1>3
  <2>2. Append(p, Meaning(PartsOf(m)))
          = [i \in 1..(k + 1) |-> IF i = k + 1 THEN Meaning(PartsOf(m)) ELSE p[i]]
    BY <1>3, <2>1
  <2>3. \A i \in 1..(k + 1) : q[i] = IF i = k + 1 THEN Meaning(PartsOf(m)) ELSE p[i]
    <3> SUFFICES ASSUME NEW i \in 1..(k + 1)
                 PROVE q[i] = IF i = k + 1 THEN Meaning(PartsOf(m)) ELSE p[i]
      OBVIOUS
    <3> HIDE DEF a
    <3>1. CASE i = k + 1
      BY <1>5, <3>1
    <3>2. CASE i # k + 1
      <4>1. i \in 1..k
        BY <1>3, <3>2
      <4> QED  BY <1>5, <3>2, <4>1
    <3> QED  BY <3>1, <3>2
  <2>4. q = [i \in 1..(k + 1) |-> q[i]]
    OBVIOUS
  <2> HIDE DEF q
  <2>5. [i \in 1..(k + 1) |-> q[i]]
          = [i \in 1..(k + 1) |-> IF i = k + 1 THEN Meaning(PartsOf(m)) ELSE p[i]]
    BY <2>3, Zenon
  <2> QED  BY <2>2, <2>4, <2>5, Zenon
<1> QED  BY <1>6, <1>7, <1>8 DEF m

\* The contents of the first n frames are within the first b bytes.
Before(n, b) == \A i \in 1..n : /\ Payload(i)[1] \in 0..b /\ Payload(i)[2] \in 0..b

LEMMA BytesAdded ==
  ASSUME NEW n \in Nat, NEW b \in Nat, Before(n, b), NEW S, S \subseteq 1..n,
         NEW h \in Nat, b <= h, NEW l \in Nat, Payload(n + 1) = <<h, h + l>>
  PROVE  /\ Cardinality(Bytes(S)) \in 0..b
         /\ Cardinality(Bytes(S \cup {n + 1})) = Cardinality(Bytes(S)) + l
<1> DEFINE more == (h + 1)..(h + l)
<1>1. Bytes(S) \subseteq 1..b
  BY DEF Bytes, Before
<1>2. Bytes(S \cup {n + 1}) = Bytes(S) \cup more
  BY DEF Bytes
<1>3. IsFiniteSet(1..b) /\ Cardinality(1..b) = b
  BY FS_Interval
<1>4. IsFiniteSet(Bytes(S)) /\ Cardinality(Bytes(S)) <= b
  BY <1>1, <1>3, FS_Subset
<1>5. Cardinality(Bytes(S)) \in Nat
  BY <1>4, FS_CardinalityType
<1>6. IsFiniteSet(more) /\ Cardinality(more) = l
  BY FS_Interval
<1>7. Bytes(S) \cap more = {}
  BY <1>1
<1> HIDE DEF more
<1>8. Cardinality(Bytes(S) \cup more) = Cardinality(Bytes(S)) + l
  <2>1. Cardinality(Bytes(S) \cup more)
          = Cardinality(Bytes(S)) + Cardinality(more) - Cardinality(Bytes(S) \cap more)
    BY <1>4, <1>6, FS_Union, Zenon
  <2>2. Cardinality(Bytes(S) \cap more) = 0
    BY <1>7, FS_EmptySet
  <2> QED  BY <1>5, <1>6, <2>1, <2>2
<1>9. Cardinality(Bytes(S)) \in 0..b
  BY <1>4, <1>5
<1>10. Cardinality(Bytes(S \cup {n + 1})) = Cardinality(Bytes(S)) + l
  BY <1>2, <1>8, Zenon
<1> QED  BY <1>9, <1>10

-----------------------------------------------------------------------------
(* WsFrames: messages arrive as they were sent *)

\* What on_message and the pongs have had is what the frames read so far mean, and what has
\* been kept of a message is what its first fragments mean.  The content of a frame comes
\* after all that was read before it, and is no more than a length can say: so the sum in
\* TooBig is that of the sizes.
Understood(n) ==
  /\ Ordered(Finals(n)) /\ Ordered(Open(n)) /\ Ordered(Pings(n))
  /\ received = AllMeant(n)
  /\ fragmented = Meaning(Open(n))
  /\ pongs = Payloads(Pings(n))

MessagesInv ==
  /\ tail \in 0..(Word - 1)
  /\ Placed(reading, begin)
  /\ Before(reading - 1, begin)
  /\ step = "content" => ~TooBig(stream[reading])
  /\ \A k \in DOMAIN received : received[k].length <= MaxMessageSize
  /\ Understood(reading - 1)

LEMMA NothingMeant == InOrder({}) = <<>> /\ Ordered({}) /\ Payloads({}) = <<>> /\ Meaning({}) = NoMessage
<1>1. InOrder({}) = <<>> /\ Ordered({})
  BY EnumeratesNothing, InOrderIs DEF Ordered
<1>2. Payloads({}) = <<>>
  <2> DEFINE s == InOrder({})
  <2>1. DOMAIN s = {}
    BY <1>1
  <2> HIDE DEF s
  <2>2. [k \in {} |-> Payload(s[k])] = <<>>
    OBVIOUS
  <2> QED  BY <2>1, <2>2 DEF Payloads, s
<1>3. Cardinality(Bytes({})) = 0
  <2>1. Bytes({}) = {}
    BY DEF Bytes
  <2> QED  BY <2>1, FS_EmptySet
<1> QED  BY <1>1, <1>2, <1>3 DEF Meaning, NoMessage

LEMMA MessagesInitInv == FramesInit => MessagesInv
<1> SUFFICES ASSUME FramesInit PROVE MessagesInv
  OBVIOUS
<1>1. reading - 1 = 0 /\ 1..0 = {} /\ reading = 1 /\ begin = 0 /\ step = "header"
  BY DEF FramesInit
<1>2. tail \in 0..(Word - 1)
  BY DEF FramesInit, Carried
<1>3. Before(0, begin)
  BY <1>1 DEF Before
<1>4. Data(0) = {} /\ Finals(0) = {} /\ Open(0) = {} /\ Pings(0) = {}
  BY <1>1 DEF Data, Finals, Open, Pings
<1>5. AllMeant(0) = <<>>
  <2> DEFINE s == InOrder({})
  <2>1. DOMAIN s = {}
    BY NothingMeant
  <2> HIDE DEF s
  <2>2. [k \in {} |-> Meaning(PartsOf(s[k]))] = <<>>
    OBVIOUS
  <2> QED  BY <1>4, <2>1, <2>2 DEF AllMeant, s
<1>6. Understood(0)
  BY <1>4, <1>5, NothingMeant DEF Understood, FramesInit
<1>7. \A k \in DOMAIN received : received[k].length <= MaxMessageSize
  BY DEF FramesInit
<1> QED  BY <1>1, <1>2, <1>3, <1>6, <1>7, PlacedFirst DEF MessagesInv

\* Where frames start, for any stream.
StartIn(frames, n) ==
  LET start[k \in 1..n] == IF k = 1 THEN 0 ELSE start[k - 1] + Size(frames[k - 1])
  IN  start[n]

\* What frames mean does not change as long as they do not.
LEMMA SameStream ==
  ASSUME stream' = stream
  PROVE  /\ \A n, b : Placed(n, b)' = Placed(n, b)
         /\ \A n, b : Before(n, b)' = Before(n, b)
         /\ \A n : /\ Finals(n)' = Finals(n) /\ Open(n)' = Open(n) /\ Pings(n)' = Pings(n)
                   /\ AllMeant(n)' = AllMeant(n)
         /\ \A S : Payloads(S)' = Payloads(S) /\ Meaning(S)' = Meaning(S)
<1>1. ASSUME NEW n PROVE StartOf(n)' = StartOf(n)
  <2>1. StartOf(n) = StartIn(stream, n)
    BY DEF StartOf, StartIn
  <2>2. StartOf(n)' = StartIn(stream', n)
    BY DEF StartOf, StartIn
  <2> QED  BY <2>1, <2>2
<1>2. ASSUME NEW i PROVE Payload(i)' = Payload(i)
  BY <1>1 DEF Payload
<1>3. ASSUME NEW S PROVE Bytes(S)' = Bytes(S)
  BY <1>2 DEF Bytes
<1>4. ASSUME NEW S PROVE Payloads(S)' = Payloads(S)
  BY <1>2 DEF Payloads
<1>5. ASSUME NEW S PROVE Meaning(S)' = Meaning(S)
  BY <1>3, <1>4 DEF Meaning
<1>6. ASSUME NEW n PROVE Data(n)' = Data(n) /\ Pings(n)' = Pings(n)
  BY DEF Data, Pings
<1>7. ASSUME NEW n PROVE Finals(n)' = Finals(n)
  BY <1>6 DEF Finals
<1>8. ASSUME NEW n PROVE PartsOf(n)' = PartsOf(n) /\ Open(n)' = Open(n)
  BY <1>6, <1>7 DEF PartsOf, Open
<1>9. ASSUME NEW n PROVE AllMeant(n)' = AllMeant(n)
  BY <1>5, <1>7, <1>8 DEF AllMeant
<1>10. ASSUME NEW n, NEW b PROVE Before(n, b)' = Before(n, b)
  BY <1>2 DEF Before
<1>11. ASSUME NEW n, NEW b PROVE Placed(n, b)' = Placed(n, b)
  <2>1. ASSUME NEW s PROVE Starts(n, s)' = Starts(n, s)
    BY DEF Starts, Size
  <2> QED  BY <2>1 DEF Placed
<1> QED  BY <1>4, <1>5, <1>6, <1>7, <1>8, <1>9, <1>10, <1>11

\* A read that brings only bytes leaves what has been understood.
LEMMA OnlyBytes ==
  ASSUME MessagesInv, UNCHANGED <<stream, reading, begin, fragmented, received, pongs>>,
         tail' \in 0..(Word - 1), step' = "content" => ~TooBig(stream[reading])
  PROVE  MessagesInv'
<1>1. Placed(reading, begin)' /\ Before(reading - 1, begin)'
  BY SameStream DEF MessagesInv
<1>2. (step = "content" => ~TooBig(stream[reading]))'
  BY DEF TooBig
<1>3. (\A k \in DOMAIN received : received[k].length <= MaxMessageSize)'
  BY DEF MessagesInv
<1>4. Understood(reading - 1)'
  BY SameStream DEF MessagesInv, Understood, Ordered
<1> QED  BY <1>1, <1>2, <1>3, <1>4 DEF MessagesInv

LEMMA HeaderUnderstood == FramesInv /\ MessagesInv /\ FrameHeaderHandler => MessagesInv'
<1> SUFFICES ASSUME FramesInv, MessagesInv, FrameHeaderHandler PROVE MessagesInv'
  OBVIOUS
<1>1. UNCHANGED <<stream, reading, begin, fragmented, received, pongs>>
  BY DEF FrameHeaderHandler
<1>2. tail' \in 0..(Word - 1)
  BY DEF FrameHeaderHandler, Arrives, Carried
<1>3. step' = "content" => ~TooBig(stream[reading])
  BY DEF FrameHeaderHandler, ReadContent
<1> QED  BY <1>1, <1>2, <1>3, OnlyBytes

LEMMA LengthUnderstood == FramesInv /\ MessagesInv /\ FrameLengthHandler => MessagesInv'
<1> SUFFICES ASSUME FramesInv, MessagesInv, FrameLengthHandler PROVE MessagesInv'
  OBVIOUS
<1>1. UNCHANGED <<stream, reading, begin, fragmented, received, pongs>>
  BY DEF FrameLengthHandler
<1>2. tail' \in 0..(Word - 1)
  BY DEF FrameLengthHandler, Arrives, Carried
<1>3. step' = "content" => ~TooBig(stream[reading])
  BY DEF FrameLengthHandler, ReadContent
<1> QED  BY <1>1, <1>2, <1>3, OnlyBytes

LEMMA ContentUnderstood == FramesInv /\ MessagesInv /\ FrameContentHandler => MessagesInv'
<1> SUFFICES ASSUME FramesInv, MessagesInv, FrameContentHandler PROVE MessagesInv'
  OBVIOUS
<1> DEFINE f == stream[reading]
           n == reading - 1
<1>1. step = "content" /\ head = begin + 2 + f.ext /\ additional = tail - head
  BY DEF FramesInv, ReadsInStep, FrameContentHandler, Steps
<1>2. /\ f \in Frame /\ f.length \in Nat /\ f.ext \in Nat /\ reading \in Nat \ {0}
      /\ additional \in Nat /\ head \in Nat /\ tail \in Nat /\ begin \in Nat
  <2>1. f \in Frame /\ f.length \in Nat /\ f.ext \in {0, 2, 8}
    BY <1>1, ReadingFrame DEF FramesInv, FramesTypeOK
  <2> HIDE DEF f
  <2> QED  BY <2>1 DEF FramesInv, FramesTypeOK
<1>3. n \in Nat /\ n + 1 = reading
  BY <1>2
<1>4. /\ Left(f.length) = tail' - (head + f.length)
      /\ Left(f.length) = 0 => tail' = head + f.length
      /\ Left(f.length) \in Nat /\ tail' \in Nat
  BY <1>1, <1>2, CountsFit DEF FrameContentHandler
<1>5. EndOfContent(f) = head + f.length
  BY <1>2, <1>4 DEF EndOfContent
<1>6. /\ stream' = stream /\ reading' = reading + 1 /\ begin' = begin + Size(f)
      /\ tail' \in 0..(Word - 1)
  BY DEF FrameContentHandler, Arrives, Carried
<1>7. head + f.length <= tail' /\ head + f.length < Word
  BY <1>2, <1>4, <1>6, FramesAssumption
<1>8. reading' - 1 = n + 1 /\ n + 1 \in Nat
  BY <1>2, <1>6
<1> HIDE DEF n
\* Where the frame is.
<1>9. StartOf(n + 1) = begin
  BY <1>3, PlacedIs DEF MessagesInv
<1>10. Payload(n + 1) = <<head, head + f.length>>
  <2>1. StartOf(n + 1) + 2 + stream[n + 1].ext = head
    BY <1>1, <1>3, <1>9
  <2> QED  BY <1>3, <2>1 DEF Payload
<1>11. Placed(reading, begin)'
  <2>1. Placed(reading + 1, begin + Size(f))
    BY <1>2, PlacedNext DEF MessagesInv
  <2> QED  BY <1>6, <2>1, SameStream
<1>12. Before(n, begin)
  BY DEF MessagesInv, n
<1>13. Before(reading - 1, begin)'
  <2>1. begin' = head + f.length /\ begin <= begin'
    BY <1>1, <1>2, <1>6 DEF Size
  <2>2. ASSUME NEW i \in 1..(n + 1)
        PROVE Payload(i)[1] \in 0..begin' /\ Payload(i)[2] \in 0..begin'
    <3>1. CASE i = n + 1
      <4>1. Payload(i)[1] = head /\ Payload(i)[2] = head + f.length
        BY <1>10, <3>1
      <4> QED  BY <1>2, <2>1, <4>1
    <3>2. CASE i # n + 1
      <4>1. i \in 1..n
        BY <1>3, <3>2
      <4>2. Payload(i)[1] \in 0..begin /\ Payload(i)[2] \in 0..begin
        BY <1>12, <4>1 DEF Before
      <4> QED  BY <1>2, <2>1, <4>2
    <3> QED  BY <3>1, <3>2
  <2>3. Before(n + 1, begin')
    BY <2>2 DEF Before
  <2> QED  BY <1>6, <1>8, <2>3, SameStream
\* What it means.
<1>14. /\ Ordered(Finals(n)) /\ Ordered(Open(n)) /\ Ordered(Pings(n))
       /\ received = AllMeant(n) /\ fragmented = Meaning(Open(n)) /\ pongs = Payloads(Pings(n))
  BY DEF MessagesInv, Understood, n
<1>15. /\ Finals(n) \subseteq 1..n /\ Open(n) \subseteq 1..n /\ Pings(n) \subseteq 1..n
       /\ n + 1 \in Nat \ {0} /\ \A i \in 1..n : i < n + 1
  BY <1>3, FrameAdded
<1>16. fragmented.length \in 0..begin
       /\ Cardinality(Bytes(Open(n) \cup {n + 1})) = fragmented.length + f.length
  <2>1. begin <= head /\ f.length \in Nat /\ head \in Nat /\ begin \in Nat
    BY <1>1, <1>2
  <2> HIDE DEF f
  <2>2. /\ Cardinality(Bytes(Open(n))) \in 0..begin
        /\ Cardinality(Bytes(Open(n) \cup {n + 1})) = Cardinality(Bytes(Open(n))) + f.length
    BY <1>3, <1>10, <1>12, <1>15, <2>1, BytesAdded
  <2>3. fragmented.length = Cardinality(Bytes(Open(n)))
    BY <1>14 DEF Meaning
  <2> QED  BY <2>2, <2>3
<1>17. (f.length + fragmented.length) % Word = fragmented.length + f.length
       /\ (fragmented.length + f.length) % Word = fragmented.length + f.length
  <2> DEFINE l == f.length
             c == fragmented.length
  <2>1. l \in Nat /\ begin <= head /\ head \in Nat /\ head + l < Word /\ begin \in Nat
    BY <1>1, <1>2, <1>7
  <2>2. c \in 0..begin /\ Word \in Nat \ {0}
    BY <1>16, FramesAssumption
  <2> HIDE DEF l, c
  <2>3. l + c \in 0..(Word - 1) /\ c + l = l + c
    BY <2>1, <2>2
  <2>4. (l + c) % Word = l + c
    BY <2>2, <2>3
  <2> QED  BY <2>3, <2>4 DEF l, c
<1>18. Joined(fragmented, f) = Meaning(Open(n) \cup {n + 1})
  <2>1. Payloads(Open(n) \cup {n + 1}) = Append(Payloads(Open(n)), Payload(n + 1))
    BY <1>14, <1>15, PayloadAdded
  <2>2. fragmented.parts = Payloads(Open(n))
    BY <1>14 DEF Meaning
  <2> QED  BY <1>5, <1>10, <1>16, <1>17, <2>1, <2>2 DEF Joined, Meaning
<1>19. Joined(fragmented, f).length <= MaxMessageSize
  <2>1. (f.length + fragmented.length) % Word <= MaxMessageSize
    <3>1. ~TooBig(f)
      BY <1>1 DEF MessagesInv
    <3>2. (f.length + fragmented.length) % Word \in Nat /\ MaxMessageSize \in Nat
      BY <1>2, <1>16, <1>17, FramesAssumption
    <3> QED  BY <3>1, <3>2 DEF TooBig
  <2> QED  BY <1>17, <2>1 DEF Joined
<1>20. \A k \in DOMAIN received : received[k].length <= MaxMessageSize
  BY DEF MessagesInv
<1>21. f = stream[n + 1]
  BY <1>3
<1> HIDE DEF f
<1>22. /\ Ordered(Finals(n + 1)) /\ Ordered(Open(n + 1)) /\ Ordered(Pings(n + 1))
       /\ received' = AllMeant(n + 1) /\ fragmented' = Meaning(Open(n + 1))
       /\ pongs' = Payloads(Pings(n + 1))
       /\ \A k \in DOMAIN received' : received'[k].length <= MaxMessageSize
  <2>1. CASE ControlHandler(f)
    <3>1. Finals(n + 1) = Finals(n) /\ Open(n + 1) = Open(n)
      BY <1>3, <1>21, <2>1, FrameAdded DEF ControlHandler
    <3>2. AllMeant(n + 1) = AllMeant(n)
      BY <3>1 DEF AllMeant
    <3>3. received' = received /\ fragmented' = fragmented
      BY <2>1 DEF ControlHandler
    <3>4. CASE f.kind = "ping"
      <4>1. Pings(n + 1) = Pings(n) \cup {n + 1}
        BY <1>3, <1>21, <3>4, FrameAdded
      <4>2. Ordered(Pings(n + 1)) /\ Payloads(Pings(n + 1)) = Append(pongs, Payload(n + 1))
        BY <1>14, <1>15, <4>1, PayloadAdded
      <4>3. pongs' = Append(pongs, Payload(n + 1))
        BY <1>5, <1>10, <2>1, <3>4 DEF ControlHandler
      <4> QED  BY <1>14, <1>20, <3>1, <3>2, <3>3, <4>2, <4>3
    <3>5. CASE f.kind # "ping"
      <4>1. Pings(n + 1) = Pings(n)
        BY <1>3, <1>21, <3>5, FrameAdded
      <4>2. pongs' = pongs
        BY <2>1, <3>5 DEF ControlHandler
      <4> QED  BY <1>14, <1>20, <3>1, <3>2, <3>3, <4>1, <4>2
    <3> QED  BY <3>4, <3>5
  <2>2. CASE CloseHandler(f)
    <3>1. f.kind = "close" /\ received' = received /\ fragmented' = fragmented /\ pongs' = pongs
      BY <2>2 DEF CloseHandler
    <3>2. Finals(n + 1) = Finals(n) /\ Open(n + 1) = Open(n) /\ Pings(n + 1) = Pings(n)
      BY <1>3, <1>21, <3>1, FrameAdded
    <3>3. AllMeant(n + 1) = AllMeant(n)
      BY <3>2 DEF AllMeant
    <3> QED  BY <1>14, <1>20, <3>1, <3>2, <3>3
  <2>3. CASE FragmentHandler(f)
    <3>1. f.kind = "data" /\ ~f.fin /\ received' = received /\ pongs' = pongs
          /\ fragmented' = Joined(fragmented, f)
      BY <2>3 DEF FragmentHandler
    <3>2. Finals(n + 1) = Finals(n) /\ Open(n + 1) = Open(n) \cup {n + 1} /\ Pings(n + 1) = Pings(n)
      BY <1>3, <1>21, <3>1, FrameAdded
    <3>3. AllMeant(n + 1) = AllMeant(n)
      BY <3>2 DEF AllMeant
    <3>4. Ordered(Open(n + 1))
      BY <1>14, <1>15, <3>2, PayloadAdded
    <3> QED  BY <1>14, <1>18, <1>20, <3>1, <3>2, <3>3, <3>4
  <2>4. CASE MessageHandler(f)
    <3>1. f.kind = "data" /\ f.fin /\ received' = Append(received, Joined(fragmented, f))
          /\ fragmented' = NoMessage /\ pongs' = pongs
      BY <2>4 DEF MessageHandler
    <3>2. /\ Finals(n + 1) = Finals(n) \cup {n + 1} /\ Open(n + 1) = {} /\ Pings(n + 1) = Pings(n)
          /\ PartsOf(n + 1) = Open(n) \cup {n + 1}
      BY <1>3, <1>21, <3>1, FrameAdded
    <3>3. AllMeant(n + 1) = Append(AllMeant(n), Meaning(PartsOf(n + 1)))
      BY <1>3, <1>14, <1>15, <3>2, MeaningAdded
    <3>4. Ordered(Finals(n + 1))
      BY <1>14, <1>15, <3>2, PayloadAdded
    <3>5. Ordered(Open(n + 1)) /\ fragmented' = Meaning(Open(n + 1))
      BY <3>1, <3>2, NothingMeant
    <3>6. received' = AllMeant(n + 1)
      BY <1>14, <1>18, <3>1, <3>2, <3>3
    <3>7. \A k \in DOMAIN received' : received'[k].length <= MaxMessageSize
      <4> DEFINE j == Joined(fragmented, f)
      <4>1. received \in Seq(Message)
        BY DEF FramesInv, FramesTypeOK
      <4> HIDE DEF j
      <4>2. \A k \in DOMAIN Append(received, j) :
              Append(received, j)[k] = j \/ (k \in DOMAIN received /\ Append(received, j)[k] = received[k])
        BY <4>1
      <4>3. received' = Append(received, j) /\ j.length <= MaxMessageSize
        BY <1>19, <3>1 DEF j
      <4> QED  BY <1>20, <4>2, <4>3
    <3> QED  BY <1>14, <3>1, <3>2, <3>4, <3>5, <3>6, <3>7
  <2> QED  BY <2>1, <2>2, <2>3, <2>4 DEF FrameContentHandler, f
<1>23. Understood(reading - 1)'
  BY <1>6, <1>8, <1>22, SameStream DEF Understood, Ordered
<1>24. step' # "content"
  BY DEF FrameContentHandler, ControlHandler, CloseHandler, FragmentHandler, MessageHandler
<1> QED  BY <1>6, <1>11, <1>13, <1>22, <1>23, <1>24 DEF MessagesInv

LEMMA MessagesNextInv == FramesInv /\ MessagesInv /\ [FramesNext]_framesVars => MessagesInv'
<1> SUFFICES ASSUME FramesInv, MessagesInv, [FramesNext]_framesVars PROVE MessagesInv'
  OBVIOUS
<1>1. CASE FrameHeaderHandler
  BY <1>1, HeaderUnderstood
<1>2. CASE FrameLengthHandler
  BY <1>2, LengthUnderstood
<1>3. CASE FrameContentHandler
  BY <1>3, ContentUnderstood
<1>4. CASE ReadFails
  <2>1. UNCHANGED <<stream, reading, begin, fragmented, received, pongs>> /\ tail' = tail /\ step' = "failed"
    BY <1>4 DEF ReadFails
  <2> QED  BY <2>1, OnlyBytes DEF MessagesInv
<1>5. CASE UNCHANGED framesVars
  <2>1. UNCHANGED <<stream, step, reading, begin, tail, fragmented, received, pongs>>
    BY <1>5 DEF framesVars
  <2> QED  BY <2>1, OnlyBytes DEF MessagesInv
<1> QED  BY <1>1, <1>2, <1>3, <1>4, <1>5 DEF FramesNext

\* Whatever frames a server sends and however much of them the handshake read: on_message has
\* had, of the frames read, exactly the messages, with their contents, none of them larger
\* than max_message_size, and each ping its pong.
THEOREM MessagesArrive == FramesSpec => []MessagesAsSent
<1>1. MessagesInv => MessagesAsSent
  BY DEF MessagesInv, Understood, AllMeant, MessagesAsSent
<1> QED
  BY <1>1, FramesInitInv, FramesNextInv, MessagesInitInv, MessagesNextInv, PTL DEF FramesSpec

=============================================================================
