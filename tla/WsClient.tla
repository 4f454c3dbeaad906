------------------------------- MODULE WsClient -------------------------------
(***************************************************************************)
(* The connections of SimpleWeb::SocketClientBase (bhttp/client_ws.hpp)    *)
(* and of SocketClient<WS> and SocketClient<WSS>: how start() makes one,   *)
(* how it is connected (for WSS through a proxy and TLS) and upgraded, how *)
(* messages are read and frames are sent, how the close handshake, the     *)
(* user, the timers and stop() end it, and what the user is told of it.    *)
(*                                                                         *)
(* As in WsServer a connection has one chain of reads (`phase`, `op`), one *)
(* chain of writes for its send queue (`writer`, `queued`) and one timer   *)
(* that both of them set; a handler is one step up to its return, except   *)
(* that on_open and on_message are on the stack for a while and that       *)
(* send_close() tests close_sent in one step and sets it in the next.      *)
(* WsFrames has the bytes that the chain of reads counts.                  *)
(*                                                                         *)
(* What differs from the server: an idle timer sends a close frame and     *)
(* waits for its answer under the same timer; the handlers of a timer take *)
(* no continue_lock(), so they run after the client is gone; the           *)
(* destructor does wait for handlers; and a second start() puts another    *)
(* connection in the place of the first, which goes on.                    *)
(*                                                                         *)
(* Connections meet only in the member `connection`, so a slot is enough   *)
(* for all that one of them can do; Other stands for any other one.        *)
(***************************************************************************)
EXTENDS Integers, FiniteSets

CONSTANTS Conns,      \* slots for Connection objects
          NoConn,     \* `connection` is null
          Other,      \* a Connection of another start(), which is not followed
          MaxQueued,  \* bound: frames in a send queue, close frames apart
          Configs     \* the settings that are checked

ASSUME ConfigAssumption ==
  /\ NoConn \notin Conns /\ Other \notin Conns /\ NoConn # Other
  /\ MaxQueued \in Nat \ {0}
  /\ Configs \subseteq
       [tls : BOOLEAN,        \* SocketClient<WSS>
        proxy : BOOLEAN,      \* config.proxy_server is not empty
        internal : BOOLEAN,   \* the client made its own io_service
        request : BOOLEAN,    \* config.timeout_request # 0
        idle : BOOLEAN]       \* config.timeout_idle # 0

VARIABLES conn,        \* the Connection of each slot
          connection,  \* the member of that name
          ioRunning,   \* a thread is in io_service->run()
          destroyed,   \* ~SocketClientBase() has returned
          config

vars == <<conn, connection, ioRunning, destroyed, config>>

ConnectPhases == {"resolve", "connect"}
SetupPhases == {"proxyWrite", "proxyRead", "tls", "writeUpgrade", "readUpgrade"}
ReadPhases == {"head", "length", "content"}
NetPhases == ConnectPhases \cup SetupPhases \cup ReadPhases
UserPhases == {"opening", "message"}
RunningPhases == UserPhases \cup {"reply"}

\* A Connection as its constructor leaves it.
Blank == [phase |-> "free",    \* what its chain of reads is doing
          op |-> "none",       \* the chain's operation
          told |-> "nothing",  \* which of on_open, on_close, on_error were called
          refused |-> FALSE,   \* history: continue_lock() ended its chain of reads
          writer |-> "none",   \* the front of send_queue; "dead" when continue_lock() refused
          queued |-> 0,        \* send_queue.size()
          closes |-> 0,        \* close frames sent; close_sent is closes > 0
          closers |-> {},      \* who has found close_sent false in send_close()
          held |-> FALSE,      \* the user has a copy of the shared_ptr
          timer |-> "off",     \* "due" is expired with its handler queued
          kind |-> "request",  \* which of set_timeout's two timers it is
          stale |-> {},        \* handlers of replaced timers that are queued
          down |-> FALSE,      \* the socket has been shut down by close()
          stopped |-> FALSE]   \* history: stop() shut it down

Connection ==
  [phase : NetPhases \cup RunningPhases \cup {"free", "ended"},
   op : {"none", "posted", "pending", "ok", "failed"},
   told : {"nothing", "open", "closed", "error", "errorClosed", "twice"},
   refused : BOOLEAN,
   writer : {"none", "posted", "pending", "ok", "failed", "dead"},
   queued : 0..(MaxQueued + 3), closes : 0..3, closers : SUBSET {"user", "timer"},
   held : BOOLEAN, timer : {"off", "armed", "due"}, kind : {"request", "idle"},
   stale : SUBSET {"request", "idle"}, down : BOOLEAN, stopped : BOOLEAN]

Init ==
  /\ conn = [c \in Conns |-> Blank]
  /\ connection = NoConn
  /\ config \in Configs
  /\ ioRunning = ~config.internal
  /\ destroyed = FALSE

-----------------------------------------------------------------------------
(* Helpers: what a call does to the record of a connection. *)

Enabled(kind) == IF kind = "idle" THEN config.idle ELSE config.request

\* The old timer goes; its handler stays queued when it has expired.
DropTimer(r) ==
  [r EXCEPT !.stale = IF r.timer = "due" THEN @ \cup {r.kind} ELSE @, !.timer = "off"]

\* set_timeout(); cancel_timeout() is DropTimer.
SetTimer(r, kind) ==
  IF Enabled(kind) THEN [DropTimer(r) EXCEPT !.timer = "armed", !.kind = kind]
                   ELSE DropTimer(r)

\* The socket is open from the time async_connect() is done: before, close()
\* fails, or makes async_connect() go on with its next endpoint.
HasSocket(r) == r.phase # "resolve" /\ ~(r.phase = "connect" /\ r.op = "pending")

\* Connection::close(): shutdown_both, and what is pending is cancelled.
Close(r) ==
  IF HasSocket(r)
    THEN [r EXCEPT !.down = TRUE,
                   !.op = IF @ = "pending" THEN "failed" ELSE @,
                   !.writer = IF @ = "pending" THEN "failed" ELSE @]
    ELSE r

\* The chain of reads ends.
End(r) == [r EXCEPT !.phase = "ended", !.op = "none"]

Refused(r) == [End(r) EXCEPT !.refused = TRUE]

\* send(): emplace_back, and send_from_queue() when the queue was empty.
Enqueue(r) ==
  LET q == [r EXCEPT !.queued = @ + 1]
  IN  IF r.queued = 0 THEN [SetTimer(q, "idle") EXCEPT !.writer = "posted"] ELSE q

\* The rest of send_close(), once close_sent was found false.
EnqueueClose(r) == Enqueue([r EXCEPT !.closes = @ + 1])

\* connection_error() and connection_close(): what the user has been told then.
TellError(r) ==
  [r EXCEPT !.told = IF @ \in {"nothing", "open"} THEN "error" ELSE "twice"]

TellClose(r) ==
  [r EXCEPT !.told = CASE @ = "open" -> "closed"
                       [] @ = "error" -> "errorClosed"
                       [] OTHER -> "twice"]

\* The next asynchronous operation of the chain, under a timer.
Start(r, phase, kind) == [SetTimer(r, kind) EXCEPT !.phase = phase, !.op = "pending"]

\* read_message() posts its first read to the strand.
ReadMessageUntimed(r) ==     \* mutant: read_message() sets no timer
  [r EXCEPT !.phase = "head", !.op = "posted"]

ReadMessage(r) == [Start(r, "head", "idle") EXCEPT !.op = "posted"]

\* send_close() in a handler, up to its test of close_sent, with the call of
\* connection_close() that follows it.
Reply(r) ==
  IF r.closes > 0 THEN TellClose(End(r)) ELSE [r EXCEPT !.phase = "reply", !.op = "none"]

\* read_message_content(): a message that exceeds max_message_size is an error
\* and a close with 1009; else its content is read.
ReadContents(r) == {Reply(TellError(r)), Start(r, "content", "idle")}

\* upgrade(), and the TLS handshake or the CONNECT to a proxy before it.
Upgrade(r) == Start(r, "writeUpgrade", "request")
Handshake(r) == Start(r, "tls", "request")
Connected(r) ==
  IF ~config.tls THEN Upgrade(r)
  ELSE IF config.proxy THEN Start(r, "proxyWrite", "request") ELSE Handshake(r)

\* connection_open() calls on_open.
Opened(r) == [r EXCEPT !.phase = "opening", !.op = "none", !.told = "open"]

Runs == ioRunning

Becomes(c, r) ==
  /\ conn' = [conn EXCEPT ![c] = r]
  /\ UNCHANGED <<connection, ioRunning, destroyed, config>>

\* A handler of c's chain: cancel_timeout() comes first, then continue_lock();
\* `outcomes` are what it may leave when the operation succeeded.
Handler(c, phase, outcomes) ==
  /\ Runs /\ conn[c].phase = phase /\ conn[c].op \in {"ok", "failed"}
  /\ LET r == DropTimer(conn[c])
     IN  CASE destroyed -> Becomes(c, Refused(r))
           [] ~destroyed /\ r.op = "failed" -> Becomes(c, TellError(End(r)))
           [] OTHER -> \E s \in outcomes : Becomes(c, s)

-----------------------------------------------------------------------------
(* start(), stop() and the destructor *)

\* A new Connection takes the place of the last, and its address is resolved.
\* Handlers that a stopped io_service still holds run again after restart().
StartClient ==
  /\ ~destroyed
  /\ ioRunning' = TRUE
  /\ \E c \in Conns \cup {Other} :
       /\ connection' = c
       /\ \/ c = Other /\ UNCHANGED conn
          \/ /\ c \in Conns /\ conn[c].phase = "free"
             /\ conn' = [conn EXCEPT ![c] = Start(Blank, "resolve", "request")]
  /\ UNCHANGED <<destroyed, config>>

Stopped(r) == [Close(r) EXCEPT !.stopped = HasSocket(r)]

\* stop(): under connection_mutex `connection`, and no other one, is closed.
CloseCurrent ==
  /\ conn' = IF connection \in Conns THEN [conn EXCEPT ![connection] = Stopped(@)] ELSE conn
  /\ ioRunning' = (ioRunning /\ ~config.internal)

Stop == ~destroyed /\ CloseCurrent /\ UNCHANGED <<connection, destroyed, config>>

\* run() returns to start() when nothing is left to do.
Idle(r) ==
  /\ r.op = "none" /\ r.phase \notin RunningPhases /\ "timer" \notin r.closers
  /\ r.writer \in {"none", "dead"} /\ r.timer = "off" /\ r.stale = {}

RunReturns ==
  /\ config.internal /\ ioRunning
  /\ \A c \in Conns : Idle(conn[c])
  /\ ioRunning' = FALSE
  /\ UNCHANGED <<conn, connection, destroyed, config>>

\* ~SocketClientBase(): handler_runner->stop() waits until no handler has the
\* lock, and stop() follows.  start() must have returned by then when the
\* io_service is the client's own.
Destroy ==
  /\ ~destroyed /\ (config.internal => ~ioRunning)
  /\ \A c \in Conns : conn[c].phase \notin RunningPhases
  /\ CloseCurrent
  /\ connection' = NoConn
  /\ destroyed' = TRUE
  /\ UNCHANGED config

-----------------------------------------------------------------------------
(* Connecting *)

ResolveHandler(c) ==
  LET r == DropTimer(conn[c]) IN Handler(c, "resolve", {Start(r, "connect", "request")})

ConnectHandler(c) ==
  LET r == DropTimer(conn[c]) IN Handler(c, "connect", {Connected(r)})

ProxyWriteHandler(c) ==
  LET r == DropTimer(conn[c]) IN Handler(c, "proxyWrite", {Start(r, "proxyRead", "request")})

\* The proxy's answer is malformed, or not a 200; or it is.
ProxyReadHandler(c) ==
  LET r == DropTimer(conn[c]) IN Handler(c, "proxyRead", {TellError(End(r)), Handshake(r)})

TlsHandler(c) ==
  LET r == DropTimer(conn[c]) IN Handler(c, "tls", {Upgrade(r)})

WriteUpgradeHandler(c) ==
  LET r == DropTimer(conn[c]) IN Handler(c, "writeUpgrade", {Start(r, "readUpgrade", "request")})

\* The answer is malformed, not a 101, or has the wrong key; or the connection is open.
ReadUpgradeSilent(c) ==     \* mutant: an answer that is not a 101 is not told
  LET r == DropTimer(conn[c]) IN Handler(c, "readUpgrade", {End(r), Opened(r)})

ReadUpgradeHandler(c) ==
  LET r == DropTimer(conn[c]) IN Handler(c, "readUpgrade", {TellError(End(r)), Opened(r)})

OpenReturns(c) == conn[c].phase = "opening" /\ Becomes(c, ReadMessage(conn[c]))

-----------------------------------------------------------------------------
(* Reading messages *)

RunRead(c) ==
  /\ Runs /\ conn[c].phase = "head" /\ conn[c].op = "posted"
  /\ Becomes(c, IF destroyed THEN Refused(conn[c]) ELSE [conn[c] EXCEPT !.op = "pending"])

\* The server's bytes, or their end, complete an operation; after a shutdown a
\* read may still find bytes that had arrived before it.
NetSucceeds(c) ==
  /\ Runs /\ conn[c].op = "pending"
  /\ conn[c].down => conn[c].phase \in ReadPhases \cup {"proxyRead", "tls", "readUpgrade"}
  /\ Becomes(c, [conn[c] EXCEPT !.op = "ok"])

NetFails(c) ==
  /\ Runs /\ conn[c].op = "pending"
  /\ Becomes(c, [conn[c] EXCEPT !.op = "failed"])

\* The first two bytes: none (a spurious success); masked, which is a protocol
\* error; or the length is in the bytes after them, or in them.
HeadHandler(c) ==
  LET r == DropTimer(conn[c])
  IN  Handler(c, "head", {ReadMessage(r), Reply(r), Start(r, "length", "idle")} \cup ReadContents(r))

LengthHandler(c) ==
  LET r == DropTimer(conn[c]) IN Handler(c, "length", ReadContents(r))

\* A close frame; a ping, answered with a pong; a pong, or a fragment that is
\* not the last; or a message, for which on_message is called.
ContentHandler(c) ==
  LET r == DropTimer(conn[c])
      pong == IF r.queued < MaxQueued THEN {ReadMessage(Enqueue(r))} ELSE {}
      message == [r EXCEPT !.phase = "message", !.op = "none"]
  IN  Handler(c, "content", {Reply(r), ReadMessage(r), message} \cup pong)

MessageReturns(c) == conn[c].phase = "message" /\ Becomes(c, ReadMessage(conn[c]))

\* The rest of send_close() in a handler, and connection_close().
ReplySends(c) == conn[c].phase = "reply" /\ Becomes(c, TellClose(End(EnqueueClose(conn[c]))))

-----------------------------------------------------------------------------
(* The user's threads, and the chain of writes.  A Connection needs no client: *)
(* a copy the user kept is used after the destructor too.                      *)

Grab(c) ==
  /\ conn[c].phase \in UserPhases /\ ~conn[c].held
  /\ Becomes(c, [conn[c] EXCEPT !.held = TRUE])

Send(c) ==
  /\ conn[c].held /\ conn[c].queued < MaxQueued
  /\ Becomes(c, Enqueue(conn[c]))

\* send_close() tests close_sent in one step and sets it in the next.
UserTestsClose(c) ==
  /\ conn[c].held /\ "user" \notin conn[c].closers /\ conn[c].closes = 0
  /\ Becomes(c, [conn[c] EXCEPT !.closers = @ \cup {"user"}])

UserSendsClose(c) ==
  /\ "user" \in conn[c].closers
  /\ Becomes(c, EnqueueClose([conn[c] EXCEPT !.closers = @ \ {"user"}]))

UserCloses(c) == conn[c].held /\ Becomes(c, Close(conn[c]))

UserReleases(c) ==
  /\ conn[c].held /\ "user" \notin conn[c].closers
  /\ Becomes(c, [conn[c] EXCEPT !.held = FALSE])

RunSend(c) ==
  /\ Runs /\ conn[c].writer = "posted"
  /\ Becomes(c, [conn[c] EXCEPT !.writer = IF destroyed THEN "dead" ELSE "pending"])

SendCompletes(c) ==
  /\ Runs /\ conn[c].writer = "pending"
  /\ \E result \in {"ok", "failed"} :
       /\ conn[c].down => result = "failed"
       /\ Becomes(c, [conn[c] EXCEPT !.writer = result])

\* set_timeout() comes first; then the next frame, or with an error none.
SendHandlerKeepsQueue(c) ==     \* mutant: an error does not clear send_queue
  /\ Runs /\ conn[c].writer \in {"ok", "failed"}
  /\ LET r == SetTimer(conn[c], "idle")
     IN  Becomes(c, IF r.writer = "failed" THEN [r EXCEPT !.writer = "none"]
                    ELSE IF r.queued = 1 THEN [r EXCEPT !.writer = "none", !.queued = 0]
                    ELSE [SetTimer(r, "idle") EXCEPT !.writer = "posted", !.queued = @ - 1])

SendHandlerRetries(c) ==     \* mutant: a failed write is tried again
  /\ Runs /\ conn[c].writer \in {"ok", "failed"}
  /\ LET r == SetTimer(conn[c], "idle")
         left == IF r.writer = "ok" THEN r.queued - 1 ELSE r.queued
     IN  Becomes(c, IF destroyed THEN [r EXCEPT !.writer = "dead"]
                    ELSE IF left = 0 THEN [r EXCEPT !.writer = "none", !.queued = 0]
                    ELSE [SetTimer(r, "idle") EXCEPT !.writer = "posted", !.queued = left])

SendHandler(c) ==
  /\ Runs /\ conn[c].writer \in {"ok", "failed"}
  /\ LET r == SetTimer(conn[c], "idle")
         left == IF r.writer = "ok" THEN r.queued - 1 ELSE 0
     IN  Becomes(c, IF destroyed THEN [r EXCEPT !.writer = "dead"]
                    ELSE IF left = 0 THEN [r EXCEPT !.writer = "none", !.queued = 0]
                    ELSE [SetTimer(r, "idle") EXCEPT !.writer = "posted", !.queued = left])

-----------------------------------------------------------------------------
(* Timers *)

TimerExpires(c) ==
  /\ Runs /\ conn[c].timer = "armed"
  /\ Becomes(c, [conn[c] EXCEPT !.timer = "due"])

\* The handler of a timer that has expired: of the request, close(); of the idle
\* one, send_close(), or close() when a close frame was sent before.
Fired(r, kind) ==
  IF kind = "request" \/ r.closes > 0 THEN Close(r)
  ELSE [r EXCEPT !.closers = @ \cup {"timer"}]

TimerHandler(c) ==
  /\ Runs /\ conn[c].timer = "due" /\ "timer" \notin conn[c].closers
  /\ Becomes(c, Fired([conn[c] EXCEPT !.timer = "off"], conn[c].kind))

StaleTimerHandler(c) ==
  /\ Runs /\ "timer" \notin conn[c].closers
  /\ \E kind \in conn[c].stale : Becomes(c, Fired([conn[c] EXCEPT !.stale = @ \ {kind}], kind))

TimerSendsClose(c) ==
  /\ "timer" \in conn[c].closers
  /\ Becomes(c, EnqueueClose([conn[c] EXCEPT !.closers = @ \ {"timer"}]))

\* The last shared_ptr goes; the timer with it.
Delete(c) ==
  /\ conn[c].phase = "ended" /\ conn[c].writer \in {"none", "dead"} /\ conn[c].closers = {}
  /\ ~conn[c].held /\ connection # c
  /\ Becomes(c, Blank)

-----------------------------------------------------------------------------
SetupHandlers(c) ==
  \/ ResolveHandler(c) \/ ConnectHandler(c) \/ ProxyWriteHandler(c) \/ ProxyReadHandler(c)
  \/ TlsHandler(c) \/ WriteUpgradeHandler(c) \/ ReadUpgradeHandler(c)

MessageHandlers(c) ==
  RunRead(c) \/ HeadHandler(c) \/ LengthHandler(c) \/ ContentHandler(c) \/ ReplySends(c)

UserSteps(c) ==
  \/ Grab(c) \/ Send(c) \/ UserTestsClose(c) \/ UserSendsClose(c) \/ UserCloses(c)
  \/ UserReleases(c) \/ OpenReturns(c) \/ MessageReturns(c)

WriterSteps(c) == RunSend(c) \/ SendHandler(c)
TimerHandlers(c) == TimerHandler(c) \/ StaleTimerHandler(c) \/ TimerSendsClose(c)

ConnStep(c) ==
  \/ SetupHandlers(c) \/ MessageHandlers(c) \/ UserSteps(c) \/ WriterSteps(c)
  \/ NetSucceeds(c) \/ NetFails(c) \/ SendCompletes(c)
  \/ TimerExpires(c) \/ TimerHandlers(c) \/ Delete(c)

Next ==
  \/ \E c \in Conns : ConnStep(c)
  \/ StartClient \/ Stop \/ RunReturns \/ Destroy

Spec == Init /\ [][Next]_vars

\* As in WsServer: what is queued runs, a shutdown fails what is pending, and a
\* timer expires when nothing replaces it.  The server may stay silent or not
\* read for ever, a user's function may never return, and nobody need call anything.
Fairness ==
  \A c \in Conns :
    /\ WF_vars(SetupHandlers(c) \/ MessageHandlers(c))
    /\ WF_vars(WriterSteps(c) \/ (conn[c].down /\ SendCompletes(c)))
    /\ WF_vars(conn[c].writer \in {"none", "pending", "dead"} /\ TimerExpires(c))
    /\ WF_vars(TimerHandler(c)) /\ WF_vars(StaleTimerHandler(c)) /\ WF_vars(TimerSendsClose(c))
    /\ SF_vars(conn[c].down /\ NetFails(c))
    /\ WF_vars(Delete(c))

FairSpec == Spec /\ Fairness

-----------------------------------------------------------------------------
(* Properties *)

\* Types, and the shape of a connection: an operation exactly in the phases that
\* have one, and a writer exactly when something is in the send queue.
TypeOK ==
  /\ conn \in [Conns -> Connection]
  /\ connection \in Conns \cup {NoConn, Other}
  /\ ioRunning \in BOOLEAN /\ destroyed \in BOOLEAN /\ config \in Configs
  /\ \A c \in Conns :
       /\ (conn[c].op # "none") <=> (conn[c].phase \in NetPhases)
       /\ (conn[c].writer # "none") <=> (conn[c].queued > 0)
       /\ connection = c => conn[c].phase # "free"

\* The user is told of the end of every attempt to connect and of every
\* connection, and once: on_error or on_close (both, for a message that is too
\* big), by whatever it ended; and of nothing once the destructor has returned,
\* after which continue_lock() is refused.
ToldOnce ==
  \A c \in Conns :
    /\ conn[c].told # "twice"
    /\ conn[c].phase = "ended" /\ conn[c].told \in {"nothing", "open"} => conn[c].refused
    /\ conn[c].refused => destroyed
    /\ destroyed => conn[c].phase \notin RunningPhases

\* The timeout that is configured for a phase.
Timed(phase) == IF phase \in ReadPhases THEN config.idle ELSE config.request

\* A write that waits for a server that does not read, or that continue_lock() refused.
Stuck(c) == conn[c].writer \in {"pending", "dead"}

\* A server that falls silent is given up: while the connection is set up, and
\* between or within messages by the idle timer, which sends a close frame and
\* then, when nothing answers it, closes.  This holds although reads and writes
\* set and cancel one timer and the close frame itself sets it again.  Not when
\* frames are sent for ever, nor when the close frame of the timer comes behind a
\* write that hangs, see StuckIsDropped, or one that the destructor has cut off.
SilentServerDropped ==
  \A c \in Conns :
    \/ conn[c].phase \in SetupPhases \cup ReadPhases /\ Timed(conn[c].phase) /\ conn[c].op = "pending"
         ~> conn[c].op # "pending" \/ ~Runs
    \/ []<>(conn[c].writer = "posted")
    \/ <>[]Stuck(c)

\* stop() and the destructor end the connection they close, with its queued
\* frames, unless on_open or on_message does not return or the io_service
\* stands still; and it is deleted once neither the client nor the user has it.
StopEndsConnection ==
  \A c \in Conns :
    \/ conn[c].stopped ~>
         \/ conn[c].phase \in {"free", "ended"} /\ (conn[c].phase = "free" \/ conn[c].held \/ connection = c)
         \/ ~Runs
    \/ <>[](conn[c].phase \in UserPhases)
    \/ <>[]("user" \in conn[c].closers)

-----------------------------------------------------------------------------
(* What comments of the source say and the code does not do. *)

\* "Send close only once (in case close is initiated by client)"
\* (client_ws.hpp:252): close_sent is tested and set in two steps.
CloseSentOnce == \A c \in Conns : conn[c].closes <= 1

\* "Idle timeout" (client_ws.hpp:289): the handler of the idle timer puts its close
\* frame behind a write that hangs, and sets no timer then; it is the last one.
StuckIsDropped ==
  \A c \in Conns :
    \/ config.idle /\ Stuck(c) ~> ~Stuck(c) \/ ~Runs
    \/ <>[](conn[c].phase \in UserPhases)

\* "Stop client, and close current connection" (client_ws.hpp:337): one that is in
\* the resolver or in async_connect() is not closed, and opens after stop(); so does
\* one that an earlier start() made.
StopClosesCurrent ==
  [][Stop /\ connection \in Conns => conn'[connection].stopped]_vars

=============================================================================
