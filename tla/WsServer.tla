------------------------------- MODULE WsServer -------------------------------
(***************************************************************************)
(* The connections of SimpleWeb::SocketServerBase (bhttp/server_ws.hpp)    *)
(* and of SocketServer<WS> and SocketServer<WSS>: how they are accepted or *)
(* taken over from an HTTP server, how the handshake and the messages are  *)
(* read, how they are closed by the peer, the user, a timer or stop(), and *)
(* what the user is told of it.                                            *)
(*                                                                         *)
(* A connection has one chain of reads (`phase`, `op`), one chain of       *)
(* writes for its send queue (`writer`, `queued`: SendQueue shows that it  *)
(* is one) and one timer that both of them set.  Any thread runs any       *)
(* handler and any thread of the user may send, so all of it interleaves.  *)
(* A handler is one step up to its return, except that on_open and         *)
(* on_message are on the stack for a while, and that send_close() tests    *)
(* close_sent in one step and sets it in the next.                         *)
(*                                                                         *)
(* The destructor calls neither handler_runner->stop() nor stop(): no lock *)
(* is ever refused, and what handlers do after Destroy is undefined: the   *)
(* model ends there.                                                       *)
(*                                                                         *)
(* There is one endpoint.  A slot of Conns holds a Connection object from  *)
(* its first handler on, and is used again when it has been deleted.       *)
(***************************************************************************)
EXTENDS Integers, FiniteSets

CONSTANTS Conns,           \* slots for Connection objects
          MaxQueued,       \* bound: frames in a send queue, close frames apart
          Tls,             \* SocketServer<WSS>
          InternalIo,      \* the server made its own io_service
          TimeoutRequest,  \* config.timeout_request # 0
          TimeoutIdle      \* config.timeout_idle # 0

ASSUME ConfigAssumption ==
  /\ {Tls, InternalIo, TimeoutRequest, TimeoutIdle} \subseteq BOOLEAN
  /\ MaxQueued \in Nat \ {0}

VARIABLES conn,       \* the Connection of each slot
          listed,     \* endpoint.connections
          acceptor,   \* "none" before start(), then "open" or "closed"
          accepting,  \* the async_accept of the accept loop
          stopAt,     \* "idle", or between the two halves of stop()
          ioRunning,  \* threads are in io_service->run()
          destroyed   \* ~SocketServerBase() has been called

vars == <<conn, listed, acceptor, accepting, stopAt, ioRunning, destroyed>>

HandshakePhases == {"tls", "readHandshake", "writeHandshake"}
ReadPhases == {"head", "length", "content"}
NetPhases == HandshakePhases \cup ReadPhases
RunningPhases == {"opening", "message", "reply"}
OpenPhases == ReadPhases \cup RunningPhases

\* A Connection as its constructor leaves it.
Blank == [phase |-> "free",        \* what its chain of reads is doing
          op |-> "none",           \* the chain's operation
          switching |-> FALSE,     \* the handshake it writes is a 101
          told |-> "nothing",      \* which of on_open, on_close, on_error were called
          writer |-> "none",       \* the front of send_queue: posted, pending, done
          queued |-> 0,            \* send_queue.size()
          closes |-> 0,            \* close frames sent; close_sent is closes > 0
          closing |-> FALSE,       \* a user's send_close() has found close_sent false
          held |-> FALSE,          \* the user has a copy of the shared_ptr
          timer |-> "off",         \* "due" is expired with its handler queued
          stale |-> FALSE,         \* the handler of a replaced timer is queued
          down |-> FALSE,          \* the socket has been shut down by close()
          unlisted |-> FALSE]      \* history: a stop() took it out of `listed`

Connection ==
  [phase : NetPhases \cup RunningPhases \cup {"free", "ended"},
   op : {"none", "posted", "pending", "ok", "failed"},
   switching : BOOLEAN,
   told : {"nothing", "open", "closed", "error", "errorClosed", "twice"},
   writer : {"none", "posted", "pending", "ok", "failed"},
   queued : 0..(MaxQueued + 2), closes : 0..2, closing : BOOLEAN, held : BOOLEAN,
   timer : {"off", "armed", "due"}, stale : BOOLEAN, down : BOOLEAN, unlisted : BOOLEAN]

Init ==
  /\ conn = [c \in Conns |-> Blank]
  /\ listed = {}
  /\ acceptor = "none"
  /\ accepting = "none"
  /\ stopAt = "idle"
  /\ ioRunning = TRUE
  /\ destroyed = FALSE

-----------------------------------------------------------------------------
(* Helpers: what a call does to the record of a connection. *)

\* set_timeout(): a handler of the old timer already queued stays queued.
SetTimer(r, enabled) ==
  [r EXCEPT !.stale = @ \/ r.timer = "due", !.timer = IF enabled THEN "armed" ELSE "off"]

CancelTimer(r) == SetTimer(r, FALSE)

\* Connection::close(): shutdown_both, and what is pending is cancelled.
Close(r) ==
  [r EXCEPT !.down = TRUE,
            !.op = IF @ = "pending" THEN "failed" ELSE @,
            !.writer = IF @ = "pending" THEN "failed" ELSE @]

\* The chain of reads ends.
End(r) == [r EXCEPT !.phase = "ended", !.op = "none"]

\* send(): emplace_back, and send_from_queue() when the queue was empty.
Enqueue(r) ==
  LET q == [r EXCEPT !.queued = @ + 1]
  IN  IF r.queued = 0 THEN [SetTimer(q, TimeoutIdle) EXCEPT !.writer = "posted"] ELSE q

\* connection_error() and connection_close(): what the user has been told then.
TellError(r) ==
  [r EXCEPT !.told = IF @ \in {"nothing", "open"} THEN "error" ELSE "twice"]

TellClose(r) ==
  [r EXCEPT !.told = CASE @ = "open" -> "closed"
                       [] @ = "error" -> "errorClosed"
                       [] OTHER -> "twice"]

\* The next asynchronous operation of the chain, under a timer.
Start(r, phase, timed) == [SetTimer(r, timed) EXCEPT !.phase = phase, !.op = "pending"]

\* read_message() posts its first read to the strand.
ReadMessageUntimed(r) ==   \* mutant: read_message() sets no timer
  [r EXCEPT !.phase = "head", !.op = "posted"]

ReadMessage(r) == [Start(r, "head", TimeoutIdle) EXCEPT !.op = "posted"]

\* What can become of a handshake: no endpoint matches its path; 101; or another
\* status, when the key is missing or on_handshake says so.
WriteHandshakes(r) ==
  {End(r)} \cup {[Start(r, "writeHandshake", TimeoutRequest) EXCEPT !.switching = s] : s \in BOOLEAN}

\* send_close() in a handler, up to its test of close_sent, with the call of
\* connection_close() that follows it.
ReplyUntold(r) ==     \* mutant: connection_close() is only called with the frame
  IF r.closes > 0 THEN End(r) ELSE [r EXCEPT !.phase = "reply", !.op = "none"]

Reply(r) ==
  IF r.closes > 0 THEN TellClose(End(r)) ELSE [r EXCEPT !.phase = "reply", !.op = "none"]

\* read_message_content(): a message that exceeds max_message_size is an error
\* and a close with 1009; else its content is read.
ReadContents(r) == {Reply(TellError(r)), Start(r, "content", TimeoutIdle)}

Runs == ioRunning /\ ~destroyed

\* A handler of c's chain that a thread of the io_context can run now.
Queued(c, phase) == Runs /\ conn[c].phase = phase /\ conn[c].op \in {"ok", "failed"}

\* connection_error() and connection_close() erase the connection.
BecomesListed(c, r) ==     \* mutant: connection_close() does not erase it
  /\ conn' = [conn EXCEPT ![c] = r]
  /\ listed' = IF r.told = "error" THEN listed \ {c} ELSE listed
  /\ UNCHANGED <<acceptor, accepting, stopAt, ioRunning, destroyed>>

Becomes(c, r) ==
  /\ conn' = [conn EXCEPT ![c] = r]
  /\ listed' = IF r.phase = "ended" \/ r.told = "error" THEN listed \ {c} ELSE listed
  /\ UNCHANGED <<acceptor, accepting, stopAt, ioRunning, destroyed>>

-----------------------------------------------------------------------------
(* start(), accept() and upgrade() *)

\* (A start() that overtakes the end of the accept loop of the last one would
\* make it two; HttpServer has those.)
StartServer ==
  /\ ~destroyed /\ stopAt = "idle" /\ acceptor # "open" /\ accepting = "none"
  /\ acceptor' = "open"
  /\ accepting' = "pending"
  /\ ioRunning' = TRUE
  /\ UNCHANGED <<conn, listed, stopAt, destroyed>>

\* A client connects, or accepting fails.
AcceptCompletes ==
  /\ Runs /\ accepting = "pending"
  /\ accepting' \in {"ok", "failed"}
  /\ UNCHANGED <<conn, listed, acceptor, stopAt, ioRunning, destroyed>>

\* The accept handler: accept() again unless it was aborted (on a closed
\* acceptor that fails at once), and the first read or the TLS handshake of
\* the new connection.
AcceptHandler ==
  /\ Runs /\ accepting \in {"ok", "failed", "aborted"}
  /\ accepting' = CASE accepting = "aborted" -> "none"
                    [] acceptor = "open" -> "pending"
                    [] OTHER -> "failed"
  /\ IF accepting = "ok"
       THEN \E d \in Conns :
              /\ conn[d].phase = "free"
              /\ conn' = [conn EXCEPT ![d] =
                            Start(Blank, IF Tls THEN "tls" ELSE "readHandshake", TimeoutRequest)]
       ELSE UNCHANGED conn
  /\ UNCHANGED <<listed, acceptor, stopAt, ioRunning, destroyed>>

\* upgrade(), called by an HTTP server's on_upgrade (app.hpp:474) with a new
\* Connection; it needs no start().
Upgrade(d) ==
  /\ Runs
  /\ conn[d].phase = "free"
  /\ \E r \in WriteHandshakes(Blank) : Becomes(d, r)

-----------------------------------------------------------------------------
(* The handshake *)

TlsHandler(c) ==
  /\ Queued(c, "tls")
  /\ LET r == CancelTimer(conn[c])
     IN  Becomes(c, IF r.op = "ok" THEN Start(r, "readHandshake", TimeoutRequest) ELSE End(r))

ReadHandshakeHandler(c) ==
  /\ Queued(c, "readHandshake")
  /\ LET r == CancelTimer(conn[c])
     IN  IF r.op = "ok" THEN \E s \in {End(r)} \cup WriteHandshakes(r) : Becomes(c, s)
         ELSE Becomes(c, End(r))

\* connection_open() lists it and calls on_open; a failed 101 is an error to
\* the user although on_open was not called.
Opened(r) == [r EXCEPT !.phase = "opening", !.op = "none", !.told = "open"]

WriteHandshakeHandler(c) ==
  /\ Queued(c, "writeHandshake")
  /\ LET r == CancelTimer(conn[c]) IN
     \/ ~r.switching /\ Becomes(c, End(r))
     \/ r.switching /\ r.op = "failed" /\ Becomes(c, TellError(End(r)))
     \/ /\ r.switching /\ r.op = "ok"
        /\ conn' = [conn EXCEPT ![c] = Opened(r)]
        /\ listed' = listed \cup {c}
        /\ UNCHANGED <<acceptor, accepting, stopAt, ioRunning, destroyed>>

OpenReturns(c) ==
  /\ ~destroyed /\ conn[c].phase = "opening"
  /\ Becomes(c, ReadMessage(conn[c]))

-----------------------------------------------------------------------------
(* Reading messages *)

RunRead(c) ==
  /\ Runs /\ conn[c].phase = "head" /\ conn[c].op = "posted"
  /\ Becomes(c, [conn[c] EXCEPT !.op = "pending"])

\* The peer's bytes, or their end, complete an operation; after a shutdown a
\* read may still find bytes that had arrived before it.
NetSucceeds(c) ==
  /\ Runs /\ conn[c].op = "pending"
  /\ conn[c].down => conn[c].phase \in ReadPhases \cup {"readHandshake"}
  /\ Becomes(c, [conn[c] EXCEPT !.op = "ok"])

NetFails(c) ==
  /\ Runs /\ conn[c].op = "pending"
  /\ Becomes(c, [conn[c] EXCEPT !.op = "failed"])

\* The first two bytes: none (a spurious success); unmasked, which is a
\* protocol error; or the length is in the bytes after them, or in them.
HeadHandler(c) ==
  /\ Queued(c, "head")
  /\ LET r == CancelTimer(conn[c])
     IN  IF r.op = "failed" THEN Becomes(c, TellError(End(r)))
         ELSE \E s \in {ReadMessage(r), Reply(r), Start(r, "length", TimeoutIdle)}
                         \cup ReadContents(r) : Becomes(c, s)

LengthHandler(c) ==
  /\ Queued(c, "length")
  /\ LET r == CancelTimer(conn[c])
     IN  IF r.op = "failed" THEN Becomes(c, TellError(End(r)))
         ELSE \E s \in ReadContents(r) : Becomes(c, s)

\* A close frame; a ping, answered with a pong; a pong, or a fragment that is
\* not the last; or a message, for which on_message is called.
ContentHandler(c) ==
  /\ Queued(c, "content")
  /\ LET r == CancelTimer(conn[c]) IN
     \/ r.op = "failed" /\ Becomes(c, TellError(End(r)))
     \/ r.op = "ok" /\ Becomes(c, Reply(r))
     \/ r.op = "ok" /\ r.queued < MaxQueued /\ Becomes(c, ReadMessage(Enqueue(r)))
     \/ r.op = "ok" /\ Becomes(c, ReadMessage(r))
     \/ r.op = "ok" /\ Becomes(c, [r EXCEPT !.phase = "message", !.op = "none"])

MessageReturns(c) ==
  /\ ~destroyed /\ conn[c].phase = "message"
  /\ Becomes(c, ReadMessage(conn[c]))

\* The rest of send_close() in a handler, and connection_close().
ReplySends(c) ==
  /\ ~destroyed /\ conn[c].phase = "reply"
  /\ Becomes(c, TellClose(End(Enqueue([conn[c] EXCEPT !.closes = @ + 1]))))

-----------------------------------------------------------------------------
(* The user's threads, and the chain of writes *)

\* get_connections(), or a copy kept from on_open or on_message.
Grab(c) ==
  /\ ~destroyed /\ c \in listed /\ ~conn[c].held
  /\ Becomes(c, [conn[c] EXCEPT !.held = TRUE])

Send(c) ==
  /\ ~destroyed /\ conn[c].held /\ conn[c].queued < MaxQueued
  /\ Becomes(c, Enqueue(conn[c]))

\* send_close() tests close_sent in one step and sets it in the next.
UserTestsClose(c) ==
  /\ ~destroyed /\ conn[c].held /\ ~conn[c].closing /\ conn[c].closes = 0
  /\ Becomes(c, [conn[c] EXCEPT !.closing = TRUE])

UserSendsClose(c) ==
  /\ ~destroyed /\ conn[c].closing
  /\ Becomes(c, Enqueue([conn[c] EXCEPT !.closing = FALSE, !.closes = @ + 1]))

UserReleases(c) ==
  /\ ~destroyed /\ conn[c].held /\ ~conn[c].closing
  /\ Becomes(c, [conn[c] EXCEPT !.held = FALSE])

RunSend(c) ==
  /\ Runs /\ conn[c].writer = "posted"
  /\ Becomes(c, [conn[c] EXCEPT !.writer = "pending"])

SendCompletes(c) ==
  /\ Runs /\ conn[c].writer = "pending"
  /\ \E result \in {"ok", "failed"} :
       /\ conn[c].down => result = "failed"
       /\ Becomes(c, [conn[c] EXCEPT !.writer = result])

\* set_timeout() comes first; then the next frame, or with an error none.
SendHandlerKeepsQueue(c) ==     \* mutant: an error does not clear send_queue
  /\ Runs /\ conn[c].writer \in {"ok", "failed"}
  /\ LET r == SetTimer(conn[c], TimeoutIdle)
     IN  Becomes(c, IF r.writer = "failed" THEN [r EXCEPT !.writer = "none"]
                    ELSE IF r.queued = 1 THEN [r EXCEPT !.writer = "none", !.queued = 0]
                    ELSE [SetTimer(r, TimeoutIdle) EXCEPT !.writer = "posted", !.queued = @ - 1])

SendHandlerRetries(c) ==     \* mutant: a failed write is tried again
  /\ Runs /\ conn[c].writer \in {"ok", "failed"}
  /\ LET r == SetTimer(conn[c], TimeoutIdle)
         left == IF r.writer = "ok" THEN r.queued - 1 ELSE r.queued
     IN  Becomes(c, IF left = 0 THEN [r EXCEPT !.writer = "none", !.queued = 0]
                    ELSE [SetTimer(r, TimeoutIdle) EXCEPT !.writer = "posted", !.queued = left])

SendHandler(c) ==
  /\ Runs /\ conn[c].writer \in {"ok", "failed"}
  /\ LET r == SetTimer(conn[c], TimeoutIdle)
         left == IF r.writer = "ok" THEN r.queued - 1 ELSE 0
     IN  Becomes(c, IF left = 0 THEN [r EXCEPT !.writer = "none", !.queued = 0]
                    ELSE [SetTimer(r, TimeoutIdle) EXCEPT !.writer = "posted", !.queued = left])

-----------------------------------------------------------------------------
(* Timers, stop() and the destructor *)

TimerExpires(c) ==
  /\ Runs /\ conn[c].timer = "armed"
  /\ Becomes(c, [conn[c] EXCEPT !.timer = "due"])

TimerHandler(c) ==
  /\ Runs /\ conn[c].timer = "due"
  /\ Becomes(c, Close([conn[c] EXCEPT !.timer = "off"]))

StaleTimerHandler(c) ==
  /\ Runs /\ conn[c].stale
  /\ Becomes(c, Close([conn[c] EXCEPT !.stale = FALSE]))

\* The last shared_ptr goes: neither a chain, nor the user, nor `listed` has one.
Delete(c) ==
  /\ ~destroyed
  /\ conn[c].phase = "ended" /\ conn[c].writer = "none" /\ ~conn[c].held /\ c \notin listed
  /\ Becomes(c, Blank)

\* stop(), first half, and all of stop_accept(): the acceptor is closed.
CloseAcceptor ==
  /\ acceptor' = "closed"
  /\ accepting' = IF accepting = "pending" THEN "aborted" ELSE accepting
  /\ UNCHANGED <<conn, listed, ioRunning, destroyed>>

StopAcceptor ==
  /\ ~destroyed /\ stopAt = "idle" /\ acceptor # "none"
  /\ stopAt' = "acceptorClosed"
  /\ CloseAcceptor

StopAccept ==
  /\ ~destroyed /\ acceptor # "none"
  /\ UNCHANGED stopAt
  /\ CloseAcceptor

\* stop(), second half, under connections_mutex.
StopConnections ==
  /\ ~destroyed /\ stopAt = "acceptorClosed"
  /\ conn' = [c \in Conns |->
                IF c \in listed THEN Close([conn[c] EXCEPT !.unlisted = TRUE]) ELSE conn[c]]
  /\ listed' = {}
  /\ ioRunning' = (ioRunning /\ ~InternalIo)
  /\ stopAt' = "idle"
  /\ UNCHANGED <<acceptor, accepting, destroyed>>

\* ~SocketServerBase() waits for nothing.  The handlers left in the io_context
\* would go on with a dangling `this`: the model ends here and forgets them.
Destroy ==
  /\ ~destroyed /\ stopAt = "idle"
  /\ destroyed' = TRUE
  /\ conn' = [c \in Conns |-> Blank]
  /\ listed' = {}
  /\ acceptor' = "none"
  /\ accepting' = "none"
  /\ UNCHANGED <<stopAt, ioRunning>>

-----------------------------------------------------------------------------
HandshakeHandlers(c) == TlsHandler(c) \/ ReadHandshakeHandler(c) \/ WriteHandshakeHandler(c)

MessageHandlers(c) ==
  RunRead(c) \/ HeadHandler(c) \/ LengthHandler(c) \/ ContentHandler(c) \/ ReplySends(c)

UserReturns(c) == OpenReturns(c) \/ MessageReturns(c)

UserSteps(c) ==
  \/ Grab(c) \/ Send(c) \/ UserTestsClose(c) \/ UserSendsClose(c) \/ UserReleases(c)
  \/ UserReturns(c)

WriterSteps(c) == RunSend(c) \/ SendHandler(c)

ConnStep(c) ==
  \/ Upgrade(c) \/ HandshakeHandlers(c) \/ MessageHandlers(c) \/ UserSteps(c)
  \/ WriterSteps(c) \/ NetSucceeds(c) \/ NetFails(c) \/ SendCompletes(c)
  \/ TimerExpires(c) \/ TimerHandler(c) \/ StaleTimerHandler(c) \/ Delete(c)

Next ==
  \/ \E c \in Conns : ConnStep(c)
  \/ StartServer \/ AcceptCompletes \/ AcceptHandler
  \/ StopAcceptor \/ StopAccept \/ StopConnections \/ Destroy

Spec == Init /\ [][Next]_vars

\* The io_context runs what is queued, a thread finishes the call it is in, and
\* the kernel fails what a shutdown has ended, a read once the bytes that had
\* arrived are used up.  A timer expires when nothing replaces it: while frames
\* are sent, each of them does.  The peer may stay silent for ever, a user's
\* function may never return, and nobody need call anything.
Fairness ==
  /\ \A c \in Conns :
       /\ WF_vars(HandshakeHandlers(c) \/ MessageHandlers(c) \/ Delete(c))
       /\ WF_vars(WriterSteps(c) \/ (conn[c].down /\ SendCompletes(c)))
       /\ WF_vars(conn[c].writer \in {"none", "pending"} /\ TimerExpires(c))
       /\ WF_vars(TimerHandler(c)) /\ WF_vars(StaleTimerHandler(c))
       /\ SF_vars(conn[c].down /\ NetFails(c))
  /\ WF_vars(StopConnections)

FairSpec == Spec /\ Fairness

-----------------------------------------------------------------------------
(* Properties *)

\* Types, and the shape of a connection: an operation exactly in the phases
\* that have one, and a writer exactly when something is in the send queue.
TypeOK ==
  /\ conn \in [Conns -> Connection]
  /\ listed \subseteq Conns
  /\ acceptor \in {"none", "open", "closed"}
  /\ accepting \in {"none", "pending", "ok", "failed", "aborted"}
  /\ stopAt \in {"idle", "acceptorClosed"}
  /\ ioRunning \in BOOLEAN /\ destroyed \in BOOLEAN
  /\ \A c \in Conns :
       /\ (conn[c].op # "none") <=> (conn[c].phase \in NetPhases)
       /\ (conn[c].writer # "none") <=> (conn[c].queued > 0)
       /\ conn[c].closing => conn[c].held

\* get_connections() returns the connections whose on_open was called and whose
\* on_close and on_error were not, but for those that a stop() has dropped: one
\* that has ended stays in no set, which would keep its socket for ever.
ListedAreOpen ==
  \A c \in Conns :
    (c \in listed) <=> (conn[c].phase \in OpenPhases /\ conn[c].told = "open" /\ ~conn[c].unlisted)

\* The user is told exactly once that an opened connection is over, by on_close
\* or on_error (a message that is too big is told as both, one after the
\* other), and never before the connection was opened, but for a 101 that could
\* not be written.  This holds although a peer's close frame, a failed read, the
\* user's own send_close(), a timer and stop() may all end the same connection.
ToldOnce ==
  \A c \in Conns :
    /\ conn[c].told # "twice"
    /\ conn[c].phase \in HandshakePhases => conn[c].told = "nothing"
    /\ conn[c].phase = "ended" => conn[c].told # "open"

\* The timeout that is configured for a phase.
Timed(phase) == IF phase \in HandshakePhases THEN TimeoutRequest ELSE TimeoutIdle

\* A peer that falls silent, in its handshake or between or within messages, is
\* closed by the timer configured for that phase, although the chains of reads
\* and of writes set and cancel one timer: at no time is a read left without
\* it.  Not a peer that frames are sent to for ever, which is not idle.
SilentPeerDropped ==
  \A c \in Conns :
    \/ conn[c].phase \in NetPhases /\ Timed(conn[c].phase) /\ conn[c].op = "pending"
         ~> conn[c].op # "pending" \/ ~Runs
    \/ []<>(conn[c].writer = "posted")

\* stop() drains: every connection it took out of endpoint.connections is
\* deleted in the end, with its queued frames, unless the user keeps it or
\* on_open or on_message does not return, or the io_service stands still.
StopDrains ==
  \A c \in Conns :
    \/ conn[c].unlisted ~> conn[c].phase = "free" \/ ~Runs
    \/ <>[]conn[c].held
    \/ <>[](conn[c].phase \in {"opening", "message"})

-----------------------------------------------------------------------------
(* What comments of the source say and the code does not do. *)

\* "Stop accepting new connections, and close current connections"
\* (server_ws.hpp:450): not those whose handshake is not done yet, which open,
\* are listed and are served after stop() when the io_service is the user's.
StopClosesAll ==
  acceptor = "closed" /\ stopAt = "idle" /\ ~destroyed =>
    \A c \in Conns : conn[c].phase \in OpenPhases => conn[c].down

\* "Send close only once (in case close is initiated by server)"
\* (server_ws.hpp:242): close_sent is tested and set in two steps.
CloseSentOnce == \A c \in Conns : conn[c].closes <= 1

\* "The shared lock ensures that a potential destructor call is delayed until
\* all locks are released" (utility.hpp:451): this server's destructor is not.
DestructorDelayed ==
  [][destroyed' => \A c \in Conns : conn[c].phase \notin RunningPhases]_vars

\* "Idle timeout" (server_ws.hpp:337): no write waits for ever for a peer that
\* does not read; but a handler that ends the chain of reads, of a close frame
\* or of an error, cancels the timer of the write that is going on, and send()
\* sets none when the queue is not empty.
StuckWriteDropped ==
  \A c \in Conns :
    \/ TimeoutIdle /\ conn[c].writer = "pending" ~> conn[c].writer # "pending" \/ ~Runs
    \/ <>[](conn[c].phase \in {"opening", "message"})

=============================================================================
