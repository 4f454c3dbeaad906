----------------------------- MODULE HttpServer ------------------------------
(***************************************************************************)
(* The connections of SimpleWeb::ServerBase (bhttp/server_http.hpp) and of *)
(* its two specialisations Server<HTTP> and Server<HTTPS>: how they are    *)
(* accepted, read, answered, upgraded, timed out, stopped and destroyed.   *)
(*                                                                         *)
(* A connection has one chain of asynchronous operations (`phase`, `op`),  *)
(* a chain of writes started by Response::send (`part`, which SendQueue    *)
(* shows to be one), a timer, and the references that keep it alive.  Any  *)
(* thread of the io_context runs any completion handler, so handlers of    *)
(* different connections, timer handlers, stop() and the destructor        *)
(* interleave freely.  A handler is one step up to its return, except the  *)
(* user's resource function, the upgrade and the 413 answer, which take    *)
(* several steps and hold the ScopeRunner's lock (`running`) meanwhile.    *)
(*                                                                         *)
(* A Connection object is a slot of Conns; a slot is used again when the   *)
(* object has been deleted.  With no free slot nothing is accepted: the    *)
(* size of Conns bounds the model, not the server.                         *)
(***************************************************************************)
EXTENDS Integers, FiniteSets

CONSTANTS Conns,           \* slots for Connection objects
          Tls,             \* Server<HTTPS>: a handshake comes before the first read
          HasUpgrade,      \* on_upgrade is set
          HasOnError,      \* on_error is set
          InternalIo,      \* the server made its own io_service
          Timeouts,        \* which of config.timeout_request and timeout_content are set
          MaxParts         \* bound: parts of one response in its send_queue

ASSUME ConfigAssumption ==
  /\ {Tls, HasUpgrade, HasOnError, InternalIo} \subseteq BOOLEAN
  /\ Timeouts \subseteq [request : BOOLEAN, content : BOOLEAN]
  /\ MaxParts \in Nat \ {0}

VARIABLES conn,       \* the Connection of each slot
          registry,   \* connections->set
          acceptor,   \* "none" before start(), then "open" or "closed"
          owner,      \* "alive", "destroying" after handler_runner->stop(), "destroyed"
          stopAt,     \* "idle", or between the two halves of stop()
          ioRunning,  \* threads are in io_service->run()
          timeout,    \* the timeouts this server is configured with
          crashed     \* the process died: null socket, or an exception out of run()

vars == <<conn, registry, acceptor, owner, stopAt, ioRunning, timeout, crashed>>

ReadPhases == {"header", "content", "size", "chunk", "crlf"}
NetPhases == ReadPhases \cup {"handshake", "write"}
OpPhases == NetPhases \cup {"accept"}
UserPhases == {"upgrade", "tooLarge", "response"}
Served == NetPhases \cup UserPhases

\* A Connection as its constructor leaves it, before async_accept.
Blank == [phase |-> "free",   \* what its chain is doing
          op |-> "none",      \* the chain's operation: posted on the strand,
                              \* pending, or completed with its handler queued
          part |-> "none",    \* the same for Response::send
          queued |-> 0,       \* send_queue.size() of its Response
          running |-> FALSE,  \* a user function or upgrade is on the stack
          held |-> FALSE,     \* the user keeps the Response after its function
          timer |-> "off",    \* "due" is expired with its handler queued
          stale |-> FALSE,    \* the handler of a replaced timer is queued
          down |-> FALSE,     \* the socket has been shut down by close()
          moved |-> FALSE,    \* `socket` was moved out by on_upgrade
          missed |-> FALSE]   \* history: stop() found it accepted, not yet handled

Connection ==
  [phase : OpPhases \cup UserPhases \cup {"free", "dropped"},
   op : {"none", "posted", "pending", "ok", "failed", "aborted"},
   part : {"none", "posted", "pending", "ok", "failed"}, queued : 0..MaxParts,
   running : BOOLEAN, held : BOOLEAN,
   timer : {"off", "armed", "due"}, stale : BOOLEAN,
   down : BOOLEAN, moved : BOOLEAN, missed : BOOLEAN]

Init ==
  /\ conn = [c \in Conns |-> Blank]
  /\ registry = {}
  /\ acceptor = "none"
  /\ owner = "alive"
  /\ stopAt = "idle"
  /\ ioRunning = TRUE
  /\ timeout \in Timeouts
  /\ crashed = FALSE

-----------------------------------------------------------------------------
(* Helpers: what a call does to the record of a connection. *)

GateOpen == owner = "alive"

\* set_timeout(): the old timer is destroyed, but a handler already queued
\* with success stays queued.  cancel_timeout() and a timeout of 0 leave no timer.
SetTimer(r, enabled) ==
  [r EXCEPT !.stale = @ \/ r.timer = "due", !.timer = IF enabled THEN "armed" ELSE "off"]

CancelTimer(r) == SetTimer(r, FALSE)

\* Connection::close(): shutdown_both, and what is pending is cancelled.  The
\* socket of a connection not yet accepted is not open, and close() does nothing.
Close(r) ==
  IF r.phase \in Served
    THEN [r EXCEPT !.down = TRUE,
                   !.op = IF @ = "pending" THEN "failed" ELSE @,
                   !.part = IF @ = "pending" THEN "failed" ELSE @]
    ELSE r

\* The last reference goes with the handler's or closure's copy of the session.
Drop(r) == [r EXCEPT !.phase = "dropped", !.op = "none", !.part = "none",
                     !.queued = 0, !.running = FALSE, !.held = FALSE]

\* read(): a timer for the request, and async_read_until of the header.
Read(r) ==
  [SetTimer(r, timeout.request) EXCEPT !.phase = "header", !.op = "pending"]

\* The next asynchronous operation of the chain.
Start(r, phase) == [r EXCEPT !.phase = phase, !.op = "pending"]

\* The Response is deleted with its last reference, which the resource
\* function, the user and the closures of send() hold; its deleter posts the
\* rest of the response to the strand (send_on_delete).
ReleaseIgnoringParts(r) ==   \* mutant: send_from_queue captures no `self`
  IF ~r.running /\ ~r.held
    THEN [r EXCEPT !.phase = "write", !.op = "posted", !.queued = 0] ELSE r

Release(r) ==
  IF ~r.running /\ ~r.held /\ r.part = "none"
    THEN [r EXCEPT !.phase = "write", !.op = "posted", !.queued = 0] ELSE r

\* create_connection() and async_accept in a free slot; on a closed acceptor
\* the operation completes at once with bad_descriptor.
NewConnection(d, open) ==
  [Blank EXCEPT !.phase = "accept", !.op = IF open THEN "pending" ELSE "failed"]

\* Whether the connection lives on after a response: keep-alive.
KeepsAlive(closeAfterResponse, connectionHeader, http11) ==
  /\ ~closeAfterResponse
  /\ connectionHeader # "close"
  /\ connectionHeader = "keep-alive" \/ http11

\* A handler of c's chain that a thread of the io_context can run now.
Queued(c, phase) ==
  /\ ~crashed /\ ioRunning
  /\ conn[c].phase = phase
  /\ conn[c].op \in {"ok", "failed", "aborted"}

Refused(c) == ~GateOpen /\ conn' = [conn EXCEPT ![c] = Drop(@)]

Globals == <<registry, acceptor, owner, stopAt, ioRunning, timeout, crashed>>

-----------------------------------------------------------------------------
(* start() and accept() *)

StartServer ==
  /\ ~crashed /\ owner = "alive" /\ stopAt = "idle"
  /\ acceptor # "open"
  /\ acceptor' = "open"
  /\ ioRunning' = TRUE
  /\ \E d \in Conns :
       /\ conn[d].phase = "free"
       /\ conn' = [conn EXCEPT ![d] = NewConnection(d, TRUE)]
       /\ registry' = registry \cup {d}
  /\ UNCHANGED <<owner, stopAt, timeout, crashed>>

\* A client connects, or accepting fails (no descriptors, for instance).
AcceptCompletes(c) ==
  /\ ~crashed /\ ioRunning
  /\ conn[c].phase = "accept" /\ conn[c].op = "pending"
  /\ \E result \in {"ok", "failed"} :
       conn' = [conn EXCEPT ![c].op = result]
  /\ UNCHANGED Globals

\* What becomes of the connection whose accept handler runs: on_error and gone,
\* or its first read, after a handshake with TLS.
Accepted(r) ==
  IF r.op # "ok" THEN Drop(r)
  ELSE IF Tls THEN Start(SetTimer(r, timeout.request), "handshake")
  ELSE Read(r)

AcceptHandlerOnlyOk(c) ==      \* mutant: accept() is called again on success only
  /\ Queued(c, "accept")
  /\ \/ Refused(c) /\ UNCHANGED registry
     \/ /\ GateOpen
        /\ IF conn[c].op = "ok"
             THEN \E d \in Conns :
                    /\ conn[d].phase = "free"
                    /\ conn' = [conn EXCEPT ![c] = Accepted(@),
                                            ![d] = NewConnection(d, acceptor = "open")]
                    /\ registry' = registry \cup {d}
             ELSE /\ conn' = [conn EXCEPT ![c] = Accepted(@)]
                  /\ UNCHANGED registry
  /\ UNCHANGED <<acceptor, owner, stopAt, ioRunning, timeout, crashed>>

AcceptHandlerUnregistered(c) ==   \* mutant: connections->set.emplace is lost
  /\ Queued(c, "accept")
  /\ \/ Refused(c) /\ UNCHANGED registry
     \/ /\ GateOpen
        /\ IF conn[c].op # "aborted"
             THEN \E d \in Conns :
                    /\ conn[d].phase = "free"
                    /\ conn' = [conn EXCEPT ![c] = Accepted(@),
                                            ![d] = NewConnection(d, acceptor = "open")]
             ELSE conn' = [conn EXCEPT ![c] = Accepted(@)]
        /\ UNCHANGED registry
  /\ UNCHANGED <<acceptor, owner, stopAt, ioRunning, timeout, crashed>>

AcceptHandler(c) ==
  /\ Queued(c, "accept")
  /\ \/ Refused(c) /\ UNCHANGED registry
     \/ /\ GateOpen
        /\ IF conn[c].op # "aborted"
             THEN \E d \in Conns :
                    /\ conn[d].phase = "free"
                    /\ conn' = [conn EXCEPT ![c] = Accepted(@),
                                            ![d] = NewConnection(d, acceptor = "open")]
                    /\ registry' = registry \cup {d}
             ELSE /\ conn' = [conn EXCEPT ![c] = Accepted(@)]
                  /\ UNCHANGED registry
  /\ UNCHANGED <<acceptor, owner, stopAt, ioRunning, timeout, crashed>>

\* The handshake handler cancels the timer before it asks for the lock.
HandshakeHandler(c) ==
  /\ Queued(c, "handshake")
  /\ \/ Refused(c)
     \/ /\ GateOpen
        /\ conn' = [conn EXCEPT ![c] = IF @.op = "ok" THEN Read(CancelTimer(@)) ELSE Drop(@)]
  /\ UNCHANGED Globals

-----------------------------------------------------------------------------
(* Reading a request *)

\* The peer's bytes or its end of stream complete an operation; so does a
\* shutdown, though a read may still find bytes that had arrived before it.
NetCompletes(c) ==
  /\ ~crashed /\ ioRunning
  /\ conn[c].phase \in NetPhases /\ conn[c].op = "pending"
  /\ \E result \in {"ok", "failed"} :
       /\ conn[c].down /\ conn[c].phase \notin ReadPhases => result = "failed"
       /\ conn' = [conn EXCEPT ![c].op = result]
  /\ UNCHANGED Globals

\* find_resource(): an upgrade leaves the registry first; a match calls the
\* resource function with a new Response; without a match the session ends.
FindResourceKeepsRegistered(c, r) ==    \* mutant: the upgrade stays in connections->set
  \/ /\ HasUpgrade
     /\ conn' = [conn EXCEPT ![c] = [r EXCEPT !.phase = "upgrade", !.op = "none", !.running = TRUE]]
     /\ UNCHANGED registry
  \/ /\ conn' = [conn EXCEPT ![c] = [r EXCEPT !.phase = "response", !.op = "none", !.running = TRUE]]
     /\ UNCHANGED registry
  \/ /\ conn' = [conn EXCEPT ![c] = Drop(r)]
     /\ UNCHANGED registry

FindResource(c, r) ==
  \/ /\ HasUpgrade
     /\ conn' = [conn EXCEPT ![c] = [r EXCEPT !.phase = "upgrade", !.op = "none", !.running = TRUE]]
     /\ registry' = registry \ {c}
  \/ /\ conn' = [conn EXCEPT ![c] = [r EXCEPT !.phase = "response", !.op = "none", !.running = TRUE]]
     /\ UNCHANGED registry
  \/ /\ conn' = [conn EXCEPT ![c] = Drop(r)]
     /\ UNCHANGED registry

\* A body that exceeds max_request_streambuf_size: a Response with status 413
\* and the default deleter is on the handler's stack while on_error is called.
TooLarge(r) == [r EXCEPT !.phase = "tooLarge", !.op = "none", !.running = TRUE]

\* The timer for the content takes the place of the one for the request.
ContentUntimed(r) == CancelTimer(r)     \* mutant: and none is set for the content

ContentTimer(r) == SetTimer(r, timeout.content)

\* The header is complete: malformed; too large; more content to read; chunked;
\* or nothing more to read.
HeaderHandler(c) ==
  /\ Queued(c, "header")
  /\ LET r == ContentTimer(conn[c]) IN
     \/ Refused(c) /\ UNCHANGED registry
     \/ /\ GateOpen /\ conn[c].op = "failed"
        /\ conn' = [conn EXCEPT ![c] = Drop(@)]
        /\ UNCHANGED registry
     \/ /\ GateOpen /\ conn[c].op = "ok"
        /\ \/ /\ \E next \in {Drop(r), TooLarge(r), Start(r, "content"), Start(r, "size")} :
                   conn' = [conn EXCEPT ![c] = next]
              /\ UNCHANGED registry
           \/ FindResource(c, r)
  /\ UNCHANGED <<acceptor, owner, stopAt, ioRunning, timeout, crashed>>

ContentHandler(c) ==
  /\ Queued(c, "content")
  /\ \/ Refused(c) /\ UNCHANGED registry
     \/ /\ GateOpen /\ conn[c].op = "failed"
        /\ conn' = [conn EXCEPT ![c] = Drop(@)]
        /\ UNCHANGED registry
     \/ GateOpen /\ conn[c].op = "ok" /\ FindResource(c, conn[c])
  /\ UNCHANGED <<acceptor, owner, stopAt, ioRunning, timeout, crashed>>

\* The size line of a chunk: malformed; too large; the chunk, or only its end,
\* is still to be read; all of it is there; or it is the last one.
SizeHandler(c) ==
  /\ Queued(c, "size")
  /\ \/ Refused(c) /\ UNCHANGED registry
     \/ /\ GateOpen /\ conn[c].op = "failed"
        /\ conn' = [conn EXCEPT ![c] = Drop(@)]
        /\ UNCHANGED registry
     \/ /\ GateOpen /\ conn[c].op = "ok"
        /\ \/ /\ \E next \in {Drop(conn[c]), TooLarge(conn[c])}
                              \cup {Start(conn[c], phase) : phase \in {"chunk", "crlf", "size"}} :
                   conn' = [conn EXCEPT ![c] = next]
              /\ UNCHANGED registry
           \/ FindResource(c, conn[c])
  /\ UNCHANGED <<acceptor, owner, stopAt, ioRunning, timeout, crashed>>

ChunkHandler(c) ==
  /\ Queued(c, "chunk")
  /\ \/ Refused(c)
     \/ /\ GateOpen
        /\ conn' = [conn EXCEPT ![c] = IF @.op = "ok" THEN Start(@, "crlf") ELSE Drop(@)]
  /\ UNCHANGED Globals

\* The two handlers that read a chunk's "\r\n" call on_error without a test:
\* an empty std::function throws, out of the handler and out of run().
CrlfHandler(c) ==
  /\ Queued(c, "crlf")
  /\ \/ Refused(c) /\ UNCHANGED crashed
     \/ /\ GateOpen
        /\ conn' = [conn EXCEPT ![c] = IF @.op = "ok" THEN Start(@, "size") ELSE Drop(@)]
        /\ crashed' = (conn[c].op = "failed" /\ ~HasOnError)
  /\ UNCHANGED <<registry, acceptor, owner, stopAt, ioRunning, timeout>>

\* The handler with the 413 Response returns: it is deleted, not sent.
TooLargeReturns(c) ==
  /\ ~crashed
  /\ conn[c].phase = "tooLarge"
  /\ conn' = [conn EXCEPT ![c] = Drop(@)]
  /\ UNCHANGED Globals

\* on_upgrade moves the socket into a WebSocket connection (app.hpp:478) ...
MoveSocket(c) ==
  /\ ~crashed
  /\ conn[c].phase = "upgrade" /\ ~conn[c].moved
  /\ conn' = [conn EXCEPT ![c].moved = TRUE]
  /\ UNCHANGED Globals

\* ... and the handler returns, the last owner of the session.
UpgradeReturns(c) ==
  /\ ~crashed
  /\ conn[c].phase = "upgrade" /\ conn[c].moved
  /\ conn' = [conn EXCEPT ![c] = Drop(@)]
  /\ UNCHANGED Globals

-----------------------------------------------------------------------------
(* Answering *)

\* The user's code calls Response::send(): the first part in the queue is posted.
SendPart(c) ==
  /\ ~crashed
  /\ conn[c].phase = "response" /\ (conn[c].running \/ conn[c].held)
  /\ conn[c].queued < MaxParts
  /\ conn' = [conn EXCEPT ![c].queued = @ + 1,
                          ![c].part = IF conn[c].queued = 0 THEN "posted" ELSE @]
  /\ UNCHANGED Globals

\* The posted closure of send_from_queue(); refused, it drops its reference and
\* leaves the queue as it is.
RunPart(c) ==
  /\ ~crashed /\ ioRunning
  /\ conn[c].part = "posted"
  /\ conn' = [conn EXCEPT ![c] = IF GateOpen THEN [@ EXCEPT !.part = "pending"]
                                             ELSE Release([@ EXCEPT !.part = "none"])]
  /\ UNCHANGED Globals

PartCompletes(c) ==
  /\ ~crashed /\ ioRunning
  /\ conn[c].part = "pending"
  /\ \E result \in {"ok", "failed"} :
       /\ conn[c].down => result = "failed"
       /\ conn' = [conn EXCEPT ![c].part = result]
  /\ UNCHANGED Globals

\* What its completion handler leaves: after a success the next part, posted with
\* a reference of its own; else the queue is empty, or refused and left as it is,
\* and the reference goes.
AfterPart(r) ==
  IF GateOpen /\ r.part = "ok" /\ r.queued > 1
    THEN [r EXCEPT !.part = "posted", !.queued = @ - 1]
    ELSE Release([r EXCEPT !.part = "none", !.queued = IF GateOpen THEN 0 ELSE @])

PartHandler(c) ==
  /\ ~crashed /\ ioRunning
  /\ conn[c].part \in {"ok", "failed"}
  /\ conn' = [conn EXCEPT ![c] = AfterPart(@)]
  /\ UNCHANGED Globals

\* The resource function returns or throws; the user may have kept the Response.
ResourceReturns(c) ==
  /\ ~crashed
  /\ conn[c].phase = "response" /\ conn[c].running
  /\ \E keep \in BOOLEAN :
       conn' = [conn EXCEPT ![c] = Release([@ EXCEPT !.running = FALSE, !.held = keep])]
  /\ UNCHANGED Globals

UserReleases(c) ==
  /\ ~crashed
  /\ conn[c].held
  /\ conn' = [conn EXCEPT ![c] = Release([@ EXCEPT !.held = FALSE])]
  /\ UNCHANGED Globals

\* The posted closure of send_on_delete().
RunWriteUnchecked(c) ==     \* mutant: no continue_lock() in the closure
  /\ ~crashed /\ ioRunning
  /\ conn[c].phase = "write" /\ conn[c].op = "posted"
  /\ conn' = [conn EXCEPT ![c].op = "pending"]
  /\ UNCHANGED Globals

RunWrite(c) ==
  /\ ~crashed /\ ioRunning
  /\ conn[c].phase = "write" /\ conn[c].op = "posted"
  /\ \/ Refused(c)
     \/ GateOpen /\ conn' = [conn EXCEPT ![c].op = "pending"]
  /\ UNCHANGED Globals

\* Its completion handler, with the callback ServerBase::write gave it: the
\* timer is cancelled, and after a success a kept-alive connection is read again.
WriteHandlerKeepsOp(c) ==   \* mutant: the read is set up but never started
  /\ Queued(c, "write")
  /\ \/ Refused(c)
     \/ /\ GateOpen /\ conn[c].op = "ok"
        /\ \E closeAfter \in BOOLEAN, header \in {"close", "keep-alive", "none"}, http11 \in BOOLEAN :
             conn' = [conn EXCEPT ![c] = IF KeepsAlive(closeAfter, header, http11)
                                           THEN [SetTimer(@, timeout.request) EXCEPT
                                                   !.phase = "header", !.op = "none"]
                                           ELSE Drop(CancelTimer(@))]
     \/ /\ GateOpen /\ conn[c].op = "failed"
        /\ conn' = [conn EXCEPT ![c] = Drop(CancelTimer(@))]
  /\ UNCHANGED Globals

WriteHandler(c) ==
  /\ Queued(c, "write")
  /\ \/ Refused(c)
     \/ /\ GateOpen /\ conn[c].op = "ok"
        /\ \E closeAfter \in BOOLEAN, header \in {"close", "keep-alive", "none"}, http11 \in BOOLEAN :
             conn' = [conn EXCEPT ![c] = IF KeepsAlive(closeAfter, header, http11)
                                           THEN Read(CancelTimer(@)) ELSE Drop(CancelTimer(@))]
     \/ /\ GateOpen /\ conn[c].op = "failed"
        /\ conn' = [conn EXCEPT ![c] = Drop(CancelTimer(@))]
  /\ UNCHANGED Globals

-----------------------------------------------------------------------------
(* Timers, the registry's deleter, stop() and the destructor *)

TimerExpires(c) ==
  /\ ~crashed /\ ioRunning
  /\ conn[c].timer = "armed"
  /\ conn' = [conn EXCEPT ![c].timer = "due"]
  /\ UNCHANGED Globals

\* A timer handler locks its weak_ptr and calls close(), which dereferences
\* the socket whether or not on_upgrade has moved it out.
Expire(c, r) ==
  IF conn[c].phase = "dropped" THEN conn' = [conn EXCEPT ![c] = r] /\ UNCHANGED crashed
  ELSE /\ conn' = [conn EXCEPT ![c] = Close(r)]
       /\ crashed' = r.moved

TimerHandler(c) ==
  /\ ~crashed /\ ioRunning
  /\ conn[c].timer = "due"
  /\ Expire(c, [conn[c] EXCEPT !.timer = "off"])
  /\ UNCHANGED <<registry, acceptor, owner, stopAt, ioRunning, timeout>>

\* The same for a timer that set_timeout() or cancel_timeout() came too late
\* for.  (One such handler stands for any number: the first one closes.)
StaleTimerHandler(c) ==
  /\ ~crashed /\ ioRunning
  /\ conn[c].stale
  /\ Expire(c, [conn[c] EXCEPT !.stale = FALSE])
  /\ UNCHANGED <<registry, acceptor, owner, stopAt, ioRunning, timeout>>

\* The deleter of create_connection(): out of the registry, then deleted.
Delete(c) ==
  /\ ~crashed
  /\ conn[c].phase = "dropped"
  /\ registry' = registry \ {c}
  /\ conn' = [conn EXCEPT ![c] = Blank]
  /\ UNCHANGED <<acceptor, owner, stopAt, ioRunning, timeout, crashed>>

\* stop(), first half: the acceptor is closed and its operation aborted.
StopAcceptor ==
  /\ ~crashed
  /\ stopAt = "idle" /\ acceptor # "none" /\ owner # "destroyed"
  /\ acceptor' = "closed"
  /\ conn' = [c \in Conns |-> IF conn[c].phase = "accept" /\ conn[c].op = "pending"
                                THEN [conn[c] EXCEPT !.op = "aborted"] ELSE conn[c]]
  /\ stopAt' = "acceptorClosed"
  /\ UNCHANGED <<registry, owner, ioRunning, timeout, crashed>>

\* stop(), second half, under connections->mutex.
StopConnectionsNoClose ==     \* mutant: connection->close() is lost
  /\ ~crashed
  /\ stopAt = "acceptorClosed"
  /\ conn' = [c \in Conns |->
                [conn[c] EXCEPT !.missed = @ \/ (conn[c].phase = "accept" /\ conn[c].op = "ok")]]
  /\ registry' = {}
  /\ ioRunning' = (ioRunning /\ ~InternalIo)
  /\ stopAt' = "idle"
  /\ owner' = IF owner = "destroying" THEN "destroyed" ELSE owner
  /\ UNCHANGED <<acceptor, timeout, crashed>>

StopConnections ==
  /\ ~crashed
  /\ stopAt = "acceptorClosed"
  /\ conn' = [c \in Conns |->
                [IF c \in registry THEN Close(conn[c]) ELSE conn[c] EXCEPT
                   !.missed = @ \/ (conn[c].phase = "accept" /\ conn[c].op = "ok")]]
  /\ crashed' = \E c \in registry : conn[c].moved
  /\ registry' = {}
  /\ ioRunning' = (ioRunning /\ ~InternalIo)
  /\ stopAt' = "idle"
  /\ owner' = IF owner = "destroying" THEN "destroyed" ELSE owner
  /\ UNCHANGED <<acceptor, timeout>>

\* ~ServerBase(): handler_runner->stop() waits for every handler to leave
\* (ScopeRunner), and stop() follows.
Destroy ==
  /\ ~crashed
  /\ owner = "alive" /\ stopAt = "idle"
  /\ \A c \in Conns : ~conn[c].running
  /\ owner' = IF acceptor = "none" THEN "destroyed" ELSE "destroying"
  /\ UNCHANGED <<conn, registry, acceptor, stopAt, ioRunning, timeout, crashed>>

-----------------------------------------------------------------------------
ReadHandlers(c) ==
  HeaderHandler(c) \/ ContentHandler(c) \/ SizeHandler(c) \/ ChunkHandler(c) \/ CrlfHandler(c)

Handlers(c) ==
  \/ AcceptHandler(c) \/ HandshakeHandler(c) \/ ReadHandlers(c)
  \/ RunWrite(c) \/ WriteHandler(c)

PartSteps(c) == RunPart(c) \/ PartHandler(c)

UserSteps(c) == SendPart(c) \/ ResourceReturns(c) \/ UserReleases(c)

HandlerReturns(c) == TooLargeReturns(c) \/ MoveSocket(c) \/ UpgradeReturns(c)

TimerHandlers(c) == TimerHandler(c) \/ StaleTimerHandler(c)

ConnStep(c) ==
  \/ Handlers(c) \/ PartSteps(c) \/ UserSteps(c) \/ HandlerReturns(c) \/ TimerHandlers(c)
  \/ AcceptCompletes(c) \/ NetCompletes(c) \/ PartCompletes(c) \/ TimerExpires(c)
  \/ Delete(c)

Next ==
  \/ \E c \in Conns : ConnStep(c)
  \/ StartServer \/ StopAcceptor \/ StopConnections \/ Destroy

Spec == Init /\ [][Next]_vars

\* The io_context runs what is queued and expires its timers, a thread finishes
\* the call it is in, and the kernel completes what a shutdown has ended.  The
\* peer may stay silent for ever, a resource function may never return, and
\* nobody need call start(), stop() or the destructor.
Fairness ==
  /\ \A c \in Conns :
       /\ WF_vars(Handlers(c)) /\ WF_vars(PartSteps(c))
       /\ WF_vars(HandlerReturns(c)) /\ WF_vars(Delete(c))
       /\ WF_vars(TimerExpires(c)) /\ WF_vars(TimerHandler(c)) /\ WF_vars(StaleTimerHandler(c))
       /\ WF_vars(conn[c].down /\ NetCompletes(c))
       /\ WF_vars(conn[c].down /\ PartCompletes(c))
  /\ WF_vars(StopConnections)

FairSpec == Spec /\ Fairness

-----------------------------------------------------------------------------
(* Properties *)

\* Types, and the shape of a connection: an operation exactly in the phases
\* that have one, parts of a response only while there is one, and a handler
\* on the stack only in user code.
TypeOK ==
  /\ conn \in [Conns -> Connection]
  /\ registry \subseteq Conns
  /\ acceptor \in {"none", "open", "closed"}
  /\ owner \in {"alive", "destroying", "destroyed"}
  /\ stopAt \in {"idle", "acceptorClosed"}
  /\ ioRunning \in BOOLEAN /\ timeout \in Timeouts /\ crashed \in BOOLEAN
  /\ \A c \in Conns :
       /\ (conn[c].op # "none") <=> (conn[c].phase \in OpPhases)
       /\ conn[c].op = "posted" => conn[c].phase = "write"
       /\ conn[c].running => conn[c].phase \in UserPhases
       /\ conn[c].held => conn[c].phase = "response"
       /\ conn[c].part # "none" => conn[c].queued > 0

\* stop() walks over raw pointers under connections->mutex: each of them must
\* be a connection not yet deleted whose socket has not been moved out.
RegistryIsValid ==
  \A c \in registry : conn[c].phase # "free" /\ ~conn[c].moved

\* The parts a user sends and the rest the deleter sends are never written at
\* the same time: two async_writes on one socket would mix their bytes.
OneWriter ==
  \A c \in Conns : conn[c].part # "none" => conn[c].phase = "response"

\* While the server listens some connection waits to be accepted, or has its
\* accept handler queued: a failed accept does not end the accept loop.
StillAccepting ==
  acceptor = "open" /\ owner = "alive" /\ ~crashed =>
    \E c \in Conns : conn[c].phase = "accept"

\* stop() closes every connection that is being served, the upgraded ones
\* apart, which it no longer owns; the only ones to escape are those whose
\* accept had completed without its handler having run (`missed`).
StopClosesServed ==
  [][stopAt = "acceptorClosed" /\ stopAt' = "idle" =>
       \A c \in Conns : conn'[c].phase \in Served \ {"upgrade"} => conn'[c].down \/ conn'[c].missed]_vars

\* Once the destructor is done no operation is started on behalf of the
\* server, although the io_context and the user's Responses outlive it.
NothingStartedAfterDestroy ==
  [][owner = "destroyed" =>
       \A c \in Conns : /\ conn'[c].op = "pending" => conn[c].op = "pending"
                        /\ conn'[c].part = "pending" => conn[c].part = "pending"
                        /\ conn'[c].running => conn[c].running]_vars

\* The timeout that is configured for a phase.
Timed(phase) ==
  IF phase \in {"handshake", "header"} THEN timeout.request ELSE timeout.content

\* A client that falls silent in its handshake or in the middle of a request, or
\* that does not take the parts or the rest of its response, is cut off by the
\* timer configured for that phase, however the handlers interleave; a stopped
\* io_service runs no timers.
SilentClientDropped ==
  \A c \in Conns :
    /\ conn[c].phase \in NetPhases /\ Timed(conn[c].phase) /\ conn[c].op = "pending"
         ~> conn[c].op # "pending" \/ ~ioRunning
    /\ timeout.content /\ conn[c].part = "pending"
         ~> conn[c].part # "pending" \/ ~ioRunning

\* After the destructor every connection is deleted in the end, even with no
\* timeout for content: its stop() ends all that is pending.  Not those whose Response
\* the user keeps, nor those an earlier stop() missed (`missed`).
DestroyDrains ==
  \A c \in Conns :
    owner = "destroyed" ~> \/ conn[c].phase = "free" \/ conn[c].held \/ conn[c].missed
                           \/ ~ioRunning \/ crashed

-----------------------------------------------------------------------------
(* What comments of the source say and the code does not do. *)

\* "Timeout on request completion", "on request/response content completion"
\* (server_http.hpp:366, 368): nothing but an expired timeout of what is going
\* on now, or stop(), closes a connection.
ClosedByItsOwnTimeout ==
  [][\A c \in Conns :
       ~conn[c].down /\ conn'[c].down => conn[c].timer = "due" \/ stopAt = "acceptorClosed"]_vars

\* "remove connection from connections" (server_http.hpp:740): once upgraded, a
\* connection is nobody's to close here; but its timer is still armed.
UpgradedIsLeftAlone ==
  \A c \in Conns : crashed => ~conn[c].moved

\* on_error is optional, "Called when an error occurs" (server_http.hpp:404):
\* a lost connection does not bring the server down when it is not set.
ErrorsAreSurvived == ~crashed

=============================================================================
