----------------------------- MODULE HttpClient ------------------------------
(***************************************************************************)
(* The requests of SimpleWeb::ClientBase (bhttp/client_http.hpp) and of    *)
(* Client<HTTP> and Client<HTTPS>, and the pool of connections they share: *)
(* how a request gets a connection, connects, is written, is answered in   *)
(* parts or as a stream of events, is sent again on a fresh connection     *)
(* when an idle one turns out to be dead, times out, and is told to the    *)
(* caller; stop() and the destructor.                                      *)
(*                                                                         *)
(* A request is a chain of handlers (`phase`, `op`).  The completion of an *)
(* operation and its handler are one step: a close() between the two has   *)
(* the effect of one just after the handler.  A handler is                 *)
(* divided where threads meet: the end of a request frees                  *)
(* its connection without the lock of the pool, then prunes the pool under *)
(* it, then calls the user; and connect() follows get_connection() and     *)
(* reconnect() when the lock has been released.                            *)
(*                                                                         *)
(* A Connection object is named by the request that makes it, and by       *)
(* whether get_connection() or reconnect() does.                           *)
(***************************************************************************)
EXTENDS Integers, FiniteSets

CONSTANTS Requests,       \* the calls of request(), each made once
          NoConn,
          Answers,        \* how the server may answer each request, besides at once
          Configs         \* the settings a client may have been given, and how it is used

ASSUME ClientAssumption ==
  /\ NoConn \notin Requests \X {1, 2}
  /\ Answers \in [Requests -> SUBSET {"body", "until", "size", "events"}]
  /\ Configs \subseteq [https : BOOLEAN, proxy : BOOLEAN, timeout : BOOLEAN,
                        timeout_connect : BOOLEAN, internal : BOOLEAN, sync : BOOLEAN,
                        interrupts : BOOLEAN]
  /\ \A c \in Configs : c.sync => c.internal

VARIABLES req,     \* the session of each request
          conn,    \* the Connection of each name
          pool,    \* `connections`
          owner,   \* "alive", "destroying" after handler_runner->stop(), "destroyed"
          config   \* which settings are not 0 or empty, whether the io_service is the client's
                   \* own; whether the synchronous request() is used (never both kinds), and
                   \* whether the user calls stop() and Response::close()

vars == <<req, conn, pool, owner, config>>

Conns == Requests \X {1, 2}
First(r) == <<r, 1>>
Second(r) == <<r, 2>>

ConnectPhases == {"resolve", "connect", "proxyWrite", "proxyRead", "handshake"}
ReplyPhases == {"body", "until", "size", "chunk", "crlf", "events"}
OpPhases == ConnectPhases \cup {"write", "header"} \cup ReplyPhases
HandlerPhases == {"start", "prune", "callback"}   \* a thread is inside
Active == OpPhases \cup HandlerPhases

\* A Connection as its constructor leaves it.
NewConn == [sock |-> "new",              \* not open; "down" after a close() that found it open
            in_use |-> FALSE, attempt_reconnect |-> TRUE,
            timer |-> "off",             \* "due" is expired with its handler queued
            stale |-> FALSE,             \* the handler of a replaced timer is queued
            stream |-> FALSE]            \* history: it has carried a stream of events

\* No object: not made yet, or deleted.
NoObject == [NewConn EXCEPT !.sock = "free"]

NotAsked == [phase |-> "idle", op |-> "none",
             conn |-> NoConn,            \* session->connection; when done, what the Response
                                         \* refers to weakly
             ec |-> FALSE, next |-> "done",   \* of the callback: an error; what follows it
             told |-> "unasked", sent |-> 0,  \* history: what the caller was told, writes
             caller |-> "none"]          \* of a synchronous request

Connection ==
  [sock : {"free", "new", "connecting", "open", "shut", "down"},
   in_use : BOOLEAN, attempt_reconnect : BOOLEAN,
   timer : {"off", "armed", "due"}, stale : BOOLEAN, stream : BOOLEAN]

Session ==
  [phase : Active \cup {"idle", "done", "dropped"},
   op : {"none", "pending", "failed", "aborted"},
   conn : Conns \cup {NoConn}, ec : BOOLEAN, next : ReplyPhases \cup {"done"},
   told : {"unasked", "asked", "part", "answered"}, sent : 0..2,
   caller : {"none", "waiting", "collecting", "thrown", "returned", "dangling"}]

Init ==
  /\ req = [r \in Requests |-> NotAsked]
  /\ conn = [k \in Conns |-> NoObject]
  /\ pool = {}
  /\ owner = "alive"
  /\ config \in Configs

-----------------------------------------------------------------------------
(* Helpers *)

\* What the pool and the sessions have let go of is deleted.
Leaves(q, c, p, o) ==
  LET kept == p \cup {q[r].conn : r \in {s \in Requests : q[s].phase \in Active}}
  IN  /\ pool' = p
      /\ conn' = [k \in Conns |-> IF k \in kept THEN c[k] ELSE NoObject]
      /\ req' = [r \in Requests |->
                   [q[r] EXCEPT !.conn = IF @ \in kept THEN @ ELSE NoConn]]
      /\ owner' = o
      /\ UNCHANGED config

Becomes(q, c, p) == Leaves(q, c, p, owner)

\* set_timeout(): the old timer is destroyed; its handler, once queued, stays.
SetTimer(c, enabled) ==
  [c EXCEPT !.stale = @ \/ c.timer = "due", !.timer = IF enabled THEN "armed" ELSE "off"]

CancelTimer(c) == SetTimer(c, FALSE)

\* Connection::close() shuts the socket down and then cancels what is pending: an operation is
\* aborted, or ends with eof in between.  A socket that is not
\* connected stays as it is: the resolver is not cancelled, and
\* async_connect goes on with the next address.
Closed(c) == [c EXCEPT !.sock = IF @ \in {"open", "shut"} THEN "down" ELSE @]

CloseAll(q, c, ks, p, o) ==
  LET cut == {r \in Requests : /\ q[r].conn \in ks /\ q[r].op = "pending"
                               /\ c[q[r].conn].sock \in {"open", "shut", "down"}}
  IN  \E aborted \in SUBSET cut :
        Leaves([r \in Requests |-> IF r \notin cut THEN q[r]
                                    ELSE [q[r] EXCEPT !.op = IF r \in aborted THEN "aborted" ELSE "failed"]],
                [k \in Conns |-> IF k \in ks THEN Closed(c[k]) ELSE c[k]], p, o)

\* The operation of r's chain ends well: what has arrived is read even after
\* the socket has been shut down.
Succeeds(r) ==
  /\ req[r].op = "pending"
  /\ req[r].phase \in {"write", "proxyWrite"} => conn[req[r].conn].sock \in {"open", "shut"}

\* It ends with an error: "aborted" is operation_aborted.
FailsWith(r, error) ==
  \/ req[r].op = error
  \/ error = "failed" /\ req[r].op = "pending" /\ conn[req[r].conn].sock # "open"

Fails(r) == FailsWith(r, "failed") \/ FailsWith(r, "aborted")

\* continue_lock() of a handler of r's chain.
Entered(r, phases) == owner = "alive" /\ req[r].phase \in phases

\* The next operation of the chain of s.
Start(s, phase) ==
  [s EXCEPT !.phase = phase, !.op = "pending", !.ec = FALSE, !.next = "done"]

\* session->callback(ec) up to its lock: at the end of the content the
\* connection becomes free for other requests.
Telling(s, ec, next) == [s EXCEPT !.phase = "prune", !.op = "none", !.ec = ec, !.next = next]

TellMore(r, next, p) == Becomes([req EXCEPT ![r] = Telling(@, FALSE, next)], conn, p)

TellEnd(r, ec, next, c, p) ==
  LET k == req[r].conn
  IN  Becomes([req EXCEPT ![r] = Telling(@, ec, next)],
              [c EXCEPT ![k] = [CancelTimer(@) EXCEPT !.in_use = FALSE]], p)

TellError(r) == TellEnd(r, TRUE, "done", conn, pool)

\* write(), under Config::timeout.
WriteUntimed(r, k, c) ==     \* mutant: no timer for the reply
  Becomes([req EXCEPT ![r] = [Start(req[r], "write") EXCEPT !.sent = @ + 1]], c, pool)

Write(r, k, c) ==
  Becomes([req EXCEPT ![r] = [Start(req[r], "write") EXCEPT !.sent = @ + 1]],
          [c EXCEPT ![k] = SetTimer(@, config.timeout)], pool)

ReadNext(r, phase) == Becomes([req EXCEPT ![r] = Start(@, phase)], conn, pool)
-----------------------------------------------------------------------------
(* Requests *)

GetAnyConnection(r) ==     \* mutant: in_use is not looked at
  /\ owner = "alive"
  /\ req[r].phase = "idle"
  /\ \E k \in IF pool # {} THEN pool ELSE {First(r)} :
       Becomes([req EXCEPT ![r] = [@ EXCEPT !.phase = "start", !.conn = k, !.told = "asked",
                                     !.caller = IF config.sync THEN "waiting" ELSE req[r].caller]],
               [conn EXCEPT ![k] = [(IF k \in pool THEN @ ELSE NewConn) EXCEPT
                                      !.in_use = TRUE, !.attempt_reconnect = TRUE]],
               pool \cup {k})

\* get_connection(): the first connection not in use, or a new one.
GetConnection(r) ==
  /\ owner = "alive"
  /\ req[r].phase = "idle"
  /\ LET unused == {k \in pool : ~conn[k].in_use}
     IN  \E k \in IF unused # {} THEN unused ELSE {First(r)} :
           LET c == IF k \in unused THEN conn[k] ELSE NewConn
           IN  Becomes([req EXCEPT ![r] = [@ EXCEPT !.phase = "start", !.conn = k, !.told = "asked",
                                             !.caller = IF config.sync THEN "waiting" ELSE req[r].caller]],
                       [conn EXCEPT ![k] = [c EXCEPT !.in_use = TRUE, !.attempt_reconnect = TRUE]],
                       pool \cup {k})

\* connect(): a socket that is open is used as it is.
Connect(r) ==
  /\ req[r].phase = "start"
  /\ LET k == req[r].conn
     IN  \/ /\ conn[k].sock = "new"
            /\ Becomes([req EXCEPT ![r] = Start(@, "resolve")],
                       [conn EXCEPT ![k] = SetTimer(@, config.timeout_connect)], pool)
         \/ /\ conn[k].sock # "new"
            /\ Write(r, k, conn)

\* What follows a step of connect().
AfterConnect(phase) ==
  CASE phase = "resolve" -> "connect"
    [] phase = "connect" -> IF ~config.https THEN "write"
                            ELSE IF config.proxy THEN "proxyWrite" ELSE "handshake"
    [] phase = "proxyWrite" -> "proxyRead"
    [] phase = "proxyRead" -> "handshake"
    [] phase = "handshake" -> "write"

\* The handlers of connect() and handshake().
ConnectHandler(r) ==
  /\ Entered(r, ConnectPhases)
  /\ Succeeds(r)
  /\ LET k == req[r].conn
         next == AfterConnect(req[r].phase)
         sock == CASE next = "connect" -> "connecting"
                   [] req[r].phase = "connect" -> "open"
                   [] OTHER -> conn[k].sock
         c == [conn EXCEPT ![k] = [CancelTimer(@) EXCEPT !.sock = sock]]
     IN  \/ next = "write" /\ Write(r, k, c)
         \/ /\ next # "write"
            /\ Becomes([req EXCEPT ![r] = Start(@, next)],
                       [c EXCEPT ![k] = SetTimer(@, config.timeout_connect)], pool)

\* A step of connect() fails, or the answer of the proxy is malformed or a refusal.  A
\* socket that has been opened remains open, but is of no use.
ConnectFails(r) ==
  /\ Entered(r, ConnectPhases)
  /\ Fails(r) \/ (req[r].phase = "proxyRead" /\ Succeeds(r))
  /\ TellEnd(r, TRUE, "done",
             [conn EXCEPT ![req[r].conn].sock = IF @ = "new" THEN @ ELSE "down"], pool)

WriteHandler(r) ==
  /\ Entered(r, {"write"})
  /\ Succeeds(r)
  /\ ReadNext(r, "header")

\* reconnect(): a fresh connection in the place of the one that failed, not to be replaced
\* once more; an error if that has left the pool.
Reconnect(r, again) ==
  LET k == req[r].conn
      n == Second(r)
  IN  \/ k \notin pool /\ TellError(r)
      \/ /\ k \in pool
         /\ Becomes([req EXCEPT ![r] = [@ EXCEPT !.phase = "start", !.op = "none", !.conn = n]],
                    [conn EXCEPT ![n] = [NewConn EXCEPT !.in_use = TRUE, !.attempt_reconnect = again]],
                    (pool \ {k}) \cup {n})

RetryAlways(r) == Reconnect(r, TRUE)     \* mutant: the new connection may be replaced as well

\* A failed write or first read, which has not been cancelled.
Retry(r) ==
  IF conn[req[r].conn].attempt_reconnect THEN Reconnect(r, FALSE) ELSE TellError(r)

FirstFailure(r) ==
  /\ Entered(r, {"write", "header"})
  /\ \/ FailsWith(r, "failed") /\ Retry(r)
     \/ FailsWith(r, "aborted") /\ TellError(r)

\* async_read_until fails on an open connection when the buffer is full.
BufferFull(r) ==
  /\ Entered(r, {"header", "size", "events"})
  /\ req[r].op = "pending"
  /\ IF req[r].phase = "header" THEN Retry(r) ELSE TellError(r)

\* read(): the header says how the content comes.  Everything may be there
\* with it, or the header may be malformed.
HeaderReadsOn(r) ==     \* mutant: no return after the error of a malformed header
  /\ Entered(r, {"header"})
  /\ Succeeds(r)
  /\ LET c == [conn EXCEPT ![req[r].conn].attempt_reconnect = TRUE]
     IN  \/ TellEnd(r, TRUE, "body", c, pool)
         \/ TellEnd(r, FALSE, "done", c, pool)

HeaderHandler(r) ==
  /\ Entered(r, {"header"})
  /\ Succeeds(r)
  /\ LET k == req[r].conn
         c == [conn EXCEPT ![k].attempt_reconnect = TRUE]
     IN  \/ \E ec \in BOOLEAN : TellEnd(r, ec, "done", c, pool)
         \/ \E phase \in Answers[r] \ {"events"} :
              Becomes([req EXCEPT ![r] = Start(@, phase)], c, pool)
         \/ /\ "events" \in Answers[r]
            /\ TellEnd(r, FALSE, "events", [c EXCEPT ![k].stream = TRUE], pool)

\* read_content(): content of a known length, in parts when the buffer is full.
BodyHandler(r) ==
  /\ Entered(r, {"body"})
  /\ Succeeds(r)
  /\ TellEnd(r, FALSE, "done", conn, pool) \/ TellMore(r, "body", pool)

\* read_content() until the server closes: clean_error_code() makes success of
\* eof; the connection is taken out of the pool at the first success.
UntilHandler(r) ==
  /\ Entered(r, {"until"})
  /\ \/ Succeeds(r) \/ FailsWith(r, "failed")
  /\ TellMore(r, "until", pool \ {req[r].conn})

UntilEnds(r) ==
  /\ Entered(r, {"until"})
  /\ \/ FailsWith(r, "failed") /\ TellEnd(r, FALSE, "done", conn, pool \ {req[r].conn})
     \/ Fails(r) /\ TellError(r)

\* read_chunked_transfer_encoded(): what has been collected is told first when
\* the chunk would not fit; the chunk may have come with its size, and the next size too.
SizeHandler(r) ==
  /\ Entered(r, {"size"})
  /\ Succeeds(r)
  /\ \/ \E next \in {"chunk", "crlf", "size"} : ReadNext(r, next) \/ TellMore(r, next, pool)
     \/ \E ec \in BOOLEAN : TellEnd(r, ec, "done", conn, pool)

ChunkHandler(r) ==
  /\ Entered(r, {"chunk", "crlf"})
  /\ Succeeds(r)
  /\ ReadNext(r, IF req[r].phase = "chunk" THEN "crlf" ELSE "size")

\* read_server_sent_event()
EventHandler(r) ==
  /\ Entered(r, {"events"})
  /\ Succeeds(r)
  /\ TellMore(r, "events", pool)

\* The error branch of the handlers that read content, chunks and events.
ContentFails(r) ==
  /\ Entered(r, ReplyPhases \ {"until"})
  /\ Fails(r)
  /\ TellError(r)

\* The locked part of session->callback: the own connection goes if there was
\* an error, and all that are unused but one.  Then the user is called.
Told(s) == IF s.ec \/ s.next = "done" THEN "answered" ELSE "part"

CallUser(r, p) ==
  Becomes([req EXCEPT ![r] = [@ EXCEPT !.phase = "callback", !.told = Told(req[r])]], conn, p)

PruneTwo(r) ==     \* mutant: two unused connections are kept
  /\ req[r].phase = "prune"
  /\ LET left == IF req[r].ec THEN pool \ {req[r].conn} ELSE pool
         unused == {k \in left : ~conn[k].in_use}
     IN  \/ unused = {} /\ CallUser(r, left)
         \/ \E k, m \in unused : CallUser(r, (left \ unused) \cup {k, m})

PruneOthers(r) ==     \* mutant: in_use is not looked at
  /\ req[r].phase = "prune"
  /\ LET left == IF req[r].ec THEN pool \ {req[r].conn} ELSE pool
     IN  \/ left = {} /\ CallUser(r, left)
         \/ \E k \in left : CallUser(r, {k})

PruneCancels(r) ==     \* mutant: cancel_timeout() comes after the connection was freed
  /\ req[r].phase = "prune"
  /\ LET left == IF req[r].ec THEN pool \ {req[r].conn} ELSE pool
         unused == {k \in left : ~conn[k].in_use}
         told == [req EXCEPT ![r] = [@ EXCEPT !.phase = "callback", !.told = Told(req[r])]]
         off == [conn EXCEPT ![req[r].conn] = CancelTimer(@)]
     IN  \/ unused = {} /\ Becomes(told, off, left)
         \/ \E k \in unused : Becomes(told, off, (left \ unused) \cup {k})

Prune(r) ==
  /\ req[r].phase = "prune"
  /\ LET left == IF req[r].ec THEN pool \ {req[r].conn} ELSE pool
         unused == {k \in left : ~conn[k].in_use}
     IN  \/ unused = {} /\ CallUser(r, left)
         \/ \E k \in unused : CallUser(r, (left \ unused) \cup {k})

\* The user's callback returns, and the chain goes on or ends.
Continued(s) == IF s.next = "done" THEN [s EXCEPT !.phase = "done", !.ec = FALSE] ELSE Start(s, s.next)

CallbackReturns(r) ==
  /\ ~config.sync
  /\ req[r].phase = "callback"
  /\ Becomes([req EXCEPT ![r] = Continued(@)], conn, pool)

\* The callback of sync_request(): an error, or parts that do not fit together,
\* throw in the caller; the end returns the response, and the frame with the promise is
\* gone; after an exception the callback does nothing.
SyncCallback(r) ==
  /\ config.sync
  /\ req[r].phase = "callback"
  /\ LET s == req[r]
         caller == CASE s.caller = "thrown" -> "thrown"
                     [] s.caller \in {"returned", "dangling"} -> "dangling"
                     [] s.ec -> "thrown"
                     [] s.next \in {"done", "events"} /\ ~s.ec -> "returned"
                     [] OTHER -> "collecting"
     IN  \/ Becomes([req EXCEPT ![r] = [Continued(@) EXCEPT !.caller = caller]], conn, pool)
         \/ /\ s.caller = "collecting" /\ ~s.ec
            /\ CloseAll([req EXCEPT ![r].caller = "thrown"], conn, {s.conn}, pool, owner)

-----------------------------------------------------------------------------
(* The network, timers, and the user's other calls *)

\* The server closes a connection, or the network does.
PeerCloses(k) ==
  /\ conn[k].sock = "open"
  /\ Becomes(req, [conn EXCEPT ![k].sock = "shut"], pool)

TimerExpires(k) ==
  /\ conn[k].timer = "armed"
  /\ Becomes(req, [conn EXCEPT ![k].timer = "due"], pool)

\* The handler of set_timeout(): it does not ask for continue_lock().
TimerHandler(k) ==
  /\ conn[k].timer = "due"
  /\ CloseAll(req, [conn EXCEPT ![k].timer = "off"], {k}, pool, owner)

StaleTimerHandler(k) ==
  /\ conn[k].stale
  /\ CloseAll(req, [conn EXCEPT ![k].stale = FALSE], {k}, pool, owner)

\* Response::close(), by a user who has been given a Response and may keep it.
CloseResponse(r) ==
  /\ config.interrupts
  /\ req[r].told \in {"part", "answered"}
  /\ req[r].conn # NoConn
  /\ CloseAll(req, conn, {req[r].conn}, pool, owner)

Stop ==
  /\ config.interrupts
  /\ owner = "alive"
  /\ CloseAll(req, conn, pool, {}, owner)

\* A handler that continue_lock() turns away returns, and its session is deleted.
DroppedHandler(r) ==
  /\ owner # "alive"
  /\ req[r].phase \in OpPhases
  /\ Succeeds(r) \/ Fails(r)
  /\ LET k == req[r].conn
     IN  Becomes([req EXCEPT ![r] = [@ EXCEPT !.phase = "dropped", !.op = "none"]],
                 [conn EXCEPT ![k] = IF req[r].phase \in ConnectPhases THEN CancelTimer(@) ELSE @], pool)

\* ~ClientBase(): handler_runner->stop() waits for the handlers, and no thread may be in a
\* call of the client; then stop(); then an own io_service goes, with all handlers.
DestroyStops ==
  /\ owner = "alive"
  /\ \A r \in Requests :
       req[r].phase \notin HandlerPhases /\ req[r].caller \notin {"waiting", "collecting"}
  /\ owner' = "destroying"
  /\ UNCHANGED <<req, conn, pool, config>>

DestroyCloses ==
  /\ owner = "destroying"
  /\ \/ ~config.internal /\ CloseAll(req, conn, pool, {}, "destroyed")
     \/ /\ config.internal
        /\ Leaves([r \in Requests |-> IF req[r].phase \in OpPhases
                                        THEN [req[r] EXCEPT !.phase = "dropped", !.op = "none"]
                                        ELSE req[r]],
                  conn, {}, "destroyed")

-----------------------------------------------------------------------------
Success(r) ==
  \/ ConnectHandler(r) \/ WriteHandler(r) \/ HeaderHandler(r) \/ BodyHandler(r) \/ UntilHandler(r)
  \/ SizeHandler(r) \/ ChunkHandler(r) \/ EventHandler(r)

Failure(r) == ConnectFails(r) \/ FirstFailure(r) \/ UntilEnds(r) \/ ContentFails(r)

Inside(r) == Connect(r) \/ Prune(r) \/ CallbackReturns(r) \/ SyncCallback(r)

Timer(k) == TimerExpires(k) \/ TimerHandler(k) \/ StaleTimerHandler(k)

Next ==
  \/ \E r \in Requests :
       \/ GetConnection(r) \/ Inside(r) \/ Success(r) \/ Failure(r)
       \/ BufferFull(r) \/ DroppedHandler(r) \/ CloseResponse(r)
  \/ \E k \in Conns : PeerCloses(k) \/ Timer(k)
  \/ Stop \/ DestroyStops \/ DestroyCloses

Spec == Init /\ [][Next]_vars

\* Handlers go on once they run, and user callbacks return; timers expire.
\* What waits on a socket that is not open to the server ends at some time: the resolver
\* and connect() by the limits of the system, a read when what had arrived has been read.
Fairness ==
  /\ \A r \in Requests :
       /\ WF_vars(Inside(r))
       /\ SF_vars(Failure(r))
  /\ WF_vars(\E k \in Conns : Timer(k))

FairSpec == Spec /\ Fairness

-----------------------------------------------------------------------------
(* Properties *)

\* Types; a session has an operation in the phases that wait for one, and a
\* request is written twice at most (client_http.hpp:629-646).
TypeOK ==
  /\ req \in [Requests -> Session]
  /\ conn \in [Conns -> Connection]
  /\ pool \subseteq {k \in Conns : conn[k].sock # "free"}
  /\ owner \in {"alive", "destroying", "destroyed"}
  /\ config \in Configs
  /\ \A r \in Requests : (req[r].op # "none") <=> (req[r].phase \in OpPhases)

\* Two requests never run on one connection (in_use, client_http.hpp:473-484), although
\* in_use is cleared without the lock and while the request that clears
\* it has still to prune the pool; but for connections that have carried a stream of events,
\* which are free for others from its opening on (:613, :239-242).
OneRequestPerConnection ==
  \A r, s \in Requests :
    /\ r # s /\ req[r].conn = req[s].conn
    /\ req[r].phase \in OpPhases \cup {"start"}
    /\ req[s].phase \in OpPhases \cup {"start"}
    => conn[req[r].conn].stream

\* The pool keeps one unused connection (client_http.hpp:246-261), and one more for
\* every request that has freed its connection and not pruned the pool yet.
OneKeptOpen ==
  Cardinality({k \in pool : ~conn[k].in_use})
    <= 1 + Cardinality({r \in Requests : req[r].phase = "prune"})

\* stop() reaches what is in the pool (client_http.hpp:373-379).  A connection
\* that a request is using leaves the pool only closed, or not connected yet, or in one of three ways
\* by which stop() loses sight of it: it is read until the server closes it, it has
\* carried events, or another request ends with an error that used it before
\* and had freed it just when this one took it.
LeavesPoolClosed ==
  [][\A r \in Requests : LET k == req[r].conn IN
       /\ req[r].phase \in OpPhases /\ req'[r].conn = k
       /\ k \in pool /\ k \notin pool'
       => \/ conn'[k].sock = "down"
          \/ conn[k].sock \in {"new", "connecting"}
          \/ req[r].phase = "until"
          \/ conn[k].stream
          \/ \E s \in Requests : req[s].phase = "prune" /\ req[s].ec /\ req[s].conn = k]_vars

\* What a caller of request() is promised: module Exchange.
Promise == INSTANCE Exchange WITH
  told <- [r \in Requests |-> req[r].told],
  sent <- [r \in Requests |-> req[r].sent],
  alive <- owner = "alive"

\* The client implements what Exchange promises: whatever retries, parts, timeouts, stop()
\* and the destructor do, the end of a reply is told at most once and after its parts, a
\* request is written twice at most, and not again once something of its reply was told.
\* (That the end comes is EveryRequestAnswered.)
KeepsPromise == Promise!Spec

\* With both timeouts set, whoever waits on an open socket does so under a timer, although timers
\* are cancelled when a request ends and its connection may serve another by
\* then (client_http.hpp:314-320, :473-484); streams of events share theirs.  It says nothing
\* of waits for the resolver and for connect(), which close() of their timer does not end.
WaitsUnderTimer ==
  config.timeout /\ config.timeout_connect =>
    \A r \in Requests : LET k == req[r].conn IN
      req[r].op = "pending" /\ conn[k].sock = "open" /\ ~conn[k].stream
      => conn[k].timer \in {"armed", "due"}

\* With both timeouts set, every request is told the end or an error, whatever the
\* server does or fails to do, unless the client is destroyed (set_timeout, :168-181).  Without
\* streams of events: the end of one cancels the timer of whoever shares its connection.
EveryRequestAnswered ==
  \A r \in Requests :
    (config.timeout /\ config.timeout_connect /\ req[r].told = "asked")
      ~> (req[r].told = "answered" \/ owner # "alive")

\* "Set connect timeout in seconds. Default value: 0 (Config::timeout is then used
\* instead)" (client_http.hpp:138): a request ends when Config::timeout is set.
ConnectUsesTimeout ==
  \A r \in Requests :
    (config.timeout /\ req[r].told = "asked") ~> (req[r].told # "asked" \/ owner # "alive")

\* "When requesting Server-Sent Events: will throw on error::eof" (client_http.hpp:216):
\* the synchronous request() returns only by what the last call of its callback says, so
\* that no call finds its frame gone.
CallerIsWaiting == \A r \in Requests : req[r].caller # "dangling"

=============================================================================
