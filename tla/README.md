# A TLA+ model of bhttp

bhttp is a header-only C++ library (`bhttp/*.hpp`) with an HTTP/HTTPS server and
client, a WebSocket server and client, and a facade (`bhttp::App`) that puts an
HTTP server, a WebSocket server, static files, uploads and timers on one
`io_service`. It is built on asio: everything of interest happens in completion
handlers, which any thread of the `io_service` runs, and the objects these
handlers work on are kept alive by `shared_ptr`s captured in closures. What is
hard in it is therefore not what a function computes, but what happens between
two handlers, and these specifications are about that.

- [The system](#the-system)
- [The modules, and how they correspond to the code](#the-modules-and-how-they-correspond-to-the-code)
- [The runs](#the-runs)
- [Fairness](#fairness)
- [The proofs](#the-proofs)
- [What the code does not keep](#what-the-code-does-not-keep)
- [What is not modelled](#what-is-not-modelled)
- [The plan](#the-plan)
- [How to run it](#how-to-run-it)

## The system

### Components

| Component | Source | State | Operations | What makes it correct |
|---|---|---|---|---|
| ScopeRunner | `utility.hpp:429-473` | one atomic `count` | `continue_lock()`, `~SharedLock()`, `stop()` | no handler is inside once `stop()` has returned; the gate never opens again; `stop()` returns |
| Send queue | `server_http.hpp:76-166`, `server_ws.hpp:151-230`, `client_ws.hpp:151-240` | `send_queue`, the write going on | `send()`, the posted closure, the completion handler, callbacks | one write at a time, order kept, every callback called once unless a write hangs |
| HTTP(S) server | `server_http.hpp`, `server_https.hpp` | `connections`, the acceptor, per connection: socket, timer, request, response | `start`, `accept`, `read`, `find_resource`, `write`, `stop`, destructor | no freed or moved-out connection is touched; one response at a time on a socket; accepting goes on; a silent client is dropped, where a timeout guards the phase; the destructor leaves nothing running |
| WebSocket server (WS, WSS) | `server_ws.hpp`, `server_wss.hpp` | `endpoint.connections`, the acceptor, per connection: socket, one timer, `close_sent`, `send_queue`, `fragmented_message` | `accept`, `upgrade`, handshake, message reads, `send`, `send_close`, `stop`, `stop_accept`, destructor | the listed connections are the open ones; the user hears once that a connection ended; silent peers are dropped; `stop()` drains |
| HTTP(S) client | `client_http.hpp`, `client_https.hpp` | `connections` (a pool), `in_use`, `attempt_reconnect` per connection, sessions, timers | `request`, `get_connection`, `connect`, reads of the reply, `stop`, destructor | one request on a connection at a time; the caller hears of the end at most once, and in the end, if a timeout is configured; a reconnect is done at most once |
| WebSocket client (WS, WSS) | `client_ws.hpp`, `client_wss.hpp` | `connection`, timer, `close_sent`, `send_queue`, fragments | `start`, `connect`, `upgrade`, message reads, `send`, `send_close`, `stop`, destructor | the user hears once of the end; a silent server is dropped; what `stop()` closes goes away; the bytes read past the handshake count |
| Server lifecycle | `server_http.hpp:420-519`, `server_ws.hpp:375-468` | `start_stop_mutex`, `threads`, the acceptor, `internal_io_service` | `start`, `stop`, destructor, from the user's threads and from handlers | every call returns; a stopped server can be started again |
| App facade | `app.hpp`, `client.hpp` | the servers, the `io_service`, timers | `serve_dir`, `ws`/`emplace_ws`, `upload`, `cron_job`, `run` | the socket is handed from the HTTP to the WebSocket server once; a file is sent as long as its header says |
| Upload handler | `upload_handler.hpp` | `writers_`, by file name | `write` | a file that no other chunks of its name overlapped is what its client sent, chunk by chunk |
| Message parsers | `utility.hpp:56-428` | none | `Percent`, `QueryString`, `HttpHeader`, `RequestMessage`, `ResponseMessage` | they invert each other on legal inputs |
| Utilities | `util.hpp`, `crypto.hpp`, `status_code.hpp`, `mutex.hpp`, `asio_compatibility.hpp` | none | pure functions, aliases | – |

`PROJECT.json` lists the same components with the state of their models.

### How they interact

* **Handlers and owners.** A server or client and its connections share a
  `ScopeRunner`. Every completion handler starts with `continue_lock()` and does
  nothing when it is refused; the owner's destructor calls `stop()`, which waits
  until nobody is inside. `ServerBase` and the clients do so; `SocketServerBase`
  does not (see below).
* **Connections and sessions.** The closures of asynchronous operations hold a
  `Session` or the `Connection`; when the last reference goes the connection is
  deleted, by a custom deleter that first takes it out of the server's set, so that
  `stop()` may walk over raw pointers.
* **Responses.** A `Response` belongs to the resource function, to whoever it
  gives a copy to, and to the closures of `send()`. When the last of them lets
  go, its deleter posts what is left in the stream buffer.
* **Strands.** The operations of a connection go through its strand; the
  resource function, `send()`, `send_close()`, `stop()` and the destructor are
  called from anywhere.
* **Upgrade.** The HTTP server's `on_upgrade` moves the socket into a new
  WebSocket connection (`app.hpp:474-479`), which `SocketServerBase::upgrade`
  takes over.
* **Files.** `upload()` writes and `serve_dir()` reads the same directory in the example
  (`examples/upload.hpp`); nothing but the file system is between them.
* **Threads.** `start()` runs the `io_service` on the caller's thread and a pool, and joins the pool
  under the mutex that `stop()` takes.
* **Timers.** A connection has one timer. Setting it again cancels the old one,
  but a handler that has expired and is queued runs all the same, with success.

### What is hard

The hazards are listed one by one, with the line where each bites, in
`PROJECT.json` under `hazards`, next to the properties that cover them: handlers
that race the destructor; `stop()` that races accepting, handshakes and upgrades; two threads
that send on one queue; a write that fails with messages behind it; a timer whose
handler is queued when it is replaced; one timer that serves two chains of
operations; and ends of a connection that come from five sides at once.

## The modules, and how they correspond to the code

    ScopeGate  <---implemented by---  ScopeRunner        Outbox  <---implemented by---  SendQueue
                                          |                                                |
                       the lock every handler takes                     the chain of writes of a connection
                                          |                                                |
                                          +-- HttpServer, WsServer, HttpClient, WsClient --+
                                          |
                                    ServerLifecycle

    Exchange  <---implemented by---  HttpClient          WsFrames          AppFiles

The larger modules do not instantiate the two small ones; they use what these show. A handler of `HttpServer` tests `GateOpen` in the step in which it runs, and the
destructor's step waits until no handler is on a stack: this is `ScopeGate`,
which `ScopeRunner` implements; so is it in `HttpClient` (`Entered`, `DestroyStops`). The chain of
writes of a server is the state of one operation and the length of the queue (`part` and `queued` in `HttpServer`, `writer` and
`queued` in `WsServer`): `SendQueue` shows that it is one chain.

**ScopeRunner** has one action per atomic access of `count`: the load, the
compare-exchange of `continue_lock()` that succeeds, that fails, that is not
tried, the decrement, and the exchange of `stop()`. Handlers in `Recurring` come
again, as a keep-alive connection's do. A spurious failure of
`compare_exchange_weak` stutters. **ScopeGate** says what this is for: handlers
enter and leave while the gate is open, and it is closed once, when it is empty.

**SendQueue** follows a message from `send()` through `send_queue`, the closure
posted to the strand, `async_write`, its completion handler and the callback. A
critical section of `send_queue_mutex` is one step; callbacks, which are called
after the unlock, are steps of their own. `Break` is everything that makes
writes fail, `Stop` the owner's `handler_runner->stop()`. **Outbox** says what
the caller of `send()` may rely on, and has no queue and no handlers.

**HttpServer** has a slot for each `Connection` object, with a `phase` (what its
chain of operations is doing), the state of that operation (`op`: posted to the
strand, pending, completed with its handler queued), the parts of its response that are queued (`queued`) and the
state of the write of the first (`part`; `AfterPart` posts the next, or lets go of the Response), its timer, and the references to its `Response` (`running`: the
resource function is on the stack, `held`: the user kept a copy). `registry` is
`connections->set`. Every handler is one action, up to its return, with
everything it calls: `AcceptHandler` is the handler of `async_accept` with
`accept()` called again and the first `read()`. User functions, the upgrade and
the answer 413 take several steps because other threads run meanwhile. `stop()`
is two steps, because it closes the acceptor before it takes the mutex of the
connections. `Tls` adds the handshake of `server_https.hpp`.
`timeout` says which of `timeout_request` and `timeout_content` are set, and is chosen once, among `Timeouts`.
What a header says is data: a handler chooses any of its outcomes (malformed, too
large, more to read, chunked, complete), and `KeepsAlive` is the decision of
`server_http.hpp:775-793` over the three facts it depends on.

**WsServer** is built the same way: `phase` and `op` for the chain of reads,
`writer` and `queued` for the send queue, `told` for what the user has been told,
`closes` for the close frames sent, `listed` for `endpoint.connections`. The
contents of frames are data: `ContentHandler` chooses among close, ping, pong or
fragment, and message. `send_close()` is two steps, because its test and its set of
`close_sent` are two accesses. The model ends at `Destroy`: what handlers
do after it, with a dangling `this`, is undefined.

**HttpClient** follows each call of `request()`: `GetConnection` takes a connection from the pool,
`Connect` connects it if it is not open, and a chain of handlers writes the request and reads the reply,
whole, until the server closes, in chunks, or as a stream of events. `FirstFailure` and `Retry`
are the one reconnect of a connection that turns out to be dead. The completion of an operation
and its handler are one step here: a `close()` between the two does what
one just after the handler does. A handler is divided where threads meet: the end of a request frees its
connection without the lock of the pool (`TellEnd`), then prunes the pool under it
(`Prune`), then calls the user (`CallbackReturns`, `SyncCallback`); and `connect()` comes after
the pool's lock has been released (`Connect`). What the header says is data, chosen
by `HeaderHandler` among `Answers`. A `Connection` object is named `<<r, 1>>` when
`get_connection()` makes it for request `r` and `<<r, 2>>` when `reconnect()` does;
`Leaves` deletes those that neither the pool nor a session refers to.
**Exchange** is what the caller of `request()` is never to see otherwise: parts of the
reply and then at most one end, at most two writes, nothing after the client is gone. It has
no connections, and no fairness: that the end comes is not part of it, for handlers that the destructor
turns away (`DroppedHandler`, `DestroyCloses`) do lose it. `EveryRequestAnswered` says when it comes.

**WsFrames** is the reader of the WebSocket client, `read_message()` and `read_message_content()`, down to
bytes. The read of the handshake may have brought any number of bytes of the first frames, and each later
read takes from the socket only what is missing, by counting (`num_additional_bytes`). Bytes are
numbered in the order they are sent and a streambuf is an interval of them (`head`, `tail`), which is all one needs
to say where a part of a frame is taken from; what the frames say is fixed in `stream`. A size is counted modulo `Word`
where the code adds sizes. Who closes the connection, timers and the queue of writes are not here: any read may
fail (`ReadFails`).

**WsClient** has the connection that `start()` makes, built as in `WsServer`:
`phase` and `op` for its chain of operations, from the resolver over the proxy's CONNECT, the TLS handshake and the
upgrade to the reads of messages, the chain of writes, one timer, what the user was told.
`connection` is the member of that name, which `stop()` closes and the next `start()` replaces, by a connection
the model follows or by one that it does not (`Other`). Other than at
the server, the idle timer first sends a close frame and sets itself again
(`TimerSendsClose`), and timer handlers do without `continue_lock()`. Frames are data here, as in `WsServer`; `WsFrames` has them.

**AppFiles** is `UploadHandler::write()` and `FileSvr` over the files they share. A request of an upload is one chunk;
`write()` is three steps, the switch, the write, and the end of the local `writer`, which is declared before
the lock and so destroyed after it. The file buffer of an `ofstream` is in the model (`buffer`): a
chunk reaches the file when it is written or when the stream is destroyed. An upload is what the client of the
repository (`test/spa/src/util.js`) sends, first, middle and last chunk, each after the answer to the one before; it
may give up at any time. A stray chunk (`stray`, `OtherChunk`) is a POST on its own, at any time and of any name, with the
flag of a middle chunk or with one that the switch has no case for: the first chunk was lost, went to an earlier process, or the
client is another one. A first chunk alone is an upload given up, a last one alone an upload of one chunk, so that these make up
all sequences of requests. A POST whose body has no NUL is not there: `substr()` throws before the mutex is taken. A
length is counted in chunks, modulo `Word`.

**ServerLifecycle** has the threads of the user's and those of the pool, and where each of them is in `start()`,
`stop()`, the destructor or a handler. `mutex` is the thread that keeps `start_stop_mutex` from one step to the next: only
`start()` while it joins. Handlers hold the lock of the `ScopeRunner` (`holders`) and may call `stop()`, or the
destructor if the `io_service` is the user's. The pool of the WebSocket server is the same code.

A slot of a server is used again once its object has been deleted. The fields `missed`,
`unlisted`, `stream`, `told` and `sent` are history variables, marked as such where they are declared.

`PROJECT.json` maps each definition to the lines it stands for. Operators with a
comment `\* mutant:` are variants of the definition after them with a plausible
mistake; nothing uses them except the entries of `PROJECT.json` that name a
property each of them breaks.

## The runs

Every configuration is in a `.cfg` of the same name. Those that turn the deadlock
check off do so because the system may come to rest: everything sent, or the
owner destroyed.

| Run | Instance | Shows |
|---|---|---|
| `ScopeRunner` | 3 handlers, 2 of them recurring, 2 callers of `stop()` | no handler is inside once a `stop()` returned; `stop()` and `continue_lock()` do not spin for ever; refinement of `ScopeGate` |
| `SendQueue` | 3 messages, 2 with a callback, failures and destruction anywhere | one write, of the front; no message forgotten; refinement of `Outbox` (order, callbacks at most once); callbacks come, unless a write hangs |
| `HttpServer` | 2 slots, HTTPS, upgrades, the request timeout with and without that of content, up to 2 parts queued, the user's `io_service` | registry, single writer, accept loop, what `stop()` closes, silent clients, destructor, drain |
| `WsServer` | 1 slot, WSS, upgrades, all timers, the user's `io_service` | the listed are the open; one end told; silent peers; `stop()` drains |
| `HttpClient` | 2 requests; asynchronous over HTTP on the user's `io_service`, or synchronous over HTTPS through a proxy; `stop()` and `Response::close()` | one request on a connection, the pool, what leaves it, refinement of `Exchange` (parts, then the end at most once) |
| `HttpClient_timeouts` | 2 requests, both timeouts, replies that come at once or never | whoever waits does so under a timer; every request is answered |
| `WsFrames` | all sequences of up to 3 of 9 frames, any part of them read by the handshake, limit 4, sizes modulo 24 | the reader is in step with the frames; messages and pongs are those that were sent |
| `WsClient` | 1 slot, and another connection in its place; WSS through a proxy on the user's `io_service` with both timeouts, or WS on the client's own with that of requests | one end told; a silent server is dropped; what `stop()` closes ends |
| `AppFiles` | 2 uploads of 1 or 3 chunks or stray chunks, on 2 names, a download, 9 kinds of Range, buffers of 1 chunk, sizes modulo 16 | an answered file is whole, and the writer is there, for an upload that nothing overlaps; the length promised is sent |
| `ServerLifecycle` | 2 threads of the user's, 2 of the pool, 5 calls, 3 handlers, both kinds of `io_service` | a stopped server can be started again; every call returns |
| `HttpServer_upgrade`, `HttpClient_sync` | as small as the disagreement allows | one disagreement each between the code and its own comments, see below |

### The bounds, and why they are enough

* *ScopeRunner.* Handlers interact through `count` alone. Two recurring handlers
  suffice for one to change `count` between the load and the exchange of the
  other, or of `stop()`; the third is refused or not independently of
  them. Two stoppers show the second finding the scope closed. The theorems
  hold for any number.
* *SendQueue.* Three messages give a queue with a front, a next and a last, so
  that the erase, the post of the next and a `clear()` of several all happen; one
  message has no callback. The theorems hold for any set of messages.
* *HttpServer.* Connections share the registry, the acceptor, the gate and
  `stop()`. With two slots one is served while another is accepted, and
  slots are used again, so a sequence of any length of connections occurs. The safety properties
  are proved for any number of slots and any `MaxParts`. Two queued parts are one that is written and
  one that its handler posts. With `timeout_content` every phase after the handshake is under a timer; without it only the
  handshake and the header are, and only `stop()` in the destructor ends the rest.
* *WsServer.* Connections meet only in `stop()`, which does the same to each of
  the set, and the accept loop is modelled beside the slots, so one slot has all
  the interleavings of one connection with itself: two chains, a timer, user
  threads, stop. `MaxQueued = 1` lets a frame be in flight and a close frame of the
  user and one of the reader be behind it. `TypeCorrect`, `ListedExactly` and
  `EndToldOnce` are proved for any number of connections and any `MaxQueued`.
* *HttpClient.* Requests meet in the pool and in the connection that passes from one
  to the other. With two, one takes a connection while the other frees it, prunes the pool, fails, or
  reconnects; each can have two connections, so the pool holds up to four names. All safety properties are proved for any
  number of requests. `Configs` is a
  set, so that one run covers several settings. One request is answered in chunks, the other in the
  remaining ways. In `HttpClient_timeouts` the replies come whole (the timers span all of a reply) and the user
  does not interrupt, to keep liveness within minutes.
* *WsFrames.* Three frames are a fragment, a control frame between, and the end; the frames include an empty
  one, each width of the length with content that is read, a masked one and one that claims so much that, with a fragment before
  it, the sum in `TooBig` wraps. All three properties are proved for all streams, limits and sizes.
* *WsClient.* Connections of one client meet in the member `connection`, so one slot and another connection that takes
  its place show all that one of them can do. `TypeOK` and `ToldOnce` are proved for any number of slots and any `MaxQueued`.
* *AppFiles.* Uploads of different names meet in the mutex only, those of one name in the entry of `writers_`
  and in the file; two show both. Three chunks are a first, a middle and a last one, one
  chunk is a last one alone; either of the two may be a stray chunk of both kinds instead. The ranges begin and end before, at and after the end of files of 0 to 3
  chunks, in files that are read at once and in parts. Uploads and names are symmetric. All three properties are proved
  for any number of uploads and downloads and any sizes.
* *ServerLifecycle.* The deadlock needs `start()` and two calls of `stop()`, one of them in a handler on the pool; and
  `start()`, `stop()`, `start()` meets a pool that is not joined. Five calls are enough for a server
  that is started again to meet either.
* A timer handler that is queued when its timer is replaced is a flag (`stale`), not a
  count: the first one to run closes the connection, later ones change nothing.

## Fairness

Fair are: queued handlers (the `io_service` is run by threads that do not stop
before it is stopped), a call already begun (a loop of `continue_lock()` or
`stop()`, the second half of the server's `stop()`), the completion of operations on a
socket that has been shut down or reset, and the deletion of an object nobody refers
to. Timers that are armed expire. Not fair are the peer, which may stay silent or
connect never, resource functions and `on_message`, which may never return,
and all calls of the user.

Two places need care.

* A timer of a WebSocket connection expires only when nothing replaces it, and while frames
  are being sent each of them does; so its weak fairness is stated for the states
  in which no frame is on its way to the socket. A peer to whom frames are sent for ever is not
  idle, and `SilentPeerDropped` exempts it.
* A read on a socket that has been shut down may still find bytes that arrived
  before, so failing is only ever enabled again and again: it is strongly
  fair (`NetFails`). Arrived bytes are finite, hence a read fails in the end.

In `SendQueue` a write fails in the end if its socket is shut down or reset (`WriteFails`), and any other may hang: the peer need
not read, `timeout_idle` is 0 by default (`server_ws.hpp:338`), and when it is set the chain of reads may cancel the one timer.
`EveryCallbackCalled` exempts a write that hangs for ever (`WriteHangs`), and with it what is queued behind.

In `HttpServer` a timer of a connection expires and its handler runs, and nothing is asked of the peer. `SilentClientDropped` speaks
of the phases in which the timer is set (`Timed`).

In the client, a thread that is inside goes on (`Inside`, weakly fair: this includes the user's
callback, without whose return nothing follows), some timer that is armed expires or runs
its handler, and what waits on a socket that is not open to the server ends (`Failure`, strongly
fair for the reason just given: buffered bytes are finite, and the resolver and `connect()` have
the limits of the system). The server is not fair at all: it may never answer.

In `WsClient` the fairness is that of `WsServer`. In `ServerLifecycle` a thread that can proceed does, and `std::mutex` lets
every thread that waits in at last (strong fairness of `Proceeds`); a handler is assumed to return, or to call `stop()`, which
is what the destructor's promise rests on. `AppFiles` has no liveness: a client may always give up.

`StopReturns` and `ContinueLockDecides` exempt recurring handlers that come back for ever: `stop()`
spins on a compare-exchange from 0, and nothing in the code keeps new locks from
being taken while it waits.

## The proofs

`tlapm` proves every leaf; no step is assumed. The assumptions on constants
are `HandlersAssumption` (finitely many handlers), `MessagesAssumption` (messages
with a callback are messages), `ConfigAssumption` (options are Booleans, at least one
frame or part can be queued), `ClientAssumption` (no connection is called `NoConn`, answers and options are of the known
kinds), `ThreadsAssumption` (the threads of the user and of the pool are different ones),
`SizesAssumption` (an upload has at least one chunk, its count fits a word, and a stray chunk has one of two flags) and `FramesAssumption` (the limit of a message is a
size). `LengthAsPromised` and `KeepsOneOpen` have a hypothesis, given below.

**ScopeRunnerProofs.** The inductive invariant is `TypeOK /\ CountIsExact /\
StoppedIsClosed`. `NoHandlerAfterStop` is not inductive: the exchange from 0 to
-1 is safe only because 0 means that nobody is inside, which is `CountIsExact`,
and no one enters later only because a returned `stop()` implies a
negative count, which is `StoppedIsClosed`. From it: `TypeCorrect`,
`CountCorrect`, `StopExcludesHandlers`, `ClosedForGood`, and `Refinement`, that
`Spec` implements `ScopeGate`.

**SendQueueProofs.** The inductive invariant says that the chain is one (`Chain`),
that the queue is what was sent and is not on the wire yet (`QueueIsTail`,
`WireMeetsQueue`), and that the wire is a prefix of what was sent. Each needs
the others: that the handler erases the message just written follows
from the chain being that of the front, and that callbacks hear of success for
their own message from where the wire meets the queue. `CInv` adds what has been
said to callbacks. From them: `TypeCorrect`, `SingleWriteChain`,
`NoMessageForgotten`, `WireOrder`, `CallbackCalledOnce` and `Refinement`, that
`Spec` implements `Outbox`.

**WsServerProofs.** Most steps change the record of one connection by a chain of
helpers that mirror the calls in the code (`SetTimer`, `Enqueue`, `TellError`,
...). The invariant is therefore stated about records (`Sound`: the fields of one
connection agree with each other) and one clause that relates them to `listed`
(`Listing`). Lemmas show that each helper keeps a record sound, `BecomesInv` that
a step which makes a record follow from a sound one keeps the invariant, and the proof of `Next`
is one step per action. `ToldOnce` has both halves: `Sound` says of each phase what the user
has been told, so that a connection which opened has not ended before `on_close` or `on_error` was called. A message that is
too large is told as both, one after the other, and counts as one telling. From it: `TypeCorrect`, `ListedExactly`, `EndToldOnce`.

**HttpServerProofs.** The invariant is a list of facts about each connection's record (`Sound`),
its place (`Placed`: which phases are registered, and that an upgraded connection never is), and
about the acceptor (`NoneWaits`: no accept is pending on one that is not open; `SomeoneAccepts`:
while it is open, an accept is pending or its handler queued). None of the properties is inductive
alone: `RegistryIsValid` needs that an upgraded connection was removed;
`StopClosesServed` needs that whoever is served without being registered is down or was
missed, and that nothing waits on a closed acceptor; `StillAccepting` needs an accept that
was not aborted. `NothingStartedAfterDestroy` holds because every action that starts an
operation has the guard of the scope runner (`NoStart`, action by action). From it: `TypeCorrect`,
`RegistryValid`, `SingleWriter`, `AcceptingGoesOn`, `StopCloses`, `NothingAfterDestroy`.

**WsClientProofs**, first half. As in `WsServerProofs` the invariant (`Inv`) says of each record that it is `Sound`, but the two
clients of `continue_lock()` differ: this one's destructor waits, so a connection whose chain was refused has
`destroyed` set, and after that no handler is on a stack. `TypeOK` is not inductive because of its bound of three close frames: the
user and the idle timer may have found `close_sent` false and not have set it, and the handler of a read may be
between the two as well. `CloseFrames` counts the frames sent with those that are certain to come, and that is what never exceeds
three; the bound on the queue follows from it. `ToldOnce` needs, for each phase of the chain, what the user has been told on the way
(`ToldSound`). From it: `TypeCorrect`, `EndToldOnce`.

**WsClientProofs**, second half, about `WsFrames`. (One module extends both, so what they would both call `Init` or `HeaderHandler` has
a name of its own in `WsFrames`.) `FramesTypeOK` and `ReadsInStep` are inductive together: where a part of a frame ends follows from how much
was asked for, and that from the count. `CountsFit` is the arithmetic they share. From it: `FramesTypeCorrect`, `ReaderInStep`.

`MessagesAsSent` compares with what the frames mean, read off the whole sequence: sets of frames, put in order by `CHOOSE`, and
bytes that are counted. The reader goes through the frames one at a time, and the invariant (`MessagesInv`) follows it, which
takes the place of an induction over the sequence. `Placed` says that the recursion which gives the start of a frame has exactly one
solution as far as the reader has come, and `PlacedNext` takes it one frame on. `Enumerates` says the same of the order
of a set, and `EnumeratesMore` adds a number larger than all in it; from it `PayloadAdded` and `MeaningAdded` have
what one frame adds. `BytesAdded` counts: the content of the frame being read lies after all that was read before, and within what a
`size_t` can say, so the sum of sizes in `TooBig` does not wrap and is the one the limit is about. From it: `MessagesArrive`.

**HttpClientProofs.** Every action but one ends in `Leaves(q, c, p, o)`, which takes the sessions, connections and pool
that the handler has made and deletes what nobody refers to any more. So the invariant is an operator `State` of these
arguments: `LeavesKeeps` shows once that it survives the deletion, and what remains for an action is that it
holds of the arguments, mostly by one of four lemmas (`OwnStep`: one chain goes on; `EndStep`: it ends and frees its
connection; `WriteStep`; `CloseKeeps`: connections are closed and operations cut).
`OneRequestPerConnection` is not inductive: a request *holds* its connection from `get_connection()` until `in_use` is
cleared for it, the callbacks of a part included, and what is held must be in use or have carried events
(`ConnectionOk`), or another request would be given it. That a request is written twice at most rests on
the fresh connection of `reconnect()`: it is named by the request, nobody has had it before (`HasMade`), and until the
header is there it is not to be replaced again. From it: `TypeCorrect`, `OneAtATime`, and `Refinement`: `Prune` is the
only step that tells the caller anything, each write is a `Send`, all else is a stutter of `Exchange`.

Three more results rest on it. `LeavesClosed` is a statement about steps: nothing leaves the pool in most of them
(`PoolGrows`), and when another session takes a connection away that this one uses, the two share it, which only a stream of
events or a request about to prune does (`SharedStreams`). What leaves the pool is closed, or in one of the ways the property lists: these are left open. `NobodyWaitsForever`, which
speaks of open sockets without a stream and not of the resolver or of `connect()`, has an invariant of its own on top (`TimedInv`): it
counts as waiting those, too, whose callback will return to a read, for nothing sets their timer
again before it, and it says that an operation which was cut had its socket closed, or a retry would find an open
one without a timer. `KeepsOneOpen` is about a number: a request that frees its connection makes one more that is unused, and one
more that will prune the pool (`FewUnused`). It is the one theorem that needs finitely many requests
(`IsFiniteSet(Requests)`), as without them there is nothing to count.

**ServerLifecycleProofs.** `start()` may only make its threads where those of an earlier one are
joined, and that holds because whoever leaves joinable threads behind is still inside `start()` (`PoolHasOwner`).
From it: `TypeCorrect`, `RestartIsOrderly`.

**AppFilesProofs.** An upload is `Good` while it is the last one begun of its name and has met no other chunk of that name, of an
upload or a stray one. Then nobody else
is on that name (`Alone`), so `writers_` has its `ofstream` from the first chunk to the last (`Listed`), its handler
writes through that one (`OwnWriter`), and the file together with what the `ofstream` holds back is what has been
written (`Content`); the last chunk destroys the `ofstream`, which leaves the whole file. The entries of an
upload that is over, or of one that clashed, must be kept apart from these: `Owner` and `WriterOwner` say whose
they can be. From it: `FileIsWhole`, `NullOnlyForStrays`.

Downloads have another invariant (`DownInv`): `left` is the length that was announced less what has been sent, the next byte
is the one behind it (`PartsAgree`), and of a file that has not changed as much is sent as is asked for and is there
(`FileAgrees`). `Lengths` is the arithmetic modulo `Word` of the header and of the read, and
`PromiseIsKept` says when the two agree, which is exactly for the ranges that `LengthIsKept` lists: for all others `LengthAsPromised`
says that the promise is broken. `LengthAsPromised` assumes that a word can say how long each file is (`FilesFit`), as
`std::filesystem::file_size` does. The proof corrected the property: of an empty file, the range from 0 to
the largest number has a length that wraps to 0, and so is kept; the run has had this range since.

Every safety property of a run that passes is a theorem. Only model-checked are the liveness properties: `StopReturns`,
`ContinueLockDecides`, `EveryCallbackCalled`, `SilentClientDropped`, `DestroyDrains`, `SilentPeerDropped`, `StopDrains`, `EveryRequestAnswered`,
`SilentServerDropped`, `StopEndsConnection`, `CallsReturn`. Temporal reasoning under fairness and ENABLED are out of
the prover's reach.

## What the code does not keep

Two runs end in a behaviour that a comment of the source excludes. They are
properties the runs expect to be violated, and each says how.

| Run | The comment | The code |
|---|---|---|
| `HttpServer_upgrade` | "remove connection from connections" (`server_http.hpp:740`) | the content timer stays armed over an upgrade; when it fires between the move of the socket and the end of the upgrade, `close()` goes through a null socket |
| `HttpClient_sync` | "will throw on error::eof" (`client_http.hpp:216`) | the call at the opening of a stream has `content.end` set, so the synchronous `request()` returns, and the call for the next event writes through references to its frame |

Others were met while modelling, and the model contains them without a run of their own:

* "Stop accepting new connections, and close current connections" (`server_ws.hpp:450`): connections in their handshake are
  in no set, and open after `stop()` when the `io_service` goes on (`StopClosesAll` of `WsServer`).
* "Idle timeout" (`server_ws.hpp:337`): a handler that ends the chain of reads cancels the timer that guards a write, and
  nothing sets it again (`StuckWriteDropped` of `WsServer`).
* "Default value: 0 (Config::timeout is then used instead)" (`client_http.hpp:138`): `connect()` passes `timeout_connect` to
  `set_timeout()` as it is, which sets no timer for 0 (`ConnectUsesTimeout` of `HttpClient`).
* "Send close only once" (`client_ws.hpp:252`): as at the server (`CloseSentOnce` of `WsClient`).
* "Idle timeout" (`client_ws.hpp:289`): the close frame of the timer goes into the queue behind a write that hangs, and no
  timer is set again (`StuckIsDropped`).
* "Stop client, and close current connection" (`client_ws.hpp:337`): the resolver and `async_connect` are not cancelled, and
  the connection of an earlier `start()` is forgotten (`StopClosesCurrent`).
* A connection of the WebSocket client that the server closed, or that failed, keeps its socket until the idle timer,
  `start()` or the destructor; one of an earlier `start()` whose write `continue_lock()` refuses after
  the destructor keeps its queue (`writer = "dead"`).
* "when this lambda be called, file is not finished writing, so post-call callback" (`app.hpp:101`): what is posted may run on
  another thread at once, before the chunk is written (`ToldWhenWritten` of `AppFiles`).
* `start()`, when a handler on the pool calls `stop()` after another has: the first `stop()` ends the `run()` of `start()`, which
  joins the second one's thread with the mutex that thread waits for. `CallsReturn` says that this is the only deadlock
  (`JoinsStopper`), and that a destructor called in a handler is the only call that waits for itself.
* A `start()` that begins after `stop()`, but before the first `start()` has joined its pool, terminates the process
  (`ClearThrows`), and one that fails to bind leaves the acceptor open, so that every later one throws until `stop()` (`StartThrows`).
* A Range whose begin is more than one past the last byte, and every Range of an empty file but those whose length
  comes out as 0, has a length near 2^64 (`RangeLength`); one without a `-` reads past the end of a vector
  (`app.hpp:216`). `LengthIsKept` says for which ranges the header is kept.
* A client whose upload overlaps another one of the same name may end the process: the other's last chunk takes the writer
  away (`WriteThroughNull`). So does, by itself, a middle chunk whose first one this process has not had
  (`upload_handler.hpp:37`), or a flag that the switch has no case for (`:31`). `WriterIsThere` says that the chunks of an upload that nothing
  overlaps do not.
* `static UploadHandler uh` (`app.hpp:100`) is one for all calls of `upload()`; and `~App()` stops a server whose
  detached `start()` (`:466`) may not have returned.
* "Timeout on request completion" (`server_http.hpp:366`): the handler of a timer that has expired when `set_timeout()`
  replaces it is queued with success, and closes the connection in its next phase (`StaleTimerHandler`; `ClosedByItsOwnTimeout`).
* A control frame counts with the fragments before it towards `max_message_size` (`client_ws.hpp:596`), so that a
  ping may end a connection whose messages are small enough; and the sum wraps for a claimed length near 2^64 (`TooBig`).
* The handlers of a chunk's end call `on_error` without the test every other call makes (`crashed` in `HttpServer`,
  `ErrorsAreSurvived`).
* "Send close only once" (`server_ws.hpp:242`): the test and the set of `close_sent` are two atomic
  accesses, and two threads pass the test (`UserTestsClose`, `UserSendsClose`; `CloseSentOnce`).
* "a potential destructor call is delayed until all locks are released" (`utility.hpp:451`):
  `~SocketServerBase()` does not call `handler_runner->stop()` (`Destroy` of `WsServer` has no guard; `DestructorDelayed`).
* The opening of a stream of events frees its connection (`content.end` is true by default), so that another
  request reads on the same socket, and the end of either cancels the other's timer. This is why
  `OneRequestPerConnection`, `LeavesPoolClosed` and `WaitsUnderTimer` exempt `stream`.
* `stop()` of the client closes what is in the pool. A connection that is read until the server
  closes has left it (`client_http.hpp:689`), and so has one that another request
  erased which used it before (`:252`); one in the resolver or in `connect()` is not
  closed by `close()`. `LeavesPoolClosed` says that these are the only ones.
* A shutdown by the timeout may be seen as end of file by the read it ends; the request is then sent again
  instead of answered with an error (`CloseAll`, `Retry`).
* The answer 413 for a body that is too large is built on the stack of the
  handler with the default deleter (`server_http.hpp:598`) instead of the one that
  sends it (`:31`): `TooLargeReturns` drops the connection with nothing sent.
* `stop()` of the HTTP server closes the connections that it finds; one whose accept has
  completed but whose handler has not run (`missed`) is not open to `close()` yet and is
  served after it (`:826`, `:496`). `StopClosesServed` says that these are the only ones.
* After `stop()` the accept handler that was not aborted calls `accept()` on a closed acceptor,
  which fails at once, and again (`:832`): `AcceptHandler` goes round until
  the `io_service` stops or the server is destroyed.

## What is not modelled

* That in TLS connections the intermediate handlers of `async_read` and `async_write` are not bound to
  the strand (`server_ws.hpp:163`, `:707`): these handlers are inside asio, whose composed operations are one step here.
* What parsers accept, and the framing of messages at the server, which is the client's with a mask added. The bytes of a
  connection of the HTTP server: bytes of a pipelined request that were read with the one before are
  dropped (`server_http.hpp:784`), and `chunk_size` plus what was read may wrap (`:665`).
* Failures of the file system: `UploadHandler` never tests its `ofstream`, and answers 200 to what it could not write.
* What the language forbids: calls to a server that is being destroyed, a destructor while `start()` or `stop()` runs. And
  `start()` from a handler.
* `App::cron_job` and its `Timer`, `use`, `cors`: one timer that calls the user, and headers.
* The client's exceptions: `std::stoull` of a malformed Content-Length throws out of its handler (`client_http.hpp:584`).
* OpenSSL, the contents of files, the thin wrappers of `client.hpp`, status codes, aliases
  of asio: nothing interleaves there.
* Memory: a use after free is visible only where a property speaks of it (`RegistryIsValid`,
  `OneWriteOfFront`). Exceptions other than the empty `on_error` are not modelled.

## The plan

In the order of what mattered most for the correctness of the system; all of it is there.

1. `ScopeGate`, `ScopeRunner`, proofs. The protocol every handler rests on.
2. `Outbox`, `SendQueue`, proofs. The protocol every write rests on.
3. `HttpServer` (composes 1 and 2 by what they promise), proofs.
4. `WsServer`, proofs.
5. `Exchange`, `HttpClient`, proofs: the pool with `get_connection` and `in_use`, sessions and their callbacks, timeouts, one
   reconnect of an idle connection that the server closed, streamed replies, `stop()`.
6. `WsFrames`, proofs: how the client makes messages of bytes.
7. `WsClient`, proofs: the client's counterpart of 4.
8. `ServerLifecycle`: `start`, `stop`, the destructor, the pool of threads and `start_stop_mutex`; who waits for whom; proofs.
9. `AppFiles`, proofs: uploads and downloads.

Runs of new modules have taken the place of some that showed a disagreement, whose descriptions
stay above and whose properties stay at the ends of their modules.
What is left is what the prover cannot reach, the liveness properties, and the parts that are listed above as not modelled.

## How to run it

    tlc -workers 2 -config HttpServer.cfg MCHttpServer.tla
    tlapm WsServerProofs.tla

`MCX.tla` holds the instances of `X.tla`; run each `.cfg` with the MC module named in
`PROJECT.json`. The longest run, `HttpClient_timeouts`, takes a minute and a half on two cores.
