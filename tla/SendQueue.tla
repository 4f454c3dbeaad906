------------------------------ MODULE SendQueue ------------------------------
(***************************************************************************)
(* The send queue of a connection.  The same code stands three times:      *)
(* Response::send and send_from_queue (server_http.hpp:76-112, 155-166),   *)
(* SocketServerBase::Connection (server_ws.hpp:151-230) and                *)
(* SocketClientBase::Connection (client_ws.hpp:151-240).  This module      *)
(* follows server_ws.hpp.                                                  *)
(*                                                                         *)
(* Any thread calls send(); the front of the queue is posted to the        *)
(* connection's strand, written with async_write, and its completion       *)
(* handler posts the next one.  The captured buffers point into the front  *)
(* element of the queue.  A critical section of send_queue_mutex is one    *)
(* step, and so is each handler up to the unlock; the callbacks, which are *)
(* called after the unlock and under the handler's SharedLock only, are    *)
(* steps of their own, so that they interleave with later handlers.        *)
(***************************************************************************)
EXTENDS Integers, Sequences

CONSTANTS Messages,      \* messages that some thread may send, once each
          WithCallback   \* those sent with a callback (it defaults to nullptr)

ASSUME MessagesAssumption == WithCallback \subseteq Messages

VARIABLES queue,      \* send_queue
          posted,     \* front buffers captured by closures on the strand
          writing,    \* buffers handed to async_write and not yet completed
          completed,  \* completion handlers that wait for a thread
          due,        \* callbacks a handler took out of the queue, not called yet
          outcome,    \* what the callback of a message was called with
          sent,       \* every message send() accepted, in order
          wire,       \* every message written in full, in order
          broken,     \* the socket is shut down or reset: writes fail from now on
          stopped     \* handler_runner->stop() has returned

vars == <<queue, posted, writing, completed, due, outcome, sent, wire, broken, stopped>>

Completion == [msg : Messages, ok : BOOLEAN]
Results == {"none", "sent", "failed"}

Elements(seq) == {seq[i] : i \in 1..Len(seq)}

\* No empty std::function is ever about to be called.
TypeOK ==
  /\ queue \in Seq(Messages)
  /\ posted \in Seq(Messages)
  /\ writing \in Seq(Messages)
  /\ completed \in Seq(Completion)
  /\ due \in [Messages -> Results]
  /\ outcome \in [Messages -> Results]
  /\ sent \in Seq(Messages)
  /\ wire \in Seq(Messages)
  /\ broken \in BOOLEAN
  /\ stopped \in BOOLEAN
  /\ \A m \in Messages \ WithCallback : due[m] = "none"

Init ==
  /\ queue = <<>>
  /\ posted = <<>>
  /\ writing = <<>>
  /\ completed = <<>>
  /\ due = [m \in Messages |-> "none"]
  /\ outcome = [m \in Messages |-> "none"]
  /\ sent = <<>>
  /\ wire = <<>>
  /\ broken = FALSE
  /\ stopped = FALSE

\* A handler between its continue_lock() and the end of its callbacks.
HandlerInside == \E m \in Messages : due[m] # "none"

-----------------------------------------------------------------------------
\* send(): emplace_back, and send_from_queue() when the queue was empty.
SendAlwaysPosts(m) ==   \* mutant: `if(send_queue.size() == 1)` is lost
  /\ m \notin Elements(sent)
  /\ sent' = Append(sent, m)
  /\ queue' = Append(queue, m)
  /\ posted' = Append(posted, Head(queue'))
  /\ UNCHANGED <<writing, completed, due, outcome, wire, broken, stopped>>

Send(m) ==
  /\ m \notin Elements(sent)
  /\ sent' = Append(sent, m)
  /\ queue' = Append(queue, m)
  /\ posted' = IF Len(queue') = 1 THEN Append(posted, m) ELSE posted
  /\ UNCHANGED <<writing, completed, due, outcome, wire, broken, stopped>>

\* The posted closure runs on the strand: async_write starts.
RunPosted ==
  /\ posted # <<>>
  /\ ~stopped
  /\ posted' = Tail(posted)
  /\ writing' = Append(writing, Head(posted))
  /\ UNCHANGED <<queue, completed, due, outcome, sent, wire, broken, stopped>>

\* continue_lock() returns nullptr: the closure does nothing.
PostedRefused ==
  /\ posted # <<>>
  /\ stopped
  /\ posted' = Tail(posted)
  /\ UNCHANGED <<queue, writing, completed, due, outcome, sent, wire, broken, stopped>>

\* async_write wrote everything.
WriteSucceeds ==
  /\ writing # <<>>
  /\ ~broken
  /\ writing' = Tail(writing)
  /\ wire' = Append(wire, Head(writing))
  /\ completed' = Append(completed, [msg |-> Head(writing), ok |-> TRUE])
  /\ UNCHANGED <<queue, posted, due, outcome, sent, broken, stopped>>

\* async_write fails: the socket was shut down, cancelled or reset.
WriteFails ==
  /\ writing # <<>>
  /\ broken
  /\ writing' = Tail(writing)
  /\ completed' = Append(completed, [msg |-> Head(writing), ok |-> FALSE])
  /\ UNCHANGED <<queue, posted, due, outcome, sent, wire, broken, stopped>>

-----------------------------------------------------------------------------
(* The completion handler of async_write. *)

\* !ec: the front is erased, the next one posted, the callback kept for later.
\* (queue # <<>> is what `send_queue.begin()` relies on: see OneWriteOfFront.)
HandleSentNoPost ==     \* mutant: the next message is not posted
  /\ completed # <<>> /\ Head(completed).ok
  /\ ~stopped
  /\ queue # <<>>
  /\ completed' = Tail(completed)
  /\ queue' = Tail(queue)
  /\ due' = IF Head(queue) \in WithCallback
              THEN [due EXCEPT ![Head(queue)] = "sent"] ELSE due
  /\ UNCHANGED <<posted, writing, outcome, sent, wire, broken, stopped>>

HandleSentKeepsFront == \* mutant: the next message is posted before the erase
  /\ completed # <<>> /\ Head(completed).ok
  /\ ~stopped
  /\ queue # <<>>
  /\ completed' = Tail(completed)
  /\ queue' = Tail(queue)
  /\ posted' = IF Len(queue) > 1 THEN Append(posted, Head(queue)) ELSE posted
  /\ due' = IF Head(queue) \in WithCallback
              THEN [due EXCEPT ![Head(queue)] = "sent"] ELSE due
  /\ UNCHANGED <<writing, outcome, sent, wire, broken, stopped>>

HandleSent ==
  /\ completed # <<>> /\ Head(completed).ok
  /\ ~stopped
  /\ queue # <<>>
  /\ completed' = Tail(completed)
  /\ queue' = Tail(queue)
  /\ posted' = IF Len(queue) > 1 THEN Append(posted, queue[2]) ELSE posted
  /\ due' = IF Head(queue) \in WithCallback
              THEN [due EXCEPT ![Head(queue)] = "sent"] ELSE due
  /\ UNCHANGED <<writing, outcome, sent, wire, broken, stopped>>

\* ec: the callbacks of the whole queue are kept, and the queue is cleared.
HandleFailedFrontOnly ==    \* mutant: only the front's callback learns of it
  /\ completed # <<>> /\ ~Head(completed).ok
  /\ ~stopped
  /\ completed' = Tail(completed)
  /\ due' = [m \in Messages |->
               IF m \in WithCallback \cap {Head(queue)} THEN "failed" ELSE due[m]]
  /\ queue' = <<>>
  /\ UNCHANGED <<posted, writing, outcome, sent, wire, broken, stopped>>

HandleFailed ==
  /\ completed # <<>> /\ ~Head(completed).ok
  /\ ~stopped
  /\ completed' = Tail(completed)
  /\ due' = [m \in Messages |->
               IF m \in WithCallback \cap Elements(queue) THEN "failed" ELSE due[m]]
  /\ queue' = <<>>
  /\ UNCHANGED <<posted, writing, outcome, sent, wire, broken, stopped>>

\* continue_lock() returns nullptr: the queue is left as it is, for ever.
HandlerRefused ==
  /\ completed # <<>>
  /\ stopped
  /\ completed' = Tail(completed)
  /\ UNCHANGED <<queue, posted, writing, due, outcome, sent, wire, broken, stopped>>

\* A callback is called, after the unlock.
Callback(m) ==
  /\ due[m] # "none"
  /\ outcome' = [outcome EXCEPT ![m] = due[m]]
  /\ due' = [due EXCEPT ![m] = "none"]
  /\ UNCHANGED <<queue, posted, writing, completed, sent, wire, broken, stopped>>

-----------------------------------------------------------------------------
(* The surroundings. *)

\* close(), a timeout, stop(), or the peer: no write succeeds after it.
Break ==
  /\ ~broken
  /\ broken' = TRUE
  /\ UNCHANGED <<queue, posted, writing, completed, due, outcome, sent, wire, stopped>>

\* handler_runner->stop() in the owner's destructor, see ScopeRunner.
Stop ==
  /\ ~stopped
  /\ ~HandlerInside
  /\ stopped' = TRUE
  /\ UNCHANGED <<queue, posted, writing, completed, due, outcome, sent, wire, broken>>

-----------------------------------------------------------------------------
Handlers == RunPosted \/ PostedRefused \/ HandleSent \/ HandleFailed \/ HandlerRefused

Next ==
  \/ \E m \in Messages : Send(m) \/ Callback(m)
  \/ Handlers
  \/ WriteSucceeds \/ WriteFails
  \/ Break
  \/ Stop

Spec == Init /\ [][Next]_vars

\* The io_context runs what is queued on it, callbacks return, and a write on a
\* socket that is shut down or reset fails.  Any other write may hang: the peer
\* need not read, timeout_idle is 0 by default (server_ws.hpp:338), and the
\* connection's one timer may be cancelled meanwhile by its reads (WsServer).
\* Nobody need send, break or destroy anything.
Fairness ==
  /\ WF_vars(Handlers)
  /\ WF_vars(WriteFails)
  /\ \A m \in Messages : WF_vars(Callback(m))

FairSpec == Spec /\ Fairness

-----------------------------------------------------------------------------
(* Properties *)

\* One write chain: at most one of a posted closure, a write and a completion
\* handler is outstanding, for the front of the queue, whose streambufs the
\* captured buffers point into.  Two of them would interleave two messages on
\* the socket; one for another element would read freed memory, or take the
\* begin() of an empty queue.
OneWriteOfFront ==
  /\ Len(posted) + Len(writing) + Len(completed) <= 1
  /\ \A m \in Elements(posted) \cup Elements(writing) \cup {c.msg : c \in Elements(completed)} :
       queue # <<>> /\ m = Head(queue)

\* A queue with messages in it has a write chain that will empty it, unless
\* the handlers have been cancelled: no send() is forgotten because it found
\* the queue non-empty.
QueueIsServed ==
  queue # <<>> /\ ~stopped => Len(posted) + Len(writing) + Len(completed) = 1

\* Messages leave in the order send() took the mutex, whatever thread called
\* it, and nothing leaves after a message that failed.
WireIsPrefixOfSent ==
  /\ Len(wire) <= Len(sent)
  /\ \A i \in 1..Len(wire) : wire[i] = sent[i]

\* A callback is called once, and not after the owner has been destroyed; it
\* hears of success only for its own message.
CallbackOnce ==
  [][\A m \in Messages :
       outcome'[m] # outcome[m] => /\ outcome[m] = "none"
                                   /\ ~stopped
                                   /\ (outcome'[m] = "sent") = (m \in Elements(wire))]_vars

\* A write is under way on a socket that nobody has closed.
WriteHangs == writing # <<>> /\ ~broken

\* Every accepted message that has a callback hears of its fate, unless the
\* handlers are cancelled or the write in front of it hangs for ever: none is
\* lost in the queue when a write fails.
EveryCallbackCalled ==
  \A m \in WithCallback :
    m \in Elements(sent) ~> outcome[m] # "none" \/ stopped \/ []WriteHangs

\* The queue implements the promise of send().
OutboxPromise == INSTANCE Outbox WITH
  accepted <- sent, onWire <- wire, failed <- broken, gone <- stopped
ImplementsOutbox == OutboxPromise!Spec

=============================================================================
