------------------------------- MODULE WsFrames -------------------------------
(***************************************************************************)
(* How SimpleWeb::SocketClientBase makes messages of the bytes a WebSocket *)
(* server sends (bhttp/client_ws.hpp): upgrade() may have read bytes past  *)
(* the handshake, and every read then takes from the socket only what is   *)
(* not in the streambuf yet, by counting (num_additional_bytes).  Messages *)
(* come in fragments, with control frames between them.                    *)
(*                                                                         *)
(* Bytes are numbered in the order in which they are sent: a streambuf is  *)
(* an interval of them.  What the frames say is fixed at the beginning;    *)
(* handlers read them by their place, which is right as long as            *)
(* ReadsInStep holds.                                                      *)
(*                                                                         *)
(* The actions and properties that WsClient has as well have names of      *)
(* their own here, so that one module can extend both.                     *)
(***************************************************************************)
EXTENDS Integers, Sequences, FiniteSets

CONSTANTS Streams,          \* what the server may send: sequences of frames
          MaxMessageSize,   \* config.max_message_size
          Word              \* how many values a size_t has

\* `ext` is the number of bytes that follow the first two to give the length,
\* which need not be the fewest that would do.
Frame == [kind : {"data", "close", "ping", "pong"}, fin : BOOLEAN, masked : BOOLEAN,
          ext : {0, 2, 8}, length : 0..(Word - 1)]

ASSUME FramesAssumption ==
  /\ Word \in Nat \ {0}
  /\ MaxMessageSize \in 0..(Word - 1)
  /\ Streams \subseteq Seq(Frame)

VARIABLES stream,      \* the frames that the server sends
          step,        \* which handler comes next, or how the connection has ended
          reading,     \* the frame being read
          begin,       \* history: the bytes before that frame
          head, tail,  \* the streambuf of in_message holds the bytes after `head` up to `tail`
          additional,  \* num_additional_bytes
          fragmented,  \* fragmented_in_message: [parts, length]
          received,    \* the messages that on_message was called with
          pongs        \* the contents of the pongs sent

framesVars == <<stream, step, reading, begin, head, tail, additional, fragmented, received, pongs>>

Steps == {"header", "length", "content"}
NoMessage == [parts |-> <<>>, length |-> 0]

Size(f) == 2 + f.ext + f.length

\* The bytes before frame n.
StartOf(n) ==
  LET start[k \in 1..n] == IF k = 1 THEN 0 ELSE start[k - 1] + Size(stream[k - 1])
  IN  start[n]

\* How many bytes may have come: no connection carries as many as a length can claim.
Carried == {n \in 0..(Word - 1) : n <= StartOf(Len(stream) + 1)}

FramesInit ==
  /\ stream \in Streams
  /\ step = "header"
  /\ reading = 1
  /\ begin = 0
  /\ head = 0
  /\ tail \in Carried    \* upgrade() has read past the handshake
  /\ additional = tail
  /\ fragmented = NoMessage
  /\ received = <<>>
  /\ pongs = <<>>

-----------------------------------------------------------------------------
\* transfer_exactly() for the next n bytes, and what is additional after them.
NeedAll(n) == n     \* mutant: what has been read already is read again

Need(n) == IF additional > n THEN 0 ELSE n - additional

LeftUnchecked(n) == additional - n     \* mutant: the difference wraps

Left(n) == IF additional > n THEN additional - n ELSE 0

\* The read of the next n bytes completes.
Arrives(n) ==
  /\ tail + Need(n) \in Carried
  /\ tail' = tail + Need(n)

\* The sum is one of size_t.
TooBig(f) == (f.length + fragmented.length) % Word > MaxMessageSize

\* read_message_content(), up to its read.
ReadContent(f) == step' = IF TooBig(f) THEN "tooBig" ELSE "content"

\* read_message(): the first two bytes.
FrameHeaderHandler ==
  /\ step = "header"
  /\ reading <= Len(stream)
  /\ Arrives(2)
  /\ LET f == stream[reading]
     IN  IF tail' = tail /\ tail = head THEN additional' = 0 /\ UNCHANGED <<step, head>>
         ELSE /\ head' = head + 2
              /\ additional' = Left(2)
              /\ IF f.masked THEN step' = "masked"
                 ELSE IF f.ext > 0 THEN step' = "length" ELSE ReadContent(f)
  /\ UNCHANGED <<stream, reading, begin, fragmented, received, pongs>>

\* The bytes of a long length.
FrameLengthHandler ==
  /\ step = "length"
  /\ LET f == stream[reading]
     IN  /\ Arrives(f.ext)
         /\ head' = head + f.ext
         /\ additional' = Left(f.ext)
         /\ ReadContent(f)
  /\ UNCHANGED <<stream, reading, begin, fragmented, received, pongs>>

\* in_message when its content has been read: when more than that is in the streambuf, the content
\* is split off; otherwise all of the streambuf is the content.
EndOfContent(f) == IF Left(f.length) > 0 THEN head + f.length ELSE tail'

Joined(message, f) ==
  [parts |-> Append(message.parts, <<head, EndOfContent(f)>>),
   length |-> (message.length + f.length) % Word]

ControlHandlerDrops(f) ==     \* mutant: a control frame ends a fragmented message
  /\ f.kind \in {"ping", "pong"}
  /\ pongs' = IF f.kind = "ping" THEN Append(pongs, <<head, EndOfContent(f)>>) ELSE pongs
  /\ step' = "header"
  /\ fragmented' = NoMessage
  /\ UNCHANGED received

\* The branches of the handler of read_message_content().
ControlHandler(f) ==
  /\ f.kind \in {"ping", "pong"}
  /\ pongs' = IF f.kind = "ping" THEN Append(pongs, <<head, EndOfContent(f)>>) ELSE pongs
  /\ step' = "header"
  /\ UNCHANGED <<fragmented, received>>

CloseHandler(f) ==
  /\ f.kind = "close"
  /\ step' = "closed"
  /\ UNCHANGED <<fragmented, received, pongs>>

FragmentHandler(f) ==
  /\ f.kind = "data" /\ ~f.fin
  /\ fragmented' = Joined(fragmented, f)
  /\ step' = "header"
  /\ UNCHANGED <<received, pongs>>

MessageHandler(f) ==
  /\ f.kind = "data" /\ f.fin
  /\ received' = Append(received, Joined(fragmented, f))
  /\ fragmented' = NoMessage
  /\ step' = "header"
  /\ UNCHANGED pongs

FrameContentHandler ==
  /\ step = "content"
  /\ LET f == stream[reading]
     IN  /\ Arrives(f.length)
         /\ ControlHandler(f) \/ CloseHandler(f) \/ FragmentHandler(f) \/ MessageHandler(f)
         /\ head' = EndOfContent(f)
         /\ additional' = Left(f.length)
         /\ begin' = begin + Size(f)
  /\ reading' = reading + 1
  /\ UNCHANGED stream

\* A read fails: the server, the network, a timer or stop() has ended the connection.
ReadFails ==
  /\ step \in Steps
  /\ step' = "failed"
  /\ UNCHANGED <<stream, reading, begin, head, tail, additional, fragmented, received, pongs>>

FramesNext == FrameHeaderHandler \/ FrameLengthHandler \/ FrameContentHandler \/ ReadFails

FramesSpec == FramesInit /\ [][FramesNext]_framesVars

-----------------------------------------------------------------------------
(* Properties *)

Message == [parts : Seq(Nat \X Nat), length : 0..(Word - 1)]

\* Types; the subtractions of num_additional_bytes do not wrap (client_ws.hpp:521, :614).
FramesTypeOK ==
  /\ stream \in Streams
  /\ step \in Steps \cup {"masked", "tooBig", "closed", "failed"}
  /\ reading \in Nat \ {0} /\ (step \in {"length", "content"} => reading <= Len(stream))
  /\ begin \in Nat /\ head \in Nat /\ tail \in Nat /\ additional \in Nat
  /\ fragmented \in Message
  /\ received \in Seq(Message)
  /\ pongs \in Seq(Nat \X Nat)

\* Whatever the handshake read brought along, the reader takes for a frame's first bytes, its
\* length and its content those which are (client_ws.hpp:503-600), and
\* num_additional_bytes says how much of them has been read.
ReadsInStep ==
  step \in Steps =>
    /\ head = CASE step = "header" -> begin
                [] step = "length" -> begin + 2
                [] step = "content" -> begin + 2 + stream[reading].ext
    /\ additional = tail - head

\* What the first n frames mean: a message ends with each final data frame, and
\* its parts are the data frames since the one before; as many bytes as they have is
\* its length.
Data(n) == {i \in 1..n : stream[i].kind = "data"}
Finals(n) == {i \in Data(n) : stream[i].fin}
Pings(n) == {i \in 1..n : stream[i].kind = "ping"}
PartsOf(m) == {i \in Data(m) : \A k \in Finals(m - 1) : k < i}
Payload(i) == LET from == StartOf(i) + 2 + stream[i].ext IN <<from, from + stream[i].length>>
Bytes(S) == UNION {(Payload(i)[1] + 1)..Payload(i)[2] : i \in S}

Increasing(s) == \A i, j \in DOMAIN s : i < j => s[i] < s[j]
InOrder(S) == CHOOSE s \in [1..Cardinality(S) -> S] : Increasing(s)
Payloads(S) == LET s == InOrder(S) IN [k \in DOMAIN s |-> Payload(s[k])]
Meaning(S) == [parts |-> Payloads(S), length |-> Cardinality(Bytes(S))]

\* Of the frames that have been read, on_message has had exactly the messages, with their contents and
\* sizes, none of them larger than max_message_size, and every ping has been answered with
\* its own content, also between fragments and when many frames came with
\* the handshake (client_ws.hpp:595-703).
MessagesAsSent ==
  LET n == reading - 1
      ends == InOrder(Finals(n))
  IN  /\ received = [k \in DOMAIN ends |-> Meaning(PartsOf(ends[k]))]
      /\ \A k \in DOMAIN received : received[k].length <= MaxMessageSize
      /\ pongs = Payloads(Pings(n))

=============================================================================
