------------------------------- MODULE AppFiles -------------------------------
(***************************************************************************)
(* The files of a bhttp::App: what App::upload() with its UploadHandler    *)
(* (bhttp/upload_handler.hpp) writes to a directory and App::serve_dir()   *)
(* with its FileSvr (bhttp/app.hpp) sends from it.  The example            *)
(* (examples/upload.hpp) has both on one directory, so they are composed   *)
(* here, over the files they share.                                        *)
(*                                                                         *)
(* A client uploads a file in chunks, one POST each, and waits for the     *)
(* answer before the next (test/spa/src/util.js).  Nothing makes it do so: *)
(* a stray chunk is a POST of its own with any flag, as when the chunks    *)
(* before it were lost, went to an earlier process or were never sent.     *)
(* Uploads, some never ended, and stray chunks make up any sequence of     *)
(* requests.                                                               *)
(*                                                                         *)
(* Requests of several clients are handled by several threads.             *)
(* UploadHandler::write() is three steps: the switch and the write, both   *)
(* under writers_mutex_, and the end of the local `writer`, which is       *)
(* destroyed after the lock.  (A POST without a NUL after the name is      *)
(* refused by substr() before the lock is taken.)                          *)
(*                                                                         *)
(* The unit of length is one chunk; the content of a file is a sequence    *)
(* which says whose chunk is at which place.  What the file buffer of an   *)
(* ofstream holds back reaches the file at a later write or at its end.    *)
(* Sizes are uint64_t: they are counted modulo Word.                       *)
(***************************************************************************)
EXTENDS Integers, Sequences, FiniteSets

CONSTANTS Names,      \* of files in the directory
          Uploads,    \* uploads, of one client each
          Totals,     \* bound: how many chunks an upload can have
          Stray,      \* flags of stray chunks: "middle", or "other" than 0, 1 and 2
          Downloads,  \* GET requests
          Ranges,     \* Range headers, see Header
          BufSize,    \* FileSvr::buf_size
          Word        \* 2^64

Absent == <<"absent">>    \* no entry in writers_, no ofstream
Null == <<"null">>        \* an entry whose shared_ptr is empty
Header == [kind : {"none", "malformed", "noDash"}]
            \cup [kind : {"closed"}, begin : 0..(Word - 1), end : 0..(Word - 1)]
            \cup [kind : {"open"}, begin : 0..(Word - 1)]

\* The ofstreams, by the request that opened them.
Streams == Uploads \X {"first", "last"}

ASSUME SizesAssumption ==
  /\ Totals \cup {BufSize, Word} \subseteq Nat \ {0} /\ \A t \in Totals : t < Word
  /\ Ranges \subseteq Header
  /\ Stray \subseteq {"middle", "other"}

VARIABLES file,     \* by name, the content
          writers,  \* writers_, by name
          stream,   \* the ofstreams
          mutex,    \* who has writers_mutex_
          up,       \* by upload, the client and the handler of its request
          latest,   \* history: by name, the upload that was begun last
          posted,   \* uploads whose callback is posted: any thread of the io_service may run it
          down,     \* by download, its FileSvr
          crashed   \* "no", or how the process has died

vars == <<file, writers, stream, mutex, up, latest, posted, down, crashed>>

Least(a, b) == IF a < b THEN a ELSE b
Greatest(a, b) == IF a < b THEN b ELSE a

\* What an ofstream has written, and what it holds back.
Opened == [pos |-> 0, buffer |-> <<>>]

Init ==
  /\ file = [n \in Names |-> [i \in 1..3 |-> <<"old", i>>]]
  /\ writers = [n \in Names |-> Absent]
  /\ stream = [s \in Streams |-> Opened]
  /\ mutex = Absent
  /\ up \in [Uploads -> [name : Names, total : Totals, next : {1}, at : {"idle"},
                         writer : {Absent}, clash : {FALSE}, stray : Stray \cup {"no"}]]
  /\ \A u \in Uploads : up[u].stray # "no" => up[u].total = 1
  /\ latest = [n \in Names |-> Absent]
  /\ posted = {}
  /\ down = [d \in Downloads |-> [at |-> "idle"]]
  /\ crashed = "no"

Alive == crashed = "no"

-----------------------------------------------------------------------------
(* Uploads *)

\* The chunks `vs` are written at place p of f; what lies between is a hole.
Overwrite(f, p, vs) ==
  IF vs = <<>> THEN f
  ELSE [i \in 1..Greatest(Len(f), p + Len(vs)) |->
          IF i \in (p + 1)..(p + Len(vs)) THEN vs[i - p]
          ELSE IF i <= Len(f) THEN f[i] ELSE <<"hole", i>>]

\* The content of a file becomes f; downloads that read it then are marked.
Becomes(n, f) ==
  /\ file' = [file EXCEPT ![n] = f]
  /\ down' = IF f = file[n] THEN down
             ELSE [d \in Downloads |->
                     IF down[d].at \in {"open", "sending"} /\ down[d].name = n
                       THEN [down[d] EXCEPT !.changed = TRUE] ELSE down[d]]

\* Uploads of this name that have begun and are not answered to the end.
Unfinished(n) == {u \in Uploads : up[u].name = n /\ up[u].at \notin {"idle", "done"}}

\* The client sends its next chunk; the first one begins the upload.
SendChunk(u) ==
  LET n == up[u].name
      others == IF up[u].at = "idle" THEN Unfinished(n) ELSE {} IN
  /\ Alive /\ up[u].at \in {"idle", "ready"}
  /\ up' = [v \in Uploads |->
              IF v = u THEN [up[u] EXCEPT !.at = "sent", !.clash = @ \/ others # {}]
              ELSE [up[v] EXCEPT !.clash = @ \/ v \in others]]
  /\ latest' = IF up[u].at = "idle" THEN [latest EXCEPT ![n] = u] ELSE latest
  /\ UNCHANGED <<file, writers, stream, mutex, posted, down, crashed>>

\* The flag of the chunk, its last byte.
Flag(u) == IF up[u].stray # "no" THEN up[u].stray
           ELSE IF up[u].next = up[u].total THEN "last"
           ELSE IF up[u].next = 1 THEN "first" ELSE "middle"

\* A handler takes the mutex and then finds its `writer`.
Lock(u, writer) ==
  /\ Alive /\ mutex = Absent /\ up[u].at = "sent"
  /\ mutex' = u
  /\ up' = [up EXCEPT ![u].at = "locked", ![u].writer = writer]

\* A handler that has not returned keeps the ofstream it wrote to.
InUse(s) == \E u \in Uploads : up[u].writer = s

\* An ofstream is made for u, which truncates the file; the one in the map is destroyed
\* after that, and what it held back is written then.
Truncates(n, old) ==
  Becomes(n, IF old \in Streams /\ ~InUse(old)
               THEN Overwrite(<<>>, stream[old].pos, stream[old].buffer) ELSE <<>>)

\* case 0
FirstChunkUnlisted(u) ==     \* mutant: the writer is not entered in writers_
  /\ Flag(u) = "first" /\ Lock(u, <<u, "first">>)
  /\ Truncates(up[u].name, writers[up[u].name])
  /\ UNCHANGED <<writers, stream, latest, posted, crashed>>

FirstChunk(u) ==
  /\ Flag(u) = "first" /\ Lock(u, <<u, "first">>)
  /\ Truncates(up[u].name, writers[up[u].name])
  /\ writers' = [writers EXCEPT ![up[u].name] = <<u, "first">>]
  /\ UNCHANGED <<stream, latest, posted, crashed>>

\* case 1: operator[] enters an empty shared_ptr when there is none.
MiddleChunk(u) ==
  LET n == up[u].name
      writer == IF writers[n] = Absent THEN Null ELSE writers[n] IN
  /\ Flag(u) = "middle" /\ Lock(u, writer)
  /\ writers' = [writers EXCEPT ![n] = writer]
  /\ UNCHANGED <<file, stream, latest, posted, down, crashed>>

\* case 2: the entry is taken out, or a file is made of this chunk alone; the
\* callback is posted before the chunk is written.
LastChunkReopens(u) ==     \* mutant: the last chunk always opens the file
  /\ Flag(u) = "last" /\ Lock(u, <<u, "last">>)
  /\ Truncates(up[u].name, Absent)
  /\ writers' = [writers EXCEPT ![up[u].name] = Absent]
  /\ posted' = posted \cup {u}
  /\ UNCHANGED <<stream, latest, crashed>>

LastChunk(u) ==
  LET n == up[u].name IN
  /\ Flag(u) = "last"
  /\ \/ writers[n] # Absent /\ Lock(u, writers[n]) /\ UNCHANGED <<file, down>>
     \/ writers[n] = Absent /\ Lock(u, <<u, "last">>) /\ Truncates(n, Absent)
  /\ writers' = [writers EXCEPT ![n] = Absent]
  /\ posted' = posted \cup {u}
  /\ UNCHANGED <<stream, latest, crashed>>

\* No case of the switch: `writer` stays empty.
OtherChunk(u) ==
  /\ Flag(u) = "other" /\ Lock(u, Null)
  /\ UNCHANGED <<file, writers, stream, latest, posted, down, crashed>>

\* writer->write(), and the lock is released: the chunk reaches the file with
\* what was held back, or is held back as well.
WriteChunk(u) ==
  LET s == up[u].writer
      chunks == Append(stream[s].buffer, <<u, up[u].next>>)
      n == up[u].name IN
  /\ Alive /\ up[u].at = "locked" /\ s \in Streams
  /\ mutex' = Absent
  /\ up' = [up EXCEPT ![u].at = "written"]
  /\ \/ /\ stream' = [stream EXCEPT ![s].buffer = chunks]
        /\ UNCHANGED <<file, down>>
     \/ /\ stream' = [stream EXCEPT ![s] = [pos |-> @.pos + Len(chunks), buffer |-> <<>>]]
        /\ Becomes(n, Overwrite(file[n], stream[s].pos, chunks))
  /\ UNCHANGED <<writers, latest, posted, crashed>>

\* An empty shared_ptr is written through.
WriteThroughNull(u) ==
  /\ Alive /\ up[u].at = "locked" /\ up[u].writer = Null
  /\ crashed' = "nullWriter"
  /\ UNCHANGED <<file, writers, stream, mutex, up, latest, posted, down>>

\* The local `writer` goes, with the ofstream when nobody else has it, and the
\* client gets its answer.
Answer(u) ==
  LET s == up[u].writer
      n == up[u].name
      last == writers[n] # s /\ \A v \in Uploads \ {u} : up[v].writer # s IN
  /\ Alive /\ up[u].at = "written"
  /\ up' = [up EXCEPT ![u].at = IF up[u].next = up[u].total THEN "done" ELSE "ready",
                      ![u].next = @ + 1, ![u].writer = Absent]
  /\ IF last THEN Becomes(n, Overwrite(file[n], stream[s].pos, stream[s].buffer))
             ELSE UNCHANGED <<file, down>>
  /\ UNCHANGED <<writers, stream, mutex, latest, posted, crashed>>

-----------------------------------------------------------------------------
(* Downloads *)

\* The last byte that is sent, and how many are, by a range of a file of that length.
LastByte(range, len) ==
  Least((len - 1) % Word, IF range.kind = "open" THEN len ELSE range.end)

RangeLengthShort(range, len) ==     \* mutant: [begin, end) instead of [begin, end]
  IF range.kind = "none" THEN len ELSE (LastByte(range, len) - range.begin) % Word

RangeLength(range, len) ==
  IF range.kind = "none" THEN len ELSE (LastByte(range, len) - range.begin + 1) % Word

Begin(range) == IF range.kind = "none" THEN 0 ELSE range.begin

\* serve() opens the file, asks for its length and writes the header; a range
\* that stoull() refuses is answered with 400, and vs[1] of one without a "-"
\* is past the end of a vector.
Serve(d) ==
  /\ Alive /\ down[d].at = "idle"
  /\ \E n \in Names, range \in Ranges :
       \/ /\ range.kind = "malformed"
          /\ down' = [down EXCEPT ![d] = [at |-> "refused"]]
          /\ UNCHANGED crashed
       \/ /\ range.kind = "noDash"
          /\ crashed' = "badRange"
          /\ UNCHANGED down
       \/ /\ range.kind \in {"none", "open", "closed"}
          /\ down' = [down EXCEPT ![d] =
                        [at |-> "open", name |-> n, range |-> range, size |-> Len(file[n]),
                         left |-> RangeLength(range, Len(file[n])), pos |-> Begin(range),
                         sent |-> 0, read |-> 0, eof |-> FALSE, changed |-> FALSE]]
          /\ UNCHANGED crashed
  /\ UNCHANGED <<file, writers, stream, mutex, up, latest, posted>>

Promised(d) == RangeLength(down[d].range, down[d].size)

\* One read: of all that is promised when it fits a buffer, and else, in
\* send_partial(), of the next part; after a read that came short none succeeds.
ReadFile(d) ==
  LET want == IF Promised(d) <= BufSize THEN Promised(d) ELSE Least(down[d].left, BufSize)
      there == Greatest(0, Len(file[down[d].name]) - down[d].pos)
      got == IF down[d].eof THEN 0 ELSE Least(want, there) IN
  /\ Alive /\ down[d].at = "open"
  /\ down' = [down EXCEPT ![d] = [down[d] EXCEPT
       !.at = IF got > 0 /\ Promised(d) > BufSize THEN "sending" ELSE "done",
       !.pos = @ + got, !.sent = @ + got, !.read = got, !.eof = got < want]]
  /\ UNCHANGED <<file, writers, stream, mutex, up, latest, posted, crashed>>

\* The callback of Response::send(), once for each part.
PartSent(d) ==
  /\ Alive /\ down[d].at = "sending"
  /\ \/ down' = [down EXCEPT ![d].at = "cut"]
     \/ LET left == (down[d].left - down[d].read) % Word
        IN  down' = [down EXCEPT ![d].left = left, ![d].at = IF left = 0 THEN "done" ELSE "open"]
  /\ UNCHANGED <<file, writers, stream, mutex, up, latest, posted, crashed>>

-----------------------------------------------------------------------------
UploadSteps(u) ==
  \/ FirstChunk(u) \/ MiddleChunk(u) \/ LastChunk(u) \/ OtherChunk(u)
  \/ WriteChunk(u) \/ WriteThroughNull(u) \/ Answer(u)

DownloadSteps(d) == ReadFile(d) \/ PartSent(d)

Next ==
  \/ \E u \in Uploads : SendChunk(u) \/ UploadSteps(u)
  \/ \E d \in Downloads : Serve(d) \/ DownloadSteps(d)

Spec == Init /\ [][Next]_vars

-----------------------------------------------------------------------------
(* Properties *)

\* The chunks of an upload, in their order.
Whole(u) == [i \in 1..up[u].total |-> <<u, i>>]

\* A file that no other upload touches is what its client sent, once the last
\* chunk is answered and until another upload of that name begins.  All of it is in
\* the file then: the ofstream of the upload has been destroyed.
UploadIsWhole ==
  \A u \in Uploads :
    up[u].at = "done" /\ up[u].stray = "no" /\ ~up[u].clash /\ latest[up[u].name] = u => file[up[u].name] = Whole(u)

\* A chunk meets an empty pointer, through which it is then written, only when it is a
\* stray one, or when its own upload has been overlapped by another of its name, or by a
\* stray chunk of it: the end of one takes the writer away from the other.
WriterIsThere == \A u \in Uploads : up[u].writer = Null => up[u].clash \/ up[u].stray # "no"

\* What FileSvr sends is as long as its header says, exactly when the range
\* begins no later than one byte after its end, in a file that has bytes, or its length
\* is 0 (of an empty file a range to the last number asks for none, as that wraps too);
\* for all other ranges the client waits for bytes that never come.  Not when the file
\* changes under it.
LengthIsKept ==
  \A d \in Downloads :
    down[d].at = "done" /\ ~down[d].changed =>
      LET range == down[d].range
          last == LastByte(range, down[d].size)
      IN  down[d].sent = Promised(d) <=>
            \/ range.kind = "none"
            \/ range.begin = (last + 1) % Word
            \/ range.begin <= last /\ down[d].size > 0

-----------------------------------------------------------------------------
(* What a comment of the source says and the code does not do. *)

\* "when this lambda be called, file is not finished writing, so post-call
\* callback" (app.hpp:101): the callback that is posted finds the file not
\* finished when another thread of the io_service runs it at once.
ToldWhenWritten ==
  \A u \in Uploads :
    u \in posted /\ ~up[u].clash /\ latest[up[u].name] = u => file[up[u].name] = Whole(u)

=============================================================================
