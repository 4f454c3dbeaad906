---------------------------- MODULE AppFilesProofs ----------------------------
(***************************************************************************)
(* That an upload which no other chunk of its name overlaps finds its      *)
(* writer for each chunk and leaves a whole file, for any number of        *)
(* uploads, stray chunks and names, uploads of any length, and whatever    *)
(* the file buffers hold back.                                             *)
(*                                                                         *)
(* An upload is Good while it is the last one begun of its name and has    *)
(* met no other chunk of that name, of an upload or a stray one.  Then no  *)
(* other handler touches its name (Alone), so writers_ has its ofstream    *)
(* from its first to its last chunk (Listed) and the file with what that   *)
(* ofstream holds back is what was written (Content).  The other clauses   *)
(* say whose the entries of writers_ and the writers of handlers can be at *)
(* all.                                                                    *)
(*                                                                         *)
(* And that a download of an unchanged file is as long as its header says  *)
(* exactly for the ranges LengthIsKept lists: what is left is what was     *)
(* promised less what has been sent (DownInv), and Lengths is the          *)
(* arithmetic of the promise.                                              *)
(***************************************************************************)
EXTENDS AppFiles, SequenceTheorems, TLAPS

Upload ==
  [name : Names, total : Totals, next : Nat \ {0},
   at : {"idle", "sent", "locked", "written", "ready", "done"},
   writer : Streams \cup {Absent, Null}, clash : BOOLEAN, stray : {"no", "middle", "other"}]

First(u) == <<u, "first">>
Last(u) == <<u, "last">>

InHandler(u) == up[u].at \in {"locked", "written"}
IsUnfinished(u) == up[u].at \notin {"idle", "done"}

\* Its first chunk has gone through the switch; its last one has.
HasOpened(u) == up[u].next > 1 \/ InHandler(u)
HasEnded(u) == up[u].at = "done" \/ (up[u].next = up[u].total /\ InHandler(u))

\* The ofstream it writes to, and how many of its chunks have been written.
Mine(u) == IF up[u].total = 1 THEN Last(u) ELSE First(u)
Written(u) == IF up[u].at = "written" THEN up[u].next ELSE up[u].next - 1

Good(u) == up[u].at # "idle" /\ up[u].stray = "no" /\ ~up[u].clash /\ latest[up[u].name] = u

\* Chunks a + 1 to b of u.
Part(u, a, b) == [i \in 1..(b - a) |-> <<u, a + i>>]

Types ==
  /\ up \in [Uploads -> Upload]
  /\ writers \in [Names -> Streams \cup {Absent, Null}]
  /\ DOMAIN stream = Streams /\ DOMAIN file = Names /\ DOMAIN latest = Names

\* The fields of an upload agree.
Sound(u) ==
  /\ up[u].at = "idle" => up[u].next = 1
  /\ up[u].at = "ready" => up[u].next > 1
  /\ up[u].at = "done" => up[u].next = up[u].total + 1
  /\ up[u].at # "done" => up[u].next <= up[u].total
  /\ InHandler(u) <=> up[u].writer # Absent
  /\ up[u].at = "written" => up[u].writer \in Streams
  /\ up[u].stray # "no" => up[u].total = 1

\* Whose entry writers_ has.
Owner(n) ==
  /\ \A v \in Uploads, k \in {"first", "last"} :
       writers[n] = <<v, k>> =>
         k = "first" /\ up[v].name = n /\ IsUnfinished(v) /\ HasOpened(v) /\ ~HasEnded(v)
  /\ writers[n] = Null =>
       \E v \in Uploads : up[v].name = n /\ up[v].at = "locked" /\ up[v].writer = Null

\* Whose ofstream a handler has.
WriterOwner(u) ==
  \A v \in Uploads, k \in {"first", "last"} :
    up[u].writer = <<v, k>> => up[v].name = up[u].name /\ HasOpened(v)

Untouched(u) == ~HasOpened(u) => stream[First(u)] = Opened /\ stream[Last(u)] = Opened

Overlap(u, v) ==
  u # v /\ up[u].name = up[v].name /\ IsUnfinished(u) /\ IsUnfinished(v) => up[u].clash

IsLatest(u) == IsUnfinished(u) /\ ~up[u].clash => latest[up[u].name] = u

Alone(u) ==
  Good(u) => \A v \in Uploads \ {u} : up[v].name = up[u].name => ~IsUnfinished(v)

Listed(u) ==
  Good(u) /\ HasOpened(u) /\ up[u].total > 1 /\ ~HasEnded(u) => writers[up[u].name] = First(u)

OwnWriter(u) == Good(u) /\ InHandler(u) => up[u].writer = Mine(u)

Content(u) ==
  Good(u) /\ HasOpened(u) =>
    IF up[u].at = "done" THEN file[up[u].name] = Part(u, 0, up[u].total)
    ELSE \E p \in Nat :
           /\ p <= Written(u)
           /\ stream[Mine(u)] = [pos |-> p, buffer |-> Part(u, p, Written(u))]
           /\ file[up[u].name] = Part(u, 0, p)

IInv ==
  /\ Types
  /\ \A u \in Uploads :
       /\ Sound(u) /\ WriterOwner(u) /\ Untouched(u) /\ IsLatest(u)
       /\ Alone(u) /\ Listed(u) /\ OwnWriter(u) /\ Content(u)
  /\ \A n \in Names : Owner(n)
  /\ \A u, v \in Uploads : Overlap(u, v)

-----------------------------------------------------------------------------
(* Streams, and the chunks of an upload *)

LEMMA StreamNames ==
  /\ Absent \notin Streams /\ Null \notin Streams /\ Absent # Null
  /\ \A u \in Uploads : First(u) \in Streams /\ Last(u) \in Streams /\ Mine(u) \in Streams
  /\ \A s \in Streams : \E v \in Uploads, k \in {"first", "last"} : s = <<v, k>>
<1>1. Absent \notin Streams /\ Null \notin Streams
  BY DEF Absent, Null, Streams
<1>2. Absent # Null
  BY DEF Absent, Null
<1>3. \A u \in Uploads : First(u) \in Streams /\ Last(u) \in Streams /\ Mine(u) \in Streams
  BY DEF First, Last, Mine, Streams
<1>4. \A s \in Streams : \E v \in Uploads, k \in {"first", "last"} : s = <<v, k>>
  BY DEF Streams
<1> QED  BY <1>1, <1>2, <1>3, <1>4

\* The chunks u can have.
Chunks(u) == {<<u, i>> : i \in Nat}

LEMMA PartSeq ==
  ASSUME NEW u, NEW a \in Nat, NEW b \in Nat, a <= b
  PROVE  /\ Part(u, a, b) \in Seq(Chunks(u))
         /\ Len(Part(u, a, b)) = b - a
         /\ \A i \in 1..(b - a) : Part(u, a, b)[i] = <<u, a + i>>
<1> DEFINE e(i) == <<u, a + i>>
<1>1. b - a \in Nat
  OBVIOUS
<1>2. \A i \in 1..(b - a) : e(i) \in Chunks(u)
  BY DEF Chunks
<1>3. [i \in 1..(b - a) |-> e(i)] \in Seq(Chunks(u))
  <2> HIDE DEF e
  <2> QED  BY <1>1, <1>2, IsASeq
<1>4. Part(u, a, b) \in Seq(Chunks(u))
  BY <1>3 DEF Part
<1>5. DOMAIN Part(u, a, b) = 1..(b - a)
  BY DEF Part
<1>6. DOMAIN Part(u, a, b) = 1..Len(Part(u, a, b)) /\ Len(Part(u, a, b)) \in Nat
  BY <1>4, LenProperties
<1>7. Len(Part(u, a, b)) = b - a
  BY <1>1, <1>5, <1>6
<1> QED  BY <1>4, <1>7 DEF Part

LEMMA EmptyPart ==
  ASSUME NEW u, NEW a \in Nat
  PROVE  Part(u, a, a) = <<>>
<1>1. a <= a /\ a - a = 0
  OBVIOUS
<1>2. Part(u, a, a) \in Seq(Chunks(u)) /\ Len(Part(u, a, a)) = a - a
  BY <1>1, PartSeq, Zenon
<1> QED  BY <1>1, <1>2, EmptySeq

LEMMA AppendIs ==
  ASSUME NEW S, NEW r \in Seq(S), NEW c \in S, NEW t \in Seq(S), Len(t) = Len(r) + 1,
         \A i \in 1..Len(r) : t[i] = r[i], t[Len(r) + 1] = c
  PROVE  Append(r, c) = t
<1> DEFINE s == Append(r, c)
<1>1. /\ s \in Seq(S) /\ Len(s) = Len(r) + 1 /\ s[Len(r) + 1] = c
      /\ \A i \in 1..Len(r) : s[i] = r[i]
  BY AppendProperties
<1> HIDE DEF s
<1>2. Len(r) \in Nat
  BY LenProperties
<1>3. \A i \in 1..Len(s) : s[i] = t[i]
  BY <1>1, <1>2
<1>4. s = t
  BY <1>1, <1>3, SeqEqual
<1> QED  BY <1>4 DEF s

LEMMA PartAppend ==
  ASSUME NEW u, NEW a \in Nat, NEW b \in Nat, a <= b, NEW e \in Nat, e = b + 1
  PROVE  Append(Part(u, a, b), <<u, e>>) = Part(u, a, e)
<1>1. /\ Part(u, a, b) \in Seq(Chunks(u)) /\ Len(Part(u, a, b)) = b - a
      /\ \A i \in 1..(b - a) : Part(u, a, b)[i] = <<u, a + i>>
  BY PartSeq
<1>2. a <= e
  OBVIOUS
<1>3. /\ Part(u, a, e) \in Seq(Chunks(u)) /\ Len(Part(u, a, e)) = e - a
      /\ \A i \in 1..(e - a) : Part(u, a, e)[i] = <<u, a + i>>
  BY <1>2, PartSeq
<1>4. <<u, e>> \in Chunks(u)
  BY DEF Chunks
<1>5. Len(Part(u, a, e)) = Len(Part(u, a, b)) + 1
  BY <1>1, <1>3
<1>6. \A i \in 1..Len(Part(u, a, b)) : Part(u, a, e)[i] = Part(u, a, b)[i]
  <2>1. \A i \in 1..(b - a) : i \in 1..(e - a)
    OBVIOUS
  <2> QED  BY <2>1, <1>1, <1>3
<1>7. Part(u, a, e)[Len(Part(u, a, b)) + 1] = <<u, e>>
  <2>1. b - a + 1 \in 1..(e - a) /\ a + (b - a + 1) = e
    OBVIOUS
  <2>2. Part(u, a, e)[b - a + 1] = <<u, a + (b - a + 1)>>
    BY <2>1, <1>3, Zenon
  <2> QED  BY <2>1, <2>2, <1>1, Zenon
<1> QED  BY <1>1, <1>3, <1>4, <1>5, <1>6, <1>7, AppendIs

\* What was held back is written after what the file has.
LEMMA OverwritePart ==
  ASSUME NEW u, NEW p \in Nat, NEW k \in Nat, p <= k
  PROVE  Overwrite(Part(u, 0, p), p, Part(u, p, k)) = Part(u, 0, k)
<1>1. CASE p = k
  BY <1>1, EmptyPart DEF Overwrite
<1>2. CASE p < k
  <2> DEFINE f == Part(u, 0, p)
             vs == Part(u, p, k)
  <2>1. Len(f) = p /\ \A i \in 1..p : f[i] = <<u, i>>
    <3>1. 0 \in Nat /\ 0 <= p /\ p - 0 = p /\ \A i \in 1..p : 0 + i = i
      OBVIOUS
    <3>2. Len(f) = p - 0 /\ \A i \in 1..(p - 0) : f[i] = <<u, 0 + i>>
      BY <3>1, PartSeq, Zenon
    <3> HIDE DEF f
    <3> QED  BY <3>1, <3>2
  <2>2. Len(vs) = k - p /\ \A i \in 1..(k - p) : vs[i] = <<u, p + i>>
    BY PartSeq, <1>2
  <2>3. vs # <<>>
    BY <2>2, <1>2
  <2>4. Greatest(Len(f), p + Len(vs)) = k
    BY <2>1, <2>2, <1>2 DEF Greatest
  <2>5. Overwrite(f, p, vs) =
          [i \in 1..k |-> IF i \in (p + 1)..k THEN vs[i - p]
                         ELSE IF i <= p THEN f[i] ELSE <<"hole", i>>]
    <3>1. p + Len(vs) = k
      BY <2>2, <1>2
    <3> HIDE DEF f, vs
    <3> QED  BY <2>1, <2>3, <2>4, <3>1 DEF Overwrite
  <2>6. ASSUME NEW i \in 1..k
        PROVE  (IF i \in (p + 1)..k THEN vs[i - p]
                ELSE IF i <= p THEN f[i] ELSE <<"hole", i>>) = <<u, i>>
    <3> HIDE DEF f, vs
    <3>1. CASE i \in (p + 1)..k
      <4>1. i - p \in 1..(k - p) /\ p + (i - p) = i
        BY <3>1
      <4> QED  BY <4>1, <3>1, <2>2
    <3>2. CASE i <= p
      BY <3>2, <2>1
    <3> QED  BY <3>1, <3>2
  <2>7. Part(u, 0, k) = [i \in 1..k |-> <<u, i>>]
    BY DEF Part
  <2> HIDE DEF f, vs
  <2>8. Overwrite(f, p, vs) = Part(u, 0, k)
    BY <2>5, <2>6, <2>7
  <2> QED  BY <2>8 DEF f, vs
<1> QED  BY <1>1, <1>2

LEMMA WholeIsPart ==
  ASSUME NEW u \in Uploads, up[u].total \in Nat
  PROVE  Whole(u) = Part(u, 0, up[u].total)
BY DEF Whole, Part

-----------------------------------------------------------------------------
(* What the invariant says of one upload and of one name. *)

LEMMA UploadFields ==
  ASSUME Types, NEW u \in Uploads
  PROVE  /\ up[u].name \in Names /\ up[u].next \in Nat \ {0} /\ up[u].total \in Nat \ {0}
         /\ up[u].at \in {"idle", "sent", "locked", "written", "ready", "done"}
         /\ up[u].writer \in Streams \cup {Absent, Null}
         /\ up[u].stray \in {"no", "middle", "other"}
BY SizesAssumption DEF Types, Upload

\* Nothing is in writers_ for a Good upload before its first chunk.
LEMMA NothingListed ==
  ASSUME IInv, NEW u \in Uploads, Good(u), up[u].at = "sent", up[u].next = 1
  PROVE  writers[up[u].name] = Absent
<1> DEFINE n == up[u].name
<1>1. n \in Names /\ writers[n] \in Streams \cup {Absent, Null}
  BY UploadFields DEF IInv, Types
<1>2. Owner(n) /\ Alone(u) /\ IsUnfinished(u) /\ ~HasOpened(u) /\ ~InHandler(u)
  BY <1>1 DEF IInv, IsUnfinished, HasOpened, InHandler
<1>3. ASSUME NEW v \in Uploads, up[v].name = n, IsUnfinished(v) PROVE v = u
  BY <1>2, <1>3 DEF Alone
<1>4. writers[n] # Null
  <2> SUFFICES ASSUME writers[n] = Null PROVE FALSE
    OBVIOUS
  <2>1. PICK v \in Uploads : up[v].name = n /\ up[v].at = "locked" /\ up[v].writer = Null
    BY <1>2 DEF Owner
  <2>2. v = u
    BY <2>1, <1>3 DEF IsUnfinished
  <2> QED  BY <2>1, <2>2
<1>5. writers[n] \notin Streams
  <2> SUFFICES ASSUME writers[n] \in Streams PROVE FALSE
    OBVIOUS
  <2>1. PICK v \in Uploads, k \in {"first", "last"} : writers[n] = <<v, k>>
    BY StreamNames
  <2>2. up[v].name = n /\ IsUnfinished(v) /\ HasOpened(v)
    BY <2>1, <1>2 DEF Owner
  <2>3. v = u
    BY <2>2, <1>3
  <2> QED  BY <2>2, <2>3, <1>2
<1> QED  BY <1>1, <1>4, <1>5

-----------------------------------------------------------------------------
(* A step of the client or the handler of an upload that is under way. *)

\* It changes what belongs to its name only.
StepOf(u) ==
  /\ u \in Uploads /\ IsUnfinished(u)
  /\ up' \in [Uploads -> Upload] /\ \A v \in Uploads \ {u} : up'[v] = up[v]
  /\ up'[u].name = up[u].name /\ up'[u].total = up[u].total /\ up'[u].clash = up[u].clash
  /\ up'[u].stray = up[u].stray /\ up'[u].at # "idle" /\ (HasOpened(u) => HasOpened(u)')
  /\ latest' = latest
  /\ \A n \in Names \ {up[u].name} : writers'[n] = writers[n] /\ file'[n] = file[n]
  /\ \A v \in Uploads, k \in {"first", "last"} :
       up[v].name # up[u].name \/ ~HasOpened(v) => stream'[<<v, k>>] = stream[<<v, k>>]

\* What the step has to keep of its own upload.
Kept(u) ==
  /\ Types' /\ Sound(u)' /\ WriterOwner(u)' /\ Listed(u)' /\ OwnWriter(u)' /\ Content(u)'
  /\ Owner(up[u].name)'

LEMMA OneUpload ==
  ASSUME IInv, NEW u \in Uploads, StepOf(u)
  PROVE  /\ \A v \in Uploads : up'[v].name = up[v].name /\ up'[v].total = up[v].total
                               /\ up'[v].clash = up[v].clash
         /\ \A v \in Uploads : up'[v].stray = up[v].stray
         /\ \A v \in Uploads : IsUnfinished(v)' => IsUnfinished(v)
         /\ \A v \in Uploads : HasOpened(v) => HasOpened(v)'
         /\ Good(u) <=> Good(u)'
<1>1. \A v \in Uploads : up'[v].name = up[v].name /\ up'[v].total = up[v].total
                         /\ up'[v].clash = up[v].clash
  BY DEF StepOf
<1>2. \A v \in Uploads : (IsUnfinished(v)' => IsUnfinished(v)) /\ up'[v].stray = up[v].stray
  BY DEF StepOf, IsUnfinished
<1>3. \A v \in Uploads : HasOpened(v) => HasOpened(v)'
  BY DEF StepOf, HasOpened, InHandler
<1>4. up[u].at # "idle" /\ up'[u].at # "idle" /\ latest' = latest /\ up'[u].name = up[u].name
      /\ (up'[u].clash = up[u].clash) /\ up'[u].stray = up[u].stray
  BY <1>1 DEF StepOf, IsUnfinished
<1>5. Good(u) <=> Good(u)'
  BY <1>4, Zenon DEF Good
<1> QED  BY <1>1, <1>2, <1>3, <1>5

LEMMA OthersKept ==
  ASSUME IInv, NEW u \in Uploads, StepOf(u), NEW v \in Uploads \ {u}
  PROVE  Sound(v)' /\ WriterOwner(v)' /\ Listed(v)' /\ OwnWriter(v)' /\ Content(v)'
<1>1. up'[v] = up[v] /\ latest' = latest
  BY DEF StepOf
<1>2. Sound(v)'
  BY <1>1 DEF IInv, Sound, InHandler
<1>3. WriterOwner(v)'
  <2> SUFFICES ASSUME NEW w \in Uploads, NEW k \in {"first", "last"}, up'[v].writer = <<w, k>>
               PROVE  up'[w].name = up'[v].name /\ HasOpened(w)'
    BY DEF WriterOwner
  <2>1. up[w].name = up[v].name /\ HasOpened(w)
    BY <1>1 DEF IInv, WriterOwner
  <2> QED  BY <2>1, OneUpload
<1>4. Good(v)' <=> Good(v)
  <2>1. up'[v].at = up[v].at /\ up'[v].name = up[v].name /\ (up'[v].clash = up[v].clash)
        /\ up'[v].stray = up[v].stray
    BY <1>1
  <2> QED  BY <1>1, <2>1, Zenon DEF Good
<1>5. ASSUME Good(v)
      PROVE  /\ up[v].name \in Names \ {up[u].name}
             /\ writers'[up[v].name] = writers[up[v].name] /\ file'[up[v].name] = file[up[v].name]
             /\ stream'[Mine(v)] = stream[Mine(v)]
  <2>1. up[v].name # up[u].name
    BY <1>5 DEF IInv, Alone, StepOf
  <2>2. up[v].name \in Names
    BY UploadFields DEF IInv
  <2> QED  BY <2>1, <2>2 DEF StepOf, Mine, First, Last
<1>6. (Mine(v)' = Mine(v)) /\ (First(v)' = First(v)) /\ (HasOpened(v)' <=> HasOpened(v))
      /\ (HasEnded(v)' <=> HasEnded(v)) /\ (InHandler(v)' <=> InHandler(v)) /\ (Written(v)' = Written(v))
  BY <1>1 DEF Mine, First, Last, HasOpened, HasEnded, InHandler, Written
<1>7. Listed(v)'
  BY <1>1, <1>4, <1>5, <1>6 DEF IInv, Listed
<1>8. OwnWriter(v)'
  BY <1>1, <1>4, <1>6 DEF IInv, OwnWriter
<1>9. Content(v)'
  <2> SUFFICES ASSUME Good(v)', HasOpened(v)' PROVE Content(v)'
    BY DEF Content
  <2>1. Good(v) /\ HasOpened(v) /\ Content(v)
    BY <1>4, <1>6 DEF IInv
  <2>2. CASE up[v].at = "done"
    BY <2>1, <2>2, <1>1, <1>5 DEF Content, Part
  <2>3. CASE up[v].at # "done"
    <3>1. PICK p \in Nat :
            /\ p <= Written(v)
            /\ stream[Mine(v)] = [pos |-> p, buffer |-> Part(v, p, Written(v))]
            /\ file[up[v].name] = Part(v, 0, p)
      BY <2>1, <2>3 DEF Content
    <3>2. /\ p <= Written(v)'
          /\ stream'[Mine(v)'] = [pos |-> p, buffer |-> Part(v, p, Written(v)')]
          /\ file'[up'[v].name] = Part(v, 0, p)
      BY <3>1, <2>1, <1>1, <1>5, <1>6
    <3> QED  BY <3>2, <2>3, <1>1 DEF Content, Part
  <2> QED  BY <2>2, <2>3
<1> QED  BY <1>2, <1>3, <1>7, <1>8, <1>9

LEMMA StepKeeps ==
  ASSUME IInv, NEW u \in Uploads, StepOf(u), Kept(u)
  PROVE  IInv'
<1>1. \A v \in Uploads : Sound(v)' /\ WriterOwner(v)' /\ Listed(v)' /\ OwnWriter(v)' /\ Content(v)'
  BY OthersKept DEF Kept
<1>2. ASSUME NEW v \in Uploads PROVE Untouched(v)'
  <2> SUFFICES ASSUME ~HasOpened(v)'
               PROVE  (stream[First(v)] = Opened /\ stream[Last(v)] = Opened)'
    BY DEF Untouched
  <2>1. ~HasOpened(v) /\ stream[First(v)] = Opened /\ stream[Last(v)] = Opened
    BY OneUpload DEF IInv, Untouched
  <2> QED  BY <2>1 DEF StepOf, First, Last, Opened
<1>3. ASSUME NEW v \in Uploads PROVE IsLatest(v)'
  BY OneUpload DEF IInv, IsLatest, StepOf
<1>4. ASSUME NEW v \in Uploads PROVE Alone(v)'
  <2>1. Good(v)' => Good(v)
    <3>1. CASE v = u
      BY <3>1, OneUpload
    <3>2. CASE v # u
      <4>1. up'[v] = up[v] /\ latest' = latest
        BY <3>2 DEF StepOf
      <4>2. up'[v].at = up[v].at /\ up'[v].name = up[v].name /\ (up'[v].clash = up[v].clash)
            /\ up'[v].stray = up[v].stray
        BY <4>1
      <4> QED  BY <4>1, <4>2, Zenon DEF Good
    <3> QED  BY <3>1, <3>2
  <2>2. Alone(v)
    BY DEF IInv
  <2> QED  BY <2>1, <2>2, OneUpload DEF Alone
<1>5. ASSUME NEW v \in Uploads, NEW w \in Uploads PROVE Overlap(v, w)'
  <2>1. Overlap(v, w)
    BY DEF IInv
  <2> QED  BY <2>1, OneUpload DEF Overlap
<1>6. ASSUME NEW n \in Names PROVE Owner(n)'
  <2>1. CASE n = up[u].name
    <3>1. n = up'[u].name
      BY <2>1 DEF StepOf
    <3> QED  BY <3>1, Zenon DEF Kept, Owner, Null
  <2>2. CASE n # up[u].name
    <3>1. writers'[n] = writers[n] /\ Owner(n)
      BY <2>2 DEF StepOf, IInv
    <3>2. ASSUME NEW v \in Uploads, up[v].name = n PROVE up'[v] = up[v]
      BY <3>2, <2>2 DEF StepOf
    <3>3. ASSUME NEW v \in Uploads, NEW k \in {"first", "last"}, writers'[n] = <<v, k>>
          PROVE  k = "first" /\ up'[v].name = n /\ IsUnfinished(v)' /\ HasOpened(v)' /\ ~HasEnded(v)'
      <4>1. k = "first" /\ up[v].name = n /\ IsUnfinished(v) /\ HasOpened(v) /\ ~HasEnded(v)
        BY <3>1, <3>3 DEF Owner
      <4>2. up'[v] = up[v]
        BY <4>1, <3>2
      <4> QED  BY <4>1, <4>2 DEF IsUnfinished, HasOpened, HasEnded, InHandler
    <3>4. ASSUME writers'[n] = Null
          PROVE  \E v \in Uploads : up'[v].name = n /\ up'[v].at = "locked" /\ up'[v].writer = Null
      <4>1. PICK v \in Uploads : up[v].name = n /\ up[v].at = "locked" /\ up[v].writer = Null
        BY <3>1, <3>4 DEF Owner
      <4>2. up'[v] = up[v]
        BY <4>1, <3>2
      <4> QED  BY <4>1, <4>2
    <3> QED  BY <3>3, <3>4, Zenon DEF Owner, Null
  <2> QED  BY <2>1, <2>2
<1> QED  BY <1>1, <1>2, <1>3, <1>4, <1>5, <1>6, Zenon DEF IInv, Kept

-----------------------------------------------------------------------------
(* SendChunk *)

Marked(r, at, b) == [r EXCEPT !.at = at, !.clash = r.clash \/ b]

LEMMA MarkedFields ==
  ASSUME NEW r \in Upload, NEW at \in {r.at, "sent"}, NEW b \in BOOLEAN
  PROVE  /\ Marked(r, at, b) \in Upload /\ Marked(r, at, b).name = r.name
         /\ Marked(r, at, b).total = r.total /\ Marked(r, at, b).next = r.next
         /\ Marked(r, at, b).writer = r.writer /\ Marked(r, at, b).at = at
         /\ Marked(r, at, b).stray = r.stray
         /\ (Marked(r, at, b).clash <=> r.clash \/ b)
         /\ ~b => (Marked(r, at, b).clash = r.clash)
         /\ ~b /\ at = r.at => Marked(r, at, b) = r
BY DEF Upload, Marked

\* The fields of all uploads after a chunk is sent.
LEMMA Sent ==
  ASSUME Types, NEW u \in Uploads, SendChunk(u),
         NEW others, others = (IF up[u].at = "idle" THEN Unfinished(up[u].name) ELSE {})
  PROVE  /\ up' \in [Uploads -> Upload]
         /\ \A v \in Uploads :
              /\ up'[v].name = up[v].name /\ up'[v].total = up[v].total
              /\ up'[v].next = up[v].next /\ up'[v].writer = up[v].writer
              /\ up'[v].stray = up[v].stray
              /\ up'[v].at = IF v = u THEN "sent" ELSE up[v].at
              /\ up'[v].clash <=> up[v].clash \/ (IF v = u THEN others # {} ELSE v \in others)
         /\ others = {} => /\ \A v \in Uploads \ {u} : up'[v] = up[v]
                           /\ (up'[u].clash = up[u].clash)
<1> DEFINE b(v) == IF v = u THEN others # {} ELSE v \in others
           at(v) == IF v = u THEN "sent" ELSE up[v].at
<1>1. up' = [v \in Uploads |-> IF v = u THEN [up[u] EXCEPT !.at = "sent", !.clash = @ \/ others # {}]
                               ELSE [up[v] EXCEPT !.clash = @ \/ v \in others]]
  BY DEF SendChunk
<1>2. ASSUME NEW v \in Uploads
      PROVE  /\ up'[v] \in Upload /\ up'[v].name = up[v].name /\ up'[v].total = up[v].total
             /\ up'[v].next = up[v].next /\ up'[v].writer = up[v].writer /\ up'[v].at = at(v)
             /\ up'[v].stray = up[v].stray
             /\ (up'[v].clash <=> up[v].clash \/ b(v))
             /\ ~b(v) => (up'[v].clash = up[v].clash)
             /\ ~b(v) /\ v # u => up'[v] = up[v]
  <2>1. up[v] \in Upload
    BY DEF Types
  <2>2. PICK c \in BOOLEAN : c <=> b(v)
    <3>1. CASE b(v)
      <4>1. TRUE <=> b(v)
        BY <3>1
      <4> QED  BY <4>1, Zenon
    <3>2. CASE ~b(v)
      <4>1. FALSE <=> b(v)
        BY <3>2
      <4> QED  BY <4>1, Zenon
    <3> QED  BY <3>1, <3>2
  <2>3. up'[v] = Marked(up[v], at(v), c)
    <3>1. CASE v = u
      BY <1>1, <2>2, <3>1 DEF Marked
    <3>2. CASE v # u
      BY <1>1, <2>1, <2>2, <3>2 DEF Upload, Marked
    <3> QED  BY <3>1, <3>2
  <2>4. at(v) \in {up[v].at, "sent"}
    OBVIOUS
  <2> HIDE DEF at, b
  <2>5. /\ up'[v] \in Upload /\ up'[v].name = up[v].name /\ up'[v].total = up[v].total
        /\ up'[v].next = up[v].next /\ up'[v].writer = up[v].writer /\ up'[v].at = at(v)
        /\ up'[v].stray = up[v].stray
        /\ (up'[v].clash <=> up[v].clash \/ c)
        /\ ~c => (up'[v].clash = up[v].clash)
        /\ ~c /\ at(v) = up[v].at => up'[v] = up[v]
    BY <2>1, <2>2, <2>3, <2>4, MarkedFields
  <2> QED  BY <2>2, <2>5 DEF at
<1>3. up' \in [Uploads -> Upload]
  BY <1>1, <1>2
<1> QED  BY <1>2, <1>3

LEMMA SendNext ==
  ASSUME IInv, NEW u \in Uploads, SendChunk(u), up[u].at = "ready"
  PROVE  IInv'
<1> DEFINE n == up[u].name
<1>1. /\ up' \in [Uploads -> Upload] /\ \A v \in Uploads \ {u} : up'[v] = up[v]
      /\ up'[u].name = n /\ up'[u].total = up[u].total /\ (up'[u].clash = up[u].clash)
      /\ up'[u].next = up[u].next /\ up'[u].writer = up[u].writer /\ up'[u].at = "sent"
      /\ up'[u].stray = up[u].stray
  BY Sent DEF IInv
<1>2. Sound(u) /\ up[u].next > 1 /\ up[u].next \in Nat \ {0} /\ n \in Names
  BY UploadFields DEF IInv, Sound
<1>3. latest' = latest /\ writers' = writers /\ file' = file /\ stream' = stream /\ crashed' = crashed
  BY DEF SendChunk
<1>4. HasOpened(u) /\ HasOpened(u)'
  BY <1>1, <1>2 DEF HasOpened
<1>5. StepOf(u)
  BY <1>1, <1>3, <1>4, Zenon DEF StepOf, IsUnfinished
<1>6. (InHandler(u) <=> InHandler(u)') /\ ~InHandler(u) /\ (Good(u) <=> Good(u)') /\ Mine(u)' = Mine(u)
      /\ Written(u)' = Written(u) /\ ~HasEnded(u) /\ ~HasEnded(u)' /\ First(u)' = First(u)
  BY <1>1, <1>5, OneUpload DEF InHandler, Mine, Written, HasEnded, First, Last
<1>7. Types'
  BY <1>1, <1>3 DEF IInv, Types
<1>8. Sound(u)'
  BY <1>1, <1>2, <1>6 DEF Sound, InHandler
<1>9. WriterOwner(u)'
  <2> SUFFICES ASSUME NEW w \in Uploads, NEW k \in {"first", "last"}, up'[u].writer = <<w, k>>
               PROVE  up'[w].name = up'[u].name /\ HasOpened(w)'
    BY DEF WriterOwner
  <2>1. up[w].name = up[u].name /\ HasOpened(w)
    BY <1>1 DEF IInv, WriterOwner
  <2> QED  BY <1>5, <2>1, OneUpload
<1>10. Listed(u)'
  BY <1>1, <1>3, <1>4, <1>6 DEF IInv, Listed
<1>11. OwnWriter(u)'
  BY <1>6 DEF OwnWriter
<1>12. Content(u)'
  <2> SUFFICES ASSUME Good(u) PROVE Content(u)'
    BY <1>6 DEF Content
  <2>1. PICK p \in Nat :
           /\ p <= Written(u)
           /\ stream[Mine(u)] = [pos |-> p, buffer |-> Part(u, p, Written(u))]
           /\ file[n] = Part(u, 0, p)
    BY <1>4 DEF IInv, Content
  <2>2. /\ p <= Written(u)'
        /\ stream'[Mine(u)'] = [pos |-> p, buffer |-> Part(u, p, Written(u)')]
        /\ file'[up'[u].name] = Part(u, 0, p)
    BY <1>1, <1>3, <1>6, <2>1
  <2> QED  BY <1>1, <2>2 DEF Content, Part
<1>13. Owner(n)'
  <2>1. Owner(n)
    BY <1>2 DEF IInv
  <2>2. ASSUME NEW v \in Uploads, NEW k \in {"first", "last"}, writers'[n] = <<v, k>>
        PROVE  k = "first" /\ up'[v].name = n /\ IsUnfinished(v)' /\ HasOpened(v)' /\ ~HasEnded(v)'
    <3>1. k = "first" /\ up[v].name = n /\ IsUnfinished(v) /\ HasOpened(v) /\ ~HasEnded(v)
      BY <1>3, <2>1, <2>2 DEF Owner
    <3> QED  BY <1>1, <1>4, <1>6, <3>1 DEF IsUnfinished, HasOpened, HasEnded, InHandler
  <2>3. ASSUME writers'[n] = Null
        PROVE  \E v \in Uploads : up'[v].name = n /\ up'[v].at = "locked" /\ up'[v].writer = Null
    <3>1. PICK v \in Uploads : up[v].name = n /\ up[v].at = "locked" /\ up[v].writer = Null
      BY <1>3, <2>1, <2>3 DEF Owner
    <3> QED  BY <1>1, <3>1
  <2> QED  BY <1>1, <2>2, <2>3, Zenon DEF Owner, Null
<1>14. Kept(u)
  BY <1>7, <1>8, <1>9, <1>10, <1>11, <1>12, <1>13, Zenon DEF Kept
<1> QED  BY <1>5, <1>14, StepKeeps

\* The first chunk of u ends what is known of other uploads of its name.
LEMMA SendFirst ==
  ASSUME IInv, NEW u \in Uploads, SendChunk(u), up[u].at = "idle"
  PROVE  IInv'
<1> DEFINE n == up[u].name
           others == Unfinished(n)
<1>1. /\ up' \in [Uploads -> Upload]
      /\ \A v \in Uploads :
           /\ up'[v].name = up[v].name /\ up'[v].total = up[v].total
           /\ up'[v].next = up[v].next /\ up'[v].writer = up[v].writer
           /\ up'[v].stray = up[v].stray
           /\ up'[v].at = IF v = u THEN "sent" ELSE up[v].at
           /\ up'[v].clash <=> up[v].clash \/ (IF v = u THEN others # {} ELSE v \in others)
  BY Sent DEF IInv
<1>2. \A v \in Uploads : v \in others <=> up[v].name = n /\ IsUnfinished(v)
  BY DEF Unfinished, IsUnfinished
<1>3. others \subseteq Uploads
  BY DEF Unfinished
<1> HIDE DEF others
<1>4. up[u].next = 1 /\ n \in Names /\ up[u].total \in Nat \ {0}
  BY UploadFields DEF IInv, Sound
<1>5. latest' = [latest EXCEPT ![n] = u] /\ DOMAIN latest = Names
      /\ writers' = writers /\ file' = file /\ stream' = stream /\ crashed' = crashed
  BY DEF SendChunk, IInv, Types
<1>6. ~HasOpened(u) /\ ~HasOpened(u)' /\ ~InHandler(u) /\ ~InHandler(u)' /\ ~IsUnfinished(u)
      /\ IsUnfinished(u)'
  BY <1>1, <1>4 DEF HasOpened, InHandler, IsUnfinished
<1>7. ASSUME NEW v \in Uploads
      PROVE  /\ (HasOpened(v)' <=> HasOpened(v)) /\ (InHandler(v)' <=> InHandler(v))
             /\ Mine(v)' = Mine(v) /\ First(v)' = First(v) /\ Last(v)' = Last(v)
             /\ v # u => ((HasEnded(v)' <=> HasEnded(v)) /\ (IsUnfinished(v)' <=> IsUnfinished(v)))
             /\ v # u => Written(v)' = Written(v)
  BY <1>1, <1>6 DEF HasOpened, InHandler, Mine, First, Last, HasEnded, IsUnfinished, Written
<1>8. ASSUME NEW v \in Uploads, v # u, Good(v)'
      PROVE  Good(v) /\ up[v].name # n
  <2>1. up'[v].at # "idle" /\ up'[v].stray = "no" /\ ~up'[v].clash /\ latest'[up'[v].name] = v
    BY <1>8 DEF Good
  <2>2. up[v].at # "idle" /\ up[v].stray = "no" /\ ~up[v].clash
    BY <1>1, <1>8, <2>1
  <2>3. up[v].name # n
    BY <1>1, <1>4, <1>5, <1>8, <2>1
  <2>4. latest[up[v].name] = v
    BY <1>1, <1>4, <1>5, <2>1, <2>3, UploadFields DEF IInv
  <2> QED  BY <2>2, <2>3, <2>4 DEF Good
<1>9. Types'
  BY <1>1, <1>5 DEF IInv, Types
<1>10. ASSUME NEW v \in Uploads PROVE Sound(v)'
  <2>1. Sound(v) /\ (v = u => 1 <= up[u].total)
    BY <1>4 DEF IInv
  <2> QED  BY <1>1, <1>4, <1>6, <2>1 DEF Sound, InHandler
<1>11. ASSUME NEW v \in Uploads PROVE WriterOwner(v)'
  <2> SUFFICES ASSUME NEW w \in Uploads, NEW k \in {"first", "last"}, up'[v].writer = <<w, k>>
               PROVE  up'[w].name = up'[v].name /\ HasOpened(w)'
    BY DEF WriterOwner
  <2>1. up[w].name = up[v].name /\ HasOpened(w)
    BY <1>1 DEF IInv, WriterOwner
  <2> QED  BY <1>1, <1>7, <2>1
<1>12. ASSUME NEW v \in Uploads PROVE Untouched(v)'
  BY <1>5, <1>7 DEF IInv, Untouched, Opened
<1>13. ASSUME NEW v \in Uploads PROVE IsLatest(v)'
  <2> SUFFICES ASSUME IsUnfinished(v)', ~up'[v].clash PROVE latest'[up'[v].name] = v
    BY DEF IsLatest
  <2>1. CASE v = u
    BY <2>1, <1>1, <1>4, <1>5
  <2>2. CASE v # u
    <3>1. IsUnfinished(v) /\ ~up[v].clash /\ v \notin others
      BY <2>2, <1>1, <1>7
    <3>2. up[v].name # n /\ up[v].name \in Names
      BY <3>1, <1>2, UploadFields DEF IInv
    <3>3. latest[up[v].name] = v
      BY <3>1 DEF IInv, IsLatest
    <3> QED  BY <3>2, <3>3, <1>1, <1>5
  <2> QED  BY <2>1, <2>2
<1>14. ASSUME NEW v \in Uploads PROVE Alone(v)'
  <2> SUFFICES ASSUME Good(v)', NEW w \in Uploads \ {v}, up'[w].name = up'[v].name
               PROVE  ~IsUnfinished(w)'
    BY DEF Alone
  <2>1. up[w].name = up[v].name
    BY <1>1
  <2>2. CASE v = u
    <3>1. others = {}
      BY <2>2, <1>1, Zenon DEF Good
    <3> QED  BY <2>1, <2>2, <3>1, <1>2, <1>7
  <2>3. CASE v # u
    <3>1. Good(v) /\ up[v].name # n
      BY <2>3, <1>8
    <3>2. w # u /\ ~IsUnfinished(w)
      BY <2>1, <3>1 DEF IInv, Alone
    <3> QED  BY <3>2, <1>7
  <2> QED  BY <2>2, <2>3
<1>15. ASSUME NEW v \in Uploads PROVE Listed(v)'
  <2> SUFFICES ASSUME Good(v)', HasOpened(v)', up'[v].total > 1, ~HasEnded(v)'
               PROVE  writers'[up'[v].name] = First(v)'
    BY DEF Listed
  <2>1. v # u /\ HasOpened(v) /\ up[v].total > 1 /\ ~HasEnded(v)
    BY <1>1, <1>6, <1>7
  <2>2. Good(v)
    BY <2>1, <1>8
  <2>3. writers[up[v].name] = First(v)
    BY <2>1, <2>2 DEF IInv, Listed
  <2> QED  BY <2>3, <1>1, <1>5, <1>7
<1>16. ASSUME NEW v \in Uploads PROVE OwnWriter(v)'
  <2> SUFFICES ASSUME Good(v)', InHandler(v)' PROVE up'[v].writer = Mine(v)'
    BY DEF OwnWriter
  <2>1. v # u /\ InHandler(v)
    BY <1>6, <1>7
  <2>2. Good(v)
    BY <2>1, <1>8
  <2> QED  BY <2>1, <2>2, <1>1, <1>7 DEF IInv, OwnWriter
<1>17. ASSUME NEW v \in Uploads PROVE Content(v)'
  <2> SUFFICES ASSUME Good(v)', HasOpened(v)' PROVE Content(v)'
    BY DEF Content
  <2>1. v # u /\ HasOpened(v) /\ Content(v)
    BY <1>6, <1>7 DEF IInv
  <2>2. Good(v)
    BY <2>1, <1>8
  <2>3. CASE up[v].at = "done"
    BY <2>1, <2>2, <2>3, <1>1, <1>5 DEF Content, Part
  <2>4. CASE up[v].at # "done"
    <3>1. PICK p \in Nat :
            /\ p <= Written(v)
            /\ stream[Mine(v)] = [pos |-> p, buffer |-> Part(v, p, Written(v))]
            /\ file[up[v].name] = Part(v, 0, p)
      BY <2>1, <2>2, <2>4 DEF Content
    <3>2. /\ p <= Written(v)'
          /\ stream'[Mine(v)'] = [pos |-> p, buffer |-> Part(v, p, Written(v)')]
          /\ file'[up'[v].name] = Part(v, 0, p)
      BY <3>1, <2>1, <1>1, <1>5, <1>7
    <3> QED  BY <3>2, <2>1, <2>4, <1>1 DEF Content, Part
  <2> QED  BY <2>3, <2>4
<1>18. ASSUME NEW m \in Names PROVE Owner(m)'
  <2>1. Owner(m)
    BY DEF IInv
  <2>2. ASSUME NEW v \in Uploads, NEW k \in {"first", "last"}, writers'[m] = <<v, k>>
        PROVE  k = "first" /\ up'[v].name = m /\ IsUnfinished(v)' /\ HasOpened(v)' /\ ~HasEnded(v)'
    <3>1. k = "first" /\ up[v].name = m /\ IsUnfinished(v) /\ HasOpened(v) /\ ~HasEnded(v)
      BY <1>5, <2>1, <2>2 DEF Owner
    <3> QED  BY <1>1, <1>6, <1>7, <3>1
  <2>3. ASSUME writers'[m] = Null
        PROVE  \E v \in Uploads : up'[v].name = m /\ up'[v].at = "locked" /\ up'[v].writer = Null
    <3>1. PICK v \in Uploads : up[v].name = m /\ up[v].at = "locked" /\ up[v].writer = Null
      BY <1>5, <2>1, <2>3 DEF Owner
    <3> QED  BY <1>1, <3>1
  <2> QED  BY <2>2, <2>3, Zenon DEF Owner, Null
<1>19. ASSUME NEW v \in Uploads, NEW w \in Uploads PROVE Overlap(v, w)'
  <2> SUFFICES ASSUME v # w, up[v].name = up[w].name, IsUnfinished(v)', IsUnfinished(w)'
               PROVE  up'[v].clash
    BY <1>1 DEF Overlap
  <2>1. CASE v = u
    <3>1. w \in others
      BY <2>1, <1>2, <1>7
    <3> QED  BY <2>1, <3>1, <1>1
  <2>2. CASE w = u
    <3>1. v \in others
      BY <2>2, <1>2, <1>7
    <3> QED  BY <2>2, <3>1, <1>1
  <2>3. CASE v # u /\ w # u
    <3>1. up[v].clash
      BY <2>3, <1>7 DEF IInv, Overlap
    <3> QED  BY <3>1, <1>1
  <2> QED  BY <2>1, <2>2, <2>3
<1> QED
  BY <1>9, <1>10, <1>11, <1>12, <1>13, <1>14, <1>15, <1>16, <1>17, <1>18, <1>19, Zenon
  DEF IInv

-----------------------------------------------------------------------------
(* The switch of UploadHandler::write() *)

\* What the cases have in common.
LEMMA LockKeeps ==
  ASSUME IInv, NEW u \in Uploads, NEW w \in Streams \cup {Null}, Lock(u, w),
         latest' = latest, crashed' = crashed, stream' = stream,
         writers' \in [Names -> Streams \cup {Absent, Null}], DOMAIN file' = Names,
         \A m \in Names \ {up[u].name} : writers'[m] = writers[m] /\ file'[m] = file[m],
         \A v \in Uploads, k \in {"first", "last"} :
           w = <<v, k>> => v = u \/ writers[up[u].name] = w
  PROVE  /\ StepOf(u) /\ Types' /\ Sound(u)' /\ WriterOwner(u)'
         /\ up'[u].at = "locked" /\ up'[u].writer = w /\ up'[u].name = up[u].name
         /\ up'[u].next = up[u].next /\ up'[u].total = up[u].total
         /\ HasOpened(u)' /\ (Good(u)' <=> Good(u)) /\ (Mine(u)' = Mine(u))
         /\ Written(u)' = Written(u) /\ First(u)' = First(u)
<1>1. up[u].at = "sent" /\ up' = [up EXCEPT ![u].at = "locked", ![u].writer = w]
  BY DEF Lock
<1>2. up[u] \in Upload /\ up \in [Uploads -> Upload]
  BY DEF IInv, Types
<1>3. /\ up' \in [Uploads -> Upload] /\ \A v \in Uploads \ {u} : up'[v] = up[v]
      /\ up'[u].at = "locked" /\ up'[u].writer = w /\ up'[u].name = up[u].name
      /\ up'[u].next = up[u].next /\ up'[u].total = up[u].total /\ (up'[u].clash = up[u].clash)
      /\ up'[u].stray = up[u].stray
  BY <1>1, <1>2 DEF Upload
<1>4. HasOpened(u)'
  BY <1>3 DEF HasOpened, InHandler
<1>5. StepOf(u)
  BY <1>1, <1>3, <1>4, Zenon DEF StepOf, IsUnfinished
<1>6. Types'
  BY <1>3 DEF IInv, Types
<1>7. Sound(u)'
  <2>1. Sound(u) /\ up[u].next <= up[u].total /\ w # Absent
    BY <1>1, StreamNames DEF IInv, Sound
  <2> QED  BY <1>3, <2>1 DEF Sound, InHandler
<1>8. WriterOwner(u)'
  <2> SUFFICES ASSUME NEW v \in Uploads, NEW k \in {"first", "last"}, w = <<v, k>>
               PROVE  up'[v].name = up'[u].name /\ HasOpened(v)'
    BY <1>3 DEF WriterOwner
  <2>1. CASE v = u
    BY <2>1, <1>4
  <2>2. CASE writers[up[u].name] = w
    <3>1. up[u].name \in Names /\ Owner(up[u].name)
      BY <1>2 DEF Upload, IInv
    <3>2. up[v].name = up[u].name /\ HasOpened(v)
      BY <2>2, <3>1 DEF Owner
    <3> QED  BY <3>2, <1>5, OneUpload
  <2> QED  BY <2>1, <2>2
<1>9. (Good(u)' <=> Good(u)) /\ (Mine(u)' = Mine(u)) /\ Written(u)' = Written(u) /\ First(u)' = First(u)
  BY <1>1, <1>3, <1>5, OneUpload DEF Mine, Written, First, Last
<1> QED  BY <1>3, <1>4, <1>5, <1>6, <1>7, <1>8, <1>9

\* A file that a Good upload makes has nothing, and so has its buffer.
LEMMA FreshContent ==
  ASSUME IInv, NEW u \in Uploads, Good(u)', up[u].at = "sent", up'[u].at = "locked", up[u].next = 1,
         up'[u].next = 1, up'[u].name = up[u].name, Mine(u)' = Mine(u),
         stream' = stream, file'[up[u].name] = <<>>
  PROVE  Content(u)'
<1>1. stream'[Mine(u)'] = [pos |-> 0, buffer |-> <<>>]
  BY DEF IInv, Untouched, HasOpened, InHandler, Mine, Opened
<1>2. Written(u)' = 0
  BY DEF Written
<1>3. Part(u, 0, 0) = <<>>
  BY EmptyPart
<1>4. /\ 0 <= Written(u)'
      /\ stream'[Mine(u)'] = [pos |-> 0, buffer |-> Part(u, 0, Written(u)')]
      /\ file'[up'[u].name] = Part(u, 0, 0)
  BY <1>1, <1>2, <1>3
<1> QED  BY <1>4 DEF Content, Part

\* The content when nothing is written.
LEMMA SameContent ==
  ASSUME IInv, NEW u \in Uploads, Good(u), HasOpened(u), up[u].at # "done", up'[u].at # "done",
         up'[u].name = up[u].name, Mine(u)' = Mine(u), Written(u)' = Written(u),
         stream' = stream, file' = file
  PROVE  Content(u)'
<1>1. PICK p \in Nat :
        /\ p <= Written(u)
        /\ stream[Mine(u)] = [pos |-> p, buffer |-> Part(u, p, Written(u))]
        /\ file[up[u].name] = Part(u, 0, p)
  BY DEF IInv, Content
<1>2. /\ p <= Written(u)'
      /\ stream'[Mine(u)'] = [pos |-> p, buffer |-> Part(u, p, Written(u)')]
      /\ file'[up'[u].name] = Part(u, 0, p)
  BY <1>1
<1> QED  BY <1>2 DEF Content, Part

LEMMA FirstStep ==
  ASSUME IInv, NEW u \in Uploads, FirstChunk(u)
  PROVE  IInv'
<1> DEFINE n == up[u].name
<1>1. /\ Lock(u, First(u)) /\ up[u].at = "sent" /\ latest' = latest /\ crashed' = crashed
      /\ stream' = stream /\ writers' = [writers EXCEPT ![n] = First(u)]
  BY DEF FirstChunk, First, Lock
<1>2. up[u].next = 1 /\ up[u].total # 1 /\ up[u].total > 1 /\ n \in Names /\ Sound(u)
  BY UploadFields DEF FirstChunk, Flag, IInv, Sound
<1>3. PICK f : Becomes(n, f) /\ (writers[n] = Absent => f = <<>>)
  BY StreamNames DEF FirstChunk, Truncates
<1>4. file' = [file EXCEPT ![n] = f] /\ DOMAIN file = Names
  BY <1>3 DEF Becomes, IInv, Types
<1>5. First(u) \in Streams /\ First(u) # Null /\ writers' \in [Names -> Streams \cup {Absent, Null}]
      /\ writers'[n] = First(u)
  BY <1>1, <1>2, StreamNames DEF IInv, Types
<1>6. /\ StepOf(u) /\ Types' /\ Sound(u)' /\ WriterOwner(u)'
      /\ up'[u].at = "locked" /\ up'[u].writer = First(u) /\ up'[u].name = n
      /\ up'[u].next = up[u].next /\ up'[u].total = up[u].total
      /\ HasOpened(u)' /\ (Good(u)' <=> Good(u)) /\ (Mine(u)' = Mine(u))
      /\ Written(u)' = Written(u) /\ First(u)' = First(u)
  <2>1. \A m \in Names \ {n} : writers'[m] = writers[m] /\ file'[m] = file[m]
    BY <1>1, <1>4 DEF IInv, Types
  <2>2. \A v \in Uploads, k \in {"first", "last"} : First(u) = <<v, k>> => v = u
    BY DEF First
  <2> QED  BY <1>1, <1>4, <1>5, <2>1, <2>2, LockKeeps
<1>7. Listed(u)'
  BY <1>5, <1>6 DEF Listed
<1>8. OwnWriter(u)'
  BY <1>2, <1>6 DEF OwnWriter, Mine
<1>9. Content(u)'
  <2> SUFFICES ASSUME Good(u)' PROVE Content(u)'
    BY DEF Content
  <2>1. writers[n] = Absent
    BY <1>1, <1>2, <1>6, NothingListed
  <2>2. file'[n] = <<>>
    BY <1>2, <1>3, <1>4, <2>1
  <2> QED  BY <1>1, <1>2, <1>6, <2>2, FreshContent
<1>10. Owner(n)'
  <2>1. ASSUME NEW v \in Uploads, NEW k \in {"first", "last"}, writers'[n] = <<v, k>>
        PROVE  k = "first" /\ up'[v].name = n /\ IsUnfinished(v)' /\ HasOpened(v)' /\ ~HasEnded(v)'
    <3>1. v = u /\ k = "first"
      BY <1>5, <2>1 DEF First
    <3> QED  BY <1>2, <1>6, <3>1 DEF IsUnfinished, HasEnded
  <2>2. writers'[n] # Null
    BY <1>5
  <2> QED  BY <1>6, <2>1, <2>2, Zenon DEF Owner, Null
<1>11. Kept(u)
  BY <1>6, <1>7, <1>8, <1>9, <1>10, Zenon DEF Kept
<1> QED  BY <1>6, <1>11, StepKeeps

LEMMA MiddleStep ==
  ASSUME IInv, NEW u \in Uploads, MiddleChunk(u)
  PROVE  IInv'
<1> DEFINE n == up[u].name
<1>1. PICK w : /\ w = IF writers[n] = Absent THEN Null ELSE writers[n]
               /\ Lock(u, w) /\ writers' = [writers EXCEPT ![n] = w]
  BY DEF MiddleChunk
<1>2. /\ up[u].at = "sent" /\ latest' = latest /\ crashed' = crashed
      /\ stream' = stream /\ file' = file /\ DOMAIN file = Names
  BY DEF MiddleChunk, Lock, IInv, Types
<1>3. /\ n \in Names
      /\ up[u].stray = "no" => up[u].next > 1 /\ up[u].next # up[u].total
      /\ up[u].stray # "no" => up[u].next = 1
  <2>1. up[u].stray = "no" => up[u].next # 1 /\ up[u].next # up[u].total
    BY DEF MiddleChunk, Flag
  <2>2. up[u].stray # "no" => up[u].next <= 1
    BY <1>2 DEF IInv, Sound
  <2> QED  BY <2>1, <2>2, UploadFields DEF IInv
<1>4. w \in Streams \cup {Null} /\ writers' \in [Names -> Streams \cup {Absent, Null}] /\ writers'[n] = w
  BY <1>1, <1>3, StreamNames DEF IInv, Types
<1>5. /\ StepOf(u) /\ Types' /\ Sound(u)' /\ WriterOwner(u)'
      /\ up'[u].at = "locked" /\ up'[u].writer = w /\ up'[u].name = n
      /\ up'[u].next = up[u].next /\ up'[u].total = up[u].total
      /\ HasOpened(u)' /\ (Good(u)' <=> Good(u)) /\ (Mine(u)' = Mine(u))
      /\ Written(u)' = Written(u) /\ First(u)' = First(u)
  <2>1. \A m \in Names \ {n} : writers'[m] = writers[m] /\ file'[m] = file[m]
    BY <1>1, <1>2 DEF IInv, Types
  <2>2. \A v \in Uploads, k \in {"first", "last"} : w = <<v, k>> => writers[n] = w
    <3>1. CASE writers[n] = Absent
      <4>1. w = Null
        BY <1>1, <3>1
      <4>2. \A v \in Uploads, k \in {"first", "last"} : <<v, k>> # Null
        BY StreamNames DEF Streams
      <4> QED  BY <4>1, <4>2
    <3>2. CASE writers[n] # Absent
      BY <1>1, <3>2
    <3> QED  BY <3>1, <3>2
  <2> QED  BY <1>1, <1>2, <1>4, <2>1, <2>2, LockKeeps
<1>6. ASSUME Good(u) \/ HasOpened(u) PROVE HasOpened(u) /\ ~HasEnded(u) /\ ~HasEnded(u)'
  BY <1>2, <1>3, <1>5, <1>6 DEF Good, HasOpened, HasEnded, InHandler
<1>7. ASSUME Good(u) PROVE w = First(u) /\ up[u].total > 1
  <2>1. up[u].total > 1
    BY <1>2, <1>3, <1>7, UploadFields DEF IInv, Sound, Good
  <2>2. writers[n] = First(u)
    BY <1>6, <1>7, <2>1 DEF IInv, Listed
  <2> QED  BY <1>1, <2>1, <2>2, StreamNames
<1>8. Listed(u)'
  BY <1>4, <1>5, <1>7 DEF Listed
<1>9. OwnWriter(u)'
  BY <1>5, <1>7 DEF OwnWriter, Mine
<1>10. Content(u)'
  <2> SUFFICES ASSUME Good(u)' PROVE Content(u)'
    BY DEF Content
  <2>1. Good(u) /\ up[u].at # "done" /\ up'[u].at # "done"
    BY <1>2, <1>5
  <2> QED  BY <1>2, <1>5, <1>6, <2>1, SameContent
<1>11. Owner(n)'
  <2>1. Owner(n)
    BY <1>3 DEF IInv
  <2>2. ASSUME NEW v \in Uploads, NEW k \in {"first", "last"}, writers'[n] = <<v, k>>
        PROVE  k = "first" /\ up'[v].name = n /\ IsUnfinished(v)' /\ HasOpened(v)' /\ ~HasEnded(v)'
    <3>1. writers[n] = <<v, k>>
      <4>1. <<v, k>> \in Streams
        BY DEF Streams
      <4> QED  BY <1>1, <1>4, <2>2, <4>1, StreamNames
    <3>2. k = "first" /\ up[v].name = n /\ IsUnfinished(v) /\ HasOpened(v) /\ ~HasEnded(v)
      BY <2>1, <3>1 DEF Owner
    <3>3. CASE v = u
      BY <1>5, <1>6, <3>2, <3>3 DEF IsUnfinished
    <3>4. CASE v # u
      <4>1. up'[v] = up[v]
        BY <1>5, <3>4 DEF StepOf
      <4> QED  BY <3>2, <4>1 DEF IsUnfinished, HasOpened, HasEnded, InHandler
    <3> QED  BY <3>3, <3>4
  <2>3. ASSUME writers'[n] = Null
        PROVE  \E v \in Uploads : up'[v].name = n /\ up'[v].at = "locked" /\ up'[v].writer = Null
    BY <1>4, <1>5, <2>3
  <2> QED  BY <1>5, <2>2, <2>3, Zenon DEF Owner, Null
<1>12. Kept(u)
  BY <1>5, <1>8, <1>9, <1>10, <1>11, Zenon DEF Kept
<1> QED  BY <1>5, <1>12, StepKeeps

LEMMA LastStep ==
  ASSUME IInv, NEW u \in Uploads, LastChunk(u)
  PROVE  IInv'
<1> DEFINE n == up[u].name
<1>1. PICK w : /\ Lock(u, w)
               /\ w = IF writers[n] = Absent THEN Last(u) ELSE writers[n]
               /\ IF writers[n] = Absent THEN Becomes(n, <<>>) ELSE file' = file
  BY StreamNames DEF LastChunk, Last, Truncates
<1>2. /\ up[u].at = "sent" /\ latest' = latest /\ crashed' = crashed
      /\ stream' = stream /\ writers' = [writers EXCEPT ![n] = Absent]
  BY <1>1 DEF LastChunk, Lock
<1>3. up[u].next = up[u].total /\ n \in Names /\ up[u].total \in Nat \ {0} /\ DOMAIN file = Names
  BY UploadFields, Zenon DEF LastChunk, Flag, IInv, Types
<1>4. w \in Streams \cup {Null} /\ writers' \in [Names -> Streams \cup {Absent, Null}]
      /\ writers'[n] = Absent
  BY <1>1, <1>2, <1>3, StreamNames DEF IInv, Types
<1>5. DOMAIN file' = Names /\ \A m \in Names \ {n} : file'[m] = file[m]
  BY <1>1, <1>3 DEF Becomes
<1>6. /\ StepOf(u) /\ Types' /\ Sound(u)' /\ WriterOwner(u)'
      /\ up'[u].at = "locked" /\ up'[u].writer = w /\ up'[u].name = n
      /\ up'[u].next = up[u].next /\ up'[u].total = up[u].total
      /\ HasOpened(u)' /\ (Good(u)' <=> Good(u)) /\ (Mine(u)' = Mine(u))
      /\ Written(u)' = Written(u) /\ First(u)' = First(u)
  <2>1. \A m \in Names \ {n} : writers'[m] = writers[m] /\ file'[m] = file[m]
    BY <1>2, <1>5 DEF IInv, Types
  <2>2. \A v \in Uploads, k \in {"first", "last"} : w = <<v, k>> => v = u \/ writers[n] = w
    BY <1>1 DEF Last
  <2> QED  BY <1>1, <1>2, <1>4, <1>5, <2>1, <2>2, LockKeeps
<1>7. HasEnded(u)' /\ ~HasEnded(u)
  BY <1>2, <1>3, <1>6 DEF HasEnded, InHandler
<1>8. Listed(u)'
  BY <1>7 DEF Listed
<1>9. ASSUME Good(u), up[u].total = 1 PROVE writers[n] = Absent
  BY <1>2, <1>3, <1>9, NothingListed
<1>10. ASSUME Good(u), up[u].total # 1 PROVE writers[n] = First(u) /\ writers[n] # Absent /\ HasOpened(u)
  <2>1. up[u].total > 1 /\ HasOpened(u)
    BY <1>3, <1>10 DEF HasOpened
  <2> QED  BY <1>7, <1>10, <2>1, StreamNames DEF IInv, Listed
<1>11. OwnWriter(u)'
  BY <1>1, <1>6, <1>9, <1>10 DEF OwnWriter, Mine
<1>12. Content(u)'
  <2> SUFFICES ASSUME Good(u)' PROVE Content(u)'
    BY DEF Content
  <2>1. Good(u) /\ up[u].at # "done" /\ up'[u].at # "done"
    BY <1>2, <1>6
  <2>2. CASE up[u].total = 1
    <3>1. file'[n] = <<>>
      BY <1>1, <1>3, <1>9, <2>1, <2>2 DEF Becomes
    <3> QED  BY <1>2, <1>3, <1>6, <2>2, <3>1, FreshContent
  <2>3. CASE up[u].total # 1
    <3>1. file' = file /\ HasOpened(u)
      BY <1>1, <1>10, <2>1, <2>3
    <3> QED  BY <1>2, <1>6, <2>1, <3>1, SameContent
  <2> QED  BY <2>2, <2>3
<1>13. Owner(n)'
  <2>1. \A v \in Uploads, k \in {"first", "last"} : writers'[n] # <<v, k>>
    BY <1>4, StreamNames DEF Streams
  <2>2. writers'[n] # Null
    BY <1>4, StreamNames
  <2> QED  BY <1>6, <2>1, <2>2, Zenon DEF Owner, Null
<1>14. Kept(u)
  BY <1>6, <1>8, <1>11, <1>12, <1>13, Zenon DEF Kept
<1> QED  BY <1>6, <1>14, StepKeeps

LEMMA OtherStep ==
  ASSUME IInv, NEW u \in Uploads, OtherChunk(u)
  PROVE  IInv'
<1> DEFINE n == up[u].name
<1>1. /\ Lock(u, Null) /\ up[u].at = "sent" /\ latest' = latest /\ crashed' = crashed
      /\ stream' = stream /\ writers' = writers /\ file' = file /\ DOMAIN file = Names
  BY DEF OtherChunk, Lock, IInv, Types
<1>2. up[u].stray # "no" /\ up[u].next = 1 /\ n \in Names
  <2>1. up[u].stray # "no"
    BY DEF OtherChunk, Flag
  <2>2. up[u].next <= 1
    BY <1>1, <2>1 DEF IInv, Sound
  <2> QED  BY <2>1, <2>2, UploadFields DEF IInv
<1>3. ~HasOpened(u) /\ ~Good(u)
  BY <1>1, <1>2 DEF HasOpened, InHandler, Good
<1>4. /\ StepOf(u) /\ Types' /\ Sound(u)' /\ WriterOwner(u)'
      /\ up'[u].at = "locked" /\ up'[u].writer = Null /\ up'[u].name = n
      /\ (Good(u)' <=> Good(u))
  <2>1. writers \in [Names -> Streams \cup {Absent, Null}]
    BY DEF IInv, Types
  <2>2. \A v \in Uploads, k \in {"first", "last"} : Null # <<v, k>>
    BY StreamNames DEF Streams
  <2> QED  BY <1>1, <2>1, <2>2, LockKeeps
<1>5. Listed(u)' /\ OwnWriter(u)' /\ Content(u)'
  BY <1>3, <1>4 DEF Listed, OwnWriter, Content
<1>6. Owner(n)'
  <2>1. Owner(n)
    BY <1>2 DEF IInv
  <2>2. ASSUME NEW v \in Uploads, NEW k \in {"first", "last"}, writers'[n] = <<v, k>>
        PROVE  k = "first" /\ up'[v].name = n /\ IsUnfinished(v)' /\ HasOpened(v)' /\ ~HasEnded(v)'
    <3>1. k = "first" /\ up[v].name = n /\ IsUnfinished(v) /\ HasOpened(v) /\ ~HasEnded(v)
      BY <1>1, <2>1, <2>2 DEF Owner
    <3>2. up'[v] = up[v]
      BY <1>3, <1>4, <3>1 DEF StepOf
    <3> QED  BY <3>1, <3>2 DEF IsUnfinished, HasOpened, HasEnded, InHandler
  <2>3. \E v \in Uploads : up'[v].name = n /\ up'[v].at = "locked" /\ up'[v].writer = Null
    BY <1>4
  <2> QED  BY <1>4, <2>2, <2>3, Zenon DEF Owner, Null
<1>7. Kept(u)
  BY <1>4, <1>5, <1>6, Zenon DEF Kept
<1> QED  BY <1>4, <1>7, StepKeeps

-----------------------------------------------------------------------------
(* The write, and the end of the handler *)

LEMMA WriteStep ==
  ASSUME IInv, NEW u \in Uploads, WriteChunk(u)
  PROVE  IInv'
<1> DEFINE n == up[u].name
           s == up[u].writer
           next == up[u].next
           chunks == Append(stream[s].buffer, <<u, next>>)
<1>1. /\ up[u].at = "locked" /\ s \in Streams /\ up' = [up EXCEPT ![u].at = "written"]
      /\ writers' = writers /\ latest' = latest /\ crashed' = crashed
  BY DEF WriteChunk
<1>2. \/ /\ stream' = [stream EXCEPT ![s].buffer = chunks] /\ file' = file
      \/ /\ stream' = [stream EXCEPT ![s] = [pos |-> @.pos + Len(chunks), buffer |-> <<>>]]
         /\ file' = [file EXCEPT ![n] = Overwrite(file[n], stream[s].pos, chunks)]
  BY DEF WriteChunk, Becomes
<1>3. /\ up[u] \in Upload /\ up \in [Uploads -> Upload] /\ n \in Names /\ next \in Nat \ {0}
      /\ DOMAIN stream = Streams /\ DOMAIN file = Names
  BY UploadFields DEF IInv, Types
<1>4. /\ up' \in [Uploads -> Upload] /\ \A v \in Uploads \ {u} : up'[v] = up[v]
      /\ up'[u].at = "written" /\ up'[u].writer = s /\ up'[u].name = n
      /\ up'[u].next = next /\ up'[u].total = up[u].total /\ (up'[u].clash = up[u].clash)
      /\ up'[u].stray = up[u].stray
  BY <1>1, <1>3 DEF Upload
<1>5. HasOpened(u) /\ HasOpened(u)' /\ InHandler(u) /\ InHandler(u)'
  BY <1>1, <1>4 DEF HasOpened, InHandler
<1>6. PICK w \in Uploads, j \in {"first", "last"} : s = <<w, j>>
  BY <1>1, StreamNames
<1>7. up[w].name = n /\ HasOpened(w)
  BY <1>6 DEF IInv, WriterOwner
<1>8. /\ DOMAIN stream' = Streams /\ \A r \in Streams \ {s} : stream'[r] = stream[r]
      /\ DOMAIN file' = Names /\ \A m \in Names \ {n} : file'[m] = file[m]
  <2> HIDE DEF chunks, s, n
  <2> QED  BY <1>2, <1>3
<1>9. StepOf(u)
  <2>1. ASSUME NEW v \in Uploads, NEW k \in {"first", "last"}, up[v].name # n \/ ~HasOpened(v)
        PROVE  stream'[<<v, k>>] = stream[<<v, k>>]
    <3>1. <<v, k>> # s /\ <<v, k>> \in Streams
      BY <1>6, <1>7, <2>1 DEF Streams
    <3> QED  BY <3>1, <1>8
  <2>2. IsUnfinished(u) /\ up'[u].at # "idle"
    BY <1>1, <1>4 DEF IsUnfinished
  <2>3. \A m \in Names \ {n} : writers'[m] = writers[m] /\ file'[m] = file[m]
    BY <1>1, <1>8
  <2> QED  BY <1>1, <1>4, <1>5, <2>1, <2>2, <2>3, Zenon DEF StepOf
<1>10. (Good(u)' <=> Good(u)) /\ Mine(u)' = Mine(u) /\ First(u)' = First(u)
       /\ (HasEnded(u)' <=> HasEnded(u)) /\ Written(u) = next - 1 /\ Written(u)' = next
  BY <1>1, <1>4, <1>5, <1>9, OneUpload DEF Mine, First, Last, HasEnded, Written
<1>11. Types'
  BY <1>1, <1>4, <1>8 DEF IInv, Types
<1>12. Sound(u)'
  BY <1>1, <1>4, <1>5, StreamNames DEF IInv, Sound
<1>13. WriterOwner(u)'
  <2> SUFFICES ASSUME NEW v \in Uploads, NEW k \in {"first", "last"}, s = <<v, k>>
               PROVE  up'[v].name = up'[u].name /\ HasOpened(v)'
    BY <1>4 DEF WriterOwner
  <2>1. up[v].name = n /\ HasOpened(v)
    BY DEF IInv, WriterOwner
  <2> QED  BY <1>4, <1>9, <2>1, OneUpload
<1>14. Listed(u)'
  BY <1>1, <1>4, <1>5, <1>10 DEF IInv, Listed
<1>15. OwnWriter(u)'
  BY <1>4, <1>5, <1>10 DEF IInv, OwnWriter
<1>16. Content(u)'
  <2> SUFFICES ASSUME Good(u) PROVE Content(u)'
    BY <1>10 DEF Content
  <2>1. s = Mine(u)
    BY <1>5 DEF IInv, OwnWriter
  <2>2. PICK p \in Nat :
           /\ p <= next - 1
           /\ stream[s] = [pos |-> p, buffer |-> Part(u, p, next - 1)]
           /\ file[n] = Part(u, 0, p)
    BY <1>1, <1>5, <1>10, <2>1 DEF IInv, Content
  <2>3. chunks = Part(u, p, next)
    <3>1. next - 1 \in Nat /\ next \in Nat /\ next = (next - 1) + 1
      BY <1>3
    <3>2. Append(Part(u, p, next - 1), <<u, next>>) = Part(u, p, next)
      BY <2>2, <3>1, PartAppend
    <3> QED  BY <2>2, <3>2
  <2>4. p <= next /\ next \in Nat
    BY <1>3, <2>2
  <2> HIDE DEF chunks
  <2>5. CASE stream' = [stream EXCEPT ![s].buffer = chunks] /\ file' = file
    <3>1. stream'[s] = [pos |-> p, buffer |-> Part(u, p, next)]
      BY <1>1, <1>3, <2>2, <2>3, <2>5
    <3>2. /\ p <= Written(u)'
          /\ stream'[Mine(u)'] = [pos |-> p, buffer |-> Part(u, p, Written(u)')]
          /\ file'[up'[u].name] = Part(u, 0, p)
      BY <1>4, <1>10, <2>1, <2>2, <2>4, <2>5, <3>1
    <3> QED  BY <1>4, <3>2 DEF Content, Part
  <2>6. CASE /\ stream' = [stream EXCEPT ![s] = [pos |-> @.pos + Len(chunks), buffer |-> <<>>]]
             /\ file' = [file EXCEPT ![n] = Overwrite(file[n], stream[s].pos, chunks)]
    <3>1. Len(chunks) = next - p
      BY <2>3, <2>4, PartSeq
    <3>2. stream'[s] = [pos |-> next, buffer |-> Part(u, next, next)]
      <4>1. Part(u, next, next) = <<>>
        BY <2>4, EmptyPart
      <4>2. stream[s].pos = p /\ p + (next - p) = next
        BY <2>2, <2>4
      <4> QED  BY <1>1, <1>3, <2>6, <3>1, <4>1, <4>2
    <3>3. file'[n] = Part(u, 0, next)
      <4>1. Overwrite(Part(u, 0, p), p, Part(u, p, next)) = Part(u, 0, next)
        BY <2>4, OverwritePart
      <4>2. stream[s].pos = p
        BY <2>2
      <4> QED  BY <1>3, <2>2, <2>3, <2>6, <4>1, <4>2
    <3>4. /\ next <= Written(u)'
          /\ stream'[Mine(u)'] = [pos |-> next, buffer |-> Part(u, next, Written(u)')]
          /\ file'[up'[u].name] = Part(u, 0, next)
      BY <1>4, <1>10, <2>1, <2>4, <3>2, <3>3
    <3> QED  BY <1>4, <2>4, <3>4 DEF Content, Part
  <2> QED  BY <1>2, <2>5, <2>6 DEF chunks
<1>17. Owner(n)'
  <2>1. Owner(n)
    BY <1>3 DEF IInv
  <2>2. ASSUME NEW v \in Uploads, NEW k \in {"first", "last"}, writers'[n] = <<v, k>>
        PROVE  k = "first" /\ up'[v].name = n /\ IsUnfinished(v)' /\ HasOpened(v)' /\ ~HasEnded(v)'
    <3>1. k = "first" /\ up[v].name = n /\ IsUnfinished(v) /\ HasOpened(v) /\ ~HasEnded(v)
      BY <1>1, <2>1, <2>2 DEF Owner
    <3>2. CASE v = u
      BY <1>4, <1>5, <1>10, <3>1, <3>2 DEF IsUnfinished
    <3>3. CASE v # u
      <4>1. up'[v] = up[v]
        BY <1>4, <3>3
      <4> QED  BY <3>1, <4>1 DEF IsUnfinished, HasOpened, HasEnded, InHandler
    <3> QED  BY <3>2, <3>3
  <2>3. ASSUME writers'[n] = Null
        PROVE  \E v \in Uploads : up'[v].name = n /\ up'[v].at = "locked" /\ up'[v].writer = Null
    <3>1. PICK v \in Uploads : up[v].name = n /\ up[v].at = "locked" /\ up[v].writer = Null
      BY <1>1, <2>1, <2>3 DEF Owner
    <3>2. v # u
      BY <1>1, <3>1, StreamNames
    <3> QED  BY <1>4, <3>1, <3>2
  <2> QED  BY <1>4, <2>2, <2>3, Zenon DEF Owner, Null
<1>18. Kept(u)
  BY <1>11, <1>12, <1>13, <1>14, <1>15, <1>16, <1>17, <1>4, Zenon DEF Kept
<1> QED  BY <1>9, <1>18, StepKeeps

LEMMA AnswerStep ==
  ASSUME IInv, NEW u \in Uploads, Answer(u)
  PROVE  IInv'
<1> DEFINE n == up[u].name
           s == up[u].writer
           next == up[u].next
           end == next = up[u].total
           last == writers[n] # s /\ \A v \in Uploads \ {u} : up[v].writer # s
<1>1. /\ up[u].at = "written"
      /\ up' = [up EXCEPT ![u].at = IF end THEN "done" ELSE "ready",
                          ![u].next = @ + 1, ![u].writer = Absent]
      /\ writers' = writers /\ latest' = latest /\ crashed' = crashed /\ stream' = stream
  BY DEF Answer
<1>2. IF last THEN file' = [file EXCEPT ![n] = Overwrite(file[n], stream[s].pos, stream[s].buffer)]
      ELSE file' = file
  BY DEF Answer, Becomes
<1>3. /\ up[u] \in Upload /\ up \in [Uploads -> Upload] /\ n \in Names
      /\ next \in Nat \ {0} /\ up[u].total \in Nat \ {0}
      /\ DOMAIN file = Names /\ Sound(u) /\ next <= up[u].total
  BY <1>1, UploadFields DEF IInv, Types, Sound
<1>4. /\ up' \in [Uploads -> Upload] /\ \A v \in Uploads \ {u} : up'[v] = up[v]
      /\ up'[u].at = IF end THEN "done" ELSE "ready"
      /\ up'[u].writer = Absent /\ up'[u].name = n
      /\ up'[u].next = next + 1 /\ up'[u].total = up[u].total /\ (up'[u].clash = up[u].clash)
      /\ up'[u].stray = up[u].stray
  BY <1>1, <1>3 DEF Upload
<1>5. HasOpened(u) /\ HasOpened(u)' /\ InHandler(u) /\ ~InHandler(u)'
  BY <1>1, <1>3, <1>4 DEF HasOpened, InHandler
<1>6. DOMAIN file' = Names /\ \A m \in Names \ {n} : file'[m] = file[m]
  <2> HIDE DEF last, s, n
  <2> QED  BY <1>2, <1>3
<1>7. StepOf(u)
  <2>1. IsUnfinished(u) /\ up'[u].at # "idle"
    BY <1>1, <1>4 DEF IsUnfinished
  <2>2. \A m \in Names \ {n} : writers'[m] = writers[m] /\ file'[m] = file[m]
    BY <1>1, <1>6
  <2> QED  BY <1>1, <1>4, <1>5, <2>1, <2>2, Zenon DEF StepOf
<1>8. (Good(u)' <=> Good(u)) /\ Mine(u)' = Mine(u) /\ First(u)' = First(u)
      /\ (HasEnded(u)' <=> end) /\ (HasEnded(u) <=> end)
      /\ Written(u) = next /\ Written(u)' = next
  BY <1>1, <1>3, <1>4, <1>5, <1>7, OneUpload DEF Mine, First, Last, HasEnded, Written
<1>9. Types'
  BY <1>1, <1>4, <1>6 DEF IInv, Types
<1>10. Sound(u)'
  BY <1>3, <1>4, <1>5 DEF Sound
<1>11. WriterOwner(u)'
  BY <1>4, StreamNames DEF WriterOwner, Streams
<1>12. Listed(u)'
  BY <1>1, <1>4, <1>5, <1>8 DEF IInv, Listed
<1>13. OwnWriter(u)'
  BY <1>5 DEF OwnWriter
<1>14. Content(u)'
  <2> SUFFICES ASSUME Good(u) PROVE Content(u)'
    BY <1>8 DEF Content
  <2>1. s = Mine(u)
    BY <1>5 DEF IInv, OwnWriter
  <2>2. CASE ~end
    <3>1. writers[n] = First(u) /\ Mine(u) = First(u)
      BY <1>3, <1>5, <1>8, <2>2 DEF IInv, Listed, Mine
    <3>2. file' = file
      BY <1>2, <2>1, <3>1
    <3>3. up'[u].at # "done" /\ Written(u)' = Written(u) /\ up[u].at # "done"
      BY <1>1, <1>4, <1>8, <2>2
    <3> QED  BY <1>1, <1>4, <1>5, <1>8, <3>2, <3>3, SameContent
  <2>3. CASE end
    <3>1. writers[n] # s
      <4>1. Owner(n)
        BY <1>3 DEF IInv
      <4> QED  BY <1>8, <2>1, <2>3, <4>1 DEF Owner, Mine, First, Last
    <3>2. ASSUME NEW v \in Uploads \ {u} PROVE up[v].writer # s
      <4> SUFFICES ASSUME up[v].writer = s PROVE FALSE
        OBVIOUS
      <4>1. up[u].name = up[v].name
        BY <2>1 DEF IInv, WriterOwner, Mine, First, Last
      <4>2. up[v].writer # Absent
        BY <2>1, StreamNames
      <4>3. IsUnfinished(v)
        BY <4>2 DEF IInv, Sound, InHandler, IsUnfinished
      <4> QED  BY <4>1, <4>3 DEF IInv, Alone
    <3>3. file'[n] = Overwrite(file[n], stream[s].pos, stream[s].buffer)
      BY <1>2, <1>3, <3>1, <3>2
    <3>4. PICK p \in Nat :
            /\ p <= next
            /\ stream[s] = [pos |-> p, buffer |-> Part(u, p, next)]
            /\ file[n] = Part(u, 0, p)
      BY <1>1, <1>5, <1>8, <2>1 DEF IInv, Content
    <3>5. Overwrite(Part(u, 0, p), p, Part(u, p, next)) = Part(u, 0, next)
      BY <1>3, <3>4, OverwritePart
    <3>6. file'[n] = Part(u, 0, next)
      <4>1. stream[s].pos = p /\ stream[s].buffer = Part(u, p, next)
        BY <3>4
      <4> QED  BY <3>3, <3>4, <3>5, <4>1
    <3>7. up'[u].at = "done" /\ file'[up'[u].name] = Part(u, 0, up'[u].total)
      BY <1>4, <2>3, <3>6
    <3> QED  BY <3>7 DEF Content, Part
  <2> QED  BY <2>2, <2>3
<1>15. Owner(n)'
  <2>1. Owner(n)
    BY <1>3 DEF IInv
  <2>2. ASSUME NEW v \in Uploads, NEW k \in {"first", "last"}, writers'[n] = <<v, k>>
        PROVE  k = "first" /\ up'[v].name = n /\ IsUnfinished(v)' /\ HasOpened(v)' /\ ~HasEnded(v)'
    <3>1. k = "first" /\ up[v].name = n /\ IsUnfinished(v) /\ HasOpened(v) /\ ~HasEnded(v)
      BY <1>1, <2>1, <2>2 DEF Owner
    <3>2. CASE v = u
      BY <1>4, <1>5, <1>8, <3>1, <3>2 DEF IsUnfinished
    <3>3. CASE v # u
      <4>1. up'[v] = up[v]
        BY <1>4, <3>3
      <4> QED  BY <3>1, <4>1 DEF IsUnfinished, HasOpened, HasEnded, InHandler
    <3> QED  BY <3>2, <3>3
  <2>3. ASSUME writers'[n] = Null
        PROVE  \E v \in Uploads : up'[v].name = n /\ up'[v].at = "locked" /\ up'[v].writer = Null
    <3>1. PICK v \in Uploads : up[v].name = n /\ up[v].at = "locked" /\ up[v].writer = Null
      BY <1>1, <2>1, <2>3 DEF Owner
    <3>2. v # u
      BY <1>1, <3>1
    <3> QED  BY <1>4, <3>1, <3>2
  <2> QED  BY <1>4, <2>2, <2>3, Zenon DEF Owner, Null
<1>16. Kept(u)
  BY <1>9, <1>10, <1>11, <1>12, <1>13, <1>14, <1>15, <1>4, Zenon DEF Kept
<1> QED  BY <1>7, <1>16, StepKeeps

-----------------------------------------------------------------------------
(* The other steps, and the theorems *)

\* Uploads and files are as before.
LEMMA NothingUploaded ==
  ASSUME IInv, file' = file, writers' = writers, stream' = stream, up' = up, latest' = latest
  PROVE  IInv'
<1>1. Types'
  BY DEF IInv, Types
<1>2. ASSUME NEW u \in Uploads
      PROVE  /\ Sound(u)' /\ WriterOwner(u)' /\ Untouched(u)' /\ IsLatest(u)'
             /\ Alone(u)' /\ Listed(u)' /\ OwnWriter(u)' /\ Content(u)'
  <2>1. /\ (InHandler(u)' <=> InHandler(u)) /\ (HasEnded(u)' <=> HasEnded(u))
        /\ Mine(u)' = Mine(u) /\ First(u)' = First(u) /\ Last(u)' = Last(u) /\ Opened' = Opened
        /\ Written(u)' = Written(u) /\ (Good(u)' <=> Good(u))
        /\ \A v \in Uploads : (HasOpened(v)' <=> HasOpened(v)) /\ (IsUnfinished(v)' <=> IsUnfinished(v))
    BY DEF InHandler, HasEnded, Mine, First, Last, Opened, Written, Good, HasOpened, IsUnfinished
  <2>2. Sound(u)' /\ WriterOwner(u)'
    BY <2>1 DEF IInv, Sound, WriterOwner
  <2>3. Untouched(u)' /\ IsLatest(u)' /\ Alone(u)'
    BY <2>1 DEF IInv, Untouched, IsLatest, Alone
  <2>4. Listed(u)' /\ OwnWriter(u)'
    BY <2>1 DEF IInv, Listed, OwnWriter
  <2>5. Content(u)'
    <3>1. Content(u)
      BY DEF IInv
    <3> QED  BY <2>1, <3>1 DEF Content, Part
  <2> QED  BY <2>2, <2>3, <2>4, <2>5
<1>3. ASSUME NEW n \in Names PROVE Owner(n)'
  <2>1. Owner(n)
    BY DEF IInv
  <2> QED  BY <2>1, Zenon DEF Owner, IsUnfinished, HasOpened, HasEnded, InHandler, Null
<1>4. ASSUME NEW u \in Uploads, NEW v \in Uploads PROVE Overlap(u, v)'
  BY DEF IInv, Overlap, IsUnfinished
<1> QED  BY <1>1, <1>2, <1>3, <1>4, Zenon DEF IInv

\* The writer of an upload that is Good is its own ofstream.
LEMMA NullIsStray == IInv => WriterIsThere
<1> SUFFICES ASSUME IInv, NEW u \in Uploads, up[u].writer = Null, ~up[u].clash, up[u].stray = "no"
             PROVE  FALSE
  BY DEF WriterIsThere
<1>1. InHandler(u) /\ IsUnfinished(u) /\ up[u].at # "idle"
  BY StreamNames DEF IInv, Sound, InHandler, IsUnfinished
<1>2. latest[up[u].name] = u
  BY <1>1 DEF IInv, IsLatest
<1>3. Good(u)
  BY <1>1, <1>2 DEF Good
<1>4. up[u].writer = Mine(u)
  BY <1>1, <1>3 DEF IInv, OwnWriter
<1> QED  BY <1>4, StreamNames

LEMMA InitInv == Init => IInv
<1> SUFFICES ASSUME Init PROVE IInv
  OBVIOUS
<1>1. /\ up \in [Uploads -> [name : Names, total : Totals, next : {1}, at : {"idle"},
                             writer : {Absent}, clash : {FALSE}, stray : Stray \cup {"no"}]]
      /\ \A u \in Uploads : up[u].stray # "no" => up[u].total = 1
      /\ writers = [n \in Names |-> Absent] /\ stream = [s \in Streams |-> Opened]
      /\ latest = [n \in Names |-> Absent] /\ DOMAIN file = Names /\ crashed = "no"
  BY DEF Init
<1>2. ASSUME NEW u \in Uploads
      PROVE  /\ up[u] \in Upload /\ up[u].at = "idle" /\ up[u].next = 1 /\ up[u].writer = Absent
             /\ 1 <= up[u].total /\ (up[u].stray # "no" => up[u].total = 1)
  <2>1. up[u] \in [name : Names, total : Totals, next : {1}, at : {"idle"}, writer : {Absent},
                   clash : {FALSE}, stray : Stray \cup {"no"}]
    BY <1>1
  <2>2. PICK n \in Names, t \in Totals, g \in Stray \cup {"no"} :
          up[u] = [name |-> n, total |-> t, next |-> 1, at |-> "idle", writer |-> Absent,
                   clash |-> FALSE, stray |-> g]
    BY <2>1
  <2>3. 1 <= t /\ 1 \in Nat \ {0} /\ g \in {"no", "middle", "other"}
    BY SizesAssumption
  <2>4. up[u] \in Upload
    BY <2>2, <2>3 DEF Upload
  <2> QED  BY <1>1, <2>2, <2>3, <2>4
<1>3. Types
  BY <1>1, <1>2 DEF Types
<1>4. ASSUME NEW u \in Uploads
      PROVE  /\ Sound(u) /\ ~Good(u) /\ ~IsUnfinished(u) /\ ~InHandler(u) /\ ~HasOpened(u)
             /\ WriterOwner(u)
  <2>1. Sound(u) /\ ~Good(u) /\ ~IsUnfinished(u) /\ ~InHandler(u) /\ ~HasOpened(u)
    BY <1>2 DEF Sound, Good, IsUnfinished, InHandler, HasOpened
  <2>2. WriterOwner(u)
    BY <1>2, StreamNames DEF WriterOwner, Streams
  <2> QED  BY <2>1, <2>2
<1>5. ASSUME NEW u \in Uploads
      PROVE  Untouched(u) /\ IsLatest(u) /\ Alone(u) /\ Listed(u) /\ OwnWriter(u) /\ Content(u)
  <2>1. Untouched(u)
    BY <1>1, StreamNames DEF Untouched
  <2> QED  BY <1>4, <2>1 DEF IsLatest, Alone, Listed, OwnWriter, Content
<1>6. ASSUME NEW n \in Names PROVE Owner(n)
  <2>1. writers[n] = Absent
    BY <1>1
  <2> QED  BY <2>1, StreamNames DEF Owner, Streams
<1>7. \A u, v \in Uploads : Overlap(u, v)
  BY <1>4 DEF Overlap
<1> QED  BY <1>3, <1>4, <1>5, <1>6, <1>7 DEF IInv

LEMMA NextInv == IInv /\ [Next]_vars => IInv'
<1> SUFFICES ASSUME IInv, [Next]_vars PROVE IInv'
  OBVIOUS
<1>1. ASSUME NEW u \in Uploads, SendChunk(u) PROVE IInv'
  <2>1. up[u].at \in {"idle", "ready"}
    BY <1>1 DEF SendChunk
  <2> QED  BY <1>1, <2>1, SendFirst, SendNext
<1>2. ASSUME NEW u \in Uploads, UploadSteps(u) PROVE IInv'
  <2>1. CASE WriteThroughNull(u)
    BY <2>1, NothingUploaded DEF WriteThroughNull
  <2> QED
    BY <1>2, <2>1, FirstStep, MiddleStep, LastStep, OtherStep, WriteStep, AnswerStep DEF UploadSteps
<1>3. ASSUME NEW d \in Downloads, Serve(d) PROVE IInv'
  <2>1. /\ file' = file /\ writers' = writers /\ stream' = stream /\ up' = up /\ latest' = latest
    BY <1>3 DEF Serve
  <2> QED  BY <2>1, NothingUploaded
<1>4. ASSUME NEW d \in Downloads, DownloadSteps(d) PROVE IInv'
  <2>1. /\ file' = file /\ writers' = writers /\ stream' = stream /\ up' = up /\ latest' = latest
    BY <1>4 DEF DownloadSteps, ReadFile, PartSent
  <2> QED  BY <2>1, NothingUploaded
<1>5. CASE UNCHANGED vars
  BY <1>5, NothingUploaded DEF vars
<1> QED  BY <1>1, <1>2, <1>3, <1>4, <1>5 DEF Next

\* The inductive invariant holds in every state (UploadHandler::write() and the client
\* of an upload, in whatever order their steps come).
THEOREM Invariant == Spec => []IInv
<1> QED  BY InitInv, NextInv, PTL DEF Spec

\* Once its last chunk is answered, a file which no other upload touches is what its
\* client sent: UploadHandler::write() has lost, doubled and held back nothing.
THEOREM FileIsWhole == Spec => []UploadIsWhole
<1>1. IInv => UploadIsWhole
  <2> SUFFICES ASSUME IInv, NEW u \in Uploads, up[u].at = "done", up[u].stray = "no", ~up[u].clash,
                      latest[up[u].name] = u
               PROVE  file[up[u].name] = Whole(u)
    BY DEF UploadIsWhole
  <2>1. Good(u)
    BY DEF Good
  <2>2. Sound(u) /\ up[u].total \in Nat \ {0}
    BY UploadFields DEF IInv
  <2>3. HasOpened(u)
    BY <2>2 DEF Sound, HasOpened
  <2>4. file[up[u].name] = Part(u, 0, up[u].total)
    BY <2>1, <2>3 DEF IInv, Content
  <2> QED  BY <2>2, <2>4, WholeIsPart
<1> QED  BY <1>1, Invariant, PTL

\* UploadHandler::write() finds the writer of each chunk, but for a stray chunk and for
\* those of an upload which another chunk of its name has overlapped: a request that goes
\* through an empty pointer is itself one of these.
THEOREM NullOnlyForStrays == Spec => []WriterIsThere
<1> QED  BY NullIsStray, Invariant, PTL

-----------------------------------------------------------------------------
(* Downloads: what is left, what was sent and what the file has agree *)

\* The ranges that stoull() takes.
ServedRange == {r \in Header : r.kind \in {"none", "open", "closed"}}

\* What FileSvr::serve() and send_partial() keep of a GET.
Transfer ==
  [at : {"open", "sending", "done", "cut"}, name : Names,
   range : ServedRange,
   size : 0..(Word - 1), left : Nat, pos : Nat, sent : Nat, read : Nat,
   eof : BOOLEAN, changed : BOOLEAN]

\* How many bytes a file of that size has from the first of a range on.
Reachable(x) == Greatest(0, x.size - Begin(x.range))

Length(x) == RangeLength(x.range, x.size)

\* The next byte is the one after the last that was sent, and what is left is the
\* rest of what the header promised; a range in parts is larger than the buffer.
PartsAgree(x) ==
  /\ x.pos = Begin(x.range) + x.sent
  /\ x.sent <= Length(x)
  /\ x.at = "open" => x.left = Length(x) - x.sent
  /\ x.at = "sending" => /\ x.read <= x.sent /\ x.left = Length(x) - (x.sent - x.read)
                         /\ Length(x) > BufSize
  /\ x.at = "open" /\ Length(x) <= BufSize => x.sent = 0

\* Of a file that has not changed, no more is sent than there is, all of it when a read
\* comes short, and all that was asked for and is there in the end.
FileAgrees(x, content) ==
  ~x.changed =>
    /\ x.at \in {"open", "sending"} => Len(content[x.name]) = x.size
    /\ x.sent <= Reachable(x)
    /\ x.eof => x.sent = Reachable(x)
    /\ x.at = "done" => x.sent = Least(Length(x), Reachable(x))

Downloading(x, content) == x \in Transfer /\ PartsAgree(x) /\ FileAgrees(x, content)

DownInv ==
  /\ DOMAIN down = Downloads /\ DOMAIN file = Names
  /\ \A d \in Downloads : down[d].at \in {"idle", "refused"} \/ Downloading(down[d], file)

\* A uint64_t says how long each file is.
FilesFit == \A n \in Names : Len(file[n]) \in 0..(Word - 1)

LEMMA WordMod ==
  ASSUME NEW x \in Int
  PROVE  /\ 0 <= x /\ x < Word => x % Word = x
         /\ x < 0 /\ -Word <= x => x % Word = x + Word
         /\ x = Word => x % Word = 0
<1>1. Word \in Nat \ {0}
  BY SizesAssumption
<1> DEFINE q == x \div Word
<1>2. q \in Int /\ x = Word * q + (x % Word) /\ x % Word \in 0..(Word - 1)
  BY <1>1
<1>3. q >= 1 => Word * q >= Word
  BY <1>1, <1>2
<1>4. q <= -1 => Word * q <= -Word
  BY <1>1, <1>2
<1>5. q >= 2 => Word * q >= 2 * Word
  BY <1>1, <1>2
<1>6. q <= -2 => Word * q <= -(2 * Word)
  BY <1>1, <1>2
<1>7. (q = 0 => Word * q = 0) /\ (q = 1 => Word * q = Word) /\ (q = -1 => Word * q = -Word)
  BY <1>1
<1> HIDE DEF q
<1>8. CASE 0 <= x /\ x < Word
  <2>1. q = 0
    BY <1>1, <1>2, <1>3, <1>4, <1>8
  <2> QED  BY <1>1, <1>2, <1>7, <1>8, <2>1
<1>9. CASE x < 0 /\ -Word <= x
  <2>1. q = -1
    BY <1>1, <1>2, <1>3, <1>6, <1>7, <1>9
  <2> QED  BY <1>1, <1>2, <1>7, <1>9, <2>1
<1>10. CASE x = Word
  <2>1. q = 1
    BY <1>1, <1>2, <1>4, <1>5, <1>7, <1>10
  <2> QED  BY <1>1, <1>2, <1>7, <1>10, <2>1
<1> QED  BY <1>1, <1>8, <1>9, <1>10

\* What serve() computes of a range and a length, without the remainder: the lengths that
\* wrap are those of ranges that begin after their end, and of some in an empty file.
LEMMA RangeParts ==
  ASSUME NEW r \in Header, NEW len \in 0..(Word - 1)
  PROVE  /\ r.kind = "none" => Begin(r) = 0 /\ RangeLength(r, len) = len
         /\ r.kind \in {"open", "closed"} =>
              /\ Begin(r) = r.begin /\ r.begin \in 0..(Word - 1)
              /\ LastByte(r, len) \in 0..(Word - 1)
              /\ len > 0 => LastByte(r, len) < len
              /\ RangeLength(r, len) =
                   IF r.begin = 0 /\ LastByte(r, len) = Word - 1 THEN 0
                   ELSE IF r.begin <= LastByte(r, len) + 1 THEN LastByte(r, len) - r.begin + 1
                   ELSE LastByte(r, len) - r.begin + 1 + Word
<1>1. Word \in Nat \ {0}
  BY SizesAssumption
<1>2. r.kind = "none" => Begin(r) = 0 /\ RangeLength(r, len) = len
  BY DEF Begin, RangeLength
<1>3. ASSUME r.kind \in {"open", "closed"}
      PROVE  /\ Begin(r) = r.begin /\ r.begin \in 0..(Word - 1)
             /\ LastByte(r, len) \in 0..(Word - 1)
             /\ len > 0 => LastByte(r, len) < len
  <2>1. Begin(r) = r.begin /\ r.begin \in 0..(Word - 1)
        /\ (r.kind = "closed" => r.end \in 0..(Word - 1))
    BY <1>3 DEF Header, Begin
  <2>2. (len - 1) % Word = IF len = 0 THEN Word - 1 ELSE len - 1
    <3>1. len - 1 \in Int
      OBVIOUS
    <3> QED  BY <1>1, <3>1, WordMod
  <2>3. LastByte(r, len) = Least(IF len = 0 THEN Word - 1 ELSE len - 1,
                                 IF r.kind = "open" THEN len ELSE r.end)
    BY <2>2 DEF LastByte
  <2> QED  BY <1>1, <1>3, <2>1, <2>3 DEF Least
<1>4. ASSUME r.kind \in {"open", "closed"}
      PROVE  RangeLength(r, len) =
               IF r.begin = 0 /\ LastByte(r, len) = Word - 1 THEN 0
               ELSE IF r.begin <= LastByte(r, len) + 1 THEN LastByte(r, len) - r.begin + 1
               ELSE LastByte(r, len) - r.begin + 1 + Word
  <2> DEFINE last == LastByte(r, len)
             x == last - r.begin + 1
  <2>1. RangeLength(r, len) = x % Word
    BY <1>4 DEF RangeLength
  <2>2. last \in 0..(Word - 1) /\ r.begin \in 0..(Word - 1)
    BY <1>3, <1>4
  <2> HIDE DEF last
  <2>3. x \in Int /\ x <= Word /\ -Word <= x /\ (x = Word <=> (r.begin = 0 /\ last = Word - 1))
        /\ (x >= 0 <=> r.begin <= last + 1)
    BY <1>1, <2>2
  <2>4. x % Word = IF x = Word THEN 0 ELSE IF x >= 0 THEN x ELSE x + Word
    <3> HIDE DEF x
    <3> QED  BY <1>1, <2>3, WordMod
  <2> QED  BY <2>1, <2>3, <2>4 DEF last
<1> QED  BY <1>2, <1>3, <1>4

LEMMA Lengths ==
  ASSUME NEW r \in Header, r.kind \in {"none", "open", "closed"}, NEW len \in 0..(Word - 1)
  PROVE  RangeLength(r, len) \in 0..(Word - 1) /\ Begin(r) \in 0..(Word - 1)
<1>1. Word \in Nat \ {0}
  BY SizesAssumption
<1>2. CASE r.kind = "none"
  BY <1>1, <1>2, RangeParts
<1>3. CASE r.kind \in {"open", "closed"}
  <2>1. /\ Begin(r) = r.begin /\ r.begin \in 0..(Word - 1) /\ LastByte(r, len) \in 0..(Word - 1)
        /\ RangeLength(r, len) =
             IF r.begin = 0 /\ LastByte(r, len) = Word - 1 THEN 0
             ELSE IF r.begin <= LastByte(r, len) + 1 THEN LastByte(r, len) - r.begin + 1
             ELSE LastByte(r, len) - r.begin + 1 + Word
    BY <1>3, RangeParts
  <2> QED  BY <1>1, <2>1
<1> QED  BY <1>2, <1>3

\* What there is of a range and what its header promises are the same number just when the
\* range begins no later than one byte after its end, or asks for nothing.
LEMMA PromiseIsKept ==
  ASSUME NEW x \in Transfer, x.sent = Least(Length(x), Reachable(x))
  PROVE  LET last == LastByte(x.range, x.size)
         IN  x.sent = Length(x) <=> \/ x.range.kind = "none"
                                    \/ x.range.begin = (last + 1) % Word
                                    \/ x.range.begin <= last /\ x.size > 0
<1>1. Word \in Nat \ {0}
  BY SizesAssumption
<1>2. x.range \in Header /\ x.range.kind \in {"none", "open", "closed"} /\ x.size \in 0..(Word - 1)
  BY DEF Transfer, ServedRange
<1>3. CASE x.range.kind = "none"
  BY <1>1, <1>2, <1>3, RangeParts DEF Least, Greatest, Reachable, Length
<1>4. CASE x.range.kind \in {"open", "closed"}
  <2> DEFINE r == x.range
             len == x.size
             last == LastByte(r, len)
             b == r.begin
             p == Length(x)
  <2>1. /\ Begin(r) = b /\ b \in 0..(Word - 1) /\ last \in 0..(Word - 1)
        /\ len > 0 => last < len
        /\ p = IF b = 0 /\ last = Word - 1 THEN 0
               ELSE IF b <= last + 1 THEN last - b + 1 ELSE last - b + 1 + Word
    BY <1>2, <1>4, RangeParts DEF Length
  <2>2. (last + 1) % Word = IF last = Word - 1 THEN 0 ELSE last + 1
    <3> HIDE DEF last
    <3>1. last + 1 \in Int
      BY <2>1
    <3> QED  BY <1>1, <2>1, <3>1, WordMod
  <2>3. x.sent = Least(p, Greatest(0, len - b))
    BY <2>1 DEF Reachable
  <2>4. x.range.kind # "none"
    BY <1>4
  <2> HIDE DEF r, len, last, b, p
  <2>5. x.sent = p <=> (b = (last + 1) % Word \/ (b <= last /\ len > 0))
    <3>1. len \in 0..(Word - 1)
      BY <1>2 DEF len
    <3> QED  BY <1>1, <2>1, <2>2, <2>3, <3>1 DEF Least, Greatest
  <2> QED  BY <2>4, <2>5 DEF r, len, last, b, p
<1> QED  BY <1>2, <1>3, <1>4

\* Only one download moves, and no file.
LEMMA OneDownload ==
  ASSUME DownInv, file' = file, NEW d \in Downloads, NEW x, down' = [down EXCEPT ![d] = x],
         x.at \in {"idle", "refused"} \/ Downloading(x, file)
  PROVE  DownInv'
<1>1. DOMAIN down' = Downloads /\ DOMAIN file' = Names
  BY DEF DownInv
<1>2. ASSUME NEW e \in Downloads
      PROVE  down'[e].at \in {"idle", "refused"} \/ Downloading(down'[e], file')
  BY DEF DownInv
<1> QED  BY <1>1, <1>2 DEF DownInv

\* The downloads of a file whose content changes are marked.
LEMMA ContentChanges ==
  ASSUME DownInv, NEW n \in Names, NEW f, Becomes(n, f)
  PROVE  DownInv'
<1>1. file' = [file EXCEPT ![n] = f] /\ DOMAIN file' = Names
  BY DEF Becomes, DownInv
<1>2. CASE f = file[n]
  <2>1. down' = down /\ \A m \in Names : file'[m] = file[m]
    BY <1>1, <1>2 DEF Becomes, DownInv
  <2>2. ASSUME NEW d \in Downloads, Downloading(down[d], file)
        PROVE  Downloading(down[d], file')
    <3>1. down[d].name \in Names
      BY <2>2 DEF Downloading, Transfer, ServedRange
    <3> QED  BY <2>1, <2>2, <3>1 DEF Downloading, FileAgrees
  <2> QED  BY <1>1, <2>1, <2>2 DEF DownInv
<1>3. CASE f # file[n]
  <2>1. down' = [d \in Downloads |->
                   IF down[d].at \in {"open", "sending"} /\ down[d].name = n
                     THEN [down[d] EXCEPT !.changed = TRUE] ELSE down[d]]
    BY <1>3 DEF Becomes
  <2>2. ASSUME NEW d \in Downloads
        PROVE  down'[d].at \in {"idle", "refused"} \/ Downloading(down'[d], file')
    <3>1. CASE down[d].at \in {"idle", "refused"}
      <4>1. down'[d] = down[d]
        BY <2>1, <3>1
      <4> QED  BY <3>1, <4>1
    <3>2. CASE Downloading(down[d], file) /\ down[d].at \in {"open", "sending"} /\ down[d].name = n
      <4> DEFINE x == down[d]
      <4>1. x \in Transfer /\ PartsAgree(x)
        BY <3>2 DEF Downloading
      <4>2. down'[d] = [x EXCEPT !.changed = TRUE]
        BY <2>1, <3>2
      <4> HIDE DEF x
      <4>3. /\ down'[d] \in Transfer /\ down'[d].changed
            /\ down'[d].pos = x.pos /\ down'[d].range = x.range /\ down'[d].sent = x.sent
            /\ down'[d].at = x.at /\ down'[d].left = x.left /\ down'[d].read = x.read
            /\ down'[d].size = x.size
        BY <4>1, <4>2 DEF Transfer
      <4>4. PartsAgree(down'[d])
        BY <4>1, <4>3 DEF PartsAgree, Length
      <4> QED  BY <4>3, <4>4 DEF Downloading, FileAgrees
    <3>3. CASE Downloading(down[d], file) /\ ~(down[d].at \in {"open", "sending"} /\ down[d].name = n)
      <4>1. down'[d] = down[d]
        BY <2>1, <3>3
      <4>2. FileAgrees(down[d], file')
        <5>1. down[d].at \in {"open", "sending"} => down[d].name # n /\ file'[down[d].name] = file[down[d].name]
          BY <1>1, <3>3 DEF Downloading, Transfer, ServedRange
        <5> QED  BY <3>3, <5>1 DEF Downloading, FileAgrees
      <4> QED  BY <3>3, <4>1, <4>2 DEF Downloading
    <3> QED  BY <3>1, <3>2, <3>3 DEF DownInv
  <2> QED  BY <1>1, <2>1, <2>2 DEF DownInv
<1> QED  BY <1>2, <1>3

LEMMA UploadsChange ==
  ASSUME IInv, DownInv, NEW u \in Uploads, SendChunk(u) \/ UploadSteps(u)
  PROVE  DownInv'
<1>1. up[u].name \in Names
  BY UploadFields DEF IInv, Types
<1>2. CASE UNCHANGED <<file, down>>
  BY <1>2 DEF DownInv
<1>3. CASE FirstChunk(u)
  BY <1>1, <1>3, ContentChanges DEF FirstChunk, Truncates
<1>4. CASE LastChunk(u)
  BY <1>1, <1>2, <1>4, ContentChanges DEF LastChunk, Truncates
<1>5. CASE WriteChunk(u)
  BY <1>1, <1>2, <1>5, ContentChanges DEF WriteChunk
<1>6. CASE Answer(u)
  BY <1>1, <1>2, <1>6, ContentChanges DEF Answer
<1>7. CASE SendChunk(u) \/ MiddleChunk(u) \/ OtherChunk(u) \/ WriteThroughNull(u)
  BY <1>2, <1>7 DEF SendChunk, MiddleChunk, OtherChunk, WriteThroughNull
<1> QED  BY <1>3, <1>4, <1>5, <1>6, <1>7 DEF UploadSteps

LEMMA ServeDown ==
  ASSUME DownInv, FilesFit, NEW d \in Downloads, Serve(d)
  PROVE  DownInv'
<1>1. file' = file
  BY DEF Serve
<1>2. PICK n \in Names, r \in Ranges :
        \/ down' = [down EXCEPT ![d] = [at |-> "refused"]]
        \/ down' = down
        \/ /\ r.kind \in {"none", "open", "closed"}
           /\ down' = [down EXCEPT ![d] =
                        [at |-> "open", name |-> n, range |-> r, size |-> Len(file[n]),
                         left |-> RangeLength(r, Len(file[n])), pos |-> Begin(r),
                         sent |-> 0, read |-> 0, eof |-> FALSE, changed |-> FALSE]]
  BY DEF Serve
<1>3. CASE down' = [down EXCEPT ![d] = [at |-> "refused"]]
  <2> DEFINE x == [at |-> "refused"]
  <2>1. x.at = "refused" /\ down' = [down EXCEPT ![d] = x]
    BY <1>3
  <2> HIDE DEF x
  <2> QED  BY <1>1, <2>1, OneDownload
<1>4. CASE down' = down
  BY <1>1, <1>4 DEF DownInv
<1>5. CASE r.kind \in {"none", "open", "closed"} /\ down' = [down EXCEPT ![d] =
                        [at |-> "open", name |-> n, range |-> r, size |-> Len(file[n]),
                         left |-> RangeLength(r, Len(file[n])), pos |-> Begin(r),
                         sent |-> 0, read |-> 0, eof |-> FALSE, changed |-> FALSE]]
  <2> DEFINE len == Len(file[n])
             p == RangeLength(r, len)
             x == [at |-> "open", name |-> n, range |-> r, size |-> len, left |-> p,
                   pos |-> Begin(r), sent |-> 0, read |-> 0, eof |-> FALSE, changed |-> FALSE]
  <2>1. r \in Header /\ len \in 0..(Word - 1) /\ Word \in Nat
    BY SizesAssumption DEF FilesFit
  <2>2. p \in Nat /\ Begin(r) \in Nat
    <3> HIDE DEF len
    <3>1. RangeLength(r, len) \in 0..(Word - 1) /\ Begin(r) \in 0..(Word - 1)
      BY <1>5, <2>1, Lengths
    <3> QED  BY <3>1
  <2>3. p = Length(x)
    BY DEF Length
  <2>4. down' = [down EXCEPT ![d] = x]
    BY <1>5
  <2>5. x \in Transfer
    <3> HIDE DEF p, len
    <3> QED  BY <1>5, <2>1, <2>2 DEF Transfer, ServedRange
  <2>6. PartsAgree(x)
    <3> HIDE DEF p
    <3> QED  BY <2>2, <2>3 DEF PartsAgree
  <2>7. FileAgrees(x, file)
    <3>1. Reachable(x) \in Nat
      <4> HIDE DEF p
      <4> QED  BY <2>1, <2>2 DEF Reachable, Greatest
    <3> QED  BY <3>1 DEF FileAgrees
  <2> HIDE DEF x
  <2> QED  BY <1>1, <2>4, <2>5, <2>6, <2>7, OneDownload DEF Downloading
<1> QED  BY <1>2, <1>3, <1>4, <1>5

LEMMA StillThere ==
  ASSUME NEW size \in Nat, NEW begin \in Nat, NEW sent \in Nat, sent <= Greatest(0, size - begin)
  PROVE  /\ Greatest(0, size - begin) \in Nat
         /\ Greatest(0, size - (begin + sent)) = Greatest(0, size - begin) - sent
BY DEF Greatest

LEMMA ReadDown ==
  ASSUME DownInv, FilesFit, NEW d \in Downloads, ReadFile(d)
  PROVE  DownInv'
<1> DEFINE x == down[d]
           p == Length(x)
           want == IF p <= BufSize THEN p ELSE Least(x.left, BufSize)
           there == Greatest(0, Len(file[x.name]) - x.pos)
           got == IF x.eof THEN 0 ELSE Least(want, there)
           y == [x EXCEPT !.at = IF got > 0 /\ p > BufSize THEN "sending" ELSE "done",
                          !.pos = @ + got, !.sent = @ + got, !.read = got, !.eof = got < want]
<1>1. x.at = "open" /\ file' = file /\ down' = [down EXCEPT ![d] = y]
  BY Zenon DEF ReadFile, Promised, Length
<1>2. x \in Transfer /\ PartsAgree(x) /\ FileAgrees(x, file)
  BY <1>1 DEF DownInv, Downloading
<1>3. Word \in Nat /\ BufSize \in Nat \ {0} /\ p \in Nat /\ Begin(x.range) \in Nat
  <2>1. x.range \in Header /\ x.range.kind \in {"none", "open", "closed"} /\ x.size \in 0..(Word - 1)
    BY <1>2 DEF Transfer, ServedRange
  <2>2. p \in 0..(Word - 1) /\ Begin(x.range) \in 0..(Word - 1)
    BY <2>1, Lengths DEF Length
  <2> QED  BY <2>2, SizesAssumption
<1>4. /\ x.name \in Names /\ x.left \in Nat /\ x.pos \in Nat /\ x.sent \in Nat
      /\ x.eof \in BOOLEAN /\ x.changed \in BOOLEAN /\ x.size \in Nat
  BY <1>2, SizesAssumption DEF Transfer, ServedRange
<1>5. Len(file[x.name]) \in Nat
  BY <1>4, SizesAssumption DEF FilesFit
<1>6. want \in Nat /\ there \in Nat /\ got \in Nat /\ got <= want /\ got <= there
  <2>1. want \in Nat
    <3> HIDE DEF x, p
    <3> QED  BY <1>3, <1>4 DEF Least
  <2>2. there \in Nat
    <3> HIDE DEF x
    <3> QED  BY <1>4, <1>5 DEF Greatest
  <2> HIDE DEF want, there
  <2> QED  BY <2>1, <2>2 DEF Least
<1>7. /\ y \in Transfer /\ y.at = (IF got > 0 /\ p > BufSize THEN "sending" ELSE "done")
      /\ y.pos = x.pos + got /\ y.sent = x.sent + got /\ y.read = got /\ (y.eof <=> got < want)
      /\ y.name = x.name /\ y.range = x.range /\ y.size = x.size /\ y.left = x.left
      /\ (y.changed <=> x.changed)
  <2> DEFINE at == IF got > 0 /\ p > BufSize THEN "sending" ELSE "done"
  <2>1. PICK b \in BOOLEAN : b <=> got < want
    OBVIOUS
  <2>2. y = [x EXCEPT !.at = at, !.pos = @ + got, !.sent = @ + got, !.read = got, !.eof = b]
    <3> HIDE DEF x, got, want, there, p, at
    <3>1. b = (got < want)
      BY <2>1
    <3> QED  BY <3>1 DEF at
  <2>3. at \in {"sending", "done"}
    OBVIOUS
  <2> HIDE DEF x, y, got, want, there, p, at
  <2>5. x \in Transfer /\ x.pos + got \in Nat /\ x.sent + got \in Nat /\ got \in Nat
    BY <1>2, <1>4, <1>6
  <2>4. /\ y \in Transfer /\ y.at = at
        /\ y.pos = x.pos + got /\ y.sent = x.sent + got /\ y.read = got /\ y.eof = b
        /\ y.name = x.name /\ y.range = x.range /\ y.size = x.size /\ y.left = x.left
        /\ y.changed = x.changed
    BY <2>1, <2>2, <2>3, <2>5 DEF Transfer
  <2> QED  BY <2>1, <2>4 DEF at
<1>8. /\ x.pos = Begin(x.range) + x.sent /\ x.left = p - x.sent /\ x.sent <= p
      /\ p <= BufSize => x.sent = 0
  BY <1>1, <1>2 DEF PartsAgree
<1>9. x.sent + got <= p
  <2> HIDE DEF x, p, got, there
  <2> QED  BY <1>3, <1>4, <1>6, <1>8 DEF Least
<1>10. Length(y) = p /\ Reachable(y) = Reachable(x)
  <2> HIDE DEF y
  <2> QED  BY <1>7 DEF Length, Reachable
<1>11. PartsAgree(y)
  <2> HIDE DEF x, y, p, got, want, there
  <2> QED  BY <1>3, <1>4, <1>6, <1>7, <1>8, <1>9, <1>10 DEF PartsAgree
<1>12. FileAgrees(y, file)
  <2> SUFFICES ASSUME ~x.changed PROVE FileAgrees(y, file)
    <3> HIDE DEF x, y
    <3> QED  BY <1>7 DEF FileAgrees
  <2> DEFINE most == Reachable(x)
  <2>1. Len(file[x.name]) = x.size /\ x.sent <= most
    BY <1>1, <1>2 DEF FileAgrees
  <2>9. x.eof => x.sent = most
    BY <1>1, <1>2 DEF FileAgrees
  <2>2. most = Greatest(0, x.size - Begin(x.range))
    BY DEF Reachable
  <2>3. there = most - x.sent /\ most \in Nat
    <3> HIDE DEF x, most
    <3>1. there = Greatest(0, x.size - (Begin(x.range) + x.sent))
      BY <1>8, <2>1
    <3> HIDE DEF there
    <3> QED  BY <1>3, <1>4, <2>1, <2>2, <3>1, StillThere
  <2>4. x.sent + got <= most /\ (got < want => x.sent + got = most)
    <3> HIDE DEF x, most, want, there
    <3> QED  BY <1>4, <1>6, <2>1, <2>3, <2>9 DEF Least
  <2>5. ~(got > 0 /\ p > BufSize) => x.sent + got = Least(p, most)
    <3> HIDE DEF x, most, there, p, got
    <3> QED  BY <1>3, <1>4, <1>6, <1>8, <1>9, <2>1, <2>3, <2>4, <2>9 DEF Least
  <2> HIDE DEF x, y, p, got, want, there, most
  <2>6. Len(file[y.name]) = y.size
    BY <1>7, <2>1
  <2>7. (y.eof => y.sent = Reachable(y)) /\ y.sent <= Reachable(y)
    BY <1>7, <1>10, <2>4 DEF most
  <2>8. y.at = "done" => y.sent = Least(Length(y), Reachable(y))
    BY <1>7, <1>10, <2>5 DEF most
  <2> QED  BY <2>6, <2>7, <2>8 DEF FileAgrees
<1> HIDE DEF y
<1> QED  BY <1>1, <1>7, <1>11, <1>12, OneDownload DEF Downloading

LEMMA SentDown ==
  ASSUME DownInv, NEW d \in Downloads, PartSent(d)
  PROVE  DownInv'
<1> DEFINE x == down[d]
           left == (x.left - x.read) % Word
           c == [x EXCEPT !.at = "cut"]
           y == [x EXCEPT !.left = left, !.at = IF left = 0 THEN "done" ELSE "open"]
<1>1. x.at = "sending" /\ file' = file
      /\ (down' = [down EXCEPT ![d] = c] \/ down' = [down EXCEPT ![d] = y])
  BY DEF PartSent
<1>2. x \in Transfer /\ PartsAgree(x) /\ FileAgrees(x, file)
  BY <1>1 DEF DownInv, Downloading
<1>3. Word \in Nat /\ BufSize \in Nat \ {0} /\ Length(x) \in 0..(Word - 1)
  <2>1. x.range \in Header /\ x.range.kind \in {"none", "open", "closed"} /\ x.size \in 0..(Word - 1)
    BY <1>2 DEF Transfer, ServedRange
  <2> QED  BY <2>1, Lengths, SizesAssumption DEF Length
<1>4. /\ x.left \in Nat /\ x.sent \in Nat /\ x.read \in Nat /\ x.changed \in BOOLEAN
      /\ x.read <= x.sent /\ x.left = Length(x) - (x.sent - x.read) /\ Length(x) > BufSize
      /\ x.sent <= Length(x) /\ x.pos = Begin(x.range) + x.sent
  BY <1>1, <1>2 DEF Transfer, ServedRange, PartsAgree
<1>5. left = Length(x) - x.sent /\ left \in Nat
  <2> DEFINE z == x.left - x.read
  <2>1. z = Length(x) - x.sent /\ z \in Int /\ 0 <= z /\ z < Word
    <3> HIDE DEF x
    <3> QED  BY <1>3, <1>4
  <2> HIDE DEF z
  <2>2. z % Word = z
    BY <2>1, WordMod
  <2> QED  BY <2>1, <2>2 DEF z
<1>6. Downloading(c, file)
  <2>1. /\ c \in Transfer /\ c.at = "cut" /\ c.pos = x.pos /\ c.range = x.range /\ c.sent = x.sent
        /\ (c.changed <=> x.changed) /\ (c.eof <=> x.eof) /\ c.size = x.size
    <3> HIDE DEF x
    <3> QED  BY <1>2 DEF Transfer, ServedRange
  <2> HIDE DEF x, c
  <2>2. PartsAgree(c)
    BY <1>4, <2>1 DEF PartsAgree, Length
  <2>3. FileAgrees(c, file)
    BY <1>2, <2>1 DEF FileAgrees, Reachable
  <2> QED  BY <2>1, <2>2, <2>3 DEF Downloading
<1>7. Downloading(y, file)
  <2> HIDE DEF left
  <2>1. /\ y \in Transfer /\ y.at = (IF left = 0 THEN "done" ELSE "open")
        /\ y.pos = x.pos /\ y.range = x.range /\ y.sent = x.sent /\ y.name = x.name
        /\ (y.changed <=> x.changed) /\ (y.eof <=> x.eof) /\ y.size = x.size /\ y.left = left
    <3> HIDE DEF x
    <3> QED  BY <1>2, <1>5 DEF Transfer
  <2> HIDE DEF x, y
  <2>2. Length(y) = Length(x) /\ Reachable(y) = Reachable(x)
    BY <2>1 DEF Length, Reachable
  <2>3. PartsAgree(y)
    BY <1>3, <1>4, <1>5, <2>1, <2>2 DEF PartsAgree
  <2>4. FileAgrees(y, file)
    <3>1. left = 0 => x.sent = Length(x)
      <4>1. Length(x) \in Int /\ x.sent \in Int
        BY <1>3, <1>4
      <4> HIDE DEF x
      <4> QED  BY <1>5, <4>1
    <3>2. Reachable(x) \in Int
      BY <1>2, SizesAssumption, Lengths DEF Reachable, Greatest, Transfer, ServedRange
    <3>3. SUFFICES ASSUME ~x.changed PROVE FileAgrees(y, file)
      BY <2>1 DEF FileAgrees
    <3>4. /\ Len(file[x.name]) = x.size /\ x.sent <= Reachable(x)
          /\ x.eof => x.sent = Reachable(x)
      BY <1>1, <1>2, <3>3 DEF FileAgrees
    <3>5. left = 0 => x.sent = Least(Length(x), Reachable(x))
      BY <1>3, <1>4, <3>1, <3>2, <3>4 DEF Least
    <3> QED  BY <2>1, <2>2, <3>4, <3>5 DEF FileAgrees
  <2> QED  BY <2>1, <2>3, <2>4 DEF Downloading
<1> HIDE DEF c, y
<1> QED  BY <1>1, <1>6, <1>7, OneDownload

LEMMA DownNext == IInv /\ DownInv /\ FilesFit /\ [Next]_vars => DownInv'
<1> SUFFICES ASSUME IInv, DownInv, FilesFit, [Next]_vars PROVE DownInv'
  OBVIOUS
<1>1. ASSUME NEW u \in Uploads, SendChunk(u) \/ UploadSteps(u) PROVE DownInv'
  BY <1>1, UploadsChange
<1>2. ASSUME NEW d \in Downloads, Serve(d) \/ DownloadSteps(d) PROVE DownInv'
  BY <1>2, ServeDown, ReadDown, SentDown DEF DownloadSteps
<1>3. CASE UNCHANGED vars
  BY <1>3 DEF vars, DownInv
<1> QED  BY <1>1, <1>2, <1>3 DEF Next

\* As long as a uint64_t can say how long each file is, FileSvr::serve() and
\* send_partial() send as many bytes of a file that stays as it is as their header
\* promises exactly for the ranges that LengthIsKept lists; for all others, whose length
\* wraps or which begin past the end, the promise is broken.  For every size of file and
\* buffer.
THEOREM LengthAsPromised == Spec /\ []FilesFit => []LengthIsKept
<1>1. Init => DownInv
  BY DEF Init, DownInv
<1>2. IInv /\ DownInv /\ FilesFit /\ [Next]_vars => DownInv'
  BY DownNext
<1>3. DownInv => LengthIsKept
  <2> SUFFICES ASSUME DownInv, NEW d \in Downloads, down[d].at = "done", ~down[d].changed
               PROVE  LET range == down[d].range
                          last == LastByte(range, down[d].size)
                      IN  down[d].sent = Promised(d) <=>
                            \/ range.kind = "none"
                            \/ range.begin = (last + 1) % Word
                            \/ range.begin <= last /\ down[d].size > 0
    BY DEF LengthIsKept
  <2> DEFINE x == down[d]
  <2>1. x \in Transfer /\ x.sent = Least(Length(x), Reachable(x)) /\ Promised(d) = Length(x)
    BY DEF DownInv, Downloading, FileAgrees, Promised, Length
  <2> HIDE DEF x
  <2>2. LET last == LastByte(x.range, x.size)
        IN  x.sent = Length(x) <=> \/ x.range.kind = "none"
                                   \/ x.range.begin = (last + 1) % Word
                                   \/ x.range.begin <= last /\ x.size > 0
    BY <2>1, PromiseIsKept
  <2> QED  BY <2>1, <2>2 DEF x
<1>4. Spec => []IInv
  BY Invariant
<1> QED  BY <1>1, <1>2, <1>3, <1>4, PTL DEF Spec

=============================================================================
