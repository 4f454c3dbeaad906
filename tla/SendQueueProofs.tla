--------------------------- MODULE SendQueueProofs ---------------------------
(***************************************************************************)
(* Proofs about SendQueue, for any set of messages.  The invariant says    *)
(* where the single write chain is (Chain), that the queue is the tail of  *)
(* what was sent (QueueIsTail) and where the wire stands relative to it    *)
(* (WireIsPrefixOfSent, WireMeetsQueue).  Sequences are described by their *)
(* lengths and elements, which is what the SMT solver reasons about best.  *)
(***************************************************************************)
EXTENDS SendQueue, SequenceTheorems, TLAPS

Chain ==
  \/ /\ Len(posted) = 0 /\ Len(writing) = 0 /\ Len(completed) = 0
     /\ Len(queue) = 0 \/ stopped
  \/ /\ Len(queue) > 0
     /\ \/ Len(posted) = 1 /\ Len(writing) = 0 /\ Len(completed) = 0 /\ posted[1] = queue[1]
        \/ Len(posted) = 0 /\ Len(writing) = 1 /\ Len(completed) = 0 /\ writing[1] = queue[1]
        \/ Len(posted) = 0 /\ Len(writing) = 0 /\ Len(completed) = 1 /\ completed[1].msg = queue[1]

QueueIsTail ==
  /\ Len(queue) <= Len(sent)
  /\ \A i \in 1..Len(queue) : queue[i] = sent[Len(sent) - Len(queue) + i]

\* The wire ends where the queue starts, or earlier once the socket is broken.
WireBehind ==
  /\ Len(wire) <= Len(sent) - Len(queue)
  /\ ~broken => Len(wire) = Len(sent) - Len(queue)

WireMeetsQueue ==
  /\ Len(posted) > 0 \/ Len(writing) > 0 \/ Len(queue) = 0 => WireBehind
  /\ Len(completed) > 0 /\ completed[1].ok => Len(wire) = Len(sent) - Len(queue) + 1
  /\ Len(completed) > 0 /\ ~completed[1].ok => broken /\ Len(wire) <= Len(sent) - Len(queue)

IInv == TypeOK /\ Chain /\ QueueIsTail /\ WireIsPrefixOfSent /\ WireMeetsQueue

-----------------------------------------------------------------------------
(* Sequences, by length and element. *)

LEMMA SeqFacts ==
  ASSUME NEW S, NEW s \in Seq(S)
  PROVE  /\ Len(s) \in Nat
         /\ s # <<>> <=> Len(s) > 0
         /\ \A i \in 1..Len(s) : s[i] \in S
BY EmptySeq

LEMMA AppendFacts ==
  ASSUME NEW S, NEW s \in Seq(S), NEW e \in S
  PROVE  /\ Append(s, e) \in Seq(S)
         /\ Len(Append(s, e)) = Len(s) + 1
         /\ \A i \in 1..Len(s) : Append(s, e)[i] = s[i]
         /\ Append(s, e)[Len(s) + 1] = e
OBVIOUS

LEMMA TailFacts ==
  ASSUME NEW S, NEW s \in Seq(S), s # <<>>
  PROVE  /\ Tail(s) \in Seq(S)
         /\ Len(Tail(s)) = Len(s) - 1
         /\ \A i \in 1..(Len(s) - 1) : Tail(s)[i] = s[i + 1]
         /\ Head(s) = s[1]
         /\ Head(s) \in S
BY HeadTailProperties

\* What TypeOK says of the lengths.
LEMMA LenFacts ==
  ASSUME TypeOK
  PROVE  /\ Len(queue) \in Nat /\ (queue # <<>> <=> Len(queue) > 0)
         /\ Len(posted) \in Nat /\ (posted # <<>> <=> Len(posted) > 0)
         /\ Len(writing) \in Nat /\ (writing # <<>> <=> Len(writing) > 0)
         /\ Len(completed) \in Nat /\ (completed # <<>> <=> Len(completed) > 0)
         /\ Len(sent) \in Nat /\ Len(wire) \in Nat
BY SeqFacts DEF TypeOK

\* The chain is in one place at a time.
LEMMA ChainFacts ==
  ASSUME TypeOK, Chain
  PROVE  /\ Len(posted) + Len(writing) + Len(completed) <= 1
         /\ Len(posted) + Len(completed) <= 1
         /\ Len(posted) + Len(completed) = 1 => Len(writing) = 0 /\ Len(queue) > 0
         /\ Len(queue) > 0 /\ ~stopped => Len(posted) + Len(writing) + Len(completed) = 1
<1>1. CASE Len(posted) = 0 /\ Len(writing) = 0 /\ Len(completed) = 0 /\ (Len(queue) = 0 \/ stopped)
  BY <1>1, LenFacts
<1>2. CASE Len(queue) > 0 /\ Len(posted) = 1 /\ Len(writing) = 0 /\ Len(completed) = 0
  BY <1>2, LenFacts
<1>3. CASE Len(queue) > 0 /\ Len(posted) = 0 /\ Len(writing) = 1 /\ Len(completed) = 0
  BY <1>3, LenFacts
<1>4. CASE Len(queue) > 0 /\ Len(posted) = 0 /\ Len(writing) = 0 /\ Len(completed) = 1
  BY <1>4, LenFacts
<1>. QED
  BY <1>1, <1>2, <1>3, <1>4 DEF Chain

-----------------------------------------------------------------------------
(* What each operation does to the sequences. *)

LEMMA SendEffect ==
  ASSUME TypeOK, NEW m \in Messages, Send(m)
  PROVE  /\ queue' \in Seq(Messages) /\ sent' \in Seq(Messages) /\ posted' \in Seq(Messages)
         /\ Len(queue') = Len(queue) + 1 /\ queue'[Len(queue) + 1] = m
         /\ \A i \in 1..Len(queue) : queue'[i] = queue[i]
         /\ Len(sent') = Len(sent) + 1 /\ sent'[Len(sent) + 1] = m
         /\ \A i \in 1..Len(sent) : sent'[i] = sent[i]
         /\ Len(queue) > 0 => posted' = posted
         /\ Len(queue) = 0 => /\ Len(posted') = Len(posted) + 1
                              /\ posted'[Len(posted) + 1] = m
         /\ UNCHANGED <<writing, completed, due, outcome, wire, broken, stopped>>
<1>1. queue' = Append(queue, m) /\ sent' = Append(sent, m)
  BY DEF Send
<1>2. posted' = IF Len(queue) = 0 THEN Append(posted, m) ELSE posted
  BY <1>1, AppendFacts, LenFacts DEF Send, TypeOK
<1>3. queue \in Seq(Messages) /\ sent \in Seq(Messages) /\ posted \in Seq(Messages)
  BY DEF TypeOK
<1>. QED
  BY <1>1, <1>2, <1>3, AppendFacts, SeqFacts DEF Send

LEMMA RunEffect ==
  ASSUME TypeOK, RunPosted
  PROVE  /\ posted' \in Seq(Messages) /\ writing' \in Seq(Messages)
         /\ Len(posted) > 0 /\ Len(posted') = Len(posted) - 1
         /\ Len(writing') = Len(writing) + 1
         /\ writing'[Len(writing) + 1] = posted[1]
         /\ UNCHANGED <<queue, completed, due, outcome, sent, wire, broken, stopped>>
<1>1. posted # <<>> /\ posted' = Tail(posted) /\ writing' = Append(writing, Head(posted))
  BY DEF RunPosted
<1>2. posted \in Seq(Messages) /\ writing \in Seq(Messages)
  BY DEF TypeOK
<1>3. Head(posted) \in Messages /\ Head(posted) = posted[1]
  BY <1>1, <1>2, TailFacts
<1>. QED
  BY <1>1, <1>2, <1>3, TailFacts, AppendFacts, SeqFacts DEF RunPosted

LEMMA RefusedEffect ==
  ASSUME TypeOK, PostedRefused \/ HandlerRefused
  PROVE  /\ posted' \in Seq(Messages) /\ completed' \in Seq(Completion)
         /\ stopped
         /\ Len(posted') <= Len(posted) /\ Len(completed') <= Len(completed)
         /\ Len(posted') + Len(completed') = Len(posted) + Len(completed) - 1
         /\ UNCHANGED <<queue, writing, due, outcome, sent, wire, broken, stopped>>
<1>1. CASE PostedRefused
  BY <1>1, TailFacts, LenFacts DEF PostedRefused, TypeOK
<1>2. CASE HandlerRefused
  BY <1>2, TailFacts, LenFacts DEF HandlerRefused, TypeOK
<1>. QED
  BY <1>1, <1>2

LEMMA WriteEffect ==
  ASSUME TypeOK, WriteSucceeds \/ WriteFails
  PROVE  /\ writing' \in Seq(Messages) /\ completed' \in Seq(Completion) /\ wire' \in Seq(Messages)
         /\ Len(writing) > 0 /\ Len(writing') = Len(writing) - 1
         /\ Len(completed') = Len(completed) + 1
         /\ completed'[Len(completed) + 1].msg = writing[1]
         /\ completed'[Len(completed) + 1].ok <=> WriteSucceeds
         /\ WriteSucceeds => ~broken /\ wire' = Append(wire, writing[1])
         /\ ~WriteSucceeds => broken /\ wire' = wire
         /\ UNCHANGED <<queue, posted, due, outcome, sent, broken, stopped>>
<1>1. CASE WriteSucceeds
  <2>1. writing[1] \in Messages /\ Head(writing) = writing[1]
    BY <1>1, TailFacts DEF WriteSucceeds, TypeOK
  <2>2. [msg |-> writing[1], ok |-> TRUE] \in Completion
    BY <2>1 DEF Completion
  <2>3. completed' = Append(completed, [msg |-> writing[1], ok |-> TRUE])
    BY <1>1, <2>1 DEF WriteSucceeds
  <2>4. /\ completed'[Len(completed) + 1] = [msg |-> writing[1], ok |-> TRUE]
        /\ completed' \in Seq(Completion) /\ Len(completed') = Len(completed) + 1
    BY <2>2, <2>3, AppendFacts DEF TypeOK
  <2>5. /\ completed'[Len(completed) + 1].msg = writing[1]
        /\ completed'[Len(completed) + 1].ok
    BY <2>4
  <2>. QED
    BY <1>1, <2>1, <2>4, <2>5, TailFacts, AppendFacts, LenFacts DEF WriteSucceeds, TypeOK
<1>2. CASE WriteFails
  <2>0. ~WriteSucceeds
    BY <1>2 DEF WriteSucceeds, WriteFails
  <2>1. writing[1] \in Messages /\ Head(writing) = writing[1]
    BY <1>2, TailFacts DEF WriteFails, TypeOK
  <2>2. [msg |-> writing[1], ok |-> FALSE] \in Completion
    BY <2>1 DEF Completion
  <2>3. completed' = Append(completed, [msg |-> writing[1], ok |-> FALSE])
    BY <1>2, <2>1 DEF WriteFails
  <2>4. /\ completed'[Len(completed) + 1] = [msg |-> writing[1], ok |-> FALSE]
        /\ completed' \in Seq(Completion) /\ Len(completed') = Len(completed) + 1
    BY <2>2, <2>3, AppendFacts DEF TypeOK
  <2>5. /\ completed'[Len(completed) + 1].msg = writing[1]
        /\ ~completed'[Len(completed) + 1].ok
    BY <2>4
  <2>. QED
    BY <1>2, <2>0, <2>1, <2>4, <2>5, TailFacts, LenFacts DEF WriteFails, TypeOK
<1>. QED
  BY <1>1, <1>2

LEMMA SentEffect ==
  ASSUME TypeOK, HandleSent
  PROVE  /\ queue' \in Seq(Messages) /\ posted' \in Seq(Messages) /\ completed' \in Seq(Completion)
         /\ Len(completed) > 0 /\ completed[1].ok
         /\ Len(completed') = Len(completed) - 1
         /\ Len(queue) > 0 /\ Len(queue') = Len(queue) - 1
         /\ \A i \in 1..(Len(queue) - 1) : queue'[i] = queue[i + 1]
         /\ Len(queue) = 1 => posted' = posted
         /\ Len(queue) > 1 => /\ Len(posted') = Len(posted) + 1
                              /\ posted'[Len(posted) + 1] = queue[2]
         /\ UNCHANGED <<writing, outcome, sent, wire, broken, stopped>>
<1>1. Len(queue) > 1 => queue[2] \in Messages
  BY SeqFacts DEF TypeOK
<1>2. Len(queue) > 1 => posted' = Append(posted, queue[2])
  BY DEF HandleSent
<1>3. ~(Len(queue) > 1) => posted' = posted
  BY DEF HandleSent
<1>. QED
  BY <1>1, <1>2, <1>3, TailFacts, AppendFacts, LenFacts DEF HandleSent, TypeOK

LEMMA FailedEffect ==
  ASSUME TypeOK, HandleFailed
  PROVE  /\ queue' = <<>> /\ Len(queue') = 0 /\ completed' \in Seq(Completion)
         /\ Len(completed) > 0 /\ ~completed[1].ok
         /\ Len(completed') = Len(completed) - 1
         /\ UNCHANGED <<posted, writing, outcome, sent, wire, broken, stopped>>
BY TailFacts, LenFacts DEF HandleFailed, TypeOK

\* The steps that leave all sequences as they are.
Quiet == (\E m \in Messages : Callback(m)) \/ Break \/ Stop \/ UNCHANGED vars

LEMMA QuietEffect ==
  ASSUME Quiet
  PROVE  /\ UNCHANGED <<queue, posted, writing, completed, sent, wire>>
         /\ broken => broken'
         /\ stopped => stopped'
BY DEF Quiet, Callback, Break, Stop, vars

LEMMA StepCases ==
  ASSUME [Next]_vars
  PROVE  \/ \E m \in Messages : Send(m)
         \/ RunPosted
         \/ PostedRefused \/ HandlerRefused
         \/ WriteSucceeds \/ WriteFails
         \/ HandleSent
         \/ HandleFailed
         \/ Quiet
BY DEF Next, Handlers, Quiet

-----------------------------------------------------------------------------
(* The invariant. *)

LEMMA InitIInv == Init => IInv
<1>. SUFFICES ASSUME Init PROVE IInv
  OBVIOUS
<1>1. TypeOK
  BY EmptySeq DEF Init, TypeOK, Results
<1>. QED
  BY <1>1 DEF Init, IInv, Chain, QueueIsTail, WireIsPrefixOfSent, WireMeetsQueue, WireBehind

LEMMA TypeStep == TypeOK /\ [Next]_vars => TypeOK'
<1>. SUFFICES ASSUME TypeOK, [Next]_vars PROVE TypeOK'
  OBVIOUS
<1>1. ASSUME NEW m \in Messages, Send(m) PROVE TypeOK'
  BY <1>1, SendEffect DEF TypeOK
<1>2. CASE RunPosted
  BY <1>2, RunEffect DEF TypeOK
<1>3. CASE PostedRefused \/ HandlerRefused
  BY <1>3, RefusedEffect DEF TypeOK
<1>4. CASE WriteSucceeds \/ WriteFails
  BY <1>4, WriteEffect DEF TypeOK
<1>5. CASE HandleSent
  <2>1. /\ due' \in [Messages -> Results]
        /\ \A m \in Messages \ WithCallback : due'[m] = "none"
    BY <1>5 DEF HandleSent, TypeOK, Results
  <2>. QED
    BY <1>5, <2>1, SentEffect DEF TypeOK
<1>6. CASE HandleFailed
  <2>1. /\ due' \in [Messages -> Results]
        /\ \A m \in Messages \ WithCallback : due'[m] = "none"
    BY <1>6 DEF HandleFailed, TypeOK, Results
  <2>2. queue' \in Seq(Messages)
    BY <1>6, FailedEffect, EmptySeq
  <2>. QED
    BY <1>6, <2>1, <2>2, FailedEffect DEF TypeOK
<1>7. CASE Quiet
  BY <1>7 DEF Quiet, Callback, Break, Stop, vars, TypeOK, Results
<1>. QED
  BY <1>1, <1>2, <1>3, <1>4, <1>5, <1>6, <1>7, StepCases

LEMMA ChainStep == IInv /\ [Next]_vars => Chain'
<1>. SUFFICES ASSUME IInv, [Next]_vars PROVE Chain'
  OBVIOUS
<1>0. TypeOK /\ Chain
  BY DEF IInv
<1>l. /\ Len(queue) \in Nat /\ Len(posted) \in Nat
      /\ Len(writing) \in Nat /\ Len(completed) \in Nat
  BY <1>0, LenFacts
<1>m. TypeOK'
  BY <1>0, TypeStep
<1>n. /\ Len(queue') \in Nat /\ Len(posted') \in Nat
      /\ Len(writing') \in Nat /\ Len(completed') \in Nat
  BY <1>m, SeqFacts DEF TypeOK
<1>1. ASSUME NEW m \in Messages, Send(m) PROVE Chain'
  <2>1. CASE Len(queue) = 0
    <3>1. Len(posted) = 0 /\ Len(writing) = 0 /\ Len(completed) = 0
      BY <1>0, <1>l, <2>1 DEF Chain
    <3>2. Len(queue') = 1 /\ queue'[1] = m /\ Len(posted') = 1 /\ posted'[1] = m
      BY <1>0, <1>1, <2>1, <3>1, SendEffect
    <3>. QED
      BY <1>0, <1>1, <3>1, <3>2, SendEffect DEF Chain
  <2>2. CASE Len(queue) > 0
    <3>1. Len(queue') > 0 /\ queue'[1] = queue[1] /\ posted' = posted
      BY <1>0, <1>1, <1>l, <2>2, SendEffect
    <3>. QED
      BY <1>0, <1>1, <2>2, <3>1, SendEffect DEF Chain
  <2>. QED
    BY <1>l, <2>1, <2>2
<1>2. CASE RunPosted
  BY <1>0, <1>l, <1>2, RunEffect DEF Chain
<1>3. CASE PostedRefused \/ HandlerRefused
  <2>1. /\ Len(posted') + Len(completed') = Len(posted) + Len(completed) - 1
        /\ writing' = writing /\ stopped' = stopped /\ stopped
    BY <1>0, <1>3, RefusedEffect
  <2>2. Len(posted) + Len(completed) <= 1 /\ (Len(posted) + Len(completed) = 1 => Len(writing) = 0)
    BY <1>0, ChainFacts
  <2>3. Len(posted') = 0 /\ Len(completed') = 0 /\ Len(writing') = 0
    BY <1>l, <1>n, <2>1, <2>2
  <2>. QED
    BY <2>1, <2>3 DEF Chain
<1>4. CASE WriteSucceeds \/ WriteFails
  <2>1. /\ Len(posted) = 0 /\ Len(writing) = 1 /\ Len(completed) = 0
        /\ Len(queue) > 0 /\ writing[1] = queue[1]
    BY <1>0, <1>l, <1>4, WriteEffect DEF Chain
  <2>2. /\ Len(posted') = 0 /\ Len(writing') = 0 /\ Len(completed') = 1
        /\ queue' = queue /\ completed'[1].msg = queue[1]
    BY <1>0, <1>4, <2>1, WriteEffect
  <2>. QED
    BY <2>1, <2>2 DEF Chain
<1>5. CASE HandleSent
  <2>1. Len(posted) = 0 /\ Len(writing) = 0 /\ Len(completed) = 1 /\ Len(queue) > 0
    BY <1>0, <1>l, <1>5, SentEffect DEF Chain
  <2>2. Len(writing') = 0 /\ Len(completed') = 0
    BY <1>0, <1>5, <2>1, SentEffect
  <2>3. CASE Len(queue) = 1
    <3>1. Len(posted') = 0 /\ Len(queue') = 0
      BY <1>0, <1>5, <2>1, <2>3, SentEffect
    <3>. QED
      BY <2>2, <3>1 DEF Chain
  <2>4. CASE Len(queue) > 1
    <3>1. /\ Len(posted') = 1 /\ posted'[1] = queue[2]
          /\ Len(queue') > 0 /\ queue'[1] = queue[2]
      BY <1>0, <1>l, <1>5, <2>1, <2>4, SentEffect
    <3>. QED
      BY <2>2, <3>1 DEF Chain
  <2>5. Len(queue) = 1 \/ Len(queue) > 1
    BY <1>l, <2>1
  <2>. QED
    BY <2>3, <2>4, <2>5
<1>6. CASE HandleFailed
  BY <1>0, <1>l, <1>6, FailedEffect DEF Chain
<1>7. CASE Quiet
  BY <1>0, <1>7, QuietEffect DEF Chain
<1>. QED
  BY <1>1, <1>2, <1>3, <1>4, <1>5, <1>6, <1>7, StepCases

LEMMA QueueIsTailStep == IInv /\ [Next]_vars => QueueIsTail'
<1>. SUFFICES ASSUME IInv, [Next]_vars PROVE QueueIsTail'
  OBVIOUS
<1>0. TypeOK /\ QueueIsTail
  BY DEF IInv
<1>l. Len(queue) \in Nat /\ Len(sent) \in Nat
  BY <1>0, LenFacts
<1>1. ASSUME NEW m \in Messages, Send(m) PROVE QueueIsTail'
  <2>1. /\ Len(queue') = Len(queue) + 1 /\ queue'[Len(queue) + 1] = m
        /\ \A i \in 1..Len(queue) : queue'[i] = queue[i]
        /\ Len(sent') = Len(sent) + 1 /\ sent'[Len(sent) + 1] = m
        /\ \A i \in 1..Len(sent) : sent'[i] = sent[i]
    BY <1>0, <1>1, SendEffect
  <2>2. ASSUME NEW i \in 1..Len(queue')
        PROVE  queue'[i] = sent'[Len(sent') - Len(queue') + i]
    <3>1. CASE i = Len(queue) + 1
      BY <1>l, <2>1, <3>1
    <3>2. CASE i \in 1..Len(queue)
      <4>1. Len(sent) - Len(queue) + i \in 1..Len(sent)
        BY <1>0, <1>l, <3>2 DEF QueueIsTail
      <4>. QED
        BY <1>0, <1>l, <2>1, <3>2, <4>1 DEF QueueIsTail
    <3>. QED
      BY <1>l, <2>1, <2>2, <3>1, <3>2
  <2>. QED
    BY <1>0, <1>l, <2>1, <2>2 DEF QueueIsTail
<1>2. CASE HandleSent
  <2>1. /\ Len(queue') = Len(queue) - 1 /\ Len(queue) > 0
        /\ \A i \in 1..(Len(queue) - 1) : queue'[i] = queue[i + 1]
        /\ sent' = sent
    BY <1>0, <1>2, SentEffect
  <2>2. ASSUME NEW i \in 1..Len(queue')
        PROVE  queue'[i] = sent'[Len(sent') - Len(queue') + i]
    <3>1. i + 1 \in 1..Len(queue) /\ queue'[i] = queue[i + 1]
      BY <1>l, <2>1
    <3>2. Len(sent') - Len(queue') + i = Len(sent) - Len(queue) + (i + 1)
      BY <1>l, <2>1
    <3>. QED
      BY <1>0, <2>1, <3>1, <3>2 DEF QueueIsTail
  <2>. QED
    BY <1>0, <1>l, <2>1, <2>2 DEF QueueIsTail
<1>3. CASE HandleFailed
  BY <1>0, <1>l, <1>3, FailedEffect DEF QueueIsTail
<1>4. CASE RunPosted
  BY <1>0, <1>4, RunEffect DEF QueueIsTail
<1>5. CASE PostedRefused \/ HandlerRefused
  BY <1>0, <1>5, RefusedEffect DEF QueueIsTail
<1>6. CASE WriteSucceeds \/ WriteFails
  BY <1>0, <1>6, WriteEffect DEF QueueIsTail
<1>7. CASE Quiet
  BY <1>0, <1>7, QuietEffect DEF QueueIsTail
<1>. QED
  BY <1>1, <1>2, <1>3, <1>4, <1>5, <1>6, <1>7, StepCases

LEMMA WireStep == IInv /\ [Next]_vars => WireIsPrefixOfSent'
<1>. SUFFICES ASSUME IInv, [Next]_vars PROVE WireIsPrefixOfSent'
  OBVIOUS
<1>0. TypeOK /\ WireIsPrefixOfSent
  BY DEF IInv
<1>l. /\ Len(queue) \in Nat /\ Len(sent) \in Nat /\ Len(wire) \in Nat
      /\ Len(posted) \in Nat /\ Len(writing) \in Nat /\ Len(completed) \in Nat
  BY <1>0, LenFacts
<1>1. ASSUME NEW m \in Messages, Send(m) PROVE WireIsPrefixOfSent'
  BY <1>0, <1>l, <1>1, SendEffect DEF WireIsPrefixOfSent
<1>2. CASE WriteSucceeds
  <2>1. Len(queue) > 0 /\ writing[1] = queue[1] /\ Len(wire) = Len(sent) - Len(queue)
    BY <1>0, <1>2, <1>l, WriteEffect DEF IInv, Chain, WireMeetsQueue, WireBehind
  <2>2. writing[1] = sent[Len(wire) + 1]
    BY <1>l, <2>1 DEF IInv, QueueIsTail
  <2>3. writing[1] \in Messages
    BY <1>0, <1>2, WriteEffect, SeqFacts DEF TypeOK
  <2>4. wire' = Append(wire, writing[1]) /\ sent' = sent
    BY <1>0, <1>2, WriteEffect
  <2>5. /\ Len(wire') = Len(wire) + 1 /\ wire'[Len(wire) + 1] = writing[1]
        /\ \A i \in 1..Len(wire) : wire'[i] = wire[i]
    BY <1>0, <2>3, <2>4, AppendFacts DEF TypeOK
  <2>. QED
    BY <1>0, <1>l, <2>1, <2>2, <2>4, <2>5 DEF WireIsPrefixOfSent
<1>3. CASE WriteFails /\ ~WriteSucceeds
  BY <1>0, <1>3, WriteEffect DEF WireIsPrefixOfSent
<1>4. CASE RunPosted
  BY <1>0, <1>4, RunEffect DEF WireIsPrefixOfSent
<1>5. CASE PostedRefused \/ HandlerRefused
  BY <1>0, <1>5, RefusedEffect DEF WireIsPrefixOfSent
<1>6. CASE HandleSent
  BY <1>0, <1>6, SentEffect DEF WireIsPrefixOfSent
<1>7. CASE HandleFailed
  BY <1>0, <1>7, FailedEffect DEF WireIsPrefixOfSent
<1>8. CASE Quiet
  BY <1>0, <1>8, QuietEffect DEF WireIsPrefixOfSent
<1>. QED
  BY <1>1, <1>2, <1>3, <1>4, <1>5, <1>6, <1>7, <1>8, StepCases

LEMMA WireMeetsStep == IInv /\ [Next]_vars => WireMeetsQueue'
<1>. SUFFICES ASSUME IInv, [Next]_vars PROVE WireMeetsQueue'
  OBVIOUS
<1>0. TypeOK /\ Chain /\ WireMeetsQueue
  BY DEF IInv
<1>l. /\ Len(queue) \in Nat /\ Len(sent) \in Nat /\ Len(wire) \in Nat
      /\ Len(posted) \in Nat /\ Len(writing) \in Nat /\ Len(completed) \in Nat
  BY <1>0, LenFacts
<1>1. ASSUME NEW m \in Messages, Send(m) PROVE WireMeetsQueue'
  <2>1. /\ Len(sent') = Len(sent) + 1 /\ Len(queue') = Len(queue) + 1
        /\ UNCHANGED <<writing, completed, wire, broken>>
        /\ Len(queue) > 0 => posted' = posted
    BY <1>0, <1>1, SendEffect
  <2>2. Len(sent') - Len(queue') = Len(sent) - Len(queue) /\ Len(queue') > 0
    BY <1>l, <2>1
  <2>3. Len(posted') > 0 => Len(posted) > 0 \/ Len(queue) = 0
    BY <1>l, <2>1
  <2>4. WireBehind' <=> WireBehind
    BY <2>1, <2>2 DEF WireBehind
  <2>5. Len(posted') > 0 \/ Len(writing') > 0 \/ Len(queue') = 0 => WireBehind'
    BY <1>0, <1>l, <2>1, <2>2, <2>3, <2>4 DEF WireMeetsQueue
  <2>6. Len(completed') > 0 /\ completed'[1].ok => Len(wire') = Len(sent') - Len(queue') + 1
    BY <1>0, <2>1, <2>2 DEF WireMeetsQueue
  <2>7. Len(completed') > 0 /\ ~completed'[1].ok
          => broken' /\ Len(wire') <= Len(sent') - Len(queue')
    BY <1>0, <2>1, <2>2 DEF WireMeetsQueue
  <2>. QED
    BY <2>5, <2>6, <2>7 DEF WireMeetsQueue
<1>2. CASE RunPosted
  BY <1>0, <1>l, <1>2, RunEffect DEF WireMeetsQueue, WireBehind, Chain
<1>3. CASE PostedRefused \/ HandlerRefused
  <2>1. Len(posted') \in Nat /\ Len(completed') \in Nat
    BY <1>0, <1>3, RefusedEffect, SeqFacts
  <2>2. Len(posted') + Len(completed') = Len(posted) + Len(completed) - 1
    BY <1>0, <1>3, RefusedEffect
  <2>3. /\ Len(posted) + Len(completed) <= 1
        /\ Len(posted) + Len(completed) = 1 => Len(writing) = 0 /\ Len(queue) > 0
    BY <1>0, ChainFacts
  <2>4. Len(posted') = 0 /\ Len(completed') = 0 /\ Len(writing) = 0 /\ Len(queue) > 0
    BY <1>l, <2>1, <2>2, <2>3
  <2>. QED
    BY <1>0, <1>l, <1>3, <2>4, RefusedEffect DEF WireMeetsQueue, WireBehind
<1>4. CASE WriteSucceeds
  <2>1. /\ Len(posted) = 0 /\ Len(writing) = 1 /\ Len(completed) = 0 /\ Len(queue) > 0
        /\ Len(wire) = Len(sent) - Len(queue)
    BY <1>0, <1>4, <1>l, WriteEffect DEF Chain, WireMeetsQueue, WireBehind
  <2>2. writing[1] \in Messages
    BY <1>0, <1>4, TailFacts DEF WriteSucceeds, TypeOK
  <2>3. Len(wire') = Len(wire) + 1
    BY <1>0, <1>4, <2>2, WriteEffect, AppendFacts DEF TypeOK
  <2>. QED
    BY <1>0, <1>4, <1>l, <2>1, <2>3, WriteEffect DEF WireMeetsQueue, WireBehind
<1>5. CASE WriteFails /\ ~WriteSucceeds
  <2>1. /\ Len(posted) = 0 /\ Len(writing) = 1 /\ Len(completed) = 0 /\ Len(queue) > 0
        /\ Len(wire) <= Len(sent) - Len(queue)
    BY <1>0, <1>5, <1>l, WriteEffect DEF Chain, WireMeetsQueue, WireBehind
  <2>. QED
    BY <1>0, <1>5, <1>l, <2>1, WriteEffect DEF WireMeetsQueue, WireBehind
<1>6. CASE HandleSent
  <2>1. /\ Len(posted) = 0 /\ Len(writing) = 0 /\ Len(completed') = 0
        /\ Len(wire) = Len(sent) - Len(queue) + 1
    BY <1>0, <1>6, <1>l, SentEffect DEF Chain, WireMeetsQueue
  <2>. QED
    BY <1>0, <1>6, <1>l, <2>1, SentEffect DEF WireMeetsQueue, WireBehind
<1>7. CASE HandleFailed
  <2>1. /\ Len(posted) = 0 /\ Len(writing) = 0 /\ Len(completed') = 0
        /\ broken /\ Len(wire) <= Len(sent)
    BY <1>0, <1>7, <1>l, FailedEffect DEF Chain, WireMeetsQueue
  <2>. QED
    BY <1>0, <1>7, <1>l, <2>1, FailedEffect DEF WireMeetsQueue, WireBehind
<1>8. CASE Quiet
  BY <1>0, <1>l, <1>8, QuietEffect DEF WireMeetsQueue, WireBehind
<1>. QED
  BY <1>1, <1>2, <1>3, <1>4, <1>5, <1>6, <1>7, <1>8, StepCases

THEOREM Invariant == Spec => []IInv
<1>1. IInv /\ [Next]_vars => IInv'
  BY TypeStep, ChainStep, QueueIsTailStep, WireStep, WireMeetsStep DEF IInv
<1>. QED
  BY InitIInv, <1>1, PTL DEF Spec

-----------------------------------------------------------------------------
\* The variables keep their types: TypeOK of SendQueue.
THEOREM TypeCorrect == Spec => []TypeOK
<1>1. IInv => TypeOK
  BY DEF IInv
<1>. QED
  BY Invariant, <1>1, PTL

\* At most one posted closure, write or completion handler, and for the front
\* of the queue (OneWriteOfFront): the buffers asio holds stay alive and two
\* messages never mix on the socket.
THEOREM SingleWriteChain == Spec => []OneWriteOfFront
<1>1. ASSUME IInv PROVE OneWriteOfFront
  <2>1. /\ Len(queue) \in Nat /\ (queue # <<>> <=> Len(queue) > 0)
        /\ Len(posted) \in Nat /\ Len(writing) \in Nat /\ Len(completed) \in Nat
        /\ queue # <<>> => Head(queue) = queue[1]
    BY <1>1, LenFacts, TailFacts DEF IInv, TypeOK
  <2>2. Len(posted) + Len(writing) + Len(completed) <= 1
    BY <1>1, ChainFacts DEF IInv
  <2>3. \A i \in 1..Len(posted) : queue # <<>> /\ posted[i] = Head(queue)
    BY <1>1, <2>1 DEF IInv, Chain
  <2>4. \A i \in 1..Len(writing) : queue # <<>> /\ writing[i] = Head(queue)
    BY <1>1, <2>1 DEF IInv, Chain
  <2>5. \A i \in 1..Len(completed) : queue # <<>> /\ completed[i].msg = Head(queue)
    BY <1>1, <2>1 DEF IInv, Chain
  <2>. QED
    BY <2>2, <2>3, <2>4, <2>5 DEF OneWriteOfFront, Elements
<1>. QED
  BY Invariant, <1>1, PTL

\* A message in the queue always has a write chain to move it (QueueIsServed).
THEOREM NoMessageForgotten == Spec => []QueueIsServed
<1>1. ASSUME IInv PROVE QueueIsServed
  BY <1>1, LenFacts, ChainFacts DEF IInv, QueueIsServed
<1>. QED
  BY Invariant, <1>1, PTL

\* The wire carries a prefix of what was sent, in order (WireIsPrefixOfSent).
THEOREM WireOrder == Spec => []WireIsPrefixOfSent
<1>1. IInv => WireIsPrefixOfSent
  BY DEF IInv
<1>. QED
  BY Invariant, <1>1, PTL

-----------------------------------------------------------------------------
(* The callbacks: a second invariant on top of the first. *)

SentOnce == \A i, j \in 1..Len(sent) : sent[i] = sent[j] => i = j

CallbackFits(m) ==
  /\ m \in Elements(queue) \/ m \notin Elements(sent) => due[m] = "none" /\ outcome[m] = "none"
  /\ due[m] = "sent" => m \in Elements(wire)
  /\ due[m] = "failed" => broken /\ m \in Elements(sent) /\ m \notin Elements(wire)
  /\ due[m] # "none" => outcome[m] = "none" /\ ~stopped

CallbackState == \A m \in Messages : CallbackFits(m)

CInv == IInv /\ SentOnce /\ CallbackState

\* What is in the queue was sent, and nothing sent is in the queue twice.
LEMMA QueueElements ==
  ASSUME IInv, SentOnce
  PROVE  /\ Elements(queue) \subseteq Elements(sent)
         /\ \A i, j \in 1..Len(queue) : queue[i] = queue[j] => i = j
<1>1. Len(queue) \in Nat /\ Len(sent) \in Nat /\ Len(queue) <= Len(sent)
  BY LenFacts DEF IInv, QueueIsTail
<1>2. \A i \in 1..Len(queue) : /\ Len(sent) - Len(queue) + i \in 1..Len(sent)
                               /\ queue[i] = sent[Len(sent) - Len(queue) + i]
  BY <1>1 DEF IInv, QueueIsTail
<1>3. Elements(queue) \subseteq Elements(sent)
  BY <1>2 DEF Elements
<1>4. ASSUME NEW i \in 1..Len(queue), NEW j \in 1..Len(queue), queue[i] = queue[j]
      PROVE  i = j
  <2>1. Len(sent) - Len(queue) + i = Len(sent) - Len(queue) + j
    BY <1>2, <1>4 DEF SentOnce
  <2>. QED
    BY <1>1, <2>1
<1>. QED
  BY <1>3, <1>4

\* Where the wire has got to when a completion handler finds its result: the
\* front is on it after a success, and nothing of the queue after a failure.
LEMMA WireAndQueue ==
  ASSUME IInv, SentOnce, Len(completed) > 0
  PROVE  /\ completed[1].ok => queue[1] \in Elements(wire)
         /\ ~completed[1].ok => broken /\ \A m \in Elements(queue) : m \notin Elements(wire)
<1>1. /\ Len(queue) \in Nat /\ Len(sent) \in Nat /\ Len(wire) \in Nat
      /\ Len(queue) <= Len(sent) /\ Len(wire) <= Len(sent)
  BY LenFacts DEF IInv, QueueIsTail, WireIsPrefixOfSent
<1>2. \A i \in 1..Len(queue) : /\ Len(sent) - Len(queue) + i \in 1..Len(sent)
                               /\ queue[i] = sent[Len(sent) - Len(queue) + i]
  BY <1>1 DEF IInv, QueueIsTail
<1>3. CASE completed[1].ok
  <2>1. Len(wire) = Len(sent) - Len(queue) + 1 /\ Len(queue) > 0
    BY <1>3, <1>1 DEF IInv, WireMeetsQueue, Chain
  <2>2. wire[Len(wire)] = queue[1] /\ Len(wire) \in 1..Len(wire)
    BY <1>1, <1>2, <2>1 DEF IInv, WireIsPrefixOfSent
  <2>. QED
    BY <1>3, <2>2 DEF Elements
<1>4. CASE ~completed[1].ok
  <2>1. broken /\ Len(wire) <= Len(sent) - Len(queue)
    BY <1>4 DEF IInv, WireMeetsQueue
  <2>2. ASSUME NEW i \in 1..Len(queue), NEW j \in 1..Len(wire), queue[i] = wire[j]
        PROVE  FALSE
    <3>1. wire[j] = sent[j] /\ j \in 1..Len(sent)
      BY <1>1 DEF IInv, WireIsPrefixOfSent
    <3>2. Len(sent) - Len(queue) + i = j
      BY <1>2, <2>2, <3>1 DEF SentOnce
    <3>. QED
      BY <1>1, <2>1, <3>2
  <2>. QED
    BY <1>4, <2>1, <2>2 DEF Elements
<1>. QED
  BY <1>3, <1>4

LEMMA SentOnceStep == CInv /\ [Next]_vars => SentOnce'
<1>. SUFFICES ASSUME CInv, [Next]_vars PROVE SentOnce'
  OBVIOUS
<1>0. TypeOK /\ SentOnce /\ Len(sent) \in Nat
  BY LenFacts DEF CInv, IInv
<1>1. ASSUME NEW m \in Messages, Send(m) PROVE SentOnce'
  <2>1. \A i \in 1..Len(sent) : sent[i] # m
    BY <1>1 DEF Send, Elements
  <2>2. /\ Len(sent') = Len(sent) + 1 /\ sent'[Len(sent) + 1] = m
        /\ \A i \in 1..Len(sent) : sent'[i] = sent[i]
    BY <1>0, <1>1, SendEffect
  <2>3. ASSUME NEW i \in 1..Len(sent'), NEW j \in 1..Len(sent'), sent'[i] = sent'[j]
        PROVE  i = j
    <3>1. i \in 1..Len(sent) \/ i = Len(sent) + 1
      BY <1>0, <2>2
    <3>2. j \in 1..Len(sent) \/ j = Len(sent) + 1
      BY <1>0, <2>2
    <3>. QED
      BY <1>0, <2>1, <2>2, <2>3, <3>1, <3>2 DEF SentOnce
  <2>. QED
    BY <2>3 DEF SentOnce
<1>2. CASE UNCHANGED sent
  BY <1>0, <1>2 DEF SentOnce
<1>3. (\E m \in Messages : Send(m)) \/ UNCHANGED sent
  BY <1>0, StepCases, RunEffect, RefusedEffect, WriteEffect, SentEffect, FailedEffect, QuietEffect
<1>. QED
  BY <1>1, <1>2, <1>3

LEMMA ElementsAppend ==
  ASSUME NEW S, NEW s \in Seq(S), NEW e \in S
  PROVE  Elements(Append(s, e)) = Elements(s) \cup {e}
<1>1. /\ Len(s) \in Nat /\ Len(Append(s, e)) = Len(s) + 1
      /\ Append(s, e)[Len(s) + 1] = e
      /\ \A i \in 1..Len(s) : Append(s, e)[i] = s[i]
  BY AppendFacts, SeqFacts
<1>2. 1..(Len(s) + 1) = (1..Len(s)) \cup {Len(s) + 1}
  BY <1>1
<1>. QED
  BY <1>1, <1>2 DEF Elements

LEMMA CallbackStateStep == CInv /\ [Next]_vars => CallbackState'
<1>. SUFFICES ASSUME CInv, [Next]_vars, NEW m \in Messages
              PROVE  CallbackFits(m)'
  BY DEF CallbackState
<1>. USE DEF CallbackFits
<1>0. TypeOK /\ IInv /\ SentOnce /\ CallbackState
  BY DEF CInv, IInv
<1>l. Len(queue) \in Nat /\ Len(sent) \in Nat /\ Len(wire) \in Nat
  BY <1>0, LenFacts
<1>m. CallbackFits(m)
  BY <1>0 DEF CallbackState
<1>t. due[m] \in Results /\ outcome[m] \in Results
  BY <1>0 DEF TypeOK
<1>1. ASSUME NEW n \in Messages, Send(n) PROVE CallbackFits(m)'
  <2>1. Elements(sent') = Elements(sent) \cup {n}
    BY <1>0, <1>1, ElementsAppend DEF Send, TypeOK
  <2>2. Elements(queue') = Elements(queue) \cup {n}
    BY <1>0, <1>1, ElementsAppend DEF Send, TypeOK
  <2>3. n \notin Elements(sent) /\ UNCHANGED <<due, outcome, wire, broken, stopped>>
    BY <1>1 DEF Send
  <2>4. Elements(wire') = Elements(wire)
    BY <2>3
  <2>. QED
    BY <1>m, <2>1, <2>2, <2>3, <2>4
<1>2. ASSUME NEW n \in Messages, Callback(n) PROVE CallbackFits(m)'
  <2>1. UNCHANGED <<queue, sent, wire, broken, stopped>>
    BY <1>2 DEF Callback
  <2>2. CASE m = n
    <3>1. due'[m] = "none" /\ due[m] # "none"
      BY <1>0, <1>2, <2>2 DEF Callback, TypeOK
    <3>2. m \notin Elements(queue) /\ m \in Elements(sent)
      BY <1>m, <3>1
    <3>. QED
      BY <2>1, <3>1, <3>2
  <2>3. CASE m # n
    <3>1. due'[m] = due[m] /\ outcome'[m] = outcome[m]
      BY <1>0, <1>2, <2>3 DEF Callback, TypeOK
    <3>. QED
      BY <1>m, <2>1, <3>1
  <2>. QED
    BY <2>2, <2>3
<1>3. CASE WriteSucceeds
  <2>1. UNCHANGED <<queue, sent, due, outcome, broken, stopped>> /\ ~broken
    BY <1>3 DEF WriteSucceeds
  <2>2. Elements(wire) \subseteq Elements(wire')
    <3>1. writing[1] \in Messages /\ wire' = Append(wire, writing[1])
      BY <1>0, <1>3, TailFacts DEF WriteSucceeds, TypeOK
    <3>2. /\ Len(wire') = Len(wire) + 1
          /\ \A i \in 1..Len(wire) : wire'[i] = wire[i]
      BY <1>0, <3>1, AppendFacts DEF TypeOK
    <3>. QED
      BY <1>l, <3>2 DEF Elements
  <2>. QED
    BY <1>m, <2>1, <2>2
<1>4. CASE HandleSent
  <2>1. /\ UNCHANGED <<outcome, sent, wire, broken, stopped>> /\ ~stopped
        /\ Len(completed) > 0 /\ completed[1].ok
    BY <1>0, <1>4, SentEffect DEF HandleSent
  <2>2. queue[1] \in Elements(wire) /\ queue[1] \in Elements(queue)
    BY <1>0, <1>4, <1>l, <2>1, SentEffect, WireAndQueue DEF Elements
  <2>3. Elements(queue') \subseteq Elements(queue) /\ queue[1] \notin Elements(queue')
    <3>1. /\ Len(queue) > 0 /\ Len(queue') = Len(queue) - 1
          /\ \A i \in 1..(Len(queue) - 1) : queue'[i] = queue[i + 1]
      BY <1>0, <1>4, SentEffect
    <3>2. \A i \in 1..Len(queue') : i + 1 \in 1..Len(queue) /\ queue'[i] = queue[i + 1] /\ i + 1 # 1
      BY <1>l, <3>1
    <3>3. 1 \in 1..Len(queue)
      BY <1>l, <3>1
    <3>. QED
      BY <1>0, <3>2, <3>3, QueueElements DEF Elements
  <2>4. Head(queue) = queue[1]
    BY <1>0, <1>4, TailFacts DEF HandleSent, TypeOK
  <2>5. CASE m = queue[1]
    <3>1. due[m] = "none" /\ outcome[m] = "none" /\ m \in Elements(sent)
      BY <1>0, <1>m, <2>2, <2>5, QueueElements
    <3>2. due'[m] = "sent" \/ due'[m] = "none"
      BY <1>0, <1>4, <2>4, <2>5, <3>1 DEF HandleSent, TypeOK
    <3>. QED
      BY <2>1, <2>2, <2>3, <2>5, <3>1, <3>2
  <2>6. CASE m # queue[1]
    <3>1. due'[m] = due[m]
      BY <1>0, <1>4, <2>4, <2>6 DEF HandleSent, TypeOK
    <3>. QED
      BY <1>m, <2>1, <2>3, <3>1
  <2>. QED
    BY <2>5, <2>6
<1>5. CASE HandleFailed
  <2>1. /\ UNCHANGED <<outcome, sent, wire, broken, stopped>> /\ ~stopped
        /\ Len(completed) > 0 /\ ~completed[1].ok /\ Len(queue') = 0
    BY <1>0, <1>5, FailedEffect DEF HandleFailed
  <2>2. broken /\ \A n \in Elements(queue) : n \notin Elements(wire)
    BY <1>0, <2>1, WireAndQueue
  <2>3. Elements(queue') = {}
    BY <2>1 DEF Elements
  <2>4. due'[m] = IF m \in WithCallback \cap Elements(queue) THEN "failed" ELSE due[m]
    BY <1>5 DEF HandleFailed
  <2>5. CASE m \in WithCallback \cap Elements(queue)
    <3>1. due'[m] = "failed" /\ outcome[m] = "none" /\ m \in Elements(sent)
      BY <1>0, <1>m, <2>4, <2>5, QueueElements
    <3>. QED
      BY <2>1, <2>2, <2>3, <2>5, <3>1
  <2>6. CASE m \notin WithCallback \cap Elements(queue)
    BY <1>m, <2>1, <2>3, <2>4, <2>6
  <2>. QED
    BY <2>5, <2>6
<1>6. CASE RunPosted \/ PostedRefused \/ HandlerRefused \/ WriteFails \/ UNCHANGED vars
  <2>1. UNCHANGED <<queue, due, outcome, sent, wire, broken, stopped>>
    BY <1>6 DEF RunPosted, PostedRefused, HandlerRefused, WriteFails, vars
  <2>. QED
    BY <1>m, <2>1
<1>7. CASE Break
  <2>1. UNCHANGED <<queue, due, outcome, sent, wire, stopped>> /\ broken'
    BY <1>7 DEF Break
  <2>. QED
    BY <1>m, <2>1
<1>8. CASE Stop
  <2>1. UNCHANGED <<queue, due, outcome, sent, wire, broken>> /\ due[m] = "none"
    BY <1>8 DEF Stop, HandlerInside
  <2>. QED
    BY <1>m, <2>1
<1>. QED
  BY <1>1, <1>2, <1>3, <1>4, <1>5, <1>6, <1>7, <1>8 DEF Next, Handlers

LEMMA InitCInv == Init => CInv
BY InitIInv DEF CInv, Init, SentOnce, CallbackState, CallbackFits, Elements

THEOREM CallbackInvariant == Spec => []CInv
<1>1. CInv /\ [Next]_vars => CInv'
  BY TypeStep, ChainStep, QueueIsTailStep, WireStep, WireMeetsStep,
     SentOnceStep, CallbackStateStep DEF CInv, IInv
<1>. QED
  BY InitCInv, <1>1, PTL DEF Spec

-----------------------------------------------------------------------------
(* Each callback once, and the refinement. *)

\* A callback is called once, not after the owner is gone, and with success
\* exactly when its own message is on the wire (CallbackOnce).
THEOREM CallbackCalledOnce == Spec => CallbackOnce
<1>. DEFINE Once == \A m \in Messages :
              outcome'[m] # outcome[m] => /\ outcome[m] = "none"
                                          /\ ~stopped
                                          /\ (outcome'[m] = "sent") = (m \in Elements(wire))
<1>1. CInv /\ [Next]_vars => [Once]_vars
  <2>. SUFFICES ASSUME CInv, [Next]_vars, NEW m \in Messages, outcome'[m] # outcome[m]
                PROVE  /\ outcome[m] = "none"
                       /\ ~stopped
                       /\ (outcome'[m] = "sent") = (m \in Elements(wire))
    OBVIOUS
  <2>0. TypeOK /\ CallbackFits(m)
    BY DEF CInv, IInv, CallbackState
  <2>1. PICK n \in Messages : Callback(n)
    BY DEF Next, Handlers, Send, RunPosted, PostedRefused, HandleSent, HandleFailed,
           HandlerRefused, WriteSucceeds, WriteFails, Break, Stop, vars
  <2>2. m = n
    BY <2>0, <2>1 DEF Callback, TypeOK
  <2>3. due[m] # "none" /\ outcome'[m] = due[m] /\ due[m] \in Results
    BY <2>0, <2>1, <2>2 DEF Callback, TypeOK
  <2>4. due[m] = "sent" \/ due[m] = "failed"
    BY <2>3 DEF Results
  <2>. QED
    BY <2>0, <2>3, <2>4 DEF CallbackFits
<1>. QED
  BY CallbackInvariant, <1>1, PTL DEF Spec, CallbackOnce

LEMMA InitRefines == Init => OutboxPromise!Init
BY DEF Init, OutboxPromise!Init

LEMMA NextRefines == CInv /\ [Next]_vars => [OutboxPromise!Next]_OutboxPromise!outboxVars
<1>. SUFFICES ASSUME CInv, [Next]_vars
              PROVE  [OutboxPromise!Next]_OutboxPromise!outboxVars
  OBVIOUS
<1>. USE DEF OutboxPromise!Next, OutboxPromise!outboxVars
<1>0. TypeOK /\ IInv /\ SentOnce /\ CallbackState
  BY DEF CInv, IInv
<1>1. ASSUME NEW m \in Messages, Send(m) PROVE OutboxPromise!Accept(m)
  BY <1>1 DEF Send, Elements, OutboxPromise!Accept
<1>2. ASSUME NEW m \in Messages, Callback(m)
      PROVE  OutboxPromise!ReportSent(m) \/ OutboxPromise!ReportFailed(m)
  <2>1. /\ CallbackFits(m) /\ due[m] \in Results /\ due[m] # "none"
        /\ outcome' = [outcome EXCEPT ![m] = due[m]]
        /\ UNCHANGED <<sent, wire, broken, stopped>>
    BY <1>0, <1>2 DEF Callback, CallbackState, TypeOK
  <2>2. ~stopped /\ outcome[m] = "none"
    BY <2>1 DEF CallbackFits
  <2>3. CASE due[m] = "sent"
    BY <2>1, <2>2, <2>3 DEF CallbackFits, Elements, OutboxPromise!ReportSent
  <2>4. CASE due[m] = "failed"
    BY <2>1, <2>2, <2>4 DEF CallbackFits, Elements, OutboxPromise!ReportFailed
  <2>. QED
    BY <2>1, <2>3, <2>4 DEF Results
<1>3. CASE WriteSucceeds
  <2>1. /\ Len(queue) \in Nat /\ Len(sent) \in Nat /\ Len(wire) \in Nat
        /\ Len(writing) > 0 /\ ~broken
    BY <1>0, <1>3, LenFacts, WriteEffect
  <2>2. Len(queue) > 0 /\ writing[1] = queue[1] /\ Len(wire) = Len(sent) - Len(queue)
    BY <1>0, <2>1 DEF IInv, Chain, WireMeetsQueue, WireBehind
  <2>3. writing[1] = sent[Len(wire) + 1]
    BY <1>0, <2>1, <2>2 DEF IInv, QueueIsTail
  <2>4. wire' = Append(wire, writing[1]) /\ UNCHANGED <<sent, outcome, broken, stopped>>
    BY <1>0, <1>3, WriteEffect
  <2>. QED
    BY <2>1, <2>2, <2>3, <2>4 DEF OutboxPromise!Deliver
<1>4. CASE RunPosted \/ PostedRefused \/ HandleSent \/ HandleFailed \/ HandlerRefused
           \/ WriteFails \/ UNCHANGED vars
  BY <1>4 DEF RunPosted, PostedRefused, HandleSent, HandleFailed, HandlerRefused,
              WriteFails, vars
<1>5. CASE Break
  BY <1>5 DEF Break, OutboxPromise!Fail
<1>6. CASE Stop
  BY <1>6 DEF Stop, OutboxPromise!Leave
<1>. QED
  BY <1>1, <1>2, <1>3, <1>4, <1>5, <1>6 DEF Next, Handlers

\* The queue implements the promise of send() (ImplementsOutbox): every step
\* is one of Outbox or a stutter.
THEOREM Refinement == Spec => ImplementsOutbox
<1>. QED
  BY InitRefines, NextRefines, CallbackInvariant, PTL
     DEF Spec, ImplementsOutbox, OutboxPromise!Spec

=============================================================================
