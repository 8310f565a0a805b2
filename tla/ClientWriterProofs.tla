------------------------- MODULE ClientWriterProofs --------------------------
(***************************************************************************)
(* Proofs about ClientWriter for any number and any batching of messages.  *)
(***************************************************************************)
EXTENDS ClientWriter, SequenceTheorems, TLAPS

(* The write under way is the head of the queue, its bytes are already     *)
(* with the peer or not, and every message has its place by number.        *)
Sent1 == IF outstanding # <<>> /\ outstanding[1].gone THEN 1 ELSE 0
Popped == Len(delivered) - Sent1

Ordered ==
    /\ \A i \in 1 .. Len(delivered) : delivered[i].msg = i
    /\ \A i \in 1 .. Len(writeQueue) : writeQueue[i] = Popped + i
    /\ \A i \in 1 .. Len(posted) : posted[i] = Popped + Len(writeQueue) + i
    /\ sent = Popped + Len(writeQueue) + Len(posted)
    /\ outstanding # <<>> => outstanding[1].msg = writeQueue[1]

OneWriter ==
    /\ Len(outstanding) <= 1
    /\ writing <=> writeQueue # <<>>
    /\ outstanding # <<>> => writing
    /\ ~closed /\ writing => outstanding # <<>>

IInv == TypeOK /\ OneWriter /\ Ordered

-----------------------------------------------------------------------------
(* Head and Tail of a sequence that is not empty.                          *)
LEMMA TailFacts ==
    ASSUME NEW S, NEW q \in Seq(S), q # <<>>
    PROVE  /\ Len(q) \in Nat /\ Len(q) >= 1 /\ Head(q) = q[1] /\ q[1] \in S
           /\ Tail(q) \in Seq(S) /\ Len(Tail(q)) = Len(q) - 1
           /\ \A i \in 1 .. Len(q) - 1 : Tail(q)[i] = q[i + 1]
           /\ Len(q) = 1 => Tail(q) = <<>>
PROOF
<1>1. Len(q) \in Nat /\ Len(q) >= 1
  <2>1. Len(q) \in Nat \ {0} BY EmptySeq
  <2> QED BY <2>1
<1>2. Tail(q) \in Seq(S) /\ Len(Tail(q)) = Len(q) - 1 BY <1>1
<1>3. Len(q) = 1 => Tail(q) = <<>>
  <2>1. \A t \in Seq(S) : t # <<>> => Len(t) \in Nat \ {0} BY EmptySeq
  <2>2. Len(q) = 1 => Len(Tail(q)) = 0 BY <1>2
  <2>3. Len(Tail(q)) = 0 => Tail(q) = <<>> BY <1>2, <2>1
  <2> QED BY <2>2, <2>3
<1>4. q[1] \in S BY <1>1, ElementOfSeq
<1>5. Head(q) = q[1] BY <1>1
<1>6. \A i \in 1 .. Len(q) - 1 : Tail(q)[i] = q[i + 1] BY <1>1, <1>2
<1> QED BY <1>1, <1>2, <1>3, <1>4, <1>5, <1>6

LEMMA InitInvariant == ASSUME Init PROVE IInv
PROOF
<1> USE DEF Init
<1>1. TypeOK
  <2>1. sent \in 0 .. MaxMessages BY WriterAssumption
  <2>2. /\ posted \in Seq(1 .. MaxMessages) /\ writeQueue \in Seq(1 .. MaxMessages)
        /\ outstanding \in Seq(Operations)
        /\ delivered \in Seq([msg : 1 .. MaxMessages, intact : BOOLEAN])
    BY EmptySeq
  <2>3. writing \in BOOLEAN /\ closed \in BOOLEAN OBVIOUS
  <2> HIDE DEF Init
  <2> QED BY <2>1, <2>2, <2>3 DEF TypeOK
<1>2. OneWriter BY DEF OneWriter
<1>3. Sent1 = 0 /\ Popped = 0 BY DEF Sent1, Popped
<1>4. Ordered BY <1>3 DEF Ordered
<1> QED BY <1>1, <1>2, <1>4 DEF IInv

(* One more write after the operations `ops', of which none is left.       *)
LEMMA StartedWrite ==
    ASSUME NEW queue \in Seq(1 .. MaxMessages), queue # <<>>,
           NEW intact \in BOOLEAN
    PROVE  LET ops == Append(<<>>, Write(Head(queue), intact))
           IN /\ ops \in Seq(Operations) /\ ops # <<>> /\ Len(ops) = 1
              /\ ops[1].msg = queue[1] /\ ~ops[1].gone
PROOF
<1>1. Head(queue) \in 1 .. MaxMessages /\ Head(queue) = queue[1]
  <2>1. queue[1] \in 1 .. MaxMessages BY TailFacts
  <2>2. Head(queue) = queue[1] BY TailFacts
  <2> QED BY <2>1, <2>2
<1>2. Write(Head(queue), intact) \in Operations BY <1>1 DEF Write, Operations
<1>3. /\ Write(Head(queue), intact).msg = Head(queue)
      /\ ~Write(Head(queue), intact).gone
  BY DEF Write
<1> QED BY <1>1, <1>2, <1>3

LEMMA NextInvariant == ASSUME IInv, [Next]_vars PROVE IInv'
PROOF
<1> USE DEF IInv
<1>1. ASSUME NEW n \in 1 .. MaxBatch, Broadcast(n) PROVE IInv'
  <2> DEFINE more == [i \in 1 .. n |-> sent + i]
  <2>1. /\ n \in Nat /\ sent \in Nat /\ sent + n <= MaxMessages
        /\ sent' = sent + n /\ posted' = posted \o more
        /\ UNCHANGED <<writeQueue, writing, outstanding, delivered, closed>>
    BY <1>1, WriterAssumption DEF Broadcast, TypeOK
  <2>2. more \in Seq(1 .. MaxMessages) /\ Len(more) = n
    BY <2>1, WriterAssumption
  <2>3. /\ posted' \in Seq(1 .. MaxMessages)
        /\ Len(posted') = Len(posted) + n
        /\ \A i \in 1 .. Len(posted) : posted'[i] = posted[i]
        /\ \A i \in 1 .. n : posted'[Len(posted) + i] = sent + i
    BY <2>1, <2>2, ConcatProperties DEF TypeOK
  <2>4. TypeOK' BY <2>1, <2>3, WriterAssumption DEF TypeOK
  <2>5. OneWriter' BY <2>1 DEF OneWriter
  <2>6. Ordered'
    <3>1. Popped' = Popped /\ Popped \in Int BY <2>1 DEF Popped, Sent1, TypeOK
    <3>2. \A i \in 1 .. Len(posted') :
             posted'[i] = Popped + Len(writeQueue) + i
      <4>1. Len(writeQueue) \in Nat /\ Len(posted) \in Nat
        BY LenProperties DEF TypeOK
      <4>2. \A i \in 1 .. Len(posted) : posted'[i] = Popped + Len(writeQueue) + i
        BY <2>3 DEF Ordered
      <4>3. sent = Popped + Len(writeQueue) + Len(posted) BY DEF Ordered
      <4> SUFFICES ASSUME NEW i \in 1 .. Len(posted')
                   PROVE  posted'[i] = Popped + Len(writeQueue) + i
        OBVIOUS
      <4>4. CASE i <= Len(posted) BY <4>4, <4>1, <4>2
      <4>5. CASE i > Len(posted)
        <5>1. /\ i - Len(posted) \in 1 .. n /\ i \in Int
              /\ Len(posted) + (i - Len(posted)) = i
          BY <2>1, <2>3, <4>1, <4>5
        <5>2. posted'[i] = sent + (i - Len(posted)) BY <2>3, <5>1
        <5> HIDE DEF IInv
        <5> QED BY <3>1, <4>1, <4>3, <5>1, <5>2
      <4> QED BY <4>4, <4>5, <4>1
    <3>3. sent' = Popped + Len(writeQueue) + Len(posted')
      BY <2>1, <2>3, <3>1 DEF Ordered, TypeOK
    <3> QED BY <2>1, <3>1, <3>2, <3>3 DEF Ordered
  <2> QED BY <2>4, <2>5, <2>6
<1>2. CASE RunPosted
  <2>1. /\ posted # <<>> /\ posted' = Tail(posted)
        /\ writeQueue' = Append(writeQueue, Head(posted))
        /\ writing' = TRUE /\ UNCHANGED <<sent, delivered, closed>>
    BY <1>2 DEF RunPosted
  <2>2. /\ posted' \in Seq(1 .. MaxMessages) /\ Len(posted') = Len(posted) - 1
        /\ \A i \in 1 .. Len(posted') : posted'[i] = posted[i + 1]
        /\ Head(posted) = posted[1] /\ Head(posted) \in 1 .. MaxMessages
        /\ Len(posted) \in Nat /\ Len(posted) >= 1
    BY <2>1, TailFacts DEF TypeOK
  <2>3. /\ writeQueue' \in Seq(1 .. MaxMessages) /\ writeQueue' # <<>>
        /\ Len(writeQueue') = Len(writeQueue) + 1
        /\ \A i \in 1 .. Len(writeQueue) : writeQueue'[i] = writeQueue[i]
        /\ writeQueue'[Len(writeQueue) + 1] = posted[1]
    <3>1. writeQueue \in Seq(1 .. MaxMessages) BY DEF TypeOK
    <3>2. Len(writeQueue) \in Nat BY <3>1, LenProperties
    <3> QED BY <2>1, <2>2, <3>1, <3>2, AppendProperties
  <2>4. CASE writing
    <3>1. UNCHANGED outstanding BY <1>2, <2>4 DEF RunPosted
    <3>2. writeQueue # <<>> BY <2>4 DEF OneWriter
    <3>3. writeQueue'[1] = writeQueue[1] BY <2>3, <3>2 DEF TypeOK
    <3>4. TypeOK' BY <2>1, <2>2, <2>3, <3>1 DEF TypeOK
    <3>5. OneWriter' BY <2>1, <2>3, <2>4, <3>1 DEF OneWriter
    <3>6. Sent1' = Sent1 /\ Popped' = Popped BY <2>1, <3>1 DEF Sent1, Popped
    <3>7. Popped \in Int BY DEF Popped, Sent1, TypeOK
    <3>8. posted[1] = Popped + Len(writeQueue) + 1 BY <2>2 DEF Ordered
    <3>9. \A i \in 1 .. Len(writeQueue') : writeQueue'[i] = Popped + i
      <4>1. Len(writeQueue) \in Nat BY LenProperties DEF TypeOK
      <4>2. \A i \in 1 .. Len(writeQueue) : writeQueue'[i] = Popped + i
        BY <2>3 DEF Ordered
      <4>3. writeQueue'[Len(writeQueue) + 1] = Popped + (Len(writeQueue) + 1)
        BY <2>3, <3>7, <3>8, <4>1
      <4> QED BY <2>3, <4>1, <4>2, <4>3
    <3>10. \A i \in 1 .. Len(posted') :
              posted'[i] = Popped + Len(writeQueue') + i
      <4>1. Len(writeQueue) \in Nat BY LenProperties DEF TypeOK
      <4> SUFFICES ASSUME NEW i \in 1 .. Len(posted')
                   PROVE  posted'[i] = Popped + Len(writeQueue') + i
        OBVIOUS
      <4>2. /\ i \in Int /\ i + 1 \in 1 .. Len(posted)
            /\ posted'[i] = posted[i + 1]
        BY <2>2
      <4>3. posted[i + 1] = Popped + Len(writeQueue) + (i + 1)
        BY <4>2 DEF Ordered
      <4>4. Len(writeQueue') = Len(writeQueue) + 1 BY <2>3
      <4> HIDE DEF IInv
      <4> QED BY <3>7, <4>1, <4>2, <4>3, <4>4
    <3>11. sent' = Popped + Len(writeQueue') + Len(posted')
      BY <2>1, <2>2, <2>3, <3>7 DEF Ordered, TypeOK
    <3>12. Ordered'
      BY <2>1, <3>1, <3>3, <3>6, <3>9, <3>10, <3>11 DEF Ordered
    <3> QED BY <3>4, <3>5, <3>12
  <2>5. CASE ~writing
    <3>1. writeQueue = <<>> /\ outstanding = <<>> BY <2>5 DEF OneWriter
    <3>2. PICK intact \in BOOLEAN :
             outstanding' = Append(<<>>, Write(Head(writeQueue'), intact))
      BY <1>2, <2>5, <3>1 DEF RunPosted, DoWrite
    <3>3. /\ outstanding' \in Seq(Operations) /\ outstanding' # <<>>
          /\ Len(outstanding') = 1
          /\ outstanding'[1].msg = writeQueue'[1] /\ ~outstanding'[1].gone
      BY <2>3, <3>2, StartedWrite
    <3>4. TypeOK' BY <2>1, <2>2, <2>3, <3>3 DEF TypeOK
    <3>5. OneWriter' BY <2>1, <2>3, <3>3 DEF OneWriter
    <3>6. Sent1 = 0 /\ Sent1' = 0 BY <3>1, <3>3 DEF Sent1
    <3>7. Ordered'
      BY <2>1, <2>2, <2>3, <3>1, <3>3, <3>6 DEF Ordered, Popped, TypeOK
    <3> QED BY <3>4, <3>5, <3>7
  <2> QED BY <2>4, <2>5 DEF TypeOK
<1>3. CASE Transmit
  <2> DEFINE op == outstanding[1]
             got == [msg |-> op.msg, intact |-> op.intact]
  <2>1. /\ outstanding # <<>> /\ ~op.gone /\ op \in Operations
        /\ delivered' = Append(delivered, got)
        /\ outstanding' = [outstanding EXCEPT ![1].gone = TRUE]
        /\ UNCHANGED <<sent, posted, writeQueue, writing, closed>>
    BY <1>3 DEF Transmit, TypeOK
  <2>2. got \in [msg : 1 .. MaxMessages, intact : BOOLEAN] /\ got.msg = op.msg
    BY <2>1 DEF Operations
  <2>3. /\ outstanding' \in Seq(Operations) /\ outstanding' # <<>>
        /\ Len(outstanding') = Len(outstanding)
        /\ outstanding'[1].msg = op.msg /\ outstanding'[1].gone
    <3>1. [op EXCEPT !.gone = TRUE] \in Operations BY <2>1 DEF Operations
    <3>2. outstanding' = [outstanding EXCEPT ![1] = [op EXCEPT !.gone = TRUE]]
      BY <2>1
    <3>3. [op EXCEPT !.gone = TRUE].msg = op.msg /\ [op EXCEPT !.gone = TRUE].gone
      BY <2>1 DEF Operations
    <3> HIDE DEF op
    <3>4. 1 \in 1 .. Len(outstanding) BY <2>1, TailFacts DEF TypeOK
    <3>5. /\ outstanding' \in Seq(Operations) /\ Len(outstanding') = Len(outstanding)
          /\ outstanding'[1] = [op EXCEPT !.gone = TRUE]
      BY <3>1, <3>2, <3>4, ExceptSeq DEF TypeOK
    <3>6. outstanding' # <<>> BY <3>4, <3>5, EmptySeq
    <3> QED BY <3>3, <3>5, <3>6
  <2>4. writeQueue # <<>> /\ op.msg = writeQueue[1] BY <2>1 DEF OneWriter, Ordered
  <2>5. Sent1 = 0 /\ Sent1' = 1 BY <2>1, <2>3 DEF Sent1
  <2> HIDE DEF got, op
  <2>6. /\ delivered' \in Seq([msg : 1 .. MaxMessages, intact : BOOLEAN])
        /\ Len(delivered') = Len(delivered) + 1
        /\ \A i \in 1 .. Len(delivered) : delivered'[i] = delivered[i]
        /\ delivered'[Len(delivered) + 1] = got
    BY <2>1, <2>2 DEF TypeOK
  <2>7. writeQueue[1] = Len(delivered) + 1
    BY <2>4, <2>5 DEF Ordered, Popped, TypeOK
  <2>8. TypeOK' BY <2>1, <2>3, <2>6 DEF TypeOK
  <2>9. OneWriter' BY <2>1, <2>3 DEF OneWriter
  <2>10. Ordered'
    BY <2>1, <2>2, <2>3, <2>4, <2>5, <2>6, <2>7 DEF Ordered, Popped, TypeOK
  <2> QED BY <2>8, <2>9, <2>10
<1>4. CASE OnWrite
  <2>1. /\ outstanding # <<>> /\ outstanding[1].gone /\ Len(outstanding) = 1
        /\ Tail(outstanding) = <<>>
        /\ writeQueue # <<>> /\ writeQueue' = Tail(writeQueue)
        /\ UNCHANGED <<sent, posted, delivered, closed>>
    <3>1. outstanding # <<>> /\ writeQueue # <<>> BY <1>4 DEF OnWrite, OneWriter
    <3>2. /\ Head(outstanding) = outstanding[1]
          /\ Len(outstanding) = 1 /\ Tail(outstanding) = <<>>
      <4>1. outstanding \in Seq(Operations) /\ Len(outstanding) <= 1
        BY DEF TypeOK, OneWriter
      <4>2. Len(outstanding) \in Nat /\ Len(outstanding) >= 1
        BY <3>1, <4>1, TailFacts
      <4>3. Len(outstanding) = 1
        <5> DEFINE n == Len(outstanding)
        <5>1. n \in Nat /\ n >= 1 /\ n <= 1 BY <4>1, <4>2
        <5> HIDE DEF n
        <5>2. n = 1 BY <5>1
        <5> QED BY <5>2, Zenon DEF n
      <4> QED BY <3>1, <4>1, <4>3, TailFacts
    <3> QED BY <1>4, <3>1, <3>2 DEF OnWrite
  <2>2. /\ writeQueue' \in Seq(1 .. MaxMessages)
        /\ Len(writeQueue') = Len(writeQueue) - 1
        /\ \A i \in 1 .. Len(writeQueue') : writeQueue'[i] = writeQueue[i + 1]
        /\ Len(writeQueue) \in Nat /\ Len(writeQueue) >= 1
    BY <2>1, TailFacts DEF TypeOK
  <2>3. Sent1 = 1 BY <2>1 DEF Sent1
  <2>4. CASE writeQueue' = <<>>
    <3>1. writing' = FALSE /\ outstanding' = <<>> BY <1>4, <2>1, <2>4 DEF OnWrite
    <3>2. TypeOK' BY <2>1, <2>2, <3>1, EmptySeq DEF TypeOK
    <3>3. OneWriter' BY <2>4, <3>1 DEF OneWriter
    <3>4. Ordered'
      BY <2>1, <2>2, <2>3, <3>1 DEF Ordered, Popped, Sent1, TypeOK
    <3> QED BY <3>2, <3>3, <3>4
  <2>5. CASE writeQueue' # <<>>
    <3>1. PICK intact \in BOOLEAN :
             outstanding' = Append(<<>>, Write(Head(writeQueue'), intact))
      BY <1>4, <2>1, <2>5 DEF OnWrite, DoWrite
    <3>2. /\ outstanding' \in Seq(Operations) /\ outstanding' # <<>>
          /\ Len(outstanding') = 1
          /\ outstanding'[1].msg = writeQueue'[1] /\ ~outstanding'[1].gone
      BY <2>2, <2>5, <3>1, StartedWrite
    <3>3. writing /\ writing' = writing BY <1>4, <2>1, <2>5 DEF OnWrite, OneWriter
    <3>4. TypeOK' BY <2>1, <2>2, <3>2, <3>3 DEF TypeOK
    <3>5. OneWriter' BY <2>5, <3>2, <3>3 DEF OneWriter
    <3>6. Sent1' = 0 BY <3>2 DEF Sent1
    <3>7. Ordered'
      BY <2>1, <2>2, <2>3, <3>2, <3>6 DEF Ordered, Popped, TypeOK
    <3> QED BY <3>4, <3>5, <3>7
  <2> QED BY <2>4, <2>5
<1>5. CASE OnWriteError
  <2>1. /\ outstanding # <<>> /\ ~outstanding[1].gone /\ Len(outstanding) = 1
        /\ outstanding' = <<>> /\ closed' = TRUE
        /\ UNCHANGED <<sent, posted, writeQueue, writing, delivered>>
    <3>1. outstanding # <<>> BY <1>5 DEF OnWriteError
    <3>2. /\ Head(outstanding) = outstanding[1]
          /\ Len(outstanding) = 1 /\ Tail(outstanding) = <<>>
      <4>1. outstanding \in Seq(Operations) /\ Len(outstanding) <= 1
        BY DEF TypeOK, OneWriter
      <4>2. Len(outstanding) \in Nat /\ Len(outstanding) >= 1
        BY <3>1, <4>1, TailFacts
      <4>3. Len(outstanding) = 1
        <5> DEFINE n == Len(outstanding)
        <5>1. n \in Nat /\ n >= 1 /\ n <= 1 BY <4>1, <4>2
        <5> HIDE DEF n
        <5>2. n = 1 BY <5>1
        <5> QED BY <5>2, Zenon DEF n
      <4> QED BY <3>1, <4>1, <4>3, TailFacts
    <3> QED BY <1>5, <3>1, <3>2 DEF OnWriteError
  <2> QED BY <2>1, EmptySeq DEF TypeOK, OneWriter, Ordered, Popped, Sent1
<1>6. CASE Stop
  BY <1>6 DEF Stop, TypeOK, OneWriter, Ordered, Popped, Sent1
<1>7. CASE UNCHANGED vars
  BY <1>7 DEF vars, TypeOK, OneWriter, Ordered, Popped, Sent1
<1> QED BY <1>1, <1>2, <1>3, <1>4, <1>5, <1>6, <1>7 DEF Next

(* The inductive invariant.                                                *)
THEOREM Invariance == Spec => []IInv
PROOF BY InitInvariant, NextInvariant, PTL DEF Spec

(* Every variable keeps its type.                                          *)
THEOREM TypeCorrect == Spec => []TypeOK
PROOF
<1>1. IInv => TypeOK BY DEF IInv
<1> QED BY <1>1, Invariance, PTL

(* QueueMessage and OnWrite never have two writes under way and never      *)
(* leave a queued message of an open session without one.                  *)
THEOREM OneWrite == Spec => []OneWriteAtATime
PROOF
<1>1. IInv => OneWriteAtATime BY DEF IInv, TypeOK, OneWriter, OneWriteAtATime
<1> QED BY <1>1, Invariance, PTL

(* Three sequences that count on from one another join to 1, 2, ...        *)
LEMMA NumberedConcat ==
    ASSUME NEW S, NEW a \in Seq(S), NEW b \in Seq(S), NEW c \in Seq(S), NEW n,
           \A i \in 1 .. Len(a) : a[i] = i,
           \A i \in 1 .. Len(b) : b[i] = Len(a) + i,
           \A i \in 1 .. Len(c) : c[i] = Len(a) + Len(b) + i,
           n = Len(a) + Len(b) + Len(c)
    PROVE  a \o b \o c = [i \in 1 .. n |-> i]
PROOF
<1>1. Len(a) \in Nat /\ Len(b) \in Nat /\ Len(c) \in Nat BY LenProperties
<1>2. /\ a \o b \in Seq(S) /\ Len(a \o b) = Len(a) + Len(b)
      /\ \A i \in 1 .. Len(a) + Len(b) :
            (a \o b)[i] = IF i <= Len(a) THEN a[i] ELSE b[i - Len(a)]
  BY ConcatProperties
<1>3. \A i \in 1 .. Len(a) + Len(b) : (a \o b)[i] = i
  <2> TAKE i \in 1 .. Len(a) + Len(b)
  <2>1. CASE i <= Len(a) BY <1>1, <1>2, <2>1
  <2>2. CASE ~(i <= Len(a))
    <3>1. i - Len(a) \in 1 .. Len(b) BY <1>1, <2>2
    <3>2. b[i - Len(a)] = Len(a) + (i - Len(a)) BY <3>1
    <3> QED BY <1>1, <1>2, <2>2, <3>2
  <2> QED BY <2>1, <2>2
<1> DEFINE ab == a \o b
<1>4. /\ ab \in Seq(S) /\ Len(ab) = Len(a) + Len(b)
      /\ \A i \in 1 .. Len(ab) : ab[i] = i
  BY <1>2, <1>3
<1> HIDE DEF ab
<1>5. Len(ab) \in Nat /\ n = Len(ab) + Len(c) /\ n \in Nat BY <1>1, <1>4
<1>6. /\ ab \o c \in Seq(S) /\ Len(ab \o c) = Len(ab) + Len(c)
      /\ \A i \in 1 .. Len(ab) + Len(c) :
            (ab \o c)[i] = IF i <= Len(ab) THEN ab[i] ELSE c[i - Len(ab)]
  BY <1>4, ConcatProperties
<1>7. \A i \in 1 .. n : (ab \o c)[i] = i
  <2> TAKE i \in 1 .. n
  <2>1. CASE i <= Len(ab) BY <1>4, <1>5, <1>6, <2>1
  <2>2. CASE ~(i <= Len(ab))
    <3>1. i - Len(ab) \in 1 .. Len(c) BY <1>1, <1>5, <2>2
    <3>2. c[i - Len(ab)] = Len(ab) + (i - Len(ab)) BY <1>4, <3>1
    <3> QED BY <1>1, <1>5, <1>6, <2>2, <3>2
  <2> QED BY <2>1, <2>2
<1> DEFINE abc == ab \o c
<1>8. abc \in Seq(S) /\ Len(abc) = n /\ \A i \in 1 .. n : abc[i] = i
  BY <1>5, <1>6, <1>7
<1> HIDE DEF abc
<1>9. abc \in [1 .. n -> S] BY <1>8, LenProperties
<1>10. abc = [i \in 1 .. n |-> i] BY <1>8, <1>9
<1> QED BY <1>10 DEF ab, abc

(* No message is lost, duplicated or reordered between the broadcast and   *)
(* the peer.                                                               *)
THEOREM Fifo == Spec => []NothingLostOrReordered
PROOF
<1>1. ASSUME IInv PROVE NothingLostOrReordered
  <2> DEFINE M == 1 .. MaxMessages
             received == [i \in DOMAIN delivered |-> delivered[i].msg]
             waiting == IF outstanding # <<>> /\ Head(outstanding).gone
                        THEN Tail(writeQueue) ELSE writeQueue
  <2>1. /\ delivered \in Seq([msg : M, intact : BOOLEAN])
        /\ writeQueue \in Seq(M) /\ posted \in Seq(M)
        /\ outstanding \in Seq(Operations) /\ sent \in Nat
    BY <1>1, WriterAssumption DEF IInv, TypeOK
  <2>2. received \in Seq(M) /\ Len(received) = Len(delivered)
    <3>1. DOMAIN delivered = 1 .. Len(delivered) /\ Len(delivered) \in Nat
      BY <2>1, LenProperties
    <3>2. \A i \in 1 .. Len(delivered) : delivered[i].msg \in M
      <4> TAKE i \in 1 .. Len(delivered)
      <4>1. delivered[i] \in [msg : M, intact : BOOLEAN] BY <2>1, ElementOfSeq
      <4> QED BY <4>1
    <3>3. received = [i \in 1 .. Len(delivered) |-> delivered[i].msg] BY <3>1
    <3> HIDE DEF received, M
    <3> QED BY <3>1, <3>2, <3>3
  <2>3. /\ waiting \in Seq(M) /\ Len(waiting) = Len(writeQueue) - Sent1
        /\ Popped + Sent1 = Len(delivered)
        /\ \A i \in 1 .. Len(waiting) : waiting[i] = Len(delivered) + i
    <3>0. Len(delivered) \in Nat /\ Len(writeQueue) \in Nat BY <2>1, LenProperties
    <3>1. \A i \in 1 .. Len(writeQueue) : writeQueue[i] = Popped + i
      BY <1>1 DEF IInv, Ordered
    <3>2. CASE outstanding # <<>> /\ Head(outstanding).gone
      <4>1. Head(outstanding) = outstanding[1] BY <2>1, <3>2, TailFacts
      <4>2. Sent1 = 1 /\ Popped = Len(delivered) - 1
        BY <3>2, <4>1 DEF Sent1, Popped
      <4>3. writeQueue # <<>> BY <1>1, <3>2 DEF IInv, OneWriter
      <4>4. waiting = Tail(writeQueue) BY <3>2
      <4>5. /\ Tail(writeQueue) \in Seq(M)
            /\ Len(Tail(writeQueue)) = Len(writeQueue) - 1
            /\ \A i \in 1 .. Len(writeQueue) - 1 :
                  Tail(writeQueue)[i] = writeQueue[i + 1]
        BY <2>1, <4>3, TailFacts
      <4> HIDE DEF waiting
      <4> QED BY <3>0, <3>1, <4>2, <4>4, <4>5
    <3>3. CASE ~(outstanding # <<>> /\ Head(outstanding).gone)
      <4>1. outstanding # <<>> => Head(outstanding) = outstanding[1]
        BY <2>1, TailFacts
      <4>2. Sent1 = 0 /\ Popped = Len(delivered)
        BY <3>0, <3>3, <4>1 DEF Sent1, Popped
      <4>3. waiting = writeQueue BY <3>3
      <4> HIDE DEF waiting
      <4> QED BY <2>1, <3>0, <3>1, <4>2, <4>3
    <3> QED BY <3>2, <3>3
  <2>4. \A i \in 1 .. Len(received) : received[i] = i
    BY <1>1, <2>1, <2>2 DEF IInv, Ordered
  <2>5. /\ \A i \in 1 .. Len(posted) :
              posted[i] = Popped + Len(writeQueue) + i
        /\ sent = Popped + Len(writeQueue) + Len(posted)
    BY <1>1 DEF IInv, Ordered
  <2>6. /\ Len(delivered) \in Nat /\ Len(writeQueue) \in Nat /\ Len(posted) \in Nat
        /\ Sent1 \in Int /\ Popped \in Int
    BY <2>1, LenProperties DEF Sent1, Popped
  <2> HIDE DEF received, waiting, M
  <2>7. Popped + Len(writeQueue) = Len(delivered) + (Len(writeQueue) - Sent1)
    <3> DEFINE l == Len(delivered)
               w == Len(writeQueue)
    <3>1. /\ l \in Nat /\ w \in Nat /\ Sent1 \in Int /\ Popped \in Int
          /\ Popped + Sent1 = l
      BY <2>3, <2>6
    <3> HIDE DEF l, w
    <3>2. Popped + w = l + (w - Sent1) BY <3>1
    <3> QED BY <3>2 DEF l, w
  <2>8. Popped + Len(writeQueue) = Len(received) + Len(waiting)
    BY <2>2, <2>3, <2>7, Zenon
  <2>9. received \o waiting \o posted = [i \in 1 .. sent |-> i]
    <3>1. \A i \in 1 .. Len(waiting) : waiting[i] = Len(received) + i
      BY <2>2, <2>3, Zenon
    <3>2. \A i \in 1 .. Len(posted) :
             posted[i] = Len(received) + Len(waiting) + i
      BY <2>5, <2>8, Zenon
    <3>3. sent = Len(received) + Len(waiting) + Len(posted)
      BY <2>5, <2>8, Zenon
    <3>4. received \in Seq(M) /\ waiting \in Seq(M) /\ posted \in Seq(M)
      BY <2>1, <2>2, <2>3
    <3>5. ASSUME NEW a, NEW b, NEW c, NEW n,
                 a = received, b = waiting, c = posted, n = sent
          PROVE  a \o b \o c = [i \in 1 .. n |-> i]
      <4>1. a \in Seq(M) /\ b \in Seq(M) /\ c \in Seq(M) BY <3>4, <3>5, Zenon
      <4>2. \A i \in 1 .. Len(a) : a[i] = i BY <2>4, <3>5, Zenon
      <4>3. \A i \in 1 .. Len(b) : b[i] = Len(a) + i BY <3>1, <3>5, Zenon
      <4>4. \A i \in 1 .. Len(c) : c[i] = Len(a) + Len(b) + i
        BY <3>2, <3>5, Zenon
      <4>5. n = Len(a) + Len(b) + Len(c) BY <3>3, <3>5, Zenon
      <4> QED BY <4>1, <4>2, <4>3, <4>4, <4>5, NumberedConcat
    <3> QED BY <3>5
  <2> QED BY <2>9 DEF received, waiting, NothingLostOrReordered
<1> QED BY <1>1, Invariance, PTL

(* The writer implements the safety part of the FIFO channel: its initial  *)
(* states are the channel's, and each of its steps sends, delivers the     *)
(* next message, closes, or changes nothing the channel sees.              *)
THEOREM Refinement == Spec => Channel!Init /\ [][Channel!Next]_(Channel!channel)
PROOF
<1>1. Init => Channel!Init BY DEF Init, Channel!Init
<1>2. ASSUME IInv, [Next]_vars
      PROVE  [Channel!Next]_(Channel!channel)
  <2> USE DEF Channel!Next, Channel!channel
  <2>0. Len(delivered) \in Nat /\ sent \in Nat
    BY <1>2, LenProperties, WriterAssumption DEF IInv, TypeOK
  <2>1. ASSUME NEW n \in 1 .. MaxBatch, Broadcast(n)
        PROVE  Channel!Send
    BY <2>0, <2>1, WriterAssumption DEF Broadcast, Channel!Send
  <2>2. CASE RunPosted BY <2>2 DEF RunPosted
  <2>3. CASE Transmit
    <3>1. Len(delivered') = Len(delivered) + 1
      BY <1>2, <2>3, AppendProperties DEF Transmit, IInv, TypeOK, Operations
    <3>2. Len(delivered) < sent
      <4>1. outstanding # <<>> /\ ~Head(outstanding).gone BY <2>3 DEF Transmit
      <4>2. Head(outstanding) = outstanding[1]
        BY <1>2, <4>1, TailFacts DEF IInv, TypeOK
      <4>3. Popped = Len(delivered) BY <2>0, <4>1, <4>2 DEF Popped, Sent1
      <4>4. writeQueue # <<>> BY <1>2, <4>1 DEF IInv, OneWriter
      <4>5. Len(writeQueue) \in Nat /\ Len(writeQueue) >= 1
        BY <1>2, <4>4, TailFacts DEF IInv, TypeOK
      <4>6. Len(posted) \in Nat BY <1>2, LenProperties DEF IInv, TypeOK
      <4> QED BY <1>2, <2>0, <4>3, <4>5, <4>6 DEF IInv, Ordered
    <3> QED BY <2>3, <3>1, <3>2 DEF Transmit, Channel!Deliver
  <2>4. CASE OnWrite BY <2>4 DEF OnWrite
  <2>5. CASE OnWriteError BY <2>5 DEF OnWriteError, Channel!Close
  <2>6. CASE Stop BY <2>6 DEF Stop, Channel!Close
  <2>7. CASE UNCHANGED vars BY <2>7 DEF vars
  <2> QED BY <1>2, <2>1, <2>2, <2>3, <2>4, <2>5, <2>6, <2>7 DEF Next
<1> QED BY <1>1, <1>2, Invariance, PTL DEF Spec
=============================================================================
