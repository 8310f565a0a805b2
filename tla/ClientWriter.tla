---------------------------- MODULE ClientWriter -----------------------------
(***************************************************************************)
(* The write side of one ClientSession: BroadcastState posts a handler per *)
(* message, the handler queues the message, and one async_write at a time  *)
(* drains the queue from OnWrite.  Handlers run on the single thread that  *)
(* runs the io_context, so write_mutex_ never blocks and a handler is one  *)
(* step.  Messages are their numbers in the order of posting.              *)
(***************************************************************************)
EXTENDS Naturals, Sequences

CONSTANTS
    MaxMessages,  \* bound on the messages posted to this session
    MaxBatch      \* bound on one broadcast: a state and its deaths

ASSUME WriterAssumption == MaxMessages \in Nat /\ MaxBatch \in Nat \ {0}

VARIABLES
    sent,         \* messages posted so far
    posted,       \* posted DoEnqueue handlers that did not run yet
    writeQueue,   \* write_queue_; its head stays until OnWrite
    writing,      \* writing_
    outstanding,  \* async_write operations that were started, oldest first
    delivered,    \* what the peer has received
    closed        \* closed_, and the session is out of clients_

vars == <<sent, posted, writeQueue, writing, outstanding, delivered, closed>>

(* An operation knows its message, whether the bytes it was given still    *)
(* exist, and whether its bytes have left.                                 *)
Write(m, intact) == [msg |-> m, intact |-> intact, gone |-> FALSE]

Init ==
    /\ sent = 0
    /\ posted = <<>>
    /\ writeQueue = <<>>
    /\ writing = FALSE
    /\ outstanding = <<>>
    /\ delivered = <<>>
    /\ closed = FALSE

(***************************************************************************)
(* DoWrite, on a queue that is not empty.  The buffer handed to Beast is   *)
(* the local string `next'.  If the socket takes the bytes at once they    *)
(* are sent from it; if the operation has to wait (a full send buffer, a   *)
(* control frame in progress) the string is destroyed before the bytes are *)
(* read, and what is sent later is whatever that memory holds then.        *)
(***************************************************************************)
DoWrite(ops, queue) ==
    \E intact \in BOOLEAN : outstanding' = Append(ops, Write(Head(queue), intact))

(* Mutant: one message too many is posted.                                 *)
BroadcastOneMore(n) ==
    /\ ~closed
    /\ sent + n <= MaxMessages
    /\ sent' = sent + n
    /\ posted' = posted \o [i \in 1 .. n + 1 |-> sent + i]
    /\ UNCHANGED <<writeQueue, writing, outstanding, delivered, closed>>

(* BroadcastState, for a registered session: EnqueueState, then an         *)
(* EnqueueDeath for each death of the tick.                                *)
Broadcast(n) ==
    /\ ~closed
    /\ sent + n <= MaxMessages
    /\ sent' = sent + n
    /\ posted' = posted \o [i \in 1 .. n |-> sent + i]
    /\ UNCHANGED <<writeQueue, writing, outstanding, delivered, closed>>

(* Mutant: writing_ is not tested before DoWrite.                          *)
RunPostedWritesAgain ==
    /\ posted # <<>>
    /\ posted' = Tail(posted)
    /\ writeQueue' = Append(writeQueue, Head(posted))
    /\ writing' = TRUE
    /\ DoWrite(outstanding, writeQueue')
    /\ UNCHANGED <<sent, delivered, closed>>

(* Mutant: push_front instead of push_back.                                *)
RunPostedInFront ==
    /\ posted # <<>>
    /\ posted' = Tail(posted)
    /\ writeQueue' = <<Head(posted)>> \o writeQueue
    /\ writing' = TRUE
    /\ IF writing THEN UNCHANGED outstanding ELSE DoWrite(outstanding, writeQueue')
    /\ UNCHANGED <<sent, delivered, closed>>

(* A posted handler runs: DoEnqueueState or DoEnqueueDeath, QueueMessage,  *)
(* and DoWrite when no write is under way.  It does not look at closed_.   *)
RunPosted ==
    /\ posted # <<>>
    /\ posted' = Tail(posted)
    /\ writeQueue' = Append(writeQueue, Head(posted))
    /\ writing' = TRUE
    /\ IF writing THEN UNCHANGED outstanding ELSE DoWrite(outstanding, writeQueue')
    /\ UNCHANGED <<sent, delivered, closed>>

(* The bytes of the oldest operation reach the peer.                       *)
Transmit ==
    /\ outstanding # <<>>
    /\ ~Head(outstanding).gone
    /\ ~closed
    /\ delivered' = Append(delivered, [msg    |-> Head(outstanding).msg,
                                       intact |-> Head(outstanding).intact])
    /\ outstanding' = [outstanding EXCEPT ![1].gone = TRUE]
    /\ UNCHANGED <<sent, posted, writeQueue, writing, closed>>

(* Mutant: the chain of writes is not continued.                           *)
OnWriteStops ==
    /\ outstanding # <<>>
    /\ Head(outstanding).gone
    /\ writeQueue' = IF writeQueue = <<>> THEN <<>> ELSE Tail(writeQueue)
    /\ writing' = (writeQueue' # <<>>)
    /\ outstanding' = Tail(outstanding)
    /\ UNCHANGED <<sent, posted, delivered, closed>>

(* OnWrite without error: pop, and write on until the queue is empty.      *)
OnWrite ==
    /\ outstanding # <<>>
    /\ Head(outstanding).gone
    /\ writeQueue' = IF writeQueue = <<>> THEN <<>> ELSE Tail(writeQueue)
    /\ IF writeQueue' = <<>>
       THEN writing' = FALSE /\ outstanding' = Tail(outstanding)
       ELSE /\ writing' = writing
            /\ DoWrite(Tail(outstanding), writeQueue')
    /\ UNCHANGED <<sent, posted, delivered, closed>>

(* OnWrite with an error: Stop.  writing_ stays set, so what is posted     *)
(* later piles up unwritten until the session is freed.                    *)
OnWriteError ==
    /\ outstanding # <<>>
    /\ ~Head(outstanding).gone
    /\ outstanding' = Tail(outstanding)
    /\ closed' = TRUE
    /\ UNCHANGED <<sent, posted, writeQueue, writing, delivered>>

(* Stop for any other reason: a read error, a takeover, a shutdown.        *)
Stop ==
    /\ ~closed
    /\ closed' = TRUE
    /\ UNCHANGED <<sent, posted, writeQueue, writing, outstanding, delivered>>

Next ==
    \/ \E n \in 1 .. MaxBatch : Broadcast(n)
    \/ RunPosted \/ Transmit \/ OnWrite \/ OnWriteError \/ Stop

Spec == Init /\ [][Next]_vars

(* The executor runs queued handlers; a peer that stays connected keeps    *)
(* reading, or else its write fails (the idle timeout of the stream).      *)
FairSpec == Spec /\ WF_vars(RunPosted) /\ WF_vars(OnWrite)
                 /\ WF_vars(Transmit \/ OnWriteError)

-----------------------------------------------------------------------------
Operations == [msg : 1 .. MaxMessages, intact : BOOLEAN, gone : BOOLEAN]

TypeOK ==
    /\ sent \in 0 .. MaxMessages
    /\ posted \in Seq(1 .. MaxMessages)
    /\ writeQueue \in Seq(1 .. MaxMessages)
    /\ writing \in BOOLEAN
    /\ outstanding \in Seq(Operations)
    /\ delivered \in Seq([msg : 1 .. MaxMessages, intact : BOOLEAN])
    /\ closed \in BOOLEAN

(* Beast allows one async_write per stream at a time, and none is          *)
(* forgotten: writing_ is set exactly while messages are queued, a second  *)
(* write never starts, and an open session with queued messages has one    *)
(* under way (no lost wake-up).                                            *)
OneWriteAtATime ==
    /\ Len(outstanding) <= 1
    /\ writing <=> writeQueue # <<>>
    /\ ~closed => (writing <=> outstanding # <<>>)

(* Nothing is lost, duplicated or reordered on the way: what was delivered, *)
(* what is queued behind it and what is still posted are, in this order,   *)
(* the messages in the order they were posted.  The head of the queue      *)
(* counts as delivered once its bytes have left.                           *)
NothingLostOrReordered ==
    LET received == [i \in DOMAIN delivered |-> delivered[i].msg]
        waiting  == IF outstanding # <<>> /\ Head(outstanding).gone
                    THEN Tail(writeQueue) ELSE writeQueue
    IN received \o waiting \o posted = [i \in 1 .. sent |-> i]

(* The connection is a FIFO channel, and an open one delivers in the end   *)
(* everything that was broadcast to it.                                    *)
Channel == INSTANCE FifoChannel WITH received <- Len(delivered), open <- ~closed
IsFifoChannel == Channel!Spec

(* What arrives is the message that was queued.                            *)
DeliveredIntact == \A i \in DOMAIN delivered : delivered[i].intact
=============================================================================
