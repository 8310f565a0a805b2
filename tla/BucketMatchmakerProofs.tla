----------------------- MODULE BucketMatchmakerProofs ------------------------
(***************************************************************************)
(* Proofs about BucketMatchmaker for any players, ratings and tolerances:  *)
(* the lists and the index agree, and the loop over the copy of the queue, *)
(* with its early exits, implements the loop over a set of requests.       *)
(***************************************************************************)
EXTENDS BucketMatchmaker, FiniteSetTheorems, SequenceTheorems,
        WellFoundedInduction, TLAPS

Request == Abs!Request

(* What an operation on the queue may rely on.                             *)
QueueOK(q) ==
    /\ Q!Consistent(q)
    /\ DOMAIN q.buckets \subseteq Elo
    /\ \A e \in DOMAIN q.buckets : q.buckets[e] \in Seq(Request)
    /\ IsFiniteSet(DOMAIN q.index)
    /\ \A a, b \in Q!Requests(q) : a.order = b.order => a = b

-----------------------------------------------------------------------------
(* Lists                                                                   *)

(* RemoveAt closes the gap.                                                *)
LEMMA RemovedAt ==
    ASSUME NEW S, NEW s \in Seq(S), NEW i \in 1 .. Len(s)
    PROVE  LET t == Q!Seqs!RemoveAt(s, i)
           IN /\ t \in Seq(S) /\ Len(t) = Len(s) - 1
              /\ \A j \in 1 .. Len(t) : t[j] = s[IF j < i THEN j ELSE j + 1]
PROOF
<1> DEFINE a == SubSeq(s, 1, i - 1)
           b == SubSeq(s, i + 1, Len(s))
<1>0. Len(s) \in Nat /\ i \in Nat /\ i >= 1 /\ i <= Len(s) BY LenProperties
<1>1. /\ a \in Seq(S) /\ Len(a) = i - 1
      /\ \A j \in 1 .. i - 1 : a[j] = s[j]
  <2>1. 1 \in 1 .. Len(s) + 1 /\ i - 1 \in 1 - 1 .. Len(s) BY <1>0
  <2> QED BY <2>1, <1>0, SubSeqProperties
<1>2. /\ b \in Seq(S) /\ Len(b) = Len(s) - i
      /\ \A j \in 1 .. Len(s) - i : b[j] = s[i + j]
  <2>1. i + 1 \in 1 .. Len(s) + 1 /\ Len(s) \in (i + 1) - 1 .. Len(s) BY <1>0
  <2> QED BY <2>1, <1>0, SubSeqProperties
<1>3. Q!Seqs!RemoveAt(s, i) = a \o b BY DEF Q!Seqs!RemoveAt
<1> HIDE DEF a, b
<1>4. /\ a \o b \in Seq(S) /\ Len(a \o b) = Len(s) - 1
      /\ \A j \in 1 .. Len(s) - 1 :
            (a \o b)[j] = IF j <= i - 1 THEN a[j] ELSE b[j - (i - 1)]
  <2>1. /\ a \o b \in Seq(S) /\ Len(a \o b) = Len(a) + Len(b)
        /\ \A j \in 1 .. Len(a) + Len(b) :
              (a \o b)[j] = IF j <= Len(a) THEN a[j] ELSE b[j - Len(a)]
    BY ONLY <1>1, <1>2, ConcatProperties
  <2> QED BY <2>1, <1>0, <1>1, <1>2
<1>5. ASSUME NEW j \in 1 .. Len(s) - 1
      PROVE  (a \o b)[j] = s[IF j < i THEN j ELSE j + 1]
  <2>1. CASE j < i
    <3>1. j \in 1 .. i - 1 BY <1>0, <2>1
    <3> QED BY <1>1, <1>4, <2>1, <3>1
  <2>2. CASE j >= i
    <3>1. j - (i - 1) \in 1 .. Len(s) - i /\ i + (j - (i - 1)) = j + 1 BY <1>0, <2>2
    <3>2. (a \o b)[j] = b[j - (i - 1)] BY <1>0, <1>4, <2>2
    <3> QED BY <1>0, <1>2, <2>2, <3>1, <3>2
  <2>3. j < i \/ j >= i BY <1>0
  <2> QED BY ONLY <2>1, <2>2, <2>3
<1> QED BY <1>3, <1>4, <1>5

(* A later request goes to the end of a list.                              *)
LEMMA InsertedLast ==
    ASSUME NEW s \in Seq(Request), NEW r \in Request,
           \A i \in DOMAIN s : s[i].order < r.order
    PROVE  Q!Insert(s, r) = Append(s, r)
PROOF
<1>0. Len(s) \in Nat /\ DOMAIN s = 1 .. Len(s) BY LenProperties
<1>1. \A i \in DOMAIN s : s[i].order \in Nat /\ r.order \in Nat
  <2>1. \A i \in DOMAIN s : s[i] \in Request BY <1>0, ElementOfSeq
  <2> QED BY <2>1 DEF Request, Abs!Request
<1>2. {i \in DOMAIN s : r.order < s[i].order} = {} BY <1>1
<1>3. Q!Sets!Min({} \cup {Len(s) + 1}) = Len(s) + 1
  <2>1. Q!Sets!Min({Len(s) + 1}) \in {Len(s) + 1}
    BY <1>0 DEF Q!Sets!Min
  <2> QED BY <2>1
<1>4. Q!Insert(s, r) = Q!Seqs!InsertAt(s, Len(s) + 1, r) BY <1>2, <1>3 DEF Q!Insert
<1>5. Q!Seqs!InsertAt(s, Len(s) + 1, r)
         = SubSeq(s, 1, Len(s)) \o <<r>> \o SubSeq(s, Len(s) + 1, Len(s))
  BY <1>0 DEF Q!Seqs!InsertAt
<1>6. SubSeq(s, 1, Len(s)) = s /\ SubSeq(s, Len(s) + 1, Len(s)) = <<>>
  BY <1>0, SubSeqFull, SubSeqEmpty
<1>7. s \o <<r>> \in Seq(Request) /\ s \o <<r>> = Append(s, r)
  BY ConcatProperties, AppendIsConcat
<1> QED BY <1>4, <1>5, <1>6, <1>7, ConcatEmptySeq

-----------------------------------------------------------------------------
(* The operations of the queue                                             *)

(* What is in the queue is in one of its lists.                            *)
LEMMA InRequests ==
    ASSUME NEW q, NEW r
    PROVE  r \in Q!Requests(q) <=>
              \E e \in DOMAIN q.buckets : \E i \in DOMAIN q.buckets[e] :
                  r = q.buckets[e][i]
BY DEF Q!Requests

(* A request is where the index says, and nowhere else.                    *)
LEMMA OnePlace ==
    ASSUME NEW q, QueueOK(q),
           NEW e \in DOMAIN q.buckets, NEW i \in DOMAIN q.buckets[e]
    PROVE  /\ q.buckets[e] \in Seq(Request) /\ DOMAIN q.buckets[e] = 1 .. Len(q.buckets[e])
           /\ q.buckets[e][i] \in Request /\ q.buckets[e][i].elo = e
           /\ q.buckets[e][i] \in Q!Requests(q)
           /\ q.buckets[e][i].player \in DOMAIN q.index
           /\ q.index[q.buckets[e][i].player] = [elo |-> e, order |-> q.buckets[e][i].order]
           /\ \A k \in DOMAIN q.buckets[e] :
                 q.buckets[e][k].order = q.buckets[e][i].order => k = i
           /\ \A f \in DOMAIN q.buckets : \A k \in DOMAIN q.buckets[f] :
                 q.buckets[f][k].player = q.buckets[e][i].player => f = e /\ k = i
PROOF
<1>1. /\ q.buckets[e] \in Seq(Request) /\ DOMAIN q.buckets[e] = 1 .. Len(q.buckets[e])
      /\ q.buckets[e][i] \in Q!Requests(q)
  BY LenProperties, InRequests DEF QueueOK
<1>2. \A k \in DOMAIN q.buckets[e] : q.buckets[e][k] \in Request BY <1>1, ElementOfSeq
<1>3. ASSUME NEW f \in DOMAIN q.buckets, NEW k \in DOMAIN q.buckets[f]
      PROVE  /\ q.buckets[f][k].elo = f /\ q.buckets[f][k].player \in DOMAIN q.index
             /\ q.index[q.buckets[f][k].player] = [elo |-> f, order |-> q.buckets[f][k].order]
  BY <1>3 DEF QueueOK, Q!Consistent
<1>4. \A k, l \in DOMAIN q.buckets[e] :
         k < l => q.buckets[e][k].order < q.buckets[e][l].order
  BY DEF QueueOK, Q!Consistent
<1>5. ASSUME NEW k \in DOMAIN q.buckets[e], q.buckets[e][k].order = q.buckets[e][i].order
      PROVE  k = i
  <2>1. k \in Nat /\ i \in Nat BY <1>1
  <2>2. q.buckets[e][k].order \in Nat BY <1>2 DEF Request, Abs!Request
  <2> QED BY <1>4, <1>5, <2>1, <2>2
<1>6. ASSUME NEW f \in DOMAIN q.buckets, NEW k \in DOMAIN q.buckets[f],
             q.buckets[f][k].player = q.buckets[e][i].player
      PROVE  f = e /\ k = i
  <2>1. [elo |-> f, order |-> q.buckets[f][k].order]
           = [elo |-> e, order |-> q.buckets[e][i].order]
    BY <1>3, <1>6
  <2>2. f = e /\ q.buckets[f][k].order = q.buckets[e][i].order BY <2>1
  <2> QED BY <2>2, <1>5
<1> QED BY <1>1, <1>2, <1>3, <1>5, <1>6

(* The list that Erase leaves, or that it leaves out.                      *)
LEMMA ErasedEntry ==
    ASSUME NEW q, QueueOK(q),
           NEW e \in DOMAIN q.buckets, NEW i \in DOMAIN q.buckets[e]
    PROVE  LET t == Q!Seqs!RemoveAt(q.buckets[e], i)
               b == Q!Erase(q.buckets, [elo |-> e, order |-> q.buckets[e][i].order])
           IN /\ DOMAIN b = IF t = <<>> THEN DOMAIN q.buckets \ {e} ELSE DOMAIN q.buckets
              /\ \A f \in DOMAIN b : b[f] = IF f = e THEN t ELSE q.buckets[f]
PROOF
<1> DEFINE t == Q!Seqs!RemoveAt(q.buckets[e], i)
           at == [elo |-> e, order |-> q.buckets[e][i].order]
           entry == CHOOSE k \in DOMAIN q.buckets[e] : q.buckets[e][k].order = at.order
<1>1. entry = i BY OnePlace
<1>2. Q!Erase(q.buckets, at)
         = IF t = <<>> THEN Q!Without(q.buckets, e) ELSE [q.buckets EXCEPT ![e] = t]
  <2>1. at.elo = e /\ at.elo \in DOMAIN q.buckets OBVIOUS
  <2> HIDE DEF at
  <2>2. Q!Erase(q.buckets, at)
           = IF Q!Seqs!RemoveAt(q.buckets[e], entry) = <<>>
             THEN Q!Without(q.buckets, e)
             ELSE [q.buckets EXCEPT ![e] = Q!Seqs!RemoveAt(q.buckets[e], entry)]
    BY <2>1 DEF Q!Erase
  <2> QED BY <1>1, <2>2
<1> HIDE DEF t
<1>3. CASE t = <<>>
  <2>1. Q!Without(q.buckets, e) = [f \in DOMAIN q.buckets \ {e} |-> q.buckets[f]]
    BY DEF Q!Without, Q!Funs!Restrict
  <2> QED BY <1>2, <1>3, <2>1 DEF t
<1>4. CASE t # <<>>
  <2>1. Q!Erase(q.buckets, at) = [q.buckets EXCEPT ![e] = t] BY <1>2, <1>4
  <2>2. /\ DOMAIN [q.buckets EXCEPT ![e] = t] = DOMAIN q.buckets
        /\ \A f \in DOMAIN q.buckets :
              [q.buckets EXCEPT ![e] = t][f] = IF f = e THEN t ELSE q.buckets[f]
    OBVIOUS
  <2> QED BY <1>4, <2>1, <2>2 DEF t
<1> QED BY <1>3, <1>4

(* Where the entries of a queue were before one of them was removed.       *)
Before(e, i, f, j) == IF f = e /\ j >= i THEN j + 1 ELSE j

(* Remove takes away one entry and closes the gap; the index loses the     *)
(* player, and the list goes when nothing else is in it.                   *)
LEMMA RemovedEntry ==
    ASSUME NEW q, QueueOK(q),
           NEW e \in DOMAIN q.buckets, NEW i \in DOMAIN q.buckets[e]
    PROVE  LET p == q.buckets[e][i].player
               r == Q!Remove(q, p)
           IN /\ \A f \in DOMAIN r.buckets :
                    /\ f \in DOMAIN q.buckets
                    /\ r.buckets[f] \in Seq(Request) /\ r.buckets[f] # <<>>
                    /\ \A j \in DOMAIN r.buckets[f] :
                          /\ Before(e, i, f, j) \in DOMAIN q.buckets[f]
                          /\ r.buckets[f][j] = q.buckets[f][Before(e, i, f, j)]
                          /\ ~(f = e /\ Before(e, i, f, j) = i)
              /\ \A f \in DOMAIN q.buckets : \A k \in DOMAIN q.buckets[f] :
                    ~(f = e /\ k = i) =>
                        /\ f \in DOMAIN r.buckets
                        /\ \E j \in DOMAIN r.buckets[f] : r.buckets[f][j] = q.buckets[f][k]
              /\ DOMAIN r.index = DOMAIN q.index \ {p}
              /\ \A x \in DOMAIN r.index : r.index[x] = q.index[x]
PROOF
<1> DEFINE p == q.buckets[e][i].player
           r == Q!Remove(q, p)
           s == q.buckets[e]
           t == Q!Seqs!RemoveAt(s, i)
           at == [elo |-> e, order |-> s[i].order]
<1>1. /\ p \in DOMAIN q.index /\ q.index[p] = at
      /\ s \in Seq(Request) /\ DOMAIN s = 1 .. Len(s)
  BY OnePlace
<1>2. r = [buckets |-> Q!Erase(q.buckets, at), index |-> Q!Without(q.index, p)]
  <2> HIDE DEF at, p
  <2> QED BY <1>1 DEF Q!Remove, r
<1>3. r.buckets = Q!Erase(q.buckets, at) /\ r.index = Q!Without(q.index, p) BY <1>2
<1>4. /\ DOMAIN r.buckets = IF t = <<>> THEN DOMAIN q.buckets \ {e} ELSE DOMAIN q.buckets
      /\ \A f \in DOMAIN r.buckets : r.buckets[f] = IF f = e THEN t ELSE q.buckets[f]
  <2> DEFINE b == Q!Erase(q.buckets, at)
  <2>1. /\ DOMAIN b = IF t = <<>> THEN DOMAIN q.buckets \ {e} ELSE DOMAIN q.buckets
        /\ \A f \in DOMAIN b : b[f] = IF f = e THEN t ELSE q.buckets[f]
    BY ErasedEntry
  <2>2. r.buckets = b BY <1>3
  <2> HIDE DEF b, r, t
  <2> QED BY <2>1, <2>2
<1>5. /\ t \in Seq(Request) /\ Len(t) = Len(s) - 1 /\ DOMAIN t = 1 .. Len(t)
      /\ \A j \in 1 .. Len(t) : t[j] = s[IF j < i THEN j ELSE j + 1]
  <2>1. i \in 1 .. Len(s) BY <1>1
  <2>2. /\ t \in Seq(Request) /\ Len(t) = Len(s) - 1
        /\ \A j \in 1 .. Len(t) : t[j] = s[IF j < i THEN j ELSE j + 1]
    BY ONLY <1>1, <2>1, RemovedAt
  <2> QED BY <2>2, LenProperties
<1>6. /\ DOMAIN r.index = DOMAIN q.index \ {p}
      /\ \A x \in DOMAIN r.index : r.index[x] = q.index[x]
  BY <1>3 DEF Q!Without, Q!Funs!Restrict
<1>7. Len(s) \in Nat /\ Len(t) \in Nat /\ i \in Nat /\ i >= 1 /\ i <= Len(s)
  BY <1>1, <1>5, LenProperties
<1> HIDE DEF r, t, p
<1>8. ASSUME NEW f \in DOMAIN r.buckets
      PROVE  /\ f \in DOMAIN q.buckets
             /\ r.buckets[f] \in Seq(Request) /\ r.buckets[f] # <<>>
             /\ \A j \in DOMAIN r.buckets[f] :
                   /\ Before(e, i, f, j) \in DOMAIN q.buckets[f]
                   /\ r.buckets[f][j] = q.buckets[f][Before(e, i, f, j)]
                   /\ ~(f = e /\ Before(e, i, f, j) = i)
  <2>1. CASE f # e
    <3>1. q.buckets[f] \in Seq(Request) /\ q.buckets[f] # <<>>
      BY <1>4, <1>8 DEF QueueOK, Q!Consistent
    <3> QED BY <1>4, <1>8, <2>1, <3>1 DEF Before
  <2>2. CASE f = e
    <3>1. t # <<>> /\ r.buckets[f] = t BY <1>4, <1>8, <2>2
    <3>2. ASSUME NEW j \in 1 .. Len(t)
          PROVE  /\ Before(e, i, f, j) \in 1 .. Len(s)
                 /\ t[j] = s[Before(e, i, f, j)]
                 /\ Before(e, i, f, j) # i
      BY <1>5, <1>7, <2>2, <3>2 DEF Before
    <3> QED BY <1>1, <1>5, <2>2, <3>1, <3>2
  <2> QED BY <2>1, <2>2
<1>9. ASSUME NEW f \in DOMAIN q.buckets, NEW k \in DOMAIN q.buckets[f],
             ~(f = e /\ k = i)
      PROVE  /\ f \in DOMAIN r.buckets
             /\ \E j \in DOMAIN r.buckets[f] : r.buckets[f][j] = q.buckets[f][k]
  <2>1. CASE f # e BY <1>4, <2>1
  <2>2. CASE f = e
    <3> DEFINE j == IF k > i THEN k - 1 ELSE k
    <3>1. k \in 1 .. Len(s) /\ k # i BY <1>1, <1>9, <2>2
    <3>2. j \in 1 .. Len(t) /\ t[j] = s[k] BY <1>5, <1>7, <3>1
    <3>3. t # <<>> BY <1>5, <3>2
    <3>4. f \in DOMAIN r.buckets /\ r.buckets[f] = t BY <1>4, <2>2, <3>3
    <3> QED BY <1>5, <2>2, <3>2, <3>4
  <2> QED BY <2>1, <2>2
<1> QED BY <1>6, <1>8, <1>9 DEF r, p

(* Remove keeps lists and index in agreement and takes away the request of *)
(* its player.                                                             *)
LEMMA RemoveKeeps ==
    ASSUME NEW q, QueueOK(q), NEW p
    PROVE  /\ QueueOK(Q!Remove(q, p))
           /\ Q!Requests(Q!Remove(q, p)) = {x \in Q!Requests(q) : x.player # p}
PROOF
<1>1. CASE p \notin DOMAIN q.index
  <2>1. Q!Remove(q, p) = q BY <1>1 DEF Q!Remove
  <2>2. ASSUME NEW x \in Q!Requests(q) PROVE x.player # p
    <3>1. PICK e \in DOMAIN q.buckets : \E i \in DOMAIN q.buckets[e] : x = q.buckets[e][i]
      BY <2>2, InRequests
    <3>2. PICK i \in DOMAIN q.buckets[e] : x = q.buckets[e][i] BY <3>1
    <3>3. q.buckets[e][i].player \in DOMAIN q.index BY OnePlace
    <3> QED BY <1>1, <3>2, <3>3
  <2> QED BY <2>1, <2>2
<1>2. CASE p \in DOMAIN q.index
  <2> DEFINE r == Q!Remove(q, p)
  <2>1. PICK e \in DOMAIN q.buckets : \E i \in DOMAIN q.buckets[e] :
           q.buckets[e][i].player = p
    BY <1>2, InRequests DEF QueueOK, Q!Consistent
  <2>2. PICK i \in DOMAIN q.buckets[e] : q.buckets[e][i].player = p BY <2>1
  <2>3. /\ \A f \in DOMAIN r.buckets :
              /\ f \in DOMAIN q.buckets
              /\ r.buckets[f] \in Seq(Request) /\ r.buckets[f] # <<>>
              /\ \A j \in DOMAIN r.buckets[f] :
                    /\ Before(e, i, f, j) \in DOMAIN q.buckets[f]
                    /\ r.buckets[f][j] = q.buckets[f][Before(e, i, f, j)]
                    /\ ~(f = e /\ Before(e, i, f, j) = i)
        /\ \A f \in DOMAIN q.buckets : \A k \in DOMAIN q.buckets[f] :
              ~(f = e /\ k = i) =>
                  /\ f \in DOMAIN r.buckets
                  /\ \E j \in DOMAIN r.buckets[f] : r.buckets[f][j] = q.buckets[f][k]
        /\ DOMAIN r.index = DOMAIN q.index \ {p}
        /\ \A x \in DOMAIN r.index : r.index[x] = q.index[x]
    <3> DEFINE y == q.buckets[e][i].player
               z == Q!Remove(q, y)
    <3>1. /\ \A f \in DOMAIN z.buckets :
                /\ f \in DOMAIN q.buckets
                /\ z.buckets[f] \in Seq(Request) /\ z.buckets[f] # <<>>
                /\ \A j \in DOMAIN z.buckets[f] :
                      /\ Before(e, i, f, j) \in DOMAIN q.buckets[f]
                      /\ z.buckets[f][j] = q.buckets[f][Before(e, i, f, j)]
                      /\ ~(f = e /\ Before(e, i, f, j) = i)
          /\ \A f \in DOMAIN q.buckets : \A k \in DOMAIN q.buckets[f] :
                ~(f = e /\ k = i) =>
                    /\ f \in DOMAIN z.buckets
                    /\ \E j \in DOMAIN z.buckets[f] : z.buckets[f][j] = q.buckets[f][k]
          /\ DOMAIN z.index = DOMAIN q.index \ {y}
          /\ \A x \in DOMAIN z.index : z.index[x] = q.index[x]
      BY RemovedEntry
    <3>2. y = p /\ z = r BY <2>2
    <3> HIDE DEF y, z, r
    <3> QED BY <3>1, <3>2
  <2> HIDE DEF r
  <2>4. \A f \in DOMAIN q.buckets : \A k \in DOMAIN q.buckets[f] :
           q.buckets[f][k].player = p <=> f = e /\ k = i
    BY <2>2, OnePlace
  <2>5. Q!Requests(r) = {x \in Q!Requests(q) : x.player # p}
    <3>1. ASSUME NEW x \in Q!Requests(r) PROVE x \in Q!Requests(q) /\ x.player # p
      <4>1. PICK f \in DOMAIN r.buckets : \E j \in DOMAIN r.buckets[f] :
               x = r.buckets[f][j]
        BY <3>1, InRequests
      <4>2. PICK j \in DOMAIN r.buckets[f] : x = r.buckets[f][j] BY <4>1
      <4> DEFINE k == Before(e, i, f, j)
      <4>3. f \in DOMAIN q.buckets /\ k \in DOMAIN q.buckets[f] /\ x = q.buckets[f][k]
            /\ ~(f = e /\ k = i)
        BY <2>3, <4>2
      <4> HIDE DEF k
      <4> QED BY <2>4, <4>3, InRequests
    <3>2. ASSUME NEW x \in Q!Requests(q), x.player # p PROVE x \in Q!Requests(r)
      <4>1. PICK f \in DOMAIN q.buckets : \E k \in DOMAIN q.buckets[f] :
               x = q.buckets[f][k]
        BY <3>2, InRequests
      <4>2. PICK k \in DOMAIN q.buckets[f] : x = q.buckets[f][k] BY <4>1
      <4>3. ~(f = e /\ k = i) BY <2>4, <3>2, <4>2
      <4> QED BY <2>3, <4>2, <4>3, InRequests
    <3> QED BY <3>1, <3>2
  <2>6. QueueOK(r)
    <3>1. \A f \in DOMAIN r.buckets : \A j, l \in DOMAIN r.buckets[f] :
             j < l => r.buckets[f][j].order < r.buckets[f][l].order
      <4> SUFFICES ASSUME NEW f \in DOMAIN r.buckets,
                          NEW j \in DOMAIN r.buckets[f], NEW l \in DOMAIN r.buckets[f],
                          j < l
                   PROVE  r.buckets[f][j].order < r.buckets[f][l].order
        OBVIOUS
      <4> DEFINE k == Before(e, i, f, j)
                 m == Before(e, i, f, l)
      <4>1. /\ f \in DOMAIN q.buckets /\ k \in DOMAIN q.buckets[f] /\ m \in DOMAIN q.buckets[f]
            /\ r.buckets[f][j] = q.buckets[f][k] /\ r.buckets[f][l] = q.buckets[f][m]
        BY <2>3
      <4>2. j \in Nat /\ l \in Nat /\ i \in Nat
        <5>1. DOMAIN r.buckets[f] = 1 .. Len(r.buckets[f]) BY <2>3, LenProperties
        <5>2. DOMAIN q.buckets[e] = 1 .. Len(q.buckets[e]) BY <2>2, OnePlace
        <5> QED BY <5>1, <5>2
      <4>3. k < m BY <4>2 DEF Before
      <4> HIDE DEF k, m
      <4> QED BY <4>1, <4>3 DEF QueueOK, Q!Consistent
    <3>2. ASSUME NEW f \in DOMAIN r.buckets, NEW j \in DOMAIN r.buckets[f]
          PROVE  LET x == r.buckets[f][j]
                 IN /\ x.elo = f /\ x.player \in DOMAIN r.index
                    /\ r.index[x.player] = [elo |-> f, order |-> x.order]
      <4> DEFINE k == Before(e, i, f, j)
      <4>1. /\ f \in DOMAIN q.buckets /\ k \in DOMAIN q.buckets[f]
            /\ r.buckets[f][j] = q.buckets[f][k] /\ ~(f = e /\ k = i)
        BY <2>3
      <4> HIDE DEF k
      <4>2. q.buckets[f][k].player # p BY <2>4, <4>1
      <4>3. /\ q.buckets[f][k].elo = f /\ q.buckets[f][k].player \in DOMAIN q.index
            /\ q.index[q.buckets[f][k].player] = [elo |-> f, order |-> q.buckets[f][k].order]
        BY <4>1, OnePlace
      <4> QED BY <2>3, <4>1, <4>2, <4>3
    <3>3. \A x \in DOMAIN r.index : \E y \in Q!Requests(r) : y.player = x
      BY <2>3, <2>5 DEF QueueOK, Q!Consistent
    <3>4. Q!Consistent(r) BY <2>3, <3>1, <3>2, <3>3 DEF Q!Consistent
    <3>5. IsFiniteSet(DOMAIN r.index) BY <2>3, FS_Subset DEF QueueOK
    <3>6. \A a, b \in Q!Requests(r) : a.order = b.order => a = b BY <2>5 DEF QueueOK
    <3>7. DOMAIN r.buckets \subseteq Elo BY <2>3 DEF QueueOK
    <3> QED BY <2>3, <3>4, <3>5, <3>6, <3>7 DEF QueueOK
  <2> QED BY <2>5, <2>6 DEF r
<1> QED BY <1>1, <1>2

(* As many players are in the index as requests in the lists.              *)
LEMMA SizeIsCardinality ==
    ASSUME NEW q, QueueOK(q)
    PROVE  /\ IsFiniteSet(Q!Requests(q))
           /\ Q!Size(q) = Cardinality(Q!Requests(q))
PROOF
<1> DEFINE D == DOMAIN q.index
           R == Q!Requests(q)
           f == [p \in D |-> CHOOSE r \in R : r.player = p]
<1>1. \A p \in D : f[p] \in R /\ f[p].player = p BY DEF QueueOK, Q!Consistent
<1>2. ASSUME NEW r \in R PROVE r.player \in D /\ f[r.player] = r
  <2>1. PICK e \in DOMAIN q.buckets : \E i \in DOMAIN q.buckets[e] : r = q.buckets[e][i]
    BY <1>2, InRequests
  <2>2. PICK i \in DOMAIN q.buckets[e] : r = q.buckets[e][i] BY <2>1
  <2>3. r.player \in D BY <2>2, OnePlace
  <2>4. f[r.player] \in R /\ f[r.player].player = r.player BY <1>1, <2>3
  <2> HIDE DEF f
  <2>5. PICK g \in DOMAIN q.buckets : \E k \in DOMAIN q.buckets[g] :
           f[r.player] = q.buckets[g][k]
    BY <2>4, InRequests
  <2>6. PICK k \in DOMAIN q.buckets[g] : f[r.player] = q.buckets[g][k] BY <2>5
  <2>7. g = e /\ k = i
    <3>1. q.buckets[g][k].player = q.buckets[e][i].player BY <2>2, <2>4, <2>6
    <3>2. \A h \in DOMAIN q.buckets : \A j \in DOMAIN q.buckets[h] :
             q.buckets[h][j].player = q.buckets[e][i].player => h = e /\ j = i
      BY OnePlace
    <3> QED BY ONLY <3>1, <3>2
  <2> QED BY <2>2, <2>3, <2>6, <2>7
<1>3. f \in Bijection(D, R)
  <2>1. f \in [D -> R] BY <1>1
  <2> HIDE DEF f
  <2>2. \A a, b \in D : f[a] = f[b] => a = b BY <1>1
  <2>3. \A r \in R : \E p \in D : f[p] = r BY <1>2
  <2> QED BY <2>1, <2>2, <2>3 DEF Bijection, Injection, Surjection, IsInjective
<1>4. IsFiniteSet(D) BY DEF QueueOK
<1> HIDE DEF D, R, f
<1>5. IsFiniteSet(R) /\ Cardinality(D) = Cardinality(R)
  BY <1>3, <1>4, FS_Bijection DEF ExistsBijection
<1>6. Q!Size(q) = Cardinality(D) BY DEF Q!Size, D, Q!Cardinality, Cardinality
<1> QED BY <1>5, <1>6 DEF R

(* The list of a rating, and the same list with a new request behind.      *)
ListOf(q, elo) == IF elo \in DOMAIN q.buckets THEN q.buckets[elo] ELSE <<>>

Put(q, r) ==
    [buckets |-> Q!With(q.buckets, r.elo, Q!Insert(ListOf(q, r.elo), r)),
     index   |-> Q!With(q.index, r.player, [elo |-> r.elo, order |-> r.order])]

(* A request of a player who has none, and later than all, goes behind the *)
(* last of its rating.                                                     *)
LEMMA PutLast ==
    ASSUME NEW q, QueueOK(q), NEW r \in Request,
           \A x \in Q!Requests(q) : x.order < r.order
    PROVE  LET s == ListOf(q, r.elo)
               u == Put(q, r)
           IN /\ s \in Seq(Request)
              /\ DOMAIN u.buckets = DOMAIN q.buckets \cup {r.elo}
              /\ u.buckets[r.elo] = Append(s, r)
              /\ \A f \in DOMAIN q.buckets : f # r.elo => u.buckets[f] = q.buckets[f]
              /\ DOMAIN u.index = DOMAIN q.index \cup {r.player}
              /\ u.index[r.player] = [elo |-> r.elo, order |-> r.order]
              /\ \A p \in DOMAIN q.index : p # r.player => u.index[p] = q.index[p]
PROOF
<1> DEFINE s == ListOf(q, r.elo)
           u == Put(q, r)
<1>1. s \in Seq(Request) BY EmptySeq DEF QueueOK, ListOf
<1>2. \A i \in DOMAIN s : s[i].order < r.order
  <2>1. CASE r.elo \in DOMAIN q.buckets
    BY <2>1, InRequests DEF ListOf
  <2>2. CASE r.elo \notin DOMAIN q.buckets BY <2>2, EmptySeq DEF ListOf
  <2> QED BY <2>1, <2>2
<1>3. Q!Insert(s, r) = Append(s, r)
  <2> HIDE DEF s
  <2> QED BY <1>1, <1>2, InsertedLast
<1>4. /\ u.buckets = Q!With(q.buckets, r.elo, Append(s, r))
      /\ u.index = Q!With(q.index, r.player, [elo |-> r.elo, order |-> r.order])
  BY <1>3 DEF Put
<1> HIDE DEF s, u
<1> QED BY <1>1, <1>4 DEF Q!With, s, u

(* Upsert of a player who is not in the queue.                             *)
LEMMA PutKeeps ==
    ASSUME NEW q, QueueOK(q), NEW r \in Request, r.player \notin DOMAIN q.index,
           \A x \in Q!Requests(q) : x.order < r.order
    PROVE  /\ QueueOK(Put(q, r))
           /\ Q!Requests(Put(q, r)) = Q!Requests(q) \cup {r}
PROOF
<1> DEFINE s == ListOf(q, r.elo)
           u == Put(q, r)
<1>1. /\ s \in Seq(Request)
      /\ DOMAIN u.buckets = DOMAIN q.buckets \cup {r.elo}
      /\ u.buckets[r.elo] = Append(s, r)
      /\ \A f \in DOMAIN q.buckets : f # r.elo => u.buckets[f] = q.buckets[f]
      /\ DOMAIN u.index = DOMAIN q.index \cup {r.player}
      /\ u.index[r.player] = [elo |-> r.elo, order |-> r.order]
      /\ \A p \in DOMAIN q.index : p # r.player => u.index[p] = q.index[p]
  BY PutLast
<1>2. /\ Append(s, r) \in Seq(Request) /\ Append(s, r) # <<>>
      /\ DOMAIN Append(s, r) = DOMAIN s \cup {Len(s) + 1}
      /\ DOMAIN s = 1 .. Len(s) /\ Len(s) \in Nat
      /\ Append(s, r)[Len(s) + 1] = r
      /\ \A i \in DOMAIN s : Append(s, r)[i] = s[i]
  <2> HIDE DEF s
  <2> QED BY <1>1
<1>3. /\ r.elo \in DOMAIN q.buckets => s = q.buckets[r.elo]
      /\ r.elo \notin DOMAIN q.buckets => DOMAIN s = {}
  BY EmptySeq DEF ListOf
<1> HIDE DEF s, u
<1>4. ASSUME NEW f \in DOMAIN u.buckets, NEW j \in DOMAIN u.buckets[f]
      PROVE  \/ f = r.elo /\ j = Len(s) + 1 /\ u.buckets[f][j] = r
             \/ /\ f \in DOMAIN q.buckets /\ j \in DOMAIN q.buckets[f]
                /\ u.buckets[f][j] = q.buckets[f][j]
                /\ f = r.elo => j <= Len(s)
  BY <1>1, <1>2, <1>3, <1>4
<1>5. ASSUME NEW f \in DOMAIN q.buckets, NEW j \in DOMAIN q.buckets[f]
      PROVE  /\ f \in DOMAIN u.buckets /\ j \in DOMAIN u.buckets[f]
             /\ u.buckets[f][j] = q.buckets[f][j]
  <2>1. CASE f = r.elo
    <3>1. j \in DOMAIN s /\ q.buckets[f][j] = s[j] BY <1>3, <1>5, <2>1
    <3> QED BY <1>1, <1>2, <2>1, <3>1
  <2>2. CASE f # r.elo BY <1>1, <1>5, <2>2
  <2> QED BY <2>1, <2>2
<1>6. /\ r.elo \in DOMAIN u.buckets /\ Len(s) + 1 \in DOMAIN u.buckets[r.elo]
      /\ u.buckets[r.elo][Len(s) + 1] = r
  BY <1>1, <1>2
<1>7. Q!Requests(u) = Q!Requests(q) \cup {r}
  <2>1. ASSUME NEW x \in Q!Requests(u) PROVE x \in Q!Requests(q) \cup {r}
    <3>1. PICK f \in DOMAIN u.buckets : \E j \in DOMAIN u.buckets[f] : x = u.buckets[f][j]
      BY <2>1, InRequests
    <3>2. PICK j \in DOMAIN u.buckets[f] : x = u.buckets[f][j] BY <3>1
    <3> QED BY <1>4, <3>2, InRequests
  <2>2. ASSUME NEW x \in Q!Requests(q) PROVE x \in Q!Requests(u)
    <3>1. PICK f \in DOMAIN q.buckets : \E j \in DOMAIN q.buckets[f] : x = q.buckets[f][j]
      BY <2>2, InRequests
    <3>2. PICK j \in DOMAIN q.buckets[f] : x = q.buckets[f][j] BY <3>1
    <3>3. f \in DOMAIN u.buckets /\ j \in DOMAIN u.buckets[f] /\ x = u.buckets[f][j]
      BY <1>5, <3>2
    <3> QED BY <3>3, InRequests
  <2>3. r \in Q!Requests(u) BY <1>6, InRequests
  <2> QED BY <2>1, <2>2, <2>3
<1>8. r.elo \in Elo /\ r.order \in Nat BY DEF Request, Abs!Request
<1>9. \A f \in DOMAIN u.buckets : u.buckets[f] \in Seq(Request) /\ u.buckets[f] # <<>>
  BY <1>1, <1>2 DEF QueueOK, Q!Consistent
<1>10. ASSUME NEW f \in DOMAIN u.buckets,
              NEW i \in DOMAIN u.buckets[f], NEW j \in DOMAIN u.buckets[f], i < j
       PROVE  u.buckets[f][i].order < u.buckets[f][j].order
  <2>1. CASE f = r.elo /\ j = Len(s) + 1 /\ u.buckets[f][j] = r
    <3>1. i # Len(s) + 1
      <4>1. DOMAIN u.buckets[f] = 1 .. Len(u.buckets[f]) BY <1>9, LenProperties
      <4> QED BY <1>10, <2>1, <4>1
    <3>2. u.buckets[f][i] \in Q!Requests(q) BY <1>4, <3>1, InRequests
    <3> QED BY <2>1, <3>2
  <2>2. CASE ~(f = r.elo /\ j = Len(s) + 1 /\ u.buckets[f][j] = r)
    <3>1. /\ f \in DOMAIN q.buckets /\ j \in DOMAIN q.buckets[f]
          /\ u.buckets[f][j] = q.buckets[f][j]
          /\ f = r.elo => j <= Len(s)
      BY <1>4, <2>2
    <3>2. i \in Nat /\ j \in Nat
      <4>1. DOMAIN u.buckets[f] = 1 .. Len(u.buckets[f]) BY <1>9, LenProperties
      <4> QED BY <4>1
    <3>3. ~(f = r.elo /\ i = Len(s) + 1) BY <1>2, <1>10, <3>1, <3>2
    <3>4. i \in DOMAIN q.buckets[f] /\ u.buckets[f][i] = q.buckets[f][i] BY <1>4, <3>3
    <3> QED BY <1>10, <3>1, <3>4 DEF QueueOK, Q!Consistent
  <2> QED BY <2>1, <2>2
<1>11. ASSUME NEW f \in DOMAIN u.buckets, NEW i \in DOMAIN u.buckets[f]
       PROVE  LET e == u.buckets[f][i]
              IN /\ e.elo = f /\ e.player \in DOMAIN u.index
                 /\ u.index[e.player] = [elo |-> f, order |-> e.order]
  <2>1. CASE u.buckets[f][i] = r /\ f = r.elo BY <1>1, <2>1
  <2>2. CASE /\ f \in DOMAIN q.buckets /\ i \in DOMAIN q.buckets[f]
             /\ u.buckets[f][i] = q.buckets[f][i]
    <3>1. LET e == q.buckets[f][i]
          IN /\ e.elo = f /\ e.player \in DOMAIN q.index
             /\ q.index[e.player] = [elo |-> f, order |-> e.order]
      BY <2>2 DEF QueueOK, Q!Consistent
    <3> QED BY <1>1, <2>2, <3>1
  <2> QED BY <1>4, <2>1, <2>2
<1>12. \A p \in DOMAIN u.index : \E x \in Q!Requests(u) : x.player = p
  BY <1>1, <1>7 DEF QueueOK, Q!Consistent
<1>13. Q!Consistent(u) BY <1>9, <1>10, <1>11, <1>12 DEF Q!Consistent
<1>14. IsFiniteSet(DOMAIN u.index) BY <1>1, FS_AddElement DEF QueueOK
<1>15. \A a, b \in Q!Requests(u) : a.order = b.order => a = b
  <2>1. \A x \in Q!Requests(q) : x.order # r.order
    <3>1. ASSUME NEW x \in Q!Requests(q) PROVE x.order \in Nat
      <4>1. PICK f \in DOMAIN q.buckets : \E j \in DOMAIN q.buckets[f] : x = q.buckets[f][j]
        BY InRequests
      <4>2. PICK j \in DOMAIN q.buckets[f] : x = q.buckets[f][j] BY <4>1
      <4>3. x \in Request BY <4>2, OnePlace
      <4> QED BY <4>3 DEF Request, Abs!Request
    <3> QED BY <1>8, <3>1
  <2> QED BY <1>7, <2>1 DEF QueueOK
<1>16. DOMAIN u.buckets \subseteq Elo BY <1>1, <1>8 DEF QueueOK
<1>17. QueueOK(u) BY <1>9, <1>13, <1>14, <1>15, <1>16 DEF QueueOK
<1> QED BY <1>7, <1>17 DEF u

(* Upsert takes out what the player has and adds the new request.          *)
LEMMA UpsertKeeps ==
    ASSUME NEW q, QueueOK(q), NEW r \in Request,
           \A x \in Q!Requests(q) : x.order < r.order
    PROVE  /\ QueueOK(Q!Upsert(q, r))
           /\ Q!Requests(Q!Upsert(q, r))
                 = {x \in Q!Requests(q) : x.player # r.player} \cup {r}
PROOF
<1> DEFINE freed == Q!Remove(q, r.player)
<1>1. /\ QueueOK(freed)
      /\ Q!Requests(freed) = {x \in Q!Requests(q) : x.player # r.player}
  BY RemoveKeeps
<1>2. r.player \notin DOMAIN freed.index
  <2> HIDE DEF freed
  <2> QED BY <1>1 DEF QueueOK, Q!Consistent
<1>3. Q!Upsert(q, r) = Put(freed, r) BY DEF Q!Upsert, Put, ListOf
<1> HIDE DEF freed
<1> QED BY <1>1, <1>2, <1>3, PutKeeps

-----------------------------------------------------------------------------
(* The order of the queue                                                  *)

(* A set of naturals that is not empty has a least element.                *)
LEMMA LeastNat ==
    ASSUME NEW T \in SUBSET Nat, T # {}
    PROVE  \E n \in T : \A m \in T : n <= m
PROOF
<1>1. PICK n \in T : \A m \in T : ~(<<m, n>> \in OpToRel(<, Nat))
  BY NatLessThanWellFounded, WFMin
<1>2. \A m \in T : ~(m < n) BY <1>1 DEF OpToRel
<1> QED BY <1>2

(* Rating, then order: a strict order, total as orders are unique.         *)
LEMMA PrecedesIsOrder ==
    ASSUME NEW a \in Request, NEW b \in Request, NEW c \in Request
    PROVE  /\ ~Q!Precedes(a, a)
           /\ Q!Precedes(a, b) /\ Q!Precedes(b, c) => Q!Precedes(a, c)
           /\ a.order # b.order => Q!Precedes(a, b) \/ Q!Precedes(b, a)
PROOF
<1>1. /\ a.elo \in Int /\ b.elo \in Int /\ c.elo \in Int
      /\ a.order \in Nat /\ b.order \in Nat /\ c.order \in Nat
  BY BucketMatchmakerAssumption DEF Request, Abs!Request
<1> QED BY <1>1 DEF Q!Precedes

(* s goes through S in the order of FetchOrdered.                          *)
Sorts(s, S) ==
    /\ s \in [1 .. Cardinality(S) -> S]
    /\ \A i, j \in 1 .. Cardinality(S) : i < j => Q!Precedes(s[i], s[j])

(* One more request has its place in the order.                            *)
LEMMA SortedInsert ==
    ASSUME NEW S \in SUBSET Request, IsFiniteSet(S), NEW x \in Request, x \notin S,
           \A a \in S : a.order # x.order, NEW s, Sorts(s, S)
    PROVE  \E t : Sorts(t, S \cup {x})
PROOF
<1> DEFINE n == Cardinality(S)
           late == {i \in 1 .. n : ~Q!Precedes(s[i], x)} \cup {n + 1}
<1>1. n \in Nat /\ Cardinality(S \cup {x}) = n + 1
  BY FS_CardinalityType, FS_AddElement
<1>2. \A i \in 1 .. n : s[i] \in S /\ s[i] \in Request BY DEF Sorts
<1>3. \A i, j \in 1 .. n : i < j => Q!Precedes(s[i], s[j]) BY DEF Sorts
<1>4. late \in SUBSET Nat /\ late # {} BY <1>1
<1>5. PICK k \in late : \A m \in late : k <= m
  <2> HIDE DEF late
  <2> QED BY <1>4, LeastNat
<1>6. k \in 1 .. n + 1 /\ \A i \in 1 .. n : i < k => Q!Precedes(s[i], x)
  BY <1>1, <1>5
<1>7. \A i \in 1 .. n : i >= k => Q!Precedes(x, s[i])
  <2> SUFFICES ASSUME NEW i \in 1 .. n, i >= k PROVE Q!Precedes(x, s[i]) OBVIOUS
  <2>1. k \in 1 .. n /\ ~Q!Precedes(s[k], x) BY <1>1, <1>5, <1>6
  <2>2. Q!Precedes(x, s[k]) BY <1>2, <2>1, PrecedesIsOrder
  <2>3. CASE i = k BY <2>2, <2>3
  <2>4. CASE i > k
    <3>1. Q!Precedes(s[k], s[i]) BY <1>3, <2>1, <2>4
    <3> QED BY <1>2, <2>1, <2>2, <3>1, PrecedesIsOrder
  <2> QED BY <1>6, <2>3, <2>4
<1> DEFINE t == [i \in 1 .. n + 1 |-> IF i < k THEN s[i] ELSE IF i = k THEN x ELSE s[i - 1]]
<1> HIDE DEF n, late
<1>8. t \in [1 .. n + 1 -> S \cup {x}]
  <2>1. ASSUME NEW i \in 1 .. n + 1 PROVE t[i] \in S \cup {x}
    <3>1. CASE i < k BY <1>1, <1>2, <1>6, <3>1
    <3>2. CASE i = k BY <3>2
    <3>3. CASE i > k
      <4>1. i - 1 \in 1 .. n BY <1>1, <1>6, <3>3
      <4> QED BY <1>2, <1>6, <3>3, <4>1
    <3> QED BY <1>1, <1>6, <3>1, <3>2, <3>3
  <2> QED BY <2>1
<1>9. ASSUME NEW i \in 1 .. n + 1, NEW j \in 1 .. n + 1, i < j
      PROVE  Q!Precedes(t[i], t[j])
  <2>0. n \in Nat /\ k \in Nat /\ k >= 1 BY <1>1, <1>6
  <2>1. CASE j < k
    <3>1. i \in 1 .. n /\ j \in 1 .. n /\ t[i] = s[i] /\ t[j] = s[j]
      BY <1>6, <1>9, <2>0, <2>1
    <3> QED BY <1>3, <1>9, <3>1
  <2>2. CASE j = k
    <3>1. i \in 1 .. n /\ t[i] = s[i] /\ t[j] = x BY <1>6, <1>9, <2>0, <2>2
    <3> QED BY <1>6, <1>9, <2>2, <3>1
  <2>3. CASE j > k /\ i < k
    <3>1. i \in 1 .. n /\ j - 1 \in 1 .. n /\ t[i] = s[i] /\ t[j] = s[j - 1] /\ i < j - 1
      BY <1>6, <1>9, <2>0, <2>3
    <3> QED BY <1>3, <3>1
  <2>4. CASE j > k /\ i = k
    <3>1. j - 1 \in 1 .. n /\ t[i] = x /\ t[j] = s[j - 1] /\ j - 1 >= k
      BY <1>6, <1>9, <2>0, <2>4
    <3> QED BY <1>7, <3>1
  <2>5. CASE i > k
    <3>1. /\ i - 1 \in 1 .. n /\ j - 1 \in 1 .. n /\ i - 1 < j - 1
          /\ t[i] = s[i - 1] /\ t[j] = s[j - 1]
      BY <1>6, <1>9, <2>0, <2>5
    <3> QED BY <1>3, <3>1
  <2> QED BY <1>9, <2>0, <2>1, <2>2, <2>3, <2>4, <2>5
<1> HIDE DEF t
<1> QED BY <1>1, <1>8, <1>9 DEF Sorts, n

(* A finite set of requests with orders of their own can be sorted.        *)
LEMMA SortedExists ==
    ASSUME NEW R \in SUBSET Request, IsFiniteSet(R),
           \A a, b \in R : a.order = b.order => a = b
    PROVE  \E s : Sorts(s, R)
PROOF
<1> DEFINE bad == {S \in SUBSET R : ~\E s : Sorts(s, S)}
           sizes == {Cardinality(S) : S \in bad}
<1>1. \A S \in SUBSET R : IsFiniteSet(S) /\ Cardinality(S) \in Nat
  BY FS_Subset, FS_CardinalityType
<1>2. SUFFICES ASSUME ~\E s : Sorts(s, R) PROVE FALSE OBVIOUS
<1>3. R \in bad BY <1>2
<1>4. sizes \in SUBSET Nat /\ sizes # {} BY <1>1, <1>3
<1>5. PICK n \in sizes : \A m \in sizes : n <= m
  <2> HIDE DEF sizes
  <2> QED BY <1>4, LeastNat
<1>6. PICK S \in bad : n = Cardinality(S) BY <1>5
<1>7. S # {}
  <2>1. Sorts([i \in 1 .. 0 |-> 0], {}) BY FS_EmptySet DEF Sorts
  <2> QED BY <1>6, <2>1
<1>8. PICK x \in S : TRUE BY <1>7
<1> DEFINE T == S \ {x}
<1>9. Cardinality(T) = n - 1 /\ n \in Nat /\ IsFiniteSet(T)
  BY <1>1, <1>6, <1>8, FS_RemoveElement
<1>10. T \in SUBSET R /\ T \notin bad
  <2>1. T \in SUBSET R BY <1>6
  <2>2. T \in bad => Cardinality(T) \in sizes OBVIOUS
  <2> QED BY <1>5, <1>9, <2>1, <2>2
<1>11. PICK s : Sorts(s, T) BY <1>10
<1>12. \A a \in T : a.order # x.order BY <1>6, <1>8
<1>13. \E t : Sorts(t, T \cup {x})
  <2>1. T \in SUBSET Request /\ x \in Request /\ x \notin T BY <1>6, <1>8
  <2> HIDE DEF T
  <2> QED BY <1>9, <1>11, <1>12, <2>1, SortedInsert
<1>14. T \cup {x} = S BY <1>8
<1> QED BY <1>6, <1>13, <1>14

(* What is in the queue is a request.                                      *)
LEMMA RequestsAreRequests ==
    ASSUME NEW q, QueueOK(q)
    PROVE  Q!Requests(q) \in SUBSET Request
PROOF
<1> SUFFICES ASSUME NEW x \in Q!Requests(q) PROVE x \in Request OBVIOUS
<1>1. PICK f \in DOMAIN q.buckets : \E j \in DOMAIN q.buckets[f] : x = q.buckets[f][j]
  BY InRequests
<1>2. PICK j \in DOMAIN q.buckets[f] : x = q.buckets[f][j] BY <1>1
<1> QED BY <1>2, OnePlace

(* FetchOrdered gives every request once, in the order.                    *)
LEMMA FetchedInOrder ==
    ASSUME NEW q, QueueOK(q)
    PROVE  LET s == Q!FetchOrdered(q)
           IN /\ s \in Seq(Request)
              /\ {s[i] : i \in 1 .. Len(s)} = Q!Requests(q)
              /\ \A i, j \in 1 .. Len(s) : i < j => Q!Precedes(s[i], s[j])
PROOF
<1> DEFINE R == Q!Requests(q)
           n == Cardinality(R)
           s == Q!FetchOrdered(q)
           all == {f \in [1 .. n -> R] : \A i, j \in 1 .. n : i # j => f[i] # f[j]}
<1>1. R \in SUBSET Request /\ IsFiniteSet(R) /\ n \in Nat
  BY RequestsAreRequests, SizeIsCardinality, FS_CardinalityType
<1>2. PICK t : Sorts(t, R)
  <2>1. \A a, b \in R : a.order = b.order => a = b BY DEF QueueOK
  <2> HIDE DEF R
  <2> QED BY <1>1, <2>1, SortedExists
<1>3. t \in [1 .. n -> R] /\ \A i, j \in 1 .. n : i < j => Q!Precedes(t[i], t[j])
  BY <1>2 DEF Sorts
<1>4. Q!Seqs!SetToSeqs(R) = all
  BY DEF Q!Seqs!SetToSeqs, Q!Seqs!Cardinality, Cardinality
<1> HIDE DEF R, n
<1>5. t \in all /\ DOMAIN t = 1 .. n
  <2>1. ASSUME NEW i \in 1 .. n, NEW j \in 1 .. n, i # j PROVE t[i] # t[j]
    <3>1. t[i] \in Request /\ t[j] \in Request BY <1>1, <1>3
    <3>2. Q!Precedes(t[i], t[j]) \/ Q!Precedes(t[j], t[i]) BY <1>1, <1>3, <2>1
    <3> QED BY <3>1, <3>2, PrecedesIsOrder
  <2> QED BY <1>3, <2>1
<1>6. s = CHOOSE f \in all : \A i, j \in DOMAIN f : i < j => Q!Precedes(f[i], f[j])
  BY <1>4 DEF Q!FetchOrdered, R
<1>7. s \in all /\ \A i, j \in DOMAIN s : i < j => Q!Precedes(s[i], s[j])
  <2>1. \E f \in all : \A i, j \in DOMAIN f : i < j => Q!Precedes(f[i], f[j])
    BY <1>3, <1>5
  <2> HIDE DEF s, all
  <2> QED BY <1>6, <2>1
<1> HIDE DEF s
<1>8. s \in Seq(R) /\ s \in Seq(Request) /\ Len(s) = n /\ DOMAIN s = 1 .. n
  <2>1. s \in [1 .. n -> R] BY <1>7
  <2>2. s \in Seq(R) BY <1>1, <2>1, SeqDef
  <2>3. s \in Seq(Request) BY <1>1, <2>1, SeqDef
  <2>4. DOMAIN s = 1 .. n /\ DOMAIN s = 1 .. Len(s) /\ Len(s) \in Nat
    BY <2>1, <2>2, LenProperties
  <2> QED BY <1>1, <2>2, <2>3, <2>4
<1>9. {s[i] : i \in 1 .. n} = R
  <2>1. s \in Injection(1 .. n, R)
    BY <1>7 DEF Injection, IsInjective
  <2>2. Cardinality(1 .. n) = n BY <1>1, FS_Interval
  <2>3. s \in Surjection(1 .. n, R) BY <1>1, <2>1, <2>2, FS_Injection DEF n
  <2> QED BY <2>3 DEF Surjection
<1> QED BY <1>7, <1>8, <1>9 DEF R, s

-----------------------------------------------------------------------------
(* The inductive invariant                                                 *)

(* While RunMatching pairs, `ordered' holds every request that waited when *)
(* it began, in order and one for each player, and those who still wait    *)
(* are those of it who have not been used.                                 *)
LoopOK ==
    matcher = "matching" =>
        /\ ordered \in Seq(Request) /\ next \in 1 .. Len(ordered) + 1
        /\ \A i, j \in 1 .. Len(ordered) : i < j => Q!Precedes(ordered[i], ordered[j])
        /\ \A i, j \in 1 .. Len(ordered) :
              ordered[i].player = ordered[j].player => i = j
        /\ Q!Requests(waiting)
              = {ordered[i] : i \in {k \in 1 .. Len(ordered) : ordered[k].player \notin used}}

BInv ==
    /\ QueueOK(waiting)
    /\ clock \in Nat /\ now \in Nat /\ orders \in Nat
    /\ \A r \in Q!Requests(waiting) : r.order <= orders
    /\ LoopOK
    /\ matcher # "matching" => ordered = <<>> /\ next = 1

-----------------------------------------------------------------------------
(* The loop                                                                *)

(* First is the one request that precedes all others.                      *)
LEMMA FirstIs ==
    ASSUME NEW S \in SUBSET Request, NEW a \in S,
           \A b \in S \ {a} : Q!Precedes(a, b)
    PROVE  Abs!First(S) = a
PROOF
<1>1. \A c \in S : (\A b \in S \ {c} : Abs!Precedes(c, b)) <=> c = a
  <2> SUFFICES ASSUME NEW c \in S
               PROVE  (\A b \in S \ {c} : Q!Precedes(c, b)) <=> c = a
    BY DEF Q!Precedes, Abs!Precedes
  <2>1. c # a => ~(Q!Precedes(c, a) /\ Q!Precedes(a, c)) BY PrecedesIsOrder
  <2> QED BY <2>1
<1> QED BY <1>1 DEF Abs!First

(* In the order of the queue ratings do not fall.                          *)
LEMMA LaterIsHigher ==
    ASSUME NEW a \in Request, NEW b \in Request, Q!Precedes(a, b)
    PROVE  /\ b.elo - a.elo \in Nat
           /\ Abs!Distance(a, b) = b.elo - a.elo
           /\ \A t \in Nat : /\ Abs!CurrentTolerance(a, t) \in Nat
                             /\ Abs!Acceptable(a, b, t) =>
                                   ~(b.elo - a.elo > Abs!CurrentTolerance(a, t))
PROOF
<1>1. /\ a.elo \in Int /\ b.elo \in Int /\ a.at \in Nat
  BY BucketMatchmakerAssumption DEF Request, Abs!Request
<1>2. b.elo - a.elo \in Nat /\ Abs!Distance(a, b) = b.elo - a.elo
  BY <1>1 DEF Q!Precedes, Abs!Distance
<1>3. ASSUME NEW t \in Nat PROVE Abs!CurrentTolerance(a, t) \in Nat
  <2> DEFINE waited == IF t > a.at THEN t - a.at ELSE 0
  <2>1. waited \in Nat BY <1>1
  <2> HIDE DEF waited
  <2>2. waited \div StepSeconds \in Nat BY <2>1, BucketMatchmakerAssumption
  <2>3. (waited \div StepSeconds) * ToleranceStep \in Nat
    BY <2>2, BucketMatchmakerAssumption
  <2>4. Abs!CurrentTolerance(a, t) = BaseTolerance + (waited \div StepSeconds) * ToleranceStep
    BY DEF Abs!CurrentTolerance, waited
  <2> QED BY <2>3, <2>4, BucketMatchmakerAssumption
<1>4. ASSUME NEW t \in Nat, Abs!Acceptable(a, b, t)
      PROVE  ~(b.elo - a.elo > Abs!CurrentTolerance(a, t))
  <2>1. Abs!Distance(a, b) <= Abs!CurrentTolerance(a, t) BY <1>4 DEF Abs!Acceptable
  <2> QED BY <1>2, <1>3, <2>1
<1> QED BY <1>2, <1>3, <1>4

(* The rest of the copy: who is still in the queue is not in used.         *)
LEMMA RestIs ==
    ASSUME BInv, matcher = "matching"
    PROVE  /\ Len(ordered) \in Nat /\ DOMAIN ordered = 1 .. Len(ordered)
           /\ next \in Nat /\ next >= 1 /\ next <= Len(ordered) + 1
           /\ Rest = {ordered[i] : i \in {k \in 1 .. Len(ordered) : k >= next}}
           /\ \A i \in 1 .. Len(ordered) :
                 /\ ordered[i] \in Request
                 /\ ordered[i] \in Q!Requests(waiting) <=> ordered[i].player \notin used
                 /\ ordered[i] \in Rest <=> i >= next
                 /\ \A j \in 1 .. Len(ordered) : ordered[i] = ordered[j] => i = j
                 /\ \A j \in 1 .. Len(ordered) : i < j <=> Q!Precedes(ordered[i], ordered[j])
PROOF
<1>1. /\ ordered \in Seq(Request) /\ next \in 1 .. Len(ordered) + 1
      /\ \A i, j \in 1 .. Len(ordered) : i < j => Q!Precedes(ordered[i], ordered[j])
      /\ \A i, j \in 1 .. Len(ordered) : ordered[i].player = ordered[j].player => i = j
      /\ Q!Requests(waiting)
            = {ordered[i] : i \in {k \in 1 .. Len(ordered) : ordered[k].player \notin used}}
  BY DEF BInv, LoopOK
<1>2. Len(ordered) \in Nat /\ DOMAIN ordered = 1 .. Len(ordered) BY <1>1, LenProperties
<1>3. Rest = {ordered[i] : i \in {k \in 1 .. Len(ordered) : k >= next}} BY <1>2 DEF Rest
<1>4. \A i \in 1 .. Len(ordered) : ordered[i] \in Request BY <1>1, ElementOfSeq
<1>5. \A i, j \in 1 .. Len(ordered) : ordered[i] = ordered[j] => i = j BY <1>1
<1>6. \A i \in 1 .. Len(ordered) :
         /\ ordered[i] \in Q!Requests(waiting) <=> ordered[i].player \notin used
         /\ ordered[i] \in Rest <=> i >= next
  BY <1>1, <1>3, <1>5
<1>7. ASSUME NEW i \in 1 .. Len(ordered), NEW j \in 1 .. Len(ordered),
             Q!Precedes(ordered[i], ordered[j])
      PROVE  i < j
  <2>1. ~Q!Precedes(ordered[j], ordered[i]) /\ ordered[i] # ordered[j]
    BY <1>4, <1>7, PrecedesIsOrder
  <2> QED BY <1>1, <1>2, <2>1
<1> QED BY <1>1, <1>2, <1>3, <1>4, <1>5, <1>6, <1>7

(* What the loop over the copy takes for the partner is the first of the   *)
(* partners there are in the set.                                          *)
LEMMA SamePartner ==
    ASSUME BInv, matcher = "matching", next <= Len(ordered)
    PROVE  LET c == ordered[next]
           IN /\ c \in Request /\ c = Abs!First(Rest) /\ Rest # {}
              /\ HasPartner <=> c \in Q!Requests(waiting) /\ Abs!Partners(c) # {}
              /\ HasPartner => ordered[FirstStop] = Abs!First(Abs!Partners(c))
PROOF
<1> DEFINE c == ordered[next]
           n == Len(ordered)
           W == Q!Requests(waiting)
           acc(j) == Abs!Acceptable(c, ordered[j], now)
           far(j) == ordered[j].elo - c.elo > Abs!CurrentTolerance(c, now)
           comp(j) == Abs!RegionsCompatible(c, ordered[j])
           free(j) == ordered[j].player \notin used
           set == {o \in (Rest \cap W) \ {c} : Abs!RegionsCompatible(c, o)}
<1>1. /\ n \in Nat /\ next \in 1 .. n /\ next \in Nat
      /\ \A i \in 1 .. n :
            /\ ordered[i] \in Request
            /\ ordered[i] \in W <=> free(i)
            /\ ordered[i] \in Rest <=> i >= next
            /\ \A j \in 1 .. n : ordered[i] = ordered[j] => i = j
            /\ \A j \in 1 .. n : i < j <=> Q!Precedes(ordered[i], ordered[j])
      /\ Rest = {ordered[i] : i \in {k \in 1 .. n : k >= next}}
  BY RestIs
<1>2. c \in Request /\ c \in Rest /\ Rest \in SUBSET Request /\ now \in Nat
  BY <1>1 DEF BInv
<1>3. c = Abs!First(Rest)
  <2>1. ASSUME NEW b \in Rest \ {c} PROVE Q!Precedes(c, b)
    <3>1. PICK i \in 1 .. n : i >= next /\ b = ordered[i] BY <1>1, <2>1
    <3>2. next < i BY <1>1, <2>1, <3>1
    <3> QED BY <1>1, <3>1, <3>2
  <2> HIDE DEF c
  <2> QED BY <1>2, <2>1, FirstIs
<1>4. \A j \in next + 1 .. n :
         /\ j \in 1 .. n /\ ordered[j] # c
         /\ acc(j) => comp(j) /\ ~far(j)
  <2> SUFFICES ASSUME NEW j \in next + 1 .. n
               PROVE  /\ j \in 1 .. n /\ ordered[j] # c
                      /\ acc(j) => comp(j) /\ ~far(j)
    OBVIOUS
  <2>1. j \in 1 .. n /\ next < j BY <1>1
  <2>2. ordered[j] # c /\ Q!Precedes(c, ordered[j]) BY <1>1, <2>1
  <2>3. acc(j) => ~far(j) BY <1>1, <1>2, <2>1, <2>2, LaterIsHigher
  <2>4. acc(j) => comp(j) BY DEF Abs!Acceptable
  <2> QED BY <2>1, <2>2, <2>3, <2>4
<1>5. \A o : o \in set <=>
         \E j \in next + 1 .. n : o = ordered[j] /\ free(j) /\ comp(j)
  <2>1. ASSUME NEW o \in set
        PROVE  \E j \in next + 1 .. n : o = ordered[j] /\ free(j) /\ comp(j)
    <3>1. PICK i \in 1 .. n : i >= next /\ o = ordered[i] BY <1>1, <2>1
    <3>2. i \in next + 1 .. n BY <1>1, <2>1, <3>1
    <3> QED BY <1>1, <2>1, <3>1, <3>2
  <2>2. ASSUME NEW j \in next + 1 .. n, free(j), comp(j) PROVE ordered[j] \in set
    <3>1. j \in 1 .. n /\ j >= next /\ ordered[j] # c BY <1>1, <1>4
    <3> QED BY <1>1, <2>2, <3>1
  <2> QED BY <2>1, <2>2
<1>6. Abs!Partners(c) = {o \in set : /\ \A e \in set : Q!Precedes(e, o) =>
                                           ~(e.elo - c.elo > Abs!CurrentTolerance(c, now))
                                     /\ Abs!Acceptable(c, o, now)}
  BY DEF Abs!Partners, Abs!Reachable, Abs!Precedes, Q!Precedes
<1>7. Stops = {j \in next + 1 .. n : free(j) /\ comp(j) /\ (acc(j) \/ far(j))}
  BY DEF Stops, StopsSearch
<1> HIDE DEF c, n, W, set
<1> HIDE DEF acc, far, comp, free
<1>8. \A j \in next + 1 .. n :
         ordered[j] \in Abs!Partners(c) <=>
            /\ free(j) /\ comp(j) /\ acc(j)
            /\ \A k \in next + 1 .. j - 1 : free(k) /\ comp(k) => ~far(k)
  <2> SUFFICES ASSUME NEW j \in next + 1 .. n
               PROVE  ordered[j] \in Abs!Partners(c) <=>
                         /\ free(j) /\ comp(j) /\ acc(j)
                         /\ \A k \in next + 1 .. j - 1 : free(k) /\ comp(k) => ~far(k)
    OBVIOUS
  <2>1. j \in 1 .. n BY <1>4
  <2>2. ordered[j] \in set <=> free(j) /\ comp(j)
    <3>1. \A i \in next + 1 .. n : ordered[i] = ordered[j] => i = j BY <1>1, <1>4, <2>1
    <3> QED BY <1>5, <3>1
  <2>3. (\A e \in set : Q!Precedes(e, ordered[j]) =>
             ~(e.elo - c.elo > Abs!CurrentTolerance(c, now)))
           <=> \A k \in next + 1 .. j - 1 : free(k) /\ comp(k) => ~far(k)
    <3>1. \A k \in next + 1 .. n : Q!Precedes(ordered[k], ordered[j]) <=> k < j
      BY <1>1, <1>4, <2>1
    <3>2. (\A e \in set : Q!Precedes(e, ordered[j]) =>
               ~(e.elo - c.elo > Abs!CurrentTolerance(c, now)))
             <=> \A k \in next + 1 .. n : free(k) /\ comp(k) /\ k < j => ~far(k)
      BY <1>5, <3>1 DEF far
    <3>3. \A k : k \in next + 1 .. j - 1 <=> k \in next + 1 .. n /\ k < j
      BY <1>1, <2>1
    <3> QED BY <3>2, <3>3
  <2>4. acc(j) <=> Abs!Acceptable(c, ordered[j], now) BY DEF acc
  <2> QED BY <1>6, <2>2, <2>3, <2>4
<1>9. \A o \in Abs!Partners(c) : \E j \in next + 1 .. n : o = ordered[j]
  BY <1>5, <1>6
<1>10. Stops \in SUBSET Nat /\ Stops \in SUBSET (next + 1 .. n) BY <1>1, <1>7
<1>11. Stops # {} => /\ FirstStop \in Stops /\ \A k \in Stops : FirstStop <= k
  <2>1. Stops # {} => \E j \in Stops : \A k \in Stops : j <= k BY <1>10, LeastNat
  <2> QED BY <2>1 DEF FirstStop
<1>12. ASSUME Stops # {}, acc(FirstStop)
       PROVE  /\ ordered[FirstStop] \in Abs!Partners(c)
              /\ ordered[FirstStop] = Abs!First(Abs!Partners(c))
  <2> DEFINE j == FirstStop
  <2>1. j \in next + 1 .. n /\ free(j) /\ comp(j) /\ j \in Nat BY <1>7, <1>10, <1>11, <1>12
  <2>2. ASSUME NEW k \in next + 1 .. j - 1, free(k), comp(k) PROVE ~far(k)
    <3>1. k \in next + 1 .. n /\ k < j BY <1>1, <2>1
    <3>2. k \notin Stops BY <1>11, <1>12, <2>1, <3>1
    <3> QED BY <1>7, <2>2, <3>1, <3>2
  <2>3. ordered[j] \in Abs!Partners(c) BY <1>8, <1>12, <2>1, <2>2
  <2>4. ASSUME NEW b \in Abs!Partners(c) \ {ordered[j]} PROVE Q!Precedes(ordered[j], b)
    <3>1. PICK k \in next + 1 .. n : b = ordered[k] BY <1>9
    <3>2. free(k) /\ comp(k) /\ acc(k) BY <1>8, <2>4, <3>1
    <3>3. k \in Stops BY <1>7, <3>2
    <3>4. j <= k /\ j # k BY <1>11, <1>12, <2>4, <3>1, <3>3
    <3>5. j < k /\ j \in 1 .. n /\ k \in 1 .. n BY <1>1, <2>1, <3>4
    <3> QED BY <1>1, <3>1, <3>5
  <2>5. Abs!Partners(c) \in SUBSET Request
    <3>1. \A k \in next + 1 .. n : ordered[k] \in Request BY <1>1, <1>4
    <3> QED BY <1>9, <3>1
  <2> QED BY <2>3, <2>4, <2>5, FirstIs
<1>13. ASSUME Abs!Partners(c) # {}
       PROVE  Stops # {} /\ acc(FirstStop)
  <2>1. PICK k \in next + 1 .. n : ordered[k] \in Abs!Partners(c) BY <1>9, <1>13
  <2>2. /\ free(k) /\ comp(k) /\ acc(k)
        /\ \A i \in next + 1 .. k - 1 : free(i) /\ comp(i) => ~far(i)
    BY <1>8, <2>1
  <2>3. k \in Stops BY <1>7, <2>2
  <2> DEFINE j == FirstStop
  <2>4. /\ j \in next + 1 .. n /\ free(j) /\ comp(j) /\ (acc(j) \/ far(j)) /\ j <= k
    BY <1>7, <1>11, <2>3
  <2>5. CASE j = k BY <2>2, <2>3, <2>5
  <2>6. CASE j # k
    <3>1. j \in next + 1 .. k - 1 BY <1>1, <2>4, <2>6
    <3> QED BY <2>2, <2>3, <2>4, <3>1
  <2> QED BY <2>5, <2>6
<1>14. HasPartner <=> free(next) /\ Stops # {} /\ acc(FirstStop)
  BY DEF HasPartner, free, acc, c
<1>15. c \in W <=> free(next) BY <1>1 DEF c
<1>16. HasPartner <=> c \in W /\ Abs!Partners(c) # {} BY <1>12, <1>13, <1>14, <1>15
<1>17. HasPartner => ordered[FirstStop] = Abs!First(Abs!Partners(c)) BY <1>12, <1>14
<1> QED BY <1>2, <1>3, <1>16, <1>17 DEF c, W

-----------------------------------------------------------------------------
(* The steps, each a step of Matchmaker                                    *)

LEMMA SameCardinality == \A S : Abs!Cardinality(S) = Cardinality(S)
BY DEF Abs!Cardinality, Cardinality

(* The empty queue is the empty set.                                       *)
LEMMA InitStep == Init => BInv /\ Abs!Init
PROOF
<1> SUFFICES ASSUME Init PROVE BInv /\ Abs!Init OBVIOUS
<1> USE DEF Init
<1>1. /\ DOMAIN waiting.buckets = {} /\ DOMAIN waiting.index = {}
  BY EmptySeq DEF Q!Empty
<1>2. Q!Requests(waiting) = {} BY <1>1 DEF Q!Requests
<1>3. QueueOK(waiting) BY <1>1, <1>2, FS_EmptySet DEF QueueOK, Q!Consistent
<1>4. Rest = {} BY DEF Rest
<1>5. BInv BY <1>2, <1>3 DEF BInv, LoopOK
<1> QED BY <1>2, <1>4, <1>5 DEF Abs!Init

(* Upsert replaces what the player has in the set.                         *)
LEMMA EnqueueStep ==
    ASSUME BInv, NEW p \in Player, NEW elo \in Elo, NEW region \in Region,
           Enqueue(p, elo, region)
    PROVE  BInv' /\ Abs!Enqueue(p, elo, region)
PROOF
<1> DEFINE r == [player |-> p, elo |-> elo, region |-> region, at |-> clock,
                 order |-> orders + 1]
<1>1. /\ matcher # "matching" /\ orders < MaxOrder /\ clock <= MaxArrival
      /\ orders' = orders + 1 /\ waiting' = Q!Upsert(waiting, r)
      /\ lastSize' = Q!Size(waiting')
      /\ UNCHANGED <<clock, matcher, now, ordered, next, used, created, matches,
                     channel, taken>>
  BY DEF Enqueue, MutexFree, locals
<1>2. r \in Request /\ r.order = orders + 1 /\ orders \in Nat
  BY DEF BInv, Request, Abs!Request
<1>3. \A x \in Q!Requests(waiting) : x.order \in Nat /\ x.order <= orders
  BY RequestsAreRequests DEF BInv, Request, Abs!Request
<1>4. r.player = p OBVIOUS
<1> HIDE DEF r
<1>5. /\ QueueOK(waiting')
      /\ Q!Requests(waiting') = {x \in Q!Requests(waiting) : x.player # p} \cup {r}
  <2>1. \A x \in Q!Requests(waiting) : x.order < r.order BY <1>2, <1>3
  <2> QED BY <1>1, <1>2, <1>4, <2>1, UpsertKeeps DEF BInv
<1>6. \A x \in Q!Requests(waiting') : x.order <= orders'
  BY <1>1, <1>2, <1>3, <1>5
<1>7. BInv' BY <1>1, <1>2, <1>5, <1>6 DEF BInv, LoopOK
<1>8. lastSize' = Abs!Cardinality(Q!Requests(waiting'))
  BY <1>1, <1>5, SizeIsCardinality, SameCardinality
<1>9. Q!Requests(waiting')
         = Abs!Upsert(Q!Requests(waiting),
                      [player |-> p, elo |-> elo, region |-> region, at |-> clock,
                       order |-> orders'])
  BY <1>1, <1>4, <1>5 DEF Abs!Upsert, Abs!Remove, r
<1>10. Rest' = Rest BY <1>1 DEF Rest
<1> QED BY <1>1, <1>7, <1>8, <1>9, <1>10 DEF Abs!Enqueue, Abs!MutexFree, Abs!run

(* Remove takes the request of the player out of the set.                  *)
LEMMA CancelStep ==
    ASSUME BInv, NEW p \in Player, Cancel(p)
    PROVE  BInv' /\ Abs!Cancel(p)
PROOF
<1>1. /\ matcher # "matching" /\ waiting' = Q!Remove(waiting, p)
      /\ lastSize' = Q!Size(waiting')
      /\ UNCHANGED <<clock, orders, matcher, now, ordered, next, used, created, matches,
                     channel, taken>>
  BY DEF Cancel, MutexFree, locals
<1>2. /\ QueueOK(waiting')
      /\ Q!Requests(waiting') = {x \in Q!Requests(waiting) : x.player # p}
  BY <1>1, RemoveKeeps DEF BInv
<1>3. BInv' BY <1>1, <1>2 DEF BInv, LoopOK
<1>4. lastSize' = Abs!Cardinality(Q!Requests(waiting'))
  BY <1>1, <1>2, SizeIsCardinality, SameCardinality
<1>5. Q!Requests(waiting') = Abs!Remove(Q!Requests(waiting), p)
  BY <1>2 DEF Abs!Remove
<1>6. Rest' = Rest BY <1>1 DEF Rest
<1> QED BY <1>1, <1>3, <1>4, <1>5, <1>6 DEF Abs!Cancel, Abs!MutexFree, Abs!run

(* The copy has just the requests of the set.                              *)
LEMMA BeginStep ==
    ASSUME BInv, BeginMatching
    PROVE  BInv' /\ Abs!BeginMatching
PROOF
<1>1. /\ matcher = "called" /\ matcher' = "matching"
      /\ ordered' = Q!FetchOrdered(waiting) /\ next' = 1 /\ used' = {}
      /\ UNCHANGED <<clock, waiting, orders, lastSize, now, created, matches, channel,
                     taken>>
  BY DEF BeginMatching
<1>2. QueueOK(waiting) BY DEF BInv
<1>3. /\ ordered' \in Seq(Request) /\ Len(ordered') \in Nat
      /\ DOMAIN ordered' = 1 .. Len(ordered')
      /\ {ordered'[i] : i \in 1 .. Len(ordered')} = Q!Requests(waiting)
      /\ \A i, j \in 1 .. Len(ordered') : i < j => Q!Precedes(ordered'[i], ordered'[j])
  <2>1. LET s == Q!FetchOrdered(waiting)
        IN /\ s \in Seq(Request)
           /\ {s[i] : i \in 1 .. Len(s)} = Q!Requests(waiting)
           /\ \A i, j \in 1 .. Len(s) : i < j => Q!Precedes(s[i], s[j])
    BY <1>2, FetchedInOrder
  <2> QED BY <1>1, <2>1, LenProperties
<1>4. ASSUME NEW i \in 1 .. Len(ordered'), NEW j \in 1 .. Len(ordered'),
             ordered'[i].player = ordered'[j].player
      PROVE  i = j
  <2>1. ordered'[i] \in Q!Requests(waiting) /\ ordered'[j] \in Q!Requests(waiting)
    BY <1>3
  <2>2. PICK e \in DOMAIN waiting.buckets : \E k \in DOMAIN waiting.buckets[e] :
           ordered'[i] = waiting.buckets[e][k]
    BY <2>1, InRequests
  <2>3. PICK k \in DOMAIN waiting.buckets[e] : ordered'[i] = waiting.buckets[e][k] BY <2>2
  <2>4. PICK f \in DOMAIN waiting.buckets : \E l \in DOMAIN waiting.buckets[f] :
           ordered'[j] = waiting.buckets[f][l]
    BY <2>1, InRequests
  <2>5. PICK l \in DOMAIN waiting.buckets[f] : ordered'[j] = waiting.buckets[f][l] BY <2>4
  <2>6. \A h \in DOMAIN waiting.buckets : \A m \in DOMAIN waiting.buckets[h] :
           waiting.buckets[h][m].player = waiting.buckets[e][k].player => h = e /\ m = k
    BY <1>2, OnePlace
  <2>7. ordered'[i] = ordered'[j] BY <1>4, <2>3, <2>5, <2>6
  <2>8. ~Q!Precedes(ordered'[i], ordered'[i])
    <3>1. ordered'[i] \in Request BY <1>2, <2>1, RequestsAreRequests
    <3> QED BY <3>1, PrecedesIsOrder
  <2> QED BY <1>3, <2>7, <2>8
<1>5. LoopOK' BY <1>1, <1>3, <1>4 DEF LoopOK
<1>6. BInv' BY <1>1, <1>5 DEF BInv
<1>7. Rest' = Q!Requests(waiting) BY <1>1, <1>3 DEF Rest
<1> QED BY <1>1, <1>6, <1>7 DEF Abs!BeginMatching

(* At the end of the copy no candidate is left.                            *)
LEMMA EndStep ==
    ASSUME BInv, EndMatching
    PROVE  BInv' /\ Abs!EndMatching
PROOF
<1>1. /\ matcher = "matching" /\ next > Len(ordered) /\ matcher' = "publishing"
      /\ lastSize' = Q!Size(waiting) /\ ordered' = <<>> /\ next' = 1
      /\ UNCHANGED <<clock, waiting, orders, now, created, matches, channel, taken>>
  BY DEF EndMatching
<1>2. Rest = {} BY <1>1, RestIs
<1>3. Rest' = {} BY <1>1 DEF Rest
<1>4. lastSize' = Abs!Cardinality(Q!Requests(waiting))
  BY <1>1, SizeIsCardinality, SameCardinality DEF BInv
<1>5. BInv' BY <1>1 DEF BInv, LoopOK
<1> QED BY <1>1, <1>2, <1>3, <1>4, <1>5 DEF Abs!EndMatching

(* Both loops come to the same candidate and take the same partner.        *)
LEMMA PairStep ==
    ASSUME BInv, PairNext
    PROVE  BInv' /\ Abs!PairNext
PROOF
<1> DEFINE c == ordered[next]
           o == ordered[FirstStop]
           W == Q!Requests(waiting)
<1>1. /\ matcher = "matching" /\ next <= Len(ordered) /\ next' = next + 1
      /\ IF HasPartner THEN Pair(c, o) ELSE UNCHANGED <<waiting, used, created, matches>>
      /\ UNCHANGED <<clock, orders, lastSize, matcher, now, ordered, channel, taken>>
  BY DEF PairNext
<1>2. /\ Len(ordered) \in Nat /\ DOMAIN ordered = 1 .. Len(ordered)
      /\ next \in 1 .. Len(ordered) /\ next \in Nat
      /\ Rest = {ordered[i] : i \in {k \in 1 .. Len(ordered) : k >= next}}
      /\ \A i, j \in 1 .. Len(ordered) : ordered[i] = ordered[j] => i = j
  BY <1>1, RestIs
<1>3. /\ c = Abs!First(Rest) /\ Rest # {}
      /\ HasPartner <=> c \in W /\ Abs!Partners(c) # {}
      /\ HasPartner => o = Abs!First(Abs!Partners(c))
  BY <1>1, SamePartner
<1>4. Rest' = Rest \ {c}
  <2>1. Rest' = {ordered[i] : i \in {k \in 1 .. Len(ordered) : k >= next + 1}}
    BY <1>1, <1>2 DEF Rest
  <2>2. \A i \in 1 .. Len(ordered) : i >= next + 1 <=> i >= next /\ i # next BY <1>2
  <2>3. ASSUME NEW x \in Rest \ {c} PROVE x \in Rest'
    <3>1. PICK i \in 1 .. Len(ordered) : i >= next /\ x = ordered[i] BY <1>2, <2>3
    <3> QED BY <2>1, <2>2, <2>3, <3>1
  <2>4. ASSUME NEW x \in Rest' PROVE x \in Rest \ {c}
    <3>1. PICK i \in 1 .. Len(ordered) : i >= next + 1 /\ x = ordered[i] BY <2>1, <2>4
    <3>2. i >= next /\ i # next BY <2>2, <3>1
    <3>3. x # c BY <1>2, <3>1, <3>2
    <3> QED BY <1>2, <3>1, <3>2, <3>3
  <2> QED BY <2>3, <2>4
<1> HIDE DEF c, o, W
<1>5. CASE HasPartner
  <2>1. /\ waiting' = Q!Remove(Q!Remove(waiting, c.player), o.player)
        /\ used' = used \cup {c.player, o.player}
        /\ created' = created + 1
        /\ matches' = Append(matches,
              [id |-> created', first |-> c, second |-> o,
               createdAt |-> now, region |-> Abs!ResolveRegion(c, o)])
    BY <1>1, <1>5 DEF Pair
  <2>2. /\ QueueOK(waiting')
        /\ Q!Requests(waiting')
              = {x \in {y \in W : y.player # c.player} : x.player # o.player}
    <3> DEFINE v == Q!Remove(waiting, c.player)
    <3>1. QueueOK(v) /\ Q!Requests(v) = {y \in W : y.player # c.player}
      BY RemoveKeeps DEF BInv, W
    <3> HIDE DEF v
    <3>2. /\ QueueOK(Q!Remove(v, o.player))
          /\ Q!Requests(Q!Remove(v, o.player))
                = {x \in Q!Requests(v) : x.player # o.player}
      BY <3>1, RemoveKeeps
    <3> QED BY <2>1, <3>1, <3>2 DEF v
  <2>3. W = {ordered[i] : i \in {k \in 1 .. Len(ordered) : ordered[k].player \notin used}}
    BY <1>1 DEF BInv, LoopOK, W
  <2>4. Q!Requests(waiting')
           = {ordered[i] : i \in {k \in 1 .. Len(ordered) : ordered[k].player \notin used'}}
    BY <2>1, <2>2, <2>3
  <2>5. LoopOK' BY <1>1, <1>2, <2>4 DEF BInv, LoopOK
  <2>6. \A r \in Q!Requests(waiting') : r.order <= orders' BY <1>1, <2>2 DEF BInv, W
  <2>7. BInv' BY <1>1, <2>2, <2>5, <2>6 DEF BInv
  <2>8. Q!Requests(waiting') = Abs!Remove(Abs!Remove(W, c.player), o.player)
    BY <2>2 DEF Abs!Remove
  <2>9. c \in W /\ Abs!Partners(c) # {} /\ o = Abs!First(Abs!Partners(c))
    BY <1>3, <1>5
  <2> QED BY <1>1, <1>3, <1>4, <2>1, <2>7, <2>8, <2>9 DEF Abs!PairNext, W
<1>6. CASE ~HasPartner
  <2>1. UNCHANGED <<waiting, used, created, matches>> BY <1>1, <1>6
  <2>2. LoopOK' BY <1>1, <1>2, <2>1 DEF BInv, LoopOK
  <2>3. BInv' BY <1>1, <2>1, <2>2 DEF BInv
  <2>4. ~(c \in W /\ Abs!Partners(c) # {}) BY <1>3, <1>6
  <2> QED BY <1>1, <1>3, <1>4, <2>1, <2>3, <2>4 DEF Abs!PairNext, W
<1> QED BY <1>5, <1>6

(* The steps that leave the queue and the loop alone.                      *)
LEMMA OtherSteps ==
    ASSUME BInv,
           CallRunMatching \/ Publish \/ Poll \/ Drain \/ TimePasses \/ UNCHANGED vars
    PROVE  BInv' /\ [Abs!RunMatching \/ Abs!Poll \/ Abs!Drain \/ Abs!TimePasses]_(Abs!vars)
PROOF
<1>0. UNCHANGED <<waiting, ordered, next>> => Rest' = Rest BY DEF Rest
<1>1. CASE CallRunMatching
  <2>1. /\ matcher = "idle" /\ matcher' = "called" /\ now' = clock
        /\ UNCHANGED <<clock, waiting, orders, lastSize, ordered, next, used, created,
                       matches, channel, taken>>
    BY <1>1 DEF CallRunMatching
  <2>2. BInv' BY <2>1 DEF BInv, LoopOK
  <2>3. Abs!CallRunMatching BY <1>0, <2>1 DEF Abs!CallRunMatching
  <2> QED BY <2>2, <2>3 DEF Abs!RunMatching
<1>2. CASE Publish
  <2>1. /\ matcher = "publishing" /\ matcher' # "matching"
        /\ IF matches = <<>>
           THEN matcher' = "idle" /\ UNCHANGED <<matches, channel>>
           ELSE /\ channel' = Append(channel, Head(matches))
                /\ matches' = Tail(matches)
                /\ UNCHANGED matcher
        /\ UNCHANGED <<clock, waiting, orders, lastSize, now, ordered, next, used,
                       created, taken>>
    BY <1>2 DEF Publish, locals
  <2>2. BInv' BY <2>1 DEF BInv, LoopOK
  <2>3. Abs!Publish BY <1>0, <2>1 DEF Abs!Publish
  <2> QED BY <2>2, <2>3 DEF Abs!RunMatching
<1>3. CASE Poll \/ Drain
  <2>1. UNCHANGED <<clock, waiting, orders, lastSize, matcher, now, ordered, next, used,
                    created, matches>>
    BY <1>3 DEF Poll, Drain, locals
  <2>2. BInv' BY <2>1 DEF BInv, LoopOK
  <2>3. Abs!Poll \/ Abs!Drain
    BY <1>0, <1>3, <2>1 DEF Poll, Drain, Abs!Poll, Abs!Drain, Abs!run
  <2> QED BY <2>2, <2>3
<1>4. CASE TimePasses
  <2>1. /\ clock' \in {t \in Times : t > clock}
        /\ UNCHANGED <<waiting, orders, lastSize, matcher, now, ordered, next, used,
                       created, matches, channel, taken>>
    BY <1>4 DEF TimePasses, locals
  <2>2. BInv'
    <3>1. clock' \in Nat BY <2>1, BucketMatchmakerAssumption
    <3> QED BY <2>1, <3>1 DEF BInv, LoopOK
  <2>3. Abs!TimePasses BY <1>0, <2>1 DEF Abs!TimePasses, Abs!run
  <2> QED BY <2>2, <2>3
<1>5. CASE UNCHANGED vars
  <2>1. UNCHANGED <<clock, waiting, orders, lastSize, matcher, now, ordered, next, used,
                    created, matches, channel, taken>>
    BY <1>5 DEF vars, locals
  <2>2. BInv' BY <2>1 DEF BInv, LoopOK
  <2>3. UNCHANGED Abs!vars BY <1>0, <2>1 DEF Abs!vars, Abs!run
  <2> QED BY <2>2, <2>3
<1> QED BY <1>1, <1>2, <1>3, <1>4, <1>5

(* Every step keeps the invariant and is a step of Matchmaker or none.     *)
LEMMA NextStep ==
    ASSUME BInv, [Next]_vars
    PROVE  BInv' /\ [Abs!Next]_(Abs!vars)
PROOF
<1>1. ASSUME NEW p \in Player, NEW elo \in Elo, NEW region \in Region,
             Enqueue(p, elo, region)
      PROVE  BInv' /\ Abs!Next
  BY <1>1, EnqueueStep DEF Abs!Next
<1>2. ASSUME NEW p \in Player, Cancel(p) PROVE BInv' /\ Abs!Next
  BY <1>2, CancelStep DEF Abs!Next
<1>3. CASE BeginMatching BY <1>3, BeginStep DEF Abs!Next, Abs!RunMatching
<1>4. CASE PairNext BY <1>4, PairStep DEF Abs!Next, Abs!RunMatching
<1>5. CASE EndMatching BY <1>5, EndStep DEF Abs!Next, Abs!RunMatching
<1>6. CASE CallRunMatching \/ Publish \/ Poll \/ Drain \/ TimePasses \/ UNCHANGED vars
  BY <1>6, OtherSteps DEF Abs!Next
<1> QED BY <1>1, <1>2, <1>3, <1>4, <1>5, <1>6 DEF Next, RunMatching

-----------------------------------------------------------------------------
(* The inductive invariant holds in every reachable state.                 *)
THEOREM Invariance == Spec => []BInv
PROOF
<1>1. Init => BInv BY InitStep
<1>2. BInv /\ [Next]_vars => BInv' BY NextStep
<1> QED BY <1>1, <1>2, PTL DEF Spec

(* The lists and the index of InMemoryMatchQueue say the same, however     *)
(* requests are replaced, cancelled and paired.                            *)
THEOREM ListsAndIndexAgree == Spec => []BucketsAndIndexAgree
PROOF
<1>1. BInv => BucketsAndIndexAgree BY DEF BInv, QueueOK, BucketsAndIndexAgree
<1> QED BY <1>1, Invariance, PTL

(* Every behaviour of the matchmaker with lists, index, copy and early     *)
(* exits is one of the matchmaker over a set of requests.                  *)
THEOREM ImplementsMatchmaker == Spec => Abs!Spec
PROOF
<1>1. Init => Abs!Init BY InitStep
<1>2. BInv /\ [Next]_vars => [Abs!Next]_(Abs!vars) BY NextStep
<1> QED BY <1>1, <1>2, Invariance, PTL DEF Spec, Abs!Spec
=============================================================================
