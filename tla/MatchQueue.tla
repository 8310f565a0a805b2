----------------------------- MODULE MatchQueue ------------------------------
(***************************************************************************)
(* InMemoryMatchQueue: a list of requests for each rating that occurs, in  *)
(* the order of their arrival, and an index that says for each player in   *)
(* which list the request is and where.  A queue is a record of the two; a *)
(* list iterator is the order of the entry it points at, which is unique.  *)
(***************************************************************************)
EXTENDS Integers, Sequences, FiniteSets

Seqs == INSTANCE SequencesExt
Funs == INSTANCE Functions
Sets == INSTANCE FiniteSetsExt

Empty == [buckets |-> <<>>, index |-> <<>>]

Without(f, x) == Funs!Restrict(f, DOMAIN f \ {x})

With(f, x, value) == [y \in DOMAIN f \cup {x} |-> IF y = x THEN value ELSE f[y]]

(* Erase the entry `at' points to, and its list when that was the last.    *)
Erase(buckets, at) ==
    IF at.elo \notin DOMAIN buckets THEN buckets
    ELSE LET bucket == buckets[at.elo]
             entry  == CHOOSE i \in DOMAIN bucket : bucket[i].order = at.order
             rest   == Seqs!RemoveAt(bucket, entry)
         IN IF rest = <<>> THEN Without(buckets, at.elo)
            ELSE [buckets EXCEPT ![at.elo] = rest]

Remove(q, p) ==
    IF p \notin DOMAIN q.index THEN q
    ELSE [buckets |-> Erase(q.buckets, q.index[p]), index |-> Without(q.index, p)]

(* Before the first entry that came later.                                 *)
Insert(bucket, r) ==
    LET later == {i \in DOMAIN bucket : r.order < bucket[i].order}
    IN Seqs!InsertAt(bucket, Sets!Min(later \cup {Len(bucket) + 1}), r)

(* Mutant: the request a player has in another list stays there.           *)
UpsertBeside(q, r) ==
    LET bucket == IF r.elo \in DOMAIN q.buckets THEN q.buckets[r.elo] ELSE <<>>
        kept   == SelectSeq(bucket, LAMBDA e : e.player # r.player)
    IN [buckets |-> With(q.buckets, r.elo, Insert(kept, r)),
        index   |-> With(q.index, r.player, [elo |-> r.elo, order |-> r.order])]

(* The request a player has already is taken out first.                    *)
Upsert(q, r) ==
    LET freed  == Remove(q, r.player)
        bucket == IF r.elo \in DOMAIN freed.buckets THEN freed.buckets[r.elo] ELSE <<>>
    IN [buckets |-> With(freed.buckets, r.elo, Insert(bucket, r)),
        index   |-> With(freed.index, r.player, [elo |-> r.elo, order |-> r.order])]

Size(q) == Cardinality(DOMAIN q.index)

Precedes(a, b) == a.elo < b.elo \/ (a.elo = b.elo /\ a.order < b.order)

Requests(q) ==
    UNION {{q.buckets[e][i] : i \in DOMAIN q.buckets[e]} : e \in DOMAIN q.buckets}

(* The lists one after the other, sorted: all requests in their one order. *)
FetchOrdered(q) ==
    CHOOSE s \in Seqs!SetToSeqs(Requests(q)) :
        \A i, j \in DOMAIN s : i < j => Precedes(s[i], s[j])

-----------------------------------------------------------------------------
(* No list is empty, each is in the order of arrival and of one rating,    *)
(* and the index points at the one entry each player has.                  *)
Consistent(q) ==
    /\ \A elo \in DOMAIN q.buckets :
          /\ q.buckets[elo] # <<>>
          /\ \A i, j \in DOMAIN q.buckets[elo] :
                i < j => q.buckets[elo][i].order < q.buckets[elo][j].order
    /\ \A elo \in DOMAIN q.buckets : \A i \in DOMAIN q.buckets[elo] :
          LET e == q.buckets[elo][i]
          IN e.elo = elo /\ e.player \in DOMAIN q.index
                         /\ q.index[e.player] = [elo |-> elo, order |-> e.order]
    /\ \A p \in DOMAIN q.index : \E r \in Requests(q) : r.player = p
=============================================================================
