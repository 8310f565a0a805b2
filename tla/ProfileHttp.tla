----------------------------- MODULE ProfileHttp -----------------------------
(***************************************************************************)
(* What the HTTP router answers from the profiles and the leaderboard of   *)
(* MatchStats.  A request is handled by the thread that also runs the      *)
(* broadcasts, so it reads a state between two of them, and it changes     *)
(* nothing: the router is a function of the request.                       *)
(*                                                                         *)
(* A request is its method, the kind of its target, the id behind          *)
(* /profiles/ and the digits behind limit= as a number.  Ids are ordered   *)
(* as strings; `id', a numbering of the players, stands for that order.    *)
(***************************************************************************)
EXTENDS MatchStats

Seqs == INSTANCE SequencesExt

CONSTANTS
    Default,  \* limit when there is none (10)
    MaxPage,  \* the largest limit (50)
    MaxUlong  \* ULONG_MAX, the largest number std::stoul reads

ASSUME HttpAssumption ==
    /\ Default \in Nat \ {0} /\ MaxPage \in Nat \ {0}
    /\ MaxUlong \in Nat /\ MaxPage <= MaxUlong /\ Default <= MaxPage

NoId    == "no id"
NoLimit == -1

Request ==
    [method : {"GET", "POST"}, target : {"metrics", "profile", "leaderboard", "other"},
     player : Player \cup {NoId}, limit : {NoLimit} \cup 0 .. MaxUlong + 1]

Answer(status, body) == [status |-> status, body |-> body]

(* Mutant: the page has no upper limit.                                    *)
ParseLimitUnclamped(limit) ==
    IF limit = NoLimit \/ limit > MaxUlong THEN Default ELSE Max({1, limit})

(* ParseLimit: a number too large to read is no number at all.             *)
ParseLimit(limit) ==
    IF limit = NoLimit \/ limit > MaxUlong THEN Default
    ELSE IF limit = 0 THEN 1
    ELSE IF limit < MaxPage THEN limit ELSE MaxPage

(* BuildProfileUnsafe: the aggregate with its owner's name.                *)
BuildProfile(p) == [id |-> p, stats |-> profiles[p]]

FirstOf(s, limit) == SubSeq(s, 1, IF Len(s) < limit THEN Len(s) ELSE limit)

(* What the sets of ordered_ hold, each with the score it is under.        *)
Entries ==
    UNION {{[player |-> p, score |-> s] : p \in board.ordered[s]} :
              s \in DOMAIN board.ordered}

Outranks(a, b, id) ==
    \/ a.score > b.score
    \/ a.score = b.score /\ id[a.player] < id[b.player]

(* The order of the map, the highest score first, and in it of the set.    *)
Ranking(entries, id) ==
    CHOOSE s \in Seqs!SetToSeqs(entries) :
        \A i, j \in DOMAIN s : i < j => Outranks(s[i], s[j], id)

(* Mutant: the limit counts scores, not players.                           *)
TopNScores(limit, id) ==
    Ranking({e \in Entries :
                Cardinality({s \in DOMAIN board.ordered : s > e.score}) < limit}, id)

TopN(limit, id) == FirstOf(Ranking(Entries, id), limit)

(* Those of them that have a profile, in the same order.                   *)
TopProfiles(limit, id) ==
    LET top   == TopN(limit, id)
        known == Ranking({top[k] : k \in {j \in DOMAIN top :
                                             top[j].player \in DOMAIN profiles}}, id)
    IN  [k \in DOMAIN known |-> BuildProfile(known[k].player)]

HandleProfile(p) ==
    IF p \in DOMAIN profiles THEN Answer(200, <<BuildProfile(p)>>)
    ELSE Answer(404, <<>>)

(* /metrics reports how many profiles and entries there are.               *)
HandleMetrics ==
    Answer(200, <<Cardinality(DOMAIN profiles), Cardinality(DOMAIN board.scores),
                  recorded, updates>>)

Handle(request, id) ==
    CASE request.method # "GET" -> Answer(405, <<>>)
      [] request.method = "GET" /\ request.target = "metrics" -> HandleMetrics
      [] request.method = "GET" /\ request.target = "profile" ->
            HandleProfile(request.player)
      [] request.method = "GET" /\ request.target = "leaderboard" ->
            Answer(200, TopProfiles(ParseLimit(request.limit), id))
      [] request.method = "GET" /\ request.target = "other" -> Answer(404, <<>>)

-----------------------------------------------------------------------------
Get(target, player, limit) ==
    [method |-> "GET", target |-> target, player |-> player, limit |-> limit]

(* The ways the ids may be ordered.                                        *)
IdOrders ==
    {id \in [Player -> 1 .. Cardinality(Player)] :
        \A p, q \in Player : id[p] = id[q] => p = q}

Ahead(a, b, id) ==
    \/ a.stats.rating > b.stats.rating
    \/ a.stats.rating = b.stats.rating /\ id[a.id] < id[b.id]

(* A limit is clamped to the page, a missing one is the default, and so is *)
(* one too large to read: more than that would be cut to a full page.      *)
Asked(limit) ==
    IF limit \in 0 .. MaxUlong THEN Max({1, Min({limit, MaxPage})}) ELSE Default

(* Every page of the leaderboard is the head of the ranking by the ratings *)
(* of the profiles: whatever the limit, as many rows as that asks for, or  *)
(* all there are; the best first, equals by id, nobody better left out;    *)
(* and each row is what /profiles/ says of that player.                    *)
PagesAreRankings ==
    Quiet => \A id \in IdOrders, limit \in {NoLimit} \cup 0 .. MaxUlong + 1 :
        LET page   == Handle(Get("leaderboard", NoId, limit), id).body
            rows   == {page[k] : k \in DOMAIN page}
            ranked == {BuildProfile(p) : p \in
                          {q \in DOMAIN profiles : profiles[q].wins + profiles[q].losses > 0}}
        IN  /\ rows \subseteq ranked
            /\ Len(page) = Min({Asked(limit), Cardinality(ranked)})
            /\ \A j, k \in DOMAIN page : j < k => Ahead(page[j], page[k], id)
            /\ \A k \in DOMAIN page, r \in ranked \ rows : Ahead(page[k], r, id)
            /\ \A k \in DOMAIN page :
                  Handle(Get("profile", page[k].id, NoLimit), id) = Answer(200, <<page[k]>>)
=============================================================================
