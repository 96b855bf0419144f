------------------------------ MODULE Retrieval ------------------------------
(* One query of the research retrieval pipeline (optima/rag/research/          *)
(* pipeline.py search): the first-stage lists are fused by reciprocal rank     *)
(* (fusion.py), the top items seed a breadth-first expansion of the call graph *)
(* (graph.py expand), its candidates become one more list of a second fusion,  *)
(* and the head of the ranking goes through the cross-encoder (rerank.py).     *)
(*                                                                             *)
(* Functions are the numbers 1..N, their corpus order. A ranked list holds no  *)
(* function twice. Weights and scores are integers: Scale is a common multiple *)
(* of every rrf_k + rank. Of an evidence entry, the relation and the places    *)
(* where the JSON shows the edge are left out: a call is followed both ways    *)
(* (relations callees and callers).                                            *)
(*                                                                             *)
(* Nothing here is RECURSIVE, and no list is folded: a sum is a recursive      *)
(* function and a sort counts what comes before, which proofs can expand.      *)
EXTENDS Integers, Sequences, FiniteSetsExt

CONSTANTS
    N,             \* functions of the corpus
    Corpora,       \* the calls a corpus may have
    FirstStage,    \* what the retrievers may answer to a query
    SeedK,         \* graph.seed_k
    MaxDepth,      \* graph.max_depth
    MaxNeighbors,  \* graph.max_neighbors_per_node
    MaxAdded,      \* graph.max_added
    PoolSize,      \* rerank.pool_size
    RrfK,          \* retrieval.rrf_k
    GraphWeight,   \* graph.graph_weight
    Scale

Nodes == 1..N

RankedItems == {l \in Seq(Nodes) : IsInjective(l)}
RankedList  == [items: RankedItems, weight: Nat]

ASSUME RetrievalAssumption ==
    /\ {N, SeedK, MaxDepth, MaxNeighbors, PoolSize, RrfK, Scale} \subseteq Nat \ {0}
    /\ {MaxAdded, GraphWeight} \subseteq Nat
    /\ \A r \in Nodes : Scale % (RrfK + r) = 0
    /\ Corpora \subseteq SUBSET (Nodes \X Nodes)
    /\ \A ls \in FirstStage : ls \in Seq(RankedList)

VARIABLES
    calls,        \* corpus: who calls whom
    lists,        \* the first-stage lists of the query
    phase,
    fused,        \* the ranking of the first fusion
    depth,        \* expand: depth,
    frontier,     \*   the nodes of frontier not yet followed,
    origins,      \*   the seeds its paths to each of them started from,
    node,         \*   the node being followed,
    pending,      \*   and its links not yet followed;
    hop,          \*   hop_of, with Unknown outside its domain,
    found,        \*   the candidates in discovery order,
    evidence,     \*   [seed, via, hop] for each candidate,
    next,         \*   next_frontier: its nodes
    nextOrigins,  \*   and their seeds
    ranking,      \* the ranking after graph expansion
    results       \* the ranking after reranking

expandVars == <<depth, frontier, origins, node, pending, hop, found, evidence, next, nextOrigins>>
searchVars == <<calls, lists, phase, fused, expandVars, ranking, results>>

-----------------------------------------------------------------------------
(* fusion.py *)

Appearances(x, ls) == {i \in DOMAIN ls : x \in Range(ls[i].items)}
RankIn(x, l) == CHOOSE r \in DOMAIN l : l[r] = x

\* What one list adds to the score of x.
Contribution(x, l) ==
    IF x \in Range(l.items) THEN l.weight * (Scale \div (RrfK + RankIn(x, l.items))) ELSE 0

Score(x, ls) ==
    LET sum[i \in 0..Len(ls)] == IF i = 0 THEN 0 ELSE sum[i - 1] + Contribution(x, ls[i])
    IN sum[Len(ls)]

BestRank(x, ls)  == Min({RankIn(x, ls[i].items) : i \in Appearances(x, ls)})
FirstList(x, ls) == Min(Appearances(x, ls))

\* Lexicographic order of two keys of the same length.
Precedes(k, m) == \E i \in DOMAIN k : k[i] < m[i] /\ \A j \in 1..(i - 1) : k[j] = m[j]

\* The pairs of S whose keys are in order, and S listed in the order R.
ByKey(S, key) == {p \in S \X S : Precedes(key[p[1]], key[p[2]])}
Sorted(S, R) ==
    [r \in 1..Cardinality(S) |->
       CHOOSE x \in S : Cardinality({y \in S : <<y, x>> \in R}) = r - 1]

Items(ls) == UNION {Range(ls[i].items) : i \in DOMAIN ls}

FusionKeys(ls) ==
    [x \in Items(ls) |-> <<-Score(x, ls), BestRank(x, ls), FirstList(x, ls), x>>]

rrf_fuse(ls) == LET key == FusionKeys(ls) IN Sorted(Items(ls), ByKey(Items(ls), key))

-----------------------------------------------------------------------------
(* graph.py *)

Unknown == -1

Callees(n) == {m \in Nodes \ {n} : <<n, m>> \in calls}
Callers(n) == {m \in Nodes \ {n} : <<m, n>> \in calls}

\* The first max_neighbors of a relation, in corpus order.
Cut(S) == {m \in S : Cardinality({k \in S : k < m}) < MaxNeighbors}

\* What is followed from n: relation by relation, each in corpus order.
Links(n) == ({1} \X Cut(Callees(n))) \cup ({2} \X Cut(Callers(n)))
Neighbours(n) == {link[2] : link \in Links(n)}

Smaller(a, b) == IF a < b THEN a ELSE b
SeedCount == Smaller(Len(fused), SeedK)
Seeds == {fused[r] : r \in 1..SeedCount}
SeedRank(s) == RankIn(s, fused)

Added == Cardinality({n \in Nodes : hop[n] > 0})

\* A candidate's hop is the depth of its first evidence.
HopOf(c) == Min({e.hop : e \in evidence[c]})
Supporters(c) == {e.seed : e \in evidence[c]}
BestSeedRank(c) == Min({SeedRank(o) : o \in Supporters(c)})

GraphKeys ==
    [c \in Range(found) |-> <<HopOf(c), BestSeedRank(c), -Cardinality(Supporters(c)), c>>]

order_for_fusion == LET key == GraphKeys IN Sorted(Range(found), ByKey(Range(found), key))

-----------------------------------------------------------------------------
SearchInit ==
    /\ calls \in Corpora
    /\ lists \in FirstStage
    /\ phase = "fuse"
    /\ fused = << >> /\ ranking = << >> /\ results = << >>
    /\ depth = 0 /\ frontier = << >> /\ node = 1 /\ pending = {}
    /\ hop = [n \in Nodes |-> Unknown]
    /\ found = << >> /\ next = << >>
    /\ evidence = [n \in Nodes |-> {}]
    /\ origins = [n \in Nodes |-> {}] /\ nextOrigins = [n \in Nodes |-> {}]

\* search: the lists are fused; with results, the top items seed the expansion.
Fuse ==
    /\ phase = "fuse"
    /\ fused' = rrf_fuse(lists)
    /\ IF fused' = << >>
         THEN /\ phase' = "rerank"
              /\ UNCHANGED <<depth, frontier, origins, hop>>
         ELSE /\ phase' = "expand"
              /\ depth' = 1
              /\ frontier' = SubSeq(fused', 1, SeedCount')
              /\ origins' = [n \in Nodes |-> IF n \in Seeds' THEN {n} ELSE {}]
              /\ hop' = [n \in Nodes |-> IF n \in Seeds' THEN 0 ELSE Unknown]
    /\ UNCHANGED <<calls, lists, node, pending, found, evidence, next, nextOrigins, ranking, results>>

\* An embedding or runtime failure of the first stage is the query's result.
FailFirstStage ==
    /\ phase = "fuse"
    /\ phase' = "failed"
    /\ UNCHANGED <<calls, lists, fused, expandVars, ranking, results>>

\* Mutant: the frontier is a stack.
FollowLast ==
    /\ phase = "expand" /\ pending = {} /\ frontier # << >>
    /\ node' = frontier[Len(frontier)]
    /\ frontier' = SubSeq(frontier, 1, Len(frontier) - 1)
    /\ pending' = Links(node')
    /\ UNCHANGED <<calls, lists, phase, fused, depth, origins, hop, found, evidence, next, nextOrigins,
                   ranking, results>>

\* expand: the next node of the frontier.
Follow ==
    /\ phase = "expand" /\ pending = {} /\ frontier # << >>
    /\ node' = Head(frontier)
    /\ frontier' = Tail(frontier)
    /\ pending' = Links(node')
    /\ UNCHANGED <<calls, lists, phase, fused, depth, origins, hop, found, evidence, next, nextOrigins,
                   ranking, results>>

\* The next link of the node, to the neighbour m, is followed.
Visiting(m) ==
    /\ phase = "expand"
    /\ \E link \in pending :
         /\ \A other \in pending \ {link} : Precedes(link, other)
         /\ link[2] = m
         /\ pending' = pending \ {link}
    /\ UNCHANGED <<calls, lists, phase, fused, depth, frontier, origins, node, ranking, results>>

\* Mutant: the seeds met again count against the cap.
IsSkippedCountingSeeds(m) ==
    CASE hop[m] = Unknown -> Len(found) >= MaxAdded
      [] hop[m] = 0       -> origins[node] \subseteq {m}
      [] OTHER            -> hop[m] # depth

\* A neighbour is passed over: the cap is reached, or it is a seed met from
\* itself alone, or it was found at an earlier depth.
IsSkipped(m) ==
    CASE hop[m] = Unknown -> Added >= MaxAdded
      [] hop[m] = 0       -> origins[node] \subseteq {m}
      [] OTHER            -> hop[m] # depth

PassOver(m) ==
    /\ Visiting(m)
    /\ IsSkipped(m)
    /\ UNCHANGED <<hop, found, evidence, next, nextOrigins>>

\* Every other seed that a path to the node started from supports m.
Support(m) ==
    evidence' = [evidence EXCEPT
      ![m] = @ \cup {[seed |-> o, via |-> node, hop |-> depth] : o \in origins[node] \ {m}}]

\* Mutant: the seeds of a second path are not handed on.
HandedOnFirst(m) ==
    nextOrigins' = [nextOrigins EXCEPT ![m] = IF @ = {} THEN origins[node] ELSE @]

\* m takes over the seeds of the node.
HandedOn(m) == nextOrigins' = [nextOrigins EXCEPT ![m] = @ \cup origins[node]]

FindNew(m) ==
    /\ Visiting(m)
    /\ ~IsSkipped(m) /\ hop[m] = Unknown
    /\ hop' = [hop EXCEPT ![m] = depth]
    /\ found' = Append(found, m)
    /\ next' = Append(next, m)
    /\ Support(m) /\ HandedOn(m)

\* A seed met from another seed is a candidate too, and is not followed again.
MeetSeed(m) ==
    /\ Visiting(m)
    /\ ~IsSkipped(m) /\ hop[m] = 0
    /\ found' = IF m \in Range(found) THEN found ELSE Append(found, m)
    /\ Support(m)
    /\ UNCHANGED <<hop, next, nextOrigins>>

\* One more path of this depth to a function found at this depth.
MeetAgain(m) ==
    /\ Visiting(m)
    /\ ~IsSkipped(m) /\ hop[m] = depth
    /\ Support(m) /\ HandedOn(m)
    /\ UNCHANGED <<hop, found, next>>

FrontierDone == phase = "expand" /\ pending = {} /\ frontier = << >>

\* Mutant: one depth too many.
DeepenOnceMore ==
    /\ FrontierDone
    /\ depth <= MaxDepth /\ next # << >>
    /\ depth' = depth + 1
    /\ frontier' = next /\ origins' = nextOrigins
    /\ next' = << >> /\ nextOrigins' = [n \in Nodes |-> {}]
    /\ UNCHANGED <<calls, lists, phase, fused, node, pending, hop, found, evidence, ranking, results>>

\* expand: the next depth, while there is one and it has nodes.
Deepen ==
    /\ FrontierDone
    /\ depth < MaxDepth /\ next # << >>
    /\ depth' = depth + 1
    /\ frontier' = next /\ origins' = nextOrigins
    /\ next' = << >> /\ nextOrigins' = [n \in Nodes |-> {}]
    /\ UNCHANGED <<calls, lists, phase, fused, node, pending, hop, found, evidence, ranking, results>>

GraphList == [items |-> order_for_fusion, weight |-> GraphWeight]

\* Mutant: one retriever's list is lost.
FusedWithFirst == rrf_fuse(<<lists[1], GraphList>>)

\* _expand: the original lists and the graph's list.
FusedAgain == rrf_fuse(Append(lists, GraphList))

\* _expand: the second fusion, once a depth found nothing new to follow.
FuseAgain ==
    /\ FrontierDone
    /\ depth = MaxDepth \/ next = << >>
    /\ phase' = "rerank"
    /\ ranking' = FusedAgain
    /\ UNCHANGED <<calls, lists, fused, expandVars, results>>

Pool == Smaller(Len(ranking), PoolSize)

\* The order the cross-encoder's scores give the pool: any.
PoolOrders == Injection(1..Pool, 1..Pool)
Reranked(p) == [i \in DOMAIN ranking |-> IF i <= Pool THEN ranking[p[i]] ELSE ranking[i]]

Rerank ==
    /\ phase = "rerank"
    /\ \E p \in PoolOrders : results' = Reranked(p)
    /\ phase' = "done"
    /\ UNCHANGED <<calls, lists, fused, expandVars, ranking>>

\* rerank.enabled is false, or the scorer raised RerankerError: the order stays.
RerankFails ==
    /\ phase = "rerank"
    /\ results' = ranking
    /\ phase' = "done"
    /\ UNCHANGED <<calls, lists, fused, expandVars, ranking>>

Visit(m) == PassOver(m) \/ FindNew(m) \/ MeetSeed(m) \/ MeetAgain(m)

SearchNext ==
    \/ Fuse \/ FailFirstStage
    \/ Follow \/ (\E m \in Nodes : Visit(m)) \/ Deepen \/ FuseAgain
    \/ Rerank \/ RerankFails

SearchSpec == SearchInit /\ [][SearchNext]_searchVars

-----------------------------------------------------------------------------
(* Properties *)

Evidence == [seed: Seeds, via: Nodes, hop: 1..MaxDepth]

SearchTypeOK ==
    /\ calls \subseteq Nodes \X Nodes
    /\ lists \in Seq(RankedList)
    /\ phase \in {"fuse", "expand", "rerank", "done", "failed"}
    /\ depth \in 0..MaxDepth
    /\ {fused, ranking, results, found, frontier, next} \subseteq RankedItems
    /\ node \in Nodes /\ pending \subseteq {1, 2} \X Nodes
    /\ hop \in [Nodes -> Unknown..MaxDepth]
    /\ {origins, nextOrigins} \subseteq [Nodes -> SUBSET Seeds]
    /\ evidence \in [Nodes -> SUBSET Evidence]

\* Reference: the functions the usable edges reach from the seeds in at most d
\* steps, and the ends of the walks of exactly d steps from the seed o that pass
\* through added functions only.
Step(S) == UNION {Neighbours(n) : n \in S}
Within ==
    LET w[d \in 0..MaxDepth] == IF d = 0 THEN Seeds ELSE w[d - 1] \cup Step(w[d - 1]) IN w
Through(S) == {n \in S : hop[n] > 0}
WalksFrom(o) ==
    LET w[d \in 0..MaxDepth] ==
          IF d = 0 THEN {o} ELSE Step(IF d = 1 THEN w[0] ELSE Through(w[d - 1]))
    IN w

\* What the traversal adds is added at its distance from the nearest seed,
\* whatever the caps cut; never more than max_added functions are added, however
\* many frontier nodes offer new ones; and as long as the cap is not reached
\* nothing within the depths completed is missing (graph.py:198-217: the cap, the
\* hop test and the frontier each see only part of the graph).
HopIsDistance ==
    /\ Added <= MaxAdded
    /\ \A n \in Nodes :
        /\ hop[n] > 0 => n \in Within[hop[n]] /\ n \notin Within[hop[n] - 1]
        /\ phase \in {"rerank", "done"} /\ fused # << >> /\ Added < MaxAdded
           => (n \in Within[MaxDepth] <=> hop[n] # Unknown)

\* The support of a candidate is exactly the set of the other seeds that reach it
\* at its hop: every evidence entry ends a real walk from its seed, and no seed's
\* walk is forgotten because another seed was there first or because the cap was
\* reached in between (graph.py:206-219).
EvidenceIsSupport ==
    phase \in {"rerank", "done"} => \A n \in Nodes :
        /\ \A e \in evidence[n] :
             /\ e.seed # n /\ n \in Neighbours(e.via)
             /\ e.via \in WalksFrom(e.seed)[e.hop - 1] /\ n \in WalksFrom(e.seed)[e.hop]
        /\ hop[n] > 0 => Supporters(n) = {o \in Seeds : n \in WalksFrom(o)[hop[n]]}

\* At one hop, the functions of better-ranked seeds are found first, so that the
\* cap cuts the neighbours of the worst seeds (graph.py order of the frontier).
BetterSeedsFirst ==
    phase \in {"rerank", "done"} =>
        \A i, j \in DOMAIN found :
            i < j /\ hop[found[i]] = hop[found[j]] /\ hop[found[i]] > 0
              => BestSeedRank(found[i]) <= BestSeedRank(found[j])

\* Graph evidence lifts what it supports and never reorders the rest: a function
\* the graph does not support overtakes nobody ("without flattening the
\* ranking", pipeline.py:294-297).
Before(l, x, y) == RankIn(x, l) < RankIn(y, l)
GraphOnlyLifts ==
    phase \in {"rerank", "done"} =>
        \A x, y \in Range(fused) :
            Before(fused, x, y) /\ y \notin Range(found) => Before(ranking, x, y)
=============================================================================
