------------------------------ MODULE Ranking -------------------------------
(***************************************************************************)
(* The arithmetic of a search: reciprocal rank fusion, the candidates of   *)
(* the cross-encoder, the scores of the router, the order of the packer    *)
(* and the trimming of a response (retrieve/fusion.py, retriever.py,       *)
(* pack.py, mcp_server/server.py).                                         *)
(*                                                                         *)
(* Scores are integers: a router score of 1.0 is 1000, and the weight of a *)
(* rank is Scale / (RrfK + rank) with a Scale every such sum divides, so   *)
(* that nothing is rounded.  A ranking is a sequence of chunks, best first;*)
(* chunks are numbered in the order of their ids.                          *)
(***************************************************************************)
EXTENDS Integers, FiniteSets, Sequences, SequencesExt

CONSTANTS
  RrfK, Scale,
  ChannelHead,     \* rerank_channel_head
  RerankTop,       \* rerank_top
  Fanout,          \* router_token_fanout
  AmbiguousDefs    \* router_ambiguous_defs

ASSUME RankingAssumption ==
  /\ RrfK \in Nat \ {0} /\ ChannelHead \in Nat \ {0} /\ RerankTop \in Nat \ {0}
  /\ Fanout \in Nat \ {0} /\ AmbiguousDefs \in Nat \ {0}
  /\ Scale \in Nat \ {0} /\ \A r \in 1..10 : Scale % (10 * (RrfK + r)) = 0

Prefix(s, n) == SubSeq(s, 1, Min({n, Len(s)}))

\* The members of s at some of its positions, in their order.
Select(s, at) ==
  [k \in 1..Cardinality(at) |-> s[CHOOSE i \in at : Cardinality({j \in at : j < i}) = k - 1]]

\* s without what it has already listed.
Distinct(s) == Select(s, {i \in DOMAIN s : \A j \in 1..(i - 1) : s[j] # s[i]})

\* sorted(): S so that nothing comes after what it is ahead of; ahead is the set
\* of pairs <<x, y>> of an x ahead of a y.  Ties stay as they were.
Sorted(S, ahead) ==
  LET s == SetToSeq(S)
      Before(i, j) == <<s[i], s[j]>> \in ahead \/ (i < j /\ <<s[j], s[i]>> \notin ahead)
  IN  [k \in DOMAIN s |-> s[CHOOSE i \in DOMAIN s : Cardinality({j \in DOMAIN s : Before(j, i)}) = k - 1]]

\* Tuples of integers, of one length.
Lex(a, b) == \E i \in DOMAIN a : a[i] < b[i] /\ \A j \in 1..(i - 1) : a[j] = b[j]

\* sorted(key = ...)
SortedBy(S, key) == Sorted(S, {p \in S \X S : Lex(key[p[1]], key[p[2]])})

\* The place of d, from 1; 0 where it is not ranked.
RankIn(list, d) == SelectInSeq(list, LAMBDA e : e = d)

-----------------------------------------------------------------------------
(* Fusion and the cross-encoder's pool *)

\* What a list makes of d: nothing unless it ranks it.
Share(list, d) == IF RankIn(list, d) = 0 THEN 0 ELSE Scale \div (RrfK + RankIn(list, d))

\* rrf_fuse of three lists: the score of every chunk some list ranks.
Fuse(lists, weights) ==
  [d \in UNION {ToSet(lists[i]) : i \in 1..3} |->
     weights[1] * Share(lists[1], d) + weights[2] * Share(lists[2], d) + weights[3] * Share(lists[3], d)]

\* Best first, ties by id.
Ordered(scores) == SortedBy(DOMAIN scores, [c \in DOMAIN scores |-> <<-scores[c], c>>])

\* Mutant: the candidates are the first of the fused order.
PoolOfFused(bm25, vector, symbols) ==
  Prefix(Ordered(Fuse(<<bm25, vector, symbols>>, <<1, 1, 1>>)), RerankTop)

\* What the cross-encoder reads: the heads of the channels, then fused order.
Pool(bm25, vector, symbols) ==
  Prefix(Distinct(Prefix(vector, ChannelHead) \o Prefix(bm25, ChannelHead)
                  \o Prefix(symbols, Max({1, ChannelHead \div 2}))
                  \o Ordered(Fuse(<<bm25, vector, symbols>>, <<1, 1, 1>>))), RerankTop)

\* The cross-encoder's ranking of the pool, fused with the vector ranking.
Blend(reranked, vector, weight) == Restrict(Fuse(<<reranked, vector, <<>> >>, <<1, weight, 0>>), ToSet(reranked))

Discounted(score) == (score * 6) \div 10

-----------------------------------------------------------------------------
(* The router *)

\* The tokens that have definitions, by their place in the query: specific ones
\* first, the rarest first.
TokenOrder(defs) ==
  LET found == {t \in DOMAIN defs : defs[t] # <<>>}
  IN  SortedBy(found, [t \in found |-> <<IF Len(defs[t]) > AmbiguousDefs THEN 1 ELSE 0, Len(defs[t]), t>>])

\* From 0, both.
RouterScore(tier, rank) == Max({50, Max({100, 1000 - 120 * tier}) - 40 * rank})

-----------------------------------------------------------------------------
(* Packing *)

Cost(r) == Max({1, r.cost})

\* The packer's order: usefulness per token, then usefulness, then id.
PackOrder(results) ==
  LET Ahead(a, b) ==
        LET x == a.score * Cost(b)
            y == b.score * Cost(a)
        IN  x > y \/ (x = y /\ Lex(<<-a.score, a.chunk>>, <<-b.score, b.chunk>>))
  IN  Sorted(results, {p \in results \X results : Ahead(p[1], p[2])})

Overlap(a, b) == a.blob = b.blob /\ a.from < b.to /\ b.from < a.to

\* Breadcrumbs: "" is none.
SameCrumb(a, b) == a.crumb # "" /\ a.crumb = b.crumb

\* pack_results takes r into what it has packed at the cost of `total`.
Packable(r, packed, total, budget) ==
  /\ total + Cost(r) <= budget
  /\ \A p \in packed : ~SameCrumb(r, p) /\ ~Overlap(r, p)

\* The order the results are returned in.
Returned(packed) == SortedBy(packed, [r \in packed |-> <<-r.score, r.chunk>>])

\* textutil.estimate_tokens
EstimateTokens(chars) == Max({1, (chars + 3) \div 4})
=============================================================================
