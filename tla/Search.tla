------------------------------- MODULE Search -------------------------------
(***************************************************************************)
(* One call of search_code, get_definition, get_callers, get_references or *)
(* expand at a time, read by read, while syncs commit in between           *)
(* (retrieve/retriever.py, the queries of store/sqlite_store.py,           *)
(* mcp_server/server.py).                                                  *)
(*                                                                         *)
(* A sync is what a reader sees of it, its transactions; IndexSync has the *)
(* rest.  Full-text, vector and cross-encoder orders are inputs: any of a  *)
(* set of orders of all chunks, of which a channel returns what its query  *)
(* selects.  Every stored chunk has its vector, and a read finds the table *)
(* of the vectors there or not: EmbedPass has the pass.  A read sees the   *)
(* last commit, as it does while no recording has failed: ServerSession has*)
(* that.  The cross-encoder, its blend with the vector order and expansion *)
(* are on, which is the default.                                           *)
(***************************************************************************)
EXTENDS Ranking

CONSTANTS
  Trees,       \* the sets of blobs syncs index
  Chunk,       \* Chunk[c]: blob, from, to, crumb, names, words, cost, row, body
  Graph,       \* Graph[tree]: the symbols and edges of a sync of it
  Queries,     \* tool, tokens, words, terms, affinity, limit, budget, code
  Orders,      \* rankings of all chunks
  TextTop, VectorTop, SymbolTop, ExpansionTop,
  OverFetch,         \* the 4 of k = limit * 4
  SmallIndex,        \* SMALL_INDEX_ACTIVE_BLOBS
  Envelopes,         \* characters of a response without rows
  TruncatedField,    \* characters of its 'truncated' field
  MaxCommits,        \* bound: transactions of syncs during one call
  None

Chunks == DOMAIN Chunk
Blobs == {Chunk[c].blob : c \in Chunks}

ASSUME SearchAssumption ==
  /\ \A t \in Trees : t \subseteq Blobs
  /\ \A o \in Orders : o \in Seq(Chunks) /\ ToSet(o) = Chunks /\ Len(o) = Cardinality(Chunks)
  /\ {OverFetch, VectorTop, TruncatedField} \subseteq Nat \ {0}
  /\ {TextTop, SymbolTop, ExpansionTop} \subseteq Nat
  /\ None \notin Queries /\ None \notin Blobs

\* The columns of the tables and the numbers of a query.
ASSUME SchemaAssumption ==
  /\ IsFiniteSet(Chunks) /\ Chunks \subseteq Nat
  /\ \A c \in Chunks : /\ {Chunk[c].from, Chunk[c].to, Chunk[c].cost} \subseteq Int
                       /\ Chunk[c].names \in Seq(ToSet(Chunk[c].names))
  /\ \A t \in Trees :
       /\ IsFiniteSet(Graph[t].symbols) /\ IsFiniteSet(Graph[t].edges)
       /\ \A n \in Graph[t].symbols :
            /\ {n.blob, n.from, n.to, n.path} \subseteq Int
            /\ \A term \in DOMAIN n.like : n.like[term] \in Int
            /\ \A q \in Queries : q.affinity[n.path] \in Int
       /\ \A e \in Graph[t].edges : \A i \in 1..3 : e.src[i] \in Int /\ e.dst[i] \in Int
  /\ \A q \in Queries : {q.limit, q.budget} \subseteq Nat

VARIABLES
  known, active, chunked, symbols, edges,   \* the index; blobs are known, then active
  sync, target, was, adding,                \* the running sync: where, of what
  weight,                   \* the server's blend weight
  stage, query,
  defs,                     \* per_token, as far as it has been read
  text, distance, vector, symbolic,         \* the channels; distance: of vec_chunks
  items,                    \* what is left of the loop over definitions or hits
  base, plan, links, around,     \* _neighbors(base.id): queries and edges left, found
  counted,                  \* edges _incoming has counted
  hits,                     \* results, in the order they were appended
  todo, packed, total,      \* the packer
  reply,
  commits,                  \* transactions since the call began
  wasActive, wasEdge        \* history: active at some moment of the call; edges too

index == <<known, active, chunked, symbols, edges, sync, target, was, adding>>
channels == <<text, distance, vector, symbolic>>
walk == <<base, plan, links, around, counted>>
packer == <<todo, packed, total, reply>>
history == <<commits, wasActive, wasEdge>>
vars == <<index, weight, stage, query, defs, channels, items, walk, hits, packer, history>>

Id(n) == <<n.blob, n.from, n.to, n.symbol>>
SymbolOf(id) == id[4]

-----------------------------------------------------------------------------
(* Queries of the store.  Those for symbols and text join active blobs,    *)
(* those for edges and chunks do not.                                      *)

\* get_definitions, ordered by path and offset
Definitions(name) ==
  LET found == {n \in symbols : n.symbol = name /\ n.blob \in active}
  IN  SortedBy(found, [n \in found |-> <<n.path, n.from>>])

\* symbol_search: like[term] is the sort key of a name that contains the term.
SymbolSearch(term) ==
  LET found == {n \in symbols : term \in DOMAIN n.like /\ n.blob \in active}
  IN  Prefix(SortedBy(found, [n \in found |-> <<n.like[term], n.path>>]), SymbolTop)

\* get_edges
EdgesAt(id, kind, incoming) ==
  {e \in edges : e.kind = kind /\ id = IF incoming THEN e.dst ELSE e.src}

StoredChunks == {c \in Chunks : Chunk[c].blob \in chunked}
ActiveChunks == {c \in StoredChunks : Chunk[c].blob \in active}

\* What an order of all chunks makes of the chunks in S.
Shown(order, S) == Select(order, {i \in DOMAIN order : order[i] \in S})

\* fts_search: chunks with any of the words
TextSearch(order, words) ==
  Prefix(Shown(order, {c \in ActiveChunks : Chunk[c].words \cap words # {}}), TextTop)

\* _vector_search_bruteforce over some chunks
BruteForce(order, S) == Prefix(Shown(order, S \cap ActiveChunks), VectorTop)

\* _chunk_for_symbol: the chunk that overlaps n most, the first of equals;
\* {} where there is none.
ChunkFor(n) ==
  LET Shared(c) == Min({Chunk[c].to, n.to}) - Max({Chunk[c].from, n.from})
      over == {c \in StoredChunks : Chunk[c].blob = n.blob /\ Shared(c) > 0}
      Before(c, d) == \/ Shared(c) > Shared(d)
                      \/ Shared(c) = Shared(d) /\ Chunk[c].from < Chunk[d].from
  IN  {c \in over : \A d \in over \ {c} : Before(c, d)}

\* A result; via is what its rationale says: the edge it was found by, from the
\* definition of that id to the one of the other.
Result(c, score, source, via) ==
  [chunk |-> c, score |-> score, source |-> source, via |-> via,
   blob |-> Chunk[c].blob, from |-> Chunk[c].from, to |-> Chunk[c].to,
   crumb |-> Chunk[c].crumb, cost |-> Chunk[c].cost]

HitChunks == {hits[i].chunk : i \in DOMAIN hits}

Init ==
  /\ \E t \in Trees : /\ known = t /\ active = t /\ chunked = t
                      /\ symbols = Graph[t].symbols /\ edges = Graph[t].edges
  /\ sync = "none" /\ target = {} /\ was = {} /\ adding = None
  /\ weight = IF Cardinality(active) <= SmallIndex THEN 4 ELSE 1
  /\ stage = "idle" /\ query = None
  /\ defs = <<>> /\ text = <<>> /\ distance = <<>> /\ vector = <<>> /\ symbolic = <<>>
  /\ items = <<>> /\ base = None /\ plan = <<>> /\ links = {} /\ around = {}
  /\ counted = {} /\ hits = <<>> /\ todo = <<>> /\ packed = {} /\ total = 0 /\ reply = None
  /\ commits = 0 /\ wasActive = {} /\ wasEdge = {}

-----------------------------------------------------------------------------
(* The sync, transaction by transaction *)

\* The call's history sees the index the transaction leaves.  vec_dim is not a
\* sync's, and packing, trimming and answering read nothing, so a transaction
\* before one of them may as well come after it.
Commit ==
  /\ stage \notin {"vector", "pack", "trim", "answered"}
  /\ \/ stage = "idle" /\ UNCHANGED history
     \/ /\ stage # "idle" /\ commits < MaxCommits
        /\ commits' = commits + 1
        /\ wasActive' = wasActive \cup active' /\ wasEdge' = wasEdge \cup edges'
  /\ UNCHANGED <<weight, stage, query, defs, channels, items, walk, hits, packer>>

SyncGoto(from, to) == sync = from /\ sync' = to

\* A sync reads the tree and the active blobs.
StartSync(t) ==
  /\ SyncGoto("none", "blobs")
  /\ target' = t /\ was' = active
  /\ UNCHANGED <<known, active, chunked, symbols, edges, adding>>
  /\ Commit

AddBlob(b) ==
  /\ SyncGoto("blobs", "chunks")
  /\ b \in target \ known
  /\ known' = known \cup {b} /\ active' = active \cup {b} /\ adding' = b
  /\ UNCHANGED <<chunked, symbols, edges, target, was>>
  /\ Commit

AddChunks ==
  /\ SyncGoto("chunks", "blobs")
  /\ chunked' = chunked \cup {adding} /\ adding' = None
  /\ UNCHANGED <<known, active, symbols, edges, target, was>>
  /\ Commit

\* Mutant: deactivation deletes the row.
DeactivateDeletes ==
  /\ SyncGoto("blobs", "reactivate")
  /\ target \subseteq known
  /\ known' = known \ (was \ target) /\ active' = active \ (was \ target)
  /\ UNCHANGED <<chunked, symbols, edges, target, was, adding>>
  /\ Commit

Deactivate ==
  /\ SyncGoto("blobs", "reactivate")
  /\ target \subseteq known
  /\ active' = active \ (was \ target)
  /\ UNCHANGED <<known, chunked, symbols, edges, target, was, adding>>
  /\ Commit

Reactivate ==
  /\ SyncGoto("reactivate", "wipe")
  /\ active' = active \cup target
  /\ UNCHANGED <<known, chunked, symbols, edges, target, was, adding>>
  /\ Commit

WipeGraph ==
  /\ SyncGoto("wipe", "symbols")
  /\ symbols' = {} /\ edges' = {}
  /\ UNCHANGED <<known, active, chunked, target, was, adding>>
  /\ Commit

AddSymbols ==
  /\ SyncGoto("symbols", "edges")
  /\ symbols' = Graph[target].symbols
  /\ UNCHANGED <<known, active, chunked, edges, target, was, adding>>
  /\ Commit

AddEdges ==
  /\ SyncGoto("edges", "none")
  /\ edges' = Graph[target].edges
  /\ target' = {} /\ was' = {}
  /\ UNCHANGED <<known, active, chunked, symbols, adding>>
  /\ Commit

\* The sync dies between two transactions.  To a call, a dead sync is one that
\* does nothing more: it need not die during one.
CrashSync ==
  /\ sync # "none" /\ stage = "idle"
  /\ sync' = "none" /\ target' = {} /\ was' = {} /\ adding' = None
  /\ UNCHANGED <<known, active, chunked, symbols, edges>>
  /\ Commit

-----------------------------------------------------------------------------
(* The call: the router *)

Goto(from, to) == stage = from /\ stage' = to

Call == UNCHANGED <<index, weight, query, history>>

\* A handle to expand is one an earlier answer gave: of a stored chunk.
Ask(q) ==
  /\ stage = "idle"
  /\ q.tool = "expand" => q.tokens[1] \in StoredChunks
  /\ stage' = CASE q.tool = "search" -> "tokens"
               [] q.tool = "expand" -> "handle"
               [] OTHER -> "symbol"
  /\ query' = q
  /\ wasActive' = active /\ wasEdge' = edges
  /\ UNCHANGED <<index, commits, weight, defs, channels, items, walk, hits, packer>>

\* get_definitions of the next identifier-like token
LookUpToken ==
  /\ Goto("tokens", "tokens")
  /\ Len(defs) < Len(query.tokens)
  /\ defs' = Append(defs, Definitions(query.tokens[Len(defs) + 1]))
  /\ UNCHANGED <<channels, items, walk, hits, packer>> /\ Call

\* What one token contributes, best first: definitions in files the query names.
Contribution(ds) ==
  LET order == SortedBy(DOMAIN ds, [i \in DOMAIN ds |-> <<-query.affinity[ds[i].path], i>>])
  IN  Prefix([i \in DOMAIN order |-> ds[order[i]]], Fanout)

\* The definitions in the router's order, with their scores.
Route ==
  /\ Goto("tokens", "define")
  /\ Len(defs) = Len(query.tokens)
  /\ LET order == TokenOrder(defs)
         tiers == [t \in DOMAIN order |-> Contribution(defs[order[t]])]
         places == UNION {{t} \X DOMAIN tiers[t] : t \in DOMAIN tiers}
         listed == SortedBy(places, [x \in places |-> x])
     IN  items' = [k \in DOMAIN listed |-> LET t == listed[k][1]
                                               i == listed[k][2]
                                           IN  [node |-> tiers[t][i], score |-> RouterScore(t - 1, i - 1)]]
  /\ UNCHANGED <<defs, channels, walk, hits, packer>> /\ Call

Walked == plan = <<>> /\ links = {} /\ around = {}

\* _neighbors: its four queries
Plans == <<[rank |-> 0, kind |-> "calls", incoming |-> TRUE],
           [rank |-> 1, kind |-> "calls", incoming |-> FALSE],
           [rank |-> 2, kind |-> "imports", incoming |-> TRUE],
           [rank |-> 3, kind |-> "references", incoming |-> TRUE]>>

Visit(n, score) == base' = [id |-> Id(n), score |-> score] /\ plan' = Plans

\* The next definition, unless its chunk has been found already.
TakeDefinition ==
  /\ Goto("define", "define")
  /\ items # <<>> /\ Walked
  /\ LET d == items[1]
         new == ChunkFor(d.node) \ HitChunks
     IN  IF new = {} THEN UNCHANGED <<hits, base, plan>>
         ELSE /\ \E c \in new : hits' = Append(hits, Result(c, d.score, "symbol", None))
              /\ Visit(d.node, d.score)
  /\ items' = Tail(items)
  /\ UNCHANGED <<defs, channels, links, around, counted, packer>> /\ Call

\* The router has the answer, or found nothing and leaves it to the channels.
Routed ==
  /\ stage = "define" /\ items = <<>> /\ Walked
  /\ stage' = IF hits = <<>> THEN "text" ELSE "pack"
  /\ todo' = PackOrder(ToSet(hits))
  /\ base' = None
  /\ UNCHANGED <<defs, channels, items, plan, links, around, counted, hits, packed, total, reply>> /\ Call

-----------------------------------------------------------------------------
(* The neighbours of a definition *)

ReadEdges ==
  /\ stage \in {"define", "expand"}
  /\ plan # <<>> /\ links = {}
  /\ links' = {[edge |-> e, rank |-> plan[1].rank, of |-> base.id,
                id |-> IF plan[1].incoming THEN e.src ELSE e.dst]
                 : e \in EdgesAt(base.id, plan[1].kind, plan[1].incoming)}
  /\ plan' = Tail(plan)
  /\ UNCHANGED <<stage, defs, channels, items, base, around, counted, hits, packer>> /\ Call

\* Ids compare by blob, then offsets.
Place(id) == <<id[1], id[2], id[3]>>

FirstLink == SortedBy(links, [l \in links |-> Place(l.id)])[1]

\* Mutant: the first definition of the name.
ResolveNeighborByName ==
  /\ stage \in {"define", "expand"}
  /\ links # {}
  /\ LET l == FirstLink
         ns == Definitions(SymbolOf(l.id))
     IN  /\ links' = links \ {l}
         /\ around' = IF ns = <<>> THEN around
                      ELSE around \cup {[node |-> ns[1], rank |-> l.rank,
                                         via |-> [edge |-> l.edge, of |-> l.of, id |-> Id(ns[1])]]}
  /\ UNCHANGED <<stage, defs, channels, items, base, plan, counted, hits, packer>> /\ Call

\* The definition of the edge's other end that has its id, if it is active.
ResolveNeighbor ==
  /\ stage \in {"define", "expand"}
  /\ links # {}
  /\ LET l == FirstLink
         ns == {n \in ToSet(Definitions(SymbolOf(l.id))) : Id(n) = l.id}
     IN  /\ links' = links \ {l}
         /\ around' = around \cup {[node |-> n, rank |-> l.rank,
                                    via |-> [edge |-> l.edge, of |-> l.of, id |-> Id(n)]] : n \in ns}
  /\ UNCHANGED <<stage, defs, channels, items, base, plan, counted, hits, packer>> /\ Call

\* The next neighbour, callers first, unless its chunk has been found already.
TakeNeighbor ==
  /\ stage \in {"define", "expand"}
  /\ plan = <<>> /\ links = {} /\ around # {}
  /\ LET m == SortedBy(around, [m \in around |-> <<m.rank>> \o Place(Id(m.node))])[1]
     IN  /\ around' = around \ {m}
         /\ hits' = hits \o SetToSeq({Result(c, Discounted(base.score), "expansion", m.via)
                                       : c \in ChunkFor(m.node) \ HitChunks})
  /\ UNCHANGED <<stage, defs, channels, items, base, plan, links, counted, packer>> /\ Call

-----------------------------------------------------------------------------
(* The channels *)

SearchText(o) ==
  /\ Goto("text", "vector")
  /\ text' = TextSearch(o, query.words)
  /\ UNCHANGED <<defs, distance, vector, symbolic, items, walk, hits, packer>> /\ Call

\* vector_search reads vec_dim first: with vec0 and a pinned dimension it is a
\* KNN query, else one statement over all vectors.
ReadVecDim ==
  /\ Goto("vector", "knn") \/ Goto("vector", "scan")
  /\ UNCHANGED <<defs, channels, items, walk, hits, packer>> /\ Call

\* The statement over all vectors joins the active blobs.
ScanVectors(o) ==
  /\ Goto("scan", "symbols")
  /\ vector' = BruteForce(o, StoredChunks)
  /\ plan' = query.terms
  /\ UNCHANGED <<defs, text, distance, symbolic, items, base, links, around, counted, hits, packer>> /\ Call

\* The KNN query reads the vectors, of inactive blobs too
FetchVectors(o) ==
  /\ Goto("knn", "filter")
  /\ distance' = Shown(o, StoredChunks)
  /\ UNCHANGED <<defs, text, vector, symbolic, items, walk, hits, packer>> /\ Call

\* Mutant: as many rows are fetched as are wanted.
FilterVectorsTight ==
  /\ Goto("filter", "symbols")
  /\ vector' = Prefix(Shown(Prefix(distance, VectorTop), ActiveChunks), VectorTop)
  /\ plan' = query.terms /\ distance' = <<>>
  /\ UNCHANGED <<defs, text, symbolic, items, base, links, around, counted, hits, packer>> /\ Call

\* and another one which of the nearest are active.
FilterVectors ==
  /\ Goto("filter", "symbols")
  /\ vector' = Prefix(Shown(Prefix(distance, OverFetch * VectorTop), ActiveChunks), VectorTop)
  /\ plan' = query.terms /\ distance' = <<>>
  /\ UNCHANGED <<defs, text, symbolic, items, base, links, around, counted, hits, packer>> /\ Call

\* symbol_search of the next term; plan holds the terms there are.
SearchTerm ==
  /\ Goto("symbols", "symbols")
  /\ items = <<>> /\ plan # <<>>
  /\ items' = SymbolSearch(plan[1]) /\ plan' = Tail(plan)
  /\ UNCHANGED <<defs, channels, base, links, around, counted, hits, packer>> /\ Call

TakeMatch ==
  /\ Goto("symbols", "symbols")
  /\ items # <<>>
  /\ items' = Tail(items)
  /\ symbolic' = symbolic \o SetToSeq(ChunkFor(items[1]) \ ToSet(symbolic))
  /\ UNCHANGED <<defs, text, distance, vector, walk, hits, packer>> /\ Call

\* The cross-encoder's order of the pool, blended; chunks once stored stay.
Rerank(o) ==
  /\ Goto("symbols", "expand")
  /\ items = <<>> /\ plan = <<>>
  /\ LET symbolTop == Prefix(symbolic, SymbolTop)
         pool == Pool(text, vector, symbolTop)
         scores == Blend(Shown(o, ToSet(pool)), vector, weight)
         order == Ordered(scores)
         Source(c) == IF Contains(symbolTop, c) THEN "symbol" ELSE IF Contains(text, c) THEN "bm25" ELSE "vector"
     IN  /\ hits' = [i \in DOMAIN order |-> Result(order[i], scores[order[i]], Source(order[i]), None)]
         /\ symbolic' = symbolTop
         /\ items' = [i \in DOMAIN Prefix(order, ExpansionTop) |->
                        [chunk |-> order[i], score |-> scores[order[i]],
                         names |-> Chunk[order[i]].names, nodes |-> <<>>]]
  /\ UNCHANGED <<defs, text, distance, vector, walk, packer>> /\ Call

\* _symbols_in_chunk: the definitions of the next name of the breadcrumb
ReadName ==
  /\ Goto("expand", "expand")
  /\ items # <<>> /\ Walked /\ items[1].names # <<>>
  /\ LET i == items[1]
         found == Definitions(i.names[1])
         InChunk(n) == n.blob = Chunk[i.chunk].blob /\ n.from < Chunk[i.chunk].to /\ Chunk[i.chunk].from < n.to
     IN  items' = [items EXCEPT ![1].names = Tail(@),
                                ![1].nodes = @ \o Select(found, {k \in DOMAIN found : InChunk(found[k])})]
  /\ UNCHANGED <<defs, channels, walk, hits, packer>> /\ Call

VisitNode ==
  /\ Goto("expand", "expand")
  /\ items # <<>> /\ Walked /\ items[1].names = <<>> /\ items[1].nodes # <<>>
  /\ Visit(items[1].nodes[1], items[1].score)
  /\ items' = [items EXCEPT ![1].nodes = Tail(@)]
  /\ UNCHANGED <<defs, channels, links, around, counted, hits, packer>> /\ Call

LeaveChunk ==
  /\ Goto("expand", "expand")
  /\ items # <<>> /\ Walked /\ items[1].names = <<>> /\ items[1].nodes = <<>>
  /\ items' = Tail(items)
  /\ UNCHANGED <<defs, channels, walk, hits, packer>> /\ Call

Expanded ==
  /\ Goto("expand", "pack")
  /\ items = <<>> /\ Walked
  /\ todo' = PackOrder(ToSet(hits))
  /\ base' = None
  /\ UNCHANGED <<defs, channels, items, plan, links, around, counted, hits, packed, total, reply>> /\ Call

-----------------------------------------------------------------------------
(* get_definition, get_callers, get_references, expand *)

ListDefinitions ==
  /\ Goto("symbol", "sources")
  /\ query.tool = "definition"
  /\ items' = LET ds == Definitions(query.tokens[1])
              IN  [r \in DOMAIN ds |-> [node |-> ds[r], via |-> None, score |-> 1000 - 50 * (r - 1)]]
  /\ UNCHANGED <<defs, channels, walk, hits, packer>> /\ Call

\* _incoming
ReadDefinitions ==
  /\ Goto("symbol", "counting")
  /\ query.tool \in {"callers", "references"}
  /\ items' = Definitions(query.tokens[1])
  /\ defs' = <<items'>>
  /\ UNCHANGED <<channels, walk, hits, packer>> /\ Call

ReadIncoming ==
  /\ Goto("counting", "counting")
  /\ items # <<>> /\ links = {}
  /\ LET in == EdgesAt(Id(items[1]), IF query.tool = "callers" THEN "calls" ELSE "references", TRUE)
     IN  /\ links' = {[edge |-> e, rank |-> 0, of |-> Id(items[1]), id |-> e.src] : e \in in}
         /\ counted' = counted \cup in
  /\ items' = Tail(items)
  /\ UNCHANGED <<defs, channels, base, plan, around, hits, packer>> /\ Call

\* The definition an edge comes from, unless it has been found.
ResolveSource ==
  /\ Goto("counting", "counting")
  /\ links # {}
  /\ LET l == FirstLink
         ns == {n \in ToSet(Definitions(SymbolOf(l.id))) : Id(n) = l.id}
     IN  /\ links' = links \ {l}
         /\ around' = IF \E m \in around : Id(m.node) = l.id THEN around
                      ELSE around \cup {[node |-> n, via |-> [edge |-> l.edge, of |-> l.of, id |-> Id(n)]]
                                         : n \in ns}
  /\ UNCHANGED <<defs, channels, items, base, plan, counted, hits, packer>> /\ Call

\* Sources in the package of a definition first, then those with most edges.
RankSources ==
  /\ Goto("counting", "sources")
  /\ items = <<>> /\ links = {}
  /\ LET packages == {defs[1][i].dir : i \in DOMAIN defs[1]}
         Far(m) == IF m.node.dir \in packages THEN 0 ELSE 1
         Count(m) == Cardinality({e \in counted : e.src = Id(m.node)})
         key == [m \in around |-> <<Far(m), -Count(m)>> \o Place(Id(m.node))]
         order == Prefix(SortedBy(around, key), query.limit)
     IN  items' = [r \in DOMAIN order |-> [node |-> order[r].node, via |-> order[r].via,
                                           score |-> 1000 - 30 * (r - 1)]]
  /\ around' = {} /\ counted' = {}
  /\ UNCHANGED <<defs, channels, base, plan, links, hits, packer>> /\ Call

TakeSource ==
  /\ Goto("sources", "sources")
  /\ items # <<>>
  /\ LET m == items[1]
     IN  hits' = hits \o SetToSeq({Result(c, m.score, "symbol", m.via) : c \in ChunkFor(m.node)})
  /\ items' = Tail(items)
  /\ UNCHANGED <<defs, channels, walk, packer>> /\ Call

\* These tools return every row, whatever its length.
AnswerRows ==
  /\ Goto("sources", "answered")
  /\ items = <<>>
  /\ reply' = [rows |-> hits, envelope |-> 0, truncated |-> 0]
  /\ UNCHANGED <<defs, channels, items, walk, hits, todo, packed, total>> /\ Call

\* The chunk of a handle, of an inactive blob too.
Expand ==
  /\ Goto("handle", "answered")
  /\ reply' = [rows |-> IF query.tokens[1] \in StoredChunks
                       THEN <<Result(query.tokens[1], 1000, "expansion", None)>> ELSE <<>>,
               envelope |-> 0, truncated |-> 0]
  /\ UNCHANGED <<defs, channels, items, walk, hits, todo, packed, total>> /\ Call

-----------------------------------------------------------------------------
(* pack_results and the response of search_code *)

\* Mutant: the loop stops at the first result that does not fit.
PackNextStops ==
  /\ Goto("pack", "pack")
  /\ todo # <<>>
  /\ IF total + Cost(todo[1]) > query.budget
     THEN todo' = <<>> /\ UNCHANGED <<packed, total>>
     ELSE /\ todo' = Tail(todo)
          /\ IF Packable(todo[1], packed, total, query.budget)
             THEN packed' = packed \cup {todo[1]} /\ total' = total + Cost(todo[1])
             ELSE UNCHANGED <<packed, total>>
  /\ UNCHANGED <<defs, channels, items, walk, hits, reply>> /\ Call

PackNext ==
  /\ Goto("pack", "pack")
  /\ todo # <<>>
  /\ todo' = Tail(todo)
  /\ IF Packable(todo[1], packed, total, query.budget)
     THEN packed' = packed \cup {todo[1]} /\ total' = total + Cost(todo[1])
     ELSE UNCHANGED <<packed, total>>
  /\ UNCHANGED <<defs, channels, items, walk, hits, reply>> /\ Call

Packed(e) ==
  /\ Goto("pack", "trim")
  /\ todo = <<>>
  /\ reply' = [rows |-> Returned(packed), envelope |-> e, truncated |-> 0]
  /\ UNCHANGED <<defs, channels, items, walk, hits, todo, packed, total>> /\ Call

\* The characters of the response: a row has its code if that was asked for.
Size(rows, envelope) ==
  envelope + SumFunction([i \in DOMAIN rows |->
               Chunk[rows[i].chunk].row + IF query.code THEN Chunk[rows[i].chunk].body ELSE 0])

\* Mutant: the code in the rows is counted, their metadata is not.
FitsCode(rows, envelope) ==
  SumFunction([i \in DOMAIN rows |-> rows[i].cost]) <= query.budget

Fits(rows, envelope) == EstimateTokens(Size(rows, envelope)) <= query.budget

Trim ==
  /\ Goto("trim", "trim")
  /\ reply.rows # <<>> /\ ~Fits(reply.rows, reply.envelope)
  /\ reply' = [reply EXCEPT !.rows = Front(@)]
  /\ UNCHANGED <<defs, channels, items, walk, hits, todo, packed, total>> /\ Call

Respond ==
  /\ Goto("trim", "answered")
  /\ reply.rows = <<>> \/ Fits(reply.rows, reply.envelope)
  /\ reply' = [reply EXCEPT !.truncated = IF Len(reply.rows) < Cardinality(packed) THEN TruncatedField ELSE 0]
  /\ UNCHANGED <<defs, channels, items, walk, hits, todo, packed, total>> /\ Call

\* The call is over.
Return ==
  /\ query' = None /\ defs' = <<>>
  /\ text' = <<>> /\ distance' = <<>> /\ vector' = <<>> /\ symbolic' = <<>>
  /\ hits' = <<>> /\ packed' = {} /\ total' = 0 /\ reply' = None
  /\ commits' = 0 /\ wasActive' = {} /\ wasEdge' = {}
  /\ UNCHANGED <<index, weight, items, walk, todo>>

Finish == Goto("answered", "idle") /\ Return

\* A wipe has dropped vec_chunks since vec_dim was read: the KNN query raises, and
\* the call ends with an error.
NoTable == Goto("knn", "idle") /\ Return

Sync ==
  \/ \E t \in Trees : StartSync(t)
  \/ \E b \in Blobs : AddBlob(b)
  \/ AddChunks \/ Deactivate \/ Reactivate \/ WipeGraph \/ AddSymbols \/ AddEdges
  \/ CrashSync

Read ==
  \/ LookUpToken \/ Route \/ TakeDefinition \/ Routed
  \/ ReadEdges \/ ResolveNeighbor \/ TakeNeighbor
  \/ \E o \in Orders : SearchText(o) \/ ScanVectors(o) \/ FetchVectors(o) \/ Rerank(o)
  \/ ReadVecDim \/ FilterVectors \/ SearchTerm \/ TakeMatch
  \/ ReadName \/ VisitNode \/ LeaveChunk \/ Expanded
  \/ ListDefinitions \/ ReadDefinitions \/ ReadIncoming \/ ResolveSource \/ RankSources \/ TakeSource

Answer ==
  \/ PackNext \/ (\E e \in Envelopes : Packed(e)) \/ Trim \/ Respond
  \/ AnswerRows \/ Expand \/ Finish \/ NoTable

Next == Sync \/ (\E q \in Queries : Ask(q)) \/ Read \/ Answer

Spec == Init /\ [][Next]_vars

-----------------------------------------------------------------------------
(* Properties *)

\* Types of the variables; chunks are stored for known blobs only.
TypeOK ==
  /\ active \subseteq known /\ chunked \subseteq known /\ known \subseteq Blobs
  /\ sync \in {"none", "blobs", "chunks", "reactivate", "wipe", "symbols", "edges"}
  /\ stage \in {"idle", "tokens", "define", "text", "vector", "knn", "scan", "filter",
                "symbols", "expand", "symbol", "counting", "sources", "handle", "pack", "trim", "answered"}
  /\ stage = "idle" <=> query = None
  /\ (adding # None) <=> (sync = "chunks")
  /\ \A i \in DOMAIN hits : hits[i].source \in {"symbol", "bm25", "vector", "expansion"}
  /\ packed \subseteq ToSet(hits)

\* Whatever a sync commits between the reads of a call, a result is of a file
\* that was indexed at some moment of the call, and a result found by an edge
\* names an edge that was stored at some moment of it, which joins the very
\* definition asked about and one in the result's chunk, not a namesake.  A
\* handle a client still holds finds its chunk, deactivated or not.
ResultsJustified ==
  /\ stage = "answered" /\ query.tool = "expand" => reply.rows # <<>>
  /\ \A i \in DOMAIN hits :
       LET h == hits[i]
       IN  /\ h.blob \in wasActive
           /\ h.via # None => /\ h.via.edge \in wasEdge
                              /\ {h.via.edge.src, h.via.edge.dst} = {h.via.of, h.via.id}
                              /\ h.via.id[1] = h.blob /\ h.via.id[2] < h.to /\ h.from < h.via.id[3]

\* "CE candidates are the UNION of each channel's head ... before filling from
\* fused order" (config.py): while the heads fit the cross-encoder's window, as
\* 8 + 8 + 4 <= 20 do, no channel can push another's best results out of the
\* answer's candidates, however much the lists repeat each other.
ChannelsHeard ==
  LET half == Max({1, ChannelHead \div 2})
  IN  2 * ChannelHead + half <= RerankTop /\ stage = "expand" =>
        ToSet(Prefix(vector, ChannelHead)) \cup ToSet(Prefix(text, ChannelHead))
          \cup ToSet(Prefix(symbolic, half)) \subseteq HitChunks

\* The KNN query cannot join the active blobs, so it fetches more than it needs
\* and filters at a later statement: that is exact while no more than
\* (OverFetch - 1) * VectorTop of the vectors it read are of inactive blobs.
KnnExact ==
  [][stage = "filter" /\ stage' = "symbols"
       /\ Cardinality(ToSet(distance) \ ActiveChunks) <= (OverFetch - 1) * VectorTop
     => vector' = BruteForce(distance, ToSet(distance))]_vars

\* What pack_results promises of its selection.
WithinBudget == query # None /\ query.tool = "search" => total <= query.budget

Unrepeated == \A a, b \in packed : a # b => ~Overlap(a, b) /\ ~SameCrumb(a, b)

\* The packed results cost what they are said to cost, within the budget; no
\* two overlap or have the same breadcrumb; nothing that was left out could
\* still be added, and the densest result the budget can hold is in.
PackedWell ==
  /\ WithinBudget /\ Unrepeated
  /\ stage \in {"trim", "answered"} /\ query.tool = "search" =>
       LET order == PackOrder(ToSet(hits))
           best == Select(order, {i \in DOMAIN order : Cost(order[i]) <= query.budget})
       IN  /\ total = SumFunction([h \in packed |-> Cost(h)])
           /\ \A h \in ToSet(hits) \ packed : ~Packable(h, packed, total, query.budget)
           /\ best # <<>> => best[1] \in packed

\* "The budget bounds the response ... so trim trailing results to fit"
\* (server.py): an answered search has the most useful packed results, as many
\* as fit with their metadata; only the note that some were left out, and an
\* empty response, may exceed the budget.
ResponseFits ==
  stage = "answered" /\ query.tool = "search" =>
    LET all == Returned(packed)
        n == Len(reply.rows)
        Tokens(k) == EstimateTokens(Size(Prefix(all, k), reply.envelope))
    IN  /\ reply.rows = Prefix(all, n)
        /\ n = 0 \/ Tokens(n) <= query.budget
        /\ \A k \in (n + 1)..Len(all) : ~(Tokens(k) <= query.budget)
        /\ reply.truncated > 0 <=> n < Len(all)
=============================================================================
