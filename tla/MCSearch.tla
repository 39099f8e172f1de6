------------------------------ MODULE MCSearch ------------------------------
EXTENDS Search, TLC

\* A repository of two files: blob 1 is the first; the second changes from
\* blob 2 to blob 3 and back.
MCTrees == {{1, 2}, {1, 3}}

MCChunkOf(blob, from, to, crumb, names, words, cost, row, body) ==
  [blob |-> blob, from |-> from, to |-> to, crumb |-> crumb, names |-> names,
   words |-> words, cost |-> cost, row |-> row, body |-> body]

\* Chunks 3 and 4 overlap; 3 and 5 are versions of one function.
MCChunk == <<
  MCChunkOf(1, 0, 5, "foo", <<"foo">>, {"budget"}, 4, 9, 12),
  MCChunkOf(1, 5, 10, "Opts", <<"Opts">>, {"retry"}, 2, 8, 4),
  MCChunkOf(2, 0, 5, "bar", <<"bar">>, {"budget", "retry"}, 3, 9, 9),
  MCChunkOf(2, 4, 9, "", <<>>, {"retry"}, 2, 6, 8),
  MCChunkOf(3, 0, 9, "bar", <<"bar">>, {"budget"}, 5, 9, 20)>>

MCSymbol(symbol, blob, from, to, path, dir, like) ==
  [symbol |-> symbol, blob |-> blob, from |-> from, to |-> to, path |-> path, dir |-> dir, like |-> like]

MCFoo == MCSymbol("foo", 1, 0, 5, 1, "a", "fo" :> 1)
MCOpts(blob) == MCSymbol("Opts", blob, 5, 9, IF blob = 1 THEN 1 ELSE 2, IF blob = 1 THEN "a" ELSE "b",
                         "op" :> 1 @@ "opts" :> 0)
MCBar(blob) == MCSymbol("bar", blob, 0, IF blob = 2 THEN 5 ELSE 9, 2, "b", "ba" :> 1)

MCEdge(m, n, kind) == [src |-> Id(m), dst |-> Id(n), kind |-> kind]

MCGraph ==
  {1, 2} :> [symbols |-> {MCFoo, MCOpts(1), MCOpts(2), MCBar(2)},
             edges |-> {MCEdge(MCBar(2), MCFoo, "calls"), MCEdge(MCFoo, MCOpts(2), "calls"),
                        MCEdge(MCBar(2), MCOpts(1), "calls"), MCEdge(MCBar(2), MCOpts(2), "calls"),
                        MCEdge(MCFoo, MCOpts(1), "references")}]
  @@ {1, 3} :> [symbols |-> {MCFoo, MCOpts(1), MCBar(3)},
                edges |-> {MCEdge(MCBar(3), MCFoo, "calls"), MCEdge(MCFoo, MCOpts(1), "references"),
                           MCEdge(MCBar(3), MCOpts(1), "imports")}]

MCQuery(tool, tokens, words, terms, affinity, limit, budget, code) ==
  [tool |-> tool, tokens |-> tokens, words |-> words, terms |-> terms, affinity |-> affinity,
   limit |-> limit, budget |-> budget, code |-> code]

MCRouted == MCQuery("search", <<"Opts", "foo", "bar">>, {"opts"}, <<"op", "ba">>, <<0, 0>>, 0, 8, FALSE)

\* Routed queries with and without a path in them, words for the channels, and
\* the structural tools.
MCQueries == {
  MCRouted,
  MCQuery("search", <<"Opts">>, {}, <<>>, <<0, 2>>, 0, 5, TRUE),
  MCQuery("search", <<>>, {"retry"}, <<"op">>, <<0, 0>>, 0, 9, FALSE),
  MCQuery("definition", <<"Opts">>, {}, <<>>, <<0, 0>>, 0, 0, FALSE),
  MCQuery("expand", <<3>>, {}, <<>>, <<0, 0>>, 0, 0, FALSE),
  MCQuery("callers", <<"Opts">>, {}, <<>>, <<0, 0>>, 1, 0, FALSE),
  MCQuery("references", <<"Opts">>, {}, <<>>, <<0, 0>>, 2, 0, FALSE)}

MCOrders == {<<1, 2, 3, 4, 5>>, <<5, 3, 4, 2, 1>>}
=============================================================================
