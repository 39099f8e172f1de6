SPECIFICATION Spec
CONSTANTS
  RrfK = 2
  Scale = 277200
  ChannelHead = 1
  RerankTop = 3
  Fanout = 2
  AmbiguousDefs = 1
  Trees <- MCTrees
  Chunk <- MCChunk
  Graph <- MCGraph
  Queries <- MCQueries
  Orders <- MCOrders
  TextTop = 3
  VectorTop = 1
  SymbolTop = 2
  ExpansionTop = 1
  OverFetch = 2
  SmallIndex = 1
  Envelopes = {8, 14}
  TruncatedField = 5
  MaxCommits = 3
  None = None
INVARIANTS TypeOK ResultsJustified ChannelsHeard PackedWell ResponseFits
PROPERTY KnnExact
