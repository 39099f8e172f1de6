----------------------------- MODULE GraphIndex -----------------------------
(***************************************************************************)
(* The write side of the graph (graph/index.py, sync_graph): pass-1 facts  *)
(* cached per blob and language under the tag of the extractor that made   *)
(* them, and the symbols and edges replaced by every sync.                 *)
(*                                                                         *)
(* One sync runs at a time, which is what the lock is for; it may die      *)
(* anywhere.  Syncs of different versions of the program share the index.  *)
(***************************************************************************)
EXTENDS Resolution

CONSTANTS
  Tags,       \* the values of extraction_tag()
  NoTag, None,
  FileMaps,   \* what a sync may be given: functions from paths to blobs
  Parsed      \* Parsed[tag][blob, language]: size and captures of the blob

Key(map, p) == <<map[p], Language(p)>>
Entries(map) == {p \in DOMAIN map : Supported(p)}
Keys(map) == {Key(map, p) : p \in Entries(map)}

ASSUME GraphIndexAssumption ==
  /\ NoTag \notin Tags
  /\ \A map \in FileMaps : DOMAIN map \subseteq Paths
  /\ \A t \in Tags, map \in FileMaps : Keys(map) \subseteq DOMAIN Parsed[t]

\* What the queries capture of a definition: a kind they label, a span.
ASSUME CaptureAssumption ==
  \A t \in Tags : \A k \in DOMAIN Parsed[t] :
    LET caps == Parsed[t][k].captures
    IN  /\ DOMAIN caps \subseteq Nat
        /\ \A i \in DOMAIN caps : caps[i].tag = "def" =>
             /\ caps[i].kind \in DOMAIN Priority
             /\ {caps[i].from, caps[i].to} \subseteq Nat /\ caps[i].from <= caps[i].to

VARIABLES
  tag,        \* meta 'graph_facts_tag'
  cache,      \* table graph_facts
  symbols, edges,
  pc,
  version,    \* the tag of the running sync
  fileMap,    \* its argument
  todo,       \* paths it has not looked up
  seen,       \* payloads by key
  fresh,      \* the keys it parsed itself
  done,       \* history: the sync whose tables these are
  stored      \* history: keys of the completed syncs under the current tag

vars == <<tag, cache, symbols, edges, pc, version, fileMap, todo, seen, fresh, done, stored>>
run == <<version, fileMap, todo, seen, fresh>>

EmptyFn == [k \in {} |-> None]

\* f extended, or overridden, by g.
Over(g, f) == [k \in DOMAIN f \cup DOMAIN g |-> IF k \in DOMAIN g THEN g[k] ELSE f[k]]

FactsOf(t, key) == Facts(Parsed[t][key])

\* extract_project: the files of a map, nothing cached.
Project(t, map) == {Decode(FactsOf(t, Key(map, p)), p, map[p]) : p \in Entries(map)}

\* extract_project_cached: the files as the payloads of this sync have them.
CachedProject == {Decode(seen[Key(fileMap, p)], p, fileMap[p]) : p \in Entries(fileMap)}

Init ==
  /\ tag = NoTag /\ cache = EmptyFn
  /\ symbols = {} /\ edges = {} /\ done = None /\ stored = {}
  /\ pc = "idle"
  /\ version = NoTag /\ fileMap = EmptyFn /\ todo = {} /\ seen = EmptyFn /\ fresh = {}

\* sync_graph is called.
Begin(t, map) ==
  /\ pc = "idle"
  /\ pc' = "compat"
  /\ version' = t /\ fileMap' = map /\ todo' = Entries(map) /\ seen' = EmptyFn /\ fresh' = {}
  /\ UNCHANGED <<tag, cache, symbols, edges, done, stored>>

\* _ensure_facts_compat: nothing to do, or
TagMatches ==
  /\ pc = "compat" /\ tag = version
  /\ pc' = "lookup"
  /\ UNCHANGED <<tag, cache, stored, symbols, edges, done, run>>

\* Mutant: the tag first, the rows after.
WipeTagFirst ==
  /\ pc = "compat" /\ tag # version
  /\ tag' = version
  /\ pc' = "retag"
  /\ UNCHANGED <<cache, stored, symbols, edges, done, run>>

\* empty the cache in one transaction
Wipe ==
  /\ pc = "compat" /\ tag # version
  /\ cache' = EmptyFn /\ stored' = {}
  /\ pc' = "retag"
  /\ UNCHANGED <<tag, symbols, edges, done, run>>

\* and name the new extractor in the next.
Retag ==
  /\ pc = "retag"
  /\ tag' = version
  /\ pc' = "lookup"
  /\ UNCHANGED <<cache, stored, symbols, edges, done, run>>

\* Mutant: a cached payload is not kept for the extraction.
LookUpForgets ==
  /\ pc = "lookup" /\ todo # {}
  /\ LET p == Least(todo)
         key == Key(fileMap, p)
     IN  /\ todo' = todo \ {p}
         /\ IF key \in DOMAIN cache THEN UNCHANGED <<seen, fresh>>
            ELSE /\ seen' = Over([k \in {key} |-> FactsOf(version, key)], seen)
                 /\ fresh' = fresh \cup {key}
  /\ UNCHANGED <<tag, cache, stored, symbols, edges, done, pc, version, fileMap>>

\* Mutant: the query for the cached row names the blob only.
LookUpAnyLanguage ==
  /\ pc = "lookup" /\ todo # {}
  /\ LET p == Least(todo)
         key == Key(fileMap, p)
         rows == {k \in DOMAIN cache : k[1] = key[1]}
         payload == IF rows # {} THEN cache[The(rows)] ELSE FactsOf(version, key)
     IN  /\ todo' = todo \ {p}
         /\ IF key \in DOMAIN seen THEN UNCHANGED <<seen, fresh>>
            ELSE /\ seen' = Over([k \in {key} |-> payload], seen)
                 /\ fresh' = IF rows # {} THEN fresh ELSE fresh \cup {key}
  /\ UNCHANGED <<tag, cache, stored, symbols, edges, done, pc, version, fileMap>>

\* One pass of the loop: the payload seen before, the cached one, or a new one.
LookUp ==
  /\ pc = "lookup" /\ todo # {}
  /\ LET p == Least(todo)
         key == Key(fileMap, p)
         payload == IF key \in DOMAIN cache THEN cache[key] ELSE FactsOf(version, key)
     IN  /\ todo' = todo \ {p}
         /\ IF key \in DOMAIN seen THEN UNCHANGED <<seen, fresh>>
            ELSE /\ seen' = Over([k \in {key} |-> payload], seen)
                 /\ fresh' = IF key \in DOMAIN cache THEN fresh ELSE fresh \cup {key}
  /\ UNCHANGED <<tag, cache, stored, symbols, edges, done, pc, version, fileMap>>

\* Mutant: edges are left for the next transaction.
ReplaceKeepsEdges ==
  /\ pc = "lookup" /\ todo = {}
  /\ cache' = Over([k \in fresh |-> seen[k]], cache)
  /\ symbols' = {} /\ done' = None
  /\ pc' = "symbols"
  /\ UNCHANGED <<tag, stored, edges, run>>

\* Mutant: facts of blobs that are not in the files are deleted.
ReplacePrunes ==
  /\ pc = "lookup" /\ todo = {}
  /\ cache' = seen
  /\ symbols' = {} /\ edges' = {} /\ done' = None
  /\ pc' = "symbols"
  /\ UNCHANGED <<tag, stored, run>>

\* The transaction that stores the fresh facts and empties the tables.
Replace ==
  /\ pc = "lookup" /\ todo = {}
  /\ cache' = Over([k \in fresh |-> seen[k]], cache)
  /\ symbols' = {} /\ edges' = {} /\ done' = None
  /\ pc' = "symbols"
  /\ UNCHANGED <<tag, stored, run>>

\* add_symbols: rows whose id is taken are ignored.
AddSymbols ==
  /\ pc = "symbols"
  /\ symbols' = symbols \cup {n \in SymbolRows(CachedProject) : \A m \in symbols : Id(m) # Id(n)}
  /\ pc' = "edges"
  /\ UNCHANGED <<tag, cache, stored, edges, done, run>>

Rest ==
  /\ pc' = "idle"
  /\ version' = NoTag /\ fileMap' = EmptyFn /\ todo' = {} /\ seen' = EmptyFn /\ fresh' = {}

\* add_edges, the last statement of the sync.
AddEdges ==
  /\ pc = "edges"
  /\ edges' = edges \cup Edges(CachedProject)
  /\ done' = [version |-> version, map |-> fileMap]
  /\ stored' = stored \cup Keys(fileMap)
  /\ Rest
  /\ UNCHANGED <<tag, cache, symbols>>

\* The process dies, or reading a blob fails.
Crash ==
  /\ pc # "idle"
  /\ Rest
  /\ UNCHANGED <<tag, cache, stored, symbols, edges, done>>

Next ==
  \/ \E t \in Tags, map \in FileMaps : Begin(t, map)
  \/ TagMatches \/ Wipe \/ Retag
  \/ LookUp \/ Replace \/ AddSymbols \/ AddEdges
  \/ Crash

Spec == Init /\ [][Next]_vars

-----------------------------------------------------------------------------
(* Properties *)

\* Types of the variables; a sync has payloads for exactly the files it has looked up.
TypeOK ==
  /\ tag \in Tags \cup {NoTag} /\ version \in Tags \cup {NoTag}
  /\ pc \in {"idle", "compat", "retag", "lookup", "symbols", "edges"}
  /\ fileMap \in FileMaps \cup {EmptyFn} /\ todo \subseteq DOMAIN fileMap
  /\ DOMAIN seen = {Key(fileMap, p) : p \in Entries(fileMap) \ todo}
  /\ fresh \subseteq DOMAIN seen
  /\ done = None \/ (done.version \in Tags /\ done.map \in FileMaps)
  /\ \A e \in edges : e.kind \in {"defines", "imports", "calls", "references"}

\* Whatever versions of the program have synced, and wherever they died, every
\* cached payload is what the extractor the tag names makes of that blob: the
\* cache is emptied before the tag changes, and filled by syncs of that tag.
CacheFaithful == \A key \in DOMAIN cache : cache[key] = FactsOf(tag, key)

\* The golden test for the graph (tests/test_graph_facts_cache.py): after a
\* complete sync the tables are those of an extraction of its files from
\* nothing, by its own extractor, whatever was cached and whatever syncs failed
\* before.
GraphIsExtraction ==
  done # None =>
    LET files == Project(done.version, done.map)
    IN  symbols = SymbolRows(files) /\ edges = Edges(files)

\* At every moment, during a sync too, an edge joins two symbols of the table:
\* edges go first (with the symbols) and come last.
EdgesClosed ==
  LET ids == {Id(n) : n \in symbols}
  IN  \A e \in edges : e.src \in ids /\ e.dst \in ids

\* "An unchanged repo re-syncs without reading or parsing a single file"
\* (index.py), and so does one that returns to files it once had: nothing a
\* completed sync has parsed is parsed again until another extractor syncs.
NothingParsedTwice == fresh \cap stored = {}

\* "A name may only resolve across files within its family" (extract.py), as far
\* as the code keeps it: whatever other languages a project has, the edges of a
\* file whose imports stay in its family are those of the family's files alone.
\* An import leaves it that finds, or means, a file of another family: a path
\* with its extension, or with an imported name for one.
FamiliesIndependent ==
  done # None =>
    LET files == Project(done.version, done.map)
        kin(f) == {g \in files : Family(g.path) = Family(f.path)}
        Leaves(imp, f) ==
          \/ \E p \in ResolveImport(imp.module, f.path, PathsOf(files)) : Family(p) # Family(f.path)
          \/ \E t \in ImportTarget(imp, f, files) : Family(t.path) # Family(f.path)
        foreign == {f \in files : \E i \in DOMAIN f.facts.imports : Leaves(f.facts.imports[i], f)}
    IN  \A f \in files \ foreign : EdgesOf(f, files) = EdgesOf(f, kin(f))

-----------------------------------------------------------------------------
(* What the documentation says and the code does not keep *)

\* extract.py: "a name may only resolve across files within its family".  Imports
\* do not ask for the family: a name imported from "./h.proto" is its message.
NamesStayInFamily ==
  done # None =>
    LET files == Project(done.version, done.map)
    IN  \A f \in files : \A r \in f.facts.refs : \A n \in Resolve(r.name, f, files) :
          Family(n.path) = Family(f.path)
=============================================================================
