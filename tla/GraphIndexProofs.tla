-------------------------- MODULE GraphIndexProofs --------------------------
(***************************************************************************)
(* What the facts cache guarantees, for any extractor versions, any        *)
(* repositories and any sequence of complete and of failed syncs: for that *)
(* it only matters that extraction and resolution are functions of the     *)
(* facts.  What they compute matters to the last two theorems: where edges *)
(* end, and which files they depend on.                                    *)
(***************************************************************************)
EXTENDS GraphIndex, WellFoundedInduction, TLAPS

\* Paths are numbers, of which a nonempty set has a least.
LEMMA LeastIn ==
  ASSUME NEW S, S \subseteq Paths, S # {}
  PROVE  Least(S) \in S
<1>0. S \subseteq Nat
  BY GraphIndexAssumption, ExtractionAssumption DEF Paths
<1>1. PICK x \in S : \A y \in S : ~ (<<y, x>> \in OpToRel(<, Nat))
  <2> HIDE DEF OpToRel
  <2> QED BY <1>0, WFMin, NatLessThanWellFounded
<1>2. ASSUME NEW y \in S PROVE x <= y
  <2>1. SUFFICES ASSUME y < x PROVE FALSE
    BY <1>0
  <2>2. <<y, x>> \in OpToRel(<, Nat)
    BY <2>1, <1>0, Zenon DEF OpToRel
  <2> QED
    BY <2>2, <1>1
<1> QED
  BY <1>2 DEF Least

\* A row written over a table replaces what the table had under its keys.
LEMMA OverTypes ==
  ASSUME NEW f, NEW g
  PROVE  /\ DOMAIN Over(g, f) = DOMAIN f \cup DOMAIN g
         /\ \A k \in DOMAIN g : Over(g, f)[k] = g[k]
         /\ \A k \in DOMAIN f \ DOMAIN g : Over(g, f)[k] = f[k]
  BY DEF Over

\* Every edge of a project is of one of the four kinds.
LEMMA EdgeKinds ==
  ASSUME NEW files, NEW e \in Edges(files)
  PROVE  e.kind \in {"defines", "imports", "calls", "references"}
<1>1. PICK f \in files : e \in EdgesOf(f, files)
  BY DEF Edges
<1> DEFINE imports == f.facts.imports
           defines == {Edge(Container(f, d), d, "defines") : d \in f.defs}
           imported(i) == {Edge(f.module, t, "imports") : t \in ImportTarget(imports[i], f, files)}
           called(c) == {Edge(Enclosing(f, c.at), t, "calls") : t \in Callee(c, f, files)}
           referenced(r) == {Edge(Enclosing(f, r.at), t, "references") : t \in Resolve(r.name, f, files)}
           all == UNION {defines,
                         UNION {imported(i) : i \in DOMAIN imports},
                         UNION {called(c) : c \in f.facts.calls},
                         UNION {referenced(r) : r \in f.facts.refs}}
<1>2. e \in all
  BY <1>1 DEF EdgesOf
<1>3. \/ e \in defines
      \/ \E i \in DOMAIN imports : e \in imported(i)
      \/ \E c \in f.facts.calls : e \in called(c)
      \/ \E r \in f.facts.refs : e \in referenced(r)
  <2> HIDE DEF defines, imported, called, referenced
  <2> QED BY <1>2
<1>4. \E a, b : \/ e = Edge(a, b, "defines") \/ e = Edge(a, b, "imports")
                \/ e = Edge(a, b, "calls") \/ e = Edge(a, b, "references")
  BY <1>3, Zenon
<1> QED
  BY <1>4 DEF Edge

-----------------------------------------------------------------------------
(* The inductive invariant *)

Running == pc # "idle"

\* The running sync has a version and a file map, and has looked up the files
\* that are not in todo, in the cache or by itself.
SyncInv ==
  /\ tag \in Tags \cup {NoTag}
  /\ pc \in {"idle", "compat", "retag", "lookup", "symbols", "edges"}
  /\ Running => version \in Tags /\ fileMap \in FileMaps
  /\ ~Running => version = NoTag /\ fileMap = EmptyFn /\ todo = {} /\ seen = EmptyFn /\ fresh = {}
  /\ todo \subseteq Entries(fileMap)
  /\ DOMAIN seen = {Key(fileMap, p) : p \in Entries(fileMap) \ todo}
  /\ fresh \subseteq DOMAIN seen
  /\ pc \in {"compat", "retag"} => todo = Entries(fileMap)
  /\ pc \in {"symbols", "edges"} => todo = {}
  /\ done = None \/ (done.version \in Tags /\ done.map \in FileMaps)

\* The cache is empty when its tag is about to change, and the tag is that of
\* the sync that reads and fills it.
CacheInv ==
  /\ CacheFaithful
  /\ pc = "retag" => cache = EmptyFn
  /\ pc \in {"lookup", "symbols", "edges"} => tag = version
  /\ \A key \in DOMAIN seen : seen[key] = FactsOf(version, key)

\* What a completed sync has parsed stays in the cache, and what a sync parses
\* itself was not in it.
StoredInv ==
  /\ stored \subseteq DOMAIN cache
  /\ fresh \cap stored = {}
  /\ DOMAIN seen \subseteq fresh \cup DOMAIN cache
  /\ pc \in {"symbols", "edges"} => fresh \subseteq DOMAIN cache
  /\ pc \in {"compat", "retag"} => seen = EmptyFn /\ fresh = {}

\* The tables during and after their replacement.
TableInv ==
  /\ pc = "symbols" => symbols = {} /\ edges = {} /\ done = None
  /\ pc = "edges" => /\ symbols = SymbolRows(Project(version, fileMap))
                     /\ edges = {} /\ done = None
  /\ GraphIsExtraction

-----------------------------------------------------------------------------
(* The steps *)

LEMMA LookUpStep ==
  ASSUME SyncInv, LookUp
  PROVE  LET p == Least(todo)
             key == Key(fileMap, p)
         IN  /\ p \in todo /\ p \in Entries(fileMap)
             /\ todo' = todo \ {p}
             /\ DOMAIN seen' = DOMAIN seen \cup {key}
             /\ \A k \in DOMAIN seen : seen'[k] = seen[k]
             /\ key \notin DOMAIN seen =>
                  seen'[key] = IF key \in DOMAIN cache THEN cache[key] ELSE FactsOf(version, key)
             /\ fresh' = IF key \in DOMAIN seen \/ key \in DOMAIN cache
                         THEN fresh ELSE fresh \cup {key}
<1> DEFINE p == Least(todo)
           key == Key(fileMap, p)
           payload == IF key \in DOMAIN cache THEN cache[key] ELSE FactsOf(version, key)
<1>1. p \in todo
  <2>1. Entries(fileMap) \subseteq Paths
    BY GraphIndexAssumption DEF SyncInv, Entries, LookUp, Running
  <2> QED
    BY <2>1, LeastIn DEF SyncInv, LookUp
<1>2. p \in Entries(fileMap)
  BY <1>1 DEF SyncInv
<1>3. /\ todo' = todo \ {p}
      /\ IF key \in DOMAIN seen THEN seen' = seen /\ fresh' = fresh
         ELSE /\ seen' = Over([k \in {key} |-> payload], seen)
              /\ fresh' = IF key \in DOMAIN cache THEN fresh ELSE fresh \cup {key}
  BY DEF LookUp
<1>4. CASE key \in DOMAIN seen
  BY <1>1, <1>2, <1>3, <1>4
<1>5. CASE key \notin DOMAIN seen
  <2> DEFINE row == [k \in {key} |-> payload]
  <2>1. DOMAIN row = {key} /\ row[key] = payload
    OBVIOUS
  <2>2. /\ DOMAIN seen' = DOMAIN seen \cup {key}
        /\ seen'[key] = payload
        /\ \A k \in DOMAIN seen : seen'[k] = seen[k]
    <3>1. seen' = Over(row, seen)
      BY <1>3, <1>5
    <3> HIDE DEF row, payload, key
    <3>2. /\ DOMAIN Over(row, seen) = DOMAIN seen \cup DOMAIN row
          /\ \A k \in DOMAIN row : Over(row, seen)[k] = row[k]
          /\ \A k \in DOMAIN seen \ DOMAIN row : Over(row, seen)[k] = seen[k]
      BY OverTypes
    <3> QED BY <3>1, <3>2, <1>5, <2>1
  <2> QED
    BY <1>1, <1>2, <1>3, <1>5, <2>2
<1> QED
  BY <1>4, <1>5

LEMMA SyncStep == SyncInv /\ [Next]_vars => SyncInv'
<1> SUFFICES ASSUME SyncInv, [Next]_vars PROVE SyncInv'
  OBVIOUS
<1> USE DEF SyncInv, Running
<1>1. ASSUME NEW t \in Tags, NEW map \in FileMaps, Begin(t, map) PROVE SyncInv'
  BY <1>1 DEF Begin, EmptyFn, Entries
<1>2. CASE TagMatches \/ Wipe \/ Retag
  BY <1>2 DEF TagMatches, Wipe, Retag, run, Entries
<1>3. CASE LookUp
  <2>1. DOMAIN seen' = {Key(fileMap, p) : p \in Entries(fileMap) \ todo'}
    <3> HIDE DEF SyncInv
    <3> DEFINE p == Least(todo)
    <3>1. /\ p \in todo /\ p \in Entries(fileMap) /\ todo' = todo \ {p}
          /\ DOMAIN seen' = DOMAIN seen \cup {Key(fileMap, p)}
      BY <1>3, LookUpStep
    <3>2. DOMAIN seen = {Key(fileMap, q) : q \in Entries(fileMap) \ todo}
      BY DEF SyncInv
    <3>3. Entries(fileMap) \ todo' = (Entries(fileMap) \ todo) \cup {p}
      BY <3>1
    <3> HIDE DEF p
    <3> QED BY <3>1, <3>2, <3>3
  <2>2. fresh' \subseteq DOMAIN seen' /\ todo' \subseteq todo
    <3> HIDE DEF SyncInv
    <3> QED BY <1>3, LookUpStep DEF SyncInv
  <2>3. UNCHANGED <<tag, done, pc, version, fileMap>> /\ pc = "lookup"
    BY <1>3 DEF LookUp
  <2> QED
    BY <2>1, <2>2, <2>3 DEF Entries
<1>4. CASE Replace \/ AddSymbols
  BY <1>4 DEF Replace, AddSymbols, run, Entries
<1>5. CASE AddEdges \/ Crash
  <2>1. Rest /\ tag' = tag /\ (done' = done \/ done' = [version |-> version, map |-> fileMap])
    BY <1>5 DEF AddEdges, Crash
  <2>2. pc # "idle"
    BY <1>5 DEF AddEdges, Crash
  <2>3. (done = None \/ (done.version \in Tags /\ done.map \in FileMaps))'
    BY <2>1, <2>2
  <2>4. DOMAIN EmptyFn = {} /\ DOMAIN seen' = {} /\ Entries(fileMap)' = {}
    BY <2>1 DEF Rest, EmptyFn, Entries
  <2> QED
    BY <2>1, <2>3, <2>4 DEF Rest
<1>6. CASE UNCHANGED vars
  BY <1>6 DEF vars, Entries
<1> QED
  BY <1>1, <1>2, <1>3, <1>4, <1>5, <1>6 DEF Next

LEMMA CacheStep == SyncInv /\ CacheInv /\ [Next]_vars => CacheInv'
<1> SUFFICES ASSUME SyncInv, CacheInv, [Next]_vars PROVE CacheInv'
  OBVIOUS
<1> USE DEF CacheInv, CacheFaithful
<1>1. ASSUME NEW t \in Tags, NEW map \in FileMaps, Begin(t, map) PROVE CacheInv'
  BY <1>1 DEF Begin, EmptyFn
<1>2. CASE TagMatches \/ Wipe
  BY <1>2 DEF TagMatches, Wipe, run, EmptyFn
<1>3. CASE Retag
  BY <1>3 DEF Retag, run, EmptyFn
<1>4. CASE LookUp
  <2>1. tag' = tag /\ cache' = cache /\ version' = version /\ pc' = pc /\ pc = "lookup"
    BY <1>4 DEF LookUp
  <2>2. ASSUME NEW k \in DOMAIN seen' PROVE seen'[k] = FactsOf(version, k)
    BY <1>4, <2>1, LookUpStep
  <2> QED
    BY <2>1, <2>2
<1>5. CASE Replace
  <2> DEFINE rows == [k \in fresh |-> seen[k]]
  <2>1. /\ tag' = tag /\ version' = version /\ seen' = seen /\ pc' = "symbols"
        /\ pc = "lookup" /\ cache' = Over(rows, cache)
    BY <1>5 DEF Replace, run
  <2>2. ASSUME NEW k \in DOMAIN cache' PROVE cache'[k] = FactsOf(tag, k)
    <3>1. DOMAIN rows = fresh /\ \A j \in fresh : rows[j] = seen[j]
      OBVIOUS
    <3>2. fresh \subseteq DOMAIN seen /\ tag = version
      BY <2>1 DEF SyncInv
    <3> HIDE DEF rows
    <3>3. /\ DOMAIN Over(rows, cache) = DOMAIN cache \cup DOMAIN rows
          /\ \A j \in DOMAIN rows : Over(rows, cache)[j] = rows[j]
          /\ \A j \in DOMAIN cache \ DOMAIN rows : Over(rows, cache)[j] = cache[j]
      BY OverTypes
    <3>4. CASE k \in fresh
      BY <2>1, <3>1, <3>2, <3>3, <3>4
    <3>5. CASE k \notin fresh
      BY <2>1, <3>1, <3>3, <3>5
    <3> QED BY <3>4, <3>5
  <2> QED
    BY <2>1, <2>2
<1>6. CASE AddSymbols
  BY <1>6 DEF AddSymbols, run
<1>7. CASE AddEdges \/ Crash
  BY <1>7 DEF AddEdges, Crash, Rest, EmptyFn
<1>8. CASE UNCHANGED vars
  BY <1>8 DEF vars
<1> QED
  BY <1>1, <1>2, <1>3, <1>4, <1>5, <1>6, <1>7, <1>8 DEF Next

LEMMA StoredStep == SyncInv /\ StoredInv /\ [Next]_vars => StoredInv'
<1> SUFFICES ASSUME SyncInv, StoredInv, [Next]_vars PROVE StoredInv'
  OBVIOUS
<1> USE DEF StoredInv
<1>1. ASSUME NEW t \in Tags, NEW map \in FileMaps, Begin(t, map) PROVE StoredInv'
  BY <1>1 DEF Begin, EmptyFn
<1>2. CASE TagMatches \/ Wipe \/ Retag
  BY <1>2 DEF TagMatches, Wipe, Retag, run, EmptyFn
<1>3. CASE LookUp
  <2>1. cache' = cache /\ stored' = stored /\ pc' = "lookup"
    BY <1>3 DEF LookUp
  <2> QED
    BY <1>3, <2>1, LookUpStep
<1>4. CASE Replace
  <2> DEFINE rows == [k \in fresh |-> seen[k]]
  <2>1. DOMAIN cache' = DOMAIN cache \cup fresh
    <3>1. DOMAIN rows = fresh /\ cache' = Over(rows, cache)
      BY <1>4 DEF Replace
    <3> HIDE DEF rows
    <3> QED BY <3>1, OverTypes
  <2> QED
    BY <1>4, <2>1 DEF Replace, run
<1>5. CASE AddSymbols
  BY <1>5 DEF AddSymbols, run
<1>6. CASE AddEdges
  <2>1. Keys(fileMap) \subseteq DOMAIN cache
    BY <1>6 DEF AddEdges, SyncInv, Keys
  <2> QED
    BY <1>6, <2>1 DEF AddEdges, Rest, EmptyFn
<1>7. CASE Crash
  BY <1>7 DEF Crash, Rest, EmptyFn
<1>8. CASE UNCHANGED vars
  BY <1>8 DEF vars
<1> QED
  BY <1>1, <1>2, <1>3, <1>4, <1>5, <1>6, <1>7, <1>8 DEF Next

\* Once every file is looked up, the payloads are those of a fresh extraction.
LEMMA CachedIsProject ==
  ASSUME SyncInv, CacheInv, todo = {}
  PROVE  CachedProject = Project(version, fileMap)
<1>1. ASSUME NEW p \in Entries(fileMap)
      PROVE  seen[Key(fileMap, p)] = FactsOf(version, Key(fileMap, p))
  BY DEF SyncInv, CacheInv
<1> QED
  BY <1>1 DEF CachedProject, Project

\* Nodes already in an empty table do not keep others out of it.
LEMMA FirstRows ==
  ASSUME NEW rows
  PROVE  {} \cup {n \in rows : \A m \in {} : Id(m) # Id(n)} = rows
  OBVIOUS

LEMMA TableStep == SyncInv /\ CacheInv /\ TableInv /\ [Next]_vars => TableInv'
<1> SUFFICES ASSUME SyncInv, CacheInv, TableInv, [Next]_vars PROVE TableInv'
  OBVIOUS
<1> USE DEF TableInv, GraphIsExtraction
<1>1. ASSUME NEW t \in Tags, NEW map \in FileMaps, Begin(t, map) PROVE TableInv'
  BY <1>1 DEF Begin
<1>2. CASE TagMatches \/ Wipe \/ Retag
  BY <1>2 DEF TagMatches, Wipe, Retag, run
<1>3. CASE LookUp
  BY <1>3 DEF LookUp
<1>4. CASE Replace
  BY <1>4 DEF Replace, run
<1>5. CASE AddSymbols
  <2>1. /\ pc = "symbols" /\ todo = {} /\ symbols = {} /\ edges = {} /\ done = None
        /\ symbols' = SymbolRows(CachedProject)
    BY <1>5 DEF AddSymbols, SyncInv
  <2>2. symbols' = SymbolRows(Project(version, fileMap))
    BY <2>1, CachedIsProject
  <2>3. pc' = "edges" /\ UNCHANGED <<edges, done, version, fileMap>>
    BY <1>5 DEF AddSymbols, run
  <2>4. (symbols = SymbolRows(Project(version, fileMap)))'
    BY <2>2, <2>3 DEF Project, FactsOf, Entries
  <2> QED
    BY <2>1, <2>3, <2>4
<1>6. CASE AddEdges
  <2> DEFINE files == Project(version, fileMap)
  <2>1. /\ symbols = SymbolRows(files) /\ edges = {} /\ CachedProject = files
    BY <1>6, CachedIsProject DEF AddEdges, SyncInv
  <2>2. /\ edges' = Edges(files) /\ symbols' = SymbolRows(files)
        /\ done' = [version |-> version, map |-> fileMap] /\ pc' = "idle"
    BY <1>6, <2>1 DEF AddEdges, Rest
  <2>3. done'.version = version /\ done'.map = fileMap
    BY <2>2
  <2>4. (LET fs == Project(done.version, done.map) IN symbols = SymbolRows(fs) /\ edges = Edges(fs))'
    BY <2>2, <2>3 DEF Project, FactsOf, Entries
  <2> QED
    BY <2>2, <2>4
<1>7. CASE Crash
  BY <1>7 DEF Crash, Rest
<1>8. CASE UNCHANGED vars
  BY <1>8 DEF vars
<1> QED
  BY <1>1, <1>2, <1>3, <1>4, <1>5, <1>6, <1>7, <1>8 DEF Next

-----------------------------------------------------------------------------
(* Theorems *)

GraphInv == SyncInv /\ CacheInv /\ StoredInv /\ TableInv

\* What the theorems below are drawn from.
LEMMA GraphIndexInvariant == Spec => []GraphInv
<1>1. Init => GraphInv
  <2> SUFFICES ASSUME Init PROVE GraphInv
    OBVIOUS
  <2>1. SyncInv
    BY DEF Init, SyncInv, Running, EmptyFn, Entries
  <2>2. CacheInv /\ StoredInv /\ TableInv
    BY DEF Init, CacheInv, CacheFaithful, StoredInv, TableInv, GraphIsExtraction, EmptyFn
  <2> QED
    BY <2>1, <2>2 DEF GraphInv
<1>2. GraphInv /\ [Next]_vars => GraphInv'
  BY SyncStep, CacheStep, StoredStep, TableStep DEF GraphInv
<1> QED
  BY <1>1, <1>2, PTL DEF Spec

\* The variables of sync_graph's model keep their types.
THEOREM GraphIndexTypeCorrect == Spec => []TypeOK
<1> DEFINE Kinds == \A e \in edges : e.kind \in {"defines", "imports", "calls", "references"}
<1>1. Init => Kinds
  BY DEF Init
<1>2. Kinds /\ [Next]_vars => Kinds'
  <2> SUFFICES ASSUME Kinds, [Next]_vars PROVE Kinds'
    OBVIOUS
  <2>1. CASE AddEdges
    BY <2>1, EdgeKinds DEF AddEdges
  <2>2. edges' \in {edges, {}} \/ AddEdges
    BY DEF Next, vars, Begin, TagMatches, Wipe, Retag, LookUp, Replace, AddSymbols, Crash
  <2> QED
    BY <2>1, <2>2
<1>3. GraphInv /\ Kinds => TypeOK
  BY DEF GraphInv, SyncInv, Running, TypeOK, Entries
<1> QED
  BY <1>1, <1>2, <1>3, GraphIndexInvariant, PTL DEF Spec

\* Every row of graph_facts is what the extractor named by graph_facts_tag
\* makes of the blob, whatever versions have synced and wherever they died.
THEOREM GraphIndexCacheFaithful == Spec => []CacheFaithful
<1>1. GraphInv => CacheFaithful
  BY DEF GraphInv, CacheInv
<1> QED
  BY <1>1, GraphIndexInvariant, PTL

\* The tables a completed sync leaves are those of an extraction from nothing.
THEOREM GraphIndexIsExtraction == Spec => []GraphIsExtraction
<1>1. GraphInv => GraphIsExtraction
  BY DEF GraphInv, TableInv
<1> QED
  BY <1>1, GraphIndexInvariant, PTL

\* sync_graph parses nothing that a completed sync of its version has parsed.
THEOREM GraphIndexNothingParsedTwice == Spec => []NothingParsedTwice
<1>1. GraphInv => NothingParsedTwice
  BY DEF GraphInv, StoredInv, NothingParsedTwice
<1> QED
  BY <1>1, GraphIndexInvariant, PTL


-----------------------------------------------------------------------------
(* What resolution finds is in the project.                                *)

LEMMA OptionsIn ==
  ASSUME NEW options, NEW S, \A i \in DOMAIN options : options[i] \subseteq S
  PROVE  FirstOption(options) \subseteq S /\ LastOption(options) \subseteq S
  BY DEF FirstOption, LastOption

LEMMA BestIn == ASSUME NEW S PROVE BestOf(S) \subseteq S
  BY DEF BestOf

\* Of a set of numbers, or of things that have numbers, one is least.
LEMMA LeastNumber ==
  ASSUME NEW S, S \subseteq Nat, S # {}
  PROVE  \E x \in S : \A y \in S : x <= y
<1>1. PICK x \in S : \A y \in S : ~ (<<y, x>> \in OpToRel(<, Nat))
  <2> HIDE DEF OpToRel
  <2> QED BY WFMin, NatLessThanWellFounded
<1>2. ASSUME NEW y \in S PROVE x <= y
  <2>1. SUFFICES ASSUME y < x PROVE FALSE
    OBVIOUS
  <2>2. <<y, x>> \in OpToRel(<, Nat)
    BY <2>1, Zenon DEF OpToRel
  <2> QED
    BY <2>2, <1>1
<1> QED
  BY <1>2

Families == {"python", "ecma", "go", "proto"}

LEMMA FamilyKnown ==
  ASSUME NEW p, Supported(p)
  PROVE  Family(p) \in Families
  BY DEF Supported, Family, Language, LanguageOf, Families

LEMMA FirstOfIn ==
  ASSUME NEW candidates, NEW project
  PROVE  FirstOf(candidates, project) \subseteq project
<1> DEFINE options == [i \in DOMAIN candidates |-> {p \in project : Path[p] = candidates[i]}]
<1>1. \A i \in DOMAIN options : options[i] \subseteq project
  OBVIOUS
<1>2. FirstOf(candidates, project) = FirstOption(options)
  BY DEF FirstOf
<1> HIDE DEF options
<1> QED BY <1>1, <1>2, OptionsIn

LEMMA PathsNat == Paths \subseteq Nat
  BY ExtractionAssumption DEF Paths

LEMMA GoImportIn ==
  ASSUME NEW text, NEW project, project \subseteq Paths
  PROVE  GoImport(text, project) \subseteq project
<1> DEFINE parts == SelectSeq(text, LAMBDA part : part # <<"">>)
           In(i) == {p \in project : Ext(p) = "go" /\ Dir(p) = SubSeq(parts, i, Len(parts))}
           options == [i \in DOMAIN parts |-> In(i)]
           package == FirstOption(options)
<1>1. GoImport(text, project) = IF package = {} THEN {} ELSE {Least(package)}
  BY DEF GoImport
<1>2. \A i \in DOMAIN options : options[i] \subseteq project
  <2> HIDE DEF parts
  <2> QED OBVIOUS
<1> HIDE DEF options
<1>3. package \subseteq project
  BY <1>2, OptionsIn
<1> HIDE DEF package
<1>4. package # {} => Least(package) \in package
  BY <1>3, LeastIn
<1> QED
  BY <1>1, <1>3, <1>4

LEMMA ProtoImportIn ==
  ASSUME NEW text, NEW project
  PROVE  ProtoImport(text, project) \subseteq project
<1> DEFINE Ends(p) == \E i \in 2..Len(Path[p]) : text = SubSeq(Path[p], i, Len(Path[p]))
           exact == {p \in project : Path[p] = text}
           vendored == {p \in project : Ends(p)}
<1>1. ProtoImport(text, project)
        = IF exact # {} THEN exact ELSE IF Cardinality(vendored) = 1 THEN vendored ELSE {}
  BY DEF ProtoImport
<1>2. exact \subseteq project /\ vendored \subseteq project
  OBVIOUS
<1> HIDE DEF exact, vendored
<1> QED BY <1>1, <1>2

\* Python's and TypeScript's resolvers look for candidates that do not depend
\* on the project.
LEMMA PyCandidates ==
  ASSUME NEW text, NEW p
  PROVE  \/ \A S : PyImport(text, p, S) = {}
         \/ \E C : \E candidates \in Seq(C) :
              \A S : PyImport(text, p, S) = FirstOf(candidates, S)
<1> DEFINE pieces == text[1]
           dots == Cardinality({i \in 1..(Len(pieces) - 1) : \A j \in 1..i : pieces[j] = ""})
           Apart(ps) == [i \in DOMAIN ps |-> <<ps[i]>>]
           parts == IF dots = 0 THEN Apart(pieces)
                    ELSE Above(p, dots - 1) \o Apart(SelectSeq(pieces, LAMBDA s : s # ""))
           candidates == <<WithExt(parts, "py"), Append(parts, <<"__init__", "py">>)>>
<1>1. \A S : PyImport(text, p, S) = IF parts = <<>> THEN {} ELSE FirstOf(candidates, S)
  BY DEF PyImport
<1> HIDE DEF parts
<1> DEFINE C == {WithExt(parts, "py"), Append(parts, <<"__init__", "py">>)}
<1>2. candidates \in Seq(C)
  OBVIOUS
<1> HIDE DEF candidates, C
<1> QED BY <1>1, <1>2

LEMMA TSCandidates ==
  ASSUME NEW text, NEW p
  PROVE  \/ \A S : TSImport(text, p, S) = {}
         \/ \E C : \E candidates \in Seq(C) :
              \A S : TSImport(text, p, S) = FirstOf(candidates, S)
<1> DEFINE relative == Len(text[1]) > 1 /\ text[1][1] = ""
           stem == Normal(Dir(p) \o text)
           plain == [i \in DOMAIN TSExtensions |-> WithExt(stem, TSExtensions[i])]
           index == [i \in DOMAIN TSExtensions |-> Append(stem, <<"index", TSExtensions[i]>>)]
           candidates == <<stem>> \o plain \o index
<1>1. \A S : TSImport(text, p, S) = IF ~relative THEN {} ELSE FirstOf(candidates, S)
  BY Zenon DEF TSImport
<1> HIDE DEF relative, stem
<1> DEFINE E == {"ts", "tsx", "js", "jsx", "mjs", "cjs"}
           C == {stem} \cup {WithExt(stem, e) : e \in E} \cup {Append(stem, <<"index", e>>) : e \in E}
<1>2. TSExtensions \in Seq(E) /\ DOMAIN TSExtensions = 1..Len(TSExtensions)
  BY DEF TSExtensions
<1>3. Len(TSExtensions) \in Nat /\ \A i \in 1..Len(TSExtensions) : TSExtensions[i] \in E
  BY <1>2
<1> HIDE DEF E
<1>4. plain \in Seq(C)
  <2>1. plain = [i \in 1..Len(TSExtensions) |-> WithExt(stem, TSExtensions[i])]
    BY <1>2
  <2>2. \A i \in 1..Len(TSExtensions) : WithExt(stem, TSExtensions[i]) \in C
    BY <1>3
  <2> HIDE DEF plain, C
  <2> QED BY <1>3, <2>1, <2>2
<1>5. index \in Seq(C)
  <2>1. index = [i \in 1..Len(TSExtensions) |-> Append(stem, <<"index", TSExtensions[i]>>)]
    BY <1>2
  <2>2. \A i \in 1..Len(TSExtensions) : Append(stem, <<"index", TSExtensions[i]>>) \in C
    BY <1>3
  <2> HIDE DEF index, C
  <2> QED BY <1>3, <2>1, <2>2
<1>6. candidates \in Seq(C)
  <2>1. <<stem>> \in Seq(C)
    OBVIOUS
  <2> HIDE DEF plain, index, C
  <2> QED BY <1>4, <1>5, <2>1
<1> HIDE DEF candidates, C
<1> QED BY <1>1, <1>6

LEMMA ResolveImportIn ==
  ASSUME NEW text, NEW p, Supported(p), NEW project, project \subseteq Paths
  PROVE  ResolveImport(text, p, project) \subseteq project
<1>1. PyImport(text, p, project) \subseteq project
  BY PyCandidates, FirstOfIn
<1>2. TSImport(text, p, project) \subseteq project
  BY TSCandidates, FirstOfIn
<1>3. GoImport(text, project) \subseteq project
  BY GoImportIn
<1>4. ProtoImport(text, project) \subseteq project
  BY ProtoImportIn
<1>5. Family(p) \in Families
  BY FamilyKnown
<1>6. \/ ResolveImport(text, p, project) = PyImport(text, p, project)
      \/ ResolveImport(text, p, project) = TSImport(text, p, project)
      \/ ResolveImport(text, p, project) = GoImport(text, project)
      \/ ResolveImport(text, p, project) = ProtoImport(text, project)
  BY <1>5 DEF ResolveImport, Families
<1> QED
  BY <1>1, <1>2, <1>3, <1>4, <1>6


\* One file per path, whose module and definitions are of that path; a definition
\* has a span, and is the only one of its span and name in its file.
FileFormed(f) ==
  /\ f.path \in Paths /\ Supported(f.path)
  /\ f.module.path = f.path /\ f.module.kind = "module"
  /\ \A d \in f.defs : /\ d.path = f.path /\ d.kind # "module"
                       /\ d.from \in Nat /\ d.to \in Nat /\ d.from <= d.to
  /\ \A d, e \in f.defs : Id(d) = Id(e) => d = e

Formed(files) ==
  /\ \A f \in files : FileFormed(f)
  /\ \A f, g \in files : f.path = g.path => f = g

NodesOf(files) == {f.module : f \in files} \cup AllDefs(files)

\* A span keeps one capture.
LEMMA KeptOnce ==
  ASSUME NEW caps, DOMAIN caps \subseteq Nat,
         \A i \in DOMAIN caps : caps[i].tag = "def" => caps[i].kind \in DOMAIN Priority,
         NEW i \in Kept(caps), NEW j \in Kept(caps),
         caps[i].from = caps[j].from, caps[i].to = caps[j].to
  PROVE  i = j
<1> DEFINE Beats(a, b) == \/ Priority[caps[a].kind] > Priority[caps[b].kind]
                          \/ Priority[caps[a].kind] = Priority[caps[b].kind] /\ a < b
<1>1. /\ i \in DOMAIN caps /\ j \in DOMAIN caps /\ caps[i].tag = "def" /\ caps[j].tag = "def"
      /\ i # j => Beats(i, j) /\ Beats(j, i)
  BY DEF Kept, Tagged
<1>2. \A k \in DOMAIN Priority : Priority[k] \in Int
  BY DEF Priority
<1> DEFINE x == Priority[caps[i].kind]
           y == Priority[caps[j].kind]
<1>3. x \in Int /\ y \in Int /\ i \in Int /\ j \in Int
  BY <1>1, <1>2
<1>4. i # j => (x > y \/ (x = y /\ i < j)) /\ (y > x \/ (y = x /\ j < i))
  BY <1>1
<1> HIDE DEF x, y
<1> QED
  BY <1>3, <1>4

LEMMA DefsFormed ==
  ASSUME NEW caps, DOMAIN caps \subseteq Nat,
         \A i \in DOMAIN caps : caps[i].tag = "def" =>
           /\ caps[i].kind \in DOMAIN Priority
           /\ {caps[i].from, caps[i].to} \subseteq Nat /\ caps[i].from <= caps[i].to
  PROVE  /\ \A d \in Defs(caps) : d.kind # "module" /\ d.from \in Nat /\ d.to \in Nat /\ d.from <= d.to
         /\ \A d, e \in Defs(caps) : d.from = e.from /\ d.to = e.to => d = e
<1> DEFINE kept == Kept(caps)
           Around(i) == {j \in kept \ {i} : caps[j].from <= caps[i].from /\ caps[i].to <= caps[j].to}
           InClass(i) == \E j \in Around(i) : caps[j].kind = "class" /\
                           \A k \in Around(i) : caps[j].to - caps[j].from <= caps[k].to - caps[k].from
           Kind(i) == CASE caps[i].kind = "function" /\ InClass(i) -> "method"
                        [] caps[i].kind = "variable" /\ caps[i].name \in Shouty -> "const"
                        [] OTHER -> caps[i].kind
           D(i) == [symbol |-> Named(caps[i].name), kind |-> Kind(i), from |-> caps[i].from, to |-> caps[i].to]
<1>1. Defs(caps) = {D(i) : i \in kept}
  BY Zenon DEF Defs
<1>2. \A i \in kept : i \in DOMAIN caps /\ caps[i].tag = "def"
  BY DEF Kept, Tagged
<1>3. ASSUME NEW i \in kept PROVE Kind(i) # "module"
  <2>1. caps[i].kind # "module"
    BY <1>2 DEF Priority
  <2>2. Kind(i) \in {"method", "const", caps[i].kind}
    <3> HIDE DEF InClass
    <3> QED BY Zenon
  <2> QED BY <2>1, <2>2
<1>4. \A i \in kept : /\ D(i).kind = Kind(i) /\ D(i).from = caps[i].from /\ D(i).to = caps[i].to
  OBVIOUS
<1>5. \A i, j \in kept : caps[i].from = caps[j].from /\ caps[i].to = caps[j].to => i = j
  BY KeptOnce
<1> HIDE DEF kept, Kind, D
<1> QED
  BY <1>1, <1>2, <1>3, <1>4, <1>5

LEMMA ProjectFormed ==
  ASSUME NEW t \in Tags, NEW map \in FileMaps
  PROVE  Formed(Project(t, map))
<1>1. ASSUME NEW p \in Entries(map)
      PROVE  LET f == Decode(FactsOf(t, Key(map, p)), p, map[p])
             IN  f.path = p /\ FileFormed(f)
  <2> DEFINE k == Key(map, p)
             caps == Parsed[t][k].captures
             facts == FactsOf(t, k)
             f == Decode(facts, p, map[p])
  <2>1. k \in DOMAIN Parsed[t] /\ p \in Paths /\ Supported(p)
    BY GraphIndexAssumption DEF Keys, Entries
  <2>2. /\ DOMAIN caps \subseteq Nat
        /\ \A i \in DOMAIN caps : caps[i].tag = "def" =>
             /\ caps[i].kind \in DOMAIN Priority
             /\ {caps[i].from, caps[i].to} \subseteq Nat /\ caps[i].from <= caps[i].to
    BY <2>1, CaptureAssumption
  <2>3. facts.defs = Defs(caps)
    BY DEF FactsOf, Facts
  <2> HIDE DEF caps, k
  <2>4. /\ \A d \in facts.defs : d.kind # "module" /\ d.from \in Nat /\ d.to \in Nat /\ d.from <= d.to
        /\ \A d, e \in facts.defs : d.from = e.from /\ d.to = e.to => d = e
    BY <2>2, <2>3, DefsFormed
  <2> HIDE DEF facts
  <2> DEFINE N(d) == [symbol |-> d.symbol, kind |-> d.kind, blob |-> map[p], from |-> d.from,
                      to |-> d.to, path |-> p]
  <2>5. /\ f.path = p /\ f.module.path = p /\ f.module.kind = "module"
        /\ f.defs = {N(d) : d \in facts.defs}
    BY DEF Decode
  <2> HIDE DEF f
  <2>6. \A d \in f.defs : /\ d.path = p /\ d.kind # "module"
                          /\ d.from \in Nat /\ d.to \in Nat /\ d.from <= d.to
    BY <2>4, <2>5
  <2>7. ASSUME NEW d \in f.defs, NEW e \in f.defs, Id(d) = Id(e) PROVE d = e
    <3>1. PICK x \in facts.defs : d = N(x)
      BY <2>5
    <3>2. PICK y \in facts.defs : e = N(y)
      BY <2>5
    <3>3. d.from = x.from /\ d.to = x.to /\ e.from = y.from /\ e.to = y.to
      BY <3>1, <3>2
    <3>4. x.from = y.from /\ x.to = y.to
      BY <2>7, <3>3 DEF Id
    <3>5. x = y
      BY <2>4, <3>4
    <3> QED BY <3>1, <3>2, <3>5
  <2>8. f.path = p /\ FileFormed(f)
    BY <2>1, <2>5, <2>6, <2>7 DEF FileFormed
  <2> QED BY <2>8 DEF f, facts, k
<1> DEFINE F(p) == Decode(FactsOf(t, Key(map, p)), p, map[p])
<1>2. Project(t, map) = {F(p) : p \in Entries(map)}
  BY DEF Project
<1>3. \A p \in Entries(map) : F(p).path = p /\ FileFormed(F(p))
  BY <1>1
<1> HIDE DEF F
<1> QED
  BY <1>2, <1>3 DEF Formed


\* Of the nodes with one id, the table has the first.
LEMMA RowOfId ==
  ASSUME NEW files, Formed(files), NEW n \in NodesOf(files)
  PROVE  \E r \in SymbolRows(files) : Id(r) = Id(n)
<1> DEFINE nodes == NodesOf(files)
           same == {m \in nodes : Id(m) = Id(n)}
           bit(m) == IF m.kind = "module" THEN 0 ELSE 1
           weight(m) == 2 * m.path + bit(m)
           weights == {weight(m) : m \in same}
<1>1. ASSUME NEW m \in nodes
      PROVE  \E f \in files : m.path = f.path /\ FileFormed(f)
                               /\ \/ m = f.module /\ bit(m) = 0
                                  \/ m \in f.defs /\ bit(m) = 1
  <2>1. PICK f \in files : m = f.module \/ m \in f.defs
    BY DEF NodesOf, AllDefs
  <2>2. FileFormed(f)
    BY DEF Formed
  <2> QED BY <2>1, <2>2 DEF FileFormed
<1>2. ASSUME NEW m \in nodes PROVE m.path \in Nat /\ bit(m) \in {0, 1} /\ weight(m) \in Nat
  <2>1. m.path \in Nat /\ bit(m) \in {0, 1}
    BY <1>1, PathsNat DEF FileFormed
  <2> HIDE DEF bit
  <2> QED BY <2>1
<1>3. ASSUME NEW m \in same, NEW o \in same, m.path = o.path, bit(m) = bit(o) PROVE m = o
  <2>1. PICK f \in files : /\ m.path = f.path /\ FileFormed(f)
                           /\ \/ m = f.module /\ bit(m) = 0
                              \/ m \in f.defs /\ bit(m) = 1
    BY <1>1
  <2>2. PICK g \in files : /\ o.path = g.path
                           /\ \/ o = g.module /\ bit(o) = 0
                              \/ o \in g.defs /\ bit(o) = 1
    BY <1>1
  <2>3. f = g /\ Id(m) = Id(o)
    BY <1>3, <2>1, <2>2 DEF Formed
  <2> HIDE DEF bit
  <2> QED BY <1>3, <2>1, <2>2, <2>3 DEF FileFormed
<1>4. weights \subseteq Nat /\ weights # {}
  <2>1. n \in same
    OBVIOUS
  <2> HIDE DEF weight
  <2> QED BY <1>2, <2>1
<1>5. PICK w \in weights : \A x \in weights : w <= x
  <2> HIDE DEF weights
  <2> QED BY <1>4, LeastNumber
<1>6. PICK r \in same : \A m \in same : weight(r) <= weight(m)
  <2> HIDE DEF weight, same
  <2> QED BY <1>5
<1> DEFINE Rank(m) == <<m.path, bit(m)>>
<1>7. ASSUME NEW m \in nodes \ {r}, Id(m) = Id(r) PROVE Lex(Rank(r), Rank(m))
  <2>1. m \in same /\ m # r /\ weight(r) <= weight(m) /\ r \in nodes
    BY <1>6, <1>7
  <2>2. ~(m.path = r.path /\ bit(m) = bit(r))
    BY <1>3, <2>1
  <2>3. /\ m.path \in Nat /\ bit(m) \in {0, 1} /\ r.path \in Nat /\ bit(r) \in {0, 1}
    BY <1>2, <2>1
  <2> DEFINE a == r.path
             b == bit(r)
             c == m.path
             d == bit(m)
  <2>4. 2 * a + b <= 2 * c + d
    BY <2>1
  <2> HIDE DEF a, b, c, d, bit
  <2>5. a < c \/ (a = c /\ b < d)
    BY <2>2, <2>3, <2>4 DEF a, b, c, d
  <2>6. Rank(r) = <<a, b>> /\ Rank(m) = <<c, d>>
    BY DEF a, b, c, d
  <2>7. Lex(<<a, b>>, <<c, d>>)
    BY <2>5 DEF Lex
  <2> QED BY <2>6, <2>7
<1>8. SymbolRows(files) = {x \in nodes : \A m \in nodes \ {x} : Id(m) = Id(x) => Lex(Rank(x), Rank(m))}
  BY Zenon DEF SymbolRows, NodesOf
<1> HIDE DEF Rank
<1> QED
  BY <1>6, <1>7, <1>8

\* The innermost of some definitions of a file, or its module, is in the file.
LEMMA InnermostIn ==
  ASSUME NEW f, FileFormed(f), NEW S \in SUBSET f.defs
  PROVE  Innermost(f, S) \in {f.module} \cup f.defs
<1>1. CASE S = {}
  BY <1>1 DEF Innermost
<1>2. CASE S # {}
  <2> DEFINE size(d) == d.to - d.from
             sizes == {size(d) : d \in S}
  <2>1. \A d \in S : size(d) \in Nat
    BY DEF FileFormed
  <2>2. sizes \subseteq Nat /\ sizes # {}
    <3> HIDE DEF size
    <3> QED BY <1>2, <2>1
  <2>3. PICK x \in sizes : \A y \in sizes : x <= y
    <3> HIDE DEF sizes
    <3> QED BY <2>2, LeastNumber
  <2>4. \E d \in S : \A e \in S : size(d) <= size(e)
    <3> HIDE DEF size
    <3> QED BY <2>3
  <2>5. (CHOOSE d \in S : \A e \in S : d.to - d.from <= e.to - e.from) \in S
    BY <2>4
  <2> QED BY <1>2, <2>5, Zenon DEF Innermost
<1> QED
  BY <1>1, <1>2

\* The file at one of the project's paths.
LEMMA FileAtIn ==
  ASSUME NEW files, NEW p \in PathsOf(files)
  PROVE  FileAt(p, files) \in files /\ FileAt(p, files).path = p
<1>1. \E f \in files : f.path = p
  BY DEF PathsOf
<1>2. (CHOOSE f \in files : f.path = p) \in files /\ (CHOOSE f \in files : f.path = p).path = p
  BY <1>1
<1> QED
  BY <1>2, Zenon DEF FileAt

LEMMA FormedPaths ==
  ASSUME NEW files, Formed(files)
  PROVE  PathsOf(files) \subseteq Paths
  BY DEF Formed, FileFormed, PathsOf

LEMMA ImportTargetIn ==
  ASSUME NEW files, Formed(files), NEW f \in files, NEW imp
  PROVE  ImportTarget(imp, f, files) \subseteq NodesOf(files)
<1> DEFINE Found(text) == ResolveImport(text, f.path, PathsOf(files))
           found == Found(imp.module)
           submodule == IF imp.name = "" THEN {} ELSE Found(Within(imp.module, imp.name))
           named == {d \in UNION {FileAt(p, files).defs : p \in found} : d.symbol = Named(imp.name)}
           options == <<BestOf(named), Modules(submodule, files), Modules(found, files)>>
<1>1. ImportTarget(imp, f, files) = IF found = {} THEN {} ELSE FirstOption(options)
  BY DEF ImportTarget, Meaning
<1>2. \A text : Found(text) \subseteq PathsOf(files)
  BY FormedPaths, ResolveImportIn DEF Formed, FileFormed
<1>3. found \subseteq PathsOf(files) /\ submodule \subseteq PathsOf(files)
  <2> HIDE DEF Found
  <2> QED BY <1>2
<1> HIDE DEF found, submodule
<1>4. \A S \in SUBSET PathsOf(files) : Modules(S, files) \subseteq NodesOf(files)
  BY FileAtIn DEF Modules, NodesOf
<1>5. BestOf(named) \subseteq NodesOf(files)
  <2>1. named \subseteq NodesOf(files)
    BY <1>3, FileAtIn DEF NodesOf, AllDefs
  <2> HIDE DEF named
  <2> QED BY <2>1, BestIn
<1>6. \A i \in DOMAIN options : options[i] \subseteq NodesOf(files)
  <2>1. Modules(submodule, files) \subseteq NodesOf(files) /\ Modules(found, files) \subseteq NodesOf(files)
    BY <1>3, <1>4
  <2> HIDE DEF named
  <2> QED BY <1>5, <2>1
<1> HIDE DEF options
<1> QED
  BY <1>1, <1>6, OptionsIn

LEMMA ResolveIn ==
  ASSUME NEW files, Formed(files), NEW f \in files, NEW name
  PROVE  Resolve(name, f, files) \subseteq NodesOf(files)
<1> DEFINE local == {d \in f.defs : d.symbol = Named(name)}
           family == {d \in AllDefs(files) : d.symbol = Named(name) /\ Family(d.path) = Family(f.path)}
           package == {d \in family : d.path # f.path /\ Dir(d.path) = Dir(f.path)}
           imported == {n \in Bound(name, f, files) : n.kind # "module"}
           shared == FirstOption(<<BestOf(package), Unique(family)>>)
           options == <<BestOf(local), imported, IF name \in Generic THEN {} ELSE shared>>
<1>1. Resolve(name, f, files) = FirstOption(options)
  BY Zenon DEF Resolve
<1>2. local \subseteq NodesOf(files) /\ family \subseteq NodesOf(files) /\ package \subseteq family
  BY DEF NodesOf, AllDefs
<1> HIDE DEF local, family, package
<1>3. BestOf(local) \subseteq NodesOf(files)
  BY <1>2, BestIn
<1>4. imported \subseteq NodesOf(files)
  <2> DEFINE imps == f.facts.imports
             binders == {i \in DOMAIN imps : name # "" /\ LocalName(imps[i]) = name}
             bound == [i \in binders |-> ImportTarget(imps[i], f, files)]
  <2>1. Bound(name, f, files) = LastOption(bound)
    BY DEF Bound
  <2>2. \A i \in DOMAIN bound : bound[i] \subseteq NodesOf(files)
    BY ImportTargetIn
  <2> HIDE DEF bound
  <2> QED BY <2>1, <2>2, OptionsIn
<1>5. shared \subseteq NodesOf(files)
  <2> DEFINE pair == <<BestOf(package), Unique(family)>>
  <2>1. BestOf(package) \subseteq NodesOf(files) /\ Unique(family) \subseteq NodesOf(files)
    BY <1>2, BestIn DEF Unique
  <2>2. \A i \in DOMAIN pair : pair[i] \subseteq NodesOf(files)
    BY <2>1
  <2> HIDE DEF pair
  <2>3. FirstOption(pair) \subseteq NodesOf(files)
    BY <2>2, OptionsIn
  <2> QED BY <2>3 DEF pair
<1> HIDE DEF imported, shared
<1>6. \A i \in DOMAIN options : options[i] \subseteq NodesOf(files)
  BY <1>3, <1>4, <1>5
<1> HIDE DEF options
<1> QED
  BY <1>1, <1>6, OptionsIn

LEMMA CalleeIn ==
  ASSUME NEW files, Formed(files), NEW f \in files, NEW call
  PROVE  Callee(call, f, files) \subseteq NodesOf(files)
<1>1. ASSUME NEW type PROVE ResolveMethod(type, call.name, f, files) \subseteq NodesOf(files)
  <2> DEFINE methods == UNION {{d \in g.defs : /\ d.symbol = Named(call.name)
                                               /\ d.from \in DOMAIN g.facts.receivers
                                               /\ g.facts.receivers[d.from] = type} :
                                 g \in {g \in files : Family(g.path) = Family(f.path)}}
  <2>1. methods \subseteq NodesOf(files)
    BY DEF NodesOf, AllDefs
  <2>2. ResolveMethod(type, call.name, f, files) = BestOf(methods)
    BY DEF ResolveMethod
  <2> HIDE DEF methods
  <2> QED BY <2>1, <2>2, BestIn
<1> QED
  BY <1>1, ResolveIn DEF Callee

\* Both ends of an edge are nodes of the project.
LEMMA EndsIn ==
  ASSUME NEW files, Formed(files), NEW e \in Edges(files)
  PROVE  \E a, b \in NodesOf(files) : e.src = Id(a) /\ e.dst = Id(b)
<1>1. PICK f \in files : e \in EdgesOf(f, files)
  BY DEF Edges
<1> DEFINE imports == f.facts.imports
           defines == {Edge(Container(f, d), d, "defines") : d \in f.defs}
           imported(i) == {Edge(f.module, t, "imports") : t \in ImportTarget(imports[i], f, files)}
           called(c) == {Edge(Enclosing(f, c.at), t, "calls") : t \in Callee(c, f, files)}
           referenced(r) == {Edge(Enclosing(f, r.at), t, "references") : t \in Resolve(r.name, f, files)}
           all == UNION {defines,
                         UNION {imported(i) : i \in DOMAIN imports},
                         UNION {called(c) : c \in f.facts.calls},
                         UNION {referenced(r) : r \in f.facts.refs}}
<1>2. e \in all
  BY <1>1 DEF EdgesOf
<1>3. \/ e \in defines
      \/ \E i \in DOMAIN imports : e \in imported(i)
      \/ \E c \in f.facts.calls : e \in called(c)
      \/ \E r \in f.facts.refs : e \in referenced(r)
  <2> HIDE DEF defines, imported, called, referenced
  <2> QED BY <1>2
<1>4. FileFormed(f) /\ f.module \in NodesOf(files) /\ f.defs \subseteq NodesOf(files)
  BY DEF Formed, NodesOf, AllDefs
<1>5. \A d : Container(f, d) \in NodesOf(files)
  BY <1>4, InnermostIn DEF Container
<1>6. \A at : Enclosing(f, at) \in NodesOf(files)
  BY <1>4, InnermostIn DEF Enclosing
<1>7. \E a, b \in NodesOf(files) : \E kind : e = Edge(a, b, kind)
  <2>1. CASE e \in defines
    BY <1>4, <1>5, <2>1
  <2>2. CASE \E i \in DOMAIN imports : e \in imported(i)
    <3>1. PICK i \in DOMAIN imports : e \in imported(i)
      BY <2>2
    <3>2. ImportTarget(imports[i], f, files) \subseteq NodesOf(files)
      BY ImportTargetIn
    <3> QED BY <1>4, <3>1, <3>2
  <2>3. CASE \E c \in f.facts.calls : e \in called(c)
    BY <1>6, <2>3, CalleeIn
  <2>4. CASE \E r \in f.facts.refs : e \in referenced(r)
    BY <1>6, <2>4, ResolveIn
  <2> QED BY <1>3, <2>1, <2>2, <2>3, <2>4
<1> QED
  BY <1>7 DEF Edge

\* The edges are none, or those of the project whose symbols the table has.
TablesMatch ==
  \/ edges = {}
  \/ \E t \in Tags, map \in FileMaps :
       LET files == Project(t, map)
       IN  symbols = SymbolRows(files) /\ edges = Edges(files)

LEMMA TablesMatchStep == GraphInv /\ TablesMatch /\ [Next]_vars => TablesMatch'
<1> SUFFICES ASSUME GraphInv, TablesMatch, [Next]_vars PROVE TablesMatch'
  OBVIOUS
<1>1. CASE AddEdges
  <2> DEFINE files == Project(version, fileMap)
  <2>1. version \in Tags /\ fileMap \in FileMaps /\ pc = "edges"
    BY <1>1 DEF AddEdges, GraphInv, SyncInv, Running
  <2>2. symbols = SymbolRows(files) /\ edges = {} /\ CachedProject = files
    BY <2>1, CachedIsProject DEF GraphInv, SyncInv, TableInv
  <2>3. symbols' = SymbolRows(files) /\ edges' = Edges(files)
    BY <1>1, <2>2 DEF AddEdges
  <2> HIDE DEF files
  <2>4. \E t \in Tags, map \in FileMaps :
          symbols' = SymbolRows(Project(t, map)) /\ edges' = Edges(Project(t, map))
    BY <2>1, <2>3 DEF files
  <2> QED BY <2>4 DEF TablesMatch
<1>2. CASE AddSymbols
  BY <1>2 DEF AddSymbols, GraphInv, TableInv, TablesMatch
<1>3. CASE Replace
  BY <1>3 DEF Replace, TablesMatch
<1>4. CASE UNCHANGED <<symbols, edges>>
  BY <1>4 DEF TablesMatch
<1> QED
  BY <1>1, <1>2, <1>3, <1>4
     DEF Next, vars, Begin, TagMatches, Wipe, Retag, LookUp, Crash, run, Rest

\* During a sync and after one that failed, too, an edge of the table joins two
\* symbols of the table, for any project: of the nodes with one id the table keeps
\* one, and an edge names ids.
THEOREM GraphIndexEdgesClosed == Spec => []EdgesClosed
<1>1. Init => TablesMatch
  BY DEF Init, TablesMatch
<1>2. TablesMatch => EdgesClosed
  <2> SUFFICES ASSUME TablesMatch, NEW e \in edges
               PROVE  LET ids == {Id(n) : n \in symbols} IN e.src \in ids /\ e.dst \in ids
    BY DEF EdgesClosed
  <2>1. PICK t \in Tags, map \in FileMaps :
          symbols = SymbolRows(Project(t, map)) /\ edges = Edges(Project(t, map))
    BY DEF TablesMatch
  <2> DEFINE files == Project(t, map)
  <2>2. symbols = SymbolRows(files) /\ edges = Edges(files) /\ Formed(files)
    BY <2>1, ProjectFormed
  <2> HIDE DEF files
  <2>3. PICK a, b \in NodesOf(files) : e.src = Id(a) /\ e.dst = Id(b)
    BY <2>2, EndsIn
  <2> QED BY <2>2, <2>3, RowOfId
<1> QED
  BY <1>1, <1>2, TablesMatchStep, GraphIndexInvariant, PTL DEF Spec


-----------------------------------------------------------------------------
(* What the files of other language families change: nothing.              *)

\* The family of a path is that of its extension.
FamilyOf(ext) ==
  IF LanguageOf[ext] \in {"typescript", "tsx", "javascript"} THEN "ecma" ELSE LanguageOf[ext]

LEMMA FamilyByExt == ASSUME NEW p PROVE Family(p) = FamilyOf(Ext(p))
  BY DEF Family, Language, FamilyOf

\* Candidates looked for in some of a project's paths, if the first is there.
LEMMA FirstOfKin ==
  ASSUME NEW C, NEW candidates \in Seq(C), NEW project, NEW K \in SUBSET project,
         FirstOf(candidates, project) \subseteq K
  PROVE  FirstOf(candidates, K) = FirstOf(candidates, project)
<1> DEFINE n == Len(candidates)
           In(S, i) == {p \in S : Path[p] = candidates[i]}
           first(S) == {i \in 1..n : \A j \in 1..(i - 1) : In(S, j) = {}}
<1>1. n \in Nat /\ DOMAIN candidates = 1..n
  OBVIOUS
<1>2. \A S : FirstOf(candidates, S) = UNION {In(S, i) : i \in first(S)}
  <2> SUFFICES ASSUME NEW S PROVE FirstOf(candidates, S) = UNION {In(S, i) : i \in first(S)}
    OBVIOUS
  <2> DEFINE options == [i \in DOMAIN candidates |-> In(S, i)]
  <2>1. FirstOf(candidates, S) = FirstOption(options)
    BY DEF FirstOf
  <2>2. DOMAIN options = 1..n /\ \A i \in 1..n : options[i] = In(S, i)
    BY <1>1
  <2> HIDE DEF options, In, n
  <2>3. FirstOption(options)
          = UNION {options[i] : i \in {i \in 1..n : \A j \in 1..(i - 1) : options[j] = {}}}
    BY <2>2, Zenon DEF FirstOption
  <2>4. {i \in 1..n : \A j \in 1..(i - 1) : options[j] = {}} = first(S)
    BY <1>1, <2>2
  <2> QED BY <2>1, <2>2, <2>3, <2>4
<1>3. ASSUME NEW i \in first(project) PROVE i \in first(K) /\ In(K, i) = In(project, i)
  <2>1. In(project, i) \subseteq K
    <3> HIDE DEF In, first
    <3> QED BY <1>2
  <2>2. \A j : In(K, j) \subseteq In(project, j)
    OBVIOUS
  <2> QED BY <2>1, <2>2
<1>4. ASSUME NEW i \in first(K), In(K, i) # {} PROVE i \in first(project)
  <2> SUFFICES ASSUME i \notin first(project) PROVE FALSE
    OBVIOUS
  <2> DEFINE some == {j \in 1..(i - 1) : In(project, j) # {}}
  <2> HIDE DEF In, n
  <2>1. some \subseteq Nat /\ some # {} /\ i \in 1..n
    BY <1>1
  <2>2. PICK j \in some : \A k \in some : j <= k
    <3> HIDE DEF some
    <3> QED BY <2>1, LeastNumber
  <2>3. j \in first(project) /\ j \in 1..(i - 1) /\ In(project, j) # {}
    BY <1>1, <2>1, <2>2
  <2>4. In(K, j) = In(project, j)
    <3> HIDE DEF first
    <3> QED BY <1>3, <2>3
  <2> QED BY <2>3, <2>4
<1> HIDE DEF In, first
<1>5. UNION {In(K, i) : i \in first(K)} = UNION {In(project, i) : i \in first(project)}
  BY <1>3, <1>4
<1> QED BY <1>2, <1>5

LEMMA GoImportKin ==
  ASSUME NEW text, NEW project
  PROVE  LET K == {q \in project : Family(q) = "go"}
         IN  GoImport(text, K) = GoImport(text, project)
<1> DEFINE K == {q \in project : Family(q) = "go"}
           parts == SelectSeq(text, LAMBDA part : part # <<"">>)
           In(S, i) == {p \in S : Ext(p) = "go" /\ Dir(p) = SubSeq(parts, i, Len(parts))}
           package(S) == FirstOption([i \in DOMAIN parts |-> In(S, i)])
<1>1. \A S : GoImport(text, S) = IF package(S) = {} THEN {} ELSE {Least(package(S))}
  BY DEF GoImport
<1>2. FamilyOf("go") = "go"
  BY DEF FamilyOf, LanguageOf
<1> HIDE DEF parts
<1>3. \A i : In(K, i) = In(project, i)
  BY <1>2, FamilyByExt
<1> HIDE DEF In
<1>4. package(K) = package(project)
  <2>1. [i \in DOMAIN parts |-> In(K, i)] = [i \in DOMAIN parts |-> In(project, i)]
    BY <1>3
  <2> QED BY <2>1
<1> HIDE DEF package, K
<1>5. GoImport(text, K) = GoImport(text, project)
  BY <1>1, <1>4
<1> QED BY <1>5 DEF K

LEMMA ProtoImportKin ==
  ASSUME NEW text, NEW project, project \subseteq Paths, NEW family,
         \A q \in ProtoImport(text, project) : Family(q) = family
  PROVE  ProtoImport(text, {q \in project : Family(q) = family}) = ProtoImport(text, project)
<1> DEFINE K == {q \in project : Family(q) = family}
           Ends(p) == \E i \in 2..Len(Path[p]) : text = SubSeq(Path[p], i, Len(Path[p]))
           exact(S) == {q \in S : Path[q] = text}
           vendored(S) == {q \in S : Ends(q)}
<1>1. \A S : ProtoImport(text, S)
               = IF exact(S) # {} THEN exact(S)
                 ELSE IF Cardinality(vendored(S)) = 1 THEN vendored(S) ELSE {}
  BY DEF ProtoImport
<1>2. exact(K) = exact(project) \cap K /\ vendored(K) = vendored(project) \cap K
  <2> HIDE DEF Ends
  <2> QED OBVIOUS
<1>3. \A q \in vendored(project) : Family(q) = FamilyOf(ExtOf(text[Len(text)]))
  <2> SUFFICES ASSUME NEW q \in project, NEW i \in 2..Len(Path[q]),
                      text = SubSeq(Path[q], i, Len(Path[q]))
               PROVE  Family(q) = FamilyOf(ExtOf(text[Len(text)]))
    OBVIOUS
  <2>1. Path[q] \in Seq(Seq(STRING))
    BY ExtractionAssumption DEF Paths
  <2> DEFINE path == Path[q]
  <2> HIDE DEF path
  <2>2. \A s \in Seq(Seq(STRING)) : \A k \in 2..Len(s) :
           Len(SubSeq(s, k, Len(s))) = Len(s) - k + 1
           /\ SubSeq(s, k, Len(s))[Len(s) - k + 1] = s[Len(s)]
    OBVIOUS
  <2>3. text[Len(text)] = Path[q][Len(Path[q])]
    BY <2>1, <2>2
  <2> QED BY <2>3, FamilyByExt DEF Ext, Last
<1>3a. vendored(project) \subseteq project
  OBVIOUS
<1> HIDE DEF exact, vendored
<1>4. vendored(K) = vendored(project) \/ vendored(K) = {}
  BY <1>2, <1>3, <1>3a
<1>5. \A q \in ProtoImport(text, project) : q \in project => q \in K
  OBVIOUS
<1>6. ProtoImport(text, project) \subseteq project
  BY ProtoImportIn
<1> HIDE DEF K
<1>7. ProtoImport(text, K) = ProtoImport(text, project)
  BY <1>1, <1>2, <1>4, <1>5, <1>6
<1> QED BY <1>7 DEF K

\* To the files of one family alone an import means the same, or it finds a file
\* of another family.
LEMMA ResolveImportKin ==
  ASSUME NEW text, NEW p, Supported(p), NEW project, project \subseteq Paths,
         \A q \in ResolveImport(text, p, project) : Family(q) = Family(p)
  PROVE  ResolveImport(text, p, {q \in project : Family(q) = Family(p)})
           = ResolveImport(text, p, project)
<1> DEFINE K == {q \in project : Family(q) = Family(p)}
<1>0. K \subseteq project /\ ResolveImport(text, p, project) \subseteq K
  BY ResolveImportIn
<1>1. Family(p) \in Families
  BY FamilyKnown
<1>2. CASE Family(p) = "python"
  <2>1. \A S : ResolveImport(text, p, S) = PyImport(text, p, S)
    BY <1>2 DEF ResolveImport
  <2> HIDE DEF K
  <2>2. PyImport(text, p, K) = PyImport(text, p, project)
    <3>1. CASE \A S : PyImport(text, p, S) = {}
      BY <3>1
    <3>2. CASE \E C : \E candidates \in Seq(C) :
                 \A S : PyImport(text, p, S) = FirstOf(candidates, S)
      <4>1. PICK C : \E candidates \in Seq(C) :
                       \A S : PyImport(text, p, S) = FirstOf(candidates, S)
        BY <3>2
      <4>2. PICK candidates \in Seq(C) :
              \A S : PyImport(text, p, S) = FirstOf(candidates, S)
        BY <4>1
      <4>3. FirstOf(candidates, project) \subseteq K
        BY <1>0, <2>1, <4>2
      <4>4. FirstOf(candidates, K) = FirstOf(candidates, project)
        BY <1>0, <4>3, FirstOfKin
      <4> QED BY <4>2, <4>4
    <3> QED BY <3>1, <3>2, PyCandidates
  <2> QED BY <2>1, <2>2 DEF K
<1>3. CASE Family(p) = "ecma"
  <2>1. \A S : ResolveImport(text, p, S) = TSImport(text, p, S)
    BY <1>3 DEF ResolveImport
  <2> HIDE DEF K
  <2>2. TSImport(text, p, K) = TSImport(text, p, project)
    <3>1. CASE \A S : TSImport(text, p, S) = {}
      BY <3>1
    <3>2. CASE \E C : \E candidates \in Seq(C) :
                 \A S : TSImport(text, p, S) = FirstOf(candidates, S)
      <4>1. PICK C : \E candidates \in Seq(C) :
                       \A S : TSImport(text, p, S) = FirstOf(candidates, S)
        BY <3>2
      <4>2. PICK candidates \in Seq(C) :
              \A S : TSImport(text, p, S) = FirstOf(candidates, S)
        BY <4>1
      <4>3. FirstOf(candidates, project) \subseteq K
        BY <1>0, <2>1, <4>2
      <4>4. FirstOf(candidates, K) = FirstOf(candidates, project)
        BY <1>0, <4>3, FirstOfKin
      <4> QED BY <4>2, <4>4
    <3> QED BY <3>1, <3>2, TSCandidates
  <2> QED BY <2>1, <2>2 DEF K
<1>4. CASE Family(p) = "go"
  <2>1. \A S : ResolveImport(text, p, S) = GoImport(text, S)
    BY <1>4 DEF ResolveImport
  <2> QED BY <1>4, <2>1, GoImportKin
<1>5. CASE Family(p) = "proto"
  <2>1. \A S : ResolveImport(text, p, S) = ProtoImport(text, S)
    BY <1>5 DEF ResolveImport
  <2>2. \A q \in ProtoImport(text, project) : Family(q) = Family(p)
    BY <2>1
  <2>3. ProtoImport(text, K) = ProtoImport(text, project)
    BY <2>2, ProtoImportKin
  <2> HIDE DEF K
  <2>4. ResolveImport(text, p, K) = ResolveImport(text, p, project)
    BY <2>1, <2>3
  <2> QED BY <2>4 DEF K
<1> QED BY <1>1, <1>2, <1>3, <1>4, <1>5 DEF Families

Kin(f, files) == {g \in files : Family(g.path) = Family(f.path)}

LEMMA KinFormed ==
  ASSUME NEW files, Formed(files), NEW f \in files
  PROVE  /\ Formed(Kin(f, files)) /\ f \in Kin(f, files)
         /\ PathsOf(Kin(f, files)) = {q \in PathsOf(files) : Family(q) = Family(f.path)}
         /\ \A q \in PathsOf(Kin(f, files)) : FileAt(q, Kin(f, files)) = FileAt(q, files)
<1> DEFINE kin == Kin(f, files)
<1>1. Formed(kin) /\ f \in kin /\ kin \subseteq files
  BY DEF Formed, Kin
<1>2. PathsOf(kin) = {q \in PathsOf(files) : Family(q) = Family(f.path)}
  BY DEF PathsOf, Kin
<1>3. ASSUME NEW q \in PathsOf(kin) PROVE FileAt(q, kin) = FileAt(q, files)
  <2>1. FileAt(q, kin) \in kin /\ FileAt(q, kin).path = q
    BY <1>3, FileAtIn
  <2>2. q \in PathsOf(files)
    BY <1>2
  <2>3. FileAt(q, files) \in files /\ FileAt(q, files).path = q
    BY <2>2, FileAtIn
  <2> QED BY <1>1, <2>1, <2>3 DEF Formed
<1> QED BY <1>1, <1>2, <1>3

\* Of what an import may mean, the first there is.
LEMMA FirstOfThree ==
  ASSUME NEW A, NEW B, NEW C
  PROVE  FirstOption(<<A, B, C>>) = IF A # {} THEN A ELSE IF B # {} THEN B ELSE C
<1> DEFINE options == <<A, B, C>>
           first == {i \in DOMAIN options : \A j \in 1..(i - 1) : options[j] = {}}
<1>1. FirstOption(options) = UNION {options[i] : i \in first}
  BY DEF FirstOption
<1>2. /\ DOMAIN options = {1, 2, 3}
      /\ options[1] = A /\ options[2] = B /\ options[3] = C
  OBVIOUS
<1>3. 1..(1 - 1) = {} /\ 1..(2 - 1) = {1} /\ 1..(3 - 1) = {1, 2}
  OBVIOUS
<1> HIDE DEF options
<1>4. /\ 1 \in first
      /\ 2 \in first <=> A = {}
      /\ 3 \in first <=> A = {} /\ B = {}
      /\ first \subseteq {1, 2, 3}
  BY <1>2, <1>3
<1> HIDE DEF first
<1>5. UNION {options[i] : i \in first} = IF A # {} THEN A ELSE IF B # {} THEN B ELSE C
  BY <1>2, <1>4
<1> QED BY <1>1, <1>5 DEF options

\* The files of its family suffice for what is found for an import.
LEMMA MeaningKin ==
  ASSUME NEW files, Formed(files), NEW f \in files, NEW imp, NEW found, NEW submodule,
         found \subseteq PathsOf(Kin(f, files)), submodule \subseteq PathsOf(Kin(f, files))
  PROVE  Meaning(imp, found, submodule, Kin(f, files)) = Meaning(imp, found, submodule, files)
<1> DEFINE kin == Kin(f, files)
           defs(fs) == UNION {FileAt(p, fs).defs : p \in found}
           named(fs) == {d \in defs(fs) : d.symbol = Named(imp.name)}
<1>1. \A fs : Meaning(imp, found, submodule, fs)
                = IF found = {} THEN {}
                  ELSE FirstOption(<<BestOf(named(fs)), Modules(submodule, fs), Modules(found, fs)>>)
  BY DEF Meaning
<1>2. \A q \in PathsOf(kin) : FileAt(q, kin) = FileAt(q, files)
  BY KinFormed
<1>3. Modules(submodule, kin) = Modules(submodule, files) /\ Modules(found, kin) = Modules(found, files)
  BY <1>2 DEF Modules
<1>4. defs(kin) = defs(files)
  BY <1>2
<1> HIDE DEF defs
<1>5. named(kin) = named(files)
  BY <1>4
<1> HIDE DEF named, kin
<1>6. Meaning(imp, found, submodule, kin) = Meaning(imp, found, submodule, files)
  BY <1>1, <1>3, <1>5
<1> QED BY <1>6 DEF kin

\* An import leaves the family of its file: what it finds, or what it means.
Leaves(imp, f, files) ==
  \/ \E p \in ResolveImport(imp.module, f.path, PathsOf(files)) : Family(p) # Family(f.path)
  \/ \E t \in ImportTarget(imp, f, files) : Family(t.path) # Family(f.path)

\* An import that stays in its family means the same to it alone.
LEMMA ImportTargetKin ==
  ASSUME NEW files, Formed(files), NEW f \in files, NEW imp, ~Leaves(imp, f, files)
  PROVE  ImportTarget(imp, f, Kin(f, files)) = ImportTarget(imp, f, files)
<1> DEFINE kin == Kin(f, files)
           P == PathsOf(files)
           K == PathsOf(kin)
           Found(text, S) == ResolveImport(text, f.path, S)
           found(S) == Found(imp.module, S)
           sub(S) == IF imp.name = "" THEN {} ELSE Found(Within(imp.module, imp.name), S)
           named == {d \in UNION {FileAt(p, files).defs : p \in found(P)} : d.symbol = Named(imp.name)}
<1>1. \A fs : ImportTarget(imp, f, fs) = Meaning(imp, found(PathsOf(fs)), sub(PathsOf(fs)), fs)
  BY DEF ImportTarget
<1>2. /\ P \subseteq Paths /\ Supported(f.path)
      /\ K = {q \in P : Family(q) = Family(f.path)}
      /\ Formed(kin)
  <2>1. P \subseteq Paths /\ Supported(f.path)
    BY FormedPaths DEF Formed, FileFormed
  <2>2. K = {q \in P : Family(q) = Family(f.path)} /\ Formed(kin)
    BY KinFormed
  <2> HIDE DEF K, P
  <2> QED BY <2>1, <2>2
<1>3. \A text : (\A q \in Found(text, P) : Family(q) = Family(f.path)) =>
                Found(text, K) = Found(text, P) /\ Found(text, P) \subseteq K
  <2> SUFFICES ASSUME NEW text, \A q \in Found(text, P) : Family(q) = Family(f.path)
               PROVE  Found(text, K) = Found(text, P) /\ Found(text, P) \subseteq K
    OBVIOUS
  <2> DEFINE L == {q \in P : Family(q) = Family(f.path)}
  <2> HIDE DEF P, K
  <2>1. Found(text, P) \subseteq P
    BY <1>2, ResolveImportIn
  <2>2. Found(text, L) = Found(text, P)
    BY <1>2, ResolveImportKin
  <2>3. K = L
    BY <1>2
  <2> HIDE DEF L
  <2>4. Found(text, K) = Found(text, P)
    BY <2>2, <2>3
  <2>5. Found(text, P) \subseteq L
    <3> HIDE DEF Found
    <3> QED BY <2>1 DEF L
  <2> QED BY <2>3, <2>4, <2>5
<1>4. found(K) = found(P) /\ found(P) \subseteq K
  <2>1. \A q \in found(P) : Family(q) = Family(f.path)
    BY DEF Leaves
  <2> HIDE DEF P, K, Found
  <2> QED BY <1>3, <2>1
<1>5. CASE sub(K) = sub(P) /\ sub(P) \subseteq K
  <2> HIDE DEF found, sub, P
  <2>1. Meaning(imp, found(P), sub(P), kin) = Meaning(imp, found(P), sub(P), files)
    BY <1>4, <1>5, MeaningKin
  <2>2. /\ ImportTarget(imp, f, kin) = Meaning(imp, found(P), sub(P), kin)
        /\ ImportTarget(imp, f, files) = Meaning(imp, found(P), sub(P), files)
    BY <1>1, <1>4, <1>5 DEF P
  <2> QED BY <2>1, <2>2
<1>6. CASE \E q \in sub(P) : Family(q) # Family(f.path)
  <2>1. sub(P) \subseteq P
    <3>1. Found(Within(imp.module, imp.name), P) \subseteq P
      BY <1>2, ResolveImportIn
    <3> HIDE DEF P, Found
    <3> QED BY <3>1
  <2>2. PICK q \in sub(P) : Family(q) # Family(f.path)
    BY <1>6
  <2>3. FileAt(q, files).module \in Modules(sub(P), files) /\ FileAt(q, files).module.path = q
    <3>1. FileAt(q, files) \in files /\ FileAt(q, files).path = q
      BY <2>1, FileAtIn
    <3> HIDE DEF sub
    <3> QED BY <3>1 DEF Modules, Formed, FileFormed
  <2>4. \A t \in ImportTarget(imp, f, files) : Family(t.path) = Family(f.path)
    BY DEF Leaves
  <2> HIDE DEF sub, found, P
  <2> DEFINE names(fs) == {d \in UNION {FileAt(p, fs).defs : p \in found(P)} : d.symbol = Named(imp.name)}
  <2>5. \A S, fs : Meaning(imp, found(P), S, fs)
                   = IF found(P) = {} THEN {}
                     ELSE IF BestOf(names(fs)) # {} THEN BestOf(names(fs))
                     ELSE IF Modules(S, fs) # {} THEN Modules(S, fs)
                     ELSE Modules(found(P), fs)
    <3> SUFFICES ASSUME NEW S, NEW fs
                 PROVE  Meaning(imp, found(P), S, fs)
                          = IF found(P) = {} THEN {}
                            ELSE IF BestOf(names(fs)) # {} THEN BestOf(names(fs))
                            ELSE IF Modules(S, fs) # {} THEN Modules(S, fs)
                            ELSE Modules(found(P), fs)
      OBVIOUS
    <3>1. Meaning(imp, found(P), S, fs)
            = IF found(P) = {} THEN {}
              ELSE FirstOption(<<BestOf(names(fs)), Modules(S, fs), Modules(found(P), fs)>>)
      BY Zenon DEF Meaning
    <3> HIDE DEF names
    <3> QED BY <3>1, FirstOfThree
  <2>6. names(kin) = names(files)
    <3>1. \A r \in found(P) : FileAt(r, kin) = FileAt(r, files)
      BY <1>4, KinFormed
    <3> QED BY <3>1
  <2> HIDE DEF names
  <2>7. ImportTarget(imp, f, files) = Meaning(imp, found(P), sub(P), files)
    BY <1>1 DEF P
  <2>8. found(P) = {} \/ BestOf(names(files)) # {}
    BY <2>2, <2>3, <2>4, <2>5, <2>7
  <2>9. ImportTarget(imp, f, kin) = Meaning(imp, found(P), sub(K), kin)
    BY <1>1, <1>4
  <2> HIDE DEF K, kin
  <2>10. ImportTarget(imp, f, kin) = ImportTarget(imp, f, files)
    BY <2>5, <2>6, <2>7, <2>8, <2>9
  <2> QED BY <2>10 DEF kin
<1>7. CASE \A q \in sub(P) : Family(q) = Family(f.path)
  <2>1. sub(K) = sub(P) /\ sub(P) \subseteq K
    <3> HIDE DEF P, K, Found
    <3> QED BY <1>3, <1>7
  <2> HIDE DEF sub, P, K, kin
  <2> QED BY <1>5, <2>1
<1> QED BY <1>6, <1>7

\* The imports of a file stay in its family.
StaysInFamily(f, files) == \A i \in DOMAIN f.facts.imports : ~Leaves(f.facts.imports[i], f, files)

LEMMA ImportsKin ==
  ASSUME NEW files, Formed(files), NEW f \in files, StaysInFamily(f, files)
  PROVE  \A i \in DOMAIN f.facts.imports :
           ImportTarget(f.facts.imports[i], f, Kin(f, files)) = ImportTarget(f.facts.imports[i], f, files)
  BY ImportTargetKin DEF StaysInFamily

LEMMA ResolveKin ==
  ASSUME NEW files, Formed(files), NEW f \in files, StaysInFamily(f, files), NEW name
  PROVE  Resolve(name, f, Kin(f, files)) = Resolve(name, f, files)
<1> DEFINE kin == Kin(f, files)
           local == {d \in f.defs : d.symbol = Named(name)}
           family(fs) == {d \in AllDefs(fs) : d.symbol = Named(name) /\ Family(d.path) = Family(f.path)}
           package(fs) == {d \in family(fs) : d.path # f.path /\ Dir(d.path) = Dir(f.path)}
           bound(fs) == {n \in Bound(name, f, fs) : n.kind # "module"}
<1>1. \A fs : Resolve(name, f, fs)
                = FirstOption(<<BestOf(local), bound(fs),
                                IF name \in Generic THEN {}
                                ELSE FirstOption(<<BestOf(package(fs)), Unique(family(fs))>>)>>)
  BY Zenon DEF Resolve
<1>2. Bound(name, f, kin) = Bound(name, f, files)
  <2> DEFINE imps == f.facts.imports
             binders == {i \in DOMAIN imps : name # "" /\ LocalName(imps[i]) = name}
             options(fs) == [i \in binders |-> ImportTarget(imps[i], f, fs)]
  <2>1. \A fs : Bound(name, f, fs) = LastOption(options(fs))
    BY DEF Bound
  <2>2. \A i \in binders : ImportTarget(imps[i], f, kin) = ImportTarget(imps[i], f, files)
    BY ImportsKin
  <2> HIDE DEF binders, kin
  <2>3. options(kin) = options(files)
    BY <2>2
  <2> QED BY <2>1, <2>3
<1>3. family(kin) = family(files)
  <2>1. \A g \in files : \A d \in g.defs : d.path = g.path
    BY DEF Formed, FileFormed
  <2>2. \A d : d \in AllDefs(kin) <=> \E g \in files : d \in g.defs /\ Family(g.path) = Family(f.path)
    BY DEF AllDefs, Kin
  <2>3. \A d : d \in AllDefs(files) <=> \E g \in files : d \in g.defs
    BY DEF AllDefs
  <2>4. \A d : d \in AllDefs(kin) <=> d \in AllDefs(files) /\ Family(d.path) = Family(f.path)
    BY <2>1, <2>2, <2>3
  <2> HIDE DEF kin
  <2> QED BY <2>4
<1> HIDE DEF kin, family
<1>4. bound(kin) = bound(files) /\ package(kin) = package(files)
  BY <1>2, <1>3
<1> HIDE DEF bound, package
<1>5. Resolve(name, f, kin) = Resolve(name, f, files)
  BY <1>1, <1>3, <1>4
<1> QED BY <1>5 DEF kin

LEMMA CalleeKin ==
  ASSUME NEW files, Formed(files), NEW f \in files, StaysInFamily(f, files), NEW call
  PROVE  Callee(call, f, Kin(f, files)) = Callee(call, f, files)
<1> DEFINE kin == Kin(f, files)
<1>1. ASSUME NEW type
      PROVE  ResolveMethod(type, call.name, f, kin) = ResolveMethod(type, call.name, f, files)
  <2> DEFINE of(g) == {d \in g.defs : /\ d.symbol = Named(call.name)
                                      /\ d.from \in DOMAIN g.facts.receivers
                                      /\ g.facts.receivers[d.from] = type}
             group(fs) == {g \in fs : Family(g.path) = Family(f.path)}
             methods(fs) == UNION {of(g) : g \in group(fs)}
  <2>1. \A fs : ResolveMethod(type, call.name, f, fs) = BestOf(methods(fs))
    BY Zenon DEF ResolveMethod
  <2>2. group(kin) = group(files)
    BY DEF Kin
  <2> HIDE DEF group, of, kin
  <2> QED BY <2>1, <2>2
<1>2. Resolve(call.name, f, kin) = Resolve(call.name, f, files)
  BY ResolveKin
<1>3. \A fs : Callee(call, f, fs)
                = IF call.recv \in DOMAIN f.facts.types
                  THEN ResolveMethod(f.facts.types[call.recv], call.name, f, fs)
                  ELSE Resolve(call.name, f, fs)
  BY DEF Callee
<1> HIDE DEF kin
<1>4. Callee(call, f, kin) = Callee(call, f, files)
  BY <1>1, <1>2, <1>3
<1> QED BY <1>4 DEF kin

LEMMA EdgesKin ==
  ASSUME NEW files, Formed(files), NEW f \in files, StaysInFamily(f, files)
  PROVE  EdgesOf(f, Kin(f, files)) = EdgesOf(f, files)
<1> DEFINE kin == Kin(f, files)
           imports == f.facts.imports
           defines == {Edge(Container(f, d), d, "defines") : d \in f.defs}
           imported(i, fs) == {Edge(f.module, t, "imports") : t \in ImportTarget(imports[i], f, fs)}
           called(c, fs) == {Edge(Enclosing(f, c.at), t, "calls") : t \in Callee(c, f, fs)}
           referenced(r, fs) == {Edge(Enclosing(f, r.at), t, "references") : t \in Resolve(r.name, f, fs)}
           importing(fs) == UNION {imported(i, fs) : i \in DOMAIN imports}
           calling(fs) == UNION {called(c, fs) : c \in f.facts.calls}
           referring(fs) == UNION {referenced(r, fs) : r \in f.facts.refs}
<1>1. \A fs : EdgesOf(f, fs)
                = {e \in UNION {defines, importing(fs), calling(fs), referring(fs)} : e.src # e.dst}
  BY Zenon DEF EdgesOf
<1>2. importing(kin) = importing(files)
  <2>1. \A i \in DOMAIN imports : imported(i, kin) = imported(i, files)
    BY ImportsKin
  <2> HIDE DEF imported, kin
  <2> QED BY <2>1
<1>3. calling(kin) = calling(files)
  <2>1. \A c : called(c, kin) = called(c, files)
    BY CalleeKin
  <2> HIDE DEF called, kin
  <2> QED BY <2>1
<1>4. referring(kin) = referring(files)
  <2>1. \A r : referenced(r, kin) = referenced(r, files)
    BY ResolveKin
  <2> HIDE DEF referenced, kin
  <2> QED BY <2>1
<1> HIDE DEF kin, defines, importing, calling, referring
<1>5. EdgesOf(f, kin) = EdgesOf(f, files)
  BY <1>1, <1>2, <1>3, <1>4
<1> QED BY <1>5 DEF kin

\* In the tables of a completed sync, what a file whose imports find and mean
\* files of its own language family defines, imports, calls and references is
\* what it would be in a project of that family's files alone (Resolve,
\* _import_bindings): for any paths, with dots where they may be, any imports in
\* any language, and any other files.
THEOREM GraphIndexFamiliesIndependent == Spec => []FamiliesIndependent
<1>1. GraphInv => FamiliesIndependent
  <2> SUFFICES ASSUME GraphInv, done # None,
                      NEW f \in Project(done.version, done.map),
                      ~ \E i \in DOMAIN f.facts.imports :
                          Leaves(f.facts.imports[i], f, Project(done.version, done.map))
               PROVE  EdgesOf(f, Project(done.version, done.map))
                        = EdgesOf(f, {g \in Project(done.version, done.map) :
                                        Family(g.path) = Family(f.path)})
    BY Zenon DEF FamiliesIndependent, Leaves
  <2> DEFINE files == Project(done.version, done.map)
  <2>1. Formed(files)
    BY ProjectFormed DEF GraphInv, SyncInv
  <2>2. f \in files /\ StaysInFamily(f, files)
    BY DEF StaysInFamily
  <2> HIDE DEF files
  <2>3. EdgesOf(f, Kin(f, files)) = EdgesOf(f, files)
    BY <2>1, <2>2, EdgesKin
  <2> QED BY <2>3 DEF Kin, files
<1> QED
  BY <1>1, GraphIndexInvariant, PTL
=============================================================================
