----------------------------- MODULE Resolution -----------------------------
(***************************************************************************)
(* Pass 2 (graph/extract.py, _Resolver and _resolve_project): the symbols  *)
(* and edges of a project, from the pass-1 facts of all of its files.      *)
(*                                                                         *)
(* `files` is the project: a set of decoded files, one per path.  A node   *)
(* id is <<blob, from, to, symbol>>: it names no path, so that one blob at *)
(* two paths has two sets of nodes and one set of ids.                     *)
(***************************************************************************)
EXTENDS Extraction

\* decode_facts: the facts of a blob, at a path.
Decode(facts, p, blob) ==
  LET Node(symbol, kind, from, to) ==
        [symbol |-> symbol, kind |-> kind, blob |-> blob, from |-> from, to |-> to, path |-> p]
  IN  [path   |-> p,
       module |-> Node(ModuleName(p), "module", 0, facts.size),
       defs   |-> {Node(d.symbol, d.kind, d.from, d.to) : d \in facts.defs},
       facts  |-> facts]

Id(n) == <<n.blob, n.from, n.to, n.symbol>>

\* The last of some options that is one.
LastOption(options) ==
  LET some == {i \in DOMAIN options : options[i] # {}}
  IN  UNION {options[i] : i \in {i \in some : \A j \in some : j <= i}}

PathsOf(files) == {f.path : f \in files}
FileAt(p, files) == CHOOSE f \in files : f.path = p
AllDefs(files) == UNION {f.defs : f \in files}

\* _best: methods last, then by path and offset; the longer of two that start alike.
Best(S) ==
  LET Key(n) == <<IF n.kind = "method" THEN 1 ELSE 0, n.path, n.from, -n.to>>
  IN  CHOOSE n \in S : \A m \in S \ {n} : Lex(Key(n), Key(m))

BestOf(S) == {n \in S : n = Best(S)}

-----------------------------------------------------------------------------
(* Imports *)

Modules(paths, files) == {FileAt(p, files).module : p \in paths}

\* Of what an import may mean, the first there is: the definition it names, the
\* submodule it names, the module.
Meaning(imp, found, submodule, files) ==
  LET named == {d \in UNION {FileAt(p, files).defs : p \in found} : d.symbol = Named(imp.name)}
  IN  IF found = {} THEN {}
      ELSE FirstOption(<<BestOf(named), Modules(submodule, files), Modules(found, files)>>)

\* A module's text, a dot (unless it ends with one) and a name.
Within(text, name) ==
  LET last == Last(text)
      open == Len(last) > 1 /\ Last(last) = ""
  IN  Append(Front(text), Append(IF open THEN Front(last) ELSE last, name))

\* What an import statement of f means, if its module is in the project.  Any
\* import that names something may name a submodule, in every language.
ImportTarget(imp, f, files) ==
  LET Found(text) == ResolveImport(text, f.path, PathsOf(files))
  IN  Meaning(imp, Found(imp.module),
              IF imp.name = "" THEN {} ELSE Found(Within(imp.module, imp.name)), files)

LocalName(imp) == IF imp.alias # "" THEN imp.alias ELSE imp.name

\* The node a name is bound to by the last import that binds it.
Bound(name, f, files) ==
  LET imps == f.facts.imports
      binders == {i \in DOMAIN imps : name # "" /\ LocalName(imps[i]) = name}
  IN  LastOption([i \in binders |-> ImportTarget(imps[i], f, files)])

-----------------------------------------------------------------------------
(* Names *)

\* What defines a name in one place, the longer of two that start there.
Unique(S) ==
  {d \in S : \A e \in S : e.path = d.path /\ e.from = d.from /\ e.to <= d.to}

\* Mutant: a name resolves across language families.
ResolveAnyFamily(name, f, files) ==
  LET local == {d \in f.defs : d.symbol = Named(name)}
      others == {d \in AllDefs(files) : d.symbol = Named(name) /\ d.path # f.path}
      package == {d \in others : Dir(d.path) = Dir(f.path)}
  IN  FirstOption(<<BestOf(local),
                    {n \in Bound(name, f, files) : n.kind # "module"},
                    IF name \in Generic THEN {} ELSE FirstOption(<<BestOf(package), Unique(others)>>)>>)

\* Same file, then import, then same package, then unique in the language
\* family; names too common are given up before the last two.
Resolve(name, f, files) ==
  LET local == {d \in f.defs : d.symbol = Named(name)}
      family == {d \in AllDefs(files) : d.symbol = Named(name) /\ Family(d.path) = Family(f.path)}
      package == {d \in family : d.path # f.path /\ Dir(d.path) = Dir(f.path)}
  IN  FirstOption(<<BestOf(local),
                    {n \in Bound(name, f, files) : n.kind # "module"},
                    IF name \in Generic THEN {} ELSE FirstOption(<<BestOf(package), Unique(family)>>)>>)

\* resolve_method: the methods defined on a receiver type, anywhere.
ResolveMethod(type, name, f, files) ==
  BestOf(UNION {{d \in g.defs : /\ d.symbol = Named(name)
                                /\ d.from \in DOMAIN g.facts.receivers
                                /\ g.facts.receivers[d.from] = type} :
                  g \in {g \in files : Family(g.path) = Family(f.path)}})

\* Where the type of the receiver is known it decides alone.
Callee(call, f, files) ==
  IF call.recv \in DOMAIN f.facts.types
  THEN ResolveMethod(f.facts.types[call.recv], call.name, f, files)
  ELSE Resolve(call.name, f, files)

-----------------------------------------------------------------------------
(* The graph *)

\* The shortest of some definitions of f, or its module.
Innermost(f, S) ==
  IF S = {} THEN f.module ELSE CHOOSE d \in S : \A e \in S : d.to - d.from <= e.to - e.from

\* _container
Container(f, d) ==
  Innermost(f, {e \in f.defs : /\ e.from <= d.from /\ d.to <= e.to
                               /\ <<e.from, e.to>> # <<d.from, d.to>>})

\* _enclosing
Enclosing(f, at) == Innermost(f, {d \in f.defs : d.from <= at /\ at < d.to})

Edge(src, dst, kind) == [src |-> Id(src), dst |-> Id(dst), kind |-> kind]

\* _resolve_project's edges; none from a node to itself.
EdgesOf(f, files) ==
  LET imports == f.facts.imports
      defines == {Edge(Container(f, d), d, "defines") : d \in f.defs}
      imported(i) == {Edge(f.module, t, "imports") : t \in ImportTarget(imports[i], f, files)}
      called(c) == {Edge(Enclosing(f, c.at), t, "calls") : t \in Callee(c, f, files)}
      referenced(r) == {Edge(Enclosing(f, r.at), t, "references") : t \in Resolve(r.name, f, files)}
      all == UNION {defines,
                    UNION {imported(i) : i \in DOMAIN imports},
                    UNION {called(c) : c \in f.facts.calls},
                    UNION {referenced(r) : r \in f.facts.refs}}
  IN  {e \in all : e.src # e.dst}

Edges(files) == UNION {EdgesOf(f, files) : f \in files}

\* What add_symbols keeps: of the nodes with one id, the first in the order of
\* the list, which is by path, with the module first.
SymbolRows(files) ==
  LET nodes == {f.module : f \in files} \cup AllDefs(files)
      Key(n) == <<n.path, IF n.kind = "module" THEN 0 ELSE 1>>
  IN  {n \in nodes : \A m \in nodes \ {n} : Id(m) = Id(n) => Lex(Key(n), Key(m))}
=============================================================================
