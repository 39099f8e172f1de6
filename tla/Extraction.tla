----------------------------- MODULE Extraction -----------------------------
(***************************************************************************)
(* From source files to symbols and edges: pass 1, which labels what the   *)
(* tree-sitter queries of a language capture in one file, and pass 2,      *)
(* which resolves names across files (graph/extract.py, graph/languages.py)*)
(*                                                                         *)
(* A blob is given as its size and the captures of its query matches, in   *)
(* the order of the cursor.  A path, the text of an import and a symbol    *)
(* are strings whose slashes and dots matter: each is the tuple of its     *)
(* parts between slashes, a part the tuple of its pieces between dots.  So *)
(* b/h.test.js is <<<<"b">>, <<"h", "test", "js">>>>, the text ../h is     *)
(* <<<<"", "", "">>, <<"h">>>>, and the symbols of a module a.b and of a   *)
(* function f are <<<<"a", "b">>>> and <<<<"f">>>>.  Other names are plain *)
(* strings; a type is a tuple, "*" first when it is a pointer.  An option  *)
(* is a set of at most one member.  Signatures and the order of the lists  *)
(* returned are left out.                                                  *)
(***************************************************************************)
EXTENDS Integers, FiniteSets, Sequences, SequencesExt

CONSTANTS
  Path,      \* every path, in lexicographic order
  Shouty,    \* the names that match _CONST_NAME_RE
  Generic    \* _GENERIC_NAMES

Paths == DOMAIN Path

ASSUME ExtractionAssumption ==
  /\ Path \in Seq(Seq(Seq(STRING)) \ {<<>>})
  /\ \A p, q \in Paths : Path[p] = Path[q] => p = q

Least(S) == CHOOSE x \in S : \A y \in S : x <= y
The(option) == CHOOSE x \in option : TRUE

\* The first of some options that is one.
FirstOption(options) ==
  UNION {options[i] : i \in {i \in DOMAIN options : \A j \in 1..(i - 1) : options[j] = {}}}

\* a before b in lexicographic order; tuples of integers of one length.
Lex(a, b) ==
  \E i \in DOMAIN a : a[i] < b[i] /\ \A j \in 1..(i - 1) : a[j] = b[j]

-----------------------------------------------------------------------------
(* Languages *)

LanguageOf ==
  [py |-> "python", ts |-> "typescript", tsx |-> "tsx", js |-> "javascript",
   jsx |-> "javascript", mjs |-> "javascript", cjs |-> "javascript",
   go |-> "go", proto |-> "proto"]

\* What follows the last dot of a file name; the directory of a path.
ExtOf(name) == IF Len(name) > 1 THEN Last(name) ELSE ""
Ext(p) == ExtOf(Last(Path[p]))
Dir(p) == Front(Path[p])

Supported(p) == Ext(p) \in DOMAIN LanguageOf
Language(p) == LanguageOf[Ext(p)]

\* _FAMILY
Family(p) ==
  IF Language(p) \in {"typescript", "tsx", "javascript"} THEN "ecma" ELSE Language(p)

\* The symbol of a name that a definition gives.
Named(name) == <<<<name>>>>

\* spec.module_name: the path without its extension; dotted for Python, where
\* __init__ stands for its package.
ModuleName(p) ==
  LET stem == Append(Dir(p), Front(Last(Path[p])))
      package == Dir(p) # <<>> /\ Last(Path[p]) = <<"__init__", "py">>
  IN  IF Family(p) # "python" THEN stem ELSE <<FlattenSeq(IF package THEN Dir(p) ELSE stem)>>

\* The first of some candidate files that the project has.
FirstOf(candidates, project) ==
  FirstOption([i \in DOMAIN candidates |-> {p \in project : Path[p] = candidates[i]}])

\* What an f-string makes of a text and a suffix ".ext".
WithExt(parts, ext) == Append(Front(parts), Append(Last(parts), ext))

\* The directories of the importing file without the last `up`.
Above(p, up) == SubSeq(Dir(p), 1, Len(Dir(p)) - up)

\* _py_resolve_import: the text has no slash; leading dots make it relative.
PyImport(text, p, project) ==
  LET pieces == text[1]
      dots == Cardinality({i \in 1..(Len(pieces) - 1) : \A j \in 1..i : pieces[j] = ""})
      Apart(ps) == [i \in DOMAIN ps |-> <<ps[i]>>]
      parts == IF dots = 0 THEN Apart(pieces)
               ELSE Above(p, dots - 1) \o Apart(SelectSeq(pieces, LAMBDA s : s # ""))
  IN  IF parts = <<>> THEN {}
      ELSE FirstOf(<<WithExt(parts, "py"), Append(parts, <<"__init__", "py">>)>>, project)

TSExtensions == <<"ts", "tsx", "js", "jsx", "mjs", "cjs">>

\* posixpath.normpath of a relative path; "." if nothing is left.
Here == <<"", "">>
Up == <<"", "", "">>
Normal(parts) ==
  LET Walk(done, part) ==
        CASE part \in {<<"">>, Here} -> done
          [] part = Up /\ done # <<>> /\ Last(done) # Up -> Front(done)
          [] OTHER -> Append(done, part)
      walked == FoldLeft(Walk, <<>>, parts)
  IN  IF walked = <<>> THEN <<Here>> ELSE walked

\* _ts_resolve_import: a text that starts with a dot; the very file, a file of
\* that stem, or a directory's index.
TSImport(text, p, project) ==
  LET relative == Len(text[1]) > 1 /\ text[1][1] = ""
      stem == Normal(Dir(p) \o text)
  IN  IF ~relative THEN {}
      ELSE FirstOf(<<stem>>
                   \o [i \in DOMAIN TSExtensions |-> WithExt(stem, TSExtensions[i])]
                   \o [i \in DOMAIN TSExtensions |->
                         Append(stem, <<"index", TSExtensions[i]>>)], project)

\* _go_resolve_import, _go_package_dirs: the longest tail that names a directory
\* with Go files: the first of them.
GoImport(text, project) ==
  LET parts == SelectSeq(text, LAMBDA part : part # <<"">>)
      In(i) == {p \in project : Ext(p) = "go" /\ Dir(p) = SubSeq(parts, i, Len(parts))}
      package == FirstOption([i \in DOMAIN parts |-> In(i)])
  IN  IF package = {} THEN {} ELSE {Least(package)}

\* _proto_resolve_import: the very path, or the one path that ends with it.
ProtoImport(text, project) ==
  LET Ends(p) == \E i \in 2..Len(Path[p]) : text = SubSeq(Path[p], i, Len(Path[p]))
      exact == {p \in project : Path[p] = text}
      vendored == {p \in project : Ends(p)}
  IN  IF exact # {} THEN exact ELSE IF Cardinality(vendored) = 1 THEN vendored ELSE {}

\* spec.resolve_import
ResolveImport(text, p, project) ==
  CASE Family(p) = "python" -> PyImport(text, p, project)
    [] Family(p) = "ecma"   -> TSImport(text, p, project)
    [] Family(p) = "go"     -> GoImport(text, project)
    [] Family(p) = "proto"  -> ProtoImport(text, project)

-----------------------------------------------------------------------------
(* Pass 1: the facts of one blob, whatever path it is at *)

Priority == [method |-> 3, function |-> 3, class |-> 2, variable |-> 1]

Tagged(caps, tag) == {i \in DOMAIN caps : caps[i].tag = tag}

\* One definition per span, of the kind with the highest priority, the first
\* among equals.
Kept(caps) ==
  LET defs == Tagged(caps, "def")
      SameSpan(i, j) == caps[i].from = caps[j].from /\ caps[i].to = caps[j].to
      Beats(i, j) == \/ Priority[caps[i].kind] > Priority[caps[j].kind]
                     \/ Priority[caps[i].kind] = Priority[caps[j].kind] /\ i < j
  IN  {i \in defs : \A j \in defs \ {i} : SameSpan(i, j) => Beats(i, j)}

\* A function directly in a class is a method, a shouty variable a constant.
Defs(caps) ==
  LET kept == Kept(caps)
      Around(i) == {j \in kept \ {i} : caps[j].from <= caps[i].from /\ caps[i].to <= caps[j].to}
      InClass(i) == \E j \in Around(i) : caps[j].kind = "class" /\
                      \A k \in Around(i) : caps[j].to - caps[j].from <= caps[k].to - caps[k].from
      Kind(i) == CASE caps[i].kind = "function" /\ InClass(i) -> "method"
                   [] caps[i].kind = "variable" /\ caps[i].name \in Shouty -> "const"
                   [] OTHER -> caps[i].kind
  IN  {[symbol |-> Named(caps[i].name), kind |-> Kind(i),
        from |-> caps[i].from, to |-> caps[i].to] : i \in kept}

\* The imports that name a module, in order.
Imports(caps) == SelectSeq(caps, LAMBDA c : c.tag = "import" /\ c.module # <<>>)

\* One call per offset: the first that names a receiver, else the first.
Calls(caps) ==
  LET calls == Tagged(caps, "call")
      Rank(i) == <<IF caps[i].recv = "" THEN 1 ELSE 0, i>>
  IN  {[name |-> caps[i].name, at |-> caps[i].at, recv |-> caps[i].recv] :
         i \in {i \in calls : \A j \in calls \ {i} :
                  caps[i].at = caps[j].at => Lex(Rank(i), Rank(j))}}

\* Identifiers that name no definition and no callee and are in no import.
Refs(caps) ==
  LET refs == Tagged(caps, "ref")
      claimed == {caps[i].at : i \in Tagged(caps, "def") \cup Tagged(caps, "call")}
      Imported(at) == \E i \in Tagged(caps, "import") : caps[i].from <= at /\ at < caps[i].to
  IN  {[name |-> caps[i].name, at |-> caps[i].at] :
         i \in {i \in refs : caps[i].at \notin claimed /\ ~Imported(caps[i].at)}}

\* local_types: the earliest binding of a variable, whatever its scope.
LocalTypes(caps) ==
  LET Binds(v) == {i \in Tagged(caps, "bind") : caps[i].name = v}
      Earliest(S) == CHOOSE i \in S : \A j \in S : caps[i].at <= caps[j].at
  IN  [v \in {caps[i].name : i \in Tagged(caps, "bind")} |-> Last(caps[Earliest(Binds(v))].type)]

\* method_receiver, its pointer star taken off as by_receiver does.
Receivers(caps) ==
  LET methods == {i \in Tagged(caps, "def") : caps[i].recv # <<>>}
      At(s) == {i \in methods : caps[i].from = s}
  IN  [s \in {caps[i].from : i \in methods} |->
         Last(caps[CHOOSE i \in At(s) : \A j \in At(s) : j <= i].recv)]

\* _extract_file, and the payload encode_facts makes of it.
Facts(blob) ==
  [size      |-> blob.size,
   defs      |-> Defs(blob.captures),
   imports   |-> Imports(blob.captures),
   calls     |-> Calls(blob.captures),
   refs      |-> Refs(blob.captures),
   types     |-> LocalTypes(blob.captures),
   receivers |-> Receivers(blob.captures)]
=============================================================================
