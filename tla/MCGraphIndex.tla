---------------------------- MODULE MCGraphIndex ----------------------------
EXTENDS GraphIndex, TLC

MCPath == <<
  << <<"a">>, <<"f", "py">> >>,
  << <<"a">>, <<"g", "py">> >>,
  << <<"b">>, <<"__init__", "py">> >>,
  << <<"b">>, <<"h", "js">> >>,
  << <<"b">>, <<"h", "proto">> >>,
  << <<"b">>, <<"h", "py">> >>,
  << <<"b">>, <<"h", "test", "js">> >>,
  << <<"c">>, <<"k", "go">> >>,
  << <<"c">>, <<"l", "go">> >>,
  << <<"d">>, <<"notes", "md">> >>,
  << <<"d">>, <<"u", "go">> >>,
  << <<"p">>, <<"q">>, <<"errors", "proto">> >>,
  << <<"p">>, <<"svc", "proto">> >>,
  << <<"w">>, <<"v">>, <<"index", "ts">> >>,
  << <<"w">>, <<"x", "tsx">> >> >>

MCShouty == {"LIMIT"}
MCGeneric == {"get"}

MCDef(kind, name, at, from, to, recv) ==
  [tag |-> "def", kind |-> kind, name |-> name, at |-> at, from |-> from, to |-> to, recv |-> recv]
MCCall(name, at, recv) == [tag |-> "call", name |-> name, at |-> at, recv |-> recv]
MCRef(name, at) == [tag |-> "ref", name |-> name, at |-> at]
MCBind(name, at, type) == [tag |-> "bind", name |-> name, at |-> at, type |-> type]
MCImport(from, to, text, name, alias) ==
  [tag |-> "import", from |-> from, to |-> to, name |-> name, alias |-> alias, module |-> text]

\* A class with a method in it, a function in the method, and a constant; the
\* newer extractor no longer captures the constant.
MCLib(t) ==
  [size |-> 20, captures |->
    <<MCDef("class", "C", 1, 0, 12, <<>>), MCDef("function", "run", 3, 2, 11, <<>>),
      MCDef("function", "inner", 5, 4, 8, <<>>), MCCall("get", 6, ""), MCCall("helper", 9, ""),
      MCRef("LIMIT", 10)>>
    \o IF t = "v1" THEN <<MCDef("variable", "LIMIT", 13, 13, 16, <<>>)>> ELSE <<>>]

\* Imports run from a.f, and h from package b, as x.
MCUser ==
  [size |-> 20, captures |->
    <<MCImport(0, 3, << <<"a", "f">> >>, "run", ""), MCImport(3, 6, << <<"b">> >>, "h", "x"),
      MCRef("run", 2), MCDef("function", "main", 7, 6, 20, <<>>),
      MCCall("run", 8, ""), MCCall("helper", 10, ""), MCCall("get", 12, ""), MCRef("x", 14),
      MCRef("C", 16), MCRef("main", 7)>>]

\* A text that is Python and JavaScript, and parses differently.
MCBoth ==
  [size |-> 12, captures |->
    <<MCDef("variable", "helper", 1, 0, 6, <<>>), MCDef("function", "helper", 1, 0, 6, <<>>),
      MCDef("function", "get", 8, 7, 12, <<>>), MCCall("run", 3, ""), MCCall("get", 4, "")>>]

MCFunction ==
  [size |-> 12, captures |-> <<MCDef("function", "helper", 1, 0, 12, <<>>), MCCall("run", 3, "")>>]

\* Two types with a method Flush, a caller that knows the type and one that
\* does not.
MCStore ==
  [size |-> 20, captures |->
    <<MCDef("method", "Flush", 1, 0, 5, <<"*", "Store">>), MCDef("function", "use", 7, 6, 20, <<>>),
      MCBind("s", 8, <<"Store">>), MCBind("s", 14, <<"File">>),
      MCCall("Flush", 10, ""), MCCall("Flush", 10, "s"), MCCall("Flush", 16, "y"),
      MCRef("Store", 9)>>]

MCFile ==
  [size |-> 9, captures |->
    <<MCDef("class", "File", 0, 0, 3, <<>>), MCDef("method", "Flush", 4, 3, 9, <<"File">>)>>]

MCImporter ==
  [size |-> 9, captures |->
    <<MCImport(0, 2, << <<"m">>, <<"c">> >>, "", ""), MCBind("f", 3, <<"*", "File">>),
      MCCall("Flush", 5, "f"), MCCall("Flush", 6, ""), MCCall("use", 7, "")>>]

\* Imports from ./v, a directory with an index, and from ../b/h, a file with a
\* sibling h.test.
MCPage ==
  [size |-> 9, captures |->
    <<MCImport(0, 1, << <<"", "">>, <<"v">> >>, "helper", "aid"),
      MCImport(1, 2, << <<"", "", "">>, <<"b">>, <<"h">> >>, "test", ""),
      MCDef("variable", "page", 3, 2, 9, <<>>), MCCall("aid", 4, ""), MCCall("run", 5, "")>>]

\* Imports proto from ./h, which has none, and File from ./h.proto.
MCTester ==
  [size |-> 9, captures |->
    <<MCImport(0, 1, << <<"", "">>, <<"h">> >>, "proto", ""),
      MCImport(1, 2, << <<"", "">>, <<"h", "proto">> >>, "File", ""),
      MCDef("function", "probe", 3, 2, 9, <<>>), MCCall("helper", 4, ""), MCRef("File", 5)>>]

\* Imports a vendored file.
MCService ==
  [size |-> 9, captures |->
    <<MCImport(0, 2, << <<"q">>, <<"errors", "proto">> >>, "", ""),
      MCDef("class", "Svc", 3, 3, 9, <<>>), MCRef("File", 5)>>]

MCNothing == [size |-> 0, captures |-> <<>>]

MCContent(t) ==
  [lib |-> MCLib(t), user |-> MCUser, both |-> MCBoth, store |-> MCStore, file |-> MCFile,
   importer |-> MCImporter, page |-> MCPage, tester |-> MCTester, service |-> MCService, empty |-> MCNothing]

MCParsed ==
  [t \in {"v1", "v2"} |->
     [k \in (DOMAIN MCContent(t)) \X {"python", "javascript", "typescript", "tsx", "go", "proto"} |->
        IF k = <<"both", "javascript">> THEN MCFunction ELSE MCContent(t)[k[1]]]]

\* The cases resolution tells apart, as histories of one repository may meet
\* them; a path is its place in MCPath.
MCFileMaps == {
  (1 :> "lib" @@ 2 :> "user"),                                     \* imported from a sibling
  (1 :> "lib" @@ 2 :> "user" @@ 6 :> "both" @@ 3 :> "empty"),      \* and from a package
  (1 :> "both" @@ 2 :> "user" @@ 4 :> "both" @@ 6 :> "lib"),       \* one blob, two languages
  (2 :> "user" @@ 6 :> "both" @@ 3 :> "both"),                     \* one blob, two paths
  (4 :> "both" @@ 5 :> "file" @@ 6 :> "lib" @@ 7 :> "tester"       \* other families' files,
     @@ 10 :> "user" @@ 15 :> "page"),                             \* one of no language
  (8 :> "store" @@ 9 :> "file" @@ 11 :> "importer"                 \* receivers
     @@ 12 :> "file" @@ 13 :> "service" @@ 14 :> "both" @@ 15 :> "page")}
=============================================================================
