--------------------------- MODULE MCReviewInput ----------------------------
EXTENDS ReviewInput

Line(kind, indent, key, value) ==
  [kind |-> kind, indent |-> indent, key |-> key, value |-> value]
Pair(indent, key, value) == Line("pair", indent, key, value)

\* Three sections, their subsections and lists, values and lines that are wrong,
\* an item that is a pattern of a changed file and one that is not.
MCLines ==
  {Pair(0, <<"approval">>, ""), Pair(2, <<"auto_approve">>, ""),
   Pair(4, <<"enabled">>, "true"),
   Pair(2, <<"require_tests">>, "true"),
   Pair(0, <<"tests">>, ""), Pair(2, <<"require_changed_tests">>, "f"),
   Pair(2, <<"test_file_patterns">>, ""),
   Pair(0, <<"review">>, ""), Pair(2, <<"ignore_files">>, ""),
   Line("item", 4, <<>>, "dist"), Line("item", 2, <<>>, "gen"),
   Pair(0, <<"version">>, "2"), Pair(0, <<"version">>, "nope"),
   Pair(0, <<"model", "temperature">>, "3"), Line("blank", 0, <<>>, ""), Line("item", 0, <<>>, ""),
   Line("tab", 0, <<>>, ""), Pair(3, <<"tests">>, "")}

MCDefaultRisky == <<"auth", "pay">>
MCDefaultTests == <<"tests", "spec">>

MCPaths   == {"dist/app.js", "main.go"}
MCMatches == {<<"dist", "dist/app.js">>}

\* Under a limit of 4 or the default of 6: both files fit, the second is cut or
\* has no room, the first has no room and the second has some.
Changed(header, first, second) ==
  <<[path |-> "dist/app.js", header |-> header, patch |-> first],
    [path |-> "main.go", header |-> 2, patch |-> second]>>
MCChanges == {Changed(2, 0, 1), Changed(2, 1, 4), Changed(6, 0, 2)}
=============================================================================
