--------------------------- MODULE MCDependencies ---------------------------
EXTENDS Dependencies, TLC

MCSchemas == {"main", "temp"}
MCNames == {"t", "v", "ft", "ft_c"}
MCOwnerOf == "ft_c" :> "ft"
MCBodyOf == "v" :> "t" @@ "ft" :> "t" @@ "ft_c" :> "t"

Main(n, t) == Row("main", n, t)
Temp(n, t) == Row("temp", n, t)
Fts(s) == {Row(s, "ft", "virtual"), Row(s, "ft_c", "shadow")}

\* Two schemas with one name, a virtual table in each, one table named like the
\* shadow of a virtual table beside it and of one in the other schema, a view of
\* that name, and a virtual table whose shadow the map may not have seen.
MCStarts ==
    { {Main("t", "table"), Main("v", "view")},
      {Main("t", "table"), Temp("t", "table"), Main("v", "view")},
      {Temp("t", "table")} \cup Fts("main"),
      Fts("main") \cup Fts("temp"),
      {Main("ft", "virtual"), Main("ft_c", "table")},
      {Main("ft", "virtual"), Main("ft_c", "view"), Main("t", "table")},
      {Main("ft", "virtual"), Main("t", "table")},
      Fts("main") \cup {Temp("ft_c", "table"), Temp("ft", "table")},
      Fts("temp") \cup {Main("ft_c", "table"), Main("ft", "view"), Main("t", "table")} }
=============================================================================
