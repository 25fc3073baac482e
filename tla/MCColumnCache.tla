--------------------------- MODULE MCColumnCache ---------------------------
(* Small instances of ColumnCache for TLC.                                 *)
EXTENDS ColumnCache

CONSTANTS t1, t2

TwoTables == {t1, t2}
\* A column is added or dropped, or another takes its place: "g" is generated.
TheShapes == {<<"a">>, <<"a", "b">>, <<"a", "g">>}
TheTableInfo ==
  [s \in TheShapes |-> SelectSeq(s, LAMBDA c : c # "g")]
EachUse == {{}, AllUses \ {"failing"}, {"failing"}}

=============================================================================
