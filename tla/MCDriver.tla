------------------------------ MODULE MCDriver ------------------------------
EXTENDS Driver, TLC

\* 32, 54 and 64 bits are 2, 3 and 4 here: 5 is past each but the last.
MCParams == { Value("number", 5), Value("string", Plain), Value("bytes", Plain),
              Value("symbol", 0) }
MCSettings == { [unsafeConcurrency |-> FALSE, int64 |-> FALSE],
                [unsafeConcurrency |-> TRUE, int64 |-> TRUE] }
CONSTANTS s1, s2
MCStatements == {s1, s2}
MCTexts == (s1 :> {"write"}) @@ (s2 :> {"query", "filter", "call", "fold"})

Interchangeable == Permutations(Connections)
=============================================================================
