------------------------------- MODULE Driver -------------------------------
(* driver/database.ts and driver/statement.ts: connections, the statements     *)
(* prepared on them, and who releases a statement: the program, the garbage    *)
(* collector or close().  Statements write a value into one cell or read it    *)
(* back through the conversions of Values.  A program does not use a statement *)
(* that it finalized or whose connection it closed: nothing stops it.          *)
EXTENDS Values, FiniteSets

CONSTANTS Connections, Statements,
          Texts,         \* statement -> what SQL it may be prepared from
          Params,        \* values that are bound
          MaxSchema,     \* versions of the columns of the query
          MaxRows,       \* rows of the query
          Settings       \* [unsafeConcurrency, int64] a program opens with

ASSUME ConnectionsAssumption == "none" \notin Connections
ASSUME TextsAssumption ==
    \A s \in Statements : Texts[s] \subseteq {"write", "query", "filter", "call", "fold"}
ASSUME ParamsAssumption == Params \subseteq JsValues
ASSUME DriverBoundsAssumption == MaxSchema \in Nat \ {0} /\ MaxRows \in Nat \ {0}
ASSUME SettingsAssumption == Settings \subseteq [unsafeConcurrency : BOOLEAN, int64 : BOOLEAN]

VARIABLES connection,    \* "unopened", "open" or "closed"
          callbacks,     \* connection -> "none", "registered", "freed": a function
          setting,
          STATEMENTS_TO_DB,
          stmt,          \* the Statement objects and their sqlite3_stmt
          schema,        \* of the query: the others read one column
          wrote,         \* the value last written
          row,           \* the last row handed out
          misused        \* the driver passed SQLite a handle it had released

vars == <<connection, callbacks, setting, STATEMENTS_TO_DB, stmt, schema, wrote, row, misused>>

Methods == {"run", "values", "all", "get", "value"}
Sqls == {"write", "query", "filter", "call", "fold"}
HasArgs(sql) == sql \in {"write", "filter"}
None == "none"
Columns(sql) == IF sql = "query" THEN schema ELSE 1
cell == Bind(wrote)

\* native: the sqlite3_stmt; at: the row it stands on, 0 at rest; compiled: the
\* schema it is compiled against, lag: it was not when its execution began;
\* names: #columnNames, 0 when never read; given: #rowObject was handed out;
\* bindings: the buffers bound to it, as far as #bindRefs keeps them; loop: a
\* suspended iter(), with the names of its reader; crossed: another method ran
\* during that loop; left: a loop was left before its end.
NoStmt ==
    [object |-> FALSE, registered |-> FALSE, native |-> "none", sql |-> "query", at |-> 0,
     bound |-> FALSE, bindings |-> "none", compiled |-> 0, lag |-> FALSE,
     names |-> 0, given |-> FALSE, loop |-> 0, crossed |-> FALSE, left |-> FALSE]
NoRow == [names |-> 0, values |-> 0, lag |-> FALSE, crossed |-> FALSE, value |-> Null,
          sql |-> "none", overwrites |-> FALSE]

TypeOK ==
    /\ connection \in [Connections -> {"unopened", "open", "closed"}]
    /\ callbacks \in [Connections -> {"none", "registered", "freed"}]
    /\ setting \in Settings
    /\ STATEMENTS_TO_DB \in [Statements -> Connections \cup {None}]
    /\ \A s \in Statements :
          /\ stmt[s].native \in {"none", "open", "freed"} /\ stmt[s].sql \in Sqls
          /\ stmt[s].at \in 0..MaxRows
          /\ {stmt[s].compiled, stmt[s].names, stmt[s].loop} \subseteq 0..schema
          /\ stmt[s].bindings \in {"none", "held", "gone"}
    /\ schema \in 1..MaxSchema
    /\ misused \in BOOLEAN
    \* What a connection allocated ends with it.
    /\ \A c \in Connections : callbacks[c] = "registered" => connection[c] = "open"

connections == <<connection, callbacks, setting>>
data == <<schema, wrote>>
Usable(s) == stmt[s].object /\ stmt[s].native = "open"

-----------------------------------------------------------------------------
(* Connections and functions.                                                  *)

Open(c) ==
    /\ connection[c] = "unopened"
    /\ connection' = [connection EXCEPT ![c] = "open"]
    /\ row' = NoRow /\ UNCHANGED <<callbacks, setting, STATEMENTS_TO_DB, stmt, data, misused>>

Function(c) ==
    /\ connection[c] = "open" /\ callbacks' = [callbacks EXCEPT ![c] = "registered"]
    /\ row' = NoRow /\ UNCHANGED <<connection, setting, STATEMENTS_TO_DB, stmt, data, misused>>

Own(c) == {s \in Statements : STATEMENTS_TO_DB[s] = c}

Released(record) == [NoStmt EXCEPT !.native = "freed", !.object = record.object,
                                   !.registered = record.registered]
Unlisted(released) ==
    [s \in Statements |-> IF s \in released THEN None ELSE STATEMENTS_TO_DB[s]]
Release(released) ==
    /\ STATEMENTS_TO_DB' = Unlisted(released)
    /\ misused' = (misused \/ \E s \in released : stmt[s].native # "open")

\* Mutant: close() leaves the callbacks of its functions.
FreedNever(c) == callbacks
Freed(c) == [callbacks EXCEPT ![c] = IF @ = "registered" THEN "freed" ELSE @]

Close(c) ==
    /\ connection[c] = "open"
    /\ Release(Own(c))
    /\ stmt' = [s \in Statements |-> IF s \in Own(c) THEN Released(stmt[s]) ELSE stmt[s]]
    /\ callbacks' = Freed(c)
    /\ connection' = [connection EXCEPT ![c] = "closed"]
    /\ row' = NoRow /\ UNCHANGED <<setting, data>>

-----------------------------------------------------------------------------
(* A statement's life.                                                         *)

Prepare(s, c, sql) ==
    /\ connection[c] = "open" /\ ~stmt[s].object /\ stmt[s].native # "open"
    /\ sql \in {"call", "fold"} => callbacks[c] = "registered"
    /\ stmt' = [stmt EXCEPT ![s] = [NoStmt EXCEPT !.object = TRUE, !.registered = TRUE,
                                                  !.native = "open", !.sql = sql,
                                                  !.compiled = Columns(sql)]]
    /\ STATEMENTS_TO_DB' = [STATEMENTS_TO_DB EXCEPT ![s] = c]
    /\ row' = NoRow /\ UNCHANGED <<connections, data, misused>>

\* Finalizing twice, or after close(), does nothing.
Finalize(s) ==
    /\ stmt[s].object /\ STATEMENTS_TO_DB[s] # None
    /\ Release({s})
    /\ stmt' = [stmt EXCEPT ![s] = [Released(@) EXCEPT !.registered = FALSE]]
    /\ row' = NoRow /\ UNCHANGED <<connections, data>>

\* The program lets a statement go, with its loops, and it is collected: the
\* finalizer runs unless finalize() unregistered it.
\* Mutant: whether or not the statement is still in the map.
FinalizesRegistered(s) == IF stmt[s].registered THEN {s} ELSE {}
Finalizes(s) == IF stmt[s].registered /\ STATEMENTS_TO_DB[s] # None THEN {s} ELSE {}
Collect(s) ==
    /\ stmt[s].object
    /\ Release(Finalizes(s))
    /\ stmt' = [stmt EXCEPT ![s] = IF s \in Finalizes(s) \/ @.native = "freed" THEN NoStmt
                                   ELSE [@ EXCEPT !.object = FALSE]]
    /\ row' = NoRow /\ UNCHANGED <<connections, data>>

\* The columns of the query change, on this or another connection.
ChangeSchema ==
    /\ schema < MaxSchema /\ schema' = schema + 1
    /\ row' = NoRow /\ UNCHANGED <<connections, STATEMENTS_TO_DB, stmt, wrote, misused>>

-----------------------------------------------------------------------------
(* Running a statement.                                                        *)

\* Whether the caller gives the arguments, and which.
Mine(record) == HasArgs(record.sql) /\ ~record.bound
Arguments(s) == IF Mine(stmt[s]) THEN Params ELSE {Null}

\* sqlite3_reset, and clear_bindings unless bind() was called.
Begun(record) ==
    [record EXCEPT !.at = 0, !.crossed = (record.loop # 0), !.left = FALSE, !.lag = FALSE,
                   !.bindings = IF Mine(record) THEN "none" ELSE @]

\* Text and bytes are bound where they are, and kept alive by #bindRefs.
ByReference(v) == v.type \in {"string", "bytes", "date", "object"} /\ v # Value("string", Empty)
WithArguments(record, v) ==
    IF ByReference(v) THEN [record EXCEPT !.bindings = "held"] ELSE record

\* #bindRefs.clear() once the last step is made.
LetGo(record) ==
    IF Mine(record) THEN [record EXCEPT !.bindings = IF @ = "held" THEN "gone" ELSE @]
    ELSE record

\* columnNames(), before the step that may compile the statement anew.
\* Mutant: the first list is kept.
KeptAlways(record) == record.names # 0
Kept(record) == record.names # 0 /\ setting.unsafeConcurrency
Named(record) ==
    IF Kept(record) \/ record.sql = "write" THEN record ELSE [record EXCEPT !.names = record.compiled, !.given = FALSE]

\* The step that starts an execution compiles the statement anew if need be.
Compiled(record) == [record EXCEPT !.compiled = Columns(record.sql), !.lag = (record.compiled # Columns(record.sql))]

\* A parameter given to bind() is bound once, for every later execution.  Here
\* only of a query: run() refuses a statement that was bound.
BindForGood(s, v) ==
    /\ Usable(s) /\ stmt[s].sql = "filter" /\ stmt[s].at = 0 /\ stmt[s].loop = 0
    /\ ~stmt[s].bound /\ Bind(v) # Threw
    /\ stmt' = [stmt EXCEPT ![s] = [WithArguments(@, v) EXCEPT !.bound = TRUE]]
    /\ row' = NoRow /\ UNCHANGED <<connections, STATEMENTS_TO_DB, data, misused>>

\* Of a statement that was bound only get() and value() take no arguments.
Refuses(s, method) == HasArgs(stmt[s].sql) /\ stmt[s].bound /\ method \notin {"get", "value"}

BindThrows(s, method, v) ==
    /\ Usable(s) /\ HasArgs(stmt[s].sql)
    /\ Refuses(s, method) \/ (~stmt[s].bound /\ Bind(v) = Threw)
    /\ stmt' = [stmt EXCEPT ![s] = Begun(@)]
    /\ row' = NoRow /\ UNCHANGED <<connections, STATEMENTS_TO_DB, data, misused>>

\* Mutant: get() and value() return from a row without a reset.
RestsOnRow(method) == IF method \in {"get", "value"} THEN 1 ELSE 0
Rests(method) == 0

\* The row a step produced, read with the given names; `stays' is of Result.
Through(sql, stays) ==
    CASE sql = "call" -> Result(Argument(cell), stays)
      [] sql = "fold" -> Aggregated([i \in 1..MaxRows |-> cell], stays)
      [] OTHER -> cell
Fails(sql) == Through(sql, TRUE) = Threw
Outcomes(sql) == IF sql \in {"call", "fold"} THEN BOOLEAN ELSE {TRUE}
RowOf(record, names, filled, stays) ==
    [names |-> names, values |-> record.compiled, lag |-> record.lag, crossed |-> record.crossed,
     value |-> Column(Through(record.sql, stays), setting.int64, TRUE, FALSE),
     sql |-> record.sql, overwrites |-> filled /\ record.given]

\* get() without arguments fills #rowObject again.
Refills(record, method) == method = "get" /\ ~HasArgs(record.sql)
Prepared(record, method, v) ==
    LET named == IF method \in {"all", "get"} THEN Named(Begun(record)) ELSE Begun(record)
    IN Compiled(IF Mine(record) THEN WithArguments(named, v) ELSE named)

\* run, values, all, get or value: to the end, to the first row, or to an error.
Execute(s, method, v, outcome, stays) ==
    /\ Usable(s) /\ ~Refuses(s, method) /\ (Mine(stmt[s]) => Bind(v) # Threw)
    /\ outcome = "row" => stmt[s].sql # "write" /\ ~Fails(stmt[s].sql)
    /\ LET ran == Prepared(stmt[s], method, v)
           fills == outcome = "row" /\ Refills(ran, method)
       IN /\ stmt' = [stmt EXCEPT ![s] =
                [LetGo(ran) EXCEPT !.at = IF outcome = "row" THEN Rests(method) ELSE 0,
                                   !.given = @ \/ fills, !.lag = FALSE]]
          /\ row' = IF outcome = "row" /\ method # "run"
                      THEN RowOf(ran, IF method \in {"all", "get"} THEN ran.names ELSE 0,
                                 fills, stays)
                      ELSE NoRow
          /\ IF stmt[s].sql = "write" /\ outcome = "done"
                THEN wrote' = v
                ELSE UNCHANGED wrote
    /\ UNCHANGED <<connections, STATEMENTS_TO_DB, schema, misused>>

-----------------------------------------------------------------------------
(* iter(): one step for each row, the program in between.                      *)

Iterate(s, v, stays) ==
    /\ Usable(s) /\ stmt[s].sql # "write" /\ stmt[s].loop = 0
    /\ ~Refuses(s, "iter") /\ (Mine(stmt[s]) => Bind(v) # Threw) /\ ~Fails(stmt[s].sql)
    /\ LET ran == Prepared(stmt[s], "all", v)
       IN /\ stmt' = [stmt EXCEPT ![s] = [ran EXCEPT !.at = 1, !.loop = ran.names]]
          /\ row' = RowOf(ran, ran.names, FALSE, stays)
    /\ UNCHANGED <<connections, STATEMENTS_TO_DB, data, misused>>

\* The next step: after another method ran, the first of a new execution.
IterNext(s, stays) ==
    /\ Usable(s) /\ stmt[s].loop # 0 /\ stmt[s].at < MaxRows /\ ~Fails(stmt[s].sql)
    /\ LET ran == IF stmt[s].at = 0 THEN Compiled(stmt[s]) ELSE stmt[s]
       IN /\ stmt' = [stmt EXCEPT ![s] = [ran EXCEPT !.at = @ + 1]]
          /\ row' = RowOf(ran, ran.loop, FALSE, stays)
    /\ UNCHANGED <<connections, STATEMENTS_TO_DB, data, misused>>

\* No row is left, or the step fails; or the program leaves the loop.
LoopEnds(s) ==
    /\ Usable(s) /\ stmt[s].loop # 0
    /\ \E left \in BOOLEAN :
          stmt' = [stmt EXCEPT ![s] = [stmt[s] EXCEPT !.loop = 0, !.crossed = FALSE,
                                               !.at = IF left THEN @ ELSE 0, !.left = left, !.lag = FALSE]]
    /\ row' = NoRow /\ UNCHANGED <<connections, STATEMENTS_TO_DB, data, misused>>

-----------------------------------------------------------------------------

Init ==
    /\ connection = [c \in Connections |-> "unopened"] /\ callbacks = [c \in Connections |-> "none"]
    /\ setting \in Settings
    /\ STATEMENTS_TO_DB = [s \in Statements |-> None] /\ stmt = [s \in Statements |-> NoStmt]
    /\ schema = 1 /\ wrote = Null /\ row = NoRow /\ misused = FALSE

Next ==
    \/ \E c \in Connections :
          Open(c) \/ Function(c) \/ Close(c)
          \/ \E s \in Statements : \E sql \in Texts[s] : Prepare(s, c, sql)
    \/ \E s \in Statements : Finalize(s) \/ Collect(s) \/ LoopEnds(s)
    \/ \E s \in Statements :
          \/ \E v \in Params : BindForGood(s, v)
          \/ \E v \in Arguments(s), method \in Methods : BindThrows(s, method, v)
          \/ \E stays \in Outcomes(stmt[s].sql) :
                \/ IterNext(s, stays)
                \/ \E v \in Arguments(s) : Iterate(s, v, stays)
                \/ \E v \in Arguments(s), method \in Methods, outcome \in {"row", "done", "error"} :
                      Execute(s, method, v, outcome, stays)
    \/ ChangeSchema

Spec == Init /\ [][Next]_vars

-----------------------------------------------------------------------------

\* The map holds the statements SQLite has, with their connections, so that each
\* is released once, by finalize(), by the collector or by close(), and none
\* outlives its connection (statement.ts:77).
HandlesAreExact ==
    /\ ~misused
    /\ \A s \in Statements :
          /\ STATEMENTS_TO_DB[s] # None <=> stmt[s].native = "open"
          /\ STATEMENTS_TO_DB[s] # None => connection[STATEMENTS_TO_DB[s]] = "open"

\* Between two calls a statement stands on a row only in a loop, or after one
\* that was left, and a loop reads no bound buffer that was let go unless another
\* method ran in it (statement.ts:390, 662).
StatementsComeToRest ==
    \A s \in Statements :
       /\ stmt[s].at > 0 => stmt[s].loop # 0 \/ stmt[s].left
       /\ stmt[s].loop # 0 /\ stmt[s].bindings = "gone" => stmt[s].crossed

\* What RowsAreRight says of a row read through the given texts.
ReadRight(sqls, unharmed) ==
    row.sql \in sqls /\ unharmed => row.value = Expected(wrote, setting.int64)
ReadsAreRight == ReadRight({"query", "filter"}, Unharmed(wrote, setting.int64))
CallsAreRight == ReadRight({"call"}, UnharmedByCall(wrote, setting.int64))
FoldsAreRight == ReadRight({"fold"}, UnharmedByFold(wrote, setting.int64))
RowsAreNamed ==
    ~setting.unsafeConcurrency =>
       /\ row.names \in {0, row.values} \/ row.lag \/ row.crossed
       /\ ~row.overwrites

\* A row that is read carries the value that was written, as far as the reading
\* can hold it, also what is not a text through a function of SQL and what is
\* neither a text nor bytes through an aggregate; it has the names of its columns,
\* but for the first execution after they changed and a loop another method ran
\* in; and it stays as it was handed out.  The last two may fail under
\* unsafeConcurrency (statement.ts:492).
RowsAreRight == ReadsAreRight /\ CallsAreRight /\ FoldsAreRight /\ RowsAreNamed

-----------------------------------------------------------------------------
(* The inductive invariant behind them.                                        *)

StmtRecords ==
    [object : BOOLEAN, registered : BOOLEAN, native : {"none", "open", "freed"}, sql : Sqls,
     at : 0..MaxRows, bound : BOOLEAN, bindings : {"none", "held", "gone"}, compiled : Nat,
     lag : BOOLEAN, names : Nat, given : BOOLEAN, loop : Nat, crossed : BOOLEAN, left : BOOLEAN]

\* A loop has names, those its rows were compiled with unless its first step
\* compiled anew or another method ran in it, which is also the only way to rewind
\* it; and a buffer is let go only by an execution that bound it.
LoopInv(record) ==
    /\ record.native = "open" => record.compiled # 0
    /\ record.at > 0 => record.loop # 0 \/ record.left
    /\ record.loop # 0 =>
          /\ record.bindings = "gone" => record.crossed
          /\ record.at = 0 => record.crossed
          /\ setting.unsafeConcurrency \/ record.loop = record.compiled
                \/ record.lag \/ record.crossed
    /\ ~HasArgs(record.sql) => record.bindings = "none"

IInv ==
    /\ TypeOK /\ stmt \in [Statements -> StmtRecords] /\ wrote \in JsValues
    /\ HandlesAreExact /\ RowsAreNamed
    /\ \A s \in Statements : LoopInv(stmt[s])

=============================================================================
