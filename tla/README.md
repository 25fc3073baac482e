# A TLA+ model of reactive-sqlite-ts

This directory models the library in `src/` and the SQLite driver in `driver/`
and checks what they promise. Paths below are the repository's own
(`src/hooks.ts`); `PROJECT.json` maps every definition to the lines it stands
for. Run a model with `tlc -config X.cfg M.tla`, check the proofs of a module with
`tlapm M.tla`, where `M` is one of the `...Proofs`.

Contents: 1 the system, 2 what makes each part correct, 3 the modules, 4 the
runs and their bounds, 5 fairness, 6 the proofs, 7 disagreements between the code
and its documentation, 8 what is not modelled, 9 the plan.

## 1. The system

reactive-sqlite-ts turns SQLite's C hooks into JavaScript events. Everything is
synchronous and single threaded: SQLite calls a hook while a driver method is on
the JavaScript stack, the hook calls listeners, and some listeners may call the
driver again. Concurrency is re-entrancy, plus other connections to the same
file, plus whatever SQLite decides inside one call.

| Component | Source | State | Operations | Hard behaviour |
|---|---|---|---|---|
| Transaction events | `attach` in `src/hooks.ts` | `pending`, `pendingCount`, `committed`, `depth`, `errors` | handlers `update`, `commit`, `rollback`; `instrument`, `drain`, `dispatch`, `flush`; `close` | a drain inside a drain; commits that fail after the hook approved them; several transactions in one call; `iter()`, which nobody drains |
| Registration lifecycle | `withEvents`, `join`, `subscription`, `patch`, `patchStatementIter` in `src/hooks.ts` | registration map, listeners, `torn`, `detached`, `closed`, `inHook`, `inListener`, patch count | attach, join, dispose, close, guards | hooks torn down exactly once and never under a callback; statements wrapped by an earlier registration; the patch on `Statement.prototype` shared by all connections |
| Listener errors | `dispatch`, `flush`, `inFfi` in `src/hooks.ts` | `errors`, the exception under way | report, throw, aggregate | a reporter that throws; errors of an outer dispatch flushed by an inner call |
| Column cache | `primeSchema`, `preupdate` handler in `src/hooks.ts` | `columnCache`, `schemaDirty` | prime, mark dirty, look up | a cache stale when used |
| Decision events | `authorize`, `busy`, `progress`, `collation` handlers in `src/hooks.ts` | verdict latches, `live` | deny, ignore, retry, giveUp, abort, provide | a verdict kept and used after its event |
| Displacement detection | `checkWalHook`, `checkTraceHook`, `checkBusyHook` in `src/hooks.ts` | latches `*Displaced`, `sawStatementTrace` | check after a drain | another user replacing the hook |
| Validation | `withValidation` in `src/hooks.ts` | `rejection` | remember, spend, forget | savepoints and partial rollbacks |
| FFI backend | `src/backend_ffi.ts`, seam `src/backend.ts` | registered callbacks, installed hooks, collations | attach, detach, register, close | registering and closing in the right order |
| Schema map | `src/schema_map.ts` | snapshot of the schema | build, resolve names, list shadows | one name in two schemas, tables only named like a shadow |
| Schema watch | `src/schema_watch.ts` | `armed`, current map, mode | authorize, commit, rollback, refresh | DDL rolled back, refresh that fails |
| Dependencies | `src/dependencies.ts` | `reads`, `writes`, `limits`, `capture` of one extraction | probe, compile, collect authorizer events, resolve, read the tail, dispose | views and virtual tables, names without a schema, a map older than the schema, a second statement in the text |
| Driver transactions | `transaction`, `wrapTransaction` in `driver/database.ts` | SQLite's: `autocommit`, savepoints of one name | begin, commit, rollback, nesting | an undo that fails, a transaction SQLite rolled back by itself |
| Driver statements | `driver/statement.ts`, `driver/database.ts` | `STATEMENTS_TO_DB`, callbacks of functions; per statement names, bindings, `#bound`, `#rowObject` | open, prepare, bind, run, iter, finalize, collect, close, convert values | three ways to release one handle; names read before the step that recompiles; integer widths and empty buffers |
| Driver blobs | `driver/blob.ts` | open handle | read, write, close | use after close |

The parts interact in three ways. *Calls*: the program calls driver methods,
which `attach` has replaced by wrappers (`instrument`), which call the driver,
which calls SQLite. *Callbacks*: SQLite calls the FFI callbacks of the backend,
which call the handlers of `attach` through `inFfi`, which dispatch an event to
every listener; schema watch and validation are listeners. *Shared state*: the
flags of a registration, which wrappers, handlers, `dispose` and `close` read and
write, and `Statement.prototype`, which all connections share. Nothing runs in
parallel and nothing is persisted by the library itself, so there are no messages
to lose and no recovery after a crash; what takes their place is re-entrancy,
failure between two steps of SQLite, and programs that use the API in an order
its author did not have in mind.

## 2. What makes each part correct

| Component | Properties |
|---|---|
| Transaction events | a batch holds exactly the reported rows of one transaction; a postcommit names a transaction that landed and a rollback one that was discarded; every landed transaction is announced once, in commit order, before the call that caused it returns; `depth` is balanced |
| Registration lifecycle | hooks are removed before the connection goes and never while a listener runs; no call steps inside a hook or on a closed connection; live subscriptions are served; the shared patch is there while anybody needs it |
| Schema watch | the snapshot is current unless the watch says it may not be; an absent name costs one refresh; the signal is not lost |
| Listener errors | each error is surfaced once, with the exception of the call it belongs to |
| Column cache | a row is named, and by its own columns, unless its table has a generated one, and then never; a row that could not be named is not followed by a call of the same |
| Decision events | the first decision (or, for busy, the last) made during the event counts, and none made after it |
| Displacement | a hook that SQLite's own replaced is reported at the next commit, a trace callback that was taken at the second, and a live one never |
| Validation | a transaction with a rejected row does not land, and one without lands |
| FFI backend | SQLite never holds a pointer to a freed callback; commits are checkpointed as before |
| Dependencies, schema map | "complete" is never said of a set with a table missing; an answer holds nothing foreign; a shadow table maps to its owner and to nothing else, in both directions |
| Driver transactions | a function that throws leaves no change behind, at any nesting; one that returns leaves all of them |
| Driver statements | each handle is released once and before its connection; a statement is at rest between calls; a row has the value that was written, unless a function lost its memory, and its own names |

## 3. Modules

| Module | Extends or instantiates | Models |
|---|---|---|
| `CommitFeed` | | the promise about endings of transactions, without mechanism |
| `TxEvents` | instantiates `CommitFeed` (refinement) | the event core of one registration |
| `Lifecycle` | | registrations, wrappers and guards of several connections |
| `SchemaWatch` | | the schema watch on one connection |
| `ColumnCache` | | the column names of preupdate events |
| `DriverTransaction` | instantiates `AtomicCalls` (refinement) | transaction functions of the driver under validation |
| `AtomicCalls` | | the promise of transaction functions, without BEGIN or SAVEPOINT |
| `SchemaMap` | | a listing of the schema and what it answers |
| `Dependencies` | extends `SchemaMap` | the extraction of what a statement touches |
| `Decisions` | | the handlers whose answer goes back to SQLite |
| `Callbacks` | extends `Decisions` | the FFI backend on one connection, and displacement |
| `Values` | | conversions of values between JavaScript and SQLite |
| `Driver` | extends `Values` | connections and statements of the driver |
| `MC...` | extend the above | small instances for TLC |
| `TxEventsProofs`, `LifecycleProofs`, `SchemaWatchProofs`, `ColumnCacheProofs`, `DriverTransactionProofs`, `CallbacksProofs`, `DriverProofs`, `DependenciesProofs` | extend the module they are named after | theorems and their proofs |

Each model takes from the others only what its own questions need:
`Lifecycle` has hooks and drains but not what the events say, `TxEvents` has one
registration that lasts until `close`, `SchemaWatch` has the drain with two
listeners and no registrations, `ColumnCache` has the nesting of calls and no
drain. The frame stack is the piece they share in form. `Callbacks` composes the
decision handlers with the backend that calls them and with the drain's checks,
`DriverTransaction` composes validation with the driver whose commits it refuses,
`Dependencies` runs over the map of `SchemaMap`, and `Driver` passes what it
stores through `Values`.

**`CommitFeed`** is the promise: transactions land or are discarded; landed ones
are announced in commit order, discarded ones at the moment of the rollback. It
has no hooks, stash or calls.

**`TxEvents`** is the event core. Its state has three parts: SQLite's side (the
transaction open now, whether it holds the write lock, whether a COMMIT is under
way), modelled from what the code and its comments rely on; the variables of the
closure of `attach`, by name; and the JavaScript stack, one frame per driver
call, in phase `sql` while the wrapped method runs and `drain` while its wrapper
announces. A frame that drains holds the batch being dispatched and the listener
it is at, so a listener that uses the connection pushes a frame on a frame that
is in the middle of a dispatch. Rows are the id of the transaction that touched
them. The history variables (`log`, `told`, `rolled`, `heard`, ...) are what
properties are about; no action of the code reads them.

| Action of `TxEvents` | Code |
|---|---|
| `Write` | the `update` handler, inside a statement |
| `CommitHook`, `RollbackHook` | the `commit` and `rollback` handlers with the dispatch they make |
| `BeginCall`, `EndCall` | `instrument` around a driver method, up to the test for depth zero |
| `DrainNext`, `Notify`, `ListenerReturns` | `drain` and the `postcommit` dispatch, one listener at a time |
| `FinishCall` | `flush` and the return to the caller |
| `BeginClose`, `FinishClose` | the patched `close` |
| `Begin`, `CommitReadOnly`, `Land`, `FailCommit`, `StartIter`, `EndIter` | SQLite and the program |

Two constants describe the regime: `MaxEndsPerCall`, the transactions one
outermost driver call ends, and `IterWrites`, whether the program steps a writing
statement by `iter()`. With 1 and FALSE the code keeps all of `CommitFeed`; beyond
them it keeps less, and the runs say what.

**`Lifecycle`** has the driver's side (`open`, `native`: whose callbacks SQLite
calls), the patches (`regOf`, `wrappers`, `statements`, `iterDepth`,
`iterPatched`), the fields of `Registration` by name, and the stack of calls,
hooks, events dispatched from JavaScript and closes. The one thing everything
turns on is that a wrapper acts for the registration that made it, which is not
always the registration in force: wrappers of the Database are put back by
`detach`, those of statements never are, and `iter()` looks its registration up.

| Action of `Lifecycle` | Code |
|---|---|
| `Attach`, `Join`, `Dispose` | `withEvents`, `join`, `subscription.dispose` with `teardown` and `detach` |
| `BeginClose`, `CloseDiscards`, `FinishClose` | the patched `close`: drain, the rollback it reports, teardown |
| `DriverClose` | `close` of a connection without wrappers |
| `UseConnection`, `UseStatement`, `Iterate`, `Prepare` | wrapped calls with `refuseFromHook` |
| `Hook`, `HookReturns` | `inFfi` and the dispatch inside it |
| `EndCall`, `DrainBatch`, `EventReturns`, `FinishDrain` | the end of `instrument`, `drain` and its dispatches |

**`SchemaWatch`** has the connection as the watch sees it (`catalog`, the
transaction, DDL prepared and not yet run, stashed postcommits), the stack, and
`map`, `armed`, `tried` of the class. A refresh is a frame of its own, because
other code runs in three places inside `#refresh`: under the reading (the drain of
the wrapper around that call), in `onRefresh`, and after a throw of either.

| Action of `SchemaWatch` | Code |
|---|---|
| `Prepare`, `PrepareAhead`, `RunKept` | the authorizer event and `observe` |
| `Execute`, `Write`, `Commit`, `Abandon` | SQLite |
| `Rollback` | the rollback event and `observe` |
| `EndSql`, `TakeBatch`, `ObservePostcommit`, `OtherListener`, `OtherReturns`, `FinishCall` | the wrapper's drain, with the watch and one more listener |
| `RefreshIfArmed`, `RefreshNow`, `ResolveOrRefresh`, `RefusedRefresh` | the entry points |
| `ReadSchema`, `ReadFails`, `InstallMap`, `FinishRefresh`, `CallbackThrows` | `#refresh` |

**`ColumnCache`** has the schema as the connection sees it (with the one a
rollback would restore), `columnCache` and `schemaDirty` of `attach`, and the calls
under way, of which all that matters is whether their text looks like DDL. A table
stands for a schema and a table name, and its shape is the sequence of the columns
its rows have. `TableInfo` gives the names `primeSchema` reads for a shape:
`pragma_table_info` leaves generated and hidden columns out, which
`sqlite3_preupdate_count` counts, so the names of a table that has one never fit.
Nothing is assumed of `TableInfo` but that it lists all the columns or fewer.

| Action of `ColumnCache` | Code |
|---|---|
| `BeginCall` (with `Boundary`, `PrimeSchema`), `BeginInnerCall`, `EndCall` | `instrument`: refill, then mark, at depth zero only |
| `Row`, `UnreadableRow` | the `preupdate` handler |
| `Ddl`, `DdlElsewhere`, `Begin`, `Commit`, `Rollback` | SQLite and other connections |

**`DriverTransaction`** has SQLite's transaction (`autocommit`, `dirty`, the
savepoints, all of one name, as what `dirty` was at each), the transaction
functions under way, and `rejection` of `withValidation`. The preupdate, precommit
and rollback events are part of the statement that causes them.

| Action of `DriverTransaction` | Code |
|---|---|
| `Enter`, `Returns`, `Throws`, `Catch` | `wrapTransaction`: before, the function and after, the catch block |
| `Write` with `Preupdate`, `Precommit`, `Discard` | a statement, with the events `withValidation` hears |
| `Script`, `StartStepping`, `StopStepping` | SQL of the program that ends transactions, an `iter()` of it |

**`Dependencies`** holds two schemas, the one the connection has and the one the
map was built from, at most `MaxBehind` objects apart, and one statement under extraction.
What SQLite reports while it compiles is derived from the statement and the
schema, and reported in any order. A map may lack objects or have too many; what the
model leaves out is a name that comes back as another kind of object while the map
still has the first (section 7).

| Action of `Dependencies` | Code |
|---|---|
| `Begin`, `Probe`, `Compiled`, `CompileFails`, `Return` | `extractDependencies` from `withEvents` to `dispose` |
| `Report`, `TailReports` with `Observe` | its listener |
| `TailRead` | `tailLimit` and the answer |
| `ChangeSchema` | DDL after the map was captured |

**`Decisions`** is one event at a time, offered to the listeners in turn; they
call its functions, throw, or keep the functions for later. **`Callbacks`** adds
what SQLite holds per hook and per collating sequence (`none`, `ours`, `freed`,
`other`, which is SQLite's own or any trace callback, and `plain`, which no pragma
tells), the attachment, and the driver calls in whose drain the checks run. `leaked`
counts the collation-needed callbacks, which `detach` unregisters and never closes.

| Action of `Decisions` and `Callbacks` | Code |
|---|---|
| `Deliver`, `Nested`, `Return` | `inFfi` around a handler, and its answer |
| `Say`, `Late`, `ListenerReturns`, `ListenerThrows` | the functions of an event, and `dispatch` |
| `Attach`, `AttachRefused`, `Dispose`, `Close` | `withEvents`, `openLibrary`, `attach` and `detach` of the backend |
| `Provide` | `provide` and `registerCollation` |
| `Fire`, `NestedFire`, `Commit` | the callbacks; `commit` and `walCb` with its checkpoint |
| `BeginCall`, `EndCall`, `Drain`, `Drained`, `CheckHooks` | `instrument`, `drain` and its three checks |
| `Take`, `StopStepping` | other users of the connection |

**`Driver`** has the connections, `STATEMENTS_TO_DB`, and per `Statement` object
the fields that outlive a call, with the row its `sqlite3_stmt` stands on. One
cell of the database is written and read back, directly or through a function or
an aggregate of SQL; **`Values`** says what becomes of it, with widths as
constants. Where the driver hands over memory instead of a value, the model has the
memory: a text that a function returns is read by SQLite after the call, from a buffer
nothing keeps, and bytes a function is given are a view of SQLite's memory, which an
aggregate may keep for longer than it is valid. `stays`, chosen at each row, says whether
such memory is untouched when it is read; if not, the row carries `Dead`. That the
process may also crash is not an outcome of the model.

| Action of `Driver` | Code |
|---|---|
| `Open`, `Function`, `Close` | the constructor, `function` and `aggregate`, `close` |
| `Prepare`, `Finalize`, `Collect` | the `Statement` constructor, `finalize`, the finalizer |
| `BindForGood`, `BindThrows`, `Execute` | `bind`; `run`, `values`, `all`, `get`, `value` in their forms with and without arguments |
| `Iterate`, `IterNext`, `LoopEnds` | `iter` |
| `ChangeSchema` | DDL |

`Driver` takes it that a program leaves a statement alone once it has finalized it
or closed its connection, because nothing in the driver stops it (section 8).

**Programs and uses.** `Lifecycle`, `SchemaWatch`, `ColumnCache` and
`DriverTransaction` are open: the program around them decides what is called. A
constant `Programs` lists the sets of *uses* that a behaviour may draw on (the
header of each module explains them), and the variable `uses` holds the set one
behaviour drew. The empty set is the documented use; each further use is one the
code permits and the documentation does not rule out. A property that some use
breaks names that use as its hypothesis, so the text of the property says what it
takes to keep it; it is checked with every other use the run draws.

| Property | kept under |
|---|---|
| `MapIsCurrent` | the documented use and `callback` |
| `ArmedUntilSafePoint` | every use but `inhook` |
| `OneRefreshPerName` | every use but `callback` and `script` |
| `NothingTornUnderListener`, `SubscriptionsAreServed` | every use |
| `NothingStepsInHook` | every use but `old` and `before` |
| `PostcommitIsPrompt` | every use but `old`, `before` and `nested` |
| `NothingStepsClosed` | every use but `closed` and `old` |
| `RowsCarryTheirNames` | the documented use |
| `MissedOnce` | every use but `failing` |
| `NoRefusedRowLands`, `RemembersThisTransaction` | every use |
| `CauseIsKept` | every use but `iterating` and `script` |
| `CallsAreAtomic` | the documented use |

## 4. Runs

| Run | Configuration | Question | Bounds |
|---|---|---|---|
| `single` | `TxEventsSingle` | when a driver call ends at most one transaction: is every batch exact, is `rollback` about the discarded transaction, is nothing left behind when the outermost call returns, is `depth` balanced, does the core implement `CommitFeed`? | 2 listeners, 3 transactions of up to 2 rows, retention 1, 3 nested frames, 1 waiting error |
| `script` | `TxEventsScript` | what survives when a call ends two transactions, and `iter()` writes? | 2 listeners, 3 transactions of 1 row, 3 frames |
| `fair` | `TxEventsFair` | is every landed transaction announced in the end? | 1 listener, 2 transactions, 3 frames |
| `mislabelled` | `TxEventsMislabelled` | violated: with two endings in a call `rollback` names a landed transaction | 2 transactions |
| `life` | `Lifecycle` | what do registrations guarantee, under the documented use and under all uses at once? | 2 connections, 2 listeners, 2 registrations, 4 frames |
| `watch` | `SchemaWatch` | is the snapshot current, the signal kept, the refresh bounded? | 2 names, one of them attachable, 3 changes of the schema, 4 frames, the documented use and four mixes of the others |
| `names` | `ColumnCache` | does every row carry its own names under the documented use, and is a miss repaired under every use that leaves the schema readable? | 2 tables, 3 shapes, one with a generated column and two of one length, 2 nested calls, the documented use and two mixes of the others |
| `tx` | `DriverTransaction` | does a refused row ever land, is a rejection about the open transaction, do transaction functions implement `AtomicCalls`, and is the function's exception the one that is seen? | 3 rows, 3 nested functions, the documented use, two of the others and all at once |
| `deps` | `Dependencies` | does an answer without a caveat cover every later change event, hold nothing foreign, and does the subscription end? | 9 schemas of up to 4 objects in 2 databases, statements of 2 accesses, a map one object behind |
| `callbacks` | `Callbacks` | does SQLite hold a freed callback, is it told what the listeners asked for, is it checkpointed as before, is a displaced hook reported? | 2 listeners, 2 calls on an event, 2 attachments, 3 libraries, 6 sets of options, 2 nested calls, logs of 1 frame |
| `callbacks_unchanged` | `CallbacksUnchanged` | violated: attaching turns automatic checkpoints on where they were off | as `callbacks`, thresholds 0 and 1 |
| `driver` | `Driver` | is each handle released once, do statements come to rest, are rows right? | 2 connections, 2 statements of 5 kinds, 4 values, 2 versions of the schema, 2 rows, integers of 2, 3 and 4 bits |

Why the bounds are enough. Two listeners are needed for the order in which
different listeners hear of one transaction, and two suffice because listeners
only interact through the connection. Three frames give a call, a listener's call
inside its drain, and a listener's call inside that one; a further level repeats
the second. In `single`, two rows against a retention of one reach the truncated
batch, and three transactions reach a commit, one announced during its drain, and
a failed one between. In `life`, two registrations are either both on one
connection, one after the other, or on both connections at once, the two ways
they can meet; four frames are a call, a hook or an event in it, a call of that
listener and an event in it. In `watch`, three changes of the schema are a change, a change
during its refresh and a rolled-back one; the last frame is kept for the refresh a
postcommit asks for. In `names`, the three shapes allow a column to be renamed (same
number, wrong names) and to be added (another number); two tables let a reading
fail between them; the code distinguishes depth zero from any other depth, so two
calls suffice. In `tx`, three nested functions are an outermost one, one with a
caller and a callee, and an innermost, and three rows give each its own. In `deps`, the schemas have a
view, a virtual table with its shadow, one name in two databases, tables and a view named like the
shadow of a table beside them and in the other database, and a virtual table whose shadow
is not there yet when the map is captured; two accesses are enough for
one to disturb the other. In `callbacks`, the second attachment meets what the first
left; two calls on an event tell the first, the last and a late one apart; two nested calls are
a commit and a commit of a listener that hears of it; a log reaches the threshold or does not; each
library lacks some hook, so that the three checks of `drain` meet in pairs (the proof has
all of them together). In `driver`, a function and an
aggregate share one value with a plain reading; a number past the narrow and the safe width but not
the wide one, a text, bytes and a value that cannot be bound are
where the conversions differ most; two rows let a loop be suspended on a row that is
not its last.

`CHECK_DEADLOCK FALSE` is set for `TxEvents`, `Lifecycle`, `Callbacks` and `Driver`, whose
program may close its connections, or have used up its transactions, and stop. The
others check deadlock: a program can always make another call.

Every property of a passing run has a mutant in `PROJECT.json`: one definition
changed as a plausible mistake in the code would change it (the definition next
to the original, marked `Mutant:`), under which TLC finds the property violated.

## 5. Fairness

`FairSpec` of `TxEvents` assumes what a synchronous program on one thread has: SQLite
ends the statement it started (`StatementEnds`, `Land \/ FailCommit`, the
rollback after a veto), the loops of `drain` and `dispatch` go on
(`DrainNext`, `Notify`, `FinishCall`, `FinishClose`) and the functions of the
caller return. The last is strong fairness, on `ListenerReturns` and on `EndCall` at each depth:
a listener that calls the connection disables its own return while the call runs,
again and again, and code that returns does so however many calls it made. No
fairness is assumed of the program between calls: it need never call again.

## 6. Proofs

Each theorem below is proved for every value of the constants that satisfies the
named `ASSUME`s of its module: every number of listeners, connections,
registrations, tables, statements and rows, every depth of nesting, every set of
programs. A theorem has the hypotheses of the property it states (section 3 says
which use breaks which property) and no others, except where the table says
`Single`. The assumptions give the constants their types, positive where a number
counts what there must be one of; four kinds say more. `NamesAssumption`,
`ConnAssumption` and their like keep a value that means "none" apart from the others.
`WidthsAssumption` orders the widths of integers, as they are ordered in SQLite and
JavaScript. `PowersAssumption` orders the powers of two of those widths: from two bits
on it follows from the former by induction over the exponent, which the provers do not
do, and TLC evaluates it. `SchemasAssumption`, `BodyAssumption` and `StartsAssumption`
say of SQLite that there is a `main` and finitely many schemas, that what a view reads has a
name, and that a map is captured from a schema SQLite can hold: every shadow has
its virtual table beside it (`src/schema_map.ts:49-52` reports the measurement).

Every proof has the same shape. `IInv`, at the end of the module it is about, is the
property and what it takes to make it inductive; one lemma per action says that the
action keeps it; then `Init => IInv`, `IInv /\ [Next]_vars => IInv'` and `IInv`
implies the property; the last step is temporal. `IInv` was model-checked before it
was proved: add `INVARIANT IInv`, or the part in question, to a configuration to
repeat that.

| Module | Theorem | States |
|---|---|---|
| `TxEventsProofs` | `TypeCorrect` | `Spec => []TypeOK` |
| | `DepthCorrect` | `Spec => []DepthBalanced` |
| | `PendingCorrect` | `Spec => []PendingIsTheOpenTransaction` |
| | `PostcommitCorrect` | `Spec => []PostcommitOnlyLanded` |
| | `BatchesCorrect` | `Spec => []BatchesAccount` |
| | `LandedCorrect` | `Spec => []LandedIsAccountedFor` |
| | `RollbackCorrect` | `Single`: `Spec => []RollbackOnlyDiscarded` |
| | `PromiseCorrect` | `Single`: `Spec => KeepsThePromise`, the refinement of `CommitFeed` |
| `LifecycleProofs` | `TypeCorrect` | `Spec => []TypeOK` |
| | `TornCorrect` | `Spec => []NothingTornUnderListener` |
| | `StepsInHookCorrect` | `Spec => []NothingStepsInHook` |
| | `ServedCorrect` | `Spec => []SubscriptionsAreServed` |
| | `PromptCorrect` | `Spec => []PostcommitIsPrompt` |
| | `ClosedCorrect` | `Spec => NothingStepsClosed` |
| `SchemaWatchProofs` | `TypeCorrect` | `Spec => []TypeOK` |
| | `CurrentCorrect` | `Spec => []MapIsCurrent` |
| | `OnceCorrect` | `Spec => []OneRefreshPerName` |
| | `ArmedCorrect` | `Spec => ArmedUntilSafePoint` |
| `ColumnCacheProofs` | `TypeCorrect` | `Spec => []TypeOK` |
| | `NamesCorrect` | `Spec => []RowsCarryTheirNames` |
| | `MissCorrect` | `Spec => []MissedOnce` |
| `DriverTransactionProofs` | `TypeCorrect` | `Spec => []TypeOK` |
| | `NoRefusedRowCorrect` | `Spec => []NoRefusedRowLands` |
| | `RemembersCorrect` | `Spec => []RemembersThisTransaction` |
| | `CauseCorrect` | `Spec => []CauseIsKept` |
| | `AtomicCorrect` | `Spec => CallsAreAtomic`, the refinement of `AtomicCalls` |
| `CallbacksProofs` | `TypeCorrect` | `Spec => []TypeOK` |
| | `DanglingCorrect` | `Spec => []NoDanglingCallback` |
| | `VerdictsCorrect` | `Spec => []VerdictsFollowCalls` |
| | `DisplacementCorrect` | `Spec => []DisplacementIsReported` |
| | `CheckpointsCorrect` | `Spec => []CheckpointsAsBefore` |
| `DriverProofs` | `TypeCorrect` | `Spec => []TypeOK` |
| | `HandlesCorrect` | `Spec => []HandlesAreExact` |
| | `RestCorrect` | `Spec => []StatementsComeToRest` |
| | `RowsCorrect` | `Spec => []RowsAreRight` |
| `DependenciesProofs` | `TypeCorrect` | `Spec => []TypeOK` |
| | `ChangesCorrect` | `Spec => []ChangesReachTheAnswer` |
| | `CurrentMapCorrect` | `Spec => []CurrentMapMissesNothing`, where the map is of the schema as it is |
| | `ForeignCorrect` | `Spec => []NothingForeign` |
| | `DirectionsCorrect` | `Spec => []DirectionsAgree` |

### The arguments

**`TxEvents`.** `PostcommitOnlyLanded` needs `StashInv`, that every stashed batch
belongs to a landed transaction except that the newest may be the one SQLite is
committing or failing to commit, which in turn needs `OpenInv` to know that the
rollback handler, when it pops, pops that one or leaves only landed ones; and
`FramesInv` carries the fact to the batch a drain has taken.
`PendingIsTheOpenTransaction` needs `PendingInv`: without the write lock nothing
waits, so a transaction that ends without any hook leaves nothing. `BatchesAccount`
needs `AccountInv`: `pending` accounts for the open transaction until it is stashed, up
to the retention limit. `LandedIsAccountedFor` needs `QueueInv` and `HeardInv`:
nobody has heard of a transaction that is open, stashed or in a frame that will
still call him, and no two of those are the same transaction; so however drains nest,
taking a batch and delivering it cannot announce it twice.

`Single` is the documented regime, one transaction ended by an outermost call and no
writing `iter()`. The two theorems under it are false outside, which the
run `mislabelled` shows. In it `SingleInv` says the stash holds one batch at most, the
one that just ended, until the wrapper of that call drains it, so the batch the rollback
handler pops is the one rolled back; and `FeedInv` that what has landed is what was told,
followed by that batch. The refinement is one lemma per action: the landing, the
announcement and the rollback are steps of `CommitFeed`, everything else leaves
its state alone.

**`Lifecycle`.** `RegistrationInv`: a registration is live, closed or disposed of, an
open connection has the callbacks and the wrappers of a live one or none.
`StackInv` says the same of the stack: what dispatches or drains does so for a live
registration, and a `close` has no listener of its registration below it.
`FlagInv` is the heart: `inListener` and `inHook` say exactly which dispatches are under
way, although each dispatch restores the value it found; it needs that `outer` remembers
whether there is another one below, for each of the frames, not only the innermost. From it
the guards of `dispose`, `close` and the wrappers mean what they
are read to mean. `IterInv` counts, with cardinalities of finite sets, who relies
on the patch of `Statement.prototype`. `PromptInv` gives each stashed batch a call or a
close that will drain it. Proving `NothingStepsClosed` showed that
it also fails under `old`: a statement of a disposed registration is
not told that a later one closed the connection, so the property names
that use now.

**`SchemaWatch`.** A snapshot that is current between calls is wrong during them, so
`CurrentInv` says when: in a transaction it has the names the transaction began with,
outside it is current or about to be replaced (`Pending`). For a commit that is the
armed watch with a batch stashed, or its turn in the dispatch; for a refresh, the
frame on top. `QueueInv` says that a batch is stashed only under the call that
committed, so a refresh has nothing to drain between its reading and the
assignment; `OrderInv` that the watch hears of a batch before any code of the
program, unless a listener was registered ahead of it. `FramesInv` says
what frames can be where. `OnceInv`: a name a refresh was made for is recorded, or the
refresh is in its callback, where the record is made when that returns. The proof
splits these into facts about frames, about those below the top, and about the top
(`Parts`), since a step of the stack changes only the last.

**`ColumnCache`.** Both properties speak of the last event only, so both need an
invariant about the cache between events. `CacheInv`: under the documented use names
that are not those listed for the schema are marked, DDL is marked before it runs, and as long
as a call has run none the names agree. `MissInv`: a table without names has set the
mark, and once an outermost call has refilled the cache its names agree until it is
altered.

**`DriverTransaction`.** `OverInv`, `ShownInv` and `ChainInv` order what the savepoints
hold: nothing of a transaction that is over, nothing the validator was not shown, and
each at least what the ones before it hold. Then a rejection is of the open
transaction, and what lands was accepted. `SavepointInv` is why the undo of a
transaction function cannot fail: unless the program ends transactions itself, there is
a call that began the transaction and each call above it has set a savepoint, so the stack
of savepoints and the stack of calls match. `NestingInv`, under the
documented use, makes that call the outermost one, and with it what each call has done
is the difference of neighbouring savepoints, which is the refinement mapping.

**`Callbacks`.** `RegistrationInv`: no slot holds a freed callback, one of ours means
an attachment that installed it. A collating sequence may hold one of ours after its
registration ended only while a statement is half way. `DecisionsInv` gives for each
kind of event the decision that counts as a function of the calls so far.
`DetectionInv`: the hooks others took are those that are theirs, so that a check finds
each that a pragma tells, and once a check found
the trace flag of a taken callback up it stays down. `CheckpointInv` relates
the threshold read at attach to the one SQLite has.

**`Driver`.** `IInv` adds to the properties, for each statement, `LoopInv`: a loop has
the names its rows were compiled with, unless its first step compiled anew or
another method ran in it, and a buffer is let go only by an execution that bound it.
That a converted value is right is a lemma about `Values` with symbolic widths; for a
function it needs that the value is no text, for an aggregate that it is not bytes either
(`UnharmedByCall`, `UnharmedByFold`), and then it holds whatever becomes of the memory.

**`Dependencies`.** `Readings`: the schema and the map's reading are both schemas SQLite
can hold, and agree wherever both have an entry, however far apart they are; nothing
depends on `MaxBehind`. `ExtractionInv`: between the probe and the tail, `reads`,
`writes` and `limits` are exactly what `resolveAccess` makes of the accesses reported so
far, and after it of all of them, so neither the order of the reports nor the text that
follows can add or lose one. What is left is about one statement over two listings
(`FoundIsMeant`, `SureReaches`): an access without a caveat about its name has one
candidate, of the same kind in both readings; what it adds is what the name means
now; and each name a change event may give resolves to that again. That a name
without its schema is in one schema only is where the cardinality of a finite set is needed.

The proofs corrected two properties, which had held only because no schema of the
instance was in the way. `ChangesReachTheAnswer` is false of a shadow that a virtual table
got after the map was captured: the map answers `unknown` for it, its way of telling that it
is old, and the property says so now; `CurrentMapCorrect` has no such exception.
`DirectionsAgree` said that whatever is named like a shadow without being one resolves to
itself; the constructor lists views there too (`src/schema_map.ts:311`), and a view has no name to
resolve to. Both kinds of schema are in the instance now.

Each proof module has the facts about sequences it needs, for the shapes its actions
have (drop the last, replace the last). `DriverProofs` has two about numbers: a set of
them that is not empty has a least one, from the well-foundedness of `<`, and hence
induction up to a number, stated over a set and not over an operator.

### Only model-checked

- `AnnouncesEveryCommit`: liveness under fairness, which needs `ENABLED`.
- The two runs that are expected to find a violation.

Liveness, `ENABLED`, what a recursive definition computes for every input, and
RECURSIVE operators, which no module here uses, are outside what the prover does.

## 7. Disagreements between code and documentation

Shown by a run that is expected to fail:

- `mislabelled`: `rollback` takes the newest stashed batch (`src/hooks.ts:1928`) also
  when that transaction landed earlier in the same call, as in
  `exec("INSERT ...; BEGIN; ...; ROLLBACK")`. The landed transaction is announced as
  rolled back, never as committed, and the discarded rows are dropped.
- `callbacks_unchanged`: `walCb` checkpoints whenever `frames >= threshold`
  (`src/backend_ffi.ts:725`). Where automatic checkpoints are off, because the program
  turned them off or because an earlier registration took its hook away again, the
  threshold read at attach is 0, and every commit is checkpointed. `README.md:1073` says
  that attaching changes nothing, and `src/hooks.ts:574` that what was in force is
  preserved.

Found with the same models (set `Programs` to the single use named, or the regime
named, and drop the hypothesis of the property) and not kept as runs of their own:

| Where | What happens |
|---|---|
| `src/hooks.ts:1196` against `:256` | a transaction with one reported row and one that no hook reports is labelled `complete` |
| `src/hooks.ts:2189`, `:1070` against `:858` | `close` never runs `detach`: the patch on `Statement.prototype` and its count leak |
| `src/hooks.ts:2082` against `:848`, `:1982` | use `old`: a statement of an ended registration is not refused in a hook of the next and its commit is not announced when it returns |
| `src/hooks.ts:885` | the guard of `iter()` runs once, `next()` is free |
| `src/hooks.ts:2188` against `:809` | the rollback `close` reports is dispatched with `inHook` false |
| `src/hooks.ts:2190` | if the driver's `close` throws the registration stays, marked closed |
| `src/hooks.ts:1068` | the last `dispose` drops what `iter()` committed and errors not yet surfaced |
| `src/schema_watch.ts:257` against `:248` | use `late`: a listener ahead of the watch rolls back in its postcommit and disarms the watch; use `attach`: so does any rollback after an ATTACH |
| `src/schema_watch.ts:274` against `:249`, `:270` | use `midtx`: a refresh inside a transaction installs names its rollback takes away |
| `src/schema_watch.ts:252` | use `ahead`: DDL prepared, drained, then stepped goes unseen |
| `src/schema_watch.ts:315` against `:90` | use `callback`: `onRefresh` throws, or asks again, before the name is recorded |
| `src/schema_watch.ts:328` | use `script`: an inner refresh is overwritten by the older outer one; use `failing`: a failed reading loses the signal |
| `src/hooks.ts:2004`, `:1599` against `:225` | uses `prepared`, `script`, `undone`, `elsewhere`, `iter`: wrong names in the same way |
| `src/schema_watch.ts:334` against `:299` | `refreshNow` clears the record of tried names too |
| `src/hooks.ts:2194` | use `closed`: `close` unregisters the connection, so the wrapper of `iter()` finds no registration and does not throw; use `old`: nor does the wrapper of a statement prepared under an earlier registration, disposed of before, which was not told |
| `src/schema_watch.ts:276`, `:288`, `:320` | use `inhook`: `refreshIfArmed` and `refreshNow` disarm before `#refresh` refuses |
| `src/hooks.ts:2001` against `:225`, `:1596` | use `nested` of `ColumnCache`: DDL is looked for at depth zero only, so `RENAME COLUMN` in a transaction function goes unnoticed and rows are reported with `named` true under the old name |
| `src/hooks.ts:1462`, `:1599` | a table with a generated column is reported without names for ever: the names read are fewer than the values counted; and since each of its rows asks for a refill (`:1603`), the cache is read anew at every outermost call that follows one |
| `src/hooks.ts:2271` against `:2234` | rows after a rejected one are said to be shown to the validator still; they are not, because the handler returns first |
| `driver/database.ts:835` | use `iterating`: while an `iter()` is half way SQLite refuses to roll back to or release what it reads, and the error of the undo replaces the one that asked for it |
| `driver/database.ts:494` against `:517` | all savepoints have one name: one that could not be released stays, and the next `ROLLBACK TO` undoes to it |
| `driver/statement.ts:662` | `iter()` has no `finally`: a loop that is left early leaves the statement on its row, and its locks with it |
| `src/dependencies.ts:285` against `src/schema_map.ts:54` | with `MaxBehind` 2 and without the `IsListing` guard of `ChangeSchema`: a view that became a table, or a table that became a shadow since the map was captured, is taken for what it was, without a caveat |
| `src/dependencies.ts:552` | called in a postcommit listener, `dispose` is refused in the `finally` and its error replaces the answer |
| `src/backend_ffi.ts:932` | `detach` ignores the refusal of SQLite to drop a collating sequence while a statement is half way |
| `src/backend_ffi.ts:948` | `detach` closes every callback but `collationCb`: one stays allocated for each registration that asked for collation events |
| `src/backend_ffi.ts:787` | a comparator runs outside `inFfi`, so neither `inHook` nor `inListener` guards what it calls |
| `src/backend_ffi.ts:932` | `detach` sets hooks to null that others have installed since |
| `src/hooks.ts:1231` | without a WAL hook a postcommit is dispatched with no statement traced, and a live trace hook is called displaced |
| `src/hooks.ts:1231` and the checks beside it | a busy handler or WAL hook replaced by a plain C one, and `wal_autocheckpoint=0` after the attachment, look the same as before (`plain` of `Take`) |
| `src/hooks.ts:1762` | `retry(NaN)` is not caught by the floor of one millisecond |
| `driver/statement.ts:492` against `:485` | names and their number are read before the step that recompiles, so the first execution after a change of the schema pairs old names with new values |
| `driver/statement.ts:296` | the bound form is said to serve every later execution; `run`, `all`, `values` and `iter` on it throw |
| `driver/database.ts:577`, `:603` | the identity as a function of SQL turns an empty text into NULL and fails on an empty blob; an aggregate over no rows calls `final` with no accumulator, and an exception of `start` is not reported to SQLite |
| `driver/database.ts:236` | a text returned by a function is given to SQLite as static, from a buffer that is garbage once the callback returns: a query may read anything in its place |
| `driver/database.ts:195` | bytes given to a function are a view of SQLite's memory, not a copy as in `getColumn` (`driver/statement.ts:155`): a `step` that keeps them for `final` keeps memory SQLite uses for something else by then |
| `driver/statement.ts:144` | integers from 2^63 wrap around; a text ends at its first NUL when it is read |
| `driver/statement.ts:662` | another method on the statement of a loop restarts it |

## 8. Not modelled

`PROJECT.json` lists every component with its status. What is left out, and why:

- *Without state*: the declarations of C functions, library selection, formatting,
  the seam's types, build tooling, the test harness and the table of capabilities with
  its tools. What they convert is in `Values` where a property depends on it.
- *Blobs*: `SQLBlob` keeps one handle, which only the program closes, and each stream
  over it an offset of its own; nothing else in the library depends on them. A closed
  blob is guarded by nobody.
- *The backend's reading of memory*: old and new rows, values and trace texts are read
  through pointers that are valid for the length of a callback; the models have what is
  read, not where it lies.
- *Connections*: `loadExtension` and `backup` are single calls; `exec` without
  parameters is in `TxEvents` and `Lifecycle` as a call. `close` is taken to succeed in
  `Driver`, because `sqlite3_close_v2` does.
- *Statements after their end*: the driver has no guard against using a statement that
  was finalized or whose connection is closed. It would be an access to freed memory,
  so `Driver` does not have such programs, instead of choosing an outcome for them.
- *Registrations*: the compatibility checks of `join`, which refuse and change nothing;
  `openBlob`, wrapped like `prepare`; the report of a statement constructed in a hook.
- *Errors*: their texts, the reporter and `AggregateError`. How many are waiting is in
  `TxEvents`.
- *Time*: how long `retry` waits.
- In `TxEvents`, the `wal`, `trace` and `preupdate` events, which go through `inFfi` and
  `dispatch` like the others and touch none of its state.

A hook that runs while another one runs needs a route around the wrappers. Its event is
dropped by `inFfi`: `Decisions` and `Callbacks` have such hooks (`Nested`,
`NestedFire`), the other models do not.

## 9. Plan

Done: every component that keeps state, except the blobs, with the runs of section 4;
proofs of every safety property and both refinements the passing runs check.

To come:

1. Blobs, with the connection that is closed under them.
2. The reporter: errors as a list, one of which is the reporter's own.
3. A map taken anew while an extraction's answer is kept: `SchemaWatch` and `Dependencies`
   together, and with them names that come back as another kind of object.
