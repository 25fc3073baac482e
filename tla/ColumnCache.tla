---------------------------- MODULE ColumnCache ----------------------------
(***************************************************************************)
(* src/hooks.ts: where a preupdate event gets its column names.  The       *)
(* preupdate API reports none and the hook may not query the schema, so    *)
(* the names are read between calls, when something said that the ones     *)
(* held may be out of date, and matched to the values by position.         *)
(*                                                                         *)
(* What says so is the text of an outermost call, if it looks like DDL,    *)
(* and a row the names held do not fit.  A table is a model value and      *)
(* stands for a schema and a name; its shape is the sequence of the columns *)
(* its rows have.  What is read is pragma_table_info, which leaves the      *)
(* generated and hidden ones out.                                          *)
(***************************************************************************)
EXTENDS Naturals, Sequences

CONSTANTS
  Tables,
  Shapes,    \* the columns a table may have
  TableInfo, \* the names pragma_table_info lists for a table of each shape
  Absent,    \* no such table; no names held for it
  Programs,  \* the sets of uses a program may make of the connection
  MaxNest    \* bound: calls inside one another

\* The documented use is {}.  "prepared": DDL is stepped by a call whose
\* argument is not its text, as stmt.run().  "nested": DDL is run by a call made
\* inside another one, as in a transaction function.  "script": one call runs
\* DDL and then writes rows.  "undone": DDL is rolled back.  "elsewhere":
\* another connection changes the schema.  "iter": rows are written by stepping
\* an iterator, outside any call.  "failing": the schema cannot always be read.
AllUses ==
  {"prepared", "nested", "script", "undone", "elsewhere", "iter", "failing"}

ASSUME ShapesAssumption == \A s \in Shapes : Len(s) \in Nat \ {0}
\* All the columns of a row or fewer, and never none.
ASSUME TableInfoAssumption ==
  /\ DOMAIN TableInfo = Shapes
  /\ \A s \in Shapes : TableInfo[s] = s \/ Len(TableInfo[s]) \in 1..(Len(s) - 1)
ASSUME AbsentAssumption ==
  Absent \notin Shapes \union Tables \union {TableInfo[s] : s \in Shapes}
ASSUME ProgramsAssumption == Programs \subseteq SUBSET AllUses
ASSUME NestAssumption == MaxNest \in Nat

VARIABLES
  schema,       \* the columns of each table, as the connection sees them
  saved,        \* what they were when the open transaction began
  inTx,         \* BEGIN has run
  columnCache,
  schemaDirty,
  stack,        \* per call under way, innermost last: its text looks like DDL
  \* the program and history
  uses,         \* what the program does; never changes
  altered,      \* the outermost call under way has run DDL
  event,        \* the last preupdate event
  missing,      \* tables with an unnamed row since the last outermost call began
  missed        \* ... before it began, and not altered since

connection == <<schema, saved, inTx>>
cache == <<columnCache, schemaDirty>>
vars == <<connection, cache, stack, uses, altered, event, missing, missed>>

Layouts == [Tables -> Shapes \union {Absent}]
Caches == [Tables -> {TableInfo[s] : s \in Shapes} \union {Absent}]

\* Of what a listener is told of a row: whether its values are named; and
\* whether the names are the row's own, whether the table had already been
\* missed, and whether all the columns of the row are listed.
Events == [named : BOOLEAN, own : BOOLEAN, again : BOOLEAN, whole : BOOLEAN]
NoEvent == [named |-> TRUE, own |-> TRUE, again |-> FALSE, whole |-> TRUE]

-----------------------------------------------------------------------------
(* primeSchema and the boundary of an outermost call.                      *)

\* Mutant: a table that is gone is read as one without columns.
RefilledEmpties(read) ==
  [t \in Tables |-> IF t \notin read THEN columnCache[t]
                    ELSE IF schema[t] = Absent THEN <<>> ELSE TableInfo[schema[t]]]
\* The names of the tables in `read' are replaced; one that is gone keeps its own.
Refilled(read) ==
  [t \in Tables |-> IF t \in read /\ schema[t] # Absent THEN TableInfo[schema[t]]
                    ELSE columnCache[t]]

\* The mark is cleared, and set again by a reading that fails: it has replaced
\* the names of the tables it came to.
PrimeSchema(marked) ==
  \/ columnCache' = Refilled(Tables) /\ schemaDirty' = marked
  \/ /\ "failing" \in uses
     /\ \E read \in SUBSET Tables : columnCache' = Refilled(read)
     /\ schemaDirty' = TRUE

\* Mutant: marked before the refill, which clears the mark.
BoundaryMarksFirst(ddl) ==
  IF schemaDirty \/ ddl THEN PrimeSchema(FALSE) ELSE UNCHANGED cache
\* Refill first, then mark if this statement is DDL.
Boundary(ddl) ==
  IF schemaDirty THEN PrimeSchema(ddl)
                 ELSE schemaDirty' = ddl /\ UNCHANGED columnCache

BeginCall(ddl) ==
  /\ stack = <<>>
  /\ Boundary(ddl)
  /\ stack' = <<ddl>>
  /\ missed' = missed \union missing /\ missing' = {}
  /\ UNCHANGED <<connection, uses, altered, event>>

BeginInnerCall(ddl) ==
  /\ stack # <<>> /\ Len(stack) < MaxNest
  /\ stack' = Append(stack, ddl)
  /\ UNCHANGED <<connection, cache, uses, altered, event, missing, missed>>

EndCall ==
  /\ stack # <<>>
  /\ stack' = SubSeq(stack, 1, Len(stack) - 1)
  /\ altered' = (altered /\ Len(stack) > 1)
  /\ UNCHANGED <<connection, cache, uses, event, missing, missed>>

-----------------------------------------------------------------------------
(* SQLite, and the preupdate handler.                                      *)

\* The schema becomes `layout'; a miss of a table that changes is forgiven.
Alter(layout) ==
  LET same == {t \in Tables : layout[t] = schema[t]} IN
    /\ schema' = layout
    /\ missing' = missing \intersect same
    /\ missed' = missed \intersect same

\* CREATE, ALTER or DROP; ATTACH and DETACH do as much to several tables.
Ddl(t, shape) ==
  /\ stack # <<>> /\ shape # schema[t]
  /\ ~stack[Len(stack)] => "prepared" \in uses
  /\ Len(stack) > 1 => "nested" \in uses
  /\ Alter([schema EXCEPT ![t] = shape])
  /\ altered' = TRUE
  /\ UNCHANGED <<saved, inTx, cache, stack, uses, event>>

DdlElsewhere(t, shape) ==
  /\ "elsewhere" \in uses /\ stack = <<>> /\ ~inTx /\ shape # schema[t]
  /\ Alter([schema EXCEPT ![t] = shape])
  /\ UNCHANGED <<saved, inTx, cache, stack, uses, altered, event>>

Begin ==
  /\ stack # <<>> /\ ~inTx
  /\ inTx' = TRUE /\ saved' = schema
  /\ UNCHANGED <<schema, cache, stack, uses, altered, event, missing, missed>>

Commit ==
  /\ stack # <<>> /\ inTx
  /\ inTx' = FALSE /\ saved' = schema
  /\ UNCHANGED <<schema, cache, stack, uses, altered, event, missing, missed>>

Rollback ==
  /\ stack # <<>> /\ inTx
  /\ saved # schema => "undone" \in uses
  /\ inTx' = FALSE
  /\ Alter(saved)
  /\ UNCHANGED <<saved, cache, stack, uses, altered, event>>

\* The names held are as many as the row has values, generated columns included.
Fits(t) == columnCache[t] # Absent /\ Len(columnCache[t]) = Len(schema[t])

\* Mutant: a row that could not be named does not ask for a refill.
NoticeNothing(t) == UNCHANGED schemaDirty
Notice(t) == schemaDirty' = (schemaDirty \/ ~Fits(t))

Row(t) ==
  /\ stack = <<>> => "iter" \in uses
  /\ altered => "script" \in uses
  /\ schema[t] # Absent
  /\ event' = [named |-> Fits(t), own |-> columnCache[t] = schema[t],
               again |-> t \in missed, whole |-> TableInfo[schema[t]] = schema[t]]
  /\ Notice(t)
  /\ missing' = IF Fits(t) THEN missing ELSE missing \union {t}
  /\ UNCHANGED <<connection, columnCache, stack, uses, altered, missed>>

\* The values of the row cannot be read: no event, and names are not trusted.
UnreadableRow ==
  /\ "failing" \in uses /\ stack # <<>>
  /\ schemaDirty' = TRUE
  /\ UNCHANGED <<connection, columnCache, stack, uses, altered, event, missing, missed>>

-----------------------------------------------------------------------------
\* attach() ends by filling the cache, unless that fails.
Init ==
  /\ uses \in Programs
  /\ schema \in Layouts /\ saved = schema /\ inTx = FALSE
  /\ \/ /\ schemaDirty = FALSE
        /\ columnCache = [t \in Tables |-> IF schema[t] = Absent THEN Absent
                                           ELSE TableInfo[schema[t]]]
     \/ /\ "failing" \in uses
        /\ columnCache = [t \in Tables |-> Absent] /\ schemaDirty = TRUE
  /\ stack = <<>>
  /\ altered = FALSE /\ event = NoEvent /\ missing = {} /\ missed = {}

CallStep ==
  \/ \E ddl \in BOOLEAN : BeginCall(ddl) \/ BeginInnerCall(ddl)
  \/ EndCall

SqliteStep ==
  \/ \E t \in Tables, shape \in Shapes \union {Absent} :
       Ddl(t, shape) \/ DdlElsewhere(t, shape)
  \/ Begin
  \/ Commit
  \/ Rollback
  \/ \E t \in Tables : Row(t)
  \/ UnreadableRow

Next == CallStep \/ SqliteStep

Spec == Init /\ [][Next]_vars

-----------------------------------------------------------------------------
(* Properties.                                                             *)

TypeOK ==
  /\ schema \in Layouts /\ saved \in Layouts /\ columnCache \in Caches
  /\ inTx \in BOOLEAN /\ schemaDirty \in BOOLEAN /\ altered \in BOOLEAN
  /\ stack \in Seq(BOOLEAN)
  /\ uses \in Programs
  /\ event \in Events
  /\ missing \subseteq Tables /\ missed \subseteq Tables

RightNames == event.named => event.own

\* "Names would be silently misaligned" (preupdate handler): a program that
\* runs DDL in outermost calls with its text, never rolls it back, writes no row
\* later in the same call and has a schema that can be read gets names for every
\* row, and they are the names of its columns; but a row of a table with a
\* generated or hidden column gets none, ever.
RowsCarryTheirNames ==
  uses = {} => event.named = event.whole /\ RightNames

\* "at the next statement boundary whenever something invalidated it" (attach):
\* whatever left a row without names, a row of the same table is named in a
\* later call, provided that the schema can be read, that the table was not
\* altered meanwhile, and that it has no generated or hidden column.
MissedOnce ==
  "failing" \notin uses => event.named \/ ~event.again \/ ~event.whole

=============================================================================
