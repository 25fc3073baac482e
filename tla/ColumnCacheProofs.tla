------------------------- MODULE ColumnCacheProofs -------------------------
(***************************************************************************)
(* Proofs about ColumnCache for every set of tables, every set of shapes,  *)
(* every program and every depth of calls.                                 *)
(***************************************************************************)
EXTENDS ColumnCache, SequenceTheorems, TLAPS

\* The names held are those of the tables there are.
Agrees ==
  \A t \in Tables : schema[t] # Absent => columnCache[t] = TableInfo[schema[t]]

\* Why RowsCarryTheirNames holds: names that do not agree are marked, and so is
\* DDL before it runs; no row comes between the two.
CacheInv ==
  uses = {} =>
    /\ ~schemaDirty => Agrees
    /\ stack # <<>> /\ ~altered => Agrees
    /\ stack # <<>> /\ stack[1] => schemaDirty
    /\ altered => schemaDirty /\ stack # <<>>

\* Why MissedOnce holds: a miss asks for a refill, and a refill lasts until the
\* table is altered.
MissInv ==
  "failing" \notin uses =>
    /\ missing # {} => schemaDirty
    /\ \A t \in missing : schema[t] # Absent
    /\ \A t \in missed : schema[t] # Absent /\ columnCache[t] = TableInfo[schema[t]]

IInv == TypeOK /\ CacheInv /\ MissInv /\ RowsCarryTheirNames /\ MissedOnce

-----------------------------------------------------------------------------
(* What the helpers do.                                                    *)

\* The end of a call drops the innermost one.
LEMMA DropLast ==
  ASSUME NEW s \in Seq(BOOLEAN), s # <<>>
  PROVE  LET r == SubSeq(s, 1, Len(s) - 1)
         IN /\ r \in Seq(BOOLEAN)
            /\ Len(s) = 1 => r = <<>>
            /\ r # <<>> => Len(s) > 1 /\ r[1] = s[1]
<1>1. Len(s) \in Nat /\ Len(s) # 0
  BY EmptySeq, LenProperties
<1>2. \A i \in 1..(Len(s) - 1) : s[i] \in BOOLEAN
  BY <1>1, ElementOfSeq
<1>. DEFINE m == Len(s) - 1
            r == SubSeq(s, 1, m)
<1>3. m \in Nat /\ m - 1 + 1 = m /\ \A i \in 1..m : s[i] \in BOOLEAN
  BY <1>1, <1>2
<1>. HIDE DEF m
<1>4. /\ r \in Seq(BOOLEAN)
      /\ Len(r) = IF 1 <= m THEN m - 1 + 1 ELSE 0
      /\ \A i \in 1..(m - 1 + 1) : r[i] = s[1 + i - 1]
  BY <1>3, SubSeqProperties
<1>. HIDE DEF r
<1>5. Len(r) = m
  BY <1>3, <1>4
<1>6. r # <<>> => m >= 1
  BY <1>3, <1>4, <1>5, EmptySeq
<1>7. r # <<>> => r[1] = s[1]
  BY <1>3, <1>4, <1>6
<1>8. Len(s) = 1 => r = <<>>
  BY <1>4, <1>5, EmptySeq DEF m
<1>9. r # <<>> => Len(s) > 1
  BY <1>1, <1>6 DEF m
<1>. QED
  BY <1>4, <1>7, <1>8, <1>9 DEF r, m

\* A refill holds names for every table, keeps those that agree, and, when it
\* comes to all tables, makes them agree.
LEMMA RefillAgrees ==
  ASSUME TypeOK, NEW read \in SUBSET Tables
  PROVE  /\ Refilled(read) \in Caches
         /\ \A t \in Tables : columnCache[t] = TableInfo[schema[t]] =>
                                Refilled(read)[t] = TableInfo[schema[t]]
         /\ read = Tables => \A t \in Tables : schema[t] # Absent =>
                                                 Refilled(read)[t] = TableInfo[schema[t]]
BY DEF TypeOK, Layouts, Caches, Refilled

\* The boundary of an outermost call leaves a cache that agrees, marked when the
\* call may run DDL, unless the schema could not be read.
LEMMA BoundaryAgrees ==
  ASSUME TypeOK, NEW ddl \in BOOLEAN, Boundary(ddl)
  PROVE  /\ columnCache' \in Caches /\ schemaDirty' \in BOOLEAN
         /\ ddl => schemaDirty'
         /\ \A t \in Tables : columnCache[t] = TableInfo[schema[t]] => columnCache'[t] = TableInfo[schema[t]]
         /\ schemaDirty /\ "failing" \notin uses =>
              \A t \in Tables : schema[t] # Absent => columnCache'[t] = TableInfo[schema[t]]
<1>1. CASE schemaDirty /\ columnCache' = Refilled(Tables) /\ schemaDirty' = ddl
  BY <1>1, RefillAgrees
<1>2. CASE /\ schemaDirty /\ "failing" \in uses /\ schemaDirty' = TRUE
           /\ \E read \in SUBSET Tables : columnCache' = Refilled(read)
  BY <1>2, RefillAgrees
<1>3. CASE ~schemaDirty /\ schemaDirty' = ddl /\ UNCHANGED columnCache
  BY <1>3 DEF TypeOK
<1>. QED
  BY <1>1, <1>2, <1>3 DEF Boundary, PrimeSchema

\* A change of the schema takes the tables it changes off the misses.
LEMMA AlterForgives ==
  ASSUME TypeOK, MissInv, NEW layout \in Layouts, Alter(layout),
         UNCHANGED <<cache, uses>>
  PROVE  /\ schema' \in Layouts /\ missing' \subseteq Tables /\ missed' \subseteq Tables
         /\ MissInv'
<1>1. /\ schema' \in Layouts /\ missing' \subseteq missing /\ missed' \subseteq missed
      /\ \A t \in missing' \union missed' : schema'[t] = schema[t]
  BY DEF Alter
<1>2. missing \subseteq Tables /\ missed \subseteq Tables
  BY DEF TypeOK
<1>. QED
  BY <1>1, <1>2 DEF MissInv, cache

-----------------------------------------------------------------------------
(* One lemma per action: it preserves IInv.                                *)

\* An outermost call, which is a boundary of the cache, keeps IInv.
LEMMA BeginCallStep ==
  ASSUME IInv, NEW ddl \in BOOLEAN, BeginCall(ddl)
  PROVE  IInv'
<1>. USE DEF IInv
<1>1. stack' = <<ddl>> /\ stack'[1] = ddl /\ stack' \in Seq(BOOLEAN)
  BY DEF BeginCall
<1>2. Boundary(ddl) /\ UNCHANGED <<schema, saved, inTx, uses, altered, event>>
  BY DEF BeginCall, connection
<1>3. missed' = missed \union missing /\ missing' = {}
  BY DEF BeginCall
<1>4. /\ columnCache' \in Caches /\ schemaDirty' \in BOOLEAN
      /\ ddl => schemaDirty'
      /\ \A t \in Tables : columnCache[t] = TableInfo[schema[t]] => columnCache'[t] = TableInfo[schema[t]]
      /\ schemaDirty /\ "failing" \notin uses =>
           \A t \in Tables : schema[t] # Absent => columnCache'[t] = TableInfo[schema[t]]
  BY <1>2, BoundaryAgrees
<1>5. TypeOK'
  BY <1>1, <1>2, <1>3, <1>4 DEF TypeOK
<1>6. CacheInv'
  <2>1. uses = {} => ~altered
    BY DEF BeginCall, CacheInv
  <2>2. uses = {} => Agrees'
    BY <1>2, <1>4 DEF CacheInv, Agrees
  <2>3. QED
    BY <1>1, <1>2, <1>4, <2>1, <2>2 DEF CacheInv
<1>7. MissInv'
  <2>1. missing \subseteq Tables /\ missed \subseteq Tables
    BY DEF TypeOK
  <2>2. ASSUME "failing" \notin uses, NEW t \in missed'
        PROVE  schema[t] # Absent /\ columnCache'[t] = TableInfo[schema[t]]
    BY <1>3, <1>4, <2>1, <2>2 DEF MissInv
  <2>3. QED
    BY <1>2, <1>3, <2>2 DEF MissInv
<1>. QED
  BY <1>2, <1>5, <1>6, <1>7 DEF RowsCarryTheirNames, MissedOnce, RightNames

\* A call made inside another one keeps it too.
LEMMA BeginInnerCallStep ==
  ASSUME IInv, NEW ddl \in BOOLEAN, BeginInnerCall(ddl)
  PROVE  IInv'
<1>. USE DEF IInv
<1>1. /\ stack # <<>> /\ stack' = Append(stack, ddl)
      /\ UNCHANGED <<schema, saved, inTx, columnCache, schemaDirty, uses, altered,
                     event, missing, missed>>
  BY DEF BeginInnerCall, connection, cache
<1>2. stack' \in Seq(BOOLEAN) /\ stack' # <<>> /\ stack'[1] = stack[1]
  <2>1. stack \in Seq(BOOLEAN) /\ Len(stack) \in Nat /\ Len(stack) # 0
    BY <1>1, EmptySeq, LenProperties DEF TypeOK
  <2>2. QED
    BY <1>1, <2>1, AppendProperties
<1>3. TypeOK'
  BY <1>1, <1>2 DEF TypeOK
<1>4. CacheInv' /\ MissInv'
  BY <1>1, <1>2 DEF CacheInv, MissInv, Agrees
<1>. QED
  BY <1>1, <1>3, <1>4 DEF RowsCarryTheirNames, MissedOnce, RightNames

\* The end of a call keeps IInv.
LEMMA EndCallStep ==
  ASSUME IInv, EndCall
  PROVE  IInv'
<1>. USE DEF IInv
<1>1. /\ stack # <<>> /\ stack' = SubSeq(stack, 1, Len(stack) - 1)
      /\ altered' = (altered /\ Len(stack) > 1)
      /\ UNCHANGED <<schema, saved, inTx, columnCache, schemaDirty, uses, event,
                     missing, missed>>
  BY DEF EndCall, connection, cache
<1>2. /\ stack' \in Seq(BOOLEAN)
      /\ Len(stack) = 1 => stack' = <<>>
      /\ stack' # <<>> => Len(stack) > 1 /\ stack'[1] = stack[1]
  BY <1>1, DropLast DEF TypeOK
<1>3. stack' = <<>> => ~(Len(stack) > 1)
  <2>1. Len(stack) \in Nat
    BY LenProperties DEF TypeOK
  <2>2. ASSUME stack' = <<>>, Len(stack) > 1
        PROVE  FALSE
    <3>1. Len(stack') = Len(stack) - 1
      BY <1>1, <2>1, <2>2, SubSeqProperties, LenProperties, ElementOfSeq DEF TypeOK
    <3>2. QED
      BY <2>1, <2>2, <3>1
  <2>3. QED
    BY <2>2
<1>4. TypeOK'
  BY <1>1, <1>2 DEF TypeOK
<1>5. CacheInv' /\ MissInv'
  BY <1>1, <1>2, <1>3 DEF CacheInv, MissInv, Agrees
<1>. QED
  BY <1>1, <1>4, <1>5 DEF RowsCarryTheirNames, MissedOnce, RightNames

\* DDL on this connection keeps IInv.
LEMMA DdlStep ==
  ASSUME IInv, NEW t \in Tables, NEW shape \in Shapes \union {Absent}, Ddl(t, shape)
  PROVE  IInv'
<1>. USE DEF IInv
<1>. DEFINE layout == [schema EXCEPT ![t] = shape]
<1>1. /\ stack # <<>> /\ altered' = TRUE /\ Alter(layout)
      /\ UNCHANGED <<saved, inTx, columnCache, schemaDirty, stack, uses, event>>
  BY DEF Ddl, cache
<1>2. layout \in Layouts
  BY DEF TypeOK, Layouts
<1>3. /\ schema' \in Layouts /\ missing' \subseteq Tables /\ missed' \subseteq Tables
      /\ MissInv'
  BY <1>1, <1>2, AlterForgives DEF cache
<1>4. TypeOK'
  BY <1>1, <1>3 DEF TypeOK
<1>5. CacheInv'
  <2>1. uses = {} => stack[Len(stack)] /\ ~(Len(stack) > 1)
    BY DEF Ddl
  <2>2. Len(stack) \in Nat /\ Len(stack) # 0
    BY <1>1, EmptySeq, LenProperties DEF TypeOK
  <2>3. uses = {} => stack[1]
    BY <2>1, <2>2
  <2>4. QED
    BY <1>1, <2>3 DEF CacheInv
<1>. QED
  BY <1>1, <1>3, <1>4, <1>5 DEF RowsCarryTheirNames, MissedOnce, RightNames

\* DDL on another connection keeps IInv.
LEMMA DdlElsewhereStep ==
  ASSUME IInv, NEW t \in Tables, NEW shape \in Shapes \union {Absent},
         DdlElsewhere(t, shape)
  PROVE  IInv'
<1>. USE DEF IInv
<1>. DEFINE layout == [schema EXCEPT ![t] = shape]
<1>1. /\ uses # {} /\ Alter(layout)
      /\ UNCHANGED <<saved, inTx, columnCache, schemaDirty, stack, uses, altered, event>>
  BY DEF DdlElsewhere, cache
<1>2. layout \in Layouts
  BY DEF TypeOK, Layouts
<1>3. /\ schema' \in Layouts /\ missing' \subseteq Tables /\ missed' \subseteq Tables
      /\ MissInv'
  BY <1>1, <1>2, AlterForgives DEF cache
<1>4. TypeOK'
  BY <1>1, <1>3 DEF TypeOK
<1>5. CacheInv'
  BY <1>1 DEF CacheInv
<1>. QED
  BY <1>1, <1>3, <1>4, <1>5 DEF RowsCarryTheirNames, MissedOnce, RightNames

\* BEGIN and COMMIT keep IInv.
LEMMA BeginOrCommitStep ==
  ASSUME IInv, Begin \/ Commit
  PROVE  IInv'
<1>. USE DEF IInv
<1>1. /\ inTx' \in BOOLEAN /\ saved' = schema
      /\ UNCHANGED <<schema, columnCache, schemaDirty, stack, uses, altered, event,
                     missing, missed>>
  BY DEF Begin, Commit, cache
<1>2. TypeOK'
  BY <1>1 DEF TypeOK
<1>3. CacheInv' /\ MissInv'
  BY <1>1 DEF CacheInv, MissInv, Agrees
<1>. QED
  BY <1>1, <1>2, <1>3 DEF RowsCarryTheirNames, MissedOnce, RightNames

\* A rollback, which may undo DDL, keeps IInv.
LEMMA RollbackStep ==
  ASSUME IInv, Rollback
  PROVE  IInv'
<1>. USE DEF IInv
<1>1. /\ inTx' = FALSE /\ Alter(saved) /\ saved \in Layouts
      /\ UNCHANGED <<saved, columnCache, schemaDirty, stack, uses, altered, event>>
  BY DEF Rollback, cache, TypeOK
<1>2. /\ schema' \in Layouts /\ missing' \subseteq Tables /\ missed' \subseteq Tables
      /\ MissInv'
  BY <1>1, AlterForgives DEF cache
<1>3. TypeOK'
  BY <1>1, <1>2 DEF TypeOK
<1>4. CacheInv'
  <2>1. uses = {} => schema' = schema
    BY <1>1 DEF Rollback, Alter
  <2>2. QED
    BY <1>1, <2>1 DEF CacheInv, Agrees
<1>. QED
  BY <1>1, <1>2, <1>3, <1>4 DEF RowsCarryTheirNames, MissedOnce, RightNames

\* A row that is reported keeps IInv.
LEMMA RowStep ==
  ASSUME IInv, NEW t \in Tables, Row(t)
  PROVE  IInv'
<1>. USE DEF IInv
<1>1. /\ event' = [named |-> Fits(t), own |-> columnCache[t] = schema[t],
                   again |-> t \in missed,
                   whole |-> TableInfo[schema[t]] = schema[t]]
      /\ schemaDirty' = (schemaDirty \/ ~Fits(t))
      /\ missing' = IF Fits(t) THEN missing ELSE missing \union {t}
      /\ schema[t] # Absent
      /\ UNCHANGED <<schema, saved, inTx, columnCache, stack, uses, altered, missed>>
  BY DEF Row, Notice, connection
<1>2. Fits(t) \in BOOLEAN
  BY DEF Fits
<1>. DEFINE whole == TableInfo[schema[t]] = schema[t]
<1>3. /\ columnCache[t] = TableInfo[schema[t]] /\ whole => Fits(t)
      /\ columnCache[t] = TableInfo[schema[t]] /\ ~whole => ~Fits(t)
  <2>1. schema[t] \in Shapes
    BY <1>1 DEF TypeOK, Layouts
  <2>2. whole \/ Len(TableInfo[schema[t]]) # Len(schema[t])
    BY <2>1, ShapesAssumption, TableInfoAssumption
  <2>3. QED
    BY <1>1, <2>1, <2>2, AbsentAssumption DEF Fits
<1>4. event'.named = Fits(t) /\ event'.own = (columnCache[t] = schema[t])
      /\ event'.again = (t \in missed) /\ event'.whole = whole
  BY <1>1
<1>5. TypeOK'
  BY <1>1, <1>2 DEF TypeOK, Events
<1>6. CacheInv'
  BY <1>1 DEF CacheInv, Agrees
<1>7. MissInv'
  BY <1>1 DEF MissInv
<1>8. RowsCarryTheirNames'
  <2>1. uses = {} => stack # <<>> /\ ~altered
    BY DEF Row
  <2>2. uses = {} => columnCache[t] = TableInfo[schema[t]]
    BY <1>1, <2>1 DEF CacheInv, Agrees
  <2>3. uses = {} => whole \in BOOLEAN /\ Fits(t) = whole
    BY <1>2, <1>3, <2>2
  <2>4. uses = {} /\ Fits(t) => columnCache[t] = schema[t]
    BY <2>2, <2>3
  <2>. HIDE DEF whole
  <2>5. uses' = uses
    BY <1>1
  <2>6. uses' = {} => event'.named = event'.whole
    BY <1>4, <2>3, <2>5
  <2>7. uses' = {} => RightNames'
    BY <1>4, <2>4, <2>5 DEF RightNames
  <2>. QED
    BY <2>6, <2>7 DEF RowsCarryTheirNames
<1>9. MissedOnce'
  BY <1>1, <1>3, <1>4 DEF MissedOnce, MissInv
<1>. QED
  BY <1>5, <1>6, <1>7, <1>8, <1>9

\* A row of a table whose columns cannot be read keeps IInv.
LEMMA UnreadableRowStep ==
  ASSUME IInv, UnreadableRow
  PROVE  IInv'
<1>. USE DEF IInv
<1>1. /\ "failing" \in uses /\ schemaDirty' = TRUE
      /\ UNCHANGED <<schema, saved, inTx, columnCache, stack, uses, altered, event,
                     missing, missed>>
  BY DEF UnreadableRow, connection
<1>. QED
  BY <1>1 DEF TypeOK, CacheInv, MissInv, RowsCarryTheirNames, MissedOnce, RightNames

\* The inductive invariant holds when the events are attached ...
LEMMA InitIInv == Init => IInv
<1>. SUFFICES ASSUME Init
              PROVE  IInv
  OBVIOUS
<1>1. columnCache \in Caches /\ schemaDirty \in BOOLEAN /\ stack = <<>>
  <2>1. \A t \in Tables : schema[t] \in Shapes \union {Absent}
    BY DEF Init, Layouts
  <2>2. ASSUME columnCache = [t \in Tables |-> IF schema[t] = Absent THEN Absent
                                               ELSE TableInfo[schema[t]]]
        PROVE  columnCache \in Caches
    BY <2>1, <2>2 DEF Caches
  <2>3. ASSUME columnCache = [t \in Tables |-> Absent]
        PROVE  columnCache \in Caches
    BY <2>3 DEF Caches
  <2>4. schemaDirty \in BOOLEAN /\ stack = <<>>
    BY DEF Init
  <2>. QED
    BY <2>2, <2>3, <2>4 DEF Init
<1>2. event.named /\ event.own /\ ~event.again /\ event.whole /\ event \in Events
  BY DEF Init, NoEvent, Events
<1>3. TypeOK
  BY <1>1, <1>2, EmptySeq DEF Init, TypeOK
<1>4. CacheInv
  BY DEF Init, CacheInv, Agrees
<1>5. MissInv
  BY DEF Init, MissInv
<1>. QED
  BY <1>2, <1>3, <1>4, <1>5 DEF IInv, RowsCarryTheirNames, MissedOnce, RightNames

\* ... and always.
LEMMA Inductive == Spec => []IInv
<1>1. IInv /\ [Next]_vars => IInv'
  <2>. SUFFICES ASSUME IInv, [Next]_vars
                PROVE  IInv'
    OBVIOUS
  <2>1. CASE CallStep
    BY <2>1, BeginCallStep, BeginInnerCallStep, EndCallStep DEF CallStep
  <2>2. CASE SqliteStep
    BY <2>2, DdlStep, DdlElsewhereStep, BeginOrCommitStep, RollbackStep, RowStep,
       UnreadableRowStep DEF SqliteStep
  <2>3. CASE UNCHANGED vars
    BY <2>3 DEF vars, connection, cache, IInv, TypeOK, CacheInv, MissInv, Agrees,
       RowsCarryTheirNames, MissedOnce, RightNames
  <2>. QED
    BY <2>1, <2>2, <2>3 DEF Next
<1>2. QED
  BY InitIInv, <1>1, PTL DEF Spec

-----------------------------------------------------------------------------
\* The cache holds the listed columns of a shape or nothing for every table,
\* whatever readings fail.
THEOREM TypeCorrect == Spec => []TypeOK
<1>1. IInv => TypeOK
  BY DEF IInv
<1>2. QED
  BY Inductive, <1>1, PTL

\* Under the documented use a row reported by preupdate has names, those of its
\* table, exactly if the table has no generated or hidden column (instrument and
\* the preupdate handler).
THEOREM NamesCorrect == Spec => []RowsCarryTheirNames
<1>1. IInv => RowsCarryTheirNames
  BY DEF IInv
<1>2. QED
  BY Inductive, <1>1, PTL

\* Under every use that leaves the schema readable, a table without generated or
\* hidden columns is without names in one outermost call at most between two
\* changes of it.
THEOREM MissCorrect == Spec => []MissedOnce
<1>1. IInv => MissedOnce
  BY DEF IInv
<1>2. QED
  BY Inductive, <1>1, PTL

=============================================================================
