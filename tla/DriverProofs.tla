---------------------------- MODULE DriverProofs ----------------------------
(* Proofs about Driver: which statements SQLite still has, when they rest, and *)
(* what a row that is read carries.                                            *)
EXTENDS Driver, FiniteSetTheorems, SequenceTheorems, WellFoundedInduction, TLAPS

-----------------------------------------------------------------------------
(* Numbers.                                                                    *)

\* A set of numbers that is not empty has a least one.
LEMMA LeastNumber ==
  ASSUME NEW T, T \subseteq Nat, T # {}
  PROVE  \E m \in T : \A k \in T : m <= k
<1>. DEFINE R == {pair \in Nat \X Nat : pair[1] < pair[2]}
<1>1. IsWellFoundedOn(R, Nat)
  BY NatLessThanWellFounded DEF OpToRel
<1>2. \A i, j \in Nat : i < j => <<i, j>> \in R
  OBVIOUS
<1>. HIDE DEF R
<1>3. PICK m \in T : \A k \in T : ~(<<k, m>> \in R)
  BY <1>1, WFMin
<1>4. m \in Nat /\ \A k \in T : k \in Nat /\ ~(k < m)
  BY <1>2, <1>3
<1>. QED
  BY <1>4

\* Induction up to a number, over the set of those for which a claim holds.
LEMMA NumbersUpTo ==
  ASSUME NEW top \in Nat, NEW S, 0 \in S,
         \A n \in 1..top : n - 1 \in S => n \in S
  PROVE  0..top \subseteq S
<1>. DEFINE T == (0..top) \ S
<1>1. SUFFICES ASSUME T # {} PROVE FALSE
  OBVIOUS
<1>2. PICK m \in T : \A k \in T : m <= k
  <2>1. T \subseteq Nat
    OBVIOUS
  <2>. HIDE DEF T
  <2>. QED
    BY <1>1, <2>1, LeastNumber
<1>3. m \in 1..top /\ m - 1 \in 0..top /\ m \notin S
  BY <1>2
<1>4. m - 1 \notin T
  BY <1>2, <1>3
<1>5. m - 1 \in S
  BY <1>3, <1>4
<1>. QED
  BY <1>3, <1>5

-----------------------------------------------------------------------------
(* What a value becomes on its way through SQLite.                             *)

\* The remainder of a small number is that number.
LEMMA SmallMod ==
  ASSUME NEW m \in Nat \ {0}, NEW k \in Nat, k < m
  PROVE  k % m = k
OBVIOUS

\* An integer that fits is its own low bits.
LEMMA WrapFits ==
  ASSUME NEW bits, Half(bits) \in Nat \ {0}, NEW n \in Int, Fits(n, bits)
  PROVE  Wrap(n, bits) = n
<1>. DEFINE h == Half(bits)
<1>1. n >= -h /\ n < h /\ h \in Nat \ {0}
  BY DEF Fits
<1>. HIDE DEF h
<1>2. (n + h) \in Nat /\ n + h < 2 * h /\ 2 * h \in Nat \ {0}
  BY <1>1
<1>3. (n + h) % (2 * h) = n + h
  BY <1>2, SmallMod
<1>4. ((n + h) % (2 * h)) - h = n
  BY <1>1, <1>3
<1>. QED
  BY <1>4 DEF h, Wrap

\* The same of what fits narrower, and of 0 and 1.
LEMMA Widths ==
  ASSUME NEW n \in Int
  PROVE  /\ Fits(n, WideBits) => Wrap(n, WideBits) = n
         /\ Fits(n, NarrowBits) => Wrap(n, NarrowBits) = n /\ Fits(n, WideBits)
         /\ n \in 0..1 => Fits(n, NarrowBits) /\ IsSafe(n)
<1>1. /\ Half(NarrowBits) \in Nat \ {0} /\ Half(WideBits) \in Nat \ {0} /\ Half(SafeBits) \in Nat
      /\ 1 < Half(NarrowBits) /\ Half(NarrowBits) <= Half(WideBits) /\ 1 < Half(SafeBits)
  BY PowersAssumption
<1>2. /\ Fits(n, WideBits) => Wrap(n, WideBits) = n
      /\ Fits(n, NarrowBits) => Wrap(n, NarrowBits) = n
  BY <1>1, WrapFits
<1>3. Fits(n, NarrowBits) => Fits(n, WideBits)
  BY <1>1 DEF Fits
<1>4. n \in 0..1 => Fits(n, NarrowBits)
  BY <1>1 DEF Fits
<1>5. n \in 0..1 => IsSafe(n)
  BY <1>1 DEF IsSafe, SafeMax
<1>. QED
  BY <1>2, <1>3, <1>4, <1>5

\* A stored integer is read back as it was.
LEMMA ReadInteger ==
  ASSUME NEW n \in Int, NEW int64 \in BOOLEAN, Fits(n, IF int64 THEN WideBits ELSE NarrowBits)
  PROVE  Column(Value("integer", Wrap(n, WideBits)), int64, TRUE, FALSE) =
           IF int64 THEN Exact(n) ELSE Value("number", n)
<1>1. Wrap(n, WideBits) = n
  BY Widths
<1>2. ~int64 => Wrap(n, NarrowBits) = n
  BY Widths
<1>. QED
  BY <1>1, <1>2 DEF Column, Value

\* Bound and read back, a value is what the program may expect.
LEMMA ReadBack ==
  ASSUME NEW v \in JsValues, NEW int64 \in BOOLEAN, Unharmed(v, int64)
  PROVE  Column(Bind(v), int64, TRUE, FALSE) = Expected(v, int64)
<1>1. v.type \in JsTypes /\ v.datum \in Int /\ v = Value(v.type, v.datum)
  BY DEF JsValues, Value
<1>2. CASE v.type \in {"number", "bigint"}
  <2>1. Bind(v) = Value("integer", Wrap(v.datum, WideBits))
    BY <1>2 DEF Bind
  <2>2. Fits(v.datum, IF int64 THEN WideBits ELSE NarrowBits)
    BY <1>2 DEF Unharmed
  <2>. QED
    BY <1>1, <1>2, <2>1, <2>2, ReadInteger DEF Expected
<1>3. CASE v.type = "boolean"
  <2>1. v.datum \in 0..1
    BY <1>3 DEF JsValues
  <2>2. /\ Wrap(v.datum, NarrowBits) = v.datum /\ IsSafe(v.datum)
    BY <1>1, <2>1, Widths
  <2>. QED
    BY <1>3, <2>2 DEF Bind, Column, Exact, Expected, Value
<1>4. CASE v.type = "fraction"
  BY <1>1, <1>4 DEF Bind, Column, Expected, Value
<1>5. CASE v.type = "string"
  <2>1. v.datum # WithNul
    BY <1>5 DEF Unharmed
  <2>. QED
    BY <1>1, <1>5, <2>1 DEF Bind, Column, Expected, Value, UpToNul
<1>6. CASE v.type \in {"date", "object"}
  <2>1. UpToNul(Plain) = Plain /\ UpToNul(Json) = Json
    BY DEF UpToNul, Plain, Json, WithNul
  <2>2. CASE v.type = "date"
    BY <2>1, <2>2 DEF Bind, Column, Expected, Value
  <2>3. CASE v.type = "object"
    BY <2>1, <2>3 DEF Bind, Column, Expected, Value
  <2>. QED
    BY <1>6, <2>2, <2>3
<1>7. CASE v.type = "bytes"
  BY <1>1, <1>7 DEF Bind, Column, Expected, Value
<1>8. CASE v.type \in {"undefined", "null"}
  BY <1>1, <1>8 DEF Bind, Column, Expected, Value, Null
<1>9. v.type # "symbol"
  BY DEF Unharmed
<1>. QED
  BY <1>1, <1>2, <1>3, <1>4, <1>5, <1>6, <1>7, <1>8, <1>9 DEF JsTypes

\* A function of SQL that returns its argument returns it as it was stored,
\* whatever becomes of the memory of texts: it was none.
LEMMA ThroughCall ==
  ASSUME NEW v \in JsValues, NEW int64 \in BOOLEAN, NEW stays, UnharmedByCall(v, int64)
  PROVE  Result(Argument(Bind(v)), stays) = Bind(v)
<1>1. v.type \in JsTypes /\ v.datum \in Int /\ v = Value(v.type, v.datum)
  BY DEF JsValues, Value
<1>2. ASSUME NEW n \in Int, Fits(n, WideBits)
      PROVE  Result(Argument(Value("integer", n)), stays) = Value("integer", n)
  <2>1. Wrap(n, WideBits) = n
    BY <1>2, Widths
  <2>2. Argument(Value("integer", n)) = Exact(n)
    BY DEF Argument, Value
  <2>. QED
    BY <2>1, <2>2 DEF Result, Exact, Value
<1>3. CASE v.type \in {"number", "bigint"}
  <2>1. Fits(v.datum, WideBits)
    BY <1>1, <1>3, Widths DEF UnharmedByCall, Unharmed
  <2>2. Bind(v) = Value("integer", v.datum)
    BY <1>1, <1>3, <2>1, Widths DEF Bind
  <2>. QED
    BY <1>1, <1>2, <2>1, <2>2
<1>4. CASE v.type = "boolean"
  <2>1. v.datum \in 0..1
    BY <1>4 DEF JsValues
  <2>2. Fits(v.datum, WideBits)
    BY <1>1, <2>1, Widths
  <2>. QED
    BY <1>1, <1>2, <1>4, <2>2 DEF Bind
<1>5. CASE v.type = "fraction"
  BY <1>5 DEF Bind, Argument, Result, Value
<1>6. CASE v.type = "bytes"
  <2>1. v.datum # Empty
    BY <1>1, <1>6 DEF UnharmedByCall
  <2>. QED
    BY <1>6, <2>1 DEF Bind, Argument, Result, Value
<1>7. CASE v.type \in {"undefined", "null"}
  BY <1>7 DEF Bind, Argument, Result, Value, Null
<1>8. v.type \notin {"string", "date", "object"}
  BY DEF UnharmedByCall, Bind, Value
<1>9. v.type # "symbol"
  BY DEF UnharmedByCall, Unharmed
<1>. QED
  BY <1>1, <1>3, <1>4, <1>5, <1>6, <1>7, <1>8, <1>9 DEF JsTypes

\* An aggregate that keeps the first argument it is given, over a group of equal
\* rows, gives that argument, as far as its memory stays.
LEMMA FoldOfOne ==
  ASSUME NEW x, NEW stays, NEW m \in Nat \ {0}
  PROVE  Aggregated([i \in 1..m |-> x], stays) = Result(AfterStep(Argument(x), stays), stays)
<1>. DEFINE rows == [i \in 1..m |-> x]
            a == Argument(x)
            F == CHOOSE f : f = [n \in 0..Len(rows) |->
                                   IF n = 0 THEN Start ELSE Step(f[n - 1], Argument(rows[n]))]
            g == [n \in 0..Len(rows) |-> IF n = 0 THEN Start ELSE a]
            S == {n \in 0..m : n = 0 \/ F[n] = a}
<1>1. Aggregated(rows, stays) = Result(AfterStep(F[Len(rows)], stays), stays)
  BY DEF Aggregated
<1>2. Len(rows) = m /\ \A n \in 1..m : Argument(rows[n]) = a
  OBVIOUS
<1>. HIDE DEF a, rows
<1>3. g = [n \in 0..Len(rows) |-> IF n = 0 THEN Start ELSE Step(g[n - 1], Argument(rows[n]))]
  <2>1. ASSUME NEW n \in 1..m PROVE Step(g[n - 1], Argument(rows[n])) = a
    BY <1>2, <2>1 DEF Step
  <2>. QED
    BY <1>2, <2>1
<1>. HIDE DEF g
<1>4. F = [n \in 0..Len(rows) |-> IF n = 0 THEN Start ELSE Step(F[n - 1], Argument(rows[n]))]
  BY <1>3
<1>. HIDE DEF F
<1>5. F[0] = Start /\ \A n \in 1..m : F[n] = Step(F[n - 1], a)
  BY <1>2, <1>4
<1>6. 0..m \subseteq S
  <2>1. 0 \in S
    OBVIOUS
  <2>2. ASSUME NEW n \in 1..m, n - 1 \in S PROVE n \in S
    BY <1>5, <2>2 DEF Step
  <2>. HIDE DEF S
  <2>. QED
    BY <2>1, <2>2, NumbersUpTo
<1>. QED
  BY <1>1, <1>2, <1>6 DEF rows, a

-----------------------------------------------------------------------------
(* What the parts of an execution do to a statement.                           *)

\* All that an execution does not touch in r stays in q.
SameHandle(q, r) ==
    /\ q.object = r.object /\ q.registered = r.registered
    /\ q.native = r.native /\ q.sql = r.sql /\ q.bound = r.bound

\* reset and clear_bindings.
LEMMA BegunIs ==
  ASSUME NEW r \in StmtRecords
  PROVE  LET q == Begun(r)
         IN /\ q \in StmtRecords /\ SameHandle(q, r)
            /\ q.at = 0 /\ (q.crossed <=> r.loop # 0) /\ ~q.left /\ ~q.lag
            /\ q.compiled = r.compiled /\ q.names = r.names /\ q.loop = r.loop
            /\ q.given = r.given
            /\ q.bindings = IF Mine(r) THEN "none" ELSE r.bindings
<1>1. 0 \in 0..MaxRows
  BY DriverBoundsAssumption
<1>. QED
  BY <1>1 DEF StmtRecords, Begun, SameHandle

\* Binding.
LEMMA WithArgumentsIs ==
  ASSUME NEW r \in StmtRecords, NEW v
  PROVE  LET q == WithArguments(r, v)
         IN /\ q \in StmtRecords /\ SameHandle(q, r)
            /\ q.at = r.at /\ q.crossed = r.crossed /\ q.left = r.left /\ q.lag = r.lag
            /\ q.compiled = r.compiled /\ q.names = r.names /\ q.loop = r.loop
            /\ q.given = r.given /\ q.bindings \in {"held", r.bindings}
BY DEF StmtRecords, WithArguments, SameHandle

\* Letting the bound buffers go.
LEMMA LetGoIs ==
  ASSUME NEW r \in StmtRecords
  PROVE  LET q == LetGo(r)
         IN /\ q \in StmtRecords /\ SameHandle(q, r)
            /\ q.at = r.at /\ q.crossed = r.crossed /\ q.left = r.left /\ q.lag = r.lag
            /\ q.compiled = r.compiled /\ q.names = r.names /\ q.loop = r.loop
            /\ q.given = r.given /\ (~Mine(r) => q.bindings = r.bindings)
BY DEF StmtRecords, LetGo, SameHandle

\* Reading the names.
LEMMA NamedIs ==
  ASSUME NEW r \in StmtRecords
  PROVE  LET q == Named(r)
         IN /\ q \in StmtRecords /\ SameHandle(q, r)
            /\ q.at = r.at /\ q.crossed = r.crossed /\ q.left = r.left /\ q.lag = r.lag
            /\ q.compiled = r.compiled /\ q.loop = r.loop /\ q.bindings = r.bindings
            /\ q.names \in {r.names, r.compiled}
            /\ r.sql # "write" /\ r.compiled # 0 => q.names # 0
            /\ r.sql # "write" /\ ~setting.unsafeConcurrency => q.names = r.compiled /\ ~q.given
<1>1. r.compiled \in Nat
  BY DEF StmtRecords
<1>2. CASE Kept(r) \/ r.sql = "write"
  BY <1>2 DEF Named, Kept, SameHandle
<1>3. CASE ~(Kept(r) \/ r.sql = "write")
  <2>. DEFINE q == [r EXCEPT !.names = r.compiled, !.given = FALSE]
  <2>1. q = Named(r)
    BY <1>3 DEF Named
  <2>2. q \in StmtRecords
    BY <1>1 DEF StmtRecords
  <2>3. /\ q.names = r.compiled /\ ~q.given /\ SameHandle(q, r)
        /\ q.at = r.at /\ q.crossed = r.crossed /\ q.left = r.left /\ q.lag = r.lag
        /\ q.compiled = r.compiled /\ q.loop = r.loop /\ q.bindings = r.bindings
    BY DEF StmtRecords, SameHandle
  <2>. HIDE DEF q
  <2>. QED
    BY <1>1, <2>1, <2>2, <2>3
<1>. QED
  BY <1>2, <1>3

\* Compiling anew.
LEMMA CompiledIs ==
  ASSUME NEW r \in StmtRecords, schema \in Nat \ {0}
  PROVE  LET q == Compiled(r)
         IN /\ q \in StmtRecords /\ SameHandle(q, r)
            /\ q.at = r.at /\ q.crossed = r.crossed /\ q.left = r.left
            /\ q.names = r.names /\ q.loop = r.loop /\ q.bindings = r.bindings
            /\ q.given = r.given
            /\ q.compiled = Columns(r.sql) /\ (q.lag <=> r.compiled # q.compiled)
            /\ q.compiled \in 1..schema
<1>. DEFINE q == Compiled(r)
<1>1. Columns(r.sql) \in 1..schema /\ Columns(r.sql) \in Nat
  BY DEF Columns
<1>2. q \in StmtRecords
  BY <1>1 DEF StmtRecords, Compiled
<1>3. q.compiled = Columns(r.sql) /\ (q.lag <=> r.compiled # Columns(r.sql))
  BY DEF StmtRecords, Compiled
<1>4. /\ SameHandle(q, r)
      /\ q.at = r.at /\ q.crossed = r.crossed /\ q.left = r.left
      /\ q.names = r.names /\ q.loop = r.loop /\ q.bindings = r.bindings
      /\ q.given = r.given
  BY DEF StmtRecords, Compiled, SameHandle
<1>. HIDE DEF q
<1>5. (q.lag <=> r.compiled # q.compiled) /\ q.compiled \in 1..schema
  BY <1>1, <1>3
<1>. QED
  BY <1>2, <1>3, <1>4, <1>5 DEF q

\* Everything an execution does before its first row, of statement r.
IsPrepared(q, r, method) ==
    /\ q \in StmtRecords /\ SameHandle(q, r) /\ q.at = 0 /\ ~q.left /\ q.loop = r.loop
    /\ (q.crossed <=> r.loop # 0)
    /\ q.compiled = Columns(r.sql) /\ q.compiled \in 1..schema
    /\ (q.lag <=> r.compiled # q.compiled)
    /\ q.names \in {r.names, r.compiled}
    /\ q.bindings \in IF Mine(r) THEN {"none", "held"} ELSE {r.bindings}
    /\ method \in {"all", "get"} /\ r.sql # "write" =>
          /\ r.compiled # 0 => q.names # 0
          /\ ~setting.unsafeConcurrency => q.names = r.compiled /\ ~q.given
LEMMA PreparedIs ==
  ASSUME NEW r \in StmtRecords, schema \in Nat \ {0}, NEW method, NEW v
  PROVE  IsPrepared(Prepared(r, method, v), r, method)
<1>. DEFINE b == Begun(r)
<1>1. /\ b \in StmtRecords /\ SameHandle(b, r) /\ b.at = 0 /\ ~b.left /\ b.loop = r.loop
      /\ (b.crossed <=> r.loop # 0) /\ b.compiled = r.compiled /\ b.names = r.names
      /\ b.bindings \in IF Mine(r) THEN {"none"} ELSE {r.bindings}
  BY BegunIs
<1>. HIDE DEF b
<1>. DEFINE n == IF method \in {"all", "get"} THEN Named(b) ELSE b
<1>2. /\ n \in StmtRecords /\ SameHandle(n, r) /\ n.at = 0 /\ ~n.left /\ n.loop = r.loop
      /\ (n.crossed <=> r.loop # 0) /\ n.compiled = r.compiled /\ n.bindings = b.bindings
      /\ n.names \in {r.names, r.compiled}
      /\ method \in {"all", "get"} /\ r.sql # "write" =>
            /\ r.compiled # 0 => n.names # 0
            /\ ~setting.unsafeConcurrency => n.names = r.compiled /\ ~n.given
  BY <1>1, NamedIs DEF SameHandle
<1>. HIDE DEF n
<1>. DEFINE m == IF Mine(r) THEN WithArguments(n, v) ELSE n
<1>3. /\ m \in StmtRecords /\ SameHandle(m, r) /\ m.at = 0 /\ ~m.left /\ m.loop = r.loop
      /\ (m.crossed <=> r.loop # 0) /\ m.compiled = r.compiled
      /\ m.names = n.names /\ m.given = n.given
  BY <1>2, WithArgumentsIs DEF SameHandle
<1>4. m.bindings \in IF Mine(r) THEN {"none", "held"} ELSE {r.bindings}
  BY <1>1, <1>2, WithArgumentsIs
<1>. HIDE DEF m
<1>5. Prepared(r, method, v) = Compiled(m)
  BY DEF Prepared, m, n, b
<1>. DEFINE q == Compiled(m)
<1>6. /\ q \in StmtRecords /\ SameHandle(q, r) /\ q.at = 0 /\ ~q.left /\ q.loop = r.loop
      /\ (q.crossed <=> r.loop # 0)
      /\ q.compiled = Columns(r.sql) /\ q.compiled \in 1..schema
      /\ (q.lag <=> r.compiled # q.compiled)
      /\ q.names = n.names /\ q.given = n.given /\ q.bindings = m.bindings
  BY <1>3, CompiledIs DEF SameHandle
<1>. HIDE DEF q
<1>. QED
  BY <1>2, <1>4, <1>5, <1>6 DEF q, IsPrepared

-----------------------------------------------------------------------------
(* Every step keeps the inductive invariant.                                   *)

\* What a step on one statement must leave alone.
LEMMA OneStmt ==
  ASSUME IInv, NEW s \in Statements, NEW r \in StmtRecords, LoopInv(r),
         r.compiled <= schema, r.names <= schema, r.loop <= schema, r.native = stmt[s].native,
         stmt' = [stmt EXCEPT ![s] = r],
         UNCHANGED <<connections, STATEMENTS_TO_DB, schema, misused>>,
         wrote' \in JsValues, RowsAreNamed'
  PROVE  IInv'
<1>1. /\ TypeOK /\ HandlesAreExact /\ stmt \in [Statements -> StmtRecords]
      /\ UNCHANGED <<connection, callbacks, setting, STATEMENTS_TO_DB, schema, misused>>
  BY DEF IInv, connections
<1>2. /\ stmt' \in [Statements -> StmtRecords] /\ stmt'[s] = r
      /\ \A t \in Statements : t # s => stmt'[t] = stmt[t]
  BY <1>1
<1>3. \A t \in Statements : stmt'[t].native = stmt[t].native
  BY <1>2
<1>4. r.native \in {"none", "open", "freed"} /\ r.sql \in Sqls /\ r.at \in 0..MaxRows
      /\ r.bindings \in {"none", "held", "gone"}
      /\ r.compiled \in 0..schema /\ r.names \in 0..schema /\ r.loop \in 0..schema
  <2>1. schema \in Nat
    BY <1>1, DriverBoundsAssumption DEF TypeOK
  <2>. QED
    BY <2>1 DEF StmtRecords
<1>5. TypeOK'
  BY <1>1, <1>2, <1>4 DEF TypeOK
<1>6. HandlesAreExact'
  BY <1>1, <1>3 DEF HandlesAreExact
<1>7. \A t \in Statements : LoopInv(stmt'[t])
  BY <1>2 DEF IInv
<1>8. \A t \in Statements : LoopInv(stmt[t])'
  BY <1>1, <1>7 DEF LoopInv
<1>. QED
  BY <1>2, <1>5, <1>6, <1>8 DEF IInv

\* A step that hands out no row leaves none misnamed.
LEMMA NoRowIsNamed == row' = NoRow => RowsAreNamed'
BY DEF RowsAreNamed, NoRow

\* What IInv says of one statement.
LEMMA OneStmtIs ==
  ASSUME IInv, NEW s \in Statements
  PROVE  LET r == stmt[s]
         IN /\ r \in StmtRecords /\ LoopInv(r) /\ schema \in Nat \ {0} /\ wrote \in JsValues
            /\ r.compiled \in Nat /\ r.names \in Nat /\ r.loop \in Nat
            /\ r.compiled <= schema /\ r.names <= schema /\ r.loop <= schema
<1>1. stmt[s] \in StmtRecords /\ LoopInv(stmt[s]) /\ TypeOK /\ wrote \in JsValues
  BY DEF IInv
<1>2. schema \in Nat \ {0}
  BY <1>1, DriverBoundsAssumption DEF TypeOK
<1>3. stmt[s].compiled \in 0..schema /\ stmt[s].names \in 0..schema /\ stmt[s].loop \in 0..schema
  BY <1>1 DEF TypeOK
<1>. QED
  BY <1>1, <1>2, <1>3

\* bind() of a query.
LEMMA BindForGoodStep ==
  ASSUME IInv, NEW s \in Statements, NEW v \in Params, BindForGood(s, v)
  PROVE  IInv'
<1>. DEFINE r == stmt[s]  w == WithArguments(r, v)  q == [w EXCEPT !.bound = TRUE]
<1>1. /\ r \in StmtRecords /\ LoopInv(r) /\ wrote \in JsValues
      /\ r.compiled <= schema /\ r.names <= schema /\ r.loop <= schema
  BY OneStmtIs
<1>2. /\ stmt' = [stmt EXCEPT ![s] = q] /\ r.at = 0 /\ r.loop = 0 /\ r.sql = "filter"
      /\ UNCHANGED <<connections, STATEMENTS_TO_DB, schema, misused>> /\ wrote' = wrote
      /\ row' = NoRow
  BY DEF BindForGood, data
<1>3. /\ w \in StmtRecords /\ SameHandle(w, r) /\ w.at = 0 /\ w.loop = 0
      /\ w.compiled = r.compiled /\ w.names = r.names
  BY <1>1, <1>2, WithArgumentsIs
<1>. HIDE DEF w
<1>4. q \in StmtRecords
  BY <1>3 DEF StmtRecords
<1>5. /\ q.at = 0 /\ q.loop = 0 /\ q.compiled = r.compiled /\ q.names = r.names
      /\ q.native = r.native /\ q.sql = "filter"
  BY <1>2, <1>3 DEF StmtRecords, SameHandle
<1>. HIDE DEF q
<1>6. LoopInv(q)
  BY <1>1, <1>5 DEF LoopInv, HasArgs
<1>. QED
  BY <1>1, <1>2, <1>4, <1>5, <1>6, NoRowIsNamed, OneStmt

\* Arguments that are refused.
LEMMA BindThrowsStep ==
  ASSUME IInv, NEW s \in Statements, NEW method, NEW v, BindThrows(s, method, v)
  PROVE  IInv'
<1>. DEFINE r == stmt[s]  q == Begun(r)
<1>1. /\ r \in StmtRecords /\ LoopInv(r) /\ wrote \in JsValues
      /\ r.compiled <= schema /\ r.names <= schema /\ r.loop <= schema
  BY OneStmtIs
<1>2. /\ stmt' = [stmt EXCEPT ![s] = q] /\ row' = NoRow
      /\ UNCHANGED <<connections, STATEMENTS_TO_DB, schema, misused>> /\ wrote' = wrote
  BY DEF BindThrows, data
<1>3. /\ q \in StmtRecords /\ SameHandle(q, r) /\ q.at = 0 /\ q.loop = r.loop
      /\ (q.crossed <=> r.loop # 0) /\ q.compiled = r.compiled /\ q.names = r.names
      /\ q.bindings = IF Mine(r) THEN "none" ELSE r.bindings
  BY <1>1, BegunIs
<1>. HIDE DEF q
<1>4. LoopInv(q)
  BY <1>1, <1>3 DEF LoopInv, SameHandle, Mine
<1>. QED
  BY <1>1, <1>2, <1>3, <1>4, NoRowIsNamed, OneStmt DEF SameHandle

\* run, values, all, get or value.
LEMMA ExecuteStep ==
  ASSUME IInv, NEW s \in Statements, NEW method, NEW v \in Params \cup {Null},
         NEW outcome, NEW stays, Execute(s, method, v, outcome, stays), v \in Arguments(s)
  PROVE  IInv'
<1>. DEFINE r == stmt[s]  p == Prepared(r, method, v)  g == LetGo(p)
            fills == outcome = "row" /\ Refills(p, method)
            q == [g EXCEPT !.at = IF outcome = "row" THEN Rests(method) ELSE 0,
                           !.given = @ \/ fills, !.lag = FALSE]
<1>1. /\ r \in StmtRecords /\ LoopInv(r) /\ wrote \in JsValues /\ schema \in Nat \ {0}
      /\ r.compiled <= schema /\ r.names <= schema /\ r.loop <= schema
      /\ r.compiled \in Nat /\ r.native = "open" /\ r.compiled # 0
  BY OneStmtIs DEF Execute, Usable, LoopInv
<1>2. /\ stmt' = [stmt EXCEPT ![s] = q]
      /\ UNCHANGED <<connections, STATEMENTS_TO_DB, schema, misused>>
      /\ outcome = "row" => r.sql # "write"
      /\ row' = NoRow \/
           /\ outcome = "row" /\ method # "run"
           /\ row' = RowOf(p, IF method \in {"all", "get"} THEN p.names ELSE 0, fills, stays)
  BY DEF Execute
<1>3. wrote' \in JsValues
  <2>1. v \in JsValues
    BY ParamsAssumption DEF Null, Value, JsValues, JsTypes
  <2>. QED
    BY <1>1, <2>1 DEF Execute
<1>4. /\ p \in StmtRecords /\ SameHandle(p, r) /\ p.at = 0 /\ ~p.left /\ p.loop = r.loop
      /\ (p.crossed <=> r.loop # 0)
      /\ p.compiled \in 1..schema /\ (p.lag <=> r.compiled # p.compiled)
      /\ p.names \in {r.names, r.compiled}
      /\ p.bindings \in IF Mine(r) THEN {"none", "held"} ELSE {r.bindings}
      /\ method \in {"all", "get"} /\ r.sql # "write" /\ ~setting.unsafeConcurrency =>
            p.names = r.compiled /\ ~p.given
  <2>1. IsPrepared(p, r, method)
    BY <1>1, PreparedIs
  <2>. HIDE DEF p
  <2>. QED
    BY <2>1 DEF IsPrepared
<1>. HIDE DEF p
<1>5. /\ g \in StmtRecords /\ SameHandle(g, p) /\ g.at = 0 /\ g.loop = r.loop
      /\ (g.crossed <=> r.loop # 0) /\ g.compiled = p.compiled /\ g.names = p.names
      /\ (~Mine(p) => g.bindings = p.bindings)
  BY <1>4, LetGoIs
<1>. HIDE DEF g
<1>6. q \in StmtRecords
  <2>1. 0 \in 0..MaxRows
    BY DriverBoundsAssumption
  <2>. QED
    BY <1>5, <2>1 DEF StmtRecords, Rests
<1>7. /\ SameHandle(q, g) /\ q.at = 0 /\ q.loop = g.loop /\ q.crossed = g.crossed
      /\ q.compiled = g.compiled /\ q.names = g.names /\ q.bindings = g.bindings
  BY <1>5 DEF StmtRecords, SameHandle, Rests
<1>. HIDE DEF q
<1>8. q.bindings = IF HasArgs(r.sql) THEN q.bindings ELSE "none"
  BY <1>1, <1>4, <1>5, <1>7 DEF LoopInv, SameHandle, Mine
<1>9. LoopInv(q)
  BY <1>1, <1>4, <1>5, <1>7, <1>8 DEF LoopInv, SameHandle
<1>10. q.compiled <= schema /\ q.names <= schema /\ q.loop <= schema /\ q.native = r.native
  BY <1>1, <1>4, <1>5, <1>7 DEF SameHandle
<1>11. RowsAreNamed'
  <2>1. CASE row' = NoRow
    BY <2>1, NoRowIsNamed
  <2>2. CASE /\ outcome = "row" /\ method # "run"
             /\ row' = RowOf(p, IF method \in {"all", "get"} THEN p.names ELSE 0, fills, stays)
    <3>1. /\ row'.names = IF method \in {"all", "get"} THEN p.names ELSE 0
          /\ row'.values = p.compiled /\ row'.lag = p.lag
          /\ row'.overwrites = (fills /\ p.given)
      BY <2>2 DEF RowOf
    <3>2. setting' = setting /\ (fills => method = "get")
      BY <1>2 DEF connections, Refills
    <3>3. ~setting.unsafeConcurrency => row'.names \in {0, row'.values} \/ row'.lag
      BY <1>2, <1>4, <2>2, <3>1
    <3>4. ~setting.unsafeConcurrency => ~row'.overwrites
      BY <1>2, <1>4, <2>2, <3>1, <3>2
    <3>. QED
      BY <3>2, <3>3, <3>4 DEF RowsAreNamed
  <2>. QED
    BY <1>2, <2>1, <2>2
<1>. QED
  BY <1>1, <1>2, <1>3, <1>6, <1>9, <1>10, <1>11, OneStmt

\* The first step of iter().
LEMMA IterateStep ==
  ASSUME IInv, NEW s \in Statements, NEW v, NEW stays, Iterate(s, v, stays)
  PROVE  IInv'
<1>. DEFINE r == stmt[s]  p == Prepared(r, "all", v)
            q == [p EXCEPT !.at = 1, !.loop = p.names]
<1>1. /\ r \in StmtRecords /\ LoopInv(r) /\ wrote \in JsValues /\ schema \in Nat \ {0}
      /\ r.compiled <= schema /\ r.names <= schema /\ r.loop = 0
      /\ r.compiled \in Nat /\ r.native = "open" /\ r.compiled # 0 /\ r.sql # "write"
      /\ ~Refuses(s, "iter")
  BY OneStmtIs DEF Iterate, Usable, LoopInv
<1>2. /\ stmt' = [stmt EXCEPT ![s] = q] /\ row' = RowOf(p, p.names, FALSE, stays)
      /\ UNCHANGED <<connections, STATEMENTS_TO_DB, schema, misused>> /\ wrote' = wrote
  BY DEF Iterate, data
<1>3. /\ p \in StmtRecords /\ SameHandle(p, r) /\ ~p.left
      /\ p.compiled \in 1..schema /\ (p.lag <=> r.compiled # p.compiled)
      /\ p.names \in {r.names, r.compiled} /\ p.names # 0
      /\ p.bindings \in IF Mine(r) THEN {"none", "held"} ELSE {r.bindings}
      /\ ~setting.unsafeConcurrency => p.names = r.compiled
  <2>1. IsPrepared(p, r, "all")
    BY <1>1, PreparedIs
  <2>. HIDE DEF p
  <2>. QED
    BY <1>1, <2>1 DEF IsPrepared
<1>. HIDE DEF p
<1>4. q \in StmtRecords
  <2>1. 1 \in 0..MaxRows /\ p.names \in Nat
    BY <1>3, DriverBoundsAssumption DEF StmtRecords
  <2>. QED
    BY <1>3, <2>1 DEF StmtRecords
<1>5. /\ SameHandle(q, p) /\ q.at = 1 /\ q.loop = p.names /\ q.crossed = p.crossed
      /\ q.compiled = p.compiled /\ q.names = p.names /\ q.bindings = p.bindings
      /\ q.lag = p.lag
  BY <1>3 DEF StmtRecords, SameHandle
<1>. HIDE DEF q
\* Of a statement that was bound no loop is begun, and one without parameters has
\* no buffers.
<1>6. q.bindings # "gone" /\ (~HasArgs(r.sql) => q.bindings = "none")
  BY <1>1, <1>3, <1>5 DEF LoopInv, Mine, Refuses
<1>7. LoopInv(q)
  BY <1>1, <1>3, <1>5, <1>6 DEF LoopInv, SameHandle
<1>8. q.compiled <= schema /\ q.names <= schema /\ q.loop <= schema /\ q.native = r.native
  BY <1>1, <1>3, <1>5 DEF SameHandle
<1>9. RowsAreNamed'
  <2>1. /\ row'.names = p.names /\ row'.values = p.compiled /\ row'.lag = p.lag
        /\ ~row'.overwrites /\ setting' = setting
    BY <1>2 DEF RowOf, connections
  <2>2. ~setting.unsafeConcurrency => row'.names = row'.values \/ row'.lag
    BY <1>3, <2>1
  <2>. QED
    BY <2>1, <2>2 DEF RowsAreNamed
<1>. QED
  BY <1>1, <1>2, <1>4, <1>7, <1>8, <1>9, OneStmt

\* A later step of it.
LEMMA IterNextStep ==
  ASSUME IInv, NEW s \in Statements, NEW stays, IterNext(s, stays)
  PROVE  IInv'
<1>. DEFINE r == stmt[s]  p == IF r.at = 0 THEN Compiled(r) ELSE r
            q == [p EXCEPT !.at = @ + 1]
<1>1. /\ r \in StmtRecords /\ LoopInv(r) /\ wrote \in JsValues /\ schema \in Nat \ {0}
      /\ r.compiled <= schema /\ r.names <= schema /\ r.loop <= schema
      /\ r.compiled \in Nat /\ r.native = "open" /\ r.compiled # 0 /\ r.loop # 0
      /\ r.at < MaxRows
  BY OneStmtIs DEF IterNext, Usable, LoopInv
<1>2. /\ stmt' = [stmt EXCEPT ![s] = q] /\ row' = RowOf(p, p.loop, FALSE, stays)
      /\ UNCHANGED <<connections, STATEMENTS_TO_DB, schema, misused>> /\ wrote' = wrote
  BY DEF IterNext, data
<1>3. /\ p \in StmtRecords /\ SameHandle(p, r) /\ p.at = r.at /\ p.crossed = r.crossed
      /\ p.loop = r.loop /\ p.names = r.names /\ p.bindings = r.bindings
      /\ p.compiled \in 1..schema
      /\ (r.at # 0 => p = r)
  <2>1. CASE r.at = 0
    BY <1>1, <2>1, CompiledIs
  <2>2. CASE r.at # 0
    BY <1>1, <2>2 DEF SameHandle
  <2>. QED
    BY <2>1, <2>2
<1>. HIDE DEF p
<1>4. p.at \in Nat /\ p.at + 1 \in 0..MaxRows
  BY <1>1, <1>3, DriverBoundsAssumption DEF StmtRecords
<1>5. q \in StmtRecords
  BY <1>3, <1>4 DEF StmtRecords
<1>6. /\ SameHandle(q, p) /\ q.at = p.at + 1 /\ q.loop = p.loop /\ q.crossed = p.crossed
      /\ q.compiled = p.compiled /\ q.names = p.names /\ q.bindings = p.bindings
      /\ q.lag = p.lag
  BY <1>3 DEF StmtRecords, SameHandle
<1>. HIDE DEF q
<1>7. setting.unsafeConcurrency \/ p.loop = p.compiled \/ p.lag \/ p.crossed
  BY <1>1, <1>3 DEF LoopInv
<1>8. LoopInv(q)
  BY <1>1, <1>3, <1>4, <1>6, <1>7 DEF LoopInv, SameHandle
<1>9. q.compiled <= schema /\ q.names <= schema /\ q.loop <= schema /\ q.native = r.native
  BY <1>1, <1>3, <1>6 DEF SameHandle
<1>10. RowsAreNamed'
  <2>1. /\ row'.names = p.loop /\ row'.values = p.compiled /\ row'.lag = p.lag
        /\ row'.crossed = p.crossed /\ ~row'.overwrites /\ setting' = setting
    BY <1>2 DEF RowOf, connections
  <2>2. ~setting.unsafeConcurrency => row'.names = row'.values \/ row'.lag \/ row'.crossed
    BY <1>7, <2>1
  <2>. QED
    BY <2>1, <2>2 DEF RowsAreNamed
<1>. QED
  BY <1>1, <1>2, <1>5, <1>8, <1>9, <1>10, OneStmt

\* The end of the loop.
LEMMA LoopEndsStep ==
  ASSUME IInv, NEW s \in Statements, LoopEnds(s)
  PROVE  IInv'
<1>. DEFINE r == stmt[s]
<1>1. /\ r \in StmtRecords /\ LoopInv(r) /\ wrote \in JsValues
      /\ r.compiled <= schema /\ r.names <= schema /\ schema \in Nat \ {0}
      /\ r.native = "open" /\ r.compiled # 0
  BY OneStmtIs DEF LoopEnds, Usable, LoopInv
<1>2. PICK left \in BOOLEAN :
        stmt' = [stmt EXCEPT ![s] = [r EXCEPT !.loop = 0, !.crossed = FALSE,
                                              !.at = IF left THEN @ ELSE 0, !.left = left, !.lag = FALSE]]
  BY DEF LoopEnds
<1>. DEFINE q == [r EXCEPT !.loop = 0, !.crossed = FALSE,
                           !.at = IF left THEN @ ELSE 0, !.left = left, !.lag = FALSE]
<1>3. stmt' = [stmt EXCEPT ![s] = q]
  BY <1>2
<1>4. 0 \in 0..MaxRows /\ r.at \in 0..MaxRows
  BY <1>1, DriverBoundsAssumption DEF StmtRecords
<1>5. q \in StmtRecords
  BY <1>1, <1>4 DEF StmtRecords
<1>6. /\ SameHandle(q, r) /\ (q.at # 0 => q.left) /\ q.loop = 0
      /\ q.compiled = r.compiled /\ q.names = r.names /\ q.bindings = r.bindings
      /\ q.at \in 0..MaxRows
  BY <1>1, <1>4 DEF StmtRecords, SameHandle
<1>. HIDE DEF q
<1>7. LoopInv(q)
  BY <1>1, <1>6, DriverBoundsAssumption DEF LoopInv, SameHandle
<1>8. /\ UNCHANGED <<connections, STATEMENTS_TO_DB, schema, misused>> /\ wrote' = wrote
      /\ row' = NoRow
  BY DEF LoopEnds, data
<1>9. q.compiled <= schema /\ q.names <= schema /\ q.loop <= schema /\ q.native = r.native
  BY <1>1, <1>6 DEF SameHandle
<1>. QED
  BY <1>1, <1>3, <1>5, <1>7, <1>8, <1>9, NoRowIsNamed, OneStmt

-----------------------------------------------------------------------------
(* The life of connections and statements.                                     *)

\* A step that touches neither the statements nor their map.
LEMMA NoStmtStep ==
  ASSUME IInv, UNCHANGED <<stmt, STATEMENTS_TO_DB, misused, wrote, setting>>,
         schema' = schema \/ (schema' = schema + 1 /\ schema < MaxSchema),
         connection' \in [Connections -> {"unopened", "open", "closed"}],
         callbacks' \in [Connections -> {"none", "registered", "freed"}],
         \A c \in Connections : callbacks'[c] = "registered" => connection'[c] = "open",
         \A c \in Connections : connection[c] = "open" => connection'[c] = "open",
         row' = NoRow
  PROVE  IInv'
<1>1. TypeOK /\ HandlesAreExact /\ schema \in Nat \ {0}
  BY DriverBoundsAssumption DEF IInv, TypeOK
<1>2. schema' \in 1..MaxSchema /\ schema <= schema'
  BY <1>1, DriverBoundsAssumption DEF TypeOK
<1>3. \A s \in Statements : {stmt[s].compiled, stmt[s].names, stmt[s].loop} \subseteq 0..schema'
  BY <1>1, <1>2 DEF TypeOK
<1>4. TypeOK'
  BY <1>1, <1>2, <1>3 DEF TypeOK
<1>5. HandlesAreExact'
  BY <1>1, ConnectionsAssumption DEF HandlesAreExact, TypeOK, None
<1>6. \A s \in Statements : LoopInv(stmt[s])'
  BY DEF IInv, LoopInv
<1>. QED
  BY <1>4, <1>5, <1>6, NoRowIsNamed DEF IInv

\* A step that changes statements and their map.
LEMMA HandleStep ==
  ASSUME IInv, UNCHANGED <<setting, schema, wrote>>, row' = NoRow, misused' = FALSE,
         connection' \in [Connections -> {"unopened", "open", "closed"}],
         callbacks' \in [Connections -> {"none", "registered", "freed"}],
         \A c \in Connections : callbacks'[c] = "registered" => connection'[c] = "open",
         stmt' \in [Statements -> StmtRecords],
         STATEMENTS_TO_DB' \in [Statements -> Connections \cup {None}],
         \A s \in Statements :
            /\ stmt'[s].compiled <= schema /\ stmt'[s].names <= schema /\ stmt'[s].loop <= schema
            /\ LoopInv(stmt'[s])
            /\ STATEMENTS_TO_DB'[s] # None <=> stmt'[s].native = "open"
            /\ STATEMENTS_TO_DB'[s] # None => connection'[STATEMENTS_TO_DB'[s]] = "open"
  PROVE  IInv'
<1>1. schema \in 1..MaxSchema /\ schema \in Nat
  BY DriverBoundsAssumption DEF IInv, TypeOK
<1>2. ASSUME NEW s \in Statements
      PROVE  /\ stmt'[s].native \in {"none", "open", "freed"} /\ stmt'[s].sql \in Sqls
             /\ stmt'[s].at \in 0..MaxRows
             /\ {stmt'[s].compiled, stmt'[s].names, stmt'[s].loop} \subseteq 0..schema'
             /\ stmt'[s].bindings \in {"none", "held", "gone"}
  <2>1. stmt'[s] \in StmtRecords
    BY <1>2
  <2>. QED
    BY <1>1, <2>1 DEF StmtRecords
<1>3. setting' \in Settings /\ misused' \in BOOLEAN
  BY DEF IInv, TypeOK, HandlesAreExact
<1>4. TypeOK'
  BY <1>1, <1>2, <1>3 DEF TypeOK
<1>5. HandlesAreExact'
  BY DEF HandlesAreExact
<1>6. \A s \in Statements : LoopInv(stmt[s])'
  BY DEF LoopInv
<1>. QED
  BY <1>4, <1>5, <1>6, NoRowIsNamed DEF IInv

\* Opening, createFunction and a change of the columns.
LEMMA OpenStep == ASSUME IInv, NEW c \in Connections, Open(c) PROVE IInv'
<1>1. /\ connection' = [connection EXCEPT ![c] = "open"] /\ callbacks' = callbacks
      /\ UNCHANGED <<stmt, STATEMENTS_TO_DB, misused, wrote, setting, schema>> /\ row' = NoRow
  BY DEF Open, data
<1>. QED
  BY <1>1, NoStmtStep DEF IInv, TypeOK

\* createFunction() and createAggregate().
LEMMA FunctionStep == ASSUME IInv, NEW c \in Connections, Function(c) PROVE IInv'
<1>1. /\ connection' = connection /\ callbacks' = [callbacks EXCEPT ![c] = "registered"]
      /\ connection[c] = "open"
      /\ UNCHANGED <<stmt, STATEMENTS_TO_DB, misused, wrote, setting, schema>> /\ row' = NoRow
  BY DEF Function, data
<1>. QED
  BY <1>1, NoStmtStep DEF IInv, TypeOK

\* The columns of the query change.
LEMMA ChangeSchemaStep == ASSUME IInv, ChangeSchema PROVE IInv'
<1>1. /\ schema' = schema + 1 /\ schema < MaxSchema /\ connection' = connection
      /\ callbacks' = callbacks
      /\ UNCHANGED <<stmt, STATEMENTS_TO_DB, misused, wrote, setting>> /\ row' = NoRow
  BY DEF ChangeSchema, connections
<1>. QED
  BY <1>1, NoStmtStep DEF IInv, TypeOK

\* A statement that was never prepared, or was released, or has just been prepared.
LEMMA FreshStatements ==
  ASSUME NEW r \in StmtRecords, schema \in Nat \ {0}, NEW sql \in Sqls
  PROVE  /\ NoStmt \in StmtRecords /\ LoopInv(NoStmt) /\ NoStmt.native = "none"
         /\ NoStmt.compiled = 0 /\ NoStmt.names = 0 /\ NoStmt.loop = 0
         /\ LET q == Released(r)
            IN /\ q \in StmtRecords /\ LoopInv(q) /\ q.native = "freed"
               /\ q.compiled = 0 /\ q.names = 0 /\ q.loop = 0
         /\ LET q == [NoStmt EXCEPT !.object = TRUE, !.registered = TRUE, !.native = "open",
                                    !.sql = sql, !.compiled = Columns(sql)]
            IN /\ q \in StmtRecords /\ LoopInv(q) /\ q.native = "open"
               /\ q.compiled <= schema /\ q.names = 0 /\ q.loop = 0
<1>1. 0 \in 0..MaxRows /\ Columns(sql) \in 1..schema
  BY DriverBoundsAssumption DEF Columns
<1>2. /\ NoStmt \in StmtRecords /\ LoopInv(NoStmt) /\ NoStmt.native = "none"
      /\ NoStmt.compiled = 0 /\ NoStmt.names = 0 /\ NoStmt.loop = 0
  BY <1>1 DEF NoStmt, StmtRecords, LoopInv, Sqls
<1>3. LET q == Released(r)
      IN /\ q \in StmtRecords /\ LoopInv(q) /\ q.native = "freed"
         /\ q.compiled = 0 /\ q.names = 0 /\ q.loop = 0
  <2>. DEFINE q == Released(r)
  <2>1. r.object \in BOOLEAN /\ r.registered \in BOOLEAN
    BY DEF StmtRecords
  <2>2. q \in StmtRecords
    BY <1>1, <2>1 DEF Released, NoStmt, StmtRecords, Sqls
  <2>3. /\ q.native = "freed" /\ q.compiled = 0 /\ q.names = 0 /\ q.loop = 0 /\ q.at = 0
        /\ q.bindings = "none"
    BY DEF Released, NoStmt
  <2>. HIDE DEF q
  <2>4. LoopInv(q)
    BY <2>3 DEF LoopInv
  <2>. QED
    BY <2>2, <2>3, <2>4 DEF q
<1>4. LET q == [NoStmt EXCEPT !.object = TRUE, !.registered = TRUE, !.native = "open",
                              !.sql = sql, !.compiled = Columns(sql)]
      IN /\ q \in StmtRecords /\ LoopInv(q) /\ q.native = "open"
         /\ q.compiled <= schema /\ q.names = 0 /\ q.loop = 0
  <2>. DEFINE q == [NoStmt EXCEPT !.object = TRUE, !.registered = TRUE, !.native = "open",
                                  !.sql = sql, !.compiled = Columns(sql)]
  <2>1. Columns(sql) \in Nat \ {0} /\ Columns(sql) <= schema
    BY <1>1
  <2>2. q \in StmtRecords
    BY <1>1, <2>1 DEF NoStmt, StmtRecords
  <2>3. /\ q.native = "open" /\ q.compiled = Columns(sql) /\ q.names = 0 /\ q.loop = 0
        /\ q.at = 0 /\ q.bindings = "none"
    BY DEF NoStmt
  <2>. HIDE DEF q
  <2>4. LoopInv(q)
    BY <2>1, <2>3 DEF LoopInv
  <2>. QED
    BY <2>1, <2>2, <2>3, <2>4 DEF q
<1>. QED
  BY <1>2, <1>3, <1>4

\* Preparing.
LEMMA PrepareStep ==
  ASSUME IInv, NEW s \in Statements, NEW c \in Connections, NEW sql \in Texts[s], Prepare(s, c, sql)
  PROVE  IInv'
<1>. DEFINE q == [NoStmt EXCEPT !.object = TRUE, !.registered = TRUE, !.native = "open",
                                !.sql = sql, !.compiled = Columns(sql)]
<1>1. /\ stmt' = [stmt EXCEPT ![s] = q]
      /\ STATEMENTS_TO_DB' = [STATEMENTS_TO_DB EXCEPT ![s] = c]
      /\ connection[c] = "open" /\ row' = NoRow
      /\ UNCHANGED <<connection, callbacks, setting, schema, wrote, misused>>
  BY DEF Prepare, connections, data
<1>2. TypeOK /\ HandlesAreExact /\ stmt \in [Statements -> StmtRecords]
  BY DEF IInv
<1>3. /\ q \in StmtRecords /\ LoopInv(q) /\ q.native = "open"
      /\ q.compiled <= schema /\ q.names = 0 /\ q.loop = 0 /\ schema \in Nat \ {0}
  <2>1. sql \in Sqls
    BY TextsAssumption DEF Sqls
  <2>2. stmt[s] \in StmtRecords /\ schema \in Nat \ {0}
    BY OneStmtIs
  <2>. QED
    BY <2>1, <2>2, FreshStatements
<1>. HIDE DEF q
<1>4. STATEMENTS_TO_DB' \in [Statements -> Connections \cup {None}]
      /\ stmt' \in [Statements -> StmtRecords]
  BY <1>1, <1>2, <1>3 DEF TypeOK
<1>5. ASSUME NEW t \in Statements
      PROVE  /\ stmt'[t].compiled <= schema /\ stmt'[t].names <= schema /\ stmt'[t].loop <= schema
             /\ LoopInv(stmt'[t])
             /\ STATEMENTS_TO_DB'[t] # None <=> stmt'[t].native = "open"
             /\ STATEMENTS_TO_DB'[t] # None => connection'[STATEMENTS_TO_DB'[t]] = "open"
  <2>1. CASE t = s
    <3>1. stmt'[t] = q /\ STATEMENTS_TO_DB'[t] = c /\ c # None
      BY <1>1, <1>2, <2>1, ConnectionsAssumption DEF TypeOK, None
    <3>. QED
      BY <1>1, <1>3, <3>1
  <2>2. CASE t # s
    <3>1. stmt'[t] = stmt[t] /\ STATEMENTS_TO_DB'[t] = STATEMENTS_TO_DB[t]
      BY <1>1, <1>2, <2>2 DEF TypeOK
    <3>. QED
      BY <1>1, <1>2, <3>1, OneStmtIs DEF HandlesAreExact
  <2>. QED
    BY <2>1, <2>2
<1>6. misused' = FALSE
  BY <1>1, <1>2 DEF HandlesAreExact, TypeOK
<1>. QED
  BY <1>1, <1>2, <1>4, <1>5, <1>6, HandleStep DEF TypeOK

\* Releasing statements that the map holds is not misuse.
LEMMA ReleaseIs ==
  ASSUME IInv, NEW released \in SUBSET Statements, Release(released),
         \A s \in released : STATEMENTS_TO_DB[s] # None
  PROVE  /\ misused' = FALSE
         /\ STATEMENTS_TO_DB' \in [Statements -> Connections \cup {None}]
         /\ \A s \in Statements : STATEMENTS_TO_DB'[s] =
               IF s \in released THEN None ELSE STATEMENTS_TO_DB[s]
<1>1. TypeOK /\ HandlesAreExact
  BY DEF IInv
<1>2. \A s \in released : stmt[s].native = "open"
  BY <1>1 DEF HandlesAreExact
<1>3. misused' = FALSE
  BY <1>1, <1>2 DEF Release, HandlesAreExact, TypeOK
<1>. QED
  BY <1>1, <1>3 DEF Release, Unlisted, TypeOK

\* A step that releases some statements and forgets others that are not held.
LEMMA ReleaseStep ==
  ASSUME IInv, NEW released \in SUBSET Statements, Release(released),
         \A s \in released : STATEMENTS_TO_DB[s] # None,
         UNCHANGED <<setting, schema, wrote>>, row' = NoRow,
         connection' \in [Connections -> {"unopened", "open", "closed"}],
         callbacks' \in [Connections -> {"none", "registered", "freed"}],
         \A c \in Connections : callbacks'[c] = "registered" => connection'[c] = "open",
         stmt' \in [Statements -> StmtRecords],
         \A s \in Statements :
            /\ stmt'[s].compiled <= schema /\ stmt'[s].names <= schema /\ stmt'[s].loop <= schema
            /\ LoopInv(stmt'[s])
            /\ s \in released => stmt'[s].native # "open"
            /\ s \notin released => (stmt'[s].native = "open" <=> stmt[s].native = "open"),
         \A s \in Statements \ released :
            STATEMENTS_TO_DB[s] # None => connection'[STATEMENTS_TO_DB[s]] = "open"
  PROVE  IInv'
<1>1. HandlesAreExact
  BY DEF IInv
<1>2. /\ misused' = FALSE /\ STATEMENTS_TO_DB' \in [Statements -> Connections \cup {None}]
      /\ \A s \in Statements : STATEMENTS_TO_DB'[s] =
               IF s \in released THEN None ELSE STATEMENTS_TO_DB[s]
  BY ReleaseIs
<1>3. \A s \in Statements :
            /\ STATEMENTS_TO_DB'[s] # None <=> stmt'[s].native = "open"
            /\ STATEMENTS_TO_DB'[s] # None => connection'[STATEMENTS_TO_DB'[s]] = "open"
  BY <1>1, <1>2 DEF HandlesAreExact
<1>. QED
  BY <1>2, <1>3, HandleStep

\* close().
LEMMA CloseStep == ASSUME IInv, NEW c \in Connections, Close(c) PROVE IInv'
<1>1. TypeOK /\ HandlesAreExact /\ stmt \in [Statements -> StmtRecords]
  BY DEF IInv
<1>2. /\ Release(Own(c)) /\ row' = NoRow /\ UNCHANGED <<setting, schema, wrote>>
      /\ stmt' = [s \in Statements |-> IF s \in Own(c) THEN Released(stmt[s]) ELSE stmt[s]]
      /\ callbacks' = [callbacks EXCEPT ![c] = IF @ = "registered" THEN "freed" ELSE @]
      /\ connection' = [connection EXCEPT ![c] = "closed"]
  BY DEF Close, data, Freed
<1>3. /\ Own(c) \in SUBSET Statements /\ \A s \in Own(c) : STATEMENTS_TO_DB[s] # None
      /\ \A s \in Statements \ Own(c) : STATEMENTS_TO_DB[s] # c
  BY ConnectionsAssumption DEF Own, None
<1>4. ASSUME NEW s \in Statements
      PROVE  /\ stmt'[s] \in StmtRecords
             /\ stmt'[s].compiled <= schema /\ stmt'[s].names <= schema /\ stmt'[s].loop <= schema
             /\ LoopInv(stmt'[s])
             /\ s \in Own(c) => stmt'[s].native # "open"
             /\ s \notin Own(c) => (stmt'[s].native = "open" <=> stmt[s].native = "open")
  <2>1. CASE s \in Own(c)
    <3>1. stmt'[s] = Released(stmt[s]) /\ stmt[s] \in StmtRecords /\ schema \in Nat \ {0}
      BY <1>2, <2>1, OneStmtIs
    <3>2. "query" \in Sqls
      BY DEF Sqls
    <3>. DEFINE r == Released(stmt[s])
    <3>3. /\ r \in StmtRecords /\ LoopInv(r) /\ r.native = "freed"
          /\ r.compiled = 0 /\ r.names = 0 /\ r.loop = 0
      BY <3>1, <3>2, FreshStatements
    <3>4. stmt'[s] = r
      BY <3>1
    <3>. HIDE DEF r
    <3>. QED
      BY <2>1, <3>1, <3>3, <3>4
  <2>2. CASE s \notin Own(c)
    <3>1. stmt'[s] = stmt[s]
      BY <1>2, <2>2
    <3>. QED
      BY <2>2, <3>1, OneStmtIs
  <2>. QED
    BY <2>1, <2>2
<1>5. stmt' \in [Statements -> StmtRecords]
  BY <1>2, <1>4
<1>6. /\ connection' \in [Connections -> {"unopened", "open", "closed"}]
      /\ callbacks' \in [Connections -> {"none", "registered", "freed"}]
      /\ \A d \in Connections : callbacks'[d] = "registered" => connection'[d] = "open"
  BY <1>1, <1>2 DEF TypeOK
<1>7. \A s \in Statements \ Own(c) :
         STATEMENTS_TO_DB[s] # None => connection'[STATEMENTS_TO_DB[s]] = "open"
  BY <1>1, <1>2, <1>3 DEF HandlesAreExact, TypeOK
<1>. QED
  BY <1>2, <1>3, <1>4, <1>5, <1>6, <1>7, ReleaseStep

\* finalize().
LEMMA FinalizeStep == ASSUME IInv, NEW s \in Statements, Finalize(s) PROVE IInv'
<1>1. TypeOK /\ HandlesAreExact /\ stmt \in [Statements -> StmtRecords]
  BY DEF IInv
<1>. DEFINE q == [Released(stmt[s]) EXCEPT !.registered = FALSE]
<1>2. /\ Release({s}) /\ row' = NoRow /\ STATEMENTS_TO_DB[s] # None
      /\ UNCHANGED <<connection, callbacks, setting, schema, wrote>>
      /\ stmt' = [stmt EXCEPT ![s] = q]
  BY DEF Finalize, data, connections
<1>3. /\ q \in StmtRecords /\ LoopInv(q) /\ q.native = "freed"
      /\ q.compiled = 0 /\ q.names = 0 /\ q.loop = 0 /\ schema \in Nat \ {0}
  <2>. DEFINE r == Released(stmt[s])
  <2>1. "query" \in Sqls /\ stmt[s] \in StmtRecords /\ schema \in Nat \ {0}
    BY OneStmtIs DEF Sqls
  <2>2. /\ r \in StmtRecords /\ LoopInv(r) /\ r.native = "freed"
        /\ r.compiled = 0 /\ r.names = 0 /\ r.loop = 0
    BY <2>1, FreshStatements
  <2>. HIDE DEF r
  <2>3. q = [r EXCEPT !.registered = FALSE]
    BY DEF r
  <2>. DEFINE p == [r EXCEPT !.registered = FALSE]
  <2>4. /\ p \in StmtRecords /\ p.native = "freed" /\ p.compiled = 0 /\ p.names = 0 /\ p.loop = 0
        /\ p.at = r.at /\ p.left = r.left /\ p.sql = r.sql /\ p.bindings = r.bindings
    BY <2>2 DEF StmtRecords
  <2>. HIDE DEF p
  <2>5. LoopInv(p)
    BY <2>2, <2>4 DEF LoopInv
  <2>. QED
    BY <2>1, <2>3, <2>4, <2>5 DEF p
<1>. HIDE DEF q
<1>4. ASSUME NEW t \in Statements
      PROVE  /\ stmt'[t] \in StmtRecords
             /\ stmt'[t].compiled <= schema /\ stmt'[t].names <= schema /\ stmt'[t].loop <= schema
             /\ LoopInv(stmt'[t])
             /\ t \in {s} => stmt'[t].native # "open"
             /\ t \notin {s} => (stmt'[t].native = "open" <=> stmt[t].native = "open")
  BY <1>1, <1>2, <1>3, OneStmtIs
<1>5. stmt' \in [Statements -> StmtRecords]
  BY <1>1, <1>2, <1>3
<1>6. \A t \in Statements \ {s} :
         STATEMENTS_TO_DB[t] # None => connection'[STATEMENTS_TO_DB[t]] = "open"
  BY <1>1, <1>2 DEF HandlesAreExact
<1>. QED
  BY <1>1, <1>2, <1>4, <1>5, <1>6, ReleaseStep DEF TypeOK

\* The garbage collector.
LEMMA CollectStep == ASSUME IInv, NEW s \in Statements, Collect(s) PROVE IInv'
<1>1. TypeOK /\ HandlesAreExact /\ stmt \in [Statements -> StmtRecords]
  BY DEF IInv
<1>. DEFINE r == stmt[s]
            q == IF s \in Finalizes(s) \/ r.native = "freed" THEN NoStmt
                 ELSE [r EXCEPT !.object = FALSE]
<1>2. /\ Release(Finalizes(s)) /\ row' = NoRow
      /\ UNCHANGED <<connection, callbacks, setting, schema, wrote>>
      /\ stmt' = [stmt EXCEPT ![s] = q]
  BY DEF Collect, data, connections
<1>3. Finalizes(s) \in SUBSET Statements /\ Finalizes(s) \subseteq {s}
      /\ \A t \in Finalizes(s) : STATEMENTS_TO_DB[t] # None
  BY DEF Finalizes
<1>4. /\ r \in StmtRecords /\ LoopInv(r) /\ schema \in Nat \ {0}
      /\ r.compiled <= schema /\ r.names <= schema /\ r.loop <= schema
  BY OneStmtIs
<1>5. /\ q \in StmtRecords /\ LoopInv(q)
      /\ q.compiled <= schema /\ q.names <= schema /\ q.loop <= schema
      /\ s \in Finalizes(s) => q.native # "open"
      /\ s \notin Finalizes(s) => (q.native = "open" <=> r.native = "open")
  <2>1. CASE s \in Finalizes(s) \/ r.native = "freed"
    <3>1. q = NoStmt
      BY <2>1
    <3>2. "query" \in Sqls
      BY DEF Sqls
    <3>. DEFINE n == NoStmt
    <3>3. /\ n \in StmtRecords /\ LoopInv(n) /\ n.native = "none"
          /\ n.compiled = 0 /\ n.names = 0 /\ n.loop = 0
      BY <1>4, <3>2, FreshStatements
    <3>4. s \notin Finalizes(s) => r.native = "freed"
      BY <2>1
    <3>. HIDE DEF q, n, r
    <3>5. q = n
      BY <3>1 DEF n
    <3>. QED
      BY <1>4, <3>3, <3>4, <3>5
  <2>2. CASE ~(s \in Finalizes(s) \/ r.native = "freed")
    <3>. DEFINE p == [r EXCEPT !.object = FALSE]
    <3>1. q = p
      BY <2>2
    <3>. HIDE DEF q
    <3>2. /\ p \in StmtRecords /\ p.native = r.native /\ p.compiled = r.compiled
          /\ p.names = r.names /\ p.loop = r.loop /\ p.crossed = r.crossed /\ p.lag = r.lag
          /\ p.at = r.at /\ p.left = r.left /\ p.sql = r.sql /\ p.bindings = r.bindings
      BY <1>4 DEF StmtRecords
    <3>. HIDE DEF p
    <3>3. LoopInv(p)
      BY <1>4, <3>2 DEF LoopInv
    <3>. QED
      BY <1>4, <2>2, <3>1, <3>2, <3>3
  <2>. QED
    BY <2>1, <2>2
<1>. HIDE DEF q
<1>6. ASSUME NEW t \in Statements
      PROVE  /\ stmt'[t] \in StmtRecords
             /\ stmt'[t].compiled <= schema /\ stmt'[t].names <= schema /\ stmt'[t].loop <= schema
             /\ LoopInv(stmt'[t])
             /\ t \in Finalizes(s) => stmt'[t].native # "open"
             /\ t \notin Finalizes(s) => (stmt'[t].native = "open" <=> stmt[t].native = "open")
  <2>1. CASE t = s
    <3>1. stmt'[t] = q
      BY <1>1, <1>2, <2>1
    <3>. QED
      BY <1>5, <2>1, <3>1
  <2>2. CASE t # s
    <3>1. stmt'[t] = stmt[t]
      BY <1>1, <1>2, <2>2
    <3>. QED
      BY <1>3, <2>2, <3>1, OneStmtIs
  <2>. QED
    BY <2>1, <2>2
<1>7. stmt' \in [Statements -> StmtRecords]
  BY <1>1, <1>2, <1>5
<1>8. \A t \in Statements \ Finalizes(s) :
         STATEMENTS_TO_DB[t] # None => connection'[STATEMENTS_TO_DB[t]] = "open"
  BY <1>1, <1>2 DEF HandlesAreExact
<1>. QED
  BY <1>1, <1>2, <1>3, <1>6, <1>7, <1>8, ReleaseStep DEF TypeOK

-----------------------------------------------------------------------------
(* Every state that is reached.                                                *)

\* Nothing is prepared at first.
LEMMA InitInv == Init => IInv
<1>. SUFFICES ASSUME Init PROVE IInv
  OBVIOUS
<1>1. schema = 1 /\ schema \in 1..MaxSchema /\ schema \in Nat \ {0} /\ 0 \in 0..MaxRows
  BY DriverBoundsAssumption DEF Init
<1>2. "query" \in Sqls
  BY DEF Sqls
<1>3. /\ stmt = [s \in Statements |-> NoStmt] /\ row = NoRow
  BY DEF Init
<1>. DEFINE n == NoStmt
<1>4. /\ n \in StmtRecords /\ LoopInv(n) /\ n.native = "none"
      /\ n.compiled = 0 /\ n.names = 0 /\ n.loop = 0
  <2>1. n \in StmtRecords /\ n.native = "none" /\ n.compiled = 0 /\ n.names = 0 /\ n.loop = 0
    BY <1>1, <1>2 DEF StmtRecords, NoStmt
  <2>. QED
    BY <1>1, <2>1, FreshStatements, <1>2
<1>5. n.sql \in Sqls /\ n.at \in 0..MaxRows /\ n.bindings \in {"none", "held", "gone"}
  BY <1>1, <1>2 DEF NoStmt
<1>6. \A s \in Statements : stmt[s] = n
  BY <1>3
<1>7. RowsAreNamed
  BY <1>3 DEF RowsAreNamed, NoRow
<1>8. stmt \in [Statements -> StmtRecords]
  BY <1>3, <1>4
<1>. HIDE DEF n
<1>9. Null \in JsValues
  BY DEF Null, Value, JsValues, JsTypes
<1>10. TypeOK
  <2>1. /\ connection \in [Connections -> {"unopened", "open", "closed"}]
        /\ callbacks \in [Connections -> {"none", "registered", "freed"}]
        /\ STATEMENTS_TO_DB \in [Statements -> Connections \cup {None}]
        /\ setting \in Settings /\ misused \in BOOLEAN
    BY DEF Init
  <2>2. \A c \in Connections : callbacks[c] # "registered"
    BY DEF Init
  <2>3. {n.compiled, n.names, n.loop} \subseteq 0..schema
    BY <1>1, <1>4
  <2>. QED
    BY <1>1, <1>4, <1>5, <1>6, <2>1, <2>2, <2>3 DEF TypeOK
<1>11. HandlesAreExact
  BY <1>4, <1>6 DEF Init, HandlesAreExact, None
<1>. QED
  BY <1>4, <1>6, <1>7, <1>8, <1>9, <1>10, <1>11 DEF Init, IInv

\* A step of the system is one of these, with what is bound drawn from Params.
LEMMA NextActions ==
  ASSUME Next
  PROVE  \/ \E c \in Connections :
               Open(c) \/ Function(c) \/ Close(c)
               \/ \E s \in Statements : \E sql \in Texts[s] : Prepare(s, c, sql)
         \/ \E s \in Statements : Finalize(s) \/ Collect(s) \/ LoopEnds(s)
         \/ \E s \in Statements, v \in Params : BindForGood(s, v)
         \/ \E s \in Statements, v \in Params \cup {Null} :
               /\ v \in Arguments(s)
               /\ \/ \E method \in Methods : BindThrows(s, method, v)
                  \/ \E stays \in BOOLEAN : Iterate(s, v, stays)
                  \/ \E method \in Methods, outcome \in {"row", "done", "error"}, stays \in BOOLEAN :
                        Execute(s, method, v, outcome, stays)
         \/ \E s \in Statements, stays \in BOOLEAN : IterNext(s, stays)
         \/ ChangeSchema
<1>1. \A s \in Statements : \A v \in Arguments(s) : v \in Params \cup {Null}
  BY DEF Arguments
<1>2. \A s \in Statements : Outcomes(stmt[s].sql) \subseteq BOOLEAN
  BY DEF Outcomes
<1>. QED
  BY <1>1, <1>2 DEF Next

\* A step that changes nothing.
LEMMA StutterStep == ASSUME IInv, UNCHANGED vars PROVE IInv'
<1>1. UNCHANGED <<connection, callbacks, setting, STATEMENTS_TO_DB, stmt, schema, wrote, row, misused>>
  BY DEF vars
<1>2. TypeOK' /\ HandlesAreExact'
  BY <1>1 DEF IInv, TypeOK, HandlesAreExact
<1>3. RowsAreNamed'
  BY <1>1 DEF IInv, RowsAreNamed
<1>4. \A s \in Statements : LoopInv(stmt[s])'
  BY <1>1 DEF IInv, LoopInv
<1>. QED
  BY <1>1, <1>2, <1>3, <1>4 DEF IInv

\* Every step keeps the inductive invariant.
LEMMA StepInv == ASSUME IInv, [Next]_vars PROVE IInv'
<1>1. CASE UNCHANGED vars
  BY <1>1, StutterStep
<1>2. ASSUME NEW c \in Connections, Open(c) \/ Function(c) \/ Close(c) PROVE IInv'
  BY <1>2, OpenStep, FunctionStep, CloseStep
<1>3. ASSUME NEW c \in Connections, NEW s \in Statements, NEW sql \in Texts[s], Prepare(s, c, sql)
      PROVE  IInv'
  BY <1>3, PrepareStep
<1>4. ASSUME NEW s \in Statements, Finalize(s) \/ Collect(s) \/ LoopEnds(s)
      PROVE  IInv'
  BY <1>4, FinalizeStep, CollectStep, LoopEndsStep
<1>5. ASSUME NEW s \in Statements, NEW v \in Params, BindForGood(s, v) PROVE IInv'
  BY <1>5, BindForGoodStep
<1>6. ASSUME NEW s \in Statements, NEW v \in Params \cup {Null}, v \in Arguments(s),
             \/ \E method \in Methods : BindThrows(s, method, v)
             \/ \E stays \in BOOLEAN : Iterate(s, v, stays)
             \/ \E method \in Methods, outcome \in {"row", "done", "error"}, stays \in BOOLEAN :
                   Execute(s, method, v, outcome, stays)
      PROVE  IInv'
  BY <1>6, BindThrowsStep, IterateStep, ExecuteStep
<1>7. ASSUME NEW s \in Statements, NEW stays, IterNext(s, stays) PROVE IInv'
  BY <1>7, IterNextStep
<1>8. CASE ChangeSchema
  BY <1>8, ChangeSchemaStep
<1>. QED
  BY <1>1, <1>2, <1>3, <1>4, <1>5, <1>6, <1>7, <1>8, NextActions

\* So it holds in every state that is reached.
LEMMA Inductive == Spec => []IInv
BY InitInv, StepInv, PTL DEF Spec

\* The variables of Driver have the values the code gives them; in particular a
\* statement stands on no row past the last, and what a connection allocated for
\* its functions does not outlive it (Database.close).
THEOREM TypeCorrect == Spec => []TypeOK
<1>1. IInv => TypeOK
  BY DEF IInv
<1>. QED
  BY Inductive, <1>1, PTL

\* STATEMENTS_TO_DB holds exactly the statements SQLite has, each with an open
\* connection, and none is released twice, whichever of finalize(), the collector
\* and close() comes first.
THEOREM HandlesCorrect == Spec => []HandlesAreExact
<1>1. IInv => HandlesAreExact
  BY DEF IInv
<1>. QED
  BY Inductive, <1>1, PTL

\* Between two calls a statement stands on a row only in a loop or after one that
\* was left, and a loop reads no buffer that was let go (the reset at the end of
\* run, values, all, get and value).
THEOREM RestCorrect == Spec => []StatementsComeToRest
<1>1. IInv => StatementsComeToRest
  BY DEF IInv, LoopInv, StatementsComeToRest
<1>. QED
  BY Inductive, <1>1, PTL

-----------------------------------------------------------------------------
(* What a row carries.                                                         *)

Carried == ReadsAreRight /\ CallsAreRight /\ FoldsAreRight

\* No row says nothing of what was written.
LEMMA NoRowCarries == row' = NoRow => Carried'
BY DEF Carried, ReadsAreRight, CallsAreRight, FoldsAreRight, ReadRight, NoRow

\* A row that was just read carries what was written.
LEMMA RowCarries ==
  ASSUME IInv, NEW record, NEW names, NEW filled, NEW stays,
         row' = RowOf(record, names, filled, stays),
         UNCHANGED <<wrote, setting>>
  PROVE  Carried'
<1>1. wrote \in JsValues /\ setting.int64 \in BOOLEAN
  BY SettingsAssumption DEF IInv, TypeOK
<1>2. /\ row'.sql = record.sql
      /\ row'.value = Column(Through(record.sql, stays), setting.int64, TRUE, FALSE)
  BY DEF RowOf
<1>3. Unharmed(wrote, setting.int64) =>
         Column(cell, setting.int64, TRUE, FALSE) = Expected(wrote, setting.int64)
  BY <1>1, ReadBack DEF cell
<1>4. UnharmedByCall(wrote, setting.int64) =>
         Unharmed(wrote, setting.int64) /\ Result(Argument(cell), stays) = cell
  BY <1>1, ThroughCall DEF cell, UnharmedByCall
<1>5. UnharmedByFold(wrote, setting.int64) =>
         /\ UnharmedByCall(wrote, setting.int64)
         /\ AfterStep(Argument(cell), stays) = Argument(cell)
  <2>1. wrote.type # "bytes" => cell.type # "blob"
    BY DEF cell, Bind, Value, Null, Threw
  <2>2. cell.type # "blob" => Argument(cell).type # "bytes"
    BY DEF Argument, Exact, Value, Null
  <2>. QED
    BY <2>1, <2>2 DEF UnharmedByFold, AfterStep
<1>6. /\ Through("call", stays) = Result(Argument(cell), stays)
      /\ \A sql \in {"query", "filter"} : Through(sql, stays) = cell
      /\ Through("fold", stays) = Result(AfterStep(Argument(cell), stays), stays)
  BY DriverBoundsAssumption, FoldOfOne DEF Through
<1>. HIDE DEF cell
<1>7. row'.sql \in {"query", "filter"} => row'.value = Column(cell, setting.int64, TRUE, FALSE)
  BY <1>2, <1>6
<1>8. row'.sql = "call" =>
         row'.value = Column(Result(Argument(cell), stays), setting.int64, TRUE, FALSE)
  BY <1>2, <1>6
<1>9. row'.sql = "fold" =>
         row'.value = Column(Result(AfterStep(Argument(cell), stays), stays), setting.int64, TRUE, FALSE)
  BY <1>2, <1>6
<1>10. ReadsAreRight'
  BY <1>3, <1>7 DEF ReadsAreRight, ReadRight
<1>11. CallsAreRight'
  BY <1>3, <1>4, <1>8 DEF CallsAreRight, ReadRight
<1>12. FoldsAreRight'
  BY <1>3, <1>4, <1>5, <1>9 DEF FoldsAreRight, ReadRight
<1>. QED
  BY <1>10, <1>11, <1>12 DEF Carried

\* Every step keeps it: a value is written only by a statement that reads no row.
LEMMA StepCarries == ASSUME IInv, Carried, [Next]_vars PROVE Carried'
<1>1. CASE UNCHANGED vars
  BY <1>1 DEF vars, Carried, ReadsAreRight, CallsAreRight, FoldsAreRight, ReadRight
<1>2. ASSUME NEW c \in Connections, Open(c) \/ Function(c) \/ Close(c) PROVE Carried'
  BY <1>2, NoRowCarries DEF Open, Function, Close
<1>3. ASSUME NEW c \in Connections, NEW s \in Statements, NEW sql \in Texts[s], Prepare(s, c, sql)
      PROVE  Carried'
  BY <1>3, NoRowCarries DEF Prepare
<1>4. ASSUME NEW s \in Statements, Finalize(s) \/ Collect(s) \/ LoopEnds(s)
      PROVE  Carried'
  BY <1>4, NoRowCarries DEF Finalize, Collect, LoopEnds
<1>5. ASSUME NEW s \in Statements, NEW stays, IterNext(s, stays) PROVE Carried'
  BY <1>5, RowCarries DEF IterNext, connections, data
<1>6. ASSUME NEW s \in Statements, NEW v \in Params, BindForGood(s, v) PROVE Carried'
  BY <1>6, NoRowCarries DEF BindForGood
<1>7. ASSUME NEW s \in Statements, NEW method, NEW v, BindThrows(s, method, v) PROVE Carried'
  BY <1>7, NoRowCarries DEF BindThrows
<1>8. ASSUME NEW s \in Statements, NEW v, NEW stays, Iterate(s, v, stays) PROVE Carried'
  BY <1>8, RowCarries DEF Iterate, connections, data
<1>9. ASSUME NEW s \in Statements, NEW method, NEW v, NEW outcome, NEW stays,
             Execute(s, method, v, outcome, stays)
      PROVE  Carried'
  <2>. DEFINE ran == Prepared(stmt[s], method, v)
              names == IF method \in {"all", "get"} THEN ran.names ELSE 0
              fills == outcome = "row" /\ Refills(ran, method)
  <2>1. /\ \/ row' = NoRow
           \/ outcome = "row" /\ row' = RowOf(ran, names, fills, stays)
        /\ outcome = "row" => stmt[s].sql # "write"
        /\ setting' = setting
    BY <1>9 DEF Execute, connections
  <2>2. stmt[s].sql # "write" => wrote' = wrote
    BY <1>9 DEF Execute
  <2>. HIDE DEF ran, names, fills
  <2>. QED
    BY <2>1, <2>2, NoRowCarries, RowCarries
<1>10. CASE ChangeSchema
  BY <1>10, NoRowCarries DEF ChangeSchema
<1>. QED
  BY <1>1, <1>2, <1>3, <1>4, <1>5, <1>6, <1>7, <1>8, <1>9, <1>10, NextActions

\* A row that is read carries the value that was written for every width of the
\* integers, also what is not a text through a function of SQL and what is neither
\* a text nor bytes through an aggregate; and, without unsafeConcurrency, it has
\* the names of its columns and stays as it was handed out (getColumn, readArgs,
\* setResult, columnNames and the readers of statement.ts).
THEOREM RowsCorrect == Spec => []RowsAreRight
<1>1. Init => Carried
  BY DEF Init, Carried, ReadsAreRight, CallsAreRight, FoldsAreRight, ReadRight, NoRow
<1>2. IInv /\ Carried => RowsAreRight
  BY DEF IInv, Carried, RowsAreRight
<1>. QED
  BY Inductive, <1>1, StepCarries, <1>2, PTL DEF Spec
=============================================================================
