------------------------------- MODULE Values -------------------------------
(* driver/statement.ts and driver/database.ts: what becomes of a JavaScript    *)
(* value that is bound, stored and read back, and of one that goes through a   *)
(* function called from SQL.  The widths are constants: 32, 54 and 64 bits in  *)
(* the program, a few bits in a run.                                           *)
EXTENDS Integers, Sequences

CONSTANTS NarrowBits,   \* of sqlite3_column_int
          SafeBits,     \* of Number.MAX_SAFE_INTEGER: its 53 bits and a sign
          WideBits      \* of a SQLite integer

ASSUME WidthsAssumption ==
    /\ NarrowBits \in Nat \ {0} /\ SafeBits \in Nat \ {0} /\ WideBits \in Nat \ {0}
    /\ NarrowBits <= SafeBits /\ SafeBits < WideBits

Half(bits) == 2 ^ (bits - 1)
Fits(n, bits) == n >= -Half(bits) /\ n < Half(bits)
Wrap(n, bits) == ((n + Half(bits)) % (2 * Half(bits))) - Half(bits)
SafeMax == Half(SafeBits) - 1
IsSafe(n) == n >= -SafeMax /\ n <= SafeMax

\* What the powers of two satisfy once there are two bits: the provers know no
\* facts about powers.
ASSUME PowersAssumption ==
    /\ Half(NarrowBits) \in Nat /\ Half(SafeBits) \in Nat /\ Half(WideBits) \in Nat
    /\ 1 < Half(NarrowBits) /\ Half(NarrowBits) <= Half(SafeBits)
    /\ Half(SafeBits) <= Half(WideBits)

\* A value: its type and a datum.  Of texts and bytes the datum is one of these:
\* WithNul has a NUL byte after Plain, Dead is whatever memory that is no longer
\* theirs holds.
Value(type, datum) == [type |-> type, datum |-> datum]
Empty == 0
Plain == 1
Json == 2
WithNul == 3
Dead == 4
UpToNul(text) == IF text = WithNul THEN Plain ELSE text

JsTypes == {"undefined", "null", "boolean", "number", "fraction", "bigint", "string", "date",
            "object", "bytes", "symbol"}
JsValues == {v \in [type : JsTypes, datum : Int] : v.type = "boolean" => v.datum \in 0..1}

Null == Value("null", 0)
Threw == Value("threw", 0)

-----------------------------------------------------------------------------

\* What SQLite stores of a parameter: numbers without a fraction are integers,
\* however large, and Deno passes the low bits of a bigint.  A null parameter is
\* not bound at all.
Bind(v) ==
    CASE v.type \in {"number", "bigint"} -> Value("integer", Wrap(v.datum, WideBits))
      [] v.type = "boolean" -> Value("integer", v.datum)
      [] v.type = "fraction" -> Value("float", v.datum)
      [] v.type = "string" -> Value("text", v.datum)
      [] v.type = "date" -> Value("text", Plain)
      [] v.type = "object" -> Value("text", Json)
      [] v.type = "bytes" -> Value("blob", v.datum)
      [] v.type = "symbol" -> Threw
      [] OTHER -> Null

\* Without a fraction and past the safe range only a bigint is exact.
Exact(n) == IF IsSafe(n) THEN Value("number", n) ELSE Value("bigint", n)

\* getColumn.  `json' says that the text carries SQLite's JSON subtype.
Column(stored, int64, parseJson, json) ==
    CASE stored.type = "integer" ->
           IF int64 THEN Exact(stored.datum) ELSE Value("number", Wrap(stored.datum, NarrowBits))
      [] stored.type = "float" -> Value("fraction", stored.datum)
      [] stored.type = "text" /\ json /\ parseJson -> Value("object", 0)
      [] stored.type = "text" /\ ~(json /\ parseJson) -> Value("string", UpToNul(stored.datum))
      [] stored.type = "blob" -> Value("bytes", stored.datum)
      [] OTHER -> Null

\* readArgs: exact integers, whole texts, and no pointer for empty bytes.  Texts
\* are copied, bytes are a view of SQLite's memory, theirs during the call only.
Argument(stored) ==
    CASE stored.type = "integer" -> Exact(stored.datum)
      [] stored.type = "float" -> Value("fraction", stored.datum)
      [] stored.type = "text" -> Value("string", stored.datum)
      [] stored.type = "blob" -> IF stored.datum = Empty THEN Threw
                                                         ELSE Value("bytes", stored.datum)
      [] OTHER -> Null

\* setResult: an empty text or no bytes reach SQLite as a NULL pointer.  Bytes are
\* copied; a text is read later, from a buffer that nothing keeps: `stays' says
\* whether the memory is untouched when it is read.
Result(v, stays) ==
    CASE v.type = "boolean" -> Value("integer", v.datum)
      [] v.type = "number" -> IF IsSafe(v.datum) THEN Value("integer", v.datum)
                                                 ELSE Value("float", v.datum)
      [] v.type = "fraction" -> Value("float", v.datum)
      [] v.type = "bigint" -> Value("integer", Wrap(v.datum, WideBits))
      [] v.type \in {"string", "bytes"} /\ v.datum = Empty -> Null
      [] v.type = "string" /\ v.datum # Empty -> Value("text", IF stays THEN v.datum ELSE Dead)
      [] v.type = "bytes" /\ v.datum # Empty -> Value("blob", v.datum)
      [] v.type \in {"null", "undefined"} -> Null
      [] OTHER -> Threw

\* An aggregate over the rows of a group: one running value, seeded at the first
\* row and forgotten at the end; a group without rows was never seeded.  Here
\* step keeps the first argument it is given, and there is no final; bytes that
\* are kept are still a view of the memory they came from.
Start == Value("undefined", 0)
Step(running, v) == IF running = Start THEN v ELSE running
AfterStep(v, stays) == IF v.type = "bytes" /\ ~stays THEN Value("bytes", Dead) ELSE v
Aggregated(rows, stays) ==
    LET context[n \in 0..Len(rows)] ==
          IF n = 0 THEN Start ELSE Step(context[n - 1], Argument(rows[n]))
    IN Result(AfterStep(context[Len(rows)], stays), stays)

-----------------------------------------------------------------------------

\* What a program may expect of a value it bound and reads back.
Unharmed(v, int64) ==
    CASE v.type \in {"number", "bigint"} -> Fits(v.datum, IF int64 THEN WideBits ELSE NarrowBits)
      [] v.type = "string" -> v.datum # WithNul
      [] OTHER -> v.type # "symbol"

\* Of one that went through a function besides: no text, no empty bytes.
UnharmedByCall(v, int64) ==
    Unharmed(v, int64) /\ Bind(v).type # "text" /\ v # Value("bytes", Empty)

\* Of one that an aggregate kept from one step to the next.
UnharmedByFold(v, int64) == UnharmedByCall(v, int64) /\ v.type # "bytes"

Expected(v, int64) ==
    CASE v.type \in {"number", "bigint"} ->
           IF int64 THEN Exact(v.datum) ELSE Value("number", v.datum)
      [] v.type = "boolean" -> Value("number", v.datum)
      [] v.type = "date" -> Value("string", Plain)
      [] v.type = "object" -> Value("string", Json)
      [] v.type \in {"undefined", "null"} -> Null
      [] OTHER -> v
=============================================================================
