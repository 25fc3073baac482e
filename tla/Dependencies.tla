---------------------------- MODULE Dependencies ----------------------------
(* extractDependencies (src/dependencies.ts): what a statement touches, taken  *)
(* from the authorizer while it is compiled, and how sure the answer is.  The  *)
(* schema of the connection and the map, an earlier reading of it, are both    *)
(* here, so that the answer can be compared with what a statement touches and  *)
(* with what later change events name.                                         *)
EXTENDS SchemaMap, FiniteSetsExt

CONSTANTS BodyOf,         \* name of a view -> the name it reads in its schema
          Starts,         \* schemas a map may be captured from
          MaxAccesses,    \* objects one statement names
          MaxBehind       \* objects the map may have too many or too few

VARIABLES schema,     \* rows table_list would return now
          taken,      \* rows the caller's map was built from
          map,        \* the map: what the constructor made of them
          stmt,       \* the statement under extraction
          left,       \* accesses SQLite has not reported yet
          reads, writes, limits, capture, anyAuthorize,
          phase, answer, subscribed

extractor == <<reads, writes, limits, capture, anyAuthorize>>
vars == <<schema, taken, map, stmt, left, extractor, phase, answer, subscribed>>

\* What HARMLESS lists (a SELECT, a function) is heard and left alone: it is left
\* out.  "other" is any action outside the three sets, or one naming no table.
Actions == {"read", "write", "other"}
Tails == {"none", "statement", "garbage", "unlocatable"}
Limits == {"unseen", "ambiguous", "unattributable", "not followed", "tail"}
Kinds == {"complete", "unknown", "none", "failed", "error", "lost"}
Access == [action : Actions, key : Keys, bare : BOOLEAN]
Nothing == [kind |-> "none", reads |-> {}, writes |-> {}, limits |-> {}]

TypeOK ==
    /\ schema \subseteq Rows /\ IsListing(schema) /\ taken \subseteq Rows
    /\ left \subseteq Access
    /\ reads \subseteq Keys /\ writes \subseteq Keys /\ limits \subseteq Limits
    /\ {capture, anyAuthorize, subscribed} \subseteq BOOLEAN
    /\ phase \in {"idle", "probe", "compile", "tail", "return"}
    /\ answer.kind \in Kinds
    /\ capture <=> phase = "compile"
    \* It leaves the connection as it found it, unless dispose() refuses (:551).
    /\ phase = "idle" /\ answer.kind # "lost" => ~subscribed

-----------------------------------------------------------------------------
(* SQLite: what it reports while it compiles, and what a change is called.     *)

BodyKey(k) == <<k[1], BodyOf[k[2]]>>
Is(k, t) == k \in KeysOfType(schema, t)

\* Names resolve in temp before main; an unqualified count(*) has no schema.
MayBeBare(k) == k[1] = "temp" \/ <<"temp", k[2]>> \notin Listed(schema)

Writable(k) == Is(k, "table") \/ Is(k, "virtual")
Readable(k) == Is(k, "view") => BodyKey(k) \in KeysOfType(schema, "table")

Touch(action, k, bare) ==
    {[action |-> action, key |-> k, bare |-> bare]}
      \cup (IF Is(k, "view") THEN {[action |-> action, key |-> BodyKey(k), bare |-> FALSE]}
                             ELSE {})

\* At most one thing about a call is out of the ordinary: an access SQLite does
\* not follow or names no schema for, text after the statement, hooks that were
\* attached without the authorizer, a call from inside a listener.
Oddities == {"none", "ddl", "bare", "not installed", "in listener"} \cup (Tails \ {"none"})
installed == stmt.odd # "not installed"
inListener == stmt.odd = "in listener"

UpTo(n, S) == UNION {kSubset(i, S) : i \in 0..n}
Statements ==
    {s \in [ reads : UpTo(MaxAccesses, {k \in Listed(schema) : Readable(k)}),
             writes : UpTo(1, {k \in Listed(schema) : Writable(k)}),
             odd : Oddities ] : Cardinality(s.reads) + Cardinality(s.writes) <= MaxAccesses}

NoStatement == [reads |-> {}, writes |-> {}, odd |-> "none"]
NothingUnderWay ==
    /\ stmt' = NoStatement /\ left' = {} /\ reads' = {} /\ writes' = {} /\ limits' = {}
    /\ capture' = FALSE /\ anyAuthorize' = FALSE

Bare(s, k) == s.odd = "bare" /\ MayBeBare(k)
TailOf(s) == IF s.odd \in Tails THEN s.odd ELSE "none"

Reports(s) ==
    (UNION {Touch("read", k, Bare(s, k)) : k \in s.reads})
      \cup (UNION {Touch("write", k, FALSE) : k \in s.writes})
      \cup (IF s.odd = "ddl" THEN {[action |-> "other", key |-> k, bare |-> FALSE] : k \in Listed(schema)}
                            ELSE {})

\* The names change events give to a change of what k holds: SQLite reports the
\* shadows of a virtual table and never a view.
EventsNaming(k) ==
    CASE Is(k, "virtual") ->
            {x \in KeysOfType(schema, "shadow") : x[2] \in DOMAIN OwnerOf /\ OwnerKey(x) = k}
      [] Is(k, "view") -> {BodyKey(k)}
      [] OTHER -> {k}

\* Canonically, as the schema is now.
Means(k) ==
    CASE Is(k, "shadow") -> OwnerKey(k)
      [] Is(k, "view") -> BodyKey(k)
      [] OTHER -> k

-----------------------------------------------------------------------------
(* resolveAccess.                                                              *)

\* Mutant: a NULL schema means main.
SchemasForNullIsMain(a) == IF a.bare THEN {"main"} ELSE {a.key[1]}
SchemasFor(a) ==
    LET found == schemasContaining(map, a.key[2])
    IN IF ~a.bare THEN {a.key[1]} ELSE IF found = {} THEN {"main"} ELSE found

Candidates(a) == {<<s, a.key[2]>> : s \in SchemasFor(a)}
Kind(k) == resolveTable(map, k).kind

RefsOf(a) ==
    {<<k[1], resolveTable(map, k).canonical>> :
       k \in {x \in Candidates(a) : Kind(x) \notin {"view", "unattributable-shadow"}}}

\* Mutant: a name that the snapshot has not seen is taken for a table.
LimitsOfTrusting(a) ==
    IF a.bare /\ Cardinality(SchemasFor(a)) > 1 THEN {"ambiguous"} ELSE {}
LimitsOf(a) ==
    (IF a.bare /\ schemasContaining(map, a.key[2]) = {} THEN {"unseen"} ELSE {})
      \cup (IF a.bare /\ Cardinality(SchemasFor(a)) > 1 THEN {"ambiguous"} ELSE {})
      \cup (IF \E k \in Candidates(a) : Kind(k) = "unknown" THEN {"unseen"} ELSE {})
      \cup (IF \E k \in Candidates(a) : Kind(k) = "unattributable-shadow"
               THEN {"unattributable"} ELSE {})

\* The listener.
Observe(a) ==
    /\ anyAuthorize' = TRUE
    /\ UNCHANGED capture
    /\ limits' = limits \cup CASE ~capture -> {}
                               [] capture /\ a.action = "other" -> {"not followed"}
                               [] OTHER -> LimitsOf(a)
    /\ reads' = reads \cup (IF capture /\ a.action = "read" THEN RefsOf(a) ELSE {})
    /\ writes' = writes \cup (IF capture /\ a.action = "write" THEN RefsOf(a) ELSE {})

-----------------------------------------------------------------------------
(* extractDependencies.                                                        *)

\* withEvents, joining what is there.
Begin ==
    /\ phase = "idle"
    /\ \E s \in Statements : stmt' = s /\ left' = Reports(s)
    /\ reads' = {} /\ writes' = {} /\ limits' = {} /\ capture' = FALSE
    /\ anyAuthorize' = FALSE
    /\ subscribed' = TRUE /\ phase' = "probe" /\ answer' = Nothing
    /\ UNCHANGED <<schema, taken, map>>

Answer(kind) ==
    answer' = IF kind \in {"complete", "unknown"}
                 THEN [kind |-> kind, reads |-> reads, writes |-> writes, limits |-> limits]
                 ELSE [Nothing EXCEPT !.kind = kind]

\* SELECT 1 must be heard of, or nothing will be.
\* Mutant: a refusal returns without disposing.
ProbeReturns ==
    /\ phase = "probe"
    /\ anyAuthorize' = installed
    /\ IF installed THEN phase' = "compile" /\ capture' = TRUE /\ UNCHANGED answer
                    ELSE phase' = "idle" /\ Answer("error") /\ UNCHANGED capture
    /\ UNCHANGED <<reads, writes, limits>>
    /\ UNCHANGED <<schema, taken, map, stmt, left, subscribed>>
Probe ==
    /\ phase = "probe"
    /\ anyAuthorize' = installed
    /\ IF installed THEN phase' = "compile" /\ capture' = TRUE /\ UNCHANGED answer
                    ELSE phase' = "return" /\ Answer("error") /\ UNCHANGED capture
    /\ UNCHANGED <<reads, writes, limits>>
    /\ UNCHANGED <<schema, taken, map, stmt, left, subscribed>>

\* One access, which every listener sees before the verdict is taken.
Report ==
    /\ phase = "compile"
    /\ \E a \in left :
          /\ left' = left \ {a}
          /\ IF installed THEN Observe(a) ELSE UNCHANGED extractor
    /\ UNCHANGED <<schema, taken, map, stmt, phase, answer, subscribed>>

\* Denied by another listener, or not SQL.
CompileFails ==
    /\ phase = "compile"
    /\ capture' = FALSE /\ phase' = "return" /\ Answer("failed")
    /\ UNCHANGED <<reads, writes, limits, anyAuthorize, left>>
    /\ UNCHANGED <<schema, taken, map, stmt, subscribed>>

Compiled ==
    /\ phase = "compile" /\ left = {}
    /\ capture' = FALSE /\ phase' = "tail"
    /\ \E b \in {{}} \cup {{k} : k \in Listed(schema)} :
          left' = IF TailOf(stmt) = "statement" THEN UNION {Touch("read", k, FALSE) : k \in b} ELSE {}
    /\ UNCHANGED <<reads, writes, limits, anyAuthorize, answer>>
    /\ UNCHANGED <<schema, taken, map, stmt, subscribed>>

\* tailLimit prepares what follows: the listener hears of it too.
TailReports ==
    /\ phase = "tail"
    /\ \E a \in left : left' = left \ {a} /\ Observe(a)
    /\ UNCHANGED <<schema, taken, map, stmt, phase, answer, subscribed>>

TailRead ==
    /\ phase = "tail" /\ left = {}
    /\ limits' = IF TailOf(stmt) = "none" THEN limits ELSE limits \cup {"tail"}
    /\ phase' = "return"
    /\ answer' = IF limits' # {} THEN [kind |-> "unknown", reads |-> reads, writes |-> writes, limits |-> limits']
                 ELSE IF reads = {} /\ writes = {} THEN Nothing
                 ELSE [kind |-> "complete", reads |-> reads, writes |-> writes, limits |-> {}]
    /\ UNCHANGED <<reads, writes, capture, anyAuthorize, left>>
    /\ UNCHANGED <<schema, taken, map, stmt, subscribed>>

\* sub.dispose(), which throws inside a listener, and the caller takes the answer.
Return ==
    /\ phase = "return"
    /\ phase' = "idle"
    /\ subscribed' = inListener
    /\ Answer(IF inListener THEN "lost" ELSE "none")
    /\ NothingUnderWay
    /\ UNCHANGED <<schema, taken, map>>

-----------------------------------------------------------------------------
(* The schema, and the caller's map.                                           *)

\* What SQLite calls a shadow table has its virtual table beside it.
PossibleSchema(rows) ==
    /\ IsListing(rows) /\ rows # {}
    /\ \A k \in KeysOfType(rows, "shadow") :
          k[2] \in DOMAIN OwnerOf /\ OwnerKey(k) \in KeysOfType(rows, "virtual")
    /\ \A k \in KeysOfType(rows, "view") : k[2] \in DOMAIN BodyOf
    /\ \A k \in KeysOfType(rows, "virtual") : \E n \in DOMAIN OwnerOf : OwnerOf[n] = k[2]

\* SQLite always has main and finitely many schemas, what a view reads has a
\* name, and a map is captured from a schema SQLite can hold.
ASSUME SchemasAssumption == "main" \in Schemas /\ IsFiniteSet(Schemas)
ASSUME BodyAssumption == \A n \in DOMAIN BodyOf : BodyOf[n] \in Names
ASSUME StartsAssumption == \A rows \in Starts : rows \subseteq Rows /\ PossibleSchema(rows)

\* One object more or one less.  A name does not come back as another kind of
\* object while the map still has the first: the map would take a table for the
\* view it was, and no map says so of itself.
ChangeSchema ==
    /\ phase = "idle"
    /\ \/ \E k \in Keys \ Listed(schema), t \in Types : schema' = schema \cup {Row(k[1], k[2], t)}
       \/ \E r \in schema : schema' = schema \ {r}
    /\ PossibleSchema(schema') /\ IsListing(schema' \cup taken)
    /\ Cardinality((schema' \ taken) \cup (taken \ schema')) <= MaxBehind
    /\ UNCHANGED <<taken, map, stmt, left, extractor, phase, answer, subscribed>>

Init ==
    /\ schema \in Starts /\ CanCapture(schema)
    /\ taken = schema /\ map = MapOf(schema)
    /\ stmt = NoStatement
    /\ left = {} /\ reads = {} /\ writes = {} /\ limits = {}
    /\ capture = FALSE /\ anyAuthorize = FALSE /\ subscribed = FALSE
    /\ phase = "idle" /\ answer = Nothing

Next ==
    \/ Begin \/ Probe \/ Report \/ CompileFails \/ Compiled \/ TailReports \/ TailRead
    \/ Return \/ ChangeSchema

Spec == Init /\ [][Next]_vars

-----------------------------------------------------------------------------
(* Properties.                                                                 *)

Ref(k) == <<k[1], resolveTable(map, k).canonical>>
Answered == phase = "return"

\* A shadow that its virtual table got after the reading: the map says that it
\* does not know the name, which is how an old map shows (schema_map.ts:156-166).
KnownToBeOld(k, e) == e # k /\ Is(e, "shadow") /\ Kind(e) = "unknown"
Reaches(k, found) == \A e \in EventsNaming(k) : Ref(e) \in found \/ KnownToBeOld(k, e)

\* An answer without a caveat misses nothing: a later change of anything the
\* statement touched, under the name a change event gives it, resolves through
\* the same map to a member of the answer (dependencies.ts:15-37), or to unknown
\* where a virtual table has a shadow the map is too old for.  A map older than
\* a table of that name answers for a bare name too.
ChangesReachTheAnswer ==
    (Answered /\ answer.kind \in {"complete", "none"}
       /\ (stmt.odd = "bare" => Listed(schema) \subseteq Listed(taken)))
      => /\ \A k \in stmt.reads : Reaches(k, answer.reads)
         /\ \A k \in stmt.writes : Reaches(k, answer.writes)

\* An answer holds nothing but what the first statement touched: no view, no
\* shadow, nothing of the text after it (:372-376), unless a caveat says that a
\* name could not be told apart.  It holds of an older map too, which only names
\* a table it has not seen with a caveat.
NothingForeign ==
    (Answered /\ answer.kind \in {"complete", "unknown"}
       /\ (schema # taken => stmt.odd # "bare")
       /\ answer.limits \cap {"ambiguous", "unseen"} = {})
      => /\ answer.reads = {Means(k) : k \in stmt.reads}
         /\ answer.writes = {Means(k) : k \in stmt.writes}

\* The two directions of a map agree: the tables changes are reported on for a
\* virtual table are those that resolve to it, in its own schema, and what is
\* only named like one resolves to itself, or is a view, which has no name a
\* change could carry (schema_map.ts:54-72).
DirectionsAgree ==
    /\ \A k \in Keys, n \in Names :
          n \in shadowsOf(map, k) <=> resolveTable(map, <<k[1], n>>) = Resolved("shadow", k[2])
    /\ map.unattributable = {}
    /\ \A k \in map.shadowLookalikes :
          /\ Kind(k) = "view" \/ Ref(k) = k
          /\ <<k[1], OwnerOf[k[2]]>> \in KeysOfType(taken, "virtual")

-----------------------------------------------------------------------------
(* The invariant the proofs rest on.                                           *)

\* The two readings agree wherever both have an entry.
Readings ==
    /\ taken \subseteq Rows /\ IsListing(schema \cup taken)
    /\ PossibleSchema(schema) /\ PossibleSchema(taken)
    /\ map = MapOf(taken)

\* What resolveAccess and the listener make of a set of accesses.
Found(action, heard) == UNION {RefsOf(a) : a \in {x \in heard : x.action = action}}
Noted(a) == IF a.action = "other" THEN {"not followed"} ELSE LimitsOf(a)
Caveats(heard) == UNION {Noted(a) : a \in heard}
Gathered(heard) ==
    /\ reads = Found("read", heard) /\ writes = Found("write", heard)
    /\ limits = Caveats(heard)

\* What has been gathered is what has been reported, no more and no less.
ExtractionInv ==
    /\ phase # "idle" => stmt \in Statements
    /\ phase = "probe" => left = Reports(stmt) /\ Gathered({})
    /\ phase = "compile" => installed /\ left \subseteq Reports(stmt) /\ Gathered(Reports(stmt) \ left)
    /\ phase = "tail" => Gathered(Reports(stmt))
    /\ phase = "return" /\ answer.kind \in {"complete", "unknown", "none"} =>
         /\ answer.reads = Found("read", Reports(stmt))
         /\ answer.writes = Found("write", Reports(stmt))
         /\ answer.limits = Caveats(Reports(stmt)) \cup (IF TailOf(stmt) = "none" THEN {} ELSE {"tail"})
         /\ answer.kind # "unknown" => answer.limits = {}

IInv == TypeOK /\ Readings /\ ExtractionInv
=============================================================================
