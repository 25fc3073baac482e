------------------------- MODULE DependenciesProofs -------------------------
(* Proofs about Dependencies and the map it resolves by: what an entry answers, *)
(* what an access adds, and that an answer without a caveat is the whole one.   *)
EXTENDS Dependencies, FiniteSetTheorems, TLAPS

-----------------------------------------------------------------------------
(* A listing and its map.                                                      *)

\* A key has one type, that of its row.
LEMMA RowType ==
  ASSUME NEW rows, IsListing(rows), NEW r \in rows
  PROVE  TypeOf(rows, <<r.schema, r.name>>) = r.type
<1>1. PICK c : c = CHOOSE x \in rows : <<x.schema, x.name>> = <<r.schema, r.name>>
  OBVIOUS
<1>2. c \in rows /\ <<c.schema, c.name>> = <<r.schema, r.name>>
  BY <1>1
<1>3. c = r
  BY <1>2 DEF IsListing
<1>. QED
  BY <1>1, <1>3 DEF TypeOf

\* The keys of a type are the listed keys that have it.
LEMMA KeysHaveTypes ==
  ASSUME NEW rows, IsListing(rows), NEW t, NEW k
  PROVE  k \in KeysOfType(rows, t) <=> k \in Listed(rows) /\ TypeOf(rows, k) = t
<1>1. ASSUME k \in KeysOfType(rows, t) PROVE k \in Listed(rows) /\ TypeOf(rows, k) = t
  <2>1. PICK r \in rows : r.type = t /\ k = <<r.schema, r.name>>
    BY <1>1 DEF KeysOfType
  <2>. QED
    BY <2>1, RowType DEF Listed
<1>2. ASSUME k \in Listed(rows), TypeOf(rows, k) = t PROVE k \in KeysOfType(rows, t)
  <2>1. PICK r \in rows : k = <<r.schema, r.name>>
    BY <1>2 DEF Listed
  <2>. QED
    BY <1>2, <2>1, RowType DEF KeysOfType
<1>. QED
  BY <1>1, <1>2

\* A listed key is a pair of a schema and a name, and has one of the four types.
LEMMA ListedKeys ==
  ASSUME NEW rows \in SUBSET Rows, IsListing(rows), NEW k \in Listed(rows)
  PROVE  /\ k \in Keys /\ k = <<k[1], k[2]>> /\ k[1] \in Schemas /\ k[2] \in Names
         /\ TypeOf(rows, k) \in Types
<1>1. PICK r \in rows : k = <<r.schema, r.name>>
  BY DEF Listed
<1>2. r.schema \in Schemas /\ r.name \in Names /\ r.type \in Types
  BY DEF Rows
<1>3. TypeOf(rows, k) = r.type
  BY <1>1, RowType
<1>. QED
  BY <1>1, <1>2, <1>3 DEF Keys

\* A schema SQLite can hold: every shadow has its virtual table beside it.
LEMMA ShadowsAreOwned ==
  ASSUME NEW rows \in SUBSET Rows, PossibleSchema(rows), NEW k \in KeysOfType(rows, "shadow")
  PROVE  ClaimsOwner(rows, k)
BY DEF PossibleSchema, ClaimsOwner

\* What the map answers of each kind of key.
LEMMA PlainResolves ==
  ASSUME NEW rows \in SUBSET Rows, PossibleSchema(rows), NEW t \in {"table", "virtual"},
         NEW k \in KeysOfType(rows, t)
  PROVE  resolveTable(MapOf(rows), k) = Resolved(t, k[2])
<1>1. IsListing(rows)
  BY DEF PossibleSchema
<1>2. k \in Listed(rows) /\ TypeOf(rows, k) = t
  BY <1>1, KeysHaveTypes
<1>3. Entry(rows, k) = Resolved(t, k[2])
  BY <1>2 DEF Entry
<1>. QED
  BY <1>2, <1>3 DEF resolveTable, MapOf

\* A view resolves to no name.
LEMMA ViewResolves ==
  ASSUME NEW rows \in SUBSET Rows, PossibleSchema(rows), NEW k \in KeysOfType(rows, "view")
  PROVE  resolveTable(MapOf(rows), k) = Resolved("view", Nameless)
<1>1. IsListing(rows)
  BY DEF PossibleSchema
<1>2. k \in Listed(rows) /\ TypeOf(rows, k) = "view"
  BY <1>1, KeysHaveTypes
<1>3. Entry(rows, k) = Resolved("view", Nameless)
  BY <1>2 DEF Entry
<1>. QED
  BY <1>2, <1>3 DEF resolveTable, MapOf

\* A shadow resolves to its virtual table.
LEMMA ShadowResolves ==
  ASSUME NEW rows \in SUBSET Rows, PossibleSchema(rows), NEW k \in KeysOfType(rows, "shadow")
  PROVE  resolveTable(MapOf(rows), k) = Resolved("shadow", OwnerOf[k[2]])
<1>1. IsListing(rows)
  BY DEF PossibleSchema
<1>2. k \in Listed(rows) /\ TypeOf(rows, k) = "shadow"
  BY <1>1, KeysHaveTypes
<1>3. ClaimsOwner(rows, k)
  BY ShadowsAreOwned
<1>4. Entry(rows, k) = Resolved("shadow", OwnerOf[k[2]])
  BY <1>2, <1>3 DEF Entry
<1>. QED
  BY <1>2, <1>4 DEF resolveTable, MapOf

\* A key the reading does not have is unknown, under its own name.
LEMMA UnlistedResolves ==
  ASSUME NEW rows, NEW k, k \notin Listed(rows)
  PROVE  resolveTable(MapOf(rows), k) = Resolved("unknown", k[2])
BY DEF resolveTable, MapOf

\* Every key is one of these.
LEMMA FourTypes ==
  ASSUME NEW rows \in SUBSET Rows, PossibleSchema(rows), NEW k \in Listed(rows)
  PROVE  \/ k \in KeysOfType(rows, "table") \/ k \in KeysOfType(rows, "virtual")
         \/ k \in KeysOfType(rows, "shadow") \/ k \in KeysOfType(rows, "view")
BY ListedKeys, KeysHaveTypes DEF PossibleSchema, Types

\* The fields of a resolution.
LEMMA Fields ==
  ASSUME NEW kind, NEW canonical
  PROVE  Resolved(kind, canonical).kind = kind /\ Resolved(kind, canonical).canonical = canonical
BY DEF Resolved

-----------------------------------------------------------------------------
(* The two directions of the map.                                              *)

\* A name is among the shadows of a key exactly when it resolves to it.
LEMMA BothWays ==
  ASSUME NEW rows \in SUBSET Rows, PossibleSchema(rows), NEW k \in Keys, NEW n \in Names
  PROVE  n \in shadowsOf(MapOf(rows), k)
           <=> resolveTable(MapOf(rows), <<k[1], n>>) = Resolved("shadow", k[2])
<1>0. PICK s \in Schemas, o \in Names : k = <<s, o>>
  BY DEF Keys
<1>1. k[1] = s /\ k[2] = o
  BY <1>0
<1>. DEFINE x == <<s, n>>
<1>2. x[1] = s /\ x[2] = n /\ x \in Keys
  BY DEF Keys
<1>3. ASSUME n \in shadowsOf(MapOf(rows), k)
      PROVE  resolveTable(MapOf(rows), x) = Resolved("shadow", o)
  <2>1. k \in KeysOfType(rows, "virtual")
    BY <1>3 DEF shadowsOf, MapOf
  <2>2. n \in {y[2] : y \in {z \in KeysOfType(rows, "shadow") : ClaimsOwner(rows, z) /\ OwnerKey(z) = k}}
    BY <1>3, <2>1 DEF shadowsOf, MapOf
  <2>3. PICK y \in KeysOfType(rows, "shadow") : OwnerKey(y) = k /\ n = y[2]
    BY <2>2
  <2>4. y = <<y[1], y[2]>>
    BY <2>3, KeysHaveTypes, ListedKeys DEF PossibleSchema
  <2>5. <<y[1], OwnerOf[n]>> = <<s, o>>
    BY <2>3, <1>0 DEF OwnerKey
  <2>6. y = x /\ OwnerOf[y[2]] = o
    BY <2>3, <2>4, <2>5
  <2>. HIDE DEF x
  <2>. QED
    BY <2>3, <2>6, ShadowResolves
<1>4. ASSUME resolveTable(MapOf(rows), x) = Resolved("shadow", o)
      PROVE  n \in shadowsOf(MapOf(rows), k)
  <2>1. resolveTable(MapOf(rows), x).kind = "shadow" /\ resolveTable(MapOf(rows), x).canonical = o
    BY <1>4, Fields
  <2>. HIDE DEF x
  <2>2. x \in Listed(rows)
    BY <2>1, UnlistedResolves, Fields
  <2>3. x \in KeysOfType(rows, "shadow")
    BY <2>1, <2>2, FourTypes, PlainResolves, ViewResolves, Fields
  <2>4. OwnerOf[x[2]] = o
    BY <2>1, <2>3, ShadowResolves, Fields
  <2>5. ClaimsOwner(rows, x) /\ OwnerKey(x) = k
    BY <2>3, <2>4, ShadowsAreOwned, <1>0, <1>2 DEF OwnerKey
  <2>6. k \in KeysOfType(rows, "virtual")
    BY <2>5 DEF ClaimsOwner
  <2>7. shadowsOf(MapOf(rows), k)
          = {y[2] : y \in {z \in KeysOfType(rows, "shadow") : ClaimsOwner(rows, z) /\ OwnerKey(z) = k}}
    BY <2>6 DEF shadowsOf, MapOf
  <2>. QED
    BY <2>3, <2>5, <2>7, <1>2
<1>. QED
  BY <1>1, <1>3, <1>4

\* What is only named like a shadow is a plain table or a view.
LEMMA LookalikesStand ==
  ASSUME NEW rows \in SUBSET Rows, PossibleSchema(rows), NEW k \in MapOf(rows).shadowLookalikes
  PROVE  /\ \/ resolveTable(MapOf(rows), k).kind = "view"
            \/ <<k[1], resolveTable(MapOf(rows), k).canonical>> = k
         /\ <<k[1], OwnerOf[k[2]]>> \in KeysOfType(rows, "virtual")
<1>1. k \in Listed(rows) /\ k \notin KeysOfType(rows, "shadow") /\ ClaimsOwner(rows, k)
  BY DEF MapOf
<1>2. k = <<k[1], k[2]>>
  BY <1>1, ListedKeys DEF PossibleSchema
<1>3. \/ resolveTable(MapOf(rows), k).kind = "view"
      \/ resolveTable(MapOf(rows), k).canonical = k[2]
  BY <1>1, FourTypes, PlainResolves, ViewResolves, Fields
<1>. QED
  BY <1>1, <1>2, <1>3 DEF ClaimsOwner, OwnerKey

\* So the two directions agree for any reading of a schema SQLite can hold.
LEMMA ReadingsDirect == Readings => DirectionsAgree
<1>. SUFFICES ASSUME Readings PROVE DirectionsAgree
  OBVIOUS
<1>. USE DEF Readings
<1>1. \A k \in Keys, n \in Names :
         n \in shadowsOf(map, k) <=> resolveTable(map, <<k[1], n>>) = Resolved("shadow", k[2])
  BY BothWays
<1>2. map.unattributable = {}
  <2>1. map.unattributable = {k \in KeysOfType(taken, "shadow") : ~ClaimsOwner(taken, k)}
    BY DEF MapOf
  <2>. QED
    BY <2>1, ShadowsAreOwned
<1>3. \A k \in map.shadowLookalikes :
         /\ Kind(k) = "view" \/ Ref(k) = k
         /\ <<k[1], OwnerOf[k[2]]>> \in KeysOfType(taken, "virtual")
  BY LookalikesStand DEF Kind, Ref
<1>. QED
  BY <1>1, <1>2, <1>3 DEF DirectionsAgree

-----------------------------------------------------------------------------
(* One access.                                                                 *)

\* The map gives a key the type it has now, if it knows the key at all.
LEMMA SameType ==
  ASSUME Readings, NEW t, NEW k \in KeysOfType(schema, t), k \in Listed(taken)
  PROVE  k \in KeysOfType(taken, t)
<1>1. PICK r \in schema : r.type = t /\ k = <<r.schema, r.name>>
  BY DEF KeysOfType
<1>2. PICK q \in taken : k = <<q.schema, q.name>>
  BY DEF Listed
<1>3. q = r
  BY <1>1, <1>2 DEF Readings, IsListing
<1>. QED
  BY <1>1, <1>2, <1>3 DEF KeysOfType

\* What a key the map knows resolves to: what it means, and a view to a view.
LEMMA KnownMeans ==
  ASSUME Readings, schema \in SUBSET Rows, NEW k \in Listed(schema), k \in Listed(taken), ~Is(k, "view")
  PROVE  /\ Kind(k) \notin {"view", "unattributable-shadow"}
         /\ Ref(k) = Means(k)
<1>. USE DEF Readings
<1>1. k = <<k[1], k[2]>>
  BY ListedKeys DEF PossibleSchema
<1>2. CASE Is(k, "shadow")
  <2>1. k \in KeysOfType(taken, "shadow")
    BY <1>2, SameType DEF Is
  <2>2. resolveTable(map, k) = Resolved("shadow", OwnerOf[k[2]])
    BY <2>1, ShadowResolves
  <2>3. Kind(k) = "shadow" /\ Ref(k) = OwnerKey(k)
    BY <2>2, Fields DEF Kind, Ref, OwnerKey
  <2>. QED
    BY <2>3, <1>2 DEF Means
<1>3. ASSUME NEW t \in {"table", "virtual"}, Is(k, t)
      PROVE  Kind(k) = t /\ Ref(k) = k
  <2>1. k \in KeysOfType(taken, t)
    BY <1>3, SameType DEF Is
  <2>2. resolveTable(map, k) = Resolved(t, k[2])
    BY <2>1, PlainResolves
  <2>. QED
    BY <2>2, <1>1, Fields DEF Kind, Ref
<1>4. Is(k, "shadow") \/ Is(k, "table") \/ Is(k, "virtual")
  BY FourTypes DEF Is
<1>5. ~Is(k, "shadow") => Means(k) = k
  BY DEF Means
<1>. QED
  BY <1>2, <1>3, <1>4, <1>5

\* A view that the map knows is a view to it.
LEMMA KnownViews ==
  ASSUME Readings, NEW k, k \in Listed(taken), Is(k, "view")
  PROVE  Kind(k) = "view"
BY SameType, ViewResolves, Fields DEF Readings, Is, Kind

\* The one schema of a name that is in no other.
LEMMA OnlySchema ==
  ASSUME NEW S \in SUBSET Schemas, NEW s \in S, ~(Cardinality(S) > 1)
  PROVE  S = {s}
<1>1. IsFiniteSet(S)
  BY SchemasAssumption, FS_Subset
<1>2. IsFiniteSet(S \ {s}) /\ Cardinality(S \ {s}) = Cardinality(S) - 1
  BY <1>1, FS_RemoveElement
<1>3. Cardinality(S) \in Nat /\ Cardinality(S \ {s}) \in Nat
  BY <1>1, <1>2, FS_CardinalityType
<1>4. Cardinality(S \ {s}) = 0
  BY <1>2, <1>3
<1>5. S \ {s} = {}
  BY <1>2, <1>4, FS_EmptySet
<1>. QED
  BY <1>5

\* Without a caveat about its name.
Clear(a) == LimitsOf(a) \intersect {"ambiguous", "unseen"} = {}
Of(action, k, bare) == [action |-> action, key |-> k, bare |-> bare]

\* Such an access has one candidate, which the map knows.
LEMMA OneCandidate ==
  ASSUME Readings, schema \in SUBSET Rows, NEW action, NEW k \in Listed(schema), NEW bare \in BOOLEAN,
         bare => Listed(schema) \subseteq Listed(taken), Clear(Of(action, k, bare))
  PROVE  Candidates(Of(action, k, bare)) = {k} /\ k \in Listed(taken)
<1>. USE DEF Readings
<1>. DEFINE a == Of(action, k, bare)
<1>0. a.key = k /\ a.bare = bare
  BY DEF Of
<1>1. k = <<k[1], k[2]>> /\ k[1] \in Schemas /\ k[2] \in Names
  BY ListedKeys DEF PossibleSchema
<1>2. SchemasFor(a) = {k[1]}
  <2>1. CASE ~bare
    BY <2>1, <1>0 DEF SchemasFor
  <2>2. CASE bare
    <3>. DEFINE found == schemasContaining(map, k[2])
    <3>1. found = {s \in Schemas : <<s, k[2]>> \in Listed(taken)}
      BY <1>1 DEF schemasContaining, MapOf
    <3>2. k[1] \in found
      BY <2>2, <3>1, <1>1
    <3>3. SchemasFor(a) = found
      BY <2>2, <3>2, <1>0 DEF SchemasFor
    <3>4. ~(Cardinality(SchemasFor(a)) > 1)
      BY <2>2, <1>0 DEF Clear, LimitsOf
    <3>. HIDE DEF found
    <3>5. found \in SUBSET Schemas
      BY <3>1
    <3>. QED
      BY <3>2, <3>3, <3>4, <3>5, OnlySchema
  <2>. QED
    BY <2>1, <2>2
<1>3. Candidates(a) = {k}
  BY <1>0, <1>1, <1>2 DEF Candidates
<1>4. Kind(k) # "unknown"
  BY <1>3 DEF Clear, LimitsOf
<1>5. k \in Listed(taken)
  BY <1>4, UnlistedResolves, Fields DEF Kind
<1>. QED
  BY <1>3, <1>5

\* What it adds: what its key means, and nothing for a view.
LEMMA AccessAdds ==
  ASSUME Readings, schema \in SUBSET Rows, NEW action, NEW k \in Listed(schema), NEW bare \in BOOLEAN,
         bare => Listed(schema) \subseteq Listed(taken), Clear(Of(action, k, bare))
  PROVE  RefsOf(Of(action, k, bare)) = IF Is(k, "view") THEN {} ELSE {Means(k)}
<1>1. Candidates(Of(action, k, bare)) = {k} /\ k \in Listed(taken)
  BY OneCandidate
<1>2. CASE Is(k, "view")
  BY <1>1, <1>2, KnownViews DEF RefsOf
<1>3. CASE ~Is(k, "view")
  <2>1. Kind(k) \notin {"view", "unattributable-shadow"} /\ Ref(k) = Means(k)
    BY <1>1, <1>3, KnownMeans
  <2>. QED
    BY <1>1, <1>3, <2>1 DEF RefsOf, Ref
<1>. QED
  BY <1>2, <1>3

-----------------------------------------------------------------------------
(* A statement.                                                                *)

\* A choice of at most n members of S is a subset of S.
LEMMA UpToSubsets ==
  ASSUME NEW n, NEW S, NEW T \in UpTo(n, S)
  PROVE  T \subseteq S
BY DEF UpTo, kSubset

\* What a statement names is in the schema.
LEMMA StatementNames ==
  ASSUME NEW s \in Statements
  PROVE  /\ \A k \in s.reads : k \in Listed(schema) /\ Readable(k)
         /\ \A k \in s.writes : k \in Listed(schema) /\ Writable(k)
         /\ s.odd \in Oddities
<1>. DEFINE R == {k \in Listed(schema) : Readable(k)}
            W == {k \in Listed(schema) : Writable(k)}
<1>1. s.reads \in UpTo(MaxAccesses, R) /\ s.writes \in UpTo(1, W) /\ s.odd \in Oddities
  BY DEF Statements
<1>2. s.reads \subseteq R /\ s.writes \subseteq W
  <2>. HIDE DEF R, W
  <2>. QED
    BY <1>1, UpToSubsets
<1>. QED
  BY <1>1, <1>2

\* A name is reported as itself, and a view with the table of its body.
LEMMA TouchIs ==
  ASSUME NEW action, NEW k, NEW bare
  PROVE  Touch(action, k, bare)
           = IF Is(k, "view") THEN {Of(action, k, bare), Of(action, BodyKey(k), FALSE)}
                              ELSE {Of(action, k, bare)}
BY DEF Touch, Of

\* The fields of an access.
LEMMA OfFields ==
  ASSUME NEW action, NEW k, NEW bare
  PROVE  Of(action, k, bare).action = action /\ Of(action, k, bare).key = k /\ Of(action, k, bare).bare = bare
BY DEF Of

\* What is reported of a name has the action the statement takes on it.
LEMMA TouchActs ==
  ASSUME NEW action, NEW k, NEW bare, NEW a \in Touch(action, k, bare)
  PROVE  a.action = action
<1>1. a = Of(action, k, bare) \/ a = Of(action, BodyKey(k), FALSE)
  BY TouchIs
<1>2. Of(action, k, bare).action = action
  BY OfFields
<1>3. Of(action, BodyKey(k), FALSE).action = action
  BY DEF Of
<1>. QED
  BY <1>1, <1>2, <1>3

\* The accesses of one action, and where they come from.
LEMMA ReadsReported ==
  ASSUME NEW s
  PROVE  {a \in Reports(s) : a.action = "read"} = UNION {Touch("read", k, Bare(s, k)) : k \in s.reads}
<1>. DEFINE R == UNION {Touch("read", k, Bare(s, k)) : k \in s.reads}
            W == UNION {Touch("write", k, FALSE) : k \in s.writes}
            O == IF s.odd = "ddl" THEN {[action |-> "other", key |-> k, bare |-> FALSE] : k \in Listed(schema)}
                                  ELSE {}
<1>1. Reports(s) = R \cup W \cup O
  BY DEF Reports
<1>2. ASSUME NEW a \in R PROVE a.action = "read"
  <2>1. PICK k \in s.reads : a \in Touch("read", k, Bare(s, k))
    BY <1>2
  <2>. QED
    BY <2>1, TouchActs
<1>3. ASSUME NEW a \in W PROVE a.action = "write"
  <2>1. PICK k \in s.writes : a \in Touch("write", k, FALSE)
    BY <1>3
  <2>. QED
    BY <2>1, TouchActs
<1>4. \A a \in O : a.action = "other"
  OBVIOUS
<1>. HIDE DEF R, W, O
<1>5. {a \in Reports(s) : a.action = "read"} = R
  BY <1>1, <1>2, <1>3, <1>4
<1>. QED
  BY <1>5 DEF R

\* The writes that are reported come from what the statement writes.
LEMMA WritesReported ==
  ASSUME NEW s
  PROVE  {a \in Reports(s) : a.action = "write"} = UNION {Touch("write", k, FALSE) : k \in s.writes}
<1>. DEFINE R == UNION {Touch("read", k, Bare(s, k)) : k \in s.reads}
            W == UNION {Touch("write", k, FALSE) : k \in s.writes}
            O == IF s.odd = "ddl" THEN {[action |-> "other", key |-> k, bare |-> FALSE] : k \in Listed(schema)}
                                  ELSE {}
<1>1. Reports(s) = R \cup W \cup O
  BY DEF Reports
<1>2. ASSUME NEW a \in R PROVE a.action = "read"
  <2>1. PICK k \in s.reads : a \in Touch("read", k, Bare(s, k))
    BY <1>2
  <2>. QED
    BY <2>1, TouchActs
<1>3. ASSUME NEW a \in W PROVE a.action = "write"
  <2>1. PICK k \in s.writes : a \in Touch("write", k, FALSE)
    BY <1>3
  <2>. QED
    BY <2>1, TouchActs
<1>4. \A a \in O : a.action = "other"
  OBVIOUS
<1>. HIDE DEF R, W, O
<1>5. {a \in Reports(s) : a.action = "write"} = W
  BY <1>1, <1>2, <1>3, <1>4
<1>. QED
  BY <1>5 DEF W

\* A name whose accesses have no caveat about it.
Covered(action, k, bare) == \A a \in Touch(action, k, bare) : Clear(a)

\* It adds what it means, through its body if it is a view.
LEMMA TouchAdds ==
  ASSUME Readings, schema \in SUBSET Rows, NEW action, NEW k \in Listed(schema), Readable(k),
         NEW bare \in BOOLEAN, bare => Listed(schema) \subseteq Listed(taken), Covered(action, k, bare)
  PROVE  UNION {RefsOf(a) : a \in Touch(action, k, bare)} = {Means(k)}
<1>1. CASE ~Is(k, "view")
  <2>1. Touch(action, k, bare) = {Of(action, k, bare)}
    BY <1>1, TouchIs
  <2>2. RefsOf(Of(action, k, bare)) = {Means(k)}
    BY <1>1, <2>1, AccessAdds DEF Covered
  <2>. QED
    BY <2>1, <2>2
<1>2. CASE Is(k, "view")
  <2>1. Touch(action, k, bare) = {Of(action, k, bare), Of(action, BodyKey(k), FALSE)}
    BY <1>2, TouchIs
  <2>2. RefsOf(Of(action, k, bare)) = {}
    BY <1>2, <2>1, AccessAdds DEF Covered
  <2>. DEFINE b == BodyKey(k)
  <2>3. Is(b, "table")
    BY <1>2 DEF Readable, Is
  <2>. HIDE DEF b
  <2>4. b \in Listed(schema) /\ TypeOf(schema, b) = "table"
    BY <2>3, KeysHaveTypes DEF Is, Readings, PossibleSchema
  <2>5. ~Is(b, "view") /\ ~Is(b, "shadow")
    BY <2>4, KeysHaveTypes DEF Is, Readings, PossibleSchema
  <2>6. RefsOf(Of(action, b, FALSE)) = {Means(b)}
    BY <2>1, <2>4, <2>5, AccessAdds DEF Covered, b
  <2>7. Means(b) = b
    BY <2>5 DEF Means
  <2>8. Means(k) = b
    <3>1. ~Is(k, "shadow")
      BY <1>2, KeysHaveTypes DEF Is, Readings, PossibleSchema
    <3>. QED
      BY <1>2, <3>1 DEF Means, b
  <2>9. Touch(action, k, bare) = {Of(action, k, bare), Of(action, b, FALSE)}
    BY <2>1 DEF b
  <2>. QED
    BY <2>2, <2>6, <2>7, <2>8, <2>9
<1>. QED
  BY <1>1, <1>2

\* No caveat about a name, and no name without its schema that the map is too old for.
Sure(s) ==
  /\ Caveats(Reports(s)) \intersect {"ambiguous", "unseen"} = {}
  /\ s.odd = "bare" => Listed(schema) \subseteq Listed(taken)

\* Then no access of the statement has a caveat about its name.
LEMMA SureIsClear ==
  ASSUME NEW s, Sure(s), NEW a \in Reports(s), a.action # "other"
  PROVE  Clear(a)
<1>1. Noted(a) \subseteq Caveats(Reports(s))
  BY DEF Caveats
<1>2. Noted(a) = LimitsOf(a)
  BY DEF Noted
<1>. QED
  BY <1>1, <1>2 DEF Sure, Clear

\* Nor has anything that it reads.
LEMMA SureReads ==
  ASSUME NEW s, Sure(s), NEW k \in s.reads
  PROVE  /\ Covered("read", k, Bare(s, k)) /\ Bare(s, k) \in BOOLEAN
         /\ Bare(s, k) => Listed(schema) \subseteq Listed(taken)
<1>1. ASSUME NEW a \in Touch("read", k, Bare(s, k)) PROVE Clear(a)
  <2>1. a \in Reports(s) /\ a.action = "read"
    BY ReadsReported
  <2>. QED
    BY <2>1, SureIsClear
<1>2. Bare(s, k) \in BOOLEAN
  BY DEF Bare, MayBeBare
<1>3. Bare(s, k) => Listed(schema) \subseteq Listed(taken)
  BY DEF Bare, Sure
<1>. QED
  BY <1>1, <1>2, <1>3 DEF Covered

\* Nor has anything that it writes.
LEMMA SureWrites ==
  ASSUME NEW s, Sure(s), NEW k \in s.writes
  PROVE  Covered("write", k, FALSE)
<1>1. ASSUME NEW a \in Touch("write", k, FALSE) PROVE Clear(a)
  <2>0. a \in UNION {Touch("write", j, FALSE) : j \in s.writes}
    BY Zenon, <1>1
  <2>1. a \in Reports(s) /\ a.action = "write"
    BY <2>0, WritesReported
  <2>. QED
    BY <2>1, SureIsClear
<1>. QED
  BY <1>1 DEF Covered

\* What is found of a statement is what it means, no more and no less.
LEMMA FoundIsMeant ==
  ASSUME Readings, schema \in SUBSET Rows, NEW s \in Statements, Sure(s)
  PROVE  /\ Found("read", Reports(s)) = {Means(k) : k \in s.reads}
         /\ Found("write", Reports(s)) = {Means(k) : k \in s.writes}
<1>1. ASSUME NEW k \in s.reads
      PROVE  UNION {RefsOf(a) : a \in Touch("read", k, Bare(s, k))} = {Means(k)}
  <2>1. k \in Listed(schema) /\ Readable(k)
    BY StatementNames
  <2>2. /\ Covered("read", k, Bare(s, k)) /\ Bare(s, k) \in BOOLEAN
        /\ Bare(s, k) => Listed(schema) \subseteq Listed(taken)
    BY SureReads
  <2>. QED
    BY <2>1, <2>2, TouchAdds
<1>2. ASSUME NEW k \in s.writes
      PROVE  UNION {RefsOf(a) : a \in Touch("write", k, FALSE)} = {Means(k)}
  <2>1. k \in Listed(schema) /\ Writable(k)
    BY StatementNames
  <2>2. Readable(k)
    BY <2>1, KeysHaveTypes DEF Readable, Writable, Is, Readings, PossibleSchema
  <2>3. Covered("write", k, FALSE)
    BY SureWrites
  <2>. QED
    BY <2>1, <2>2, <2>3, TouchAdds
<1>3. Found("read", Reports(s)) = UNION {RefsOf(a) : a \in UNION {Touch("read", k, Bare(s, k)) : k \in s.reads}}
  BY ReadsReported DEF Found
<1>4. Found("write", Reports(s)) = UNION {RefsOf(a) : a \in UNION {Touch("write", k, FALSE) : k \in s.writes}}
  BY WritesReported DEF Found
<1>5. Found("read", Reports(s)) = {Means(k) : k \in s.reads}
  <2>1. ASSUME NEW x \in Found("read", Reports(s)) PROVE x \in {Means(k) : k \in s.reads}
    <3>1. PICK k \in s.reads : \E a \in Touch("read", k, Bare(s, k)) : x \in RefsOf(a)
      BY <1>3, <2>1
    <3>. QED
      BY <3>1, <1>1
  <2>2. ASSUME NEW k \in s.reads PROVE Means(k) \in Found("read", Reports(s))
    <3>1. PICK a \in Touch("read", k, Bare(s, k)) : Means(k) \in RefsOf(a)
      BY <1>1
    <3>. QED
      BY <3>1, <1>3
  <2>. QED
    BY <2>1, <2>2
<1>6. Found("write", Reports(s)) = {Means(k) : k \in s.writes}
  <2>1. ASSUME NEW x \in Found("write", Reports(s)) PROVE x \in {Means(k) : k \in s.writes}
    <3>1. PICK k \in s.writes : \E a \in Touch("write", k, FALSE) : x \in RefsOf(a)
      BY <1>4, <2>1
    <3>. QED
      BY <3>1, <1>2
  <2>2. ASSUME NEW k \in s.writes PROVE Means(k) \in Found("write", Reports(s))
    <3>0. Means(k) \in UNION {RefsOf(a) : a \in Touch("write", k, FALSE)}
      BY <1>2
    <3>1. PICK a \in Touch("write", k, FALSE) : Means(k) \in RefsOf(a)
      BY Zenon, <3>0
    <3>. QED
      BY <3>1, <1>4
  <2>. QED
    BY <2>1, <2>2
<1>. QED
  BY <1>5, <1>6

-----------------------------------------------------------------------------
(* From the names of change events back to the answer.                         *)

\* A key the map knows is reached by the changes of itself.
LEMMA ReachedByItself ==
  ASSUME Readings, schema \in SUBSET Rows, NEW k \in Listed(schema), k \in Listed(taken),
         ~Is(k, "view"), ~Is(k, "virtual"), NEW found, Means(k) \in found
  PROVE  Reaches(k, found)
<1>1. EventsNaming(k) = {k}
  BY DEF EventsNaming
<1>2. Ref(k) = Means(k)
  BY KnownMeans
<1>. QED
  BY <1>1, <1>2 DEF Reaches

\* A virtual table by those of its shadows, as far as the map knows them.
LEMMA ReachedByShadows ==
  ASSUME Readings, schema \in SUBSET Rows, NEW k, Is(k, "virtual"), NEW found, Means(k) \in found
  PROVE  Reaches(k, found)
<1>1. TypeOf(schema, k) = "virtual"
  BY KeysHaveTypes DEF Is, Readings, PossibleSchema
<1>2. ~Is(k, "shadow") /\ ~Is(k, "view")
  BY <1>1, KeysHaveTypes DEF Is, Readings, PossibleSchema
<1>3. Means(k) = k
  BY <1>2 DEF Means
<1>4. ASSUME NEW e \in EventsNaming(k) PROVE Ref(e) \in found \/ KnownToBeOld(k, e)
  <2>0. EventsNaming(k)
          = {x \in KeysOfType(schema, "shadow") : x[2] \in DOMAIN OwnerOf /\ OwnerKey(x) = k}
    BY <1>2 DEF EventsNaming
  <2>1. Is(e, "shadow") /\ OwnerKey(e) = k
    BY <2>0, <1>4 DEF Is
  <2>2. e \in Listed(schema) /\ TypeOf(schema, e) = "shadow"
    BY <2>1, KeysHaveTypes DEF Is, Readings, PossibleSchema
  <2>3. ~Is(e, "view") /\ e # k
    BY <1>1, <2>2, KeysHaveTypes DEF Is, Readings, PossibleSchema
  <2>4. CASE e \in Listed(taken)
    <3>1. Ref(e) = Means(e)
      BY <2>2, <2>3, <2>4, KnownMeans
    <3>2. Means(e) = k
      BY <2>1, <2>3 DEF Means
    <3>. QED
      BY <3>1, <3>2, <1>3
  <2>5. CASE e \notin Listed(taken)
    <3>1. Kind(e) = "unknown"
      BY <2>5, UnlistedResolves, Fields DEF Kind, Readings
    <3>. QED
      BY <3>1, <2>1, <2>3 DEF KnownToBeOld
  <2>. QED
    BY <2>4, <2>5
<1>. QED
  BY <1>4 DEF Reaches

\* A view by those of the table its body reads.
LEMMA ReachedByBody ==
  ASSUME Readings, schema \in SUBSET Rows, NEW k, Is(k, "view"), Readable(k),
         BodyKey(k) \in Listed(taken), NEW found, Means(k) \in found
  PROVE  Reaches(k, found)
<1>. DEFINE b == BodyKey(k)
<1>1. TypeOf(schema, k) = "view"
  BY KeysHaveTypes DEF Is, Readings, PossibleSchema
<1>2. ~Is(k, "shadow") /\ ~Is(k, "virtual")
  BY <1>1, KeysHaveTypes DEF Is, Readings, PossibleSchema
<1>3. EventsNaming(k) = {b} /\ Means(k) = b
  BY <1>2 DEF EventsNaming, Means
<1>4. Is(b, "table") /\ b \in Listed(taken)
  BY DEF Readable, Is
<1>. HIDE DEF b
<1>5. b \in Listed(schema) /\ TypeOf(schema, b) = "table"
  BY <1>4, KeysHaveTypes DEF Is, Readings, PossibleSchema
<1>6. ~Is(b, "shadow") /\ ~Is(b, "view")
  BY <1>5, KeysHaveTypes DEF Is, Readings, PossibleSchema
<1>7. Ref(b) = Means(b) /\ Means(b) = b
  BY <1>4, <1>5, <1>6, KnownMeans DEF Means
<1>. QED
  BY <1>3, <1>7 DEF Reaches

\* An access without a caveat reaches the answer that holds what it means.
LEMMA CoveredReaches ==
  ASSUME Readings, schema \in SUBSET Rows, NEW action, NEW k \in Listed(schema), Readable(k),
         NEW bare \in BOOLEAN, bare => Listed(schema) \subseteq Listed(taken),
         Covered(action, k, bare), NEW found, Means(k) \in found
  PROVE  Reaches(k, found)
<1>1. k \in Listed(taken)
  <2>1. Clear(Of(action, k, bare))
    BY TouchIs DEF Covered
  <2>. QED
    BY <2>1, OneCandidate
<1>2. CASE Is(k, "view")
  <2>. DEFINE b == BodyKey(k)
  <2>1. Clear(Of(action, b, FALSE))
    BY <1>2, TouchIs DEF Covered
  <2>2. Is(b, "table")
    BY <1>2 DEF Readable, Is
  <2>. HIDE DEF b
  <2>3. b \in Listed(schema)
    BY <2>2, KeysHaveTypes DEF Is, Readings, PossibleSchema
  <2>4. b \in Listed(taken)
    BY <2>1, <2>3, OneCandidate
  <2>5. BodyKey(k) \in Listed(taken)
    BY <2>4 DEF b
  <2>. QED
    BY <1>2, <2>5, ReachedByBody
<1>3. CASE Is(k, "virtual")
  BY <1>3, ReachedByShadows
<1>4. CASE ~Is(k, "view") /\ ~Is(k, "virtual")
  BY <1>1, <1>4, ReachedByItself
<1>. QED
  BY <1>2, <1>3, <1>4

\* So does everything a statement touches.
LEMMA SureReaches ==
  ASSUME Readings, schema \in SUBSET Rows, NEW s \in Statements, Sure(s)
  PROVE  /\ \A k \in s.reads : Reaches(k, Found("read", Reports(s)))
         /\ \A k \in s.writes : Reaches(k, Found("write", Reports(s)))
<1>. DEFINE R == Found("read", Reports(s))
            W == Found("write", Reports(s))
<1>1. R = {Means(k) : k \in s.reads} /\ W = {Means(k) : k \in s.writes}
  BY FoundIsMeant
<1>. HIDE DEF R, W
<1>2. ASSUME NEW k \in s.reads PROVE Reaches(k, R)
  <2>1. k \in Listed(schema) /\ Readable(k)
    BY StatementNames
  <2>2. /\ Covered("read", k, Bare(s, k)) /\ Bare(s, k) \in BOOLEAN
        /\ Bare(s, k) => Listed(schema) \subseteq Listed(taken)
    BY SureReads
  <2>3. Means(k) \in R
    BY <1>1
  <2>. QED
    BY <2>1, <2>2, <2>3, CoveredReaches
<1>3. ASSUME NEW k \in s.writes PROVE Reaches(k, W)
  <2>1. k \in Listed(schema) /\ Writable(k)
    BY StatementNames
  <2>2. Readable(k)
    BY <2>1, KeysHaveTypes DEF Readable, Writable, Is, Readings, PossibleSchema
  <2>3. Covered("write", k, FALSE)
    BY SureWrites
  <2>4. Means(k) \in W
    BY <1>1
  <2>. QED
    BY <2>1, <2>2, <2>3, <2>4, CoveredReaches
<1>. QED
  BY <1>2, <1>3 DEF R, W

\* The properties follow from the invariant.
LEMMA AnswersReach == ASSUME IInv PROVE ChangesReachTheAnswer
<1>1. Readings /\ schema \in SUBSET Rows
  BY DEF IInv, TypeOK
<1>2. SUFFICES ASSUME phase = "return", answer.kind \in {"complete", "none"},
                      stmt.odd = "bare" => Listed(schema) \subseteq Listed(taken)
               PROVE  /\ \A k \in stmt.reads : Reaches(k, answer.reads)
                      /\ \A k \in stmt.writes : Reaches(k, answer.writes)
  BY DEF ChangesReachTheAnswer, Answered
<1>3. /\ stmt \in Statements
      /\ answer.reads = Found("read", Reports(stmt)) /\ answer.writes = Found("write", Reports(stmt))
      /\ Caveats(Reports(stmt)) = {}
  BY <1>2 DEF IInv, ExtractionInv
<1>4. Sure(stmt)
  BY <1>2, <1>3 DEF Sure
<1>. QED
  BY <1>1, <1>3, <1>4, SureReaches

\* With a map of the schema as it is, every name a change event gives to what the
\* statement touched resolves to a member of the answer.
CurrentMapMissesNothing ==
  (Answered /\ answer.kind \in {"complete", "none"} /\ schema = taken)
    => /\ \A k \in stmt.reads : \A e \in EventsNaming(k) : Ref(e) \in answer.reads
       /\ \A k \in stmt.writes : \A e \in EventsNaming(k) : Ref(e) \in answer.writes

\* No change event names what such a map does not know.
LEMMA CurrentMapsAreNotOld ==
  ASSUME Readings, schema = taken, NEW k, NEW found, Reaches(k, found), NEW e \in EventsNaming(k)
  PROVE  Ref(e) \in found
<1>1. SUFFICES ASSUME KnownToBeOld(k, e) PROVE FALSE
  BY DEF Reaches
<1>2. e \in KeysOfType(taken, "shadow") /\ Kind(e) = "unknown"
  BY <1>1 DEF KnownToBeOld, Is
<1>3. Kind(e) = "shadow"
  BY <1>2, ShadowResolves, Fields DEF Readings, Kind
<1>. QED
  BY <1>2, <1>3

\* So an answer without a caveat has everything, without exception.
LEMMA CurrentMapsSuffice == ASSUME IInv PROVE CurrentMapMissesNothing
<1>1. SUFFICES ASSUME Answered, answer.kind \in {"complete", "none"}, schema = taken
               PROVE  /\ \A k \in stmt.reads : \A e \in EventsNaming(k) : Ref(e) \in answer.reads
                      /\ \A k \in stmt.writes : \A e \in EventsNaming(k) : Ref(e) \in answer.writes
  BY DEF CurrentMapMissesNothing
<1>2. /\ \A k \in stmt.reads : Reaches(k, answer.reads)
      /\ \A k \in stmt.writes : Reaches(k, answer.writes)
  BY <1>1, AnswersReach DEF ChangesReachTheAnswer
<1>3. Readings
  BY DEF IInv
<1>. QED
  BY <1>1, <1>2, <1>3, CurrentMapsAreNotOld

\* An answer of either kind is what the statement means, where its names were told apart.
LEMMA AnswersMean == ASSUME IInv PROVE NothingForeign
<1>1. Readings /\ schema \in SUBSET Rows
  BY DEF IInv, TypeOK
<1>2. SUFFICES ASSUME phase = "return", answer.kind \in {"complete", "unknown"},
                      schema # taken => stmt.odd # "bare",
                      answer.limits \intersect {"ambiguous", "unseen"} = {}
               PROVE  /\ answer.reads = {Means(k) : k \in stmt.reads}
                      /\ answer.writes = {Means(k) : k \in stmt.writes}
  BY DEF NothingForeign, Answered
<1>3. /\ stmt \in Statements
      /\ answer.reads = Found("read", Reports(stmt)) /\ answer.writes = Found("write", Reports(stmt))
      /\ Caveats(Reports(stmt)) \subseteq answer.limits
  BY <1>2 DEF IInv, ExtractionInv
<1>4. stmt.odd = "bare" => Listed(schema) \subseteq Listed(taken)
  BY <1>2
<1>5. Sure(stmt)
  BY <1>2, <1>3, <1>4 DEF Sure
<1>. QED
  BY <1>1, <1>3, <1>5, FoundIsMeant

-----------------------------------------------------------------------------
(* Types of what is gathered.                                                  *)

\* The schemas resolveAccess looks in.
LEMMA SchemasForTyped ==
  ASSUME Readings, NEW a \in Access
  PROVE  SchemasFor(a) \subseteq Schemas
<1>1. PICK s \in Schemas, n \in Names : a.key = <<s, n>>
  BY DEF Access, Keys
<1>2. schemasContaining(map, n) \subseteq Schemas
  BY DEF schemasContaining, MapOf, Readings
<1>. QED
  BY <1>1, <1>2, SchemasAssumption DEF SchemasFor

\* A key resolves to a name, unless it is a view or a shadow without an owner.
LEMMA CanonicalTyped ==
  ASSUME Readings, NEW k \in Keys, Kind(k) # "view"
  PROVE  resolveTable(map, k).canonical \in Names
<1>. USE DEF Readings
<1>0. k[2] \in Names
  BY DEF Keys
<1>1. CASE k \notin Listed(taken)
  BY <1>0, <1>1, UnlistedResolves, Fields
<1>2. ASSUME NEW t \in {"table", "virtual"}, k \in KeysOfType(taken, t)
      PROVE  resolveTable(map, k).canonical \in Names
  BY <1>0, <1>2, PlainResolves, Fields
<1>3. CASE k \in KeysOfType(taken, "shadow")
  <2>1. resolveTable(map, k).canonical = OwnerOf[k[2]]
    BY <1>3, ShadowResolves, Fields
  <2>2. OwnerKey(k) \in KeysOfType(taken, "virtual")
    BY <1>3, ShadowsAreOwned DEF ClaimsOwner
  <2>. DEFINE o == OwnerKey(k)
  <2>3. o[2] = OwnerOf[k[2]]
    BY DEF OwnerKey
  <2>. HIDE DEF o
  <2>4. o \in Listed(taken)
    BY <2>2, KeysHaveTypes DEF PossibleSchema, o
  <2>5. o[2] \in Names
    BY <2>4, ListedKeys DEF PossibleSchema
  <2>. QED
    BY <2>1, <2>3, <2>5
<1>4. CASE k \in KeysOfType(taken, "view")
  BY <1>4, ViewResolves, Fields DEF Kind
<1>. QED
  BY <1>1, <1>2, <1>3, <1>4, FourTypes

\* What an access adds are keys.
LEMMA RefsTyped ==
  ASSUME Readings, NEW a \in Access
  PROVE  RefsOf(a) \subseteq Keys
<1>1. PICK n \in Names : a.key[2] = n
  BY DEF Access, Keys
<1>2. ASSUME NEW x \in RefsOf(a) PROVE x \in Keys
  <2>1. PICK k \in Candidates(a) : Kind(k) # "view" /\ x = <<k[1], resolveTable(map, k).canonical>>
    BY <1>2 DEF RefsOf
  <2>2. PICK s \in SchemasFor(a) : k = <<s, n>>
    BY <2>1, <1>1 DEF Candidates
  <2>3. s \in Schemas /\ k \in Keys /\ k[1] = s
    BY <2>2, SchemasForTyped DEF Keys
  <2>4. resolveTable(map, k).canonical \in Names
    BY <2>1, <2>3, CanonicalTyped
  <2>. QED
    BY <2>1, <2>3, <2>4 DEF Keys
<1>. QED
  BY <1>2

\* What it says of itself are caveats.
LEMMA NotedTyped == \A a : Noted(a) \subseteq Limits
BY DEF Noted, LimitsOf, Limits

\* SQLite reports keys of the schema, and of the bodies of its views.
LEMMA OfTyped ==
  ASSUME NEW action \in Actions, NEW k \in Keys, NEW bare \in BOOLEAN
  PROVE  Of(action, k, bare) \in Access
BY DEF Of, Access

\* The accesses a name is reported as.
LEMMA TouchTyped ==
  ASSUME Readings, schema \in SUBSET Rows, NEW action \in Actions, NEW k \in Listed(schema), NEW bare \in BOOLEAN
  PROVE  Touch(action, k, bare) \subseteq Access
<1>1. k \in Keys /\ k[1] \in Schemas
  BY ListedKeys DEF Readings, PossibleSchema
<1>2. Of(action, k, bare) \in Access
  BY <1>1, OfTyped
<1>3. ASSUME Is(k, "view") PROVE Of(action, BodyKey(k), FALSE) \in Access
  <2>1. k[2] \in DOMAIN BodyOf
    BY <1>3 DEF Is, Readings, PossibleSchema
  <2>2. BodyKey(k) \in Keys
    BY <1>1, <2>1, BodyAssumption DEF BodyKey, Keys
  <2>. QED
    BY <2>2, OfTyped
<1>. QED
  BY <1>2, <1>3, TouchIs

\* The accesses of a statement.
LEMMA ReportsTyped ==
  ASSUME Readings, schema \in SUBSET Rows, NEW s \in Statements
  PROVE  Reports(s) \subseteq Access
<1>1. ASSUME NEW k \in s.reads PROVE Touch("read", k, Bare(s, k)) \subseteq Access
  <2>1. Bare(s, k) \in BOOLEAN
    BY DEF Bare, MayBeBare
  <2>. QED
    BY <2>1, StatementNames, TouchTyped DEF Actions
<1>2. ASSUME NEW k \in s.writes PROVE Touch("write", k, FALSE) \subseteq Access
  BY StatementNames, TouchTyped DEF Actions
<1>3. ASSUME NEW k \in Listed(schema) PROVE [action |-> "other", key |-> k, bare |-> FALSE] \in Access
  <2>1. k \in Keys
    BY ListedKeys DEF Readings, PossibleSchema
  <2>. QED
    BY <2>1 DEF Access, Actions
<1>. DEFINE R == UNION {Touch("read", k, Bare(s, k)) : k \in s.reads}
            W == UNION {Touch("write", k, FALSE) : k \in s.writes}
            O == IF s.odd = "ddl" THEN {[action |-> "other", key |-> k, bare |-> FALSE] : k \in Listed(schema)}
                                  ELSE {}
<1>4. Reports(s) = R \cup W \cup O
  BY DEF Reports
<1>5. R \subseteq Access
  BY <1>1
<1>6. W \subseteq Access
  BY <1>2
<1>7. O \subseteq Access
  BY <1>3
<1>. HIDE DEF R, W, O
<1>. QED
  BY <1>4, <1>5, <1>6, <1>7

\* What is found in a set of accesses are keys.
LEMMA FoundTyped ==
  ASSUME Readings, NEW heard \in SUBSET Access, NEW action
  PROVE  Found(action, heard) \subseteq Keys
BY RefsTyped DEF Found

\* What is said of them are caveats.
LEMMA CaveatsTyped ==
  ASSUME NEW heard
  PROVE  Caveats(heard) \subseteq Limits
BY NotedTyped DEF Caveats

\* One access more.
LEMMA FoundGrows ==
  ASSUME NEW heard, NEW a, NEW action
  PROVE  Found(action, heard \cup {a})
           = Found(action, heard) \cup (IF a.action = action THEN RefsOf(a) ELSE {})
BY DEF Found

\* One access more brings its own caveats and no others.
LEMMA CaveatsGrow ==
  ASSUME NEW heard, NEW a
  PROVE  Caveats(heard \cup {a}) = Caveats(heard) \cup Noted(a)
BY DEF Caveats

\* Before anything is heard.
LEMMA NothingHeard ==
  Found("read", {}) = {} /\ Found("write", {}) = {} /\ Caveats({}) = {}
BY DEF Found, Caveats

-----------------------------------------------------------------------------
(* While the schema and the map stand still.                                   *)

\* An access resolves as before.
LEMMA SameResolution ==
  ASSUME UNCHANGED <<schema, map>>, NEW a
  PROVE  RefsOf(a)' = RefsOf(a) /\ Noted(a)' = Noted(a)
BY DEF RefsOf, Noted, LimitsOf, Candidates, SchemasFor, Kind

\* So does a set of accesses.
LEMMA SameFound ==
  ASSUME UNCHANGED <<schema, map>>, NEW heard, NEW action
  PROVE  Found(action, heard)' = Found(action, heard) /\ Caveats(heard)' = Caveats(heard)
<1>1. {RefsOf(a)' : a \in {x \in heard : x.action = action}} = {RefsOf(a) : a \in {x \in heard : x.action = action}}
  BY SameResolution
<1>2. {Noted(a)' : a \in heard} = {Noted(a) : a \in heard}
  BY SameResolution
<1>. QED
  BY <1>1, <1>2 DEF Found, Caveats

\* A caller may pass the same statements as before.
LEMMA SameStatements ==
  ASSUME UNCHANGED schema
  PROVE  Statements' = Statements
BY DEF Statements, Readable, Writable, Is, BodyKey, Oddities, Tails

\* SQLite reports the same of a statement.
LEMMA SameReports ==
  ASSUME UNCHANGED schema, NEW s
  PROVE  Reports(s)' = Reports(s)
BY DEF Reports, Touch, Is, BodyKey, Bare, MayBeBare

\* What is known of the two readings stays known.
LEMMA SameReadings ==
  ASSUME Readings, UNCHANGED <<schema, taken, map>>
  PROVE  Readings'
BY DEF Readings

\* What SQLite will report of the statement under way.
LEMMA ReportsNext ==
  ASSUME UNCHANGED schema, NEW s, stmt' = s
  PROVE  Reports(stmt)' = Reports(s)
BY DEF Reports, Touch, Is, BodyKey, Bare, MayBeBare

\* The parts of ExtractionInv in the next state, in terms of this one.
LEMMA FoundNext ==
  ASSUME UNCHANGED <<schema, map>>, NEW s, stmt' = s, NEW action
  PROVE  /\ Found(action, Reports(stmt))' = Found(action, Reports(s))
         /\ Found(action, Reports(stmt) \ left)' = Found(action, Reports(s) \ left')
<1>1. Reports(stmt)' = Reports(s)
  BY ReportsNext
<1>2. PICK L : L = left'
  OBVIOUS
<1>3. Found(action, Reports(stmt))' = UNION {RefsOf(a)' : a \in {x \in Reports(s) : x.action = action}}
  BY <1>1 DEF Found
<1>4. Found(action, Reports(stmt) \ left)' = UNION {RefsOf(a)' : a \in {x \in Reports(s) \ L : x.action = action}}
  BY <1>1, <1>2 DEF Found
<1>5. {RefsOf(a)' : a \in {x \in Reports(s) : x.action = action}} = {RefsOf(a) : a \in {x \in Reports(s) : x.action = action}}
  BY SameResolution
<1>6. {RefsOf(a)' : a \in {x \in Reports(s) \ L : x.action = action}} = {RefsOf(a) : a \in {x \in Reports(s) \ L : x.action = action}}
  BY SameResolution
<1>. QED
  BY <1>2, <1>3, <1>4, <1>5, <1>6 DEF Found

\* The caveats, likewise.
LEMMA CaveatsNext ==
  ASSUME UNCHANGED <<schema, map>>, NEW s, stmt' = s
  PROVE  /\ Caveats(Reports(stmt))' = Caveats(Reports(s))
         /\ Caveats(Reports(stmt) \ left)' = Caveats(Reports(s) \ left')
<1>1. Reports(stmt)' = Reports(s)
  BY ReportsNext
<1>2. PICK L : L = left'
  OBVIOUS
<1>3. Caveats(Reports(stmt))' = UNION {Noted(a)' : a \in Reports(s)}
  BY <1>1 DEF Caveats
<1>4. Caveats(Reports(stmt) \ left)' = UNION {Noted(a)' : a \in Reports(s) \ L}
  BY <1>1, <1>2 DEF Caveats
<1>5. {Noted(a)' : a \in Reports(s)} = {Noted(a) : a \in Reports(s)}
  BY SameResolution
<1>6. {Noted(a)' : a \in Reports(s) \ L} = {Noted(a) : a \in Reports(s) \ L}
  BY SameResolution
<1>. QED
  BY <1>2, <1>3, <1>4, <1>5, <1>6 DEF Caveats

\* What one phase knows, as it is established in the next state.
LEMMA ProbeNext ==
  ASSUME UNCHANGED <<schema, map>>, NEW s \in Statements, stmt' = s, phase' = "probe",
         left' = Reports(s), reads' = {}, writes' = {}, limits' = {}
  PROVE  ExtractionInv'
<1>1. (stmt \in Statements)'
  BY SameStatements
<1>2. (left = Reports(stmt))'
  BY ReportsNext
<1>3. Gathered({})'
  BY SameFound, NothingHeard DEF Gathered
<1>. QED
  BY <1>1, <1>2, <1>3 DEF ExtractionInv

\* While it compiles: what has been reported so far.
LEMMA CompileNext ==
  ASSUME UNCHANGED <<schema, map>>, NEW s \in Statements, stmt' = s, phase' = "compile",
         installed', left' \subseteq Reports(s),
         reads' = Found("read", Reports(s) \ left'), writes' = Found("write", Reports(s) \ left'),
         limits' = Caveats(Reports(s) \ left')
  PROVE  ExtractionInv'
<1>1. (stmt \in Statements)'
  BY SameStatements
<1>2. (left \subseteq Reports(stmt))'
  BY ReportsNext
<1>3. Gathered(Reports(stmt) \ left)'
  BY FoundNext, CaveatsNext DEF Gathered
<1>. QED
  BY <1>1, <1>2, <1>3 DEF ExtractionInv

\* While the tail is read: all that was reported.
LEMMA TailNext ==
  ASSUME UNCHANGED <<schema, map>>, NEW s \in Statements, stmt' = s, phase' = "tail",
         reads' = Found("read", Reports(s)), writes' = Found("write", Reports(s)),
         limits' = Caveats(Reports(s))
  PROVE  ExtractionInv'
<1>1. (stmt \in Statements)'
  BY SameStatements
<1>2. Gathered(Reports(stmt))'
  BY FoundNext, CaveatsNext DEF Gathered
<1>. QED
  BY <1>1, <1>2 DEF ExtractionInv

\* When it returns: the answer and the caveat of the tail.
LEMMA ReturnNext ==
  ASSUME UNCHANGED <<schema, map>>, NEW s \in Statements, stmt' = s, phase' = "return",
         answer'.kind \in {"complete", "unknown", "none"} =>
           /\ answer'.reads = Found("read", Reports(s))
           /\ answer'.writes = Found("write", Reports(s))
           /\ answer'.limits = Caveats(Reports(s)) \cup (IF TailOf(s) = "none" THEN {} ELSE {"tail"})
           /\ answer'.kind # "unknown" => answer'.limits = {}
  PROVE  ExtractionInv'
<1>1. (stmt \in Statements)'
  BY SameStatements
<1>2. TailOf(stmt)' = TailOf(s)
  BY DEF TailOf, Tails
<1>3. /\ Found("read", Reports(stmt))' = Found("read", Reports(s))
      /\ Found("write", Reports(stmt))' = Found("write", Reports(s))
      /\ Caveats(Reports(stmt))' = Caveats(Reports(s))
  BY FoundNext, CaveatsNext
<1>. QED
  BY <1>1, <1>2, <1>3 DEF ExtractionInv

\* Between extractions there is nothing to know.
LEMMA IdleNext == ASSUME phase' = "idle" PROVE ExtractionInv'
BY DEF ExtractionInv

-----------------------------------------------------------------------------
(* The steps.                                                                  *)

\* The map is captured from the schema as it is.
LEMMA InitIInv == ASSUME Init PROVE IInv
<1>1. schema \in SUBSET Rows /\ PossibleSchema(schema)
  BY StartsAssumption DEF Init
<1>2. TypeOK
  BY <1>1 DEF Init, TypeOK, PossibleSchema, Nothing, Kinds
<1>3. Readings
  BY <1>1 DEF Init, Readings, PossibleSchema
<1>4. ExtractionInv
  BY DEF Init, ExtractionInv
<1>. QED
  BY <1>2, <1>3, <1>4 DEF IInv

\* What every action but ChangeSchema leaves alone.
LEMMA StillReadings ==
  ASSUME IInv, UNCHANGED <<schema, taken, map>>
  PROVE  Readings' /\ (schema \subseteq Rows /\ IsListing(schema) /\ taken \subseteq Rows)'
<1>1. (schema \subseteq Rows /\ IsListing(schema) /\ taken \subseteq Rows)'
  BY DEF IInv, TypeOK
<1>. QED
  BY <1>1, SameReadings DEF IInv

\* The extraction begins with nothing gathered.
LEMMA BeginStep == ASSUME IInv, Begin PROVE IInv'
<1>1. PICK s \in Statements : stmt' = s /\ left' = Reports(s)
  BY DEF Begin
<1>2. Readings' /\ (schema \subseteq Rows /\ IsListing(schema) /\ taken \subseteq Rows)'
  BY StillReadings DEF Begin
<1>3. left' \subseteq Access
  BY <1>1, ReportsTyped DEF IInv, TypeOK
<1>4. TypeOK'
  BY <1>2, <1>3 DEF Begin, TypeOK, Nothing, Kinds
<1>5. ExtractionInv'
  BY <1>1, ProbeNext DEF Begin
<1>. QED
  BY <1>2, <1>4, <1>5 DEF IInv

\* The probe starts the capture, or the extraction fails without an answer.
LEMMA ProbeStep == ASSUME IInv, Probe PROVE IInv'
<1>1. PICK s : s = stmt
  OBVIOUS
<1>2. Readings' /\ (schema \subseteq Rows /\ IsListing(schema) /\ taken \subseteq Rows)'
  BY StillReadings DEF Probe
<1>3. s \in Statements /\ stmt' = s
  BY <1>1 DEF Probe, IInv, ExtractionInv
<1>4. left' = Reports(s) /\ reads' = {} /\ writes' = {} /\ limits' = {}
  BY <1>1, NothingHeard DEF Probe, IInv, ExtractionInv, Gathered
<1>5. CASE installed
  <2>1. phase' = "compile" /\ capture' = TRUE /\ answer' = answer
    BY <1>5 DEF Probe
  <2>2. TypeOK'
    BY <1>2, <2>1 DEF Probe, IInv, TypeOK, installed
  <2>3. Reports(s) \ left' = {}
    BY <1>4
  <2>4. installed'
    BY <1>5 DEF Probe, installed
  <2>5. ExtractionInv'
    BY <1>3, <1>4, <2>1, <2>3, <2>4, NothingHeard, CompileNext DEF Probe
  <2>. QED
    BY <1>2, <2>2, <2>5 DEF IInv
<1>6. CASE ~installed
  <2>1. phase' = "return" /\ capture' = capture /\ answer' = [Nothing EXCEPT !.kind = "error"]
    BY <1>6 DEF Probe, Answer
  <2>2. answer'.kind = "error"
    BY <2>1 DEF Nothing
  <2>3. TypeOK'
    BY <1>2, <2>1, <2>2 DEF Probe, IInv, TypeOK, installed, Kinds
  <2>4. ExtractionInv'
    BY <1>3, <2>1, <2>2, ReturnNext DEF Probe
  <2>. QED
    BY <1>2, <2>3, <2>4 DEF IInv
<1>. QED
  BY <1>5, <1>6

\* One access of the statement: what it adds joins what has been gathered.
LEMMA ReportStep == ASSUME IInv, Report PROVE IInv'
<1>1. PICK s : s = stmt
  OBVIOUS
<1>2. Readings' /\ (schema \subseteq Rows /\ IsListing(schema) /\ taken \subseteq Rows)'
  BY StillReadings DEF Report
<1>3. s \in Statements /\ stmt' = s /\ left \subseteq Reports(s) /\ phase' = "compile"
  BY <1>1 DEF Report, IInv, ExtractionInv
<1>4. PICK H : H = Reports(s) \ left
  OBVIOUS
<1>5. installed /\ reads = Found("read", H) /\ writes = Found("write", H) /\ limits = Caveats(H)
  BY <1>1, <1>4 DEF Report, IInv, ExtractionInv, Gathered
<1>6. PICK a \in left : left' = left \ {a} /\ Observe(a)
  BY <1>5 DEF Report
<1>7. capture /\ capture' = capture
  BY <1>6 DEF Report, Observe, IInv, TypeOK
<1>8. limits' = limits \cup Noted(a)
  BY <1>6, <1>7 DEF Observe, Noted
<1>9. reads' = reads \cup (IF a.action = "read" THEN RefsOf(a) ELSE {})
  BY <1>6, <1>7 DEF Observe
<1>10. writes' = writes \cup (IF a.action = "write" THEN RefsOf(a) ELSE {})
  BY <1>6, <1>7 DEF Observe
<1>11. Reports(s) \ left' = H \cup {a}
  BY <1>3, <1>4, <1>6
<1>12. /\ reads' = Found("read", Reports(s) \ left') /\ writes' = Found("write", Reports(s) \ left')
       /\ limits' = Caveats(Reports(s) \ left')
  <2>1. Found("read", H \cup {a}) = reads'
    BY <1>5, <1>9, FoundGrows
  <2>2. Found("write", H \cup {a}) = writes'
    BY <1>5, <1>10, FoundGrows
  <2>3. Caveats(H \cup {a}) = limits'
    BY <1>5, <1>8, CaveatsGrow
  <2>. QED
    BY <1>11, <2>1, <2>2, <2>3
<1>13. a \in Access
  BY DEF IInv, TypeOK
<1>14. RefsOf(a) \subseteq Keys /\ Noted(a) \subseteq Limits
  BY <1>13, RefsTyped, NotedTyped DEF IInv
<1>15. anyAuthorize' = TRUE
  BY <1>6 DEF Observe
<1>16. (left \subseteq Access /\ reads \subseteq Keys /\ writes \subseteq Keys /\ limits \subseteq Limits)'
  BY <1>6, <1>8, <1>9, <1>10, <1>14 DEF IInv, TypeOK
<1>17. TypeOK'
  BY <1>2, <1>3, <1>7, <1>15, <1>16 DEF Report, IInv, TypeOK
<1>18. installed'
  BY <1>5 DEF Report, installed
<1>19. left' \subseteq Reports(s)
  BY <1>3, <1>6
<1>20. ExtractionInv'
  BY <1>3, <1>12, <1>18, <1>19, CompileNext DEF Report
<1>. QED
  BY <1>2, <1>17, <1>20 DEF IInv

\* A compile that fails leaves no answer.
LEMMA CompileFailsStep == ASSUME IInv, CompileFails PROVE IInv'
<1>1. PICK s : s = stmt
  OBVIOUS
<1>2. Readings' /\ (schema \subseteq Rows /\ IsListing(schema) /\ taken \subseteq Rows)'
  BY StillReadings DEF CompileFails
<1>3. s \in Statements /\ stmt' = s
  BY <1>1 DEF CompileFails, IInv, ExtractionInv
<1>4. answer' = [Nothing EXCEPT !.kind = "failed"]
  BY DEF CompileFails, Answer
<1>5. answer'.kind = "failed"
  BY <1>4 DEF Nothing
<1>6. TypeOK'
  BY <1>2, <1>5 DEF CompileFails, IInv, TypeOK, Kinds
<1>7. ExtractionInv'
  BY <1>3, <1>5, ReturnNext DEF CompileFails
<1>. QED
  BY <1>2, <1>6, <1>7 DEF IInv

\* The whole statement has been heard: what was gathered is all it will be.
LEMMA CompiledStep == ASSUME IInv, Compiled PROVE IInv'
<1>1. PICK s : s = stmt
  OBVIOUS
<1>2. Readings' /\ (schema \subseteq Rows /\ IsListing(schema) /\ taken \subseteq Rows)'
  BY StillReadings DEF Compiled
<1>3. s \in Statements /\ stmt' = s
  BY <1>1 DEF Compiled, IInv, ExtractionInv
<1>4. Gathered(Reports(s) \ {})
  BY <1>1 DEF Compiled, IInv, ExtractionInv
<1>5. Reports(s) \ {} = Reports(s)
  OBVIOUS
<1>6. reads' = Found("read", Reports(s)) /\ writes' = Found("write", Reports(s)) /\ limits' = Caveats(Reports(s))
  BY <1>4, <1>5 DEF Compiled, Gathered
<1>7. left' \subseteq Access
  <2>1. PICK b \in {{}} \cup {{k} : k \in Listed(schema)} :
          left' = IF TailOf(stmt) = "statement" THEN UNION {Touch("read", k, FALSE) : k \in b} ELSE {}
    BY DEF Compiled
  <2>2. ASSUME NEW k \in b PROVE Touch("read", k, FALSE) \subseteq Access
    <3>1. k \in Listed(schema)
      BY <2>1
    <3>. QED
      BY <3>1, TouchTyped DEF IInv, TypeOK, Actions
  <2>3. UNION {Touch("read", k, FALSE) : k \in b} \subseteq Access
    BY <2>2
  <2>. QED
    BY <2>1, <2>3
<1>8. TypeOK'
  BY <1>2, <1>7 DEF Compiled, IInv, TypeOK
<1>9. ExtractionInv'
  BY <1>3, <1>6, TailNext DEF Compiled
<1>. QED
  BY <1>2, <1>8, <1>9 DEF IInv

\* What follows the statement is heard and adds nothing.
LEMMA TailReportsStep == ASSUME IInv, TailReports PROVE IInv'
<1>1. PICK s : s = stmt
  OBVIOUS
<1>2. Readings' /\ (schema \subseteq Rows /\ IsListing(schema) /\ taken \subseteq Rows)'
  BY StillReadings DEF TailReports
<1>3. s \in Statements /\ stmt' = s
  BY <1>1 DEF TailReports, IInv, ExtractionInv
<1>4. reads = Found("read", Reports(s)) /\ writes = Found("write", Reports(s)) /\ limits = Caveats(Reports(s))
  BY <1>1 DEF TailReports, IInv, ExtractionInv, Gathered
<1>5. ~capture
  BY DEF TailReports, IInv, TypeOK
<1>6. reads' = reads /\ writes' = writes /\ limits' = limits /\ capture' = capture /\ anyAuthorize' = TRUE
  BY <1>5 DEF TailReports, Observe
<1>7. TypeOK'
  BY <1>2, <1>6 DEF TailReports, IInv, TypeOK
<1>8. reads' = Found("read", Reports(s)) /\ writes' = Found("write", Reports(s)) /\ limits' = Caveats(Reports(s))
  BY <1>4, <1>6
<1>9. ExtractionInv'
  BY <1>3, <1>8, TailNext DEF TailReports
<1>. QED
  BY <1>2, <1>7, <1>9 DEF IInv

\* The answer is what was gathered, with the caveat of the tail.
LEMMA TailReadStep == ASSUME IInv, TailRead PROVE IInv'
<1>1. PICK s : s = stmt
  OBVIOUS
<1>2. Readings' /\ (schema \subseteq Rows /\ IsListing(schema) /\ taken \subseteq Rows)'
  BY StillReadings DEF TailRead
<1>3. s \in Statements /\ stmt' = s
  BY <1>1 DEF TailRead, IInv, ExtractionInv
<1>4. reads = Found("read", Reports(s)) /\ writes = Found("write", Reports(s)) /\ limits = Caveats(Reports(s))
  BY <1>1 DEF TailRead, IInv, ExtractionInv, Gathered
<1>5. limits' = limits \cup (IF TailOf(s) = "none" THEN {} ELSE {"tail"})
  BY <1>1 DEF TailRead
<1>6. \/ limits' # {} /\ answer' = [kind |-> "unknown", reads |-> reads, writes |-> writes, limits |-> limits']
      \/ limits' = {} /\ reads = {} /\ writes = {} /\ answer' = Nothing
      \/ limits' = {} /\ answer' = [kind |-> "complete", reads |-> reads, writes |-> writes, limits |-> {}]
  BY DEF TailRead
<1>7. /\ answer'.reads = reads /\ answer'.writes = writes /\ answer'.limits = limits'
      /\ answer'.kind # "unknown" => answer'.limits = {}
      /\ answer'.kind \in Kinds
  BY <1>6 DEF Nothing, Kinds
<1>8. limits' \subseteq Limits
  BY <1>5 DEF IInv, TypeOK, Limits
<1>9. TypeOK'
  BY <1>2, <1>7, <1>8 DEF TailRead, IInv, TypeOK
<1>10. ExtractionInv'
  BY <1>3, <1>4, <1>5, <1>7, ReturnNext DEF TailRead
<1>. QED
  BY <1>2, <1>9, <1>10 DEF IInv

\* The return ends the subscription, unless dispose() throws.
LEMMA ReturnStep == ASSUME IInv, Return PROVE IInv'
<1>1. Readings' /\ (schema \subseteq Rows /\ IsListing(schema) /\ taken \subseteq Rows)'
  BY StillReadings DEF Return
<1>2. answer' = [Nothing EXCEPT !.kind = IF inListener THEN "lost" ELSE "none"]
  BY DEF Return, Answer
<1>3. answer'.kind = IF inListener THEN "lost" ELSE "none"
  BY <1>2 DEF Nothing
<1>4. TypeOK'
  BY <1>1, <1>3 DEF Return, NothingUnderWay, TypeOK, Kinds, inListener
<1>5. ExtractionInv'
  BY IdleNext DEF Return
<1>. QED
  BY <1>1, <1>4, <1>5 DEF IInv

\* The schema moves away from the map, and agrees with it on what both have.
LEMMA ChangeSchemaStep == ASSUME IInv, ChangeSchema PROVE IInv'
<1>1. /\ PossibleSchema(schema') /\ IsListing(schema' \cup taken)
      /\ schema \subseteq Rows /\ taken' = taken /\ map' = map
  BY DEF ChangeSchema, IInv, TypeOK
<1>2. \/ \E k \in Keys \ Listed(schema), t \in Types : schema' = schema \cup {Row(k[1], k[2], t)}
      \/ \E r \in schema : schema' = schema \ {r}
  BY DEF ChangeSchema
<1>3. schema' \subseteq Rows
  <2>1. ASSUME NEW k \in Keys, NEW t \in Types PROVE Row(k[1], k[2], t) \in Rows
    BY DEF Keys, Row, Rows
  <2>. QED
    BY <1>1, <1>2, <2>1
<1>4. Readings'
  BY <1>1 DEF IInv, Readings
<1>5. TypeOK'
  BY <1>1, <1>3 DEF ChangeSchema, extractor, IInv, TypeOK, PossibleSchema
<1>6. ExtractionInv'
  BY IdleNext DEF ChangeSchema
<1>. QED
  BY <1>4, <1>5, <1>6 DEF IInv

\* A stuttering step.
LEMMA StutterStep == ASSUME IInv, UNCHANGED vars PROVE IInv'
<1>1. Readings' /\ (schema \subseteq Rows /\ IsListing(schema) /\ taken \subseteq Rows)'
  BY StillReadings DEF vars
<1>2. TypeOK'
  BY <1>1 DEF vars, extractor, IInv, TypeOK
<1>3. PICK s : s = stmt
  OBVIOUS
<1>4. stmt' = s /\ left' = left /\ answer' = answer /\ phase' = phase
  BY <1>3 DEF vars
<1>5. UNCHANGED <<schema, map>> /\ reads' = reads /\ writes' = writes /\ limits' = limits
  BY DEF vars, extractor
<1>6. ExtractionInv'
  <2>1. phase # "idle" => s \in Statements
    BY <1>3 DEF IInv, ExtractionInv
  <2>2. CASE phase = "idle"
    BY <2>2, <1>4, IdleNext
  <2>3. CASE phase = "probe"
    <3>1. left' = Reports(s) /\ reads' = {} /\ writes' = {} /\ limits' = {}
      BY <2>3, <1>3, <1>4, <1>5, NothingHeard DEF IInv, ExtractionInv, Gathered
    <3>. QED
      BY <2>1, <2>3, <3>1, <1>4, <1>5, ProbeNext
  <2>4. CASE phase = "compile"
    <3>1. /\ left' \subseteq Reports(s) /\ reads' = Found("read", Reports(s) \ left')
          /\ writes' = Found("write", Reports(s) \ left') /\ limits' = Caveats(Reports(s) \ left')
      BY <2>4, <1>3, <1>4, <1>5 DEF IInv, ExtractionInv, Gathered
    <3>2. installed'
      BY <2>4, <1>3, <1>4 DEF IInv, ExtractionInv, installed
    <3>. QED
      BY <2>1, <2>4, <3>1, <3>2, <1>4, <1>5, CompileNext
  <2>5. CASE phase = "tail"
    <3>1. /\ reads' = Found("read", Reports(s)) /\ writes' = Found("write", Reports(s))
          /\ limits' = Caveats(Reports(s))
      BY <2>5, <1>3, <1>5 DEF IInv, ExtractionInv, Gathered
    <3>. QED
      BY <2>1, <2>5, <3>1, <1>4, <1>5, TailNext
  <2>6. CASE phase = "return"
    <3>1. answer'.kind \in {"complete", "unknown", "none"} =>
           /\ answer'.reads = Found("read", Reports(s))
           /\ answer'.writes = Found("write", Reports(s))
           /\ answer'.limits = Caveats(Reports(s)) \cup (IF TailOf(s) = "none" THEN {} ELSE {"tail"})
           /\ answer'.kind # "unknown" => answer'.limits = {}
      BY <2>6, <1>3, <1>4 DEF IInv, ExtractionInv
    <3>. QED
      BY <2>1, <2>6, <3>1, <1>4, <1>5, ReturnNext
  <2>. QED
    BY <2>2, <2>3, <2>4, <2>5, <2>6 DEF IInv, TypeOK
<1>. QED
  BY <1>1, <1>2, <1>6 DEF IInv

\* Every step keeps the invariant.
LEMMA StepIInv == ASSUME IInv, [Next]_vars PROVE IInv'
<1>1. CASE Begin
  BY <1>1, BeginStep
<1>2. CASE Probe
  BY <1>2, ProbeStep
<1>3. CASE Report
  BY <1>3, ReportStep
<1>4. CASE CompileFails
  BY <1>4, CompileFailsStep
<1>5. CASE Compiled
  BY <1>5, CompiledStep
<1>6. CASE TailReports
  BY <1>6, TailReportsStep
<1>7. CASE TailRead
  BY <1>7, TailReadStep
<1>8. CASE Return
  BY <1>8, ReturnStep
<1>9. CASE ChangeSchema
  BY <1>9, ChangeSchemaStep
<1>10. CASE UNCHANGED vars
  BY <1>10, StutterStep
<1>. QED
  BY <1>1, <1>2, <1>3, <1>4, <1>5, <1>6, <1>7, <1>8, <1>9, <1>10 DEF Next

\* What has been gathered is what has been reported, and the map and the schema agree
\* wherever both know a name.
THEOREM InvariantCorrect == Spec => []IInv
<1>1. Init => IInv
  BY InitIInv
<1>2. IInv /\ [Next]_vars => IInv'
  BY StepIInv
<1>. QED
  BY <1>1, <1>2, PTL DEF Spec

\* What the extraction holds are keys and caveats, it listens between the probe and the
\* tail and at no other time, and its subscription ends with it.
THEOREM TypeCorrect == Spec => []TypeOK
<1>1. IInv => TypeOK
  BY DEF IInv
<1>. QED
  BY <1>1, InvariantCorrect, PTL

\* An answer without a caveat misses no later change of what the statement touches.
THEOREM ChangesCorrect == Spec => []ChangesReachTheAnswer
<1>1. IInv => ChangesReachTheAnswer
  BY AnswersReach
<1>. QED
  BY <1>1, InvariantCorrect, PTL

\* With a map of the schema as it is that has no exception: every name a change event
\* gives resolves to a member of the answer, whether it was written with its schema or not.
THEOREM CurrentMapCorrect == Spec => []CurrentMapMissesNothing
<1>1. IInv => CurrentMapMissesNothing
  BY CurrentMapsSuffice
<1>. QED
  BY <1>1, InvariantCorrect, PTL

\* An answer holds what the statement means and nothing else.
THEOREM ForeignCorrect == Spec => []NothingForeign
<1>1. IInv => NothingForeign
  BY AnswersMean
<1>. QED
  BY <1>1, InvariantCorrect, PTL

\* A shadow table maps to its virtual table exactly when that lists it, in every state.
THEOREM DirectionsCorrect == Spec => []DirectionsAgree
<1>1. IInv => DirectionsAgree
  BY ReadingsDirect DEF IInv
<1>. QED
  BY <1>1, InvariantCorrect, PTL
=============================================================================
