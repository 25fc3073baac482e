----------------------------- MODULE SchemaMap -----------------------------
(* src/schema_map.ts: a reading of PRAGMA table_list and what it answers.  A   *)
(* reading is a set of rows; a map is the record its constructor builds.       *)
EXTENDS Naturals, FiniteSets

CONSTANTS Schemas,
          Names,
          OwnerOf  \* name with an underscore -> the text before its last one

Types == {"table", "view", "virtual", "shadow"}
Row(s, n, t) == [schema |-> s, name |-> n, type |-> t]
Rows == [schema : Schemas, name : Names, type : Types]

\* A listing names every pair of schema and name once.
IsListing(rows) ==
    \A r1, r2 \in rows : r1.schema = r2.schema /\ r1.name = r2.name => r1 = r2

Keys == Schemas \X Names
Listed(rows) == {<<r.schema, r.name>> : r \in rows}
TypeOf(rows, k) == (CHOOSE r \in rows : <<r.schema, r.name>> = k).type
KeysOfType(rows, t) == {<<r.schema, r.name>> : r \in {x \in rows : x.type = t}}

\* The key of the virtual table a name would belong to, in its own schema.
OwnerKey(k) == <<k[1], OwnerOf[k[2]]>>
\* Mutant: any schema will do.
ClaimsOwnerAnywhere(rows, k) ==
    k[2] \in DOMAIN OwnerOf
      /\ \E s \in Schemas : <<s, OwnerOf[k[2]]>> \in KeysOfType(rows, "virtual")
ClaimsOwner(rows, k) ==
    k[2] \in DOMAIN OwnerOf /\ OwnerKey(k) \in KeysOfType(rows, "virtual")

\* A view and a shadow without an owner have no canonical name.
Nameless == "nameless"
Resolved(kind, canonical) == [kind |-> kind, canonical |-> canonical]

Entry(rows, k) ==
    CASE TypeOf(rows, k) = "shadow" /\ ClaimsOwner(rows, k) -> Resolved("shadow", OwnerOf[k[2]])
      [] TypeOf(rows, k) = "shadow" /\ ~ClaimsOwner(rows, k) ->
            Resolved("unattributable-shadow", Nameless)
      [] TypeOf(rows, k) = "view" -> Resolved("view", Nameless)
      [] OTHER -> Resolved(TypeOf(rows, k), k[2])

\* The constructor.
MapOf(rows) ==
    [ entries |-> [k \in Listed(rows) |-> Entry(rows, k)],
      shadows |-> [k \in KeysOfType(rows, "virtual") |->
                     {x[2] : x \in {y \in KeysOfType(rows, "shadow") :
                                      ClaimsOwner(rows, y) /\ OwnerKey(y) = k}}],
      byName  |-> [n \in Names |-> {s \in Schemas : <<s, n>> \in Listed(rows)}],
      unattributable |-> {k \in KeysOfType(rows, "shadow") : ~ClaimsOwner(rows, k)},
      shadowLookalikes |-> {k \in Listed(rows) \ KeysOfType(rows, "shadow") :
                              ClaimsOwner(rows, k)} ]

resolveTable(map, k) ==
    IF k \in DOMAIN map.entries THEN map.entries[k] ELSE Resolved("unknown", k[2])

shadowsOf(map, k) == IF k \in DOMAIN map.shadows THEN map.shadows[k] ELSE {}

schemasContaining(map, n) == map.byName[n]

\* An SQLite without table_list answers with no rows, which no schema does.
CanCapture(rows) == rows # {}
=============================================================================
