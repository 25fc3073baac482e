---------------------------- MODULE SchemaWatch ----------------------------
(***************************************************************************)
(* src/schema_watch.ts: a snapshot of the schema that is read again when   *)
(* an authorizer event says the schema may change and a safe point comes.  *)
(*                                                                         *)
(* A refresh is itself a driver call on the same connection: the wrapper   *)
(* around it drains the postcommit stash before the reading is installed,  *)
(* so listeners run between the reading of the schema and the assignment   *)
(* of the snapshot.  `stack' holds the driver calls and refreshes under    *)
(* way, innermost last, as in TxEvents; two listeners are attached, the    *)
(* watch and another one that may use the connection.                      *)
(*                                                                         *)
(* A schema is the set of the names it holds; SQLite, and the part of      *)
(* attach() that feeds the watch, are modelled from what this file uses.   *)
(***************************************************************************)
EXTENDS Naturals, Sequences, FiniteSets

CONSTANTS
  Names,       \* names a statement may create or drop
  Attachable,  \* those that come and go with ATTACH and DETACH
  NoName,
  Programs,    \* the sets of uses a program may make of the watch, see below
  MaxDdl,      \* bound: changes of the schema in a behaviour
  MaxNest      \* bound: frames on the stack

\* The documented use of the watch is {}.  "ahead": the program prepares DDL and
\* runs it later.  "script": a call ends several transactions.  "midtx": it refreshes with a transaction open.  "attach": it
\* attaches and detaches.  "inhook": a hook listener asks for a refresh.
\* "callback": onRefresh throws or uses the watch.  "late": a listener that
\* uses the connection was registered before the watch.  "failing": the schema
\* cannot always be read.
AllUses ==
  {"ahead", "script", "midtx", "attach", "inhook", "callback", "late", "failing"}

ASSUME NamesAssumption == NoName \notin Names /\ Attachable \subseteq Names
ASSUME UsesAssumption == Programs \subseteq SUBSET AllUses
ASSUME WatchBoundsAssumption == MaxDdl \in Nat /\ MaxNest \in Nat

VARIABLES
  \* the connection
  catalog,   \* names the schema holds, as this connection sees it
  before,    \* names it held when the open transaction began
  tx,        \* "none", "implicit" or "explicit"
  ready,     \* DDL prepared and about to be stepped, or NoName
  kept,      \* DDL prepared ahead, or NoName
  moved,     \* the schema changed since `kept' was prepared
  queued,    \* stashed postcommits
  stack,
  \* the watch
  map, armed, tried,
  \* history
  uses,      \* what the program does; never changes
  order,     \* which listener was registered first; never changes
  version,   \* changes of the schema so far
  asks       \* per name, refreshes it caused since one that clears `tried'

connection == <<catalog, before, tx, ready, kept, moved, queued>>
watch == <<map, armed, tried>>
history == <<uses, order, version, asks>>
vars == <<connection, stack, watch, history>>

Reasons == {"ddl", "unknown-name", "manual"}

\* `at' is the listener the batch under way has reached, 3 when there is none;
\* `ended' says the call has ended a transaction; the rest is of a refresh.
Frames == [kind : {"call", "refresh"}, phase : {"sql", "drain", "callback"},
           at : 1..3, running : BOOLEAN, ended : BOOLEAN,
           reason : Reasons, asked : Names \union {NoName},
           reading : SUBSET Names]

Top == stack[Len(stack)]
Rest == SubSeq(stack, 1, Len(stack) - 1)
Frame(kind, reason, asked) ==
  [kind |-> kind, phase |-> "sql", at |-> 3, running |-> FALSE, ended |-> FALSE,
   reason |-> reason, asked |-> asked, reading |-> {}]
SetTop(frame) == stack' = Append(Rest, frame)

\* The program's own code: between calls, in the other listener, in onRefresh.
ProgramRuns ==
  stack # <<>> => \/ Top.running
                  \/ Top.phase = "callback" /\ "callback" \in uses
SqlRuns == stack # <<>> /\ Top.kind = "call" /\ Top.phase = "sql"
\* The last frame is left for the refresh a postcommit asks for.
HasRoom == Len(stack) < MaxNest - 1
CanEnd == ~Top.ended \/ "script" \in uses

-----------------------------------------------------------------------------
(* SQLite under a driver call, and what the watch observes of it.          *)

\* observe() of an authorize event.
\* Mutant: the action of the last statement decides.
AuthorizedLast(ddl) == armed' = ddl
Authorized(ddl) == armed' = (armed \/ ddl)

\* isSchemaChangingAction, for the actions that create or drop a name.
\* Mutant: the drop actions are missing from DDL_ACTIONS.
IsSchemaChangingCreatesOnly(name) == name \notin catalog
IsSchemaChanging(name) == name \in Names

BeginCall ==
  /\ ProgramRuns /\ HasRoom
  /\ stack' = Append(stack, Frame("call", "manual", NoName))
  /\ UNCHANGED <<connection, watch, history>>

\* Preparing a statement that creates the name, or drops it if it is there.
Prepare(name) ==
  /\ SqlRuns /\ ready = NoName /\ version < MaxDdl
  /\ name \in Attachable => "attach" \in uses /\ tx = "none"
  /\ ready' = name
  /\ Authorized(IsSchemaChanging(name))
  /\ UNCHANGED <<catalog, before, tx, kept, moved, queued, stack, map, tried, history>>

PrepareAhead(name) ==
  /\ "ahead" \in uses /\ SqlRuns /\ ready = NoName /\ kept = NoName
  /\ name \notin Attachable
  /\ kept' = name /\ moved' = FALSE
  /\ Authorized(IsSchemaChanging(name))
  /\ UNCHANGED <<catalog, before, tx, ready, queued, stack, map, tried, history>>

\* SQLite prepares again, and asks again, only if the schema moved meanwhile.
RunKept ==
  /\ SqlRuns /\ ready = NoName /\ kept # NoName /\ version < MaxDdl
  /\ ready' = kept /\ kept' = NoName
  /\ Authorized(moved /\ IsSchemaChanging(kept))
  /\ UNCHANGED <<catalog, before, tx, moved, queued, stack, map, tried, history>>

\* The statement does not run after all: its prepare failed.
Abandon ==
  /\ SqlRuns /\ ready # NoName
  /\ ready' = NoName
  /\ UNCHANGED <<catalog, before, tx, kept, moved, queued, stack, watch, history>>

Open(kind) == IF tx = "none" THEN tx' = kind /\ before' = catalog
              ELSE UNCHANGED <<tx, before>>

\* ATTACH and DETACH take no part in a transaction.
Execute ==
  /\ SqlRuns /\ ready # NoName
  /\ catalog' = IF ready \in catalog THEN catalog \ {ready} ELSE catalog \union {ready}
  /\ version' = version + 1
  /\ moved' = TRUE
  /\ IF ready \in Attachable THEN UNCHANGED <<tx, before>>
     ELSE (tx # "none" \/ CanEnd) /\ Open("implicit")
  /\ ready' = NoName
  /\ UNCHANGED <<kept, queued, stack, watch, uses, order, asks>>

\* BEGIN, or a statement that writes rows.
Write(kind) ==
  /\ SqlRuns /\ ready = NoName /\ tx = "none" /\ CanEnd
  /\ Open(kind)
  /\ Authorized(FALSE)
  /\ UNCHANGED <<catalog, ready, kept, moved, queued, stack, map, tried, history>>

EndTx == tx' = "none" /\ SetTop([Top EXCEPT !.ended = TRUE])

\* A commit that landed: its postcommit waits for the drain.  A transaction
\* that wrote nothing leaves none.
Commit(wrote) ==
  /\ SqlRuns /\ ready = NoName /\ tx # "none" /\ CanEnd
  /\ ~wrote => tx = "explicit" /\ catalog = before
  /\ queued' = IF wrote THEN queued + 1 ELSE queued
  /\ EndTx
  /\ UNCHANGED <<catalog, before, ready, kept, moved, watch, history>>

\* A rollback, observed at once.  The handler in attach() takes the newest
\* stashed batch for the one rolled back.
Rollback ==
  /\ SqlRuns /\ ready = NoName /\ tx # "none" /\ CanEnd
  /\ catalog' = (before \ Attachable) \union (catalog \intersect Attachable)
  /\ version' = IF catalog' = catalog THEN version ELSE version + 1
  /\ moved' = (moved \/ catalog' # catalog)
  /\ queued' = IF queued > 0 THEN queued - 1 ELSE 0
  /\ armed' = FALSE
  /\ EndTx
  /\ UNCHANGED <<before, ready, kept, map, tried, uses, order, asks>>

-----------------------------------------------------------------------------
(* Draining: each stashed postcommit goes to the two listeners in turn.    *)

EndSql ==
  /\ SqlRuns /\ ready = NoName /\ tx # "implicit"
  /\ SetTop([Top EXCEPT !.phase = "drain"])
  /\ UNCHANGED <<connection, watch, history>>

DispatchDone == Top.at = 3

TakeBatch ==
  /\ stack # <<>> /\ Top.phase = "drain" /\ DispatchDone /\ queued > 0
  /\ queued' = queued - 1
  /\ SetTop([Top EXCEPT !.at = 1])
  /\ UNCHANGED <<catalog, before, tx, ready, kept, moved, watch, history>>

ItsTurn(listener) ==
  /\ stack # <<>> /\ Top.phase = "drain" /\ ~DispatchDone /\ ~Top.running
  /\ order[Top.at] = listener
NextListener == [Top EXCEPT !.at = @ + 1, !.running = FALSE]

\* observe() of a postcommit: refreshIfArmed().
ObservePostcommit ==
  /\ ItsTurn("watch")
  /\ armed => Len(stack) < MaxNest
  /\ armed' = FALSE
  /\ LET observed == Append(Rest, NextListener)
     IN stack' = IF armed THEN Append(observed, Frame("refresh", "ddl", NoName)) ELSE observed
  /\ UNCHANGED <<connection, map, tried, history>>

OtherListener ==
  /\ ItsTurn("other")
  /\ SetTop([Top EXCEPT !.running = TRUE])
  /\ UNCHANGED <<connection, watch, history>>

OtherReturns ==
  /\ stack # <<>> /\ Top.running
  /\ SetTop(NextListener)
  /\ UNCHANGED <<connection, watch, history>>

Drained == Top.phase = "drain" /\ DispatchDone /\ queued = 0

FinishCall ==
  /\ stack # <<>> /\ Top.kind = "call" /\ Drained
  /\ stack' = Rest
  /\ UNCHANGED <<connection, watch, history>>

-----------------------------------------------------------------------------
(* The entry points of the watch, and #refresh in its three parts.         *)

MayRefresh == /\ ProgramRuns /\ HasRoom
              /\ tx = "none" \/ "midtx" \in uses
StartRefresh(reason, asked) ==
  stack' = Append(stack, Frame("refresh", reason, asked))

RefreshIfArmed ==
  /\ MayRefresh /\ armed
  /\ armed' = FALSE
  /\ StartRefresh("ddl", NoName)
  /\ UNCHANGED <<connection, map, tried, history>>

RefreshNow ==
  /\ MayRefresh
  /\ armed' = FALSE
  /\ StartRefresh("manual", NoName)
  /\ UNCHANGED <<connection, map, tried, history>>

ResolveOrRefresh(name) ==
  /\ MayRefresh /\ name \notin map \union tried
  /\ StartRefresh("unknown-name", name)
  /\ UNCHANGED <<connection, watch, history>>

\* refreshIfArmed or refreshNow asked for by a hook listener: #refresh throws.
RefusedRefresh ==
  /\ "inhook" \in uses /\ SqlRuns /\ tx # "none"
  /\ armed' = FALSE
  /\ UNCHANGED <<connection, stack, map, tried, history>>

\* captureSchemaMap reads; the wrapper of that call then drains.
ReadSchema ==
  /\ stack # <<>> /\ Top.kind = "refresh" /\ Top.phase = "sql"
  /\ SetTop([Top EXCEPT !.phase = "drain", !.reading = catalog])
  /\ UNCHANGED <<connection, watch, history>>

\* The reading fails, as when the file is locked: the exception leaves #refresh
\* before anything is assigned.
ReadFails ==
  /\ "failing" \in uses
  /\ stack # <<>> /\ Top.kind = "refresh" /\ Top.phase = "sql"
  /\ stack' = Rest
  /\ UNCHANGED <<connection, watch, history>>

\* Mutant: every refresh makes every name eligible again.
ForgetTriedAlways(reason) == tried' = {}
ForgetTried(reason) ==
  tried' = IF reason \in {"ddl", "manual"} THEN {} ELSE tried

InstallMap ==
  /\ stack # <<>> /\ Top.kind = "refresh" /\ Drained
  /\ map' = Top.reading
  /\ ForgetTried(Top.reason)
  /\ asks' = IF Top.asked # NoName THEN [asks EXCEPT ![Top.asked] = IF @ < 2 THEN @ + 1 ELSE @]
             ELSE [n \in Names |-> 0]
  /\ SetTop([Top EXCEPT !.phase = "callback"])
  /\ UNCHANGED <<connection, armed, uses, order, version>>

\* Mutant: #refresh records what it was asked, a name or none.
FinishRefreshAddsAny ==
  /\ stack # <<>> /\ Top.phase = "callback"
  /\ tried' = tried \union {Top.asked}
  /\ stack' = Rest
  /\ UNCHANGED <<connection, map, armed, history>>

\* onRefresh returns, and the name that was asked for is spent.
FinishRefresh ==
  /\ stack # <<>> /\ Top.phase = "callback"
  /\ tried' = tried \union ({Top.asked} \ {NoName})
  /\ stack' = Rest
  /\ UNCHANGED <<connection, map, armed, history>>

\* onRefresh throws, out of whichever entry point was called.
CallbackThrows ==
  /\ "callback" \in uses /\ stack # <<>> /\ Top.phase = "callback"
  /\ stack' = Rest
  /\ UNCHANGED <<connection, watch, history>>

-----------------------------------------------------------------------------
Init ==
  /\ uses \in Programs
  /\ catalog \in SUBSET Names
  /\ before = {} /\ tx = "none"
  /\ ready = NoName /\ kept = NoName /\ moved = FALSE
  /\ queued = 0 /\ stack = <<>>
  /\ map = catalog /\ armed = FALSE /\ tried = {}
  /\ order \in {<<"watch", "other">>, <<"other", "watch">>}
  /\ order[1] = "other" => "late" \in uses
  /\ version = 0
  /\ asks = [n \in Names |-> 0]

SqliteStep ==
  \/ \E name \in Names : Prepare(name) \/ PrepareAhead(name)
  \/ RunKept
  \/ Abandon
  \/ Execute
  \/ \E kind \in {"implicit", "explicit"} : Write(kind)
  \/ \E wrote \in BOOLEAN : Commit(wrote)
  \/ Rollback

DrainStep ==
  \/ EndSql
  \/ TakeBatch
  \/ ObservePostcommit
  \/ OtherListener
  \/ OtherReturns
  \/ FinishCall

WatchStep ==
  \/ RefreshIfArmed
  \/ RefreshNow
  \/ \E name \in Names : ResolveOrRefresh(name)
  \/ RefusedRefresh
  \/ ReadSchema
  \/ ReadFails
  \/ InstallMap
  \/ FinishRefresh
  \/ CallbackThrows

Next == BeginCall \/ SqliteStep \/ DrainStep \/ WatchStep

Spec == Init /\ [][Next]_vars

-----------------------------------------------------------------------------
(* Properties.                                                             *)

TypeOK ==
  /\ catalog \in SUBSET Names /\ before \in SUBSET Names /\ map \in SUBSET Names
  /\ tx \in {"none", "implicit", "explicit"}
  /\ ready \in Names \union {NoName} /\ kept \in Names \union {NoName}
  /\ moved \in BOOLEAN /\ armed \in BOOLEAN
  /\ queued \in Nat
  /\ stack \in Seq(Frames)
  /\ tried \in SUBSET Names /\ uses \in Programs
  /\ version \in Nat
  /\ asks \in [Names -> 0..2]

AtRest == stack = <<>> /\ tx = "none"

\* The uses under which the snapshot is kept current.
Kept == uses \subseteq {"callback"}

\* "Keeping a SchemaMap current when the schema changes underneath it": once
\* every call has returned and no transaction is open, a snapshot the watch
\* considers current holds exactly the names of the schema.
MapIsCurrent == Kept /\ AtRest /\ ~armed => map = catalog

DisarmsAtSafePoint ==
  armed /\ ~armed' => \/ tx # "none" /\ tx' = "none"
                      \/ Len(stack') > Len(stack)

\* "A DDL action has been seen and no safe point has been reached yet" (armed):
\* only a rollback or a refresh that really starts disarms the watch, as long as
\* no hook listener asks for a refresh.
ArmedUntilSafePoint == [][uses \intersect {"inhook"} = {} => DisarmsAtSafePoint]_vars

\* "At most one refresh per (schema, name)" until a refresh that clears the
\* record: asking for an absent name again, from anywhere but onRefresh and a
\* refresh under way, costs nothing.
OneRefreshPerName ==
  uses \intersect {"callback", "script"} = {} => \A n \in Names : asks[n] <= 1

-----------------------------------------------------------------------------
(* The inductive invariant behind them.                                    *)

OrderInv ==
  /\ order \in {<<"watch", "other">>, <<"other", "watch">>}
  /\ order[1] = "other" => "late" \in uses

\* Where a frame is: only the drain dispatches, and the program's code runs above
\* no SQL.  A name is asked for by a refresh that clears nothing.
FramesInv ==
  \A i \in DOMAIN stack :
    /\ stack[i].running => /\ stack[i].phase = "drain" /\ stack[i].at # 3
                           /\ order[stack[i].at] = "other"
    /\ stack[i].phase # "drain" => stack[i].at = 3
    /\ stack[i].phase = "callback" => stack[i].kind = "refresh"
    /\ stack[i].asked # NoName => stack[i].reason = "unknown-name"
    /\ i < Len(stack) => stack[i].phase # "sql"

\* As long as a call ends one transaction at most, a batch awaits the drain only of
\* the call that committed: a refresh finds nothing to drain, and no code of the
\* program runs between its reading and the snapshot.
QueueInv ==
  "script" \notin uses =>
    /\ queued > 0 => /\ queued = 1 /\ stack # <<>>
                     /\ Top.kind = "call" /\ Top.ended /\ Top.at = 3
    /\ \A i \in DOMAIN stack : stack[i].kind = "refresh" =>
         stack[i].at = 3 /\ (i < Len(stack) => stack[i].phase = "callback" /\ "callback" \in uses)

\* A name a refresh was made for is recorded, or about to be.
OnceInv ==
  uses \intersect {"callback", "script"} = {} => \A n \in Names :
    /\ asks[n] # 0 => /\ asks[n] = 1
                      /\ n \in tried \/ (stack # <<>> /\ Top.phase = "callback" /\ Top.asked = n)
    /\ stack # <<>> /\ Top.kind = "refresh" /\ Top.phase # "callback" /\ Top.asked = n => asks[n] = 0

\* The snapshot is about to be replaced.
Pending ==
  /\ stack # <<>>
  /\ \/ Top.kind = "refresh" /\ Top.phase # "callback"
     \/ armed /\ (queued > 0 \/ Top.at = 1)

\* The snapshot holds the names of the schema, or is about to; in a transaction it
\* holds those the transaction began with.
CurrentInv ==
  Kept =>
    /\ kept = NoName /\ ready \notin Attachable
    /\ ready # NoName => armed /\ SqlRuns
    /\ stack # <<>> => /\ (Top.phase = "sql" /\ Top.ended) \/ queued > 0 \/ Top.at = 1 => tx = "none"
                       /\ Top.kind = "refresh" /\ Top.phase # "callback" => tx = "none"
                       /\ Top.kind = "refresh" /\ Top.phase = "drain" => Top.reading = catalog
    /\ \A i \in DOMAIN stack : i < Len(stack) => stack[i].at # 1
    /\ tx # "none" => /\ map = before /\ (catalog = before \/ armed)
                      /\ catalog \intersect Attachable = before \intersect Attachable
    /\ tx = "none" => map = catalog \/ Pending

IInv == TypeOK /\ OrderInv /\ FramesInv /\ QueueInv /\ OnceInv /\ CurrentInv

=============================================================================
